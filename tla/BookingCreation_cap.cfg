\* One customer without coupons, three requests at a time, an admin who moves
\* the cap and pauses bookings.
CONSTANTS
  pct = pct  flat = flat
  Customer = {u1}  Service = {s1}  Coupon = {}  Task = {t1, t2, t3}
  CouponRule <- NoRules
  Prices = {100}
  Caps = {1, 2}
  PauseValues = {TRUE, FALSE}
  NoCoupon = NoCoupon
  MaxBookings = 5
  MaxFailures = 0
SPECIFICATION Spec
SYMMETRY TaskSymmetry
INVARIANTS OvershootBounded PauseLeaksOnlyInFlight
