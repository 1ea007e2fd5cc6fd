\* A service of half a rupee, which the catalogue accepts.
CONSTANTS
  pct = pct  flat = flat
  Customer = {u1}  Service = {s1}  Coupon = {pct}  Task = {t1, t2}
  CouponRule <- OneRule
  Prices = {50, 255}
  Caps = {5}
  PauseValues = {FALSE}
  NoCoupon = NoCoupon
  MaxBookings = 2
  MaxFailures = 0
SPECIFICATION Spec
INVARIANT PreviewAnswers
