\* One customer, two coupons, two requests at a time; an admin edits the price
\* and switches coupons while they run, and a request is lost, perhaps while it
\* holds the redemption the other waits for.  Ten per cent of 255 is
\* no whole number, and 50 is below the rupee a coupon must leave.
CONSTANTS
  pct = pct  flat = flat
  Customer = {u1}  Service = {s1}  Coupon = {pct, flat}  Task = {t1, t2}
  CouponRule <- TwoRules
  Prices = {50, 255}
  Caps = {5}
  PauseValues = {FALSE}
  NoCoupon = NoCoupon
  MaxBookings = 2
  MaxFailures = 1
SPECIFICATION FairSpec
INVARIANTS TypeOK OneUsePerUser DealAddsUp
PROPERTY EveryRequestAnswered
