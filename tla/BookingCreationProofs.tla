------------------------ MODULE BookingCreationProofs -------------------------
(***************************************************************************)
(* One redemption per coupon and customer, prices that add up, and bounds  *)
(* on what the unlocked cap and pause checks let through, for any number   *)
(* of customers, requests, coupons and prices.                             *)
(*                                                                         *)
(* OneUsePerUser rests on the redemptions' primary key: a transaction that *)
(* has inserted a redemption and not committed is the only one with that   *)
(* key, and nothing is committed under it (Winners).  DealAddsUp rests on  *)
(* what each task has computed (TaskDeal), which no later edit of prices   *)
(* or coupons touches.  Both need the types of the columns they look at.   *)
(* The bounds count requests: those past the count besides the active      *)
(* bookings (Overshoot), those past the pause besides the late bookings;   *)
(* and those that may add a booking besides all bookings, for the types    *)
(* that are left (RoomInv).                                                *)
(***************************************************************************)
EXTENDS BookingCreation, FiniteSetTheorems, WellFoundedInduction, TLAPS

USE CreationAssumption

BookingRow == [by : Customer, coupon : Coupon \cup {NoCoupon},
               active : BOOLEAN, price : Int, discount : Int]

Memory == [cap : Int, base : Int, discount : Int, made : Int]

\* The types of what the argument below looks at.
Typed ==
  /\ cap \in Caps /\ base \in [Service -> Prices \cup {0}]
  /\ bookings \in Seq(BookingRow)
  /\ redeemed \in [Coupon -> [Customer -> Nat]]
  /\ pc \in [Task -> Steps]
  /\ req \in [Task -> Request \cup {NoRequest}]
  /\ \A t \in Task : pc[t] # "idle" => req[t] \in Request
  /\ \A t \in Task : pc[t] \in {"coupon", "used"} => req[t].coupon # NoCoupon
  /\ mem \in [Task -> Memory]

\* Task t has inserted a redemption that is not committed.
Holds(t) == pc[t] = "commit" /\ req[t].coupon # NoCoupon

\* A held redemption is held by one task and not committed yet.
Winners ==
  /\ \A t \in Task : Holds(t) => redeemed[req[t].coupon][req[t].by] = 0
  /\ \A t1, t2 \in Task :
       /\ Holds(t1) /\ Holds(t2)
       /\ req[t1].coupon = req[t2].coupon /\ req[t1].by = req[t2].by
       => t1 = t2

\* The two halves of OneUsePerUser.
BookingsRedeemed ==
  \A i \in DOMAIN bookings : bookings[i].coupon # NoCoupon =>
    redeemed[bookings[i].coupon][bookings[i].by] = i

RedemptionsBooked ==
  \A c \in Coupon, u \in Customer : redeemed[c][u] # 0 =>
    /\ redeemed[c][u] \in DOMAIN bookings
    /\ bookings[redeemed[c][u]].coupon = c
    /\ bookings[redeemed[c][u]].by = u

RedeemInv == Typed /\ Winners /\ BookingsRedeemed /\ RedemptionsBooked

-----------------------------------------------------------------------------
(* Types *)

LEMMA PricesAreIntegers == \A price \in Prices \cup {0} : price \in Int
  OBVIOUS

LEMMA PricesArePositive == \A price \in Prices : price > 0
  OBVIOUS

\* Answering and moving on keep the types.
LEMMA StepTyped ==
  ASSUME Typed, NEW t \in Task, UNCHANGED <<settings, tables>>,
         \/ Answer(t)
         \/ /\ pc[t] # "idle"
            /\ \E step \in Steps \ {"idle"} :
                 /\ Go(t, step)
                 /\ step \in {"coupon", "used"} => req[t].coupon # NoCoupon
            /\ mem' \in [Task -> Memory]
  PROVE  Typed'
<1>1. UNCHANGED <<cap, base, bookings, redeemed>>
  BY DEF settings, tables
<1>2. CASE Answer(t)
  BY <1>1, <1>2 DEF Typed, Answer, Nothing, Steps, Memory
<1>3. CASE ~Answer(t)
  <2> PICK step \in Steps \ {"idle"} :
             /\ Go(t, step)
             /\ step \in {"coupon", "used"} => req[t].coupon # NoCoupon
    BY <1>3
  <2>1. pc' = [pc EXCEPT ![t] = step] /\ req' = req /\ pc[t] # "idle"
    BY <1>3 DEF Go
  <2> QED BY <1>1, <1>3, <2>1 DEF Typed
<1> QED BY <1>2, <1>3

\* A percentage of an integer, rounded down, is an integer.
LEMMA DiscountIsInt ==
  ASSUME NEW c \in Coupon, NEW price \in Int
  PROVE  RawDiscount(c, price) \in Int /\ Discount(c, price) \in Int
<1>1. CouponRule[c].off \in Int
  OBVIOUS
<1>2. price * CouponRule[c].off \in Int
  BY <1>1
<1>3. (price * CouponRule[c].off) \div 100 \in Int
  <2> DEFINE product == price * CouponRule[c].off
  <2> HIDE DEF product
  <2>1. product \in Int => product \div 100 \in Int
    OBVIOUS
  <2> QED BY <1>2, <2>1 DEF product
<1>4. RawDiscount(c, price) \in Int
  BY <1>1, <1>3 DEF RawDiscount
<1> QED BY <1>4 DEF Discount, Floor

\* The booking a COMMIT appends, under the next number.
LEMMA CommitAppends ==
  ASSUME Typed, NEW t \in Task, Commit(t)
  PROVE  LET b == NewBooking(req[t], mem[t])
             n == Len(bookings) + 1
         IN /\ req[t] \in Request /\ pc[t] = "commit" /\ req' = req
            /\ b.by = req[t].by /\ b.coupon = req[t].coupon
            /\ bookings' \in Seq(BookingRow)
            /\ DOMAIN bookings = 1..Len(bookings) /\ DOMAIN bookings' = 1..n
            /\ n \in Nat \ {0} /\ bookings'[n] = b
            /\ \A i \in DOMAIN bookings : bookings'[i] = bookings[i]
<1> DEFINE n == Len(bookings) + 1
           b == NewBooking(req[t], mem[t])
<1>1. pc[t] = "commit" /\ req[t] \in Request /\ req' = req /\ mem[t] \in Memory
  BY DEF Typed, Commit, Go
<1>2. b \in BookingRow /\ b.by = req[t].by /\ b.coupon = req[t].coupon
  BY <1>1 DEF NewBooking, BookingRow, Request, Memory
<1>3. bookings \in Seq(BookingRow) /\ bookings' = Append(bookings, b)
  BY DEF Typed, Commit
<1>4. /\ bookings' \in Seq(BookingRow)
      /\ DOMAIN bookings = 1..Len(bookings) /\ DOMAIN bookings' = 1..n
      /\ n \in Nat \ {0} /\ bookings'[n] = b
      /\ \A i \in DOMAIN bookings : bookings'[i] = bookings[i]
  <2> HIDE DEF b
  <2> QED BY <1>2, <1>3
<1> QED BY <1>1, <1>2, <1>4

\* The redemption a COMMIT files, and the others.
LEMMA CommitFiles ==
  ASSUME Typed, NEW t \in Task, Commit(t)
  PROVE  LET n == Len(bookings) + 1 IN
         /\ redeemed' \in [Coupon -> [Customer -> Nat]]
         /\ req[t].coupon = NoCoupon => redeemed' = redeemed
         /\ req[t].coupon # NoCoupon => redeemed'[req[t].coupon][req[t].by] = n
         /\ \A c \in Coupon, u \in Customer :
              ~(c = req[t].coupon /\ u = req[t].by) => redeemed'[c][u] = redeemed[c][u]
<1>1. req[t] \in Request /\ Len(bookings) + 1 \in Nat
  BY CommitAppends
<1> QED BY <1>1 DEF Typed, Commit, Request

\* What Serve(t) computes are integers.
LEMMA ServeTyped ==
  ASSUME Typed, NEW t \in Task, Serve(t)
  PROVE  Typed'
<1> USE DEF Steps
<1>m. mem \in [Task -> Memory] /\ mem[t] \in Memory
  BY DEF Typed
<1>1. CASE ReadPause(t)
  BY <1>1, <1>m, StepTyped DEF ReadPause
<1>2. CASE ReadCap(t)
  <2>1. cap \in Int
    BY DEF Typed
  <2>2. mem' \in [Task -> Memory]
    BY <1>2, <1>m, <2>1 DEF ReadCap, Memory
  <2> QED BY <1>2, <2>2, StepTyped DEF ReadCap
<1>3. CASE CountActive(t)
  <2>1. [mem EXCEPT ![t].cap = 0] \in [Task -> Memory]
    BY <1>m DEF Memory
  <2> QED BY <1>3, <2>1, StepTyped DEF CountActive
<1>4. CASE ReadPrice(t)
  <2>1. req[t] \in Request
    BY <1>4 DEF ReadPrice, Typed
  <2>2. base[req[t].for] \in Int
    <3>1. req[t].for \in Service
      BY <2>1 DEF Request
    <3>2. base[req[t].for] \in Prices \cup {0}
      BY <3>1 DEF Typed
    <3> QED BY <3>2, PricesAreIntegers
  <2>3. [mem EXCEPT ![t].base = base[req[t].for]] \in [Task -> Memory]
    BY <1>m, <2>2 DEF Memory
  <2>4. pc[t] # "idle" /\ UNCHANGED <<settings, tables>>
    BY <1>4 DEF ReadPrice
  <2>5. CASE base[req[t].for] = 0
    BY <1>4, <2>4, <2>5, StepTyped DEF ReadPrice
  <2>6. CASE base[req[t].for] # 0
    <3>1. /\ mem' \in [Task -> Memory]
          /\ Go(t, IF req[t].coupon = NoCoupon THEN "tx" ELSE "coupon")
      BY <1>4, <2>3, <2>6 DEF ReadPrice
    <3> QED BY <2>4, <3>1, StepTyped
  <2> QED BY <2>5, <2>6
<1>5. CASE ReadCoupon(t)
  <2>1. pc[t] # "idle" /\ UNCHANGED <<settings, tables>>
    BY <1>5 DEF ReadCoupon
  <2>2. Answer(t) \/ (Go(t, "used") /\ mem' = mem /\ req[t].coupon # NoCoupon)
    BY <1>5 DEF ReadCoupon, Typed
  <2> QED BY <1>m, <2>1, <2>2, StepTyped
<1>6. CASE Quote(t)
  <2>1. req[t] \in Request /\ mem[t].base \in Int
    BY <1>6, <1>m DEF Quote, Typed, Memory
  <2>2. CASE Answer(t)
    BY <1>6, <2>2, StepTyped DEF Quote
  <2>3. CASE Go(t, "panic") /\ UNCHANGED mem
    BY <1>6, <1>m, <2>3, StepTyped DEF Quote
  <2>4. CASE /\ mem' = [mem EXCEPT ![t].discount = Discount(req[t].coupon, mem[t].base)]
             /\ Go(t, "tx")
    <3>1. req[t].coupon \in Coupon
      BY <1>6, <2>1 DEF Quote, Typed, Request
    <3>2. mem' \in [Task -> Memory]
      BY <1>m, <2>1, <2>4, <3>1, DiscountIsInt DEF Memory
    <3>3. pc[t] # "idle" /\ UNCHANGED <<settings, tables>>
      BY <1>6 DEF Quote
    <3> QED BY <2>4, <3>2, <3>3, StepTyped
  <2> QED BY <1>6, <2>2, <2>3, <2>4 DEF Quote
<1>7. CASE Unwind(t)
  BY <1>7, StepTyped DEF Unwind
<1>8. CASE Redeem(t)
  <2>1. pc[t] # "idle" /\ UNCHANGED <<settings, tables>>
    BY <1>8 DEF Redeem
  <2>2. Answer(t) \/ (Go(t, "commit") /\ mem' = mem)
    BY <1>8 DEF Redeem
  <2> QED BY <1>m, <2>1, <2>2, StepTyped
<1>9. CASE Commit(t)
  <2>1. /\ bookings' \in Seq(BookingRow) /\ redeemed' \in [Coupon -> [Customer -> Nat]]
        /\ Len(bookings) + 1 \in Int
    BY <1>9, CommitAppends, CommitFiles
  <2>2. mem' \in [Task -> Memory]
    BY <1>9, <1>m, <2>1 DEF Commit, Nothing, Memory
  <2> QED BY <1>9, <2>1, <2>2 DEF Commit, Go, Typed, settings
<1>10. CASE Log(t)
  BY <1>10, StepTyped DEF Log
<1> QED BY <1>1, <1>2, <1>3, <1>4, <1>5, <1>6, <1>7, <1>8, <1>9, <1>10 DEF Serve

\* A booking that ends keeps its customer, its coupon and its price.
LEMMA FinishKeeps ==
  ASSUME Typed, NEW i \in DOMAIN bookings, Finish(i)
  PROVE  /\ bookings' \in Seq(BookingRow) /\ DOMAIN bookings' = DOMAIN bookings
         /\ \A j \in DOMAIN bookings :
              /\ bookings'[j].coupon = bookings[j].coupon
              /\ bookings'[j].by = bookings[j].by
              /\ bookings'[j].price = bookings[j].price
              /\ bookings'[j].discount = bookings[j].discount
<1> DEFINE b == [bookings[i] EXCEPT !.active = FALSE]
<1>1. bookings[i] \in BookingRow /\ bookings \in Seq(BookingRow)
  BY DEF Typed
<1>2. /\ b \in BookingRow /\ b.coupon = bookings[i].coupon /\ b.by = bookings[i].by
      /\ b.price = bookings[i].price /\ b.discount = bookings[i].discount
  BY <1>1 DEF BookingRow
<1>3. bookings' = [bookings EXCEPT ![i] = b]
  BY DEF Finish
<1> HIDE DEF b
<1> QED BY <1>1, <1>2, <1>3

\* Admins change settings and prices within their types; bookings that end
\* keep their customer and coupon.
LEMMA EnvironmentTyped ==
  ASSUME Typed, Environment
  PROVE  Typed' /\ UNCHANGED <<redeemed, pc, req>>
<1>1. CASE SetPaused \/ SetCap \/ (\E c \in Coupon : UpdateCoupon(c))
  BY <1>1 DEF SetPaused, SetCap, UpdateCoupon, Typed, tables
<1>2. CASE \E s \in Service : UpdateService(s)
  BY <1>2 DEF UpdateService, Typed, tables
<1>3. ASSUME NEW i \in DOMAIN bookings, Finish(i)
      PROVE  Typed' /\ UNCHANGED <<redeemed, pc, req>>
  BY <1>3, FinishKeeps DEF Finish, Typed, settings
<1> QED BY <1>1, <1>2, <1>3 DEF Environment

-----------------------------------------------------------------------------
(* Redemptions *)

\* A step that leaves no task holding a redemption it did not hold before.
LEMMA NobodyTakes ==
  ASSUME RedeemInv, Typed', UNCHANGED tables,
         \A s \in Task : Holds(s)' => Holds(s) /\ req'[s] = req[s]
  PROVE  RedeemInv'
<1>0. UNCHANGED <<bookings, redeemed>>
  BY DEF tables
<1>1. Winners'
  BY <1>0 DEF RedeemInv, Winners
<1>2. BookingsRedeemed' /\ RedemptionsBooked'
  BY <1>0 DEF RedeemInv, BookingsRedeemed, RedemptionsBooked
<1>3. Typed'
  OBVIOUS
<1> QED BY <1>1, <1>2, <1>3 DEF RedeemInv

\* The redemption is inserted only when nobody holds or has the key.
LEMMA RedeemWins ==
  ASSUME RedeemInv, Typed', NEW t \in Task, Redeem(t)
  PROVE  RedeemInv'
<1>1. CASE Answer(t)
  <2>1. \A s \in Task : Holds(s)' => Holds(s) /\ req'[s] = req[s]
    BY <1>1 DEF RedeemInv, Typed, Answer, Holds
  <2> QED BY <2>1, NobodyTakes DEF Redeem
<1>2. CASE ~Answer(t)
  <2>1. Go(t, "commit") /\ redeemed' = redeemed /\ bookings' = bookings /\ pc[t] = "tx"
    BY <1>2 DEF Redeem, tables
  <2>2. /\ req' = req
        /\ \A s \in Task : s # t => (Holds(s)' <=> Holds(s))
    BY <2>1 DEF RedeemInv, Typed, Go, Holds
  <2>3. CASE req[t].coupon = NoCoupon
    <3>1. ~Holds(t)'
      BY <2>2, <2>3 DEF Holds
    <3> QED BY <2>1, <2>2, <3>1, NobodyTakes DEF tables
  <2>4. CASE req[t].coupon # NoCoupon
    <3>1. ~Held(req[t].coupon, req[t].by) /\ redeemed[req[t].coupon][req[t].by] = 0
      BY <1>2, <2>4 DEF Redeem, Conflicts
    <3>2. \A s \in Task : Holds(s) =>
             ~(req[s].coupon = req[t].coupon /\ req[s].by = req[t].by)
      BY <3>1 DEF Held, Holds
    <3>3. Winners'
      BY <2>1, <2>2, <3>1, <3>2 DEF RedeemInv, Winners
    <3> QED BY <2>1, <3>3 DEF RedeemInv, BookingsRedeemed, RedemptionsBooked
  <2> QED BY <2>3, <2>4
<1> QED BY <1>1, <1>2

-----------------------------------------------------------------------------
(* The steps that change them *)

\* The COMMIT appends the booking under the next number and files the
\* redemption it holds under that number.
LEMMA CommitRedeems ==
  ASSUME RedeemInv, Typed', NEW t \in Task, Commit(t)
  PROVE  RedeemInv'
<1> DEFINE n == Len(bookings) + 1
           b == NewBooking(req[t], mem[t])
<1>0. Typed
  BY DEF RedeemInv
<1>1. pc[t] = "commit" /\ req[t] \in Request /\ req' = req
  BY <1>0, CommitAppends
<1>2. b.by = req[t].by /\ b.coupon = req[t].coupon
  BY <1>0, CommitAppends
<1>3. /\ DOMAIN bookings = 1..Len(bookings) /\ DOMAIN bookings' = 1..n
      /\ n \in Nat \ {0} /\ bookings'[n] = b
      /\ \A i \in DOMAIN bookings : bookings'[i] = bookings[i]
  BY <1>0, CommitAppends
<1>4. /\ req[t].coupon = NoCoupon => redeemed' = redeemed
      /\ req[t].coupon # NoCoupon => redeemed'[req[t].coupon][req[t].by] = n
      /\ \A c \in Coupon, u \in Customer :
           ~(c = req[t].coupon /\ u = req[t].by) => redeemed'[c][u] = redeemed[c][u]
  BY <1>0, CommitFiles
<1> HIDE DEF n, b
<1>6. \A s \in Task : Holds(s)' => Holds(s) /\ s # t
  BY <1>1 DEF RedeemInv, Typed, Commit, Go, Holds
<1>7. Winners'
  <2>1. \A s \in Task : Holds(s)' => redeemed'[req'[s].coupon][req'[s].by] = 0
    <3> SUFFICES ASSUME NEW s \in Task, Holds(s)'
                 PROVE  redeemed'[req[s].coupon][req[s].by] = 0
      BY <1>1
    <3>1. Holds(s) /\ s # t /\ req[s] \in Request /\ redeemed[req[s].coupon][req[s].by] = 0
      BY <1>6 DEF RedeemInv, Winners, Typed, Holds
    <3>2. ~(req[s].coupon = req[t].coupon /\ req[s].by = req[t].by)
      BY <1>1, <3>1 DEF RedeemInv, Winners, Holds
    <3> QED BY <1>4, <3>1, <3>2 DEF Request, Holds
  <2> QED BY <1>1, <1>6, <2>1 DEF RedeemInv, Winners
<1>8. BookingsRedeemed'
  <2> SUFFICES ASSUME NEW i \in DOMAIN bookings', bookings'[i].coupon # NoCoupon
               PROVE  redeemed'[bookings'[i].coupon][bookings'[i].by] = i
    BY DEF BookingsRedeemed
  <2>1. CASE i = n
    BY <1>2, <1>3, <1>4, <2>1
  <2>2. CASE i # n
    <3>1. i \in DOMAIN bookings /\ bookings'[i] = bookings[i] /\ i \in Nat \ {0}
      BY <1>3, <2>2 DEF n, RedeemInv, Typed
    <3>2. bookings[i] \in BookingRow
      BY <3>1 DEF RedeemInv, Typed
    <3>3. redeemed[bookings[i].coupon][bookings[i].by] = i
      BY <3>1 DEF RedeemInv, BookingsRedeemed
    <3>4. ~(bookings[i].coupon = req[t].coupon /\ bookings[i].by = req[t].by)
      BY <1>1, <3>1, <3>3 DEF RedeemInv, Winners, Holds
    <3> QED BY <1>4, <3>1, <3>2, <3>3, <3>4 DEF BookingRow
  <2> QED BY <2>1, <2>2
<1>9. RedemptionsBooked'
  <2> SUFFICES ASSUME NEW c \in Coupon, NEW u \in Customer, redeemed'[c][u] # 0
               PROVE  /\ redeemed'[c][u] \in DOMAIN bookings'
                      /\ bookings'[redeemed'[c][u]].coupon = c
                      /\ bookings'[redeemed'[c][u]].by = u
    BY DEF RedemptionsBooked
  <2>1. CASE c = req[t].coupon /\ u = req[t].by
    BY <1>2, <1>3, <1>4, <2>1
  <2>2. CASE ~(c = req[t].coupon /\ u = req[t].by)
    <3>1. redeemed'[c][u] = redeemed[c][u]
      BY <1>4, <2>2
    <3>2. /\ redeemed[c][u] \in DOMAIN bookings
          /\ bookings[redeemed[c][u]].coupon = c
          /\ bookings[redeemed[c][u]].by = u
      BY <3>1 DEF RedeemInv, RedemptionsBooked
    <3> QED BY <1>3, <3>1, <3>2 DEF n
  <2> QED BY <2>1, <2>2
<1> QED BY <1>7, <1>8, <1>9 DEF RedeemInv

-----------------------------------------------------------------------------
(* The theorem *)

\* No other step of a task makes it hold a redemption.
LEMMA ServeRedeems ==
  ASSUME RedeemInv, NEW t \in Task, Serve(t)
  PROVE  RedeemInv'
<1>0. Typed'
  BY ServeTyped DEF RedeemInv
<1>1. CASE Redeem(t)
  BY <1>0, <1>1, RedeemWins
<1>2. CASE Commit(t)
  BY <1>0, <1>2, CommitRedeems
<1>3. CASE ~Redeem(t) /\ ~Commit(t)
  <2>1. UNCHANGED tables
    BY <1>3 DEF Serve, ReadPause, ReadCap, CountActive, ReadPrice, ReadCoupon,
                Quote, Unwind, Log
  <2>2. Answer(t) \/ \E step \in Steps \ {"commit"} : Go(t, step)
    BY <1>3 DEF Serve, ReadPause, ReadCap, CountActive, ReadPrice, ReadCoupon,
                Quote, Unwind, Log, Steps
  <2>3. \A s \in Task : Holds(s)' => Holds(s) /\ req'[s] = req[s]
    BY <2>2 DEF RedeemInv, Typed, Answer, Go, Holds
  <2> QED BY <1>0, <2>1, <2>3, NobodyTakes
<1> QED BY <1>1, <1>2, <1>3

\* RedeemInv is inductive.
LEMMA RedeemInductive ==
  ASSUME RedeemInv, [Next]_vars
  PROVE  RedeemInv'
<1>1. ASSUME NEW t \in Task, NEW r \in Request, Begin(t, r)
      PROVE  RedeemInv'
  <2>1. Typed' /\ UNCHANGED tables
    BY <1>1 DEF RedeemInv, Typed, Begin, settings, tables, Steps
  <2>2. \A s \in Task : Holds(s)' => Holds(s) /\ req'[s] = req[s]
    BY <1>1 DEF RedeemInv, Typed, Begin, Holds
  <2> QED BY <2>1, <2>2, NobodyTakes
<1>2. ASSUME NEW t \in Task, Fail(t)
      PROVE  RedeemInv'
  <2>1. Typed' /\ UNCHANGED tables
    BY <1>2, StepTyped DEF RedeemInv, Fail
  <2>2. \A s \in Task : Holds(s)' => Holds(s) /\ req'[s] = req[s]
    BY <1>2 DEF RedeemInv, Typed, Fail, Answer, Holds
  <2> QED BY <2>1, <2>2, NobodyTakes
<1>3. CASE Environment
  <2>1. Typed' /\ UNCHANGED <<redeemed, pc, req>>
    BY <1>3, EnvironmentTyped DEF RedeemInv
  <2>2. Winners'
    BY <2>1 DEF RedeemInv, Winners, Holds
  <2>3. /\ DOMAIN bookings' = DOMAIN bookings
        /\ \A j \in DOMAIN bookings : /\ bookings'[j].coupon = bookings[j].coupon
                                       /\ bookings'[j].by = bookings[j].by
    BY <1>3, FinishKeeps
       DEF RedeemInv, Environment, SetPaused, SetCap, UpdateService, UpdateCoupon, tables
  <2>4. BookingsRedeemed' /\ RedemptionsBooked'
    BY <2>1, <2>3 DEF RedeemInv, BookingsRedeemed, RedemptionsBooked
  <2> QED BY <2>1, <2>2, <2>4 DEF RedeemInv
<1>4. CASE UNCHANGED vars
  BY <1>4 DEF vars, settings, tables, RedeemInv, Typed, Winners, Holds,
              BookingsRedeemed, RedemptionsBooked
<1> QED BY <1>1, <1>2, <1>3, <1>4, ServeRedeems DEF Next

LEMMA RedeemInitially == Init => RedeemInv
<1> SUFFICES ASSUME Init PROVE RedeemInv
  OBVIOUS
<1>1. Typed
  BY DEF Init, Typed, Nothing, Memory, Steps
<1>2. Winners /\ BookingsRedeemed /\ RedemptionsBooked
  BY DEF Init, Winners, Holds, BookingsRedeemed, RedemptionsBooked
<1> QED BY <1>1, <1>2 DEF RedeemInv

\* "one use per user, ever": no customer has two bookings with the same
\* coupon, and every redemption has its booking.
THEOREM OneUsePerUserEver == Spec => []OneUsePerUser
<1>1. RedeemInv => OneUsePerUser
  BY DEF RedeemInv, BookingsRedeemed, RedemptionsBooked, OneUsePerUser
<1> QED BY <1>1, RedeemInitially, RedeemInductive, PTL DEF Spec

-----------------------------------------------------------------------------
(* Prices *)

\* The coupon c takes discount off price, and leaves at least a rupee to pay.
Agreed(c, price, discount) ==
  /\ price \in Prices
  /\ c = NoCoupon => discount = 0
  /\ c # NoCoupon =>
       /\ price - discount >= Floor
       /\ discount <= RawDiscount(c, price)
       /\ price - discount > Floor => discount = RawDiscount(c, price)

\* What task t has computed so far.
TaskDeal(t) ==
  /\ pc[t] \in {"idle", "pause", "cap", "count", "price", "coupon", "used"} =>
       mem[t].discount = 0
  /\ pc[t] \in {"coupon", "used"} => mem[t].base \in Prices
  /\ pc[t] \in {"tx", "commit"} =>
       Agreed(req[t].coupon, mem[t].base, mem[t].discount)

BookedDeals ==
  \A i \in DOMAIN bookings :
    Agreed(bookings[i].coupon, bookings[i].price + bookings[i].discount,
           bookings[i].discount)

DealInv == Typed /\ (\A t \in Task : TaskDeal(t)) /\ BookedDeals

\* The clamp in preview: a discount is the coupon's, cut at one rupee.
LEMMA DiscountAgreed ==
  ASSUME NEW c \in Coupon, NEW price \in Prices, Clampable(price)
  PROVE  Agreed(c, price, Discount(c, price))
<1>1. price \in Int /\ c # NoCoupon
  BY PricesAreIntegers
<1>2. RawDiscount(c, price) \in Int
  BY <1>1, DiscountIsInt
<1> QED BY <1>1, <1>2 DEF Agreed, Discount, Clampable, Floor

\* A step of one task leaves the others' deals alone.
LEMMA OthersDeals ==
  ASSUME DealInv, NEW t \in Task,
         Answer(t) \/ (\E step \in Steps : Go(t, step)),
         \A s \in Task : s # t => mem'[s] = mem[s]
  PROVE  \A s \in Task : s # t => TaskDeal(s)'
<1> SUFFICES ASSUME NEW s \in Task, s # t
             PROVE  TaskDeal(s)'
  OBVIOUS
<1>1. pc'[s] = pc[s] /\ req'[s] = req[s] /\ mem'[s] = mem[s]
  BY DEF DealInv, Typed, Answer, Go
<1> QED BY <1>1 DEF DealInv, TaskDeal, Agreed, RawDiscount

\* A task that has answered has computed nothing.
LEMMA AnswerDeals ==
  ASSUME Typed, NEW t \in Task, Answer(t)
  PROVE  TaskDeal(t)'
BY DEF Typed, Answer, TaskDeal, Nothing

LEMMA GoArrives ==
  ASSUME Typed, NEW t \in Task, NEW step, Go(t, step)
  PROVE  pc'[t] = step /\ req'[t] = req[t]
BY DEF Typed, Go

\* Every step of a task keeps what it has computed a deal.
LEMMA ServeDeals ==
  ASSUME DealInv, NEW t \in Task, Serve(t)
  PROVE  TaskDeal(t)' /\ \A s \in Task : s # t => TaskDeal(s)'
<1>1. Answer(t) \/ (\E step \in Steps : Go(t, step))
  BY DEF Serve, ReadPause, ReadCap, CountActive, ReadPrice, ReadCoupon, Quote,
         Unwind, Redeem, Commit, Log, Steps
<1>2. \A s \in Task : s # t => mem'[s] = mem[s]
  BY DEF Serve, ReadPause, ReadCap, CountActive, ReadPrice, ReadCoupon, Quote,
         Unwind, Redeem, Commit, Log, Answer, DealInv, Typed
<1>3. \A s \in Task : s # t => TaskDeal(s)'
  BY <1>1, <1>2, OthersDeals
<1>4. Typed /\ TaskDeal(t) /\ mem[t] \in Memory
  BY DEF DealInv, Typed
<1>5. CASE Answer(t)
  BY <1>3, <1>4, <1>5, AnswerDeals
<1>6. CASE ~Answer(t)
  <2>1. CASE ReadPause(t)
    <3>1. Go(t, "cap") /\ mem' = mem /\ mem[t].discount = 0
      BY <1>4, <1>6, <2>1 DEF ReadPause, TaskDeal
    <3> QED BY <1>3, <1>4, <3>1, GoArrives DEF TaskDeal
  <2>2. CASE ReadCap(t)
    <3>1. Go(t, "count") /\ mem'[t].discount = 0
      BY <1>4, <2>2 DEF ReadCap, TaskDeal, Typed, Memory
    <3> QED BY <1>3, <1>4, <3>1, GoArrives DEF TaskDeal
  <2>3. CASE CountActive(t)
    <3>1. Go(t, "price") /\ mem'[t].discount = 0
      BY <1>4, <1>6, <2>3 DEF CountActive, TaskDeal, Typed, Memory
    <3> QED BY <1>3, <1>4, <3>1, GoArrives DEF TaskDeal
  <2>4. CASE ReadPrice(t)
    <3>1. /\ mem' = [mem EXCEPT ![t].base = base[req[t].for]]
          /\ pc' = [pc EXCEPT ![t] = IF req[t].coupon = NoCoupon THEN "tx" ELSE "coupon"]
          /\ req' = req /\ pc[t] = "price" /\ base[req[t].for] # 0
      BY <1>6, <2>4 DEF ReadPrice, Go
    <3>2. base[req[t].for] \in Prices
      <4>1. req[t].for \in Service
        BY <1>4, <3>1 DEF Typed, Request
      <4> QED BY <1>4, <3>1, <4>1 DEF Typed
    <3>3. /\ mem'[t].base = base[req[t].for] /\ mem'[t].discount = 0
      BY <1>4, <3>1 DEF Typed, TaskDeal, Memory
    <3>4. /\ req[t].coupon = NoCoupon => pc'[t] = "tx"
          /\ req[t].coupon # NoCoupon => pc'[t] = "coupon"
      BY <1>4, <3>1 DEF Typed
    <3>5. req[t].coupon = NoCoupon =>
            Agreed(req'[t].coupon, mem'[t].base, mem'[t].discount)
      BY <3>1, <3>2, <3>3 DEF Agreed
    <3> QED BY <1>3, <3>1, <3>2, <3>3, <3>4, <3>5 DEF TaskDeal
  <2>5. CASE ReadCoupon(t)
    <3>1. Go(t, "used") /\ mem' = mem /\ mem[t].discount = 0 /\ mem[t].base \in Prices
      BY <1>4, <1>6, <2>5 DEF ReadCoupon, TaskDeal
    <3> QED BY <1>3, <1>4, <3>1, GoArrives DEF TaskDeal
  <2>6. CASE Quote(t)
    <3>1. CASE Go(t, "panic")
      BY <1>3, <1>4, <3>1, GoArrives DEF TaskDeal
    <3>2. CASE ~Go(t, "panic")
      <4>1. /\ mem' = [mem EXCEPT ![t].discount = Discount(req[t].coupon, mem[t].base)]
            /\ pc' = [pc EXCEPT ![t] = "tx"]
            /\ req' = req /\ pc[t] = "used" /\ Clampable(mem[t].base)
        BY <1>6, <2>6, <3>2 DEF Quote, Go
      <4>2. req[t].coupon \in Coupon /\ mem[t].base \in Prices
        BY <1>4, <4>1 DEF Typed, TaskDeal, Request
      <4>3. /\ mem'[t].base = mem[t].base /\ pc'[t] = "tx"
            /\ mem'[t].discount = Discount(req[t].coupon, mem[t].base)
        BY <1>4, <4>1 DEF Typed, Memory
      <4>4. Agreed(req[t].coupon, mem[t].base, Discount(req[t].coupon, mem[t].base))
        BY <4>1, <4>2, DiscountAgreed
      <4>5. Agreed(req'[t].coupon, mem'[t].base, mem'[t].discount)
        BY <4>1, <4>3, <4>4
      <4> QED BY <1>3, <4>3, <4>5 DEF TaskDeal
    <3> QED BY <3>1, <3>2
  <2>7. CASE Redeem(t)
    <3>1. pc[t] = "tx" /\ Go(t, "commit") /\ req' = req /\ mem' = mem
      BY <1>6, <2>7 DEF Redeem, Go
    <3>2. Agreed(req'[t].coupon, mem'[t].base, mem'[t].discount)
      BY <1>4, <3>1 DEF TaskDeal
    <3> QED BY <1>3, <1>4, <3>1, <3>2, GoArrives DEF TaskDeal
  <2>8. CASE Commit(t)
    <3>1. Go(t, "log")
      BY <2>8 DEF Commit
    <3> QED BY <1>3, <1>4, <3>1, GoArrives DEF TaskDeal
  <2> QED BY <1>6, <2>1, <2>2, <2>3, <2>4, <2>5, <2>6, <2>7, <2>8 DEF Serve, Unwind, Log
<1> QED BY <1>3, <1>5, <1>6

\* What is committed is the deal the task computed.
LEMMA CommitDeals ==
  ASSUME DealInv, Typed', NEW t \in Task, Commit(t)
  PROVE  BookedDeals'
<1> DEFINE n == Len(bookings) + 1
           b == NewBooking(req[t], mem[t])
<1>1. Typed /\ TaskDeal(t) /\ mem[t] \in Memory
  BY DEF DealInv, Typed
<1>2. /\ DOMAIN bookings = 1..Len(bookings) /\ DOMAIN bookings' = 1..n
      /\ n \in Nat \ {0} /\ bookings'[n] = b
      /\ \A i \in DOMAIN bookings : bookings'[i] = bookings[i]
  BY <1>1, CommitAppends
<1>3. b.coupon = req[t].coupon /\ b.discount = mem[t].discount
  BY DEF NewBooking
<1>4. b.price + b.discount = mem[t].base
  BY <1>1 DEF NewBooking, Memory
<1>5. Agreed(b.coupon, b.price + b.discount, b.discount)
  BY <1>1, <1>3, <1>4 DEF TaskDeal, Commit
<1> HIDE DEF n, b
<1> SUFFICES ASSUME NEW i \in DOMAIN bookings'
             PROVE  Agreed(bookings'[i].coupon, bookings'[i].price + bookings'[i].discount,
                           bookings'[i].discount)
  BY DEF BookedDeals
<1>6. CASE i = n
  BY <1>2, <1>5, <1>6
<1>7. CASE i # n
  <2>1. i \in DOMAIN bookings
    BY <1>1, <1>2, <1>7 DEF n, Typed
  <2> QED BY <1>2, <2>1 DEF DealInv, BookedDeals
<1> QED BY <1>6, <1>7

\* DealInv is inductive.
LEMMA DealInductive ==
  ASSUME DealInv, [Next]_vars
  PROVE  DealInv'
<1>0. Typed
  BY DEF DealInv
<1>1. ASSUME NEW t \in Task, Serve(t)
      PROVE  DealInv'
  <2>1. Typed' /\ \A s \in Task : TaskDeal(s)'
    BY <1>0, <1>1, ServeTyped, ServeDeals
  <2>2. CASE Commit(t)
    BY <2>1, <2>2, CommitDeals DEF DealInv
  <2>3. CASE ~Commit(t)
    <3>1. bookings' = bookings
      BY <1>1, <2>3 DEF Serve, ReadPause, ReadCap, CountActive, ReadPrice, ReadCoupon,
                        Quote, Unwind, Redeem, Log, tables
    <3> QED BY <2>1, <3>1 DEF DealInv, BookedDeals
  <2> QED BY <2>2, <2>3
<1>2. ASSUME NEW t \in Task, NEW r \in Request, Begin(t, r)
      PROVE  DealInv'
  <2>1. Typed' /\ bookings' = bookings
    BY <1>0, <1>2 DEF Typed, Begin, settings, tables, Steps
  <2>2. \A s \in Task : s # t => pc'[s] = pc[s] /\ req'[s] = req[s] /\ mem'[s] = mem[s]
    BY <1>0, <1>2 DEF Typed, Begin
  <2>3. \A s \in Task : s # t => TaskDeal(s)'
    BY <2>2 DEF DealInv, TaskDeal
  <2>4. pc[t] = "idle" /\ pc'[t] = "pause" /\ mem' = mem
    BY <1>0, <1>2 DEF Typed, Begin
  <2>5. TaskDeal(t)'
    BY <2>4 DEF DealInv, TaskDeal
  <2> QED BY <2>1, <2>3, <2>5 DEF DealInv, BookedDeals
<1>3. ASSUME NEW t \in Task, Fail(t)
      PROVE  DealInv'
  <2>1. Answer(t) /\ UNCHANGED <<settings, tables>>
    BY <1>3 DEF Fail
  <2>2. Typed' /\ TaskDeal(t)' /\ bookings' = bookings
    BY <1>0, <2>1, StepTyped, AnswerDeals DEF tables
  <2>3. \A s \in Task : s # t => mem'[s] = mem[s]
    BY <1>0, <2>1 DEF Answer, Typed
  <2>4. \A s \in Task : s # t => TaskDeal(s)'
    BY <2>1, <2>3, OthersDeals
  <2> QED BY <2>2, <2>4 DEF DealInv, BookedDeals
<1>4. CASE Environment
  <2>1. Typed' /\ UNCHANGED <<pc, req>>
    BY <1>0, <1>4, EnvironmentTyped
  <2>2. mem' = mem
    BY <1>4 DEF Environment, SetPaused, SetCap, UpdateService, UpdateCoupon, Finish
  <2>3. /\ DOMAIN bookings' = DOMAIN bookings
        /\ \A j \in DOMAIN bookings : /\ bookings'[j].coupon = bookings[j].coupon
                                       /\ bookings'[j].price = bookings[j].price
                                       /\ bookings'[j].discount = bookings[j].discount
    BY <1>0, <1>4, FinishKeeps
       DEF Environment, SetPaused, SetCap, UpdateService, UpdateCoupon, tables
  <2>4. \A s \in Task : TaskDeal(s)'
    BY <2>1, <2>2 DEF DealInv, TaskDeal
  <2>5. BookedDeals'
    BY <2>3 DEF DealInv, BookedDeals
  <2> QED BY <2>1, <2>4, <2>5 DEF DealInv
<1>5. CASE UNCHANGED vars
  <2>1. UNCHANGED <<cap, base, bookings, redeemed, pc, req, mem>>
    BY <1>5 DEF vars, settings, tables
  <2>2. Typed'
    BY <1>0, <2>1 DEF Typed
  <2> QED BY <2>1, <2>2 DEF DealInv, TaskDeal, BookedDeals
<1> QED BY <1>1, <1>2, <1>3, <1>4, <1>5 DEF Next

LEMMA DealInitially == Init => DealInv
<1> SUFFICES ASSUME Init PROVE DealInv
  OBVIOUS
<1>1. Typed
  BY DEF Init, Typed, Nothing, Memory, Steps
<1>2. (\A t \in Task : TaskDeal(t)) /\ BookedDeals
  BY DEF Init, TaskDeal, BookedDeals, Nothing
<1> QED BY <1>1, <1>2 DEF DealInv

LEMMA DealsAddUp == DealInv => DealAddsUp
<1> SUFFICES ASSUME DealInv, NEW i \in DOMAIN bookings
             PROVE  LET b == bookings[i] IN
                    /\ b.price + b.discount \in Prices
                    /\ b.price > 0
                    /\ b.coupon = NoCoupon => b.discount = 0
                    /\ b.coupon # NoCoupon =>
                         /\ b.price >= Floor
                         /\ b.discount <= RawDiscount(b.coupon, b.price + b.discount)
                         /\ b.price > Floor =>
                              b.discount = RawDiscount(b.coupon, b.price + b.discount)
  BY DEF DealAddsUp
<1> DEFINE price == bookings[i].price
           discount == bookings[i].discount
           total == price + discount
<1>1. bookings[i] \in BookingRow
  BY DEF DealInv, Typed
<1>2. price \in Int /\ discount \in Int /\ total - discount = price
  BY <1>1 DEF BookingRow
<1>3. Agreed(bookings[i].coupon, total, discount)
  BY DEF DealInv, BookedDeals
<1>4. price > 0
  <2>1. CASE bookings[i].coupon = NoCoupon
    <3>1. discount = 0 /\ total \in Prices
      BY <1>3, <2>1 DEF Agreed
    <3>2. total > 0
      BY <3>1, PricesArePositive
    <3> QED BY <1>2, <3>1, <3>2
  <2>2. CASE bookings[i].coupon # NoCoupon
    BY <1>2, <1>3, <2>2 DEF Agreed, Floor
  <2> QED BY <2>1, <2>2
<1> QED BY <1>2, <1>3, <1>4 DEF Agreed

\* Every booked price and discount are one deal: they add up to a price the
\* service had when it was read, and a discount leaves at least a rupee.
THEOREM DealsAlwaysAddUp == Spec => []DealAddsUp
BY DealsAddUp, DealInitially, DealInductive, PTL DEF Spec

-----------------------------------------------------------------------------
(* How far the unlocked checks overshoot *)

\* The requests of u that may still add a booking to those they have counted.
PastCount(u) ==
  {t \in Task : pc[t] \in {"price", "coupon", "used", "panic", "tx", "commit"} /\ req[t].by = u}

CapRead == \A t \in Task : pc[t] = "count" => mem[t].cap \in Caps

Overshoot(u) ==
  Cardinality(ActiveOf(u)) + Cardinality(PastCount(u)) <= Max(Caps) + Cardinality(Task) - 1

OvershootInv == RedeemInv /\ CapRead /\ \A u \in Customer : Overshoot(u)

\* Caps is a set of numbers up to 100, so there is a largest one.
LEMMA LargestCap == /\ Max(Caps) \in Caps /\ \A c \in Caps : c <= Max(Caps)
                    /\ Max(Caps) \in Int /\ Max(Caps) >= 1
<1> DEFINE Below == {100 - c : c \in Caps}
<1>1. Below \subseteq Nat /\ Below # {}
  <2>1. \A c \in Caps : 100 - c \in Nat
    OBVIOUS
  <2>2. PICK c \in Caps : TRUE
    OBVIOUS
  <2> QED BY <2>1, <2>2
<1>2. PICK x \in Below : \A y \in Below : ~(<<y, x>> \in OpToRel(<, Nat))
  BY <1>1, NatLessThanWellFounded, WFMin
<1>3. \A y \in Below : ~(y < x)
  BY <1>1, <1>2 DEF OpToRel
<1>4. PICK m \in Caps : x = 100 - m
  OBVIOUS
<1>5. \A c \in Caps : m >= c
  <2> SUFFICES ASSUME NEW c \in Caps PROVE m >= c
    OBVIOUS
  <2>1. 100 - c \in Below
    OBVIOUS
  <2>2. ~(100 - c < 100 - m)
    BY <1>3, <1>4, <2>1
  <2> QED BY <2>2
<1>6. \E z \in Caps : \A y \in Caps : z >= y
  BY <1>5
<1>7. Max(Caps) \in Caps /\ \A y \in Caps : Max(Caps) >= y
  BY <1>6 DEF Max
<1>8. \A c \in Caps : c \in Int /\ c >= 1
  OBVIOUS
<1>9. \A c, d \in Int : d >= c => c <= d
  OBVIOUS
<1> HIDE DEF Below
<1> QED BY <1>7, <1>8, <1>9

LEMMA CountsAreNumbers ==
  ASSUME Typed, NEW u \in Customer
  PROVE  /\ IsFiniteSet(ActiveOf(u)) /\ Cardinality(ActiveOf(u)) \in Nat
         /\ IsFiniteSet(PastCount(u)) /\ Cardinality(PastCount(u)) \in Nat
         /\ Cardinality(PastCount(u)) <= Cardinality(Task) /\ Cardinality(Task) \in Nat
         /\ ActiveOf(u) \subseteq 1..Len(bookings)
<1>1. DOMAIN bookings = 1..Len(bookings) /\ Len(bookings) \in Nat
  BY DEF Typed
<1>2. IsFiniteSet(1..Len(bookings)) /\ ActiveOf(u) \subseteq 1..Len(bookings)
  BY <1>1, FS_Interval DEF ActiveOf
<1>3. PastCount(u) \subseteq Task
  BY DEF PastCount
<1> QED BY <1>2, <1>3, FS_Subset, FS_CardinalityType

\* A step that neither starts a booking nor lets a request past the count.
LEMMA NobodyCounts ==
  ASSUME Typed, Typed', NEW u \in Customer, Overshoot(u),
         ActiveOf(u)' \subseteq ActiveOf(u), PastCount(u)' \subseteq PastCount(u)
  PROVE  Overshoot(u)'
<1>1. Cardinality(ActiveOf(u)') <= Cardinality(ActiveOf(u))
  BY CountsAreNumbers, FS_Subset
<1>2. Cardinality(PastCount(u)') <= Cardinality(PastCount(u))
  BY CountsAreNumbers, FS_Subset
<1>3. /\ Cardinality(ActiveOf(u)') \in Nat /\ Cardinality(PastCount(u)') \in Nat
      /\ Cardinality(ActiveOf(u)) \in Nat /\ Cardinality(PastCount(u)) \in Nat
      /\ Cardinality(Task) \in Nat /\ Max(Caps) \in Int
  <2>1. /\ IsFiniteSet(ActiveOf(u)') /\ IsFiniteSet(PastCount(u)')
    BY CountsAreNumbers, FS_Subset
  <2> QED BY <2>1, CountsAreNumbers, LargestCap, FS_CardinalityType
<1> QED BY <1>1, <1>2, <1>3 DEF Overshoot

\* A count below the cap leaves room for every task.
LEMMA CountLetsPass ==
  ASSUME Typed, Typed', CapRead, NEW t \in Task, CountActive(t), ~Answer(t),
         NEW u \in Customer, u = req[t].by
  PROVE  Overshoot(u)'
<1>1. ActiveOf(u)' = ActiveOf(u)
  BY DEF CountActive, tables, ActiveOf
<1>2. /\ Cardinality(ActiveOf(u)) < mem[t].cap /\ mem[t].cap \in Caps
  BY DEF CountActive, UnderCap, CapRead
<1>3. mem[t].cap <= Max(Caps) /\ mem[t].cap \in Int /\ Max(Caps) \in Int
  <2>1. mem[t].cap <= Max(Caps) /\ Max(Caps) \in Int
    BY ONLY <1>2, LargestCap
  <2>2. \A c \in Caps : c \in Int
    OBVIOUS
  <2> QED BY ONLY <1>2, <2>1, <2>2
<1>4. Cardinality(PastCount(u)') <= Cardinality(Task) /\ Cardinality(PastCount(u)') \in Nat
  <2>1. PastCount(u)' \subseteq Task
    BY DEF PastCount
  <2> QED BY <2>1, FS_Subset, FS_CardinalityType
<1>5. Cardinality(ActiveOf(u)) \in Nat /\ Cardinality(Task) \in Nat
  BY CountsAreNumbers
<1> QED BY <1>1, <1>2, <1>3, <1>4, <1>5 DEF Overshoot

\* The booking a task commits was counted as its own.
LEMMA CommitWasCounted ==
  ASSUME Typed, Typed', NEW t \in Task, Commit(t),
         NEW u \in Customer, u = req[t].by, Overshoot(u)
  PROVE  Overshoot(u)'
<1> DEFINE n == Len(bookings) + 1
<1>1. /\ bookings' \in Seq(BookingRow) /\ DOMAIN bookings = 1..Len(bookings)
      /\ DOMAIN bookings' = 1..n /\ pc[t] = "commit" /\ req' = req
      /\ \A i \in DOMAIN bookings : bookings'[i] = bookings[i]
  BY CommitAppends
<1>2. ActiveOf(u)' \subseteq ActiveOf(u) \cup {n}
  <2>1. \A i \in DOMAIN bookings' : i \in DOMAIN bookings \/ i = n
    BY <1>1 DEF Typed
  <2> QED BY <1>1, <2>1 DEF ActiveOf
<1>3. n \notin ActiveOf(u)
  BY <1>1 DEF ActiveOf, Typed
<1>4. Cardinality(ActiveOf(u)') <= Cardinality(ActiveOf(u)) + 1
  <2>1. IsFiniteSet(ActiveOf(u))
    BY CountsAreNumbers
  <2>2. /\ IsFiniteSet(ActiveOf(u) \cup {n})
        /\ Cardinality(ActiveOf(u) \cup {n}) = Cardinality(ActiveOf(u)) + 1
    BY <1>3, <2>1, FS_AddElement
  <2> QED BY <1>2, <2>2, FS_Subset
<1>5. t \in PastCount(u) /\ PastCount(u)' \subseteq PastCount(u) \ {t}
  BY <1>1 DEF PastCount, Commit, Go, Typed
<1>6. Cardinality(PastCount(u)') <= Cardinality(PastCount(u)) - 1
  <2>1. IsFiniteSet(PastCount(u))
    BY CountsAreNumbers
  <2>2. /\ IsFiniteSet(PastCount(u) \ {t})
        /\ Cardinality(PastCount(u) \ {t}) = Cardinality(PastCount(u)) - 1
    BY <1>5, <2>1, FS_RemoveElement
  <2> QED BY <1>5, <2>2, FS_Subset
<1>7. /\ Cardinality(ActiveOf(u)') \in Nat /\ Cardinality(PastCount(u)') \in Nat
      /\ Cardinality(ActiveOf(u)) \in Nat /\ Cardinality(PastCount(u)) \in Nat
      /\ Cardinality(Task) \in Nat /\ Max(Caps) \in Int
  <2>1. IsFiniteSet(ActiveOf(u)') /\ IsFiniteSet(PastCount(u)')
    <3>1. IsFiniteSet(ActiveOf(u)) /\ IsFiniteSet(PastCount(u))
      BY CountsAreNumbers
    <3>2. IsFiniteSet(ActiveOf(u) \cup {n}) /\ IsFiniteSet(PastCount(u) \ {t})
      BY <3>1, FS_AddElement, FS_RemoveElement
    <3> QED BY <1>2, <1>5, <3>2, FS_Subset
  <2> QED BY <2>1, CountsAreNumbers, LargestCap, FS_CardinalityType
<1> QED BY <1>4, <1>6, <1>7 DEF Overshoot

\* What the other steps of a task do to the counts.
LEMMA ServeCounts ==
  ASSUME Typed, NEW t \in Task, Serve(t) \/ Fail(t), ~Commit(t)
  PROVE  /\ bookings' = bookings
         /\ \A s \in Task : s # t => pc'[s] = pc[s] /\ req'[s] = req[s] /\ mem'[s] = mem[s]
         /\ pc'[t] \in {"price", "coupon", "used", "panic", "tx", "commit"} =>
              /\ req'[t] = req[t]
              /\ \/ pc[t] \in {"price", "coupon", "used", "panic", "tx", "commit"}
                 \/ CountActive(t) /\ ~Answer(t)
         /\ pc'[t] = "count" => mem'[t].cap = cap
<1> USE DEF Typed, Go, Answer, tables
<1>1. CASE ReadPause(t)
  BY <1>1 DEF ReadPause
<1>2. CASE ReadCap(t)
  <2>1. mem[t] \in Memory
    OBVIOUS
  <2> QED BY <1>2, <2>1 DEF ReadCap, Memory
<1>3. CASE CountActive(t)
  BY <1>3 DEF CountActive
<1>4. CASE ReadPrice(t)
  BY <1>4 DEF ReadPrice
<1>5. CASE ReadCoupon(t)
  BY <1>5 DEF ReadCoupon
<1>6. CASE Quote(t)
  BY <1>6 DEF Quote
<1>7. CASE Unwind(t) \/ Log(t) \/ Fail(t)
  BY <1>7 DEF Unwind, Log, Fail
<1>8. CASE Redeem(t)
  BY <1>8 DEF Redeem
<1> QED BY <1>1, <1>2, <1>3, <1>4, <1>5, <1>6, <1>7, <1>8 DEF Serve

LEMMA OvershootNext ==
  ASSUME OvershootInv, [Next]_vars
  PROVE  OvershootInv'
<1>0. Typed /\ RedeemInv' /\ Typed'
  BY RedeemInductive DEF OvershootInv, RedeemInv
<1> SUFFICES CapRead' /\ \A u \in Customer : Overshoot(u)'
  BY <1>0 DEF OvershootInv
<1> USE DEF OvershootInv
<1>1. ASSUME NEW t \in Task, NEW r \in Request, Begin(t, r)
      PROVE  CapRead' /\ \A u \in Customer : Overshoot(u)'
  <2>1. /\ bookings' = bookings /\ mem' = mem
        /\ pc' = [pc EXCEPT ![t] = "pause"] /\ req' = [req EXCEPT ![t] = r]
    BY <1>1 DEF Begin, tables
  <2>2. CapRead'
    BY <1>0, <2>1 DEF CapRead, Typed
  <2>3. \A u \in Customer : ActiveOf(u)' = ActiveOf(u) /\ PastCount(u)' \subseteq PastCount(u)
    BY <1>0, <2>1 DEF ActiveOf, PastCount, Typed
  <2> QED BY <1>0, <2>2, <2>3, NobodyCounts
<1>2. ASSUME NEW t \in Task, Serve(t) \/ Fail(t), ~Commit(t)
      PROVE  CapRead' /\ \A u \in Customer : Overshoot(u)'
  <2>1. CapRead'
    BY <1>0, <1>2, ServeCounts DEF CapRead, Typed
  <2>2. \A u \in Customer : ActiveOf(u)' = ActiveOf(u)
    BY <1>0, <1>2, ServeCounts DEF ActiveOf
  <2>3. ASSUME NEW u \in Customer, ~(CountActive(t) /\ ~Answer(t) /\ u = req[t].by)
        PROVE  PastCount(u)' \subseteq PastCount(u)
    BY <1>0, <1>2, <2>3, ServeCounts DEF PastCount
  <2>4. ASSUME NEW u \in Customer
        PROVE  Overshoot(u)'
    <3>1. CASE CountActive(t) /\ ~Answer(t) /\ u = req[t].by
      BY <1>0, <3>1, CountLetsPass
    <3>2. CASE ~(CountActive(t) /\ ~Answer(t) /\ u = req[t].by)
      BY <1>0, <2>2, <2>3, <3>2, NobodyCounts
    <3> QED BY <3>1, <3>2
  <2> QED BY <2>1, <2>4
<1>3. ASSUME NEW t \in Task, Commit(t)
      PROVE  CapRead' /\ \A u \in Customer : Overshoot(u)'
  <2>1. /\ req' = req /\ pc' = [pc EXCEPT ![t] = "log"]
        /\ \A s \in Task : s # t => mem'[s] = mem[s]
    BY <1>0, <1>3 DEF Commit, Go, Typed
  <2>2. CapRead'
    BY <1>0, <2>1 DEF CapRead, Typed
  <2>3. ASSUME NEW u \in Customer, u # req[t].by
        PROVE  ActiveOf(u)' \subseteq ActiveOf(u) /\ PastCount(u)' \subseteq PastCount(u)
    <3> DEFINE n == Len(bookings) + 1
    <3>1. /\ DOMAIN bookings = 1..Len(bookings) /\ DOMAIN bookings' = 1..n
          /\ bookings'[n].by = req[t].by
          /\ \A i \in DOMAIN bookings : bookings'[i] = bookings[i]
      BY <1>0, <1>3, CommitAppends
    <3>2. \A i \in DOMAIN bookings' : i \in DOMAIN bookings \/ i = n
      BY <1>0, <3>1 DEF Typed
    <3> QED BY <1>0, <2>1, <2>3, <3>1, <3>2 DEF ActiveOf, PastCount, Typed
  <2>4. ASSUME NEW u \in Customer
        PROVE  Overshoot(u)'
    <3>1. CASE u = req[t].by
      BY <1>0, <1>3, <3>1, CommitWasCounted
    <3>2. CASE u # req[t].by
      BY <1>0, <2>3, <3>2, NobodyCounts
    <3> QED BY <3>1, <3>2
  <2> QED BY <2>2, <2>4
<1>4. ASSUME Environment \/ UNCHANGED vars
      PROVE  CapRead' /\ \A u \in Customer : Overshoot(u)'
  <2>1. UNCHANGED <<pc, req, mem>>
    BY <1>4 DEF Environment, SetPaused, SetCap, UpdateService, UpdateCoupon, Finish, vars
  <2>2. CapRead'
    BY <2>1 DEF CapRead
  <2>3. \A u \in Customer : ActiveOf(u)' \subseteq ActiveOf(u)
    <3>1. CASE bookings' = bookings
      BY <3>1 DEF ActiveOf
    <3>2. ASSUME NEW i \in DOMAIN bookings, Finish(i)
          PROVE  \A u \in Customer : ActiveOf(u)' \subseteq ActiveOf(u)
      <4>1. /\ DOMAIN bookings' = DOMAIN bookings
            /\ \A j \in DOMAIN bookings : bookings'[j].by = bookings[j].by
        BY <1>0, <3>2, FinishKeeps
      <4>2. \A j \in DOMAIN bookings : j # i => bookings'[j] = bookings[j]
        BY <1>0, <3>2 DEF Finish, Typed
      <4>3. bookings[i].active
        BY <3>2 DEF Finish
      <4> QED BY <4>1, <4>2, <4>3 DEF ActiveOf
    <3> QED BY <1>4, <3>1, <3>2
            DEF Environment, SetPaused, SetCap, UpdateService, UpdateCoupon, tables, vars
  <2>4. \A u \in Customer : PastCount(u)' = PastCount(u)
    BY <2>1 DEF PastCount
  <2> QED BY <1>0, <2>2, <2>3, <2>4, NobodyCounts
<1> QED BY <1>1, <1>2, <1>3, <1>4 DEF Next, Serve

LEMMA OvershootInitially == Init => OvershootInv
<1> SUFFICES ASSUME Init PROVE OvershootInv
  OBVIOUS
<1>1. RedeemInv /\ Typed
  BY RedeemInitially DEF RedeemInv
<1>2. CapRead
  BY DEF Init, CapRead
<1>3. ASSUME NEW u \in Customer
      PROVE  Overshoot(u)
  <2>1. ActiveOf(u) = {} /\ PastCount(u) = {}
    BY DEF Init, ActiveOf, PastCount
  <2>2. Max(Caps) \in Int /\ Max(Caps) >= 1
    BY LargestCap
  <2>3. Cardinality(Task) \in Nat
    BY FS_CardinalityType
  <2> QED BY <2>1, <2>2, <2>3, FS_EmptySet DEF Overshoot
<1> QED BY <1>1, <1>2, <1>3 DEF OvershootInv

\* A customer exceeds the largest cap there was by fewer bookings than the
\* server has tasks: each request past the count adds one at most.
THEOREM CapOvershoot == Spec => []OvershootBounded
<1>1. OvershootInv => OvershootBounded
  <2> SUFFICES ASSUME OvershootInv, NEW u \in Customer
               PROVE  Cardinality(ActiveOf(u)) <= Max(Caps) + Cardinality(Task) - 1
    BY DEF OvershootBounded
  <2>1. Typed /\ Overshoot(u)
    BY DEF OvershootInv, RedeemInv
  <2>2. Max(Caps) \in Int
    BY LargestCap
  <2> QED BY <2>1, <2>2, CountsAreNumbers DEF Overshoot
<1> QED BY <1>1, OvershootInitially, OvershootNext, PTL DEF Spec

-----------------------------------------------------------------------------
(* Pausing *)

Passing == {t \in Task : PausePasses(t)}

PauseInv ==
  RedeemInv /\ late \in Nat /\ (paused => late + Cardinality(Passing) <= Cardinality(Task))

LEMMA PassingCounted ==
  ASSUME TRUE
  PROVE  /\ IsFiniteSet(Passing) /\ Cardinality(Passing) \in Nat
         /\ Cardinality(Passing) <= Cardinality(Task) /\ Cardinality(Task) \in Nat
<1>1. Passing \subseteq Task
  BY DEF Passing
<1> QED BY <1>1, FS_Subset, FS_CardinalityType

\* A step that lets nobody past the check.
LEMMA NobodyPasses ==
  ASSUME PauseInv, RedeemInv', Passing' \subseteq Passing,
         paused' = paused /\ late' = late
  PROVE  PauseInv'
<1>1. Cardinality(Passing') <= Cardinality(Passing) /\ Cardinality(Passing') \in Nat
  BY PassingCounted, FS_Subset, FS_CardinalityType
<1> QED BY <1>1, PassingCounted DEF PauseInv

LEMMA PauseNext ==
  ASSUME PauseInv, [Next]_vars
  PROVE  PauseInv'
<1>0. RedeemInv /\ Typed /\ RedeemInv'
  BY RedeemInductive DEF PauseInv, RedeemInv
<1>1. ASSUME NEW t \in Task, NEW r \in Request, Begin(t, r)
      PROVE  PauseInv'
  <2>1. Passing' \subseteq Passing
    BY <1>0, <1>1 DEF Begin, Passing, PausePasses, Typed
  <2> QED BY <1>0, <1>1, <2>1, NobodyPasses DEF Begin, settings
<1>2. ASSUME NEW t \in Task, Serve(t) \/ Fail(t), ~Commit(t), ~ReadPause(t)
      PROVE  PauseInv'
  <2>1. paused' = paused /\ late' = late
    BY <1>2 DEF Serve, Fail, ReadCap, CountActive, ReadPrice, ReadCoupon, Quote, Unwind,
                Redeem, Log, settings
  <2>2. pc[t] \in {"log", "panic"} => pc'[t] = "idle"
    BY <1>0, <1>2 DEF Serve, Fail, ReadCap, CountActive, ReadPrice, ReadCoupon, Quote, Unwind,
                Redeem, Log, Answer, Typed
  <2>3. pc[t] \in {"idle", "pause"} => pc'[t] = "idle"
    BY <1>0, <1>2 DEF Serve, Fail, ReadCap, CountActive, ReadPrice, ReadCoupon, Quote, Unwind,
                Redeem, Log, Answer, Typed
  <2>4. \A s \in Task : s # t => pc'[s] = pc[s]
    BY <1>0, <1>2, ServeCounts
  <2>5. Passing' \subseteq Passing
    BY <2>2, <2>3, <2>4 DEF Passing, PausePasses
  <2> QED BY <1>0, <2>1, <2>5, NobodyPasses
<1>3. ASSUME NEW t \in Task, ReadPause(t)
      PROVE  PauseInv'
  <2>1. paused' = paused /\ late' = late
    BY <1>3 DEF ReadPause, settings
  <2>2. CASE paused
    <3>1. Passing' \subseteq Passing
      BY <1>0, <1>3, <2>2 DEF ReadPause, Answer, Passing, PausePasses, Typed
    <3> QED BY <1>0, <2>1, <3>1, NobodyPasses
  <2>3. CASE ~paused
    BY <1>0, <2>1, <2>3 DEF PauseInv
  <2> QED BY <2>2, <2>3
<1>4. ASSUME NEW t \in Task, Commit(t)
      PROVE  PauseInv'
  <2>1. /\ paused' = paused /\ late' = IF paused THEN late + 1 ELSE 0
        /\ pc[t] = "commit" /\ pc' = [pc EXCEPT ![t] = "log"]
    BY <1>4 DEF Commit, Go, settings
  <2>2. t \in Passing /\ Passing' \subseteq Passing \ {t}
    BY <1>0, <2>1 DEF Passing, PausePasses, Typed
  <2>3. /\ IsFiniteSet(Passing \ {t})
        /\ Cardinality(Passing \ {t}) = Cardinality(Passing) - 1
    BY <2>2, PassingCounted, FS_RemoveElement
  <2>4. Cardinality(Passing') <= Cardinality(Passing) - 1 /\ Cardinality(Passing') \in Nat
    BY <2>2, <2>3, FS_Subset, FS_CardinalityType
  <2> QED BY <1>0, <2>1, <2>4, PassingCounted DEF PauseInv
<1>5. CASE SetPaused
  <2>1. Passing' = Passing
    BY <1>5 DEF SetPaused, Passing, PausePasses
  <2>2. late' = IF paused' = paused THEN late ELSE 0
    BY <1>5 DEF SetPaused
  <2>3. Cardinality(Passing') = Cardinality(Passing)
    BY <2>1
  <2> QED BY <1>0, <2>2, <2>3, PassingCounted DEF PauseInv
<1>6. ASSUME \/ SetCap \/ (\E s \in Service : UpdateService(s))
             \/ (\E c \in Coupon : UpdateCoupon(c)) \/ (\E i \in DOMAIN bookings : Finish(i))
             \/ UNCHANGED vars
      PROVE  PauseInv'
  <2>1. UNCHANGED <<pc, paused, late>>
    BY <1>6 DEF SetCap, UpdateService, UpdateCoupon, Finish, vars, settings
  <2>2. Passing' \subseteq Passing
    BY <2>1 DEF Passing, PausePasses
  <2> QED BY <1>0, <2>1, <2>2, NobodyPasses
<1> QED BY <1>1, <1>2, <1>3, <1>4, <1>5, <1>6 DEF Next, Serve, Environment

\* While bookings are paused, no more get through than requests were past the
\* check when the pause began.
THEOREM PauseHolds == Spec => []PauseLeaksOnlyInFlight
<1>1. Init => PauseInv
  BY RedeemInitially DEF Init, PauseInv
<1>2. PauseInv => PauseLeaksOnlyInFlight
  BY DEF PauseInv, PauseLeaksOnlyInFlight, Passing
<1> QED BY <1>1, <1>2, PauseNext, PTL DEF Spec

-----------------------------------------------------------------------------
(* The other types *)

\* Nothing a task has read or computed, and no discount, is below zero.
Amounts ==
  /\ \A t \in Task : /\ mem[t].cap >= 0 /\ mem[t].base >= 0
                     /\ mem[t].discount >= 0 /\ mem[t].made >= 0
  /\ \A i \in DOMAIN bookings : bookings[i].discount >= 0

\* An audit row names a booking on file.
LoggedInv ==
  /\ logged \subseteq DOMAIN bookings
  /\ \A t \in Task : pc[t] = "log" => mem[t].made \in DOMAIN bookings

\* The requests that may still add a booking; there is room for all of theirs,
\* and no more bookings are late than there are.
Unsaved == {t \in Task : pc[t] \notin {"idle", "log"}}

RoomInv ==
  late \in Nat /\ late <= Len(bookings) /\ Len(bookings) + Cardinality(Unsaved) <= MaxBookings

SettingsTyped ==
  paused \in BOOLEAN /\ enabled \subseteq Coupon /\ failures \in 0..MaxFailures

FiledInv == DealInv /\ Amounts /\ LoggedInv /\ RoomInv /\ SettingsTyped

-----------------------------------------------------------------------------
\* Neither a percentage of a price nor a flat discount is negative.
LEMMA DiscountIsNat ==
  ASSUME NEW c \in Coupon, NEW price \in Int, price >= 0, Clampable(price)
  PROVE  Discount(c, price) >= 0
<1>1. CouponRule[c].off \in Nat
  OBVIOUS
<1>2. price * CouponRule[c].off \in Nat
  <2>1. \A a, b \in Nat : a * b \in Nat
    OBVIOUS
  <2> QED BY <1>1, <2>1
<1>3. (price * CouponRule[c].off) \div 100 >= 0
  <2> DEFINE product == price * CouponRule[c].off
  <2> HIDE DEF product
  <2>1. product \in Nat => product \div 100 >= 0
    OBVIOUS
  <2> QED BY <1>2, <2>1 DEF product
<1>4. RawDiscount(c, price) >= 0
  BY <1>1, <1>3 DEF RawDiscount
<1> QED BY <1>4, DiscountIsInt DEF Discount, Clampable, Floor

\* The bookings are those there were, with the same deals, or one is added.
LEMMA BookingsChange ==
  ASSUME Typed, [Next]_vars
  PROVE  \/ /\ Len(bookings') = Len(bookings) /\ DOMAIN bookings' = DOMAIN bookings
            /\ \A i \in DOMAIN bookings : bookings'[i].discount = bookings[i].discount
         \/ \E t \in Task : Commit(t)
<1>1. ASSUME NEW i \in DOMAIN bookings, Finish(i)
      PROVE  /\ Len(bookings') = Len(bookings) /\ DOMAIN bookings' = DOMAIN bookings
             /\ \A j \in DOMAIN bookings : bookings'[j].discount = bookings[j].discount
  <2>1. bookings \in Seq(BookingRow) /\ bookings[i] \in BookingRow
    BY DEF Typed
  <2> QED BY <1>1, <2>1 DEF Finish, BookingRow
<1>2. CASE UNCHANGED bookings
  BY <1>2
<1> QED BY <1>1, <1>2
        DEF Next, Serve, Begin, Fail, ReadPause, ReadCap, CountActive, ReadPrice, ReadCoupon,
            Quote, Unwind, Redeem, Log, Environment, SetPaused, SetCap, UpdateService,
            UpdateCoupon, tables, vars

\* What a step of a task leaves of its memory.
LEMMA MemoryStep ==
  ASSUME DealInv, Amounts, NEW t \in Task, Serve(t) \/ Fail(t)
  PROVE  /\ \A s \in Task : s # t => mem'[s] = mem[s]
         /\ mem'[t].cap >= 0 /\ mem'[t].base >= 0
         /\ mem'[t].discount >= 0 /\ mem'[t].made >= 0
<1>0. Typed /\ mem \in [Task -> Memory] /\ mem[t] \in Memory
  BY DEF DealInv, Typed
<1>1. \A s \in Task : s # t => mem'[s] = mem[s]
  BY <1>0 DEF Serve, Fail, ReadPause, ReadCap, CountActive, ReadPrice, ReadCoupon, Quote, Unwind,
              Redeem, Commit, Log, Answer
<1>2. CASE mem' = mem
  BY <1>2 DEF Amounts
<1>3. CASE Answer(t)
  BY <1>0, <1>3 DEF Answer, Nothing
<1>4. CASE ReadCap(t)
  <2>1. cap >= 0 /\ mem' = [mem EXCEPT ![t].cap = cap]
    <3>1. cap \in Caps /\ Caps \subseteq 1..100
      BY <1>0 DEF Typed
    <3> QED BY <1>4, <3>1 DEF ReadCap
  <2> QED BY <1>0, <2>1 DEF Amounts, Memory
<1>5. CASE CountActive(t) /\ ~Answer(t)
  <2>1. mem' = [mem EXCEPT ![t].cap = 0]
    BY <1>5 DEF CountActive
  <2> QED BY <1>0, <2>1 DEF Amounts, Memory
<1>6. CASE ReadPrice(t) /\ ~Answer(t)
  <2>1. mem' = [mem EXCEPT ![t].base = base[req[t].for]] /\ req[t].for \in Service
    BY <1>0, <1>6 DEF ReadPrice, Typed, Request
  <2>2. base[req[t].for] >= 0
    BY <1>0, <2>1 DEF Typed
  <2> QED BY <1>0, <2>1, <2>2 DEF Amounts, Memory
<1>7. CASE Quote(t) /\ ~Answer(t) /\ mem' # mem
  <2>1. /\ mem' = [mem EXCEPT ![t].discount = Discount(req[t].coupon, mem[t].base)]
        /\ Clampable(mem[t].base) /\ pc[t] = "used"
    BY <1>7 DEF Quote
  <2>2. req[t].coupon \in Coupon
    BY <1>0, <2>1 DEF Typed, Request
  <2>3. Discount(req[t].coupon, mem[t].base) >= 0
    BY <1>0, <2>1, <2>2, DiscountIsNat DEF Amounts, Memory
  <2> QED BY <1>0, <2>1, <2>3 DEF Amounts, Memory
<1>8. CASE Commit(t)
  <2>1. mem' = [mem EXCEPT ![t] = [Nothing EXCEPT !.made = Len(bookings) + 1]]
        /\ Len(bookings) \in Nat
    BY <1>0, <1>8 DEF Commit, Typed
  <2> QED BY <1>0, <2>1 DEF Nothing
<1> QED BY <1>1, <1>2, <1>3, <1>4, <1>5, <1>6, <1>7, <1>8
        DEF Serve, Fail, ReadPause, ReadCoupon, Unwind, Redeem, Log

LEMMA AmountsNext ==
  ASSUME DealInv, Amounts, [Next]_vars
  PROVE  Amounts'
<1>0. Typed
  BY DEF DealInv
<1>1. \A t \in Task : /\ mem'[t].cap >= 0 /\ mem'[t].base >= 0
                      /\ mem'[t].discount >= 0 /\ mem'[t].made >= 0
  <2>1. CASE UNCHANGED mem
    BY <2>1 DEF Amounts
  <2>2. ASSUME NEW t \in Task, Serve(t) \/ Fail(t)
        PROVE  \A s \in Task : /\ mem'[s].cap >= 0 /\ mem'[s].base >= 0
                               /\ mem'[s].discount >= 0 /\ mem'[s].made >= 0
    BY <2>2, MemoryStep DEF Amounts
  <2> QED BY <2>1, <2>2 DEF Next, Begin, Environment, SetPaused, SetCap, UpdateService,
                            UpdateCoupon, Finish, vars
<1>2. ASSUME NEW t \in Task, Commit(t)
      PROVE  \A i \in DOMAIN bookings' : bookings'[i].discount >= 0
  <2>1. NewBooking(req[t], mem[t]).discount >= 0
    BY DEF Amounts, NewBooking
  <2> HIDE DEF NewBooking
  <2>2. /\ DOMAIN bookings = 1..Len(bookings) /\ DOMAIN bookings' = 1..Len(bookings) + 1
        /\ Len(bookings) + 1 \in Nat \ {0}
        /\ bookings'[Len(bookings) + 1] = NewBooking(req[t], mem[t])
        /\ \A i \in DOMAIN bookings : bookings'[i] = bookings[i]
    BY <1>0, <1>2, CommitAppends
  <2>3. DOMAIN bookings' = DOMAIN bookings \cup {Len(bookings) + 1}
    BY <2>2
  <2> QED BY <2>1, <2>2, <2>3 DEF Amounts
<1> QED BY <1>0, <1>1, <1>2, BookingsChange DEF Amounts

LEMMA LoggedNext ==
  ASSUME DealInv, LoggedInv, [Next]_vars
  PROVE  LoggedInv'
<1>0. Typed /\ Len(bookings) \in Nat /\ DOMAIN bookings = 1..Len(bookings)
  BY DEF DealInv, Typed
<1>1. DOMAIN bookings \subseteq DOMAIN bookings'
  <2>1. ASSUME NEW t \in Task, Commit(t)
        PROVE  DOMAIN bookings \subseteq DOMAIN bookings'
    BY <1>0, <2>1, CommitAppends
  <2> QED BY <1>0, <2>1, BookingsChange
<1>2. logged' \subseteq DOMAIN bookings'
  <2>1. ASSUME NEW t \in Task, Log(t)
        PROVE  logged' \subseteq DOMAIN bookings'
    BY <1>1, <2>1 DEF Log, LoggedInv
  <2>2. CASE UNCHANGED logged
    BY <1>1, <2>2 DEF LoggedInv
  <2> QED BY <2>1, <2>2
        DEF Next, Serve, Begin, Fail, ReadPause, ReadCap, CountActive, ReadPrice, ReadCoupon,
            Quote, Unwind, Redeem, Commit, Environment, SetPaused, SetCap, UpdateService,
            UpdateCoupon, Finish, vars
<1>3. ASSUME NEW s \in Task, pc'[s] = "log"
      PROVE  mem'[s].made \in DOMAIN bookings'
  <2>1. CASE Commit(s)
    <3>1. mem'[s].made = Len(bookings) + 1
      BY <1>0, <2>1 DEF Commit, Nothing, Typed
    <3> QED BY <1>0, <2>1, <3>1, CommitAppends
  <2>2. CASE pc[s] = "log" /\ mem'[s] = mem[s]
    BY <1>1, <2>2 DEF LoggedInv
  <2>3. ASSUME NEW t \in Task, t # s, (\E r \in Request : Begin(t, r)) \/ Serve(t) \/ Fail(t)
        PROVE  pc'[s] = pc[s] /\ mem'[s] = mem[s]
    BY <1>0, <2>3
       DEF Serve, Begin, Fail, ReadPause, ReadCap, CountActive, ReadPrice, ReadCoupon,
           Quote, Unwind, Redeem, Commit, Log, Answer, Go, Typed
  <2>4. ASSUME (\E r \in Request : Begin(s, r)) \/ Serve(s) \/ Fail(s)
        PROVE  Commit(s)
    BY <1>0, <1>3, <2>4
       DEF Serve, Begin, Fail, ReadPause, ReadCap, CountActive, ReadPrice, ReadCoupon,
           Quote, Unwind, Redeem, Log, Answer, Go, Typed
  <2>5. CASE Environment \/ UNCHANGED vars
    <3>1. pc' = pc /\ mem' = mem
      BY <2>5 DEF Environment, SetPaused, SetCap, UpdateService, UpdateCoupon, Finish, vars
    <3> QED BY <1>3, <2>2, <3>1
  <2> QED BY <1>3, <2>1, <2>2, <2>3, <2>4, <2>5 DEF Next
<1> QED BY <1>2, <1>3 DEF LoggedInv

LEMMA UnsavedCounted ==
  ASSUME TRUE
  PROVE  IsFiniteSet(Unsaved) /\ Cardinality(Unsaved) \in Nat
<1>1. Unsaved \subseteq Task
  BY DEF Unsaved
<1> QED BY <1>1, FS_Subset, FS_CardinalityType

LEMMA RoomNext ==
  ASSUME Typed, RoomInv, [Next]_vars
  PROVE  RoomInv'
<1>0. Len(bookings) \in Nat /\ Cardinality(Unsaved) \in Nat
  BY UnsavedCounted DEF Typed
<1>1. ASSUME Unsaved' \subseteq Unsaved, Len(bookings') = Len(bookings), late' \in {0, late}
      PROVE  RoomInv'
  <2>1. Cardinality(Unsaved') <= Cardinality(Unsaved) /\ Cardinality(Unsaved') \in Nat
    BY <1>1, UnsavedCounted, FS_Subset, FS_CardinalityType
  <2> QED BY <1>0, <1>1, <2>1 DEF RoomInv
<1>2. ASSUME NEW t \in Task, NEW r \in Request, Begin(t, r)
      PROVE  RoomInv'
  <2>1. Unsaved' = Unsaved \cup {t} /\ t \notin Unsaved /\ bookings' = bookings /\ late' = late
    BY <1>2 DEF Begin, Unsaved, Typed, tables
  <2>2. Unsaved \subseteq Busy /\ Busy \subseteq Task
    BY DEF Unsaved, Busy
  <2>3. Cardinality(Unsaved) <= Cardinality(Busy) /\ Cardinality(Busy) \in Nat
    BY <2>2, FS_Subset, FS_CardinalityType
  <2>4. Cardinality(Unsaved') = Cardinality(Unsaved) + 1
    BY <2>1, UnsavedCounted, FS_AddElement
  <2>5. Len(bookings) + Cardinality(Busy) < MaxBookings
    BY <1>2 DEF Begin
  <2> QED BY <1>0, <2>1, <2>3, <2>4, <2>5 DEF RoomInv
<1>3. ASSUME NEW t \in Task, Commit(t)
      PROVE  RoomInv'
  <2>1. /\ Len(bookings') = Len(bookings) + 1
        /\ late' \in {0, late + 1} /\ t \in Unsaved /\ Unsaved' \subseteq Unsaved \ {t}
    BY <1>3 DEF Commit, Go, Unsaved, Typed
  <2>2. /\ IsFiniteSet(Unsaved \ {t})
        /\ Cardinality(Unsaved \ {t}) = Cardinality(Unsaved) - 1
    BY <2>1, UnsavedCounted, FS_RemoveElement
  <2>3. Cardinality(Unsaved') <= Cardinality(Unsaved) - 1 /\ Cardinality(Unsaved') \in Nat
    BY <2>1, <2>2, FS_Subset, FS_CardinalityType
  <2> QED BY <1>0, <2>1, <2>3 DEF RoomInv
<1>4. ASSUME NEW t \in Task, Serve(t) \/ Fail(t), ~Commit(t)
      PROVE  Unsaved' \subseteq Unsaved /\ late' = late
  <2>1. \A s \in Task : s # t => pc'[s] = pc[s]
    BY <1>4 DEF Serve, Fail, ReadPause, ReadCap, CountActive, ReadPrice, ReadCoupon,
           Quote, Unwind, Redeem, Log, Answer, Go, Typed
  <2>2. pc'[t] # "idle" => pc[t] \notin {"idle", "log"}
    BY <1>4 DEF Serve, Fail, ReadPause, ReadCap, CountActive, ReadPrice, ReadCoupon,
           Quote, Unwind, Redeem, Log, Answer, Go, Typed
  <2>3. late' = late
    BY <1>4 DEF Serve, Fail, ReadPause, ReadCap, CountActive, ReadPrice, ReadCoupon,
           Quote, Unwind, Redeem, Log
  <2> QED BY <2>1, <2>2, <2>3 DEF Unsaved
<1>5. CASE Environment \/ UNCHANGED vars
  <2>1. pc' = pc /\ late' \in {0, late}
    BY <1>5 DEF Environment, SetPaused, SetCap, UpdateService, UpdateCoupon, Finish, vars
  <2> QED BY <2>1, <1>1, <1>3, BookingsChange DEF Unsaved
<1> QED BY <1>1, <1>2, <1>3, <1>4, <1>5, BookingsChange DEF Next

LEMMA SettingsNext ==
  ASSUME SettingsTyped, [Next]_vars
  PROVE  SettingsTyped'
<1>1. ASSUME NEW t \in Task, (\E r \in Request : Begin(t, r)) \/ Serve(t)
      PROVE  UNCHANGED <<paused, enabled, failures>>
  BY <1>1 DEF Serve, Begin, ReadPause, ReadCap, CountActive, ReadPrice, ReadCoupon,
           Quote, Unwind, Redeem, Commit, Log, settings
<1>2. ASSUME NEW t \in Task, Fail(t)
      PROVE  UNCHANGED <<paused, enabled>> /\ failures' \in 0..MaxFailures
  BY <1>2 DEF Fail, settings, SettingsTyped
<1>3. CASE Environment
  BY <1>3 DEF Environment, SetPaused, SetCap, UpdateService, UpdateCoupon, Finish,
              settings, SettingsTyped
<1> QED BY <1>1, <1>2, <1>3 DEF Next, SettingsTyped, vars, settings

LEMMA FiledInitially == Init => FiledInv
<1> SUFFICES ASSUME Init PROVE FiledInv
  OBVIOUS
<1>1. Unsaved = {}
  BY DEF Init, Unsaved
<1>2. Cardinality(Unsaved) = 0
  BY <1>1, FS_EmptySet
<1>3. Amounts /\ LoggedInv
  <2>1. DOMAIN bookings = {} /\ logged = {}
    BY DEF Init
  <2>2. \A t \in Task : pc[t] = "idle" /\ mem[t] = Nothing
    BY DEF Init
  <2> QED BY <2>1, <2>2 DEF Amounts, LoggedInv, Nothing
<1>4. SettingsTyped
  <2>1. failures \in 0..MaxFailures
    BY DEF Init
  <2>2. paused \in BOOLEAN /\ enabled \subseteq Coupon
    BY DEF Init
  <2> QED BY <2>1, <2>2 DEF SettingsTyped
<1> QED BY <1>2, <1>3, <1>4, DealInitially DEF Init, RoomInv, FiledInv

\* Every variable of the create handler keeps its type: no price, discount or
\* cap is ever negative, no audit row names a booking that is not there.
THEOREM CreationTypes == Spec => []TypeOK
<1>1. ASSUME FiledInv, RedeemInv PROVE TypeOK
  <2>1. Typed /\ Len(bookings) \in Nat /\ DOMAIN bookings = 1..Len(bookings)
    BY <1>1 DEF RedeemInv, Typed
  <2>2. late \in 0..MaxBookings
    BY <1>1, <2>1, UnsavedCounted DEF FiledInv, RoomInv
  <2>3. mem \in [Task -> [cap : Nat, base : Nat, discount : Nat, made : Nat]]
    BY <1>1, <2>1 DEF Typed, Memory, FiledInv, Amounts
  <2> DEFINE Row == [by : Customer, coupon : Coupon \cup {NoCoupon},
                     active : BOOLEAN, price : Nat, discount : Nat]
  <2>4. bookings \in Seq(Row)
    <3>1. ASSUME NEW i \in DOMAIN bookings PROVE bookings[i] \in Row
      <4>1. bookings[i] \in BookingRow
        BY <2>1 DEF Typed
      <4>2. bookings[i].price > 0 /\ bookings[i].discount >= 0
        BY <1>1, DealsAddUp DEF FiledInv, Amounts, DealAddsUp
      <4> QED BY <4>1, <4>2 DEF BookingRow
    <3>2. bookings \in [1..Len(bookings) -> Row]
      <4>1. bookings = [i \in DOMAIN bookings |-> bookings[i]]
        BY <2>1 DEF Typed
      <4> HIDE DEF Row
      <4> QED BY <2>1, <3>1, <4>1
    <3> HIDE DEF Row
    <3> QED BY <2>1, <3>2
  <2>5. redeemed \in [Coupon -> [Customer -> 0..Len(bookings)]]
    BY <1>1, <2>1 DEF RedeemInv, RedemptionsBooked, Typed
  <2> QED BY <1>1, <2>1, <2>2, <2>3, <2>4, <2>5
          DEF TypeOK, Typed, FiledInv, LoggedInv, SettingsTyped
<1>2. FiledInv /\ [Next]_vars => FiledInv'
  BY DealInductive, AmountsNext, LoggedNext, RoomNext, SettingsNext DEF FiledInv, DealInv
<1> QED BY <1>1, <1>2, FiledInitially, RedeemInitially, RedeemInductive, PTL DEF Spec
=============================================================================
