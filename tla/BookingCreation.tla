--------------------------- MODULE BookingCreation ----------------------------
(***************************************************************************)
(* POST /bookings: the create handler of backend/src/api/bookings.rs, the  *)
(* create function of infra/db/bookings.rs and the coupon preview of       *)
(* infra/db/coupons.rs, against admins who change the settings, prices and *)
(* coupons it reads.                                                       *)
(*                                                                         *)
(* A request reads, one statement at a time, the pause switch, the cap,    *)
(* the customer's active bookings, the service price, the coupon and its   *)
(* redemptions; only then does it open a transaction that inserts the      *)
(* booking and redeems the coupon.  Nothing it read is locked.  Inside the *)
(* transaction the redemption's primary key decides: a second transaction  *)
(* inserting the same (coupon, user) waits for the first to end.           *)
(*                                                                         *)
(* Prices are in paise.  The arrival code, address, note and coordinates   *)
(* play no part in what is decided here.                                   *)
(***************************************************************************)
EXTENDS Integers, Sequences, FiniteSets, FiniteSetsExt

CONSTANTS
  Customer, Service, Coupon, Task,
  CouponRule,  \* CouponRule[c]: [kind : {"percent", "flat"}, off : Nat]
  Prices,      \* the base prices an admin may set
  Caps,        \* the values an admin may set max_active_bookings to
  PauseValues, \* the values an admin may set bookings_paused to
  NoCoupon,
  MaxBookings, \* bound: bookings committed or under way
  MaxFailures  \* bound: tasks lost

ASSUME CreationAssumption ==
  /\ IsFiniteSet(Task)
  /\ NoCoupon \notin Coupon
  /\ \A c \in Coupon : /\ CouponRule[c].kind \in {"percent", "flat"}
                       /\ CouponRule[c].off \in Nat \ {0}
  /\ Prices \subseteq Nat \ {0}
  /\ Caps \subseteq 1..100 /\ Caps # {}
  /\ PauseValues \subseteq BOOLEAN
  /\ MaxBookings \in Nat /\ MaxFailures \in Nat

VARIABLES
  paused,    \* app_settings: bookings_paused
  cap,       \* app_settings: max_active_bookings
  base,      \* base[s]: services.base_price_paise, 0 when s is not on sale
  enabled,   \* the coupons with is_active
  bookings,  \* the committed bookings, in commit order
  redeemed,  \* redeemed[c][u]: the booking coupon_redemptions names, or 0
  pc,        \* pc[t]: the next statement of task t
  req,       \* req[t]: the request task t serves
  mem,       \* mem[t]: what task t has read
  logged,    \* the bookings with a booking.created audit row
  failures,  \* tasks lost
  late       \* history: bookings committed since bookings were paused

settings == <<paused, cap, base, enabled>>
tables == <<bookings, redeemed>>
vars == <<settings, tables, pc, req, mem, logged, failures, late>>

-----------------------------------------------------------------------------
Request == [by : Customer, for : Service, coupon : Coupon \cup {NoCoupon}]
NoRequest == [by |-> "nobody"]

\* cap: the cap read; base, discount: the deal as computed; made: the booking.
Nothing == [cap |-> 0, base |-> 0, discount |-> 0, made |-> 0]

Init ==
  /\ paused = FALSE
  /\ cap \in Caps
  /\ base \in [Service -> Prices]
  /\ enabled = Coupon
  /\ bookings = <<>>
  /\ redeemed = [c \in Coupon |-> [u \in Customer |-> 0]]
  /\ pc = [t \in Task |-> "idle"]
  /\ req = [t \in Task |-> NoRequest]
  /\ mem = [t \in Task |-> Nothing]
  /\ logged = {}
  /\ failures = 0
  /\ late = 0

Busy == {t \in Task : pc[t] # "idle"}

Go(t, step) == pc' = [pc EXCEPT ![t] = step] /\ UNCHANGED req

\* The handler answers; a transaction still open is rolled back.
Answer(t) ==
  /\ pc' = [pc EXCEPT ![t] = "idle"]
  /\ req' = [req EXCEPT ![t] = NoRequest]
  /\ mem' = [mem EXCEPT ![t] = Nothing]

Begin(t, r) ==
  /\ pc[t] = "idle"
  /\ Len(bookings) + Cardinality(Busy) < MaxBookings
  /\ pc' = [pc EXCEPT ![t] = "pause"]
  /\ req' = [req EXCEPT ![t] = r]
  /\ UNCHANGED <<settings, tables, mem, logged, failures, late>>

-----------------------------------------------------------------------------
(* The checks of the handler *)

\* Operators with a capitalised suffix, here and below, are faulty variants of
\* the definition that follows them.  No action uses them: they stand in for it
\* to show that the properties notice the fault.
ReadPause_Ignored(t) ==
  /\ pc[t] = "pause"
  /\ Go(t, "cap")
  /\ UNCHANGED <<settings, tables, mem, logged, failures, late>>

ReadPause(t) ==
  /\ pc[t] = "pause"
  /\ IF paused THEN Answer(t) ELSE Go(t, "cap") /\ UNCHANGED mem
  /\ UNCHANGED <<settings, tables, logged, failures, late>>

ReadCap(t) ==
  /\ pc[t] = "cap"
  /\ mem' = [mem EXCEPT ![t].cap = cap]
  /\ Go(t, "count")
  /\ UNCHANGED <<settings, tables, logged, failures, late>>

\* The bookings of u that are not completed or cancelled.
ActiveOf(u) == {i \in DOMAIN bookings : bookings[i].by = u /\ bookings[i].active}

UnderCap_OffByOne(active, max) == active <= max

UnderCap(active, max) == active < max

CountActive(t) ==
  /\ pc[t] = "count"
  /\ IF UnderCap(Cardinality(ActiveOf(req[t].by)), mem[t].cap)
     THEN /\ mem' = [mem EXCEPT ![t].cap = 0]
          /\ Go(t, "price")
     ELSE Answer(t)
  /\ UNCHANGED <<settings, tables, logged, failures, late>>

-----------------------------------------------------------------------------
(* The price and the coupon *)

\* The base price of a service on sale; otherwise NotFound.
ReadPrice(t) ==
  LET price == base[req[t].for] IN
  /\ pc[t] = "price"
  /\ IF price = 0
     THEN Answer(t)
     ELSE /\ mem' = [mem EXCEPT ![t].base = price]
          /\ Go(t, IF req[t].coupon = NoCoupon THEN "tx" ELSE "coupon")
  /\ UNCHANGED <<settings, tables, logged, failures, late>>

ReadCoupon(t) ==
  /\ pc[t] = "coupon"
  /\ IF req[t].coupon \in enabled THEN Go(t, "used") /\ UNCHANGED mem ELSE Answer(t)
  /\ UNCHANGED <<settings, tables, logged, failures, late>>

\* Integer division rounds a percentage down.
RawDiscount(c, price) ==
  IF CouponRule[c].kind = "percent" THEN (price * CouponRule[c].off) \div 100
                                    ELSE CouponRule[c].off

\* raw.clamp(0, price - 100): at least one rupee remains to be paid.  clamp
\* panics when its bounds cross, which they do below one rupee.
Floor == 100
Clampable(price) == price - Floor >= 0

Discount_Unclamped(c, price) == RawDiscount(c, price)

Discount(c, price) ==
  IF RawDiscount(c, price) > price - Floor THEN price - Floor
                                           ELSE RawDiscount(c, price)

Quote(t) ==
  LET r == req[t] IN
  /\ pc[t] = "used"
  /\ IF redeemed[r.coupon][r.by] # 0
     THEN Answer(t)
     ELSE IF Clampable(mem[t].base)
     THEN /\ mem' = [mem EXCEPT ![t].discount = Discount(r.coupon, mem[t].base)]
          /\ Go(t, "tx")
     ELSE Go(t, "panic") /\ UNCHANGED mem
  /\ UNCHANGED <<settings, tables, logged, failures, late>>

\* The panic unwinds the task; the client sees the connection close.
Unwind(t) ==
  /\ pc[t] = "panic"
  /\ Answer(t)
  /\ UNCHANGED <<settings, tables, logged, failures, late>>

-----------------------------------------------------------------------------
(* The transaction *)

\* An uncommitted redemption of coupon c by u.
Held(c, u) ==
  \E t \in Task : pc[t] = "commit" /\ req[t].coupon = c /\ req[t].by = u

\* ON CONFLICT DO NOTHING: zero rows is a Conflict and rolls back.
Conflicts_Unchecked(c, u) == FALSE

Conflicts(c, u) == redeemed[c][u] # 0

\* A conflict that never surfaces: the loser keeps waiting.
Redeem_Wait(t) ==
  LET r == req[t] IN
  /\ pc[t] = "tx"
  /\ IF r.coupon = NoCoupon
     THEN TRUE
     ELSE ~Held(r.coupon, r.by) /\ ~Conflicts(r.coupon, r.by)
  /\ Go(t, "commit")
  /\ UNCHANGED <<settings, tables, mem, logged, failures, late>>

\* INSERT the booking, then the redemption.  The second INSERT waits while
\* another transaction holds the same key.
Redeem(t) ==
  LET r == req[t] IN
  /\ pc[t] = "tx"
  /\ \/ /\ r.coupon = NoCoupon
        /\ Go(t, "commit")
        /\ UNCHANGED mem
     \/ /\ r.coupon # NoCoupon
        /\ ~Held(r.coupon, r.by)
        /\ IF Conflicts(r.coupon, r.by) THEN Answer(t)
                                        ELSE Go(t, "commit") /\ UNCHANGED mem
  /\ UNCHANGED <<settings, tables, logged, failures, late>>

NewBooking_ListPrice(r, m) ==
  [by |-> r.by, coupon |-> r.coupon, active |-> TRUE,
   price |-> m.base, discount |-> m.discount]

NewBooking(r, m) ==
  [by |-> r.by, coupon |-> r.coupon, active |-> TRUE,
   price |-> m.base - m.discount, discount |-> m.discount]

Commit(t) ==
  LET r == req[t] IN
  /\ pc[t] = "commit"
  /\ bookings' = Append(bookings, NewBooking(r, mem[t]))
  /\ redeemed' = IF r.coupon = NoCoupon THEN redeemed
                 ELSE [redeemed EXCEPT ![r.coupon][r.by] = Len(bookings) + 1]
  /\ mem' = [mem EXCEPT ![t] = [Nothing EXCEPT !.made = Len(bookings) + 1]]
  /\ late' = IF paused THEN late + 1 ELSE 0
  /\ Go(t, "log")
  /\ UNCHANGED <<settings, logged, failures>>

\* The booking is read back (no column it reads can have changed that matters
\* here), the audit row is inserted and the booking returned.
Log(t) ==
  /\ pc[t] = "log"
  /\ logged' = logged \cup {mem[t].made}
  /\ Answer(t)
  /\ UNCHANGED <<settings, tables, failures, late>>

\* A task is lost at any statement; PostgreSQL rolls its transaction back.
Fail(t) ==
  /\ pc[t] # "idle"
  /\ failures < MaxFailures
  /\ failures' = failures + 1
  /\ Answer(t)
  /\ UNCHANGED <<settings, tables, logged, late>>

-----------------------------------------------------------------------------
(* Everybody else *)

SetPaused ==
  /\ paused' \in PauseValues
  /\ late' = IF paused' = paused THEN late ELSE 0
  /\ UNCHANGED <<cap, base, enabled, tables, pc, req, mem, logged, failures>>

SetCap ==
  /\ cap' \in Caps
  /\ UNCHANGED <<paused, base, enabled, tables, pc, req, mem, logged, failures, late>>

\* A service gets a new price, goes off sale or returns.
UpdateService(s) ==
  /\ \E price \in Prices \cup {0} : base' = [base EXCEPT ![s] = price]
  /\ UNCHANGED <<paused, cap, enabled, tables, pc, req, mem, logged, failures, late>>

\* Switching a coupon off and on again leaves its redemptions alone.
UpdateCoupon(c) ==
  /\ enabled' = IF c \in enabled THEN enabled \ {c} ELSE enabled \cup {c}
  /\ UNCHANGED <<paused, cap, base, tables, pc, req, mem, logged, failures, late>>

\* A booking is completed or cancelled (module Bookings says how).
Finish(i) ==
  /\ bookings[i].active
  /\ bookings' = [bookings EXCEPT ![i].active = FALSE]
  /\ UNCHANGED <<settings, redeemed, pc, req, mem, logged, failures, late>>

Serve(t) ==
  \/ ReadPause(t) \/ ReadCap(t) \/ CountActive(t)
  \/ ReadPrice(t) \/ ReadCoupon(t) \/ Quote(t) \/ Unwind(t)
  \/ Redeem(t) \/ Commit(t) \/ Log(t)

Environment ==
  \/ SetPaused
  \/ SetCap
  \/ \E s \in Service : UpdateService(s)
  \/ \E c \in Coupon : UpdateCoupon(c)
  \/ \E i \in DOMAIN bookings : Finish(i)

Next ==
  \/ \E t \in Task : (\E r \in Request : Begin(t, r)) \/ Serve(t) \/ Fail(t)
  \/ Environment

Spec == Init /\ [][Next]_vars

\* The runtime and the database keep every task going that is not waiting for
\* another transaction; admins and customers owe nothing.
FairSpec == Spec /\ \A t \in Task : WF_vars(Serve(t))

-----------------------------------------------------------------------------
(* Properties *)

Steps == {"idle", "pause", "cap", "count", "price", "coupon", "used", "panic",
          "tx", "commit", "log"}

\* Every variable holds a value of its type.
TypeOK ==
  /\ paused \in BOOLEAN /\ cap \in Caps
  /\ base \in [Service -> Prices \cup {0}]
  /\ enabled \subseteq Coupon
  /\ bookings \in Seq([by : Customer, coupon : Coupon \cup {NoCoupon},
                       active : BOOLEAN, price : Nat, discount : Nat])
  /\ redeemed \in [Coupon -> [Customer -> 0..Len(bookings)]]
  /\ pc \in [Task -> Steps]
  /\ req \in [Task -> Request \cup {NoRequest}]
  /\ \A t \in Task : pc[t] # "idle" => req[t] \in Request
  /\ mem \in [Task -> [cap : Nat, base : Nat, discount : Nat, made : Nat]]
  /\ logged \subseteq DOMAIN bookings
  /\ failures \in 0..MaxFailures /\ late \in 0..MaxBookings

\* "one use per user, ever": a coupon and its redemption commit together or
\* not at all, so that a customer's bookings with the same coupon are never
\* two, whatever races, fails or is switched off and on.
OneUsePerUser ==
  /\ \A i \in DOMAIN bookings : bookings[i].coupon # NoCoupon =>
       redeemed[bookings[i].coupon][bookings[i].by] = i
  /\ \A c \in Coupon, u \in Customer : redeemed[c][u] # 0 =>
       /\ bookings[redeemed[c][u]].coupon = c
       /\ bookings[redeemed[c][u]].by = u

\* Every committed price belongs to one deal: price and discount add up to a
\* price the service had, the discount is the coupon's on exactly that price,
\* and a discounted booking still costs at least one rupee.
DealAddsUp ==
  \A i \in DOMAIN bookings :
    LET b == bookings[i] IN
    /\ b.price + b.discount \in Prices
    /\ b.price > 0
    /\ b.coupon = NoCoupon => b.discount = 0
    /\ b.coupon # NoCoupon =>
         /\ b.price >= Floor
         /\ b.discount <= RawDiscount(b.coupon, b.price + b.discount)
         /\ b.price > Floor => b.discount = RawDiscount(b.coupon, b.price + b.discount)

\* The cap is checked long before the INSERT, yet each request under way adds
\* at most one booking: a customer exceeds the largest cap by at most the
\* other requests the server works on.
OvershootBounded ==
  \A u \in Customer :
    Cardinality(ActiveOf(u)) <= Max(Caps) + Cardinality(Task) - 1

\* Pausing does not stop requests that are past the check, but it lets no
\* more through than those.
PausePasses(t) == pc[t] \notin {"idle", "pause", "log", "panic"}
PauseLeaksOnlyInFlight ==
  paused => late + Cardinality({t \in Task : PausePasses(t)}) <= Cardinality(Task)

\* Every request is answered: the wait for another transaction's redemption
\* ends with that transaction.
EveryRequestAnswered == \A t \in Task : pc[t] # "idle" ~> pc[t] = "idle"

\* "The final price never drops below one rupee (schema requires price > 0)":
\* a coupon can be previewed on every price the schema allows.
PreviewAnswers == \A t \in Task : pc[t] # "panic"
=============================================================================
