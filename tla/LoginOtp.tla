------------------------------- MODULE LoginOtp -------------------------------
(***************************************************************************)
(* Login codes of one phone: requesting, verifying, the escalating lock    *)
(* and the admin's unlock (backend/src/infra/otp.rs).  Everything is kept  *)
(* in Redis: the code (otp:h), three counters (otp:rl, otp:a, otp:fail)    *)
(* and the lock (otp:lock).  A handler is a sequence of Redis commands,    *)
(* each of them atomic; between two of them any other request runs, a key  *)
(* expires, or the request is lost.  Keys of different phones have nothing *)
(* in common.                                                              *)
(***************************************************************************)
EXTENDS Naturals, FiniteSets

CONSTANTS
  Task,
  MaxAsks,     \* MAX_REQUESTS_PER_WINDOW
  MaxTries,    \* MAX_VERIFY_ATTEMPTS
  LockAt,      \* LockAt[l]: the failures that lock the phone at level l
  MaxRequests, \* bound: requests that arrive
  MaxFailures, \* bound: tasks lost
  MaxUnlocks   \* bound: unlocks by an admin

Level == 1..3  \* 3 minutes, 10 minutes, 24 hours

ASSUME LoginAssumption ==
  /\ MaxAsks \in Nat \ {0} /\ MaxTries \in Nat \ {0}
  /\ LockAt \in [Level -> Nat \ {0}] /\ LockAt[1] < LockAt[2] /\ LockAt[2] < LockAt[3]
  /\ MaxRequests \in Nat /\ MaxFailures \in Nat /\ MaxUnlocks \in Nat

VARIABLES
  code,     \* otp:h, the code stored; codes are numbered as they are stored, 0 is none
  count,    \* count[k]: the counters, 0 is an absent key
  ttl,      \* ttl[k]: counter k will expire
  lock,     \* otp:lock, the level in force, 0 is none
  pc,       \* pc[t]: the next command of task t
  req,      \* req[t]: the request task t serves and what it has read
  issued,   \* the number of the latest code
  used,     \* history: the codes a login has consumed
  arrived, failures, unlocks

redis == <<code, count, ttl, lock>>
tasks == <<pc, req>>
bounds == <<arrived, failures, unlocks>>
vars == <<redis, tasks, issued, used, bounds>>

-----------------------------------------------------------------------------
Counter == {"rl", "a", "fail"}

NoRequest == [kind |-> "none"]
Ask == [kind |-> "ask"]
\* A guess is some code of this phone, perhaps an old one, or 0: no code at all.
Verify(guess) == [kind |-> "verify", guess |-> guess, stored |-> 0]
Locking(level) == [kind |-> "lock", level |-> level]

Init ==
  /\ code = 0
  /\ count = [k \in Counter |-> 0]
  /\ ttl = [k \in Counter |-> FALSE]
  /\ lock = 0
  /\ pc = [t \in Task |-> "idle"]
  /\ req = [t \in Task |-> NoRequest]
  /\ issued = 0
  /\ used = {}
  /\ arrived = 0 /\ failures = 0 /\ unlocks = 0

Go(t, step) == pc' = [pc EXCEPT ![t] = step] /\ UNCHANGED req

Answer(t) == /\ pc' = [pc EXCEPT ![t] = "idle"]
             /\ req' = [req EXCEPT ![t] = NoRequest]

Begin(t, r) ==
  /\ pc[t] = "idle"
  /\ arrived < MaxRequests
  /\ arrived' = arrived + 1
  /\ pc' = [pc EXCEPT ![t] = "check"]
  /\ req' = [req EXCEPT ![t] = r]
  /\ UNCHANGED <<redis, issued, used, failures, unlocks>>

\* Operators with a capitalised suffix, above and below, are faulty variants
\* of the definition that follows them.  No action uses them: they stand in for
\* it to show that the properties notice the fault.

CheckLocked_VerifyOnly(t) ==
  /\ pc[t] = "check"
  /\ \/ lock # 0 /\ req[t].kind = "verify" /\ Answer(t)
     \/ req[t].kind = "ask" /\ Go(t, "rl")
     \/ lock = 0 /\ req[t].kind = "verify" /\ Go(t, "read")
  /\ UNCHANGED <<redis, issued, used, bounds>>

\* check_locked: while a lock is in force neither request gets any further.
CheckLocked(t) ==
  /\ pc[t] = "check"
  /\ \/ lock # 0 /\ Answer(t)
     \/ lock = 0 /\ Go(t, IF req[t].kind = "ask" THEN "rl" ELSE "read")
  /\ UNCHANGED <<redis, issued, used, bounds>>

-----------------------------------------------------------------------------
(* The counters: INCR, and EXPIRE for whoever made the key *)

LevelFor(fails) ==
  IF fails >= LockAt[3] THEN 3 ELSE
  IF fails >= LockAt[2] THEN 2 ELSE
  IF fails >= LockAt[1] THEN 1 ELSE 0

\* What follows once counter k was brought to n.
Proceed(t, k, n) ==
  \/ k = "rl" /\ n > MaxAsks /\ Answer(t)
  \/ k = "rl" /\ n <= MaxAsks /\ Go(t, "store")
  \/ k = "a" /\ n > MaxTries /\ Go(t, "drop")
  \/ /\ k = "a" /\ n <= MaxTries
     /\ Go(t, IF req[t].guess = req[t].stored THEN "clear" ELSE "fail")
  \/ k = "fail" /\ LevelFor(n) = 0 /\ Answer(t)
  \/ /\ k = "fail" /\ LevelFor(n) # 0
     /\ pc' = [pc EXCEPT ![t] = "lock"]
     /\ req' = [req EXCEPT ![t] = Locking(LevelFor(n))]

\* The step that gives counter k its expiry.
ExpireStep(k) == [rl |-> "expire rl", a |-> "expire a", fail |-> "expire fail"][k]

Incr_ExpireLast(t, k) ==
  LET n == count[k] + 1 IN
  /\ pc[t] = k
  /\ count' = [count EXCEPT ![k] = n]
  /\ IF n = MaxAsks THEN Go(t, ExpireStep(k)) ELSE Proceed(t, k, n)
  /\ UNCHANGED <<code, ttl, lock, issued, used, bounds>>

Incr(t, k) ==
  LET n == count[k] + 1 IN
  /\ pc[t] = k
  /\ count' = [count EXCEPT ![k] = n]
  /\ IF n = 1 THEN Go(t, ExpireStep(k)) ELSE Proceed(t, k, n)
  /\ UNCHANGED <<code, ttl, lock, issued, used, bounds>>

Expire_WrongKey(t, k) ==
  /\ pc[t] = ExpireStep(k)
  /\ ttl' = [ttl EXCEPT !["a"] = count["a"] > 0]
  /\ Proceed(t, k, 1)
  /\ UNCHANGED <<code, count, lock, issued, used, bounds>>

\* EXPIRE does nothing to a key that is gone meanwhile.
Expire(t, k) ==
  /\ pc[t] = ExpireStep(k)
  /\ ttl' = [ttl EXCEPT ![k] = count[k] > 0]
  /\ Proceed(t, k, 1)
  /\ UNCHANGED <<code, count, lock, issued, used, bounds>>

\* DEL of the counters in ks.
Del(ks) ==
  /\ count' = [k \in Counter |-> IF k \in ks THEN 0 ELSE count[k]]
  /\ ttl' = [k \in Counter |-> ttl[k] /\ k \notin ks]

-----------------------------------------------------------------------------
(* Requesting a code *)

\* A new random code replaces the one before.  That two codes of six digits
\* coincide is left out.
Store(t) ==
  /\ pc[t] = "store"
  /\ issued' = issued + 1
  /\ code' = issued + 1
  /\ Go(t, "fresh")
  /\ UNCHANGED <<count, ttl, lock, used, bounds>>

ResetTries(t) ==
  /\ pc[t] = "fresh"
  /\ Del({"a"})
  /\ Answer(t)
  /\ UNCHANGED <<code, lock, issued, used, bounds>>

-----------------------------------------------------------------------------
(* Verifying a code *)

ReadCode_AbsentMatches(t) ==
  /\ pc[t] = "read"
  /\ req' = [req EXCEPT ![t].stored = code]
  /\ pc' = [pc EXCEPT ![t] = "a"]
  /\ UNCHANGED <<redis, issued, used, bounds>>

ReadCode(t) ==
  /\ pc[t] = "read"
  /\ \/ code = 0 /\ Answer(t)
     \/ /\ code # 0
        /\ req' = [req EXCEPT ![t].stored = code]
        /\ pc' = [pc EXCEPT ![t] = "a"]
  /\ UNCHANGED <<redis, issued, used, bounds>>

\* Too many attempts: the code is gone.
DropCode(t) ==
  /\ pc[t] = "drop"
  /\ code' = 0
  /\ Answer(t)
  /\ UNCHANGED <<count, ttl, lock, issued, used, bounds>>

\* SET otp:lock, with the time of the level whatever lock was in force.
Lock(t) ==
  /\ pc[t] = "lock"
  /\ lock' = req[t].level
  /\ Answer(t)
  /\ UNCHANGED <<code, count, ttl, issued, used, bounds>>

ClearFailures(t) ==
  /\ pc[t] = "clear"
  /\ Del({"fail"})
  /\ Go(t, "consume")
  /\ UNCHANGED <<code, lock, issued, used, bounds>>

Consume_KeepCode(t) ==
  /\ pc[t] = "consume"
  /\ used' = used \cup {req[t].stored}
  /\ Del({"a"})
  /\ Answer(t)
  /\ UNCHANGED <<code, lock, issued, bounds>>

\* DEL otp:h otp:a, whichever code is stored by now; the login goes on to
\* the user and the session.
Consume(t) ==
  /\ pc[t] = "consume"
  /\ code' = 0
  /\ used' = used \cup {req[t].stored}
  /\ Del({"a"})
  /\ Answer(t)
  /\ UNCHANGED <<lock, issued, bounds>>

Serve(t) ==
  \/ CheckLocked(t)
  \/ \E k \in Counter : Incr(t, k) \/ Expire(t, k)
  \/ Store(t) \/ ResetTries(t)
  \/ ReadCode(t) \/ DropCode(t) \/ Lock(t) \/ ClearFailures(t) \/ Consume(t)

-----------------------------------------------------------------------------
(* Around the handlers *)

\* POST /admin/users/unlock-login: one DEL.
Unlock ==
  /\ unlocks < MaxUnlocks
  /\ unlocks' = unlocks + 1
  /\ lock' = 0
  /\ Del(Counter)
  /\ UNCHANGED <<code, tasks, issued, used, arrived, failures>>

\* Time passes.  The code and the lock are always stored with an expiry.
CounterLapses(k) ==
  /\ ttl[k]
  /\ Del({k})
  /\ UNCHANGED <<code, lock, tasks, issued, used, bounds>>

CodeLapses ==
  /\ code # 0
  /\ code' = 0
  /\ UNCHANGED <<count, ttl, lock, tasks, issued, used, bounds>>

LockLapses ==
  /\ lock # 0
  /\ lock' = 0
  /\ UNCHANGED <<code, count, ttl, tasks, issued, used, bounds>>

\* The client hangs up, Redis does not answer, the server is killed.
Fail(t) ==
  /\ pc[t] # "idle"
  /\ failures < MaxFailures
  /\ failures' = failures + 1
  /\ Answer(t)
  /\ UNCHANGED <<redis, issued, used, arrived, unlocks>>

Next ==
  \/ \E t \in Task :
       \/ Begin(t, Ask) \/ \E guess \in 0..issued : Begin(t, Verify(guess))
       \/ Serve(t) \/ Fail(t)
  \/ Unlock
  \/ \E k \in Counter : CounterLapses(k)
  \/ CodeLapses \/ LockLapses

Spec == Init /\ [][Next]_vars

\* Requests under way are served, and keys with an expiry expire.
FairSpec ==
  /\ Spec
  /\ \A t \in Task : WF_vars(Serve(t))
  /\ \A k \in Counter : WF_vars(CounterLapses(k))
  /\ WF_vars(LockLapses)

-----------------------------------------------------------------------------
(* Properties *)

Steps == {"idle", "check", "store", "fresh", "read", "drop", "lock", "clear", "consume"}
           \cup Counter \cup {ExpireStep(k) : k \in Counter}

\* Every variable holds a value of its type, and no code is newer than the
\* latest one issued.
TypeOK ==
  /\ issued \in Nat /\ code \in 0..issued /\ used \subseteq 1..issued
  /\ count \in [Counter -> Nat] /\ ttl \in [Counter -> BOOLEAN]
  /\ lock \in 0..3
  /\ pc \in [Task -> Steps]
  /\ req \in [Task -> {NoRequest, Ask} \cup [kind : {"lock"}, level : Level]
                \cup [kind : {"verify"}, guess : 0..issued, stored : 0..issued]]
  /\ arrived \in 0..MaxRequests
  /\ failures \in 0..MaxFailures /\ unlocks \in 0..MaxUnlocks

\* "Verifies and consumes the OTP (single use ...)", as far as it goes: once a
\* login has consumed a code, no later request finds that code again, whatever
\* codes are requested and verified at the same time.  (Two verifications
\* that have both read the code before either consumes it both succeed.)
UsedCodesStayGone == code \notin used

\* Nobody is about to give counter k its expiry.
Forgotten(k) == count[k] > 0 /\ ~ttl[k] /\ \A t \in Task : pc[t] # ExpireStep(k)

\* INCR and EXPIRE are two commands, and yet a counter stays without expiry
\* only where a task was lost between them: one counter for each loss.
LeaksCostFailures == Cardinality({k \in Counter : Forgotten(k)}) <= failures

Admitted == {t \in Task : pc[t] \notin {"idle", "check"}}

\* "Escalating login protection": while the phone is locked, the only requests
\* still acting on its keys are those that were past the check already.
LockStopsNewcomers ==
  [][lock # 0 /\ lock' # 0 => Admitted' \subseteq Admitted]_vars

CanAsk == lock = 0 /\ count["rl"] < MaxAsks

\* A phone is never shut out for good without an admin: as long as no task is
\* lost, it can always ask for a code again some time later.
NeverShutOut == []<>(failures > 0 \/ CanAsk)
=============================================================================
