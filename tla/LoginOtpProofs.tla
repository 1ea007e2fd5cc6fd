---------------------------- MODULE LoginOtpProofs ----------------------------
(***************************************************************************)
(* Login codes and counters, for any number of concurrent requests, any    *)
(* limits and any number of losses.                                        *)
(*                                                                         *)
(* Codes are numbered as they are stored, so a code consumed is never      *)
(* stored again.  A counter without an expiry has a task about to give it  *)
(* one (the task that brought it to 1), and only losing that task leaves   *)
(* it behind.                                                              *)
(***************************************************************************)
EXTENDS LoginOtp, FiniteSetTheorems, TLAPS

USE DEF Level

Verifies == [kind : {"verify"}, guess : 0..issued, stored : 0..issued]
Lockings == [kind : {"lock"}, level : Level]

\* What the request of task t is, as far as its next command uses it.
Local(t) ==
  /\ pc[t] \in Steps
  /\ req[t] \in {NoRequest, Ask} \cup Lockings \cup Verifies
  /\ pc[t] = "check" => req[t] \in {Ask} \cup Verifies
  /\ pc[t] = "read" => req[t] \in Verifies
  /\ pc[t] \in {"a", "expire a", "clear", "consume"} =>
       req[t] \in Verifies /\ req[t].stored # 0
  /\ pc[t] = "lock" => req[t] \in Lockings

Keys ==
  /\ issued \in Nat /\ code \in 0..issued /\ used \subseteq 1..issued
  /\ count \in [Counter -> Nat] /\ ttl \in [Counter -> BOOLEAN]
  /\ lock \in 0..3

Bounds ==
  /\ arrived \in 0..MaxRequests
  /\ failures \in 0..MaxFailures /\ unlocks \in 0..MaxUnlocks

Functions == DOMAIN pc = Task /\ DOMAIN req = Task
             /\ pc = [t \in Task |-> pc[t]] /\ req = [t \in Task |-> req[t]]

LoginInv == Keys /\ Bounds /\ Functions /\ (\A t \in Task : Local(t)) /\ code \notin used

-----------------------------------------------------------------------------
\* Only task t moves, and codes are only added.
OnlyTask(t) ==
  /\ pc' = [pc EXCEPT ![t] = pc'[t]]
  /\ req' = [req EXCEPT ![t] = req'[t]]

\* What a step of one task has to show about the tasks.
LEMMA OneTaskMoves ==
  ASSUME LoginInv, NEW t \in Task, OnlyTask(t), Local(t)',
         issued' \in Nat, issued' >= issued
  PROVE  Functions' /\ \A s \in Task : Local(s)'
<1>1. Functions'
  BY DEF LoginInv, Functions, OnlyTask
<1>2. ASSUME NEW s \in Task, s # t PROVE Local(s)'
  <2>1. pc'[s] = pc[s] /\ req'[s] = req[s]
    BY <1>2 DEF LoginInv, Functions, OnlyTask
  <2>2. Verifies \subseteq Verifies'
    BY DEF Verifies, LoginInv, Keys
  <2>3. Local(s)
    BY DEF LoginInv
  <2> QED BY <2>1, <2>2, <2>3 DEF Local, Lockings
<1> QED BY <1>1, <1>2

\* The two ways in which a handler goes on.
LEMMA GoMoves ==
  ASSUME LoginInv, NEW t \in Task, NEW step, Go(t, step)
  PROVE  OnlyTask(t) /\ pc'[t] = step /\ req'[t] = req[t]
BY DEF Go, OnlyTask, LoginInv, Functions

LEMMA AnswerMoves ==
  ASSUME LoginInv, NEW t \in Task, Answer(t)
  PROVE  OnlyTask(t) /\ pc'[t] = "idle" /\ Local(t)'
BY DEF Answer, OnlyTask, LoginInv, Functions, Local, Steps

\* The steps by which a handler goes on with what it has.
LEMMA GoLocal ==
  ASSUME LoginInv, NEW t \in Task, NEW step \in Steps, Go(t, step), issued' = issued,
         step = "read" => pc[t] = "check" /\ req[t] \in Verifies,
         step \in {"a", "expire a", "clear", "consume"} =>
           pc[t] \in {"a", "expire a", "clear"},
         step \notin {"check", "lock"}
  PROVE  Local(t)'
<1>1. pc'[t] = step /\ req'[t] = req[t] /\ Local(t)
  BY GoMoves DEF LoginInv
<1>2. Verifies' = Verifies /\ Lockings' = Lockings
  BY DEF Verifies, Lockings
<1> QED BY <1>1, <1>2 DEF Local

LEMMA LevelForType ==
  ASSUME NEW n \in Nat
  PROVE  LevelFor(n) \in 0..3
BY DEF LevelFor

LEMMA StepNames ==
  /\ ExpireStep("rl") = "expire rl" /\ ExpireStep("a") = "expire a"
  /\ ExpireStep("fail") = "expire fail"
  /\ Steps = {"idle", "check", "store", "fresh", "read", "drop", "lock", "clear",
              "consume", "rl", "a", "fail", "expire rl", "expire a", "expire fail"}
<1>1. /\ ExpireStep("rl") = "expire rl" /\ ExpireStep("a") = "expire a"
      /\ ExpireStep("fail") = "expire fail"
  BY DEF ExpireStep
<1>2. {ExpireStep(k) : k \in Counter} = {"expire rl", "expire a", "expire fail"}
  BY <1>1 DEF Counter
<1> QED BY <1>1, <1>2 DEF Steps, Counter

LEMMA ProceedLocal ==
  ASSUME LoginInv, NEW t \in Task, NEW k \in Counter, NEW n \in Nat, issued' = issued,
         pc[t] \in {k, ExpireStep(k)}, Proceed(t, k, n)
  PROVE  /\ OnlyTask(t) /\ Local(t)'
         /\ pc'[t] \in {"idle", "store", "drop", "clear", "fail", "lock"}
<1>1. CASE Answer(t)
  BY <1>1, AnswerMoves
<1>2. CASE \E step \in {"store", "drop", "clear", "fail"} :
             Go(t, step) /\ (step = "clear" => k = "a")
  <2>1. PICK step \in {"store", "drop", "clear", "fail"} :
               Go(t, step) /\ (step = "clear" => k = "a")
    BY <1>2
  <2>2. step \in Steps
    BY StepNames
  <2>3. Local(t)'
    BY <2>1, <2>2, GoLocal, StepNames
  <2> QED BY <2>1, <2>3, GoMoves
<1>3. CASE /\ LevelFor(n) # 0
           /\ pc' = [pc EXCEPT ![t] = "lock"]
           /\ req' = [req EXCEPT ![t] = Locking(LevelFor(n))]
  <2>1. pc'[t] = "lock" /\ req'[t] = Locking(LevelFor(n)) /\ OnlyTask(t)
    BY <1>3 DEF LoginInv, Functions, OnlyTask
  <2>2. Locking(LevelFor(n)) \in Lockings
    BY <1>3, LevelForType DEF Locking, Lockings
  <2> QED BY <2>1, <2>2, StepNames DEF Local, Lockings
<1> QED BY <1>1, <1>2, <1>3 DEF Proceed

-----------------------------------------------------------------------------
LEMMA InitInv == Init => LoginInv
<1> SUFFICES ASSUME Init PROVE LoginInv
  OBVIOUS
<1>1. Keys /\ Bounds /\ code \notin used
  BY LoginAssumption DEF Init, Keys, Bounds
<1>2. Functions
  BY DEF Init, Functions
<1>3. ASSUME NEW t \in Task PROVE Local(t)
  BY <1>3, StepNames DEF Init, Local
<1> QED BY <1>1, <1>2, <1>3 DEF LoginInv

LEMMA DelKeys ==
  ASSUME Keys, NEW ks, Del(ks)
  PROVE  count' \in [Counter -> Nat] /\ ttl' \in [Counter -> BOOLEAN]
BY DEF Keys, Del

LEMMA BeginInv ==
  ASSUME LoginInv, NEW t \in Task, NEW r \in {Ask} \cup {Verify(g) : g \in 0..issued},
         Begin(t, r)
  PROVE  LoginInv'
<1>1. Keys' /\ Bounds' /\ (code \notin used)' /\ issued' = issued
  BY LoginAssumption DEF Begin, LoginInv, Keys, Bounds, redis
<1>2. pc'[t] = "check" /\ req'[t] = r /\ OnlyTask(t)
  BY DEF Begin, LoginInv, Functions, OnlyTask
<1>3. r \in {Ask} \cup Verifies'
  BY <1>1 DEF Verifies, Verify, LoginInv, Keys
<1>4. Local(t)'
  BY <1>2, <1>3, StepNames DEF Local
<1>5. issued' \in Nat /\ issued' >= issued
  BY <1>1 DEF Keys, LoginInv
<1> QED BY <1>1, <1>2, <1>4, <1>5, OneTaskMoves DEF LoginInv

\* A step of a task that keeps the code and the codes used.
LEMMA SameCode ==
  ASSUME LoginInv, NEW t \in Task, OnlyTask(t), Local(t)',
         issued' = issued, code' \in {0, code}, used' = used,
         count' \in [Counter -> Nat], ttl' \in [Counter -> BOOLEAN],
         lock' \in 0..3, Bounds'
  PROVE  LoginInv'
<1>1. Keys' /\ (code \notin used)'
  BY DEF LoginInv, Keys
<1>2. Functions' /\ \A s \in Task : Local(s)'
  BY <1>1, OneTaskMoves DEF LoginInv, Keys
<1> QED BY <1>1, <1>2 DEF LoginInv

LEMMA CounterInv ==
  ASSUME LoginInv, NEW t \in Task, NEW k \in Counter, Incr(t, k) \/ Expire(t, k)
  PROVE  LoginInv'
<1>1. /\ issued' = issued /\ code' = code /\ used' = used /\ lock' = lock
      /\ Bounds'
  BY DEF Incr, Expire, LoginInv, Bounds, bounds
<1>2. count' \in [Counter -> Nat] /\ ttl' \in [Counter -> BOOLEAN]
  <2>1. CASE Incr(t, k)
    BY <2>1 DEF Incr, LoginInv, Keys
  <2>2. CASE Expire(t, k)
    <3>1. (count[k] > 0) \in BOOLEAN
      BY DEF LoginInv, Keys
    <3> QED BY <2>2, <3>1 DEF Expire, LoginInv, Keys
  <2> QED BY <2>1, <2>2
<1>3. OnlyTask(t) /\ Local(t)'
  <2>1. CASE \E n \in Nat : Proceed(t, k, n) /\ pc[t] \in {k, ExpireStep(k)}
    BY <1>1, <2>1, ProceedLocal
  <2>2. CASE Incr(t, k) /\ Go(t, ExpireStep(k))
    <3>1. pc[t] = k
      BY <2>2 DEF Incr
    <3>2. ExpireStep(k) \in Steps
      BY DEF Steps
    <3>3. Local(t)'
      BY <1>1, <2>2, <3>1, <3>2, GoLocal, StepNames DEF Counter
    <3> QED BY <2>2, <3>3, GoMoves
  <2>3. CASE Expire(t, k)
    BY <2>1, <2>3 DEF Expire
  <2>4. CASE Incr(t, k) /\ count[k] + 1 # 1
    <3>1. count[k] + 1 \in Nat
      BY DEF LoginInv, Keys
    <3> QED BY <2>1, <2>4, <3>1 DEF Incr
  <2> QED BY <2>2, <2>3, <2>4 DEF Incr
<1> QED BY <1>1, <1>2, <1>3, SameCode DEF LoginInv, Keys

LEMMA ServeInv ==
  ASSUME LoginInv, NEW t \in Task, Serve(t)
  PROVE  LoginInv'
<1> USE DEF bounds, redis
<1>1. CASE CheckLocked(t)
  <2>1. OnlyTask(t) /\ Local(t)'
    <3>1. CASE Answer(t)
      BY <3>1, AnswerMoves
    <3>2. CASE ~Answer(t)
      <4>1. /\ pc[t] = "check" /\ issued' = issued
            /\ Go(t, IF req[t].kind = "ask" THEN "rl" ELSE "read")
        BY <1>1, <3>2 DEF CheckLocked
      <4>2. req[t] \in {Ask} \cup Verifies
        BY <4>1 DEF LoginInv, Local
      <4>3. CASE req[t].kind = "ask"
        BY <4>1, <4>3, GoLocal, GoMoves, StepNames
      <4>4. CASE req[t].kind # "ask"
        <5>1. req[t] \in Verifies
          BY <4>2, <4>4 DEF Ask
        <5> QED BY <4>1, <4>4, <5>1, GoLocal, GoMoves, StepNames
      <4> QED BY <4>3, <4>4
    <3> QED BY <3>1, <3>2
  <2> QED BY <1>1, <2>1, SameCode DEF CheckLocked, LoginInv, Keys, Bounds
<1>2. CASE \E k \in Counter : Incr(t, k) \/ Expire(t, k)
  BY <1>2, CounterInv
<1>3. CASE Store(t)
  <2>1. /\ pc[t] = "store" /\ issued' = issued + 1 /\ code' = issued + 1 /\ used' = used
        /\ count' = count /\ ttl' = ttl /\ lock' = lock /\ Go(t, "fresh")
    BY <1>3 DEF Store
  <2>2. Keys' /\ (code \notin used)' /\ Bounds'
    BY <1>3, <2>1 DEF Store, LoginInv, Keys, Bounds
  <2>3. pc'[t] = "fresh" /\ req'[t] = req[t] /\ OnlyTask(t)
    BY <2>1, GoMoves
  <2>4. Verifies \subseteq Verifies'
    BY <2>1 DEF Verifies, LoginInv, Keys
  <2>5. Local(t)'
    BY <2>3, <2>4, StepNames DEF Local, Lockings, LoginInv
  <2>6. issued' \in Nat /\ issued' >= issued
    BY <2>1 DEF LoginInv, Keys
  <2> QED BY <2>2, <2>3, <2>5, <2>6, OneTaskMoves DEF LoginInv
<1>4. CASE ResetTries(t)
  <2>1. OnlyTask(t) /\ Local(t)'
    BY <1>4, AnswerMoves DEF ResetTries
  <2> QED BY <1>4, <2>1, DelKeys, SameCode DEF ResetTries, LoginInv, Keys, Bounds
<1>5. CASE ReadCode(t)
  <2>1. CASE Answer(t)
    <3>1. OnlyTask(t) /\ Local(t)'
      BY <2>1, AnswerMoves
    <3> QED BY <1>5, <3>1, SameCode DEF ReadCode, LoginInv, Keys, Bounds
  <2>2. CASE ~Answer(t)
    <3>1. /\ pc[t] = "read" /\ code # 0 /\ issued' = issued
          /\ req' = [req EXCEPT ![t].stored = code] /\ pc' = [pc EXCEPT ![t] = "a"]
      BY <1>5, <2>2 DEF ReadCode
    <3>2. req[t] \in Verifies
      BY <3>1 DEF LoginInv, Local
    <3>3. OnlyTask(t) /\ pc'[t] = "a" /\ req'[t] = [req[t] EXCEPT !.stored = code]
      BY <3>1 DEF LoginInv, Functions, OnlyTask
    <3>4. req'[t] \in Verifies' /\ req'[t].stored # 0
      BY <3>1, <3>2, <3>3 DEF Verifies, LoginInv, Keys
    <3>5. Local(t)'
      BY <3>3, <3>4, StepNames DEF Local
    <3> QED BY <1>5, <3>3, <3>5, SameCode DEF ReadCode, LoginInv, Keys, Bounds
  <2> QED BY <2>1, <2>2
<1>6. CASE DropCode(t)
  <2>1. OnlyTask(t) /\ Local(t)'
    BY <1>6, AnswerMoves DEF DropCode
  <2> QED BY <1>6, <2>1, SameCode DEF DropCode, LoginInv, Keys, Bounds
<1>7. CASE Lock(t)
  <2>1. OnlyTask(t) /\ Local(t)'
    BY <1>7, AnswerMoves DEF Lock
  <2>2. lock' \in 0..3
    <3>1. req[t] \in Lockings
      BY <1>7 DEF Lock, LoginInv, Local
    <3> QED BY <1>7, <3>1 DEF Lock, Lockings
  <2> QED BY <1>7, <2>1, <2>2, SameCode DEF Lock, LoginInv, Keys, Bounds
<1>8. CASE ClearFailures(t)
  <2>1. pc[t] = "clear" /\ Go(t, "consume") /\ issued' = issued
    BY <1>8 DEF ClearFailures
  <2>2. OnlyTask(t) /\ Local(t)'
    BY <2>1, GoLocal, GoMoves, StepNames
  <2> QED BY <1>8, <2>2, DelKeys, SameCode DEF ClearFailures, LoginInv, Keys, Bounds
<1>9. CASE Consume(t)
  <2>1. OnlyTask(t) /\ Local(t)'
    BY <1>9, AnswerMoves DEF Consume
  <2>2. req[t].stored \in 1..issued
    <3>1. Local(t) /\ pc[t] = "consume"
      BY <1>9 DEF Consume, LoginInv
    <3>2. req[t] \in Verifies /\ req[t].stored # 0
      BY <3>1 DEF Local
    <3>3. req[t].stored \in 0..issued /\ issued \in Nat
      BY <3>2 DEF Verifies, LoginInv, Keys
    <3> QED BY <3>2, <3>3
  <2>3. Keys' /\ (code \notin used)' /\ Bounds' /\ issued' = issued
    <3>1. /\ issued' = issued /\ code' = 0 /\ used' = used \cup {req[t].stored}
          /\ lock' = lock /\ arrived' = arrived /\ failures' = failures
          /\ unlocks' = unlocks /\ Del({"a"})
      BY <1>9 DEF Consume
    <3>2. count' \in [Counter -> Nat] /\ ttl' \in [Counter -> BOOLEAN]
      BY <3>1, DelKeys DEF LoginInv
    <3>3. /\ issued \in Nat /\ used \subseteq 1..issued /\ lock \in 0..3
          /\ Bounds /\ Bounds' = Bounds
      BY <3>1 DEF LoginInv, Keys, Bounds
    <3>4. used' \subseteq 1..issued /\ 0 \notin used' /\ 0 \in 0..issued
      <4>1. used' \subseteq 1..issued
        BY <2>2, <3>1, <3>3, Zenon
      <4>2. 0 \notin 1..issued /\ 0 \in 0..issued
        BY <3>3
      <4> QED BY <4>1, <4>2
    <3>5. Keys'
      BY <3>1, <3>2, <3>3, <3>4 DEF Keys
    <3> QED BY <3>1, <3>3, <3>4, <3>5
  <2> QED BY <2>1, <2>3, OneTaskMoves DEF LoginInv, Keys
<1> QED BY <1>1, <1>2, <1>3, <1>4, <1>5, <1>6, <1>7, <1>8, <1>9 DEF Serve

LEMMA StepInv == LoginInv /\ [Next]_vars => LoginInv'
<1> SUFFICES ASSUME LoginInv, [Next]_vars PROVE LoginInv'
  OBVIOUS
<1> USE DEF bounds, redis, tasks
<1>1. ASSUME NEW t \in Task, Begin(t, Ask) \/ \E guess \in 0..issued : Begin(t, Verify(guess))
      PROVE  LoginInv'
  BY <1>1, BeginInv
<1>2. ASSUME NEW t \in Task, Serve(t) PROVE LoginInv'
  BY <1>2, ServeInv
<1>3. ASSUME NEW t \in Task, Fail(t) PROVE LoginInv'
  <2>1. OnlyTask(t) /\ Local(t)'
    BY <1>3, AnswerMoves DEF Fail
  <2>2. Bounds'
    BY <1>3, LoginAssumption DEF Fail, LoginInv, Bounds
  <2> QED BY <1>3, <2>1, <2>2, SameCode DEF Fail, LoginInv, Keys
<1>4. ASSUME tasks' = tasks, issued' = issued, used' = used, code' \in {0, code},
             lock' \in {0, lock}, arrived' = arrived, failures' = failures,
             unlocks' \in 0..MaxUnlocks,
             count' \in [Counter -> Nat], ttl' \in [Counter -> BOOLEAN]
      PROVE  LoginInv'
  <2>1. Keys' /\ Bounds' /\ (code \notin used)' /\ Functions'
    BY <1>4 DEF LoginInv, Keys, Bounds, Functions
  <2>2. Verifies' = Verifies
    BY <1>4 DEF Verifies
  <2>3. ASSUME NEW t \in Task PROVE Local(t)'
    BY <1>4, <2>2 DEF LoginInv, Local, Lockings
  <2> QED BY <2>1, <2>3 DEF LoginInv
<1>5. CASE Unlock
  <2>1. unlocks' \in 0..MaxUnlocks
    BY <1>5, LoginAssumption DEF Unlock, LoginInv, Bounds
  <2> QED BY <1>4, <1>5, <2>1, DelKeys DEF Unlock, LoginInv
<1>6. ASSUME NEW k \in Counter, CounterLapses(k) PROVE LoginInv'
  BY <1>4, <1>6, DelKeys DEF CounterLapses, LoginInv, Bounds
<1>7. CASE CodeLapses \/ LockLapses
  BY <1>4, <1>7 DEF CodeLapses, LockLapses, LoginInv, Keys, Bounds
<1>8. CASE UNCHANGED vars
  BY <1>4, <1>8 DEF vars, LoginInv, Keys, Bounds
<1> QED BY <1>1, <1>2, <1>3, <1>5, <1>6, <1>7, <1>8 DEF Next

\* LoginInv holds of every reachable state.
THEOREM LoginInvariant == Spec => []LoginInv
BY InitInv, StepInv, PTL DEF Spec

\* The type invariant, and no code newer than the latest issued.
THEOREM TypesAreKept == Spec => []TypeOK
<1>1. LoginInv => TypeOK
  BY DEF LoginInv, Keys, Bounds, Functions, Local, TypeOK, Lockings, Verifies
<1> QED BY <1>1, LoginInvariant, PTL

\* A code that a login has consumed is never found again.
THEOREM CodesAreSpent == Spec => []UsedCodesStayGone
<1>1. LoginInv => UsedCodesStayGone
  BY DEF LoginInv, UsedCodesStayGone
<1> QED BY <1>1, LoginInvariant, PTL

-----------------------------------------------------------------------------
\* A handler moves its own task only, and a handler past the check has left it.
LEMMA ServeMoves ==
  ASSUME LoginInv, NEW t \in Task, Serve(t)
  PROVE  OnlyTask(t) /\ (CheckLocked(t) \/ pc[t] \notin {"idle", "check"})
<1>1. ASSUME NEW step, Go(t, step) PROVE OnlyTask(t)
  BY <1>1, GoMoves
<1>2. ASSUME Answer(t) PROVE OnlyTask(t)
  BY <1>2, AnswerMoves
<1>3. ASSUME NEW step, NEW r, pc' = [pc EXCEPT ![t] = step], req' = [req EXCEPT ![t] = r]
      PROVE  OnlyTask(t)
  BY <1>3 DEF OnlyTask, LoginInv, Functions
<1>4. ASSUME NEW k \in Counter, NEW n, Proceed(t, k, n) PROVE OnlyTask(t)
  BY <1>1, <1>2, <1>3, <1>4 DEF Proceed
<1>5. ASSUME NEW k \in Counter, Incr(t, k) \/ Expire(t, k)
      PROVE  OnlyTask(t) /\ pc[t] \notin {"idle", "check"}
  BY <1>1, <1>4, <1>5, StepNames DEF Incr, Expire, Counter
<1>6. CASE ReadCode(t)
  <2>1. CASE Answer(t)
    BY <1>2, <1>6, <2>1 DEF ReadCode
  <2>2. CASE ~Answer(t)
    BY <1>6, <2>2 DEF ReadCode, OnlyTask, LoginInv, Functions
  <2> QED BY <2>1, <2>2
<1>7. CASE Store(t) \/ ResetTries(t) \/ DropCode(t) \/ Lock(t) \/ ClearFailures(t)
           \/ Consume(t)
  BY <1>1, <1>2, <1>7 DEF Store, ResetTries, DropCode, Lock, ClearFailures, Consume
<1>8. CASE CheckLocked(t)
  BY <1>1, <1>2, <1>8 DEF CheckLocked
<1> QED BY <1>5, <1>6, <1>7, <1>8 DEF Serve

\* While a lock is in force before and after a step, no task gets past the
\* check in that step.
THEOREM LockedPhoneIsQuiet == Spec => LockStopsNewcomers
<1> DEFINE Quiet == lock # 0 /\ lock' # 0 => Admitted' \subseteq Admitted
<1>1. LoginInv /\ [Next]_vars => [Quiet]_vars
  <2> SUFFICES ASSUME LoginInv, Next, lock # 0,
                      NEW s \in Task, pc[s] \in {"idle", "check"}
               PROVE  pc'[s] \in {"idle", "check"}
    BY DEF Admitted
  <2>1. ASSUME NEW t \in Task,
               Begin(t, Ask) \/ \E guess \in 0..issued : Begin(t, Verify(guess))
        PROVE  pc'[s] \in {"idle", "check"}
    BY <2>1 DEF Begin, LoginInv, Functions
  <2>2. ASSUME NEW t \in Task, Answer(t) PROVE pc'[s] \in {"idle", "check"}
    BY <2>2 DEF Answer, LoginInv, Functions
  <2>3. ASSUME NEW t \in Task, Serve(t) PROVE pc'[s] \in {"idle", "check"}
    <3>1. CASE CheckLocked(t)
      BY <2>2, <3>1 DEF CheckLocked
    <3>2. CASE pc[t] \notin {"idle", "check"}
      BY <2>3, <3>2, ServeMoves DEF OnlyTask, LoginInv, Functions
    <3> QED BY <2>3, <3>1, <3>2, ServeMoves
  <2>4. ASSUME NEW t \in Task, Fail(t) PROVE pc'[s] \in {"idle", "check"}
    BY <2>2, <2>4 DEF Fail
  <2>5. CASE Unlock \/ CodeLapses \/ LockLapses \/ \E k \in Counter : CounterLapses(k)
    BY <2>5 DEF Unlock, CodeLapses, LockLapses, CounterLapses, tasks
  <2> QED BY <2>1, <2>3, <2>4, <2>5 DEF Next
<1> QED BY <1>1, LoginInvariant, PTL DEF Spec, LockStopsNewcomers

-----------------------------------------------------------------------------
\* Only losing a task leaves a counter without its expiry behind.
LEMMA ServeForgetsNothing ==
  ASSUME LoginInv, NEW t \in Task, Serve(t), NEW k \in Counter, Forgotten(k)'
  PROVE  Forgotten(k)
<1>1. ASSUME NEW s \in Task, s # t PROVE pc'[s] = pc[s]
  BY <1>1, ServeMoves DEF OnlyTask, LoginInv, Functions
<1>2. ASSUME pc[t] # ExpireStep(k), count'[k] = count[k], ttl'[k] = ttl[k]
      PROVE  Forgotten(k)
  BY <1>1, <1>2 DEF Forgotten
<1>3. ASSUME NEW j \in Counter, Expire(t, j) PROVE Forgotten(k)
  <2>1. CASE j = k
    BY <1>3, <2>1 DEF Expire, Forgotten, LoginInv, Keys
  <2>2. CASE j # k
    <3>1. pc[t] # ExpireStep(k)
      BY <1>3, <2>2, StepNames DEF Expire, Counter
    <3> QED BY <1>2, <1>3, <2>2, <3>1 DEF Expire, LoginInv, Keys
  <2> QED BY <2>1, <2>2
<1>4. ASSUME NEW j \in Counter, Incr(t, j) PROVE Forgotten(k)
  <2>1. pc[t] = j /\ pc[t] # ExpireStep(k)
    BY <1>4, StepNames DEF Incr, Counter
  <2>2. CASE j # k
    BY <1>2, <1>4, <2>1, <2>2 DEF Incr, LoginInv, Keys
  <2>3. CASE j = k /\ count[k] = 0
    <3>1. Go(t, ExpireStep(k))
      BY <1>4, <2>3 DEF Incr
    <3>2. pc'[t] = ExpireStep(k)
      BY <3>1, GoMoves
    <3> QED BY <3>2 DEF Forgotten
  <2>4. CASE j = k /\ count[k] # 0
    <3>1. count[k] > 0 /\ ttl'[k] = ttl[k]
      BY <1>4, <2>4 DEF Incr, LoginInv, Keys
    <3> QED BY <1>1, <2>1, <3>1 DEF Forgotten
  <2> QED BY <2>2, <2>3, <2>4
<1>5. ASSUME NEW ks, Del(ks), pc[t] # ExpireStep(k) PROVE Forgotten(k)
  <2>1. k \notin ks
    BY <1>5 DEF Del, Forgotten
  <2>2. count'[k] = count[k] /\ (ttl'[k] <=> ttl[k])
    BY <1>5, <2>1 DEF Del
  <2> QED BY <1>1, <1>5, <2>2 DEF Forgotten
<1>6. CASE CheckLocked(t) \/ Store(t) \/ ReadCode(t) \/ DropCode(t) \/ Lock(t)
  BY <1>2, <1>6, StepNames
     DEF CheckLocked, Store, ReadCode, DropCode, Lock, redis, Counter
<1>7. CASE ResetTries(t) \/ ClearFailures(t) \/ Consume(t)
  BY <1>5, <1>7, StepNames DEF ResetTries, ClearFailures, Consume, Counter
<1> QED BY <1>3, <1>4, <1>6, <1>7 DEF Serve

LEMMA FailForgetsOne ==
  ASSUME LoginInv, NEW t \in Task, Fail(t)
  PROVE  \E j \in Counter : \A k \in Counter \ {j} : Forgotten(k)' => Forgotten(k)
<1>1. /\ count' = count /\ ttl' = ttl /\ \A s \in Task \ {t} : pc'[s] = pc[s]
  <2>1. OnlyTask(t)
    BY AnswerMoves DEF Fail
  <2> QED BY <2>1 DEF Fail, OnlyTask, LoginInv, Functions, redis
<1>2. PICK j \in Counter : \A k \in Counter \ {j} : pc[t] # ExpireStep(k)
  BY StepNames DEF Counter
<1> QED BY <1>1, <1>2 DEF Forgotten

\* A counter without an expiry costs a lost task each.
THEOREM LeaksAreLosses == Spec => []LeaksCostFailures
<1> DEFINE F == {k \in Counter : Forgotten(k)}
<1>0. IsFiniteSet(F) /\ IsFiniteSet(F') /\ Cardinality(F) \in Nat
  <2>1. IsFiniteSet(Counter)
    <3>1. IsFiniteSet({}) /\ Counter = {} \cup {"rl"} \cup {"a"} \cup {"fail"}
      BY FS_EmptySet DEF Counter
    <3> HIDE DEF Counter
    <3>2. IsFiniteSet({} \cup {"rl"})
      BY <3>1, FS_AddElement, Zenon
    <3>3. IsFiniteSet({} \cup {"rl"} \cup {"a"})
      BY <3>2, FS_AddElement, Zenon
    <3>4. IsFiniteSet({} \cup {"rl"} \cup {"a"} \cup {"fail"})
      BY <3>3, FS_AddElement, Zenon
    <3> QED BY <3>1, <3>4, Zenon
  <2>2. F \subseteq Counter /\ F' \subseteq Counter
    OBVIOUS
  <2> QED BY <2>1, <2>2, FS_Subset, FS_CardinalityType
<1>1. Init => LeaksCostFailures
  <2> SUFFICES ASSUME Init PROVE LeaksCostFailures
    OBVIOUS
  <2>1. F = {}
    BY DEF Init, Forgotten
  <2> QED BY <2>1, FS_EmptySet DEF Init, LeaksCostFailures
<1>2. LoginInv /\ LeaksCostFailures /\ [Next]_vars => LeaksCostFailures'
  <2> SUFFICES ASSUME LoginInv, LeaksCostFailures, [Next]_vars
               PROVE  Cardinality(F') <= failures'
    BY DEF LeaksCostFailures
  <2>0. failures \in Nat /\ Cardinality(F) <= failures
    BY LoginAssumption DEF LoginInv, Bounds, LeaksCostFailures
  <2>1. ASSUME F' \subseteq F, failures' = failures PROVE Cardinality(F') <= failures'
    BY <1>0, <2>0, <2>1, FS_Subset, FS_CardinalityType
  <2>2. ASSUME NEW t \in Task, Fail(t) PROVE Cardinality(F') <= failures'
    <3>1. PICK j \in Counter : \A k \in Counter \ {j} : Forgotten(k)' => Forgotten(k)
      BY <2>2, FailForgetsOne
    <3>2. F' \subseteq F \cup {j}
      BY <3>1
    <3>3. IsFiniteSet(F \cup {j}) /\ Cardinality(F \cup {j}) <= Cardinality(F) + 1
      <4> HIDE DEF F
      <4>1. /\ IsFiniteSet(F \cup {j})
            /\ Cardinality(F \cup {j}) \in {Cardinality(F), Cardinality(F) + 1}
        BY <1>0, FS_AddElement, Zenon
      <4> QED BY <1>0, <4>1
    <3>4. Cardinality(F') <= Cardinality(F \cup {j})
      BY <3>2, <3>3, FS_Subset
    <3>5. Cardinality(F') \in Nat /\ Cardinality(F \cup {j}) \in Nat
      BY <1>0, <3>3, FS_CardinalityType
    <3>6. failures' = failures + 1
      BY <2>2 DEF Fail
    <3> QED BY <1>0, <2>0, <3>3, <3>4, <3>5, <3>6
  <2>3. ASSUME NEW t \in Task, Serve(t) PROVE Cardinality(F') <= failures'
    <3>1. F' \subseteq F
      BY <2>3, ServeForgetsNothing
    <3>2. failures' = failures
      BY <2>3 DEF Serve, CheckLocked, Incr, Expire, Store, ResetTries, ReadCode, DropCode,
                  Lock, ClearFailures, Consume, bounds
    <3> QED BY <2>1, <3>1, <3>2
  <2>4. ASSUME NEW t \in Task,
               Begin(t, Ask) \/ \E guess \in 0..issued : Begin(t, Verify(guess))
        PROVE  Cardinality(F') <= failures'
    <3>1. ASSUME NEW k \in Counter, Forgotten(k)' PROVE Forgotten(k)
      BY <2>4, <3>1, StepNames DEF Begin, Forgotten, LoginInv, Functions, redis, Counter
    <3>2. failures' = failures
      BY <2>4 DEF Begin
    <3> QED BY <2>1, <3>1, <3>2
  <2>5. ASSUME NEW ks, Del(ks), tasks' = tasks, failures' = failures
        PROVE  Cardinality(F') <= failures'
    <3>1. ASSUME NEW k \in Counter, Forgotten(k)' PROVE Forgotten(k)
      <4>1. pc' = pc /\ count'[k] > 0
        BY <2>5, <3>1 DEF Forgotten, tasks
      <4>2. k \notin ks
        BY <2>5, <4>1 DEF Del
      <4>3. count'[k] = count[k] /\ (ttl'[k] <=> ttl[k])
        BY <2>5, <4>2 DEF Del
      <4> QED BY <3>1, <4>1, <4>3 DEF Forgotten
    <3> QED BY <2>1, <2>5, <3>1
  <2>6. CASE Unlock \/ \E k \in Counter : CounterLapses(k)
    BY <2>5, <2>6 DEF Unlock, CounterLapses, bounds
  <2>7. CASE CodeLapses \/ LockLapses \/ UNCHANGED vars
    <3>1. count' = count /\ ttl' = ttl /\ tasks' = tasks /\ failures' = failures
      BY <2>7 DEF CodeLapses, LockLapses, vars, redis, bounds
    <3>2. F' = F
      BY <3>1 DEF Forgotten, tasks
    <3> QED BY <2>1, <3>1, <3>2
  <2> QED BY <2>2, <2>3, <2>4, <2>6, <2>7 DEF Next
<1> QED BY <1>1, <1>2, LoginInvariant, PTL DEF Spec
=============================================================================
