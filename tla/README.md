# UrbanSatna: a TLA+ model of the booking platform

UrbanSatna is a marketplace for home services in one city.  Customers book a
service, verified workers accept the job and carry it out, admins run the
catalogue, the coupons, the settings and the verification of workers.  The
backend is an axum/tokio server (`backend/`) over PostgreSQL (sqlx) and Redis;
the client is a Flutter app (`mobile/`).

What makes the system hard is the same everywhere: **a handler is a sequence of
statements, each of its own transaction unless the code opens one, and every
statement is an `.await` at which any other request runs, or at which the
request is lost** (database error, client gone, process killed).  Correctness
rests on a few conditional `UPDATE`s, three unique keys and two transactions.
The modules here give every such statement an action of its own, and check and
prove that these few devices are enough, or show where they are not.

## 1. Inventory

| Part | State | Operations | Interaction | What is hard | What makes it correct |
|---|---|---|---|---|---|
| Booking lifecycle (`domain/booking.rs`, `infra/db/bookings.rs`, `api/bookings.rs`) | `bookings` rows | accept, advance (en_route, arrived, start, complete), cancel, rate; feeds available, my_jobs, mine, earnings | worker and customer requests race on a row; every write is followed by an audit row | read, then conditional update; audit row in a later statement | no status skipped or revisited; first accept wins; start needs the arrival code; paid jobs stay; audit rows true |
| Booking creation (`api/bookings.rs::create`, `infra/db/bookings.rs::create`) | `bookings`, `coupon_redemptions` | create | reads settings, catalogue, coupons, own bookings; then one transaction | six reads before the transaction, none locked | one use per user; price and discount of one deal; bounded overshoot of cap and pause |
| Coupons (`infra/db/coupons.rs`) | `coupons`, `coupon_redemptions` | create, activate, preview, list | preview from creation and from the quote | preview outside the transaction; clamp | see above |
| Worker verification (`infra/db/workers.rs`, `api/me.rs`, `api/admin.rs`) | `worker_applications`, `user_roles` | apply, upload KYC, decide | login grants roles too | two admins at once; uploads racing a decision; lost tasks | worker iff approved; one pending application; decisions final |
| Audit trail (`infra/db/audit.rs`) | `audit_logs` | log, list | called by every handler after its write | lost or reordered rows | rows are true and not doubled |
| Login (`infra/otp.rs`, `api/auth.rs`) | Redis: code hash, attempts, failures, locks, request counter | request, verify, admin unlock | verify then finds or creates the user, grants roles, opens a session | several round trips per request; INCR without EXPIRE; double verify | single use, bounded attempts, locks escalate |
| Sessions (`infra/db/sessions.rs`, `infra/db/users.rs::set_blocked`) | `sessions`, `users.blocked_at` | create, rotate, revoke, revoke all, block, unblock | refresh against block and logout | block races login and refresh; lost refresh answer | sessions that survive a block slipped in before it, and die out |
| Settings (`api/app_config.rs`, `infra/db/settings.rs`) | `app_settings` | load, update | read by creation, support bot and app | one update is many statements and one audit row | a partial edit keeps the rest; what was changed is audited, but for requests cut short |
| Catalogue (`infra/db/catalog.rs`) | `categories`, `services` | create, update, pictures | creation reads prices | none of its own | price > 0 |
| Tickets (`infra/db/tickets.rs`) | `tickets` | create, resolve, reopen, close | | racing transitions, each with a later audit row | closed is final; a resolution is reopened once; the trail explains the ticket |
| Support chat and bot (`api/support.rs`, `infra/bot.rs`) | `support_messages` | send, reply, attachments | bot reads the flag and history, then calls a slow service | human takeover during the call; two first texts create one bot | every text answered; no new reply once humans are online |
| Booking chat (`api/chat.rs`) | `booking_messages` | send, list | who takes part depends on the booking | participant check before the insert or the query; the booking changes hands in between | only the two sides write, only they and staff read |
| Mobile authentication (`mobile/lib/core/auth`, `core/network`) | tokens in memory and secure storage | verify, refresh, logout, retry after 401 | refresh and logout on one server session | logout during refresh; killed between writes | tokens at rest are the server's unless the app was killed; dead ones are dropped |
| Mobile server address (`core/config/server_url.dart`) | preferences | set, reset, apply admin config | config fetched from the very address it may change | lock-out, flip-flop | the app can always reach some server |
| Screens, router, health, envelope, migrations, CI | none, or written once | | | | |

`PROJECT.json` lists the same parts with their status, and the hazards of the
code, each at its line with the properties that would notice it going wrong.

## 2. Plan

In this order, the most important behaviour first:

1. `BookingRules`, `BookingLifecycle` (abstract), `Bookings` (handlers), their
   refinement, runs and proofs. **Done.**
2. `BookingCreation` with coupons, cap and pause, and its proofs. **Done.**
3. `WorkerVerification` with roles and logins, and its proofs. **Done.**
4. `LoginOtp`: the Redis keys of one phone, one action per command, and its
   proofs. **Done.**
5. `Sessions`: login from the user lookup on, refresh, logout, block, and its
   proofs; `MobileAuth`, the client that stores and rotates the tokens,
   composed with it.  **Done.**
6. `AppSettings` (partial updates) composed with `SupportChat`; `Tickets`;
   `BookingChat`, composed with the lifecycle; proofs of the last two.
   **Done.**  A module for the mobile server address was planned and dropped
   (section 6).
7. Proofs of what the runs check and was not proved with its module: the lost
   audit rows and the conflicts of `Bookings`, the settings and the chat, the
   devices with the server, and the remaining types. **Done**: every invariant
   and action property of a run is a theorem, the liveness properties are not
   (section 5).

## 3. Modules

    BookingRules        pure rules of domain/booking.rs
      BookingLifecycle  what customers and workers are promised
      Bookings          the handlers; Lifecycle == INSTANCE BookingLifecycle
        MCBookings, BookingsProofs
    BookingCreation     POST /bookings, coupons, settings
        MCBookingCreation, BookingCreationProofs
    WorkerVerification  applications, decisions, roles
        MCWorkerVerification, WorkerVerificationProofs
    LoginOtp            login codes, counters and locks in Redis
        MCLoginOtp, LoginOtpProofs
    Sessions            one account: sessions, tokens, blocking
        MCSessions
      MobileAuth        the app's tokens, in memory and in storage
        MCMobileAuth, MobileAuthProofs (of Sessions too)
    AppSettings         one update of the settings, statement by statement
      SupportChat       support thread and bot, over the flag of AppSettings
        MCSupportChat, SupportChatProofs (of AppSettings too)
    Tickets             complaints and their audit rows
        MCTickets, TicketsProofs
    BookingLifecycle
      BookingChat       the chat of a booking, over the lifecycle
        MCBookingChat, BookingChatProofs

`Bookings` starts with bookings just created and follows them to the end;
`BookingCreation` follows a request up to the commit and takes the rest of a
booking's life as one step, `Finish`.  The two meet at the row that
`create` inserts (`NewRow`, `NewBooking`).  `BookingChat` needs to know of a
booking only who its two sides are, so it is composed with the abstract
`BookingLifecycle`, which `Bookings` is shown to implement.  `MobileAuth` and
`SupportChat` extend the modules they are composed with: their `Next` has the
steps of both, and the part that does not move is `UNCHANGED`.

Conventions, the same in every state machine unless a section says otherwise:

- `pc[t]` is the statement task `t` is about to run, `req[t]` its request,
  `seen[t]`/`mem[t]` the local variables that outlive a statement.  A task is
  `"idle"` when it serves nobody; a finished or failed handler goes back to
  idle through `Answer` (`Done`, `Finish`), so nothing it read survives.
- `Fail(t)` loses a task before any of its statements.  What it committed
  stays, an open transaction is rolled back.  A crash of the server loses all
  running tasks; to the database that is several `Fail`s in a row, since no
  handler keeps state of its own, so only
  `WorkerVerification`, where a restart may change `ADMIN_PHONES`, and
  `MobileAuth`, where the app loses its memory, have a `Restart`.
- Transactions: uncommitted writes are visible to nobody, so they take effect
  at the commit action; what others can notice before it, the row or key lock,
  is a guard (`Held`, `Locked`).
- Definitions with a capitalised suffix (`Acceptable_AnyStatus`) are faulty
  variants that no action uses.  Each stands in for the definition that follows
  it when showing that a property notices the fault.

### Bookings

`row[b]` has the columns that decide anything: status, worker, rating (0 is
NULL) and which timestamps are set.  `read -> write -> reread -> log` are the
statements of the handlers; accept and rate start at `write`.  `Read` is
`get` plus the checks of `advance`/`cancel`; `WriteAccept`, `WriteAdvance`,
`WriteCancel`, `WriteRate` are the four conditional `UPDATE`s with their
`WHERE` (`Acceptable`, `StillMine`, `StillCancellable`, `Ratable`) and `SET`
(`Accepted`, `Advanced`, `Cancelled`, `Rated`); `Reread` the final `get`,
`Log` the `audit::log`.  The role check and the range of a rating come before
any statement (`Admitted`).  `Request` includes what clients may send wrongly:
foreign bookings, wrong or missing codes, unknown actions, illegal ratings.
Addresses, notes, prices and the redaction of answers are left out.

### BookingCreation

One action per statement of the handler: pause, cap, count, price, coupon,
used, then the transaction: `Redeem` (both INSERTs, with the wait for another
transaction's key and the conflict), `Commit`, and `Log`.  Prices are paise and
the discount is computed as in the code, integer division and clamp included;
a clamp with crossed bounds panics (`"panic"`, `Unwind`).  Admins change the
switch, the cap, prices and coupons at any time; a booking leaves the active
set by `Finish`.  `late` is a history variable: bookings committed since the
current pause began.

### WorkerVerification

Roles are `user_roles`.  A login is modelled from the role assignment on
(`grant`, `revoke` for admin phones, `session`); the code check before it
belongs to `LoginOtp`, the audit rows of a login are left out.  An
application reads the roles, then inserts under the partial unique index.  A
decision locks and updates the application, inserts the role and commits; an
INSERT that collides with the locked row, a second decision and an upload wait.
`AttachKyc` is taken at the moment its row is free, which is when PostgreSQL
evaluates its condition again.  Its audit row names no application and is left
out.

### LoginOtp

The keys of one phone: `code` is otp:h, `count` and `ttl` are the counters
otp:rl, otp:a and otp:fail with their expiry, `lock` is otp:lock.  A step of a
task is one Redis command together with the local decision that follows it:
`CheckLocked`, `Incr`, `Expire`, `Store`, `ResetTries`, `ReadCode`, `DropCode`,
`Lock`, `ClearFailures`, `Consume`.  INCR and EXPIRE are separate steps, as in
the code; `Proceed` is what a handler does with the number INCR returned.  Codes
are numbered in the order they are stored, which stands for their being random;
a guess is any code so far, or none.  Time is left out: any key with an expiry
may expire at any moment (`CounterLapses`, `CodeLapses`, `LockLapses`), which
allows more than Redis does, where the 24 hours of otp:fail outlast the others.
The levels 1 to 3 of a lock stand for 3 minutes, 10 minutes and 24 hours.

### Sessions

One account: its row (`account`), the rows of `sessions` (`hash`, `dead`) and,
per session, whether an access token that has not expired is out (`valid`).
`Find -> Create -> Open -> Issue` is a login from the user lookup on, `Rotate ->
User -> Issue` a refresh, `Authorize -> Revoke` both logouts, `Mark -> Sweep`
and `Unmark` the admin's blocking and unblocking.  Here a call keeps its answer
(`"ok"`, `"failed"`) until its caller takes it (`Leave`), because `MobileAuth`
needs to tell an answer from its loss.  Tokens are random in the code: a new one
is any token nobody holds (`Fresh`), and as nothing depends on which, the model
takes one.  A session is revoked, or expires, for good (`dead`).  Whether an
access token is accepted depends on its expiry alone, as in `CurrentUser`.
Audit rows are left out: none of the properties is about them, and losing one
is losing the call between the statements around it.  `swept`, `past` and
`slipped` are history: whether the sweep has run since the block began, which
logins were past the check at that moment, and which sessions they opened.

### MobileAuth

Extends `Sessions` with devices.  Each has the controller's state (`mem`), the
secure storage (`disk`), and two flows of Dart code, one that logs in and out
and one that refreshes (single-flight in the code, so there is one of it); a
flow is suspended at every `await`: the call, and each write of a key.
`SetState` stores what the flow got even if the other has logged out meanwhile.
`Hear` is the answer, `AfterFailure` what the catch clauses do.  `Restart` kills
the app anywhere and starts it from the storage; its calls are forgotten, what
they did on the server stays.  The third key, the roles, and the request that
is repeated after a refresh are left out: neither decides about tokens.  The
other devices, the admin and expiry reach a device only as sessions that end
(`Expire`, `Lapse`), so the instance needs no calls of others.

### AppSettings and SupportChat

`AppSettings` is one request to update the settings, the statements in the
order of the code: the banner is read (`LoadBanner`) and stored merged
(`SetBanner`), then a validated setting (`SetBuild`, which may refuse and ends
the request there), then a flag (`SetOnline`), and at the end one audit row
(`LogEdit`).  These three settings stand for the others, which are stored
by the same call, validated or not.  A part of the banner is the number of
the edit it comes from.  `merged` is history: the banner if each merge were
atomic; `raced` tells that a merge was based on an outdated banner.

`SupportChat` extends it with one customer's thread.  `Send` and
`StoreMessage` are the posts of both sides; after a customer's text the handler
itself runs the bot, `CheckFlag`, `FindBot`, `CreateBot`, `NameBot`, `AskModel`,
`Reply`, before it answers.  The model over the network and the keywords behind
it are one step that always has an answer.  A reply is known by the number of
the text it answers.  The words and the attachments' bytes are left out, and so
is the cut of a thread at 500 messages.

### Tickets

A ticket's row and, per event, how many audit rows it has: their order is left
out, since nothing in the code fixes it.  A request is one conditional UPDATE or the INSERT (`Write`
with `Matches` and `Updated`), the SELECT of the answer (`Get`) and the audit
row (`Log`).  `Told` is the status that the events add up to.

### BookingChat

`Check` is `require_participant`, `Send`, `Show` the statement that follows it:
the two are separate actions, and between them the lifecycle moves.  A message's
id is its position.  `Found` is the WHERE clause of the two queries.  What was
sent to whom is the history `shown`.  A text or a file that is refused, and a
lost request, are the same `Drop`.

## 4. Runs

| Run | Instance | What it shows |
|---|---|---|
| `Bookings_race` | 1 booking, 3 users who may all work (one is the customer), 2 tasks, a lost task, a legal and an illegal rating | type, row consistency, stale reads, feeds, refinement, real conflicts, paid jobs, the customer's code before work starts; the audit rows are true, single, legal, and each lost task loses at most one |
| `BookingCreation_coupons` | 1 customer, 2 coupons, 2 prices, 2 tasks, 2 bookings, a lost task, fair | redemptions and deals; no request waits for ever on a redemption |
| `BookingCreation_cap` | 1 customer, 3 tasks, 5 bookings, caps 1 and 2, pause | how far the unlocked checks overshoot |
| `WorkerVerification_roles` | 2 users, 2 tasks, 2 applications, a lost task, a restart that may promote a user | roles, applications and audit rows agree; interleaved logins leave no staff with the customer role; nobody is admin and worker before such a restart |
| `LoginOtp_codes` | 1 phone, 2 tasks, 4 requests, an unlock, 2 lost tasks, low thresholds, fair | used codes stay gone; counters lose their expiry only with a task; a lock holds against newcomers; nobody is shut out for good |
| `Sessions_block` | a login, a client and others at a time, 2 calls of the others in all, 2 sessions, a lost call, fair | what survives a block slipped in before it, and while the user stays blocked its access tokens run out for good |
| `MobileAuth_tokens` | 1 device, 2 flows, 2 sessions, a lost call, a restart, fair | a device at rest is behind the server only after it was killed; a login on dead tokens is dropped |
| `SupportChat_bot` | 2 messages at a time, 2 concurrent edits of 3 kinds, a lost request, fair | partial edits keep the rest, what an edit changed is audited; texts are answered; staff silence the bot |
| `Tickets_trail` | 2 tickets, 2 customers, 3 tasks, 7 requests, a lost task | a ticket is where its trail says |
| `BookingChat_private` | 2 bookings, a customer, a worker who is the other's customer, a reader of the staff, 2 messages | chats stay private while bookings change hands |

Two further runs end in a counterexample, each a disagreement between the code
and what the repository says of it:

| Run | What TLC finds |
|---|---|
| `BookingCreation_cheap` | the coupon preview panics on a service below one rupee, which the catalogue accepts |
| `SupportChat_inbox` | a conversation that ends with an attachment makes the admin's inbox fail: `last_body` is NULL there and the row type wants a text |

**Disagreements without a run of their own.**  The properties above are stated so
that they hold, which leaves the following true of the code; each can be seen by
asking TLC for the stronger property.

- `infra/db/audit.rs:49`, "Every state-changing endpoint records one": a task
  lost after its UPDATE leaves none (`api/bookings.rs:171`).
  `OneRowLostPerFailure` bounds the loss.
- `docs/PRODUCT.md:263`, the booking timeline "reconstructed from
  `audit_logs`": rows of two racing operations may be stored in the other order.
- `api/bookings.rs:34`, a "per-customer active cap": concurrent requests exceed
  it.  `OvershootBounded` says by how much.
- `README.md:38`, "Admins cannot be workers": a worker whose phone joins
  `ADMIN_PHONES` is both after the next login.  `SeparationNeedsRestart` says
  that this is the only way.
- `infra/otp.rs:47`: with the thresholds of the code, two concurrent failures
  may leave the shorter of their two locks.

### Bounds

Every bound is a constant: the sets, `MaxFailures`, `MaxBookings`, `MaxApps`,
`MaxRestarts`, `MaxRequests`, `MaxUnlocks`, `MaxOthers`, `MaxKills`,
`MaxEdits`, `MaxMessages`, `MaxChanges`, and in `Sessions` the requests each
call is used for (`MayAsk`) and the tokens a session can have (`Mint`).  A
booking is touched by one conditional `UPDATE` at a time, so two tasks already
show each race between a read and a write and each pair of writes; the cap run
has three tasks because the overshoot grows with their number.  A row is
independent of other rows, so one booking suffices; the row without an arrival
code is covered by the proof of `StartNeedsHandshake`, for every assignment of
codes.  One failure is enough to lose an audit row, to abort a transaction
others wait for, and to tell "one row per failure" from "none".

- `LoginOtp_codes`: the limits are 2 and the lock levels start at 1, 2 and 3
  failures, so that four requests reach every refusal and every level.
- `Sessions_block`: each call asks for its own kinds of request, since calls
  that ask for the same are interchangeable; a session that slips in needs one
  login and one block, surviving sessions of a second block another call.
  Two tokens a session are enough to present the old one after a rotation.
- `MobileAuth_tokens`: two sessions are two logins, the second after a logout;
  the flows of one device share tokens, two devices share none (proved as
  `DevicesApart`), so one is enough.  A session's tokens can be in five places at once, hence five.
- `SupportChat_bot`: two edits are the least that can overlap; their three
  kinds touch each part of the banner, are refused half way, and switch the
  staff on and off.
- `Tickets_trail`: seven requests raise, resolve, reopen, resolve and close a
  ticket with two to spare for a second ticket or a refused request.
- `BookingChat_private`: a message of each booking, one that its own worker
  writes in the role of a customer; the permission is stale with one request
  already, because it is the booking that moves.

In the last five and in `LoginOtp_codes` the bounded requests get used up and
the system stops, so deadlock is not checked there; it is in the others.  The
proofs remove the bounds for the properties they cover.

### Fairness

`FairSpec` of `BookingCreation` asks weak fairness of `Serve(t)` for each task,
nothing of clients, admins or failures.  tokio polls every task whose database
answer has arrived and PostgreSQL answers every statement, so a task with an
enabled statement does not stay where it is for ever.  A task waiting for
another transaction's key is not enabled and owes its progress to that
transaction's task; the run checks that this chain never closes into a circle.

`FairSpec` of `LoginOtp` asks the same of its tasks, and weak fairness of the
expiry of the lock and of each counter *that has an expiry*: Redis removes a
key when its time is over.  A counter that lost its expiry is never promised to
go, so `NeverShutOut` speaks of executions without lost tasks; with one, otp:rl
may stay at its limit until an admin unlocks the phone.

`FairServerSpec` of `Sessions` asks that calls run on and that an access token
expires, as its `exp` claim makes it.  Nothing is asked of clients, admins or
the expiry of sessions.

`FairSpec` of `MobileAuth` asks the same of the server and that the flows of
Dart code go on (the event loop resumes every completed `await`; a killed app
starts from idle flows).  It also asks that an app that is logged in with an
expired access token tries to refresh it: every request of a screen that is
answered 401 does so, and a user who never uses the app again is of no
interest.  That premise carries `DeadTokensAreDropped` and is one about users.

`FairSpec` of `SupportChat` asks that messages the server has accepted are
served; the call to the model has a timeout in the code, and the keywords
answer after it.

## 5. Proofs

All theorems are about every value of the constants and are proved under
the named `ASSUME`s of the modules (the customers and codes are functions on
the bookings, `NoWorker` is no user, prices are positive, rules are percent or
flat, and so on), which TLC evaluates in every run.

**BookingsProofs.**  The types, `RowsAgree` and `ReadBeforeWrite` are proved
together.  `ReadBeforeWrite` is not inductive alone: between a read and its
write another task may change the row, and the write is still allowed to act
only because the worker of an accepted row never changes (`RowsAgree`: a worker
is assigned iff the job was accepted, and `accept` needs a row without one).
`NoOrphanJob` follows from `RowsAgree`; `StartNeedsHandshake` from
`ReadBeforeWrite` and the equality of the status seen and the status updated;
`PaidJobsStay` from the same.  `RowsOnlyGrow` sums up what the four UPDATEs can
do to a row over time (`ChangedColumns`): no status is revisited, the first
worker to accept stays, timestamps and ratings are final.  `Refinement`: `Read`, `Reread`, `Log`, `Begin`
and `Fail` are stutters of `BookingLifecycle`, each successful write is the
lifecycle's step of the same name.

The audit rows come next.  `AuditIsTrue` needs `Happened` to be stable:
statuses only move forwards, so what an audit row or a task about to write one
tells of stays true.  `LoggedOnce` couples the rows written with the tasks that
carry one: an operation happens at most once per booking, so at most one task
can carry it, and none once it is logged.  `LoggedStatusFollows` needs the
status carried by a task between `reread` and `log`.  `OneRowLostPerFailure` is
inductive next to these: a step makes no operation happen but the one its
task wrote and now carries (`NothingElseHappens`), and a task gives up what it
carries only by `Log`, which leaves the row, or by `Fail`, which is counted.
`ConflictIsReal` needs that the booking a task is about to write has only moved
on since it was read (`MovedOn`, since statuses only move forwards); the worker
of an accepted booking does not change, so an UPDATE that finds no row was
refused by the status, which is therefore another one.

**BookingCreationProofs.**  `OneUsePerUser` is strengthened by `Winners`: of the
tasks past `Redeem` with the same coupon and user there is one, and the key is
still free; that is the exclusion the primary key gives.  `DealAddsUp` is
strengthened by the same statement about the deal each task carries
(`TaskDeal`), since the price may change as soon as it was read.
`OvershootBounded` is not inductive, for it says nothing of the requests that
will still commit.  `Overshoot` counts them with the active bookings: a request
passes the count only while there are fewer active bookings than the cap, so
with itself and at most all other tasks past the count the sum is within
the bound, and a commit moves a request from one term to the other.  That there
is a largest cap is shown by well-foundedness.  `PauseLeaksOnlyInFlight` has
such a sum in its statement already.  The types need that no amount is negative
(`Amounts`: the clamp and the truncating division keep a discount between zero
and the price), that a task logs a booking on file, and that the room a request
was admitted for is still there when it commits (`RoomInv`).

**WorkerVerificationProofs.**  `VerifyInvariant` couples the tasks inside a
decision with the row they hold: the application is still pending and no two
tasks hold the same one.  `WorkersAreApproved`, `OneLiveApplication` and
`DecisionsAreFinal` follow.  `AuditMatches` needs in addition that a task past
its commit holds the verdict on file (`AuditInv`), which stays because decisions
are final.  `StaffAreNotCustomers` needs that an admin phone's login has granted
admin before it revokes customer (`LoginInv`).  `SeparationNeedsRestart` needs
the chain from the roles to the application and back (`SeparationInv`): before
a restart the admins are the staff that have logged in, nobody gets past
`ReadRoles` without having logged in, so no application and no worker role is
of the staff.  The types need, again, the room left for the applications under
way, and that audit rows and decisions name an application on file (`FiledInv`).

**LoginOtpProofs.**  `LoginInv` couples each step of a task with the request it
serves (a task about to consume a code has read one) and says that no code is
newer than the latest issued; hence `UsedCodesStayGone`.  `LeaksCostFailures`
counts: a step of a handler never adds a counter without expiry and without a
task about to give it one, since the task that brings a counter to 1 is that
task, and a loss adds one at most.  `LockStopsNewcomers` follows from
the lock check being the only way in.

**MobileAuthProofs.**  First the server alone, for any set of calls.
`BlockedSessionsSlippedIn` rests on `OnlyPastOpen`: once the user is marked, a
call about to open a session is one of those that were past the check, because
`Find` lets nobody follow and `Create` needs an absent user.  So the sessions
alive after the sweep are those that were opened by such calls.  `KnownSession`
(a call past its lookup knows its session) carries the types.

Then the devices.  `StepBehindCostsKill` counts devices at rest; `Behind` also
counts those whose front flow is busy, because what decides is the refreshing
flow: a token is replaced on the server by a refresh that sent it, and until
that flow has stored the new one or wiped the device, it is not idle.  Why no
other step leaves a device behind is `MobileInv`: a token handed out and not
stored yet is on file at the server (`OnTheirWay`), and nobody else can have it
replaced, since two devices never hold the same token (`DevicesApart`) and a
login's tokens are not the ones the same device refreshes with (`LoginApart`).
Both are kept because a new token is one that nobody holds (`Gains`).  That
`SetState` compares nothing, and may store a login after a logout was faster,
does no harm for the same reason: what it stores is current.  Only `Restart`
ends a refresh without its last write; it adds the one device and is counted.
The run has one device; what several might do to each other is settled by
`DevicesApart`.

**SupportChatProofs.**  The settings alone, then under the chat.
`BannerEditsStand` is inductive as it stands, since `raced` is set by the step
that would break it.  `UnloggedEditsWereCutShort` counts the edits that stored
something and will never be logged (`Unaudited`): only the step that refuses or
loses an edit takes it from those under way without logging it, one edit a
step, and both are counted.  The chat leaves the settings alone but for the
number of losses, which it may only raise (`TaskLeavesSettings`).
`TakeoverSilencesBot` follows from `CheckFlag` being the only way to speak, for
any number of messages and edits.

**TicketsProofs.**  The trail is not a function of the row at any moment: the
audit row follows in a later statement.  What is conserved is the sum of audit
rows and tasks still to write one (`Count`): an effective UPDATE adds a task,
`Log` turns a task into a row.  Each event's guard then says which counts it
finds, and `NothingYet` that an event needs a ticket that was raised.

**BookingChatProofs.**  A request acts on a permission that may be old
(`Allowed`).  It is still good because nobody ever stops being a side of a
booking (`SidesStay`): the customer never changes and a worker comes only where
there was none, which is a fact about `BookingLifecycle`, and so, by
`Refinement`, about the handlers of `Bookings` (`RowsOnlyGrow` says it of their
rows directly).

**Only model-checked:** the liveness properties `EveryRequestAnswered`,
`NeverShutOut`, `BlockedDieOut`, `DeadTokensAreDropped` and `EveryTextAnswered`
(fairness and ENABLED are out of the prover's reach).  Every invariant and every
action property of a passing run is proved.

## 6. Not modelled

- **Mobile server address and remote configuration**: preferences of one
  device, written by one screen; whose address wins is decided by pure code in
  one place, and no property of the modelled system depends on it.
- **Profiles and avatars, names and pictures of the catalogue**: single-row
  updates without a guard or a second reader; checking images and texts is
  pure.
- **Lists, pagination, formatting of answers, screens, router, health, error
  envelope**: no state a property is about, except the inbox, which fails.
- **Audit rows of logins, sessions and uploads**: one INSERT after the last
  write, lost like the others; no property is about them.
- **The other settings** go the way of the three in `AppSettings`; the
  assembled answer of `load` is a sequence of independent reads.
- **Signatures and hashes**: a token is known by its session, a code by the
  order it was issued in.
- **Migrations, deployment, CI and scripts** are not part of the running
  program.
