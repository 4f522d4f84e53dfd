# Room management backend: a verification project

TLA+ models of the backend of a hotel's room management (`src/`, TypeScript with
Fastify and Supabase edge functions over PostgreSQL), the TLC runs that check them
on small instances, and TLAPS proofs of what matters most.  Paths below are
relative to `src/`; migrations (`supabase/migrations/`) are named by the number
they begin with.

Nearly all of the core logic is PL/pgSQL: 154 migrations, of which later ones
replace functions of earlier ones.  The TypeScript services validate, call one
function (RPC) of the database and map errors; the exceptions are the *sagas*,
which do something outside the database between two RPCs: the notification
worker, password changes, photo uploads and the PIN sheet worker.  That split
decides how the system is modelled:

* a command that is one RPC is **one action**, its exceptions are guards;
* a saga is **one action per RPC or external call**, each request or run carries
  where it is, may stop anywhere, and external effects may be lost or late.

## 1. Inventory

| Component | State | Operations | What is hard | What makes it correct |
|---|---|---|---|---|
| Cleaning work | `cleaning_targets`, `cleaning_assignments`, `assignment_change_requests`, `cleaning_attempts`, `cleaning_submissions`, `inspection_decisions`, `earnings`, `checkout_cleaning_obligations`, `profiles.status` | some thirty commands, from draft to inspection | long sequences of legal commands of maids, admins and the scheduler; recleans and their replacements | one attempt that counts, one running per maid and room, always authorised, rework unpaid and with its maid, pay once per cleaning, the checkout obligation follows the guest |
| Notification delivery | `notification_delivery_jobs`, `_targets`, `_attempts`, `_permits`, `web_push_subscriptions` | claim, envelope, permit, send, settle, defer, resume; register, rotate, retire | overlapping worker runs, lost leases, late provider answers, changes between the read and the send | fencing, every end on record, jobs that end |
| Password change and reset | `password_change_commands`, `password_reset_auth_markers`, `auth_password_versions`, the identity service | change, reset, their recovery and replay | lost and late updates of the identity service | true answers, one update per key, forced change after a reset |
| Limited capability and offline leases | grants, leases, offline events, quarantine | grant, start, sync, revoke, resolve | events that arrive after expiry, revocation or handover | replay by id and hash, quarantine and not loss |
| Photo upload and purge | storage operations, photos, the provider | admit, claim, reserve, upload, record, finalise, purge | provider success without record; purge against finalisation | a finalised photo exists, nothing leaks for ever |
| Room PIN and its sheet | PIN revisions, sync queue, worker lease | prepare, confirm, claim, write, settle, block, resync | a write of unknown outcome; two writers of a row | the sheet never goes back to an older revision unnoticed |
| Operation admission | gates, admissions, maintenance windows | close, admit, complete, expire, reopen | a window that closes while work is admitted | nothing is admitted under a closed version |
| Reservations and stays | reservations, stay segments, checkout and segment work, preparation proofs | create, change, cancel, move before and during the stay, check out, correct the occupancy, scheduler tick | late scheduler runs, stays cut or reopened after moves, approvals that outlive the state they were given for | a stay without gaps, every room left owed one cleaning, guests never meet, nobody enters an uncleaned room |
| Payroll | cycles and their items, the book of adjustments, residual carries, payment attempts | claim and start, check, pay, reopen, settle; correct, reverse, carry a late earning | sources arriving while their cycle is locked or paid; weeks processed out of order | every amount in one cycle, none lost; a transfer pays what was locked; a week that is over stays |
| Complaints, checkout incidents, room-ready corrections, post-approval issues | one ledger each | open, review, answer, resolve | order against payroll and reservations | what they correct is corrected once |
| Login limits, command receipts | counters per window; key and hash per command | consume; replay | limits at the boundary | a replay changes nothing |
| Availability, templates, rooms, accounts | single versioned rows | edits | little | version checks |
| Read models, previews, inbox, adapters, console, scripts, ops | none of their own | reads, tooling | none | |

The components share the database.  Interactions that matter here: an approval
writes the earning payroll collects and completes the obligation a checkout
left; every command of the cleaning side takes the advisory lock
`room-management:reservation-command`, so these commands are serialised;
commands insert notifications in their own transaction, and those are the jobs
the delivery worker claims; the end of a session or a change of account status
reaches the worker only when it asks for an envelope or a permit; a trigger on
the identity service's user table ties its passwords to the receipts.

`PROJECT.json` lists all 26 components with their files, and every hazard at
its line, with the properties that watch it or the module that will.

## 2. Modules

| Module | What it is |
|---|---|
| `CleaningWork` | the life of a cleaning target and everything that hangs on it |
| `MCCleaningWork` | its instances: two maids, one or two cleanings, one or two rooms |
| `CleaningWorkProofs` | what a command may do, safety of running work, coherence of every target, lineages, earnings and checkouts, the offline leases: nineteen theorems |
| `OfflineWork` | `CleaningWork` composed with the offline leases, their triggers, events and corrections |
| `MCOfflineWork` | its instance: two maids, two rooms |
| `NotificationDelivery` | the worker, the leases and the push endpoints |
| `MCNotificationDelivery` | its instances |
| `NotificationDeliveryProofs` | the inductive invariant and ten theorems |
| `PasswordChange` | the two password sagas against the identity service |
| `MCPasswordChange` | its instances |
| `PasswordChangeProofs` | one update per key and what holds until a stray lands: five theorems |
| `PhotoSlot` | what an upload slot promises, abstractly |
| `PhotoUpload` | the upload saga, its compensation, reconciliation and the orphan purge; implements `PhotoSlot` |
| `MCPhotoUpload` | its instance |
| `PhotoUploadProofs` | the inductive invariant, three invariants and the refinement of `PhotoSlot`: six theorems |
| `PinSheetSync` | PIN changes, the worker that copies them to a sheet, full resync, admissions |
| `MCPinSheetSync` | its instance |
| `PinSheetSyncProofs` | the inductive invariants of the queue and the drain: six theorems |
| `PinSheetOwedProofs` | the invariant of the sheet: three theorems |
| `ReservationStay` | reservations, their stays and rooms, the scheduler, and the cleaning they owe |
| `MCReservationStay` | its instance: two reservations, two rooms |
| `ReservationStayProofs` | lines of segments, the inductive invariant and who precedes whom in a room: six theorems |
| `PayrollPayment` | the weekly pay of a maid: earnings, the book of corrections, cycles, residuals, transfers |
| `MCPayrollPayment` | its instances: two earnings, three weeks |
| `PayrollPaymentProofs` | sums over finite sets, the inductive invariant, conservation of money: six theorems |

Comments that begin with `Slip:` mark operators that no action uses.  Each is the
operator after it with a plausible mistake in it, kept to show that the
properties notice the mistake (`mutants` in `PROJECT.json`).

### CleaningWork

Rows are numbered in the order they are created (`1..MaxTarget`,
`1..MaxAttempt`); `status` and `phase` are `cleaning_targets.status` and
`cleaning_attempts.status`, with `absent` for rows not yet there.  `contract` has
what is fixed at creation (source, lineage, parent attempt, fee), `assignment` the
current assignment row, `request` the latest request to be released from it.

* Assignment: `SaveDraft`, `CommitNotify`, `PrestartChange`, `PrestartUnassign`,
  `RequestCancellation`, `ApproveCancellation`, `RejectCancellation`,
  `MidnightRollover`, `CancelManualRequest`, `RescheduleCheckout`,
  `CheckOutOnTime`, `CheckOutEarly`.
* Attempt: `Activate`, `Start`, `CompleteFieldWork`, `AllowFinish`,
  `LimitedComplete`, `AllowUpload`, `InterruptHandover`, `CancelUnavailable`,
  `ForceRecall`.
* Inspection: `CreateSubmission`, `Approve`, `Reject`; accounts:
  `ChangeAccountStatus`.

Abstractions.  Clocks, cleaning windows, availability and the expiry of grants
are nondeterminism: the action may be taken or not.  Rooms order their targets by
creation, which is the order `(available_from, created_at, id)` of the activation
guard for targets whose times do not cross.  A commit of a batch is a sequence of
single commits.  Photos and checklists inside a submission are left out: a
submission may be made once the attempt allows it; uploads of a limited maid are
those for her own finished attempt.  `upload_pending` is not written by the code
and not modelled.  The compare-and-set on `execution_version` concerns clients that
act on an old view; an old view is refused or, offline, quarantined.  A trigger also forbids rewriting
answered requests, and the unique indexes `cleaning_attempts_one_active_per_target`
and `cleaning_attempts_one_in_progress_per_maid` would turn a violation of two of the
invariants into an error; the model has neither, so it shows that the commands
keep the invariants without them.  Per room there is no such index: it was
dropped in 20260826114731.

Not in it: checkout incidents, reopened stays, room moves and cancelled reservations
(their side of the work is in `ReservationStay`), room-ready corrections, complaint recleans, preparation obligations.

### OfflineWork

Extends `CleaningWork`: `WorkStep` is any of its commands together with what the triggers
on attempts and profiles do to the leases (`Revocations`); `StartWithLease` is a start that also
issues one.  `SyncEvent` is the one event a lease has room for: applied if nothing has
changed, else quarantined.  `Dismiss` and `Correct` are the three decisions of an admin,
`Expire` and `Purge` the two hours and the ninety days.  The composition says nothing about a
cleaning that `CleaningWork` does not say: it is shown to implement it.

Abstractions.  The time and offset of an event are two choices: whether they fit the
lease (`verifiable`), which a correction asks again, and whether everything else fits (`plausible`).  A
lease copies revision and version of its attempt, and an attempt never changes them while it runs.
Replays by id and hash and second events under a lease are stutters.  The account version is
bumped by the trigger that changes the status, so it is the revocation.

Not in it: the discovery of limited sessions, the revocations by checkout incidents and room-ready
corrections, which `CleaningWork` has not either.

### NotificationDelivery

Each RPC is one transaction and one action: `Claim` (opening jobs, snapshotting
their targets and leasing due ones), `Envelope`, `Permit`, `Settle`, `Defer`, `Resume`,
and `Send` is the call of the push provider.  A lease digest is drawn afresh by
every claim, so it is the number of the lease.  `run` has each run's place and the
batch it still holds.  `LeaseLapses` has no guard: the code keeps a run (45 s) shorter
than a lease (2 min, `notification-delivery.ts:9-13`), the model does not rely on it.
`RunDies` stands for a crash, a failed or timed-out RPC and a refused fence.
Which due targets a claim takes is arbitrary, which covers back-off,
`skip locked` and the batch limit.  `stale` and `resolved` notifications are one flag,
`wanted`; missing configuration and payloads that are too large are
nondeterministic dead letters.  `Register`, `Rotate`, `Unsubscribe` and
`SubscriptionAges` are the device side.

Not in it: heartbeat, event log, history purge, the admission wrapper, the
grouping of notifications.

### PasswordChange

`request[q]` is a run of `changePassword` (`auth.service.ts:182-364`), `reset[x]` one of
`resetPassword` (`account.service.ts:496-596`).  `at` says what comes next, `purpose` why
`verifyPasswordEffect` was called, since what follows a mismatch depends on it.
`Update` is `updateUserById`: done and answered, done and not answered, not done, or
still on its way (`late`, landed by `LandLate`).  `Bound` is the trigger
`rotate_auth_password_version`: the marker of a prepared reset, else that of a pending
change, else, or if it is the version already, a random one.  `author` and `landed`
are history and guard nothing; `strays` counts what `MaxStray` bounds.

Abstractions.  A key stands for its effect marker, drawn once per receipt; a request
for its claim digest.  A request that the code turns away without a change of state
is no step, or `RequestDies`.  A claim's lease (60 s) may lapse at any moment.  The
verification's own sign-in and sign-out are not sessions of the owner.

Not in it: login with its lock, the verification rate limit, account status.

### PhotoSlot and PhotoUpload

`PhotoSlot` has a phase, at most one file of the provider and the accepted photo; it opens, stores,
accepts, withdraws, erases and discards.  `PhotoUpload` is `photo-service.ts:387-702` and
`:943-994` with the functions they call: `Start`, `Admit`, `Begin`, `Claim`, `Context`, `Reserve`,
`Upload`, `Verify`, `Record`, `Finalize`, `Release`, `Receipt` of a request, `Reconcile`,
`Examine`, `Inspect`, `Adopt`, `Remove`, `Settle` of a compensation, and `ClaimPurge`, `PurgeContext`,
`PurgeRemove`, `PurgeSettle` of the orphan purge.  Replies of each may be lost, leases
and admissions lapse at any time, sessions are revoked, and a create the provider did not
answer may land later (`CreateLands`).  `PhaseOf` maps the ledger to the abstract phase.

The deployment holds the purge at its handler (`photo-purge.ts:177` answers 503); the algorithm
is modelled, since it is the only way out for a doubtful file.  Its 30 days are
over-approximated: it may come at any time after its job exists.

Not in it: collections, folders, retention of accepted photos, quotas, reading of content.

### PinSheetSync

`pin` and `change` are the room's PIN revisions, `row` the outbox, `lease` the one worker lease with
its fence, `resync` the runs of a full resync, `board` what the sheet shows, and `worker` where
a run of the worker is (`room-pin-sheet-sync.ts:345-875`).  A write is authorised (which marks
the row) and then done; if no answer comes it may land later (`stray`, `Land`).  A
claim that finds a mark under a lapsed lease blocks the queue, and an operator's
`RequestResync` is the way out.  With admissions `required` a claim needs an open one,
`TurnMaintenance` requests and resumes, and `Complete` closes an admission whose outcomes are known.

`LeaseLapses` has one guard: a run stops itself after 45 s and its lease lasts two minutes
(`room-pin-sheet-sync.ts`), so at the lapse a run has at most its last request in flight.  The
requests that would be refused then are taken to be gone; settle, write, paint,
block, heartbeat and completion may arrive late.  `excused` and `waived` are ghosts of two
cases in which the code gives a promise up (section 5); nothing is guarded by them.

Not in it: a second environment, the limit of one cleanup, reveal and transfer of PINs, edits of the
sheet by hand, decryption, missing control rows, reauthentication receipts, lease renewal.

### ReservationStay

`book[r]` is a reservation with what hangs on it: `stay` its live segments in order, `final` the
checkout work, `legs` the work of the rooms it leaves on the way, `proof` the preparation
obligation.  `retired` has the segments that were live once, which a correction may take up again.  `request` has a
room's open manual request; `cleaned` and `corrected` are history.  `Commit` is the constraints on segments: between
stays (`Fits`) and within one (`Lawful`).  Actions: `CreateReservation`, `ChangeReservation` (also the end of a guest in
house, and the reopening of a stay the tick closed), `ChangeOpenEnded`, `CancelReservation`,
`MoveBeforeCheckin`, `MoveDuringStay`, `ManualCheckout`, `CorrectOccupancy`, `ProcessDue`, `RequestCleaning`, and the three
approvals.  `CorrectOccupancy` is the administrator's `correct_room_occupancy` (20260920150000:175): `Vacate` cuts or retires the
segment of an active stay in a room, `Occupy` takes up one it had there; both write segments only, and leave
the reservation, its work and its proofs as they are.  `DropStaleProofs` is `invalidate_stale_preparation_proofs` where the commands call it;
`DuesRefresh` is what is left of `refresh_checkout_due_at`: where it fails.

Abstractions.  Instants are even, the clock is odd, so that no command runs in the microsecond of a
scheduled instant.  All commands hold the advisory lock of section 1, so each is one step; the commit of a room
move repeats the checks of its preview, which is therefore left out.  Reasons that bar a
room and belong to other components (PIN, candles, issues, operation blocks, incidents) are nondeterminism:
the tick chooses the barred rooms.  A due time lies 30 minutes before the next arrival in the room, with nothing in
between.  Work on the way to its approval, and the refusals of commands whose work was already
notified or started, are `CleaningWork`; here the work is approved at once or later, and a closed stay can be
reopened until then.  A correction may leave gaps in a stay, and what other commands then do to it is modelled as the code does it; the
properties of segments and work speak of stays nobody corrected (`Uncorrected`).  Which of several retired segments
is the newest version is left open.  Of a cancelled reservation no retired segments are recorded: nothing reads them.

Not in it: the override of a room's displayed status (`override_room_display_status`, same migration), checkout incidents,
guest names, schedule revisions, receipts, occupancy events, notifications.

### PayrollPayment

One maid; her books share nothing with those of others.  `earned[e]` is an earning with its week and whether a
cycle has an item for it, `book` the adjustments in the order of the book's version, `cycle[w]` the cycle of a
week with its locked amount and its payment attempts, `carry[w]` the residual brought into it.  A week without
a row and one whose row is `open` are refused or accepted alike by every command, so they are one status; `settled`
is an open row with `offset_settled_at`.

* Amounts arrive: `EarningArrives` (an approval of `CleaningWork`, for any week so far), `WeekEnds`.
* The book: `RecordCorrection`, `ReverseSource`, `CarryLateEarning`, each with the week it becomes available in.
* Cycles: `StartPayment` claims what the week has and locks it, `CarryForward` settles a week whose net is not
  positive and leaves the rest to the next one.
* Transfers: `RecordCheck`, `RecordPaid`, `ReopenAttempt`, for the newest attempt of a week.

Abstractions.  Every command takes the advisory lock of section 1 and is one step.  Outdated versions, repeated
keys and used transfer references are refusals without a change.  Amounts are integers without a width: the columns
are 32 bits of won.  An earning of zero is written and never claimed, as in the code.  When the week of an approval and the
next one are both frozen the approval itself is refused (20260910071812:693), and stays so: a test
(`payroll_adjustments.sql:241`) wants it.

Not in it: several maids, remittance markers and summaries, the hash of the transfer reference, notifications, projections.

## 3. Runs

| Run | Instance | Checks |
|---|---|---|
| `cleaning_lineage` | a checkout cleaning, 2 maids, 4 targets, 4 attempts, 2 submissions; 271 thousand states | `TypeOK`, rework stays with its maid, one carrier and one earning per lineage, the checkout follows the guest |
| `cleaning_room` | a checkout and a manual cleaning of one room, 3 attempts, release requests; 179 thousand states | one attempt that counts, one running per room, always authorised, targets and their pending requests tell one story |
| `cleaning_maid` | `OfflineWork`: two rooms, 2 maids, 2 attempts, 2 assignments of a target; 139 thousand states | one running attempt per maid, unrevoked leases are backed, the composition implements `CleaningWork` |
| `replacement_fee` | as lineage, one submission | **violation**, section 5 |
| `notification_fencing` | one device, everything around it changing, 2 runs, 2 leases; 124 thousand states, fair | `TypeOK`, the job follows its target, only the last lease concludes, delivered means accepted, late answers harm no newer endpoint, why a target ended is on record and none is given up early, every job ends or waits for its operator |
| `password_effect` | 1 key, 2 requests, a reset, 2 sessions, 2 passwords; 888 thousand states | `TypeOK`, one update per key, completed resets are real, answers are true |
| `password_stray` | 1 key, a reset, 2 sessions, one stray update | **violation**, section 5 |
| `photo_slot` | 2 uploads into a slot, 2 requests, 2 leases, a midnight or a revoked session; 836 thousand states | `TypeOK`, ledgers of operation, job and object converge, the slot's promise (refinement) |
| `pin_sheet` | 1 room, 2 PIN versions, 2 workers, 2 leases, 2 full resyncs, 2 failures; 381 thousand states | `TypeOK`, a PIN the sheet lacks is owed, uncertain writes stop the queue, a drain is real, recorded success is visible |
| `reservation_stay` | 2 reservations that may be without an end, 2 rooms, 4 instants, plans `<<4, 6>>`, `<<4, 8>>`, `<<6, Open>>` for the first and `<<8, Open>>` for the second, 2 corrections at instant 6; 846 thousand states | `TypeOK`; of stays nobody corrected: they are whole, every room left is owed one cleaning, arrivals find a cleaned room unless a guest was moved into it; and one guest per room |
| `payroll_week` | 2 earnings, 3 weeks and the one after, 3 entries of the book, 2 transfers of a week; 335 thousand states | money is conserved, every amount has its place, the lock is what the newest transfer is for, a week that is over stays |
| `payroll_carry` | the same, 1 entry, 1 transfer | **violation**, section 5 |

Why the bounds are enough.  Four targets let a reclean be rejected and its reclean be
replaced, the shortest chain in which parent and origin of a target differ.  Three attempts in one room are a
race of two targets and a handover in one; two attempts in two rooms, one maid for both or a handover between two.  `MaxVersion` counts
assignments of a target; two are an assignment and the one that replaces it, three a draft, a notice and a handover.  Two leases are the smallest number at which a lease is
lost and the limit is reached (the code has eight); two runs make one that is late and
one that is current.  A key, two requests and a reset make a claim that is taken over
and a command that replaces another; three passwords (two of the owner's and the temporary
one) let an answer be wrong, and two sessions a request without its own.  That no second key is prepared meanwhile is one guard, and the
theorems hold for any number of keys.  The last bound to name is `MaxStray`: updates that land
after their command was closed.  `password_effect` has none of them, and there
the properties hold; with one of them `password_stray` shows what happens.  Updates
that land late but while their command is open are in both.  Two uploads and two requests make a retry that
meets the file of the request before it; `MaxDay` counts midnights and revoked sessions together, of which a run sees one.  Two fences are a lease and its takeover, or a block and
its recovery; two versions are an old and a new PIN; one room suffices since the rows of
different rooms share the lease and the resync only, and both are exercised by the rows of one.
One device is enough for leases, permits and endpoints; what two devices of one job share, its status, is
proved for any number (section 4: `JobsAreSummaries`, `BlockedJobsWait`, `EndIsFinal`).
Two reservations and two rooms make a move into the room the other one waits for, or while its guest is late; the second
guest follows the first at the same instant and names no end until one is given.  The run reaches a move that is withdrawn because the stay is
shortened or checked out, a stay the tick closed that is reopened before it was moved, an unmoved stay extended, arrivals after a guest
nobody corrected, two guests in house, and corrections that cut a segment, remove a whole one, take one up again, happen before arrival, or
make the tick fail.  `EarlyAndFewChanges` bounds it: both are booked early, the first one first; before arrival the first
is rebooked, moved or corrected once, the second never; one of the stays is corrected.  It does not reach, and only the proofs
cover, a stay nobody corrected that has a move and is extended or reopened, which wants a longer `Horizon`, and a segment without
length: a no-show that was moved away is closed, another guest comes and is checked out in the same instant
(20260916210000:57).  That one had nothing of the room, so `Before` does not count such a segment.  Nothing is booked in the past,
and one cleaning request is open at a time, for the instant just passed.  Three weeks and the one after make a week that waits while its
neighbours on both sides are paid; three entries are a correction, its reversal and a late carry; two transfers a
reopened one and its successor.  A run takes less than a minute on two cores.

Symmetry is used for maids, worker runs (of uploads and the sheet), rooms of
the sheet and of reservations, keys, requests, passwords, sessions and earnings, none of which the specifications tell apart, and never with liveness.

Deadlock is not checked for `CleaningWork`, `OfflineWork`, `PasswordChange`, `PinSheetSync`,
`ReservationStay` and `PayrollPayment`: with bounded rows, versions, keys, fences, instants, weeks and sign-ins, a state in which all is done and
answered has no step.

Fairness.  Those six and `PhotoUpload` state none: nobody has to clean a room, retry a
request, repair a block, free a room for its next guest or pay a week.  `NotificationDelivery` has weak fairness of claims
(cron starts a run every minute), of each run's steps, and of the lapse of a lease (time
passes).  It has none of `Resume`, which is up to an operator, nor of the devices.

## 4. Proofs

`CleaningWorkProofs` proves for every number of maids, targets, attempts, rooms and
versions, from the assumptions on the constants in `CleaningWork` only:

| Theorem | Statement |
|---|---|
| `InductiveInvariant` | `Spec => []IInv` |
| `TypeCorrect` | `Spec => []TypeOK` |
| `OneAttemptAtATime` | `Spec => []OneBlockingAttemptPerTarget` |
| `OneCleaningPerMaid` | `Spec => []OneRunningPerMaid` |
| `OneCleaningPerRoom` | `Spec => []OneRunningPerRoom` |
| `WorkIsAuthorised` | `Spec => []RunningIsAuthorised` |
| `ReworkStays` | `Spec => []RecleanStaysWithItsMaid` |
| `EndedIsFinal` | `Spec => EndedAttemptsStay` |
| `AnswersAreFinal` | `Spec => AnsweredRequestsStay` |

The argument.  None of the safety invariants is inductive by itself.  `IInv` adds that
attempts refer to targets that exist, that a reclean refers to a rejected attempt,
and that no attempt belongs to a checkout target before its guest has left
(`NoWorkBeforeCheckout`), without which a checkout rescheduled under a running
attempt would break the authority of that attempt.  The step is proved once per
action, but not once per action and conjunct: four *frames* summarise what any step
may do to attempts, to targets, to the authority of a running attempt and to the
commitments of a target (`AttemptStep`, `TargetStep`, `AuthorityStep`,
`CommitmentStep`), each by the actions, and the invariants follow from the frames.  The two
action properties follow the same way from the invariant.

Its second half proves, from the same assumptions, the six invariants that relate a target's
tables to each other and to its lineage:

| Theorem | Statement |
|---|---|
| `LineageInvariant` | `Spec => []LineageInv` |
| `TargetsAreCoherent` | `Spec => []TargetsTellOneStory` |
| `DecisionsAreCurrent` | `Spec => []DecisionIsAboutLastSubmission` |
| `NoCleaningIsLost` | `Spec => []LineageHasOneCarrier` |
| `NoCleaningIsPaidTwice` | `Spec => []EarnedOncePerLineage` |
| `CheckoutsAreFollowed` | `Spec => []CheckoutFollowsGuest` |

The argument.  `LineageInv` is `IInv` with the coherence of every target (`Story`), which is inductive given
that a target has one attempt that counts: that attempt is the one a command looks at, so nothing else of
the target can contradict the new status.  `CoherentStep` has one step per action, and five lemmas say what a
command must leave behind in a target that is pooled, drafted, announced, worked on or left alone.  From
coherence follows `LineageStep`: no command reopens an approved, rejected or cancelled target, and what
closes an open one is an approval, a withdrawal, or a replacement of the same lineage.  That frame alone
carries the unique carrier of a lineage (`CarrierStep`), the earnings, which only approved targets have, and the
checkouts, completed by the anchors of approved targets.  The cardinalities are those of a singleton.

Its third part proves of the composition with the offline leases:

| Theorem | Statement |
|---|---|
| `OfflineImplementsCleaning` | `SpecOffline => OfflineKeepsTheBook`, which is the `Spec` of `CleaningWork` |
| `OfflineWorkIsAuthorised` | `SpecOffline => [](OneRunningPerMaid /\ OneRunningPerRoom /\ RunningIsAuthorised)` |
| `LeasesAreBacked` | `SpecOffline => []LiveLeaseIsBacked` |
| `OfflineTypeCorrect` | `SpecOffline => []TypeOffline` |

The argument.  An event that is applied is a completion, a correction is a completion
or the limited one of a maid on her way out, everything else leaves the cleaning alone: so each step is
one of `CleaningWork`, and its theorems hold of the composition.  `LeasesAreBacked` uses them: a lease is
left alone by the triggers only if status, revision and account stay, and that running work stands on its
current assignment is `RunningIsAuthorised`.

`NotificationDeliveryProofs` proves for every number of jobs, devices, runs, leases and
subscription versions, from `BoundsArePositive` and the other assumptions of `NotificationDelivery`:

| Theorem | Statement |
|---|---|
| `BaseHolds` | `Spec => []BaseInv` |
| `TypeCorrect` | `Spec => []TypeOK` |
| `OutcomesInOrder` | `Spec => []LastLeaseConcludes` |
| `DeliveryIsTrue` | `Spec => []DeliveredWasAccepted` |
| `RetirementIsTrue` | `Spec => []RetiredEndpointIsGone` |
| `JobsAreSummaries` | `Spec => []JobSummarisesTargets` |
| `LeasesAreExclusive` | `Spec => LiveLeaseIsExclusive` |
| `BlockedJobsWait` | `Spec => BlockedJobIsNotClaimed` |
| `EndIsFinal` | `Spec => EndedStays` |
| `EndsAreOnRecord` | `Spec => []EndsAreExplained` |

The argument.  `BaseInv` is the type invariant with four facts about the ledger: a subscription
can still be retired within its bound, a target that exists was snapshotted from a version a
subscription has had, a run holds targets of the ledger only, and a job not yet opened has no
targets.  It has one lemma
per action.  `StepFrame` says what any step may do to a target: claim it, conclude it under a live
lease, let its lease lapse, resume it, or leave it; the properties of the ledger follow
from that frame.  The two about the provider need one more fact, `AnswersAreTrue`: what a run was told, and
still carries to its settlement, is what the provider did.  `EndsAreOnRecord` has a clause for each action that ends a target
(`Explains`): a conclusion writes its reason under the lease it concludes, and a claim or a resume gives a target up
only when its leases are spent.  For the jobs, `SummaryAlike` says that the summary depends on the
statuses of the job's targets only, and `SummaryStep` that whatever changes them refreshes it.

`PasswordChangeProofs` proves for any number of keys, resets, requests, runs and sessions, from
`NamesAreApart` and `StraysAreBounded`:

| Theorem | Statement |
|---|---|
| `TypeCorrect` | `Spec => []TypeOK` |
| `OneUpdate` | `Spec => []OneUpdatePerKey` |
| `ResetsAreReal` | `Spec => [](strays = 0 => ResetIsReal)` |
| `AnswersAreTrue` | `MaxStray = 0` implies `Spec => AnswerIsTrue` |
| `NoFalseCompletion` | `MaxStray = 0` implies `Spec => NeverFalselyCompleted` |

The argument.  `Single` counts without cardinalities: an update of a key is about to be sent, on its way
or done, at most one of these, and none before the key has a receipt; all steps but three are `Quiet`.
The others rest on `Witnessed`.  `OneOpen`: one change is unresolved and one reset prepared at a time, so that the
marker a landing is given is its own, a random one, or, for a change, that of the prepared reset (`LandsOpen`).  `Genuine`: hence the
version of a change is its author's, and that of a reset its author's unless a change took it.  `Seen`: what a request or a
run has read stays true while it waits, because no key lands twice and no reset lands but the prepared one.  Without `Genuine` the
two reads of the version around the password would show nothing.  It fails after a stray, and
so do `NeverFalselyCompleted` (`password_stray`) and the premise of the three theorems; updates that land late while their command is
open are no strays.

`ReservationStayProofs` proves for any number of reservations, rooms, plans and instants, from
`StaysAreReservations`, `HorizonIsEven`, `PlansAreInTheHorizon` and `CorrectionsAreBounded`:

| Theorem | Statement |
|---|---|
| `Inductive` | `Spec => []Inv` |
| `TypeCorrect` | `Spec => []TypeOK` |
| `StaysStayWhole` | `Spec => []StayIsWhole` |
| `RoomsLeftAreOwedWork` | `Spec => []EveryRoomLeftIsOwedWork` |
| `GuestsDoNotMeet` | `Spec => []OneGuestPerRoom` |
| `ArrivalsAreClean` | `Spec => CleanUnlessMovedInto` |

The argument.  `Inv` says of each row alone that it is `Right`, and of the book that its segments are apart (`Fits`).  A right row is typed
and, unless it was corrected, `Sound`: so the theorems speak of a stay nobody corrected in a book where any other may be, at will.
A sound row has a `Line` of segments: in order, without a gap, all but the first those of moves during the stay, all but
the last with a length; it runs from the arrival to the end, and its segment work is that of the rooms the line leaves, one
for each (`Owes`).  `StayIsWhole` alone is not inductive: what a checkout withdraws is a suffix only of a line
in order, and the work it withdraws is that of the moves it withdraws only if each move owes its own.  A command writes one row
by one of nine transforms (`Created`, `Changed`, `Cancelled`, `Relocated`, `MovedOn`, `CheckedOut`, `Entered`, `Closed`, `Corrected`),
with a lemma each; that every one of them keeps `Fits` is what `Commit` asks.  `GuestsDoNotMeet`: a guest whose stay is not over is in a
segment that covers the moment, and two of them would overlap.

`ArrivalsAreClean` rests on `ProofInv`, which adds four facts.  `Opens`: a reservation without an end precedes in its room no reservation
that has a proof, since the two would overlap (`OpenMeets`), unless the other is closed by hand.  `Ends`: the proof of an active
reservation is of work that became available after every reservation that precedes it ended (`RequiredCovers`); a command that
moves an end drops the proofs of the rooms it names, and only a checkout before the end need not, for it moves the end back.  `Stamped`: the
work is approved.  `Timed`: nobody comes before their time or has left in the future.  Who was moved into a room before
arrival, or corrected, is no predecessor (`Precedes`, `Counts`); with them `Ends` is not an invariant, which is finding (a) of section 5.

`PayrollPaymentProofs` proves for any finite set of earnings and any number of weeks, entries, corrections and transfers, from
`EarningsAreFinite`, `WeeksAreCounted`, `EarningsAreNotNegative` (20260825141441:444) and `CorrectionsAreSigned`:

| Theorem | Statement |
|---|---|
| `PayrollInvariant` | `Spec => []Inv` |
| `PayrollTypes` | `Spec => []TypeOK` |
| `AmountsHaveTheirPlace` | `Spec => []EveryAmountHasItsPlace` |
| `LocksFollowAttempts` | `Spec => []LockFollowsItsAttempt` |
| `FinalWeeksStay` | `Spec => FinalIsFinal` |
| `MoneyConserved` | `Spec => []MoneyIsConserved` |

The argument.  `Inv` says where each amount is.  Beside the types and the two properties it has `Shaped`: only approved
earnings that earned something are claimed, a late carry repeats the amount of its earning, a week has as many attempts as it counts; and `CarryIsResidual`: what
a settled week comes to is, with its sign turned, the residual of the week after, and no other week has one.  Each command has its lemma; the
steps that add nothing to a frozen week leave its sum alone (`SumSame`), which is how the lock survives corrections and late earnings.
`MoneyIsConserved` is not proved step by step: in any state with `Inv` the two sides are the same amounts in two
groupings.  Earnings are claimed, waiting or carried; claimed ones group by the week of their item (`SumByClass`), adjustments by
their earning and by their week, late carries cancel against the earnings they repeat, and each residual cancels against the negative net of the settled week it
comes from (`SumImage`).  `SumFunction` is a fold of the community modules, defined by `CHOOSE`; that it is the sum (`SumFunctionIs`) needs
that the recursion has a solution (`SumUnfold`) and one only (`FoldIsUnique`), by induction over finite sets.  That
induction is not the library's theorem, which takes an operator: `SubsetInduction` takes a *set* of sets and a smallest
counterexample, which `WFMin` has.

`PhotoUploadProofs` proves for any finite number of keys and any number of requests, purge runs, leases and days, from
`KeysAreFinite` (keys are UUIDs; the revision of the slot is a count of them), `NothingIsApart` and `BoundsAreNat`:

| Theorem | Statement |
|---|---|
| `Inductive` | `Spec => []IInv` |
| `TypeCorrect` | `Spec => []TypeOK` |
| `AcceptedPhotosStay` | `Spec => []AcceptedLiesInItsDay` |
| `LedgerIsTrue` | `Spec => []LedgerFollowsCompensation` |
| `SlotIsImplemented` | `Spec => SlotPromise` |
| `RowsOnlyMoveOn` | `Spec => [][\A k \in Keys : Advances(k)]_vars` |

The argument.  A delete is outside of any transaction, so what decided on it may be stale when it happens: the lease lapsed, another
request retired the same operation, the purge settled it.  None of this matters, because a row only moves on (`Advances`): one
that was given up is never taken back, and that is all a delete rests on (`Fits`, `Sited`).  Hence an erased file belongs to a row that is
given up (`KeyOK`), a row with a name that is not given up has its file, of the day of its name, and the acceptance, which compares that day
with the folder's, finds it there.  The other way round a compensation is settled only by who deleted the file or saw it gone, and
a row in compensation has a name, so its file once was there: no create is left to land after the settlement.  Fences and leases appear
nowhere in `IInv`; they keep two actors from repeating work, not the slot from losing a photo.  The refinement maps each action to
one of `PhotoSlot` or to a stutter (`SlotStep`).

`PinSheetSyncProofs` and, for the last three, `PinSheetOwedProofs` prove for any number of rooms, worker runs, versions, full resyncs, leases and retries, from
`BoundsAreNat`:

| Theorem | Statement |
|---|---|
| `Inductive` | `Spec => []IInv` |
| `TypeCorrect` | `Spec => []TypeOK` |
| `UncertainWriteIsNotPassed` | `Spec => []UncertainWritesStop` |
| `RecoveryHasOneChain` | `Spec => []OneChainPerBlock` |
| `AdmissionsOweWrites` | `Spec => []DrainInv` |
| `DrainsAreReal` | `Spec => []DrainIsReal` |
| `SheetIsInOrder` | `Spec => []SheetOK` |
| `PinsAreOwed` | `Spec => []EveryPinIsOwed` |
| `SuccessesAreVisible` | `Spec => SuccessIsVisible` |

The argument.  A mark is set under the live lease only, so a mark of an older fence was left by a lease that was taken over.  Rows and full
resyncs are claimed by two commands, and each looks at marks of its own kind only: the claim of rows passes over a marked full
resync.  That is safe because a run claims rows just after it probed for full resyncs, and what the probe found free stays so
(`ProbeIsFresh`): a lease that lapses while a run stands between the two would break it, which is why the deadline of
a run, 45 s against a lease of two minutes, is part of the argument.  With admissions a claim needs every full resync over.  `Running`
and `Apart` say that the full resync in process is the lease's own and never beside a row of the lease, so no heartbeat gives back a lease
over the other kind of mark; `BlockedStays` that the fence of a block is not used for anything else, hence a request to recover it finds
at most one run, which is `OneChainPerBlock`.  Every step moves the queue in one of two ways, under the same fence (`SameFence`) or to
the next (`NextFence`); each handler is shown to be of one.  `TypeOK` needs `Mounted` beside it: the number of a new version
is within its bound because a change under way begins with a row to spare.

`DrainIsReal` needs an invariant of its own, `DrainInv`, because an admission knows its rows and not who writes them.  Where admissions are taken, every
fence is of one run (`FenceIsOne`), what a run has yet to do is owed item by item under its fence (`Promised`), a marked row is owed under some
fence, and a write that was given up on is owed until its outcome is known (`StrayIsOwed`): the run that gave up comes back to its item only to
block it (`GivenUp`), so no other row of the run can settle the key in its place.  `DrainStep` proves all of it at once from what a handler does to one
run (`Moves`) and which rows it is done with (`Done`); each handler is shown to keep to that.  The property is the case in which nothing is open.

`EveryPinIsOwed` is not inductive: what a run, or a write a run gave up on, is about to put on the sheet matters too.  `SheetOK` says so under each
fence whose lease is not over (`Held`).  A run writes only what is due or the PIN itself (`Useful`), carries its mark unless the queue stopped or a
recovery was asked for (`Warranted`), has its full resync's snapshot on its board (`Copied`) and believes only what the sheet shows (`Truthful`).  A write given up on is `Accounted`
for: a mark, a block, a recovery or a waiver stands for it, so by `UncertainWritesStop` its fence is still held or its room excused, and the run that gave up can
only block those rooms (`Silent`).  A run has at most one row of each room to do (`Tidy`), and no row or snapshot has a version to come (`NotAhead`).  A row thus stops being due only
when the sheet shows it and nobody under the held fence may overwrite it (`Freed`), or when its room is excused.  `SheetStep` proves this from what
a handler does to one run (`Goes`), the marks, the lease and the dues; `QueueStep`, `RunStep` and `WritingStep` are its cases.
`SuccessIsVisible` is what `Truthful` and `Copied` mean for the step that records a success.

Every property of a passing run is proved but one: `NoJobStaysOpen` of `NotificationDelivery`, which is
liveness, is model-checked only.
Proved only, and no property of a run: `EndedAttemptsStay`, `AnsweredRequestsStay`, `DecisionIsAboutLastSubmission`,
`BlockedJobIsNotClaimed`, `EndedStays`, `LiveLeaseIsExclusive`, `AcceptedLiesInItsDay`, `OneChainPerBlock`, and `TypeOK` of `PayrollPayment`.
Liveness and `ENABLED` are beyond the prover and stay with TLC in any case, and so would recursive operators,
of which the models have none.

## 5. Findings

* **A replacement of a replaced reclean pays nothing** (`replacement_fee`,
  20260922233136:297).  The fee is copied from the target of the immediate parent
  attempt; when that is an unpaid reclean itself, the paid replacement costs 0.
* **A change completes on a password of a reset** (`password_stray`,
  20260912101143:134).  The comment there promises that the version of a pending command is
  never reused; the code compares it with the version of the moment only.  The
  reset's update is sent twice, the first without an answer; the second is verified; before the
  reset is finalised the owner changes the password, which gets a random version since
  the marker of the reset is in force; the reset is finalised; the first update lands and
  is given the marker of the change, which takes it for its own.
* **A residual without a week** (`payroll_carry`, 20260910071812:1000).  Weeks are processed in any order.  If a week is
  settled with a negative net after its successor was paid or settled, the residual is written for that successor,
  which claims nothing any more; every later start and settlement of the maid is then refused as long as it is
  unclaimed (20260910114525:700), which is for ever.

Seen while modelling, and no property of a run: a prepared reset whose marker an update of
the owner took can neither complete nor be repeated (the version is the reset's, the
password is not), and while it is prepared other resets of the account are refused; the
code's message asks for an operator.  The verification of a change passes on another
command's late update if both ask for the same password, which is harmless.

* Cleaning.  A replacement does not complete the checkout (20260910114525:581): the approval looks for the obligation along
  recleans only, a replacement has no link back, and the room keeps asking for a cleaning that was done, although
  its maid follows the ordinary completion rules (`docs/SUBMISSION_INSPECTION.md:54`).
* Passwords.  A retried reset forces no change (20260912101143:394).  The duty to change the password is set with
  the receipt, in the first of the reset's transactions.  A request that stops there and is retried after the owner changed the
  password sets the temporary password without the duty, which `docs/ACCOUNT_LIFECYCLE.md:63` promises.

* Photos.  An upload that fails, without provider file and after its lease lapsed, with
  anything but a 503 goes to `reconciliation_pending` and cannot be inspected, having no file identity
  (`photo-service.ts:967`): its slot stays taken.  A candidate that crosses midnight
  is refused at the acceptance and may use up its leases (`docs/PHOTO_STORAGE.md`, the eight leases).
* Reservations.  (a) A move before check-in invalidates the proof of the reservation it moves only
  (20260916204500:834).  A room approved for its next guest, into which another is moved and stays first, lets
  the next guest in uncleaned: without its exception `CleanUnlessMovedInto` fails after fourteen steps.
  `docs/AI_BACKEND_PRODUCT_GUIDE.md:739` has a new occupancy end the earlier evidence.  (b) A move during the stay that
  is scheduled for the moment another guest leaves is accepted: the cleaning owed counts closed stays only, and the guest
  moves into a room not cleaned.  (c) A guest who moves out of a room early keeps its reserved end: the proof of the next
  guest there asks for cleaning after the planned checkout, since it looks at `reservations.room_id` and not at segments.
  (d) A guest who moves away and back makes the first room count as occupied in between (the last room of a stay does).
  (e) Creation and change of open-ended stays and moves before check-in do not refresh due times, so an arrival at the very
  instant segment work becomes available is accepted, and commands that do refresh the room fail on `due_at >
  available_from` (20260916210000:126) until the work is approved.  (f) If segment work is rejected and its reclean approved,
  the segment obligation stays materialized (20260916210000:1793 looks at the target's own), but the room
  is asked for cleaning by the rejected target for ever (20260916210000:876).  (g) An occupancy correction moves no work and
  drops no proof (20260920150000:290).  If the room a guest was moved into is taken from the stay, whole or with a room of before put in its
  place, the tick finds the checkout work in another room than the one the stay ends in and fails (20260916210000:3130), for
  every due stay, until an administrator corrects it back or gives the stay a later end.
* PIN sheet.  (a) A recovery whose worker dies between claim and write is refused by its own lineage
  check ever after, and no other request is allowed meanwhile (20260912225031:433).  (b) A confirmation stamped
  before and committed after the authorisation of a full resync is superseded by its success although the
  sheet has the older PIN (20260912225031:612, whose comment says such a change stays claimable);
  `excused` marks the room.  (c) A second rollback to the same version leaves no row.  (d) After a recovery that
  failed retryably the heartbeat frees the lease, and incremental claims rewrite the uncertain rows, which
  the documentation leaves to an explicit resync.  (e) An admission whose run had a retryable outcome
  never completes, so a drain waits for its operator (20261025040854:59).  (f) An unknown outcome of a row that a
  newer PIN has superseded does not block, and the abandoned write may land on the newer one
  (20260912183550:266); `waived` marks the fence, and with admissions the outcome stays unknown.

## 6. Plan

Done: `CleaningWork`, `NotificationDelivery`, `OfflineWork`, `PasswordChange`, `ReservationStay` and `PayrollPayment` with their proofs,
`PhotoUpload` with its abstract specification and the proof that it implements it, `PinSheetSync` with the admissions of its worker and its proofs.  Left, in this order:

1. The composition of `ReservationStay` with the checkout work of `CleaningWork`;
   checkout incidents and room-ready corrections, which correct its obligations.
2. Complaints, which correct the amounts of `PayrollPayment`, and its composition with the earnings of `CleaningWork`.
3. The HTTP and scheduler admissions beside the worker's, and the states after a drain.
4. `LoginRateLimit`, three windows consumed in order.

Not planned, and why: read models, previews, adapters, the console, scripts and monitors keep
no state of their own; availability, templates, rooms and memos are single rows under a version
check, which tests reach; cryptography and evidence formats are data the properties do not
tell apart.
