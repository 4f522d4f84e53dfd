---------------------------- MODULE PhotoUpload ----------------------------
(***************************************************************************)
(* The upload of a photo into one slot of a cleaning attempt: a request    *)
(* runs a chain of short transactions with calls of the drive between      *)
(* them, under a lease it may lose at any point, and the same chain undone *)
(* by a reconciliation that retires the operation before it deletes.  The  *)
(* purge of withdrawn files is a second actor on the same rows.            *)
(*                                                                         *)
(* Each RPC and each drive call is one action.  A request may end anywhere *)
(* (Crash), and a reply that got lost is an RPC that happened and a caller *)
(* that went on as if it had failed.  Time is nondeterminism: leases and   *)
(* admissions may lapse, midnight may pass.  Quotas and rate limits are    *)
(* left out; the slot takes single photos (no collection).                 *)
(***************************************************************************)
EXTENDS Naturals, FiniteSets

CONSTANTS
  Keys,            \* idempotency keys: one operation each
  Requests,        \* bound: upload requests at a time, each with its own session
  Workers,         \* bound: purge runs at a time
  Nothing,         \* the absence of a key or of a day
  MaxLease,        \* leases an operation may ever have (8)
  MaxPurge,        \* leases a purge job may ever have (8)
  MaxDay           \* bound: midnights that pass and sessions that are revoked, together

\* One slot sees finitely many keys: they are UUIDs.
ASSUME KeysAreFinite == IsFiniteSet(Keys)
ASSUME NothingIsApart == Nothing \notin Keys \cup Nat
ASSUME BoundsAreNat == {MaxLease, MaxPurge, MaxDay} \subseteq Nat

VARIABLES
  op,              \* admission, operation, state, identity and object row per key
  revision,        \* attempt_photo_current.revision of the slot
  job,             \* photo_orphan_purge_jobs
  drive,           \* the drive object of each key
  sent,            \* the keys whose create request left: it may land any time
  request,         \* where each upload request is
  revoked,         \* the sessions that were revoked
  worker,          \* where each purge run is
  day              \* today in Korea

rows == <<op, revision, job>>
outside == <<drive, sent, revoked, day>>
vars == <<rows, outside, request, worker>>

Days == 0 .. MaxDay
InFlight == {"reserved", "provider_succeeded", "reconciliation_pending", "compensation_pending"}
Open == {"reserved", "provider_succeeded"}
Retired == {"reconciliation_pending", "compensation_pending"}
Operation ==
  [status: {"none", "admitted", "lapsed", "accepted", "compensated"} \cup InFlight,
   expected: Nat,                       \* expected_photo_revision
   version: 0 .. MaxLease,              \* lease_version: a fresh digest comes with each
   live: BOOLEAN,                       \* lease_expires_at is still to come
   folder: Days \cup {Nothing},         \* day of the reserved drive identity
   uploaded: Days \cup {Nothing}]       \* day of uploaded_at, with the locator
Job ==
  [status: {"none", "pending", "claimed", "retry", "blocked", "purged"},
   version: 0 .. MaxPurge, live: BOOLEAN]
Object == [state: {"none", "stored", "erased"}, day: Days]
Request ==
  [at: {"idle", "admit", "begin", "claim", "context", "reserve", "upload", "verify",
        "record", "finalize", "release", "receipt", "reconcile", "examine",
        "inspect", "adopt", "remove", "settle", "accepted"},
   key: Keys \cup {Nothing},
   version: 0 .. MaxLease,
   stored: BOOLEAN,                     \* claimed.status was provider_succeeded
   day: Days \cup {Nothing}]            \* context.uploadDate
Worker ==
  [at: {"idle", "context", "remove", "settle"},
   key: Keys \cup {Nothing}, version: 0 .. MaxPurge, gone: BOOLEAN]

Idle == [at |-> "idle", key |-> Nothing, version |-> 0, stored |-> FALSE, day |-> Nothing]
Resting == [at |-> "idle", key |-> Nothing, version |-> 0, gone |-> FALSE]

Init ==
  /\ op = [k \in Keys |-> [status |-> "none", expected |-> 0, version |-> 0,
                           live |-> FALSE, folder |-> Nothing, uploaded |-> Nothing]]
  /\ revision = 0
  /\ job = [k \in Keys |-> [status |-> "none", version |-> 0, live |-> FALSE]]
  /\ drive = [k \in Keys |-> [state |-> "none", day |-> 0]]
  /\ sent = {}
  /\ request = [r \in Requests |-> Idle]
  /\ revoked = {}
  /\ worker = [w \in Workers |-> Resting]
  /\ day = 0

(***************************************************************************)
(* The rows: what the transactions check and change                        *)
(***************************************************************************)
Holds(k, v) == op[k].version = v /\ op[k].live
Fenced(r) == Holds(request[r].key, request[r].version)
Leased(row) == [row EXCEPT !.version = @ + 1, !.live = TRUE]

\* An admission keeps the slot as long as its operation may still own a file.
SlotIsTaken(k) == \E j \in Keys \ {k} : op[j].status \in InFlight \cup {"admitted"}

\* A new operation needs the slot as its admission saw it, and nothing running there.
BeginStands(k) == op[k].expected = revision /\ \A j \in Keys : op[j].status \notin Open

\* A lease is taken when the last one has lapsed, and only so many times.
MayClaim(k) ==
  /\ op[k].status \in Open
  /\ ~op[k].live
  /\ op[k].version < MaxLease

\* The assignment and the slot are as the operation expects, under its lease.
ContextStands(r) ==
  LET k == request[r].key IN
  /\ r \notin revoked
  /\ Fenced(r)
  /\ op[k].status \in Open
  /\ op[k].expected = revision

\* Entering compensation_pending puts the file on the purge's list.
Enlist(k) ==
  job' = [job EXCEPT ![k] = IF @.status = "none" THEN [@ EXCEPT !.status = "pending"] ELSE @]

AfterUpload(status) ==
  IF status = "reconciliation_pending" THEN "compensation_pending" ELSE "provider_succeeded"

\* record_admitted_photo_provider_success: the first record names the file for good.
RecordStands(r) ==
  LET k == request[r].key IN
  \/ op[k].status = "accepted" /\ op[k].uploaded = drive[k].day
  \/ /\ op[k].folder # Nothing
     /\ Fenced(r)
     /\ op[k].status \in Open \cup {"reconciliation_pending"}
     /\ op[k].uploaded \in {Nothing, drive[k].day}
RecordSuccess(r) ==
  LET k == request[r].key IN
  IF op[k].uploaded # Nothing
  THEN UNCHANGED <<op, job>>
  ELSE /\ op' = [op EXCEPT ![k].uploaded = drive[k].day,
                           ![k].status = AfterUpload(@)]
       /\ IF op[k].status = "reconciliation_pending" THEN Enlist(k) ELSE UNCHANGED job

\* Slip: the purge's list is the purge's business.
CompensateOnly(k) ==
  /\ op' = [op EXCEPT ![k].status = "compensated", ![k].folder = Nothing,
                      ![k].uploaded = Nothing]
  /\ UNCHANGED job
\* Both ways to end a compensation forget the file's names and close the job.
Compensate(k) ==
  /\ op' = [op EXCEPT ![k].status = "compensated", ![k].folder = Nothing,
                      ![k].uploaded = Nothing]
  /\ job' = [job EXCEPT ![k].status = "purged"]

(***************************************************************************)
(* The request                                                             *)
(***************************************************************************)
At(r, where) == request[r].at = where
Go(r, where) == request' = [request EXCEPT ![r].at = where]
End(r) == request' = [request EXCEPT ![r] = Idle]
\* A step that needs nothing of the claim, and the response "accepted".
Turn(r, where) == request' = [request EXCEPT ![r] = [Idle EXCEPT !.at = where, !.key = request[r].key]]
Answer(r) == Turn(r, "accepted")

\* A fresh client call, first or repeated, for any key.
Start(r, k) ==
  /\ At(r, "idle")
  /\ request' = [request EXCEPT ![r] = [Idle EXCEPT !.at = "admit", !.key = k]]
  /\ UNCHANGED <<rows, outside, worker>>

\* A refusal before the claim, a refusal within the recovery, or the end of the process.
Ends(r) ==
  /\ ~At(r, "idle")
  /\ End(r)
  /\ UNCHANGED <<rows, outside, worker>>

Admit(r) ==
  LET k == request[r].key IN
  /\ At(r, "admit")
  /\ r \notin revoked
  /\ op[k].status # "lapsed"
  /\ IF op[k].status = "none"
     THEN /\ ~SlotIsTaken(k)
          /\ op' = [op EXCEPT ![k].status = "admitted", ![k].expected = revision]
     ELSE UNCHANGED op
  /\ Go(r, "begin")
  /\ UNCHANGED <<revision, job, outside, worker>>

\* The binding makes the operation; a known key returns what became of it.
Begin(r) ==
  LET k == request[r].key IN
  /\ At(r, "begin")
  /\ r \notin revoked
  /\ op[k].status # "lapsed"
  /\ IF op[k].status = "admitted"
     THEN /\ BeginStands(k)
          /\ op' = [op EXCEPT ![k].status = "reserved"]
     ELSE UNCHANGED op
  /\ IF op[k].status = "accepted" THEN Answer(r) ELSE Go(r, "claim")
  /\ UNCHANGED <<revision, job, outside, worker>>

Claim(r) ==
  LET k == request[r].key IN
  /\ At(r, "claim")
  /\ r \notin revoked
  /\ \/ /\ op[k].status = "accepted"
        /\ Answer(r)
        /\ UNCHANGED op
     \/ /\ MayClaim(k)
        /\ op' = [op EXCEPT ![k] = Leased(@)]
        /\ request' = [request EXCEPT ![r].at = "context", ![r].version = op[k].version + 1,
                                      ![r].stored = op[k].status = "provider_succeeded"]
  /\ UNCHANGED <<revision, job, outside, worker>>

\* get_photo_provider_context: the date is the identity's, or today's before there is one.
Context(r) ==
  LET folder == op[request[r].key].folder IN
  /\ At(r, "context")
  /\ ContextStands(r)
  /\ request' = [request EXCEPT
       ![r].stored = FALSE,
       ![r].day = IF request[r].stored THEN Nothing ELSE IF folder = Nothing THEN day ELSE folder,
       ![r].at = IF folder = Nothing THEN "reserve" ELSE IF request[r].stored THEN "finalize" ELSE "upload"]
  /\ UNCHANGED <<rows, outside, worker>>

\* The day's folders, then the file's identity in them; midnight in between is an error.
Reserve(r) ==
  LET k == request[r].key IN
  /\ At(r, "reserve")
  /\ ContextStands(r)
  /\ op[k].folder = Nothing
  /\ request[r].day = day
  /\ op' = [op EXCEPT ![k].folder = day]
  /\ Go(r, "upload") \/ Turn(r, "reconcile")
  /\ UNCHANGED <<revision, job, outside, worker>>

\* The create request leaves on the day of its folder only.
Upload(r) ==
  /\ At(r, "upload")
  /\ request[r].day = day
  /\ sent' = sent \cup {request[r].key}
  /\ request' = [request EXCEPT ![r].at = "verify", ![r].day = Nothing]
  /\ UNCHANGED <<rows, drive, revoked, day, worker>>

\* Its acknowledgement or a fresh GET shows the object.
Verify(r) ==
  /\ At(r, "verify")
  /\ drive[request[r].key].state = "stored"
  /\ Go(r, "record")
  /\ UNCHANGED <<rows, outside, worker>>

Record(r) ==
  /\ At(r, "record")
  /\ RecordStands(r)
  /\ RecordSuccess(r)
  /\ Go(r, "finalize") \/ Turn(r, "reconcile")
  /\ UNCHANGED <<revision, outside, worker>>

\* Acceptance: the slot takes the next revision, the operation ends.
FinalizeStands(r) ==
  LET k == request[r].key IN
  /\ r \notin revoked
  /\ op[k].folder # Nothing
  /\ op[k].uploaded \in {Nothing, op[k].folder}
  /\ \/ op[k].status = "accepted"
     \/ /\ op[k].status = "provider_succeeded"
        /\ Fenced(r)
        /\ op[k].expected = revision
Finalize(r) ==
  LET k == request[r].key IN
  /\ At(r, "finalize")
  /\ FinalizeStands(r)
  /\ IF op[k].status = "accepted"
     THEN UNCHANGED <<op, revision>>
     ELSE /\ op' = [op EXCEPT ![k].status = "accepted"]
          /\ revision' = revision + 1
  /\ Answer(r) \/ Turn(r, "reconcile")
  /\ UNCHANGED <<job, outside, worker>>

\* Inside the claim every error but the drive's leads to the reconciliation.
Fails(r) ==
  /\ request[r].at \in {"context", "reserve", "upload", "record", "finalize"}
  /\ Turn(r, "reconcile")
  /\ UNCHANGED <<rows, outside, worker>>

\* The drive, or the quota snapshot, is unavailable: 503.
Unavailable(r) ==
  /\ request[r].at \in {"context", "reserve", "verify"}
  /\ request' = [request EXCEPT ![r] = [Idle EXCEPT !.at = "release", !.key = request[r].key, !.version = request[r].version]]
  /\ UNCHANGED <<rows, outside, worker>>

\* Only a claim that reserved no identity may be given back at once.
ReleaseStands(r) ==
  LET k == request[r].key IN
  /\ r \notin revoked
  /\ Fenced(r)
  /\ op[k].status = "reserved"
  /\ op[k].folder = Nothing
Release(r) ==
  LET k == request[r].key IN
  /\ At(r, "release")
  /\ IF ReleaseStands(r)
     THEN /\ op' = [op EXCEPT ![k].live = FALSE]
          /\ End(r) \/ Turn(r, "receipt")
     ELSE Turn(r, "receipt") /\ UNCHANGED op
  /\ UNCHANGED <<revision, job, outside, worker>>

\* get_photo_upload_receipt_with_session: the one way an error becomes a success.
ReceiptStands(r) == r \notin revoked /\ op[request[r].key].status = "accepted"
Receipt(r) ==
  /\ At(r, "receipt")
  /\ ReceiptStands(r)
  /\ Answer(r)
  /\ UNCHANGED <<rows, outside, worker>>

(***************************************************************************)
(* The reconciliation: retire the operation, find its file, delete it      *)
(***************************************************************************)
\* Slip: the limit is left to the claim.
MayRetireOnceMore(k) == op[k].status \in InFlight /\ ~op[k].live
\* Nobody's lease is taken over, not even the caller's own.
MayRetire(k) ==
  /\ op[k].status \in InFlight
  /\ ~op[k].live
  /\ op[k].version < MaxLease
Retirement(row) == IF row.uploaded = Nothing THEN "reconciliation_pending" ELSE "compensation_pending"
Reconcile(r) ==
  LET k == request[r].key IN
  /\ At(r, "reconcile")
  /\ \/ /\ op[k].status = "accepted"
        /\ Turn(r, "receipt")
        /\ UNCHANGED <<op, job>>
     \/ /\ MayRetire(k)
        /\ op' = [op EXCEPT ![k] = [Leased(@) EXCEPT !.status = Retirement(op[k])]]
        /\ IF op[k].uploaded # Nothing THEN Enlist(k) ELSE UNCHANGED job
        /\ request' = [request EXCEPT ![r].at = "examine", ![r].version = op[k].version + 1]
  /\ UNCHANGED <<revision, outside, worker>>

\* get_photo_reconciliation_context: no file was ever named, or it must be looked at, or deleted.
Examine(r) ==
  LET k == request[r].key IN
  /\ At(r, "examine")
  /\ Fenced(r)
  /\ \/ /\ op[k].status = "reconciliation_pending"
        /\ op[k].folder # Nothing
        /\ Go(r, "inspect")
     \/ /\ op[k].status = "compensation_pending"
        /\ Go(r, "remove")
  /\ UNCHANGED <<rows, outside, worker>>

\* Slip: a missing object has nothing left to protect.
MissingIsProof(k) == TRUE
\* A missing object proves nothing: its create may still be on the way.
InspectionShows(k) == drive[k].state = "stored"
Inspect(r) ==
  /\ At(r, "inspect")
  /\ InspectionShows(request[r].key)
  /\ Go(r, "adopt")
  /\ UNCHANGED <<rows, outside, worker>>

Adopt(r) ==
  /\ At(r, "adopt")
  /\ RecordStands(r)
  /\ RecordSuccess(r)
  /\ Go(r, "examine")
  /\ UNCHANGED <<revision, outside, worker>>

Erased(object) == IF object.state = "stored" THEN [object EXCEPT !.state = "erased"] ELSE object

\* The delete is outside any transaction; its reply may get lost.
Remove(r) ==
  /\ At(r, "remove")
  /\ drive' = [drive EXCEPT ![request[r].key] = Erased(@)]
  /\ Go(r, "settle") \/ End(r)
  /\ UNCHANGED <<rows, sent, revoked, day, worker>>

Settle(r) ==
  LET k == request[r].key IN
  /\ At(r, "settle")
  /\ op[k].status = "compensation_pending"
  /\ Fenced(r)
  /\ Compensate(k)
  /\ End(r)
  /\ UNCHANGED <<revision, outside, worker>>

(***************************************************************************)
(* The purge of withdrawn files                                            *)
(***************************************************************************)
JobStands(w) ==
  LET k == worker[w].key IN
  /\ job[k].status = "claimed"
  /\ job[k].version = worker[w].version /\ job[k].live
  /\ op[k].status = "compensation_pending"
  /\ op[k].uploaded # Nothing

ClaimPurge(w, k) ==
  /\ worker[w].at = "idle"
  /\ job[k].status \in {"pending", "claimed", "retry"}
  /\ ~job[k].live
  /\ IF job[k].version = MaxPurge
     THEN job' = [job EXCEPT ![k].status = "blocked"] /\ UNCHANGED worker
     ELSE /\ job' = [job EXCEPT ![k] = [Leased(@) EXCEPT !.status = "claimed"]]
          /\ worker' = [worker EXCEPT ![w] = [Resting EXCEPT !.at = "context", !.key = k,
                                                             !.version = job[k].version + 1]]
  /\ UNCHANGED <<op, revision, outside, request>>

PurgeContext(w) ==
  /\ worker[w].at = "context"
  /\ JobStands(w)
  /\ worker' = [worker EXCEPT ![w].at = "remove"]
  /\ UNCHANGED <<rows, outside, request>>

\* Deleted or seen missing; otherwise the outcome is retryable, whatever happened.
PurgeRemove(w) ==
  LET k == worker[w].key IN
  /\ worker[w].at = "remove"
  /\ \E after \in {drive[k], Erased(drive[k])}, gone \in BOOLEAN :
       /\ gone => after.state # "stored"
       /\ drive' = [drive EXCEPT ![k] = after]
       /\ worker' = [worker EXCEPT ![w].at = "settle", ![w].gone = gone]
  /\ UNCHANGED <<rows, sent, revoked, day, request>>

PurgeSettle(w) ==
  LET k == worker[w].key IN
  /\ worker[w].at = "settle"
  /\ JobStands(w)
  /\ IF worker[w].gone
     THEN Compensate(k)
     ELSE /\ job' = [job EXCEPT ![k].live = FALSE,
                                ![k].status = IF job[k].version = MaxPurge THEN "blocked" ELSE "retry"]
          /\ UNCHANGED op
  /\ worker' = [worker EXCEPT ![w] = Resting]
  /\ UNCHANGED <<revision, outside, request>>

\* A stale fence, a settled job, or the end of the run.
WorkerEnds(w) ==
  /\ worker[w].at # "idle"
  /\ worker' = [worker EXCEPT ![w] = Resting]
  /\ UNCHANGED <<rows, outside, request>>

(***************************************************************************)
(* The world                                                               *)
(***************************************************************************)
AdmissionLapses(k) ==
  /\ op[k].status = "admitted"
  /\ op' = [op EXCEPT ![k].status = "lapsed"]
  /\ UNCHANGED <<revision, job, outside, request, worker>>
LeaseLapses(k) ==
  /\ op[k].live
  /\ op' = [op EXCEPT ![k].live = FALSE]
  /\ UNCHANGED <<revision, job, outside, request, worker>>
JobLeaseLapses(k) ==
  /\ job[k].live
  /\ job' = [job EXCEPT ![k].live = FALSE]
  /\ UNCHANGED <<op, revision, outside, request, worker>>
\* An identity names at most one object, ever.
CreateLands(k) ==
  /\ k \in sent
  /\ drive[k].state = "none"
  /\ drive' = [drive EXCEPT ![k] = [state |-> "stored", day |-> day]]
  /\ UNCHANGED <<rows, sent, revoked, day, request, worker>>
MoreMayHappen == day < MaxDay /\ Cardinality(revoked) < MaxDay - day
RevokeSession(r) ==
  /\ MoreMayHappen
  /\ r \notin revoked
  /\ revoked' = revoked \cup {r}
  /\ UNCHANGED <<rows, drive, sent, day, request, worker>>
MidnightPasses ==
  /\ MoreMayHappen
  /\ day' = day + 1
  /\ UNCHANGED <<rows, drive, sent, revoked, request, worker>>

RequestSteps(r) ==
  \/ \E k \in Keys : Start(r, k)
  \/ Ends(r) \/ Admit(r) \/ Begin(r) \/ Claim(r) \/ Context(r) \/ Reserve(r)
  \/ Upload(r) \/ Verify(r) \/ Record(r) \/ Finalize(r) \/ Fails(r) \/ Unavailable(r)
  \/ Release(r) \/ Receipt(r) \/ RevokeSession(r)
RecoverySteps(r) ==
  Reconcile(r) \/ Examine(r) \/ Inspect(r) \/ Adopt(r) \/ Remove(r) \/ Settle(r)
PurgeSteps(w) ==
  \/ \E k \in Keys : ClaimPurge(w, k)
  \/ PurgeContext(w) \/ PurgeRemove(w) \/ PurgeSettle(w) \/ WorkerEnds(w)
WorldSteps ==
  \/ \E k \in Keys : AdmissionLapses(k) \/ LeaseLapses(k) \/ JobLeaseLapses(k) \/ CreateLands(k)
  \/ MidnightPasses

Next ==
  \/ \E r \in Requests : RequestSteps(r) \/ RecoverySteps(r)
  \/ \E w \in Workers : PurgeSteps(w)
  \/ WorldSteps

Spec == Init /\ [][Next]_vars

(***************************************************************************)
(* Properties                                                              *)
(***************************************************************************)
\* The rows have their types; a lease is only held by a claimed row.
TypeOK ==
  /\ op \in [Keys -> Operation]
  /\ revision \in 0 .. Cardinality(Keys)
  /\ job \in [Keys -> Job]
  /\ drive \in [Keys -> Object]
  /\ sent \subseteq Keys
  /\ request \in [Requests -> Request]
  /\ revoked \subseteq Requests
  /\ worker \in [Workers -> Worker]
  /\ day \in Days
  /\ \A k \in Keys : job[k].live => job[k].status \in {"claimed", "purged"}

\* An accepted photo lies in the folder of the day it was created on, also when
\* midnight passed between the folder, the upload and the acceptance.
AcceptedLiesInItsDay == \A k \in Keys : op[k].status = "accepted" =>
  drive[k] = [state |-> "stored", day |-> op[k].folder]

\* The request's own compensation and the purge race to delete a withdrawn file:
\* whichever wins, the ledger has one open job per file that may still be stored
\* and none once its name was forgotten.
LedgerFollowsCompensation == \A k \in Keys :
  /\ job[k].status \in {"pending", "claimed", "retry", "blocked"}
       <=> op[k].status = "compensation_pending"
  /\ job[k].status = "purged" <=> op[k].status = "compensated"

Phase ==
  [none |-> "unknown", admitted |-> "open", reserved |-> "open", provider_succeeded |-> "open",
   reconciliation_pending |-> "withdrawn", compensation_pending |-> "withdrawn",
   accepted |-> "accepted", lapsed |-> "discarded", compensated |-> "discarded"]
PhaseOf(status) == Phase[status]
Slot == INSTANCE PhotoSlot WITH
  phase <- [k \in Keys |-> PhaseOf(op[k].status)],
  file <- [k \in Keys |-> drive[k].state],
  photos <- revision

\* The slot keeps its promise: one upload open at a time, an accepted photo keeps
\* its file, an upload that is given up leaves none behind.
SlotPromise == Slot!Spec
=============================================================================
