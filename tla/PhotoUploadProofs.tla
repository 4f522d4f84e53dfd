-------------------------- MODULE PhotoUploadProofs --------------------------
(***************************************************************************)
(* Proofs about PhotoUpload: the rows, the drive and the two kinds of      *)
(* actor (uploads, purge runs) tell one story about every key, so that an  *)
(* accepted photo keeps its file, a withdrawn one is on the purge's list,  *)
(* and the slot implements PhotoSlot.                                      *)
(*                                                                         *)
(* The argument: a row only moves on (Advances).  So what an actor saw     *)
(* before it left its transaction is still true, or truer, when it acts on *)
(* the drive, whoever took its lease over in the meantime.                 *)
(***************************************************************************)
EXTENDS PhotoUpload, FiniteSetTheorems, TLAPS

\* What the binding leaves; what ends with the file deleted; what has a file's name.
Begun == {"accepted", "compensated"} \cup InFlight
Doomed == {"compensation_pending", "compensated"}
Named == {"provider_succeeded", "compensation_pending", "accepted"}

\* The row of a key and the drive agree: a name in the row is an object that was
\* created on that day, and only a row that is given up lets its object go.
KeyOK(k) ==
  /\ op[k].status \in Named <=> op[k].uploaded # Nothing
  /\ op[k].uploaded # Nothing => drive[k].state # "none" /\ drive[k].day = op[k].uploaded
  /\ op[k].status = "accepted" => op[k].folder = op[k].uploaded
  /\ drive[k].state = "erased" => op[k].status \in Doomed
  /\ op[k].status = "compensated" => drive[k].state = "erased"
  /\ drive[k].state # "none" => k \in sent
  /\ k \in sent => op[k].status \in Begun

LedgerOK(k) ==
  /\ job[k].status \in {"pending", "claimed", "retry", "blocked"}
       <=> op[k].status = "compensation_pending"
  /\ job[k].status = "purged" <=> op[k].status = "compensated"

\* What an upload learned about its key on the way to where it is.
Fits(where, k) ==
  /\ where = "begin" => op[k].status # "none"
  /\ where \notin {"idle", "admit", "begin"} => op[k].status \in Begun
  /\ where \in {"record", "adopt"} => drive[k].state # "none"
  /\ where \in {"remove", "settle"} => op[k].status \in Doomed
  /\ where = "settle" => drive[k].state = "erased"
Placed(r) == ~At(r, "idle") =>
  /\ request[r].key \in Keys
  /\ \A k \in Keys : request[r].key = k => Fits(request[r].at, k)

\* The same for a purge run.
Sited(w) ==
  /\ worker[w].at # "idle" => worker[w].key \in Keys
  /\ \A k \in Keys : worker[w].key = k /\ worker[w].at # "idle" =>
       /\ worker[w].at \in {"remove", "settle"} => op[k].status \in Doomed
       /\ worker[w].gone => worker[w].at = "settle" /\ drive[k].state = "erased"

\* The revision counts the photos the slot accepted.
Accepted == {k \in Keys : op[k].status = "accepted"}
Counted == revision = Cardinality(Accepted)

Rows == \A k \in Keys : KeyOK(k) /\ LedgerOK(k)
Places == \A r \in Requests : Placed(r)
Sites == \A w \in Workers : Sited(w)
IInv == TypeOK /\ Rows /\ Places /\ Sites /\ Counted

\* A step never takes back what an actor may rely on.
Advances(k) ==
  /\ op[k].status # "none" => op'[k].status # "none"
  /\ op[k].status \in Begun => op'[k].status \in Begun
  /\ op[k].status \in Doomed => op'[k].status \in Doomed
  /\ drive[k].state # "none" => drive'[k].state # "none"
  /\ drive[k].state = "erased" => drive'[k].state = "erased"
Moves(k) == KeyOK(k)' /\ LedgerOK(k)' /\ Advances(k)
\* No step but an acceptance changes what is accepted.
Steady ==
  /\ \A k \in Keys : Moves(k) /\ (op'[k].status = "accepted" <=> op[k].status = "accepted")
  /\ revision' = revision
\* What the invariant reads of a row.
Alike(k) ==
  /\ op'[k].status = op[k].status /\ op'[k].uploaded = op[k].uploaded
  /\ op'[k].folder = op[k].folder
  /\ job'[k].status = job[k].status
  /\ drive'[k] = drive[k]
  /\ k \in sent' <=> k \in sent

(***************************************************************************)
(* Types                                                                   *)
(***************************************************************************)
LEMMA Bounds ==
  /\ MaxLease \in Nat /\ MaxPurge \in Nat /\ MaxDay \in Nat
  /\ Nothing \notin Keys /\ Nothing \notin Nat
  BY NothingIsApart, BoundsAreNat

LEMMA DayIsSomething == \A d \in Days : d \in Nat /\ d # Nothing
  BY Bounds DEF Days

Statuses == {"none", "admitted", "lapsed", "accepted", "compensated"} \cup InFlight
Stages == {"idle", "admit", "begin", "claim", "context", "reserve", "upload", "verify",
           "record", "finalize", "release", "receipt", "reconcile", "examine",
           "inspect", "adopt", "remove", "settle", "accepted"}

\* All of the types but that of the revision, whose range is a matter of counting.
RowTypes ==
  /\ op \in [Keys -> Operation]
  /\ revision \in Nat
  /\ job \in [Keys -> Job]
  /\ drive \in [Keys -> Object]
  /\ sent \subseteq Keys
  /\ request \in [Requests -> Request]
  /\ revoked \subseteq Requests
  /\ worker \in [Workers -> Worker]
  /\ day \in Days
Keyed ==
  /\ \A r \in Requests : ~At(r, "idle") => request[r].key \in Keys
  /\ \A w \in Workers : worker[w].at # "idle" => worker[w].key \in Keys

LEMMA TypesOf == IInv => RowTypes /\ Keyed
  BY DEF IInv, TypeOK, RowTypes, Keyed, Places, Sites, Placed, Sited, At

\* The ways a row of the operations is rewritten.
LEMMA Restated ==
  ASSUME NEW row \in Operation, NEW s \in Statuses
  PROVE  [row EXCEPT !.status = s] \in Operation
  BY DEF Operation, Statuses

LEMMA Leasing ==
  ASSUME NEW row \in Operation, row.version < MaxLease
  PROVE  /\ Leased(row) \in Operation
         /\ row.version + 1 \in 0 .. MaxLease
         /\ Leased(row).status = row.status /\ Leased(row).uploaded = row.uploaded
         /\ Leased(row).folder = row.folder
<1>1. row.version + 1 \in 0 .. MaxLease
  BY Bounds DEF Operation
<1>. QED
  BY <1>1 DEF Operation, Leased

LEMMA Naming ==
  ASSUME NEW row \in Operation, NEW d \in Days, row.status \in Open \cup {"reconciliation_pending"}
  PROVE  [row EXCEPT !.uploaded = d, !.status = AfterUpload(@)] \in Operation
<1>1. AfterUpload(row.status) \in Statuses
  BY DEF AfterUpload, Statuses, InFlight
<1>. QED
  BY <1>1 DEF Operation, Statuses

LEMMA Forgetting ==
  ASSUME NEW row \in Operation
  PROVE  [row EXCEPT !.status = "compensated", !.folder = Nothing, !.uploaded = Nothing]
           \in Operation
  BY DEF Operation

LEMMA Lapsing ==
  ASSUME NEW row \in Operation
  PROVE  [row EXCEPT !.live = FALSE] \in Operation
  BY DEF Operation

LEMMA Foldering ==
  ASSUME NEW row \in Operation, NEW d \in Days
  PROVE  [row EXCEPT !.folder = d] \in Operation
  BY DEF Operation

\* The ways a row of the ledger is rewritten.
LEMMA JobRestated ==
  ASSUME NEW row \in Job,
         NEW s \in {"none", "pending", "claimed", "retry", "blocked", "purged"}
  PROVE  [row EXCEPT !.status = s] \in Job
  BY DEF Job

LEMMA RecordTypes ==
  ASSUME NEW r \in Requests, RowTypes, request[r].key \in Keys, RecordStands(r), RecordSuccess(r),
         Rows
  PROVE  op' \in [Keys -> Operation] /\ job' \in [Keys -> Job]
<1>. DEFINE k == request[r].key
<1>1. CASE op[k].uploaded # Nothing
  BY <1>1 DEF RecordSuccess, RowTypes
<1>2. CASE op[k].uploaded = Nothing
  <2>1. drive[k].day \in Days
    BY DEF RowTypes, Object
  <2>2. op[k].status \in Open \cup {"reconciliation_pending"}
    BY <1>2, <2>1, DayIsSomething DEF RecordStands
  <2>3. [op[k] EXCEPT !.uploaded = drive[k].day, !.status = AfterUpload(@)] \in Operation
    BY <2>1, <2>2, Naming DEF RowTypes
  <2>4. op' \in [Keys -> Operation]
    BY <1>2, <2>3 DEF RecordSuccess, RowTypes
  <2>5. job' \in [Keys -> Job]
    <3>1. [job[k] EXCEPT !.status = "pending"] \in Job
      BY JobRestated DEF RowTypes
    <3>2. Enlist(k) => job' \in [Keys -> Job]
      BY <3>1 DEF Enlist, RowTypes
    <3>. QED
      BY <1>2, <3>2 DEF RecordSuccess, RowTypes
  <2>. QED
    BY <2>4, <2>5
<1>. QED
  BY <1>1, <1>2

LEMMA OpTypes ==
  ASSUME RowTypes, Keyed, Rows, Next
  PROVE  op' \in [Keys -> Operation]
<1>1. ASSUME NEW r \in Requests, Admit(r)
      PROVE  op' \in [Keys -> Operation]
  BY <1>1, SMTT(30) DEF Admit, RowTypes, Keyed, At, Operation
<1>2. ASSUME NEW r \in Requests, Begin(r)
      PROVE  op' \in [Keys -> Operation]
  <2>1. \A k \in Keys : [op[k] EXCEPT !.status = "reserved"] \in Operation
    BY Restated DEF Statuses, InFlight, RowTypes
  <2>. QED
    BY <1>2, <2>1 DEF Begin, RowTypes
<1>3. ASSUME NEW r \in Requests, Claim(r)
      PROVE  op' \in [Keys -> Operation]
  BY <1>3, Leasing DEF Claim, MayClaim, RowTypes
<1>4. ASSUME NEW r \in Requests, Reserve(r)
      PROVE  op' \in [Keys -> Operation]
  BY <1>4, Foldering DEF Reserve, RowTypes
<1>5. ASSUME NEW r \in Requests, Record(r)
      PROVE  op' \in [Keys -> Operation]
  BY <1>5, RecordTypes DEF Record, Keyed, At
<1>6. ASSUME NEW r \in Requests, Finalize(r)
      PROVE  op' \in [Keys -> Operation]
  BY <1>6, SMTT(30) DEF Finalize, RowTypes, Operation
<1>7. ASSUME NEW r \in Requests, Release(r)
      PROVE  op' \in [Keys -> Operation]
  BY <1>7, Lapsing DEF Release, RowTypes
<1>8. ASSUME NEW r \in Requests, Reconcile(r)
      PROVE  op' \in [Keys -> Operation]
  <2>1. \A k \in Keys : op[k].version < MaxLease
          => [Leased(op[k]) EXCEPT !.status = Retirement(op[k])] \in Operation
    BY Leasing, Restated DEF Retirement, Statuses, InFlight, RowTypes
  <2>. QED
    BY <1>8, <2>1 DEF Reconcile, MayRetire, RowTypes
<1>9. ASSUME NEW r \in Requests, Adopt(r)
      PROVE  op' \in [Keys -> Operation]
  BY <1>9, RecordTypes DEF Adopt, Keyed, At
<1>10. ASSUME NEW r \in Requests, Settle(r)
       PROVE  op' \in [Keys -> Operation]
  BY <1>10, Forgetting DEF Settle, Compensate, RowTypes
<1>11. ASSUME NEW w \in Workers, PurgeSettle(w)
       PROVE  op' \in [Keys -> Operation]
  <2>1. CASE worker[w].gone
    <3>1. worker[w].key \in Keys /\ op[worker[w].key] \in Operation
      BY <1>11 DEF PurgeSettle, Keyed, RowTypes
    <3>2. Compensate(worker[w].key)
      BY <1>11, <2>1 DEF PurgeSettle
    <3>. QED
      BY <3>1, <3>2, Forgetting DEF Compensate, RowTypes
  <2>2. CASE ~worker[w].gone
    BY <1>11, <2>2 DEF PurgeSettle, RowTypes
  <2>. QED
    BY <2>1, <2>2
<1>12. ASSUME NEW k \in Keys, AdmissionLapses(k) \/ LeaseLapses(k)
       PROVE  op' \in [Keys -> Operation]
  <2>1. CASE AdmissionLapses(k)
    BY <2>1, Restated DEF AdmissionLapses, Statuses, RowTypes
  <2>2. CASE LeaseLapses(k)
    BY <2>2, Lapsing DEF LeaseLapses, RowTypes
  <2>. QED
    BY <1>12, <2>1, <2>2
<1>13. ASSUME op' = op
       PROVE  op' \in [Keys -> Operation]
  BY <1>13 DEF RowTypes
<1>. QED
  BY <1>1, <1>2, <1>3, <1>4, <1>5, <1>6, <1>7, <1>8, <1>9, <1>10, <1>11, <1>12, <1>13, ZenonT(30)
     DEF Next, RequestSteps, RecoverySteps, PurgeSteps, WorldSteps, rows, outside, Start, Ends,
         Context, Upload, Verify, Fails, Unavailable, Receipt, Examine, Inspect, Remove,
         ClaimPurge, PurgeContext, PurgeRemove, WorkerEnds, JobLeaseLapses, CreateLands,
         RevokeSession, MidnightPasses

LEMMA JobTypes ==
  ASSUME RowTypes, Keyed, Rows, Next
  PROVE  job' \in [Keys -> Job]
<1>1. ASSUME NEW r \in Requests, Record(r)
      PROVE  job' \in [Keys -> Job]
  BY <1>1, RecordTypes DEF Record, Keyed, At
<1>2. ASSUME NEW r \in Requests, Reconcile(r)
      PROVE  job' \in [Keys -> Job]
  BY <1>2 DEF Reconcile, Enlist, RowTypes, Job
<1>3. ASSUME NEW r \in Requests, Adopt(r)
      PROVE  job' \in [Keys -> Job]
  BY <1>3, RecordTypes DEF Adopt, Keyed, At
<1>4. ASSUME NEW r \in Requests, Settle(r)
      PROVE  job' \in [Keys -> Job]
  <2>1. Compensate(request[r].key)
    BY <1>4 DEF Settle
  <2>. QED
    BY <2>1, JobRestated DEF Compensate, RowTypes
<1>5. ASSUME NEW w \in Workers, NEW k \in Keys, ClaimPurge(w, k)
      PROVE  job' \in [Keys -> Job]
  <2>1. CASE job[k].version = MaxPurge
    BY <1>5, <2>1 DEF ClaimPurge, RowTypes, Job
  <2>2. CASE job[k].version # MaxPurge
    <3>1. job[k].version + 1 \in 0 .. MaxPurge
      <4>1. job[k].version \in 0 .. MaxPurge
        BY DEF RowTypes, Job
      <4>. QED
        BY <2>2, <4>1, Bounds
    <3>. QED
      <4>1. [job[k] EXCEPT !.version = @ + 1, !.live = TRUE, !.status = "claimed"] \in Job
        BY <3>1 DEF RowTypes, Job
      <4>2. [Leased(job[k]) EXCEPT !.status = "claimed"] \in Job
        BY <4>1 DEF Leased, RowTypes, Job
      <4>. QED
        BY <1>5, <2>2, <4>2 DEF ClaimPurge, RowTypes
  <2>. QED
    BY <2>1, <2>2
<1>6. ASSUME NEW w \in Workers, PurgeSettle(w)
      PROVE  job' \in [Keys -> Job]
  <2>1. CASE worker[w].gone
    <3>1. worker[w].key \in Keys /\ job[worker[w].key] \in Job
      BY <1>6 DEF PurgeSettle, Keyed, RowTypes
    <3>2. Compensate(worker[w].key)
      BY <1>6, <2>1 DEF PurgeSettle
    <3>. QED
      BY <3>1, <3>2, JobRestated DEF Compensate, RowTypes
  <2>2. CASE ~worker[w].gone
    <3>1. [job[worker[w].key] EXCEPT !.live = FALSE,
             !.status = IF job[worker[w].key].version = MaxPurge THEN "blocked" ELSE "retry"]
            \in Job
      <4>1. job[worker[w].key] \in Job
        BY <1>6 DEF PurgeSettle, Keyed, RowTypes
      <4>2. \A row \in Job, s \in {"blocked", "retry"} :
              [row EXCEPT !.live = FALSE, !.status = s] \in Job
        BY DEF Job
      <4>. QED
        BY <4>1, <4>2
    <3>. QED
      BY <1>6, <2>2, <3>1 DEF PurgeSettle, RowTypes
  <2>. QED
    BY <2>1, <2>2
<1>7. ASSUME NEW k \in Keys, JobLeaseLapses(k)
      PROVE  job' \in [Keys -> Job]
  BY <1>7 DEF JobLeaseLapses, RowTypes, Job
<1>8. ASSUME job' = job
      PROVE  job' \in [Keys -> Job]
  BY <1>8 DEF RowTypes
<1>. QED
  BY <1>1, <1>2, <1>3, <1>4, <1>5, <1>6, <1>7, <1>8, ZenonT(30)
     DEF Next, RequestSteps, RecoverySteps, PurgeSteps, WorldSteps, rows, outside, Start, Ends,
         Admit, Begin, Claim, Reserve, Finalize, Release, AdmissionLapses, LeaseLapses,
         Context, Upload, Verify, Fails, Unavailable, Receipt, Examine, Inspect, Remove,
         PurgeContext, PurgeRemove, WorkerEnds, CreateLands, RevokeSession, MidnightPasses

LEMMA IdleIsOne == Idle \in Request /\ Resting \in Worker
  BY Bounds DEF Idle, Request, Resting, Worker

\* Where a request goes; Turn and Answer forget the claim on the way.
LEMMA MovesTyped ==
  ASSUME NEW r \in Requests, NEW where \in Stages, RowTypes, request[r].key \in Keys,
         Go(r, where) \/ Turn(r, where) \/ End(r)
  PROVE  request' \in [Requests -> Request]
<1>1. [Idle EXCEPT !.at = where, !.key = request[r].key] \in Request
  BY IdleIsOne DEF Request, Stages
<1>2. CASE Go(r, where)
  BY <1>2 DEF Go, RowTypes, Request, Stages
<1>3. CASE Turn(r, where) \/ End(r)
  BY <1>1, <1>3, IdleIsOne DEF Turn, End, RowTypes
<1>. QED
  BY <1>2, <1>3

LEMMA RequestTypes ==
  ASSUME RowTypes, Keyed, Next
  PROVE  request' \in [Requests -> Request]
<1>. USE DEF At
<1>k. ASSUME NEW r \in Requests, NEW k \in Keys, Start(r, k)
      PROVE  request' \in [Requests -> Request]
  <2>1. [Idle EXCEPT !.at = "admit", !.key = k] \in Request
    BY IdleIsOne DEF Request
  <2>. QED
    BY <1>k, <2>1 DEF Start, RowTypes
<1>1. ASSUME NEW r \in Requests, NEW where \in Stages, ~At(r, "idle"),
             Go(r, where) \/ Turn(r, where) \/ End(r)
      PROVE  request' \in [Requests -> Request]
  BY <1>1, MovesTyped DEF Keyed
<1>2. ASSUME NEW r \in Requests, Ends(r) \/ Admit(r) \/ Begin(r) \/ Reserve(r) \/ Verify(r)
      PROVE  request' \in [Requests -> Request]
  BY <1>1, <1>2 DEF Ends, Admit, Begin, Reserve, Verify, Answer, Stages
<1>3. ASSUME NEW r \in Requests, Claim(r)
      PROVE  request' \in [Requests -> Request]
  <2>. DEFINE k == request[r].key
              row == [request[r] EXCEPT !.at = "context", !.version = op[k].version + 1,
                                        !.stored = op[k].status = "provider_succeeded"]
  <2>1. CASE Answer(r)
    BY <1>1, <1>3, <2>1 DEF Claim, Answer, Stages
  <2>2. CASE ~Answer(r)
    <3>1. MayClaim(k) /\ request' = [request EXCEPT ![r] = row]
      BY <1>3, <2>2 DEF Claim
    <3>2. op[k] \in Operation /\ op[k].version < MaxLease
      BY <1>3, <3>1 DEF Claim, MayClaim, Keyed, RowTypes
    <3>3. op[k].version + 1 \in 0 .. MaxLease
      BY <3>2, Leasing
    <3>4. row \in Request
      <4>1. request[r] \in Request
        BY DEF RowTypes
      <4>2. \A v \in 0 .. MaxLease, s \in BOOLEAN :
              [request[r] EXCEPT !.at = "context", !.version = v, !.stored = s] \in Request
        BY <4>1 DEF Request
      <4>. QED
        BY <3>3, <4>2
    <3>. QED
      BY <3>1, <3>4 DEF RowTypes
  <2>. QED
    BY <2>1, <2>2
<1>4. ASSUME NEW r \in Requests, Context(r)
      PROVE  request' \in [Requests -> Request]
  <2>. DEFINE folder == op[request[r].key].folder
  <2>1. folder \in Days \cup {Nothing} /\ day \in Days
    BY <1>4 DEF Context, Keyed, RowTypes, Operation
  <2>2. request[r] \in Request
    BY DEF RowTypes
  <2>3. \A f \in Days \cup {Nothing}, w \in {"reserve", "finalize", "upload"} :
          [request[r] EXCEPT !.stored = FALSE, !.day = f, !.at = w] \in Request
    BY <2>2 DEF Request
  <2>4. PICK f \in Days \cup {Nothing}, w \in {"reserve", "finalize", "upload"} :
          request' = [request EXCEPT ![r] = [@ EXCEPT !.stored = FALSE, !.day = f, !.at = w]]
    BY <1>4, <2>1 DEF Context
  <2>. QED
    BY <2>3, <2>4 DEF RowTypes
<1>5. ASSUME NEW r \in Requests, Upload(r)
      PROVE  request' \in [Requests -> Request]
  <2>1. [request[r] EXCEPT !.at = "verify", !.day = Nothing] \in Request
    BY DEF RowTypes, Request
  <2>. QED
    BY <1>5, <2>1, SMTT(30) DEF Upload, RowTypes
<1>6. ASSUME NEW r \in Requests, Record(r) \/ Finalize(r) \/ Fails(r) \/ Receipt(r) \/ Release(r)
      PROVE  request' \in [Requests -> Request]
  BY <1>1, <1>6 DEF Record, Finalize, Fails, Receipt, Release, Answer, Stages
<1>7. ASSUME NEW r \in Requests, Unavailable(r)
      PROVE  request' \in [Requests -> Request]
  <2>1. [Idle EXCEPT !.at = "release", !.key = request[r].key, !.version = request[r].version]
          \in Request
    BY <1>7, IdleIsOne DEF Unavailable, Keyed, RowTypes, Request
  <2>. QED
    BY <1>7, <2>1 DEF Unavailable, RowTypes
<1>8. ASSUME NEW r \in Requests, Reconcile(r)
      PROVE  request' \in [Requests -> Request]
  <2>. DEFINE k == request[r].key
              row == [request[r] EXCEPT !.at = "examine", !.version = op[k].version + 1]
  <2>1. CASE Turn(r, "receipt")
    BY <1>1, <1>8, <2>1 DEF Reconcile, Stages
  <2>2. CASE ~Turn(r, "receipt")
    <3>1. MayRetire(k) /\ request' = [request EXCEPT ![r] = row]
      BY <1>8, <2>2 DEF Reconcile
    <3>2. op[k] \in Operation /\ op[k].version < MaxLease
      BY <1>8, <3>1 DEF Reconcile, MayRetire, Keyed, RowTypes
    <3>3. op[k].version + 1 \in 0 .. MaxLease
      BY <3>2, Leasing
    <3>4. row \in Request
      <4>1. request[r] \in Request
        BY DEF RowTypes
      <4>2. \A v \in 0 .. MaxLease :
              [request[r] EXCEPT !.at = "examine", !.version = v] \in Request
        BY <4>1 DEF Request
      <4>. QED
        BY <3>3, <4>2
    <3>. QED
      BY <3>1, <3>4 DEF RowTypes
  <2>. QED
    BY <2>1, <2>2
<1>9. ASSUME NEW r \in Requests, Examine(r) \/ Inspect(r) \/ Adopt(r) \/ Remove(r) \/ Settle(r)
      PROVE  request' \in [Requests -> Request]
  BY <1>1, <1>9 DEF Examine, Inspect, Adopt, Remove, Settle, Stages
<1>10. ASSUME request' = request
       PROVE  request' \in [Requests -> Request]
  BY <1>10 DEF RowTypes
<1>. QED
  BY <1>k, <1>2, <1>3, <1>4, <1>5, <1>6, <1>7, <1>8, <1>9, <1>10, ZenonT(30)
     DEF Next, RequestSteps, RecoverySteps, PurgeSteps, WorldSteps, ClaimPurge, PurgeContext,
         PurgeRemove, PurgeSettle, WorkerEnds, AdmissionLapses, LeaseLapses, JobLeaseLapses,
         CreateLands, RevokeSession, MidnightPasses

LEMMA WorkerTypes ==
  ASSUME RowTypes, Next
  PROVE  worker' \in [Workers -> Worker]
<1>1. ASSUME NEW w \in Workers, NEW k \in Keys, ClaimPurge(w, k)
      PROVE  worker' \in [Workers -> Worker]
  <2>1. CASE job[k].version = MaxPurge
    BY <1>1, <2>1 DEF ClaimPurge, RowTypes
  <2>2. CASE job[k].version # MaxPurge
    <3>1. job[k].version \in 0 .. MaxPurge
      BY DEF RowTypes, Job
    <3>2. job[k].version + 1 \in 0 .. MaxPurge
      BY <2>2, <3>1, Bounds
    <3>3. [Resting EXCEPT !.at = "context", !.key = k, !.version = job[k].version + 1] \in Worker
      BY <3>2, IdleIsOne DEF Worker
    <3>. QED
      BY <1>1, <2>2, <3>3 DEF ClaimPurge, RowTypes
  <2>. QED
    BY <2>1, <2>2
<1>2. ASSUME NEW w \in Workers, PurgeContext(w)
      PROVE  worker' \in [Workers -> Worker]
  BY <1>2 DEF PurgeContext, RowTypes, Worker
<1>3. ASSUME NEW w \in Workers, PurgeRemove(w)
      PROVE  worker' \in [Workers -> Worker]
  <2>1. \A gone \in BOOLEAN : [worker[w] EXCEPT !.at = "settle", !.gone = gone] \in Worker
    BY DEF RowTypes, Worker
  <2>. QED
    <3>1. PICK gone \in BOOLEAN :
            worker' = [worker EXCEPT ![w].at = "settle", ![w].gone = gone]
      BY <1>3 DEF PurgeRemove
    <3>. QED
      BY <2>1, <3>1 DEF RowTypes
<1>4. ASSUME NEW w \in Workers, PurgeSettle(w) \/ WorkerEnds(w)
      PROVE  worker' \in [Workers -> Worker]
  BY <1>4, IdleIsOne DEF PurgeSettle, WorkerEnds, RowTypes
<1>5. ASSUME worker' = worker
      PROVE  worker' \in [Workers -> Worker]
  BY <1>5 DEF RowTypes
<1>. QED
  BY <1>1, <1>2, <1>3, <1>4, <1>5, ZenonT(30)
     DEF Next, RequestSteps, RecoverySteps, PurgeSteps, WorldSteps, Start, Ends, Admit, Begin,
         Claim, Context, Reserve, Upload, Verify, Record, Finalize, Fails, Unavailable, Release,
         Receipt, Reconcile, Examine, Inspect, Adopt, Remove, Settle, AdmissionLapses,
         LeaseLapses, JobLeaseLapses, CreateLands, RevokeSession, MidnightPasses

LEMMA Erasing ==
  ASSUME NEW object \in Object
  PROVE  /\ Erased(object) \in Object /\ Erased(object).day = object.day
         /\ object.state # "none" => Erased(object).state = "erased"
         /\ object.state = "none" => Erased(object) = object
         /\ object.state = "erased" => Erased(object) = object
  BY DEF Erased, Object

LEMMA OutsideTypes ==
  ASSUME RowTypes, Keyed, Next
  PROVE  /\ drive' \in [Keys -> Object] /\ sent' \subseteq Keys
         /\ revoked' \subseteq Requests /\ day' \in Days
<1>. DEFINE Goal == /\ drive' \in [Keys -> Object] /\ sent' \subseteq Keys
                    /\ revoked' \subseteq Requests /\ day' \in Days
<1>1. ASSUME NEW r \in Requests, Upload(r)
      PROVE  Goal
  BY <1>1 DEF Upload, RowTypes, Keyed, At
<1>2. ASSUME NEW r \in Requests, Remove(r)
      PROVE  Goal
  BY <1>2, Erasing DEF Remove, RowTypes
<1>3. ASSUME NEW w \in Workers, PurgeRemove(w)
      PROVE  Goal
  <2>1. worker[w].key \in Keys /\ drive[worker[w].key] \in Object
    BY <1>3 DEF PurgeRemove, RowTypes, Keyed
  <2>. QED
    BY <1>3, <2>1, Erasing DEF PurgeRemove, RowTypes
<1>4. ASSUME NEW k \in Keys, CreateLands(k)
      PROVE  Goal
  <2>1. [state |-> "stored", day |-> day] \in Object
    BY DEF RowTypes, Object
  <2>. QED
    BY <1>4, <2>1 DEF CreateLands, RowTypes
<1>5. ASSUME NEW r \in Requests, RevokeSession(r)
      PROVE  Goal
  BY <1>5 DEF RevokeSession, RowTypes
<1>6. CASE MidnightPasses
  <2>1. day + 1 \in Days
    BY <1>6, Bounds DEF MidnightPasses, MoreMayHappen, RowTypes, Days
  <2>. QED
    BY <1>6, <2>1 DEF MidnightPasses, RowTypes
<1>7. CASE UNCHANGED outside
  BY <1>7 DEF outside, RowTypes
<1>. QED
  BY <1>1, <1>2, <1>3, <1>4, <1>5, <1>6, <1>7, ZenonT(30)
     DEF Next, RequestSteps, RecoverySteps, PurgeSteps, WorldSteps, Start, Ends, Admit, Begin,
         Claim, Context, Reserve, Verify, Record, Finalize, Fails, Unavailable, Release,
         Receipt, Reconcile, Examine, Inspect, Adopt, Settle, ClaimPurge, PurgeContext,
         PurgeSettle, WorkerEnds, AdmissionLapses, LeaseLapses, JobLeaseLapses

(***************************************************************************)
(* The rows and the drive                                                  *)
(***************************************************************************)
LEMMA AlikeMoves ==
  ASSUME NEW k \in Keys, KeyOK(k), LedgerOK(k), Alike(k)
  PROVE  Moves(k) /\ (op'[k].status = "accepted" <=> op[k].status = "accepted")
  BY DEF KeyOK, LedgerOK, Alike, Moves, Advances

LEMMA StatusOf ==
  ASSUME RowTypes, NEW k \in Keys
  PROVE  /\ op[k] \in Operation /\ op[k].status \in Statuses
         /\ job[k] \in Job
         /\ job[k].status \in {"none", "pending", "claimed", "retry", "blocked", "purged"}
         /\ drive[k] \in Object /\ drive[k].state \in {"none", "stored", "erased"}
         /\ drive[k].day \in Days /\ drive[k].day # Nothing
  BY DayIsSomething DEF RowTypes, Operation, Statuses, Job, Object

\* Where a file's name comes from: the object is there, so the row may be named.
LEMMA RecordMoves ==
  ASSUME RowTypes, Rows, NEW k \in Keys, NEW r \in Requests, request[r].key = k,
         drive[k].state # "none", RecordStands(r), RecordSuccess(r),
         UNCHANGED <<revision, drive, sent>>
  PROVE  Steady
<1>1. CASE op[k].uploaded # Nothing
  BY <1>1, AlikeMoves DEF RecordSuccess, Rows, Steady, Alike
<1>2. CASE op[k].uploaded = Nothing
  <2>1. op[k].status \in Open \cup {"reconciliation_pending"}
    BY <1>2, StatusOf DEF RecordStands
  <2>2. /\ op'[k].uploaded = drive[k].day /\ op'[k].status = AfterUpload(op[k].status)
        /\ \A j \in Keys \ {k} : op'[j] = op[j]
    BY <1>2, StatusOf DEF RecordSuccess, RowTypes, Operation
  <2>3. /\ op[k].status = "reconciliation_pending" => Enlist(k)
        /\ op[k].status # "reconciliation_pending" => job' = job
    BY <1>2 DEF RecordSuccess
  <2>4. job[k].status = "none"
    BY <2>1, StatusOf DEF Rows, LedgerOK, Open
  <2>5. /\ op[k].status = "reconciliation_pending" => job'[k].status = "pending"
        /\ op[k].status # "reconciliation_pending" => job'[k].status = "none"
        /\ \A j \in Keys \ {k} : job'[j] = job[j]
    BY <2>3, <2>4, StatusOf DEF Enlist, RowTypes, Job
  <2>6. ASSUME NEW j \in Keys \ {k}
        PROVE  Moves(j) /\ (op'[j].status = "accepted" <=> op[j].status = "accepted")
    BY <2>2, <2>5, AlikeMoves DEF Rows, Alike
  <2>7. drive[k].state = "stored"
    BY <2>1, StatusOf DEF Rows, KeyOK, Open, Doomed
  <2>8. Moves(k) /\ (op'[k].status = "accepted" <=> op[k].status = "accepted")
    BY <2>1, <2>2, <2>5, <2>7, StatusOf
       DEF Rows, KeyOK, LedgerOK, Moves, Advances, AfterUpload, Named, Doomed, Begun, Open,
           InFlight
  <2>. QED
    BY <2>6, <2>8 DEF Steady
<1>. QED
  BY <1>1, <1>2

\* Both ends of a compensation find the file deleted.
LEMMA CompensateMoves ==
  ASSUME RowTypes, Rows, NEW k \in Keys, Compensate(k), op[k].status \in Doomed,
         drive[k].state = "erased", UNCHANGED <<revision, drive, sent>>
  PROVE  Steady
<1>1. /\ op'[k].uploaded = Nothing /\ op'[k].status = "compensated"
      /\ \A j \in Keys \ {k} : op'[j] = op[j]
  BY StatusOf DEF Compensate, RowTypes, Operation
<1>2. job'[k].status = "purged" /\ \A j \in Keys \ {k} : job'[j] = job[j]
  BY StatusOf DEF Compensate, RowTypes, Job
<1>3. ASSUME NEW j \in Keys \ {k}
      PROVE  Moves(j) /\ (op'[j].status = "accepted" <=> op[j].status = "accepted")
  BY <1>1, <1>2, <1>3, AlikeMoves DEF Rows, Alike
<1>4. Moves(k) /\ (op'[k].status = "accepted" <=> op[k].status = "accepted")
  BY <1>1, <1>2 DEF Rows, KeyOK, LedgerOK, Moves, Advances, Named, Doomed, Begun, InFlight
<1>. QED
  BY <1>3, <1>4 DEF Steady

\* A file goes only when its row was given up.
LEMMA EraseMoves ==
  ASSUME RowTypes, Rows, NEW k \in Keys, op[k].status \in Doomed,
         drive' = [drive EXCEPT ![k] = Erased(@)] \/ drive' = drive,
         UNCHANGED <<op, revision, job, sent>>
  PROVE  Steady /\ (drive' # drive => drive'[k].state = "erased")
<1>1. drive[k].state # "none"
  BY DEF Rows, KeyOK, Doomed, Named
<1>2. CASE drive' = [drive EXCEPT ![k] = Erased(@)]
  <2>1. /\ drive'[k].state = "erased" /\ drive'[k].day = drive[k].day
        /\ \A j \in Keys \ {k} : drive'[j] = drive[j]
    BY <1>1, <1>2, StatusOf, Erasing DEF RowTypes
  <2>2. ASSUME NEW j \in Keys \ {k}
        PROVE  Moves(j)
    BY <2>1, AlikeMoves DEF Rows, Alike
  <2>3. Moves(k)
    BY <1>1, <2>1 DEF Rows, KeyOK, LedgerOK, Moves, Advances, Doomed
  <2>. QED
    BY <2>1, <2>2, <2>3 DEF Steady
<1>3. CASE drive' = drive
  BY <1>3, AlikeMoves DEF Rows, Alike, Steady
<1>. QED
  BY <1>2, <1>3

LEMMA RowsStep ==
  ASSUME RowTypes, Rows, Places, Sites, Next, \A r \in Requests : ~Finalize(r)
  PROVE  Steady
<1>k. Keyed
  BY DEF Keyed, Places, Placed, Sites, Sited
<1>l. (\A k \in Keys : Alike(k)) /\ revision' = revision => Steady
  BY AlikeMoves DEF Rows, Steady
<1>1. ASSUME NEW r \in Requests, Admit(r)
      PROVE  Steady
  <2>k. PICK k \in Keys : k = request[r].key
    BY <1>k, <1>1 DEF Admit, Keyed, At
  <2>1. k \in Keys /\ UNCHANGED <<revision, job, drive, sent>>
    BY <1>k, <1>1, <2>k DEF Admit, Keyed, At, outside
  <2>2. CASE op[k].status # "none"
    BY <1>1, <2>k, <1>l, <2>1, <2>2 DEF Admit, Alike
  <2>3. CASE op[k].status = "none"
    <3>1. /\ op'[k].status = "admitted" /\ op'[k].uploaded = op[k].uploaded
          /\ \A j \in Keys \ {k} : op'[j] = op[j]
      BY <1>1, <2>k, <2>1, <2>3, StatusOf DEF Admit, RowTypes, Operation
    <3>2. ASSUME NEW j \in Keys \ {k}
          PROVE  Moves(j) /\ (op'[j].status = "accepted" <=> op[j].status = "accepted")
      BY <2>1, <3>1, AlikeMoves DEF Rows, Alike
    <3>3. Moves(k) /\ (op'[k].status = "accepted" <=> op[k].status = "accepted")
      BY <2>1, <2>3, <3>1 DEF Rows, KeyOK, LedgerOK, Moves, Advances, Named, Doomed, Begun, InFlight
    <3>. QED
      BY <2>1, <3>2, <3>3 DEF Steady
  <2>. QED
    BY <2>2, <2>3
<1>2. ASSUME NEW r \in Requests, Begin(r)
      PROVE  Steady
  <2>k. PICK k \in Keys : k = request[r].key
    BY <1>k, <1>2 DEF Begin, Keyed, At
  <2>1. k \in Keys /\ UNCHANGED <<revision, job, drive, sent>>
    BY <1>k, <1>2, <2>k DEF Begin, Keyed, At, outside
  <2>2. CASE op[k].status # "admitted"
    BY <1>2, <2>k, <1>l, <2>1, <2>2 DEF Begin, Alike
  <2>3. CASE op[k].status = "admitted"
    <3>1. /\ op'[k].status = "reserved" /\ op'[k].uploaded = op[k].uploaded
          /\ \A j \in Keys \ {k} : op'[j] = op[j]
      BY <1>2, <2>k, <2>1, <2>3, StatusOf DEF Begin, RowTypes, Operation
    <3>2. ASSUME NEW j \in Keys \ {k}
          PROVE  Moves(j) /\ (op'[j].status = "accepted" <=> op[j].status = "accepted")
      BY <2>1, <3>1, AlikeMoves DEF Rows, Alike
    <3>3. Moves(k) /\ (op'[k].status = "accepted" <=> op[k].status = "accepted")
      BY <2>1, <2>3, <3>1 DEF Rows, KeyOK, LedgerOK, Moves, Advances, Named, Doomed, Begun, InFlight
    <3>. QED
      BY <2>1, <3>2, <3>3 DEF Steady
  <2>. QED
    BY <2>2, <2>3
<1>3. ASSUME NEW r \in Requests, Claim(r) \/ Release(r)
      PROVE  Steady
  <2>1. request[r].key \in Keys /\ UNCHANGED <<revision, job, drive, sent>>
    BY <1>k, <1>3 DEF Claim, Release, Keyed, At, outside
  <2>2. \A k \in Keys : op'[k].status = op[k].status /\ op'[k].uploaded = op[k].uploaded
                        /\ op'[k].folder = op[k].folder
    <3>1. CASE Claim(r)
      BY <2>1, <3>1, StatusOf, Leasing DEF Claim, MayClaim, RowTypes
    <3>2. CASE Release(r)
      BY <2>1, <3>2, StatusOf DEF Release, RowTypes, Operation
    <3>. QED
      BY <1>3, <3>1, <3>2
  <2>. QED
    BY <1>l, <2>1, <2>2 DEF Alike
<1>4. ASSUME NEW r \in Requests, Reserve(r)
      PROVE  Steady
  <2>k. PICK k \in Keys : k = request[r].key
    BY <1>k, <1>4 DEF Reserve, Keyed, At
  <2>1. k \in Keys /\ op[k].status \in Open /\ UNCHANGED <<revision, job, drive, sent>>
    BY <1>k, <1>4, <2>k DEF Reserve, ContextStands, Keyed, At, outside
  <2>2. /\ op'[k].status = op[k].status /\ op'[k].uploaded = op[k].uploaded
        /\ \A j \in Keys \ {k} : op'[j] = op[j]
    BY <1>4, <2>k, <2>1, StatusOf DEF Reserve, RowTypes, Operation
  <2>3. ASSUME NEW j \in Keys \ {k}
        PROVE  Moves(j) /\ (op'[j].status = "accepted" <=> op[j].status = "accepted")
    BY <2>1, <2>2, AlikeMoves DEF Rows, Alike
  <2>4. Moves(k) /\ (op'[k].status = "accepted" <=> op[k].status = "accepted")
    BY <2>1, <2>2 DEF Rows, KeyOK, LedgerOK, Moves, Advances, Open
  <2>. QED
    BY <2>1, <2>3, <2>4 DEF Steady
<1>5. ASSUME NEW r \in Requests, Upload(r)
      PROVE  Steady
  <2>k. PICK k \in Keys : k = request[r].key
    BY <1>k, <1>5 DEF Upload, Keyed, At
  <2>1. /\ k \in Keys /\ op[k].status \in Begun
        /\ UNCHANGED <<op, revision, job, drive>> /\ sent' = sent \cup {k}
    BY <1>k, <1>5, <2>k DEF Upload, Keyed, Places, Placed, Fits, At, rows
  <2>2. \A j \in Keys : Moves(j)
    BY <2>1 DEF Rows, KeyOK, LedgerOK, Moves, Advances
  <2>. QED
    BY <2>1, <2>2 DEF Steady
<1>6. ASSUME NEW r \in Requests, Record(r) \/ Adopt(r)
      PROVE  Steady
  <2>1. /\ request[r].key \in Keys /\ drive[request[r].key].state # "none"
        /\ RecordStands(r) /\ RecordSuccess(r) /\ UNCHANGED <<revision, drive, sent>>
    BY <1>k, <1>6 DEF Record, Adopt, Keyed, Places, Placed, Fits, At, outside
  <2>. QED
    BY <2>1, RecordMoves
<1>7. ASSUME NEW r \in Requests, Reconcile(r)
      PROVE  Steady
  <2>k. PICK k \in Keys : k = request[r].key
    BY <1>k, <1>7 DEF Reconcile, Keyed, At
  <2>1. k \in Keys /\ UNCHANGED <<revision, drive, sent>>
    BY <1>k, <1>7, <2>k DEF Reconcile, Keyed, At, outside
  <2>2. CASE op[k].status = "accepted"
    BY <1>7, <2>k, <1>l, <2>1, <2>2 DEF Reconcile, Alike, MayRetire, InFlight
  <2>3. CASE op[k].status # "accepted"
    <3>1. /\ op[k].status \in InFlight
          /\ op' = [op EXCEPT ![k] = [Leased(@) EXCEPT !.status = Retirement(op[k])]]
          /\ IF op[k].uploaded # Nothing THEN Enlist(k) ELSE UNCHANGED job
      BY <1>7, <2>k, <2>3 DEF Reconcile, MayRetire
    <3>2. /\ op'[k].status = Retirement(op[k]) /\ op'[k].uploaded = op[k].uploaded
          /\ \A j \in Keys \ {k} : op'[j] = op[j]
      BY <2>1, <3>1, StatusOf DEF Leased, RowTypes, Operation
    <3>3. \A j \in Keys \ {k} : job'[j] = job[j]
      BY <3>1, StatusOf DEF Enlist, RowTypes
    <3>4. /\ op[k].uploaded = Nothing => job'[k] = job[k]
          /\ op[k].uploaded # Nothing /\ job[k].status = "none" => job'[k].status = "pending"
          /\ op[k].uploaded # Nothing /\ job[k].status # "none" => job'[k].status = job[k].status
      BY <2>1, <3>1, StatusOf DEF Enlist, RowTypes, Job
    <3>5. ASSUME NEW j \in Keys \ {k}
          PROVE  Moves(j) /\ (op'[j].status = "accepted" <=> op[j].status = "accepted")
      BY <2>1, <3>2, <3>3, AlikeMoves DEF Rows, Alike
    <3>6. KeyOK(k)' /\ Advances(k) /\ op'[k].status # "accepted" /\ op[k].status # "accepted"
      BY <2>1, <2>3, <3>1, <3>2
         DEF Rows, KeyOK, Advances, Retirement, Named, Doomed, Begun, InFlight
    <3>7. LedgerOK(k)'
      BY <2>1, <3>1, <3>2, <3>4, StatusOf DEF Rows, KeyOK, LedgerOK, Retirement, Named, InFlight
    <3>. QED
      BY <2>1, <3>5, <3>6, <3>7 DEF Steady, Moves
  <2>. QED
    BY <2>2, <2>3
<1>8. ASSUME NEW r \in Requests, Remove(r)
      PROVE  Steady
  <2>1. /\ request[r].key \in Keys /\ op[request[r].key].status \in Doomed
        /\ drive' = [drive EXCEPT ![request[r].key] = Erased(@)]
        /\ UNCHANGED <<op, revision, job, sent>>
    BY <1>k, <1>8 DEF Remove, Keyed, Places, Placed, Fits, At, rows
  <2>. QED
    BY <2>1, EraseMoves
<1>9. ASSUME NEW r \in Requests, Settle(r)
      PROVE  Steady
  <2>1. /\ request[r].key \in Keys /\ op[request[r].key].status \in Doomed
        /\ drive[request[r].key].state = "erased" /\ Compensate(request[r].key)
        /\ UNCHANGED <<revision, drive, sent>>
    BY <1>k, <1>9 DEF Settle, Keyed, Places, Placed, Fits, At, outside
  <2>. QED
    BY <2>1, CompensateMoves
<1>10. ASSUME NEW w \in Workers, NEW k \in Keys, ClaimPurge(w, k)
       PROVE  Steady
  <2>1. UNCHANGED <<op, revision, drive, sent>>
    BY <1>10 DEF ClaimPurge, outside
  <2>2. \A j \in Keys \ {k} : job'[j] = job[j]
    BY <1>10, StatusOf DEF ClaimPurge, RowTypes
  <2>3. job'[k].status \in {"blocked", "claimed"}
    <3>1. CASE job[k].version = MaxPurge
      BY <1>10, <3>1, StatusOf DEF ClaimPurge, RowTypes, Job
    <3>2. CASE job[k].version # MaxPurge
      <4>1. job' = [job EXCEPT ![k] = [Leased(@) EXCEPT !.status = "claimed"]]
        BY <1>10, <3>2 DEF ClaimPurge
      <4>. QED
        BY <4>1, StatusOf DEF Leased, RowTypes, Job
    <3>. QED
      BY <3>1, <3>2
  <2>4. job[k].status \in {"pending", "claimed", "retry"}
    BY <1>10 DEF ClaimPurge
  <2>5. ASSUME NEW j \in Keys \ {k}
        PROVE  Moves(j)
    BY <2>1, <2>2, AlikeMoves DEF Rows, Alike
  <2>6. Moves(k)
    BY <2>1, <2>3, <2>4 DEF Rows, KeyOK, LedgerOK, Moves, Advances
  <2>. QED
    BY <2>1, <2>5, <2>6 DEF Steady
<1>11. ASSUME NEW w \in Workers, PurgeRemove(w)
       PROVE  Steady
  <2>1. /\ worker[w].key \in Keys /\ op[worker[w].key].status \in Doomed
        /\ UNCHANGED <<op, revision, job, sent>>
    BY <1>k, <1>11 DEF PurgeRemove, Keyed, Sites, Sited, rows
  <2>2. drive' = [drive EXCEPT ![worker[w].key] = Erased(@)] \/ drive' = drive
    <3>1. PICK after \in {drive[worker[w].key], Erased(drive[worker[w].key])} :
            drive' = [drive EXCEPT ![worker[w].key] = after]
      BY <1>11 DEF PurgeRemove
    <3>. QED
      BY <2>1, <3>1 DEF RowTypes
  <2>. QED
    BY <2>1, <2>2, EraseMoves
<1>12. ASSUME NEW w \in Workers, PurgeSettle(w)
       PROVE  Steady
  <2>k. PICK k \in Keys : k = worker[w].key
    BY <1>k, <1>12 DEF PurgeSettle, Keyed
  <2>1. /\ k \in Keys /\ op[k].status = "compensation_pending" /\ job[k].status = "claimed"
        /\ UNCHANGED <<revision, drive, sent>>
    BY <1>k, <1>12, <2>k DEF PurgeSettle, JobStands, Keyed, outside
  <2>2. CASE worker[w].gone
    <3>1. drive[k].state = "erased" /\ Compensate(k)
      BY <1>12, <2>k, <2>1, <2>2 DEF PurgeSettle, Sites, Sited
    <3>. QED
      BY <2>1, <3>1, CompensateMoves DEF Doomed
  <2>3. CASE ~worker[w].gone
    <3>1. /\ op' = op /\ job'[k].status \in {"blocked", "retry"}
          /\ \A j \in Keys \ {k} : job'[j] = job[j]
      BY <1>12, <2>k, <2>1, <2>3, StatusOf DEF PurgeSettle, RowTypes, Job
    <3>2. ASSUME NEW j \in Keys \ {k}
          PROVE  Moves(j)
      BY <2>1, <3>1, AlikeMoves DEF Rows, Alike
    <3>3. Moves(k)
      BY <2>1, <3>1 DEF Rows, KeyOK, LedgerOK, Moves, Advances
    <3>. QED
      BY <2>1, <3>1, <3>2, <3>3 DEF Steady
  <2>. QED
    BY <2>2, <2>3
<1>13. ASSUME NEW k \in Keys, AdmissionLapses(k)
       PROVE  Steady
  <2>1. /\ op[k].status = "admitted" /\ UNCHANGED <<revision, job, drive, sent>>
    BY <1>13 DEF AdmissionLapses, outside
  <2>2. /\ op'[k].status = "lapsed" /\ op'[k].uploaded = op[k].uploaded
        /\ \A j \in Keys \ {k} : op'[j] = op[j]
    BY <1>13, StatusOf DEF AdmissionLapses, RowTypes, Operation
  <2>3. ASSUME NEW j \in Keys \ {k}
        PROVE  Moves(j) /\ (op'[j].status = "accepted" <=> op[j].status = "accepted")
    BY <2>1, <2>2, AlikeMoves DEF Rows, Alike
  <2>4. Moves(k) /\ (op'[k].status = "accepted" <=> op[k].status = "accepted")
    BY <2>1, <2>2 DEF Rows, KeyOK, LedgerOK, Moves, Advances, Named, Doomed, Begun, InFlight
  <2>. QED
    BY <2>1, <2>3, <2>4 DEF Steady
<1>14. ASSUME NEW k \in Keys, LeaseLapses(k)
       PROVE  Steady
  <2>1. \A j \in Keys : op'[j].status = op[j].status /\ op'[j].uploaded = op[j].uploaded
                        /\ op'[j].folder = op[j].folder
    BY <1>14, StatusOf DEF LeaseLapses, RowTypes, Operation
  <2>. QED
    BY <1>l, <1>14, <2>1 DEF LeaseLapses, Alike, outside
<1>15. ASSUME NEW k \in Keys, JobLeaseLapses(k)
       PROVE  Steady
  <2>1. \A j \in Keys : job'[j].status = job[j].status
    BY <1>15, StatusOf DEF JobLeaseLapses, RowTypes, Job
  <2>. QED
    BY <1>l, <1>15, <2>1 DEF JobLeaseLapses, Alike, outside
<1>16. ASSUME NEW k \in Keys, CreateLands(k)
       PROVE  Steady
  <2>1. k \in sent /\ drive[k].state = "none" /\ UNCHANGED <<op, revision, job, sent>>
    BY <1>16 DEF CreateLands, rows
  <2>2. drive'[k].state = "stored" /\ \A j \in Keys \ {k} : drive'[j] = drive[j]
    BY <1>16 DEF CreateLands, RowTypes
  <2>3. ASSUME NEW j \in Keys \ {k}
        PROVE  Moves(j)
    BY <2>1, <2>2, AlikeMoves DEF Rows, Alike
  <2>4. Moves(k)
    BY <2>1, <2>2 DEF Rows, KeyOK, LedgerOK, Moves, Advances
  <2>. QED
    BY <2>1, <2>3, <2>4 DEF Steady
<1>17. ASSUME UNCHANGED <<op, revision, job, drive, sent>>
       PROVE  Steady
  BY <1>l, <1>17 DEF Alike
<1>. QED
  BY <1>1, <1>2, <1>3, <1>4, <1>5, <1>6, <1>7, <1>8, <1>9, <1>10, <1>11, <1>12, <1>13, <1>14,
     <1>15, <1>16, <1>17
     DEF Next, RequestSteps, RecoverySteps, PurgeSteps, WorldSteps, rows, outside, Start, Ends,
         Context, Verify, Fails, Unavailable, Receipt, Examine, Inspect, PurgeContext,
         WorkerEnds, RevokeSession, MidnightPasses

\* An acceptance, the one step that counts: the file is there, in its day's folder.
LEMMA FinalizeStep ==
  ASSUME RowTypes, Rows, Places, Sites, Counted, NEW r \in Requests, Finalize(r)
  PROVE  Rows' /\ (\A k \in Keys : Advances(k)) /\ Counted'
<1>k. PICK k \in Keys : k = request[r].key
  BY DEF Finalize, Places, Placed, At
<1>1. UNCHANGED <<job, drive, sent>>
  BY DEF Finalize, outside
<1>2. CASE op[k].status = "accepted"
  <2>1. op' = op /\ revision' = revision
    BY <1>k, <1>2 DEF Finalize
  <2>2. \A j \in Keys : Moves(j)
    BY <1>1, <2>1, AlikeMoves DEF Rows, Alike
  <2>. QED
    BY <2>1, <2>2 DEF Rows, Moves, Counted, Accepted
<1>3. CASE op[k].status # "accepted"
  <2>1. /\ op[k].status = "provider_succeeded" /\ op[k].uploaded \in {Nothing, op[k].folder}
        /\ op' = [op EXCEPT ![k].status = "accepted"] /\ revision' = revision + 1
    BY <1>k, <1>3 DEF Finalize, FinalizeStands
  <2>2. /\ op'[k].status = "accepted" /\ op'[k].uploaded = op[k].uploaded
        /\ op'[k].folder = op[k].folder /\ \A j \in Keys \ {k} : op'[j] = op[j]
    BY <2>1, StatusOf DEF RowTypes, Operation
  <2>3. op[k].folder = op[k].uploaded
    BY <2>1 DEF Rows, KeyOK, Named
  <2>4. ASSUME NEW j \in Keys \ {k}
        PROVE  Moves(j)
    BY <1>1, <2>2, AlikeMoves DEF Rows, Alike
  <2>5. Moves(k)
    BY <1>1, <2>1, <2>2, <2>3
       DEF Rows, KeyOK, LedgerOK, Moves, Advances, Named, Doomed, Begun, InFlight
  <2>6. Accepted' = Accepted \cup {k} /\ k \notin Accepted
    BY <2>1, <2>2 DEF Accepted
  <2>7. IsFiniteSet(Accepted)
    BY KeysAreFinite, FS_Subset DEF Accepted
  <2>8. Counted'
    BY <2>1, <2>6, <2>7, FS_AddElement DEF Counted
  <2>. QED
    BY <2>4, <2>5, <2>8 DEF Rows, Moves
<1>. QED
  BY <1>2, <1>3

\* Rows, their history and the count, for every step.
LEMMA RowsAndCount ==
  ASSUME RowTypes, Rows, Places, Sites, Counted, Next
  PROVE  Rows' /\ (\A k \in Keys : Advances(k)) /\ Counted'
<1>1. CASE \E r \in Requests : Finalize(r)
  BY <1>1, FinalizeStep
<1>2. CASE \A r \in Requests : ~Finalize(r)
  <2>1. Steady
    BY <1>2, RowsStep
  <2>2. Accepted' = Accepted
    BY <2>1 DEF Steady, Accepted
  <2>. QED
    BY <2>1, <2>2 DEF Steady, Moves, Rows, Counted
<1>. QED
  BY <1>1, <1>2

(***************************************************************************)
(* The places of the actors                                                *)
(***************************************************************************)
LEMMA Arrives ==
  ASSUME Places, \A k \in Keys : Advances(k), NEW r \in Requests, NEW k \in Keys,
         \A q \in Requests \ {r} : request'[q] = request[q],
         request'[r].at # "idle" => request'[r].key = k /\ Fits(request[r].at, k)'
  PROVE  Places'
<1>1. ASSUME NEW q \in Requests \ {r}
      PROVE  Placed(q)'
  BY DEF Places, Placed, Fits, At, Advances
<1>2. Placed(r)'
  BY DEF Placed, At
<1>. QED
  BY <1>1, <1>2 DEF Places

\* Most steps of an upload take it to a place that asks for nothing but its row.
Plain == {"claim", "context", "reserve", "upload", "verify", "finalize", "release",
          "receipt", "reconcile", "examine", "inspect", "accepted"}

LEMMA GoesOn ==
  ASSUME RowTypes, Places, \A k \in Keys : Advances(k), NEW r \in Requests,
         request[r].at \notin {"idle", "admit", "begin"},
         NEW row, request' = [request EXCEPT ![r] = row],
         row.at = "idle" \/ (row.at \in Plain /\ row.key = request[r].key)
  PROVE  Places'
<1>k. PICK k \in Keys : k = request[r].key
  BY DEF Places, Placed, At
<1>1. request'[r] = row /\ \A q \in Requests \ {r} : request'[q] = request[q]
  BY DEF RowTypes
<1>2. op'[k].status \in Begun
  BY <1>k DEF Places, Placed, Fits, At, Advances
<1>3. request'[r].at # "idle" => request'[r].key = k /\ Fits(request[r].at, k)'
  BY <1>k, <1>1, <1>2 DEF Fits, Plain
<1>. QED
  BY <1>1, <1>3, Arrives

LEMMA PlacesStep ==
  ASSUME RowTypes, Rows, Places, Sites, \A k \in Keys : Advances(k), Next
  PROVE  Places'
<1>k. ASSUME NEW r \in Requests, ~At(r, "idle")
      PROVE  \E k \in Keys : k = request[r].key /\ Fits(request[r].at, k)
  BY <1>k DEF Places, Placed, At
<1>w. ASSUME NEW r \in Requests, NEW where \in Plain,
             request[r].at \notin {"idle", "admit", "begin"},
             Go(r, where) \/ Turn(r, where)
      PROVE  Places'
  <2>1. CASE Go(r, where)
    <3>1. request[r] \in Request
      BY DEF RowTypes
    <3>2. /\ [request[r] EXCEPT !.at = where].at = where
          /\ [request[r] EXCEPT !.at = where].key = request[r].key
      BY <3>1 DEF Request
    <3>. QED
      BY <1>w, <2>1, <3>2, GoesOn DEF Go
  <2>2. CASE Turn(r, where)
    <3>1. /\ [Idle EXCEPT !.at = where, !.key = request[r].key].at = where
          /\ [Idle EXCEPT !.at = where, !.key = request[r].key].key = request[r].key
      BY IdleIsOne DEF Request
    <3>. QED
      BY <1>w, <2>2, <3>1, GoesOn DEF Turn
  <2>. QED
    BY <1>w, <2>1, <2>2
<1>e. ASSUME NEW r \in Requests, ~At(r, "idle"), End(r)
      PROVE  Places'
  <2>1. request'[r].at = "idle" /\ \A q \in Requests \ {r} : request'[q] = request[q]
    BY <1>e DEF End, Idle, RowTypes
  <2>2. PICK k \in Keys : k = request[r].key
    BY <1>e, <1>k
  <2>. QED
    BY <2>1, <2>2, Arrives
<1>g. ASSUME NEW r \in Requests, NEW where, Go(r, where)
      PROVE  /\ request'[r].at = where /\ request'[r].key = request[r].key
             /\ \A q \in Requests \ {r} : request'[q] = request[q]
  BY <1>g DEF Go, RowTypes, Request
<1>1. ASSUME NEW r \in Requests, NEW k \in Keys, Start(r, k)
      PROVE  Places'
  <2>1. /\ request'[r].at = "admit" /\ request'[r].key = k
        /\ \A q \in Requests \ {r} : request'[q] = request[q]
    BY <1>1, IdleIsOne DEF Start, RowTypes, Request
  <2>2. Fits(request[r].at, k)'
    BY <2>1 DEF Fits
  <2>. QED
    BY <2>1, <2>2, Arrives
<1>2. ASSUME NEW r \in Requests, Ends(r)
      PROVE  Places'
  BY <1>2, <1>e DEF Ends
<1>3. ASSUME NEW r \in Requests, Admit(r)
      PROVE  Places'
  <2>1. PICK k \in Keys : k = request[r].key
    BY <1>3, <1>k DEF Admit, At
  <2>2. Go(r, "begin") /\ op'[k].status # "none"
    BY <1>3, <2>1, StatusOf DEF Admit, RowTypes, Operation
  <2>3. Fits(request[r].at, k)'
    BY <2>2, <1>g DEF Fits
  <2>. QED
    BY <1>g, <2>1, <2>2, <2>3, Arrives
<1>4. ASSUME NEW r \in Requests, Begin(r)
      PROVE  Places'
  <2>1. PICK k \in Keys : k = request[r].key /\ op[k].status # "none"
    BY <1>4, <1>k DEF Begin, At, Fits
  <2>2. op'[k].status \in Begun
    <3>1. CASE op[k].status = "admitted"
      BY <1>4, <2>1, <3>1, StatusOf DEF Begin, RowTypes, Operation, Begun, InFlight
    <3>2. CASE op[k].status # "admitted"
      BY <1>4, <2>1, <3>2, StatusOf DEF Begin, Begun, Statuses
    <3>. QED
      BY <3>1, <3>2
  <2>3. /\ request'[r].at \in {"claim", "accepted"} /\ request'[r].key = k
        /\ \A q \in Requests \ {r} : request'[q] = request[q]
    <3>1. CASE Go(r, "claim")
      BY <2>1, <3>1, <1>g
    <3>2. CASE Turn(r, "accepted")
      BY <2>1, <3>2, IdleIsOne DEF Turn, RowTypes, Request
    <3>. QED
      BY <1>4, <3>1, <3>2 DEF Begin, Answer
  <2>4. Fits(request[r].at, k)'
    BY <2>2, <2>3 DEF Fits
  <2>. QED
    BY <2>3, <2>4, Arrives
<1>5. ASSUME NEW r \in Requests, Claim(r)
      PROVE  Places'
  <2>. DEFINE row == [request[r] EXCEPT !.at = "context",
                        !.version = op[request[r].key].version + 1,
                        !.stored = op[request[r].key].status = "provider_succeeded"]
  <2>1. CASE Answer(r)
    BY <1>5, <1>w, <2>1 DEF Claim, At, Answer, Plain
  <2>2. CASE ~Answer(r)
    <3>1. request' = [request EXCEPT ![r] = row]
      BY <1>5, <2>2 DEF Claim
    <3>2. row.at = "context" /\ row.key = request[r].key
      BY DEF RowTypes, Request
    <3>. QED
      BY <1>5, <3>1, <3>2, GoesOn DEF Claim, At, Plain
  <2>. QED
    BY <2>1, <2>2
<1>6. ASSUME NEW r \in Requests, Context(r)
      PROVE  Places'
  <2>. DEFINE folder == op[request[r].key].folder
              w == IF folder = Nothing THEN "reserve"
                   ELSE IF request[r].stored THEN "finalize" ELSE "upload"
              d == IF request[r].stored THEN Nothing ELSE IF folder = Nothing THEN day ELSE folder
              row == [request[r] EXCEPT !.stored = FALSE, !.day = d, !.at = w]
  <2>1. request' = [request EXCEPT ![r] = row] /\ request[r].at = "context"
    BY <1>6 DEF Context, At
  <2>2. row.at = w /\ row.key = request[r].key /\ w \in Plain
    BY DEF RowTypes, Request, Plain
  <2>. QED
    BY <2>1, <2>2, GoesOn
<1>7. ASSUME NEW r \in Requests, Upload(r)
      PROVE  Places'
  <2>. DEFINE row == [request[r] EXCEPT !.at = "verify", !.day = Nothing]
  <2>1. row.at = "verify" /\ row.key = request[r].key
    BY DEF RowTypes, Request
  <2>2. request' = [request EXCEPT ![r] = row]
    BY <1>7 DEF Upload
  <2>. QED
    BY <1>7, <2>1, <2>2, GoesOn DEF Upload, At, Plain
<1>8. ASSUME NEW r \in Requests, Verify(r) \/ Inspect(r)
      PROVE  Places'
  <2>1. PICK k \in Keys : k = request[r].key /\ op[k].status \in Begun
    BY <1>8, <1>k DEF Verify, Inspect, At, Fits
  <2>2. drive'[k].state # "none" /\ op'[k].status \in Begun
    BY <1>8, <2>1 DEF Verify, Inspect, InspectionShows, Advances
  <2>3. PICK where \in {"record", "adopt"} : Go(r, where)
    BY <1>8 DEF Verify, Inspect
  <2>4. Fits(request[r].at, k)'
    BY <2>2, <2>3, <1>g DEF Fits
  <2>. QED
    BY <2>1, <2>3, <2>4, <1>g, Arrives
<1>9. ASSUME NEW r \in Requests,
             Reserve(r) \/ Record(r) \/ Finalize(r) \/ Fails(r) \/ Receipt(r) \/ Adopt(r)
      PROVE  Places'
  <2>1. request[r].at \notin {"idle", "admit", "begin"}
    BY <1>9 DEF Reserve, Record, Finalize, Fails, Receipt, Adopt, At
  <2>2. \E where \in Plain : Go(r, where) \/ Turn(r, where)
    BY <1>9 DEF Reserve, Record, Finalize, Fails, Receipt, Adopt, Answer, Plain
  <2>. QED
    BY <1>w, <2>1, <2>2
<1>10. ASSUME NEW r \in Requests, Unavailable(r)
       PROVE  Places'
  <2>. DEFINE row == [Idle EXCEPT !.at = "release", !.key = request[r].key,
                                  !.version = request[r].version]
  <2>1. row.at = "release" /\ row.key = request[r].key
    BY IdleIsOne DEF Request
  <2>2. request' = [request EXCEPT ![r] = row]
    BY <1>10 DEF Unavailable
  <2>. QED
    BY <1>10, <2>1, <2>2, GoesOn DEF Unavailable, Plain
<1>11. ASSUME NEW r \in Requests, Release(r)
       PROVE  Places'
  BY <1>11, <1>w, <1>e DEF Release, At, Plain
<1>12. ASSUME NEW r \in Requests, Reconcile(r)
       PROVE  Places'
  <2>. DEFINE row == [request[r] EXCEPT !.at = "examine",
                                        !.version = op[request[r].key].version + 1]
  <2>1. CASE Turn(r, "receipt")
    BY <1>12, <1>w, <2>1 DEF Reconcile, At, Plain
  <2>2. CASE ~Turn(r, "receipt")
    <3>1. request' = [request EXCEPT ![r] = row]
      BY <1>12, <2>2 DEF Reconcile
    <3>2. row.at = "examine" /\ row.key = request[r].key
      BY DEF RowTypes, Request
    <3>. QED
      BY <1>12, <3>1, <3>2, GoesOn DEF Reconcile, At, Plain
  <2>. QED
    BY <2>1, <2>2
<1>13. ASSUME NEW r \in Requests, Examine(r)
       PROVE  Places'
  <2>1. CASE Go(r, "inspect")
    BY <1>13, <1>w, <2>1 DEF Examine, At, Plain
  <2>2. CASE ~Go(r, "inspect")
    <3>1. PICK k \in Keys : k = request[r].key
      BY <1>13, <1>k DEF Examine, At
    <3>2. op[k].status = "compensation_pending" /\ Go(r, "remove")
      BY <1>13, <2>2, <3>1 DEF Examine
    <3>3. op'[k].status \in Doomed /\ op'[k].status \in Begun
      BY <3>2 DEF Advances, Doomed, Begun, InFlight
    <3>4. Fits(request[r].at, k)'
      BY <3>2, <3>3, <1>g DEF Fits
    <3>. QED
      BY <3>1, <3>2, <3>4, <1>g, Arrives
  <2>. QED
    BY <2>1, <2>2
<1>14. ASSUME NEW r \in Requests, Remove(r)
       PROVE  Places'
  <2>1. CASE End(r)
    BY <1>14, <1>e, <2>1 DEF Remove, At
  <2>2. CASE ~End(r)
    <3>1. PICK k \in Keys : k = request[r].key /\ op[k].status \in Doomed
      BY <1>14, <1>k DEF Remove, At, Fits
    <3>2. drive[k].state # "none"
      BY <3>1 DEF Rows, KeyOK, Doomed, Named
    <3>3. drive'[k].state = "erased"
      BY <1>14, <3>1, <3>2, StatusOf, Erasing DEF Remove, RowTypes
    <3>4. op'[k].status \in Doomed /\ op'[k].status \in Begun
      BY <3>1 DEF Advances, Doomed, Begun, InFlight
    <3>5. Go(r, "settle")
      BY <1>14, <2>2 DEF Remove
    <3>6. Fits(request[r].at, k)'
      BY <3>3, <3>4, <3>5, <1>g DEF Fits
    <3>. QED
      BY <3>1, <3>5, <3>6, <1>g, Arrives
  <2>. QED
    BY <2>1, <2>2
<1>15. ASSUME NEW r \in Requests, Settle(r)
       PROVE  Places'
  BY <1>15, <1>e DEF Settle, At
<1>16. ASSUME request' = request
       PROVE  Places'
  BY <1>16 DEF Places, Placed, Fits, At, Advances
<1>. QED
  BY <1>1, <1>2, <1>3, <1>4, <1>5, <1>6, <1>7, <1>8, <1>9, <1>10, <1>11, <1>12, <1>13, <1>14,
     <1>15, <1>16
     DEF Next, RequestSteps, RecoverySteps, PurgeSteps, WorldSteps, ClaimPurge, PurgeContext,
         PurgeRemove, PurgeSettle, WorkerEnds, AdmissionLapses, LeaseLapses, JobLeaseLapses,
         CreateLands, RevokeSession, MidnightPasses

LEMMA SitesStep ==
  ASSUME RowTypes, Rows, Sites, \A k \in Keys : Advances(k), Next
  PROVE  Sites'
<1>o. ASSUME NEW w \in Workers, worker'[w] = worker[w]
      PROVE  Sited(w)'
  BY <1>o DEF Sites, Sited, Advances
<1>1. ASSUME NEW w \in Workers, NEW k \in Keys, ClaimPurge(w, k)
      PROVE  Sites'
  <2>1. CASE worker' = worker
    BY <1>o, <2>1 DEF Sites
  <2>2. CASE worker' # worker
    <3>1. worker' = [worker EXCEPT ![w] = [Resting EXCEPT !.at = "context", !.key = k,
                                                          !.version = job[k].version + 1]]
      BY <1>1, <2>2 DEF ClaimPurge
    <3>2. /\ worker'[w].at = "context" /\ worker'[w].key = k /\ worker'[w].gone = FALSE
          /\ \A v \in Workers \ {w} : worker'[v] = worker[v]
      BY <3>1, IdleIsOne DEF RowTypes, Worker, Resting
    <3>3. Sited(w)'
      BY <3>2 DEF Sited
    <3>. QED
      BY <1>o, <3>2, <3>3 DEF Sites
  <2>. QED
    BY <2>1, <2>2
<1>2. ASSUME NEW w \in Workers, PurgeContext(w)
      PROVE  Sites'
  <2>1. PICK k \in Keys : k = worker[w].key
    BY <1>2 DEF PurgeContext, Sites, Sited
  <2>2. op'[k].status \in Doomed
    BY <1>2, <2>1 DEF PurgeContext, JobStands, Doomed, rows
  <2>3. /\ worker'[w].at = "remove" /\ worker'[w].key = k /\ worker'[w].gone = worker[w].gone
        /\ \A v \in Workers \ {w} : worker'[v] = worker[v]
    BY <1>2, <2>1 DEF PurgeContext, RowTypes, Worker
  <2>4. ~worker[w].gone
    BY <1>2, <2>1 DEF PurgeContext, Sites, Sited, RowTypes, Worker
  <2>5. Sited(w)'
    BY <2>2, <2>3, <2>4 DEF Sited
  <2>. QED
    BY <1>o, <2>3, <2>5 DEF Sites
<1>3. ASSUME NEW w \in Workers, PurgeRemove(w)
      PROVE  Sites'
  <2>1. PICK k \in Keys : k = worker[w].key /\ op[k].status \in Doomed
    BY <1>3 DEF PurgeRemove, Sites, Sited
  <2>2. PICK after \in {drive[k], Erased(drive[k])}, gone \in BOOLEAN :
          /\ gone => after.state # "stored"
          /\ drive' = [drive EXCEPT ![k] = after]
          /\ worker' = [worker EXCEPT ![w].at = "settle", ![w].gone = gone]
    BY <1>3, <2>1 DEF PurgeRemove
  <2>3. /\ worker'[w].at = "settle" /\ worker'[w].key = k /\ worker'[w].gone = gone
        /\ \A v \in Workers \ {w} : worker'[v] = worker[v]
    BY <2>1, <2>2 DEF RowTypes, Worker
  <2>4. drive[k].state # "none"
    BY <2>1 DEF Rows, KeyOK, Doomed, Named
  <2>5. gone => drive'[k].state = "erased"
    BY <2>2, <2>4, StatusOf, Erasing DEF RowTypes
  <2>6. op'[k].status \in Doomed
    BY <2>1 DEF Advances
  <2>7. Sited(w)'
    BY <2>3, <2>5, <2>6 DEF Sited
  <2>. QED
    BY <1>o, <2>3, <2>7 DEF Sites
<1>4. ASSUME NEW w \in Workers, PurgeSettle(w) \/ WorkerEnds(w)
      PROVE  Sites'
  <2>1. /\ worker'[w].at = "idle"
        /\ \A v \in Workers \ {w} : worker'[v] = worker[v]
    BY <1>4 DEF PurgeSettle, WorkerEnds, RowTypes, Resting
  <2>2. Sited(w)'
    BY <2>1 DEF Sited
  <2>. QED
    BY <1>o, <2>1, <2>2 DEF Sites
<1>5. ASSUME worker' = worker
      PROVE  Sites'
  BY <1>o, <1>5 DEF Sites
<1>. QED
  BY <1>1, <1>2, <1>3, <1>4, <1>5, ZenonT(30)
     DEF Next, RequestSteps, RecoverySteps, PurgeSteps, WorldSteps, Start, Ends, Admit, Begin,
         Claim, Context, Reserve, Upload, Verify, Record, Finalize, Fails, Unavailable, Release,
         Receipt, Reconcile, Examine, Inspect, Adopt, Remove, Settle, AdmissionLapses,
         LeaseLapses, JobLeaseLapses, CreateLands, RevokeSession, MidnightPasses

(***************************************************************************)
(* The invariant and what follows from it                                  *)
(***************************************************************************)
LEMMA CountInRange == \A A \in SUBSET Keys : Cardinality(A) \in 0 .. Cardinality(Keys)
<1>. SUFFICES ASSUME NEW A \in SUBSET Keys
              PROVE  Cardinality(A) \in 0 .. Cardinality(Keys)
  OBVIOUS
<1>1. /\ Cardinality(A) \in Nat /\ Cardinality(Keys) \in Nat
      /\ Cardinality(A) <= Cardinality(Keys)
  BY KeysAreFinite, FS_Subset, FS_CardinalityType
<1>. QED
  BY <1>1

\* A lease of the ledger is only held by a row that was claimed.
Claimed == \A k \in Keys : job[k].live => job[k].status \in {"claimed", "purged"}

LEMMA ClaimedStep ==
  ASSUME RowTypes, Rows, Places, Sites, Claimed, Next
  PROVE  Claimed'
<1>k. Keyed
  BY DEF Keyed, Places, Placed, Sites, Sited
<1>1. ASSUME NEW k \in Keys, Enlist(k)
      PROVE  Claimed'
  <2>1. \A j \in Keys \ {k} : job'[j] = job[j]
    BY <1>1, StatusOf DEF Enlist, RowTypes
  <2>2. job[k].status = "none" => job'[k].live = job[k].live
    BY <1>1, StatusOf DEF Enlist, RowTypes, Job
  <2>3. job[k].status # "none" => job'[k] = job[k]
    BY <1>1, StatusOf DEF Enlist, RowTypes, Job
  <2>. QED
    BY <2>1, <2>2, <2>3 DEF Claimed
<1>2. ASSUME NEW k \in Keys, Compensate(k)
      PROVE  Claimed'
  <2>1. job'[k].status = "purged" /\ \A j \in Keys \ {k} : job'[j] = job[j]
    BY <1>2, StatusOf DEF Compensate, RowTypes, Job
  <2>. QED
    BY <2>1 DEF Claimed
<1>3. ASSUME job' = job
      PROVE  Claimed'
  BY <1>3 DEF Claimed
<1>4. ASSUME NEW r \in Requests, Record(r) \/ Adopt(r) \/ Reconcile(r) \/ Settle(r)
      PROVE  Claimed'
  <2>1. request[r].key \in Keys
    BY <1>k, <1>4 DEF Record, Adopt, Reconcile, Settle, Keyed, At
  <2>2. Enlist(request[r].key) \/ Compensate(request[r].key) \/ job' = job
    BY <1>4 DEF Record, Adopt, Reconcile, Settle, RecordSuccess
  <2>. QED
    BY <2>1, <2>2, <1>1, <1>2, <1>3
<1>5. ASSUME NEW w \in Workers, NEW k \in Keys, ClaimPurge(w, k)
      PROVE  Claimed'
  <2>1. \A j \in Keys \ {k} : job'[j] = job[j]
    BY <1>5, StatusOf DEF ClaimPurge, RowTypes
  <2>2. CASE job[k].version = MaxPurge
    BY <1>5, <2>1, <2>2, StatusOf DEF ClaimPurge, RowTypes, Job, Claimed
  <2>3. CASE job[k].version # MaxPurge
    <3>1. job' = [job EXCEPT ![k] = [Leased(@) EXCEPT !.status = "claimed"]]
      BY <1>5, <2>3 DEF ClaimPurge
    <3>2. job'[k].status = "claimed"
      BY <3>1, StatusOf DEF Leased, RowTypes, Job
    <3>. QED
      BY <2>1, <3>2 DEF Claimed
  <2>. QED
    BY <2>2, <2>3
<1>6. ASSUME NEW w \in Workers, PurgeSettle(w)
      PROVE  Claimed'
  <2>1. PICK k \in Keys : k = worker[w].key
    BY <1>k, <1>6 DEF PurgeSettle, Keyed
  <2>2. CASE worker[w].gone
    BY <1>2, <1>6, <2>1, <2>2 DEF PurgeSettle
  <2>3. CASE ~worker[w].gone
    <3>1. job'[k].live = FALSE /\ \A j \in Keys \ {k} : job'[j] = job[j]
      BY <1>6, <2>1, <2>3, StatusOf DEF PurgeSettle, RowTypes, Job
    <3>. QED
      BY <3>1 DEF Claimed
  <2>. QED
    BY <2>2, <2>3
<1>7. ASSUME NEW k \in Keys, JobLeaseLapses(k)
      PROVE  Claimed'
  <2>1. job'[k].live = FALSE /\ \A j \in Keys \ {k} : job'[j] = job[j]
    BY <1>7, StatusOf DEF JobLeaseLapses, RowTypes, Job
  <2>. QED
    BY <2>1 DEF Claimed
<1>. QED
  BY <1>3, <1>4, <1>5, <1>6, <1>7, ZenonT(30)
     DEF Next, RequestSteps, RecoverySteps, PurgeSteps, WorldSteps, rows, outside, Start, Ends,
         Admit, Begin, Claim, Reserve, Finalize, Release, AdmissionLapses, LeaseLapses,
         Context, Upload, Verify, Fails, Unavailable, Receipt, Examine, Inspect, Remove,
         PurgeContext, PurgeRemove, WorkerEnds, CreateLands, RevokeSession, MidnightPasses

\* The invariant is inductive.
THEOREM Inductive == Spec => []IInv
<1>1. Init => IInv
  <2>. SUFFICES ASSUME Init
                PROVE  IInv
    OBVIOUS
  <2>1. RowTypes /\ Claimed
    <3>1. [status |-> "none", expected |-> 0, version |-> 0, live |-> FALSE,
           folder |-> Nothing, uploaded |-> Nothing] \in Operation
      BY Bounds DEF Operation
    <3>2. [status |-> "none", version |-> 0, live |-> FALSE] \in Job
      BY Bounds DEF Job
    <3>3. 0 \in Days /\ [state |-> "none", day |-> 0] \in Object
      BY Bounds DEF Days, Object
    <3>. QED
      BY <3>1, <3>2, <3>3, IdleIsOne DEF Init, RowTypes, Claimed
  <2>2. Rows
    BY DEF Init, Rows, KeyOK, LedgerOK, Named, Begun, InFlight
  <2>3. Places /\ Sites
    BY DEF Init, Places, Placed, Sites, Sited, At, Idle, Resting
  <2>4. Accepted = {}
    BY DEF Init, Accepted
  <2>5. Counted
    BY <2>4, FS_EmptySet DEF Init, Counted
  <2>. QED
    BY <2>1, <2>2, <2>3, <2>5, CountInRange DEF IInv, TypeOK, RowTypes, Claimed, Counted, Accepted
<1>2. IInv /\ [Next]_vars => IInv'
  <2>. SUFFICES ASSUME IInv, [Next]_vars
                PROVE  IInv'
    OBVIOUS
  <2>0. RowTypes /\ Keyed /\ Rows /\ Places /\ Sites /\ Counted /\ Claimed
    BY TypesOf DEF IInv, TypeOK, Claimed
  <2>1. CASE Next
    <3>1. Rows' /\ (\A k \in Keys : Advances(k)) /\ Counted'
      BY <2>0, <2>1, RowsAndCount
    <3>2. Places' /\ Sites'
      BY <2>0, <2>1, <3>1, PlacesStep, SitesStep
    <3>3. Claimed'
      BY <2>0, <2>1, ClaimedStep
    <3>4. revision' \in 0 .. Cardinality(Keys)
      <4>1. Accepted' \in SUBSET Keys
        BY DEF Accepted
      <4>. QED
        BY <3>1, <4>1, CountInRange DEF Counted
    <3>5. TypeOK'
      BY <2>0, <2>1, <3>3, <3>4, OpTypes, JobTypes, RequestTypes, WorkerTypes, OutsideTypes
         DEF TypeOK, Claimed
    <3>. QED
      BY <3>1, <3>2, <3>5 DEF IInv
  <2>2. CASE UNCHANGED vars
    BY <2>2 DEF vars, rows, outside, IInv, TypeOK, Rows, KeyOK, LedgerOK, Places, Placed, Fits,
                At, Sites, Sited, Counted, Accepted
  <2>. QED
    BY <2>1, <2>2
<1>. QED
  BY <1>1, <1>2, PTL DEF Spec

\* Every row, object, request and run has its type; the slot's revision never exceeds
\* the number of keys, since each accepted photo counts once.
THEOREM TypeCorrect == Spec => []TypeOK
<1>1. IInv => TypeOK
  BY DEF IInv
<1>. QED
  BY <1>1, Inductive, PTL

\* An accepted photo lies in the drive, in the folder of the day it was created on.
THEOREM AcceptedPhotosStay == Spec => []AcceptedLiesInItsDay
<1>1. IInv => AcceptedLiesInItsDay
  <2>. SUFFICES ASSUME IInv, NEW k \in Keys, op[k].status = "accepted"
                PROVE  drive[k] = [state |-> "stored", day |-> op[k].folder]
    BY DEF AcceptedLiesInItsDay
  <2>1. drive[k] \in Object /\ op[k].status = "accepted"
    BY TypesOf DEF RowTypes
  <2>2. drive[k].state \notin {"none", "erased"} /\ drive[k].day = op[k].folder
    BY <2>1 DEF IInv, Rows, KeyOK, Named, Doomed
  <2>. QED
    BY <2>1, <2>2 DEF Object
<1>. QED
  BY <1>1, Inductive, PTL

\* The ledger of the purge has exactly the files that are being given up.
THEOREM LedgerIsTrue == Spec => []LedgerFollowsCompensation
<1>1. IInv => LedgerFollowsCompensation
  BY DEF IInv, Rows, LedgerOK, LedgerFollowsCompensation
<1>. QED
  BY <1>1, Inductive, PTL

\* What is begun stays begun, what is given up stays given up, and an erased file stays
\* erased: no retry, reclaimed lease or late create brings anything back.
THEOREM RowsOnlyMoveOn == Spec => [][\A k \in Keys : Advances(k)]_vars
<1>1. IInv /\ [Next]_vars => [\A k \in Keys : Advances(k)]_vars
  <2>1. IInv /\ Next => \A k \in Keys : Advances(k)
    BY TypesOf, RowsAndCount DEF IInv
  <2>. QED
    BY <2>1
<1>. QED
  BY <1>1, Inductive, PTL DEF Spec

(***************************************************************************)
(* The refinement                                                          *)
(***************************************************************************)
phases == [k \in Keys |-> PhaseOf(op[k].status)]
files == [k \in Keys |-> drive[k].state]

LEMMA Phases ==
  /\ PhaseOf("none") = "unknown"
  /\ \A s \in {"admitted"} \cup Open : PhaseOf(s) = "open"
  /\ \A s \in Retired : PhaseOf(s) = "withdrawn"
  /\ PhaseOf("accepted") = "accepted"
  /\ \A s \in {"lapsed", "compensated"} : PhaseOf(s) = "discarded"
  BY DEF PhaseOf, Phase, Open, Retired

\* A step that changes no phase, no state of a file and no count is a stutter.
LEMMA Stutters ==
  ASSUME \A k \in Keys : PhaseOf(op'[k].status) = PhaseOf(op[k].status)
                         /\ drive'[k].state = drive[k].state,
         revision' = revision
  PROVE  UNCHANGED Slot!vars
<1>1. phases' = phases /\ files' = files
  BY DEF phases, files
<1>. QED
  BY <1>1 DEF Slot!vars, phases, files

\* A step that rewrites the status of one row, and no file.
LEMMA Rephases ==
  ASSUME RowTypes, NEW k \in Keys, drive' = drive, \A j \in Keys \ {k} : op'[j] = op[j]
  PROVE  /\ phases' = [phases EXCEPT ![k] = PhaseOf(op'[k].status)]
         /\ files' = files
  BY DEF phases, files

\* A record or an adoption changes no phase: a named file is still to be judged.
LEMMA RecordStutters ==
  ASSUME RowTypes, Rows, NEW k \in Keys, NEW r \in Requests, request[r].key = k,
         RecordStands(r), RecordSuccess(r), UNCHANGED <<revision, drive>>
  PROVE  UNCHANGED Slot!vars
<1>1. CASE op[k].uploaded # Nothing
  BY <1>1, Stutters DEF RecordSuccess
<1>2. CASE op[k].uploaded = Nothing
  <2>1. op[k].status \in Open \cup {"reconciliation_pending"}
    BY <1>2, StatusOf DEF RecordStands
  <2>2. /\ op'[k].status = AfterUpload(op[k].status)
        /\ \A j \in Keys \ {k} : op'[j] = op[j]
    BY <1>2, StatusOf DEF RecordSuccess, RowTypes, Operation
  <2>3. PhaseOf(op'[k].status) = PhaseOf(op[k].status)
    BY <2>1, <2>2, Phases DEF AfterUpload, Open, Retired
  <2>. QED
    BY <2>2, <2>3, Stutters
<1>. QED
  BY <1>1, <1>2

\* The ends of a compensation discard an upload whose file is gone.
LEMMA CompensateDiscards ==
  ASSUME RowTypes, NEW k \in Keys, Compensate(k), op[k].status = "compensation_pending",
         drive[k].state = "erased", UNCHANGED <<revision, drive>>
  PROVE  Slot!Discard(k)
<1>1. op'[k].status = "compensated" /\ \A j \in Keys \ {k} : op'[j] = op[j]
  BY StatusOf DEF Compensate, RowTypes, Operation
<1>2. phases[k] = "withdrawn" /\ files[k] = "erased"
  BY Phases DEF phases, files, Retired
<1>3. phases' = [phases EXCEPT ![k] = "discarded"] /\ files' = files
  BY <1>1, Rephases, Phases
<1>. QED
  BY <1>2, <1>3 DEF Slot!Discard, phases, files

LEMMA EraseErases ==
  ASSUME RowTypes, Rows, NEW k \in Keys, op[k].status \in Doomed,
         drive' = [drive EXCEPT ![k] = Erased(@)] \/ drive' = drive, UNCHANGED <<op, revision>>
  PROVE  Slot!Erase(k) \/ UNCHANGED Slot!vars
<1>1. CASE drive' = [drive EXCEPT ![k] = Erased(@)] /\ drive[k].state = "stored"
  <2>1. drive'[k].state = "erased" /\ \A j \in Keys \ {k} : drive'[j] = drive[j]
    BY <1>1, StatusOf, Erasing DEF RowTypes
  <2>2. op[k].status = "compensation_pending"
    BY <1>1 DEF Rows, KeyOK, Doomed
  <2>3. phases[k] = "withdrawn" /\ files[k] = "stored" /\ phases' = phases
    BY <1>1, <2>2, Phases DEF phases, files, Retired
  <2>4. files' = [files EXCEPT ![k] = "erased"]
    BY <2>1 DEF files
  <2>. QED
    BY <2>3, <2>4 DEF Slot!Erase, phases, files
<1>2. CASE drive' = [drive EXCEPT ![k] = Erased(@)] /\ drive[k].state # "stored"
  <2>1. drive' = drive
    BY <1>2 DEF RowTypes, Erased
  <2>. QED
    BY <2>1, Stutters
<1>3. CASE drive' = drive
  BY <1>3, Stutters
<1>. QED
  BY <1>1, <1>2, <1>3

LEMMA SlotStep ==
  ASSUME IInv, Next
  PROVE  [Slot!Next]_(Slot!vars)
<1>t. RowTypes /\ Keyed /\ Rows /\ Places /\ Sites
  BY TypesOf DEF IInv
<1>s. ASSUME \A k \in Keys : op'[k].status = op[k].status /\ drive'[k] = drive[k],
             revision' = revision
      PROVE  UNCHANGED Slot!vars
  BY <1>s, Stutters
<1>d. ASSUME NEW k \in Keys, Slot!Open(k) \/ Slot!Store(k) \/ Slot!Accept(k) \/ Slot!Withdraw(k)
                             \/ Slot!Erase(k) \/ Slot!Discard(k)
      PROVE  Slot!Next
  BY <1>d DEF Slot!Next
<1>1. ASSUME NEW r \in Requests, Admit(r)
      PROVE  Slot!Next \/ UNCHANGED Slot!vars
  <2>1. PICK k \in Keys : k = request[r].key
    BY <1>t, <1>1 DEF Admit, Keyed, At
  <2>2. UNCHANGED <<revision, drive>>
    BY <1>1 DEF Admit, outside
  <2>3. CASE op[k].status # "none"
    BY <1>1, <1>s, <2>1, <2>2, <2>3 DEF Admit
  <2>4. CASE op[k].status = "none"
    <3>1. ~SlotIsTaken(k) /\ op' = [op EXCEPT ![k].status = "admitted", ![k].expected = revision]
      BY <1>1, <2>1, <2>4 DEF Admit
    <3>2. op'[k].status = "admitted" /\ \A j \in Keys \ {k} : op'[j] = op[j]
      BY <1>t, <3>1, StatusOf DEF RowTypes, Operation
    <3>3. \A j \in Keys \ {k} : op[j].status \in {"none", "accepted", "lapsed", "compensated"}
      BY <1>t, <3>1, StatusOf DEF SlotIsTaken, Statuses
    <3>4. \A j \in Keys : phases[j] \notin Slot!Underway
      BY <2>4, <3>3, Phases DEF phases, Slot!Underway
    <3>5. phases[k] = "unknown"
      BY <2>4, Phases DEF phases
    <3>6. phases' = [phases EXCEPT ![k] = "open"] /\ files' = files
      BY <1>t, <2>2, <3>2, Rephases, Phases
    <3>7. Slot!Open(k)
      BY <2>2, <3>4, <3>5, <3>6 DEF Slot!Open, phases, files
    <3>. QED
      BY <1>d, <3>7
  <2>. QED
    BY <2>3, <2>4
<1>2. ASSUME NEW r \in Requests, Begin(r)
      PROVE  Slot!Next \/ UNCHANGED Slot!vars
  <2>1. PICK k \in Keys : k = request[r].key
    BY <1>t, <1>2 DEF Begin, Keyed, At
  <2>2. UNCHANGED <<revision, drive>>
    BY <1>2 DEF Begin, outside
  <2>3. CASE op[k].status # "admitted"
    BY <1>2, <1>s, <2>1, <2>2, <2>3 DEF Begin
  <2>4. CASE op[k].status = "admitted"
    <3>1. op'[k].status = "reserved" /\ \A j \in Keys \ {k} : op'[j] = op[j]
      BY <1>t, <1>2, <2>1, <2>4, StatusOf DEF Begin, RowTypes, Operation
    <3>2. PhaseOf(op'[k].status) = PhaseOf(op[k].status)
      BY <2>4, <3>1, Phases DEF Open
    <3>. QED
      BY <2>2, <3>1, <3>2, Stutters
  <2>. QED
    BY <2>3, <2>4
<1>3. ASSUME NEW r \in Requests, Claim(r) \/ Release(r) \/ Reserve(r)
      PROVE  UNCHANGED Slot!vars
  <2>1. request[r].key \in Keys /\ UNCHANGED <<revision, drive>>
    BY <1>t, <1>3 DEF Claim, Release, Reserve, Keyed, At, outside
  <2>2. CASE Claim(r)
    BY <1>t, <1>s, <2>1, <2>2, StatusOf, Leasing DEF Claim, MayClaim, RowTypes
  <2>3. CASE Release(r)
    BY <1>t, <1>s, <2>1, <2>3, StatusOf DEF Release, RowTypes, Operation
  <2>4. CASE Reserve(r)
    BY <1>t, <1>s, <2>1, <2>4, StatusOf DEF Reserve, RowTypes, Operation
  <2>. QED
    BY <1>3, <2>2, <2>3, <2>4
<1>4. ASSUME NEW r \in Requests, Record(r) \/ Adopt(r)
      PROVE  UNCHANGED Slot!vars
  <2>1. request[r].key \in Keys /\ UNCHANGED <<revision, drive>>
    BY <1>t, <1>4 DEF Record, Adopt, Keyed, At, outside
  <2>. QED
    BY <1>t, <1>4, <2>1, RecordStutters DEF Record, Adopt
<1>5. ASSUME NEW r \in Requests, Finalize(r)
      PROVE  Slot!Next \/ UNCHANGED Slot!vars
  <2>1. PICK k \in Keys : k = request[r].key
    BY <1>t, <1>5 DEF Finalize, Keyed, At
  <2>2. drive' = drive
    BY <1>5 DEF Finalize, outside
  <2>3. CASE op[k].status = "accepted"
    BY <1>5, <1>s, <2>1, <2>2, <2>3 DEF Finalize
  <2>4. CASE op[k].status # "accepted"
    <3>1. /\ op[k].status = "provider_succeeded" /\ revision' = revision + 1
          /\ op' = [op EXCEPT ![k].status = "accepted"]
      BY <1>5, <2>1, <2>4 DEF Finalize, FinalizeStands
    <3>2. op'[k].status = "accepted" /\ \A j \in Keys \ {k} : op'[j] = op[j]
      BY <1>t, <3>1, StatusOf DEF RowTypes, Operation
    <3>3. drive[k].state = "stored"
      BY <1>t, <3>1, StatusOf DEF Rows, KeyOK, Named, Doomed
    <3>4. phases[k] = "open" /\ files[k] = "stored"
      BY <3>1, <3>3, Phases DEF phases, files, Open
    <3>5. phases' = [phases EXCEPT ![k] = "accepted"] /\ files' = files
      BY <1>t, <2>2, <3>2, Rephases, Phases
    <3>6. Slot!Accept(k)
      BY <3>1, <3>4, <3>5 DEF Slot!Accept, phases, files
    <3>. QED
      BY <1>d, <3>6
  <2>. QED
    BY <2>3, <2>4
<1>6. ASSUME NEW r \in Requests, Reconcile(r)
      PROVE  Slot!Next \/ UNCHANGED Slot!vars
  <2>1. PICK k \in Keys : k = request[r].key
    BY <1>t, <1>6 DEF Reconcile, Keyed, At
  <2>2. UNCHANGED <<revision, drive>>
    BY <1>6 DEF Reconcile, outside
  <2>3. CASE op[k].status = "accepted"
    BY <1>6, <1>s, <2>1, <2>2, <2>3 DEF Reconcile, MayRetire, InFlight
  <2>4. CASE op[k].status # "accepted"
    <3>1. /\ op[k].status \in InFlight
          /\ op' = [op EXCEPT ![k] = [Leased(@) EXCEPT !.status = Retirement(op[k])]]
      BY <1>6, <2>1, <2>4 DEF Reconcile, MayRetire
    <3>2. op'[k].status = Retirement(op[k]) /\ \A j \in Keys \ {k} : op'[j] = op[j]
      BY <1>t, <3>1, StatusOf DEF Leased, RowTypes, Operation
    <3>3. PhaseOf(op'[k].status) = "withdrawn"
      BY <3>2, Phases DEF Retirement, Retired
    <3>4. CASE op[k].status \in Retired
      <4>1. PhaseOf(op[k].status) = "withdrawn"
        BY <3>4, Phases
      <4>. QED
        BY <2>2, <3>2, <3>3, <4>1, Stutters
    <3>5. CASE op[k].status \in Open
      <4>1. phases[k] = "open"
        BY <3>5, Phases DEF phases
      <4>2. phases' = [phases EXCEPT ![k] = "withdrawn"] /\ files' = files
        BY <1>t, <2>2, <3>2, <3>3, Rephases
      <4>3. Slot!Withdraw(k)
        BY <2>2, <4>1, <4>2 DEF Slot!Withdraw, phases, files
      <4>. QED
        BY <1>d, <4>3
    <3>. QED
      BY <3>1, <3>4, <3>5 DEF InFlight, Open, Retired
  <2>. QED
    BY <2>3, <2>4
<1>7. ASSUME NEW r \in Requests, Remove(r)
      PROVE  Slot!Next \/ UNCHANGED Slot!vars
  <2>1. PICK k \in Keys : k = request[r].key /\ op[k].status \in Doomed
    BY <1>t, <1>7 DEF Remove, Places, Placed, Fits, At
  <2>2. drive' = [drive EXCEPT ![k] = Erased(@)] /\ UNCHANGED <<op, revision>>
    BY <1>7, <2>1 DEF Remove, rows
  <2>. QED
    BY <1>t, <1>d, <2>1, <2>2, EraseErases
<1>8. ASSUME NEW r \in Requests, Settle(r)
      PROVE  Slot!Next
  <2>1. PICK k \in Keys : k = request[r].key /\ drive[k].state = "erased"
    BY <1>t, <1>8 DEF Settle, Places, Placed, Fits, At
  <2>2. Compensate(k) /\ op[k].status = "compensation_pending" /\ UNCHANGED <<revision, drive>>
    BY <1>8, <2>1 DEF Settle, outside
  <2>. QED
    BY <1>t, <1>d, <2>1, <2>2, CompensateDiscards
<1>9. ASSUME NEW w \in Workers, PurgeRemove(w)
      PROVE  Slot!Next \/ UNCHANGED Slot!vars
  <2>1. PICK k \in Keys : k = worker[w].key /\ op[k].status \in Doomed
    BY <1>t, <1>9 DEF PurgeRemove, Sites, Sited
  <2>2. drive' = [drive EXCEPT ![k] = Erased(@)] \/ drive' = drive
    <3>1. PICK after \in {drive[k], Erased(drive[k])} : drive' = [drive EXCEPT ![k] = after]
      BY <1>9, <2>1 DEF PurgeRemove
    <3>. QED
      BY <1>t, <2>1, <3>1 DEF RowTypes
  <2>3. UNCHANGED <<op, revision>>
    BY <1>9 DEF PurgeRemove, rows
  <2>. QED
    BY <1>t, <1>d, <2>1, <2>2, <2>3, EraseErases
<1>10. ASSUME NEW w \in Workers, PurgeSettle(w)
       PROVE  Slot!Next \/ UNCHANGED Slot!vars
  <2>1. PICK k \in Keys : k = worker[w].key /\ (worker[w].gone => drive[k].state = "erased")
    BY <1>t, <1>10 DEF PurgeSettle, Sites, Sited
  <2>2. op[k].status = "compensation_pending" /\ UNCHANGED <<revision, drive>>
    BY <1>10, <2>1 DEF PurgeSettle, JobStands, outside
  <2>3. CASE worker[w].gone
    <3>1. Compensate(k)
      BY <1>10, <2>1, <2>3 DEF PurgeSettle
    <3>. QED
      BY <1>t, <1>d, <2>1, <2>2, <2>3, <3>1, CompensateDiscards
  <2>4. CASE ~worker[w].gone
    BY <1>10, <1>s, <2>2, <2>4 DEF PurgeSettle
  <2>. QED
    BY <2>3, <2>4
<1>11. ASSUME NEW k \in Keys, AdmissionLapses(k)
       PROVE  Slot!Next
  <2>1. op[k].status = "admitted" /\ UNCHANGED <<revision, drive>>
    BY <1>11 DEF AdmissionLapses, outside
  <2>2. op'[k].status = "lapsed" /\ \A j \in Keys \ {k} : op'[j] = op[j]
    BY <1>t, <1>11, StatusOf DEF AdmissionLapses, RowTypes, Operation
  <2>3. drive[k].state = "none"
    BY <1>t, <2>1, StatusOf DEF Rows, KeyOK, Begun, InFlight
  <2>4. phases[k] = "open" /\ files[k] = "none"
    BY <2>1, <2>3, Phases DEF phases, files
  <2>5. phases' = [phases EXCEPT ![k] = "discarded"] /\ files' = files
    BY <1>t, <2>1, <2>2, Rephases, Phases
  <2>6. Slot!Discard(k)
    BY <2>1, <2>4, <2>5 DEF Slot!Discard, phases, files
  <2>. QED
    BY <1>d, <2>6
<1>12. ASSUME NEW k \in Keys, LeaseLapses(k)
       PROVE  UNCHANGED Slot!vars
  <2>1. \A j \in Keys : op'[j].status = op[j].status
    BY <1>t, <1>12, StatusOf DEF LeaseLapses, RowTypes, Operation
  <2>. QED
    BY <1>s, <1>12, <2>1 DEF LeaseLapses, outside
<1>13. ASSUME NEW k \in Keys, CreateLands(k)
       PROVE  Slot!Next
  <2>1. k \in sent /\ drive[k].state = "none" /\ UNCHANGED <<op, revision>>
    BY <1>13 DEF CreateLands, rows
  <2>2. drive'[k].state = "stored" /\ \A j \in Keys \ {k} : drive'[j] = drive[j]
    BY <1>t, <1>13 DEF CreateLands, RowTypes
  <2>3. op[k].status \in Open \cup Retired
    BY <1>t, <2>1 DEF Rows, KeyOK, Begun, InFlight, Open, Retired, Named
  <2>4. phases[k] \in Slot!Underway /\ files[k] = "none" /\ phases' = phases
    BY <2>1, <2>3, Phases DEF phases, files, Slot!Underway
  <2>5. files' = [files EXCEPT ![k] = "stored"]
    BY <2>2 DEF files
  <2>6. Slot!Store(k)
    BY <2>1, <2>4, <2>5 DEF Slot!Store, phases, files
  <2>. QED
    BY <1>d, <2>6
<1>14. ASSUME UNCHANGED <<op, revision, drive>>
       PROVE  UNCHANGED Slot!vars
  BY <1>s, <1>14
<1>. QED
  BY <1>1, <1>2, <1>3, <1>4, <1>5, <1>6, <1>7, <1>8, <1>9, <1>10, <1>11, <1>12, <1>13, <1>14, ZenonT(30)
     DEF Next, RequestSteps, RecoverySteps, PurgeSteps, WorldSteps, rows, outside, Start, Ends,
         Context, Upload, Verify, Fails, Unavailable, Receipt, Examine, Inspect, ClaimPurge,
         PurgeContext, WorkerEnds, JobLeaseLapses, RevokeSession, MidnightPasses

\* The slot keeps its promise for any number of uploads, requests and purge runs.
THEOREM SlotIsImplemented == Spec => SlotPromise
<1>1. Init => Slot!Init
  BY Phases DEF Init, Slot!Init
<1>2. IInv /\ [Next]_vars => [Slot!Next]_(Slot!vars)
  <2>1. IInv /\ UNCHANGED vars => UNCHANGED Slot!vars
    BY Stutters DEF vars, rows, outside
  <2>. QED
    BY <2>1, SlotStep
<1>. QED
  BY <1>1, <1>2, Inductive, PTL DEF Spec, SlotPromise, Slot!Spec
=============================================================================
