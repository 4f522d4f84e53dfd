---------------------------- MODULE PinSheetSync ---------------------------
(***************************************************************************)
(* The one-way copy of the room PINs to a spreadsheet.  A confirmed PIN    *)
(* change leaves a row in an outbox; runs of a worker take a lease with a  *)
(* fence, mark a row before they write its cells and settle it after; an   *)
(* operator may ask for the whole board to be written, which is also the   *)
(* only way out of a write whose outcome nobody knows.                     *)
(*                                                                         *)
(* Each RPC and each write of the sheet is one action, and the reply of    *)
(* each may be lost.  A run may end anywhere; a write it gave up on may    *)
(* land later (stray).  With admissions required the worker claims rows    *)
(* only, each claim under an admission that maintenance waits for.         *)
(***************************************************************************)
EXTENDS Naturals, FiniteSets

CONSTANTS
  Rooms,           \* the rooms of the board
  Workers,         \* bound: runs of the worker at a time
  Nothing,         \* the absence of an item
  MaxVersion,      \* bound: PIN versions, and rows, of a room
  MaxResync,       \* bound: full resyncs ever requested
  MaxFence,        \* bound: leases ever taken
  MaxRetry         \* failures after which a row or a resync is blocked (8)

ASSUME BoundsAreNat == {MaxVersion, MaxResync, MaxFence, MaxRetry} \subseteq Nat \ {0}

VARIABLES
  pin,             \* room_current_pin.pin_version, 0 before the first
  change,          \* the PIN change under way in a room
  row,             \* room_pin_sheet_sync_outbox
  lease,           \* room_pin_sheet_sync_worker_state
  lapsed,          \* fences whose lease_expires_at has passed since the last claim
  resync,          \* room_pin_sheet_full_resync_runs
  board,           \* what the sheet shows of a room
  stray,           \* abandoned writes that may still land
  waived,          \* fences of unknown writes the code gave up on (see Settle)
  excused,         \* rooms a late write or an overlapped confirmation left behind
  worker,          \* where each run of the worker is
  required,        \* the deployment's worker takes admissions
  maintenance,     \* developer_operation_control.maintenance
  admission        \* developer_operation_admissions of each fence

domain == <<pin, change>>
queue == <<row, lease, resync>>
sheet == <<board, stray, waived, excused>>
gate == <<required, maintenance, admission>>
vars == <<domain, queue, lapsed, sheet, worker, gate>>

Keys == [room : Rooms, version : 1 .. MaxVersion, reason : {"confirmed", "rolledback"}]
Runs == 1 .. MaxResync
Fences == 1 .. MaxFence
Unsettled == {"pending", "processing", "failed"}
Snapshot == [version : 0 .. MaxVersion, open : BOOLEAN]
Row ==
  [status : Unsettled \cup {"absent", "succeeded", "superseded"},
   fence : 0 .. MaxFence,               \* claim_id and lease_fence, 0 for none
   started : BOOLEAN,                   \* provider_write_started_at
   retries : 0 .. MaxRetry]
Resync ==
  [status : Unsettled \cup {"none", "succeeded", "blocked", "superseded"},
   fence : 0 .. MaxFence, started : BOOLEAN, retries : 0 .. MaxRetry,
   reconciles : 0 .. MaxFence,          \* reconciles_blocked_fence, 0 for none
   root : 0 .. MaxResync,               \* recovery_root_run_id
   snapshot : [Rooms -> Snapshot],
   covers : SUBSET Keys]                \* rows created before provider_write_started_at
Cell == [version : 0 .. MaxVersion, by : {"nobody", "confirmed", "rolledback", "resync"}]
Worker ==
  [at : {"idle", "probed", "next", "authorise", "write", "settle", "beat", "last",
         "complete", "board", "paint", "close", "block"},
   fence : 0 .. MaxFence,
   todo : SUBSET Keys,                  \* the claimed rows still to do
   item : Keys \cup {Nothing},          \* the row, or
   run : 0 .. MaxResync,                \* the full resync it works on
   copy : [Rooms -> 0 .. MaxVersion],   \* and the versions of its snapshot
   out : {"succeeded", "current", "retryable", "blocked"},
   again : BOOLEAN,                     \* settling from the catch block
   late : BOOLEAN,                      \* its lease lapsed with a request in flight
   clean : BOOLEAN,                     \* the heartbeat to come is "succeeded"
   blocked : BOOLEAN]                   \* result.blocked > 0
Admission == [state : {"none", "open", "completed"},
              owes : SUBSET Keys,       \* items without a known outcome
              beat : {"none", "succeeded", "other"}]

Idle == [at |-> "idle", fence |-> 0, todo |-> {}, item |-> Nothing, run |-> 0,
         copy |-> [r \in Rooms |-> 0], out |-> "succeeded",
         again |-> FALSE, late |-> FALSE, clean |-> TRUE, blocked |-> FALSE]
Settled(status) == [status |-> status, fence |-> 0, started |-> FALSE, retries |-> 0]
NoResync == [status |-> "none", fence |-> 0, started |-> FALSE, retries |-> 0, reconciles |-> 0,
             root |-> 0, snapshot |-> [r \in Rooms |-> [version |-> 0, open |-> FALSE]],
             covers |-> {}]
Ended(run, status) ==
  [NoResync EXCEPT !.status = status, !.fence = IF status = "blocked" THEN run.fence ELSE 0,
                   !.reconciles = run.reconciles, !.root = run.root]

Init ==
  /\ pin = [r \in Rooms |-> 0]
  /\ change = [r \in Rooms |-> "none"]
  /\ row = [k \in Keys |-> Settled("absent")]
  /\ lease = [status |-> "idle", fence |-> 0]
  /\ lapsed = {}
  /\ resync = [i \in Runs |-> NoResync]
  /\ board = [r \in Rooms |-> [version |-> 0, by |-> "nobody"]]
  /\ stray = {}
  /\ waived = {}
  /\ excused = {}
  /\ worker = [w \in Workers |-> Idle]
  /\ required \in BOOLEAN
  /\ maintenance = "OPEN"
  /\ admission = [f \in Fences |-> [state |-> "none", owes |-> {}, beat |-> "none"]]

(***************************************************************************)
(* PIN changes                                                             *)
(***************************************************************************)
Key(r, v, why) == [room |-> r, version |-> v, reason |-> why]
Enter(key) == [row EXCEPT ![key] = IF @.status = "absent" THEN Settled("pending") ELSE @]

PreparePin(r) ==
  /\ change[r] = "none"
  /\ Cardinality({k \in Keys : k.room = r /\ row[k].status # "absent"}) < MaxVersion
  /\ change' = [change EXCEPT ![r] = "open"]
  /\ UNCHANGED <<pin, queue, lapsed, sheet, worker, gate>>

\* The confirming transaction has stamped its row (created_at) but not committed:
\* only the authorisation of a board can tell, so it stops there for nothing else.
ConfirmBegins(r) ==
  /\ change[r] = "open"
  /\ \E w \in Workers : worker[w].at = "board"
  /\ change' = [change EXCEPT ![r] = "confirming"]
  /\ UNCHANGED <<pin, queue, lapsed, sheet, worker, gate>>
ConfirmCommits(r) ==
  /\ change[r] # "none"
  /\ pin' = [pin EXCEPT ![r] = @ + 1]
  /\ change' = [change EXCEPT ![r] = "none"]
  /\ row' = Enter(Key(r, pin[r] + 1, "confirmed"))
  /\ UNCHANGED <<lease, resync, lapsed, sheet, worker, gate>>

\* The old PIN is on the door again; a second rollback at a version adds no row.
RollbackPin(r) ==
  /\ change[r] = "open"
  /\ pin[r] > 0
  /\ change' = [change EXCEPT ![r] = "none"]
  /\ row' = Enter(Key(r, pin[r], "rolledback"))
  /\ UNCHANGED <<pin, lease, resync, lapsed, sheet, worker, gate>>

(***************************************************************************)
(* The lease                                                               *)
(***************************************************************************)
LeaseUp == lease.status = "leased" /\ lease.fence \notin lapsed
Live(f) == LeaseUp /\ lease.fence = f
Claimed(job, f) == job.status = "processing" /\ job.fence = f
Marked(job, f) == Claimed(job, f) /\ job.started
Blocked == [lease EXCEPT !.status = "blocked"]
Take(status) ==
  /\ lease.fence < MaxFence
  /\ lease' = [status |-> status, fence |-> lease.fence + 1]
  /\ lapsed' = {}
\* Rows of a lapsed claim that wrote nothing are for anyone again.
Released(job) ==
  IF job.status = "processing" /\ ~job.started /\ job.fence \in lapsed
  THEN [job EXCEPT !.status = "pending", !.fence = 0] ELSE job

\* A lease that lapsed over a write mark: whether the sheet was written is unknown.
Uncertain ==
  /\ lease.status = "leased"
  /\ lease.fence \in lapsed
  /\ \/ \E k \in Keys : Marked(row[k], lease.fence)
     \/ \E i \in Runs : Marked(resync[i], lease.fence)
UncertainRunsBlocked ==
  [i \in Runs |-> IF Marked(resync[i], lease.fence) THEN Ended(resync[i], "blocked") ELSE resync[i]]

\* A run whose lease lapsed is past its own deadlines: it hears no reply.
Becomes(w, next) == worker' = [worker EXCEPT ![w] = IF @.late THEN Idle ELSE next]
Go(w, where) == Becomes(w, [worker[w] EXCEPT !.at = where])
Rest(w) == worker' = [worker EXCEPT ![w] = Idle]
Mine(w) == Claimed(row[worker[w].item], worker[w].fence)
MyRun(w) == Claimed(resync[worker[w].run], worker[w].fence)

(***************************************************************************)
(* Claims                                                                  *)
(***************************************************************************)
Predecessors(i) == {j \in 1 .. i - 1 : /\ resync[j].status = "blocked"
                                       /\ resync[j].fence = resync[i].reconciles
                                       /\ resync[j].root = resync[i].root}
\* The chain of blocked runs a recovery belongs to is intact.
LineageStands(i) ==
  IF resync[i].reconciles = 0 THEN resync[i].root = i
  ELSE Cardinality(Predecessors(i)) = IF resync[i].root = i THEN 0 ELSE 1
\* A recovery starts from the block it was asked for, or again after a failure.
MayRecover(i, run) ==
  \/ lease.status # "blocked" /\ resync[i].reconciles = 0
  \/ lease.status = "blocked" /\ lease.fence = resync[i].reconciles
  \/ lease.status = "idle" /\ run.status = "failed"

\* claim_room_pin_sheet_full_resync: nothing to do, a block, a drifted target or a run.
ProbeResync(w) ==
  LET released == [i \in Runs |-> Released(resync[i])]
      NoneDue == \A i \in Runs : released[i].status # "pending"
      First(i) == released[i].status \in {"pending", "failed"}
                    /\ \A j \in 1 .. i - 1 : released[j].status # "pending"
      Elsewhere == lease.status = "blocked" /\ \E i \in Runs : First(i) /\ resync[i].reconciles # lease.fence IN
  /\ ~required
  /\ worker[w] = Idle
  /\ ~LeaseUp
  /\ \/ /\ Uncertain
        /\ resync' = UncertainRunsBlocked
        /\ lease' = Blocked
        /\ UNCHANGED <<lapsed, worker>>
     \/ /\ ~Uncertain
        /\ NoneDue \/ Elsewhere
        /\ resync' = released
        /\ IF lease.status = "blocked" THEN UNCHANGED worker ELSE Go(w, "probed")
        /\ UNCHANGED <<lease, lapsed>>
     \/ \E i \in Runs :
          /\ ~Uncertain
          /\ First(i)
          /\ MayRecover(i, released[i])
          /\ LineageStands(i)
          /\ \/ /\ Take("leased")
                /\ resync' = [released EXCEPT ![i].status = "processing", ![i].fence = lease.fence + 1]
                /\ worker' = [worker EXCEPT ![w] = 
                     [Idle EXCEPT !.at = "board", !.fence = lease.fence + 1, !.run = i,
                                  !.copy = [r \in Rooms |-> resync[i].snapshot[r].version]]]
             \/ /\ Take("blocked")
                /\ resync' = [released EXCEPT ![i] =
                     Ended([resync[i] EXCEPT !.fence = lease.fence + 1], "blocked")]
                /\ UNCHANGED worker
  /\ UNCHANGED <<domain, row, sheet, gate>>

\* claim_room_pin_sheet_sync for the rows that are due: the current version's
\* latest row of a room is taken, what it replaces is superseded.
TakeRows(w, due) ==
  LET released == [k \in Keys |-> Released(row[k])]
      Open(k) == released[k].status \in {"pending", "failed"}
      Chosen(k) == /\ k \in due
                   /\ k.version = pin[k.room]
                   /\ k.reason = "rolledback" \/ Key(k.room, k.version, "rolledback") \notin due
      chosen == {k \in due : Chosen(k)}
      Replaced(k) == \/ k.version < pin[k.room] /\ \E j \in due : j.room = k.room
                     \/ \E j \in chosen : j.room = k.room IN
  /\ due # {}                           \* bound: a claim of nothing takes and returns the lease
  /\ due \subseteq {k \in Keys : Open(k) /\ released[k].retries < MaxRetry}
  /\ Take("leased")
  /\ row' = [k \in Keys |->
       IF k \in chosen THEN [released[k] EXCEPT !.status = "processing", !.fence = lease.fence + 1, !.started = FALSE]
       ELSE IF Open(k) /\ Replaced(k) THEN Settled("superseded") ELSE released[k]]
  /\ worker' = [worker EXCEPT ![w] = [Idle EXCEPT !.at = "next", !.fence = lease.fence + 1, !.todo = chosen]]
  /\ IF required
     THEN admission' = [admission EXCEPT ![lease.fence + 1] = [state |-> "open", owes |-> chosen, beat |-> "none"]]
     ELSE UNCHANGED admission
\* Slip: a claim of rows takes over whatever the lapsed one began.
NoRowIsUncertain == FALSE
RowsAreUncertain == Uncertain /\ \E k \in Keys : Marked(row[k], lease.fence)
\* The claim that finds a lapsed write mark blocks the queue instead.
ClaimRows(w, due) ==
  /\ ~LeaseUp
  /\ lease.status # "blocked"
  /\ IF RowsAreUncertain
     THEN lease' = Blocked /\ Rest(w) /\ UNCHANGED <<row, lapsed, admission>>
     ELSE TakeRows(w, due)
  /\ UNCHANGED <<domain, resync, sheet, required, maintenance>>

ClaimProbed(w, due) ==
  /\ worker[w].at = "probed"
  /\ ClaimRows(w, due)
\* claim_operation_pin_incremental: no claim outside OPEN or beside full-board work.
ClaimAdmitted(w, due) ==
  /\ required
  /\ worker[w] = Idle
  /\ maintenance = "OPEN"
  /\ \A i \in Runs : resync[i].status \in {"none", "succeeded", "superseded"}
  /\ ClaimRows(w, due)

(***************************************************************************)
(* Writes of the sheet                                                     *)
(***************************************************************************)
RecoveryAsked(f) == \E i \in Runs : resync[i].reconciles >= f
\* A write of a lost lease is excused once an operator asked for a recovery, or
\* when its row was superseded by a newer PIN although its outcome was unknown.
Shows(f, cells) ==
  /\ board' = [r \in Rooms |-> IF r \in DOMAIN cells THEN cells[r] ELSE board[r]]
  /\ excused' = IF Live(f) THEN excused \ DOMAIN cells
                ELSE IF RecoveryAsked(f) \/ f \in waived THEN excused \cup DOMAIN cells ELSE excused

\* What a reply of the provider, or its silence, lets the worker say of the write.
Replies == {"ok", "limited", "refused", "unavailable", "silence"}
\* Slip: no answer counts as an answer.
OutcomeOptimistic(reply) ==
  CASE reply \in {"ok", "silence"} -> "succeeded"
    [] reply \in {"limited", "unavailable"} -> "retryable"
    [] OTHER -> "blocked"
OutcomeOf(reply) ==
  CASE reply = "ok" -> "succeeded"
    [] reply \in {"limited", "unavailable"} -> "retryable"
    [] OTHER -> "blocked"
SheetWrite(w, cells, where) ==
  \E reply \in Replies, applied \in BOOLEAN :
    /\ reply = "ok" => applied
    /\ reply \in {"limited", "refused"} => ~applied
    /\ IF applied THEN Shows(worker[w].fence, cells) ELSE UNCHANGED <<board, excused>>
    /\ \/ UNCHANGED stray
       \/ /\ reply = "silence" /\ ~applied
          /\ stray' = stray \cup {[fence |-> worker[w].fence, cells |-> cells]}
    /\ UNCHANGED waived
    /\ Becomes(w, [worker[w] EXCEPT !.at = where, !.out = OutcomeOf(reply), !.again = reply # "ok"])

Land(write) ==
  /\ write \in stray
  /\ Shows(write.fence, write.cells)
  /\ stray' = stray \ {write}
  /\ UNCHANGED <<waived, domain, queue, lapsed, worker, gate>>

(***************************************************************************)
(* A run over rows                                                         *)
(***************************************************************************)
NextItem(w, clean) ==
  Becomes(w, [worker[w] EXCEPT !.at = "next", !.item = Nothing, !.again = FALSE,
                               !.out = "succeeded", !.clean = @ /\ clean])
HeartbeatNext(w, blocked, clean) ==
  Becomes(w, [Idle EXCEPT !.at = "beat", !.fence = worker[w].fence, !.blocked = blocked, !.clean = clean])
\* The catch block of an item settles what it can still say.
Catch(w, out) == Becomes(w, [worker[w] EXCEPT !.at = "settle", !.out = out, !.again = TRUE])
\* The catch block of the run: one last heartbeat, "failed".
Fail(w) ==
  Becomes(w, [Idle EXCEPT !.at = "last", !.fence = worker[w].fence, !.blocked = worker[w].blocked, !.clean = FALSE])

\* No item left, no time left, or the renewal failed.
EndItems(w) ==
  /\ worker[w].at = "next"
  /\ \/ HeartbeatNext(w, FALSE, worker[w].clean /\ worker[w].todo = {})
     \/ Fail(w)
  /\ UNCHANGED <<domain, queue, lapsed, sheet, gate>>

\* The sheet is read; a row it shows already is settled, one ahead of it blocks.
Inspect(w) ==
  /\ worker[w].at = "next"
  /\ \E k \in worker[w].todo :
       LET shown == board[k.room]
           Then(where, out, again) ==
             Becomes(w, [worker[w] EXCEPT !.todo = @ \ {k}, !.item = k, !.at = where, !.out = out, !.again = again]) IN
       \/ shown = [version |-> k.version, by |-> k.reason] /\ Then("settle", "current", FALSE)
       \/ /\ shown.version <= k.version
          /\ shown # [version |-> k.version, by |-> k.reason]
          /\ Then("authorise", "succeeded", FALSE)
       \/ shown.version > k.version /\ Then("settle", "blocked", TRUE)
       \/ \E out \in {"retryable", "blocked"} : Then("settle", out, TRUE)
  /\ UNCHANGED <<domain, queue, lapsed, sheet, gate>>

\* authorize_room_pin_sheet_write: the mark goes before the write, in the same claim.
Authorise(w) ==
  LET k == worker[w].item IN
  /\ worker[w].at = "authorise"
  /\ \/ Catch(w, "blocked") /\ UNCHANGED <<row, admission>>
     \/ /\ Live(worker[w].fence)
        /\ Mine(w)
        /\ IF k.version # pin[k.room]
           THEN /\ row' = [row EXCEPT ![k] = Settled("superseded")]
                /\ IF required THEN admission' = [admission EXCEPT ![worker[w].fence].owes = @ \ {k}]
                   ELSE UNCHANGED admission
                /\ NextItem(w, TRUE) \/ Catch(w, "blocked")
           ELSE /\ row' = [row EXCEPT ![k].started = TRUE]
                /\ UNCHANGED admission
                /\ \/ Go(w, "write")
                   \/ Catch(w, "blocked")
                   \/ Becomes(w, [worker[w] EXCEPT !.at = "settle", !.out = "retryable"])
  /\ UNCHANGED <<domain, lease, resync, lapsed, sheet, required, maintenance>>

Write(w) ==
  LET k == worker[w].item IN
  /\ worker[w].at = "write"
  /\ SheetWrite(w, [r \in {k.room} |-> [version |-> k.version, by |-> k.reason]], "settle")
  /\ UNCHANGED <<domain, queue, lapsed, gate>>

\* settle_room_pin_sheet_sync under the lease: what becomes of the row and the queue.
SettleRow(k, outcome) ==
  LET exhausted == row[k].retries + 1 = MaxRetry IN
  CASE outcome = "superseded" ->
         row' = [row EXCEPT ![k] = Settled("superseded")] /\ UNCHANGED lease
    [] outcome \in {"succeeded", "current"} ->
         row' = [row EXCEPT ![k] = Settled("succeeded")] /\ UNCHANGED lease
    [] outcome = "retryable" ->
         /\ row' = [row EXCEPT ![k] = [Settled("failed") EXCEPT !.retries = row[k].retries + 1]]
         /\ lease' = IF exhausted THEN Blocked ELSE lease
    [] outcome = "blocked" ->
         /\ row' = [row EXCEPT ![k].status = "failed", ![k].fence = 0]
         /\ lease' = Blocked
\* Slip: a row superseded meanwhile needs no outcome of its write.
KnownOrSuperseded(out, outcome) == out \in {"succeeded", "current"} \/ outcome = "superseded"
\* An item of an admission is done with once its outcome is known, not before.
KnownOutcome(out, outcome) == out \in {"succeeded", "current"}
Settle(w) ==
  LET k == worker[w].item
      out == worker[w].out
      f == worker[w].fence
      outcome == IF k.version # pin[k.room] THEN "superseded" ELSE out IN
  /\ worker[w].at = "settle"
  /\ \/ /\ Live(f)
        /\ Mine(w)
        /\ SettleRow(k, outcome)
        /\ waived' = IF outcome = "superseded" /\ out = "blocked" THEN waived \cup {f} ELSE waived
        /\ IF required /\ KnownOutcome(out, outcome)
           THEN admission' = [admission EXCEPT ![f].owes = @ \ {k}] ELSE UNCHANGED admission
        /\ \/ IF lease'.status = "blocked"
              THEN HeartbeatNext(w, TRUE, FALSE)
              ELSE NextItem(w, outcome # "retryable")
           \/ IF worker[w].again THEN Fail(w) ELSE Catch(w, "blocked")
     \/ /\ ~required                    \* a row that ended already answers as it ended
        /\ row[k].status \in {"succeeded", "superseded"}
        /\ out \in {"succeeded", "current"}
        /\ NextItem(w, TRUE)
        /\ UNCHANGED <<row, lease, admission, waived>>
     \/ /\ IF worker[w].again THEN Fail(w) ELSE Catch(w, "blocked")
        /\ UNCHANGED <<row, lease, admission, waived>>
  /\ UNCHANGED <<domain, resync, lapsed, board, stray, excused, required, maintenance>>

\* record_room_pin_sheet_sync_heartbeat: refused over an unsettled write, or when
\* it would report a blocked queue as anything else; it gives back what is left.
BeatStands(w) ==
  LET f == worker[w].fence IN
  /\ lease.fence = f
  /\ lease.status = "leased" =>
       /\ \A k \in Keys : ~Marked(row[k], f)
       /\ \A i \in Runs : ~Marked(resync[i], f)
  /\ lease.status = "blocked" => worker[w].blocked
  /\ required => admission[f].beat = "none"
\* Slip: what is given back keeps the claim of the run that gave it back.
ReturnedWithClaim(job, f) ==
  IF Claimed(job, f) /\ ~job.started THEN [job EXCEPT !.status = "pending"] ELSE job
Returned(job, f) ==
  IF Claimed(job, f) /\ ~job.started THEN [job EXCEPT !.status = "pending", !.fence = 0] ELSE job
Heartbeat(w) ==
  LET f == worker[w].fence IN
  /\ BeatStands(w)
  /\ row' = [k \in Keys |-> Returned(row[k], f)]
  /\ resync' = [i \in Runs |-> Returned(resync[i], f)]
  /\ lease' = IF lease.status = "leased" THEN [lease EXCEPT !.status = "idle"] ELSE lease
  /\ IF required
     THEN admission' = [admission EXCEPT ![f].beat =
            IF worker[w].clean /\ ~worker[w].blocked THEN "succeeded" ELSE "other"]
     ELSE UNCHANGED admission
Beat(w) ==
  /\ worker[w].at = "beat"
  /\ \/ Heartbeat(w) /\ IF required THEN Go(w, "complete") ELSE Rest(w)
     \/ Heartbeat(w) /\ Fail(w)
     \/ UNCHANGED <<queue, admission>> /\ Fail(w)
  /\ UNCHANGED <<domain, lapsed, sheet, required, maintenance>>
LastBeat(w) ==
  /\ worker[w].at = "last"
  /\ Heartbeat(w)
  /\ Rest(w)
  /\ UNCHANGED <<domain, lapsed, sheet, required, maintenance>>

\* complete_operation_pin_incremental: only a run whose every write is accounted for.
Complete(w) ==
  LET f == worker[w].fence IN
  /\ worker[w].at = "complete"
  /\ admission[f].beat = "succeeded"
  /\ admission[f].owes = {}
  /\ admission' = [admission EXCEPT ![f].state = "completed"]
  /\ Rest(w)
  /\ UNCHANGED <<domain, queue, lapsed, sheet, required, maintenance>>

(***************************************************************************)
(* Full resyncs                                                            *)
(***************************************************************************)
Current == [r \in Rooms |-> [version |-> pin[r], open |-> change[r] # "none"]]

MayAsk(runs, blocked) ==
  \A j \in Runs : runs[j].status \in Unsettled => blocked /\ runs[j].reconciles # lease.fence
\* request_room_pin_sheet_full_resync: one at a time; over a block it is the
\* recovery of exactly that block and inherits the chain of its blocked run.
RequestResync(i) ==
  LET after == IF Uncertain THEN UncertainRunsBlocked ELSE resync
      blocked == lease.status = "blocked" \/ Uncertain
      origin == {j \in Runs : after[j].status = "blocked" /\ after[j].fence = lease.fence}
      standing == [j \in Runs |-> IF blocked /\ after[j].status \in {"pending", "failed"}
                                  THEN Ended(after[j], "superseded") ELSE after[j]] IN
  /\ resync[i].status = "none"
  /\ \A j \in 1 .. i - 1 : resync[j].status # "none"
  /\ \A r \in Rooms : change[r] # "confirming"    \* both hold the reservation-command lock
  /\ ~LeaseUp
  /\ MayAsk(after, blocked)
  /\ blocked => Cardinality(origin) <= 1
  /\ lease' = IF blocked THEN Blocked ELSE [lease EXCEPT !.status = "idle"]
  /\ resync' = [standing EXCEPT ![i] = [NoResync EXCEPT
       !.status = "pending", !.snapshot = Current,
       !.reconciles = IF blocked THEN lease.fence ELSE 0,
       !.root = IF blocked /\ origin # {} THEN after[CHOOSE j \in origin : TRUE].root ELSE i]]
  /\ UNCHANGED <<domain, row, lapsed, sheet, worker, gate>>

CloseWith(w, out) == Becomes(w, [worker[w] EXCEPT !.at = "close", !.out = out, !.again = TRUE])
\* authorize_room_pin_sheet_full_resync_write: the snapshot still is what the rooms
\* have, or the run is superseded, a recovery blocked again.
AuthoriseBoard(w) ==
  LET i == worker[w].run
      Unheard == \E out \in {"retryable", "blocked"} : CloseWith(w, out) IN
  /\ worker[w].at = "board"
  /\ \/ Unheard /\ UNCHANGED <<resync, lease>>
     \/ /\ Live(worker[w].fence)
        /\ MyRun(w)
        /\ IF resync[i].snapshot = Current
           THEN /\ resync' = [resync EXCEPT ![i].started = TRUE,
                     ![i].covers = {k \in Keys : row[k].status # "absent"} \cup
                       {Key(r, pin[r] + 1, "confirmed") : r \in {q \in Rooms : change[q] = "confirming"}}]
                /\ UNCHANGED lease
                /\ Go(w, "paint") \/ Unheard
           ELSE IF resync[i].reconciles = 0
           THEN /\ resync' = [resync EXCEPT ![i] = Ended(@, "superseded")]
                /\ UNCHANGED lease
                /\ HeartbeatNext(w, FALSE, TRUE) \/ Unheard
           ELSE /\ resync' = [resync EXCEPT ![i] = Ended(@, "blocked")]
                /\ lease' = Blocked
                /\ HeartbeatNext(w, TRUE, FALSE) \/ Unheard
  /\ UNCHANGED <<domain, row, lapsed, sheet, gate>>

WriteBoard(w) ==
  /\ worker[w].at = "paint"
  /\ SheetWrite(w, [r \in Rooms |-> [version |-> worker[w].copy[r], by |-> "resync"]], "close")
  /\ UNCHANGED <<domain, queue, lapsed, gate>>

\* The rows a written board has repaired: they existed when it was authorised.
\* Slip: whatever is unsettled now counts as repaired.
RepairedNow(i, k) == row[k].status \in Unsettled
Repaired(i, k) == k \in resync[i].covers /\ row[k].status \in Unsettled
\* settle_room_pin_sheet_full_resync: success supersedes what it repaired and, for
\* a recovery, the blocked runs of its chain.
CloseRun(i, out) ==
  LET f == lease.fence
      exhausted == resync[i].retries + 1 = MaxRetry
      Chain(j) == /\ j < i /\ resync[j].status = "blocked"
                  /\ resync[i].reconciles # 0 /\ resync[j].root = resync[i].root IN
  CASE out = "succeeded" ->
         /\ row' = [k \in Keys |-> IF Repaired(i, k) THEN Settled("superseded") ELSE row[k]]
         /\ resync' = [j \in Runs |-> IF j = i THEN Ended(resync[i], "succeeded")
                                      ELSE IF Chain(j) THEN Ended(resync[j], "superseded") ELSE resync[j]]
         /\ excused' = excused \cup
              {k.room : k \in {q \in resync[i].covers : row[q].status \in Unsettled
                                                        /\ q.version > resync[i].snapshot[q.room].version}}
         /\ UNCHANGED lease
    [] out = "retryable" /\ ~exhausted ->
         /\ resync' = [resync EXCEPT ![i].status = "failed", ![i].fence = 0, ![i].started = FALSE,
                                     ![i].covers = {}, ![i].retries = @ + 1]
         /\ UNCHANGED <<row, lease, excused>>
    [] OTHER ->
         /\ resync' = [resync EXCEPT ![i] = Ended(@, "blocked")]
         /\ lease' = Blocked
         /\ UNCHANGED <<row, excused>>
CloseBoard(w) ==
  LET i == worker[w].run
      out == worker[w].out
      Unheard == IF worker[w].again THEN Fail(w) ELSE Go(w, "block") IN
  /\ worker[w].at = "close"
  /\ \/ Unheard /\ UNCHANGED <<queue, excused>>
     \/ /\ Live(worker[w].fence)
        /\ MyRun(w)
        /\ LineageStands(i)
        /\ CloseRun(i, out)
        /\ HeartbeatNext(w, lease'.status = "blocked", out = "succeeded") \/ Unheard
  /\ UNCHANGED <<domain, lapsed, board, stray, waived, gate>>

\* The board was written but not settled: block, also when the lease has lapsed.
BlockBoard(w) ==
  LET i == worker[w].run IN
  /\ worker[w].at = "block"
  /\ \/ Fail(w) /\ UNCHANGED <<resync, lease>>
     \/ /\ Marked(resync[i], worker[w].fence)
        /\ lease.fence = worker[w].fence
        /\ resync' = [resync EXCEPT ![i] = Ended(@, "blocked")]
        /\ lease' = Blocked
        /\ HeartbeatNext(w, TRUE, FALSE) \/ Fail(w)
  /\ UNCHANGED <<domain, row, lapsed, sheet, gate>>

(***************************************************************************)
(* The world                                                               *)
(***************************************************************************)
\* A run is over 45 s after it began, its lease lasts two minutes: a run whose lease
\* lapses has at most the one request in flight, and none is between probe and claim.
\* One to authorise, settle or close is refused then: it need not arrive.
LeaseLapses(f) ==
  /\ f \notin lapsed
  /\ \/ lease.status = "leased" /\ lease.fence = f
     \/ \E k \in Keys : Claimed(row[k], f)
     \/ \E i \in Runs : Claimed(resync[i], f)
  /\ \A w \in Workers : worker[w].at # "probed"
  /\ lapsed' = lapsed \cup {f}
  /\ \E gone \in SUBSET {w \in Workers : worker[w].fence = f} :
       /\ \A w \in Workers \ gone : worker[w].fence = f => worker[w].at \notin {"next", "authorise", "settle", "board", "close"}
       /\ worker' = [w \in Workers |-> IF w \in gone THEN Idle
                                       ELSE [worker[w] EXCEPT !.late = @ \/ worker[w].fence = f]]
  /\ UNCHANGED <<domain, queue, sheet, gate>>
\* A run that died under its lease shows when the lease lapses, any other at once.
Dies(w) ==
  /\ worker[w] # Idle
  /\ lease.status = "leased" => lease.fence # worker[w].fence
  /\ Rest(w)
  /\ UNCHANGED <<domain, queue, lapsed, sheet, gate>>
\* transition_developer_operation: REQUEST_MAINTENANCE and RESUME_ADMISSION.
TurnMaintenance ==
  /\ required
  /\ maintenance' = IF maintenance = "OPEN" THEN "REQUESTED" ELSE "OPEN"
  /\ UNCHANGED <<domain, queue, lapsed, sheet, worker, required, admission>>

ChangeSteps(r) == PreparePin(r) \/ ConfirmBegins(r) \/ ConfirmCommits(r) \/ RollbackPin(r)
RowSteps(w) ==
  \/ \E due \in SUBSET {k \in Keys : row[k].status \in Unsettled} : ClaimProbed(w, due) \/ ClaimAdmitted(w, due)
  \/ EndItems(w) \/ Inspect(w) \/ Authorise(w) \/ Write(w) \/ Settle(w)
  \/ Beat(w) \/ LastBeat(w) \/ Complete(w) \/ Dies(w)
BoardSteps(w) ==
  ProbeResync(w) \/ AuthoriseBoard(w) \/ WriteBoard(w) \/ CloseBoard(w) \/ BlockBoard(w)
WorldSteps ==
  \/ \E f \in Fences : LeaseLapses(f)
  \/ \E write \in stray : Land(write)
  \/ TurnMaintenance

Next ==
  \/ \E r \in Rooms : ChangeSteps(r)
  \/ \E w \in Workers : RowSteps(w) \/ BoardSteps(w)
  \/ \E i \in Runs : RequestResync(i)
  \/ WorldSteps

Spec == Init /\ [][Next]_vars

(***************************************************************************)
(* Properties                                                              *)
(***************************************************************************)
\* The rows and runs have their types, and a row has a claim while it is in process.
TypeOK ==
  /\ pin \in [Rooms -> 0 .. MaxVersion]
  /\ change \in [Rooms -> {"none", "open", "confirming"}]
  /\ row \in [Keys -> Row]
  /\ lease \in [status : {"idle", "leased", "blocked"}, fence : 0 .. MaxFence]
  /\ lapsed \subseteq Fences
  /\ resync \in [Runs -> Resync]
  /\ board \in [Rooms -> Cell]
  /\ waived \subseteq Fences
  /\ excused \subseteq Rooms
  /\ worker \in [Workers -> Worker]
  /\ required \in BOOLEAN
  /\ maintenance \in {"OPEN", "REQUESTED"}
  /\ admission \in [Fences -> Admission]
  /\ \A write \in stray : write.fence \in Fences
  /\ \A k \in Keys : (row[k].fence # 0) <=> (row[k].status = "processing")

\* A room whose PIN the sheet does not show has a row that will bring it there,
\* through every lost reply, takeover, full resync and recovery.
EveryPinIsOwed == \A r \in Rooms \ excused : board[r].version # pin[r] =>
  \E k \in Keys : k.room = r /\ k.version = pin[r] /\ row[k].status \in Unsettled

\* What is recorded as written is on the sheet when it is recorded.
SuccessIsVisible == [][
  /\ \A k \in Keys : row[k].status # "succeeded" /\ row'[k].status = "succeeded" =>
       board[k.room].version = k.version \/ k.room \in excused
  /\ \A i \in Runs : resync[i].status # "succeeded" /\ resync'[i].status = "succeeded" =>
       \A r \in Rooms \ excused : board[r].version = resync[i].snapshot[r].version]_<<row, resync>>

\* A write mark without a known outcome stops the queue on its fence: nobody writes
\* under a later lease until an operator asks for the recovery.
UncertainWritesStop == \A f \in Fences :
  (\E k \in Keys : Marked(row[k], f)) \/ (\E i \in Runs : Marked(resync[i], f))
    => (lease.fence = f /\ lease.status # "idle") \/ RecoveryAsked(f)

\* Full resyncs follow one another and no two are blocked on one fence, so that the
\* recovery of a block always finds the one chain it continues.
OneChainPerBlock == \A i, j \in Runs : i # j =>
  /\ ~(resync[i].status \in Unsettled /\ resync[j].status \in Unsettled)
  /\ resync[i].status = "blocked" /\ resync[j].status = "blocked" => resync[i].fence # resync[j].fence

\* Once maintenance was requested and every admission is completed, no write of the
\* sheet is under way, may still land, or lacks its outcome.
DrainIsReal ==
  required /\ maintenance = "REQUESTED" /\ (\A f \in Fences : admission[f].state # "open") =>
    /\ stray = {}
    /\ \A w \in Workers : worker[w].at \notin {"authorise", "write"}
    /\ \A k \in Keys : row[k].status \in Unsettled => ~row[k].started
=============================================================================
