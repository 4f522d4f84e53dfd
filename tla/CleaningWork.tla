---------------------------- MODULE CleaningWork ----------------------------
(***************************************************************************)
(* The life of a cleaning: a cleaning target is drafted to a maid,         *)
(* announced, activated into an attempt, started, finished in the field,   *)
(* submitted, and approved or rejected, with every way the responsibility  *)
(* can be taken back on the way (pre-start changes, cancellation requests, *)
(* midnight rollover, handover, unavailability, force recall, cancelled    *)
(* manual requests, account deactivation).                                 *)
(*                                                                         *)
(* Each command of the backend is one PL/pgSQL transaction that holds the  *)
(* advisory lock 'room-management:reservation-command', so each command is *)
(* one action.  Clock guards (cleaning windows, planning days,             *)
(* availability calendars, expiries of grants) are nondeterminism: the     *)
(* action may or may not be taken.  The room order the activation guard    *)
(* uses, (available_from, created_at, id), is the order of creation.       *)
(***************************************************************************)
EXTENDS Naturals, FiniteSets

CONSTANTS
  Maids,           \* profiles with role 'maid'
  None,            \* the absence of a maid
  Requesters,      \* bound: the maids who ask to be released from assignments
  MaxTarget,       \* bound: rows of cleaning_targets
  MaxAttempt,      \* bound: rows of cleaning_attempts
  Originals,       \* the targets that exist initially, created in id order
  Checkouts,       \* those of them that clean a room after a checkout
  RoomOf,          \* the room each original target cleans
  MaxVersion,      \* bound: assignment_version
  MaxSubmission    \* bound: submission_version

ASSUME NoneIsNotAMaid == None \notin Maids /\ Requesters \subseteq Maids
ASSUME BoundsAreNatural ==
  /\ MaxTarget \in Nat /\ MaxAttempt \in Nat
  /\ MaxVersion \in Nat \ {0} /\ MaxSubmission \in Nat
ASSUME OriginalsAreTargets ==
  /\ Originals \subseteq 1..MaxTarget
  /\ Checkouts \subseteq Originals
  /\ DOMAIN RoomOf = Originals

VARIABLES
  profile,      \* profiles.status of each maid
  status,       \* cleaning_targets.status, "absent" before the row exists
  version,      \* cleaning_targets.assignment_version
  contract,     \* what is fixed when the target is created
  assignment,   \* the current cleaning_assignments row of the target
  request,      \* its latest assignment_change_requests row
  phase,        \* cleaning_attempts.status, "absent" before the row exists
  work,         \* target, maid and assignment revision of the attempt
  submission,   \* the attempt's current cleaning_submissions row
  decided,      \* submission_version its inspection_decisions row is about
  earning,      \* base_amount of the earnings row the target led to
  obligation    \* checkout_cleaning_obligations.status

targetVars == <<status, version, contract, assignment, request>>
attemptVars == <<phase, work>>
inspectionVars == <<submission, decided, earning, obligation>>
vars == <<profile, targetVars, attemptVars, inspectionVars>>

Targets == 1..MaxTarget
Attempts == 1..MaxAttempt
Versions == 0..MaxVersion

ProfileStatus ==
  {"active", "deactivation_pending", "upload_only", "inactive", "departed"}
TargetStatus ==
  {"absent", "unassigned", "draft_assigned", "notified", "in_progress",
   "inspection_pending", "approved", "rejected", "cancelled"}
AttemptStatus ==
  {"absent", "scheduled", "in_progress", "interrupted", "field_completed",
   "submitted", "approved", "rejected", "superseded"}
Contract ==
  [source: {"original", "inspection_reclean", "replacement"},
   lineage: Targets,            \* the original target this work stems from
   anchor: Targets,             \* where the chain of inspection recleans began
   recleanOf: Attempts \cup {0},
   fee: {"paid", "zero"}]
Assignment ==
  [maid: Maids \cup {None}, revision: Versions, notified: BOOLEAN]
Request ==
  [state: {"none", "pending", "approved", "rejected", "superseded"},
   revision: Versions]
Work == [target: Targets \cup {0}, maid: Maids \cup {None}, revision: Versions]
Submission ==
  [version: 0..MaxSubmission,
   state: {"none", "submitted", "approved", "rejected"}]

Unassigned == [maid |-> None, revision |-> 0, notified |-> FALSE]
NoRequest == [state |-> "none", revision |-> 0]

TypeOK ==
  /\ profile \in [Maids -> ProfileStatus]
  /\ status \in [Targets -> TargetStatus]
  /\ version \in [Targets -> Versions]
  /\ contract \in [Targets -> Contract]
  /\ assignment \in [Targets -> Assignment]
  /\ request \in [Targets -> Request]
  /\ phase \in [Attempts -> AttemptStatus]
  /\ work \in [Attempts -> Work]
  /\ submission \in [Attempts -> Submission]
  /\ decided \in [Attempts -> 0..MaxSubmission]
  /\ earning \in [Targets -> {"none", "paid", "zero"}]
  /\ obligation \in [Checkouts -> {"private", "materialized", "completed"}]

-----------------------------------------------------------------------------
(* Rows and the questions the commands ask about them. *)

Exists(t) == status[t] # "absent"
Room(t) == RoomOf[contract[t].lineage]
IsReclean(t) == contract[t].source = "inspection_reclean"
RecleanMaid(t) == work[contract[t].recleanOf].maid
AttemptsOf(t) == {a \in Attempts : phase[a] # "absent" /\ work[a].target = t}
RoomMates(t) == {u \in Targets \ {t} : Exists(u) /\ Room(u) = Room(t)}

\* Every interrupted attempt is one whose successor or cancellation is on record.
Blocking(a) == phase[a] \notin {"absent", "superseded", "interrupted"}
\* Slip: an attempt that was activated and not started yet does not count.
BlockingOnceStarted(t) == {a \in AttemptsOf(t) : Blocking(a) /\ phase[a] # "scheduled"}

BlockingAttempts(t) == {a \in AttemptsOf(t) : Blocking(a)}
Running(a) == phase[a] = "in_progress"
\* Slip: nobody looks for other work of the maid.
RunningUnknown(m) == {a \in Attempts : FALSE /\ work[a].maid = m}

RunningFor(m) == {a \in Attempts : Running(a) /\ work[a].maid = m}

Assigned(t) == assignment[t].maid # None
CurrentNotified(t) ==
  Assigned(t) /\ assignment[t].notified /\ assignment[t].revision = version[t]

\* The attempt was made for the assignment that is current now.
OnCurrentAssignment(a) ==
  LET t == work[a].target
  IN  /\ CurrentNotified(t)
      /\ assignment[t].maid = work[a].maid
      /\ assignment[t].revision = work[a].revision

\* The row a command inserts takes the next free identifier.
NextTarget(t) == ~Exists(t) /\ \A u \in Targets : u < t => Exists(u)
NextAttempt(a) ==
  phase[a] = "absent" /\ \A b \in Attempts : b < a => phase[b] # "absent"

CanBump(t) == version[t] < MaxVersion
Bump(t) == version' = [version EXCEPT ![t] = @ + 1]

\* The assignment ends and the next one, if any, becomes current; a request
\* that was pending about the ended assignment is superseded by a trigger.
SupersedeRequest(t) ==
  IF request[t].state = "pending"
  THEN [request EXCEPT ![t].state = "superseded"]
  ELSE request
EndAssignment(t, next) ==
  /\ assignment' = [assignment EXCEPT ![t] = next]
  /\ request' = SupersedeRequest(t)

Retired(t, old, new) ==
  [a \in Attempts |-> IF a \in AttemptsOf(t) /\ phase[a] = old THEN new ELSE phase[a]]

\* Work of the same room that has to be through before target t may run.
Unfinished == {"scheduled", "field_completed", "submitted"}
\* Slip: only work that precedes t in the room is looked at.
RoomReadyBefore(t) ==
  \A u \in RoomMates(t), a \in Attempts :
    u < t /\ a \in AttemptsOf(u) => phase[a] \notin Unfinished \cup {"in_progress"}

RoomReady(t) ==
  \A u \in RoomMates(t) :
    /\ \A a \in AttemptsOf(u) :
         ~Running(a) /\ ~(u < t /\ phase[a] \in Unfinished)
    /\ u < t /\ status[u] = "notified" /\ CurrentNotified(u)
         => LET own == {a \in AttemptsOf(u) : work[a].revision = assignment[u].revision}
            IN  /\ own # {}
                /\ \A a \in own : ~Blocking(a) \/ phase[a] \in {"approved", "rejected"}

\* private.activation_reason_at returns null: t may be worked on by maid m.
ActivationAllowed(t, m) ==
  /\ profile[m] = "active"
  /\ t \in Checkouts => obligation[t] \in {"materialized", "completed"}
  /\ IsReclean(t) => phase[contract[t].recleanOf] = "rejected" /\ RecleanMaid(t) = m
  /\ RoomReady(t)

-----------------------------------------------------------------------------
Init ==
  /\ profile = [m \in Maids |-> "active"]
  /\ status = [t \in Targets |-> IF t \in Originals THEN "unassigned" ELSE "absent"]
  /\ version = [t \in Targets |-> IF t \in Originals THEN 1 ELSE 0]
  /\ contract = [t \in Targets |->
       [source |-> "original", lineage |-> t, anchor |-> t, recleanOf |-> 0, fee |-> "paid"]]
  /\ assignment = [t \in Targets |-> Unassigned]
  /\ request = [t \in Targets |-> NoRequest]
  /\ phase = [a \in Attempts |-> "absent"]
  /\ work = [a \in Attempts |-> [target |-> 0, maid |-> None, revision |-> 0]]
  /\ submission = [a \in Attempts |-> [version |-> 0, state |-> "none"]]
  /\ decided = [a \in Attempts |-> 0]
  /\ earning = [t \in Targets |-> "none"]
  /\ obligation = [t \in Checkouts |-> "private"]

-----------------------------------------------------------------------------
(* Planning: drafts, the commit that announces them, pre-start changes. *)

\* Slip: any active maid will do.
MayBeAnyone(t, m) == profile[m] = "active" /\ Exists(t)

\* An inspection reclean may be assigned to nobody but its original maid.
MayBeAssigned(t, m) == profile[m] = "active" /\ (IsReclean(t) => m = RecleanMaid(t))

SaveDraft(t, m) ==
  /\ status[t] \in {"unassigned", "draft_assigned"}
  /\ MayBeAssigned(t, m)
  /\ CanBump(t) /\ Bump(t)
  /\ status' = [status EXCEPT ![t] = "draft_assigned"]
  /\ EndAssignment(t, [maid |-> m, revision |-> version[t] + 1, notified |-> FALSE])
  /\ UNCHANGED <<profile, contract, attemptVars, inspectionVars>>

CommitNotify(t) ==
  /\ status[t] = "draft_assigned"
  /\ Assigned(t) /\ ~assignment[t].notified
  /\ assignment[t].revision = version[t]      \* else ASSIGNMENT_DRAFT_STALE_SCHEDULE
  /\ BlockingAttempts(t) = {}
  /\ MayBeAssigned(t, assignment[t].maid)
  /\ status' = [status EXCEPT ![t] = "notified"]
  /\ assignment' = [assignment EXCEPT ![t].notified = TRUE]
  /\ UNCHANGED <<profile, version, contract, request, attemptVars, inspectionVars>>

\* What every pre-start command of an admin or a maid requires.
PreStart(t, allowed) ==
  /\ Assigned(t) /\ status[t] \in allowed
  /\ BlockingAttempts(t) = {}                 \* else ASSIGNMENT_ALREADY_STARTED

PrestartChange(t, m) ==
  /\ PreStart(t, {"draft_assigned", "notified"})
  /\ MayBeAssigned(t, m)
  /\ CanBump(t) /\ Bump(t)
  /\ EndAssignment(t, [maid |-> m, revision |-> version[t] + 1,
                       notified |-> status[t] = "notified"])
  /\ UNCHANGED <<profile, status, contract, attemptVars, inspectionVars>>

PrestartUnassign(t) ==
  /\ PreStart(t, {"draft_assigned", "notified"})
  /\ CanBump(t) /\ Bump(t)
  /\ status' = [status EXCEPT ![t] = "unassigned"]
  /\ EndAssignment(t, Unassigned)
  /\ UNCHANGED <<profile, contract, attemptVars, inspectionVars>>

RequestCancellation(t) ==
  /\ PreStart(t, {"notified"})
  /\ assignment[t].maid \in Requesters
  /\ profile[assignment[t].maid] = "active"
  /\ request[t].state # "pending"
  /\ request' = [request EXCEPT ![t] =
       [state |-> "pending", revision |-> assignment[t].revision]]
  /\ UNCHANGED <<profile, status, version, contract, assignment, attemptVars, inspectionVars>>

Undecided(t) ==
  /\ request[t].state = "pending"
  /\ request[t].revision = assignment[t].revision /\ request[t].revision = version[t]
  /\ PreStart(t, {"notified"})

ApproveCancellation(t) ==
  /\ Undecided(t)
  /\ CanBump(t) /\ Bump(t)
  \* The request is closed first, so the trigger finds nothing to supersede.
  /\ request' = [request EXCEPT ![t].state = "approved"]
  /\ assignment' = [assignment EXCEPT ![t] = Unassigned]
  /\ status' = [status EXCEPT ![t] = "unassigned"]
  /\ UNCHANGED <<profile, contract, attemptVars, inspectionVars>>

RejectCancellation(t) ==
  /\ Undecided(t)
  /\ request' = [request EXCEPT ![t].state = "rejected"]
  /\ UNCHANGED <<profile, status, version, contract, assignment, attemptVars, inspectionVars>>

\* A target whose planning day passed goes back to the pool, together with an
\* attempt that was activated and never started.
MidnightRollover(t) ==
  /\ status[t] \in {"unassigned", "draft_assigned", "notified"}
  /\ ~IsReclean(t)
  /\ \A a \in BlockingAttempts(t) : phase[a] = "scheduled" /\ OnCurrentAssignment(a)
  /\ status[t] # "unassigned" => Assigned(t) /\ assignment[t].revision = version[t]
  /\ t \in Checkouts => obligation[t] \in {"materialized", "completed"}
  /\ CanBump(t) /\ Bump(t)
  /\ phase' = Retired(t, "scheduled", "superseded")
  /\ status' = [status EXCEPT ![t] = "unassigned"]
  /\ EndAssignment(t, Unassigned)
  /\ UNCHANGED <<profile, contract, work, inspectionVars>>

\* Only a request an admin made by hand can be withdrawn as such; replacement
\* targets are manual room requests as well.
CancelManualRequest(t) ==
  /\ contract[t].source # "inspection_reclean" /\ t \notin Checkouts
  /\ status[t] \in {"unassigned", "draft_assigned", "notified"}
  /\ ~\E a \in AttemptsOf(t) :
        OnCurrentAssignment(a) /\ phase[a] \notin {"superseded", "scheduled"}
  /\ CanBump(t) /\ Bump(t)
  /\ phase' = Retired(t, "scheduled", "superseded")
  /\ status' = [status EXCEPT ![t] = "cancelled"]
  /\ EndAssignment(t, Unassigned)
  /\ UNCHANGED <<profile, contract, work, inspectionVars>>

-----------------------------------------------------------------------------
(* The reservation behind a checkout cleaning moves. *)

\* Slip: the target moves on and the announced assignment does not.
RescheduleTargetOnly(t) ==
  /\ t \in Checkouts /\ obligation[t] = "private"
  /\ CanBump(t) /\ Bump(t)
  /\ UNCHANGED <<profile, status, contract, assignment, request, attemptVars, inspectionVars>>

\* The stay is rescheduled before the guest left.  An announced assignment is
\* issued anew; a draft keeps its revision and is stale from now on.
RescheduleCheckout(t) ==
  /\ t \in Checkouts /\ obligation[t] = "private"
  /\ CanBump(t) /\ Bump(t)
  /\ \/ /\ status[t] = "notified" /\ CurrentNotified(t)
        /\ profile[assignment[t].maid] = "active"
        /\ \A a \in AttemptsOf(t) : phase[a] \in {"scheduled", "superseded"}
        /\ phase' = Retired(t, "scheduled", "superseded")
        /\ EndAssignment(t, [assignment[t] EXCEPT !.revision = version[t] + 1])
     \/ /\ status[t] \in {"unassigned", "draft_assigned"} /\ ~assignment[t].notified
        /\ UNCHANGED <<assignment, request, phase>>
  /\ UNCHANGED <<profile, status, contract, work, inspectionVars>>

\* The guest leaves at the planned time ...
CheckOutOnTime(t) ==
  /\ t \in Checkouts /\ obligation[t] = "private"
  /\ obligation' = [obligation EXCEPT ![t] = "materialized"]
  /\ UNCHANGED <<profile, targetVars, attemptVars, submission, decided, earning>>

\* ... or at another one, which reissues whatever assignment there is.
CheckOutEarly(t) ==
  /\ t \in Checkouts /\ obligation[t] = "private"
  /\ obligation' = [obligation EXCEPT ![t] = "materialized"]
  /\ CanBump(t) /\ Bump(t)
  /\ IF Assigned(t)
     THEN /\ profile[assignment[t].maid] = "active"
          /\ EndAssignment(t, [assignment[t] EXCEPT !.revision = version[t] + 1])
     ELSE UNCHANGED <<assignment, request>>
  /\ UNCHANGED <<profile, status, contract, attemptVars, submission, decided, earning>>

-----------------------------------------------------------------------------
(* Execution: activation, start, field completion, handover. *)

\* The lifecycle scheduler or an admin turns an announced assignment into an
\* attempt of its maid.
Activate(t, a) ==
  /\ NextAttempt(a)
  /\ status[t] = "notified" /\ CurrentNotified(t)
  /\ BlockingAttempts(t) = {}
  /\ ActivationAllowed(t, assignment[t].maid)
  /\ phase' = [phase EXCEPT ![a] = "scheduled"]
  /\ work' = [work EXCEPT ![a] =
       [target |-> t, maid |-> assignment[t].maid, revision |-> assignment[t].revision]]
  /\ UNCHANGED <<profile, targetVars, inspectionVars>>

Start(a) ==
  LET t == work[a].target
      m == work[a].maid
  IN  /\ phase[a] = "scheduled" /\ OnCurrentAssignment(a)
      /\ status[t] = "notified"
      /\ ActivationAllowed(t, m)
      /\ RunningFor(m) = {}
      /\ phase' = [phase EXCEPT ![a] = "in_progress"]
      /\ status' = [status EXCEPT ![t] = "in_progress"]
      /\ UNCHANGED <<profile, version, contract, assignment, request, work, inspectionVars>>

CompleteFieldWork(a) ==
  /\ phase[a] = "in_progress" /\ OnCurrentAssignment(a)
  /\ profile[work[a].maid] = "active"
  /\ phase' = [phase EXCEPT ![a] = "field_completed"]
  /\ UNCHANGED <<profile, targetVars, work, inspectionVars>>

\* An admin deactivates a maid who is cleaning: she may finish this attempt ...
AllowFinish(a) ==
  /\ phase[a] = "in_progress" /\ OnCurrentAssignment(a)
  /\ profile[work[a].maid] \in {"active", "deactivation_pending"}
  /\ profile' = [profile EXCEPT ![work[a].maid] = "deactivation_pending"]
  /\ UNCHANGED <<targetVars, attemptVars, inspectionVars>>

\* ... under the limited capability that turns into one to upload and submit.
LimitedComplete(a) ==
  /\ phase[a] = "in_progress" /\ OnCurrentAssignment(a)
  /\ profile[work[a].maid] = "deactivation_pending"
  /\ phase' = [phase EXCEPT ![a] = "field_completed"]
  /\ profile' = [profile EXCEPT ![work[a].maid] = "upload_only"]
  /\ UNCHANGED <<targetVars, work, inspectionVars>>

AllowUpload(a) ==
  /\ phase[a] = "field_completed" /\ OnCurrentAssignment(a)
  /\ profile[work[a].maid] \in {"active", "upload_only"}
  /\ RunningFor(work[a].maid) = {}
  /\ profile' = [profile EXCEPT ![work[a].maid] = "upload_only"]
  /\ UNCHANGED <<targetVars, attemptVars, inspectionVars>>

\* An admin hands running work to another maid: the attempt is interrupted and
\* the successor is scheduled in the same transaction.
InterruptHandover(a, b, m, deactivate) ==
  LET t == work[a].target
      old == work[a].maid
  IN  /\ phase[a] = "in_progress" /\ OnCurrentAssignment(a) /\ NextAttempt(b)
      /\ profile[old] \in {"active", "deactivation_pending", "upload_only"}
      /\ m # old /\ ~IsReclean(t)
      /\ ActivationAllowed(t, m)
      /\ CanBump(t) /\ Bump(t)
      /\ phase' = [phase EXCEPT ![a] = "interrupted", ![b] = "scheduled"]
      /\ work' = [work EXCEPT ![b] =
           [target |-> t, maid |-> m, revision |-> version[t] + 1]]
      /\ status' = [status EXCEPT ![t] = "notified"]
      /\ EndAssignment(t, [maid |-> m, revision |-> version[t] + 1, notified |-> TRUE])
      /\ profile' = IF deactivate \/ profile[old] = "deactivation_pending"
                    THEN [profile EXCEPT ![old] = "upload_only"]
                    ELSE profile
      /\ UNCHANGED <<contract, inspectionVars>>

\* Slip: the replacement is made and the reclean stays open beside it.
ReturnBoth(t, n) ==
  /\ EndAssignment(t, Unassigned)
  /\ CanBump(t) /\ NextTarget(n)
  /\ status' = [status EXCEPT ![t] = "unassigned", ![n] = "unassigned"]
  /\ version' = [version EXCEPT ![t] = @ + 1, ![n] = 1]
  /\ contract' = [contract EXCEPT ![n] = [contract[t] EXCEPT !.source = "replacement"]]

\* A cleaning that loses its maid returns to the pool.  A reclean is bound to
\* its maid, so it is cancelled and an ordinary replacement n takes over, with
\* the fee of the target whose attempt was rejected.
ReturnToPool(t, n) ==
  LET parent == work[contract[t].recleanOf].target
  IN  /\ EndAssignment(t, Unassigned)
      /\ CanBump(t)
      /\ IF IsReclean(t)
         THEN /\ NextTarget(n)
              /\ status' = [status EXCEPT ![t] = "cancelled", ![n] = "unassigned"]
              /\ version' = [version EXCEPT ![t] = @ + 1, ![n] = 1]
              /\ contract' = [contract EXCEPT ![n] =
                   [source |-> "replacement", lineage |-> contract[t].lineage,
                    anchor |-> n, recleanOf |-> 0, fee |-> contract[parent].fee]]
         ELSE /\ n = t /\ Bump(t)
              /\ status' = [status EXCEPT ![t] = "unassigned"]
              /\ UNCHANGED contract

CancelUnavailable(t, n) ==
  /\ Exists(t) /\ Assigned(t) /\ assignment[t].revision = version[t]
  /\ status[t] \notin {"approved", "cancelled"}
  /\ \A a \in BlockingAttempts(t) : phase[a] \in {"scheduled", "in_progress"}
  /\ phase' = [a \in Attempts |->
       IF a \notin BlockingAttempts(t) THEN phase[a]
       ELSE IF phase[a] = "scheduled" THEN "superseded" ELSE "interrupted"]
  /\ ReturnToPool(t, n)
  /\ UNCHANGED <<profile, work, inspectionVars>>

\* Field work that was never submitted can be recalled from whoever did it.
ForceRecall(a, n) ==
  LET t == work[a].target
  IN  /\ phase[a] = "field_completed" /\ OnCurrentAssignment(a)
      /\ status[t] = "in_progress"
      /\ submission[a].version = 0
      /\ phase' = [phase EXCEPT ![a] = "superseded"]
      /\ ReturnToPool(t, n)
      /\ UNCHANGED <<profile, work, inspectionVars>>

-----------------------------------------------------------------------------
(* Submission and inspection. *)

\* Slip: the old submission is superseded and the pointer stays on it.
LeftSuperseded(a) ==
  IF submission[a].version > 0 THEN [submission[a] EXCEPT !.state = "superseded"]
  ELSE [version |-> 1, state |-> "submitted"]

\* A new submission supersedes the one that still waits for its decision.
NextSubmission(a) == [version |-> submission[a].version + 1, state |-> "submitted"]
CreateSubmission(a) ==
  LET t == work[a].target
  IN  /\ phase[a] \in {"field_completed", "submitted"} /\ OnCurrentAssignment(a)
      /\ \/ profile[work[a].maid] = "active"
         \/ profile[work[a].maid] = "upload_only" /\ phase[a] = "field_completed"
      /\ submission[a].version > 0 => submission[a].state = "submitted" /\ decided[a] = 0
      /\ submission[a].version < MaxSubmission
      /\ submission' = [submission EXCEPT ![a] = NextSubmission(a)]
      /\ phase' = [phase EXCEPT ![a] = "submitted"]
      /\ status' = [status EXCEPT ![t] = "inspection_pending"]
      /\ UNCHANGED <<profile, version, contract, assignment, request, work,
                     decided, earning, obligation>>

\* The admin decides about the submission she saw; it must still be current.
Inspectable(a, v) ==
  /\ submission[a] = [version |-> v, state |-> "submitted"] /\ v > 0
  /\ decided[a] = 0
  /\ phase[a] = "submitted" /\ status[work[a].target] = "inspection_pending"

\* Slips: every approval earns; only the approved target's own checkout counts.
ApproveAndAlwaysPay(a, v) ==
  LET t == work[a].target
  IN  /\ Inspectable(a, v)
      /\ decided' = [decided EXCEPT ![a] = v]
      /\ submission' = [submission EXCEPT ![a].state = "approved"]
      /\ phase' = [phase EXCEPT ![a] = "approved"]
      /\ status' = [status EXCEPT ![t] = "approved"]
      /\ earning' = [earning EXCEPT ![t] = contract[t].fee]
      /\ UNCHANGED <<profile, version, contract, assignment, request, work, obligation>>
ApproveOwnCheckout(a, v) ==
  LET t == work[a].target
  IN  /\ Inspectable(a, v)
      /\ decided' = [decided EXCEPT ![a] = v]
      /\ submission' = [submission EXCEPT ![a].state = "approved"]
      /\ phase' = [phase EXCEPT ![a] = "approved"]
      /\ status' = [status EXCEPT ![t] = "approved"]
      /\ obligation' = [o \in Checkouts |-> IF o = t THEN "completed" ELSE obligation[o]]
      /\ UNCHANGED <<profile, version, contract, assignment, request, work, earning>>

\* Approval earns the frozen fee unless the work is a reclean, and completes
\* the checkout the chain of inspection recleans goes back to.
Approve(a, v) ==
  LET t == work[a].target
  IN  /\ Inspectable(a, v)
      /\ decided' = [decided EXCEPT ![a] = v]
      /\ submission' = [submission EXCEPT ![a].state = "approved"]
      /\ phase' = [phase EXCEPT ![a] = "approved"]
      /\ status' = [status EXCEPT ![t] = "approved"]
      /\ earning' = IF IsReclean(t) THEN earning
                    ELSE [earning EXCEPT ![t] = contract[t].fee]
      /\ obligation' = [o \in Checkouts |->
           IF o = contract[t].anchor THEN "completed" ELSE obligation[o]]
      /\ UNCHANGED <<profile, version, contract, assignment, request, work>>

\* Rejection makes an unpaid reclean n, announced to the same maid.
Reject(a, v, n) ==
  LET t == work[a].target
      m == work[a].maid
  IN  /\ Inspectable(a, v)
      /\ profile[m] = "active"          \* else RECLEAN_ORIGINAL_MAID_UNAVAILABLE
      /\ NextTarget(n)
      /\ decided' = [decided EXCEPT ![a] = v]
      /\ submission' = [submission EXCEPT ![a].state = "rejected"]
      /\ phase' = [phase EXCEPT ![a] = "rejected"]
      /\ status' = [status EXCEPT ![t] = "rejected", ![n] = "notified"]
      /\ version' = [version EXCEPT ![n] = 1]
      /\ contract' = [contract EXCEPT ![n] =
           [source |-> "inspection_reclean", lineage |-> contract[t].lineage,
            anchor |-> contract[t].anchor, recleanOf |-> a, fee |-> "zero"]]
      /\ assignment' = [assignment EXCEPT ![n] =
           [maid |-> m, revision |-> 1, notified |-> TRUE]]
      /\ UNCHANGED <<profile, request, work, earning, obligation>>

-----------------------------------------------------------------------------
\* Slip: the trigger that protects running work is missing.
ChangeAccountAnyTime(m, next) ==
  /\ next # profile[m] /\ profile[m] # "departed"
  /\ profile' = [profile EXCEPT ![m] = next]
  /\ UNCHANGED <<targetVars, attemptVars, inspectionVars>>

\* An admin sets an account to active, inactive or departed.  A maid who is
\* cleaning keeps her account; limited accounts end, they do not reactivate.
ChangeAccountStatus(m, next) ==
  /\ next # profile[m]
  /\ RunningFor(m) = {}
  /\ profile[m] # "departed"
  /\ ~(profile[m] = "active" /\ next = "departed")
  /\ profile[m] \in {"deactivation_pending", "upload_only"} => next # "active"
  /\ profile' = [profile EXCEPT ![m] = next]
  /\ UNCHANGED <<targetVars, attemptVars, inspectionVars>>

Next ==
  \/ \E t \in Targets, m \in Maids : SaveDraft(t, m) \/ PrestartChange(t, m)
  \/ \E t \in Targets :
       \/ CommitNotify(t) \/ PrestartUnassign(t)
       \/ RequestCancellation(t) \/ ApproveCancellation(t) \/ RejectCancellation(t)
       \/ MidnightRollover(t) \/ CancelManualRequest(t)
       \/ RescheduleCheckout(t) \/ CheckOutOnTime(t) \/ CheckOutEarly(t)
  \/ \E t \in Targets, a \in Attempts : Activate(t, a)
  \/ \E a \in Attempts :
       \/ Start(a) \/ CompleteFieldWork(a) \/ AllowFinish(a) \/ LimitedComplete(a)
       \/ AllowUpload(a) \/ CreateSubmission(a)
  \/ \E a, b \in Attempts, m \in Maids, d \in BOOLEAN : InterruptHandover(a, b, m, d)
  \/ \E t, n \in Targets : CancelUnavailable(t, n)
  \/ \E a \in Attempts, n \in Targets : ForceRecall(a, n)
  \/ \E a \in Attempts, v \in 1..MaxSubmission : Approve(a, v)
  \/ \E a \in Attempts, v \in 1..MaxSubmission, n \in Targets : Reject(a, v, n)
  \/ \E m \in Maids, s \in {"active", "inactive", "departed"} : ChangeAccountStatus(m, s)

Spec == Init /\ [][Next]_vars

-----------------------------------------------------------------------------
(* Safety. *)

\* A target never has two attempts that both still count: an attempt is made
\* only after the previous one was superseded or interrupted on record.
OneBlockingAttemptPerTarget ==
  \A a, b \in Attempts :
    Blocking(a) /\ Blocking(b) /\ work[a].target = work[b].target => a = b

\* A maid never has two attempts in progress, whatever was handed over to her.
OneRunningPerMaid ==
  \A a, b \in Attempts :
    Running(a) /\ Running(b) /\ work[a].maid = work[b].maid => a = b

\* Two cleanings of one room never run at the same time, although start checks
\* the room and handover, rollover and recall move targets under it.
OneRunningPerRoom ==
  \A a, b \in Attempts :
    Running(a) /\ Running(b) /\ Room(work[a].target) = Room(work[b].target) => a = b

\* While work runs its authority stands: the announced assignment is still
\* current at the revision the attempt was made for, the target says so, and
\* the maid still has an account that may finish it.
RunningIsAuthorised ==
  \A a \in Attempts : Running(a) =>
    /\ OnCurrentAssignment(a)
    /\ status[work[a].target] = "in_progress"
    /\ profile[work[a].maid] \in {"active", "deactivation_pending"}

\* Status, current assignment and attempts of a target tell one story; only a
\* draft may be left behind by a rescheduled stay.
TargetIsCoherent ==
  \A t \in Targets :
    /\ status[t] \in {"absent", "unassigned", "cancelled"} => ~Assigned(t) /\ BlockingAttempts(t) = {}
    /\ status[t] = "draft_assigned" =>
         Assigned(t) /\ ~assignment[t].notified /\ BlockingAttempts(t) = {}
    /\ status[t] \in {"notified", "in_progress", "inspection_pending", "approved", "rejected"} =>
         CurrentNotified(t)
    /\ status[t] = "notified" => \A a \in BlockingAttempts(t) : phase[a] = "scheduled"
    /\ status[t] = "in_progress" =>
         \E a \in BlockingAttempts(t) : phase[a] \in {"in_progress", "field_completed"}
    /\ status[t] \in {"approved", "rejected"} =>
         \E a \in BlockingAttempts(t) : phase[a] = status[t]

\* Unpaid rework stays with the maid whose work was rejected: no sequence of
\* changes, handovers or recalls puts another maid on a reclean.
RecleanStaysWithItsMaid ==
  \A t \in Targets : Exists(t) /\ IsReclean(t) =>
    /\ phase[contract[t].recleanOf] = "rejected"
    /\ assignment[t].maid \in {None, RecleanMaid(t)}
    /\ \A a \in AttemptsOf(t) : work[a].maid = RecleanMaid(t)

\* No ghost request: a pending cancellation request is about the assignment
\* that is current now (20260904154536_assignment_prestart_change.sql:55).
PendingRequestIsCurrent ==
  \A t \in Targets : request[t].state = "pending" =>
    /\ Assigned(t) /\ assignment[t].notified
    /\ request[t].revision = assignment[t].revision

\* Whatever happens to the stay, the maid or the schedule behind a target: its
\* status, assignment, attempts and the pending request fit together.
TargetsTellOneStory == TargetIsCoherent /\ PendingRequestIsCurrent

\* What was inspected is the last thing the maid submitted.
DecisionIsAboutLastSubmission ==
  \A a \in Attempts : decided[a] # 0 =>
    /\ decided[a] = submission[a].version
    /\ phase[a] = submission[a].state /\ phase[a] \in {"approved", "rejected"}

\* A cleaning is never lost and never duplicated: of all the targets that go
\* back to one original exactly one is open or approved, unless an admin
\* withdrew the manual request that carried it.
Lineage(o) == {t \in Targets : Exists(t) /\ contract[t].lineage = o}
Carriers(o) == {t \in Lineage(o) : status[t] \notin {"rejected", "cancelled"}}
Withdrawn(o) == \E t \in Lineage(o) : status[t] = "cancelled" /\ ~IsReclean(t)
LineageHasOneCarrier ==
  \A o \in Originals :
    \/ Cardinality(Carriers(o)) = 1 /\ ~Withdrawn(o)
    \/ Carriers(o) = {} /\ Withdrawn(o)

\* One original cleaning leads to at most one earning, by approved paid work.
EarnedOncePerLineage ==
  /\ \A o \in Originals : Cardinality({t \in Lineage(o) : earning[t] # "none"}) <= 1
  /\ \A t \in Targets : earning[t] # "none" => status[t] = "approved" /\ ~IsReclean(t)

\* No attempt at a checkout cleaning exists before the guest has left, and the
\* checkout is completed exactly when its chain of recleans ends in approval.
CheckoutFollowsGuest ==
  \A o \in Checkouts :
    /\ obligation[o] = "private" => AttemptsOf(o) = {}
    /\ obligation[o] = "completed" <=>
         \E t \in Targets : status[t] = "approved" /\ contract[t].anchor = o

\* An attempt that ended never changes again, nor does whose and what it was.
EndedAttemptsStay ==
  [][\A a \in Attempts :
       /\ phase[a] \in {"interrupted", "approved", "rejected", "superseded"} => phase'[a] = phase[a]
       /\ phase[a] # "absent" => work'[a] = work[a]]_vars

\* The answer to a cancellation request is never rewritten, not even by the
\* trigger that fires when its approval ends the assignment.
AnsweredRequestsStay ==
  [][\A t \in Targets :
       request[t].state \in {"approved", "rejected"} =>
         request'[t] = request[t] \/ request'[t].state = "pending"]_vars

(* A promise of the documentation the commands do not keep. *)

\* "One separate replacement target with the fee and template snapshot of the
\* original paid cleaning" (docs/AI_BACKEND_PRODUCT_GUIDE.md:986).
ReplacementIsPaidLikeTheOriginal ==
  \A t \in Targets : Exists(t) /\ contract[t].source = "replacement" =>
    contract[t].fee = contract[contract[t].lineage].fee
=============================================================================
