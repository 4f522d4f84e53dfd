------------------------- MODULE CleaningWorkProofs -------------------------
(***************************************************************************)
(* Theorems about CleaningWork, for every number of maids, targets and     *)
(* attempts.  One lemma per frame says what any command may do to an       *)
(* attempt, to a target, to running work and to a commitment, with one     *)
(* step per command; the invariants follow from the frames alone.          *)
(*                                                                         *)
(* The last part is about OfflineWork: leases, late events and corrections *)
(* add nothing to what the commands of CleaningWork may do to a cleaning,  *)
(* so all that is proved of them holds with leases as well; and the        *)
(* triggers keep the leases in step with it.                               *)
(***************************************************************************)
EXTENDS OfflineWork, FiniteSetTheorems, TLAPS

\* An attempt that exists works on a target that exists.
AttemptsHaveTargets ==
  \A a \in Attempts : phase[a] # "absent" =>
    work[a].target \in Targets /\ Exists(work[a].target)

\* A reclean refers to the rejected attempt it makes good.
RecleanKnowsItsOrigin ==
  \A t \in Targets : Exists(t) /\ IsReclean(t) =>
    contract[t].recleanOf \in Attempts /\ phase[contract[t].recleanOf] = "rejected"

\* Nobody works on a checkout cleaning while the guest is still in.
NoWorkBeforeCheckout ==
  \A o \in Checkouts : obligation[o] = "private" => AttemptsOf(o) = {}

-----------------------------------------------------------------------------
(* Types.  The records the commands build and update stay in their sets. *)

LEMMA UnassignedType == Unassigned \in Assignment
  BY BoundsAreNatural DEF Unassigned, Assignment, Versions

LEMMA ReissuedType ==
  ASSUME NEW x \in Assignment, NEW v \in Versions
  PROVE  [x EXCEPT !.revision = v] \in Assignment
  BY DEF Assignment

LEMMA NotifiedType ==
  ASSUME NEW x \in Assignment
  PROVE  [x EXCEPT !.notified = TRUE] \in Assignment
  BY DEF Assignment

LEMMA AnsweredType ==
  ASSUME NEW x \in Request, NEW s \in {"approved", "rejected", "superseded"}
  PROVE  [x EXCEPT !.state = s] \in Request
  BY DEF Request

LEMMA JudgedType ==
  ASSUME NEW x \in Submission, NEW s \in {"approved", "rejected"}
  PROVE  [x EXCEPT !.state = s] \in Submission
  BY DEF Submission

\* The bound on the revision leaves room for one more.
LEMMA BumpType ==
  ASSUME TypeOK, NEW t \in Targets, CanBump(t)
  PROVE  /\ version[t] \in Versions /\ version[t] + 1 \in Versions
         /\ Bump(t) => version' \in [Targets -> Versions]
<1>1. version[t] \in 0..MaxVersion /\ version[t] < MaxVersion
  BY DEF TypeOK, CanBump, Versions
<1>2. version[t] + 1 \in 0..MaxVersion
  BY <1>1, BoundsAreNatural
<1>. QED
  BY <1>1, <1>2 DEF TypeOK, Bump, Versions

\* Ending an assignment keeps the types of the assignment and of its request.
LEMMA EndAssignmentType ==
  ASSUME TypeOK, NEW t \in Targets, NEW next \in Assignment, EndAssignment(t, next)
  PROVE  /\ assignment' \in [Targets -> Assignment]
         /\ request' \in [Targets -> Request]
<1>1. request[t] \in Request /\ [request[t] EXCEPT !.state = "superseded"] \in Request
  BY AnsweredType DEF TypeOK
<1>. QED
  BY <1>1 DEF TypeOK, EndAssignment, SupersedeRequest

\* So does returning a target to the pool, whichever way it returns.
LEMMA ReturnType ==
  ASSUME TypeOK, AttemptsHaveTargets, RecleanKnowsItsOrigin,
         NEW t \in Targets, NEW n \in Targets, Exists(t), ReturnToPool(t, n)
  PROVE  /\ status' \in [Targets -> TargetStatus]
         /\ version' \in [Targets -> Versions]
         /\ contract' \in [Targets -> Contract]
         /\ assignment' \in [Targets -> Assignment]
         /\ request' \in [Targets -> Request]
<1>1. assignment' \in [Targets -> Assignment] /\ request' \in [Targets -> Request]
  BY UnassignedType, EndAssignmentType DEF ReturnToPool
<1>2. status' \in [Targets -> TargetStatus]
  BY DEF ReturnToPool, TypeOK, TargetStatus
<1>3. version[t] + 1 \in Versions /\ 1 \in Versions /\ version \in [Targets -> Versions]
  BY BumpType, BoundsAreNatural DEF ReturnToPool, Versions, TypeOK
<1>4. version' \in [Targets -> Versions]
  BY <1>3 DEF ReturnToPool, Bump
<1>5. CASE IsReclean(t)
  <2>. DEFINE parent == work[contract[t].recleanOf].target
  <2>1. contract[t].recleanOf \in Attempts /\ phase[contract[t].recleanOf] = "rejected"
    BY <1>5 DEF RecleanKnowsItsOrigin
  <2>2. parent \in Targets
    BY <2>1 DEF AttemptsHaveTargets
  <2>3. contract[t] \in Contract /\ contract[parent] \in Contract
    BY <2>2 DEF TypeOK
  <2>4. [source |-> "replacement", lineage |-> contract[t].lineage,
         anchor |-> n, recleanOf |-> 0, fee |-> contract[parent].fee] \in Contract
    BY <2>3 DEF Contract
  <2>5. contract' \in [Targets -> Contract]
    BY <1>5, <2>4 DEF ReturnToPool, TypeOK
  <2>. QED
    BY <1>1, <1>2, <1>4, <2>5
<1>6. CASE ~IsReclean(t)
  BY <1>1, <1>2, <1>4, <1>6 DEF ReturnToPool, TypeOK
<1>. QED
  BY <1>5, <1>6

\* Every command keeps the types.
LEMMA TypeStep ==
  TypeOK /\ AttemptsHaveTargets /\ RecleanKnowsItsOrigin /\ [Next]_vars => TypeOK'
<1>. SUFFICES ASSUME TypeOK, AttemptsHaveTargets, RecleanKnowsItsOrigin, [Next]_vars
              PROVE  TypeOK'
  OBVIOUS
<1>. USE DEF TypeOK, targetVars, attemptVars, inspectionVars
<1>1. ASSUME NEW t \in Targets, NEW m \in Maids, SaveDraft(t, m) PROVE TypeOK'
  <2>1. [maid |-> m, revision |-> version[t] + 1, notified |-> FALSE] \in Assignment
    BY <1>1, BumpType DEF SaveDraft, Assignment
  <2>2. status' \in [Targets -> TargetStatus]
    BY <1>1 DEF SaveDraft, TargetStatus
  <2>. QED
    BY <1>1, <2>1, <2>2, BumpType, EndAssignmentType DEF SaveDraft
<1>2. ASSUME NEW t \in Targets, NEW m \in Maids, PrestartChange(t, m) PROVE TypeOK'
  <2>1. [maid |-> m, revision |-> version[t] + 1, notified |-> status[t] = "notified"]
     \in Assignment
    BY <1>2, BumpType DEF PrestartChange, Assignment
  <2>. QED
    BY <1>2, <2>1, BumpType, EndAssignmentType DEF PrestartChange
<1>3. ASSUME NEW t \in Targets, CommitNotify(t) PROVE TypeOK'
  <2>1. [assignment[t] EXCEPT !.notified = TRUE] \in Assignment
    BY NotifiedType
  <2>2. status' \in [Targets -> TargetStatus]
    BY <1>3 DEF CommitNotify, TargetStatus
  <2>. QED
    BY <1>3, <2>1, <2>2 DEF CommitNotify
<1>4. ASSUME NEW t \in Targets, PrestartUnassign(t) PROVE TypeOK'
  <2>1. status' \in [Targets -> TargetStatus]
    BY <1>4 DEF PrestartUnassign, TargetStatus
  <2>. QED
    BY <1>4, <2>1, BumpType, UnassignedType, EndAssignmentType DEF PrestartUnassign
<1>5. ASSUME NEW t \in Targets, RequestCancellation(t) PROVE TypeOK'
  <2>1. [state |-> "pending", revision |-> assignment[t].revision] \in Request
    BY DEF Request, Assignment
  <2>. QED
    BY <1>5, <2>1 DEF RequestCancellation
<1>6. ASSUME NEW t \in Targets, ApproveCancellation(t) PROVE TypeOK'
  <2>1. [request[t] EXCEPT !.state = "approved"] \in Request
    BY AnsweredType
  <2>2. status' \in [Targets -> TargetStatus]
    BY <1>6 DEF ApproveCancellation, TargetStatus
  <2>. QED
    BY <1>6, <2>1, <2>2, BumpType, UnassignedType DEF ApproveCancellation
<1>7. ASSUME NEW t \in Targets, RejectCancellation(t) PROVE TypeOK'
  <2>1. [request[t] EXCEPT !.state = "rejected"] \in Request
    BY AnsweredType
  <2>. QED
    BY <1>7, <2>1 DEF RejectCancellation
<1>8. ASSUME NEW t \in Targets, MidnightRollover(t) PROVE TypeOK'
  <2>1. status' \in [Targets -> TargetStatus]
    BY <1>8 DEF MidnightRollover, TargetStatus
  <2>2. phase' \in [Attempts -> AttemptStatus]
    BY <1>8 DEF MidnightRollover, Retired, AttemptStatus
  <2>. QED
    BY <1>8, <2>1, <2>2, BumpType, UnassignedType, EndAssignmentType DEF MidnightRollover
<1>9. ASSUME NEW t \in Targets, CancelManualRequest(t) PROVE TypeOK'
  <2>1. status' \in [Targets -> TargetStatus]
    BY <1>9 DEF CancelManualRequest, TargetStatus
  <2>2. phase' \in [Attempts -> AttemptStatus]
    BY <1>9 DEF CancelManualRequest, Retired, AttemptStatus
  <2>. QED
    BY <1>9, <2>1, <2>2, BumpType, UnassignedType, EndAssignmentType DEF CancelManualRequest
<1>10. ASSUME NEW t \in Targets, RescheduleCheckout(t) PROVE TypeOK'
  <2>1. [assignment[t] EXCEPT !.revision = version[t] + 1] \in Assignment
    BY <1>10, BumpType, ReissuedType DEF RescheduleCheckout
  <2>2. phase' \in [Attempts -> AttemptStatus]
    BY <1>10 DEF RescheduleCheckout, Retired, AttemptStatus
  <2>. QED
    BY <1>10, <2>1, <2>2, BumpType, EndAssignmentType DEF RescheduleCheckout
<1>11. ASSUME NEW t \in Targets, CheckOutOnTime(t) PROVE TypeOK'
  BY <1>11 DEF CheckOutOnTime
<1>12. ASSUME NEW t \in Targets, CheckOutEarly(t) PROVE TypeOK'
  <2>1. [assignment[t] EXCEPT !.revision = version[t] + 1] \in Assignment
    BY <1>12, BumpType, ReissuedType DEF CheckOutEarly
  <2>. QED
    BY <1>12, <2>1, BumpType, EndAssignmentType DEF CheckOutEarly
<1>13. ASSUME NEW t \in Targets, NEW a \in Attempts, Activate(t, a) PROVE TypeOK'
  <2>1. [target |-> t, maid |-> assignment[t].maid, revision |-> assignment[t].revision]
     \in Work
    BY DEF Work, Assignment
  <2>. QED
    BY <1>13, <2>1 DEF Activate, AttemptStatus
<1>14. ASSUME NEW a \in Attempts, Start(a) PROVE TypeOK'
  BY <1>14 DEF Start, AttemptStatus, TargetStatus
<1>15. ASSUME NEW a \in Attempts, CompleteFieldWork(a) PROVE TypeOK'
  BY <1>15 DEF CompleteFieldWork, AttemptStatus
<1>16. ASSUME NEW a \in Attempts, AllowFinish(a) PROVE TypeOK'
  BY <1>16 DEF AllowFinish, ProfileStatus
<1>17. ASSUME NEW a \in Attempts, LimitedComplete(a) PROVE TypeOK'
  BY <1>17 DEF LimitedComplete, ProfileStatus, AttemptStatus
<1>18. ASSUME NEW a \in Attempts, AllowUpload(a) PROVE TypeOK'
  BY <1>18 DEF AllowUpload, ProfileStatus
<1>19. ASSUME NEW a \in Attempts, CreateSubmission(a) PROVE TypeOK'
  <2>1. NextSubmission(a) \in Submission
    BY <1>19, BoundsAreNatural DEF CreateSubmission, NextSubmission, Submission
  <2>2. work[a].target \in Targets \cup {0}
    BY DEF Work
  <2>3. status' \in [Targets -> TargetStatus] /\ phase' \in [Attempts -> AttemptStatus]
    BY <1>19 DEF CreateSubmission, TargetStatus, AttemptStatus
  <2>. QED
    BY <1>19, <2>1, <2>2, <2>3 DEF CreateSubmission
<1>20. ASSUME NEW a \in Attempts, NEW b \in Attempts, NEW m \in Maids, NEW d \in BOOLEAN,
              InterruptHandover(a, b, m, d)
       PROVE TypeOK'
  <2>. DEFINE t == work[a].target
  <2>1. t \in Targets
    BY <1>20 DEF InterruptHandover, AttemptsHaveTargets
  <2>2. /\ [maid |-> m, revision |-> version[t] + 1, notified |-> TRUE] \in Assignment
        /\ [target |-> t, maid |-> m, revision |-> version[t] + 1] \in Work
    BY <1>20, <2>1, BumpType DEF InterruptHandover, Assignment, Work
  <2>3. /\ status' \in [Targets -> TargetStatus] /\ phase' \in [Attempts -> AttemptStatus]
        /\ profile' \in [Maids -> ProfileStatus]
    BY <1>20 DEF InterruptHandover, TargetStatus, AttemptStatus, ProfileStatus
  <2>4. version' \in [Targets -> Versions]
    BY <1>20, <2>1, BumpType DEF InterruptHandover
  <2>5. assignment' \in [Targets -> Assignment] /\ request' \in [Targets -> Request]
    BY <1>20, <2>1, <2>2, EndAssignmentType DEF InterruptHandover
  <2>. QED
    BY <1>20, <2>2, <2>3, <2>4, <2>5 DEF InterruptHandover
<1>21. ASSUME NEW t \in Targets, NEW n \in Targets, CancelUnavailable(t, n)
       PROVE TypeOK'
  <2>1. phase' \in [Attempts -> AttemptStatus]
    BY <1>21 DEF CancelUnavailable, AttemptStatus
  <2>. QED
    BY <1>21, <2>1, ReturnType DEF CancelUnavailable
<1>22. ASSUME NEW a \in Attempts, NEW n \in Targets, ForceRecall(a, n) PROVE TypeOK'
  <2>1. phase' \in [Attempts -> AttemptStatus]
    BY <1>22 DEF ForceRecall, AttemptStatus
  <2>2. work[a].target \in Targets /\ Exists(work[a].target)
    BY <1>22 DEF ForceRecall, AttemptsHaveTargets
  <2>. QED
    BY <1>22, <2>1, <2>2, ReturnType DEF ForceRecall
<1>23. ASSUME NEW a \in Attempts, NEW v \in 1..MaxSubmission, Approve(a, v)
       PROVE TypeOK'
  <2>1. work[a].target \in Targets
    BY <1>23 DEF Approve, Inspectable, AttemptsHaveTargets
  <2>2. [submission[a] EXCEPT !.state = "approved"] \in Submission
    BY JudgedType
  <2>3. contract[work[a].target].fee \in {"paid", "zero"}
    BY <2>1 DEF Contract
  <2>4. v \in 0..MaxSubmission
    BY BoundsAreNatural
  <2>5. status' \in [Targets -> TargetStatus] /\ phase' \in [Attempts -> AttemptStatus]
    BY <1>23 DEF Approve, TargetStatus, AttemptStatus
  <2>6. decided' \in [Attempts -> 0..MaxSubmission] /\ submission' \in [Attempts -> Submission]
    BY <1>23, <2>2, <2>4 DEF Approve
  <2>7. earning' \in [Targets -> {"none", "paid", "zero"}]
    BY <1>23, <2>3 DEF Approve
  <2>8. obligation' \in [Checkouts -> {"private", "materialized", "completed"}]
    BY <1>23 DEF Approve
  <2>. QED
    BY <1>23, <2>5, <2>6, <2>7, <2>8 DEF Approve
<1>24. ASSUME NEW a \in Attempts, NEW v \in 1..MaxSubmission, NEW n \in Targets,
              Reject(a, v, n)
       PROVE TypeOK'
  <2>. DEFINE t == work[a].target
  <2>1. t \in Targets
    BY <1>24 DEF Reject, Inspectable, AttemptsHaveTargets
  <2>2. [submission[a] EXCEPT !.state = "rejected"] \in Submission
    BY JudgedType
  <2>3. work[a].maid \in Maids \cup {None} /\ 1 \in Versions /\ v \in 0..MaxSubmission
    BY BoundsAreNatural DEF Work, Versions
  <2>4. [maid |-> work[a].maid, revision |-> 1, notified |-> TRUE] \in Assignment
    BY <2>3 DEF Assignment
  <2>5. [source |-> "inspection_reclean", lineage |-> contract[t].lineage,
         anchor |-> contract[t].anchor, recleanOf |-> a, fee |-> "zero"] \in Contract
    BY <2>1 DEF Contract
  <2>6. status' \in [Targets -> TargetStatus] /\ phase' \in [Attempts -> AttemptStatus]
    BY <1>24 DEF Reject, TargetStatus, AttemptStatus
  <2>7. decided' \in [Attempts -> 0..MaxSubmission] /\ submission' \in [Attempts -> Submission]
    BY <1>24, <2>2, <2>3 DEF Reject
  <2>8. version' \in [Targets -> Versions]
    BY <1>24, <2>3 DEF Reject
  <2>9. contract' \in [Targets -> Contract] /\ assignment' \in [Targets -> Assignment]
    BY <1>24, <2>4, <2>5 DEF Reject
  <2>. QED
    BY <1>24, <2>6, <2>7, <2>8, <2>9 DEF Reject
<1>25. ASSUME NEW m \in Maids, NEW s \in {"active", "inactive", "departed"},
              ChangeAccountStatus(m, s)
       PROVE TypeOK'
  BY <1>25 DEF ChangeAccountStatus, ProfileStatus
<1>26. CASE UNCHANGED vars
  BY <1>26 DEF vars
<1>. QED
  BY <1>1, <1>2, <1>3, <1>4, <1>5, <1>6, <1>7, <1>8, <1>9, <1>10, <1>11, <1>12, <1>13,
     <1>14, <1>15, <1>16, <1>17, <1>18, <1>19, <1>20, <1>21, <1>22, <1>23, <1>24, <1>25,
     <1>26 DEF Next

-----------------------------------------------------------------------------
\* The states in which an attempt never moves again.
Ended == {"interrupted", "approved", "rejected", "superseded"}

(* What one step may do to an attempt.  The four facts carry most of what    *)
(* follows: work is never reassigned, an ended attempt stays as it is, a new  *)
(* attempt comes from Activate or from a handover, and only Start runs it.    *)
AttemptFrame ==
  \A x \in Attempts :
    /\ phase[x] # "absent" => work'[x] = work[x] /\ phase'[x] # "absent"
    /\ phase[x] \in Ended => phase'[x] = phase[x]
    /\ phase[x] = "absent" /\ phase'[x] # "absent" =>
         \/ \E t \in Targets : Activate(t, x)
         \/ \E a \in Attempts, m \in Maids, d \in BOOLEAN : InterruptHandover(a, x, m, d)
    /\ phase'[x] = "in_progress" /\ phase[x] # "in_progress" => Start(x)

\* Every step respects AttemptFrame.
LEMMA AttemptStep == TypeOK /\ [Next]_vars => AttemptFrame
<1>. SUFFICES ASSUME TypeOK, [Next]_vars PROVE AttemptFrame
  OBVIOUS
<1>. USE DEF TypeOK, AttemptFrame, Ended, Work,
             targetVars, attemptVars, inspectionVars
<1>1. ASSUME NEW t \in Targets, NEW m \in Maids, SaveDraft(t, m) PROVE AttemptFrame
  BY <1>1 DEF SaveDraft
<1>2. ASSUME NEW t \in Targets, NEW m \in Maids, PrestartChange(t, m) PROVE AttemptFrame
  BY <1>2 DEF PrestartChange
<1>3. ASSUME NEW t \in Targets, CommitNotify(t) PROVE AttemptFrame
  BY <1>3 DEF CommitNotify
<1>4. ASSUME NEW t \in Targets, PrestartUnassign(t) PROVE AttemptFrame
  BY <1>4 DEF PrestartUnassign
<1>5. ASSUME NEW t \in Targets, RequestCancellation(t) PROVE AttemptFrame
  BY <1>5 DEF RequestCancellation
<1>6. ASSUME NEW t \in Targets, ApproveCancellation(t) PROVE AttemptFrame
  BY <1>6 DEF ApproveCancellation
<1>7. ASSUME NEW t \in Targets, RejectCancellation(t) PROVE AttemptFrame
  BY <1>7 DEF RejectCancellation
<1>8. ASSUME NEW t \in Targets, MidnightRollover(t) PROVE AttemptFrame
  BY <1>8 DEF MidnightRollover, Retired
<1>9. ASSUME NEW t \in Targets, CancelManualRequest(t) PROVE AttemptFrame
  BY <1>9 DEF CancelManualRequest, Retired
<1>10. ASSUME NEW t \in Targets, RescheduleCheckout(t) PROVE AttemptFrame
  BY <1>10 DEF RescheduleCheckout, Retired
<1>11. ASSUME NEW t \in Targets, CheckOutOnTime(t) PROVE AttemptFrame
  BY <1>11 DEF CheckOutOnTime
<1>12. ASSUME NEW t \in Targets, CheckOutEarly(t) PROVE AttemptFrame
  BY <1>12 DEF CheckOutEarly
<1>13. ASSUME NEW t \in Targets, NEW a \in Attempts, Activate(t, a) PROVE AttemptFrame
  BY <1>13 DEF Activate, NextAttempt
<1>14. ASSUME NEW a \in Attempts, Start(a) PROVE AttemptFrame
  BY <1>14 DEF Start
<1>15. ASSUME NEW a \in Attempts, CompleteFieldWork(a) PROVE AttemptFrame
  BY <1>15 DEF CompleteFieldWork
<1>16. ASSUME NEW a \in Attempts, AllowFinish(a) PROVE AttemptFrame
  BY <1>16 DEF AllowFinish
<1>17. ASSUME NEW a \in Attempts, LimitedComplete(a) PROVE AttemptFrame
  BY <1>17 DEF LimitedComplete
<1>18. ASSUME NEW a \in Attempts, AllowUpload(a) PROVE AttemptFrame
  BY <1>18 DEF AllowUpload
<1>19. ASSUME NEW a \in Attempts, CreateSubmission(a) PROVE AttemptFrame
  BY <1>19 DEF CreateSubmission
<1>20. ASSUME NEW a \in Attempts, NEW b \in Attempts, NEW m \in Maids, NEW d \in BOOLEAN,
              InterruptHandover(a, b, m, d)
       PROVE AttemptFrame
  BY <1>20 DEF InterruptHandover, NextAttempt
<1>21. ASSUME NEW t \in Targets, NEW n \in Targets, CancelUnavailable(t, n)
       PROVE AttemptFrame
  BY <1>21 DEF CancelUnavailable, BlockingAttempts, Blocking
<1>22. ASSUME NEW a \in Attempts, NEW n \in Targets, ForceRecall(a, n)
       PROVE AttemptFrame
  BY <1>22 DEF ForceRecall
<1>23. ASSUME NEW a \in Attempts, NEW v \in 1..MaxSubmission, Approve(a, v)
       PROVE AttemptFrame
  BY <1>23 DEF Approve, Inspectable
<1>24. ASSUME NEW a \in Attempts, NEW v \in 1..MaxSubmission, NEW n \in Targets,
              Reject(a, v, n)
       PROVE AttemptFrame
  BY <1>24 DEF Reject, Inspectable
<1>25. ASSUME NEW m \in Maids, NEW s \in {"active", "inactive", "departed"},
              ChangeAccountStatus(m, s)
       PROVE AttemptFrame
  BY <1>25 DEF ChangeAccountStatus
<1>26. CASE UNCHANGED vars
  BY <1>26 DEF vars
<1>. QED
  BY <1>1, <1>2, <1>3, <1>4, <1>5, <1>6, <1>7, <1>8, <1>9, <1>10, <1>11, <1>12, <1>13,
     <1>14, <1>15, <1>16, <1>17, <1>18, <1>19, <1>20, <1>21, <1>22, <1>23, <1>24, <1>25,
     <1>26 DEF Next

\* What one step may do to a target: none disappears, its contract is frozen,
\* and a new one is a replacement or the reclean of a rejection.
TargetFrame ==
  \A t \in Targets :
    /\ Exists(t) => status'[t] # "absent" /\ contract'[t] = contract[t]
    /\ ~Exists(t) /\ status'[t] # "absent" =>
         \/ contract'[t].source = "replacement" /\ assignment'[t] = assignment[t]
         \/ \E a \in Attempts, v \in 1..MaxSubmission : Reject(a, v, t)

\* Every step respects TargetFrame.
LEMMA TargetStep == TypeOK /\ AttemptsHaveTargets /\ [Next]_vars => TargetFrame
<1>. SUFFICES ASSUME TypeOK, AttemptsHaveTargets, [Next]_vars PROVE TargetFrame
  OBVIOUS
<1>. USE DEF TypeOK, TargetFrame, Exists, targetVars, attemptVars, inspectionVars
<1>1. ASSUME NEW t \in Targets, NEW m \in Maids, SaveDraft(t, m) PROVE TargetFrame
  BY <1>1 DEF SaveDraft
<1>2. ASSUME NEW t \in Targets, NEW m \in Maids, PrestartChange(t, m) PROVE TargetFrame
  BY <1>2 DEF PrestartChange
<1>3. ASSUME NEW t \in Targets, CommitNotify(t) PROVE TargetFrame
  BY <1>3 DEF CommitNotify
<1>4. ASSUME NEW t \in Targets, PrestartUnassign(t) PROVE TargetFrame
  BY <1>4 DEF PrestartUnassign, PreStart
<1>5. ASSUME NEW t \in Targets, RequestCancellation(t) PROVE TargetFrame
  BY <1>5 DEF RequestCancellation
<1>6. ASSUME NEW t \in Targets, ApproveCancellation(t) PROVE TargetFrame
  BY <1>6 DEF ApproveCancellation, Undecided, PreStart
<1>7. ASSUME NEW t \in Targets, RejectCancellation(t) PROVE TargetFrame
  BY <1>7 DEF RejectCancellation
<1>8. ASSUME NEW t \in Targets, MidnightRollover(t) PROVE TargetFrame
  BY <1>8 DEF MidnightRollover
<1>9. ASSUME NEW t \in Targets, CancelManualRequest(t) PROVE TargetFrame
  BY <1>9 DEF CancelManualRequest
<1>10. ASSUME NEW t \in Targets, RescheduleCheckout(t) PROVE TargetFrame
  BY <1>10 DEF RescheduleCheckout
<1>11. ASSUME NEW t \in Targets, CheckOutOnTime(t) PROVE TargetFrame
  BY <1>11 DEF CheckOutOnTime
<1>12. ASSUME NEW t \in Targets, CheckOutEarly(t) PROVE TargetFrame
  BY <1>12 DEF CheckOutEarly
<1>13. ASSUME NEW t \in Targets, NEW a \in Attempts, Activate(t, a) PROVE TargetFrame
  BY <1>13 DEF Activate
<1>14. ASSUME NEW a \in Attempts, Start(a) PROVE TargetFrame
  <2>1. work[a].target \in Targets /\ Exists(work[a].target)
    BY <1>14 DEF Start, AttemptsHaveTargets
  <2>. QED
    BY <1>14, <2>1 DEF Start
<1>15. ASSUME NEW a \in Attempts, CompleteFieldWork(a) PROVE TargetFrame
  BY <1>15 DEF CompleteFieldWork
<1>16. ASSUME NEW a \in Attempts, AllowFinish(a) PROVE TargetFrame
  BY <1>16 DEF AllowFinish
<1>17. ASSUME NEW a \in Attempts, LimitedComplete(a) PROVE TargetFrame
  BY <1>17 DEF LimitedComplete
<1>18. ASSUME NEW a \in Attempts, AllowUpload(a) PROVE TargetFrame
  BY <1>18 DEF AllowUpload
<1>19. ASSUME NEW a \in Attempts, CreateSubmission(a) PROVE TargetFrame
  <2>1. work[a].target \in Targets /\ Exists(work[a].target)
    BY <1>19 DEF CreateSubmission, AttemptsHaveTargets
  <2>. QED
    BY <1>19, <2>1 DEF CreateSubmission
<1>20. ASSUME NEW a \in Attempts, NEW b \in Attempts, NEW m \in Maids, NEW d \in BOOLEAN,
              InterruptHandover(a, b, m, d)
       PROVE TargetFrame
  <2>1. work[a].target \in Targets /\ Exists(work[a].target)
    BY <1>20 DEF InterruptHandover, AttemptsHaveTargets
  <2>. QED
    BY <1>20, <2>1 DEF InterruptHandover
<1>21. ASSUME NEW t \in Targets, NEW n \in Targets, CancelUnavailable(t, n)
       PROVE TargetFrame
  BY <1>21 DEF CancelUnavailable, ReturnToPool, EndAssignment, NextTarget, Bump
<1>22. ASSUME NEW a \in Attempts, NEW n \in Targets, ForceRecall(a, n) PROVE TargetFrame
  <2>1. work[a].target \in Targets /\ Exists(work[a].target)
    BY <1>22 DEF ForceRecall, AttemptsHaveTargets
  <2>. QED
    BY <1>22, <2>1 DEF ForceRecall, ReturnToPool, EndAssignment, NextTarget, Bump
<1>23. ASSUME NEW a \in Attempts, NEW v \in 1..MaxSubmission, Approve(a, v)
       PROVE TargetFrame
  <2>1. work[a].target \in Targets /\ Exists(work[a].target)
    BY <1>23 DEF Approve, Inspectable, AttemptsHaveTargets
  <2>. QED
    BY <1>23, <2>1 DEF Approve, Inspectable
<1>24. ASSUME NEW a \in Attempts, NEW v \in 1..MaxSubmission, NEW n \in Targets,
              Reject(a, v, n)
       PROVE TargetFrame
  <2>1. work[a].target \in Targets /\ Exists(work[a].target)
    BY <1>24 DEF Reject, Inspectable, AttemptsHaveTargets
  <2>. QED
    BY <1>24, <2>1 DEF Reject, Inspectable, NextTarget
<1>25. ASSUME NEW m \in Maids, NEW s \in {"active", "inactive", "departed"},
              ChangeAccountStatus(m, s)
       PROVE TargetFrame
  BY <1>25 DEF ChangeAccountStatus
<1>26. CASE UNCHANGED vars
  BY <1>26 DEF vars
<1>. QED
  BY <1>1, <1>2, <1>3, <1>4, <1>5, <1>6, <1>7, <1>8, <1>9, <1>10, <1>11, <1>12, <1>13,
     <1>14, <1>15, <1>16, <1>17, <1>18, <1>19, <1>20, <1>21, <1>22, <1>23, <1>24, <1>25,
     <1>26 DEF Next

(* The inductive invariant.  RunningIsAuthorised is not inductive alone: a    *)
(* command that ends one attempt of a target must not leave another one       *)
(* running there (OneBlockingAttemptPerTarget), one that changes an account   *)
(* must not strand other work of the maid (OneRunningPerMaid), and moving a   *)
(* checkout must not reach running work (NoWorkBeforeCheckout).               *)
IInv ==
  /\ TypeOK
  /\ AttemptsHaveTargets
  /\ RecleanKnowsItsOrigin
  /\ RecleanStaysWithItsMaid
  /\ NoWorkBeforeCheckout
  /\ OneBlockingAttemptPerTarget
  /\ OneRunningPerMaid
  /\ OneRunningPerRoom
  /\ RunningIsAuthorised

\* A step that lets attempt x run on leaves its authority alone.
KeepsAuthority(x) ==
  LET t == work[x].target
  IN  /\ status'[t] = "in_progress"
      /\ version'[t] = version[t] /\ assignment'[t] = assignment[t]
      /\ profile'[work[x].maid] \in {"active", "deactivation_pending"}
AuthorityFrame ==
  \A x \in Attempts : Running(x) /\ phase'[x] = "in_progress" => KeepsAuthority(x)

\* What the invariant says of an attempt that is running.
LEMMA RunningAttempt ==
  ASSUME IInv, NEW x \in Attempts, Running(x)
  PROVE  /\ work[x].target \in Targets /\ Exists(work[x].target)
         /\ status[work[x].target] = "in_progress"
         /\ CurrentNotified(work[x].target)
         /\ assignment[work[x].target].maid = work[x].maid
         /\ work[x].maid \in Maids
         /\ profile[work[x].maid] \in {"active", "deactivation_pending"}
         /\ x \in BlockingAttempts(work[x].target)
         /\ \A y \in Attempts : Blocking(y) /\ work[y].target = work[x].target => y = x
         /\ \A y \in Attempts : Running(y) /\ work[y].maid = work[x].maid => y = x
         /\ \A o \in Checkouts : obligation[o] = "private" => o # work[x].target
<1>1. work[x] \in Work /\ phase[x] = "in_progress"
  BY DEF IInv, TypeOK, Running
<1>2. /\ work[x].target \in Targets /\ Exists(work[x].target)
      /\ status[work[x].target] = "in_progress" /\ OnCurrentAssignment(x)
      /\ profile[work[x].maid] \in {"active", "deactivation_pending"}
  BY <1>1 DEF IInv, AttemptsHaveTargets, RunningIsAuthorised
<1>3. work[x].maid \in Maids
  BY <1>1, <1>2 DEF OnCurrentAssignment, CurrentNotified, Assigned, Work
<1>4. Blocking(x) /\ x \in AttemptsOf(work[x].target)
  BY <1>1 DEF Blocking, AttemptsOf
<1>5. \A o \in Checkouts : obligation[o] = "private" => o # work[x].target
  BY <1>4 DEF IInv, NoWorkBeforeCheckout
<1>. QED
  BY <1>2, <1>3, <1>4, <1>5
     DEF IInv, OnCurrentAssignment, BlockingAttempts, OneBlockingAttemptPerTarget,
         OneRunningPerMaid

\* Every step respects AuthorityFrame.
LEMMA AuthorityStep == IInv /\ [Next]_vars => AuthorityFrame
<1>. SUFFICES ASSUME IInv, [Next]_vars, NEW x \in Attempts, Running(x), phase'[x] =
   "in_progress"
              PROVE  KeepsAuthority(x)
  BY DEF AuthorityFrame
<1>. USE DEF IInv, TypeOK, Running, KeepsAuthority,
             targetVars, attemptVars, inspectionVars
<1>1. ASSUME NEW t \in Targets, NEW m \in Maids, SaveDraft(t, m) PROVE KeepsAuthority(x)
  BY <1>1, RunningAttempt DEF SaveDraft, EndAssignment, Bump
<1>2. ASSUME NEW t \in Targets, NEW m \in Maids, PrestartChange(t, m)
      PROVE KeepsAuthority(x)
  BY <1>2, RunningAttempt DEF PrestartChange, PreStart, EndAssignment, Bump
<1>3. ASSUME NEW t \in Targets, CommitNotify(t) PROVE KeepsAuthority(x)
  BY <1>3, RunningAttempt DEF CommitNotify
<1>4. ASSUME NEW t \in Targets, PrestartUnassign(t) PROVE KeepsAuthority(x)
  BY <1>4, RunningAttempt DEF PrestartUnassign, PreStart, EndAssignment, Bump
<1>5. ASSUME NEW t \in Targets, RequestCancellation(t) PROVE KeepsAuthority(x)
  BY <1>5, RunningAttempt DEF RequestCancellation
<1>6. ASSUME NEW t \in Targets, ApproveCancellation(t) PROVE KeepsAuthority(x)
  BY <1>6, RunningAttempt DEF ApproveCancellation, Undecided, PreStart, Bump
<1>7. ASSUME NEW t \in Targets, RejectCancellation(t) PROVE KeepsAuthority(x)
  BY <1>7, RunningAttempt DEF RejectCancellation
<1>8. ASSUME NEW t \in Targets, MidnightRollover(t) PROVE KeepsAuthority(x)
  BY <1>8, RunningAttempt DEF MidnightRollover, EndAssignment, Bump
<1>9. ASSUME NEW t \in Targets, CancelManualRequest(t) PROVE KeepsAuthority(x)
  BY <1>9, RunningAttempt DEF CancelManualRequest, EndAssignment, Bump
<1>10. ASSUME NEW t \in Targets, RescheduleCheckout(t) PROVE KeepsAuthority(x)
  BY <1>10, RunningAttempt DEF RescheduleCheckout, EndAssignment, Bump
<1>11. ASSUME NEW t \in Targets, CheckOutOnTime(t) PROVE KeepsAuthority(x)
  BY <1>11, RunningAttempt DEF CheckOutOnTime
<1>12. ASSUME NEW t \in Targets, CheckOutEarly(t) PROVE KeepsAuthority(x)
  BY <1>12, RunningAttempt DEF CheckOutEarly, EndAssignment, Bump
<1>13. ASSUME NEW t \in Targets, NEW a \in Attempts, Activate(t, a)
       PROVE KeepsAuthority(x)
  BY <1>13, RunningAttempt DEF Activate
<1>14. ASSUME NEW a \in Attempts, Start(a) PROVE KeepsAuthority(x)
  BY <1>14, RunningAttempt DEF Start, Blocking, Running, RunningFor
<1>15. ASSUME NEW a \in Attempts, CompleteFieldWork(a) PROVE KeepsAuthority(x)
  BY <1>15, RunningAttempt DEF CompleteFieldWork
<1>16. ASSUME NEW a \in Attempts, AllowFinish(a) PROVE KeepsAuthority(x)
  BY <1>16, RunningAttempt DEF AllowFinish
<1>17. ASSUME NEW a \in Attempts, LimitedComplete(a) PROVE KeepsAuthority(x)
  BY <1>17, RunningAttempt DEF LimitedComplete, Blocking, Running, RunningFor
<1>18. ASSUME NEW a \in Attempts, AllowUpload(a) PROVE KeepsAuthority(x)
  BY <1>18, RunningAttempt DEF AllowUpload, RunningFor
<1>19. ASSUME NEW a \in Attempts, CreateSubmission(a) PROVE KeepsAuthority(x)
  BY <1>19, RunningAttempt DEF CreateSubmission, Blocking, Running, RunningFor
<1>20. ASSUME NEW a \in Attempts, NEW b \in Attempts, NEW m \in Maids, NEW d \in BOOLEAN,
              InterruptHandover(a, b, m, d)
       PROVE KeepsAuthority(x)
  BY <1>20, RunningAttempt DEF InterruptHandover, EndAssignment, Bump, Blocking, Running
<1>21. ASSUME NEW t \in Targets, NEW n \in Targets, CancelUnavailable(t, n)
       PROVE KeepsAuthority(x)
  BY <1>21, RunningAttempt DEF CancelUnavailable, BlockingAttempts, Exists,
     ReturnToPool, EndAssignment, NextTarget, Bump
<1>22. ASSUME NEW a \in Attempts, NEW n \in Targets, ForceRecall(a, n)
       PROVE KeepsAuthority(x)
  BY <1>22, RunningAttempt DEF ForceRecall, Blocking, Running, Exists, ReturnToPool,
     EndAssignment, NextTarget, Bump
<1>23. ASSUME NEW a \in Attempts, NEW v \in 1..MaxSubmission, Approve(a, v)
       PROVE KeepsAuthority(x)
  BY <1>23, RunningAttempt DEF Approve, Inspectable, Blocking, Running
<1>24. ASSUME NEW a \in Attempts, NEW v \in 1..MaxSubmission, NEW n \in Targets,
              Reject(a, v, n)
       PROVE KeepsAuthority(x)
  BY <1>24, RunningAttempt DEF Reject, Inspectable, NextTarget, Exists, Blocking, Running
<1>25. ASSUME NEW m \in Maids, NEW s \in {"active", "inactive", "departed"},
              ChangeAccountStatus(m, s)
       PROVE KeepsAuthority(x)
  BY <1>25, RunningAttempt DEF ChangeAccountStatus, RunningFor
<1>26. CASE UNCHANGED vars
  BY <1>26, RunningAttempt DEF vars
<1>. HIDE DEF IInv, TypeOK, Running, KeepsAuthority
<1>. QED
  BY <1>1, <1>2, <1>3, <1>4, <1>5, <1>6, <1>7, <1>8, <1>9, <1>10, <1>11, <1>12, <1>13,
     <1>14, <1>15, <1>16, <1>17, <1>18, <1>19, <1>20, <1>21, <1>22, <1>23, <1>24, <1>25,
     <1>26 DEF Next

\* The states in which an attempt blocks nobody.
Gone == {"absent", "superseded", "interrupted"}

\* A new attempt is made for an existing target, by the maid its reclean is
\* bound to, after checkout, and without company.
LEMMA NewAttempt ==
  ASSUME IInv, AttemptFrame, NEW x \in Attempts, phase[x] = "absent", phase'[x] # "absent"
  PROVE  /\ phase'[x] = "scheduled"
         /\ work'[x].target \in Targets /\ Exists(work'[x].target)
         /\ IsReclean(work'[x].target) => work'[x].maid = RecleanMaid(work'[x].target)
         /\ work'[x].target \in Checkouts =>
              obligation[work'[x].target] \in {"materialized", "completed"}
         /\ \A y \in Attempts \ {x} :
              phase'[y] \notin Gone => work'[y].target # work'[x].target
<1>1. CASE \E t \in Targets : Activate(t, x)
  <2>1. PICK t \in Targets : Activate(t, x)
    BY <1>1
  <2>2. phase' = [phase EXCEPT ![x] = "scheduled"] /\ work'[x].target = t
        /\ work'[x].maid = assignment[t].maid
    BY <2>1 DEF Activate, IInv, TypeOK
  <2>3. Exists(t) /\ (t \in Checkouts => obligation[t] \in {"materialized", "completed"})
    BY <2>1 DEF Activate, Exists, ActivationAllowed
  <2>4. IsReclean(t) => assignment[t].maid = RecleanMaid(t)
    BY <2>1 DEF Activate, ActivationAllowed
  <2>5. \A y \in Attempts : phase[y] \notin Gone => work[y].target # t
    BY <2>1 DEF Activate, BlockingAttempts, AttemptsOf, Blocking, Gone
  <2>6. \A y \in Attempts \ {x} : phase'[y] = phase[y] /\ work'[y] = work[y]
    BY <2>1 DEF Activate, IInv, TypeOK
  <2>. QED
    BY <2>2, <2>3, <2>4, <2>5, <2>6 DEF IInv, TypeOK
<1>2. CASE \E a \in Attempts, m \in Maids, d \in BOOLEAN : InterruptHandover(a, x, m, d)
  <2>1. PICK a \in Attempts, m \in Maids, d \in BOOLEAN : InterruptHandover(a, x, m, d)
    BY <1>2
  <2>. DEFINE t == work[a].target
  <2>2. /\ phase' = [phase EXCEPT ![a] = "interrupted", ![x] = "scheduled"]
        /\ work'[x].target = t /\ a # x /\ Running(a)
    BY <2>1 DEF InterruptHandover, NextAttempt, IInv, TypeOK, Running
  <2>3. /\ t \in Targets /\ Exists(t) /\ ~IsReclean(t)
        /\ t \in Checkouts => obligation[t] \in {"materialized", "completed"}
    BY <2>1, <2>2, RunningAttempt DEF InterruptHandover, ActivationAllowed
  <2>4. \A y \in Attempts : Blocking(y) /\ work[y].target = t => y = a
    BY <2>2, RunningAttempt
  <2>5. \A y \in Attempts \ {a} : phase[y] \notin Gone => work[y].target # t
    BY <2>4 DEF Blocking, Gone
  <2>6. /\ phase'[a] \in Gone /\ phase'[x] = "scheduled"
        /\ \A y \in Attempts \ {a, x} : phase'[y] = phase[y]
        /\ \A y \in Attempts \ {x} : work'[y] = work[y]
    BY <2>1, <2>2 DEF InterruptHandover, IInv, TypeOK, Gone
  <2>. QED
    BY <2>2, <2>3, <2>5, <2>6
<1>. QED
  BY <1>1, <1>2 DEF AttemptFrame

\* References to targets and to rejected attempts stay valid.
LEMMA ReferencesStep ==
  IInv /\ AttemptFrame /\ TargetFrame => AttemptsHaveTargets' /\ RecleanKnowsItsOrigin'
<1>. SUFFICES ASSUME IInv, AttemptFrame, TargetFrame
              PROVE  AttemptsHaveTargets' /\ RecleanKnowsItsOrigin'
  OBVIOUS
<1>1. ASSUME NEW x \in Attempts, phase'[x] # "absent"
      PROVE  work'[x].target \in Targets /\ status'[work'[x].target] # "absent"
  <2>1. work'[x].target \in Targets /\ Exists(work'[x].target)
    BY <1>1, NewAttempt DEF AttemptFrame, IInv, AttemptsHaveTargets
  <2>. QED
    BY <2>1 DEF TargetFrame
<1>2. ASSUME NEW t \in Targets, status'[t] # "absent", contract'[t].source =
   "inspection_reclean"
      PROVE  contract'[t].recleanOf \in Attempts /\ phase'[contract'[t].recleanOf] =
         "rejected"
  <2>1. CASE Exists(t)
    BY <1>2, <2>1 DEF TargetFrame, AttemptFrame, IInv, RecleanKnowsItsOrigin, IsReclean,
       Ended
  <2>2. CASE ~Exists(t)
    <3>1. PICK a \in Attempts, v \in 1..MaxSubmission : Reject(a, v, t)
      BY <1>2, <2>2 DEF TargetFrame
    <3>. QED
      BY <3>1 DEF Reject, IInv, TypeOK
  <2>. QED
    BY <2>1, <2>2
<1>. QED
  BY <1>1, <1>2 DEF AttemptsHaveTargets, RecleanKnowsItsOrigin, Exists, IsReclean

\* A new attempt has no blocking company; the others can only end.
LEMMA BlockingStep == IInv /\ AttemptFrame => OneBlockingAttemptPerTarget'
<1>. SUFFICES ASSUME IInv, AttemptFrame, NEW a \in Attempts, NEW b \in Attempts,
                     phase'[a] \notin Gone, phase'[b] \notin Gone,
                     work'[a].target = work'[b].target, a # b
              PROVE  FALSE
  BY DEF OneBlockingAttemptPerTarget, Blocking, Gone
<1>1. CASE phase[a] # "absent" /\ phase[b] # "absent"
  BY <1>1 DEF IInv, OneBlockingAttemptPerTarget, Blocking, AttemptFrame, Ended, Gone
<1>2. CASE phase[a] = "absent"
  BY <1>2, NewAttempt DEF Gone
<1>3. CASE phase[b] = "absent"
  BY <1>3, NewAttempt DEF Gone
<1>. QED
  BY <1>1, <1>2, <1>3

\* Only Start makes an attempt run, and it looks for the maid and the room.
LEMMA RunningStep ==
  IInv /\ AttemptFrame /\ TargetFrame => OneRunningPerMaid' /\ OneRunningPerRoom'
<1>. SUFFICES ASSUME IInv, AttemptFrame, TargetFrame, NEW a \in Attempts, NEW b \in
   Attempts,
                     phase'[a] = "in_progress", phase'[b] = "in_progress", a # b
              PROVE  /\ work'[a].maid # work'[b].maid
                     /\ Room(work[a].target)' # Room(work[b].target)'
  BY DEF OneRunningPerMaid, OneRunningPerRoom, Running
<1>1. ASSUME NEW x \in Attempts, phase'[x] = "in_progress"
      PROVE  /\ phase[x] = "in_progress" \/ Start(x)
             /\ phase[x] # "absent" /\ work'[x] = work[x]
             /\ work[x].target \in Targets /\ Exists(work[x].target)
             /\ Room(work[x].target)' = Room(work[x].target)
  <2>1. phase[x] = "in_progress" \/ Start(x)
    BY <1>1 DEF AttemptFrame
  <2>2. phase[x] # "absent"
    BY <2>1 DEF Start
  <2>3. work'[x] = work[x] /\ work[x].target \in Targets /\ Exists(work[x].target)
    BY <2>2 DEF AttemptFrame, IInv, AttemptsHaveTargets
  <2>. QED
    BY <2>1, <2>2, <2>3 DEF TargetFrame, Room
<1>2. ASSUME NEW x \in Attempts, NEW y \in Attempts \ {x}, Start(x), phase[y] =
   "in_progress",
             work[y].target \in Targets, Exists(work[y].target)
      PROVE  work[x].maid # work[y].maid /\ Room(work[x].target) # Room(work[y].target)
  <2>1. work[x].maid # work[y].maid
    BY <1>2 DEF Start, RunningFor, Running
  <2>2. work[x].target # work[y].target
    BY <1>2, RunningAttempt DEF Start, Running
  <2>3. ActivationAllowed(work[x].target, work[x].maid)
    BY <1>2 DEF Start
  <2>4. Room(work[x].target) # Room(work[y].target)
    BY <1>2, <2>2, <2>3 DEF ActivationAllowed, RoomReady, RoomMates, AttemptsOf, Running
  <2>. QED
    BY <2>1, <2>4
<1>3. ~(Start(a) /\ Start(b))
  BY DEF Start, IInv, TypeOK
<1>4. CASE phase[a] = "in_progress" /\ phase[b] = "in_progress"
  BY <1>1, <1>4 DEF IInv, OneRunningPerMaid, OneRunningPerRoom, Running
<1>. QED
  BY <1>1, <1>2, <1>3, <1>4

\* Start checks the authority, and every later step keeps it.
LEMMA AuthorityHolds ==
  IInv /\ AttemptFrame /\ AuthorityFrame => RunningIsAuthorised'
<1>. SUFFICES ASSUME IInv, AttemptFrame, AuthorityFrame, NEW x \in Attempts,
                     phase'[x] = "in_progress"
              PROVE  /\ OnCurrentAssignment(x)'
                     /\ status'[work'[x].target] = "in_progress"
                     /\ profile'[work'[x].maid] \in {"active", "deactivation_pending"}
  BY DEF RunningIsAuthorised, Running
<1>1. CASE Start(x)
  <2>. DEFINE t == work[x].target
  <2>1. /\ OnCurrentAssignment(x) /\ profile[work[x].maid] = "active" /\ phase[x] # "absent"
        /\ status' = [status EXCEPT ![t] = "in_progress"]
        /\ UNCHANGED <<version, assignment, work, profile>>
    BY <1>1 DEF Start, ActivationAllowed
  <2>2. t \in Targets
    BY <2>1 DEF IInv, AttemptsHaveTargets
  <2>. QED
    BY <2>1, <2>2 DEF OnCurrentAssignment, CurrentNotified, Assigned, IInv, TypeOK
<1>2. CASE phase[x] = "in_progress"
  <2>1. Running(x) /\ work'[x] = work[x] /\ KeepsAuthority(x)
    BY <1>2 DEF Running, AttemptFrame, AuthorityFrame
  <2>2. OnCurrentAssignment(x)
    BY <2>1 DEF IInv, RunningIsAuthorised
  <2>. QED
    BY <2>1, <2>2 DEF KeepsAuthority, OnCurrentAssignment, CurrentNotified, Assigned
<1>. QED
  BY <1>1, <1>2 DEF AttemptFrame

\* What one step may do to a commitment: a guest who left does not return, and
\* a reclean is assigned to its maid or to nobody.
CommitmentFrame ==
  /\ \A o \in Checkouts : obligation'[o] = "private" => obligation[o] = "private"
  /\ \A t \in Targets : Exists(t) /\ IsReclean(t) =>
       assignment'[t].maid \in {None, RecleanMaid(t), assignment[t].maid}

\* Every step respects CommitmentFrame.
LEMMA CommitmentStep == TypeOK /\ [Next]_vars => CommitmentFrame
<1>. SUFFICES ASSUME TypeOK, [Next]_vars PROVE CommitmentFrame
  OBVIOUS
<1>. USE DEF TypeOK, CommitmentFrame, targetVars, attemptVars, inspectionVars
<1>1. ASSUME NEW t \in Targets, NEW m \in Maids, SaveDraft(t, m) PROVE CommitmentFrame
  BY <1>1 DEF SaveDraft, MayBeAssigned, EndAssignment
<1>2. ASSUME NEW t \in Targets, NEW m \in Maids, PrestartChange(t, m)
      PROVE CommitmentFrame
  BY <1>2 DEF PrestartChange, MayBeAssigned, EndAssignment
<1>3. ASSUME NEW t \in Targets, CommitNotify(t) PROVE CommitmentFrame
  BY <1>3 DEF CommitNotify, Assignment
<1>4. ASSUME NEW t \in Targets, PrestartUnassign(t) PROVE CommitmentFrame
  BY <1>4, UnassignedType DEF PrestartUnassign, Unassigned, EndAssignment, Assignment
<1>5. ASSUME NEW t \in Targets, RequestCancellation(t) PROVE CommitmentFrame
  BY <1>5 DEF RequestCancellation
<1>6. ASSUME NEW t \in Targets, ApproveCancellation(t) PROVE CommitmentFrame
  BY <1>6 DEF ApproveCancellation, Unassigned
<1>7. ASSUME NEW t \in Targets, RejectCancellation(t) PROVE CommitmentFrame
  BY <1>7 DEF RejectCancellation
<1>8. ASSUME NEW t \in Targets, MidnightRollover(t) PROVE CommitmentFrame
  BY <1>8, UnassignedType DEF MidnightRollover, Unassigned, EndAssignment, Assignment
<1>9. ASSUME NEW t \in Targets, CancelManualRequest(t) PROVE CommitmentFrame
  BY <1>9, UnassignedType DEF CancelManualRequest, Unassigned, EndAssignment, Assignment
<1>10. ASSUME NEW t \in Targets, RescheduleCheckout(t) PROVE CommitmentFrame
  BY <1>10, UnassignedType DEF RescheduleCheckout, Unassigned, EndAssignment, Assignment
<1>11. ASSUME NEW t \in Targets, CheckOutOnTime(t) PROVE CommitmentFrame
  BY <1>11 DEF CheckOutOnTime
<1>12. ASSUME NEW t \in Targets, CheckOutEarly(t) PROVE CommitmentFrame
  BY <1>12, UnassignedType DEF CheckOutEarly, Unassigned, EndAssignment, Assignment
<1>13. ASSUME NEW t \in Targets, NEW a \in Attempts, Activate(t, a)
       PROVE CommitmentFrame
  BY <1>13 DEF Activate
<1>14. ASSUME NEW a \in Attempts, Start(a) PROVE CommitmentFrame
  BY <1>14 DEF Start
<1>15. ASSUME NEW a \in Attempts, CompleteFieldWork(a) PROVE CommitmentFrame
  BY <1>15 DEF CompleteFieldWork
<1>16. ASSUME NEW a \in Attempts, AllowFinish(a) PROVE CommitmentFrame
  BY <1>16 DEF AllowFinish
<1>17. ASSUME NEW a \in Attempts, LimitedComplete(a) PROVE CommitmentFrame
  BY <1>17 DEF LimitedComplete
<1>18. ASSUME NEW a \in Attempts, AllowUpload(a) PROVE CommitmentFrame
  BY <1>18 DEF AllowUpload
<1>19. ASSUME NEW a \in Attempts, CreateSubmission(a) PROVE CommitmentFrame
  BY <1>19 DEF CreateSubmission
<1>20. ASSUME NEW a \in Attempts, NEW b \in Attempts, NEW m \in Maids, NEW d \in BOOLEAN,
              InterruptHandover(a, b, m, d)
       PROVE CommitmentFrame
  BY <1>20 DEF InterruptHandover, EndAssignment
<1>21. ASSUME NEW t \in Targets, NEW n \in Targets, CancelUnavailable(t, n)
       PROVE CommitmentFrame
  BY <1>21 DEF CancelUnavailable, ReturnToPool, EndAssignment, Unassigned
<1>22. ASSUME NEW a \in Attempts, NEW n \in Targets, ForceRecall(a, n)
       PROVE CommitmentFrame
  BY <1>22 DEF ForceRecall, ReturnToPool, EndAssignment, Unassigned
<1>23. ASSUME NEW a \in Attempts, NEW v \in 1..MaxSubmission, Approve(a, v)
       PROVE CommitmentFrame
  BY <1>23 DEF Approve
<1>24. ASSUME NEW a \in Attempts, NEW v \in 1..MaxSubmission, NEW n \in Targets,
              Reject(a, v, n)
       PROVE CommitmentFrame
  BY <1>24 DEF Reject, NextTarget
<1>25. ASSUME NEW m \in Maids, NEW s \in {"active", "inactive", "departed"},
              ChangeAccountStatus(m, s)
       PROVE CommitmentFrame
  BY <1>25 DEF ChangeAccountStatus
<1>26. CASE UNCHANGED vars
  BY <1>26 DEF vars
<1>. QED
  BY <1>1, <1>2, <1>3, <1>4, <1>5, <1>6, <1>7, <1>8, <1>9, <1>10, <1>11, <1>12, <1>13,
     <1>14, <1>15, <1>16, <1>17, <1>18, <1>19, <1>20, <1>21, <1>22, <1>23, <1>24, <1>25,
     <1>26 DEF Next

\* From the frames: work follows the checkout and rework stays with its maid.
LEMMA CommitmentsHold ==
  IInv /\ AttemptFrame /\ TargetFrame /\ CommitmentFrame /\ RecleanKnowsItsOrigin'
    => NoWorkBeforeCheckout' /\ RecleanStaysWithItsMaid'
<1>. SUFFICES ASSUME IInv, AttemptFrame, TargetFrame, CommitmentFrame,
   RecleanKnowsItsOrigin'
              PROVE  NoWorkBeforeCheckout' /\ RecleanStaysWithItsMaid'
  OBVIOUS
<1>1. ASSUME NEW o \in Checkouts, obligation'[o] = "private",
             NEW x \in Attempts, phase'[x] # "absent", work'[x].target = o
      PROVE  FALSE
  <2>1. obligation[o] = "private"
    BY <1>1 DEF CommitmentFrame
  <2>2. CASE phase[x] = "absent"
    BY <1>1, <2>1, <2>2, NewAttempt
  <2>3. CASE phase[x] # "absent"
    BY <1>1, <2>1, <2>3 DEF AttemptFrame, IInv, NoWorkBeforeCheckout, AttemptsOf
  <2>. QED
    BY <2>2, <2>3
<1>2. ASSUME NEW t \in Targets, Exists(t), IsReclean(t)
      PROVE  /\ contract'[t] = contract[t] /\ RecleanMaid(t)' = RecleanMaid(t)
             /\ assignment'[t].maid \in {None, RecleanMaid(t)}
             /\ \A x \in Attempts :
                  phase'[x] # "absent" /\ work'[x].target = t => work'[x].maid =
                     RecleanMaid(t)
  <2>1. contract'[t] = contract[t]
    BY <1>2 DEF TargetFrame
  <2>2. work'[contract[t].recleanOf] = work[contract[t].recleanOf]
    BY <1>2 DEF IInv, RecleanKnowsItsOrigin, AttemptFrame
  <2>3. assignment'[t].maid \in {None, RecleanMaid(t)}
    BY <1>2 DEF CommitmentFrame, IInv, RecleanStaysWithItsMaid
  <2>4. ASSUME NEW x \in Attempts, phase'[x] # "absent", work'[x].target = t
        PROVE  work'[x].maid = RecleanMaid(t)
    <3>1. CASE phase[x] = "absent"
      BY <1>2, <2>4, <3>1, NewAttempt
    <3>2. CASE phase[x] # "absent"
      BY <1>2, <2>4, <3>2 DEF AttemptFrame, IInv, RecleanStaysWithItsMaid, AttemptsOf
    <3>. QED
      BY <3>1, <3>2
  <2>. QED
    BY <2>1, <2>2, <2>3, <2>4 DEF RecleanMaid
<1>3. ASSUME NEW t \in Targets, ~Exists(t), Exists(t)', IsReclean(t)'
      PROVE  /\ assignment'[t].maid = RecleanMaid(t)'
             /\ \A x \in Attempts : phase'[x] # "absent" => work'[x].target # t
  <2>1. PICK a \in Attempts, v \in 1..MaxSubmission : Reject(a, v, t)
    BY <1>3 DEF TargetFrame, Exists, IsReclean
  <2>2. assignment'[t].maid = RecleanMaid(t)'
    BY <2>1 DEF Reject, RecleanMaid, IInv, TypeOK
  <2>3. ASSUME NEW x \in Attempts, phase'[x] # "absent" PROVE work'[x].target # t
    BY <1>3, <2>3, NewAttempt DEF AttemptFrame, IInv, AttemptsHaveTargets
  <2>. QED
    BY <2>2, <2>3
<1>4. NoWorkBeforeCheckout'
  BY <1>1 DEF NoWorkBeforeCheckout, AttemptsOf
<1>5. ASSUME NEW t \in Targets, Exists(t)', IsReclean(t)'
      PROVE  /\ phase'[contract'[t].recleanOf] = "rejected"
             /\ assignment'[t].maid \in {None, RecleanMaid(t)'}
             /\ \A x \in Attempts :
                  phase'[x] # "absent" /\ work'[x].target = t => work'[x].maid =
                     RecleanMaid(t)'
  <2>1. phase'[contract'[t].recleanOf] = "rejected"
    BY <1>5 DEF RecleanKnowsItsOrigin
  <2>2. CASE Exists(t)
    <3>1. IsReclean(t)
      BY <1>5, <2>2 DEF TargetFrame, IsReclean
    <3>. QED
      BY <1>2, <2>1, <2>2, <3>1
  <2>3. CASE ~Exists(t)
    BY <1>3, <1>5, <2>1, <2>3
  <2>. QED
    BY <2>2, <2>3
<1>. QED
  BY <1>4, <1>5 DEF RecleanStaysWithItsMaid, AttemptsOf

-----------------------------------------------------------------------------
(* The theorems. *)

\* The invariant holds initially.
LEMMA InitEstablishes == Init => IInv
<1>. SUFFICES ASSUME Init PROVE IInv
  OBVIOUS
<1>1. TypeOK
  <2>1. 0 \in Versions /\ 1 \in Versions /\ 0 \in 0..MaxSubmission
    BY BoundsAreNatural DEF Versions
  <2>2. \A t \in Targets :
          [source |-> "original", lineage |-> t, anchor |-> t, recleanOf |-> 0, fee |->
             "paid"]
            \in Contract
    BY DEF Contract
  <2>3. NoRequest \in Request /\ [target |-> 0, maid |-> None, revision |-> 0] \in Work
        /\ [version |-> 0, state |-> "none"] \in Submission
    BY <2>1 DEF NoRequest, Request, Work, Submission
  <2>4. /\ profile \in [Maids -> ProfileStatus] /\ status \in [Targets -> TargetStatus]
        /\ phase \in [Attempts -> AttemptStatus] /\ version \in [Targets -> Versions]
    BY <2>1 DEF Init, ProfileStatus, TargetStatus, AttemptStatus
  <2>. QED
    BY <2>1, <2>2, <2>3, <2>4, UnassignedType DEF TypeOK, Init
<1>2. \A a \in Attempts : phase[a] = "absent"
  BY DEF Init
<1>3. \A t \in Targets : ~IsReclean(t)
  BY DEF Init, IsReclean
<1>4. /\ AttemptsHaveTargets /\ RecleanKnowsItsOrigin /\ RecleanStaysWithItsMaid
      /\ NoWorkBeforeCheckout
  BY <1>2, <1>3 DEF AttemptsHaveTargets, RecleanKnowsItsOrigin, RecleanStaysWithItsMaid,
                    NoWorkBeforeCheckout, AttemptsOf
<1>5. /\ OneBlockingAttemptPerTarget /\ OneRunningPerMaid /\ OneRunningPerRoom
      /\ RunningIsAuthorised
  BY <1>2 DEF OneBlockingAttemptPerTarget, OneRunningPerMaid, OneRunningPerRoom,
              RunningIsAuthorised, Running, Blocking
<1>. QED
  BY <1>1, <1>4, <1>5 DEF IInv

\* The frames together give the induction step.
LEMMA Inductive == IInv /\ [Next]_vars => IInv'
<1>. SUFFICES ASSUME IInv, [Next]_vars PROVE IInv'
  OBVIOUS
<1>1. TypeOK'
  BY TypeStep DEF IInv
<1>2. AttemptFrame /\ TargetFrame /\ CommitmentFrame
  BY AttemptStep, TargetStep, CommitmentStep DEF IInv
<1>3. AttemptsHaveTargets' /\ RecleanKnowsItsOrigin'
  BY <1>2, ReferencesStep
<1>4. NoWorkBeforeCheckout' /\ RecleanStaysWithItsMaid'
  BY <1>2, <1>3, CommitmentsHold
<1>5. OneBlockingAttemptPerTarget' /\ OneRunningPerMaid' /\ OneRunningPerRoom'
  BY <1>2, BlockingStep, RunningStep
<1>6. RunningIsAuthorised'
  BY <1>2, AuthorityStep, AuthorityHolds
<1>. QED
  BY <1>1, <1>3, <1>4, <1>5, <1>6 DEF IInv

\* The strengthened invariant holds in every behaviour of the commands.
THEOREM InductiveInvariant == Spec => []IInv
  BY InitEstablishes, Inductive, PTL DEF Spec

\* Every row stays within the values its columns and constraints allow.
THEOREM TypeCorrect == Spec => []TypeOK
  BY InductiveInvariant, PTL DEF IInv

\* However assignments change hands, a target has one attempt that counts.
THEOREM OneAttemptAtATime == Spec => []OneBlockingAttemptPerTarget
  BY InductiveInvariant, PTL DEF IInv

\* A maid never has two cleanings in progress.
THEOREM OneCleaningPerMaid == Spec => []OneRunningPerMaid
  BY InductiveInvariant, PTL DEF IInv

\* A room is never cleaned by two attempts at once.
THEOREM OneCleaningPerRoom == Spec => []OneRunningPerRoom
  BY InductiveInvariant, PTL DEF IInv

\* Work in progress always has a current assignment and an account behind it.
THEOREM WorkIsAuthorised == Spec => []RunningIsAuthorised
  BY InductiveInvariant, PTL DEF IInv

\* An unpaid reclean is never worked on by anybody but its maid.
THEOREM ReworkStays == Spec => []RecleanStaysWithItsMaid
  BY InductiveInvariant, PTL DEF IInv

\* An ended attempt, and who did what, is never rewritten.
THEOREM EndedIsFinal == Spec => EndedAttemptsStay
<1>1. IInv /\ [Next]_vars =>
        [\A a \in Attempts :
           /\ phase[a] \in {"interrupted", "approved", "rejected", "superseded"}
                => phase'[a] = phase[a]
           /\ phase[a] # "absent" => work'[a] = work[a]]_vars
  BY AttemptStep DEF IInv, AttemptFrame, Ended
<1>. QED
  BY <1>1, InductiveInvariant, PTL DEF Spec, EndedAttemptsStay

\* The step that AnsweredRequestsStay allows.
AnswersKept ==
  \A t \in Targets :
    request[t].state \in {"approved", "rejected"} =>
      request'[t] = request[t] \/ request'[t].state = "pending"

\* Every step keeps the answers; the trigger touches pending requests only.
LEMMA AnswerStep == TypeOK /\ [Next]_vars => AnswersKept
<1>. SUFFICES ASSUME TypeOK, [Next]_vars PROVE AnswersKept
  OBVIOUS
<1>. USE DEF TypeOK, AnswersKept, targetVars, attemptVars, inspectionVars
<1>1. ASSUME NEW t \in Targets, NEW m \in Maids, SaveDraft(t, m) PROVE AnswersKept
  BY <1>1 DEF SaveDraft, EndAssignment, SupersedeRequest
<1>2. ASSUME NEW t \in Targets, NEW m \in Maids, PrestartChange(t, m) PROVE AnswersKept
  BY <1>2 DEF PrestartChange, EndAssignment, SupersedeRequest
<1>3. ASSUME NEW t \in Targets, CommitNotify(t) PROVE AnswersKept
  BY <1>3 DEF CommitNotify
<1>4. ASSUME NEW t \in Targets, PrestartUnassign(t) PROVE AnswersKept
  BY <1>4 DEF PrestartUnassign, EndAssignment, SupersedeRequest
<1>5. ASSUME NEW t \in Targets, RequestCancellation(t) PROVE AnswersKept
  BY <1>5 DEF RequestCancellation
<1>6. ASSUME NEW t \in Targets, ApproveCancellation(t) PROVE AnswersKept
  BY <1>6 DEF ApproveCancellation, Undecided
<1>7. ASSUME NEW t \in Targets, RejectCancellation(t) PROVE AnswersKept
  BY <1>7 DEF RejectCancellation, Undecided
<1>8. ASSUME NEW t \in Targets, MidnightRollover(t) PROVE AnswersKept
  BY <1>8 DEF MidnightRollover, EndAssignment, SupersedeRequest
<1>9. ASSUME NEW t \in Targets, CancelManualRequest(t) PROVE AnswersKept
  BY <1>9 DEF CancelManualRequest, EndAssignment, SupersedeRequest
<1>10. ASSUME NEW t \in Targets, RescheduleCheckout(t) PROVE AnswersKept
  BY <1>10 DEF RescheduleCheckout, EndAssignment, SupersedeRequest
<1>11. ASSUME NEW t \in Targets, CheckOutOnTime(t) PROVE AnswersKept
  BY <1>11 DEF CheckOutOnTime
<1>12. ASSUME NEW t \in Targets, CheckOutEarly(t) PROVE AnswersKept
  BY <1>12 DEF CheckOutEarly, EndAssignment, SupersedeRequest
<1>13. ASSUME NEW t \in Targets, NEW a \in Attempts, Activate(t, a) PROVE AnswersKept
  BY <1>13 DEF Activate
<1>14. ASSUME NEW a \in Attempts, Start(a) PROVE AnswersKept
  BY <1>14 DEF Start
<1>15. ASSUME NEW a \in Attempts, CompleteFieldWork(a) PROVE AnswersKept
  BY <1>15 DEF CompleteFieldWork
<1>16. ASSUME NEW a \in Attempts, AllowFinish(a) PROVE AnswersKept
  BY <1>16 DEF AllowFinish
<1>17. ASSUME NEW a \in Attempts, LimitedComplete(a) PROVE AnswersKept
  BY <1>17 DEF LimitedComplete
<1>18. ASSUME NEW a \in Attempts, AllowUpload(a) PROVE AnswersKept
  BY <1>18 DEF AllowUpload
<1>19. ASSUME NEW a \in Attempts, CreateSubmission(a) PROVE AnswersKept
  BY <1>19 DEF CreateSubmission
<1>20. ASSUME NEW a \in Attempts, NEW b \in Attempts, NEW m \in Maids, NEW d \in BOOLEAN,
              InterruptHandover(a, b, m, d)
       PROVE AnswersKept
  BY <1>20 DEF InterruptHandover, EndAssignment, SupersedeRequest
<1>21. ASSUME NEW t \in Targets, NEW n \in Targets, CancelUnavailable(t, n)
       PROVE AnswersKept
  BY <1>21 DEF CancelUnavailable, ReturnToPool, EndAssignment, SupersedeRequest
<1>22. ASSUME NEW a \in Attempts, NEW n \in Targets, ForceRecall(a, n) PROVE AnswersKept
  BY <1>22 DEF ForceRecall, ReturnToPool, EndAssignment, SupersedeRequest
<1>23. ASSUME NEW a \in Attempts, NEW v \in 1..MaxSubmission, Approve(a, v)
       PROVE AnswersKept
  BY <1>23 DEF Approve
<1>24. ASSUME NEW a \in Attempts, NEW v \in 1..MaxSubmission, NEW n \in Targets,
              Reject(a, v, n)
       PROVE AnswersKept
  BY <1>24 DEF Reject
<1>25. ASSUME NEW m \in Maids, NEW s \in {"active", "inactive", "departed"},
              ChangeAccountStatus(m, s)
       PROVE AnswersKept
  BY <1>25 DEF ChangeAccountStatus
<1>26. CASE UNCHANGED vars
  BY <1>26 DEF vars
<1>. QED
  BY <1>1, <1>2, <1>3, <1>4, <1>5, <1>6, <1>7, <1>8, <1>9, <1>10, <1>11, <1>12, <1>13,
     <1>14, <1>15, <1>16, <1>17, <1>18, <1>19, <1>20, <1>21, <1>22, <1>23, <1>24, <1>25,
     <1>26 DEF Next

\* The answer to a cancellation request is never rewritten.
THEOREM AnswersAreFinal == Spec => AnsweredRequestsStay
<1>1. TypeOK /\ [Next]_vars => [AnswersKept]_vars
  BY AnswerStep
<1>. QED
  BY <1>1, TypeCorrect, PTL DEF Spec, AnsweredRequestsStay, AnswersKept

-----------------------------------------------------------------------------
(***************************************************************************)
(* A target's status, assignment, request and attempts agree               *)
(* (CoherentStep), and from that agreement follows that no cleaning is     *)
(* lost, duplicated or paid twice and that a checkout is completed by the  *)
(* approval its chain of recleans ends in.                                 *)
(***************************************************************************)
\* No attempt of target t counts any more.
Idle(t) == \A x \in Attempts : work[x].target = t => phase[x] \in Gone

\* Some attempt of target t is in one of these states.
WorkedOn(t, states) == \E x \in Attempts : work[x].target = t /\ phase[x] \in states

\* The statuses whose target has an announced, current assignment.
Announced == {"notified", "in_progress", "inspection_pending", "approved", "rejected"}

(* TargetIsCoherent and PendingRequestIsCurrent, said of one target.  They    *)
(* need each other: only the announced assignment can be asked about.         *)
Coherent(t) ==
  /\ status[t] \in {"absent", "unassigned", "cancelled"} => ~Assigned(t) /\ Idle(t)
  /\ status[t] = "draft_assigned" =>
       Assigned(t) /\ ~assignment[t].notified /\ Idle(t)
  /\ status[t] \in Announced => CurrentNotified(t)
  /\ status[t] = "notified" =>
       \A x \in Attempts : work[x].target = t => phase[x] \in Gone \cup {"scheduled"}
  /\ status[t] = "in_progress" => WorkedOn(t, {"in_progress", "field_completed"})
  /\ status[t] = "approved" => WorkedOn(t, {"approved"})
  /\ status[t] = "rejected" => WorkedOn(t, {"rejected"})

RequestFollows(t) ==
  request[t].state = "pending" =>
    /\ Assigned(t) /\ assignment[t].notified
    /\ request[t].revision = assignment[t].revision

\* An attempt that exists is somebody's.
Manned == \A a \in Attempts : phase[a] # "absent" => work[a].maid \in Maids

Story == \A t \in Targets : Coherent(t)
Requests == \A t \in Targets : RequestFollows(t)

\* An attempt that counts has its target for itself.
LEMMA OnlyAttempt ==
  ASSUME IInv, NEW x \in Attempts, phase[x] \notin Gone
  PROVE  /\ work[x].target \in Targets /\ status[work[x].target] # "absent"
         /\ \A y \in Attempts \ {x} :
              work[y].target = work[x].target => phase[y] \in Gone
  BY DEF IInv, AttemptsHaveTargets, Exists, OneBlockingAttemptPerTarget, Blocking,
         Gone

\* Only activation and handover make attempts, and both name a maid.
LEMMA MannedStep == IInv /\ AttemptFrame /\ Manned => Manned'
<1>. SUFFICES ASSUME IInv, AttemptFrame, Manned, NEW a \in Attempts, phase'[a] # "absent"
              PROVE  work'[a].maid \in Maids
  BY DEF Manned
<1>1. CASE phase[a] # "absent"
  BY <1>1 DEF AttemptFrame, Manned
<1>2. ASSUME NEW t \in Targets, Activate(t, a) PROVE work'[a].maid \in Maids
  BY <1>2 DEF Activate, CurrentNotified, Assigned, Assignment, IInv, TypeOK
<1>3. ASSUME NEW b \in Attempts, NEW m \in Maids, NEW d \in BOOLEAN,
             InterruptHandover(b, a, m, d)
      PROVE  work'[a].maid \in Maids
  BY <1>3 DEF InterruptHandover, IInv, TypeOK
<1>. QED
  BY <1>1, <1>2, <1>3 DEF AttemptFrame

\* The two invariants of the runs are what Story and Requests say.
LEMMA StoryIsCoherence ==
  ASSUME TypeOK
  PROVE  Story => TargetIsCoherent
<1>. SUFFICES ASSUME Story, NEW t \in Targets
     PROVE  /\ status[t] \in {"absent", "unassigned", "cancelled"} =>
                 ~Assigned(t) /\ BlockingAttempts(t) = {}
            /\ status[t] = "draft_assigned" =>
                 Assigned(t) /\ ~assignment[t].notified /\ BlockingAttempts(t) = {}
            /\ status[t] \in Announced => CurrentNotified(t)
            /\ status[t] = "notified" =>
                 \A a \in BlockingAttempts(t) : phase[a] = "scheduled"
            /\ status[t] = "in_progress" =>
                 \E a \in BlockingAttempts(t) : phase[a] \in {"in_progress", "field_completed"}
            /\ status[t] \in {"approved", "rejected"} =>
                 \E a \in BlockingAttempts(t) : phase[a] = status[t]
  BY DEF TargetIsCoherent, Announced
<1>1. Coherent(t)
  BY DEF Story
<1>2. \A a \in Attempts :
        a \in BlockingAttempts(t) <=> work[a].target = t /\ phase[a] \notin Gone
  BY DEF BlockingAttempts, AttemptsOf, Blocking, Gone
<1>3. BlockingAttempts(t) \subseteq Attempts
  BY DEF BlockingAttempts, AttemptsOf
<1>. QED
  BY <1>1, <1>2, <1>3 DEF Coherent, Idle, WorkedOn, Gone
-----------------------------------------------------------------------------
(* Coherence, step by step.  First what a command must leave behind. *)

\* No attempt of target u that counts, before or after the step, is touched.
SameAttempts(u) ==
  \A x \in Attempts :
    \/ work[x].target = u /\ phase[x] \notin Gone
    \/ work'[x].target = u /\ phase'[x] \notin Gone
    => work[x].target = u /\ work'[x].target = u /\ phase'[x] = phase[x]

\* Commands that touch no attempt.
LEMMA NoAttemptTouched ==
  ASSUME UNCHANGED attemptVars, NEW u
  PROVE  SameAttempts(u) /\ (Idle(u) => Idle(u)')
  BY DEF SameAttempts, attemptVars, Idle

\* A step that leaves a target's status and attempts alone leaves it coherent
\* as long as a current assignment is reissued at the current revision.
LEMMA StaysCoherent ==
  ASSUME NEW u \in Targets, Coherent(u), SameAttempts(u), status'[u] = status[u],
         Assigned(u)' <=> Assigned(u),
         assignment'[u].notified <=> assignment[u].notified,
         CurrentNotified(u) => CurrentNotified(u)'
  PROVE  Coherent(u)'
<1>1. Idle(u) => Idle(u)'
  BY DEF Idle, SameAttempts
<1>2. /\ WorkedOn(u, {"approved"}) => WorkedOn(u, {"approved"})'
      /\ WorkedOn(u, {"rejected"}) => WorkedOn(u, {"rejected"})'
      /\ WorkedOn(u, {"in_progress", "field_completed"})
           => WorkedOn(u, {"in_progress", "field_completed"})'
  BY DEF WorkedOn, SameAttempts, Gone
<1>3. (\A x \in Attempts : work[x].target = u => phase[x] \in Gone \cup {"scheduled"})
        => \A x \in Attempts : work'[x].target = u => phase'[x] \in Gone \cup {"scheduled"}
  BY DEF SameAttempts
<1>. QED
  BY <1>1, <1>2, <1>3 DEF Coherent

\* So does one that leaves the assignment alone as well.
LEMMA UntouchedCoherent ==
  ASSUME NEW u \in Targets, Coherent(u), SameAttempts(u), status'[u] = status[u],
         assignment'[u] = assignment[u], version'[u] = version[u]
  PROVE  Coherent(u)'
  BY StaysCoherent DEF Assigned, CurrentNotified

\* A target that returns to the pool, or is closed, has nobody and no work.
LEMMA PoolCoherent ==
  ASSUME NEW u \in Targets, status'[u] \in {"unassigned", "cancelled"},
         ~Assigned(u)', Idle(u)'
  PROVE  Coherent(u)'
  BY DEF Coherent, Announced

\* A draft has a maid who has not been told and no work.
LEMMA DraftCoherent ==
  ASSUME NEW u \in Targets, status'[u] = "draft_assigned",
         Assigned(u)', ~assignment'[u].notified, Idle(u)'
  PROVE  Coherent(u)'
  BY DEF Coherent, Announced

\* An announced target has a current assignment and at most scheduled work.
LEMMA NotifiedCoherent ==
  ASSUME NEW u \in Targets, status'[u] = "notified", CurrentNotified(u)',
         \A x \in Attempts : work'[x].target = u => phase'[x] \in Gone \cup {"scheduled"}
  PROVE  Coherent(u)'
  BY DEF Coherent, Announced

\* A target that is worked on, or judged, has the attempt that shows it.
LEMMA WorkingCoherent ==
  ASSUME NEW u \in Targets, CurrentNotified(u)',
         \/ status'[u] = "in_progress" /\ WorkedOn(u, {"in_progress", "field_completed"})'
         \/ status'[u] = "inspection_pending"
         \/ status'[u] = "approved" /\ WorkedOn(u, {"approved"})'
         \/ status'[u] = "rejected" /\ WorkedOn(u, {"rejected"})'
  PROVE  Coherent(u)'
  BY DEF Coherent, Announced

\* Returning a target to the pool, by itself or through a replacement.
LEMMA ReturnCoherent ==
  ASSUME TypeOK, Story, NEW t \in Targets, NEW n \in Targets, NEW u \in Targets,
         Exists(t), ReturnToPool(t, n), Idle(t)', \A v : v # t => SameAttempts(v)
  PROVE  Coherent(u)'
<1>1. /\ ~Assigned(t)' /\ status'[t] \in {"unassigned", "cancelled"}
      /\ \A v \in Targets \ {t} : assignment'[v] = assignment[v]
      /\ \A v \in Targets \ {t, n} : status'[v] = status[v] /\ version'[v] = version[v]
  BY DEF ReturnToPool, EndAssignment, NextTarget, Exists, Bump, Unassigned, Assigned,
         TypeOK
<1>2. n # t => status[n] = "absent" /\ status'[n] = "unassigned"
  BY DEF ReturnToPool, NextTarget, Exists, TypeOK
<1>3. CASE u = t
  BY <1>1, <1>3, PoolCoherent
<1>4. CASE u = n /\ n # t
  <2>1. ~Assigned(n) /\ Idle(n)
    BY <1>2, <1>4 DEF Story, Coherent
  <2>2. ~Assigned(n)' /\ Idle(n)'
    BY <1>1, <1>4, <2>1 DEF Assigned, Idle, SameAttempts
  <2>. QED
    BY <1>2, <1>4, <2>2, PoolCoherent
<1>5. CASE u # t /\ u # n
  BY <1>1, <1>5, UntouchedCoherent DEF Story
<1>. QED
  BY <1>3, <1>4, <1>5

\* Every step keeps every target coherent.
LEMMA CoherentStep == IInv /\ Manned /\ Story /\ [Next]_vars => Story'
<1>. SUFFICES ASSUME IInv, Manned, Story, [Next]_vars, NEW u \in Targets
              PROVE  Coherent(u)'
  BY DEF Story
<1>. USE DEF targetVars, inspectionVars
<1>0. TypeOK /\ Coherent(u)
  BY DEF IInv, Story
<1>1. ASSUME NEW t \in Targets, NEW m \in Maids, SaveDraft(t, m)
      PROVE Coherent(u)'
  <2>1. SameAttempts(u) /\ (Idle(u) => Idle(u)')
    BY <1>1, NoAttemptTouched DEF SaveDraft
  <2>2. CASE u # t
    BY <1>1, <1>0, <2>1, <2>2, UntouchedCoherent
       DEF SaveDraft, EndAssignment, Bump, TypeOK
  <2>3. CASE u = t
    <3>1. status'[t] = "draft_assigned" /\ Assigned(t)' /\ ~assignment'[t].notified
      BY <1>1, <1>0, NoneIsNotAMaid DEF SaveDraft, EndAssignment, Assigned, TypeOK
    <3>2. Idle(t)
      BY <1>1, <1>0, <2>3 DEF SaveDraft, Coherent
    <3>. QED
      BY <2>1, <2>3, <3>1, <3>2, DraftCoherent
  <2>. QED
    BY <2>2, <2>3
<1>2. ASSUME NEW t \in Targets, NEW m \in Maids, PrestartChange(t, m)
      PROVE Coherent(u)'
  <2>1. SameAttempts(u) /\ (Idle(u) => Idle(u)')
    BY <1>2, NoAttemptTouched DEF PrestartChange
  <2>2. CASE u # t
    BY <1>2, <1>0, <2>1, <2>2, UntouchedCoherent
       DEF PrestartChange, PreStart, EndAssignment, Bump, TypeOK
  <2>3. CASE u = t
    <3>1. /\ status'[t] = status[t] /\ status[t] \in {"draft_assigned", "notified"}
          /\ assignment'[t].maid = m
          /\ assignment'[t].notified = (status[t] = "notified")
          /\ assignment'[t].revision = version'[t]
      BY <1>2, <1>0 DEF PrestartChange, PreStart, EndAssignment, Bump, TypeOK
    <3>2. Assigned(t)'
      BY <3>1, NoneIsNotAMaid DEF Assigned
    <3>3. Idle(t)'
      BY <1>2, <2>1, <2>3 DEF PrestartChange, PreStart, BlockingAttempts, AttemptsOf,
                             Blocking, Idle, Gone
    <3>. QED
      BY <2>3, <3>1, <3>2, <3>3, DraftCoherent, NotifiedCoherent
         DEF CurrentNotified, Idle
  <2>. QED
    BY <2>2, <2>3
<1>3. ASSUME NEW t \in Targets, CommitNotify(t)
      PROVE Coherent(u)'
  <2>1. SameAttempts(u) /\ (Idle(u) => Idle(u)')
    BY <1>3, NoAttemptTouched DEF CommitNotify
  <2>2. CASE u # t
    BY <1>3, <1>0, <2>1, <2>2, UntouchedCoherent DEF CommitNotify, TypeOK
  <2>3. CASE u = t
    <3>1. /\ status'[t] = "notified" /\ assignment'[t].maid # None
          /\ assignment'[t].notified /\ assignment'[t].revision = version'[t]
      BY <1>3, <1>0 DEF CommitNotify, Assigned, Assignment, TypeOK
    <3>2. Idle(t)'
      BY <1>3, <1>0, <2>1, <2>3 DEF CommitNotify, Coherent
    <3>. QED
      BY <2>3, <3>1, <3>2, NotifiedCoherent DEF CurrentNotified, Assigned, Idle
  <2>. QED
    BY <2>2, <2>3
<1>4. ASSUME NEW t \in Targets, PrestartUnassign(t)
      PROVE Coherent(u)'
  <2>1. SameAttempts(u) /\ (Idle(u) => Idle(u)')
    BY <1>4, NoAttemptTouched DEF PrestartUnassign
  <2>2. CASE u # t
    BY <1>4, <1>0, <2>1, <2>2, UntouchedCoherent
       DEF PrestartUnassign, EndAssignment, Bump, TypeOK
  <2>3. CASE u = t
    <3>1. status'[t] = "unassigned" /\ ~Assigned(t)'
      BY <1>4, <1>0 DEF PrestartUnassign, EndAssignment, Unassigned, Assigned, TypeOK
    <3>2. Idle(t)'
      BY <1>4, <2>1, <2>3
         DEF PrestartUnassign, PreStart, BlockingAttempts, AttemptsOf, Blocking,
             Idle, Gone
    <3>. QED
      BY <2>3, <3>1, <3>2, PoolCoherent
  <2>. QED
    BY <2>2, <2>3
<1>5. ASSUME NEW t \in Targets, ApproveCancellation(t)
      PROVE Coherent(u)'
  <2>1. SameAttempts(u) /\ (Idle(u) => Idle(u)')
    BY <1>5, NoAttemptTouched DEF ApproveCancellation
  <2>2. CASE u # t
    BY <1>5, <1>0, <2>1, <2>2, UntouchedCoherent DEF ApproveCancellation, Bump, TypeOK
  <2>3. CASE u = t
    <3>1. status'[t] = "unassigned" /\ ~Assigned(t)'
      BY <1>5, <1>0 DEF ApproveCancellation, Unassigned, Assigned, TypeOK
    <3>2. Idle(t)'
      BY <1>5, <2>1, <2>3
         DEF ApproveCancellation, Undecided, PreStart, BlockingAttempts, AttemptsOf,
             Blocking, Idle, Gone
    <3>. QED
      BY <2>3, <3>1, <3>2, PoolCoherent
  <2>. QED
    BY <2>2, <2>3
<1>6. ASSUME NEW t \in Targets, CheckOutEarly(t)
      PROVE Coherent(u)'
  <2>1. SameAttempts(u) /\ (Idle(u) => Idle(u)')
    BY <1>6, NoAttemptTouched DEF CheckOutEarly
  <2>2. CASE u # t
    BY <1>6, <1>0, <2>1, <2>2, UntouchedCoherent
       DEF CheckOutEarly, EndAssignment, Bump, TypeOK
  <2>3. CASE u = t
    <3>1. CASE Assigned(t)
      <4>1. /\ status'[t] = status[t] /\ assignment'[t].maid = assignment[t].maid
            /\ assignment'[t].notified = assignment[t].notified
            /\ assignment'[t].revision = version'[t]
        BY <1>6, <1>0, <3>1 DEF CheckOutEarly, EndAssignment, Bump, Assignment, TypeOK
      <4>. QED
        BY <1>0, <2>1, <2>3, <4>1, StaysCoherent DEF Assigned, CurrentNotified
    <3>2. CASE ~Assigned(t)
      <4>1. status'[t] = status[t] /\ assignment'[t] = assignment[t]
        BY <1>6, <3>2 DEF CheckOutEarly
      <4>. QED
        BY <1>0, <2>1, <2>3, <3>2, <4>1, StaysCoherent DEF Assigned, CurrentNotified
    <3>. QED
      BY <3>1, <3>2
  <2>. QED
    BY <2>2, <2>3
<1>7. CASE UNCHANGED <<status, version, assignment, attemptVars>>
  BY <1>0, <1>7, NoAttemptTouched, UntouchedCoherent
<1>8. ASSUME NEW t \in Targets, MidnightRollover(t) PROVE Coherent(u)'
  <2>1. /\ status'[t] = "unassigned" /\ ~Assigned(t)'
        /\ u # t => /\ status'[u] = status[u] /\ assignment'[u] = assignment[u]
                    /\ version'[u] = version[u]
    BY <1>8, <1>0
       DEF MidnightRollover, EndAssignment, Bump, Unassigned, Assigned, TypeOK
  <2>2. u # t => SameAttempts(u)
    BY <1>8 DEF MidnightRollover, Retired, AttemptsOf, SameAttempts
  <2>3. Idle(t)'
    BY <1>8
       DEF MidnightRollover, Retired, BlockingAttempts, AttemptsOf, Blocking, Idle,
           Gone
  <2>. QED
    BY <1>0, <2>1, <2>2, <2>3, UntouchedCoherent, PoolCoherent
<1>9. ASSUME NEW t \in Targets, CancelManualRequest(t) PROVE Coherent(u)'
  <2>1. /\ status'[t] = "cancelled" /\ ~Assigned(t)'
        /\ u # t => /\ status'[u] = status[u] /\ assignment'[u] = assignment[u]
                    /\ version'[u] = version[u]
    BY <1>9, <1>0
       DEF CancelManualRequest, EndAssignment, Bump, Unassigned, Assigned, TypeOK
  <2>2. u # t => SameAttempts(u)
    BY <1>9 DEF CancelManualRequest, Retired, AttemptsOf, SameAttempts
  <2>3. \A x \in Attempts : work[x].target = t => phase[x] \in Gone \cup {"scheduled"}
    BY <1>9 DEF CancelManualRequest, Story, Coherent, Idle
  <2>4. Idle(t)'
    BY <1>9, <2>3 DEF CancelManualRequest, Retired, AttemptsOf, Idle, Gone
  <2>. QED
    BY <1>0, <2>1, <2>2, <2>4, UntouchedCoherent, PoolCoherent
<1>10. ASSUME NEW t \in Targets, RescheduleCheckout(t) PROVE Coherent(u)'
  <2>1. /\ status' = status /\ work' = work
        /\ u # t => assignment'[u] = assignment[u] /\ version'[u] = version[u]
    BY <1>10, <1>0 DEF RescheduleCheckout, EndAssignment, Bump, TypeOK
  <2>2. u # t => SameAttempts(u)
    BY <1>10 DEF RescheduleCheckout, Retired, AttemptsOf, SameAttempts
  <2>3. CASE status[t] = "notified"
    <3>1. /\ CurrentNotified(t) /\ phase' = Retired(t, "scheduled", "superseded")
          /\ assignment'[t].maid = assignment[t].maid
          /\ assignment'[t].notified = assignment[t].notified
          /\ assignment'[t].revision = version'[t]
      BY <1>10, <1>0, <2>3
         DEF RescheduleCheckout, EndAssignment, Bump, Assignment, TypeOK
    <3>2. CurrentNotified(t)'
      BY <3>1 DEF CurrentNotified, Assigned
    <3>3. \A x \in Attempts : work[x].target = t => phase[x] \in Gone \cup {"scheduled"}
      BY <2>3 DEF Story, Coherent
    <3>4. \A x \in Attempts : work'[x].target = t => phase'[x] \in Gone \cup {"scheduled"}
      BY <2>1, <3>1, <3>3 DEF Retired, AttemptsOf, Gone
    <3>. QED
      BY <1>0, <2>1, <2>2, <2>3, <3>2, <3>4, UntouchedCoherent, NotifiedCoherent
  <2>4. CASE status[t] # "notified"
    <3>1. /\ status[t] \in {"unassigned", "draft_assigned"} /\ ~assignment[t].notified
          /\ assignment' = assignment /\ phase' = phase
      BY <1>10, <2>4 DEF RescheduleCheckout
    <3>2. SameAttempts(u) /\ ~CurrentNotified(t)
      BY <2>1, <3>1 DEF SameAttempts, CurrentNotified
    <3>. QED
      BY <1>0, <2>1, <3>1, <3>2, UntouchedCoherent, StaysCoherent DEF Assigned
  <2>. QED
    BY <2>3, <2>4
<1>11. ASSUME NEW t \in Targets, NEW a \in Attempts, Activate(t, a) PROVE Coherent(u)'
  <2>1. /\ status' = status /\ assignment' = assignment /\ version' = version
        /\ phase[a] = "absent" /\ phase'[a] = "scheduled" /\ work'[a].target = t
        /\ \A x \in Attempts \ {a} : phase'[x] = phase[x] /\ work'[x] = work[x]
    BY <1>11, <1>0 DEF Activate, NextAttempt, TypeOK
  <2>2. u # t => SameAttempts(u)
    BY <2>1 DEF SameAttempts, Gone
  <2>3. \A x \in Attempts \ {a} : work[x].target = t => phase[x] \in Gone
    BY <1>11 DEF Activate, BlockingAttempts, AttemptsOf, Blocking, Gone
  <2>4. status[t] = "notified" /\ CurrentNotified(t)'
    BY <1>11, <2>1 DEF Activate, CurrentNotified, Assigned
  <2>. QED
    BY <1>0, <2>1, <2>2, <2>3, <2>4, UntouchedCoherent, NotifiedCoherent
<1>12. ASSUME NEW a \in Attempts, Start(a) PROVE Coherent(u)'
  <2>. DEFINE t == work[a].target
  <2>1. t \in Targets
    BY <1>12, OnlyAttempt DEF Start, Gone
  <2>2. /\ status'[t] = "in_progress" /\ (u # t => status'[u] = status[u])
        /\ assignment' = assignment /\ version' = version /\ work' = work
        /\ phase'[a] = "in_progress" /\ \A x \in Attempts \ {a} : phase'[x] = phase[x]
    BY <1>12, <1>0, <2>1 DEF Start, TypeOK
  <2>3. u # t => SameAttempts(u)
    BY <2>2 DEF SameAttempts
  <2>4. CurrentNotified(t)' /\ WorkedOn(t, {"in_progress", "field_completed"})'
    BY <1>12, <2>2 DEF Start, OnCurrentAssignment, CurrentNotified, Assigned, WorkedOn
  <2>. QED
    BY <1>0, <2>2, <2>3, <2>4, UntouchedCoherent, WorkingCoherent
<1>13. ASSUME NEW a \in Attempts, CompleteFieldWork(a) \/ LimitedComplete(a)
       PROVE Coherent(u)'
  <2>. DEFINE t == work[a].target
  <2>1. /\ status' = status /\ assignment' = assignment /\ version' = version
        /\ work' = work /\ phase[a] = "in_progress" /\ phase'[a] = "field_completed"
        /\ \A x \in Attempts \ {a} : phase'[x] = phase[x]
    BY <1>13, <1>0 DEF CompleteFieldWork, LimitedComplete, TypeOK
  <2>2. t \in Targets /\ status[t] = "in_progress" /\ CurrentNotified(t)
    BY <2>1, RunningAttempt DEF Running
  <2>3. u # t => SameAttempts(u)
    BY <2>1 DEF SameAttempts
  <2>4. CurrentNotified(t)' /\ WorkedOn(t, {"in_progress", "field_completed"})'
    BY <2>1, <2>2 DEF CurrentNotified, Assigned, WorkedOn
  <2>. QED
    BY <1>0, <2>1, <2>2, <2>3, <2>4, UntouchedCoherent, WorkingCoherent
<1>14. ASSUME NEW a \in Attempts, CreateSubmission(a) PROVE Coherent(u)'
  <2>. DEFINE t == work[a].target
  <2>1. t \in Targets
    BY <1>14, OnlyAttempt DEF CreateSubmission, Gone
  <2>2. /\ status'[t] = "inspection_pending" /\ (u # t => status'[u] = status[u])
        /\ assignment' = assignment /\ version' = version /\ work' = work
        /\ \A x \in Attempts \ {a} : phase'[x] = phase[x]
    BY <1>14, <1>0, <2>1 DEF CreateSubmission, TypeOK
  <2>3. u # t => SameAttempts(u)
    BY <2>2 DEF SameAttempts
  <2>4. CurrentNotified(t)'
    BY <1>14, <2>2
       DEF CreateSubmission, OnCurrentAssignment, CurrentNotified, Assigned
  <2>. QED
    BY <1>0, <2>2, <2>3, <2>4, UntouchedCoherent, WorkingCoherent
<1>15. ASSUME NEW a \in Attempts, NEW v \in 1..MaxSubmission, Approve(a, v)
       PROVE Coherent(u)'
  <2>. DEFINE t == work[a].target
  <2>1. t \in Targets /\ status[t] = "inspection_pending"
    BY <1>15, OnlyAttempt DEF Approve, Inspectable, Gone
  <2>2. /\ status'[t] = "approved" /\ (u # t => status'[u] = status[u])
        /\ assignment' = assignment /\ version' = version /\ work' = work
        /\ phase'[a] = "approved" /\ \A x \in Attempts \ {a} : phase'[x] = phase[x]
    BY <1>15, <1>0, <2>1 DEF Approve, TypeOK
  <2>3. u # t => SameAttempts(u)
    BY <2>2 DEF SameAttempts
  <2>4. CurrentNotified(t)' /\ WorkedOn(t, {"approved"})'
    BY <2>1, <2>2 DEF Story, Coherent, Announced, CurrentNotified, Assigned, WorkedOn
  <2>. QED
    BY <1>0, <2>2, <2>3, <2>4, UntouchedCoherent, WorkingCoherent
<1>16. ASSUME NEW a \in Attempts, NEW v \in 1..MaxSubmission, NEW n \in Targets,
              Reject(a, v, n)
       PROVE Coherent(u)'
  <2>. DEFINE t == work[a].target
  <2>1. t \in Targets /\ status[t] = "inspection_pending" /\ status[n] = "absent"
    BY <1>16, OnlyAttempt DEF Reject, Inspectable, NextTarget, Exists, Gone
  <2>2. /\ status'[t] = "rejected" /\ status'[n] = "notified"
        /\ u # t /\ u # n => status'[u] = status[u]
        /\ u # n => assignment'[u] = assignment[u] /\ version'[u] = version[u]
        /\ assignment'[n] = [maid |-> work[a].maid, revision |-> 1, notified |-> TRUE]
        /\ version'[n] = 1 /\ work' = work
        /\ phase'[a] = "rejected" /\ \A x \in Attempts \ {a} : phase'[x] = phase[x]
    BY <1>16, <1>0, <2>1 DEF Reject, TypeOK
  <2>3. u # t => SameAttempts(u)
    BY <2>2 DEF SameAttempts
  <2>4. CASE u = t
    <3>1. CurrentNotified(t)' /\ WorkedOn(t, {"rejected"})'
      BY <2>1, <2>2, <2>4
         DEF Story, Coherent, Announced, CurrentNotified, Assigned, WorkedOn
    <3>. QED
      BY <2>2, <2>4, <3>1, WorkingCoherent
  <2>5. CASE u = n
    <3>1. work[a].maid # None
      BY <1>16, NoneIsNotAMaid DEF Reject, Inspectable, Manned
    <3>2. CurrentNotified(n)'
      BY <2>2, <3>1 DEF CurrentNotified, Assigned
    <3>3. \A x \in Attempts : work'[x].target = n => phase'[x] \in Gone
      BY <2>1, <2>2 DEF Story, Coherent, Idle
    <3>. QED
      BY <2>2, <2>5, <3>2, <3>3, NotifiedCoherent
  <2>. QED
    BY <1>0, <2>2, <2>3, <2>4, <2>5, UntouchedCoherent
<1>17. ASSUME NEW a \in Attempts, NEW b \in Attempts, NEW m \in Maids, NEW d \in BOOLEAN,
              InterruptHandover(a, b, m, d)
       PROVE Coherent(u)'
  <2>1. PICK t \in Targets :
        /\ t = work[a].target /\ a # b /\ phase[b] = "absent"
        /\ \A x \in Attempts \ {a} : work[x].target = t => phase[x] \in Gone
    BY <1>17, OnlyAttempt DEF InterruptHandover, NextAttempt, Gone
  <2>2. /\ status'[t] = "notified"
        /\ u # t => /\ status'[u] = status[u] /\ assignment'[u] = assignment[u]
                    /\ version'[u] = version[u]
        /\ assignment'[t] = [maid |-> m, revision |-> version'[t], notified |-> TRUE]
    BY <1>17, <1>0, <2>1 DEF InterruptHandover, EndAssignment, Bump, TypeOK
  <2>3. /\ phase'[a] = "interrupted" /\ phase'[b] = "scheduled" /\ work'[b].target = t
        /\ \A x \in Attempts \ {a, b} : phase'[x] = phase[x]
        /\ \A x \in Attempts \ {b} : work'[x] = work[x]
    BY <1>17, <1>0, <2>1 DEF InterruptHandover, TypeOK
  <2>4. u # t => SameAttempts(u)
    BY <2>1, <2>3 DEF SameAttempts, Gone
  <2>5. CurrentNotified(t)'
    BY <2>2, NoneIsNotAMaid DEF CurrentNotified, Assigned
  <2>6. \A x \in Attempts : work'[x].target = t => phase'[x] \in Gone \cup {"scheduled"}
    BY <2>1, <2>3 DEF Gone
  <2>. QED
    BY <1>0, <2>2, <2>4, <2>5, <2>6, UntouchedCoherent, NotifiedCoherent
<1>18. ASSUME NEW t \in Targets, NEW n \in Targets, CancelUnavailable(t, n)
       PROVE Coherent(u)'
  <2>1. \A v : v # t => SameAttempts(v)
    BY <1>18 DEF CancelUnavailable, BlockingAttempts, AttemptsOf, SameAttempts
  <2>2. Idle(t)'
    BY <1>18 DEF CancelUnavailable, BlockingAttempts, AttemptsOf, Blocking, Idle, Gone
  <2>. QED
    BY <1>18, <1>0, <2>1, <2>2, ReturnCoherent DEF CancelUnavailable
<1>19. ASSUME NEW a \in Attempts, NEW n \in Targets, ForceRecall(a, n) PROVE Coherent(u)'
  <2>. DEFINE t == work[a].target
  <2>1. /\ t \in Targets /\ Exists(t)
        /\ \A x \in Attempts \ {a} : work[x].target = t => phase[x] \in Gone
    BY <1>19, OnlyAttempt DEF ForceRecall, Exists, Gone
  <2>2. /\ phase'[a] = "superseded" /\ work' = work
        /\ \A x \in Attempts \ {a} : phase'[x] = phase[x]
    BY <1>19, <1>0 DEF ForceRecall, TypeOK
  <2>3. \A v : v # t => SameAttempts(v)
    BY <2>2 DEF SameAttempts
  <2>4. Idle(t)'
    BY <2>1, <2>2 DEF Idle, Gone
  <2>. QED
    BY <1>19, <1>0, <2>1, <2>3, <2>4, ReturnCoherent DEF ForceRecall
<1>20. ASSUME NEW t \in Targets,
              RequestCancellation(t) \/ RejectCancellation(t) \/ CheckOutOnTime(t)
       PROVE Coherent(u)'
  BY <1>7, <1>20 DEF RequestCancellation, RejectCancellation, CheckOutOnTime
<1>21. ASSUME NEW a \in Attempts, AllowFinish(a) \/ AllowUpload(a) PROVE Coherent(u)'
  BY <1>7, <1>21 DEF AllowFinish, AllowUpload
<1>22. ASSUME NEW m \in Maids, NEW s \in {"active", "inactive", "departed"},
              ChangeAccountStatus(m, s)
       PROVE Coherent(u)'
  BY <1>7, <1>22 DEF ChangeAccountStatus
<1>23. CASE UNCHANGED vars
  BY <1>7, <1>23 DEF vars
<1>. QED
  BY <1>1, <1>2, <1>3, <1>4, <1>5, <1>6, <1>8, <1>9, <1>10, <1>11, <1>12, <1>13, <1>14,
     <1>15, <1>16, <1>17, <1>18, <1>19, <1>20, <1>21, <1>22, <1>23 DEF Next

-----------------------------------------------------------------------------
(* Requests and decisions. *)

\* Ending an assignment leaves no request pending about it.
LEMMA EndedAssignment ==
  ASSUME TypeOK, Requests, NEW t \in Targets, NEW next, EndAssignment(t, next)
  PROVE  Requests'
<1>1. \A u \in Targets \ {t} : assignment'[u] = assignment[u] /\ request'[u] = request[u]
  BY DEF EndAssignment, SupersedeRequest, TypeOK
<1>2. request'[t].state # "pending"
  BY DEF EndAssignment, SupersedeRequest, TypeOK, Request
<1>. QED
  BY <1>1, <1>2 DEF Requests, RequestFollows, Assigned

\* Every step keeps a pending request about the announced assignment.
LEMMA RequestStep == IInv /\ Story /\ Requests /\ [Next]_vars => Requests'
<1>. SUFFICES ASSUME IInv, Story, Requests, [Next]_vars PROVE Requests'
  OBVIOUS
<1>0. TypeOK
  BY DEF IInv
<1>1. CASE UNCHANGED <<assignment, request>>
  BY <1>1 DEF Requests, RequestFollows, Assigned
<1>2. ASSUME NEW t \in Targets, NEW m \in Maids, SaveDraft(t, m) \/ PrestartChange(t, m)
      PROVE  Requests'
  BY <1>0, <1>2, EndedAssignment DEF SaveDraft, PrestartChange
<1>3. ASSUME NEW t \in Targets,
             \/ PrestartUnassign(t) \/ MidnightRollover(t) \/ CancelManualRequest(t)
             \/ RescheduleCheckout(t) \/ CheckOutEarly(t)
      PROVE  Requests'
  BY <1>0, <1>1, <1>3, EndedAssignment
     DEF PrestartUnassign, MidnightRollover, CancelManualRequest, RescheduleCheckout,
         CheckOutEarly
<1>4. ASSUME NEW t \in Targets, NEW n \in Targets, CancelUnavailable(t, n) PROVE Requests'
  BY <1>0, <1>4, EndedAssignment DEF CancelUnavailable, ReturnToPool
<1>5. ASSUME NEW a \in Attempts, NEW n \in Targets, ForceRecall(a, n) PROVE Requests'
  BY <1>0, <1>5, EndedAssignment, OnlyAttempt DEF ForceRecall, ReturnToPool, Gone
<1>6. ASSUME NEW a \in Attempts, NEW b \in Attempts, NEW m \in Maids, NEW d \in BOOLEAN,
             InterruptHandover(a, b, m, d)
      PROVE  Requests'
  BY <1>0, <1>6, EndedAssignment, OnlyAttempt DEF InterruptHandover, Gone
<1>7. ASSUME NEW t \in Targets, CommitNotify(t) PROVE Requests'
  <2>1. /\ request' = request
        /\ \A u \in Targets : /\ assignment'[u].maid = assignment[u].maid
                              /\ assignment'[u].revision = assignment[u].revision
                              /\ assignment[u].notified => assignment'[u].notified
    BY <1>0, <1>7 DEF CommitNotify, TypeOK, Assignment
  <2>. QED
    BY <2>1 DEF Requests, RequestFollows, Assigned
<1>8. ASSUME NEW t \in Targets, RequestCancellation(t) PROVE Requests'
  <2>1. CurrentNotified(t)
    BY <1>8 DEF RequestCancellation, PreStart, Story, Coherent, Announced
  <2>2. /\ assignment' = assignment /\ request'[t].revision = assignment[t].revision
        /\ \A u \in Targets \ {t} : request'[u] = request[u]
    BY <1>0, <1>8 DEF RequestCancellation, TypeOK
  <2>. QED
    BY <2>1, <2>2 DEF Requests, RequestFollows, CurrentNotified, Assigned
<1>9. ASSUME NEW t \in Targets, ApproveCancellation(t) PROVE Requests'
  <2>1. /\ request'[t].state = "approved"
        /\ \A u \in Targets \ {t} :
             request'[u] = request[u] /\ assignment'[u] = assignment[u]
    BY <1>0, <1>9 DEF ApproveCancellation, TypeOK, Request
  <2>. QED
    BY <2>1 DEF Requests, RequestFollows, Assigned
<1>10. ASSUME NEW t \in Targets, RejectCancellation(t) PROVE Requests'
  <2>1. /\ request'[t].state = "rejected" /\ assignment' = assignment
        /\ \A u \in Targets \ {t} : request'[u] = request[u]
    BY <1>0, <1>10 DEF RejectCancellation, TypeOK, Request
  <2>. QED
    BY <2>1 DEF Requests, RequestFollows, Assigned
<1>11. ASSUME NEW a \in Attempts, NEW v \in 1..MaxSubmission, NEW n \in Targets,
              Reject(a, v, n)
       PROVE  Requests'
  <2>1. ~Assigned(n)
    BY <1>11 DEF Reject, NextTarget, Exists, Story, Coherent
  <2>2. request' = request /\ \A u \in Targets \ {n} : assignment'[u] = assignment[u]
    BY <1>0, <1>11 DEF Reject, TypeOK
  <2>. QED
    BY <2>1, <2>2 DEF Requests, RequestFollows, Assigned
<1>12. ASSUME NEW t \in Targets, NEW a \in Attempts, Activate(t, a) PROVE Requests'
  BY <1>1, <1>12 DEF Activate, targetVars
<1>13. ASSUME NEW a \in Attempts,
              \/ Start(a) \/ CompleteFieldWork(a) \/ AllowFinish(a) \/ LimitedComplete(a)
              \/ AllowUpload(a) \/ CreateSubmission(a)
              \/ \E v \in 1..MaxSubmission : Approve(a, v)
       PROVE  Requests'
  BY <1>1, <1>13
     DEF Start, CompleteFieldWork, AllowFinish, LimitedComplete, AllowUpload,
         CreateSubmission, Approve, targetVars
<1>14. ASSUME NEW t \in Targets, CheckOutOnTime(t) PROVE Requests'
  BY <1>1, <1>14 DEF CheckOutOnTime, targetVars
<1>15. ASSUME NEW m \in Maids, NEW s \in {"active", "inactive", "departed"},
              ChangeAccountStatus(m, s)
       PROVE  Requests'
  BY <1>1, <1>15 DEF ChangeAccountStatus, targetVars
<1>16. CASE UNCHANGED vars
  BY <1>1, <1>16 DEF vars, targetVars
<1>. QED
  BY <1>2, <1>3, <1>4, <1>5, <1>6, <1>7, <1>8, <1>9, <1>10, <1>11, <1>12, <1>13, <1>14,
     <1>15, <1>16 DEF Next

\* Which commands touch submissions, decisions, earnings and obligations.
InspectionFrame ==
  \/ UNCHANGED inspectionVars
  \/ \E t \in Targets : CheckOutOnTime(t) \/ CheckOutEarly(t)
  \/ \E a \in Attempts : CreateSubmission(a)
  \/ \E a \in Attempts, v \in 1..MaxSubmission : Approve(a, v)
  \/ \E a \in Attempts, v \in 1..MaxSubmission, n \in Targets : Reject(a, v, n)

\* Every step respects InspectionFrame.
LEMMA InspectionStep == [Next]_vars => InspectionFrame
<1>. SUFFICES ASSUME [Next]_vars PROVE InspectionFrame
  OBVIOUS
<1>. USE DEF InspectionFrame
<1>1. ASSUME NEW t \in Targets, NEW m \in Maids, SaveDraft(t, m) \/ PrestartChange(t, m)
      PROVE  InspectionFrame
  BY <1>1 DEF SaveDraft, PrestartChange
<1>2. ASSUME NEW t \in Targets,
             \/ CommitNotify(t) \/ PrestartUnassign(t) \/ RequestCancellation(t)
             \/ ApproveCancellation(t) \/ RejectCancellation(t) \/ MidnightRollover(t)
             \/ CancelManualRequest(t) \/ RescheduleCheckout(t)
      PROVE  InspectionFrame
  BY <1>2
     DEF CommitNotify, PrestartUnassign, RequestCancellation, ApproveCancellation,
         RejectCancellation, MidnightRollover, CancelManualRequest,
         RescheduleCheckout
<1>3. ASSUME NEW t \in Targets, CheckOutOnTime(t) \/ CheckOutEarly(t) PROVE InspectionFrame
  BY <1>3
<1>4. ASSUME NEW t \in Targets, NEW a \in Attempts, Activate(t, a) PROVE InspectionFrame
  BY <1>4 DEF Activate
<1>5. ASSUME NEW a \in Attempts,
             \/ Start(a) \/ CompleteFieldWork(a) \/ AllowFinish(a) \/ LimitedComplete(a)
             \/ AllowUpload(a) \/ CreateSubmission(a)
      PROVE  InspectionFrame
  BY <1>5 DEF Start, CompleteFieldWork, AllowFinish, LimitedComplete, AllowUpload
<1>6. ASSUME NEW a \in Attempts, NEW b \in Attempts, NEW m \in Maids, NEW d \in BOOLEAN,
             InterruptHandover(a, b, m, d)
      PROVE  InspectionFrame
  BY <1>6 DEF InterruptHandover
<1>7. ASSUME NEW t \in Targets, NEW n \in Targets, CancelUnavailable(t, n)
      PROVE  InspectionFrame
  BY <1>7 DEF CancelUnavailable
<1>8. ASSUME NEW a \in Attempts, NEW n \in Targets, ForceRecall(a, n) PROVE InspectionFrame
  BY <1>8 DEF ForceRecall
<1>9. ASSUME NEW m \in Maids, NEW s \in {"active", "inactive", "departed"},
             ChangeAccountStatus(m, s)
      PROVE  InspectionFrame
  BY <1>9 DEF ChangeAccountStatus
<1>10. CASE UNCHANGED vars
  BY <1>10 DEF vars
<1>. QED
  BY <1>1, <1>2, <1>3, <1>4, <1>5, <1>6, <1>7, <1>8, <1>9, <1>10 DEF Next

\* What was decided is final and was the last submission.
LEMMA DecisionStep ==
  IInv /\ AttemptFrame /\ InspectionFrame /\ DecisionIsAboutLastSubmission
    => DecisionIsAboutLastSubmission'
<1>. SUFFICES ASSUME IInv, AttemptFrame, InspectionFrame, DecisionIsAboutLastSubmission,
                     NEW x \in Attempts, decided'[x] # 0
              PROVE  /\ decided'[x] = submission'[x].version
                     /\ phase'[x] = submission'[x].state
                     /\ phase'[x] \in {"approved", "rejected"}
  BY DEF DecisionIsAboutLastSubmission
<1>. USE DEF IInv, TypeOK, Submission
<1>1. CASE decided'[x] = decided[x] /\ submission'[x] = submission[x]
  BY <1>1 DEF DecisionIsAboutLastSubmission, AttemptFrame, Ended
<1>2. ASSUME NEW a \in Attempts, CreateSubmission(a)
      PROVE  decided'[x] = decided[x] /\ submission'[x] = submission[x]
  BY <1>2 DEF CreateSubmission, DecisionIsAboutLastSubmission
<1>3. ASSUME NEW a \in Attempts, NEW v \in 1..MaxSubmission, Approve(a, v)
      PROVE  \/ decided'[x] = decided[x] /\ submission'[x] = submission[x]
             \/ /\ decided'[x] = submission'[x].version
                /\ phase'[x] = submission'[x].state /\ phase'[x] = "approved"
  BY <1>3 DEF Approve, Inspectable
<1>4. ASSUME NEW a \in Attempts, NEW v \in 1..MaxSubmission, NEW n \in Targets,
             Reject(a, v, n)
      PROVE  \/ decided'[x] = decided[x] /\ submission'[x] = submission[x]
             \/ /\ decided'[x] = submission'[x].version
                /\ phase'[x] = submission'[x].state /\ phase'[x] = "rejected"
  BY <1>4 DEF Reject, Inspectable
<1>5. ASSUME NEW t \in Targets, CheckOutOnTime(t) \/ CheckOutEarly(t)
      PROVE  decided'[x] = decided[x] /\ submission'[x] = submission[x]
  BY <1>5 DEF CheckOutOnTime, CheckOutEarly
<1>. QED
  BY <1>1, <1>2, <1>3, <1>4, <1>5 DEF InspectionFrame, inspectionVars

-----------------------------------------------------------------------------
(* The lineage of a cleaning.  A step leaves every target's place in it alone *)
(* or closes one open target: by approval, by withdrawal, or by replacing it. *)

Open(t) == status[t] \notin {"absent", "approved", "rejected", "cancelled"}
SamePlace(t) ==
  /\ Exists(t)' <=> Exists(t)
  /\ \A s \in {"approved", "rejected", "cancelled"} : status'[t] = s <=> status[t] = s
Approved(t) == Open(t) /\ status'[t] = "approved"
Withdraws(t) == Open(t) /\ ~IsReclean(t) /\ status'[t] = "cancelled"
Replaces(t, n) ==
  /\ Open(t) /\ ~Exists(n)
  /\ status'[t] = "rejected" \/ (status'[t] = "cancelled" /\ IsReclean(t))
  /\ status'[n] \in {"unassigned", "notified"}
  /\ contract'[n].lineage = contract[t].lineage

LineageFrame ==
  \/ \A u \in Targets : SamePlace(u)
  \/ \E t \in Targets :
       /\ \A u \in Targets \ {t} : SamePlace(u)
       /\ \/ Withdraws(t)
          \/ \E a \in Attempts, v \in 1..MaxSubmission :
               Approve(a, v) /\ work[a].target = t /\ Approved(t)
  \/ \E t, n \in Targets : Replaces(t, n) /\ \A u \in Targets \ {t, n} : SamePlace(u)

\* A target somebody still has to finish work on is open.
LEMMA OpenWhileWorked ==
  ASSUME IInv, Story, NEW x \in Attempts,
         phase[x] \in {"scheduled", "in_progress", "field_completed", "submitted"}
  PROVE  work[x].target \in Targets /\ Open(work[x].target)
<1>1. /\ work[x].target \in Targets /\ status[work[x].target] # "absent"
      /\ \A y \in Attempts \ {x} : work[y].target = work[x].target => phase[y] \in Gone
  BY OnlyAttempt DEF Gone
<1>2. Coherent(work[x].target)
  BY <1>1 DEF Story
<1>. QED
  BY <1>1, <1>2 DEF Open, Coherent, Idle, WorkedOn, Gone

\* A target whose status moves among the open ones keeps its place.
LEMMA OpenMove ==
  ASSUME TypeOK, NEW t \in Targets, Open(t),
         \E s \in TargetStatus \ {"absent", "approved", "rejected", "cancelled"} :
           status' = [status EXCEPT ![t] = s]
  PROVE  LineageFrame
  BY DEF LineageFrame, SamePlace, Open, Exists, TypeOK

\* Returning an open target to the pool keeps its place or replaces it.
LEMMA ReturnPlace ==
  ASSUME TypeOK, NEW t \in Targets, NEW n \in Targets, Open(t), ReturnToPool(t, n)
  PROVE  LineageFrame
<1>1. CASE IsReclean(t)
  <2>1. /\ ~Exists(n) /\ n # t
        /\ status' = [status EXCEPT ![t] = "cancelled", ![n] = "unassigned"]
        /\ contract'[n].lineage = contract[t].lineage
    BY <1>1 DEF ReturnToPool, NextTarget, Open, Exists, TypeOK
  <2>2. Replaces(t, n) /\ \A u \in Targets \ {t, n} : SamePlace(u)
    BY <1>1, <2>1 DEF Replaces, SamePlace, Exists, TypeOK
  <2>. QED
    BY <2>2 DEF LineageFrame
<1>2. CASE ~IsReclean(t)
  BY <1>2, OpenMove DEF ReturnToPool, TargetStatus
<1>. QED
  BY <1>1, <1>2

\* Every step respects LineageFrame.
LEMMA LineageStep == IInv /\ Story /\ [Next]_vars => LineageFrame
<1>. SUFFICES ASSUME IInv, Story, [Next]_vars PROVE LineageFrame
  OBVIOUS
<1>0. TypeOK
  BY DEF IInv
<1>1. CASE status' = status
  BY <1>1 DEF LineageFrame, SamePlace, Exists
<1>2. ASSUME NEW t \in Targets, NEW m \in Maids, SaveDraft(t, m) PROVE LineageFrame
  BY <1>0, <1>2, OpenMove DEF SaveDraft, Open, TargetStatus
<1>3. ASSUME NEW t \in Targets,
             \/ CommitNotify(t) \/ PrestartUnassign(t) \/ ApproveCancellation(t)
             \/ MidnightRollover(t)
      PROVE  LineageFrame
  BY <1>0, <1>3, OpenMove DEF CommitNotify, PrestartUnassign, ApproveCancellation,
                              MidnightRollover, Undecided, PreStart, Open, TargetStatus
<1>4. ASSUME NEW t \in Targets, CancelManualRequest(t) PROVE LineageFrame
  <2>1. Withdraws(t) /\ \A u \in Targets \ {t} : SamePlace(u)
    BY <1>0, <1>4
       DEF CancelManualRequest, Withdraws, SamePlace, Open, Exists, IsReclean, TypeOK
  <2>. QED
    BY <2>1 DEF LineageFrame
<1>5. ASSUME NEW a \in Attempts, Start(a) \/ CreateSubmission(a) PROVE LineageFrame
  <2>1. work[a].target \in Targets /\ Open(work[a].target)
    BY <1>5, OpenWhileWorked DEF Start, CreateSubmission
  <2>. QED
    BY <1>0, <1>5, <2>1, OpenMove DEF Start, CreateSubmission, TargetStatus
<1>6. ASSUME NEW a \in Attempts, NEW b \in Attempts, NEW m \in Maids, NEW d \in BOOLEAN,
             InterruptHandover(a, b, m, d)
      PROVE  LineageFrame
  <2>1. work[a].target \in Targets /\ Open(work[a].target)
    BY <1>6, OpenWhileWorked DEF InterruptHandover
  <2>. QED
    BY <1>0, <1>6, <2>1, OpenMove DEF InterruptHandover, TargetStatus
<1>7. ASSUME NEW t \in Targets, NEW n \in Targets, CancelUnavailable(t, n)
      PROVE  LineageFrame
  <2>1. status[t] # "rejected"
    BY <1>7
       DEF CancelUnavailable, Story, Coherent, WorkedOn, BlockingAttempts,
           AttemptsOf, Blocking
  <2>2. Open(t)
    BY <1>7, <2>1 DEF CancelUnavailable, Open, Exists
  <2>. QED
    BY <1>0, <1>7, <2>2, ReturnPlace DEF CancelUnavailable
<1>8. ASSUME NEW a \in Attempts, NEW n \in Targets, ForceRecall(a, n) PROVE LineageFrame
  <2>1. work[a].target \in Targets /\ Open(work[a].target)
    BY <1>8, OpenWhileWorked DEF ForceRecall
  <2>. QED
    BY <1>0, <1>8, <2>1, ReturnPlace DEF ForceRecall
<1>9. ASSUME NEW a \in Attempts, NEW v \in 1..MaxSubmission, Approve(a, v)
      PROVE  LineageFrame
  <2>1. work[a].target \in Targets /\ Open(work[a].target)
    BY <1>9, OpenWhileWorked DEF Approve, Inspectable
  <2>2. status' = [status EXCEPT ![work[a].target] = "approved"]
    BY <1>9 DEF Approve
  <2>3. Approved(work[a].target) /\ \A u \in Targets \ {work[a].target} : SamePlace(u)
    BY <1>0, <2>1, <2>2 DEF Approved, SamePlace, Exists, TypeOK
  <2>. QED
    BY <1>9, <2>1, <2>3 DEF LineageFrame
<1>10. ASSUME NEW a \in Attempts, NEW v \in 1..MaxSubmission, NEW n \in Targets,
              Reject(a, v, n)
       PROVE  LineageFrame
  <2>1. PICK t \in Targets : t = work[a].target /\ Open(t)
    BY <1>10, OpenWhileWorked DEF Reject, Inspectable
  <2>2. /\ ~Exists(n) /\ n # t
        /\ status' = [status EXCEPT ![t] = "rejected", ![n] = "notified"]
        /\ contract'[n].lineage = contract[t].lineage
    BY <1>10, <1>0, <2>1 DEF Reject, NextTarget, Open, Exists, TypeOK
  <2>3. status'[t] = "rejected" /\ status'[n] = "notified"
    BY <1>0, <2>1, <2>2 DEF TypeOK
  <2>4. Replaces(t, n)
    BY <2>1, <2>2, <2>3 DEF Replaces
  <2>5. \A u \in Targets \ {t, n} : SamePlace(u)
    BY <1>0, <2>1, <2>2 DEF SamePlace, Exists, TypeOK
  <2>. QED
    BY <2>1, <2>4, <2>5 DEF LineageFrame
<1>11. ASSUME NEW t \in Targets,
              \/ RequestCancellation(t) \/ RejectCancellation(t) \/ RescheduleCheckout(t)
              \/ CheckOutOnTime(t) \/ CheckOutEarly(t)
              \/ \E m \in Maids : PrestartChange(t, m)
              \/ \E a \in Attempts : Activate(t, a)
       PROVE  LineageFrame
  BY <1>1, <1>11 DEF RequestCancellation, RejectCancellation, RescheduleCheckout,
                     CheckOutOnTime, CheckOutEarly, PrestartChange, Activate, targetVars
<1>12. ASSUME NEW a \in Attempts,
              \/ CompleteFieldWork(a) \/ AllowFinish(a) \/ LimitedComplete(a)
              \/ AllowUpload(a)
       PROVE  LineageFrame
  BY <1>1, <1>12
     DEF CompleteFieldWork, AllowFinish, LimitedComplete, AllowUpload, targetVars
<1>13. ASSUME NEW m \in Maids, NEW s \in {"active", "inactive", "departed"},
              ChangeAccountStatus(m, s)
       PROVE  LineageFrame
  BY <1>1, <1>13 DEF ChangeAccountStatus, targetVars
<1>14. CASE UNCHANGED vars
  BY <1>1, <1>14 DEF vars, targetVars
<1>. QED
  BY <1>2, <1>3, <1>4, <1>5, <1>6, <1>7, <1>8, <1>9, <1>10, <1>11, <1>12, <1>13, <1>14
     DEF Next

(* LineageHasOneCarrier without its cardinality: the open or approved target  *)
(* of a lineage is unique, and there is none exactly when it was withdrawn.   *)
CarriedOnce(o) ==
  \/ ~Withdrawn(o) /\ \E t \in Targets : Carriers(o) = {t}
  \/ Withdrawn(o) /\ Carriers(o) = {}
OneCarrier == \A o \in Originals : CarriedOnce(o)

\* A step carries every lineage on: its carrier stays, is replaced or withdrawn.
LEMMA CarrierStep ==
  ASSUME TypeOK, AttemptsHaveTargets, TargetFrame, LineageFrame, OneCarrier
  PROVE  OneCarrier'
<1>. SUFFICES ASSUME NEW o \in Originals PROVE CarriedOnce(o)'
  BY DEF OneCarrier
<1>0. CarriedOnce(o)
  BY DEF OneCarrier
<1>. DEFINE Member(t) == contract[t].lineage = o /\ (Open(t) \/ status[t] = "approved")
            Member2(t) == contract'[t].lineage = o /\ (Open(t)' \/ status'[t] = "approved")
            Lost(t) == contract[t].lineage = o /\ status[t] = "cancelled" /\ ~IsReclean(t)
            Lost2(t) == contract'[t].lineage = o /\ status'[t] = "cancelled" /\ ~IsReclean(t)'
<1>1. /\ Carriers(o) = {t \in Targets : Member(t)}
      /\ Withdrawn(o) <=> \E t \in Targets : Lost(t)
      /\ Carriers(o)' = {t \in Targets : Member2(t)}
      /\ Withdrawn(o)' <=> \E t \in Targets : Lost2(t)
  BY DEF Carriers, Lineage, Withdrawn, Open, Exists
<1>2. ASSUME NEW u \in Targets, SamePlace(u)
      PROVE  (Member2(u) <=> Member(u)) /\ (Lost2(u) <=> Lost(u))
  BY <1>2 DEF SamePlace, Exists, TargetFrame, Open, IsReclean
<1>3. CASE \A u \in Targets : SamePlace(u)
  <2>1. Carriers(o)' = Carriers(o) /\ (Withdrawn(o)' <=> Withdrawn(o))
    BY <1>1, <1>2, <1>3
  <2>. QED
    BY <1>0, <2>1 DEF CarriedOnce
<1>4. ASSUME NEW t \in Targets, Withdraws(t), \A u \in Targets \ {t} : SamePlace(u)
      PROVE  CarriedOnce(o)'
  <2>1. contract'[t] = contract[t] /\ ~Lost(t) /\ ~Member2(t)
    BY <1>4 DEF TargetFrame, Withdraws, Open, Exists
  <2>2. CASE contract[t].lineage = o
    <3>1. Member(t) /\ Lost2(t)
      BY <1>4, <2>1, <2>2 DEF Withdraws, IsReclean
    <3>2. Carriers(o) = {t}
      BY <1>0, <1>1, <3>1 DEF CarriedOnce
    <3>3. Carriers(o)' = {}
      BY <1>1, <1>2, <1>4, <2>1, <3>2
    <3>. QED
      BY <1>1, <3>1, <3>3 DEF CarriedOnce
  <2>3. CASE contract[t].lineage # o
    <3>1. ~Member(t) /\ ~Lost2(t)
      BY <2>1, <2>3
    <3>2. Carriers(o)' = Carriers(o) /\ (Withdrawn(o)' <=> Withdrawn(o))
      BY <1>1, <1>2, <1>4, <2>1, <3>1
    <3>. QED
      BY <1>0, <3>2 DEF CarriedOnce
  <2>. QED
    BY <2>2, <2>3
<1>5. ASSUME NEW t \in Targets, Approved(t), \A u \in Targets \ {t} : SamePlace(u)
      PROVE  CarriedOnce(o)'
  <2>1. /\ contract'[t] = contract[t] /\ ~Lost(t) /\ ~Lost2(t)
        /\ Member2(t) <=> Member(t)
    BY <1>5 DEF TargetFrame, Approved, Open, Exists
  <2>2. Carriers(o)' = Carriers(o) /\ (Withdrawn(o)' <=> Withdrawn(o))
    BY <1>1, <1>2, <1>5, <2>1
  <2>. QED
    BY <1>0, <2>2 DEF CarriedOnce
<1>6. ASSUME NEW t \in Targets, NEW n \in Targets, Replaces(t, n),
             \A u \in Targets \ {t, n} : SamePlace(u)
      PROVE  CarriedOnce(o)'
  <2>1. /\ contract'[t] = contract[t] /\ t # n
        /\ ~Lost(t) /\ ~Lost2(t) /\ ~Lost(n) /\ ~Lost2(n) /\ ~Member(n) /\ ~Member2(t)
    BY <1>6 DEF TargetFrame, Replaces, Open, Exists, IsReclean
  <2>2. Member(t) <=> contract[t].lineage = o
    BY <1>6 DEF Replaces
  <2>3. Member2(n) <=> contract[t].lineage = o
    BY <1>6 DEF Replaces, Open
  <2>4. Withdrawn(o)' <=> Withdrawn(o)
    BY <1>1, <1>2, <1>6, <2>1
  <2>5. CASE contract[t].lineage = o
    <3>1. Carriers(o) = {t} /\ ~Withdrawn(o)
      BY <1>0, <1>1, <2>2, <2>5 DEF CarriedOnce
    <3>2. Carriers(o)' = {n}
      BY <1>1, <1>2, <1>6, <2>1, <2>3, <2>5, <3>1
    <3>. QED
      BY <2>4, <3>1, <3>2 DEF CarriedOnce
  <2>6. CASE contract[t].lineage # o
    <3>1. Carriers(o)' = Carriers(o)
      BY <1>1, <1>2, <1>6, <2>1, <2>2, <2>3, <2>6
    <3>. QED
      BY <1>0, <2>4, <3>1 DEF CarriedOnce
  <2>. QED
    BY <2>5, <2>6
<1>. QED
  BY <1>3, <1>4, <1>5, <1>6 DEF LineageFrame

-----------------------------------------------------------------------------
(* Earnings and checkouts. *)

\* Only approved paid work has earned, and nothing that carries on can lose it.
EarnedByApproval ==
  \A t \in Targets : earning[t] # "none" => status[t] = "approved" /\ ~IsReclean(t)

\* An approved target stays approved.
LEMMA ApprovedStays ==
  ASSUME LineageFrame, NEW t \in Targets, status[t] = "approved"
  PROVE  status'[t] = "approved"
  BY DEF LineageFrame, SamePlace, Withdraws, Approved, Replaces, Open, Exists

\* The only new approval is the one a decision made.
LEMMA NewApproval ==
  ASSUME LineageFrame, NEW t \in Targets, status'[t] = "approved", status[t] # "approved"
  PROVE  \E a \in Attempts, v \in 1..MaxSubmission : Approve(a, v)
<1>. SUFFICES ASSUME \A a \in Attempts, v \in 1..MaxSubmission : ~Approve(a, v)
              PROVE  FALSE
  OBVIOUS
<1>1. ~SamePlace(t)
  BY DEF SamePlace
<1>. QED
  BY <1>1 DEF LineageFrame, Withdraws, Replaces, Open

\* Every step keeps earnings with approved paid work.
LEMMA EarnedStep ==
  ASSUME IInv, TargetFrame, LineageFrame, InspectionFrame, EarnedByApproval
  PROVE  EarnedByApproval'
<1>. SUFFICES ASSUME NEW t \in Targets, earning'[t] # "none"
              PROVE  status'[t] = "approved" /\ ~IsReclean(t)'
  BY DEF EarnedByApproval
<1>1. CASE earning[t] # "none"
  <2>1. status[t] = "approved" /\ ~IsReclean(t)
    BY <1>1 DEF EarnedByApproval
  <2>. QED
    BY <2>1, ApprovedStays DEF TargetFrame, Exists, IsReclean
<1>2. CASE earning[t] = "none"
  <2>1. PICK a \in Attempts, v \in 1..MaxSubmission : Approve(a, v)
    BY <1>2 DEF InspectionFrame, inspectionVars, CheckOutOnTime, CheckOutEarly,
                CreateSubmission, Reject
  <2>2. t = work[a].target /\ ~IsReclean(t)
    BY <1>2, <2>1 DEF Approve, IInv, TypeOK
  <2>3. status[t] = "inspection_pending" /\ status'[t] = "approved"
    BY <2>1, <2>2 DEF Approve, Inspectable, IInv, TypeOK
  <2>. QED
    BY <2>2, <2>3 DEF TargetFrame, Exists, IsReclean
<1>. QED
  BY <1>1, <1>2

\* The checkout is completed when its chain of recleans ended in approval.
CompletedByApproval ==
  \A o \in Checkouts :
    obligation[o] = "completed" <=>
      \E t \in Targets : status[t] = "approved" /\ contract[t].anchor = o

\* Every step keeps checkouts and approvals in step.
LEMMA CompletedStep ==
  ASSUME IInv, TargetFrame, LineageFrame, InspectionFrame, CompletedByApproval
  PROVE  CompletedByApproval'
<1>. SUFFICES ASSUME NEW o \in Checkouts
              PROVE  obligation'[o] = "completed" <=>
                       \E t \in Targets : status'[t] = "approved" /\ contract'[t].anchor = o
  BY DEF CompletedByApproval
<1>0. obligation[o] = "completed" <=>
        \E t \in Targets : status[t] = "approved" /\ contract[t].anchor = o
  BY DEF CompletedByApproval
<1>1. \A t \in Targets : status[t] = "approved" =>
        status'[t] = "approved" /\ contract'[t] = contract[t]
  BY ApprovedStays DEF TargetFrame, Exists
<1>2. CASE \E a \in Attempts, v \in 1..MaxSubmission : Approve(a, v)
  <2>1. PICK a \in Attempts, v \in 1..MaxSubmission : Approve(a, v)
    BY <1>2
  <2>2. PICK p \in Targets : p = work[a].target /\ status[p] = "inspection_pending"
    BY <2>1, OnlyAttempt DEF Approve, Inspectable, Gone
  <2>3. /\ status'[p] = "approved" /\ contract' = contract
        /\ \A t \in Targets \ {p} : status'[t] = status[t]
        /\ obligation'[o] = IF o = contract[p].anchor THEN "completed" ELSE obligation[o]
    BY <2>1, <2>2 DEF Approve, IInv, TypeOK
  <2>. QED
    BY <1>0, <1>1, <2>2, <2>3
<1>3. CASE ~\E a \in Attempts, v \in 1..MaxSubmission : Approve(a, v)
  <2>1. obligation'[o] = "completed" <=> obligation[o] = "completed"
    <3>1. CASE obligation' = obligation
      BY <3>1
    <3>2. ASSUME NEW t \in Targets, CheckOutOnTime(t) \/ CheckOutEarly(t)
          PROVE  obligation'[o] = "completed" <=> obligation[o] = "completed"
      BY <3>2 DEF CheckOutOnTime, CheckOutEarly, IInv, TypeOK
    <3>. QED
      BY <1>3, <3>1, <3>2
         DEF InspectionFrame, inspectionVars, CreateSubmission, Reject
  <2>2. \A t \in Targets : status'[t] = "approved" => status[t] = "approved"
    BY <1>3, NewApproval
  <2>. QED
    BY <1>0, <1>1, <2>1, <2>2
<1>. QED
  BY <1>2, <1>3

-----------------------------------------------------------------------------
(* The theorems. *)

(* The invariant: IInv of CleaningWorkProofs, the coherence of every target   *)
(* and what depends on it.                                                    *)
LineageInv ==
  /\ IInv
  /\ Manned
  /\ Story
  /\ Requests
  /\ DecisionIsAboutLastSubmission
  /\ OneCarrier
  /\ EarnedByApproval
  /\ CompletedByApproval

\* The invariant holds initially.
LEMMA LineageInit == Init => LineageInv
<1>. SUFFICES ASSUME Init PROVE LineageInv
  OBVIOUS
<1>1. IInv
  BY InitEstablishes
<1>2. Manned /\ DecisionIsAboutLastSubmission
  BY DEF Init, Manned, DecisionIsAboutLastSubmission
<1>3. Story /\ Requests
  BY DEF Init, Story, Requests, Coherent, RequestFollows, Unassigned, NoRequest,
         Assigned, Idle, Gone, Announced
<1>4. EarnedByApproval
  BY DEF Init, EarnedByApproval
<1>5. CompletedByApproval
  BY DEF Init, CompletedByApproval
<1>6. OneCarrier
  <2>. SUFFICES ASSUME NEW o \in Originals PROVE Carriers(o) = {o} /\ ~Withdrawn(o)
    BY OriginalsAreTargets DEF OneCarrier, CarriedOnce, Targets
  <2>1. o \in Targets
    BY OriginalsAreTargets DEF Targets
  <2>. QED
    BY <2>1 DEF Init, Carriers, Withdrawn, Lineage, Exists
<1>. QED
  BY <1>1, <1>2, <1>3, <1>4, <1>5, <1>6 DEF LineageInv

\* The frames carry it over every step.
LEMMA LineageInductive == LineageInv /\ [Next]_vars => LineageInv'
<1>. SUFFICES ASSUME LineageInv, [Next]_vars PROVE LineageInv'
  OBVIOUS
<1>. USE DEF LineageInv
<1>0. TypeOK /\ AttemptsHaveTargets
  BY DEF IInv
<1>1. IInv'
  BY Inductive
<1>2. AttemptFrame /\ TargetFrame /\ InspectionFrame /\ LineageFrame
  BY <1>0, AttemptStep, TargetStep, InspectionStep, LineageStep
<1>3. Manned' /\ Story' /\ Requests'
  BY <1>2, MannedStep, CoherentStep, RequestStep
<1>4. DecisionIsAboutLastSubmission'
  BY <1>2, DecisionStep
<1>5. OneCarrier'
  BY <1>0, <1>2, CarrierStep
<1>6. EarnedByApproval' /\ CompletedByApproval'
  BY <1>2, EarnedStep, CompletedStep
<1>. QED
  BY <1>1, <1>3, <1>4, <1>5, <1>6

\* The invariant holds in every behaviour of the commands.
THEOREM LineageInvariant == Spec => []LineageInv
  BY LineageInit, LineageInductive, PTL DEF Spec

\* Status, assignment and attempts of a target always tell one story, and a
\* pending cancellation request is always about the current assignment.
THEOREM TargetsAreCoherent == Spec => []TargetsTellOneStory
<1>1. LineageInv => TargetIsCoherent
  BY StoryIsCoherence DEF LineageInv, IInv
<1>2. LineageInv => PendingRequestIsCurrent
  BY DEF LineageInv, Requests, RequestFollows, PendingRequestIsCurrent
<1>3. LineageInv => TargetsTellOneStory
  BY <1>1, <1>2 DEF TargetsTellOneStory
<1>. QED
  BY <1>3, LineageInvariant, PTL

\* What was decided about is what the maid submitted last.
THEOREM DecisionsAreCurrent == Spec => []DecisionIsAboutLastSubmission
<1>1. LineageInv => DecisionIsAboutLastSubmission
  BY DEF LineageInv
<1>. QED
  BY <1>1, LineageInvariant, PTL

\* No cleaning is lost or duplicated, however often it is redone or replaced.
THEOREM NoCleaningIsLost == Spec => []LineageHasOneCarrier
<1>1. OneCarrier => LineageHasOneCarrier
  <2>. SUFFICES ASSUME NEW o \in Originals, CarriedOnce(o)
                PROVE  \/ Cardinality(Carriers(o)) = 1 /\ ~Withdrawn(o)
                       \/ Carriers(o) = {} /\ Withdrawn(o)
    BY DEF OneCarrier, LineageHasOneCarrier
  <2>. QED
    BY FS_Singleton DEF CarriedOnce
<1>2. LineageInv => OneCarrier
  BY DEF LineageInv
<1>. QED
  BY <1>1, <1>2, LineageInvariant, PTL

\* No cleaning is paid twice, and nothing but approved paid work is paid.
THEOREM NoCleaningIsPaidTwice == Spec => []EarnedOncePerLineage
<1>1. ASSUME OneCarrier, EarnedByApproval, NEW o \in Originals
      PROVE  Cardinality({t \in Lineage(o) : earning[t] # "none"}) <= 1
  <2>. DEFINE E == {t \in Lineage(o) : earning[t] # "none"}
  <2>1. E \subseteq Carriers(o)
    BY <1>1 DEF EarnedByApproval, Carriers, Lineage
  <2>2. IsFiniteSet(Carriers(o)) /\ Cardinality(Carriers(o)) <= 1
    <3>1. IsFiniteSet(Carriers(o))
          /\ (Cardinality(Carriers(o)) = 0 \/ Cardinality(Carriers(o)) = 1)
      BY <1>1, FS_Singleton, FS_EmptySet DEF OneCarrier, CarriedOnce
    <3>. QED
      BY <3>1
  <2>3. /\ IsFiniteSet(E) /\ Cardinality(E) <= Cardinality(Carriers(o))
        /\ Cardinality(E) \in Nat /\ Cardinality(Carriers(o)) \in Nat
    BY <2>1, <2>2, FS_Subset, FS_CardinalityType
  <2>. QED
    BY <2>2, <2>3
<1>2. LineageInv => EarnedOncePerLineage
  BY <1>1 DEF LineageInv, EarnedOncePerLineage, EarnedByApproval
<1>. QED
  BY <1>2, LineageInvariant, PTL

\* Work follows the guest's departure and its approval completes the checkout.
THEOREM CheckoutsAreFollowed == Spec => []CheckoutFollowsGuest
<1>1. LineageInv => CheckoutFollowsGuest
  BY DEF LineageInv, IInv, NoWorkBeforeCheckout, CompletedByApproval,
         CheckoutFollowsGuest
<1>. QED
  BY <1>1, LineageInvariant, PTL

-----------------------------------------------------------------------------
(* Leases: what a step does to them. *)

\* What every step does to the leases: the triggers run, except that a start
\* may issue a lease, and that a lease ages without any.
LeaseFrame ==
  \A a \in Attempts : Held(a)' /\ ~lease'[a].revoked =>
    \/ Held(a) /\ ~lease[a].revoked /\ ~AuthorityMoves(a)
    \/ phase'[a] = "in_progress" /\ profile'[work'[a].maid] = "active"

-----------------------------------------------------------------------------
(* Leases: the refinement. *)

\* An event that takes effect is a completion by a maid with an active account.
LEMMA SyncIsCompletion ==
  ASSUME NEW a \in Attempts, NEW verifiable \in BOOLEAN, NEW plausible \in BOOLEAN,
         SyncEvent(a, verifiable, plausible)
  PROVE  CompleteFieldWork(a) \/ UNCHANGED vars
<1>. USE DEF SyncEvent, attemptVars, vars
<1>1. CASE TakesEffect(a) /\ verifiable /\ plausible
  BY <1>1 DEF TakesEffect, StillCurrent, CompleteFieldWork
<1>2. CASE ~(TakesEffect(a) /\ verifiable /\ plausible)
  BY <1>2
<1>. QED
  BY <1>1, <1>2

\* A correction is a completion, or the limited one of a maid on her way out.
LEMMA CorrectionIsCompletion ==
  ASSUME NEW a \in Attempts, Correct(a)
  PROVE  CompleteFieldWork(a) \/ LimitedComplete(a)
<1>. USE DEF Correct, StillCurrent, AccountAfter
<1>1. CASE profile[work[a].maid] = "active"
  BY <1>1 DEF CompleteFieldWork
<1>2. CASE profile[work[a].maid] = "deactivation_pending"
  BY <1>2 DEF LimitedComplete
<1>. QED
  BY <1>1, <1>2

\* Every step of the composition is a command of CleaningWork or changes none
\* of its state.
LEMMA OfflineStep == [NextOffline]_offlineVars => [Next]_vars
<1>. SUFFICES ASSUME [NextOffline]_offlineVars PROVE Next \/ UNCHANGED vars
  OBVIOUS
<1>1. CASE WorkStep
  BY <1>1 DEF WorkStep
<1>2. ASSUME NEW a \in Attempts, StartWithLease(a) PROVE Next
  BY <1>2 DEF StartWithLease, Next
<1>3. ASSUME NEW a \in Attempts, Correct(a) PROVE Next
  BY <1>3, CorrectionIsCompletion DEF Next
<1>4. ASSUME NEW a \in Attempts, NEW verifiable \in BOOLEAN, NEW plausible \in BOOLEAN,
             SyncEvent(a, verifiable, plausible)
      PROVE  Next \/ UNCHANGED vars
  BY <1>4, SyncIsCompletion DEF Next
<1>5. ASSUME NEW a \in Attempts, Dismiss(a) \/ Expire(a) \/ Purge(a) PROVE UNCHANGED vars
  BY <1>5 DEF Dismiss, Expire, Purge
<1>6. CASE UNCHANGED offlineVars
  BY <1>6 DEF offlineVars
<1>. QED
  BY <1>1, <1>2, <1>3, <1>4, <1>5, <1>6 DEF NextOffline

\* The composition implements CleaningWork: hidden behind its state, leases,
\* late events and corrections are steps the commands could have made.
THEOREM OfflineImplementsCleaning == SpecOffline => OfflineKeepsTheBook
<1>1. InitOffline => Init
  BY DEF InitOffline
<1>. QED
  BY <1>1, OfflineStep, PTL DEF SpecOffline, Spec, OfflineKeepsTheBook

\* So the invariants of CleaningWork hold however the completions arrive.
THEOREM OfflineWorkIsAuthorised ==
  SpecOffline => [](OneRunningPerMaid /\ OneRunningPerRoom /\ RunningIsAuthorised)
  BY OfflineImplementsCleaning, OneCleaningPerMaid, OneCleaningPerRoom, WorkIsAuthorised, PTL
     DEF OfflineKeepsTheBook

-----------------------------------------------------------------------------
(* The leases. *)

LEMMA RevocationsType == TypeOffline => Revocations \in [Attempts -> Lease]
<1>. SUFFICES ASSUME TypeOffline, NEW a \in Attempts
              PROVE  (IF Held(a) /\ AuthorityMoves(a)
                      THEN [lease[a] EXCEPT !.revoked = TRUE] ELSE lease[a]) \in Lease
  BY DEF Revocations
<1>. QED
  BY DEF TypeOffline, Lease

LEMMA TypeOfflineStep == TypeOffline /\ [NextOffline]_offlineVars => TypeOffline'
<1>. SUFFICES ASSUME TypeOffline, [NextOffline]_offlineVars PROVE TypeOffline'
  OBVIOUS
<1>. USE DEF TypeOffline
<1>1. CASE WorkStep
  BY <1>1, RevocationsType DEF WorkStep
<1>2. ASSUME NEW a \in Attempts, StartWithLease(a) PROVE TypeOffline'
  <2>1. Revocations[a] \in Lease
    BY RevocationsType
  <2>2. [Revocations[a] EXCEPT !.state = "issued"] \in Lease
    BY <2>1 DEF Lease
  <2>. QED
    BY <1>2, <2>2, RevocationsType DEF StartWithLease
<1>3. ASSUME NEW a \in Attempts, Correct(a) PROVE TypeOffline'
  BY <1>3, RevocationsType DEF Correct, Event
<1>4. ASSUME NEW a \in Attempts, NEW verifiable \in BOOLEAN, NEW plausible \in BOOLEAN,
             SyncEvent(a, verifiable, plausible)
      PROVE  TypeOffline'
  BY <1>4, RevocationsType DEF SyncEvent, Event
<1>5. ASSUME NEW a \in Attempts, Dismiss(a) PROVE TypeOffline'
  BY <1>5 DEF Dismiss, Event
<1>6. ASSUME NEW a \in Attempts, Expire(a) PROVE TypeOffline'
  <2>1. [lease[a] EXCEPT !.state = "expired"] \in Lease
    BY DEF Lease
  <2>. QED
    BY <1>6, <2>1 DEF Expire
<1>7. ASSUME NEW a \in Attempts, Purge(a) PROVE TypeOffline'
  BY <1>7 DEF Purge, Event, Lease
<1>8. CASE UNCHANGED offlineVars
  BY <1>8 DEF offlineVars
<1>. QED
  BY <1>1, <1>2, <1>3, <1>4, <1>5, <1>6, <1>7, <1>8 DEF NextOffline

\* Leases and events have their types.
THEOREM OfflineTypeCorrect == SpecOffline => []TypeOffline
<1>1. InitOffline => TypeOffline
  BY DEF InitOffline, TypeOffline, NoLease, Lease, Event
<1>. QED
  BY <1>1, TypeOfflineStep, PTL DEF SpecOffline

\* The triggers leave a lease alone only while its authority stands.
LEMMA TriggersKeepUp ==
  ASSUME TypeOffline, lease' = Revocations
  PROVE  LeaseFrame
<1>. SUFFICES ASSUME NEW a \in Attempts, Held(a)', ~lease'[a].revoked
              PROVE  Held(a) /\ ~lease[a].revoked /\ ~AuthorityMoves(a)
  BY DEF LeaseFrame
<1>1. lease'[a] = IF Held(a) /\ AuthorityMoves(a)
                  THEN [lease[a] EXCEPT !.revoked = TRUE] ELSE lease[a]
  BY DEF Revocations
<1>2. ~(Held(a) /\ AuthorityMoves(a))
  BY <1>1 DEF TypeOffline, Lease
<1>. QED
  BY <1>1, <1>2 DEF Held

LEMMA LeaseStep == TypeOK /\ TypeOffline /\ [NextOffline]_offlineVars => LeaseFrame
<1>. SUFFICES ASSUME TypeOK, TypeOffline, [NextOffline]_offlineVars PROVE LeaseFrame
  OBVIOUS
<1>1. CASE WorkStep
  BY <1>1, TriggersKeepUp DEF WorkStep
<1>2. ASSUME NEW a \in Attempts, StartWithLease(a) PROVE LeaseFrame
  <2>. SUFFICES ASSUME NEW b \in Attempts, Held(b)', ~lease'[b].revoked
                PROVE  \/ Held(b) /\ ~lease[b].revoked /\ ~AuthorityMoves(b)
                       \/ phase'[b] = "in_progress" /\ profile'[work'[b].maid] = "active"
    BY DEF LeaseFrame
  <2>1. CASE b = a
    BY <1>2, <2>1 DEF StartWithLease, Start, ActivationAllowed, TypeOK
  <2>2. CASE b # a
    <3>1. lease'[b] = IF Held(b) /\ AuthorityMoves(b)
                      THEN [lease[b] EXCEPT !.revoked = TRUE] ELSE lease[b]
      BY <1>2, <2>2 DEF StartWithLease, Revocations
    <3>2. ~(Held(b) /\ AuthorityMoves(b))
      BY <3>1 DEF TypeOffline, Lease
    <3>. QED
      BY <3>1, <3>2 DEF Held
  <2>. QED
    BY <2>1, <2>2
<1>3. ASSUME NEW a \in Attempts, Correct(a) PROVE LeaseFrame
  BY <1>3, TriggersKeepUp DEF Correct
<1>4. ASSUME NEW a \in Attempts, NEW verifiable \in BOOLEAN, NEW plausible \in BOOLEAN,
             SyncEvent(a, verifiable, plausible)
      PROVE  LeaseFrame
  BY <1>4, TriggersKeepUp DEF SyncEvent
<1>5. ASSUME NEW a \in Attempts, Dismiss(a) \/ Expire(a) \/ Purge(a) PROVE LeaseFrame
  <2>1. UNCHANGED vars
    BY <1>5 DEF Dismiss, Expire, Purge
  <2>2. ASSUME NEW b \in Attempts, Held(b)', ~lease'[b].revoked
        PROVE  Held(b) /\ ~lease[b].revoked
    BY <1>5, <2>2 DEF Dismiss, Expire, Purge, Held, TypeOffline, Lease
  <2>. QED
    BY <2>1, <2>2 DEF LeaseFrame, AuthorityMoves, vars, attemptVars
<1>6. CASE UNCHANGED offlineVars
  BY <1>6 DEF offlineVars, vars, attemptVars, LeaseFrame, AuthorityMoves, Held
<1>. QED
  BY <1>1, <1>2, <1>3, <1>4, <1>5, <1>6 DEF NextOffline

\* With the invariant of CleaningWork the frame carries the property over.
LEMMA BackedStep ==
  TypeOffline /\ IInv /\ IInv' /\ LiveLeaseIsBacked /\ [NextOffline]_offlineVars
    => LiveLeaseIsBacked'
<1>. SUFFICES ASSUME TypeOffline, IInv, IInv', LiveLeaseIsBacked, [NextOffline]_offlineVars,
                     NEW a \in Attempts, Held(a)', ~lease'[a].revoked
              PROVE  /\ Running(a)' /\ OnCurrentAssignment(a)'
                     /\ profile'[work'[a].maid] = "active"
  BY DEF LiveLeaseIsBacked
<1>1. phase'[a] = "in_progress" /\ profile'[work'[a].maid] = "active"
  <2>1. CASE Held(a) /\ ~lease[a].revoked /\ ~AuthorityMoves(a)
    <3>1. phase[a] = "in_progress" /\ profile[work[a].maid] = "active"
      BY <2>1 DEF LiveLeaseIsBacked, Running
    <3>2. work'[a] = work[a]
      BY <3>1, OfflineStep, AttemptStep DEF IInv, AttemptFrame
    <3>. QED
      BY <2>1, <3>1, <3>2 DEF AuthorityMoves
  <2>. QED
    BY <2>1, LeaseStep DEF LeaseFrame, IInv
<1>2. RunningIsAuthorised'
  BY DEF IInv
<1>. QED
  BY <1>1, <1>2 DEF RunningIsAuthorised, Running

\* An unrevoked lease is always that of running work on the current assignment
\* for a maid with an active account, whatever commands came in between.
THEOREM LeasesAreBacked == SpecOffline => []LiveLeaseIsBacked
<1>1. InitOffline => LiveLeaseIsBacked
  BY DEF InitOffline, LiveLeaseIsBacked, Held, NoLease
<1>2. SpecOffline => []IInv
  BY OfflineImplementsCleaning, InductiveInvariant, PTL DEF OfflineKeepsTheBook
<1>. QED
  BY <1>1, <1>2, BackedStep, OfflineTypeCorrect, PTL DEF SpecOffline
=============================================================================
