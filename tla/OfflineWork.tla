----------------------------- MODULE OfflineWork ----------------------------
(***************************************************************************)
(* Work leases for maids who clean without a connection, beside the life   *)
(* of a cleaning (CleaningWork).  A start may issue a lease of the         *)
(* attempt; the completion recorded under it arrives as one event, which   *)
(* completes the attempt or is quarantined until an admin decides.         *)
(* Triggers on attempts and accounts revoke leases, so every command of    *)
(* CleaningWork is a step here together with what the triggers do.         *)
(*                                                                         *)
(* Each command is one transaction under the lock of CleaningWork.  A      *)
(* replay of an event or a decision, and a second event under a lease,     *)
(* change nothing and are stutters.                                        *)
(***************************************************************************)
EXTENDS CleaningWork

VARIABLES
  lease,        \* offline_work_leases and their revocations, by attempt
  event         \* offline_completion_events and event_resolutions, by attempt

offlineVars == <<vars, lease, event>>

Lease == [state: {"none", "issued", "expired", "purged"}, revoked: BOOLEAN]
\* Of a quarantined event the model keeps whether its time and offset fit the
\* lease, of a decision whether it corrects the attempt.
Event == {"none", "applied", "quarantined", "unverifiable", "dismissed", "corrected"}

NoLease == [state |-> "none", revoked |-> FALSE]

InitOffline ==
  /\ Init
  /\ lease = [a \in Attempts |-> NoLease]
  /\ event = [a \in Attempts |-> "none"]

-----------------------------------------------------------------------------
(* The triggers. *)

\* Slip: the trigger on profiles is missing.
AttemptAuthorityMoves(a) == phase'[a] # phase[a] \/ work'[a].revision # work[a].revision

\* The attempt's status or revision changes, or the status of its maid.
AuthorityMoves(a) ==
  \/ phase'[a] # phase[a] \/ work'[a].revision # work[a].revision
  \/ profile'[work[a].maid] # profile[work[a].maid]
Held(a) == lease[a].state \in {"issued", "expired"}
Revocations ==
  [a \in Attempts |->
     IF Held(a) /\ AuthorityMoves(a) THEN [lease[a] EXCEPT !.revoked = TRUE] ELSE lease[a]]

\* A command of CleaningWork, a start without a lease among them.
WorkStep == Next /\ lease' = Revocations /\ UNCHANGED event

\* The start that also asks for a lease; no attempt gets a second one.
StartWithLease(a) ==
  /\ lease[a] = NoLease
  /\ Start(a)
  /\ lease' = [Revocations EXCEPT ![a].state = "issued"]
  /\ UNCHANGED event

-----------------------------------------------------------------------------
(* The event. *)

\* private.assert_offline_current_attempt raises nothing.
StillCurrent(a) == OnCurrentAssignment(a) /\ status[work[a].target] # "cancelled"

TakesEffect(a) ==
  /\ lease[a].state = "issued"                            \* else LEASE_EXPIRED
  /\ profile[work[a].maid] = "active" /\ ~lease[a].revoked  \* else LEASE_REVOKED
  /\ phase[a] = "in_progress" /\ StillCurrent(a)          \* else ASSIGNMENT_CHANGED

\* The first event under the lease, from a session of the maid.  Whatever else
\* it says (another execution version, a time yet to come or of another day)
\* quarantines it as well.
SyncEvent(a, verifiable, plausible) ==
  /\ Held(a) /\ event[a] = "none"
  /\ profile[work[a].maid] \in {"active", "deactivation_pending", "upload_only"}
  /\ IF TakesEffect(a) /\ verifiable /\ plausible
     THEN /\ phase' = [phase EXCEPT ![a] = "field_completed"]
          /\ event' = [event EXCEPT ![a] = "applied"]
     ELSE /\ phase' = phase
          /\ event' = [event EXCEPT ![a] = IF verifiable THEN "quarantined" ELSE "unverifiable"]
  /\ UNCHANGED <<profile, targetVars, work, inspectionVars>>
  /\ lease' = Revocations

-----------------------------------------------------------------------------
(* The decision of an admin about a quarantined event, one for each. *)

\* record_only and reject_effect: neither touches the attempt.
Dismiss(a) ==
  /\ Held(a) /\ event[a] \in {"quarantined", "unverifiable"}
  /\ event' = [event EXCEPT ![a] = "dismissed"]
  /\ UNCHANGED <<vars, lease>>

\* Slip: the account of the maid stays as it was.
AccountAsItWas(a) == profile
\* A maid on her way out may only upload from now on.
AccountAfter(a) ==
  IF profile[work[a].maid] = "deactivation_pending"
  THEN [profile EXCEPT ![work[a].maid] = "upload_only"]
  ELSE profile

\* correction_link: the event becomes the completion after all, provided the
\* attempt is still running for the maid the lease was issued to.
Correct(a) ==
  /\ Held(a) /\ event[a] = "quarantined"
  /\ profile[work[a].maid] \in {"active", "deactivation_pending"}
  /\ StillCurrent(a) /\ phase[a] = "in_progress"
  /\ phase' = [phase EXCEPT ![a] = "field_completed"]
  /\ profile' = AccountAfter(a)
  /\ event' = [event EXCEPT ![a] = "corrected"]
  /\ UNCHANGED <<targetVars, work, inspectionVars>>
  /\ lease' = Revocations

-----------------------------------------------------------------------------
(* Time passes: two hours, and ninety days. *)

Expire(a) ==
  /\ lease[a].state = "issued"
  /\ lease' = [lease EXCEPT ![a].state = "expired"]
  /\ UNCHANGED <<vars, event>>

\* Nothing of the lease is left but that the attempt gets no other one.
Purge(a) ==
  /\ lease[a].state = "expired"
  /\ lease' = [lease EXCEPT ![a] = [state |-> "purged", revoked |-> FALSE]]
  /\ event' = [event EXCEPT ![a] = "none"]
  /\ UNCHANGED vars

NextOffline ==
  \/ WorkStep
  \/ \E a \in Attempts :
       \/ StartWithLease(a) \/ Dismiss(a) \/ Correct(a) \/ Expire(a) \/ Purge(a)
       \/ \E verifiable, plausible \in BOOLEAN : SyncEvent(a, verifiable, plausible)

SpecOffline == InitOffline /\ [][NextOffline]_offlineVars

-----------------------------------------------------------------------------
TypeOffline ==
  /\ lease \in [Attempts -> Lease]
  /\ event \in [Attempts -> Event]

\* A lease that no trigger revoked still has everything it was issued for: its
\* attempt runs, on the current assignment, for a maid whose account is active.
LiveLeaseIsBacked ==
  \A a \in Attempts : Held(a) /\ ~lease[a].revoked =>
    /\ Running(a) /\ OnCurrentAssignment(a)
    /\ profile[work[a].maid] = "active"

\* The life of a cleaning with leases, late events and corrections is a life it
\* could have had without them: no event or decision revives an ended attempt,
\* completes work that is not the maid's any more, or leaves her account behind
\* (docs/ATTEMPT_OFFLINE.md, the correction of the approved scope).
OfflineKeepsTheBook == Spec
=============================================================================
