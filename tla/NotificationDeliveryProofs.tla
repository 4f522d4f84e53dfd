--------------------- MODULE NotificationDeliveryProofs ---------------------
(***************************************************************************)
(* Theorems about NotificationDelivery, for every number of jobs,          *)
(* subscriptions and runs.  What an action may do to a target is said once *)
(* per action (the frames); the invariants follow from the frames.         *)
(***************************************************************************)
EXTENDS NotificationDelivery, TLAPS

\* The items a run has claimed and not yet laid down.
Held(w) == run[w].queue \cup ({run[w].item} \cap Items)

\* An active subscription has no reason of retirement, and room for one.
SubscriptionsCanRetire ==
  \A s \in Subscriptions :
    /\ subscription[s].active => subscription[s].reason = "none"
    /\ subscription[s].reason = "none" => subscription[s].version < MaxVersion

\* A target that exists was snapshotted from a subscription.
TargetsHaveVersions ==
  \A t \in Targets : target[t].status # "absent" => target[t].version \in 1..MaxVersion

\* A run holds items of targets that exist, and one in hand while it works on it.
RunsHoldTargets ==
  \A w \in Runs :
    /\ \A i \in Held(w) : target[i.target].status # "absent"
    /\ run[w].at # "next" => run[w].item \in Items
    /\ run[w].at = "answered" => run[w].outcome \in Outcomes

\* A job that was never claimed has no targets.
PendingJobsAreEmpty ==
  \A t \in Targets : job[JobOf(t)] = "pending" => target[t].status = "absent"

BaseInv ==
  /\ TypeOK
  /\ SubscriptionsCanRetire /\ TargetsHaveVersions /\ RunsHoldTargets /\ PendingJobsAreEmpty

-----------------------------------------------------------------------------
(* Types. *)

LEMMA ItemType ==
  ASSUME NEW i \in Items
  PROVE  i.target \in Targets /\ i.lease \in Leases /\ JobOf(i.target) \in Jobs
         /\ SubscriptionOf(i.target) \in Subscriptions
  BY DEF Items, Targets, JobOf, SubscriptionOf

LEMMA TargetType ==
  ASSUME NEW t \in Targets
  PROVE  JobOf(t) \in Jobs /\ SubscriptionOf(t) \in Subscriptions /\ t \in TargetsOf(JobOf(t))
  BY DEF Targets, JobOf, SubscriptionOf, TargetsOf

LEMMA TargetsOfJob ==
  ASSUME NEW j \in Jobs, NEW t \in TargetsOf(j)
  PROVE  t \in Targets /\ JobOf(t) = j
  BY DEF Targets, JobOf, TargetsOf

LEMMA IdleType == Idle \in RunState /\ Idle.queue = {} /\ Idle.item = NoItem /\ NoItem \notin Items
<1>1. NoItem \notin Items
  BY NothingInHand DEF Items, Targets, Leases
<1>. QED
  BY <1>1 DEF Idle, RunState

LEMMA SummaryType ==
  ASSUME NEW tgt, NEW j
  PROVE  Summary(tgt, j) \in {"operator_blocked", "materialized", "dead_letter", "completed"}
  BY DEF Summary

LEMMA RefreshedType ==
  ASSUME TypeOK, NEW tgt, NEW js
  PROVE  Refreshed(job, tgt, js)
           \in [Jobs -> {"pending", "materialized", "operator_blocked"} \cup JobEnd]
  BY SummaryType DEF TypeOK, Refreshed, JobEnd

LEMMA ConcludedType ==
  ASSUME NEW r \in TargetRow, NEW to \in {"operator_blocked"} \cup Open \cup TargetEnd
  PROVE  /\ Concluded(r, to) \in TargetRow
         /\ Concluded(r, to).status = to
         /\ Concluded(r, to).lease = r.lease
         /\ Concluded(r, to).version = r.version
  BY DEF Concluded, TargetRow

\* What a settlement does to the ledger, whatever its outcome.
LEMMA FinishType ==
  ASSUME TypeOK, NEW i \in Items, NEW to \in {"operator_blocked"} \cup Open \cup TargetEnd,
         NEW outcome \in {"suppressed"} \cup Outcomes, Finish(i, to, outcome)
  PROVE  /\ target' \in [Targets -> TargetRow]
         /\ job' \in [Jobs -> {"pending", "materialized", "operator_blocked"} \cup JobEnd]
         /\ result' \in [Targets -> [Leases -> {"none", "suppressed"} \cup Outcomes]]
         /\ target'[i.target].status = to
         /\ \A t \in Targets : /\ t # i.target => target'[t] = target[t]
                               /\ target'[t].version = target[t].version
                               /\ target'[t].lease = target[t].lease
<1>1. i.target \in Targets /\ i.lease \in Leases /\ target[i.target] \in TargetRow
  BY ItemType DEF TypeOK
<1>2. Concluded(target[i.target], to) \in TargetRow
      /\ Concluded(target[i.target], to).status = to
      /\ Concluded(target[i.target], to).lease = target[i.target].lease
      /\ Concluded(target[i.target], to).version = target[i.target].version
  BY <1>1, ConcludedType
<1>3. target' = [target EXCEPT ![i.target] = Concluded(target[i.target], to)]
  BY DEF Finish
<1>4. result' \in [Targets -> [Leases -> {"none", "suppressed"} \cup Outcomes]]
  BY <1>1 DEF Finish, TypeOK
<1>5. job' \in [Jobs -> {"pending", "materialized", "operator_blocked"} \cup JobEnd]
  BY RefreshedType DEF Finish
<1>. QED
  BY <1>1, <1>2, <1>3, <1>4, <1>5 DEF TypeOK

LEMMA LeasedType ==
  ASSUME NEW r \in TargetRow
  PROVE  /\ Leased(r) \in TargetRow
         /\ Leased(r).version = r.version
         /\ \/ /\ Leased(r).status = "claimed" /\ ~Leased(r).lapsed
               /\ Leased(r).lease = r.lease + 1 /\ Leased(r).lease \in Leases
            \/ /\ Leased(r).status = "dead_letter"
               /\ Leased(r).lease = r.lease /\ r.lease = MaxLease
<1>1. CASE r.lease >= MaxLease
  <2>1. r.lease = MaxLease
    BY <1>1, BoundsArePositive DEF TargetRow
  <2>. QED
    BY <1>1, <2>1 DEF Leased, Concluded, TargetRow, TargetEnd
<1>2. CASE ~(r.lease >= MaxLease)
  <2>1. r.lease \in Nat /\ r.lease + 1 \in 1..MaxLease
    BY <1>2, BoundsArePositive DEF TargetRow
  <2>2. Leased(r) = [r EXCEPT !.status = "claimed", !.lease = r.lease + 1, !.lapsed = FALSE]
    BY <1>2 DEF Leased
  <2>3. PICK n \in 0..MaxLease : n = r.lease + 1
    BY <2>1
  <2>4. Leased(r) = [r EXCEPT !.status = "claimed", !.lease = n, !.lapsed = FALSE]
    BY <2>2, <2>3
  <2>5. /\ Leased(r) \in TargetRow /\ Leased(r).version = r.version
        /\ Leased(r).status = "claimed" /\ Leased(r).lapsed = FALSE /\ Leased(r).lease = n
    BY <2>4 DEF TargetRow, Open
  <2>. QED
    BY <2>1, <2>3, <2>5 DEF Leases
<1>. QED
  BY <1>1, <1>2

\* A snapshot of a subscription is a pending target at its version.
LEMMA SnapshotType ==
  ASSUME TypeOK, NEW t \in Targets
  PROVE  LET row == Snapshot(JobOf(t))[t]
             s == subscription[SubscriptionOf(t)]
         IN  /\ row \in TargetRow
             /\ s.active => row.status = "pending" /\ row.version = s.version
             /\ ~s.active => row = target[t]
<1>1. /\ t \in TargetsOf(JobOf(t))
      /\ SubscriptionOf(t) \in Subscriptions /\ target[t] \in TargetRow
      /\ subscription[SubscriptionOf(t)] \in SubscriptionRow
  BY TargetType DEF TypeOK
<1>2. Snapshot(JobOf(t))[t] =
        IF subscription[SubscriptionOf(t)].active
        THEN [target[t] EXCEPT !.status = "pending",
                               !.version = subscription[SubscriptionOf(t)].version]
        ELSE target[t]
  BY <1>1 DEF Snapshot
<1>3. subscription[SubscriptionOf(t)].version \in 0..MaxVersion
  BY <1>1, BoundsArePositive DEF SubscriptionRow
<1>. QED
  BY <1>1, <1>2, <1>3 DEF TargetRow, Open

\* What a claim may do to a target, and what it hands to its run.
ClaimedFrom(t) ==
  \/ target'[t] = target[t]
  \/ /\ job[JobOf(t)] = "pending" /\ job'[JobOf(t)] # "pending"
     /\ subscription[SubscriptionOf(t)].active
     /\ target'[t].version = subscription[SubscriptionOf(t)].version
     /\ target'[t].status \in {"pending", "claimed", "dead_letter"}
     /\ target'[t].status = "dead_letter" => target'[t].lease = MaxLease
  \/ /\ job[JobOf(t)] = "materialized" /\ target[t].status \in Open
     /\ target[t].status = "claimed" => target[t].lapsed
     /\ target'[t].status \in {"claimed", "dead_letter"}
     /\ target'[t].status = "dead_letter" => target'[t].lease = MaxLease
     /\ target'[t].version = target[t].version

LEMMA OpenedType ==
  ASSUME NEW j, NEW broken
  PROVE  Opened(j, broken) \in {"suppressed", "dead_letter", "materialized"}
  BY DEF Opened

LEMMA ClaimFrame ==
  ASSUME TypeOK, PendingJobsAreEmpty, NEW w \in Runs,
         NEW opening \in SUBSET {j \in Jobs : job[j] = "pending"},
         NEW broken, NEW due \in SUBSET Targets, Claim(w, opening, broken, due)
  PROVE  /\ target' \in [Targets -> TargetRow]
         /\ job' \in [Jobs -> {"pending", "materialized", "operator_blocked"} \cup JobEnd]
         /\ \A j \in Jobs : job'[j] = "pending" => job[j] = "pending" /\ j \notin opening
         /\ \A t \in Targets : ClaimedFrom(t)
         /\ run'[w].at = "next" /\ run'[w].item = NoItem
         /\ run' = [run EXCEPT ![w] = run'[w]]
         /\ run'[w] \in RunState
         /\ \A i \in run'[w].queue : target'[i.target].status = "claimed"
<1>. DEFINE jobs == [j \in Jobs |-> IF j \in opening THEN Opened(j, broken) ELSE job[j]]
            tgt == [t \in Targets |->
                      IF JobOf(t) \in opening /\ jobs[JobOf(t)] = "materialized"
                      THEN Snapshot(JobOf(t))[t] ELSE target[t]]
            taken == {t \in due : Leased(tgt[t]).status = "claimed"}
<1>1. /\ run[w] = Idle
      /\ \A t \in due : Claimable(jobs, tgt, t)
      /\ target' = [t \in Targets |-> IF t \in due THEN Leased(tgt[t]) ELSE tgt[t]]
      /\ job' = Refreshed(jobs, target', {JobOf(t) : t \in due \ taken})
      /\ MoveTo(w, [Idle EXCEPT !.queue = {[target |-> t, lease |-> target'[t].lease] : t \in taken}])
  BY DEF Claim
<1>2. \A t \in Targets : tgt[t] \in TargetRow
  BY SnapshotType DEF TypeOK
<1>3. \A t \in Targets : /\ target'[t] = IF t \in due THEN Leased(tgt[t]) ELSE tgt[t]
                         /\ target'[t] \in TargetRow
  BY <1>1, <1>2, LeasedType
<1>4. \A j \in Jobs : jobs[j] \in {"pending", "materialized", "operator_blocked"} \cup JobEnd
                      /\ (j \in opening => jobs[j] # "pending")
  BY OpenedType DEF TypeOK, JobEnd
<1>5. \A j \in Jobs : \/ job'[j] = jobs[j]
                      \/ job'[j] \in {"operator_blocked", "materialized", "dead_letter", "completed"}
  BY <1>1, SummaryType DEF Refreshed
<1>6. job' \in [Jobs -> {"pending", "materialized", "operator_blocked"} \cup JobEnd]
  <2>1. job' = [j \in Jobs |-> job'[j]]
    BY <1>1 DEF Refreshed
  <2>. QED
    BY <2>1, <1>4, <1>5 DEF JobEnd
<1>7. \A j \in Jobs : job'[j] = "pending" => job[j] = "pending" /\ j \notin opening
  BY <1>4, <1>5
<1>8. \A t \in Targets : ClaimedFrom(t)
  <2>. SUFFICES ASSUME NEW t \in Targets PROVE ClaimedFrom(t)
    OBVIOUS
  <2>1. JobOf(t) \in Jobs /\ target[t] \in TargetRow
    BY TargetType DEF TypeOK
  <2>2. CASE JobOf(t) \in opening /\ jobs[JobOf(t)] = "materialized"
    <3>1. tgt[t] = Snapshot(JobOf(t))[t] /\ job[JobOf(t)] = "pending" /\ job'[JobOf(t)] # "pending"
      BY <2>1, <2>2, <1>7
    <3>2. target[t].status = "absent"
      BY <3>1 DEF PendingJobsAreEmpty
    <3>3. CASE subscription[SubscriptionOf(t)].active
      BY <1>2, <1>3, <3>1, <3>3, SnapshotType, LeasedType DEF ClaimedFrom
    <3>4. CASE ~subscription[SubscriptionOf(t)].active
      <4>1. tgt[t] = target[t]
        BY <3>1, <3>4, SnapshotType
      <4>2. t \notin due
        BY <1>1, <4>1, <3>2 DEF Claimable
      <4>. QED
        BY <1>3, <4>1, <4>2 DEF ClaimedFrom
    <3>. QED
      BY <3>3, <3>4
  <2>3. CASE ~(JobOf(t) \in opening /\ jobs[JobOf(t)] = "materialized")
    <3>1. tgt[t] = target[t]
      BY <2>3
    <3>2. ASSUME t \in due
          PROVE  /\ job[JobOf(t)] = "materialized" /\ target[t].status \in Open
                 /\ target[t].status = "claimed" => target[t].lapsed
      BY <1>1, <2>1, <2>3, <3>1, <3>2 DEF Claimable, Open
    <3>. QED
      BY <1>3, <2>1, <3>1, <3>2, LeasedType DEF ClaimedFrom
  <2>. QED
    BY <2>2, <2>3
<1>9. /\ run' = [run EXCEPT ![w] = run'[w]]
      /\ run'[w] = [Idle EXCEPT !.queue = {[target |-> t, lease |-> target'[t].lease] : t \in taken}]
  BY <1>1 DEF MoveTo, TypeOK
<1>10. \A t \in taken : target'[t].status = "claimed" /\ target'[t].lease \in Leases
  BY <1>2, <1>3, LeasedType
<1>11. {[target |-> t, lease |-> target'[t].lease] : t \in taken} \in SUBSET Items
  <2>1. ASSUME NEW t \in taken PROVE [target |-> t, lease |-> target'[t].lease] \in Items
    <3>1. t \in Targets /\ target'[t].lease \in Leases
      BY <1>10
    <3>. QED
      BY <3>1 DEF Items
  <2>. QED
    BY <2>1
<1>12. run'[w] \in RunState /\ run'[w].at = "next" /\ run'[w].item = NoItem
       /\ run'[w].queue = {[target |-> t, lease |-> target'[t].lease] : t \in taken}
  BY <1>9, <1>11 DEF Idle, RunState
<1>13. target' \in [Targets -> TargetRow]
  BY <1>1, <1>3
<1>14. \A i \in run'[w].queue : target'[i.target].status = "claimed"
  <2>. SUFFICES ASSUME NEW i \in run'[w].queue PROVE target'[i.target].status = "claimed"
    OBVIOUS
  <2>1. PICK t \in taken : i = [target |-> t, lease |-> target'[t].lease]
    BY <1>12
  <2>. QED
    BY <1>10, <2>1
<1>. QED
  BY <1>6, <1>7, <1>8, <1>9, <1>12, <1>13, <1>14

-----------------------------------------------------------------------------
(* The base invariant.  Its parts: the ledger, the subscriptions, the runs. *)

LedgerOK ==
  /\ job \in [Jobs -> {"pending", "materialized", "operator_blocked"} \cup JobEnd]
  /\ target \in [Targets -> TargetRow]
  /\ result \in [Targets -> [Leases -> {"none", "suppressed"} \cup Outcomes]]
  /\ TargetsHaveVersions /\ PendingJobsAreEmpty
SubscriptionsOK ==
  subscription \in [Subscriptions -> SubscriptionRow] /\ SubscriptionsCanRetire
RunsOK == run \in [Runs -> RunState] /\ RunsHoldTargets
RestOK ==
  /\ permits \subseteq Items /\ accepted \subseteq Items
  /\ gone \subseteq Subscriptions \X (1..MaxVersion)
  /\ wanted \in [Jobs -> BOOLEAN] /\ eligible \in BOOLEAN

LEMMA BaseParts == LedgerOK' /\ SubscriptionsOK' /\ RunsOK' /\ RestOK' => BaseInv'
  BY DEF BaseInv, TypeOK, LedgerOK, SubscriptionsOK, RunsOK, RestOK

\* Targets that exist go on existing, at their version.
TargetsStay ==
  \A t \in Targets : target[t].status # "absent" =>
    target'[t].status # "absent" /\ target'[t].version = target[t].version

LEMMA FinishLedger ==
  ASSUME BaseInv, NEW i \in Items, NEW to \in {"operator_blocked"} \cup Open \cup TargetEnd,
         NEW outcome \in {"suppressed"} \cup Outcomes, Finish(i, to, outcome),
         target[i.target].status = "claimed"
  PROVE  LedgerOK' /\ TargetsStay
<1>1. /\ target' \in [Targets -> TargetRow]
      /\ job' \in [Jobs -> {"pending", "materialized", "operator_blocked"} \cup JobEnd]
      /\ result' \in [Targets -> [Leases -> {"none", "suppressed"} \cup Outcomes]]
      /\ target'[i.target].status = to /\ to # "absent"
      /\ \A t \in Targets : /\ t # i.target => target'[t] = target[t]
                            /\ target'[t].version = target[t].version
  BY FinishType DEF BaseInv, Open, TargetEnd
<1>2. \A t \in Targets : target'[t].status # "absent" => target[t].status # "absent"
  BY <1>1
<1>3. \A j \in Jobs : job'[j] = "pending" => job[j] = "pending"
  BY SummaryType DEF Finish, Refreshed
<1>4. TargetsHaveVersions' /\ TargetsStay
  BY <1>1, <1>2 DEF BaseInv, TargetsHaveVersions, TargetsStay
<1>5. PendingJobsAreEmpty'
  BY <1>2, <1>3, TargetType DEF BaseInv, PendingJobsAreEmpty
<1>. QED
  BY <1>1, <1>4, <1>5 DEF LedgerOK

LEMMA RetiredType ==
  ASSUME NEW r \in SubscriptionRow, r.version < MaxVersion,
         NEW reason \in {"user_requested", "expired", "session_revoked", "endpoint_gone"}
  PROVE  /\ Retired(r, reason) \in SubscriptionRow
         /\ ~Retired(r, reason).active /\ Retired(r, reason).reason = reason
         /\ Retired(r, reason).version = r.version + 1
<1>1. r.version + 1 \in 1..MaxVersion
  BY BoundsArePositive DEF SubscriptionRow
<1>2. PICK v \in 1..MaxVersion : v = r.version + 1
  BY <1>1
<1>3. Retired(r, reason) = [r EXCEPT !.active = FALSE, !.version = v, !.reason = reason]
  BY <1>2 DEF Retired
<1>. QED
  BY <1>2, <1>3 DEF SubscriptionRow

LEMMA ReplaceSubscription ==
  ASSUME BaseInv, NEW s \in Subscriptions, NEW row \in SubscriptionRow,
         subscription' = [subscription EXCEPT ![s] = row],
         row.active => row.reason = "none", row.reason = "none" => row.version < MaxVersion
  PROVE  SubscriptionsOK'
  BY DEF BaseInv, TypeOK, SubscriptionsOK, SubscriptionsCanRetire

LEMMA RetireSubscriptions ==
  ASSUME BaseInv, NEW t \in Targets,
         NEW reason \in {"expired", "session_revoked", "endpoint_gone"}, Retire(t, reason)
  PROVE  SubscriptionsOK'
<1>1. SubscriptionOf(t) \in Subscriptions /\ subscription[SubscriptionOf(t)] \in SubscriptionRow
  BY TargetType DEF BaseInv, TypeOK
<1>2. CASE Current(t)
  <2>1. subscription[SubscriptionOf(t)].version < MaxVersion
    BY <1>1, <1>2 DEF Current, BaseInv, SubscriptionsCanRetire
  <2>. DEFINE row == Retired(subscription[SubscriptionOf(t)], reason)
  <2>2. row \in SubscriptionRow /\ ~row.active /\ row.reason = reason
    BY <1>1, <2>1, RetiredType
  <2>3. subscription' = [subscription EXCEPT ![SubscriptionOf(t)] = row]
    BY <1>2 DEF Retire
  <2>. HIDE DEF row
  <2>. QED
    BY <1>1, <2>2, <2>3, ReplaceSubscription
<1>3. CASE ~Current(t)
  BY <1>3 DEF Retire, SubscriptionsOK, BaseInv, TypeOK, SubscriptionsCanRetire
<1>. QED
  BY <1>2, <1>3

\* A run lays items down, or goes on with the one in hand.
LEMMA MoveRuns ==
  ASSUME BaseInv, TargetsStay, NEW w \in Runs, NEW next \in RunState, MoveTo(w, next),
         next.queue \cup ({next.item} \cap Items) \subseteq Held(w),
         next.at # "next" => next.item \in Items,
         next.at = "answered" => next.outcome \in Outcomes
  PROVE  RunsOK'
<1>1. /\ run' = [run EXCEPT ![w] = next] /\ run \in [Runs -> RunState]
      /\ Held(w)' = next.queue \cup ({next.item} \cap Items)
      /\ \A v \in Runs \ {w} : run'[v] = run[v] /\ Held(v)' = Held(v)
      /\ run'[w] = next
  BY DEF MoveTo, BaseInv, TypeOK, Held
<1>2. \A v \in Runs : \A i \in Held(v) : i \in Items
  BY DEF Held, BaseInv, TypeOK, RunState
<1>3. \A v \in Runs : \A i \in Held(v) : target'[i.target].status # "absent"
  BY <1>2, ItemType DEF BaseInv, RunsHoldTargets, TargetsStay
<1>. QED
  BY <1>1, <1>3 DEF RunsOK, BaseInv, RunsHoldTargets

LEMMA KeepRuns ==
  ASSUME BaseInv, TargetsStay, UNCHANGED run
  PROVE  RunsOK'
<1>1. \A v \in Runs : \A i \in Held(v) : i \in Items
  BY DEF Held, BaseInv, TypeOK, RunState
<1>2. \A v \in Runs : Held(v)' = Held(v)
  BY DEF Held
<1>3. \A v \in Runs : \A i \in Held(v) : target'[i.target].status # "absent"
  BY <1>1, ItemType DEF BaseInv, RunsHoldTargets, TargetsStay, Held, TypeOK, RunState
<1>. QED
  BY <1>2, <1>3 DEF RunsOK, BaseInv, TypeOK, RunsHoldTargets

\* Laying down what is in hand, or everything.
LEMMA RestType ==
  ASSUME BaseInv, NEW w \in Runs
  PROVE  /\ Rest(w) \in RunState /\ Rest(w).at = "next" /\ Rest(w).item = NoItem
         /\ Rest(w).queue = run[w].queue \ {run[w].item}
  BY DEF Rest, Idle, RunState, BaseInv, TypeOK

LEMMA RunRests ==
  ASSUME BaseInv, TargetsStay, NEW w \in Runs,
         MoveTo(w, Rest(w)) \/ MoveTo(w, Idle)
         \/ \E i \in run[w].queue : MoveTo(w, [Idle EXCEPT !.queue = run[w].queue \ {i}])
  PROVE  RunsOK'
<1>1. run[w] \in RunState
  BY DEF BaseInv, TypeOK
<1>2. CASE MoveTo(w, Rest(w))
  BY <1>2, RestType, IdleType, MoveRuns DEF Held
<1>3. CASE MoveTo(w, Idle)
  BY <1>3, IdleType, MoveRuns DEF Held, Idle
<1>4. ASSUME NEW i \in run[w].queue, MoveTo(w, [Idle EXCEPT !.queue = run[w].queue \ {i}])
      PROVE  RunsOK'
  <2>. DEFINE next == [Idle EXCEPT !.queue = run[w].queue \ {i}]
  <2>1. next \in RunState /\ next.at = "next" /\ next.item = NoItem
        /\ next.queue = run[w].queue \ {i}
    BY <1>1 DEF Idle, RunState
  <2>. HIDE DEF next
  <2>. QED
    BY <1>4, <2>1, IdleType, MoveRuns DEF Held, next
<1>. QED
  BY <1>2, <1>3, <1>4

LEMMA EnvelopeBase ==
  ASSUME BaseInv, NEW w \in Runs, NEW i \in run[w].queue, Envelope(w, i)
  PROVE  BaseInv'
<1>. DEFINE rest == [Idle EXCEPT !.queue = run[w].queue \ {i}]
<1>1. run[w] \in RunState /\ i \in Items /\ target[i.target].status = "claimed"
  BY DEF BaseInv, TypeOK, RunState, Envelope, Fence
<1>2. RestOK'
  BY DEF Envelope, providerVars, BaseInv, TypeOK, RestOK
<1>3. LedgerOK' /\ TargetsStay
  <2>1. CASE UNCHANGED deliveryVars
    BY <2>1 DEF deliveryVars, BaseInv, TypeOK, LedgerOK, TargetsHaveVersions, PendingJobsAreEmpty, TargetsStay
  <2>2. CASE \E to \in {"suppressed", "dead_letter"}, outcome \in {"suppressed", "payload_rejected"} :
               Finish(i, to, outcome)
    BY <1>1, <2>2, FinishLedger DEF TargetEnd, Outcomes
  <2>. QED
    BY <2>1, <2>2 DEF Envelope
<1>4. SubscriptionsOK'
  <2>1. CASE UNCHANGED subscription
    BY <2>1 DEF BaseInv, TypeOK, SubscriptionsOK, SubscriptionsCanRetire
  <2>2. CASE Retire(i.target, "expired")
    BY <1>1, <2>2, ItemType, RetireSubscriptions
  <2>. QED
    BY <2>1, <2>2 DEF Envelope
<1>5. RunsOK'
  <2>1. CASE MoveTo(w, rest)
    BY <1>3, <2>1, RunRests
  <2>2. CASE MoveTo(w, [rest EXCEPT !.at = "enveloped", !.item = i])
    <3>. DEFINE next == [rest EXCEPT !.at = "enveloped", !.item = i]
    <3>1. next \in RunState /\ next.at = "enveloped" /\ next.item = i
          /\ next.queue = run[w].queue \ {i}
      BY <1>1 DEF Idle, RunState
    <3>. HIDE DEF next
    <3>. QED
      BY <1>1, <1>3, <2>2, <3>1, MoveRuns DEF Held, next
  <2>. QED
    BY <2>1, <2>2 DEF Envelope
<1>. QED
  BY <1>2, <1>3, <1>4, <1>5, BaseParts

LEMMA PermitBase ==
  ASSUME BaseInv, NEW w \in Runs, Permit(w)
  PROVE  BaseInv'
<1>. DEFINE i == run[w].item
<1>1. run[w] \in RunState /\ i \in Items /\ target[i.target].status = "claimed"
  BY DEF BaseInv, TypeOK, RunState, Permit, Fence, RunsHoldTargets
<1>. HIDE DEF i
<1>2. RestOK'
  BY <1>1 DEF Permit, providerVars, BaseInv, TypeOK, RestOK, i
<1>3. LedgerOK' /\ TargetsStay
  <2>1. CASE UNCHANGED deliveryVars
    BY <2>1 DEF deliveryVars, BaseInv, TypeOK, LedgerOK, TargetsHaveVersions, PendingJobsAreEmpty, TargetsStay
  <2>2. CASE \E to \in {"suppressed", "dead_letter"}, outcome \in {"suppressed", "payload_rejected"} :
               Finish(i, to, outcome)
    BY <1>1, <2>2, FinishLedger DEF TargetEnd, Outcomes
  <2>. QED
    BY <2>1, <2>2 DEF Permit, i
<1>4. SubscriptionsOK'
  <2>1. CASE UNCHANGED subscription
    BY <2>1 DEF BaseInv, TypeOK, SubscriptionsOK, SubscriptionsCanRetire
  <2>2. CASE RetireReason(i) # "none" /\ Retire(i.target, RetireReason(i))
    <3>1. RetireReason(i) \in {"expired", "session_revoked"}
      BY <2>2 DEF RetireReason
    <3>. QED
      BY <1>1, <2>2, <3>1, ItemType, RetireSubscriptions
  <2>. QED
    BY <2>1, <2>2 DEF Permit, i
<1>5. RunsOK'
  <2>1. CASE MoveTo(w, Rest(w))
    BY <1>3, <2>1, RunRests
  <2>2. CASE MoveTo(w, [run[w] EXCEPT !.at = "permitted"])
    <3>. DEFINE next == [run[w] EXCEPT !.at = "permitted"]
    <3>1. next \in RunState /\ next.at = "permitted" /\ next.item = i
          /\ next.queue = run[w].queue
      BY <1>1 DEF RunState, i
    <3>. HIDE DEF next
    <3>. QED
      BY <1>1, <1>3, <2>2, <3>1, MoveRuns DEF Held, next, i
  <2>. QED
    BY <2>1, <2>2 DEF Permit
<1>. QED
  BY <1>2, <1>3, <1>4, <1>5, BaseParts

LEMMA SendBase ==
  ASSUME BaseInv, NEW w \in Runs, NEW outcome \in Outcomes, Send(w, outcome)
  PROVE  BaseInv'
<1>. DEFINE i == run[w].item
            next == [run[w] EXCEPT !.at = "answered", !.outcome = outcome]
<1>1. run[w] \in RunState /\ i \in Items /\ i \in Held(w)
  BY DEF BaseInv, TypeOK, RunState, Send, RunsHoldTargets, Held
<1>2. /\ SubscriptionOf(i.target) \in Subscriptions
      /\ target[i.target].version \in 1..MaxVersion
  BY <1>1, ItemType DEF BaseInv, RunsHoldTargets, TargetsHaveVersions
<1>3. RestOK'
  <2>1. accepted' \subseteq accepted \cup {i}
    BY DEF Send, providerVars, Outcomes
  <2>2. gone' \subseteq gone \cup {<<SubscriptionOf(i.target), target[i.target].version>>}
    BY DEF Send, providerVars, Outcomes
  <2>. QED
    BY <1>1, <1>2, <2>1, <2>2 DEF Send, BaseInv, TypeOK, RestOK
<1>4. LedgerOK' /\ TargetsStay /\ SubscriptionsOK'
  BY DEF Send, deliveryVars, BaseInv, TypeOK, LedgerOK, TargetsHaveVersions,
     PendingJobsAreEmpty, TargetsStay, SubscriptionsOK, SubscriptionsCanRetire
<1>5. next \in RunState /\ next.at = "answered" /\ next.item = i /\ next.outcome = outcome
      /\ next.queue = run[w].queue
  BY <1>1 DEF RunState
<1>6. MoveTo(w, next)
  BY DEF Send
<1>. HIDE DEF next
<1>7. RunsOK'
  BY <1>1, <1>4, <1>5, <1>6, MoveRuns DEF Held
<1>. QED
  BY <1>3, <1>4, <1>7, BaseParts

LEMMA SettledType ==
  ASSUME NEW i, NEW outcome
  PROVE  Settled(i, outcome) \in {"operator_blocked", "retry"} \cup TargetEnd
  BY DEF Settled, TargetEnd

LEMMA SettleBase ==
  ASSUME BaseInv, NEW w \in Runs, Settle(w)
  PROVE  BaseInv'
<1>. DEFINE i == run[w].item
            outcome == run[w].outcome
<1>1. /\ i \in Items /\ outcome \in Outcomes /\ target[i.target].status = "claimed"
      /\ Finish(i, Settled(i, outcome), outcome)
  BY DEF BaseInv, Settle, Fence, RunsHoldTargets
<1>2. RestOK'
  BY DEF Settle, providerVars, BaseInv, TypeOK, RestOK
<1>3. LedgerOK' /\ TargetsStay
  BY <1>1, SettledType, FinishLedger DEF Open
<1>4. SubscriptionsOK'
  <2>1. CASE UNCHANGED subscription
    BY <2>1 DEF BaseInv, TypeOK, SubscriptionsOK, SubscriptionsCanRetire
  <2>2. CASE Retire(i.target, "endpoint_gone")
    BY <1>1, <2>2, ItemType, RetireSubscriptions
  <2>. QED
    BY <2>1, <2>2 DEF Settle
<1>5. RunsOK'
  BY <1>3, RunRests DEF Settle
<1>. QED
  BY <1>2, <1>3, <1>4, <1>5, BaseParts

\* What a claim does to the targets leaves them at the version of a snapshot.
LEMMA ClaimedTargets ==
  ASSUME BaseInv, NEW t \in Targets, ClaimedFrom(t)
  PROVE  /\ target[t].status # "absent" =>
              target'[t].status # "absent" /\ target'[t].version = target[t].version
         /\ target'[t].status # "absent" => target'[t].version \in 1..MaxVersion
         /\ target'[t].status = "absent" => target[t].status = "absent"
         /\ target[t].status = "absent" /\ target'[t].status # "absent" => job'[JobOf(t)] # "pending"
<1>1. SubscriptionOf(t) \in Subscriptions /\ JobOf(t) \in Jobs
      /\ subscription[SubscriptionOf(t)].version \in 1..MaxVersion
  BY TargetType DEF BaseInv, TypeOK, SubscriptionRow
<1>2. target[t].status # "absent" => target[t].version \in 1..MaxVersion
  BY DEF BaseInv, TargetsHaveVersions
<1>3. job[JobOf(t)] = "pending" => target[t].status = "absent"
  BY DEF BaseInv, PendingJobsAreEmpty
<1>4. CASE target'[t] = target[t]
  BY <1>2, <1>4
<1>5. CASE /\ job[JobOf(t)] = "pending" /\ job'[JobOf(t)] # "pending"
           /\ target'[t].version = subscription[SubscriptionOf(t)].version
           /\ target'[t].status \in {"pending", "claimed", "dead_letter"}
  BY <1>1, <1>3, <1>5
<1>6. CASE /\ target[t].status \in Open
           /\ target'[t].status \in {"claimed", "dead_letter"}
           /\ target'[t].version = target[t].version
  BY <1>2, <1>6 DEF Open
<1>. QED
  BY <1>4, <1>5, <1>6 DEF ClaimedFrom

LEMMA ClaimBase ==
  ASSUME BaseInv, NEW w \in Runs, ClaimBatch(w)
  PROVE  BaseInv'
<1>1. PICK opening \in SUBSET {j \in Jobs : job[j] = "pending"}, due \in SUBSET Targets :
        \E broken \in SUBSET opening : Claim(w, opening, broken, due)
  BY DEF ClaimBatch
<1>2. PICK broken \in SUBSET opening : Claim(w, opening, broken, due)
  BY <1>1
<1>3. /\ target' \in [Targets -> TargetRow]
      /\ job' \in [Jobs -> {"pending", "materialized", "operator_blocked"} \cup JobEnd]
      /\ \A j \in Jobs : job'[j] = "pending" => job[j] = "pending" /\ j \notin opening
      /\ \A t \in Targets : ClaimedFrom(t)
      /\ run'[w].at = "next" /\ run'[w].item = NoItem
      /\ run' = [run EXCEPT ![w] = run'[w]]
      /\ run'[w] \in RunState
      /\ \A i \in run'[w].queue : target'[i.target].status = "claimed"
  BY <1>2, ClaimFrame DEF BaseInv
<1>4. UNCHANGED <<result, permits, subscription, wanted, eligible, providerVars>>
  BY <1>2 DEF Claim
<1>5. RestOK' /\ SubscriptionsOK'
  BY <1>4 DEF providerVars, BaseInv, TypeOK, RestOK, SubscriptionsOK, SubscriptionsCanRetire
<1>6. TargetsHaveVersions' /\ TargetsStay
  BY <1>3, ClaimedTargets DEF TargetsHaveVersions, TargetsStay
<1>7. PendingJobsAreEmpty'
  <2>. SUFFICES ASSUME NEW t \in Targets, job'[JobOf(t)] = "pending"
                PROVE  target'[t].status = "absent"
    BY DEF PendingJobsAreEmpty
  <2>1. job[JobOf(t)] = "pending"
    BY <1>3, TargetType
  <2>2. target[t].status = "absent"
    BY <2>1 DEF BaseInv, PendingJobsAreEmpty
  <2>. QED
    BY <1>3, <2>2, ClaimedTargets
<1>8. LedgerOK'
  BY <1>3, <1>4, <1>6, <1>7 DEF LedgerOK, BaseInv, TypeOK
<1>9. RunsOK'
  <2>1. run \in [Runs -> RunState]
    BY DEF BaseInv, TypeOK
  <2>2. Held(w)' = run'[w].queue
    BY <1>3, IdleType DEF Held
  <2>3. \A v \in Runs \ {w} : run'[v] = run[v] /\ Held(v)' = Held(v)
    BY <1>3, <2>1 DEF Held
  <2>4. \A v \in Runs : \A i \in Held(v) : i \in Items
    BY <2>1 DEF Held, RunState
  <2>5. \A v \in Runs \ {w} : \A i \in Held(v)' : target'[i.target].status # "absent"
    BY <1>6, <2>3, <2>4, ItemType DEF BaseInv, RunsHoldTargets, TargetsStay
  <2>6. \A v \in Runs : \A i \in Held(v)' : target'[i.target].status # "absent"
    BY <1>3, <2>2, <2>5
  <2>. QED
    BY <1>3, <2>1, <2>3, <2>6 DEF RunsOK, BaseInv, RunsHoldTargets
<1>. QED
  BY <1>5, <1>8, <1>9, BaseParts

LEMMA LapseBase ==
  ASSUME BaseInv, NEW t \in Targets, LeaseLapses(t)
  PROVE  BaseInv'
<1>1. /\ target[t] \in TargetRow
      /\ target' = [target EXCEPT ![t] = [target[t] EXCEPT !.lapsed = TRUE]]
  BY DEF BaseInv, TypeOK, LeaseLapses
<1>. DEFINE row == [target[t] EXCEPT !.lapsed = TRUE]
<1>2. row \in TargetRow /\ row.status = target[t].status /\ row.version = target[t].version
  BY <1>1 DEF TargetRow
<1>. HIDE DEF row
<1>3. target' \in [Targets -> TargetRow]
      /\ \A u \in Targets : target'[u].status = target[u].status /\ target'[u].version = target[u].version
  BY <1>1, <1>2 DEF BaseInv, TypeOK, row
<1>4. UNCHANGED <<job, result, permits, subscription, wanted, eligible, run, providerVars>>
  BY DEF LeaseLapses
<1>5. LedgerOK' /\ TargetsStay
  BY <1>3, <1>4 DEF LedgerOK, TargetsStay, BaseInv, TypeOK, TargetsHaveVersions, PendingJobsAreEmpty
<1>6. RestOK' /\ SubscriptionsOK'
  BY <1>4 DEF providerVars, BaseInv, TypeOK, RestOK, SubscriptionsOK, SubscriptionsCanRetire
<1>. QED
  BY <1>4, <1>5, <1>6, KeepRuns, BaseParts

LEMMA ResumedType ==
  ASSUME NEW r \in TargetRow
  PROVE  /\ Resumed(r) \in TargetRow
         /\ Resumed(r).version = r.version /\ Resumed(r).lease = r.lease
         /\ \/ r.status \notin Open \cup {"operator_blocked"} /\ Resumed(r) = r
            \/ /\ r.status \in Open \cup {"operator_blocked"}
               /\ Resumed(r).status \in {"retry", "dead_letter"}
               /\ Resumed(r).status = "dead_letter" => r.lease = MaxLease
<1>1. CASE r.status \notin Open \cup {"operator_blocked"}
  BY <1>1 DEF Resumed
<1>2. CASE r.status \in Open \cup {"operator_blocked"} /\ r.lease >= MaxLease
  <2>1. Resumed(r) = Concluded(r, "dead_letter")
    BY <1>2 DEF Resumed
  <2>2. r.lease = MaxLease
    BY <1>2, BoundsArePositive DEF TargetRow
  <2>. QED
    BY <1>2, <2>1, <2>2, ConcludedType DEF TargetEnd
<1>3. CASE r.status \in Open \cup {"operator_blocked"} /\ ~(r.lease >= MaxLease)
  <2>1. Resumed(r) = Concluded(r, "retry")
    BY <1>3 DEF Resumed
  <2>. QED
    BY <1>3, <2>1, ConcludedType DEF Open
<1>. QED
  BY <1>1, <1>2, <1>3

LEMMA ResumeBase ==
  ASSUME BaseInv, NEW j \in Jobs, Resume(j)
  PROVE  BaseInv'
<1>1. /\ target' = [t \in Targets |-> IF JobOf(t) = j THEN Resumed(target[t]) ELSE target[t]]
      /\ job' = Refreshed(job, target', {j})
      /\ UNCHANGED <<result, permits, subscription, wanted, eligible, run, providerVars>>
  BY DEF Resume
<1>2. \A t \in Targets : target[t] \in TargetRow /\ Resumed(target[t]) \in TargetRow
  BY ResumedType DEF BaseInv, TypeOK
<1>3. /\ target' \in [Targets -> TargetRow]
      /\ \A t \in Targets : /\ target'[t].status = "absent" <=> target[t].status = "absent"
                            /\ target'[t].version = target[t].version
  <2>1. \A t \in Targets : /\ target'[t] \in TargetRow
                           /\ target'[t] = target[t] \/ target'[t] = Resumed(target[t])
    BY <1>1, <1>2
  <2>2. target' \in [Targets -> TargetRow]
    BY <1>1, <2>1
  <2>. QED
    BY <1>2, <2>1, <2>2, ResumedType DEF Open
<1>4. job' \in [Jobs -> {"pending", "materialized", "operator_blocked"} \cup JobEnd]
  BY <1>1, RefreshedType DEF BaseInv
<1>5. \A k \in Jobs : job'[k] = "pending" => job[k] = "pending"
  BY <1>1, SummaryType DEF Refreshed
<1>6. PendingJobsAreEmpty'
  BY <1>3, <1>5, TargetType DEF BaseInv, PendingJobsAreEmpty
<1>7. LedgerOK' /\ TargetsStay
  BY <1>1, <1>3, <1>4, <1>6 DEF LedgerOK, TargetsStay, BaseInv, TypeOK, TargetsHaveVersions
<1>8. RestOK' /\ SubscriptionsOK'
  BY <1>1 DEF providerVars, BaseInv, TypeOK, RestOK, SubscriptionsOK, SubscriptionsCanRetire
<1>. QED
  BY <1>1, <1>7, <1>8, KeepRuns, BaseParts

\* Steps that touch neither the ledger nor what the provider knows.
LEMMA QuietLedger ==
  ASSUME BaseInv, UNCHANGED <<deliveryVars, permits, providerVars>>,
         wanted' \in [Jobs -> BOOLEAN], eligible' \in BOOLEAN
  PROVE  LedgerOK' /\ TargetsStay /\ RestOK'
  BY DEF deliveryVars, providerVars, BaseInv, TypeOK, LedgerOK, TargetsHaveVersions,
     PendingJobsAreEmpty, TargetsStay, RestOK

LEMMA RunEndBase ==
  ASSUME BaseInv, NEW w \in Runs, Defer(w) \/ RunDies(w)
  PROVE  BaseInv'
<1>1. UNCHANGED <<deliveryVars, permits, subscription, wanted, eligible, providerVars>>
  BY DEF Defer, RunDies
<1>2. LedgerOK' /\ TargetsStay /\ RestOK' /\ SubscriptionsOK'
  BY <1>1, QuietLedger DEF BaseInv, TypeOK, SubscriptionsOK, SubscriptionsCanRetire
<1>3. RunsOK'
  BY <1>2, RunRests DEF Defer, RunDies
<1>. QED
  BY <1>2, <1>3, BaseParts

LEMMA SubscriptionBase ==
  ASSUME BaseInv, NEW s \in Subscriptions,
         Register(s) \/ Rotate(s) \/ Unsubscribe(s) \/ SubscriptionAges(s)
  PROVE  BaseInv'
<1>. DEFINE r == subscription[s]
<1>1. r \in SubscriptionRow
  BY DEF BaseInv, TypeOK
<1>2. UNCHANGED <<deliveryVars, permits, wanted, eligible, run, providerVars>>
  BY DEF Register, Rotate, Unsubscribe, SubscriptionAges
<1>3. LedgerOK' /\ TargetsStay /\ RestOK'
  BY <1>2, QuietLedger DEF BaseInv, TypeOK
<1>4. /\ r.active => r.reason = "none"
      /\ r.reason = "none" => r.version < MaxVersion
  BY DEF BaseInv, SubscriptionsCanRetire
<1>5. ASSUME Register(s) PROVE SubscriptionsOK'
  <2>. DEFINE row == [r EXCEPT !.active = TRUE]
  <2>1. row \in SubscriptionRow /\ row.reason = r.reason /\ row.version = r.version
        /\ r.reason = "none" /\ subscription' = [subscription EXCEPT ![s] = row]
    BY <1>1, <1>5 DEF Register, SubscriptionRow
  <2>. HIDE DEF row
  <2>. QED
    BY <1>4, <2>1, ReplaceSubscription
<1>6. ASSUME Rotate(s) PROVE SubscriptionsOK'
  <2>1. r.active /\ r.version + 1 < MaxVersion
        /\ subscription' = [subscription EXCEPT
             ![s].version = @ + 1, ![s].expired = FALSE, ![s].session = TRUE]
    BY <1>6 DEF Rotate
  <2>2. r.version + 1 \in 1..MaxVersion
    BY <1>1, <2>1, BoundsArePositive DEF SubscriptionRow
  <2>3. PICK v \in 1..MaxVersion : v = r.version + 1
    BY <2>2
  <2>. DEFINE row == [r EXCEPT !.version = v, !.expired = FALSE, !.session = TRUE]
  <2>4. row \in SubscriptionRow /\ row.reason = r.reason /\ row.version = v
    BY <1>1 DEF SubscriptionRow
  <2>5. subscription' = [subscription EXCEPT ![s] = row]
    BY <1>1, <2>1, <2>3 DEF BaseInv, TypeOK, SubscriptionRow
  <2>6. v < MaxVersion /\ r.reason = "none"
    BY <1>4, <2>1, <2>3
  <2>. HIDE DEF row
  <2>. QED
    BY <2>4, <2>5, <2>6, ReplaceSubscription
<1>7. ASSUME Unsubscribe(s) PROVE SubscriptionsOK'
  <2>. DEFINE row == Retired(r, "user_requested")
  <2>1. r.active /\ subscription' = [subscription EXCEPT ![s] = row]
    BY <1>7 DEF Unsubscribe
  <2>2. row \in SubscriptionRow /\ ~row.active /\ row.reason = "user_requested"
    BY <1>1, <1>4, <2>1, RetiredType
  <2>. HIDE DEF row
  <2>. QED
    BY <2>1, <2>2, ReplaceSubscription
<1>8. ASSUME SubscriptionAges(s) PROVE SubscriptionsOK'
  <2>1. PICK row \in {[r EXCEPT !.expired = TRUE], [r EXCEPT !.session = FALSE]} :
          subscription' = [subscription EXCEPT ![s] = row]
    BY <1>8 DEF SubscriptionAges
  <2>2. row \in SubscriptionRow /\ row.active = r.active /\ row.reason = r.reason
        /\ row.version = r.version
    BY <1>1, <2>1 DEF SubscriptionRow
  <2>. QED
    BY <1>4, <2>1, <2>2, ReplaceSubscription
<1>9. SubscriptionsOK'
  BY <1>5, <1>6, <1>7, <1>8
<1>. QED
  BY <1>2, <1>3, <1>9, KeepRuns, BaseParts

LEMMA RecipientBase ==
  ASSUME BaseInv, ChangeEligibility \/ \E j \in Jobs : LoseInterest(j)
  PROVE  BaseInv'
<1>1. UNCHANGED <<deliveryVars, permits, subscription, run, providerVars>>
      /\ wanted' \in [Jobs -> BOOLEAN] /\ eligible' \in BOOLEAN
  BY DEF ChangeEligibility, LoseInterest, BaseInv, TypeOK
<1>2. LedgerOK' /\ TargetsStay /\ RestOK' /\ SubscriptionsOK'
  BY <1>1, QuietLedger DEF BaseInv, TypeOK, SubscriptionsOK, SubscriptionsCanRetire
<1>. QED
  BY <1>1, <1>2, KeepRuns, BaseParts

LEMMA BaseStutter ==
  ASSUME BaseInv, UNCHANGED vars
  PROVE  BaseInv'
  BY DEF vars, deliveryVars, providerVars, BaseInv, TypeOK, SubscriptionsCanRetire,
     TargetsHaveVersions, RunsHoldTargets, Held, PendingJobsAreEmpty

LEMMA BaseInit == Init => BaseInv
<1>. SUFFICES ASSUME Init PROVE BaseInv
  OBVIOUS
<1>1. job \in [Jobs -> {"pending", "materialized", "operator_blocked"} \cup JobEnd]
  BY DEF Init
<1>2. target \in [Targets -> TargetRow] /\ \A t \in Targets : target[t].status = "absent"
  BY BoundsArePositive DEF Init, TargetRow
<1>3. result \in [Targets -> [Leases -> {"none", "suppressed"} \cup Outcomes]]
  BY DEF Init
<1>4. subscription \in [Subscriptions -> SubscriptionRow]
      /\ \A s \in Subscriptions : subscription[s].version = 1 /\ subscription[s].reason = "none"
  BY DEF Init
<1>5. run \in [Runs -> RunState] /\ \A w \in Runs : run[w] = Idle
  BY IdleType DEF Init
<1>6. RunsHoldTargets
  BY <1>5, IdleType DEF RunsHoldTargets, Held, Idle
<1>7. SubscriptionsCanRetire
  BY <1>4, BoundsArePositive DEF SubscriptionsCanRetire
<1>8. TypeOK
  BY <1>1, <1>2, <1>3, <1>4, <1>5 DEF Init, TypeOK
<1>. QED
  BY <1>2, <1>6, <1>7, <1>8 DEF BaseInv, TargetsHaveVersions, PendingJobsAreEmpty

LEMMA BaseStep == BaseInv /\ [Next]_vars => BaseInv'
<1>. SUFFICES ASSUME BaseInv, [Next]_vars PROVE BaseInv'
  OBVIOUS
<1>1. ASSUME NEW w \in Runs, ClaimBatch(w) PROVE BaseInv'
  BY <1>1, ClaimBase
<1>2. ASSUME NEW w \in Runs, RunStep(w) PROVE BaseInv'
  BY <1>2, EnvelopeBase, PermitBase, SendBase, SettleBase, RunEndBase DEF RunStep
<1>3. ASSUME NEW t \in Targets, LeaseLapses(t) PROVE BaseInv'
  BY <1>3, LapseBase
<1>4. ASSUME NEW j \in Jobs, Resume(j) PROVE BaseInv'
  BY <1>4, ResumeBase
<1>5. ASSUME NEW s \in Subscriptions,
             Register(s) \/ Rotate(s) \/ Unsubscribe(s) \/ SubscriptionAges(s)
      PROVE  BaseInv'
  BY <1>5, SubscriptionBase
<1>6. CASE ChangeEligibility \/ \E j \in Jobs : LoseInterest(j)
  BY <1>6, RecipientBase
<1>7. CASE UNCHANGED vars
  BY <1>7, BaseStutter
<1>. QED
  BY <1>1, <1>2, <1>3, <1>4, <1>5, <1>6, <1>7 DEF Next

\* The base invariant holds in every reachable state.
THEOREM BaseHolds == Spec => []BaseInv
  BY BaseInit, BaseStep, PTL DEF Spec

(* Every reachable state of the ledger, the subscriptions and the runs has    *)
(* its type: a lease version never passes the eight leases of a target, a     *)
(* subscription version never passes the bound it is retired within.          *)
THEOREM TypeCorrect == Spec => []TypeOK
<1>1. BaseInv => TypeOK
  BY DEF BaseInv
<1>. QED
  BY <1>1, BaseHolds, PTL

-----------------------------------------------------------------------------
(* What a step may do to the ledger. *)

Concluding == {"accepted", "endpoint_gone", "payload_rejected", "suppressed"}

\* The outcome of the last lease explains why a target ended.
Explains(to, outcome, lease) ==
  /\ to = "delivered" => outcome = "accepted"
  /\ to = "suppressed" => outcome \in {"suppressed", "endpoint_gone"}
  /\ to = "operator_blocked" => outcome = "provider_configuration_error"
  /\ to = "dead_letter" => lease = MaxLease \/ outcome \in {"suppressed", "payload_rejected"}

\* A settlement under a live lease; only an accepted answer makes it "delivered".
Concludes(i, to, outcome) ==
  /\ Fence(i) /\ Finish(i, to, outcome)
  /\ outcome \in Concluding => to \in TargetEnd
  /\ Explains(to, outcome, i.lease)
  /\ to = "delivered" =>
       \E w \in Runs : run[w].at = "answered" /\ run[w].outcome = "accepted" /\ run[w].item = i

LEMMA RunStepFrame ==
  ASSUME BaseInv, NEW w \in Runs, RunStep(w)
  PROVE  \/ UNCHANGED deliveryVars
         \/ \E i \in Items, to \in {"operator_blocked"} \cup Open \cup TargetEnd,
               outcome \in {"suppressed"} \cup Outcomes : Concludes(i, to, outcome)
<1>1. ASSUME NEW i \in run[w].queue, Envelope(w, i), ~UNCHANGED deliveryVars
      PROVE  \E to \in TargetEnd, outcome \in {"suppressed"} \cup Outcomes :
               i \in Items /\ Concludes(i, to, outcome)
  <2>1. i \in Items /\ Fence(i)
    BY <1>1 DEF Envelope, BaseInv, TypeOK, RunState
  <2>2. \E to \in {"suppressed", "dead_letter"}, outcome \in {"suppressed", "payload_rejected"} :
          Finish(i, to, outcome) /\ (to = "suppressed" => outcome = "suppressed")
    BY <1>1 DEF Envelope
  <2>. QED
    BY <2>1, <2>2 DEF Concludes, Explains, TargetEnd, Outcomes
<1>2. ASSUME Permit(w), ~UNCHANGED deliveryVars
      PROVE  \E i \in Items, to \in TargetEnd, outcome \in {"suppressed"} \cup Outcomes :
               Concludes(i, to, outcome)
  <2>1. run[w].item \in Items /\ Fence(run[w].item)
    BY <1>2 DEF Permit, BaseInv, RunsHoldTargets
  <2>2. \E to \in {"suppressed", "dead_letter"}, outcome \in {"suppressed", "payload_rejected"} :
          Finish(run[w].item, to, outcome) /\ (to = "suppressed" => outcome = "suppressed")
    BY <1>2 DEF Permit
  <2>. QED
    BY <2>1, <2>2 DEF Concludes, Explains, TargetEnd, Outcomes
<1>3. ASSUME Settle(w)
      PROVE  \E i \in Items, to \in {"operator_blocked", "retry"} \cup TargetEnd,
               outcome \in {"suppressed"} \cup Outcomes : Concludes(i, to, outcome)
  <2>. DEFINE i == run[w].item
              outcome == run[w].outcome
  <2>1. /\ i \in Items /\ outcome \in Outcomes /\ run[w].at = "answered"
        /\ Fence(i) /\ Finish(i, Settled(i, outcome), outcome)
    BY <1>3 DEF Settle, BaseInv, RunsHoldTargets
  <2>2. outcome \in Concluding => Settled(i, outcome) \in TargetEnd
    BY <2>1 DEF Concluding, Settled, TargetEnd, Outcomes
  <2>3. Settled(i, outcome) = "delivered" => outcome = "accepted"
    BY <2>1 DEF Settled, Outcomes
  <2>4. Explains(Settled(i, outcome), outcome, i.lease)
    <3>1. i.lease >= MaxLease => i.lease = MaxLease
      BY <2>1, ItemType, BoundsArePositive DEF Leases
    <3>. QED
      BY <2>1, <3>1 DEF Explains, Settled, Outcomes
  <2>5. Concludes(i, Settled(i, outcome), outcome)
    BY <2>1, <2>2, <2>3, <2>4 DEF Concludes
  <2>. QED
    BY <2>1, <2>5, SettledType
<1>4. ASSUME (\E outcome \in Outcomes : Send(w, outcome)) \/ Defer(w) \/ RunDies(w)
      PROVE  UNCHANGED deliveryVars
  BY <1>4 DEF Send, Defer, RunDies
<1>. QED
  BY <1>1, <1>2, <1>3, <1>4 DEF RunStep, Open

LEMMA StepFrame ==
  ASSUME BaseInv, [Next]_vars
  PROVE  \/ UNCHANGED deliveryVars
         \/ \E w \in Runs : ClaimBatch(w)
         \/ \E i \in Items, to \in {"operator_blocked"} \cup Open \cup TargetEnd,
               outcome \in {"suppressed"} \cup Outcomes : Concludes(i, to, outcome)
         \/ \E t \in Targets : LeaseLapses(t)
         \/ \E j \in Jobs : Resume(j)
<1>1. ASSUME NEW s \in Subscriptions,
             Register(s) \/ Rotate(s) \/ Unsubscribe(s) \/ SubscriptionAges(s)
      PROVE  UNCHANGED deliveryVars
  BY <1>1 DEF Register, Rotate, Unsubscribe, SubscriptionAges
<1>2. ASSUME NEW j \in Jobs, LoseInterest(j) PROVE UNCHANGED deliveryVars
  BY <1>2 DEF LoseInterest
<1>3. ASSUME ChangeEligibility PROVE UNCHANGED deliveryVars
  BY <1>3 DEF ChangeEligibility
<1>4. ASSUME UNCHANGED vars PROVE UNCHANGED deliveryVars
  BY <1>4 DEF vars
<1>. QED
  BY <1>1, <1>2, <1>3, <1>4, RunStepFrame DEF Next

LEMMA ClaimStepFrame ==
  ASSUME BaseInv, NEW w \in Runs, ClaimBatch(w)
  PROVE  result' = result /\ \A t \in Targets : ClaimedFrom(t)
<1>1. PICK opening \in SUBSET {j \in Jobs : job[j] = "pending"}, due \in SUBSET Targets :
        \E broken \in SUBSET opening : Claim(w, opening, broken, due)
  BY DEF ClaimBatch
<1>2. PICK broken \in SUBSET opening : Claim(w, opening, broken, due)
  BY <1>1
<1>3. \A t \in Targets : ClaimedFrom(t)
  BY <1>2, ClaimFrame DEF BaseInv
<1>. QED
  BY <1>2, <1>3 DEF Claim

LEMMA LapseFrame ==
  ASSUME BaseInv, NEW t \in Targets, LeaseLapses(t)
  PROVE  /\ result' = result /\ job' = job /\ target[t].status = "claimed"
         /\ \A u \in Targets : /\ target'[u].status = target[u].status
                               /\ target'[u].lease = target[u].lease
                               /\ u # t => target'[u] = target[u]
<1>1. target[t] \in TargetRow /\ target \in [Targets -> TargetRow]
      /\ target' = [target EXCEPT ![t].lapsed = TRUE]
  BY DEF BaseInv, TypeOK, LeaseLapses
<1>2. target'[t] = [target[t] EXCEPT !.lapsed = TRUE]
  BY <1>1
<1>. QED
  BY <1>1, <1>2 DEF LeaseLapses, TargetRow

LEMMA ResumeFrame ==
  ASSUME BaseInv, NEW j \in Jobs, Resume(j)
  PROVE  /\ result' = result /\ job[j] = "operator_blocked"
         /\ \A t \in Targets :
              \/ target'[t] = target[t]
              \/ /\ JobOf(t) = j /\ target[t].status \in Open \cup {"operator_blocked"}
                 /\ target'[t].status \in {"retry", "dead_letter"}
                 /\ target'[t].lease = target[t].lease
                 /\ target'[t].status = "dead_letter" => target'[t].lease = MaxLease
<1>1. \A t \in Targets : target[t] \in TargetRow
  BY DEF BaseInv, TypeOK
<1>2. \A t \in Targets : target'[t] = IF JobOf(t) = j THEN Resumed(target[t]) ELSE target[t]
  BY DEF Resume
<1>. QED
  BY <1>1, <1>2, ResumedType DEF Resume

-----------------------------------------------------------------------------
(* Outcomes in their order. *)

LEMMA LastLeaseStep ==
  BaseInv /\ LastLeaseConcludes /\ [Next]_vars => LastLeaseConcludes'
<1>. SUFFICES ASSUME BaseInv, LastLeaseConcludes, [Next]_vars,
                     NEW t \in Targets, NEW l \in Leases, result'[t][l] \in Concluding
              PROVE  target'[t].lease = l /\ target'[t].status \in TargetEnd
  BY DEF LastLeaseConcludes, Concluding
<1>. DEFINE Ended == target[t].lease = l /\ target[t].status \in TargetEnd
<1>1. result[t][l] \in Concluding => Ended
  BY DEF LastLeaseConcludes, Concluding
<1>2. CASE UNCHANGED deliveryVars
  BY <1>1, <1>2 DEF deliveryVars
<1>3. ASSUME NEW w \in Runs, ClaimBatch(w)
      PROVE  target'[t].lease = l /\ target'[t].status \in TargetEnd
  <2>1. Ended /\ ClaimedFrom(t)
    BY <1>1, <1>3, ClaimStepFrame
  <2>2. JobOf(t) \in Jobs /\ (job[JobOf(t)] = "pending" => target[t].status = "absent")
    BY TargetType DEF BaseInv, PendingJobsAreEmpty
  <2>. QED
    BY <2>1, <2>2 DEF ClaimedFrom, Open, TargetEnd
<1>4. ASSUME NEW i \in Items, NEW to \in {"operator_blocked"} \cup Open \cup TargetEnd,
             NEW outcome \in {"suppressed"} \cup Outcomes, Concludes(i, to, outcome)
      PROVE  target'[t].lease = l /\ target'[t].status \in TargetEnd
  <2>1. /\ i.target \in Targets /\ i.lease \in Leases
        /\ target[i.target].status = "claimed" /\ target[i.target].lease = i.lease
        /\ target'[i.target].status = to /\ target'[i.target].lease = target[i.target].lease
        /\ \A u \in Targets : u # i.target => target'[u] = target[u]
        /\ outcome \in Concluding => to \in TargetEnd
    BY <1>4, ItemType, FinishType DEF Concludes, Fence, BaseInv
  <2>2. result' = [result EXCEPT ![i.target][i.lease] = outcome]
        /\ result \in [Targets -> [Leases -> {"none", "suppressed"} \cup Outcomes]]
    BY <1>4 DEF Concludes, Finish, BaseInv, TypeOK
  <2>3. CASE t # i.target
    BY <1>1, <2>1, <2>2, <2>3
  <2>4. CASE t = i.target
    <3>1. ~Ended
      BY <2>1, <2>4 DEF TargetEnd
    <3>2. l = i.lease /\ outcome \in Concluding
      BY <1>1, <2>1, <2>2, <2>4, <3>1
    <3>. QED
      BY <2>1, <2>4, <3>2
  <2>. QED
    BY <2>3, <2>4
<1>5. ASSUME NEW u \in Targets, LeaseLapses(u)
      PROVE  target'[t].lease = l /\ target'[t].status \in TargetEnd
  BY <1>1, <1>5, LapseFrame
<1>6. ASSUME NEW j \in Jobs, Resume(j)
      PROVE  target'[t].lease = l /\ target'[t].status \in TargetEnd
  <2>1. Ended
    BY <1>1, <1>6, ResumeFrame
  <2>. QED
    BY <1>6, <2>1, ResumeFrame DEF Open, TargetEnd
<1>. QED
  BY <1>2, <1>3, <1>4, <1>5, <1>6, StepFrame

(* Outcomes are not applied out of order, for any number of runs, targets     *)
(* and leases: what concludes a target belongs to its last lease.             *)
THEOREM OutcomesInOrder == Spec => []LastLeaseConcludes
<1>1. Init => LastLeaseConcludes
  BY DEF Init, LastLeaseConcludes
<1>. QED
  BY <1>1, LastLeaseStep, BaseHolds, PTL DEF Spec

\* The steps that end a target record why, or have spent its leases.
LEMMA EndsStep ==
  BaseInv /\ EndsAreExplained /\ [Next]_vars => EndsAreExplained'
<1>. DEFINE Recorded(t) ==
       \/ target[t].status = "dead_letter" /\ target[t].lease = MaxLease
       \/ \E l \in Leases : l = target[t].lease /\ Explains(target[t].status, result[t][l], l)
     Ends == TargetEnd \cup {"operator_blocked"}
     Explained(t) == target[t].status \in Ends => Recorded(t)
<1>1. EndsAreExplained => \A t \in Targets : Explained(t)
  BY DEF EndsAreExplained, Explains, TargetEnd
<1>2. (\A t \in Targets : Explained(t)') => EndsAreExplained'
  BY DEF EndsAreExplained, Explains, TargetEnd
<1>. SUFFICES ASSUME BaseInv, EndsAreExplained, [Next]_vars, NEW t \in Targets
              PROVE  Explained(t)'
  BY <1>2
<1>3. Explained(t)
  BY <1>1
<1>4. CASE UNCHANGED deliveryVars
  BY <1>3, <1>4 DEF deliveryVars
<1>5. ASSUME NEW w \in Runs, ClaimBatch(w) PROVE Explained(t)'
  BY <1>3, <1>5, ClaimStepFrame DEF ClaimedFrom, TargetEnd
<1>6. ASSUME NEW i \in Items, NEW to \in {"operator_blocked"} \cup Open \cup TargetEnd,
             NEW outcome \in {"suppressed"} \cup Outcomes, Concludes(i, to, outcome)
      PROVE  Explained(t)'
  <2>1. /\ i.target \in Targets /\ i.lease \in Leases /\ target[i.target].lease = i.lease
        /\ target'[i.target].status = to /\ target'[i.target].lease = i.lease
        /\ \A u \in Targets : u # i.target => target'[u] = target[u]
        /\ Explains(to, outcome, i.lease)
    BY <1>6, ItemType, FinishType DEF Concludes, Fence, BaseInv
  <2>2. result' = [result EXCEPT ![i.target][i.lease] = outcome]
        /\ result \in [Targets -> [Leases -> {"none", "suppressed"} \cup Outcomes]]
    BY <1>6 DEF Concludes, Finish, BaseInv, TypeOK
  <2>3. CASE t # i.target
    BY <1>3, <2>1, <2>2, <2>3
  <2>4. CASE t = i.target
    <3>1. result'[t][i.lease] = outcome
      BY <2>1, <2>2, <2>4
    <3>. QED
      BY <2>1, <2>4, <3>1
  <2>. QED
    BY <2>3, <2>4
<1>7. ASSUME NEW u \in Targets, LeaseLapses(u) PROVE Explained(t)'
  BY <1>3, <1>7, LapseFrame
<1>8. ASSUME NEW j \in Jobs, Resume(j) PROVE Explained(t)'
  BY <1>3, <1>8, ResumeFrame DEF TargetEnd
<1>. QED
  BY <1>4, <1>5, <1>6, <1>7, <1>8, StepFrame

(* Why a target ended, or waits for its operator, is on record under its last *)
(* lease, and none is given up without a verdict before its leases are spent, *)
(* for any number of leases.                                                  *)
THEOREM EndsAreOnRecord == Spec => []EndsAreExplained
<1>1. Init => EndsAreExplained
  BY DEF Init, EndsAreExplained
<1>. QED
  BY <1>1, EndsStep, BaseHolds, PTL DEF Spec

-----------------------------------------------------------------------------
(* What the ledger says of the provider. *)

\* What a run was told is what the provider did.
AnswersAreTrue ==
  \A w \in Runs : run[w].at = "answered" =>
    /\ run[w].outcome = "accepted" => run[w].item \in accepted
    /\ run[w].outcome = "endpoint_gone" =>
         LET t == run[w].item.target
         IN <<SubscriptionOf(t), target[t].version>> \in gone

ProviderInv == AnswersAreTrue /\ DeliveredWasAccepted /\ RetiredEndpointIsGone

LEMMA TargetsStayStep ==
  ASSUME BaseInv, [Next]_vars
  PROVE  TargetsStay
<1>1. CASE UNCHANGED deliveryVars
  BY <1>1 DEF deliveryVars, TargetsStay
<1>2. ASSUME NEW w \in Runs, ClaimBatch(w) PROVE TargetsStay
  BY <1>2, ClaimStepFrame, ClaimedTargets DEF TargetsStay
<1>3. ASSUME NEW i \in Items, NEW to \in {"operator_blocked"} \cup Open \cup TargetEnd,
             NEW outcome \in {"suppressed"} \cup Outcomes, Concludes(i, to, outcome)
      PROVE  TargetsStay
  BY <1>3, FinishLedger DEF Concludes, Fence
<1>4. ASSUME NEW t \in Targets, LeaseLapses(t) PROVE TargetsStay
  <2>1. target' = [target EXCEPT ![t].lapsed = TRUE] /\ target \in [Targets -> TargetRow]
    BY <1>4 DEF LeaseLapses, BaseInv, TypeOK
  <2>. QED
    BY <2>1 DEF TargetsStay, TargetRow
<1>5. ASSUME NEW j \in Jobs, Resume(j) PROVE TargetsStay
  <2>1. \A t \in Targets : target[t] \in TargetRow
    BY DEF BaseInv, TypeOK
  <2>2. \A t \in Targets : target'[t] = IF JobOf(t) = j THEN Resumed(target[t]) ELSE target[t]
    BY <1>5 DEF Resume
  <2>. QED
    BY <2>1, <2>2, ResumedType DEF TargetsStay
<1>. QED
  BY <1>1, <1>2, <1>3, <1>4, <1>5, StepFrame

\* What the provider has taken over or disowned stays so.
LEMMA ProviderGrows ==
  ASSUME [Next]_vars
  PROVE  accepted \subseteq accepted' /\ gone \subseteq gone'
<1>1. ASSUME NEW w \in Runs, NEW outcome \in Outcomes, Send(w, outcome)
      PROVE  accepted \subseteq accepted' /\ gone \subseteq gone'
  BY <1>1 DEF Send, providerVars, Outcomes
<1>2. ASSUME NEW w \in Runs, NEW i, Envelope(w, i) PROVE UNCHANGED providerVars
  BY <1>2 DEF Envelope
<1>3. ASSUME NEW w \in Runs, Permit(w) \/ Settle(w) \/ Defer(w) \/ RunDies(w) \/ ClaimBatch(w)
      PROVE  UNCHANGED providerVars
  BY <1>3 DEF Permit, Settle, Defer, RunDies, ClaimBatch, Claim
<1>4. ASSUME NEW t \in Targets, LeaseLapses(t) PROVE UNCHANGED providerVars
  BY <1>4 DEF LeaseLapses
<1>5. ASSUME NEW j \in Jobs, Resume(j) \/ LoseInterest(j) PROVE UNCHANGED providerVars
  BY <1>5 DEF Resume, LoseInterest
<1>6. ASSUME NEW s \in Subscriptions,
             Register(s) \/ Rotate(s) \/ Unsubscribe(s) \/ SubscriptionAges(s)
      PROVE  UNCHANGED providerVars
  BY <1>6 DEF Register, Rotate, Unsubscribe, SubscriptionAges
<1>7. ASSUME ChangeEligibility \/ UNCHANGED vars PROVE UNCHANGED providerVars
  BY <1>7 DEF ChangeEligibility, vars
<1>. QED
  BY <1>1, <1>2, <1>3, <1>4, <1>5, <1>6, <1>7 DEF Next, RunStep, providerVars

\* A run is told something only when it sends.
LEMMA AnswerFrame ==
  ASSUME BaseInv, [Next]_vars, NEW w \in Runs, run'[w].at = "answered"
  PROVE  run'[w] = run[w] \/ \E outcome \in Outcomes : Send(w, outcome)
<1>1. run \in [Runs -> RunState]
  BY DEF BaseInv, TypeOK
<1>2. ASSUME NEW v \in Runs, RunStep(v) \/ ClaimBatch(v)
      PROVE  \E next : MoveTo(v, next)
  BY <1>2 DEF RunStep, Envelope, Permit, Send, Settle, Defer, RunDies, ClaimBatch, Claim
<1>3. ASSUME NEW v \in Runs, RunStep(v) \/ ClaimBatch(v), v # w
      PROVE  run'[w] = run[w]
  BY <1>1, <1>2, <1>3 DEF MoveTo
<1>4. ASSUME NEW next, MoveTo(w, next) PROVE run'[w] = next
  BY <1>1, <1>4 DEF MoveTo
<1>5. ASSUME ClaimBatch(w) \/ Settle(w) \/ Defer(w) \/ RunDies(w) PROVE run'[w].at = "next"
  <2>1. Rest(w).at = "next" /\ Idle.at = "next"
        /\ \A i : [Idle EXCEPT !.queue = run[w].queue \ {i}].at = "next"
    BY RestType DEF Idle
  <2>2. CASE ClaimBatch(w)
    BY <2>2, ClaimFrame DEF ClaimBatch, BaseInv
  <2>3. CASE Settle(w)
    BY <1>4, <2>1, <2>3 DEF Settle
  <2>4. CASE Defer(w) \/ RunDies(w)
    BY <1>4, <2>1, <2>4 DEF Defer, RunDies
  <2>. QED
    BY <1>5, <2>2, <2>3, <2>4
<1>6. ASSUME NEW i, Envelope(w, i) PROVE run'[w].at \in {"next", "enveloped"}
  BY <1>4, <1>6 DEF Envelope, Idle
<1>7. ASSUME Permit(w) PROVE run'[w].at \in {"next", "permitted"}
  BY <1>1, <1>4, <1>7 DEF Permit, Idle, Rest, RunState
<1>8. ASSUME RunStep(w) \/ ClaimBatch(w) PROVE \E outcome \in Outcomes : Send(w, outcome)
  BY <1>5, <1>6, <1>7, <1>8 DEF RunStep
<1>9. ASSUME ~\E v \in Runs : RunStep(v) \/ ClaimBatch(v) PROVE run'[w] = run[w]
  BY <1>9 DEF Next, LeaseLapses, Resume, LoseInterest, Register, Rotate, Unsubscribe,
     SubscriptionAges, ChangeEligibility, vars
<1>. QED
  BY <1>3, <1>8, <1>9

LEMMA AnswersStep == BaseInv /\ AnswersAreTrue /\ [Next]_vars => AnswersAreTrue'
<1>. SUFFICES ASSUME BaseInv, AnswersAreTrue, [Next]_vars,
                     NEW w \in Runs, run'[w].at = "answered"
              PROVE  /\ run'[w].outcome = "accepted" => run'[w].item \in accepted'
                     /\ run'[w].outcome = "endpoint_gone" =>
                          <<SubscriptionOf(run'[w].item.target), target'[run'[w].item.target].version>>
                            \in gone'
  BY DEF AnswersAreTrue
<1>1. CASE run'[w] = run[w]
  <2>1. run[w].item \in Held(w) /\ run[w].item.target \in Targets
    BY <1>1, ItemType DEF BaseInv, RunsHoldTargets, Held
  <2>2. target'[run[w].item.target].version = target[run[w].item.target].version
    BY <2>1, TargetsStayStep DEF TargetsStay, BaseInv, RunsHoldTargets
  <2>. QED
    BY <1>1, <2>2, ProviderGrows DEF AnswersAreTrue
<1>2. ASSUME NEW outcome \in Outcomes, Send(w, outcome)
      PROVE  /\ run'[w].outcome = "accepted" => run'[w].item \in accepted'
             /\ run'[w].outcome = "endpoint_gone" =>
                  <<SubscriptionOf(run'[w].item.target), target'[run'[w].item.target].version>>
                    \in gone'
  <2>1. run'[w].item = run[w].item /\ run'[w].outcome = outcome /\ target' = target
    BY <1>2 DEF Send, MoveTo, BaseInv, TypeOK, RunState, deliveryVars
  <2>2. CASE outcome = "accepted"
    BY <1>2, <2>1, <2>2 DEF Send
  <2>3. CASE outcome = "endpoint_gone"
    BY <1>2, <2>1, <2>3 DEF Send
  <2>. QED
    BY <2>1, <2>2, <2>3
<1>. QED
  BY <1>1, <1>2, AnswerFrame

LEMMA DeliveredStep ==
  BaseInv /\ AnswersAreTrue /\ DeliveredWasAccepted /\ [Next]_vars => DeliveredWasAccepted'
<1>. SUFFICES ASSUME BaseInv, AnswersAreTrue, DeliveredWasAccepted, [Next]_vars,
                     NEW t \in Targets, target'[t].status = "delivered"
              PROVE  [target |-> t, lease |-> target'[t].lease] \in accepted'
  BY DEF DeliveredWasAccepted
<1>1. ASSUME target[t].status = "delivered", target'[t].lease = target[t].lease
      PROVE  [target |-> t, lease |-> target'[t].lease] \in accepted'
  BY <1>1, ProviderGrows DEF DeliveredWasAccepted
<1>2. CASE UNCHANGED deliveryVars
  BY <1>1, <1>2 DEF deliveryVars
<1>3. ASSUME NEW w \in Runs, ClaimBatch(w)
      PROVE  [target |-> t, lease |-> target'[t].lease] \in accepted'
  <2>1. ClaimedFrom(t)
    BY <1>3, ClaimStepFrame
  <2>2. target'[t] = target[t]
    BY <2>1 DEF ClaimedFrom
  <2>. QED
    BY <1>1, <2>2
<1>4. ASSUME NEW i \in Items, NEW to \in {"operator_blocked"} \cup Open \cup TargetEnd,
             NEW outcome \in {"suppressed"} \cup Outcomes, Concludes(i, to, outcome)
      PROVE  [target |-> t, lease |-> target'[t].lease] \in accepted'
  <2>1. /\ target'[i.target].status = to /\ target'[i.target].lease = i.lease
        /\ \A u \in Targets : u # i.target => target'[u] = target[u]
    BY <1>4, ItemType, FinishType DEF Concludes, Fence, BaseInv
  <2>2. CASE t # i.target
    BY <1>1, <2>1, <2>2
  <2>3. CASE t = i.target
    <3>1. i \in accepted
      BY <1>4, <2>1, <2>3 DEF Concludes, AnswersAreTrue
    <3>2. i = [target |-> t, lease |-> target'[t].lease]
      BY <2>1, <2>3 DEF Items
    <3>. QED
      BY <3>1, <3>2, ProviderGrows
  <2>. QED
    BY <2>2, <2>3
<1>5. ASSUME NEW u \in Targets, LeaseLapses(u)
      PROVE  [target |-> t, lease |-> target'[t].lease] \in accepted'
  BY <1>1, <1>5, LapseFrame
<1>6. ASSUME NEW j \in Jobs, Resume(j)
      PROVE  [target |-> t, lease |-> target'[t].lease] \in accepted'
  <2>1. target'[t] = target[t]
    BY <1>6, ResumeFrame
  <2>. QED
    BY <1>1, <2>1
<1>. QED
  BY <1>2, <1>3, <1>4, <1>5, <1>6, StepFrame

\* A subscription retired for a reason stays as it is; only a settlement whose
\* run was told so retires one as gone.
LEMMA RetiredFrame ==
  ASSUME BaseInv, [Next]_vars, NEW s \in Subscriptions,
         subscription'[s].reason = "endpoint_gone"
  PROVE  \/ subscription'[s] = subscription[s]
         \/ \E w \in Runs :
              /\ run[w].at = "answered" /\ run[w].outcome = "endpoint_gone"
              /\ run[w].item \in Items
              /\ SubscriptionOf(run[w].item.target) = s
              /\ subscription'[s].version = target[run[w].item.target].version + 1
<1>1. subscription \in [Subscriptions -> SubscriptionRow]
      /\ (subscription[s].active => subscription[s].reason = "none")
  BY DEF BaseInv, TypeOK, SubscriptionsCanRetire
<1>2. ASSUME NEW t \in Targets, NEW reason \in {"expired", "session_revoked"}, Retire(t, reason)
      PROVE  subscription'[s] = subscription[s]
  <2>1. CASE Current(t)
    <3>1. subscription' = [subscription EXCEPT ![SubscriptionOf(t)] =
            Retired(subscription[SubscriptionOf(t)], reason)]
      BY <1>2, <2>1 DEF Retire
    <3>2. subscription[SubscriptionOf(t)].version < MaxVersion
          /\ SubscriptionOf(t) \in Subscriptions
      BY <2>1, TargetType DEF Current, BaseInv, SubscriptionsCanRetire
    <3>3. Retired(subscription[SubscriptionOf(t)], reason).reason = reason
      BY <1>1, <3>2, RetiredType
    <3>. QED
      BY <1>1, <3>1, <3>2, <3>3
  <2>2. CASE ~Current(t)
    BY <1>2, <2>2 DEF Retire
  <2>. QED
    BY <2>1, <2>2
<1>3. ASSUME NEW w \in Runs, NEW i \in run[w].queue, Envelope(w, i)
      PROVE  subscription'[s] = subscription[s]
  <2>1. i.target \in Targets
    BY ItemType DEF BaseInv, TypeOK, RunState
  <2>. QED
    BY <1>2, <1>3, <2>1 DEF Envelope
<1>4. ASSUME NEW w \in Runs, Permit(w)
      PROVE  subscription'[s] = subscription[s]
  <2>1. run[w].item.target \in Targets
    BY <1>4, ItemType DEF Permit, BaseInv, RunsHoldTargets
  <2>2. RetireReason(run[w].item) \in {"none", "expired", "session_revoked"}
    BY DEF RetireReason
  <2>. QED
    BY <1>2, <1>4, <2>1, <2>2 DEF Permit
<1>5. ASSUME NEW w \in Runs, Settle(w), subscription'[s] # subscription[s]
      PROVE  /\ run[w].at = "answered" /\ run[w].outcome = "endpoint_gone"
             /\ run[w].item \in Items
             /\ SubscriptionOf(run[w].item.target) = s
             /\ subscription'[s].version = target[run[w].item.target].version + 1
  <2>. DEFINE t == run[w].item.target
              u == SubscriptionOf(t)
  <2>1. run[w].at = "answered" /\ run[w].outcome = "endpoint_gone" /\ run[w].item \in Items
        /\ Retire(t, "endpoint_gone") /\ t \in Targets /\ u \in Subscriptions
    BY <1>5, ItemType DEF Settle, BaseInv, RunsHoldTargets
  <2>2. Current(t)
    BY <1>5, <2>1 DEF Retire
  <2>3. /\ subscription[u].version = target[t].version
        /\ subscription[u].version < MaxVersion
    BY <2>1, <2>2 DEF Current, BaseInv, SubscriptionsCanRetire
  <2>4. Retired(subscription[u], "endpoint_gone").version = subscription[u].version + 1
    BY <1>1, <2>1, <2>3, RetiredType
  <2>5. subscription' = [subscription EXCEPT ![u] = Retired(subscription[u], "endpoint_gone")]
    BY <2>1, <2>2 DEF Retire
  <2>. QED
    BY <1>1, <1>5, <2>1, <2>3, <2>4, <2>5
<1>6. ASSUME Register(s) \/ Rotate(s) \/ Unsubscribe(s) \/ SubscriptionAges(s)
      PROVE  FALSE
  <2>1. CASE Register(s)
    BY <1>1, <2>1 DEF Register, SubscriptionRow
  <2>2. CASE Rotate(s)
    BY <1>1, <2>2 DEF Rotate, SubscriptionRow
  <2>3. CASE Unsubscribe(s)
    <3>1. subscription[s].version < MaxVersion /\ subscription[s] \in SubscriptionRow
      BY <1>1, <2>3 DEF Unsubscribe, BaseInv, SubscriptionsCanRetire
    <3>2. Retired(subscription[s], "user_requested").reason = "user_requested"
      BY <3>1, RetiredType
    <3>. QED
      BY <1>1, <2>3, <3>2 DEF Unsubscribe
  <2>4. CASE SubscriptionAges(s)
    BY <1>1, <2>4 DEF SubscriptionAges, SubscriptionRow
  <2>. QED
    BY <1>6, <2>1, <2>2, <2>3, <2>4
<1>7. ASSUME NEW u \in Subscriptions, u # s,
             Register(u) \/ Rotate(u) \/ Unsubscribe(u) \/ SubscriptionAges(u)
      PROVE  subscription'[s] = subscription[s]
  BY <1>1, <1>7 DEF Register, Rotate, Unsubscribe, SubscriptionAges
<1>8. ASSUME NEW w \in Runs,
             \/ \E outcome \in Outcomes : Send(w, outcome)
             \/ Defer(w) \/ RunDies(w) \/ ClaimBatch(w)
      PROVE  subscription' = subscription
  BY <1>8 DEF Send, Defer, RunDies, ClaimBatch, Claim
<1>9. ASSUME \/ \E t \in Targets : LeaseLapses(t)
             \/ \E j \in Jobs : Resume(j) \/ LoseInterest(j)
             \/ ChangeEligibility \/ UNCHANGED vars
      PROVE  subscription' = subscription
  BY <1>9 DEF LeaseLapses, Resume, LoseInterest, ChangeEligibility, vars
<1>. QED
  BY <1>3, <1>4, <1>5, <1>6, <1>7, <1>8, <1>9 DEF Next, RunStep

LEMMA RetiredStep ==
  BaseInv /\ AnswersAreTrue /\ RetiredEndpointIsGone /\ [Next]_vars => RetiredEndpointIsGone'
<1>. SUFFICES ASSUME BaseInv, AnswersAreTrue, RetiredEndpointIsGone, [Next]_vars,
                     NEW s \in Subscriptions, subscription'[s].reason = "endpoint_gone"
              PROVE  <<s, subscription'[s].version - 1>> \in gone'
  BY DEF RetiredEndpointIsGone
<1>1. CASE subscription'[s] = subscription[s]
  BY <1>1, ProviderGrows DEF RetiredEndpointIsGone
<1>2. ASSUME NEW w \in Runs,
             run[w].at = "answered", run[w].outcome = "endpoint_gone",
             run[w].item \in Items,
             SubscriptionOf(run[w].item.target) = s,
             subscription'[s].version = target[run[w].item.target].version + 1
      PROVE  <<s, subscription'[s].version - 1>> \in gone'
  <2>. DEFINE v == target[run[w].item.target].version
  <2>1. <<s, v>> \in gone
    BY <1>2 DEF AnswersAreTrue
  <2>2. v \in Nat
    BY <1>2, ItemType DEF BaseInv, TypeOK, TargetRow
  <2>3. subscription'[s].version - 1 = v
    BY <1>2, <2>2
  <2>. QED
    BY <2>1, <2>3, ProviderGrows
<1>. QED
  BY <1>1, <1>2, RetiredFrame

LEMMA ProviderHolds == Spec => []ProviderInv
<1>1. Init => ProviderInv
  BY IdleType DEF Init, Idle, ProviderInv, AnswersAreTrue, DeliveredWasAccepted,
     RetiredEndpointIsGone
<1>2. BaseInv /\ ProviderInv /\ [Next]_vars => ProviderInv'
  BY AnswersStep, DeliveredStep, RetiredStep DEF ProviderInv
<1>. QED
  BY <1>1, <1>2, BaseHolds, PTL DEF Spec

(* Whatever runs die or are overtaken, a target reads "delivered" only for a  *)
(* message the provider took over under the lease the target still carries.   *)
THEOREM DeliveryIsTrue == Spec => []DeliveredWasAccepted
<1>1. ProviderInv => DeliveredWasAccepted
  BY DEF ProviderInv
<1>. QED
  BY <1>1, ProviderHolds, PTL

(* A subscription is retired as gone only at the version whose endpoint the   *)
(* provider disowned, however late the answer is settled.                     *)
THEOREM RetirementIsTrue == Spec => []RetiredEndpointIsGone
<1>1. ProviderInv => RetiredEndpointIsGone
  BY DEF ProviderInv
<1>. QED
  BY <1>1, ProviderHolds, PTL

-----------------------------------------------------------------------------
(* Jobs and their targets. *)

\* Open targets look alike to the summary of a job.
LEMMA SummaryAlike ==
  ASSUME NEW before, NEW after, NEW j,
         \A t \in TargetsOf(j) : \/ after[t].status = before[t].status
                                 \/ after[t].status \in Open /\ before[t].status \in Open
  PROVE  Summary(after, j) = Summary(before, j)
<1>1. (\E t \in TargetsOf(j) : after[t].status \in {"operator_blocked"})
        <=> \E t \in TargetsOf(j) : before[t].status \in {"operator_blocked"}
  BY DEF Open
<1>2. (\E t \in TargetsOf(j) : after[t].status \in Open)
        <=> \E t \in TargetsOf(j) : before[t].status \in Open
  OBVIOUS
<1>3. (\E t \in TargetsOf(j) : after[t].status \in {"dead_letter"})
        <=> \E t \in TargetsOf(j) : before[t].status \in {"dead_letter"}
  BY DEF Open
<1>4. (\E t \in TargetsOf(j) : after[t].status \in Open \cup {"operator_blocked"})
        <=> \E t \in TargetsOf(j) : before[t].status \in Open \cup {"operator_blocked"}
  OBVIOUS
<1>. QED
  BY <1>1, <1>2, <1>3, <1>4 DEF Summary

LEMMA SummaryOfOpen ==
  ASSUME NEW tgt, NEW j, NEW t \in TargetsOf(j), tgt[t].status \in Open
  PROVE  Summary(tgt, j) \in {"operator_blocked", "materialized"}
<1>1. tgt[t].status \in Open \cup {"operator_blocked"}
  OBVIOUS
<1>. QED
  BY <1>1 DEF Summary

LEMMA SummaryOfFresh ==
  ASSUME NEW tgt, NEW j,
         \A t \in TargetsOf(j) : tgt[t].status \in {"absent"} \cup Open,
         \E t \in TargetsOf(j) : tgt[t].status # "absent"
  PROVE  Summary(tgt, j) = "materialized"
<1>1. ~\E t \in TargetsOf(j) : tgt[t].status \in {"operator_blocked"}
  BY DEF Open
<1>2. \E t \in TargetsOf(j) : tgt[t].status \in Open
  OBVIOUS
<1>. QED
  BY <1>1, <1>2, SummaryOfOpen DEF Summary

LEMMA ClaimSummary ==
  ASSUME BaseInv, JobSummarisesTargets, NEW w \in Runs, ClaimBatch(w), NEW j \in Jobs
  PROVE  /\ (\E t \in TargetsOf(j) : target'[t].status # "absent") => job'[j] = Summary(target', j)
         /\ job[j] \in JobEnd => job'[j] = job[j]
<1>1. PICK opening \in SUBSET {k \in Jobs : job[k] = "pending"}, due \in SUBSET Targets :
        \E broken \in SUBSET opening : Claim(w, opening, broken, due)
  BY DEF ClaimBatch
<1>2. PICK broken \in SUBSET opening : Claim(w, opening, broken, due)
  BY <1>1
<1>. DEFINE jobs == [k \in Jobs |-> IF k \in opening THEN Opened(k, broken) ELSE job[k]]
            tgt == [t \in Targets |->
                      IF JobOf(t) \in opening /\ jobs[JobOf(t)] = "materialized"
                      THEN Snapshot(JobOf(t))[t] ELSE target[t]]
            taken == {t \in due : Leased(tgt[t]).status = "claimed"}
            spent == {JobOf(t) : t \in due \ taken}
<1>3. /\ \A t \in due : Claimable(jobs, tgt, t)
      /\ target' = [t \in Targets |-> IF t \in due THEN Leased(tgt[t]) ELSE tgt[t]]
      /\ job' = Refreshed(jobs, target', spent)
  BY <1>2 DEF Claim
<1>4. \A k \in Jobs : job'[k] = IF k \in spent THEN Summary(target', k) ELSE jobs[k]
  BY <1>3 DEF Refreshed
<1>5. \A t \in due : tgt[t].status \in Open /\ jobs[JobOf(t)] = "materialized"
  BY <1>3 DEF Claimable, Open
<1>6. \A t \in Targets : tgt[t] \in TargetRow
  BY SnapshotType DEF BaseInv, TypeOK
<1>7. \A t \in TargetsOf(j) : /\ t \in Targets /\ JobOf(t) = j
                              /\ target'[t] = IF t \in due THEN Leased(tgt[t]) ELSE tgt[t]
  BY <1>3, TargetsOfJob
<1>8. CASE j \in spent
  <2>1. job[j] \notin JobEnd
    BY <1>5, <1>8 DEF JobEnd
  <2>. QED
    BY <1>4, <1>8, <2>1
<1>9. CASE j \notin spent
  <2>1. job'[j] = jobs[j]
    BY <1>4, <1>9
  <2>2. \A t \in TargetsOf(j) : t \in due => target'[t].status = "claimed"
    BY <1>7, <1>9
  <2>3. \A t \in TargetsOf(j) : \/ target'[t].status = tgt[t].status
                                \/ target'[t].status \in Open /\ tgt[t].status \in Open
    BY <1>5, <1>7, <2>2 DEF Open
  <2>4. CASE j \notin opening
    <3>1. jobs[j] = job[j] /\ \A t \in TargetsOf(j) : tgt[t] = target[t]
      BY <1>7, <2>4
    <3>. HIDE DEF tgt
    <3>2. \A t \in TargetsOf(j) : \/ target'[t].status = target[t].status
                                  \/ target'[t].status \in Open /\ target[t].status \in Open
      BY <2>3, <3>1
    <3>3. Summary(target', j) = Summary(target, j)
      BY <3>2, SummaryAlike
    <3>4. (\E t \in TargetsOf(j) : target'[t].status # "absent") =>
             \E t \in TargetsOf(j) : target[t].status # "absent"
      BY <3>2 DEF Open
    <3>. QED
      BY <2>1, <3>1, <3>3, <3>4 DEF JobSummarisesTargets
  <2>5. CASE j \in opening
    <3>1. job[j] = "pending" /\ \A t \in TargetsOf(j) : target[t].status = "absent"
      BY <1>7, <2>5 DEF BaseInv, PendingJobsAreEmpty
    <3>2. CASE jobs[j] = "materialized"
      <4>1. \A t \in TargetsOf(j) : tgt[t].status \in {"absent", "pending"}
        BY <1>7, <2>5, <3>1, <3>2, SnapshotType DEF BaseInv
      <4>2. \A t \in TargetsOf(j) : target'[t].status \in {"absent"} \cup Open
        BY <2>3, <4>1 DEF Open
      <4>. QED
        BY <2>1, <3>1, <3>2, <4>2, SummaryOfFresh DEF JobEnd
    <3>3. CASE jobs[j] # "materialized"
      <4>1. \A t \in TargetsOf(j) : t \notin due /\ tgt[t] = target[t]
        BY <1>5, <1>7, <3>3
      <4>. QED
        BY <1>7, <3>1, <4>1, ZenonT(30) DEF JobEnd
    <3>. QED
      BY <3>2, <3>3
  <2>. QED
    BY <2>4, <2>5
<1>. QED
  BY <1>8, <1>9

\* A refresh of one job, when nothing else changed.
LEMMA RefreshOne ==
  ASSUME BaseInv, JobSummarisesTargets, NEW k \in Jobs, job' = Refreshed(job, target', {k}),
         \A t \in Targets : JobOf(t) # k => target'[t] = target[t]
  PROVE  JobSummarisesTargets' /\ \A j \in Jobs \ {k} : job'[j] = job[j]
<1>1. \A j \in Jobs : job'[j] = IF j = k THEN Summary(target', j) ELSE job[j]
  BY DEF Refreshed
<1>2. ASSUME NEW j \in Jobs, j # k, \E t \in TargetsOf(j) : target'[t].status # "absent"
      PROVE  job'[j] = Summary(target', j)
  <2>1. \A t \in TargetsOf(j) : target'[t] = target[t]
    BY <1>2, TargetsOfJob
  <2>2. Summary(target', j) = Summary(target, j)
    BY <2>1, SummaryAlike
  <2>. QED
    BY <1>1, <1>2, <2>1, <2>2 DEF JobSummarisesTargets
<1>. QED
  BY <1>1, <1>2 DEF JobSummarisesTargets

LEMMA SummaryStep ==
  ASSUME BaseInv, JobSummarisesTargets, [Next]_vars
  PROVE  JobSummarisesTargets' /\ \A j \in Jobs : job[j] \in JobEnd => job'[j] = job[j]
<1>1. CASE UNCHANGED deliveryVars
  BY <1>1 DEF deliveryVars, JobSummarisesTargets
<1>2. ASSUME NEW w \in Runs, ClaimBatch(w)
      PROVE  JobSummarisesTargets' /\ \A j \in Jobs : job[j] \in JobEnd => job'[j] = job[j]
  BY <1>2, ClaimSummary DEF JobSummarisesTargets
<1>3. ASSUME NEW i \in Items, NEW to \in {"operator_blocked"} \cup Open \cup TargetEnd,
             NEW outcome \in {"suppressed"} \cup Outcomes, Concludes(i, to, outcome)
      PROVE  JobSummarisesTargets' /\ \A j \in Jobs : job[j] \in JobEnd => job'[j] = job[j]
  <2>. DEFINE t == i.target
              k == JobOf(t)
  <2>1. /\ t \in Targets /\ k \in Jobs /\ t \in TargetsOf(k)
        /\ target[t].status = "claimed" /\ job' = Refreshed(job, target', {k})
        /\ \A u \in Targets : u # t => target'[u] = target[u]
    BY <1>3, ItemType, TargetType, FinishType DEF Concludes, Fence, Finish, BaseInv
  <2>2. JobSummarisesTargets' /\ \A j \in Jobs \ {k} : job'[j] = job[j]
    BY <2>1, RefreshOne
  <2>3. Summary(target, k) \in {"operator_blocked", "materialized"}
    BY <2>1, SummaryOfOpen DEF Open
  <2>4. job[k] \notin JobEnd
    BY <2>1, <2>3 DEF JobSummarisesTargets, JobEnd
  <2>. QED
    BY <2>2, <2>4
<1>4. ASSUME NEW t \in Targets, LeaseLapses(t)
      PROVE  JobSummarisesTargets' /\ \A j \in Jobs : job[j] \in JobEnd => job'[j] = job[j]
  <2>1. job' = job /\ \A u \in Targets : target'[u].status = target[u].status
    BY <1>4, LapseFrame
  <2>2. \A j \in Jobs : Summary(target', j) = Summary(target, j)
    BY <2>1, SummaryAlike, TargetsOfJob
  <2>. QED
    BY <2>1, <2>2, TargetsOfJob DEF JobSummarisesTargets
<1>5. ASSUME NEW k \in Jobs, Resume(k)
      PROVE  JobSummarisesTargets' /\ \A j \in Jobs : job[j] \in JobEnd => job'[j] = job[j]
  <2>1. \A t \in Targets : JobOf(t) # k => target'[t] = target[t]
    BY <1>5 DEF Resume
  <2>2. JobSummarisesTargets' /\ \A j \in Jobs \ {k} : job'[j] = job[j]
    BY <1>5, <2>1, RefreshOne DEF Resume
  <2>. QED
    BY <1>5, <2>2 DEF Resume, JobEnd
<1>. QED
  BY <1>1, <1>2, <1>3, <1>4, <1>5, StepFrame

\* Both, for the theorems below.
LEMMA SummaryHolds == Spec => [](BaseInv /\ JobSummarisesTargets)
<1>1. Init => JobSummarisesTargets
  BY TargetsOfJob DEF Init, JobSummarisesTargets
<1>2. BaseInv /\ JobSummarisesTargets /\ [Next]_vars => JobSummarisesTargets'
  BY SummaryStep
<1>. QED
  BY <1>1, <1>2, BaseHolds, PTL DEF Spec

(* A job reads as its targets after every settlement, claim, lapse and        *)
(* resume, for any number of targets.                                         *)
THEOREM JobsAreSummaries == Spec => []JobSummarisesTargets
  BY SummaryHolds, PTL

-----------------------------------------------------------------------------
(* What a step may never do. *)

LEMMA TargetsKeep ==
  ASSUME BaseInv, [Next]_vars, NEW t \in Targets
  PROVE  /\ target[t].status \in TargetEnd => target'[t] = target[t]
         /\ target[t].status = "claimed" /\ ~target[t].lapsed => target'[t].lease = target[t].lease
         /\ job[JobOf(t)] = "operator_blocked" => target'[t].lease = target[t].lease
<1>1. CASE UNCHANGED deliveryVars
  BY <1>1 DEF deliveryVars
<1>2. ASSUME NEW w \in Runs, ClaimBatch(w)
      PROVE  \/ target'[t] = target[t]
             \/ job[JobOf(t)] = "pending" /\ target[t].status = "absent"
             \/ /\ job[JobOf(t)] = "materialized" /\ target[t].status \in Open
                /\ target[t].status = "claimed" => target[t].lapsed
  BY <1>2, ClaimStepFrame, TargetType DEF ClaimedFrom, BaseInv, PendingJobsAreEmpty
<1>3. ASSUME NEW i \in Items, NEW to \in {"operator_blocked"} \cup Open \cup TargetEnd,
             NEW outcome \in {"suppressed"} \cup Outcomes, Concludes(i, to, outcome)
      PROVE  /\ target'[t].lease = target[t].lease
             /\ target'[t] = target[t] \/ target[t].status = "claimed"
  BY <1>3, FinishType DEF Concludes, Fence, BaseInv
<1>4. ASSUME NEW u \in Targets, LeaseLapses(u)
      PROVE  /\ target'[t].lease = target[t].lease
             /\ target'[t] = target[t] \/ target[t].status = "claimed"
  BY <1>4, LapseFrame
<1>5. ASSUME NEW j \in Jobs, Resume(j)
      PROVE  \/ target'[t] = target[t]
             \/ /\ target[t].status \in Open \cup {"operator_blocked"}
                /\ target'[t].lease = target[t].lease
  BY <1>5, ResumeFrame
<1>. QED
  BY <1>1, <1>2, <1>3, <1>4, <1>5, StepFrame DEF Open, TargetEnd

(* No step gives a target a new lease while the one it has is still live,     *)
(* for any number of overlapping runs.                                        *)
THEOREM LeasesAreExclusive == Spec => LiveLeaseIsExclusive
<1>1. BaseInv /\ [Next]_vars =>
        [\A t \in Targets :
           target[t].status = "claimed" /\ ~target[t].lapsed => target'[t].lease = target[t].lease]_vars
  BY TargetsKeep
<1>. QED
  BY <1>1, BaseHolds, PTL DEF Spec, LiveLeaseIsExclusive

(* While a job waits for its operator, no target of it is leased.             *)
THEOREM BlockedJobsWait == Spec => BlockedJobIsNotClaimed
<1>1. BaseInv /\ [Next]_vars =>
        [\A t \in Targets :
           job[JobOf(t)] = "operator_blocked" => target'[t].lease = target[t].lease]_vars
  BY TargetsKeep
<1>. QED
  BY <1>1, BaseHolds, PTL DEF Spec, BlockedJobIsNotClaimed

(* What has ended, target or job, is never reopened.                          *)
THEOREM EndIsFinal == Spec => EndedStays
<1>1. BaseInv /\ JobSummarisesTargets /\ [Next]_vars =>
        [/\ \A t \in Targets : target[t].status \in TargetEnd => target'[t] = target[t]
         /\ \A j \in Jobs : job[j] \in JobEnd => job'[j] = job[j]]_vars
  BY TargetsKeep, SummaryStep
<1>. QED
  BY <1>1, SummaryHolds, PTL DEF Spec, EndedStays
=============================================================================
