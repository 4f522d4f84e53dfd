------------------------ MODULE NotificationDelivery ------------------------
(***************************************************************************)
(* Web push delivery of notifications.  Every outbox row has one job; the  *)
(* first claim of a job snapshots the recipient's active subscriptions     *)
(* into targets.  Runs of the delivery worker (one per minute, which may   *)
(* overlap) lease targets, read the encrypted envelope, obtain a permit,   *)
(* call the push provider outside the database and settle the outcome.     *)
(*                                                                         *)
(* Each RPC is one transaction, hence one action; the run's own state and  *)
(* the provider call lie between them.  Time is nondeterminism: a lease    *)
(* may lapse whenever it is held, even under a run that is still working   *)
(* (a suspended process, a slow database), a notification may go stale, a  *)
(* backoff may have passed.  A run draws a fresh claim digest, so a lease  *)
(* version stands for the digest that was stored with it.                  *)
(***************************************************************************)
EXTENDS Naturals

CONSTANTS
  Jobs,            \* notification_delivery_outbox rows, all of one recipient
  Subscriptions,   \* the recipient's web_push_subscriptions
  Changing,        \* bound: the jobs and subscriptions that events touch
  Runs,            \* bound: runs of the worker at a time
  NoItem,          \* a run with nothing in hand
  MaxLease,        \* leases a target may use up (8 in the code)
  MaxVersion       \* bound: subscription versions

ASSUME ChangingIsKnown == Changing \subseteq Jobs \cup Subscriptions
ASSUME NothingInHand == NoItem \notin [target: Jobs \X Subscriptions, lease: Nat]
ASSUME BoundsArePositive == MaxLease \in Nat \ {0} /\ MaxVersion \in Nat \ {0, 1}

VARIABLES
  job,             \* notification_delivery_jobs.status
  target,          \* the notification_delivery_targets row of <<job, subscription>>
  result,          \* notification_delivery_attempt_results.outcome per lease
  permits,         \* notification_delivery_permits: the items permitted
  subscription,    \* web_push_subscriptions with its retirement reason
  wanted,          \* the notification is neither stale nor resolved
  eligible,        \* the recipient is an active admin or maid
  run,             \* where each run of the worker is
  accepted,        \* provider: the items whose message it has taken over
  gone             \* provider: the <<subscription, version>> it has disowned

deliveryVars == <<job, target, result>>
providerVars == <<accepted, gone>>
vars == <<deliveryVars, permits, subscription, wanted, eligible, run, providerVars>>

Targets == Jobs \X Subscriptions
Leases == 1..MaxLease
Items == [target: Targets, lease: Leases]

Open == {"pending", "claimed", "retry"}
TargetEnd == {"delivered", "suppressed", "dead_letter"}
JobEnd == {"completed", "suppressed", "dead_letter"}
Outcomes ==
  {"accepted", "endpoint_gone", "retryable", "payload_rejected",
   "provider_configuration_error"}

TargetRow ==
  [status: {"absent", "operator_blocked"} \cup Open \cup TargetEnd,
   lease: 0..MaxLease, lapsed: BOOLEAN, version: 0..MaxVersion]
SubscriptionRow ==
  [active: BOOLEAN, version: 1..MaxVersion, expired: BOOLEAN, session: BOOLEAN,
   reason: {"none", "user_requested", "expired", "session_revoked", "endpoint_gone"}]
RunState ==
  [at: {"next", "enveloped", "permitted", "answered"},
   queue: SUBSET Items,                   \* claimed items the run has not come to
   item: Items \cup {NoItem},             \* the item in hand
   outcome: Outcomes \cup {"none"}]       \* what the provider said of it

TypeOK ==
  /\ job \in [Jobs -> {"pending", "materialized", "operator_blocked"} \cup JobEnd]
  /\ target \in [Targets -> TargetRow]
  /\ result \in [Targets -> [Leases -> {"none", "suppressed"} \cup Outcomes]]
  /\ permits \subseteq Items
  /\ subscription \in [Subscriptions -> SubscriptionRow]
  /\ wanted \in [Jobs -> BOOLEAN]
  /\ eligible \in BOOLEAN
  /\ run \in [Runs -> RunState]
  /\ accepted \subseteq Items
  /\ gone \subseteq Subscriptions \X (1..MaxVersion)

-----------------------------------------------------------------------------
(* What the functions of the ledger share. *)

JobOf(t) == t[1]
SubscriptionOf(t) == t[2]
TargetsOf(j) == {j} \X Subscriptions

\* What a job's status says about the statuses of its targets.
Summary(tgt, j) ==
  LET has(statuses) == \E t \in TargetsOf(j) : tgt[t].status \in statuses
  IN  CASE has({"operator_blocked"}) -> "operator_blocked"
        [] has(Open) /\ ~has({"operator_blocked"}) -> "materialized"
        [] has({"dead_letter"}) /\ ~has(Open \cup {"operator_blocked"}) -> "dead_letter"
        [] OTHER -> "completed"

\* Slip: a blocked job is left as it is, its operator will see to it.
RefreshedUnlessBlocked(jobs, tgt, js) ==
  [j \in Jobs |-> IF j \in js /\ jobs[j] # "operator_blocked" THEN Summary(tgt, j) ELSE jobs[j]]
Refreshed(jobs, tgt, js) == [j \in Jobs |-> IF j \in js THEN Summary(tgt, j) ELSE jobs[j]]

\* Slip: that the target is leased is enough, whoever leased it.
FenceAnyLease(i) == target[i.target].status = "claimed" /\ ~target[i.target].lapsed
\* Slip: the lease version is enough, whatever became of the target since.
FenceAnyStatus(i) == target[i.target].lease >= i.lease
Fence(i) ==
  /\ target[i.target].status = "claimed"
  /\ target[i.target].lease = i.lease
  /\ ~target[i.target].lapsed

Concluded(row, to) == [row EXCEPT !.status = to, !.lapsed = FALSE]

Finish(i, to, outcome) ==
  /\ target' = [target EXCEPT ![i.target] = Concluded(@, to)]
  /\ result' = [result EXCEPT ![i.target][i.lease] = outcome]
  /\ job' = Refreshed(job, target', {JobOf(i.target)})

Current(t) ==
  /\ subscription[SubscriptionOf(t)].active
  /\ subscription[SubscriptionOf(t)].version = target[t].version

Retired(row, reason) ==
  [row EXCEPT !.active = FALSE, !.version = @ + 1, !.reason = reason]

\* Slip: whatever is registered under the subscription now is retired.
RetireAnyRevision(t, reason) ==
  subscription' = [subscription EXCEPT ![SubscriptionOf(t)] =
                     IF @.active THEN Retired(@, reason) ELSE @]

Retire(t, reason) ==
  IF Current(t)
  THEN subscription' = [subscription EXCEPT ![SubscriptionOf(t)] = Retired(@, reason)]
  ELSE UNCHANGED subscription

-----------------------------------------------------------------------------
(* The runs of the worker. *)

Idle == [at |-> "next", queue |-> {}, item |-> NoItem, outcome |-> "none"]
Rest(w) == [Idle EXCEPT !.queue = run[w].queue \ {run[w].item}]
MoveTo(w, state) == run' = [run EXCEPT ![w] = state]

Init ==
  /\ job = [j \in Jobs |-> "pending"]
  /\ target = [t \in Targets |->
                 [status |-> "absent", lease |-> 0, lapsed |-> FALSE, version |-> 0]]
  /\ result = [t \in Targets |-> [l \in Leases |-> "none"]]
  /\ permits = {}
  /\ subscription \in [Subscriptions ->
       {r \in SubscriptionRow :
          r.version = 1 /\ ~r.expired /\ r.session /\ r.reason = "none"}]
  /\ wanted = [j \in Jobs |-> TRUE]
  /\ eligible = TRUE
  /\ run = [w \in Runs |-> Idle]
  /\ accepted = {} /\ gone = {}

\* The first claim of a job decides it or snapshots the active subscriptions.
Snapshot(j) ==
  [t \in TargetsOf(j) |->
     IF subscription[SubscriptionOf(t)].active
     THEN [target[t] EXCEPT !.status = "pending",
                            !.version = subscription[SubscriptionOf(t)].version]
     ELSE target[t]]
Opened(j, broken) ==
  CASE ~wanted[j] -> "suppressed"
    [] wanted[j] /\ j \in broken -> "dead_letter"
    [] wanted[j] /\ j \notin broken /\ ~eligible -> "suppressed"
    [] OTHER -> IF \E s \in Subscriptions : subscription[s].active
                THEN "materialized" ELSE "suppressed"

\* Slip: a leased target waits for the run that leased it.
ClaimableOnce(jobs, tgt, t) ==
  jobs[JobOf(t)] = "materialized" /\ tgt[t].status \in {"pending", "retry"}
Claimable(jobs, tgt, t) ==
  /\ jobs[JobOf(t)] = "materialized"
  /\ \/ tgt[t].status \in {"pending", "retry"}
     \/ tgt[t].status = "claimed" /\ tgt[t].lapsed

\* Slip: one lease too many.
LeasedOnceMore(row) ==
  IF row.lease > MaxLease THEN Concluded(row, "dead_letter")
  ELSE [row EXCEPT !.status = "claimed", !.lease = @ + 1, !.lapsed = FALSE]
Leased(row) ==
  IF row.lease >= MaxLease THEN Concluded(row, "dead_letter")
  ELSE [row EXCEPT !.status = "claimed", !.lease = @ + 1, !.lapsed = FALSE]

(* claim_notification_deliveries: "opening" are the pending jobs of this     *)
(* batch, "broken" those of a contract that is not push-eligible, "due" the  *)
(* targets whose backoff has passed and whose rows no one else has locked.   *)
Claim(w, opening, broken, due) ==
  LET jobs == [j \in Jobs |-> IF j \in opening THEN Opened(j, broken) ELSE job[j]]
      tgt == [t \in Targets |->
                IF JobOf(t) \in opening /\ jobs[JobOf(t)] = "materialized"
                THEN Snapshot(JobOf(t))[t] ELSE target[t]]
      taken == {t \in due : Leased(tgt[t]).status = "claimed"}
  IN /\ run[w] = Idle
     /\ \A t \in due : Claimable(jobs, tgt, t)
     /\ target' = [t \in Targets |-> IF t \in due THEN Leased(tgt[t]) ELSE tgt[t]]
     /\ job' = Refreshed(jobs, target', {JobOf(t) : t \in due \ taken})
     /\ MoveTo(w, [Idle EXCEPT !.queue =
          {[target |-> t, lease |-> target'[t].lease] : t \in taken}])
     /\ UNCHANGED <<result, permits, subscription, wanted, eligible, providerVars>>

ClaimBatch(w) ==
  \E opening \in SUBSET {j \in Jobs : job[j] = "pending"}, due \in SUBSET Targets :
    \E broken \in SUBSET opening :
      /\ opening \cup due # {}
      /\ Claim(w, opening, broken, due)

\* The message is no longer to be sent, whatever becomes of the subscription.
Unwanted(i) == ~wanted[JobOf(i.target)] \/ ~eligible
Expired(i) == Current(i.target) /\ subscription[SubscriptionOf(i.target)].expired

\* get_notification_delivery_envelope for the next item of the batch.
Envelope(w, i) ==
  /\ run[w].at = "next" /\ i \in run[w].queue
  /\ Fence(i)
  /\ LET rest == [Idle EXCEPT !.queue = run[w].queue \ {i}]
     IN \/ /\ Unwanted(i) \/ Expired(i) \/ ~Current(i.target)
           /\ IF ~Unwanted(i) /\ Expired(i)
              THEN Retire(i.target, "expired") ELSE UNCHANGED subscription
           /\ Finish(i, "suppressed", "suppressed")
           /\ MoveTo(w, rest)
        \/ /\ ~Unwanted(i) /\ ~Expired(i) /\ Current(i.target)
           /\ \* no secret, or a revision without a VAPID key version
              \E outcome \in {"suppressed", "payload_rejected"} :
                Finish(i, "dead_letter", outcome)
           /\ MoveTo(w, rest)
           /\ UNCHANGED subscription
        \/ /\ ~Unwanted(i) /\ ~Expired(i) /\ Current(i.target)
           /\ MoveTo(w, [rest EXCEPT !.at = "enveloped", !.item = i])
           /\ UNCHANGED <<deliveryVars, subscription>>
  /\ UNCHANGED <<permits, wanted, eligible, providerVars>>

SendIsAuthorised(i) ==
  /\ ~Unwanted(i) /\ ~Expired(i) /\ Current(i.target)
  /\ subscription[SubscriptionOf(i.target)].session

\* Why permit_notification_delivery retires the subscription, if it does.
RetireReason(i) ==
  IF Unwanted(i) \/ ~Current(i.target) THEN "none"
  ELSE IF Expired(i) THEN "expired" ELSE "session_revoked"

(* permit_notification_delivery: the last look at the recipient, the session  *)
(* and the subscription, under the lock of every change to subscriptions.     *)
(* A run asks once per item, so the replay of a stored permit never occurs.   *)
Permit(w) ==
  /\ run[w].at = "enveloped"
  /\ LET i == run[w].item
     IN /\ Fence(i)
        /\ \/ /\ SendIsAuthorised(i)
              /\ permits' = permits \cup {i}
              /\ MoveTo(w, [run[w] EXCEPT !.at = "permitted"])
              /\ UNCHANGED <<deliveryVars, subscription>>
           \/ /\ SendIsAuthorised(i)
              /\ Finish(i, "dead_letter", "payload_rejected")    \* over 3,072 bytes
              /\ MoveTo(w, Rest(w))
              /\ UNCHANGED <<permits, subscription>>
           \/ /\ ~SendIsAuthorised(i)
              /\ IF RetireReason(i) # "none"
                 THEN Retire(i.target, RetireReason(i)) ELSE UNCHANGED subscription
              /\ Finish(i, "suppressed", "suppressed")
              /\ MoveTo(w, Rest(w))
              /\ UNCHANGED permits
  /\ UNCHANGED <<wanted, eligible, providerVars>>

(* provider.send, outside the database.  A timeout or a thrown error counts   *)
(* as retryable although the provider may have taken the message over.        *)
Send(w, outcome) ==
  /\ run[w].at = "permitted"
  /\ MoveTo(w, [run[w] EXCEPT !.at = "answered", !.outcome = outcome])
  /\ LET i == run[w].item
     IN CASE outcome = "accepted" ->
               accepted' = accepted \cup {i} /\ UNCHANGED gone
          [] outcome = "retryable" ->
               accepted' \in {accepted, accepted \cup {i}} /\ UNCHANGED gone
          [] outcome = "endpoint_gone" ->
               /\ gone' = gone \cup {<<SubscriptionOf(i.target), target[i.target].version>>}
               /\ UNCHANGED accepted
          [] OTHER -> UNCHANGED providerVars
  /\ UNCHANGED <<deliveryVars, permits, subscription, wanted, eligible>>

\* Slip: the lease that would come next is counted already.
SettledOneEarly(i, outcome) ==
  CASE outcome = "accepted" -> "delivered"
    [] outcome = "endpoint_gone" -> "suppressed"
    [] outcome = "payload_rejected" -> "dead_letter"
    [] outcome = "provider_configuration_error" -> "operator_blocked"
    [] OTHER -> IF i.lease + 1 >= MaxLease THEN "dead_letter" ELSE "retry"
Settled(i, outcome) ==
  CASE outcome = "accepted" -> "delivered"
    [] outcome = "endpoint_gone" -> "suppressed"
    [] outcome = "payload_rejected" -> "dead_letter"
    [] outcome = "provider_configuration_error" -> "operator_blocked"
    [] OTHER -> IF i.lease >= MaxLease THEN "dead_letter" ELSE "retry"

\* settle_notification_delivery; a configuration error stops the whole batch.
Settle(w) ==
  /\ run[w].at = "answered"
  /\ LET i == run[w].item
         outcome == run[w].outcome
     IN /\ Fence(i) /\ i \in permits
        /\ IF outcome = "endpoint_gone"
           THEN Retire(i.target, "endpoint_gone") ELSE UNCHANGED subscription
        /\ Finish(i, Settled(i, outcome), outcome)
        /\ MoveTo(w, IF outcome = "provider_configuration_error" THEN Idle ELSE Rest(w))
  /\ UNCHANGED <<permits, wanted, eligible, providerVars>>

\* The provider deadline has passed: the item keeps its lease.
Defer(w) ==
  /\ \/ run[w].at = "permitted" /\ MoveTo(w, Rest(w))
     \/ /\ run[w].at = "next"
        /\ \E i \in run[w].queue :
             MoveTo(w, [Idle EXCEPT !.queue = run[w].queue \ {i}])
  /\ UNCHANGED <<deliveryVars, permits, subscription, wanted, eligible, providerVars>>

\* The process ends, an RPC fails or answers too late, or a fence is refused.
RunDies(w) ==
  /\ run[w] # Idle
  /\ MoveTo(w, Idle)
  /\ UNCHANGED <<deliveryVars, permits, subscription, wanted, eligible, providerVars>>

LeaseLapses(t) ==
  /\ target[t].status = "claimed" /\ ~target[t].lapsed
  /\ target' = [target EXCEPT ![t].lapsed = TRUE]
  /\ UNCHANGED <<job, result, permits, subscription, wanted, eligible, run, providerVars>>

Resumed(row) ==
  CASE row.status \notin Open \cup {"operator_blocked"} -> row
    [] row.status \in Open \cup {"operator_blocked"} /\ row.lease >= MaxLease ->
         Concluded(row, "dead_letter")
    [] OTHER -> Concluded(row, "retry")

(* resume_blocked_notification_deliveries, for one job: leases that a run still *)
(* works under are taken back as well.                                          *)
Resume(j) ==
  /\ job[j] = "operator_blocked"
  /\ target' = [t \in Targets |->
       IF JobOf(t) = j THEN Resumed(target[t]) ELSE target[t]]
  /\ job' = Refreshed(job, target', {j})
  /\ UNCHANGED <<result, permits, subscription, wanted, eligible, run, providerVars>>

-----------------------------------------------------------------------------
(* What happens to the recipient, the notification and the subscriptions. *)

\* register_web_push_subscription, the first time.
Register(s) ==
  /\ s \in Changing /\ ~subscription[s].active /\ subscription[s].reason = "none"
  /\ eligible
  /\ subscription' = [subscription EXCEPT ![s].active = TRUE]
  /\ UNCHANGED <<deliveryVars, permits, wanted, eligible, run, providerVars>>

\* register_web_push_subscription of a new endpoint, key or session.
Rotate(s) ==
  /\ s \in Changing /\ subscription[s].active /\ eligible
  /\ subscription[s].version + 1 < MaxVersion    \* bound: room to retire it
  /\ subscription' = [subscription EXCEPT
       ![s].version = @ + 1, ![s].expired = FALSE, ![s].session = TRUE]
  /\ UNCHANGED <<deliveryVars, permits, wanted, eligible, run, providerVars>>

\* retire_web_push_subscription.
Unsubscribe(s) ==
  /\ s \in Changing /\ subscription[s].active /\ eligible
  /\ subscription' = [subscription EXCEPT ![s] = Retired(@, "user_requested")]
  /\ UNCHANGED <<deliveryVars, permits, wanted, eligible, run, providerVars>>

\* The expiration date passes; the session the subscription was made in ends.
SubscriptionAges(s) ==
  /\ s \in Changing /\ subscription[s].active
  /\ \/ subscription' = [subscription EXCEPT ![s].expired = TRUE]
     \/ subscription' = [subscription EXCEPT ![s].session = FALSE]
  /\ UNCHANGED <<deliveryVars, permits, wanted, eligible, run, providerVars>>

\* Resolved by a later event, or enqueued more than 24 hours ago.
LoseInterest(j) ==
  /\ j \in Changing /\ wanted[j]
  /\ wanted' = [wanted EXCEPT ![j] = FALSE]
  /\ UNCHANGED <<deliveryVars, permits, subscription, eligible, run, providerVars>>

\* The account is deactivated or must change its password, and recovers.
ChangeEligibility ==
  /\ eligible' = ~eligible
  /\ UNCHANGED <<deliveryVars, permits, subscription, wanted, run, providerVars>>

RunStep(w) ==
  \/ \E i \in run[w].queue : Envelope(w, i)
  \/ Permit(w)
  \/ \E outcome \in Outcomes : Send(w, outcome)
  \/ Settle(w)
  \/ Defer(w)
  \/ RunDies(w)

Next ==
  \/ \E w \in Runs : ClaimBatch(w) \/ RunStep(w)
  \/ \E t \in Targets : LeaseLapses(t)
  \/ \E j \in Jobs : Resume(j) \/ LoseInterest(j)
  \/ \E s \in Subscriptions : 
       Register(s) \/ Rotate(s) \/ Unsubscribe(s) \/ SubscriptionAges(s)
  \/ ChangeEligibility

(* Cron starts a run every minute, a run is bounded by its deadlines, and a     *)
(* lease is a point in time.  Nobody is obliged to resume a blocked job.        *)
Fairness ==
  /\ WF_vars(\E w \in Runs : ClaimBatch(w))
  /\ \A w \in Runs : WF_vars(RunStep(w))
  /\ \A t \in Targets : WF_vars(LeaseLapses(t))

Spec == Init /\ [][Next]_vars
FairSpec == Spec /\ Fairness

-----------------------------------------------------------------------------
(* Properties. *)

(* A job that has targets always reads as the summary of their statuses:     *)
(* neither a settlement, nor a claim that exhausts a target, nor a resume    *)
(* leaves a job open whose targets are all done, or closed with one open     *)
(* (refresh_notification_delivery_job).                                      *)
JobSummarisesTargets ==
  \A j \in Jobs :
    (\E t \in TargetsOf(j) : target[t].status # "absent") => job[j] = Summary(target, j)

(* A target is recorded as delivered only for a message the provider took    *)
(* over under the very lease the target still carries, however many earlier  *)
(* leases sent it too.                                                       *)
DeliveredWasAccepted ==
  \A t \in Targets :
    target[t].status = "delivered" => [target |-> t, lease |-> target[t].lease] \in accepted

(* Outcomes are not applied out of order: an outcome that concludes a target *)
(* belongs to its last lease, so a run whose lease was lost, by lapse or by  *)
(* an operator's resume, cannot conclude what a later run is working on.     *)
LastLeaseConcludes ==
  \A t \in Targets, l \in Leases :
    result[t][l] \in {"accepted", "endpoint_gone", "payload_rejected", "suppressed"} =>
      target[t].lease = l /\ target[t].status \in TargetEnd

(* A late "endpoint gone" answer retires a subscription only if the endpoint *)
(* the provider disowned is the one that was registered at that moment: a    *)
(* rotation between permit and settlement survives.                          *)
RetiredEndpointIsGone ==
  \A s \in Subscriptions :
    subscription[s].reason = "endpoint_gone" => <<s, subscription[s].version - 1>> \in gone

(* The ledger explains every end: what became of a target is what is on     *)
(* record for its very last lease, and a message is given up without a       *)
(* verdict only when all its leases are spent, however claims, lapses, late  *)
(* answers and resumes came between.                                         *)
EndsAreExplained ==
  \A t \in Targets :
    LET recorded(outcomes) ==
          \E l \in Leases : l = target[t].lease /\ result[t][l] \in outcomes
        ends(statuses) == target[t].status \in statuses
    IN /\ ends({"delivered"}) => recorded({"accepted"})
       /\ ends({"suppressed"}) => recorded({"suppressed", "endpoint_gone"})
       /\ ends({"operator_blocked"}) => recorded({"provider_configuration_error"})
       /\ ends({"dead_letter"}) =>
            target[t].lease = MaxLease \/ recorded({"suppressed", "payload_rejected"})

(* A live lease is never passed on: only after it lapsed, or after the job   *)
(* was resumed, does another run get the target.                             *)
LiveLeaseIsExclusive ==
  [][\A t \in Targets :
       target[t].status = "claimed" /\ ~target[t].lapsed => target'[t].lease = target[t].lease]_vars

(* While a job waits for its operator, none of its targets is leased anew.   *)
BlockedJobIsNotClaimed ==
  [][\A t \in Targets :
       job[JobOf(t)] = "operator_blocked" => target'[t].lease = target[t].lease]_vars

(* What has ended stays: no later settlement, claim or resume reopens a      *)
(* delivered, suppressed or dead-lettered target or job.                     *)
EndedStays ==
  [][/\ \A t \in Targets : target[t].status \in TargetEnd => target'[t] = target[t]
     /\ \A j \in Jobs : job[j] \in JobEnd => job'[j] = job[j]]_vars

(* Every job ends or comes to wait for its operator, although runs may die   *)
(* at any point and lose their leases: the leases of a target run out.       *)
NoJobStaysOpen == \A j \in Jobs : []<>(job[j] \in JobEnd \cup {"operator_blocked"})
=============================================================================
