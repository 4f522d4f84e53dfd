--------------------------- MODULE PasswordChange ---------------------------
(***************************************************************************)
(* Password changes of one account: the owner's own change and the         *)
(* administrator's reset.  Both write to an external identity service      *)
(* between two transactions of the database, so both keep a receipt and    *)
(* tell what happened in between by an effect version: a trigger on the    *)
(* service's user table gives every new password the marker of the command *)
(* that is under way, or a random one.                                     *)
(*                                                                         *)
(* Each RPC and each call of the identity service is one action.  An       *)
(* update whose answer was lost may have landed, may not have, or may land *)
(* later.  Time is nondeterminism: a claim's lease may lapse at any point, *)
(* and a request may end anywhere.  The account stays active.              *)
(***************************************************************************)
EXTENDS Naturals, FiniteSets

CONSTANTS
  Keys,            \* idempotency keys of the owner's changes; also their markers
  Resets,          \* idempotency keys of administrator resets; also their markers
  Requests,        \* bound: change requests under way at a time
  ResetRuns,       \* bound: reset requests under way at a time
  Sessions,        \* bound: sign-ins of the owner
  Own,             \* passwords the owner may choose
  Temporary,       \* the last four digits of the phone number
  Random,          \* a version that is no command's marker
  Nobody,          \* the absence of a key, session, request or password
  MaxStray         \* bound: updates that land after their command was closed

ASSUME NamesAreApart ==
  /\ Keys \cap Resets = {}
  /\ Temporary \notin Own /\ Nobody \notin Own \cup {Temporary}
  /\ {Random, Nobody} \cap (Keys \cup Resets) = {} /\ Random # Nobody
  /\ Nobody \notin Sessions \cup Requests
ASSUME StraysAreBounded == MaxStray \in Nat

VARIABLES
  password,        \* identity service: the password
  author,          \* the command whose update set it
  version,         \* auth_password_versions.password_version
  receipt,         \* password_change_commands, per key
  marker,          \* password_reset_auth_markers.state, per reset
  ordered,         \* the resets whose account.password.reset receipt is stored
  mustChange,      \* profiles.must_change_password
  session,         \* auth.sessions of the owner
  request,         \* where each change request is
  reset,           \* where each reset request is
  late,            \* updates that may still land: <<author, password>>
  landed,          \* the commands whose update has landed
  strays           \* updates that landed after their command was closed

identityVars == <<password, author, version, landed, strays>>
ledgerVars == <<receipt, marker, ordered, mustChange, session>>
vars == <<identityVars, ledgerVars, request, reset, late>>

Passwords == Own \cup {Temporary}
Commands == Keys \cup Resets
Unresolved == {"auth_pending", "inconsistent", "reset_pending"}

\* What the table's check constraints say of a row.
WellFormed(row) ==
  /\ row.claim # Nobody <=> row.state \in {"auth_pending", "inconsistent"}
  /\ row.by # Nobody <=> row.state \in {"reset_pending", "superseded"}
  /\ row.live => row.claim # Nobody
  /\ row.session = Nobody <=> row.state = "absent"
Receipt ==
  [state: {"absent", "completed", "failed", "superseded"} \cup Unresolved,
   claim: Requests \cup {Nobody},       \* claim_digest, drawn afresh per request
   live: BOOLEAN,                       \* lease_expires_at is still to come
   session: Sessions \cup {Nobody},     \* session_digest
   by: Resets \cup {Nobody}]            \* reset_command_execution_id
Request ==
  [at: {"idle", "identify", "prepare", "execute", "compare", "readVersion",
        "tryPassword", "readAgain", "tryCurrent", "complete", "fail",
        "inconsistent", "changed"},
   purpose: {"change", "replay", "recover", "lostAnswer"},
   key: Keys \cup {Nobody}, session: Sessions \cup {Nobody},
   new: Own \cup {Nobody}, current: Passwords \cup {Nobody}]
ResetRun ==
  [at: {"idle", "prepare", "look", "update", "readVersion", "tryPassword",
        "readAgain", "finalize"},
   key: Resets \cup {Nobody}]

TypeOK ==
  /\ password \in Passwords /\ author \in Commands \cup {Nobody}
  /\ version \in Commands \cup {Random}
  /\ receipt \in [Keys -> Receipt] /\ \A k \in Keys : WellFormed(receipt[k])
  /\ marker \in [Resets -> {"absent", "prepared", "completed"}]
  /\ ordered \subseteq Resets /\ mustChange \in BOOLEAN
  /\ session \in [Sessions -> {"unused", "live", "ended"}]
  /\ request \in [Requests -> Request] /\ reset \in [ResetRuns -> ResetRun]
  /\ late \subseteq Commands \X Passwords
  /\ landed \subseteq Commands /\ strays \in 0..MaxStray

NoReceipt ==
  [state |-> "absent", claim |-> Nobody, live |-> FALSE, session |-> Nobody, by |-> Nobody]
NoRequest ==
  [at |-> "idle", purpose |-> "change", key |-> Nobody, session |-> Nobody,
   new |-> Nobody, current |-> Nobody]
NoReset == [at |-> "idle", key |-> Nobody]

Init ==
  /\ password = Temporary /\ author = Nobody /\ version = Random
  /\ receipt = [k \in Keys |-> NoReceipt]
  /\ marker = [r \in Resets |-> "absent"]
  /\ ordered = {}
  /\ mustChange = TRUE
  /\ session = [s \in Sessions |-> "unused"]
  /\ request = [q \in Requests |-> NoRequest]
  /\ reset = [x \in ResetRuns |-> NoReset]
  /\ late = {} /\ landed = {} /\ strays = 0

-----------------------------------------------------------------------------
(* The identity service. *)

Prepared == {r \in Resets : marker[r] = "prepared"}
Pending == {k \in Keys : receipt[k].state = "auth_pending"}

\* rotate_auth_password_version: the marker a new password is given.
Bound ==
  LET candidate ==
        IF Prepared # {} THEN CHOOSE r \in Prepared : TRUE
        ELSE IF Pending # {} THEN CHOOSE k \in Pending : TRUE ELSE Random
  IN  IF candidate = version THEN Random ELSE candidate

\* The update of command c lands; a stray if the command is no longer open.
Land(c, new) ==
  /\ password' = new /\ author' = c /\ version' = Bound
  /\ landed' = landed \cup {c}
  /\ IF c \in Prepared \cup Pending THEN UNCHANGED strays
     ELSE strays < MaxStray /\ strays' = strays + 1

\* updateUserById: done and answered, done and not answered, not done, or still on its way.
Update(c, new, answered) ==
  \/ Land(c, new) /\ UNCHANGED late
  \/ ~answered /\ UNCHANGED <<identityVars, late>>
  \/ ~answered /\ late' = late \cup {<<c, new>>} /\ UNCHANGED identityVars

LandLate(u) ==
  /\ u \in late
  /\ late' = late \ {u}
  /\ Land(u[1], u[2])
  /\ UNCHANGED <<ledgerVars, request, reset>>

\* login with the password of the moment.
SignIn(s) ==
  /\ session[s] = "unused"
  /\ session' = [session EXCEPT ![s] = "live"]
  /\ UNCHANGED <<identityVars, receipt, marker, ordered, mustChange, request, reset, late>>

-----------------------------------------------------------------------------
(* The owner's change: auth.service.ts changePassword. *)

Alive(s) == session[s] = "live"          \* assert_password_change_actor
Go(q, at) ==
  request' = [request EXCEPT ![q] =
    IF at \in {"idle", "changed"} THEN [NoRequest EXCEPT !.at = at] ELSE [@ EXCEPT !.at = at]]
Verify(q, purpose) ==
  request' = [request EXCEPT ![q].at = "readVersion", ![q].purpose = purpose]
OthersUnresolved(k) == \E o \in Keys \ {k} : receipt[o].state \in Unresolved

\* inspect_password_change; requests it turns away change nothing.
Inspect(q, k, s, new) ==
  /\ request[q].at \in {"idle", "changed"} /\ Alive(s)
  /\ LET row == receipt[k]
         start == [NoRequest EXCEPT !.key = k, !.session = s, !.new = new]
     IN /\ row.state = "absent" \/ row.session = s
        /\ \/ /\ row.state = "absent" /\ ~OthersUnresolved(k)
              /\ request' = [request EXCEPT ![q] = [start EXCEPT !.at = "identify"]]
           \/ /\ row.state = "completed"
              /\ request' = [request EXCEPT ![q] =
                   [start EXCEPT !.at = "readVersion", !.purpose = "replay"]]
           \/ /\ row.state = "inconsistent" \/ (row.state = "auth_pending" /\ ~row.live)
              /\ request' = [request EXCEPT ![q] = [start EXCEPT !.at = "prepare"]]
  /\ UNCHANGED <<identityVars, ledgerVars, reset, late>>

\* verifyPassword(currentPassword) before a first execution.
Identify(q) ==
  /\ request[q].at = "identify" /\ Alive(request[q].session)
  /\ request' = [request EXCEPT ![q].at = "prepare", ![q].current = password]
  /\ UNCHANGED <<identityVars, ledgerVars, reset, late>>

\* Slip: a request that finds a lapsed claim executes the change again.
RecoverByExecuting(q) == Go(q, "execute")
Recover(q) == Verify(q, "recover")

\* prepare_password_change.
Prepare(q) ==
  /\ request[q].at = "prepare" /\ Alive(request[q].session)
  /\ LET k == request[q].key
         row == receipt[k]
         claimed == [row EXCEPT !.claim = q, !.live = TRUE]
     IN \/ /\ row.state = "absent" /\ ~OthersUnresolved(k) /\ request[q].current # Nobody
           /\ receipt' = [receipt EXCEPT ![k] =
                [claimed EXCEPT !.state = "auth_pending", !.session = request[q].session]]
           /\ Go(q, "execute")
        \/ /\ row.session = request[q].session
           /\ row.state = "inconsistent" \/ (row.state = "auth_pending" /\ ~row.live)
           /\ receipt' = [receipt EXCEPT ![k] = claimed]
           /\ Recover(q)
        \/ /\ row.session = request[q].session /\ row.state = "completed"
           /\ Verify(q, "replay") /\ UNCHANGED receipt
  /\ UNCHANGED <<identityVars, marker, ordered, mustChange, session, reset, late>>

Execute(q) ==
  /\ request[q].at = "execute"
  /\ \E answered \in BOOLEAN :
       /\ Update(request[q].key, request[q].new, answered)
       /\ IF answered THEN Go(q, "compare") ELSE Verify(q, "lostAnswer")
  /\ UNCHANGED <<ledgerVars, reset>>

Compare(q) ==
  /\ request[q].at = "compare"
  /\ Go(q, IF version = request[q].key THEN "complete" ELSE "inconsistent")
  /\ UNCHANGED <<identityVars, ledgerVars, reset, late>>

\* What follows a verifyPasswordEffect that fails, by what it was for.
NotTheEffect(q) ==
  CASE request[q].purpose = "replay" -> "idle"
    [] request[q].purpose = "lostAnswer" -> "tryCurrent"
    [] OTHER -> "inconsistent"

\* verifyPasswordEffect: the version, the new password, the version again.
ReadVersion(q) ==
  /\ request[q].at = "readVersion"
  /\ Go(q, IF version = request[q].key THEN "tryPassword" ELSE NotTheEffect(q))
  /\ UNCHANGED <<identityVars, ledgerVars, reset, late>>

\* Slip: the version alone tells that the effect is there.
TryAnyPassword(q) == TRUE
NewPasswordWorks(q) == password = request[q].new

TryPassword(q) ==
  /\ request[q].at = "tryPassword" /\ Alive(request[q].session)
  /\ Go(q, IF NewPasswordWorks(q) THEN "readAgain" ELSE NotTheEffect(q))
  /\ UNCHANGED <<identityVars, ledgerVars, reset, late>>

ReadAgain(q) ==
  /\ request[q].at = "readAgain"
  /\ Go(q, IF version # request[q].key THEN NotTheEffect(q)
           ELSE IF request[q].purpose = "replay" THEN "changed" ELSE "complete")
  /\ UNCHANGED <<identityVars, ledgerVars, reset, late>>

TryCurrent(q) ==
  /\ request[q].at = "tryCurrent" /\ Alive(request[q].session)
  /\ Go(q, IF password = request[q].current THEN "fail" ELSE "inconsistent")
  /\ UNCHANGED <<identityVars, ledgerVars, reset, late>>

EffectStands(k) == version = k /\ Prepared = {}

\* complete_password_change: a command completed before is answered from its
\* receipt; without its session a request completes only under a live claim.
Complete(q) ==
  LET k == request[q].key
      row == receipt[k]
  IN /\ request[q].at = "complete"
     /\ \/ /\ row.state = "completed" /\ Alive(request[q].session)
           /\ UNCHANGED <<receipt, mustChange, session>>
        \/ /\ row.claim = q /\ row.state \in {"auth_pending", "inconsistent"}
           /\ Alive(request[q].session) \/ (row.state = "auth_pending" /\ row.live)
           /\ EffectStands(k)
           /\ receipt' = [receipt EXCEPT ![k] =
                [@ EXCEPT !.state = "completed", !.claim = Nobody, !.live = FALSE]]
           /\ mustChange' = FALSE
           /\ session' = [s \in Sessions |->
                IF session[s] = "live" /\ s # request[q].session THEN "ended" ELSE session[s]]
     /\ Go(q, "changed")
     /\ UNCHANGED <<identityVars, marker, ordered, reset, late>>

\* finish_password_change_failure.
Finish(q, at, from, to) ==
  LET k == request[q].key
  IN /\ request[q].at = at /\ Alive(request[q].session)
     /\ receipt[k].claim = q /\ receipt[k].state \in from
     /\ receipt' = [receipt EXCEPT ![k] =
          [@ EXCEPT !.state = to, !.live = FALSE,
                    !.claim = IF to = "failed" THEN Nobody ELSE q]]
     /\ Go(q, "idle")
     /\ UNCHANGED <<identityVars, marker, ordered, mustChange, session, reset, late>>
FinishFailed(q) == Finish(q, "fail", {"auth_pending"}, "failed")
FinishInconsistent(q) ==
  Finish(q, "inconsistent", {"auth_pending", "inconsistent"}, "inconsistent")

\* The process ends, a call fails or is refused, or the limiter says no.
RequestDies(q) ==
  /\ request[q].at \notin {"idle", "changed"}
  /\ request' = [request EXCEPT ![q] = NoRequest]
  /\ UNCHANGED <<identityVars, ledgerVars, reset, late>>

LeaseLapses(k) ==
  /\ receipt[k].live
  /\ receipt' = [receipt EXCEPT ![k].live = FALSE]
  /\ UNCHANGED <<identityVars, marker, ordered, mustChange, session, request, reset, late>>

-----------------------------------------------------------------------------
(* The administrator's reset: account.service.ts resetPassword. *)

GoReset(x, at) ==
  reset' = [reset EXCEPT ![x] = IF at = "idle" THEN NoReset ELSE [@ EXCEPT !.at = at]]
\* An unresolved change that a reset may not take over.
Busy(k) == receipt[k].state = "auth_pending" /\ receipt[k].live

(* prepare_account_password_reset.  A key whose receipt is stored is replayed: *)
(* the profile and the sessions are left as they are.                          *)
Order(x, r) ==
  /\ reset[x].at = "idle"
  /\ reset' = [reset EXCEPT ![x] = [at |-> "prepare", key |-> r]]
  /\ IF r \in ordered THEN UNCHANGED <<ordered, mustChange, session>>
     ELSE /\ \A k \in Keys : ~Busy(k) /\ receipt[k].state # "reset_pending"
          /\ ordered' = ordered \cup {r}
          /\ mustChange' = TRUE
          /\ session' = [s \in Sessions |->
               IF session[s] = "live" THEN "ended" ELSE session[s]]
  /\ UNCHANGED <<identityVars, receipt, marker, request, late>>

\* Slip: the change keeps its claim.
TakenOverWithClaim(row, r) == [row EXCEPT !.state = "reset_pending", !.live = FALSE, !.by = r]
TakenOver(row, r) ==
  [row EXCEPT !.state = "reset_pending", !.claim = Nobody, !.live = FALSE, !.by = r]

\* prepare_password_change_admin_reset; a completed reset is only read.
PrepareReset(x) ==
  LET r == reset[x].key
  IN /\ reset[x].at = "prepare"
     /\ marker[r] # "completed" /\ Prepared \subseteq {r}
     /\ \A k \in Keys :
          ~Busy(k) /\ (receipt[k].state = "reset_pending" => receipt[k].by = r)
     /\ marker' = [marker EXCEPT ![r] = "prepared"]
     /\ receipt' = [k \in Keys |->
          IF receipt[k].state \in {"auth_pending", "inconsistent"}
          THEN TakenOver(receipt[k], r) ELSE receipt[k]]
     /\ GoReset(x, "look")
     /\ UNCHANGED <<identityVars, ordered, mustChange, session, request, late>>

\* An earlier run's update may have landed: then it is not repeated.
Look(x) ==
  /\ reset[x].at = "look"
  /\ GoReset(x, IF version = reset[x].key THEN "readVersion" ELSE "update")
  /\ UNCHANGED <<identityVars, ledgerVars, request, late>>

UpdateTemporary(x) ==
  /\ reset[x].at = "update"
  /\ \E answered \in BOOLEAN : Update(reset[x].key, Temporary, answered)
  /\ GoReset(x, "readVersion")
  /\ UNCHANGED <<ledgerVars, request>>

\* verifyPasswordResetEffect.
ReadResetVersion(x) ==
  /\ reset[x].at = "readVersion"
  /\ GoReset(x, IF version = reset[x].key THEN "tryPassword" ELSE "idle")
  /\ UNCHANGED <<identityVars, ledgerVars, request, late>>

\* Slip: the version alone tells that the reset took effect.
TemporaryAssumed == TRUE
TemporaryWorks == password = Temporary

TryTemporary(x) ==
  /\ reset[x].at = "tryPassword"
  /\ GoReset(x, IF TemporaryWorks THEN "readAgain" ELSE "idle")
  /\ UNCHANGED <<identityVars, ledgerVars, request, late>>

ReadResetAgain(x) ==
  /\ reset[x].at = "readAgain"
  /\ GoReset(x, IF version = reset[x].key THEN "finalize" ELSE "idle")
  /\ UNCHANGED <<identityVars, ledgerVars, request, late>>

\* finalize_password_change_admin_reset.
Finalize(x) ==
  LET r == reset[x].key
  IN /\ reset[x].at = "finalize"
     /\ \A k \in Keys :
          receipt[k].by = r => receipt[k].state \in {"reset_pending", "superseded"}
     /\ receipt' = [k \in Keys |->
          IF receipt[k].by = r THEN [receipt[k] EXCEPT !.state = "superseded"]
          ELSE receipt[k]]
     /\ marker' = [marker EXCEPT ![r] = "completed"]
     /\ GoReset(x, "idle")
     /\ UNCHANGED <<identityVars, ordered, mustChange, session, request, late>>

ResetDies(x) ==
  /\ reset[x].at # "idle"
  /\ reset' = [reset EXCEPT ![x] = NoReset]
  /\ UNCHANGED <<identityVars, ledgerVars, request, late>>

-----------------------------------------------------------------------------
ChangeStep(q) ==
  \/ \E k \in Keys, s \in Sessions, new \in Own : Inspect(q, k, s, new)
  \/ Identify(q) \/ Prepare(q) \/ Execute(q) \/ Compare(q)
  \/ ReadVersion(q) \/ TryPassword(q) \/ ReadAgain(q) \/ TryCurrent(q)
  \/ Complete(q) \/ FinishFailed(q) \/ FinishInconsistent(q) \/ RequestDies(q)

ResetStep(x) ==
  \/ \E r \in Resets : Order(x, r)
  \/ PrepareReset(x) \/ Look(x) \/ UpdateTemporary(x)
  \/ ReadResetVersion(x) \/ TryTemporary(x) \/ ReadResetAgain(x)
  \/ Finalize(x) \/ ResetDies(x)

Next ==
  \/ \E q \in Requests : ChangeStep(q)
  \/ \E x \in ResetRuns : ResetStep(x)
  \/ \E k \in Keys : LeaseLapses(k)
  \/ \E u \in late : LandLate(u)
  \/ \E s \in Sessions : SignIn(s)

Spec == Init /\ [][Next]_vars

-----------------------------------------------------------------------------
(* Properties. *)

(* Whoever is told that the password was changed can sign in with the        *)
(* password of that request, whether it was the first one, a recovery after  *)
(* a lost answer or a replay, and whatever other password a replay names;    *)
(* unless the command was completed before and another command has replaced  *)
(* the password since.                                                       *)
AnswerIsTrue ==
  [][\A q \in Requests :
       LET k == request[q].key
       IN  request[q].at # "changed" /\ request'[q].at = "changed" =>
             password = request[q].new \/ (receipt[k].state = "completed" /\ author # k)]_vars

(* A raced update of the password invalidates a change that is under way,    *)
(* and never lets it complete: the gate that makes an account choose its own *)
(* password does not open on a password a reset has set.                     *)
NeverFalselyCompleted ==
  [][\A k \in Keys :
       receipt[k].state # "completed" /\ receipt'[k].state = "completed" =>
         author \notin Resets]_vars

(* A key writes to the identity service at most once, however often it is    *)
(* retried and however many claims on it have lapsed.                        *)
OneUpdatePerKey ==
  \A k \in Keys :
    Cardinality({q \in Requests : request[q].at = "execute" /\ request[q].key = k})
      + Cardinality({u \in late : u[1] = k}) + Cardinality({k} \cap landed) <= 1

(* A reset is recorded as completed only after its temporary password was    *)
(* set, although the marker it waits for may have been given to an update of *)
(* the owner that landed while the reset was prepared.                       *)
ResetIsReal == \A r \in Resets : marker[r] = "completed" => r \in landed
=============================================================================
