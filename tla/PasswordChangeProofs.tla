------------------------ MODULE PasswordChangeProofs ------------------------
(***************************************************************************)
(* Theorems about PasswordChange, for any number of keys, resets, requests *)
(* and sessions.  TypeCorrect and OneUpdate hold as they are.  The others  *)
(* hold for as long as no stray has landed: no update of the identity      *)
(* service that took effect after its command was closed.                  *)
(* PasswordChange_stray.cfg shows what happens after one.                  *)
(***************************************************************************)
EXTENDS PasswordChange, FiniteSetTheorems, TLAPS

\* A request or run that is under way knows what it is about, and an update
\* on its way carries a password its command may set.
Known ==
  /\ \A q \in Requests : request[q].at \notin {"idle", "changed"} =>
       /\ request[q].key \in Keys /\ request[q].session \in Sessions
       /\ request[q].new \in Own
  /\ \A x \in ResetRuns : reset[x].at # "idle" => reset[x].key \in Resets
  /\ late \subseteq (Keys \X Own) \cup (Resets \X {Temporary})
Typed == TypeOK /\ Known

-----------------------------------------------------------------------------
(* The identity service. *)

\* The marker a new password is given is that of an open command, or random.
LEMMA BoundIsOpen ==
  \/ Bound \in Prepared
  \/ Prepared = {} /\ Bound \in Pending
  \/ Bound = Random
<1>. DEFINE candidate ==
       IF Prepared # {} THEN CHOOSE r \in Prepared : TRUE
       ELSE IF Pending # {} THEN CHOOSE k \in Pending : TRUE ELSE Random
<1>1. Prepared # {} => candidate \in Prepared
  OBVIOUS
<1>2. Prepared = {} /\ Pending # {} => candidate \in Pending
  OBVIOUS
<1>3. Bound = IF candidate = version THEN Random ELSE candidate
  BY DEF Bound
<1>. QED
  BY <1>1, <1>2, <1>3

\* A landing keeps the types of the identity service.
LEMMA LandType ==
  ASSUME TypeOK, NEW c \in Commands, NEW new \in Passwords, Land(c, new)
  PROVE  /\ password' \in Passwords /\ author' \in Commands \cup {Nobody}
         /\ version' \in Commands \cup {Random}
         /\ landed' \subseteq Commands /\ strays' \in 0..MaxStray
<1>1. version' \in Commands \cup {Random}
  BY BoundIsOpen DEF Land, Prepared, Pending, Commands
<1>2. strays' \in 0..MaxStray
  BY StraysAreBounded DEF Land, TypeOK
<1>. QED
  BY <1>1, <1>2 DEF Land, TypeOK

\* So does an update, answered or not.
LEMMA UpdateType ==
  ASSUME Typed, NEW c \in Commands, NEW new, NEW answered \in BOOLEAN,
         \/ c \in Keys /\ new \in Own
         \/ c \in Resets /\ new = Temporary,
         Update(c, new, answered)
  PROVE  /\ password' \in Passwords /\ author' \in Commands \cup {Nobody}
         /\ version' \in Commands \cup {Random}
         /\ landed' \subseteq Commands /\ strays' \in 0..MaxStray
         /\ late' \subseteq Commands \X Passwords
         /\ late' \subseteq (Keys \X Own) \cup (Resets \X {Temporary})
<1>1. new \in Passwords /\ <<c, new>> \in (Keys \X Own) \cup (Resets \X {Temporary})
  BY DEF Passwords
<1>2. <<c, new>> \in Commands \X Passwords
  BY <1>1
<1>3. CASE Land(c, new) /\ UNCHANGED late
  BY <1>1, <1>3, LandType DEF Typed, TypeOK, Known
<1>4. CASE UNCHANGED identityVars /\ (late' = late \/ late' = late \cup {<<c, new>>})
  BY <1>1, <1>2, <1>4 DEF Typed, TypeOK, Known, identityVars
<1>. QED
  BY <1>3, <1>4 DEF Update, identityVars
-----------------------------------------------------------------------------
(* Types. *)

\* A row of the ledger that its check constraints admit.
Row == {row \in Receipt : WellFormed(row)}

\* Writing one admitted row keeps the ledger's type.
LEMMA LedgerType ==
  ASSUME TypeOK, NEW k \in Keys, NEW row \in Row, receipt' = [receipt EXCEPT ![k] = row]
  PROVE  receipt' \in [Keys -> Receipt] /\ \A j \in Keys : WellFormed(receipt'[j])
  BY DEF TypeOK, Row

\* What the requests and resets write are admitted rows.
LEMMA RowTypes ==
  ASSUME NEW row \in Row
  PROVE  /\ [row EXCEPT !.live = FALSE] \in Row
         /\ row.state \in {"auth_pending", "inconsistent"} =>
              /\ \A q \in Requests : [row EXCEPT !.claim = q, !.live = TRUE] \in Row
              /\ [row EXCEPT !.state = "completed", !.claim = Nobody, !.live = FALSE] \in Row
              /\ \A r \in Resets : TakenOver(row, r) \in Row
         /\ row.by # Nobody => [row EXCEPT !.state = "superseded"] \in Row
         /\ row.state = "absent" =>
              \A q \in Requests, s \in Sessions :
                [[row EXCEPT !.claim = q, !.live = TRUE]
                   EXCEPT !.state = "auth_pending", !.session = s] \in Row
  BY NamesAreApart DEF Row, Receipt, WellFormed, TakenOver, Unresolved

\* Where a request that is under way may be.
Places ==
  {"idle", "identify", "prepare", "execute", "compare", "readVersion", "tryPassword",
   "readAgain", "tryCurrent", "complete", "fail", "inconsistent", "changed"}

\* Moving a request on keeps its type and what is known of it.
LEMMA GoType ==
  ASSUME Typed, NEW q \in Requests, request[q].at \notin {"idle", "changed"},
         NEW at \in Places, Go(q, at)
  PROVE  /\ request' \in [Requests -> Request]
         /\ \A p \in Requests : request'[p].at \notin {"idle", "changed"} =>
              /\ request'[p].key \in Keys /\ request'[p].session \in Sessions
              /\ request'[p].new \in Own
  BY DEF Typed, TypeOK, Known, Go, Places, Request, NoRequest

LEMMA VerifyType ==
  ASSUME Typed, NEW q \in Requests, request[q].at \notin {"idle", "changed"},
         NEW purpose \in {"replay", "recover", "lostAnswer"}, Verify(q, purpose)
  PROVE  /\ request' \in [Requests -> Request]
         /\ \A p \in Requests : request'[p].at \notin {"idle", "changed"} =>
              /\ request'[p].key \in Keys /\ request'[p].session \in Sessions
              /\ request'[p].new \in Own
<1>1. [request[q] EXCEPT !.at = "readVersion", !.purpose = purpose] \in Request
  BY DEF Typed, TypeOK, Request
<1>2. request' = [request EXCEPT ![q] =
                    [request[q] EXCEPT !.at = "readVersion", !.purpose = purpose]]
  BY DEF Verify, Typed, TypeOK, Request
<1>. QED
  BY <1>1, <1>2 DEF Typed, TypeOK, Known, Request

LEMMA GoResetType ==
  ASSUME Typed, NEW x \in ResetRuns, reset[x].at # "idle",
         NEW at \in {"idle", "prepare", "look", "update", "readVersion", "tryPassword",
                     "readAgain", "finalize"},
         GoReset(x, at)
  PROVE  /\ reset' \in [ResetRuns -> ResetRun]
         /\ \A y \in ResetRuns : reset'[y].at # "idle" => reset'[y].key \in Resets
  BY DEF Typed, TypeOK, Known, GoReset, ResetRun, NoReset
\* A step that only moves a request on, and not to the update.
Moves(q) ==
  /\ request[q].at \notin {"idle", "changed"}
  /\ \E at \in Places \ {"execute"} : Go(q, at)
  /\ UNCHANGED <<identityVars, ledgerVars, reset, late>>

\* The steps of a request that look and write nothing.
LEMMA Looking ==
  ASSUME NEW q \in Requests,
         \/ Compare(q) \/ ReadVersion(q) \/ TryPassword(q) \/ ReadAgain(q)
         \/ TryCurrent(q)
  PROVE  Moves(q)
<1>1. NotTheEffect(q) \in Places \ {"execute"}
  BY DEF NotTheEffect, Places
<1>. QED
  BY <1>1 DEF Moves, Places, Compare, ReadVersion, TryPassword, ReadAgain, TryCurrent

\* Every step of a request keeps the types.
LEMMA TypedChange ==
  ASSUME Typed, NEW q \in Requests, ChangeStep(q)
  PROVE  Typed'
<1>. USE DEF Typed
<1>0. \A k \in Keys : receipt[k] \in Row
  BY DEF TypeOK, Row
<1>1. ASSUME NEW k \in Keys, NEW s \in Sessions, NEW new \in Own, Inspect(q, k, s, new)
      PROVE  Typed'
  <2>. DEFINE start(at, purpose) ==
         [at |-> at, purpose |-> purpose, key |-> k, session |-> s,
          new |-> new, current |-> Nobody]
  <2>1. \/ request' = [request EXCEPT ![q] = start("identify", "change")]
        \/ request' = [request EXCEPT ![q] = start("readVersion", "replay")]
        \/ request' = [request EXCEPT ![q] = start("prepare", "change")]
    BY <1>1, ZenonT(30) DEF Inspect, NoRequest
  <2>2. PICK at \in {"identify", "prepare", "readVersion"}, purpose \in {"change", "replay"} :
          request' = [request EXCEPT ![q] = start(at, purpose)]
    BY <2>1
  <2>. QED
    BY <1>1, <2>2 DEF Inspect, TypeOK, Known, Request, identityVars, ledgerVars
<1>2. ASSUME Identify(q) PROVE Typed'
  <2>1. [request[q] EXCEPT !.at = "prepare", !.current = password] \in Request
    BY DEF TypeOK, Request
  <2>2. request' = [request EXCEPT ![q] =
                      [request[q] EXCEPT !.at = "prepare", !.current = password]]
    BY <1>2 DEF Identify, TypeOK, Request
  <2>. QED
    BY <1>2, <2>1, <2>2 DEF Identify, TypeOK, Known, Request, identityVars, ledgerVars
<1>3. ASSUME Prepare(q) PROVE Typed'
  <2>. DEFINE k == request[q].key
              row == receipt[k]
  <2>1. /\ request[q].at \notin {"idle", "changed"} /\ k \in Keys
        /\ request[q].session \in Sessions /\ row \in Row
    BY <1>0, <1>3 DEF Prepare, Known
  <2>2. /\ request' \in [Requests -> Request]
        /\ \A p \in Requests : request'[p].at \notin {"idle", "changed"} =>
             /\ request'[p].key \in Keys /\ request'[p].session \in Sessions
             /\ request'[p].new \in Own
    BY <1>3, <2>1, GoType, VerifyType DEF Prepare, Recover, Places
  <2>3. receipt' \in [Keys -> Receipt] /\ \A j \in Keys : WellFormed(receipt'[j])
    <3>1. CASE UNCHANGED receipt
      BY <3>1 DEF TypeOK
    <3>2. CASE \E new \in Row : receipt' = [receipt EXCEPT ![k] = new]
      BY <2>1, <3>2, LedgerType
    <3>. QED
      BY <1>3, <2>1, <3>1, <3>2, RowTypes DEF Prepare
  <2>. QED
    BY <1>3, <2>2, <2>3 DEF Prepare, TypeOK, Known, identityVars
<1>4. ASSUME Execute(q) PROVE Typed'
  <2>1. request[q].key \in Keys /\ request[q].new \in Own
        /\ request[q].at \notin {"idle", "changed"}
    BY <1>4 DEF Execute, Known
  <2>2. PICK answered \in BOOLEAN :
          /\ Update(request[q].key, request[q].new, answered)
          /\ IF answered THEN Go(q, "compare") ELSE Verify(q, "lostAnswer")
    BY <1>4 DEF Execute
  <2>3. /\ request' \in [Requests -> Request]
        /\ \A p \in Requests : request'[p].at \notin {"idle", "changed"} =>
             /\ request'[p].key \in Keys /\ request'[p].session \in Sessions
             /\ request'[p].new \in Own
    BY <2>1, <2>2, GoType, VerifyType DEF Places
  <2>4. /\ password' \in Passwords /\ author' \in Commands \cup {Nobody}
        /\ version' \in Commands \cup {Random}
        /\ landed' \subseteq Commands /\ strays' \in 0..MaxStray
        /\ late' \subseteq Commands \X Passwords
        /\ late' \subseteq (Keys \X Own) \cup (Resets \X {Temporary})
    BY <2>1, <2>2, UpdateType DEF Commands
  <2>. QED
    BY <1>4, <2>3, <2>4 DEF Execute, TypeOK, Known, ledgerVars
<1>5. ASSUME Moves(q) PROVE Typed'
  BY <1>5, GoType DEF Moves, TypeOK, Known, identityVars, ledgerVars
<1>6. ASSUME Complete(q) PROVE Typed'
  <2>. DEFINE k == request[q].key
  <2>1. request[q].at \notin {"idle", "changed"} /\ k \in Keys /\ receipt[k] \in Row
    BY <1>0, <1>6 DEF Complete, Known
  <2>2. /\ request' \in [Requests -> Request]
        /\ \A p \in Requests : request'[p].at \notin {"idle", "changed"} =>
             /\ request'[p].key \in Keys /\ request'[p].session \in Sessions
             /\ request'[p].new \in Own
    BY <1>6, <2>1, GoType DEF Complete, Places
  <2>3. CASE UNCHANGED <<receipt, mustChange, session>>
    BY <1>6, <2>2, <2>3 DEF Complete, TypeOK, Known, identityVars
  <2>4. CASE ~UNCHANGED <<receipt, mustChange, session>>
    <3>1. /\ receipt[k].state \in {"auth_pending", "inconsistent"}
          /\ receipt' = [receipt EXCEPT ![k] =
               [receipt[k] EXCEPT !.state = "completed", !.claim = Nobody, !.live = FALSE]]
          /\ mustChange' \in BOOLEAN
          /\ session' \in [Sessions -> {"unused", "live", "ended"}]
      BY <1>6, <2>1, <2>4, ZenonT(30) DEF Complete, TypeOK
    <3>2. receipt' \in [Keys -> Receipt] /\ \A j \in Keys : WellFormed(receipt'[j])
      BY <2>1, <3>1, RowTypes, LedgerType
    <3>. QED
      BY <1>6, <2>2, <3>1, <3>2 DEF Complete, TypeOK, Known, identityVars
  <2>. QED
    BY <2>3, <2>4
<1>7. ASSUME FinishFailed(q) \/ FinishInconsistent(q) PROVE Typed'
  <2>. DEFINE k == request[q].key
  <2>1. request[q].at \notin {"idle", "changed"} /\ k \in Keys /\ receipt[k] \in Row
    BY <1>0, <1>7 DEF FinishFailed, FinishInconsistent, Finish, Known
  <2>2. /\ request' \in [Requests -> Request]
        /\ \A p \in Requests : request'[p].at \notin {"idle", "changed"} =>
             /\ request'[p].key \in Keys /\ request'[p].session \in Sessions
             /\ request'[p].new \in Own
    BY <1>7, <2>1, GoType DEF FinishFailed, FinishInconsistent, Finish, Places
  <2>3. receipt[k].state \in {"auth_pending", "inconsistent"}
    BY <1>7 DEF FinishFailed, FinishInconsistent, Finish
  <2>4. receipt' \in [Keys -> Receipt] /\ \A j \in Keys : WellFormed(receipt'[j])
    <3>1. CASE FinishFailed(q)
      <4>. DEFINE row == [receipt[k] EXCEPT !.state = "failed", !.live = FALSE, !.claim = Nobody]
      <4>1. row \in Row
        BY <2>1, <2>3, NamesAreApart DEF Row, Receipt, WellFormed, Unresolved
      <4>2. receipt' = [receipt EXCEPT ![k] = row]
        BY <3>1, <2>1 DEF FinishFailed, Finish
      <4>. QED
        BY <2>1, <4>1, <4>2, LedgerType
    <3>2. CASE FinishInconsistent(q)
      <4>. DEFINE row == [receipt[k] EXCEPT !.state = "inconsistent", !.live = FALSE, !.claim = q]
      <4>1. row \in Row
        BY <2>1, <2>3, NamesAreApart DEF Row, Receipt, WellFormed, Unresolved
      <4>2. receipt' = [receipt EXCEPT ![k] = row]
        BY <3>2, <2>1 DEF FinishInconsistent, Finish
      <4>. QED
        BY <2>1, <4>1, <4>2, LedgerType
    <3>. QED
      BY <1>7, <3>1, <3>2
  <2>. QED
    BY <1>7, <2>2, <2>4
       DEF FinishFailed, FinishInconsistent, Finish, TypeOK, Known, identityVars
<1>8. ASSUME RequestDies(q) PROVE Typed'
  BY <1>8 DEF RequestDies, NoRequest, TypeOK, Known, Request, identityVars, ledgerVars
<1>. QED
  BY <1>1, <1>2, <1>3, <1>4, <1>5, <1>6, <1>7, <1>8, Looking DEF ChangeStep

\* Every step of a reset keeps the types.
LEMMA TypedReset ==
  ASSUME Typed, NEW x \in ResetRuns, ResetStep(x)
  PROVE  Typed'
<1>. USE DEF Typed
<1>0. \A k \in Keys : receipt[k] \in Row
  BY DEF TypeOK, Row
<1>1. ASSUME NEW r \in Resets, Order(x, r) PROVE Typed'
  <2>1. /\ reset' \in [ResetRuns -> ResetRun]
        /\ \A y \in ResetRuns : reset'[y].at # "idle" => reset'[y].key \in Resets
    BY <1>1 DEF Order, TypeOK, Known, ResetRun
  <2>2. /\ ordered' \subseteq Resets /\ mustChange' \in BOOLEAN
        /\ session' \in [Sessions -> {"unused", "live", "ended"}]
    BY <1>1 DEF Order, TypeOK
  <2>. QED
    BY <1>1, <2>1, <2>2 DEF Order, TypeOK, Known, identityVars
<1>2. ASSUME PrepareReset(x) PROVE Typed'
  <2>. DEFINE r == reset[x].key
  <2>1. reset[x].at # "idle" /\ r \in Resets
    BY <1>2 DEF PrepareReset, Known
  <2>2. /\ reset' \in [ResetRuns -> ResetRun]
        /\ \A y \in ResetRuns : reset'[y].at # "idle" => reset'[y].key \in Resets
    BY <1>2, <2>1, GoResetType DEF PrepareReset
  <2>3. \A k \in Keys :
          (IF receipt[k].state \in {"auth_pending", "inconsistent"}
           THEN TakenOver(receipt[k], r) ELSE receipt[k]) \in Row
    BY <1>0, <2>1, RowTypes
  <2>4. receipt' \in [Keys -> Receipt] /\ \A j \in Keys : WellFormed(receipt'[j])
    BY <1>2, <2>3 DEF PrepareReset, Row
  <2>. QED
    BY <1>2, <2>1, <2>2, <2>4 DEF PrepareReset, TypeOK, Known, identityVars
<1>3. ASSUME UpdateTemporary(x) PROVE Typed'
  <2>1. reset[x].at # "idle" /\ reset[x].key \in Resets
    BY <1>3 DEF UpdateTemporary, Known
  <2>2. /\ reset' \in [ResetRuns -> ResetRun]
        /\ \A y \in ResetRuns : reset'[y].at # "idle" => reset'[y].key \in Resets
    BY <1>3, <2>1, GoResetType DEF UpdateTemporary
  <2>3. PICK answered \in BOOLEAN : Update(reset[x].key, Temporary, answered)
    BY <1>3 DEF UpdateTemporary
  <2>4. /\ password' \in Passwords /\ author' \in Commands \cup {Nobody}
        /\ version' \in Commands \cup {Random}
        /\ landed' \subseteq Commands /\ strays' \in 0..MaxStray
        /\ late' \subseteq Commands \X Passwords
        /\ late' \subseteq (Keys \X Own) \cup (Resets \X {Temporary})
    BY <2>1, <2>3, UpdateType DEF Commands
  <2>. QED
    BY <1>3, <2>2, <2>4 DEF UpdateTemporary, TypeOK, Known, ledgerVars
<1>4. ASSUME Look(x) \/ ReadResetVersion(x) \/ TryTemporary(x) \/ ReadResetAgain(x)
      PROVE  Typed'
  <2>1. reset[x].at # "idle"
    BY <1>4 DEF Look, ReadResetVersion, TryTemporary, ReadResetAgain
  <2>2. /\ reset' \in [ResetRuns -> ResetRun]
        /\ \A y \in ResetRuns : reset'[y].at # "idle" => reset'[y].key \in Resets
    BY <1>4, <2>1, GoResetType DEF Look, ReadResetVersion, TryTemporary, ReadResetAgain
  <2>3. UNCHANGED <<identityVars, ledgerVars, request, late>>
    BY <1>4 DEF Look, ReadResetVersion, TryTemporary, ReadResetAgain
  <2>. QED
    BY <2>2, <2>3 DEF TypeOK, Known, identityVars, ledgerVars
<1>5. ASSUME Finalize(x) PROVE Typed'
  <2>. DEFINE r == reset[x].key
  <2>1. reset[x].at # "idle" /\ r \in Resets /\ r # Nobody
    BY <1>5, NamesAreApart DEF Finalize, Known
  <2>2. /\ reset' \in [ResetRuns -> ResetRun]
        /\ \A y \in ResetRuns : reset'[y].at # "idle" => reset'[y].key \in Resets
    BY <1>5, <2>1, GoResetType DEF Finalize
  <2>3. \A k \in Keys :
          (IF receipt[k].by = r THEN [receipt[k] EXCEPT !.state = "superseded"]
           ELSE receipt[k]) \in Row
    BY <1>0, <2>1, RowTypes
  <2>4. receipt' \in [Keys -> Receipt] /\ \A j \in Keys : WellFormed(receipt'[j])
    BY <1>5, <2>3 DEF Finalize, Row
  <2>. QED
    BY <1>5, <2>1, <2>2, <2>4 DEF Finalize, TypeOK, Known, identityVars
<1>6. ASSUME ResetDies(x) PROVE Typed'
  BY <1>6 DEF ResetDies, NoReset, ResetRun, TypeOK, Known, identityVars, ledgerVars
<1>. QED
  BY <1>1, <1>2, <1>3, <1>4, <1>5, <1>6 DEF ResetStep

\* The steps of neither: a lease, an update that lands late, a sign-in.
LEMMA TypedOther ==
  ASSUME Typed,
         \/ \E k \in Keys : LeaseLapses(k)
         \/ \E u \in late : LandLate(u)
         \/ \E s \in Sessions : SignIn(s)
         \/ UNCHANGED vars
  PROVE  Typed'
<1>. USE DEF Typed
<1>1. ASSUME NEW k \in Keys, LeaseLapses(k) PROVE Typed'
  <2>1. [receipt[k] EXCEPT !.live = FALSE] \in Row
    BY RowTypes DEF TypeOK, Row
  <2>2. receipt' = [receipt EXCEPT ![k] = [receipt[k] EXCEPT !.live = FALSE]]
    BY <1>1 DEF LeaseLapses, TypeOK, Receipt
  <2>3. receipt' \in [Keys -> Receipt] /\ \A j \in Keys : WellFormed(receipt'[j])
    BY <2>1, <2>2, LedgerType
  <2>. QED
    BY <1>1, <2>3 DEF LeaseLapses, TypeOK, Known, identityVars
<1>2. ASSUME NEW u \in late, LandLate(u) PROVE Typed'
  <2>1. u[1] \in Commands /\ u[2] \in Passwords
    BY DEF TypeOK
  <2>2. late' \subseteq late
    BY <1>2 DEF LandLate
  <2>. QED
    BY <1>2, <2>1, <2>2, LandType DEF LandLate, TypeOK, Known, ledgerVars
<1>3. ASSUME NEW s \in Sessions, SignIn(s) PROVE Typed'
  BY <1>3 DEF SignIn, TypeOK, Known, identityVars
<1>4. ASSUME UNCHANGED vars PROVE Typed'
  BY <1>4 DEF vars, TypeOK, Known, identityVars, ledgerVars
<1>. QED
  BY <1>1, <1>2, <1>3, <1>4

LEMMA TypedStep ==
  ASSUME Typed, [Next]_vars
  PROVE  Typed'
  BY TypedChange, TypedReset, TypedOther DEF Next

LEMMA TypedInit ==
  ASSUME Init
  PROVE  Typed
  BY NamesAreApart, StraysAreBounded
     DEF Init, Typed, TypeOK, Known, NoReceipt, NoRequest, NoReset, Receipt, Request,
         ResetRun, WellFormed, Passwords, Commands, Unresolved

(* The state is well-formed in every reachable state: a receipt has the shape *)
(* the check constraints of its table demand, a request and a run that are    *)
(* under way know their command, and an update that may still land carries a  *)
(* password its command is allowed to set.                                    *)
THEOREM TypeCorrect == Spec => []TypeOK
<1>1. Spec => []Typed
  BY TypedInit, TypedStep, PTL DEF Spec
<1>2. Typed => TypeOK
  BY DEF Typed
<1>. QED
  BY <1>1, <1>2, PTL

-----------------------------------------------------------------------------
(* One update per key. *)

Executing(k) == {q \in Requests : request[q].at = "execute" /\ request[q].key = k}
OnItsWay(k) == {u \in late : u[1] = k}

\* An update of a key is about to be sent, on its way or done, and nothing of
\* it exists before the key has a receipt.
Single ==
  \A k \in Keys :
    /\ receipt[k].state = "absent" =>
         Executing(k) = {} /\ OnItsWay(k) = {} /\ k \notin landed
    /\ \A q \in Executing(k) :
         Executing(k) = {q} /\ OnItsWay(k) = {} /\ k \notin landed
    /\ \A u \in OnItsWay(k) : OnItsWay(k) = {u} /\ k \notin landed

\* A step that sends and lands nothing new, and takes no receipt away.
Quiet ==
  \A k \in Keys :
    /\ receipt'[k].state = "absent" => receipt[k].state = "absent"
    /\ Executing(k)' \subseteq Executing(k) /\ OnItsWay(k)' \subseteq OnItsWay(k)
    /\ k \in landed' => k \in landed

LEMMA QuietIsSingle ==
  ASSUME Single, Quiet
  PROVE  Single'
<1>1. ASSUME NEW k \in Keys
      PROVE  /\ receipt'[k].state = "absent" =>
                  Executing(k)' = {} /\ OnItsWay(k)' = {} /\ k \notin landed'
             /\ \A q \in Executing(k)' :
                  Executing(k)' = {q} /\ OnItsWay(k)' = {} /\ k \notin landed'
             /\ \A u \in OnItsWay(k)' : OnItsWay(k)' = {u} /\ k \notin landed'
  <2>1. /\ receipt'[k].state = "absent" => receipt[k].state = "absent"
        /\ Executing(k)' \subseteq Executing(k) /\ OnItsWay(k)' \subseteq OnItsWay(k)
        /\ k \in landed' => k \in landed
    BY DEF Quiet
  <2>2. /\ receipt[k].state = "absent" =>
             Executing(k) = {} /\ OnItsWay(k) = {} /\ k \notin landed
        /\ \A q \in Executing(k) :
             Executing(k) = {q} /\ OnItsWay(k) = {} /\ k \notin landed
        /\ \A u \in OnItsWay(k) : OnItsWay(k) = {u} /\ k \notin landed
    BY DEF Single
  <2>. QED
    BY <2>1, <2>2
<1>. QED
  BY <1>1 DEF Single

\* A request that goes anywhere but to the update is quiet.
LEMMA GoIsQuiet ==
  ASSUME Typed, NEW q \in Requests, NEW at, NEW purpose,
         Verify(q, purpose) \/ (Go(q, at) /\ at # "execute")
  PROVE  \A k \in Keys : Executing(k)' \subseteq Executing(k) /\ q \notin Executing(k)'
  BY DEF Typed, TypeOK, Verify, Go, Executing, Request, NoRequest

\* Every step of a request keeps the updates single.
LEMMA SingleChange ==
  ASSUME Typed, Single, NEW q \in Requests, ChangeStep(q)
  PROVE  Single'
<1>1. ASSUME NEW k \in Keys, NEW s \in Sessions, NEW new \in Own, Inspect(q, k, s, new)
      PROVE  Single'
  BY <1>1, QuietIsSingle, ZenonT(30)
     DEF Typed, TypeOK, Inspect, Quiet, Executing, OnItsWay, Request, NoRequest,
         identityVars, ledgerVars
<1>2. ASSUME Identify(q) PROVE Single'
  BY <1>2, QuietIsSingle
     DEF Typed, TypeOK, Identify, Quiet, Executing, OnItsWay, Request, identityVars, ledgerVars
<1>3. ASSUME Prepare(q) PROVE Single'
  <2>0. PICK k \in Keys : k = request[q].key
    BY <1>3 DEF Prepare, Typed, Known
  <2>1. q \notin Executing(k)
    BY <1>3 DEF Prepare, Executing
  <2>2. UNCHANGED <<late, landed>>
    BY <1>3 DEF Prepare, identityVars
  <2>3. CASE receipt[k].state = "absent" /\ Go(q, "execute")
    <3>1. receipt'[k].state # "absent" /\ \A j \in Keys \ {k} : receipt'[j] = receipt[j]
      <4>. DEFINE new == [[receipt[k] EXCEPT !.claim = q, !.live = TRUE]
                            EXCEPT !.state = "auth_pending", !.session = request[q].session]
      <4>1. receipt' = [receipt EXCEPT ![k] = new]
        BY <1>3, <2>0, <2>3 DEF Prepare
      <4>2. new.state = "auth_pending"
        BY DEF Typed, TypeOK, Receipt
      <4>. QED
        BY <4>1, <4>2 DEF Typed, TypeOK
    <3>2. Executing(k) = {} /\ OnItsWay(k) = {} /\ k \notin landed
      BY <2>3 DEF Single
    <3>3. Executing(k)' = {q} /\ \A j \in Keys \ {k} : Executing(j)' \subseteq Executing(j)
      BY <2>0, <2>3, <3>2 DEF Go, Executing, Typed, TypeOK, Request
    <3>4. \A j \in Keys : OnItsWay(j)' = OnItsWay(j)
      BY <2>2 DEF OnItsWay
    <3>5. ASSUME NEW j \in Keys
          PROVE  /\ receipt'[j].state = "absent" =>
                      Executing(j)' = {} /\ OnItsWay(j)' = {} /\ j \notin landed'
                 /\ \A p \in Executing(j)' :
                      Executing(j)' = {p} /\ OnItsWay(j)' = {} /\ j \notin landed'
                 /\ \A u \in OnItsWay(j)' : OnItsWay(j)' = {u} /\ j \notin landed'
      <4>1. CASE j = k
        BY <2>2, <3>1, <3>2, <3>3, <3>4, <4>1
      <4>2. CASE j # k
        BY <2>2, <3>1, <3>3, <3>4, <4>2 DEF Single
      <4>. QED
        BY <4>1, <4>2
    <3>. QED
      BY <3>5 DEF Single
  <2>4. CASE \E purpose : Verify(q, purpose)
    <3>1. \A j \in Keys : Executing(j)' \subseteq Executing(j)
      BY <2>4, GoIsQuiet
    <3>2. \A j \in Keys : receipt'[j].state = receipt[j].state
      BY <1>3, <2>0, <2>4, ZenonT(30) DEF Prepare, Typed, TypeOK, Receipt, Verify, Go, Request
    <3>. QED
      BY <2>2, <3>1, <3>2, QuietIsSingle DEF Quiet, OnItsWay
  <2>. QED
    BY <1>3, <2>0, <2>3, <2>4 DEF Prepare, Recover
<1>4. ASSUME Execute(q) PROVE Single'
  <2>0. PICK k \in Keys : k = request[q].key
    BY <1>4 DEF Execute, Typed, Known
  <2> DEFINE new == request[q].new
  <2>1. q \in Executing(k) /\ UNCHANGED receipt
    BY <1>4, <2>0 DEF Execute, Executing, ledgerVars
  <2>2. Executing(k) = {q} /\ OnItsWay(k) = {} /\ k \notin landed
        /\ receipt[k].state # "absent"
    BY <2>1 DEF Single
  <2>3. PICK answered \in BOOLEAN :
          /\ Update(k, new, answered)
          /\ IF answered THEN Go(q, "compare") ELSE Verify(q, "lostAnswer")
    BY <1>4, <2>0 DEF Execute
  <2>4. \A j \in Keys : Executing(j)' \subseteq Executing(j) /\ q \notin Executing(j)'
    BY <2>3, GoIsQuiet
  <2>5. Executing(k)' = {}
    BY <2>1, <2>2, <2>4
  <2>6. \/ landed' = landed \cup {k} /\ late' = late
        \/ landed' = landed /\ late' = late
        \/ landed' = landed /\ late' = late \cup {<<k, new>>}
    BY <2>3 DEF Update, Land, identityVars
  <2>7. /\ OnItsWay(k)' = {} \/ (k \notin landed' /\ OnItsWay(k)' = {<<k, new>>})
        /\ \A j \in Keys \ {k} : OnItsWay(j)' = OnItsWay(j) /\ (j \in landed' => j \in landed)
    BY <2>2, <2>6 DEF OnItsWay
  <2>8. ASSUME NEW j \in Keys
        PROVE  /\ receipt'[j].state = "absent" =>
                    Executing(j)' = {} /\ OnItsWay(j)' = {} /\ j \notin landed'
               /\ \A p \in Executing(j)' :
                    Executing(j)' = {p} /\ OnItsWay(j)' = {} /\ j \notin landed'
               /\ \A u \in OnItsWay(j)' : OnItsWay(j)' = {u} /\ j \notin landed'
    <3>1. CASE j = k
      BY <2>1, <2>2, <2>5, <2>7, <3>1
    <3>2. CASE j # k
      BY <2>1, <2>4, <2>7, <3>2 DEF Single
    <3>. QED
      BY <3>1, <3>2
  <2>. QED
    BY <2>8 DEF Single
<1>5. ASSUME Moves(q) PROVE Single'
  <2>1. \A j \in Keys : Executing(j)' \subseteq Executing(j)
    BY <1>5, GoIsQuiet DEF Moves
  <2>. QED
    BY <1>5, <2>1, QuietIsSingle DEF Moves, Quiet, OnItsWay, identityVars, ledgerVars
<1>6. ASSUME Complete(q) PROVE Single'
  <2>1. \A j \in Keys : Executing(j)' \subseteq Executing(j)
    BY <1>6, GoIsQuiet DEF Complete
  <2>2. \A j \in Keys : receipt'[j].state = "absent" => receipt[j].state = "absent"
    BY <1>6 DEF Complete, Typed, TypeOK, Receipt
  <2>. QED
    BY <1>6, <2>1, <2>2, QuietIsSingle DEF Complete, Quiet, OnItsWay, identityVars
<1>7. ASSUME FinishFailed(q) \/ FinishInconsistent(q) PROVE Single'
  <2>1. \A j \in Keys : Executing(j)' \subseteq Executing(j)
    BY <1>7, GoIsQuiet DEF FinishFailed, FinishInconsistent, Finish
  <2>2. \A j \in Keys : receipt'[j].state = "absent" => receipt[j].state = "absent"
    BY <1>7 DEF FinishFailed, FinishInconsistent, Finish, Typed, TypeOK, Receipt
  <2>. QED
    BY <1>7, <2>1, <2>2, QuietIsSingle
       DEF FinishFailed, FinishInconsistent, Finish, Quiet, OnItsWay, identityVars
<1>8. ASSUME RequestDies(q) PROVE Single'
  BY <1>8, QuietIsSingle
     DEF RequestDies, NoRequest, Typed, TypeOK, Quiet, Executing, OnItsWay,
         identityVars, ledgerVars
<1>. QED
  BY <1>1, <1>2, <1>3, <1>4, <1>5, <1>6, <1>7, <1>8, Looking DEF ChangeStep

\* So does every step of a reset: it never sends or lands a change.
LEMMA SingleReset ==
  ASSUME Typed, Single, NEW x \in ResetRuns, ResetStep(x)
  PROVE  Single'
<1>1. UNCHANGED request
  BY DEF ResetStep, Order, PrepareReset, Look, UpdateTemporary, ReadResetVersion,
         TryTemporary, ReadResetAgain, Finalize, ResetDies
<1>2. \A k \in Keys : receipt'[k].state = "absent" => receipt[k].state = "absent"
  <2>1. CASE PrepareReset(x)
    BY <2>1, ZenonT(30) DEF PrepareReset, TakenOver, Typed, TypeOK, Receipt
  <2>2. CASE Finalize(x)
    BY <2>2 DEF Finalize, Typed, TypeOK, Receipt
  <2>3. CASE UNCHANGED receipt
    BY <2>3
  <2>. QED
    BY <2>1, <2>2, <2>3
       DEF ResetStep, Order, Look, UpdateTemporary, ReadResetVersion, TryTemporary,
           ReadResetAgain, ResetDies, ledgerVars
<1>3. \A k \in Keys : OnItsWay(k)' \subseteq OnItsWay(k) /\ (k \in landed' => k \in landed)
  <2>1. CASE UpdateTemporary(x)
    <3>1. PICK r \in Resets : r = reset[x].key
      BY <2>1 DEF UpdateTemporary, Typed, Known
    <3>2. \/ landed' = landed \cup {r} /\ late' = late
          \/ landed' = landed /\ late' = late
          \/ landed' = landed /\ late' = late \cup {<<r, Temporary>>}
      BY <2>1, <3>1 DEF UpdateTemporary, Update, Land, identityVars
    <3>. QED
      BY <3>2, NamesAreApart DEF OnItsWay
  <2>2. CASE UNCHANGED <<landed, late>>
    BY <2>2 DEF OnItsWay
  <2>. QED
    BY <2>1, <2>2
       DEF ResetStep, Order, PrepareReset, Look, ReadResetVersion, TryTemporary,
           ReadResetAgain, Finalize, ResetDies, identityVars
<1>. QED
  BY <1>1, <1>2, <1>3, QuietIsSingle DEF Quiet, Executing

LEMMA SingleOther ==
  ASSUME Typed, Single,
         \/ \E k \in Keys : LeaseLapses(k)
         \/ \E u \in late : LandLate(u)
         \/ \E s \in Sessions : SignIn(s)
         \/ UNCHANGED vars
  PROVE  Single'
<1>1. ASSUME NEW k \in Keys, LeaseLapses(k) PROVE Single'
  BY <1>1, QuietIsSingle
     DEF LeaseLapses, Quiet, Executing, OnItsWay, identityVars, Typed, TypeOK, Receipt
<1>2. ASSUME NEW u \in late, LandLate(u) PROVE Single'
  <2>1. /\ late' = late \ {u} /\ landed' = landed \cup {u[1]}
        /\ UNCHANGED <<receipt, request>>
    BY <1>2 DEF LandLate, Land, ledgerVars
  <2>2. \A k \in Keys : Executing(k)' = Executing(k)
    BY <2>1 DEF Executing
  <2>3. \A k \in Keys : OnItsWay(k)' = OnItsWay(k) \ {u}
    BY <2>1 DEF OnItsWay
  <2>4. ASSUME NEW k \in Keys
        PROVE  /\ receipt'[k].state = "absent" =>
                    Executing(k)' = {} /\ OnItsWay(k)' = {} /\ k \notin landed'
               /\ \A p \in Executing(k)' :
                    Executing(k)' = {p} /\ OnItsWay(k)' = {} /\ k \notin landed'
               /\ \A v \in OnItsWay(k)' : OnItsWay(k)' = {v} /\ k \notin landed'
    <3>1. CASE u \in OnItsWay(k)
      <4>1. OnItsWay(k) = {u} /\ OnItsWay(k)' = {}
        BY <2>3, <3>1 DEF Single
      <4>2. Executing(k) = {} /\ receipt[k].state # "absent"
        BY <3>1 DEF Single
      <4>. QED
        BY <2>1, <2>2, <4>1, <4>2
    <3>2. CASE u \notin OnItsWay(k)
      <4>1. u[1] # k /\ OnItsWay(k)' = OnItsWay(k)
        BY <2>3, <3>2 DEF OnItsWay
      <4>. QED
        BY <2>1, <2>2, <4>1 DEF Single
    <3>. QED
      BY <3>1, <3>2
  <2>. QED
    BY <2>4 DEF Single
<1>3. ASSUME NEW s \in Sessions, SignIn(s) PROVE Single'
  BY <1>3, QuietIsSingle DEF SignIn, Quiet, Executing, OnItsWay, identityVars
<1>4. ASSUME UNCHANGED vars PROVE Single'
  BY <1>4, QuietIsSingle
     DEF vars, Quiet, Executing, OnItsWay, identityVars, ledgerVars
<1>. QED
  BY <1>1, <1>2, <1>3, <1>4

LEMMA SingleStep ==
  ASSUME Typed, Single, [Next]_vars
  PROVE  Single'
  BY SingleChange, SingleReset, SingleOther DEF Next

LEMMA SingleInit ==
  ASSUME Init
  PROVE  Single
  BY DEF Init, Single, Executing, OnItsWay, NoRequest, NoReceipt

\* What is single counts one.
LEMMA SingleCounts ==
  ASSUME Single
  PROVE  OneUpdatePerKey
<1>1. ASSUME NEW k \in Keys
      PROVE  Cardinality(Executing(k)) + Cardinality(OnItsWay(k))
               + Cardinality({k} \cap landed) <= 1
  <2>1. \A e : Cardinality({e}) = 1
    BY FS_Singleton
  <2>2. Cardinality({}) = 0
    BY FS_EmptySet
  <2>3. Cardinality({k} \cap landed) = IF k \in landed THEN 1 ELSE 0
    <3>1. k \in landed => {k} \cap landed = {k}
      OBVIOUS
    <3>2. k \notin landed => {k} \cap landed = {}
      OBVIOUS
    <3>. QED
      BY <2>1, <2>2, <3>1, <3>2
  <2>4. CASE \E q : q \in Executing(k)
    <3>1. PICK q : Executing(k) = {q} /\ OnItsWay(k) = {} /\ k \notin landed
      BY <2>4 DEF Single
    <3>2. Cardinality(Executing(k)) = 1 /\ Cardinality(OnItsWay(k)) = 0
      BY <2>1, <2>2, <3>1
    <3>. QED
      BY <2>3, <3>1, <3>2
  <2>5. CASE Executing(k) = {} /\ \E u : u \in OnItsWay(k)
    <3>1. PICK u : OnItsWay(k) = {u} /\ k \notin landed
      BY <2>5 DEF Single
    <3>2. Cardinality(Executing(k)) = 0 /\ Cardinality(OnItsWay(k)) = 1
      BY <2>1, <2>2, <2>5, <3>1
    <3>. QED
      BY <2>3, <3>1, <3>2
  <2>6. CASE Executing(k) = {} /\ OnItsWay(k) = {}
    <3>1. Cardinality(Executing(k)) = 0 /\ Cardinality(OnItsWay(k)) = 0
      BY <2>2, <2>6
    <3>. QED
      BY <2>3, <3>1
  <2>. QED
    BY <2>4, <2>5, <2>6
<1>. QED
  BY <1>1 DEF OneUpdatePerKey, Executing, OnItsWay

(* A key writes to the identity service at most once, for any number of      *)
(* requests that retry it, however many of its claims have lapsed and        *)
(* whatever answers were lost.                                               *)
THEOREM OneUpdate == Spec => []OneUpdatePerKey
<1>1. Spec => [](Typed /\ Single)
  BY TypedInit, TypedStep, SingleInit, SingleStep, PTL DEF Spec
<1>2. Single => OneUpdatePerKey
  BY SingleCounts
<1>. QED
  BY <1>1, <1>2, PTL

-----------------------------------------------------------------------------
(* One command open. *)

\* Of the changes one is unresolved at a time, and of the resets one is prepared.
OneOpen ==
  /\ \A j, k \in Keys :
       receipt[j].state \in Unresolved /\ receipt[k].state \in Unresolved => j = k
  /\ \A p, r \in Prepared : p = r

\* A step that opens no command.
OpensNone ==
  /\ \A k \in Keys : receipt'[k].state \in Unresolved => receipt[k].state \in Unresolved
  /\ Prepared' \subseteq Prepared

LEMMA OpensNoneIsOne ==
  ASSUME OneOpen, OpensNone
  PROVE  OneOpen'
  BY DEF OneOpen, OpensNone

LEMMA OneOpenStep ==
  ASSUME Typed, OneOpen, [Next]_vars
  PROVE  OneOpen'
<1>1. ASSUME NEW q \in Requests, Prepare(q) PROVE OneOpen'
  <2>0. PICK k \in Keys : k = request[q].key
    BY <1>1 DEF Prepare, Typed, Known
  <2>1. Prepared' = Prepared
    BY <1>1 DEF Prepare, Prepared
  <2>2. \A j \in Keys \ {k} : receipt'[j] = receipt[j]
    BY <1>1, <2>0 DEF Prepare, Typed, TypeOK
  <2>3. \/ ~OthersUnresolved(k)
        \/ receipt[k].state \in Unresolved
        \/ UNCHANGED receipt
    BY <1>1, <2>0 DEF Prepare, Unresolved
  <2>. QED
    BY <2>1, <2>2, <2>3 DEF OneOpen, OthersUnresolved
<1>2. ASSUME NEW q \in Requests, Complete(q) PROVE OneOpen'
  <2>1. \A k \in Keys : receipt'[k] = receipt[k] \/ receipt'[k].state = "completed"
    BY <1>2 DEF Complete, Typed, TypeOK, Receipt
  <2>. QED
    BY <1>2, <2>1, OpensNoneIsOne DEF Complete, OpensNone, Prepared, Unresolved
<1>3. ASSUME NEW q \in Requests, FinishFailed(q) \/ FinishInconsistent(q) PROVE OneOpen'
  <2>1. \A k \in Keys : receipt'[k] = receipt[k] \/ receipt[k].state \in Unresolved
    BY <1>3 DEF FinishFailed, FinishInconsistent, Finish, Typed, TypeOK, Unresolved
  <2>. QED
    BY <1>3, <2>1, OpensNoneIsOne
       DEF FinishFailed, FinishInconsistent, Finish, OpensNone, Prepared
<1>4. ASSUME NEW k \in Keys, LeaseLapses(k) PROVE OneOpen'
  <2>1. \A j \in Keys : receipt'[j].state = receipt[j].state
    BY <1>4 DEF LeaseLapses, Typed, TypeOK, Receipt
  <2>. QED
    BY <1>4, <2>1, OpensNoneIsOne DEF LeaseLapses, OpensNone, Prepared
<1>5. ASSUME NEW x \in ResetRuns, PrepareReset(x) PROVE OneOpen'
  <2>0. PICK r \in Resets : r = reset[x].key
    BY <1>5 DEF PrepareReset, Typed, Known
  <2>1. Prepared' \subseteq {r}
    BY <1>5, <2>0 DEF PrepareReset, Prepared, Typed, TypeOK
  <2>2. \A k \in Keys : receipt'[k] = receipt[k] \/ receipt[k].state \in Unresolved
    BY <1>5 DEF PrepareReset, Unresolved
  <2>. QED
    BY <2>1, <2>2 DEF OneOpen
<1>6. ASSUME NEW x \in ResetRuns, Finalize(x) PROVE OneOpen'
  <2>0. PICK r \in Resets : r = reset[x].key
    BY <1>6 DEF Finalize, Typed, Known
  <2>1. Prepared' \subseteq Prepared
    BY <1>6, <2>0 DEF Finalize, Prepared, Typed, TypeOK
  <2>2. \A k \in Keys : receipt'[k] = receipt[k] \/ receipt'[k].state = "superseded"
    BY <1>6 DEF Finalize, Typed, TypeOK, Receipt
  <2>. QED
    BY <2>1, <2>2, OpensNoneIsOne DEF OpensNone, Unresolved
<1>7. CASE UNCHANGED <<receipt, marker>>
  BY <1>7, OpensNoneIsOne DEF OpensNone, Prepared
<1>8. ASSUME NEW q \in Requests, ChangeStep(q) PROVE OneOpen'
  BY <1>1, <1>2, <1>3, <1>7, <1>8
     DEF ChangeStep, Inspect, Identify, Execute, Compare, ReadVersion, TryPassword,
         ReadAgain, TryCurrent, RequestDies, ledgerVars
<1>9. ASSUME NEW x \in ResetRuns, ResetStep(x) PROVE OneOpen'
  BY <1>5, <1>6, <1>7, <1>9
     DEF ResetStep, Order, Look, UpdateTemporary, ReadResetVersion, TryTemporary,
         ReadResetAgain, ResetDies, ledgerVars
<1>. QED
  BY <1>4, <1>7, <1>8, <1>9 DEF Next, LandLate, SignIn, ledgerVars, vars

-----------------------------------------------------------------------------
(* What a landing tells. *)

\* An update that lands is a reset's or that of a key that has not landed before.
Landing(c, new) ==
  /\ Land(c, new)
  /\ \/ c \in Keys /\ new \in Own /\ c \notin landed
     \/ c \in Resets /\ new = Temporary

\* No other step touches the identity service.
LEMMA LandsOrRests ==
  ASSUME Typed, Single, [Next]_vars
  PROVE  UNCHANGED identityVars \/ \E c, new : Landing(c, new)
<1>1. ASSUME NEW q \in Requests, Execute(q)
      PROVE  UNCHANGED identityVars \/ \E c, new : Landing(c, new)
  <2>1. PICK k \in Keys, new \in Own : k = request[q].key /\ new = request[q].new
    BY <1>1 DEF Execute, Typed, Known
  <2>2. k \notin landed
    BY <1>1, <2>1 DEF Execute, Executing, Single
  <2>3. UNCHANGED identityVars \/ Land(k, new)
    BY <1>1, <2>1 DEF Execute, Update
  <2>. QED
    BY <2>2, <2>3 DEF Landing
<1>2. ASSUME NEW x \in ResetRuns, UpdateTemporary(x)
      PROVE  UNCHANGED identityVars \/ \E c, new : Landing(c, new)
  BY <1>2 DEF UpdateTemporary, Update, Landing, Typed, Known
<1>3. ASSUME NEW u \in late, LandLate(u)
      PROVE  \E c, new : Landing(c, new)
  <2>1. PICK c, new : u = <<c, new>> /\ Land(c, new)
                      /\ \/ c \in Keys /\ new \in Own
                         \/ c \in Resets /\ new = Temporary
    BY <1>3 DEF LandLate, Typed, Known
  <2>2. c \in Keys => c \notin landed
    BY <2>1 DEF OnItsWay, Single
  <2>. QED
    BY <2>1, <2>2 DEF Landing
<1>4. ASSUME NEW q \in Requests, ChangeStep(q), ~Execute(q) PROVE UNCHANGED identityVars
  BY <1>4 DEF ChangeStep, Inspect, Identify, Prepare, Compare, ReadVersion, TryPassword,
              ReadAgain, TryCurrent, Complete, FinishFailed, FinishInconsistent, Finish,
              RequestDies
<1>5. ASSUME NEW x \in ResetRuns, ResetStep(x), ~UpdateTemporary(x)
      PROVE  UNCHANGED identityVars
  BY <1>5 DEF ResetStep, Order, PrepareReset, Look, ReadResetVersion, TryTemporary,
              ReadResetAgain, Finalize, ResetDies
<1>. QED
  BY <1>1, <1>2, <1>3, <1>4, <1>5 DEF Next, LeaseLapses, SignIn, vars

\* Without strays the update's command is open, and the marker it is given is
\* its own, a random one, or, for a change, that of the reset that is prepared.
LEMMA LandsOpen ==
  ASSUME OneOpen, TypeOK, strays' = 0, NEW c, NEW new, Landing(c, new)
  PROVE  /\ password' = new /\ author' = c /\ landed' = landed \cup {c}
         /\ c \in Resets => c \in Prepared /\ version' \in {c, Random}
         /\ c \in Keys => version' \in Prepared \cup {c, Random}
<1>1. c \in Prepared \cup Pending
  BY StraysAreBounded DEF TypeOK, Landing, Land
<1>2. /\ password' = new /\ author' = c /\ version' = Bound /\ landed' = landed \cup {c}
  BY DEF Landing, Land
<1>3. \A j, k \in Pending : j = k
  BY DEF OneOpen, Pending, Unresolved
<1>4. c \in Resets => c \in Prepared
  BY <1>1, NamesAreApart DEF Pending
<1>5. c \in Keys => c \in Pending
  BY <1>1, NamesAreApart DEF Prepared
<1>. QED
  BY <1>2, <1>3, <1>4, <1>5, BoundIsOpen DEF OneOpen

\* What the version tells of the password's author, and the password of it.
Genuine ==
  /\ author # Nobody => author \in landed
  /\ password = Temporary => author \in Resets \cup {Nobody}
  /\ version \in Resets => author # Nobody /\ (author \in Resets => author = version)
  /\ version \in Keys => author = version

LEMMA GenuineStep ==
  ASSUME Typed, Single, OneOpen, Genuine, strays' = 0, [Next]_vars
  PROVE  Genuine'
<1>1. CASE UNCHANGED identityVars
  BY <1>1 DEF Genuine, identityVars
<1>2. ASSUME NEW c, NEW new, Landing(c, new) PROVE Genuine'
  <2>1. /\ password' = new /\ author' = c /\ landed' = landed \cup {c}
        /\ c \in Resets => c \in Prepared /\ version' \in {c, Random}
        /\ c \in Keys => version' \in Prepared \cup {c, Random}
    BY <1>2, LandsOpen DEF Typed
  <2>2. \/ c \in Keys /\ new # Temporary /\ c \notin Resets /\ c # Nobody
        \/ c \in Resets /\ c \notin Keys /\ c # Nobody
    BY <1>2, NamesAreApart DEF Landing
  <2>3. Random \notin Keys \cup Resets /\ Prepared \cap Keys = {}
    BY NamesAreApart DEF Prepared
  <2>. QED
    BY <2>1, <2>2, <2>3 DEF Genuine
<1>. QED
  BY <1>1, <1>2, LandsOrRests

-----------------------------------------------------------------------------
(* What a request and a reset have seen. *)

\* A request past the update knows that it landed, and that the password is
\* the one it set for as long as no other command sets another.
Seen(q) ==
  LET k == request[q].key
  IN /\ request[q].at \in {"compare", "tryPassword", "readAgain", "complete"} => k \in landed
     /\ request[q].at \in {"compare", "readAgain", "complete"} /\ author = k =>
          password = request[q].new

\* A reset that has read its marker knows that no other reset has landed since
\* unless it is completed; once it has tried the password it has landed itself.
SeenReset(x) ==
  LET r == reset[x].key
  IN /\ reset[x].at \notin {"idle", "prepare"} => marker[r] \in {"prepared", "completed"}
     /\ reset[x].at = "tryPassword" =>
          \/ marker[r] = "completed"
          \/ author # Nobody /\ (author \in Resets => author = r)
     /\ reset[x].at \in {"readAgain", "finalize"} => r \in landed

\* The invariant: what holds until a stray lands.
Witnessed ==
  /\ Typed /\ Single /\ OneOpen /\ Genuine
  /\ \A q \in Requests : Seen(q)
  /\ \A x \in ResetRuns : SeenReset(x)
  /\ ResetIsReal

\* What a request has seen stays true while it stays where it is.
LEMMA SeenStays ==
  ASSUME Witnessed, strays' = 0, [Next]_vars, NEW q \in Requests, UNCHANGED request[q]
  PROVE  Seen(q)'
<1>1. CASE UNCHANGED identityVars
  BY <1>1 DEF Seen, identityVars, Witnessed
<1>2. ASSUME NEW c, NEW new, Landing(c, new) PROVE Seen(q)'
  <2>1. landed' = landed \cup {c} /\ author' = c
    BY <1>2 DEF Landing, Land
  <2>2. request[q].at \in {"compare", "tryPassword", "readAgain", "complete"} =>
          request[q].key \in Keys /\ request[q].key \in landed
    BY DEF Witnessed, Typed, Known, Seen
  <2>3. request[q].key \in Keys /\ request[q].key \in landed => request[q].key # c
    BY <1>2, NamesAreApart DEF Landing
  <2>. QED
    BY <2>1, <2>2, <2>3 DEF Seen
<1>. QED
  BY <1>1, <1>2, LandsOrRests DEF Witnessed

LEMMA SeenStep ==
  ASSUME Witnessed, strays' = 0, [Next]_vars, NEW q \in Requests
  PROVE  Seen(q)'
<1>. USE DEF Witnessed
<1>1. CASE UNCHANGED request[q]
  BY <1>1, SeenStays
<1>2. ASSUME ChangeStep(q) PROVE Seen(q)'
  <2>0. /\ request \in [Requests -> Request]
        /\ version \in Keys => author = version /\ author \in landed
    BY NamesAreApart DEF Typed, TypeOK, Genuine
  <2>1. CASE request'[q].at \notin {"compare", "tryPassword", "readAgain", "complete"}
    BY <2>1 DEF Seen
  <2>2. CASE Execute(q)
    <3>1. PICK k \in Keys, new \in Own : k = request[q].key /\ new = request[q].new
      BY <2>2 DEF Execute, Typed, Known
    <3>2. PICK answered \in BOOLEAN :
            /\ Update(k, new, answered)
            /\ IF answered THEN Go(q, "compare") ELSE Verify(q, "lostAnswer")
      BY <2>2, <3>1 DEF Execute
    <3>3. CASE answered
      <4>1. /\ request'[q].at = "compare" /\ request'[q].key = k /\ request'[q].new = new
        BY <2>0, <3>1, <3>2, <3>3 DEF Go, Request
      <4>2. k \in landed' /\ password' = new
        BY <3>2, <3>3 DEF Update, Land
      <4>. QED
        BY <4>1, <4>2 DEF Seen
    <3>4. CASE ~answered
      BY <2>0, <2>1, <3>2, <3>4 DEF Verify, Request, Seen
    <3>. QED
      BY <3>3, <3>4
  <2>3. ASSUME NEW at, Go(q, at), at \in {"tryPassword", "readAgain", "complete"},
               UNCHANGED identityVars, request[q].key \in landed,
               at \in {"readAgain", "complete"} /\ author = request[q].key =>
                 password = request[q].new
        PROVE  Seen(q)'
    <3>1. /\ request'[q].at = at /\ request'[q].key = request[q].key
          /\ request'[q].new = request[q].new
      BY <2>0, <2>3 DEF Go, Request
    <3>. QED
      BY <2>3, <3>1 DEF Seen, identityVars
  <2>4. CASE Compare(q)
    <3>1. request[q].key \in landed
          /\ (author = request[q].key => password = request[q].new)
      BY <2>4 DEF Compare, Seen
    <3>. QED
      BY <2>0, <2>1, <2>3, <2>4, <3>1 DEF Compare, Go, Request
  <2>5. CASE ReadVersion(q)
    <3>1. request[q].key \in Keys
      BY <2>5 DEF ReadVersion, Typed, Known
    <3>2. CASE version = request[q].key
      BY <2>0, <2>3, <2>5, <3>1, <3>2 DEF ReadVersion
    <3>3. CASE version # request[q].key
      BY <2>0, <2>1, <2>5, <3>3 DEF ReadVersion, NotTheEffect, Go, Request, NoRequest
    <3>. QED
      BY <3>2, <3>3
  <2>6. CASE TryPassword(q)
    <3>1. request[q].key \in landed
      BY <2>6 DEF TryPassword, Seen
    <3>2. CASE NewPasswordWorks(q)
      BY <2>3, <2>6, <3>1, <3>2 DEF TryPassword, NewPasswordWorks
    <3>3. CASE ~NewPasswordWorks(q)
      BY <2>0, <2>1, <2>6, <3>3 DEF TryPassword, NotTheEffect, Go, Request, NoRequest
    <3>. QED
      BY <3>2, <3>3
  <2>7. CASE ReadAgain(q)
    <3>1. request[q].key \in landed
          /\ (author = request[q].key => password = request[q].new)
      BY <2>7 DEF ReadAgain, Seen
    <3>2. CASE Go(q, "complete")
      BY <2>3, <2>7, <3>1, <3>2 DEF ReadAgain
    <3>3. CASE ~Go(q, "complete")
      BY <2>0, <2>1, <2>7, <3>3 DEF ReadAgain, NotTheEffect, Go, Request, NoRequest
    <3>. QED
      BY <3>2, <3>3
  <2>8. CASE TryCurrent(q)
    BY <2>0, <2>1, <2>8 DEF TryCurrent, Go, Request
  <2>9. CASE Prepare(q)
    BY <2>0, <2>1, <2>9 DEF Prepare, Recover, Verify, Go, Request
  <2>10. CASE \E k \in Keys, s \in Sessions, new \in Own : Inspect(q, k, s, new)
    <3>1. request'[q].at \in {"identify", "readVersion", "prepare"}
      BY <2>0, <2>10, ZenonT(30) DEF Inspect, Request, NoRequest
    <3>. QED
      BY <2>1, <3>1
  <2>12. CASE Identify(q) \/ RequestDies(q)
    BY <2>0, <2>1, <2>12 DEF Identify, RequestDies, Request, NoRequest
  <2>11. CASE Complete(q) \/ FinishFailed(q) \/ FinishInconsistent(q)
    BY <2>0, <2>1, <2>11
       DEF Complete, FinishFailed, FinishInconsistent, Finish, Go, NoRequest
  <2>. QED
    BY <1>2, <2>2, <2>4, <2>5, <2>6, <2>7, <2>8, <2>9, <2>10, <2>11, <2>12
       DEF ChangeStep
<1>3. \/ UNCHANGED request[q]
      \/ ChangeStep(q)
  <2>1. ASSUME NEW p \in Requests, p # q, ChangeStep(p) PROVE UNCHANGED request[q]
    BY <2>1 DEF ChangeStep, Inspect, Identify, Prepare, Recover, Execute, Compare,
           ReadVersion, TryPassword, ReadAgain, TryCurrent, Complete, FinishFailed,
           FinishInconsistent, Finish, RequestDies, Go, Verify, Typed, TypeOK
  <2>2. ASSUME NEW x \in ResetRuns, ResetStep(x) PROVE UNCHANGED request
    BY <2>2 DEF ResetStep, Order, PrepareReset, Look, UpdateTemporary, ReadResetVersion,
           TryTemporary, ReadResetAgain, Finalize, ResetDies
  <2>. QED
    BY <2>1, <2>2 DEF Next, LeaseLapses, LandLate, SignIn, vars
<1>. QED
  BY <1>1, <1>2, <1>3

\* What a reset has seen stays true while it stays where it is: no reset
\* lands but the one that is prepared.
LEMMA SeenResetStays ==
  ASSUME Witnessed, strays' = 0, [Next]_vars, NEW x \in ResetRuns, UNCHANGED reset[x]
  PROVE  SeenReset(x)'
<1>. USE DEF Witnessed
<1>1. \A r \in Resets :
        marker'[r] = marker[r] \/ marker'[r] = "completed"
          \/ (marker[r] # "completed" /\ marker'[r] = "prepared")
  <2>1. ASSUME NEW y \in ResetRuns, ResetStep(y)
        PROVE  UNCHANGED marker \/ \E r \in Resets :
                 \/ marker' = [marker EXCEPT ![r] = "completed"]
                 \/ marker[r] # "completed" /\ marker' = [marker EXCEPT ![r] = "prepared"]
    BY <2>1 DEF ResetStep, Order, PrepareReset, Look, UpdateTemporary, ReadResetVersion,
           TryTemporary, ReadResetAgain, Finalize, ResetDies, ledgerVars, Typed, Known
  <2>2. ASSUME NEW q \in Requests, ChangeStep(q) PROVE UNCHANGED marker
    BY <2>2 DEF ChangeStep, Inspect, Identify, Prepare, Execute, Compare, ReadVersion,
           TryPassword, ReadAgain, TryCurrent, Complete, FinishFailed, FinishInconsistent,
           Finish, RequestDies, ledgerVars
  <2>3. UNCHANGED marker \/ \E r \in Resets :
          \/ marker' = [marker EXCEPT ![r] = "completed"]
          \/ marker[r] # "completed" /\ marker' = [marker EXCEPT ![r] = "prepared"]
    BY <2>1, <2>2 DEF Next, LeaseLapses, LandLate, SignIn, vars, ledgerVars
  <2>. QED
    BY <2>3 DEF Typed, TypeOK
<1>2. reset[x].at # "idle" => reset[x].key \in Resets
  BY DEF Typed, Known
<1>3. CASE UNCHANGED identityVars
  BY <1>1, <1>2, <1>3 DEF SeenReset, identityVars
<1>4. ASSUME NEW c, NEW new, Landing(c, new) PROVE SeenReset(x)'
  <2>1. /\ landed' = landed \cup {c} /\ author' = c
        /\ c \in Resets => c \in Prepared
        /\ c # Nobody
    BY <1>4, LandsOpen, NamesAreApart DEF Typed, Landing
  <2>2. reset[x].at = "tryPassword" =>
          \/ marker'[reset[x].key] = "completed"
          \/ author' # Nobody /\ (author' \in Resets => author' = reset[x].key)
    <3>1. SUFFICES ASSUME reset[x].at = "tryPassword",
                          marker'[reset[x].key] # "completed"
                   PROVE  author' # Nobody /\ (author' \in Resets => author' = reset[x].key)
      OBVIOUS
    <3>2. marker[reset[x].key] = "prepared"
      BY <1>1, <1>2, <3>1 DEF SeenReset
    <3>3. reset[x].key \in Prepared
      BY <1>2, <3>1, <3>2 DEF Prepared
    <3>. QED
      BY <2>1, <3>3 DEF OneOpen
  <2>. QED
    BY <1>1, <1>2, <2>1, <2>2 DEF SeenReset
<1>. QED
  BY <1>3, <1>4, LandsOrRests

LEMMA SeenResetStep ==
  ASSUME Witnessed, strays' = 0, [Next]_vars, NEW x \in ResetRuns
  PROVE  SeenReset(x)'
<1>. USE DEF Witnessed
<1>1. CASE UNCHANGED reset[x]
  BY <1>1, SeenResetStays
<1>2. ASSUME ResetStep(x) PROVE SeenReset(x)'
  <2>0. reset \in [ResetRuns -> ResetRun] /\ marker \in [Resets -> {"absent", "prepared", "completed"}]
    BY DEF Typed, TypeOK
  <2>1. CASE \E r \in Resets : Order(x, r)
    BY <2>0, <2>1 DEF Order, SeenReset
  <2>2. CASE reset'[x].at = "idle"
    BY <2>2 DEF SeenReset
  <2>3. CASE PrepareReset(x)
    <3>1. PICK r \in Resets : r = reset[x].key
      BY <2>3 DEF PrepareReset, Typed, Known
    <3>2. reset'[x].at = "look" /\ reset'[x].key = r /\ marker'[r] = "prepared"
      BY <2>0, <2>3, <3>1 DEF PrepareReset, GoReset, ResetRun
    <3>. QED
      BY <3>2 DEF SeenReset
  <2>4. CASE UpdateTemporary(x)
    <3>1. /\ reset'[x].at = "readVersion" /\ reset'[x].key = reset[x].key
          /\ UNCHANGED marker /\ reset[x].at = "update"
      BY <2>0, <2>4 DEF UpdateTemporary, GoReset, ResetRun, ledgerVars
    <3>. QED
      BY <3>1 DEF SeenReset
  <2>5. ASSUME NEW at \in {"readVersion", "update", "tryPassword", "readAgain", "finalize"},
               GoReset(x, at), reset[x].at \notin {"idle", "prepare"},
               UNCHANGED <<identityVars, marker>>,
               at = "tryPassword" =>
                 author # Nobody /\ (author \in Resets => author = reset[x].key),
               at \in {"readAgain", "finalize"} => reset[x].key \in landed
        PROVE  SeenReset(x)'
    <3>1. reset'[x].at = at /\ reset'[x].key = reset[x].key
      BY <2>0, <2>5 DEF GoReset, ResetRun
    <3>. QED
      BY <2>5, <3>1 DEF SeenReset, identityVars
  <2>6. CASE Look(x)
    BY <2>5, <2>6 DEF Look, ledgerVars
  <2>7. CASE ReadResetVersion(x)
    <3>1. reset[x].key \in Resets
      BY <2>7 DEF ReadResetVersion, Typed, Known
    <3>2. CASE version = reset[x].key
      <4>1. author # Nobody /\ (author \in Resets => author = reset[x].key)
        BY <3>1, <3>2 DEF Genuine
      <4>. QED
        BY <2>5, <2>7, <3>2, <4>1 DEF ReadResetVersion, ledgerVars
    <3>3. CASE version # reset[x].key
      BY <2>0, <2>2, <2>7, <3>3 DEF ReadResetVersion, GoReset, NoReset
    <3>. QED
      BY <3>2, <3>3
  <2>8. CASE TryTemporary(x)
    <3>1. reset[x].key \in Resets
      BY <2>8 DEF TryTemporary, Typed, Known
    <3>2. CASE password = Temporary
      <4>1. CASE marker[reset[x].key] = "completed"
        BY <2>5, <2>8, <3>1, <3>2, <4>1
           DEF ResetIsReal, TryTemporary, TemporaryWorks, ledgerVars
      <4>2. CASE author # Nobody /\ (author \in Resets => author = reset[x].key)
        <5>1. reset[x].key \in landed
          BY <3>2, <4>2 DEF Genuine
        <5>. QED
          BY <2>5, <2>8, <3>2, <5>1 DEF TryTemporary, TemporaryWorks, ledgerVars
      <4>. QED
        BY <2>8, <4>1, <4>2 DEF TryTemporary, SeenReset
    <3>3. CASE password # Temporary
      BY <2>0, <2>2, <2>8, <3>3 DEF TryTemporary, TemporaryWorks, GoReset, NoReset
    <3>. QED
      BY <3>2, <3>3
  <2>9. CASE ReadResetAgain(x)
    <3>1. reset[x].key \in landed
      BY <2>9 DEF ReadResetAgain, SeenReset
    <3>2. CASE version = reset[x].key
      BY <2>5, <2>9, <3>1, <3>2 DEF ReadResetAgain, ledgerVars
    <3>3. CASE version # reset[x].key
      BY <2>0, <2>2, <2>9, <3>3 DEF ReadResetAgain, GoReset, NoReset
    <3>. QED
      BY <3>2, <3>3
  <2>10. CASE Finalize(x) \/ ResetDies(x)
    BY <2>0, <2>2, <2>10 DEF Finalize, ResetDies, GoReset, NoReset
  <2>. QED
    BY <1>2, <2>1, <2>3, <2>4, <2>6, <2>7, <2>8, <2>9, <2>10 DEF ResetStep
<1>3. UNCHANGED reset[x] \/ ResetStep(x)
  <2>1. ASSUME NEW y \in ResetRuns, y # x, ResetStep(y) PROVE UNCHANGED reset[x]
    BY <2>1 DEF ResetStep, Order, PrepareReset, Look, UpdateTemporary, ReadResetVersion,
           TryTemporary, ReadResetAgain, Finalize, ResetDies, GoReset, Typed, TypeOK
  <2>2. ASSUME NEW q \in Requests, ChangeStep(q) PROVE UNCHANGED reset
    BY <2>2 DEF ChangeStep, Inspect, Identify, Prepare, Execute, Compare, ReadVersion,
           TryPassword, ReadAgain, TryCurrent, Complete, FinishFailed, FinishInconsistent,
           Finish, RequestDies
  <2>. QED
    BY <2>1, <2>2 DEF Next, LeaseLapses, LandLate, SignIn, vars
<1>. QED
  BY <1>1, <1>2, <1>3

LEMMA ResetIsRealStep ==
  ASSUME Witnessed, strays' = 0, [Next]_vars
  PROVE  ResetIsReal'
<1>. USE DEF Witnessed
<1>1. landed \subseteq landed'
  BY LandsOrRests DEF identityVars, Landing, Land
<1>2. ASSUME NEW x \in ResetRuns, Finalize(x) PROVE ResetIsReal'
  <2>1. reset[x].key \in Resets /\ reset[x].key \in landed
    BY <1>2 DEF Finalize, SeenReset, Typed, Known
  <2>2. marker' = [marker EXCEPT ![reset[x].key] = "completed"]
    BY <1>2 DEF Finalize
  <2>. QED
    BY <1>1, <2>1, <2>2 DEF ResetIsReal, Typed, TypeOK
<1>3. ASSUME NEW x \in ResetRuns, PrepareReset(x) PROVE ResetIsReal'
  BY <1>1, <1>3 DEF PrepareReset, ResetIsReal, Typed, TypeOK
<1>4. CASE UNCHANGED marker
  BY <1>1, <1>4 DEF ResetIsReal
<1>5. ASSUME NEW q \in Requests, ChangeStep(q) PROVE UNCHANGED marker
  BY <1>5 DEF ChangeStep, Inspect, Identify, Prepare, Execute, Compare, ReadVersion,
         TryPassword, ReadAgain, TryCurrent, Complete, FinishFailed, FinishInconsistent,
         Finish, RequestDies, ledgerVars
<1>6. ASSUME NEW x \in ResetRuns, ResetStep(x), ~Finalize(x), ~PrepareReset(x)
      PROVE  UNCHANGED marker
  BY <1>6 DEF ResetStep, Order, Look, UpdateTemporary, ReadResetVersion, TryTemporary,
         ReadResetAgain, ResetDies, ledgerVars
<1>. QED
  BY <1>2, <1>3, <1>4, <1>5, <1>6 DEF Next, LeaseLapses, LandLate, SignIn, vars, ledgerVars

-----------------------------------------------------------------------------
(* Theorems without strays. *)

LEMMA WitnessedStep ==
  ASSUME Witnessed, strays' = 0, [Next]_vars
  PROVE  Witnessed'
<1>1. Typed' /\ Single' /\ OneOpen'
  BY TypedStep, SingleStep, OneOpenStep DEF Witnessed
<1>2. Genuine' /\ ResetIsReal'
  BY GenuineStep, ResetIsRealStep DEF Witnessed
<1>3. \A q \in Requests : Seen(q)'
  BY SeenStep
<1>4. \A x \in ResetRuns : SeenReset(x)'
  BY SeenResetStep
<1>. QED
  BY <1>1, <1>2, <1>3, <1>4 DEF Witnessed

LEMMA WitnessedInit ==
  ASSUME Init
  PROVE  Witnessed
<1>1. OneOpen /\ Genuine /\ ResetIsReal
  BY NamesAreApart
     DEF Init, OneOpen, Prepared, Unresolved, NoReceipt, Genuine, ResetIsReal
<1>2. \A q \in Requests : Seen(q)
  BY DEF Init, Seen, NoRequest
<1>3. \A x \in ResetRuns : SeenReset(x)
  BY DEF Init, SeenReset, NoReset
<1>. QED
  BY <1>1, <1>2, <1>3, TypedInit, SingleInit DEF Witnessed

\* A stray is never forgotten, so the invariant need only survive the others.
LEMMA StraysOnlyGrow ==
  ASSUME Typed, Single, [Next]_vars, strays' = 0
  PROVE  strays = 0
  BY LandsOrRests, StraysAreBounded DEF Landing, Land, identityVars, Typed, TypeOK

LEMMA WitnessedUntilStray == Spec => [](strays = 0 => Witnessed)
<1>. DEFINE Inv == Typed /\ Single /\ (strays = 0 => Witnessed)
<1>1. Init => Inv
  BY WitnessedInit DEF Witnessed
<1>2. ASSUME Inv, [Next]_vars PROVE Inv'
  BY <1>2, TypedStep, SingleStep, StraysOnlyGrow, WitnessedStep
<1>3. Inv => (strays = 0 => Witnessed)
  OBVIOUS
<1>. QED
  BY <1>1, <1>2, <1>3, PTL DEF Spec

LEMMA AlwaysWitnessed ==
  ASSUME MaxStray = 0
  PROVE  Spec => []Witnessed
<1>1. Spec => []Typed
  BY TypedInit, TypedStep, PTL DEF Spec
<1>2. Typed => strays = 0
  BY DEF Typed, TypeOK
<1>. QED
  BY <1>1, <1>2, WitnessedUntilStray, PTL

(* A reset is recorded as completed only after its temporary password was     *)
(* set, for any number of resets, runs and changes that race it: the marker   *)
(* alone does not tell, since it may have been given to a change that landed  *)
(* while the reset was prepared, but no change can set the temporary          *)
(* password, and no other reset can be prepared meanwhile.                    *)
THEOREM ResetsAreReal == Spec => [](strays = 0 => ResetIsReal)
<1>1. Witnessed => ResetIsReal
  BY DEF Witnessed
<1>. QED
  BY <1>1, WitnessedUntilStray, PTL

\* Who is told that the password was changed, and on what evidence.
LEMMA AnswerStep ==
  ASSUME Witnessed, [Next]_vars, NEW q \in Requests,
         request[q].at # "changed", request'[q].at = "changed"
  PROVE  \/ password = request[q].new
         \/ receipt[request[q].key].state = "completed" /\ author # request[q].key
<1>. USE DEF Witnessed
<1>0. request \in [Requests -> Request]
  BY DEF Typed, TypeOK
<1>1. ChangeStep(q)
  <2>1. ASSUME NEW p \in Requests, p # q, ChangeStep(p) PROVE UNCHANGED request[q]
    BY <1>0, <2>1 DEF ChangeStep, Inspect, Identify, Prepare, Recover, Execute, Compare,
           ReadVersion, TryPassword, ReadAgain, TryCurrent, Complete, FinishFailed,
           FinishInconsistent, Finish, RequestDies, Go, Verify
  <2>2. ASSUME NEW x \in ResetRuns, ResetStep(x) PROVE UNCHANGED request
    BY <2>2 DEF ResetStep, Order, PrepareReset, Look, UpdateTemporary, ReadResetVersion,
           TryTemporary, ReadResetAgain, Finalize, ResetDies
  <2>. QED
    BY <2>1, <2>2 DEF Next, LeaseLapses, LandLate, SignIn, vars
<1>2. Complete(q) \/ ReadAgain(q)
  <2>1. ASSUME NEW k \in Keys, NEW s \in Sessions, NEW new \in Own, Inspect(q, k, s, new)
        PROVE  request'[q].at # "changed"
    <3>1. request'[q].at \in {"identify", "readVersion", "prepare"}
      BY <1>0, <2>1 DEF Inspect, Request, NoRequest
    <3>. QED
      BY <3>1
  <2>2. ASSUME Identify(q) \/ RequestDies(q) PROVE request'[q].at # "changed"
    BY <1>0, <2>2 DEF Identify, RequestDies, Request, NoRequest
  <2>3. ASSUME Prepare(q) \/ Execute(q) PROVE request'[q].at # "changed"
    BY <1>0, <2>3 DEF Prepare, Recover, Execute, Verify, Go, Request
  <2>4. ASSUME Compare(q) \/ ReadVersion(q) \/ TryPassword(q) \/ TryCurrent(q)
        PROVE  request'[q].at # "changed"
    BY <1>0, <2>4
       DEF Compare, ReadVersion, TryPassword, TryCurrent, NotTheEffect, Go, Request, NoRequest
  <2>5. ASSUME FinishFailed(q) \/ FinishInconsistent(q) PROVE request'[q].at # "changed"
    BY <1>0, <2>5 DEF FinishFailed, FinishInconsistent, Finish, Go, NoRequest
  <2>. QED
    BY <1>1, <2>1, <2>2, <2>3, <2>4, <2>5 DEF ChangeStep
<1>3. CASE ReadAgain(q)
  <2>1. version = request[q].key
    BY <1>0, <1>3 DEF ReadAgain, NotTheEffect, Go, Request, NoRequest
  <2>2. request[q].key \in Keys
    BY <1>3 DEF ReadAgain, Typed, Known
  <2>3. author = request[q].key
    BY <2>1, <2>2 DEF Genuine
  <2>. QED
    BY <1>3, <2>3 DEF ReadAgain, Seen
<1>4. CASE Complete(q)
  <2>1. /\ author = request[q].key => password = request[q].new
        /\ request[q].key \in Keys
    BY <1>4 DEF Complete, Seen, Typed, Known
  <2>2. receipt[request[q].key].state = "completed" \/ EffectStands(request[q].key)
    BY <1>4 DEF Complete
  <2>. QED
    BY <2>1, <2>2 DEF EffectStands, Genuine
<1>. QED
  BY <1>2, <1>3, <1>4

(* Whoever is told that the password was changed can sign in with the         *)
(* password of that request, whether it was the first one, a recovery after a *)
(* lost answer or a replay, unless the command had been completed before and  *)
(* another command has replaced the password since.                           *)
THEOREM AnswersAreTrue ==
  ASSUME MaxStray = 0
  PROVE  Spec => AnswerIsTrue
<1>1. Spec => []Witnessed
  BY AlwaysWitnessed
<1>2. Witnessed /\ [Next]_vars =>
        [\A q \in Requests :
           LET k == request[q].key
           IN  request[q].at # "changed" /\ request'[q].at = "changed" =>
                 password = request[q].new \/ (receipt[k].state = "completed" /\ author # k)]_vars
  BY AnswerStep
<1>. QED
  BY <1>1, <1>2, PTL DEF Spec, AnswerIsTrue

(* A reset that raced a change never lets it complete: without strays the     *)
(* gate that makes an account choose its own password does not open on a      *)
(* password a reset has set.                                                  *)
THEOREM NoFalseCompletion ==
  ASSUME MaxStray = 0
  PROVE  Spec => NeverFalselyCompleted
<1>1. Spec => []Witnessed
  BY AlwaysWitnessed
<1>2. ASSUME Witnessed, [Next]_vars, NEW k \in Keys,
             receipt[k].state # "completed", receipt'[k].state = "completed"
      PROVE  author \notin Resets
  <2>0. Typed /\ Genuine /\ receipt \in [Keys -> Receipt]
    BY <1>2 DEF Witnessed, Typed, TypeOK
  <2>1. ASSUME NEW q \in Requests, ChangeStep(q), ~Complete(q) PROVE FALSE
    BY <1>2, <2>0, <2>1, ZenonT(30)
       DEF ChangeStep, Inspect, Identify, Prepare, Execute, Compare, ReadVersion,
           TryPassword, ReadAgain, TryCurrent, FinishFailed, FinishInconsistent, Finish,
           RequestDies, ledgerVars, Receipt
  <2>2. ASSUME NEW x \in ResetRuns, ResetStep(x) PROVE FALSE
    <3>1. ~PrepareReset(x)
      <4>1. \A r : TakenOver(receipt[k], r).state = "reset_pending"
        BY <2>0, <1>2 DEF TakenOver, Receipt
      <4>. QED
        BY <1>2, <4>1 DEF PrepareReset
    <3>2. ~Finalize(x)
      BY <1>2, <2>0 DEF Finalize, Receipt
    <3>3. UNCHANGED receipt
      BY <2>2, <3>1, <3>2
         DEF ResetStep, Order, Look, UpdateTemporary, ReadResetVersion, TryTemporary,
             ReadResetAgain, ResetDies, ledgerVars
    <3>. QED
      BY <1>2, <3>3
  <2>3. ASSUME ~\E q \in Requests : Complete(q), ~\E x \in ResetRuns : ResetStep(x) PROVE FALSE
    BY <1>2, <2>0, <2>1, <2>3 DEF Next, LeaseLapses, LandLate, SignIn, vars, ledgerVars, Receipt
  <2>4. PICK q \in Requests : Complete(q)
    BY <2>2, <2>3
  <2>5. k = request[q].key /\ version = k
    BY <1>2, <2>0, <2>4 DEF Complete, EffectStands
  <2>. QED
    BY <2>0, <2>5, NamesAreApart DEF Genuine
<1>3. Witnessed /\ [Next]_vars =>
        [\A k \in Keys :
           receipt[k].state # "completed" /\ receipt'[k].state = "completed" =>
             author \notin Resets]_vars
  BY <1>2
<1>. QED
  BY <1>1, <1>3, PTL DEF Spec, NeverFalselyCompleted
=============================================================================
