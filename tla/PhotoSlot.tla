----------------------------- MODULE PhotoSlot -----------------------------
(***************************************************************************)
(* What the photo storage operations promise for one slot of a cleaning    *)
(* attempt, whatever fails on the way: one upload is open at a time, a     *)
(* photo is accepted only with its file in the drive, an accepted photo    *)
(* keeps its file, and an upload that is given up leaves no file behind.   *)
(* PhotoUpload implements this specification.                              *)
(***************************************************************************)
EXTENDS Naturals

CONSTANT Keys            \* uploads ever asked for, by idempotency key

VARIABLES
  phase,                 \* what became of each upload
  file,                  \* the drive object of each upload
  photos                 \* photos the slot has accepted: its revision

vars == <<phase, file, photos>>

Underway == {"open", "withdrawn"}

Init ==
  /\ phase = [k \in Keys |-> "unknown"]
  /\ file = [k \in Keys |-> "none"]
  /\ photos = 0

Open(k) ==
  /\ phase[k] = "unknown"
  /\ \A j \in Keys : phase[j] \notin Underway
  /\ phase' = [phase EXCEPT ![k] = "open"]
  /\ UNCHANGED <<file, photos>>

\* The file may appear long after its upload was asked for.
Store(k) ==
  /\ phase[k] \in Underway
  /\ file[k] = "none"
  /\ file' = [file EXCEPT ![k] = "stored"]
  /\ UNCHANGED <<phase, photos>>

Accept(k) ==
  /\ phase[k] = "open"
  /\ file[k] = "stored"
  /\ phase' = [phase EXCEPT ![k] = "accepted"]
  /\ photos' = photos + 1
  /\ UNCHANGED file

\* From here on the upload can no longer be accepted.
Withdraw(k) ==
  /\ phase[k] = "open"
  /\ phase' = [phase EXCEPT ![k] = "withdrawn"]
  /\ UNCHANGED <<file, photos>>

Erase(k) ==
  /\ phase[k] = "withdrawn"
  /\ file[k] = "stored"
  /\ file' = [file EXCEPT ![k] = "erased"]
  /\ UNCHANGED <<phase, photos>>

Discard(k) ==
  /\ \/ phase[k] = "withdrawn" /\ file[k] = "erased"
     \/ phase[k] = "open" /\ file[k] = "none"
  /\ phase' = [phase EXCEPT ![k] = "discarded"]
  /\ UNCHANGED <<file, photos>>

Next == \E k \in Keys :
  \/ Open(k) \/ Store(k) \/ Accept(k) \/ Withdraw(k) \/ Erase(k) \/ Discard(k)

Spec == Init /\ [][Next]_vars
=============================================================================
