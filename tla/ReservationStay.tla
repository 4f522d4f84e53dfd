-------------------------- MODULE ReservationStay --------------------------
(* Reservations, their stays and the rooms they occupy: creation, change,    *)
(* cancellation, room moves before check-in and during the stay, manual       *)
(* checkout, the scheduler tick, the administrator's corrections of a room's  *)
(* occupancy, the checkout work each stay owes and the proofs of preparation  *)
(* that approved work gives to the next arrival.                              *)
(* Every command runs under the advisory lock `reservation-command`, so each  *)
(* is one step.  What can go wrong is a long sequence of legal commands.      *)
(*                                                                            *)
(* Schedule instants are even numbers and the server's clock is odd: a        *)
(* command never runs in the same microsecond as a scheduled instant.         *)
EXTENDS Integers, SequencesExt

CONSTANTS
  Reservations,   \* ids a reservation may be created under
  LongStays,      \* those created as long stays, whose end may be left open
  Rooms,
  Horizon,        \* bound: the last instant of the schedule
  Plans,          \* bound: per reservation, the <<in, out>> asked for
  Corrections,    \* bound: how often the occupancy of one stay is corrected
  Effective       \* bound: the instants a correction takes effect at

ASSUME StaysAreReservations == LongStays \subseteq Reservations
ASSUME HorizonIsEven == Horizon \in Nat /\ Horizon >= 4 /\ Horizon % 2 = 0
ASSUME CorrectionsAreBounded == Corrections \in Nat /\ Effective \subseteq 0..(Horizon + 1)

ASSUME PlansAreInTheHorizon ==
  Plans \in [Reservations -> SUBSET {p \in (2..Horizon) \X (2..(Horizon + 2)) :
                                      p[1] % 2 = 0 /\ p[2] % 2 = 0 /\ p[1] < p[2]}]

VARIABLES
  now,       \* the database clock
  book,      \* created reservations: row, live stay segments, checkout work
  request,   \* per room: available_from of its open manual request, 0 for none
  cleaned    \* per room: latest available_from of approved work (history)

vars == <<now, book, request, cleaned>>

Open == Horizon + 2                                 \* check_out_at IS NULL
Scheduled == {t \in 2..Horizon : t % 2 = 0}
Instants == 0..(Horizon + 2)

\* `moved`: how the guest came to be in the room; `sourced`: a move out of the
\* segment was recorded, which the work it left behind admits only once.
Segment == [room : Rooms, from : Instants, to : Instants,
            moved : {"no", "before", "during"}, sourced : BOOLEAN]
Leg == [room : Rooms, from : Instants, done : BOOLEAN]
Task == [room : Rooms, from : Instants,
         state : {"none", "private", "ready", "done", "cancelled"}]
Row == [room : Rooms, in : Instants, out : Instants,
        status : {"active", "checked_out", "cancelled"},
        arrived : Instants, left : Instants,       \* actual times, 0 for none
        closedBy : {"nobody", "manual", "scheduled"},
        created : Instants,
        proof : Instants,    \* available_from of the approved proof, 0 for none
        stay : Seq(Segment),           \* the live segments, by their start
        retired : SUBSET Segment,      \* those that were live once
        corrected : Nat,               \* occupancy corrections (history)
        final : Task, legs : SUBSET Leg]

(***************************************************************************)
(* What the rows say                                                       *)
(***************************************************************************)
Seg(room, from, to, moved) ==
  [room |-> room, from |-> from, to |-> to, moved |-> moved, sourced |-> FALSE]
Work(room, from, state) == [room |-> room, from |-> from, state |-> state]

LastSeg(stay) == stay[Len(stay)]
LastRoom(row) == IF row.stay = <<>> THEN row.room ELSE LastSeg(row.stay).room
Active(row) == row.status = "active"
Waiting(row) == Active(row) /\ row.arrived = 0
InHouse(row) == Active(row) /\ row.arrived > 0
End(row) == IF row.left > 0 THEN row.left ELSE row.out

\* Live segments in a room, of every reservation of a set.
Segments(b, rs, room) ==
  UNION {{s \in Range(b[r].stay) : s.room = room} : r \in rs}

\* The same, of stays that have not ended (scheduled or active).
LiveIn(b, room) == Segments(b, {r \in DOMAIN b : Active(b[r])}, room)

Covers(s, t) == s.from <= t /\ t < s.to
\* Slip: compares ends that are left open as nulls.
OverlapSlip(s, u) == {s.to, u.to} \cap {Open} = {} /\ s.from < u.to /\ u.from < s.to
Overlap(s, u) == s.from < s.to /\ u.from < u.to /\ s.from < u.to /\ u.from < s.to

\* The room a stay is in just before t: the segment covering that moment,
\* else the first one after it, else the last, else the room booked.
RoomBefore(row, t) ==
  LET at == {i \in DOMAIN row.stay : row.stay[i].from < t /\ t <= row.stay[i].to}
      after == {i \in DOMAIN row.stay : row.stay[i].from >= t}
  IN IF at # {} THEN row.stay[Max(at)].room
     ELSE IF after # {} THEN row.stay[Min(after)].room ELSE LastRoom(row)

\* Exclusion constraint: no two stays have overlapping segments in a room.
Fits(b) ==
  \A r, q \in DOMAIN b : r # q =>
    \A s \in Range(b[r].stay), u \in Range(b[q].stay) :
      s.room = u.room => ~Overlap(s, u)

\* Constraints on the segments of one stay: none ends before it starts, no two
\* overlap or start together.
Lawful(stay) ==
  \A i \in DOMAIN stay :
    /\ stay[i].from <= stay[i].to
    /\ \A j \in DOMAIN stay \ {i} :
         stay[i].from # stay[j].from /\ ~Overlap(stay[i], stay[j])

Allowed(b) == Fits(b) /\ \A r \in DOMAIN b : Lawful(b[r].stay)

\* A segment of another stay starts exactly at t in the room.
NeighbourAt(b, r, room, t) ==
  \E s \in Segments(b, DOMAIN b \ {r}, room) : s.from = t

\* Refreshing the due times of rooms fails while open segment work would be
\* due when it becomes available: the next arrival is at that very instant.
DuesRefresh(b, rooms) ==
  \A r \in DOMAIN b : \A leg \in b[r].legs :
    leg.room \in rooms /\ ~leg.done =>
      \A s \in Segments(b, DOMAIN b, leg.room) : s.from # leg.from

(***************************************************************************)
(* Proofs of preparation                                                   *)
(***************************************************************************)
\* Slip: looks at guests who have left only.
RequiredAfterSlip(b, r) ==
  LET ends == {b[q].left : q \in {p \in DOMAIN b \ {r} :
                 b[p].room = b[r].room /\ b[p].in < b[r].in}} \ {0}
  IN IF ends = {} THEN b[r].created ELSE Max(ends)

\* Approved work proves a room ready for r when it became available no earlier
\* than the end of every earlier reservation of that room.
RequiredAfter(b, r) ==
  LET earlier == {q \in DOMAIN b \ {r} :
                    /\ b[q].room = b[r].room /\ b[q].status # "cancelled"
                    /\ b[q].in < b[r].in}
      ends == {End(b[q]) : q \in earlier} \ {Open}
  IN IF ends = {} THEN b[r].created ELSE Max(ends)

ProofHolds(b, r) == b[r].proof = 0 \/ b[r].proof >= RequiredAfter(b, r)

DropStaleProofs(b, rooms) ==
  [r \in DOMAIN b |->
    IF b[r].room \in rooms /\ Active(b[r]) /\ ~ProofHolds(b, r)
    THEN [b[r] EXCEPT !.proof = 0] ELSE b[r]]

\* Approval hands the work to the earliest arrival of the room it can prove.
GiveProof(b, room, from) ==
  LET wanting == {r \in DOMAIN b :
                    /\ b[r].room = room /\ Active(b[r]) /\ b[r].proof = 0
                    /\ b[r].in >= now /\ from >= RequiredAfter(b, r)}
  IN IF wanting = {} THEN b
     ELSE LET r == CHOOSE r \in wanting : \A q \in wanting : b[r].in <= b[q].in
          IN [b EXCEPT ![r].proof = from]

(***************************************************************************)
(* Rooms                                                                   *)
(***************************************************************************)
\* An in-house stay occupies a room during its segments there, and its last
\* room until it is closed, however late that is.
Occupied(b, room, t) ==
  \E r \in DOMAIN b : InHouse(b[r]) /\ \E s \in Range(b[r].stay) :
    s.room = room /\ s.from <= t /\ (t < s.to \/ LastRoom(b[r]) = room)

CleaningRequired(b, room, t) ==
  \/ request[room] > 0 /\ request[room] <= t
  \/ \E r \in DOMAIN b :
       \/ b[r].final.state = "ready" /\ b[r].final.room = room /\ b[r].left <= t
       \/ \E leg \in b[r].legs : leg.room = room /\ ~leg.done /\ leg.from <= t

\* A guest can be moved into the room at t.
ReadyToMoveInto(b, room, t) ==
  /\ ~Occupied(b, room, t)
  /\ \A s \in LiveIn(b, room) : ~Covers(s, t)
  /\ ~CleaningRequired(b, room, t)

Init ==
  /\ now = 1
  /\ book = [r \in {} |-> {}]
  /\ request = [room \in Rooms |-> 0]
  /\ cleaned = [room \in Rooms |-> 0]

Commit(b) == Allowed(b) /\ book' = b

(***************************************************************************)
(* Writing segments                                                        *)
(***************************************************************************)
Insert(stay, s) ==
  InsertAt(stay, 1 + Max({0} \cup {i \in DOMAIN stay : stay[i].from < s.from}), s)

\* The segment at the index in S, at most one, gives way to s.
Replace(stay, S, s) == Insert(IF S = {} THEN stay ELSE RemoveAt(stay, Max(S)), s)

\* The last of the segments at S, if any, ends at t.
EndLast(stay, S, t) == IF S = {} THEN stay ELSE [stay EXCEPT ![Max(S)].to = t]

\* Retired segments are kept: an occupancy correction may take one up again.
Retire(row, S) == row.retired \cup {row.stay[i] : i \in S}
MovedBy(stay, S) == IF S = {} THEN "no" ELSE stay[Max(S)].moved

\* The segment of a reservation whose guest has not come: in its room, from its
\* arrival on.
Booked(row) == {i \in DOMAIN row.stay :
                 row.stay[i].from = row.in /\ row.stay[i].room = row.room}
Meets(stay, t) == {i \in DOMAIN stay : stay[i].from <= t /\ t <= stay[i].to}

(***************************************************************************)
(* Commands of the administrator                                           *)
(***************************************************************************)
\* Bound: nothing is booked in the past.
CreateReservation(r, room, in, out) ==
  /\ r \notin DOMAIN book
  /\ in > now /\ (out = Open => r \in LongStays)
  /\ LET row == [room |-> room, in |-> in, out |-> out, status |-> "active",
                 arrived |-> 0, left |-> 0, closedBy |-> "nobody",
                 created |-> now, proof |-> 0,
                 stay |-> <<Seg(room, in, out, "no")>>, retired |-> {}, corrected |-> 0,
                 final |-> IF out = Open THEN Work(room, 0, "none")
                                         ELSE Work(room, out, "private"),
                 legs |-> {}]
         b == [q \in DOMAIN book \cup {r} |-> IF q = r THEN row ELSE book[q]]
     IN /\ out # Open => DuesRefresh(b, {room})
        /\ Commit(DropStaleProofs(b, {room}))
  /\ UNCHANGED <<now, request, cleaned>>

\* A stay that is to end at `end` keeps no move scheduled for then or later, nor
\* its checkout work: the segment it is in just before then is the last.
Kept(row, end) ==
  {i \in DOMAIN row.stay : row.stay[i].moved # "during" \/ row.stay[i].from < end}
Withdraws(row, end) == Kept(row, end) # DOMAIN row.stay
Underway(row, end) ==
  {i \in DOMAIN row.stay : row.stay[i].from < end /\ end <= row.stay[i].to}
\* Segments are in order, so those withdrawn are the last ones.
Withdrawn(row, end) ==
  SubSeq(EndLast(row.stay, Underway(row, end), end), 1, Max(Kept(row, end)))

\* Slip: the work of the withdrawn moves stays.
LegsBeforeSlip(row, end) == row.legs
LegsBefore(row, end) ==
  IF Withdraws(row, end) THEN {leg \in row.legs : leg.from < end} ELSE row.legs

\* The row with another schedule.  Before the guest comes a new arrival replaces
\* the last segment and a new end moves its end; once the guest is in, the end of
\* the segment that ended with the stay moves.
Rebooked(row, in, out) ==
  [row EXCEPT !.in = in, !.out = out,
     !.stay = IF row.stay = <<>> THEN <<>>
              ELSE Replace(@, {Len(@)}, Seg(row.room, in, out, LastSeg(@).moved)),
     !.retired = Retire(row, DOMAIN row.stay \cap {Len(row.stay)}),
     !.proof = 0]

Ending(row, out) ==
  {i \in DOMAIN row.stay : (row.arrived = 0 /\ out # row.out) \/ row.stay[i].to = row.out}

Shifted(row, out) ==
  [row EXCEPT !.out = out,
     !.stay = IF Withdraws(row, out) THEN Withdrawn(row, out)
              ELSE EndLast(@, Ending(row, out), out),
     !.retired = Retire(row, DOMAIN row.stay \ Kept(row, out)),
     !.legs = LegsBefore(row, out)]

\* The schedule with an end: of a waiting reservation, of a guest in house (the
\* end only), or of one the tick has closed, whose stay is then reopened as
\* long as the cleaning of its room has not started.
MayReschedule(row, in, out) ==
  \/ Waiting(row)
  \/ InHouse(row) /\ in = row.in /\ out > now
  \/ /\ row.status = "checked_out" /\ row.closedBy = "scheduled"
     /\ in = row.in /\ out > now /\ row.final.state = "ready"

ChangeReservation(r, in, out) ==
  /\ r \in DOMAIN book /\ out # Open
  /\ MayReschedule(book[r], in, out)
  /\ LET row == book[r]
         last == IF row.arrived = 0 THEN row.room
                 ELSE IF Withdraws(row, out) THEN row.stay[Max(Underway(row, out))].room
                 ELSE LastRoom(row)
         new == IF in # row.in THEN Rebooked(row, in, out) ELSE Shifted(row, out)
         b == [book EXCEPT ![r] =
                [new EXCEPT !.status = "active", !.left = 0, !.closedBy = "nobody",
                            !.final = Work(last, out, "private")]]
     IN /\ Withdraws(row, out) => Underway(row, out) # {} /\ ~NeighbourAt(book, r, last, out)
        /\ ProofHolds(b, r)
        /\ DuesRefresh(b, {row.room, last})
        /\ Commit(DropStaleProofs(b, {row.room, last}))
  /\ UNCHANGED <<now, request, cleaned>>

\* A long stay that keeps no end may move its arrival until the guest is in.
ChangeOpenEnded(r, in) ==
  /\ r \in DOMAIN book /\ Waiting(book[r]) /\ book[r].out = Open
  /\ in # book[r].in
  /\ Commit(DropStaleProofs([book EXCEPT ![r] = Rebooked(book[r], in, Open)],
                            {book[r].room}))
  /\ UNCHANGED <<now, request, cleaned>>

CancelReservation(r) ==
  /\ r \in DOMAIN book /\ Waiting(book[r]) /\ now < book[r].in
  /\ LET row == book[r]
         b == [book EXCEPT ![r] =
                [row EXCEPT !.status = "cancelled", !.proof = 0,
                   !.stay = IF @ = <<>> THEN @ ELSE Front(@),
                   !.final.state = IF @ = "none" THEN @ ELSE "cancelled"]]
     IN /\ DuesRefresh(b, {row.room})
        /\ Commit(DropStaleProofs(b, {row.room}))
  /\ UNCHANGED <<now, request, cleaned>>

\* Before arrival the reservation itself changes room.
MoveBeforeCheckin(r, room) ==
  /\ r \in DOMAIN book /\ Waiting(book[r]) /\ now < book[r].in
  /\ room # book[r].room
  /\ ReadyToMoveInto(book, room, book[r].in)
  /\ Booked(book[r]) # {}
  /\ LET row == book[r]
     IN Commit([book EXCEPT ![r] =
          [row EXCEPT !.room = room, !.proof = 0,
             !.stay = Replace(@, Booked(row), Seg(room, row.in, row.out, "before")),
             !.retired = Retire(row, Booked(row)),
             !.final.room = room]])
  /\ UNCHANGED <<now, request, cleaned>>

\* During the stay the guest moves at t: the last segment ends there and is to
\* be cleaned, the rest of the stay is in the other room.
MoveDuringStay(r, room, t) ==
  /\ r \in DOMAIN book /\ InHouse(book[r]) /\ book[r].out # Open
  /\ now < t /\ t < book[r].out /\ book[r].stay # <<>>
  /\ LET row == book[r]
         source == LastSeg(row.stay)
         left == [source EXCEPT !.to = t, !.sourced = TRUE]
         b == [book EXCEPT ![r] =
                [row EXCEPT !.stay = Front(@) \o <<left, Seg(room, t, row.out, "during")>>,
                   !.final = Work(room, row.out, "private"),
                   !.legs = @ \cup
                     {[room |-> source.room, from |-> t, done |-> FALSE]}]]
     IN /\ source.from < t /\ t < source.to /\ source.room # room /\ ~source.sourced
        /\ ReadyToMoveInto(book, room, t)
        /\ ~NeighbourAt(book, r, room, row.out)
        /\ ~NeighbourAt(book, r, source.room, t)
        /\ DuesRefresh(b, {source.room, room})
        /\ Commit(b)
  /\ UNCHANGED <<now, request, cleaned>>

ManualCheckout(r) ==
  /\ r \in DOMAIN book /\ InHouse(book[r]) /\ now < book[r].out
  /\ LET row == book[r]
         stay == IF Withdraws(row, now) THEN Withdrawn(row, now) ELSE row.stay
         last == IF Withdraws(row, now) THEN row.stay[Max(Underway(row, now))].room
                                        ELSE RoomBefore(row, now)
     IN /\ IF Withdraws(row, now)
           THEN Underway(row, now) # {} /\ ~NeighbourAt(book, r, last, now)
           ELSE row.out # Open => row.final.room = last
        /\ Commit([book EXCEPT ![r] =
             [row EXCEPT !.status = "checked_out", !.left = now,
                !.closedBy = "manual", !.stay = EndLast(stay, Meets(stay, now), now),
                !.final = Work(last, now, "ready"),
                !.retired = Retire(row, DOMAIN row.stay \ Kept(row, now)),
                !.legs = LegsBefore(row, now)]])
  /\ UNCHANGED <<now, request, cleaned>>

\* The administrator corrects who is in a room since e.  Only segments are
\* written: not the reservation, nor its work, nor any proof.
Correct(r, stay, retired) ==
  /\ Commit([book EXCEPT ![r] =
       [book[r] EXCEPT !.stay = stay, !.retired = retired, !.corrected = @ + 1]])
  /\ UNCHANGED <<now, request, cleaned>>

\* The stay gives up its segment there, from e on.
Vacate(r, room, e) ==
  \E i \in DOMAIN book[r].stay :
    LET row == book[r]
        s == row.stay[i]
    IN /\ s.room = room /\ Covers(s, e)
       /\ Correct(r, IF s.from < e
                     THEN [row.stay EXCEPT ![i] = Seg(room, s.from, e, s.moved)]
                     ELSE RemoveAt(row.stay, i), Retire(row, {i}))

\* It takes up again a segment it had there, retired since, to the end that had.
\* Which of several is the newest version is left open.
Occupy(r, room, e) ==
  /\ e < book[r].out
  /\ ~\E s \in Range(book[r].stay) : s.room = room /\ Covers(s, e)
  /\ \E s \in book[r].retired :
       /\ s.room = room /\ Covers(s, e)
       /\ Correct(r, Insert(book[r].stay, Seg(room, e, s.to, s.moved)), book[r].retired)

CorrectOccupancy(r, room) ==
  /\ r \in DOMAIN book /\ Active(book[r]) /\ book[r].corrected < Corrections
  /\ \E e \in Effective : e <= now /\ (Vacate(r, room, e) \/ Occupy(r, room, e))

(***************************************************************************)
(* The scheduler tick                                                      *)
(***************************************************************************)
\* The room bars guests for reasons outside this module: PIN, candles, issues,
\* operation blocks, an open checkout incident.
MayEnter(b, r, barred) ==
  /\ Waiting(b[r]) /\ b[r].in <= now
  /\ b[r].room \notin barred /\ b[r].proof > 0
  /\ ~Occupied(b, b[r].room, now)

\* Slip: leaves the segment at the scheduled arrival.
EnterSlip(b, rs) ==
  [r \in DOMAIN b |-> IF r \in rs THEN [b[r] EXCEPT !.arrived = now] ELSE b[r]]

Enter(b, rs) ==
  [r \in DOMAIN b |-> IF r \in rs
     THEN LET row == b[r] S == Booked(row)
          IN [row EXCEPT !.arrived = now,
                !.stay = Replace(@, S, Seg(row.room, now, row.out, MovedBy(@, S))),
                !.retired = Retire(row, S)]
     ELSE b[r]]

Due(b) == {r \in DOMAIN b : Active(b[r]) /\ b[r].out <= now}

\* Slip: forgets to record that the tick closed the stay.
CloseSlip(b) ==
  [r \in DOMAIN b |-> IF r \in Due(b)
     THEN [b[r] EXCEPT !.status = "checked_out", !.left = b[r].out,
                       !.stay = EndLast(@, Meets(@, b[r].out), b[r].out),
                       !.final.state = "ready"] ELSE b[r]]

Close(b) ==
  [r \in DOMAIN b |-> IF r \in Due(b)
     THEN [b[r] EXCEPT !.status = "checked_out", !.left = b[r].out,
             !.stay = EndLast(@, Meets(@, b[r].out), b[r].out),
             !.closedBy = "scheduled", !.final.state = "ready"] ELSE b[r]]

\* Long stays without an end come in first; then every due stay is closed, and
\* the whole tick fails if the work of one is not in the room it ended in;
\* then the other arrivals come in.
ProcessDue(barred) ==
  LET early == {r \in DOMAIN book : book[r].out = Open /\ MayEnter(book, r, barred)}
      closed == Close(Enter(book, early))
      late == {r \in DOMAIN book : book[r].out # Open /\ MayEnter(closed, r, barred)}
  IN /\ early \cup Due(book) \cup late # {}
     /\ \A r \in Due(book) : book[r].final.room = RoomBefore(book[r], book[r].out)
     /\ Allowed(Enter(book, early))
     /\ Commit(Enter(closed, late))
     /\ UNCHANGED <<now, request, cleaned>>

(***************************************************************************)
(* Cleaning, as far as it bears on rooms and proofs                        *)
(***************************************************************************)
\* A pending task with a due time refuses a request whose window it overlaps.
Conflicts(room, from, t) ==
  LET later == {s.from : s \in {u \in Segments(book, DOMAIN book, room) :
                                  u.from >= from}}
  IN from <= t /\ later # {} /\ t < Min(later)

\* A vacant room, or one whose guest stays through the window.
MayRequest(room, t) ==
  \/ \E r \in DOMAIN book : InHouse(book[r]) /\
       \E s \in Range(book[r].stay) : s.room = room /\ Covers(s, t)
  \/ /\ \A s \in LiveIn(book, room) : ~Covers(s, t)
     /\ \A r \in DOMAIN book : InHouse(book[r]) /\ book[r].out <= t =>
          RoomBefore(book[r], t + 1) # room

\* Bound: one open manual request, for the instant just passed.
RequestCleaning(room, t) ==
  /\ t = now - 1 /\ \A other \in Rooms : request[other] = 0
  /\ MayRequest(room, t)
  /\ \A r \in DOMAIN book :
       /\ book[r].final.state \in {"private", "ready"} /\ book[r].final.room = room
            => ~Conflicts(room, book[r].final.from, t)
       /\ \A leg \in book[r].legs : leg.room = room /\ ~leg.done
            => ~Conflicts(room, leg.from, t)
  /\ request' = [request EXCEPT ![room] = t]
  /\ UNCHANGED <<now, book, cleaned>>

\* The work was done after it became available and its inspection approves it.
Approve(b, room, from) ==
  /\ from < now
  /\ book' = GiveProof(b, room, from)
  /\ cleaned' = [cleaned EXCEPT ![room] = IF @ > from THEN @ ELSE from]
  /\ UNCHANGED now

ApproveRequest(room) ==
  /\ request[room] > 0
  /\ Approve(book, room, request[room])
  /\ request' = [request EXCEPT ![room] = 0]

ApproveCheckout(r) ==
  /\ r \in DOMAIN book /\ book[r].final.state = "ready"
  /\ Approve([book EXCEPT ![r].final.state = "done"],
             book[r].final.room, book[r].final.from)
  /\ UNCHANGED request

ApproveLeg(r, leg) ==
  /\ ~leg.done
  /\ Approve([book EXCEPT ![r].legs = (@ \ {leg}) \cup {[leg EXCEPT !.done = TRUE]}],
             leg.room, leg.from)
  /\ UNCHANGED request

Advance ==
  /\ now < Horizon
  /\ now' = now + 2
  /\ UNCHANGED <<book, request, cleaned>>

\* The rooms whose next guest is to come in now.
Awaited == {book[r].room : r \in {q \in DOMAIN book : Waiting(book[q]) /\ book[q].in <= now}}
Tick == \E barred \in SUBSET Awaited : ProcessDue(barred)

Next ==
  \/ \E r \in Reservations, room \in Rooms : \E p \in Plans[r] : CreateReservation(r, room, p[1], p[2])
  \/ \E r \in Reservations : \E p \in Plans[r] : ChangeReservation(r, p[1], p[2])
  \/ \E r \in Reservations : \E p \in Plans[r] : ChangeOpenEnded(r, p[1])
  \/ \E r \in Reservations : CancelReservation(r)
  \/ \E r \in Reservations, room \in Rooms : MoveBeforeCheckin(r, room)
  \/ \E r \in Reservations, room \in Rooms, t \in Scheduled : MoveDuringStay(r, room, t)
  \/ \E r \in Reservations : ManualCheckout(r)
  \/ \E r \in Reservations, room \in Rooms : CorrectOccupancy(r, room)
  \/ Tick
  \/ \E room \in Rooms, t \in Scheduled : RequestCleaning(room, t)
  \/ \E room \in Rooms : ApproveRequest(room)
  \/ \E r \in Reservations : ApproveCheckout(r)
  \/ \E r \in DOMAIN book : \E leg \in book[r].legs : ApproveLeg(r, leg)
  \/ Advance

Spec == Init /\ [][Next]_vars

(***************************************************************************)
(* Properties                                                              *)
(***************************************************************************)
\* Rows have the types of their columns.  A row is closed when its guest has left
\* and then says by whom; reopening a stay clears all three.
TypeOK ==
  /\ now \in 1..(Horizon + 1)
  /\ DOMAIN book \subseteq Reservations
  /\ \A r \in DOMAIN book :
       /\ book[r] \in Row
       /\ book[r].status = "checked_out" <=> book[r].left > 0
       /\ book[r].status = "checked_out" <=> book[r].closedBy # "nobody"
  /\ request \in [Rooms -> Instants] /\ cleaned \in [Rooms -> Instants]

\* A stay whose occupancy an administrator has corrected owes its segments to
\* the correction; what follows about segments is about the others.
Uncorrected(r) == book[r].corrected = 0

\* The segments of a stay cover it without a gap, from its arrival in the room it
\* is booked in to its end, however it was moved, shortened, closed or reopened.
StayIsWhole ==
  \A r \in DOMAIN book : LET row == book[r] stay == book[r].stay IN
    Uncorrected(r) =>
      IF row.status = "cancelled" THEN stay = <<>>
      ELSE /\ stay # <<>>
           /\ stay[1].room = row.room
           /\ stay[1].from = IF row.arrived > 0 THEN row.arrived ELSE row.in
           /\ LastSeg(stay).to = End(row)
           /\ \A i \in 2..Len(stay) : stay[i].from = stay[i - 1].to

\* Each room a stay leaves is owed exactly one cleaning, from the moment it is
\* left: the last one by the checkout work, those before by segment work.  With
\* StayIsWhole, the tick never fails for such a stay because its work is in
\* another room (20260916210000:3130), which would keep every stay from closing.
\* A correction moves no work (20260920150000:290): after one, it may.
EveryRoomLeftIsOwedWork ==
  \A r \in DOMAIN book : LET row == book[r] IN
    Uncorrected(r) /\ row.status # "cancelled" =>
      /\ row.out # Open \/ row.left > 0 =>
           row.final.room = LastSeg(row.stay).room /\ row.final.from = End(row)
      /\ {<<leg.room, leg.from>> : leg \in row.legs} =
           {<<row.stay[i].room, row.stay[i].to>> : i \in 1..(Len(row.stay) - 1)}
      /\ Cardinality(row.legs) = Len(row.stay) - 1

\* The room a guest is in: that of the segment that covers the moment, else that
\* of the last one that has begun.
Whereabouts(row) ==
  LET here == {s \in Range(row.stay) : Covers(s, now)}
      begun == {i \in DOMAIN row.stay : row.stay[i].from <= now}
  IN IF here # {} THEN (CHOOSE s \in here : TRUE).room ELSE row.stay[Max(begun)].room

\* No two guests are in one room, except while the tick that closes the stay of
\* one of them is late, or after a correction said one is in none: no move,
\* change, arrival or correction puts one on top of the other.
OneGuestPerRoom ==
  LET staying == {r \in DOMAIN book : InHouse(book[r]) /\
                    (Uncorrected(r) \/ \E s \in Range(book[r].stay) : Covers(s, now))}
                 \ Due(book) IN
  \A r, q \in staying : r # q => Whereabouts(book[r]) # Whereabouts(book[q])

Arrives(r) ==
  r \in DOMAIN book' /\ book'[r].arrived > 0
    /\ (r \in DOMAIN book => book[r].arrived = 0)

\* What other guests had of the room r has come to, and the last of it.  Who was
\* checked out in the instant they came (20260916210000:57) had nothing of it.
Before(r) ==
  {s \in UNION {Range(book'[q].stay) :
         q \in {p \in DOMAIN book' \ {r} : book'[p].arrived > 0 /\ book'[p].corrected = 0}} :
     s.room = book'[r].room /\ s.from < now /\ s.from < s.to}
LastBefore(r) == CHOOSE s \in Before(r) : \A u \in Before(r) : u.to <= s.to

\* A guest arrives in a room that was cleaned, and approved, after the guest before
\* left it, unless that guest had been moved into the room: a move drops the
\* proofs of the reservation it moves only (20260916204500:834), and a correction
\* none at all, so corrected stays are left out here.
CleanUnlessMovedInto ==
  [][\A r \in Reservations : Arrives(r) /\ book'[r].corrected = 0 /\ Before(r) # {} =>
       \/ cleaned[book'[r].room] >= LastBefore(r).to
       \/ LastBefore(r).moved # "no"]_vars
=============================================================================
