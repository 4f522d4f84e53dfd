----------------------- MODULE ReservationStayProofs -----------------------
(* Proofs about ReservationStay: rows keep their types; a stay whose          *)
(* occupancy nobody corrected stays whole whatever legal commands change it,  *)
(* each room it leaves is owed one cleaning, no two guests are in one room,   *)
(* and nobody but the successor of a moved guest comes to an uncleaned room.  *)
(*                                                                            *)
(* The inductive invariant Inv says of each row alone that it is Right: its   *)
(* columns have their types and, unless it was corrected, it is Sound, that   *)
(* is, its live segments form a line and its segment work is that of the      *)
(* rooms the line leaves.  Each command changes one row by one of a few       *)
(* transforms (Created, Changed, Relocated, ...), and one lemma per transform *)
(* shows that the changed row is right again; the exclusion constraint Fits   *)
(* relates rows to one another and is what Commit checks.  ProofInv adds what *)
(* a proof of preparation says of the stays before it, pair by pair.          *)
EXTENDS ReservationStay, TLAPS, FiniteSetTheorems, SequenceTheorems, WellFoundedInduction

(***************************************************************************)
(* Greatest and least indices                                              *)
(***************************************************************************)
\* Natural numbers below n, ordered by <, as the library's relation.
LEMMA BelowIsRelation == OpToRel(<, Nat) = {ss \in Nat \X Nat : ss[1] < ss[2]}
BY DEF OpToRel

\* A set of natural numbers that is not empty has a least member.
LEMMA LeastIn == ASSUME NEW D \in SUBSET Nat, D # {}
  PROVE \E d \in D : \A e \in D : d <= e
<1> DEFINE R == {ss \in Nat \X Nat : ss[1] < ss[2]}
<1>1. IsWellFoundedOn(R, Nat)
  BY NatLessThanWellFounded, BelowIsRelation
<1>2. PICK d \in D : \A e \in D : ~(<<e, d>> \in R)
  BY <1>1, WFMin
<1>3. \A e \in D : e \in Nat /\ d \in Nat /\ ~(e < d)
  BY <1>2
<1>4. \A e \in D : d <= e
  BY <1>3
<1>. QED
  BY <1>4

\* Max of natural numbers up to n is one of them and none is greater.
LEMMA MaxUpTo == ASSUME NEW n \in Nat, NEW S \in SUBSET (0..n), S # {}
  PROVE Max(S) \in S /\ \A y \in S : y <= Max(S)
<1>0. \A i \in S : i \in 0..n /\ i \in Int
  OBVIOUS
<1>1. \E x \in S : \A y \in S : x >= y
  <2>. DEFINE D == {n - i : i \in S}
  <2>1. D # {} /\ D \subseteq Nat
    <3>1. PICK i \in S : TRUE
      OBVIOUS
    <3>2. n - i \in D
      OBVIOUS
    <3>3. \A k \in S : n - k \in Nat
      BY <1>0
    <3>. QED
      BY <3>2, <3>3
  <2>2. PICK d \in D : \A e \in D : d <= e
    <3>. HIDE DEF D
    <3>. QED
      BY <2>1, LeastIn
  <2>3. PICK x \in S : d = n - x
    OBVIOUS
  <2>4. \A y \in S : n - y \in D
    OBVIOUS
  <2>5. \A y \in S : d <= n - y
    BY <2>2, <2>4
  <2>6. \A y \in S : x >= y
    BY <1>0, <2>3, <2>5
  <2>. QED
    BY <2>6
<1>2. Max(S) \in S /\ \A y \in S : Max(S) >= y
  BY <1>1 DEF Max
<1>. QED
  BY <1>0, <1>2

\* The same of indices of a stay.
LEMMA MaxIn == ASSUME NEW n \in Nat, NEW S \in SUBSET (1..n), S # {}
  PROVE Max(S) \in S /\ \A y \in S : y <= Max(S)
<1>1. S \in SUBSET (0..n)
  OBVIOUS
<1>. QED
  BY <1>1, MaxUpTo

\* Min of indices of a stay is one of them.
LEMMA MinIn == ASSUME NEW S \in SUBSET Nat, S # {}
  PROVE Min(S) \in S
<1>1. PICK d \in S : \A e \in S : d <= e
  BY LeastIn
<1>. QED
  BY <1>1 DEF Min

(***************************************************************************)
(* Stays: lines of segments                                                *)
(***************************************************************************)
\* The segments are in order, without a gap; all but the first are those of
\* moves during the stay; all but the last have a length.
Line(st) ==
  /\ st \in Seq(Segment) /\ Len(st) >= 1
  /\ \A i \in 2..Len(st) : st[i].from = st[i - 1].to
  /\ \A i \in 1..Len(st) : (st[i].moved = "during") <=> (i >= 2)
  /\ \A i \in 1..(Len(st) - 1) : st[i].from < st[i].to
  /\ \A i, j \in 1..Len(st) : i < j => st[i].to <= st[j].from
  /\ LastSeg(st).from <= LastSeg(st).to

\* The line ends elsewhere; what is left of the stay when it ends at `end`.
EndAt(st, end) == [st EXCEPT ![Len(st)].to = end]
Staying(row, end) == SubSeq(row.stay, 1, Max(Kept(row, end)))

\* The segment work of a stay is that of the rooms it leaves, one for each.
Owes(st, legs) ==
  /\ legs \subseteq Leg
  /\ \A leg \in legs : \E i \in 1..(Len(st) - 1) :
       leg.room = st[i].room /\ leg.from = st[i].to
  /\ \A i \in 1..(Len(st) - 1) : \E leg \in legs :
       leg.room = st[i].room /\ leg.from = st[i].to
  /\ \A leg, other \in legs : leg.from = other.from => leg = other

\* What TypeOK says of one row.
Typed(row) ==
  /\ row \in Row
  /\ (row.status = "checked_out") <=> (row.left > 0)
  /\ (row.status = "checked_out") <=> (row.closedBy # "nobody")

Begins(row) == IF row.arrived > 0 THEN row.arrived ELSE row.in

\* A stay that is not cancelled: its line runs from its arrival to its end, which
\* is the scheduled one if the tick closed it; its work is in the rooms of the
\* line, and only a guest in house is moved during the stay.
Lived(row) ==
  /\ Line(row.stay)
  /\ row.stay[1].room = row.room /\ row.stay[1].from = Begins(row)
  /\ LastSeg(row.stay).to = End(row)
  /\ row.closedBy # "manual" => LastSeg(row.stay).from < LastSeg(row.stay).to
  /\ row.closedBy = "scheduled" => row.left = row.out
  /\ (row.arrived = 0 \/ row.out = Open) => Len(row.stay) = 1
  /\ (row.out # Open \/ row.left > 0) =>
       row.final.room = LastSeg(row.stay).room /\ row.final.from = End(row)
  /\ Owes(row.stay, row.legs)

Sound(row) ==
  /\ Typed(row)
  /\ row.status = "cancelled" => row.stay = <<>>
  /\ row.status # "cancelled" => Lived(row)

\* Instants are integers; Open is one.
LEMMA InstantsAreInts ==
  /\ Horizon \in Int /\ Open \in Instants /\ Instants \subseteq Int
  /\ \A t \in Instants : 0 <= t /\ t <= Open
  /\ \A t \in Int : 0 <= t /\ t <= Open => t \in Instants
BY HorizonIsEven DEF Open, Instants

\* What the segments of a line are.
LEMMA SegmentsOfLine == ASSUME NEW st, Line(st)
  PROVE /\ st \in Seq(Segment) /\ Len(st) \in Nat /\ DOMAIN st = 1..Len(st)
        /\ st \in [1..Len(st) -> Segment]
        /\ Len(st) \in 1..Len(st) /\ 1 \in 1..Len(st)
        /\ \A i \in 1..Len(st) : st[i] \in Segment /\ st[i].from \in Int /\ st[i].to \in Int
<1>1. st \in Seq(Segment) /\ Len(st) >= 1
  BY DEF Line
<1>2. Len(st) \in Nat /\ DOMAIN st = 1..Len(st) /\ st \in [1..Len(st) -> Segment]
  BY <1>1, LenProperties
<1>3. \A s \in Segment : s.from \in Int /\ s.to \in Int
  BY InstantsAreInts DEF Segment
<1>. QED
  BY <1>1, <1>2, <1>3

\* A single segment is a line and owes no segment work.
LEMMA LineOfOne ==
  ASSUME NEW seg \in Segment, seg.moved # "during", seg.from <= seg.to
  PROVE  /\ Line(<<seg>>) /\ Len(<<seg>>) = 1 /\ <<seg>>[1] = seg
         /\ LastSeg(<<seg>>) = seg /\ Owes(<<seg>>, {})
<1>1. <<seg>> \in Seq(Segment) /\ Len(<<seg>>) = 1 /\ <<seg>>[1] = seg
  OBVIOUS
<1>. QED
  BY <1>1 DEF Line, Owes, LastSeg

\* A line of one segment is that segment alone, and owes no segment work.
LEMMA OneIsLine == ASSUME NEW st, Line(st), Len(st) = 1
  PROVE st = <<st[1]>> /\ LastSeg(st) = st[1] /\ st[1] \in Segment
          /\ st[1].moved # "during" /\ (\A legs : Owes(st, legs) => legs = {})
<1>1. st \in Seq(Segment) /\ st[1] \in Segment /\ <<st[1]>> \in Seq(Segment)
  BY SegmentsOfLine
<1>2. st = <<st[1]>>
  BY <1>1, SeqEqual
<1>3. st[1].moved # "during"
  BY DEF Line
<1>4. \A legs : Owes(st, legs) => legs = {}
  BY DEF Owes
<1>. QED
  BY <1>1, <1>2, <1>3, <1>4 DEF LastSeg

\* Two stays that leave the same rooms at the same times owe the same work.
LEMMA OwesOfSame ==
  ASSUME NEW st, NEW to, Len(to) = Len(st),
         \A i \in 1..(Len(st) - 1) : to[i].room = st[i].room /\ to[i].to = st[i].to
  PROVE  \A legs : Owes(st, legs) => Owes(to, legs)
<1>. SUFFICES ASSUME NEW legs, Owes(st, legs) PROVE Owes(to, legs)
  OBVIOUS
<1>1. ASSUME NEW leg \in legs
      PROVE  \E i \in 1..(Len(to) - 1) : leg.room = to[i].room /\ leg.from = to[i].to
  <2>1. PICK i \in 1..(Len(st) - 1) : leg.room = st[i].room /\ leg.from = st[i].to
    BY DEF Owes
  <2>. QED
    BY <2>1
<1>2. ASSUME NEW i \in 1..(Len(to) - 1)
      PROVE  \E leg \in legs : leg.room = to[i].room /\ leg.from = to[i].to
  <2>1. PICK leg \in legs : leg.room = st[i].room /\ leg.from = st[i].to
    BY DEF Owes
  <2>. QED
    BY <2>1
<1>. QED
  BY <1>1, <1>2 DEF Owes

\* The same segments, as far as a line and its work go.
Alike(st, to) ==
  /\ Len(to) = Len(st)
  /\ \A i \in 1..Len(st) : /\ to[i].room = st[i].room /\ to[i].from = st[i].from
                           /\ to[i].to = st[i].to /\ to[i].moved = st[i].moved

LEMMA LineOfAlike ==
  ASSUME NEW st, Line(st), NEW to \in Seq(Segment), Alike(st, to)
  PROVE  /\ Line(to) /\ Len(to) = Len(st)
         /\ to[1].room = st[1].room /\ to[1].from = st[1].from /\ to[1].moved = st[1].moved
         /\ LastSeg(to).room = LastSeg(st).room /\ LastSeg(to).from = LastSeg(st).from
         /\ LastSeg(to).to = LastSeg(st).to
         /\ \A legs : Owes(st, legs) => Owes(to, legs)
<1>. DEFINE n == Len(st)
<1>1. n \in Nat /\ n \in 1..n /\ 1 \in 1..n /\ n >= 1 /\ Len(to) = n
  BY SegmentsOfLine DEF Alike
<1>2. \A i \in 1..n : /\ to[i].room = st[i].room /\ to[i].from = st[i].from
                      /\ to[i].to = st[i].to /\ to[i].moved = st[i].moved
  BY DEF Alike
<1>3. /\ LastSeg(to).room = LastSeg(st).room /\ LastSeg(to).from = LastSeg(st).from
      /\ LastSeg(to).to = LastSeg(st).to
  BY <1>1, <1>2 DEF LastSeg
<1>4. Line(to)
  <2>1. \A i \in 2..n : to[i].from = to[i - 1].to
    <3>1. \A i \in 2..n : st[i].from = st[i - 1].to /\ i \in 1..n /\ i - 1 \in 1..n
      BY <1>1 DEF Line
    <3>. QED
      BY <1>2, <3>1
  <2>2. \A i \in 1..n : (to[i].moved = "during") <=> (i >= 2)
    BY <1>2 DEF Line
  <2>3. \A i \in 1..(n - 1) : to[i].from < to[i].to
    <3>1. \A i \in 1..(n - 1) : st[i].from < st[i].to /\ i \in 1..n
      BY <1>1 DEF Line
    <3>. QED
      BY <1>2, <3>1
  <2>4. \A i, j \in 1..n : i < j => to[i].to <= to[j].from
    BY <1>2 DEF Line
  <2>5. LastSeg(to).from <= LastSeg(to).to
    BY <1>3 DEF Line
  <2>. QED
    BY <1>1, <2>1, <2>2, <2>3, <2>4, <2>5 DEF Line
<1>5. \A i \in 1..(n - 1) : to[i].room = st[i].room /\ to[i].to = st[i].to
  BY <1>1, <1>2
<1>6. \A legs : Owes(st, legs) => Owes(to, legs)
  BY <1>1, <1>5, OwesOfSame
<1>. QED
  BY <1>1, <1>2, <1>3, <1>4, <1>6

\* Ending the last segment of a line elsewhere keeps the line and its work.
LEMMA EndAtLine ==
  ASSUME NEW st, Line(st), NEW end \in Instants, LastSeg(st).from <= end
  PROVE  LET to == EndAt(st, end) IN
         /\ Line(to) /\ Len(to) = Len(st)
         /\ LastSeg(to) = [LastSeg(st) EXCEPT !.to = end]
         /\ to[1].room = st[1].room /\ to[1].from = st[1].from
         /\ to[1].moved = st[1].moved
         /\ \A i \in 1..(Len(st) - 1) : to[i] = st[i]
         /\ \A legs : Owes(st, legs) => Owes(to, legs)
<1>. DEFINE n == Len(st)
            last == [st[n] EXCEPT !.to = end]
            to == [st EXCEPT ![n] = last]
<1>1. /\ n \in Nat /\ n \in 1..n /\ st \in Seq(Segment) /\ st[n] \in Segment
      /\ \A i \in 1..n : st[i] \in Segment /\ st[i].from \in Int /\ st[i].to \in Int
  BY SegmentsOfLine
<1>2. last \in Segment /\ last.room = st[n].room /\ last.from = st[n].from
        /\ last.moved = st[n].moved /\ last.to = end
  BY <1>1 DEF Segment
<1>3. EndAt(st, end) = to
  BY DEF EndAt
<1>4. /\ to \in Seq(Segment) /\ Len(to) = n
      /\ \A j \in 1..n : to[j] = IF j = n THEN last ELSE st[j]
  BY <1>1, <1>2, ExceptSeq
<1>. HIDE DEF last, to
<1>5. \A j \in 1..n : /\ to[j].room = st[j].room /\ to[j].from = st[j].from
                      /\ to[j].moved = st[j].moved
                      /\ j < n => to[j] = st[j]
  BY <1>1, <1>2, <1>4
<1>6. to[n] = last
  BY <1>1, <1>4
<1>7. Line(to)
  <2>1. n >= 1 /\ to[n].from <= to[n].to
    BY <1>1, <1>2, <1>6 DEF LastSeg
  <2>2. \A i \in 2..n : to[i].from = to[i - 1].to
    BY <1>1, <1>5 DEF Line
  <2>3. \A i \in 1..n : (to[i].moved = "during") <=> (i >= 2)
    BY <1>5 DEF Line
  <2>4. \A i \in 1..(n - 1) : to[i].from < to[i].to
    BY <1>1, <1>5 DEF Line
  <2>5. ASSUME NEW i \in 1..n, NEW j \in 1..n, i < j PROVE to[i].to <= to[j].from
    <3>1. i < n /\ st[i].to <= st[j].from
      BY <1>1, <2>5 DEF Line
    <3>. QED
      BY <1>1, <1>5, <3>1
  <2>. QED
    BY <1>4, <2>1, <2>2, <2>3, <2>4, <2>5 DEF Line, LastSeg
<1>8. \A i \in 1..(n - 1) : to[i] = st[i]
  BY <1>1, <1>5
<1>9. \A legs : Owes(st, legs) => Owes(to, legs)
  BY <1>4, <1>8, OwesOfSame
<1>. QED
  BY <1>1, <1>3, <1>4, <1>5, <1>6, <1>7, <1>8, <1>9 DEF LastSeg, last

\* The first segments of a line are a line.
LEMMA PrefixOfLine ==
  ASSUME NEW st, Line(st), NEW n \in 1..Len(st)
  PROVE  LET to == SubSeq(st, 1, n) IN
         /\ Line(to) /\ Len(to) = n /\ \A i \in 1..n : to[i] = st[i]
         /\ LastSeg(to) = st[n]
<1>. DEFINE to == SubSeq(st, 1, n)
<1>1. /\ n \in Nat /\ st \in Seq(Segment) /\ Len(st) \in Nat
      /\ \A i \in 1..Len(st) : st[i] \in Segment /\ st[i].from \in Int /\ st[i].to \in Int
  BY SegmentsOfLine
<1>2. \A i \in 1..n : st[i] \in Segment
  BY <1>1
<1>3. /\ to \in Seq(Segment) /\ Len(to) = n
      /\ \A i \in 1..n : to[i] = st[i]
  BY <1>1, <1>2, SubSeqProperties
<1>. HIDE DEF to
<1>4. Line(to)
  <2>1. to[n].from <= to[n].to
    <3>1. CASE n = Len(st)
      BY <1>1, <1>3, <3>1 DEF Line, LastSeg
    <3>2. CASE n < Len(st)
      BY <1>1, <1>3, <3>2 DEF Line
    <3>. QED
      BY <1>1, <3>1, <3>2
  <2>2. \A i \in 2..n : to[i].from = to[i - 1].to
    BY <1>1, <1>3 DEF Line
  <2>3. \A i \in 1..n : (to[i].moved = "during") <=> (i >= 2)
    BY <1>1, <1>3 DEF Line
  <2>4. \A i \in 1..(n - 1) : to[i].from < to[i].to
    BY <1>1, <1>3 DEF Line
  <2>5. ASSUME NEW i \in 1..n, NEW j \in 1..n, i < j PROVE to[i].to <= to[j].from
    <3>1. i \in 1..Len(st) /\ j \in 1..Len(st)
      BY <1>1
    <3>2. st[i].to <= st[j].from
      BY <2>5, <3>1 DEF Line
    <3>. QED
      BY <1>3, <3>2
  <2>. QED
    BY <1>3, <2>1, <2>2, <2>3, <2>4, <2>5 DEF Line, LastSeg
<1>. QED
  BY <1>3, <1>4 DEF LastSeg, to

\* In a line, an earlier segment that is not the last begins before a later one.
LEMMA LengthsOfLine ==
  ASSUME NEW st, Line(st), NEW i \in 1..Len(st), NEW j \in 1..Len(st), i < j
  PROVE  st[i].from < st[j].from
<1>1. /\ Len(st) \in Nat
      /\ \A k \in 1..Len(st) : st[k].from \in Int /\ st[k].to \in Int
  BY SegmentsOfLine
<1>2. i \in 1..(Len(st) - 1)
  BY <1>1
<1>3. st[i].from < st[i].to /\ st[i].to <= st[j].from
  BY <1>2 DEF Line
<1>. QED
  BY <1>1, <1>3

\* The segments that stay when a stay is ended are a prefix of its line: the
\* first one, and those that begin before the end.
LEMMA StayingOfLine ==
  ASSUME NEW row, Line(row.stay), NEW end \in Instants
  PROVE  \E n \in 1..Len(row.stay) :
           /\ n = Max(Kept(row, end)) /\ Staying(row, end) = SubSeq(row.stay, 1, n)
           /\ \A i \in 1..Len(row.stay) : (i <= n) <=> (i = 1 \/ row.stay[i].from < end)
<1>. DEFINE st == row.stay
            K == Kept(row, end)
<1>1. /\ DOMAIN st = 1..Len(st) /\ Len(st) \in Nat /\ 1 \in 1..Len(st) /\ end \in Int
      /\ \A i \in 1..Len(st) : st[i].from \in Int /\ st[i].to \in Int
  BY SegmentsOfLine, InstantsAreInts
<1>2. \A i \in 1..Len(st) : i \in K <=> (i = 1 \/ st[i].from < end)
  BY <1>1 DEF Kept, Line
<1>3. K \in SUBSET (1..Len(st)) /\ K # {}
  BY <1>1, <1>2 DEF Kept
<1>. DEFINE n == Max(K)
<1>4. n \in K /\ \A i \in K : i <= n
  BY <1>1, <1>3, MaxIn
<1>5. n \in 1..Len(st)
  BY <1>3, <1>4
<1>6. ASSUME NEW i \in 1..Len(st), i <= n, i # 1 PROVE st[i].from < end
  <2>1. n # 1 /\ st[n].from < end
    BY <1>1, <1>2, <1>4, <1>5, <1>6
  <2>2. CASE i < n
    BY <1>1, <1>5, <2>1, <2>2, LengthsOfLine
  <2>3. CASE i = n
    BY <2>1, <2>3
  <2>. QED
    BY <1>5, <1>6, <2>2, <2>3
<1>7. \A i \in 1..Len(st) : (i <= n) <=> (i = 1 \/ st[i].from < end)
  BY <1>1, <1>2, <1>4, <1>5, <1>6
<1>8. Staying(row, end) = SubSeq(st, 1, n) /\ n = Max(Kept(row, end))
  BY DEF Staying
<1>. HIDE DEF n
<1>. QED
  BY <1>5, <1>7, <1>8

\* The work of the moves that are not withdrawn is that of the stay left.
LEMMA OwesOfPrefix ==
  ASSUME NEW row, Line(row.stay), Owes(row.stay, row.legs), NEW end \in Instants,
         NEW n \in 1..Len(row.stay),
         \A i \in 1..Len(row.stay) : (i <= n) <=> (i = 1 \/ row.stay[i].from < end)
  PROVE  Owes(SubSeq(row.stay, 1, n), {leg \in row.legs : leg.from < end})
<1>. DEFINE st == row.stay
            to == SubSeq(st, 1, n)
            legs == {leg \in row.legs : leg.from < end}
<1>1. /\ Len(st) \in Nat /\ n \in Nat /\ end \in Int
      /\ \A i \in 1..Len(st) : st[i].from \in Int /\ st[i].to \in Int
  BY SegmentsOfLine, InstantsAreInts
<1>2. Len(to) = n /\ \A i \in 1..n : to[i] = st[i]
  BY PrefixOfLine
<1>3. \A i \in 1..(Len(st) - 1) : (i + 1 <= n) <=> (st[i].to < end)
  <2>. SUFFICES ASSUME NEW i \in 1..(Len(st) - 1) PROVE (i + 1 <= n) <=> (st[i].to < end)
    OBVIOUS
  <2>1. i + 1 \in 2..Len(st) /\ i + 1 \in 1..Len(st) /\ i + 1 # 1 /\ i + 1 - 1 = i
    BY <1>1
  <2>2. st[i + 1].from = st[i].to
    BY <2>1 DEF Line
  <2>. QED
    BY <2>1, <2>2
<1>4. legs \subseteq row.legs /\ \A leg \in row.legs : leg \in legs <=> leg.from < end
  OBVIOUS
<1>. HIDE DEF to, legs
<1>5. ASSUME NEW leg \in legs
      PROVE  \E i \in 1..(Len(to) - 1) : leg.room = to[i].room /\ leg.from = to[i].to
  <2>1. PICK i \in 1..(Len(st) - 1) : leg.room = st[i].room /\ leg.from = st[i].to
    BY <1>4 DEF Owes
  <2>2. i + 1 <= n
    BY <1>3, <1>4, <2>1
  <2>3. i \in 1..(n - 1) /\ i \in 1..n
    BY <1>1, <2>2
  <2>. QED
    BY <1>2, <2>1, <2>3
<1>6. ASSUME NEW i \in 1..(Len(to) - 1)
      PROVE  \E leg \in legs : leg.room = to[i].room /\ leg.from = to[i].to
  <2>1. i \in 1..(Len(st) - 1) /\ i \in 1..n /\ i + 1 <= n
    BY <1>1, <1>2
  <2>2. PICK leg \in row.legs : leg.room = st[i].room /\ leg.from = st[i].to
    BY <2>1 DEF Owes
  <2>3. leg \in legs
    BY <1>3, <1>4, <2>1, <2>2
  <2>. QED
    BY <1>2, <2>1, <2>2, <2>3
<1>7. /\ legs \subseteq Leg
      /\ \A leg, other \in legs : leg.from = other.from => leg = other
  BY <1>4 DEF Owes
<1>. QED
  BY <1>5, <1>6, <1>7 DEF Owes, to, legs

\* A guest in house whose stay is not over and loses no move was last in the last
\* room of the line.
LEMMA RoomBeforeOfLine ==
  ASSUME NEW row, Line(row.stay), NEW t \in Instants, t <= LastSeg(row.stay).to,
         \A i \in 2..Len(row.stay) : row.stay[i].from < t
  PROVE  RoomBefore(row, t) = LastSeg(row.stay).room
<1>. DEFINE st == row.stay
            n == Len(st)
            at == {i \in DOMAIN st : st[i].from < t /\ t <= st[i].to}
            after == {i \in DOMAIN st : st[i].from >= t}
<1>1. /\ DOMAIN st = 1..n /\ n \in Nat /\ n \in 1..n /\ t \in Int
      /\ \A i \in 1..n : st[i].from \in Int /\ st[i].to \in Int
  BY SegmentsOfLine, InstantsAreInts
<1>2. at \in SUBSET (1..n) /\ after \in SUBSET (1..n) /\ after \in SUBSET Nat
  BY <1>1
<1>3. CASE n = 1
  <2>1. at # {} => Max(at) = 1
    BY <1>1, <1>2, <1>3, MaxIn
  <2>2. after # {} => Min(after) = 1
    BY <1>2, <1>3, MinIn
  <2>. QED
    BY <1>1, <1>3, <2>1, <2>2 DEF RoomBefore, LastRoom, LastSeg
<1>4. CASE n # 1
  <2>0. n \in 2..n
    <3>. HIDE DEF n
    <3>. QED
      BY <1>1, <1>4
  <2>1. n \in at
    BY <1>1, <2>0 DEF LastSeg
  <2>2. Max(at) \in at /\ n <= Max(at)
    BY <1>1, <1>2, <2>1, MaxIn
  <2>3. Max(at) = n
    BY <1>1, <1>2, <2>2
  <2>. QED
    BY <2>1, <2>3 DEF RoomBefore, LastSeg
<1>. QED
  BY <1>3, <1>4

\* The segment work of a line that leaves n rooms is n cleanings.
LEMMA WorkOfLine == ASSUME NEW st, NEW legs, Line(st), Owes(st, legs)
  PROVE  Cardinality(legs) = Len(st) - 1
<1>. DEFINE n == Len(st) - 1
            f == [i \in 1..n |->
                   CHOOSE leg \in legs : leg.room = st[i].room /\ leg.from = st[i].to]
<1>1. /\ Len(st) \in Nat /\ n \in Nat
      /\ \A i \in 1..Len(st) : st[i].from \in Int /\ st[i].to \in Int
  BY SegmentsOfLine DEF Line
<1>2. \A i \in 1..n : f[i] \in legs /\ f[i].room = st[i].room /\ f[i].from = st[i].to
  BY DEF Owes
<1>3. f \in [1..n -> legs]
  BY <1>2
<1>. HIDE DEF f
<1>4. ASSUME NEW i \in 1..n, NEW j \in 1..n, i < j PROVE f[i] # f[j]
  <2>1. i \in 1..Len(st) /\ j \in 1..Len(st) /\ j \in 1..(Len(st) - 1)
    BY <1>1
  <2>2. st[i].to <= st[j].from /\ st[j].from < st[j].to
    BY <1>4, <2>1 DEF Line
  <2>. QED
    BY <1>1, <1>2, <2>1, <2>2
<1>5. \A i, j \in 1..n : f[i] = f[j] => i = j
  <2>. SUFFICES ASSUME NEW i \in 1..n, NEW j \in 1..n, i # j PROVE f[i] # f[j]
    OBVIOUS
  <2>1. i < j \/ j < i
    BY <1>1
  <2>. QED
    BY <1>4, <2>1
<1>6. \A leg \in legs : \E i \in 1..n : f[i] = leg
  <2>. SUFFICES ASSUME NEW leg \in legs PROVE \E i \in 1..n : f[i] = leg
    OBVIOUS
  <2>1. PICK i \in 1..n : leg.from = st[i].to
    BY DEF Owes
  <2>2. f[i] = leg
    BY <1>2, <2>1 DEF Owes
  <2>. QED
    BY <2>2
<1>7. f \in Bijection(1..n, legs)
  BY <1>3, <1>5, <1>6 DEF Bijection, Injection, Surjection, IsInjective
<1>. QED
  BY <1>1, <1>7, FS_CountingElements DEF ExistsBijection

(***************************************************************************)
(* Writing segments                                                        *)
(***************************************************************************)
\* A segment put among others, or taken from them, leaves segments.
LEMMA InsertIsStay == ASSUME NEW st \in Seq(Segment), NEW s \in Segment
  PROVE Insert(st, s) \in Seq(Segment)
<1>. DEFINE before == {0} \cup {i \in DOMAIN st : st[i].from < s.from}
            m == Max(before)
<1>1. Len(st) \in Nat /\ DOMAIN st = 1..Len(st) /\ \A i \in 1..Len(st) : st[i] \in Segment
  BY LenProperties
<1>2. before \in SUBSET (0..Len(st)) /\ before # {}
  BY <1>1
<1>3. m \in 0..Len(st)
  BY <1>1, <1>2, MaxUpTo
<1>4. Insert(st, s) = SubSeq(st, 1, m) \o <<s>> \o SubSeq(st, m + 1, Len(st))
  <2>1. Insert(st, s) = InsertAt(st, 1 + m, s)
    BY DEF Insert
  <2>. HIDE DEF m
  <2>2. (1 + m) - 1 = m /\ 1 + m = m + 1
    BY <1>3
  <2>. QED
    BY <2>1, <2>2 DEF InsertAt
<1>. HIDE DEF m
<1>5. SubSeq(st, 1, m) \in Seq(Segment) /\ SubSeq(st, m + 1, Len(st)) \in Seq(Segment)
  <2>1. m \in Int /\ m + 1 \in Int /\ Len(st) \in Int /\ 1 \in Int
    BY <1>1, <1>3
  <2>2. \A i \in 1..m : st[i] \in Segment
    BY <1>1, <1>3
  <2>3. \A i \in (m + 1)..Len(st) : st[i] \in Segment
    BY <1>1, <1>3
  <2>. QED
    BY <2>1, <2>2, <2>3, SubSeqProperties
<1>6. <<s>> \in Seq(Segment)
  OBVIOUS
<1>. QED
  BY <1>4, <1>5, <1>6, ConcatProperties

LEMMA RemoveIsStay == ASSUME NEW st \in Seq(Segment), NEW k \in 1..Len(st)
  PROVE RemoveAt(st, k) \in Seq(Segment)
<1>1. Len(st) \in Nat /\ \A i \in 1..Len(st) : st[i] \in Segment
  BY LenProperties
<1>2. SubSeq(st, 1, k - 1) \in Seq(Segment) /\ SubSeq(st, k + 1, Len(st)) \in Seq(Segment)
  <2>1. k - 1 \in Int /\ k + 1 \in Int /\ Len(st) \in Int /\ 1 \in Int
    BY <1>1
  <2>2. \A i \in 1..(k - 1) : st[i] \in Segment
    BY <1>1
  <2>3. \A i \in (k + 1)..Len(st) : st[i] \in Segment
    BY <1>1
  <2>. QED
    BY <2>1, <2>2, <2>3, SubSeqProperties
<1>. QED
  BY <1>2, ConcatProperties DEF RemoveAt

LEMMA ReplaceIsStay ==
  ASSUME NEW st \in Seq(Segment), NEW S \in SUBSET DOMAIN st, NEW s \in Segment
  PROVE  Replace(st, S, s) \in Seq(Segment)
<1>1. Len(st) \in Nat /\ S \in SUBSET (1..Len(st))
  BY LenProperties
<1>2. S # {} => Max(S) \in 1..Len(st)
  BY <1>1, MaxIn
<1>3. S # {} => RemoveAt(st, Max(S)) \in Seq(Segment)
  BY <1>2, RemoveIsStay
<1>. QED
  BY <1>3, InsertIsStay DEF Replace

LEMMA EndLastIsStay ==
  ASSUME NEW st \in Seq(Segment), NEW S \in SUBSET DOMAIN st, NEW t \in Instants
  PROVE  EndLast(st, S, t) \in Seq(Segment) /\ Len(EndLast(st, S, t)) = Len(st)
<1>1. Len(st) \in Nat /\ S \in SUBSET (1..Len(st)) /\ \A i \in 1..Len(st) : st[i] \in Segment
  BY LenProperties
<1>2. CASE S = {}
  BY <1>2 DEF EndLast
<1>3. CASE S # {}
  <2>. DEFINE m == Max(S)
              s == [st[m] EXCEPT !.to = t]
  <2>1. m \in 1..Len(st)
    BY <1>1, <1>3, MaxIn
  <2>2. EndLast(st, S, t) = [st EXCEPT ![m] = s]
    BY <1>3 DEF EndLast
  <2>. HIDE DEF m
  <2>3. s \in Segment
    BY <1>1, <2>1 DEF Segment
  <2>. HIDE DEF s
  <2>. QED
    BY <2>1, <2>2, <2>3, ExceptSeq
<1>. QED
  BY <1>2, <1>3

\* The last segment given another end, as one of those to be ended.
LEMMA EndLastOfLine ==
  ASSUME NEW st \in Seq(Segment), NEW S \in SUBSET DOMAIN st, Len(st) \in S, NEW t
  PROVE  EndLast(st, S, t) = EndAt(st, t)
<1>1. Len(st) \in Nat /\ S \in SUBSET (1..Len(st)) /\ S # {}
  BY LenProperties
<1>2. Max(S) \in S /\ Len(st) <= Max(S)
  BY <1>1, MaxIn
<1>3. Max(S) = Len(st)
  BY <1>1, <1>2
<1>. QED
  BY <1>1, <1>3 DEF EndLast, EndAt

\* A single segment that gives way to another, or is taken away.
LEMMA ReplaceOfOne == ASSUME NEW s \in Segment, NEW seg \in Segment
  PROVE /\ Replace(<<s>>, {1}, seg) = <<seg>> /\ Front(<<s>>) = <<>>
        /\ MovedBy(<<s>>, {1}) = s.moved
<1>1. <<s>> \in Seq(Segment) /\ Len(<<s>>) = 1 /\ <<s>>[1] = s /\ {1} \in SUBSET (1..1) /\ {1} # {}
  OBVIOUS
<1>2. Max({1}) = 1
  BY MaxIn
<1>3. SubSeq(<<s>>, 1, 0) = <<>> /\ SubSeq(<<s>>, 2, 1) = <<>> /\ <<>> \in Seq(Segment)
  BY SubSeqEmpty
<1>4. RemoveAt(<<s>>, 1) = <<>>
  BY <1>1, <1>3, ConcatEmptySeq DEF RemoveAt
<1>5. Front(<<s>>) = <<>>
  BY <1>1, <1>3 DEF Front
<1>6. Insert(<<>>, seg) = <<seg>>
  <2>1. {0} \cup {i \in DOMAIN <<>> : <<>>[i].from < seg.from} = {0}
    <3>1. DOMAIN <<>> = {}
      OBVIOUS
    <3>. QED
      BY <3>1
  <2>2. Max({0}) = 0
    <3>1. {0} \in SUBSET (0..0) /\ {0} # {} /\ 0 \in Nat
      OBVIOUS
    <3>2. Max({0}) \in {0}
      BY <3>1, MaxUpTo
    <3>. QED
      BY <3>2
  <2>3. Insert(<<>>, seg) = InsertAt(<<>>, 1, seg)
    BY <2>1, <2>2 DEF Insert
  <2>4. SubSeq(<<>>, 1, 1 - 1) = <<>> /\ SubSeq(<<>>, 1, Len(<<>>)) = <<>>
    <3>1. 1 - 1 \in Int /\ 1 - 1 < 1 /\ Len(<<>>) \in Int /\ Len(<<>>) < 1 /\ 1 \in Int
      OBVIOUS
    <3>. QED
      BY <3>1, SubSeqEmpty
  <2>5. InsertAt(<<>>, 1, seg) = (<<>> \o <<seg>>) \o <<>>
    BY <2>4 DEF InsertAt
  <2>6. <<seg>> \in Seq(Segment)
    OBVIOUS
  <2>. QED
    BY <2>3, <2>5, <2>6, ConcatEmptySeq
<1>. QED
  BY <1>1, <1>2, <1>4, <1>5, <1>6 DEF Replace, MovedBy

\* What Staying leaves of a line when its stay ends later than it begins.
LEMMA StayingIsLine ==
  ASSUME NEW row, Line(row.stay), Owes(row.stay, row.legs), NEW end \in Instants,
         row.stay[1].from <= end
  PROVE  LET st == Staying(row, end) IN
         /\ Line(st) /\ LastSeg(st).from <= end /\ Owes(st, LegsBefore(row, end))
         /\ st[1] = row.stay[1] /\ Len(st) <= Len(row.stay)
         /\ Len(st) # 1 \/ row.stay[1].from < end => LastSeg(st).from < end
         /\ ~Withdraws(row, end) =>
              st = row.stay /\ \A i \in 2..Len(row.stay) : row.stay[i].from < end
<1>1. /\ Len(row.stay) \in Nat /\ 1 \in 1..Len(row.stay) /\ end \in Int
      /\ row.stay \in Seq(Segment) /\ DOMAIN row.stay = 1..Len(row.stay)
      /\ Len(row.stay) \in 1..Len(row.stay)
      /\ \A i \in 1..Len(row.stay) : row.stay[i].from \in Int
  BY SegmentsOfLine, InstantsAreInts
<1>2. PICK n \in 1..Len(row.stay) :
        /\ Staying(row, end) = SubSeq(row.stay, 1, n)
        /\ \A i \in 1..Len(row.stay) : (i <= n) <=> (i = 1 \/ row.stay[i].from < end)
  BY StayingOfLine
<1>. DEFINE st == Staying(row, end)
            due == {leg \in row.legs : leg.from < end}
<1>3. /\ Line(st) /\ Len(st) = n /\ LastSeg(st) = row.stay[n]
      /\ \A i \in 1..n : st[i] = row.stay[i]
  BY <1>2, PrefixOfLine
<1>4. Owes(st, due)
  BY <1>2, OwesOfPrefix
<1>5. row.stay[n].from <= end /\ (n # 1 => row.stay[n].from < end)
  BY <1>1, <1>2
<1>6. ASSUME ~Withdraws(row, end)
      PROVE  st = row.stay /\ \A i \in 2..Len(row.stay) : row.stay[i].from < end
  <2>1. \A i \in 1..Len(row.stay) : row.stay[i].moved # "during" \/ row.stay[i].from < end
    BY <1>1, <1>6 DEF Withdraws, Kept
  <2>2. \A i \in 1..Len(row.stay) : i # 1 => row.stay[i].moved = "during"
    BY <1>1 DEF Line
  <2>3. \A i \in 1..Len(row.stay) : i <= n
    BY <1>2, <2>1, <2>2
  <2>4. n = Len(row.stay)
    BY <1>1, <2>3
  <2>5. \A i \in 2..Len(row.stay) : i \in 1..Len(row.stay) /\ i # 1
    BY <1>1
  <2>. QED
    BY <1>1, <1>2, <2>1, <2>2, <2>4, <2>5, SubSeqFull
<1>7. Owes(st, LegsBefore(row, end))
  <2>. HIDE DEF st
  <2>. QED
    BY <1>4, <1>6 DEF LegsBefore
<1>. HIDE DEF st
<1>8. st[1] = row.stay[1]
  BY <1>1, <1>3
<1>. QED
  BY <1>1, <1>3, <1>5, <1>6, <1>7, <1>8 DEF st

\* When moves are withdrawn from a line, the segment underway just before the end
\* is the last of those that stay, and ends there.
LEMMA WithdrawnOfLine ==
  ASSUME NEW row, Line(row.stay), NEW end \in Instants, Underway(row, end) # {}
  PROVE  /\ Withdrawn(row, end) = EndAt(Staying(row, end), end)
         /\ row.stay[Max(Underway(row, end))] = LastSeg(Staying(row, end))
<1>. DEFINE st == row.stay
            U == Underway(row, end)
            left == Staying(row, end)
<1>1. /\ DOMAIN st = 1..Len(st) /\ Len(st) \in Nat /\ end \in Int /\ st \in Seq(Segment)
      /\ \A i \in 1..Len(st) : st[i] \in Segment /\ st[i].from \in Int /\ st[i].to \in Int
  BY SegmentsOfLine, InstantsAreInts
<1>2. PICK n \in 1..Len(st) :
        /\ n = Max(Kept(row, end)) /\ left = SubSeq(st, 1, n)
        /\ \A i \in 1..Len(st) : (i <= n) <=> (i = 1 \/ st[i].from < end)
  BY StayingOfLine
<1>3. /\ Line(left) /\ Len(left) = n /\ \A i \in 1..n : left[i] = st[i]
      /\ LastSeg(left) = st[n]
  BY <1>2, PrefixOfLine
<1>4. ASSUME NEW i \in U PROVE i = n
  <2>1. i \in 1..Len(st) /\ st[i].from < end /\ end <= st[i].to
    BY <1>1 DEF Underway
  <2>2. i <= n
    BY <1>2, <2>1
  <2>3. ASSUME i < n PROVE FALSE
    <3>1. st[i].to <= st[n].from /\ st[n].from < end
      BY <1>1, <1>2, <2>1, <2>3 DEF Line
    <3>. QED
      BY <1>1, <2>1, <3>1
  <2>. QED
    BY <1>1, <2>1, <2>2, <2>3
<1>5. Max(U) = n /\ n \in U
  <2>1. U \in SUBSET (1..Len(st))
    BY <1>1 DEF Underway
  <2>2. Max(U) \in U
    BY <1>1, <2>1, MaxIn
  <2>. QED
    BY <1>4, <2>2
<1>. DEFINE s == [st[n] EXCEPT !.to = end]
            e == [st EXCEPT ![n] = s]
<1>6. EndLast(st, U, end) = e
  BY <1>5 DEF EndLast
<1>7. s \in Segment
  BY <1>1 DEF Segment
<1>. HIDE DEF s
<1>8. e \in Seq(Segment) /\ Len(e) = Len(st) /\ \A i \in 1..Len(st) : e[i] = IF i = n THEN s ELSE st[i]
  BY <1>1, <1>7, ExceptSeq
<1>. HIDE DEF e
<1>. DEFINE front == SubSeq(e, 1, n)
            ended == [left EXCEPT ![n] = s]
<1>9. Withdrawn(row, end) = front
  BY <1>2, <1>6 DEF Withdrawn
<1>10. front \in Seq(Segment) /\ Len(front) = n /\ \A i \in 1..n : front[i] = e[i]
  <2>1. \A i \in 1..n : e[i] \in Segment
    BY <1>1, <1>8
  <2>. QED
    BY <1>1, <2>1, SubSeqProperties
<1>11. left \in Seq(Segment) /\ n \in 1..Len(left)
  BY <1>1, <1>3, SegmentsOfLine
<1>12. EndAt(left, end) = ended
  <2>1. EndAt(left, end) = [left EXCEPT ![n] = [left[n] EXCEPT !.to = end]]
    BY <1>3 DEF EndAt
  <2>2. left[n] = st[n]
    BY <1>1, <1>3
  <2>. QED
    BY <2>1, <2>2 DEF s
<1>13. /\ ended \in Seq(Segment) /\ Len(ended) = n
       /\ \A i \in 1..n : ended[i] = IF i = n THEN s ELSE left[i]
  BY <1>3, <1>7, <1>11, ExceptSeq
<1>. HIDE DEF front, ended
<1>14. \A i \in 1..n : front[i] = ended[i]
  BY <1>1, <1>3, <1>8, <1>10, <1>13
<1>15. front = ended
  BY <1>10, <1>13, <1>14, SeqEqual
<1>. QED
  BY <1>3, <1>5, <1>9, <1>12, <1>15

(***************************************************************************)
(* Rows: what each command makes of one                                    *)
(***************************************************************************)
\* What is said of any row; of a stay whose occupancy was never corrected, more.
Right(row) == Typed(row) /\ row.in < row.out /\ (row.corrected = 0 => Sound(row))

\* The rows the commands write.
Created(room, in, out) ==
  [room |-> room, in |-> in, out |-> out, status |-> "active",
   arrived |-> 0, left |-> 0, closedBy |-> "nobody", created |-> now, proof |-> 0,
   stay |-> <<Seg(room, in, out, "no")>>, retired |-> {}, corrected |-> 0,
   final |-> IF out = Open THEN Work(room, 0, "none") ELSE Work(room, out, "private"),
   legs |-> {}]
RoomThen(row, out) ==
  IF row.arrived = 0 THEN row.room
  ELSE IF Withdraws(row, out) THEN row.stay[Max(Underway(row, out))].room
  ELSE LastRoom(row)
Replanned(row, in, out) == IF in # row.in THEN Rebooked(row, in, out) ELSE Shifted(row, out)
Changed(row, in, out) ==
  [Replanned(row, in, out) EXCEPT !.status = "active", !.left = 0, !.closedBy = "nobody",
     !.final = Work(RoomThen(row, out), out, "private")]
Cancelled(row) ==
  [row EXCEPT !.status = "cancelled", !.proof = 0,
     !.stay = IF @ = <<>> THEN @ ELSE Front(@),
     !.final.state = IF @ = "none" THEN @ ELSE "cancelled"]
Relocated(row, room) ==
  [row EXCEPT !.room = room, !.proof = 0,
     !.stay = Replace(@, Booked(row), Seg(room, row.in, row.out, "before")),
     !.retired = Retire(row, Booked(row)), !.final.room = room]
Cut(seg, t) == [seg EXCEPT !.to = t, !.sourced = TRUE]
MovedOn(row, room, t) ==
  [row EXCEPT
     !.stay = Front(@) \o <<Cut(LastSeg(row.stay), t), Seg(room, t, row.out, "during")>>,
     !.final = Work(room, row.out, "private"),
     !.legs = @ \cup {[room |-> LastSeg(row.stay).room, from |-> t, done |-> FALSE]}]
CheckedOut(row, t) ==
  LET stay == IF Withdraws(row, t) THEN Withdrawn(row, t) ELSE row.stay
      last == IF Withdraws(row, t) THEN row.stay[Max(Underway(row, t))].room
                                   ELSE RoomBefore(row, t)
  IN [row EXCEPT !.status = "checked_out", !.left = t,
        !.closedBy = "manual", !.stay = EndLast(stay, Meets(stay, t), t),
        !.final = Work(last, t, "ready"),
        !.retired = Retire(row, DOMAIN row.stay \ Kept(row, t)),
        !.legs = LegsBefore(row, t)]
Entered(row, t) ==
  [row EXCEPT !.arrived = t,
     !.stay = Replace(@, Booked(row), Seg(row.room, t, row.out, MovedBy(@, Booked(row)))),
     !.retired = Retire(row, Booked(row))]
Closed(row) ==
  [row EXCEPT !.status = "checked_out", !.left = row.out,
     !.stay = EndLast(@, Meets(@, row.out), row.out),
     !.closedBy = "scheduled", !.final.state = "ready"]
Corrected(row, stay, retired) ==
  [row EXCEPT !.stay = stay, !.retired = retired, !.corrected = @ + 1]

\* A room number, times and a mark make a segment; the same for checkout work.
LEMMA SegAndWork ==
  /\ \A room \in Rooms, from, to \in Instants, moved \in {"no", "before", "during"} :
       Seg(room, from, to, moved) \in Segment
  /\ \A room \in Rooms, from \in Instants,
        state \in {"none", "private", "ready", "done", "cancelled"} :
       Work(room, from, state) \in Task
  /\ \A room, from, state : Work(room, from, state).room = room
                             /\ Work(room, from, state).from = from
  /\ \A room, from, to, moved : LET s == Seg(room, from, to, moved) IN
       s.room = room /\ s.from = from /\ s.to = to /\ s.moved = moved
BY DEF Seg, Segment, Work, Task

\* What the columns of a row say of themselves.
LEMMA TypedRow == ASSUME NEW row, Typed(row)
  PROVE /\ row \in Row /\ row.arrived \in Int /\ row.left \in Int /\ row.in \in Int
        /\ row.out \in Int /\ row.proof \in Int /\ End(row) \in Int
        /\ 0 <= row.arrived /\ 0 <= row.left /\ 0 <= row.proof /\ 0 <= row.in
        /\ row.room \in Rooms /\ row.in \in Instants /\ row.out \in Instants
        /\ row.proof \in Instants /\ row.corrected \in Nat /\ 0 \in Instants
        /\ (Active(row) => row.left = 0 /\ row.closedBy = "nobody" /\ End(row) = row.out
                            /\ row.status # "cancelled")
        /\ (row.left > 0 => row.closedBy # "nobody")
<1>1. row \in Row
  BY DEF Typed
<1>2. /\ (row.status = "checked_out") <=> (row.left > 0)
      /\ (row.status = "checked_out") <=> (row.closedBy # "nobody")
  BY DEF Typed
<1>3. /\ row.arrived \in Instants /\ row.left \in Instants /\ row.in \in Instants
      /\ row.out \in Instants /\ row.proof \in Instants /\ row.room \in Rooms
      /\ row.corrected \in Nat
  BY <1>1 DEF Row
<1>4. \A t \in Instants : t \in Int /\ 0 <= t
  BY InstantsAreInts
<1>5. 0 \in Instants
  BY InstantsAreInts
<1>6. row.left \in Int /\ 0 <= row.left
  BY <1>3, <1>4
<1>7. Active(row) => ~(row.left > 0) /\ row.closedBy = "nobody" /\ row.status # "cancelled"
  BY <1>2 DEF Active
<1>8. Active(row) => row.left = 0
  BY <1>6, <1>7
<1>9. End(row) \in Instants /\ (Active(row) => End(row) = row.out)
  BY <1>3, <1>6, <1>8 DEF End
<1>. QED
  BY <1>1, <1>2, <1>3, <1>4, <1>5, <1>7, <1>8, <1>9

\* The live segments of a row and those retired, its work and its rooms.
LEMMA StayOfRow == ASSUME NEW row \in Row
  PROVE /\ row.stay \in Seq(Segment) /\ Len(row.stay) \in Nat
        /\ DOMAIN row.stay = 1..Len(row.stay)
        /\ \A i \in 1..Len(row.stay) :
             row.stay[i] \in Segment /\ row.stay[i].room \in Rooms
        /\ \A S \in SUBSET DOMAIN row.stay : /\ Retire(row, S) \subseteq Segment
                                             /\ MovedBy(row.stay, S) \in {"no", "before", "during"}
        /\ row.stay # <<>> => Len(row.stay) \in 1..Len(row.stay)
        /\ row.final \in Task /\ row.legs \subseteq Leg
        /\ LastRoom(row) \in Rooms
<1>1. /\ row.stay \in Seq(Segment) /\ row.retired \subseteq Segment /\ row.room \in Rooms
      /\ row.final \in Task /\ row.legs \subseteq Leg
  BY DEF Row
<1>2. Len(row.stay) \in Nat /\ DOMAIN row.stay = 1..Len(row.stay)
  BY <1>1, LenProperties
<1>3. \A i \in 1..Len(row.stay) : row.stay[i] \in Segment /\ row.stay[i].room \in Rooms
                                    /\ row.stay[i].moved \in {"no", "before", "during"}
  <2>1. \A s \in Segment : s.room \in Rooms /\ s.moved \in {"no", "before", "during"}
    BY DEF Segment
  <2>. QED
    BY <1>1, <2>1
<1>4. row.stay # <<>> => Len(row.stay) \in 1..Len(row.stay)
  BY <1>1, <1>2, EmptySeq
<1>5. LastRoom(row) \in Rooms
  BY <1>1, <1>3, <1>4 DEF LastRoom, LastSeg
<1>6. ASSUME NEW S \in SUBSET DOMAIN row.stay PROVE Retire(row, S) \subseteq Segment
  BY <1>1, <1>2, <1>3 DEF Retire
<1>7. ASSUME NEW S \in SUBSET DOMAIN row.stay
      PROVE  MovedBy(row.stay, S) \in {"no", "before", "during"}
  <2>1. S \in SUBSET (1..Len(row.stay))
    BY <1>2
  <2>2. S # {} => Max(S) \in 1..Len(row.stay)
    BY <1>2, <2>1, MaxIn
  <2>. QED
    BY <1>3, <2>2 DEF MovedBy
<1>. QED
  BY <1>1, <1>2, <1>3, <1>4, <1>5, <1>6, <1>7

\* The rooms a stay was in.
LEMMA RoomsOfRow == ASSUME NEW row \in Row, NEW t
  PROVE /\ RoomBefore(row, t) \in Rooms
        /\ Underway(row, t) # {} => /\ Max(Underway(row, t)) \in 1..Len(row.stay)
                                    /\ row.stay[Max(Underway(row, t))].room \in Rooms
<1>. DEFINE at == {i \in DOMAIN row.stay : row.stay[i].from < t /\ t <= row.stay[i].to}
            after == {i \in DOMAIN row.stay : row.stay[i].from >= t}
<1>1. /\ Len(row.stay) \in Nat /\ DOMAIN row.stay = 1..Len(row.stay) /\ LastRoom(row) \in Rooms
      /\ \A i \in 1..Len(row.stay) : row.stay[i].room \in Rooms
  BY StayOfRow
<1>2. at \in SUBSET (1..Len(row.stay)) /\ after \in SUBSET (1..Len(row.stay)) /\ after \in SUBSET Nat
  BY <1>1
<1>3. at # {} => Max(at) \in 1..Len(row.stay)
  BY <1>1, <1>2, MaxIn
<1>4. after # {} => Min(after) \in 1..Len(row.stay)
  BY <1>2, MinIn
<1>5. Underway(row, t) = at
  BY DEF Underway
<1>. QED
  BY <1>1, <1>3, <1>4, <1>5 DEF RoomBefore

\* A reservation is created right.
LEMMA CreatedIsRight ==
  ASSUME NEW room \in Rooms, NEW in \in Instants, NEW out \in Instants, in < out,
         now \in Instants
  PROVE  Right(Created(room, in, out)) /\ Created(room, in, out).corrected = 0
<1>. DEFINE row == Created(room, in, out)
            seg == Seg(room, in, out, "no")
<1>1. 0 \in Instants /\ in \in Int /\ out \in Int
  BY InstantsAreInts
<1>2. /\ seg \in Segment /\ seg.moved = "no" /\ seg.from = in /\ seg.to = out
      /\ seg.room = room
  BY SegAndWork DEF Seg
<1>3. /\ Line(<<seg>>) /\ Len(<<seg>>) = 1 /\ <<seg>>[1] = seg
      /\ LastSeg(<<seg>>) = seg /\ Owes(<<seg>>, {}) /\ <<seg>> \in Seq(Segment)
  BY <1>1, <1>2, LineOfOne DEF Line
<1>4. /\ row.room = room /\ row.in = in /\ row.out = out /\ row.status = "active"
      /\ row.arrived = 0 /\ row.left = 0 /\ row.closedBy = "nobody"
      /\ row.created = now /\ row.proof = 0 /\ row.stay = <<seg>> /\ row.legs = {}
      /\ row.retired = {} /\ row.corrected = 0
      /\ row.final = IF out = Open THEN Work(room, 0, "none") ELSE Work(room, out, "private")
  BY DEF Created
<1>5. row.final \in Task /\ (out # Open => row.final.room = room /\ row.final.from = out)
  <2>1. CASE out = Open
    BY <1>1, <1>4, <2>1, SegAndWork
  <2>2. CASE out # Open
    BY <1>4, <2>2, SegAndWork
  <2>. QED
    BY <2>1, <2>2
<1>6. row \in Row
  BY <1>1, <1>3, <1>4, <1>5 DEF Row, Created
<1>. HIDE DEF row, seg
<1>7. Typed(row)
  BY <1>4, <1>6 DEF Typed
<1>8. Lived(row)
  BY <1>1, <1>2, <1>3, <1>4, <1>5 DEF Lived, Begins, End
<1>. QED
  BY <1>4, <1>7, <1>8 DEF Right, Sound, row

\* Giving or dropping the proof of preparation changes nothing else.
LEMMA ProofIsRight == ASSUME NEW row, Right(row), NEW p \in Instants
  PROVE LET new == [row EXCEPT !.proof = p] IN
        Right(new) /\ new.stay = row.stay /\ new.arrived = row.arrived
<1>. DEFINE new == [row EXCEPT !.proof = p]
<1>0. row \in Row
  BY DEF Right, Typed
<1>1. /\ new.room = row.room /\ new.in = row.in /\ new.out = row.out
      /\ new.status = row.status /\ new.arrived = row.arrived /\ new.left = row.left
      /\ new.closedBy = row.closedBy /\ new.stay = row.stay /\ new.final = row.final
      /\ new.legs = row.legs /\ new.corrected = row.corrected
  BY <1>0 DEF Row
<1>2. new \in Row
  BY <1>0 DEF Row
<1>. HIDE DEF new
<1>3. Typed(new) /\ (row.corrected = 0 /\ row.status # "cancelled" => Lived(new))
  BY <1>1, <1>2 DEF Right, Sound, Typed, Lived, Begins, End
<1>4. Right(new)
  BY <1>1, <1>3 DEF Right, Sound
<1>. QED
  BY <1>1, <1>4 DEF new

\* The segments left when moves are withdrawn.
LEMMA WithdrawnIsStay ==
  ASSUME NEW row \in Row, NEW end \in Instants, Underway(row, end) # {}
  PROVE  Withdrawn(row, end) \in Seq(Segment)
<1>. DEFINE K == Kept(row, end)
            e == EndLast(row.stay, Underway(row, end), end)
<1>1. row.stay \in Seq(Segment) /\ Len(row.stay) \in Nat /\ DOMAIN row.stay = 1..Len(row.stay)
  BY StayOfRow
<1>2. Underway(row, end) \in SUBSET DOMAIN row.stay /\ Underway(row, end) \subseteq K
  BY DEF Underway, Kept
<1>3. e \in Seq(Segment) /\ Len(e) = Len(row.stay)
  BY <1>1, <1>2, EndLastIsStay
<1>4. K \in SUBSET (1..Len(row.stay)) /\ K # {}
  BY <1>1, <1>2 DEF Kept
<1>5. Max(K) \in 1..Len(row.stay)
  BY <1>1, <1>4, MaxIn
<1>6. Withdrawn(row, end) = SubSeq(e, 1, Max(K))
  BY DEF Withdrawn
<1>. HIDE DEF e, K
<1>7. \A i \in 1..Max(K) : e[i] \in Segment
  BY <1>1, <1>3, <1>5
<1>. QED
  BY <1>5, <1>6, <1>7, SubSeqProperties

\* A waiting reservation keeps no more than one segment, the one it has booked.
LEMMA WaitingIsAlone == ASSUME NEW row, Sound(row), Waiting(row)
  PROVE /\ row \in Row /\ Line(row.stay) /\ Len(row.stay) = 1 /\ row.legs = {}
        /\ row.left = 0 /\ row.closedBy = "nobody" /\ row.arrived = 0
        /\ row.stay[1].room = row.room /\ row.stay[1].from = row.in
        /\ row.stay[1].to = row.out /\ row.in < row.out
        /\ row.stay = <<row.stay[1]>> /\ row.stay[1] \in Segment
        /\ row.stay[1].moved # "during"
        /\ DOMAIN row.stay = {1} /\ row.stay # <<>> /\ Booked(row) = {1}
        /\ LastSeg(row.stay) = row.stay[1]
        /\ (row.out # Open => row.final.room = row.room /\ row.final.from = row.out)
<1>1. Typed(row) /\ Lived(row) /\ row.arrived = 0 /\ Active(row) /\ row.status = "active"
  BY DEF Sound, Waiting, Active
<1>2. row \in Row /\ row.left = 0 /\ row.closedBy = "nobody" /\ row.in \in Int /\ row.out \in Int
  BY <1>1, TypedRow
<1>3. Line(row.stay) /\ Len(row.stay) = 1 /\ Owes(row.stay, row.legs)
  BY <1>1 DEF Lived
<1>4. /\ row.stay = <<row.stay[1]>> /\ LastSeg(row.stay) = row.stay[1]
      /\ row.stay[1] \in Segment /\ row.stay[1].moved # "during" /\ row.legs = {}
  BY <1>3, OneIsLine
<1>5. DOMAIN row.stay = {1} /\ row.stay # <<>>
  <2>1. DOMAIN row.stay = 1..1
    BY <1>3, SegmentsOfLine
  <2>2. row.stay # <<>>
    BY <1>3
  <2>. QED
    BY <2>1, <2>2
<1>6. row.stay[1].from = row.in /\ row.stay[1].room = row.room
  BY <1>1 DEF Lived, Begins
<1>7. Booked(row) = {1}
  BY <1>5, <1>6 DEF Booked
<1>. QED
  BY <1>1, <1>2, <1>3, <1>4, <1>5, <1>6, <1>7 DEF Lived, Begins, End

\* What a row says that is not cancelled.
LEMMA SoundIsLived == ASSUME NEW row, Sound(row), row.status # "cancelled"
  PROVE /\ row \in Row /\ Typed(row) /\ Lived(row)
        /\ Line(row.stay) /\ Owes(row.stay, row.legs)
        /\ row.in \in Int /\ row.out \in Int /\ row.arrived \in Int /\ row.left \in Int
        /\ 0 <= row.arrived /\ 0 <= row.left /\ 0 <= row.in
        /\ (row.status = "active" => row.left = 0 /\ row.closedBy = "nobody" /\ End(row) = row.out)
<1>1. Typed(row) /\ Lived(row)
  BY DEF Sound
<1>. QED
  BY <1>1, TypedRow DEF Lived, Active

\* A row with a single segment, not cancelled and owing no segment work.
LEMMA AloneIsSound ==
  ASSUME NEW new, Typed(new), NEW seg \in Segment,
         new.stay = <<seg>>, seg.moved # "during", seg.from < seg.to,
         seg.room = new.room, seg.from = Begins(new), seg.to = End(new),
         new.status # "cancelled", new.legs = {},
         new.closedBy = "scheduled" => new.left = new.out,
         (new.out # Open \/ new.left > 0) =>
            new.final.room = new.room /\ new.final.from = End(new)
  PROVE  Sound(new)
<1>1. seg.from <= seg.to
  <2>1. seg.from \in Int /\ seg.to \in Int
    BY InstantsAreInts DEF Segment
  <2>. QED
    BY <2>1
<1>2. /\ Line(<<seg>>) /\ Len(<<seg>>) = 1 /\ <<seg>>[1] = seg
      /\ LastSeg(<<seg>>) = seg /\ Owes(<<seg>>, {})
  BY <1>1, LineOfOne
<1>3. Lived(new)
  BY <1>1, <1>2 DEF Lived
<1>. QED
  BY <1>3 DEF Sound

\* A reservation given another arrival: its segment is replaced.
LEMMA RebookedRow ==
  ASSUME NEW row \in Row, NEW in \in Instants, NEW out \in Instants
  PROVE  LET new == Rebooked(row, in, out) IN
         /\ new \in Row /\ new.room = row.room /\ new.in = in /\ new.out = out
         /\ new.arrived = row.arrived /\ new.legs = row.legs /\ new.final = row.final
         /\ new.corrected = row.corrected /\ new.proof = 0 /\ new.left = row.left
         /\ new.status = row.status /\ new.closedBy = row.closedBy
<1>. DEFINE seg == Seg(row.room, in, out, LastSeg(row.stay).moved)
            st == IF row.stay = <<>> THEN <<>> ELSE Replace(row.stay, {Len(row.stay)}, seg)
            retired == Retire(row, DOMAIN row.stay \cap {Len(row.stay)})
            new == Rebooked(row, in, out)
<1>1. /\ row.stay \in Seq(Segment) /\ DOMAIN row.stay = 1..Len(row.stay)
      /\ row.stay # <<>> => Len(row.stay) \in 1..Len(row.stay)
      /\ row.room \in Rooms /\ 0 \in Instants
  BY StayOfRow, InstantsAreInts DEF Row
<1>2. st \in Seq(Segment)
  <2>1. CASE row.stay = <<>>
    BY <2>1
  <2>2. CASE row.stay # <<>>
    <3>1. LastSeg(row.stay).moved \in {"no", "before", "during"}
      <4>1. LastSeg(row.stay) \in Segment
        BY <1>1, <2>2 DEF LastSeg
      <4>. QED
        BY <4>1 DEF Segment
    <3>2. seg \in Segment
      BY <1>1, <3>1, SegAndWork
    <3>3. {Len(row.stay)} \in SUBSET DOMAIN row.stay
      BY <1>1, <2>2
    <3>. HIDE DEF seg
    <3>. QED
      BY <1>1, <2>2, <3>2, <3>3, ReplaceIsStay
  <2>. QED
    BY <2>1, <2>2
<1>3. retired \subseteq Segment
  BY StayOfRow
<1>4. new = [row EXCEPT !.in = in, !.out = out, !.stay = st, !.retired = retired, !.proof = 0]
  BY DEF Rebooked
<1>. HIDE DEF st, retired, new
<1>5. new \in Row
  BY <1>1, <1>2, <1>3, <1>4 DEF Row
<1>6. /\ new.room = row.room /\ new.in = in /\ new.out = out
      /\ new.arrived = row.arrived /\ new.legs = row.legs /\ new.final = row.final
      /\ new.corrected = row.corrected /\ new.proof = 0 /\ new.left = row.left
      /\ new.status = row.status /\ new.closedBy = row.closedBy
  BY <1>4 DEF Row
<1>. QED
  BY <1>5, <1>6 DEF new

\* The segment of a waiting reservation replaced by one of its new schedule.
LEMMA RebookedStay ==
  ASSUME NEW row, Sound(row), Waiting(row), NEW in \in Instants, NEW out \in Instants
  PROVE  LET seg == Seg(row.room, in, out, row.stay[1].moved) IN
         /\ Rebooked(row, in, out).stay = <<seg>> /\ seg \in Segment /\ seg.moved # "during"
         /\ seg.room = row.room /\ seg.from = in /\ seg.to = out
<1>. DEFINE seg == Seg(row.room, in, out, row.stay[1].moved)
<1>1. /\ row \in Row /\ row.stay = <<row.stay[1]>> /\ Len(row.stay) = 1 /\ row.stay # <<>>
      /\ row.stay[1] \in Segment /\ row.stay[1].moved # "during"
      /\ LastSeg(row.stay) = row.stay[1]
  BY WaitingIsAlone
<1>2. row.room \in Rooms /\ row.stay[1].moved \in {"no", "before", "during"}
  BY <1>1 DEF Row, Segment
<1>3. /\ seg \in Segment /\ seg.moved = row.stay[1].moved /\ seg.from = in /\ seg.to = out
      /\ seg.room = row.room
  BY <1>2, SegAndWork DEF Seg
<1>4. Rebooked(row, in, out).stay = Replace(row.stay, {1}, seg)
  BY <1>1 DEF Rebooked, Row
<1>. HIDE DEF seg
<1>5. Replace(row.stay, {1}, seg) = <<seg>>
  BY <1>1, <1>3, ReplaceOfOne
<1>. QED
  BY <1>1, <1>3, <1>4, <1>5 DEF seg

\* A stay given another end.
LEMMA ShiftedRow ==
  ASSUME NEW row \in Row, NEW out \in Instants, Withdraws(row, out) => Underway(row, out) # {}
  PROVE  LET new == Shifted(row, out) IN
         /\ new \in Row /\ new.room = row.room /\ new.in = row.in /\ new.out = out
         /\ new.arrived = row.arrived /\ new.legs = LegsBefore(row, out)
         /\ new.corrected = row.corrected /\ new.proof = row.proof /\ new.left = row.left
         /\ new.stay = IF Withdraws(row, out) THEN Withdrawn(row, out)
                       ELSE EndLast(row.stay, Ending(row, out), out)
<1>. DEFINE st == IF Withdraws(row, out) THEN Withdrawn(row, out)
                  ELSE EndLast(row.stay, Ending(row, out), out)
            retired == Retire(row, DOMAIN row.stay \ Kept(row, out))
            legs == LegsBefore(row, out)
            new == Shifted(row, out)
<1>1. /\ row.stay \in Seq(Segment) /\ Len(row.stay) \in Nat /\ DOMAIN row.stay = 1..Len(row.stay)
      /\ row.legs \subseteq Leg
  BY StayOfRow
<1>2. st \in Seq(Segment)
  <2>1. CASE Withdraws(row, out)
    <3>1. Withdrawn(row, out) \in Seq(Segment)
      BY <2>1, WithdrawnIsStay
    <3>. QED
      BY <2>1, <3>1
  <2>2. CASE ~Withdraws(row, out)
    <3>1. Ending(row, out) \in SUBSET DOMAIN row.stay
      BY DEF Ending
    <3>. QED
      BY <1>1, <2>2, <3>1, EndLastIsStay
  <2>. QED
    BY <2>1, <2>2
<1>3. retired \subseteq Segment /\ legs \subseteq Leg
  BY <1>1, StayOfRow DEF LegsBefore
<1>4. new = [row EXCEPT !.out = out, !.stay = st, !.retired = retired, !.legs = legs]
  BY DEF Shifted
<1>. HIDE DEF st, retired, legs, new
<1>5. new \in Row
  BY <1>2, <1>3, <1>4 DEF Row
<1>6. /\ new.room = row.room /\ new.in = row.in /\ new.out = out
      /\ new.arrived = row.arrived /\ new.legs = legs
      /\ new.corrected = row.corrected /\ new.proof = row.proof /\ new.left = row.left
      /\ new.stay = st
  BY <1>4 DEF Row
<1>. QED
  BY <1>5, <1>6 DEF new, legs, st

\* The stay of an uncorrected row given another end, be the guest expected, in
\* house or gone with the tick and now back.
LEMMA ShiftedStay ==
  ASSUME NEW row, Sound(row), row.status # "cancelled", row.closedBy # "manual",
         NEW out \in Instants, Begins(row) < out,
         Withdraws(row, out) => Underway(row, out) # {}
  PROVE  LET st == Shifted(row, out).stay IN
         /\ Line(st) /\ Owes(st, LegsBefore(row, out))
         /\ st[1].room = row.room /\ st[1].from = Begins(row)
         /\ LastSeg(st).to = out /\ LastSeg(st).from < out
         /\ LastSeg(st).room = RoomThen(row, out)
         /\ (row.arrived = 0 => Len(st) = 1)
<1>. DEFINE left == Staying(row, out)
            st == EndAt(left, out)
<1>0. /\ row \in Row /\ Lived(row) /\ Line(row.stay) /\ Owes(row.stay, row.legs)
      /\ row.stay[1].from = Begins(row) /\ row.stay[1].room = row.room
      /\ LastSeg(row.stay).to = End(row)
  BY SoundIsLived DEF Lived
<1>1. /\ out \in Int /\ Len(row.stay) \in Nat /\ row.stay[1].from \in Int
      /\ DOMAIN row.stay = 1..Len(row.stay) /\ Len(row.stay) \in 1..Len(row.stay)
      /\ row.stay \in Seq(Segment) /\ row.stay[1].from < out
  BY <1>0, InstantsAreInts, SegmentsOfLine
<1>2. row.stay[1].from <= out
  BY <1>1
<1>3. /\ Line(left) /\ LastSeg(left).from < out /\ LastSeg(left).from <= out
      /\ Owes(left, LegsBefore(row, out)) /\ left[1] = row.stay[1]
      /\ Len(left) <= Len(row.stay)
      /\ (~Withdraws(row, out) => left = row.stay)
  BY <1>0, <1>1, <1>2, StayingIsLine
<1>4. End(row) = row.out
  <2>1. Typed(row) /\ row.left \in Int
    BY <1>0, SoundIsLived
  <2>2. row.left > 0 => row.closedBy # "nobody"
    BY <2>1, TypedRow
  <2>3. row.closedBy \in {"nobody", "manual", "scheduled"}
    BY <1>0 DEF Row
  <2>4. row.left > 0 => row.left = row.out
    BY <1>0, <2>2, <2>3 DEF Lived
  <2>. QED
    BY <2>4 DEF End
<1>5. Shifted(row, out).stay = st
  <2>1. CASE Withdraws(row, out)
    <3>1. Withdrawn(row, out) = st
      BY <1>0, <2>1, WithdrawnOfLine
    <3>. HIDE DEF st
    <3>. QED
      BY <1>0, <2>1, <3>1, ShiftedRow
  <2>2. CASE ~Withdraws(row, out)
    <3>1. Len(row.stay) \in Ending(row, out)
      BY <1>0, <1>1, <1>4 DEF Ending, LastSeg
    <3>2. Ending(row, out) \in SUBSET DOMAIN row.stay
      BY DEF Ending
    <3>3. EndLast(row.stay, Ending(row, out), out) = EndAt(row.stay, out)
      BY <1>1, <3>1, <3>2, EndLastOfLine
    <3>4. st = EndAt(row.stay, out)
      BY <1>3, <2>2
    <3>. HIDE DEF st
    <3>. QED
      BY <1>0, <2>2, <3>3, <3>4, ShiftedRow
  <2>. QED
    BY <2>1, <2>2
<1>6. row.arrived = 0 => Len(row.stay) = 1 /\ Len(left) = 1 /\ ~Withdraws(row, out)
  <2>. SUFFICES ASSUME row.arrived = 0
                PROVE  Len(row.stay) = 1 /\ Len(left) = 1 /\ ~Withdraws(row, out)
    OBVIOUS
  <2>1. Len(row.stay) = 1
    BY <1>0 DEF Lived
  <2>2. Len(left) \in Nat /\ Len(left) >= 1
    BY <1>3, SegmentsOfLine DEF Line
  <2>. HIDE DEF left, st
  <2>6. Len(left) <= 1
    BY <1>3, <2>1
  <2>7. \A n \in Nat : n >= 1 /\ n <= 1 => n = 1
    OBVIOUS
  <2>3. Len(left) = 1
    BY <2>2, <2>6, <2>7, Zenon
  <2>4. row.stay[1].moved # "during"
    BY <1>0, <2>1, OneIsLine
  <2>5. Kept(row, out) = DOMAIN row.stay
    BY <1>1, <2>1, <2>4 DEF Kept
  <2>. QED
    BY <2>1, <2>3, <2>5 DEF Withdraws
<1>7. LastSeg(left).room = RoomThen(row, out)
  <2>1. CASE row.arrived = 0
    BY <1>0, <1>3, <1>6, <2>1 DEF RoomThen, LastSeg
  <2>2. CASE row.arrived # 0 /\ Withdraws(row, out)
    BY <1>0, <2>2, WithdrawnOfLine DEF RoomThen
  <2>3. CASE row.arrived # 0 /\ ~Withdraws(row, out)
    <3>1. row.stay # <<>>
      BY <1>1
    <3>. QED
      BY <1>3, <2>3, <3>1 DEF RoomThen, LastRoom
  <2>. QED
    BY <2>1, <2>2, <2>3
<1>. HIDE DEF left
<1>8. /\ Line(st) /\ Len(st) = Len(left)
      /\ LastSeg(st) = [LastSeg(left) EXCEPT !.to = out]
      /\ st[1].room = left[1].room /\ st[1].from = left[1].from
  BY <1>3, EndAtLine
<1>9. Owes(st, LegsBefore(row, out))
  BY <1>3, EndAtLine
<1>10. LastSeg(left) \in Segment
  BY <1>3, SegmentsOfLine DEF LastSeg
<1>11. LastSeg(st).to = out /\ LastSeg(st).from < out /\ LastSeg(st).room = LastSeg(left).room
  BY <1>3, <1>8, <1>10 DEF Segment
<1>. HIDE DEF st
<1>. QED
  BY <1>0, <1>3, <1>5, <1>6, <1>7, <1>8, <1>9, <1>11

\* A reservation or a stay with another schedule.
LEMMA ChangedIsRight ==
  ASSUME NEW row, Right(row), NEW in \in Instants, NEW out \in Instants, in < out,
         out # Open, row.arrived <= now, now \in Int, MayReschedule(row, in, out),
         Withdraws(row, out) => Underway(row, out) # {}
  PROVE  LET new == Changed(row, in, out) IN
         /\ Right(new) /\ new.room = row.room /\ new.in = in /\ new.out = out
         /\ new.arrived = row.arrived /\ new.left = 0
         /\ new.corrected = row.corrected
         /\ new.proof = IF in # row.in THEN 0 ELSE row.proof
<1>. DEFINE plan == Replanned(row, in, out)
            final == Work(RoomThen(row, out), out, "private")
            new == Changed(row, in, out)
<1>1. /\ Typed(row) /\ row \in Row /\ row.in < row.out /\ 0 \in Instants
      /\ row.arrived \in Int /\ row.in \in Int /\ 0 <= row.arrived
      /\ in \in Int /\ out \in Int /\ row.room \in Rooms
  BY TypedRow, InstantsAreInts DEF Right
<1>2. /\ plan \in Row /\ plan.room = row.room /\ plan.in = in /\ plan.out = out
      /\ plan.arrived = row.arrived /\ plan.corrected = row.corrected
      /\ plan.proof = IF in # row.in THEN 0 ELSE row.proof
  <2>1. CASE in # row.in
    <3>1. plan = Rebooked(row, in, out)
      BY <2>1 DEF Replanned
    <3>. HIDE DEF plan
    <3>. QED
      BY <1>1, <2>1, <3>1, RebookedRow
  <2>2. CASE in = row.in
    <3>1. plan = Shifted(row, out)
      BY <2>2 DEF Replanned
    <3>. HIDE DEF plan
    <3>. QED
      BY <1>1, <2>2, <3>1, ShiftedRow
  <2>. QED
    BY <2>1, <2>2
<1>3. RoomThen(row, out) \in Rooms
  BY <1>1, RoomsOfRow, StayOfRow DEF RoomThen
<1>4. final \in Task /\ final.room = RoomThen(row, out) /\ final.from = out
  BY <1>3, SegAndWork
<1>5. /\ new = [plan EXCEPT !.status = "active", !.left = 0, !.closedBy = "nobody", !.final = final]
      /\ plan = IF in # row.in THEN Rebooked(row, in, out) ELSE Shifted(row, out)
  BY DEF Changed, Replanned
<1>. HIDE DEF new, final, plan
<1>6. /\ new.room = row.room /\ new.in = in /\ new.out = out /\ new.status = "active"
      /\ new.arrived = row.arrived /\ new.left = 0 /\ new.closedBy = "nobody"
      /\ new.stay = plan.stay /\ new.legs = plan.legs /\ new.final = final
      /\ new.corrected = row.corrected
      /\ new.proof = IF in # row.in THEN 0 ELSE row.proof
  BY <1>2, <1>5 DEF Row
<1>7. new \in Row
  BY <1>1, <1>2, <1>4, <1>5 DEF Row
<1>8. Typed(new) /\ End(new) = out /\ Begins(new) = IF row.arrived > 0 THEN row.arrived ELSE in
  BY <1>6, <1>7 DEF Typed, Begins, End
<1>9. ASSUME row.corrected = 0 PROVE Sound(new)
  <2>0. Sound(row)
    BY <1>9 DEF Right
  <2>1. CASE in # row.in
    <3>1. Waiting(row)
      BY <2>1 DEF MayReschedule
    <3>. DEFINE seg == Seg(row.room, in, out, row.stay[1].moved)
    <3>2. plan = Rebooked(row, in, out)
      BY <1>5, <2>1
    <3>3. /\ plan.stay = <<seg>> /\ seg \in Segment /\ seg.moved # "during"
          /\ seg.room = row.room /\ seg.from = in /\ seg.to = out
      BY <2>0, <3>1, <3>2, RebookedStay
    <3>. HIDE DEF seg
    <3>4. row.arrived = 0 /\ row.legs = {} /\ plan.legs = row.legs /\ RoomThen(row, out) = row.room
      BY <1>1, <2>0, <3>1, <3>2, WaitingIsAlone, RebookedRow DEF RoomThen
    <3>5. Begins(new) = in
      BY <1>8, <3>4
    <3>. QED
      BY <1>4, <1>6, <1>8, <3>3, <3>4, <3>5, AloneIsSound
  <2>2. CASE in = row.in
    <3>1. row.status # "cancelled" /\ row.closedBy # "manual"
      BY <1>1, TypedRow DEF MayReschedule, Waiting, InHouse, Active
    <3>2. Begins(row) < out /\ Begins(new) = Begins(row)
      <4>1. Begins(new) = Begins(row)
        BY <1>8, <2>2 DEF Begins
      <4>2. row.arrived > 0 => row.arrived < out
        BY <1>1 DEF MayReschedule, Waiting
      <4>. QED
        BY <2>2, <4>1, <4>2 DEF Begins
    <3>3. plan = Shifted(row, out)
      BY <1>5, <2>2
    <3>. DEFINE st == plan.stay
    <3>4. /\ Line(st) /\ Owes(st, LegsBefore(row, out))
          /\ st[1].room = row.room /\ st[1].from = Begins(row)
          /\ LastSeg(st).to = out /\ LastSeg(st).from < out
          /\ LastSeg(st).room = RoomThen(row, out)
          /\ (row.arrived = 0 => Len(st) = 1)
      BY <2>0, <3>1, <3>2, <3>3, ShiftedStay
    <3>5. plan.legs = LegsBefore(row, out)
      BY <1>1, <3>3, ShiftedRow
    <3>6. Lived(new)
      BY <1>4, <1>6, <1>8, <3>2, <3>4, <3>5 DEF Lived
    <3>. QED
      BY <1>6, <1>8, <3>6 DEF Sound
  <2>. QED
    BY <2>1, <2>2
<1>10. Right(new)
  BY <1>6, <1>8, <1>9 DEF Right
<1>. QED
  BY <1>6, <1>10 DEF new

\* An arrival moved of a long stay that keeps no end.
LEMMA OpenEndedIsRight ==
  ASSUME NEW row, Right(row), Waiting(row), row.out = Open, NEW in \in Instants, in < Open
  PROVE  LET new == Rebooked(row, in, Open) IN
         /\ Right(new) /\ new.room = row.room /\ new.in = in /\ new.arrived = row.arrived
         /\ new.left = row.left /\ new.status = row.status /\ new.proof = 0
         /\ new.corrected = row.corrected /\ new.out = Open
<1>. DEFINE new == Rebooked(row, in, Open)
            seg == Seg(row.room, in, Open, row.stay[1].moved)
<1>1. Typed(row) /\ row \in Row /\ Open \in Instants /\ row.arrived = 0 /\ Active(row)
  BY TypedRow, InstantsAreInts DEF Right, Waiting
<1>2. row.status = "active" /\ row.left = 0 /\ row.closedBy = "nobody"
  BY <1>1, TypedRow DEF Active
<1>3. /\ new \in Row /\ new.room = row.room /\ new.in = in /\ new.out = Open
      /\ new.arrived = row.arrived /\ new.legs = row.legs /\ new.final = row.final
      /\ new.corrected = row.corrected /\ new.proof = 0 /\ new.left = row.left
      /\ new.status = row.status /\ new.closedBy = row.closedBy
  BY <1>1, RebookedRow
<1>4. ASSUME row.corrected = 0
      PROVE  /\ new.stay = <<seg>> /\ seg \in Segment /\ seg.moved # "during"
             /\ seg.room = row.room /\ seg.from = in /\ seg.to = Open /\ row.legs = {}
  <2>1. Sound(row)
    BY <1>4 DEF Right
  <2>. HIDE DEF seg, new
  <2>2. row.legs = {}
    BY <2>1, WaitingIsAlone
  <2>. QED
    BY <1>1, <2>1, <2>2, RebookedStay DEF seg, new
<1>. HIDE DEF new, seg
<1>5. Typed(new) /\ Begins(new) = in /\ End(new) = Open
  BY <1>1, <1>2, <1>3 DEF Typed, Begins, End
<1>6. ASSUME row.corrected = 0 PROVE Sound(new)
  <2>1. ~(new.out # Open \/ new.left > 0) /\ new.closedBy # "scheduled" /\ new.status # "cancelled"
    BY <1>2, <1>3
  <2>2. seg.from < seg.to /\ new.legs = {}
    BY <1>3, <1>4, <1>6
  <2>. QED
    BY <1>3, <1>4, <1>5, <1>6, <2>1, <2>2, AloneIsSound
<1>7. Right(new)
  BY <1>3, <1>5, <1>6 DEF Right
<1>. QED
  BY <1>3, <1>7 DEF new

\* A cancelled reservation that was never corrected has no live segment.
LEMMA CancelledIsRight == ASSUME NEW row, Right(row), Waiting(row)
  PROVE  LET new == Cancelled(row) IN
         /\ Right(new) /\ new.room = row.room /\ new.in = row.in /\ new.arrived = row.arrived
         /\ new.status = "cancelled" /\ new.proof = 0 /\ new.corrected = row.corrected
         /\ (row.corrected = 0 => new.stay = <<>>)
<1>. DEFINE new == Cancelled(row)
            final == [row.final EXCEPT !.state = IF @ = "none" THEN @ ELSE "cancelled"]
            st == IF row.stay = <<>> THEN <<>> ELSE Front(row.stay)
<1>1. /\ Typed(row) /\ row \in Row /\ 0 \in Instants /\ row.arrived = 0 /\ Active(row)
      /\ row.in < row.out
  BY TypedRow, InstantsAreInts DEF Right, Waiting
<1>2. row.left = 0 /\ row.closedBy = "nobody"
  BY <1>1, TypedRow
<1>3. final \in Task
  BY <1>1 DEF Row, Task
<1>4. st \in Seq(Segment)
  <2>1. Len(row.stay) \in Nat /\ \A i \in 1..Len(row.stay) : row.stay[i] \in Segment
    BY <1>1, StayOfRow
  <2>2. \A i \in 1..(Len(row.stay) - 1) : row.stay[i] \in Segment
    BY <2>1
  <2>3. Len(row.stay) - 1 \in Int
    BY <2>1
  <2>4. SubSeq(row.stay, 1, Len(row.stay) - 1) \in Seq(Segment)
    BY <2>2, <2>3, SubSeqProperties
  <2>. QED
    BY <2>4 DEF Front
<1>5. row.corrected = 0 => st = <<>>
  <2>. SUFFICES ASSUME row.corrected = 0 PROVE st = <<>>
    OBVIOUS
  <2>1. row.stay = <<row.stay[1]>> /\ row.stay[1] \in Segment
    BY WaitingIsAlone DEF Right
  <2>2. Front(<<row.stay[1]>>) = <<>>
    BY <2>1, ReplaceOfOne
  <2>. QED
    BY <2>1, <2>2
<1>6. new = [row EXCEPT !.status = "cancelled", !.proof = 0, !.stay = st, !.final = final]
  BY <1>1 DEF Cancelled
<1>. HIDE DEF new, final, st
<1>7. /\ new.room = row.room /\ new.in = row.in /\ new.out = row.out /\ new.arrived = row.arrived
      /\ new.left = row.left /\ new.closedBy = row.closedBy /\ new.status = "cancelled"
      /\ new.stay = st /\ new.proof = 0 /\ new.corrected = row.corrected
  BY <1>1, <1>6 DEF Row
<1>8. new \in Row
  BY <1>1, <1>3, <1>4, <1>6 DEF Row
<1>9. Typed(new)
  BY <1>2, <1>7, <1>8 DEF Typed
<1>10. Right(new)
  BY <1>1, <1>5, <1>7, <1>9 DEF Right, Sound
<1>. QED
  BY <1>5, <1>7, <1>10 DEF new

\* A reservation moved to another room before arrival.
LEMMA RelocatedIsRight ==
  ASSUME NEW row, Right(row), Waiting(row), NEW room \in Rooms
  PROVE  LET new == Relocated(row, room) IN
         /\ Right(new) /\ new.room = room /\ new.in = row.in /\ new.arrived = row.arrived
         /\ new.status = row.status /\ new.proof = 0 /\ new.corrected = row.corrected
         /\ (row.corrected = 0 => new.stay[1].moved = "before")
<1>. DEFINE seg == Seg(room, row.in, row.out, "before")
            new == Relocated(row, room)
            final == [row.final EXCEPT !.room = room]
            st == Replace(row.stay, Booked(row), seg)
            retired == Retire(row, Booked(row))
<1>1. /\ Typed(row) /\ row \in Row /\ 0 \in Instants /\ row.arrived = 0 /\ Active(row)
      /\ row.in < row.out /\ row.in \in Instants /\ row.out \in Instants
      /\ row.stay \in Seq(Segment)
  BY TypedRow, StayOfRow, InstantsAreInts DEF Right, Waiting
<1>2. row.left = 0 /\ row.closedBy = "nobody" /\ row.status = "active"
  BY <1>1, TypedRow DEF Active
<1>3. final \in Task /\ final.room = room /\ final.from = row.final.from
  BY <1>1 DEF Row, Task
<1>4. /\ seg \in Segment /\ seg.from = row.in /\ seg.to = row.out /\ seg.room = room
      /\ seg.moved = "before"
  BY <1>1, SegAndWork
<1>5. Booked(row) \in SUBSET DOMAIN row.stay
  BY DEF Booked
<1>6. retired \subseteq Segment
  BY <1>1, <1>5, StayOfRow
<1>. HIDE DEF seg
<1>7. st \in Seq(Segment)
  BY <1>1, <1>4, <1>5, ReplaceIsStay
<1>8. ASSUME row.corrected = 0
      PROVE  /\ st = <<seg>> /\ row.legs = {}
             /\ (row.out # Open => row.final.from = row.out)
  <2>1. /\ row.stay = <<row.stay[1]>> /\ row.stay[1] \in Segment /\ Booked(row) = {1}
        /\ row.legs = {} /\ (row.out # Open => row.final.from = row.out)
    BY <1>8, WaitingIsAlone DEF Right
  <2>2. Replace(<<row.stay[1]>>, {1}, seg) = <<seg>>
    BY <1>4, <2>1, ReplaceOfOne
  <2>. QED
    BY <2>1, <2>2
<1>9. new = [row EXCEPT !.room = room, !.proof = 0, !.stay = st, !.retired = retired, !.final = final]
  BY <1>1 DEF Relocated, seg
<1>. HIDE DEF new, final, st, retired
<1>10. /\ new.room = room /\ new.in = row.in /\ new.out = row.out /\ new.status = row.status
       /\ new.arrived = row.arrived /\ new.left = row.left /\ new.closedBy = row.closedBy
       /\ new.stay = st /\ new.legs = row.legs /\ new.final = final /\ new.proof = 0
       /\ new.corrected = row.corrected
  BY <1>1, <1>9 DEF Row
<1>11. new \in Row
  BY <1>1, <1>3, <1>6, <1>7, <1>9 DEF Row
<1>12. Typed(new) /\ Begins(new) = row.in /\ End(new) = row.out
  BY <1>1, <1>2, <1>10, <1>11 DEF Typed, Begins, End
<1>13. ASSUME row.corrected = 0 PROVE Sound(new) /\ new.stay[1].moved = "before"
  <2>1. new.stay = <<seg>> /\ <<seg>>[1] = seg /\ new.legs = {}
    BY <1>8, <1>10, <1>13
  <2>2. (new.out # Open \/ new.left > 0) =>
           new.final.room = new.room /\ new.final.from = End(new)
    BY <1>2, <1>3, <1>8, <1>10, <1>12, <1>13
  <2>3. seg.from < seg.to /\ new.status # "cancelled" /\ new.closedBy # "scheduled"
    BY <1>1, <1>2, <1>4, <1>10
  <2>4. seg.moved # "during" /\ seg.room = new.room /\ seg.from = Begins(new) /\ seg.to = End(new)
    BY <1>4, <1>10, <1>12
  <2>5. Sound(new)
    BY <1>4, <1>12, <2>1, <2>2, <2>3, <2>4, AloneIsSound
  <2>. QED
    BY <1>4, <2>1, <2>5
<1>14. Right(new)
  BY <1>1, <1>10, <1>12, <1>13 DEF Right
<1>. QED
  BY <1>10, <1>13, <1>14 DEF new

\* What is left of the line of a stay that is ended by hand at t, before its last
\* segment is cut there.
LEMMA LeftOfLine ==
  ASSUME NEW row, Sound(row), InHouse(row), NEW t \in Instants,
         row.arrived <= t, t < row.out, Withdraws(row, t) => Underway(row, t) # {}
  PROVE  LET pre == IF Withdraws(row, t) THEN Withdrawn(row, t) ELSE row.stay IN
         /\ Line(pre) /\ Owes(pre, LegsBefore(row, t))
         /\ pre[1].room = row.room /\ pre[1].from = row.arrived
         /\ pre[1].moved = row.stay[1].moved
         /\ LastSeg(pre).from <= t /\ t <= LastSeg(pre).to
         /\ LastSeg(pre).room = IF Withdraws(row, t) THEN row.stay[Max(Underway(row, t))].room
                                ELSE RoomBefore(row, t)
         /\ (row.out = Open => Len(pre) = 1)
<1>. DEFINE left == Staying(row, t)
            pre == IF Withdraws(row, t) THEN Withdrawn(row, t) ELSE row.stay
<1>0. /\ row \in Row /\ Lived(row) /\ Line(row.stay) /\ Owes(row.stay, row.legs)
      /\ row.status = "active" /\ row.arrived > 0 /\ row.arrived \in Int /\ Typed(row)
      /\ row.stay[1].from = row.arrived /\ row.stay[1].room = row.room
      /\ LastSeg(row.stay).to = row.out
  BY SoundIsLived DEF InHouse, Active, Lived, Begins
<1>1. /\ t \in Int /\ Len(row.stay) \in Nat /\ row.stay[1].from <= t /\ row.out \in Int
      /\ t <= LastSeg(row.stay).to
  BY <1>0, InstantsAreInts, SegmentsOfLine, SoundIsLived
<1>2. /\ Line(left) /\ LastSeg(left).from <= t /\ Owes(left, LegsBefore(row, t))
      /\ left[1] = row.stay[1] /\ Len(left) <= Len(row.stay)
      /\ ~Withdraws(row, t) =>
           left = row.stay /\ \A i \in 2..Len(row.stay) : row.stay[i].from < t
  BY <1>0, <1>1, StayingIsLine
<1>3. CASE Withdraws(row, t)
  <2>1. /\ pre = EndAt(left, t)
        /\ row.stay[Max(Underway(row, t))] = LastSeg(left)
    BY <1>0, <1>3, WithdrawnOfLine
  <2>. HIDE DEF left, pre
  <2>2. /\ Line(pre) /\ Len(pre) = Len(left) /\ LastSeg(pre) = [LastSeg(left) EXCEPT !.to = t]
        /\ pre[1].room = left[1].room /\ pre[1].from = left[1].from
        /\ pre[1].moved = left[1].moved
    BY <1>2, <2>1, EndAtLine
  <2>3. Owes(pre, LegsBefore(row, t))
    BY <1>2, <2>1, EndAtLine
  <2>4. LastSeg(left) \in Segment
    BY <1>2, SegmentsOfLine DEF LastSeg
  <2>5. LastSeg(pre).room = LastSeg(left).room /\ LastSeg(pre).from = LastSeg(left).from
          /\ LastSeg(pre).to = t
    BY <2>2, <2>4 DEF Segment
  <2>6. row.out = Open => Len(pre) = 1
    <3>1. row.out = Open => Len(row.stay) = 1
      BY <1>0 DEF Lived
    <3>2. Len(row.stay) = 1 => Len(left) <= 1
      BY <1>2
    <3>3. Len(left) \in Nat /\ Len(left) >= 1
      BY <1>2, SegmentsOfLine DEF Line
    <3>4. \A n \in Nat : n >= 1 /\ n <= 1 => n = 1
      OBVIOUS
    <3>. QED
      BY <2>2, <3>1, <3>2, <3>3, <3>4, Zenon
  <2>7. t <= LastSeg(pre).to /\ LastSeg(pre).from <= t
    BY <1>1, <1>2, <2>5
  <2>8. LastSeg(pre).room = row.stay[Max(Underway(row, t))].room
    BY <2>1, <2>5
  <2>9. pre[1].room = row.room /\ pre[1].from = row.arrived /\ pre[1].moved = row.stay[1].moved
    BY <1>0, <1>2, <2>2
  <2>. QED
    BY <1>3, <2>2, <2>3, <2>6, <2>7, <2>8, <2>9 DEF pre
<1>4. CASE ~Withdraws(row, t)
  <2>1. RoomBefore(row, t) = LastSeg(row.stay).room
    BY <1>0, <1>1, <1>2, <1>4, RoomBeforeOfLine
  <2>2. Owes(row.stay, LegsBefore(row, t))
    BY <1>0, <1>4 DEF LegsBefore
  <2>3. LastSeg(row.stay).from <= t
    BY <1>2, <1>4
  <2>4. row.out = Open => Len(row.stay) = 1
    BY <1>0 DEF Lived
  <2>5. pre = row.stay
    BY <1>4
  <2>. HIDE DEF pre
  <2>. QED
    BY <1>0, <1>1, <1>4, <2>1, <2>2, <2>3, <2>4, <2>5 DEF pre
<1>. QED
  BY <1>3, <1>4

\* A stay ended by hand: the moves not begun are withdrawn, and the room the line
\* then ends in is owed a cleaning.
LEMMA CheckedOutIsRight ==
  ASSUME NEW row, Right(row), InHouse(row), NEW t \in Instants, t > 0,
         row.arrived <= t, t < row.out, Withdraws(row, t) => Underway(row, t) # {}
  PROVE  LET new == CheckedOut(row, t) IN
         /\ Right(new) /\ new.room = row.room /\ new.in = row.in /\ new.out = row.out
         /\ new.arrived = row.arrived /\ new.status = "checked_out" /\ new.left = t
         /\ new.proof = row.proof /\ new.corrected = row.corrected
         /\ (row.corrected = 0 => new.stay[1].moved = row.stay[1].moved)
<1>. DEFINE pre == IF Withdraws(row, t) THEN Withdrawn(row, t) ELSE row.stay
            last == IF Withdraws(row, t) THEN row.stay[Max(Underway(row, t))].room
                                         ELSE RoomBefore(row, t)
            st == EndLast(pre, Meets(pre, t), t)
            final == Work(last, t, "ready")
            retired == Retire(row, DOMAIN row.stay \ Kept(row, t))
            legs == LegsBefore(row, t)
            new == CheckedOut(row, t)
<1>1. /\ Typed(row) /\ row \in Row /\ row.in < row.out /\ row.stay \in Seq(Segment)
      /\ t \in Int /\ row.arrived > 0 /\ row.legs \subseteq Leg
  BY TypedRow, StayOfRow, InstantsAreInts DEF Right, InHouse
<1>2. pre \in Seq(Segment)
  <2>1. Withdraws(row, t) => Withdrawn(row, t) \in Seq(Segment)
    BY <1>1, WithdrawnIsStay
  <2>. QED
    BY <1>1, <2>1
<1>3. last \in Rooms
  BY <1>1, RoomsOfRow
<1>4. final \in Task /\ final.room = last /\ final.from = t
  BY <1>3, SegAndWork
<1>5. retired \subseteq Segment /\ legs \subseteq Leg
  BY <1>1, StayOfRow DEF LegsBefore
<1>6. new = [row EXCEPT !.status = "checked_out", !.left = t, !.closedBy = "manual",
               !.stay = st, !.final = final, !.retired = retired, !.legs = legs]
  BY DEF CheckedOut
<1>. HIDE DEF final, retired, last
<1>7. Meets(pre, t) \in SUBSET DOMAIN pre
  BY DEF Meets
<1>. HIDE DEF pre
<1>8. st \in Seq(Segment)
  BY <1>2, <1>7, EndLastIsStay
<1>. HIDE DEF st, new, legs
<1>9. /\ new.room = row.room /\ new.in = row.in /\ new.out = row.out
      /\ new.status = "checked_out" /\ new.arrived = row.arrived /\ new.left = t
      /\ new.closedBy = "manual" /\ new.stay = st /\ new.legs = legs /\ new.final = final
      /\ new.proof = row.proof /\ new.corrected = row.corrected
  BY <1>1, <1>6 DEF Row
<1>10. new \in Row
  BY <1>1, <1>4, <1>5, <1>6, <1>8 DEF Row
<1>11. Typed(new) /\ Begins(new) = row.arrived /\ End(new) = t
  BY <1>1, <1>9, <1>10 DEF Typed, Begins, End
<1>12. ASSUME row.corrected = 0 PROVE Sound(new) /\ new.stay[1].moved = row.stay[1].moved
  <2>1. Sound(row)
    BY <1>12 DEF Right
  <2>2. /\ Line(pre) /\ Owes(pre, legs)
        /\ pre[1].room = row.room /\ pre[1].from = row.arrived
        /\ pre[1].moved = row.stay[1].moved
        /\ LastSeg(pre).from <= t /\ t <= LastSeg(pre).to /\ LastSeg(pre).room = last
        /\ (row.out = Open => Len(pre) = 1)
    BY <2>1, LeftOfLine DEF pre, last, legs
  <2>3. /\ DOMAIN pre = 1..Len(pre) /\ Len(pre) \in 1..Len(pre)
        /\ LastSeg(pre) \in Segment
    BY <2>2, SegmentsOfLine DEF LastSeg
  <2>4. Len(pre) \in Meets(pre, t)
    BY <2>2, <2>3 DEF Meets, LastSeg
  <2>5. st = EndAt(pre, t)
    BY <1>2, <1>7, <2>4, EndLastOfLine DEF st
  <2>6. /\ Line(st) /\ Len(st) = Len(pre) /\ LastSeg(st) = [LastSeg(pre) EXCEPT !.to = t]
        /\ st[1].room = pre[1].room /\ st[1].from = pre[1].from
        /\ st[1].moved = pre[1].moved
    BY <2>2, <2>5, EndAtLine
  <2>7. Owes(st, legs)
    BY <2>2, <2>5, EndAtLine
  <2>8. LastSeg(st).to = t /\ LastSeg(st).room = last
    BY <2>2, <2>3, <2>6 DEF Segment
  <2>9. row.arrived # 0 /\ (row.out = Open => Len(st) = 1)
    BY <1>1, <2>2, <2>6
  <2>10. Lived(new)
    <3>1. /\ Line(new.stay) /\ Owes(new.stay, new.legs)
          /\ new.stay[1].room = new.room /\ new.stay[1].from = Begins(new)
      BY <1>9, <1>11, <2>2, <2>6, <2>7
    <3>2. /\ LastSeg(new.stay).to = End(new) /\ new.closedBy = "manual"
          /\ new.final.room = LastSeg(new.stay).room /\ new.final.from = End(new)
      BY <1>4, <1>9, <1>11, <2>8
    <3>3. (new.arrived = 0 \/ new.out = Open) => Len(new.stay) = 1
      BY <1>9, <2>9
    <3>. QED
      BY <3>1, <3>2, <3>3 DEF Lived
  <2>11. Sound(new)
    BY <1>9, <1>11, <2>10 DEF Sound
  <2>. QED
    BY <1>9, <2>2, <2>6, <2>11
<1>13. Right(new)
  BY <1>1, <1>9, <1>11, <1>12 DEF Right
<1>. QED
  BY <1>9, <1>12, <1>13 DEF new

\* A guest comes in at t, before the end: the only segment begins then.
LEMMA EnteredIsRight ==
  ASSUME NEW row, Right(row), Waiting(row), NEW t \in Instants, t > 0, t < row.out
  PROVE  LET new == Entered(row, t) IN
         /\ Right(new) /\ new.room = row.room /\ new.in = row.in /\ new.out = row.out
         /\ new.arrived = t /\ new.status = row.status /\ new.left = row.left
         /\ new.proof = row.proof /\ new.corrected = row.corrected
         /\ (row.corrected = 0 => new.stay[1].moved = row.stay[1].moved)
<1>. DEFINE seg == Seg(row.room, t, row.out, MovedBy(row.stay, Booked(row)))
            new == Entered(row, t)
            st == Replace(row.stay, Booked(row), seg)
            retired == Retire(row, Booked(row))
<1>1. /\ Typed(row) /\ row \in Row /\ row.arrived = 0 /\ Active(row)
      /\ row.in < row.out /\ row.out \in Instants /\ row.room \in Rooms
      /\ row.stay \in Seq(Segment)
  BY TypedRow, StayOfRow DEF Right, Waiting
<1>2. row.left = 0 /\ row.closedBy = "nobody" /\ row.status = "active"
  BY <1>1, TypedRow DEF Active
<1>3. Booked(row) \in SUBSET DOMAIN row.stay
  BY DEF Booked
<1>4. retired \subseteq Segment /\ MovedBy(row.stay, Booked(row)) \in {"no", "before", "during"}
  BY <1>1, <1>3, StayOfRow
<1>5. /\ seg \in Segment /\ seg.from = t /\ seg.to = row.out /\ seg.room = row.room
      /\ seg.moved = MovedBy(row.stay, Booked(row))
  BY <1>1, <1>4, SegAndWork
<1>. HIDE DEF seg
<1>6. st \in Seq(Segment)
  BY <1>1, <1>3, <1>5, ReplaceIsStay
<1>7. ASSUME row.corrected = 0
      PROVE  /\ st = <<seg>> /\ row.legs = {} /\ seg.moved = row.stay[1].moved
             /\ seg.moved # "during"
             /\ (row.out # Open => row.final.room = row.room /\ row.final.from = row.out)
  <2>1. /\ row.stay = <<row.stay[1]>> /\ row.stay[1] \in Segment /\ Booked(row) = {1}
        /\ row.legs = {} /\ row.stay[1].moved # "during"
        /\ (row.out # Open => row.final.room = row.room /\ row.final.from = row.out)
    BY <1>7, WaitingIsAlone DEF Right
  <2>2. /\ Replace(<<row.stay[1]>>, {1}, seg) = <<seg>>
        /\ MovedBy(<<row.stay[1]>>, {1}) = row.stay[1].moved
    BY <1>5, <2>1, ReplaceOfOne
  <2>. QED
    BY <1>5, <2>1, <2>2
<1>8. new = [row EXCEPT !.arrived = t, !.stay = st, !.retired = retired]
  BY <1>1 DEF Entered, seg
<1>. HIDE DEF new, st, retired
<1>9. /\ new.room = row.room /\ new.in = row.in /\ new.out = row.out /\ new.status = row.status
      /\ new.arrived = t /\ new.left = row.left /\ new.closedBy = row.closedBy
      /\ new.stay = st /\ new.legs = row.legs /\ new.final = row.final
      /\ new.proof = row.proof /\ new.corrected = row.corrected
  BY <1>1, <1>8 DEF Row
<1>10. new \in Row
  BY <1>1, <1>4, <1>6, <1>8 DEF Row
<1>11. Typed(new) /\ Begins(new) = t /\ End(new) = row.out
  BY <1>1, <1>2, <1>9, <1>10 DEF Typed, Begins, End
<1>12. ASSUME row.corrected = 0 PROVE Sound(new) /\ new.stay[1].moved = row.stay[1].moved
  <2>1. new.stay = <<seg>> /\ <<seg>>[1] = seg /\ new.legs = {}
    BY <1>7, <1>9, <1>12
  <2>2. (new.out # Open \/ new.left > 0) =>
           new.final.room = new.room /\ new.final.from = End(new)
    BY <1>2, <1>7, <1>9, <1>11, <1>12
  <2>3. seg.from < seg.to /\ new.status # "cancelled" /\ new.closedBy # "scheduled"
    BY <1>2, <1>5, <1>9
  <2>4. seg.moved # "during" /\ seg.room = new.room /\ seg.from = Begins(new) /\ seg.to = End(new)
    BY <1>5, <1>7, <1>9, <1>11, <1>12
  <2>5. Sound(new)
    BY <1>5, <1>11, <2>1, <2>2, <2>3, <2>4, AloneIsSound
  <2>. QED
    BY <1>7, <1>12, <2>1, <2>5
<1>13. Right(new)
  BY <1>1, <1>9, <1>11, <1>12 DEF Right
<1>. QED
  BY <1>9, <1>12, <1>13 DEF new

\* The tick closes a stay at its scheduled end, whether the guest ever came or not.
LEMMA ClosedIsRight ==
  ASSUME NEW row, Right(row), Active(row), row.out # Open
  PROVE  LET new == Closed(row) IN
         /\ Right(new) /\ new.room = row.room /\ new.in = row.in /\ new.out = row.out
         /\ new.arrived = row.arrived /\ new.status = "checked_out" /\ new.left = row.out
         /\ new.proof = row.proof /\ new.corrected = row.corrected
         /\ (row.corrected = 0 => new.stay = row.stay)
<1>. DEFINE new == Closed(row)
            final == [row.final EXCEPT !.state = "ready"]
            st == EndLast(row.stay, Meets(row.stay, row.out), row.out)
<1>1. /\ Typed(row) /\ row \in Row /\ row.in < row.out /\ row.stay \in Seq(Segment)
      /\ row.out \in Instants /\ row.in \in Int /\ 0 <= row.in /\ row.out \in Int
      /\ End(row) = row.out /\ row.closedBy = "nobody" /\ row.status # "cancelled"
  BY TypedRow, StayOfRow DEF Right
<1>2. row.out > 0
  BY <1>1
<1>3. final \in Task /\ final.room = row.final.room /\ final.from = row.final.from
  BY <1>1 DEF Row, Task
<1>4. Meets(row.stay, row.out) \in SUBSET DOMAIN row.stay
  BY DEF Meets
<1>5. st \in Seq(Segment)
  BY <1>1, <1>4, EndLastIsStay
<1>6. ASSUME row.corrected = 0 PROVE Lived(row) /\ st = row.stay
  <2>1. Lived(row) /\ Line(row.stay) /\ LastSeg(row.stay).to = row.out
    BY <1>1, <1>6, SoundIsLived DEF Right, Lived
  <2>. DEFINE n == Len(row.stay)
  <2>2. /\ DOMAIN row.stay = 1..n /\ n \in 1..n /\ row.stay[n] \in Segment
        /\ row.stay[n].from \in Int /\ row.stay[n].from <= row.out /\ row.stay[n].to = row.out
    BY <2>1, SegmentsOfLine DEF Line, LastSeg
  <2>3. n \in Meets(row.stay, row.out)
    BY <1>1, <2>2 DEF Meets
  <2>4. st = EndAt(row.stay, row.out)
    BY <1>1, <1>4, <2>3, EndLastOfLine
  <2>5. [row.stay[n] EXCEPT !.to = row.out] = row.stay[n]
    BY <2>2 DEF Segment
  <2>6. EndAt(row.stay, row.out) = [row.stay EXCEPT ![n] = row.stay[n]]
    BY <2>5 DEF EndAt
  <2>7. [row.stay EXCEPT ![n] = row.stay[n]] = row.stay
    <3>1. row.stay \in [1..n -> Segment]
      BY <2>1, SegmentsOfLine
    <3>. HIDE DEF n
    <3>. QED
      BY <3>1
  <2>. QED
    BY <2>1, <2>4, <2>6, <2>7
<1>7. new = [row EXCEPT !.status = "checked_out", !.left = row.out, !.stay = st,
               !.closedBy = "scheduled", !.final = final]
  BY <1>1 DEF Closed
<1>. HIDE DEF new, final, st
<1>8. /\ new.room = row.room /\ new.in = row.in /\ new.out = row.out
      /\ new.status = "checked_out" /\ new.arrived = row.arrived /\ new.left = row.out
      /\ new.closedBy = "scheduled" /\ new.stay = st /\ new.legs = row.legs
      /\ new.final = final /\ new.proof = row.proof /\ new.corrected = row.corrected
  BY <1>1, <1>7 DEF Row
<1>9. new \in Row
  BY <1>1, <1>3, <1>5, <1>7 DEF Row
<1>10. Typed(new) /\ Begins(new) = Begins(row) /\ End(new) = row.out
  BY <1>2, <1>8, <1>9 DEF Typed, Begins, End
<1>11. ASSUME row.corrected = 0 PROVE Sound(new)
  <2>1. Lived(row) /\ new.stay = row.stay
    BY <1>6, <1>8, <1>11
  <2>2. new.final.room = LastSeg(new.stay).room /\ new.final.from = row.out
    BY <1>1, <1>3, <1>8, <2>1 DEF Lived
  <2>3. Lived(new)
    BY <1>1, <1>8, <1>10, <2>1, <2>2 DEF Lived
  <2>. QED
    BY <1>8, <1>10, <2>3 DEF Sound
<1>12. Right(new)
  BY <1>1, <1>8, <1>10, <1>11 DEF Right
<1>. QED
  BY <1>6, <1>8, <1>12 DEF new

\* Approved checkout work of a stay.
LEMMA FinalDoneIsRight == ASSUME NEW row, Right(row)
  PROVE  LET new == [row EXCEPT !.final.state = "done"] IN
         /\ Right(new) /\ new.stay = row.stay /\ new.arrived = row.arrived
         /\ new.room = row.room /\ new.in = row.in /\ new.out = row.out /\ new.left = row.left
         /\ new.status = row.status /\ new.closedBy = row.closedBy /\ new.proof = row.proof
         /\ new.corrected = row.corrected
<1>. DEFINE final == [row.final EXCEPT !.state = "done"]
            new == [row EXCEPT !.final.state = "done"]
<1>0. row \in Row
  BY DEF Right, Typed
<1>2. final \in Task /\ final.room = row.final.room /\ final.from = row.final.from
  BY <1>0 DEF Row, Task
<1>3. new = [row EXCEPT !.final = final]
  OBVIOUS
<1>. HIDE DEF new, final
<1>4. /\ new.room = row.room /\ new.in = row.in /\ new.out = row.out
      /\ new.status = row.status /\ new.arrived = row.arrived /\ new.left = row.left
      /\ new.closedBy = row.closedBy /\ new.stay = row.stay /\ new.legs = row.legs
      /\ new.final = final /\ new.proof = row.proof /\ new.corrected = row.corrected
  BY <1>0, <1>3 DEF Row
<1>5. new \in Row
  BY <1>0, <1>2, <1>3 DEF Row
<1>6. Typed(new) /\ Begins(new) = Begins(row) /\ End(new) = End(row)
  BY <1>4, <1>5 DEF Right, Typed, Begins, End
<1>7. row.corrected = 0 /\ row.status # "cancelled" => Lived(new)
  BY <1>2, <1>4, <1>6 DEF Right, Sound, Lived
<1>8. Right(new)
  BY <1>4, <1>6, <1>7 DEF Right, Sound
<1>. QED
  BY <1>4, <1>8 DEF new

\* Approved segment work of a stay.
LEMMA LegDoneIsRight == ASSUME NEW row, Right(row), NEW leg \in row.legs
  PROVE  LET new == [row EXCEPT !.legs = (@ \ {leg}) \cup {[leg EXCEPT !.done = TRUE]}] IN
         /\ Right(new) /\ new.stay = row.stay /\ new.arrived = row.arrived
         /\ new.room = row.room /\ new.in = row.in /\ new.out = row.out /\ new.left = row.left
         /\ new.status = row.status /\ new.closedBy = row.closedBy /\ new.proof = row.proof
         /\ new.corrected = row.corrected
<1>. DEFINE done == [leg EXCEPT !.done = TRUE]
            legs == (row.legs \ {leg}) \cup {done}
            new == [row EXCEPT !.legs = legs]
<1>0. row \in Row /\ leg \in Leg /\ row.legs \subseteq Leg
  BY DEF Right, Typed, Row
<1>1. done \in Leg /\ done.room = leg.room /\ done.from = leg.from
  BY <1>0 DEF Leg
<1>. HIDE DEF done
<1>2. legs \subseteq Leg
  BY <1>0, <1>1
<1>3. ASSUME NEW st, Owes(st, row.legs) PROVE Owes(st, legs)
  <2>1. \A l \in row.legs : \E i \in 1..(Len(st) - 1) :
          l.room = st[i].room /\ l.from = st[i].to
    BY <1>3 DEF Owes
  <2>2. ASSUME NEW l \in legs
        PROVE  \E i \in 1..(Len(st) - 1) : l.room = st[i].room /\ l.from = st[i].to
    <3>1. PICK m \in row.legs : l.room = m.room /\ l.from = m.from
      BY <1>1
    <3>. QED
      BY <2>1, <3>1
  <2>3. ASSUME NEW i \in 1..(Len(st) - 1)
        PROVE  \E l \in legs : l.room = st[i].room /\ l.from = st[i].to
    <3>1. PICK m \in row.legs : m.room = st[i].room /\ m.from = st[i].to
      BY <1>3 DEF Owes
    <3>. QED
      BY <1>1, <3>1
  <2>4. ASSUME NEW l \in legs, NEW m \in legs, l.from = m.from PROVE l = m
    <3>1. \A k, o \in row.legs : k.from = o.from => k = o
      BY <1>3 DEF Owes
    <3>. QED
      BY <1>1, <2>4, <3>1
  <2>. QED
    BY <1>2, <2>2, <2>3, <2>4 DEF Owes
<1>. HIDE DEF legs
<1>4. /\ new.room = row.room /\ new.in = row.in /\ new.out = row.out
      /\ new.status = row.status /\ new.arrived = row.arrived /\ new.left = row.left
      /\ new.closedBy = row.closedBy /\ new.stay = row.stay /\ new.legs = legs
      /\ new.final = row.final /\ new.proof = row.proof /\ new.corrected = row.corrected
  BY <1>0 DEF Row
<1>5. new \in Row
  BY <1>0, <1>2 DEF Row
<1>. HIDE DEF new
<1>6. Typed(new) /\ Begins(new) = Begins(row) /\ End(new) = End(row)
  BY <1>4, <1>5 DEF Right, Typed, Begins, End
<1>7. row.corrected = 0 /\ row.status # "cancelled" => Lived(new)
  BY <1>3, <1>4, <1>6 DEF Right, Sound, Lived
<1>8. Right(new)
  BY <1>4, <1>6, <1>7 DEF Right, Sound
<1>. QED
  BY <1>4, <1>8 DEF new, legs, done

\* A correction of the occupancy writes segments.
LEMMA CorrectedIsRight ==
  ASSUME NEW row, Right(row), NEW st \in Seq(Segment), NEW retired \in SUBSET Segment
  PROVE  LET new == Corrected(row, st, retired) IN
         /\ Right(new) /\ new.arrived = row.arrived /\ new.room = row.room /\ new.in = row.in
         /\ new.left = row.left /\ new.status = row.status /\ new.proof = row.proof
         /\ new.corrected > 0
<1>. DEFINE new == Corrected(row, st, retired)
            times == row.corrected + 1
<1>1. /\ row \in Row /\ row.corrected \in Nat /\ row.in < row.out /\ Typed(row)
  BY TypedRow DEF Right
<1>2. times \in Nat /\ times > 0 /\ times # 0
  BY <1>1
<1>3. new = [row EXCEPT !.stay = st, !.retired = retired, !.corrected = times]
  BY DEF Corrected
<1>. HIDE DEF times, new
<1>4. /\ new.room = row.room /\ new.in = row.in /\ new.out = row.out
      /\ new.status = row.status /\ new.arrived = row.arrived /\ new.left = row.left
      /\ new.closedBy = row.closedBy /\ new.proof = row.proof
      /\ new.corrected = times
  BY <1>1, <1>3 DEF Row
<1>5. new \in Row
  BY <1>1, <1>2, <1>3 DEF Row
<1>6. Typed(new)
  BY <1>1, <1>4, <1>5 DEF Typed
<1>7. Right(new)
  BY <1>1, <1>2, <1>4, <1>6 DEF Right
<1>. QED
  BY <1>2, <1>4, <1>7 DEF new

\* A line cut at t and carried on by a segment from there is a line, and owes in
\* addition the work of the room left at t.
LEMMA LineCarriedOn ==
  ASSUME NEW row, Line(row.stay), Owes(row.stay, row.legs),
         NEW t \in Instants, LastSeg(row.stay).from < t,
         NEW seg \in Segment, seg.from = t, seg.from <= seg.to, seg.moved = "during",
         NEW leg \in Leg, leg.room = LastSeg(row.stay).room, leg.from = t
  PROVE  LET st == Append(EndAt(row.stay, t), seg) IN
         /\ Line(st) /\ Len(st) = Len(row.stay) + 1 /\ LastSeg(st) = seg
         /\ st[1].room = row.stay[1].room /\ st[1].from = row.stay[1].from
         /\ st[1].moved = row.stay[1].moved
         /\ \A i \in 1..(Len(row.stay) - 1) : st[i] = row.stay[i]
         /\ st[Len(row.stay)] = [LastSeg(row.stay) EXCEPT !.to = t]
         /\ st[Len(row.stay) + 1] = seg
         /\ Owes(st, row.legs \cup {leg})
<1>. DEFINE cut == EndAt(row.stay, t)
            st == Append(cut, seg)
            n == Len(row.stay)
            legs == row.legs \cup {leg}
<1>1. /\ n \in Nat /\ n \in 1..n /\ t \in Int /\ 1 \in 1..n
      /\ LastSeg(row.stay) \in Segment /\ LastSeg(row.stay).from \in Int
      /\ \A i \in 1..n : row.stay[i].from \in Int /\ row.stay[i].to \in Int
  BY InstantsAreInts, SegmentsOfLine DEF LastSeg
<1>2. LastSeg(row.stay).from <= t
  BY <1>1
<1>3. /\ Line(cut) /\ Len(cut) = n /\ LastSeg(cut) = [LastSeg(row.stay) EXCEPT !.to = t]
      /\ cut[1].room = row.stay[1].room /\ cut[1].from = row.stay[1].from
      /\ cut[1].moved = row.stay[1].moved
      /\ \A i \in 1..(n - 1) : cut[i] = row.stay[i]
  BY <1>2, EndAtLine
<1>. HIDE DEF cut
<1>5. /\ st \in Seq(Segment) /\ Len(st) = n + 1 /\ st[n + 1] = seg
      /\ \A i \in 1..n : st[i] = cut[i]
  <2>1. cut \in Seq(Segment)
    BY <1>3, SegmentsOfLine
  <2>. QED
    BY <1>3, <2>1, AppendProperties
<1>. HIDE DEF st
<1>6. /\ cut[n].room = LastSeg(row.stay).room /\ cut[n].from = LastSeg(row.stay).from
      /\ cut[n].to = t /\ \A i \in 1..n : cut[i].from \in Int /\ cut[i].to \in Int
  <2>1. cut[n] = LastSeg(cut)
    BY <1>3 DEF LastSeg
  <2>. QED
    BY <1>1, <1>3, <2>1, SegmentsOfLine DEF Segment
<1>7. Line(st)
  <2>1. \A i \in 2..(n + 1) : st[i].from = st[i - 1].to
    <3>1. \A i \in 2..n : cut[i].from = cut[i - 1].to
      BY <1>3 DEF Line
    <3>2. \A i \in 2..n : st[i] = cut[i] /\ st[i - 1] = cut[i - 1]
      BY <1>1, <1>5
    <3>3. st[n + 1].from = st[n + 1 - 1].to
      BY <1>1, <1>5, <1>6
    <3>4. \A i \in 2..(n + 1) : i = n + 1 \/ i \in 2..n
      BY <1>1
    <3>. QED
      BY <3>1, <3>2, <3>3, <3>4
  <2>2. \A i \in 1..(n + 1) : (st[i].moved = "during") <=> (i >= 2)
    <3>1. \A i \in 1..n : (cut[i].moved = "during") <=> (i >= 2)
      BY <1>3 DEF Line
    <3>2. \A i \in 1..(n + 1) : i = n + 1 \/ i \in 1..n
      BY <1>1
    <3>. QED
      BY <1>1, <1>5, <3>1, <3>2
  <2>3. \A i \in 1..n : st[i].from < st[i].to
    <3>1. \A i \in 1..(n - 1) : cut[i].from < cut[i].to
      BY <1>3 DEF Line
    <3>2. cut[n].from < cut[n].to
      BY <1>6
    <3>3. \A i \in 1..n : i = n \/ i \in 1..(n - 1)
      BY <1>1
    <3>. QED
      BY <1>5, <3>1, <3>2, <3>3
  <2>4. ASSUME NEW i \in 1..(n + 1), NEW j \in 1..(n + 1), i < j
        PROVE  st[i].to <= st[j].from
    <3>1. CASE j = n + 1
      <4>1. i \in 1..n /\ (i = n \/ i < n)
        BY <1>1, <2>4, <3>1
      <4>2. CASE i = n
        BY <1>1, <1>5, <1>6, <3>1, <4>1, <4>2
      <4>3. CASE i < n
        <5>1. cut[i].to <= cut[n].from
          BY <1>1, <1>3, <4>1, <4>3 DEF Line
        <5>. QED
          BY <1>1, <1>5, <1>6, <3>1, <4>1, <5>1
      <4>. QED
        BY <4>1, <4>2, <4>3
    <3>2. CASE j # n + 1
      <4>1. i \in 1..n /\ j \in 1..n
        <5>. HIDE DEF n
        <5>. QED
          BY <1>1, <2>4, <3>2
      <4>. QED
        BY <1>3, <1>5, <2>4, <4>1 DEF Line
    <3>. QED
      BY <3>1, <3>2
  <2>5. LastSeg(st).from <= LastSeg(st).to
    BY <1>1, <1>5 DEF LastSeg
  <2>6. Len(st) = n + 1 /\ Len(st) - 1 = n /\ Len(st) >= 1
    BY <1>1, <1>5
  <2>. HIDE DEF n
  <2>. QED
    BY <1>5, <2>1, <2>2, <2>3, <2>4, <2>5, <2>6 DEF Line
<1>9. \A i \in 1..(n - 1) : /\ i \in 1..n /\ st[i].room = row.stay[i].room
                            /\ st[i].to = row.stay[i].to /\ row.stay[i].to < t
  <2>. SUFFICES ASSUME NEW i \in 1..(n - 1)
                PROVE  /\ i \in 1..n /\ st[i].room = row.stay[i].room
                       /\ st[i].to = row.stay[i].to /\ row.stay[i].to < t
    OBVIOUS
  <2>1. i \in 1..n /\ i < n
    BY <1>1
  <2>2. st[i] = row.stay[i]
    BY <1>3, <1>5, <2>1
  <2>3. row.stay[i].to <= row.stay[n].from
    BY <1>1, <2>1 DEF Line
  <2>. QED
    BY <1>1, <2>1, <2>2, <2>3 DEF LastSeg
<1>10. Owes(st, legs)
  <2>1. \A l \in row.legs : \E i \in 1..(n - 1) :
          l.room = row.stay[i].room /\ l.from = row.stay[i].to
    BY DEF Owes
  <2>2. st[n].room = leg.room /\ st[n].to = leg.from
    BY <1>1, <1>5, <1>6
  <2>3. \A l \in row.legs : l.from < t
    BY <1>9, <2>1
  <2>4. ASSUME NEW l \in legs
        PROVE  \E i \in 1..n : l.room = st[i].room /\ l.from = st[i].to
    <3>1. CASE l = leg
      BY <1>1, <2>2, <3>1
    <3>2. CASE l \in row.legs
      BY <1>9, <2>1, <3>2
    <3>. QED
      BY <3>1, <3>2
  <2>5. ASSUME NEW i \in 1..n
        PROVE  \E l \in legs : l.room = st[i].room /\ l.from = st[i].to
    <3>1. CASE i = n
      BY <2>2, <3>1
    <3>2. CASE i # n
      <4>1. i \in 1..(n - 1)
        BY <1>1, <3>2
      <4>2. PICK l \in row.legs : l.room = row.stay[i].room /\ l.from = row.stay[i].to
        BY <4>1 DEF Owes
      <4>. QED
        BY <1>9, <4>1, <4>2
    <3>. QED
      BY <3>1, <3>2
  <2>6. legs \subseteq Leg
    BY DEF Owes
  <2>7. ASSUME NEW l \in legs, NEW m \in legs, l.from = m.from PROVE l = m
    <3>1. \A k \in row.legs : k.from # t
      BY <1>1, <2>3
    <3>2. \A k, o \in row.legs : k.from = o.from => k = o
      BY DEF Owes
    <3>. QED
      BY <2>7, <3>1, <3>2
  <2>8. Len(st) - 1 = n
    BY <1>1, <1>5
  <2>. QED
    BY <2>4, <2>5, <2>6, <2>7, <2>8 DEF Owes
<1>11. LastSeg(st) = seg /\ st[1] = cut[1] /\ \A i \in 1..(n - 1) : st[i] = row.stay[i]
  <2>1. \A i \in 1..(n - 1) : i \in 1..n
    BY <1>1
  <2>. QED
    BY <1>1, <1>3, <1>5, <2>1 DEF LastSeg
<1>12. st[n] = LastSeg(cut)
  BY <1>1, <1>3, <1>5 DEF LastSeg
<1>. QED
  BY <1>3, <1>5, <1>7, <1>10, <1>11, <1>12 DEF st, cut

\* The segments of a stay moved on: all but the last, that one cut, and a new one.
LEMMA CutStay ==
  ASSUME NEW st \in Seq(Segment), st # <<>>, NEW cut \in Segment, NEW seg \in Segment
  PROVE  LET to == Front(st) \o <<cut, seg>> IN
         /\ to \in Seq(Segment) /\ Len(to) = Len(st) + 1
         /\ \A i \in 1..(Len(st) - 1) : to[i] = st[i]
         /\ to[Len(st)] = cut /\ to[Len(st) + 1] = seg
<1>. DEFINE n == Len(st)
            front == SubSeq(st, 1, n - 1)
            two == <<cut, seg>>
            to == front \o two
<1>1. n \in Nat /\ n >= 1 /\ \A i \in 1..n : st[i] \in Segment
  BY LenProperties, EmptySeq
<1>2. \A i \in 1..(n - 1) : st[i] \in Segment
  BY <1>1
<1>3. n - 1 \in Nat /\ 1 \in Int
  BY <1>1
<1>. HIDE DEF n
<1>4. /\ front \in Seq(Segment) /\ Len(front) = n - 1
      /\ \A i \in 1..(n - 1) : front[i] = st[i]
  BY <1>2, <1>3, SubSeqProperties
<1>5. two \in Seq(Segment) /\ Len(two) = 2 /\ two[1] = cut /\ two[2] = seg
  OBVIOUS
<1>6. Front(st) = front
  BY DEF Front, n
<1>. HIDE DEF front, two
<1>7. /\ to \in Seq(Segment) /\ Len(to) = (n - 1) + 2
      /\ \A i \in 1..((n - 1) + 2) : to[i] = IF i <= n - 1 THEN front[i] ELSE two[i - (n - 1)]
  <2>1. /\ to \in Seq(Segment) /\ Len(to) = Len(front) + Len(two)
        /\ \A i \in 1..(Len(front) + Len(two)) :
             to[i] = IF i <= Len(front) THEN front[i] ELSE two[i - Len(front)]
    BY <1>4, <1>5, ConcatProperties
  <2>. HIDE DEF to
  <2>. QED
    BY <1>4, <1>5, <2>1
<1>. HIDE DEF to
<1>8. /\ n \in 1..((n - 1) + 2) /\ ~(n <= n - 1) /\ n - (n - 1) = 1
      /\ n + 1 \in 1..((n - 1) + 2) /\ ~(n + 1 <= n - 1) /\ (n + 1) - (n - 1) = 2
      /\ (n - 1) + 2 = n + 1
      /\ \A i \in 1..(n - 1) : i \in 1..((n - 1) + 2) /\ i <= n - 1
  BY <1>1
<1>9. to[n] = cut /\ to[n + 1] = seg
  BY <1>5, <1>7, <1>8
<1>10. \A i \in 1..(n - 1) : to[i] = st[i]
  BY <1>4, <1>7, <1>8
<1>. QED
  BY <1>6, <1>7, <1>8, <1>9, <1>10 DEF n, to, two

\* A guest moved on to another room: as a line cut and carried on.
LEMMA MovedOnStay ==
  ASSUME NEW row, Sound(row), InHouse(row), row.out # Open,
         NEW room \in Rooms, NEW t \in Instants, LastSeg(row.stay).from < t, t < row.out
  PROVE  LET st == MovedOn(row, room, t).stay IN
         /\ Line(st) /\ Owes(st, MovedOn(row, room, t).legs)
         /\ st[1].room = row.room /\ st[1].from = row.arrived
         /\ st[1].moved = row.stay[1].moved
         /\ LastSeg(st).room = room /\ LastSeg(st).from = t /\ LastSeg(st).to = row.out
<1>. DEFINE n == Len(row.stay)
            cut == Cut(LastSeg(row.stay), t)
            seg == Seg(room, t, row.out, "during")
            leg == [room |-> LastSeg(row.stay).room, from |-> t, done |-> FALSE]
            to == Front(row.stay) \o <<cut, seg>>
            st == Append(EndAt(row.stay, t), seg)
<1>1. /\ row \in Row /\ Lived(row) /\ Line(row.stay) /\ Owes(row.stay, row.legs)
      /\ row.arrived > 0
  BY SoundIsLived DEF InHouse, Active
<1>2. /\ row.stay \in Seq(Segment) /\ n \in Nat /\ n >= 1 /\ n \in 1..n
      /\ LastSeg(row.stay) \in Segment /\ row.stay # <<>>
      /\ \A i \in 1..n : row.stay[i] \in Segment
  BY <1>1, SegmentsOfLine, EmptySeq DEF LastSeg, Line
<1>3. /\ cut \in Segment /\ cut.room = LastSeg(row.stay).room
      /\ cut.from = LastSeg(row.stay).from /\ cut.to = t
      /\ cut.moved = LastSeg(row.stay).moved
  BY <1>2 DEF Cut, Segment
<1>4. row.out \in Instants /\ row.out \in Int /\ t \in Int
  BY <1>1, TypedRow, InstantsAreInts DEF Right, Sound
<1>5. /\ seg \in Segment /\ seg.room = room /\ seg.from = t /\ seg.to = row.out
      /\ seg.moved = "during" /\ seg.from <= seg.to
  BY <1>4, SegAndWork
<1>6. leg \in Leg /\ leg.room = LastSeg(row.stay).room /\ leg.from = t
  BY <1>2 DEF Leg, Segment
<1>7. MovedOn(row, room, t).stay = to /\ MovedOn(row, room, t).legs = row.legs \cup {leg}
  BY <1>1 DEF MovedOn, Row
<1>. HIDE DEF cut, seg, leg
<1>8. /\ to \in Seq(Segment) /\ Len(to) = n + 1 /\ to[n] = cut /\ to[n + 1] = seg
      /\ \A i \in 1..(n - 1) : to[i] = row.stay[i]
  <2>. DEFINE old == row.stay
  <2>1. old \in Seq(Segment) /\ old # <<>> /\ to = Front(old) \o <<cut, seg>> /\ n = Len(old)
    BY <1>2
  <2>. HIDE DEF old, to, n
  <2>2. /\ to \in Seq(Segment) /\ Len(to) = Len(old) + 1
        /\ \A i \in 1..(Len(old) - 1) : to[i] = old[i]
        /\ to[Len(old)] = cut /\ to[Len(old) + 1] = seg
    BY <1>3, <1>5, <2>1, CutStay
  <2>. QED
    BY <2>1, <2>2 DEF old
<1>9. /\ Line(st) /\ Len(st) = n + 1 /\ LastSeg(st) = seg
      /\ st[1].room = row.stay[1].room /\ st[1].from = row.stay[1].from
      /\ st[1].moved = row.stay[1].moved
      /\ \A i \in 1..(n - 1) : st[i] = row.stay[i]
      /\ st[n] = [LastSeg(row.stay) EXCEPT !.to = t]
      /\ st[n + 1] = seg
      /\ Owes(st, row.legs \cup {leg})
  BY <1>1, <1>5, <1>6, LineCarriedOn
<1>. HIDE DEF to, st
<1>10. /\ st[n].room = cut.room /\ st[n].from = cut.from /\ st[n].to = cut.to
       /\ st[n].moved = cut.moved
  BY <1>2, <1>3, <1>9 DEF Segment
<1>11. Alike(st, to)
  <2>1. \A i \in 1..(n + 1) : i = n + 1 \/ i = n \/ i \in 1..(n - 1)
    BY <1>2
  <2>2. ASSUME NEW i \in 1..(n + 1)
        PROVE  /\ to[i].room = st[i].room /\ to[i].from = st[i].from
               /\ to[i].to = st[i].to /\ to[i].moved = st[i].moved
    <3>1. CASE i = n + 1
      BY <1>8, <1>9, <3>1
    <3>2. CASE i = n
      BY <1>8, <1>10, <3>2
    <3>3. CASE i \in 1..(n - 1)
      BY <1>8, <1>9, <3>3
    <3>. QED
      BY <2>1, <3>1, <3>2, <3>3
  <2>. QED
    BY <1>8, <1>9, <2>2 DEF Alike
<1>12. /\ Line(to) /\ to[1].room = st[1].room /\ to[1].from = st[1].from
       /\ to[1].moved = st[1].moved
       /\ LastSeg(to).room = LastSeg(st).room /\ LastSeg(to).from = LastSeg(st).from
       /\ LastSeg(to).to = LastSeg(st).to
       /\ Owes(to, row.legs \cup {leg})
  BY <1>8, <1>9, <1>11, LineOfAlike
<1>13. row.stay[1].room = row.room /\ row.stay[1].from = row.arrived
  BY <1>1 DEF Lived, Begins
<1>. QED
  BY <1>5, <1>7, <1>9, <1>12, <1>13

LEMMA MovedOnIsRight ==
  ASSUME NEW row, Right(row), InHouse(row), row.out # Open, row.stay # <<>>,
         NEW room \in Rooms, NEW t \in Instants, LastSeg(row.stay).from < t, t < row.out
  PROVE  LET new == MovedOn(row, room, t) IN
         /\ Right(new) /\ new.room = row.room /\ new.in = row.in /\ new.out = row.out
         /\ new.arrived = row.arrived /\ new.left = row.left /\ new.status = row.status
         /\ new.closedBy = row.closedBy
         /\ new.proof = row.proof /\ new.corrected = row.corrected
         /\ (row.corrected = 0 => new.stay[1].moved = row.stay[1].moved)
<1>. DEFINE cut == Cut(LastSeg(row.stay), t)
            seg == Seg(room, t, row.out, "during")
            leg == [room |-> LastSeg(row.stay).room, from |-> t, done |-> FALSE]
            st == Front(row.stay) \o <<cut, seg>>
            final == Work(room, row.out, "private")
            legs == row.legs \cup {leg}
            new == MovedOn(row, room, t)
<1>1. /\ Typed(row) /\ row \in Row /\ row.in < row.out /\ row.stay \in Seq(Segment)
      /\ row.arrived > 0 /\ row.legs \subseteq Leg /\ row.out \in Instants
      /\ Active(row) /\ row.left = 0 /\ row.closedBy = "nobody" /\ End(row) = row.out
      /\ row.status # "cancelled"
  BY TypedRow, StayOfRow DEF Right, InHouse
<1>2. LastSeg(row.stay) \in Segment
  BY <1>1, StayOfRow DEF LastSeg
<1>3. cut \in Segment
  BY <1>2 DEF Cut, Segment
<1>4. /\ seg \in Segment /\ final \in Task /\ final.room = room /\ final.from = row.out
  BY <1>1, SegAndWork
<1>5. leg \in Leg
  BY <1>2 DEF Leg, Segment
<1>6. st \in Seq(Segment)
  <2>. HIDE DEF cut, seg
  <2>. QED
    BY <1>1, <1>3, <1>4, CutStay
<1>7. legs \subseteq Leg
  BY <1>1, <1>5
<1>8. new = [row EXCEPT !.stay = st, !.final = final, !.legs = legs]
  BY DEF MovedOn
<1>. HIDE DEF st, final, legs, new
<1>9. /\ new.room = row.room /\ new.in = row.in /\ new.out = row.out
      /\ new.status = row.status /\ new.arrived = row.arrived /\ new.left = row.left
      /\ new.closedBy = row.closedBy /\ new.stay = st /\ new.legs = legs /\ new.final = final
      /\ new.proof = row.proof /\ new.corrected = row.corrected
  BY <1>1, <1>8 DEF Row
<1>10. new \in Row
  BY <1>1, <1>4, <1>6, <1>7, <1>8 DEF Row
<1>11. Typed(new) /\ Begins(new) = row.arrived /\ End(new) = row.out
  BY <1>1, <1>9, <1>10 DEF Typed, Begins, End
<1>12. ASSUME row.corrected = 0 PROVE Sound(new) /\ new.stay[1].moved = row.stay[1].moved
  <2>1. Sound(row)
    BY <1>12 DEF Right
  <2>2. /\ Line(new.stay) /\ Owes(new.stay, new.legs)
        /\ new.stay[1].room = row.room /\ new.stay[1].from = row.arrived
        /\ new.stay[1].moved = row.stay[1].moved
        /\ LastSeg(new.stay).room = room /\ LastSeg(new.stay).from = t
        /\ LastSeg(new.stay).to = row.out
    BY <2>1, MovedOnStay DEF new
  <2>3. row.arrived # 0
    BY <1>1
  <2>4. Lived(new)
    <3>1. /\ Line(new.stay) /\ Owes(new.stay, new.legs)
          /\ new.stay[1].room = new.room /\ new.stay[1].from = Begins(new)
      BY <1>9, <1>11, <2>2
    <3>2. /\ LastSeg(new.stay).to = End(new) /\ new.closedBy = "nobody"
          /\ LastSeg(new.stay).from < LastSeg(new.stay).to
          /\ new.final.room = LastSeg(new.stay).room /\ new.final.from = End(new)
      BY <1>1, <1>4, <1>9, <1>11, <2>2
    <3>. QED
      BY <1>9, <2>3, <3>1, <3>2 DEF Lived
  <2>5. Sound(new)
    BY <1>1, <1>9, <1>11, <2>4 DEF Sound
  <2>. QED
    BY <2>2, <2>5
<1>13. Right(new)
  BY <1>1, <1>9, <1>11, <1>12 DEF Right
<1>. QED
  BY <1>9, <1>12, <1>13 DEF new

(***************************************************************************)
(* The inductive invariant                                                 *)
(***************************************************************************)
\* Every row is right and no guest came after t.
RowsRight(b, t) ==
  /\ DOMAIN b \subseteq Reservations
  /\ \A r \in DOMAIN b : Right(b[r]) /\ b[r].arrived <= t

Clock == now \in 1..(Horizon + 1)

Inv ==
  /\ Clock
  /\ RowsRight(book, now) /\ Fits(book)
  /\ request \in [Rooms -> Instants] /\ cleaned \in [Rooms -> Instants]

\* The clock never reaches the instant that stands for no end.
LEMMA ClockIsInstant == ASSUME Clock
  PROVE now \in Instants /\ now \in Int /\ now > 0 /\ 0 < now /\ now < Open /\ 0 \in Instants
BY HorizonIsEven DEF Clock, Instants, Open

\* The plans asked for have an arrival before their end.
LEMMA PlansAreInstants == ASSUME NEW r \in Reservations, NEW p \in Plans[r]
  PROVE p[1] \in Instants /\ p[2] \in Instants /\ p[1] < p[2] /\ p[1] < Open
BY HorizonIsEven, PlansAreInTheHorizon DEF Instants, Open

\* Writing one right row leaves a right book.
LEMMA PutIsRight ==
  ASSUME NEW b, NEW t, RowsRight(b, t), NEW r \in DOMAIN b, NEW row,
         Right(row), row.arrived <= t
  PROVE  RowsRight([b EXCEPT ![r] = row], t)
<1>. DEFINE c == [b EXCEPT ![r] = row]
<1>1. DOMAIN c = DOMAIN b /\ \A q \in DOMAIN b : c[q] = IF q = r THEN row ELSE b[q]
  OBVIOUS
<1>. HIDE DEF c
<1>2. RowsRight(c, t)
  BY <1>1 DEF RowsRight
<1>. QED
  BY <1>2 DEF c

\* Withdrawing stale proofs leaves a right book.
LEMMA DropIsRight == ASSUME NEW b, NEW t, RowsRight(b, t), NEW rooms
  PROVE RowsRight(DropStaleProofs(b, rooms), t)
<1>. DEFINE c == DropStaleProofs(b, rooms)
<1>1. DOMAIN c = DOMAIN b
  BY DEF DropStaleProofs
<1>2. ASSUME NEW q \in DOMAIN b PROVE Right(c[q]) /\ c[q].arrived <= t
  <2>1. Right(b[q]) /\ b[q].arrived <= t
    BY DEF RowsRight
  <2>2. c[q] = b[q] \/ c[q] = [b[q] EXCEPT !.proof = 0]
    BY DEF DropStaleProofs
  <2>3. Right([b[q] EXCEPT !.proof = 0]) /\ [b[q] EXCEPT !.proof = 0].arrived = b[q].arrived
    BY <2>1, ProofIsRight, InstantsAreInts
  <2>. QED
    BY <2>1, <2>2, <2>3
<1>. HIDE DEF c
<1>3. RowsRight(c, t)
  BY <1>1, <1>2 DEF RowsRight
<1>. QED
  BY <1>3 DEF c

\* The exclusion constraint is about segments alone.
LEMMA FitsOfSame ==
  ASSUME NEW b, NEW c, DOMAIN c = DOMAIN b, \A r \in DOMAIN b : c[r].stay = b[r].stay, Fits(b)
  PROVE  Fits(c)
BY DEF Fits

\* Giving a proof leaves a right book with the same segments.
LEMMA GiveIsRight ==
  ASSUME NEW b, NEW t, RowsRight(b, t), Fits(b), NEW room, NEW from \in Instants
  PROVE  RowsRight(GiveProof(b, room, from), t) /\ Fits(GiveProof(b, room, from))
<1>. DEFINE c == GiveProof(b, room, from)
            wanting == {r \in DOMAIN b :
                    /\ b[r].room = room /\ Active(b[r]) /\ b[r].proof = 0
                    /\ b[r].in >= now /\ from >= RequiredAfter(b, r)}
            r == CHOOSE r \in wanting : \A q \in wanting : b[r].in <= b[q].in
<1>1. c = b \/ c = [b EXCEPT ![r].proof = from]
  BY DEF GiveProof
<1>. HIDE DEF r
<1>2. DOMAIN c = DOMAIN b
        /\ \A q \in DOMAIN b : c[q] = b[q] \/ c[q] = [b[q] EXCEPT !.proof = from]
  BY <1>1
<1>. HIDE DEF c
<1>3. ASSUME NEW q \in DOMAIN b
      PROVE  Right(c[q]) /\ c[q].arrived <= t /\ c[q].stay = b[q].stay
  <2>1. Right(b[q]) /\ b[q].arrived <= t
    BY DEF RowsRight
  <2>2. Right([b[q] EXCEPT !.proof = from]) /\ [b[q] EXCEPT !.proof = from].arrived = b[q].arrived
        /\ [b[q] EXCEPT !.proof = from].stay = b[q].stay
    BY <2>1, ProofIsRight
  <2>. QED
    BY <1>2, <2>1, <2>2
<1>4. RowsRight(c, t)
  BY <1>2, <1>3 DEF RowsRight
<1>5. Fits(c)
  BY <1>2, <1>3, FitsOfSame
<1>. QED
  BY <1>4, <1>5 DEF c

\* Arrivals before their end leave a right book.
LEMMA EnterIsRight ==
  ASSUME NEW b, Clock, RowsRight(b, now), NEW rs,
         \A r \in rs : r \in DOMAIN b => Waiting(b[r]) /\ now < b[r].out
  PROVE  /\ RowsRight(Enter(b, rs), now) /\ DOMAIN Enter(b, rs) = DOMAIN b
         /\ \A r \in DOMAIN b : Enter(b, rs)[r].out = b[r].out
<1>. DEFINE c == Enter(b, rs)
<1>1. DOMAIN c = DOMAIN b
  BY DEF Enter
<1>2. ASSUME NEW q \in DOMAIN b
      PROVE  Right(c[q]) /\ c[q].arrived <= now /\ c[q].out = b[q].out
  <2>1. Right(b[q]) /\ b[q].arrived <= now /\ now \in Instants /\ now > 0 /\ now <= now
    BY ClockIsInstant DEF RowsRight
  <2>2. CASE q \in rs
    <3>1. c[q] = Entered(b[q], now)
      BY <2>2 DEF Enter, Entered
    <3>2. Waiting(b[q]) /\ now < b[q].out
      BY <2>2
    <3>. HIDE DEF c
    <3>. QED
      BY <2>1, <3>1, <3>2, EnteredIsRight
  <2>3. CASE q \notin rs
    BY <2>1, <2>3 DEF Enter
  <2>. QED
    BY <2>2, <2>3
<1>. HIDE DEF c
<1>3. RowsRight(c, now)
  BY <1>1, <1>2 DEF RowsRight
<1>. QED
  BY <1>1, <1>2, <1>3 DEF c

\* Closing what is due leaves a right book in which no active stay is due.
LEMMA CloseIsRight ==
  ASSUME NEW b, Clock, RowsRight(b, now)
  PROVE  /\ RowsRight(Close(b), now) /\ DOMAIN Close(b) = DOMAIN b
         /\ \A r \in DOMAIN b : Active(Close(b)[r]) => now < Close(b)[r].out
<1>. DEFINE c == Close(b)
<1>1. DOMAIN c = DOMAIN b
  BY DEF Close
<1>2. ASSUME NEW q \in DOMAIN b
      PROVE  Right(c[q]) /\ c[q].arrived <= now /\ (Active(c[q]) => now < c[q].out)
  <2>1. Right(b[q]) /\ b[q].arrived <= now /\ b[q] \in Row
    BY DEF RowsRight, Right, Typed
  <2>2. b[q].out \in Int /\ now \in Int /\ now < Open
    BY <2>1, ClockIsInstant, InstantsAreInts DEF Row
  <2>3. CASE q \in Due(b)
    <3>1. c[q] = Closed(b[q])
      BY <2>3 DEF Close, Closed
    <3>2. Active(b[q]) /\ b[q].out # Open
      BY <2>2, <2>3, InstantsAreInts DEF Due
    <3>. HIDE DEF c
    <3>3. Right(c[q]) /\ c[q].arrived = b[q].arrived /\ c[q].status = "checked_out"
      BY <2>1, <3>1, <3>2, ClosedIsRight
    <3>. QED
      BY <2>1, <3>3 DEF Active
  <2>4. CASE q \notin Due(b)
    <3>1. c[q] = b[q]
      BY <2>4 DEF Close
    <3>2. Active(b[q]) => ~(b[q].out <= now)
      BY <2>4 DEF Due
    <3>. HIDE DEF c
    <3>. QED
      BY <2>1, <2>2, <3>1, <3>2
  <2>. QED
    BY <2>3, <2>4
<1>. HIDE DEF c
<1>3. RowsRight(c, now)
  BY <1>1, <1>2 DEF RowsRight
<1>. QED
  BY <1>1, <1>2, <1>3 DEF c

(***************************************************************************)
(* The commands and the tick keep the invariant                            *)
(***************************************************************************)
\* A command that commits a right book keeps the invariant.
LEMMA CommitIsRight ==
  ASSUME Inv, NEW b, RowsRight(b, now), Commit(b), UNCHANGED <<now, request, cleaned>>
  PROVE  Inv'
<1>1. book' = b /\ Fits(b) /\ now' = now /\ request' = request /\ cleaned' = cleaned
  BY DEF Commit, Allowed
<1>. QED
  BY <1>1 DEF Inv, Clock

\* The same of a command that withdraws the proofs made stale.
LEMMA DropCommitIsRight ==
  ASSUME Inv, NEW b, NEW rooms, RowsRight(b, now), Commit(DropStaleProofs(b, rooms)),
         UNCHANGED <<now, request, cleaned>>
  PROVE  Inv'
<1>1. RowsRight(DropStaleProofs(b, rooms), now)
  BY DropIsRight
<1>. QED
  BY <1>1, CommitIsRight

\* The facts about one row that every command starts from.
LEMMA RowOfInv == ASSUME Inv, NEW r \in DOMAIN book
  PROVE /\ Right(book[r]) /\ book[r].arrived <= now /\ book[r] \in Row
        /\ RowsRight(book, now) /\ Clock
BY DEF Inv, RowsRight, Right, Typed

\* What each command that withdraws proofs writes before it does.
LEMMA CreateWrites ==
  ASSUME Inv, NEW r \in Reservations, NEW room \in Rooms, NEW p \in Plans[r],
         CreateReservation(r, room, p[1], p[2])
  PROVE  LET row == Created(room, p[1], p[2])
             b == [q \in DOMAIN book \cup {r} |-> IF q = r THEN row ELSE book[q]]
         IN /\ Right(row) /\ RowsRight(b, now) /\ Commit(DropStaleProofs(b, {room}))
            /\ UNCHANGED <<now, request, cleaned>>
<1>. DEFINE row == Created(room, p[1], p[2])
            b == [q \in DOMAIN book \cup {r} |-> IF q = r THEN row ELSE book[q]]
<1>1. RowsRight(book, now) /\ now \in Instants /\ now > 0 /\ now \in Int
  BY ClockIsInstant DEF Inv
<1>2. Right(row)
  BY <1>1, PlansAreInstants, CreatedIsRight
<1>3. row.arrived <= now
  BY <1>1 DEF Created
<1>4. Commit(DropStaleProofs(b, {room})) /\ UNCHANGED <<now, request, cleaned>>
  BY DEF CreateReservation, Created
<1>. HIDE DEF row
<1>5. RowsRight(b, now)
  BY <1>1, <1>2, <1>3 DEF RowsRight
<1>. QED
  BY <1>2, <1>4, <1>5 DEF row

LEMMA CreateKeepsInv ==
  ASSUME Inv, NEW r \in Reservations, NEW room \in Rooms, NEW p \in Plans[r],
         CreateReservation(r, room, p[1], p[2])
  PROVE  Inv'
<1>. DEFINE b == [q \in DOMAIN book \cup {r} |->
                   IF q = r THEN Created(room, p[1], p[2]) ELSE book[q]]
<1>1. RowsRight(b, now) /\ Commit(DropStaleProofs(b, {room}))
        /\ UNCHANGED <<now, request, cleaned>>
  BY CreateWrites
<1>. HIDE DEF b
<1>. QED
  BY <1>1, DropCommitIsRight

LEMMA ChangeWrites ==
  ASSUME Inv, NEW r \in Reservations, NEW p \in Plans[r], ChangeReservation(r, p[1], p[2])
  PROVE  LET row == book[r]
             new == Changed(row, p[1], p[2])
             b == [book EXCEPT ![r] = new]
         IN /\ r \in DOMAIN book /\ p[2] # Open /\ MayReschedule(row, p[1], p[2])
            /\ Withdraws(row, p[2]) => Underway(row, p[2]) # {}
            /\ ProofHolds(b, r)
            /\ Right(row) /\ Right(new) /\ new.arrived = row.arrived /\ RowsRight(b, now)
            /\ Commit(DropStaleProofs(b, {row.room, RoomThen(row, p[2])}))
            /\ UNCHANGED <<now, request, cleaned>>
<1>. DEFINE row == book[r]
            in == p[1]
            out == p[2]
            new == Changed(row, in, out)
            b == [book EXCEPT ![r] = new]
<1>1. /\ r \in DOMAIN book /\ out # Open /\ MayReschedule(row, in, out)
      /\ Withdraws(row, out) => Underway(row, out) # {}
  BY DEF ChangeReservation
<1>2. /\ Right(row) /\ row.arrived <= now /\ row \in Row
      /\ RowsRight(book, now) /\ Clock
  BY <1>1, RowOfInv
<1>3. in \in Instants /\ out \in Instants /\ in < out /\ now \in Int
  BY <1>2, PlansAreInstants, ClockIsInstant
<1>4. /\ Commit(DropStaleProofs(b, {row.room, RoomThen(row, out)}))
      /\ ProofHolds(b, r) /\ UNCHANGED <<now, request, cleaned>>
  BY DEF ChangeReservation, Changed, Replanned, RoomThen
<1>. HIDE DEF row, in, out
<1>5. Right(new) /\ new.arrived = row.arrived
  BY <1>1, <1>2, <1>3, ChangedIsRight
<1>. HIDE DEF new
<1>6. RowsRight(b, now)
  BY <1>1, <1>2, <1>5, PutIsRight DEF row
<1>. QED
  BY <1>1, <1>2, <1>4, <1>5, <1>6 DEF new, row, in, out

LEMMA ChangeKeepsInv ==
  ASSUME Inv, NEW r \in Reservations, NEW p \in Plans[r], ChangeReservation(r, p[1], p[2])
  PROVE  Inv'
<1>. DEFINE b == [book EXCEPT ![r] = Changed(book[r], p[1], p[2])]
            rooms == {book[r].room, RoomThen(book[r], p[2])}
<1>1. RowsRight(b, now) /\ Commit(DropStaleProofs(b, rooms))
        /\ UNCHANGED <<now, request, cleaned>>
  BY ChangeWrites
<1>. HIDE DEF b, rooms
<1>. QED
  BY <1>1, DropCommitIsRight

LEMMA ChangeOpenEndedWrites ==
  ASSUME Inv, NEW r \in Reservations, NEW p \in Plans[r], ChangeOpenEnded(r, p[1])
  PROVE  LET row == book[r]
             new == Rebooked(row, p[1], Open)
             b == [book EXCEPT ![r] = new]
         IN /\ r \in DOMAIN book /\ Waiting(row) /\ row.out = Open
            /\ Right(row) /\ Right(new) /\ new.arrived = row.arrived /\ RowsRight(b, now)
            /\ Commit(DropStaleProofs(b, {row.room}))
            /\ UNCHANGED <<now, request, cleaned>>
<1>. DEFINE row == book[r]
            new == Rebooked(row, p[1], Open)
            b == [book EXCEPT ![r] = new]
<1>1. r \in DOMAIN book /\ Waiting(row) /\ row.out = Open
  BY DEF ChangeOpenEnded
<1>2. /\ Right(row) /\ row.arrived <= now /\ row \in Row
      /\ RowsRight(book, now) /\ Clock
  BY <1>1, RowOfInv
<1>3. Commit(DropStaleProofs(b, {row.room})) /\ UNCHANGED <<now, request, cleaned>>
  BY DEF ChangeOpenEnded
<1>. HIDE DEF row
<1>4. Right(new) /\ new.arrived = row.arrived
  BY <1>1, <1>2, PlansAreInstants, OpenEndedIsRight
<1>. HIDE DEF new
<1>5. RowsRight(b, now)
  BY <1>1, <1>2, <1>4, PutIsRight DEF row
<1>. QED
  BY <1>1, <1>2, <1>3, <1>4, <1>5 DEF new, row

LEMMA ChangeOpenEndedKeepsInv ==
  ASSUME Inv, NEW r \in Reservations, NEW p \in Plans[r], ChangeOpenEnded(r, p[1])
  PROVE  Inv'
<1>. DEFINE b == [book EXCEPT ![r] = Rebooked(book[r], p[1], Open)]
<1>1. RowsRight(b, now) /\ Commit(DropStaleProofs(b, {book[r].room}))
        /\ UNCHANGED <<now, request, cleaned>>
  BY ChangeOpenEndedWrites
<1>. HIDE DEF b
<1>. QED
  BY <1>1, DropCommitIsRight

LEMMA CancelWrites ==
  ASSUME Inv, NEW r \in Reservations, CancelReservation(r)
  PROVE  LET row == book[r]
             new == Cancelled(row)
             b == [book EXCEPT ![r] = new]
         IN /\ r \in DOMAIN book /\ Waiting(row)
            /\ Right(row) /\ Right(new) /\ new.arrived = row.arrived /\ RowsRight(b, now)
            /\ Commit(DropStaleProofs(b, {row.room}))
            /\ UNCHANGED <<now, request, cleaned>>
<1>. DEFINE row == book[r]
            new == Cancelled(row)
            b == [book EXCEPT ![r] = new]
<1>1. r \in DOMAIN book /\ Waiting(row)
  BY DEF CancelReservation
<1>2. /\ Right(row) /\ row.arrived <= now /\ row \in Row
      /\ RowsRight(book, now) /\ Clock
  BY <1>1, RowOfInv
<1>3. Commit(DropStaleProofs(b, {row.room})) /\ UNCHANGED <<now, request, cleaned>>
  BY DEF CancelReservation, Cancelled
<1>. HIDE DEF row
<1>4. Right(new) /\ new.arrived = row.arrived
  BY <1>1, <1>2, CancelledIsRight
<1>. HIDE DEF new
<1>5. RowsRight(b, now)
  BY <1>1, <1>2, <1>4, PutIsRight DEF row
<1>. QED
  BY <1>1, <1>2, <1>3, <1>4, <1>5 DEF new, row

LEMMA CancelKeepsInv ==
  ASSUME Inv, NEW r \in Reservations, CancelReservation(r)
  PROVE  Inv'
<1>. DEFINE b == [book EXCEPT ![r] = Cancelled(book[r])]
<1>1. RowsRight(b, now) /\ Commit(DropStaleProofs(b, {book[r].room}))
        /\ UNCHANGED <<now, request, cleaned>>
  BY CancelWrites
<1>. HIDE DEF b
<1>. QED
  BY <1>1, DropCommitIsRight

LEMMA MoveBeforeKeepsInv ==
  ASSUME Inv, NEW r \in Reservations, NEW room \in Rooms, MoveBeforeCheckin(r, room)
  PROVE  Inv'
<1>. DEFINE row == book[r]
            new == Relocated(row, room)
            b == [book EXCEPT ![r] = new]
<1>1. r \in DOMAIN book /\ Waiting(row)
  BY DEF MoveBeforeCheckin
<1>2. /\ Right(row) /\ row.arrived <= now /\ row \in Row
      /\ RowsRight(book, now) /\ Clock
  BY <1>1, RowOfInv
<1>3. Commit(b) /\ UNCHANGED <<now, request, cleaned>>
  BY DEF MoveBeforeCheckin, Relocated
<1>. HIDE DEF row
<1>4. Right(new) /\ new.arrived = row.arrived
  BY <1>1, <1>2, RelocatedIsRight
<1>. HIDE DEF new
<1>5. RowsRight(b, now)
  BY <1>1, <1>2, <1>4, PutIsRight DEF row
<1>. HIDE DEF b
<1>. QED
  BY <1>3, <1>5, CommitIsRight

LEMMA MoveDuringKeepsInv ==
  ASSUME Inv, NEW r \in Reservations, NEW room \in Rooms, NEW t \in Scheduled,
         MoveDuringStay(r, room, t)
  PROVE  Inv'
<1>. DEFINE row == book[r]
            new == MovedOn(row, room, t)
            b == [book EXCEPT ![r] = new]
<1>1. r \in DOMAIN book /\ InHouse(row) /\ row.out # Open /\ t < row.out
        /\ LastSeg(row.stay).from < t /\ row.stay # <<>>
  BY DEF MoveDuringStay
<1>2. /\ Right(row) /\ row.arrived <= now /\ row \in Row
      /\ RowsRight(book, now) /\ Clock
  BY <1>1, RowOfInv
<1>3. Commit(b) /\ UNCHANGED <<now, request, cleaned>>
  BY DEF MoveDuringStay, MovedOn, Cut
<1>4. t \in Instants
  BY HorizonIsEven DEF Scheduled, Instants
<1>. HIDE DEF row
<1>5. Right(new) /\ new.arrived = row.arrived
  BY <1>1, <1>2, <1>4, MovedOnIsRight
<1>. HIDE DEF new
<1>6. RowsRight(b, now)
  BY <1>1, <1>2, <1>5, PutIsRight DEF row
<1>. HIDE DEF b
<1>. QED
  BY <1>3, <1>6, CommitIsRight

LEMMA CheckoutKeepsInv ==
  ASSUME Inv, NEW r \in Reservations, ManualCheckout(r)
  PROVE  Inv'
<1>. DEFINE row == book[r]
            new == CheckedOut(row, now)
            b == [book EXCEPT ![r] = new]
<1>1. /\ r \in DOMAIN book /\ InHouse(row) /\ now < row.out
      /\ Withdraws(row, now) => Underway(row, now) # {}
  BY DEF ManualCheckout
<1>2. /\ Right(row) /\ row.arrived <= now /\ row \in Row
      /\ RowsRight(book, now) /\ Clock /\ now \in Instants /\ now > 0
  BY <1>1, RowOfInv, ClockIsInstant
<1>3. Commit(b) /\ UNCHANGED <<now, request, cleaned>>
  BY DEF ManualCheckout, CheckedOut
<1>. HIDE DEF row
<1>4. Right(new) /\ new.arrived = row.arrived
  BY <1>1, <1>2, CheckedOutIsRight
<1>. HIDE DEF new
<1>5. RowsRight(b, now)
  BY <1>1, <1>2, <1>4, PutIsRight DEF row
<1>. HIDE DEF b
<1>. QED
  BY <1>3, <1>5, CommitIsRight

\* A correction writes segments of one row, and marks it corrected.
LEMMA CorrectionWrites ==
  ASSUME Inv, NEW r \in Reservations, NEW room \in Rooms, CorrectOccupancy(r, room)
  PROVE  \E st \in Seq(Segment), retired \in SUBSET Segment :
           LET new == Corrected(book[r], st, retired)
               b == [book EXCEPT ![r] = new]
           IN /\ r \in DOMAIN book /\ Active(book[r])
              /\ Right(book[r]) /\ Right(new) /\ RowsRight(b, now)
              /\ Commit(b) /\ UNCHANGED <<now, request, cleaned>>
<1>. DEFINE row == book[r]
            New(st, retired) == Corrected(row, st, retired)
<1>1. r \in DOMAIN book /\ Active(row)
  BY DEF CorrectOccupancy
<1>2. /\ Right(row) /\ row.arrived <= now /\ row \in Row
      /\ RowsRight(book, now) /\ Clock
  BY <1>1, RowOfInv
<1>3. /\ row.stay \in Seq(Segment) /\ DOMAIN row.stay = 1..Len(row.stay)
      /\ row.retired \subseteq Segment
      /\ \A S \in SUBSET DOMAIN row.stay : Retire(row, S) \subseteq Segment
      /\ \A i \in DOMAIN row.stay : row.stay[i] \in Segment
  BY <1>2, StayOfRow DEF Row
<1>4. PICK e \in Effective : Vacate(r, room, e) \/ Occupy(r, room, e)
  BY DEF CorrectOccupancy
<1>5. e \in Instants
  BY CorrectionsAreBounded, HorizonIsEven DEF Instants
<1>6. \A s \in Segment : s.from \in Instants /\ s.to \in Instants
                          /\ s.moved \in {"no", "before", "during"}
  BY DEF Segment
<1>7. \E st \in Seq(Segment), retired \in SUBSET Segment : Correct(r, st, retired)
  <2>1. CASE Vacate(r, room, e)
    <3>. DEFINE Left(i) == IF row.stay[i].from < e
                  THEN [row.stay EXCEPT ![i] = Seg(room, row.stay[i].from, e, row.stay[i].moved)]
                  ELSE RemoveAt(row.stay, i)
    <3>1. PICK i \in DOMAIN row.stay : Correct(r, Left(i), Retire(row, {i}))
      BY <2>1 DEF Vacate
    <3>2. Retire(row, {i}) \in SUBSET Segment
      BY <1>3
    <3>. DEFINE seg == Seg(room, row.stay[i].from, e, row.stay[i].moved)
    <3>3. seg \in Segment
      BY <1>3, <1>5, <1>6, SegAndWork
    <3>4. Left(i) \in Seq(Segment)
      <4>1. RemoveAt(row.stay, i) \in Seq(Segment)
        BY <1>3, RemoveIsStay
      <4>. HIDE DEF seg
      <4>2. [row.stay EXCEPT ![i] = seg] \in Seq(Segment)
        BY <1>3, <3>3, ExceptSeq
      <4>. QED
        BY <4>1, <4>2 DEF seg
    <3>. QED
      BY <3>1, <3>2, <3>4
  <2>2. CASE Occupy(r, room, e)
    <3>1. PICK s \in row.retired :
            Correct(r, Insert(row.stay, Seg(room, e, s.to, s.moved)), row.retired)
      BY <2>2 DEF Occupy
    <3>2. Seg(room, e, s.to, s.moved) \in Segment
      BY <1>3, <1>5, <1>6, SegAndWork
    <3>3. Insert(row.stay, Seg(room, e, s.to, s.moved)) \in Seq(Segment)
      BY <1>3, <3>2, InsertIsStay
    <3>. QED
      BY <1>3, <3>1, <3>3
  <2>. QED
    BY <1>4, <2>1, <2>2
<1>8. PICK st \in Seq(Segment), retired \in SUBSET Segment : Correct(r, st, retired)
  BY <1>7
<1>. DEFINE new == New(st, retired)
            b == [book EXCEPT ![r] = new]
<1>9. Commit(b) /\ UNCHANGED <<now, request, cleaned>>
  BY <1>8 DEF Correct, Corrected
<1>. HIDE DEF row
<1>10. Right(new) /\ new.arrived = row.arrived
  BY <1>2, CorrectedIsRight
<1>. HIDE DEF New
<1>11. RowsRight(b, now)
  BY <1>1, <1>2, <1>10, PutIsRight DEF row
<1>. QED
  BY <1>1, <1>2, <1>9, <1>10, <1>11 DEF New, row

LEMMA CorrectionKeepsInv ==
  ASSUME Inv, NEW r \in Reservations, NEW room \in Rooms, CorrectOccupancy(r, room)
  PROVE  Inv'
<1>1. PICK st \in Seq(Segment), retired \in SUBSET Segment :
        LET b == [book EXCEPT ![r] = Corrected(book[r], st, retired)]
        IN RowsRight(b, now) /\ Commit(b) /\ UNCHANGED <<now, request, cleaned>>
  BY CorrectionWrites
<1>. DEFINE b == [book EXCEPT ![r] = Corrected(book[r], st, retired)]
<1>2. RowsRight(b, now) /\ Commit(b) /\ UNCHANGED <<now, request, cleaned>>
  BY <1>1
<1>. HIDE DEF b
<1>. QED
  BY <1>2, CommitIsRight

LEMMA TickKeepsInv == ASSUME Inv, Tick PROVE Inv'
<1>1. PICK barred \in SUBSET Awaited : ProcessDue(barred)
  BY DEF Tick
<1>. DEFINE early == {r \in DOMAIN book : book[r].out = Open /\ MayEnter(book, r, barred)}
            entered == Enter(book, early)
            closed == Close(entered)
            late == {r \in DOMAIN book : book[r].out # Open /\ MayEnter(closed, r, barred)}
            done == Enter(closed, late)
<1>2. Commit(done) /\ UNCHANGED <<now, request, cleaned>>
  BY <1>1 DEF ProcessDue
<1>3. RowsRight(book, now) /\ Clock /\ now < Open
  BY ClockIsInstant DEF Inv
<1>4. \A r \in early : r \in DOMAIN book => Waiting(book[r]) /\ now < book[r].out
  BY <1>3 DEF MayEnter
<1>5. \A r \in late : r \in DOMAIN closed => Waiting(closed[r])
  <2>. HIDE DEF closed
  <2>. QED
    BY DEF MayEnter
<1>. HIDE DEF early
<1>6. RowsRight(entered, now) /\ DOMAIN entered = DOMAIN book
  BY <1>3, <1>4, EnterIsRight
<1>. HIDE DEF entered, late
<1>7. RowsRight(closed, now) /\ DOMAIN closed = DOMAIN book
        /\ \A r \in DOMAIN book : Active(closed[r]) => now < closed[r].out
  BY <1>3, <1>6, CloseIsRight
<1>. HIDE DEF closed
<1>8. \A r \in late : r \in DOMAIN closed => Waiting(closed[r]) /\ now < closed[r].out
  BY <1>5, <1>7 DEF Waiting
<1>9. RowsRight(done, now)
  BY <1>3, <1>7, <1>8, EnterIsRight
<1>. HIDE DEF done
<1>. QED
  BY <1>2, <1>9, CommitIsRight

\* An approval that changes one row in nothing but its work keeps the invariant.
LEMMA ApproveKeepsInv ==
  ASSUME Inv, NEW b, RowsRight(b, now), Fits(b), NEW room \in Rooms,
         NEW from \in Instants, Approve(b, room, from),
         request' \in [Rooms -> Instants]
  PROVE  Inv'
<1>1. /\ book' = GiveProof(b, room, from) /\ now' = now
      /\ cleaned' = [cleaned EXCEPT ![room] = IF @ > from THEN @ ELSE from]
  BY DEF Approve
<1>2. RowsRight(GiveProof(b, room, from), now) /\ Fits(GiveProof(b, room, from))
  BY GiveIsRight
<1>3. cleaned' \in [Rooms -> Instants]
  BY <1>1 DEF Inv
<1>. QED
  BY <1>1, <1>2, <1>3 DEF Inv, Clock

LEMMA ApproveRequestKeepsInv ==
  ASSUME Inv, NEW room \in Rooms, ApproveRequest(room) PROVE Inv'
<1>1. request[room] \in Instants /\ request' \in [Rooms -> Instants]
  BY InstantsAreInts DEF Inv, ApproveRequest
<1>2. Approve(book, room, request[room]) /\ RowsRight(book, now) /\ Fits(book)
  BY DEF ApproveRequest, Inv
<1>. QED
  BY <1>1, <1>2, ApproveKeepsInv

LEMMA ApproveCheckoutKeepsInv ==
  ASSUME Inv, NEW r \in Reservations, ApproveCheckout(r) PROVE Inv'
<1>. DEFINE row == book[r]
            new == [row EXCEPT !.final.state = "done"]
            b == [book EXCEPT ![r] = new]
<1>1. /\ r \in DOMAIN book /\ Approve(b, row.final.room, row.final.from)
      /\ request' = request
  <2>1. [book EXCEPT ![r].final.state = "done"] = b
    OBVIOUS
  <2>. QED
    BY <2>1 DEF ApproveCheckout
<1>2. /\ Right(row) /\ row.arrived <= now /\ row \in Row
      /\ RowsRight(book, now) /\ Fits(book)
  BY <1>1, RowOfInv DEF Inv
<1>3. row.final.room \in Rooms /\ row.final.from \in Instants
  BY <1>2 DEF Row, Task
<1>4. request' \in [Rooms -> Instants]
  BY <1>1 DEF Inv
<1>. HIDE DEF row
<1>5. Right(new) /\ new.stay = row.stay /\ new.arrived = row.arrived
  BY <1>2, FinalDoneIsRight
<1>. HIDE DEF new
<1>6. RowsRight(b, now)
  BY <1>1, <1>2, <1>5, PutIsRight DEF row
<1>7. Fits(b)
  <2>1. DOMAIN b = DOMAIN book /\ \A q \in DOMAIN book : b[q].stay = book[q].stay
    BY <1>5 DEF row
  <2>. HIDE DEF b
  <2>. QED
    BY <1>2, <2>1, FitsOfSame
<1>. HIDE DEF b
<1>. QED
  BY <1>1, <1>3, <1>4, <1>6, <1>7, ApproveKeepsInv

LEMMA ApproveLegKeepsInv ==
  ASSUME Inv, NEW r \in DOMAIN book, NEW leg \in book[r].legs, ApproveLeg(r, leg)
  PROVE  Inv'
<1>. DEFINE row == book[r]
            new == [row EXCEPT !.legs = (@ \ {leg}) \cup {[leg EXCEPT !.done = TRUE]}]
            b == [book EXCEPT ![r] = new]
<1>1. Approve(b, leg.room, leg.from) /\ request' = request
  <2>1. [book EXCEPT ![r].legs = (@ \ {leg}) \cup {[leg EXCEPT !.done = TRUE]}] = b
    OBVIOUS
  <2>. QED
    BY <2>1 DEF ApproveLeg
<1>2. /\ Right(row) /\ row.arrived <= now /\ row \in Row
      /\ RowsRight(book, now) /\ Fits(book)
  BY RowOfInv DEF Inv
<1>3. leg.room \in Rooms /\ leg.from \in Instants
  BY <1>2 DEF Row, Leg
<1>4. request' \in [Rooms -> Instants]
  BY <1>1 DEF Inv
<1>5. leg \in row.legs
  OBVIOUS
<1>. HIDE DEF row
<1>6. Right(new) /\ new.stay = row.stay /\ new.arrived = row.arrived
  BY <1>2, <1>5, LegDoneIsRight
<1>. HIDE DEF new
<1>7. RowsRight(b, now)
  BY <1>2, <1>6, PutIsRight DEF row
<1>8. Fits(b)
  <2>1. DOMAIN b = DOMAIN book /\ \A q \in DOMAIN book : b[q].stay = book[q].stay
    BY <1>6 DEF row
  <2>. HIDE DEF b
  <2>. QED
    BY <1>2, <2>1, FitsOfSame
<1>. HIDE DEF b
<1>. QED
  BY <1>1, <1>3, <1>4, <1>7, <1>8, ApproveKeepsInv

LEMMA RequestKeepsInv ==
  ASSUME Inv, NEW room \in Rooms, NEW t \in Scheduled, RequestCleaning(room, t) PROVE Inv'
<1>1. t \in Instants
  BY HorizonIsEven DEF Scheduled, Instants
<1>. QED
  BY <1>1 DEF Inv, Clock, RequestCleaning

LEMMA AdvanceKeepsInv == ASSUME Inv, Advance PROVE Inv'
<1>1. now' = now + 2 /\ book' = book /\ request' = request /\ cleaned' = cleaned
        /\ now < Horizon /\ now \in Int /\ now >= 1
  BY ClockIsInstant DEF Advance, Inv
<1>2. Clock' /\ now <= now'
  BY <1>1, HorizonIsEven DEF Clock
<1>3. RowsRight(book, now')
  <2>. SUFFICES ASSUME NEW r \in DOMAIN book PROVE book[r].arrived <= now'
    BY DEF Inv, RowsRight
  <2>1. book[r].arrived <= now /\ book[r].arrived \in Int
    BY RowOfInv, InstantsAreInts DEF Row
  <2>. QED
    BY <1>1, <2>1
<1>. QED
  BY <1>1, <1>2, <1>3 DEF Inv

\* The invariant holds of the empty book and every step keeps it.
THEOREM Inductive == Spec => []Inv
<1>1. Init => Inv
  <2>. SUFFICES ASSUME Init PROVE Inv
    OBVIOUS
  <2>1. DOMAIN book = {} /\ now = 1
    BY DEF Init
  <2>2. Clock
    BY <2>1, HorizonIsEven DEF Clock
  <2>3. RowsRight(book, now) /\ Fits(book)
    BY <2>1 DEF RowsRight, Fits
  <2>4. request \in [Rooms -> Instants] /\ cleaned \in [Rooms -> Instants]
    BY InstantsAreInts DEF Init
  <2>. QED
    BY <2>2, <2>3, <2>4 DEF Inv
<1>2. Inv /\ [Next]_vars => Inv'
  <2>. SUFFICES ASSUME Inv, [Next]_vars PROVE Inv'
    OBVIOUS
  <2>1. ASSUME NEW r \in Reservations, NEW room \in Rooms, NEW p \in Plans[r],
               CreateReservation(r, room, p[1], p[2])
        PROVE  Inv'
    BY <2>1, CreateKeepsInv
  <2>2. ASSUME NEW r \in Reservations, NEW p \in Plans[r], ChangeReservation(r, p[1], p[2])
        PROVE  Inv'
    BY <2>2, ChangeKeepsInv
  <2>3. ASSUME NEW r \in Reservations, NEW p \in Plans[r], ChangeOpenEnded(r, p[1])
        PROVE  Inv'
    BY <2>3, ChangeOpenEndedKeepsInv
  <2>4. ASSUME NEW r \in Reservations, CancelReservation(r) PROVE Inv'
    BY <2>4, CancelKeepsInv
  <2>5. ASSUME NEW r \in Reservations, NEW room \in Rooms, MoveBeforeCheckin(r, room)
        PROVE  Inv'
    BY <2>5, MoveBeforeKeepsInv
  <2>6. ASSUME NEW r \in Reservations, NEW room \in Rooms, NEW t \in Scheduled,
               MoveDuringStay(r, room, t)
        PROVE  Inv'
    BY <2>6, MoveDuringKeepsInv
  <2>7. ASSUME NEW r \in Reservations, ManualCheckout(r) PROVE Inv'
    BY <2>7, CheckoutKeepsInv
  <2>8. ASSUME Tick PROVE Inv'
    BY <2>8, TickKeepsInv
  <2>15. ASSUME NEW r \in Reservations, NEW room \in Rooms, CorrectOccupancy(r, room)
         PROVE  Inv'
    BY <2>15, CorrectionKeepsInv
  <2>9. ASSUME NEW room \in Rooms, NEW t \in Scheduled, RequestCleaning(room, t)
        PROVE  Inv'
    BY <2>9, RequestKeepsInv
  <2>10. ASSUME NEW room \in Rooms, ApproveRequest(room) PROVE Inv'
    BY <2>10, ApproveRequestKeepsInv
  <2>11. ASSUME NEW r \in Reservations, ApproveCheckout(r) PROVE Inv'
    BY <2>11, ApproveCheckoutKeepsInv
  <2>12. ASSUME NEW r \in DOMAIN book, NEW leg \in book[r].legs, ApproveLeg(r, leg)
         PROVE  Inv'
    BY <2>12, ApproveLegKeepsInv
  <2>13. ASSUME Advance PROVE Inv'
    BY <2>13, AdvanceKeepsInv
  <2>14. ASSUME UNCHANGED vars PROVE Inv'
    BY <2>14 DEF vars, Inv, Clock
  <2>. QED
    BY <2>1, <2>2, <2>3, <2>4, <2>5, <2>6, <2>7, <2>8, <2>9, <2>10, <2>11, <2>12,
       <2>13, <2>14, <2>15 DEF Next
<1>. QED
  BY <1>1, <1>2, PTL DEF Spec

(***************************************************************************)
(* What follows                                                            *)
(***************************************************************************)
\* TypeOK: rows have the types of their columns, and a row is closed exactly when
\* its guest has left and says by whom.
THEOREM TypeCorrect == Spec => []TypeOK
<1>1. Inv => TypeOK
  BY DEF Inv, Clock, RowsRight, Right, Typed, TypeOK
<1>. QED
  BY <1>1, Inductive, PTL

\* StayIsWhole: the live segments of a stay whose occupancy nobody corrected cover
\* it without a gap, from its arrival in the room it is booked in to its end,
\* whatever commands and ticks moved, shortened, closed or reopened it.
THEOREM StaysStayWhole == Spec => []StayIsWhole
<1>1. ASSUME Inv PROVE StayIsWhole
  <2>1. ASSUME NEW r \in DOMAIN book, Uncorrected(r) PROVE Sound(book[r])
    BY <1>1, <2>1, RowOfInv DEF Right, Uncorrected
  <2>2. ASSUME NEW r \in DOMAIN book, Uncorrected(r), book[r].status # "cancelled"
        PROVE  LET row == book[r] stay == book[r].stay IN
               /\ stay # <<>> /\ stay[1].room = row.room
               /\ stay[1].from = IF row.arrived > 0 THEN row.arrived ELSE row.in
               /\ LastSeg(stay).to = End(row)
               /\ \A i \in 2..Len(stay) : stay[i].from = stay[i - 1].to
    <3>1. Lived(book[r]) /\ Line(book[r].stay)
      BY <2>1, <2>2, SoundIsLived
    <3>2. book[r].stay # <<>>
      BY <3>1, SegmentsOfLine, EmptySeq DEF Line
    <3>. QED
      BY <3>1, <3>2 DEF Lived, Line, Begins
  <2>3. ASSUME NEW r \in DOMAIN book, Uncorrected(r), book[r].status = "cancelled"
        PROVE  book[r].stay = <<>>
    BY <2>1, <2>3 DEF Sound
  <2>. QED
    BY <2>2, <2>3 DEF StayIsWhole
<1>. QED
  BY <1>1, Inductive, PTL

\* EveryRoomLeftIsOwedWork: each room such a stay leaves is owed exactly one
\* cleaning, from the moment it is left.
THEOREM RoomsLeftAreOwedWork == Spec => []EveryRoomLeftIsOwedWork
<1>1. ASSUME Inv PROVE EveryRoomLeftIsOwedWork
  <2>. SUFFICES ASSUME NEW r \in DOMAIN book, Uncorrected(r), book[r].status # "cancelled"
       PROVE  LET row == book[r] IN
              /\ row.out # Open \/ row.left > 0 =>
                   row.final.room = LastSeg(row.stay).room /\ row.final.from = End(row)
              /\ {<<leg.room, leg.from>> : leg \in row.legs} =
                   {<<row.stay[i].room, row.stay[i].to>> : i \in 1..(Len(row.stay) - 1)}
              /\ Cardinality(row.legs) = Len(row.stay) - 1
    BY DEF EveryRoomLeftIsOwedWork
  <2>. DEFINE row == book[r]
  <2>1. Lived(row) /\ Line(row.stay) /\ Owes(row.stay, row.legs)
    BY <1>1, RowOfInv, SoundIsLived DEF Right, Uncorrected
  <2>2. Cardinality(row.legs) = Len(row.stay) - 1
    BY <2>1, WorkOfLine
  <2>3. {<<leg.room, leg.from>> : leg \in row.legs} =
          {<<row.stay[i].room, row.stay[i].to>> : i \in 1..(Len(row.stay) - 1)}
    <3>1. \A leg \in row.legs : \E i \in 1..(Len(row.stay) - 1) :
            leg.room = row.stay[i].room /\ leg.from = row.stay[i].to
      BY <2>1 DEF Owes
    <3>2. \A i \in 1..(Len(row.stay) - 1) : \E leg \in row.legs :
            leg.room = row.stay[i].room /\ leg.from = row.stay[i].to
      BY <2>1 DEF Owes
    <3>. DEFINE work == {<<leg.room, leg.from>> : leg \in row.legs}
                left == {<<row.stay[i].room, row.stay[i].to>> : i \in 1..(Len(row.stay) - 1)}
    <3>. HIDE DEF row
    <3>3. ASSUME NEW e \in work PROVE e \in left
      <4>1. PICK leg \in row.legs : e = <<leg.room, leg.from>>
        OBVIOUS
      <4>2. PICK i \in 1..(Len(row.stay) - 1) :
              leg.room = row.stay[i].room /\ leg.from = row.stay[i].to
        BY <3>1
      <4>. QED
        BY <4>1, <4>2
    <3>4. ASSUME NEW e \in left PROVE e \in work
      <4>1. PICK i \in 1..(Len(row.stay) - 1) : e = <<row.stay[i].room, row.stay[i].to>>
        OBVIOUS
      <4>2. PICK leg \in row.legs : leg.room = row.stay[i].room /\ leg.from = row.stay[i].to
        BY <3>2
      <4>. QED
        BY <4>1, <4>2
    <3>. HIDE DEF work, left
    <3>5. work = left
      BY <3>3, <3>4
    <3>. QED
      BY <3>5 DEF work, left
  <2>4. row.out # Open \/ row.left > 0 =>
          row.final.room = LastSeg(row.stay).room /\ row.final.from = End(row)
    BY <2>1 DEF Lived
  <2>. QED
    BY <2>2, <2>3, <2>4
<1>. QED
  BY <1>1, Inductive, PTL

\* A guest in house whose stay is neither over nor corrected is in a segment that
\* covers the moment.
LEMMA SoundIsCovered ==
  ASSUME Clock, NEW row, Sound(row), InHouse(row), row.arrived <= now, now < row.out
  PROVE  \E s \in Range(row.stay) : Covers(s, now)
<1>. DEFINE st == row.stay
            n == Len(st)
            begun == {i \in DOMAIN st : st[i].from <= now}
            m == Max(begun)
<1>1. /\ Lived(row) /\ Line(st) /\ row.arrived > 0 /\ st[1].from = row.arrived
      /\ LastSeg(st).to = row.out
  BY SoundIsLived DEF InHouse, Active, Lived, Begins
<1>2. /\ DOMAIN st = 1..n /\ n \in Nat /\ 1 \in 1..n /\ n \in 1..n /\ now \in Int
      /\ \A i \in 1..n : st[i] \in Segment /\ st[i].from \in Int /\ st[i].to \in Int
  BY <1>1, SegmentsOfLine, ClockIsInstant
<1>3. begun \in SUBSET (1..n) /\ 1 \in begun
  BY <1>1, <1>2
<1>4. m \in begun /\ \A i \in begun : i <= m
  BY <1>2, <1>3, MaxIn
<1>. HIDE DEF m
<1>5. m \in 1..n /\ st[m].from <= now
  BY <1>2, <1>4
<1>6. now < st[m].to
  <2>1. CASE m = n
    BY <1>1, <2>1 DEF LastSeg
  <2>2. CASE m # n
    <3>1. m + 1 \in 2..n /\ m + 1 \in 1..n /\ ~(m + 1 <= m) /\ m + 1 - 1 = m
      <4>. HIDE DEF n
      <4>. QED
        BY <1>2, <1>5, <2>2
    <3>2. ~(st[m + 1].from <= now)
      BY <1>2, <1>4, <3>1
    <3>3. st[m + 1].from = st[m].to
      <4>1. \A i \in 2..n : st[i].from = st[i - 1].to
        BY <1>1 DEF Line
      <4>. HIDE DEF n, st
      <4>2. PICK k \in 2..n : k = m + 1 /\ k - 1 = m
        BY <1>2, <1>5, <3>1
      <4>3. st[k].from = st[k - 1].to
        BY <4>1
      <4>. QED
        BY <4>2, <4>3
    <3>. QED
      BY <1>2, <1>5, <3>1, <3>2, <3>3
  <2>. QED
    BY <2>1, <2>2
<1>7. st[m] \in Range(st)
  BY <1>2, <1>5 DEF Range
<1>. QED
  BY <1>5, <1>6, <1>7 DEF Covers

\* A guest is where a segment that covers the moment says.
LEMMA WhereaboutsCover ==
  ASSUME NEW row \in Row, \E s \in Range(row.stay) : Covers(s, now)
  PROVE  \E s \in Range(row.stay) : s.room = Whereabouts(row) /\ s \in Segment
                                      /\ s.from <= now /\ now < s.to
<1>. DEFINE here == {s \in Range(row.stay) : Covers(s, now)}
            s == CHOOSE s \in here : TRUE
<1>1. here # {}
  OBVIOUS
<1>2. s \in here
  BY <1>1
<1>3. Whereabouts(row) = s.room
  BY <1>1 DEF Whereabouts
<1>. HIDE DEF s
<1>4. s \in Range(row.stay) /\ Covers(s, now)
  BY <1>2
<1>5. s \in Segment
  BY <1>4, StayOfRow DEF Range
<1>. QED
  BY <1>3, <1>4, <1>5 DEF Covers

\* OneGuestPerRoom: no two guests are in one room, except while the tick that
\* closes the stay of one of them is late, or after a correction said one is in
\* none.
THEOREM GuestsDoNotMeet == Spec => []OneGuestPerRoom
<1>1. ASSUME Inv PROVE OneGuestPerRoom
  <2>. DEFINE staying == {r \in DOMAIN book : InHouse(book[r]) /\
                            (Uncorrected(r) \/ \E s \in Range(book[r].stay) : Covers(s, now))}
                         \ Due(book)
  <2>. SUFFICES ASSUME NEW r \in staying, NEW q \in staying, r # q,
                       Whereabouts(book[r]) = Whereabouts(book[q])
                PROVE  FALSE
    BY DEF OneGuestPerRoom
  <2>1. ASSUME NEW g \in staying
        PROVE  /\ g \in DOMAIN book
               /\ \E s \in Range(book[g].stay) :
                    s.room = Whereabouts(book[g]) /\ s \in Segment
                    /\ s.from <= now /\ now < s.to
    <3>1. /\ Right(book[g]) /\ book[g].arrived <= now /\ book[g] \in Row /\ Clock
          /\ InHouse(book[g]) /\ g \in DOMAIN book
      BY <1>1, RowOfInv
    <3>2. ~(book[g].out <= now) /\ book[g].out \in Int /\ now \in Int
      BY <3>1, ClockIsInstant, InstantsAreInts DEF Due, InHouse, Row
    <3>3. \E s \in Range(book[g].stay) : Covers(s, now)
      <4>1. CASE Uncorrected(g)
        BY <3>1, <3>2, <4>1, SoundIsCovered DEF Right, Uncorrected
      <4>. QED
        BY <4>1
    <3>. QED
      BY <3>1, <3>3, WhereaboutsCover
  <2>2. PICK s \in Range(book[r].stay) : s.room = Whereabouts(book[r]) /\ s \in Segment
                    /\ s.from <= now /\ now < s.to
    BY <2>1
  <2>3. PICK u \in Range(book[q].stay) : u.room = Whereabouts(book[q]) /\ u \in Segment
                    /\ u.from <= now /\ now < u.to
    BY <2>1
  <2>4. /\ s.from \in Int /\ s.to \in Int /\ u.from \in Int /\ u.to \in Int /\ now \in Int
    BY <1>1, <2>2, <2>3, InstantsAreInts, ClockIsInstant DEF Segment, Inv
  <2>5. Overlap(s, u)
    BY <2>2, <2>3, <2>4 DEF Overlap
  <2>6. ~Overlap(s, u)
    BY <1>1, <2>1, <2>2, <2>3 DEF Inv, Fits
  <2>. QED
    BY <2>5, <2>6
<1>. QED
  BY <1>1, Inductive, PTL
(***************************************************************************)
(* Proofs of preparation                                                   *)
(***************************************************************************)
\* q was booked into the room of r before r and not moved there, and nobody
\* corrected its occupancy.
Precedes(q, r) ==
  /\ q.room = r.room /\ q.status # "cancelled" /\ q.in < r.in
  /\ q.corrected = 0 /\ q.stay[1].moved # "before"

\* r has a proof and is waiting, in house, or closed by the tick and so perhaps
\* to be reopened.
Counts(r) == r.corrected = 0 /\ r.status # "cancelled" /\ r.closedBy # "manual" /\ r.proof > 0

\* A stay without an end precedes no reservation that has a proof; the proof of
\* an active one is of work that became available after whoever precedes it left.
OpenPair(q, r) == Counts(r) /\ Precedes(q, r) => End(q) # Open
EndPair(q, r) ==
  Active(r) /\ r.corrected = 0 /\ r.proof > 0 /\ Precedes(q, r) /\ End(q) # Open =>
    End(q) <= r.proof

Opens(b) == \A r, q \in DOMAIN b : r # q => OpenPair(b[q], b[r])
Ends(b, but) ==
  \A r, q \in DOMAIN b : r # q /\ b[r].room \notin but => EndPair(b[q], b[r])

\* A proof is of approved work in the room; nobody comes before their arrival is
\* due, and nobody has left in the future.
Stamped(b, approved) == \A r \in DOMAIN b : b[r].proof <= approved[b[r].room]
Timed(b, t) ==
  \A r \in DOMAIN b : (b[r].arrived > 0 => b[r].in <= b[r].arrived) /\ b[r].left <= t

Proved(b, but, t, approved) ==
  Opens(b) /\ Ends(b, but) /\ Stamped(b, approved) /\ Timed(b, t)

ProofInv == Inv /\ Proved(book, {}, now, cleaned)

\* Max of a set of instants is one of them and none is later.
LEMMA MaxInstant == ASSUME NEW S \in SUBSET Instants, S # {}
  PROVE Max(S) \in S /\ \A y \in S : y <= Max(S)
<1>. DEFINE D == {Horizon + 2 - i : i \in S}
<1>0. \A i \in S : i \in Int /\ Horizon + 2 - i \in Nat
  BY HorizonIsEven DEF Instants
<1>1. D # {} /\ D \subseteq Nat
  <2>1. PICK i \in S : TRUE
    OBVIOUS
  <2>2. Horizon + 2 - i \in D
    OBVIOUS
  <2>. QED
    BY <1>0, <2>2
<1>2. PICK d \in D : \A e \in D : d <= e
  <2>. HIDE DEF D
  <2>. QED
    BY <1>1, LeastIn
<1>3. PICK x \in S : d = Horizon + 2 - x
  OBVIOUS
<1>4. \A y \in S : Horizon + 2 - y \in D
  OBVIOUS
<1>5. \A y \in S : d <= Horizon + 2 - y
  BY <1>2, <1>4
<1>6. \A y \in S : x >= y
  BY <1>0, <1>3, <1>5, HorizonIsEven
<1>7. Max(S) \in S /\ \A y \in S : Max(S) >= y
  BY <1>6 DEF Max
<1>. QED
  BY <1>0, <1>7

\* RequiredAfter is no earlier than the end of any earlier stay of the room.
LEMMA RequiredCovers ==
  ASSUME NEW b, NEW t, RowsRight(b, t), NEW r \in DOMAIN b, NEW q \in DOMAIN b, q # r,
         Precedes(b[q], b[r]), End(b[q]) # Open
  PROVE  End(b[q]) <= RequiredAfter(b, r)
<1>. DEFINE earlier == {p \in DOMAIN b \ {r} :
                    /\ b[p].room = b[r].room /\ b[p].status # "cancelled"
                    /\ b[p].in < b[r].in}
            ends == {End(b[p]) : p \in earlier} \ {Open}
<1>1. \A p \in DOMAIN b : End(b[p]) \in Instants
  BY DEF RowsRight, Right, Typed, Row, End
<1>2. ends \in SUBSET Instants
  BY <1>1
<1>3. End(b[q]) \in ends
  BY DEF Precedes
<1>4. RequiredAfter(b, r) = Max(ends)
  BY <1>3 DEF RequiredAfter
<1>. HIDE DEF ends
<1>. QED
  BY <1>2, <1>3, <1>4, MaxInstant

\* RequiredAfter is an instant.
LEMMA RequiredIsInt ==
  ASSUME NEW b, NEW t, RowsRight(b, t), NEW r \in DOMAIN b
  PROVE  RequiredAfter(b, r) \in Int
<1>. DEFINE earlier == {p \in DOMAIN b \ {r} :
                    /\ b[p].room = b[r].room /\ b[p].status # "cancelled"
                    /\ b[p].in < b[r].in}
            ends == {End(b[p]) : p \in earlier} \ {Open}
<1>1. \A p \in DOMAIN b : End(b[p]) \in Instants /\ b[p].created \in Instants
  BY DEF RowsRight, Right, Typed, Row, End
<1>2. ends \in SUBSET Instants
  BY <1>1
<1>3. RequiredAfter(b, r) = IF ends = {} THEN b[r].created ELSE Max(ends)
  BY DEF RequiredAfter
<1>. HIDE DEF ends
<1>4. RequiredAfter(b, r) \in Instants
  BY <1>1, <1>2, <1>3, MaxInstant
<1>. QED
  BY <1>4, InstantsAreInts

\* Two sound reservations of one room, the earlier without an end: their segments
\* overlap, so they are not in one book.
LEMMA OpenMeets ==
  ASSUME NEW b, Fits(b), NEW r \in DOMAIN b, NEW q \in DOMAIN b, q # r,
         Sound(b[r]), Sound(b[q]), b[r].status # "cancelled", b[r].closedBy # "manual",
         Precedes(b[q], b[r]), End(b[q]) = Open, b[q].left # Open,
         b[r].arrived > 0 => b[r].in <= b[r].arrived,
         b[q].arrived = 0 \/ b[q].arrived <= b[r].in
  PROVE  FALSE
<1>. DEFINE s == b[q].stay[1]
            u == b[r].stay[1]
<1>1. /\ Lived(b[q]) /\ Line(b[q].stay) /\ Lived(b[r]) /\ Line(b[r].stay)
      /\ b[q].in \in Int /\ b[r].in \in Int /\ b[r].arrived \in Int /\ b[q].arrived \in Int
      /\ 0 <= b[r].arrived /\ 0 <= b[q].arrived /\ 0 <= b[r].in
      /\ b[q].in < b[r].in /\ b[q].room = b[r].room
      /\ Typed(b[q]) /\ b[q].out \in Int /\ b[q].left \in Int /\ 0 <= b[q].left
  BY SoundIsLived DEF Precedes
<1>2. /\ s \in Segment /\ s.from \in Int /\ s.to \in Int
      /\ u \in Segment /\ u.from \in Int /\ u.to \in Int /\ u.to <= Open
      /\ s \in Range(b[q].stay) /\ u \in Range(b[r].stay)
  <2>1. \A st : Line(st) => st[1] \in Segment /\ st[1].from \in Int /\ st[1].to \in Int
                          /\ st[1] \in Range(st)
    BY SegmentsOfLine DEF Range
  <2>2. u.to <= Open
    BY <1>1, <2>1, InstantsAreInts DEF Segment
  <2>. QED
    BY <1>1, <2>1, <2>2
<1>3. u.from < u.to
  <2>1. CASE Len(b[r].stay) = 1
    BY <1>1, <2>1 DEF Lived, LastSeg
  <2>2. CASE Len(b[r].stay) # 1
    <3>. DEFINE n == Len(b[r].stay)
    <3>1. n \in Nat /\ 1 \in 1..n /\ n # 1
      BY <1>1, <2>2, SegmentsOfLine
    <3>2. 1 \in 1..(n - 1)
      <4>. HIDE DEF n
      <4>. QED
        BY <3>1
    <3>. QED
      BY <1>1, <3>2 DEF Line
  <2>. QED
    BY <2>1, <2>2
<1>4. b[r].in <= u.from /\ u.room = s.room
  BY <1>1 DEF Lived, Begins
<1>5. s.to = Open
  <2>1. ~(b[q].left > 0)
    BY <1>1 DEF End
  <2>2. b[q].out = Open /\ Len(b[q].stay) = 1 /\ LastSeg(b[q].stay).to = Open
    BY <1>1, <2>1 DEF End, Lived
  <2>. QED
    BY <2>2 DEF LastSeg
<1>6. s.from <= b[r].in
  BY <1>1 DEF Lived, Begins
<1>7. Overlap(s, u)
  BY <1>1, <1>2, <1>3, <1>4, <1>5, <1>6, InstantsAreInts DEF Overlap
<1>8. ~Overlap(s, u)
  BY <1>2, <1>4 DEF Fits
<1>. QED
  BY <1>7, <1>8

\* What a row says to the proofs of others, and its own proof, at most as strong
\* as what it said before.
Weaker(new, old) ==
  /\ new.room = old.room /\ new.in = old.in /\ new.proof = old.proof
  /\ new.corrected = old.corrected
  /\ End(new) = End(old)
  /\ Active(new) => Active(old)
  /\ new.status # "cancelled" =>
       /\ old.status # "cancelled"
       /\ new.corrected = 0 => new.stay[1].moved = old.stay[1].moved
  /\ new.closedBy # "manual" => old.closedBy # "manual"

\* When a row may be timed as it is.
OnTime(row, t) == (row.arrived > 0 => row.in <= row.arrived) /\ row.left <= t

LEMMA WeakerKeepsProved ==
  ASSUME NEW b, NEW c, NEW but, NEW t, NEW approved, Proved(b, but, t, approved),
         DOMAIN c = DOMAIN b,
         \A r \in DOMAIN b : Weaker(c[r], b[r]) /\ OnTime(c[r], t)
  PROVE  Proved(c, but, t, approved)
<1>1. Opens(c)
  <2>. SUFFICES ASSUME NEW r \in DOMAIN b, NEW q \in DOMAIN b, r # q,
                       Counts(c[r]), Precedes(c[q], c[r])
                PROVE  End(c[q]) # Open
    BY DEF Opens, OpenPair
  <2>1. OpenPair(b[q], b[r])
    BY DEF Proved, Opens
  <2>. QED
    BY <2>1 DEF OpenPair, Counts, Precedes, Weaker
<1>2. Ends(c, but)
  <2>. SUFFICES ASSUME NEW r \in DOMAIN b, NEW q \in DOMAIN b, r # q, c[r].room \notin but
                PROVE  EndPair(c[q], c[r])
    BY DEF Ends
  <2>1. EndPair(b[q], b[r])
    BY DEF Proved, Ends, Weaker
  <2>. QED
    BY <2>1 DEF EndPair, Precedes, Weaker
<1>3. Stamped(c, approved)
  BY DEF Proved, Stamped, Weaker
<1>4. Timed(c, t)
  BY DEF Timed, OnTime
<1>. QED
  BY <1>1, <1>2, <1>3, <1>4 DEF Proved

\* One row written, r, with what it and the others say of each other.
LEMMA PutKeepsProved ==
  ASSUME NEW b, NEW c, NEW but, NEW t, NEW approved, Proved(b, {}, t, approved),
         NEW r \in DOMAIN c,
         \A q \in DOMAIN c : q # r => q \in DOMAIN b /\ c[q] = b[q],
         \A q \in DOMAIN c : q # r => OpenPair(c[q], c[r]) /\ OpenPair(c[r], c[q]),
         \A q \in DOMAIN c : q # r => \/ c[r].room \in but
                                      \/ EndPair(c[q], c[r]) /\ EndPair(c[r], c[q]),
         c[r].proof <= approved[c[r].room], OnTime(c[r], t)
  PROVE  Proved(c, but, t, approved)
<1>1. Opens(c)
  <2>. SUFFICES ASSUME NEW p \in DOMAIN c, NEW q \in DOMAIN c, p # q
                PROVE  OpenPair(c[q], c[p])
    BY DEF Opens
  <2>1. CASE p # r /\ q # r
    BY <2>1 DEF Proved, Opens
  <2>2. CASE p = r \/ q = r
    BY <2>2
  <2>. QED
    BY <2>1, <2>2
<1>2. Ends(c, but)
  <2>. SUFFICES ASSUME NEW p \in DOMAIN c, NEW q \in DOMAIN c, p # q, c[p].room \notin but
                PROVE  EndPair(c[q], c[p])
    BY DEF Ends
  <2>1. CASE p # r /\ q # r
    BY <2>1 DEF Proved, Ends
  <2>2. CASE p = r
    BY <2>2
  <2>3. CASE q = r
    BY <2>3 DEF EndPair, Precedes
  <2>. QED
    BY <2>1, <2>2, <2>3
<1>3. Stamped(c, approved)
  BY DEF Proved, Stamped
<1>4. Timed(c, t)
  BY DEF Proved, Timed, OnTime
<1>. QED
  BY <1>1, <1>2, <1>3, <1>4 DEF Proved

\* Withdrawing stale proofs changes proofs alone.
LEMMA DropKeepsRows == ASSUME NEW b, NEW t, RowsRight(b, t), NEW rooms
  PROVE LET c == DropStaleProofs(b, rooms) IN
        /\ DOMAIN c = DOMAIN b
        /\ \A r \in DOMAIN b :
             /\ c[r].room = b[r].room /\ c[r].in = b[r].in /\ c[r].status = b[r].status
             /\ c[r].arrived = b[r].arrived /\ c[r].left = b[r].left
             /\ c[r].corrected = b[r].corrected
             /\ c[r].closedBy = b[r].closedBy /\ c[r].stay = b[r].stay
             /\ End(c[r]) = End(b[r])
             /\ c[r].proof = b[r].proof \/ c[r].proof = 0
             /\ b[r].room \in rooms /\ Active(b[r]) /\ c[r].proof # 0 => ProofHolds(b, r)
<1>. DEFINE c == DropStaleProofs(b, rooms)
<1>1. DOMAIN c = DOMAIN b
  BY DEF DropStaleProofs
<1>2. ASSUME NEW r \in DOMAIN b
      PROVE  /\ c[r].room = b[r].room /\ c[r].in = b[r].in /\ c[r].status = b[r].status
             /\ c[r].arrived = b[r].arrived /\ c[r].left = b[r].left
             /\ c[r].corrected = b[r].corrected
             /\ c[r].closedBy = b[r].closedBy /\ c[r].stay = b[r].stay
             /\ End(c[r]) = End(b[r])
             /\ c[r].proof = b[r].proof \/ c[r].proof = 0
             /\ b[r].room \in rooms /\ Active(b[r]) /\ c[r].proof # 0 => ProofHolds(b, r)
  <2>1. b[r] \in Row
    BY DEF RowsRight, Right, Typed
  <2>2. CASE b[r].room \in rooms /\ Active(b[r]) /\ ~ProofHolds(b, r)
    <3>1. c[r] = [b[r] EXCEPT !.proof = 0]
      BY <2>2 DEF DropStaleProofs
    <3>. HIDE DEF c
    <3>. QED
      BY <2>1, <3>1 DEF Row, End
  <2>3. CASE ~(b[r].room \in rooms /\ Active(b[r]) /\ ~ProofHolds(b, r))
    <3>1. c[r] = b[r]
      BY <2>3 DEF DropStaleProofs
    <3>. HIDE DEF c
    <3>. QED
      BY <2>3, <3>1
  <2>. QED
    BY <2>2, <2>3
<1>. QED
  BY <1>1, <1>2

\* What is left once the stale proofs of the rooms are withdrawn is proved.
LEMMA DropKeepsProved ==
  ASSUME NEW b, NEW t, RowsRight(b, t), NEW rooms, NEW approved \in [Rooms -> Instants],
         Proved(b, rooms, t, approved)
  PROVE  Proved(DropStaleProofs(b, rooms), {}, t, approved)
<1>. DEFINE c == DropStaleProofs(b, rooms)
<1>1. /\ DOMAIN c = DOMAIN b
      /\ \A r \in DOMAIN b :
             /\ c[r].room = b[r].room /\ c[r].in = b[r].in /\ c[r].status = b[r].status
             /\ c[r].arrived = b[r].arrived /\ c[r].left = b[r].left
             /\ c[r].corrected = b[r].corrected
             /\ c[r].closedBy = b[r].closedBy /\ c[r].stay = b[r].stay
             /\ End(c[r]) = End(b[r])
             /\ c[r].proof = b[r].proof \/ c[r].proof = 0
             /\ b[r].room \in rooms /\ Active(b[r]) /\ c[r].proof # 0 => ProofHolds(b, r)
  BY DropKeepsRows
<1>. HIDE DEF c
<1>2. Opens(c)
  <2>. SUFFICES ASSUME NEW r \in DOMAIN b, NEW q \in DOMAIN b, r # q,
                       Counts(c[r]), Precedes(c[q], c[r])
                PROVE  End(c[q]) # Open
    BY <1>1 DEF Opens, OpenPair
  <2>1. OpenPair(b[q], b[r])
    BY DEF Proved, Opens
  <2>. QED
    BY <1>1, <2>1 DEF OpenPair, Counts, Precedes
<1>3. Ends(c, {})
  <2>. SUFFICES ASSUME NEW r \in DOMAIN b, NEW q \in DOMAIN b, r # q,
                       Active(c[r]), c[r].corrected = 0, c[r].proof > 0,
                       Precedes(c[q], c[r]), End(c[q]) # Open
                PROVE  End(c[q]) <= c[r].proof
    BY <1>1 DEF Ends, EndPair
  <2>1. c[r].proof = b[r].proof /\ b[r].proof > 0 /\ Active(b[r])
        /\ Precedes(b[q], b[r]) /\ End(b[q]) # Open /\ End(c[q]) = End(b[q])
        /\ b[r].corrected = 0
    BY <1>1 DEF Active, Precedes
  <2>2. CASE b[r].room \notin rooms
    BY <2>1, <2>2 DEF Proved, Ends, EndPair
  <2>3. CASE b[r].room \in rooms
    <3>1. b[r].proof >= RequiredAfter(b, r)
      BY <1>1, <2>1, <2>3 DEF ProofHolds
    <3>2. End(b[q]) <= RequiredAfter(b, r)
      BY <2>1, RequiredCovers
    <3>3. End(b[q]) \in Int /\ b[r].proof \in Int /\ RequiredAfter(b, r) \in Int
      BY RequiredIsInt, InstantsAreInts DEF RowsRight, Right, Typed, Row, End
    <3>. QED
      BY <2>1, <3>1, <3>2, <3>3
  <2>. QED
    BY <2>2, <2>3
<1>4. Stamped(c, approved)
  <2>. SUFFICES ASSUME NEW r \in DOMAIN b PROVE c[r].proof <= approved[c[r].room]
    BY <1>1 DEF Stamped
  <2>1. b[r].room \in Rooms /\ 0 <= approved[b[r].room]
    <3>1. b[r].room \in Rooms
      BY DEF RowsRight, Right, Typed, Row
    <3>. QED
      BY <3>1, InstantsAreInts
  <2>. QED
    BY <1>1, <2>1 DEF Proved, Stamped
<1>5. Timed(c, t)
  BY <1>1 DEF Proved, Timed
<1>6. Proved(c, {}, t, approved)
  BY <1>2, <1>3, <1>4, <1>5 DEF Proved
<1>. QED
  BY <1>6 DEF c

(***************************************************************************)
(* Each step keeps the proofs                                              *)
(***************************************************************************)
\* Nobody arrives.
Quiet == \A r \in DOMAIN book' :
  book'[r].arrived > 0 => r \in DOMAIN book /\ book[r].arrived > 0

\* Segments that fit after stale proofs are withdrawn fitted before.
LEMMA FitsBeforeDrop ==
  ASSUME NEW b, NEW t, RowsRight(b, t), NEW rooms, Fits(DropStaleProofs(b, rooms))
  PROVE  Fits(b)
<1>. DEFINE c == DropStaleProofs(b, rooms)
<1>1. DOMAIN b = DOMAIN c /\ \A r \in DOMAIN c : b[r].stay = c[r].stay
  BY DropKeepsRows
<1>2. Fits(c)
  OBVIOUS
<1>. HIDE DEF c
<1>. QED
  BY <1>1, <1>2, FitsOfSame

LEMMA CommitKeepsProof ==
  ASSUME ProofInv, Inv', NEW b, Proved(b, {}, now, cleaned), Commit(b),
         UNCHANGED <<now, request, cleaned>>,
         \A q \in DOMAIN b : b[q].arrived > 0 => q \in DOMAIN book /\ book[q].arrived > 0
  PROVE  ProofInv' /\ Quiet
<1>1. book' = b /\ now' = now /\ cleaned' = cleaned
  BY DEF Commit, Allowed
<1>. QED
  BY <1>1 DEF ProofInv, Quiet

LEMMA DropCommitKeepsProof ==
  ASSUME ProofInv, Inv', NEW b, NEW rooms, RowsRight(b, now),
         Proved(b, rooms, now, cleaned), Commit(DropStaleProofs(b, rooms)),
         UNCHANGED <<now, request, cleaned>>,
         \A q \in DOMAIN b : b[q].arrived > 0 => q \in DOMAIN book /\ book[q].arrived > 0
  PROVE  ProofInv' /\ Quiet
<1>. DEFINE c == DropStaleProofs(b, rooms)
<1>1. cleaned \in [Rooms -> Instants]
  BY DEF ProofInv, Inv
<1>2. Proved(c, {}, now, cleaned)
  BY <1>1, DropKeepsProved
<1>3. DOMAIN c = DOMAIN b /\ \A q \in DOMAIN b : c[q].arrived = b[q].arrived
  BY DropKeepsRows
<1>4. Commit(c)
  OBVIOUS
<1>. HIDE DEF c
<1>. QED
  BY <1>2, <1>3, <1>4, CommitKeepsProof

\* A row of nobody who has come, without a proof, is as it may be.
LEMMA FreshIsOnTime ==
  ASSUME Clock, NEW row, row.arrived = 0, row.left = 0, row.proof = 0, NEW t \in Instants
  PROVE  row.proof <= t /\ OnTime(row, now)
<1>1. 0 <= t /\ 0 <= now /\ ~(row.arrived > 0)
  BY ClockIsInstant, InstantsAreInts
<1>. QED
  BY <1>1 DEF OnTime

\* A row without an end, whose guest has not come, precedes nobody who counts.
LEMMA OpenPrecedesNone ==
  ASSUME NEW b, NEW t, RowsRight(b, t), Fits(b), NEW q \in DOMAIN b, NEW r \in DOMAIN b,
         q # r, b[q].arrived = 0, b[q].left = 0,
         b[r].arrived > 0 => b[r].in <= b[r].arrived
  PROVE  OpenPair(b[q], b[r])
<1>. SUFFICES ASSUME Counts(b[r]), Precedes(b[q], b[r]), End(b[q]) = Open PROVE FALSE
  BY DEF OpenPair
<1>1. Sound(b[q]) /\ Sound(b[r]) /\ Open # 0
  BY HorizonIsEven DEF RowsRight, Right, Counts, Precedes, Open
<1>. QED
  BY <1>1, OpenMeets DEF Counts

LEMMA CreateKeepsProof ==
  ASSUME ProofInv, NEW r \in Reservations, NEW room \in Rooms, NEW p \in Plans[r],
         CreateReservation(r, room, p[1], p[2])
  PROVE  ProofInv' /\ Quiet
<1>. DEFINE row == Created(room, p[1], p[2])
            b == [q \in DOMAIN book \cup {r} |-> IF q = r THEN row ELSE book[q]]
<1>1. Inv /\ Proved(book, {}, now, cleaned) /\ cleaned[room] \in Instants /\ now > 0
        /\ Inv'
  BY CreateKeepsInv, ClockIsInstant DEF ProofInv, Inv
<1>2. /\ RowsRight(b, now) /\ Commit(DropStaleProofs(b, {room}))
      /\ UNCHANGED <<now, request, cleaned>>
  BY <1>1, CreateWrites
<1>3. /\ row.room = room /\ row.arrived = 0 /\ row.left = 0 /\ row.proof = 0
  BY DEF Created
<1>4. /\ DOMAIN b = DOMAIN book \cup {r} /\ b[r] = row
      /\ \A q \in DOMAIN b : q # r => q \in DOMAIN book /\ b[q] = book[q]
  OBVIOUS
<1>. HIDE DEF row, b
<1>5. Fits(b)
  BY <1>2, FitsBeforeDrop DEF Commit, Allowed
<1>6. ASSUME NEW q \in DOMAIN b, q # r PROVE OpenPair(b[q], b[r]) /\ OpenPair(b[r], b[q])
  <2>1. b[q].arrived > 0 => b[q].in <= b[q].arrived
    BY <1>1, <1>4, <1>6 DEF Proved, Timed
  <2>2. OpenPair(b[r], b[q])
    BY <1>2, <1>3, <1>4, <1>5, <1>6, <2>1, OpenPrecedesNone
  <2>. QED
    BY <1>3, <1>4, <2>2 DEF OpenPair, Counts
<1>7. row.proof <= cleaned[room] /\ OnTime(row, now)
  BY <1>1, <1>3, FreshIsOnTime DEF Inv
<1>8. Proved(b, {room}, now, cleaned)
  BY <1>1, <1>3, <1>4, <1>6, <1>7, PutKeepsProved
<1>9. \A q \in DOMAIN b : b[q].arrived > 0 => q \in DOMAIN book /\ book[q].arrived > 0
  BY <1>3, <1>4
<1>. QED
  BY <1>1, <1>2, <1>8, <1>9, DropCommitKeepsProof

LEMMA ChangeKeepsProof ==
  ASSUME ProofInv, NEW r \in Reservations, NEW p \in Plans[r],
         ChangeReservation(r, p[1], p[2])
  PROVE  ProofInv' /\ Quiet
<1>. DEFINE row == book[r]
            in == p[1]
            out == p[2]
            new == Changed(row, in, out)
            b == [book EXCEPT ![r] = new]
            rooms == {row.room, RoomThen(row, out)}
<1>1. Inv /\ Proved(book, {}, now, cleaned) /\ Inv' /\ now > 0 /\ now \in Int
  BY ChangeKeepsInv, ClockIsInstant DEF ProofInv, Inv
<1>2. /\ r \in DOMAIN book /\ out # Open /\ MayReschedule(row, in, out)
      /\ Withdraws(row, out) => Underway(row, out) # {}
      /\ Right(row) /\ RowsRight(b, now)
      /\ Commit(DropStaleProofs(b, rooms))
      /\ UNCHANGED <<now, request, cleaned>>
  BY <1>1, ChangeWrites
<1>3. /\ row \in Row /\ row.room \in rooms /\ Typed(row) /\ row.arrived \in Int
      /\ row.arrived <= now
  BY <1>1, <1>2, TypedRow, RowOfInv DEF Right
<1>4. in \in Instants /\ out \in Instants /\ in < out
  BY PlansAreInstants
<1>5. /\ DOMAIN b = DOMAIN book /\ b[r] = new
      /\ \A q \in DOMAIN b : q # r => q \in DOMAIN book /\ b[q] = book[q]
  BY <1>2
<1>6. row.status # "cancelled" /\ row.closedBy # "manual"
  <2>1. Active(row) => row.status # "cancelled" /\ row.closedBy = "nobody"
    BY <1>3, TypedRow
  <2>. QED
    BY <1>2, <2>1 DEF MayReschedule, Waiting, InHouse
<1>7. row.arrived > 0 => in = row.in /\ row.in <= row.arrived
  <2>1. row.arrived > 0 => in = row.in
    <3>1. row.arrived > 0 => row.arrived # 0
      BY <1>3
    <3>2. Waiting(row) => row.arrived = 0
      BY DEF Waiting
    <3>3. ~Waiting(row) => in = row.in
      BY <1>2 DEF MayReschedule
    <3>. QED
      BY <3>1, <3>2, <3>3
  <2>2. row.arrived > 0 => row.in <= row.arrived
    BY <1>1, <1>2 DEF Proved, Timed
  <2>. QED
    BY <2>1, <2>2
<1>8. row.proof <= cleaned[row.room] /\ 0 <= cleaned[row.room]
  <2>1. cleaned[row.room] \in Instants
    BY <1>1, <1>3 DEF Inv, Row
  <2>2. row.proof <= cleaned[row.room]
    BY <1>1, <1>2 DEF Proved, Stamped
  <2>. QED
    BY <2>1, <2>2, InstantsAreInts
<1>. HIDE DEF rooms, row, in, out
<1>9. /\ new.room = row.room /\ new.in = in /\ new.out = out /\ new.left = 0
      /\ new.arrived = row.arrived /\ new.corrected = row.corrected
      /\ new.proof = IF in # row.in THEN 0 ELSE row.proof
  BY <1>1, <1>2, <1>3, <1>4, ChangedIsRight
<1>. HIDE DEF new
<1>10. End(new) # Open
  BY <1>2, <1>9 DEF End
<1>11. ASSUME NEW q \in DOMAIN b, q # r PROVE OpenPair(b[q], b[r]) /\ OpenPair(b[r], b[q])
  <2>1. OpenPair(b[r], b[q])
    BY <1>5, <1>10 DEF OpenPair
  <2>2. CASE in # row.in
    <3>1. b[r].proof = 0
      BY <1>5, <1>9, <2>2
    <3>2. ~(0 > 0)
      OBVIOUS
    <3>. QED
      BY <2>1, <3>1, <3>2 DEF OpenPair, Counts
  <2>3. CASE in = row.in
    <3>1. OpenPair(book[q], row)
      BY <1>1, <1>2, <1>5, <1>11 DEF Proved, Opens, row
    <3>2. OpenPair(b[q], b[r])
      BY <1>5, <1>6, <1>9, <1>11, <2>3, <3>1 DEF OpenPair, Counts, Precedes
    <3>. QED
      BY <2>1, <3>2
  <2>. QED
    BY <2>2, <2>3
<1>12. new.proof <= cleaned[new.room] /\ OnTime(new, now)
  BY <1>1, <1>7, <1>8, <1>9 DEF OnTime
<1>. HIDE DEF b
<1>13. Proved(b, rooms, now, cleaned)
  BY <1>1, <1>2, <1>3, <1>5, <1>9, <1>11, <1>12, PutKeepsProved
<1>14. \A q \in DOMAIN b : b[q].arrived > 0 => q \in DOMAIN book /\ book[q].arrived > 0
  BY <1>2, <1>5, <1>9 DEF row
<1>15. ProofInv /\ UNCHANGED <<now, request, cleaned>> /\ Commit(DropStaleProofs(b, rooms))
         /\ RowsRight(b, now)
  BY <1>2
<1>. QED
  BY <1>1, <1>13, <1>14, <1>15, DropCommitKeepsProof

LEMMA ChangeOpenEndedKeepsProof ==
  ASSUME ProofInv, NEW r \in Reservations, NEW p \in Plans[r], ChangeOpenEnded(r, p[1])
  PROVE  ProofInv' /\ Quiet
<1>. DEFINE row == book[r]
            new == Rebooked(row, p[1], Open)
            b == [book EXCEPT ![r] = new]
<1>1. Inv /\ Proved(book, {}, now, cleaned) /\ Inv' /\ now > 0
  BY ChangeOpenEndedKeepsInv, ClockIsInstant DEF ProofInv, Inv
<1>2. /\ r \in DOMAIN book /\ Waiting(row) /\ Right(row) /\ RowsRight(b, now)
      /\ Commit(DropStaleProofs(b, {row.room})) /\ row.out = Open
      /\ UNCHANGED <<now, request, cleaned>>
  BY <1>1, ChangeOpenEndedWrites
<1>3. /\ row.left = 0 /\ row.arrived = 0
      /\ cleaned[row.room] \in Instants
  BY <1>1, <1>2, TypedRow DEF Inv, Right, Waiting
<1>4. /\ DOMAIN b = DOMAIN book /\ b[r] = new
      /\ \A q \in DOMAIN b : q # r => q \in DOMAIN book /\ b[q] = book[q]
  BY <1>2
<1>. HIDE DEF row, b
<1>5. /\ new.room = row.room /\ new.left = 0 /\ new.arrived = 0 /\ new.proof = 0
  BY <1>2, <1>3, PlansAreInstants, OpenEndedIsRight
<1>. HIDE DEF new
<1>6. Fits(b)
  BY <1>2, FitsBeforeDrop DEF Commit, Allowed
<1>7. ASSUME NEW q \in DOMAIN b, q # r PROVE OpenPair(b[q], b[r]) /\ OpenPair(b[r], b[q])
  <2>1. b[q].arrived > 0 => b[q].in <= b[q].arrived
    BY <1>1, <1>4, <1>7 DEF Proved, Timed
  <2>2. OpenPair(b[r], b[q])
    BY <1>2, <1>4, <1>5, <1>6, <1>7, <2>1, OpenPrecedesNone
  <2>. QED
    BY <1>4, <1>5, <2>2 DEF OpenPair, Counts
<1>8. new.proof <= cleaned[new.room] /\ OnTime(new, now)
  BY <1>1, <1>3, <1>5, FreshIsOnTime DEF Inv
<1>9. Proved(b, {row.room}, now, cleaned)
  BY <1>1, <1>2, <1>4, <1>5, <1>7, <1>8, PutKeepsProved
<1>10. \A q \in DOMAIN b : b[q].arrived > 0 => q \in DOMAIN book /\ book[q].arrived > 0
  BY <1>4, <1>5
<1>. QED
  BY <1>1, <1>2, <1>9, <1>10, DropCommitKeepsProof

LEMMA CancelKeepsProof ==
  ASSUME ProofInv, NEW r \in Reservations, CancelReservation(r)
  PROVE  ProofInv' /\ Quiet
<1>. DEFINE row == book[r]
            new == Cancelled(row)
            b == [book EXCEPT ![r] = new]
<1>1. Inv /\ Proved(book, {}, now, cleaned) /\ Inv' /\ now > 0
  BY CancelKeepsInv, ClockIsInstant DEF ProofInv, Inv
<1>2. /\ r \in DOMAIN book /\ Waiting(row) /\ Right(row) /\ RowsRight(b, now)
      /\ Commit(DropStaleProofs(b, {row.room}))
      /\ UNCHANGED <<now, request, cleaned>>
  BY <1>1, CancelWrites
<1>3. /\ row \in Row /\ row.left = 0 /\ row.arrived = 0
      /\ cleaned[row.room] \in Instants
  BY <1>1, <1>2, TypedRow DEF Inv, Right, Waiting
<1>4. new.left = row.left
  BY <1>3 DEF Cancelled, Row
<1>5. /\ DOMAIN b = DOMAIN book /\ b[r] = new
      /\ \A q \in DOMAIN b : q # r => q \in DOMAIN book /\ b[q] = book[q]
  BY <1>2
<1>. HIDE DEF row, b
<1>6. /\ new.room = row.room /\ new.left = 0 /\ new.arrived = 0 /\ new.proof = 0
      /\ new.status = "cancelled"
  BY <1>2, <1>3, <1>4, CancelledIsRight
<1>. HIDE DEF new
<1>7. \A q \in DOMAIN b : q # r => OpenPair(b[q], b[r]) /\ OpenPair(b[r], b[q])
  BY <1>5, <1>6 DEF OpenPair, Counts, Precedes
<1>8. new.proof <= cleaned[new.room] /\ OnTime(new, now)
  BY <1>1, <1>3, <1>6, FreshIsOnTime DEF Inv
<1>9. Proved(b, {row.room}, now, cleaned)
  BY <1>1, <1>2, <1>5, <1>6, <1>7, <1>8, PutKeepsProved
<1>10. \A q \in DOMAIN b : b[q].arrived > 0 => q \in DOMAIN book /\ book[q].arrived > 0
  BY <1>5, <1>6
<1>. QED
  BY <1>1, <1>2, <1>9, <1>10, DropCommitKeepsProof

LEMMA MoveBeforeKeepsProof ==
  ASSUME ProofInv, NEW r \in Reservations, NEW room \in Rooms, MoveBeforeCheckin(r, room)
  PROVE  ProofInv' /\ Quiet
<1>. DEFINE row == book[r]
            new == Relocated(row, room)
            b == [book EXCEPT ![r] = new]
<1>1. Inv /\ Proved(book, {}, now, cleaned) /\ Inv' /\ now > 0
  BY MoveBeforeKeepsInv, ClockIsInstant DEF ProofInv, Inv
<1>2. /\ r \in DOMAIN book /\ Waiting(row) /\ Right(row) /\ Commit(b)
      /\ UNCHANGED <<now, request, cleaned>>
  <2>1. r \in DOMAIN book /\ Waiting(row)
    BY DEF MoveBeforeCheckin
  <2>. QED
    BY <1>1, <2>1, RowOfInv DEF MoveBeforeCheckin, Relocated
<1>3. /\ row \in Row /\ row.left = 0 /\ row.arrived = 0
      /\ cleaned[room] \in Instants
  BY <1>1, <1>2, TypedRow DEF Inv, Right, Waiting
<1>4. new.left = row.left
  BY <1>3 DEF Relocated, Row
<1>5. /\ DOMAIN b = DOMAIN book /\ b[r] = new
      /\ \A q \in DOMAIN b : q # r => q \in DOMAIN book /\ b[q] = book[q]
  BY <1>2
<1>. HIDE DEF row, b
<1>6. /\ new.room = room /\ new.left = 0 /\ new.arrived = 0 /\ new.proof = 0
      /\ (new.corrected = 0 => new.stay[1].moved = "before")
  BY <1>2, <1>3, <1>4, RelocatedIsRight
<1>. HIDE DEF new
<1>7. \A q \in DOMAIN b : q # r => OpenPair(b[q], b[r]) /\ OpenPair(b[r], b[q])
                               /\ EndPair(b[q], b[r]) /\ EndPair(b[r], b[q])
  BY <1>5, <1>6 DEF OpenPair, EndPair, Counts, Precedes
<1>8. new.proof <= cleaned[new.room] /\ OnTime(new, now)
  BY <1>1, <1>3, <1>6, FreshIsOnTime DEF Inv
<1>9. Proved(b, {}, now, cleaned)
  BY <1>1, <1>2, <1>5, <1>6, <1>7, <1>8, PutKeepsProved
<1>10. \A q \in DOMAIN b : b[q].arrived > 0 => q \in DOMAIN book /\ book[q].arrived > 0
  BY <1>5, <1>6
<1>. QED
  BY <1>1, <1>2, <1>9, <1>10, CommitKeepsProof

\* A correction marks the row, which then says nothing to any proof.
LEMMA CorrectionKeepsProof ==
  ASSUME ProofInv, NEW r \in Reservations, NEW room \in Rooms, CorrectOccupancy(r, room)
  PROVE  ProofInv' /\ Quiet
<1>1. Inv /\ Proved(book, {}, now, cleaned) /\ Inv'
  BY CorrectionKeepsInv DEF ProofInv
<1>2. PICK st \in Seq(Segment), retired \in SUBSET Segment :
        LET new == Corrected(book[r], st, retired)
            b == [book EXCEPT ![r] = new]
        IN /\ r \in DOMAIN book /\ Active(book[r])
           /\ Right(book[r]) /\ Right(new) /\ RowsRight(b, now)
           /\ Commit(b) /\ UNCHANGED <<now, request, cleaned>>
  BY <1>1, CorrectionWrites
<1>. DEFINE row == book[r]
            new == Corrected(row, st, retired)
            b == [book EXCEPT ![r] = new]
<1>3. /\ r \in DOMAIN book /\ Right(row) /\ Commit(b)
      /\ UNCHANGED <<now, request, cleaned>>
  BY <1>2
<1>4. /\ DOMAIN b = DOMAIN book /\ b[r] = new
      /\ \A q \in DOMAIN b : q # r => q \in DOMAIN book /\ b[q] = book[q]
  BY <1>3
<1>5. OnTime(row, now) /\ row.proof <= cleaned[row.room]
  BY <1>1, <1>3 DEF Proved, Timed, Stamped, OnTime
<1>. HIDE DEF row, b
<1>6. /\ new.arrived = row.arrived /\ new.room = row.room /\ new.in = row.in
      /\ new.left = row.left /\ new.proof = row.proof /\ new.corrected > 0
  BY <1>3, CorrectedIsRight
<1>. HIDE DEF new
<1>7. new.corrected # 0
  BY <1>6
<1>8. \A q \in DOMAIN b : q # r => OpenPair(b[q], b[r]) /\ OpenPair(b[r], b[q])
                               /\ EndPair(b[q], b[r]) /\ EndPair(b[r], b[q])
  BY <1>4, <1>7 DEF OpenPair, EndPair, Counts, Precedes
<1>9. new.proof <= cleaned[new.room] /\ OnTime(new, now)
  BY <1>5, <1>6 DEF OnTime
<1>10. Proved(b, {}, now, cleaned)
  BY <1>1, <1>3, <1>4, <1>8, <1>9, PutKeepsProved
<1>11. \A q \in DOMAIN b : b[q].arrived > 0 => q \in DOMAIN book /\ book[q].arrived > 0
  BY <1>3, <1>4, <1>6 DEF row
<1>. QED
  BY <1>1, <1>3, <1>10, <1>11, CommitKeepsProof

\* Writing one row that says no more than before.
LEMMA PutWeakerKeepsProved ==
  ASSUME NEW b, NEW but, NEW t, NEW approved, Proved(b, but, t, approved),
         NEW r \in DOMAIN b, NEW new, Weaker(new, b[r]), OnTime(new, t)
  PROVE  Proved([b EXCEPT ![r] = new], but, t, approved)
<1>. DEFINE c == [b EXCEPT ![r] = new]
<1>1. DOMAIN c = DOMAIN b /\ \A q \in DOMAIN b : c[q] = IF q = r THEN new ELSE b[q]
  OBVIOUS
<1>. HIDE DEF c
<1>2. \A q \in DOMAIN b : Weaker(c[q], b[q]) /\ OnTime(c[q], t)
  BY <1>1 DEF Weaker, Proved, Timed, OnTime
<1>3. Proved(c, but, t, approved)
  BY <1>1, <1>2, WeakerKeepsProved
<1>. QED
  BY <1>3 DEF c

LEMMA MoveDuringKeepsProof ==
  ASSUME ProofInv, NEW r \in Reservations, NEW room \in Rooms, NEW t \in Scheduled,
         MoveDuringStay(r, room, t)
  PROVE  ProofInv' /\ Quiet
<1>. DEFINE row == book[r]
            new == MovedOn(row, room, t)
            b == [book EXCEPT ![r] = new]
<1>1. Inv /\ Proved(book, {}, now, cleaned) /\ Inv'
  BY MoveDuringKeepsInv DEF ProofInv
<1>2. /\ r \in DOMAIN book /\ InHouse(row) /\ Right(row) /\ Commit(b)
      /\ UNCHANGED <<now, request, cleaned>> /\ row.out # Open
      /\ LastSeg(row.stay).from < t /\ t < row.out /\ row.stay # <<>>
  <2>1. r \in DOMAIN book
    BY DEF MoveDuringStay
  <2>. QED
    BY <1>1, <2>1, RowOfInv DEF MoveDuringStay, MovedOn, Cut
<1>3. row.status # "cancelled"
  BY <1>2 DEF InHouse, Active
<1>4. t \in Instants
  BY HorizonIsEven DEF Scheduled, Instants
<1>5. OnTime(row, now)
  BY <1>1, <1>2 DEF OnTime, Proved, Timed
<1>. HIDE DEF row
<1>6. /\ new.room = row.room /\ new.in = row.in /\ new.proof = row.proof
      /\ new.out = row.out /\ new.left = row.left /\ new.status = row.status
      /\ new.closedBy = row.closedBy /\ new.arrived = row.arrived
      /\ new.corrected = row.corrected
      /\ (row.corrected = 0 => new.stay[1].moved = row.stay[1].moved)
  BY <1>2, <1>4, MovedOnIsRight
<1>. HIDE DEF new
<1>7. Weaker(new, row)
  BY <1>3, <1>6 DEF Weaker, End, Active
<1>8. OnTime(new, now)
  BY <1>5, <1>6 DEF OnTime
<1>9. Proved(b, {}, now, cleaned)
  BY <1>1, <1>2, <1>7, <1>8, PutWeakerKeepsProved DEF row
<1>10. \A q \in DOMAIN b : b[q].arrived > 0 => q \in DOMAIN book /\ book[q].arrived > 0
  BY <1>2, <1>6 DEF row
<1>. HIDE DEF b
<1>. QED
  BY <1>1, <1>2, <1>9, <1>10, CommitKeepsProof

LEMMA CheckoutKeepsProof ==
  ASSUME ProofInv, NEW r \in Reservations, ManualCheckout(r)
  PROVE  ProofInv' /\ Quiet
<1>. DEFINE row == book[r]
            new == CheckedOut(row, now)
            b == [book EXCEPT ![r] = new]
<1>1. Inv /\ Proved(book, {}, now, cleaned) /\ Inv' /\ Clock
  BY CheckoutKeepsInv DEF ProofInv, Inv
<1>2. /\ r \in DOMAIN book /\ InHouse(row) /\ Right(row) /\ row.arrived <= now /\ Commit(b)
      /\ UNCHANGED <<now, request, cleaned>> /\ now < row.out
      /\ Withdraws(row, now) => Underway(row, now) # {}
  <2>1. r \in DOMAIN book
    BY DEF ManualCheckout
  <2>. QED
    BY <1>1, <2>1, RowOfInv DEF ManualCheckout, CheckedOut
<1>3. /\ row.status # "cancelled" /\ Active(row) /\ End(row) = row.out /\ row.out \in Int
  BY <1>2, TypedRow DEF InHouse, Right
<1>4. now \in Instants /\ now \in Int /\ now < Open /\ 0 < now /\ now > 0
  BY <1>1, ClockIsInstant
<1>5. OnTime(row, now) /\ row.proof <= cleaned[row.room]
  BY <1>1, <1>2 DEF OnTime, Proved, Timed, Stamped
<1>6. /\ DOMAIN b = DOMAIN book /\ b[r] = new
      /\ \A q \in DOMAIN b : q # r => q \in DOMAIN book /\ b[q] = book[q]
  BY <1>2
<1>. HIDE DEF row
<1>7. new.closedBy = "manual"
  BY <1>2 DEF CheckedOut, Right, Typed, Row
<1>. HIDE DEF b
<1>8. /\ new.room = row.room /\ new.in = row.in /\ new.proof = row.proof
      /\ new.left = now /\ new.status = "checked_out" /\ new.arrived = row.arrived
      /\ new.corrected = row.corrected
      /\ (row.corrected = 0 => new.stay[1].moved = row.stay[1].moved)
  BY <1>2, <1>4, CheckedOutIsRight
<1>. HIDE DEF new
<1>9. End(new) = now
  BY <1>4, <1>8 DEF End
<1>10. ASSUME NEW q \in DOMAIN b, q # r
       PROVE  /\ OpenPair(b[q], b[r]) /\ OpenPair(b[r], b[q])
              /\ EndPair(b[q], b[r]) /\ EndPair(b[r], b[q])
  <2>1. OpenPair(b[q], b[r]) /\ EndPair(b[q], b[r])
    BY <1>6, <1>7, <1>8 DEF OpenPair, EndPair, Counts, Active
  <2>2. OpenPair(b[r], b[q])
    BY <1>4, <1>6, <1>9 DEF OpenPair
  <2>3. ASSUME Active(b[q]), b[q].corrected = 0, b[q].proof > 0, Precedes(b[r], b[q])
        PROVE  now <= b[q].proof
    <3>1. Precedes(row, b[q])
      BY <1>3, <1>6, <1>8, <2>3 DEF Precedes
    <3>2. OpenPair(row, book[q]) /\ EndPair(row, book[q]) /\ Right(book[q]) /\ b[q] = book[q]
      BY <1>1, <1>2, <1>6, <1>10 DEF Proved, Opens, Ends, Inv, RowsRight, row
    <3>3. Counts(book[q]) /\ book[q].proof \in Int
      BY <2>3, <3>2, TypedRow DEF Counts, Right
    <3>4. End(row) # Open /\ End(row) <= book[q].proof
      BY <2>3, <3>1, <3>2, <3>3 DEF OpenPair, EndPair
    <3>. QED
      BY <1>2, <1>3, <1>4, <3>2, <3>3, <3>4
  <2>4. EndPair(b[r], b[q])
    BY <1>6, <1>9, <2>3 DEF EndPair
  <2>. QED
    BY <2>1, <2>2, <2>4
<1>11. OnTime(new, now) /\ new.proof <= cleaned[new.room]
  BY <1>4, <1>5, <1>8 DEF OnTime
<1>12. Proved(b, {}, now, cleaned)
  BY <1>1, <1>2, <1>6, <1>10, <1>11, PutKeepsProved
<1>13. \A q \in DOMAIN b : b[q].arrived > 0 => q \in DOMAIN book /\ book[q].arrived > 0
  BY <1>2, <1>6, <1>8 DEF row
<1>14. Commit(b) /\ UNCHANGED <<now, request, cleaned>>
  BY <1>2
<1>. QED
  BY <1>1, <1>12, <1>13, <1>14, CommitKeepsProof

\* Approved work proves a room ready for a reservation only when whoever precedes
\* it there has an end, and that end is not later than the work.
LEMMA GiveKeepsProved ==
  ASSUME Clock, NEW b, RowsRight(b, now), Fits(b), NEW approved \in [Rooms -> Instants],
         Proved(b, {}, now, approved), NEW room \in Rooms, NEW from \in Instants
  PROVE  LET c == GiveProof(b, room, from)
             more == [approved EXCEPT ![room] = IF @ > from THEN @ ELSE from]
         IN /\ Proved(c, {}, now, more) /\ DOMAIN c = DOMAIN b
            /\ \A q \in DOMAIN b : c[q].arrived = b[q].arrived
<1>. DEFINE c == GiveProof(b, room, from)
            more == [approved EXCEPT ![room] = IF @ > from THEN @ ELSE from]
            wanting == {r \in DOMAIN b :
                    /\ b[r].room = room /\ Active(b[r]) /\ b[r].proof = 0
                    /\ b[r].in >= now /\ from >= RequiredAfter(b, r)}
<1>1. /\ from \in Int /\ from <= more[room]
      /\ \A x \in Rooms : approved[x] <= more[x] /\ approved[x] \in Int /\ more[x] \in Int
  <2>1. from \in Int /\ \A x \in Rooms : approved[x] \in Int
    BY InstantsAreInts
  <2>. QED
    BY <2>1
<1>. HIDE DEF more
<1>2. Proved(b, {}, now, more)
  <2>1. ASSUME NEW r \in DOMAIN b PROVE b[r].proof <= more[b[r].room]
    <3>1. b[r].room \in Rooms /\ b[r].proof \in Int
      BY TypedRow DEF RowsRight, Right
    <3>2. b[r].proof <= approved[b[r].room]
      BY DEF Proved, Stamped
    <3>. QED
      BY <1>1, <3>1, <3>2
  <2>. QED
    BY <2>1 DEF Proved, Stamped
<1>3. CASE wanting = {}
  <2>1. c = b
    BY <1>3 DEF GiveProof
  <2>. QED
    BY <1>2, <2>1 DEF more
<1>4. CASE wanting # {}
  <2>. DEFINE r == CHOOSE r \in wanting : \A q \in wanting : b[r].in <= b[q].in
              new == [b[r] EXCEPT !.proof = from]
  <2>1. r \in wanting
    <3>. DEFINE ins == {b[q].in : q \in wanting}
    <3>1. \A q \in wanting : b[q].in \in Nat
      <4>. SUFFICES ASSUME NEW q \in wanting PROVE b[q].in \in Nat
        OBVIOUS
      <4>1. b[q].in \in Instants
        BY DEF RowsRight, Right, Typed, Row
      <4>2. b[q].in \in Int /\ 0 <= b[q].in
        BY <4>1, InstantsAreInts
      <4>. QED
        BY <4>2
    <3>2. ins \in SUBSET Nat /\ ins # {}
      BY <1>4, <3>1
    <3>3. PICK d \in ins : \A e \in ins : d <= e
      <4>. HIDE DEF ins
      <4>. QED
        BY <3>2, LeastIn
    <3>. HIDE DEF wanting
    <3>4. \E p \in wanting : \A q \in wanting : b[p].in <= b[q].in
      BY <3>3
    <3>. QED
      BY <3>4
  <2>2. c = [b EXCEPT ![r] = new]
    BY <1>4 DEF GiveProof
  <2>. HIDE DEF r
  <2>3. /\ r \in DOMAIN b /\ b[r].room = room /\ Active(b[r])
        /\ b[r].in >= now /\ from >= RequiredAfter(b, r)
    BY <2>1
  <2>. HIDE DEF c, wanting
  <2>4. /\ Right(b[r]) /\ b[r] \in Row /\ b[r].status # "cancelled"
        /\ b[r].closedBy = "nobody" /\ b[r].in \in Int
    BY <2>3, TypedRow DEF RowsRight, Right
  <2>5. /\ new.room = room /\ new.in = b[r].in /\ new.proof = from /\ new.stay = b[r].stay
        /\ new.status = b[r].status /\ new.arrived = b[r].arrived /\ new.left = b[r].left
        /\ new.closedBy = b[r].closedBy /\ new.corrected = b[r].corrected
        /\ End(new) = End(b[r])
    BY <2>3, <2>4 DEF Row, End
  <2>. HIDE DEF new
  <2>6. /\ DOMAIN c = DOMAIN b /\ c[r] = new
        /\ \A q \in DOMAIN c : q # r => q \in DOMAIN b /\ c[q] = b[q]
    BY <2>2, <2>3
  <2>7. ASSUME NEW q \in DOMAIN b, q # r, b[r].corrected = 0, Precedes(b[q], b[r])
        PROVE  End(b[q]) # Open /\ End(b[q]) <= from
    <3>1. /\ Sound(b[q]) /\ Sound(b[r]) /\ Typed(b[q]) /\ b[q].arrived <= now /\ b[q].left <= now
          /\ now \in Int /\ now < Open /\ Open \in Int
          /\ (b[r].arrived > 0 => b[r].in <= b[r].arrived)
      BY <2>3, <2>7, ClockIsInstant, InstantsAreInts
      DEF RowsRight, Right, Precedes, Proved, Timed
    <3>2. /\ b[q].arrived \in Int /\ b[q].left \in Int /\ End(b[q]) \in Int
      BY <3>1, TypedRow
    <3>3. b[q].left # Open /\ b[q].arrived <= b[r].in
      BY <2>3, <2>4, <3>1, <3>2
    <3>4. End(b[q]) # Open
      BY <2>3, <2>4, <2>7, <3>1, <3>3, OpenMeets
    <3>5. End(b[q]) <= RequiredAfter(b, r) /\ RequiredAfter(b, r) \in Int
      BY <2>3, <2>7, <3>4, RequiredCovers, RequiredIsInt
    <3>. QED
      BY <1>1, <2>3, <3>2, <3>4, <3>5
  <2>8. ASSUME NEW q \in DOMAIN c, q # r
        PROVE  /\ OpenPair(c[q], c[r]) /\ OpenPair(c[r], c[q])
               /\ EndPair(c[q], c[r]) /\ EndPair(c[r], c[q])
    <3>1. Precedes(c[q], c[r]) => Precedes(b[q], b[r])
      BY <2>3, <2>5, <2>6, <2>8 DEF Precedes
    <3>2. OpenPair(c[q], c[r]) /\ EndPair(c[q], c[r])
      BY <2>5, <2>6, <2>7, <2>8, <3>1 DEF OpenPair, EndPair, Counts
    <3>3. Precedes(c[r], c[q]) => Precedes(b[r], b[q])
      BY <2>3, <2>5, <2>6, <2>8 DEF Precedes
    <3>4. OpenPair(b[r], b[q]) /\ EndPair(b[r], b[q])
      BY <2>3, <2>6, <2>8 DEF Proved, Opens, Ends
    <3>5. OpenPair(c[r], c[q]) /\ EndPair(c[r], c[q])
      BY <2>5, <2>6, <2>8, <3>3, <3>4 DEF OpenPair, EndPair
    <3>. QED
      BY <3>2, <3>5
  <2>9. new.proof <= more[new.room] /\ OnTime(new, now)
    BY <1>1, <2>3, <2>5 DEF OnTime, Proved, Timed
  <2>10. Proved(c, {}, now, more)
    BY <1>2, <2>3, <2>6, <2>8, <2>9, PutKeepsProved
  <2>11. \A q \in DOMAIN b : c[q].arrived = b[q].arrived
    BY <2>5, <2>6
  <2>. QED
    BY <2>6, <2>10, <2>11 DEF c, more
<1>. QED
  BY <1>3, <1>4

\* An approval of work of a row that changes in nothing else.
LEMMA ApproveKeepsProof ==
  ASSUME ProofInv, Inv', NEW b, RowsRight(b, now), Fits(b), NEW room \in Rooms,
         NEW from \in Instants, Approve(b, room, from), DOMAIN b = DOMAIN book,
         Proved(b, {}, now, cleaned),
         \A q \in DOMAIN b : b[q].arrived = book[q].arrived
  PROVE  ProofInv' /\ Quiet
<1>. DEFINE c == GiveProof(b, room, from)
            more == [cleaned EXCEPT ![room] = IF @ > from THEN @ ELSE from]
<1>1. book' = c /\ cleaned' = more /\ now' = now
  BY DEF Approve
<1>2. Clock /\ cleaned \in [Rooms -> Instants]
  BY DEF ProofInv, Inv
<1>3. /\ Proved(c, {}, now, more) /\ DOMAIN c = DOMAIN b
      /\ \A q \in DOMAIN b : c[q].arrived = b[q].arrived
  BY <1>2, GiveKeepsProved
<1>. HIDE DEF c, more
<1>. QED
  BY <1>1, <1>3 DEF ProofInv, Quiet

LEMMA ApproveRequestKeepsProof ==
  ASSUME ProofInv, NEW room \in Rooms, ApproveRequest(room) PROVE ProofInv' /\ Quiet
<1>1. Inv /\ Inv' /\ Proved(book, {}, now, cleaned)
  BY ApproveRequestKeepsInv DEF ProofInv
<1>2. request[room] \in Instants /\ Approve(book, room, request[room])
        /\ RowsRight(book, now) /\ Fits(book)
  BY <1>1 DEF ApproveRequest, Inv
<1>. QED
  BY <1>1, <1>2, ApproveKeepsProof

LEMMA ApproveCheckoutKeepsProof ==
  ASSUME ProofInv, NEW r \in Reservations, ApproveCheckout(r) PROVE ProofInv' /\ Quiet
<1>. DEFINE row == book[r]
            new == [row EXCEPT !.final.state = "done"]
            b == [book EXCEPT ![r] = new]
<1>1. Inv /\ Inv' /\ Proved(book, {}, now, cleaned) /\ r \in DOMAIN book
  BY ApproveCheckoutKeepsInv DEF ProofInv, ApproveCheckout
<1>2. Approve(b, row.final.room, row.final.from)
  <2>1. [book EXCEPT ![r].final.state = "done"] = b
    OBVIOUS
  <2>. QED
    BY <2>1 DEF ApproveCheckout
<1>3. /\ Right(row) /\ row.arrived <= now /\ row \in Row
      /\ RowsRight(book, now) /\ Fits(book)
  BY <1>1, RowOfInv DEF Inv
<1>4. row.final.room \in Rooms /\ row.final.from \in Instants
  BY <1>3 DEF Row, Task
<1>. HIDE DEF row
<1>5. /\ new.room = row.room /\ new.in = row.in /\ new.proof = row.proof
      /\ new.out = row.out /\ new.left = row.left /\ new.status = row.status
      /\ new.closedBy = row.closedBy /\ new.corrected = row.corrected
  BY <1>3, FinalDoneIsRight
<1>6. Right(new) /\ new.stay = row.stay /\ new.arrived = row.arrived
  BY <1>3, FinalDoneIsRight
<1>. HIDE DEF new
<1>7. RowsRight(b, now)
  BY <1>1, <1>3, <1>6, PutIsRight DEF row
<1>8. Weaker(new, row) /\ OnTime(new, now)
  BY <1>1, <1>5, <1>6 DEF Weaker, End, Active, OnTime, Proved, Timed, row
<1>9. Proved(b, {}, now, cleaned)
  BY <1>1, <1>8, PutWeakerKeepsProved DEF row
<1>10. DOMAIN b = DOMAIN book
         /\ \A q \in DOMAIN b : b[q].stay = book[q].stay /\ b[q].arrived = book[q].arrived
  BY <1>1, <1>6 DEF row
<1>. HIDE DEF b
<1>11. Fits(b)
  BY <1>3, <1>10, FitsOfSame
<1>. QED
  BY <1>1, <1>2, <1>4, <1>7, <1>9, <1>10, <1>11, ApproveKeepsProof

LEMMA ApproveLegKeepsProof ==
  ASSUME ProofInv, NEW r \in DOMAIN book, NEW leg \in book[r].legs, ApproveLeg(r, leg)
  PROVE  ProofInv' /\ Quiet
<1>. DEFINE row == book[r]
            new == [row EXCEPT !.legs = (@ \ {leg}) \cup {[leg EXCEPT !.done = TRUE]}]
            b == [book EXCEPT ![r] = new]
<1>1. Inv /\ Inv' /\ Proved(book, {}, now, cleaned)
  BY ApproveLegKeepsInv DEF ProofInv
<1>2. Approve(b, leg.room, leg.from)
  <2>1. [book EXCEPT ![r].legs = (@ \ {leg}) \cup {[leg EXCEPT !.done = TRUE]}] = b
    OBVIOUS
  <2>. QED
    BY <2>1 DEF ApproveLeg
<1>3. /\ Right(row) /\ row.arrived <= now /\ row \in Row /\ leg \in row.legs
      /\ RowsRight(book, now) /\ Fits(book)
  BY <1>1, RowOfInv DEF Inv
<1>4. leg.room \in Rooms /\ leg.from \in Instants
  BY <1>3 DEF Row, Leg
<1>. HIDE DEF row
<1>5. /\ new.room = row.room /\ new.in = row.in /\ new.proof = row.proof
      /\ new.out = row.out /\ new.left = row.left /\ new.status = row.status
      /\ new.closedBy = row.closedBy /\ new.corrected = row.corrected
  BY <1>3, LegDoneIsRight
<1>6. Right(new) /\ new.stay = row.stay /\ new.arrived = row.arrived
  BY <1>3, LegDoneIsRight
<1>. HIDE DEF new
<1>7. RowsRight(b, now)
  BY <1>1, <1>3, <1>6, PutIsRight DEF row
<1>8. Weaker(new, row) /\ OnTime(new, now)
  BY <1>1, <1>5, <1>6 DEF Weaker, End, Active, OnTime, Proved, Timed, row
<1>9. Proved(b, {}, now, cleaned)
  BY <1>1, <1>8, PutWeakerKeepsProved DEF row
<1>10. DOMAIN b = DOMAIN book
         /\ \A q \in DOMAIN b : b[q].stay = book[q].stay /\ b[q].arrived = book[q].arrived
  BY <1>1, <1>6 DEF row
<1>. HIDE DEF b
<1>11. Fits(b)
  BY <1>3, <1>10, FitsOfSame
<1>. QED
  BY <1>1, <1>2, <1>4, <1>7, <1>9, <1>10, <1>11, ApproveKeepsProof

LEMMA RequestKeepsProof ==
  ASSUME ProofInv, NEW room \in Rooms, NEW t \in Scheduled, RequestCleaning(room, t)
  PROVE  ProofInv' /\ Quiet
<1>1. Inv'
  BY RequestKeepsInv DEF ProofInv
<1>. QED
  BY <1>1 DEF ProofInv, RequestCleaning, Quiet

LEMMA AdvanceKeepsProof == ASSUME ProofInv, Advance PROVE ProofInv' /\ Quiet
<1>1. Inv /\ Inv' /\ Proved(book, {}, now, cleaned)
  BY AdvanceKeepsInv DEF ProofInv
<1>2. now' = now + 2 /\ book' = book /\ cleaned' = cleaned /\ now \in Int
  BY <1>1, ClockIsInstant DEF Advance, Inv
<1>3. Timed(book, now')
  <2>. SUFFICES ASSUME NEW r \in DOMAIN book PROVE book[r].left <= now'
    BY <1>1 DEF Timed, Proved
  <2>1. book[r].left <= now /\ book[r].left \in Int
    BY <1>1, TypedRow DEF Proved, Timed, Inv, RowsRight, Right
  <2>. QED
    BY <1>2, <2>1
<1>4. Proved(book, {}, now', cleaned)
  BY <1>1, <1>3 DEF Proved
<1>. QED
  BY <1>1, <1>2, <1>4 DEF ProofInv, Quiet

\* A guest who comes in, and a stay closed, leave the proofs as they are.
LEMMA EnteredIsWeaker ==
  ASSUME NEW row, Right(row), Waiting(row), NEW t \in Instants, t > 0, t < row.out,
         row.in <= t
  PROVE  LET new == Entered(row, t) IN
         /\ Weaker(new, row) /\ new.left = 0 /\ new.arrived = t
         /\ (new.arrived > 0 => new.in <= new.arrived)
<1>. DEFINE new == Entered(row, t)
<1>1. row \in Row /\ row.left = 0 /\ row.status # "cancelled" /\ Active(row)
  BY TypedRow DEF Right, Waiting
<1>2. new.closedBy = row.closedBy
  BY <1>1 DEF Entered, Row
<1>. HIDE DEF new
<1>3. /\ new.room = row.room /\ new.in = row.in /\ new.out = row.out
      /\ new.arrived = t /\ new.status = row.status /\ new.left = row.left
      /\ new.proof = row.proof /\ new.corrected = row.corrected
      /\ (row.corrected = 0 => new.stay[1].moved = row.stay[1].moved)
  BY EnteredIsRight DEF new
<1>4. Weaker(new, row)
  BY <1>1, <1>2, <1>3 DEF Weaker, End, Active
<1>. QED
  BY <1>1, <1>3, <1>4 DEF new

LEMMA ClosedIsWeaker ==
  ASSUME NEW row, Right(row), Active(row), row.out # Open
  PROVE  LET new == Closed(row) IN Weaker(new, row) /\ new.left = row.out
<1>. DEFINE new == Closed(row)
<1>1. /\ End(row) = row.out /\ row.status # "cancelled" /\ row.closedBy = "nobody"
      /\ row.out \in Int
  BY TypedRow DEF Right
<1>2. /\ new.room = row.room /\ new.in = row.in /\ new.out = row.out
      /\ new.status = "checked_out" /\ new.left = row.out
      /\ new.proof = row.proof /\ new.corrected = row.corrected
      /\ (row.corrected = 0 => new.stay = row.stay)
  BY ClosedIsRight
<1>. HIDE DEF new
<1>3. End(new) = row.out
  BY <1>2 DEF End
<1>4. Weaker(new, row)
  BY <1>1, <1>2, <1>3 DEF Weaker, Active
<1>. QED
  BY <1>2, <1>4 DEF new

\* What a tick makes of a row: it has come now, or its arrival and, unless it was
\* corrected, its segments are as they were.
Ticked(new, old) ==
  /\ Weaker(new, old) /\ OnTime(new, now)
  /\ \/ new.arrived = now
     \/ new.arrived = old.arrived /\ (old.corrected = 0 => new.stay = old.stay)
  /\ new.arrived > 0 /\ old.arrived = 0 =>
       Waiting(old) /\ old.in <= now /\ old.proof > 0 /\ now < old.out

LEMMA TickRows == ASSUME ProofInv, Tick
  PROVE /\ DOMAIN book' = DOMAIN book /\ UNCHANGED <<now, request, cleaned>>
        /\ \A q \in DOMAIN book : Ticked(book'[q], book[q])
<1>1. PICK barred \in SUBSET Awaited : ProcessDue(barred)
  BY DEF Tick
<1>. DEFINE early == {r \in DOMAIN book : book[r].out = Open /\ MayEnter(book, r, barred)}
            entered == Enter(book, early)
            closed == Close(entered)
            late == {r \in DOMAIN book : book[r].out # Open /\ MayEnter(closed, r, barred)}
            done == Enter(closed, late)
<1>2. book' = done /\ UNCHANGED <<now, request, cleaned>>
  BY <1>1 DEF ProcessDue, Commit
<1>3. DOMAIN entered = DOMAIN book /\ DOMAIN closed = DOMAIN book /\ DOMAIN done = DOMAIN book
  BY DEF Enter, Close
<1>4. ASSUME NEW q \in DOMAIN book PROVE Ticked(done[q], book[q])
  <2>. DEFINE row == book[q]
  <2>1. /\ Right(row) /\ row.arrived <= now /\ Clock /\ now \in Instants /\ now > 0
        /\ now < Open /\ OnTime(row, now) /\ now \in Int
    BY RowOfInv, ClockIsInstant DEF ProofInv, Proved, Timed, OnTime
  <2>2. row.arrived \in Int /\ row.left \in Int /\ row.in \in Int /\ row.out \in Int
          /\ row.proof \in Int /\ 0 <= now
    BY <2>1, TypedRow DEF Right
  <2>3. Weaker(row, row)
    BY DEF Weaker
  <2>4. CASE q \in early
    <3>1. Waiting(row) /\ row.in <= now /\ row.proof > 0 /\ row.out = Open /\ now < row.out
      BY <2>1, <2>4 DEF MayEnter
    <3>. DEFINE new == Entered(row, now)
    <3>2. entered[q] = new
      BY <2>4 DEF Enter, Entered
    <3>3. new.out = row.out /\ new.arrived = now /\ Weaker(new, row) /\ new.left = 0
            /\ (new.arrived > 0 => new.in <= new.arrived)
      BY <2>1, <3>1, EnteredIsRight, EnteredIsWeaker
    <3>. HIDE DEF new, row
    <3>4. ~(new.out <= now)
      BY <2>1, <2>2, <3>1, <3>3
    <3>5. closed[q] = new
      <4>. HIDE DEF entered
      <4>. QED
        BY <1>3, <3>2, <3>4 DEF Close, Due
    <3>6. q \notin late
      BY <3>1 DEF row
    <3>7. done[q] = new
      <4>. HIDE DEF closed, late
      <4>. QED
        BY <1>3, <3>5, <3>6 DEF Enter
    <3>. HIDE DEF done
    <3>. QED
      BY <2>2, <3>1, <3>3, <3>7 DEF Ticked, OnTime, row
  <2>5. CASE q \notin early
    <3>1. entered[q] = row
      BY <2>5 DEF Enter
    <3>. HIDE DEF entered
    <3>2. CASE q \in Due(entered)
      <4>1. Active(row) /\ row.out <= now /\ row.out # Open
        BY <2>1, <2>2, <3>1, <3>2 DEF Due
      <4>. DEFINE new == Closed(row)
      <4>2. closed[q] = new
        BY <1>3, <3>1, <3>2 DEF Close, Closed
      <4>3. /\ Weaker(new, row) /\ new.left = row.out /\ new.status = "checked_out"
            /\ new.arrived = row.arrived /\ (row.corrected = 0 => new.stay = row.stay)
        BY <2>1, <4>1, ClosedIsRight, ClosedIsWeaker
      <4>. HIDE DEF new, row, closed
      <4>4. q \notin late
        BY <4>2, <4>3 DEF MayEnter, Waiting, Active
      <4>5. done[q] = new
        <5>. HIDE DEF late
        <5>. QED
          BY <1>3, <4>2, <4>4 DEF Enter
      <4>6. new.in = row.in
        BY <4>3 DEF Weaker
      <4>. HIDE DEF done
      <4>. QED
        BY <2>1, <2>2, <4>1, <4>3, <4>5, <4>6 DEF Ticked, OnTime, row
    <3>3. CASE q \notin Due(entered)
      <4>1. closed[q] = row
        BY <1>3, <3>1, <3>3 DEF Close
      <4>2. Active(row) => ~(row.out <= now)
        BY <1>3, <3>1, <3>3 DEF Due
      <4>. HIDE DEF closed, row
      <4>3. CASE q \in late
        <5>1. Waiting(row) /\ row.in <= now /\ row.proof > 0
          BY <4>1, <4>3 DEF MayEnter
        <5>2. now < row.out
          BY <2>1, <2>2, <4>2, <5>1 DEF Waiting
        <5>. DEFINE new == Entered(row, now)
        <5>3. done[q] = new
          <6>. HIDE DEF late
          <6>. QED
            BY <1>3, <4>1, <4>3 DEF Enter, Entered
        <5>4. /\ new.arrived = now /\ Weaker(new, row) /\ new.left = 0
              /\ (new.arrived > 0 => new.in <= new.arrived)
          BY <2>1, <5>1, <5>2, EnteredIsWeaker
        <5>. HIDE DEF done, new
        <5>. QED
          BY <2>2, <5>1, <5>2, <5>3, <5>4 DEF Ticked, OnTime, row
      <4>4. CASE q \notin late
        <5>1. done[q] = row
          <6>. HIDE DEF late
          <6>. QED
            BY <1>3, <4>1, <4>4 DEF Enter
        <5>. HIDE DEF done
        <5>. QED
          BY <2>1, <2>2, <2>3, <5>1 DEF Ticked, row
      <4>. QED
        BY <4>3, <4>4
    <3>. QED
      BY <3>2, <3>3
  <2>. QED
    BY <2>4, <2>5
<1>. HIDE DEF done
<1>. QED
  BY <1>2, <1>3, <1>4

LEMMA TickKeepsProof == ASSUME ProofInv, Tick PROVE ProofInv'
<1>1. Inv' /\ Proved(book, {}, now, cleaned)
  BY TickKeepsInv DEF ProofInv
<1>2. /\ DOMAIN book' = DOMAIN book /\ UNCHANGED <<now, request, cleaned>>
      /\ \A q \in DOMAIN book : Weaker(book'[q], book[q]) /\ OnTime(book'[q], now)
  BY TickRows DEF Ticked
<1>3. Proved(book', {}, now, cleaned)
  BY <1>1, <1>2, WeakerKeepsProved
<1>. QED
  BY <1>1, <1>2, <1>3 DEF ProofInv

\* A guest before a stay that has an arrival and a proof, not moved into the room,
\* left it no later than the work that proves it.
LEMMA LeftBeforeWork ==
  ASSUME ProofInv, NEW r \in DOMAIN book, NEW q \in DOMAIN book, q # r,
         book[r].corrected = 0, book[q].corrected = 0,
         Waiting(book[r]), book[r].in <= now, book[r].proof > 0, now < book[r].out,
         book[q].arrived > 0, NEW s \in Range(book[q].stay), s.moved = "no",
         s.room = book[r].room, s.from < now, s.from < s.to
  PROVE  s.to <= cleaned[book[r].room]
<1>1. Inv /\ Proved(book, {}, now, cleaned)
  BY DEF ProofInv
<1>2. /\ Sound(book[r]) /\ Sound(book[q]) /\ Fits(book) /\ now \in Int /\ now < Open
      /\ book[q].in <= book[q].arrived /\ Clock
  BY <1>1, ClockIsInstant DEF Inv, RowsRight, Right, Proved, Timed
<1>. DEFINE u == book[r].stay[1]
            st == book[q].stay
<1>3. /\ Line(book[r].stay) /\ u.room = book[r].room /\ u.from = book[r].in
      /\ u.to = book[r].out /\ book[r].in < book[r].out
      /\ book[r].in \in Int /\ book[r].out \in Int /\ book[r].closedBy = "nobody"
      /\ book[r].status = "active"
  BY <1>2, WaitingIsAlone, TypedRow DEF Waiting, Active, Sound
<1>4. u \in Range(book[r].stay)
  BY <1>3, SegmentsOfLine DEF Range
<1>5. book[q].status # "cancelled"
  <2>1. st # <<>>
    BY DEF Range
  <2>. QED
    BY <1>2, <2>1 DEF Sound
<1>6. /\ Lived(book[q]) /\ Line(st) /\ book[q].in \in Int /\ book[q].arrived \in Int
      /\ st[1].room = book[q].room /\ st[1].from = book[q].arrived /\ LastSeg(st).to = End(book[q])
  BY <1>2, <1>5, SoundIsLived DEF Lived, Begins
<1>7. /\ Len(st) \in Nat /\ DOMAIN st = 1..Len(st) /\ Len(st) \in 1..Len(st)
      /\ \A i \in 1..Len(st) : st[i].from \in Int /\ st[i].to \in Int
  BY <1>6, SegmentsOfLine
<1>8. s = st[1] /\ s.from \in Int /\ s.to \in Int
  <2>1. PICK i \in 1..Len(st) : s = st[i]
    BY <1>7 DEF Range
  <2>2. ~(i >= 2)
    BY <1>6, <2>1 DEF Line
  <2>3. i = 1
    <3>. HIDE DEF st
    <3>. QED
      BY <1>7, <2>2
  <2>. QED
    BY <1>7, <2>1, <2>3
<1>9. s.to <= book[r].in
  <2>1. ~Overlap(s, u)
    BY <1>2, <1>3, <1>4 DEF Fits
  <2>. HIDE DEF u, st
  <2>. QED
    BY <1>2, <1>3, <1>8, <2>1 DEF Overlap
<1>10. Precedes(book[q], book[r])
  <2>1. book[q].in < book[r].in
    BY <1>2, <1>3, <1>6, <1>8, <1>9
  <2>. QED
    BY <1>5, <1>6, <1>8, <2>1 DEF Precedes
<1>11. End(book[q]) # Open /\ End(book[q]) <= book[r].proof
  <2>1. OpenPair(book[q], book[r]) /\ EndPair(book[q], book[r])
    BY <1>1 DEF Proved, Opens, Ends
  <2>2. Counts(book[r]) /\ Active(book[r])
    BY <1>3 DEF Counts, Active
  <2>. QED
    BY <1>10, <2>1, <2>2 DEF OpenPair, EndPair
<1>12. s.to <= End(book[q])
  <2>. DEFINE n == Len(st)
  <2>1. CASE n = 1
    BY <1>6, <1>8, <2>1 DEF LastSeg
  <2>2. CASE n # 1
    <3>1. 1 \in 1..n /\ 1 < n
      <4>1. n \in Nat /\ n \in 1..n
        BY <1>7
      <4>. HIDE DEF n
      <4>. QED
        BY <2>2, <4>1
    <3>2. s.to <= st[n].from /\ st[n].from <= st[n].to /\ st[n].to = End(book[q])
      BY <1>6, <1>7, <1>8, <3>1 DEF Line, LastSeg
    <3>. QED
      BY <1>7, <1>8, <3>2
  <2>. QED
    BY <2>1, <2>2
<1>13. book[r].proof <= cleaned[book[r].room]
  BY <1>1 DEF Proved, Stamped
<1>14. /\ End(book[q]) \in Int /\ book[r].proof \in Int /\ cleaned[book[r].room] \in Int
  <2>1. book[r].room \in Rooms
    BY <1>2 DEF Sound, Typed, Row
  <2>2. cleaned[book[r].room] \in Instants
    BY <1>1, <2>1 DEF Inv
  <2>. QED
    BY <1>2, <2>2, TypedRow, InstantsAreInts DEF Sound
<1>. QED
  BY <1>8, <1>11, <1>12, <1>13, <1>14

\* Who comes with a tick comes to a room cleaned since the last guest before,
\* unless that guest had been moved into it.
LEMMA TickBringsToClean ==
  ASSUME ProofInv, Inv', Tick, NEW r \in Reservations, Arrives(r),
         book'[r].corrected = 0, Before(r) # {}
  PROVE  cleaned[book'[r].room] >= LastBefore(r).to \/ LastBefore(r).moved # "no"
<1>1. /\ DOMAIN book' = DOMAIN book /\ now' = now
      /\ \A q \in DOMAIN book : Ticked(book'[q], book[q])
  BY TickRows
<1>2. /\ r \in DOMAIN book /\ Waiting(book[r]) /\ book[r].in <= now /\ book[r].proof > 0
      /\ now < book[r].out /\ book'[r].room = book[r].room
      /\ book[r].corrected = 0
  BY <1>1 DEF Arrives, Ticked, Weaker
<1>3. ASSUME NEW s \in Before(r)
      PROVE  s.to \in Instants /\ \E q \in DOMAIN book : q # r /\ book'[q].arrived > 0
                                    /\ book'[q].corrected = 0 /\ s \in Range(book'[q].stay)
  <2>1. PICK q \in DOMAIN book' \ {r} : /\ book'[q].arrived > 0 /\ book'[q].corrected = 0
                                        /\ s \in Range(book'[q].stay)
    BY DEF Before
  <2>2. book'[q] \in Row
    BY <2>1 DEF Inv, RowsRight, Right, Typed
  <2>3. book'[q].stay \in Seq(Segment)
    BY <2>2 DEF Row
  <2>. DEFINE st == book'[q].stay
  <2>4. st \in Seq(Segment) /\ s \in Range(st)
    BY <2>1, <2>3
  <2>. HIDE DEF st
  <2>5. s \in Segment
    BY <2>4 DEF Range
  <2>. QED
    BY <1>1, <2>1, <2>5 DEF Segment
<1>4. LastBefore(r) \in Before(r)
  <2>. DEFINE T == {s.to : s \in Before(r)}
  <2>1. T \in SUBSET Instants /\ T # {}
    BY <1>3
  <2>2. Max(T) \in T /\ \A y \in T : y <= Max(T)
    <3>. HIDE DEF T
    <3>. QED
      BY <2>1, MaxInstant
  <2>3. PICK s \in Before(r) : s.to = Max(T)
    BY <2>2
  <2>4. \A u \in Before(r) : u.to <= s.to
    BY <2>2, <2>3
  <2>. QED
    BY <2>4 DEF LastBefore
<1>. DEFINE s == LastBefore(r)
<1>. HIDE DEF s
<1>5. /\ s \in Before(r) /\ s.room = book[r].room /\ s.from < now /\ s.from < s.to
  BY <1>2, <1>4 DEF Before, s
<1>6. PICK q \in DOMAIN book : q # r /\ book'[q].arrived > 0 /\ book'[q].corrected = 0
                                /\ s \in Range(book'[q].stay) /\ s.to \in Instants
  BY <1>3, <1>5
<1>7. CASE s.moved # "no"
  BY <1>7 DEF s
<1>8. CASE s.moved = "no"
  <2>1. CASE book'[q].arrived = now
    <3>. DEFINE st == book'[q].stay
    <3>1. Sound(book'[q])
      BY <1>1, <1>6 DEF Inv, RowsRight, Right
    <3>2. book'[q].status # "cancelled"
      <4>1. st # <<>>
        BY <1>6 DEF Range
      <4>. QED
        BY <3>1, <4>1 DEF Sound
    <3>3. Line(st) /\ st[1].from = now
      BY <1>6, <2>1, <3>1, <3>2 DEF Sound, Lived, Begins
    <3>4. /\ Len(st) \in Nat /\ DOMAIN st = 1..Len(st)
      BY <3>3, SegmentsOfLine
    <3>5. PICK i \in 1..Len(st) : s = st[i]
      BY <1>6, <3>4 DEF Range
    <3>6. ~(i >= 2)
      BY <1>8, <3>3, <3>5 DEF Line
    <3>7. i = 1
      <4>. HIDE DEF st
      <4>. QED
        BY <3>4, <3>6
    <3>8. now < now /\ now \in Int
      BY <1>5, <3>3, <3>5, <3>7, ClockIsInstant DEF ProofInv, Inv
    <3>. QED
      BY <3>8
  <2>2. CASE book'[q].arrived # now
    <3>1. /\ book'[q].arrived = book[q].arrived /\ book'[q].stay = book[q].stay
          /\ book[q].corrected = 0
      BY <1>1, <1>6, <2>2 DEF Ticked, Weaker
    <3>2. s.to <= cleaned[book[r].room]
      BY <1>2, <1>5, <1>6, <1>8, <3>1, LeftBeforeWork
    <3>3. cleaned[book[r].room] \in Int /\ s.to \in Int
      <4>1. cleaned[book[r].room] \in Instants
        BY <1>2 DEF ProofInv, Inv, RowsRight, Right, Typed, Row
      <4>. QED
        BY <1>6, <4>1, InstantsAreInts
    <3>. QED
      BY <1>2, <3>2, <3>3 DEF s
  <2>. QED
    BY <2>1, <2>2
<1>. QED
  BY <1>7, <1>8

\* Every step keeps the proofs, and only a tick brings guests.
LEMMA StepKeepsProof == ASSUME ProofInv, [Next]_vars
  PROVE ProofInv' /\ (Quiet \/ Tick)
<1>1. ASSUME NEW r \in Reservations, NEW room \in Rooms, NEW p \in Plans[r],
             CreateReservation(r, room, p[1], p[2])
      PROVE  ProofInv' /\ Quiet
  BY <1>1, CreateKeepsProof
<1>2. ASSUME NEW r \in Reservations, NEW p \in Plans[r], ChangeReservation(r, p[1], p[2])
      PROVE  ProofInv' /\ Quiet
  BY <1>2, ChangeKeepsProof
<1>3. ASSUME NEW r \in Reservations, NEW p \in Plans[r], ChangeOpenEnded(r, p[1])
      PROVE  ProofInv' /\ Quiet
  BY <1>3, ChangeOpenEndedKeepsProof
<1>4. ASSUME NEW r \in Reservations, CancelReservation(r) PROVE ProofInv' /\ Quiet
  BY <1>4, CancelKeepsProof
<1>5. ASSUME NEW r \in Reservations, NEW room \in Rooms, MoveBeforeCheckin(r, room)
      PROVE  ProofInv' /\ Quiet
  BY <1>5, MoveBeforeKeepsProof
<1>6. ASSUME NEW r \in Reservations, NEW room \in Rooms, NEW t \in Scheduled,
             MoveDuringStay(r, room, t)
      PROVE  ProofInv' /\ Quiet
  BY <1>6, MoveDuringKeepsProof
<1>7. ASSUME NEW r \in Reservations, ManualCheckout(r) PROVE ProofInv' /\ Quiet
  BY <1>7, CheckoutKeepsProof
<1>8. ASSUME Tick PROVE ProofInv'
  BY <1>8, TickKeepsProof
<1>9. ASSUME NEW room \in Rooms, NEW t \in Scheduled, RequestCleaning(room, t)
      PROVE  ProofInv' /\ Quiet
  BY <1>9, RequestKeepsProof
<1>10. ASSUME NEW room \in Rooms, ApproveRequest(room) PROVE ProofInv' /\ Quiet
  BY <1>10, ApproveRequestKeepsProof
<1>11. ASSUME NEW r \in Reservations, ApproveCheckout(r) PROVE ProofInv' /\ Quiet
  BY <1>11, ApproveCheckoutKeepsProof
<1>12. ASSUME NEW r \in DOMAIN book, NEW leg \in book[r].legs, ApproveLeg(r, leg)
       PROVE  ProofInv' /\ Quiet
  BY <1>12, ApproveLegKeepsProof
<1>13. ASSUME Advance PROVE ProofInv' /\ Quiet
  BY <1>13, AdvanceKeepsProof
<1>14. ASSUME NEW r \in Reservations, NEW room \in Rooms, CorrectOccupancy(r, room)
       PROVE  ProofInv' /\ Quiet
  BY <1>14, CorrectionKeepsProof
<1>15. ASSUME UNCHANGED vars PROVE ProofInv' /\ Quiet
  BY <1>15 DEF vars, ProofInv, Inv, Clock, Quiet
<1>. QED
  BY <1>1, <1>2, <1>3, <1>4, <1>5, <1>6, <1>7, <1>8, <1>9, <1>10, <1>11, <1>12,
     <1>13, <1>14, <1>15 DEF Next

\* CleanUnlessMovedInto: a guest arrives in a room that was cleaned, and approved,
\* after the guest before left it, unless that guest had been moved into the room
\* (of stays whose occupancy nobody corrected).
THEOREM ArrivalsAreClean == Spec => CleanUnlessMovedInto
<1>. DEFINE Clean == \A r \in Reservations : Arrives(r) /\ book'[r].corrected = 0
                                      /\ Before(r) # {} =>
       \/ cleaned[book'[r].room] >= LastBefore(r).to
       \/ LastBefore(r).moved # "no"
<1>1. Init => ProofInv
  <2>. SUFFICES ASSUME Init PROVE ProofInv
    OBVIOUS
  <2>1. DOMAIN book = {} /\ now = 1
    BY DEF Init
  <2>2. Clock
    BY <2>1, HorizonIsEven DEF Clock
  <2>3. RowsRight(book, now) /\ Fits(book) /\ Proved(book, {}, now, cleaned)
    BY <2>1 DEF RowsRight, Fits, Proved, Opens, Ends, Stamped, Timed
  <2>4. request \in [Rooms -> Instants] /\ cleaned \in [Rooms -> Instants]
    BY InstantsAreInts DEF Init
  <2>. QED
    BY <2>2, <2>3, <2>4 DEF ProofInv, Inv
<1>2. ProofInv /\ [Next]_vars => ProofInv'
  BY StepKeepsProof
<1>3. ProofInv /\ [Next]_vars => [Clean]_vars
  <2>. SUFFICES ASSUME ProofInv, [Next]_vars, NEW r \in Reservations, Arrives(r),
                       book'[r].corrected = 0, Before(r) # {}
                PROVE  \/ cleaned[book'[r].room] >= LastBefore(r).to
                       \/ LastBefore(r).moved # "no"
    OBVIOUS
  <2>1. Inv' /\ (Quiet \/ Tick)
    BY StepKeepsProof DEF ProofInv
  <2>2. CASE Tick
    BY <2>1, <2>2, TickBringsToClean
  <2>3. CASE Quiet
    <3>1. r \in DOMAIN book /\ book[r].arrived > 0 /\ book[r].arrived = 0
      BY <2>3 DEF Quiet, Arrives
    <3>2. ~(0 > 0)
      OBVIOUS
    <3>. QED
      BY <3>1, <3>2
  <2>. QED
    BY <2>1, <2>2, <2>3
<1>. QED
  BY <1>1, <1>2, <1>3, PTL DEF Spec, CleanUnlessMovedInto
=============================================================================
