------------------------- MODULE MCReservationStay -------------------------
(* Instances of ReservationStay for TLC. *)
EXTENDS ReservationStay

CONSTANTS r1, r2, A, B

\* The first stay may be shortened, extended, reopened, moved, or begin without an
\* end; the second is the next guest, who names no end.
Two == {r1, r2}
Neighbours == (r1 :> {<<4, 6>>, <<4, 8>>, <<6, 10>>}) @@ (r2 :> {<<8, 10>>})
TwoRooms == {A, B}
At6 == {6}
Symmetry == Permutations(TwoRooms)

\* Bound: both are booked early, the first one first.  Before arrival the first
\* is rebooked, moved or corrected once, the second never, and only one of the
\* stays is corrected.
EarlyAndFewChanges ==
  /\ r2 \in DOMAIN book => r1 \in DOMAIN book
  /\ \A r \in DOMAIN book :
       /\ book[r].created <= 3
       /\ Cardinality(book[r].retired) <= (IF r = r1 THEN 1 ELSE 0)
            + (IF book[r].arrived > 0 THEN 1 + book[r].corrected ELSE 0)
       /\ book[r].corrected > 0 => \A q \in DOMAIN book \ {r} : book[q].corrected = 0
=============================================================================
