-------------------------- MODULE PinSheetOwedProofs -------------------------
(***************************************************************************)
(* More proofs about PinSheetSync: a room whose PIN the sheet does not     *)
(* show is due for a write, and what a run of the worker believes of the   *)
(* sheet is what it shows.                                                 *)
(*                                                                         *)
(* The argument: whoever still may write under a lease that is not over    *)
(* writes what is due, and whoever may write without one has stopped the   *)
(* queue or is excused.                                                    *)
(***************************************************************************)
EXTENDS PinSheetSyncProofs

Due(r) == \E k \in Keys : k.room = r /\ k.version = pin[r] /\ row[k].status \in Unsettled
Shown(r, v) == board[r].version = v \/ r \in excused
ShownNext(r, v) == board'[r].version = v \/ r \in excused'
Held(f) == f # 0 /\ lease.fence = f /\ lease.status # "idle"
BlockedAt(f) == lease.fence = f /\ lease.status = "blocked"
Believed == {"succeeded", "current"}

\* Neither a row nor a snapshot is of a version that is yet to come.
NotAhead == /\ \A k \in Keys : row[k].status # "absent" => k.version <= pin[k.room]
            /\ \A i \in Runs, r \in Rooms : resync[i].snapshot[r].version <= pin[r]
Behind == /\ \A w \in Workers : worker[w].fence <= lease.fence
          /\ \A write \in stray : write.fence <= lease.fence
\* A run has one row of each room.
Tidy(it) ==
  /\ \A j, k \in it.todo : j # k => j.room # k.room
  /\ OverItem(it) => \A k \in it.todo : k.room # it.item.room
  /\ it.at \in {"board", "paint", "close"} => it.todo = {}
\* While its lease is not over, what a run is to write is due or the PIN itself.
Useful(it) == Held(it.fence) =>
  /\ \A k \in it.todo : Due(k.room)
  /\ it.at \in {"authorise", "write"} => Due(it.item.room)
  /\ it.at = "paint" => \A r \in Rooms : it.copy[r] = pin[r] \/ Due(r)
\* A write has its mark, or the queue has stopped for it.
Warranted(it) ==
  /\ it.at = "write" => Marked(row[it.item], it.fence) \/ RecoveryAsked(it.fence)
  /\ it.at = "paint" =>
       Marked(resync[it.run], it.fence) \/ BlockedAt(it.fence) \/ RecoveryAsked(it.fence)
Copied(it) == it.at \in {"board", "paint", "close"} /\ Claimed(resync[it.run], it.fence) =>
  \A r \in Rooms : it.copy[r] = resync[it.run].snapshot[r].version
\* What a run is about to record as written is there to see.
Truthful(it) == Live(it.fence) =>
  /\ it.at = "settle" /\ it.out \in Believed => Shown(it.item.room, it.item.version)
  /\ it.at = "close" /\ it.out = "succeeded" => \A r \in Rooms : Shown(r, it.copy[r])
Steady(it) == Tidy(it) /\ Useful(it) /\ Warranted(it) /\ Copied(it) /\ Truthful(it)

\* The run that gave up on a write of these rooms can only block them.
Silent(it, rooms) ==
  /\ \A k \in it.todo : k.room \notin rooms
  /\ OverItem(it) /\ it.item.room \in rooms => it.at = "settle" /\ it.out = "blocked"
  /\ it.at \notin {"board", "paint"}
  /\ it.at = "close" => it.out = "blocked"
Backed(write) ==
  \/ \E k \in Keys : Marked(row[k], write.fence) /\ k.room \in DOMAIN write.cells
  \/ \E i \in Runs : Marked(resync[i], write.fence)
  \/ BlockedAt(write.fence) \/ RecoveryAsked(write.fence) \/ write.fence \in waived
Accounted(write) ==
  /\ Backed(write)
  /\ Held(write.fence) => \A r \in DOMAIN write.cells : write.cells[r].version = pin[r] \/ Due(r)
  /\ \A w \in Workers : worker[w].fence = write.fence => Silent(worker[w], DOMAIN write.cells)
SheetOK ==
  /\ FenceIsOne /\ Behind /\ NotAhead
  /\ \A w \in Workers : Steady(worker[w])
  /\ \A write \in stray : Accounted(write)
  /\ EveryPinIsOwed

\* How a run of the worker goes on: with its rows, with the board, or as a new one.
Stands(new, old) == Same(new, old) /\ new.run = old.run /\ new.copy = old.copy
OnWithRows(new, old) ==
  /\ Follows(new, old)
  /\ new.at = "write" => Marked(row'[new.item], new.fence)
  /\ new.at = "settle" /\ new.out \in Believed => ShownNext(new.item.room, new.item.version)
OnWithBoard(new, old) ==
  /\ new.fence = old.fence /\ new.todo = old.todo
  /\ \/ new.at = "block"
     \/ /\ new.run = old.run /\ new.copy = old.copy
        /\ \/ /\ old.at = "board" /\ new.at = "paint"
              /\ Marked(resync'[new.run], new.fence) /\ \A r \in Rooms : new.copy[r] = pin'[r]
           \/ /\ old.at \in {"board", "paint"} /\ new.at = "close"
              /\ new.out = "succeeded" => \A r \in Rooms : ShownNext(r, new.copy[r])
Probes(new) == new.at = "probed" /\ new.fence = 0 /\ new.todo = {}
Begins(new) ==
  /\ new.fence = lease'.fence /\ lease'.fence > lease.fence
  /\ \A j, k \in new.todo : j # k => j.room # k.room
  /\ \A k \in new.todo : Due(k.room)'
  /\ \/ new.at = "next"
     \/ /\ new.at = "board" /\ new.todo = {}
        /\ \A r \in Rooms : new.copy[r] = resync'[new.run].snapshot[r].version
Goes(new, old) ==
  Stands(new, old) \/ OnWithRows(new, old) \/ OnWithBoard(new, old) \/ Probes(new) \/ Begins(new)
AllGo == /\ \A w \in Workers : Goes(worker'[w], worker[w])
         /\ \A v, w \in Workers : Begins(worker'[v]) /\ Begins(worker'[w]) => v = w

\* A row that is due no longer is one that nobody is about to write.
Freed(r) ==
  /\ \A w \in Workers : Held(worker[w].fence)' =>
       /\ \A k \in worker'[w].todo : k.room # r
       /\ worker'[w].at \in {"authorise", "write"} => worker'[w].item.room # r
       /\ worker'[w].at # "paint"
  /\ \A write \in stray : Held(write.fence)' => r \notin DOMAIN write.cells
\* The mark of a row goes by who has it in hand, that of a full resync with its end.
SettledBy(k, f) == \E w \in Workers :
  /\ worker[w].fence = f /\ worker[w].item = k
  /\ \/ worker[w].at = "authorise"
     \/ /\ worker[w].at = "settle"
        /\ worker[w].out = "blocked" => BlockedAt(f)' \/ f \in waived'
ClosedBy(f) == \E w \in Workers :
  /\ worker[w].fence = f
  /\ worker[w].at = "board" \/ (worker[w].at = "close" /\ worker[w].out # "blocked")
\* Nobody is about to record what the sheet shows of a room.
Unsaid(r) == \A w \in Workers : Live(worker[w].fence) =>
  /\ worker[w].at = "settle" /\ worker[w].out \in Believed => worker[w].item.room # r
  /\ ~(worker[w].at = "close" /\ worker[w].out = "succeeded")

\* What a step keeps of the queue and of the sheet.
LeaseKept ==
  /\ lease.fence <= lease'.fence
  /\ \A f \in Fences : f <= lease.fence /\ Held(f)' => Held(f)
  /\ \A f \in Fences : f <= lease.fence /\ Live(f)' => Live(f)
  /\ \A f \in Fences : BlockedAt(f) => BlockedAt(f)' \/ RecoveryAsked(f)'
  /\ \A f \in Fences : RecoveryAsked(f) => RecoveryAsked(f)'
RowMarksKept == \A k \in Keys, f \in Fences :
  Marked(row[k], f) => Marked(row'[k], f) \/ RecoveryAsked(f)' \/ SettledBy(k, f)
RunMarksKept == \A i \in Runs, f \in Fences :
  Marked(resync[i], f) => Marked(resync'[i], f) \/ BlockedAt(f)' \/ ClosedBy(f)
MarksKept == waived \subseteq waived' /\ RowMarksKept /\ RunMarksKept
RunsKept == \A i \in Runs, f \in Fences : f <= lease.fence /\ Claimed(resync'[i], f) =>
  Claimed(resync[i], f) /\ resync'[i].snapshot = resync[i].snapshot
DuesKept == /\ \A r \in Rooms : pin'[r] = pin[r] \/ Due(r)'
            /\ \A r \in Rooms : Due(r) => Due(r)' \/ Freed(r)
ShownKept == \A r \in Rooms : \A v : Shown(r, v) => Shown(r, v)' \/ Unsaid(r)

\* SuccessIsVisible of one step.
Visible ==
  /\ \A k \in Keys : row[k].status # "succeeded" /\ row'[k].status = "succeeded" =>
       board[k.room].version = k.version \/ k.room \in excused
  /\ \A i \in Runs : resync[i].status # "succeeded" /\ resync'[i].status = "succeeded" =>
       \A r \in Rooms \ excused : board[r].version = resync[i].snapshot[r].version

\* Where a run stands in the next state is steady if it was.
LEMMA SteadyGoes ==
  ASSUME IInv, IInv', LeaseKept, MarksKept, RunsKept, DuesKept, ShownKept,
         FenceIsOne, Behind, NEW w \in Workers, Steady(worker[w]),
         Goes(worker'[w], worker[w])
  PROVE  Steady(worker[w])'
<1>1. SUFFICES ASSUME NEW old, old = worker[w], NEW new, new = worker'[w],
                      ~Begins(new), new \in Worker, Placed(new), old \in Worker, Placed(old)
               PROVE  Steady(new)'
  <2>1. worker[w] \in Worker /\ Placed(worker[w]) /\ worker'[w] \in Worker /\ Placed(worker'[w])
    BY DEF IInv, Types, WorkerTypes
  <2>2. ASSUME NEW new, new = worker'[w], Steady(new)'
        PROVE  Steady(worker[w])'
    BY <2>2 DEF Steady, Tidy, Useful, Warranted, Copied, Truthful
  <2>3. ASSUME NEW new, new = worker'[w], Begins(new)
        PROVE  Steady(new)'
    BY <2>3 DEF Begins, Steady, Tidy, Useful, Warranted, Copied, Truthful, OverItem
  <2>. QED
    BY <2>1, <2>2, <2>3
<1>2. Stands(new, old) \/ OnWithRows(new, old) \/ OnWithBoard(new, old) \/ Probes(new)
  BY <1>1 DEF Goes
<1>3. /\ new.todo \subseteq old.todo /\ new.todo \subseteq Keys
      /\ new.fence # 0 => new.fence = old.fence /\ new.fence \in Fences /\ new.fence <= lease.fence
      /\ new.fence = 0 => ~OverItem(new) /\ new.at \notin {"board", "paint", "close"}
  <2>1. new.todo \subseteq old.todo /\ new.fence \in {0, old.fence}
    BY <1>2 DEF Stands, Same, OnWithRows, Follows, OnWithBoard, Probes
  <2>2. new.fence = 0 => ~OverItem(new) /\ new.at \notin {"board", "paint", "close"}
    BY <1>1 DEF Placed, OverItem
  <2>3. new.todo \subseteq Keys /\ new.fence \in 0 .. MaxFence
    BY <1>1, WorkerIs
  <2>4. new.fence # 0 => new.fence \in Fences /\ new.fence <= lease.fence
    BY <1>1, <2>1, <2>3, Bounds DEF Fences, Behind
  <2>. QED
    BY <2>1, <2>2, <2>3, <2>4
<1>4. Tidy(new)'
  <2>1. new.at \in {"board", "paint", "close"} => new.todo = {}
    BY <1>1, <1>2, <1>3 DEF Stands, Same, OnWithRows, Follows, OnWithBoard, Probes, BoardAts,
                            Steady, Tidy
  <2>2. OverItem(new) => \A k \in new.todo : k.room # new.item.room
    BY <1>1, <1>2, <1>3 DEF Stands, Same, OnWithRows, Follows, OnWithBoard, Probes, OverItem,
                            Steady, Tidy
  <2>. QED
    BY <1>1, <1>3, <2>1, <2>2 DEF Steady, Tidy
<1>5. Useful(new)'
  <2>1. SUFFICES ASSUME Held(new.fence)'
                 PROVE  /\ \A k \in new.todo : Due(k.room)'
                        /\ new.at \in {"authorise", "write"} => Due(new.item.room)'
                        /\ new.at = "paint" => \A r \in Rooms : (new.copy[r] = pin[r] \/ Due(r))'
    BY DEF Useful
  <2>2. Held(new.fence) /\ new.fence # 0 /\ new.fence = old.fence
    BY <1>3, <2>1 DEF LeaseKept, Held
  <2>3. Useful(old)
    BY <1>1 DEF Steady
  <2>4. \A k \in Keys : k.room \in Rooms
    BY DEF Keys
  <2>5. ASSUME NEW k \in new.todo
        PROVE  Due(k.room)'
    <3>1. Due(k.room) /\ k.room \in Rooms
      BY <1>3, <2>2, <2>3, <2>4 DEF Useful
    <3>2. ~Freed(k.room)
      BY <1>1, <2>1 DEF Freed
    <3>. QED
      BY <3>1, <3>2 DEF DuesKept
  <2>6. ASSUME new.at \in {"authorise", "write"}
        PROVE  Due(new.item.room)'
    <3>1. \/ old.at \in {"authorise", "write"} /\ new.item = old.item
          \/ new.item \in old.todo
      BY <1>2, <2>6 DEF Stands, Same, OnWithRows, Follows, OnWithBoard, Probes, OverItem
    <3>2. Due(new.item.room)
      BY <2>2, <2>3, <3>1 DEF Useful
    <3>3. new.item \in Keys
      BY <1>1, <2>6 DEF Placed
    <3>4. ~Freed(new.item.room)
      BY <1>1, <2>1, <2>6 DEF Freed
    <3>. QED
      BY <2>4, <3>2, <3>3, <3>4 DEF DuesKept
  <2>7. ASSUME new.at = "paint", NEW r \in Rooms
        PROVE  new.copy[r] = pin'[r] \/ Due(r)'
    <3>1. CASE Stands(new, old)
      <4>1. new.copy[r] = pin[r] \/ Due(r)
        BY <2>2, <2>3, <2>7, <3>1 DEF Stands, Same, Useful
      <4>2. ~Freed(r)
        BY <1>1, <2>1, <2>7 DEF Freed
      <4>. QED
        BY <4>1, <4>2 DEF DuesKept
    <3>2. CASE ~Stands(new, old)
      BY <1>2, <2>7, <3>2 DEF OnWithRows, Follows, BoardAts, OnWithBoard, Probes
    <3>. QED
      BY <3>1, <3>2
  <2>. QED
    BY <2>5, <2>6, <2>7
<1>6. Warranted(new)'
  <2>1. ASSUME new.at = "write"
        PROVE  Marked(row'[new.item], new.fence) \/ RecoveryAsked(new.fence)'
    <3>1. new.item \in Keys /\ new.fence \in Fences /\ new.fence # 0
      BY <1>1, <1>3, <2>1 DEF Placed, OverItem
    <3>2. CASE Stands(new, old)
      <4>1. Marked(row[new.item], new.fence) \/ RecoveryAsked(new.fence)
        BY <1>1, <2>1, <3>2 DEF Stands, Same, Steady, Warranted
      <4>2. ~SettledBy(new.item, new.fence)
        <5>1. SUFFICES ASSUME NEW v \in Workers, worker[v].fence = new.fence,
                              worker[v].at \in {"authorise", "settle"}
                       PROVE  FALSE
          BY DEF SettledBy
        <5>2. v = w
          BY <1>1, <1>3, <3>1, <5>1 DEF FenceIsOne
        <5>. QED
          BY <1>1, <2>1, <3>2, <5>1, <5>2 DEF Stands, Same
      <4>. QED
        BY <3>1, <4>1, <4>2 DEF MarksKept, RowMarksKept, RunMarksKept, LeaseKept
    <3>3. CASE ~Stands(new, old)
      BY <1>2, <2>1, <3>3 DEF OnWithRows, OnWithBoard, Probes
    <3>. QED
      BY <3>2, <3>3
  <2>2. ASSUME new.at = "paint"
        PROVE  Marked(resync'[new.run], new.fence) \/ BlockedAt(new.fence)' \/ RecoveryAsked(new.fence)'
    <3>1. new.run \in Runs /\ new.fence \in Fences /\ new.fence # 0
      BY <1>1, <1>3, <2>2 DEF Placed
    <3>2. CASE Stands(new, old)
      <4>1. Marked(resync[new.run], new.fence) \/ BlockedAt(new.fence) \/ RecoveryAsked(new.fence)
        BY <1>1, <2>2, <3>2 DEF Stands, Same, Steady, Warranted
      <4>2. ~ClosedBy(new.fence)
        <5>1. SUFFICES ASSUME NEW v \in Workers, worker[v].fence = new.fence,
                              worker[v].at \in {"board", "close"}
                       PROVE  FALSE
          BY DEF ClosedBy
        <5>2. v = w
          BY <1>1, <1>3, <3>1, <5>1 DEF FenceIsOne
        <5>. QED
          BY <1>1, <2>2, <3>2, <5>1, <5>2 DEF Stands, Same
      <4>. QED
        BY <3>1, <4>1, <4>2 DEF MarksKept, RowMarksKept, RunMarksKept, LeaseKept
    <3>3. CASE ~Stands(new, old)
      BY <1>2, <2>2, <3>3 DEF OnWithRows, Follows, BoardAts, OnWithBoard, Probes
    <3>. QED
      BY <3>2, <3>3
  <2>. QED
    BY <2>1, <2>2 DEF Warranted
<1>7. Copied(new)'
  <2>1. SUFFICES ASSUME new.at \in {"board", "paint", "close"}, Claimed(resync'[new.run], new.fence),
                        NEW r \in Rooms
                 PROVE  new.copy[r] = resync'[new.run].snapshot[r].version
    BY DEF Copied
  <2>2. new.run \in Runs /\ new.fence \in Fences /\ new.fence <= lease.fence /\ new.fence = old.fence
    BY <1>1, <1>3, <2>1 DEF Placed
  <2>3. Claimed(resync[new.run], new.fence) /\ resync'[new.run].snapshot = resync[new.run].snapshot
    BY <2>1, <2>2 DEF RunsKept
  <2>4. new.run = old.run /\ new.copy = old.copy /\ old.at \in {"board", "paint", "close"}
    BY <1>2, <2>1 DEF Stands, Same, OnWithRows, Follows, BoardAts, OnWithBoard, Probes
  <2>. QED
    BY <1>1, <2>2, <2>3, <2>4 DEF Steady, Copied
<1>8. Truthful(new)'
  <2>1. SUFFICES ASSUME Live(new.fence)', new.at \in {"settle", "close"}
                 PROVE  /\ new.at = "settle" /\ new.out \in Believed =>
                             ShownNext(new.item.room, new.item.version)
                        /\ new.at = "close" /\ new.out = "succeeded" =>
                             \A r \in Rooms : ShownNext(r, new.copy[r])
    BY DEF Truthful, Shown, ShownNext
  <2>2. CASE Stands(new, old)
    <3>1. Live(new.fence) /\ new.fence = old.fence
      BY <1>3, <2>1 DEF LeaseKept, OverItem
    <3>2. Truthful(old)
      BY <1>1 DEF Steady
    <3>3. ASSUME new.at = "settle", new.out \in Believed
          PROVE  ShownNext(new.item.room, new.item.version)
      <4>1. Shown(new.item.room, new.item.version) /\ new.item \in Keys
        BY <1>1, <2>2, <3>1, <3>2, <3>3 DEF Stands, Same, Truthful, Placed
      <4>2. ~Unsaid(new.item.room)
        BY <1>1, <2>2, <3>1, <3>3 DEF Stands, Same, Unsaid
      <4>3. new.item.room \in Rooms
        BY <4>1 DEF Keys
      <4>. QED
        BY <4>1, <4>2, <4>3 DEF ShownKept, Shown, ShownNext
    <3>4. ASSUME new.at = "close", new.out = "succeeded", NEW r \in Rooms
          PROVE  ShownNext(r, new.copy[r])
      <4>1. Shown(r, new.copy[r])
        BY <2>2, <3>1, <3>2, <3>4 DEF Stands, Same, Truthful
      <4>2. ~Unsaid(r)
        BY <1>1, <2>2, <3>1, <3>4 DEF Stands, Same, Unsaid
      <4>. QED
        BY <4>1, <4>2 DEF ShownKept, Shown, ShownNext
    <3>. QED
      BY <3>3, <3>4
  <2>3. CASE ~Stands(new, old)
    BY <1>2, <2>1, <2>3 DEF OnWithRows, Follows, BoardAts, OnWithBoard, Probes
  <2>. QED
    BY <2>2, <2>3
<1>. QED
  BY <1>4, <1>5, <1>6, <1>7, <1>8 DEF Steady

\* What was given up on stays accounted for.
LEMMA StrayStays ==
  ASSUME IInv, LeaseKept, MarksKept, DuesKept, Behind, AllGo, NEW write \in stray, Accounted(write)
  PROVE  Accounted(write)'
<1>1. SUFFICES ASSUME NEW f, f = write.fence, f \in Fences, f # 0, f <= lease.fence,
                      NEW rooms, rooms = DOMAIN write.cells, rooms \subseteq Rooms
               PROVE  Accounted(write)'
  <2>1. write.fence \in Fences /\ DOMAIN write.cells \subseteq Rooms
    BY DEF IInv, Types, Strays, Cells
  <2>. QED
    BY <2>1, Bounds DEF Fences, Behind
<1>2. \A w \in Workers : worker[w].fence = f => Silent(worker[w], rooms)
  BY <1>1 DEF Accounted
<1>3. Backed(write)'
  <2>1. Backed(write)
    BY DEF Accounted
  <2>2. ~ClosedBy(f)
    BY <1>2 DEF ClosedBy, Silent
  <2>3. ASSUME NEW k \in Keys, k.room \in rooms, SettledBy(k, f)
        PROVE  BlockedAt(f)' \/ f \in waived'
    BY <1>2, <2>3 DEF SettledBy, Silent, OverItem
  <2>4. CASE \E k \in Keys : Marked(row[k], f) /\ k.room \in rooms
    BY <1>1, <2>3, <2>4 DEF MarksKept, RowMarksKept, RunMarksKept, Backed
  <2>5. CASE \E i \in Runs : Marked(resync[i], f)
    BY <1>1, <2>2, <2>5 DEF MarksKept, RowMarksKept, RunMarksKept, Backed
  <2>6. CASE BlockedAt(f) \/ RecoveryAsked(f) \/ f \in waived
    BY <1>1, <2>6 DEF MarksKept, RowMarksKept, RunMarksKept, LeaseKept, Backed
  <2>. QED
    BY <1>1, <2>1, <2>4, <2>5, <2>6 DEF Backed
<1>4. ASSUME Held(f)', NEW r \in rooms
      PROVE  write.cells[r].version = pin'[r] \/ Due(r)'
  <2>1. Held(f)
    BY <1>1, <1>4 DEF LeaseKept
  <2>2. write.cells[r].version = pin[r] \/ Due(r)
    BY <1>1, <2>1 DEF Accounted
  <2>3. ~Freed(r)
    BY <1>1, <1>4 DEF Freed
  <2>. QED
    BY <1>1, <2>2, <2>3 DEF DuesKept
<1>5. ASSUME NEW w \in Workers, worker'[w].fence = f
      PROVE  Silent(worker'[w], rooms)
  <2>1. SUFFICES ASSUME NEW old, old = worker[w], NEW new, new = worker'[w], Goes(new, old), new.fence = f
                 PROVE  Silent(new, rooms)
    BY <1>5 DEF AllGo
  <2>2. ~Begins(new) /\ ~Probes(new)
    <3>1. lease.fence \in Nat
      BY LeaseIs DEF IInv, Types
    <3>2. Begins(new) => f = lease'.fence /\ lease'.fence > lease.fence
      BY <2>1 DEF Begins
    <3>. QED
      BY <1>1, <2>1, <3>1, <3>2, Bounds DEF Probes, Fences
  <2>3. old.fence = f
    BY <1>1, <2>1, <2>2 DEF Goes, Stands, Same, OnWithRows, Follows, OnWithBoard
  <2>4. Silent(old, rooms)
    BY <1>2, <2>1, <2>3
  <2>5. CASE Stands(new, old)
    BY <2>4, <2>5 DEF Stands, Same, Silent, OverItem
  <2>6. CASE OnWithRows(new, old)
    BY <2>4, <2>6 DEF OnWithRows, Follows, Silent, OverItem, BoardAts
  <2>7. CASE OnWithBoard(new, old)
    BY <2>4, <2>7 DEF OnWithBoard, Silent, OverItem
  <2>. QED
    BY <2>1, <2>2, <2>5, <2>6, <2>7 DEF Goes
<1>. QED
  BY <1>1, <1>3, <1>4, <1>5 DEF Accounted

\* A step that keeps the queue and shows what it should keeps the sheet in order.
LEMMA SheetStep ==
  ASSUME IInv, IInv', SheetOK, LeaseKept, MarksKept, RunsKept, DuesKept, ShownKept, AllGo,
         NotAhead', EveryPinIsOwed', \A write \in stray' : write \in stray \/ 
           (write.fence <= lease.fence /\ Accounted(write)')
  PROVE  SheetOK'
<1>1. FenceIsOne /\ Behind
  BY DEF SheetOK
<1>2. ASSUME NEW w \in Workers
      PROVE  Steady(worker[w])'
  BY <1>1, SteadyGoes DEF SheetOK, AllGo
<1>3. ASSUME NEW write \in stray'
      PROVE  Accounted(write)'
  BY <1>1, <1>3, StrayStays DEF SheetOK
<1>4. lease.fence \in Nat /\ lease'.fence \in Nat /\ lease.fence <= lease'.fence
  BY LeaseIs, Bounds DEF IInv, Types, LeaseKept, QueueTypes, LeaseTypes, LeaseType
<1>5. ASSUME NEW w \in Workers
      PROVE  \/ worker'[w].fence \in {0, worker[w].fence} /\ worker'[w].fence <= lease.fence
             \/ worker'[w].fence = lease'.fence /\ lease'.fence > lease.fence /\ Begins(worker'[w])
  <2>1. Goes(worker'[w], worker[w]) /\ worker[w].fence <= lease.fence
    BY <1>1 DEF AllGo, Behind
  <2>. QED
    BY <1>4, <2>1 DEF Goes, Stands, Same, OnWithRows, Follows, OnWithBoard, Probes, Begins
<1>6. FenceIsOne'
  BY <1>1, <1>4, <1>5 DEF FenceIsOne, AllGo, Behind
<1>7. Behind'
  <2>1. ASSUME NEW w \in Workers
        PROVE  worker'[w].fence <= lease'.fence
    <3>1. worker'[w].fence \in 0 .. MaxFence
      BY WorkerIs DEF IInv, Types, WorkerTypes
    <3>. QED
      BY <1>4, <1>5, <3>1
  <2>2. ASSUME NEW write \in stray'
        PROVE  write.fence <= lease'.fence
    <3>1. write.fence <= lease.fence
      BY <1>1, <2>2 DEF Behind
    <3>2. write.fence \in Fences
      BY <2>2 DEF IInv, Types, Strays
    <3>. QED
      BY <1>4, <3>1, <3>2 DEF Fences
  <2>. QED
    BY <2>1, <2>2 DEF Behind
<1>. QED
  BY <1>2, <1>3, <1>6, <1>7 DEF SheetOK

(***************************************************************************)
(* What a step keeps where it leaves a part alone                          *)
(***************************************************************************)
LEMMA SameRowsKeep ==
  ASSUME row' = row, pin' = pin
  PROVE  RowMarksKept /\ DuesKept /\ \A r \in Rooms : Due(r) => Due(r)'
  BY DEF RowMarksKept, DuesKept, Due

LEMMA SameRunsKeep ==
  ASSUME resync' = resync
  PROVE  RunMarksKept /\ RunsKept /\ \A f \in Fences : RecoveryAsked(f) => RecoveryAsked(f)'
  BY DEF RunMarksKept, RunsKept, RecoveryAsked

\* A recovery that was asked for stays asked for.
LEMMA AskedStays ==
  ASSUME IInv, \A i \in Runs : resync[i].status # "none" => resync'[i].reconciles = resync[i].reconciles
  PROVE  \A f \in Fences : RecoveryAsked(f) => RecoveryAsked(f)'
<1>1. SUFFICES ASSUME NEW f \in Fences, NEW i \in Runs, resync[i].reconciles >= f
               PROVE  resync'[i].reconciles >= f
  BY DEF RecoveryAsked
<1>2. f \in Nat /\ f # 0
  BY Bounds DEF Fences
<1>3. resync[i].status = "none" => resync[i].reconciles = 0
  BY DEF IInv, QueueOK, Plain
<1>. QED
  BY <1>1, <1>2, <1>3

\* Under the same fence the lease may stop or be given back, never come to life.
LEMMA SameLeaseKeeps ==
  ASSUME IInv, lease'.fence = lease.fence, lapsed \subseteq lapsed',
         lease'.status # "idle" => lease.status # "idle",
         lease'.status = "leased" => lease.status = "leased",
         lease.status = "blocked" => lease'.status = "blocked",
         \A f \in Fences : RecoveryAsked(f) => RecoveryAsked(f)'
  PROVE  LeaseKept
<1>1. lease.fence \in Nat
  BY LeaseIs DEF IInv, Types
<1>. QED
  BY <1>1 DEF LeaseKept, Held, Live, LeaseUp, BlockedAt

LEMMA ShownStays ==
  ASSUME board' = board, excused \subseteq excused'
  PROVE  ShownKept /\ \A r, v : Shown(r, v) => Shown(r, v)'
  BY DEF ShownKept, Shown

LEMMA OwedStays ==
  ASSUME EveryPinIsOwed, board' = board, excused \subseteq excused', pin' = pin,
         \A r \in Rooms : Due(r) => Due(r)' \/ Shown(r, pin[r])'
  PROVE  EveryPinIsOwed'
  BY DEF EveryPinIsOwed, Due, Shown

LEMMA SameNotAhead ==
  ASSUME NotAhead, pin' = pin,
         \A k \in Keys : row'[k].status # "absent" => row[k].status # "absent",
         \A i \in Runs : resync'[i].snapshot = resync[i].snapshot
  PROVE  NotAhead'
  BY DEF NotAhead

\* One run of the worker goes on, the others stand.
LEMMA OneGoes ==
  ASSUME IInv, IInv', Behind, NEW w \in Workers, Goes(worker'[w], worker[w]),
         \A v \in Workers \ {w} : worker'[v] = worker[v]
  PROVE  AllGo
<1>1. lease.fence \in Nat /\ lease'.fence \in Nat
  BY LeaseIs, Bounds DEF IInv, Types, QueueTypes, LeaseTypes, LeaseType
<1>2. ASSUME NEW v \in Workers \ {w}
      PROVE  Goes(worker'[v], worker[v]) /\ ~Begins(worker'[v])
  <2>1. worker'[v] = worker[v] /\ worker[v].fence <= lease.fence /\ worker[v].fence \in 0 .. MaxFence
    BY WorkerIs DEF Behind, IInv, Types, WorkerTypes
  <2>2. Begins(worker'[v]) => worker'[v].fence > lease.fence
    BY DEF Begins
  <2>. QED
    BY <1>1, <2>1, <2>2 DEF Goes, Stands, Same
<1>. QED
  BY <1>2 DEF AllGo

LEMMA RowsGo ==
  ASSUME IInv, IInv', Behind, NEW w \in Workers, Steps(w),
         worker'[w].at = "write" => Marked(row'[worker'[w].item], worker'[w].fence),
         worker'[w].at = "settle" /\ worker'[w].out \in Believed =>
           ShownNext(worker'[w].item.room, worker'[w].item.version)
  PROVE  AllGo
<1>1. OnWithRows(worker'[w], worker[w])
  BY DEF OnWithRows, Steps
<1>. QED
  BY <1>1, OneGoes DEF Goes, Steps

LEMMA StandingGo ==
  ASSUME IInv, IInv', Behind, worker' = worker
  PROVE  AllGo
<1>1. lease.fence \in Nat /\ lease'.fence \in Nat
  BY LeaseIs, Bounds DEF IInv, Types, QueueTypes, LeaseTypes, LeaseType
<1>2. ASSUME NEW v \in Workers
      PROVE  Goes(worker'[v], worker[v]) /\ ~Begins(worker'[v])
  <2>1. worker'[v] = worker[v] /\ worker[v].fence <= lease.fence /\ worker[v].fence \in 0 .. MaxFence
    BY WorkerIs DEF Behind, IInv, Types, WorkerTypes
  <2>2. Begins(worker'[v]) => worker'[v].fence > lease.fence
    BY DEF Begins
  <2>. QED
    BY <1>1, <2>1, <2>2 DEF Goes, Stands, Same
<1>. QED
  BY <1>2 DEF AllGo

\* Steps of a run that neither mark nor write anything.
LEMMA QuietSheet ==
  ASSUME IInv, IInv', SheetOK, UNCHANGED <<pin, queue, sheet>>, lapsed \subseteq lapsed', AllGo
  PROVE  SheetOK' /\ Visible
<1>1. row' = row /\ lease' = lease /\ resync' = resync /\ board' = board /\ stray' = stray
      /\ waived' = waived /\ excused' = excused /\ pin' = pin
  BY DEF queue, sheet
<1>2. LeaseKept /\ MarksKept /\ RunsKept /\ DuesKept /\ ShownKept
  BY <1>1, SameRowsKeep, SameRunsKeep, SameLeaseKeeps, ShownStays DEF MarksKept
<1>3. NotAhead' /\ EveryPinIsOwed'
  BY <1>1, SameNotAhead, SameRowsKeep, OwedStays DEF SheetOK
<1>. QED
  BY <1>1, <1>2, <1>3, SheetStep DEF Visible

\* Steps that move the queue and write nothing.
LEMMA QueueStep ==
  ASSUME IInv, IInv', SheetOK, pin' = pin, board' = board, stray' = stray, excused \subseteq excused',
         LeaseKept, MarksKept, RunsKept, AllGo, Entries,
         \A i \in Runs, r \in Rooms : resync'[i].snapshot[r].version <= pin[r],
         \A r \in Rooms : Due(r) => Due(r)' \/ (Freed(r) /\ ShownNext(r, pin[r]))
  PROVE  SheetOK'
<1>1. ShownKept
  BY ShownStays
<1>2. DuesKept
  BY DEF DuesKept
<1>3. NotAhead'
  BY DEF NotAhead, SheetOK, Entries
<1>4. EveryPinIsOwed'
  BY OwedStays DEF SheetOK, Shown, ShownNext
<1>. QED
  BY <1>1, <1>2, <1>3, <1>4, SheetStep

(***************************************************************************)
(* The steps over rows                                                     *)
(***************************************************************************)
LEMMA InspectSheet ==
  ASSUME IInv, IInv', SheetOK, NEW w \in Workers, Inspect(w)
  PROVE  SheetOK' /\ Visible
<1>1. PICK k \in worker[w].todo, at \in {"settle", "authorise"}, out \in Outs, again \in BOOLEAN :
        /\ Becomes(w, [worker[w] EXCEPT !.todo = @ \ {k}, !.item = k, !.at = at, !.out = out, !.again = again])
        /\ at = "settle" /\ out \in Believed => board[k.room].version = k.version
  <2>. DEFINE goes(k, at, out, again) ==
         Becomes(w, [worker[w] EXCEPT !.todo = @ \ {k}, !.item = k, !.at = at, !.out = out, !.again = again])
  <2>1. PICK k \in worker[w].todo :
          \/ /\ board[k.room] = [version |-> k.version, by |-> k.reason]
             /\ goes(k, "settle", "current", FALSE)
          \/ goes(k, "authorise", "succeeded", FALSE)
          \/ goes(k, "settle", "blocked", TRUE)
          \/ \E out \in {"retryable", "blocked"} : goes(k, "settle", out, TRUE)
    BY ZenonT(30) DEF Inspect
  <2>2. PICK at \in {"settle", "authorise"}, out \in Outs, again \in BOOLEAN :
          /\ goes(k, at, out, again)
          /\ at = "settle" /\ out \in Believed => board[k.room].version = k.version
    <3>. HIDE DEF goes
    <3>1. ASSUME board[k.room] = [version |-> k.version, by |-> k.reason]
          PROVE  board[k.room].version = k.version
      BY <3>1
    <3>2. /\ {"succeeded", "current", "retryable", "blocked"} = Outs
          /\ {"succeeded", "current"} = Believed
      BY DEF Outs, Believed
    <3>3. \/ board[k.room].version = k.version /\ goes(k, "settle", "current", FALSE)
          \/ goes(k, "authorise", "succeeded", FALSE)
          \/ goes(k, "settle", "blocked", TRUE) \/ goes(k, "settle", "retryable", TRUE)
      BY <2>1, <3>1
    <3>. QED
      BY <3>2, <3>3
  <2>. QED
    BY <2>2
<1>. DEFINE next == [worker[w] EXCEPT !.todo = @ \ {k}, !.item = k, !.at = at, !.out = out,
                                      !.again = again]
<1>2. worker[w] \in Worker
  BY DEF IInv, Types, WorkerTypes
<1>3. next.at = at /\ next.item = k /\ next.out = out
  BY <1>2 DEF Worker
<1>4. Becomes(w, next)
  BY <1>1
<1>. HIDE DEF next
<1>5. Steps(w) /\ worker'[w] \in {Idle, next}
  BY <1>4, InspectSteps, EitherWay DEF IInv, Types
<1>6. UNCHANGED <<pin, queue, sheet>> /\ lapsed' = lapsed /\ board' = board
  BY DEF Inspect, domain, sheet
<1>7. AllGo
  <2>1. worker'[w].at # "write"
    BY <1>1, <1>3, <1>5, IdleIs
  <2>2. worker'[w].at = "settle" /\ worker'[w].out \in Believed =>
          ShownNext(worker'[w].item.room, worker'[w].item.version)
    BY <1>1, <1>3, <1>5, <1>6, IdleIs DEF ShownNext
  <2>. QED
    BY <1>5, <2>1, <2>2, RowsGo DEF SheetOK
<1>. QED
  BY <1>6, <1>7, QuietSheet

\* A run that goes on with no item in hand marks and believes nothing.
LEMMA IdlerGo ==
  ASSUME IInv, IInv', SheetOK, NEW w \in Workers, Steps(w), ~OverItem(worker'[w])
  PROVE  AllGo
  BY RowsGo DEF OverItem, SheetOK

LEMMA RestingSheet ==
  ASSUME IInv, IInv', SheetOK, NEW w \in Workers, EndItems(w) \/ Complete(w) \/ Dies(w)
  PROVE  SheetOK' /\ Visible
<1>1. Steps(w) /\ ~OverItem(worker'[w])
  <2>1. (worker[w].clean /\ worker[w].todo = {}) \in BOOLEAN
    OBVIOUS
  <2>. QED
    BY <2>1, FreshSteps, RestSteps DEF EndItems, Complete, Dies, IInv, Types
<1>2. UNCHANGED <<pin, queue, sheet>> /\ lapsed' = lapsed
  BY DEF EndItems, Complete, Dies, domain
<1>. QED
  BY <1>1, <1>2, IdlerGo, QuietSheet

LEMMA StillSheet ==
  ASSUME IInv, IInv', SheetOK, UNCHANGED <<pin, queue, sheet, worker, lapsed>>
  PROVE  SheetOK' /\ Visible
  BY StandingGo, QuietSheet DEF SheetOK

LEMMA LapseSheet ==
  ASSUME IInv, IInv', SheetOK, NEW f \in Fences, LeaseLapses(f)
  PROVE  SheetOK' /\ Visible
<1>1. UNCHANGED <<pin, queue, sheet>> /\ lapsed' = lapsed \cup {f}
  BY DEF LeaseLapses, domain
<1>2. PICK gone \in SUBSET Workers :
        worker' = [w \in Workers |-> IF w \in gone THEN Idle
                                     ELSE [worker[w] EXCEPT !.late = @ \/ worker[w].fence = f]]
  BY DEF LeaseLapses
<1>3. ASSUME NEW w \in Workers
      PROVE  Goes(worker'[w], worker[w]) /\ ~Begins(worker'[w])
  <2>1. lease'.fence = lease.fence /\ lease.fence \in Nat
    BY <1>1, LeaseIs DEF queue, IInv, Types
  <2>2. ~Begins(worker'[w])
    BY <2>1 DEF Begins
  <2>3. CASE w \in gone
    BY <1>2, <2>2, <2>3, IdleFollows, IdleIs DEF Goes, OnWithRows
  <2>4. CASE w \notin gone
    <3>. DEFINE next == [worker[w] EXCEPT !.late = worker[w].late \/ worker[w].fence = f]
    <3>1. worker'[w] = next
      BY <1>2, <2>4
    <3>2. worker[w] \in Worker
      BY DEF IInv, Types, WorkerTypes
    <3>3. /\ next.at = worker[w].at /\ next.fence = worker[w].fence /\ next.todo = worker[w].todo
          /\ next.item = worker[w].item /\ next.out = worker[w].out
          /\ next.run = worker[w].run /\ next.copy = worker[w].copy
      BY <3>2 DEF Worker
    <3>. HIDE DEF next
    <3>. QED
      BY <2>2, <3>1, <3>3 DEF Goes, Stands, Same
  <2>. QED
    BY <2>3, <2>4, <2>2
<1>4. AllGo
  BY <1>3 DEF AllGo
<1>. QED
  BY <1>1, <1>4, QuietSheet

\* A PIN change ends with a row of the PIN that is now on the door.
LEMMA EnterIs ==
  ASSUME IInv, NEW key \in Keys, row' = Enter(key)
  PROVE  /\ \A k \in Keys \ {key} : row'[k] = row[k]
         /\ row[key].status # "absent" => row'[key] = row[key]
         /\ row[key].status = "absent" => row'[key].status = "pending"
<1>1. row' = [row EXCEPT ![key] = IF row[key].status = "absent" THEN Settled("pending") ELSE row[key]]
  BY DEF Enter
<1>. QED
  BY <1>1, SettledIs DEF IInv, Types, RowTypes, RowStatus

LEMMA ChangesSheet ==
  ASSUME IInv, IInv', SheetOK, NEW r \in Rooms, ChangeSteps(r)
  PROVE  SheetOK' /\ Visible
<1>1. /\ lease' = lease /\ resync' = resync /\ worker' = worker /\ lapsed' = lapsed
      /\ board' = board /\ stray' = stray /\ waived' = waived /\ excused' = excused
  BY DEF ChangeSteps, PreparePin, ConfirmBegins, ConfirmCommits, RollbackPin, queue, sheet
<1>2. CASE row' = row /\ pin' = pin
  BY <1>1, <1>2, StillSheet DEF queue, sheet
<1>3. ASSUME NEW key \in Keys, key.room = r, row' = Enter(key),
             \/ pin' = pin /\ key.version <= pin[r]
             \/ pin' = [pin EXCEPT ![r] = @ + 1] /\ key.version = pin[r] + 1
      PROVE  SheetOK' /\ Visible
  <2>1. /\ \A k \in Keys \ {key} : row'[k] = row[k]
        /\ row[key].status # "absent" => row'[key] = row[key]
        /\ row[key].status = "absent" => row'[key].status = "pending"
    BY <1>3, EnterIs
  <2>2. /\ pin \in [Rooms -> Nat] /\ \A q \in Rooms \ {r} : pin'[q] = pin[q]
        /\ pin[r] <= pin'[r]
        /\ pin'[r] = pin[r] \/ (pin'[r] = pin[r] + 1 /\ key.version = pin'[r])
        /\ key.version <= pin'[r]
    BY <1>3, Bounds DEF IInv, Types, DomainTypes
  <2>3. \A q \in Rooms : Due(q) /\ pin'[q] = pin[q] => Due(q)'
    BY <2>1 DEF Due, Unsettled
  <2>4. pin'[r] # pin[r] => Due(r)'
    <3>1. SUFFICES ASSUME pin'[r] # pin[r]
                   PROVE  row'[key].status \in Unsettled
      BY <1>3, <2>2 DEF Due
    <3>2. row[key].status = "absent"
      BY <1>3, <2>2, <3>1 DEF SheetOK, NotAhead
    <3>. QED
      BY <2>1, <3>2 DEF Unsettled
  <2>5. DuesKept
    BY <2>2, <2>3, <2>4 DEF DuesKept
  <2>6. NotAhead'
    <3>1. ASSUME NEW k \in Keys, row'[k].status # "absent"
          PROVE  k.version <= pin'[k.room]
      <4>1. CASE k = key
        BY <1>3, <2>2, <4>1
      <4>2. CASE k # key
        <5>1. k.version <= pin[k.room] /\ k.room \in Rooms /\ k.version \in Nat
          BY <2>1, <3>1, <4>2, Bounds DEF SheetOK, NotAhead, Keys
        <5>2. pin[k.room] \in Nat /\ pin'[k.room] \in Nat /\ pin[k.room] <= pin'[k.room]
          BY <2>2, <5>1
        <5>. QED
          BY <5>1, <5>2
      <4>. QED
        BY <4>1, <4>2
    <3>2. ASSUME NEW i \in Runs, NEW q \in Rooms
          PROVE  resync'[i].snapshot[q].version <= pin'[q]
      <4>1. resync[i].snapshot[q].version <= pin[q] /\ resync[i].snapshot[q].version \in Nat
        BY RunIs, Bounds DEF SheetOK, NotAhead, IInv, Types, QueueTypes, RunTypes, Snapshot
      <4>2. pin[q] \in Nat /\ pin'[q] \in Nat /\ pin[q] <= pin'[q]
        BY <2>2
      <4>. QED
        BY <1>1, <4>1, <4>2
    <3>. QED
      BY <3>1, <3>2 DEF NotAhead
  <2>7. EveryPinIsOwed'
    BY <1>1, <2>2, <2>3, <2>4 DEF EveryPinIsOwed, Due, SheetOK
  <2>8. RowMarksKept
    BY <2>1 DEF RowMarksKept, Marked, Claimed
  <2>9. LeaseKept /\ MarksKept /\ RunsKept /\ ShownKept /\ AllGo
    BY <1>1, <2>8, SameRunsKeep, SameLeaseKeeps, ShownStays, StandingGo DEF MarksKept, SheetOK
  <2>10. Visible
    BY <1>1, <2>1 DEF Visible
  <2>. QED
    BY <1>1, <2>5, <2>6, <2>7, <2>9, <2>10, SheetStep
<1>4. CASE ConfirmCommits(r)
  <2>1. pin[r] + 1 \in 1 .. MaxVersion
    BY <1>4, VersionLeft DEF IInv, Types, ConfirmCommits
  <2>2. Key(r, pin[r] + 1, "confirmed") \in Keys
    BY <2>1 DEF Key, Keys
  <2>. QED
    BY <1>3, <1>4, <2>2 DEF ConfirmCommits, Key
<1>5. CASE RollbackPin(r)
  <2>1. pin[r] \in 1 .. MaxVersion
    BY <1>5, Bounds DEF RollbackPin, IInv, Types, DomainTypes
  <2>2. Key(r, pin[r], "rolledback") \in Keys
    BY <2>1 DEF Key, Keys
  <2>. QED
    BY <1>3, <1>5, <2>1, <2>2, Bounds DEF RollbackPin, Key
<1>. QED
  BY <1>2, <1>4, <1>5 DEF ChangeSteps, PreparePin, ConfirmBegins, queue

\* To the catch block of an item, which can only block it.
LEMMA CatchGo ==
  ASSUME IInv, IInv', SheetOK, NEW w \in Workers, worker[w].at \in {"authorise", "settle"},
         NEW out \in {"retryable", "blocked"}, worker[w].at = "settle" => out = "blocked",
         NEW again \in BOOLEAN,
         Becomes(w, [worker[w] EXCEPT !.at = "settle", !.out = out, !.again = again])
  PROVE  AllGo
<1>1. out \in Outs /\ out \notin Believed
  BY DEF Outs, Believed
<1>2. /\ Steps(w)
      /\ \/ ~OverItem(worker'[w]) /\ worker'[w].fence = 0
         \/ worker'[w].at = "settle" /\ worker'[w].out = out
  BY <1>1, GoesOnSteps DEF IInv, Types
<1>. QED
  BY <1>1, <1>2, RowsGo DEF OverItem, SheetOK

LEMMA CatchBlocked ==
  ASSUME IInv, IInv', SheetOK, NEW w \in Workers, worker[w].at \in {"authorise", "settle"},
         Catch(w, "blocked")
  PROVE  AllGo
<1>1. Becomes(w, [worker[w] EXCEPT !.at = "settle", !.out = "blocked", !.again = TRUE])
  BY DEF Catch
<1>. QED
  BY <1>1, CatchGo

LEMMA SameSnapshots ==
  ASSUME SheetOK, pin' = pin, resync' = resync
  PROVE  \A i \in Runs, r \in Rooms : resync'[i].snapshot[r].version <= pin[r]
  BY DEF SheetOK, NotAhead

LEMMA AuthoriseSheet ==
  ASSUME IInv, IInv', SheetOK, NEW w \in Workers, Authorise(w)
  PROVE  SheetOK' /\ Visible
<1>1. /\ pin' = pin /\ lease' = lease /\ resync' = resync /\ lapsed' = lapsed /\ UNCHANGED sheet
      /\ board' = board /\ stray' = stray /\ excused' = excused /\ waived' = waived
      /\ worker[w].at = "authorise"
  BY DEF Authorise, domain, sheet
<1>2. PICK k \in Keys, f \in Fences : k = worker[w].item /\ f = worker[w].fence
  BY <1>1, Busy DEF IInv, Types
<1>3. CASE row' = row /\ Catch(w, "blocked")
  BY <1>1, <1>3, CatchBlocked, QuietSheet DEF queue
<1>4. ASSUME AllGo, RowMarksKept, Entries, \A r \in Rooms : Due(r) => Due(r)',
             \A j \in Keys : row'[j].status = "succeeded" => row[j].status = "succeeded"
      PROVE  SheetOK' /\ Visible
  <2>1. LeaseKept /\ MarksKept /\ RunsKept
    BY <1>1, <1>4, SameRunsKeep, SameLeaseKeeps DEF MarksKept
  <2>2. Visible
    BY <1>1, <1>4 DEF Visible
  <2>. QED
    BY <1>1, <1>4, <2>1, <2>2, SameSnapshots, QueueStep
<1>e. Entries
  BY AuthoriseIs DEF IInv, Types
<1>5. CASE /\ Mine(w) /\ k.version # pin[k.room]
           /\ row' = [row EXCEPT ![k] = Settled("superseded")]
           /\ NextItem(w, TRUE) \/ Catch(w, "blocked")
  <2>1. row'[k].status = "superseded" /\ \A j \in Keys \ {k} : row'[j] = row[j]
    BY <1>5, SettledIs DEF IInv, Types, RowTypes, RowStatus
  <2>2. AllGo
    BY <1>1, <1>5, NextItemSteps, IdlerGo, CatchBlocked DEF IInv, Types
  <2>3. \A r \in Rooms : Due(r) => Due(r)'
    BY <1>1, <1>5, <2>1 DEF Due
  <2>4. RowMarksKept
    <3>1. \A g \in Fences : Marked(row[k], g) => SettledBy(k, g)
      BY <1>1, <1>2, <1>5 DEF Marked, Claimed, Mine, SettledBy
    <3>. QED
      BY <2>1, <3>1 DEF RowMarksKept
  <2>. QED
    BY <1>4, <1>e, <2>1, <2>2, <2>3, <2>4
<1>6. CASE /\ Mine(w) /\ row' = [row EXCEPT ![k].started = TRUE]
           /\ \/ Go(w, "write") \/ Catch(w, "blocked")
              \/ Becomes(w, [worker[w] EXCEPT !.at = "settle", !.out = "retryable"])
  <2>1. /\ row'[k].status = row[k].status /\ row'[k].fence = row[k].fence /\ row'[k].started = TRUE
        /\ \A j \in Keys \ {k} : row'[j] = row[j]
    BY <1>6 DEF IInv, Types, RowTypes, Row
  <2>2. worker[w] \in Worker /\ worker[w].again \in BOOLEAN /\ worker[w].out \in Outs
    BY WorkerIs DEF IInv, Types, WorkerTypes
  <2>3. ASSUME Go(w, "write")
        PROVE  AllGo
    <3>1. [worker[w] EXCEPT !.at = "write"]
            = [worker[w] EXCEPT !.at = "write", !.out = worker[w].out, !.again = worker[w].again]
      BY <2>2 DEF Worker
    <3>2. Becomes(w, [worker[w] EXCEPT !.at = "write", !.out = worker[w].out, !.again = worker[w].again])
      BY <2>3, <3>1 DEF Go
    <3>. DEFINE next == [worker[w] EXCEPT !.at = "write", !.out = worker[w].out, !.again = worker[w].again]
    <3>3. next.item = k /\ next.fence = f /\ next.at = "write"
      BY <1>2, <2>2 DEF Worker
    <3>4. Becomes(w, next)
      BY <3>2
    <3>. HIDE DEF next
    <3>5. Steps(w)
      BY <1>1, <2>2, <3>2, GoesOnSteps DEF IInv, Types
    <3>6. worker'[w] \in {Idle, next}
      BY <3>4, EitherWay DEF IInv, Types
    <3>7. Marked(row'[k], f)
      BY <1>2, <1>6, <2>1 DEF Mine, Marked, Claimed
    <3>. QED
      BY <3>3, <3>5, <3>6, <3>7, IdleIs, RowsGo DEF SheetOK
  <2>4. ASSUME Becomes(w, [worker[w] EXCEPT !.at = "settle", !.out = "retryable"])
        PROVE  AllGo
    <3>1. [worker[w] EXCEPT !.at = "settle", !.out = "retryable"]
            = [worker[w] EXCEPT !.at = "settle", !.out = "retryable", !.again = worker[w].again]
      BY <2>2 DEF Worker
    <3>. QED
      BY <1>1, <2>2, <2>4, <3>1, CatchGo
  <2>5. AllGo
    BY <1>1, <1>6, <2>3, <2>4, CatchBlocked
  <2>6. \A r \in Rooms : Due(r) => Due(r)'
    BY <1>1, <2>1 DEF Due
  <2>7. RowMarksKept
    BY <2>1 DEF RowMarksKept, Marked, Claimed
  <2>. QED
    BY <1>4, <1>e, <2>1, <2>5, <2>6, <2>7
<1>. QED
  BY <1>2, <1>3, <1>5, <1>6 DEF Authorise

LEMMA SettleRowEnds ==
  ASSUME RowTypes, NEW k \in Keys, NEW outcome, SettleRow(k, outcome),
         outcome \in Outs \cup {"superseded"}
  PROVE  /\ outcome = "superseded" => row'[k].status = "superseded"
         /\ outcome \in Believed => row'[k].status = "succeeded"
         /\ outcome \in {"retryable", "blocked"} => row'[k].status \in Unsettled
         /\ outcome = "blocked" => lease' = Blocked
<1>1. CASE outcome = "superseded"
  <2>1. row' = [row EXCEPT ![k] = Settled("superseded")]
    BY <1>1 DEF SettleRow
  <2>. QED
    BY <1>1, <2>1, SettledIs DEF RowTypes, RowStatus, Believed
<1>2. CASE outcome \in Believed
  <2>1. row' = [row EXCEPT ![k] = Settled("succeeded")]
    BY <1>2 DEF SettleRow, Believed
  <2>. QED
    BY <1>2, <2>1, SettledIs DEF RowTypes, RowStatus, Believed
<1>3. CASE outcome = "retryable"
  <2>1. row' = [row EXCEPT ![k] = [Settled("failed") EXCEPT !.retries = row[k].retries + 1]]
    BY <1>3 DEF SettleRow
  <2>2. [Settled("failed") EXCEPT !.retries = row[k].retries + 1].status = "failed"
    BY DEF Settled
  <2>. QED
    BY <1>3, <2>1, <2>2 DEF RowTypes, Believed, Unsettled
<1>4. CASE outcome = "blocked"
  <2>1. row' = [row EXCEPT ![k].status = "failed", ![k].fence = 0] /\ lease' = Blocked
    BY <1>4 DEF SettleRow
  <2>2. [row[k] EXCEPT !.status = "failed", !.fence = 0].status = "failed"
    BY DEF RowTypes, Row
  <2>. QED
    BY <1>4, <2>1, <2>2 DEF RowTypes, Believed, Unsettled
<1>. QED
  BY <1>1, <1>2, <1>3, <1>4 DEF Outs, Believed

LEMMA SettleSheet ==
  ASSUME IInv, IInv', SheetOK, NEW w \in Workers, Settle(w)
  PROVE  SheetOK' /\ Visible
<1>1. /\ pin' = pin /\ resync' = resync /\ lapsed' = lapsed /\ board' = board
      /\ stray' = stray /\ excused' = excused /\ worker[w].at = "settle"
  BY DEF Settle, domain
<1>2. PICK k \in Keys, f \in Fences, out \in Outs :
        k = worker[w].item /\ f = worker[w].fence /\ out = worker[w].out
  BY <1>1, Busy DEF IInv, Types
<1>3. AllGo
  <2>1. \/ HeartbeatNext(w, TRUE, FALSE) \/ Catch(w, "blocked") \/ Fail(w)
        \/ \E clean \in BOOLEAN : NextItem(w, clean)
    BY DEF Settle
  <2>. QED
    BY <1>1, <2>1, FreshSteps, NextItemSteps, IdlerGo, CatchBlocked DEF IInv, Types
<1>4. CASE row' = row /\ lease' = lease /\ waived' = waived
  BY <1>1, <1>3, <1>4, QuietSheet DEF queue, sheet
<1>5. ASSUME NEW outcome, outcome = IF k.version # pin[k.room] THEN "superseded" ELSE out,
             Live(f), Mine(w), SettleRow(k, outcome),
             waived' = IF outcome = "superseded" /\ out = "blocked" THEN waived \cup {f} ELSE waived
      PROVE  SheetOK' /\ Visible
  <2>1. /\ RowTypes' /\ \A j \in Keys : RowKeeps(j)
        /\ lease' = lease \/ lease' = Blocked
        /\ Entries
        /\ \A j \in Keys \ {k} : row'[j] = row[j]
    <3>1. row[k].status = "processing" /\ outcome \in Outs \cup {"superseded"}
      BY <1>2, <1>5 DEF Mine, Claimed
    <3>. QED
      BY <1>5, <3>1, SettleRowIs DEF Entries, IInv, Types
  <2>2. /\ outcome = "superseded" => row'[k].status = "superseded"
        /\ outcome \in Believed => row'[k].status = "succeeded"
        /\ outcome \in {"retryable", "blocked"} => row'[k].status \in Unsettled
        /\ outcome = "blocked" => lease' = Blocked
    BY <1>2, <1>5, SettleRowEnds DEF IInv, Types
  <2>3. lease'.fence = lease.fence /\ lease.fence = f
    BY <1>5, <2>1, LeaseIs DEF Live, IInv, Types
  <2>4. LeaseKept
    <3>1. lease' = Blocked => lease'.status = "blocked"
      BY LeaseIs DEF IInv, Types
    <3>2. lease.status = "leased"
      BY <1>5 DEF Live, LeaseUp
    <3>. QED
      BY <1>1, <2>1, <2>3, <3>1, <3>2, SameRunsKeep, SameLeaseKeeps
  <2>5. RowMarksKept
    <3>1. ASSUME NEW g \in Fences, Marked(row[k], g)
          PROVE  SettledBy(k, g)
      <4>1. g = f
        BY <1>2, <1>5, <3>1 DEF Marked, Claimed, Mine
      <4>2. ASSUME out = "blocked"
            PROVE  BlockedAt(f)' \/ f \in waived'
        <5>1. CASE outcome = "superseded"
          BY <1>5, <4>2, <5>1
        <5>2. CASE outcome = "blocked"
          BY <2>2, <2>3, <5>2, LeaseIs DEF BlockedAt, IInv, Types
        <5>. QED
          BY <1>5, <4>2, <5>1, <5>2
      <4>. QED
        BY <1>1, <1>2, <4>1, <4>2 DEF SettledBy
    <3>. QED
      BY <2>1, <3>1 DEF RowMarksKept
  <2>6. MarksKept /\ RunsKept
    BY <1>1, <1>5, <2>5, SameRunsKeep DEF MarksKept
  <2>7. Shown(k.room, k.version) \/ out \notin Believed
    BY <1>1, <1>2, <1>5 DEF SheetOK, Steady, Truthful
  <2>8. ASSUME out \in Believed
        PROVE  Freed(k.room)
    <3>1. Steps(w) /\ worker'[w].at \notin {"authorise", "write"}
      BY SettleSteps DEF IInv, Types
    <3>2. ASSUME NEW v \in Workers, Held(worker[v].fence)'
          PROVE  /\ \A j \in worker'[v].todo : j.room # k.room
                 /\ worker'[v].at \in {"authorise", "write"} => worker'[v].item.room # k.room
                 /\ worker'[v].at # "paint"
      <4>1. worker'[v].fence = f
        BY <2>3, <3>2 DEF Held
      <4>2. v = w
        <5>1. ASSUME v # w
              PROVE  worker[v].fence = f
          BY <3>1, <4>1, <5>1 DEF Steps
        <5>. QED
          BY <1>2, <5>1, Bounds DEF SheetOK, FenceIsOne, Fences
      <4>3. worker'[w].todo \subseteq worker[w].todo /\ worker'[w].at \notin BoardAts
        BY <3>1 DEF Steps, Follows
      <4>4. \A j \in worker[w].todo : j.room # k.room
        BY <1>1, <1>2 DEF SheetOK, Steady, Tidy, OverItem
      <4>. QED
        BY <3>1, <4>2, <4>3, <4>4 DEF BoardAts
    <3>3. ASSUME NEW write \in stray, write.fence = f
          PROVE  k.room \notin DOMAIN write.cells
      <4>1. Silent(worker[w], DOMAIN write.cells)
        BY <1>2, <3>3 DEF SheetOK, Accounted
      <4>2. out # "blocked"
        BY <2>8 DEF Believed
      <4>. QED
        BY <1>1, <1>2, <4>1, <4>2 DEF Silent, OverItem
    <3>. QED
      BY <2>3, <3>2, <3>3 DEF Freed, Held
  <2>9. ASSUME NEW r \in Rooms, Due(r)
        PROVE  Due(r)' \/ (Freed(r) /\ ShownNext(r, pin[r]))
    <3>1. PICK j \in Keys : j.room = r /\ j.version = pin[r] /\ row[j].status \in Unsettled
      BY <2>9 DEF Due
    <3>2. CASE j # k
      BY <1>1, <2>1, <3>1, <3>2 DEF Due
    <3>3. CASE j = k /\ out \in Believed
      BY <1>1, <2>7, <2>8, <3>1, <3>3 DEF Shown, ShownNext
    <3>4. CASE j = k /\ out \notin Believed
      <4>1. outcome \in {"retryable", "blocked"}
        BY <1>2, <1>5, <3>1, <3>4 DEF Outs, Believed
      <4>. QED
        BY <1>1, <2>2, <3>1, <3>4, <4>1 DEF Due
    <3>. QED
      BY <3>2, <3>3, <3>4
  <2>10. Visible
    <3>1. ASSUME NEW j \in Keys, row[j].status # "succeeded", row'[j].status = "succeeded"
          PROVE  board[j.room].version = j.version \/ j.room \in excused
      <4>1. j = k
        BY <2>1, <3>1
      <4>2. outcome \in Believed
        BY <1>2, <1>5, <2>2, <3>1, <4>1 DEF Outs, Believed, Unsettled
      <4>3. out \in Believed
        BY <1>5, <4>2 DEF Believed
      <4>. QED
        BY <2>7, <4>1, <4>3 DEF Shown
    <3>. QED
      BY <1>1, <3>1 DEF Visible
  <2>. QED
    BY <1>1, <1>3, <2>1, <2>4, <2>6, <2>9, <2>10, SameSnapshots, QueueStep
<1>. QED
  BY <1>1, <1>2, <1>4, <1>5 DEF Settle

LEMMA BeatGo ==
  ASSUME IInv, IInv', SheetOK, NEW w \in Workers, Beat(w) \/ LastBeat(w)
  PROVE  AllGo
<1>1. Steps(w)
  BY BeatSteps DEF IInv, Types
<1>2. ASSUME Go(w, "complete")
      PROVE  ~OverItem(worker'[w])
  <2>. DEFINE next == [worker[w] EXCEPT !.at = "complete"]
  <2>1. next.at = "complete"
    BY DEF IInv, Types, WorkerTypes, Worker
  <2>2. Becomes(w, next)
    BY <1>2 DEF Go
  <2>. HIDE DEF next
  <2>3. worker'[w] \in {Idle, next}
    BY <2>2, EitherWay DEF IInv, Types
  <2>. QED
    BY <2>1, <2>3, IdleIs DEF OverItem
<1>3. Go(w, "complete") \/ Rest(w) \/ Fail(w)
  BY DEF Beat, LastBeat
<1>4. ~OverItem(worker'[w])
  BY <1>2, <1>3, FreshSteps, RestSteps DEF IInv, Types
<1>. QED
  BY <1>1, <1>4, IdlerGo

LEMMA BeatSheet ==
  ASSUME IInv, IInv', SheetOK, NEW w \in Workers, Beat(w) \/ LastBeat(w)
  PROVE  SheetOK' /\ Visible
<1>1. /\ pin' = pin /\ lapsed' = lapsed /\ UNCHANGED sheet /\ board' = board /\ stray' = stray
      /\ waived' = waived /\ excused' = excused
  BY DEF Beat, LastBeat, domain, sheet
<1>2. AllGo /\ Entries
  BY BeatGo, BeatIs DEF IInv, Types
<1>3. CASE UNCHANGED queue
  BY <1>1, <1>2, <1>3, QuietSheet
<1>4. CASE Heartbeat(w)
  <2>1. PICK f : /\ row' = [k \in Keys |-> Returned(row[k], f)]
                 /\ resync' = [i \in Runs |-> Returned(resync[i], f)]
    BY <1>4 DEF Heartbeat
  <2>2. ASSUME NEW k \in Keys
        PROVE  /\ row[k].started => row'[k] = row[k]
               /\ row[k].status \in Unsettled => row'[k].status \in Unsettled
               /\ row'[k].status = "succeeded" => row[k].status = "succeeded"
    <3>1. row'[k] = Returned(row[k], f) /\ row[k] \in Row
      BY <2>1 DEF IInv, Types, RowTypes
    <3>2. BackRow(row'[k], row[k])
      BY <3>1, ReturnedRowIs
    <3>3. row[k].started => row'[k] = row[k]
      BY <3>1 DEF Returned
    <3>. QED
      BY <3>2, <3>3 DEF BackRow, Unsettled
  <2>3. ASSUME NEW i \in Runs
        PROVE  /\ resync[i].started => resync'[i] = resync[i]
               /\ resync'[i].snapshot = resync[i].snapshot
               /\ resync'[i].reconciles = resync[i].reconciles
               /\ resync'[i] = resync[i] \/ resync'[i].status = "pending"
    <3>1. resync'[i] = Returned(resync[i], f) /\ resync[i] \in Resync
      BY <2>1 DEF IInv, Types, QueueTypes, RunTypes
    <3>2. BackRun(resync'[i], resync[i])
      BY <3>1, ReturnedRunIs
    <3>. QED
      BY <3>2 DEF BackRun
  <2>4. RowMarksKept /\ RunMarksKept /\ RunsKept
    BY <2>2, <2>3 DEF RowMarksKept, RunMarksKept, RunsKept, Marked, Claimed
  <2>5. LeaseKept
    <3>1. \A g \in Fences : RecoveryAsked(g) => RecoveryAsked(g)'
      BY <2>3 DEF RecoveryAsked
    <3>2. /\ lease'.fence = lease.fence /\ lease'.status # "leased"
          /\ lease.status # "leased" => lease' = lease
      BY <1>4, LeaseIs DEF Heartbeat, IInv, Types
    <3>3. lease'.status = "blocked" <=> lease.status = "blocked"
      BY <1>4, LeaseIs DEF Heartbeat, IInv, Types
    <3>4. lease'.status # "idle" => lease.status # "idle"
      BY <1>4, LeaseIs DEF Heartbeat, IInv, Types
    <3>. QED
      BY <1>1, <3>1, <3>2, <3>3, <3>4, SameLeaseKeeps
  <2>6. \A r \in Rooms : Due(r) => Due(r)'
    BY <1>1, <2>2 DEF Due
  <2>7. Visible
    BY <2>2, <2>3 DEF Visible
  <2>8. \A i \in Runs, r \in Rooms : resync'[i].snapshot[r].version <= pin[r]
    BY <2>3 DEF SheetOK, NotAhead
  <2>. QED
    BY <1>1, <1>2, <2>4, <2>5, <2>6, <2>7, <2>8, QueueStep DEF MarksKept
<1>. QED
  BY <1>3, <1>4 DEF Beat, LastBeat, queue

\* What a claim makes of a row: taken under the new fence, superseded, or given back.
Chosen(k, due) ==
  /\ k \in due /\ k.version = pin[k.room]
  /\ k.reason = "rolledback" \/ Key(k.room, k.version, "rolledback") \notin due
LEMMA TakeRowsMakes ==
  ASSUME RowTypes, NEW w \in Workers, NEW due, TakeRows(w, due)
  PROVE  /\ due \subseteq Keys
         /\ worker' = [worker EXCEPT ![w] =
              [Idle EXCEPT !.at = "next", !.fence = lease.fence + 1, !.todo = {k \in due : Chosen(k, due)}]]
         /\ \A k \in Keys :
              /\ Chosen(k, due) => row'[k].status = "processing"
              /\ row[k].status = "processing" /\ row[k].started => row'[k] = row[k]
              /\ row'[k].status = "succeeded" => row[k].status = "succeeded"
              /\ row[k].status \in Unsettled /\ k.version = pin[k.room] =>
                   \/ row'[k].status \in Unsettled
                   \/ \E j \in due : Chosen(j, due) /\ j.room = k.room
<1>. DEFINE released == [k \in Keys |-> Released(row[k])]
            Open(k) == released[k].status \in {"pending", "failed"}
            chosen == {k \in due : Chosen(k, due)}
            Replaced(k) == \/ k.version < pin[k.room] /\ \E j \in due : j.room = k.room
                           \/ \E j \in chosen : j.room = k.room
            taken(k) == [released[k] EXCEPT !.status = "processing", !.fence = lease.fence + 1, !.started = FALSE]
<1>1. due \subseteq {k \in Keys : Open(k) /\ released[k].retries < MaxRetry}
  BY DEF TakeRows
<1>2. row' = [k \in Keys |-> IF k \in chosen THEN taken(k)
                             ELSE IF Open(k) /\ Replaced(k) THEN Settled("superseded") ELSE released[k]]
  BY DEF TakeRows, Chosen
<1>3. worker' = [worker EXCEPT ![w] =
        [Idle EXCEPT !.at = "next", !.fence = lease.fence + 1, !.todo = chosen]]
  BY DEF TakeRows, Chosen
<1>4. ASSUME NEW k \in Keys
      PROVE  /\ released[k] \in Row /\ BackRow(released[k], row[k])
             /\ row[k].status = "processing" /\ row[k].started => released[k] = row[k]
  BY ReleasedRowIs DEF RowTypes, BackRow, Released
<1>5. ASSUME NEW k \in Keys
      PROVE  /\ Chosen(k, due) => row'[k].status = "processing"
             /\ row[k].status = "processing" /\ row[k].started => row'[k] = row[k]
             /\ row'[k].status = "succeeded" => row[k].status = "succeeded"
             /\ row[k].status \in Unsettled /\ k.version = pin[k.room] =>
                  row'[k].status \in Unsettled \/ \E j \in due : Chosen(j, due) /\ j.room = k.room
  <2>1. Chosen(k, due) => k \in chosen /\ Open(k)
    BY <1>1 DEF Chosen
  <2>2. CASE k \in chosen
    <3>1. row'[k] = taken(k) /\ Open(k)
      BY <1>2, <2>1, <2>2
    <3>2. taken(k).status = "processing"
      BY <1>4 DEF Row
    <3>3. ~(row[k].status = "processing" /\ row[k].started)
      BY <1>4, <3>1
    <3>. HIDE DEF taken, released, chosen
    <3>. QED
      BY <3>1, <3>2, <3>3 DEF Unsettled
  <2>3. CASE k \notin chosen /\ Open(k) /\ Replaced(k)
    <3>1. row'[k].status = "superseded"
      BY <1>2, <2>3, SettledIs DEF RowStatus
    <3>2. ~(row[k].status = "processing" /\ row[k].started)
      BY <1>4, <2>3
    <3>3. k.version = pin[k.room] => \E j \in due : Chosen(j, due) /\ j.room = k.room
      <4>1. k.version = pin[k.room] => ~(k.version < pin[k.room])
        BY Bounds DEF Keys
      <4>. QED
        BY <2>3, <4>1
    <3>. QED
      BY <2>1, <2>3, <3>1, <3>2, <3>3
  <2>4. CASE k \notin chosen /\ ~(Open(k) /\ Replaced(k))
    <3>1. row'[k] = released[k]
      BY <1>2, <2>4
    <3>2. /\ released[k].status \in {row[k].status, "pending"}
          /\ row[k].status = "processing" /\ row[k].started => released[k] = row[k]
      BY <1>4 DEF BackRow
    <3>. HIDE DEF released, Open, Replaced
    <3>. QED
      BY <2>1, <2>4, <3>1, <3>2 DEF Unsettled
  <2>. QED
    BY <2>2, <2>3, <2>4
<1>. QED
  BY <1>1, <1>3, <1>5

LEMMA TakeRowsSheet ==
  ASSUME IInv, IInv', SheetOK, NEW w \in Workers, NEW due, TakeRows(w, due),
         lease.status # "blocked", resync' = resync, pin' = pin, UNCHANGED sheet
  PROVE  SheetOK' /\ Visible
<1>1. /\ due \subseteq Keys
      /\ \A k \in Keys :
           /\ Chosen(k, due) => row'[k].status = "processing"
           /\ row[k].status = "processing" /\ row[k].started => row'[k] = row[k]
           /\ row'[k].status = "succeeded" => row[k].status = "succeeded"
           /\ row[k].status \in Unsettled /\ k.version = pin[k.room] =>
                row'[k].status \in Unsettled \/ \E j \in due : Chosen(j, due) /\ j.room = k.room
  BY TakeRowsMakes DEF IInv, Types
<1>. DEFINE chosen == {k \in due : Chosen(k, due)}
            next == [Idle EXCEPT !.at = "next", !.fence = lease.fence + 1, !.todo = chosen]
<1>2. worker' = [worker EXCEPT ![w] = next]
  BY TakeRowsMakes DEF IInv, Types
<1>3. next.at = "next" /\ next.fence = lease.fence + 1 /\ next.todo = chosen
  BY IdleIs DEF Worker
<1>4. /\ worker'[w] = next /\ \A v \in Workers \ {w} : worker'[v] = worker[v]
  BY <1>2 DEF IInv, Types, WorkerTypes
<1>. HIDE DEF next
<1>5. /\ Entries /\ lease'.fence = lease.fence + 1 /\ lease.fence \in Nat
      /\ board' = board /\ stray' = stray /\ waived' = waived /\ excused' = excused
  BY TakeRowsIs, LeaseIs DEF IInv, Types, sheet
<1>6. ASSUME NEW j \in chosen, NEW k \in chosen, j # k
      PROVE  j.room # k.room
  <2>1. SUFFICES ASSUME j.room = k.room
                 PROVE  FALSE
    OBVIOUS
  <2>2. j \in Keys /\ k \in Keys /\ j.version = k.version
    BY <1>1, <2>1 DEF Chosen
  <2>3. j = Key(j.room, j.version, j.reason) /\ k = Key(k.room, k.version, k.reason)
        /\ j.reason \in {"confirmed", "rolledback"} /\ k.reason \in {"confirmed", "rolledback"}
    BY <2>2 DEF Keys, Key
  <2>4. j.reason # k.reason
    BY <1>6, <2>1, <2>2, <2>3
  <2>. QED
    BY <2>1, <2>2, <2>3, <2>4 DEF Chosen
<1>7. ASSUME NEW k \in chosen
      PROVE  Due(k.room)'
  <2>1. k \in Keys /\ k.version = pin'[k.room] /\ row'[k].status \in Unsettled
    BY <1>1 DEF Chosen, Unsettled
  <2>. QED
    BY <2>1 DEF Due
<1>8. AllGo
  <2>1. Begins(worker'[w])
    BY <1>3, <1>4, <1>5, <1>6, <1>7 DEF Begins
  <2>. QED
    BY <1>4, <2>1, OneGoes DEF SheetOK, Goes
<1>9. LeaseKept
  BY <1>5, SameRunsKeep DEF LeaseKept, Held, Live, BlockedAt
<1>10. MarksKept /\ RunsKept
  <2>1. RowMarksKept
    BY <1>1 DEF RowMarksKept, Marked, Claimed
  <2>. QED
    BY <1>5, <2>1, SameRunsKeep DEF MarksKept
<1>11. ASSUME NEW r \in Rooms, Due(r)
       PROVE  Due(r)'
  <2>1. PICK k \in Keys : k.room = r /\ k.version = pin[r] /\ row[k].status \in Unsettled
    BY <1>11 DEF Due
  <2>2. CASE row'[k].status \in Unsettled
    BY <2>1, <2>2 DEF Due
  <2>3. CASE \E j \in chosen : j.room = r
    BY <1>7, <2>3
  <2>. QED
    BY <1>1, <2>1, <2>2, <2>3
<1>12. Visible
  BY <1>1 DEF Visible
<1>. QED
  BY <1>5, <1>8, <1>9, <1>10, <1>11, <1>12, SameSnapshots, QueueStep

LEMMA ClaimSheet ==
  ASSUME IInv, IInv', SheetOK, NEW w \in Workers, NEW due, ClaimProbed(w, due) \/ ClaimAdmitted(w, due)
  PROVE  SheetOK' /\ Visible
<1>1. ClaimRows(w, due)
  BY DEF ClaimProbed, ClaimAdmitted
<1>2. resync' = resync /\ pin' = pin /\ UNCHANGED sheet /\ lease.status # "blocked"
  BY <1>1 DEF ClaimRows, domain
<1>3. CASE RowsAreUncertain
  <2>1. lease' = Blocked /\ Rest(w) /\ row' = row /\ lapsed' = lapsed /\ lease.status = "leased"
    BY <1>1, <1>3 DEF ClaimRows, RowsAreUncertain, Uncertain
  <2>2. lease'.status = "blocked" /\ lease'.fence = lease.fence
    BY <2>1, LeaseIs DEF IInv, Types
  <2>3. LeaseKept /\ RunMarksKept /\ RunsKept /\ RowMarksKept /\ Entries
    BY <1>2, <2>1, <2>2, SameRunsKeep, SameRowsKeep, SameLeaseKeeps DEF Entries
  <2>4. AllGo
    BY <2>1, RestSteps, IdlerGo DEF IInv, Types
  <2>5. Visible /\ \A r \in Rooms : Due(r) => Due(r)'
    BY <1>2, <2>1, SameRowsKeep DEF Visible
  <2>. QED
    BY <1>2, <2>3, <2>4, <2>5, SameSnapshots, QueueStep DEF MarksKept, sheet
<1>4. CASE ~RowsAreUncertain
  BY <1>1, <1>2, <1>4, TakeRowsSheet DEF ClaimRows
<1>. QED
  BY <1>3, <1>4

(***************************************************************************)
(* The steps over the whole board                                          *)
(***************************************************************************)
\* A run that is over keeps nothing of its snapshot.
LEMMA EndedShows ==
  ASSUME NEW run, NEW s \in {"succeeded", "blocked", "superseded"}, NEW r \in Rooms
  PROVE  Ended(run, s).snapshot[r].version = 0
<1>1. NoResync.snapshot[r].version = 0
  BY DEF NoResync
<1>. DEFINE made(f) == [NoResync EXCEPT !.status = s, !.fence = f, !.reconciles = run.reconciles,
                                        !.root = run.root]
<1>2. \A f : made(f).snapshot = NoResync.snapshot
  BY DEF NoResync
<1>3. Ended(run, s) = made(IF s = "blocked" THEN run.fence ELSE 0)
  BY DEF Ended
<1>. QED
  BY <1>1, <1>2, <1>3

\* Steps that touch the full resyncs and the lease, not the rows.
LEMMA RunStep ==
  ASSUME IInv, IInv', SheetOK, pin' = pin, row' = row, UNCHANGED sheet, AllGo,
         LeaseKept, RunMarksKept, RunsKept,
         \A i \in Runs, r \in Rooms : resync'[i].snapshot[r].version <= pin[r],
         \A i \in Runs : resync'[i].status = "succeeded" => resync[i].status = "succeeded"
  PROVE  SheetOK' /\ Visible
<1>1. board' = board /\ stray' = stray /\ waived' = waived /\ excused' = excused
  BY DEF sheet
<1>2. Entries /\ MarksKept /\ \A r \in Rooms : Due(r) => Due(r)'
  BY <1>1, SameRowsKeep DEF Entries, MarksKept
<1>3. Visible
  BY DEF Visible
<1>. QED
  BY <1>1, <1>2, <1>3, QueueStep

LEMMA UncertainSheet ==
  ASSUME IInv, IInv', SheetOK, Uncertain, resync' = UncertainRunsBlocked, lease' = Blocked,
         pin' = pin, row' = row, lapsed' = lapsed, worker' = worker, UNCHANGED sheet
  PROVE  SheetOK' /\ Visible
<1>1. /\ lease.status = "leased" /\ lease'.status = "blocked" /\ lease'.fence = lease.fence
  BY LeaseIs DEF Uncertain, IInv, Types
<1>2. ASSUME NEW i \in Runs
      PROVE  /\ resync'[i].status # "processing" /\ resync'[i].reconciles = resync[i].reconciles
             /\ resync'[i].status = "succeeded" => resync[i].status = "succeeded"
             /\ resync[i].status = "processing" => resync[i].fence = lease.fence
  <2>1. resync'[i] = UncertainRunsBlocked[i]
    OBVIOUS
  <2>. QED
    BY <2>1, UncertainEnds DEF IInv, Types
<1>3. ASSUME NEW i \in Runs, NEW r \in Rooms
      PROVE  resync'[i].snapshot[r].version <= pin[r]
  <2>1. resync'[i] = resync[i] \/ resync'[i] = Ended(resync[i], "blocked")
    BY DEF UncertainRunsBlocked
  <2>2. Ended(resync[i], "blocked").snapshot[r].version = 0 /\ 0 <= pin[r]
    BY EndedShows, Bounds DEF IInv, Types, DomainTypes
  <2>. QED
    BY <2>1, <2>2 DEF SheetOK, NotAhead
<1>4. LeaseKept /\ RunMarksKept /\ RunsKept
  <2>1. LeaseKept
    BY <1>1, <1>2, AskedStays, SameLeaseKeeps
  <2>. QED
    BY <1>1, <1>2, <2>1 DEF RunMarksKept, RunsKept, Marked, Claimed, BlockedAt
<1>5. AllGo
  BY StandingGo DEF SheetOK
<1>. QED
  BY <1>2, <1>3, <1>4, <1>5, RunStep

LEMMA ProbeSheet ==
  ASSUME IInv, IInv', SheetOK, NEW w \in Workers, ProbeResync(w)
  PROVE  SheetOK' /\ Visible
<1>. DEFINE released == [i \in Runs |-> Released(resync[i])]
            First(i) == released[i].status \in {"pending", "failed"}
                          /\ \A j \in 1 .. i - 1 : released[j].status # "pending"
            begun(i) == [Idle EXCEPT !.at = "board", !.fence = lease.fence + 1, !.run = i,
                                     !.copy = [r \in Rooms |-> resync[i].snapshot[r].version]]
<1>1. pin' = pin /\ row' = row /\ UNCHANGED sheet /\ worker[w] = Idle /\ lease.fence \in Nat
  BY LeaseIs DEF ProbeResync, domain, IInv, Types
<1>2. ASSUME NEW i \in Runs
      PROVE  /\ resync[i].started => released[i] = resync[i]
             /\ released[i] = resync[i] \/ released[i].status = "pending"
             /\ released[i].snapshot = resync[i].snapshot
             /\ released[i].reconciles = resync[i].reconciles
             /\ released[i] \in Resync
  <2>1. BackRun(released[i], resync[i])
    BY ReleasedRunIs DEF IInv, Types, QueueTypes, RunTypes
  <2>. HIDE DEF released
  <2>. QED
    BY <2>1 DEF BackRun
<1>3. CASE Uncertain /\ resync' = UncertainRunsBlocked /\ lease' = Blocked /\ UNCHANGED <<lapsed, worker>>
  BY <1>1, <1>3, UncertainSheet
<1>4. CASE /\ resync' = released /\ lease' = lease /\ lapsed' = lapsed
           /\ Go(w, "probed") \/ UNCHANGED worker
  <2>. HIDE DEF released
  <2>1. RunMarksKept /\ RunsKept /\ \A f \in Fences : RecoveryAsked(f) => RecoveryAsked(f)'
    BY <1>2, <1>4 DEF RunMarksKept, RunsKept, Marked, Claimed, RecoveryAsked
  <2>2. LeaseKept
    BY <1>4, <2>1, SameLeaseKeeps
  <2>3. \A i \in Runs, r \in Rooms : resync'[i].snapshot[r].version <= pin[r]
    BY <1>2, <1>4 DEF SheetOK, NotAhead
  <2>4. ASSUME Go(w, "probed")
        PROVE  AllGo
    <3>. DEFINE next == [worker[w] EXCEPT !.at = "probed"]
    <3>1. next.at = "probed" /\ next.fence = 0 /\ next.todo = {}
      BY <1>1, IdleIs DEF Worker
    <3>2. Becomes(w, next)
      BY <2>4 DEF Go
    <3>. HIDE DEF next
    <3>3. worker'[w] \in {Idle, next} /\ \A v \in Workers \ {w} : worker'[v] = worker[v]
      BY <3>2, EitherWay DEF IInv, Types
    <3>4. Goes(worker'[w], worker[w])
      BY <1>1, <3>1, <3>3 DEF Goes, Probes, Stands, Same
    <3>. QED
      BY <3>3, <3>4, OneGoes DEF SheetOK
  <2>5. AllGo
    BY <1>4, <2>4, StandingGo DEF SheetOK
  <2>6. \A i \in Runs : resync'[i].status = "succeeded" => resync[i].status = "succeeded"
    BY <1>2, <1>4
  <2>. QED
    BY <1>1, <2>1, <2>2, <2>3, <2>5, <2>6, RunStep
<1>5. ASSUME NEW i \in Runs, NEW run, First(i), MayRecover(i, released[i]),
             NEW s \in {"leased", "blocked"}, Take(s), resync' = [released EXCEPT ![i] = run],
             run.status \in {"processing", "blocked"}, run.fence = lease.fence + 1,
             run.reconciles = resync[i].reconciles, \A r \in Rooms : run.snapshot[r].version <= pin[r],
             \/ worker' = worker
             \/ /\ worker' = [worker EXCEPT ![w] = begun(i)] /\ run.snapshot = resync[i].snapshot
      PROVE  SheetOK' /\ Visible
  <2>1. lease'.fence = lease.fence + 1
    BY <1>5, TakeIs DEF IInv, Types
  <2>2. /\ resync'[i] = run /\ \A j \in Runs \ {i} : resync'[j] = released[j]
        /\ released[i].status \in {"pending", "failed"}
    BY <1>5
  <2>3. LeaseKept
    <3>1. \A f \in Fences : RecoveryAsked(f) => RecoveryAsked(f)'
      BY <1>2, <1>5, <2>2 DEF RecoveryAsked
    <3>2. ASSUME lease.status = "blocked", NEW f \in Fences, f = lease.fence
          PROVE  RecoveryAsked(f)'
      <4>1. resync'[i].reconciles = lease.fence
        BY <1>5, <2>2, <3>2 DEF MayRecover
      <4>. QED
        BY <1>1, <3>2, <4>1 DEF RecoveryAsked
    <3>. HIDE DEF released
    <3>. QED
      BY <1>1, <2>1, <3>1, <3>2 DEF LeaseKept, Held, Live, BlockedAt
  <2>4. RunMarksKept /\ RunsKept
    <3>. HIDE DEF released, First
    <3>1. ~resync[i].started \/ resync[i].status # "processing"
      BY <1>2, <2>2
    <3>2. \A f \in Fences : f <= lease.fence => run.fence # f
      BY <1>1, <1>5 DEF Fences
    <3>. QED
      BY <1>2, <2>2, <1>5, <3>1, <3>2 DEF RunMarksKept, RunsKept, Marked, Claimed
  <2>5. \A j \in Runs, r \in Rooms : resync'[j].snapshot[r].version <= pin[r]
    <3>. HIDE DEF released, First
    <3>. QED
      BY <1>2, <1>5, <2>2 DEF SheetOK, NotAhead
  <2>6. \A j \in Runs : resync'[j].status = "succeeded" => resync[j].status = "succeeded"
    <3>. HIDE DEF released, First
    <3>. QED
      BY <1>2, <1>5, <2>2
  <2>7. AllGo
    <3>1. CASE worker' = worker
      BY <3>1, StandingGo DEF SheetOK
    <3>2. CASE worker' = [worker EXCEPT ![w] = begun(i)] /\ run.snapshot = resync[i].snapshot
      <4>1. /\ begun(i).at = "board" /\ begun(i).fence = lease.fence + 1 /\ begun(i).run = i
            /\ begun(i).copy = [r \in Rooms |-> resync[i].snapshot[r].version] /\ begun(i).todo = {}
        BY IdleIs DEF Worker
      <4>2. worker'[w] = begun(i) /\ \A v \in Workers \ {w} : worker'[v] = worker[v]
        BY <3>2 DEF IInv, Types, WorkerTypes
      <4>. HIDE DEF begun, released, First
      <4>3. Begins(worker'[w])
        BY <1>1, <2>1, <2>2, <3>2, <4>1, <4>2 DEF Begins
      <4>. QED
        BY <4>2, <4>3, OneGoes DEF SheetOK, Goes
    <3>. QED
      BY <1>5, <3>1, <3>2
  <2>. QED
    BY <1>1, <2>3, <2>4, <2>5, <2>6, <2>7, RunStep
<1>6. ASSUME NEW i \in Runs, First(i), MayRecover(i, released[i]), Take("leased"),
             resync' = [released EXCEPT ![i].status = "processing", ![i].fence = lease.fence + 1],
             worker' = [worker EXCEPT ![w] = begun(i)]
      PROVE  SheetOK' /\ Visible
  <2>. DEFINE run == [released[i] EXCEPT !.status = "processing", !.fence = lease.fence + 1]
  <2>1. resync' = [released EXCEPT ![i] = run]
    BY <1>6
  <2>2. /\ run.status = "processing" /\ run.fence = lease.fence + 1
        /\ run.reconciles = released[i].reconciles /\ run.snapshot = released[i].snapshot
    <3>. HIDE DEF released
    <3>. QED
      BY <1>2 DEF Resync
  <2>. HIDE DEF run
  <2>3. run.reconciles = resync[i].reconciles /\ run.snapshot = resync[i].snapshot
    BY <1>2, <2>2
  <2>4. \A r \in Rooms : run.snapshot[r].version <= pin[r]
    BY <2>3 DEF SheetOK, NotAhead
  <2>. HIDE DEF released, begun, First
  <2>. QED
    BY <1>5, <1>6, <2>1, <2>2, <2>3, <2>4
<1>7. ASSUME NEW i \in Runs, First(i), MayRecover(i, released[i]), Take("blocked"),
             resync' = [released EXCEPT ![i] =
               Ended([resync[i] EXCEPT !.fence = lease.fence + 1], "blocked")],
             worker' = worker
      PROVE  SheetOK' /\ Visible
  <2>. DEFINE base == [resync[i] EXCEPT !.fence = lease.fence + 1]
              run == Ended(base, "blocked")
  <2>1. base \in Resync /\ base.fence = lease.fence + 1 /\ base.reconciles = resync[i].reconciles
    <3>1. resync[i] \in Resync /\ lease.fence + 1 \in 0 .. MaxFence
      BY <1>7, TakeIs DEF IInv, Types, QueueTypes, RunTypes
    <3>. QED
      BY <3>1 DEF Resync
  <2>. HIDE DEF base
  <2>2. "blocked" \in {"succeeded", "blocked", "superseded"}
    OBVIOUS
  <2>3. run.status = "blocked" /\ run.fence = lease.fence + 1 /\ run.reconciles = resync[i].reconciles
    BY <2>1, <2>2, EndedIs
  <2>4. \A r \in Rooms : run.snapshot[r].version <= pin[r]
    BY <2>2, EndedShows, Bounds DEF IInv, Types, DomainTypes
  <2>5. resync' = [released EXCEPT ![i] = run]
    BY <1>7 DEF base
  <2>. HIDE DEF run, released, begun, First
  <2>. QED
    BY <1>5, <1>7, <2>3, <2>4, <2>5
<1>8. \/ Uncertain /\ resync' = UncertainRunsBlocked /\ lease' = Blocked /\ UNCHANGED <<lapsed, worker>>
      \/ /\ resync' = released /\ lease' = lease /\ lapsed' = lapsed
         /\ Go(w, "probed") \/ UNCHANGED worker
      \/ \E i \in Runs :
           /\ First(i) /\ MayRecover(i, released[i])
           /\ \/ /\ Take("leased")
                 /\ resync' = [released EXCEPT ![i].status = "processing", ![i].fence = lease.fence + 1]
                 /\ worker' = [worker EXCEPT ![w] = begun(i)]
              \/ /\ Take("blocked")
                 /\ resync' = [released EXCEPT ![i] =
                      Ended([resync[i] EXCEPT !.fence = lease.fence + 1], "blocked")]
                 /\ worker' = worker
  BY ZenonT(60) DEF ProbeResync
<1>. HIDE DEF released, begun, First
<1>. QED
  BY <1>3, <1>4, <1>6, <1>7, <1>8

LEMMA FreshGo ==
  ASSUME IInv, IInv', SheetOK, NEW w \in Workers,
         (\E blocked \in BOOLEAN, clean \in BOOLEAN : HeartbeatNext(w, blocked, clean)) \/ Fail(w)
  PROVE  AllGo
<1>1. Steps(w) /\ ~OverItem(worker'[w])
  BY FreshSteps DEF IInv, Types
<1>. QED
  BY <1>1, IdlerGo

\* To the end of a board, with what the run believes of it.
LEMMA ClosingGo ==
  ASSUME IInv, IInv', SheetOK, NEW w \in Workers, worker[w].at \in {"board", "paint"},
         NEW out \in Outs, NEW again \in BOOLEAN,
         Becomes(w, [worker[w] EXCEPT !.at = "close", !.out = out, !.again = again]),
         out = "succeeded" => \A r \in Rooms : ShownNext(r, worker[w].copy[r])
  PROVE  /\ AllGo
         /\ \/ worker'[w] = Idle
            \/ worker'[w].at = "close" /\ worker'[w].out = out /\ worker'[w].todo = worker[w].todo
         /\ \A v \in Workers \ {w} : worker'[v] = worker[v]
<1>. DEFINE next == [worker[w] EXCEPT !.at = "close", !.out = out, !.again = again]
<1>1. worker[w] \in Worker
  BY DEF IInv, Types, WorkerTypes
<1>2. /\ next.at = "close" /\ next.out = out /\ next.fence = worker[w].fence
      /\ next.todo = worker[w].todo /\ next.run = worker[w].run /\ next.copy = worker[w].copy
  BY <1>1 DEF Worker
<1>3. Becomes(w, next)
  OBVIOUS
<1>. HIDE DEF next
<1>4. worker'[w] \in {Idle, next} /\ \A v \in Workers \ {w} : worker'[v] = worker[v]
  BY <1>3, EitherWay DEF IInv, Types
<1>5. OnWithBoard(next, worker[w])
  BY <1>2 DEF OnWithBoard
<1>6. OnWithRows(Idle, worker[w])
  BY IdleFollows, IdleIs DEF OnWithRows
<1>7. AllGo
  BY <1>4, <1>5, <1>6, OneGoes DEF SheetOK, Goes
<1>. QED
  BY <1>2, <1>4, <1>7

\* The full resync in process is over, or blocked with the queue.
LEMMA RunOverSheet ==
  ASSUME IInv, IInv', SheetOK, NEW i \in Runs, resync[i].status = "processing",
         NEW s \in {"superseded", "blocked"}, resync' = [resync EXCEPT ![i] = Ended(resync[i], s)],
         \/ s = "blocked" /\ lease' = Blocked
         \/ lease' = lease /\ ClosedBy(resync[i].fence),
         pin' = pin, row' = row, lapsed' = lapsed, UNCHANGED sheet, AllGo
  PROVE  SheetOK' /\ Visible
<1>1. lease.status = "leased" /\ resync[i].fence = lease.fence
  BY DEF IInv, QueueOK, Running
<1>2. resync'[i] = Ended(resync[i], s) /\ \A j \in Runs \ {i} : resync'[j] = resync[j]
  BY DEF IInv, Types, QueueTypes, RunTypes
<1>3. resync'[i].status = s /\ resync'[i].reconciles = resync[i].reconciles
  <2>1. s \in {"succeeded", "blocked", "superseded"} /\ resync[i] \in Resync
    BY DEF IInv, Types, QueueTypes, RunTypes
  <2>2. Ended(resync[i], s).status = s /\ Ended(resync[i], s).reconciles = resync[i].reconciles
    BY <2>1, EndedIs
  <2>. QED
    BY <1>2, <2>2
<1>4. \A j \in Runs, r \in Rooms : resync'[j].snapshot[r].version <= pin[r]
  <2>1. \A r \in Rooms : Ended(resync[i], s).snapshot[r].version = 0 /\ 0 <= pin[r]
    BY EndedShows, Bounds DEF IInv, Types, DomainTypes
  <2>. QED
    BY <1>2, <2>1 DEF SheetOK, NotAhead
<1>5. \/ lease'.status = "blocked" /\ lease'.fence = lease.fence
      \/ lease' = lease /\ ClosedBy(lease.fence)
  BY <1>1, LeaseIs DEF IInv, Types
<1>6. LeaseKept
  BY <1>1, <1>2, <1>3, <1>5, AskedStays, SameLeaseKeeps
<1>7. RunMarksKept /\ RunsKept
  BY <1>1, <1>2, <1>3, <1>5 DEF RunMarksKept, RunsKept, Marked, Claimed, BlockedAt
<1>. QED
  BY <1>2, <1>3, <1>4, <1>6, <1>7, RunStep

LEMMA AuthoriseBoardSheet ==
  ASSUME IInv, IInv', SheetOK, NEW w \in Workers, AuthoriseBoard(w)
  PROVE  SheetOK' /\ Visible
<1>1. /\ pin' = pin /\ row' = row /\ lapsed' = lapsed /\ UNCHANGED sheet /\ worker[w].at = "board"
  BY DEF AuthoriseBoard, domain
<1>2. PICK i \in Runs, f \in Fences : i = worker[w].run /\ f = worker[w].fence
  BY <1>1, Busy DEF IInv, Types
<1>. DEFINE Unheard == \E out \in {"retryable", "blocked"} : CloseWith(w, out)
<1>3. ASSUME Unheard
      PROVE  AllGo
  <2>1. PICK out \in {"retryable", "blocked"} :
          Becomes(w, [worker[w] EXCEPT !.at = "close", !.out = out, !.again = TRUE])
    BY <1>3 DEF CloseWith
  <2>2. out \in Outs /\ out # "succeeded" /\ TRUE \in BOOLEAN
    BY DEF Outs
  <2>. QED
    BY <1>1, <2>1, <2>2, ClosingGo
<1>4. CASE Unheard /\ resync' = resync /\ lease' = lease
  BY <1>1, <1>3, <1>4, QuietSheet DEF queue
<1>5. CASE /\ MyRun(w) /\ resync[i].snapshot = Current
           /\ \E covers : resync' = [resync EXCEPT ![i].started = TRUE, ![i].covers = covers]
           /\ lease' = lease
           /\ Go(w, "paint") \/ Unheard
  <2>1. PICK covers : resync' = [resync EXCEPT ![i].started = TRUE, ![i].covers = covers]
    BY <1>5
  <2>2. /\ resync'[i].status = resync[i].status /\ resync'[i].fence = resync[i].fence
        /\ resync'[i].started = TRUE /\ resync'[i].snapshot = resync[i].snapshot
        /\ resync'[i].reconciles = resync[i].reconciles
        /\ \A j \in Runs \ {i} : resync'[j] = resync[j]
    BY <2>1 DEF IInv, Types, QueueTypes, RunTypes, Resync
  <2>3. RunMarksKept /\ RunsKept /\ LeaseKept
    <3>1. \A g \in Fences : RecoveryAsked(g) => RecoveryAsked(g)'
      BY <2>2 DEF RecoveryAsked
    <3>2. LeaseKept
      BY <1>1, <1>5, <3>1, SameLeaseKeeps
    <3>3. RunsKept
      <4>1. SUFFICES ASSUME NEW j \in Runs, NEW g \in Fences, Claimed(resync'[j], g)
                     PROVE  Claimed(resync[j], g) /\ resync'[j].snapshot = resync[j].snapshot
        BY DEF RunsKept
      <4>. QED
        BY <2>2, <4>1 DEF Claimed
    <3>. QED
      BY <2>2, <3>2, <3>3 DEF RunMarksKept, Marked, Claimed
  <2>4. ASSUME Go(w, "paint")
        PROVE  AllGo
    <3>. DEFINE next == [worker[w] EXCEPT !.at = "paint"]
    <3>1. /\ next.at = "paint" /\ next.fence = f /\ next.todo = worker[w].todo
          /\ next.run = i /\ next.copy = worker[w].copy
      BY <1>2 DEF IInv, Types, WorkerTypes, Worker
    <3>2. Becomes(w, next)
      BY <2>4 DEF Go
    <3>. HIDE DEF next
    <3>3. worker'[w] \in {Idle, next} /\ \A v \in Workers \ {w} : worker'[v] = worker[v]
      BY <3>2, EitherWay DEF IInv, Types
    <3>4. Claimed(resync[i], f)
      BY <1>2, <1>5 DEF MyRun
    <3>5. \A r \in Rooms : worker[w].copy[r] = pin'[r]
      <4>1. \A r \in Rooms : worker[w].copy[r] = resync[i].snapshot[r].version
        BY <1>1, <1>2, <3>4 DEF SheetOK, Steady, Copied
      <4>2. \A r \in Rooms : Current[r].version = pin[r]
        BY DEF Current
      <4>. QED
        BY <1>1, <1>5, <4>1, <4>2
    <3>6. Marked(resync'[i], f)
      BY <2>2, <3>4 DEF Marked, Claimed
    <3>7. OnWithBoard(next, worker[w])
      BY <1>1, <1>2, <3>1, <3>5, <3>6 DEF OnWithBoard
    <3>8. OnWithRows(Idle, worker[w])
      BY IdleFollows, IdleIs DEF OnWithRows
    <3>. QED
      BY <3>3, <3>7, <3>8, OneGoes DEF SheetOK, Goes
  <2>5. \A j \in Runs, r \in Rooms : resync'[j].snapshot[r].version <= pin[r]
    BY <2>2 DEF SheetOK, NotAhead
  <2>6. AllGo
    BY <1>3, <1>5, <2>4
  <2>. QED
    BY <1>1, <2>2, <2>3, <2>5, <2>6, RunStep
<1>6. ASSUME MyRun(w), NEW s \in {"superseded", "blocked"},
             resync' = [resync EXCEPT ![i] = Ended(resync[i], s)],
             (s = "superseded" /\ lease' = lease) \/ (s = "blocked" /\ lease' = Blocked),
             HeartbeatNext(w, FALSE, TRUE) \/ HeartbeatNext(w, TRUE, FALSE) \/ Unheard
      PROVE  SheetOK' /\ Visible
  <2>1. resync[i].status = "processing" /\ resync[i].fence = f
    BY <1>2, <1>6 DEF MyRun, Claimed
  <2>2. ClosedBy(f)
    BY <1>1, <1>2 DEF ClosedBy
  <2>3. AllGo
    BY <1>3, <1>6, FreshGo
  <2>. QED
    BY <1>1, <1>6, <2>1, <2>2, <2>3, RunOverSheet
<1>7. \/ Unheard /\ resync' = resync /\ lease' = lease
      \/ /\ MyRun(w)
         /\ \/ /\ resync[i].snapshot = Current
               /\ \E covers : resync' = [resync EXCEPT ![i].started = TRUE, ![i].covers = covers]
               /\ lease' = lease
               /\ Go(w, "paint") \/ Unheard
            \/ /\ resync' = [resync EXCEPT ![i] = Ended(resync[i], "superseded")] /\ lease' = lease
               /\ HeartbeatNext(w, FALSE, TRUE) \/ Unheard
            \/ /\ resync' = [resync EXCEPT ![i] = Ended(resync[i], "blocked")] /\ lease' = Blocked
               /\ HeartbeatNext(w, TRUE, FALSE) \/ Unheard
  BY <1>2, ZenonT(60) DEF AuthoriseBoard
<1>. HIDE DEF Unheard
<1>. QED
  BY <1>4, <1>5, <1>6, <1>7

LEMMA BlockBoardSheet ==
  ASSUME IInv, IInv', SheetOK, NEW w \in Workers, BlockBoard(w)
  PROVE  SheetOK' /\ Visible
<1>1. /\ pin' = pin /\ row' = row /\ lapsed' = lapsed /\ UNCHANGED sheet /\ worker[w].at = "block"
  BY DEF BlockBoard, domain
<1>2. PICK i \in Runs : i = worker[w].run
  BY <1>1, Busy DEF IInv, Types
<1>3. AllGo
  BY FreshGo DEF BlockBoard
<1>4. CASE resync' = resync /\ lease' = lease
  BY <1>1, <1>3, <1>4, QuietSheet DEF queue
<1>5. CASE /\ Marked(resync[i], worker[w].fence)
           /\ resync' = [resync EXCEPT ![i] = Ended(resync[i], "blocked")] /\ lease' = Blocked
  BY <1>1, <1>3, <1>5, RunOverSheet DEF Marked, Claimed
<1>. QED
  BY <1>2, <1>4, <1>5 DEF BlockBoard

LEMMA RequestSheet ==
  ASSUME IInv, IInv', SheetOK, NEW i \in Runs, RequestResync(i)
  PROVE  SheetOK' /\ Visible
<1>. DEFINE after == IF Uncertain THEN UncertainRunsBlocked ELSE resync
            blocked == lease.status = "blocked" \/ Uncertain
            origin == {j \in Runs : after[j].status = "blocked" /\ after[j].fence = lease.fence}
            standing == [j \in Runs |-> IF blocked /\ after[j].status \in {"pending", "failed"}
                                        THEN Ended(after[j], "superseded") ELSE after[j]]
            asked == [NoResync EXCEPT
                        !.status = "pending", !.snapshot = Current,
                        !.reconciles = IF blocked THEN lease.fence ELSE 0,
                        !.root = IF blocked /\ origin # {} THEN after[CHOOSE j \in origin : TRUE].root ELSE i]
<1>1. /\ row' = row /\ pin' = pin /\ worker' = worker /\ lapsed' = lapsed /\ ~LeaseUp
      /\ UNCHANGED sheet /\ resync[i].status = "none"
      /\ MayAsk(after, blocked)
      /\ lease' = IF blocked THEN Blocked ELSE [lease EXCEPT !.status = "idle"]
      /\ resync' = [standing EXCEPT ![i] = asked]
  BY DEF RequestResync, domain
<1>2. /\ lease'.fence = lease.fence
      /\ lease'.status = IF blocked THEN "blocked" ELSE "idle"
  BY <1>1, LeaseIs DEF IInv, Types
<1>3. ASSUME NEW j \in Runs
      PROVE  /\ after[j] \in Resync /\ after[j].reconciles = resync[j].reconciles
             /\ after[j] = resync[j] \/ after[j] = Ended(resync[j], "blocked")
             /\ ~(after[j].status = "processing" /\ blocked)
  <2>1. CASE Uncertain
    <3>1. after[j] = UncertainRunsBlocked[j]
      BY <2>1
    <3>2. after[j] = resync[j] \/ after[j] = Ended(resync[j], "blocked")
      BY <3>1 DEF UncertainRunsBlocked
    <3>3. /\ after[j] \in Resync /\ after[j].reconciles = resync[j].reconciles
          /\ after[j].status # "processing"
      BY <2>1, <3>1, UncertainEnds DEF IInv, Types
    <3>. QED
      BY <3>2, <3>3
  <2>2. CASE ~Uncertain
    BY <2>2 DEF IInv, Types, QueueTypes, RunTypes, QueueOK, Running
  <2>. QED
    BY <2>1, <2>2
<1>4. ASSUME NEW j \in Runs \ {i}
      PROVE  /\ resync'[j].status # "processing" /\ resync'[j].reconciles = resync[j].reconciles
             /\ resync'[j].status = "succeeded" => resync[j].status = "succeeded"
             /\ \A r \in Rooms : resync'[j].snapshot[r].version <= pin[r]
  <2>. DEFINE over == blocked /\ after[j].status \in {"pending", "failed"}
  <2>1. /\ over => resync'[j] = Ended(after[j], "superseded")
        /\ ~over => resync'[j] = after[j]
    BY <1>1
  <2>2. ~over => after[j].status # "processing"
    BY <1>1, <1>3 DEF MayAsk, Unsettled
  <2>. HIDE DEF over, after, blocked, standing, asked, origin
  <2>3. /\ Ended(after[j], "superseded").status = "superseded"
        /\ Ended(after[j], "superseded").reconciles = resync[j].reconciles
        /\ Ended(resync[j], "blocked").status = "blocked"
    <3>1. /\ {"superseded", "blocked"} \subseteq {"succeeded", "blocked", "superseded"}
          /\ resync[j] \in Resync
      BY DEF IInv, Types, QueueTypes, RunTypes
    <3>2. Ended(resync[j], "blocked").status = "blocked"
      BY <3>1, EndedIs
    <3>3. /\ Ended(after[j], "superseded").status = "superseded"
          /\ Ended(after[j], "superseded").reconciles = after[j].reconciles
      BY <1>3, <3>1, EndedIs
    <3>. QED
      BY <1>3, <3>2, <3>3
  <2>4. ASSUME NEW r \in Rooms
        PROVE  resync'[j].snapshot[r].version <= pin[r]
    <3>1. /\ Ended(after[j], "superseded").snapshot[r].version = 0
          /\ Ended(resync[j], "blocked").snapshot[r].version = 0 /\ 0 <= pin[r]
      BY EndedShows, Bounds DEF IInv, Types, DomainTypes
    <3>2. resync[j].snapshot[r].version <= pin[r]
      BY DEF SheetOK, NotAhead
    <3>. QED
      BY <1>3, <2>1, <3>1, <3>2
  <2>. QED
    BY <1>3, <2>1, <2>2, <2>3, <2>4
<1>5. /\ resync'[i].status = "pending" /\ \A r \in Rooms : resync'[i].snapshot[r].version <= pin[r]
  <2>1. resync'[i] = asked
    BY <1>1
  <2>. DEFINE made(f, o) == [NoResync EXCEPT !.status = "pending", !.snapshot = Current,
                                             !.reconciles = f, !.root = o]
  <2>2. \A f, o : made(f, o).status = "pending" /\ made(f, o).snapshot = Current
    BY DEF NoResync
  <2>3. \E f, o : resync'[i] = made(f, o)
    BY <2>1
  <2>. HIDE DEF made, after, blocked, standing, asked, origin
  <2>4. resync'[i].status = "pending" /\ resync'[i].snapshot = Current
    BY <2>2, <2>3
  <2>5. \A r \in Rooms : Current[r].version = pin[r] /\ pin[r] \in Nat
    BY Bounds DEF Current, IInv, Types, DomainTypes
  <2>. QED
    BY <2>4, <2>5
<1>6. LeaseKept
  <2>1. \A j \in Runs : resync[j].status # "none" => resync'[j].reconciles = resync[j].reconciles
    BY <1>1, <1>4
  <2>2. /\ lease'.status # "idle" => lease.status # "idle"
        /\ lease'.status # "leased" /\ (lease.status = "blocked" => lease'.status = "blocked")
    BY <1>2 DEF Uncertain
  <2>. HIDE DEF after, blocked, standing, asked, origin
  <2>. QED
    BY <1>1, <1>2, <2>1, <2>2, AskedStays, SameLeaseKeeps
<1>7. RunMarksKept
  <2>1. SUFFICES ASSUME NEW j \in Runs, NEW f \in Fences, Marked(resync[j], f)
                 PROVE  BlockedAt(f)'
    BY DEF RunMarksKept
  <2>2. lease.status = "leased" /\ lease.fence = f
    BY <2>1 DEF IInv, QueueOK, Running, Marked, Claimed
  <2>3. Uncertain
    BY <1>1, <2>1, <2>2 DEF Uncertain, LeaseUp
  <2>. QED
    BY <1>2, <2>2, <2>3 DEF BlockedAt
<1>8. RunsKept
  BY <1>4, <1>5 DEF RunsKept, Claimed
<1>9. AllGo
  BY <1>1, StandingGo DEF SheetOK
<1>10. \A j \in Runs : resync'[j].status = "succeeded" => resync[j].status = "succeeded"
  BY <1>4, <1>5
<1>11. \A j \in Runs, r \in Rooms : resync'[j].snapshot[r].version <= pin[r]
  BY <1>4, <1>5
<1>. QED
  BY <1>1, <1>6, <1>7, <1>8, <1>9, <1>10, <1>11, RunStep

\* A board that was written supersedes what it shows, and nobody has that in hand.
LEMMA WrittenSheet ==
  ASSUME IInv, IInv', SheetOK, NEW w \in Workers, worker[w].at = "close", worker[w].out = "succeeded",
         NEW i \in Runs, i = worker[w].run, MyRun(w), Live(worker[w].fence), CloseRun(i, "succeeded"),
         (\E blocked \in BOOLEAN, clean \in BOOLEAN : HeartbeatNext(w, blocked, clean)) \/ Fail(w)
           \/ Go(w, "block"),
         AllGo, Entries, pin' = pin, lapsed' = lapsed, board' = board, stray' = stray, waived' = waived
  PROVE  SheetOK' /\ Visible
<1>. DEFINE chain(j) == /\ j < i /\ resync[j].status = "blocked"
                        /\ resync[i].reconciles # 0 /\ resync[j].root = resync[i].root
            late == {k \in resync[i].covers : row[k].status \in Unsettled
                                                /\ k.version > resync[i].snapshot[k.room].version}
<1>1. /\ row' = [k \in Keys |-> IF Repaired(i, k) THEN Settled("superseded") ELSE row[k]]
      /\ resync' = [j \in Runs |-> IF j = i THEN Ended(resync[i], "succeeded")
                                   ELSE IF chain(j) THEN Ended(resync[j], "superseded") ELSE resync[j]]
      /\ excused' = excused \cup {k.room : k \in late}
      /\ lease' = lease
  BY DEF CloseRun
<1>2. PICK f \in Fences : f = worker[w].fence
  BY Busy DEF IInv, Types
<1>3. /\ resync[i].status = "processing" /\ resync[i].fence = f /\ lease.fence = f
      /\ lease.status = "leased"
  BY <1>2 DEF MyRun, Claimed, Live, LeaseUp
<1>4. \A r \in Rooms : Shown(r, resync[i].snapshot[r].version)
  BY <1>2, <1>3 DEF SheetOK, Steady, Truthful, Copied, Claimed
<1>5. ASSUME NEW k \in Keys
      PROVE  /\ Repaired(i, k) => row'[k].status = "superseded"
             /\ ~Repaired(i, k) => row'[k] = row[k]
  BY <1>1, SettledIs DEF RowStatus
<1>6. ASSUME NEW j \in Runs
      PROVE  /\ j = i => resync'[j].status = "succeeded"
             /\ j # i => resync'[j] = resync[j] \/ (resync[j].status = "blocked" /\ resync'[j].status = "superseded")
             /\ resync'[j].reconciles = resync[j].reconciles
             /\ \A r \in Rooms : resync'[j].snapshot[r].version <= pin[r]
  <2>1. /\ j = i => resync'[j] = Ended(resync[j], "succeeded")
        /\ j # i => \/ resync'[j] = resync[j]
                    \/ resync[j].status = "blocked" /\ resync'[j] = Ended(resync[j], "superseded")
    BY <1>1
  <2>2. ASSUME NEW s \in {"succeeded", "superseded"}
        PROVE  /\ Ended(resync[j], s).status = s /\ Ended(resync[j], s).reconciles = resync[j].reconciles
               /\ \A r \in Rooms : Ended(resync[j], s).snapshot[r].version = 0
    <3>1. s \in {"succeeded", "blocked", "superseded"} /\ resync[j] \in Resync
      BY DEF IInv, Types, QueueTypes, RunTypes
    <3>2. Ended(resync[j], s).status = s /\ Ended(resync[j], s).reconciles = resync[j].reconciles
      BY <3>1, EndedIs
    <3>. QED
      BY <3>1, <3>2, EndedShows
  <2>3. \A r \in Rooms : 0 <= pin[r] /\ resync[j].snapshot[r].version <= pin[r]
    BY Bounds DEF IInv, Types, DomainTypes, SheetOK, NotAhead
  <2>. HIDE DEF chain
  <2>. QED
    BY <2>1, <2>2, <2>3
<1>7. LeaseKept
  BY <1>1, <1>6, AskedStays, SameLeaseKeeps
<1>8. RowMarksKept
  <2>1. SUFFICES ASSUME NEW k \in Keys, NEW g \in Fences, Marked(row[k], g)
                 PROVE  Marked(row'[k], g) \/ RecoveryAsked(g)'
    BY DEF RowMarksKept
  <2>2. CASE lease.fence = g
    BY <1>3, <2>1, <2>2 DEF IInv, QueueOK, Apart, Marked, Claimed
  <2>3. CASE lease.fence # g
    <3>1. RecoveryAsked(g)
      BY <2>1, <2>3 DEF IInv, QueueOK, UncertainWritesStop
    <3>. QED
      BY <1>7, <3>1 DEF LeaseKept
  <2>. QED
    BY <2>2, <2>3
<1>9. RunMarksKept /\ RunsKept
  <2>1. ClosedBy(f)
    BY <1>2 DEF ClosedBy
  <2>. QED
    BY <1>3, <1>6, <2>1 DEF RunMarksKept, RunsKept, Marked, Claimed
<1>10. ASSUME NEW r \in Rooms
       PROVE  Freed(r)
  <2>1. /\ \A v \in Workers \ {w} : worker'[v] = worker[v]
        /\ worker'[w].todo = {} /\ worker'[w].at \notin {"authorise", "write", "paint"}
    <3>1. CASE (\E blocked \in BOOLEAN, clean \in BOOLEAN : HeartbeatNext(w, blocked, clean)) \/ Fail(w)
      <4>1. Steps(w) /\ ~OverItem(worker'[w])
        BY <3>1, FreshSteps DEF IInv, Types
      <4>2. worker[w].todo = {}
        BY DEF SheetOK, Steady, Tidy
      <4>. QED
        BY <4>1, <4>2 DEF Steps, Follows, OverItem, BoardAts
    <3>2. CASE Go(w, "block")
      <4>. DEFINE next == [worker[w] EXCEPT !.at = "block"]
      <4>1. next.at = "block" /\ next.todo = worker[w].todo
        BY DEF IInv, Types, WorkerTypes, Worker
      <4>2. worker[w].todo = {}
        BY DEF SheetOK, Steady, Tidy
      <4>3. Becomes(w, next)
        BY <3>2 DEF Go
      <4>. HIDE DEF next
      <4>4. worker'[w] \in {Idle, next} /\ \A v \in Workers \ {w} : worker'[v] = worker[v]
        BY <4>3, EitherWay DEF IInv, Types
      <4>. QED
        BY <4>1, <4>2, <4>4, IdleIs
    <3>. QED
      BY <3>1, <3>2
  <2>2. ASSUME NEW v \in Workers \ {w}, Held(worker[v].fence)'
        PROVE  FALSE
    <3>1. worker[v].fence = f /\ f # 0
      BY <1>1, <1>3, <2>1, <2>2 DEF Held
    <3>. QED
      BY <1>2, <2>2, <3>1 DEF SheetOK, FenceIsOne
  <2>3. ASSUME NEW write \in stray, Held(write.fence)'
        PROVE  FALSE
    <3>1. write.fence = f
      BY <1>1, <1>3, <2>3 DEF Held
    <3>2. Silent(worker[w], DOMAIN write.cells)
      BY <1>2, <3>1 DEF SheetOK, Accounted
    <3>. QED
      BY <3>2 DEF Silent
  <2>. QED
    BY <2>1, <2>2, <2>3 DEF Freed
<1>11. ASSUME NEW r \in Rooms, Due(r)
       PROVE  Due(r)' \/ (Freed(r) /\ ShownNext(r, pin[r]))
  <2>1. PICK k \in Keys : k.room = r /\ k.version = pin[r] /\ row[k].status \in Unsettled
    BY <1>11 DEF Due
  <2>2. CASE ~Repaired(i, k)
    BY <1>5, <2>1, <2>2 DEF Due
  <2>3. CASE Repaired(i, k)
    <3>1. resync[i].snapshot[r].version <= pin[r] /\ resync[i].snapshot[r].version \in Nat /\ pin[r] \in Nat
      <4>1. resync[i].snapshot \in [Rooms -> Snapshot]
        BY RunIs DEF IInv, Types, QueueTypes, RunTypes
      <4>. QED
        BY <4>1, Bounds DEF SheetOK, NotAhead, IInv, Types, DomainTypes, Snapshot
    <3>2. CASE resync[i].snapshot[r].version = pin[r]
      BY <1>1, <1>4, <1>10, <3>2 DEF Shown, ShownNext
    <3>3. CASE resync[i].snapshot[r].version < pin[r]
      <4>1. k \in late
        BY <2>1, <2>3, <3>1, <3>3 DEF Repaired
      <4>2. r \in excused'
        BY <1>1, <2>1, <4>1
      <4>. QED
        BY <1>10, <4>2 DEF ShownNext
    <3>. QED
      BY <3>1, <3>2, <3>3
  <2>. QED
    BY <2>2, <2>3
<1>12. Visible
  <2>1. \A k \in Keys : row'[k].status = "succeeded" => row[k].status = "succeeded"
    BY <1>5
  <2>2. \A j \in Runs : resync[j].status # "succeeded" /\ resync'[j].status = "succeeded" => j = i
    BY <1>6
  <2>3. \A r \in Rooms \ excused : board[r].version = resync[i].snapshot[r].version
    BY <1>4 DEF Shown
  <2>. QED
    BY <2>1, <2>2, <2>3 DEF Visible
<1>13. excused \subseteq excused' /\ \A j \in Runs, r \in Rooms : resync'[j].snapshot[r].version <= pin[r]
  BY <1>1, <1>6
<1>. QED
  BY <1>7, <1>8, <1>9, <1>11, <1>12, <1>13, QueueStep DEF MarksKept

LEMMA CloseSheet ==
  ASSUME IInv, IInv', SheetOK, NEW w \in Workers, CloseBoard(w)
  PROVE  SheetOK' /\ Visible
<1>1. /\ pin' = pin /\ lapsed' = lapsed /\ board' = board /\ stray' = stray /\ waived' = waived
      /\ worker[w].at = "close"
  BY DEF CloseBoard, domain
<1>2. PICK i \in Runs, f \in Fences, out \in Outs :
        i = worker[w].run /\ f = worker[w].fence /\ out = worker[w].out
  BY <1>1, Busy DEF IInv, Types
<1>3. /\ \/ \E blocked \in BOOLEAN, clean \in BOOLEAN : HeartbeatNext(w, blocked, clean)
         \/ Fail(w) \/ Go(w, "block")
      /\ \/ row' = row /\ lease' = lease /\ resync' = resync /\ excused' = excused
         \/ Live(f) /\ MyRun(w) /\ CloseRun(i, out)
  <2>1. (lease'.status = "blocked") \in BOOLEAN /\ (out = "succeeded") \in BOOLEAN
    OBVIOUS
  <2>. QED
    BY <1>2, <2>1 DEF CloseBoard, queue
<1>4. AllGo
  <2>1. ASSUME Go(w, "block")
        PROVE  AllGo
    <3>. DEFINE next == [worker[w] EXCEPT !.at = "block"]
    <3>1. next.at = "block" /\ next.fence = worker[w].fence /\ next.todo = worker[w].todo
      BY DEF IInv, Types, WorkerTypes, Worker
    <3>2. Becomes(w, next)
      BY <2>1 DEF Go
    <3>. HIDE DEF next
    <3>3. worker'[w] \in {Idle, next} /\ \A v \in Workers \ {w} : worker'[v] = worker[v]
      BY <3>2, EitherWay DEF IInv, Types
    <3>4. OnWithBoard(next, worker[w]) /\ OnWithRows(Idle, worker[w])
      BY <3>1, IdleFollows, IdleIs DEF OnWithBoard, OnWithRows
    <3>. QED
      BY <3>3, <3>4, OneGoes DEF SheetOK, Goes
  <2>. QED
    BY <1>3, <2>1, FreshGo
<1>5. CASE row' = row /\ lease' = lease /\ resync' = resync /\ excused' = excused
  BY <1>1, <1>4, <1>5, QuietSheet DEF queue, sheet
<1>6. CASE Live(f) /\ MyRun(w) /\ CloseRun(i, out)
  <2>1. resync[i].status = "processing" /\ resync[i].fence = f
    BY <1>2, <1>6 DEF MyRun, Claimed
  <2>2. CASE out = "succeeded"
    <3>1. Entries
      BY CloseBoardIs DEF IInv, Types
    <3>. QED
      BY <1>1, <1>2, <1>3, <1>4, <1>6, <2>2, <3>1, WrittenSheet
  <2>3. CASE out # "succeeded" /\ resync' = [resync EXCEPT ![i] = Ended(resync[i], "blocked")]
             /\ lease' = Blocked /\ row' = row /\ excused' = excused
    BY <1>1, <1>4, <2>1, <2>3, RunOverSheet DEF sheet
  <2>4. CASE /\ out = "retryable"
             /\ resync' = [resync EXCEPT ![i].status = "failed", ![i].fence = 0, ![i].started = FALSE,
                                         ![i].covers = {}, ![i].retries = @ + 1]
             /\ row' = row /\ lease' = lease /\ excused' = excused
    <3>1. /\ resync'[i].status = "failed" /\ resync'[i].snapshot = resync[i].snapshot
          /\ resync'[i].reconciles = resync[i].reconciles
          /\ \A j \in Runs \ {i} : resync'[j] = resync[j]
      BY <2>4 DEF IInv, Types, QueueTypes, RunTypes, Resync
    <3>2. ClosedBy(f)
      BY <1>1, <1>2, <2>4 DEF ClosedBy
    <3>3. RunMarksKept /\ RunsKept
      BY <2>1, <3>1, <3>2 DEF RunMarksKept, RunsKept, Marked, Claimed
    <3>4. LeaseKept
      BY <1>1, <2>4, <3>1, AskedStays, SameLeaseKeeps
    <3>5. \A j \in Runs, r \in Rooms : resync'[j].snapshot[r].version <= pin[r]
      BY <3>1 DEF SheetOK, NotAhead
    <3>6. \A j \in Runs : resync'[j].status = "succeeded" => resync[j].status = "succeeded"
      BY <3>1
    <3>. QED
      BY <1>1, <1>4, <2>4, <3>3, <3>4, <3>5, <3>6, RunStep DEF sheet
  <2>. QED
    BY <1>6, <2>2, <2>3, <2>4 DEF CloseRun
<1>. QED
  BY <1>3, <1>5, <1>6

(***************************************************************************)
(* The writes of the sheet                                                 *)
(***************************************************************************)
LEMMA SheetWriteSays ==
  ASSUME NEW w \in Workers, NEW cells, NEW at, SheetWrite(w, cells, at)
  PROVE  \E out \in Outs, again \in BOOLEAN :
           /\ Becomes(w, [worker[w] EXCEPT !.at = at, !.out = out, !.again = again])
           /\ \/ Shows(worker[w].fence, cells)
              \/ board' = board /\ excused' = excused /\ out \notin Believed
           /\ \/ stray' = stray
              \/ out = "blocked" /\ stray' = stray \cup {[fence |-> worker[w].fence, cells |-> cells]}
           /\ waived' = waived
<1>1. PICK reply \in Replies, applied \in BOOLEAN :
        /\ reply = "ok" => applied
        /\ IF applied THEN Shows(worker[w].fence, cells) ELSE UNCHANGED <<board, excused>>
        /\ \/ stray' = stray
           \/ /\ reply = "silence"
              /\ stray' = stray \cup {[fence |-> worker[w].fence, cells |-> cells]}
        /\ waived' = waived
        /\ Becomes(w, [worker[w] EXCEPT !.at = at, !.out = OutcomeOf(reply), !.again = reply # "ok"])
  BY DEF SheetWrite
<1>2. /\ OutcomeOf(reply) \in Outs /\ (reply # "ok") \in BOOLEAN
      /\ OutcomeOf(reply) \in Believed => reply = "ok"
      /\ reply = "silence" => OutcomeOf(reply) = "blocked"
  BY DEF OutcomeOf, Outs, Believed
<1>. QED
  BY <1>1, <1>2

\* A write whose fence is backed owes what it overwrites, and is told apart from
\* what is about to be recorded.
LEMMA ShowsOwed ==
  ASSUME IInv, SheetOK, UNCHANGED <<pin, queue>>,
         NEW f \in Fences, NEW cells, DOMAIN cells \subseteq Rooms, Shows(f, cells),
         \/ \E k \in Keys : Marked(row[k], f)
         \/ \E i \in Runs : Marked(resync[i], f)
         \/ BlockedAt(f) \/ RecoveryAsked(f) \/ f \in waived,
         Held(f) => \A r \in DOMAIN cells : cells[r].version = pin[r] \/ Due(r),
         Live(f) => \A r \in DOMAIN cells : Unsaid(r)
  PROVE  EveryPinIsOwed' /\ ShownKept
<1>1. /\ pin' = pin /\ row' = row
      /\ \A r \in Rooms : board'[r] = IF r \in DOMAIN cells THEN cells[r] ELSE board[r]
      /\ excused' = IF Live(f) THEN excused \ DOMAIN cells
                    ELSE IF RecoveryAsked(f) \/ f \in waived THEN excused \cup DOMAIN cells ELSE excused
  BY DEF Shows, queue
<1>2. \/ Held(f)
      \/ ~Live(f) /\ (RecoveryAsked(f) \/ f \in waived)
  <2>1. f # 0
    BY Bounds DEF Fences
  <2>2. Live(f) => Held(f)
    BY <2>1 DEF Live, LeaseUp, Held
  <2>3. BlockedAt(f) => Held(f)
    BY <2>1 DEF BlockedAt, Held
  <2>4. (\E k \in Keys : Marked(row[k], f)) \/ (\E i \in Runs : Marked(resync[i], f)) =>
          Held(f) \/ RecoveryAsked(f)
    BY <2>1 DEF IInv, QueueOK, UncertainWritesStop, Held
  <2>. QED
    BY <2>2, <2>3, <2>4
<1>3. EveryPinIsOwed'
  <2>1. SUFFICES ASSUME NEW r \in Rooms, r \notin excused', board'[r].version # pin[r]
                 PROVE  Due(r)
    BY <1>1 DEF EveryPinIsOwed, Due
  <2>2. CASE r \in DOMAIN cells
    BY <1>1, <1>2, <2>1, <2>2
  <2>3. CASE r \notin DOMAIN cells
    BY <1>1, <2>1, <2>3 DEF SheetOK, EveryPinIsOwed, Due
  <2>. QED
    BY <2>2, <2>3
<1>4. ShownKept
  <2>1. SUFFICES ASSUME NEW r \in Rooms, NEW v, Shown(r, v), r \in DOMAIN cells, r \notin excused'
                 PROVE  Unsaid(r)
    BY <1>1 DEF ShownKept, Shown
  <2>2. CASE Live(f)
    BY <2>1, <2>2
  <2>3. CASE ~Live(f)
    <3>1. Held(f)
      BY <1>1, <1>2, <2>1, <2>3
    <3>2. ~LeaseUp
      BY <2>3, <3>1 DEF Live, Held
    <3>. QED
      BY <3>2 DEF Unsaid, Live
  <2>. QED
    BY <2>2, <2>3
<1>. QED
  BY <1>3, <1>4

\* The only run that is about to record anything under a fence is the fence's own.
LEMMA OwnerUnsaid ==
  ASSUME SheetOK, NEW w \in Workers, worker[w].at \in {"write", "paint"}, worker[w].fence # 0,
         Live(worker[w].fence), NEW r
  PROVE  Unsaid(r)
<1>1. ASSUME NEW v \in Workers, Live(worker[v].fence)
      PROVE  v = w
  BY <1>1 DEF Live, SheetOK, FenceIsOne
<1>. QED
  BY <1>1 DEF Unsaid

LEMMA WritingStep ==
  ASSUME IInv, IInv', SheetOK, UNCHANGED <<pin, queue>>, lapsed' = lapsed, waived' = waived,
         EveryPinIsOwed', ShownKept, AllGo,
         \A write \in stray' : write \in stray \/
           (write.fence <= lease.fence /\ Accounted(write)')
  PROVE  SheetOK' /\ Visible
<1>1. row' = row /\ lease' = lease /\ resync' = resync /\ pin' = pin
  BY DEF queue
<1>2. LeaseKept /\ MarksKept /\ RunsKept /\ DuesKept
  BY <1>1, SameRowsKeep, SameRunsKeep, SameLeaseKeeps DEF MarksKept
<1>3. NotAhead'
  BY <1>1, SameNotAhead DEF SheetOK
<1>. QED
  BY <1>1, <1>2, <1>3, SheetStep DEF Visible

LEMMA LandSheet ==
  ASSUME IInv, IInv', SheetOK, NEW write \in stray, Land(write)
  PROVE  SheetOK' /\ Visible
<1>1. /\ UNCHANGED <<pin, queue>> /\ lapsed' = lapsed /\ waived' = waived /\ worker' = worker
      /\ stray' \subseteq stray /\ Shows(write.fence, write.cells)
  BY DEF Land, domain
<1>2. PICK f \in Fences : f = write.fence
  BY DEF IInv, Types, Strays
<1>3. /\ DOMAIN write.cells \subseteq Rooms
      /\ Accounted(write)
  BY DEF IInv, Types, Strays, Cells, SheetOK
<1>4. ASSUME Live(f), NEW r \in DOMAIN write.cells
      PROVE  Unsaid(r)
  <2>1. SUFFICES ASSUME NEW v \in Workers, Live(worker[v].fence)
                 PROVE  /\ worker[v].at = "settle" /\ worker[v].out \in Believed => worker[v].item.room # r
                        /\ ~(worker[v].at = "close" /\ worker[v].out = "succeeded")
    BY DEF Unsaid
  <2>2. worker[v].fence = f
    BY <1>4, <2>1 DEF Live
  <2>3. Silent(worker[v], DOMAIN write.cells)
    BY <1>2, <1>3, <2>2 DEF Accounted
  <2>. QED
    BY <1>4, <2>3 DEF Silent, OverItem, Believed
<1>5. EveryPinIsOwed' /\ ShownKept
  <2>1. \/ \E k \in Keys : Marked(row[k], f)
        \/ \E i \in Runs : Marked(resync[i], f)
        \/ BlockedAt(f) \/ RecoveryAsked(f) \/ f \in waived
    BY <1>2, <1>3 DEF Accounted, Backed
  <2>2. Held(f) => \A r \in DOMAIN write.cells : write.cells[r].version = pin[r] \/ Due(r)
    BY <1>2, <1>3 DEF Accounted
  <2>. QED
    BY <1>1, <1>2, <1>3, <1>4, <2>1, <2>2, ShowsOwed
<1>6. AllGo
  BY <1>1, StandingGo DEF SheetOK
<1>. QED
  BY <1>1, <1>5, <1>6, WritingStep

LEMMA WriteSheet ==
  ASSUME IInv, IInv', SheetOK, NEW w \in Workers, Write(w)
  PROVE  SheetOK' /\ Visible
<1>1. UNCHANGED <<pin, queue>> /\ lapsed' = lapsed /\ worker[w].at = "write"
  BY DEF Write, domain
<1>2. PICK k \in Keys, f \in Fences : k = worker[w].item /\ f = worker[w].fence
  BY <1>1, Busy DEF IInv, Types
<1>. DEFINE cells == [r \in {k.room} |-> [version |-> k.version, by |-> k.reason]]
<1>3. DOMAIN cells = {k.room} /\ cells[k.room].version = k.version /\ k.room \in Rooms
  BY DEF Keys
<1>4. SheetWrite(w, cells, "settle")
  BY <1>2 DEF Write
<1>. HIDE DEF cells
<1>5. PICK out \in Outs, again \in BOOLEAN :
        /\ Becomes(w, [worker[w] EXCEPT !.at = "settle", !.out = out, !.again = again])
        /\ \/ Shows(f, cells)
           \/ board' = board /\ excused' = excused /\ out \notin Believed
        /\ \/ stray' = stray
           \/ out = "blocked" /\ stray' = stray \cup {[fence |-> f, cells |-> cells]}
        /\ waived' = waived
  BY <1>2, <1>4, SheetWriteSays
<1>6. /\ Steps(w)
      /\ \/ ~OverItem(worker'[w]) /\ worker'[w].fence = 0
         \/ /\ worker'[w].at = "settle" /\ worker'[w].out = out /\ worker'[w].item = k
            /\ worker'[w].todo = worker[w].todo
  BY <1>1, <1>2, <1>5, GoesOnSteps DEF IInv, Types
<1>7. /\ Marked(row[k], f) \/ RecoveryAsked(f)
      /\ Held(f) => Due(k.room)
      /\ \A j \in worker[w].todo : j.room # k.room
      /\ f <= lease.fence /\ f # 0
  BY <1>1, <1>2, Bounds DEF SheetOK, Steady, Warranted, Useful, Tidy, OverItem, Behind, Fences
<1>8. EveryPinIsOwed' /\ ShownKept
  <2>1. CASE board' = board /\ excused' = excused
    <3>1. row' = row /\ pin' = pin
      BY <1>1 DEF queue
    <3>. QED
      BY <2>1, <3>1, ShownStays, SameRowsKeep, OwedStays DEF SheetOK
  <2>2. CASE Shows(f, cells)
    <3>1. Live(f) => \A r \in DOMAIN cells : Unsaid(r)
      BY <1>1, <1>2, <1>7, OwnerUnsaid
    <3>. QED
      BY <1>1, <1>3, <1>7, <2>2, <3>1, ShowsOwed
  <2>. QED
    BY <1>5, <2>1, <2>2
<1>9. AllGo
  <2>1. worker'[w].at # "write"
    BY <1>6 DEF OverItem
  <2>2. ASSUME out \in Believed
        PROVE  ShownNext(k.room, k.version)
    <3>1. board'[k.room] = cells[k.room]
      BY <1>3, <1>5, <2>2 DEF Shows
    <3>. QED
      BY <1>3, <3>1 DEF ShownNext
  <2>. QED
    BY <1>6, <2>1, <2>2, RowsGo DEF SheetOK, OverItem
<1>10. ASSUME NEW write \in stray'
       PROVE  write \in stray \/ (write.fence <= lease.fence /\ Accounted(write)')
  <2>1. SUFFICES ASSUME write = [fence |-> f, cells |-> cells], out = "blocked"
                 PROVE  Accounted(write)'
    BY <1>5, <1>7, <1>10
  <2>2. write.fence = f /\ write.cells = cells
    BY <2>1
  <2>3. row' = row /\ lease' = lease /\ resync' = resync /\ pin' = pin
    BY <1>1 DEF queue
  <2>4. Backed(write)'
    BY <1>3, <1>7, <2>2, <2>3 DEF Backed, RecoveryAsked
  <2>5. ASSUME Held(f)', NEW r \in DOMAIN cells
        PROVE  Due(r)'
    BY <1>3, <1>7, <2>3, <2>5 DEF Held, Due
  <2>6. ASSUME NEW v \in Workers, worker'[v].fence = f
        PROVE  Silent(worker'[v], DOMAIN cells)
    <3>1. CASE v = w
      BY <1>3, <1>6, <1>7, <2>1, <2>6, <3>1 DEF Silent, OverItem
    <3>2. CASE v # w
      <4>1. worker'[v] = worker[v]
        BY <1>6, <3>2 DEF Steps
      <4>. QED
        BY <1>2, <1>7, <2>6, <3>2, <4>1 DEF SheetOK, FenceIsOne
    <3>. QED
      BY <3>1, <3>2
  <2>. QED
    BY <2>2, <2>4, <2>5, <2>6 DEF Accounted
<1>. QED
  BY <1>1, <1>5, <1>8, <1>9, <1>10, WritingStep

LEMMA WriteBoardSheet ==
  ASSUME IInv, IInv', SheetOK, NEW w \in Workers, WriteBoard(w)
  PROVE  SheetOK' /\ Visible
<1>1. UNCHANGED <<pin, queue>> /\ lapsed' = lapsed /\ worker[w].at = "paint"
  BY DEF WriteBoard, domain
<1>2. PICK i \in Runs, f \in Fences : i = worker[w].run /\ f = worker[w].fence
  BY <1>1, Busy DEF IInv, Types
<1>. DEFINE cells == [r \in Rooms |-> [version |-> worker[w].copy[r], by |-> "resync"]]
<1>3. DOMAIN cells = Rooms /\ \A r \in Rooms : cells[r].version = worker[w].copy[r]
  OBVIOUS
<1>4. SheetWrite(w, cells, "close")
  BY DEF WriteBoard
<1>. HIDE DEF cells
<1>5. PICK out \in Outs, again \in BOOLEAN :
        /\ Becomes(w, [worker[w] EXCEPT !.at = "close", !.out = out, !.again = again])
        /\ \/ Shows(f, cells)
           \/ board' = board /\ excused' = excused /\ out \notin Believed
        /\ \/ stray' = stray
           \/ out = "blocked" /\ stray' = stray \cup {[fence |-> f, cells |-> cells]}
        /\ waived' = waived
  BY <1>2, <1>4, SheetWriteSays
<1>6. out = "succeeded" => \A r \in Rooms : ShownNext(r, worker[w].copy[r])
  <2>1. ASSUME out = "succeeded", NEW r \in Rooms
        PROVE  board'[r] = cells[r]
    BY <1>3, <1>5, <2>1 DEF Shows, Believed
  <2>. QED
    BY <1>3, <2>1 DEF ShownNext
<1>7. /\ AllGo
      /\ \/ worker'[w] = Idle
         \/ worker'[w].at = "close" /\ worker'[w].out = out /\ worker'[w].todo = worker[w].todo
      /\ \A v \in Workers \ {w} : worker'[v] = worker[v]
  BY <1>1, <1>5, <1>6, ClosingGo
<1>8. /\ Marked(resync[i], f) \/ BlockedAt(f) \/ RecoveryAsked(f)
      /\ Held(f) => \A r \in Rooms : cells[r].version = pin[r] \/ Due(r)
      /\ worker[w].todo = {} /\ f <= lease.fence /\ f # 0
  BY <1>1, <1>2, <1>3, Bounds DEF SheetOK, Steady, Warranted, Useful, Tidy, Behind, Fences
<1>9. EveryPinIsOwed' /\ ShownKept
  <2>1. CASE board' = board /\ excused' = excused
    <3>1. row' = row /\ pin' = pin
      BY <1>1 DEF queue
    <3>. QED
      BY <2>1, <3>1, ShownStays, SameRowsKeep, OwedStays DEF SheetOK
  <2>2. CASE Shows(f, cells)
    <3>1. Live(f) => \A r \in DOMAIN cells : Unsaid(r)
      BY <1>1, <1>2, <1>8, OwnerUnsaid
    <3>. QED
      BY <1>1, <1>3, <1>8, <2>2, <3>1, ShowsOwed
  <2>. QED
    BY <1>5, <2>1, <2>2
<1>10. ASSUME NEW write \in stray'
       PROVE  write \in stray \/ (write.fence <= lease.fence /\ Accounted(write)')
  <2>1. SUFFICES ASSUME write = [fence |-> f, cells |-> cells], out = "blocked"
                 PROVE  Accounted(write)'
    BY <1>5, <1>8, <1>10
  <2>2. write.fence = f /\ write.cells = cells
    BY <2>1
  <2>3. row' = row /\ lease' = lease /\ resync' = resync /\ pin' = pin
    BY <1>1 DEF queue
  <2>4. Backed(write)'
    BY <1>8, <2>2, <2>3 DEF Backed, RecoveryAsked, BlockedAt
  <2>5. ASSUME Held(f)', NEW r \in DOMAIN cells
        PROVE  cells[r].version = pin'[r] \/ Due(r)'
    BY <1>3, <1>8, <2>3, <2>5 DEF Held, Due
  <2>6. ASSUME NEW v \in Workers, worker'[v].fence = f
        PROVE  Silent(worker'[v], DOMAIN cells)
    <3>1. CASE v = w
      BY <1>7, <1>8, <2>1, <2>6, <3>1, IdleIs DEF Silent, OverItem
    <3>2. CASE v # w
      BY <1>2, <1>7, <1>8, <2>6, <3>2 DEF SheetOK, FenceIsOne
    <3>. QED
      BY <3>1, <3>2
  <2>. QED
    BY <2>2, <2>4, <2>5, <2>6 DEF Accounted
<1>. QED
  BY <1>1, <1>5, <1>7, <1>9, <1>10, WritingStep

LEMMA SheetInit ==
  ASSUME Init
  PROVE  SheetOK
<1>1. ASSUME NEW w \in Workers
      PROVE  worker[w] = Idle /\ Steady(worker[w]) /\ worker[w].fence = 0 /\ lease.fence = 0
  <2>1. worker[w] = Idle /\ lease.fence = 0
    BY DEF Init
  <2>2. Steady(Idle)
    BY IdleIs DEF Steady, Tidy, Useful, Warranted, Copied, Truthful, OverItem, Held
  <2>. QED
    BY <2>1, <2>2, IdleIs
<1>2. FenceIsOne /\ Behind
  BY <1>1 DEF FenceIsOne, Behind, Init
<1>3. NotAhead
  <2>1. \A k \in Keys : row[k].status = "absent"
    BY DEF Init, Settled
  <2>2. \A i \in Runs, r \in Rooms : resync[i].snapshot[r].version = 0 /\ pin[r] = 0
    BY DEF Init, NoResync
  <2>. QED
    BY <2>1, <2>2 DEF NotAhead
<1>4. EveryPinIsOwed /\ stray = {}
  BY DEF EveryPinIsOwed, Init
<1>. QED
  BY <1>1, <1>2, <1>3, <1>4 DEF SheetOK

LEMMA RowSheet ==
  ASSUME IInv, IInv', SheetOK, NEW w \in Workers, RowSteps(w)
  PROVE  SheetOK' /\ Visible
<1>1. CASE \E due \in SUBSET {k \in Keys : row[k].status \in Unsettled} : ClaimProbed(w, due) \/ ClaimAdmitted(w, due)
  BY <1>1, ClaimSheet
<1>2. CASE EndItems(w) \/ Complete(w) \/ Dies(w)
  BY <1>2, RestingSheet
<1>3. CASE Inspect(w)
  BY <1>3, InspectSheet
<1>4. CASE Authorise(w)
  BY <1>4, AuthoriseSheet
<1>5. CASE Write(w)
  BY <1>5, WriteSheet
<1>6. CASE Settle(w)
  BY <1>6, SettleSheet
<1>7. CASE Beat(w) \/ LastBeat(w)
  BY <1>7, BeatSheet
<1>. QED
  BY <1>1, <1>2, <1>3, <1>4, <1>5, <1>6, <1>7 DEF RowSteps

LEMMA BoardSheet ==
  ASSUME IInv, IInv', SheetOK, NEW w \in Workers, BoardSteps(w)
  PROVE  SheetOK' /\ Visible
  BY ProbeSheet, AuthoriseBoardSheet, WriteBoardSheet, CloseSheet, BlockBoardSheet DEF BoardSteps

LEMMA SheetNext ==
  ASSUME IInv, IInv', SheetOK, [Next]_vars
  PROVE  SheetOK' /\ (Visible \/ UNCHANGED <<row, resync>>)
<1>1. CASE \E r \in Rooms : ChangeSteps(r)
  BY <1>1, ChangesSheet
<1>2. CASE \E w \in Workers : RowSteps(w) \/ BoardSteps(w)
  BY <1>2, RowSheet, BoardSheet
<1>3. CASE \E i \in Runs : RequestResync(i)
  BY <1>3, RequestSheet
<1>4. CASE WorldSteps
  <2>1. ASSUME TurnMaintenance
        PROVE  SheetOK' /\ Visible
    BY <2>1, StillSheet DEF TurnMaintenance, domain
  <2>. QED
    BY <1>4, <2>1, LapseSheet, LandSheet DEF WorldSteps
<1>5. CASE UNCHANGED vars
  BY <1>5, StillSheet DEF vars, domain
<1>. QED
  BY <1>1, <1>2, <1>3, <1>4, <1>5 DEF Next

\* The invariant of the sheet: every run of the worker and every abandoned write has
\* what it writes due or excused, and what a run is about to record is there to see.
THEOREM SheetIsInOrder == Spec => []SheetOK
<1>1. Init => SheetOK
  BY SheetInit
<1>2. IInv /\ IInv' /\ SheetOK /\ [Next]_vars => SheetOK'
  BY SheetNext
<1>. QED
  BY <1>1, <1>2, Inductive, PTL DEF Spec

\* No lost reply, takeover, full resync or recovery leaves a room with an old PIN on
\* the sheet and no row that will bring the new one there.
THEOREM PinsAreOwed == Spec => []EveryPinIsOwed
<1>1. SheetOK => EveryPinIsOwed
  BY DEF SheetOK
<1>. QED
  BY <1>1, SheetIsInOrder, PTL

\* A row or a full resync is recorded as written only while the sheet shows it.
THEOREM SuccessesAreVisible == Spec => SuccessIsVisible
<1>1. IInv /\ IInv' /\ SheetOK /\ [Next]_vars => [Visible]_<<row, resync>>
  BY SheetNext
<1>2. SuccessIsVisible <=> [][Visible]_<<row, resync>>
  BY PTL DEF SuccessIsVisible, Visible
<1>. QED
  BY <1>1, <1>2, Inductive, SheetIsInOrder, PTL DEF Spec
=============================================================================
