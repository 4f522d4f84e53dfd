-------------------------- MODULE PinSheetSyncProofs -------------------------
(***************************************************************************)
(* Proofs about PinSheetSync: the queue never loses a write it does not    *)
(* know the outcome of, a recovery finds the one chain it continues, and a *)
(* drain is real.                                                          *)
(*                                                                         *)
(* The argument for the queue: only the holder of the latest fence marks a *)
(* row or a run, so a mark of an older fence was left behind by a lease    *)
(* that was taken over, and each way to take a lease over looks at the     *)
(* marks, or at the recovery that somebody asked for.                      *)
(***************************************************************************)
EXTENDS PinSheetSync, FiniteSetTheorems, TLAPS

\* Where a run of the worker is says what it has at hand.
Placed(it) ==
  /\ it \in Worker
  /\ it.at \in {"authorise", "write", "settle"} => it.item \in Keys
  /\ it.at \in {"board", "paint", "close", "block"} => it.run \in Runs
  /\ it.at \in {"idle", "probed"} <=> it.fence = 0

\* A write on its way is one of cells of the board.
Cells(cells) == DOMAIN cells \subseteq Rooms /\ \A r \in DOMAIN cells : cells[r] \in Cell
Strays == \A write \in stray : write.fence \in Fences /\ Cells(write.cells)

\* The versions of a room are those of its rows: there is room for one more while a
\* change is under way.
Entered(r) == {k \in Keys : k.room = r /\ row[k].status # "absent"}
Mounted == \A r \in Rooms :
  /\ \A v \in 1 .. pin[r] : row[Key(r, v, "confirmed")].status # "absent"
  /\ change[r] # "none" => Cardinality(Entered(r)) < MaxVersion

\* No claim is of a fence that no lease had.
Fenced == /\ \A k \in Keys : row[k].fence <= lease.fence
          /\ \A i \in Runs : resync[i].fence <= lease.fence
\* The full resync in process is the lease's own work, never beside a row of the lease.
Running == \A i \in Runs : resync[i].status = "processing" =>
  lease.status = "leased" /\ resync[i].fence = lease.fence
Apart == \A i \in Runs, k \in Keys :
  resync[i].status = "processing" /\ row[k].status = "processing" => resync[i].fence # row[k].fence
\* What is blocked on the latest fence keeps the lease blocked.
BlockedStays == \A i \in Runs :
  resync[i].status = "blocked" /\ resync[i].fence = lease.fence => lease.status = "blocked"
\* A run that found no resync to do finds none left by the lease it takes over.
ProbeIsFresh ==
  (\E w \in Workers : worker[w].at = "probed") /\ lease.status = "leased" /\ lease.fence \in lapsed =>
    \A i \in Runs : ~Claimed(resync[i], lease.fence)
\* A mark is of a run in process; a run nobody asked for recovers nothing.
Plain == \A i \in Runs : /\ resync[i].started => resync[i].status = "processing"
                         /\ resync[i].status = "none" => resync[i].reconciles = 0
QueueOK == /\ Fenced /\ Running /\ Apart /\ BlockedStays /\ ProbeIsFresh /\ Plain
           /\ UncertainWritesStop /\ OneChainPerBlock

\* A row has a claim while it is in process, and may then fail once more.
Kept(job) ==
  /\ job \in Row
  /\ (job.fence # 0) <=> (job.status = "processing")
  /\ job.status = "processing" => job.retries < MaxRetry
LeaseType == [status : {"idle", "leased", "blocked"}, fence : 0 .. MaxFence]
RowTypes == row \in [Keys -> Row] /\ \A k \in Keys : Kept(row[k])
RunTypes == resync \in [Runs -> Resync] /\ \A i \in Runs : resync[i].retries < MaxRetry
LeaseTypes == lease \in LeaseType /\ lapsed \subseteq Fences
QueueTypes == RunTypes /\ LeaseTypes
DomainTypes ==
  /\ pin \in [Rooms -> 0 .. MaxVersion]
  /\ change \in [Rooms -> {"none", "open", "confirming"}]
SheetTypes ==
  /\ board \in [Rooms -> Cell]
  /\ waived \subseteq Fences
  /\ excused \subseteq Rooms
WorkerTypes == worker \in [Workers -> Worker] /\ \A w \in Workers : Placed(worker[w])
GateTypes ==
  /\ required \in BOOLEAN
  /\ maintenance \in {"OPEN", "REQUESTED"}
  /\ admission \in [Fences -> Admission]
Types == RowTypes /\ QueueTypes /\ DomainTypes /\ SheetTypes /\ WorkerTypes /\ GateTypes
         /\ Strays /\ Mounted

(***************************************************************************)
(* What the records are made of                                            *)
(***************************************************************************)
LEMMA Bounds ==
  /\ MaxVersion \in Nat /\ MaxResync \in Nat /\ MaxFence \in Nat /\ MaxRetry \in Nat
  /\ 0 < MaxVersion /\ 0 < MaxResync /\ 0 < MaxFence /\ 0 < MaxRetry
  BY BoundsAreNat

LEMMA TypesGive == Types => TypeOK
  BY DEF Types, TypeOK, RowTypes, QueueTypes, RunTypes, LeaseTypes, LeaseType, DomainTypes,
         SheetTypes, WorkerTypes, GateTypes, Strays, Kept

RowStatus == {"pending", "processing", "failed", "absent", "succeeded", "superseded"}
RunStatus ==
  {"pending", "processing", "failed", "none", "succeeded", "blocked", "superseded"}

LEMMA RowIs ==
  ASSUME NEW job \in Row
  PROVE  /\ job.status \in RowStatus
         /\ job.fence \in 0 .. MaxFence /\ job.fence \in Nat /\ job.started \in BOOLEAN
         /\ job.retries \in 0 .. MaxRetry /\ job.retries \in Nat
<1>1. /\ job.status \in RowStatus /\ job.fence \in 0 .. MaxFence /\ job.started \in BOOLEAN
      /\ job.retries \in 0 .. MaxRetry
  BY DEF Row, Unsettled, RowStatus
<1>. QED
  BY <1>1, Bounds

LEMMA RowMade ==
  ASSUME NEW job \in Row, NEW s \in RowStatus, NEW f \in 0 .. MaxFence, NEW b \in BOOLEAN
  PROVE  /\ [job EXCEPT !.status = s, !.fence = f] \in Row
         /\ [job EXCEPT !.status = s, !.fence = f].status = s
         /\ [job EXCEPT !.status = s, !.fence = f].fence = f
         /\ [job EXCEPT !.status = s, !.fence = f].started = job.started
         /\ [job EXCEPT !.status = s, !.fence = f].retries = job.retries
         /\ [job EXCEPT !.status = s, !.fence = f, !.started = b] \in Row
         /\ [job EXCEPT !.status = s, !.fence = f, !.started = b].status = s
         /\ [job EXCEPT !.status = s, !.fence = f, !.started = b].fence = f
         /\ [job EXCEPT !.status = s, !.fence = f, !.started = b].started = b
         /\ [job EXCEPT !.status = s, !.fence = f, !.started = b].retries = job.retries
  BY DEF Row, Unsettled, RowStatus

LEMMA RunIs ==
  ASSUME NEW run \in Resync
  PROVE  /\ run.status \in RunStatus
         /\ run.fence \in 0 .. MaxFence /\ run.fence \in Nat /\ run.started \in BOOLEAN
         /\ run.retries \in 0 .. MaxRetry /\ run.retries \in Nat
         /\ run.reconciles \in 0 .. MaxFence /\ run.reconciles \in Nat
         /\ run.root \in 0 .. MaxResync
         /\ run.snapshot \in [Rooms -> Snapshot] /\ run.covers \in SUBSET Keys
<1>1. /\ run.status \in RunStatus /\ run.fence \in 0 .. MaxFence /\ run.started \in BOOLEAN
      /\ run.retries \in 0 .. MaxRetry /\ run.reconciles \in 0 .. MaxFence
      /\ run.root \in 0 .. MaxResync
      /\ run.snapshot \in [Rooms -> Snapshot] /\ run.covers \in SUBSET Keys
  BY DEF Resync, Unsettled, RunStatus
<1>. QED
  BY <1>1, Bounds

LEMMA RunMade ==
  ASSUME NEW run \in Resync, NEW s \in RunStatus, NEW f \in 0 .. MaxFence
  PROVE  LET new == [run EXCEPT !.status = s, !.fence = f] IN
         /\ new \in Resync /\ new.status = s /\ new.fence = f
         /\ new.started = run.started /\ new.retries = run.retries
         /\ new.reconciles = run.reconciles /\ new.root = run.root
         /\ new.snapshot = run.snapshot /\ new.covers = run.covers
  BY DEF Resync, Unsettled, RunStatus

LEMMA LeaseIs ==
  ASSUME QueueTypes
  PROVE  /\ lease.status \in {"idle", "leased", "blocked"}
         /\ lease.fence \in 0 .. MaxFence /\ lease.fence \in Nat
         /\ Blocked \in LeaseType
         /\ Blocked.status = "blocked" /\ Blocked.fence = lease.fence
         /\ [lease EXCEPT !.status = "idle"] \in LeaseType
         /\ [lease EXCEPT !.status = "idle"].status = "idle"
         /\ [lease EXCEPT !.status = "idle"].fence = lease.fence
<1>1. \A l \in LeaseType,
         s \in {"idle", "leased", "blocked"} :
        /\ l.status \in {"idle", "leased", "blocked"} /\ l.fence \in 0 .. MaxFence
        /\ [l EXCEPT !.status = s] \in LeaseType
        /\ [l EXCEPT !.status = s].status = s /\ [l EXCEPT !.status = s].fence = l.fence
  BY DEF LeaseType
<1>2. \A n \in 0 .. MaxFence : n \in Nat
  BY Bounds
<1>. QED
  BY <1>1, <1>2 DEF QueueTypes, LeaseTypes, Blocked, LeaseType

LEMMA TakeIs ==
  ASSUME QueueTypes, NEW s \in {"leased", "blocked"}, Take(s)
  PROVE  /\ lease' \in LeaseType
         /\ lease'.status = s /\ lease'.fence = lease.fence + 1
         /\ lease.fence + 1 \in Fences /\ lease.fence + 1 \in 0 .. MaxFence
         /\ lease.fence + 1 # 0
         /\ lapsed' = {}
<1>1. lease.fence \in 0 .. MaxFence /\ lease.fence < MaxFence
  BY LeaseIs DEF Take
<1>2. lease.fence + 1 \in 0 .. MaxFence /\ lease.fence + 1 \in Fences /\ lease.fence + 1 # 0
  BY <1>1, Bounds DEF Fences
<1>. QED
  BY <1>2 DEF Take, LeaseType

LEMMA SettledIs ==
  ASSUME NEW s \in RowStatus
  PROVE  /\ Settled(s) \in Row /\ Settled(s).status = s /\ Settled(s).fence = 0
         /\ Settled(s).started = FALSE /\ Settled(s).retries = 0
  BY Bounds DEF Settled, Row, Unsettled, RowStatus

\* A row or a run given back is for anyone; one that is not, is as it was.
BackRow(new, job) ==
  /\ new \in Row /\ new.retries = job.retries /\ new.started = job.started
  /\ \/ new = job
     \/ new.status = "pending" /\ new.fence = 0 /\ job.status = "processing"
BackRun(new, run) ==
  /\ new \in Resync
  /\ new.retries = run.retries /\ new.started = run.started
  /\ new.reconciles = run.reconciles /\ new.root = run.root /\ new.snapshot = run.snapshot
  /\ \/ new = run
     \/ new.status = "pending" /\ new.fence = 0 /\ run.status = "processing" /\ ~run.started

LEMMA FreedRow ==
  ASSUME NEW job \in Row, job.status = "processing"
  PROVE  BackRow([job EXCEPT !.status = "pending", !.fence = 0], job)
<1>1. 0 \in 0 .. MaxFence /\ "pending" \in RowStatus
  BY Bounds DEF RowStatus
<1>2. [job EXCEPT !.status = "pending", !.fence = 0] \in Row
  BY <1>1, RowMade
<1>. QED
  BY <1>2 DEF BackRow, Row

LEMMA FreedRun ==
  ASSUME NEW run \in Resync, run.status = "processing", ~run.started
  PROVE  BackRun([run EXCEPT !.status = "pending", !.fence = 0], run)
<1>1. 0 \in 0 .. MaxFence /\ "pending" \in RunStatus
  BY Bounds DEF RunStatus
<1>2. [run EXCEPT !.status = "pending", !.fence = 0] \in Resync
  BY <1>1, RunMade
<1>. QED
  BY <1>2 DEF BackRun, Resync

LEMMA ReleasedRowIs ==
  ASSUME NEW job \in Row
  PROVE  BackRow(Released(job), job)
<1>1. CASE job.status = "processing" /\ ~job.started /\ job.fence \in lapsed
  BY <1>1, FreedRow DEF Released
<1>2. CASE ~(job.status = "processing" /\ ~job.started /\ job.fence \in lapsed)
  BY <1>2 DEF Released, BackRow
<1>. QED
  BY <1>1, <1>2

LEMMA ReturnedRowIs ==
  ASSUME NEW job \in Row, NEW f
  PROVE  /\ BackRow(Returned(job, f), job)
         /\ ~(Claimed(Returned(job, f), f) /\ ~job.started)
<1>1. CASE Claimed(job, f) /\ ~job.started
  <2>1. Returned(job, f) = [job EXCEPT !.status = "pending", !.fence = 0]
    BY <1>1 DEF Returned
  <2>2. [job EXCEPT !.status = "pending", !.fence = 0].status = "pending"
    BY DEF Row
  <2>. QED
    BY <1>1, <2>1, <2>2, FreedRow DEF Claimed
<1>2. CASE ~(Claimed(job, f) /\ ~job.started)
  BY <1>2 DEF Returned, BackRow
<1>. QED
  BY <1>1, <1>2

LEMMA ReleasedRunIs ==
  ASSUME NEW run \in Resync
  PROVE  /\ BackRun(Released(run), run)
         /\ run.status = "processing" /\ ~run.started /\ run.fence \in lapsed =>
              Released(run).status = "pending"
<1>1. CASE run.status = "processing" /\ ~run.started /\ run.fence \in lapsed
  <2>1. Released(run) = [run EXCEPT !.status = "pending", !.fence = 0]
    BY <1>1 DEF Released
  <2>2. [run EXCEPT !.status = "pending", !.fence = 0].status = "pending"
    BY DEF Resync
  <2>. QED
    BY <1>1, <2>1, <2>2, FreedRun
<1>2. CASE ~(run.status = "processing" /\ ~run.started /\ run.fence \in lapsed)
  BY <1>2 DEF Released, BackRun
<1>. QED
  BY <1>1, <1>2

LEMMA ReturnedRunIs ==
  ASSUME NEW run \in Resync, NEW f
  PROVE  /\ BackRun(Returned(run, f), run)
         /\ Claimed(run, f) /\ ~run.started => Returned(run, f).status = "pending"
<1>1. CASE Claimed(run, f) /\ ~run.started
  <2>1. Returned(run, f) = [run EXCEPT !.status = "pending", !.fence = 0]
    BY <1>1 DEF Returned
  <2>2. [run EXCEPT !.status = "pending", !.fence = 0].status = "pending"
    BY DEF Resync
  <2>. QED
    BY <1>1, <2>1, <2>2, FreedRun DEF Claimed
<1>2. CASE ~(Claimed(run, f) /\ ~run.started)
  BY <1>2 DEF Returned, BackRun
<1>. QED
  BY <1>1, <1>2

LEMMA NoResyncIs ==
  /\ NoResync \in Resync /\ NoResync.status = "none" /\ NoResync.fence = 0
  /\ NoResync.started = FALSE /\ NoResync.retries = 0 /\ NoResync.reconciles = 0
  /\ NoResync.root = 0 /\ NoResync.covers = {}
<1>1. [r \in Rooms |-> [version |-> 0, open |-> FALSE]] \in [Rooms -> Snapshot]
  BY Bounds DEF Snapshot
<1>2. {} \in SUBSET Keys
  OBVIOUS
<1>. QED
  BY <1>1, <1>2, Bounds DEF NoResync, Resync, Unsettled

LEMMA EndedIs ==
  ASSUME NEW run \in Resync, NEW s \in {"succeeded", "blocked", "superseded"}
  PROVE  /\ Ended(run, s) \in Resync /\ Ended(run, s).status = s
         /\ s = "blocked" => Ended(run, s).fence = run.fence
         /\ s # "blocked" => Ended(run, s).fence = 0
         /\ Ended(run, s).started = FALSE /\ Ended(run, s).retries = 0
         /\ Ended(run, s).reconciles = run.reconciles /\ Ended(run, s).root = run.root
<1>1. PICK f \in 0 .. MaxFence : /\ f = IF s = "blocked" THEN run.fence ELSE 0
                                 /\ s = "blocked" => f = run.fence
                                 /\ s # "blocked" => f = 0
  BY RunIs, Bounds
<1>2. Ended(run, s) = [NoResync EXCEPT !.status = s, !.fence = f,
                                       !.reconciles = run.reconciles, !.root = run.root]
  BY <1>1 DEF Ended
<1>3. run.reconciles \in 0 .. MaxFence /\ run.root \in 0 .. MaxResync /\ s \in RunStatus
  BY RunIs DEF RunStatus
<1>. HIDE DEF Ended
<1>4. /\ Ended(run, s) \in Resync /\ Ended(run, s).status = s /\ Ended(run, s).fence = f
      /\ Ended(run, s).reconciles = run.reconciles /\ Ended(run, s).root = run.root
      /\ Ended(run, s).started = NoResync.started /\ Ended(run, s).retries = NoResync.retries
  <2>1. NoResync \in Resync /\ f \in 0 .. MaxFence
    BY <1>1, NoResyncIs
  <2>. DEFINE made(g, o) == [NoResync EXCEPT !.status = s, !.fence = f,
                                              !.reconciles = g, !.root = o]
  <2>3. \A g \in 0 .. MaxFence, o \in 0 .. MaxResync :
          /\ made(g, o) \in Resync /\ made(g, o).status = s /\ made(g, o).fence = f
          /\ made(g, o).reconciles = g /\ made(g, o).root = o
          /\ made(g, o).started = NoResync.started /\ made(g, o).retries = NoResync.retries
    BY <1>3, <2>1 DEF Resync, Unsettled, RunStatus
  <2>4. Ended(run, s) = made(run.reconciles, run.root)
    BY <1>2
  <2>. HIDE DEF made
  <2>. QED
    BY <1>3, <2>3, <2>4
<1>. QED
  BY <1>1, <1>4, NoResyncIs

(***************************************************************************)
(* The ways a step moves the queue                                         *)
(***************************************************************************)
RowKeeps(k) ==
  /\ row'[k].fence \in {0, row[k].fence}
  /\ row'[k].status = "processing" =>
       /\ row[k].status = "processing" /\ row'[k].fence = row[k].fence
       /\ row'[k].started => row[k].started
\* Authorised under the lease, which the step does not give back.
RowMarks(k) ==
  /\ row[k].status = "processing" /\ Live(row[k].fence)
  /\ row'[k].status = "processing" /\ row'[k].fence = row[k].fence
  /\ lease'.status # "idle"

RunKeeps(i) ==
  /\ resync'[i].fence \in {0, resync[i].fence}
  /\ resync'[i].reconciles = resync[i].reconciles
  /\ resync'[i].status \in Unsettled => resync[i].status \in Unsettled
  /\ resync'[i].status = "processing" =>
       /\ resync[i].status = "processing" /\ resync'[i].fence = resync[i].fence
       /\ resync'[i].started => resync[i].started
  /\ resync'[i].status = "blocked" =>
       resync[i].status = "blocked" /\ resync'[i].fence = resync[i].fence
  /\ resync'[i].started => resync'[i].status = "processing"
  /\ resync'[i].status = "none" => resync[i].status = "none"
RunMarks(i) ==
  /\ resync[i].status = "processing" /\ Live(resync[i].fence)
  /\ resync'[i].status = "processing" /\ resync'[i].fence = resync[i].fence
  /\ resync'[i].reconciles = resync[i].reconciles
  /\ lease'.status # "idle"
RunStops(i) ==
  /\ resync[i].status = "processing"
  /\ resync'[i].status = "blocked" /\ resync'[i].fence = resync[i].fence
  /\ resync'[i].reconciles = resync[i].reconciles /\ resync'[i].started = FALSE
  /\ lease'.status = "blocked"
RunAsks(i) ==
  /\ resync[i].status = "none"
  /\ resync'[i].status = "pending" /\ resync'[i].fence = 0 /\ resync'[i].started = FALSE
  /\ resync'[i].reconciles \in 0 .. MaxFence
  /\ \A j \in Runs \ {i} : resync'[j].status \notin Unsettled

Idles == /\ lease.status # "blocked" /\ lease'.status = "idle"
         /\ lease.status = "leased" => /\ \A k \in Keys : ~Marked(row[k], lease.fence)
                                       /\ \A i \in Runs : ~Marked(resync[i], lease.fence)
         /\ \A i \in Runs : resync'[i].status # "processing"
Stops == lease'.status = "blocked" /\ \A i \in Runs : resync'[i].status # "processing"
\* The same rows are there.
Entries == \A k \in Keys : (row'[k].status = "absent") <=> (row[k].status = "absent")
NoProbe == lapsed' = lapsed /\ \A w \in Workers : worker'[w].at = "probed" => worker[w].at = "probed"

\* A step under the fence the lease has.
LEMMA SameFence ==
  ASSUME RowTypes, QueueTypes, RowTypes', QueueTypes', QueueOK,
         lease'.fence = lease.fence, lease' = lease \/ Stops \/ Idles,
         \A k \in Keys : RowKeeps(k) \/ RowMarks(k),
         \A i \in Runs : RunKeeps(i) \/ RunMarks(i) \/ RunStops(i) \/ RunAsks(i),
         NoProbe \/ ProbeIsFresh'
  PROVE  QueueOK'
<1>0. /\ lease.fence \in Nat
      /\ \A k \in Keys : row[k].fence \in Nat /\ row'[k].fence \in Nat
      /\ \A i \in Runs : /\ resync[i].fence \in Nat /\ resync[i].reconciles \in Nat
                         /\ resync'[i].fence \in Nat /\ resync'[i].reconciles \in Nat
  <2>1. \A n \in 0 .. MaxFence : n \in Nat
    BY Bounds
  <2>. QED
    BY <2>1, LeaseIs, RowIs, RunIs DEF RowTypes, QueueTypes, RunTypes
<1>s. \A i \in Runs : RunStops(i) => lease.status = "leased" /\ resync[i].fence = lease.fence
  BY DEF QueueOK, Running, RunStops
<1>1. Fenced'
  <2>1. \A k \in Keys : row'[k].fence \in {0, row[k].fence}
    BY DEF RowKeeps, RowMarks
  <2>2. \A i \in Runs : resync'[i].fence \in {0, resync[i].fence}
    BY DEF RunKeeps, RunMarks, RunStops, RunAsks
  <2>. QED
    BY <1>0, <2>1, <2>2 DEF QueueOK, Fenced
<1>2. Running'
  <2>1. ASSUME NEW i \in Runs, resync'[i].status = "processing"
        PROVE  resync[i].status = "processing" /\ resync'[i].fence = resync[i].fence
    BY <2>1 DEF RunKeeps, RunMarks, RunStops, RunAsks
  <2>2. ASSUME NEW i \in Runs, resync'[i].status = "processing"
        PROVE  lease' = lease
    BY <2>2 DEF Stops, Idles
  <2>. QED
    BY <2>1, <2>2 DEF QueueOK, Running
<1>3. Apart'
  <2>1. ASSUME NEW i \in Runs, resync'[i].status = "processing"
        PROVE  resync[i].status = "processing" /\ resync'[i].fence = resync[i].fence
    BY <2>1 DEF RunKeeps, RunMarks, RunStops, RunAsks
  <2>2. ASSUME NEW k \in Keys, row'[k].status = "processing"
        PROVE  row[k].status = "processing" /\ row'[k].fence = row[k].fence
    BY <2>2 DEF RowKeeps, RowMarks
  <2>. QED
    BY <2>1, <2>2 DEF QueueOK, Apart
<1>4. BlockedStays'
  <2>1. ASSUME NEW i \in Runs, resync'[i].status = "blocked", resync'[i].fence = lease.fence
        PROVE  lease'.status = "blocked"
    <3>1. RunKeeps(i) \/ RunStops(i)
      BY <2>1 DEF RunMarks, RunAsks
    <3>2. CASE RunKeeps(i)
      <4>1. resync[i].status = "blocked" /\ resync[i].fence = lease.fence
        BY <2>1, <3>2 DEF RunKeeps
      <4>2. lease.status = "blocked"
        BY <4>1 DEF QueueOK, BlockedStays
      <4>. QED
        BY <4>2 DEF Stops, Idles
    <3>3. CASE RunStops(i)
      BY <3>3 DEF RunStops
    <3>. QED
      BY <3>1, <3>2, <3>3
  <2>. QED
    BY <2>1 DEF BlockedStays
<1>5. ProbeIsFresh'
  <2>1. SUFFICES ASSUME NoProbe, NEW w \in Workers, worker'[w].at = "probed", lease'.status = "leased",
                        lease'.fence \in lapsed', NEW i \in Runs, Claimed(resync'[i], lease'.fence)
                 PROVE  FALSE
    BY DEF ProbeIsFresh, Claimed
  <2>2. lease' = lease /\ worker[w].at = "probed" /\ lapsed' = lapsed
    BY <2>1 DEF NoProbe, Stops, Idles
  <2>3. resync[i].status = "processing" /\ resync'[i].fence = resync[i].fence
    BY <2>1 DEF RunKeeps, RunMarks, RunStops, RunAsks, Claimed
  <2>. QED
    BY <2>1, <2>2, <2>3 DEF QueueOK, ProbeIsFresh, Claimed
<1>6. Plain'
  <2>1. ASSUME NEW i \in Runs
        PROVE  /\ resync'[i].started => resync'[i].status = "processing"
               /\ resync'[i].status = "none" => resync'[i].reconciles = 0
    BY DEF RunKeeps, RunMarks, RunStops, RunAsks, QueueOK, Plain
  <2>. QED
    BY <2>1 DEF Plain
<1>r. \A f \in Fences : RecoveryAsked(f) => RecoveryAsked(f)'
  <2>1. SUFFICES ASSUME NEW f \in Fences, NEW i \in Runs, resync[i].reconciles >= f
                 PROVE  resync'[i].reconciles >= f
    BY DEF RecoveryAsked
  <2>2. f \in Nat /\ f # 0
    BY Bounds DEF Fences
  <2>3. ~RunAsks(i)
    <3>1. resync[i].status # "none"
      BY <1>0, <2>1, <2>2 DEF QueueOK, Plain
    <3>. QED
      BY <3>1 DEF RunAsks
  <2>. QED
    BY <2>1, <2>3 DEF RunKeeps, RunMarks, RunStops
<1>7. UncertainWritesStop'
  <2>1. SUFFICES ASSUME NEW f \in Fences,
                        (\E k \in Keys : Marked(row'[k], f)) \/ (\E i \in Runs : Marked(resync'[i], f)),
                        ~RecoveryAsked(f)
                 PROVE  lease'.fence = f /\ lease'.status # "idle"
    BY <1>r DEF UncertainWritesStop, Marked, Claimed
  <2>2. CASE \E k \in Keys : RowMarks(k) /\ row[k].fence = f
    BY <2>2 DEF RowMarks, Live
  <2>3. CASE \E i \in Runs : RunMarks(i) /\ resync[i].fence = f
    BY <2>3 DEF RunMarks, Live
  <2>4. CASE (\E k \in Keys : Marked(row[k], f)) \/ (\E i \in Runs : Marked(resync[i], f))
    <3>1. lease.fence = f /\ lease.status # "idle"
      BY <2>1, <2>4 DEF QueueOK, UncertainWritesStop
    <3>. QED
      BY <2>4, <3>1, LeaseIs DEF Stops, Idles
  <2>5. ASSUME NEW k \in Keys, Marked(row'[k], f)
        PROVE  Marked(row[k], f) \/ (RowMarks(k) /\ row[k].fence = f)
    BY <2>5 DEF RowKeeps, RowMarks, Marked, Claimed
  <2>6. ASSUME NEW i \in Runs, Marked(resync'[i], f)
        PROVE  Marked(resync[i], f) \/ (RunMarks(i) /\ resync[i].fence = f)
    BY <2>6 DEF RunKeeps, RunMarks, RunStops, RunAsks, Marked, Claimed
  <2>. QED
    BY <2>1, <2>2, <2>3, <2>4, <2>5, <2>6
<1>8. OneChainPerBlock'
  <2>1. SUFFICES ASSUME NEW i \in Runs, NEW j \in Runs, i # j
                 PROVE  /\ ~(resync'[i].status \in Unsettled /\ resync'[j].status \in Unsettled)
                        /\ resync'[i].status = "blocked" /\ resync'[j].status = "blocked" =>
                             resync'[i].fence # resync'[j].fence
    BY DEF OneChainPerBlock
  <2>2. ~(resync'[i].status \in Unsettled /\ resync'[j].status \in Unsettled)
    <3>1. CASE RunAsks(i) \/ RunAsks(j)
      BY <2>1, <3>1 DEF RunAsks
    <3>2. CASE ~(RunAsks(i) \/ RunAsks(j))
      <4>1. /\ resync'[i].status \in Unsettled => resync[i].status \in Unsettled
            /\ resync'[j].status \in Unsettled => resync[j].status \in Unsettled
        BY <3>2 DEF RunKeeps, RunMarks, RunStops, Unsettled
      <4>. QED
        BY <2>1, <4>1 DEF QueueOK, OneChainPerBlock
    <3>. QED
      BY <3>1, <3>2
  <2>3. ASSUME resync'[i].status = "blocked", resync'[j].status = "blocked"
        PROVE  resync'[i].fence # resync'[j].fence
    <3>1. (RunKeeps(i) \/ RunStops(i)) /\ (RunKeeps(j) \/ RunStops(j))
      BY <2>3 DEF RunMarks, RunAsks
    <3>2. CASE RunKeeps(i) /\ RunKeeps(j)
      BY <2>1, <2>3, <3>2 DEF RunKeeps, QueueOK, OneChainPerBlock
    <3>3. CASE RunStops(i) /\ RunStops(j)
      BY <2>1, <3>3 DEF RunStops, QueueOK, OneChainPerBlock, Unsettled
    <3>4. CASE RunKeeps(i) /\ RunStops(j)
      <4>1. /\ resync[i].status = "blocked" /\ resync'[i].fence = resync[i].fence
            /\ lease.status = "leased" /\ resync'[j].fence = lease.fence
        BY <1>s, <2>3, <3>4 DEF RunKeeps, RunStops
      <4>. QED
        BY <4>1 DEF QueueOK, BlockedStays
    <3>5. CASE RunStops(i) /\ RunKeeps(j)
      <4>1. /\ resync[j].status = "blocked" /\ resync'[j].fence = resync[j].fence
            /\ lease.status = "leased" /\ resync'[i].fence = lease.fence
        BY <1>s, <2>3, <3>5 DEF RunKeeps, RunStops
      <4>. QED
        BY <4>1 DEF QueueOK, BlockedStays
    <3>. QED
      BY <3>1, <3>2, <3>3, <3>4, <3>5
  <2>. QED
    BY <2>2, <2>3
<1>. QED
  BY <1>1, <1>2, <1>3, <1>4, <1>5, <1>6, <1>7, <1>8 DEF QueueOK

RowTakes(k) ==
  row'[k].status = "processing" /\ row'[k].fence = lease'.fence /\ row'[k].started = FALSE
RunTakes(i) ==
  /\ resync[i].status \in Unsettled /\ resync'[i].status \in {"processing", "blocked"}
  /\ resync'[i].fence = lease'.fence /\ resync'[i].started = FALSE
  /\ resync'[i].reconciles = resync[i].reconciles
  /\ lease'.status = IF resync'[i].status = "processing" THEN "leased" ELSE "blocked"
\* What the lease to take over left unknown, an operator has asked to recover.
Answered ==
  /\ lease.status = "blocked" => RecoveryAsked(lease.fence)
  /\ lease.status = "leased" => /\ \A k \in Keys : ~Marked(row[k], lease.fence)
                                /\ \A i \in Runs : ~Marked(resync[i], lease.fence)

\* A step that takes the lease, under the next fence.
LEMMA NextFence ==
  ASSUME RowTypes, QueueTypes, RowTypes', QueueTypes', QueueOK,
         lease'.fence = lease.fence + 1, lease'.status \in {"leased", "blocked"}, lapsed' = {},
         Answered,
         \A k \in Keys : RowKeeps(k) \/ RowTakes(k),
         \A i \in Runs : RunKeeps(i) \/ RunTakes(i),
         \A i \in Runs : resync'[i].status = "processing" => RunTakes(i),
         (\E k \in Keys : RowTakes(k)) => \A i \in Runs : resync'[i].status # "processing"
  PROVE  QueueOK'
<1>0. /\ lease.fence \in Nat
      /\ \A k \in Keys : row[k].fence \in Nat /\ row'[k].fence \in Nat
      /\ \A i \in Runs : /\ resync[i].fence \in Nat /\ resync[i].reconciles \in Nat
                         /\ resync'[i].fence \in Nat /\ resync'[i].reconciles \in Nat
  <2>1. \A n \in 0 .. MaxFence : n \in Nat
    BY Bounds
  <2>. QED
    BY <2>1, LeaseIs, RowIs, RunIs DEF RowTypes, QueueTypes, RunTypes
<1>f. /\ \A k \in Keys : row[k].fence <= lease.fence
      /\ \A i \in Runs : resync[i].fence <= lease.fence
  BY DEF QueueOK, Fenced
<1>1. Fenced'
  <2>1. \A k \in Keys : row'[k].fence \in {0, row[k].fence, lease'.fence}
    BY DEF RowKeeps, RowTakes
  <2>2. \A i \in Runs : resync'[i].fence \in {0, resync[i].fence, lease'.fence}
    BY DEF RunKeeps, RunTakes
  <2>3. ASSUME NEW k \in Keys PROVE row'[k].fence <= lease'.fence
    BY <1>0, <1>f, <2>1
  <2>4. ASSUME NEW i \in Runs PROVE resync'[i].fence <= lease'.fence
    BY <1>0, <1>f, <2>2
  <2>. QED
    BY <2>3, <2>4 DEF Fenced
<1>2. Running'
  BY DEF Running, RunTakes
<1>3. Apart'
  <2>1. ASSUME NEW i \in Runs, resync'[i].status = "processing",
               NEW k \in Keys, row'[k].status = "processing"
        PROVE  resync'[i].fence # row'[k].fence
    <3>1. resync'[i].fence = lease.fence + 1
      BY <2>1 DEF RunTakes
    <3>2. row'[k].fence = row[k].fence
      BY <2>1 DEF RowKeeps
    <3>. QED
      BY <1>0, <1>f, <3>1, <3>2
  <2>. QED
    BY <2>1 DEF Apart
<1>4. BlockedStays'
  <2>1. ASSUME NEW i \in Runs, resync'[i].status = "blocked", resync'[i].fence = lease'.fence
        PROVE  RunTakes(i)
    <3>1. RunKeeps(i) => resync[i].fence = lease.fence + 1
      BY <2>1 DEF RunKeeps
    <3>. QED
      BY <1>0, <1>f, <3>1
  <2>. QED
    BY <2>1 DEF BlockedStays, RunTakes
<1>5. ProbeIsFresh'
  BY DEF ProbeIsFresh
<1>6. Plain'
  <2>1. ASSUME NEW i \in Runs
        PROVE  /\ resync'[i].started => resync'[i].status = "processing"
               /\ resync'[i].status = "none" => resync'[i].reconciles = 0
    BY DEF RunKeeps, RunTakes, QueueOK, Plain
  <2>. QED
    BY <2>1 DEF Plain
<1>7. UncertainWritesStop'
  <2>1. SUFFICES ASSUME NEW f \in Fences,
                        (\E k \in Keys : Marked(row'[k], f)) \/ (\E i \in Runs : Marked(resync'[i], f))
                 PROVE  RecoveryAsked(f)
    <3>1. \A f \in Fences : RecoveryAsked(f) => RecoveryAsked(f)'
      BY DEF RecoveryAsked, RunKeeps, RunTakes
    <3>. QED
      BY <3>1 DEF UncertainWritesStop, Marked, Claimed
  <2>2. ASSUME NEW k \in Keys, Marked(row'[k], f)
        PROVE  Marked(row[k], f)
    BY <2>2 DEF RowKeeps, RowTakes, Marked, Claimed
  <2>3. ASSUME NEW i \in Runs, Marked(resync'[i], f)
        PROVE  Marked(resync[i], f)
    BY <2>3 DEF RunTakes, Marked, Claimed
  <2>4. (lease.fence = f /\ lease.status # "idle") \/ RecoveryAsked(f)
    BY <2>1, <2>2, <2>3 DEF QueueOK, UncertainWritesStop
  <2>5. CASE lease.fence = f /\ lease.status # "idle"
    BY <2>1, <2>2, <2>3, <2>5, LeaseIs DEF Answered
  <2>. QED
    BY <2>4, <2>5
<1>8. OneChainPerBlock'
  <2>1. SUFFICES ASSUME NEW i \in Runs, NEW j \in Runs, i # j
                 PROVE  /\ ~(resync'[i].status \in Unsettled /\ resync'[j].status \in Unsettled)
                        /\ resync'[i].status = "blocked" /\ resync'[j].status = "blocked" =>
                             resync'[i].fence # resync'[j].fence
    BY DEF OneChainPerBlock
  <2>2. \A n \in Runs : resync'[n].status \in Unsettled => resync[n].status \in Unsettled
    BY DEF RunKeeps, RunTakes
  <2>3. ASSUME resync'[i].status = "blocked", resync'[j].status = "blocked"
        PROVE  resync'[i].fence # resync'[j].fence
    <3>1. CASE RunKeeps(i) /\ RunKeeps(j)
      BY <2>1, <2>3, <3>1 DEF RunKeeps, QueueOK, OneChainPerBlock
    <3>2. CASE RunTakes(i) /\ RunTakes(j)
      BY <2>1, <3>2 DEF RunTakes, QueueOK, OneChainPerBlock
    <3>3. CASE RunKeeps(i) /\ RunTakes(j)
      <4>1. resync'[i].fence = resync[i].fence /\ resync'[j].fence = lease.fence + 1
        BY <2>3, <3>3 DEF RunKeeps, RunTakes
      <4>. QED
        BY <1>0, <1>f, <4>1
    <3>4. CASE RunTakes(i) /\ RunKeeps(j)
      <4>1. resync'[j].fence = resync[j].fence /\ resync'[i].fence = lease.fence + 1
        BY <2>3, <3>4 DEF RunKeeps, RunTakes
      <4>. QED
        BY <1>0, <1>f, <4>1
    <3>. QED
      BY <3>1, <3>2, <3>3, <3>4
  <2>. QED
    BY <2>1, <2>2, <2>3 DEF QueueOK, OneChainPerBlock
<1>. QED
  BY <1>1, <1>2, <1>3, <1>4, <1>5, <1>6, <1>7, <1>8 DEF QueueOK

(***************************************************************************)
(* The runs of the worker                                                  *)
(***************************************************************************)
Ats == {"idle", "probed", "next", "authorise", "write", "settle", "beat", "last", "complete",
        "board", "paint", "close", "block"}
Outs == {"succeeded", "current", "retryable", "blocked"}

LEMMA WorkerIs ==
  ASSUME NEW it \in Worker
  PROVE  /\ it.at \in Ats /\ it.fence \in 0 .. MaxFence /\ it.todo \in SUBSET Keys
         /\ it.item \in Keys \cup {Nothing} /\ it.run \in 0 .. MaxResync
         /\ it.copy \in [Rooms -> 0 .. MaxVersion] /\ it.out \in Outs
         /\ it.again \in BOOLEAN /\ it.late \in BOOLEAN /\ it.clean \in BOOLEAN
         /\ it.blocked \in BOOLEAN
  BY DEF Worker, Ats, Outs

LEMMA IdleIs ==
  /\ Idle \in Worker /\ Idle.at = "idle" /\ Idle.fence = 0 /\ Idle.item = Nothing /\ Idle.run = 0
  /\ Idle.todo = {} /\ Idle.late = FALSE
  /\ Placed(Idle)
<1>1. [r \in Rooms |-> 0] \in [Rooms -> 0 .. MaxVersion] /\ {} \in SUBSET Keys
  BY Bounds
<1>2. Idle \in Worker
  BY <1>1, Bounds DEF Idle, Worker
<1>3. /\ Idle.at = "idle" /\ Idle.fence = 0 /\ Idle.item = Nothing /\ Idle.run = 0
      /\ Idle.todo = {} /\ Idle.late = FALSE
  BY DEF Idle
<1>. QED
  BY <1>2, <1>3 DEF Placed

LEMMA BecomesIs ==
  ASSUME WorkerTypes, NEW w \in Workers, NEW next, Placed(next), Becomes(w, next)
  PROVE  /\ WorkerTypes'
         /\ worker'[w] = Idle \/ worker'[w] = next
         /\ \A v \in Workers \ {w} : worker'[v] = worker[v]
<1>1. worker' = [worker EXCEPT ![w] = IF worker[w].late THEN Idle ELSE next]
  BY DEF Becomes
<1>2. (IF worker[w].late THEN Idle ELSE next) \in {Idle, next}
  OBVIOUS
<1>3. PICK it \in {Idle, next} : worker' = [worker EXCEPT ![w] = it]
  BY <1>1, <1>2
<1>4. Placed(it) /\ it \in Worker
  BY <1>3, IdleIs DEF Placed
<1>. QED
  BY <1>3, <1>4 DEF WorkerTypes

\* Every way a run of the worker goes on, but for those of the claims.
Onward(w) == /\ WorkerTypes'
             /\ worker'[w].at # "probed"
             /\ \A v \in Workers \ {w} : worker'[v] = worker[v]

LEMMA BecomesOnward ==
  ASSUME WorkerTypes, NEW w \in Workers, NEW next, Placed(next), next.at # "probed",
         Becomes(w, next)
  PROVE  Onward(w)
  BY BecomesIs, IdleIs DEF Onward

LEMMA RestOnward ==
  ASSUME WorkerTypes, NEW w \in Workers, Rest(w)
  PROVE  Onward(w)
  BY IdleIs DEF Onward, Rest, WorkerTypes

LEMMA GoOnward ==
  ASSUME WorkerTypes, NEW w \in Workers, worker[w].fence # 0, NEW at \in Ats \ {"idle", "probed"},
         at \in {"authorise", "write", "settle"} => worker[w].item \in Keys,
         at \in {"board", "paint", "close", "block"} => worker[w].run \in Runs,
         Go(w, at)
  PROVE  Onward(w)
<1>. DEFINE next == [worker[w] EXCEPT !.at = at]
<1>1. worker[w] \in Worker
  BY DEF WorkerTypes
<1>2. next \in Worker /\ next.at = at /\ next.item = worker[w].item /\ next.run = worker[w].run
      /\ next.fence = worker[w].fence
  BY <1>1 DEF Worker, Ats
<1>3. Becomes(w, next)
  BY DEF Go
<1>. HIDE DEF next
<1>4. Placed(next) /\ next.at # "probed"
  BY <1>2 DEF Placed, Ats
<1>. QED
  BY <1>3, <1>4, BecomesOnward

LEMMA SettleOnward ==
  ASSUME WorkerTypes, NEW w \in Workers, worker[w].fence # 0, worker[w].item \in Keys,
         NEW out \in Outs,
         \/ Catch(w, out)
         \/ Becomes(w, [worker[w] EXCEPT !.at = "settle", !.out = out])
         \/ \E again \in BOOLEAN :
              Becomes(w, [worker[w] EXCEPT !.at = "settle", !.out = out, !.again = again])
  PROVE  Onward(w)
<1>1. worker[w] \in Worker /\ Placed(worker[w]) /\ worker[w].again \in BOOLEAN
  BY WorkerIs DEF WorkerTypes
<1>3. [worker[w] EXCEPT !.at = "settle", !.out = out]
        = [worker[w] EXCEPT !.at = "settle", !.out = out, !.again = worker[w].again]
  BY <1>1 DEF Worker
<1>4. PICK again \in BOOLEAN :
        Becomes(w, [worker[w] EXCEPT !.at = "settle", !.out = out, !.again = again])
  BY <1>1, <1>3 DEF Catch
<1>. DEFINE next == [worker[w] EXCEPT !.at = "settle", !.out = out, !.again = again]
<1>5. next \in Worker /\ next.at = "settle" /\ next.item = worker[w].item
      /\ next.fence = worker[w].fence
  BY <1>1, <1>4 DEF Worker, Outs
<1>6. Becomes(w, next)
  BY <1>4
<1>. HIDE DEF next
<1>7. Placed(next) /\ next.at # "probed"
  BY <1>5 DEF Placed
<1>. QED
  BY <1>6, <1>7, BecomesOnward

LEMMA NextItemOnward ==
  ASSUME WorkerTypes, NEW w \in Workers, worker[w].fence # 0, NEW clean \in BOOLEAN,
         NextItem(w, clean)
  PROVE  Onward(w)
<1>. DEFINE next == [worker[w] EXCEPT !.at = "next", !.item = Nothing, !.again = FALSE,
                                      !.out = "succeeded", !.clean = @ /\ clean]
<1>1. worker[w] \in Worker /\ (worker[w].clean /\ clean) \in BOOLEAN
  BY WorkerIs DEF WorkerTypes
<1>2. next \in Worker /\ next.at = "next" /\ next.fence = worker[w].fence
  BY <1>1 DEF Worker
<1>3. Becomes(w, next)
  BY DEF NextItem
<1>. HIDE DEF next
<1>4. Placed(next) /\ next.at # "probed"
  BY <1>2 DEF Placed
<1>. QED
  BY <1>3, <1>4, BecomesOnward

LEMMA FreshOnward ==
  ASSUME WorkerTypes, NEW w \in Workers, worker[w].fence # 0,
         (\E blocked \in BOOLEAN, clean \in BOOLEAN : HeartbeatNext(w, blocked, clean)) \/ Fail(w)
  PROVE  Onward(w)
<1>1. ASSUME NEW f \in 0 .. MaxFence, f # 0, NEW at \in {"beat", "last"}, NEW b \in BOOLEAN,
             NEW c \in BOOLEAN
      PROVE  LET next == [Idle EXCEPT !.at = at, !.fence = f, !.blocked = b, !.clean = c] IN
             Placed(next) /\ next.at # "probed"
  <2>1. Idle \in Worker
    BY IdleIs
  <2>2. LET next == [Idle EXCEPT !.at = at, !.fence = f, !.blocked = b, !.clean = c] IN
        next \in Worker /\ next.at = at /\ next.fence = f
    BY <2>1 DEF Worker
  <2>. QED
    BY <1>1, <2>2 DEF Placed
<1>2. /\ worker[w].fence \in 0 .. MaxFence /\ worker[w].blocked \in BOOLEAN
  BY WorkerIs DEF WorkerTypes
<1>3. PICK at \in {"beat", "last"}, b \in BOOLEAN, c \in BOOLEAN :
        Becomes(w, [Idle EXCEPT !.at = at, !.fence = worker[w].fence, !.blocked = b, !.clean = c])
  BY <1>2 DEF HeartbeatNext, Fail
<1>. QED
  BY <1>1, <1>2, <1>3, BecomesOnward

LEMMA Busy ==
  ASSUME WorkerTypes, NEW w \in Workers, worker[w].at \notin {"idle", "probed"}
  PROVE  /\ worker[w] \in Worker /\ worker[w].fence # 0
         /\ worker[w].fence \in 0 .. MaxFence /\ worker[w].fence \in Fences
         /\ worker[w].out \in Outs /\ worker[w].clean \in BOOLEAN
         /\ worker[w].at \in {"authorise", "write", "settle"} => worker[w].item \in Keys
         /\ worker[w].at \in {"board", "paint", "close", "block"} => worker[w].run \in Runs
<1>1. Placed(worker[w]) /\ worker[w] \in Worker
  BY DEF WorkerTypes
<1>2. worker[w].fence # 0 /\ worker[w].fence \in 0 .. MaxFence
  BY <1>1, WorkerIs DEF Placed
<1>3. worker[w].fence \in Fences
  BY <1>2, Bounds DEF Fences
<1>. QED
  BY <1>1, <1>2, <1>3, WorkerIs DEF Placed

LEMMA EndItemsOnward ==
  ASSUME WorkerTypes, NEW w \in Workers, EndItems(w)
  PROVE  Onward(w)
<1>1. worker[w].at = "next"
  BY DEF EndItems
<1>2. (worker[w].clean /\ worker[w].todo = {}) \in BOOLEAN
  OBVIOUS
<1>. QED
  BY <1>1, <1>2, Busy, FreshOnward DEF EndItems

LEMMA InspectOnward ==
  ASSUME WorkerTypes, NEW w \in Workers, Inspect(w)
  PROVE  Onward(w)
<1>1. worker[w].at = "next"
  BY DEF Inspect
<1>2. PICK k \in worker[w].todo, at \in {"settle", "authorise"}, out \in Outs, again \in BOOLEAN :
        Becomes(w, [worker[w] EXCEPT !.todo = @ \ {k}, !.item = k, !.at = at, !.out = out, !.again = again])
  BY DEF Inspect, Outs
<1>. DEFINE next == [worker[w] EXCEPT !.todo = @ \ {k}, !.item = k, !.at = at, !.out = out,
                                      !.again = again]
<1>3. k \in Keys /\ worker[w] \in Worker /\ worker[w].fence # 0
  BY <1>1, <1>2, Busy, WorkerIs
<1>4. next \in Worker /\ next.at = at /\ next.item = k /\ next.fence = worker[w].fence
  BY <1>2, <1>3 DEF Worker, Outs
<1>5. Becomes(w, next)
  BY <1>2
<1>. HIDE DEF next
<1>6. Placed(next) /\ next.at # "probed"
  BY <1>2, <1>3, <1>4 DEF Placed
<1>. QED
  BY <1>5, <1>6, BecomesOnward

LEMMA AuthoriseOnward ==
  ASSUME WorkerTypes, NEW w \in Workers, Authorise(w)
  PROVE  Onward(w)
<1>1. worker[w].at = "authorise"
  BY DEF Authorise
<1>2. worker[w].fence # 0 /\ worker[w].item \in Keys
  BY <1>1, Busy
<1>3. \/ Catch(w, "blocked") \/ NextItem(w, TRUE) \/ Go(w, "write")
      \/ Becomes(w, [worker[w] EXCEPT !.at = "settle", !.out = "retryable"])
  BY DEF Authorise
<1>4. "blocked" \in Outs /\ "retryable" \in Outs /\ "write" \in Ats \ {"idle", "probed"}
  BY DEF Outs, Ats
<1>5. CASE Catch(w, "blocked")
  BY <1>2, <1>4, <1>5, SettleOnward
<1>6. CASE NextItem(w, TRUE)
  BY <1>2, <1>6, NextItemOnward
<1>7. CASE Go(w, "write")
  BY <1>2, <1>4, <1>7, GoOnward
<1>8. CASE Becomes(w, [worker[w] EXCEPT !.at = "settle", !.out = "retryable"])
  BY <1>2, <1>4, <1>8, SettleOnward
<1>. QED
  BY <1>3, <1>5, <1>6, <1>7, <1>8

LEMMA SheetWriteOnward ==
  ASSUME WorkerTypes, NEW w \in Workers, NEW cells, NEW at \in {"settle", "close"},
         worker[w].fence # 0,
         at = "settle" => worker[w].item \in Keys, at = "close" => worker[w].run \in Runs,
         SheetWrite(w, cells, at)
  PROVE  Onward(w)
<1>1. PICK out \in Outs, again \in BOOLEAN :
        Becomes(w, [worker[w] EXCEPT !.at = at, !.out = out, !.again = again])
  <2>1. PICK reply \in Replies :
          Becomes(w, [worker[w] EXCEPT !.at = at, !.out = OutcomeOf(reply), !.again = reply # "ok"])
    BY DEF SheetWrite
  <2>2. OutcomeOf(reply) \in Outs /\ (reply # "ok") \in BOOLEAN
    BY DEF OutcomeOf, Outs
  <2>. QED
    BY <2>1, <2>2
<1>. DEFINE next == [worker[w] EXCEPT !.at = at, !.out = out, !.again = again]
<1>2. worker[w] \in Worker /\ out \in Outs /\ again \in BOOLEAN
  BY <1>1 DEF WorkerTypes
<1>3. next \in Worker /\ next.at = at /\ next.item = worker[w].item /\ next.run = worker[w].run
      /\ next.fence = worker[w].fence
  BY <1>2 DEF Worker, Outs
<1>4. Becomes(w, next)
  BY <1>1
<1>. HIDE DEF next
<1>5. Placed(next) /\ next.at # "probed"
  BY <1>3 DEF Placed
<1>. QED
  BY <1>4, <1>5, BecomesOnward

LEMMA WriteOnward ==
  ASSUME WorkerTypes, NEW w \in Workers, Write(w) \/ WriteBoard(w)
  PROVE  Onward(w)
<1>1. CASE Write(w)
  <2>1. worker[w].at = "write" /\ \E cells : SheetWrite(w, cells, "settle")
    BY <1>1 DEF Write
  <2>. QED
    BY <2>1, Busy, SheetWriteOnward
<1>2. CASE WriteBoard(w)
  <2>1. worker[w].at = "paint" /\ \E cells : SheetWrite(w, cells, "close")
    BY <1>2 DEF WriteBoard
  <2>. QED
    BY <2>1, Busy, SheetWriteOnward
<1>. QED
  BY <1>1, <1>2

LEMMA SettleItemOnward ==
  ASSUME WorkerTypes, NEW w \in Workers, Settle(w)
  PROVE  Onward(w)
<1>1. worker[w].at = "settle"
  BY DEF Settle
<1>2. worker[w].fence # 0 /\ worker[w].item \in Keys
  BY <1>1, Busy
<1>3. \/ HeartbeatNext(w, TRUE, FALSE) \/ Catch(w, "blocked") \/ Fail(w)
      \/ \E clean \in BOOLEAN : NextItem(w, clean)
  BY DEF Settle
<1>4. CASE HeartbeatNext(w, TRUE, FALSE) \/ Fail(w)
  BY <1>2, <1>4, FreshOnward
<1>5. CASE Catch(w, "blocked")
  BY <1>2, <1>5, SettleOnward DEF Outs
<1>6. CASE \E clean \in BOOLEAN : NextItem(w, clean)
  BY <1>2, <1>6, NextItemOnward
<1>. QED
  BY <1>3, <1>4, <1>5, <1>6

LEMMA BeatOnward ==
  ASSUME WorkerTypes, NEW w \in Workers, Beat(w) \/ LastBeat(w) \/ Complete(w) \/ Dies(w)
  PROVE  Onward(w)
<1>1. CASE Beat(w)
  <2>1. worker[w].at = "beat" /\ (Go(w, "complete") \/ Rest(w) \/ Fail(w))
    BY <1>1 DEF Beat
  <2>2. worker[w].fence # 0 /\ "complete" \in Ats \ {"idle", "probed"}
    BY <2>1, Busy DEF Ats
  <2>3. CASE Go(w, "complete")
    BY <2>2, <2>3, GoOnward
  <2>4. CASE Rest(w) \/ Fail(w)
    BY <2>2, <2>4, RestOnward, FreshOnward
  <2>. QED
    BY <2>1, <2>3, <2>4
<1>2. CASE LastBeat(w) \/ Complete(w) \/ Dies(w)
  BY <1>2, RestOnward DEF LastBeat, Complete, Dies
<1>. QED
  BY <1>1, <1>2

LEMMA CloseOnward ==
  ASSUME WorkerTypes, NEW w \in Workers, worker[w].fence # 0, worker[w].run \in Runs,
         NEW out \in Outs, CloseWith(w, out)
  PROVE  Onward(w)
<1>. DEFINE next == [worker[w] EXCEPT !.at = "close", !.out = out, !.again = TRUE]
<1>1. worker[w] \in Worker
  BY DEF WorkerTypes
<1>2. next \in Worker /\ next.at = "close" /\ next.run = worker[w].run
      /\ next.fence = worker[w].fence
  BY <1>1 DEF Worker, Outs
<1>3. Becomes(w, next)
  BY DEF CloseWith
<1>. HIDE DEF next
<1>4. Placed(next) /\ next.at # "probed"
  BY <1>2 DEF Placed
<1>. QED
  BY <1>3, <1>4, BecomesOnward

LEMMA BoardOnward ==
  ASSUME WorkerTypes, NEW w \in Workers, AuthoriseBoard(w) \/ CloseBoard(w) \/ BlockBoard(w)
  PROVE  Onward(w)
<1>1. worker[w].at \in {"board", "close", "block"}
  BY DEF AuthoriseBoard, CloseBoard, BlockBoard
<1>2. worker[w].fence # 0 /\ worker[w].run \in Runs
  BY <1>1, Busy
<1>3. \/ \E at \in {"paint", "block"} : Go(w, at)
      \/ \E out \in {"retryable", "blocked"} : CloseWith(w, out)
      \/ \E blocked \in BOOLEAN, clean \in BOOLEAN : HeartbeatNext(w, blocked, clean)
      \/ Fail(w)
  <2>1. CASE AuthoriseBoard(w)
    BY <2>1 DEF AuthoriseBoard
  <2>2. CASE CloseBoard(w)
    <3>1. (lease'.status = "blocked") \in BOOLEAN /\ (worker[w].out = "succeeded") \in BOOLEAN
      OBVIOUS
    <3>. QED
      BY <2>2, <3>1 DEF CloseBoard
  <2>3. CASE BlockBoard(w)
    BY <2>3 DEF BlockBoard
  <2>. QED
    BY <2>1, <2>2, <2>3
<1>4. CASE \E at \in {"paint", "block"} : Go(w, at)
  BY <1>2, <1>4, GoOnward DEF Ats
<1>5. CASE \E out \in {"retryable", "blocked"} : CloseWith(w, out)
  BY <1>2, <1>5, CloseOnward DEF Outs
<1>6. CASE (\E blocked \in BOOLEAN, clean \in BOOLEAN : HeartbeatNext(w, blocked, clean)) \/ Fail(w)
  BY <1>2, <1>6, FreshOnward
<1>. QED
  BY <1>3, <1>4, <1>5, <1>6

(***************************************************************************)
(* The claims                                                              *)
(***************************************************************************)
LEMMA RowMadeKept ==
  ASSUME NEW job \in Row, NEW f \in 0 .. MaxFence, f # 0, job.retries < MaxRetry
  PROVE  LET new == [job EXCEPT !.status = "processing", !.fence = f, !.started = FALSE] IN
         Kept(new) /\ new.status = "processing" /\ new.fence = f /\ new.started = FALSE
  BY DEF Row, Unsettled, Kept

LEMMA SettledKept ==
  ASSUME NEW s \in RowStatus \ {"processing"}
  PROVE  Kept(Settled(s))
  BY SettledIs DEF Kept, RowStatus

LEMMA BackRowKept ==
  ASSUME NEW job, NEW new, Kept(job), BackRow(new, job)
  PROVE  Kept(new)
  BY DEF Kept, BackRow

\* A row that is not taken is settled, given back or as it was.
BackOrSettled(new, job) ==
  \/ BackRow(new, job)
  \/ job.status # "absent" /\ \E s \in RowStatus \ {"processing", "absent"} : new = Settled(s)

LEMMA BackOrSettledKeeps ==
  ASSUME RowTypes, NEW k \in Keys, BackOrSettled(row'[k], row[k])
  PROVE  /\ RowKeeps(k) /\ Kept(row'[k])
         /\ (row'[k].status = "absent") <=> (row[k].status = "absent")
<1>1. CASE BackRow(row'[k], row[k])
  BY <1>1, BackRowKept DEF BackRow, RowKeeps, RowTypes, Kept
<1>2. CASE row[k].status # "absent" /\ \E s \in RowStatus \ {"processing", "absent"} : row'[k] = Settled(s)
  BY <1>2, SettledIs, SettledKept DEF RowKeeps, RowStatus
<1>. QED
  BY <1>1, <1>2 DEF BackOrSettled

LEMMA TakeRowsIs ==
  ASSUME RowTypes, QueueTypes, WorkerTypes, NEW w \in Workers, NEW due, TakeRows(w, due)
  PROVE  /\ \A k \in Keys : RowKeeps(k) \/ RowTakes(k)
         /\ \A k \in Keys : BackOrSettled(row'[k], row[k]) \/ RowTakes(k)
         /\ RowTypes' /\ LeaseTypes' /\ Entries
         /\ lease'.fence = lease.fence + 1 /\ lease'.status = "leased" /\ lapsed' = {}
         /\ Onward(w)
         /\ GateTypes /\ required' = required /\ maintenance' = maintenance => GateTypes'
<1>. DEFINE released == [k \in Keys |-> Released(row[k])]
            Open(k) == released[k].status \in {"pending", "failed"}
            Chosen(k) == /\ k \in due
                         /\ k.version = pin[k.room]
                         /\ k.reason = "rolledback" \/ Key(k.room, k.version, "rolledback") \notin due
            chosen == {k \in due : Chosen(k)}
            Replaced(k) == \/ k.version < pin[k.room] /\ \E j \in due : j.room = k.room
                           \/ \E j \in chosen : j.room = k.room
            taken(k) == [released[k] EXCEPT !.status = "processing", !.fence = lease.fence + 1, !.started = FALSE]
<1>1. due \subseteq {k \in Keys : Open(k) /\ released[k].retries < MaxRetry}
  BY DEF TakeRows
<1>2. Take("leased")
  BY DEF TakeRows
<1>3. row' = [k \in Keys |-> IF k \in chosen THEN taken(k)
                             ELSE IF Open(k) /\ Replaced(k) THEN Settled("superseded") ELSE released[k]]
  BY DEF TakeRows
<1>4. worker' = [worker EXCEPT ![w] = [Idle EXCEPT !.at = "next", !.fence = lease.fence + 1, !.todo = chosen]]
  BY DEF TakeRows
<1>5. \/ admission' = [admission EXCEPT ![lease.fence + 1] = [state |-> "open", owes |-> chosen, beat |-> "none"]]
      \/ admission' = admission
  BY DEF TakeRows
<1>6. chosen \in SUBSET Keys
  BY <1>1
<1>7. /\ lease' \in LeaseType /\ lease'.status = "leased" /\ lease'.fence = lease.fence + 1
      /\ lease.fence + 1 \in Fences /\ lease.fence + 1 \in 0 .. MaxFence
      /\ lease.fence + 1 # 0 /\ lapsed' = {}
  BY <1>2, TakeIs
<1>8. ASSUME NEW k \in Keys
      PROVE  /\ RowKeeps(k) \/ RowTakes(k)
             /\ BackOrSettled(row'[k], row[k]) \/ RowTakes(k)
             /\ Kept(row'[k])
             /\ (row'[k].status = "absent") <=> (row[k].status = "absent")
  <2>1. released[k] \in Row /\ BackRow(released[k], row[k])
    BY ReleasedRowIs DEF RowTypes, BackRow
  <2>2. CASE k \in chosen
    <3>1. /\ row'[k] = taken(k) /\ released[k].retries < MaxRetry
          /\ released[k].status \in {"pending", "failed"}
      BY <1>1, <1>3, <2>2
    <3>a. row[k].status # "absent"
      BY <2>1, <3>1 DEF BackRow
    <3>. HIDE DEF released, Open, chosen
    <3>2. Kept(taken(k)) /\ taken(k).status = "processing" /\ taken(k).fence = lease.fence + 1
          /\ taken(k).started = FALSE
      BY <1>7, <2>1, <3>1, RowMadeKept
    <3>. HIDE DEF taken
    <3>. QED
      BY <1>7, <3>1, <3>a, <3>2 DEF RowTakes
  <2>3. CASE k \notin chosen
    <3>1. \/ row'[k] = released[k]
          \/ row'[k] = Settled("superseded") /\ released[k].status \in {"pending", "failed"}
      BY <1>3, <2>3
    <3>. HIDE DEF released, Open, chosen, taken
    <3>2. BackOrSettled(row'[k], row[k])
      BY <2>1, <3>1 DEF BackOrSettled, RowStatus, BackRow
    <3>. QED
      BY <3>2, BackOrSettledKeeps
  <2>. QED
    BY <2>2, <2>3
<1>. HIDE DEF chosen
<1>9. RowTypes'
  <2>1. row' = [k \in Keys |-> row'[k]]
    BY <1>3
  <2>. QED
    BY <1>8, <2>1 DEF RowTypes, Kept
<1>10. Onward(w)
  <2>. DEFINE next == [Idle EXCEPT !.at = "next", !.fence = lease.fence + 1, !.todo = chosen]
  <2>1. Idle \in Worker
    BY IdleIs
  <2>2. next \in Worker /\ next.at = "next" /\ next.fence = lease.fence + 1
    BY <1>6, <1>7, <2>1 DEF Worker
  <2>3. worker' = [worker EXCEPT ![w] = next]
    BY <1>4
  <2>. HIDE DEF next
  <2>. QED
    BY <1>7, <2>2, <2>3 DEF Onward, WorkerTypes, Placed
<1>11. LeaseTypes'
  BY <1>7 DEF LeaseTypes
<1>12. ASSUME GateTypes, required' = required, maintenance' = maintenance
       PROVE  GateTypes'
  <2>1. [state |-> "open", owes |-> chosen, beat |-> "none"] \in Admission
    BY <1>6 DEF Admission
  <2>. QED
    BY <1>5, <1>7, <1>12, <2>1 DEF GateTypes
<1>. QED
  BY <1>7, <1>8, <1>9, <1>10, <1>11, <1>12 DEF Entries

LEMMA KeepsRow ==
  ASSUME NEW k \in Keys, row'[k] = row[k]
  PROVE  RowKeeps(k)
  BY DEF RowKeeps

LEMMA BackRunKeeps ==
  ASSUME QueueTypes, QueueOK, NEW i \in Runs, BackRun(resync'[i], resync[i])
  PROVE  /\ RunKeeps(i) /\ resync'[i] \in Resync /\ resync'[i].retries < MaxRetry
         /\ resync'[i].status = "processing" => resync'[i] = resync[i]
<1>1. resync[i].started => resync[i].status = "processing"
  BY DEF QueueOK, Plain
<1>2. resync[i].retries < MaxRetry
  BY DEF QueueTypes, RunTypes
<1>. QED
  BY <1>1, <1>2 DEF BackRun, RunKeeps, Unsettled

\* Processing beside a mark of the lease is no other full resync.
LEMMA MarkIsAlone ==
  ASSUME QueueOK, NEW i \in Runs, resync[i].status = "processing",
         \/ \E k \in Keys : Marked(row[k], lease.fence)
         \/ \E j \in Runs : Marked(resync[j], lease.fence)
  PROVE  Marked(resync[i], lease.fence)
<1>1. resync[i].fence = lease.fence
  BY DEF QueueOK, Running
<1>2. ~\E k \in Keys : Marked(row[k], lease.fence)
  BY <1>1 DEF QueueOK, Apart, Marked, Claimed
<1>3. PICK j \in Runs : Marked(resync[j], lease.fence)
  BY <1>2
<1>4. j = i
  BY <1>3 DEF QueueOK, OneChainPerBlock, Marked, Claimed, Unsettled
<1>. QED
  BY <1>3, <1>4

LEMMA ClaimRowsIs ==
  ASSUME RowTypes, QueueTypes, WorkerTypes, QueueOK, NEW w \in Workers, NEW due,
         ClaimRows(w, due), lease.fence \in lapsed /\ lease.status = "leased" =>
           \A i \in Runs : ~Claimed(resync[i], lease.fence)
  PROVE  RowTypes' /\ QueueTypes' /\ QueueOK' /\ Onward(w) /\ Entries
<1>1. /\ ~LeaseUp /\ lease.status # "blocked" /\ resync' = resync
      /\ \A i \in Runs : RunKeeps(i)
      /\ RunTypes'
  <2>1. resync' = resync
    BY DEF ClaimRows
  <2>2. \A i \in Runs : resync[i].started => resync[i].status = "processing"
    BY DEF QueueOK, Plain
  <2>. QED
    BY <2>1, <2>2 DEF ClaimRows, RunKeeps, QueueTypes, RunTypes
<1>2. CASE RowsAreUncertain
  <2>1. lease' = Blocked /\ Rest(w) /\ row' = row /\ lapsed' = lapsed
    BY <1>2 DEF ClaimRows
  <2>2. \A i \in Runs : resync[i].status # "processing"
    BY <1>2 DEF RowsAreUncertain, Marked, Claimed, QueueOK, Running, Apart
  <2>3. Onward(w)
    BY <2>1, RestOnward
  <2>4. RowTypes' /\ QueueTypes' /\ Stops /\ lease'.fence = lease.fence /\ Entries
    BY <1>1, <2>1, <2>2, LeaseIs DEF RowTypes, QueueTypes, LeaseTypes, Stops, Entries
  <2>5. \A k \in Keys : RowKeeps(k)
    BY <2>1, KeepsRow
  <2>6. NoProbe
    BY <2>1, <2>3 DEF NoProbe, Onward
  <2>7. QueueOK'
    BY <1>1, <2>4, <2>5, <2>6, SameFence
  <2>. QED
    BY <2>3, <2>4, <2>7
<1>3. CASE ~RowsAreUncertain
  <2>1. TakeRows(w, due)
    BY <1>3 DEF ClaimRows
  <2>2. /\ \A k \in Keys : RowKeeps(k) \/ RowTakes(k)
        /\ RowTypes' /\ LeaseTypes' /\ Entries
        /\ lease'.fence = lease.fence + 1 /\ lease'.status = "leased" /\ lapsed' = {}
        /\ Onward(w)
    BY <2>1, TakeRowsIs
  <2>3. lease.status = "leased" =>
          /\ \A k \in Keys : ~Marked(row[k], lease.fence)
          /\ \A i \in Runs : ~Claimed(resync[i], lease.fence)
    BY <1>1, <1>3 DEF RowsAreUncertain, Uncertain, LeaseUp
  <2>4. Answered
    BY <1>1, <2>3 DEF Answered, Marked
  <2>5. \A i \in Runs : resync'[i].status # "processing"
    BY <1>1, <2>3 DEF QueueOK, Running, Claimed
  <2>6. QueueTypes'
    BY <1>1, <2>2 DEF QueueTypes
  <2>7. QueueOK'
    BY <1>1, <2>2, <2>4, <2>5, <2>6, NextFence
  <2>. QED
    BY <2>2, <2>6, <2>7
<1>. QED
  BY <1>2, <1>3

LEMMA ClaimIs ==
  ASSUME RowTypes, QueueTypes, WorkerTypes, QueueOK, NEW w \in Workers, NEW due,
         ClaimProbed(w, due) \/ ClaimAdmitted(w, due)
  PROVE  RowTypes' /\ QueueTypes' /\ QueueOK' /\ Onward(w) /\ Entries
<1>1. lease.fence \in lapsed /\ lease.status = "leased" =>
        \A i \in Runs : ~Claimed(resync[i], lease.fence)
  BY DEF ClaimProbed, ClaimAdmitted, QueueOK, ProbeIsFresh, Claimed
<1>2. ClaimRows(w, due)
  BY DEF ClaimProbed, ClaimAdmitted
<1>. QED
  BY <1>1, <1>2, ClaimRowsIs

\* The runs whose mark a lapsed lease left are blocked, and no run is in process then.
LEMMA UncertainEnds ==
  ASSUME QueueTypes, QueueOK, Uncertain, NEW i \in Runs
  PROVE  LET new == UncertainRunsBlocked[i] IN
         /\ new \in Resync /\ new.retries < MaxRetry /\ new.status # "processing"
         /\ new.reconciles = resync[i].reconciles
         /\ \/ new = resync[i] /\ resync[i].status # "processing"
            \/ /\ resync[i].status = "processing" /\ resync[i].fence = lease.fence
               /\ new.status = "blocked" /\ new.fence = resync[i].fence /\ new.started = FALSE
<1>1. resync[i] \in Resync /\ resync[i].retries < MaxRetry
  BY DEF QueueTypes, RunTypes
<1>2. CASE Marked(resync[i], lease.fence)
  <2>1. UncertainRunsBlocked[i] = Ended(resync[i], "blocked")
    BY <1>2 DEF UncertainRunsBlocked
  <2>2. "blocked" \in {"succeeded", "blocked", "superseded"}
    OBVIOUS
  <2>3. /\ Ended(resync[i], "blocked") \in Resync /\ Ended(resync[i], "blocked").status = "blocked"
        /\ Ended(resync[i], "blocked").fence = resync[i].fence
        /\ Ended(resync[i], "blocked").started = FALSE /\ Ended(resync[i], "blocked").retries = 0
        /\ Ended(resync[i], "blocked").reconciles = resync[i].reconciles
    BY <1>1, <2>2, EndedIs
  <2>. QED
    BY <1>2, <2>1, <2>3, Bounds DEF Marked, Claimed
<1>3. CASE ~Marked(resync[i], lease.fence)
  <2>1. UncertainRunsBlocked[i] = resync[i]
    BY <1>3 DEF UncertainRunsBlocked
  <2>2. resync[i].status # "processing"
    BY <1>3, MarkIsAlone DEF Uncertain
  <2>. QED
    BY <1>1, <2>1, <2>2
<1>. QED
  BY <1>2, <1>3

LEMMA ProbeIs ==
  ASSUME RowTypes, QueueTypes, WorkerTypes, QueueOK, NEW w \in Workers, ProbeResync(w)
  PROVE  RowTypes' /\ QueueTypes' /\ QueueOK' /\ WorkerTypes' /\ Entries
<1>. DEFINE released == [i \in Runs |-> Released(resync[i])]
            First(i) == released[i].status \in {"pending", "failed"}
                          /\ \A j \in 1 .. i - 1 : released[j].status # "pending"
<1>1. row' = row /\ ~LeaseUp /\ RowTypes' /\ \A k \in Keys : RowKeeps(k)
  BY KeepsRow DEF ProbeResync, RowTypes
<1>e. Entries
  BY <1>1 DEF Entries
<1>b. ASSUME NEW i \in Runs
      PROVE  BackRun(released[i], resync[i])
  BY ReleasedRunIs DEF QueueTypes, RunTypes
<1>2. CASE Uncertain /\ resync' = UncertainRunsBlocked /\ lease' = Blocked /\ UNCHANGED <<lapsed, worker>>
  <2>1. lease'.status = "blocked" /\ lease'.fence = lease.fence /\ lease' \in LeaseType
    BY <1>2, LeaseIs
  <2>2. ASSUME NEW i \in Runs
        PROVE  /\ resync'[i] \in Resync /\ resync'[i].retries < MaxRetry
               /\ resync'[i].status # "processing"
               /\ RunKeeps(i) \/ RunStops(i)
    <3>1. resync'[i] = UncertainRunsBlocked[i]
      BY <1>2
    <3>2. resync[i].started => resync[i].status = "processing"
      BY DEF QueueOK, Plain
    <3>. QED
      BY <1>2, <2>1, <3>1, <3>2, UncertainEnds DEF RunKeeps, RunStops
  <2>3. RunTypes'
    BY <1>2, <2>2 DEF RunTypes, UncertainRunsBlocked
  <2>4. QueueTypes'
    BY <1>2, <2>1, <2>3 DEF QueueTypes, LeaseTypes
  <2>5. Stops /\ NoProbe
    BY <1>2, <2>1, <2>2 DEF Stops, NoProbe
  <2>6. QueueOK'
    BY <1>1, <2>1, <2>2, <2>4, <2>5, SameFence
  <2>. QED
    BY <1>1, <1>e, <1>2, <2>4, <2>6 DEF WorkerTypes
<1>3. CASE /\ ~Uncertain /\ resync' = released /\ UNCHANGED <<lease, lapsed>>
           /\ Go(w, "probed") \/ UNCHANGED worker
           /\ worker[w] = Idle
  <2>1. ASSUME NEW i \in Runs
        PROVE  /\ RunKeeps(i) /\ resync'[i] \in Resync /\ resync'[i].retries < MaxRetry
    BY <1>3, <1>b, BackRunKeeps
  <2>2. RunTypes' /\ QueueTypes'
    BY <1>3, <2>1 DEF RunTypes, QueueTypes, LeaseTypes
  <2>3. ProbeIsFresh'
    <3>1. SUFFICES ASSUME lease.status = "leased", lease.fence \in lapsed, NEW i \in Runs,
                          Claimed(released[i], lease.fence)
                   PROVE  FALSE
      BY <1>3 DEF ProbeIsFresh, Claimed
    <3>2. Claimed(resync[i], lease.fence)
      BY <1>b, <3>1 DEF BackRun, Claimed
    <3>3. ~resync[i].started
      BY <1>3, <3>1, <3>2 DEF Uncertain, Marked
    <3>4. released[i].status = "pending"
      BY <3>1, <3>2, <3>3, ReleasedRunIs DEF Claimed, QueueTypes, RunTypes
    <3>. QED
      BY <3>1, <3>4 DEF Claimed
  <2>4. QueueOK'
    BY <1>1, <1>3, <2>1, <2>2, <2>3, SameFence
  <2>5. WorkerTypes'
    <3>1. CASE UNCHANGED worker
      BY <3>1 DEF WorkerTypes
    <3>2. CASE Go(w, "probed")
      <4>1. Idle \in Worker /\ Idle.fence = 0
        BY IdleIs
      <4>2. [worker[w] EXCEPT !.at = "probed"] \in Worker /\ [worker[w] EXCEPT !.at = "probed"].at = "probed"
            /\ [worker[w] EXCEPT !.at = "probed"].fence = worker[w].fence
        <5>1. \A it \in Worker : [it EXCEPT !.at = "probed"] \in Worker
                                 /\ [it EXCEPT !.at = "probed"].at = "probed"
                                 /\ [it EXCEPT !.at = "probed"].fence = it.fence
          BY DEF Worker
        <5>. QED
          BY <5>1 DEF WorkerTypes
      <4>3. Placed([worker[w] EXCEPT !.at = "probed"])
        BY <1>3, <4>1, <4>2 DEF Placed
      <4>. QED
        BY <3>2, <4>3, BecomesIs DEF Go
    <3>. QED
      BY <1>3, <3>1, <3>2
  <2>. QED
    BY <1>1, <1>e, <2>2, <2>4, <2>5
<1>4. ASSUME NEW i \in Runs, ~Uncertain, First(i), MayRecover(i, released[i]),
             \/ /\ Take("leased")
                /\ resync' = [released EXCEPT ![i].status = "processing", ![i].fence = lease.fence + 1]
                /\ worker' = [worker EXCEPT ![w] =
                     [Idle EXCEPT !.at = "board", !.fence = lease.fence + 1, !.run = i,
                                  !.copy = [r \in Rooms |-> resync[i].snapshot[r].version]]]
             \/ /\ Take("blocked")
                /\ resync' = [released EXCEPT ![i] =
                     Ended([resync[i] EXCEPT !.fence = lease.fence + 1], "blocked")]
                /\ UNCHANGED worker
      PROVE  RowTypes' /\ QueueTypes' /\ QueueOK' /\ WorkerTypes'
  <2>1. PICK s \in {"leased", "blocked"} : Take(s)
    BY <1>4
  <2>2. /\ lease' \in LeaseType /\ lease'.fence = lease.fence + 1
        /\ lease.fence + 1 \in 0 .. MaxFence /\ lease.fence + 1 # 0 /\ lapsed' = {}
        /\ lease'.status \in {"leased", "blocked"}
    BY <2>1, TakeIs
  <2>3. resync[i] \in Resync /\ resync[i].retries < MaxRetry
    BY DEF QueueTypes, RunTypes
  <2>4. /\ resync[i].status \in Unsettled /\ released[i].started = FALSE /\ released[i] \in Resync
        /\ released[i].reconciles = resync[i].reconciles /\ released[i].retries < MaxRetry
    <3>1. resync[i].started => resync[i].status = "processing"
      BY DEF QueueOK, Plain
    <3>2. released[i].status \in {"pending", "failed"}
      BY <1>4
    <3>3. released[i].started \in BOOLEAN
      BY <1>b, RunIs DEF BackRun
    <3>. HIDE DEF released
    <3>. QED
      BY <1>b, <2>3, <3>1, <3>2, <3>3 DEF BackRun, Unsettled
  <2>5. /\ RunTakes(i) /\ resync'[i] \in Resync /\ resync'[i].retries < MaxRetry
        /\ \A j \in Runs \ {i} : resync'[j] = released[j]
        /\ resync' = [j \in Runs |-> resync'[j]]
    <3>. HIDE DEF released, First
    <3>1. CASE /\ Take("leased")
               /\ resync' = [released EXCEPT ![i].status = "processing", ![i].fence = lease.fence + 1]
      <4>1. resync'[i] = [released[i] EXCEPT !.status = "processing", !.fence = lease.fence + 1]
        BY <3>1 DEF released
      <4>2. /\ resync'[i] \in Resync /\ resync'[i].status = "processing"
            /\ resync'[i].fence = lease.fence + 1 /\ resync'[i].started = released[i].started
            /\ resync'[i].retries = released[i].retries
            /\ resync'[i].reconciles = released[i].reconciles
        BY <2>2, <2>4, <4>1 DEF Resync, Unsettled
      <4>3. lease'.status = "leased"
        BY <3>1, TakeIs
      <4>4. /\ \A j \in Runs \ {i} : resync'[j] = released[j]
            /\ resync' = [j \in Runs |-> resync'[j]]
        BY <3>1 DEF released
      <4>. QED
        BY <2>2, <2>4, <4>2, <4>3, <4>4 DEF RunTakes
    <3>2. CASE /\ Take("blocked")
               /\ resync' = [released EXCEPT ![i] =
                    Ended([resync[i] EXCEPT !.fence = lease.fence + 1], "blocked")]
      <4>. DEFINE run == [resync[i] EXCEPT !.fence = lease.fence + 1]
      <4>1. run \in Resync /\ run.fence = lease.fence + 1 /\ run.reconciles = resync[i].reconciles
        BY <2>2, <2>3 DEF Resync
      <4>2. resync'[i] = Ended(run, "blocked")
        BY <3>2 DEF released
      <4>. HIDE DEF run
      <4>3. /\ resync'[i] \in Resync /\ resync'[i].status = "blocked"
            /\ resync'[i].fence = lease.fence + 1 /\ resync'[i].started = FALSE
            /\ resync'[i].retries = 0 /\ resync'[i].reconciles = resync[i].reconciles
        <5>1. "blocked" \in {"succeeded", "blocked", "superseded"}
          OBVIOUS
        <5>2. /\ Ended(run, "blocked") \in Resync /\ Ended(run, "blocked").status = "blocked"
              /\ Ended(run, "blocked").fence = run.fence /\ Ended(run, "blocked").started = FALSE
              /\ Ended(run, "blocked").retries = 0
              /\ Ended(run, "blocked").reconciles = run.reconciles
          BY <4>1, <5>1, EndedIs
        <5>. QED
          BY <4>1, <4>2, <5>2
      <4>4. lease'.status = "blocked"
        BY <3>2, TakeIs
      <4>5. /\ \A j \in Runs \ {i} : resync'[j] = released[j]
            /\ resync' = [j \in Runs |-> resync'[j]]
        BY <3>2 DEF released
      <4>. QED
        BY <2>2, <2>4, <4>3, <4>4, <4>5, Bounds DEF RunTakes
    <3>. QED
      BY <1>4, <3>1, <3>2
  <2>6. ASSUME NEW j \in Runs \ {i}
        PROVE  /\ RunKeeps(j) /\ resync'[j] \in Resync /\ resync'[j].retries < MaxRetry
               /\ resync'[j].status # "processing"
    <3>1. /\ RunKeeps(j) /\ resync'[j] \in Resync /\ resync'[j].retries < MaxRetry
          /\ resync'[j].status = "processing" => resync'[j] = resync[j]
      BY <1>b, <2>5, BackRunKeeps
    <3>2. resync[j].status # "processing"
      BY <2>4 DEF QueueOK, OneChainPerBlock, Unsettled
    <3>. QED
      BY <3>1, <3>2
  <2>. HIDE DEF released, First
  <2>7. QueueTypes'
    BY <2>2, <2>5, <2>6 DEF QueueTypes, RunTypes, LeaseTypes
  <2>8. Answered
    <3>1. lease.status = "blocked" => RecoveryAsked(lease.fence)
      <4>1. ASSUME lease.status = "blocked" PROVE resync[i].reconciles = lease.fence
        BY <1>4, <4>1 DEF MayRecover
      <4>2. lease.fence \in Nat
        BY LeaseIs
      <4>. QED
        BY <4>1, <4>2 DEF RecoveryAsked
    <3>. QED
      BY <1>1, <1>4, <3>1 DEF Answered, LeaseUp, Uncertain
  <2>9. QueueOK'
    <3>1. \A k \in Keys : ~RowTakes(k)
      <4>1. ASSUME NEW k \in Keys PROVE row'[k].fence # lease.fence + 1
        <5>1. row[k].fence <= lease.fence /\ row[k].fence \in Nat /\ lease.fence \in Nat
          BY LeaseIs, RowIs DEF QueueOK, Fenced, RowTypes
        <5>. QED
          BY <1>1, <5>1
      <4>. QED
        BY <2>2, <4>1 DEF RowTakes
    <3>. QED
      BY <1>1, <2>2, <2>5, <2>6, <2>7, <2>8, <3>1, NextFence
  <2>10. WorkerTypes'
    <3>. DEFINE copy == [r \in Rooms |-> resync[i].snapshot[r].version]
                next == [Idle EXCEPT !.at = "board", !.fence = lease.fence + 1, !.run = i, !.copy = copy]
    <3>1. CASE UNCHANGED worker
      BY <3>1 DEF WorkerTypes
    <3>2. CASE worker' = [worker EXCEPT ![w] = next]
      <4>1. copy \in [Rooms -> 0 .. MaxVersion]
        BY <2>3, RunIs DEF Snapshot
      <4>2. Idle \in Worker /\ i \in 0 .. MaxResync
        BY IdleIs, Bounds DEF Runs
      <4>. HIDE DEF copy
      <4>3. next \in Worker /\ next.at = "board" /\ next.fence = lease.fence + 1 /\ next.run = i
        BY <2>2, <4>1, <4>2 DEF Worker
      <4>. HIDE DEF next
      <4>. QED
        BY <2>2, <3>2, <4>3 DEF WorkerTypes, Placed
    <3>. QED
      BY <1>4, <3>1, <3>2
  <2>. QED
    BY <1>1, <2>7, <2>9, <2>10
<1>. QED
  BY <1>e, <1>2, <1>3, <1>4 DEF ProbeResync

\* What a request makes of the run it is for; the others end or stay as they are.
LEMMA RequestIs ==
  ASSUME RowTypes, QueueTypes, DomainTypes, WorkerTypes, QueueOK, NEW i \in Runs, RequestResync(i)
  PROVE  RowTypes' /\ QueueTypes' /\ QueueOK' /\ WorkerTypes' /\ Entries
<1>. DEFINE after == IF Uncertain THEN UncertainRunsBlocked ELSE resync
            blocked == lease.status = "blocked" \/ Uncertain
            origin == {j \in Runs : after[j].status = "blocked" /\ after[j].fence = lease.fence}
            standing == [j \in Runs |-> IF blocked /\ after[j].status \in {"pending", "failed"}
                                        THEN Ended(after[j], "superseded") ELSE after[j]]
            asked == [NoResync EXCEPT
                        !.status = "pending", !.snapshot = Current,
                        !.reconciles = IF blocked THEN lease.fence ELSE 0,
                        !.root = IF blocked /\ origin # {} THEN after[CHOOSE j \in origin : TRUE].root ELSE i]
<1>1. /\ row' = row /\ worker' = worker /\ lapsed' = lapsed /\ ~LeaseUp
      /\ resync[i].status = "none"
      /\ MayAsk(after, blocked)
      /\ lease' = IF blocked THEN Blocked ELSE [lease EXCEPT !.status = "idle"]
      /\ resync' = [standing EXCEPT ![i] = asked]
  BY DEF RequestResync
<1>2. /\ RowTypes' /\ WorkerTypes' /\ LeaseTypes' /\ lease'.fence = lease.fence
      /\ \A k \in Keys : RowKeeps(k)
      /\ NoProbe
      /\ lease'.status = IF blocked THEN "blocked" ELSE "idle"
  BY <1>1, LeaseIs, KeepsRow DEF RowTypes, WorkerTypes, QueueTypes, LeaseTypes, NoProbe
<1>3. ASSUME NEW j \in Runs
      PROVE  /\ after[j] \in Resync /\ after[j].retries < MaxRetry
             /\ after[j].reconciles = resync[j].reconciles
             /\ after[j].status = "processing" => ~blocked
             /\ \/ after[j] = resync[j]
                \/ /\ Uncertain /\ resync[j].status = "processing" /\ resync[j].fence = lease.fence
                   /\ after[j].status = "blocked" /\ after[j].fence = resync[j].fence
                   /\ after[j].started = FALSE
  <2>1. CASE Uncertain
    BY <2>1, UncertainEnds
  <2>2. CASE ~Uncertain
    BY <2>2 DEF QueueTypes, RunTypes, QueueOK, Running
  <2>. QED
    BY <2>1, <2>2
<1>4. ASSUME NEW j \in Runs \ {i}
      PROVE  /\ resync'[j] \in Resync /\ resync'[j].retries < MaxRetry
             /\ resync'[j].status \notin Unsettled
             /\ RunKeeps(j) \/ RunStops(j)
  <2>1. resync[j].started => resync[j].status = "processing"
    BY DEF QueueOK, Plain
  <2>2. CASE blocked /\ after[j].status \in {"pending", "failed"}
    <3>1. after[j] = resync[j]
      BY <1>3, <2>2
    <3>2. resync'[j] = Ended(resync[j], "superseded")
      BY <1>1, <2>2, <3>1
    <3>3. /\ resync'[j] \in Resync /\ resync'[j].status = "superseded" /\ resync'[j].fence = 0
          /\ resync'[j].started = FALSE /\ resync'[j].retries = 0
          /\ resync'[j].reconciles = resync[j].reconciles
      <4>1. "superseded" \in {"succeeded", "blocked", "superseded"} /\ resync[j] \in Resync
        BY DEF QueueTypes, RunTypes
      <4>2. /\ Ended(resync[j], "superseded") \in Resync
            /\ Ended(resync[j], "superseded").status = "superseded"
            /\ Ended(resync[j], "superseded").fence = 0
            /\ Ended(resync[j], "superseded").started = FALSE
            /\ Ended(resync[j], "superseded").retries = 0
            /\ Ended(resync[j], "superseded").reconciles = resync[j].reconciles
        BY <4>1, EndedIs
      <4>. QED
        BY <3>2, <4>2
    <3>. QED
      BY <3>3, Bounds DEF RunKeeps, Unsettled
  <2>3. CASE ~(blocked /\ after[j].status \in {"pending", "failed"})
    <3>1. resync'[j] = after[j]
      BY <1>1, <2>3
    <3>2. after[j].status \notin Unsettled
      <4>1. after[j].status \in Unsettled => blocked
        BY <1>1 DEF MayAsk
      <4>. QED
        BY <1>3, <2>3, <4>1 DEF Unsettled
    <3>. HIDE DEF after, blocked, standing, origin, asked
    <3>3. CASE after[j] = resync[j]
      BY <1>3, <2>1, <3>1, <3>2, <3>3 DEF RunKeeps, Unsettled
    <3>4. CASE after[j] # resync[j]
      <4>1. /\ Uncertain /\ resync[j].status = "processing" /\ resync[j].fence = lease.fence
            /\ after[j].status = "blocked" /\ after[j].fence = resync[j].fence
            /\ after[j].started = FALSE
        BY <1>3, <3>4
      <4>2. lease'.status = "blocked"
        BY <1>2, <4>1 DEF blocked
      <4>3. RunStops(j)
        BY <1>3, <3>1, <4>1, <4>2 DEF RunStops
      <4>. QED
        BY <1>3, <3>1, <3>2, <4>3
    <3>. QED
      BY <3>3, <3>4
  <2>. QED
    BY <2>2, <2>3
<1>5. /\ resync'[i] \in Resync /\ resync'[i].retries = 0 /\ resync'[i].status = "pending"
      /\ resync'[i].fence = 0 /\ resync'[i].started = FALSE
      /\ resync'[i].reconciles \in 0 .. MaxFence
  <2>1. resync'[i] = asked
    BY <1>1
  <2>2. Current \in [Rooms -> Snapshot]
    BY DEF Current, Snapshot, DomainTypes
  <2>3. (IF blocked THEN lease.fence ELSE 0) \in 0 .. MaxFence
    BY LeaseIs, Bounds
  <2>4. (IF blocked /\ origin # {} THEN after[CHOOSE j \in origin : TRUE].root ELSE i) \in 0 .. MaxResync
    <3>1. i \in 0 .. MaxResync
      BY Bounds DEF Runs
    <3>2. origin # {} => (CHOOSE j \in origin : TRUE) \in Runs
      OBVIOUS
    <3>3. \A j \in Runs : after[j].root \in 0 .. MaxResync
      BY <1>3, RunIs
    <3>. HIDE DEF after, origin, blocked
    <3>. QED
      BY <3>1, <3>2, <3>3
  <2>. DEFINE made(s, f, o) == [NoResync EXCEPT !.status = "pending", !.snapshot = s,
                                                !.reconciles = f, !.root = o]
  <2>5. \A s \in [Rooms -> Snapshot], f \in 0 .. MaxFence, o \in 0 .. MaxResync :
          /\ made(s, f, o) \in Resync /\ made(s, f, o).retries = 0
          /\ made(s, f, o).status = "pending" /\ made(s, f, o).fence = 0
          /\ made(s, f, o).started = FALSE /\ made(s, f, o).reconciles = f
    BY NoResyncIs DEF Resync, Unsettled
  <2>6. resync'[i] = made(Current, IF blocked THEN lease.fence ELSE 0,
                          IF blocked /\ origin # {} THEN after[CHOOSE j \in origin : TRUE].root ELSE i)
    BY <2>1
  <2>. HIDE DEF made, after, blocked, origin, standing, asked
  <2>. QED
    BY <2>2, <2>3, <2>4, <2>5, <2>6
<1>6. RunTypes' /\ QueueTypes'
  <2>1. resync' = [j \in Runs |-> resync'[j]]
    BY <1>1
  <2>. QED
    BY <1>2, <1>4, <1>5, <2>1, Bounds DEF RunTypes, QueueTypes
<1>7. RunAsks(i)
  BY <1>1, <1>4, <1>5 DEF RunAsks
<1>8. \A j \in Runs : resync'[j].status # "processing"
  BY <1>4, <1>5 DEF Unsettled
<1>9. Stops \/ Idles
  <2>1. CASE blocked
    BY <1>2, <1>8, <2>1 DEF Stops
  <2>2. CASE ~blocked
    <3>1. \A j \in Runs : resync[j].status \notin Unsettled
      BY <1>1, <1>3, <2>2 DEF MayAsk
    <3>2. lease.status = "leased" => \A k \in Keys : ~Marked(row[k], lease.fence)
      BY <1>1, <2>2 DEF Uncertain, LeaseUp
    <3>. QED
      BY <1>2, <1>8, <2>2, <3>1, <3>2 DEF Idles, Marked, Claimed, Unsettled
  <2>. QED
    BY <2>1, <2>2
<1>10. QueueOK'
  BY <1>2, <1>4, <1>6, <1>7, <1>9, SameFence
<1>11. Entries
  BY <1>1 DEF Entries
<1>. QED
  BY <1>2, <1>6, <1>10, <1>11

(***************************************************************************)
(* The other steps of the queue                                            *)
(***************************************************************************)
LEMMA RowPut ==
  ASSUME RowTypes, NEW k \in Keys, NEW job, Kept(job), row' = [row EXCEPT ![k] = job]
  PROVE  RowTypes' /\ row'[k] = job /\ \A j \in Keys \ {k} : row'[j] = row[j] /\ RowKeeps(j)
  BY DEF RowTypes, Kept, RowKeeps

LEMMA RunPut ==
  ASSUME QueueTypes, QueueOK, NEW i \in Runs, NEW run \in Resync, run.retries < MaxRetry,
         resync' = [resync EXCEPT ![i] = run]
  PROVE  RunTypes' /\ resync'[i] = run /\ \A j \in Runs \ {i} : resync'[j] = resync[j] /\ RunKeeps(j)
<1>1. \A j \in Runs : resync[j].started => resync[j].status = "processing"
  BY DEF QueueOK, Plain
<1>2. \A j \in Runs \ {i} : resync'[j] = resync[j]
  BY DEF QueueTypes, RunTypes
<1>. QED
  BY <1>1, <1>2 DEF QueueTypes, RunTypes, RunKeeps

LEMMA SameRuns ==
  ASSUME QueueTypes, QueueOK, resync' = resync
  PROVE  RunTypes' /\ \A i \in Runs : RunKeeps(i)
  BY DEF QueueTypes, RunTypes, RunKeeps, QueueOK, Plain

LEMMA SameRows ==
  ASSUME RowTypes, row' = row
  PROVE  RowTypes' /\ \A k \in Keys : RowKeeps(k)
  BY DEF RowTypes, RowKeeps

LEMMA BlockedLease ==
  ASSUME QueueTypes, lease' = lease \/ lease' = Blocked, lapsed' = lapsed
  PROVE  LeaseTypes' /\ lease'.fence = lease.fence
  BY LeaseIs DEF QueueTypes, LeaseTypes

LEMMA OnwardNoProbe ==
  ASSUME NEW w \in Workers, Onward(w), lapsed' = lapsed
  PROVE  NoProbe
  BY DEF Onward, NoProbe

LEMMA QuietIs ==
  ASSUME RowTypes, QueueTypes, QueueOK, UNCHANGED queue, lapsed' = lapsed, NoProbe
  PROVE  RowTypes' /\ QueueTypes' /\ QueueOK' /\ Entries
<1>1. row' = row /\ resync' = resync /\ lease' = lease
  BY DEF queue
<1>2. RowTypes' /\ RunTypes' /\ LeaseTypes'
  BY <1>1, SameRows, SameRuns, BlockedLease
<1>. QED
  BY <1>1, <1>2, SameRows, SameRuns, SameFence DEF QueueTypes, Entries

\* A row of the lease is not beside a full resync in process.
LEMMA RowIsAlone ==
  ASSUME QueueOK, NEW k \in Keys, row[k].status = "processing", Live(row[k].fence)
  PROVE  \A i \in Runs : resync[i].status # "processing"
  BY DEF QueueOK, Apart, Running, Live

LEMMA AuthoriseIs ==
  ASSUME RowTypes, QueueTypes, WorkerTypes, QueueOK, NEW w \in Workers, Authorise(w)
  PROVE  RowTypes' /\ QueueTypes' /\ QueueOK' /\ Entries
<1>1. /\ resync' = resync /\ lease' = lease /\ lapsed' = lapsed /\ NoProbe
      /\ worker[w].at = "authorise"
  BY AuthoriseOnward, OnwardNoProbe DEF Authorise
<1>2. PICK k \in Keys : k = worker[w].item
  BY <1>1, Busy
<1>3. RowTypes' /\ Entries /\ \A j \in Keys : RowKeeps(j) \/ RowMarks(j)
  <2>1. CASE row' = row
    BY <2>1, SameRows DEF Entries
  <2>2. CASE row' # row
    <3>1. /\ Live(worker[w].fence) /\ Mine(w)
          /\ row' = [row EXCEPT ![k] = Settled("superseded")] \/ row' = [row EXCEPT ![k].started = TRUE]
      BY <1>2, <2>2 DEF Authorise
    <3>e. row[k].status # "absent"
      BY <1>2, <3>1 DEF Mine, Claimed
    <3>2. CASE row' = [row EXCEPT ![k] = Settled("superseded")]
      <4>1. Kept(Settled("superseded"))
        BY SettledKept DEF RowStatus
      <4>2. RowTypes' /\ row'[k] = Settled("superseded")
            /\ \A j \in Keys \ {k} : row'[j] = row[j] /\ RowKeeps(j)
        BY <3>2, <4>1, RowPut
      <4>3. RowKeeps(k)
        BY <4>2, SettledIs DEF RowKeeps, RowStatus
      <4>. QED
        BY <3>e, <4>2, <4>3, SettledIs DEF Entries, RowStatus
    <3>3. CASE row' = [row EXCEPT ![k].started = TRUE]
      <4>. DEFINE job == [row[k] EXCEPT !.started = TRUE]
      <4>1. row[k] \in Row /\ Kept(row[k])
        BY DEF RowTypes
      <4>2. /\ job \in Row /\ job.status = row[k].status /\ job.fence = row[k].fence
            /\ job.retries = row[k].retries
        BY <4>1 DEF Row
      <4>3. row' = [row EXCEPT ![k] = job]
        BY <3>3
      <4>. HIDE DEF job
      <4>4. Kept(job)
        BY <4>1, <4>2 DEF Kept
      <4>5. RowTypes' /\ row'[k] = job /\ \A j \in Keys \ {k} : row'[j] = row[j] /\ RowKeeps(j)
        BY <4>3, <4>4, RowPut
      <4>6. RowMarks(k)
        BY <1>1, <1>2, <3>1, <4>2, <4>5 DEF RowMarks, Mine, Claimed, Live, LeaseUp
      <4>. QED
        BY <3>e, <4>2, <4>5, <4>6 DEF Entries
    <3>. QED
      BY <3>1, <3>2, <3>3
  <2>. QED
    BY <2>1, <2>2
<1>4. QueueTypes' /\ \A i \in Runs : RunKeeps(i)
  BY <1>1, SameRuns, BlockedLease DEF QueueTypes
<1>. QED
  BY <1>1, <1>3, <1>4, SameFence

LEMMA SettleRowIs ==
  ASSUME RowTypes, NEW k \in Keys, row[k].status = "processing", NEW outcome, SettleRow(k, outcome),
         outcome \in Outs \cup {"superseded"}
  PROVE  /\ RowTypes' /\ \A j \in Keys : RowKeeps(j)
         /\ lease' = lease \/ lease' = Blocked
         /\ row'[k].started /\ row'[k].status \in Unsettled => outcome = "blocked" /\ row[k].started
         /\ row'[k].status \in Unsettled => outcome \in {"retryable", "blocked"}
         /\ row'[k].status # "processing" /\ row'[k].status # "absent"
         /\ \A j \in Keys \ {k} : row'[j] = row[j]
<1>1. row[k] \in Row /\ Kept(row[k]) /\ row[k].retries < MaxRetry
      /\ row[k].retries \in 0 .. MaxRetry /\ row[k].retries \in Nat
  BY RowIs DEF RowTypes, Kept
<1>2. lease' = lease \/ lease' = Blocked
  BY DEF SettleRow, Outs
<1>. DEFINE failed == [Settled("failed") EXCEPT !.retries = row[k].retries + 1]
            stuck == [row[k] EXCEPT !.status = "failed", !.fence = 0]
<1>3. \/ \E s \in {"superseded", "succeeded"} : row' = [row EXCEPT ![k] = Settled(s)]
      \/ outcome = "retryable" /\ row' = [row EXCEPT ![k] = failed]
      \/ outcome = "blocked" /\ row' = [row EXCEPT ![k] = stuck]
  BY DEF SettleRow, Outs
<1>4. failed \in Row /\ failed.status = "failed" /\ failed.fence = 0 /\ failed.started = FALSE
  <2>1. row[k].retries + 1 \in 0 .. MaxRetry
    BY <1>1, Bounds
  <2>2. Settled("failed") \in Row /\ Settled("failed").fence = 0 /\ Settled("failed").status = "failed"
        /\ Settled("failed").started = FALSE
    BY SettledIs DEF RowStatus
  <2>. QED
    BY <2>1, <2>2 DEF Row
<1>5. stuck \in Row /\ stuck.status = "failed" /\ stuck.fence = 0 /\ stuck.started = row[k].started
  <2>1. row[k] \in Row /\ 0 \in 0 .. MaxFence
    BY <1>1, Bounds
  <2>. QED
    BY <2>1 DEF Row, Unsettled
<1>. HIDE DEF failed, stuck
<1>6. CASE \E s \in {"superseded", "succeeded"} : row' = [row EXCEPT ![k] = Settled(s)]
  <2>1. PICK s \in {"superseded", "succeeded"} : row' = [row EXCEPT ![k] = Settled(s)]
    BY <1>6
  <2>2. Kept(Settled(s)) /\ Settled(s).fence = 0 /\ Settled(s).status = s
    BY SettledKept, SettledIs DEF RowStatus
  <2>3. RowTypes' /\ row'[k] = Settled(s) /\ \A j \in Keys \ {k} : row'[j] = row[j] /\ RowKeeps(j)
    BY <2>1, <2>2, RowPut
  <2>. QED
    BY <1>2, <2>2, <2>3 DEF RowKeeps, Unsettled
<1>7. CASE outcome = "retryable" /\ row' = [row EXCEPT ![k] = failed]
  <2>1. RowTypes' /\ row'[k] = failed /\ \A j \in Keys \ {k} : row'[j] = row[j] /\ RowKeeps(j)
    BY <1>4, <1>7, RowPut DEF Kept
  <2>2. RowKeeps(k)
    BY <1>4, <2>1 DEF RowKeeps
  <2>. QED
    BY <1>2, <1>4, <1>7, <2>1, <2>2
<1>8. CASE outcome = "blocked" /\ row' = [row EXCEPT ![k] = stuck]
  <2>1. RowTypes' /\ row'[k] = stuck /\ \A j \in Keys \ {k} : row'[j] = row[j] /\ RowKeeps(j)
    BY <1>5, <1>8, RowPut DEF Kept
  <2>. QED
    BY <1>2, <1>5, <1>8, <2>1 DEF RowKeeps
<1>. QED
  BY <1>3, <1>6, <1>7, <1>8

LEMMA SettleIs ==
  ASSUME RowTypes, QueueTypes, WorkerTypes, QueueOK, NEW w \in Workers, Settle(w)
  PROVE  RowTypes' /\ QueueTypes' /\ QueueOK' /\ Entries
<1>1. /\ resync' = resync /\ lapsed' = lapsed /\ NoProbe /\ worker[w].at = "settle"
  BY SettleItemOnward, OnwardNoProbe DEF Settle
<1>2. PICK k \in Keys : k = worker[w].item
  BY <1>1, Busy
<1>3. CASE row' = row /\ lease' = lease
  BY <1>1, <1>3, QuietIs DEF queue
<1>4. CASE ~(row' = row /\ lease' = lease)
  <2>1. PICK outcome \in Outs \cup {"superseded"} :
          Live(worker[w].fence) /\ Mine(w) /\ SettleRow(k, outcome)
    BY <1>1, <1>2, <1>4, Busy DEF Settle
  <2>2. row[k].status = "processing" /\ Live(row[k].fence)
    BY <1>2, <2>1 DEF Mine, Claimed
  <2>3. /\ RowTypes' /\ \A j \in Keys : RowKeeps(j)
        /\ lease' = lease \/ lease' = Blocked
        /\ Entries
    BY <2>1, <2>2, SettleRowIs DEF Entries
  <2>4. lease' = lease \/ Stops
    BY <1>1, <2>2, <2>3, LeaseIs, RowIsAlone DEF Stops
  <2>5. QueueTypes' /\ lease'.fence = lease.fence /\ \A i \in Runs : RunKeeps(i)
    BY <1>1, <2>3, BlockedLease, SameRuns DEF QueueTypes
  <2>. QED
    BY <1>1, <2>3, <2>4, <2>5, SameFence
<1>. QED
  BY <1>3, <1>4

LEMMA HeartbeatIs ==
  ASSUME RowTypes, QueueTypes, QueueOK, NEW w \in Workers, Heartbeat(w), lapsed' = lapsed, NoProbe
  PROVE  RowTypes' /\ QueueTypes' /\ QueueOK' /\ Entries
<1>. DEFINE f == worker[w].fence
<1>1. /\ BeatStands(w) /\ lease.fence = f
      /\ row' = [k \in Keys |-> Returned(row[k], f)]
      /\ resync' = [i \in Runs |-> Returned(resync[i], f)]
      /\ lease' = IF lease.status = "leased" THEN [lease EXCEPT !.status = "idle"] ELSE lease
  BY DEF Heartbeat, BeatStands
<1>. HIDE DEF f
<1>2. ASSUME NEW k \in Keys
      PROVE  /\ RowKeeps(k) /\ Kept(row'[k])
             /\ (row'[k].status = "absent") <=> (row[k].status = "absent")
  <2>1. row[k] \in Row
    BY DEF RowTypes
  <2>2. BackOrSettled(row'[k], row[k])
    BY <1>1, <2>1, ReturnedRowIs DEF BackOrSettled
  <2>. QED
    BY <2>2, BackOrSettledKeeps
<1>3. RowTypes' /\ Entries
  BY <1>1, <1>2 DEF RowTypes, Kept, Entries
<1>4. ASSUME NEW i \in Runs
      PROVE  /\ RunKeeps(i) /\ resync'[i] \in Resync /\ resync'[i].retries < MaxRetry
             /\ lease.status = "leased" => resync'[i].status # "processing"
  <2>1. resync[i] \in Resync
    BY DEF QueueTypes, RunTypes
  <2>2. BackRun(resync'[i], resync[i])
    BY <1>1, <2>1, ReturnedRunIs
  <2>3. /\ RunKeeps(i) /\ resync'[i] \in Resync /\ resync'[i].retries < MaxRetry
        /\ resync'[i].status = "processing" => resync'[i] = resync[i]
    BY <2>2, BackRunKeeps
  <2>4. ASSUME lease.status = "leased", resync'[i].status = "processing"
        PROVE  FALSE
    <3>1. Claimed(resync[i], f) /\ ~resync[i].started
      BY <1>1, <2>3, <2>4 DEF QueueOK, Running, Claimed, BeatStands, Marked, f
    <3>2. resync'[i].status = "pending"
      BY <1>1, <2>1, <3>1, ReturnedRunIs
    <3>. QED
      BY <2>4, <3>2
  <2>. QED
    BY <2>3, <2>4
<1>5. RunTypes'
  BY <1>1, <1>4 DEF RunTypes
<1>6. CASE lease.status = "leased"
  <2>1. lease' \in LeaseType /\ lease'.fence = lease.fence /\ lease'.status = "idle"
    BY <1>1, <1>6, LeaseIs
  <2>2. Idles
    BY <1>1, <1>4, <1>6, <2>1 DEF Idles, BeatStands, f
  <2>3. QueueTypes'
    BY <1>5, <2>1 DEF QueueTypes, LeaseTypes
  <2>. QED
    BY <1>2, <1>3, <1>4, <2>1, <2>2, <2>3, SameFence
<1>7. CASE lease.status # "leased"
  <2>1. lease' = lease /\ QueueTypes'
    BY <1>1, <1>5, <1>7 DEF QueueTypes, LeaseTypes
  <2>. QED
    BY <1>2, <1>3, <1>4, <2>1, SameFence
<1>. QED
  BY <1>6, <1>7

LEMMA BeatIs ==
  ASSUME RowTypes, QueueTypes, WorkerTypes, QueueOK, NEW w \in Workers, Beat(w) \/ LastBeat(w)
  PROVE  RowTypes' /\ QueueTypes' /\ QueueOK' /\ Entries
<1>1. lapsed' = lapsed /\ (Heartbeat(w) \/ UNCHANGED queue)
  BY DEF Beat, LastBeat
<1>2. NoProbe
  BY <1>1, BeatOnward, OnwardNoProbe
<1>. QED
  BY <1>1, <1>2, HeartbeatIs, QuietIs

\* There is a version left for the change under way: its rows are counted.
LEMMA VersionLeft ==
  ASSUME DomainTypes, Mounted, NEW r \in Rooms, change[r] # "none"
  PROVE  pin[r] < MaxVersion /\ pin[r] + 1 \in 1 .. MaxVersion
<1>. DEFINE key == [v \in 1 .. pin[r] |-> Key(r, v, "confirmed")]
            number == [k \in Entered(r) |-> IF k.reason = "confirmed" THEN k.version ELSE k.version + MaxVersion]
<1>1. pin[r] \in 0 .. MaxVersion /\ pin[r] \in Nat /\ MaxVersion \in Nat
  BY Bounds DEF DomainTypes
<1>2. key \in Injection(1 .. pin[r], Entered(r))
  <2>1. ASSUME NEW v \in 1 .. pin[r]
        PROVE  Key(r, v, "confirmed") \in Entered(r)
    <3>1. v \in 1 .. MaxVersion
      BY <1>1
    <3>. QED
      BY <3>1 DEF Mounted, Entered, Key, Keys
  <2>2. ASSUME NEW v \in 1 .. pin[r], NEW u \in 1 .. pin[r],
               Key(r, v, "confirmed") = Key(r, u, "confirmed")
        PROVE  v = u
    BY <2>2 DEF Key
  <2>. QED
    BY <2>1, <2>2 DEF Injection, IsInjective
<1>3. number \in Injection(Entered(r), 1 .. MaxVersion + MaxVersion)
  <2>1. ASSUME NEW k \in Entered(r)
        PROVE  /\ k.room = r /\ k.version \in 1 .. MaxVersion /\ k.reason \in {"confirmed", "rolledback"}
               /\ k = [room |-> k.room, version |-> k.version, reason |-> k.reason]
    BY DEF Entered, Keys
  <2>2. ASSUME NEW k \in Entered(r)
        PROVE  number[k] \in 1 .. MaxVersion + MaxVersion
    BY <1>1, <2>1
  <2>3. ASSUME NEW k \in Entered(r), NEW j \in Entered(r), number[k] = number[j]
        PROVE  k = j
    <3>1. k.version = j.version /\ k.reason = j.reason
      BY <1>1, <2>1, <2>3
    <3>. QED
      BY <2>1, <3>1
  <2>. QED
    BY <2>2, <2>3 DEF Injection, IsInjective
<1>4. IsFiniteSet(1 .. MaxVersion + MaxVersion)
  BY <1>1, FS_Interval
<1>5. IsFiniteSet(Entered(r))
  BY <1>3, <1>4, FS_Injection
<1>6. Cardinality(1 .. pin[r]) <= Cardinality(Entered(r)) /\ Cardinality(Entered(r)) \in Nat
  BY <1>2, <1>5, FS_Injection, FS_CardinalityType
<1>7. Cardinality(1 .. pin[r]) = pin[r]
  BY <1>1, FS_Interval
<1>8. Cardinality(Entered(r)) < MaxVersion
  BY DEF Mounted
<1>. QED
  BY <1>1, <1>6, <1>7, <1>8

LEMMA ChangesIs ==
  ASSUME RowTypes, QueueTypes, WorkerTypes, DomainTypes, Mounted, QueueOK, NEW r \in Rooms,
         ChangeSteps(r)
  PROVE  RowTypes' /\ QueueTypes' /\ QueueOK' /\ DomainTypes' /\ Mounted'
<1>1. /\ resync' = resync /\ lease' = lease /\ lapsed' = lapsed /\ worker' = worker
  BY DEF ChangeSteps, PreparePin, ConfirmBegins, ConfirmCommits, RollbackPin, queue
<1>2. NoProbe
  BY <1>1 DEF NoProbe
<1>3. change[r] \in {"none", "open", "confirming"} /\ pin[r] \in 0 .. MaxVersion
  BY DEF DomainTypes
<1>4. CASE PreparePin(r) \/ ConfirmBegins(r)
  <2>1. row' = row /\ pin' = pin
    BY <1>4 DEF PreparePin, ConfirmBegins, queue
  <2>2. DomainTypes'
    BY <1>4, <2>1 DEF PreparePin, ConfirmBegins, DomainTypes
  <2>3. \A q \in Rooms : Entered(q)' = Entered(q)
    BY <2>1 DEF Entered
  <2>4. \A q \in Rooms : change'[q] # "none" => Cardinality(Entered(q)) < MaxVersion
    BY <1>4 DEF PreparePin, ConfirmBegins, Mounted, DomainTypes, Entered
  <2>5. Mounted'
    BY <2>1, <2>3, <2>4 DEF Mounted
  <2>. QED
    BY <1>1, <1>2, <2>1, <2>2, <2>5, QuietIs DEF queue
<1>5. CASE ConfirmCommits(r) \/ RollbackPin(r)
  <2>1. PICK key \in Keys :
          /\ key.room = r /\ row' = Enter(key) /\ change[r] # "none"
          /\ change' = [change EXCEPT ![r] = "none"]
          /\ \/ pin' = pin
             \/ pin' = [pin EXCEPT ![r] = @ + 1] /\ key = Key(r, pin[r] + 1, "confirmed")
    <3>1. CASE ConfirmCommits(r)
      <4>1. pin[r] + 1 \in 1 .. MaxVersion
        BY <3>1, VersionLeft DEF ConfirmCommits
      <4>2. Key(r, pin[r] + 1, "confirmed") \in Keys /\ Key(r, pin[r] + 1, "confirmed").room = r
        BY <4>1 DEF Key, Keys
      <4>. QED
        BY <3>1, <4>2 DEF ConfirmCommits
    <3>2. CASE RollbackPin(r)
      <4>1. pin[r] \in 1 .. MaxVersion
        BY <1>3, <3>2, Bounds DEF RollbackPin
      <4>2. Key(r, pin[r], "rolledback") \in Keys /\ Key(r, pin[r], "rolledback").room = r
        BY <4>1 DEF Key, Keys
      <4>. QED
        BY <3>2, <4>2 DEF RollbackPin
    <3>. QED
      BY <1>5, <3>1, <3>2
  <2>2. PICK job : /\ row' = [row EXCEPT ![key] = job]
                   /\ \/ job = row[key] /\ row[key].status # "absent"
                      \/ job = Settled("pending")
    BY <2>1 DEF Enter
  <2>3. /\ Kept(job) /\ job.status # "absent"
        /\ job = row[key] \/ (job.fence = 0 /\ job.status # "processing")
    <3>1. CASE job = row[key] /\ row[key].status # "absent"
      <4>1. Kept(row[key])
        BY DEF RowTypes
      <4>. QED
        BY <3>1, <4>1
    <3>2. CASE job = Settled("pending")
      <4>1. "pending" \in RowStatus \ {"processing"}
        BY DEF RowStatus
      <4>. QED
        BY <3>2, <4>1, SettledIs, SettledKept
    <3>. QED
      BY <2>2, <3>1, <3>2
  <2>4. RowTypes' /\ row'[key] = job /\ \A k \in Keys \ {key} : row'[k] = row[k] /\ RowKeeps(k)
    BY <2>2, <2>3, RowPut
  <2>5. RowKeeps(key)
    BY <2>3, <2>4 DEF RowKeeps
  <2>6. QueueTypes' /\ \A i \in Runs : RunKeeps(i)
    BY <1>1, SameRuns DEF QueueTypes, LeaseTypes
  <2>7. QueueOK'
    BY <1>1, <1>2, <2>4, <2>5, <2>6, SameFence
  <2>8. DomainTypes'
    <3>1. pin[r] < MaxVersion /\ pin[r] + 1 \in 1 .. MaxVersion
      BY <2>1, VersionLeft
    <3>2. pin[r] + 1 \in 0 .. MaxVersion
      BY <3>1, Bounds
    <3>. QED
      BY <2>1, <3>2 DEF DomainTypes
  <2>9. Mounted'
    <3>1. ASSUME NEW q \in Rooms, NEW v \in 1 .. pin'[q]
          PROVE  row'[Key(q, v, "confirmed")].status # "absent"
      <4>1. CASE v \in 1 .. pin[q]
        <5>1. Key(q, v, "confirmed") \in Keys
          <6>1. pin[q] \in 0 .. MaxVersion
            BY DEF DomainTypes
          <6>2. v \in 1 .. MaxVersion
            BY <4>1, <6>1, Bounds
          <6>. QED
            BY <6>2 DEF Key, Keys
        <5>2. row[Key(q, v, "confirmed")].status # "absent"
          BY <4>1 DEF Mounted
        <5>. QED
          BY <2>3, <2>4, <5>1, <5>2
      <4>2. CASE v \notin 1 .. pin[q]
        <5>1. q = r /\ pin' = [pin EXCEPT ![r] = @ + 1] /\ key = Key(r, pin[r] + 1, "confirmed")
          BY <2>1, <3>1, <4>2 DEF DomainTypes
        <5>2. v = pin[r] + 1
          <6>1. pin'[r] = pin[r] + 1 /\ pin[r] \in Nat
            BY <1>3, <5>1, Bounds DEF DomainTypes
          <6>2. v \in 1 .. pin'[r] /\ v \notin 1 .. pin[r]
            BY <3>1, <4>2, <5>1
          <6>. QED
            BY <6>1, <6>2
        <5>. QED
          BY <2>3, <2>4, <5>1, <5>2
      <4>. QED
        BY <4>1, <4>2
    <3>2. ASSUME NEW q \in Rooms, change'[q] # "none"
          PROVE  Cardinality(Entered(q)') < MaxVersion
      <4>1. q # r /\ change[q] # "none"
        BY <2>1, <3>2 DEF DomainTypes
      <4>2. Entered(q)' = Entered(q)
        BY <2>1, <2>4, <4>1 DEF Entered
      <4>. QED
        BY <4>1, <4>2 DEF Mounted
    <3>. QED
      BY <3>1, <3>2 DEF Mounted
  <2>. QED
    BY <2>4, <2>6, <2>7, <2>8, <2>9
<1>. QED
  BY <1>4, <1>5 DEF ChangeSteps

LEMMA MountedStays ==
  ASSUME Mounted, DomainTypes, Entries, UNCHANGED domain
  PROVE  Mounted' /\ DomainTypes'
<1>1. pin' = pin /\ change' = change
  BY DEF domain
<1>2. \A r \in Rooms : Entered(r)' = Entered(r)
  BY DEF Entered, Entries
<1>3. ASSUME NEW r \in Rooms, NEW v \in 1 .. pin[r]
      PROVE  row'[Key(r, v, "confirmed")].status # "absent"
  <2>1. v \in 1 .. MaxVersion
    BY Bounds DEF DomainTypes
  <2>2. Key(r, v, "confirmed") \in Keys
    BY <2>1 DEF Key, Keys
  <2>. QED
    BY <2>2 DEF Entries, Mounted
<1>. QED
  BY <1>1, <1>2, <1>3 DEF Mounted, DomainTypes

\* What a step does to the run of a full resync it works on.
LEMMA RunEnds ==
  ASSUME QueueTypes, QueueOK, NEW i \in Runs, resync[i].status = "processing",
         NEW s \in {"succeeded", "blocked", "superseded"},
         resync' = [resync EXCEPT ![i] = Ended(resync[i], s)],
         s = "blocked" => lease'.status = "blocked"
  PROVE  /\ RunTypes' /\ \A j \in Runs : RunKeeps(j) \/ RunStops(j)
         /\ \A j \in Runs : resync'[j].status # "processing"
<1>1. resync[i] \in Resync
  BY DEF QueueTypes, RunTypes
<1>2. /\ Ended(resync[i], s) \in Resync /\ Ended(resync[i], s).status = s
      /\ s = "blocked" => Ended(resync[i], s).fence = resync[i].fence
      /\ s # "blocked" => Ended(resync[i], s).fence = 0
      /\ Ended(resync[i], s).started = FALSE /\ Ended(resync[i], s).retries = 0
      /\ Ended(resync[i], s).reconciles = resync[i].reconciles
  BY <1>1, EndedIs
<1>. DEFINE run == Ended(resync[i], s)
<1>3. run \in Resync /\ run.retries < MaxRetry /\ resync' = [resync EXCEPT ![i] = run]
  BY <1>2, Bounds
<1>4. RunTypes' /\ resync'[i] = run /\ \A j \in Runs \ {i} : resync'[j] = resync[j] /\ RunKeeps(j)
  BY <1>3, RunPut
<1>5. RunKeeps(i) \/ RunStops(i)
  BY <1>2, <1>4 DEF RunKeeps, RunStops, Unsettled
<1>6. \A j \in Runs \ {i} : resync[j].status # "processing"
  BY DEF QueueOK, OneChainPerBlock, Unsettled
<1>. QED
  BY <1>2, <1>4, <1>5, <1>6

LEMMA AuthoriseBoardIs ==
  ASSUME RowTypes, QueueTypes, WorkerTypes, DomainTypes, Mounted, QueueOK, NEW w \in Workers,
         AuthoriseBoard(w)
  PROVE  RowTypes' /\ QueueTypes' /\ QueueOK' /\ Entries
<1>1. /\ row' = row /\ lapsed' = lapsed /\ NoProbe /\ worker[w].at = "board"
  BY BoardOnward, OnwardNoProbe DEF AuthoriseBoard
<1>2. RowTypes' /\ Entries /\ \A k \in Keys : RowKeeps(k)
  BY <1>1, SameRows DEF Entries
<1>3. PICK i \in Runs : i = worker[w].run
  BY <1>1, Busy
<1>4. CASE resync' = resync /\ lease' = lease
  BY <1>1, <1>2, <1>4, QuietIs DEF queue
<1>. DEFINE covers == {k \in Keys : row[k].status # "absent"} \cup
                        {Key(r, pin[r] + 1, "confirmed") : r \in {q \in Rooms : change[q] = "confirming"}}
<1>5. CASE /\ Live(worker[w].fence) /\ MyRun(w)
           /\ \/ /\ resync' = [resync EXCEPT ![i].started = TRUE, ![i].covers = covers]
                 /\ lease' = lease
              \/ resync' = [resync EXCEPT ![i] = Ended(@, "superseded")] /\ lease' = lease
              \/ resync' = [resync EXCEPT ![i] = Ended(@, "blocked")] /\ lease' = Blocked
  <2>1. resync[i].status = "processing" /\ Live(resync[i].fence)
    BY <1>3, <1>5 DEF MyRun, Claimed
  <2>2. LeaseTypes' /\ lease'.fence = lease.fence
    BY <1>1, <1>5, BlockedLease
  <2>3. CASE /\ resync' = [resync EXCEPT ![i].started = TRUE, ![i].covers = covers]
             /\ lease' = lease
    <3>. DEFINE run == [resync[i] EXCEPT !.started = TRUE, !.covers = covers]
    <3>1. covers \in SUBSET Keys
      <4>1. ASSUME NEW r \in Rooms, change[r] = "confirming"
            PROVE  Key(r, pin[r] + 1, "confirmed") \in Keys
        <5>1. pin[r] + 1 \in 1 .. MaxVersion
          BY <4>1, VersionLeft
        <5>. QED
          BY <5>1 DEF Key, Keys
      <4>. QED
        BY <4>1
    <3>2. resync[i] \in Resync /\ resync[i].retries < MaxRetry
      BY DEF QueueTypes, RunTypes
    <3>. HIDE DEF covers
    <3>3. /\ run \in Resync /\ run.status = resync[i].status /\ run.fence = resync[i].fence
          /\ run.retries = resync[i].retries /\ run.reconciles = resync[i].reconciles
      BY <3>1, <3>2 DEF Resync
    <3>4. resync' = [resync EXCEPT ![i] = run]
      BY <2>3
    <3>. HIDE DEF run
    <3>5. RunTypes' /\ resync'[i] = run /\ \A j \in Runs \ {i} : RunKeeps(j)
      BY <3>2, <3>3, <3>4, RunPut
    <3>6. RunMarks(i)
      BY <2>1, <2>3, <3>3, <3>5 DEF RunMarks, Live, LeaseUp
    <3>. QED
      BY <1>1, <1>2, <2>2, <2>3, <3>5, <3>6, SameFence DEF QueueTypes
  <2>4. CASE resync' = [resync EXCEPT ![i] = Ended(@, "superseded")] /\ lease' = lease
    <3>1. RunTypes' /\ \A j \in Runs : RunKeeps(j) \/ RunStops(j)
      BY <2>1, <2>4, RunEnds
    <3>. QED
      BY <1>1, <1>2, <2>2, <2>4, <3>1, SameFence DEF QueueTypes
  <2>5. CASE resync' = [resync EXCEPT ![i] = Ended(@, "blocked")] /\ lease' = Blocked
    <3>1. lease'.status = "blocked"
      BY <2>5, LeaseIs
    <3>2. /\ RunTypes' /\ \A j \in Runs : RunKeeps(j) \/ RunStops(j)
          /\ \A j \in Runs : resync'[j].status # "processing"
      BY <2>1, <2>5, <3>1, RunEnds
    <3>. QED
      BY <1>1, <1>2, <2>2, <3>1, <3>2, SameFence DEF QueueTypes, Stops
  <2>. QED
    BY <1>5, <2>3, <2>4, <2>5
<1>. QED
  BY <1>3, <1>4, <1>5 DEF AuthoriseBoard

LEMMA BlockBoardIs ==
  ASSUME RowTypes, QueueTypes, WorkerTypes, QueueOK, NEW w \in Workers, BlockBoard(w)
  PROVE  RowTypes' /\ QueueTypes' /\ QueueOK' /\ Entries
<1>1. /\ row' = row /\ lapsed' = lapsed /\ NoProbe /\ worker[w].at = "block"
  BY BoardOnward, OnwardNoProbe DEF BlockBoard
<1>2. RowTypes' /\ Entries /\ \A k \in Keys : RowKeeps(k)
  BY <1>1, SameRows DEF Entries
<1>3. PICK i \in Runs : i = worker[w].run
  BY <1>1, Busy
<1>4. CASE resync' = resync /\ lease' = lease
  BY <1>1, <1>2, <1>4, QuietIs DEF queue
<1>5. CASE /\ Marked(resync[i], worker[w].fence)
           /\ resync' = [resync EXCEPT ![i] = Ended(@, "blocked")] /\ lease' = Blocked
  <2>1. lease'.status = "blocked" /\ LeaseTypes' /\ lease'.fence = lease.fence
    BY <1>1, <1>5, BlockedLease, LeaseIs
  <2>2. /\ RunTypes' /\ \A j \in Runs : RunKeeps(j) \/ RunStops(j)
        /\ \A j \in Runs : resync'[j].status # "processing"
    BY <1>5, <2>1, RunEnds DEF Marked, Claimed
  <2>. QED
    BY <1>1, <1>2, <2>1, <2>2, SameFence DEF QueueTypes, Stops
<1>. QED
  BY <1>3, <1>4, <1>5 DEF BlockBoard

\* Settling the board: what it repaired is superseded, the run is over.
LEMMA CloseRowsIs ==
  ASSUME RowTypes, NEW i \in Runs,
         row' = [k \in Keys |-> IF Repaired(i, k) THEN Settled("superseded") ELSE row[k]]
  PROVE  RowTypes' /\ Entries /\ \A k \in Keys : RowKeeps(k)
<1>1. ASSUME NEW k \in Keys
      PROVE  BackOrSettled(row'[k], row[k])
  <2>1. row'[k] = IF Repaired(i, k) THEN Settled("superseded") ELSE row[k]
    OBVIOUS
  <2>2. row[k] \in Row /\ "superseded" \in RowStatus \ {"processing", "absent"}
    BY DEF RowTypes, RowStatus
  <2>3. Repaired(i, k) => row[k].status # "absent"
    BY DEF Repaired, Unsettled
  <2>. QED
    BY <2>1, <2>2, <2>3 DEF BackOrSettled, BackRow
<1>2. \A k \in Keys : RowKeeps(k) /\ Kept(row'[k]) /\ ((row'[k].status = "absent") <=> (row[k].status = "absent"))
  BY <1>1, BackOrSettledKeeps
<1>. QED
  BY <1>2 DEF RowTypes, Entries, Kept

LEMMA CloseRunIs ==
  ASSUME RowTypes, QueueTypes, QueueOK, NEW i \in Runs, resync[i].status = "processing",
         NEW out \in Outs, CloseRun(i, out), lapsed' = lapsed, NoProbe
  PROVE  RowTypes' /\ QueueTypes' /\ QueueOK' /\ Entries
<1>1. resync[i] \in Resync /\ resync[i].retries < MaxRetry
  BY DEF QueueTypes, RunTypes
<1>2. CASE out = "succeeded"
  <2>. DEFINE Chain(j) == /\ j < i /\ resync[j].status = "blocked"
                          /\ resync[i].reconciles # 0 /\ resync[j].root = resync[i].root
  <2>1. /\ row' = [k \in Keys |-> IF Repaired(i, k) THEN Settled("superseded") ELSE row[k]]
        /\ resync' = [j \in Runs |-> IF j = i THEN Ended(resync[i], "succeeded")
                                     ELSE IF Chain(j) THEN Ended(resync[j], "superseded") ELSE resync[j]]
        /\ lease' = lease
    BY <1>2 DEF CloseRun
  <2>2. ASSUME NEW j \in Runs
        PROVE  RunKeeps(j) /\ resync'[j] \in Resync /\ resync'[j].retries < MaxRetry
    <3>1. resync[j] \in Resync /\ resync[j].retries < MaxRetry
          /\ (resync[j].started => resync[j].status = "processing")
      BY DEF QueueTypes, RunTypes, QueueOK, Plain
    <3>2. PICK s \in {"succeeded", "superseded"} : resync'[j] \in {Ended(resync[j], s), resync[j]}
      BY <2>1
    <3>3. CASE resync'[j] = Ended(resync[j], s)
      <4>1. /\ Ended(resync[j], s) \in Resync /\ Ended(resync[j], s).status = s
            /\ Ended(resync[j], s).fence = 0
            /\ Ended(resync[j], s).started = FALSE /\ Ended(resync[j], s).retries = 0
            /\ Ended(resync[j], s).reconciles = resync[j].reconciles
        <5>1. s \in {"succeeded", "blocked", "superseded"} /\ s # "blocked"
          BY <3>2
        <5>. QED
          BY <3>1, <5>1, EndedIs
      <4>. QED
        BY <3>3, <4>1, Bounds DEF RunKeeps, Unsettled
    <3>4. CASE resync'[j] = resync[j]
      BY <3>1, <3>4 DEF RunKeeps
    <3>. QED
      BY <3>2, <3>3, <3>4
  <2>3. RunTypes'
    BY <2>1, <2>2 DEF RunTypes
  <2>4. QueueTypes'
    BY <2>1, <2>3, BlockedLease DEF QueueTypes
  <2>5. RowTypes' /\ Entries /\ \A k \in Keys : RowKeeps(k)
    BY <2>1, CloseRowsIs
  <2>. QED
    BY <2>1, <2>2, <2>4, <2>5, SameFence
<1>3. CASE out # "succeeded"
  <2>1. row' = row
    BY <1>3 DEF CloseRun
  <2>2. RowTypes' /\ Entries /\ \A k \in Keys : RowKeeps(k)
    BY <2>1, SameRows DEF Entries
  <2>3. CASE out = "retryable" /\ resync[i].retries + 1 # MaxRetry
    <3>. DEFINE run == [resync[i] EXCEPT !.status = "failed", !.fence = 0, !.started = FALSE,
                                         !.covers = {}, !.retries = resync[i].retries + 1]
    <3>1. resync' = [resync EXCEPT ![i] = run] /\ lease' = lease
      BY <2>3, <1>3 DEF CloseRun
    <3>2. resync[i].retries + 1 \in 0 .. MaxRetry /\ resync[i].retries + 1 < MaxRetry
      BY <1>1, <2>3, RunIs, Bounds
    <3>3. {} \in SUBSET Keys /\ 0 \in 0 .. MaxFence
      BY Bounds
    <3>4. /\ run \in Resync /\ run.status = "failed" /\ run.fence = 0 /\ run.started = FALSE
          /\ run.retries = resync[i].retries + 1 /\ run.reconciles = resync[i].reconciles
      BY <1>1, <3>2, <3>3 DEF Resync, Unsettled
    <3>. HIDE DEF run
    <3>5. RunTypes' /\ resync'[i] = run /\ \A j \in Runs \ {i} : RunKeeps(j)
      BY <3>1, <3>2, <3>4, RunPut
    <3>6. RunKeeps(i)
      BY <3>4, <3>5 DEF RunKeeps, Unsettled
    <3>7. QueueTypes' /\ lease'.fence = lease.fence
      BY <3>1, <3>5, BlockedLease DEF QueueTypes
    <3>. QED
      BY <2>2, <3>1, <3>5, <3>6, <3>7, SameFence
  <2>4. CASE ~(out = "retryable" /\ resync[i].retries + 1 # MaxRetry)
    <3>1. resync' = [resync EXCEPT ![i] = Ended(resync[i], "blocked")] /\ lease' = Blocked
      BY <1>3, <2>4 DEF CloseRun
    <3>2. lease'.status = "blocked" /\ LeaseTypes' /\ lease'.fence = lease.fence
      BY <3>1, BlockedLease, LeaseIs
    <3>3. /\ RunTypes' /\ \A j \in Runs : RunKeeps(j) \/ RunStops(j)
          /\ \A j \in Runs : resync'[j].status # "processing"
      BY <3>1, <3>2, RunEnds
    <3>. QED
      BY <2>2, <3>2, <3>3, SameFence DEF QueueTypes, Stops
  <2>. QED
    BY <2>3, <2>4
<1>. QED
  BY <1>2, <1>3

LEMMA CloseBoardIs ==
  ASSUME RowTypes, QueueTypes, WorkerTypes, QueueOK, NEW w \in Workers, CloseBoard(w)
  PROVE  RowTypes' /\ QueueTypes' /\ QueueOK' /\ Entries
<1>1. lapsed' = lapsed /\ NoProbe /\ worker[w].at = "close"
  BY BoardOnward, OnwardNoProbe DEF CloseBoard
<1>2. PICK i \in Runs, out \in Outs : i = worker[w].run /\ out = worker[w].out
  BY <1>1, Busy
<1>3. CASE UNCHANGED queue
  BY <1>1, <1>3, QuietIs
<1>4. CASE MyRun(w) /\ CloseRun(i, out)
  BY <1>1, <1>2, <1>4, CloseRunIs DEF MyRun, Claimed
<1>. QED
  BY <1>2, <1>3, <1>4 DEF CloseBoard

(***************************************************************************)
(* The steps that leave the queue alone                                    *)
(***************************************************************************)
LEMMA LapseIs ==
  ASSUME RowTypes, QueueTypes, WorkerTypes, QueueOK, NEW f \in Fences, LeaseLapses(f)
  PROVE  RowTypes' /\ QueueTypes' /\ QueueOK' /\ WorkerTypes' /\ Entries
<1>1. /\ row' = row /\ resync' = resync /\ lease' = lease /\ lapsed' = lapsed \cup {f}
      /\ \A w \in Workers : worker[w].at # "probed"
  BY DEF LeaseLapses, queue
<1>2. PICK gone \in SUBSET Workers :
        worker' = [w \in Workers |-> IF w \in gone THEN Idle
                                     ELSE [worker[w] EXCEPT !.late = @ \/ worker[w].fence = f]]
  BY DEF LeaseLapses
<1>3. ASSUME NEW w \in Workers
      PROVE  worker'[w] \in Worker /\ Placed(worker'[w]) /\ worker'[w].at # "probed"
  <2>1. CASE w \in gone
    <3>1. worker'[w] = Idle
      BY <1>2, <2>1
    <3>. QED
      BY <3>1, IdleIs
  <2>2. CASE w \notin gone
    <3>. DEFINE next == [worker[w] EXCEPT !.late = worker[w].late \/ worker[w].fence = f]
    <3>1. worker'[w] = next
      BY <1>2, <2>2
    <3>2. worker[w] \in Worker /\ Placed(worker[w])
          /\ (worker[w].late \/ worker[w].fence = f) \in BOOLEAN
      BY DEF WorkerTypes
    <3>3. /\ next \in Worker /\ next.at = worker[w].at /\ next.fence = worker[w].fence
          /\ next.item = worker[w].item /\ next.run = worker[w].run
      BY <3>2 DEF Worker
    <3>. HIDE DEF next
    <3>4. Placed(next)
      BY <3>2, <3>3 DEF Placed
    <3>. QED
      BY <1>1, <3>1, <3>3, <3>4
  <2>. QED
    BY <2>1, <2>2
<1>4. WorkerTypes'
  BY <1>2, <1>3 DEF WorkerTypes
<1>5. ProbeIsFresh'
  BY <1>3 DEF ProbeIsFresh
<1>6. LeaseTypes'
  BY <1>1 DEF QueueTypes, LeaseTypes
<1>7. RowTypes' /\ RunTypes' /\ (\A k \in Keys : RowKeeps(k)) /\ \A i \in Runs : RunKeeps(i)
  BY <1>1, SameRows, SameRuns
<1>8. Entries
  BY <1>1 DEF Entries
<1>. QED
  BY <1>1, <1>4, <1>5, <1>6, <1>7, <1>8, SameFence DEF QueueTypes

\* The steps of a run of the worker that leave the queue as it is.
Elsewhere(w) ==
  EndItems(w) \/ Inspect(w) \/ Write(w) \/ WriteBoard(w) \/ Complete(w) \/ Dies(w)

LEMMA ElsewhereIs ==
  ASSUME RowTypes, QueueTypes, WorkerTypes, QueueOK, NEW w \in Workers, Elsewhere(w)
  PROVE  RowTypes' /\ QueueTypes' /\ QueueOK' /\ WorkerTypes' /\ Entries
<1>1. UNCHANGED queue /\ lapsed' = lapsed
  BY DEF Elsewhere, EndItems, Inspect, Write, WriteBoard, Complete, Dies
<1>2. Onward(w)
  BY EndItemsOnward, InspectOnward, WriteOnward, BeatOnward DEF Elsewhere
<1>3. WorkerTypes' /\ NoProbe
  BY <1>1, <1>2, OnwardNoProbe DEF Onward
<1>. QED
  BY <1>1, <1>3, QuietIs

LEMMA StillIs ==
  ASSUME RowTypes, QueueTypes, WorkerTypes, QueueOK, UNCHANGED <<queue, lapsed, worker>>
  PROVE  RowTypes' /\ QueueTypes' /\ QueueOK' /\ WorkerTypes' /\ Entries
<1>1. NoProbe
  BY DEF NoProbe
<1>2. WorkerTypes'
  BY DEF WorkerTypes
<1>. QED
  BY <1>1, <1>2, QuietIs

(***************************************************************************)
(* The sheet and the gate                                                  *)
(***************************************************************************)
LEMMA ShowsIs ==
  ASSUME SheetTypes, NEW f, NEW cells, Cells(cells), Shows(f, cells)
  PROVE  board' \in [Rooms -> Cell] /\ excused' \subseteq Rooms
<1>1. DOMAIN cells \subseteq Rooms /\ \A r \in DOMAIN cells : cells[r] \in Cell
  BY DEF Cells
<1>2. board' = [r \in Rooms |-> IF r \in DOMAIN cells THEN cells[r] ELSE board[r]]
  BY DEF Shows
<1>3. board' \in [Rooms -> Cell]
  BY <1>1, <1>2 DEF SheetTypes
<1>4. excused' \subseteq Rooms
  BY <1>1 DEF Shows, SheetTypes
<1>. QED
  BY <1>3, <1>4

LEMMA SheetWriteIs ==
  ASSUME SheetTypes, Strays, NEW w \in Workers, worker[w].fence \in Fences, NEW cells,
         Cells(cells), NEW where, SheetWrite(w, cells, where)
  PROVE  SheetTypes' /\ Strays'
<1>1. /\ Shows(worker[w].fence, cells) \/ UNCHANGED <<board, excused>>
      /\ stray' = stray \/ stray' = stray \cup {[fence |-> worker[w].fence, cells |-> cells]}
      /\ waived' = waived
  BY DEF SheetWrite
<1>2. board' \in [Rooms -> Cell] /\ excused' \subseteq Rooms
  BY <1>1, ShowsIs DEF SheetTypes
<1>. QED
  BY <1>1, <1>2 DEF SheetTypes, Strays

LEMMA WritesAre ==
  ASSUME SheetTypes, Strays, WorkerTypes, NEW w \in Workers, Write(w) \/ WriteBoard(w)
  PROVE  SheetTypes' /\ Strays'
<1>1. worker[w].at \in {"write", "paint"}
  BY DEF Write, WriteBoard
<1>2. worker[w].fence \in Fences /\ worker[w] \in Worker
  BY <1>1, Busy
<1>3. CASE Write(w)
  <2>. DEFINE k == worker[w].item
              cells == [r \in {k.room} |-> [version |-> k.version, by |-> k.reason]]
  <2>1. k \in Keys
    BY <1>3, Busy DEF Write
  <2>2. k.room \in Rooms /\ k.version \in 0 .. MaxVersion /\ k.reason \in {"confirmed", "rolledback"}
    <3>1. k.version \in 1 .. MaxVersion
      BY <2>1 DEF Keys
    <3>. QED
      BY <2>1, <3>1, Bounds DEF Keys
  <2>3. [version |-> k.version, by |-> k.reason] \in Cell
    BY <2>2 DEF Cell
  <2>4. Cells(cells)
    BY <2>2, <2>3 DEF Cells
  <2>5. SheetWrite(w, cells, "settle")
    BY <1>3 DEF Write
  <2>. QED
    BY <1>2, <2>4, <2>5, SheetWriteIs
<1>4. CASE WriteBoard(w)
  <2>. DEFINE cells == [r \in Rooms |-> [version |-> worker[w].copy[r], by |-> "resync"]]
  <2>1. \A r \in Rooms : worker[w].copy[r] \in 0 .. MaxVersion
    BY <1>2, WorkerIs
  <2>2. \A r \in Rooms : [version |-> worker[w].copy[r], by |-> "resync"] \in Cell
    BY <2>1 DEF Cell
  <2>3. Cells(cells)
    BY <2>2 DEF Cells
  <2>4. SheetWrite(w, cells, "close")
    BY <1>4 DEF WriteBoard
  <2>. QED
    BY <1>2, <2>3, <2>4, SheetWriteIs
<1>. QED
  BY <1>3, <1>4

LEMMA LandIs ==
  ASSUME SheetTypes, Strays, NEW write \in stray, Land(write)
  PROVE  SheetTypes' /\ Strays'
<1>1. Cells(write.cells) /\ Shows(write.fence, write.cells)
  BY DEF Strays, Land
<1>2. stray' \subseteq stray /\ waived' = waived
  BY DEF Land
<1>3. board' \in [Rooms -> Cell] /\ excused' \subseteq Rooms
  BY <1>1, ShowsIs
<1>. QED
  BY <1>2, <1>3 DEF SheetTypes, Strays

\* Settling gives up on a write; closing the board excuses what it could not see.
LEMMA SettleSheetIs ==
  ASSUME SheetTypes, Strays, WorkerTypes, NEW w \in Workers, Settle(w)
  PROVE  SheetTypes' /\ Strays'
<1>1. worker[w].at = "settle"
  BY DEF Settle
<1>2. worker[w].fence \in Fences
  BY <1>1, Busy
<1>3. /\ board' = board /\ excused' = excused /\ stray' = stray
      /\ waived' = waived \/ waived' = waived \cup {worker[w].fence}
  BY DEF Settle
<1>. QED
  BY <1>2, <1>3 DEF SheetTypes, Strays

LEMMA CloseSheetIs ==
  ASSUME SheetTypes, Strays, WorkerTypes, QueueTypes, NEW w \in Workers, CloseBoard(w)
  PROVE  SheetTypes' /\ Strays'
<1>1. worker[w].at = "close"
  BY DEF CloseBoard
<1>2. PICK i \in Runs : i = worker[w].run
  BY <1>1, Busy
<1>3. resync[i].covers \in SUBSET Keys
  BY RunIs DEF QueueTypes, RunTypes
<1>4. board' = board /\ stray' = stray /\ waived' = waived
  BY DEF CloseBoard
<1>5. \/ excused' = excused
      \/ excused' = excused \cup
              {k.room : k \in {q \in resync[i].covers : row[q].status \in Unsettled
                                                        /\ q.version > resync[i].snapshot[q.room].version}}
  BY <1>2 DEF CloseBoard, CloseRun
<1>6. \A k \in Keys : k.room \in Rooms
  BY DEF Keys
<1>7. excused' \subseteq Rooms
  BY <1>3, <1>5, <1>6 DEF SheetTypes
<1>. QED
  BY <1>4, <1>7 DEF SheetTypes, Strays

\* What is left to do of an admission shrinks, its beat and its state are set.
LEMMA AdmissionIs ==
  ASSUME NEW a \in Admission, NEW owes \in SUBSET Keys, NEW beat \in {"succeeded", "other"}
  PROVE  /\ [a EXCEPT !.owes = owes] \in Admission
         /\ [a EXCEPT !.beat = beat] \in Admission
         /\ [a EXCEPT !.state = "completed"] \in Admission
         /\ a.owes \in SUBSET Keys
  BY DEF Admission

LEMMA GateKeeps ==
  ASSUME GateTypes, required' = required, NEW f \in Fences,
         maintenance' \in {"OPEN", "REQUESTED"},
         \/ admission' = admission
         \/ \E k : admission' = [admission EXCEPT ![f].owes = @ \ {k}]
         \/ \E beat \in {"succeeded", "other"} : admission' = [admission EXCEPT ![f].beat = beat]
         \/ admission' = [admission EXCEPT ![f].state = "completed"]
  PROVE  GateTypes'
<1>1. admission[f] \in Admission
  BY DEF GateTypes
<1>2. CASE admission' = admission
  BY <1>2 DEF GateTypes
<1>3. CASE \E a \in Admission : admission' = [admission EXCEPT ![f] = a]
  BY <1>3 DEF GateTypes
<1>4. ASSUME NEW k, admission' = [admission EXCEPT ![f].owes = @ \ {k}]
      PROVE  \E a \in Admission : admission' = [admission EXCEPT ![f] = a]
  <2>. DEFINE a == [admission[f] EXCEPT !.owes = admission[f].owes \ {k}]
  <2>1. admission[f].owes \ {k} \in SUBSET Keys
    BY <1>1, AdmissionIs
  <2>2. a \in Admission
    BY <1>1, <2>1, AdmissionIs
  <2>3. admission' = [admission EXCEPT ![f] = a]
    BY <1>4
  <2>. QED
    BY <2>2, <2>3
<1>5. ASSUME NEW beat \in {"succeeded", "other"}, admission' = [admission EXCEPT ![f].beat = beat]
      PROVE  \E a \in Admission : admission' = [admission EXCEPT ![f] = a]
  <2>. DEFINE a == [admission[f] EXCEPT !.beat = beat]
  <2>1. a \in Admission
    BY <1>1, AdmissionIs
  <2>. QED
    BY <1>5, <2>1
<1>6. CASE admission' = [admission EXCEPT ![f].state = "completed"]
  <2>. DEFINE a == [admission[f] EXCEPT !.state = "completed"]
  <2>1. a \in Admission
    BY <1>1, AdmissionIs
  <2>2. admission' = [admission EXCEPT ![f] = a]
    BY <1>6
  <2>. QED
    BY <1>3, <2>1, <2>2
<1>. QED
  BY <1>2, <1>3, <1>4, <1>5, <1>6

LEMMA GateStays ==
  ASSUME GateTypes, UNCHANGED gate
  PROVE  GateTypes'
  BY DEF GateTypes, gate

LEMMA AuthoriseGateIs ==
  ASSUME GateTypes, WorkerTypes, NEW w \in Workers, Authorise(w) \/ Settle(w)
  PROVE  GateTypes'
<1>1. worker[w].at \in {"authorise", "settle"}
  BY DEF Authorise, Settle
<1>2. worker[w].fence \in Fences
  BY <1>1, Busy
<1>3. required' = required /\ maintenance' = maintenance
  BY DEF Authorise, Settle
<1>4. \/ admission' = admission
      \/ \E k : admission' = [admission EXCEPT ![worker[w].fence].owes = @ \ {k}]
  BY DEF Authorise, Settle
<1>. QED
  BY <1>2, <1>3, <1>4, GateKeeps DEF GateTypes

LEMMA BeatGateIs ==
  ASSUME GateTypes, WorkerTypes, NEW w \in Workers, Beat(w) \/ LastBeat(w) \/ Complete(w)
  PROVE  GateTypes'
<1>1. worker[w].at \in {"beat", "last", "complete"}
  BY DEF Beat, LastBeat, Complete
<1>2. worker[w].fence \in Fences
  BY <1>1, Busy
<1>3. required' = required /\ maintenance' = maintenance
  BY DEF Beat, LastBeat, Complete
<1>4. \/ admission' = admission
      \/ \E beat \in {"succeeded", "other"} :
           admission' = [admission EXCEPT ![worker[w].fence].beat = beat]
      \/ admission' = [admission EXCEPT ![worker[w].fence].state = "completed"]
  BY DEF Beat, LastBeat, Complete, Heartbeat
<1>. QED
  BY <1>2, <1>3, <1>4, GateKeeps DEF GateTypes

LEMMA ClaimGateIs ==
  ASSUME RowTypes, QueueTypes, WorkerTypes, GateTypes, NEW w \in Workers, NEW due,
         ClaimRows(w, due)
  PROVE  GateTypes'
<1>1. required' = required /\ maintenance' = maintenance
  BY DEF ClaimRows
<1>2. CASE RowsAreUncertain
  <2>1. admission' = admission
    BY <1>2 DEF ClaimRows
  <2>. QED
    BY <1>1, <2>1 DEF GateTypes
<1>3. CASE ~RowsAreUncertain
  BY <1>1, <1>3, TakeRowsIs DEF ClaimRows
<1>. QED
  BY <1>2, <1>3

(***************************************************************************)
(* The invariant                                                           *)
(***************************************************************************)
IInv == Types /\ QueueOK

LEMMA InitIs ==
  ASSUME Init
  PROVE  IInv
<1>1. Kept(Settled("absent")) /\ Settled("absent") \in Row /\ Settled("absent").status = "absent"
      /\ Settled("absent").fence = 0 /\ Settled("absent").started = FALSE
  <2>1. "absent" \in RowStatus \ {"processing"}
    BY DEF RowStatus
  <2>. QED
    BY <2>1, SettledIs, SettledKept
<1>2. RowTypes /\ \A k \in Keys : row[k] = Settled("absent")
  BY <1>1 DEF Init, RowTypes
<1>3. (\A i \in Runs : resync[i] = NoResync) /\ RunTypes
  BY NoResyncIs, Bounds DEF Init, RunTypes
<1>4. LeaseTypes /\ lease.fence = 0 /\ lease.status = "idle"
  BY Bounds DEF Init, LeaseTypes, LeaseType
<1>5. WorkerTypes /\ \A w \in Workers : worker[w].at = "idle"
  BY IdleIs DEF Init, WorkerTypes
<1>6. DomainTypes /\ (\A r \in Rooms : pin[r] = 0) /\ \A r \in Rooms : change[r] = "none"
  BY Bounds DEF Init, DomainTypes
<1>7. Mounted
  <2>1. \A r \in Rooms : \A v \in 1 .. pin[r] : FALSE
    BY <1>6
  <2>. QED
    BY <1>6, <2>1 DEF Mounted
<1>8. SheetTypes /\ Strays
  <2>1. [version |-> 0, by |-> "nobody"] \in Cell
    BY Bounds DEF Cell
  <2>. QED
    BY <2>1 DEF Init, SheetTypes, Strays
<1>9. GateTypes
  <2>1. [state |-> "none", owes |-> {}, beat |-> "none"] \in Admission
    BY DEF Admission
  <2>. QED
    BY <2>1 DEF Init, GateTypes
<1>10. /\ \A i \in Runs : resync[i].status = "none" /\ resync[i].fence = 0
                          /\ resync[i].started = FALSE /\ resync[i].reconciles = 0
       /\ \A k \in Keys : row[k].status = "absent" /\ row[k].fence = 0 /\ row[k].started = FALSE
  BY <1>1, <1>2, <1>3, NoResyncIs
<1>11. Fenced /\ Running /\ Apart /\ BlockedStays /\ ProbeIsFresh /\ Plain
  BY <1>4, <1>10 DEF Fenced, Running, Apart, BlockedStays, ProbeIsFresh, Plain
<1>12. UncertainWritesStop /\ OneChainPerBlock
  BY <1>10 DEF UncertainWritesStop, OneChainPerBlock, Marked, Claimed, Unsettled
<1>. QED
  BY <1>2, <1>3, <1>4, <1>5, <1>6, <1>7, <1>8, <1>9, <1>11, <1>12
  DEF IInv, Types, QueueTypes, QueueOK

LEMMA ChangeStepsIs ==
  ASSUME IInv, NEW r \in Rooms, ChangeSteps(r)
  PROVE  IInv'
<1>1. UNCHANGED <<sheet, worker, gate>>
  BY DEF ChangeSteps, PreparePin, ConfirmBegins, ConfirmCommits, RollbackPin
<1>2. RowTypes' /\ QueueTypes' /\ QueueOK' /\ DomainTypes' /\ Mounted'
  BY ChangesIs DEF IInv, Types
<1>3. SheetTypes' /\ Strays'
  BY <1>1 DEF IInv, Types, SheetTypes, Strays, sheet
<1>4. WorkerTypes' /\ GateTypes'
  BY <1>1, GateStays DEF IInv, Types, WorkerTypes
<1>. QED
  BY <1>2, <1>3, <1>4 DEF IInv, Types

\* All other steps leave the PINs alone: what is left is the queue, the sheet, the
\* runs of the worker and the gate.
LEMMA OtherSteps ==
  ASSUME IInv, RowTypes', QueueTypes', QueueOK', WorkerTypes', Entries, SheetTypes', Strays',
         GateTypes', UNCHANGED domain
  PROVE  IInv'
<1>1. Mounted' /\ DomainTypes'
  BY MountedStays DEF IInv, Types
<1>. QED
  BY <1>1 DEF IInv, Types

LEMMA SheetStays ==
  ASSUME SheetTypes, Strays, UNCHANGED sheet
  PROVE  SheetTypes' /\ Strays'
  BY DEF SheetTypes, Strays, sheet

LEMMA RowStepsIs ==
  ASSUME IInv, NEW w \in Workers, RowSteps(w)
  PROVE  IInv'
<1>. USE DEF IInv, Types
<1>1. CASE \E due : ClaimProbed(w, due) \/ ClaimAdmitted(w, due)
  <2>1. PICK due : ClaimProbed(w, due) \/ ClaimAdmitted(w, due)
    BY <1>1
  <2>2. ClaimRows(w, due)
    BY <2>1 DEF ClaimProbed, ClaimAdmitted
  <2>3. UNCHANGED <<domain, sheet>>
    BY <2>2 DEF ClaimRows
  <2>4. RowTypes' /\ QueueTypes' /\ QueueOK' /\ Onward(w) /\ Entries
    BY <2>1, ClaimIs
  <2>. QED
    BY <2>2, <2>3, <2>4, SheetStays, ClaimGateIs, OtherSteps DEF Onward
<1>2. CASE EndItems(w) \/ Inspect(w) \/ Dies(w)
  <2>1. UNCHANGED <<domain, sheet, gate>>
    BY <1>2 DEF EndItems, Inspect, Dies
  <2>2. RowTypes' /\ QueueTypes' /\ QueueOK' /\ WorkerTypes' /\ Entries
    BY <1>2, ElsewhereIs DEF Elsewhere
  <2>. QED
    BY <2>1, <2>2, SheetStays, GateStays, OtherSteps
<1>3. CASE Authorise(w)
  <2>1. UNCHANGED <<domain, sheet>>
    BY <1>3 DEF Authorise
  <2>2. RowTypes' /\ QueueTypes' /\ QueueOK' /\ Entries /\ WorkerTypes'
    BY <1>3, AuthoriseIs, AuthoriseOnward DEF Onward
  <2>. QED
    BY <1>3, <2>1, <2>2, SheetStays, AuthoriseGateIs, OtherSteps
<1>4. CASE Write(w)
  <2>1. UNCHANGED <<domain, gate>>
    BY <1>4 DEF Write
  <2>2. RowTypes' /\ QueueTypes' /\ QueueOK' /\ WorkerTypes' /\ Entries
    BY <1>4, ElsewhereIs DEF Elsewhere
  <2>. QED
    BY <1>4, <2>1, <2>2, WritesAre, GateStays, OtherSteps
<1>5. CASE Settle(w)
  <2>1. UNCHANGED domain
    BY <1>5 DEF Settle
  <2>2. RowTypes' /\ QueueTypes' /\ QueueOK' /\ Entries /\ WorkerTypes'
    BY <1>5, SettleIs, SettleItemOnward DEF Onward
  <2>. QED
    BY <1>5, <2>1, <2>2, SettleSheetIs, AuthoriseGateIs, OtherSteps
<1>6. CASE Beat(w) \/ LastBeat(w)
  <2>1. UNCHANGED <<domain, sheet>>
    BY <1>6 DEF Beat, LastBeat
  <2>2. RowTypes' /\ QueueTypes' /\ QueueOK' /\ Entries /\ WorkerTypes'
    BY <1>6, BeatIs, BeatOnward DEF Onward
  <2>. QED
    BY <1>6, <2>1, <2>2, SheetStays, BeatGateIs, OtherSteps
<1>7. CASE Complete(w)
  <2>1. UNCHANGED <<domain, sheet>>
    BY <1>7 DEF Complete
  <2>2. RowTypes' /\ QueueTypes' /\ QueueOK' /\ WorkerTypes' /\ Entries
    BY <1>7, ElsewhereIs DEF Elsewhere
  <2>. QED
    BY <1>7, <2>1, <2>2, SheetStays, BeatGateIs, OtherSteps
<1>. QED
  BY <1>1, <1>2, <1>3, <1>4, <1>5, <1>6, <1>7 DEF RowSteps

LEMMA BoardStepsIs ==
  ASSUME IInv, NEW w \in Workers, BoardSteps(w)
  PROVE  IInv'
<1>. USE DEF IInv, Types
<1>1. CASE ProbeResync(w)
  <2>1. UNCHANGED <<domain, sheet, gate>>
    BY <1>1 DEF ProbeResync
  <2>2. RowTypes' /\ QueueTypes' /\ QueueOK' /\ WorkerTypes' /\ Entries
    BY <1>1, ProbeIs
  <2>. QED
    BY <2>1, <2>2, SheetStays, GateStays, OtherSteps
<1>2. CASE AuthoriseBoard(w)
  <2>1. UNCHANGED <<domain, sheet, gate>>
    BY <1>2 DEF AuthoriseBoard
  <2>2. RowTypes' /\ QueueTypes' /\ QueueOK' /\ Entries /\ WorkerTypes'
    BY <1>2, AuthoriseBoardIs, BoardOnward DEF Onward
  <2>. QED
    BY <2>1, <2>2, SheetStays, GateStays, OtherSteps
<1>3. CASE WriteBoard(w)
  <2>1. UNCHANGED <<domain, gate>>
    BY <1>3 DEF WriteBoard
  <2>2. RowTypes' /\ QueueTypes' /\ QueueOK' /\ WorkerTypes' /\ Entries
    BY <1>3, ElsewhereIs DEF Elsewhere
  <2>. QED
    BY <1>3, <2>1, <2>2, WritesAre, GateStays, OtherSteps
<1>4. CASE CloseBoard(w)
  <2>1. UNCHANGED <<domain, gate>>
    BY <1>4 DEF CloseBoard
  <2>2. RowTypes' /\ QueueTypes' /\ QueueOK' /\ Entries /\ WorkerTypes'
    BY <1>4, CloseBoardIs, BoardOnward DEF Onward
  <2>. QED
    BY <1>4, <2>1, <2>2, CloseSheetIs, GateStays, OtherSteps
<1>5. CASE BlockBoard(w)
  <2>1. UNCHANGED <<domain, sheet, gate>>
    BY <1>5 DEF BlockBoard
  <2>2. RowTypes' /\ QueueTypes' /\ QueueOK' /\ Entries /\ WorkerTypes'
    BY <1>5, BlockBoardIs, BoardOnward DEF Onward
  <2>. QED
    BY <2>1, <2>2, SheetStays, GateStays, OtherSteps
<1>. QED
  BY <1>1, <1>2, <1>3, <1>4, <1>5 DEF BoardSteps

LEMMA RequestStepIs ==
  ASSUME IInv, NEW i \in Runs, RequestResync(i)
  PROVE  IInv'
<1>1. UNCHANGED <<domain, sheet, gate>>
  BY DEF RequestResync
<1>2. RowTypes' /\ QueueTypes' /\ QueueOK' /\ WorkerTypes' /\ Entries
  BY RequestIs DEF IInv, Types
<1>3. SheetTypes' /\ Strays' /\ GateTypes'
  BY <1>1, SheetStays, GateStays DEF IInv, Types
<1>. QED
  BY <1>1, <1>2, <1>3, OtherSteps

LEMMA WorldStepsIs ==
  ASSUME IInv, WorldSteps
  PROVE  IInv'
<1>. USE DEF IInv, Types
<1>1. CASE \E f \in Fences : LeaseLapses(f)
  <2>1. UNCHANGED <<domain, sheet, gate>>
    BY <1>1 DEF LeaseLapses
  <2>2. RowTypes' /\ QueueTypes' /\ QueueOK' /\ WorkerTypes' /\ Entries
    BY <1>1, LapseIs
  <2>. QED
    BY <2>1, <2>2, SheetStays, GateStays, OtherSteps
<1>2. CASE \E write \in stray : Land(write)
  <2>1. UNCHANGED <<domain, queue, lapsed, worker, gate>>
    BY <1>2 DEF Land
  <2>2. RowTypes' /\ QueueTypes' /\ QueueOK' /\ WorkerTypes' /\ Entries
    BY <2>1, StillIs
  <2>3. SheetTypes' /\ Strays'
    BY <1>2, LandIs
  <2>. QED
    BY <2>1, <2>2, <2>3, GateStays, OtherSteps
<1>3. CASE TurnMaintenance
  <2>1. UNCHANGED <<domain, queue, lapsed, sheet, worker>>
    BY <1>3 DEF TurnMaintenance
  <2>2. RowTypes' /\ QueueTypes' /\ QueueOK' /\ WorkerTypes' /\ Entries
    BY <2>1, StillIs
  <2>3. GateTypes'
    BY <1>3 DEF TurnMaintenance, GateTypes
  <2>. QED
    BY <2>1, <2>2, <2>3, SheetStays, OtherSteps
<1>. QED
  BY <1>1, <1>2, <1>3 DEF WorldSteps

LEMMA StutterIs ==
  ASSUME IInv, UNCHANGED vars
  PROVE  IInv'
<1>1. UNCHANGED <<domain, queue, lapsed, sheet, worker, gate>>
  BY DEF vars
<1>2. RowTypes' /\ QueueTypes' /\ QueueOK' /\ WorkerTypes' /\ Entries
  BY <1>1, StillIs DEF IInv, Types
<1>3. SheetTypes' /\ Strays' /\ GateTypes'
  BY <1>1, SheetStays, GateStays DEF IInv, Types
<1>. QED
  BY <1>1, <1>2, <1>3, OtherSteps

(***************************************************************************)
(* The theorems                                                            *)
(***************************************************************************)
\* Claims, marks, settlements, heartbeats, full resyncs and what an operator or a
\* lapsed lease does between them all keep the queue of the PIN sheet in order: the
\* invariant the others follow from.
THEOREM Inductive == Spec => []IInv
<1>1. Init => IInv
  BY InitIs
<1>2. IInv /\ [Next]_vars => IInv'
  BY ChangeStepsIs, RowStepsIs, BoardStepsIs, RequestStepIs, WorldStepsIs, StutterIs DEF Next
<1>. QED
  BY <1>1, <1>2, PTL DEF Spec

\* Rows, full resyncs, lease, sheet, worker and admissions have their types, and a row
\* names a claim just while it is in process.
THEOREM TypeCorrect == Spec => []TypeOK
<1>1. IInv => TypeOK
  BY TypesGive DEF IInv
<1>. QED
  BY <1>1, Inductive, PTL

\* A write authorised by authorize_room_pin_sheet_write or its full-board sibling
\* whose outcome nobody recorded keeps the queue on its fence, through lapsed leases,
\* claims and heartbeats, until an operator asks for the recovery.
THEOREM UncertainWriteIsNotPassed == Spec => []UncertainWritesStop
<1>1. IInv => UncertainWritesStop
  BY DEF IInv, QueueOK
<1>. QED
  BY <1>1, Inductive, PTL

\* request_room_pin_sheet_full_resync never lets two full resyncs be under way, and no
\* two runs are blocked on one fence: the recovery of a block has one chain to continue.
THEOREM RecoveryHasOneChain == Spec => []OneChainPerBlock
<1>1. IInv => OneChainPerBlock
  BY DEF IInv, QueueOK
<1>. QED
  BY <1>1, Inductive, PTL

(***************************************************************************)
(* The drain: with admissions, an open admission owes every write that is  *)
(* to come, under way or without an outcome                                *)
(***************************************************************************)
Owed(k, f) == admission[f].state = "open" /\ k \in admission[f].owes
Begun(k) == row[k].status \in Unsettled /\ row[k].started
OverItem(it) == it.at \in {"authorise", "write", "settle"}
BoardAts == {"probed", "board", "paint", "close", "block"}

\* A fence is of one run of the worker, and its admission begins with it.
FenceIsOne == \A v, w \in Workers : v # w /\ worker[v].fence # 0 => worker[v].fence # worker[w].fence
FenceIsPast == /\ \A w \in Workers : worker[w].fence <= lease.fence
               /\ \A f \in Fences : f > lease.fence => admission[f].state = "none"
\* What a run has yet to do is owed, one item at a time.
Promised(it) ==
  /\ it.at \notin BoardAts
  /\ \A k \in it.todo : it.fence # 0 /\ Owed(k, it.fence)
  /\ OverItem(it) => it.item \notin it.todo
  /\ it.at \in {"authorise", "write"} => Owed(it.item, it.fence)
\* Whoever gave up on a write does not come back to its item but to block it.
GivenUp(it, k) ==
  /\ k \notin it.todo
  /\ OverItem(it) /\ it.item = k => it.at = "settle" /\ it.out = "blocked"
StrayIsOwed(write) == \E k \in Keys :
  /\ Owed(k, write.fence)
  /\ \A w \in Workers : worker[w].fence = write.fence => GivenUp(worker[w], k)
Draining ==
  /\ FenceIsOne /\ FenceIsPast
  /\ \A w \in Workers : Promised(worker[w])
  /\ \A k \in Keys : Begun(k) => \E f \in Fences : Owed(k, f)
  /\ \A write \in stray : StrayIsOwed(write)
DrainInv == required => Draining

\* How a run of the worker goes on with its rows.
Same(new, old) == /\ new.at = old.at /\ new.fence = old.fence /\ new.todo = old.todo
                  /\ new.item = old.item /\ new.out = old.out
Follows(new, old) ==
  /\ new.at \notin BoardAts
  /\ new.todo \subseteq old.todo
  /\ \/ new.fence = 0 /\ new.todo = {} /\ ~OverItem(new)
     \/ new.fence = old.fence
  /\ OverItem(new) =>
       \/ new.at # "write" /\ old.at = "next" /\ new.item \in old.todo \ new.todo
       \/ new.at # "authorise" /\ old.at = "authorise" /\ new.item = old.item
       \/ new.at = "settle" /\ old.at = "write" /\ new.item = old.item
       \/ new.at = "settle" /\ old.at = "settle" /\ new.item = old.item /\ new.out = "blocked"
Moves == \A v \in Workers : Same(worker'[v], worker[v]) \/ Follows(worker'[v], worker[v])
\* The outcome of an item is known: its row is over, so is its run with it.
Done(k, f) == \E w \in Workers :
  /\ worker[w].fence = f /\ worker[w].item = k
  /\ worker[w].at = "authorise" \/ (worker[w].at = "settle" /\ worker[w].out # "blocked")
  /\ worker'[w].at \notin {"authorise", "write"}
  /\ row'[k].status \notin Unsettled

LEMMA DrainStep ==
  ASSUME Draining, WorkerTypes, Strays, Moves, lease'.fence = lease.fence, LeaseTypes,
         \A f \in Fences : f > lease.fence => admission'[f].state = admission[f].state,
         \A f \in Fences, k \in Keys : Owed(k, f) => Owed(k, f)' \/ Done(k, f),
         \A k \in Keys : Begun(k)' => Begun(k) \/ \E f \in Fences : Owed(k, f)',
         \A write \in stray' : write \in stray \/ StrayIsOwed(write)'
  PROVE  Draining'
<1>1. ASSUME NEW w \in Workers
      PROVE  /\ worker'[w].fence # 0 => worker'[w].fence = worker[w].fence
             /\ worker'[w].todo \subseteq worker[w].todo
             /\ worker'[w].at \notin BoardAts
             /\ OverItem(worker'[w]) => worker'[w].fence = worker[w].fence
             /\ worker'[w].todo # {} => worker'[w].fence = worker[w].fence
             /\ worker[w] \in Worker
             /\ worker[w].fence # 0 => worker[w].fence \in Fences
  <2>1. worker[w] \in Worker /\ Placed(worker[w])
    BY DEF WorkerTypes
  <2>2. worker[w].fence # 0 => worker[w].fence \in Fences
    <3>1. worker[w].fence \in 0 .. MaxFence
      BY <2>1, WorkerIs
    <3>. QED
      BY <3>1, Bounds DEF Fences
  <2>. QED
    BY <2>1, <2>2 DEF Moves, Same, Follows, Draining, Promised
<1>2. ASSUME NEW w \in Workers
      PROVE  worker[w].todo \subseteq Keys
  BY <1>1, WorkerIs
<1>3. FenceIsOne'
  BY <1>1 DEF Draining, FenceIsOne
<1>4. FenceIsPast'
  <2>1. \A w \in Workers : worker'[w].fence \in {0, worker[w].fence} /\ worker[w].fence <= lease.fence
    BY <1>1 DEF Draining, FenceIsPast
  <2>2. lease.fence \in Nat
    BY Bounds DEF LeaseTypes, LeaseType
  <2>. QED
    BY <2>1, <2>2 DEF Draining, FenceIsPast
\* What a run has to do stays owed: only its own item can be done with.
<1>5. ASSUME NEW w \in Workers, NEW k \in worker[w].todo, NEW f, f = worker[w].fence
      PROVE  Owed(k, f)'
  <2>1. f # 0 /\ Owed(k, f) /\ k \in Keys /\ f \in Fences
    BY <1>1, <1>2, <1>5 DEF Draining, Promised
  <2>2. ~Done(k, f)
    <3>1. SUFFICES ASSUME NEW v \in Workers, worker[v].fence = f, worker[v].item = k,
                          OverItem(worker[v])
                   PROVE  FALSE
      BY DEF Done, OverItem
    <3>2. v = w
      BY <1>5, <2>1, <3>1 DEF Draining, FenceIsOne
    <3>. QED
      BY <3>1, <3>2 DEF Draining, Promised
  <2>. QED
    BY <2>1, <2>2
<1>6. ASSUME NEW w \in Workers
      PROVE  Promised(worker[w])'
  <2>1. ASSUME NEW k \in worker'[w].todo, NEW f, f = worker'[w].fence
        PROVE  f # 0 /\ Owed(k, f)'
    <3>1. k \in worker[w].todo /\ f = worker[w].fence
      BY <1>1, <2>1
    <3>. QED
      BY <1>5, <3>1 DEF Draining, Promised
  <2>2. OverItem(worker'[w]) => worker'[w].item \notin worker'[w].todo
    BY <1>1 DEF Moves, Same, Follows, Draining, Promised, OverItem
  <2>3. ASSUME worker'[w].at \in {"authorise", "write"}, NEW k, k = worker'[w].item,
               NEW f, f = worker'[w].fence
        PROVE  Owed(k, f)'
    <3>1. f = worker[w].fence
      BY <1>1, <2>3 DEF OverItem
    <3>2. CASE k \in worker[w].todo
      BY <1>5, <3>1, <3>2
    <3>3. CASE worker[w].at \in {"authorise", "write"} /\ k = worker[w].item
      <4>1. Owed(k, f) /\ k \in Keys /\ f \in Fences /\ f # 0
        BY <3>1, <3>3, Busy DEF Draining, Promised
      <4>2. ~Done(k, f)
        BY <2>3, <3>1, <4>1 DEF Done, Draining, FenceIsOne
      <4>. QED
        BY <4>1, <4>2
    <3>. QED
      BY <2>3, <3>2, <3>3 DEF Moves, Same, Follows, OverItem
  <2>. QED
    BY <1>1, <2>1, <2>2, <2>3 DEF Promised, Owed
<1>7. ASSUME NEW k \in Keys, Begun(k)'
      PROVE  \E f \in Fences : Owed(k, f)'
  <2>1. CASE \E f \in Fences : Owed(k, f)'
    BY <2>1
  <2>2. CASE Begun(k)
    <3>1. PICK f \in Fences : Owed(k, f)
      BY <2>2 DEF Draining
    <3>2. ~Done(k, f)
      BY <1>7 DEF Done, Begun
    <3>. QED
      BY <3>1, <3>2
  <2>. QED
    BY <1>7, <2>1, <2>2
<1>8. ASSUME NEW write \in stray
      PROVE  StrayIsOwed(write)'
  <2>1. PICK k \in Keys : /\ Owed(k, write.fence)
                          /\ \A w \in Workers : worker[w].fence = write.fence => GivenUp(worker[w], k)
    BY DEF Draining, StrayIsOwed
  <2>2. write.fence \in Fences /\ write.fence # 0
    BY DEF Strays, Fences
  <2>3. ~Done(k, write.fence)
    BY <2>1 DEF Done, GivenUp, OverItem
  <2>4. Owed(k, write.fence)'
    BY <2>1, <2>2, <2>3
  <2>5. ASSUME NEW w \in Workers, worker'[w].fence = write.fence
        PROVE  GivenUp(worker'[w], k)
    <3>1. worker[w].fence = write.fence /\ GivenUp(worker[w], k)
      BY <1>1, <2>1, <2>2, <2>5
    <3>. QED
      BY <1>1, <3>1 DEF Moves, Same, Follows, GivenUp, OverItem
  <2>. QED
    BY <2>4, <2>5 DEF StrayIsOwed
<1>. QED
  BY <1>3, <1>4, <1>6, <1>7, <1>8 DEF Draining

\* The ways a run of the worker goes on.
LEMMA EitherWay ==
  ASSUME WorkerTypes, NEW w \in Workers, NEW next, Becomes(w, next)
  PROVE  /\ worker'[w] = Idle \/ worker'[w] = next
         /\ \A v \in Workers \ {w} : worker'[v] = worker[v]
  BY DEF Becomes, WorkerTypes

LEMMA IdleFollows ==
  ASSUME NEW old
  PROVE  Follows(Idle, old) /\ ~OverItem(Idle) /\ Idle.fence = 0
  BY IdleIs DEF Follows, OverItem, BoardAts

\* One run moves, the others stand.
Steps(w) == /\ Follows(worker'[w], worker[w])
            /\ \A v \in Workers \ {w} : worker'[v] = worker[v]

LEMMA StepsMove ==
  ASSUME NEW w \in Workers, Steps(w)
  PROVE  Moves
  BY DEF Steps, Moves, Same

LEMMA NextFollows ==
  ASSUME WorkerTypes, NEW w \in Workers, NEW next, Becomes(w, next), Follows(next, worker[w])
  PROVE  Steps(w) /\ worker'[w] \in {Idle, next}
  BY EitherWay, IdleFollows DEF Steps

LEMMA RestSteps ==
  ASSUME WorkerTypes, NEW w \in Workers, Rest(w)
  PROVE  Steps(w) /\ ~OverItem(worker'[w])
  BY IdleFollows DEF Rest, Steps, WorkerTypes

LEMMA FreshSteps ==
  ASSUME WorkerTypes, NEW w \in Workers,
         (\E blocked \in BOOLEAN, clean \in BOOLEAN : HeartbeatNext(w, blocked, clean)) \/ Fail(w)
  PROVE  Steps(w) /\ ~OverItem(worker'[w])
<1>1. ASSUME NEW f \in 0 .. MaxFence, NEW at \in {"beat", "last"}, NEW b \in BOOLEAN, NEW c \in BOOLEAN
      PROVE  LET next == [Idle EXCEPT !.at = at, !.fence = f, !.blocked = b, !.clean = c] IN
             next.at = at /\ next.fence = f /\ next.todo = {}
  BY IdleIs DEF Worker
<1>2. worker[w].fence \in 0 .. MaxFence /\ worker[w].blocked \in BOOLEAN
  BY WorkerIs DEF WorkerTypes
<1>3. PICK at \in {"beat", "last"}, b \in BOOLEAN, c \in BOOLEAN :
        Becomes(w, [Idle EXCEPT !.at = at, !.fence = worker[w].fence, !.blocked = b, !.clean = c])
  BY <1>2 DEF HeartbeatNext, Fail
<1>. DEFINE next == [Idle EXCEPT !.at = at, !.fence = worker[w].fence, !.blocked = b, !.clean = c]
<1>4. next.at = at /\ next.fence = worker[w].fence /\ next.todo = {}
  BY <1>1, <1>2
<1>5. Becomes(w, next)
  BY <1>3
<1>. HIDE DEF next
<1>6. Follows(next, worker[w]) /\ ~OverItem(next)
  BY <1>4 DEF Follows, OverItem, BoardAts
<1>. QED
  BY <1>5, <1>6, NextFollows, IdleFollows

LEMMA NextItemSteps ==
  ASSUME WorkerTypes, NEW w \in Workers, NEW clean \in BOOLEAN, NextItem(w, clean)
  PROVE  Steps(w) /\ ~OverItem(worker'[w])
<1>. DEFINE next == [worker[w] EXCEPT !.at = "next", !.item = Nothing, !.again = FALSE,
                                      !.out = "succeeded", !.clean = @ /\ clean]
<1>1. worker[w] \in Worker /\ (worker[w].clean /\ clean) \in BOOLEAN
  BY WorkerIs DEF WorkerTypes
<1>2. next.at = "next" /\ next.fence = worker[w].fence /\ next.todo = worker[w].todo
  BY <1>1 DEF Worker
<1>3. Becomes(w, next)
  BY DEF NextItem
<1>. HIDE DEF next
<1>4. Follows(next, worker[w]) /\ ~OverItem(next)
  BY <1>2 DEF Follows, OverItem, BoardAts
<1>. QED
  BY <1>3, <1>4, NextFollows, IdleFollows

\* On with the item, or to the settlement of it.
LEMMA GoesOnSteps ==
  ASSUME WorkerTypes, NEW w \in Workers, NEW at \in {"write", "settle"}, NEW out \in Outs,
         NEW again \in BOOLEAN,
         Becomes(w, [worker[w] EXCEPT !.at = at, !.out = out, !.again = again]),
         \/ worker[w].at = "authorise"
         \/ worker[w].at = "write" /\ at = "settle"
         \/ worker[w].at = "settle" /\ at = "settle" /\ out = "blocked"
  PROVE  /\ Steps(w)
         /\ \/ ~OverItem(worker'[w]) /\ worker'[w].fence = 0
            \/ /\ worker'[w].at = at /\ worker'[w].out = out /\ worker'[w].item = worker[w].item
               /\ worker'[w].todo = worker[w].todo
<1>. DEFINE next == [worker[w] EXCEPT !.at = at, !.out = out, !.again = again]
<1>1. worker[w] \in Worker
  BY DEF WorkerTypes
<1>2. /\ next.at = at /\ next.fence = worker[w].fence /\ next.todo = worker[w].todo
      /\ next.item = worker[w].item /\ next.out = out
  BY <1>1 DEF Worker
<1>. HIDE DEF next
<1>3. Follows(next, worker[w])
  BY <1>2 DEF Follows, OverItem, BoardAts
<1>4. Becomes(w, next)
  BY DEF next
<1>. QED
  BY <1>2, <1>3, <1>4, NextFollows, IdleFollows

LEMMA CatchSteps ==
  ASSUME WorkerTypes, NEW w \in Workers, worker[w].at \in {"authorise", "settle"}, Catch(w, "blocked")
  PROVE  Steps(w) /\ worker'[w].at \notin {"authorise", "write"}
<1>1. "blocked" \in Outs /\ TRUE \in BOOLEAN
  BY DEF Outs
<1>2. Becomes(w, [worker[w] EXCEPT !.at = "settle", !.out = "blocked", !.again = TRUE])
  BY DEF Catch
<1>. QED
  BY <1>1, <1>2, GoesOnSteps DEF OverItem

LEMMA EndItemsSteps ==
  ASSUME WorkerTypes, NEW w \in Workers, EndItems(w)
  PROVE  Steps(w)
<1>1. (worker[w].clean /\ worker[w].todo = {}) \in BOOLEAN
  OBVIOUS
<1>. QED
  BY <1>1, FreshSteps DEF EndItems

LEMMA InspectSteps ==
  ASSUME WorkerTypes, NEW w \in Workers, Inspect(w)
  PROVE  Steps(w)
<1>1. PICK k \in worker[w].todo, at \in {"settle", "authorise"}, out \in Outs, again \in BOOLEAN :
        Becomes(w, [worker[w] EXCEPT !.todo = @ \ {k}, !.item = k, !.at = at, !.out = out, !.again = again])
  BY DEF Inspect, Outs
<1>. DEFINE next == [worker[w] EXCEPT !.todo = @ \ {k}, !.item = k, !.at = at, !.out = out,
                                      !.again = again]
<1>2. worker[w] \in Worker /\ worker[w].at = "next"
  BY DEF WorkerTypes, Inspect
<1>3. /\ next.at = at /\ next.fence = worker[w].fence /\ next.todo = worker[w].todo \ {k}
      /\ next.item = k
  BY <1>2 DEF Worker
<1>4. Becomes(w, next)
  BY <1>1
<1>. HIDE DEF next
<1>5. Follows(next, worker[w])
  BY <1>1, <1>2, <1>3 DEF Follows, OverItem, BoardAts
<1>. QED
  BY <1>4, <1>5, NextFollows

LEMMA AuthoriseSteps ==
  ASSUME WorkerTypes, NEW w \in Workers, Authorise(w)
  PROVE  /\ Steps(w)
         /\ NextItem(w, TRUE) \/ Catch(w, "blocked") => worker'[w].at \notin {"authorise", "write"}
<1>1. worker[w].at = "authorise" /\ worker[w] \in Worker /\ worker[w].again \in BOOLEAN /\ worker[w].out \in Outs
  BY WorkerIs DEF Authorise, WorkerTypes
<1>2. ASSUME NextItem(w, TRUE) \/ Catch(w, "blocked")
      PROVE  Steps(w) /\ worker'[w].at \notin {"authorise", "write"}
  BY <1>1, <1>2, NextItemSteps, CatchSteps DEF OverItem
<1>3. ASSUME Go(w, "write")
      PROVE  Steps(w)
  <2>1. [worker[w] EXCEPT !.at = "write"]
          = [worker[w] EXCEPT !.at = "write", !.out = worker[w].out, !.again = worker[w].again]
    BY <1>1 DEF Worker
  <2>2. Becomes(w, [worker[w] EXCEPT !.at = "write", !.out = worker[w].out, !.again = worker[w].again])
    BY <1>3, <2>1 DEF Go
  <2>. QED
    BY <1>1, <2>2, GoesOnSteps
<1>4. ASSUME Becomes(w, [worker[w] EXCEPT !.at = "settle", !.out = "retryable"])
      PROVE  Steps(w)
  <2>1. [worker[w] EXCEPT !.at = "settle", !.out = "retryable"]
          = [worker[w] EXCEPT !.at = "settle", !.out = "retryable", !.again = worker[w].again]
    BY <1>1 DEF Worker
  <2>2. Becomes(w, [worker[w] EXCEPT !.at = "settle", !.out = "retryable", !.again = worker[w].again])
    BY <1>4, <2>1
  <2>. QED
    BY <1>1, <2>2, GoesOnSteps DEF Outs
<1>. QED
  BY <1>2, <1>3, <1>4 DEF Authorise

LEMMA WriteSteps ==
  ASSUME WorkerTypes, NEW w \in Workers, Write(w)
  PROVE  /\ Steps(w)
         /\ \/ stray' = stray
            \/ /\ \E cells : stray' = stray \cup {[fence |-> worker[w].fence, cells |-> cells]}
               /\ \/ ~OverItem(worker'[w]) /\ worker'[w].fence = 0
                  \/ /\ worker'[w].at = "settle" /\ worker'[w].out = "blocked"
                     /\ worker'[w].todo = worker[w].todo
<1>1. worker[w].at = "write"
  BY DEF Write
<1>2. PICK reply \in Replies :
        /\ Becomes(w, [worker[w] EXCEPT !.at = "settle", !.out = OutcomeOf(reply), !.again = reply # "ok"])
        /\ \/ stray' = stray
           \/ /\ reply = "silence"
              /\ \E cells : stray' = stray \cup {[fence |-> worker[w].fence, cells |-> cells]}
  BY DEF Write, SheetWrite
<1>3. /\ OutcomeOf(reply) \in Outs /\ (reply # "ok") \in BOOLEAN
      /\ reply = "silence" => OutcomeOf(reply) = "blocked"
  BY DEF OutcomeOf, Outs
<1>4. PICK out \in Outs, again \in BOOLEAN :
        /\ Becomes(w, [worker[w] EXCEPT !.at = "settle", !.out = out, !.again = again])
        /\ \/ stray' = stray
           \/ /\ out = "blocked"
              /\ \E cells : stray' = stray \cup {[fence |-> worker[w].fence, cells |-> cells]}
  BY <1>2, <1>3
<1>. QED
  BY <1>1, <1>4, GoesOnSteps

LEMMA SettleSteps ==
  ASSUME WorkerTypes, NEW w \in Workers, Settle(w)
  PROVE  Steps(w) /\ worker'[w].at \notin {"authorise", "write"}
<1>1. worker[w].at = "settle"
  BY DEF Settle
<1>3. \/ HeartbeatNext(w, TRUE, FALSE) \/ Catch(w, "blocked") \/ Fail(w)
      \/ \E clean \in BOOLEAN : NextItem(w, clean)
  BY DEF Settle
<1>. QED
  BY <1>1, <1>3, FreshSteps, CatchSteps, NextItemSteps DEF OverItem

LEMMA BeatSteps ==
  ASSUME WorkerTypes, NEW w \in Workers, Beat(w) \/ LastBeat(w) \/ Complete(w) \/ Dies(w)
  PROVE  Steps(w)
<1>1. ASSUME Go(w, "complete"), worker[w].at = "beat"
      PROVE  Steps(w)
  <2>. DEFINE next == [worker[w] EXCEPT !.at = "complete"]
  <2>1. worker[w] \in Worker
    BY DEF WorkerTypes
  <2>2. next.at = "complete" /\ next.fence = worker[w].fence /\ next.todo = worker[w].todo
    BY <2>1 DEF Worker
  <2>3. Becomes(w, next)
    BY <1>1 DEF Go
  <2>. HIDE DEF next
  <2>4. Follows(next, worker[w])
    BY <2>2 DEF Follows, OverItem, BoardAts
  <2>. QED
    BY <2>3, <2>4, NextFollows
<1>2. CASE Beat(w)
  BY <1>1, <1>2, FreshSteps, RestSteps DEF Beat
<1>3. CASE LastBeat(w) \/ Complete(w) \/ Dies(w)
  BY <1>3, RestSteps DEF LastBeat, Complete, Dies
<1>. QED
  BY <1>2, <1>3

LEMMA OwedOff ==
  ASSUME GateTypes, NEW f \in Fences, NEW k, admission' = [admission EXCEPT ![f].owes = @ \ {k}]
  PROVE  /\ \A g \in Fences : admission'[g].state = admission[g].state
         /\ \A g \in Fences, j \in Keys : Owed(j, g) => Owed(j, g)' \/ (g = f /\ j = k)
<1>. DEFINE a == [admission[f] EXCEPT !.owes = admission[f].owes \ {k}]
<1>1. admission[f] \in Admission
  BY DEF GateTypes
<1>2. a.state = admission[f].state /\ a.owes = admission[f].owes \ {k}
  BY <1>1 DEF Admission
<1>3. admission' = [admission EXCEPT ![f] = a]
  OBVIOUS
<1>. HIDE DEF a
<1>4. admission'[f] = a /\ \A g \in Fences \ {f} : admission'[g] = admission[g]
  BY <1>3 DEF GateTypes
<1>. QED
  BY <1>2, <1>4 DEF Owed

LEMMA OwedBeat ==
  ASSUME GateTypes, NEW f \in Fences, NEW beat, admission' = [admission EXCEPT ![f].beat = beat]
  PROVE  /\ \A g \in Fences : admission'[g].state = admission[g].state
         /\ \A g \in Fences, j \in Keys : Owed(j, g) => Owed(j, g)'
<1>. DEFINE a == [admission[f] EXCEPT !.beat = beat]
<1>1. admission[f] \in Admission
  BY DEF GateTypes
<1>2. a.state = admission[f].state /\ a.owes = admission[f].owes
  BY <1>1 DEF Admission
<1>3. admission' = [admission EXCEPT ![f] = a]
  OBVIOUS
<1>. HIDE DEF a
<1>4. admission'[f] = a /\ \A g \in Fences \ {f} : admission'[g] = admission[g]
  BY <1>3 DEF GateTypes
<1>. QED
  BY <1>2, <1>4 DEF Owed

LEMMA BegunBefore ==
  ASSUME RowTypes, NEW k \in Keys, BackOrSettled(row'[k], row[k]), Begun(k)'
  PROVE  Begun(k)
<1>1. ASSUME NEW s \in RowStatus, row'[k] = Settled(s)
      PROVE  FALSE
  BY <1>1, SettledIs DEF Begun
<1>2. BackRow(row'[k], row[k])
  BY <1>1 DEF BackOrSettled
<1>. QED
  BY <1>2 DEF BackRow, Begun, Unsettled

\* Steps that change no admission, mark no row and give up on no write.
LEMMA QuietDrain ==
  ASSUME IInv, Draining, Moves, lease'.fence = lease.fence, admission' = admission,
         \A k \in Keys : Begun(k)' => Begun(k), stray' \subseteq stray
  PROVE  Draining'
<1>1. \A f \in Fences, k \in Keys : Owed(k, f) => Owed(k, f)'
  BY DEF Owed
<1>. QED
  BY <1>1, DrainStep DEF IInv, Types, QueueTypes

LEMMA StandingMoves ==
  ASSUME worker' = worker
  PROVE  Moves
  BY DEF Moves, Same

LEMMA SameBegun ==
  ASSUME row' = row
  PROVE  \A k \in Keys : Begun(k)' => Begun(k)
  BY DEF Begun

LEMMA EnterBegun ==
  ASSUME RowTypes, NEW key \in Keys, row' = Enter(key)
  PROVE  \A k \in Keys : Begun(k)' => Begun(k)
<1>1. row' = [row EXCEPT ![key] = IF row[key].status = "absent" THEN Settled("pending") ELSE row[key]]
  BY DEF Enter
<1>2. Settled("pending").started = FALSE
  BY SettledIs DEF RowStatus
<1>3. /\ row'[key] = row[key] \/ row'[key] = Settled("pending")
      /\ \A k \in Keys \ {key} : row'[k] = row[k]
  BY <1>1 DEF RowTypes
<1>. QED
  BY <1>2, <1>3 DEF Begun

LEMMA ChangesDrain ==
  ASSUME IInv, Draining, NEW r \in Rooms, ChangeSteps(r)
  PROVE  Draining'
<1>1. /\ lease' = lease /\ admission' = admission /\ worker' = worker /\ stray' = stray
  BY DEF ChangeSteps, PreparePin, ConfirmBegins, ConfirmCommits, RollbackPin, queue, sheet, gate
<1>2. CASE row' = row
  BY <1>1, <1>2, SameBegun, StandingMoves, QuietDrain
<1>3. CASE ConfirmCommits(r)
  <2>1. pin[r] + 1 \in 1 .. MaxVersion
    BY <1>3, VersionLeft DEF IInv, Types, ConfirmCommits
  <2>2. Key(r, pin[r] + 1, "confirmed") \in Keys
    BY <2>1 DEF Key, Keys
  <2>3. \A k \in Keys : Begun(k)' => Begun(k)
    BY <1>3, <2>2, EnterBegun DEF ConfirmCommits, IInv, Types
  <2>. QED
    BY <1>1, <2>3, StandingMoves, QuietDrain
<1>4. CASE RollbackPin(r)
  <2>1. pin[r] \in 1 .. MaxVersion
    BY <1>4, Bounds DEF RollbackPin, IInv, Types, DomainTypes
  <2>2. Key(r, pin[r], "rolledback") \in Keys
    BY <2>1 DEF Key, Keys
  <2>3. \A k \in Keys : Begun(k)' => Begun(k)
    BY <1>4, <2>2, EnterBegun DEF RollbackPin, IInv, Types
  <2>. QED
    BY <1>1, <2>3, StandingMoves, QuietDrain
<1>. QED
  BY <1>2, <1>3, <1>4 DEF ChangeSteps, PreparePin, ConfirmBegins, queue

LEMMA TakeDrain ==
  ASSUME IInv, Draining, required, NEW w \in Workers, NEW due, TakeRows(w, due), stray' = stray
  PROVE  Draining'
<1>1. PICK f \in Fences : /\ f = lease.fence + 1 /\ f # 0 /\ f \in 0 .. MaxFence /\ lease.fence \in Nat
  BY TakeIs, LeaseIs DEF IInv, Types, TakeRows
<1>2. PICK chosen \in SUBSET due :
        /\ worker' = [worker EXCEPT ![w] = [Idle EXCEPT !.at = "next", !.fence = f, !.todo = chosen]]
        /\ admission' = [admission EXCEPT ![f] = [state |-> "open", owes |-> chosen, beat |-> "none"]]
        /\ due \subseteq Keys
  BY <1>1 DEF TakeRows
<1>. DEFINE next == [Idle EXCEPT !.at = "next", !.fence = f, !.todo = chosen]
<1>3. /\ lease'.fence = f /\ \A k \in Keys : BackOrSettled(row'[k], row[k]) \/ RowTakes(k)
  BY <1>1, TakeRowsIs DEF IInv, Types
<1>4. next.at = "next" /\ next.fence = f /\ next.todo = chosen
  BY <1>2, <1>1, IdleIs DEF Worker
<1>5. worker'[w] = next /\ \A v \in Workers \ {w} : worker'[v] = worker[v]
  BY <1>2, <1>1 DEF IInv, Types, WorkerTypes
<1>. HIDE DEF next
<1>6. /\ admission'[f].state = "open" /\ admission'[f].owes = chosen
      /\ \A g \in Fences \ {f} : admission'[g] = admission[g]
  BY <1>2, <1>1 DEF IInv, Types, GateTypes
<1>7. admission[f].state = "none"
  BY <1>1 DEF Draining, FenceIsPast
<1>8. \A g \in Fences : \A k : Owed(k, g) => g # f /\ Owed(k, g)'
  BY <1>6, <1>7 DEF Owed
<1>9. \A k \in chosen : Owed(k, f)'
  BY <1>6 DEF Owed
<1>10. ASSUME NEW v \in Workers \ {w}
       PROVE  worker'[v] = worker[v] /\ worker[v].fence <= lease.fence /\ worker[v].fence # f
              /\ (worker[v].fence # 0 => worker[v].fence \in Fences) /\ worker[v].fence \in Nat
  <2>1. worker[v].fence \in 0 .. MaxFence
    BY WorkerIs DEF IInv, Types, WorkerTypes
  <2>2. worker[v].fence <= lease.fence
    BY DEF Draining, FenceIsPast
  <2>. QED
    BY <1>1, <1>5, <2>1, <2>2, Bounds DEF Fences
<1>11. FenceIsOne'
  BY <1>1, <1>4, <1>5, <1>10 DEF FenceIsOne, Draining
<1>12. FenceIsPast'
  <2>1. \A v \in Workers : worker'[v].fence <= f
    BY <1>1, <1>4, <1>5, <1>10
  <2>2. \A g \in Fences : g > f => admission'[g].state = "none"
    BY <1>1, <1>6 DEF Draining, FenceIsPast, Fences
  <2>. QED
    BY <1>3, <2>1, <2>2 DEF FenceIsPast
<1>13. ASSUME NEW v \in Workers
       PROVE  Promised(worker[v])'
  <2>1. CASE v = w
    BY <1>1, <1>4, <1>5, <1>9, <2>1 DEF Promised, BoardAts, OverItem, Owed
  <2>2. CASE v # w
    <3>1. worker'[v] = worker[v] /\ Promised(worker[v])
      BY <1>10, <2>2 DEF Draining
    <3>2. OverItem(worker[v]) => worker[v].fence \in Fences
      BY <1>10, <2>2, Busy DEF OverItem, IInv, Types
    <3>3. \A k \in worker[v].todo : worker[v].fence \in Fences
      BY <1>10, <2>2, <3>1 DEF Promised
    <3>. QED
      BY <1>8, <3>1, <3>2, <3>3 DEF Promised, OverItem, Owed
  <2>. QED
    BY <2>1, <2>2
<1>14. ASSUME NEW k \in Keys, Begun(k)'
       PROVE  \E g \in Fences : Owed(k, g)'
  <2>1. ~RowTakes(k)
    BY <1>14 DEF RowTakes, Begun
  <2>2. Begun(k)
    BY <1>3, <1>14, <2>1, BegunBefore DEF IInv, Types
  <2>. QED
    BY <1>8, <2>2 DEF Draining
<1>15. ASSUME NEW write \in stray
       PROVE  StrayIsOwed(write)'
  <2>1. PICK k \in Keys : /\ Owed(k, write.fence)
                          /\ \A v \in Workers : worker[v].fence = write.fence => GivenUp(worker[v], k)
    BY DEF Draining, StrayIsOwed
  <2>2. write.fence \in Fences
    BY DEF IInv, Types, Strays
  <2>3. write.fence # f /\ Owed(k, write.fence)'
    BY <1>8, <2>1, <2>2
  <2>4. \A v \in Workers : worker'[v].fence = write.fence => v # w /\ worker'[v] = worker[v]
    BY <1>4, <1>5, <1>10, <2>3
  <2>. QED
    BY <2>1, <2>3, <2>4 DEF StrayIsOwed
<1>. QED
  BY <1>11, <1>12, <1>13, <1>14, <1>15 DEF Draining

LEMMA ClaimDrain ==
  ASSUME IInv, Draining, required, NEW w \in Workers, NEW due, ClaimRows(w, due)
  PROVE  Draining'
<1>1. stray' = stray
  BY DEF ClaimRows, sheet
<1>2. CASE RowsAreUncertain
  <2>1. lease' = Blocked /\ Rest(w) /\ row' = row /\ admission' = admission
    BY <1>2 DEF ClaimRows
  <2>2. lease'.fence = lease.fence
    BY <2>1, LeaseIs DEF IInv, Types
  <2>3. Moves
    BY <2>1, RestSteps, StepsMove DEF IInv, Types
  <2>. QED
    BY <1>1, <2>1, <2>2, <2>3, SameBegun, QuietDrain
<1>3. CASE ~RowsAreUncertain
  BY <1>1, <1>3, TakeDrain DEF ClaimRows
<1>. QED
  BY <1>2, <1>3

LEMMA AuthoriseDrain ==
  ASSUME IInv, Draining, required, NEW w \in Workers, Authorise(w)
  PROVE  Draining'
<1>1. /\ lease' = lease /\ stray' = stray /\ worker[w].at = "authorise"
  BY DEF Authorise, sheet
<1>2. PICK k \in Keys, f \in Fences : k = worker[w].item /\ f = worker[w].fence
  BY <1>1, Busy DEF IInv, Types
<1>3. Moves
  BY AuthoriseSteps, StepsMove DEF IInv, Types
<1>4. CASE row' = row /\ admission' = admission
  BY <1>1, <1>3, <1>4, SameBegun, QuietDrain
<1>5. CASE /\ row' = [row EXCEPT ![k] = Settled("superseded")]
           /\ admission' = [admission EXCEPT ![f].owes = @ \ {k}]
           /\ NextItem(w, TRUE) \/ Catch(w, "blocked")
  <2>1. row'[k].status = "superseded" /\ \A j \in Keys \ {k} : row'[j] = row[j]
    BY <1>5, SettledIs DEF IInv, Types, RowTypes, RowStatus
  <2>2. worker'[w].at \notin {"authorise", "write"}
    BY <1>5, AuthoriseSteps DEF IInv, Types
  <2>3. Done(k, f)
    BY <1>1, <1>2, <2>1, <2>2 DEF Done, Unsettled
  <2>4. /\ \A g \in Fences : admission'[g].state = admission[g].state
        /\ \A g \in Fences, j \in Keys : Owed(j, g) => Owed(j, g)' \/ Done(j, g)
    BY <1>5, <2>3, OwedOff DEF IInv, Types
  <2>5. \A j \in Keys : Begun(j)' => Begun(j)
    BY <2>1 DEF Begun, Unsettled
  <2>. QED
    BY <1>1, <1>3, <2>4, <2>5, DrainStep DEF IInv, Types, QueueTypes
<1>6. CASE row' = [row EXCEPT ![k].started = TRUE] /\ admission' = admission
  <2>1. \A j \in Keys \ {k} : row'[j] = row[j]
    BY <1>6 DEF IInv, Types, RowTypes
  <2>2. Owed(k, f) /\ \A g \in Fences, j \in Keys : Owed(j, g) => Owed(j, g)'
    BY <1>1, <1>2, <1>6 DEF Draining, Promised, Owed
  <2>3. \A j \in Keys : Begun(j)' => Begun(j) \/ \E g \in Fences : Owed(j, g)'
    BY <2>1, <2>2 DEF Begun
  <2>. QED
    BY <1>1, <1>3, <1>6, <2>2, <2>3, DrainStep DEF IInv, Types, QueueTypes
<1>. QED
  BY <1>2, <1>4, <1>5, <1>6 DEF Authorise

\* A write given up is of an item that is owed and whose outcome is now "blocked".
LEMMA WriteDrain ==
  ASSUME IInv, Draining, NEW w \in Workers, Write(w)
  PROVE  Draining'
<1>1. /\ lease' = lease /\ row' = row /\ admission' = admission /\ worker[w].at = "write"
  BY DEF Write, queue, gate
<1>2. PICK k \in Keys, f \in Fences : k = worker[w].item /\ f = worker[w].fence
  BY <1>1, Busy DEF IInv, Types
<1>3. Moves /\ Steps(w)
  BY WriteSteps, StepsMove DEF IInv, Types
<1>4. CASE stray' = stray
  BY <1>1, <1>3, <1>4, SameBegun, QuietDrain
<1>5. CASE stray' # stray
  <2>a. PICK cells : stray' = stray \cup {[fence |-> f, cells |-> cells]}
    BY <1>2, <1>5, WriteSteps DEF IInv, Types
  <2>. DEFINE write == [fence |-> f, cells |-> cells]
  <2>1. stray' = stray \cup {write} /\ write.fence = f
    BY <2>a
  <2>. HIDE DEF write
  <2>2. \/ ~OverItem(worker'[w]) /\ worker'[w].fence = 0
        \/ worker'[w].at = "settle" /\ worker'[w].out = "blocked" /\ worker'[w].todo = worker[w].todo
    BY <1>5, WriteSteps DEF IInv, Types
  <2>3. \A g \in Fences, j \in Keys : Owed(j, g) => Owed(j, g)'
    BY <1>1 DEF Owed
  <2>4. Owed(k, f)' /\ k \notin worker[w].todo /\ f # 0
    BY <1>1, <1>2, <2>3 DEF Draining, Promised, OverItem, Fences
  <2>5. ASSUME NEW v \in Workers, worker'[v].fence = f
        PROVE  GivenUp(worker'[v], k)
    <3>1. v = w
      BY <1>2, <1>3, <2>4, <2>5 DEF Draining, FenceIsOne, Steps
    <3>. QED
      BY <2>2, <2>4, <2>5, <3>1 DEF GivenUp
  <2>6. StrayIsOwed(write)'
    BY <2>1, <2>4, <2>5 DEF StrayIsOwed
  <2>7. \A j \in Keys : Begun(j)' => Begun(j)
    BY <1>1, SameBegun
  <2>. QED
    BY <1>1, <1>3, <2>1, <2>3, <2>6, <2>7, DrainStep DEF IInv, Types, QueueTypes
<1>. QED
  BY <1>4, <1>5

LEMMA SettleDrain ==
  ASSUME IInv, Draining, required, NEW w \in Workers, Settle(w)
  PROVE  Draining'
<1>1. stray' = stray /\ worker[w].at = "settle"
  BY DEF Settle
<1>2. PICK k \in Keys, f \in Fences, out \in Outs :
        k = worker[w].item /\ f = worker[w].fence /\ out = worker[w].out
  BY <1>1, Busy DEF IInv, Types
<1>3. Moves /\ worker'[w].at \notin {"authorise", "write"}
  BY SettleSteps, StepsMove DEF IInv, Types
<1>4. CASE row' = row /\ lease' = lease /\ admission' = admission
  BY <1>1, <1>3, <1>4, SameBegun, QuietDrain
<1>5. CASE ~(row' = row /\ lease' = lease /\ admission' = admission)
  <2>1. PICK outcome \in {out, "superseded"} :
          /\ Mine(w) /\ SettleRow(k, outcome)
          /\ admission' = IF KnownOutcome(out, outcome)
                          THEN [admission EXCEPT ![f].owes = @ \ {k}] ELSE admission
    BY <1>2, <1>5 DEF Settle
  <2>2. /\ row[k].status = "processing" /\ outcome \in Outs \cup {"superseded"}
    BY <1>2, <2>1 DEF Mine, Claimed
  <2>3. /\ lease' = lease \/ lease' = Blocked
        /\ row'[k].started /\ row'[k].status \in Unsettled => row[k].started
        /\ row'[k].status \in Unsettled => outcome \in {"retryable", "blocked"}
        /\ \A j \in Keys \ {k} : row'[j] = row[j]
    BY <2>1, <2>2, SettleRowIs DEF IInv, Types
  <2>4. lease'.fence = lease.fence
    BY <2>3, LeaseIs DEF IInv, Types
  <2>5. \A j \in Keys : Begun(j)' => Begun(j)
    BY <2>2, <2>3 DEF Begun, Unsettled
  <2>6. CASE KnownOutcome(out, outcome)
    <3>1. outcome \notin {"retryable", "blocked"} /\ out # "blocked"
      BY <2>1, <2>6 DEF KnownOutcome
    <3>2. Done(k, f)
      BY <1>1, <1>2, <1>3, <2>3, <3>1 DEF Done
    <3>3. /\ \A g \in Fences : admission'[g].state = admission[g].state
          /\ \A g \in Fences, j \in Keys : Owed(j, g) => Owed(j, g)' \/ Done(j, g)
      BY <2>1, <2>6, <3>2, OwedOff DEF IInv, Types
    <3>. QED
      BY <1>1, <1>3, <2>4, <2>5, <3>3, DrainStep DEF IInv, Types, QueueTypes
  <2>7. CASE ~KnownOutcome(out, outcome)
    BY <1>1, <1>3, <2>1, <2>4, <2>5, <2>7, QuietDrain
  <2>. QED
    BY <2>6, <2>7
<1>. QED
  BY <1>4, <1>5

LEMMA BeatDrain ==
  ASSUME IInv, Draining, NEW w \in Workers, Beat(w) \/ LastBeat(w)
  PROVE  Draining'
<1>1. stray' = stray /\ worker[w].at \in {"beat", "last"}
  BY DEF Beat, LastBeat, sheet
<1>2. PICK f \in Fences : f = worker[w].fence
  BY <1>1, Busy DEF IInv, Types
<1>3. Moves
  BY BeatSteps, StepsMove DEF IInv, Types
<1>4. CASE UNCHANGED <<queue, admission>>
  BY <1>1, <1>3, <1>4, SameBegun, QuietDrain DEF queue
<1>5. CASE Heartbeat(w)
  <2>1. /\ row' = [k \in Keys |-> Returned(row[k], f)]
        /\ lease' = IF lease.status = "leased" THEN [lease EXCEPT !.status = "idle"] ELSE lease
        /\ \/ admission' = admission
           \/ \E beat \in {"succeeded", "other"} : admission' = [admission EXCEPT ![f].beat = beat]
    BY <1>2, <1>5 DEF Heartbeat
  <2>2. lease'.fence = lease.fence
    BY <2>1, LeaseIs DEF IInv, Types
  <2>3. \A k \in Keys : Begun(k)' => Begun(k)
    <3>1. ASSUME NEW k \in Keys
          PROVE  BackOrSettled(row'[k], row[k])
      BY <2>1, ReturnedRowIs DEF BackOrSettled, IInv, Types, RowTypes
    <3>. QED
      BY <3>1, BegunBefore DEF IInv, Types
  <2>4. /\ \A g \in Fences : admission'[g].state = admission[g].state
        /\ \A g \in Fences, j \in Keys : Owed(j, g) => Owed(j, g)'
    <3>1. CASE admission' = admission
      BY <3>1 DEF Owed
    <3>2. CASE \E beat \in {"succeeded", "other"} : admission' = [admission EXCEPT ![f].beat = beat]
      BY <3>2, OwedBeat DEF IInv, Types
    <3>. QED
      BY <2>1, <3>1, <3>2
  <2>. QED
    BY <1>1, <1>3, <2>2, <2>3, <2>4, DrainStep DEF IInv, Types, QueueTypes
<1>. QED
  BY <1>4, <1>5 DEF Beat, LastBeat

\* complete_operation_pin_incremental closes an admission that owes nothing.
LEMMA CompleteDrain ==
  ASSUME IInv, Draining, NEW w \in Workers, Complete(w)
  PROVE  Draining'
<1>1. /\ lease' = lease /\ row' = row /\ stray' = stray /\ worker[w].at = "complete"
  BY DEF Complete, queue, sheet
<1>2. PICK f \in Fences : f = worker[w].fence
  BY <1>1, Busy DEF IInv, Types
<1>3. Moves
  BY BeatSteps, StepsMove DEF IInv, Types
<1>4. admission[f].owes = {} /\ admission' = [admission EXCEPT ![f].state = "completed"]
  BY <1>2 DEF Complete
<1>5. \A g \in Fences \ {f} : admission'[g] = admission[g]
  BY <1>4 DEF IInv, Types, GateTypes
<1>6. \A g \in Fences, k \in Keys : Owed(k, g) => Owed(k, g)'
  BY <1>4, <1>5 DEF Owed
<1>7. \A g \in Fences : g > lease.fence => g # f
  <2>1. f <= lease.fence /\ lease.fence \in Nat
    BY <1>2, LeaseIs DEF Draining, FenceIsPast, IInv, Types
  <2>. QED
    BY <2>1, Bounds DEF Fences
<1>. QED
  BY <1>1, <1>3, <1>5, <1>6, <1>7, SameBegun, DrainStep DEF IInv, Types, QueueTypes

LEMMA LapseDrain ==
  ASSUME IInv, Draining, NEW f \in Fences, LeaseLapses(f)
  PROVE  Draining'
<1>1. /\ lease' = lease /\ row' = row /\ stray' = stray /\ admission' = admission
  BY DEF LeaseLapses, queue, sheet, gate
<1>2. PICK gone \in SUBSET Workers :
        worker' = [w \in Workers |-> IF w \in gone THEN Idle
                                     ELSE [worker[w] EXCEPT !.late = @ \/ worker[w].fence = f]]
  BY DEF LeaseLapses
<1>3. ASSUME NEW w \in Workers
      PROVE  Same(worker'[w], worker[w]) \/ Follows(worker'[w], worker[w])
  <2>1. CASE w \in gone
    BY <1>2, <2>1, IdleFollows
  <2>2. CASE w \notin gone
    <3>. DEFINE next == [worker[w] EXCEPT !.late = worker[w].late \/ worker[w].fence = f]
    <3>1. worker'[w] = next
      BY <1>2, <2>2
    <3>2. worker[w] \in Worker
      BY DEF IInv, Types, WorkerTypes
    <3>3. /\ next.at = worker[w].at /\ next.fence = worker[w].fence /\ next.todo = worker[w].todo
          /\ next.item = worker[w].item /\ next.out = worker[w].out
      BY <3>2 DEF Worker
    <3>. HIDE DEF next
    <3>. QED
      BY <3>1, <3>3 DEF Same
  <2>. QED
    BY <2>1, <2>2
<1>4. Moves
  BY <1>3 DEF Moves
<1>. QED
  BY <1>1, <1>4, SameBegun, QuietDrain

LEMMA RequestDrain ==
  ASSUME IInv, Draining, NEW i \in Runs, RequestResync(i)
  PROVE  Draining'
<1>1. /\ row' = row /\ worker' = worker /\ stray' = stray /\ admission' = admission
      /\ lease' = Blocked \/ lease' = [lease EXCEPT !.status = "idle"]
  BY DEF RequestResync, sheet, gate
<1>2. lease'.fence = lease.fence
  BY <1>1, LeaseIs DEF IInv, Types
<1>. QED
  BY <1>1, <1>2, SameBegun, StandingMoves, QuietDrain

LEMMA StillDrain ==
  ASSUME IInv, Draining, UNCHANGED <<queue, worker, admission>>, stray' \subseteq stray
  PROVE  Draining'
  BY SameBegun, StandingMoves, QuietDrain DEF queue

\* With admissions no run of the worker is at a full resync.
LEMMA NoBoardDrain ==
  ASSUME Draining, required, NEW w \in Workers, BoardSteps(w)
  PROVE  FALSE
<1>1. worker[w].at \notin BoardAts
  BY DEF Draining, Promised
<1>. QED
  BY <1>1 DEF BoardSteps, ProbeResync, AuthoriseBoard, WriteBoard, CloseBoard, BlockBoard, BoardAts

LEMMA RowDrain ==
  ASSUME IInv, Draining, required, NEW w \in Workers, RowSteps(w)
  PROVE  Draining'
<1>1. CASE \E due : ClaimProbed(w, due) \/ ClaimAdmitted(w, due)
  BY <1>1, ClaimDrain DEF ClaimProbed, ClaimAdmitted
<1>2. CASE EndItems(w) \/ Inspect(w) \/ Dies(w)
  <2>1. UNCHANGED <<queue, admission, stray>>
    BY <1>2 DEF EndItems, Inspect, Dies, sheet, gate
  <2>2. Moves
    BY <1>2, EndItemsSteps, InspectSteps, BeatSteps, StepsMove DEF IInv, Types
  <2>. QED
    BY <2>1, <2>2, SameBegun, QuietDrain DEF queue
<1>. QED
  BY <1>1, <1>2, AuthoriseDrain, WriteDrain, SettleDrain, BeatDrain, CompleteDrain DEF RowSteps

LEMMA DrainInit ==
  ASSUME Init
  PROVE  DrainInv
<1>1. \A w \in Workers : worker[w] = Idle
  BY DEF Init
<1>2. \A f \in Fences : admission[f].state = "none"
  BY DEF Init
<1>3. \A k \in Keys : ~Begun(k)
  BY SettledIs DEF Init, Begun, RowStatus
<1>4. FenceIsOne /\ FenceIsPast
  BY <1>1, <1>2, IdleIs DEF FenceIsOne, FenceIsPast, Init
<1>5. \A w \in Workers : Promised(worker[w])
  BY <1>1, IdleIs DEF Promised, BoardAts, OverItem
<1>6. stray = {}
  BY DEF Init
<1>. QED
  BY <1>3, <1>4, <1>5, <1>6 DEF DrainInv, Draining

LEMMA DrainNext ==
  ASSUME IInv, DrainInv, [Next]_vars
  PROVE  DrainInv'
<1>1. required' = required
  BY DEF Next, vars, gate, ChangeSteps, PreparePin, ConfirmBegins, ConfirmCommits, RollbackPin,
     RowSteps, BoardSteps, WorldSteps, ClaimProbed, ClaimAdmitted, ClaimRows, EndItems, Inspect,
     Authorise, Write, Settle, Beat, LastBeat, Complete, Dies, ProbeResync, AuthoriseBoard,
     WriteBoard, CloseBoard, BlockBoard, RequestResync, LeaseLapses, Land, TurnMaintenance
<1>2. SUFFICES ASSUME required, Draining
               PROVE  Draining'
  BY <1>1 DEF DrainInv
<1>3. CASE \E r \in Rooms : ChangeSteps(r)
  BY <1>2, <1>3, ChangesDrain
<1>4. CASE \E w \in Workers : RowSteps(w) \/ BoardSteps(w)
  BY <1>2, <1>4, RowDrain, NoBoardDrain
<1>5. CASE \E i \in Runs : RequestResync(i)
  BY <1>2, <1>5, RequestDrain
<1>6. CASE WorldSteps
  <2>1. CASE \E f \in Fences : LeaseLapses(f)
    BY <1>2, <2>1, LapseDrain
  <2>2. CASE (\E write \in stray : Land(write)) \/ TurnMaintenance
    BY <1>2, <2>2, StillDrain DEF Land, TurnMaintenance, sheet, gate
  <2>. QED
    BY <1>6, <2>1, <2>2 DEF WorldSteps
<1>7. CASE UNCHANGED vars
  BY <1>2, <1>7, StillDrain DEF vars, sheet, gate
<1>. QED
  BY <1>3, <1>4, <1>5, <1>6, <1>7 DEF Next

\* Where admissions are taken, an open one owes every write that is planned, under
\* way or given up, and every row whose write has no outcome.
THEOREM AdmissionsOweWrites == Spec => []DrainInv
<1>1. Init => DrainInv
  BY DrainInit
<1>2. IInv /\ DrainInv /\ [Next]_vars => DrainInv'
  BY DrainNext
<1>. QED
  BY <1>1, <1>2, Inductive, PTL DEF Spec

\* When maintenance was requested and complete_operation_pin_incremental has closed
\* every admission, the sheet is at rest: no write is to come and none is in doubt.
THEOREM DrainsAreReal == Spec => []DrainIsReal
<1>1. IInv /\ DrainInv => DrainIsReal
  <2>1. SUFFICES ASSUME IInv, Draining, \A f \in Fences : admission[f].state # "open"
                 PROVE  /\ stray = {}
                        /\ \A w \in Workers : worker[w].at \notin {"authorise", "write"}
                        /\ \A k \in Keys : row[k].status \in Unsettled => ~row[k].started
    BY DEF DrainInv, DrainIsReal
  <2>2. \A f \in Fences : \A k : ~Owed(k, f)
    BY <2>1 DEF Owed
  <2>3. stray = {}
    BY <2>1, <2>2 DEF Draining, StrayIsOwed, IInv, Types, Strays
  <2>4. ASSUME NEW w \in Workers, worker[w].at \in {"authorise", "write"}
        PROVE  FALSE
    <3>1. worker[w].fence \in Fences
      BY <2>1, <2>4, Busy DEF IInv, Types
    <3>. QED
      BY <2>1, <2>2, <2>4, <3>1 DEF Draining, Promised
  <2>5. \A k \in Keys : ~Begun(k)
    BY <2>1, <2>2 DEF Draining
  <2>. QED
    BY <2>3, <2>4, <2>5 DEF Begun
<1>. QED
  BY <1>1, Inductive, AdmissionsOweWrites, PTL
=============================================================================
