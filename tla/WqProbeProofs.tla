--------------------------- MODULE WqProbeProofs ---------------------------
(***************************************************************************)
(* Proofs about wq_probe.c for every number of work items and every finite *)
(* set of kworkers: the work functions drive the concurrency meter as      *)
(* PeakMeter prescribes, the report after a completed wait is exact, and   *)
(* rmmod waits for the items of the queue the module allocated.            *)
(***************************************************************************)
EXTENDS WqProbe, ProofLemmas, FiniteSetTheorems

MP == INSTANCE PeakMeterProofs
        WITH Threads <- Workers, pc <- MeterPc, cur <- concur, maxcur <- maxconcur

-----------------------------------------------------------------------------
(* The refinement of the concurrency meter.                                *)

\* What the step simulation needs to know of the state.
MeterTyped == pc \in [Workers -> Locations] /\ concur \in Int /\ peak \in Int

\* The work functions keep the meter's variables well typed.
LEMMA MeterTypedInv == Spec => []MeterTyped
<1>1. Init => MeterTyped
  BY DEF Init, MeterTyped, Locations
<1>2. MeterTyped /\ [Next]_vars => MeterTyped'
  <2> SUFFICES ASSUME MeterTyped, [Next]_vars PROVE MeterTyped'
    OBVIOUS
  <2> USE DEF MeterTyped, Locations
  <2>1. CASE Insmod \/ WaitTimeout \/ Exit \/ UNCHANGED vars
    BY <2>1 DEF Insmod, Setup, QueueWork, BeginWait, WaitDone, WaitTimeout, Report, Exit,
                vars, meter
  <2>2. ASSUME NEW w \in Workers, StartWork(w) \/ IncReturn(w) \/ ReadMax(w) PROVE MeterTyped'
    BY <2>2 DEF StartWork, IncReturn, ReadMax
  <2>3. ASSUME NEW w \in Workers, CmpXchg(w) \/ Sleep(w) \/ Wake(w) PROVE MeterTyped'
    BY <2>3 DEF CmpXchg, Sleep, Wake
  <2>4. ASSUME NEW w \in Workers, Dec(w) \/ DecAndTest(w) \/ Return(w) PROVE MeterTyped'
    BY <2>4 DEF Dec, DecAndTest, Return
  <2> QED BY <2>1, <2>2, <2>3, <2>4 DEF Next, Execute, Unloaded
<1> QED BY <1>1, <1>2, PTL DEF Spec

\* Every step of the module is a step of the meter or leaves it alone: the
\* sleep and the busy loop lie inside the measured section, the accounting of
\* items outside it.
LEMMA MeterStep == MeterTyped /\ [Next]_vars => [MP!Next]_MP!vars
<1> SUFFICES ASSUME MeterTyped, [Next]_vars PROVE [MP!Next]_MP!vars
  OBVIOUS
<1> USE DEF MeterTyped, Locations
<1>1. CASE Insmod \/ WaitTimeout \/ Exit \/ UNCHANGED vars
  BY <1>1 DEF Insmod, Setup, QueueWork, BeginWait, WaitDone, WaitTimeout, Report, Exit,
              vars, meter, MeterPc, MP!vars
<1>2. ASSUME NEW w \in Workers,
             StartWork(w) \/ Sleep(w) \/ Wake(w) \/ DecAndTest(w) \/ Return(w)
      PROVE  UNCHANGED MP!vars
  <2>1. CASE StartWork(w)
    BY <2>1 DEF StartWork, MeterPc, MP!vars
  <2>2. CASE Sleep(w)
    BY <2>2 DEF Sleep, MeterPc, MP!vars
  <2>3. CASE Wake(w)
    BY <2>3 DEF Wake, MeterPc, MP!vars
  <2>4. CASE DecAndTest(w)
    BY <2>4 DEF DecAndTest, MeterPc, MP!vars
  <2>5. CASE Return(w)
    BY <2>5 DEF Return, MeterPc, MP!vars
  <2> QED BY <1>2, <2>1, <2>2, <2>3, <2>4, <2>5
<1>3. ASSUME NEW w \in Workers, IncReturn(w) PROVE MP!IncReturn(w)
  <2>1. MeterPc[w] = "out" /\ MeterPc' = [MeterPc EXCEPT ![w] = "read"]
    BY <1>3 DEF IncReturn, MeterPc
  <2>2. peak' = MP!Larger(peak, concur + 1)
    BY <1>3 DEF IncReturn, MP!Larger
  <2> QED BY <1>3, <2>1, <2>2 DEF IncReturn, MP!IncReturn
<1>4. ASSUME NEW w \in Workers, ReadMax(w) PROVE MP!ReadMax(w)
  BY <1>4 DEF ReadMax, MeterPc, MP!ReadMax
<1>5. ASSUME NEW w \in Workers, CmpXchg(w) PROVE MP!CmpXchg(w)
  BY <1>5 DEF CmpXchg, MeterPc, MP!CmpXchg
<1>6. ASSUME NEW w \in Workers, Dec(w) PROVE MP!Dec(w)
  BY <1>6 DEF Dec, MeterPc, MP!Dec
<1> QED BY <1>1, <1>2, <1>3, <1>4, <1>5, <1>6 DEF Next, Execute, Unloaded, MP!Next

\* PeakMeter's assumption holds of the kworkers.
LEMMA WorkersFinite == MP!ThreadsFinite
  BY WqProbeAssumption DEF MP!ThreadsFinite, MP!IsFiniteSet, IsFiniteSet

\* The module implements the meter, seen through the proof module's instance.
LEMMA MeterSpec == Spec => MP!Spec
<1>1. Init => MP!Init
  BY DEF Init, MP!Init, MeterPc
<1> QED BY <1>1, MeterStep, MeterTypedInv, PTL DEF Spec, MP!Spec

\* bump() of wq_probe.c, called from work items that sleep or burn CPU, implements
\* the concurrency meter, for every finite set of kworkers and every mode.
THEOREM WqMeter == Spec => ImplementsMeter
<1>1. MP!Init => Meter!Init
  BY DEF MP!Init, Meter!Init
<1>2. [MP!Next]_MP!vars => [Meter!Next]_Meter!vars
  <2>1. MP!vars = Meter!vars /\ MP!vars' = Meter!vars'
    BY DEF MP!vars, Meter!vars
  <2>2. ASSUME NEW w \in Workers
        PROVE  /\ MP!IncReturn(w) => Meter!IncReturn(w)
               /\ MP!ReadMax(w) => Meter!ReadMax(w)
               /\ MP!CmpXchg(w) => Meter!CmpXchg(w)
               /\ MP!Dec(w) => Meter!Dec(w)
    BY DEF MP!IncReturn, Meter!IncReturn, MP!ReadMax, Meter!ReadMax, MP!CmpXchg,
           Meter!CmpXchg, MP!Dec, Meter!Dec, MP!Larger, Meter!Larger
  <2> QED BY <2>1, <2>2 DEF MP!Next, Meter!Next
<1> QED BY <1>1, <1>2, MeterSpec, PTL DEF MP!Spec, Meter!Spec, ImplementsMeter

\* What the meter's invariant says in the module's own terms.
Measured == {w \in Workers : pc[w] \in {"read", "cas", "in", "asleep", "awake"}}
MeterFacts ==
  /\ concur \in Nat /\ maxconcur \in Nat /\ peak \in Nat
  /\ (\A w \in Workers : pc[w] \notin {"read", "cas"}) => maxconcur = peak
  /\ concur = Cardinality(Measured)

\* The meter's invariant, carried over along the refinement.
LEMMA MeterFactsInv == Spec => []MeterFacts
<1>1. MP!IInv => MeterFacts
  <2> SUFFICES ASSUME MP!IInv PROVE MeterFacts
    OBVIOUS
  <2>1. MP!Inside = Measured
    BY DEF MP!Inside, Measured, MeterPc
  <2>2. MP!Cardinality(Measured) = Cardinality(Measured)
    BY Zenon DEF MP!Cardinality, Cardinality
  <2>3. concur = Cardinality(Measured)
    BY <2>1, <2>2 DEF MP!IInv, MP!CurCountsInside
  <2>4. concur \in Nat /\ maxconcur \in Nat /\ peak \in Nat
    BY DEF MP!IInv, MP!TypeOK
  <2>5. \A w \in Workers : MeterPc[w] \in {"read", "cas"} => pc[w] \in {"read", "cas"}
    BY DEF MeterPc
  <2>6. (\A w \in Workers : pc[w] \notin {"read", "cas"}) => maxconcur = peak
    BY <2>4, <2>5 DEF MP!IInv, MP!Owed
  <2> QED BY <2>3, <2>4, <2>6 DEF MeterFacts
<1> QED BY <1>1, MeterSpec, WorkersFinite, MP!MeterInvariant, PTL

-----------------------------------------------------------------------------
(* Steps on the queues, in terms of what the queues hold.                  *)

\* more is the queue q with e added at its end, rest is q without its head e.
Added(q, e, more) ==
  /\ Range(more) = Range(q) \cup {e}
  /\ IsInjective(q) /\ e \notin Range(q) => IsInjective(more)
Removed(q, e, rest) ==
  /\ Range(q) = Range(rest) \cup {e}
  /\ IsInjective(q) => IsInjective(rest) /\ e \notin Range(rest)

\* queue_work_on() puts the item on the worklist or parks it.
Enqueued(more) ==
  \/ /\ nr_active < MaxActive /\ Added(worklist, next, more)
     /\ worklist' = more /\ inactive' = inactive /\ nr_active' = nr_active + 1
  \/ /\ nr_active >= MaxActive /\ Added(inactive, next, more)
     /\ inactive' = more /\ worklist' = worklist /\ nr_active' = nr_active

\* A worker takes item i from the worklist.
Taken(w, i, rest) ==
  Removed(worklist, i, rest) /\ worklist' = rest /\ job' = [job EXCEPT ![w] = i]

\* The first inactive item i moves to the worklist.
Moved(i, more, rest) ==
  /\ Removed(inactive, i, rest) /\ Added(worklist, i, more)
  /\ inactive' = rest /\ worklist' = more /\ nr_active' = nr_active

\* No item has the name of "no item".
LEMMA Items == NoWork \notin Works /\ NWork \in Nat \ {0} /\ Modes \subseteq 0..3
  BY WqProbeAssumption DEF NoWork, Works

\* The number of items an allowed queue executes at a time.
LEMMA MaxActiveRange ==
  ASSUME mode \in Modes
  PROVE  /\ MaxActive \in Nat \ {0}
         /\ mode = 2 => MaxActive = 1
         /\ mode = 3 => MaxActive = 2
<1>1. mode \in {0, 1, 2, 3}
  BY Items
<1> QED BY <1>1, Items DEF MaxActive

\* Adding to a queue of items and taking from one.
LEMMA QueueOps ==
  ASSUME NEW q \in Seq(Works)
  PROVE  /\ \A e \in Works : Append(q, e) \in Seq(Works) /\ Added(q, e, Append(q, e))
         /\ q # <<>> => /\ Head(q) \in Works /\ Tail(q) \in Seq(Works)
                        /\ Removed(q, Head(q), Tail(q))
<1>1. ASSUME NEW e \in Works PROVE Append(q, e) \in Seq(Works) /\ Added(q, e, Append(q, e))
  BY AppendQueue DEF Added
<1>2. ASSUME q # <<>>
      PROVE  Head(q) \in Works /\ Tail(q) \in Seq(Works) /\ Removed(q, Head(q), Tail(q))
  BY <1>2, TailQueue, Zenon DEF Removed
<1> QED BY <1>1, <1>2

\* Each action on the queues is one of these steps.
LEMMA QueueWorkEffect ==
  ASSUME TypeOK, QueueWork
  PROVE  next \in Works /\ \E more \in Seq(Works) : Enqueued(more)
<1>1. next \in Works /\ worklist \in Seq(Works) /\ inactive \in Seq(Works)
  BY Items DEF TypeOK, QueueWork, Works
<1>2. CASE nr_active < MaxActive /\ worklist' = Append(worklist, next)
           /\ nr_active' = nr_active + 1 /\ inactive' = inactive
  <2>1. Append(worklist, next) \in Seq(Works) /\ Added(worklist, next, Append(worklist, next))
    BY <1>1, QueueOps
  <2> QED BY <1>1, <1>2, <2>1 DEF Enqueued
<1>3. CASE nr_active >= MaxActive /\ inactive' = Append(inactive, next)
           /\ worklist' = worklist /\ nr_active' = nr_active
  <2>1. Append(inactive, next) \in Seq(Works) /\ Added(inactive, next, Append(inactive, next))
    BY <1>1, QueueOps
  <2> QED BY <1>1, <1>3, <2>1 DEF Enqueued
<1> QED BY <1>2, <1>3 DEF QueueWork

\* So does handing an item to a worker ...
LEMMA StartWorkEffect ==
  ASSUME TypeOK, NEW w \in Workers, StartWork(w)
  PROVE  \E i \in Works, rest \in Seq(Works) : Taken(w, i, rest)
<1>1. worklist \in Seq(Works) /\ worklist # <<>>
  BY DEF TypeOK, StartWork
<1>2. /\ Head(worklist) \in Works /\ Tail(worklist) \in Seq(Works)
      /\ Removed(worklist, Head(worklist), Tail(worklist))
  BY <1>1, QueueOps
<1> QED BY <1>2 DEF StartWork, Taken

\* ... and retiring it.
LEMMA ReturnEffect ==
  ASSUME TypeOK, NEW w \in Workers, Return(w)
  PROVE  \/ \E i \in Works, more, rest \in Seq(Works) : Moved(i, more, rest)
         \/ worklist' = worklist /\ inactive' = inactive /\ nr_active' = nr_active - 1
<1>1. worklist \in Seq(Works) /\ inactive \in Seq(Works)
  BY DEF TypeOK
<1>2. CASE /\ inactive # <<>> /\ worklist' = Append(worklist, Head(inactive))
           /\ inactive' = Tail(inactive) /\ nr_active' = nr_active
  <2>1. /\ Head(inactive) \in Works /\ Tail(inactive) \in Seq(Works)
        /\ Removed(inactive, Head(inactive), Tail(inactive))
    BY <1>1, <1>2, QueueOps
  <2>2. /\ Append(worklist, Head(inactive)) \in Seq(Works)
        /\ Added(worklist, Head(inactive), Append(worklist, Head(inactive)))
    BY <1>1, <2>1, QueueOps
  <2> QED BY <1>2, <2>1, <2>2 DEF Moved
<1>3. CASE worklist' = worklist /\ inactive' = inactive /\ nr_active' = nr_active - 1
  BY <1>3
<1> QED BY <1>2, <1>3 DEF Return

-----------------------------------------------------------------------------
(* The inductive invariant.                                                *)

\* An item stays in one place at a time, through queueing, parking, execution
\* and retirement.
LEMMA NextPlaces == TypeOK /\ Places /\ [Next]_vars => Places'
<1> SUFFICES ASSUME TypeOK, Places, [Next]_vars PROVE Places'
  OBVIOUS
<1>0. /\ job \in [Workers -> Works \cup {NoWork}] /\ pc \in [Workers -> Locations]
      /\ next \in Int /\ \A i \in Works : i \in Int
  BY Items DEF TypeOK, Works
<1>1. CASE Setup \/ BeginWait \/ WaitDone \/ WaitTimeout \/ Exit \/ UNCHANGED vars
  <2>1. UNCHANGED <<worklist, inactive, finished, job, pc, next>> /\ (phase' = "init" => phase = "init")
    BY <1>1 DEF Setup, BeginWait, WaitDone, WaitTimeout, Report, Exit, vars, pool, meter, sync
  <2> QED BY <2>1 DEF Places, Queued
<1>2. CASE QueueWork
  <2>1. UNCHANGED <<phase, finished, job, pc>> /\ next' = next + 1 /\ phase = "queue"
    BY <1>2 DEF QueueWork, meter, sync
  <2>2. next \in Works
    BY <1>2, QueueWorkEffect
  <2>3. PICK more \in Seq(Works) : Enqueued(more)
    BY <1>2, QueueWorkEffect
  <2>4. next \notin Queued /\ next \notin finished /\ \A w \in Workers : job[w] # next
    BY <2>2, <1>0 DEF Places
  <2>5. /\ IsInjective(worklist') /\ IsInjective(inactive')
        /\ Range(worklist') \cap Range(inactive') = {}
        /\ Queued' = Queued \cup {next}
    BY <2>3, <2>4 DEF Enqueued, Added, Places, Queued
  <2>6. \A i \in Works : i >= next' => i >= next /\ i # next
    BY <2>1, <1>0
  <2> QED BY <2>1, <2>4, <2>5, <2>6 DEF Places
<1>3. ASSUME NEW w \in Workers, StartWork(w) PROVE Places'
  <2>1. UNCHANGED <<phase, finished, inactive, next>> /\ pc[w] = "out"
    BY <1>3 DEF StartWork, sync
  <2>2. PICK i \in Works, rest \in Seq(Works) : Taken(w, i, rest)
    BY <1>3, StartWorkEffect
  <2>3. (\A v \in Workers \ {w} : job'[v] = job[v] /\ pc'[v] = pc[v]) /\ job'[w] = i /\ pc'[w] = "start"
    BY <1>3, <2>2, <1>0 DEF StartWork, Taken
  <2>4. /\ i \in Queued /\ i \notin finished /\ i # NoWork
        /\ \A v \in Workers : job[v] # i
    BY <2>2, Items DEF Taken, Removed, Places, Queued
  <2>5. /\ IsInjective(worklist') /\ IsInjective(inactive')
        /\ Range(worklist') \cap Range(inactive') = {}
        /\ Queued' \subseteq Queued /\ i \notin Queued'
    BY <2>1, <2>2 DEF Taken, Removed, Places, Queued
  <2>6. \A k \in Works : k >= next => k # i
    BY <2>4 DEF Places
  <2>7. \A v \in Workers : /\ (job'[v] = NoWork) <=> (pc'[v] = "out")
                           /\ job'[v] \notin Queued'
                           /\ job'[v] \in finished' <=> pc'[v] \in {"dec", "tail"}
    BY <2>1, <2>3, <2>4, <2>5 DEF Places
  <2>8. \A u, v \in Workers : u # v /\ job'[u] # NoWork => job'[u] # job'[v]
    BY <2>3, <2>4 DEF Places
  <2>9. \A k \in Works : k >= next' => k \notin Queued' \cup finished' /\ \A v \in Workers : job'[v] # k
    BY <2>1, <2>3, <2>5, <2>6 DEF Places
  <2> QED BY <2>1, <2>5, <2>7, <2>8, <2>9 DEF Places
<1>4. ASSUME NEW w \in Workers,
             IncReturn(w) \/ ReadMax(w) \/ CmpXchg(w) \/ Sleep(w) \/ Wake(w) \/ DecAndTest(w)
      PROVE  Places'
  <2>1. UNCHANGED <<phase, worklist, inactive, finished, job, next>>
    BY <1>4 DEF IncReturn, ReadMax, CmpXchg, Sleep, Wake, DecAndTest, pool, sync
  <2>2. \A v \in Workers : /\ pc'[v] = "out" <=> pc[v] = "out"
                           /\ pc'[v] \in {"dec", "tail"} <=> pc[v] \in {"dec", "tail"}
    BY <1>4, <1>0 DEF IncReturn, ReadMax, CmpXchg, Sleep, Wake, DecAndTest
  <2> QED BY <2>1, <2>2 DEF Places, Queued
<1>5. ASSUME NEW w \in Workers, Dec(w) PROVE Places'
  <2>1. UNCHANGED <<phase, worklist, inactive, job, next>> /\ finished' = finished \cup {job[w]}
    BY <1>5 DEF Dec, pool
  <2>2. (\A v \in Workers \ {w} : pc'[v] = pc[v]) /\ pc'[w] = "dec" /\ pc[w] = "awake"
    BY <1>5, <1>0 DEF Dec
  <2>3. job[w] # NoWork /\ job[w] \notin Queued
    BY <2>2 DEF Places
  <2>4. Queued' = Queued
    BY <2>1 DEF Queued
  <2>5. \A v \in Workers : /\ (job'[v] = NoWork) <=> (pc'[v] = "out")
                           /\ job'[v] \notin Queued'
                           /\ job'[v] \in finished' <=> pc'[v] \in {"dec", "tail"}
    BY <2>1, <2>2, <2>3, <2>4 DEF Places
  <2>6. \A k \in Works : k >= next' => k \notin Queued' \cup finished' /\ \A v \in Workers : job'[v] # k
    BY <2>1, <2>4 DEF Places
  <2> QED BY <2>1, <2>3, <2>4, <2>5, <2>6 DEF Places
<1>6. ASSUME NEW w \in Workers, Return(w) PROVE Places'
  <2>1. UNCHANGED <<phase, finished, next>>
    BY <1>6 DEF Return, sync
  <2>2. (\A v \in Workers \ {w} : job'[v] = job[v] /\ pc'[v] = pc[v]) /\ job'[w] = NoWork /\ pc'[w] = "out"
    BY <1>6, <1>0 DEF Return
  <2>3. /\ IsInjective(worklist') /\ IsInjective(inactive')
        /\ Range(worklist') \cap Range(inactive') = {}
        /\ Queued' = Queued /\ NoWork \notin Queued' /\ NoWork \notin finished
    <3>1. ASSUME NEW i \in Works, NEW more \in Seq(Works), NEW rest \in Seq(Works), Moved(i, more, rest)
          PROVE  /\ IsInjective(worklist') /\ IsInjective(inactive')
                 /\ Range(worklist') \cap Range(inactive') = {} /\ Queued' = Queued
      BY <3>1 DEF Moved, Removed, Added, Places, Queued
    <3>2. worklist' = worklist /\ inactive' = inactive =>
             /\ IsInjective(worklist') /\ IsInjective(inactive')
             /\ Range(worklist') \cap Range(inactive') = {} /\ Queued' = Queued
      BY DEF Places, Queued
    <3>3. Queued \subseteq Works /\ finished \subseteq Works
      <4>1. ASSUME NEW q \in Seq(Works) PROVE Range(q) \subseteq Works
        BY DEF Range
      <4> QED BY <4>1 DEF TypeOK, Queued
    <3> QED BY <1>6, <3>1, <3>2, <3>3, ReturnEffect, Items
  <2>4. \A v \in Workers : /\ (job'[v] = NoWork) <=> (pc'[v] = "out")
                           /\ job'[v] \notin Queued'
                           /\ job'[v] \in finished' <=> pc'[v] \in {"dec", "tail"}
    BY <2>1, <2>2, <2>3 DEF Places
  <2>5. \A u, v \in Workers : u # v /\ job'[u] # NoWork => job'[u] # job'[v]
    BY <2>2 DEF Places
  <2>6. \A k \in Works : k >= next' => k \notin Queued' \cup finished' /\ \A v \in Workers : job'[v] # k
    BY <2>1, <2>2, <2>3, Items DEF Places
  <2> QED BY <2>1, <2>3, <2>4, <2>5, <2>6 DEF Places
<1> QED BY <1>1, <1>2, <1>3, <1>4, <1>5, <1>6 DEF Next, Insmod, Execute, Unloaded

\* What the pool counts is finite.
LEMMA Finite ==
  ASSUME TypeOK
  PROVE  /\ IsFiniteSet(Busy) /\ Cardinality(Busy) \in Nat
         /\ IsFiniteSet(Range(worklist)) /\ Cardinality(Range(worklist)) \in Nat
<1>1. IsFiniteSet(Works)
  BY Items, FS_Interval DEF Works
<1>2. Range(worklist) \subseteq Works
  BY DEF Range, TypeOK
<1>3. Busy \subseteq Workers
  BY DEF Busy
<1> QED BY <1>1, <1>2, <1>3, WqProbeAssumption, FS_Subset, FS_CardinalityType

\* nr_active counts the items handed to the pool, never beyond max_active.
LEMMA NextActive == TypeOK /\ Places /\ Active /\ [Next]_vars => Active'
<1> SUFFICES ASSUME TypeOK, Places, Active, [Next]_vars PROVE Active'
  OBVIOUS
<1>0. /\ job \in [Workers -> Works \cup {NoWork}] /\ pc \in [Workers -> Locations]
      /\ next \in Int /\ nr_active \in Nat /\ MaxActive \in Nat \ {0}
  BY Items, MaxActiveRange DEF TypeOK
<1>1. mode' = mode /\ MaxActive' = MaxActive
  BY DEF Next, Insmod, Setup, QueueWork, BeginWait, WaitDone, WaitTimeout, Report, Exit,
         Unloaded, vars, StartWork, Execute, IncReturn, ReadMax, CmpXchg, Sleep, Wake, Dec,
         DecAndTest, Return, MaxActive
<1>2. /\ IsFiniteSet(Busy) /\ Cardinality(Busy) \in Nat
      /\ IsFiniteSet(Range(worklist)) /\ Cardinality(Range(worklist)) \in Nat
  BY Finite
<1>3. CASE Setup \/ BeginWait \/ WaitDone \/ WaitTimeout \/ Exit \/ UNCHANGED vars
  <2>1. UNCHANGED <<worklist, nr_active, pc, next>>
    BY <1>3 DEF Setup, BeginWait, WaitDone, WaitTimeout, Report, Exit, vars, pool, meter
  <2>2. Busy' = Busy
    BY <2>1 DEF Busy
  <2> QED BY <1>1, <2>1, <2>2 DEF Active
<1>4. CASE QueueWork
  <2>1. pc' = pc /\ next' = next + 1
    BY <1>4 DEF QueueWork, meter
  <2>2. Busy' = Busy
    BY <2>1 DEF Busy
  <2>3. next \notin Range(worklist)
    BY <1>4, <1>0, QueueWorkEffect DEF Places, Queued
  <2>4. PICK more \in Seq(Works) : Enqueued(more)
    BY <1>4, QueueWorkEffect
  <2>5. \/ /\ nr_active < MaxActive /\ Range(worklist') = Range(worklist) \cup {next}
           /\ nr_active' = nr_active + 1
        \/ worklist' = worklist /\ nr_active' = nr_active
    BY <2>4 DEF Enqueued, Added
  <2>6. Cardinality(Range(worklist) \cup {next}) = Cardinality(Range(worklist)) + 1
    BY <1>2, <2>3, FS_AddElement
  <2>7. nr_active' = Cardinality(Busy') + Cardinality(Range(worklist'))
    <3>1. nr_active = Cardinality(Busy) + Cardinality(Range(worklist))
      BY DEF Active
    <3>2. CASE worklist' = worklist /\ nr_active' = nr_active
      BY <3>1, <3>2, <2>2
    <3>3. CASE Range(worklist') = Range(worklist) \cup {next} /\ nr_active' = nr_active + 1
      BY <3>1, <3>3, <2>2, <2>6, <1>2
    <3> QED BY <2>5, <3>2, <3>3
  <2>8. nr_active' <= MaxActive' /\ nr_active' < next'
    BY <2>1, <2>5, <1>0, <1>1 DEF Active
  <2> QED BY <1>1, <2>1, <2>2, <2>7, <2>8 DEF Active
<1>5. ASSUME NEW w \in Workers, StartWork(w) PROVE Active'
  <2>1. /\ pc[w] = "out" /\ pc' = [pc EXCEPT ![w] = "start"] /\ nr_active' = nr_active
        /\ next' = next
    BY <1>5 DEF StartWork
  <2>2. Busy' = Busy \cup {w} /\ w \notin Busy
    BY <2>1, <1>0 DEF Busy
  <2>3. PICK i \in Works, rest \in Seq(Works) : Taken(w, i, rest)
    BY <1>5, StartWorkEffect
  <2>4. i \in Range(worklist) /\ Range(worklist') = Range(worklist) \ {i}
    BY <2>3 DEF Taken, Removed, Places
  <2>5. Cardinality(Busy') = Cardinality(Busy) + 1
    BY <2>2, <1>2, FS_AddElement
  <2>6. Cardinality(Range(worklist')) = Cardinality(Range(worklist)) - 1
    BY <2>4, <1>2, FS_RemoveElement
  <2>7. nr_active' = Cardinality(Busy') + Cardinality(Range(worklist'))
    BY <2>1, <2>5, <2>6, <1>2 DEF Active
  <2>8. mode = 1 => /\ \A v \in Workers : pc'[v] # "asleep"
                    /\ \A u, v \in Busy' : u = v
    <3> SUFFICES ASSUME mode = 1
                 PROVE  (\A v \in Workers : pc'[v] # "asleep") /\ (\A u, v \in Busy' : u = v)
      OBVIOUS
    <3>1. Running = {}
      BY <1>5 DEF StartWork
    <3>2. Busy = {}
      BY <3>1 DEF Running, Busy, Active
    <3> QED BY <3>2, <2>1, <2>2, <1>0 DEF Active
  <2> QED BY <1>1, <2>1, <2>7, <2>8 DEF Active
<1>6. ASSUME NEW w \in Workers,
             \/ IncReturn(w) \/ ReadMax(w) \/ CmpXchg(w) \/ Sleep(w) \/ Wake(w) \/ Dec(w)
             \/ DecAndTest(w)
      PROVE  Active'
  <2>1. UNCHANGED <<worklist, nr_active, next>>
    BY <1>6 DEF IncReturn, ReadMax, CmpXchg, Sleep, Wake, Dec, DecAndTest, pool
  <2>2. Busy' = Busy
    BY <1>6, <1>0 DEF IncReturn, ReadMax, CmpXchg, Sleep, Wake, Dec, DecAndTest, Busy
  <2>3. mode = 1 => \A v \in Workers : pc'[v] # "asleep"
    <3>1. Sleep(w) => mode # 1
      BY DEF Sleep, Sleeps
    <3>2. ~ Sleep(w) => \A v \in Workers : pc'[v] = "asleep" => pc[v] = "asleep"
      BY <1>6, <1>0 DEF IncReturn, ReadMax, CmpXchg, Wake, Dec, DecAndTest
    <3> QED BY <3>1, <3>2 DEF Active
  <2> QED BY <1>1, <2>1, <2>2, <2>3 DEF Active
<1>7. ASSUME NEW w \in Workers, Return(w) PROVE Active'
  <2>1. pc[w] = "tail" /\ pc' = [pc EXCEPT ![w] = "out"] /\ next' = next
    BY <1>7 DEF Return
  <2>2. Busy' = Busy \ {w} /\ w \in Busy
    BY <2>1, <1>0 DEF Busy
  <2>3. Cardinality(Busy') = Cardinality(Busy) - 1
    BY <2>2, <1>2, FS_RemoveElement
  <2>4. \/ nr_active' = nr_active /\ Cardinality(Range(worklist')) = Cardinality(Range(worklist)) + 1
        \/ nr_active' = nr_active - 1 /\ worklist' = worklist
    <3>1. ASSUME NEW i \in Works, NEW more \in Seq(Works), NEW rest \in Seq(Works), Moved(i, more, rest)
          PROVE  nr_active' = nr_active /\ Cardinality(Range(worklist')) = Cardinality(Range(worklist)) + 1
      <4>1. i \notin Range(worklist) /\ Range(worklist') = Range(worklist) \cup {i}
        BY <3>1 DEF Moved, Removed, Added, Places
      <4> QED BY <3>1, <4>1, <1>2, FS_AddElement DEF Moved
    <3> QED BY <1>7, <3>1, ReturnEffect
  <2>5. nr_active' = Cardinality(Busy') + Cardinality(Range(worklist'))
    BY <2>3, <2>4, <1>0, <1>2 DEF Active
  <2>6. nr_active' <= MaxActive' /\ nr_active' < next'
    BY <2>1, <2>4, <1>0, <1>1 DEF Active
  <2>7. mode = 1 => \A v \in Workers : pc'[v] # "asleep"
    BY <2>1, <1>0 DEF Active
  <2> QED BY <1>1, <2>2, <2>5, <2>6, <2>7 DEF Active
<1> QED BY <1>3, <1>4, <1>5, <1>6, <1>7 DEF Next, Insmod, Execute, Unloaded

\* So the number of workers inside the measured section obeys max_active.
LEMMA NextPeaked ==
  /\ TypeOK /\ MeterFacts /\ MeterFacts' /\ Places /\ Active /\ Peaked /\ [Next]_vars
  => Peaked'
<1> SUFFICES ASSUME TypeOK, MeterFacts, MeterFacts', Places, Active, Peaked, [Next]_vars
             PROVE  Peaked'
  OBVIOUS
<1>0. /\ pc \in [Workers -> Locations] /\ MaxActive \in Nat \ {0} /\ nr_active \in Nat
      /\ peak \in Nat /\ concur \in Nat
  BY MaxActiveRange DEF TypeOK
<1>1. mode' = mode /\ MaxActive' = MaxActive
  BY DEF Next, Insmod, Setup, QueueWork, BeginWait, WaitDone, WaitTimeout, Report, Exit,
         Unloaded, vars, StartWork, Execute, IncReturn, ReadMax, CmpXchg, Sleep, Wake, Dec,
         DecAndTest, Return, MaxActive
<1>2. ASSUME peak' = peak, finished' = finished \/ peak >= 1,
             \A w \in Workers : pc'[w] \notin {"out", "start"} => pc[w] \notin {"out", "start"}
      PROVE  Peaked'
  BY <1>1, <1>2 DEF Peaked
<1>3. CASE Insmod \/ WaitTimeout \/ Exit \/ UNCHANGED vars
  BY <1>2, <1>3 DEF Insmod, Setup, QueueWork, BeginWait, WaitDone, WaitTimeout, Report, Exit,
                    vars, meter, sync
<1>4. ASSUME NEW w \in Workers, StartWork(w) \/ Return(w) PROVE Peaked'
  <2>1. peak' = peak /\ finished' = finished
    BY <1>4 DEF StartWork, Return, sync
  <2>2. \A v \in Workers : pc'[v] \notin {"out", "start"} => pc[v] \notin {"out", "start"}
    BY <1>4, <1>0 DEF StartWork, Return
  <2> QED BY <1>2, <2>1, <2>2
<1>5. ASSUME NEW w \in Workers,
             ReadMax(w) \/ CmpXchg(w) \/ Sleep(w) \/ Wake(w) \/ Dec(w) \/ DecAndTest(w)
      PROVE  Peaked'
  <2>1. peak' = peak /\ peak >= 1
    BY <1>5 DEF ReadMax, CmpXchg, Sleep, Wake, Dec, DecAndTest, Peaked
  <2> QED BY <2>1, <1>1 DEF Peaked
<1>6. ASSUME NEW w \in Workers, IncReturn(w) PROVE Peaked'
  <2>1. /\ peak' = IF concur + 1 > peak THEN concur + 1 ELSE peak
        /\ concur' = concur + 1 /\ pc[w] = "start" /\ pc' = [pc EXCEPT ![w] = "read"]
    BY <1>6 DEF IncReturn
  <2>2. IsFiniteSet(Busy) /\ Cardinality(Busy) \in Nat /\ Cardinality(Range(worklist)) \in Nat
    BY Finite
  <2>3. Measured' \subseteq Busy
    BY <2>1, <1>0 DEF Measured, Busy
  <2>4. Cardinality(Measured') <= Cardinality(Busy) /\ Cardinality(Measured') \in Nat
    BY <2>2, <2>3, FS_Subset, FS_CardinalityType
  <2>5. concur' <= MaxActive
    BY <2>2, <2>4, <1>0 DEF Active, MeterFacts
  <2>6. mode = 1 => concur' <= 1
    <3> SUFFICES ASSUME mode = 1 PROVE concur' <= 1
      OBVIOUS
    <3>1. Busy \subseteq {w}
      BY <2>1 DEF Active, Busy
    <3>2. IsFiniteSet({w}) /\ Cardinality({w}) = 1
      BY FS_Singleton
    <3>3. Cardinality(Busy) <= 1
      BY <3>1, <3>2, FS_Subset
    <3> QED BY <3>3, <2>2, <2>4 DEF MeterFacts
  <2> QED BY <2>1, <2>5, <2>6, <1>0, <1>1 DEF Peaked
<1> QED BY <1>3, <1>4, <1>5, <1>6 DEF Next, Execute, Unloaded

\* What atomic_dec_and_test() does to the set of signalled items.
LEMMA SignalCount ==
  ASSUME TypeOK, Places
  PROVE  /\ IsFiniteSet(Signalled) /\ Cardinality(Signalled) \in Nat
         /\ Cardinality(Signalled) <= NWork
         /\ Cardinality(Signalled) = NWork => Signalled = Works
<1>1. IsFiniteSet(Works) /\ Cardinality(Works) = NWork
  BY Items, FS_Interval DEF Works
<1>2. Signalled \subseteq Works
  BY DEF Signalled, TypeOK
<1> QED BY <1>1, <1>2, FS_Subset, FS_CardinalityType

\* An item is signalled once: it leaves the set of those to come when its
\* worker has executed atomic_dec_and_test().
LEMMA SignalStep ==
  ASSUME TypeOK, Places, NEW w \in Workers, DecAndTest(w)
  PROVE  /\ job[w] \in Works
         /\ Cardinality(Signalled') = Cardinality(Signalled) + 1
         /\ Signalled' \subseteq Works
<1>0. job \in [Workers -> Works \cup {NoWork}] /\ pc \in [Workers -> Locations]
      /\ finished \subseteq Works
  BY DEF TypeOK
<1>1. UNCHANGED <<finished, job>> /\ pc[w] = "dec" /\ pc' = [pc EXCEPT ![w] = "tail"]
  BY DEF DecAndTest, pool
<1>2. job[w] \in finished /\ job[w] # NoWork /\ \A v \in Workers : v # w => job[v] # job[w]
  BY <1>1 DEF Places
<1>3. \A v \in Workers : pc'[v] = "dec" <=> pc[v] = "dec" /\ v # w
  BY <1>0, <1>1
<1>4. {job'[v] : v \in {u \in Workers : pc'[u] = "dec"}}
      = {job[v] : v \in {u \in Workers : pc[u] = "dec"}} \ {job[w]}
  BY <1>1, <1>2, <1>3
<1>5. job[w] \in {job[v] : v \in {u \in Workers : pc[u] = "dec"}}
  BY <1>1
<1>6. Signalled' = Signalled \cup {job[w]} /\ job[w] \notin Signalled
  BY <1>1, <1>2, <1>4, <1>5 DEF Signalled
<1>7. Cardinality(Signalled') = Cardinality(Signalled) + 1
  BY <1>6, SignalCount, FS_AddElement
<1> QED BY <1>0, <1>1, <1>2, <1>6, <1>7 DEF Signalled

\* remaining reaches zero, and complete() is called, when every item is over.
LEMMA NextOutstanding ==
  /\ TypeOK /\ TypeOK' /\ Places /\ Places' /\ Outstanding /\ [Next]_vars
  => Outstanding'
<1> SUFFICES ASSUME TypeOK, TypeOK', Places, Places', Outstanding, [Next]_vars
             PROVE  Outstanding'
  OBVIOUS
<1>0. /\ job \in [Workers -> Works \cup {NoWork}] /\ pc \in [Workers -> Locations]
      /\ next \in 1..(NWork + 1) /\ remaining \in Nat /\ finished \subseteq Works
  BY DEF TypeOK
<1>1. ASSUME UNCHANGED <<finished, job, remaining, all_done>>,
             \A v \in Workers : pc'[v] = "dec" <=> pc[v] = "dec",
             phase' = "queue" \/ next' > 1 => phase = "queue" \/ next > 1
      PROVE  Outstanding'
  <2>1. {v \in Workers : pc'[v] = "dec"} = {v \in Workers : pc[v] = "dec"}
    BY <1>1
  <2>2. Signalled' = Signalled
    BY <1>1, <2>1 DEF Signalled
  <2> QED BY <1>1, <2>2 DEF Outstanding
<1>2. CASE BeginWait \/ WaitDone \/ WaitTimeout \/ Exit \/ UNCHANGED vars
  BY <1>1, <1>2 DEF BeginWait, WaitDone, WaitTimeout, Report, Exit, vars, pool, meter, sync
<1>3. CASE QueueWork
  BY <1>1, <1>3 DEF QueueWork, meter, sync
<1>4. CASE Setup
  <2>1. UNCHANGED <<finished, job, pc, next, all_done>> /\ phase = "init"
    BY <1>4 DEF Setup, pool, meter
  <2>2. next = 1
    BY <2>1 DEF Places
  <2>3. finished = {}
    BY <2>2, <1>0 DEF Places, Works
  <2>4. Signalled' = {}
    BY <2>1, <2>3 DEF Signalled
  <2>5. phase' = "queue" => remaining' = NWork
    BY <1>4 DEF Setup
  <2>6. Cardinality(Signalled') = 0
    BY <2>4, FS_EmptySet
  <2> QED BY <2>1, <2>2, <2>5, <2>6, Items DEF Outstanding
<1>5. ASSUME NEW w \in Workers,
             \/ StartWork(w) \/ IncReturn(w) \/ ReadMax(w) \/ CmpXchg(w) \/ Sleep(w) \/ Wake(w)
             \/ Return(w)
      PROVE  Outstanding'
  <2>1. UNCHANGED <<finished, remaining, all_done, phase, next>>
    BY <1>5 DEF StartWork, IncReturn, ReadMax, CmpXchg, Sleep, Wake, Return, sync
  <2>2. \A v \in Workers : pc'[v] = "dec" <=> pc[v] = "dec"
    BY <1>5, <1>0 DEF StartWork, IncReturn, ReadMax, CmpXchg, Sleep, Wake, Return
  <2>3. \A v \in Workers : pc[v] = "dec" => job'[v] = job[v]
    BY <1>5, <1>0 DEF StartWork, IncReturn, ReadMax, CmpXchg, Sleep, Wake, Return, pool
  <2>4. {job'[v] : v \in {u \in Workers : pc'[u] = "dec"}}
        = {job[v] : v \in {u \in Workers : pc[u] = "dec"}}
    BY <2>2, <2>3
  <2>5. Signalled' = Signalled
    BY <2>1, <2>4 DEF Signalled
  <2> QED BY <2>1, <2>5 DEF Outstanding
<1>6. ASSUME NEW w \in Workers, Dec(w) PROVE Outstanding'
  <2>1. /\ UNCHANGED <<job, remaining, all_done, phase, next>> /\ finished' = finished \cup {job[w]}
        /\ pc[w] = "awake" /\ pc' = [pc EXCEPT ![w] = "dec"]
    BY <1>6 DEF Dec, pool
  <2>2. job[w] \notin finished
    BY <2>1 DEF Places
  <2>3. \A v \in Workers : pc'[v] = "dec" <=> pc[v] = "dec" \/ v = w
    BY <2>1, <1>0
  <2>4. {job'[v] : v \in {u \in Workers : pc'[u] = "dec"}}
        = {job[v] : v \in {u \in Workers : pc[u] = "dec"}} \cup {job[w]}
    BY <2>1, <2>3
  <2>5. Signalled' = Signalled
    BY <2>1, <2>2, <2>4 DEF Signalled
  <2>6. all_done => finished' = Works
    BY <2>1, <2>2, <1>0 DEF Outstanding, TypeOK
  <2> QED BY <2>1, <2>5, <2>6 DEF Outstanding
<1>7. ASSUME NEW w \in Workers, DecAndTest(w) PROVE Outstanding'
  <2>1. /\ UNCHANGED <<finished, phase, next>> /\ remaining' = remaining - 1
        /\ all_done' = (all_done \/ remaining = 1)
    BY <1>7 DEF DecAndTest
  <2>2. job[w] \in Works /\ Cardinality(Signalled') = Cardinality(Signalled) + 1
    BY <1>7, SignalStep
  <2>3. next > 1
    BY <2>2, <1>0 DEF Places, Works
  <2>4. remaining = NWork - Cardinality(Signalled) /\ Cardinality(Signalled) \in Nat
    BY <2>3, SignalCount DEF Outstanding
  <2>5. remaining' = NWork - Cardinality(Signalled')
    BY <2>1, <2>2, <2>4, Items
  <2>6. ASSUME remaining = 1 PROVE finished' = Works
    <3>1. Cardinality(Signalled') = NWork
      BY <2>2, <2>4, <2>6, Items
    <3>2. TypeOK' /\ Places' => (Cardinality(Signalled) = NWork => Signalled = Works)'
      BY SignalCount, PTL
    <3>3. Signalled' = Works
      BY <3>1, <3>2, Items
    <3> QED BY <3>3, <2>1, <1>0 DEF Signalled
  <2> QED BY <2>1, <2>5, <2>6 DEF Outstanding
<1> QED BY <1>2, <1>3, <1>4, <1>5, <1>6, <1>7 DEF Next, Insmod, Execute, Unloaded

\* Every step keeps the types.
LEMMA NextTypeOK ==
  /\ TypeOK /\ MeterFacts' /\ Places /\ Active /\ Active' /\ Outstanding /\ [Next]_vars
  => TypeOK'
<1> SUFFICES ASSUME TypeOK, MeterFacts', Places, Active, Active', Outstanding, [Next]_vars
             PROVE  TypeOK'
  OBVIOUS
<1> USE DEF Locations
<1>0. concur' \in Nat /\ maxconcur' \in Nat /\ peak' \in Nat
  BY DEF MeterFacts
<1>1. CASE UNCHANGED vars
  BY <1>1 DEF vars, pool, meter, sync, TypeOK
<1>2. CASE Setup
  <2>1. NWork \in Nat
    BY Items
  <2>2. remaining' \in Nat
    BY <1>2, <2>1 DEF Setup, TypeOK
  <2>3. my_wq' \in BOOLEAN
    <3>1. (mode \in {2, 3}) \in BOOLEAN
      OBVIOUS
    <3>2. my_wq' = (mode \in {2, 3}) \/ my_wq' = my_wq
      BY <1>2 DEF Setup
    <3>3. my_wq \in BOOLEAN
      BY DEF TypeOK
    <3> QED BY <3>1, <3>2, <3>3, Zenon
  <2> QED BY <1>0, <1>2, <2>2, <2>3 DEF Setup, pool, meter, TypeOK
<1>3. CASE BeginWait \/ WaitDone \/ WaitTimeout \/ Exit
  BY <1>0, <1>3 DEF BeginWait, WaitDone, WaitTimeout, Report, Exit, pool, meter, sync, TypeOK
<1>4. CASE QueueWork
  <2>1. next' \in 1..(NWork + 1)
    BY <1>4, Items DEF QueueWork, TypeOK
  <2>2. PICK more \in Seq(Works) : Enqueued(more)
    BY <1>4, QueueWorkEffect
  <2>3. worklist' \in Seq(Works) /\ inactive' \in Seq(Works)
    BY <2>2 DEF Enqueued, TypeOK
  <2>4. nr_active' \in Nat
    BY <2>2 DEF Enqueued, TypeOK
  <2>5. nr_active' \in 0..NWork
    BY <2>1, <2>4, Items DEF Active
  <2> QED BY <1>0, <1>4, <2>1, <2>3, <2>5 DEF QueueWork, meter, sync, TypeOK
<1>5. ASSUME NEW w \in Workers, StartWork(w) PROVE TypeOK'
  <2>1. PICK i \in Works, rest \in Seq(Works) : Taken(w, i, rest)
    BY <1>5, StartWorkEffect
  <2>2. worklist' \in Seq(Works)
    BY <2>1 DEF Taken
  <2>3. job' \in [Workers -> Works \cup {NoWork}]
    BY <2>1 DEF Taken, TypeOK
  <2>4. pc' \in [Workers -> Locations]
    BY <1>5 DEF StartWork, TypeOK
  <2> QED BY <1>0, <1>5, <2>2, <2>3, <2>4 DEF StartWork, sync, TypeOK
<1>6. ASSUME NEW w \in Workers, IncReturn(w) \/ ReadMax(w) PROVE TypeOK'
  BY <1>0, <1>6 DEF IncReturn, ReadMax, pool, sync, TypeOK
<1>7. ASSUME NEW w \in Workers, CmpXchg(w) \/ Sleep(w) \/ Wake(w) PROVE TypeOK'
  BY <1>0, <1>7 DEF CmpXchg, Sleep, Wake, pool, sync, TypeOK
<1>8. ASSUME NEW w \in Workers, Dec(w) PROVE TypeOK'
  <2>1. job[w] \in Works
    BY <1>8 DEF Dec, Places, TypeOK
  <2>2. finished' \subseteq Works
    BY <1>8, <2>1 DEF Dec, TypeOK
  <2>3. pc' \in [Workers -> Locations]
    BY <1>8 DEF Dec, TypeOK
  <2> QED BY <1>0, <1>8, <2>2, <2>3 DEF Dec, pool, TypeOK
<1>9. ASSUME NEW w \in Workers, DecAndTest(w) PROVE TypeOK'
  <2>1. /\ job[w] \in Works /\ Cardinality(Signalled') = Cardinality(Signalled) + 1
        /\ Signalled' \subseteq Works
    BY <1>9, SignalStep
  <2>2. next > 1
    BY <2>1 DEF Places, Works, TypeOK
  <2>3. remaining = NWork - Cardinality(Signalled) /\ Cardinality(Signalled) \in Nat
    BY <2>2, SignalCount DEF Outstanding
  <2>4. IsFiniteSet(Works) /\ Cardinality(Works) = NWork
    BY Items, FS_Interval DEF Works
  <2>5. Cardinality(Signalled') <= NWork
    BY <2>1, <2>4, FS_Subset
  <2>6. remaining' \in Nat
    BY <1>9, <2>1, <2>3, <2>5, Items DEF DecAndTest
  <2>7. pc' \in [Workers -> Locations]
    BY <1>9 DEF DecAndTest, TypeOK
  <2>8. all_done' \in BOOLEAN
    BY <1>9 DEF DecAndTest, TypeOK
  <2> QED BY <1>0, <1>9, <2>6, <2>7, <2>8 DEF DecAndTest, pool, TypeOK
<1>10. ASSUME NEW w \in Workers, Return(w) PROVE TypeOK'
  <2>1. worklist' \in Seq(Works) /\ inactive' \in Seq(Works) /\ (nr_active' = nr_active \/ nr_active' = nr_active - 1)
    BY <1>10, ReturnEffect DEF Moved, TypeOK
  <2>2. w \in Busy
    BY <1>10 DEF Return, Busy
  <2>3. nr_active >= 1
    <3>1. Cardinality(Busy) # 0
      BY <2>2, Finite, FS_EmptySet
    <3> QED BY <3>1, Finite DEF Active
  <2>4. nr_active' \in 0..NWork
    BY <2>1, <2>3, Items DEF TypeOK
  <2>5. job' \in [Workers -> Works \cup {NoWork}] /\ pc' \in [Workers -> Locations]
    BY <1>10 DEF Return, TypeOK
  <2> QED BY <1>0, <1>10, <2>1, <2>4, <2>5 DEF Return, sync, TypeOK
<1> QED BY <1>1, <1>2, <1>3, <1>4, <1>5, <1>6, <1>7, <1>8, <1>9, <1>10
        DEF Next, Insmod, Execute, Unloaded

\* A report after complete() comes when nobody is in the measured section, and
\* nobody enters it again.
LEMMA NextReported ==
  TypeOK /\ MeterFacts /\ Places /\ Outstanding /\ Reported /\ [Next]_vars => Reported'
<1> SUFFICES ASSUME TypeOK, MeterFacts, Places, Outstanding, Reported, [Next]_vars
             PROVE  Reported'
  OBVIOUS
<1>0. /\ job \in [Workers -> Works \cup {NoWork}] /\ finished \subseteq Works
  BY DEF TypeOK
<1>1. ASSUME finished = Works, NEW w \in Workers PROVE pc[w] \in {"out", "dec", "tail"}
  BY <1>1, <1>0 DEF Places
<1>2. ASSUME rep' = rep, peak' = peak, finished' = finished PROVE Reported'
  BY <1>2 DEF Reported
<1>3. CASE Setup \/ QueueWork \/ BeginWait \/ Exit \/ UNCHANGED vars
  BY <1>2, <1>3 DEF Setup, QueueWork, BeginWait, Exit, vars, meter, sync
<1>4. CASE WaitDone
  <2>1. finished = Works /\ finished' = finished /\ peak' = peak
    BY <1>4 DEF WaitDone, Report, sync, meter, Outstanding
  <2>2. maxconcur = peak
    BY <2>1, <1>1 DEF MeterFacts
  <2> QED BY <1>4, <2>1, <2>2 DEF WaitDone, Report, Reported
<1>5. CASE WaitTimeout
  <2>1. rep'.timeout = TRUE
    BY <1>5 DEF WaitTimeout, Report
  <2> QED BY <2>1 DEF Reported
<1>6. ASSUME NEW w \in Workers,
             \/ StartWork(w) \/ ReadMax(w) \/ CmpXchg(w) \/ Sleep(w) \/ Wake(w)
             \/ DecAndTest(w) \/ Return(w)
      PROVE  Reported'
  BY <1>2, <1>6 DEF StartWork, ReadMax, CmpXchg, Sleep, Wake, DecAndTest, Return, sync
<1>7. ASSUME NEW w \in Workers, IncReturn(w) \/ Dec(w) PROVE Reported'
  <2>1. finished # Works
    BY <1>1, <1>7 DEF IncReturn, Dec
  <2>2. rep' = rep
    BY <1>7 DEF IncReturn, Dec
  <2> QED BY <2>1, <2>2 DEF Reported
<1> QED BY <1>3, <1>4, <1>5, <1>6, <1>7 DEF Next, Insmod, Execute, Unloaded

\* flush_workqueue() left nothing behind, and nothing is queued after it.
LEMMA NextFlushed == TypeOK /\ PrivateQueueFlushed /\ [Next]_vars => PrivateQueueFlushed'
<1> SUFFICES ASSUME TypeOK, PrivateQueueFlushed, [Next]_vars, phase' = "unloaded", my_wq'
             PROVE  Quiet'
  BY DEF PrivateQueueFlushed
<1>1. CASE UNCHANGED vars
  BY <1>1 DEF vars, pool, meter, PrivateQueueFlushed, Quiet
<1>2. CASE Exit
  BY <1>2 DEF Exit, pool, meter, Quiet
<1>3. CASE Insmod \/ WaitTimeout
  BY <1>3 DEF Insmod, Setup, QueueWork, BeginWait, WaitDone, WaitTimeout, Report, TypeOK
<1>4. ASSUME NEW w \in Workers, StartWork(w) PROVE FALSE
  BY <1>4 DEF StartWork, PrivateQueueFlushed, Quiet
<1>5. ASSUME NEW w \in Workers, Execute(w) \/ Wake(w) PROVE FALSE
  <2>1. pc[w] # "out" /\ phase' = phase /\ my_wq' = my_wq
    BY <1>5 DEF Execute, IncReturn, ReadMax, CmpXchg, Sleep, Wake, Dec, DecAndTest, Return
  <2> QED BY <2>1 DEF PrivateQueueFlushed, Quiet
<1> QED BY <1>1, <1>2, <1>3, <1>4, <1>5 DEF Next, Unloaded

\* A freshly loaded module has no item anywhere.
LEMMA InitWqInv == Init => WqInv
<1> SUFFICES ASSUME Init PROVE WqInv
  OBVIOUS
<1>1. TypeOK
  <2>1. 1 \in 1..(NWork + 1) /\ 0 \in 0..NWork
    BY Items
  <2>2. worklist \in Seq(Works) /\ inactive \in Seq(Works)
    BY DEF Init
  <2>3. job \in [Workers -> Works \cup {NoWork}] /\ pc \in [Workers -> Locations]
    BY DEF Init, Locations
  <2>4. next \in 1..(NWork + 1) /\ nr_active \in 0..NWork
    BY <2>1 DEF Init
  <2> QED BY <2>2, <2>3, <2>4 DEF Init, TypeOK
<1>2. /\ Range(worklist) = {} /\ Range(inactive) = {} /\ Queued = {}
      /\ IsInjective(worklist) /\ IsInjective(inactive)
  BY EmptyQueue DEF Init, Queued
<1>3. Places
  BY <1>2, Items DEF Init, Places
<1>4. Busy = {}
  BY DEF Init, Busy
<1>5. mode \in Modes /\ MaxActive \in Nat \ {0}
  BY MaxActiveRange DEF Init
<1>6. Active
  <2>1. Cardinality(Busy) = 0 /\ Cardinality(Range(worklist)) = 0
    BY <1>2, <1>4, FS_EmptySet
  <2>2. nr_active = 0 /\ next = 1 /\ \A w \in Workers : pc[w] = "out"
    BY DEF Init
  <2> QED BY <1>4, <1>5, <2>1, <2>2 DEF Active
<1>7. Peaked
  BY <1>5 DEF Init, Peaked
<1>8. Outstanding /\ Reported /\ PrivateQueueFlushed
  BY DEF Init, Outstanding, Reported, PrivateQueueFlushed
<1> QED BY <1>1, <1>3, <1>6, <1>7, <1>8 DEF WqInv

\* The inductive invariant of wq_probe.c, for every number of items, every finite
\* set of kworkers and every mode.
THEOREM WqInvariant == Spec => []WqInv
<1>1. WqInv /\ MeterFacts /\ MeterFacts' /\ [Next]_vars => WqInv'
  <2> SUFFICES ASSUME WqInv, MeterFacts, MeterFacts', [Next]_vars PROVE WqInv'
    OBVIOUS
  <2>1. Places' /\ Active'
    BY NextPlaces, NextActive DEF WqInv
  <2>2. TypeOK'
    BY <2>1, NextTypeOK DEF WqInv
  <2>3. Peaked' /\ Reported' /\ PrivateQueueFlushed'
    BY NextPeaked, NextReported, NextFlushed DEF WqInv
  <2>4. Outstanding'
    BY <2>1, <2>2, NextOutstanding DEF WqInv
  <2> QED BY <2>1, <2>2, <2>3, <2>4 DEF WqInv
<1> QED BY <1>1, InitWqInv, MeterFactsInv, PTL DEF Spec

\* The types hold, a report after a completed wait describes every item and the
\* true peak (1 for burning items and the ordered queue, at most 2 with
\* max_active = 2), and rmmod has waited for the items of its own queue.
THEOREM WqItems == Spec => []ItemsInv
<1>1. WqInv => ItemsInv
  <2> SUFFICES ASSUME WqInv PROVE ItemsInv
    OBVIOUS
  <2>1. ASSUME rep # NoReport, ~rep.timeout
        PROVE  /\ rep.finished = Works /\ rep.max = peak
               /\ mode \in {1, 2} => rep.max = 1
               /\ mode = 3 => rep.max <= 2
    <3>1. finished = Works /\ rep.finished = Works /\ rep.max = peak
      BY <2>1 DEF WqInv, Reported
    <3>2. Works # {}
      BY Items DEF Works
    <3>3. peak >= 1 /\ peak \in Nat
      BY <3>1, <3>2 DEF WqInv, Peaked, TypeOK
    <3>4. (mode = 2 => peak <= 1) /\ (mode = 3 => peak <= 2) /\ (mode = 1 => peak <= 1)
      BY MaxActiveRange DEF WqInv, TypeOK, Peaked
    <3> QED BY <3>1, <3>3, <3>4
  <2> QED BY <2>1 DEF WqInv, ItemsInv, ReportExact
<1> QED BY <1>1, WqInvariant, PTL
=============================================================================
