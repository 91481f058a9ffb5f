-------------------------- MODULE SoftirqParProofs --------------------------
(***************************************************************************)
(* Proofs about softirq_par.c for every finite set of CPUs: the callbacks  *)
(* drive the concurrency meter as PeakMeter prescribes, one tasklet never  *)
(* runs on two CPUs, the report is sound and rmmod is safe.                *)
(***************************************************************************)
EXTENDS SoftirqPar, ProofLemmas, FiniteSetTheorems

MP == INSTANCE PeakMeterProofs WITH Threads <- CPUs, pc <- MeterPc

\* A line of the report reads one counter and changes nothing else.
LEMMA ReportStep ==
  Report =>
    /\ UNCHANGED <<mode, timely, killing, ipi>> /\ UNCHANGED queues /\ UNCHANGED meter
    /\ UNCHANGED stats
    /\ \/ /\ phase = "sleep" /\ SleepOver /\ phase' = "runs"
          /\ rep' = [rep EXCEPT !["calls"] = sched_calls]
       \/ /\ phase = "runs" /\ phase' = "max"
          /\ rep' = [rep EXCEPT !["runs"] = runs]
       \/ /\ phase = "max" /\ phase' = "verdict"
          /\ rep' = [rep EXCEPT !["max"] = maxcur]
       \/ /\ phase = "verdict" /\ phase' = "loaded"
          /\ rep' = [rep EXCEPT !["verdict"] = maxcur]
  BY DEF Report, PrintCalls, PrintRuns, PrintMax, PrintVerdict, Line

-----------------------------------------------------------------------------
(* The refinement of the concurrency meter.                                *)

\* What the step simulation needs to know of the state.
MeterTyped == pc \in [CPUs -> Locations] /\ cur \in Int /\ peak \in Int

\* The callbacks keep the meter's variables well typed.
LEMMA MeterTypedInv == Spec => []MeterTyped
<1>1. Init => MeterTyped
  BY DEF Init, MeterTyped, Locations
<1>2. MeterTyped /\ [Next]_vars => MeterTyped'
  <2> SUFFICES ASSUME MeterTyped, [Next]_vars PROVE MeterTyped'
    OBVIOUS
  <2> USE DEF MeterTyped, Locations
  <2>1. CASE Insmod \/ Rmmod \/ Kill \/ UNCHANGED vars
    BY <2>1, ReportStep DEF Insmod, Start, LateSched, Rmmod, Kill, KillSetSched, KillWaitRun,
                vars, meter
  <2>2. ASSUME NEW cpu \in CPUs, HandleIpi(cpu) \/ TakeList(cpu) PROVE MeterTyped'
    BY <2>2 DEF HandleIpi, TakeList, meter
  <2>3. ASSUME NEW cpu \in CPUs,
               TryLock(cpu) \/ ClearSched(cpu) \/ IncReturn(cpu) \/ ReadMax(cpu)
        PROVE  MeterTyped'
    BY <2>3 DEF TryLock, ClearSched, IncReturn, ReadMax
  <2>4. ASSUME NEW cpu \in CPUs, CmpXchg(cpu) \/ Dec(cpu) \/ Return(cpu) PROVE MeterTyped'
    BY <2>4 DEF CmpXchg, Dec, Return
  <2> QED BY <2>1, <2>2, <2>3, <2>4 DEF Next, Softirq, Unloaded
<1> QED BY <1>1, <1>2, PTL DEF Spec

\* Every step of the module is a step of the meter or leaves it alone: the
\* tasklet machinery around bump() is invisible to it.
LEMMA MeterStep == MeterTyped /\ [Next]_vars => [MP!Next]_MP!vars
<1> SUFFICES ASSUME MeterTyped, [Next]_vars PROVE [MP!Next]_MP!vars
  OBVIOUS
<1> USE DEF MeterTyped, Locations
<1>1. CASE Insmod \/ Rmmod \/ Kill \/ UNCHANGED vars
  BY <1>1, ReportStep DEF Insmod, Start, LateSched, Rmmod, Kill, KillSetSched, KillWaitRun,
              vars, meter, MeterPc, MP!vars
<1>2. ASSUME NEW cpu \in CPUs, HandleIpi(cpu) \/ TakeList(cpu) PROVE UNCHANGED MP!vars
  BY <1>2 DEF HandleIpi, TakeList, meter, MeterPc, MP!vars
<1>3. ASSUME NEW cpu \in CPUs, TryLock(cpu) \/ ClearSched(cpu) \/ Return(cpu)
      PROVE  UNCHANGED MP!vars
  BY <1>3 DEF TryLock, ClearSched, Return, MeterPc, MP!vars
<1>4. ASSUME NEW cpu \in CPUs, IncReturn(cpu) PROVE MP!IncReturn(cpu)
  <2>1. MeterPc[cpu] = "out" /\ MeterPc' = [MeterPc EXCEPT ![cpu] = "read"]
    BY <1>4 DEF IncReturn, MeterPc
  <2>2. peak' = MP!Larger(peak, cur + 1)
    BY <1>4 DEF IncReturn, MP!Larger
  <2> QED BY <1>4, <2>1, <2>2 DEF IncReturn, MP!IncReturn
<1>5. ASSUME NEW cpu \in CPUs, ReadMax(cpu) PROVE MP!ReadMax(cpu)
  BY <1>5 DEF ReadMax, MeterPc, MP!ReadMax
<1>6. ASSUME NEW cpu \in CPUs, CmpXchg(cpu) PROVE MP!CmpXchg(cpu)
  BY <1>6 DEF CmpXchg, MeterPc, MP!CmpXchg
<1>7. ASSUME NEW cpu \in CPUs, Dec(cpu) PROVE MP!Dec(cpu)
  BY <1>7 DEF Dec, MeterPc, MP!Dec
<1> QED BY <1>1, <1>2, <1>3, <1>4, <1>5, <1>6, <1>7 DEF Next, Softirq, Unloaded, MP!Next

\* PeakMeter's assumption holds of the CPUs.
LEMMA CpusFinite == MP!ThreadsFinite
  BY SoftirqParAssumption DEF MP!ThreadsFinite, MP!IsFiniteSet, IsFiniteSet

\* The module implements the meter, seen through the proof module's instance.
LEMMA MeterSpec == Spec => MP!Spec
<1>1. Init => MP!Init
  BY DEF Init, MP!Init, MeterPc
<1> QED BY <1>1, MeterStep, MeterTypedInv, PTL DEF Spec, MP!Spec

\* bump() of softirq_par.c, called from callbacks that other interrupts and
\* the insmod thread surround, implements the concurrency meter, for every
\* finite set of CPUs and every mode.
THEOREM SoftirqMeter == Spec => ImplementsMeter
<1>1. MP!Init => Meter!Init
  BY DEF MP!Init, Meter!Init
<1>2. [MP!Next]_MP!vars => [Meter!Next]_Meter!vars
  <2>1. MP!vars = Meter!vars /\ MP!vars' = Meter!vars'
    BY DEF MP!vars, Meter!vars
  <2>2. ASSUME NEW cpu \in CPUs
        PROVE  /\ MP!IncReturn(cpu) => Meter!IncReturn(cpu)
               /\ MP!ReadMax(cpu) => Meter!ReadMax(cpu)
               /\ MP!CmpXchg(cpu) => Meter!CmpXchg(cpu)
               /\ MP!Dec(cpu) => Meter!Dec(cpu)
    BY DEF MP!IncReturn, Meter!IncReturn, MP!ReadMax, Meter!ReadMax, MP!CmpXchg,
           Meter!CmpXchg, MP!Dec, Meter!Dec, MP!Larger, Meter!Larger
  <2> QED BY <2>1, <2>2 DEF MP!Next, Meter!Next
<1> QED BY <1>1, <1>2, MeterSpec, PTL DEF MP!Spec, Meter!Spec, ImplementsMeter

-----------------------------------------------------------------------------
(* The inductive invariant.                                                *)

\* What the meter's invariant says in the module's own terms.
Measured == {i \in CPUs : pc[i] \in {"read", "cas", "in"}}
MeterFacts ==
  /\ cur \in Nat /\ maxcur \in Nat /\ peak \in Nat
  /\ c \in [CPUs -> Nat] /\ m \in [CPUs -> Nat]
  /\ maxcur <= peak
  /\ cur = Cardinality(Measured)
  /\ \A i \in CPUs : pc[i] = "cas" => m[i] < c[i]

\* The meter's invariant, carried over along the refinement.
LEMMA MeterFactsInv == Spec => []MeterFacts
<1>1. MP!IInv => MeterFacts
  <2> SUFFICES ASSUME MP!IInv PROVE MeterFacts
    OBVIOUS
  <2>1. MP!Inside = Measured
    BY DEF MP!Inside, Measured, MeterPc
  <2>2. MP!Cardinality(Measured) = Cardinality(Measured)
    BY Zenon DEF MP!Cardinality, Cardinality
  <2>3. cur = Cardinality(Measured)
    BY <2>1, <2>2 DEF MP!IInv, MP!CurCountsInside
  <2>4. \A i \in CPUs : pc[i] = "cas" => m[i] < c[i]
    BY DEF MP!IInv, MP!Owed, MeterPc
  <2> QED BY <2>3, <2>4 DEF MP!IInv, MP!TypeOK, MP!Owed, MeterFacts
<1> QED BY <1>1, MeterSpec, CpusFinite, MP!MeterInvariant, PTL

\* The CPUs are naturals, so that tl_one and "no tasklet" are none of them.
LEMMA Names ==
  /\ CPUs \subseteq Nat /\ 0 \in CPUs
  /\ TlOne \notin CPUs /\ NoTl \notin Tl
  /\ TlOne \in Tl /\ CPUs \subseteq Tl
  BY SoftirqParAssumption DEF TlOne, NoTl, Tl

\* softirq_par_exit() handles the tasklets in the order of their CPUs, tl_one
\* last, and leaves none out.
LEMMA NextKillInOrder ==
  ASSUME NEW t \in Tl
  PROVE  /\ t = TlOne => NextKill(t) = NoTl
         /\ t \in CPUs => /\ NextKill(t) \in Tl
                          /\ NextKill(t) = TlOne => \A u \in CPUs : u <= t
                          /\ NextKill(t) # TlOne => \A u \in CPUs : u < NextKill(t) => u <= t
<1>1. CASE t = TlOne
  BY <1>1, Names DEF NextKill
<1>2. CASE t \in CPUs
  <2> DEFINE later == {u \in CPUs : u > t}
  <2>1. t # TlOne /\ t \in Nat /\ \A u \in CPUs : u \in Nat
    BY <1>2, Names
  <2>2. CASE later = {}
    <3>1. NextKill(t) = TlOne
      BY <2>1, <2>2 DEF NextKill
    <3>2. \A u \in CPUs : u <= t
      BY <2>1, <2>2
    <3> QED BY <3>1, <3>2, <2>1, Names
  <2>3. CASE later # {}
    <3>1. NextKill(t) = CHOOSE u \in later : \A v \in later : u <= v
      BY <2>1, <2>3 DEF NextKill
    <3>2. later \in SUBSET Nat
      BY <2>1
    <3>3. \E u \in later : \A v \in later : u <= v
      BY <2>3, <3>2, SmallestElement, Zenon
    <3>4. NextKill(t) \in later /\ \A v \in later : NextKill(t) <= v
      BY <3>1, <3>3, Zenon
    <3>5. NextKill(t) \in CPUs /\ NextKill(t) \in Nat
      BY <3>4, Names
    <3>6. ASSUME NEW u \in CPUs, u < NextKill(t) PROVE u <= t
      <4>1. u \notin later
        BY <3>4, <3>5, <3>6, <2>1
      <4> QED BY <4>1, <2>1
    <3> QED BY <3>5, <3>6, <2>1, Names
  <2> QED BY <2>2, <2>3
<1> QED BY <1>1, <1>2 DEF Tl

\* What the IPI handler does to the queues, in terms of what they hold: more is
\* the vector with t added to it.
Scheduled(cpu, t, more) ==
  /\ t = TargetOf(cpu)
  /\ Range(more) = Range(vec[cpu]) \cup {t}
  /\ IsInjective(vec[cpu]) /\ t \notin Range(vec[cpu]) => IsInjective(more)
  /\ vec' = IF t \in sched THEN vec ELSE [vec EXCEPT ![cpu] = more]
  /\ sched' = sched \cup {t}
  /\ owed' = [owed EXCEPT ![t] = @ + 1]

\* tasklet_schedule() is such a step.
LEMMA HandleIpiEffect ==
  ASSUME TypeOK, NEW cpu \in CPUs, HandleIpi(cpu)
  PROVE  \E t \in Tl, more \in Seq(Tl) : Scheduled(cpu, t, more)
<1>1. TargetOf(cpu) \in Tl
  BY Names DEF TargetOf
<1>2. vec[cpu] \in Seq(Tl)
  BY DEF TypeOK
<1> DEFINE more == Append(vec[cpu], TargetOf(cpu))
<1>3. /\ more \in Seq(Tl)
      /\ Range(more) = Range(vec[cpu]) \cup {TargetOf(cpu)}
      /\ IsInjective(vec[cpu]) /\ TargetOf(cpu) \notin Range(vec[cpu]) => IsInjective(more)
  BY <1>1, <1>2, AppendQueue
<1>4. /\ vec' = IF TargetOf(cpu) \in sched THEN vec ELSE [vec EXCEPT ![cpu] = more]
      /\ sched' = sched \cup {TargetOf(cpu)}
      /\ owed' = [owed EXCEPT ![TargetOf(cpu)] = @ + 1]
  BY DEF HandleIpi, TaskletSchedule
<1> HIDE DEF more
<1> QED BY <1>1, <1>3, <1>4 DEF Scheduled

\* What tasklet_trylock() and its failure do to the queues, likewise: t is the
\* first of the list, rest the others, again the vector with t put back.
TriedLock(cpu, t, rest, again) ==
  /\ Range(list[cpu]) = Range(rest) \cup {t}
  /\ IsInjective(list[cpu]) => IsInjective(rest) /\ t \notin Range(rest)
  /\ Range(again) = Range(vec[cpu]) \cup {t}
  /\ IsInjective(vec[cpu]) /\ t \notin Range(vec[cpu]) => IsInjective(again)
  /\ list' = [list EXCEPT ![cpu] = rest]
  /\ \/ /\ t \notin run
        /\ run' = run \cup {t}
        /\ tl' = [tl EXCEPT ![cpu] = t]
        /\ pc' = [pc EXCEPT ![cpu] = "locked"]
        /\ vec' = vec
     \/ /\ t \in run
        /\ vec' = [vec EXCEPT ![cpu] = again]
        /\ run' = run /\ tl' = tl /\ pc' = pc

\* tasklet_action_common() takes such a step for each tasklet of its list.
LEMMA TryLockEffect ==
  ASSUME TypeOK, NEW cpu \in CPUs, TryLock(cpu)
  PROVE  \E t \in Tl, rest, again \in Seq(Tl) : TriedLock(cpu, t, rest, again)
<1>1. vec[cpu] \in Seq(Tl) /\ list[cpu] \in Seq(Tl) /\ list[cpu] # <<>>
  BY DEF TypeOK, TryLock
<1> DEFINE t == Head(list[cpu])
           rest == Tail(list[cpu])
           again == Append(vec[cpu], t)
<1>2. /\ t \in Tl /\ rest \in Seq(Tl)
      /\ Range(list[cpu]) = Range(rest) \cup {t}
      /\ IsInjective(list[cpu]) => IsInjective(rest) /\ t \notin Range(rest)
  BY <1>1, TailQueue, Zenon
<1>3. /\ again \in Seq(Tl)
      /\ Range(again) = Range(vec[cpu]) \cup {t}
      /\ IsInjective(vec[cpu]) /\ t \notin Range(vec[cpu]) => IsInjective(again)
  BY <1>1, <1>2, AppendQueue
<1>4. /\ list' = [list EXCEPT ![cpu] = rest]
      /\ \/ /\ t \notin run
            /\ run' = run \cup {t}
            /\ tl' = [tl EXCEPT ![cpu] = t]
            /\ pc' = [pc EXCEPT ![cpu] = "locked"]
            /\ vec' = vec
         \/ /\ t \in run
            /\ vec' = [vec EXCEPT ![cpu] = again]
            /\ run' = run /\ tl' = tl /\ pc' = pc
  BY DEF TryLock
<1> HIDE DEF t, rest, again
<1> QED BY <1>2, <1>3, <1>4 DEF TriedLock

\* Types of the queues after an interrupt or an attempt to lock.
LEMMA QueueTypes ==
  ASSUME TypeOK, NEW cpu \in CPUs
  PROVE  /\ HandleIpi(cpu) => /\ vec' \in [CPUs -> Seq(Tl)] /\ owed' \in [Tl -> Nat]
                              /\ sched' \subseteq Tl
         /\ TryLock(cpu) => /\ vec' \in [CPUs -> Seq(Tl)] /\ list' \in [CPUs -> Seq(Tl)]
                            /\ run' \subseteq Tl /\ tl' \in [CPUs -> Tl \cup {NoTl}]
                            /\ pc' \in [CPUs -> Locations]
<1>1. /\ vec \in [CPUs -> Seq(Tl)] /\ list \in [CPUs -> Seq(Tl)]
      /\ owed \in [Tl -> Nat] /\ tl \in [CPUs -> Tl \cup {NoTl}]
      /\ pc \in [CPUs -> Locations] /\ sched \subseteq Tl /\ run \subseteq Tl
  BY DEF TypeOK
<1>2. ASSUME HandleIpi(cpu)
      PROVE  /\ vec' \in [CPUs -> Seq(Tl)] /\ owed' \in [Tl -> Nat] /\ sched' \subseteq Tl
  <2>1. PICK t \in Tl, more \in Seq(Tl) : Scheduled(cpu, t, more)
    BY <1>2, HandleIpiEffect
  <2>2. vec' \in [CPUs -> Seq(Tl)]
    BY <2>1, <1>1 DEF Scheduled
  <2>3. owed' \in [Tl -> Nat]
    BY <2>1, <1>1 DEF Scheduled
  <2>4. sched' \subseteq Tl
    BY <2>1, <1>1 DEF Scheduled
  <2> QED BY <2>2, <2>3, <2>4
<1>3. ASSUME TryLock(cpu)
      PROVE  /\ vec' \in [CPUs -> Seq(Tl)] /\ list' \in [CPUs -> Seq(Tl)]
             /\ run' \subseteq Tl /\ tl' \in [CPUs -> Tl \cup {NoTl}]
             /\ pc' \in [CPUs -> Locations]
  <2>1. PICK t \in Tl, rest, again \in Seq(Tl) : TriedLock(cpu, t, rest, again)
    BY <1>3, TryLockEffect
  <2>2. vec' \in [CPUs -> Seq(Tl)] /\ list' \in [CPUs -> Seq(Tl)]
    BY <2>1, <1>1 DEF TriedLock
  <2>3. run' \subseteq Tl
    BY <2>1, <1>1 DEF TriedLock
  <2>4. tl' \in [CPUs -> Tl \cup {NoTl}] /\ pc' \in [CPUs -> Locations]
    BY <2>1, <1>1 DEF TriedLock, Locations
  <2> QED BY <2>2, <2>3, <2>4
<1> QED BY <1>2, <1>3

\* A printed field is a counter's value.
LEMMA ReportTyped ==
  ASSUME TypeOK, Report
  PROVE  rep' \in [Fields -> Nat \cup {Unread}]
<1>1. rep \in [Fields -> Nat \cup {Unread}]
  BY DEF TypeOK
<1>2. \E f \in Fields, n \in Nat : rep' = [rep EXCEPT ![f] = n]
  BY ReportStep DEF TypeOK, Fields
<1>3. PICK f \in Fields, n \in Nat : rep' = [rep EXCEPT ![f] = n]
  BY <1>2
<1> QED BY <1>1, <1>3

\* Every step keeps the types.
LEMMA NextTypeOK ==
  TypeOK /\ KillOrder /\ MeterFacts' /\ [Next]_vars => TypeOK'
<1> SUFFICES ASSUME TypeOK, KillOrder, MeterFacts', [Next]_vars PROVE TypeOK'
  OBVIOUS
<1> USE Names DEF TypeOK, Locations, Phases, AfterSleep, Fields, Unread, MeterFacts
<1>1. CASE UNCHANGED vars
  BY <1>1 DEF vars, queues, meter, stats
<1>2. CASE Start \/ LateSched \/ Rmmod
  BY <1>2 DEF Start, LateSched, Rmmod, queues, meter, stats
<1>3. CASE Report
  <2>1. phase' \in Phases
    BY <1>3, ReportStep
  <2>2. rep' \in [Fields -> Nat \cup {Unread}]
    BY <1>3, ReportTyped
  <2> QED BY <1>3, <2>1, <2>2, ReportStep DEF queues, meter, stats
<1>4. CASE KillSetSched
  BY <1>4 DEF KillSetSched, KillOrder, meter, stats
<1>5. CASE KillWaitRun
  <2>1. killing \in Tl /\ NextKill(killing) \in Tl \cup {NoTl}
    BY <1>5, NextKillInOrder DEF KillWaitRun, KillOrder, Tl
  <2>2. killing' \in Tl \cup {NoTl} /\ sched' \subseteq Tl /\ phase' \in Phases
    BY <1>5, <2>1 DEF KillWaitRun
  <2> QED BY <1>5, <2>2 DEF KillWaitRun, meter, stats
<1>6. ASSUME NEW cpu \in CPUs, HandleIpi(cpu) PROVE TypeOK'
  <2>1. vec' \in [CPUs -> Seq(Tl)] /\ owed' \in [Tl -> Nat] /\ sched' \subseteq Tl
    BY <1>6, QueueTypes
  <2>2. sched_calls' \in Nat /\ ipi' \subseteq CPUs
    BY <1>6 DEF HandleIpi
  <2> QED BY <1>6, <2>1, <2>2 DEF HandleIpi, meter
<1>7. ASSUME NEW cpu \in CPUs, TakeList(cpu) PROVE TypeOK'
  BY <1>7 DEF TakeList, meter, stats
<1>8. ASSUME NEW cpu \in CPUs, TryLock(cpu) PROVE TypeOK'
  <2>1. /\ vec' \in [CPUs -> Seq(Tl)] /\ list' \in [CPUs -> Seq(Tl)]
        /\ run' \subseteq Tl /\ tl' \in [CPUs -> Tl \cup {NoTl}]
        /\ pc' \in [CPUs -> Locations]
    BY <1>8, QueueTypes
  <2> QED BY <1>8, <2>1 DEF TryLock, stats
<1>9. ASSUME NEW cpu \in CPUs, ClearSched(cpu) PROVE TypeOK'
  BY <1>9 DEF ClearSched
<1>10. ASSUME NEW cpu \in CPUs, IncReturn(cpu) \/ ReadMax(cpu) PROVE TypeOK'
  <2>1. pc' \in [CPUs -> Locations]
    BY <1>10 DEF IncReturn, ReadMax
  <2>2. UNCHANGED <<mode, timely, phase, killing, ipi, queues, runs, sched_calls, owed, rep>>
    BY <1>10 DEF IncReturn, ReadMax, stats
  <2>3. cpu_seen' = cpu_seen \/ cpu_seen' = cpu_seen \cup {cpu}
    BY <1>10 DEF IncReturn, ReadMax, stats
  <2>4. cpu_seen' \subseteq CPUs
    BY <2>3
  <2> QED BY <2>1, <2>2, <2>4 DEF queues
<1>11. ASSUME NEW cpu \in CPUs, CmpXchg(cpu) \/ Dec(cpu) PROVE TypeOK'
  <2>1. pc' \in [CPUs -> Locations]
    BY <1>11 DEF CmpXchg, Dec
  <2>2. UNCHANGED <<mode, timely, phase, killing, ipi, queues, stats, rep>>
    BY <1>11 DEF CmpXchg, Dec
  <2> QED BY <2>1, <2>2 DEF queues, stats
<1>12. ASSUME NEW cpu \in CPUs, Return(cpu) PROVE TypeOK'
  <2>1. tl' \in [CPUs -> Tl \cup {NoTl}] /\ pc' \in [CPUs -> Locations]
    BY <1>12 DEF Return
  <2>2. run' \subseteq Tl
    BY <1>12 DEF Return
  <2>3. runs' \in Nat
    BY <1>12 DEF Return
  <2> QED BY <1>12, <2>1, <2>2, <2>3 DEF Return
<1> QED BY <1>1, <1>2, <1>3, <1>4, <1>5, <1>6, <1>7, <1>8, <1>9, <1>10, <1>11, <1>12
        DEF Next, Insmod, Softirq, Kill, Unloaded

\* tasklet_trylock() and tasklet_unlock() keep the RUN bit with the one CPU
\* that executes the tasklet.
LEMMA NextRunHeld == TypeOK /\ RunHeld /\ [Next]_vars => RunHeld'
<1> SUFFICES ASSUME TypeOK, RunHeld, [Next]_vars PROVE RunHeld'
  OBVIOUS
<1> USE Names DEF TypeOK, RunHeld, Locations
<1>1. CASE Insmod \/ Rmmod \/ Kill \/ UNCHANGED vars
  BY <1>1, ReportStep DEF Insmod, Start, LateSched, Rmmod, Kill, KillSetSched, KillWaitRun,
              vars, queues, meter
<1>2. ASSUME NEW cpu \in CPUs, HandleIpi(cpu) \/ TakeList(cpu) PROVE RunHeld'
  BY <1>2 DEF HandleIpi, TakeList, meter
<1>3. ASSUME NEW cpu \in CPUs, TryLock(cpu) PROVE RunHeld'
  <2>1. PICK t \in Tl, rest, again \in Seq(Tl) : TriedLock(cpu, t, rest, again)
    BY <1>3, TryLockEffect
  <2>2. CASE t \in run
    BY <2>1, <2>2 DEF TriedLock
  <2>3. CASE t \notin run
    <3>1. /\ run' = run \cup {t} /\ tl' = [tl EXCEPT ![cpu] = t]
          /\ pc' = [pc EXCEPT ![cpu] = "locked"]
      BY <2>1, <2>3 DEF TriedLock
    <3>2. t # NoTl
      BY <2>1 DEF TriedLock
    <3>3. \A j \in CPUs : tl[j] # t
      BY <3>2, <2>3
    <3>4. /\ \A j \in CPUs \ {cpu} : tl'[j] = tl[j] /\ pc'[j] = pc[j]
          /\ tl'[cpu] = t /\ pc'[cpu] = "locked"
      BY <3>1
    <3> QED BY <3>1, <3>2, <3>3, <3>4
  <2> QED BY <2>2, <2>3
<1>4. ASSUME NEW cpu \in CPUs, ClearSched(cpu) PROVE RunHeld'
  BY <1>4 DEF ClearSched
<1>5. ASSUME NEW cpu \in CPUs, IncReturn(cpu) \/ ReadMax(cpu) PROVE RunHeld'
  BY <1>5 DEF IncReturn, ReadMax, queues
<1>6. ASSUME NEW cpu \in CPUs, CmpXchg(cpu) \/ Dec(cpu) PROVE RunHeld'
  BY <1>6 DEF CmpXchg, Dec, queues
<1>7. ASSUME NEW cpu \in CPUs, Return(cpu) PROVE RunHeld'
  BY <1>7 DEF Return
<1> QED BY <1>1, <1>2, <1>3, <1>4, <1>5, <1>6, <1>7 DEF Next, Softirq, Unloaded

\* Tasklets are queued once, SCHED protects them until ClearSched, and the bit
\* tasklet_kill() sets is not that of a queued tasklet.
LEMMA NextQueues == TypeOK /\ RunHeld /\ Queues /\ [Next]_vars => Queues'
<1> SUFFICES ASSUME TypeOK, RunHeld, Queues, [Next]_vars PROVE Queues'
  OBVIOUS
<1>0. /\ vec \in [CPUs -> Seq(Tl)] /\ list \in [CPUs -> Seq(Tl)]
      /\ tl \in [CPUs -> Tl \cup {NoTl}] /\ pc \in [CPUs -> Locations]
  BY DEF TypeOK
<1>1. CASE UNCHANGED vars
  BY <1>1 DEF vars, queues, meter, Queues, Holding
<1>2. CASE Start \/ LateSched \/ Report \/ Rmmod
  BY <1>2, ReportStep DEF Start, LateSched, Rmmod, queues, meter, Queues, Holding
<1>3. CASE KillSetSched
  BY <1>3 DEF KillSetSched, meter, Queues, Holding
<1>4. CASE KillWaitRun
  BY <1>4 DEF KillWaitRun, meter, Queues, Holding
<1>5. ASSUME NEW cpu \in CPUs, HandleIpi(cpu) PROVE Queues'
  <2>1. UNCHANGED <<phase, killing, list, tl, pc>>
    BY <1>5 DEF HandleIpi, meter
  <2>2. PICK t \in Tl, more \in Seq(Tl) : Scheduled(cpu, t, more)
    BY <1>5, HandleIpiEffect
  <2>3. CASE t \in sched
    <3>1. vec' = vec /\ sched' = sched
      BY <2>2, <2>3 DEF Scheduled
    <3> QED BY <2>1, <3>1 DEF Queues, Holding
  <2>4. CASE t \notin sched
    <3>1. \A i \in CPUs : t \notin Range(vec[i]) /\ t \notin Range(list[i])
      BY <2>4 DEF Queues, Holding
    <3>2. /\ \A i \in CPUs \ {cpu} : vec'[i] = vec[i]
          /\ Range(vec'[cpu]) = Range(vec[cpu]) \cup {t}
          /\ IsInjective(vec'[cpu])
      BY <2>2, <2>4, <3>1, <1>0 DEF Scheduled, Queues
    <3>3. \A i \in CPUs : /\ IsInjective(vec'[i]) /\ IsInjective(list'[i])
                          /\ Range(vec'[i]) \cap Range(list'[i]) = {}
                          /\ Holding(i)' \subseteq sched'
      BY <2>1, <2>2, <3>1, <3>2 DEF Scheduled, Queues, Holding
    <3>4. \A i \in CPUs : Holding(i)' \subseteq Holding(i) \cup {t} /\ (i # cpu => Holding(i)' = Holding(i))
      BY <2>1, <3>2 DEF Holding
    <3>5. \A i, j \in CPUs : i # j => Holding(i)' \cap Holding(j)' = {}
      <4>1. \A i \in CPUs : t \notin Holding(i)
        BY <3>1 DEF Holding
      <4>2. \A i, j \in CPUs : i # j => Holding(i) \cap Holding(j) = {}
        BY DEF Queues
      <4> QED BY <3>4, <4>1, <4>2
    <3>6. \A i \in CPUs : pc'[i] = "locked" =>
             tl'[i] \in sched' /\ \A j \in CPUs : tl'[i] \notin Holding(j)'
      BY <2>1, <2>2, <2>4, <3>4 DEF Scheduled, Queues
    <3>7. phase' = "wait" =>
             /\ killing' \in sched'
             /\ \A i \in CPUs : killing' \notin Holding(i)' /\ (pc'[i] = "locked" => tl'[i] # killing')
      BY <2>1, <2>2, <2>4, <3>4 DEF Scheduled, Queues
    <3> QED BY <3>3, <3>5, <3>6, <3>7 DEF Queues
  <2> QED BY <2>3, <2>4
<1>6. ASSUME NEW cpu \in CPUs, TakeList(cpu) PROVE Queues'
  <2>1. UNCHANGED <<phase, killing, sched, tl, pc>>
    BY <1>6 DEF TakeList, meter
  <2>2. /\ \A i \in CPUs \ {cpu} : vec'[i] = vec[i] /\ list'[i] = list[i]
        /\ vec'[cpu] = <<>> /\ list'[cpu] = vec[cpu] /\ list[cpu] = <<>>
    BY <1>6, <1>0 DEF TakeList
  <2>3. \A i \in CPUs : Holding(i)' = Holding(i)
    BY <2>2, EmptyQueue DEF Holding
  <2>4. \A i \in CPUs : /\ IsInjective(vec'[i]) /\ IsInjective(list'[i])
                        /\ Range(vec'[i]) \cap Range(list'[i]) = {}
    BY <2>2, EmptyQueue DEF Queues
  <2> QED BY <2>1, <2>3, <2>4 DEF Queues
<1>7. ASSUME NEW cpu \in CPUs, TryLock(cpu) PROVE Queues'
  <2>1. UNCHANGED <<phase, killing, sched>>
    BY <1>7 DEF TryLock
  <2>2. PICK t \in Tl, rest, again \in Seq(Tl) : TriedLock(cpu, t, rest, again)
    BY <1>7, TryLockEffect
  <2>3. /\ \A i \in CPUs \ {cpu} : list'[i] = list[i]
        /\ list'[cpu] = rest
    BY <2>2, <1>0 DEF TriedLock
  <2>4. /\ t \in Holding(cpu) /\ t \in sched /\ t \notin Range(vec[cpu])
        /\ \A i \in CPUs \ {cpu} : t \notin Holding(i)
    BY <2>2 DEF TriedLock, Queues, Holding
  <2>5. CASE /\ tl' = [tl EXCEPT ![cpu] = t]
             /\ pc' = [pc EXCEPT ![cpu] = "locked"]
             /\ vec' = vec
    <3>1. /\ \A i \in CPUs \ {cpu} : tl'[i] = tl[i] /\ pc'[i] = pc[i]
          /\ tl'[cpu] = t
      BY <2>5, <1>0
    <3>2. /\ \A i \in CPUs \ {cpu} : Holding(i)' = Holding(i)
          /\ Holding(cpu)' = Holding(cpu) \ {t}
      BY <2>2, <2>3, <2>4, <2>5 DEF TriedLock, Holding, Queues
    <3>3. \A i \in CPUs : /\ IsInjective(vec'[i]) /\ IsInjective(list'[i])
                          /\ Range(vec'[i]) \cap Range(list'[i]) = {}
      BY <2>2, <2>3, <2>5 DEF TriedLock, Queues
    <3>4. \A i, j \in CPUs : i # j => Holding(i)' \cap Holding(j)' = {}
      BY <3>2 DEF Queues
    <3>5. \A i \in CPUs : pc'[i] = "locked" =>
             tl'[i] \in sched' /\ \A j \in CPUs : tl'[i] \notin Holding(j)'
      BY <2>1, <2>4, <3>1, <3>2 DEF Queues
    <3>6. phase' = "wait" =>
             /\ killing' \in sched'
             /\ \A i \in CPUs : killing' \notin Holding(i)' /\ (pc'[i] = "locked" => tl'[i] # killing')
      BY <2>1, <2>4, <3>1, <3>2 DEF Queues
    <3> QED BY <2>1, <3>2, <3>3, <3>4, <3>5, <3>6 DEF Queues
  <2>6. CASE vec' = [vec EXCEPT ![cpu] = again] /\ tl' = tl /\ pc' = pc
    <3>1. (\A i \in CPUs \ {cpu} : vec'[i] = vec[i]) /\ vec'[cpu] = again
      BY <2>6, <1>0
    <3>2. \A i \in CPUs : Holding(i)' = Holding(i)
      BY <2>2, <2>3, <3>1 DEF TriedLock, Holding
    <3>3. \A i \in CPUs : /\ IsInjective(vec'[i]) /\ IsInjective(list'[i])
                          /\ Range(vec'[i]) \cap Range(list'[i]) = {}
      <4>1. /\ IsInjective(again) /\ IsInjective(rest)
            /\ Range(again) \cap Range(rest) = {}
        BY <2>2, <2>4 DEF TriedLock, Queues
      <4> QED BY <4>1, <2>3, <3>1 DEF Queues
    <3> QED BY <2>1, <2>6, <3>2, <3>3 DEF Queues
  <2> QED BY <2>2, <2>5, <2>6 DEF TriedLock
<1>8. ASSUME NEW cpu \in CPUs, ClearSched(cpu) PROVE Queues'
  <2>1. UNCHANGED <<phase, killing, vec, list, tl>> /\ sched' = sched \ {tl[cpu]}
    BY <1>8 DEF ClearSched
  <2>2. pc[cpu] = "locked" /\ pc' = [pc EXCEPT ![cpu] = "start"]
    BY <1>8 DEF ClearSched
  <2>3. \A i \in CPUs : pc'[i] = "locked" => i # cpu /\ pc[i] = "locked" /\ tl[i] # tl[cpu]
    BY <2>2, <1>0 DEF RunHeld
  <2>4. \A i \in CPUs : Holding(i)' = Holding(i) /\ tl[cpu] \notin Holding(i)
    BY <2>1, <2>2 DEF Holding, Queues
  <2>5. phase = "wait" => tl[cpu] # killing
    BY <2>2 DEF Queues
  <2> QED BY <2>1, <2>3, <2>4, <2>5 DEF Queues
<1>9. ASSUME NEW cpu \in CPUs,
             IncReturn(cpu) \/ ReadMax(cpu) \/ CmpXchg(cpu) \/ Dec(cpu) \/ Return(cpu)
      PROVE  Queues'
  <2>1. UNCHANGED <<phase, killing, sched, vec, list>>
    BY <1>9 DEF IncReturn, ReadMax, CmpXchg, Dec, Return, queues
  <2>2. \A i \in CPUs : pc'[i] = "locked" => pc[i] = "locked" /\ tl'[i] = tl[i]
    BY <1>9, <1>0 DEF IncReturn, ReadMax, CmpXchg, Dec, Return, queues
  <2>3. \A i \in CPUs : Holding(i)' = Holding(i)
    BY <2>1 DEF Holding
  <2> QED BY <2>1, <2>2, <2>3 DEF Queues
<1> QED BY <1>1, <1>2, <1>3, <1>4, <1>5, <1>6, <1>7, <1>8, <1>9
        DEF Next, Insmod, Softirq, Kill, Unloaded

\* In modes 1 and 2 a CPU that enters bump() is alone.
LEMMA NextOneTasklet ==
  /\ TypeOK /\ MeterFacts /\ RunHeld /\ Queues /\ OneTasklet /\ [Next]_vars
  => OneTasklet'
<1> SUFFICES ASSUME TypeOK, MeterFacts, RunHeld, Queues, OneTasklet, [Next]_vars, mode' # 0
             PROVE  /\ \A i \in CPUs : Holding(i)' \subseteq {TlOne} /\ tl'[i] \in {TlOne, NoTl}
                    /\ peak' <= 1 /\ rep'.max <= 1 /\ rep'.verdict <= 1
  BY DEF OneTasklet
<1>0. /\ vec \in [CPUs -> Seq(Tl)] /\ list \in [CPUs -> Seq(Tl)]
      /\ tl \in [CPUs -> Tl \cup {NoTl}] /\ pc \in [CPUs -> Locations]
  BY DEF TypeOK
<1>1. mode' = mode
  BY ReportStep DEF Next, Insmod, Start, LateSched, Rmmod, Kill, KillSetSched, KillWaitRun,
         Unloaded, vars, HandleIpi, Softirq, TakeList, TryLock, ClearSched, IncReturn,
         ReadMax, CmpXchg, Dec, Return
<1>2. /\ \A i \in CPUs : Holding(i) \subseteq {TlOne} /\ tl[i] \in {TlOne, NoTl}
      /\ peak <= 1 /\ rep.max <= 1 /\ rep.verdict <= 1
  BY <1>1 DEF OneTasklet
<1>3. CASE UNCHANGED vars
  BY <1>2, <1>3 DEF vars, queues, meter, Holding
<1>4. CASE Start \/ LateSched \/ Rmmod \/ Kill
  BY <1>2, <1>4 DEF Start, LateSched, Rmmod, Kill, KillSetSched, KillWaitRun, queues, meter,
                    Holding
<1>5. CASE Report
  <2>1. maxcur <= 1 /\ maxcur \in Nat
    BY <1>2 DEF MeterFacts
  <2>2. rep'.max \in {rep.max, maxcur} /\ rep'.verdict \in {rep.verdict, maxcur}
    BY <1>5, ReportStep DEF TypeOK, Fields
  <2> QED BY <1>2, <1>5, <2>1, <2>2, ReportStep DEF queues, meter, Holding
<1>6. ASSUME NEW cpu \in CPUs, HandleIpi(cpu)
      PROVE  /\ \A i \in CPUs : Holding(i)' \subseteq {TlOne} /\ tl'[i] \in {TlOne, NoTl}
             /\ peak' <= 1 /\ rep'.max <= 1 /\ rep'.verdict <= 1
  <2>1. UNCHANGED <<list, tl, peak, rep>>
    BY <1>6 DEF HandleIpi, meter
  <2>2. PICK t \in Tl, more \in Seq(Tl) : Scheduled(cpu, t, more)
    BY <1>6, HandleIpiEffect
  <2>3. t = TlOne
    BY <2>2, <1>1 DEF Scheduled, TargetOf
  <2>4. \A i \in CPUs : Range(vec'[i]) \subseteq Range(vec[i]) \cup {TlOne}
    BY <2>2, <2>3, <1>0 DEF Scheduled
  <2> QED BY <1>2, <2>1, <2>4 DEF Holding
<1>7. ASSUME NEW cpu \in CPUs, TakeList(cpu)
      PROVE  /\ \A i \in CPUs : Holding(i)' \subseteq {TlOne} /\ tl'[i] \in {TlOne, NoTl}
             /\ peak' <= 1 /\ rep'.max <= 1 /\ rep'.verdict <= 1
  <2>1. UNCHANGED <<tl, peak, rep>>
    BY <1>7 DEF TakeList, meter
  <2>2. \A i \in CPUs : /\ vec'[i] = vec[i] \/ vec'[i] = <<>>
                        /\ list'[i] = list[i] \/ list'[i] = vec[i]
    BY <1>7, <1>0 DEF TakeList
  <2>3. \A i \in CPUs : Holding(i)' \subseteq Holding(i)
    BY <2>2, EmptyQueue DEF Holding
  <2> QED BY <1>2, <2>1, <2>3
<1>8. ASSUME NEW cpu \in CPUs, TryLock(cpu)
      PROVE  /\ \A i \in CPUs : Holding(i)' \subseteq {TlOne} /\ tl'[i] \in {TlOne, NoTl}
             /\ peak' <= 1 /\ rep'.max <= 1 /\ rep'.verdict <= 1
  <2>1. UNCHANGED <<peak, rep>>
    BY <1>8 DEF TryLock
  <2>2. PICK t \in Tl, rest, again \in Seq(Tl) : TriedLock(cpu, t, rest, again)
    BY <1>8, TryLockEffect
  <2>3. t \in Holding(cpu)
    BY <2>2 DEF TriedLock, Holding
  <2>4. t = TlOne
    BY <2>3, <1>2
  <2>5. \A i \in CPUs : Range(vec'[i]) \subseteq Range(vec[i]) \cup {t} /\ tl'[i] \in {tl[i], t}
    BY <2>2, <1>0 DEF TriedLock
  <2>6. \A i \in CPUs : Range(list'[i]) \subseteq Range(list[i])
    BY <2>2, <1>0 DEF TriedLock
  <2> QED BY <1>2, <2>1, <2>4, <2>5, <2>6 DEF Holding
<1>9. ASSUME NEW cpu \in CPUs, IncReturn(cpu)
      PROVE  /\ \A i \in CPUs : Holding(i)' \subseteq {TlOne} /\ tl'[i] \in {TlOne, NoTl}
             /\ peak' <= 1 /\ rep'.max <= 1 /\ rep'.verdict <= 1
  <2>1. tl[cpu] = TlOne
    BY <1>9, <1>2 DEF IncReturn, RunHeld
  <2>2. \A i \in CPUs : i # cpu => tl[i] = NoTl
    BY <1>2, <2>1 DEF RunHeld
  <2>3. Measured = {}
    BY <1>9, <2>2 DEF IncReturn, RunHeld, Measured
  <2>4. cur = 0
    BY <2>3, FS_EmptySet DEF MeterFacts
  <2>5. peak' <= 1
    BY <1>9, <1>2, <2>4 DEF IncReturn, MeterFacts
  <2> QED BY <1>9, <1>2, <2>5 DEF IncReturn, queues, Holding
<1>10. ASSUME NEW cpu \in CPUs,
              ClearSched(cpu) \/ ReadMax(cpu) \/ CmpXchg(cpu) \/ Dec(cpu) \/ Return(cpu)
       PROVE  /\ \A i \in CPUs : Holding(i)' \subseteq {TlOne} /\ tl'[i] \in {TlOne, NoTl}
              /\ peak' <= 1 /\ rep'.max <= 1 /\ rep'.verdict <= 1
  <2>1. UNCHANGED <<vec, list, peak, rep>>
    BY <1>10 DEF ClearSched, ReadMax, CmpXchg, Dec, Return, queues
  <2>2. \A i \in CPUs : tl'[i] \in {tl[i], NoTl}
    BY <1>10, <1>0 DEF ClearSched, ReadMax, CmpXchg, Dec, Return, queues
  <2> QED BY <1>2, <2>1, <2>2 DEF Holding
<1> QED BY <1>3, <1>4, <1>5, <1>6, <1>7, <1>8, <1>9, <1>10 DEF Next, Insmod, Softirq, Unloaded

\* tasklet_kill() leaves its tasklet neither queued nor running, and no IPI
\* can queue it again.
LEMMA NextKillOrder ==
  /\ TypeOK /\ RunHeld /\ Queues /\ KillOrder /\ [Next]_vars
  => KillOrder'
<1> SUFFICES ASSUME TypeOK, RunHeld, Queues, KillOrder, [Next]_vars PROVE KillOrder'
  OBVIOUS
<1>0. /\ vec \in [CPUs -> Seq(Tl)] /\ list \in [CPUs -> Seq(Tl)] /\ phase \in Phases
      /\ tl \in [CPUs -> Tl \cup {NoTl}] /\ pc \in [CPUs -> Locations]
  BY DEF TypeOK
<1>1. ASSUME phase' = phase, killing' = killing PROVE Killed' = Killed
  BY <1>1 DEF Killed
<1>t. timely' = timely
  BY ReportStep DEF Next, Insmod, Start, LateSched, Rmmod, Kill, KillSetSched, KillWaitRun,
         Unloaded, vars, HandleIpi, Softirq, TakeList, TryLock, ClearSched, IncReturn,
         ReadMax, CmpXchg, Dec, Return
<1>2. CASE UNCHANGED vars
  BY <1>2, <1>1 DEF vars, queues, KillOrder
<1>3. CASE Start \/ LateSched
  <2>1. Killed' = {} /\ phase' \notin AfterSleep
    BY <1>3 DEF Start, LateSched, Killed, AfterSleep
  <2> QED BY <2>1, <1>t DEF KillOrder, AfterSleep
<1>4. CASE Report
  <2>1. /\ Killed' = {} /\ ipi' = ipi /\ timely' = timely
        /\ phase \in {"sleep", "runs", "max", "verdict"}
        /\ phase' \in {"runs", "max", "verdict", "loaded"}
    BY <1>4, ReportStep DEF Killed
  <2>2. timely => ipi = {}
    BY <1>4, <2>1, ReportStep DEF SleepOver, KillOrder, AfterSleep
  <2> QED BY <2>1, <2>2, <1>t DEF KillOrder
<1>5. CASE Rmmod
  <2>1. killing' = 0 /\ phase' = "kill" /\ phase = "loaded" /\ ipi' = ipi
    BY <1>5 DEF Rmmod
  <2>2. \A t \in CPUs : ~ (t < 0)
    BY Names
  <2>3. 0 # TlOne
    BY Names
  <2>4. Killed' = {}
    BY <2>1, <2>2, <2>3, Zenon DEF Killed
  <2> QED BY <2>1, <2>4, Names, <1>t DEF KillOrder, AfterSleep
<1>6. CASE KillSetSched
  <2>1. /\ phase = "kill" /\ phase' = "wait" /\ killing' = killing /\ ipi' = ipi
        /\ sched' = sched \cup {killing} /\ run' = run
    BY <1>6 DEF KillSetSched
  <2>2. Killed' = Killed
    BY <2>1 DEF Killed
  <2>3. killing \in CPUs => ~ (killing < killing) /\ killing # TlOne
    BY Names
  <2>4. killing \notin Killed
    BY <2>1, <2>3, Zenon DEF Killed
  <2> QED BY <2>1, <2>2, <2>4, <1>t DEF KillOrder, AfterSleep
<1>7. CASE KillWaitRun
  <2>1. /\ phase = "wait" /\ killing \notin run /\ sched' = sched \ {killing} /\ run' = run
        /\ killing' = NextKill(killing) /\ ipi' = ipi
        /\ phase' = IF killing' = NoTl THEN "unloaded" ELSE "kill"
    BY <1>7 DEF KillWaitRun
  <2>2. killing \in Tl
    BY <2>1 DEF KillOrder
  <2>3. CASE killing = TlOne
    <3>1. killing' = NoTl /\ phase' = "unloaded"
      BY <2>1, <2>2, <2>3, NextKillInOrder
    <3>2. Killed' \subseteq Killed \cup {killing}
      BY <2>1, <2>3 DEF Killed, Tl
    <3> QED BY <2>1, <3>1, <3>2, <1>t DEF KillOrder, AfterSleep
  <2>4. CASE killing # TlOne
    <3>1. killing \in CPUs
      BY <2>2, <2>4 DEF Tl
    <3>2. /\ killing' \in Tl
          /\ killing' = TlOne => \A u \in CPUs : u <= killing
          /\ killing' # TlOne => \A u \in CPUs : u < killing' => u <= killing
      BY <2>1, <2>2, <3>1, NextKillInOrder
    <3>3. phase' = "kill"
      BY <2>1, <3>2, Names
    <3>4. ASSUME NEW t \in Killed' PROVE t \in Killed \cup {killing}
      <4>1. t \in CPUs /\ (killing' = TlOne \/ t < killing')
        BY <3>3 DEF Killed
      <4>2. t <= killing
        <5>1. CASE killing' = TlOne
          BY <5>1, <4>1, <3>2
        <5>2. CASE killing' # TlOne
          BY <5>2, <4>1, <3>2
        <5> QED BY <5>1, <5>2
      <4>3. t < killing \/ t = killing
        BY <4>1, <4>2, <3>1, Names
      <4>4. t < killing => t \in Killed
        BY <4>1, <2>1, Names DEF Killed
      <4> QED BY <4>3, <4>4
    <3> QED BY <2>1, <3>2, <3>3, <3>4, <1>t DEF KillOrder, AfterSleep
  <2> QED BY <2>3, <2>4
<1>8. ASSUME NEW cpu \in CPUs, HandleIpi(cpu) PROVE KillOrder'
  <2>1. UNCHANGED <<phase, killing, run>> /\ cpu \in ipi /\ ipi' = ipi \ {cpu}
    BY <1>8 DEF HandleIpi
  <2>2. timely => phase \notin AfterSleep
    BY <2>1 DEF KillOrder
  <2>3. timely => Killed' = {}
    BY <2>1, <2>2 DEF Killed, AfterSleep
  <2> QED BY <2>1, <2>2, <2>3, <1>t DEF KillOrder
<1>9. ASSUME NEW cpu \in CPUs, TryLock(cpu) PROVE KillOrder'
  <2>1. UNCHANGED <<phase, killing, sched, ipi>>
    BY <1>9 DEF TryLock
  <2>2. PICK t \in Tl, rest, again \in Seq(Tl) : TriedLock(cpu, t, rest, again)
    BY <1>9, TryLockEffect
  <2>3. t \in sched
    BY <2>2 DEF TriedLock, Queues, Holding
  <2> QED BY <2>1, <2>2, <2>3, <1>1, <1>t DEF TriedLock, KillOrder
<1>10. ASSUME NEW cpu \in CPUs,
              \/ TakeList(cpu) \/ ClearSched(cpu) \/ IncReturn(cpu) \/ ReadMax(cpu)
              \/ CmpXchg(cpu) \/ Dec(cpu) \/ Return(cpu)
       PROVE  KillOrder'
  <2>1. UNCHANGED <<phase, killing, ipi>> /\ sched' \subseteq sched /\ run' \subseteq run
    BY <1>10 DEF TakeList, ClearSched, IncReturn, ReadMax, CmpXchg, Dec, Return, queues
  <2> QED BY <2>1, <1>1, <1>t DEF KillOrder
<1> QED BY <1>2, <1>3, <1>4, <1>5, <1>6, <1>7, <1>8, <1>9, <1>10
        DEF Next, Insmod, Softirq, Kill, Unloaded

\* What Counted counts is finite.
LEMMA CountedFinite ==
  ASSUME TypeOK, Queues
  PROVE  /\ IsFiniteSet(Busy) /\ Cardinality(Busy) \in Nat
         /\ IsFiniteSet(Pending) /\ Cardinality(Pending) \in Nat
<1>1. IsFiniteSet(Tl)
  BY SoftirqParAssumption, FS_AddElement DEF Tl
<1>2. Pending \subseteq Tl
  BY DEF Pending, Queues, TypeOK
<1>3. Busy \subseteq CPUs
  BY DEF Busy
<1> QED BY <1>1, <1>2, <1>3, SoftirqParAssumption, FS_Subset, FS_CardinalityType

\* A call of tasklet_schedule() queues at most one tasklet, a queued tasklet
\* starts at most one callback, and a callback adds one to runs.
LEMMA NextCounted ==
  /\ TypeOK /\ TypeOK' /\ RunHeld /\ Queues /\ Queues' /\ Counted /\ [Next]_vars
  => Counted'
<1> SUFFICES ASSUME TypeOK, TypeOK', RunHeld, Queues, Queues', Counted, [Next]_vars
             PROVE  Counted'
  OBVIOUS
<1>0. /\ vec \in [CPUs -> Seq(Tl)] /\ list \in [CPUs -> Seq(Tl)]
      /\ tl \in [CPUs -> Tl \cup {NoTl}] /\ pc \in [CPUs -> Locations]
      /\ runs \in Nat /\ sched_calls \in Nat /\ maxcur \in Nat /\ c \in [CPUs -> Nat]
      /\ cur \in Nat
  BY DEF TypeOK
<1> DEFINE Started == runs > 0 \/ \E i \in CPUs : pc[i] \in {"in", "ret"}
           Carried == \A i \in CPUs : pc[i] \in {"read", "cas"} => c[i] > 0
           Paid == runs + Cardinality(Busy) + Cardinality(Pending) <= sched_calls
<1>1. Counted <=> Paid /\ (Started => maxcur > 0) /\ Carried
  BY DEF Counted
<1>2. Counted' <=> Paid' /\ (Started' => maxcur' > 0) /\ Carried'
  BY DEF Counted
<1>p. /\ runs + Cardinality(Busy) + Cardinality(Pending) <= sched_calls
      /\ runs \in Nat /\ sched_calls \in Nat
  BY DEF TypeOK, Counted
<1>3. /\ IsFiniteSet(Busy) /\ Cardinality(Busy) \in Nat
      /\ IsFiniteSet(Pending) /\ Cardinality(Pending) \in Nat
      /\ Cardinality(Busy') \in Nat /\ Cardinality(Pending') \in Nat
  <2>1. TypeOK' /\ Queues' => /\ IsFiniteSet(Busy)' /\ (Cardinality(Busy) \in Nat)'
                              /\ IsFiniteSet(Pending)' /\ (Cardinality(Pending) \in Nat)'
    BY CountedFinite, PTL
  <2> QED BY <2>1, CountedFinite
<1>4. ASSUME UNCHANGED <<pc, runs, sched_calls, vec, list, maxcur, c>> PROVE Counted'
  BY <1>4 DEF Counted, Busy, Pending, Holding
<1>5. CASE Insmod \/ Rmmod \/ Kill \/ UNCHANGED vars
  BY <1>4, <1>5, ReportStep DEF Insmod, Start, LateSched, Rmmod, Kill, KillSetSched, KillWaitRun,
                    vars, queues, meter, stats
<1>6. ASSUME NEW cpu \in CPUs, HandleIpi(cpu) PROVE Counted'
  <2>1. UNCHANGED <<pc, runs, list, maxcur, c>> /\ sched_calls' = sched_calls + 1
    BY <1>6 DEF HandleIpi, meter
  <2>2. PICK t \in Tl, more \in Seq(Tl) : Scheduled(cpu, t, more)
    BY <1>6, HandleIpiEffect
  <2>3. \A i \in CPUs : Range(vec'[i]) \subseteq Range(vec[i]) \cup {t}
    BY <2>2, <1>0 DEF Scheduled
  <2>4. Pending' \subseteq Pending \cup {t}
    BY <2>1, <2>3 DEF Pending, Holding
  <2>5. /\ IsFiniteSet(Pending \cup {t})
        /\ Cardinality(Pending \cup {t}) \in {Cardinality(Pending), Cardinality(Pending) + 1}
    BY <1>3, FS_AddElement
  <2>6. Cardinality(Pending') <= Cardinality(Pending \cup {t})
    BY <2>4, <2>5, FS_Subset
  <2>7. Busy' = Busy
    BY <2>1 DEF Busy
  <2>8. Paid'
    BY <2>1, <2>5, <2>6, <2>7, <1>p, <1>3
  <2> QED BY <2>1, <2>8, <1>1, <1>2
<1>7. ASSUME NEW cpu \in CPUs, TakeList(cpu) PROVE Counted'
  <2>1. UNCHANGED <<pc, runs, sched_calls, maxcur, c>>
    BY <1>7 DEF TakeList, meter, stats
  <2>2. /\ \A i \in CPUs \ {cpu} : vec'[i] = vec[i] /\ list'[i] = list[i]
        /\ vec'[cpu] = <<>> /\ list'[cpu] = vec[cpu] /\ list[cpu] = <<>>
    BY <1>7, <1>0 DEF TakeList
  <2>3. \A i \in CPUs : Holding(i)' = Holding(i)
    BY <2>2, EmptyQueue DEF Holding
  <2>4. Pending' = Pending /\ Busy' = Busy
    BY <2>1, <2>3 DEF Pending, Busy
  <2> QED BY <2>1, <2>4 DEF Counted
<1>8. ASSUME NEW cpu \in CPUs, TryLock(cpu) PROVE Counted'
  <2>1. UNCHANGED <<runs, sched_calls, maxcur, c>>
    BY <1>8 DEF TryLock, stats
  <2>2. PICK t \in Tl, rest, again \in Seq(Tl) : TriedLock(cpu, t, rest, again)
    BY <1>8, TryLockEffect
  <2>3. list'[cpu] = rest /\ \A i \in CPUs \ {cpu} : list'[i] = list[i]
    BY <2>2, <1>0 DEF TriedLock
  <2>4. CASE t \notin run
    <3>1. pc' = [pc EXCEPT ![cpu] = "locked"] /\ vec' = vec
      BY <2>2, <2>4 DEF TriedLock
    <3>2. t \notin Range(rest) /\ Range(list[cpu]) = Range(rest) \cup {t}
      BY <2>2 DEF TriedLock, Queues
    <3>3. /\ t \in Holding(cpu) /\ t \notin Holding(cpu)'
          /\ Holding(cpu)' \subseteq Holding(cpu)
          /\ \A i \in CPUs \ {cpu} : t \notin Holding(i) /\ Holding(i)' = Holding(i)
      BY <2>3, <3>1, <3>2 DEF Queues, Holding
    <3>4. t \in Pending /\ Pending' \subseteq Pending \ {t}
      BY <3>3 DEF Pending
    <3>5. /\ IsFiniteSet(Pending \ {t})
          /\ Cardinality(Pending \ {t}) = Cardinality(Pending) - 1
      BY <3>4, <1>3, FS_RemoveElement
    <3>6. Cardinality(Pending') <= Cardinality(Pending \ {t})
      BY <3>4, <3>5, FS_Subset
    <3>7. Busy' = Busy \cup {cpu} /\ cpu \notin Busy
      BY <1>8, <3>1, <1>0 DEF Busy, TryLock
    <3>8. Cardinality(Busy') = Cardinality(Busy) + 1
      BY <3>7, <1>3, FS_AddElement
    <3>9. Paid'
      <4>1. Cardinality(Pending') <= Cardinality(Pending) - 1
        BY <3>5, <3>6
      <4> QED BY <2>1, <3>8, <4>1, <1>p, <1>3
    <3>10. /\ Started' => Started
           /\ \A i \in CPUs : pc'[i] \in {"read", "cas"} => pc[i] = pc'[i]
      BY <2>1, <3>1, <1>0
    <3> QED BY <2>1, <3>9, <3>10, <1>1, <1>2
  <2>5. CASE t \in run
    <3>1. vec' = [vec EXCEPT ![cpu] = again] /\ pc' = pc
      BY <2>2, <2>5 DEF TriedLock
    <3>2. \A i \in CPUs : Holding(i)' = Holding(i)
      BY <2>2, <2>3, <3>1, <1>0 DEF TriedLock, Holding
    <3>3. Pending' = Pending /\ Busy' = Busy
      BY <3>1, <3>2 DEF Pending, Busy
    <3> QED BY <2>1, <3>1, <3>3 DEF Counted
  <2> QED BY <2>4, <2>5
<1>9. ASSUME NEW cpu \in CPUs,
             ClearSched(cpu) \/ IncReturn(cpu) \/ ReadMax(cpu) \/ CmpXchg(cpu) \/ Dec(cpu)
      PROVE  Counted'
  <2>1. UNCHANGED <<runs, sched_calls, vec, list>>
    BY <1>9 DEF ClearSched, IncReturn, ReadMax, CmpXchg, Dec, queues, stats
  <2>2. Busy' = Busy
    BY <1>9, <1>0 DEF ClearSched, IncReturn, ReadMax, CmpXchg, Dec, Busy
  <2>3. Pending' = Pending
    BY <2>1 DEF Pending, Holding
  <2>4. Paid'
    BY <2>1, <2>2, <2>3, <1>p
  <2>5. (Started' => maxcur' > 0) /\ Carried'
    <3>1. CASE ClearSched(cpu)
      BY <3>1, <1>0, <1>1 DEF ClearSched
    <3>2. CASE IncReturn(cpu)
      BY <3>2, <1>0, <1>1 DEF IncReturn
    <3>3. CASE ReadMax(cpu)
      BY <3>3, <1>0, <1>1 DEF ReadMax, stats
    <3>4. CASE CmpXchg(cpu)
      BY <3>4, <1>0, <1>1 DEF CmpXchg, stats
    <3>5. CASE Dec(cpu)
      BY <3>5, <1>0, <1>1 DEF Dec, stats
    <3> QED BY <1>9, <3>1, <3>2, <3>3, <3>4, <3>5
  <2> QED BY <2>4, <2>5, <1>2
<1>10. ASSUME NEW cpu \in CPUs, Return(cpu) PROVE Counted'
  <2>1. /\ UNCHANGED <<sched_calls, vec, list, maxcur, c>> /\ runs' = runs + 1
        /\ pc[cpu] = "ret" /\ pc' = [pc EXCEPT ![cpu] = "out"]
    BY <1>10 DEF Return
  <2>2. Pending' = Pending
    BY <2>1 DEF Pending, Holding
  <2>3. Busy' = Busy \ {cpu} /\ cpu \in Busy
    BY <2>1, <1>0 DEF Busy
  <2>4. Cardinality(Busy') = Cardinality(Busy) - 1
    BY <2>3, <1>3, FS_RemoveElement
  <2>5. Paid'
    BY <2>1, <2>2, <2>4, <1>p, <1>3
  <2>6. maxcur' > 0 /\ Carried'
    BY <2>1, <1>0, <1>1
  <2> QED BY <2>5, <2>6, <1>2
<1> QED BY <1>5, <1>6, <1>7, <1>8, <1>9, <1>10 DEF Next, Softirq, Unloaded

\* The counters of the report only grow, sched_calls by an interrupt alone.
LEMMA Growth ==
  ASSUME TypeOK, MeterFacts, MeterFacts', [Next]_vars
  PROVE  /\ runs \in Nat /\ sched_calls \in Nat /\ maxcur \in Nat /\ peak \in Nat
         /\ maxcur \in Int /\ maxcur' \in Int /\ peak' \in Int
         /\ runs' \in Int /\ sched_calls' \in Int
         /\ runs <= runs' /\ sched_calls <= sched_calls'
         /\ maxcur <= maxcur' /\ peak <= peak'
         /\ sched_calls' = sched_calls \/ \E cpu \in CPUs : HandleIpi(cpu)
<1>1. /\ runs \in Nat /\ sched_calls \in Nat /\ maxcur \in Nat /\ peak \in Nat
      /\ maxcur' \in Nat /\ peak' \in Nat
  BY DEF TypeOK, MeterFacts
<1>2. CASE Insmod \/ Rmmod \/ Kill \/ UNCHANGED vars
  BY <1>1, <1>2, ReportStep DEF Insmod, Start, LateSched, Rmmod, Kill, KillSetSched,
     KillWaitRun, vars, queues, meter, stats
<1>3. ASSUME NEW cpu \in CPUs, HandleIpi(cpu)
      PROVE  /\ UNCHANGED <<runs, maxcur, peak>> /\ sched_calls' = sched_calls + 1
  BY <1>3 DEF HandleIpi, meter
<1>4. ASSUME NEW cpu \in CPUs, IncReturn(cpu)
      PROVE  UNCHANGED <<runs, sched_calls, maxcur>> /\ peak <= peak'
  BY <1>1, <1>4 DEF IncReturn, MeterFacts
<1>5. ASSUME NEW cpu \in CPUs, CmpXchg(cpu)
      PROVE  UNCHANGED <<runs, sched_calls, peak>> /\ maxcur <= maxcur'
  <2>1. pc[cpu] = "cas" /\ c[cpu] \in Nat /\ m[cpu] \in Nat /\ m[cpu] < c[cpu]
    BY <1>5 DEF CmpXchg, MeterFacts
  <2> QED BY <1>1, <1>5, <2>1 DEF CmpXchg, stats
<1>6. ASSUME NEW cpu \in CPUs, Return(cpu)
      PROVE  UNCHANGED <<sched_calls, maxcur, peak>> /\ runs' = runs + 1
  BY <1>6 DEF Return
<1>7. ASSUME NEW cpu \in CPUs,
             TakeList(cpu) \/ TryLock(cpu) \/ ClearSched(cpu) \/ ReadMax(cpu) \/ Dec(cpu)
      PROVE  UNCHANGED <<runs, sched_calls, maxcur, peak>>
  BY <1>7 DEF TakeList, TryLock, ClearSched, ReadMax, Dec, meter, stats
<1> QED BY <1>1, <1>2, <1>3, <1>4, <1>5, <1>6, <1>7 DEF Next, Softirq, Unloaded

\* Only the report writes rep; the other steps of the insmod and rmmod threads
\* move on to phases whose lines are all out or none is.
LEMMA ReportKept ==
  ASSUME [Next]_vars, ~ Report
  PROVE  /\ rep' = rep
         /\ \/ phase' = phase
            \/ /\ phase \notin AfterSleep /\ phase' \notin AfterSleep
            \/ /\ phase \in {"loaded", "kill", "wait"}
               /\ phase' \in {"kill", "wait", "unloaded"}
<1>1. CASE Start \/ LateSched
  BY <1>1 DEF Start, LateSched, AfterSleep
<1>2. CASE Rmmod \/ Kill \/ UNCHANGED vars
  BY <1>2 DEF Rmmod, Kill, KillSetSched, KillWaitRun, vars
<1>3. ASSUME NEW cpu \in CPUs, HandleIpi(cpu) \/ Softirq(cpu)
      PROVE  rep' = rep /\ phase' = phase
  BY <1>3 DEF HandleIpi, Softirq, TakeList, TryLock, ClearSched, IncReturn, ReadMax, CmpXchg,
              Dec, Return
<1> QED BY <1>1, <1>2, <1>3 DEF Next, Insmod, Unloaded

\* The lines of the report come out in order.
LEMMA NextPrinted ==
  TypeOK /\ MeterFacts /\ MeterFacts' /\ Printed /\ [Next]_vars => Printed'
<1> SUFFICES ASSUME TypeOK, MeterFacts, MeterFacts', Printed, [Next]_vars PROVE Printed'
  OBVIOUS
<1>0. rep \in [Fields -> Nat \cup {Unread}] /\ maxcur \in Nat /\ maxcur' \in Int
  BY Growth DEF TypeOK
<1>1. maxcur <= maxcur' /\ rep.max \in Int /\ rep.max <= maxcur
  BY <1>0, Growth DEF Printed, Fields, Unread
<1>2. CASE ~ Report
  <2>1. rep.max <= maxcur'
    BY <1>0, <1>1
  <2> QED BY <1>2, <2>1, ReportKept DEF Printed, AfterSleep
<1>3. CASE Report
  <2>1. maxcur' = maxcur
    BY <1>3, ReportStep DEF meter
  <2>2. CASE phase = "sleep" /\ phase' = "runs" /\ rep' = [rep EXCEPT !["calls"] = sched_calls]
    <3>1. rep.runs = Unread /\ rep.max = Unread /\ rep.verdict = Unread
      BY <2>2 DEF Printed, AfterSleep, NoReport, Fields
    <3>2. rep'.runs = Unread /\ rep'.max = Unread /\ rep'.verdict = Unread
      BY <1>0, <2>2, <3>1 DEF Fields
    <3> QED BY <1>1, <2>1, <2>2, <3>1, <3>2 DEF Printed, AfterSleep
  <2>3. CASE phase = "runs" /\ phase' = "max" /\ rep' = [rep EXCEPT !["runs"] = runs]
    BY <1>0, <1>1, <2>1, <2>3 DEF Printed, AfterSleep, Fields
  <2>4. CASE phase = "max" /\ phase' = "verdict" /\ rep' = [rep EXCEPT !["max"] = maxcur]
    BY <1>0, <1>1, <2>1, <2>4 DEF Printed, AfterSleep, Fields
  <2>5. CASE phase = "verdict" /\ phase' = "loaded" /\ rep' = [rep EXCEPT !["verdict"] = maxcur]
    BY <1>0, <1>1, <2>1, <2>5 DEF Printed, AfterSleep, Fields
  <2> QED BY <1>3, <2>2, <2>3, <2>4, <2>5, ReportStep
<1> QED BY <1>2, <1>3

\* Each line is sound when it is printed, and remains so: the counters only
\* grow, and sched_calls no longer does once timely interrupts are over.
LEMMA NextReportSound ==
  /\ TypeOK /\ MeterFacts /\ MeterFacts' /\ Queues /\ Counted /\ KillOrder /\ Printed
  /\ ReportSound /\ [Next]_vars
  => ReportSound'
<1> SUFFICES ASSUME TypeOK, MeterFacts, MeterFacts', Queues, Counted, KillOrder, Printed,
                    ReportSound, [Next]_vars
             PROVE  ReportSound'
  OBVIOUS
<1>0. /\ rep \in [Fields -> Nat \cup {Unread}]
      /\ rep.calls \in Int /\ rep.runs \in Int /\ rep.max \in Int /\ rep.verdict \in Int
  BY DEF TypeOK, Fields, Unread
<1>1. /\ runs \in Nat /\ sched_calls \in Nat /\ maxcur \in Nat /\ peak \in Nat
      /\ peak' \in Int /\ runs' \in Int /\ sched_calls' \in Int
      /\ runs <= runs' /\ sched_calls <= sched_calls' /\ peak <= peak'
      /\ sched_calls' = sched_calls \/ \E cpu \in CPUs : HandleIpi(cpu)
  BY Growth
<1>2. timely' = timely
  BY ReportStep DEF Next, Insmod, Start, LateSched, Rmmod, Kill, KillSetSched, KillWaitRun,
         Unloaded, vars, HandleIpi, Softirq, TakeList, TryLock, ClearSched, IncReturn,
         ReadMax, CmpXchg, Dec, Return
<1>3. runs <= sched_calls /\ (runs > 0 => maxcur > 0) /\ maxcur <= peak
  <2>1. runs + Cardinality(Busy) + Cardinality(Pending) <= sched_calls
    BY DEF Counted
  <2>2. Cardinality(Busy) \in Nat /\ Cardinality(Pending) \in Nat
    BY CountedFinite
  <2>3. runs <= sched_calls
    BY <1>1, <2>1, <2>2
  <2> QED BY <2>3 DEF Counted, MeterFacts
<1>4. CASE ~ Report
  <2>1. rep' = rep
    BY <1>4, ReportKept
  <2>2. timely /\ rep.calls # Unread => sched_calls' = sched_calls
    <3> SUFFICES ASSUME timely, rep.calls # Unread, NEW cpu \in CPUs, HandleIpi(cpu) PROVE FALSE
      BY <1>1
    <3>1. rep # NoReport
      BY DEF NoReport, Fields
    <3>2. phase \in AfterSleep
      BY <3>1 DEF Printed
    <3> QED BY <3>2 DEF KillOrder, HandleIpi
  <2> QED BY <1>0, <1>1, <1>2, <2>1, <2>2 DEF ReportSound
<1>5. CASE Report
  <2>1. UNCHANGED <<runs, sched_calls, maxcur, peak>>
    BY <1>5, ReportStep DEF meter, stats
  <2>2. CASE phase = "sleep" /\ rep' = [rep EXCEPT !["calls"] = sched_calls]
    <3>1. rep.runs = Unread /\ rep.max = Unread /\ rep.verdict = Unread
      BY <2>2 DEF Printed, AfterSleep, NoReport, Fields
    <3>2. rep'.calls = sched_calls /\ rep'.runs = -1 /\ rep'.max = -1 /\ rep'.verdict = -1
      BY <1>0, <2>2, <3>1 DEF Fields, Unread
    <3> QED BY <1>1, <2>1, <3>2 DEF ReportSound, Unread
  <2>3. CASE phase = "runs" /\ rep' = [rep EXCEPT !["runs"] = runs]
    <3>1. rep.max = Unread /\ rep.verdict = Unread
      BY <2>3 DEF Printed
    <3>2. /\ rep'.calls = rep.calls /\ rep'.runs = runs /\ rep'.max = rep.max
          /\ rep'.verdict = rep.verdict
      BY <1>0, <2>3 DEF Fields
    <3> QED BY <1>0, <1>1, <1>2, <1>3, <2>1, <3>1, <3>2 DEF ReportSound
  <2>4. CASE phase = "max" /\ rep' = [rep EXCEPT !["max"] = maxcur]
    <3>1. rep.verdict = Unread
      BY <2>4 DEF Printed
    <3>2. /\ rep'.calls = rep.calls /\ rep'.runs = rep.runs /\ rep'.max = maxcur
          /\ rep'.verdict = rep.verdict
      BY <1>0, <2>4 DEF Fields
    <3> QED BY <1>0, <1>1, <1>2, <1>3, <2>1, <3>1, <3>2 DEF ReportSound
  <2>5. CASE phase = "verdict" /\ rep' = [rep EXCEPT !["verdict"] = maxcur]
    <3>1. rep.max <= maxcur
      BY DEF Printed
    <3>2. /\ rep'.calls = rep.calls /\ rep'.runs = rep.runs /\ rep'.max = rep.max
          /\ rep'.verdict = maxcur
      BY <1>0, <2>5 DEF Fields
    <3> QED BY <1>0, <1>1, <1>2, <1>3, <2>1, <3>1, <3>2 DEF ReportSound
  <2> QED BY <1>5, <2>2, <2>3, <2>4, <2>5, ReportStep
<1> QED BY <1>4, <1>5

\* A freshly loaded module has no tasklet anywhere.
LEMMA InitSoftirqInv == Init => SoftirqInv
<1> SUFFICES ASSUME Init PROVE SoftirqInv
  OBVIOUS
<1>1. TypeOK
  <2>1. timely \in BOOLEAN
    BY DEF Init
  <2>2. rep \in [Fields -> Nat \cup {Unread}]
    BY DEF Init, NoReport
  <2> QED BY <2>1, <2>2, Names DEF Init, TypeOK, Phases, AfterSleep, Locations
<1>2. \A i \in CPUs : /\ vec[i] = <<>> /\ list[i] = <<>> /\ Holding(i) = {}
                      /\ pc[i] = "out" /\ tl[i] = NoTl
  BY EmptyQueue DEF Init, Holding
<1>3. RunHeld
  BY <1>2 DEF RunHeld
<1>4. Queues
  BY <1>2, EmptyQueue DEF Queues, Init
<1>5. OneTasklet
  BY <1>2 DEF OneTasklet, Init, NoReport, Fields, Unread
<1>6. Busy = {} /\ Pending = {}
  BY <1>2 DEF Busy, Pending
<1>7. Counted
  BY <1>2, <1>6, FS_EmptySet DEF Counted, Init
<1>8. KillOrder
  BY DEF Init, KillOrder, Killed, AfterSleep
<1>9. Printed /\ ReportSound
  BY DEF Init, Printed, ReportSound, AfterSleep, NoReport, Fields, Unread
<1> QED BY <1>1, <1>3, <1>4, <1>5, <1>7, <1>8, <1>9 DEF SoftirqInv

\* The inductive invariant of softirq_par.c, for every finite set of CPUs, every
\* mode and IPIs as late as they like.
THEOREM SoftirqInvariant == Spec => []SoftirqInv
<1>1. SoftirqInv /\ MeterFacts /\ MeterFacts' /\ [Next]_vars => SoftirqInv'
  <2> SUFFICES ASSUME SoftirqInv, MeterFacts, MeterFacts', [Next]_vars PROVE SoftirqInv'
    OBVIOUS
  <2>1. TypeOK' /\ RunHeld' /\ Queues'
    BY NextTypeOK, NextRunHeld, NextQueues DEF SoftirqInv
  <2>2. OneTasklet' /\ KillOrder' /\ Printed' /\ ReportSound'
    BY NextOneTasklet, NextKillOrder, NextPrinted, NextReportSound DEF SoftirqInv
  <2>3. Counted'
    BY <2>1, NextCounted DEF SoftirqInv
  <2> QED BY <2>1, <2>2, <2>3 DEF SoftirqInv
<1> QED BY <1>1, InitSoftirqInv, MeterFactsInv, PTL DEF Spec

\* A tasklet never runs on two CPUs, and modes 1 and 2 never report more than
\* one callback at once, whatever the delay of an IPI.
THEOREM SoftirqSerial == Spec => []TaskletSerial
<1>1. SoftirqInv => TaskletSerial
  BY DEF SoftirqInv, TaskletSerial, RunHeld, OneTasklet
<1> QED BY <1>1, SoftirqInvariant, PTL

\* The lines of the report, read one after the other, count only calls and
\* callbacks that were made and no maximum above the true one; where the sleep
\* outlasts the interrupts it waits for, the calls are all there are and cover
\* the callbacks.
THEOREM SoftirqReportSound == Spec => []ReportSound
<1>1. SoftirqInv => ReportSound
  BY DEF SoftirqInv
<1> QED BY <1>1, SoftirqInvariant, PTL

\* When the sleeps of run_mode0/1/2() outlast the IPIs they wait for, no CPU is
\* inside a callback and no queue holds a tasklet once rmmod frees the module.
THEOREM SoftirqUnload == Spec => []SerialInv
<1>1. SoftirqInv => SerialInv
  <2> SUFFICES ASSUME SoftirqInv PROVE SerialInv
    OBVIOUS
  <2>1. TypeOK /\ TaskletSerial
    BY DEF SoftirqInv, TaskletSerial, RunHeld, OneTasklet
  <2>2. ASSUME phase = "unloaded", timely, NEW i \in CPUs
        PROVE  pc[i] = "out" /\ vec[i] = <<>> /\ list[i] = <<>>
    <3>1. Killed = Tl
      BY <2>2 DEF Killed
    <3>2. sched = {} /\ run = {}
      BY <2>2, <3>1 DEF SoftirqInv, KillOrder, TypeOK
    <3>3. pc[i] = "out"
      BY <3>2 DEF SoftirqInv, RunHeld
    <3>4. Range(vec[i]) = {} /\ Range(list[i]) = {}
      BY <3>2 DEF SoftirqInv, Queues, Holding
    <3>5. vec[i] \in Seq(Tl) /\ list[i] \in Seq(Tl)
      BY DEF SoftirqInv, TypeOK
    <3> QED BY <3>3, <3>4, <3>5, RangeEmpty
  <2> QED BY <2>1, <2>2 DEF SerialInv, UnloadSafe
<1> QED BY <1>1, SoftirqInvariant, PTL
=============================================================================
