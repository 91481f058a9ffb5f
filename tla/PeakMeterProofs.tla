--------------------------- MODULE PeakMeterProofs ---------------------------
(***************************************************************************)
(* Proofs about the concurrency meter of softirq_par.c and wq_probe.c for  *)
(* every finite set of threads.                                            *)
(***************************************************************************)
EXTENDS PeakMeter, FiniteSetTheorems, TLAPS

\* The set of threads inside the callback is finite, so it can be counted.
LEMMA InsideFinite == IsFiniteSet(Inside)
  BY ThreadsFinite, FS_Subset DEF Inside

\* Entering adds one thread to those inside, leaving removes one, and the
\* steps of the compare-and-exchange loop leave the count alone.
LEMMA InsideCount ==
  ASSUME TypeOK, NEW t \in Threads
  PROVE  /\ IncReturn(t) => Cardinality(Inside') = Cardinality(Inside) + 1
         /\ Dec(t) => /\ Cardinality(Inside') = Cardinality(Inside) - 1
                      /\ Cardinality(Inside) > 0
         /\ ReadMax(t) \/ CmpXchg(t) => Inside' = Inside
<1>1. ASSUME IncReturn(t)
      PROVE  Cardinality(Inside') = Cardinality(Inside) + 1
  <2>1. Inside' = Inside \cup {t} /\ t \notin Inside
    BY <1>1 DEF IncReturn, Inside, TypeOK
  <2> QED BY <2>1, InsideFinite, FS_AddElement
<1>2. ASSUME Dec(t)
      PROVE  /\ Cardinality(Inside') = Cardinality(Inside) - 1
             /\ Cardinality(Inside) > 0
  <2>1. Inside' = Inside \ {t} /\ t \in Inside
    BY <1>2 DEF Dec, Inside, TypeOK
  <2>2. Cardinality(Inside) \in Nat /\ Cardinality(Inside') \in Nat
    BY <2>1, InsideFinite, FS_CardinalityType, FS_RemoveElement
  <2>3. Cardinality(Inside') = Cardinality(Inside) - 1
    BY <2>1, InsideFinite, FS_RemoveElement
  <2> QED BY <2>2, <2>3
<1>3. ReadMax(t) \/ CmpXchg(t) => Inside' = Inside
  BY DEF ReadMax, CmpXchg, Inside, TypeOK
<1> QED BY <1>1, <1>2, <1>3

\* The initial state satisfies the invariant: nobody is inside, nothing peaked.
LEMMA InitIInv == Init => IInv
<1> SUFFICES ASSUME Init PROVE IInv
  OBVIOUS
<1>1. TypeOK /\ Owed
  BY DEF Init, TypeOK, Owed, Locations
<1>2. Inside = {}
  BY DEF Init, Inside
<1>3. CurCountsInside
  BY <1>2, FS_EmptySet DEF Init, CurCountsInside
<1> QED BY <1>1, <1>3 DEF IInv

\* Every atomic operation of bump() and of the callback's exit preserves the
\* inductive invariant.
LEMMA NextIInv == IInv /\ [Next]_vars => IInv'
<1> SUFFICES ASSUME IInv, [Next]_vars PROVE IInv'
  OBVIOUS
<1> USE DEF Locations
<1>1. ASSUME NEW t \in Threads, IncReturn(t) PROVE IInv'
  <2>1. TypeOK'
    BY <1>1 DEF IncReturn, IInv, TypeOK, Larger
  <2>2. CurCountsInside'
    BY <1>1, InsideCount DEF IncReturn, IInv, CurCountsInside
  <2>3. Owed'
    BY <1>1 DEF IncReturn, IInv, TypeOK, Owed, Larger
  <2> QED BY <2>1, <2>2, <2>3 DEF IInv
<1>2. ASSUME NEW t \in Threads, ReadMax(t) PROVE IInv'
  <2>1. TypeOK'
    BY <1>2 DEF ReadMax, IInv, TypeOK
  <2>2. CurCountsInside'
    BY <1>2, InsideCount DEF ReadMax, IInv, CurCountsInside
  <2>3. Owed'
    BY <1>2 DEF ReadMax, IInv, TypeOK, Owed
  <2> QED BY <2>1, <2>2, <2>3 DEF IInv
<1>3. ASSUME NEW t \in Threads, CmpXchg(t) PROVE IInv'
  <2>1. TypeOK'
    BY <1>3 DEF CmpXchg, IInv, TypeOK
  <2>2. CurCountsInside'
    BY <1>3, InsideCount DEF CmpXchg, IInv, CurCountsInside
  <2>3. Owed'
    BY <1>3 DEF CmpXchg, IInv, TypeOK, Owed
  <2> QED BY <2>1, <2>2, <2>3 DEF IInv
<1>4. ASSUME NEW t \in Threads, Dec(t) PROVE IInv'
  <2>1. cur > 0
    BY <1>4, InsideCount DEF IInv, CurCountsInside
  <2>2. TypeOK'
    BY <1>4, <2>1 DEF Dec, IInv, TypeOK
  <2>3. CurCountsInside'
    BY <1>4, InsideCount DEF Dec, IInv, CurCountsInside
  <2>4. Owed'
    BY <1>4 DEF Dec, IInv, TypeOK, Owed
  <2> QED BY <2>2, <2>3, <2>4 DEF IInv
<1>5. CASE UNCHANGED vars
  BY <1>5 DEF vars, IInv, TypeOK, CurCountsInside, Inside, Owed
<1> QED BY <1>1, <1>2, <1>3, <1>4, <1>5 DEF Next

\* The meter's state is well typed, cur counts the threads inside, and any
\* unrecorded peak is still owed, for every finite set of threads.
THEOREM MeterInvariant == Spec => []IInv
  BY InitIInv, NextIInv, PTL DEF Spec

\* maxcur is exact whenever no thread is inside bump(), for every finite set
\* of CPUs or kworkers.
THEOREM MeterExact == Spec => []PeakExact
<1>1. IInv => PeakExact
  BY DEF IInv, TypeOK, Owed, PeakExact
<1> QED BY <1>1, MeterInvariant, PTL

\* maxcur never decreases, however the read / compare-and-exchange loops of
\* the threads interleave.
THEOREM MeterMonotone == Spec => MaxNeverDrops
<1>1. IInv /\ [Next]_vars => [maxcur' >= maxcur]_vars
  <2> SUFFICES ASSUME IInv, [Next]_vars PROVE maxcur' >= maxcur
    OBVIOUS
  <2>1. ASSUME NEW t \in Threads, CmpXchg(t) PROVE maxcur' >= maxcur
    BY <2>1 DEF CmpXchg, IInv, TypeOK, Owed
  <2>2. ASSUME NEW t \in Threads, IncReturn(t) \/ ReadMax(t) \/ Dec(t)
        PROVE  maxcur' >= maxcur
    BY <2>2 DEF IncReturn, ReadMax, Dec, IInv, TypeOK
  <2>3. CASE UNCHANGED vars
    BY <2>3 DEF vars, IInv, TypeOK
  <2> QED BY <2>1, <2>2, <2>3 DEF Next
<1> QED BY <1>1, MeterInvariant, PTL DEF Spec, MaxNeverDrops
=============================================================================
