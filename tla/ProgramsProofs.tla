--------------------------- MODULE ProgramsProofs ---------------------------
(***************************************************************************)
(* Proofs about the user-space programs, for every value of the constants. *)
(*   barrier_sb.c, barrier_mp.c: a barrier forbids the outcome the two     *)
(*     tests look for, for every number of slots, rounds and iterations    *)
(*   rkspy.c: for every number of threads, objects, table entries and      *)
(*     driver names, the table and what is decoded from it are exact while *)
(*     no two MEM_CREATE calls overlap                                     *)
(*   the programs that count children, threads and faults (wake_cpu.c and  *)
(*     its like, lse_bench.c, heat.c, membw.c, fault_types.c and           *)
(*     concurrent_fault.c): the counts are those of what happened          *)
(*   wbtest.c: for every number of scenarios and any set of properties that*)
(*     may be missing, the kernel reads the request the code built, saved  *)
(*     pictures are captured ones, and the screen is left off              *)
(***************************************************************************)
EXTENDS Programs, FiniteSetTheorems, ProofLemmas

-----------------------------------------------------------------------------
\* A step of the whole is a step of each part, or leaves its variables alone.
LEMMA PartSteps ==
  ASSUME [Next]_vars
  PROVE  /\ [Lit!Next]_(Lit!vars)
         /\ [Spy!Next]_(Spy!vars)
         /\ [Fork!Next]_(Fork!vars)
         /\ [Thr!Next]_(Thr!vars)
         /\ [Flt!Next]_(Flt!vars)
         /\ [Wb!Next]_(Wb!vars)
<1> USE DEF litVars, spyVars, forkVars, thrVars, fltVars, wbVars, Lit!vars, Lit!score, Spy!vars,
            Fork!vars, Thr!vars, Flt!vars, Flt!proc, Flt!maps, Flt!counts,
            Flt!conc, Wb!vars
<1>1. CASE LitNext
  BY <1>1 DEF LitNext
<1>2. CASE SpyNext
  BY <1>2 DEF SpyNext
<1>3. CASE WbNext
  BY <1>3 DEF WbNext
<1>4. CASE ForkNext
  BY <1>4 DEF ForkNext
<1>5. CASE ThrNext
  BY <1>5 DEF ThrNext
<1>6. CASE FltNext
  BY <1>6 DEF FltNext
<1>7. CASE UNCHANGED vars
  BY <1>7 DEF vars
<1> QED BY <1>1, <1>2, <1>3, <1>4, <1>5, <1>6, <1>7 DEF Next

\* The instances count with the operator of FiniteSets.
LEMMA LitCount == \A S : Lit!Cardinality(S) = Cardinality(S)
BY DEF Lit!Cardinality, Cardinality

LEMMA SpyCount == \A S : Spy!Cardinality(S) = Cardinality(S)
BY DEF Spy!Cardinality, Cardinality

LEMMA ForkCount == \A S : Fork!Cardinality(S) = Cardinality(S)
BY DEF Fork!Cardinality, Cardinality

LEMMA ThrCount == \A S : Thr!Cardinality(S) = Cardinality(S)
BY DEF Thr!Cardinality, Cardinality

LEMMA FltCount ==
  /\ \A S : Flt!Cardinality(S) = Cardinality(S)
  /\ \A S : Flt!IsFiniteSet(S) <=> IsFiniteSet(S)
<1>1. \A S : Flt!Cardinality(S) = Cardinality(S)
  BY DEF Flt!Cardinality, Cardinality
<1>2. \A S : Flt!IsFiniteSet(S) <=> IsFiniteSet(S)
  BY DEF Flt!IsFiniteSet, IsFiniteSet
<1> QED BY <1>1, <1>2

\* wbtest.c's also adds up with that of Sums and reads lists with that of Functions.
LEMMA WbSum == \A f, m : Wb!Sum(f, m) = Sum(f, m)
BY DEF Wb!Sum, Sum

LEMMA WbCount == \A S : Wb!Cardinality(S) = Cardinality(S)
BY DEF Wb!Cardinality, Cardinality

LEMMA WbRange == \A s : Wb!Range(s) = Range(s)
BY DEF Wb!Range, Range

-----------------------------------------------------------------------------
(* barrier_sb.c and barrier_mp.c.                                          *)

\* The accesses of a store buffering slot, and what comes before its load.
LEMMA SbOps ==
  ASSUME Lit!Sizes, litTest = "sb", litMode \in 0..2, NEW t \in Lit!T, NEW op \in Lit!Ops(t)
  PROVE  /\ op \in Lit!Accesses
         /\ \E i \in Lit!Slots : /\ op = <<"store", i>> \/ op = <<"load", i>>
                                 /\ litMode # 0 /\ op = <<"load", i>> => <<"store", i>> \in Lit!Before(t, op)
<1>1. Lit!Ops(t) = {"store", "load"} \X Lit!Slots
  BY DEF Lit!Ops
<1>2. PICK i \in Lit!Slots : op = <<"store", i>> \/ op = <<"load", i>>
  BY <1>1
<1>3. op \in Lit!Accesses
  BY <1>2 DEF Lit!Accesses, Lit!Slots, Lit!Sizes
<1>4. ASSUME litMode # 0, op = <<"load", i>> PROVE <<"store", i>> \in Lit!Before(t, op)
  <2>1. op[1] = "load" /\ op[2] = i
    BY <1>4
  <2>2. <<"store", i>> \in Lit!Ops(t) /\ <<"store", i>>[1] = "store" /\ <<"store", i>>[2] = i
    BY <1>1
  <2>3. CASE litMode = 1
    BY <2>1, <2>3 DEF Lit!Before, Lit!SbBefore
  <2>4. CASE litMode = 2
    BY <2>1, <2>2, <2>4 DEF Lit!Before, Lit!SbBefore
  <2> QED BY <1>4, <2>3, <2>4
<1> QED BY <1>2, <1>3, <1>4

\* The accesses of message passing, and what comes before each of them.
LEMMA WriterOps ==
  ASSUME Lit!Sizes, litTest = "mp", litMode \in 0..2, NEW op \in Lit!Ops(0)
  PROVE  /\ op \in Lit!Accesses
         /\ op = <<"wait", 0>> \/ op = <<"data", 0>> \/ op = <<"flag", 0>>
         /\ op # <<"wait", 0>> => <<"wait", 0>> \in Lit!Before(0, op)
         /\ litMode # 0 /\ op = <<"flag", 0>> => <<"data", 0>> \in Lit!Before(0, op)
<1>1. Lit!Ops(0) = {"wait", "data", "flag"} \X {0}
  BY DEF Lit!Ops
<1>2. op = <<"wait", 0>> \/ op = <<"data", 0>> \/ op = <<"flag", 0>>
  BY <1>1
<1>3. op \in Lit!Accesses
  BY <1>2 DEF Lit!Accesses, Lit!Sizes
<1>4. op = <<"data", 0>> => <<"wait", 0>> \in Lit!Before(0, op)
  BY DEF Lit!Before, Lit!WriterBefore
<1>5. op = <<"flag", 0>> => /\ <<"wait", 0>> \in Lit!Before(0, op)
                            /\ litMode # 0 => <<"data", 0>> \in Lit!Before(0, op)
  BY DEF Lit!Before, Lit!WriterBefore
<1> QED BY <1>2, <1>3, <1>4, <1>5

\* The reader looks at the flag before the data, then clears it and answers.
LEMMA ReaderOps ==
  ASSUME Lit!Sizes, litTest = "mp", litMode \in 0..2, NEW op \in Lit!Ops(1)
  PROVE  /\ op \in Lit!Accesses
         /\ op = <<"flag", 0>> \/ op = <<"data", 0>> \/ op = <<"clear", 0>> \/ op = <<"ack", 0>>
         /\ litMode # 0 /\ op = <<"data", 0>> => <<"flag", 0>> \in Lit!Before(1, op)
         /\ op = <<"clear", 0>> => <<"data", 0>> \in Lit!Before(1, op)
         /\ op = <<"ack", 0>> => <<"clear", 0>> \in Lit!Before(1, op)
<1>1. Lit!Ops(1) = {"flag", "data", "clear", "ack"} \X {0}
  BY DEF Lit!Ops
<1>2. op = <<"flag", 0>> \/ op = <<"data", 0>> \/ op = <<"clear", 0>> \/ op = <<"ack", 0>>
  BY <1>1
<1>3. op \in Lit!Accesses
  BY <1>2 DEF Lit!Accesses, Lit!Sizes
<1>4. litMode # 0 /\ op = <<"data", 0>> => <<"flag", 0>> \in Lit!Before(1, op)
  BY DEF Lit!Before, Lit!ReaderBefore
<1>5. op = <<"clear", 0>> => <<"data", 0>> \in Lit!Before(1, op)
  BY DEF Lit!Before, Lit!ReaderBefore
<1>6. op = <<"ack", 0>> => <<"clear", 0>> \in Lit!Before(1, op)
  BY DEF Lit!Before, Lit!ReaderBefore
<1> QED BY <1>2, <1>3, <1>4, <1>5, <1>6

-----------------------------------------------------------------------------
(* The threads' accesses.                                                  *)

\* What Runs() does to ex, and what it leaves alone.
LEMMA RunsStep ==
  ASSUME Lit!TypeOK, NEW t \in Lit!T, NEW op, op \in Lit!Accesses, Lit!Runs(t, op)
  PROVE  /\ litTh[t] = "run" /\ op \notin litEx[t] /\ Lit!Before(t, op) \subseteq litEx[t]
         /\ litEx' \in [Lit!T -> SUBSET Lit!Accesses] /\ litEx'[t] = litEx[t] \cup {op}
         /\ \A u \in Lit!T : u # t => litEx'[u] = litEx[u]
         /\ UNCHANGED <<litTest, litMode, litPc, litRound, litTh, litGo, litIt, litN00, litCounted, litFailed>>
  BY DEF Lit!Runs, Lit!TypeOK

\* The locations.
LEMMA Places ==
  ASSUME Lit!Sizes
  PROVE  /\ Lit!Data \in Lit!Locs /\ Lit!Flag \in Lit!Locs /\ Lit!Data # Lit!Flag /\ 0 \in 0..LitN
         /\ \A i \in Lit!Slots : /\ i \in 0..LitN /\ <<"x", i>> \in Lit!Locs /\ <<"y", i>> \in Lit!Locs
  BY DEF Lit!Sizes, Lit!Slots, Lit!Locs, Lit!Data, Lit!Flag

\* barrier_sb, a store: the own location is 1 from now on.
LEMMA SbStore ==
  ASSUME Lit!Sizes, Lit!LitmusInv, NEW t \in Lit!T, NEW i \in Lit!Slots, Lit!SbAccess(t, <<"store", i>>)
  PROVE  Lit!LitmusInv'
<1>0. Lit!TypeOK /\ Lit!SbOrder /\ Lit!Handshake /\ Lit!Counted /\ litTest = "sb" /\ litMode \in 0..2
  BY DEF Lit!LitmusInv, Lit!SbAccess, Lit!TypeOK
<1> DEFINE op == <<"store", i>>
           own == <<IF t = 0 THEN "x" ELSE "y", i>>
<1>1. op \in Lit!Accesses /\ own \in Lit!Locs /\ Lit!T = {0, 1}
  BY Places DEF Lit!Accesses, Lit!Slots, Lit!T, Lit!Sizes
<1>2. /\ litEx' \in [Lit!T -> SUBSET Lit!Accesses] /\ litEx'[t] = litEx[t] \cup {op}
      /\ \A u \in Lit!T : u # t => litEx'[u] = litEx[u]
      /\ UNCHANGED <<litTest, litMode, litPc, litRound, litTh, litGo, litIt, litN00, litCounted, litFailed>>
  BY <1>0, <1>1, RunsStep DEF Lit!SbAccess
<1>3. litMem' = [litMem EXCEPT ![own] = 1] /\ UNCHANGED <<litReg, litObserved, litViolations>>
  BY DEF Lit!SbAccess
<1>4. litMem' \in [Lit!Locs -> Nat]
  BY <1>0, <1>1, <1>3 DEF Lit!TypeOK
<1>5. Lit!TypeOK'
  BY <1>0, <1>2, <1>3, <1>4 DEF Lit!TypeOK
<1>6. ASSUME litMode # 0, NEW k \in Lit!Slots
      PROVE  /\ \A u \in Lit!T : Lit!Did(u, "load", k)' => Lit!Did(u, "store", k)'
             /\ Lit!Did(0, "store", k)' => litMem'[<<"x", k>>] = 1
             /\ Lit!Did(1, "store", k)' => litMem'[<<"y", k>>] = 1
             /\ Lit!Did(0, "load", k)' /\ Lit!Did(1, "load", k)' => litReg'[0][k] # 0 \/ litReg'[1][k] # 0
  <2>1. /\ \A u \in Lit!T : Lit!Did(u, "load", k) => Lit!Did(u, "store", k)
        /\ Lit!Did(0, "store", k) => litMem[<<"x", k>>] = 1
        /\ Lit!Did(1, "store", k) => litMem[<<"y", k>>] = 1
        /\ Lit!Did(0, "load", k) /\ Lit!Did(1, "load", k) => litReg[0][k] # 0 \/ litReg[1][k] # 0
    BY <1>0, <1>6 DEF Lit!SbOrder
  <2>2. \A u \in Lit!T : /\ Lit!Did(u, "load", k)' <=> Lit!Did(u, "load", k)
                         /\ Lit!Did(u, "store", k)' <=> Lit!Did(u, "store", k) \/ (u = t /\ k = i)
    BY <1>2 DEF Lit!Did
  <2>3. <<"x", k>> \in Lit!Locs /\ <<"y", k>> \in Lit!Locs
    BY Places
  <2>4. 0 \in Lit!T /\ 1 \in Lit!T /\ (t = 0 \/ t = 1)
    BY DEF Lit!T
  <2>5. Lit!Did(0, "store", k)' => litMem'[<<"x", k>>] = 1
    BY <1>0, <1>3, <2>1, <2>2, <2>3, <2>4 DEF Lit!TypeOK
  <2>6. Lit!Did(1, "store", k)' => litMem'[<<"y", k>>] = 1
    BY <1>0, <1>3, <2>1, <2>2, <2>3, <2>4 DEF Lit!TypeOK
  <2> QED BY <1>3, <2>1, <2>2, <2>4, <2>5, <2>6
<1>7. Lit!SbOrder'
  BY <1>2, <1>6 DEF Lit!SbOrder
<1>8. Lit!Handshake'
  BY <1>0, <1>2 DEF Lit!Handshake, Lit!Arrived
<1>9. Lit!MpOrder'
  BY <1>0, <1>2 DEF Lit!MpOrder
<1>10. Lit!Counted'
  BY <1>0, <1>2, <1>3 DEF Lit!Counted
<1> QED BY <1>5, <1>7, <1>8, <1>9, <1>10 DEF Lit!LitmusInv

\* barrier_sb, a load: when the other thread has loaded before, it has stored
\* before, and that store is found.
LEMMA SbLoad ==
  ASSUME Lit!Sizes, Lit!LitmusInv, NEW t \in Lit!T, NEW i \in Lit!Slots, Lit!SbAccess(t, <<"load", i>>),
         <<"load", i>> \in Lit!Ops(t)
  PROVE  Lit!LitmusInv'
<1>0. Lit!TypeOK /\ Lit!SbOrder /\ Lit!Handshake /\ Lit!Counted /\ litTest = "sb" /\ litMode \in 0..2
  BY DEF Lit!LitmusInv, Lit!SbAccess, Lit!TypeOK
<1> DEFINE op == <<"load", i>>
           other == <<IF t = 0 THEN "y" ELSE "x", i>>
<1>1. op \in Lit!Accesses /\ other \in Lit!Locs /\ Lit!T = {0, 1} /\ i \in 0..LitN
  BY Places DEF Lit!Accesses, Lit!Slots, Lit!T, Lit!Sizes
<1>2. /\ litEx' \in [Lit!T -> SUBSET Lit!Accesses] /\ litEx'[t] = litEx[t] \cup {op}
      /\ \A u \in Lit!T : u # t => litEx'[u] = litEx[u]
      /\ Lit!Before(t, op) \subseteq litEx[t]
      /\ UNCHANGED <<litTest, litMode, litPc, litRound, litTh, litGo, litIt, litN00, litCounted, litFailed>>
  BY <1>0, <1>1, RunsStep DEF Lit!SbAccess
<1>3. litReg' = [litReg EXCEPT ![t][i] = litMem[other]] /\ UNCHANGED <<litMem, litObserved, litViolations>>
  BY DEF Lit!SbAccess
<1>4. litReg' \in [Lit!T -> [0..LitN -> Nat]]
  BY <1>0, <1>1, <1>3 DEF Lit!TypeOK
<1>5. Lit!TypeOK'
  BY <1>0, <1>2, <1>3, <1>4 DEF Lit!TypeOK
<1>6. litMode # 0 => Lit!Did(t, "store", i)
  BY <1>0, <1>2, SbOps DEF Lit!Did
<1>7. ASSUME litMode # 0, NEW k \in Lit!Slots
      PROVE  /\ \A u \in Lit!T : Lit!Did(u, "load", k)' => Lit!Did(u, "store", k)'
             /\ Lit!Did(0, "store", k)' => litMem'[<<"x", k>>] = 1
             /\ Lit!Did(1, "store", k)' => litMem'[<<"y", k>>] = 1
             /\ Lit!Did(0, "load", k)' /\ Lit!Did(1, "load", k)' => litReg'[0][k] # 0 \/ litReg'[1][k] # 0
  <2>1. /\ \A u \in Lit!T : Lit!Did(u, "load", k) => Lit!Did(u, "store", k)
        /\ Lit!Did(0, "store", k) => litMem[<<"x", k>>] = 1
        /\ Lit!Did(1, "store", k) => litMem[<<"y", k>>] = 1
        /\ Lit!Did(0, "load", k) /\ Lit!Did(1, "load", k) => litReg[0][k] # 0 \/ litReg[1][k] # 0
    BY <1>0, <1>7 DEF Lit!SbOrder
  <2>2. \A u \in Lit!T : /\ Lit!Did(u, "store", k)' <=> Lit!Did(u, "store", k)
                         /\ Lit!Did(u, "load", k)' <=> Lit!Did(u, "load", k) \/ (u = t /\ k = i)
    BY <1>2 DEF Lit!Did
  <2>3. 0 \in Lit!T /\ 1 \in Lit!T /\ (t = 0 \/ t = 1) /\ k \in 0..LitN
    BY Places DEF Lit!T
  <2>4. \A u \in Lit!T : Lit!Did(u, "load", k)' => Lit!Did(u, "store", k)'
    BY <1>6, <1>7, <2>1, <2>2
  <2>5. CASE k # i
    <3>1. litReg'[0][k] = litReg[0][k] /\ litReg'[1][k] = litReg[1][k]
      BY <1>0, <1>3, <2>3, <2>5 DEF Lit!TypeOK
    <3> QED BY <1>3, <2>1, <2>2, <2>3, <2>4, <2>5, <3>1
  <2>6. CASE k = i /\ t = 0
    <3>1. litReg'[0][k] = litMem[<<"y", k>>]
      <4>1. other = <<"y", k>>
        BY <2>6
      <4>2. litReg'[t][i] = litMem[other]
        BY <1>0, <1>1, <1>3 DEF Lit!TypeOK
      <4> QED BY <2>6, <4>1, <4>2
    <3>2. Lit!Did(1, "load", k)' => litMem[<<"y", k>>] = 1
      BY <2>1, <2>2, <2>3, <2>6
    <3> QED BY <1>3, <2>1, <2>2, <2>3, <2>4, <3>1, <3>2
  <2>7. CASE k = i /\ t = 1
    <3>1. litReg'[1][k] = litMem[<<"x", k>>]
      <4>1. other = <<"x", k>>
        BY <2>7
      <4>2. litReg'[t][i] = litMem[other]
        BY <1>0, <1>1, <1>3 DEF Lit!TypeOK
      <4> QED BY <2>7, <4>1, <4>2
    <3>2. Lit!Did(0, "load", k)' => litMem[<<"x", k>>] = 1
      BY <2>1, <2>2, <2>3, <2>7
    <3> QED BY <1>3, <2>1, <2>2, <2>3, <2>4, <3>1, <3>2
  <2> QED BY <2>3, <2>5, <2>6, <2>7
<1>8. Lit!SbOrder'
  BY <1>2, <1>7 DEF Lit!SbOrder
<1>9. Lit!Handshake'
  BY <1>0, <1>2 DEF Lit!Handshake, Lit!Arrived
<1>10. Lit!MpOrder'
  BY <1>0, <1>2 DEF Lit!MpOrder
<1>11. Lit!Counted'
  BY <1>0, <1>2, <1>3 DEF Lit!Counted
<1> QED BY <1>5, <1>8, <1>9, <1>10, <1>11 DEF Lit!LitmusInv

\* What one step of a message passing thread leaves alone.
Untouched == UNCHANGED <<litTest, litMode, litPc, litRound, litTh, litGo, litIt, litN00, litCounted, litFailed>>

\* writer() of barrier_mp: the flag follows the data.
LEMMA WriterStep ==
  ASSUME Lit!Sizes, Lit!LitmusInv, NEW op \in Lit!Ops(0), Lit!MpWrite(op)
  PROVE  Lit!LitmusInv'
<1>0. Lit!TypeOK /\ Lit!MpOrder /\ Lit!Counted /\ litTest = "mp" /\ litMode \in 0..2 /\ 0 \in Lit!T /\
        1 \in Lit!T
  BY DEF Lit!LitmusInv, Lit!MpWrite, Lit!TypeOK, Lit!T
<1>1. /\ op \in Lit!Accesses
      /\ op = <<"wait", 0>> \/ op = <<"data", 0>> \/ op = <<"flag", 0>>
      /\ op # <<"wait", 0>> => <<"wait", 0>> \in Lit!Before(0, op)
      /\ litMode # 0 /\ op = <<"flag", 0>> => <<"data", 0>> \in Lit!Before(0, op)
  BY <1>0, WriterOps
<1>2. /\ op \notin litEx[0] /\ Lit!Before(0, op) \subseteq litEx[0]
      /\ litEx' \in [Lit!T -> SUBSET Lit!Accesses] /\ litEx'[0] = litEx[0] \cup {op} /\ litEx'[1] = litEx[1]
      /\ Untouched
  BY <1>0, <1>1, RunsStep DEF Lit!MpWrite, Untouched
<1>3. /\ op = <<"wait", 0>> => litMem[Lit!Flag] = 0 /\ litMem' = litMem
      /\ op = <<"data", 0>> => litMem' = [litMem EXCEPT ![Lit!Data] = 42]
      /\ op = <<"flag", 0>> => litMem' = [litMem EXCEPT ![Lit!Flag] = 1]
      /\ UNCHANGED <<litReg, litObserved, litViolations>>
  BY DEF Lit!MpWrite
<1>4. litMem' \in [Lit!Locs -> Nat]
  BY <1>0, <1>1, <1>3, Places DEF Lit!TypeOK
<1>5. Lit!TypeOK'
  BY <1>0, <1>2, <1>3, <1>4 DEF Lit!TypeOK, Untouched
<1>6. Lit!MpOrder'
  <2> SUFFICES ASSUME litMode # 0 PROVE Lit!MpOrder'
    BY <1>2 DEF Lit!MpOrder, Untouched
  <2>1. \A w \in {"flag", "data", "clear", "ack"} : Lit!Read(w)' <=> Lit!Read(w)
    BY <1>2 DEF Lit!Read
  <2>2. CASE op = <<"wait", 0>>
    <3>1. Lit!Wrote("wait")' /\ (Lit!Wrote("data")' <=> Lit!Wrote("data")) /\
            (Lit!Wrote("flag")' <=> Lit!Wrote("flag"))
      BY <1>2, <2>2 DEF Lit!Wrote
    <3> QED BY <1>0, <1>2, <1>3, <2>1, <2>2, <3>1 DEF Lit!MpOrder, Untouched
  <2>3. CASE op = <<"data", 0>>
    <3>1. /\ Lit!Wrote("wait") /\ ~Lit!Wrote("data")
          /\ Lit!Wrote("wait")' /\ Lit!Wrote("data")' /\ (Lit!Wrote("flag")' <=> Lit!Wrote("flag"))
      BY <1>1, <1>2, <2>3 DEF Lit!Wrote
    <3>2. ~Lit!Wrote("flag") /\ litMem[Lit!Flag] = 0
      BY <1>0, <3>1 DEF Lit!MpOrder
    <3>3. litMem'[Lit!Flag] = litMem[Lit!Flag] /\ litMem'[Lit!Data] = 42
      BY <1>0, <1>3, <2>3, Places DEF Lit!TypeOK
    <3> QED BY <1>0, <1>2, <1>3, <2>1, <3>1, <3>2, <3>3 DEF Lit!MpOrder, Untouched
  <2>4. CASE op = <<"flag", 0>>
    <3>1. /\ Lit!Wrote("wait") /\ Lit!Wrote("data") /\ ~Lit!Wrote("flag")
          /\ Lit!Wrote("wait")' /\ Lit!Wrote("data")' /\ Lit!Wrote("flag")'
      BY <1>1, <1>2, <2>4 DEF Lit!Wrote
    <3>2. litMem[Lit!Flag] = 0 /\ litMem[Lit!Data] = 42
      BY <1>0, <3>1 DEF Lit!MpOrder
    <3>3. litMem'[Lit!Flag] = 1 /\ litMem'[Lit!Data] = 42
      BY <1>0, <1>3, <2>4, <3>2, Places DEF Lit!TypeOK
    <3>4. ~(Lit!Read("flag") /\ ~Lit!Read("ack"))
      BY <1>0, <3>2 DEF Lit!MpOrder
    <3> QED BY <1>0, <1>2, <1>3, <2>1, <3>1, <3>3, <3>4 DEF Lit!MpOrder, Untouched
  <2> QED BY <1>1, <2>2, <2>3, <2>4
<1>7. Lit!SbOrder' /\ Lit!Handshake'
  BY <1>0, <1>2 DEF Lit!SbOrder, Lit!Handshake, Untouched
<1>8. Lit!Counted'
  BY <1>0, <1>2, <1>3 DEF Lit!Counted, Untouched, Lit!Read
<1> QED BY <1>5, <1>6, <1>7, <1>8 DEF Lit!LitmusInv

\* reader() of barrier_mp: the data is loaded after the flag was seen, judged,
\* and given back with the flag.
LEMMA ReaderStep ==
  ASSUME Lit!Sizes, Lit!LitmusInv, NEW op \in Lit!Ops(1), Lit!MpRead(op)
  PROVE  Lit!LitmusInv'
<1>0. Lit!TypeOK /\ Lit!MpOrder /\ Lit!Counted /\ litTest = "mp" /\ litMode \in 0..2 /\ 0 \in Lit!T /\
        1 \in Lit!T
  BY DEF Lit!LitmusInv, Lit!MpRead, Lit!TypeOK, Lit!T
<1>1. /\ op \in Lit!Accesses
      /\ op = <<"flag", 0>> \/ op = <<"data", 0>> \/ op = <<"clear", 0>> \/ op = <<"ack", 0>>
      /\ litMode # 0 /\ op = <<"data", 0>> => <<"flag", 0>> \in Lit!Before(1, op)
      /\ op = <<"clear", 0>> => <<"data", 0>> \in Lit!Before(1, op)
      /\ op = <<"ack", 0>> => <<"clear", 0>> \in Lit!Before(1, op)
  BY <1>0, ReaderOps
<1>2. /\ litTh[1] = "run" /\ op \notin litEx[1] /\ Lit!Before(1, op) \subseteq litEx[1]
      /\ litEx' \in [Lit!T -> SUBSET Lit!Accesses] /\ litEx'[1] = litEx[1] \cup {op} /\ litEx'[0] = litEx[0]
      /\ Untouched
  BY <1>0, <1>1, RunsStep DEF Lit!MpRead, Untouched
<1>3. /\ op = <<"flag", 0>> => litMem[Lit!Flag] = 1 /\ UNCHANGED <<litMem, litReg, litObserved, litViolations>>
      /\ op = <<"data", 0>> => /\ litReg' = [litReg EXCEPT ![1][0] = litMem[Lit!Data]]
                               /\ UNCHANGED <<litMem, litObserved, litViolations>>
      /\ op = <<"clear", 0>> => /\ litMem' = [litMem EXCEPT ![Lit!Data] = 0] /\ litReg' = litReg
                                /\ litObserved' = litObserved + 1
                                /\ litReg[1][0] = 42 => litViolations' = litViolations
                                /\ litViolations' \in {litViolations, litViolations + 1}
      /\ op = <<"ack", 0>> => /\ litMem' = [litMem EXCEPT ![Lit!Flag] = 0]
                              /\ UNCHANGED <<litReg, litObserved, litViolations>>
  BY DEF Lit!MpRead
<1>4. litMem' \in [Lit!Locs -> Nat] /\ litObserved' \in Nat /\ litViolations' \in Nat
  <2>1. CASE op = <<"flag", 0>> \/ op = <<"data", 0>>
    BY <1>0, <1>3, <2>1 DEF Lit!TypeOK
  <2>2. CASE op = <<"clear", 0>>
    <3>1. litMem' \in [Lit!Locs -> Nat]
      <4>1. litMem' = [litMem EXCEPT ![Lit!Data] = 0]
        BY <1>3, <2>2
      <4> QED BY <1>0, <4>1 DEF Lit!TypeOK
    <3>2. litObserved' \in Nat /\ litViolations' \in Nat
      BY <1>0, <1>3, <2>2 DEF Lit!TypeOK
    <3> QED BY <3>1, <3>2
  <2>3. CASE op = <<"ack", 0>>
    BY <1>0, <1>3, <2>3 DEF Lit!TypeOK
  <2> QED BY <1>1, <2>1, <2>2, <2>3
<1>5. litReg' \in [Lit!T -> [0..LitN -> Nat]]
  <2>1. litMem[Lit!Data] \in Nat /\ 0 \in 0..LitN
    BY <1>0, Places DEF Lit!TypeOK
  <2>2. CASE op = <<"data", 0>>
    <3>1. litReg' = [litReg EXCEPT ![1] = [litReg[1] EXCEPT ![0] = litMem[Lit!Data]]]
      BY <1>0, <1>3, <2>2 DEF Lit!TypeOK
    <3>2. [litReg[1] EXCEPT ![0] = litMem[Lit!Data]] \in [0..LitN -> Nat]
      BY <1>0, <2>1 DEF Lit!TypeOK
    <3> QED BY <1>0, <3>1, <3>2 DEF Lit!TypeOK
  <2>3. CASE op # <<"data", 0>>
    BY <1>0, <1>1, <1>3, <2>3 DEF Lit!TypeOK
  <2> QED BY <2>2, <2>3
<1>6. Lit!TypeOK'
  BY <1>0, <1>2, <1>4, <1>5 DEF Lit!TypeOK, Untouched
<1>7. ASSUME litMode # 0 PROVE Lit!MpOrder' /\ litViolations' = litViolations
  <2>1. \A w \in {"wait", "data", "flag"} : Lit!Wrote(w)' <=> Lit!Wrote(w)
    BY <1>2 DEF Lit!Wrote
  <2>2. CASE op = <<"flag", 0>>
    <3>1. /\ ~Lit!Read("flag") /\ Lit!Read("flag")' /\ (Lit!Read("data")' <=> Lit!Read("data"))
          /\ (Lit!Read("clear")' <=> Lit!Read("clear")) /\ (Lit!Read("ack")' <=> Lit!Read("ack"))
      BY <1>2, <2>2 DEF Lit!Read
    <3> QED BY <1>0, <1>2, <1>3, <1>7, <2>1, <2>2, <3>1 DEF Lit!MpOrder, Untouched
  <2>3. CASE op = <<"data", 0>>
    <3>1. /\ Lit!Read("flag") /\ ~Lit!Read("data") /\ Lit!Read("flag")' /\ Lit!Read("data")'
          /\ (Lit!Read("clear")' <=> Lit!Read("clear")) /\ (Lit!Read("ack")' <=> Lit!Read("ack"))
      BY <1>1, <1>2, <1>7, <2>3 DEF Lit!Read
    <3>2. ~Lit!Read("clear") /\ ~Lit!Read("ack") /\ litMem[Lit!Flag] = 1 /\ litMem[Lit!Data] = 42
      BY <1>0, <1>7, <3>1 DEF Lit!MpOrder
    <3>3. litReg'[1][0] = 42
      <4>1. litReg' = [litReg EXCEPT ![1][0] = 42] /\ 0 \in 0..LitN
        BY <1>3, <2>3, <3>2, Places
      <4> QED BY <1>0, <4>1 DEF Lit!TypeOK
    <3> QED BY <1>0, <1>2, <1>3, <1>7, <2>1, <2>3, <3>1, <3>2, <3>3 DEF Lit!MpOrder, Untouched
  <2>4. CASE op = <<"clear", 0>>
    <3>1. /\ Lit!Read("data") /\ ~Lit!Read("clear") /\ (Lit!Read("flag")' <=> Lit!Read("flag"))
          /\ (Lit!Read("data")' <=> Lit!Read("data")) /\ Lit!Read("clear")' /\
               (Lit!Read("ack")' <=> Lit!Read("ack"))
      BY <1>1, <1>2, <2>4 DEF Lit!Read
    <3>2. Lit!Read("flag") /\ ~Lit!Read("ack") /\ litMem[Lit!Flag] = 1 /\ litReg[1][0] = 42
      BY <1>0, <1>7, <3>1 DEF Lit!MpOrder
    <3>3. ~(Lit!Wrote("wait") /\ ~Lit!Wrote("flag"))
      BY <1>0, <1>7, <3>2 DEF Lit!MpOrder
    <3>4. litMem'[Lit!Flag] = litMem[Lit!Flag]
      BY <1>0, <1>3, <2>4, Places DEF Lit!TypeOK
    <3> QED BY <1>0, <1>2, <1>3, <1>7, <2>1, <2>4, <3>1, <3>2, <3>3, <3>4 DEF Lit!MpOrder, Untouched
  <2>5. CASE op = <<"ack", 0>>
    <3>1. /\ Lit!Read("clear") /\ ~Lit!Read("ack") /\ (Lit!Read("flag")' <=> Lit!Read("flag"))
          /\ (Lit!Read("data")' <=> Lit!Read("data")) /\ (Lit!Read("clear")' <=> Lit!Read("clear")) /\
               Lit!Read("ack")'
      BY <1>1, <1>2, <2>5 DEF Lit!Read
    <3>2. Lit!Read("data") /\ Lit!Read("flag") /\ litMem[Lit!Flag] = 1
      BY <1>0, <1>7, <3>1 DEF Lit!MpOrder
    <3>3. ~(Lit!Wrote("wait") /\ ~Lit!Wrote("flag"))
      BY <1>0, <1>7, <3>2 DEF Lit!MpOrder
    <3>4. litMem'[Lit!Flag] = 0 /\ litMem'[Lit!Data] = litMem[Lit!Data]
      BY <1>0, <1>3, <2>5, Places DEF Lit!TypeOK
    <3> QED BY <1>0, <1>2, <1>3, <1>7, <2>1, <2>5, <3>1, <3>2, <3>3, <3>4 DEF Lit!MpOrder, Untouched
  <2> QED BY <1>1, <2>2, <2>3, <2>4, <2>5
<1>8. Lit!MpOrder'
  BY <1>2, <1>7 DEF Lit!MpOrder, Untouched
<1>9. Lit!SbOrder' /\ Lit!Handshake'
  BY <1>0, <1>2 DEF Lit!SbOrder, Lit!Handshake, Untouched
<1>10. litPc # "start" /\ (litPc = "round" => FALSE)
  BY <1>0, <1>2 DEF Lit!Counted
<1>11. Lit!Counted'
  <2>1. litObserved' = litIt[1] + (IF Lit!Read("clear")' THEN 1 ELSE 0)
    <3>1. litObserved = litIt[1] + (IF Lit!Read("clear") THEN 1 ELSE 0) /\ litIt[1] \in Nat
      BY <1>0, <1>10 DEF Lit!Counted, Lit!TypeOK
    <3>2. CASE op = <<"clear", 0>>
      <4>1. ~Lit!Read("clear") /\ Lit!Read("clear")'
        BY <1>2, <3>2 DEF Lit!Read
      <4> QED BY <1>3, <3>1, <3>2, <4>1
    <3>3. CASE op # <<"clear", 0>>
      <4>1. Lit!Read("clear")' <=> Lit!Read("clear")
        BY <1>2, <3>3 DEF Lit!Read
      <4> QED BY <1>1, <1>3, <3>1, <3>3, <4>1
    <3> QED BY <3>2, <3>3
  <2> QED BY <1>0, <1>2, <1>7, <1>10, <2>1 DEF Lit!Counted, Untouched
<1> QED BY <1>6, <1>8, <1>9, <1>11 DEF Lit!LitmusInv

-----------------------------------------------------------------------------
(* The threads' other steps, and main().                                   *)

\* The handshake of barrier_sb.
LEMMA ThreadStep ==
  ASSUME Lit!Sizes, Lit!LitmusInv, NEW t \in Lit!T, Lit!Arrive(t) \/ Lit!Depart(t)
  PROVE  Lit!LitmusInv'
<1>0. Lit!TypeOK /\ Lit!SbOrder /\ Lit!Handshake /\ Lit!MpOrder /\ Lit!Counted /\ t \in {0, 1} /\ Lit!T = {0, 1}
  BY DEF Lit!LitmusInv, Lit!T
<1>1. /\ UNCHANGED <<litTest, litMode, litPc, litRound, litEx, litIt, litMem, litReg, Lit!score, litFailed>>
      /\ litTh[t] \in {"born", "ready"} /\ litTh'[t] \in {"ready", "run"}
      /\ litTh' \in [Lit!T -> {"none", "born", "ready", "run", "over"}]
      /\ \A u \in Lit!T : u # t => litTh'[u] = litTh[u]
  BY <1>0 DEF Lit!Arrive, Lit!Depart, Lit!TypeOK
<1>2. litGo' \in Nat
  BY <1>0 DEF Lit!Arrive, Lit!Depart, Lit!TypeOK
<1>3. Lit!TypeOK'
  BY <1>0, <1>1, <1>2 DEF Lit!TypeOK, Lit!score
<1>4. \A u \in Lit!T : (litTh'[u] = "over" <=> litTh[u] = "over") /\ (litTh'[u] = "none" <=> litTh[u] = "none")
  BY <1>1
<1>5. Lit!SbOrder'
  <2>1. \A u \in Lit!T, i \in Lit!Slots,
          what \in {"load", "store"} : Lit!Did(u, what, i)' <=> Lit!Did(u, what, i)
    BY <1>1, <1>4 DEF Lit!Did
  <2>2. 0 \in Lit!T /\ 1 \in Lit!T
    BY DEF Lit!T
  <2> QED BY <1>0, <1>1, <2>1, <2>2 DEF Lit!SbOrder
<1>6. Lit!Handshake'
  <2>1. CASE Lit!Arrive(t)
    BY <1>0, <1>1, <2>1 DEF Lit!Arrive, Lit!Handshake, Lit!Arrived, Lit!TypeOK
  <2>2. CASE Lit!Depart(t)
    BY <1>0, <1>1, <2>2 DEF Lit!Depart, Lit!Handshake, Lit!Arrived, Lit!TypeOK
  <2> QED BY <2>1, <2>2
<1>7. Lit!MpOrder'
  BY <1>0, <1>1 DEF Lit!MpOrder, Lit!Wrote, Lit!Read
<1>8. Lit!Counted'
  BY <1>0, <1>1, <1>4 DEF Lit!Counted, Lit!Read, Lit!score
<1> QED BY <1>3, <1>5, <1>6, <1>7, <1>8 DEF Lit!LitmusInv

\* An iteration ends when all its accesses are made.
LEMMA EndStep ==
  ASSUME Lit!Sizes, Lit!LitmusInv, NEW t \in Lit!T, Lit!EndIteration(t)
  PROVE  Lit!LitmusInv'
<1>0. Lit!TypeOK /\ Lit!SbOrder /\ Lit!Handshake /\ Lit!MpOrder /\ Lit!Counted /\ t \in {0, 1} /\ Lit!T = {0, 1}
  BY DEF Lit!LitmusInv, Lit!T
<1>1. /\ UNCHANGED <<litTest, litMode, litPc, litRound, litGo, litMem, litReg, Lit!score, litFailed>>
      /\ litTh[t] = "run" /\ litEx[t] = Lit!Ops(t)
      /\ litEx' = [litEx EXCEPT ![t] = {}] /\ litIt' = [litIt EXCEPT ![t] = litIt[t] + 1]
      /\ litTh' = [litTh EXCEPT ![t] = IF litTest = "sb" \/ litIt[t] + 1 = LitIters THEN "over" ELSE "run"]
  BY <1>0 DEF Lit!EndIteration, Lit!TypeOK
<1>2. /\ litEx'[t] = {} /\ litIt'[t] = litIt[t] + 1 /\ litIt[t] \in Nat
      /\ litTh'[t] = IF litTest = "sb" \/ litIt[t] + 1 = LitIters THEN "over" ELSE "run"
      /\ \A u \in Lit!T : u # t => litTh'[u] = litTh[u] /\ litEx'[u] = litEx[u] /\ litIt'[u] = litIt[u]
  BY <1>0, <1>1 DEF Lit!TypeOK
<1>3. Lit!TypeOK'
  <2>1. /\ litEx' \in [Lit!T -> SUBSET Lit!Accesses] /\ litIt' \in [Lit!T -> Nat]
        /\ litTh' \in [Lit!T -> {"none", "born", "ready", "run", "over"}]
    BY <1>0, <1>1, <1>2 DEF Lit!TypeOK
  <2> QED BY <1>0, <1>1, <2>1 DEF Lit!TypeOK, Lit!score
<1>4. Lit!SbOrder'
  <2> SUFFICES ASSUME litTest = "sb", litMode # 0 PROVE Lit!SbOrder'
    BY <1>1 DEF Lit!SbOrder
  <2>1. \A i \in Lit!Slots : <<"load", i>> \in Lit!Ops(t) /\ <<"store", i>> \in Lit!Ops(t)
    BY DEF Lit!Ops
  <2>2. \A u \in Lit!T, i \in Lit!Slots :
          /\ Lit!Did(u, "load", i)' <=> Lit!Did(u, "load", i)
          /\ Lit!Did(u, "store", i)' <=> Lit!Did(u, "store", i)
    BY <1>1, <1>2, <2>1 DEF Lit!Did
  <2>3. 0 \in Lit!T /\ 1 \in Lit!T
    BY DEF Lit!T
  <2> QED BY <1>0, <1>1, <2>2, <2>3 DEF Lit!SbOrder
<1>5. Lit!Handshake'
  BY <1>0, <1>1, <1>2 DEF Lit!Handshake, Lit!Arrived
<1>6. Lit!MpOrder'
  <2> SUFFICES ASSUME litTest = "mp", litMode # 0 PROVE Lit!MpOrder'
    BY <1>1 DEF Lit!MpOrder
  <2>1. CASE t = 0
    <3>1. Lit!Wrote("wait") /\ Lit!Wrote("data") /\ Lit!Wrote("flag")
      BY <1>1, <2>1 DEF Lit!Wrote, Lit!Ops
    <3>2. ~Lit!Wrote("wait")' /\ ~Lit!Wrote("data")' /\ ~Lit!Wrote("flag")'
      BY <1>2, <2>1 DEF Lit!Wrote
    <3>3. \A w \in {"flag", "data", "clear", "ack"} : Lit!Read(w)' <=> Lit!Read(w)
      BY <1>0, <1>2, <2>1 DEF Lit!Read
    <3> QED BY <1>0, <1>1, <3>2, <3>3 DEF Lit!MpOrder
  <2>2. CASE t = 1
    <3>1. Lit!Read("flag") /\ Lit!Read("data") /\ Lit!Read("clear") /\ Lit!Read("ack")
      BY <1>1, <2>2 DEF Lit!Read, Lit!Ops
    <3>2. ~Lit!Read("flag")' /\ ~Lit!Read("data")' /\ ~Lit!Read("clear")' /\ ~Lit!Read("ack")'
      BY <1>2, <2>2 DEF Lit!Read
    <3>3. \A w \in {"wait", "data", "flag"} : Lit!Wrote(w)' <=> Lit!Wrote(w)
      BY <1>0, <1>2, <2>2 DEF Lit!Wrote
    <3> QED BY <1>0, <1>1, <3>1, <3>2, <3>3 DEF Lit!MpOrder
  <2> QED BY <1>0, <2>1, <2>2
<1>7. Lit!Counted'
  <2>1. litTest = "mp" => litObserved' = litIt'[1] + (IF Lit!Read("clear")' THEN 1 ELSE 0) \/ litPc = "round"
    <3>1. CASE t = 0
      BY <1>0, <1>1, <1>2, <3>1 DEF Lit!Counted, Lit!Read, Lit!score, Lit!TypeOK
    <3>2. CASE t = 1
      <4>1. litTest = "mp" => Lit!Read("clear")
        BY <1>1, <3>2 DEF Lit!Read, Lit!Ops
      <4>2. ~Lit!Read("clear")'
        BY <1>2, <3>2 DEF Lit!Read
      <4> QED BY <1>0, <1>1, <1>2, <3>2, <4>1, <4>2 DEF Lit!Counted, Lit!score, Lit!TypeOK
    <3> QED BY <1>0, <3>1, <3>2
  <2>2. litTest = "mp" /\ litTh'[1] = "over" => litIt'[1] = LitIters /\ litEx'[1] = {}
    BY <1>0, <1>1, <1>2 DEF Lit!Counted
  <2>3. litTh'[1] # "none" \/ litTh[1] = "none"
    BY <1>0, <1>2
  <2>4. (t = 1 => litTh[1] = "run") /\ (litTh[1] = "none" \/ litTh[1] = "over" => litTh'[1] = litTh[1])
    BY <1>0, <1>1, <1>2
  <2>5. litPc # "start"
    BY <1>0, <1>1 DEF Lit!Counted
  <2> QED BY <1>0, <1>1, <2>1, <2>2, <2>3, <2>4, <2>5 DEF Lit!Counted, Lit!score
<1> QED BY <1>3, <1>4, <1>5, <1>6, <1>7 DEF Lit!LitmusInv

\* main() begins a test, and a round of it.
LEMMA MainStep ==
  ASSUME Lit!Sizes, Lit!LitmusInv,
         Lit!Create \/ \E tst \in {"sb", "mp"}, m \in 0..2 : Lit!Main(tst, m)
  PROVE  Lit!LitmusInv'
<1>0. Lit!TypeOK /\ Lit!SbOrder /\ Lit!Handshake /\ Lit!MpOrder /\ Lit!Counted /\ Lit!T = {0, 1} /\
        0 \in Lit!T /\ 1 \in Lit!T
  BY DEF Lit!LitmusInv, Lit!T
<1>1. ASSUME NEW tst \in {"sb", "mp"}, NEW m \in 0..2, Lit!Main(tst, m) PROVE Lit!LitmusInv'
  <2>1. /\ litPc = "start" /\ litPc' = "round" /\ litTest' = tst /\ litMode' = m
        /\ UNCHANGED <<litRound, litTh, litGo, litEx, litIt, litMem, litReg, Lit!score, litFailed>>
    BY <1>1 DEF Lit!Main
  <2>2. /\ litRound = 0 /\ litN00 = 0 /\ litCounted = 0 /\ litObserved = 0 /\ litViolations = 0 /\ litGo = 0
        /\ litMem[Lit!Flag] = 0 /\ \A t \in Lit!T : litTh[t] = "none" /\ litEx[t] = {}
    BY <1>0, <2>1 DEF Lit!Counted
  <2>3. Lit!TypeOK'
    BY <1>0, <2>1 DEF Lit!TypeOK, Lit!score
  <2>4. Lit!SbOrder'
    BY <1>0, <2>1, <2>2 DEF Lit!SbOrder, Lit!Did
  <2>5. Lit!Handshake'
    BY <1>0, <2>1, <2>2 DEF Lit!Handshake, Lit!Arrived
  <2>6. Lit!MpOrder'
    BY <1>0, <2>1, <2>2 DEF Lit!MpOrder, Lit!Wrote, Lit!Read
  <2>7. Lit!Counted'
    BY <1>0, <2>1, <2>2 DEF Lit!Counted, Lit!score, Lit!Sizes
  <2> QED BY <2>3, <2>4, <2>5, <2>6, <2>7 DEF Lit!LitmusInv
<1>2. CASE Lit!Create
  <2>1. PICK made \in SUBSET Lit!T :
          /\ litTh' = [t \in Lit!T |-> IF t \in made THEN "born" ELSE "none"]
          /\ litFailed' = (litFailed \/ made # Lit!T)
    BY <1>2 DEF Lit!Create
  <2>2. /\ litPc = "round" /\ litPc' = "join" /\ litGo' = 0
        /\ UNCHANGED <<litTest, litMode, litRound, litN00, litCounted, litObserved, litViolations>>
        /\ litMem' = [l \in Lit!Locs |-> 0] /\ litReg' = [t \in Lit!T |-> [i \in 0..LitN |-> 0]]
        /\ litEx' = [t \in Lit!T |-> {}] /\ litIt' = [t \in Lit!T |-> 0]
    BY <1>2 DEF Lit!Create
  <2>3. /\ \A t \in Lit!T : litTh'[t] \in {"born", "none"} /\ litEx'[t] = {} /\ litIt'[t] = 0
        /\ litMem'[Lit!Data] = 0 /\ litMem'[Lit!Flag] = 0
        /\ ~litFailed' => \A t \in Lit!T : litTh'[t] = "born"
        /\ litFailed => litFailed'
    BY <1>0, <2>1, <2>2, Places
  <2>4. Lit!TypeOK'
    <3>1. /\ litMem' \in [Lit!Locs -> Nat] /\ litReg' \in [Lit!T -> [0..LitN -> Nat]]
          /\ litEx' \in [Lit!T -> SUBSET Lit!Accesses] /\ litIt' \in [Lit!T -> Nat]
      BY <2>2
    <3>2. litTh' \in [Lit!T -> {"none", "born", "ready", "run", "over"}]
      BY <2>1
    <3>3. litFailed' \in BOOLEAN
      BY <1>0, <2>1 DEF Lit!TypeOK
    <3> QED BY <1>0, <2>2, <3>1, <3>2, <3>3 DEF Lit!TypeOK
  <2>5. Lit!SbOrder'
    BY <1>0, <2>3 DEF Lit!SbOrder, Lit!Did
  <2>6. Lit!Handshake'
    BY <1>0, <2>2, <2>3 DEF Lit!Handshake, Lit!Arrived
  <2>7. Lit!MpOrder'
    BY <1>0, <2>3 DEF Lit!MpOrder, Lit!Wrote, Lit!Read
  <2>8. Lit!Counted'
    BY <1>0, <2>2, <2>3 DEF Lit!Counted, Lit!Read
  <2> QED BY <2>4, <2>5, <2>6, <2>7, <2>8 DEF Lit!LitmusInv
<1> QED BY <1>1, <1>2

\* main() joins both threads and counts: there is no slot to count, unless a
\* thread is missing.
LEMMA JoinStep ==
  ASSUME Lit!Sizes, Lit!LitmusInv, Lit!Join
  PROVE  Lit!LitmusInv'
<1>0. Lit!TypeOK /\ Lit!SbOrder /\ Lit!Handshake /\ Lit!MpOrder /\ Lit!Counted /\ Lit!T = {0, 1} /\
        0 \in Lit!T /\ 1 \in Lit!T
  BY DEF Lit!LitmusInv, Lit!T
<1> DEFINE found == {i \in Lit!Slots : litTest = "sb" /\ litReg[0][i] = 0 /\ litReg[1][i] = 0}
<1>1. /\ litPc = "join" /\ \A t \in Lit!T : litTh[t] \in {"over", "none"}
      /\ litN00' = litN00 + Cardinality(found)
      /\ litCounted' = litCounted + (IF litTest = "sb" THEN LitN ELSE 0)
      /\ litRound' = litRound + 1
      /\ litPc' = IF litTest = "sb" /\ litRound + 1 < LitREP THEN "round" ELSE "report"
      /\ UNCHANGED <<litTest, litMode, litTh, litGo, litEx, litIt, litMem, litReg, litObserved, litViolations,
           litFailed>>
  BY LitCount DEF Lit!Join
<1>2. ~litFailed => litTh[0] = "over" /\ litTh[1] = "over"
  BY <1>0, <1>1 DEF Lit!Counted
<1>3. (litMode # 0 /\ ~litFailed) \/ litTest # "sb" => found = {}
  BY <1>0, <1>1, <1>2 DEF Lit!SbOrder, Lit!Did
<1>4. Cardinality(found) \in Nat /\ (found = {} => Cardinality(found) = 0)
  <2>1. IsFiniteSet(Lit!Slots)
    BY FS_Interval DEF Lit!Slots, Lit!Sizes
  <2>2. IsFiniteSet(found)
    BY <2>1, FS_Subset
  <2> QED BY <2>2, FS_CardinalityType, FS_EmptySet
<1> HIDE DEF found
<1>5. Lit!TypeOK'
  <2>1. litN00' \in Nat /\ litRound' \in Nat
    BY <1>0, <1>1, <1>4 DEF Lit!TypeOK
  <2>2. litCounted' \in Nat
    BY <1>0, <1>1 DEF Lit!TypeOK, Lit!Sizes
  <2>3. litPc' \in {"start", "round", "join", "report"}
    BY <1>1
  <2> QED BY <1>0, <1>1, <2>1, <2>2, <2>3 DEF Lit!TypeOK
<1>6. Lit!SbOrder' /\ Lit!Handshake'
  BY <1>0, <1>1 DEF Lit!SbOrder, Lit!Handshake, Lit!Did, Lit!Arrived
<1>7. Lit!MpOrder'
  BY <1>0, <1>1 DEF Lit!MpOrder, Lit!Wrote, Lit!Read
<1>8. Lit!Counted'
  <2>1. litN00' = litN00 \/ (litTest = "sb" /\ (litMode = 0 \/ litFailed))
    BY <1>0, <1>1, <1>3, <1>4 DEF Lit!TypeOK
  <2>2. litTest = "sb" => litCounted' = LitN * litRound'
    <3>1. LitN * (litRound + 1) = LitN * litRound + LitN
      BY <1>0 DEF Lit!TypeOK, Lit!Sizes
    <3> QED BY <1>0, <1>1, <3>1 DEF Lit!Counted
  <2>3. litTest = "sb" => litRound < LitREP /\ (litRound' < LitREP \/ litRound' = LitREP)
    BY <1>0, <1>1 DEF Lit!Counted, Lit!TypeOK, Lit!Sizes
  <2> QED BY <1>0, <1>1, <2>1, <2>2, <2>3 DEF Lit!Counted, Lit!Read, Lit!TypeOK, Lit!Sizes
<1> QED BY <1>5, <1>6, <1>7, <1>8 DEF Lit!LitmusInv

\* The invariant of both tests.
LEMMA LitmusInvariant == Spec => []Lit!LitmusInv
<1> USE LitAssumption
<1>1. Lit!Init => Lit!LitmusInv
  <2> SUFFICES ASSUME Lit!Init PROVE Lit!LitmusInv
    OBVIOUS
  <2>1. Lit!TypeOK
    <3>1. /\ litMem \in [Lit!Locs -> Nat] /\ litReg \in [Lit!T -> [0..LitN -> Nat]]
          /\ litEx \in [Lit!T -> SUBSET Lit!Accesses] /\ litIt \in [Lit!T -> Nat]
      BY DEF Lit!Init
    <3>2. litTh \in [Lit!T -> {"none", "born", "ready", "run", "over"}] /\ litFailed \in BOOLEAN
      BY DEF Lit!Init
    <3> QED BY <3>1, <3>2 DEF Lit!Init, Lit!TypeOK
  <2>2. Lit!SbOrder /\ Lit!Handshake /\ Lit!MpOrder
    BY DEF Lit!Init, Lit!SbOrder, Lit!Handshake, Lit!MpOrder
  <2>3. Lit!Counted
    BY Places DEF Lit!Init, Lit!Counted, Lit!T
  <2> QED BY <2>1, <2>2, <2>3 DEF Lit!LitmusInv
<1>2. Lit!LitmusInv /\ [Lit!Next]_(Lit!vars) => Lit!LitmusInv'
  <2> SUFFICES ASSUME Lit!LitmusInv, [Lit!Next]_(Lit!vars) PROVE Lit!LitmusInv'
    OBVIOUS
  <2>0. litTest \in {"none", "sb", "mp"} /\ litMode \in 0..2
    BY DEF Lit!LitmusInv, Lit!TypeOK
  <2>1. CASE Lit!Create \/ \E tst \in {"sb", "mp"}, m \in 0..2 : Lit!Main(tst, m)
    BY <2>1, MainStep
  <2>2. CASE Lit!Join
    BY <2>2, JoinStep
  <2>3. ASSUME NEW t \in Lit!T, Lit!Arrive(t) \/ Lit!Depart(t) \/ Lit!EndIteration(t) PROVE Lit!LitmusInv'
    BY <2>3, ThreadStep, EndStep
  <2>4. ASSUME NEW t \in Lit!T, NEW op \in Lit!Ops(t), Lit!SbAccess(t, op) PROVE Lit!LitmusInv'
    <3>1. litTest = "sb"
      BY <2>4 DEF Lit!SbAccess
    <3>2. PICK i \in Lit!Slots : op = <<"store", i>> \/ op = <<"load", i>>
      BY <2>0, <3>1, SbOps
    <3> QED BY <2>4, <3>2, SbStore, SbLoad
  <2>5. ASSUME NEW t \in Lit!T, NEW op \in Lit!Ops(t), (t = 0 /\ Lit!MpWrite(op)) \/ (t = 1 /\ Lit!MpRead(op))
        PROVE  Lit!LitmusInv'
    BY <2>5, WriterStep, ReaderStep
  <2>6. CASE UNCHANGED Lit!vars
    <3>1. Lit!TypeOK' /\ Lit!Handshake'
      BY <2>6 DEF Lit!LitmusInv, Lit!TypeOK, Lit!Handshake, Lit!Arrived, Lit!vars, Lit!score
    <3>2. Lit!SbOrder'
      BY <2>6 DEF Lit!LitmusInv, Lit!SbOrder, Lit!Did, Lit!vars
    <3>3. Lit!MpOrder'
      BY <2>6 DEF Lit!LitmusInv, Lit!MpOrder, Lit!Wrote, Lit!Read, Lit!vars
    <3>4. Lit!Counted'
      BY <2>6 DEF Lit!LitmusInv, Lit!Counted, Lit!Read, Lit!vars, Lit!score
    <3> QED BY <3>1, <3>2, <3>3, <3>4 DEF Lit!LitmusInv
  <2> QED BY <2>1, <2>2, <2>3, <2>4, <2>5, <2>6 DEF Lit!Next, Lit!Thread
<1>3. Init => Lit!Init
  BY DEF Init
<1> QED BY <1>1, <1>2, <1>3, PartSteps, PTL DEF Spec

\* With a DMB, or with acquire and release, neither test ever counts the outcome
\* it looks for, however many slots, rounds and iterations it runs and however
\* the core reorders what nothing orders; and at the report every slot of every
\* round, or every iteration, has been counted.  Both unless a pthread_create()
\* failed: barrier_sb then takes slots nobody wrote for the outcome.
THEOREM LitmusBarriers == Spec => []LitmusOutcomes
<1> USE LitAssumption
<1>1. Lit!LitmusInv => LitmusOutcomes
  <2> SUFFICES ASSUME Lit!LitmusInv PROVE LitmusOutcomes
    OBVIOUS
  <2>0. Lit!TypeOK /\ Lit!Counted
    BY DEF Lit!LitmusInv
  <2>1. litMode # 0 => litViolations = 0 /\ (litN00 = 0 \/ litFailed)
    BY <2>0 DEF Lit!Counted
  <2>2. litPc = "report" /\ ~litFailed /\ litTest = "sb" => litCounted = LitN * LitREP
    BY <2>0 DEF Lit!Counted
  <2>3. litPc = "report" /\ ~litFailed /\ litTest # "sb" => litObserved = LitIters
    <3>1. litPc = "report" /\ ~litFailed /\ litTest # "sb" =>
               /\ litObserved = litIt[1] + (IF Lit!Read("clear") THEN 1 ELSE 0)
               /\ litIt[1] = LitIters /\ litEx[1] = {}
      BY <2>0 DEF Lit!Counted, Lit!TypeOK
    <3> QED BY <3>1 DEF Lit!Read, Lit!Sizes
  <2> QED BY <2>1, <2>2, <2>3 DEF LitmusOutcomes, Lit!LitmusOutcomes
<1> QED BY <1>1, LitmusInvariant, PTL

-----------------------------------------------------------------------------
(* rkspy.c.                                                                *)

\* An empty table, and no objects yet.
LEMMA SpyInit ==
  ASSUME Spy!SpyConstants, Spy!Init
  PROVE  Spy!SpyInv
<1> USE DEF Spy!SpyConstants
<1>1. Spy!NoObj \in Spy!Object /\ Spy!Blank \in Spy!Entry
  BY DEF Spy!NoObj, Spy!Blank, Spy!Object, Spy!Entry
<1>2. Spy!TypeOK
  BY <1>1 DEF Spy!Init, Spy!TypeOK
<1>3. Spy!Live = {}
  BY DEF Spy!Init, Spy!Live, Spy!NoObj
<1>4. Spy!Distinct /\ Spy!Flight /\ Spy!Sole /\ Spy!Refreshed
  BY <1>3 DEF Spy!Init, Spy!Distinct, Spy!Flight, Spy!Sole, Spy!Refreshed
<1>5. Spy!Filled(0)
  <2>1. \A o \in Spy!Objects : spyObjs[o].st # "none" <=> o <= 0
    BY DEF Spy!Init, Spy!Objects, Spy!NoObj
  <2>2. spyBufs[SpyMAXB + 1] = Spy!Blank
    BY DEF Spy!Init
  <2> QED BY <2>1, <2>2 DEF Spy!Init, Spy!Filled, Spy!Smaller
<1>6. Spy!Table
  BY <1>5 DEF Spy!Table
<1> QED BY <1>2, <1>4, <1>6 DEF Spy!SpyInv

\* MEM_CREATE in the driver: the new object's names are those of no live one.
LEMMA SpyCreate ==
  ASSUME Spy!SpyConstants, Spy!SpyInv, NEW t \in SpyThreads, NEW o \in Spy!Objects, Spy!Create(t, o)
  PROVE  Spy!SpyInv'
<1> USE DEF Spy!SpyConstants
<1>0. Spy!TypeOK /\ Spy!Distinct /\ Spy!Flight /\ Spy!Sole /\ Spy!Table /\ Spy!Refreshed
  BY DEF Spy!SpyInv
<1>1. PICK at \in SpyNames, off \in SpyNames, dma \in SpyAreas :
         /\ \A p \in Spy!Live : spyObjs[p].at # at /\ spyObjs[p].off # off
         /\ Spy!FreeHandles # {}
         /\ spyObjs' = [spyObjs EXCEPT ![o] = Spy!NewObj(Spy!Min(Spy!FreeHandles), at, dma, off)]
  BY DEF Spy!Create
<1> DEFINE h == Spy!Min(Spy!FreeHandles)
           new == Spy!NewObj(h, at, dma, off)
<1>2. h \in Spy!FreeHandles
  <2>1. Spy!FreeHandles \in SUBSET Nat
    BY DEF Spy!FreeHandles
  <2>2. \E x \in Spy!FreeHandles : \A y \in Spy!FreeHandles : x <= y
    BY <1>1, <2>1, SmallestElement
  <2> QED BY <2>2 DEF Spy!Min
<1>3. h \in SpyNames /\ \A p \in Spy!Live : spyObjs[p].h # h
  BY <1>2 DEF Spy!FreeHandles
<1>4. spyObjs' = [spyObjs EXCEPT ![o] = new]
  BY <1>1
<1> HIDE DEF h
<1>5. new \in Spy!Object
  BY <1>3 DEF Spy!Object, Spy!NewObj
<1>6. spyObjs'[o] = new /\ \A p \in Spy!Objects : p # o => spyObjs'[p] = spyObjs[p]
  BY <1>0, <1>4 DEF Spy!TypeOK
<1>7. /\ new.st = "live" /\ new.h = h /\ new.at = at /\ new.off = off /\ new.dma = dma
      /\ new.va = FALSE /\ new.offered = FALSE
  BY DEF Spy!NewObj
<1> HIDE DEF new
<1>8. /\ spyPc[t] = "idle" /\ spyObjs[o].st = "none" /\ \A p \in 1..(o - 1) : spyObjs[p].st # "none"
      /\ spyPc' = [spyPc EXCEPT ![t] = "check"] /\ spyCur' = [spyCur EXCEPT ![t] = o]
      /\ spyRaced' = (spyRaced \/ \E u \in SpyThreads \ {t} : spyPc[u] # "idle")
      /\ spyBufs' = spyBufs /\ spyNbuf' = spyNbuf /\ spySeen' = spySeen
  BY DEF Spy!Create
<1>9. /\ spyPc'[t] = "check" /\ spyCur'[t] = o
      /\ \A u \in SpyThreads : u # t => spyPc'[u] = spyPc[u] /\ spyCur'[u] = spyCur[u]
  BY <1>0, <1>8 DEF Spy!TypeOK
<1>10. o \notin Spy!Live /\ Spy!Live' = Spy!Live \cup {o}
  BY <1>6, <1>7, <1>8 DEF Spy!Live
<1>11. Spy!TypeOK'
  <2>1. spyObjs' \in [Spy!Objects -> Spy!Object]
    BY <1>0, <1>4, <1>5 DEF Spy!TypeOK
  <2>2. /\ spyPc' \in [SpyThreads -> {"idle", "check", "write", "bump"}]
        /\ spyCur' \in [SpyThreads -> Spy!Objects \cup {0}]
    BY <1>0, <1>8 DEF Spy!TypeOK
  <2>3. spyRaced' \in BOOLEAN
    BY <1>8
  <2> QED BY <1>0, <1>8, <2>1, <2>2, <2>3 DEF Spy!TypeOK
<1>12. Spy!Distinct'
  <2>1. ASSUME NEW q \in Spy!Live' PROVE
          /\ spyObjs'[q].h \in SpyNames /\ spyObjs'[q].at \in SpyNames /\ spyObjs'[q].off \in SpyNames
          /\ spyObjs'[q].dma \in SpyAreas
          /\ \A p \in Spy!Live' : p # q => /\ spyObjs'[p].h # spyObjs'[q].h /\ spyObjs'[p].at # spyObjs'[q].at
                                           /\ spyObjs'[p].off # spyObjs'[q].off
    <3>1. Spy!Live \subseteq Spy!Objects
      BY DEF Spy!Live
    <3>2. q \in Spy!Live \/ q = o
      BY <1>10
    <3>3. \A p \in Spy!Live : spyObjs'[p] = spyObjs[p] /\ p # o
      BY <1>6, <1>10, <3>1
    <3>4. CASE q = o
      BY <1>1, <1>3, <1>6, <1>7, <1>10, <3>3, <3>4
    <3>5. CASE q \in Spy!Live
      BY <1>0, <1>1, <1>3, <1>6, <1>7, <1>10, <3>3, <3>5 DEF Spy!Distinct
    <3> QED BY <3>2, <3>4, <3>5
  <2> QED BY <2>1 DEF Spy!Distinct
<1>13. Spy!Flight'
  <2>1. ASSUME NEW u \in SpyThreads PROVE
          /\ spyPc'[u] = "idle" <=> spyCur'[u] = 0
          /\ spyCur'[u] # 0 => /\ spyObjs'[spyCur'[u]].st = "live"
                               /\ ~spyObjs'[spyCur'[u]].offered /\ ~spyObjs'[spyCur'[u]].va
    <3>1. CASE u = t
      BY <1>6, <1>7, <1>9, <3>1 DEF Spy!Objects
    <3>2. CASE u # t
      <4>1. /\ spyPc'[u] = spyPc[u] /\ spyCur'[u] = spyCur[u] /\ spyCur[u] \in Spy!Objects \cup {0}
            /\ spyPc[u] = "idle" <=> spyCur[u] = 0
            /\ spyCur[u] # 0 => /\ spyObjs[spyCur[u]].st = "live"
                                /\ ~spyObjs[spyCur[u]].offered /\ ~spyObjs[spyCur[u]].va
        BY <1>0, <1>9, <3>2 DEF Spy!Flight, Spy!TypeOK
      <4>2. spyCur[u] # 0 => spyObjs'[spyCur[u]] = spyObjs[spyCur[u]]
        BY <1>6, <1>8, <4>1
      <4> QED BY <4>1, <4>2
    <3> QED BY <3>1, <3>2
  <2> QED BY <2>1 DEF Spy!Flight
<1>14. ~spyRaced' => ~spyRaced /\ \A u \in SpyThreads : spyPc[u] = "idle"
  BY <1>8
<1>15. Spy!Sole'
  BY <1>9, <1>14 DEF Spy!Sole
<1>16. Spy!Table'
  <2> SUFFICES ASSUME ~spyRaced' PROVE \E m \in 0..SpyMaxObj : Spy!Filled(m)'
    BY DEF Spy!Table
  <2>1. PICK m \in 0..SpyMaxObj : Spy!Filled(m)
    BY <1>0, <1>14 DEF Spy!Table
  <2>2. o = m + 1 /\ m + 1 \in 0..SpyMaxObj
    <3>1. o \in Nat /\ o > m /\ o <= SpyMaxObj
      BY <1>8, <2>1 DEF Spy!Filled, Spy!Objects
    <3>2. ~(m + 1 < o)
      <4>1. SUFFICES ASSUME m + 1 < o PROVE FALSE
        OBVIOUS
      <4>2. m + 1 \in 1..(o - 1) /\ m + 1 \in Spy!Objects
        BY <3>1, <4>1 DEF Spy!Objects
      <4> QED BY <1>8, <2>1, <4>2 DEF Spy!Filled
    <3> QED BY <3>1, <3>2
  <2>3. spyNbuf = Spy!Smaller(m, SpyMAXB) /\ spyNbuf \in Nat
    BY <1>0, <1>14, <2>1 DEF Spy!Filled, Spy!TypeOK
  <2>4. \A p \in Spy!Objects : spyObjs'[p].st # "none" <=> p <= m + 1
    BY <1>6, <1>7, <2>1, <2>2 DEF Spy!Filled, Spy!Objects
  <2>5. \A i \in 1..spyNbuf : Spy!Describes(i, i)'
    BY <1>6, <1>8, <2>1, <2>2, <2>3 DEF Spy!Filled, Spy!Describes, Spy!Objects
  <2>6. \A u \in SpyThreads : spyPc'[u] # "idle" => u = t
    BY <1>9, <1>14
  <2>7. Spy!Filled(m + 1)'
    BY <1>8, <1>9, <2>1, <2>2, <2>3, <2>4, <2>5, <2>6 DEF Spy!Filled
  <2> QED BY <2>2, <2>7
<1>17. Spy!Refreshed'
  <2>1. Spy!Entries' = Spy!Entries
    BY <1>8 DEF Spy!Entries
  <2> QED BY <1>0, <1>6, <1>7, <1>8, <1>10, <1>14, <2>1 DEF Spy!Refreshed, Spy!Live
<1> QED BY <1>11, <1>12, <1>13, <1>15, <1>16, <1>17 DEF Spy!SpyInv

\* The test of nbuf moves one thread on, or back when the table is full.
LEMMA SpyCheckRoom ==
  ASSUME Spy!SpyConstants, Spy!SpyInv, NEW t \in SpyThreads, Spy!CheckRoom(t)
  PROVE  Spy!SpyInv'
<1> USE DEF Spy!SpyConstants
<1>0. Spy!TypeOK /\ Spy!Distinct /\ Spy!Flight /\ Spy!Sole /\ Spy!Table /\ Spy!Refreshed
  BY DEF Spy!SpyInv
<1>1. /\ spyPc[t] = "check"
      /\ spyPc' = [spyPc EXCEPT ![t] = IF spyNbuf < SpyMAXB THEN "write" ELSE "idle"]
      /\ spyCur' = [spyCur EXCEPT ![t] = IF spyNbuf < SpyMAXB THEN spyCur[t] ELSE 0]
      /\ spyObjs' = spyObjs /\ spyBufs' = spyBufs /\ spyNbuf' = spyNbuf /\ spySeen' = spySeen /\
           spyRaced' = spyRaced
  BY DEF Spy!CheckRoom
<1>2. /\ spyPc'[t] = (IF spyNbuf < SpyMAXB THEN "write" ELSE "idle")
      /\ spyCur'[t] = (IF spyNbuf < SpyMAXB THEN spyCur[t] ELSE 0)
      /\ \A u \in SpyThreads : u # t => spyPc'[u] = spyPc[u] /\ spyCur'[u] = spyCur[u]
  BY <1>0, <1>1 DEF Spy!TypeOK
<1>3. Spy!Live' = Spy!Live /\ Spy!Entries' = Spy!Entries
  BY <1>1 DEF Spy!Live, Spy!Entries
<1>4. Spy!TypeOK'
  BY <1>0, <1>1 DEF Spy!TypeOK
<1>5. Spy!Distinct' /\ Spy!Refreshed'
  BY <1>0, <1>1, <1>3 DEF Spy!Distinct, Spy!Refreshed
<1>6. spyCur[t] # 0
  BY <1>0, <1>1 DEF Spy!Flight
<1>7. Spy!Flight'
  BY <1>0, <1>1, <1>2, <1>6 DEF Spy!Flight
<1>8. Spy!Sole'
  BY <1>0, <1>1, <1>2 DEF Spy!Sole
<1>9. Spy!Table'
  <2> SUFFICES ASSUME ~spyRaced PROVE \E m \in 0..SpyMaxObj : Spy!Filled(m)'
    BY <1>1 DEF Spy!Table
  <2>1. PICK m \in 0..SpyMaxObj : Spy!Filled(m)
    BY <1>0 DEF Spy!Table
  <2>2. /\ spyCur[t] = m /\ m # 0 /\ spyNbuf = Spy!Smaller(m - 1, SpyMAXB) /\ spyNbuf \in Nat
    BY <1>0, <1>1, <1>6, <2>1 DEF Spy!Filled, Spy!TypeOK
  <2>3. \A u \in SpyThreads : u # t => spyPc'[u] = "idle"
    BY <1>0, <1>1, <1>2 DEF Spy!Sole
  <2>4. spyNbuf < SpyMAXB => spyNbuf = m - 1 /\ m <= SpyMAXB
    BY <2>2 DEF Spy!Smaller
  <2>5. ~(spyNbuf < SpyMAXB) => spyNbuf = Spy!Smaller(m, SpyMAXB)
    BY <2>2 DEF Spy!Smaller
  <2>6. (\A i \in 1..spyNbuf : Spy!Describes(i, i))'
    BY <1>1, <2>1 DEF Spy!Filled, Spy!Describes
  <2>7. /\ spyPc'[t] # "idle" => spyCur'[t] = m
        /\ spyPc'[t] \in {"write", "bump"} => m <= SpyMAXB
        /\ spyPc'[t] # "bump"
        /\ spyPc'[t] = "idle" => spyNbuf = Spy!Smaller(m, SpyMAXB)
    BY <1>2, <2>2, <2>4, <2>5
  <2>8. Spy!Filled(m)'
    BY <1>1, <2>1, <2>2, <2>3, <2>6, <2>7 DEF Spy!Filled
  <2> QED BY <2>8
<1> QED BY <1>4, <1>5, <1>7, <1>8, <1>9 DEF Spy!SpyInv

\* The entry that nbuf names is filled: without a race, the one after the last.
LEMMA SpyWriteEntry ==
  ASSUME Spy!SpyConstants, Spy!SpyInv, NEW t \in SpyThreads, Spy!WriteEntry(t)
  PROVE  Spy!SpyInv'
<1> USE DEF Spy!SpyConstants
<1> DEFINE k == IF spyNbuf < SpyMAXB THEN spyNbuf + 1 ELSE SpyMAXB + 1
           o == spyCur[t]
           e == [spyBufs[k] EXCEPT !.of = o, !.h = spyObjs[o].h, !.at = spyObjs[o].at,
                            !.dma = spyObjs[o].dma]
<1>0. Spy!TypeOK /\ Spy!Distinct /\ Spy!Flight /\ Spy!Sole /\ Spy!Table /\ Spy!Refreshed
  BY DEF Spy!SpyInv
<1>1. /\ spyPc[t] = "write" /\ spySeen' = [spySeen EXCEPT ![t] = spyNbuf]
      /\ spyPc' = [spyPc EXCEPT ![t] = "bump"]
      /\ spyObjs' = spyObjs /\ spyNbuf' = spyNbuf /\ spyCur' = spyCur /\ spyRaced' = spyRaced
  BY DEF Spy!WriteEntry
<1>2. spyBufs' = [spyBufs EXCEPT ![k].of = o, ![k].h = spyObjs[o].h, ![k].at = spyObjs[o].at,
                              ![k].dma = spyObjs[o].dma]
  BY DEF Spy!WriteEntry
<1>3. k \in 1..(SpyMAXB + 1) /\ spyNbuf \in Nat
  BY <1>0 DEF Spy!TypeOK
<1>4. o \in Spy!Objects
  BY <1>0, <1>1 DEF Spy!Flight, Spy!TypeOK
<1>5. spyBufs[k] \in Spy!Entry /\ spyObjs[o] \in Spy!Object
  BY <1>0, <1>3, <1>4 DEF Spy!TypeOK
<1> HIDE DEF k, o
<1>6. spyBufs' = [spyBufs EXCEPT ![k] = e]
  BY <1>0, <1>2, <1>3, <1>5 DEF Spy!TypeOK, Spy!Entry
<1>7. e \in Spy!Entry /\ e.of = o /\ e.h = spyObjs[o].h /\ e.at = spyObjs[o].at /\ e.dma = spyObjs[o].dma
  BY <1>4, <1>5 DEF Spy!Entry, Spy!Object
<1> HIDE DEF e
<1>8. spyBufs'[k] = e /\ \A i \in 1..(SpyMAXB + 1) : i # k => spyBufs'[i] = spyBufs[i]
  BY <1>0, <1>3, <1>6 DEF Spy!TypeOK
<1>9. /\ spyPc'[t] = "bump" /\ spySeen'[t] = spyNbuf
      /\ \A u \in SpyThreads : u # t => spyPc'[u] = spyPc[u] /\ spySeen'[u] = spySeen[u]
  BY <1>0, <1>1 DEF Spy!TypeOK
<1>10. Spy!Live' = Spy!Live /\ Spy!Entries' = Spy!Entries
  BY <1>1 DEF Spy!Live, Spy!Entries
<1>11. Spy!TypeOK'
  BY <1>0, <1>1, <1>6, <1>7 DEF Spy!TypeOK
<1>12. Spy!Distinct'
  BY <1>0, <1>1, <1>10 DEF Spy!Distinct
<1>13. Spy!Flight'
  BY <1>0, <1>1, <1>9 DEF Spy!Flight
<1>14. Spy!Sole'
  BY <1>0, <1>1, <1>9 DEF Spy!Sole
<1>15. ASSUME ~spyRaced, NEW m \in 0..SpyMaxObj, Spy!Filled(m)
       PROVE  o = m /\ k = m /\ spyNbuf = m - 1 /\ m <= SpyMAXB
  <2>1. o = m /\ spyNbuf = Spy!Smaller(m - 1, SpyMAXB) /\ m <= SpyMAXB
    BY <1>1, <1>15 DEF Spy!Filled, o
  <2> QED BY <1>3, <1>4, <2>1 DEF Spy!Smaller, k, Spy!Objects
<1>16. Spy!Table'
  <2> SUFFICES ASSUME ~spyRaced PROVE \E m \in 0..SpyMaxObj : Spy!Filled(m)'
    BY <1>1 DEF Spy!Table
  <2>1. PICK m \in 0..SpyMaxObj : Spy!Filled(m)
    BY <1>0 DEF Spy!Table
  <2>2. o = m /\ k = m /\ spyNbuf = m - 1 /\ m <= SpyMAXB
    BY <1>15, <2>1
  <2>3. \A u \in SpyThreads : u # t => spyPc'[u] = "idle"
    BY <1>0, <1>1, <1>9 DEF Spy!Sole
  <2>4. spyBufs'[SpyMAXB + 1] = Spy!Blank
    BY <1>8, <2>1, <2>2 DEF Spy!Filled
  <2>5. (\A i \in 1..spyNbuf : Spy!Describes(i, i))'
    BY <1>1, <1>8, <2>1, <2>2 DEF Spy!Filled, Spy!Describes
  <2>6. Spy!Describes(m, m)'
    BY <1>1, <1>7, <1>8, <2>2 DEF Spy!Describes
  <2>7. spyCur'[t] = m /\ spyNbuf = Spy!Smaller(m - 1, SpyMAXB)
    BY <1>1, <2>1 DEF Spy!Filled
  <2>8. Spy!Filled(m)'
    BY <1>1, <1>9, <2>1, <2>2, <2>3, <2>4, <2>5, <2>6, <2>7 DEF Spy!Filled
  <2> QED BY <2>8
<1>17. Spy!Refreshed'
  <2> SUFFICES ASSUME ~spyRaced PROVE Spy!Refreshed'
    BY <1>1 DEF Spy!Refreshed
  <2>1. PICK m \in 0..SpyMaxObj : Spy!Filled(m)
    BY <1>0 DEF Spy!Table
  <2>2. k = m /\ spyNbuf = m - 1 /\ m <= SpyMAXB
    BY <1>15, <2>1
  <2>3. \A i \in Spy!Entries : spyBufs'[i] = spyBufs[i]
    BY <1>3, <1>8, <2>2 DEF Spy!Entries
  <2> QED BY <1>0, <1>1, <1>10, <2>3 DEF Spy!Refreshed
<1> QED BY <1>11, <1>12, <1>13, <1>14, <1>16, <1>17 DEF Spy!SpyInv

\* The entry becomes visible: it carries the handle of an object that nobody
\* has mapped yet.
LEMMA SpyBump ==
  ASSUME Spy!SpyConstants, Spy!SpyInv, NEW t \in SpyThreads, Spy!Bump(t)
  PROVE  Spy!SpyInv'
<1> USE DEF Spy!SpyConstants
<1>0. Spy!TypeOK /\ Spy!Distinct /\ Spy!Flight /\ Spy!Sole /\ Spy!Table /\ Spy!Refreshed
  BY DEF Spy!SpyInv
<1>1. /\ spyPc[t] = "bump" /\ spyNbuf' \in {spyNbuf + 1, spySeen[t] + 1}
      /\ spyPc' = [spyPc EXCEPT ![t] = "idle"] /\ spyCur' = [spyCur EXCEPT ![t] = 0]
      /\ spySeen' = [spySeen EXCEPT ![t] = 0]
      /\ spyObjs' = spyObjs /\ spyBufs' = spyBufs /\ spyRaced' = spyRaced
  BY DEF Spy!Bump
<1>2. /\ spyPc'[t] = "idle" /\ spyCur'[t] = 0
      /\ \A u \in SpyThreads : u # t => spyPc'[u] = spyPc[u] /\ spyCur'[u] = spyCur[u]
  BY <1>0, <1>1 DEF Spy!TypeOK
<1>3. Spy!Live' = Spy!Live
  BY <1>1 DEF Spy!Live
<1>4. Spy!TypeOK'
  <2>1. spyNbuf' \in Nat
    BY <1>0, <1>1 DEF Spy!TypeOK
  <2> QED BY <1>0, <1>1, <2>1 DEF Spy!TypeOK
<1>5. Spy!Distinct'
  BY <1>0, <1>1, <1>3 DEF Spy!Distinct
<1>6. Spy!Flight'
  BY <1>0, <1>1, <1>2 DEF Spy!Flight
<1>7. Spy!Sole'
  BY <1>0, <1>1, <1>2 DEF Spy!Sole
<1>8. ASSUME ~spyRaced, NEW m \in 0..SpyMaxObj, Spy!Filled(m)
      PROVE  /\ spyCur[t] = m /\ m \in Spy!Objects /\ spyNbuf = m - 1 /\ m <= SpyMAXB /\ spyNbuf' = m
             /\ Spy!Describes(m, m)
  <2>1. spyCur[t] = m /\ spyNbuf = Spy!Smaller(m - 1, SpyMAXB) /\ m <= SpyMAXB /\ spySeen[t] = spyNbuf
        /\ Spy!Describes(m, m)
    BY <1>1, <1>8 DEF Spy!Filled
  <2>2. spyCur[t] \in Spy!Objects
    BY <1>0, <1>1 DEF Spy!Flight, Spy!TypeOK
  <2>3. spyNbuf = m - 1
    BY <2>1, <2>2 DEF Spy!Smaller, Spy!Objects
  <2> QED BY <1>1, <2>1, <2>2, <2>3
<1>9. Spy!Table'
  <2> SUFFICES ASSUME ~spyRaced PROVE \E m \in 0..SpyMaxObj : Spy!Filled(m)'
    BY <1>1 DEF Spy!Table
  <2>1. PICK m \in 0..SpyMaxObj : Spy!Filled(m)
    BY <1>0 DEF Spy!Table
  <2>2. spyNbuf = m - 1 /\ m <= SpyMAXB /\ spyNbuf' = m /\ Spy!Describes(m, m)
    BY <1>8, <2>1
  <2>3. \A u \in SpyThreads : spyPc'[u] = "idle"
    BY <1>0, <1>1, <1>2 DEF Spy!Sole
  <2>4. (\A i \in 1..spyNbuf : Spy!Describes(i, i))'
    <3>1. ASSUME NEW i \in 1..m PROVE Spy!Describes(i, i)
      BY <2>1, <2>2 DEF Spy!Filled
    <3> QED BY <1>1, <2>2, <3>1 DEF Spy!Describes
  <2>5. spyNbuf' = Spy!Smaller(m, SpyMAXB)
    BY <2>2 DEF Spy!Smaller
  <2>6. /\ (\A q \in Spy!Objects : spyObjs[q].st # "none" <=> q <= m)'
        /\ (spyNbuf <= SpyMAXB /\ spyNbuf <= m /\ spyBufs[SpyMAXB + 1] = Spy!Blank)'
    BY <1>1, <2>1, <2>2 DEF Spy!Filled
  <2>7. Spy!Filled(m)'
    BY <2>3, <2>4, <2>5, <2>6 DEF Spy!Filled
  <2> QED BY <2>7
<1>10. Spy!Refreshed'
  <2> SUFFICES ASSUME ~spyRaced PROVE Spy!Refreshed'
    BY <1>1 DEF Spy!Refreshed
  <2>1. PICK m \in 0..SpyMaxObj : Spy!Filled(m)
    BY <1>0 DEF Spy!Table
  <2>2. /\ spyCur[t] = m /\ m \in Spy!Objects /\ spyNbuf = m - 1 /\ m <= SpyMAXB /\ spyNbuf' = m
        /\ Spy!Describes(m, m)
    BY <1>8, <2>1
  <2>3. Spy!Entries' = Spy!Entries \cup {m}
    BY <2>2 DEF Spy!Entries, Spy!Objects
  <2>4. m \in Spy!Live /\ ~spyObjs[m].offered /\ ~spyObjs[m].va
    BY <1>0, <2>2 DEF Spy!Flight, Spy!Live, Spy!Objects
  <2>5. \A q \in Spy!Live : spyBufs[m].h = spyObjs[q].h => q = m
    BY <1>0, <2>2, <2>4 DEF Spy!Distinct, Spy!Describes
  <2>6. ASSUME NEW q \in Spy!Live PROVE
          /\ spyObjs[q].va => spyObjs[q].offered
          /\ \A i \in Spy!Entries \cup {m} : spyBufs[i].h = spyObjs[q].h =>
                /\ spyObjs[q].offered => spyBufs[i].moff = spyObjs[q].off
                /\ spyObjs[q].va => spyBufs[i].va = q
    <3>1. spyObjs[q].va => spyObjs[q].offered
      BY <1>0 DEF Spy!Refreshed
    <3>2. ASSUME NEW i \in Spy!Entries, spyBufs[i].h = spyObjs[q].h
          PROVE  /\ spyObjs[q].offered => spyBufs[i].moff = spyObjs[q].off
                 /\ spyObjs[q].va => spyBufs[i].va = q
      BY <1>0, <3>2 DEF Spy!Refreshed
    <3>3. spyBufs[m].h = spyObjs[q].h => ~spyObjs[q].offered /\ ~spyObjs[q].va
      BY <2>4, <2>5
    <3> QED BY <3>1, <3>2, <3>3
  <2> QED BY <1>1, <1>3, <2>3, <2>6 DEF Spy!Refreshed
<1> QED BY <1>4, <1>5, <1>6, <1>7, <1>9, <1>10 DEF Spy!SpyInv

\* A call that names an object the runtime holds: nobody is creating it.
LEMMA SpyUsable ==
  ASSUME NEW o \in Spy!Usable
  PROVE  /\ o \in Spy!Live /\ o \in Spy!Objects /\ spyObjs[o].st = "live"
         /\ \A u \in SpyThreads : spyCur[u] # o
  BY DEF Spy!Usable, Spy!Live, Spy!InFlight

\* While the table is exact its entries end before the array does.
LEMMA SpyEntries ==
  ASSUME Spy!SpyConstants, Spy!TypeOK, Spy!Table, ~spyRaced
  PROVE  Spy!Entries = 1..spyNbuf /\ SpyMAXB + 1 \notin Spy!Entries /\ Spy!Entries \subseteq 1..(SpyMAXB + 1)
<1>1. PICK m \in 0..SpyMaxObj : Spy!Filled(m)
  BY DEF Spy!Table
<1>2. spyNbuf \in Nat /\ SpyMAXB \in Nat /\ spyNbuf <= SpyMAXB
  BY <1>1 DEF Spy!Filled, Spy!TypeOK, Spy!SpyConstants
<1> QED BY <1>2 DEF Spy!Entries

\* MEM_MAP refreshes the entries with the handle; no other live object has it.
LEMMA SpyMemMap ==
  ASSUME Spy!SpyConstants, Spy!SpyInv, NEW t \in SpyThreads, NEW o \in Spy!Objects, Spy!MemMap(t, o)
  PROVE  Spy!SpyInv'
<1> USE DEF Spy!SpyConstants
<1>0. Spy!TypeOK /\ Spy!Distinct /\ Spy!Flight /\ Spy!Sole /\ Spy!Table /\ Spy!Refreshed
  BY DEF Spy!SpyInv
<1>1. /\ o \in Spy!Usable /\ ~spyObjs[o].offered
      /\ spyObjs' = [spyObjs EXCEPT ![o].offered = TRUE]
      /\ spyNbuf' = spyNbuf /\ spyPc' = spyPc /\ spyCur' = spyCur /\ spySeen' = spySeen /\ spyRaced' = spyRaced
  BY DEF Spy!MemMap
<1>2. spyBufs' = [i \in DOMAIN spyBufs |->
                    IF i \in Spy!Entries /\ spyBufs[i].h = spyObjs[o].h
                    THEN [spyBufs[i] EXCEPT !.moff = spyObjs[o].off] ELSE spyBufs[i]]
  BY DEF Spy!MemMap
<1>3. o \in Spy!Live /\ \A u \in SpyThreads : spyCur[u] # o
  BY <1>1, SpyUsable
<1>4. \A p \in Spy!Objects :
         /\ spyObjs'[p].st = spyObjs[p].st /\ spyObjs'[p].h = spyObjs[p].h /\ spyObjs'[p].at = spyObjs[p].at
         /\ spyObjs'[p].dma = spyObjs[p].dma /\ spyObjs'[p].off = spyObjs[p].off /\
              spyObjs'[p].va = spyObjs[p].va
         /\ p # o => spyObjs'[p].offered = spyObjs[p].offered
  <2> DEFINE d == [spyObjs[o] EXCEPT !.offered = TRUE]
  <2>1. spyObjs[o] \in Spy!Object
    BY <1>0 DEF Spy!TypeOK
  <2>2. /\ d.st = spyObjs[o].st /\ d.h = spyObjs[o].h /\ d.at = spyObjs[o].at
        /\ d.dma = spyObjs[o].dma /\ d.off = spyObjs[o].off /\ d.va = spyObjs[o].va
    BY <2>1 DEF Spy!Object
  <2>3. spyObjs' = [spyObjs EXCEPT ![o] = d]
    BY <1>0, <1>1 DEF Spy!TypeOK
  <2> HIDE DEF d
  <2>4. spyObjs'[o] = d /\ \A p \in Spy!Objects : p # o => spyObjs'[p] = spyObjs[p]
    BY <1>0, <2>3 DEF Spy!TypeOK
  <2> QED BY <2>2, <2>4
<1>5. \A i \in 1..(SpyMAXB + 1) :
         /\ spyBufs'[i] \in Spy!Entry
         /\ spyBufs'[i].of = spyBufs[i].of /\ spyBufs'[i].h = spyBufs[i].h /\ spyBufs'[i].at = spyBufs[i].at
         /\ spyBufs'[i].dma = spyBufs[i].dma /\ spyBufs'[i].va = spyBufs[i].va
         /\ i \in Spy!Entries /\ spyBufs[i].h = spyObjs[o].h => spyBufs'[i].moff = spyObjs[o].off
         /\ ~(i \in Spy!Entries /\ spyBufs[i].h = spyObjs[o].h) => spyBufs'[i] = spyBufs[i]
  <2> TAKE i \in 1..(SpyMAXB + 1)
  <2> DEFINE d == [spyBufs[i] EXCEPT !.moff = spyObjs[o].off]
  <2>1. spyBufs[i] \in Spy!Entry /\ spyObjs[o] \in Spy!Object
    BY <1>0 DEF Spy!TypeOK
  <2>2. spyObjs[o].off \in SpyNames \cup {0}
    BY <2>1 DEF Spy!Object
  <2>3. /\ d \in Spy!Entry /\ d.of = spyBufs[i].of /\ d.h = spyBufs[i].h /\ d.at = spyBufs[i].at
        /\ d.dma = spyBufs[i].dma /\ d.va = spyBufs[i].va /\ d.moff = spyObjs[o].off
    BY <2>1, <2>2 DEF Spy!Entry
  <2>4. spyBufs'[i] = IF i \in Spy!Entries /\ spyBufs[i].h = spyObjs[o].h THEN d ELSE spyBufs[i]
    BY <1>0, <1>2 DEF Spy!TypeOK
  <2> HIDE DEF d
  <2> QED BY <2>1, <2>3, <2>4
<1>6. Spy!Live' = Spy!Live /\ Spy!Entries' = Spy!Entries /\ Spy!Live \subseteq Spy!Objects
  BY <1>1, <1>4 DEF Spy!Live, Spy!Entries
<1>7. Spy!TypeOK'
  <2>1. spyObjs' \in [Spy!Objects -> Spy!Object]
    <3>1. spyObjs[o] \in Spy!Object
      BY <1>0 DEF Spy!TypeOK
    <3>2. [spyObjs[o] EXCEPT !.offered = TRUE] \in Spy!Object
      BY <3>1 DEF Spy!Object
    <3>3. spyObjs' = [spyObjs EXCEPT ![o] = [spyObjs[o] EXCEPT !.offered = TRUE]]
      BY <1>0, <1>1 DEF Spy!TypeOK
    <3> QED BY <1>0, <3>2, <3>3 DEF Spy!TypeOK
  <2>2. spyBufs' \in [1..(SpyMAXB + 1) -> Spy!Entry]
    BY <1>0, <1>2, <1>5 DEF Spy!TypeOK
  <2> QED BY <1>0, <1>1, <2>1, <2>2 DEF Spy!TypeOK
<1>8. Spy!Distinct'
  BY <1>0, <1>4, <1>6 DEF Spy!Distinct
<1>9. Spy!Flight'
  BY <1>0, <1>1, <1>3, <1>4 DEF Spy!Flight, Spy!TypeOK
<1>10. Spy!Sole'
  BY <1>0, <1>1 DEF Spy!Sole
<1>11. Spy!Table'
  <2> SUFFICES ASSUME ~spyRaced PROVE \E m \in 0..SpyMaxObj : Spy!Filled(m)'
    BY <1>1 DEF Spy!Table
  <2>1. PICK m \in 0..SpyMaxObj : Spy!Filled(m)
    BY <1>0 DEF Spy!Table
  <2>2. SpyMAXB + 1 \notin Spy!Entries
    BY <1>0, SpyEntries
  <2>3. spyBufs'[SpyMAXB + 1] = Spy!Blank
    BY <1>5, <2>1, <2>2 DEF Spy!Filled
  <2>4. ASSUME NEW i \in 1..(SpyMAXB + 1), i \in Spy!Objects, Spy!Describes(i, i)
        PROVE  Spy!Describes(i, i)'
    BY <1>4, <1>5, <2>4 DEF Spy!Describes
  <2>5. spyNbuf \in Nat /\ spyNbuf <= SpyMAXB /\ spyNbuf <= m
    BY <1>0, <2>1 DEF Spy!Filled, Spy!TypeOK
  <2>6. (\A i \in 1..spyNbuf : Spy!Describes(i, i))'
    BY <1>1, <2>1, <2>4, <2>5 DEF Spy!Filled, Spy!Objects
  <2>7. ASSUME NEW u \in SpyThreads, spyPc[u] = "bump" PROVE Spy!Describes(m, m)'
    <3>1. spyCur[u] = m /\ spyCur[u] \in Spy!Objects /\ m <= SpyMAXB /\ Spy!Describes(m, m)
      BY <1>0, <2>1, <2>7 DEF Spy!Filled, Spy!Flight, Spy!TypeOK
    <3> QED BY <2>4, <3>1 DEF Spy!Objects
  <2>8. (\A q \in Spy!Objects : spyObjs[q].st # "none" <=> q <= m)'
    BY <1>4, <2>1 DEF Spy!Filled
  <2>9. Spy!Filled(m)'
    BY <1>1, <2>1, <2>3, <2>6, <2>7, <2>8 DEF Spy!Filled
  <2> QED BY <2>9
<1>12. Spy!Refreshed'
  <2> SUFFICES ASSUME ~spyRaced, NEW q \in Spy!Live PROVE
        /\ spyObjs'[q].va => spyObjs'[q].offered
        /\ \A i \in Spy!Entries : spyBufs'[i].h = spyObjs'[q].h =>
              /\ spyObjs'[q].offered => spyBufs'[i].moff = spyObjs'[q].off
              /\ spyObjs'[q].va => spyBufs'[i].va = q
    BY <1>1, <1>6 DEF Spy!Refreshed
  <2>1. Spy!Entries \subseteq 1..(SpyMAXB + 1)
    BY <1>0, SpyEntries
  <2>2. /\ spyObjs[q].va => spyObjs[q].offered
        /\ \A i \in Spy!Entries : spyBufs[i].h = spyObjs[q].h =>
              /\ spyObjs[q].offered => spyBufs[i].moff = spyObjs[q].off
              /\ spyObjs[q].va => spyBufs[i].va = q
    BY <1>0 DEF Spy!Refreshed
  <2>3. CASE q = o
    BY <1>1, <1>4, <1>5, <1>6, <2>1, <2>2, <2>3
  <2>4. CASE q # o
    <3>1. spyObjs[q].h # spyObjs[o].h
      BY <1>0, <1>3, <2>4 DEF Spy!Distinct
    <3> QED BY <1>4, <1>5, <1>6, <2>1, <2>2, <2>4, <3>1
  <2> QED BY <2>3, <2>4
<1> QED BY <1>7, <1>8, <1>9, <1>10, <1>11, <1>12 DEF Spy!SpyInv

\* mmap fills the entries with the offset; no other live object has it.
LEMMA SpyMmap ==
  ASSUME Spy!SpyConstants, Spy!SpyInv, NEW t \in SpyThreads, NEW o \in Spy!Objects, Spy!Mmap(t, o)
  PROVE  Spy!SpyInv'
<1> USE DEF Spy!SpyConstants
<1>0. Spy!TypeOK /\ Spy!Distinct /\ Spy!Flight /\ Spy!Sole /\ Spy!Table /\ Spy!Refreshed
  BY DEF Spy!SpyInv
<1>1. /\ o \in Spy!Usable /\ spyObjs[o].offered /\ ~spyObjs[o].va
      /\ spyObjs' = [spyObjs EXCEPT ![o].va = TRUE]
      /\ spyNbuf' = spyNbuf /\ spyPc' = spyPc /\ spyCur' = spyCur /\ spySeen' = spySeen /\ spyRaced' = spyRaced
  BY DEF Spy!Mmap
<1>2. spyBufs' = [i \in DOMAIN spyBufs |->
                    IF i \in Spy!Entries /\ spyBufs[i].moff = spyObjs[o].off
                    THEN [spyBufs[i] EXCEPT !.va = o] ELSE spyBufs[i]]
  BY DEF Spy!Mmap
<1>3. o \in Spy!Live /\ \A u \in SpyThreads : spyCur[u] # o
  BY <1>1, SpyUsable
<1>4. \A p \in Spy!Objects :
         /\ spyObjs'[p].st = spyObjs[p].st /\ spyObjs'[p].h = spyObjs[p].h /\ spyObjs'[p].at = spyObjs[p].at
         /\ spyObjs'[p].dma = spyObjs[p].dma /\ spyObjs'[p].off = spyObjs[p].off /\
              spyObjs'[p].offered = spyObjs[p].offered
         /\ p # o => spyObjs'[p].va = spyObjs[p].va
  <2> DEFINE d == [spyObjs[o] EXCEPT !.va = TRUE]
  <2>1. spyObjs[o] \in Spy!Object
    BY <1>0 DEF Spy!TypeOK
  <2>2. /\ d.st = spyObjs[o].st /\ d.h = spyObjs[o].h /\ d.at = spyObjs[o].at
        /\ d.dma = spyObjs[o].dma /\ d.off = spyObjs[o].off /\ d.offered = spyObjs[o].offered
    BY <2>1 DEF Spy!Object
  <2>3. spyObjs' = [spyObjs EXCEPT ![o] = d]
    BY <1>0, <1>1 DEF Spy!TypeOK
  <2> HIDE DEF d
  <2>4. spyObjs'[o] = d /\ \A p \in Spy!Objects : p # o => spyObjs'[p] = spyObjs[p]
    BY <1>0, <2>3 DEF Spy!TypeOK
  <2> QED BY <2>2, <2>4
<1>5. \A i \in 1..(SpyMAXB + 1) :
         /\ spyBufs'[i] \in Spy!Entry
         /\ spyBufs'[i].of = spyBufs[i].of /\ spyBufs'[i].h = spyBufs[i].h /\ spyBufs'[i].at = spyBufs[i].at
         /\ spyBufs'[i].dma = spyBufs[i].dma /\ spyBufs'[i].moff = spyBufs[i].moff
         /\ i \in Spy!Entries /\ spyBufs[i].moff = spyObjs[o].off => spyBufs'[i].va = o
         /\ ~(i \in Spy!Entries /\ spyBufs[i].moff = spyObjs[o].off) => spyBufs'[i] = spyBufs[i]
  <2> TAKE i \in 1..(SpyMAXB + 1)
  <2> DEFINE d == [spyBufs[i] EXCEPT !.va = o]
  <2>1. spyBufs[i] \in Spy!Entry /\ spyObjs[o] \in Spy!Object
    BY <1>0 DEF Spy!TypeOK
  <2>2. spyObjs[o].off \in SpyNames \cup {0}
    BY <2>1 DEF Spy!Object
  <2>3. /\ d \in Spy!Entry /\ d.of = spyBufs[i].of /\ d.h = spyBufs[i].h /\ d.at = spyBufs[i].at
        /\ d.dma = spyBufs[i].dma /\ d.moff = spyBufs[i].moff /\ d.va = o
    BY <2>1, <2>2 DEF Spy!Entry
  <2>4. spyBufs'[i] = IF i \in Spy!Entries /\ spyBufs[i].moff = spyObjs[o].off THEN d ELSE spyBufs[i]
    BY <1>0, <1>2 DEF Spy!TypeOK
  <2> HIDE DEF d
  <2> QED BY <2>1, <2>3, <2>4
<1>6. Spy!Live' = Spy!Live /\ Spy!Entries' = Spy!Entries /\ Spy!Live \subseteq Spy!Objects
  BY <1>1, <1>4 DEF Spy!Live, Spy!Entries
<1>7. Spy!TypeOK'
  <2>1. spyObjs' \in [Spy!Objects -> Spy!Object]
    <3>1. spyObjs[o] \in Spy!Object
      BY <1>0 DEF Spy!TypeOK
    <3>2. [spyObjs[o] EXCEPT !.va = TRUE] \in Spy!Object
      BY <3>1 DEF Spy!Object
    <3>3. spyObjs' = [spyObjs EXCEPT ![o] = [spyObjs[o] EXCEPT !.va = TRUE]]
      BY <1>0, <1>1 DEF Spy!TypeOK
    <3> QED BY <1>0, <3>2, <3>3 DEF Spy!TypeOK
  <2>2. spyBufs' \in [1..(SpyMAXB + 1) -> Spy!Entry]
    BY <1>0, <1>2, <1>5 DEF Spy!TypeOK
  <2> QED BY <1>0, <1>1, <2>1, <2>2 DEF Spy!TypeOK
<1>8. Spy!Distinct'
  BY <1>0, <1>4, <1>6 DEF Spy!Distinct
<1>9. Spy!Flight'
  BY <1>0, <1>1, <1>3, <1>4 DEF Spy!Flight, Spy!TypeOK
<1>10. Spy!Sole'
  BY <1>0, <1>1 DEF Spy!Sole
<1>11. Spy!Table'
  <2> SUFFICES ASSUME ~spyRaced PROVE \E m \in 0..SpyMaxObj : Spy!Filled(m)'
    BY <1>1 DEF Spy!Table
  <2>1. PICK m \in 0..SpyMaxObj : Spy!Filled(m)
    BY <1>0 DEF Spy!Table
  <2>2. SpyMAXB + 1 \notin Spy!Entries
    BY <1>0, SpyEntries
  <2>3. spyBufs'[SpyMAXB + 1] = Spy!Blank
    BY <1>5, <2>1, <2>2 DEF Spy!Filled
  <2>4. ASSUME NEW i \in 1..(SpyMAXB + 1), i \in Spy!Objects, Spy!Describes(i, i)
        PROVE  Spy!Describes(i, i)'
    BY <1>4, <1>5, <2>4 DEF Spy!Describes
  <2>5. spyNbuf \in Nat /\ spyNbuf <= SpyMAXB /\ spyNbuf <= m
    BY <1>0, <2>1 DEF Spy!Filled, Spy!TypeOK
  <2>6. (\A i \in 1..spyNbuf : Spy!Describes(i, i))'
    BY <1>1, <2>1, <2>4, <2>5 DEF Spy!Filled, Spy!Objects
  <2>7. ASSUME NEW u \in SpyThreads, spyPc[u] = "bump" PROVE Spy!Describes(m, m)'
    <3>1. spyCur[u] = m /\ spyCur[u] \in Spy!Objects /\ m <= SpyMAXB /\ Spy!Describes(m, m)
      BY <1>0, <2>1, <2>7 DEF Spy!Filled, Spy!Flight, Spy!TypeOK
    <3> QED BY <2>4, <3>1 DEF Spy!Objects
  <2>8. (\A q \in Spy!Objects : spyObjs[q].st # "none" <=> q <= m)'
    BY <1>4, <2>1 DEF Spy!Filled
  <2>9. Spy!Filled(m)'
    BY <1>1, <2>1, <2>3, <2>6, <2>7, <2>8 DEF Spy!Filled
  <2> QED BY <2>9
<1>12. Spy!Refreshed'
  <2> SUFFICES ASSUME ~spyRaced, NEW q \in Spy!Live PROVE
        /\ spyObjs'[q].va => spyObjs'[q].offered
        /\ \A i \in Spy!Entries : spyBufs'[i].h = spyObjs'[q].h =>
              /\ spyObjs'[q].offered => spyBufs'[i].moff = spyObjs'[q].off
              /\ spyObjs'[q].va => spyBufs'[i].va = q
    BY <1>1, <1>6 DEF Spy!Refreshed
  <2>1. Spy!Entries \subseteq 1..(SpyMAXB + 1)
    BY <1>0, SpyEntries
  <2>2. /\ spyObjs[q].va => spyObjs[q].offered
        /\ \A i \in Spy!Entries : spyBufs[i].h = spyObjs[q].h =>
              /\ spyObjs[q].offered => spyBufs[i].moff = spyObjs[q].off
              /\ spyObjs[q].va => spyBufs[i].va = q
    BY <1>0 DEF Spy!Refreshed
  <2>3. CASE q = o
    BY <1>1, <1>4, <1>5, <1>6, <2>1, <2>2, <2>3
  <2>4. CASE q # o
    <3>1. spyObjs[q].off # spyObjs[o].off
      BY <1>0, <1>3, <2>4 DEF Spy!Distinct
    <3> QED BY <1>4, <1>5, <1>6, <2>1, <2>2, <2>4, <3>1
  <2> QED BY <2>3, <2>4
<1> QED BY <1>7, <1>8, <1>9, <1>10, <1>11, <1>12 DEF Spy!SpyInv

\* A destroyed object leaves its entry behind.
LEMMA SpyDestroy ==
  ASSUME Spy!SpyConstants, Spy!SpyInv, NEW t \in SpyThreads, NEW o \in Spy!Objects, Spy!Destroy(t, o)
  PROVE  Spy!SpyInv'
<1> USE DEF Spy!SpyConstants
<1>0. Spy!TypeOK /\ Spy!Distinct /\ Spy!Flight /\ Spy!Sole /\ Spy!Table /\ Spy!Refreshed
  BY DEF Spy!SpyInv
<1>1. /\ o \in Spy!Usable
      /\ spyObjs' = [spyObjs EXCEPT ![o].st = "dead", ![o].va = FALSE, ![o].offered = FALSE, ![o].off = 0]
      /\ spyNbuf' = spyNbuf /\ spyPc' = spyPc /\ spyCur' = spyCur /\ spySeen' = spySeen /\ spyRaced' = spyRaced
      /\ spyBufs' = spyBufs
  BY DEF Spy!Destroy
<1>2. o \in Spy!Live /\ spyObjs[o].st = "live" /\ \A u \in SpyThreads : spyCur[u] # o
  BY <1>1, SpyUsable
<1>3. spyObjs' = [spyObjs EXCEPT ![o] =
             [spyObjs[o] EXCEPT !.st = "dead", !.va = FALSE, !.offered = FALSE, !.off = 0]]
  BY <1>0, <1>1 DEF Spy!TypeOK
<1>4. /\ \A p \in Spy!Objects : p # o => spyObjs'[p] = spyObjs[p]
      /\ spyObjs'[o].st = "dead" /\ spyObjs'[o].h = spyObjs[o].h /\ spyObjs'[o].at = spyObjs[o].at
      /\ spyObjs'[o].dma = spyObjs[o].dma /\ spyObjs'[o] \in Spy!Object
  <2> DEFINE d == [spyObjs[o] EXCEPT !.st = "dead", !.va = FALSE, !.offered = FALSE, !.off = 0]
  <2>1. spyObjs[o] \in Spy!Object
    BY <1>0 DEF Spy!TypeOK
  <2>2. /\ d.st = "dead" /\ d.h = spyObjs[o].h /\ d.at = spyObjs[o].at /\ d.dma = spyObjs[o].dma
        /\ d \in Spy!Object
    BY <2>1 DEF Spy!Object
  <2> HIDE DEF d
  <2>3. spyObjs'[o] = d /\ \A p \in Spy!Objects : p # o => spyObjs'[p] = spyObjs[p]
    BY <1>0, <1>3 DEF Spy!TypeOK, d
  <2> QED BY <2>2, <2>3
<1>5. Spy!Live' = Spy!Live \ {o} /\ Spy!Entries' = Spy!Entries /\ Spy!Live \subseteq Spy!Objects
  BY <1>1, <1>4 DEF Spy!Live, Spy!Entries
<1>6. Spy!TypeOK'
  <2>1. spyObjs' \in [Spy!Objects -> Spy!Object]
    BY <1>0, <1>3, <1>4 DEF Spy!TypeOK
  <2> QED BY <1>0, <1>1, <2>1 DEF Spy!TypeOK
<1>7. Spy!Distinct' /\ Spy!Refreshed'
  <2>1. \A p \in Spy!Live' : p \in Spy!Live /\ spyObjs'[p] = spyObjs[p]
    BY <1>4, <1>5
  <2>2. Spy!Distinct'
    BY <1>0, <2>1 DEF Spy!Distinct
  <2>3. ASSUME ~spyRaced, NEW q \in Spy!Live'
        PROVE  /\ spyObjs'[q].va => spyObjs'[q].offered
               /\ \A i \in Spy!Entries : spyBufs[i].h = spyObjs'[q].h =>
                     /\ spyObjs'[q].offered => spyBufs[i].moff = spyObjs'[q].off
                     /\ spyObjs'[q].va => spyBufs[i].va = q
    <3>1. q \in Spy!Live /\ spyObjs'[q] = spyObjs[q]
      BY <2>1
    <3>2. /\ spyObjs[q].va => spyObjs[q].offered
          /\ \A i \in Spy!Entries : spyBufs[i].h = spyObjs[q].h =>
                /\ spyObjs[q].offered => spyBufs[i].moff = spyObjs[q].off
                /\ spyObjs[q].va => spyBufs[i].va = q
      BY <1>0, <2>3, <3>1 DEF Spy!Refreshed
    <3> QED BY <3>1, <3>2
  <2>4. Spy!Refreshed'
    BY <1>1, <1>5, <2>3 DEF Spy!Refreshed
  <2> QED BY <2>2, <2>4
<1>8. Spy!Flight'
  BY <1>0, <1>1, <1>2, <1>4 DEF Spy!Flight, Spy!TypeOK
<1>9. Spy!Sole'
  BY <1>0, <1>1 DEF Spy!Sole
<1>10. Spy!Table'
  <2> SUFFICES ASSUME ~spyRaced PROVE \E m \in 0..SpyMaxObj : Spy!Filled(m)'
    BY <1>1 DEF Spy!Table
  <2>1. PICK m \in 0..SpyMaxObj : Spy!Filled(m)
    BY <1>0 DEF Spy!Table
  <2>2. ASSUME NEW i \in Spy!Objects, Spy!Describes(i, i) PROVE Spy!Describes(i, i)'
    BY <1>1, <1>4, <2>2 DEF Spy!Describes
  <2>3. (\A i \in 1..spyNbuf : Spy!Describes(i, i))'
    BY <1>0, <1>1, <2>1, <2>2 DEF Spy!Filled, Spy!Objects, Spy!TypeOK
  <2>4. ASSUME NEW u \in SpyThreads, spyPc[u] = "bump" PROVE Spy!Describes(m, m)'
    <3>1. spyCur[u] = m /\ spyCur[u] \in Spy!Objects /\ Spy!Describes(m, m)
      BY <1>0, <2>1, <2>4 DEF Spy!Filled, Spy!Flight, Spy!TypeOK
    <3> QED BY <2>2, <3>1
  <2>5. (\A q \in Spy!Objects : spyObjs[q].st # "none" <=> q <= m)'
    BY <1>2, <1>4, <2>1 DEF Spy!Filled
  <2>6. Spy!Filled(m)'
    BY <1>1, <2>1, <2>3, <2>4, <2>5 DEF Spy!Filled
  <2> QED BY <2>6
<1> QED BY <1>6, <1>7, <1>8, <1>9, <1>10 DEF Spy!SpyInv

\* The inductive invariant: SUBMIT and stuttering leave all of it alone.
LEMMA SpyInvariant == Spec => []Spy!SpyInv
<1> USE SpyAssumption
<1>1. Spy!Init => Spy!SpyInv
  BY SpyInit
<1>2. Spy!SpyInv /\ [Spy!Next]_(Spy!vars) => Spy!SpyInv'
  <2> SUFFICES ASSUME Spy!SpyInv, [Spy!Next]_(Spy!vars) PROVE Spy!SpyInv'
    OBVIOUS
  <2>1. ASSUME spyObjs' = spyObjs, spyBufs' = spyBufs, spyNbuf' = spyNbuf, spyPc' = spyPc, spyCur' = spyCur,
               spySeen' = spySeen, spyRaced' = spyRaced
        PROVE  Spy!SpyInv'
    BY <2>1 DEF Spy!SpyInv, Spy!TypeOK, Spy!Distinct, Spy!Flight, Spy!Sole, Spy!Table, Spy!Refreshed, Spy!Live,
         Spy!Entries,
                Spy!Filled, Spy!Describes
  <2>2. CASE UNCHANGED Spy!vars
    BY <2>1, <2>2 DEF Spy!vars
  <2>3. ASSUME NEW t \in SpyThreads, NEW o \in Spy!Objects, NEW r \in Spy!Objects, Spy!Submit(t, o, r)
        PROVE  Spy!SpyInv'
    BY <2>1, <2>3 DEF Spy!Submit, Spy!vars
  <2> QED BY <2>2, <2>3, SpyCreate, SpyCheckRoom, SpyWriteEntry, SpyBump, SpyMemMap,
             SpyMmap, SpyDestroy DEF Spy!Next
<1>3. Init => Spy!Init
  BY DEF Init
<1> QED BY <1>1, <1>2, <1>3, PartSteps, PTL DEF Spec

\* The lookups return the first entry with the address, or none.
LEMMA SpyFindObj ==
  ASSUME spyNbuf \in Nat, SpyMAXB \in Nat, NEW a
  PROVE  /\ (\E i \in Spy!Entries : spyBufs[i].at = a) =>
               Spy!find_by_obj(a) \in Spy!Entries /\ spyBufs[Spy!find_by_obj(a)].at = a
         /\ ~(\E i \in Spy!Entries : spyBufs[i].at = a) => Spy!find_by_obj(a) = 0
<1>1. Spy!Entries \in SUBSET Nat
  BY DEF Spy!Entries
<1> DEFINE S == {i \in Spy!Entries : spyBufs[i].at = a}
<1>2. ASSUME S # {} PROVE \E i \in S : \A j \in S : i <= j
  <2>1. S \in SUBSET Nat
    BY <1>1
  <2> QED BY <1>2, <2>1, SmallestElement
<1>3. ASSUME \E i \in Spy!Entries : spyBufs[i].at = a
      PROVE  Spy!find_by_obj(a) \in Spy!Entries /\ spyBufs[Spy!find_by_obj(a)].at = a
  <2>1. \E i \in Spy!Entries : spyBufs[i].at = a /\ \A j \in Spy!Entries : spyBufs[j].at = a => i <= j
    BY <1>2, <1>3
  <2> QED BY <1>3, <2>1 DEF Spy!find_by_obj, Spy!First
<1>4. ASSUME ~(\E i \in Spy!Entries : spyBufs[i].at = a) PROVE Spy!find_by_obj(a) = 0
  BY <1>4 DEF Spy!find_by_obj, Spy!First
<1> QED BY <1>3, <1>4

\* The same for a register command's address, in the ranges of the entries.
LEMMA SpyFindDma ==
  ASSUME spyNbuf \in Nat, SpyMAXB \in Nat, NEW a,
         \E i \in Spy!Entries : spyBufs[i].dma.first # 0 /\ Spy!Holds(spyBufs[i].dma, a)
  PROVE  /\ Spy!find_by_dma(a) \in Spy!Entries
         /\ Spy!Holds(spyBufs[Spy!find_by_dma(a)].dma, a)
<1>1. Spy!Entries \in SUBSET Nat
  BY DEF Spy!Entries
<1> DEFINE In(i) == spyBufs[i].dma.first # 0 /\ Spy!Holds(spyBufs[i].dma, a)
           S == {i \in Spy!Entries : In(i)}
<1>2. \E i \in S : \A j \in S : i <= j
  <2>1. S \in SUBSET Nat /\ S # {}
    BY <1>1
  <2> QED BY <2>1, SmallestElement
<1>3. \E i \in Spy!Entries : In(i) /\ \A j \in Spy!Entries : In(j) => i <= j
  BY <1>2
<1> QED BY <1>3 DEF Spy!find_by_dma, Spy!First

\* An entry with the handle of a mapped object reads that object, at an offset
\* within it.
LEMMA SpyReads ==
  ASSUME Spy!SpyConstants, Spy!SpyInv, ~spyRaced, NEW o \in Spy!Live, spyObjs[o].va,
         NEW i \in Spy!Entries, spyBufs[i].h = spyObjs[o].h, NEW off, off < spyObjs[o].dma.size
  PROVE  Spy!ReadThrough(i, off) = o
<1>1. spyBufs[i].va = o
  BY DEF Spy!SpyInv, Spy!Refreshed
<1>2. o # 0 /\ i # 0
  BY DEF Spy!Live, Spy!Objects, Spy!Entries, Spy!SpyConstants, Spy!SpyInv, Spy!TypeOK
<1> QED BY <1>1, <1>2 DEF Spy!ReadThrough

\* While no two MEM_CREATE calls overlap, the table holds the first MAXB
\* objects in the order of creation and nothing is written past it.
LEMMA SpyTable ==
  ASSUME Spy!SpyConstants, Spy!SpyInv
  PROVE  Spy!SpyTableExact
<1> USE DEF Spy!SpyConstants
<1> SUFFICES ASSUME ~spyRaced PROVE Spy!SpyTableExact
  BY DEF Spy!SpyTableExact
<1>1. PICK m \in 0..SpyMaxObj : Spy!Filled(m)
  BY DEF Spy!SpyInv, Spy!Table
<1>2. spyNbuf <= SpyMAXB /\ spyBufs[SpyMAXB + 1] = Spy!Blank
  BY <1>1 DEF Spy!Filled
<1>3. \A i \in 1..spyNbuf : spyBufs[i].of = i /\ spyBufs[i].h = spyObjs[i].h
  BY <1>1 DEF Spy!Filled, Spy!Describes
<1>4. {o \in Spy!Objects : spyObjs[o].st # "none"} = 1..m
  BY <1>1 DEF Spy!Filled, Spy!Objects
<1>5. Cardinality(1..m) = m
  BY FS_Interval
<1>6. ASSUME \A t \in SpyThreads : spyPc[t] = "idle"
      PROVE  spyNbuf = IF m < SpyMAXB THEN m ELSE SpyMAXB
  BY <1>1, <1>6 DEF Spy!Filled, Spy!Smaller
<1> QED BY SpyCount, <1>2, <1>3, <1>4, <1>5, <1>6 DEF Spy!SpyTableExact

\* A submit is decoded from the memory it names.
LEMMA SpyDecodes ==
  ASSUME Spy!SpyConstants, Spy!SpyInv
  PROVE  Spy!SpyDecodesLive
<1> SUFFICES ASSUME NEW o \in Spy!Objects, NEW r \in Spy!Objects, NEW k \in 0..(spyObjs[r].dma.size - 1),
                    Spy!Submittable(o, r), ~spyRaced, ~Spy!Shadowed(o)
             PROVE  LET d == Spy!dump_submit(o, r, k)
                    IN  /\ d.task = IF \E i \in Spy!Entries : spyBufs[i].at = spyObjs[o].at
                                    THEN o ELSE Spy!Missing
                        /\ spyObjs[r].va /\ Spy!Recorded(r) /\ ~Spy!Overlaid(r, k) /\ d.task = o
                             => d.reg = <<r, k>>
  BY DEF Spy!SpyDecodesLive
<1>1. o \in Spy!Live /\ r \in Spy!Live /\ spyObjs[o].va /\ spyNbuf \in Nat /\ SpyMAXB \in Nat
  BY DEF Spy!Submittable, Spy!Usable, Spy!SpyInv, Spy!TypeOK, Spy!SpyConstants
<1>2. \A p \in Spy!Live : spyObjs[p].dma \in SpyAreas
  BY DEF Spy!SpyInv, Spy!Distinct
<1>3. \A c \in SpyAreas : c.first \in Nat \ {0} /\ c.size \in Nat \ {0}
  BY DEF Spy!SpyConstants
<1> DEFINE a == spyObjs[r].dma.first + k
           task == Spy!ReadThrough(Spy!find_by_obj(spyObjs[o].at), 0)
<1>4. task = IF \E i \in Spy!Entries : spyBufs[i].at = spyObjs[o].at THEN o ELSE Spy!Missing
  <2>1. CASE \E i \in Spy!Entries : spyBufs[i].at = spyObjs[o].at
    <3>1. Spy!find_by_obj(spyObjs[o].at) \in Spy!Entries /\
            spyBufs[Spy!find_by_obj(spyObjs[o].at)].at = spyObjs[o].at
      BY <1>1, <2>1, SpyFindObj
    <3>2. spyBufs[Spy!find_by_obj(spyObjs[o].at)].h = spyObjs[o].h
      BY <3>1 DEF Spy!Shadowed
    <3>3. 0 < spyObjs[o].dma.size
      BY <1>1, <1>2, <1>3
    <3>4. task = o
      BY <1>1, <3>1, <3>2, <3>3, SpyReads
    <3> QED BY <2>1, <3>4
  <2>2. CASE ~(\E i \in Spy!Entries : spyBufs[i].at = spyObjs[o].at)
    <3>1. Spy!find_by_obj(spyObjs[o].at) = 0
      BY <1>1, <2>2, SpyFindObj
    <3> QED BY <2>2, <3>1 DEF Spy!ReadThrough
  <2> QED BY <2>1, <2>2
<1>5. ASSUME spyObjs[r].va, Spy!Recorded(r), ~Spy!Overlaid(r, k) PROVE Spy!Commands(a) = <<r, k>>
  <2>1. PICK m \in 0..SpyMaxObj : Spy!Filled(m)
    BY DEF Spy!SpyInv, Spy!Table
  <2>2. PICK i \in Spy!Entries : spyBufs[i].of = r
    BY <1>5 DEF Spy!Recorded
  <2>3. i \in 1..spyNbuf
    BY <2>2, SpyEntries DEF Spy!SpyInv
  <2>4. spyBufs[i].dma = spyObjs[r].dma
    BY <2>1, <2>2, <2>3 DEF Spy!Filled, Spy!Describes
  <2>5. spyObjs[r].dma.first \in Nat \ {0} /\ spyObjs[r].dma.size \in Nat \ {0}
    BY <1>1, <1>2, <1>3
  <2>6. spyBufs[i].dma.first # 0 /\ Spy!Holds(spyBufs[i].dma, a)
    BY <2>4, <2>5 DEF Spy!Holds
  <2> DEFINE j == Spy!find_by_dma(a)
  <2>7. j \in Spy!Entries /\ Spy!Holds(spyBufs[j].dma, a)
    BY <1>1, <2>2, <2>6, SpyFindDma
  <2> HIDE DEF j
  <2>8. spyBufs[j].h = spyObjs[r].h /\ spyBufs[j].dma.first = spyObjs[r].dma.first
    BY <1>5, <2>7 DEF Spy!Overlaid
  <2>9. a - spyBufs[j].dma.first = k /\ k < spyObjs[r].dma.size
    BY <2>5, <2>8
  <2>10. Spy!ReadThrough(j, k) = r
    BY <1>1, <1>5, <2>7, <2>8, <2>9, SpyReads
  <2>11. j # 0
    BY <2>7 DEF Spy!Entries
  <2> QED BY <2>9, <2>10, <2>11 DEF Spy!Commands, j
<1>6. /\ Spy!dump_submit(o, r, k).task = task
      /\ Spy!dump_submit(o, r, k).reg = IF task \in {Spy!Missing, Spy!Unmapped} THEN <<task, 0>>
                                        ELSE Spy!Commands(a)
  BY DEF Spy!dump_submit
<1>7. o \notin {Spy!Missing, Spy!Unmapped}
  BY DEF Spy!Missing, Spy!Unmapped, Spy!Objects, Spy!SpyConstants
<1> HIDE DEF task, a
<1> QED BY <1>4, <1>5, <1>6, <1>7

\* rkspy's table (the MEM_CREATE branch of ioctl()) and what dump_submit()
\* decodes: for any number of threads, objects, entries and names, while
\* no two MEM_CREATE calls have overlapped the table holds the first MAXB
\* objects, and a submit is read from the memory it names, at the offset it
\* names, unless a stale entry claims the object address under another handle
\* or the NPU address under another handle or from another start.
THEOREM SpyExactAlways == Spec => []SpyExact
<1>1. Spy!SpyInv => SpyExact
  BY SpyTable, SpyDecodes, SpyAssumption DEF SpyExact, Spy!SpyExact
<1> QED BY <1>1, SpyInvariant, PTL

-----------------------------------------------------------------------------
(* wake_cpu.c, vruntime_place.c, lb_case.c and sched_weight.c.             *)

\* Starting, forking and the parent's end.
LEMMA ForkBeginSteps ==
  ASSUME Fork!ForkSizes, Fork!ForkInv, (\E p \in Fork!Progs : Fork!Start(p)) \/ Fork!Fork \/ Fork!ForkProbe \/
           Fork!WaitPid \/ Fork!PipeFails \/ Fork!Write
  PROVE  Fork!ForkInv'
<1> USE DEF Fork!ForkInv, Fork!Stages, Fork!Counted, Fork!ForkLabsClean, Fork!ForkSizes, Fork!C, Fork!Failed,
              Fork!Progs, Fork!Unreaped, Fork!pipes
<1>1. CASE \E p \in Fork!Progs : Fork!Start(p)
  BY <1>1 DEF Fork!Start
<1>2. CASE Fork!Fork
  <2>1. /\ forkProg \in Fork!Progs /\ forkProg' = forkProg /\ forkR' = forkR /\ forkStrays' = forkStrays /\
             forkI \in 1..ForkN
        /\ forkI = ForkN => forkI' = 1 /\ forkPc' \in {"write", "probe", "sample"}
        /\ forkI # ForkN => forkI' = forkI + 1 /\ forkPc' = "fork"
        /\ forkPc' = "write" => forkProg = "wake_cpu"
        /\ forkPc' = "probe" => forkProg = "vruntime_place"
        /\ forkPc' = "sample" => forkProg \in {"lb_case", "sched_weight"}
    BY <1>2 DEF Fork!Fork, Fork!AfterForks
  <2>2. /\ forkChild' \in [Fork!C -> {"none", "read", "spin", "brief", "zombie", "gone"}]
        /\ forkPid' \in [Fork!C -> 0..Fork!Failed] /\ forkFailed' \in BOOLEAN
    <3>1. forkChild' \in [Fork!C -> {"none", "read", "spin", "brief", "zombie", "gone"}]
      BY <1>2 DEF Fork!Fork
    <3>2. forkPid' \in [Fork!C -> 0..Fork!Failed]
      BY <1>2 DEF Fork!Fork
    <3>3. forkFailed' \in BOOLEAN
      BY <1>2 DEF Fork!Fork
    <3> QED BY <3>1, <3>2, <3>3
  <2>3. \A c \in Fork!C : forkPid'[c] = IF c = forkI THEN forkPid'[forkI] ELSE forkPid[c]
    BY <1>2 DEF Fork!Fork
  <2>4. forkPid'[forkI] \in {forkI, Fork!Failed} /\ (forkPid'[forkI] = Fork!Failed => forkFailed') /\
          (forkFailed => forkFailed')
    BY <1>2 DEF Fork!Fork
  <2>5. \A c \in Fork!C : forkPid'[c] = Fork!Failed => forkFailed'
    BY <2>3, <2>4
  <2>6. \A c \in 1..ForkN : (forkPc' = "fork" => c < forkI') => forkPid'[c] \in {c, Fork!Failed}
    BY <2>1, <2>3, <2>4, <1>2 DEF Fork!Fork
  <2>7. Fork!Stages'
    <3>1. forkProg' \in Fork!Progs /\ forkI' \in 1..(ForkN + 1) /\ forkR' \in Nat /\ forkStrays' \in BOOLEAN
      BY <2>1
    <3>2. /\ forkPc' \in {"fork", "write", "sample", "probe"}
          /\ forkPc' = "fork" => forkR' = 0
          /\ forkPc' \in {"fork", "write"} => forkI' <= ForkN
          /\ forkPc' \in {"sample", "probe"} => forkI' = 1
      BY <1>2, <2>1 DEF Fork!Fork
    <3> QED BY <2>1, <2>2, <2>5, <2>6, <3>1, <3>2
  <2>8. Fork!Counted'
    BY <1>2 DEF Fork!Fork, Fork!AfterForks
  <2>9. Fork!ForkLabsClean'
    BY <1>2 DEF Fork!Fork, Fork!AfterForks
  <2> QED BY <2>7, <2>8, <2>9
<1>3. CASE Fork!ForkProbe
  <2>1. Fork!Stages'
    <3>1. forkChild' \in [Fork!C -> {"none", "read", "spin", "brief", "zombie", "gone"}]
      BY <1>3 DEF Fork!ForkProbe
    <3>2. forkPid' \in [Fork!C -> 0..Fork!Failed]
      <4>1. forkPid' = [forkPid EXCEPT ![ForkN + 1] = ForkN + 1] \/
              forkPid' = [forkPid EXCEPT ![ForkN + 1] = Fork!Failed]
        BY <1>3 DEF Fork!ForkProbe
      <4>2. ForkN + 1 \in 0..Fork!Failed /\ Fork!Failed \in 0..Fork!Failed
        OBVIOUS
      <4> QED BY <4>1, <4>2
    <3>3. forkFailed' \in BOOLEAN
      BY <1>3 DEF Fork!ForkProbe
    <3>4. /\ \A c \in 1..ForkN : c \in Fork!C /\ forkPid'[c] = forkPid[c]
          /\ \A c \in Fork!C : forkPid'[c] = Fork!Failed => forkFailed'
      BY <1>3 DEF Fork!ForkProbe
    <3> QED BY <1>3, <3>1, <3>2, <3>3, <3>4 DEF Fork!ForkProbe
  <2>2. Fork!Counted'
    BY <1>3 DEF Fork!ForkProbe
  <2>3. Fork!ForkLabsClean'
    BY <1>3 DEF Fork!ForkProbe
  <2> QED BY <2>1, <2>2, <2>3
<1>4. CASE Fork!WaitPid
  BY <1>4 DEF Fork!WaitPid
<1>5. CASE Fork!PipeFails
  BY <1>5 DEF Fork!PipeFails, Fork!ParentGone
<1>6. CASE Fork!Write
  BY <1>6 DEF Fork!Write, Fork!ParentGone
<1> QED BY <1>1, <1>2, <1>3, <1>4, <1>5, <1>6

\* Rounds and samples.
LEMMA ForkRoundSteps ==
  ASSUME Fork!ForkSizes, Fork!ForkInv, Fork!ReadAnswer \/ Fork!SampleCpus \/ Fork!Snapshot
  PROVE  Fork!ForkInv'
<1> USE DEF Fork!ForkInv, Fork!Stages, Fork!Counted, Fork!ForkLabsClean, Fork!ForkSizes, Fork!C, Fork!Failed,
              Fork!Progs, Fork!Unreaped, Fork!pipes
<1>1. CASE Fork!ReadAnswer
  <2>1. Fork!Stages'
    BY <1>1 DEF Fork!ReadAnswer
  <2>2. (forkR + 1) * ForkN = forkR * ForkN + ForkN
    OBVIOUS
  <2>3. forkR * ForkN \in Nat
    OBVIOUS
  <2>4. forkR + 1 = ForkROUNDS => ForkROUNDS * ForkN = forkR * ForkN + ForkN /\
          ForkROUNDS * ForkN = ForkN * ForkROUNDS
    BY <2>2
  <2>5. Fork!Counted'
    <3>1. CASE forkI # ForkN
      BY <1>1, <2>3, <3>1 DEF Fork!ReadAnswer
    <3>2. CASE forkI = ForkN /\ forkR + 1 = ForkROUNDS
      BY <1>1, <2>3, <2>4, <3>2 DEF Fork!ReadAnswer
    <3>3. CASE forkI = ForkN /\ forkR + 1 # ForkROUNDS
      BY <1>1, <2>2, <2>3, <3>3 DEF Fork!ReadAnswer
    <3> QED BY <3>1, <3>2, <3>3
  <2>6. Fork!ForkLabsClean'
    BY <1>1 DEF Fork!ReadAnswer
  <2> QED BY <2>1, <2>5, <2>6
<1>2. CASE Fork!SampleCpus
  BY <1>2 DEF Fork!SampleCpus
<1>3. CASE Fork!Snapshot
  <2>1. Fork!Stages'
    BY <1>3 DEF Fork!Snapshot
  <2>2. {c \in 1..ForkN : forkPid[c] = c} \subseteq 1..ForkN /\ IsFiniteSet(1..ForkN) /\
          Cardinality(1..ForkN) = ForkN
    BY FS_Interval
  <2>3. Cardinality({c \in 1..ForkN : forkPid[c] = c}) \in Nat
    BY <2>2, FS_Subset, FS_CardinalityType
  <2>4. ~forkFailed => {c \in 1..ForkN : forkPid[c] = c} = 1..ForkN
    BY <1>3 DEF Fork!Snapshot
  <2>5. ~forkFailed => Cardinality({c \in 1..ForkN : forkPid[c] = c}) = ForkN
    BY <2>2, <2>4
  <2>6. Fork!Counted'
    BY <1>3, <2>3, <2>5, ForkCount DEF Fork!Snapshot
  <2>7. Fork!ForkLabsClean'
    BY <1>3 DEF Fork!Snapshot
  <2> QED BY <2>1, <2>6, <2>7
<1> QED BY <1>1, <1>2, <1>3

\* The children, and how they are killed and reaped.
LEMMA ForkEndSteps ==
  ASSUME Fork!ForkSizes, Fork!ForkInv, Fork!Kill \/ Fork!Wait \/ Fork!ProbeExits \/
           (\E c \in Fork!C : Fork!Child(c)) \/ UNCHANGED Fork!vars
  PROVE  Fork!ForkInv'
<1> USE DEF Fork!ForkInv, Fork!Stages, Fork!Counted, Fork!ForkLabsClean, Fork!ForkSizes, Fork!C, Fork!Failed,
              Fork!Progs, Fork!Unreaped, Fork!pipes
<1>1. CASE Fork!Kill
  <2>1. Fork!Stages'
    BY <1>1 DEF Fork!Kill
  <2>2. Fork!Counted'
    BY <1>1 DEF Fork!Kill
  <2>3. Fork!ForkLabsClean'
    BY <1>1 DEF Fork!Kill
  <2> QED BY <2>1, <2>2, <2>3
<1>2. CASE Fork!Wait
  <2>1. Fork!Stages'
    BY <1>2 DEF Fork!Wait
  <2>2. Fork!Counted'
    BY <1>2 DEF Fork!Wait
  <2>3. Fork!ForkLabsClean'
    BY <1>2 DEF Fork!Wait
  <2> QED BY <2>1, <2>2, <2>3
<1>3. CASE Fork!ProbeExits
  BY <1>3 DEF Fork!ProbeExits, Fork!Ended
<1>4. CASE \E c \in Fork!C : Fork!Child(c)
  <2>1. /\ UNCHANGED <<forkProg, forkPc, forkI, forkR, forkPid, forkHist, forkFailed, forkStrays>>
        /\ forkChild' \in [Fork!C -> {"none", "read", "spin", "brief", "zombie", "gone"}]
        /\ Fork!Unreaped # {}
    BY <1>4 DEF Fork!Child, Fork!Answer, Fork!EndOfFile, Fork!Ended
  <2> QED BY <2>1
<1>5. CASE UNCHANGED Fork!vars
  BY <1>5 DEF Fork!vars
<1> QED BY <1>1, <1>2, <1>3, <1>4, <1>5

LEMMA ForkSteps == Fork!ForkSizes /\ Fork!ForkInv /\ [Fork!Next]_(Fork!vars) => Fork!ForkInv'
  BY ForkBeginSteps, ForkRoundSteps, ForkEndSteps DEF Fork!Next, Fork!Parent

LEMMA ForkStart == Fork!ForkSizes /\ Fork!Init => Fork!ForkInv
<1> SUFFICES ASSUME Fork!ForkSizes, Fork!Init PROVE Fork!ForkInv
  OBVIOUS
<1> USE DEF Fork!Init, Fork!ForkSizes, Fork!C, Fork!Failed, Fork!Progs
<1>1. Fork!Stages
  <2>1. forkPc = "start" /\ forkProg = "none" /\ forkR = 0 /\ forkI = 1 /\ forkI \in 1..(ForkN + 1)
    OBVIOUS
  <2>2. forkChild \in [Fork!C -> {"none", "read", "spin", "brief", "zombie", "gone"}] /\
          forkPid \in [Fork!C -> 0..Fork!Failed]
    OBVIOUS
  <2>3. \A c \in Fork!C : forkPid[c] # Fork!Failed
    OBVIOUS
  <2>4. forkFailed \in BOOLEAN /\ forkStrays \in BOOLEAN
    OBVIOUS
  <2> HIDE DEF Fork!Init
  <2> QED BY <2>1, <2>2, <2>3, <2>4 DEF Fork!Stages
<1>2. Fork!Counted /\ Fork!ForkLabsClean
  BY DEF Fork!Counted, Fork!ForkLabsClean
<1> QED BY <1>1, <1>2 DEF Fork!ForkInv

-----------------------------------------------------------------------------
(* lse_bench.c, heat.c and membw.c.                                        *)

\* The arrays of the benchmarks are added up as in Sums.
LEMMA ThrSum == \A f, m : Thr!Sum(f, m) = Sum(f, m)
BY DEF Thr!Sum, Sum

LEMMA ThrSumSteps ==
  ASSUME NEW f, NEW m \in Nat, \A k \in 1..m : f[k] \in Int
  PROVE  /\ Thr!Sum(f, 0) = 0
         /\ \A j \in 1..m : Thr!Sum(f, j) = Thr!Sum(f, j - 1) + f[j]
         /\ \A j \in 0..m : Thr!Sum(f, j) \in Int
BY ThrSum, SumSteps

LEMMA ThrSumShift ==
  ASSUME NEW f, NEW g, NEW m, NEW i, NEW d, Shifted(f, g, m, i, d)
  PROVE  Thr!Sum(g, m) = Thr!Sum(f, m) + d
BY ThrSum, SumShift

LEMMA ThrSumSame ==
  ASSUME NEW f, NEW g, NEW m \in Nat, \A k \in 1..m : f[k] \in Int /\ g[k] = f[k]
  PROVE  Thr!Sum(g, m) = Thr!Sum(f, m)
BY ThrSum, SumSame

LEMMA ThrSumConstant ==
  ASSUME NEW f, NEW m \in Nat, NEW c \in Int, \A k \in 1..m : f[k] = c
  PROVE  Thr!Sum(f, m) = m * c
BY ThrSum, SumConstant

\* main() starts a program and the next run() of lse_bench.
LEMMA ThrStartSteps ==
  ASSUME Thr!ThrSizes, Thr!ThrInv, Thr!Start \/ Thr!Setup
  PROVE  Thr!ThrInv'
<1> USE DEF Thr!ThrInv, Thr!ThrSizes
<1>1. CASE Thr!Start
  <2> USE <1>1 DEF Thr!Start
  <2>1. Thr!TypeOK'
    <3>1. thrCpus' \in [Thr!T -> Nat]
      BY DEF Thr!T, Thr!Zero
    <3> QED BY <3>1 DEF Thr!TypeOK
  <2>2. \A t \in Thr!T : thrTh[t] = "none" /\ thrTh' = thrTh /\ thrN' = thrN /\ thrN[t] = 0
    BY DEF Thr!Joined, Thr!TypeOK, Thr!T
  <2>3. Thr!Joined'
    BY <2>2 DEF Thr!Joined, Thr!Working, Thr!Many, Thr!TypeOK, Thr!T
  <2>4. thrProg = "none" /\ thrRound = 0 /\ thrPc # "setup"
    BY DEF Thr!Joined
  <2>5. Thr!Tallied'
    <3>1. Thr!Many' \in 1..ThrNthr /\ Thr!Many = ThrNthr
      BY <2>4 DEF Thr!Many, Thr!TypeOK
    <3>2. \A t \in 1..ThrNthr : thrN[t] = 0
      BY <2>2 DEF Thr!T
    <3>3. \A t \in 1..Thr!Many' : thrN[t] = 0
      BY <3>1, <3>2
    <3>4. Thr!Sum(thrN, Thr!Many') = Thr!Many' * 0 /\ Thr!Many' * 0 = 0
      <4> DEFINE m == Thr!Many'
      <4>1. m \in Nat /\ \A t \in 1..m : thrN[t] = 0
        BY <3>1, <3>3
      <4> HIDE DEF m
      <4>2. Thr!Sum(thrN, m) = m * 0 /\ m * 0 = 0
        BY <4>1, ThrSumConstant
      <4> QED BY <4>2 DEF m
    <3>5. Thr!Sum(thrN, ThrNthr) = ThrNthr * 0 /\ ThrNthr * 0 = 0
      BY <3>2, ThrSumConstant
    <3>6. Thr!Sum(thrN', Thr!Many') = Thr!Sum(thrN, Thr!Many) /\ thrN' = thrN
      BY <3>1, <3>4, <3>5
    <3>7. /\ thrRound' = 1 /\ thrPc' = "create" /\ thrCounter' = thrCounter
          /\ thrCounter.priv = Thr!Zero /\ thrCounter.shared = Thr!Sum(thrN, Thr!Many)
          /\ thrCpus' \in IF thrProg' = "heat" THEN [Thr!T -> Thr!T] ELSE {Thr!Zero}
      BY <2>4 DEF Thr!Tallied
    <3>8. \A t \in Thr!T : thrTh'[t] # "over"
      BY <2>2
    <3> HIDE <1>1 DEF Thr!Start, Thr!ThrInv, Thr!ThrSizes
    <3> QED BY <3>6, <3>7, <3>8 DEF Thr!Tallied
  <2>6. Thr!Barrier'
    <3>1. \A t \in Thr!T : thrN'[t] = 0 /\ thrTh'[t] = "none"
      BY <2>2
    <3>2. 0 \in 0..(3 * ThrROUNDS)
      OBVIOUS
    <3> QED BY <2>2, <3>1, <3>2 DEF Thr!Barrier
  <2>7. Thr!CountsExact'
    BY DEF Thr!CountsExact
  <2> QED BY <2>1, <2>3, <2>5, <2>6, <2>7
<1>2. CASE Thr!Setup
  <2> USE <1>2 DEF Thr!Setup
  <2>1. Thr!TypeOK'
    <3>1. thrSlots' \in [Thr!T -> Nat] /\ thrN' \in [Thr!T -> Nat] /\ 1 \in 1..(ThrNthr + 1)
      BY DEF Thr!Zero
    <3>2. thrCounter' \in [shared : Nat, priv : [Thr!T -> Nat]]
      BY DEF Thr!TypeOK
    <3>3. thrTh' \in [Thr!T -> {"none", "born", "loop", "add", "leave", "wait", "work", "over", "fail"}]
      OBVIOUS
    <3> QED BY <3>1, <3>2, <3>3 DEF Thr!TypeOK
  <2>2. thrProg = "lse" /\ thrProg' = "lse"
    BY DEF Thr!Joined
  <2>3. \A t \in Thr!T : thrTh'[t] = "none" /\ thrN'[t] = 0 /\ thrSlots'[t] = 0
    BY DEF Thr!T, Thr!Zero
  <2>4. Thr!Joined'
    BY <2>2, <2>3 DEF Thr!Joined, Thr!Many, Thr!Working, Thr!TypeOK
  <2>5. Thr!Tallied'
    <3>1. Thr!Many' \in 1..ThrNthr
      BY DEF Thr!Many, Thr!TypeOK
    <3>2. \A t \in 1..ThrNthr : thrN'[t] = 0
      BY <2>3 DEF Thr!T
    <3>3. Thr!Sum(thrN', Thr!Many') = Thr!Many' * 0
      BY <3>1, <3>2, ThrSumConstant
    <3>4. thrCounter.priv = Thr!Zero /\ thrCounter'.priv = thrCounter.priv /\ thrCounter'.shared = 0
      BY <2>2 DEF Thr!Tallied, Thr!TypeOK
    <3> QED BY <2>2, <2>3, <3>1, <3>3, <3>4 DEF Thr!Tallied
  <2>6. Thr!Barrier'
    BY <2>2, <2>3 DEF Thr!Barrier
  <2>7. Thr!CountsExact'
    BY <2>2 DEF Thr!CountsExact
  <2> QED BY <2>1, <2>4, <2>5, <2>6, <2>7
<1> QED BY <1>1, <1>2

\* main() creates the threads, sleeps and joins them.
LEMMA ThrWaitSteps ==
  ASSUME Thr!ThrSizes, Thr!ThrInv, Thr!Create \/ Thr!StopAll \/ Thr!Join
  PROVE  Thr!ThrInv'
<1> USE DEF Thr!ThrInv, Thr!ThrSizes
<1>1. CASE Thr!Create
  <2> USE <1>1 DEF Thr!Create
  <2>1. CASE thrNext \in Thr!Working
    <3>1. PICK s \in {"born", "fail"} : thrTh' = [thrTh EXCEPT ![thrNext] = s]
      BY <2>1
    <3>2. /\ thrPc' = "create" /\ thrNext' = thrNext + 1 /\ thrNext \in Thr!T /\ thrTh[thrNext] = "none" /\
               thrN[thrNext] = 0
          /\ UNCHANGED <<thrProg, thrRound, thrN, thrStop, thrCounter, thrSlots, thrCpus, thrPrinted,
               thrArrived>>
          /\ thrProg # "none" /\ thrRound \in 1..3 /\ (thrRound > 1 => thrProg = "lse")
      BY <2>1 DEF Thr!Working, Thr!Many, Thr!T, Thr!TypeOK, Thr!Joined
    <3>3. \A t \in Thr!T : thrTh'[t] = IF t = thrNext THEN s ELSE thrTh[t]
      BY <3>1 DEF Thr!TypeOK
    <3>4. Thr!TypeOK'
      <4>1. thrNext + 1 \in 1..(ThrNthr + 1)
        BY <3>2 DEF Thr!T
      <4>2. thrTh' \in [Thr!T -> {"none", "born", "loop", "add", "leave", "wait", "work", "over", "fail"}]
        BY <3>1 DEF Thr!TypeOK
      <4> QED BY <3>2, <4>1, <4>2 DEF Thr!TypeOK
    <3>5. Thr!Joined'
      <4>1. thrPc = "create" /\ Thr!Many' = Thr!Many /\ Thr!Working' = Thr!Working /\
              thrNext + 1 <= Thr!Many + 1 /\ s # "none"
        BY <2>1, <3>2 DEF Thr!Working, Thr!Many, Thr!T
      <4>2. \A t \in Thr!T : t >= thrNext + 1 => t # thrNext /\ t >= thrNext
        BY <3>2 DEF Thr!T
      <4>3. \A t \in Thr!T : t >= thrNext' => thrTh'[t] = "none"
        BY <3>2, <3>3, <4>1, <4>2 DEF Thr!Joined
      <4>4. \A t \in Thr!T : (thrTh'[t] # "none" => t \in Thr!Working) /\ (thrTh'[t] = "none" => thrN'[t] = 0)
        BY <2>1, <3>2, <3>3, <4>1 DEF Thr!Joined
      <4> QED BY <3>2, <4>1, <4>3, <4>4 DEF Thr!Joined
    <3>6. Thr!Tallied'
      <4>1. Thr!Many' = Thr!Many /\ thrPc = "create" /\ \A t \in Thr!T : thrTh'[t] = "over" => thrTh[t] = "over"
        BY <3>2, <3>3 DEF Thr!Many
      <4>2. \A t \in Thr!T : thrTh[t] = "over" => thrTh'[t] = "over"
        BY <3>2, <3>3
      <4> QED BY <3>2, <4>1, <4>2 DEF Thr!Tallied
    <3>7. Thr!Barrier'
      BY <3>2, <3>3 DEF Thr!Barrier
    <3>8. Thr!CountsExact'
      BY <3>2 DEF Thr!CountsExact
    <3> QED BY <3>4, <3>5, <3>6, <3>7, <3>8
  <2>2. CASE thrNext \notin Thr!Working
    <3>1. /\ thrPc' \in {"join", "sleep"} /\ thrNext' = 1 /\ thrPc = "create"
          /\ UNCHANGED <<thrProg, thrRound, thrTh, thrN, thrStop, thrCounter, thrSlots, thrCpus, thrPrinted,
               thrArrived>>
      BY <2>2
    <3>2. Thr!TypeOK'
      BY <3>1 DEF Thr!TypeOK
    <3>3. Thr!Joined'
      BY <3>1 DEF Thr!Joined, Thr!Working, Thr!Many, Thr!TypeOK, Thr!T
    <3>4. Thr!Tallied' /\ Thr!Barrier' /\ Thr!CountsExact'
      BY <3>1 DEF Thr!Tallied, Thr!Barrier, Thr!CountsExact, Thr!Many
    <3> QED BY <3>2, <3>3, <3>4
  <2> QED BY <2>1, <2>2
<1>2. CASE Thr!StopAll
  <2> USE <1>2 DEF Thr!StopAll
  <2>1. Thr!TypeOK'
    BY DEF Thr!TypeOK
  <2>3. Thr!Joined'
    <3>1. thrNext = 1 /\ Thr!Many' = Thr!Many /\ Thr!Working' = Thr!Working /\ Thr!Many \in Nat
      BY DEF Thr!Joined, Thr!Working, Thr!Many
    <3>2. \A t \in Thr!T : ~ (t < thrNext)
      BY <3>1 DEF Thr!T
    <3> QED BY <3>1, <3>2 DEF Thr!Joined
  <2>2. Thr!Tallied' /\ Thr!Barrier' /\ Thr!CountsExact'
    BY DEF Thr!Tallied, Thr!Barrier, Thr!CountsExact, Thr!Many
  <2> QED BY <2>1, <2>2, <2>3
<1>3. CASE Thr!Join
  <2> USE <1>3 DEF Thr!Join
  <2>1. Thr!TypeOK'
    BY DEF Thr!TypeOK, Thr!Working, Thr!Many
  <2>2. Thr!Joined'
    <3>1. Thr!Many' = Thr!Many /\ Thr!Working' = Thr!Working /\ Thr!Many \in 1..ThrNthr
      BY DEF Thr!Working, Thr!Many
    <3>2. CASE thrNext \notin Thr!Working
      <4>1. thrNext > Thr!Many
        BY <3>1, <3>2 DEF Thr!Working, Thr!TypeOK
      <4>2. \A t \in Thr!Working : t < thrNext /\ t \in Thr!T
        BY <3>1, <4>1 DEF Thr!Working, Thr!T, Thr!TypeOK
      <4> QED BY <3>1, <3>2, <4>2 DEF Thr!Joined
    <3>3. CASE thrNext \in Thr!Working /\ thrTh[thrNext] = "over"
      <4>1. thrNext + 1 <= Thr!Many + 1 /\ \A t \in Thr!T : t < thrNext + 1 => t = thrNext \/ t < thrNext
        BY <3>1, <3>3 DEF Thr!Working, Thr!T, Thr!TypeOK
      <4> QED BY <3>1, <3>3, <4>1 DEF Thr!Joined
    <3>4. CASE thrNext \in Thr!Working /\ thrTh[thrNext] = "fail"
      BY <3>1, <3>4 DEF Thr!Joined
    <3> QED BY <3>2, <3>3, <3>4
  <2>3. Thr!Tallied' /\ Thr!Barrier' /\ Thr!CountsExact'
    BY DEF Thr!Tallied, Thr!Barrier, Thr!CountsExact, Thr!Many
  <2> QED BY <2>1, <2>2, <2>3
<1> QED BY <1>1, <1>2, <1>3

\* main() prints what the threads have left.
LEMMA ThrReportSteps ==
  ASSUME Thr!ThrSizes, Thr!ThrInv, Thr!Report
  PROVE  Thr!ThrInv'
<1> USE DEF Thr!ThrInv, Thr!ThrSizes, Thr!Report
<1>1. Thr!TypeOK'
  <2>1. \A t \in Thr!T : thrProg = "heat" => thrCpus[t] \in Thr!T /\ thrSlots[thrCpus[t]] \in Int
    BY DEF Thr!TypeOK, Thr!Tallied
  <2>2. Thr!Many \in 1..ThrNthr
    BY DEF Thr!Many
  <2>3. Thr!Sum(thrSlots, Thr!Many) \in Int
    <3>1. Thr!Many \in Nat /\ Thr!Many \in 0..Thr!Many /\ \A k \in 1..Thr!Many : thrSlots[k] \in Int
      BY <2>2 DEF Thr!TypeOK, Thr!T
    <3> QED BY <3>1, ThrSumSteps
  <2>4. thrPrinted' \in [Thr!T -> Int]
    BY <2>1, <2>3
  <2>5. thrPc' \in {"setup", "done"} /\ thrRound' \in 0..3
    BY DEF Thr!TypeOK
  <2> QED BY <2>4, <2>5 DEF Thr!TypeOK
<1>2. Thr!Joined'
  <2>1. /\ thrPc = "report" /\ thrPc' \in {"setup", "done"} /\ thrProg \in {"lse", "heat", "membw"} /\
             thrRound \in 1..3
        /\ UNCHANGED <<thrProg, thrNext, thrTh, thrN>> /\ \A t \in Thr!Working : thrTh[t] = "over"
    BY DEF Thr!Joined, Thr!TypeOK
  <2>2. \/ thrProg = "lse" /\ thrRound < 3 /\ thrPc' = "setup" /\ thrRound' = thrRound + 1
        \/ thrPc' = "done" /\ thrRound' = thrRound
    OBVIOUS
  <2>3. \A t \in Thr!T : thrTh[t] \in {"none", "over"}
    BY <2>1 DEF Thr!Joined
  <2>4. thrRound' \in 1..3 /\ (thrRound' > 1 \/ thrPc' = "setup" => thrProg = "lse")
    BY <2>1, <2>2 DEF Thr!Joined
  <2>5. Thr!Working \subseteq Thr!Working'
    BY <2>1, <2>2 DEF Thr!Working, Thr!Many, Thr!TypeOK
  <2>6. thrPc' = "done" => Thr!Working' = Thr!Working
    BY <2>1, <2>2 DEF Thr!Working, Thr!Many
  <2> QED BY <2>1, <2>3, <2>4, <2>5, <2>6 DEF Thr!Joined
<1>3. Thr!Tallied'
  BY DEF Thr!Tallied, Thr!Joined, Thr!Many, Thr!TypeOK
<1>4. Thr!Barrier'
  BY DEF Thr!Barrier
<1>5. Thr!CountsExact'
  <2>1. Thr!Many \in 1..ThrNthr /\ \A t \in 1..Thr!Many : t \in Thr!T /\ thrTh[t] = "over" /\
          thrN[t] \in Int /\ thrSlots[t] \in Int
    BY DEF Thr!Many, Thr!Joined, Thr!Working, Thr!TypeOK, Thr!T
  <2>2. 1 \in Thr!T
    BY DEF Thr!T
  <2>3. ASSUME thrProg = "lse"
        PROVE  thrPrinted'[1] = IF thrPc' = "done" THEN Thr!Sum(thrCounter'.priv,
                 ThrNthr) ELSE thrCounter'.shared
    <3>1. Thr!Sum(thrSlots, Thr!Many) = Thr!Sum(thrN, Thr!Many)
      BY <2>1, <2>3, ThrSumSame DEF Thr!Tallied, Thr!T
    <3>2. thrPrinted'[1] = Thr!Sum(thrN, Thr!Many)
      BY <2>2, <2>3, <3>1
    <3>3. CASE thrRound < 3
      BY <2>3, <3>2, <3>3 DEF Thr!Tallied
    <3>4. CASE ~ (thrRound < 3)
      BY <2>3, <3>2, <3>4 DEF Thr!Tallied, Thr!TypeOK, Thr!Many
    <3> QED BY <3>3, <3>4
  <2>4. ASSUME thrProg = "heat", NEW t \in Thr!T
        PROVE  \E u \in Thr!T : thrCpus'[u] = thrCpus'[t] /\ thrPrinted'[t] = thrN'[u]
    <3>1. thrTh[t] = "over"
      BY <2>4 DEF Thr!Joined, Thr!Working, Thr!Many, Thr!T
    <3>2. PICK u \in Thr!T : thrCpus[u] = thrCpus[t] /\ thrSlots[thrCpus[t]] = thrN[u]
      BY <2>4, <3>1 DEF Thr!Tallied
    <3> QED BY <2>4, <3>2
  <2>5. ASSUME thrProg = "membw" PROVE thrPrinted'[1] = ThrNthr * 3 * ThrROUNDS
    <3>1. Thr!Many = ThrNthr /\ \A t \in 1..ThrNthr : thrSlots[t] = 3 * ThrROUNDS
      BY <2>1, <2>5 DEF Thr!Tallied, Thr!T, Thr!Many
    <3>2. Thr!Sum(thrSlots, Thr!Many) = ThrNthr * (3 * ThrROUNDS)
      BY <3>1, ThrSumConstant
    <3>3. thrPrinted'[1] = ThrNthr * (3 * ThrROUNDS)
      BY <2>2, <2>5, <3>2
    <3> QED BY <3>3
  <2>6. \A t \in Thr!T : thrTh'[t] \in {"none", "over"}
    BY DEF Thr!Joined, Thr!Working, Thr!T
  <2> QED BY <2>3, <2>4, <2>5, <2>6 DEF Thr!CountsExact
<1> QED BY <1>1, <1>2, <1>3, <1>4, <1>5

\* The threads of lse_bench and heat: one iteration and its count.
LEMMA ThrLoopSteps ==
  ASSUME Thr!ThrSizes, Thr!ThrInv, NEW t \in Thr!T, Thr!Test(t) \/ Thr!Add(t) \/ Thr!Finish(t)
  PROVE  Thr!ThrInv'
<1> USE DEF Thr!ThrInv, Thr!ThrSizes
<1>0. /\ UNCHANGED <<thrProg, thrPc, thrRound, thrNext, thrStop, thrCpus, thrPrinted, thrArrived>>
      /\ thrTh[t] \in {"born", "loop", "add", "leave"} /\ thrTh[t] # "over" /\ thrTh[t] # "none"
      /\ thrTh' = [thrTh EXCEPT ![t] = thrTh'[t]] /\ thrTh'[t] \in {"leave", "add", "loop", "over"}
      /\ \A u \in Thr!T : u # t => thrTh'[u] = thrTh[u]
      /\ thrProg \in {"lse", "heat"}
  <2>1. thrProg \in {"lse", "heat"} /\ thrTh[t] \in {"born", "loop", "add", "leave"}
    <3>1. thrTh[t] \in {"born", "loop", "add", "leave"} /\ (thrTh[t] = "born" => thrProg \in {"lse", "heat"})
      BY DEF Thr!Test, Thr!Add, Thr!Finish
    <3>2. thrProg # "none"
      BY <3>1 DEF Thr!Joined, Thr!TypeOK, Thr!T
    <3>3. thrTh[t] # "born" => thrProg # "membw"
      BY <3>1 DEF Thr!Barrier
    <3> QED BY <3>1, <3>2, <3>3 DEF Thr!TypeOK
  <2>2. PICK s \in {"leave", "add", "loop", "over"} : thrTh' = [thrTh EXCEPT ![t] = s]
    BY DEF Thr!Test, Thr!Add, Thr!Finish
  <2>3. thrTh'[t] = s /\ \A u \in Thr!T : u # t => thrTh'[u] = thrTh[u]
    BY <2>2 DEF Thr!TypeOK
  <2> QED BY <2>1, <2>2, <2>3 DEF Thr!Test, Thr!Add, Thr!Finish
<1>1. thrPc \in {"create", "sleep", "join", "wild"} /\ (thrPc = "join" => t >= thrNext) /\ t \in Thr!Working
  <2>1. t \in Thr!Working /\ thrPc \notin {"start", "report", "done", "setup"}
    BY <1>0 DEF Thr!Joined
  <2>2. thrPc = "join" => ~ (t < thrNext)
    BY <1>0 DEF Thr!Joined
  <2> QED BY <2>1, <2>2 DEF Thr!TypeOK, Thr!T
<1>2. Thr!TypeOK'
  <2>1. thrTh' \in [Thr!T -> {"none", "born", "loop", "add", "leave", "wait", "work", "over", "fail"}]
    BY <1>0 DEF Thr!TypeOK
  <2>2. thrN' \in [Thr!T -> Nat]
    BY DEF Thr!Test, Thr!Add, Thr!Finish, Thr!TypeOK
  <2>3. thrSlots' \in [Thr!T -> Nat]
    BY DEF Thr!Test, Thr!Add, Thr!Finish, Thr!TypeOK
  <2>4. thrCounter' \in [shared : Nat, priv : [Thr!T -> Nat]]
    <3>1. CASE Thr!Add(t)
      BY <3>1 DEF Thr!Add, Thr!TypeOK
    <3>2. CASE Thr!Test(t) \/ Thr!Finish(t)
      BY <3>2 DEF Thr!Test, Thr!Finish, Thr!TypeOK
    <3> QED BY <3>1, <3>2
  <2> QED BY <1>0, <2>1, <2>2, <2>3, <2>4 DEF Thr!TypeOK
<1>3. Thr!Joined'
  <2>1. \A u \in Thr!T : u # t => thrN'[u] = thrN[u]
    BY DEF Thr!Test, Thr!Add, Thr!Finish, Thr!TypeOK
  <2> QED BY <1>0, <1>1, <2>1 DEF Thr!Joined, Thr!Working, Thr!Many, Thr!TypeOK, Thr!T
<1>4. Thr!Tallied'
  <2>1. CASE Thr!Test(t)
    <3>1. Thr!Many' = Thr!Many /\ UNCHANGED <<thrN, thrSlots, thrCounter>> /\ thrTh'[t] # "over"
      BY <1>0, <2>1 DEF Thr!Test, Thr!Many, Thr!TypeOK
    <3>2. \A u \in Thr!T : thrTh'[u] = "over" <=> thrTh[u] = "over"
      BY <1>0, <3>1
    <3> QED BY <1>0, <3>1, <3>2 DEF Thr!Tallied
  <2>2. CASE Thr!Add(t)
    <3>0. /\ thrN' = [thrN EXCEPT ![t] = thrN[t] + 1] /\ thrSlots' = thrSlots /\ thrTh'[t] = "loop" /\
               thrN \in [Thr!T -> Nat]
          /\ \A u \in Thr!T : thrN'[u] = IF u = t THEN thrN[u] + 1 ELSE thrN[u]
      BY <2>2, <1>0 DEF Thr!Add, Thr!TypeOK
    <3>1. CASE thrProg = "heat"
      BY <1>0, <3>0, <3>1 DEF Thr!Tallied
    <3>2. CASE thrProg = "lse" /\ thrRound < 3
      <4>1. thrCounter' = [thrCounter EXCEPT !.shared = thrCounter.shared + 1]
        BY <2>2, <3>2 DEF Thr!Add
      <4>2. thrCounter'.shared = thrCounter.shared + 1 /\ thrCounter'.priv = thrCounter.priv
        BY <4>1 DEF Thr!TypeOK
      <4>3. Shifted(thrN, thrN', Thr!Many, t, 1)
        <5>1. Thr!Many \in 1..ThrNthr /\ t \in 1..Thr!Many
          BY <1>1 DEF Thr!Many, Thr!Working
        <5> QED BY <5>1, <3>0 DEF Shifted, Thr!T
      <4>4. Thr!Sum(thrN', Thr!Many) = Thr!Sum(thrN, Thr!Many) + 1
        BY <4>3, ThrSumShift
      <4> QED BY <1>0, <1>1, <3>0, <3>2, <4>2, <4>4 DEF Thr!Tallied, Thr!Many
    <3>3. CASE thrProg = "lse" /\ ~ (thrRound < 3)
      <4>1. thrRound = 3 /\ thrCounter.priv = thrN
        BY <1>1, <3>3 DEF Thr!Tallied, Thr!TypeOK
      <4>2. thrCounter' = [thrCounter EXCEPT !.priv = [thrCounter.priv EXCEPT ![t] = thrCounter.priv[t] + 1]]
        BY <2>2, <3>3 DEF Thr!Add
      <4>3. thrCounter'.priv = thrN'
        BY <4>1, <4>2, <3>0 DEF Thr!TypeOK
      <4> QED BY <1>0, <1>1, <3>0, <3>3, <4>1, <4>3 DEF Thr!Tallied
    <3> QED BY <1>0, <3>1, <3>2, <3>3
  <2>3. CASE Thr!Finish(t)
    <3>0. thrSlots' = [thrSlots EXCEPT ![Thr!Slot(t)] = thrN[t]] /\ thrN' = thrN /\ thrCounter' = thrCounter /\
            thrTh'[t] = "over"
      BY <2>3, <1>0 DEF Thr!Finish, Thr!TypeOK
    <3>1. CASE thrProg = "lse"
      <4>1. \A u \in Thr!T : thrSlots'[u] = IF u = t THEN thrN[t] ELSE thrSlots[u]
        BY <3>0, <3>1 DEF Thr!Slot, Thr!TypeOK
      <4> QED BY <1>0, <1>1, <3>0, <3>1, <4>1 DEF Thr!Tallied, Thr!Many
    <3>2. CASE thrProg = "heat"
      <4>1. thrCpus \in [Thr!T -> Thr!T] /\ Thr!Slot(t) = thrCpus[t] /\ thrCpus[t] \in Thr!T
        BY <3>2 DEF Thr!Slot, Thr!Tallied
      <4>2. \A s \in Thr!T : thrSlots'[s] = IF s = thrCpus[t] THEN thrN[t] ELSE thrSlots[s]
        BY <3>0, <4>1 DEF Thr!TypeOK
      <4>3. ASSUME NEW v \in Thr!T, thrTh'[v] = "over"
            PROVE  \E u \in Thr!T : thrCpus[u] = thrCpus[v] /\ thrTh'[u] = "over" /\
                     thrSlots'[thrCpus[v]] = thrN[u]
        <5>1. CASE thrCpus[v] = thrCpus[t]
          BY <3>0, <4>1, <4>2, <5>1
        <5>2. CASE thrCpus[v] # thrCpus[t]
          <6>1. v # t /\ thrTh[v] = "over" /\ thrCpus[v] \in Thr!T
            BY <1>0, <4>1, <4>3, <5>2
          <6>2. PICK u \in Thr!T : thrCpus[u] = thrCpus[v] /\ thrTh[u] = "over" /\
                  thrSlots[thrCpus[v]] = thrN[u]
            BY <3>2, <6>1 DEF Thr!Tallied
          <6>3. u # t
            BY <1>0, <6>2
          <6> QED BY <1>0, <4>2, <5>2, <6>1, <6>2, <6>3
        <5> QED BY <5>1, <5>2
      <4> QED BY <1>0, <3>0, <3>2, <4>1, <4>3 DEF Thr!Tallied
    <3> QED BY <1>0, <3>1, <3>2
  <2> QED BY <2>1, <2>2, <2>3
<1>5. Thr!Barrier'
  BY <1>0 DEF Thr!Barrier
<1>6. Thr!CountsExact'
  BY <1>0, <1>1 DEF Thr!CountsExact
<1> QED BY <1>2, <1>3, <1>4, <1>5, <1>6

\* The threads of membw: the barrier, a phase, the results.
LEMMA ThrPhaseSteps ==
  ASSUME Thr!ThrSizes, Thr!ThrInv, NEW t \in Thr!T, Thr!Arrive(t) \/ Thr!Measure(t) \/ Thr!Results(t)
  PROVE  Thr!ThrInv'
<1> USE DEF Thr!ThrInv, Thr!ThrSizes
<1>0. /\ UNCHANGED <<thrProg, thrPc, thrRound, thrNext, thrStop, thrCounter, thrCpus, thrPrinted>>
      /\ thrProg = "membw" /\ thrTh[t] \in {"born", "work"}
      /\ thrPc \in {"create", "sleep", "join", "wild"} /\ (thrPc = "join" => t >= thrNext)
  <2>1. thrProg = "membw" /\ thrTh[t] \in {"born", "work"}
    BY ThrCount DEF Thr!Arrive, Thr!Measure, Thr!Results, Thr!Barrier
  <2>2. thrPc \notin {"start", "report", "done", "setup"}
    BY <2>1 DEF Thr!Joined
  <2>3. thrPc = "join" => ~ (t < thrNext)
    BY <2>1 DEF Thr!Joined
  <2>4. UNCHANGED <<thrProg, thrPc, thrRound, thrNext, thrStop, thrCounter, thrCpus, thrPrinted>>
    BY ThrCount DEF Thr!Arrive, Thr!Measure, Thr!Results
  <2> QED BY <2>1, <2>2, <2>3, <2>4 DEF Thr!TypeOK, Thr!T
<1>1. PICK k \in 0..(3 * ThrROUNDS) : \A u \in Thr!T : IF thrTh[u] = "work" THEN thrN[u] + 1 = k ELSE thrN[u] = k
  BY <1>0 DEF Thr!Barrier
<1>2. thrArrived = {u \in Thr!T : thrTh[u] = "wait"} /\
        \A u \in Thr!T : thrTh[u] \notin {"loop", "add", "leave"}
  BY <1>0 DEF Thr!Barrier
<1>3. \A u \in Thr!T : thrTh[u] = "over" => thrSlots[u] = 3 * ThrROUNDS
  BY <1>0 DEF Thr!Tallied
<1>4. CASE Thr!Arrive(t) /\ Cardinality(thrArrived) + 1 < ThrNthr
  <2>1. /\ thrTh' = [thrTh EXCEPT ![t] = "wait"] /\ thrArrived' = thrArrived \cup {t} /\ thrTh[t] = "born"
        /\ thrN' = thrN /\ thrSlots' = thrSlots
    BY <1>4, ThrCount DEF Thr!Arrive
  <2>2. \A u \in Thr!T : thrTh'[u] = IF u = t THEN "wait" ELSE thrTh[u]
    BY <2>1 DEF Thr!TypeOK
  <2>3. Thr!TypeOK'
    BY <1>0, <2>1 DEF Thr!TypeOK
  <2>4. Thr!Joined'
    BY <1>0, <2>1, <2>2 DEF Thr!Joined, Thr!Working, Thr!Many, Thr!T
  <2>5. Thr!Tallied' /\ Thr!CountsExact'
    BY <1>0, <1>3, <2>1, <2>2 DEF Thr!Tallied, Thr!CountsExact
  <2>6. Thr!Barrier'
    BY <1>0, <1>1, <1>2, <2>1, <2>2 DEF Thr!Barrier
  <2> QED BY <2>3, <2>4, <2>5, <2>6
<1>5. CASE Thr!Arrive(t) /\ ~ (Cardinality(thrArrived) + 1 < ThrNthr)
  <2>1. /\ thrTh' = [u \in Thr!T |-> IF u \in thrArrived \cup {t} THEN "work" ELSE thrTh[u]] /\ thrArrived' = {}
        /\ thrTh[t] = "born" /\ thrN[t] < 3 * ThrROUNDS /\ thrN' = thrN /\ thrSlots' = thrSlots
    BY <1>5, ThrCount DEF Thr!Arrive
  <2>2. thrArrived \cup {t} = Thr!T
    <3>1. IsFiniteSet(Thr!T) /\ Cardinality(Thr!T) = ThrNthr
      BY FS_Interval, ThrCount DEF Thr!T
    <3>2. thrArrived \subseteq Thr!T /\ t \notin thrArrived
      BY <1>2, <2>1
    <3>3. IsFiniteSet(thrArrived) /\ Cardinality(thrArrived \cup {t}) = Cardinality(thrArrived) + 1
      BY <3>1, <3>2, FS_Subset, FS_AddElement, ThrCount
    <3>4. IsFiniteSet(thrArrived \cup {t}) /\ thrArrived \cup {t} \subseteq Thr!T
      BY <3>2, <3>3, FS_AddElement, ThrCount
    <3>5. Cardinality(thrArrived \cup {t}) <= ThrNthr /\ Cardinality(thrArrived \cup {t}) \in Nat /\
            Cardinality(thrArrived) \in Nat
      BY <3>1, <3>3, <3>4, FS_Subset, FS_CardinalityType, ThrCount
    <3>6. Cardinality(thrArrived \cup {t}) = Cardinality(Thr!T)
      BY <1>5, <3>1, <3>3, <3>5
    <3> QED BY <3>1, <3>4, <3>6, FS_Subset, ThrCount
  <2>3. \A u \in Thr!T : thrTh'[u] = "work" /\ thrTh[u] # "work" /\ thrTh[u] # "none" /\ thrN[u] = k
    BY <1>1, <1>2, <2>1, <2>2
  <2>4. Thr!TypeOK'
    BY <1>0, <2>1, <2>2 DEF Thr!TypeOK
  <2>5. Thr!Joined'
    <3>1. thrPc = "join" => thrNext = 1
      <4>1. \A u \in Thr!T : thrTh[u] # "over"
        BY <1>2, <2>1, <2>2
      <4> QED BY <4>1 DEF Thr!Joined, Thr!T, Thr!TypeOK
    <3>2. thrPc # "create" \/ \A u \in Thr!T : ~ (u >= thrNext)
      BY <2>3 DEF Thr!Joined
    <3>3. thrPc = "join" => \A u \in Thr!T : ~ (u < thrNext)
      BY <3>1 DEF Thr!T
    <3>4. \A u \in Thr!T : u \in Thr!Working
      BY <2>3 DEF Thr!Joined
    <3>5. Thr!Working' = Thr!Working /\ Thr!Many' = Thr!Many
      BY <1>0 DEF Thr!Working, Thr!Many
    <3> QED BY <1>0, <2>1, <2>3, <3>2, <3>3, <3>4, <3>5 DEF Thr!Joined
  <2>6. Thr!Tallied' /\ Thr!CountsExact'
    BY <1>0, <1>3, <2>1, <2>3 DEF Thr!Tallied, Thr!CountsExact
  <2>7. Thr!Barrier'
    <3>1. k + 1 \in 0..(3 * ThrROUNDS)
      BY <2>1, <2>3
    <3>2. \A u \in Thr!T : thrN'[u] + 1 = k + 1
      BY <2>1, <2>3
    <3> QED BY <1>0, <2>1, <2>3, <3>1, <3>2 DEF Thr!Barrier
  <2> QED BY <2>4, <2>5, <2>6, <2>7
<1>6. CASE Thr!Measure(t)
  <2>1. /\ thrTh' = [thrTh EXCEPT ![t] = "born"] /\ thrN' = [thrN EXCEPT ![t] = thrN[t] + 1] /\
             thrTh[t] = "work"
        /\ thrSlots' = thrSlots /\ thrArrived' = thrArrived
    BY <1>6 DEF Thr!Measure
  <2>2. \A u \in Thr!T : /\ thrTh'[u] = IF u = t THEN "born" ELSE thrTh[u]
                         /\ thrN'[u] = IF u = t THEN thrN[u] + 1 ELSE thrN[u]
    BY <2>1 DEF Thr!TypeOK
  <2>3. Thr!TypeOK'
    BY <1>0, <2>1 DEF Thr!TypeOK
  <2>4. Thr!Joined'
    BY <1>0, <2>1, <2>2 DEF Thr!Joined, Thr!Working, Thr!Many, Thr!T
  <2>5. Thr!Tallied' /\ Thr!CountsExact'
    BY <1>0, <1>3, <2>1, <2>2 DEF Thr!Tallied, Thr!CountsExact
  <2>6. Thr!Barrier'
    BY <1>0, <1>1, <1>2, <2>1, <2>2 DEF Thr!Barrier
  <2> QED BY <2>3, <2>4, <2>5, <2>6
<1>7. CASE Thr!Results(t)
  <2>1. /\ thrTh' = [thrTh EXCEPT ![t] = "over"] /\ thrSlots' = [thrSlots EXCEPT ![t] = thrN[t]] /\
             thrTh[t] = "born"
        /\ thrN[t] = 3 * ThrROUNDS /\ thrN' = thrN /\ thrArrived' = thrArrived
    BY <1>7 DEF Thr!Results
  <2>2. \A u \in Thr!T : /\ thrTh'[u] = IF u = t THEN "over" ELSE thrTh[u]
                         /\ thrSlots'[u] = IF u = t THEN thrN[t] ELSE thrSlots[u]
    BY <2>1 DEF Thr!TypeOK
  <2>3. Thr!TypeOK'
    BY <1>0, <2>1 DEF Thr!TypeOK
  <2>4. Thr!Joined'
    BY <1>0, <2>1, <2>2 DEF Thr!Joined, Thr!Working, Thr!Many, Thr!T
  <2>5. Thr!Tallied' /\ Thr!CountsExact'
    BY <1>0, <1>3, <2>1, <2>2 DEF Thr!Tallied, Thr!CountsExact
  <2>6. Thr!Barrier'
    BY <1>0, <1>1, <1>2, <2>1, <2>2 DEF Thr!Barrier
  <2> QED BY <2>3, <2>4, <2>5, <2>6
<1> QED BY <1>4, <1>5, <1>6, <1>7

LEMMA ThrSteps == Thr!ThrSizes /\ Thr!ThrInv /\ [Thr!Next]_(Thr!vars) => Thr!ThrInv'
<1>1. Thr!ThrInv /\ UNCHANGED Thr!vars => Thr!ThrInv'
  BY DEF Thr!vars, Thr!ThrInv, Thr!TypeOK, Thr!Joined, Thr!Tallied, Thr!Barrier, Thr!CountsExact, Thr!Working,
       Thr!Many
<1> QED BY <1>1, ThrStartSteps, ThrWaitSteps, ThrReportSteps, ThrLoopSteps, ThrPhaseSteps DEF Thr!Next,
             Thr!Main, Thr!Thread

LEMMA ThrStart == Thr!ThrSizes /\ Thr!Init => Thr!ThrInv
<1> SUFFICES ASSUME Thr!ThrSizes, Thr!Init PROVE Thr!ThrInv
  OBVIOUS
<1> USE DEF Thr!Init, Thr!ThrSizes, Thr!Zero
<1>1. Thr!TypeOK
  <2>1. 1 \in 1..(ThrNthr + 1)
    OBVIOUS
  <2>2. thrPrinted \in [Thr!T -> Int] /\ thrCpus \in [Thr!T -> Nat]
    OBVIOUS
  <2>3. thrN \in [Thr!T -> Nat] /\ thrSlots \in [Thr!T -> Nat]
    OBVIOUS
  <2>4. thrCounter \in [shared : Nat, priv : [Thr!T -> Nat]]
    OBVIOUS
  <2>5. thrTh \in [Thr!T -> {"none", "born", "loop", "add", "leave", "wait", "work", "over", "fail"}]
    OBVIOUS
  <2>6. /\ thrProg = "none" /\ thrPc = "start" /\ thrRound = 0 /\ thrNext = 1 /\ thrStop = FALSE /\
             thrArrived = {}
    OBVIOUS
  <2> HIDE DEF Thr!Init, Thr!Zero, Thr!ThrSizes
  <2>7. /\ thrNext \in 1..(ThrNthr + 1)
        /\ thrArrived \subseteq Thr!T /\ thrStop \in BOOLEAN
        /\ thrRound \in 0..3
    <3>1. thrNext \in 1..(ThrNthr + 1)
      BY <2>1, <2>6, Zenon
    <3>2. thrArrived \subseteq Thr!T /\ thrStop \in BOOLEAN
      BY <2>6
    <3>3. thrRound \in 0..3
      BY <2>6
    <3> QED BY <3>1, <3>2, <3>3
  <2> QED BY <2>2, <2>3, <2>4, <2>5, <2>6, <2>7 DEF Thr!TypeOK
<1>2. Thr!Joined
  BY DEF Thr!Joined, Thr!Working, Thr!Many, Thr!T
<1>3. Thr!Tallied
  <2>1. Thr!Many = ThrNthr /\ \A t \in 1..ThrNthr : thrN[t] = 0
    BY DEF Thr!Many, Thr!T
  <2>2. Thr!Sum(thrN, ThrNthr) = ThrNthr * 0
    BY <2>1, ThrSumConstant
  <2> QED BY <2>1, <2>2 DEF Thr!Tallied
<1>4. Thr!Barrier
  BY DEF Thr!Barrier, Thr!T
<1>5. Thr!CountsExact
  BY DEF Thr!CountsExact
<1> QED BY <1>1, <1>2, <1>3, <1>4, <1>5 DEF Thr!ThrInv

\* Nobody measures a phase while another is in a different one.
LEMMA ThrTogether == Thr!ThrSizes /\ Thr!ThrInv => Thr!PhasesTogether
<1> SUFFICES ASSUME Thr!ThrSizes, Thr!ThrInv, NEW t \in Thr!T, NEW u \in Thr!T, thrTh[t] = "work",
               thrTh[u] = "work"
             PROVE  thrN[t] = thrN[u]
  BY DEF Thr!PhasesTogether
<1>1. thrProg = "membw"
  BY DEF Thr!ThrInv, Thr!Barrier
<1>2. PICK k \in 0..(3 * ThrROUNDS) : thrN[t] + 1 = k /\ thrN[u] + 1 = k
  BY <1>1 DEF Thr!ThrInv, Thr!Barrier
<1> QED BY <1>2 DEF Thr!ThrInv, Thr!TypeOK

-----------------------------------------------------------------------------
(* fault_types.c and concurrent_fault.c.                                   *)

\* The rows of the table of sweeps, and which of them touch pages.
LEMMA FltTable ==
  ASSUME Flt!FltSizes, Flt!TypeOK
  PROVE  LET k == fltPos["parent"] c == fltPos["child"] IN
    /\ k = 1 => Flt!Step("parent") = <<"untouched", "read", "anon", 0>>
    /\ k = 2 => Flt!Step("parent") = <<"write", "write", "anon", FltPages>>
    /\ k = 3 => Flt!Step("parent") = <<"zero", "read", "anon", FltPages>>
    /\ k = 4 => Flt!Step("parent") = <<"hot", "read", "file", FltPages>>
    /\ k = 5 => Flt!Step("parent") = <<"cold", "read", "file", FltPages>>
    /\ k = 6 => Flt!Step("parent") = <<"fork">>
    /\ k = 7 => Flt!Step("parent") = <<"wait">>
    /\ k = 8 => Flt!Step("parent") = <<"reuse", "write", "anon", FltPages>>
    /\ k = 9 => Flt!Step("parent") = <<"again", "write", "anon", FltPages>>
    /\ k = 10 => Flt!Step("parent") = <<"private", "write", "priv", 1>>
    /\ k = 11 => Flt!Step("parent") = <<"shared", "write", "file", 1>>
    /\ k = 12 => Flt!Step("parent") = <<"end">>
    /\ c = 1 => Flt!Step("child") = <<"mark">>
    /\ c = 2 => Flt!Step("child") = <<"cread", "read", "anon", FltPages>>
    /\ c = 3 => Flt!Step("child") = <<"cwrite", "write", "anon", FltPages>>
    /\ c = 4 => Flt!Step("child") = <<"exit">>
<1>1. /\ Flt!Steps["parent"][1] = <<"untouched", "read", "anon", 0>>
      /\ Flt!Steps["parent"][2] = <<"write", "write", "anon", FltPages>>
      /\ Flt!Steps["parent"][3] = <<"zero", "read", "anon", FltPages>>
      /\ Flt!Steps["parent"][4] = <<"hot", "read", "file", FltPages>>
      /\ Flt!Steps["parent"][5] = <<"cold", "read", "file", FltPages>>
      /\ Flt!Steps["parent"][6] = <<"fork">>
      /\ Flt!Steps["parent"][7] = <<"wait">>
      /\ Flt!Steps["parent"][8] = <<"reuse", "write", "anon", FltPages>>
      /\ Flt!Steps["parent"][9] = <<"again", "write", "anon", FltPages>>
      /\ Flt!Steps["parent"][10] = <<"private", "write", "priv", 1>>
      /\ Flt!Steps["parent"][11] = <<"shared", "write", "file", 1>>
      /\ Flt!Steps["parent"][12] = <<"end">>
  BY DEF Flt!Steps
<1>2. /\ Flt!Steps["child"][1] = <<"mark">>
      /\ Flt!Steps["child"][2] = <<"cread", "read", "anon", FltPages>>
      /\ Flt!Steps["child"][3] = <<"cwrite", "write", "anon", FltPages>>
      /\ Flt!Steps["child"][4] = <<"exit">>
  BY DEF Flt!Steps
<1> QED BY <1>1, <1>2 DEF Flt!Step

LEMMA FltSweeps ==
  ASSUME Flt!FltSizes, Flt!TypeOK, NEW p \in Flt!Procs, Flt!Active(p)
  PROVE  /\ p = "parent" => fltPos[p] \in {1, 2, 3, 4, 5, 8, 9, 10, 11}
         /\ p = "child" => fltPos[p] \in {2, 3}
         /\ Flt!Step(p)[4] \in {0, 1, FltPages} /\ Flt!Step(p)[2] \in {"read", "write"}
         /\ fltProg = "fault_types"
<1>1. /\ Len(<<"fork">>) = 1 /\ Len(<<"wait">>) = 1 /\ Len(<<"end">>) = 1
      /\ Len(<<"mark">>) = 1 /\ Len(<<"exit">>) = 1
  OBVIOUS
<1>2. CASE p = "parent"
  <2>1. fltPos[p] \notin {6, 7, 12}
    BY <1>1, <1>2, FltTable DEF Flt!Active
  <2>2. fltPos[p] \in {1, 2, 3, 4, 5, 8, 9, 10, 11}
    BY <1>2, <2>1 DEF Flt!TypeOK
  <2> QED BY <1>2, <2>2, FltTable DEF Flt!Active
<1>3. CASE p = "child"
  <2>1. fltPos[p] \notin {0, 1, 4}
    BY <1>1, <1>3, FltTable DEF Flt!Active
  <2>2. fltPos[p] \in {2, 3}
    BY <1>3, <2>1 DEF Flt!TypeOK
  <2> QED BY <1>3, <2>2, FltTable DEF Flt!Active
<1> QED BY <1>2, <1>3 DEF Flt!Procs

-----------------------------------------------------------------------------
\* What each kind of fault changes.
LEMMA FltPrivate ==
  ASSUME Flt!FltSizes, Flt!TypeOK, NEW p \in Flt!Procs, NEW i \in Flt!P, Flt!PrivateFault(p, i)
  PROVE  /\ fltPte' \in [Flt!Procs -> [Flt!P -> {"none", "zero", "ro", "rw"}]] /\
              fltShared' \in [Flt!P -> BOOLEAN]
         /\ fltMinor' \in [Flt!Procs -> Nat] /\ fltCopies' \in [Flt!Procs -> Nat]
         /\ \A q \in Flt!Procs : q # p => /\ fltPte'[q] = fltPte[q] /\ fltMinor'[q] = fltMinor[q]
                                          /\ fltCopies'[q] = fltCopies[q]
         /\ \A j \in Flt!P : j # i => fltPte'[p][j] = fltPte[p][j] /\ fltShared'[j] = fltShared[j]
         /\ ~fltShared'[i]
         /\ Flt!Step(p)[2] = "write" => fltPte'[p][i] = "rw"
         /\ Flt!Step(p)[2] = "read" => fltPte'[p][i] = "zero"
         /\ fltMinor'[p] = fltMinor[p] + 1
         /\ fltCopies'[p] = IF fltPte[p][i] = "ro" /\
              (fltShared[i] \/ Flt!Step(p)[3] = "priv") THEN fltCopies[p] + 1 ELSE fltCopies[p]
         /\ UNCHANGED <<fltCache, fltFile, fltMajor>>
<1> DEFINE a == IF Flt!Step(p)[2] = "write" THEN "rw" ELSE "zero"
           c == IF fltPte[p][i] = "ro" /\ (fltShared[i] \/ Flt!Step(p)[3] = "priv") THEN 1 ELSE 0
<1>1. /\ fltPte' = [fltPte EXCEPT ![p][i] = a] /\ fltShared' = [fltShared EXCEPT ![i] = FALSE]
      /\ fltMinor' = [fltMinor EXCEPT ![p] = fltMinor[p] + 1]
      /\ fltCopies' = [fltCopies EXCEPT ![p] = fltCopies[p] + c] /\ UNCHANGED <<fltCache, fltFile, fltMajor>>
  BY DEF Flt!PrivateFault
<1>2. a \in {"none", "zero", "ro", "rw"} /\ c \in 0..1
  OBVIOUS
<1>3. (c = IF fltPte[p][i] = "ro" /\ (fltShared[i] \/ Flt!Step(p)[3] = "priv") THEN 1 ELSE 0)
  OBVIOUS
<1>4. a = IF Flt!Step(p)[2] = "write" THEN "rw" ELSE "zero"
  OBVIOUS
<1> HIDE DEF a, c
<1>5. fltPte' \in [Flt!Procs -> [Flt!P -> {"none", "zero", "ro", "rw"}]]
  BY <1>1, <1>2 DEF Flt!TypeOK
<1>6. fltShared' \in [Flt!P -> BOOLEAN] /\ ~fltShared'[i] /\ \A j \in Flt!P : j # i =>
        fltShared'[j] = fltShared[j]
  BY <1>1 DEF Flt!TypeOK
<1>7. fltMinor' \in [Flt!Procs -> Nat] /\ fltCopies' \in [Flt!Procs -> Nat]
  BY <1>1, <1>2 DEF Flt!TypeOK
<1>8. \A q \in Flt!Procs : q # p => /\ fltPte'[q] = fltPte[q] /\ fltMinor'[q] = fltMinor[q]
                                    /\ fltCopies'[q] = fltCopies[q]
  BY <1>1 DEF Flt!TypeOK
<1>9. fltPte'[p][i] = a /\ \A j \in Flt!P : j # i => fltPte'[p][j] = fltPte[p][j]
  BY <1>1 DEF Flt!TypeOK
<1>10. fltMinor'[p] = fltMinor[p] + 1 /\ fltCopies'[p] = fltCopies[p] + c
  BY <1>1 DEF Flt!TypeOK
<1>11. fltCopies[p] \in Nat
  BY DEF Flt!TypeOK
<1>13. fltCopies'[p] = IF fltPte[p][i] = "ro" /\
         (fltShared[i] \/ Flt!Step(p)[3] = "priv") THEN fltCopies[p] + 1 ELSE fltCopies[p]
  <2> DEFINE copied == fltPte[p][i] = "ro" /\ (fltShared[i] \/ Flt!Step(p)[3] = "priv")
  <2>1. c = IF copied THEN 1 ELSE 0
    BY DEF c
  <2> HIDE DEF copied
  <2>2. fltCopies'[p] = IF copied THEN fltCopies[p] + 1 ELSE fltCopies[p]
    BY <2>1, <1>10, <1>11
  <2> QED BY <2>2 DEF copied
<1>14. (Flt!Step(p)[2] = "write" => a = "rw") /\ (Flt!Step(p)[2] = "read" => a = "zero")
  BY <1>4
<1> QED BY <1>1, <1>5, <1>6, <1>7, <1>8, <1>9, <1>10, <1>13, <1>14

LEMMA FltFile ==
  ASSUME Flt!FltSizes, Flt!TypeOK, NEW p \in Flt!Procs, NEW i \in Flt!P, Flt!FileFault(p, i)
  PROVE  /\ fltPte' \in [Flt!Procs -> [Flt!P -> {"none", "zero", "ro", "rw"}]] /\ fltCache' \subseteq Flt!P /\
              fltCache \subseteq fltCache'
         /\ fltMinor' \in [Flt!Procs -> Nat] /\ fltMajor' \in [Flt!Procs -> Nat]
         /\ \A q \in Flt!Procs : q # p => /\ fltPte'[q] = fltPte[q] /\ fltMinor'[q] = fltMinor[q]
                                          /\ fltMajor'[q] = fltMajor[q]
         /\ IF i \in fltCache THEN fltMinor'[p] = fltMinor[p] + 1 /\ fltMajor'[p] = fltMajor[p]
                              ELSE fltMinor'[p] = fltMinor[p] /\ fltMajor'[p] = fltMajor[p] + 1
         /\ UNCHANGED <<fltShared, fltFile, fltCopies>>
<1>1. PICK around \in {S \in SUBSET (IF i \in fltCache THEN fltCache ELSE Flt!P) : i \in S} :
        /\ fltPte' = [fltPte EXCEPT ![p] = [j \in Flt!P |-> IF j \in around THEN "ro" ELSE fltPte[p][j]]]
        /\ fltCache' = fltCache \cup around
        /\ IF i \in fltCache THEN fltMinor' = [fltMinor EXCEPT ![p] = fltMinor[p] + 1] /\ UNCHANGED fltMajor
                             ELSE fltMajor' = [fltMajor EXCEPT ![p] = fltMajor[p] + 1] /\ UNCHANGED fltMinor
        /\ UNCHANGED <<fltShared, fltFile, fltCopies>>
  BY FltCount DEF Flt!FileFault
<1>2. around \subseteq Flt!P
  BY DEF Flt!TypeOK
<1>4. fltPte' \in [Flt!Procs -> [Flt!P -> {"none", "zero", "ro", "rw"}]]
  <2>1. [j \in Flt!P |-> IF j \in around THEN "ro" ELSE fltPte[p][j]] \in [Flt!P -> {"none", "zero", "ro",
          "rw"}]
    BY DEF Flt!TypeOK
  <2> QED BY <1>1, <2>1 DEF Flt!TypeOK
<1>5. fltMinor' \in [Flt!Procs -> Nat] /\ fltMajor' \in [Flt!Procs -> Nat]
  <2>1. CASE i \in fltCache
    BY <1>1, <2>1 DEF Flt!TypeOK
  <2>2. CASE i \notin fltCache
    <3>1. fltMinor' = fltMinor /\ fltMajor' = [fltMajor EXCEPT ![p] = fltMajor[p] + 1]
      BY <1>1, <2>2
    <3>2. fltMinor \in [Flt!Procs -> Nat] /\ fltMajor \in [Flt!Procs -> Nat]
      BY DEF Flt!TypeOK
    <3> QED BY <3>1, <3>2
  <2> QED BY <2>1, <2>2
<1>7. \A q \in Flt!Procs : q # p => /\ fltPte'[q] = fltPte[q] /\ fltMinor'[q] = fltMinor[q]
                                    /\ fltMajor'[q] = fltMajor[q]
  BY <1>1 DEF Flt!TypeOK
<1>8. IF i \in fltCache THEN fltMinor'[p] = fltMinor[p] + 1 /\ fltMajor'[p] = fltMajor[p]
                        ELSE fltMinor'[p] = fltMinor[p] /\ fltMajor'[p] = fltMajor[p] + 1
  BY <1>1 DEF Flt!TypeOK
<1> QED BY <1>1, <1>2, <1>4, <1>5, <1>7, <1>8 DEF Flt!TypeOK

LEMMA FltShared ==
  ASSUME Flt!FltSizes, Flt!TypeOK, NEW p \in Flt!Procs, NEW i \in Flt!P, Flt!SharedFault(p, i)
  PROVE  /\ fltPte' \in [Flt!Procs -> [Flt!P -> {"none", "zero", "ro", "rw"}]] /\
              fltMinor' \in [Flt!Procs -> Nat] /\ fltFile' = "5A"
         /\ \A q \in Flt!Procs : q # p => fltPte'[q] = fltPte[q] /\ fltMinor'[q] = fltMinor[q]
         /\ UNCHANGED <<fltShared, fltCache, fltMajor, fltCopies>>
<1> USE DEF Flt!SharedFault
<1>1. fltPte' \in [Flt!Procs -> [Flt!P -> {"none", "zero", "ro", "rw"}]] /\ \A q \in Flt!Procs : q # p =>
        fltPte'[q] = fltPte[q]
  BY DEF Flt!TypeOK
<1>2. fltMinor' \in [Flt!Procs -> Nat] /\ \A q \in Flt!Procs : q # p => fltMinor'[q] = fltMinor[q]
  BY DEF Flt!TypeOK
<1> QED BY <1>1, <1>2

\* The frame of a touch, and which case of it applies.
LEMMA FltTouch ==
  ASSUME Flt!FltSizes, Flt!TypeOK, NEW p \in Flt!Procs, Flt!Touch(p)
  PROVE  LET i == fltSwept[p] + 1
             allowed == fltPte[p][i] = "rw" \/ (Flt!Step(p)[2] = "read" /\ fltPte[p][i] # "none")
         IN  /\ i \in Flt!P /\ i <= Flt!Step(p)[4] /\ Flt!Step(p)[4] \in {1, FltPages}
             /\ fltSwept' \in [Flt!Procs -> 0..FltPages] /\ fltSwept'[p] = i /\ fltSwept[p] \in Nat
             /\ \A q \in Flt!Procs : q # p => fltSwept'[q] = fltSwept[q]
             /\ UNCHANGED <<fltProg, fltPos, fltData, fltOwn, fltStray, fltStrayMaj, fltSaid, Flt!conc>>
             /\ allowed => UNCHANGED <<fltPte, fltShared, fltCache, fltFile, fltMinor, fltMajor, fltCopies>>
             /\ ~allowed /\ Flt!Step(p)[3] = "file" /\ Flt!Step(p)[2] = "read" => Flt!FileFault(p, i)
             /\ ~allowed /\ Flt!Step(p)[3] = "file" /\ Flt!Step(p)[2] = "write" => Flt!SharedFault(p, i)
             /\ ~allowed /\ Flt!Step(p)[3] # "file" => Flt!PrivateFault(p, i)
<1>1. Flt!Active(p) /\ fltSwept[p] < Flt!Step(p)[4] /\ fltSwept[p] \in Nat /\ fltSwept[p] \in 0..FltPages
  BY DEF Flt!Touch, Flt!TypeOK
<1>2. Flt!Step(p)[4] \in {1, FltPages} /\ FltPages \in Nat \ {0}
  BY <1>1, FltSweeps, FltCount DEF Flt!FltSizes
<1>3. fltSwept[p] + 1 \in Flt!P /\ fltSwept[p] + 1 <= Flt!Step(p)[4]
  BY <1>1, <1>2 DEF Flt!P
<1>4. fltSwept' = [fltSwept EXCEPT ![p] = fltSwept[p] + 1]
  BY DEF Flt!Touch
<1>5. fltSwept' \in [Flt!Procs -> 0..FltPages] /\ fltSwept'[p] = fltSwept[p] + 1 /\
        \A q \in Flt!Procs : q # p => fltSwept'[q] = fltSwept[q]
  <2>1. fltSwept[p] + 1 \in 0..FltPages
    BY <1>3 DEF Flt!P
  <2> QED BY <1>4, <2>1 DEF Flt!TypeOK
<1>6. UNCHANGED <<fltProg, fltPos, fltData, fltOwn, fltStray, fltStrayMaj, fltSaid, Flt!conc>>
  BY DEF Flt!Touch
<1> DEFINE i == fltSwept[p] + 1
           allowed == fltPte[p][i] = "rw" \/ (Flt!Step(p)[2] = "read" /\ fltPte[p][i] # "none")
<1>7. /\ allowed => UNCHANGED <<fltPte, fltShared, fltCache, fltFile, fltMinor, fltMajor, fltCopies>>
      /\ ~allowed /\ Flt!Step(p)[3] = "file" /\ Flt!Step(p)[2] = "read" => Flt!FileFault(p, i)
      /\ ~allowed /\ Flt!Step(p)[3] = "file" /\ Flt!Step(p)[2] = "write" => Flt!SharedFault(p, i)
      /\ ~allowed /\ Flt!Step(p)[3] # "file" => Flt!PrivateFault(p, i)
  <2>1. (CASE allowed -> UNCHANGED <<fltPte, fltShared, fltCache, fltFile, fltMinor, fltMajor, fltCopies>>
           [] ~allowed /\ Flt!Step(p)[3] = "file" /\ Flt!Step(p)[2] = "read" -> Flt!FileFault(p, i)
           [] ~allowed /\ Flt!Step(p)[3] = "file" /\ Flt!Step(p)[2] = "write" -> Flt!SharedFault(p, i)
           [] OTHER -> Flt!PrivateFault(p, i))
    BY DEF Flt!Touch, Flt!maps
  <2>2. "read" # "write"
    OBVIOUS
  <2> HIDE DEF allowed, i
  <2> QED BY <2>1, <2>2
<1> HIDE DEF allowed
<1> QED BY <1>1, <1>2, <1>3, <1>5, <1>6, <1>7 DEF allowed

-----------------------------------------------------------------------------
\* The type invariant after a touch.
LEMMA FltTouchTypes ==
  ASSUME Flt!FltSizes, Flt!TypeOK, NEW p \in Flt!Procs, Flt!Touch(p)
  PROVE  Flt!TypeOK'
<1> DEFINE i == fltSwept[p] + 1
           allowed == fltPte[p][i] = "rw" \/ (Flt!Step(p)[2] = "read" /\ fltPte[p][i] # "none")
<1>1. /\ i \in Flt!P /\ fltSwept' \in [Flt!Procs -> 0..FltPages] /\
           UNCHANGED <<fltProg, fltPos, fltData, fltOwn, fltStray, fltStrayMaj, fltSaid>>
      /\ UNCHANGED <<fltTh, fltAt, fltPresent, fltLost, fltFaults, fltSpurious, fltOther, fltPrinted>>
      /\ Flt!Step(p)[2] \in {"read", "write"}
  BY FltTouch, FltSweeps DEF Flt!Touch, Flt!conc
<1>2. CASE allowed
  BY <1>1, <1>2, FltTouch DEF Flt!TypeOK
<1>3. CASE ~allowed /\ Flt!FileFault(p, i)
  BY <1>1, <1>3, FltFile DEF Flt!TypeOK
<1>4. CASE ~allowed /\ Flt!SharedFault(p, i)
  BY <1>1, <1>4, FltShared DEF Flt!TypeOK
<1>5. CASE ~allowed /\ Flt!PrivateFault(p, i)
  <2>1. /\ fltPte' \in [Flt!Procs -> [Flt!P -> {"none", "zero", "ro", "rw"}]] /\
             fltShared' \in [Flt!P -> BOOLEAN]
        /\ fltMinor' \in [Flt!Procs -> Nat] /\ fltCopies' \in [Flt!Procs -> Nat]
        /\ UNCHANGED <<fltCache, fltFile, fltMajor>>
    BY <1>1, <1>5, FltPrivate
  <2> QED BY <1>1, <2>1 DEF Flt!TypeOK
<1> QED BY <1>1, <1>2, <1>3, <1>4, <1>5, FltTouch

-----------------------------------------------------------------------------
\* The parent touches a page: the sweep it is in goes on.
LEMMA FltParentTouches ==
  ASSUME Flt!FltSizes, Flt!TypeOK, Flt!ParentSweeps, Flt!ChildSweeps, Flt!Touch("parent")
  PROVE  Flt!ParentSweeps' /\ Flt!ChildSweeps'
<1> DEFINE p == "parent" k == fltPos["parent"] s == fltSwept["parent"] i == s + 1
           allowed == fltPte[p][i] = "rw" \/ (Flt!Step(p)[2] = "read" /\ fltPte[p][i] # "none")
<1>0. p \in Flt!Procs /\ "child" \in Flt!Procs /\ "child" # p /\ Flt!Active(p)
  BY DEF Flt!Procs, Flt!Touch
<1>1. /\ i \in Flt!P /\ i <= Flt!Step(p)[4] /\ fltSwept'[p] = i /\ fltSwept'["child"] = fltSwept["child"]
      /\ UNCHANGED <<fltProg, fltPos, fltSaid>> /\ s \in Nat
  BY <1>0, FltTouch
<1>2. /\ allowed => UNCHANGED <<fltPte, fltShared, fltCache, fltFile, fltMinor, fltMajor, fltCopies>>
      /\ ~allowed /\ Flt!Step(p)[3] = "file" /\ Flt!Step(p)[2] = "read" => Flt!FileFault(p, i)
      /\ ~allowed /\ Flt!Step(p)[3] = "file" /\ Flt!Step(p)[2] = "write" => Flt!SharedFault(p, i)
      /\ ~allowed /\ Flt!Step(p)[3] # "file" => Flt!PrivateFault(p, i)
  BY <1>0, FltTouch
<1>3. k \in {1, 2, 3, 4, 5, 8, 9, 10, 11} /\ fltPos["child"] = 0 /\ fltPos'["parent"] = k
  BY <1>0, <1>1, FltSweeps DEF Flt!ChildSweeps, Flt!TypeOK
<1>4. /\ fltMinor[p] \in Nat /\ fltMajor[p] \in Nat /\ fltCopies[p] \in Nat /\ FltPages \in Nat \ {0}
      /\ fltPte[p][i] \in {"none", "zero", "ro", "rw"} /\ i > s /\ (s = 0 <=> i = 1)
  <2>1. fltMinor[p] \in Nat /\ fltMajor[p] \in Nat /\ fltCopies[p] \in Nat
    BY <1>0 DEF Flt!TypeOK
  <2>2. fltPte[p][i] \in {"none", "zero", "ro", "rw"}
    BY <1>0, <1>1 DEF Flt!TypeOK
  <2> QED BY <1>1, <2>1, <2>2, FltCount DEF Flt!FltSizes
<1>5. Flt!Forked' = Flt!Forked
  BY <1>1 DEF Flt!Forked
<1>16. k <= 10 => fltFile = "AB"
  BY DEF Flt!ParentSweeps
<1>17. /\ k = 2 => fltMinor[p] = s /\ Flt!Sweeping(p, "none", "rw")
       /\ k = 3 => fltMinor[p] = s /\ Flt!Sweeping(p, "none", "zero")
       /\ k = 8 /\ Flt!Forked => Flt!Sweeping(p, "ro", "rw") /\ (\A j \in Flt!P : ~fltShared[j]) /\
            fltMinor[p] = s
       /\ k = 8 /\ ~Flt!Forked => Flt!Sweeping(p, "rw", "rw") /\ fltMinor[p] = 0
  BY <1>3 DEF Flt!ParentSweeps
<1>18. \A a, b \in {"none", "zero", "ro", "rw"} : Flt!Sweeping(p, a, b) => fltPte[p][i] = a
  BY <1>1, <1>4 DEF Flt!Sweeping
<1>19. ASSUME NEW a, NEW b, Flt!Sweeping(p, a, b), fltPte'[p][i] = b, \A j \in Flt!P : j # i =>
                fltPte'[p][j] = fltPte[p][j]
       PROVE  Flt!Sweeping(p, a, b)'
  <2>1. \A j \in Flt!P : j # i => (j <= s <=> j <= i)
    BY <1>1 DEF Flt!P
  <2>2. i <= i
    BY <1>1 DEF Flt!P
  <2> QED BY <1>1, <1>19, <2>1, <2>2 DEF Flt!Sweeping
<1> HIDE DEF p, i, s, k
<1>20. ASSUME Flt!PrivateFault(p, i)
       PROVE  /\ \A j \in Flt!P : j # i => fltPte'[p][j] = fltPte[p][j] /\ fltShared'[j] = fltShared[j]
              /\ ~fltShared'[i]
              /\ Flt!Step(p)[2] = "write" => fltPte'[p][i] = "rw"
              /\ Flt!Step(p)[2] = "read" => fltPte'[p][i] = "zero"
              /\ fltMinor'[p] = fltMinor[p] + 1 /\ fltFile' = fltFile
              /\ fltCopies'[p] = IF fltPte[p][i] = "ro" /\ (fltShared[i] \/ Flt!Step(p)[3] = "priv")
                                 THEN fltCopies[p] + 1 ELSE fltCopies[p]
  BY <1>0, <1>1, <1>20, FltPrivate
<1>6. Flt!ChildSweeps'
  <2>1. UNCHANGED <<fltPte, fltShared, fltCache, fltFile, fltMinor, fltMajor, fltCopies>> \/
          Flt!FileFault(p, i) \/ Flt!SharedFault(p, i) \/ Flt!PrivateFault(p, i)
    BY <1>2, <1>0, FltSweeps DEF p
  <2>2. /\ fltMinor'["child"] = fltMinor["child"] /\ fltMajor'["child"] = fltMajor["child"]
        /\ fltCopies'["child"] = fltCopies["child"]
    <3>1. CASE Flt!FileFault(p, i)
      BY <3>1, <1>0, <1>1, FltFile
    <3>2. CASE Flt!SharedFault(p, i)
      BY <3>2, <1>0, <1>1, FltShared
    <3>3. CASE Flt!PrivateFault(p, i)
      BY <3>3, <1>0, <1>1, FltPrivate
    <3> QED BY <2>1, <3>1, <3>2, <3>3
  <2> QED BY <1>1, <1>3, <1>5, <2>2 DEF Flt!ChildSweeps
<1>7. CASE k = 2
  <2>1. Flt!Step(p) = <<"write", "write", "anon", FltPages>>
    BY <1>7, FltTable DEF k, p
  <2>2. fltMinor[p] = s /\ Flt!Sweeping(p, "none", "rw") /\ fltPte[p][i] = "none"
    BY <1>17, <1>18, <1>7
  <2>3. Flt!PrivateFault(p, i)
    BY <1>2, <2>1, <2>2
  <2>4. /\ fltMinor'[p] = i /\ fltFile' = fltFile
        /\ fltPte'[p][i] = "rw" /\ \A j \in Flt!P : j # i => fltPte'[p][j] = fltPte[p][j]
    BY <1>20, <2>1, <2>2, <2>3 DEF i
  <2>5. Flt!Sweeping(p, "none", "rw")'
    BY <1>19, <2>2, <2>4
  <2> QED BY <1>1, <1>3, <1>6, <1>16, <1>7, <2>4, <2>5 DEF Flt!ParentSweeps, p, k
<1>8. CASE k = 3
  <2>1. Flt!Step(p) = <<"zero", "read", "anon", FltPages>>
    BY <1>8, FltTable DEF k, p
  <2>2. fltMinor[p] = s /\ Flt!Sweeping(p, "none", "zero") /\ fltPte[p][i] = "none"
    BY <1>17, <1>18, <1>8
  <2>3. Flt!PrivateFault(p, i)
    BY <1>2, <2>1, <2>2
  <2>4. /\ fltMinor'[p] = i /\ fltFile' = fltFile
        /\ fltPte'[p][i] = "zero" /\ \A j \in Flt!P : j # i => fltPte'[p][j] = fltPte[p][j]
    BY <1>20, <2>1, <2>2, <2>3 DEF i
  <2>5. Flt!Sweeping(p, "none", "zero")'
    BY <1>19, <2>2, <2>4
  <2> QED BY <1>1, <1>3, <1>6, <1>16, <1>8, <2>4, <2>5 DEF Flt!ParentSweeps, p, k
<1>9. CASE k = 4
  <2>1. Flt!Step(p) = <<"hot", "read", "file", FltPages>>
    BY <1>9, FltTable DEF k, p
  <2>2. fltCache = Flt!P /\ fltMajor[p] = 0 /\ fltMinor[p] <= s /\ (s = 0 => fltPte[p][i] = "none") /\
          (s # 0 => fltMinor[p] >= 1)
    BY <1>1, <1>4, <1>9 DEF Flt!ParentSweeps, Flt!Sweeping, k, p, s
  <2>3. CASE allowed
    <3>1. s # 0
      BY <2>1, <2>2, <2>3
    <3> QED BY <1>0, <1>1, <1>2, <1>6, <1>16, <1>3, <1>4, <1>9, <2>2, <2>3, <3>1 DEF Flt!ParentSweeps, p, k, i
  <2>4. CASE ~allowed
    <3>1. Flt!FileFault(p, i)
      BY <1>2, <2>1, <2>4
    <3>2. fltCache' = Flt!P /\ fltMajor'[p] = 0 /\ fltMinor'[p] = fltMinor[p] + 1 /\ fltFile' = fltFile
      BY <1>0, <1>1, <2>2, <3>1, FltFile
    <3>3. fltMinor'[p] <= i /\ fltMinor'[p] >= 1 /\ i # 0
      BY <1>1, <1>4, <2>2, <3>2 DEF i
    <3> QED BY <1>1, <1>3, <1>6, <1>16, <1>9, <3>2, <3>3 DEF Flt!ParentSweeps, p, k
  <2> QED BY <2>3, <2>4
<1>10. CASE k = 5
  <2>1. Flt!Step(p) = <<"cold", "read", "file", FltPages>>
    BY <1>10, FltTable DEF k, p
  <2>2. fltMinor[p] + fltMajor[p] <= s /\ (s = 0 => fltCache = {} /\ fltPte[p][i] = "none") /\
          (s # 0 => fltMajor[p] >= 1)
    BY <1>1, <1>4, <1>10 DEF Flt!ParentSweeps, Flt!Sweeping, k, p, s
  <2>3. CASE allowed
    <3>1. s # 0
      BY <2>1, <2>2, <2>3
    <3>2. fltMinor'[p] + fltMajor'[p] <= i /\ fltMajor'[p] >= 1 /\ i # 0 /\ fltFile' = fltFile
      BY <1>1, <1>2, <1>4, <2>2, <2>3, <3>1 DEF i
    <3> QED BY <1>1, <1>3, <1>6, <1>16, <1>10, <3>2 DEF Flt!ParentSweeps, p, k
  <2>4. CASE ~allowed
    <3>1. Flt!FileFault(p, i)
      BY <1>2, <2>1, <2>4
    <3>2. /\ fltFile' = fltFile
          /\ IF i \in fltCache THEN fltMinor'[p] = fltMinor[p] + 1 /\ fltMajor'[p] = fltMajor[p]
                               ELSE fltMinor'[p] = fltMinor[p] /\ fltMajor'[p] = fltMajor[p] + 1
      BY <1>0, <1>1, <3>1, FltFile
    <3>3. fltMinor'[p] + fltMajor'[p] <= i /\ fltMajor'[p] >= 1 /\ i # 0
      BY <1>1, <1>4, <2>2, <3>2 DEF i
    <3> QED BY <1>1, <1>3, <1>6, <1>16, <1>10, <3>2, <3>3 DEF Flt!ParentSweeps, p, k
  <2> QED BY <2>3, <2>4
<1>11. CASE k = 8
  <2>1. Flt!Step(p) = <<"reuse", "write", "anon", FltPages>>
    BY <1>11, FltTable DEF k, p
  <2>2. fltCopies[p] = 0 /\ fltFile = "AB"
    BY <1>11 DEF Flt!ParentSweeps, k, p
  <2>3. CASE Flt!Forked
    <3>1. Flt!Sweeping(p, "ro", "rw") /\ (\A j \in Flt!P : ~fltShared[j]) /\ fltMinor[p] = s /\
            fltPte[p][i] = "ro" /\ ~fltShared[i]
      BY <1>1, <1>17, <1>18, <1>11, <2>3
    <3>2. Flt!PrivateFault(p, i)
      BY <1>2, <2>1, <3>1
    <3>3. /\ fltMinor'[p] = i /\ fltCopies'[p] = 0 /\ fltFile' = fltFile
          /\ fltPte'[p][i] = "rw" /\ \A j \in Flt!P : j # i => fltPte'[p][j] = fltPte[p][j]
          /\ ~fltShared'[i] /\ \A j \in Flt!P : j # i => fltShared'[j] = fltShared[j]
      BY <1>20, <2>1, <2>2, <3>1, <3>2 DEF i
    <3>4. Flt!Sweeping(p, "ro", "rw")' /\ \A j \in Flt!P : ~fltShared'[j]
      BY <1>19, <3>1, <3>3
    <3> QED BY <1>1, <1>3, <1>6, <1>16, <1>5, <1>11, <2>2, <2>3, <3>3, <3>4 DEF Flt!ParentSweeps, p, k
  <2>4. CASE ~Flt!Forked
    <3>1. Flt!Sweeping(p, "rw", "rw") /\ fltMinor[p] = 0 /\ fltPte[p][i] = "rw"
      BY <1>17, <1>18, <1>11, <2>4
    <3>2. UNCHANGED <<fltPte, fltShared, fltCache, fltFile, fltMinor, fltMajor, fltCopies>>
      BY <1>2, <3>1
    <3>3. Flt!Sweeping(p, "rw", "rw")'
      BY <3>1, <3>2 DEF Flt!Sweeping
    <3> QED BY <1>1, <1>3, <1>6, <1>16, <1>5, <1>11, <2>2, <2>4, <3>1, <3>2, <3>3 DEF Flt!ParentSweeps, p, k
  <2> QED BY <2>3, <2>4
<1>12. CASE k = 9
  <2>1. Flt!Sweeping(p, "rw", "rw") /\ fltMinor[p] = 0 /\ fltMajor[p] = 0 /\ fltPte[p][i] = "rw" /\
          fltFile = "AB"
    BY <1>1, <1>12 DEF Flt!ParentSweeps, Flt!Sweeping, k, p
  <2>2. UNCHANGED <<fltPte, fltShared, fltCache, fltFile, fltMinor, fltMajor, fltCopies>>
    BY <1>2, <2>1
  <2>3. Flt!Sweeping(p, "rw", "rw")'
    BY <2>1, <2>2 DEF Flt!Sweeping
  <2> QED BY <1>1, <1>3, <1>6, <1>16, <1>12, <2>1, <2>2, <2>3 DEF Flt!ParentSweeps, p, k
<1>13. CASE k = 10
  <2>1. Flt!Step(p) = <<"private", "write", "priv", 1>>
    BY <1>13, FltTable DEF k, p
  <2>2. s = 0 /\ i = 1
    BY <1>1, <1>4, <2>1 DEF i
  <2>3. fltPte[p][i] = "ro" /\ fltMinor[p] = 0 /\ fltCopies[p] = 0 /\ fltFile = "AB"
    BY <1>13, <2>2 DEF Flt!ParentSweeps, k, p, s
  <2>4. Flt!PrivateFault(p, i)
    BY <1>2, <2>1, <2>3
  <2>5. fltMinor'[p] = 1 /\ fltCopies'[p] = 1 /\ fltFile' = fltFile
    BY <1>20, <2>1, <2>3, <2>4
  <2> QED BY <1>1, <1>3, <1>6, <1>16, <1>13, <2>2, <2>3, <2>5 DEF Flt!ParentSweeps, p, k
<1>14. CASE k = 11
  <2>1. Flt!Step(p) = <<"shared", "write", "file", 1>>
    BY <1>14, FltTable DEF k, p
  <2>2. s = 0 /\ i = 1
    BY <1>1, <1>4, <2>1 DEF i
  <2>3. fltPte[p][i] = "none"
    BY <1>14, <2>2 DEF Flt!ParentSweeps, k, p, s
  <2>4. Flt!SharedFault(p, i)
    BY <1>2, <2>1, <2>3
  <2>5. fltFile' = "5A"
    BY <1>0, <1>1, <2>4, FltShared
  <2> QED BY <1>1, <1>3, <1>6, <1>16, <1>14, <2>2, <2>5 DEF Flt!ParentSweeps, p, k
<1>15. k # 1
  <2>1. k = 1 => Flt!Step(p)[4] = 0
    BY FltTable DEF k, p
  <2> QED BY <1>1, <2>1 DEF Flt!P
<1> QED BY <1>3, <1>6, <1>7, <1>8, <1>9, <1>10, <1>11, <1>12, <1>13, <1>14, <1>15

\* The child touches a page of the parent's.
LEMMA FltChildTouches ==
  ASSUME Flt!FltSizes, Flt!TypeOK, Flt!ParentSweeps, Flt!ChildSweeps, Flt!Touch("child")
  PROVE  Flt!ParentSweeps' /\ Flt!ChildSweeps'
<1> DEFINE p == "child" k == fltPos["child"] s == fltSwept["child"] i == s + 1
           allowed == fltPte[p][i] = "rw" \/ (Flt!Step(p)[2] = "read" /\ fltPte[p][i] # "none")
<1>0. p \in Flt!Procs /\ "parent" \in Flt!Procs /\ "parent" # p /\ Flt!Active(p)
  BY DEF Flt!Procs, Flt!Touch
<1>1. /\ i \in Flt!P /\ fltSwept'[p] = i /\ fltSwept'["parent"] = fltSwept["parent"]
      /\ UNCHANGED <<fltProg, fltPos, fltSaid>> /\ s \in Nat
  BY <1>0, FltTouch
<1>2. /\ allowed => UNCHANGED <<fltPte, fltShared, fltCache, fltFile, fltMinor, fltMajor, fltCopies>>
      /\ ~allowed /\ Flt!Step(p)[3] # "file" => Flt!PrivateFault(p, i)
  BY <1>0, FltTouch
<1>3. k \in {2, 3} /\ fltPos["parent"] = 7
  BY <1>0, FltSweeps DEF Flt!ChildSweeps
<1>4. fltMinor[p] \in Nat /\ fltCopies[p] \in Nat /\ i > s
  BY <1>0, <1>1 DEF Flt!TypeOK
<1>5. Flt!Forked' = Flt!Forked
  BY <1>1 DEF Flt!Forked
<1>6. UNCHANGED <<fltPte, fltShared, fltCache, fltFile, fltMinor, fltMajor, fltCopies>> \/
        Flt!PrivateFault(p, i)
  BY <1>2, <1>3, FltTable
<1>18. \A a, b \in {"none", "zero", "ro", "rw"} : Flt!Sweeping(p, a, b) => fltPte[p][i] = a
  BY <1>1, <1>4 DEF Flt!Sweeping
<1>19. ASSUME NEW a, NEW b, Flt!Sweeping(p, a, b), fltPte'[p][i] = b, \A j \in Flt!P : j # i =>
                fltPte'[p][j] = fltPte[p][j]
       PROVE  Flt!Sweeping(p, a, b)'
  <2>1. \A j \in Flt!P : j # i => (j <= s <=> j <= i)
    BY <1>1 DEF Flt!P
  <2>2. i <= i
    BY <1>1 DEF Flt!P
  <2> QED BY <1>1, <1>19, <2>1, <2>2 DEF Flt!Sweeping
<1> HIDE DEF p, i, s, k
<1>20. ASSUME Flt!PrivateFault(p, i)
       PROVE  /\ \A j \in Flt!P : j # i => fltPte'[p][j] = fltPte[p][j] /\ fltShared'[j] = fltShared[j]
              /\ ~fltShared'[i]
              /\ Flt!Step(p)[2] = "write" => fltPte'[p][i] = "rw"
              /\ Flt!Step(p)[2] = "read" => fltPte'[p][i] = "zero"
              /\ fltMinor'[p] = fltMinor[p] + 1 /\ fltFile' = fltFile
              /\ fltCopies'[p] = IF fltPte[p][i] = "ro" /\ (fltShared[i] \/ Flt!Step(p)[3] = "priv")
                                 THEN fltCopies[p] + 1 ELSE fltCopies[p]
  BY <1>0, <1>1, <1>20, FltPrivate
<1>7. Flt!ParentSweeps'
  <2>1. /\ fltPte'["parent"] = fltPte["parent"] /\ fltMinor'["parent"] = fltMinor["parent"] /\
             fltFile' = fltFile
        /\ fltCopies'["parent"] = fltCopies["parent"]
    <3>1. CASE Flt!PrivateFault(p, i)
      BY <3>1, <1>0, <1>1, FltPrivate
    <3> QED BY <1>6, <3>1
  <2>2. Flt!Sweeping("parent", "ro", "ro")'
    BY <1>1, <1>3, <2>1 DEF Flt!ParentSweeps, Flt!Sweeping, k
  <2> QED BY <1>1, <1>3, <2>1, <2>2 DEF Flt!ParentSweeps, k
<1>8. CASE k = 2
  <2>1. Flt!Step(p)[2] = "read"
    BY <1>8, FltTable DEF k, p
  <2>2. fltPte[p][i] = "ro" /\ Flt!Sweeping(p, "ro", "ro")
    BY <1>1, <1>8 DEF Flt!ChildSweeps, Flt!Sweeping, k, p
  <2>3. UNCHANGED <<fltPte, fltShared, fltCache, fltFile, fltMinor, fltMajor, fltCopies>>
    BY <1>2, <2>1, <2>2
  <2>4. Flt!Sweeping(p, "ro", "ro")'
    BY <2>2, <2>3 DEF Flt!Sweeping
  <2>5. Flt!ChildSweeps'
    BY <1>1, <1>3, <1>5, <1>8, <2>3, <2>4 DEF Flt!ChildSweeps, k, p
  <2> QED BY <1>7, <2>5
<1>9. CASE k = 3
  <2>1. Flt!Step(p) = <<"cwrite", "write", "anon", FltPages>>
    BY <1>9, FltTable DEF k, p
  <2>2. /\ fltMinor[p] = s /\ fltCopies[p] = s /\ Flt!Sweeping(p, "ro", "rw") /\ fltPte[p][i] = "ro"
        /\ fltShared[i]
    <3>1. fltMinor[p] = s /\ fltCopies[p] = s /\ Flt!Sweeping(p, "ro", "rw")
      BY <1>9 DEF Flt!ChildSweeps, k, p, s
    <3>2. fltShared[i]
      BY <1>1, <1>4, <1>9 DEF Flt!ChildSweeps, k, p, s
    <3> QED BY <1>18, <3>1, <3>2
  <2>3. Flt!PrivateFault(p, i)
    BY <1>2, <2>1, <2>2
  <2>4. /\ fltMinor'[p] = i /\ fltCopies'[p] = i
        /\ fltPte'[p][i] = "rw" /\ \A j \in Flt!P : j # i => fltPte'[p][j] = fltPte[p][j]
        /\ ~fltShared'[i] /\ \A j \in Flt!P : j # i => fltShared'[j] = fltShared[j]
    BY <1>20, <2>1, <2>2, <2>3 DEF i
  <2>5. Flt!Sweeping(p, "ro", "rw")'
    BY <1>19, <2>2, <2>4
  <2>6. \A j \in Flt!P : j > i => fltShared'[j]
    <3>1. \A j \in Flt!P : j > i => j > s /\ j # i
      BY <1>1 DEF Flt!P, i
    <3>2. \A j \in Flt!P : j > s => fltShared[j]
      BY <1>9 DEF Flt!ChildSweeps, k, s
    <3> QED BY <2>4, <3>1, <3>2
  <2>7. Flt!ChildSweeps'
    BY <1>1, <1>3, <1>5, <1>9, <2>4, <2>5, <2>6 DEF Flt!ChildSweeps, k, p
  <2> QED BY <1>7, <2>7
<1> QED BY <1>3, <1>8, <1>9

-----------------------------------------------------------------------------
\* What mark() leaves.
LEMMA FltMark ==
  ASSUME Flt!FltSizes, Flt!TypeOK, NEW p \in Flt!Procs, NEW d \in {"ro", "rw"}, Flt!Mark(p, d)
  PROVE  /\ fltSwept' \in [Flt!Procs -> 0..FltPages] /\ fltMinor' \in [Flt!Procs -> Nat] /\
              fltMajor' \in [Flt!Procs -> Nat]
         /\ fltOwn' \in [Flt!Procs -> {0, 1}] /\ fltStray' \in [Flt!Procs -> Nat] /\
              fltStrayMaj' \in [Flt!Procs -> Nat]
         /\ fltCopies' \in [Flt!Procs -> Nat] /\ fltData' \in [Flt!Procs -> {"ro", "rw"}]
         /\ fltSwept'[p] = 0 /\ fltMinor'[p] = 0 /\ fltMajor'[p] = 0 /\ fltCopies'[p] = 0 /\ fltData'[p] = "rw"
         /\ fltOwn'[p] = IF d = "ro" THEN 1 ELSE 0
         /\ \A q \in Flt!Procs : q # p =>
              /\ fltSwept'[q] = fltSwept[q] /\ fltMinor'[q] = fltMinor[q] /\ fltMajor'[q] = fltMajor[q]
              /\ fltCopies'[q] = fltCopies[q] /\ fltData'[q] = fltData[q] /\ fltOwn'[q] = fltOwn[q]
<1>1. fltSwept' \in [Flt!Procs -> 0..FltPages] /\ fltSwept'[p] = 0 /\ \A q \in Flt!Procs : q # p =>
        fltSwept'[q] = fltSwept[q]
  <2>1. 0 \in 0..FltPages
    BY FltCount DEF Flt!FltSizes
  <2> QED BY <2>1 DEF Flt!Mark, Flt!TypeOK
<1>2. fltMinor' \in [Flt!Procs -> Nat] /\ fltMinor'[p] = 0 /\ \A q \in Flt!Procs : q # p =>
        fltMinor'[q] = fltMinor[q]
  BY DEF Flt!Mark, Flt!TypeOK
<1>3. fltMajor' \in [Flt!Procs -> Nat] /\ fltMajor'[p] = 0 /\ \A q \in Flt!Procs : q # p =>
        fltMajor'[q] = fltMajor[q]
  BY DEF Flt!Mark, Flt!TypeOK
<1>4. fltCopies' \in [Flt!Procs -> Nat] /\ fltCopies'[p] = 0 /\ \A q \in Flt!Procs : q # p =>
        fltCopies'[q] = fltCopies[q]
  BY DEF Flt!Mark, Flt!TypeOK
<1>5. fltData' \in [Flt!Procs -> {"ro", "rw"}] /\ fltData'[p] = "rw" /\ \A q \in Flt!Procs : q # p =>
        fltData'[q] = fltData[q]
  BY DEF Flt!Mark, Flt!TypeOK
<1>6. fltOwn' \in [Flt!Procs -> {0, 1}] /\ fltOwn'[p] = (IF d = "ro" THEN 1 ELSE 0) /\
        \A q \in Flt!Procs : q # p => fltOwn'[q] = fltOwn[q]
  BY DEF Flt!Mark, Flt!TypeOK
<1>7. fltStray' \in [Flt!Procs -> Nat] /\ fltStrayMaj' \in [Flt!Procs -> Nat]
  BY DEF Flt!Mark, Flt!TypeOK
<1> QED BY <1>1, <1>2, <1>3, <1>4, <1>5, <1>6, <1>7

\* What report() and the next mark() leave, whatever the sweep was.
LEMMA FltReport ==
  ASSUME Flt!FltSizes, Flt!TypeOK, NEW p \in Flt!Procs, Flt!Report(p)
  PROVE  /\ Flt!TypeOK' /\ fltSwept[p] = Flt!Step(p)[4] /\ Flt!Remap(p)
         /\ fltSwept'[p] = 0 /\ fltMinor'[p] = 0 /\ fltMajor'[p] = 0 /\ fltCopies'[p] = 0 /\ fltData'[p] = "rw"
         /\ fltOwn'[p] = IF fltData[p] = "ro" THEN 1 ELSE 0
         /\ fltPos'[p] = fltPos[p] + 1
         /\ \A q \in Flt!Procs : q # p =>
              /\ fltPte'[q] = fltPte[q] /\ fltSwept'[q] = fltSwept[q] /\ fltMinor'[q] = fltMinor[q] /\
                   fltMajor'[q] = fltMajor[q]
              /\ fltCopies'[q] = fltCopies[q] /\ fltData'[q] = fltData[q] /\ fltOwn'[q] = fltOwn[q] /\
                   fltPos'[q] = fltPos[q]
         /\ UNCHANGED <<fltProg, fltShared, fltFile>>
         /\ UNCHANGED Flt!conc
<1>1. Flt!Active(p) /\ fltSwept[p] = Flt!Step(p)[4] /\ Flt!Remap(p) /\ Flt!Mark(p, fltData[p]) /\
        fltData[p] \in {"ro", "rw"}
  BY DEF Flt!Report, Flt!TypeOK
<1>2. fltPos' = [fltPos EXCEPT ![p] = fltPos[p] + 1] /\ UNCHANGED <<fltProg, fltShared, fltFile>>
  BY DEF Flt!Report
<1>3. UNCHANGED Flt!conc /\ DOMAIN fltSaid' = Flt!Procs
  BY DEF Flt!Report, Flt!TypeOK
<1>4. fltPos[p] + 1 \in 1..12 /\ (p = "child" => fltPos[p] + 1 \in 0..4)
  BY <1>1, FltSweeps DEF Flt!Procs
<1>5. fltPos' \in [Flt!Procs -> 0..12] /\ fltPos'["parent"] \in 1..12 /\ fltPos'["child"] \in 0..4
  <2>1. fltPos' \in [Flt!Procs -> 0..12]
    BY <1>2, <1>4 DEF Flt!TypeOK
  <2>2. \A q \in Flt!Procs : fltPos'[q] = IF q = p THEN fltPos[p] + 1 ELSE fltPos[q]
    BY <1>2 DEF Flt!TypeOK
  <2>3. fltPos'["parent"] \in 1..12
    BY <1>4, <2>2 DEF Flt!TypeOK, Flt!Procs
  <2>4. fltPos'["child"] \in 0..4
    BY <1>4, <2>2 DEF Flt!TypeOK, Flt!Procs
  <2> QED BY <2>1, <2>3, <2>4
<1>6. fltPos'[p] = fltPos[p] + 1 /\ \A q \in Flt!Procs : q # p => fltPos'[q] = fltPos[q]
  BY <1>2 DEF Flt!TypeOK
<1>7. fltPte' \in [Flt!Procs -> [Flt!P -> {"none", "zero", "ro", "rw"}]] /\ \A q \in Flt!Procs : q # p =>
        fltPte'[q] = fltPte[q]
  <2>1. Flt!Empty \in [Flt!P -> {"none", "zero", "ro", "rw"}]
    BY DEF Flt!Empty
  <2>2. [Flt!Empty EXCEPT ![1] = "ro"] \in [Flt!P -> {"none", "zero", "ro", "rw"}]
    BY <2>1
  <2>3. \/ fltPte' = [fltPte EXCEPT ![p] = Flt!Empty]
        \/ fltPte' = [fltPte EXCEPT ![p] = [Flt!Empty EXCEPT ![1] = "ro"]]
        \/ fltPte' = fltPte
    BY <1>1 DEF Flt!Remap
  <2>4. \A f \in [Flt!P -> {"none", "zero", "ro", "rw"}] :
           fltPte' = [fltPte EXCEPT ![p] = f] =>
             /\ fltPte' \in [Flt!Procs -> [Flt!P -> {"none", "zero", "ro", "rw"}]]
                                                 /\ \A q \in Flt!Procs : q # p => fltPte'[q] = fltPte[q]
    BY DEF Flt!TypeOK
  <2>5. fltPte \in [Flt!Procs -> [Flt!P -> {"none", "zero", "ro", "rw"}]]
    BY DEF Flt!TypeOK
  <2> HIDE DEF Flt!Empty
  <2> QED BY <2>1, <2>2, <2>3, <2>4, <2>5
<1>8. fltCache' \subseteq Flt!P
  <2>1. fltCache' \in {fltCache, Flt!P, {}, fltCache \cup {1}} /\ 1 \in Flt!P
    BY <1>1, FltCount DEF Flt!Remap, Flt!P, Flt!FltSizes
  <2> QED BY <2>1 DEF Flt!TypeOK
<1>9. /\ fltSwept' \in [Flt!Procs -> 0..FltPages] /\ fltMinor' \in [Flt!Procs -> Nat] /\
           fltMajor' \in [Flt!Procs -> Nat]
      /\ fltOwn' \in [Flt!Procs -> {0, 1}] /\ fltStray' \in [Flt!Procs -> Nat] /\
           fltStrayMaj' \in [Flt!Procs -> Nat]
      /\ fltCopies' \in [Flt!Procs -> Nat] /\ fltData' \in [Flt!Procs -> {"ro", "rw"}]
      /\ fltSwept'[p] = 0 /\ fltMinor'[p] = 0 /\ fltMajor'[p] = 0 /\ fltCopies'[p] = 0 /\ fltData'[p] = "rw"
      /\ fltOwn'[p] = IF fltData[p] = "ro" THEN 1 ELSE 0
      /\ \A q \in Flt!Procs : q # p =>
           /\ fltSwept'[q] = fltSwept[q] /\ fltMinor'[q] = fltMinor[q] /\ fltMajor'[q] = fltMajor[q]
           /\ fltCopies'[q] = fltCopies[q] /\ fltData'[q] = fltData[q] /\ fltOwn'[q] = fltOwn[q]
  BY <1>1, FltMark
<1>14. Flt!TypeOK'
  BY <1>2, <1>3, <1>5, <1>7, <1>8, <1>9 DEF Flt!TypeOK, Flt!conc
<1> QED BY <1>1, <1>2, <1>3, <1>6, <1>7, <1>9, <1>14

\* The reports stay as announced when one is added; only that of the child's
\* write makes a difference to another, of a later sweep.
LEMMA FltSaid ==
  ASSUME Flt!TypeOK, NEW p \in Flt!Procs, NEW e, fltSaid' = [fltSaid EXCEPT ![p] = {e}], Flt!FaultsAsAnnounced,
           Flt!Announced(e)',
         Flt!Forked' = Flt!Forked \/ \A q \in Flt!Procs : \A x \in fltSaid[q] : x.sweep # "reuse"
  PROVE  Flt!FaultsAsAnnounced'
<1> SUFFICES ASSUME NEW q \in Flt!Procs, NEW x \in fltSaid'[q] PROVE Flt!Announced(x)'
  BY DEF Flt!FaultsAsAnnounced
<1>1. fltSaid'[q] = IF q = p THEN {e} ELSE fltSaid[q]
  BY DEF Flt!TypeOK
<1>2. CASE q = p
  BY <1>1, <1>2
<1>3. CASE q # p
  <2>1. x \in fltSaid[q] /\ Flt!Announced(x)
    BY <1>1, <1>3 DEF Flt!FaultsAsAnnounced
  <2>2. CASE x.sweep = "reuse"
    <3>1. Flt!Forked' = Flt!Forked
      BY <2>1, <2>2
    <3> QED BY <2>1, <3>1 DEF Flt!Announced, Flt!Minor, Flt!Major
  <2>3. CASE x.sweep # "reuse"
    BY <2>1, <2>3 DEF Flt!Announced, Flt!Minor, Flt!Major
  <2> QED BY <2>2, <2>3
<1> QED BY <1>2, <1>3

\* The parent reports a sweep and begins the next.
LEMMA FltParentReports ==
  ASSUME Flt!FltSizes, Flt!TypeOK, Flt!ParentSweeps, Flt!ChildSweeps, Flt!DataPages, Flt!FaultsAsAnnounced,
           Flt!Report("parent")
  PROVE  Flt!TypeOK' /\ Flt!ParentSweeps' /\ Flt!ChildSweeps' /\ Flt!DataPages' /\ Flt!FaultsAsAnnounced'
<1> DEFINE p == "parent" k == fltPos["parent"] s == fltSwept["parent"]
<1>0. p \in Flt!Procs /\ "child" \in Flt!Procs /\ "child" # p /\ Flt!Active(p)
  BY DEF Flt!Procs, Flt!Report
<1>1. /\ Flt!TypeOK' /\ s = Flt!Step(p)[4] /\ Flt!Remap(p)
      /\ fltSwept'[p] = 0 /\ fltMinor'[p] = 0 /\ fltMajor'[p] = 0 /\ fltCopies'[p] = 0 /\ fltData'[p] = "rw"
      /\ fltOwn'[p] = (IF fltData[p] = "ro" THEN 1 ELSE 0) /\ fltPos'[p] = k + 1 /\
           UNCHANGED <<fltProg, fltShared, fltFile>>
  BY <1>0, FltReport
<1>2. /\ fltSwept'["child"] = fltSwept["child"] /\ fltMinor'["child"] = fltMinor["child"] /\
           fltMajor'["child"] = fltMajor["child"]
      /\ fltCopies'["child"] = fltCopies["child"] /\ fltPos'["child"] = fltPos["child"]
      /\ fltPte'["child"] = fltPte["child"]
  BY <1>0, FltReport
<1>3. k \in {1, 2, 3, 4, 5, 8, 9, 10, 11} /\ fltPos["child"] = 0
  BY <1>0, FltSweeps DEF Flt!ChildSweeps, Flt!TypeOK
<1>4. PICK e : e = [sweep |-> Flt!Step(p)[1], minor |-> fltMinor[p] + fltOwn[p] + fltStray[p],
        major |-> fltMajor[p] + fltStrayMaj[p],
                    own |-> fltOwn[p], stray |-> fltStray[p], strayMaj |-> fltStrayMaj[p],
                    copies |-> fltCopies[p], file |-> fltFile]
  OBVIOUS
<1>5. fltSaid' = [fltSaid EXCEPT ![p] = {e}] /\ DOMAIN fltSaid = Flt!Procs
  BY <1>4 DEF Flt!Report, Flt!TypeOK
<1>6. /\ e.sweep = Flt!Step(p)[1] /\ e.own = fltOwn[p] /\ e.copies = fltCopies[p] /\ e.file = fltFile
      /\ Flt!Minor(e) = fltMinor[p] /\ Flt!Major(e) = fltMajor[p]
  <2>1. /\ fltMinor[p] \in Nat /\ fltMajor[p] \in Nat /\ fltOwn[p] \in {0, 1} /\ fltStray[p] \in Nat
        /\ fltStrayMaj[p] \in Nat
    BY <1>0 DEF Flt!TypeOK
  <2> HIDE DEF p
  <2>2. /\ e.sweep = Flt!Step(p)[1] /\ e.own = fltOwn[p] /\ e.copies = fltCopies[p] /\ e.file = fltFile
        /\ e.minor = fltMinor[p] + fltOwn[p] + fltStray[p] /\ e.stray = fltStray[p]
        /\ e.major = fltMajor[p] + fltStrayMaj[p] /\ e.strayMaj = fltStrayMaj[p]
    BY <1>4
  <2> QED BY <2>1, <2>2 DEF Flt!Minor, Flt!Major
<1>7. /\ k = 1 => e.sweep = "untouched" /\ s = 0
      /\ k = 2 => e.sweep = "write" /\ s = FltPages
      /\ k = 3 => e.sweep = "zero" /\ s = FltPages
      /\ k = 4 => e.sweep = "hot" /\ s = FltPages
      /\ k = 5 => e.sweep = "cold" /\ s = FltPages
      /\ k = 8 => e.sweep = "reuse" /\ s = FltPages
      /\ k = 9 => e.sweep = "again" /\ s = FltPages
      /\ k = 10 => e.sweep = "private" /\ s = 1
      /\ k = 11 => e.sweep = "shared" /\ s = 1
  BY <1>1, <1>6, FltTable
<1>8. e.sweep # "cwrite" /\ (e.sweep = "reuse" => k = 8)
  BY <1>3, <1>7
<1>9. Flt!Forked' = Flt!Forked /\ fltSaid'["child"] = fltSaid["child"] /\ fltSaid'[p] = {e}
  BY <1>0, <1>5 DEF Flt!Forked
<1>10. /\ fltMinor[p] \in Nat /\ fltMajor[p] \in Nat /\ FltPages \in Nat \ {0}
  BY <1>0, FltCount DEF Flt!TypeOK, Flt!FltSizes
<1>11. /\ k = 1 => fltMinor[p] = 0 /\ fltMajor[p] = 0 /\ Flt!Sweeping(p, "none", "none")
       /\ k = 2 => fltMinor[p] = s
       /\ k = 3 => fltMinor[p] = s
       /\ k = 4 => fltCache = Flt!P /\ fltMajor[p] = 0 /\ fltMinor[p] <= s /\ (s # 0 => fltMinor[p] >= 1)
       /\ k = 5 => fltMinor[p] + fltMajor[p] <= s /\ (s # 0 => fltMajor[p] >= 1)
       /\ k = 8 => fltCopies[p] = 0
       /\ k = 8 /\ Flt!Forked => Flt!Sweeping(p, "ro", "rw") /\ fltMinor[p] = s
       /\ k = 8 /\ ~Flt!Forked => Flt!Sweeping(p, "rw", "rw") /\ fltMinor[p] = 0
       /\ k = 9 => fltMinor[p] = 0 /\ fltMajor[p] = 0
       /\ k = 10 /\ s # 0 => fltMinor[p] = 1 /\ fltCopies[p] = 1
       /\ k <= 10 => fltFile = "AB"
       /\ k = 11 /\ s # 0 => fltFile = "5A"
  BY <1>3 DEF Flt!ParentSweeps
<1>20. fltData[p] = "rw" /\ fltOwn[p] \in {0, 1} /\ (k # 8 \/ ~Flt!Forked => fltOwn[p] = 0)
  BY <1>0, <1>3 DEF Flt!DataPages, Flt!TypeOK
<1>12. Flt!Announced(e)'
  <2>1. Flt!Minor(e)' = fltMinor[p] /\ Flt!Major(e)' = fltMajor[p]
    BY <1>6 DEF Flt!Minor, Flt!Major
  <2> QED BY <1>3, <1>6, <1>7, <1>9, <1>10, <1>11, <1>20, <2>1 DEF Flt!Announced
<1>13. Flt!FaultsAsAnnounced'
  BY <1>0, <1>5, <1>9, <1>12, FltSaid
<1>21. Flt!DataPages'
  <2>1. k + 1 # 8 /\ k + 1 # 7
    BY <1>3
  <2> HIDE DEF p, k
  <2> QED BY <1>1, <1>2, <1>3, <1>20, <2>1 DEF Flt!DataPages, p
<1>14. Flt!ChildSweeps'
  <2>1. k + 1 # 7 /\ (k + 1 < 7 => k < 7) /\ (k >= 9 => k + 1 >= 9) /\ (k = 8 => k + 1 >= 9)
    BY <1>3
  <2>2. \A q \in Flt!Procs : \A x \in fltSaid'[q] : x.sweep = "reuse" => k + 1 >= 9
    <3>1. \A x \in fltSaid["child"] : x.sweep = "reuse" => k >= 9
      BY <1>0 DEF Flt!ChildSweeps
    <3> QED BY <1>3, <1>8, <1>9, <2>1, <3>1 DEF Flt!Procs
  <2>3. fltPos'["parent"] < 7 => ~Flt!Forked'
    BY <1>1, <1>9, <2>1 DEF Flt!ChildSweeps
  <2> QED BY <1>1, <1>2, <1>3, <2>1, <2>2, <2>3 DEF Flt!ChildSweeps
<1>15. Flt!ParentSweeps'
  <2>1. /\ k = 1 => fltPte' = fltPte
        /\ k \in {2, 3, 4, 10} => fltPte'[p] = Flt!Empty
        /\ k = 3 => fltCache' = Flt!P
        /\ k = 4 => fltCache' = {}
        /\ k = 8 => fltPte' = fltPte
        /\ k = 9 => fltPte'[p] = [Flt!Empty EXCEPT ![1] = "ro"]
    <3>1. Flt!Step(p)[1] = e.sweep /\ fltPte \in [Flt!Procs -> [Flt!P -> {"none", "zero", "ro", "rw"}]]
      BY <1>6 DEF Flt!TypeOK
    <3>2. k = 1 \/ k = 8 => fltPte' = fltPte
      BY <1>1, <1>7, <3>1 DEF Flt!Remap
    <3>3. k \in {2, 3, 4, 10} => fltPte' = [fltPte EXCEPT ![p] = Flt!Empty]
      BY <1>1, <1>7, <3>1 DEF Flt!Remap
    <3>4. k = 9 => fltPte' = [fltPte EXCEPT ![p] = [Flt!Empty EXCEPT ![1] = "ro"]]
      BY <1>1, <1>7, <3>1 DEF Flt!Remap
    <3>5. (k = 3 => fltCache' = Flt!P) /\ (k = 4 => fltCache' = {})
      BY <1>1, <1>7, <3>1 DEF Flt!Remap
    <3> QED BY <1>0, <3>1, <3>2, <3>3, <3>4, <3>5
  <2>2. \A j \in Flt!P : ~ (j <= 0)
    BY DEF Flt!P
  <2>3. 1 \in Flt!P /\ \A j \in Flt!P : Flt!Empty[j] = "none"
    BY FltCount DEF Flt!P, Flt!Empty, Flt!FltSizes
  <2>4. k = 1 => Flt!Sweeping(p, "none", "rw")'
    BY <1>1, <1>7, <1>11, <2>1, <2>2 DEF Flt!Sweeping
  <2>5. k = 2 => Flt!Sweeping(p, "none", "zero")'
    BY <1>1, <2>1, <2>2, <2>3 DEF Flt!Sweeping
  <2>6. k \in {3, 4} => Flt!Sweeping(p, "none", "none")'
    BY <1>1, <2>1, <2>2, <2>3 DEF Flt!Sweeping
  <2>7. k = 8 => Flt!Sweeping(p, "rw", "rw")'
    <3>1. \A j \in Flt!P : j <= FltPages
      BY DEF Flt!P
    <3>2. k = 8 => \A j \in Flt!P : fltPte[p][j] = "rw"
      BY <1>7, <1>11, <3>1 DEF Flt!Sweeping
    <3> QED BY <1>1, <2>1, <3>2 DEF Flt!Sweeping
  <2>8. k = 9 => fltPte'[p][1] = "ro"
    <3>1. [Flt!Empty EXCEPT ![1] = "ro"][1] = "ro"
      BY <2>3 DEF Flt!Empty
    <3> QED BY <2>1, <3>1
  <2>9. k = 10 => fltPte'[p][1] = "none"
    BY <2>1, <2>3
  <2>10. k <= 10 => fltFile' = "AB"
    BY <1>1, <1>11
  <2> HIDE DEF p, k, s
  <2>11. CASE k = 1
    BY <1>1, <2>4, <2>10, <2>11 DEF Flt!ParentSweeps, p
  <2>12. CASE k = 2
    BY <1>1, <2>5, <2>10, <2>12 DEF Flt!ParentSweeps, p
  <2>13. CASE k = 3
    BY <1>1, <2>1, <2>6, <2>10, <2>13 DEF Flt!ParentSweeps, p
  <2>14. CASE k = 4
    BY <1>1, <2>1, <2>6, <2>10, <2>14 DEF Flt!ParentSweeps, p
  <2>15. CASE k = 5
    BY <1>1, <2>10, <2>15 DEF Flt!ParentSweeps, p
  <2>16. CASE k = 8
    BY <1>1, <2>7, <2>10, <2>16 DEF Flt!ParentSweeps, p
  <2>17. CASE k = 9
    BY <1>1, <2>8, <2>10, <2>17 DEF Flt!ParentSweeps, p
  <2>18. CASE k = 10
    BY <1>1, <2>9, <2>18 DEF Flt!ParentSweeps, p
  <2>19. CASE k = 11
    BY <1>1, <2>19 DEF Flt!ParentSweeps, p
  <2> QED BY <1>3, <2>11, <2>12, <2>13, <2>14, <2>15, <2>16, <2>17, <2>18, <2>19
<1> QED BY <1>1, <1>13, <1>14, <1>15, <1>21

\* The child reports its reads, then its writes.
LEMMA FltChildReports ==
  ASSUME Flt!FltSizes, Flt!TypeOK, Flt!ParentSweeps, Flt!ChildSweeps, Flt!DataPages, Flt!FaultsAsAnnounced,
           Flt!Report("child")
  PROVE  Flt!TypeOK' /\ Flt!ParentSweeps' /\ Flt!ChildSweeps' /\ Flt!DataPages' /\ Flt!FaultsAsAnnounced'
<1> DEFINE p == "child" k == fltPos["child"] s == fltSwept["child"]
<1>0. p \in Flt!Procs /\ "parent" \in Flt!Procs /\ "parent" # p /\ Flt!Active(p)
  BY DEF Flt!Procs, Flt!Report
<1>1. /\ Flt!TypeOK' /\ s = Flt!Step(p)[4] /\ Flt!Remap(p)
      /\ fltSwept'[p] = 0 /\ fltMinor'[p] = 0 /\ fltMajor'[p] = 0 /\ fltCopies'[p] = 0 /\ fltData'[p] = "rw"
      /\ fltOwn'[p] = (IF fltData[p] = "ro" THEN 1 ELSE 0) /\ fltPos'[p] = k + 1 /\
           UNCHANGED <<fltProg, fltShared, fltFile>>
  BY <1>0, FltReport
<1>2. /\ fltSwept'["parent"] = fltSwept["parent"] /\ fltMinor'["parent"] = fltMinor["parent"]
      /\ fltCopies'["parent"] = fltCopies["parent"]
      /\ fltOwn'["parent"] = fltOwn["parent"] /\ fltPte'["parent"] = fltPte["parent"] /\
           fltPos'["parent"] = fltPos["parent"]
  BY <1>0, FltReport
<1>3. k \in {2, 3} /\ fltPos["parent"] = 7
  BY <1>0, FltSweeps DEF Flt!ChildSweeps
<1>4. PICK e : e = [sweep |-> Flt!Step(p)[1], minor |-> fltMinor[p] + fltOwn[p] + fltStray[p],
        major |-> fltMajor[p] + fltStrayMaj[p],
                    own |-> fltOwn[p], stray |-> fltStray[p], strayMaj |-> fltStrayMaj[p],
                    copies |-> fltCopies[p], file |-> fltFile]
  OBVIOUS
<1>5. fltSaid' = [fltSaid EXCEPT ![p] = {e}] /\ DOMAIN fltSaid = Flt!Procs
  BY <1>4 DEF Flt!Report, Flt!TypeOK
<1>6. /\ e.sweep = Flt!Step(p)[1] /\ e.own = fltOwn[p] /\ e.copies = fltCopies[p] /\ e.file = fltFile
      /\ Flt!Minor(e) = fltMinor[p] /\ Flt!Major(e) = fltMajor[p]
  <2>1. /\ fltMinor[p] \in Nat /\ fltMajor[p] \in Nat /\ fltOwn[p] \in {0, 1} /\ fltStray[p] \in Nat
        /\ fltStrayMaj[p] \in Nat
    BY <1>0 DEF Flt!TypeOK
  <2> HIDE DEF p
  <2>2. /\ e.sweep = Flt!Step(p)[1] /\ e.own = fltOwn[p] /\ e.copies = fltCopies[p] /\ e.file = fltFile
        /\ e.minor = fltMinor[p] + fltOwn[p] + fltStray[p] /\ e.stray = fltStray[p]
        /\ e.major = fltMajor[p] + fltStrayMaj[p] /\ e.strayMaj = fltStrayMaj[p]
    BY <1>4
  <2> QED BY <2>1, <2>2 DEF Flt!Minor, Flt!Major
<1>7. (k = 2 => e.sweep = "cread") /\ (k = 3 => e.sweep = "cwrite" /\ s = FltPages)
  BY <1>1, <1>6, FltTable
<1>8. /\ k = 2 => fltMinor[p] = 0 /\ fltMajor[p] = 0 /\ Flt!Sweeping(p, "ro", "ro") /\ fltOwn[p] = 1
      /\ k = 3 => fltMinor[p] = s /\ fltCopies[p] = s /\ fltOwn[p] = 0
      /\ ~Flt!Forked /\ fltData[p] = "rw" /\ fltOwn["parent"] = 0
      /\ \A q \in Flt!Procs : \A x \in fltSaid[q] : x.sweep # "reuse"
  BY <1>3 DEF Flt!ChildSweeps, Flt!DataPages
<1>20. fltSaid'["child"] = {e} /\ fltSaid'["parent"] = fltSaid["parent"]
  BY <1>0, <1>5
<1>9. Flt!FaultsAsAnnounced'
  <2>1. Flt!Minor(e)' = fltMinor[p] /\ Flt!Major(e)' = fltMajor[p]
    BY <1>6 DEF Flt!Minor, Flt!Major
  <2>2. Flt!Announced(e)'
    BY <1>3, <1>6, <1>7, <1>8, <2>1 DEF Flt!Announced
  <2>3. Flt!Forked' = Flt!Forked \/ \A q \in Flt!Procs : \A x \in fltSaid[q] : x.sweep # "reuse"
    <3>1. CASE k = 2
      BY <1>7, <1>8, <1>20, <3>1 DEF Flt!Forked
    <3>2. CASE k = 3
      BY <1>8
    <3> QED BY <1>3, <3>1, <3>2
  <2> QED BY <1>0, <1>5, <2>2, <2>3, FltSaid
<1>10. fltPte' = fltPte
  <2>1. Flt!Step(p)[1] \in {"cread", "cwrite"}
    BY <1>3, <1>6, <1>7
  <2> QED BY <1>1, <2>1 DEF Flt!Remap
<1>11. Flt!ParentSweeps'
  <2>1. Flt!Sweeping("parent", "ro", "ro")'
    BY <1>2, <1>3, <1>10 DEF Flt!ParentSweeps, Flt!Sweeping
  <2>2. fltPos'["child"] # 0 /\ fltPos'["parent"] = 7
    BY <1>1, <1>2, <1>3
  <2> HIDE DEF p, k, s
  <2> QED BY <1>1, <1>2, <1>3, <2>1, <2>2 DEF Flt!ParentSweeps
<1>12. Flt!ChildSweeps'
  <2>1. k = 2 => ~Flt!Forked'
    BY <1>7, <1>20 DEF Flt!Forked
  <2>2. k = 3 => Flt!Forked'
    BY <1>7, <1>20 DEF Flt!Forked
  <2>3. k = 2 => Flt!Sweeping(p, "ro", "rw")'
    <3>1. \A j \in Flt!P : ~ (j <= 0)
      BY DEF Flt!P
    <3> QED BY <1>1, <1>8, <1>10, <3>1 DEF Flt!Sweeping
  <2>4. k = 2 => \A j \in Flt!P : fltShared'[j]
    BY <1>1 DEF Flt!ChildSweeps
  <2>5. \A q \in Flt!Procs : \A x \in fltSaid'[q] : x.sweep # "reuse"
    BY <1>3, <1>7, <1>8, <1>20 DEF Flt!Procs
  <2>6. CASE k = 2
    BY <1>1, <1>2, <1>3, <2>1, <2>3, <2>4, <2>5, <2>6 DEF Flt!ChildSweeps
  <2>7. CASE k = 3
    BY <1>1, <1>2, <1>3, <2>2, <2>5, <2>7 DEF Flt!ChildSweeps
  <2> QED BY <1>3, <2>6, <2>7
<1>13. Flt!DataPages'
  <2> HIDE DEF p, k
  <2> QED BY <1>1, <1>2, <1>3, <1>8 DEF Flt!DataPages, p
<1> QED BY <1>1, <1>9, <1>11, <1>12, <1>13

\* fork(), the child's first mark() and its exit, wait() and a failing mmap().
LEMMA FltForkSteps ==
  ASSUME Flt!FltSizes, Flt!TypeOK, Flt!ParentSweeps, Flt!ChildSweeps, Flt!DataPages,
         Flt!Fork \/ Flt!ChildMarks \/ Flt!ChildExits \/ Flt!Wait \/ Flt!MapMissing
  PROVE  Flt!TypeOK' /\ Flt!ParentSweeps' /\ Flt!ChildSweeps' /\ Flt!DataPages'
<1>0. "parent" \in Flt!Procs /\ "child" \in Flt!Procs /\ "child" # "parent" /\ fltPos \in [Flt!Procs -> 0..12]
  BY DEF Flt!Procs, Flt!TypeOK
<1>1. /\ UNCHANGED <<fltProg, fltCache, fltFile, fltSaid>>
      /\ UNCHANGED <<fltTh, fltAt, fltPresent, fltLost, fltFaults, fltSpurious, fltOther, fltPrinted>> /\
           Flt!Forked' = Flt!Forked
      /\ DOMAIN fltSaid' = Flt!Procs
  BY DEF Flt!Fork, Flt!ChildMarks, Flt!ChildExits, Flt!Wait, Flt!Resume, Flt!MapMissing, Flt!conc, Flt!maps,
       Flt!Forked, Flt!TypeOK
<1>5. Flt!Fork \/ Flt!ChildExits \/ Flt!MapMissing =>
        UNCHANGED <<fltSwept, fltMinor, fltMajor, fltOwn, fltStray, fltStrayMaj, fltCopies>>
  BY DEF Flt!Fork, Flt!ChildExits, Flt!MapMissing, Flt!counts
<1>6. fltData \in [Flt!Procs -> {"ro", "rw"}]
  BY DEF Flt!TypeOK
<1>2. CASE Flt!Fork
  <2>1. fltPos["parent"] = 6
    BY <1>2, FltTable DEF Flt!Fork, Flt!Calls, Flt!TypeOK
  <2>2. fltPos["child"] = 0 /\ ~Flt!Forked /\ \A q \in Flt!Procs : \A x \in fltSaid[q] : x.sweep # "reuse"
    BY <2>1 DEF Flt!ChildSweeps
  <2>3. fltSwept["parent"] = 0 /\ fltMinor["parent"] = 0 /\ fltCopies["parent"] = 0 /\ fltFile = "AB"
    BY <2>1 DEF Flt!ParentSweeps
  <2>4. fltOwn["parent"] = 0 /\ fltData["parent"] = "rw"
    BY <2>1 DEF Flt!DataPages
  <2>5. CASE /\ fltPte' = [q \in Flt!Procs |-> [i \in Flt!P |-> "ro"]] /\ fltShared' = [i \in Flt!P |-> TRUE]
             /\ fltData' = [q \in Flt!Procs |-> "ro"]
             /\ fltPos' = [fltPos EXCEPT !["parent"] = fltPos["parent"] + 1, !["child"] = 1]
    <3>1. fltPos'["parent"] = 7 /\ fltPos'["child"] = 1 /\ fltPos' \in [Flt!Procs -> 0..12]
      BY <1>0, <2>1, <2>5
    <3>2. fltPte' \in [Flt!Procs -> [Flt!P -> {"none", "zero", "ro", "rw"}]] /\
            fltShared' \in [Flt!P -> BOOLEAN]
          /\ fltData' \in [Flt!Procs -> {"ro", "rw"}] /\ fltData'["child"] = "ro"
      BY <1>0, <2>5
    <3>3. Flt!TypeOK'
      BY <1>1, <1>2, <1>5, <3>1, <3>2 DEF Flt!TypeOK
    <3>4. Flt!Sweeping("parent", "ro", "ro")' /\ Flt!Sweeping("child", "ro", "ro")'
      BY <1>0, <2>5 DEF Flt!Sweeping
    <3>5. \A i \in Flt!P : fltShared'[i]
      BY <2>5
    <3>6. Flt!ParentSweeps'
      BY <1>1, <1>2, <1>5, <2>3, <3>1, <3>4 DEF Flt!ParentSweeps
    <3>7. Flt!ChildSweeps'
      BY <1>1, <2>2, <3>1, <3>4, <3>5 DEF Flt!ChildSweeps
    <3>8. Flt!DataPages'
      BY <1>2, <1>5, <2>4, <3>1, <3>2 DEF Flt!DataPages
    <3> QED BY <3>3, <3>6, <3>7, <3>8
  <2>6. CASE /\ fltPte' = [fltPte EXCEPT !["parent"] = [i \in Flt!P |-> "rw"]] /\ fltShared' = fltShared /\
                  fltData' = fltData
             /\ fltPos' = [fltPos EXCEPT !["parent"] = fltPos["parent"] + 1]
    <3>1. fltPos'["parent"] = 7 /\ fltPos'["child"] = 0 /\ fltPos' \in [Flt!Procs -> 0..12]
      BY <1>0, <2>1, <2>2, <2>6
    <3>2. fltPte' \in [Flt!Procs -> [Flt!P -> {"none", "zero", "ro", "rw"}]]
      BY <2>6 DEF Flt!TypeOK
    <3>3. Flt!TypeOK'
      BY <1>1, <1>2, <1>5, <2>6, <3>1, <3>2 DEF Flt!TypeOK
    <3>4. Flt!Sweeping("parent", "rw", "rw")'
      <4>1. fltPte'["parent"] = [i \in Flt!P |-> "rw"]
        BY <1>0, <2>6 DEF Flt!TypeOK
      <4> QED BY <4>1 DEF Flt!Sweeping
    <3>5. Flt!ParentSweeps'
      BY <1>1, <1>2, <1>5, <2>2, <2>3, <3>1, <3>4 DEF Flt!ParentSweeps
    <3>6. Flt!ChildSweeps'
      BY <1>1, <2>2, <3>1 DEF Flt!ChildSweeps
    <3>7. Flt!DataPages'
      BY <1>2, <1>5, <2>2, <2>4, <2>6, <3>1 DEF Flt!DataPages
    <3> QED BY <3>3, <3>5, <3>6, <3>7
  <2> QED BY <1>2, <2>5, <2>6 DEF Flt!Fork
<1>3. CASE Flt!ChildExits
  <2>1. fltPos["child"] = 4 /\ fltPos["parent"] = 7 /\ Flt!Forked
    <3>1. fltPos["child"] = 4
      BY <1>3, FltTable DEF Flt!ChildExits, Flt!Calls, Flt!TypeOK
    <3> QED BY <3>1 DEF Flt!ChildSweeps
  <2>2. fltPos'["parent"] = 7 /\ fltPos'["child"] = 0 /\ fltPos' \in [Flt!Procs -> 0..12]
    BY <1>0, <1>3, <2>1 DEF Flt!ChildExits
  <2>3. fltShared' \in [Flt!P -> BOOLEAN] /\ \A i \in Flt!P : ~fltShared'[i]
    BY <1>3 DEF Flt!ChildExits
  <2>4. fltPte' \in [Flt!Procs -> [Flt!P -> {"none", "zero", "ro", "rw"}]] /\
          fltPte'["parent"] = fltPte["parent"]
    <3>1. Flt!Empty \in [Flt!P -> {"none", "zero", "ro", "rw"}]
      BY DEF Flt!Empty
    <3> HIDE DEF Flt!Empty
    <3> QED BY <1>0, <1>3, <3>1 DEF Flt!ChildExits, Flt!TypeOK
  <2>10. fltData' = fltData
    BY <1>3 DEF Flt!ChildExits
  <2>5. Flt!TypeOK'
    BY <1>1, <1>3, <1>5, <2>2, <2>3, <2>4, <2>10 DEF Flt!TypeOK
  <2>6. fltSwept["parent"] = 0 /\ fltMinor["parent"] = 0 /\ Flt!Sweeping("parent", "ro", "ro")
    BY <2>1 DEF Flt!ParentSweeps
  <2>7. Flt!Sweeping("parent", "ro", "rw")'
    <3>1. \A j \in Flt!P : ~ (j <= 0)
      BY DEF Flt!P
    <3> QED BY <1>1, <1>3, <1>5, <2>4, <2>6, <3>1 DEF Flt!Sweeping
  <2>8. Flt!ParentSweeps'
    BY <1>1, <1>3, <1>5, <2>1, <2>2, <2>3, <2>6, <2>7 DEF Flt!ParentSweeps
  <2>9. Flt!ChildSweeps'
    BY <1>1, <2>1, <2>2 DEF Flt!ChildSweeps
  <2>11. Flt!DataPages'
    BY <1>1, <1>3, <1>5, <2>1, <2>2, <2>10 DEF Flt!DataPages
  <2> QED BY <2>5, <2>8, <2>9, <2>11
<1>4. CASE Flt!Wait
  <2>1. fltPos["parent"] = 7 /\ fltPos["child"] = 0
    BY <1>4, FltTable DEF Flt!Wait, Flt!Calls, Flt!TypeOK
  <2>2. fltPos'["parent"] = 8 /\ fltPos'["child"] = 0 /\ fltPos' \in [Flt!Procs -> 0..12] /\
          UNCHANGED <<fltPte, fltShared>>
    BY <1>0, <1>4, <2>1 DEF Flt!Wait, Flt!Resume, Flt!maps
  <2>8. PICK d \in {fltData["parent"], "rw"} : Flt!Mark("parent", d)
    BY <1>4 DEF Flt!Wait, Flt!Resume
  <2>9. d \in {"ro", "rw"} /\ (~Flt!Forked => d = "rw")
    BY <1>0, <1>6, <2>1 DEF Flt!DataPages
  <2>10. /\ fltSwept' \in [Flt!Procs -> 0..FltPages] /\ fltMinor' \in [Flt!Procs -> Nat] /\
              fltMajor' \in [Flt!Procs -> Nat]
         /\ fltOwn' \in [Flt!Procs -> {0, 1}] /\ fltStray' \in [Flt!Procs -> Nat] /\
              fltStrayMaj' \in [Flt!Procs -> Nat]
         /\ fltCopies' \in [Flt!Procs -> Nat] /\ fltData' \in [Flt!Procs -> {"ro", "rw"}]
         /\ fltSwept'["parent"] = 0 /\ fltMinor'["parent"] = 0 /\ fltCopies'["parent"] = 0 /\
              fltData'["parent"] = "rw"
         /\ fltOwn'["parent"] = IF d = "ro" THEN 1 ELSE 0
    BY <1>0, <2>8, <2>9, FltMark
  <2>3. Flt!TypeOK'
    BY <1>1, <2>2, <2>10 DEF Flt!TypeOK
  <2>4. /\ fltSwept["parent"] = 0 /\ fltFile = "AB"
        /\ Flt!Forked => Flt!Sweeping("parent", "ro", "rw") /\ (\A i \in Flt!P : ~fltShared[i])
        /\ ~Flt!Forked => Flt!Sweeping("parent", "rw", "rw")
    BY <2>1 DEF Flt!ParentSweeps
  <2>5. /\ Flt!Forked => Flt!Sweeping("parent", "ro", "rw")'
        /\ ~Flt!Forked => Flt!Sweeping("parent", "rw", "rw")'
    BY <1>1, <2>2, <2>4, <2>10 DEF Flt!Sweeping
  <2>6. Flt!ParentSweeps'
    BY <1>1, <2>2, <2>4, <2>5, <2>10 DEF Flt!ParentSweeps
  <2>7. Flt!ChildSweeps'
    BY <1>1, <2>1, <2>2 DEF Flt!ChildSweeps
  <2>11. Flt!DataPages'
    BY <1>1, <2>2, <2>9, <2>10 DEF Flt!DataPages
  <2> QED BY <2>3, <2>6, <2>7, <2>11
<1>7. CASE Flt!ChildMarks
  <2>1. fltPos["child"] = 1 /\ fltPos["parent"] = 7 /\ ~Flt!Forked
    <3>1. fltPos["child"] = 1
      BY <1>7, FltTable DEF Flt!ChildMarks, Flt!Calls, Flt!TypeOK
    <3> QED BY <3>1 DEF Flt!ChildSweeps
  <2>2. fltPos'["parent"] = 7 /\ fltPos'["child"] = 2 /\ fltPos' \in [Flt!Procs -> 0..12] /\
          UNCHANGED <<fltPte, fltShared>>
    BY <1>0, <1>7, <2>1 DEF Flt!ChildMarks, Flt!maps
  <2>3. fltData["child"] = "ro" /\ Flt!Mark("child", fltData["child"]) /\ fltOwn["parent"] = 0
    BY <1>7, <2>1 DEF Flt!ChildMarks, Flt!DataPages
  <2>4. /\ fltSwept' \in [Flt!Procs -> 0..FltPages] /\ fltMinor' \in [Flt!Procs -> Nat] /\
             fltMajor' \in [Flt!Procs -> Nat]
        /\ fltOwn' \in [Flt!Procs -> {0, 1}] /\ fltStray' \in [Flt!Procs -> Nat] /\
             fltStrayMaj' \in [Flt!Procs -> Nat]
        /\ fltCopies' \in [Flt!Procs -> Nat] /\ fltData' \in [Flt!Procs -> {"ro", "rw"}]
        /\ fltMinor'["child"] = 0 /\ fltMajor'["child"] = 0 /\ fltCopies'["child"] = 0
        /\ fltData'["child"] = "rw" /\ fltOwn'["child"] = 1
        /\ fltSwept'["parent"] = fltSwept["parent"] /\ fltMinor'["parent"] = fltMinor["parent"]
        /\ fltCopies'["parent"] = fltCopies["parent"] /\ fltOwn'["parent"] = fltOwn["parent"]
    BY <1>0, <1>6, <2>3, FltMark
  <2>5. Flt!TypeOK'
    BY <1>1, <2>2, <2>4 DEF Flt!TypeOK
  <2>6. Flt!Sweeping("child", "ro", "ro")' /\ Flt!Sweeping("parent", "ro", "ro")' /\
          \A i \in Flt!P : fltShared'[i]
    BY <2>1, <2>2 DEF Flt!ParentSweeps, Flt!ChildSweeps, Flt!Sweeping
  <2>7. Flt!ParentSweeps'
    BY <1>1, <2>1, <2>2, <2>4, <2>6 DEF Flt!ParentSweeps
  <2>8. Flt!ChildSweeps'
    BY <1>1, <2>1, <2>2, <2>4, <2>6 DEF Flt!ChildSweeps
  <2>9. Flt!DataPages'
    BY <2>2, <2>3, <2>4 DEF Flt!DataPages
  <2> QED BY <2>5, <2>7, <2>8, <2>9
<1>8. CASE Flt!MapMissing
  <2>1. fltPos["parent"] \in {1, 2, 3, 4, 5, 6, 10, 11} /\ UNCHANGED <<fltPte, fltShared, fltData>>
    <3>1. fltPos["parent"] \notin {7, 8, 9, 12}
      BY <1>8, FltTable DEF Flt!MapMissing
    <3> QED BY <1>8, <3>1 DEF Flt!MapMissing, Flt!TypeOK, Flt!maps
  <2>2. fltPos["child"] = 0 /\
          (fltPos["parent"] < 7 => \A q \in Flt!Procs : \A x \in fltSaid[q] : x.sweep # "reuse")
    BY <2>1 DEF Flt!ChildSweeps, Flt!TypeOK
  <2>3. fltPos'["parent"] = 12 /\ fltPos'["child"] = 0 /\ fltPos' \in [Flt!Procs -> 0..12]
    BY <1>0, <1>8, <2>2 DEF Flt!MapMissing
  <2>4. Flt!TypeOK'
    BY <1>1, <1>5, <1>8, <2>1, <2>3 DEF Flt!TypeOK
  <2>5. Flt!ParentSweeps'
    BY <2>3 DEF Flt!ParentSweeps
  <2>6. Flt!ChildSweeps'
    BY <2>3 DEF Flt!ChildSweeps
  <2>7. Flt!DataPages'
    BY <1>1, <1>5, <1>8, <2>1, <2>3 DEF Flt!DataPages
  <2> QED BY <2>4, <2>5, <2>6, <2>7
<1> QED BY <1>2, <1>3, <1>4, <1>7, <1>8

-----------------------------------------------------------------------------
\* What a step of one of the two programs leaves alone.
LEMMA FltTypesKept ==
  ASSUME Flt!FltSizes, Flt!FltInv, UNCHANGED Flt!conc
  PROVE  Flt!FaultsCounted' /\ Flt!ExtraFaults'
BY FltCount DEF Flt!FltInv, Flt!FaultsCounted, Flt!ExtraFaults, Flt!Trapped, Flt!conc

LEMMA FltProcKept ==
  ASSUME Flt!FltSizes, Flt!FltInv, UNCHANGED Flt!proc
  PROVE  Flt!ParentSweeps' /\ Flt!ChildSweeps' /\ Flt!DataPages' /\ Flt!FaultsAsAnnounced'
<1> USE DEF Flt!proc, Flt!maps, Flt!counts
<1>1. Flt!Forked' = Flt!Forked /\ Flt!ParentSweeps /\ Flt!ChildSweeps /\ Flt!DataPages /\ Flt!FaultsAsAnnounced
  BY DEF Flt!Forked, Flt!FltInv
<1>2. \A p, a, b : Flt!Sweeping(p, a, b)' <=> Flt!Sweeping(p, a, b)
  BY DEF Flt!Sweeping
<1>3. Flt!ParentSweeps'
  BY <1>1, <1>2 DEF Flt!ParentSweeps
<1>4. Flt!ChildSweeps'
  BY <1>1, <1>2 DEF Flt!ChildSweeps
<1>5. Flt!FaultsAsAnnounced'
  BY <1>1 DEF Flt!FaultsAsAnnounced, Flt!Announced, Flt!Minor, Flt!Major
<1>6. Flt!DataPages'
  BY <1>1 DEF Flt!DataPages
<1> QED BY <1>3, <1>4, <1>5, <1>6

\* A thread is added to those with a fault under way, or is no longer one.
LEMMA FltTrappedStep ==
  ASSUME Flt!FltSizes, Flt!TypeOK, NEW t \in FltThreads, NEW x, fltTh' = [fltTh EXCEPT ![t] = x]
  PROVE  /\ Cardinality(Flt!Trapped) \in Nat /\ Cardinality(Flt!Trapped') \in Nat
         /\ x \in {"trap", "frame"} /\ t \in Flt!Trapped => Flt!Trapped' = Flt!Trapped
         /\ x \notin {"trap", "frame"} /\ t \notin Flt!Trapped => Flt!Trapped' = Flt!Trapped
         /\ x \in {"trap", "frame"} /\ t \notin Flt!Trapped =>
              Cardinality(Flt!Trapped') = Cardinality(Flt!Trapped) + 1
         /\ x \notin {"trap", "frame"} /\ t \in Flt!Trapped =>
              Cardinality(Flt!Trapped') = Cardinality(Flt!Trapped) - 1
<1>1. \A u \in FltThreads : fltTh'[u] = IF u = t THEN x ELSE fltTh[u]
  BY DEF Flt!TypeOK
<1>2. /\ x \in {"trap", "frame"} => Flt!Trapped' = Flt!Trapped \cup {t}
      /\ x \notin {"trap", "frame"} => Flt!Trapped' = Flt!Trapped \ {t}
  BY <1>1, FltCount DEF Flt!Trapped
<1>3. Flt!Trapped \subseteq FltThreads /\ Flt!Trapped' \subseteq FltThreads
  BY FltCount DEF Flt!Trapped
<1>4. IsFiniteSet(Flt!Trapped) /\ IsFiniteSet(Flt!Trapped')
  BY <1>3, FS_Subset, FltCount DEF Flt!FltSizes
<1>5. Cardinality(Flt!Trapped) \in Nat /\ Cardinality(Flt!Trapped') \in Nat
  BY <1>4, FS_CardinalityType, FltCount
<1>6. ASSUME x \in {"trap", "frame"},
               t \notin Flt!Trapped PROVE Cardinality(Flt!Trapped') = Cardinality(Flt!Trapped) + 1
  BY <1>2, <1>4, <1>6, FS_AddElement, FltCount
<1>7. ASSUME x \notin {"trap", "frame"},
               t \in Flt!Trapped PROVE Cardinality(Flt!Trapped') = Cardinality(Flt!Trapped) - 1
  BY <1>2, <1>4, <1>7, FS_RemoveElement, FltCount
<1> QED BY <1>2, <1>5, <1>6, <1>7

\* The threads of concurrent_fault.
LEMMA FltThreadSteps ==
  ASSUME Flt!FltSizes, Flt!FltInv, NEW t \in FltThreads, Flt!WritePage(t) \/ Flt!EnterFault(t) \/ Flt!Install(t)
  PROVE  Flt!TypeOK' /\ Flt!FaultsCounted' /\ Flt!ExtraFaults'
<1> USE DEF Flt!FltInv
<1>1. UNCHANGED <<fltProg, fltPos, fltPte, fltShared, fltCache, fltFile, fltData, fltSwept, fltMinor, fltMajor,
        fltOwn, fltStray, fltStrayMaj, fltCopies, fltSaid, fltOther, fltPrinted>>
  BY DEF Flt!WritePage, Flt!EnterFault, Flt!Install, Flt!proc, Flt!maps, Flt!counts
<1>2. /\ fltPrinted = {} /\ fltTh[t] \notin {"none", "missing"}
      /\ \A u \in FltThreads : u # t => fltTh'[u] = fltTh[u]
      /\ fltTh'[t] \notin {"none", "missing"}
  <2>1. fltTh[t] \in {"write", "trap", "frame"}
    BY DEF Flt!WritePage, Flt!EnterFault, Flt!Install
  <2>2. fltPrinted = {}
    BY <2>1, FltCount DEF Flt!FaultsCounted
  <2>3. \E x \in {"write", "trap", "frame", "over"} : fltTh' = [fltTh EXCEPT ![t] = x] \/ fltTh' = fltTh
    BY DEF Flt!WritePage, Flt!EnterFault, Flt!Install
  <2> QED BY <2>1, <2>2, <2>3 DEF Flt!TypeOK
<1>3. IsFiniteSet(fltPresent) /\ Cardinality(fltPresent) \in Nat
  <2>1. IsFiniteSet(Flt!P)
    BY FS_Interval, FltCount DEF Flt!P, Flt!FltSizes
  <2>2. fltPresent \subseteq Flt!P
    BY DEF Flt!TypeOK
  <2> QED BY <2>1, <2>2, FS_Subset, FS_CardinalityType, FltCount
<1>4. /\ \A u \in FltThreads : /\ \A i \in Flt!P : i < fltAt[u] => i \in fltPresent
                               /\ u \in Flt!Trapped => fltAt[u] \in Flt!P
                               /\ fltTh[u] = "over" => fltAt[u] > FltPages
      /\ fltFaults = Cardinality(fltPresent) + fltLost + fltSpurious + Cardinality(Flt!Trapped)
      /\ fltLost \in Nat /\ fltFaults \in Nat /\ fltSpurious \in Nat /\ fltAt[t] \in 1..(FltPages + 1)
  BY FltCount DEF Flt!FaultsCounted, Flt!TypeOK
<1>5. Flt!ExtraFaults'
  BY <1>1, <1>2 DEF Flt!ExtraFaults
<1>6. CASE Flt!WritePage(t) /\ fltAt[t] > FltPages /\ fltTh' = [fltTh EXCEPT ![t] = "over"] /\
             UNCHANGED <<fltAt, fltFaults>>
  <2>1. fltTh[t] = "write" /\ UNCHANGED <<fltPresent, fltLost, fltSpurious>>
    BY <1>6 DEF Flt!WritePage
  <2>2. Flt!Trapped' = Flt!Trapped
    BY <1>6, <2>1, FltTrappedStep, FltCount DEF Flt!Trapped
  <2>3. \A u \in FltThreads : fltTh'[u] = IF u = t THEN "over" ELSE fltTh[u]
    BY <1>6 DEF Flt!TypeOK
  <2>4. Flt!TypeOK'
    BY <1>1, <1>6, <2>1 DEF Flt!TypeOK
  <2>5. Flt!FaultsCounted'
    BY <1>1, <1>2, <1>4, <1>6, <2>1, <2>2, <2>3, FltCount DEF Flt!FaultsCounted
  <2> QED BY <1>5, <2>4, <2>5
<1>7. CASE Flt!WritePage(t) /\ fltAt[t] \in fltPresent /\ fltAt' = [fltAt EXCEPT ![t] = fltAt[t] + 1] /\
             UNCHANGED <<fltTh, fltFaults>>
  <2>1. fltTh[t] = "write" /\ UNCHANGED <<fltPresent, fltLost, fltSpurious>>
    BY <1>7 DEF Flt!WritePage
  <2>2. Flt!Trapped' = Flt!Trapped /\ t \notin Flt!Trapped
    BY <1>7, <2>1, FltCount DEF Flt!Trapped
  <2>3. fltAt[t] \in Flt!P
    BY <1>7 DEF Flt!TypeOK
  <2>4. Flt!TypeOK'
    <3>1. fltAt[t] + 1 \in 1..(FltPages + 1)
      BY <2>3, FltCount DEF Flt!P, Flt!FltSizes
    <3> QED BY <1>1, <1>7, <2>1, <3>1 DEF Flt!TypeOK
  <2>5. \A u \in FltThreads : fltAt'[u] = IF u = t THEN fltAt[t] + 1 ELSE fltAt[u]
    BY <1>7 DEF Flt!TypeOK
  <2>6. \A i \in Flt!P : i < fltAt[t] + 1 => i \in fltPresent
    <3>1. \A i \in Flt!P : i < fltAt[t] + 1 => i < fltAt[t] \/ i = fltAt[t]
      BY <2>3 DEF Flt!P
    <3> QED BY <1>4, <1>7, <3>1
  <2>7. \A u \in FltThreads : u # t => fltAt'[u] = fltAt[u]
    BY <2>5
  <2>8. Flt!FaultsCounted'
    BY <1>1, <1>2, <1>4, <1>7, <2>1, <2>2, <2>5, <2>6, <2>7, FltCount DEF Flt!FaultsCounted
  <2> QED BY <1>5, <2>4, <2>8
<1>8. CASE Flt!WritePage(t) /\ fltAt[t] \in Flt!P \ fltPresent /\ fltTh' = [fltTh EXCEPT ![t] = "trap"] /\
             fltFaults' = fltFaults + 1 /\ fltAt' = fltAt
  <2>1. fltTh[t] = "write" /\ UNCHANGED <<fltPresent, fltLost, fltSpurious>>
    BY <1>8 DEF Flt!WritePage
  <2>2. t \notin Flt!Trapped /\ Cardinality(Flt!Trapped') = Cardinality(Flt!Trapped) + 1 /\
          Cardinality(Flt!Trapped) \in Nat
    BY <1>8, <2>1, FltTrappedStep, FltCount DEF Flt!Trapped
  <2>3. \A u \in FltThreads : fltTh'[u] = IF u = t THEN "trap" ELSE fltTh[u]
    BY <1>8 DEF Flt!TypeOK
  <2>4. Flt!TypeOK'
    BY <1>1, <1>8, <2>1 DEF Flt!TypeOK
  <2>5. fltFaults' = Cardinality(fltPresent') + fltLost' + fltSpurious' + Cardinality(Flt!Trapped')
    BY <1>3, <1>4, <1>8, <2>1, <2>2
  <2>6. \A u \in FltThreads : u \in Flt!Trapped' => u = t \/ u \in Flt!Trapped
    BY <2>3, FltCount DEF Flt!Trapped
  <2>7. Flt!FaultsCounted'
    BY <1>1, <1>2, <1>4, <1>8, <2>1, <2>3, <2>5, <2>6, FltCount DEF Flt!FaultsCounted
  <2> QED BY <1>5, <2>4, <2>7
<1>9. CASE Flt!EnterFault(t)
  <2>1. fltTh[t] = "trap" /\ t \in Flt!Trapped /\ UNCHANGED <<fltAt, fltPresent, fltLost, fltFaults>>
    BY <1>9, FltCount DEF Flt!EnterFault, Flt!Trapped
  <2>2. CASE fltTh' = [fltTh EXCEPT ![t] = "write"] /\ fltSpurious' = fltSpurious + 1
    <3>1. Cardinality(Flt!Trapped') = Cardinality(Flt!Trapped) - 1 /\ Cardinality(Flt!Trapped) \in Nat
      <4>1. "write" \notin {"trap", "frame"}
        OBVIOUS
      <4> QED BY <2>1, <2>2, <4>1, FltTrappedStep, Zenon
    <3>2. \A u \in FltThreads : fltTh'[u] = IF u = t THEN "write" ELSE fltTh[u]
      BY <2>2 DEF Flt!TypeOK
    <3>3. Flt!TypeOK'
      BY <1>1, <2>1, <2>2 DEF Flt!TypeOK
    <3>4. fltFaults' = Cardinality(fltPresent') + fltLost' + fltSpurious' + Cardinality(Flt!Trapped')
      BY <1>3, <1>4, <2>1, <2>2, <3>1
    <3>5. \A u \in FltThreads : u \in Flt!Trapped' => u \in Flt!Trapped
      BY <3>2, FltCount DEF Flt!Trapped
    <3>6. Flt!FaultsCounted'
      BY <1>1, <1>2, <1>4, <2>1, <3>2, <3>4, <3>5, FltCount DEF Flt!FaultsCounted
    <3> QED BY <1>5, <3>3, <3>6
  <2>3. CASE fltTh' = [fltTh EXCEPT ![t] = "frame"] /\ fltSpurious' = fltSpurious
    <3>1. Flt!Trapped' = Flt!Trapped
      BY <2>1, <2>3, FltTrappedStep
    <3>2. \A u \in FltThreads : fltTh'[u] = IF u = t THEN "frame" ELSE fltTh[u]
      BY <2>3 DEF Flt!TypeOK
    <3>3. Flt!TypeOK'
      BY <1>1, <2>1, <2>3 DEF Flt!TypeOK
    <3>4. Flt!FaultsCounted'
      BY <1>1, <1>2, <1>4, <2>1, <2>3, <3>1, <3>2, FltCount DEF Flt!FaultsCounted
    <3> QED BY <1>5, <3>3, <3>4
  <2> QED BY <1>9, <2>2, <2>3 DEF Flt!EnterFault
<1>10. CASE Flt!Install(t)
  <2>1. fltTh[t] = "frame" /\ t \in Flt!Trapped /\ UNCHANGED <<fltAt, fltFaults, fltSpurious>> /\
          fltTh' = [fltTh EXCEPT ![t] = "write"]
    BY <1>10, FltCount DEF Flt!Install, Flt!Trapped
  <2>2. Cardinality(Flt!Trapped') = Cardinality(Flt!Trapped) - 1 /\ Cardinality(Flt!Trapped) \in Nat
    <3>1. "write" \notin {"trap", "frame"}
      OBVIOUS
    <3> QED BY <2>1, <3>1, FltTrappedStep, Zenon
  <2>3. \A u \in FltThreads : fltTh'[u] = IF u = t THEN "write" ELSE fltTh[u]
    BY <2>1 DEF Flt!TypeOK
  <2>4. \A u \in FltThreads : u \in Flt!Trapped' => u \in Flt!Trapped
    BY <2>3, FltCount DEF Flt!Trapped
  <2>5. fltAt[t] \in Flt!P
    BY <1>4, <2>1
  <2>6. CASE fltAt[t] \in fltPresent /\ fltLost' = fltLost + 1 /\ fltPresent' = fltPresent
    <3>1. Flt!TypeOK'
      BY <1>1, <2>1, <2>6 DEF Flt!TypeOK
    <3>2. fltFaults' = Cardinality(fltPresent') + fltLost' + fltSpurious' + Cardinality(Flt!Trapped')
      BY <1>3, <1>4, <2>1, <2>2, <2>6
    <3>3. Flt!FaultsCounted'
      BY <1>1, <1>2, <1>4, <2>1, <2>3, <2>4, <2>6, <3>2, FltCount DEF Flt!FaultsCounted
    <3> QED BY <1>5, <3>1, <3>3
  <2>7. CASE fltAt[t] \notin fltPresent /\ fltPresent' = fltPresent \cup {fltAt[t]} /\ fltLost' = fltLost
    <3>1. Flt!TypeOK'
      BY <1>1, <2>1, <2>5, <2>7 DEF Flt!TypeOK
    <3>2. Cardinality(fltPresent') = Cardinality(fltPresent) + 1
      BY <1>3, <2>7, FS_AddElement, FltCount
    <3>3. fltFaults' = Cardinality(fltPresent') + fltLost' + fltSpurious' + Cardinality(Flt!Trapped')
      BY <1>3, <1>4, <2>1, <2>2, <2>7, <3>2
    <3>4. \A i \in Flt!P : i \in fltPresent => i \in fltPresent'
      BY <2>7
    <3>5. Flt!FaultsCounted'
      BY <1>1, <1>2, <1>4, <2>1, <2>3, <2>4, <2>7, <3>3, <3>4, FltCount DEF Flt!FaultsCounted
    <3> QED BY <1>5, <3>1, <3>5
  <2> QED BY <1>10, <2>6, <2>7 DEF Flt!Install
<1> QED BY <1>6, <1>7, <1>8, <1>9, <1>10 DEF Flt!WritePage

\* Its main() and the rest of the process.
LEMMA FltMainSteps ==
  ASSUME Flt!FltSizes, Flt!FltInv, Flt!Launch \/ Flt!BarrierOpens \/ Flt!OtherFault \/ Flt!PrintExtra
  PROVE  Flt!TypeOK' /\ Flt!FaultsCounted' /\ Flt!ExtraFaults'
<1> USE DEF Flt!FltInv
<1>0. PICK t0 \in FltThreads : TRUE
  BY FltCount DEF Flt!FltSizes
<1>1. UNCHANGED <<fltProg, fltPos, fltPte, fltShared, fltCache, fltFile, fltData, fltSwept, fltMinor, fltMajor,
        fltOwn, fltStray, fltStrayMaj, fltCopies, fltSaid>>
  BY DEF Flt!Launch, Flt!BarrierOpens, Flt!OtherFault, Flt!PrintExtra, Flt!proc, Flt!maps, Flt!counts
<1>2. CASE Flt!Launch \/ Flt!BarrierOpens
  <2>1. /\ \/ \A t \in FltThreads : fltTh[t] = "none" /\ fltTh'[t] \in {"waits", "missing"}
           \/ \A t \in FltThreads : fltTh[t] = "waits" /\ fltTh'[t] \in {"write", "killed"}
        /\ UNCHANGED <<fltAt, fltPresent, fltLost, fltFaults, fltSpurious, fltOther, fltPrinted>>
    BY <1>2 DEF Flt!Launch, Flt!BarrierOpens
  <2>2. fltPrinted = {}
    BY <1>0, <2>1, FltCount DEF Flt!FaultsCounted
  <2>3. Flt!Trapped' = Flt!Trapped /\ Flt!Trapped = {}
    BY <2>1, FltCount DEF Flt!Trapped
  <2>4. Flt!TypeOK'
    <3>1. fltTh' \in [FltThreads -> {"none", "missing", "waits", "killed", "write", "trap", "frame", "over"}]
      BY <1>2 DEF Flt!Launch, Flt!BarrierOpens
    <3> QED BY <1>1, <2>1, <3>1 DEF Flt!TypeOK
  <2>5. (\A t \in FltThreads : fltTh'[t] \in {"none", "missing"}) => fltFaults' = 0
    BY <1>0, <2>1, FltCount DEF Flt!FaultsCounted
  <2>6. \A t \in FltThreads : fltTh'[t] # "over"
    BY <2>1
  <2>7. Flt!FaultsCounted'
    BY <2>1, <2>2, <2>3, <2>5, <2>6, FltCount DEF Flt!FaultsCounted
  <2>8. Flt!ExtraFaults'
    BY <2>1, <2>2 DEF Flt!ExtraFaults
  <2> QED BY <2>4, <2>7, <2>8
<1>3. CASE Flt!OtherFault
  <2>1. fltPrinted = {} /\ fltOther' = fltOther + 1 /\
          UNCHANGED <<fltTh, fltAt, fltPresent, fltLost, fltFaults, fltSpurious, fltPrinted>>
    BY <1>3 DEF Flt!OtherFault
  <2>2. Flt!TypeOK'
    BY <1>1, <2>1 DEF Flt!TypeOK
  <2>3. Flt!FaultsCounted' /\ Flt!ExtraFaults'
    BY <2>1, FltCount DEF Flt!FaultsCounted, Flt!ExtraFaults, Flt!Trapped
  <2> QED BY <2>2, <2>3
<1>4. CASE Flt!PrintExtra
  <2>1. /\ \E s \in {"over", "missing"} : \A t \in FltThreads : fltTh[t] = s
        /\ fltPrinted' = {(fltFaults + fltOther) - FltPages}
        /\ UNCHANGED <<fltTh, fltAt, fltPresent, fltLost, fltFaults, fltSpurious, fltOther>>
    BY <1>4 DEF Flt!PrintExtra
  <2>2. Flt!TypeOK'
    <3>1. fltPrinted' \subseteq Int
      BY <2>1, FltCount DEF Flt!TypeOK, Flt!FltSizes
    <3> QED BY <1>1, <2>1, <3>1 DEF Flt!TypeOK
  <2>3. Flt!FaultsCounted'
    <3>1. Flt!Trapped' = Flt!Trapped
      BY <2>1, FltCount DEF Flt!Trapped
    <3> QED BY <2>1, <3>1, FltCount DEF Flt!FaultsCounted
  <2>4. CASE \A t \in FltThreads : fltTh[t] = "missing"
    <3>1. fltFaults = 0
      BY <2>4, FltCount DEF Flt!FaultsCounted
    <3>2. \A x \in fltPrinted' : x = fltOther - FltPages
      BY <2>1, <3>1, FltCount DEF Flt!TypeOK, Flt!FltSizes
    <3>3. Flt!ExtraFaults'
      BY <2>1, <2>4, <3>2 DEF Flt!ExtraFaults
    <3> QED BY <2>2, <2>3, <3>3
  <2>5. CASE \A t \in FltThreads : fltTh[t] = "over"
    <3>1. fltPresent = Flt!P
      <4>1. fltAt[t0] > FltPages /\ fltAt[t0] \in 1..(FltPages + 1)
        BY <2>5, FltCount DEF Flt!FaultsCounted, Flt!TypeOK
      <4>2. \A i \in Flt!P : i < fltAt[t0]
        BY <4>1, FltCount DEF Flt!P, Flt!FltSizes
      <4>3. \A i \in Flt!P : i \in fltPresent
        BY <4>2, FltCount DEF Flt!FaultsCounted
      <4> QED BY <4>3 DEF Flt!TypeOK
    <3>2. Cardinality(fltPresent) = FltPages
      BY <3>1, FS_Interval, FltCount DEF Flt!P, Flt!FltSizes
    <3>3. Cardinality(Flt!Trapped) = 0
      <4>1. Flt!Trapped = {}
        BY <2>5, FltCount DEF Flt!Trapped
      <4> QED BY <4>1, FS_EmptySet, FltCount
    <3>4. \A x \in fltPrinted' : x = fltLost + fltSpurious + fltOther /\ fltLost <= x
      <4>1. fltFaults = FltPages + fltLost + fltSpurious
        BY <3>2, <3>3, FltCount DEF Flt!FaultsCounted, Flt!TypeOK, Flt!FltSizes
      <4> QED BY <2>1, <4>1, FltCount DEF Flt!TypeOK, Flt!FltSizes
    <3>5. Flt!ExtraFaults'
      <4>1. ~ \A t \in FltThreads : fltTh'[t] = "missing"
        BY <1>0, <2>1, <2>5
      <4>2. fltPresent' = Flt!P' /\ fltLost' = fltLost /\ fltSpurious' = fltSpurious /\ fltOther' = fltOther
        BY <2>1, <3>1 DEF Flt!P
      <4> QED BY <3>4, <4>1, <4>2 DEF Flt!ExtraFaults
    <3> QED BY <2>2, <2>3, <3>5
  <2> QED BY <2>1, <2>4, <2>5
<1> QED BY <1>2, <1>3, <1>4

-----------------------------------------------------------------------------
LEMMA FltSteps == Flt!FltSizes /\ Flt!FltInv /\ [Flt!Next]_(Flt!vars) => Flt!FltInv'
<1> SUFFICES ASSUME Flt!FltSizes, Flt!FltInv, [Flt!Next]_(Flt!vars) PROVE Flt!FltInv'
  OBVIOUS
<1> USE DEF Flt!FltInv
<1>1. CASE Flt!Start
  <2>1. UNCHANGED Flt!proc /\ UNCHANGED Flt!conc /\ fltProg' \in {"fault_types", "concurrent_fault"}
    BY <1>1 DEF Flt!Start
  <2>2. Flt!TypeOK'
    BY <2>1 DEF Flt!TypeOK, Flt!proc, Flt!maps, Flt!counts, Flt!conc
  <2> QED BY <2>1, <2>2, FltTypesKept, FltProcKept
<1>2. CASE Flt!FaultTypes
  <2>1. ASSUME NEW p \in Flt!Procs, Flt!Touch(p) PROVE Flt!FltInv'
    <3>1. UNCHANGED Flt!conc /\ UNCHANGED fltSaid /\ Flt!TypeOK'
      BY <2>1, FltTouchTypes DEF Flt!Touch
    <3>2. Flt!ParentSweeps' /\ Flt!ChildSweeps'
      BY <2>1, FltParentTouches, FltChildTouches DEF Flt!Procs
    <3>3. Flt!FaultsAsAnnounced'
      BY <3>1 DEF Flt!FaultsAsAnnounced, Flt!Announced, Flt!Minor, Flt!Major, Flt!Forked
    <3>4. Flt!DataPages'
      BY <2>1, <3>1 DEF Flt!Touch, Flt!DataPages, Flt!Forked
    <3> QED BY <3>1, <3>2, <3>3, <3>4, FltTypesKept
  <2>4. ASSUME NEW p \in Flt!Procs, Flt!StrayFault(p) PROVE Flt!FltInv'
    <3>1. /\ UNCHANGED <<fltProg, fltPos, fltPte, fltShared, fltCache, fltFile, fltData, fltSwept, fltMinor,
               fltMajor, fltOwn, fltCopies, fltSaid>>
          /\ UNCHANGED Flt!conc
      BY <2>4 DEF Flt!StrayFault, Flt!maps
    <3>2. fltStray' \in [Flt!Procs -> Nat] /\ fltStrayMaj' \in [Flt!Procs -> Nat]
      <4>1. fltStray \in [Flt!Procs -> Nat] /\ fltStrayMaj \in [Flt!Procs -> Nat]
        BY DEF Flt!TypeOK
      <4>2. CASE fltStray' = [fltStray EXCEPT ![p] = fltStray[p] + 1] /\ fltStrayMaj' = fltStrayMaj
        BY <4>1, <4>2
      <4>3. CASE fltStrayMaj' = [fltStrayMaj EXCEPT ![p] = fltStrayMaj[p] + 1] /\ fltStray' = fltStray
        BY <4>1, <4>3
      <4> QED BY <2>4, <4>2, <4>3 DEF Flt!StrayFault
    <3>3. Flt!TypeOK'
      BY <3>1, <3>2 DEF Flt!TypeOK, Flt!conc
    <3>4. Flt!Forked' = Flt!Forked /\ \A q, a, b : Flt!Sweeping(q, a, b)' <=> Flt!Sweeping(q, a, b)
      BY <3>1 DEF Flt!Forked, Flt!Sweeping
    <3>5. Flt!ParentSweeps'
      BY <3>1, <3>4 DEF Flt!ParentSweeps
    <3>6. Flt!ChildSweeps'
      BY <3>1, <3>4 DEF Flt!ChildSweeps
    <3>7. Flt!DataPages'
      BY <3>1, <3>4 DEF Flt!DataPages
    <3>8. Flt!FaultsAsAnnounced'
      BY <3>1, <3>4 DEF Flt!FaultsAsAnnounced, Flt!Announced, Flt!Minor, Flt!Major
    <3> QED BY <3>1, <3>3, <3>5, <3>6, <3>7, <3>8, FltTypesKept
  <2>2. ASSUME NEW p \in Flt!Procs, Flt!Report(p) PROVE Flt!FltInv'
    <3>1. UNCHANGED Flt!conc
      BY <2>2 DEF Flt!Report
    <3> QED BY <2>2, <3>1, FltParentReports, FltChildReports, FltTypesKept DEF Flt!Procs
  <2>3. CASE Flt!Fork \/ Flt!ChildMarks \/ Flt!ChildExits \/ Flt!Wait \/ Flt!MapMissing
    <3>1. UNCHANGED Flt!conc /\ UNCHANGED fltSaid
      BY <2>3 DEF Flt!Fork, Flt!ChildMarks, Flt!ChildExits, Flt!Wait, Flt!Resume, Flt!MapMissing
    <3>2. Flt!FaultsAsAnnounced'
      BY <3>1 DEF Flt!FaultsAsAnnounced, Flt!Announced, Flt!Minor, Flt!Major, Flt!Forked
    <3> QED BY <2>3, <3>1, <3>2, FltForkSteps, FltTypesKept
  <2> QED BY <1>2, <2>1, <2>2, <2>3, <2>4 DEF Flt!FaultTypes
<1>3. CASE Flt!Launch \/ Flt!BarrierOpens \/ Flt!OtherFault \/ Flt!PrintExtra
  <2>1. UNCHANGED Flt!proc
    BY <1>3 DEF Flt!Launch, Flt!BarrierOpens, Flt!OtherFault, Flt!PrintExtra
  <2> QED BY <1>3, <2>1, FltMainSteps, FltProcKept
<1>4. ASSUME NEW t \in FltThreads, Flt!Thread(t) PROVE Flt!FltInv'
  <2>1. UNCHANGED Flt!proc
    BY <1>4 DEF Flt!Thread, Flt!WritePage, Flt!EnterFault, Flt!Install
  <2> QED BY <1>4, <2>1, FltThreadSteps, FltProcKept DEF Flt!Thread
<1>5. CASE UNCHANGED Flt!vars
  <2>1. UNCHANGED fltProg /\ UNCHANGED Flt!proc /\ UNCHANGED Flt!conc
    BY <1>5 DEF Flt!vars
  <2>2. Flt!TypeOK'
    BY <2>1 DEF Flt!TypeOK, Flt!proc, Flt!maps, Flt!counts, Flt!conc
  <2> QED BY <2>1, <2>2, FltTypesKept, FltProcKept
<1> QED BY <1>1, <1>2, <1>3, <1>4, <1>5 DEF Flt!Next

LEMMA FltStart == Flt!FltSizes /\ Flt!Init => Flt!FltInv
<1> SUFFICES ASSUME Flt!FltSizes, Flt!Init PROVE Flt!FltInv
  OBVIOUS
<1>0. "parent" \in Flt!Procs /\ "child" \in Flt!Procs /\ "parent" # "child"
  BY DEF Flt!Procs
<1>1. /\ fltPos["parent"] = 1 /\ fltPos["child"] = 0 /\ fltPos \in [Flt!Procs -> 0..12]
      /\ fltPte \in [Flt!Procs -> [Flt!P -> {"none", "zero", "ro", "rw"}]] /\
           Flt!Sweeping("parent", "none", "none")
  <2>1. fltPos["parent"] = 1 /\ fltPos["child"] = 0 /\ fltPos \in [Flt!Procs -> 0..12]
    BY DEF Flt!Init, Flt!Procs
  <2>2. Flt!Empty \in [Flt!P -> {"none", "zero", "ro", "rw"}] /\ \A i \in Flt!P : Flt!Empty[i] = "none"
    BY DEF Flt!Empty
  <2>3. fltPte = [p \in Flt!Procs |-> Flt!Empty]
    BY DEF Flt!Init
  <2>4. fltPte \in [Flt!Procs -> [Flt!P -> {"none", "zero", "ro", "rw"}]] /\ fltPte["parent"] = Flt!Empty
    BY <1>0, <2>2, <2>3
  <2> QED BY <2>1, <2>2, <2>4 DEF Flt!Sweeping
<1>2. /\ \A p \in Flt!Procs : fltSwept[p] = 0 /\ fltMinor[p] = 0 /\ fltMajor[p] = 0 /\ fltOwn[p] = 0 /\
           fltCopies[p] = 0
      /\ \A p \in Flt!Procs : fltData[p] = "rw" /\ fltSaid[p] = {}
  BY DEF Flt!Init, Flt!Nil
<1>3. /\ fltSwept \in [Flt!Procs -> 0..FltPages] /\ fltMinor \in [Flt!Procs -> Nat] /\
           fltMajor \in [Flt!Procs -> Nat]
      /\ fltOwn \in [Flt!Procs -> {0, 1}] /\ fltStray \in [Flt!Procs -> Nat] /\
           fltStrayMaj \in [Flt!Procs -> Nat]
      /\ fltCopies \in [Flt!Procs -> Nat] /\ fltData \in [Flt!Procs -> {"ro", "rw"}] /\
           DOMAIN fltSaid = Flt!Procs
  <2>1. Flt!Nil \in [Flt!Procs -> 0..FltPages] /\ Flt!Nil \in [Flt!Procs -> Nat] /\
          Flt!Nil \in [Flt!Procs -> {0, 1}]
    BY FltCount DEF Flt!Nil, Flt!FltSizes
  <2> QED BY <2>1 DEF Flt!Init
<1>4. /\ fltProg = "none" /\ fltCache = {} /\ fltFile = "AB" /\ fltPresent = {}
      /\ fltLost = 0 /\ fltFaults = 0 /\ fltSpurious = 0 /\ fltOther = 0 /\ fltPrinted = {}
  BY DEF Flt!Init
<1>5. fltShared \in [Flt!P -> BOOLEAN] /\
        fltTh \in [FltThreads -> {"none", "missing", "waits", "killed", "write", "trap", "frame", "over"}]
  BY DEF Flt!Init
<1>6. fltAt \in [FltThreads -> 1..(FltPages + 1)]
  <2>1. 1 \in 1..(FltPages + 1)
    BY FltCount DEF Flt!FltSizes
  <2> QED BY <2>1 DEF Flt!Init
<1>7. Flt!TypeOK
  BY <1>1, <1>3, <1>4, <1>5, <1>6 DEF Flt!TypeOK
<1>8. Flt!ParentSweeps
  BY <1>0, <1>1, <1>2, <1>4 DEF Flt!ParentSweeps
<1>9. Flt!ChildSweeps
  BY <1>0, <1>1, <1>2, <1>4 DEF Flt!ChildSweeps, Flt!Forked
<1>10. Flt!FaultsCounted
  <2>1. \A t \in FltThreads : fltTh[t] = "none" /\ fltAt[t] = 1
    BY DEF Flt!Init
  <2>2. Flt!Trapped = {}
    BY <2>1, FltCount DEF Flt!Trapped
  <2>3. Cardinality({}) = 0
    BY FS_EmptySet, FltCount
  <2>4. \A i \in Flt!P : ~ (i < 1)
    BY DEF Flt!P
  <2> QED BY <1>4, <2>1, <2>2, <2>3, <2>4, FltCount DEF Flt!FaultsCounted
<1>11. Flt!FaultsAsAnnounced /\ Flt!ExtraFaults
  BY <1>2, <1>4 DEF Flt!FaultsAsAnnounced, Flt!ExtraFaults
<1>12. Flt!DataPages
  BY <1>0, <1>1, <1>2 DEF Flt!DataPages
<1> QED BY <1>7, <1>8, <1>9, <1>10, <1>11, <1>12 DEF Flt!FltInv

-----------------------------------------------------------------------------
\* The invariants of the programs that count children, threads and faults.
LEMMA LabsInvariant == Spec => [](Fork!ForkInv /\ Thr!ThrInv /\ Flt!FltInv)
<1> USE ForkAssumption, ThrAssumption, FltAssumption
<1>1. Init => Fork!Init /\ Thr!Init /\ Flt!Init
  BY DEF Init
<1>2. Init => Fork!ForkInv /\ Thr!ThrInv /\ Flt!FltInv
  BY <1>1, ForkStart, ThrStart, FltStart
<1>3. Fork!ForkInv /\ Thr!ThrInv /\ Flt!FltInv /\ [Next]_vars => (Fork!ForkInv /\ Thr!ThrInv /\ Flt!FltInv)'
  BY PartSteps, ForkSteps, ThrSteps, FltSteps
<1> QED BY <1>2, <1>3, PTL DEF Spec

\* main() and the threads of lse_bench.c, heat.c and membw.c, the sweeps of
\* fault_types.c and the threads of concurrent_fault.c, fork(), kill() and
\* waitpid() of the four scheduler programs: the numbers printed are those of the
\* work done.  For any number of children, rounds and pages, and for any number
\* of threads that the program's arrays hold (ThreadLabs!Room: 16 in membw, 64
\* in lse and heat); concurrent_fault prints nothing when only some of its
\* threads could be created, and a surplus of no meaning when none could.
THEOREM LabCountsAlways == Spec => []LabCountsExact
<1>1. Thr!ThrInv => Thr!CountsExact /\ Thr!PhasesTogether
  BY ThrTogether, ThrAssumption DEF Thr!ThrInv
<1>2. Flt!FltInv => Flt!FaultsAsAnnounced /\ Flt!ExtraFaults
  BY DEF Flt!FltInv
<1>3. Fork!ForkInv => Fork!ForkLabsClean
  BY DEF Fork!ForkInv
<1>4. Fork!ForkInv /\ Thr!ThrInv /\ Flt!FltInv => LabCountsExact
  BY <1>1, <1>2, <1>3 DEF LabCountsExact
<1> QED BY <1>4, LabsInvariant, PTL

-----------------------------------------------------------------------------
(* wbtest.c.                                                               *)

\* What two lists hold together.
LEMMA ConcatRange ==
  ASSUME NEW S, NEW s \in Seq(S), NEW t \in Seq(S)
  PROVE  /\ s \o t \in Seq(S) /\ Len(s \o t) = Len(s) + Len(t)
         /\ Len(s) \in Nat /\ Len(t) \in Nat
         /\ Range(s \o t) = Range(s) \cup Range(t)
<1>1. s \o t \in Seq(S) /\ Len(s \o t) = Len(s) + Len(t)
  OBVIOUS
<1>2. \A i \in 1..Len(s) : (s \o t)[i] = s[i]
  OBVIOUS
<1>3. \A i \in 1..Len(t) : (s \o t)[Len(s) + i] = t[i]
  OBVIOUS
<1>4. Range(s \o t) \subseteq Range(s) \cup Range(t)
  <2> SUFFICES ASSUME NEW i \in 1..Len(s \o t) PROVE (s \o t)[i] \in Range(s) \cup Range(t)
    BY <1>1 DEF Range
  <2>1. CASE i <= Len(s)
    BY <2>1, <1>2 DEF Range
  <2>2. CASE i > Len(s)
    <3>1. i - Len(s) \in 1..Len(t) /\ Len(s) + (i - Len(s)) = i
      BY <2>2, <1>1
    <3> QED BY <3>1, <1>3 DEF Range
  <2> QED BY <2>1, <2>2
<1>5. Range(s) \subseteq Range(s \o t)
  BY <1>1, <1>2 DEF Range
<1>6. Range(t) \subseteq Range(s \o t)
  <2>1. \A i \in 1..Len(t) : Len(s) + i \in 1..Len(s \o t)
    BY <1>1
  <2>2. ASSUME NEW i \in 1..Len(t) PROVE t[i] \in Range(s \o t)
    <3>1. Len(s) + i \in DOMAIN (s \o t) /\ (s \o t)[Len(s) + i] = t[i]
      BY <1>1, <1>3, <2>1
    <3> HIDE DEF Range
    <3> QED BY <3>1, Zenon DEF Range
  <2>3. \A x \in Range(t) : \E i \in 1..Len(t) : x = t[i]
    BY DEF Range
  <2> QED BY <2>2, <2>3
<1> QED BY <1>1, <1>4, <1>5, <1>6

\* A list of one or two.
LEMMA OneCall ==
  ASSUME NEW S, NEW x \in S
  PROVE  <<x>> \in Seq(S) /\ Len(<<x>>) = 1 /\ Range(<<x>>) = {x}
<1>1. <<x>> \in Seq(S) /\ Len(<<x>>) = 1 /\ DOMAIN <<x>> = {1} /\ <<x>>[1] = x
  OBVIOUS
<1> QED BY <1>1 DEF Range

LEMMA TwoCalls ==
  ASSUME NEW S, NEW x \in S, NEW y \in S
  PROVE  <<x, y>> \in Seq(S) /\ Len(<<x, y>>) = 2 /\ Range(<<x, y>>) = {x, y}
<1> DEFINE two == <<x, y>>
<1>1. two \in Seq(S) /\ Len(two) = 2 /\ DOMAIN two = {1, 2} /\ two[1] = x /\ two[2] = y
  OBVIOUS
<1> HIDE DEF two
<1>2. Range(two) = {x, y}
  BY <1>1 DEF Range
<1> QED BY <1>1, <1>2 DEF two

LEMMA ThreeCalls ==
  ASSUME NEW S, NEW x \in S, NEW y \in S, NEW z \in S
  PROVE  <<x, y, z>> \in Seq(S) /\ Len(<<x, y, z>>) = 3 /\ Range(<<x, y, z>>) = {x, y, z}
<1> DEFINE three == <<x, y, z>>
<1>1. /\ three \in Seq(S) /\ Len(three) = 3 /\ DOMAIN three = {1, 2, 3}
      /\ three[1] = x /\ three[2] = y /\ three[3] = z
  OBVIOUS
<1> HIDE DEF three
<1>2. Range(three) = {x, y, z}
  BY <1>1 DEF Range
<1> QED BY <1>1, <1>2 DEF three

LEMMA WbCallOf ==
  ASSUME NEW o \in Wb!Objects, NEW q \in Wb!Properties, NEW v \in {0, 1}
  PROVE  <<o, q, v>> \in Wb!Calls
BY DEF Wb!Calls

\* u is s followed by t.
Joins(u, s, t) == u = s \o t

LEMMA WbJoined ==
  ASSUME NEW s \in Seq(Wb!Calls), NEW t \in Seq(Wb!Calls), NEW u, Joins(u, s, t)
  PROVE  /\ u \in Seq(Wb!Calls) /\ Len(u) = Len(s) + Len(t) /\ Range(u) = Range(s) \cup Range(t)
         /\ Len(s) \in Nat /\ Len(t) \in Nat
<1>1. s \o t \in Seq(Wb!Calls) /\ Len(s \o t) = Len(s) + Len(t)
  BY ConcatRange
<1>2. Range(s \o t) = Range(s) \cup Range(t)
  BY ConcatRange
<1>3. Len(s) \in Nat /\ Len(t) \in Nat
  BY LenProperties
<1> QED BY <1>1, <1>2, <1>3 DEF Joins

\* plane_set() that takes a plane off: two calls, both with 0.
LEMMA WbPlaneOff ==
  ASSUME NEW p \in Wb!Objects
  PROVE  /\ Wb!plane_set(p, 0) \in Seq(Wb!Calls) /\ Len(Wb!plane_set(p, 0)) = 2
         /\ Range(Wb!plane_set(p, 0)) = {<<p, "FB_ID", 0>>, <<p, "CRTC_ID", 0>>}
<1> DEFINE two == << <<p, "FB_ID", 0>>, <<p, "CRTC_ID", 0>> >>
<1>1. two \in Seq(Wb!Calls) /\ Len(two) = 2 /\ Range(two) = {<<p, "FB_ID", 0>>, <<p, "CRTC_ID", 0>>}
  <2>1. <<p, "FB_ID", 0>> \in Wb!Calls /\ <<p, "CRTC_ID", 0>> \in Wb!Calls
    BY WbCallOf DEF Wb!Properties
  <2> QED BY <2>1, TwoCalls
<1>2. Wb!plane_set(p, 0) = two
  <2>1. Wb!plane_set(p, 0) = two \o <<>>
    BY DEF Wb!plane_set
  <2> HIDE DEF two
  <2> QED BY <2>1, <1>1
<1> QED BY <1>1, <1>2

\* plane_set() that puts it on: two calls and its geometry.
LEMMA WbPlaneOn ==
  ASSUME NEW p \in Wb!Objects
  PROVE  /\ Wb!plane_set(p, 1) \in Seq(Wb!Calls) /\ Len(Wb!plane_set(p, 1)) <= 10
         /\ \A e \in Range(Wb!plane_set(p, 1)) : e[1] = p
<1> DEFINE two == << <<p, "FB_ID", 1>>, <<p, "CRTC_ID", 1>> >>
           place == [i \in DOMAIN Wb!Geometry |-> <<p, Wb!Geometry[i], 1>>]
<1>1. two \in Seq(Wb!Calls) /\ Len(two) = 2 /\ Range(two) = {<<p, "FB_ID", 1>>, <<p, "CRTC_ID", 1>>}
  <2>1. <<p, "FB_ID", 1>> \in Wb!Calls /\ <<p, "CRTC_ID", 1>> \in Wb!Calls
    BY WbCallOf DEF Wb!Properties
  <2> QED BY <2>1, TwoCalls
<1>2. Wb!Geometry \in Seq(Wb!Properties) /\ Len(Wb!Geometry) = 8 /\ DOMAIN Wb!Geometry = 1..8
  BY DEF Wb!Geometry, Wb!Properties
<1>3. place \in Seq(Wb!Calls) /\ Len(place) = 8
  <2>1. ASSUME NEW i \in 1..8 PROVE <<p, Wb!Geometry[i], 1>> \in Wb!Calls
    <3>1. Wb!Geometry[i] \in Wb!Properties
      BY <1>2, ElementOfSeq
    <3> QED BY <3>1, WbCallOf
  <2>2. place \in [1..8 -> Wb!Calls]
    BY <1>2, <2>1
  <2> HIDE DEF place
  <2>3. place \in Seq(Wb!Calls) /\ DOMAIN place = 1..8
    BY <2>2, SeqDef
  <2>4. Len(place) \in Nat /\ 1..Len(place) = 1..8
    BY <2>3, LenProperties
  <2> QED BY <2>3, <2>4
<1>4. \A e \in Range(place) : e[1] = p
  <2>1. ASSUME NEW i \in 1..8 PROVE place[i][1] = p
    BY <1>2
  <2>2. DOMAIN place = 1..8
    BY <1>2
  <2> HIDE DEF place
  <2> QED BY <2>1, <2>2 DEF Range
<1>5. \A e \in Range(two) : e[1] = p
  BY <1>1
<1> DEFINE all == two \o place
<1>6. Wb!plane_set(p, 1) = all
  BY DEF Wb!plane_set
<1>6a. Joins(all, two, place)
  BY DEF Joins
<1> HIDE DEF two, place, all
<1>7. two \in Seq(Wb!Calls) /\ place \in Seq(Wb!Calls)
  BY <1>1, <1>3
<1>8. all \in Seq(Wb!Calls) /\ Len(all) = Len(two) + Len(place)
  BY <1>6a, <1>7, WbJoined
<1>8a. Range(all) = Range(two) \cup Range(place)
  BY <1>6a, <1>7, WbJoined
<1>9. Len(all) <= 10
  BY <1>1, <1>3, <1>8
<1>10. \A e \in Range(all) : e[1] = p
  BY <1>4, <1>5, <1>8a
<1> QED BY <1>6, <1>8, <1>9, <1>10, Zenon

\* The calls that switch a scenario off: every switch it put on, and only zeros.
LEMMA WbOffCalls ==
  ASSUME NEW s, s.overlay \in BOOLEAN
  PROVE  /\ Wb!OffList(s) \in Seq(Wb!Calls) /\ Len(Wb!OffList(s)) <= 7
         /\ \A e \in Range(Wb!OffList(s)) : e[3] = 0
         /\ \A w \in Wb!Switches : (w = <<"ovl", "CRTC_ID">> => s.overlay)
              => \E e \in Range(Wb!OffList(s)) : <<e[1], e[2]>> = w
<1> DEFINE prim == Wb!plane_set("prim", 0)
           ovl  == IF s.overlay THEN Wb!plane_set("ovl", 0) ELSE <<>>
           last == << <<"conn", "CRTC_ID", 0>>, <<"crtc", "ACTIVE", 0>>, <<"crtc", "MODE_ID", 0>> >>
<1>1. prim \in Seq(Wb!Calls) /\ Len(prim) = 2
      /\ Range(prim) = {<<"prim", "FB_ID", 0>>, <<"prim", "CRTC_ID", 0>>}
  BY WbPlaneOff DEF Wb!Objects
<1>2. ovl \in Seq(Wb!Calls) /\ Len(ovl) <= 2
      /\ Range(ovl) = IF s.overlay THEN {<<"ovl", "FB_ID", 0>>, <<"ovl", "CRTC_ID", 0>>} ELSE {}
  <2>1. CASE s.overlay
    <3>1. ovl = Wb!plane_set("ovl", 0)
      BY <2>1
    <3> HIDE DEF ovl
    <3>2. LET u == Wb!plane_set("ovl", 0) IN
          u \in Seq(Wb!Calls) /\ Len(u) = 2 /\ Range(u) = {<<"ovl", "FB_ID", 0>>, <<"ovl", "CRTC_ID", 0>>}
      BY WbPlaneOff DEF Wb!Objects
    <3>3. ovl \in Seq(Wb!Calls) /\ Len(ovl) = 2 /\ Range(ovl) = {<<"ovl", "FB_ID", 0>>, <<"ovl", "CRTC_ID", 0>>}
      BY <3>1, <3>2, Zenon
    <3> QED BY <2>1, <3>3
  <2>2. CASE ~s.overlay
    <3>1. ovl = <<>>
      BY <2>2
    <3> HIDE DEF ovl
    <3> QED BY <2>2, <3>1, EmptyQueue, EmptySeq
  <2> QED BY <2>1, <2>2
<1>3. last \in Seq(Wb!Calls) /\ Len(last) = 3
      /\ Range(last) = {<<"conn", "CRTC_ID", 0>>, <<"crtc", "ACTIVE", 0>>, <<"crtc", "MODE_ID", 0>>}
  <2>1. /\ <<"conn", "CRTC_ID", 0>> \in Wb!Calls /\ <<"crtc", "ACTIVE", 0>> \in Wb!Calls
        /\ <<"crtc", "MODE_ID", 0>> \in Wb!Calls
    BY WbCallOf DEF Wb!Objects, Wb!Properties
  <2> QED BY <2>1, ThreeCalls
<1> DEFINE planes == prim \o ovl
<1>4. Joins(Wb!OffList(s), planes, last)
  BY DEF Wb!OffList, Joins
<1>5. Joins(planes, prim, ovl)
  BY DEF Joins
<1> HIDE DEF prim, ovl, last, planes
<1>6. /\ Wb!OffList(s) \in Seq(Wb!Calls) /\ Len(Wb!OffList(s)) <= 7
      /\ Range(Wb!OffList(s)) = Range(prim) \cup Range(ovl) \cup Range(last)
  <2>0. prim \in Seq(Wb!Calls) /\ ovl \in Seq(Wb!Calls) /\ last \in Seq(Wb!Calls)
    BY <1>1, <1>2, <1>3
  <2>1. planes \in Seq(Wb!Calls) /\ Len(planes) = Len(prim) + Len(ovl) /\ Len(ovl) \in Nat
    BY <1>5, <2>0, WbJoined
  <2>2. Wb!OffList(s) \in Seq(Wb!Calls) /\ Len(Wb!OffList(s)) = Len(planes) + Len(last)
    BY <1>4, <2>0, <2>1, WbJoined
  <2>3. Len(Wb!OffList(s)) <= 7
    BY <1>1, <1>2, <1>3, <2>1, <2>2
  <2>4. Range(planes) = Range(prim) \cup Range(ovl)
    BY <1>5, <2>0, WbJoined
  <2>5. Range(Wb!OffList(s)) = Range(planes) \cup Range(last)
    BY <1>4, <2>0, <2>1, WbJoined
  <2> QED BY <2>2, <2>3, <2>4, <2>5
<1>7. \A e \in Range(Wb!OffList(s)) : e[3] = 0
  BY <1>1, <1>2, <1>3, <1>6
<1>8. ASSUME NEW w \in Wb!Switches, w = <<"ovl", "CRTC_ID">> => s.overlay
      PROVE  \E e \in Range(Wb!OffList(s)) : <<e[1], e[2]>> = w
  <2>1. CASE w = <<"ovl", "CRTC_ID">>
    <3>1. <<"ovl", "CRTC_ID", 0>> \in Range(Wb!OffList(s))
      BY <1>2, <1>6, <1>8, <2>1
    <3> QED BY <2>1, <3>1
  <2>2. CASE w = <<"prim", "CRTC_ID">>
    <3>1. <<"prim", "CRTC_ID", 0>> \in Range(Wb!OffList(s))
      BY <1>1, <1>6
    <3> QED BY <2>2, <3>1
  <2>3. CASE w = <<"conn", "CRTC_ID">>
    <3>1. <<"conn", "CRTC_ID", 0>> \in Range(Wb!OffList(s))
      BY <1>3, <1>6
    <3> QED BY <2>3, <3>1
  <2>4. CASE w = <<"crtc", "ACTIVE">>
    <3>1. <<"crtc", "ACTIVE", 0>> \in Range(Wb!OffList(s))
      BY <1>3, <1>6
    <3> QED BY <2>4, <3>1
  <2> QED BY <1>8, <2>1, <2>2, <2>3, <2>4 DEF Wb!Switches
<1> QED BY <1>6, <1>7, <1>8

\* The calls of a frame fit the arrays, and leave the overlay alone in a
\* scenario without one.
LEMMA WbFrameCalls ==
  ASSUME NEW s, s.overlay \in BOOLEAN, NEW k, NEW known
  PROVE  /\ Wb!FrameList(s, k, known) \in Seq(Wb!Calls) /\ Len(Wb!FrameList(s, k, known)) <= 26
         /\ ~s.overlay =>
              \A e \in Range(Wb!FrameList(s, k, known)) : <<e[1], e[2]>> # <<"ovl", "CRTC_ID">>
<1> DEFINE mode  == << <<"crtc", "MODE_ID", 1>>, <<"crtc", "ACTIVE", 1>> >>
           prim  == Wb!plane_set("prim", 1)
           ovl   == IF s.overlay THEN Wb!plane_set("ovl", 1) ELSE <<>>
           blend == IF s.blend /\ known THEN << <<"ovl", "blend", 1>> >> ELSE <<>>
           two   == mode \o prim
           three == two \o ovl
           four  == three \o blend
           first == IF k = 0 THEN four ELSE <<>>
           last  == << <<"conn", "CRTC_ID", 1>>, <<"conn", "WRITEBACK_FB_ID", 1>>,
                       <<"conn", "WRITEBACK_OUT_FENCE_PTR", 1>> >>
           Fine(l) == /\ l \in Seq(Wb!Calls)
                      /\ ~s.overlay => \A e \in Range(l) : <<e[1], e[2]>> # <<"ovl", "CRTC_ID">>
<1>1. Fine(mode) /\ Len(mode) = 2
  <2>1. <<"crtc", "MODE_ID", 1>> \in Wb!Calls /\ <<"crtc", "ACTIVE", 1>> \in Wb!Calls
    BY WbCallOf DEF Wb!Objects, Wb!Properties
  <2>2. /\ mode \in Seq(Wb!Calls) /\ Len(mode) = 2
        /\ Range(mode) = {<<"crtc", "MODE_ID", 1>>, <<"crtc", "ACTIVE", 1>>}
    BY <2>1, TwoCalls
  <2> HIDE DEF mode
  <2> QED BY <2>2
<1>2. Fine(prim) /\ Len(prim) <= 10
  <2>1. prim \in Seq(Wb!Calls) /\ Len(prim) <= 10 /\ \A e \in Range(prim) : e[1] = "prim"
    BY WbPlaneOn DEF Wb!Objects
  <2> HIDE DEF prim
  <2> QED BY <2>1
<1>3. Fine(ovl) /\ Len(ovl) <= 10
  <2>1. ovl \in Seq(Wb!Calls) /\ Len(ovl) <= 10 /\ (~s.overlay => Range(ovl) = {})
    <3>1. CASE s.overlay
      BY <3>1, WbPlaneOn DEF Wb!Objects
    <3>2. CASE ~s.overlay
      <4>1. ovl = <<>>
        BY <3>2
      <4> HIDE DEF ovl
      <4> QED BY <4>1, EmptyQueue, EmptySeq
    <3> QED BY <3>1, <3>2
  <2> HIDE DEF ovl
  <2> QED BY <2>1
<1>4. Fine(blend) /\ Len(blend) <= 1
  <2>1. <<"ovl", "blend", 1>> \in Wb!Calls
    BY WbCallOf DEF Wb!Objects, Wb!Properties
  <2>2. blend \in Seq(Wb!Calls) /\ Len(blend) <= 1 /\ Range(blend) \subseteq {<<"ovl", "blend", 1>>}
    BY <2>1, OneCall, EmptyQueue
  <2> HIDE DEF blend
  <2> QED BY <2>2
<1>5. Fine(last) /\ Len(last) = 3
  <2>1. /\ <<"conn", "CRTC_ID", 1>> \in Wb!Calls /\ <<"conn", "WRITEBACK_FB_ID", 1>> \in Wb!Calls
        /\ <<"conn", "WRITEBACK_OUT_FENCE_PTR", 1>> \in Wb!Calls
    BY WbCallOf DEF Wb!Objects, Wb!Properties
  <2>2. /\ last \in Seq(Wb!Calls) /\ Len(last) = 3
        /\ Range(last) = {<<"conn", "CRTC_ID", 1>>, <<"conn", "WRITEBACK_FB_ID", 1>>,
                          <<"conn", "WRITEBACK_OUT_FENCE_PTR", 1>>}
    BY <2>1, ThreeCalls
  <2> HIDE DEF last
  <2> QED BY <2>2
<1>6. ASSUME NEW l, Fine(l), NEW m, Fine(m), NEW u, Joins(u, l, m)
      PROVE  Fine(u) /\ Len(u) = Len(l) + Len(m) /\ Len(l) \in Nat /\ Len(m) \in Nat
  <2>1. l \in Seq(Wb!Calls) /\ m \in Seq(Wb!Calls) /\ Joins(u, l, m)
    BY <1>6
  <2>2. u \in Seq(Wb!Calls) /\ Len(u) = Len(l) + Len(m) /\ Len(l) \in Nat /\ Len(m) \in Nat
    BY <2>1, WbJoined
  <2>3. Range(u) = Range(l) \cup Range(m)
    BY <2>1, WbJoined
  <2>4. ~s.overlay => \A e \in Range(u) : <<e[1], e[2]>> # <<"ovl", "CRTC_ID">>
    BY <1>6, <2>3
  <2> QED BY <2>2, <2>4
<1>7. Fine(<<>>) /\ Len(<<>>) = 0
  BY EmptyQueue
<1> DEFINE whole == Wb!FrameList(s, k, known)
<1>8. Joins(whole, first, last)
  BY DEF Wb!FrameList, Joins
<1>9. Joins(two, mode, prim) /\ Joins(three, two, ovl) /\ Joins(four, three, blend)
  BY DEF Joins
<1>10. first = four \/ first = <<>>
  OBVIOUS
<1> HIDE DEF mode, prim, ovl, blend, last, Fine, two, three, four, first, whole
<1>11. Fine(two) /\ Len(two) <= 12
  <2>1. Fine(two) /\ Len(two) = Len(mode) + Len(prim) /\ Len(prim) \in Nat
    <3>1. Fine(mode) /\ Fine(prim)
      BY <1>1, <1>2
    <3> QED BY <1>6, <1>9, <3>1
  <2> QED BY <1>1, <1>2, <2>1
<1>12. Fine(three) /\ Len(three) <= 22
  <2>1. Fine(three) /\ Len(three) = Len(two) + Len(ovl) /\ Len(two) \in Nat /\ Len(ovl) \in Nat
    <3>1. Fine(two) /\ Fine(ovl)
      BY <1>3, <1>11
    <3> QED BY <1>6, <1>9, <3>1
  <2> QED BY <1>3, <1>11, <2>1
<1>13. Fine(four) /\ Len(four) <= 23
  <2>1. Fine(four) /\ Len(four) = Len(three) + Len(blend) /\ Len(three) \in Nat /\ Len(blend) \in Nat
    <3>1. Fine(three) /\ Fine(blend)
      BY <1>4, <1>12
    <3> QED BY <1>6, <1>9, <3>1
  <2> QED BY <1>4, <1>12, <2>1
<1>14. Fine(first) /\ Len(first) <= 23
  BY <1>7, <1>10, <1>13
<1>16. Fine(whole) /\ Len(whole) <= 26
  <2>1. Fine(whole) /\ Len(whole) = Len(first) + Len(last) /\ Len(first) \in Nat
    <3>1. Fine(first) /\ Fine(last)
      BY <1>5, <1>14
    <3> QED BY <1>6, <1>8, <3>1
  <2> QED BY <1>5, <1>14, <2>1
<1> QED BY <1>16 DEF Fine, whole

\* A set of positions has a last one.
LEMMA LargestElement ==
  ASSUME NEW n \in Nat, NEW S \in SUBSET (1..n), S # {}
  PROVE  \E x \in S : \A y \in S : y <= x
<1> DEFINE Back == {n - y : y \in S}
<1>0. \A y \in S : y \in 1..n /\ n - y \in Nat
  OBVIOUS
<1>1. Back \in SUBSET Nat /\ Back # {}
  BY <1>0
<1>2. PICK b \in Back : \A c \in Back : b <= c
  BY <1>1, SmallestElement
<1>3. PICK x \in S : b = n - x
  BY <1>2
<1>4. ASSUME NEW y \in S PROVE y <= x
  <2>1. n - y \in Back
    OBVIOUS
  <2>2. n - x <= n - y
    BY <1>2, <1>3, <2>1
  <2>3. x \in Int /\ y \in Int
    BY <1>0
  <2> QED BY <2>2, <2>3
<1> QED BY <1>4

LEMMA WbInGroupSums == \A c, i, k : Wb!InGroup(c, i, k) <=> Sum(c, i - 1) < k /\ k <= Sum(c, i)
BY WbSum DEF Wb!InGroup

\* Adding more counts does not make a sum smaller.
LEMMA SumGrows ==
  ASSUME NEW g, NEW m \in Nat, \A k \in 1..m : g[k] \in Nat,
         NEW i \in 0..m, NEW j \in 0..m, i <= j
  PROVE  Sum(g, i) <= Sum(g, j)
<1> DEFINE Bad == {x \in 0..m : i <= x /\ ~(Sum(g, i) <= Sum(g, x))}
<1>0. /\ \A x \in 1..m : Sum(g, x) = Sum(g, x - 1) + g[x]
      /\ \A x \in 0..m : Sum(g, x) \in Int
  BY SumSteps
<1>1. ASSUME Bad # {} PROVE FALSE
  <2>1. Bad \in SUBSET Nat
    OBVIOUS
  <2>2. PICK b \in Bad : \A x \in Bad : b <= x
    BY <1>1, <2>1, SmallestElement
  <2>3. b # i
    BY <1>0, <2>2
  <2>4. b - 1 \in 0..m /\ i <= b - 1 /\ b - 1 \notin Bad /\ b \in 1..m
    BY <2>2, <2>3
  <2>5. Sum(g, i) <= Sum(g, b - 1)
    BY <2>4
  <2>6. Sum(g, b) = Sum(g, b - 1) + g[b] /\ g[b] \in Nat /\ Sum(g, b - 1) \in Int /\ Sum(g, i) \in Int
    BY <1>0, <2>4
  <2>7. ~(Sum(g, i) <= Sum(g, b))
    BY <2>2
  <2> QED BY <2>5, <2>6, <2>7
<1> QED BY <1>1

\* A property is in one group only.
LEMMA WbOneGroup ==
  ASSUME NEW g, NEW m \in Nat, \A x \in 1..m : g[x] \in Nat, NEW k \in Int,
         NEW i \in 1..m, NEW j \in 1..m, Wb!InGroup(g, i, k), Wb!InGroup(g, j, k)
  PROVE  i = j
<1>1. \A x \in 0..m : Sum(g, x) \in Int
  BY SumSteps
<1>2. ASSUME NEW a \in 1..m, NEW b \in 1..m, Wb!InGroup(g, a, k), Wb!InGroup(g, b, k), a < b PROVE FALSE
  <2>1. Sum(g, a) <= Sum(g, b - 1)
    BY <1>2, SumGrows
  <2>2. k <= Sum(g, a) /\ Sum(g, b - 1) < k /\ Sum(g, a) \in Int /\ Sum(g, b - 1) \in Int
    BY <1>1, <1>2, WbInGroupSums
  <2> QED BY <2>1, <2>2
<1> QED BY <1>2

\* What the kernel reads is what was asked.
LEMMA WbDecodedIsAsked ==
  ASSUME Wb!TypeOK, Wb!Grouped
  PROVE  Wb!Decoded(wbReq) = wbAsked
<1> DEFINE owner(k) == CHOOSE i \in DOMAIN wbReq.objs : Wb!InGroup(wbReq.cnts, i, k)
<1>0. /\ wbReq.objs \in Seq(Wb!Objects) /\ wbReq.cnts \in Seq(Nat) /\
           wbReq.props \in Seq(Wb!Properties \X {0, 1})
      /\ wbAsked \in Seq(Wb!Calls)
  BY DEF Wb!TypeOK
<1>1. /\ Len(wbReq.objs) \in Nat /\ DOMAIN wbReq.objs = 1..Len(wbReq.objs)
      /\ DOMAIN wbReq.props = 1..Len(wbAsked) /\ DOMAIN wbAsked = 1..Len(wbAsked)
      /\ \A i \in 1..Len(wbReq.objs) : wbReq.cnts[i] \in Nat
  BY <1>0, LenProperties, ElementOfSeq DEF Wb!Grouped
<1>2. ASSUME NEW k \in 1..Len(wbAsked)
      PROVE  wbAsked[k] = <<wbReq.objs[owner(k)], wbReq.props[k][1], wbReq.props[k][2]>>
  <2>1. PICK i \in 1..Len(wbReq.objs) :
          Wb!InGroup(wbReq.cnts, i, k) /\ wbAsked[k] = <<wbReq.objs[i], wbReq.props[k][1], wbReq.props[k][2]>>
    BY DEF Wb!Grouped
  <2>2. ASSUME NEW j \in 1..Len(wbReq.objs), Wb!InGroup(wbReq.cnts, j, k) PROVE j = i
    <3> DEFINE m == Len(wbReq.objs)
               g == wbReq.cnts
    <3>1. m \in Nat /\ \A x \in 1..m : g[x] \in Nat
      BY <1>1
    <3>2. i \in 1..m /\ j \in 1..m /\ Wb!InGroup(g, i, k) /\ Wb!InGroup(g, j, k) /\ k \in Int
      BY <2>1, <2>2
    <3> HIDE DEF m, g
    <3> QED BY <3>1, <3>2, WbOneGroup
  <2>3. owner(k) = i
    BY <1>1, <2>1, <2>2
  <2> QED BY <2>1, <2>3
<1>3. Wb!Decoded(wbReq) = [k \in DOMAIN wbReq.props |-> <<wbReq.objs[owner(k)], wbReq.props[k][1],
        wbReq.props[k][2]>>]
  BY DEF Wb!Decoded
<1>4. wbAsked = [k \in 1..Len(wbAsked) |-> wbAsked[k]]
  BY <1>0, LenProperties
<1> HIDE DEF owner
<1> QED BY <1>1, <1>2, <1>3, <1>4

\* The groups a request has after one more property: the last one grew by one,
\* or there is one more.
Grown(r, s, e) ==
  LET n == Len(r.objs) m == Len(s.objs) IN
  /\ s.objs \in Seq(Wb!Objects) /\ s.cnts \in Seq(Nat)
  /\ m = n \/ m = n + 1
  /\ m \in Nat \ {0} /\ Len(s.cnts) = m
  /\ s.objs[m] = e[1] /\ \A i \in 1..n : s.objs[i] = r.objs[i]
  /\ \A i \in 1..(m - 1) : s.cnts[i] = r.cnts[i]
  /\ s.cnts[m] = IF m = n THEN r.cnts[n] + 1 ELSE 1

LEMMA WbAaddGrows ==
  ASSUME NEW r, r.objs \in Seq(Wb!Objects), r.cnts \in Seq(Nat), Len(r.cnts) = Len(r.objs),
         NEW e \in Wb!Calls, e[2] \notin wbMissing
  PROVE  /\ Grown(r, Wb!aadd(r, e), e)
         /\ Wb!aadd(r, e) = [objs |-> Wb!aadd(r, e).objs, cnts |-> Wb!aadd(r, e).cnts,
                             props |-> Append(r.props, <<e[2], e[3]>>)]
<1> DEFINE n == Len(r.objs)
           objs == r.objs
           cnts == r.cnts
           new == objs = <<>> \/ objs[Len(objs)] # e[1]
           o2 == IF new THEN Append(objs, e[1]) ELSE objs
           c1 == IF new THEN Append(cnts, 0) ELSE cnts
           c2 == [c1 EXCEPT ![Len(c1)] = @ + 1]
           all == [objs |-> o2, cnts |-> c2, props |-> Append(r.props, <<e[2], e[3]>>)]
<1>1. Wb!aadd(r, e) = all
  BY DEF Wb!aadd, Wb!Last
<1>2. e[1] \in Wb!Objects
  BY DEF Wb!Calls
<1>3. n \in Nat /\ objs \in Seq(Wb!Objects) /\ cnts \in Seq(Nat) /\ Len(cnts) = n /\ Len(objs) = n
  BY LenProperties
<1>4. ASSUME NEW m \in Nat \ {0}, m = n \/ m = n + 1, o2 \in Seq(Wb!Objects), c2 \in Seq(Nat),
             Len(o2) = m, Len(c2) = m, o2[m] = e[1], \A i \in 1..n : o2[i] = objs[i],
             \A i \in 1..(m - 1) : c2[i] = cnts[i], c2[m] = IF m = n THEN cnts[n] + 1 ELSE 1
      PROVE  Grown(r, all, e)
  <2>1. all.objs = o2 /\ all.cnts = c2
    OBVIOUS
  <2> HIDE DEF all, o2, c2
  <2> QED BY <1>4, <2>1 DEF Grown
<1>5. Grown(r, all, e)
  <2>1. CASE new
    <3>1. /\ o2 \in Seq(Wb!Objects) /\ Len(o2) = n + 1 /\ o2[n + 1] = e[1]
          /\ \A i \in 1..n : o2[i] = objs[i]
      BY <1>2, <1>3, <2>1, AppendProperties
    <3>2. /\ c1 \in Seq(Nat) /\ Len(c1) = n + 1 /\ c1[n + 1] = 0
          /\ \A i \in 1..n : c1[i] = cnts[i]
      BY <1>3, <2>1, AppendProperties
    <3>3. c2 = [c1 EXCEPT ![n + 1] = 1]
      <4> HIDE DEF c1
      <4>1. Len(c1) = n + 1 /\ c1[Len(c1)] + 1 = 1
        BY <3>2
      <4>2. c2 = [c1 EXCEPT ![Len(c1)] = c1[Len(c1)] + 1]
        OBVIOUS
      <4> HIDE DEF c2, n
      <4> QED BY <4>1, <4>2, Zenon
    <3> HIDE DEF c1, c2, o2
    <3>4. /\ c2 \in Seq(Nat) /\ Len(c2) = n + 1
          /\ \A j \in 1..(n + 1) : c2[j] = IF j = n + 1 THEN 1 ELSE c1[j]
      <4>1. n + 1 \in 1..Len(c1) /\ 1 \in Nat
        BY <1>3, <3>2
      <4> QED BY <3>2, <3>3, <4>1, ExceptSeq
    <3>5. /\ n + 1 \in Nat \ {0} /\ (n + 1) - 1 = n /\ n + 1 # n
          /\ \A i \in 1..n : c2[i] = cnts[i]
          /\ c2[n + 1] = 1
      <4>1. n \in Nat
        BY <1>3
      <4>2. \A i \in 1..n : c1[i] = cnts[i]
        BY <3>2
      <4>3. \A j \in 1..(n + 1) : c2[j] = IF j = n + 1 THEN 1 ELSE c1[j]
        BY <3>4
      <4> HIDE DEF n, cnts
      <4> QED BY <4>1, <4>2, <4>3
    <3> HIDE DEF all
    <3> QED BY <1>4, <3>1, <3>4, <3>5
  <2>2. CASE ~new
    <3>1. o2 = objs /\ c1 = cnts /\ objs # <<>> /\ objs[n] = e[1]
      BY <1>3, <2>2
    <3>2. n \in Nat \ {0}
      BY <1>3, <3>1, EmptySeq
    <3>3. c2 = [cnts EXCEPT ![n] = cnts[n] + 1]
      BY <1>3, <3>1
    <3>4. cnts[n] + 1 \in Nat
      BY <1>3, <3>2, ElementOfSeq
    <3> HIDE DEF c1, c2, o2
    <3>5. /\ c2 \in Seq(Nat) /\ Len(c2) = n
          /\ \A j \in 1..n : c2[j] = IF j = n THEN cnts[n] + 1 ELSE cnts[j]
      <4>1. n \in 1..Len(cnts)
        BY <1>3, <3>2
      <4> QED BY <1>3, <3>3, <3>4, <4>1, ExceptSeq
    <3>6. /\ \A i \in 1..(n - 1) : c2[i] = cnts[i]
          /\ c2[n] = cnts[n] + 1
      <4>1. n \in Nat \ {0} /\ \A j \in 1..n : c2[j] = IF j = n THEN cnts[n] + 1 ELSE cnts[j]
        BY <3>2, <3>5
      <4> HIDE DEF n, cnts
      <4> QED BY <4>1
    <3>7. Len(o2) = n /\ o2 \in Seq(Wb!Objects) /\ o2[n] = e[1] /\ \A i \in 1..n : o2[i] = objs[i]
      BY <1>3, <3>1
    <3> HIDE DEF all, n
    <3> QED BY <1>4, <3>2, <3>5, <3>6, <3>7
  <2> QED BY <2>1, <2>2
<1> HIDE DEF o2, c2
<1> QED BY <1>1, <1>5

\* The m sizes of g are the n sizes of h with one more in the last group.
OneAdded(h, g, n, m) ==
  /\ n \in Nat /\ m \in Nat \ {0} /\ (m = n \/ m = n + 1)
  /\ \A i \in 1..n : h[i] \in Nat
  /\ \A i \in 1..m : g[i] \in Nat
  /\ \A i \in 1..(m - 1) : g[i] = h[i]
  /\ g[m] = IF m = n THEN h[n] + 1 ELSE 1

\* Their sums.
LEMMA OneMore ==
  ASSUME NEW h, NEW g, NEW n, NEW m, OneAdded(h, g, n, m)
  PROVE  /\ \A j \in 0..(m - 1) : Sum(g, j) = Sum(h, j)
         /\ Sum(g, m) = Sum(h, n) + 1
         /\ Sum(g, m - 1) <= Sum(h, n) /\ Sum(g, m - 1) \in Int
<1> USE DEF OneAdded
<1>1. ASSUME NEW j \in 0..(m - 1) PROVE Sum(g, j) = Sum(h, j)
  <2>1. j \in Nat /\ \A k \in 1..j : h[k] \in Int /\ g[k] = h[k]
    OBVIOUS
  <2> QED BY <2>1, SumSame
<1>2. Sum(g, m) = Sum(g, m - 1) + g[m] /\ Sum(g, m - 1) \in Int
  <2>1. \A k \in 1..m : g[k] \in Int
    OBVIOUS
  <2>2. /\ \A j \in 1..m : Sum(g, j) = Sum(g, j - 1) + g[j]
        /\ \A j \in 0..m : Sum(g, j) \in Int
    BY <2>1, SumSteps
  <2> QED BY <2>2
<1>3. m = n => Sum(h, n) = Sum(h, n - 1) + h[n] /\ Sum(h, n - 1) \in Int /\ h[n] \in Nat
  <2>1. \A k \in 1..n : h[k] \in Int
    OBVIOUS
  <2>2. /\ \A j \in 1..n : Sum(h, j) = Sum(h, j - 1) + h[j]
        /\ \A j \in 0..n : Sum(h, j) \in Int
    BY <2>1, SumSteps
  <2> QED BY <2>2
<1>4. Sum(g, m - 1) = Sum(h, m - 1)
  BY <1>1
<1> QED BY <1>1, <1>2, <1>3, <1>4

\* aadd() is called for the next property: what was asked so far is grouped again.
LEMMA WbAddStep ==
  ASSUME Wb!TypeOK, Wb!Grouped, Wb!Add
  PROVE  /\ wbReq' \in [objs : Seq(Wb!Objects), cnts : Seq(Nat), props : Seq(Wb!Properties \X {0, 1})]
         /\ wbAdds' \in Seq(Wb!Calls) /\ wbAsked' \in Seq(Wb!Calls)
         /\ Wb!Grouped'
<1> DEFINE e == Head(wbAdds)
           n == Len(wbReq.objs)
           l == Len(wbAsked)
<1>1. /\ wbReq.objs \in Seq(Wb!Objects) /\ wbReq.cnts \in Seq(Nat) /\
           wbReq.props \in Seq(Wb!Properties \X {0, 1})
      /\ wbAsked \in Seq(Wb!Calls) /\ wbAdds \in Seq(Wb!Calls) /\ wbAdds # <<>>
      /\ wbReq \in [objs : Seq(Wb!Objects), cnts : Seq(Nat), props : Seq(Wb!Properties \X {0, 1})]
  BY DEF Wb!TypeOK, Wb!Add
<1>2. e \in Wb!Calls /\ wbAdds' \in Seq(Wb!Calls) /\ Len(wbAdds') = Len(wbAdds) - 1 /\ Len(wbAdds) \in Nat
  BY <1>1, HeadTailProperties, LenProperties DEF Wb!Add
<1>3. e[1] \in Wb!Objects /\ <<e[2], e[3]>> \in Wb!Properties \X {0, 1} /\ e = <<e[1], e[2], e[3]>>
  BY <1>2 DEF Wb!Calls
<1>4. n \in Nat /\ l \in Nat /\ Len(wbReq.cnts) = n /\ Len(wbReq.props) = l /\ Sum(wbReq.cnts, n) = l
  BY <1>1, LenProperties, WbSum DEF Wb!Grouped
<1>5. wbPc' = wbPc /\ wbPc \in {"commit", "offcommit"}
  <2>1. wbPc \notin {"commit", "offcommit"} => wbAdds = <<>>
    BY DEF Wb!Grouped
  <2> QED BY <2>1 DEF Wb!Add
<1>6. wbReq' = Wb!aadd(wbReq, e) /\ wbAsked' = IF e[2] \in wbMissing THEN wbAsked ELSE Append(wbAsked, e)
  BY DEF Wb!Add
<1> HIDE DEF e
<1>7. CASE e[2] \in wbMissing
  <2>1. wbReq' = wbReq /\ wbAsked' = wbAsked
    BY <1>6, <1>7 DEF Wb!aadd
  <2>2. Len(wbAsked') + Len(wbAdds') <= 26
    <3>1. Len(wbAsked) + Len(wbAdds) <= 26
      BY DEF Wb!Grouped
    <3> QED BY <1>2, <1>4, <2>1, <3>1
  <2>3. /\ Len(wbReq'.cnts) = Len(wbReq'.objs) /\ Len(wbReq'.props) = Len(wbAsked')
        /\ Sum(wbReq'.cnts, Len(wbReq'.cnts)) = Len(wbAsked')
        /\ \A k \in 1..Len(wbAsked') : \E i \in 1..Len(wbReq'.objs) :
             /\ Wb!InGroup(wbReq'.cnts, i, k)
             /\ wbAsked'[k] = <<wbReq'.objs[i], wbReq'.props[k][1], wbReq'.props[k][2]>>
    BY <2>1, WbSum DEF Wb!Grouped
  <2>4. Wb!Grouped'
    BY <1>5, <2>2, <2>3, WbSum DEF Wb!Grouped
  <2> QED BY <1>1, <1>2, <2>1, <2>4
<1>8. CASE e[2] \notin wbMissing
  <2> DEFINE m == Len(wbReq'.objs)
  <2>1. Grown(wbReq, wbReq', e) /\ wbReq'.props = Append(wbReq.props, <<e[2], e[3]>>)
    <3>1. /\ Grown(wbReq, Wb!aadd(wbReq, e), e)
          /\ Wb!aadd(wbReq, e) = [objs |-> Wb!aadd(wbReq, e).objs, cnts |-> Wb!aadd(wbReq, e).cnts,
                                  props |-> Append(wbReq.props, <<e[2], e[3]>>)]
      BY <1>1, <1>2, <1>4, <1>8, WbAaddGrows
    <3> QED BY <1>6, <3>1
  <2>2. /\ m \in Nat \ {0} /\ (m = n \/ m = n + 1)
        /\ wbReq'.objs \in Seq(Wb!Objects) /\ wbReq'.cnts \in Seq(Nat) /\ Len(wbReq'.cnts) = m
        /\ wbReq'.objs[m] = e[1] /\ \A i \in 1..n : wbReq'.objs[i] = wbReq.objs[i]
        /\ \A i \in 1..(m - 1) : wbReq'.cnts[i] = wbReq.cnts[i]
        /\ wbReq'.cnts[m] = IF m = n THEN wbReq.cnts[n] + 1 ELSE 1
    BY <2>1 DEF Grown
  <2>3. /\ wbReq'.props \in Seq(Wb!Properties \X {0, 1}) /\ Len(wbReq'.props) = l + 1
        /\ \A k \in 1..l : wbReq'.props[k] = wbReq.props[k]
        /\ wbReq'.props[l + 1] = <<e[2], e[3]>>
    BY <1>1, <1>3, <1>4, <2>1, AppendProperties
  <2>4. /\ wbAsked' \in Seq(Wb!Calls) /\ Len(wbAsked') = l + 1
        /\ \A k \in 1..l : wbAsked'[k] = wbAsked[k]
        /\ wbAsked'[l + 1] = e
    BY <1>1, <1>2, <1>4, <1>6, <1>8, AppendProperties
  <2>5. wbReq' \in [objs : Seq(Wb!Objects), cnts : Seq(Nat), props : Seq(Wb!Properties \X {0, 1})]
    <3>1. wbReq' = [objs |-> wbReq'.objs, cnts |-> wbReq'.cnts, props |-> wbReq'.props]
      BY <1>1, <1>2, <1>4, <1>6, <1>8, <2>1, WbAaddGrows
    <3>2. \A o \in Seq(Wb!Objects), c \in Seq(Nat), q \in Seq(Wb!Properties \X {0, 1}) :
            [objs |-> o, cnts |-> c, props |-> q] \in
              [objs : Seq(Wb!Objects), cnts : Seq(Nat), props : Seq(Wb!Properties \X {0, 1})]
      OBVIOUS
    <3> QED BY <2>2, <2>3, <3>1, <3>2, Zenon
  <2>6. /\ \A i \in 1..n : wbReq.cnts[i] \in Nat
        /\ \A i \in 1..m : wbReq'.cnts[i] \in Nat
    BY <1>1, <1>4, <2>2, ElementOfSeq
  <2> DEFINE g == wbReq'.cnts
             h == wbReq.cnts
  <2>7a. OneAdded(h, g, n, m)
    BY <1>4, <2>2, <2>6 DEF OneAdded
  <2>7b. Sum(h, n) = l
    BY <1>4
  <2>7c. /\ \A j \in 0..(m - 1) : Sum(g, j) = Sum(h, j)
         /\ Sum(g, m) = Sum(h, n) + 1 /\ Sum(g, m - 1) <= Sum(h, n) /\ Sum(g, m - 1) \in Int
    <3> HIDE DEF g, h, m, n, l
    <3> QED BY <2>7a, OneMore
  <2>7. \A j \in 0..(m - 1) : Sum(wbReq'.cnts, j) = Sum(wbReq.cnts, j)
    BY <2>7c
  <2>8. Sum(wbReq'.cnts, m) = l + 1 /\ Sum(wbReq'.cnts, m - 1) <= l /\ Sum(wbReq'.cnts, m - 1) \in Int
    <3> HIDE DEF h, m, n, l
    <3> QED BY <2>7b, <2>7c DEF g
  <2> HIDE DEF g, h
  <2> HIDE DEF m, n, l
  <2>9. ASSUME NEW k \in 1..(l + 1)
        PROVE  \E i \in 1..m : /\ Wb!InGroup(wbReq'.cnts, i, k)
                               /\ wbAsked'[k] = <<wbReq'.objs[i], wbReq'.props[k][1], wbReq'.props[k][2]>>
    <3>1. CASE k = l + 1
      <4>1. Wb!InGroup(wbReq'.cnts, m, k)
        BY <1>4, <2>8, <3>1, WbInGroupSums
      <4>2. wbAsked'[k] = <<wbReq'.objs[m], wbReq'.props[k][1], wbReq'.props[k][2]>>
        <5>1. wbReq'.props[k] = <<e[2], e[3]>>
          BY <2>3, <3>1
        <5>2. wbAsked'[k] = e
          BY <2>4, <3>1
        <5>3. wbReq'.objs[m] = e[1]
          BY <2>2
        <5> QED BY <1>3, <5>1, <5>2, <5>3
      <4> QED BY <2>2, <4>1, <4>2
    <3>2. CASE k # l + 1
      <4>1. k \in 1..l
        BY <1>4, <3>2
      <4>2. PICK i \in 1..n :
              Wb!InGroup(wbReq.cnts, i, k) /\
                wbAsked[k] = <<wbReq.objs[i], wbReq.props[k][1], wbReq.props[k][2]>>
        BY <4>1 DEF Wb!Grouped, n, l
      <4>3. Wb!InGroup(wbReq'.cnts, i, k)
        <5>1. CASE i <= m - 1
          <6>1. i - 1 \in 0..(m - 1) /\ i \in 0..(m - 1)
            BY <1>4, <2>2, <5>1
          <6> QED BY <2>7, <4>2, <6>1, WbInGroupSums
        <5>2. CASE i > m - 1
          <6>1. i = m /\ m - 1 \in 0..(m - 1)
            BY <1>4, <2>2, <5>2
          <6>2. Sum(wbReq'.cnts, m - 1) < k
            BY <2>7, <4>2, <6>1, WbInGroupSums
          <6>3. k <= Sum(wbReq'.cnts, m)
            BY <1>4, <2>8, <4>1
          <6> QED BY <6>1, <6>2, <6>3, WbInGroupSums
        <5> QED BY <1>4, <2>2, <5>1, <5>2
      <4>4. wbAsked'[k] = <<wbReq'.objs[i], wbReq'.props[k][1], wbReq'.props[k][2]>>
        BY <2>2, <2>3, <2>4, <4>1, <4>2
      <4>5. i \in 1..m
        BY <1>4, <2>2
      <4> QED BY <4>3, <4>4, <4>5
    <3> QED BY <3>1, <3>2
  <2>10. Wb!Grouped'
    <3>1. Len(wbReq'.cnts) = Len(wbReq'.objs) /\ Len(wbReq'.props) = Len(wbAsked')
          /\ Sum(wbReq'.cnts, Len(wbReq'.cnts)) = Len(wbAsked')
      BY <2>2, <2>3, <2>4, <2>8 DEF m
    <3>2. Len(wbAsked') + Len(wbAdds') <= 26
      BY <1>2, <1>4, <2>4 DEF Wb!Grouped, l
    <3>3. \A k \in 1..Len(wbAsked') : \E i \in 1..Len(wbReq'.objs) :
            /\ Wb!InGroup(wbReq'.cnts, i, k)
            /\ wbAsked'[k] = <<wbReq'.objs[i], wbReq'.props[k][1], wbReq'.props[k][2]>>
      BY <2>4, <2>9 DEF m
    <3> QED BY <1>5, <3>1, <3>2, <3>3, WbSum DEF Wb!Grouped
  <2> QED BY <1>2, <2>4, <2>5, <2>10
<1> QED BY <1>7, <1>8

\* What is asked for does not change while it is added, unless a property is
\* missing; then it becomes less.
LEMMA WbAddRequested ==
  ASSUME Wb!TypeOK, Wb!Grouped, Wb!Requested, Wb!Add
  PROVE  Wb!Requested'
<1> DEFINE e == Head(wbAdds)
           all == Range(wbAsked) \cup Range(wbAdds)
           all2 == Range(wbAsked') \cup Range(wbAdds')
<1>1. /\ wbAsked \in Seq(Wb!Calls) /\ wbAdds \in Seq(Wb!Calls) /\ wbAdds # <<>>
      /\ wbAdds' = Tail(wbAdds) /\ wbAsked' = IF e[2] \in wbMissing THEN wbAsked ELSE Append(wbAsked, e)
      /\ wbPc' = wbPc /\ wbScen' = wbScen /\ wbMissing' = wbMissing
  BY DEF Wb!TypeOK, Wb!Add, Wb!main, Wb!drm
<1>2. e \in Wb!Calls /\ Range(wbAdds) = Range(wbAdds') \cup {e}
  BY <1>1, TailQueue
<1> HIDE DEF e
<1>3. all2 \subseteq all /\ (wbMissing = {} => all2 = all)
  <2>1. CASE e[2] \in wbMissing
    BY <1>1, <1>2, <2>1
  <2>2. CASE e[2] \notin wbMissing
    <3>1. Range(wbAsked') = Range(wbAsked) \cup {e}
      BY <1>1, <1>2, <2>2, AppendQueue
    <3> QED BY <1>2, <3>1
  <2> QED BY <2>1, <2>2
<1>4. /\ wbPc = "commit" /\ ~wbScen.overlay => \A c \in all : <<c[1], c[2]>> # <<"ovl", "CRTC_ID">>
      /\ wbPc = "offcommit" /\ wbMissing = {} => all = Range(Wb!OffList(wbScen))
  BY WbRange DEF Wb!Requested
<1> HIDE DEF all, all2
<1>5. /\ wbPc' = "commit" /\ ~wbScen'.overlay => \A c \in all2 : <<c[1], c[2]>> # <<"ovl", "CRTC_ID">>
      /\ wbPc' = "offcommit" /\ wbMissing' = {} => all2 = Range(Wb!OffList(wbScen'))
  BY <1>1, <1>3, <1>4
<1> QED BY <1>5, WbRange DEF Wb!Requested, all2

\* A switch a request does not name stays as it is; one it names takes the
\* value of a call.
LEMMA WbAppliedReads ==
  ASSUME Wb!TypeOK, Wb!Grouped
  PROVE  /\ Wb!Applied(wbReq) = [s \in Wb!Switches |-> Wb!Applied(wbReq)[s]]
         /\ \A s \in Wb!Switches :
              \/ Wb!Applied(wbReq)[s] = wbKms[s] /\ \A e \in Range(wbAsked) : <<e[1], e[2]>> # s
              \/ \E e \in Range(wbAsked) : <<e[1], e[2]>> = s /\ Wb!Applied(wbReq)[s] = e[3]
<1> DEFINE at(s) == {k \in DOMAIN wbAsked : <<wbAsked[k][1], wbAsked[k][2]>> = s}
           read(s) == IF at(s) = {} THEN wbKms[s] ELSE wbAsked[CHOOSE k \in at(s) : \A j \in at(s) : j <= k][3]
<1>1. Wb!Applied(wbReq) = [s \in Wb!Switches |-> read(s)]
  BY WbDecodedIsAsked DEF Wb!Applied
<1>2. Len(wbAsked) \in Nat /\ DOMAIN wbAsked = 1..Len(wbAsked)
  BY LenProperties DEF Wb!TypeOK
<1>3. ASSUME NEW s \in Wb!Switches
      PROVE  \/ read(s) = wbKms[s] /\ \A e \in Range(wbAsked) : <<e[1], e[2]>> # s
             \/ \E e \in Range(wbAsked) : <<e[1], e[2]>> = s /\ read(s) = e[3]
  <2>1. CASE at(s) = {}
    BY <2>1 DEF Range
  <2>2. CASE at(s) # {}
    <3> DEFINE last == CHOOSE k \in at(s) : \A j \in at(s) : j <= k
    <3>1. at(s) \in SUBSET (1..Len(wbAsked))
      BY <1>2
    <3>2. \E k \in at(s) : \A j \in at(s) : j <= k
      <4> HIDE DEF at
      <4> QED BY <1>2, <2>2, <3>1, LargestElement
    <3>3. last \in at(s)
      <4> HIDE DEF at
      <4> QED BY <3>2
    <3>4. read(s) = wbAsked[last][3]
      BY <2>2
    <3> HIDE DEF last, read
    <3>5. wbAsked[last] \in Range(wbAsked) /\ <<wbAsked[last][1], wbAsked[last][2]>> = s
      BY <3>3 DEF Range
    <3> QED BY <3>4, <3>5
  <2> QED BY <2>1, <2>2
<1> HIDE DEF read
<1> QED BY <1>1, <1>3

LEMMA WbAppliedTyped ==
  ASSUME Wb!TypeOK, Wb!Grouped
  PROVE  Wb!Applied(wbReq) \in [Wb!Switches -> {0, 1}]
<1>1. \A e \in Range(wbAsked) : e[3] \in {0, 1}
  <2>1. wbAsked \in Seq(Wb!Calls) /\ DOMAIN wbAsked = 1..Len(wbAsked)
    BY LenProperties DEF Wb!TypeOK
  <2>2. \A k \in DOMAIN wbAsked : wbAsked[k] \in Wb!Calls
    BY <2>1, ElementOfSeq
  <2> QED BY <2>2 DEF Range, Wb!Calls
<1>2. \A s \in Wb!Switches : wbKms[s] \in {0, 1}
  BY DEF Wb!TypeOK
<1>3. \A s \in Wb!Switches : Wb!Applied(wbReq)[s] \in {0, 1}
  BY <1>1, <1>2, WbAppliedReads
<1>4. Wb!Applied(wbReq) = [s \in Wb!Switches |-> Wb!Applied(wbReq)[s]]
  BY WbAppliedReads
<1> QED BY <1>3, <1>4

\* Switching off leaves nothing on.
LEMMA WbOffApplied ==
  ASSUME Wb!TypeOK, Wb!Grouped, Wb!Requested, Wb!Screen, wbPc = "offcommit", wbAdds = <<>>, wbMissing = {},
           ~wbRefused
  PROVE  Wb!Applied(wbReq) = Wb!AllOff
<1>1. Range(wbAsked) = Range(Wb!OffList(wbScen))
  BY EmptyQueue, WbRange DEF Wb!Requested
<1>2. /\ \A e \in Range(wbAsked) : e[3] = 0
      /\ \A w \in Wb!Switches : (w = <<"ovl", "CRTC_ID">> => wbScen.overlay)
           => \E e \in Range(wbAsked) : <<e[1], e[2]>> = w
  BY <1>1, WbOffCalls DEF Wb!TypeOK
<1>3. ~wbScen.overlay => wbKms[<<"ovl", "CRTC_ID">>] = 0
  BY DEF Wb!Screen
<1>4. ASSUME NEW s \in Wb!Switches PROVE Wb!Applied(wbReq)[s] = 0
  <2>1. CASE \E e \in Range(wbAsked) : <<e[1], e[2]>> = s /\ Wb!Applied(wbReq)[s] = e[3]
    BY <1>2, <2>1
  <2>2. CASE Wb!Applied(wbReq)[s] = wbKms[s] /\ \A e \in Range(wbAsked) : <<e[1], e[2]>> # s
    <3>1. s = <<"ovl", "CRTC_ID">> /\ ~wbScen.overlay
      BY <1>2, <2>2, Zenon
    <3> QED BY <1>3, <2>2, <3>1
  <2> QED BY <2>1, <2>2, WbAppliedReads
<1>5. Wb!Applied(wbReq) = [s \in Wb!Switches |-> Wb!Applied(wbReq)[s]]
  BY WbAppliedReads
<1> QED BY <1>4, <1>5 DEF Wb!AllOff

\* A frame leaves the overlay off in a scenario without one.
LEMMA WbFrameApplied ==
  ASSUME Wb!TypeOK, Wb!Grouped, Wb!Requested, wbPc = "commit", wbAdds = <<>>, ~wbScen.overlay
  PROVE  Wb!Applied(wbReq)[<<"ovl", "CRTC_ID">>] = wbKms[<<"ovl", "CRTC_ID">>]
<1>1. \A e \in Range(wbAsked) : <<e[1], e[2]>> # <<"ovl", "CRTC_ID">>
  BY WbRange DEF Wb!Requested
<1>2. <<"ovl", "CRTC_ID">> \in Wb!Switches
  BY DEF Wb!Switches
<1> QED BY <1>1, <1>2, WbAppliedReads

LEMMA WbScensTyped == \A s \in Wb!Scens : s.overlay \in BOOLEAN /\ s.frames \in Nat
<1> DEFINE custom == [name : {"custom"}, mode : {0}, overlay : {FALSE}, blend : {FALSE}, frames : 0 .. 2]
           compose == [name |-> "compose", mode |-> 0, overlay |-> TRUE, blend |-> TRUE, frames |-> 1]
           upscale == [name |-> "upscale2x", mode |-> 0, overlay |-> FALSE, blend |-> FALSE, frames |-> 1]
           timing == [name |-> "timing", mode |-> 1, overlay |-> FALSE, blend |-> FALSE, frames |-> 2]
<1>1. ASSUME NEW s \in custom PROVE s.overlay \in BOOLEAN /\ s.frames \in Nat
  <2>1. s.overlay \in {FALSE} /\ s.frames \in 0 .. 2
    OBVIOUS
  <2>2. s.overlay \in BOOLEAN
    BY <2>1, Zenon
  <2> QED BY <2>1, <2>2
<1>2. compose.overlay \in BOOLEAN /\ compose.frames \in Nat
  OBVIOUS
<1>3. upscale.overlay \in BOOLEAN /\ upscale.frames \in Nat
  OBVIOUS
<1>4. timing.overlay \in BOOLEAN /\ timing.frames \in Nat
  OBVIOUS
<1>5. Wb!Scens = {compose, upscale, timing} \cup custom
  BY DEF Wb!Scens
<1> HIDE DEF custom, compose, upscale, timing
<1> QED BY <1>1, <1>2, <1>3, <1>4, <1>5

LEMMA WbNoRequest ==
  /\ Wb!Empty \in [objs : Seq(Wb!Objects), cnts : Seq(Nat), props : Seq(Wb!Properties \X {0, 1})]
  /\ <<>> \in Seq(Wb!Calls)
<1>1. /\ <<>> \in Seq(Wb!Objects) /\ <<>> \in Seq(Nat) /\ <<>> \in Seq(Wb!Properties \X {0, 1})
      /\ <<>> \in Seq(Wb!Calls)
  BY EmptySeq
<1>2. \A o \in Seq(Wb!Objects), c \in Seq(Nat), q \in Seq(Wb!Properties \X {0, 1}) :
        [objs |-> o, cnts |-> c, props |-> q] \in
          [objs : Seq(Wb!Objects), cnts : Seq(Nat), props : Seq(Wb!Properties \X {0, 1})]
  OBVIOUS
<1> QED BY <1>1, <1>2, Zenon DEF Wb!Empty

LEMMA WbTypeStep ==
  ASSUME Wb!TypeOK, Wb!Grouped, [Wb!Next]_(Wb!vars)
  PROVE  Wb!TypeOK'
<1> DEFINE reqType == [objs : Seq(Wb!Objects), cnts : Seq(Nat), props : Seq(Wb!Properties \X {0, 1})]
           TypeOf(r, a, d) == r \in reqType /\ a \in Seq(Wb!Calls) /\ d \in Seq(Wb!Calls)
           Rest == /\ wbPc \in {"main", "next", "mkbuf", "frame", "commit", "poll", "save", "off", "offcommit",
                                "destroy", "exit", "crash"}
                   /\ wbScen.overlay \in BOOLEAN /\ wbScen.frames \in Nat
                   /\ wbRuns \in Nat /\ wbFails \in Nat /\ wbF \in Nat /\ wbRet \in {0, -1} /\
                        wbRefused \in BOOLEAN
           KmsOK == wbKms \in [Wb!Switches -> {0, 1}]
<1>1. Rest /\ KmsOK /\ TypeOf(wbReq, wbAsked, wbAdds)
  BY DEF Wb!TypeOK
<1>2. TypeOf(Wb!Empty, <<>>, <<>>)
  BY WbNoRequest
<1>3. Wb!Applied(wbReq) \in [Wb!Switches -> {0, 1}]
  BY WbAppliedTyped
<1>4. Rest' /\ KmsOK' /\ TypeOf(wbReq', wbAsked', wbAdds') => Wb!TypeOK'
  BY DEF Wb!TypeOK
<1> HIDE DEF reqType, TypeOf, KmsOK
<1>5. TypeOf(wbReq, wbAsked, wbAdds) /\ UNCHANGED Wb!reqv => TypeOf(wbReq', wbAsked', wbAdds')
  BY DEF Wb!reqv
<1>6. UNCHANGED wbKms => KmsOK'
  BY <1>1 DEF KmsOK
<1>10. CASE UNCHANGED Wb!vars
  BY <1>1, <1>4, <1>5, <1>6, <1>10 DEF Wb!vars, Wb!reqv
<1>11. CASE Wb!FindResources
  BY <1>1, <1>4, <1>5, <1>6, <1>11 DEF Wb!FindResources, Wb!job
<1>12. CASE Wb!RunScenario
  BY <1>1, <1>4, <1>5, <1>6, <1>12, WbScensTyped DEF Wb!RunScenario, Wb!drm
<1>13. CASE Wb!Mkbuf
  BY <1>1, <1>4, <1>5, <1>6, <1>13 DEF Wb!Mkbuf, Wb!drm
<1>14. CASE Wb!Blob
  BY <1>1, <1>4, <1>5, <1>6, <1>14 DEF Wb!Blob, Wb!drm
<1>15. CASE Wb!BuildFrame
  <2>1. wbAdds' \in Seq(Wb!Calls)
    <3>1. \A k, known : Wb!FrameList(wbScen, k, known) \in Seq(Wb!Calls)
      BY <1>1, WbFrameCalls
    <3>2. \/ \E known \in BOOLEAN : wbAdds' = Wb!FrameList(wbScen, wbF, known /\ "blend" \notin wbMissing)
          \/ wbAdds' = wbAdds
      BY <1>15 DEF Wb!BuildFrame
    <3> QED BY <1>1, <3>1, <3>2 DEF TypeOf
  <2>2. TypeOf(wbReq', wbAsked', wbAdds')
    BY <1>1, <1>15, <2>1 DEF Wb!BuildFrame, TypeOf
  <2> QED BY <1>1, <1>4, <1>6, <1>15, <2>2 DEF Wb!BuildFrame, Wb!main, Wb!drm, Wb!job
<1>16. CASE Wb!Add
  <2>1. TypeOf(wbReq', wbAsked', wbAdds')
    BY <1>16, WbAddStep DEF TypeOf, reqType
  <2> QED BY <1>1, <1>4, <1>6, <1>16, <2>1 DEF Wb!Add, Wb!main, Wb!drm, Wb!job
<1>17. CASE Wb!CommitFrame
  <2>1. TypeOf(wbReq', wbAsked', wbAdds')
    BY <1>2, <1>17 DEF Wb!CommitFrame
  <2>2. KmsOK'
    BY <1>3, <1>6, <1>17 DEF Wb!CommitFrame, KmsOK
  <2> QED BY <1>1, <1>4, <1>17, <2>1, <2>2 DEF Wb!CommitFrame, Wb!main
<1>18. CASE Wb!Poll
  BY <1>1, <1>4, <1>5, <1>6, <1>18 DEF Wb!Poll, Wb!main, Wb!drm
<1>19. CASE Wb!Save
  BY <1>1, <1>4, <1>5, <1>6, <1>19 DEF Wb!Save, Wb!main, Wb!drm
<1>20. CASE Wb!SwitchOff
  <2>1. wbAdds' \in Seq(Wb!Calls)
    BY <1>1, <1>20, WbOffCalls DEF Wb!SwitchOff
  <2>2. TypeOf(wbReq', wbAsked', wbAdds')
    BY <1>1, <1>20, <2>1 DEF Wb!SwitchOff, TypeOf
  <2> QED BY <1>1, <1>4, <1>6, <1>20, <2>2 DEF Wb!SwitchOff, Wb!main, Wb!drm, Wb!job
<1>21. CASE Wb!OffCommit
  <2>1. TypeOf(wbReq', wbAsked', wbAdds')
    BY <1>2, <1>21 DEF Wb!OffCommit
  <2>2. KmsOK'
    BY <1>3, <1>6, <1>21 DEF Wb!OffCommit, KmsOK
  <2> QED BY <1>1, <1>4, <1>21, <2>1, <2>2 DEF Wb!OffCommit, Wb!main, Wb!job
<1>22. CASE Wb!Destroy
  BY <1>1, <1>4, <1>5, <1>6, <1>22 DEF Wb!Destroy, Wb!drm, Wb!job
<1>23. CASE Wb!Exit
  BY <1>1, <1>4, <1>5, <1>6, <1>23 DEF Wb!Exit, Wb!main, Wb!drm, Wb!job
<1>24. CASE Wb!Signal
  BY <1>1, <1>4, <1>5, <1>6, <1>24 DEF Wb!Signal, Wb!main, Wb!drm
<1> QED BY <1>10, <1>11, <1>12, <1>13, <1>14, <1>15, <1>16, <1>17, <1>18, <1>19, <1>20, <1>21,
           <1>22, <1>23, <1>24 DEF Wb!Next, Wb!Program

\* Before anything is added there is nothing to group.
LEMMA WbFreshRequest ==
  ASSUME NEW d, d \in Seq(Wb!Calls), Len(d) <= 26,
         wbReq' = Wb!Empty, wbAsked' = <<>>, wbAdds' = d, wbPc' \in {"commit", "offcommit"} \/ d = <<>>
  PROVE  Wb!Grouped'
<1>1. /\ Len(Wb!Empty.cnts) = 0 /\ Len(Wb!Empty.objs) = 0 /\ Len(Wb!Empty.props) = 0
      /\ Wb!Empty.cnts = <<>>
  BY DEF Wb!Empty
<1>2. Sum(Wb!Empty.cnts, 0) = 0
  <2>1. 0 \in Nat /\ \A k \in 1..0 : Wb!Empty.cnts[k] \in Int
    OBVIOUS
  <2> QED BY <2>1, SumSteps
<1>3. Len(d) \in Nat /\ Len(<<>>) = 0 /\ 1..Len(<<>>) = {}
  BY LenProperties
<1> QED BY <1>1, <1>2, <1>3, WbSum DEF Wb!Grouped

\* The request is grouped, and asks for what it should.
LEMMA WbRequestStep ==
  ASSUME Wb!TypeOK, Wb!Grouped, Wb!Requested, [Wb!Next]_(Wb!vars)
  PROVE  Wb!Grouped' /\ Wb!Requested'
<1> DEFINE Building == {"commit", "offcommit"}
<1>1. wbPc \notin Building => wbReq = Wb!Empty /\ wbAsked = <<>> /\ wbAdds = <<>>
  BY DEF Wb!Grouped
<1>2. wbScen.overlay \in BOOLEAN
  BY DEF Wb!TypeOK
<1>3. ASSUME wbPc \notin Building, wbPc' \notin Building, UNCHANGED Wb!reqv PROVE Wb!Grouped' /\ Wb!Requested'
  <2>1. <<>> \in Seq(Wb!Calls) /\ Len(<<>>) <= 26
    BY WbNoRequest
  <2>2. Wb!Grouped'
    BY <1>1, <1>3, <2>1, WbFreshRequest DEF Wb!reqv
  <2> QED BY <1>3, <2>2 DEF Wb!Requested
<1>4. ASSUME wbPc \notin Building, wbPc' \in Building, NEW d \in Seq(Wb!Calls), Len(d) <= 26,
             wbReq' = wbReq, wbAsked' = wbAsked, wbAdds' = d
      PROVE  Wb!Grouped' /\ Range(wbAsked') \cup Range(wbAdds') = Range(d)
  <2>1. Wb!Grouped'
    BY <1>1, <1>4, WbFreshRequest
  <2>2. wbAsked' = <<>>
    BY <1>1, <1>4
  <2> QED BY <1>4, <2>1, <2>2, EmptyQueue
<1>5. ASSUME wbReq' = Wb!Empty, wbAsked' = <<>>, wbAdds = <<>>, wbAdds' = wbAdds, wbPc' \notin Building
      PROVE  Wb!Grouped' /\ Wb!Requested'
  <2>1. <<>> \in Seq(Wb!Calls) /\ Len(<<>>) <= 26
    BY WbNoRequest
  <2>2. Wb!Grouped'
    BY <1>5, <2>1, WbFreshRequest
  <2> QED BY <1>5, <2>2 DEF Wb!Requested
<1>10. CASE UNCHANGED Wb!vars
  BY <1>10 DEF Wb!vars, Wb!Grouped, Wb!Requested, Wb!InGroup
<1>11. CASE Wb!FindResources
  BY <1>3, <1>11 DEF Wb!FindResources
<1>12. CASE Wb!RunScenario
  BY <1>3, <1>12 DEF Wb!RunScenario
<1>13. CASE Wb!Mkbuf
  BY <1>3, <1>13 DEF Wb!Mkbuf
<1>14. CASE Wb!Blob
  BY <1>3, <1>14 DEF Wb!Blob
<1>15. CASE Wb!BuildFrame
  <2>1. CASE wbF < wbScen.frames
    <3>1. PICK known \in BOOLEAN : wbAdds' = Wb!FrameList(wbScen, wbF, known /\ "blend" \notin wbMissing)
      BY <1>15, <2>1 DEF Wb!BuildFrame
    <3>2. /\ wbAdds' \in Seq(Wb!Calls) /\ Len(wbAdds') <= 26
          /\ ~wbScen.overlay => \A e \in Range(wbAdds') : <<e[1], e[2]>> # <<"ovl", "CRTC_ID">>
      BY <1>2, <3>1, WbFrameCalls
    <3>3. wbPc = "frame" /\ wbPc' = "commit" /\ wbReq' = wbReq /\ wbAsked' = wbAsked /\ wbScen' = wbScen
      BY <1>15, <2>1 DEF Wb!BuildFrame, Wb!main
    <3>4. Wb!Grouped' /\ Range(wbAsked') \cup Range(wbAdds') = Range(wbAdds')
      BY <1>4, <3>2, <3>3
    <3> QED BY <3>2, <3>3, <3>4, WbRange DEF Wb!Requested
  <2>2. CASE ~(wbF < wbScen.frames)
    BY <1>3, <1>15, <2>2 DEF Wb!BuildFrame, Wb!reqv
  <2> QED BY <2>1, <2>2
<1>16. CASE Wb!Add
  BY <1>16, WbAddStep, WbAddRequested
<1>17. CASE Wb!CommitFrame
  <2>1. wbReq' = Wb!Empty /\ wbAsked' = <<>> /\ wbAdds = <<>> /\ wbAdds' = wbAdds /\ wbPc' \notin Building
    BY <1>17 DEF Wb!CommitFrame
  <2> QED BY <1>5, <2>1
<1>18. CASE Wb!Poll
  BY <1>3, <1>18 DEF Wb!Poll
<1>19. CASE Wb!Save
  BY <1>3, <1>19 DEF Wb!Save
<1>20. CASE Wb!SwitchOff
  <2>1. Wb!OffList(wbScen) \in Seq(Wb!Calls) /\ Len(Wb!OffList(wbScen)) <= 7
    BY <1>2, WbOffCalls
  <2>2. /\ wbPc = "off" /\ wbPc' = "offcommit" /\ wbReq' = wbReq /\ wbAsked' = wbAsked
        /\ wbAdds' = Wb!OffList(wbScen) /\ wbScen' = wbScen
    BY <1>20 DEF Wb!SwitchOff, Wb!main
  <2>2a. Len(Wb!OffList(wbScen)) <= 26
    BY <2>1, LenProperties
  <2>3. Wb!Grouped' /\ Range(wbAsked') \cup Range(wbAdds') = Range(Wb!OffList(wbScen'))
    BY <1>4, <2>1, <2>2, <2>2a
  <2> QED BY <2>2, <2>3, WbRange DEF Wb!Requested
<1>21. CASE Wb!OffCommit
  <2>1. wbReq' = Wb!Empty /\ wbAsked' = <<>> /\ wbAdds = <<>> /\ wbAdds' = wbAdds /\ wbPc' \notin Building
    BY <1>21 DEF Wb!OffCommit
  <2> QED BY <1>5, <2>1
<1>22. CASE Wb!Destroy
  BY <1>3, <1>22 DEF Wb!Destroy
<1>23. CASE Wb!Exit
  BY <1>3, <1>23 DEF Wb!Exit
<1>24. CASE Wb!Signal
  <2>1. UNCHANGED <<wbPc, wbReq, wbAdds, wbAsked, wbScen, wbMissing>>
    BY <1>24 DEF Wb!Signal, Wb!reqv, Wb!main, Wb!drm
  <2> QED BY <2>1 DEF Wb!Grouped, Wb!Requested, Wb!InGroup
<1> QED BY <1>10, <1>11, <1>12, <1>13, <1>14, <1>15, <1>16, <1>17, <1>18, <1>19, <1>20, <1>21,
           <1>22, <1>23, <1>24 DEF Wb!Next, Wb!Program

\* Between scenarios everything is off.
LEMMA WbScreenStep ==
  ASSUME Wb!TypeOK, Wb!Grouped, Wb!Requested, Wb!Screen, [Wb!Next]_(Wb!vars)
  PROVE  Wb!Screen'
<1> DEFINE Quiet == {"main", "next", "mkbuf", "destroy", "exit"}
           OvlOff == wbKms[<<"ovl", "CRTC_ID">>] = 0
<1>1. /\ wbPc = "main" => wbMissing = {}
      /\ wbMissing = {} /\ ~wbRefused => /\ wbPc \in Quiet => wbKms = Wb!AllOff
                                         /\ ~wbScen.overlay => OvlOff
  BY DEF Wb!Screen
<1>2. ASSUME /\ wbPc' = "main" => wbMissing' = {}
             /\ wbMissing' = {} /\ ~wbRefused' => /\ wbPc' \in Quiet => wbKms' = Wb!AllOff
                                                  /\ ~wbScen'.overlay => OvlOff'
      PROVE  Wb!Screen'
  BY <1>2 DEF Wb!Screen
<1>3. wbKms = Wb!AllOff => OvlOff
  BY DEF Wb!AllOff, Wb!Switches
<1>4. UNCHANGED wbKms => (OvlOff' <=> OvlOff)
  OBVIOUS
<1> HIDE DEF OvlOff, Quiet
<1>5. /\ {"main", "next", "mkbuf", "destroy"} \subseteq Quiet
      /\ \A s \in {"frame", "commit", "poll", "save", "off", "offcommit", "crash"} : s \notin Quiet
      /\ \A s : s \in Quiet => s \in {"main", "next", "mkbuf", "destroy", "exit"}
  BY DEF Quiet
<1>6. ASSUME UNCHANGED <<wbKms, wbRefused, wbMissing, wbScen>>, wbPc' # "main", wbPc' \in Quiet =>
               wbPc \in Quiet
      PROVE  Wb!Screen'
  BY <1>1, <1>2, <1>4, <1>6
<1>10. CASE UNCHANGED Wb!vars
  BY <1>1, <1>2, <1>4, <1>10 DEF Wb!vars
<1>11. CASE Wb!FindResources
  <2>1. wbPc' # "main" /\ wbPc \in Quiet /\ UNCHANGED <<wbKms, wbRefused, wbScen>> /\ wbMissing = {}
    BY <1>1, <1>5, <1>11 DEF Wb!FindResources
  <2> QED BY <1>1, <1>2, <1>4, <2>1
<1>12. CASE Wb!RunScenario
  <2>1. wbPc = "next" /\ wbPc' = "mkbuf" /\ UNCHANGED <<wbKms, wbRefused, wbMissing>>
    BY <1>12 DEF Wb!RunScenario, Wb!drm
  <2> QED BY <1>1, <1>2, <1>3, <1>4, <1>5, <2>1
<1>13. CASE Wb!Mkbuf
  <2>1. wbPc = "mkbuf" /\ wbPc' # "main" /\ UNCHANGED <<wbKms, wbRefused, wbMissing, wbScen>>
    BY <1>13 DEF Wb!Mkbuf, Wb!drm
  <2> QED BY <1>5, <1>6, <2>1
<1>14. CASE Wb!Blob
  <2>1. wbPc = "mkbuf" /\ wbPc' # "main" /\ UNCHANGED <<wbKms, wbRefused, wbMissing, wbScen>>
    BY <1>14 DEF Wb!Blob, Wb!drm
  <2> QED BY <1>5, <1>6, <2>1
<1>15. CASE Wb!BuildFrame
  <2>1. wbPc' \in {"commit", "save"} /\ UNCHANGED <<wbKms, wbRefused, wbMissing, wbScen>>
    BY <1>15 DEF Wb!BuildFrame, Wb!drm, Wb!main
  <2> QED BY <1>5, <1>6, <2>1
<1>16. CASE Wb!Add
  <2>1. wbPc' = wbPc /\ wbPc # "main" /\ UNCHANGED <<wbKms, wbRefused, wbMissing, wbScen>>
    BY <1>16 DEF Wb!Add, Wb!drm, Wb!main, Wb!Grouped
  <2> QED BY <1>6, <2>1
<1>17. CASE Wb!CommitFrame
  <2>1. /\ wbPc = "commit" /\ wbAdds = <<>> /\ wbPc' \in {"poll", "save"} /\
             UNCHANGED <<wbRefused, wbMissing, wbScen>>
        /\ wbKms' = wbKms \/ wbKms' = Wb!Applied(wbReq)
    BY <1>17 DEF Wb!CommitFrame, Wb!main
  <2>2. ~wbScen.overlay => (OvlOff' <=> OvlOff)
    BY <2>1, WbFrameApplied DEF OvlOff
  <2> QED BY <1>1, <1>2, <1>5, <2>1, <2>2
<1>18. CASE Wb!Poll
  <2>1. wbPc' \in {"frame", "save"} /\ UNCHANGED <<wbKms, wbRefused, wbMissing, wbScen>>
    BY <1>18 DEF Wb!Poll, Wb!drm, Wb!main
  <2> QED BY <1>5, <1>6, <2>1
<1>19. CASE Wb!Save
  <2>1. wbPc' \in {"off", "crash"} /\ UNCHANGED <<wbKms, wbRefused, wbMissing, wbScen>>
    BY <1>19 DEF Wb!Save, Wb!drm, Wb!main
  <2> QED BY <1>5, <1>6, <2>1
<1>20. CASE Wb!SwitchOff
  <2>1. wbPc' = "offcommit" /\ UNCHANGED <<wbKms, wbRefused, wbMissing, wbScen>>
    BY <1>20 DEF Wb!SwitchOff, Wb!drm, Wb!main
  <2> QED BY <1>5, <1>6, <2>1
<1>21. CASE Wb!OffCommit
  <2>1. /\ wbPc = "offcommit" /\ wbAdds = <<>> /\ wbPc' = "destroy" /\ UNCHANGED <<wbMissing, wbScen>>
        /\ \/ wbKms' = Wb!Applied(wbReq) /\ wbRefused' = wbRefused
           \/ wbRefused' = TRUE
    BY <1>21 DEF Wb!OffCommit, Wb!main
  <2>2. wbMissing = {} /\ ~wbRefused => Wb!Applied(wbReq) = Wb!AllOff
    BY <2>1, WbOffApplied
  <2>3. wbKms' = Wb!AllOff => OvlOff'
    BY DEF OvlOff, Wb!AllOff, Wb!Switches
  <2> QED BY <1>2, <2>1, <2>2, <2>3
<1>22. CASE Wb!Destroy
  <2>1. wbPc = "destroy" /\ wbPc' = "next" /\ UNCHANGED <<wbKms, wbRefused, wbMissing, wbScen>>
    BY <1>22 DEF Wb!Destroy, Wb!drm
  <2>2. wbScen' = wbScen
    BY <1>22 DEF Wb!Destroy
  <2> QED BY <1>5, <1>6, <2>1, <2>2
<1>23. CASE Wb!Exit
  <2>1. wbPc = "next" /\ wbPc' = "exit" /\ UNCHANGED <<wbKms, wbRefused, wbMissing, wbScen>>
    BY <1>23 DEF Wb!Exit, Wb!drm, Wb!main
  <2> QED BY <1>5, <1>6, <2>1
<1>24. CASE Wb!Signal
  <2>1. UNCHANGED <<wbPc, wbKms, wbRefused, wbMissing, wbScen>>
    BY <1>24 DEF Wb!Signal, Wb!drm, Wb!main
  <2> QED BY <1>1, <1>2, <1>4, <2>1
<1> QED BY <1>10, <1>11, <1>12, <1>13, <1>14, <1>15, <1>16, <1>17, <1>18, <1>19, <1>20, <1>21,
           <1>22, <1>23, <1>24 DEF Wb!Next, Wb!Program

\* A picture is counted, and saved, when its fence told that it is there.
LEMMA WbCapturedStep ==
  ASSUME Wb!TypeOK, Wb!Grouped, Wb!Captured, Wb!SavedIsCaptured, [Wb!Next]_(Wb!vars)
  PROVE  Wb!Captured' /\ Wb!SavedIsCaptured'
<1>0. /\ wbF \in Nat /\ wbScen.frames \in Nat /\ wbRet \in {0, -1}
      /\ wbPc = "mkbuf" => wbF = 0
      /\ wbFence = "signalled" => wbWb = "frame"
      /\ wbPc \in {"frame", "save"} /\ wbRet = 0 /\ wbF > 0 => wbWb = "frame"
      /\ wbPc = "save" /\ wbRet = 0 => wbF >= wbScen.frames
  BY DEF Wb!TypeOK, Wb!Captured
<1>1. wbSaved' = wbSaved => Wb!SavedIsCaptured'
  BY DEF Wb!SavedIsCaptured
<1>2. ASSUME UNCHANGED <<wbRet, wbF, wbFence, wbWb, wbSaved>>, wbPc' \notin {"mkbuf", "frame", "save"}
      PROVE  Wb!Captured' /\ Wb!SavedIsCaptured'
  BY <1>0, <1>1, <1>2 DEF Wb!Captured
<1>10. CASE UNCHANGED Wb!vars
  BY <1>10 DEF Wb!vars, Wb!Captured, Wb!SavedIsCaptured
<1>11. CASE Wb!FindResources
  BY <1>2, <1>11 DEF Wb!FindResources, Wb!job
<1>12. CASE Wb!RunScenario
  BY <1>1, <1>12 DEF Wb!RunScenario, Wb!Captured
<1>13. CASE Wb!Mkbuf
  BY <1>0, <1>1, <1>13 DEF Wb!Mkbuf, Wb!Captured
<1>14. CASE Wb!Blob
  <2>1. wbPc' \in {"frame", "next"} /\ UNCHANGED <<wbF, wbFence, wbWb, wbSaved, wbScen>> /\
          (wbPc' = "frame" => wbF = 0)
    BY <1>0, <1>14 DEF Wb!Blob
  <2> QED BY <1>0, <1>1, <2>1 DEF Wb!Captured
<1>15. CASE Wb!BuildFrame
  <2>1. /\ wbPc = "frame" /\ UNCHANGED <<wbF, wbRet, wbFence, wbWb, wbSaved, wbScen>>
        /\ IF wbF < wbScen.frames THEN wbPc' = "commit" ELSE wbPc' = "save"
    BY <1>15 DEF Wb!BuildFrame, Wb!job, Wb!main
  <2> QED BY <1>0, <1>1, <2>1 DEF Wb!Captured
<1>16. CASE Wb!Add
  <2>1. UNCHANGED <<wbPc, wbRet, wbF, wbFence, wbWb, wbSaved, wbScen>>
    BY <1>16 DEF Wb!Add, Wb!job, Wb!main
  <2> QED BY <1>0, <1>1, <2>1 DEF Wb!Captured
<1>17. CASE Wb!CommitFrame
  BY <1>0, <1>1, <1>17 DEF Wb!CommitFrame, Wb!Captured, Wb!main
<1>18. CASE Wb!Poll
  BY <1>0, <1>1, <1>18 DEF Wb!Poll, Wb!Captured, Wb!main
<1>19. CASE Wb!Save
  <2>1. wbPc' \in {"off", "crash"} /\ UNCHANGED <<wbF, wbRet, wbFence, wbWb>>
    BY <1>19 DEF Wb!Save
  <2>2. Wb!Captured'
    BY <1>0, <2>1 DEF Wb!Captured
  <2>3. CASE wbSaved' = wbSaved
    BY <1>1, <2>2, <2>3
  <2>4. CASE wbRet = 0 /\ wbSaved' = wbSaved \cup {<<wbWb, wbScen.frames>>}
    <3>1. wbScen.frames > 0 => wbWb = "frame"
      BY <1>0, <1>19, <2>4 DEF Wb!Save
    <3>2. Wb!SavedIsCaptured'
      BY <2>4, <3>1 DEF Wb!SavedIsCaptured
    <3> QED BY <2>2, <3>2
  <2> QED BY <1>19, <2>3, <2>4 DEF Wb!Save
<1>20. CASE Wb!SwitchOff
  BY <1>2, <1>20 DEF Wb!SwitchOff, Wb!job
<1>21. CASE Wb!OffCommit
  BY <1>2, <1>21 DEF Wb!OffCommit, Wb!job
<1>22. CASE Wb!Destroy
  BY <1>2, <1>22 DEF Wb!Destroy, Wb!job
<1>23. CASE Wb!Exit
  BY <1>2, <1>23 DEF Wb!Exit, Wb!job
<1>24. CASE Wb!Signal
  <2>1. UNCHANGED <<wbPc, wbRet, wbF, wbSaved, wbScen>> /\ wbWb' = "frame"
    BY <1>24 DEF Wb!Signal, Wb!main
  <2> QED BY <1>0, <1>1, <2>1 DEF Wb!Captured
<1> QED BY <1>10, <1>11, <1>12, <1>13, <1>14, <1>15, <1>16, <1>17, <1>18, <1>19, <1>20, <1>21,
           <1>22, <1>23, <1>24 DEF Wb!Next, Wb!Program

\* What is left with the kernel is of scenarios that failed.
LEMMA WbLeftStep ==
  ASSUME Wb!TypeOK, Wb!Grouped, Wb!Left, [Wb!Next]_(Wb!vars)
  PROVE  Wb!Left'
<1> DEFINE Ended == {"next", "exit"}
           Others == Wb!Kept \ {wbRuns}
<1>0. wbRuns \in Nat /\ wbFails \in Nat
  BY DEF Wb!TypeOK
<1>1. /\ Wb!Kept \subseteq 1..wbRuns /\ (wbPc = "main" => Wb!Kept = {})
      /\ wbPc \in Ended => Cardinality(Wb!Kept) <= wbFails
      /\ wbPc \notin Ended => Cardinality(Others) <= wbFails
      /\ wbPc \notin {"main", "next", "exit"} => wbRuns > 0
  BY WbCount DEF Wb!Left
<1>2. /\ IsFiniteSet(Wb!Kept) /\ IsFiniteSet(Others)
      /\ Cardinality(Wb!Kept) \in Nat /\ Cardinality(Others) \in Nat
      /\ Cardinality(Others) <= Cardinality(Wb!Kept)
  <2>1. IsFiniteSet(1..wbRuns)
    BY <1>0, FS_Interval
  <2>2. IsFiniteSet(Wb!Kept)
    BY <1>1, <2>1, FS_Subset
  <2>3. IsFiniteSet(Others) /\ Cardinality(Others) <= Cardinality(Wb!Kept)
    BY <2>2, FS_Subset
  <2> QED BY <2>2, <2>3, FS_CardinalityType
<1>3. ASSUME /\ Wb!Kept' \subseteq 1..wbRuns' /\ (wbPc' = "main" => Wb!Kept' = {})
             /\ wbPc' \in Ended => Cardinality(Wb!Kept') <= wbFails'
             /\ wbPc' \notin Ended => Cardinality(Wb!Kept' \ {wbRuns'}) <= wbFails'
             /\ wbPc' \notin {"main", "next", "exit"} => wbRuns' > 0
      PROVE  Wb!Left'
  BY <1>3, WbCount DEF Wb!Left
<1>4. UNCHANGED <<wbBufs, wbBlob>> => Wb!Kept' = Wb!Kept
  BY DEF Wb!Kept
<1>5. ASSUME UNCHANGED <<wbBufs, wbBlob, wbRuns, wbFails>>, wbPc # "main", wbPc' # "main",
             wbPc \in Ended <=> wbPc' \in Ended
      PROVE  Wb!Left'
  BY <1>1, <1>3, <1>4, <1>5
<1>6. ASSUME Wb!Kept' \subseteq Wb!Kept \cup {wbRuns}, Wb!Kept \subseteq Wb!Kept' \cup {wbRuns},
               wbRuns' = wbRuns, wbRuns > 0,
             wbPc \notin Ended, wbPc' # "main",
             \/ wbFails' = wbFails + 1
             \/ wbFails' = wbFails /\ wbPc' \notin Ended
      PROVE  Wb!Left'
  <2>1. Wb!Kept' \subseteq 1..wbRuns'
    BY <1>0, <1>1, <1>6
  <2>2. Wb!Kept' \ {wbRuns'} = Others
    BY <1>6
  <2>3. Cardinality(Wb!Kept') <= Cardinality(Others) + 1
    <3>1. Wb!Kept' \subseteq Others \cup {wbRuns}
      BY <1>6
    <3>2. IsFiniteSet(Others \cup {wbRuns}) /\ Cardinality(Others \cup {wbRuns}) = Cardinality(Others) + 1
      BY <1>2, FS_AddElement
    <3>3. IsFiniteSet(Wb!Kept') /\ Cardinality(Wb!Kept') <= Cardinality(Others \cup {wbRuns})
      BY <3>1, <3>2, FS_Subset
    <3> QED BY <3>2, <3>3
  <2>4. Cardinality(Wb!Kept') \in Nat
    <3>1. IsFiniteSet(1..wbRuns')
      BY <1>0, <1>6, FS_Interval
    <3>2. IsFiniteSet(Wb!Kept')
      BY <2>1, <3>1, FS_Subset
    <3> QED BY <3>2, FS_CardinalityType
  <2>5. wbPc' \in Ended => Cardinality(Wb!Kept') <= wbFails'
    BY <1>0, <1>1, <1>2, <1>6, <2>3, <2>4
  <2>6. Cardinality(Wb!Kept' \ {wbRuns'}) <= wbFails'
    <3>1. Cardinality(Others) <= wbFails
      BY <1>1, <1>6
    <3>2. Cardinality(Others) \in Nat
      BY <1>2
    <3> HIDE DEF Others
    <3>3. Cardinality(Others) <= wbFails'
      BY <1>0, <1>6, <3>1, <3>2
    <3> QED BY <2>2, <3>3
  <2> QED BY <1>3, <1>6, <2>1, <2>5, <2>6
<1>10. CASE UNCHANGED Wb!vars
  <2>1. UNCHANGED <<wbPc, wbBufs, wbBlob, wbRuns, wbFails>>
    BY <1>10 DEF Wb!vars
  <2> QED BY <1>1, <1>3, <1>4, <2>1
<1>11. CASE Wb!FindResources
  <2>1. /\ wbPc = "main" /\ wbPc' \in Ended /\ wbFails' \in Nat /\ wbRuns' = wbRuns /\
             UNCHANGED <<wbBufs, wbBlob>>
    BY <1>0, <1>11 DEF Wb!FindResources, Wb!bufv
  <2>2. Wb!Kept' = {} /\ Cardinality(Wb!Kept') = 0
    BY <1>1, <1>4, <2>1, FS_EmptySet
  <2> QED BY <1>3, <2>1, <2>2
<1>12. CASE Wb!RunScenario
  <2>1. wbPc = "next" /\ wbPc' = "mkbuf" /\ wbRuns' = wbRuns + 1 /\ UNCHANGED <<wbFails, wbBufs, wbBlob>>
    BY <1>12 DEF Wb!RunScenario
  <2>2. Wb!Kept' = Wb!Kept /\ Wb!Kept \subseteq 1..wbRuns
    BY <1>1, <1>4, <2>1
  <2>3. wbRuns + 1 \notin 1..wbRuns /\ 1..wbRuns \subseteq 1..(wbRuns + 1)
    BY <1>0
  <2>4. Wb!Kept' \ {wbRuns'} = Wb!Kept /\ Wb!Kept' \subseteq 1..wbRuns' /\ wbRuns' > 0
    BY <1>0, <2>1, <2>2, <2>3
  <2> QED BY <1>1, <1>3, <2>1, <2>2, <2>4
<1>13. CASE Wb!Mkbuf
  <2>1. PICK parts : wbBufs' = wbBufs \cup {<<Head(wbTodo), wbRuns, part>> : part \in parts}
    BY <1>13 DEF Wb!Mkbuf
  <2>2. Wb!Kept \subseteq Wb!Kept' /\ Wb!Kept' \subseteq Wb!Kept \cup {wbRuns}
    BY <1>13, <2>1 DEF Wb!Kept, Wb!Mkbuf
  <2>3. /\ wbPc = "mkbuf" /\ wbRuns' = wbRuns
        /\ \/ wbPc' = wbPc /\ wbFails' = wbFails
           \/ wbPc' = "next" /\ wbFails' = wbFails + 1
    BY <1>13 DEF Wb!Mkbuf
  <2> QED BY <1>1, <1>6, <2>2, <2>3
<1>14. CASE Wb!Blob
  <2>1. Wb!Kept \subseteq Wb!Kept' /\ Wb!Kept' \subseteq Wb!Kept \cup {wbRuns}
    BY <1>14 DEF Wb!Kept, Wb!Blob
  <2>2. /\ wbPc = "mkbuf" /\ wbRuns' = wbRuns
        /\ \/ wbPc' = "frame" /\ wbFails' = wbFails
           \/ wbPc' = "next" /\ wbFails' = wbFails + 1
    BY <1>14 DEF Wb!Blob
  <2> QED BY <1>1, <1>6, <2>1, <2>2
<1>15. CASE Wb!BuildFrame
  BY <1>5, <1>15 DEF Wb!BuildFrame, Wb!main, Wb!bufv
<1>16. CASE Wb!Add
  <2>1. wbPc' = wbPc /\ wbPc # "main" /\ UNCHANGED <<wbBufs, wbBlob, wbRuns, wbFails>>
    BY <1>16 DEF Wb!Add, Wb!main, Wb!bufv, Wb!Grouped
  <2> QED BY <1>5, <2>1
<1>17. CASE Wb!CommitFrame
  BY <1>5, <1>17 DEF Wb!CommitFrame, Wb!main, Wb!bufv
<1>18. CASE Wb!Poll
  BY <1>5, <1>18 DEF Wb!Poll, Wb!main, Wb!bufv
<1>19. CASE Wb!Save
  BY <1>5, <1>19 DEF Wb!Save, Wb!main, Wb!bufv
<1>20. CASE Wb!SwitchOff
  BY <1>5, <1>20 DEF Wb!SwitchOff, Wb!main, Wb!bufv
<1>21. CASE Wb!OffCommit
  BY <1>5, <1>21 DEF Wb!OffCommit, Wb!main, Wb!bufv
<1>22. CASE Wb!Destroy
  <2>1. /\ wbPc = "destroy" /\ wbPc' = "next" /\ wbRuns' = wbRuns /\
             (wbFails' = wbFails \/ wbFails' = wbFails + 1)
    BY <1>22 DEF Wb!Destroy
  <2>2. Wb!Kept' = Others
    BY <1>22 DEF Wb!Kept, Wb!Destroy
  <2> QED BY <1>0, <1>1, <1>2, <1>3, <2>1, <2>2
<1>23. CASE Wb!Exit
  <2>1. wbPc' = "exit" /\ wbFails' = wbFails /\ wbBufs' = {} /\ wbBlob' = {}
    BY <1>23 DEF Wb!Exit, Wb!main
  <2>2. Wb!Kept' = {} /\ Cardinality(Wb!Kept') = 0
    BY <2>1, FS_EmptySet DEF Wb!Kept
  <2> QED BY <1>0, <1>3, <2>1, <2>2
<1>24. CASE Wb!Signal
  <2>1. UNCHANGED <<wbPc, wbBufs, wbBlob, wbRuns, wbFails>>
    BY <1>24 DEF Wb!Signal, Wb!main, Wb!bufv
  <2> QED BY <1>1, <1>3, <1>4, <2>1
<1> QED BY <1>10, <1>11, <1>12, <1>13, <1>14, <1>15, <1>16, <1>17, <1>18, <1>19, <1>20, <1>21,
           <1>22, <1>23, <1>24 DEF Wb!Next, Wb!Program

LEMMA WbStart == Wb!Init => Wb!WbInv
<1> SUFFICES ASSUME Wb!Init PROVE Wb!WbInv
  OBVIOUS
<1>1. Wb!Kept = {} /\ Cardinality(Wb!Kept) = 0 /\ Cardinality(Wb!Kept \ {wbRuns}) = 0
  BY FS_EmptySet DEF Wb!Init, Wb!Kept
<1>2. Wb!TypeOK
  <2>1. Wb!AllOff \in [Wb!Switches -> {0, 1}]
    BY DEF Wb!AllOff
  <2> QED BY <2>1, WbNoRequest DEF Wb!Init, Wb!TypeOK
<1>3. Wb!Grouped
  <2>1. Sum(<<>>, 0) = 0
    <3>1. 0 \in Nat /\ \A k \in 1..0 : <<>>[k] \in Int
      OBVIOUS
    <3> QED BY <3>1, SumSteps
  <2>2. Wb!Empty.cnts = <<>> /\ Wb!Empty.objs = <<>> /\ Wb!Empty.props = <<>>
    BY DEF Wb!Empty
  <2>3. Len(<<>>) = 0 /\ 1..Len(<<>>) = {}
    OBVIOUS
  <2> QED BY <2>1, <2>2, <2>3, WbSum DEF Wb!Init, Wb!Grouped
<1>4. Wb!Requested /\ Wb!Captured /\ Wb!SavedIsCaptured
  BY DEF Wb!Init, Wb!Requested, Wb!Captured, Wb!SavedIsCaptured
<1>5. Wb!Screen
  BY DEF Wb!Init, Wb!Screen, Wb!AllOff, Wb!Switches
<1>6. Wb!Left
  BY <1>1, WbCount DEF Wb!Init, Wb!Left
<1> QED BY <1>2, <1>3, <1>4, <1>5, <1>6 DEF Wb!WbInv

LEMMA WbStep == Wb!WbInv /\ [Wb!Next]_(Wb!vars) => Wb!WbInv'
BY WbTypeStep, WbRequestStep, WbScreenStep, WbCapturedStep, WbLeftStep DEF Wb!WbInv

LEMMA WbScenarioHolds == Wb!WbInv => Wb!RequestExact /\ Wb!SavedIsCaptured /\ Wb!CleanScreen
<1> SUFFICES ASSUME Wb!WbInv PROVE Wb!RequestExact /\ Wb!SavedIsCaptured /\ Wb!CleanScreen
  OBVIOUS
<1>1. Wb!RequestExact
  <2>1. Wb!Decoded(wbReq) = wbAsked
    BY WbDecodedIsAsked DEF Wb!WbInv
  <2>2. Len(wbReq.props) = Len(wbAsked) /\ Len(wbAsked) + Len(wbAdds) <= 26 /\ Len(wbAsked) \in Nat /\
          Len(wbAdds) \in Nat
    BY LenProperties DEF Wb!WbInv, Wb!TypeOK, Wb!Grouped
  <2>3. wbPc \notin {"commit", "offcommit"} => wbReq = Wb!Empty
    BY DEF Wb!WbInv, Wb!Grouped
  <2> QED BY <2>1, <2>2, <2>3 DEF Wb!RequestExact
<1>2. Wb!CleanScreen
  BY DEF Wb!WbInv, Wb!Screen, Wb!Left, Wb!CleanScreen
<1> QED BY <1>1, <1>2 DEF Wb!WbInv

\* aadd() and acommit(), poll() and the saving of the picture, the requests and
\* calls that switch off and free: for any number of scenarios and whatever
\* properties the driver lacks, the kernel decodes what was asked for, a picture
\* that is saved was captured, and what stays on or allocated is accounted for.
THEOREM WbScenario == Spec => []WbScenarioExact
<1>1. Init => Wb!WbInv
  BY WbStart DEF Init
<1>2. Wb!WbInv /\ [Next]_vars => Wb!WbInv'
  BY PartSteps, WbStep
<1>3. Wb!WbInv => WbScenarioExact
  BY WbScenarioHolds DEF WbScenarioExact
<1> QED BY <1>1, <1>2, <1>3, PTL DEF Spec
=============================================================================
