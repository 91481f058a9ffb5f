------------------------------- MODULE Litmus --------------------------------
(***************************************************************************)
(* barrier_sb.c (store buffering) and barrier_mp.c (message passing): two  *)
(* pinned threads run a litmus test many times, with no barrier (mode 0)   *)
(* or with one (1, 2), and main counts the outcomes.  The ARMv8 core is    *)
(* external: of the accesses a thread still has to make in an iteration it *)
(* makes any one that nothing orders after another.  Before(t) says what   *)
(* the code orders: DMB, acquire and release, the control dependency of a  *)
(* store on the loop that precedes it, and accesses to one location.       *)
(***************************************************************************)
EXTENDS Naturals, FiniteSets

CONSTANTS N,            \* slots of a round of barrier_sb, 2^20 in the code
          REP,          \* its rounds, 40 in the code
          iters         \* iterations of barrier_mp, 2000000 in the code

VARIABLES test, mode, pc, round,
          th,           \* th[t]: "none", "born", "ready", "run", "over"
          go,
          ex,           \* ex[t]: the accesses thread t made in this iteration
          it,           \* it[t]: iterations thread t has finished
          mem, reg,
          n00, counted, observed, violations,
          failed        \* some pthread_create() failed, which main does not notice

score == <<n00, counted, observed, violations>>
vars == <<test, mode, pc, round, th, go, ex, it, mem, reg, score, failed>>

T == {0, 1}
Slots == 1..N
\* The locations: x and y of each slot, data_v as <<"x", 0>>, flag_v as <<"y", 0>>.
Locs == {"x", "y"} \X (0..N)
Data == <<"x", 0>>
Flag == <<"y", 0>>

Init ==
    /\ test = "none" /\ mode = 0 /\ pc = "start" /\ round = 0
    /\ th = [t \in T |-> "none"] /\ go = 0
    /\ ex = [t \in T |-> {}] /\ it = [t \in T |-> 0]
    /\ mem = [l \in Locs |-> 0] /\ reg = [t \in T |-> [i \in 0..N |-> 0]]
    /\ n00 = 0 /\ counted = 0 /\ observed = 0 /\ violations = 0 /\ failed = FALSE

Accesses == {"store", "load", "wait", "data", "flag", "clear", "ack"} \X (0..N)

TypeOK ==
    /\ test \in {"none", "sb", "mp"} /\ mode \in 0..2 /\ round \in Nat
    /\ pc \in {"start", "round", "join", "report"} /\ go \in Nat /\ failed \in BOOLEAN
    /\ th \in [T -> {"none", "born", "ready", "run", "over"}]
    /\ ex \in [T -> SUBSET Accesses] /\ it \in [T -> Nat]
    /\ mem \in [Locs -> Nat] /\ reg \in [T -> [0..N -> Nat]]
    /\ n00 \in Nat /\ counted \in Nat /\ observed \in Nat /\ violations \in Nat

Ops(t) == CASE test = "sb" -> {"store", "load"} \X Slots
            [] test = "mp" /\ t = 0 -> {"wait", "data", "flag"} \X {0}
            [] test = "mp" /\ t = 1 -> {"flag", "data", "clear", "ack"} \X {0}
            [] OTHER -> {}

\* The accesses of the iteration that come before op whatever the core does.
\* th0 and th1: CBAR binds the compiler only; STLR and LDAR keep their order.
SbBefore(t, op) ==
    CASE mode = 0 -> {}
      [] mode = 1 -> IF op[1] = "load" THEN {<<"store", op[2]>>} ELSE {}
      [] mode = 2 -> {o \in Ops(t) : \/ o[2] < op[2]
                                     \/ o[2] = op[2] /\ o[1] = "store" /\ op[1] = "load"}

\* writer(): the stores depend on the loop; a release or a DMB orders them.
WriterBefore(op) ==
    CASE op[1] = "wait" -> {}
      [] op[1] = "data" -> {<<"wait", 0>>}
      [] op[1] = "flag" -> IF mode = 0 THEN {<<"wait", 0>>} ELSE {"wait", "data"} \X {0}

\* Mutant: the acquire load of mode 1 is a relaxed one.
ReaderBeforeRelaxed(op) ==
    CASE op[1] = "flag" -> {}
      [] op[1] = "data" -> IF mode # 2 THEN {} ELSE {<<"flag", 0>>}
      [] op[1] = "clear" -> {"flag", "data"} \X {0}
      [] op[1] = "ack" -> {"flag", "data", "clear"} \X {0}

\* reader(): an acquire or a DMB orders the loads; the last store is a release.
ReaderBefore(op) ==
    CASE op[1] = "flag" -> {}
      [] op[1] = "data" -> IF mode = 0 THEN {} ELSE {<<"flag", 0>>}
      [] op[1] = "clear" -> {"flag", "data"} \X {0}
      [] op[1] = "ack" -> {"flag", "data", "clear"} \X {0}

Before(t, op) ==
    IF test = "sb" THEN SbBefore(t, op)
    ELSE IF t = 0 THEN WriterBefore(op) ELSE ReaderBefore(op)

\* main(): the mode, then per round the cleared slots and the two threads.
Main(tst, m) ==
    /\ pc = "start"
    /\ test' = tst /\ mode' = m /\ pc' = "round"
    /\ UNCHANGED <<round, th, go, ex, it, mem, reg, score, failed>>

Create ==
    /\ pc = "round"
    /\ mem' = [l \in Locs |-> 0] /\ reg' = [t \in T |-> [i \in 0..N |-> 0]]
    /\ go' = 0 /\ ex' = [t \in T |-> {}] /\ it' = [t \in T |-> 0]
    /\ \E made \in SUBSET T :
          /\ th' = [t \in T |-> IF t \in made THEN "born" ELSE "none"]
          /\ failed' = (failed \/ made # T)
    /\ pc' = "join"
    /\ UNCHANGED <<test, mode, round, n00, counted, observed, violations>>

\* barrier_sb: go is incremented, then awaited; barrier_mp has no such step.
Arrive(t) ==
    /\ th[t] = "born"
    /\ th' = [th EXCEPT ![t] = IF test = "sb" THEN "ready" ELSE "run"]
    /\ go' = IF test = "sb" THEN go + 1 ELSE go
    /\ UNCHANGED <<test, mode, pc, round, ex, it, mem, reg, score, failed>>

Depart(t) ==
    /\ th[t] = "ready" /\ go >= 2
    /\ th' = [th EXCEPT ![t] = "run"]
    /\ UNCHANGED <<test, mode, pc, round, go, ex, it, mem, reg, score, failed>>

Runs(t, op) ==
    /\ th[t] = "run" /\ op \in Ops(t) \ ex[t] /\ Before(t, op) \subseteq ex[t]
    /\ ex' = [ex EXCEPT ![t] = @ \cup {op}]
    /\ UNCHANGED <<test, mode, pc, round, th, go, it, n00, counted, failed>>

\* th0 and th1 of barrier_sb: a store to the own location, a load of the other's.
SbAccess(t, op) ==
    /\ test = "sb" /\ Runs(t, op)
    /\ LET own == <<IF t = 0 THEN "x" ELSE "y", op[2]>>
           other == <<IF t = 0 THEN "y" ELSE "x", op[2]>>
       IN  IF op[1] = "store" THEN mem' = [mem EXCEPT ![own] = 1] /\ UNCHANGED reg
           ELSE reg' = [reg EXCEPT ![t][op[2]] = mem[other]] /\ UNCHANGED mem
    /\ UNCHANGED <<observed, violations>>

\* writer() of barrier_mp
MpWrite(op) ==
    /\ test = "mp" /\ Runs(0, op)
    /\ op[1] = "wait" => mem[Flag] = 0
    /\ mem' = CASE op[1] = "data" -> [mem EXCEPT ![Data] = 42]
                [] op[1] = "flag" -> [mem EXCEPT ![Flag] = 1]
                [] OTHER -> mem
    /\ UNCHANGED <<reg, observed, violations>>

\* reader() of barrier_mp: what it loaded is judged when both loads are done.
MpRead(op) ==
    /\ test = "mp" /\ Runs(1, op)
    /\ op[1] = "flag" => mem[Flag] = 1
    /\ reg' = IF op[1] = "data" THEN [reg EXCEPT ![1][0] = mem[Data]] ELSE reg
    /\ mem' = CASE op[1] = "clear" -> [mem EXCEPT ![Data] = 0]
                [] op[1] = "ack" -> [mem EXCEPT ![Flag] = 0]
                [] OTHER -> mem
    /\ observed' = IF op[1] = "clear" THEN observed + 1 ELSE observed
    /\ violations' = IF op[1] = "clear" /\ reg[1][0] # 42 THEN violations + 1 ELSE violations

EndIteration(t) ==
    /\ th[t] = "run" /\ ex[t] = Ops(t)
    /\ ex' = [ex EXCEPT ![t] = {}]
    /\ it' = [it EXCEPT ![t] = @ + 1]
    /\ th' = [th EXCEPT ![t] = IF test = "sb" \/ it[t] + 1 = iters THEN "over" ELSE "run"]
    /\ UNCHANGED <<test, mode, pc, round, go, mem, reg, score, failed>>

\* Both joined: barrier_sb counts its slots, then the next round or the report.
\* The join of a thread that was not created (its handle is not initialised) may
\* return as well: what main counts then are the slots it cleared.
Join ==
    /\ pc = "join" /\ \A t \in T : th[t] \in {"over", "none"}
    /\ n00' = n00 + Cardinality({i \in Slots : test = "sb" /\ reg[0][i] = 0 /\ reg[1][i] = 0})
    /\ counted' = counted + IF test = "sb" THEN N ELSE 0
    /\ round' = round + 1
    /\ pc' = IF test = "sb" /\ round + 1 < REP THEN "round" ELSE "report"
    /\ UNCHANGED <<test, mode, th, go, ex, it, mem, reg, observed, violations, failed>>

Thread(t) ==
    \/ Arrive(t) \/ Depart(t) \/ EndIteration(t)
    \/ \E op \in Ops(t) : SbAccess(t, op) \/ (t = 0 /\ MpWrite(op)) \/ (t = 1 /\ MpRead(op))

Next ==
    \/ \E tst \in {"sb", "mp"}, m \in 0..2 : Main(tst, m)
    \/ Create \/ Join \/ \E t \in T : Thread(t)

Fairness == WF_vars(Create) /\ WF_vars(Join) /\ \A t \in T : WF_vars(Thread(t))

Spec == Init /\ [][Next]_vars /\ Fairness

(***************************************************************************)
(* Properties.                                                             *)
(***************************************************************************)
\* With a barrier (DMB, or acquire and release) the outcome the tests look for
\* is never counted, and every outcome is counted once.  barrier_sb: unless a
\* pthread_create() failed, after which cleared slots look like the outcome.
LitmusOutcomes ==
    /\ mode # 0 => violations = 0 /\ (n00 = 0 \/ failed)
    /\ pc = "report" /\ ~failed => IF test = "sb" THEN counted = N * REP ELSE observed = iters

\* Both programs come to their report when both threads were created: neither
\* the handshake on go nor the flag that goes back and forth gets stuck.
LitmusRuns == pc = "round"
LitmusOver == pc = "report" \/ failed

(***************************************************************************)
(* The inductive invariant behind LitmusOutcomes.                          *)
(***************************************************************************)
\* barrier_sb: thread t has made this access of its round.
Did(t, what, i) == <<what, i>> \in ex[t] \/ th[t] = "over"

\* Store buffering: whoever loads second finds the other's store.
SbOrder ==
    test = "sb" /\ mode # 0 =>
       \A i \in Slots :
          /\ \A t \in T : Did(t, "load", i) => Did(t, "store", i)
          /\ Did(0, "store", i) => mem[<<"x", i>>] = 1
          /\ Did(1, "store", i) => mem[<<"y", i>>] = 1
          /\ Did(0, "load", i) /\ Did(1, "load", i) => reg[0][i] # 0 \/ reg[1][i] # 0

\* A thread leaves the handshake only when both have come to it.
Arrived(t) == IF th[t] \in {"none", "born"} THEN 0 ELSE 1
Handshake ==
    test = "sb" => /\ go = Arrived(0) + Arrived(1)
                   /\ \A t \in T : th[t] \in {"run", "over"} => go >= 2

\* Message passing: the flag passes the right to the data back and forth.
Wrote(what) == <<what, 0>> \in ex[0]
Read(what) == <<what, 0>> \in ex[1]
MpOrder ==
    test = "mp" /\ mode # 0 =>
       /\ (Wrote("data") \/ Wrote("flag")) => Wrote("wait")
       /\ Wrote("flag") => Wrote("data")
       /\ Read("ack") => Read("clear")
       /\ Read("clear") => Read("data")
       /\ Read("data") => Read("flag")
       /\ Wrote("wait") /\ ~Wrote("flag") => mem[Flag] = 0
       /\ Read("flag") /\ ~Read("ack") => mem[Flag] = 1
       /\ Wrote("data") /\ ~Wrote("flag") => mem[Data] = 42
       /\ mem[Flag] = 1 /\ ~(Read("clear") /\ ~Read("ack")) => mem[Data] = 42
       /\ Read("data") /\ ~Read("clear") => reg[1][0] = 42

\* What has been counted so far.
Counted ==
    /\ pc = "start" => round = 0 /\ n00 = 0 /\ counted = 0 /\ observed = 0 /\ violations = 0
    /\ pc = "start" => /\ test = "none" /\ go = 0 /\ mem[Flag] = 0
                       /\ \A t \in T : th[t] = "none" /\ ex[t] = {}
    /\ pc # "start" => test # "none"
    /\ test # "mp" => violations = 0
    /\ test # "sb" => n00 = 0
    /\ mode # 0 => violations = 0 /\ (n00 = 0 \/ failed)
    /\ test = "sb" => /\ counted = N * round
                      /\ pc \in {"round", "join"} => round < REP
                      /\ pc = "report" => round = REP
    /\ test = "mp" => /\ pc = "round" => observed = 0 /\ th[1] = "none"
                      /\ pc \in {"join", "report"} =>
                            observed = it[1] + (IF Read("clear") THEN 1 ELSE 0)
                      /\ th[1] = "over" => it[1] = iters /\ ex[1] = {}
                      /\ pc = "report" /\ ~failed => th[1] = "over"
    /\ pc = "join" /\ ~failed => \A t \in T : th[t] # "none"

\* The tests have slots, rounds and iterations, as they do in the code.
Sizes == N \in Nat \ {0} /\ REP \in Nat \ {0} /\ iters \in Nat \ {0}

LitmusInv == TypeOK /\ SbOrder /\ Handshake /\ MpOrder /\ Counted
=============================================================================
