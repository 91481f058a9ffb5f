------------------------------ MODULE PeakMeter ------------------------------
(***************************************************************************)
(* The "largest number of callbacks inside at once" meter that             *)
(* experiments/softirq_par.c (bump(), cur, maxcur) and                     *)
(* experiments/wq_probe.c (bump(), concur, maxconcur) share: an atomic     *)
(* counter incremented on entry and decremented on exit, and a lock-free   *)
(* maximum maintained by a read / compare-and-exchange loop.               *)
(*                                                                         *)
(* A thread is a CPU running a softirq callback, or a kworker running a    *)
(* work item.  Every atomic operation of bump() is a step of its own.      *)
(***************************************************************************)
EXTENDS Integers, FiniteSets

CONSTANT Threads   \* CPUs (softirq_par.c) or kworkers (wq_probe.c)

ASSUME ThreadsFinite == IsFiniteSet(Threads)

VARIABLES
  cur,      \* atomic_t cur / concur
  maxcur,   \* atomic_t maxcur / maxconcur
  pc,       \* where each thread is in the callback
  c,        \* bump()'s local c, the value atomic_inc_return() gave
  m,        \* bump()'s local m, the last maxcur it read
  peak      \* history: the largest value cur ever had

vars == <<cur, maxcur, pc, c, m, peak>>

\* "out": not in the callback; "read"/"cas": inside bump()'s do-while loop;
\* "in": past bump(), in the timed section of the callback.
Locations == {"out", "read", "cas", "in"}

Inside == {t \in Threads : pc[t] # "out"}

Larger(a, b) == IF a > b THEN a ELSE b

Init ==
  /\ cur = 0
  /\ maxcur = 0
  /\ pc = [t \in Threads |-> "out"]
  /\ c = [t \in Threads |-> 0]
  /\ m = [t \in Threads |-> 0]
  /\ peak = 0

\* int c = atomic_inc_return(&cur);
IncReturn(t) ==
  /\ pc[t] = "out"
  /\ cur' = cur + 1
  /\ c' = [c EXCEPT ![t] = cur + 1]
  /\ pc' = [pc EXCEPT ![t] = "read"]
  /\ peak' = Larger(peak, cur + 1)
  /\ UNCHANGED <<maxcur, m>>

\* m = atomic_read(&maxcur); if (c <= m) break;
ReadMax(t) ==
  /\ pc[t] = "read"
  /\ m' = [m EXCEPT ![t] = maxcur]
  /\ pc' = [pc EXCEPT ![t] = IF c[t] <= maxcur THEN "in" ELSE "cas"]
  /\ UNCHANGED <<cur, maxcur, c, peak>>

\* Mutant: a plain store of c instead of the compare-and-exchange.
CmpXchgAsStore(t) ==
  /\ pc[t] = "cas"
  /\ maxcur' = c[t]
  /\ pc' = [pc EXCEPT ![t] = "in"]
  /\ UNCHANGED <<cur, c, m, peak>>

\* Mutant: the loop is not repeated after a failed exchange.
CmpXchgOnce(t) ==
  /\ pc[t] = "cas"
  /\ maxcur' = IF maxcur = m[t] THEN c[t] ELSE maxcur
  /\ pc' = [pc EXCEPT ![t] = "in"]
  /\ UNCHANGED <<cur, c, m, peak>>

\* Mutant: after a failed exchange the loop retries with the stale m.
CmpXchgStale(t) ==
  /\ pc[t] = "cas"
  /\ maxcur' = IF maxcur = m[t] THEN c[t] ELSE maxcur
  /\ pc' = [pc EXCEPT ![t] = IF maxcur = m[t] THEN "in" ELSE "cas"]
  /\ UNCHANGED <<cur, c, m, peak>>

\* while (atomic_cmpxchg(&maxcur, m, c) != m);
CmpXchg(t) ==
  /\ pc[t] = "cas"
  /\ \/ /\ maxcur = m[t]
        /\ maxcur' = c[t]
        /\ pc' = [pc EXCEPT ![t] = "in"]
     \/ /\ maxcur # m[t]
        /\ pc' = [pc EXCEPT ![t] = "read"]
        /\ UNCHANGED maxcur
  /\ UNCHANGED <<cur, c, m, peak>>

\* atomic_dec(&cur); the callback returns and its locals are gone.
Dec(t) ==
  /\ pc[t] = "in"
  /\ cur' = cur - 1
  /\ pc' = [pc EXCEPT ![t] = "out"]
  /\ c' = [c EXCEPT ![t] = 0]
  /\ m' = [m EXCEPT ![t] = 0]
  /\ UNCHANGED <<maxcur, peak>>

Next == \E t \in Threads : IncReturn(t) \/ ReadMax(t) \/ CmpXchg(t) \/ Dec(t)

Spec == Init /\ [][Next]_vars

\* A CPU that is inside a callback keeps executing instructions.
Fairness == \A t \in Threads : WF_vars(ReadMax(t) \/ CmpXchg(t))

FairSpec == Spec /\ Fairness

-----------------------------------------------------------------------------
TypeOK ==
  /\ cur \in Nat
  /\ maxcur \in Nat
  /\ pc \in [Threads -> Locations]
  /\ c \in [Threads -> Nat]
  /\ m \in [Threads -> Nat]
  /\ peak \in Nat

\* cur counts exactly the threads inside the callback.
CurCountsInside == cur = Cardinality(Inside)

\* Whenever no thread is between its increment and the end of its
\* compare-and-exchange loop, maxcur is the true peak: the "largest number
\* running at once" that run_mode0/1/2() and report() print is neither
\* overstated nor, after a lost race on the exchange, understated.
PeakExact == (\A t \in Threads : pc[t] \in {"out", "in"}) => maxcur = peak

\* The exchange never lowers the recorded maximum, whatever stale value of
\* maxcur a thread carries into it.
MaxNeverDrops == [][maxcur' >= maxcur]_vars

\* The compare-and-exchange loop of bump() terminates for every thread: a
\* failed exchange means another thread raised maxcur.
BumpTerminates == \A t \in Threads : (pc[t] = "read") ~> (pc[t] = "in")

\* Inductive strengthening: a peak not yet recorded is owed by a thread that
\* still carries it, and a thread about to exchange carries a larger value
\* than the maxcur it read.
Owed ==
  /\ maxcur <= peak
  /\ maxcur < peak => \E t \in Threads : pc[t] \in {"read", "cas"} /\ c[t] = peak
  /\ \A t \in Threads :
       /\ c[t] <= peak
       /\ pc[t] = "cas" => m[t] < c[t]

IInv == TypeOK /\ CurCountsInside /\ Owed
=============================================================================
