------------------------------- MODULE ForkLabs ------------------------------
(***************************************************************************)
(* wake_cpu.c, lb_case.c, sched_weight.c and vruntime_place.c: a parent    *)
(* forks children, observes the scheduler through them, kills them and     *)
(* waits.  The children of wake_cpu answer one byte per byte over a pair   *)
(* of pipes; the others spin for ever.  fork() and pipe() may fail: fork() *)
(* then leaves -1 in pid[], which no program tests.  Processes, pipes and  *)
(* signals are external.                                                   *)
(***************************************************************************)
EXTENDS Naturals, FiniteSets

CONSTANTS N,            \* children a program forks
          ROUNDS        \* rounds of wake_cpu, samples of lb_case

VARIABLES prog, pc, i, r,
          child,        \* child[c]: "none", "read", "spin", "brief", "zombie", "gone"
          pid,          \* pid[c]: 0 before fork(), c, or -1 (written N + 2)
          wr,           \* wr[c]: the processes (0 is the parent) that hold to[c][1] open
          to, back,     \* bytes in the pipes to and from child c
          hist,         \* answers counted, snapshots taken
          failed,       \* a fork() failed
          strays        \* kill(-1, SIGKILL) was sent: every process but the parent

vars == <<prog, pc, i, r, child, pid, wr, to, back, hist, failed, strays>>
pipes == <<wr, to, back>>
C == 1..(N + 1)                 \* N + 1 is vruntime_place's short-lived child
Failed == N + 2
Progs == {"wake_cpu", "lb_case", "sched_weight", "vruntime_place"}
Unreaped == {c \in C : child[c] \in {"read", "spin", "brief", "zombie"}}

Init ==
    /\ prog = "none" /\ pc = "start" /\ i = 1 /\ r = 0
    /\ child = [c \in C |-> "none"] /\ pid = [c \in C |-> 0]
    /\ wr = [c \in C |-> {}] /\ to = [c \in C |-> 0] /\ back = [c \in C |-> 0]
    /\ hist = 0 /\ failed = FALSE /\ strays = FALSE

TypeOK ==
    /\ child \in [C -> {"none", "read", "spin", "brief", "zombie", "gone"}]
    /\ pid \in [C -> 0..Failed] /\ wr \in [C -> SUBSET (0..(N + 1))]
    /\ to \in [C -> 0..1] /\ back \in [C -> 0..1] /\ hist \in 0..(N * ROUNDS + 2 * N)

Start(p) ==
    /\ pc = "start"
    /\ prog' = p /\ pc' = "fork"
    /\ UNCHANGED <<i, r, child, pid, pipes, hist, failed, strays>>

AfterForks == CASE prog = "wake_cpu" -> "write"
                [] prog = "vruntime_place" -> "probe"
                [] OTHER -> "sample"

Fork ==
    /\ pc = "fork" /\ i <= N
    /\ \/ /\ child' = [child EXCEPT ![i] = IF prog = "wake_cpu" THEN "read" ELSE "spin"]
          /\ pid' = [pid EXCEPT ![i] = i]
          \* the child inherits the parent's ends of the earlier pipes
          /\ wr' = [c \in C |-> IF c < i /\ 0 \in wr[c] THEN wr[c] \cup {i}
                                ELSE IF c = i /\ prog = "wake_cpu" THEN {0} ELSE wr[c]]
          /\ UNCHANGED failed
       \/ /\ pid' = [pid EXCEPT ![i] = Failed]
          /\ failed' = TRUE
          /\ wr' = IF prog = "wake_cpu" THEN [wr EXCEPT ![i] = {0}] ELSE wr
          /\ UNCHANGED child
    /\ i' = IF i = N THEN 1 ELSE i + 1
    /\ pc' = IF i = N THEN AfterForks ELSE "fork"
    /\ UNCHANGED <<prog, r, to, back, hist, strays>>

\* The parent is gone (return, or killed by SIGPIPE): its pipe ends close and
\* init reaps what it left.
ParentGone ==
    /\ pc' = "gone"
    /\ wr' = [c \in C |-> wr[c] \ {0}]
    /\ child' = [c \in C |-> IF child[c] = "zombie" THEN "gone" ELSE child[c]]

\* wake_cpu: pipe() fails and main() returns with children already running.
PipeFails ==
    /\ pc = "fork" /\ prog = "wake_cpu"
    /\ ParentGone
    /\ UNCHANGED <<prog, i, r, pid, to, back, hist, failed, strays>>

\* wake_cpu: wake child i; without a reader the write raises SIGPIPE.
Write ==
    /\ pc = "write"
    /\ IF child[i] = "read"
       THEN to' = [to EXCEPT ![i] = 1] /\ pc' = "read" /\ UNCHANGED <<wr, child>>
       ELSE ParentGone /\ UNCHANGED to
    /\ UNCHANGED <<prog, i, r, pid, back, hist, failed, strays>>

\* Mutant: the parent does not wait for the answer.
ReadAnswerNoWait ==
    /\ pc = "read" /\ child[i] = "read"
    /\ back' = [back EXCEPT ![i] = 0]
    /\ hist' = hist + back[i]
    /\ i' = IF i = N THEN 1 ELSE i + 1
    /\ r' = IF i = N THEN r + 1 ELSE r
    /\ pc' = IF i = N /\ r + 1 = ROUNDS THEN "kill" ELSE "write"
    /\ UNCHANGED <<prog, child, pid, wr, to, failed, strays>>

\* ... and read its answer; the next child or round, then "done:".
ReadAnswer ==
    /\ pc = "read" /\ back[i] = 1
    /\ back' = [back EXCEPT ![i] = 0]
    /\ hist' = hist + 1
    /\ i' = IF i = N THEN 1 ELSE i + 1
    /\ r' = IF i = N THEN r + 1 ELSE r
    /\ pc' = IF i = N /\ r + 1 = ROUNDS THEN "kill" ELSE "write"
    /\ UNCHANGED <<prog, child, pid, wr, to, failed, strays>>

\* The child of wake_cpu: answer a byte, or exit at end of file, which comes
\* when the last process that holds its write end has closed it.
Answer(c) ==
    /\ child[c] = "read" /\ to[c] = 1
    /\ to' = [to EXCEPT ![c] = 0] /\ back' = [back EXCEPT ![c] = 1]
    /\ UNCHANGED <<prog, pc, i, r, child, pid, wr, hist, failed, strays>>

Ended == IF pc = "gone" THEN "gone" ELSE "zombie"

EndOfFile(c) ==
    /\ child[c] = "read" /\ to[c] = 0 /\ wr[c] = {}
    /\ child' = [child EXCEPT ![c] = Ended]
    /\ wr' = [d \in C |-> wr[d] \ {c}]
    /\ UNCHANGED <<prog, pc, i, r, pid, to, back, hist, failed, strays>>

\* lb_case: widened affinity, then samples of the children's CPUs in /proc.
SampleCpus ==
    /\ pc = "sample" /\ prog = "lb_case"
    /\ r' = r + 1
    /\ pc' = IF r + 1 = ROUNDS THEN "kill" ELSE "sample"
    /\ UNCHANGED <<prog, i, child, pid, pipes, hist, failed, strays>>

\* sched_weight: one snapshot of every child before and one after the sleep.
\* A child that was not forked has no /proc files: its a[] and b[] stay
\* uninitialized, and the table is printed from them.
Snapshot ==
    /\ pc = "sample" /\ prog = "sched_weight"
    /\ r' = r + 1
    /\ pc' = IF r = 1 THEN "kill" ELSE "sample"
    /\ hist' = hist + Cardinality({c \in 1..N : pid[c] = c})
    /\ UNCHANGED <<prog, i, child, pid, pipes, failed, strays>>

\* vruntime_place: one more child, which prints and exits.
ForkProbe ==
    /\ pc = "probe"
    /\ \/ /\ child' = [child EXCEPT ![N + 1] = "brief"]
          /\ pid' = [pid EXCEPT ![N + 1] = N + 1] /\ UNCHANGED failed
       \/ pid' = [pid EXCEPT ![N + 1] = Failed] /\ failed' = TRUE /\ UNCHANGED child
    /\ pc' = "waitpid"
    /\ UNCHANGED <<prog, i, r, pipes, hist, strays>>

ProbeExits ==
    /\ child[N + 1] = "brief"
    /\ child' = [child EXCEPT ![N + 1] = Ended]
    /\ UNCHANGED <<prog, pc, i, r, pid, pipes, hist, failed, strays>>

\* waitpid(child): with child = -1 it waits for any of the spinning children,
\* and fails at once when there is none.
WaitPid ==
    /\ pc = "waitpid"
    /\ \/ pid[N + 1] = N + 1 /\ child[N + 1] = "zombie"
          /\ child' = [child EXCEPT ![N + 1] = "gone"]
       \/ pid[N + 1] = Failed /\ Unreaped = {} /\ UNCHANGED child
    /\ pc' = "kill"
    /\ UNCHANGED <<prog, i, r, pid, pipes, hist, failed, strays>>

\* Mutant: the loop that kills the children stops one short.
KillShort ==
    /\ pc = "kill"
    /\ i' = i + 1
    /\ pc' = IF i >= N - 1 THEN "wait" ELSE "kill"
    /\ child' = IF pid[i] = i /\ child[i] # "gone" THEN [child EXCEPT ![i] = "zombie"] ELSE child
    /\ wr' = [c \in C |-> wr[c] \ {0, i}]
    /\ UNCHANGED <<prog, r, pid, to, back, hist, failed, strays>>

\* kill(pid[i], SIGKILL), after close(to[i][1]) in wake_cpu.  A child that ended
\* is still a zombie and takes no harm; -1 means every process.
Kill ==
    /\ pc = "kill"
    /\ i' = i + 1
    /\ pc' = IF i = N THEN "wait" ELSE "kill"
    /\ LET dead == IF pid[i] = Failed THEN {c \in C : child[c] \in {"read", "spin", "brief"}}
                   ELSE {i} \cap Unreaped
       IN  /\ child' = [c \in C |-> IF c \in dead THEN "zombie" ELSE child[c]]
           /\ wr' = [c \in C |-> (IF c = i THEN wr[c] \ {0} ELSE wr[c]) \ dead]
    /\ strays' = (strays \/ pid[i] = Failed)
    /\ UNCHANGED <<prog, r, pid, to, back, hist, failed>>

\* while (wait(NULL) > 0), then the printed tables and return 0.
Wait ==
    /\ pc = "wait"
    /\ \/ \E c \in C : child[c] = "zombie" /\ child' = [child EXCEPT ![c] = "gone"] /\ pc' = pc
       \/ Unreaped = {} /\ pc' = "end" /\ UNCHANGED child
    /\ UNCHANGED <<prog, i, r, pid, pipes, hist, failed, strays>>

Parent ==
    \/ Fork \/ Write \/ ReadAnswer \/ SampleCpus \/ Snapshot \/ ForkProbe \/ WaitPid \/ Kill \/ Wait
Child(c) == Answer(c) \/ EndOfFile(c)

Next ==
    \/ \E p \in Progs : Start(p)
    \/ Parent \/ PipeFails \/ ProbeExits \/ \E c \in C : Child(c)

\* Every process gets a CPU in the end.
Fairness == WF_vars(Parent) /\ WF_vars(ProbeExits) /\ \A c \in C : WF_vars(Child(c))

Spec == Init /\ [][Next]_vars /\ Fairness

(***************************************************************************)
(* Properties.                                                             *)
(***************************************************************************)
\* When a program has come to its end, it reaped every child, wake_cpu counted
\* one answer for each wake-up, sched_weight has all snapshots, and no signal
\* went to a process it did not create, unless a fork() had failed.
ForkLabsClean ==
    /\ pc = "end" => Unreaped = {}
    /\ pc = "end" /\ prog = "wake_cpu" => hist = N * ROUNDS
    /\ pc = "end" /\ prog = "sched_weight" /\ ~failed => hist = 2 * N
    /\ strays => failed

\* wake_cpu leaves no process behind even when it dies with children blocked
\* on their pipes: the last child sees end of file first, its exit closes its
\* copy of the previous child's pipe, and so on down to the first.
NoOrphans == (pc = "gone") ~> (\A c \in C : child[c] \in {"none", "gone"})

\* Every program ends when its forks succeed.
ForkLabRuns == pc = "fork"
ForkLabOver == pc \in {"end", "gone"} \/ failed

(***************************************************************************)
(* The inductive invariant.                                                *)
(***************************************************************************)
ForkSizes == N \in Nat \ {0} /\ ROUNDS \in Nat \ {0}

\* Where the parent is in its loops, and whom it has forked by then.
Stages ==
    /\ prog \in Progs \cup {"none"} /\ i \in 1..(N + 1) /\ r \in Nat
    /\ pc \in {"start", "fork", "write", "read", "sample", "probe", "waitpid", "kill", "wait",
               "end", "gone"}
    /\ child \in [C -> {"none", "read", "spin", "brief", "zombie", "gone"}]
    /\ pid \in [C -> 0..Failed] /\ failed \in BOOLEAN /\ strays \in BOOLEAN
    /\ pc = "start" <=> prog = "none"
    /\ pc \in {"start", "fork"} => r = 0
    /\ pc = "start" => i = 1
    /\ pc \in {"fork", "write", "read", "kill"} => i <= N
    /\ pc \in {"sample", "probe", "waitpid"} => i = 1
    /\ pc \in {"write", "read"} => prog = "wake_cpu"
    /\ pc = "sample" => prog \in {"lb_case", "sched_weight"}
    /\ pc \in {"probe", "waitpid"} => prog = "vruntime_place"
    /\ \A c \in 1..N : (pc = "fork" => c < i) /\ pc # "start" /\ pc # "gone" => pid[c] \in {c, Failed}
    /\ \A c \in C : pid[c] = Failed => failed

\* What has been counted: an answer per child and round, a snapshot per child.
Counted ==
    /\ hist \in Nat
    /\ pc \in {"start", "fork"} => hist = 0
    /\ pc \in {"write", "read"} => r < ROUNDS /\ hist = r * N + (i - 1)
    /\ pc \in {"kill", "wait", "end"} /\ prog = "wake_cpu" => hist = N * ROUNDS
    /\ pc = "sample" /\ prog = "sched_weight" => r \in {0, 1} /\ (~failed => hist = r * N)
    /\ pc \in {"kill", "wait", "end"} /\ prog = "sched_weight" /\ ~failed => hist = 2 * N

ForkInv == Stages /\ Counted /\ ForkLabsClean
=============================================================================
