----------------------------- MODULE Khungtaskd -----------------------------
(***************************************************************************)
(* experiments/lockup_lab.c: the miniature khungtaskd.  A kthread sleeps   *)
(* hung_timeout seconds, walks all tasks, and reports one that is in D     *)
(* state with the same switch count as at the previous walk.  The counts   *)
(* are remembered in ht_tab, a table of HT_MAX slots that are never freed. *)
(*                                                                         *)
(* The scheduler and the task list are external: a task sets its state to  *)
(* TASK_UNINTERRUPTIBLE first and is switched out (which counts a switch)  *)
(* later; tasks are created and exit, and pids may be used again.          *)
(***************************************************************************)
EXTENDS Integers, FiniteSets

CONSTANTS
  Pids,        \* pids the tasks of the system use, positive
  HtMax,       \* HT_MAX, 512 in the code
  MaxSwitch,   \* bound on a task's context switches
  MaxOn,       \* bound on the number of "khung on" commands
  MayReuse     \* TRUE: the pid of a task that exited may be given out again

VARIABLES
  task,       \* per pid: "unborn", "run", "prep" (D set, still on the CPU),
              \* "block" (switched out in D) or "dead"
  switches,   \* per pid: nvcsw + nivcsw
  htPid, htCount,   \* ht_tab[].pid (0: free) and ht_tab[].switch_count
  khung,      \* khung_thread: "off", "sleep" or "scan"
  todo,       \* tasks the walk has still to visit
  ons,        \* number of "khung on" commands
  reported,   \* tasks a report was printed for
  seen,       \* history, per pid: switch count when last visited in D, or -1
  still       \* history: tasks that have not run since they were last visited

tasks == <<task, switches>>
table == <<htPid, htCount>>
vars == <<tasks, table, khung, todo, ons, reported, seen, still>>

Slots == 1..HtMax
UlongMax == -1    \* no switch count ever has this value

Init ==
  /\ task = [p \in Pids |-> "unborn"] /\ switches = [p \in Pids |-> 0]
  /\ htPid = [i \in Slots |-> 0] /\ htCount = [i \in Slots |-> 0]
  /\ khung = "off" /\ todo = {} /\ ons = 0 /\ reported = {}
  /\ seen = [p \in Pids |-> -1] /\ still = {}

-----------------------------------------------------------------------------
(* The tasks of the system.                                                *)

Fork(p) ==
  /\ task[p] = "unborn" \/ (MayReuse /\ task[p] = "dead")
  /\ task' = [task EXCEPT ![p] = "run"]
  /\ switches' = [switches EXCEPT ![p] = 0]
  /\ seen' = [seen EXCEPT ![p] = -1]
  /\ reported' = reported \ {p}
  /\ still' = still \ {p}
  /\ UNCHANGED <<table, khung, todo, ons>>

ExitTask(p) ==
  /\ task[p] = "run"
  /\ task' = [task EXCEPT ![p] = "dead"]
  /\ UNCHANGED <<switches, table, khung, todo, ons, reported, seen, still>>

\* set_current_state(TASK_UNINTERRUPTIBLE)
SetState(p) ==
  /\ task[p] = "run" /\ switches[p] < MaxSwitch
  /\ task' = [task EXCEPT ![p] = "prep"]
  /\ UNCHANGED <<switches, table, khung, todo, ons, reported, seen, still>>

\* schedule(): the task leaves the CPU and the switch is counted.
SwitchOut(p) ==
  /\ task[p] = "prep"
  /\ task' = [task EXCEPT ![p] = "block"]
  /\ switches' = [switches EXCEPT ![p] = @ + 1]
  /\ UNCHANGED <<table, khung, todo, ons, reported, seen, still>>

\* What it waits for arrives: the task runs again.
Wake(p) ==
  /\ task[p] = "block"
  /\ task' = [task EXCEPT ![p] = "run"]
  /\ reported' = reported \ {p}
  /\ still' = still \ {p}
  /\ UNCHANGED <<switches, table, khung, todo, ons, seen>>

-----------------------------------------------------------------------------
(* ht_slot(), check_one() and khung_fn().                                  *)

Lowest(set) == CHOOSE i \in set : \A j \in set : i <= j

Held(p) == {i \in Slots : htPid[i] = p}
Free == {i \in Slots : htPid[i] = 0}

\* Mutant: the search stops at the first free slot and never looks for the pid.
HtSlotFirstFree(p) == IF Free # {} THEN Lowest(Free) ELSE 0

\* The slot of a pid, else the first free one, else none (0).
HtSlot(p) ==
  IF Held(p) # {} THEN Lowest(Held(p))
  ELSE IF Free # {} THEN Lowest(Free) ELSE 0

\* Mutant: a new slot keeps the zero of the static table.
LastCountZero(p, i) == htCount[i]

\* What the slot holds when check_one() compares: ULONG_MAX when it is new.
LastCount(p, i) == IF htPid[i] = p THEN htCount[i] ELSE UlongMax

\* Mutant: the new count is not stored.
VisitForgets(p) ==
  /\ khung = "scan" /\ p \in todo
  /\ todo' = todo \ {p}
  /\ task[p] \in {"prep", "block"} /\ HtSlot(p) # 0
  /\ htPid' = [htPid EXCEPT ![HtSlot(p)] = p]
  /\ htCount' = [htCount EXCEPT ![HtSlot(p)] = LastCount(p, HtSlot(p))]
  /\ reported' = IF LastCount(p, HtSlot(p)) = switches[p] THEN reported \cup {p} ELSE reported
  /\ seen' = [seen EXCEPT ![p] = switches[p]]
  /\ still' = still \cup {p}
  /\ UNCHANGED <<tasks, khung, ons>>

\* The walk looks at __state: only a task in D state reaches check_one().
Visit(p) ==
  /\ khung = "scan" /\ p \in todo
  /\ todo' = todo \ {p}
  /\ \/ /\ task[p] \in {"prep", "block"}
        /\ LET i == HtSlot(p) IN
           IF i = 0 THEN UNCHANGED <<table, reported>>
           ELSE /\ htPid' = [htPid EXCEPT ![i] = p]
                /\ htCount' = [htCount EXCEPT ![i] = switches[p]]
                /\ reported' = IF LastCount(p, i) = switches[p]
                               THEN reported \cup {p} ELSE reported
        /\ seen' = [seen EXCEPT ![p] = switches[p]]
        /\ still' = still \cup {p}
     \/ /\ task[p] \notin {"prep", "block"}
        /\ UNCHANGED <<table, reported, seen, still>>
  /\ UNCHANGED <<tasks, khung, ons>>

\* msleep_interruptible(timeout * 1000) is over: walk the tasks there are.
BeginScan ==
  /\ khung = "sleep"
  /\ khung' = "scan"
  /\ todo' = {p \in Pids : task[p] \notin {"unborn", "dead"}}
  /\ UNCHANGED <<tasks, table, ons, reported, seen, still>>

EndScan ==
  /\ khung = "scan" /\ todo = {}
  /\ khung' = "sleep"
  /\ UNCHANGED <<tasks, table, todo, ons, reported, seen, still>>

-----------------------------------------------------------------------------
(* "khung on <s>" and "khung off" (also in ll_exit()).                     *)

\* The table is not cleared when the thread is started again.
KhungOn ==
  /\ khung = "off" /\ ons < MaxOn
  /\ khung' = "sleep"
  /\ ons' = ons + 1
  /\ UNCHANGED <<tasks, table, todo, reported, seen, still>>

\* kthread_stop() wakes the sleeper, which breaks before it walks again; a
\* walk that has begun is finished first.
KhungOff ==
  /\ khung = "sleep"
  /\ khung' = "off"
  /\ UNCHANGED <<tasks, table, todo, ons, reported, seen, still>>

-----------------------------------------------------------------------------
Task(p) == Fork(p) \/ ExitTask(p) \/ SetState(p) \/ SwitchOut(p) \/ Wake(p)
Scan == BeginScan \/ EndScan \/ \E p \in Pids : Visit(p)

Next == Scan \/ KhungOn \/ KhungOff \/ \E p \in Pids : Task(p)

\* The khungtaskd thread wakes up and walks, and a task that has set its
\* state gets to schedule(); tasks may otherwise block for ever.
Fairness == WF_vars(Scan) /\ \A p \in Pids : WF_vars(SwitchOut(p))

Spec == Init /\ [][Next]_vars /\ Fairness

-----------------------------------------------------------------------------
TypeOK ==
  /\ task \in [Pids -> {"unborn", "run", "prep", "block", "dead"}]
  /\ switches \in [Pids -> 0..MaxSwitch]
  /\ htPid \in [Slots -> Pids \cup {0}] /\ htCount \in [Slots -> Nat]
  /\ khung \in {"off", "sleep", "scan"} /\ todo \subseteq Pids /\ ons \in 0..MaxOn
  /\ reported \subseteq Pids /\ still \subseteq Pids
  /\ seen \in [Pids -> Int]

\* The table stays a table: a pid has one slot, and the slots in use come
\* before the free ones, so that a pid is always found before a free slot.
TableSound ==
  /\ \A i, j \in Slots : htPid[i] = htPid[j] /\ htPid[i] # 0 => i = j
  /\ \A i, j \in Slots : i < j /\ htPid[j] # 0 => htPid[i] # 0
TableInv == TypeOK /\ TableSound

\* "blocked for more than ... from beginning to end it was never scheduled":
\* a report takes two walks, the first of which found the task in D with the
\* switch count it still has; and if it is switched out when it is reported,
\* it has not run since.  (One that is caught between setting its state and
\* schedule() may have run.)
ReportTruthful ==
  [][\A p \in Pids :
       p \in reported' /\ p \notin reported =>
         seen[p] = switches[p] /\ (task[p] = "block" => p \in still)]_vars

\* ht_slot() returns NULL for p: other tasks have used the table up.
NoSlotFor(p) == \A i \in Slots : htPid[i] \notin {0, p}

\* "at most one timeout late": a task that stays blocked is reported, as
\* long as khungtaskd stays on; but not once HT_MAX other tasks have been seen
\* in D state, however long ago.
HungReported ==
  \A p \in Pids :
    (task[p] = "block") ~>
      (p \in reported \/ task[p] # "block" \/ khung = "off" \/ NoSlotFor(p))

-----------------------------------------------------------------------------
(* The inductive invariant, while pids are not given out again.            *)

\* What a slot remembers is what the last walk saw of the task it is of.
Remembered ==
  \A i \in Slots : htPid[i] # 0 =>
    htCount[i] = seen[htPid[i]] /\ task[htPid[i]] # "unborn"

\* A switch count never falls behind the one seen, and goes past it when the
\* task is switched out after it has run again.
Counted ==
  \A p \in Pids :
    /\ task[p] = "unborn" => seen[p] = -1
    /\ seen[p] <= switches[p]
    /\ task[p] = "prep" => switches[p] < MaxSwitch
    /\ task[p] = "block" /\ seen[p] = switches[p] => p \in still

KhInv == TypeOK /\ TableSound /\ Remembered /\ Counted
=============================================================================
