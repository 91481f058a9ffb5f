----------------------------- MODULE CrashProbe -----------------------------
(***************************************************************************)
(* experiments/crash_probe.c: a command written to /proc/crash_probe looks *)
(* at a task while the task goes on living.  bt and btf follow the frame   *)
(* chain of its stack, mm reads its mm_struct, sched its sched_info.       *)
(* get_task() pins their task_struct, and nothing else.  rwsem prints the  *)
(* owner of a semaphore, here the same task, and walks its wait_list, with *)
(* no reference and no lock.                                               *)
(*                                                                         *)
(* External: when a task exits its mm and its stack are freed; the         *)
(* task_struct goes with its last reference; a waiter of an rwsem sits on  *)
(* its own stack until it leaves the list.  Nobody joins the list: a       *)
(* newcomer whose links are not visible yet would be like one that has     *)
(* left.  ps, rd, mmowner, runq and sym are left out.                      *)
(***************************************************************************)
EXTENDS Naturals

CONSTANTS
  StackLo, StackHi,    \* the stack is [StackLo, StackHi), in 8-byte words
  MaxFrames,           \* 32 in the code
  NWaiters             \* length of the wait_list at the start

VARIABLES
  task,        \* the target or owner: "sleep", "run", "dead" (exited) or "reaped"
  cmd, pc,     \* the command and where it is
  held,        \* references to the task_struct the command holds
  fp, frame,   \* the frame walk; fp is also the address of btf's dump
  waiters,     \* sem->wait_list, whose order is that of the numbers
  cur,         \* the waiter the walk is at, 0 for the list's head
  reads,       \* words of the stack read by the command
  moved,       \* what changed after the command had looked: "task", "list"
  bad          \* kinds of objects read after they were freed

vars == <<task, cmd, pc, held, fp, frame, waiters, cur, reads, moved, bad>>
walk == <<fp, frame, cur, reads>>

Init ==
  /\ task = "sleep" /\ cmd = "none" /\ pc = "idle" /\ held = 0
  /\ fp = 0 /\ frame = 0 /\ cur = 0 /\ reads = {}
  /\ waiters = 1..NWaiters
  /\ moved = {} /\ bad = {}

Addresses == 0..StackHi + 1
Wild == NWaiters + 1              \* where no waiter ever was

\* The task of a waiter stays while it waits; afterwards it may be reaped.
Live(o) == CASE o = "task" -> task # "reaped" \/ held > 0
             [] o \in {"reader", "writer"} -> task # "reaped"    \* sem->owner
             [] o \in {"waiter", "wtask"} -> cur \in waiters
             [] OTHER -> task \in {"sleep", "run"}        \* "stack", "mm"
Access(objects) == bad' = bad \cup {o \in objects : ~Live(o)}

-----------------------------------------------------------------------------
(* The target and the waiters.                                             *)

Wake == task = "sleep" /\ task' = "run"
Sleep == task = "run" /\ task' = "sleep"
Die == task = "run" /\ task' = "dead"
Reap == task = "dead" /\ task' = "reaped"

TaskStep ==
  /\ Wake \/ Sleep \/ Die \/ Reap
  /\ moved' = moved \cup {"task"}
  /\ UNCHANGED <<cmd, pc, held, walk, waiters, bad>>

WaiterLeaves ==
  /\ \E w \in waiters : waiters' = waiters \ {w}
  /\ moved' = moved \cup {"list"}
  /\ UNCHANGED <<task, cmd, pc, held, walk, bad>>

-----------------------------------------------------------------------------
(* cp_write() and the commands.                                            *)

\* A write that is too long or not readable fails; an unknown command only
\* prints the usage.
CpWrite ==
  /\ pc = "idle"
  /\ cmd' \in {"bt", "btf", "mm", "sched", "rwsem"}
  /\ pc' = IF cmd' = "rwsem" THEN "owner" ELSE "get"
  /\ moved' = {} /\ bad' = {} /\ reads' = {} /\ frame' = 0
  /\ UNCHANGED <<task, held, fp, cur, waiters>>

\* get_task(): NULL when the pid has gone.
GetTask ==
  /\ pc = "get"
  /\ IF task = "reaped" THEN pc' = "idle" /\ UNCHANGED held
     ELSE pc' = cmd /\ held' = held + 1
  /\ moved' = {}
  /\ UNCHANGED <<task, cmd, walk, waiters, bad>>

\* cmd_bt() refuses a running task, then takes the bounds of the stack and fp
\* from the saved context.  The stack pointer of a dead task is NULL: no
\* saved fp or sp lies below the end of such a stack, and nothing is read.
CheckSleeps ==
  /\ pc \in {"bt", "btf"} /\ Access({"task"})
  /\ IF task = "sleep" THEN pc' = "frame" /\ moved' = {} /\ fp' \in Addresses
     ELSE pc' = "put" /\ UNCHANGED <<moved, fp>>
  /\ UNCHANGED <<task, cmd, held, frame, cur, reads, waiters>>

\* Mutant: the chain is followed up to the very last word.
InStackOff == fp >= StackLo /\ fp < StackHi

\* Both words of a frame record are inside the stack.
InStack == fp >= StackLo /\ fp < StackHi - 2

\* One round of the walk.  The stack may hold anything, in particular when
\* its owner has moved on: the next frame pointer is any value.
Frame ==
  /\ pc = "frame" /\ InStack /\ frame < MaxFrames
  /\ Access({"stack"}) /\ reads' = reads \cup {fp, fp + 1}
  /\ \E next \in Addresses :
       IF next <= fp THEN pc' = "walked" /\ UNCHANGED <<fp, frame>>
       ELSE fp' = next /\ frame' = frame + 1 /\ UNCHANGED pc
  /\ UNCHANGED <<task, cmd, held, cur, waiters, moved>>

ChainEnds ==
  /\ pc = "frame" /\ ~(InStack /\ frame < MaxFrames)
  /\ pc' = "walked"
  /\ UNCHANGED <<task, cmd, held, walk, waiters, moved, bad>>

\* btf dumps every word from the saved sp to the end of the stack.
Walked ==
  /\ pc = "walked" /\ Access({"task"})
  /\ \/ cmd = "bt" /\ pc' = "put" /\ UNCHANGED fp
     \/ cmd = "btf" /\ pc' = "dump" /\ fp' \in StackLo..StackHi
  /\ UNCHANGED <<task, cmd, held, frame, cur, reads, waiters, moved>>

Dump ==
  /\ pc = "dump"
  /\ IF fp < StackHi
     THEN fp' = fp + 1 /\ reads' = reads \cup {fp} /\ Access({"stack", "task"}) /\ UNCHANGED pc
     ELSE pc' = "put" /\ UNCHANGED <<fp, reads, bad>>
  /\ UNCHANGED <<task, cmd, held, frame, cur, waiters, moved>>

\* Mutant: a NULL mm is not noticed.
ReadMmUnchecked ==
  /\ pc = "mm" /\ Access({"task"}) /\ moved' = {}
  /\ pc' = "mm2"
  /\ UNCHANGED <<task, cmd, held, walk, waiters>>

\* cmd_mm() reads t->mm once (NULL after the exit) and uses it afterwards.
ReadMm ==
  /\ pc = "mm" /\ Access({"task"}) /\ moved' = {}
  /\ pc' = IF task \in {"dead", "reaped"} THEN "put" ELSE "mm2"
  /\ UNCHANGED <<task, cmd, held, walk, waiters>>
UseMm ==
  /\ pc = "mm2" /\ Access({"task", "mm"}) /\ pc' = "put"
  /\ UNCHANGED <<task, cmd, held, walk, waiters, moved>>

CmdSched ==
  /\ pc = "sched" /\ Access({"task"}) /\ pc' = "put"
  /\ UNCHANGED <<task, cmd, held, walk, waiters, moved>>

\* Mutant: the reference is kept.
PutTaskForgotten ==
  /\ pc = "put" /\ Access({"task"}) /\ pc' = "idle"
  /\ UNCHANGED <<task, cmd, held, walk, waiters, moved>>

\* put_task_struct() at the end of every path that found the task.
PutTask ==
  /\ pc = "put" /\ Access({"task"})
  /\ held' = held - 1 /\ pc' = "idle"
  /\ UNCHANGED <<task, cmd, walk, waiters, moved>>

\* cmd_rwsem() loads sem->owner.  A writer that holds the semaphore has not
\* exited; of the readers only the last one is recorded, which may have let
\* go, exited and been reaped long ago.
CmdRwsem ==
  /\ pc = "owner" /\ moved' = {}
  /\ \/ pc' \in {"list", "reader"}
     \/ pc' = "writer" /\ task \in {"sleep", "run"}
  /\ UNCHANGED <<task, cmd, held, walk, waiters, bad>>

\* owner->pid and owner->comm, without a reference.
PrintOwner ==
  /\ pc \in {"reader", "writer"} /\ Access({pc}) /\ pc' = "list"
  /\ UNCHANGED <<task, cmd, held, walk, waiters, moved>>

Later(w) == {v \in waiters : v > w}

\* v is what w->list.next leads to, the head after the last waiter.
Follows(v, w) == IF Later(w) = {} THEN v = 0 ELSE v \in Later(w) /\ \A u \in Later(w) : v <= u

\* list_empty(), and list_for_each_entry() without wait_lock.
BeginWalk ==
  /\ pc = "list" /\ moved' = moved \ {"list"}
  /\ cur' \in 0..NWaiters /\ Follows(cur', 0)
  /\ pc' = IF waiters = {} THEN "idle" ELSE "waiter"
  /\ UNCHANGED <<task, cmd, held, fp, frame, reads, waiters, bad>>

\* w->task, then w->task->pid without a reference.
ReadWaiter ==
  /\ pc = "waiter" /\ Access({"waiter"}) /\ pc' = "wtask"
  /\ UNCHANGED <<task, cmd, held, walk, waiters, moved>>
PrintWaiter ==
  /\ pc = "wtask" /\ Access({"waiter", "wtask"}) /\ pc' = "link"
  /\ UNCHANGED <<task, cmd, held, walk, waiters, moved>>

\* Mutant: the walk takes the head of the list for one more waiter.
NextWaiterPastHead ==
  /\ pc = "link" /\ Access({"waiter"})
  /\ cur' \in 0..Wild
  /\ Live("waiter") => IF Later(cur) = {} THEN cur' = Wild ELSE Follows(cur', cur)
  /\ pc' = IF cur' = 0 THEN "idle" ELSE "waiter"
  /\ UNCHANGED <<task, cmd, held, fp, frame, reads, waiters, moved>>

\* w->list.next: of a waiter that has left it may lead anywhere, and again
\* from there.
NextWaiter ==
  /\ pc = "link" /\ Access({"waiter"})
  /\ cur' \in 0..Wild /\ (Live("waiter") => Follows(cur', cur))
  /\ pc' = IF cur' = 0 THEN "idle" ELSE "waiter"
  /\ UNCHANGED <<task, cmd, held, fp, frame, reads, waiters, moved>>

Command == GetTask \/ CheckSleeps \/ Frame \/ ChainEnds \/ Walked \/ Dump \/ ReadMm \/ UseMm
           \/ CmdSched \/ PutTask \/ CmdRwsem \/ PrintOwner \/ BeginWalk \/ ReadWaiter
           \/ PrintWaiter \/ NextWaiter
Next == TaskStep \/ WaiterLeaves \/ CpWrite \/ Command

\* The writer of the command is a running task.
Fairness == WF_vars(Command)
Spec == Init /\ [][Next]_vars /\ Fairness

-----------------------------------------------------------------------------
Unpinned == {"idle", "get", "owner", "reader", "writer", "list", "waiter", "wtask", "link"}

\* get_task(), put_task_struct(): whatever the target does meanwhile, no
\* command touches the freed task_struct of the pid it was given, and none
\* keeps its reference.  The owner and the waiters' tasks are not pinned: of
\* them StableTargetSafe speaks.
TaskPinned == "task" \notin bad /\ (pc \in Unpinned => held = 0)

\* cmd_bt(): the chain may hold garbage, yet no word outside the stack is read.
WalkInBounds == reads \subseteq StackLo..StackHi - 1

\* cmd_bt(), cmd_mm(), cmd_rwsem(): a freed stack or mm, or a writing owner
\* that was reaped, is read only when the task moved between the command's
\* look at it and its use; a waiter that has left, and its task, only when a
\* waiter left during the walk.  For what stays asleep, which the tool is
\* for, these reads are good.  Not so the last of several readers
\* (crash_probe.c:262-265): it may be gone before the command begins.
StableTargetSafe ==
  /\ bad \cap {"stack", "mm", "writer"} # {} => "task" \in moved
  /\ bad \cap {"waiter", "wtask"} # {} => "list" \in moved

\* Every command ends, even on a chain made of garbage, unless the walk of the
\* wait_list has read a waiter that was leaving: from there list_for_each_entry()
\* may never come back to the head (crash_probe.c:279).
CommandEnds == pc # "idle" ~> (pc = "idle" \/ "waiter" \in bad)
-----------------------------------------------------------------------------
TypeOK ==
  /\ task \in {"sleep", "run", "dead", "reaped"}
  /\ cmd \in {"none", "bt", "btf", "mm", "sched", "rwsem"}
  /\ pc \in Unpinned \cup {"bt", "btf", "frame", "walked", "dump", "mm", "mm2", "sched", "put"}
  /\ fp \in Addresses /\ cur \in 0..Wild
  /\ waiters \subseteq 1..NWaiters
  /\ moved \subseteq {"task", "list"}

\* A command holds one reference from get_task() to put_task_struct().
Referenced ==
  /\ held = IF pc \in Unpinned THEN 0 ELSE 1
  /\ pc = "get" => cmd \in {"bt", "btf", "mm", "sched"}

\* btf's dump starts inside the stack.
DumpsStack == pc = "dump" => fp \in StackLo..StackHi

\* As long as nothing moved, what the command looked at is still as it was.
Untouched ==
  /\ pc \in {"get", "bt", "btf", "mm", "sched", "owner"} => bad = {}
  /\ "task" \notin moved =>
       /\ bad \cap {"stack", "mm", "writer"} = {}
       /\ pc \in {"frame", "walked", "dump"} => task = "sleep"
       /\ pc \in {"mm2", "writer"} => task \in {"sleep", "run"}
  /\ pc \in {"reader", "writer", "list"} => bad \cap {"waiter", "wtask"} = {}
  /\ "list" \notin moved =>
       /\ bad \cap {"waiter", "wtask"} = {}
       /\ pc \in {"waiter", "wtask", "link"} => cur \in waiters

CrashInv == TypeOK /\ Referenced /\ DumpsStack /\ Untouched /\ TaskPinned /\ WalkInBounds
=============================================================================
