-------------------------------- MODULE DlLab --------------------------------
(***************************************************************************)
(* experiments/dl_lab.c: deadlocks that are meant to undo themselves.      *)
(*   mode 1: one thread locks mutex_a twice; a watchdog sends SIGKILL      *)
(*   mode 2: two threads lock mutex_a and mutex_b crosswise; watchdog      *)
(*   mode 3: the same with trylock until escape_ms has passed              *)
(*   mode 4: mutex_a is held across cancel_delayed_work_sync() of a work   *)
(*           item that wants mutex_a and gives up after escape_ms          *)
(* (mode 0 runs to its end inside insmod and shares nothing.)              *)
(*                                                                         *)
(* Kernel mutexes, signals and kthread_stop() are external: a signal sent  *)
(* to a kthread that has not called allow_signal() is dropped, and a       *)
(* kthread that is stopped before it ran never enters its function.        *)
(***************************************************************************)
EXTENDS Naturals, Sequences, FiniteSets, SequencesExt

CONSTANTS
  Modes,         \* values of the module parameter mode to explore
  Timeliness     \* values of timely to explore

Threads == {"ab", "ba", "aa", "watch", "book"}
Mutexes == {"mutex_a", "mutex_b"}
NoOwner == "none"

VARIABLES
  mode, phase,
  timely,      \* created threads get to run before escape_ms is over and
               \* before rmmod is called
  pc,          \* per thread: "none" (never created), "new", ..., "exited"
  owner,       \* per mutex: the thread, or "worker", that holds it
  allowed,     \* threads that called allow_signal(SIGKILL)
  pending,     \* threads with SIGKILL pending
  stop,        \* threads with the kthread should-stop bit set
  kills,       \* watchdog_fn(): threads it has still to signal
  work,        \* delay_task: "idle", "queued", "try", "hold"
  stopping     \* dl_lab_exit(): threads it has still to stop, in order

vars == <<mode, timely, phase, pc, owner, allowed, pending, stop, kills, work, stopping>>

\* The threads dl_lab_init() creates, in the order dl_lab_exit() stops them.
ThreadsOf(m) == CASE m = "aa"   -> <<"watch", "aa">>
                  [] m = "abba" -> <<"watch", "ab", "ba">>
                  [] m = "try"  -> <<"ab", "ba">>
                  [] m = "book" -> <<"book">>
Created == {t \in Threads : pc[t] # "none"}

FirstOf(t) == IF t = "ba" THEN "mutex_b" ELSE "mutex_a"
SecondOf(t) == IF t = "ab" THEN "mutex_b" ELSE "mutex_a"
Goto(t, l) == pc' = [pc EXCEPT ![t] = l]

Init ==
  /\ mode = "none" /\ timely = FALSE /\ phase = "absent"
  /\ pc = [t \in Threads |-> "none"] /\ owner = [x \in Mutexes |-> NoOwner]
  /\ allowed = {} /\ pending = {} /\ stop = {}
  /\ kills = <<>> /\ work = "idle" /\ stopping = <<>>

\* dl_lab_init(): the kthread_run() calls of the mode given to insmod.
Insmod ==
  /\ phase = "absent" /\ phase' = "loaded"
  /\ mode' \in Modes /\ timely' \in Timeliness
  /\ pc' = [t \in Threads |-> IF t \in ToSet(ThreadsOf(mode')) THEN "new" ELSE "none"]
  /\ UNCHANGED <<owner, allowed, pending, stop, kills, work, stopping>>

\* kthread(): enter the thread function unless the stop bit is already set.
\* aa_mutex_fn() and abba_fn() call allow_signal() first.
Enter(t) ==
  /\ pc[t] = "new"
  /\ \/ /\ t \in stop
        /\ Goto(t, "exited") /\ UNCHANGED allowed
     \/ /\ t \notin stop
        /\ Goto(t, IF t = "watch" THEN "sleep" ELSE "lock1")
        /\ allowed' = IF t \in {"ab", "ba", "aa"} THEN allowed \cup {t} ELSE allowed
  /\ UNCHANGED <<mode, timely, phase, owner, pending, stop, kills, work, stopping>>

-----------------------------------------------------------------------------
(* aa_mutex_fn(), abba_fn() and book_thread().                             *)

\* mutex_lock() of the first mutex; book_thread() then queues delay_task.
Lock1(t) ==
  /\ pc[t] = "lock1" /\ owner[FirstOf(t)] = NoOwner
  /\ owner' = [owner EXCEPT ![FirstOf(t)] = t]
  /\ work' = IF t = "book" THEN "queued" ELSE work
  /\ Goto(t, IF t = "book" THEN "cancel" ELSE "lock2")
  /\ UNCHANGED <<mode, timely, phase, allowed, pending, stop, kills, stopping>>

\* mutex_lock_interruptible() or mutex_trylock() gets the second mutex.
Lock2Get(t) ==
  /\ t \in {"ab", "ba"} /\ pc[t] = "lock2" /\ owner[SecondOf(t)] = NoOwner
  /\ owner' = [owner EXCEPT ![SecondOf(t)] = t]
  /\ Goto(t, "unlock2")
  /\ UNCHANGED <<mode, timely, phase, allowed, pending, stop, kills, work, stopping>>

\* Mutant: "if (!ret)" is missing before the second mutex is unlocked.
Lock2IntrUnlocks(t) ==
  /\ mode = "abba" /\ pc[t] = "lock2" /\ owner[SecondOf(t)] # NoOwner
  /\ t \in pending
  /\ Goto(t, "unlock2")
  /\ UNCHANGED <<mode, timely, phase, owner, allowed, pending, stop, kills, work, stopping>>

\* ... or the mutex is taken and the signal ends the wait with -EINTR.
Lock2Intr(t) ==
  /\ mode = "abba" /\ t \in {"ab", "ba"} /\ pc[t] = "lock2"
  /\ owner[SecondOf(t)] # NoOwner /\ t \in pending
  /\ Goto(t, "unlock1")
  /\ UNCHANGED <<mode, timely, phase, owner, allowed, pending, stop, kills, work, stopping>>

\* mode 3: escape_ms is over, or the thread is told to stop.
TryEscape(t) ==
  /\ mode = "try" /\ pc[t] = "lock2"
  /\ Goto(t, "unlock1")
  /\ UNCHANGED <<mode, timely, phase, owner, allowed, pending, stop, kills, work, stopping>>

\* mode 1: the second lock sees the thread's own lock and sleeps, or returns
\* -EINTR at once when the signal is already there.
AaLock2 ==
  /\ pc["aa"] = "lock2"
  /\ Goto("aa", IF "aa" \in pending THEN "unlock1" ELSE "asleep")
  /\ UNCHANGED <<mode, timely, phase, owner, allowed, pending, stop, kills, work, stopping>>

\* SIGKILL wakes it, and __mutex_trylock_or_handoff() takes owner == current
\* for success: ret is 0 and two mutex_unlock() calls follow.
AaWake ==
  /\ pc["aa"] = "asleep" /\ "aa" \in pending
  /\ Goto("aa", "unlock2")
  /\ UNCHANGED <<mode, timely, phase, owner, allowed, pending, stop, kills, work, stopping>>

\* mutex_unlock() by whoever calls it; without debugging nothing checks that.
Unlock2(t) ==
  /\ pc[t] = "unlock2"
  /\ owner' = [owner EXCEPT ![SecondOf(t)] = NoOwner]
  /\ Goto(t, "unlock1")
  /\ UNCHANGED <<mode, timely, phase, allowed, pending, stop, kills, work, stopping>>

Unlock1(t) ==
  /\ pc[t] = "unlock1"
  /\ owner' = [owner EXCEPT ![FirstOf(t)] = NoOwner]
  /\ Goto(t, "loop")
  /\ UNCHANGED <<mode, timely, phase, allowed, pending, stop, kills, work, stopping>>

\* cancel_delayed_work_sync() under mutex_a: take the work off its queue or
\* wait until it has run.
CancelSync ==
  /\ pc["book"] = "cancel" /\ work \in {"idle", "queued"}
  /\ work' = "idle"
  /\ Goto("book", "unlock1")
  /\ UNCHANGED <<mode, timely, phase, owner, allowed, pending, stop, kills, stopping>>

\* while (!kthread_should_stop()) msleep(50); return 0;
Loop(t) ==
  /\ pc[t] = "loop" /\ t \in stop
  /\ Goto(t, "exited")
  /\ UNCHANGED <<mode, timely, phase, owner, allowed, pending, stop, kills, work, stopping>>

-----------------------------------------------------------------------------
(* book_worker() and watchdog_fn().                                        *)

WorkStart ==
  /\ work = "queued" /\ work' = "try"
  /\ UNCHANGED <<mode, timely, phase, pc, owner, allowed, pending, stop, kills, stopping>>

WorkTryLock ==
  /\ work = "try" /\ owner["mutex_a"] = NoOwner
  /\ owner' = [owner EXCEPT !["mutex_a"] = "worker"]
  /\ work' = "hold"
  /\ UNCHANGED <<mode, timely, phase, pc, allowed, pending, stop, kills, stopping>>

\* Mutant: the worker waits for the mutex without a limit.
WorkNeverGivesUp ==
  /\ work = "try" /\ owner["mutex_a"] = NoOwner
  /\ work' = "idle"
  /\ UNCHANGED <<mode, timely, phase, pc, owner, allowed, pending, stop, kills, stopping>>

\* Waited longer than escape_ms: return, so that the canceller can go on.
WorkGiveUp ==
  /\ work = "try" /\ owner["mutex_a"] # NoOwner
  /\ work' = "idle"
  /\ UNCHANGED <<mode, timely, phase, pc, owner, allowed, pending, stop, kills, stopping>>

WorkUnlock ==
  /\ work = "hold" /\ work' = "idle"
  /\ owner' = [owner EXCEPT !["mutex_a"] = NoOwner]
  /\ UNCHANGED <<mode, timely, phase, pc, allowed, pending, stop, kills, stopping>>

\* msleep(escape_ms) is over.
WatchFire ==
  /\ pc["watch"] = "sleep"
  /\ timely => \A t \in Created : pc[t] # "new" /\ (t # "watch" => pc[t] # "lock1")
  /\ kills' = SelectSeq(<<"ab", "ba", "aa">>, LAMBDA t : t \in Created)
  /\ Goto("watch", "kill")
  /\ UNCHANGED <<mode, timely, phase, owner, allowed, pending, stop, work, stopping>>

\* Mutant: the watchdog's signals are not delivered.
SendSigNothing ==
  /\ pc["watch"] = "kill" /\ kills # <<>>
  /\ kills' = Tail(kills)
  /\ Goto("watch", IF Tail(kills) = <<>> THEN "loop" ELSE "kill")
  /\ UNCHANGED <<mode, timely, phase, owner, allowed, pending, stop, work, stopping>>

\* send_sig(SIGKILL, ...), one thread after the other.
SendSig ==
  /\ pc["watch"] = "kill" /\ kills # <<>>
  /\ pending' = pending \cup ({Head(kills)} \cap allowed)
  /\ kills' = Tail(kills)
  /\ Goto("watch", IF Tail(kills) = <<>> THEN "loop" ELSE "kill")
  /\ UNCHANGED <<mode, timely, phase, owner, allowed, stop, work, stopping>>

-----------------------------------------------------------------------------
(* dl_lab_exit().                                                          *)

Rmmod ==
  /\ phase = "loaded" /\ phase' = "stop"
  /\ timely => \A t \in Created : pc[t] # "new"
  /\ stopping' = ThreadsOf(mode)
  /\ UNCHANGED <<mode, timely, pc, owner, allowed, pending, stop, kills, work>>

\* kthread_stop() sets the stop bit and wakes the thread ...
KthreadStop ==
  /\ phase = "stop" /\ stopping # <<>> /\ Head(stopping) \notin stop
  /\ stop' = stop \cup {Head(stopping)}
  /\ UNCHANGED <<mode, timely, phase, pc, owner, allowed, pending, kills, work, stopping>>

\* Mutant: the exit function goes on without waiting for the thread.
KthreadNotJoined ==
  /\ phase = "stop" /\ stopping # <<>> /\ Head(stopping) \in stop
  /\ stopping' = Tail(stopping)
  /\ UNCHANGED <<mode, timely, phase, pc, owner, allowed, pending, stop, kills, work>>

\* ... and waits for it to exit.
KthreadJoin ==
  /\ phase = "stop" /\ stopping # <<>> /\ Head(stopping) \in stop
  /\ pc[Head(stopping)] = "exited"
  /\ stopping' = Tail(stopping)
  /\ UNCHANGED <<mode, timely, phase, pc, owner, allowed, pending, stop, kills, work>>

\* mode 4: cancel_delayed_work_sync() once more; then the text is freed.
ExitDone ==
  /\ phase = "stop" /\ stopping = <<>>
  /\ mode = "book" => work \in {"idle", "queued"}
  /\ work' = "idle"
  /\ phase' = "unloaded"
  /\ UNCHANGED <<mode, timely, pc, owner, allowed, pending, stop, kills, stopping>>

Unloaded == phase = "unloaded" /\ UNCHANGED vars

-----------------------------------------------------------------------------
Run(t) ==
  \/ Enter(t) \/ Lock1(t) \/ Lock2Get(t) \/ Lock2Intr(t) \/ TryEscape(t)
  \/ Unlock2(t) \/ Unlock1(t) \/ Loop(t)
Aa == AaLock2 \/ AaWake
Worker == WorkStart \/ WorkTryLock \/ WorkGiveUp \/ WorkUnlock
Watch == WatchFire \/ SendSig
Exit == KthreadStop \/ KthreadJoin \/ ExitDone

Next ==
  \/ Insmod \/ Rmmod \/ Aa \/ CancelSync \/ Worker \/ Watch \/ Exit \/ Unloaded
  \/ \E t \in Threads : Run(t)

\* Every thread that can take a step is scheduled and every sleep ends;
\* nothing forces the user to call insmod or rmmod.
Fairness ==
  /\ WF_vars(Aa) /\ WF_vars(CancelSync)
  /\ WF_vars(Worker) /\ WF_vars(Watch) /\ WF_vars(Exit)
  /\ \A t \in Threads : WF_vars(Run(t))

Spec == Init /\ [][Next]_vars /\ Fairness

-----------------------------------------------------------------------------
TypeOK ==
  /\ mode \in Modes \cup {"none"} /\ timely \in BOOLEAN
  /\ phase \in {"absent", "loaded", "stop", "unloaded"}
  /\ pc \in [Threads -> {"none", "new", "lock1", "lock2", "asleep", "unlock2", "unlock1",
                         "cancel", "sleep", "kill", "loop", "exited"}]
  /\ owner \in [Mutexes -> Threads \cup {NoOwner, "worker"}]
  /\ allowed \subseteq Threads /\ pending \subseteq allowed /\ stop \subseteq Threads
  /\ work \in {"idle", "queued", "try", "hold"}

\* A mutex is unlocked only by the thread that holds it.  (In mode 1 the
\* recursive lock is only pretended to be taken, so its double unlock is the
\* experiment itself.)
UnlockByOwner ==
  \A t \in Threads :
    /\ pc[t] = "unlock2" /\ t # "aa" => owner[SecondOf(t)] = t
    /\ pc[t] = "unlock1" /\ t # "aa" => owner[FirstOf(t)] = t

\* After rmmod no mutex is held, no thread is inside the module's functions
\* and the work item neither runs nor is queued.
UnloadClean ==
  phase = "unloaded" =>
    /\ \A x \in Mutexes : owner[x] = NoOwner
    /\ \A t \in Created : pc[t] = "exited"
    /\ work = "idle"

\* The circular wait each mode builds.
Deadlocked ==
  \/ pc["ab"] = "lock2" /\ pc["ba"] = "lock2"
       /\ owner["mutex_a"] = "ab" /\ owner["mutex_b"] = "ba"
  \/ pc["aa"] = "asleep"
  \/ pc["book"] = "cancel" /\ work = "try" /\ owner["mutex_a"] = "book"

\* Modes 1 and 2 rely on a signal that is lost on a thread that is late.
Dependable == timely \/ mode \in {"try", "book"}

\* "a way that can undo itself": no deadlock lasts.
DeadlockResolved == Dependable /\ Deadlocked ~> ~Deadlocked

\* rmmod returns.
RmmodReturns == Dependable /\ phase = "stop" ~> phase = "unloaded"

\* "lest tasks in D state remain that cannot be reclaimed": rmmod returns
\* however late the threads of modes 1 and 2 get to run.
NothingLeftBehind == (phase = "stop") ~> (phase = "unloaded")

-----------------------------------------------------------------------------
(* The inductive invariant.                                                *)

LabModes == {"aa", "abba", "try", "book"}

\* The threads are those of the mode, and each stays in its function.
Places ==
  /\ mode \in LabModes \cup {"none"} /\ (mode = "none" <=> phase = "absent")
  /\ mode = "none" => \A t \in Threads : pc[t] = "none"
  /\ mode # "none" => \A t \in Threads : pc[t] # "none" <=> t \in ToSet(ThreadsOf(mode))
  /\ pc["watch"] \in {"none", "new", "sleep", "kill", "loop", "exited"}
  /\ pc["book"] \in {"none", "new", "lock1", "cancel", "unlock1", "loop", "exited"}
  /\ pc["aa"] # "cancel"
  /\ \A t \in {"ab", "ba"} : pc[t] \notin {"asleep", "cancel"}
  /\ \A t \in Threads \ {"watch"} : pc[t] \notin {"sleep", "kill"}

\* Who holds a mutex follows from where the threads are.
Owners ==
  /\ \A t \in {"ab", "ba"} :
       /\ owner[FirstOf(t)] = t <=> pc[t] \in {"lock2", "unlock2", "unlock1"}
       /\ owner[SecondOf(t)] = t <=> pc[t] = "unlock2"
  /\ owner["mutex_a"] = "book" <=> pc["book"] \in {"cancel", "unlock1"}
  /\ owner["mutex_a"] = "aa" => pc["aa"] \in {"lock2", "asleep", "unlock2", "unlock1"}
  /\ owner["mutex_a"] = "worker" <=> work = "hold"
  /\ owner["mutex_a"] # "watch"
  /\ owner["mutex_b"] \in {NoOwner, "ab", "ba"}

\* rmmod has stopped every thread it no longer lists, and only mode 4 has work.
Stopped ==
  /\ work # "idle" => mode = "book"
  /\ stopping \in Seq(Threads)
  /\ phase \in {"stop", "unloaded"} =>
       \A t \in Threads : \/ pc[t] \in {"none", "exited"}
                          \/ phase = "stop" /\ \E i \in 1..Len(stopping) : stopping[i] = t
  /\ phase = "unloaded" => work = "idle"

DlInv == TypeOK /\ Places /\ Owners /\ Stopped
=============================================================================
