------------------------------ MODULE RwsemLab ------------------------------
(***************************************************************************)
(* experiments/rwsem_lab.c.                                                *)
(*   mode 1: rwsem_holder takes lab_sem for writing and keeps it, then     *)
(*           rwsem_rd1 waits to read and rwsem_wr2 to write; rmmod makes   *)
(*           the holder let go and stops the three threads.                *)
(*   mode 2: insmod itself takes mmap_lock for writing and then for        *)
(*           reading, and never returns.                                   *)
(* Mode 3 stands for experiments/arm64_lab.c, which is mode 1 but for its  *)
(* reader, lab_main(): on the way to down_read() it goes through three     *)
(* functions that each store their frame address for lab_init() to print.  *)
(*                                                                         *)
(* The rw_semaphore is external: one writer or several readers, a FIFO     *)
(* wait_list; kthread_run() yields a thread or an error pointer.           *)
(***************************************************************************)
EXTENDS Naturals, Sequences, FiniteSets, SequencesExt

CONSTANTS
  Modes,           \* values of the module parameter mode to explore
  Timeliness,      \* values of timely to explore
  MayFailThread    \* TRUE: kthread_run() may return an error pointer

Threads == {"holder", "rd1", "wr2"}
SpawnOrder == <<"holder", "rd1", "wr2">>
StopOrder == <<"rd1", "wr2", "holder">>
Writers == {"holder", "wr2", "insmod"}   \* who calls down_write()

VARIABLES
  mode, phase,
  timely,      \* the msleep() calls of lab_init() are long enough for the
               \* thread started before them to reach lab_sem
  spawning, stopping,   \* threads lab_init() / lab_exit() have still to handle
  pc,          \* per thread
  writer,      \* who holds the semaphore for writing: a set of at most one
  readers,     \* who holds it for reading
  waitList,    \* sem->wait_list, in order
  releaseNow,  \* release_now
  stop,        \* threads with the should-stop bit set
  frames,      \* how many of fp_main, fp_func1 and fp_func2 are stored
  answer       \* how many of them lab_init() printed, 0 before

vars == <<mode, timely, phase, spawning, stopping, pc, writer, readers, waitList, releaseNow, stop,
          frames, answer>>
sem == <<writer, readers, waitList>>
fp == <<frames, answer>>

Init ==
  /\ mode = 0 /\ timely = FALSE /\ phase = "absent"
  /\ spawning = SpawnOrder /\ stopping = StopOrder
  /\ pc = [t \in Threads |-> "none"]
  /\ writer = {} /\ readers = {} /\ waitList = <<>>
  /\ releaseNow = FALSE /\ stop = {} /\ frames = 0 /\ answer = 0

-----------------------------------------------------------------------------
(* lab_init().                                                             *)

Load ==
  /\ phase = "absent" /\ phase' = "init"
  /\ mode' \in Modes /\ timely' \in Timeliness
  /\ UNCHANGED <<spawning, stopping, pc, sem, releaseNow, stop, fp>>

\* The thread started last sits where the following sleep expects it.
Arrived(t) == pc[t] \in {"err", "waiting", "holding", "loop", "exited"}

Spawn ==
  /\ phase = "init" /\ mode \in {1, 3} /\ spawning # <<>>
  /\ timely => \A t \in Threads : pc[t] = "none" \/ Arrived(t)
  /\ \/ pc' = [pc EXCEPT ![Head(spawning)] = "new"]
     \/ MayFailThread /\ pc' = [pc EXCEPT ![Head(spawning)] = "err"]
  /\ spawning' = Tail(spawning)
  /\ UNCHANGED <<mode, timely, phase, stopping, sem, releaseNow, stop, fp>>

\* The pids are printed; "th ? th->pid : -1" follows an error pointer.
InitDone ==
  /\ phase = "init" /\ mode \in {1, 3} /\ spawning = <<>>
  /\ timely => \A t \in Threads : Arrived(t)
  /\ phase' = IF \E t \in Threads : pc[t] = "err" THEN "oops" ELSE "loaded"
  /\ answer' = frames
  /\ UNCHANGED <<mode, timely, spawning, stopping, pc, sem, releaseNow, stop, frames>>

\* book_case(): get_task_mm() or kmalloc() failed: insmod fails, lock free.
BookFails ==
  /\ phase = "init" /\ mode = 2
  /\ phase' = "failed"
  /\ UNCHANGED <<mode, timely, spawning, stopping, pc, sem, releaseNow, stop, fp>>

\* book_case() holds mmap_lock for writing ...
BookDownWrite ==
  /\ phase = "init" /\ mode = 2
  /\ writer' = {"insmod"} /\ phase' = "book"
  /\ UNCHANGED <<mode, timely, spawning, stopping, pc, readers, waitList, releaseNow, stop, fp>>

\* ... and create_oops() queues it as a reader of the same lock.
CreateOops ==
  /\ phase = "book"
  /\ waitList' = Append(waitList, "insmod") /\ phase' = "stuck"
  /\ UNCHANGED <<mode, timely, spawning, stopping, pc, writer, readers, releaseNow, stop, fp>>

-----------------------------------------------------------------------------
(* holder_fn(), reader_fn() with lab_create_oops(), writer2_fn().          *)

CanGet(t) == writer = {} /\ (t \in Writers => readers = {})
Get(t) == IF t \in Writers
          THEN writer' = {t} /\ UNCHANGED readers
          ELSE readers' = readers \cup {t} /\ UNCHANGED writer

\* arm64_lab.c: lab_main() calls lab_func1(), which calls lab_func2().
Frame ==
  /\ mode = 3 /\ pc["rd1"] = "new" /\ frames < 3
  /\ "rd1" \in stop => frames > 0
  /\ frames' = frames + 1
  /\ UNCHANGED <<mode, timely, phase, spawning, stopping, pc, sem, releaseNow, stop, answer>>
\* The thread is at its down_read() or down_write().
AtDown(t) == pc[t] = "new" /\ (mode = 3 /\ t = "rd1" => frames = 3)
\* It was stopped before it ever ran, and its function is never entered.
Unborn(t) == pc[t] = "new" /\ t \in stop /\ (t = "rd1" => frames = 0)

\* Mutant: waiters are queued at the front.
DownLifo(t) ==
  /\ AtDown(t) /\ ~Unborn(t)
  /\ \/ /\ CanGet(t) /\ waitList = <<>>
        /\ Get(t)
        /\ pc' = [pc EXCEPT ![t] = "holding"]
        /\ UNCHANGED waitList
     \/ /\ ~(CanGet(t) /\ waitList = <<>>)
        /\ waitList' = <<t>> \o waitList
        /\ pc' = [pc EXCEPT ![t] = "waiting"]
        /\ UNCHANGED <<writer, readers>>
  /\ UNCHANGED <<mode, timely, phase, spawning, stopping, releaseNow, stop, fp>>

\* The thread function is entered (not when stopped before it ever ran) and
\* calls down_write() or down_read(): at once when free, else it queues up.
Down(t) ==
  /\ \/ /\ Unborn(t)
        /\ pc' = [pc EXCEPT ![t] = "exited"]
        /\ UNCHANGED sem
     \/ /\ AtDown(t) /\ ~Unborn(t) /\ CanGet(t) /\ waitList = <<>>
        /\ Get(t)
        /\ pc' = [pc EXCEPT ![t] = "holding"]
        /\ UNCHANGED waitList
     \/ /\ AtDown(t) /\ ~Unborn(t) /\ ~(CanGet(t) /\ waitList = <<>>)
        /\ waitList' = Append(waitList, t)
        /\ pc' = [pc EXCEPT ![t] = "waiting"]
        /\ UNCHANGED <<writer, readers>>
  /\ UNCHANGED <<mode, timely, phase, spawning, stopping, releaseNow, stop, fp>>

\* The first waiter gets the semaphore once it is free for it.
Granted(t) ==
  /\ pc[t] = "waiting" /\ Head(waitList) = t /\ CanGet(t)
  /\ Get(t)
  /\ waitList' = Tail(waitList)
  /\ pc' = [pc EXCEPT ![t] = "holding"]
  /\ UNCHANGED <<mode, timely, phase, spawning, stopping, releaseNow, stop, fp>>

Release(t) == writer' = writer \ {t} /\ readers' = readers \ {t}

\* up_write() or up_read(); the holder first polls release_now.
Up(t) ==
  /\ pc[t] = "holding"
  /\ t = "holder" => releaseNow \/ t \in stop
  /\ Release(t)
  /\ pc' = [pc EXCEPT ![t] = "loop"]
  /\ UNCHANGED <<mode, timely, phase, spawning, stopping, waitList, releaseNow, stop, fp>>

\* while (!kthread_should_stop()) msleep(100);
Loop(t) ==
  /\ pc[t] = "loop" /\ t \in stop
  /\ pc' = [pc EXCEPT ![t] = "exited"]
  /\ UNCHANGED <<mode, timely, phase, spawning, stopping, sem, releaseNow, stop, fp>>

-----------------------------------------------------------------------------
(* lab_exit().                                                             *)

Rmmod ==
  /\ phase = "loaded" /\ mode \in {1, 3}
  /\ releaseNow' = TRUE /\ phase' = "stop"
  /\ UNCHANGED <<mode, timely, spawning, stopping, pc, sem, stop, fp>>

\* kthread_stop() of a thread sets the stop bit ...
KthreadStop ==
  /\ phase = "stop" /\ stopping # <<>> /\ Head(stopping) \notin stop
  /\ stop' = stop \cup {Head(stopping)}
  /\ UNCHANGED <<mode, timely, phase, spawning, stopping, pc, sem, releaseNow, fp>>

\* ... and waits until it has exited.
KthreadJoin ==
  /\ phase = "stop" /\ stopping # <<>> /\ Head(stopping) \in stop
  /\ pc[Head(stopping)] = "exited"
  /\ stopping' = Tail(stopping)
  /\ UNCHANGED <<mode, timely, phase, spawning, pc, sem, releaseNow, stop, fp>>

ExitDone ==
  /\ phase = "stop" /\ stopping = <<>>
  /\ phase' = "unloaded"
  /\ UNCHANGED <<mode, timely, spawning, stopping, pc, sem, releaseNow, stop, fp>>

\* Final: unloaded, load failed, crashed, or insmod stuck as mode 2 intends.
Final == phase \in {"unloaded", "failed", "oops", "stuck"} /\ UNCHANGED vars

-----------------------------------------------------------------------------
Run(t) == Down(t) \/ Granted(t) \/ Up(t) \/ Loop(t) \/ (t = "rd1" /\ Frame)
Insmod == Spawn \/ InitDone
Book == BookFails \/ BookDownWrite \/ CreateOops
Exit == KthreadStop \/ KthreadJoin \/ ExitDone

Next ==
  \/ Load \/ Insmod \/ Book \/ Rmmod \/ Exit \/ Final
  \/ \E t \in Threads : Run(t)

\* Threads are scheduled and their sleeps end; insmod and rmmod are up to the user.
Fairness ==
  /\ WF_vars(Insmod) /\ WF_vars(Book) /\ WF_vars(Exit)
  /\ \A t \in Threads : WF_vars(Run(t))

Spec == Init /\ [][Next]_vars /\ Fairness

-----------------------------------------------------------------------------
TypeOK ==
  /\ mode \in Modes \cup {0} /\ timely \in BOOLEAN
  /\ phase \in {"absent", "init", "loaded", "failed", "book", "stuck", "stop", "oops", "unloaded"}
  /\ pc \in [Threads -> {"none", "new", "err", "waiting", "holding", "loop", "exited"}]
  /\ writer \subseteq Writers /\ readers \subseteq Threads
  /\ ToSet(waitList) \subseteq Threads \cup {"insmod"}
  /\ releaseNow \in BOOLEAN /\ stop \subseteq Threads /\ frames \in 0..3 /\ answer \in 0..3

\* "exactly two waiters of different types on wait_list": what mode 1 shows
\* between insmod and rmmod; arm64_lab.c shows the same, and its insmod
\* printed all three frame addresses.
TwoWaiters ==
  timely /\ phase = "loaded" =>
    /\ writer = {"holder"} /\ waitList = <<"rd1", "wr2">>
    /\ mode = 3 => answer = 3

\* "the holder lets go, the three threads exit one after the other, and the
\* machine is clean": rmmod ends with every thread gone and lab_sem free.
CleanUnload ==
  phase = "unloaded" =>
    /\ \A t \in Threads : pc[t] = "exited"
    /\ writer = {} /\ readers = {} /\ waitList = <<>>

\* rmmod returns, whatever the threads had reached when it was called.
RmmodReturns == (phase = "stop") ~> (phase = "unloaded")

-----------------------------------------------------------------------------
(* The inductive invariant.                                                *)

\* lab_init() has created the threads it no longer lists.
Spawned ==
  /\ spawning \in {<<"holder", "rd1", "wr2">>, <<"rd1", "wr2">>, <<"wr2">>, <<>>}
  /\ \A t \in Threads : pc[t] = "none" <=> \E i \in 1..Len(spawning) : spawning[i] = t
  /\ phase = "absent" => mode = 0 /\ spawning = SpawnOrder
  /\ phase # "absent" => mode \in 1..3
  /\ phase \in {"loaded", "stop", "unloaded"} =>
       mode # 2 /\ spawning = <<>> /\ \A t \in Threads : pc[t] # "err"
  /\ mode = 2 => spawning = SpawnOrder
  /\ phase \in {"book", "stuck"} => mode = 2

\* The semaphore and its queue agree with what the threads do.
Semaphore ==
  /\ waitList \in Seq(Threads \cup {"insmod"})
  /\ \A t \in Threads : pc[t] = "holding" <=> t \in writer \cup readers
  /\ \A t \in Threads : pc[t] = "waiting" <=> \E i \in 1..Len(waitList) : waitList[i] = t
  /\ \A i, j \in 1..Len(waitList) : waitList[i] = waitList[j] => i = j
  /\ "insmod" \in writer => mode = 2
  /\ (\E i \in 1..Len(waitList) : waitList[i] = "insmod") => phase = "stuck"

\* rmmod has seen the exit of every thread it no longer lists.
Stopped ==
  /\ stopping \in Seq(Threads)
  /\ phase \notin {"stop", "unloaded"} => stop = {} /\ ~releaseNow /\ stopping = StopOrder
  /\ phase \in {"stop", "unloaded"} =>
       \A t \in Threads : \/ pc[t] = "exited"
                          \/ phase = "stop" /\ \E i \in 1..Len(stopping) : stopping[i] = t

\* While every sleep of lab_init() is long enough and every kthread_run()
\* succeeds, the holder keeps lab_sem and the two others queue up in order.
Queueing ==
  timely /\ mode \in {1, 3} /\ phase \in {"init", "loaded"}
         /\ (\A t \in Threads : pc[t] # "err") =>
    /\ pc["holder"] \in {"none", "new", "holding"}
    /\ pc["rd1"] \in {"none", "new", "waiting"} /\ pc["wr2"] \in {"none", "new", "waiting"}
    /\ pc["rd1"] # "none" => pc["holder"] = "holding"
    /\ pc["wr2"] # "none" => pc["rd1"] = "waiting"
    /\ readers = {} /\ writer = IF pc["holder"] = "holding" THEN {"holder"} ELSE {}
    /\ waitList = IF pc["rd1"] # "waiting" THEN <<>>
                  ELSE IF pc["wr2"] # "waiting" THEN <<"rd1">> ELSE <<"rd1", "wr2">>
    /\ mode = 3 /\ pc["rd1"] = "waiting" => frames = 3
    /\ phase = "loaded" => /\ pc["wr2"] = "waiting"
                           /\ mode = 3 => answer = 3

RwInv == TypeOK /\ Spawned /\ Semaphore /\ Stopped /\ Queueing
=============================================================================
