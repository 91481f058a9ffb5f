------------------------------- MODULE RcuDemo -------------------------------
(***************************************************************************)
(* experiments/rcu_demo.c, mode 0: a reader thread dereferences g_ptr      *)
(* inside rcu_read_lock(), a writer thread publishes a modified copy and   *)
(* hands the old object to call_rcu(), insmod waits for both threads, and  *)
(* rmmod takes the last object down and drains the callbacks.              *)
(*                                                                         *)
(* RCU itself is external: a callback registered by call_rcu() may run     *)
(* once every reader that was inside its critical section at that moment   *)
(* has left it; synchronize_rcu() and rcu_barrier() wait accordingly.      *)
(***************************************************************************)
EXTENDS Integers, FiniteSets

CONSTANTS
  Readers,         \* reader threads; rcu_demo.c starts one
  Rounds,          \* module parameter rounds
  MayFailThread    \* TRUE: kthread_run() may return an error pointer

ASSUME RcuDemoAssumption ==
  /\ IsFiniteSet(Readers) /\ Readers # {}
  /\ Rounds \in Nat
  /\ MayFailThread \in BOOLEAN

Objs == 0..Rounds    \* one object at load time and one per writer round
Null == -1

VARIABLES
  phase,     \* the insmod / rmmod thread
  g_ptr,     \* struct foo __rcu *g_ptr
  mem,       \* per object: "none" (not allocated), "alive" or "freed"
  a,         \* per object: its field a; -1 while not initialised
  rpc,       \* readers: program counter
  p,         \* readers: the pointer rcu_dereference() gave
  ri,        \* readers: loop count
  seen,      \* readers: history of the last value read
  wpc,       \* writer: program counter
  wi,        \* writer: loop count, also the object this round allocates
  old,       \* writer: the object being replaced
  cbs,       \* registered callbacks: old object -> readers it waits for
  gp,        \* readers synchronize_rcu() in cleanup_example() waits for
  last,      \* cleanup_example(): the object it took out of g_ptr
  done, nr_freed

wvars == <<wpc, wi, old>>
rvars == <<rpc, p, ri, seen>>
vars == <<phase, g_ptr, mem, a, rvars, wvars, cbs, gp, last, done, nr_freed>>

Inside == {r \in Readers : rpc[r] \in {"locked", "have"}}

\* myrcu_reader_thread() runs "rounds * 2" times.
ReadRounds == 2 * Rounds

Init ==
  /\ phase = "init" /\ g_ptr = Null /\ last = Null
  /\ mem = [o \in Objs |-> "none"] /\ a = [o \in Objs |-> -1]
  /\ rpc = [r \in Readers |-> "none"] /\ p = [r \in Readers |-> Null]
  /\ ri = [r \in Readers |-> 0] /\ seen = [r \in Readers |-> 0]
  /\ wpc = "none" /\ wi = 0 /\ old = Null
  /\ cbs = [o \in {} |-> {}] /\ gp = {}
  /\ done = 0 /\ nr_freed = 0

-----------------------------------------------------------------------------
(* run_example(): allocate, publish, start the threads, wait for them.     *)

\* kzalloc() failed: insmod succeeds without starting anything.
InitNoMem ==
  /\ phase = "init"
  /\ phase' = "loaded"
  /\ UNCHANGED <<g_ptr, mem, a, rvars, wvars, cbs, gp, last, done, nr_freed>>

InitPublish ==
  /\ phase = "init"
  /\ mem' = [mem EXCEPT ![0] = "alive"]
  /\ a' = [a EXCEPT ![0] = 0]
  /\ g_ptr' = 0
  /\ phase' = "spawn"
  /\ UNCHANGED <<rvars, wvars, cbs, gp, last, done, nr_freed>>

\* kthread_run() for both threads; its result is not checked.
Spawn ==
  /\ phase = "spawn"
  /\ \E started \in SUBSET (Readers \cup {"writer"}) :
       /\ ~MayFailThread => started = Readers \cup {"writer"}
       /\ rpc' = [r \in Readers |-> IF r \in started THEN "idle" ELSE "none"]
       /\ wpc' = IF "writer" \in started THEN "idle" ELSE "none"
  /\ phase' = "wait"
  /\ UNCHANGED <<g_ptr, mem, a, p, ri, seen, wi, old, cbs, gp, last, done, nr_freed>>

\* while (atomic_read(&done) < 2) msleep(100);
WaitDone ==
  /\ phase = "wait"
  /\ done = Cardinality(Readers) + 1
  /\ phase' = "loaded"
  /\ UNCHANGED <<g_ptr, mem, a, rvars, wvars, cbs, gp, last, done, nr_freed>>

-----------------------------------------------------------------------------
(* myrcu_reader_thread().                                                  *)

ReadLock(r) ==
  /\ rpc[r] = "idle" /\ ri[r] < ReadRounds
  /\ rpc' = [rpc EXCEPT ![r] = "locked"]
  /\ ri' = [ri EXCEPT ![r] = @ + 1]
  /\ UNCHANGED <<phase, g_ptr, mem, a, p, seen, wvars, cbs, gp, last, done, nr_freed>>

\* p = rcu_dereference(g_ptr);
Dereference(r) ==
  /\ rpc[r] = "locked"
  /\ p' = [p EXCEPT ![r] = g_ptr]
  /\ rpc' = [rpc EXCEPT ![r] = "have"]
  /\ UNCHANGED <<phase, g_ptr, mem, a, ri, seen, wvars, cbs, gp, last, done, nr_freed>>

\* if (p) print p->a; rcu_read_unlock(): every grace period that waited for
\* this reader stops waiting for it.
ReadUnlock(r) ==
  /\ rpc[r] = "have"
  /\ seen' = [seen EXCEPT ![r] = IF p[r] = Null THEN @ ELSE a[p[r]]]
  /\ p' = [p EXCEPT ![r] = Null]
  /\ rpc' = [rpc EXCEPT ![r] = "idle"]
  /\ cbs' = [o \in DOMAIN cbs |-> cbs[o] \ {r}]
  /\ gp' = gp \ {r}
  /\ UNCHANGED <<phase, g_ptr, mem, a, ri, wvars, last, done, nr_freed>>

\* Mutant: the reader returns without atomic_inc(&done).
ReaderDoneSilently(r) ==
  /\ rpc[r] = "idle" /\ ri[r] = ReadRounds
  /\ rpc' = [rpc EXCEPT ![r] = "exited"]
  /\ UNCHANGED <<phase, g_ptr, mem, a, p, ri, seen, wvars, cbs, gp, last, done, nr_freed>>

\* The loop is over: atomic_inc(&done); return.  The thread touches nothing
\* after the increment, but nobody waits for its return either.
ReaderDone(r) ==
  /\ rpc[r] = "idle" /\ ri[r] = ReadRounds
  /\ rpc' = [rpc EXCEPT ![r] = "exited"]
  /\ done' = done + 1
  /\ UNCHANGED <<phase, g_ptr, mem, a, p, ri, seen, wvars, cbs, gp, last, nr_freed>>

-----------------------------------------------------------------------------
(* myrcu_writer_thread().                                                  *)

\* Mutant: the loop runs one round too many.
AllocOneMore ==
  /\ wpc = "idle" /\ wi <= Rounds
  /\ wi' = wi + 1
  /\ mem' = [mem EXCEPT ![wi + 1] = "alive"]
  /\ wpc' = "copy"
  /\ UNCHANGED <<phase, g_ptr, a, rvars, old, cbs, gp, last, done, nr_freed>>

\* kmalloc() of the round's object.
Alloc ==
  /\ wpc = "idle" /\ wi < Rounds
  /\ wi' = wi + 1
  /\ mem' = [mem EXCEPT ![wi + 1] = "alive"]
  /\ wpc' = "copy"
  /\ UNCHANGED <<phase, g_ptr, a, rvars, old, cbs, gp, last, done, nr_freed>>

\* kmalloc() failed (break), or all rounds done: atomic_inc(&done); return.
WriterDone ==
  /\ wpc = "idle"
  /\ wpc' = "exited"
  /\ done' = done + 1
  /\ UNCHANGED <<phase, g_ptr, mem, a, rvars, wi, old, cbs, gp, last, nr_freed>>

\* Mutant: the object is published one step before its field is written.
CopyAfterPublish ==
  /\ wpc = "copy"
  /\ old' = g_ptr
  /\ wpc' = "publish"
  /\ UNCHANGED <<phase, g_ptr, mem, a, rvars, wi, cbs, gp, last, done, nr_freed>>

\* old = g_ptr; *new_ptr = *old; new_ptr->a = value; value starts at 5.
Copy ==
  /\ wpc = "copy"
  /\ old' = g_ptr
  /\ a' = [a EXCEPT ![wi] = 4 + wi]
  /\ wpc' = "publish"
  /\ UNCHANGED <<phase, g_ptr, mem, rvars, wi, cbs, gp, last, done, nr_freed>>

\* rcu_assign_pointer(g_ptr, new_ptr);
Publish ==
  /\ wpc = "publish"
  /\ g_ptr' = wi
  /\ wpc' = "retire"
  /\ UNCHANGED <<phase, mem, a, rvars, wi, old, cbs, gp, last, done, nr_freed>>

\* Mutant: the old object's callback does not wait for a grace period.
CallRcuNoGp ==
  /\ wpc = "retire"
  /\ cbs' = [o \in DOMAIN cbs \cup {old} |-> IF o = old THEN {} ELSE cbs[o]]
  /\ old' = Null
  /\ wpc' = "idle"
  /\ UNCHANGED <<phase, g_ptr, mem, a, rvars, wi, gp, last, done, nr_freed>>

\* call_rcu(&old->rcu, myrcu_del);
CallRcu ==
  /\ wpc = "retire"
  /\ cbs' = [o \in DOMAIN cbs \cup {old} |-> IF o = old THEN Inside ELSE cbs[o]]
  /\ old' = Null
  /\ wpc' = "idle"
  /\ UNCHANGED <<phase, g_ptr, mem, a, rvars, wi, gp, last, done, nr_freed>>

\* Mutant: the callback registers itself again, a polling loop without end.
MyrcuDelRearms(o) ==
  /\ o \in DOMAIN cbs
  /\ cbs[o] = {}
  /\ cbs' = [cbs EXCEPT ![o] = Inside]
  /\ UNCHANGED <<phase, g_ptr, mem, a, rvars, wvars, gp, last, done, nr_freed>>

\* myrcu_del(), after the grace period: kfree() of the old object.
MyrcuDel(o) ==
  /\ o \in DOMAIN cbs
  /\ cbs[o] = {}
  /\ mem' = [mem EXCEPT ![o] = "freed"]
  /\ cbs' = [q \in DOMAIN cbs \ {o} |-> cbs[q]]
  /\ nr_freed' = nr_freed + 1
  /\ UNCHANGED <<phase, g_ptr, a, rvars, wvars, gp, last, done>>

-----------------------------------------------------------------------------
(* rcu_demo_exit() with cleanup_example().                                 *)

\* p = g_ptr; rcu_assign_pointer(g_ptr, NULL); enter synchronize_rcu().
Unpublish ==
  /\ phase = "loaded"
  /\ last' = g_ptr
  /\ g_ptr' = Null
  /\ gp' = Inside
  /\ phase' = "sync"
  /\ UNCHANGED <<mem, a, rvars, wvars, cbs, done, nr_freed>>

\* synchronize_rcu() returns; kfree(p), which may be NULL.
SyncFree ==
  /\ phase = "sync" /\ gp = {}
  /\ mem' = IF last = Null THEN mem ELSE [mem EXCEPT ![last] = "freed"]
  /\ phase' = "barrier"
  /\ UNCHANGED <<g_ptr, a, rvars, wvars, cbs, gp, last, done, nr_freed>>

\* Mutant: no rcu_barrier().
NoBarrier ==
  /\ phase = "barrier"
  /\ phase' = "unloaded"
  /\ UNCHANGED <<g_ptr, mem, a, rvars, wvars, cbs, gp, last, done, nr_freed>>

\* rcu_barrier() returns when no callback is left, and the text is freed.
Barrier ==
  /\ phase = "barrier"
  /\ DOMAIN cbs = {}
  /\ phase' = "unloaded"
  /\ UNCHANGED <<g_ptr, mem, a, rvars, wvars, cbs, gp, last, done, nr_freed>>

Unloaded == phase = "unloaded" /\ UNCHANGED vars

-----------------------------------------------------------------------------
Insmod == InitNoMem \/ InitPublish \/ Spawn \/ WaitDone
Reader(r) == ReadLock(r) \/ Dereference(r) \/ ReadUnlock(r) \/ ReaderDone(r)
Writer == Alloc \/ WriterDone \/ Copy \/ Publish \/ CallRcu
Rmmod == SyncFree \/ Barrier

Next ==
  \/ Insmod \/ Writer \/ Unpublish \/ Rmmod \/ Unloaded
  \/ \E r \in Readers : Reader(r)
  \/ \E o \in Objs : MyrcuDel(o)

\* Threads are scheduled and their sleeps end, grace periods end, callbacks
\* run; nothing forces the user to call rmmod.
Fairness ==
  /\ WF_vars(Insmod) /\ WF_vars(Writer) /\ WF_vars(Rmmod)
  /\ \A r \in Readers : WF_vars(Reader(r))
  /\ \A o \in Objs : WF_vars(MyrcuDel(o))

Spec == Init /\ [][Next]_vars /\ Fairness

-----------------------------------------------------------------------------
TypeOK ==
  /\ phase \in {"init", "spawn", "wait", "loaded", "sync", "barrier", "unloaded"}
  /\ g_ptr \in Objs \cup {Null} /\ last \in Objs \cup {Null}
  /\ mem \in [Objs -> {"none", "alive", "freed"}]
  /\ a \in [Objs -> Int]
  /\ rpc \in [Readers -> {"none", "idle", "locked", "have", "exited"}]
  /\ p \in [Readers -> Objs \cup {Null}]
  /\ ri \in [Readers -> Nat] /\ seen \in [Readers -> Int]
  /\ wpc \in {"none", "idle", "copy", "publish", "retire", "exited"}
  /\ wi \in 0..Rounds /\ old \in Objs \cup {Null}
  /\ DOMAIN cbs \subseteq Objs /\ \A o \in DOMAIN cbs : cbs[o] \subseteq Readers
  /\ gp \subseteq Readers
  /\ done \in Nat /\ nr_freed \in Nat

\* A reader never holds a pointer to an object that has been freed: neither
\* the callback nor cleanup_example() frees one a reader can still reach.
NoUseAfterFree == \A r \in Readers : p[r] # Null => mem[p[r]] = "alive"

\* Readers see published, fully written values, and never an older version
\* after a newer one.
ReadsMoveForward == [][\A r \in Readers : seen'[r] >= seen[r]]_vars

\* After rmmod every object was freed and no callback is left that would run
\* in freed text ("otherwise rmmod will oops").
CleanUnload ==
  phase = "unloaded" => /\ DOMAIN cbs = {}
                        /\ \A o \in Objs : mem[o] # "alive"

\* "runs a few rounds and stops by itself": the insmod that started the
\* threads returns.
InsmodReturns == (phase = "wait") ~> (phase = "loaded")

\* rmmod returns.
RmmodReturns == (phase = "sync") ~> (phase = "unloaded")

\* Both commands return when every thread could be created.
CommandsReturn == InsmodReturns /\ RmmodReturns

-----------------------------------------------------------------------------
(* The inductive invariant behind NoUseAfterFree, CleanUnload and          *)
(* ReadsMoveForward.                                                       *)

\* done counts the threads that have left; so insmod goes on only when all
\* of them have, and the writer is active only while insmod waits.
Exited == {r \in Readers : rpc[r] = "exited"}
Threads ==
  /\ done = Cardinality(Exited) + (IF wpc = "exited" THEN 1 ELSE 0)
  /\ wpc \in {"idle", "copy", "publish", "retire"} => phase = "wait" /\ g_ptr # Null
  /\ phase \in {"init", "spawn"} =>
       wpc = "none" /\ wi = 0 /\ DOMAIN cbs = {} /\ \A r \in Readers : rpc[r] = "none"
  /\ phase = "init" => g_ptr = Null
  /\ phase = "spawn" => g_ptr # Null
  /\ phase \in {"sync", "barrier", "unloaded"} => g_ptr = Null

\* Objects in use were allocated in an earlier round than one being filled.
Used(o) == o <= wi /\ (wpc \in {"copy", "publish"} => o < wi)

\* The published object, the objects with a callback, the writer's and
\* cleanup_example()'s old one are alive and all different.
Objects ==
  /\ g_ptr # Null => mem[g_ptr] = "alive" /\ Used(g_ptr)
  /\ \A o \in DOMAIN cbs : mem[o] = "alive" /\ Used(o) /\ o # g_ptr
  /\ wpc \in {"copy", "publish"} => mem[wi] = "alive" /\ wi # 0
  /\ wpc = "publish" => old = g_ptr
  /\ wpc = "retire" => /\ old # Null /\ mem[old] = "alive" /\ Used(old)
                       /\ old # g_ptr /\ old \notin DOMAIN cbs
  /\ phase = "sync" => last \notin DOMAIN cbs

\* A pointer is held only inside a critical section, and what it points to
\* is published, about to be retired, or waits for this very reader.
Protected(r) ==
  p[r] # Null =>
    /\ rpc[r] = "have"
    /\ mem[p[r]] = "alive"
    /\ \/ p[r] = g_ptr
       \/ wpc = "retire" /\ p[r] = old
       \/ p[r] \in DOMAIN cbs /\ r \in cbs[p[r]]
       \/ phase = "sync" /\ p[r] = last /\ r \in gp

\* Every live object has somebody who will free it or hand it on, so nothing
\* is leaked; and after the last rcu_barrier() nobody registers a callback.
Reclaimed ==
  /\ \A o \in Objs : mem[o] = "alive" =>
       \/ o = g_ptr \/ o \in DOMAIN cbs
       \/ wpc \in {"copy", "publish"} /\ o = wi
       \/ wpc = "retire" /\ o = old
       \/ phase = "sync" /\ o = last
  /\ phase = "unloaded" => DOMAIN cbs = {}

\* The value of an object once its writer round has filled it.
Version(o) == IF o = 0 THEN 0 ELSE 4 + o

\* Whatever is published is filled, and a reader has seen nothing newer than
\* the object it holds or than the one it would get next.
Ordered(r) ==
  /\ g_ptr # Null => a[g_ptr] = Version(g_ptr) /\ seen[r] <= Version(g_ptr)
  /\ wpc = "publish" => a[wi] = Version(wi)
  /\ p[r] # Null => /\ a[p[r]] = Version(p[r]) /\ seen[r] <= Version(p[r])
                    /\ g_ptr # Null => p[r] <= g_ptr
  /\ phase = "init" => seen[r] = 0

IInv ==
  /\ TypeOK /\ Threads /\ Objects /\ Reclaimed
  /\ \A r \in Readers : Protected(r) /\ Ordered(r)
=============================================================================
