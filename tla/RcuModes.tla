------------------------------ MODULE RcuModes -------------------------------
(***************************************************************************)
(* rcu_demo.ko, modes 1 to 3 (mode 0 is RcuDemo): grace periods timed with *)
(* synchronize_rcu(), call_rcu() and rcu_barrier(), an object of a         *)
(* SLAB_TYPESAFE_BY_RCU cache read after it was freed, and a thread that   *)
(* stalls the grace period.  RCU and the slab allocator are external: a    *)
(* grace period ends when every reader that was inside when it began has   *)
(* left, and a slab page whose objects are all free may be given back one  *)
(* grace period later.                                                     *)
(***************************************************************************)
EXTENDS Naturals

CONSTANT Rounds         \* bound: synchronize_rcu() calls of run_timing(), 10 in the code

VARIABLES mode, pc, i,
          inside,       \* the RCU readers inside: "other" (any other task), "stall"
          gp,           \* the readers the current grace period still waits for
          gpOn,         \* a grace period runs
          cb, cbDone,   \* probe_rh: "none", "queued", "ripe", "run"; cb_done
          page,         \* a's slab page: "none", "kept", "leaving", "gone"
          a, b,         \* the two objects: "none", "held", "freed"; b = "same" when reused
          key,          \* the word a points at
          lastRead,     \* what the old pointer a read last
          staller, done

vars == <<mode, pc, i, inside, gp, gpOn, cb, cbDone, page, a, b, key, lastRead, staller, done>>
rcu == <<inside, gp, gpOn>>
timing == <<i, cb, cbDone>>
slab == <<page, a, b, key, lastRead>>
stall == <<staller, done>>

Init ==
    /\ mode = 0 /\ pc = "absent" /\ i = 0
    /\ inside = {} /\ gp = {} /\ gpOn = FALSE
    /\ cb = "none" /\ cbDone = FALSE
    /\ page = "none" /\ a = "none" /\ b = "none" /\ key = 0 /\ lastRead = "none"
    /\ staller = "none" /\ done = 0

TypeOK ==
    /\ mode \in 0..3 /\ i \in 0..(2 * Rounds)
    /\ gp \subseteq inside /\ inside \subseteq {"other", "stall"} /\ gpOn \in BOOLEAN
    /\ cb \in {"none", "queued", "ripe", "run"} /\ cbDone \in BOOLEAN
    /\ page \in {"none", "kept", "leaving", "gone"} /\ done \in 0..1
    /\ staller \in {"none", "new", "inside", "left", "counted", "over"}

(***************************************************************************)
(* External: other tasks' read-side sections, grace periods, and the slab  *)
(* allocator's treatment of a page without objects.                        *)
(***************************************************************************)
OtherReader ==
    /\ pc # "absent"
    /\ inside' = IF "other" \in inside THEN inside \ {"other"} ELSE inside \cup {"other"}
    /\ gp' = gp \cap inside'
    /\ UNCHANGED <<mode, pc, gpOn, timing, slab, stall>>

GpWanted == pc \in {"syncing", "barrier"} \/ cb = "queued" \/ page = "leaving"

GpBegin ==
    /\ ~gpOn /\ GpWanted
    /\ gpOn' = TRUE /\ gp' = inside
    /\ UNCHANGED <<mode, pc, inside, timing, slab, stall>>

GpEnd ==
    /\ gpOn /\ gp = {}
    /\ gpOn' = FALSE
    /\ pc' = IF pc = "syncing" THEN "sync" ELSE pc
    /\ i' = IF pc = "syncing" THEN i + 1 ELSE i
    /\ cb' = IF cb = "queued" THEN "ripe" ELSE cb
    /\ page' = IF page = "leaving" THEN "gone" ELSE page
    /\ UNCHANGED <<mode, inside, gp, cbDone, a, b, key, lastRead, stall>>

PageEmpty == page = "kept" /\ a # "held" /\ b \notin {"held", "same"}

PageLeaves ==
    /\ PageEmpty /\ ~gpOn
    /\ page' = "leaving"
    /\ UNCHANGED <<mode, pc, rcu, timing, a, b, key, lastRead, stall>>

(***************************************************************************)
(* insmod: rcu_demo_init() with mode 1, 2 or 3.                            *)
(***************************************************************************)
Insmod ==
    /\ pc = "absent"
    /\ \E m \in 1..3 :
          /\ mode' = m
          /\ pc' = <<"sync", "cache", "create">>[m]
    /\ UNCHANGED <<rcu, timing, slab, stall>>

\* run_timing() (a) and (b): the loops around synchronize_rcu().
Synchronize ==
    /\ pc = "sync" /\ i < 2 * Rounds /\ ~gpOn
    /\ pc' = "syncing"
    /\ UNCHANGED <<mode, rcu, timing, slab, stall>>

\* (c): init_completion(), call_rcu(&probe_rh, probe_cb).
CallRcu ==
    /\ pc = "sync" /\ i = 2 * Rounds
    /\ cbDone' = FALSE
    /\ cb' = "queued"
    /\ pc' = "waitcb"
    /\ UNCHANGED <<mode, i, rcu, slab, stall>>

\* probe_cb()
ProbeCb ==
    /\ cb = "ripe"
    /\ cb' = "run" /\ cbDone' = TRUE
    /\ UNCHANGED <<mode, pc, i, rcu, slab, stall>>

\* wait_for_completion() returns and (d) begins.
WaitCb ==
    /\ pc = "waitcb" /\ cbDone
    /\ pc' = "barrier"
    /\ UNCHANGED <<mode, rcu, timing, slab, stall>>

\* rcu_barrier(), in both modes: no callback and no page is on its way.
Barrier ==
    /\ pc = "barrier" /\ cb \in {"none", "run"} /\ page # "leaving"
    /\ pc' = IF mode = 2 THEN "destroy" ELSE "loaded"
    /\ UNCHANGED <<mode, rcu, timing, slab, stall>>

\* run_typesafe(): the cache and a; either may fail.
CreateCache ==
    /\ pc = "cache"
    /\ \/ pc' = "loaded" /\ UNCHANGED slab                      \* no cache
       \/ pc' = "barrier" /\ UNCHANGED slab                     \* no object: goto out
       \/ /\ pc' = "free_a" /\ page' = "kept" /\ a' = "held" /\ key' = 1
          /\ UNCHANGED <<b, lastRead>>
    /\ UNCHANGED <<mode, rcu, timing, stall>>

FreeA ==
    /\ pc = "free_a"
    /\ a' = "freed" /\ pc' = "read_a"
    /\ UNCHANGED <<mode, rcu, timing, page, b, key, lastRead, stall>>

\* READ_ONCE(a->key) through the old pointer, outside any read-side section.
ReadThroughA == IF page = "gone" THEN "wild" ELSE IF key = 1 THEN "old" ELSE "other"

ReadA ==
    /\ pc = "read_a"
    /\ lastRead' = ReadThroughA /\ pc' = "alloc_b"
    /\ UNCHANGED <<mode, rcu, timing, page, a, b, key, stall>>

\* b: the same memory while the page is still there, other memory, or none.
AllocB ==
    /\ pc = "alloc_b"
    /\ \/ page = "kept" /\ b' = "same" /\ key' = 2 /\ pc' = "use_b"
       \/ b' = "held" /\ UNCHANGED key /\ pc' = "use_b"
       \/ UNCHANGED <<b, key>> /\ pc' = "barrier"
    /\ UNCHANGED <<mode, rcu, timing, page, a, lastRead, stall>>

\* Mutant: b is not freed on the way out.
UseBKept ==
    /\ pc = "use_b"
    /\ lastRead' = ReadThroughA /\ pc' = "barrier"
    /\ UNCHANGED <<mode, rcu, timing, page, a, b, key, stall>>

\* b is written, a is read once more, b is freed.
UseB ==
    /\ pc = "use_b"
    /\ lastRead' = ReadThroughA /\ b' = "freed" /\ pc' = "barrier"
    /\ UNCHANGED <<mode, rcu, timing, page, a, key, stall>>

\* kmem_cache_destroy() itself waits for the pages of such a cache.
DestroyCache ==
    /\ pc = "destroy" /\ page # "leaving"
    /\ pc' = "loaded" /\ page' = "none"
    /\ UNCHANGED <<mode, rcu, timing, a, b, key, lastRead, stall>>

\* run_stall(): kthread_create() may fail; otherwise insmod waits for done.
CreateStaller ==
    /\ pc = "create"
    /\ \/ pc' = "loaded" /\ UNCHANGED stall
       \/ pc' = "waitdone" /\ staller' = "new" /\ done' = 0
    /\ UNCHANGED <<mode, rcu, timing, slab>>

\* Mutant: the thread counts itself before it leaves its section.
StallEnterCounts ==
    /\ staller = "new"
    /\ staller' = "inside" /\ inside' = inside \cup {"stall"} /\ done' = 1
    /\ UNCHANGED <<mode, pc, gp, gpOn, timing, slab>>

StallEnter ==
    /\ staller = "new"
    /\ staller' = "inside" /\ inside' = inside \cup {"stall"}
    /\ UNCHANGED <<mode, pc, gp, gpOn, timing, slab, done>>

StallLeave ==
    /\ staller = "inside"
    /\ staller' = "left" /\ inside' = inside \ {"stall"} /\ gp' = gp \ {"stall"}
    /\ UNCHANGED <<mode, pc, gpOn, timing, slab, done>>

\* Mutant: the thread ends without counting itself.
StallDoneUncounted ==
    /\ staller = "left"
    /\ staller' = "counted"
    /\ UNCHANGED <<mode, pc, rcu, timing, slab, done>>

\* atomic_inc(&done): insmod may go on, and rmmod after it, while the thread
\* still stands in the module's text, before its return.
StallDone ==
    /\ staller = "left"
    /\ staller' = "counted" /\ done' = done + 1
    /\ UNCHANGED <<mode, pc, rcu, timing, slab>>

StallReturn ==
    /\ staller = "counted"
    /\ staller' = "over"
    /\ UNCHANGED <<mode, pc, rcu, timing, slab, done>>

WaitDone ==
    /\ pc = "waitdone" /\ done >= 1
    /\ pc' = "loaded"
    /\ UNCHANGED <<mode, rcu, timing, slab, stall>>

\* rcu_demo_exit(): rcu_barrier().
Rmmod ==
    /\ pc = "loaded" /\ cb \in {"none", "run"}
    /\ pc' = "unloaded"
    /\ UNCHANGED <<mode, rcu, timing, slab, stall>>

Module ==
    \/ Synchronize \/ CallRcu \/ WaitCb \/ Barrier \/ CreateCache \/ FreeA \/ ReadA
    \/ AllocB \/ UseB \/ DestroyCache \/ CreateStaller \/ WaitDone

Next ==
    \/ OtherReader \/ GpBegin \/ GpEnd \/ PageLeaves \/ Insmod \/ Module \/ Rmmod
    \/ ProbeCb \/ StallEnter \/ StallLeave \/ StallDone \/ StallReturn

\* Other readers leave in the end; RCU, callbacks and threads get their turn.
Fairness ==
    /\ WF_vars(Module) /\ WF_vars(GpBegin) /\ WF_vars(GpEnd) /\ WF_vars(ProbeCb)
    /\ WF_vars(StallEnter) /\ WF_vars(StallLeave) /\ WF_vars(StallDone) /\ WF_vars(StallReturn)
    /\ WF_vars(OtherReader /\ "other" \in inside)

Spec == Init /\ [][Next]_vars /\ Fairness

(***************************************************************************)
(* Properties.                                                             *)
(***************************************************************************)
\* Once insmod has returned, no callback and no reader of the mode is on its
\* way, and a cache is destroyed only when both objects are back in it.  Of the
\* stalling thread the last instructions, from atomic_inc(&done) to its return,
\* may be left: nothing waits for them, and rmmod may free their text
\* (rcu_demo.c:327-328).  Before that increment it is never left.
ModesQuiet ==
    /\ pc \in {"loaded", "unloaded"} =>
          /\ cb \in {"none", "run"} /\ "stall" \notin inside
          /\ staller \in {"none", "counted", "over"}
    /\ pc \in {"barrier", "destroy"} => a # "held" /\ b \notin {"held", "same"}

\* insmod returns in every mode: each wait is matched by a callback, a grace
\* period or the thread's increment.
ModesInsmodReturns == (pc # "absent") ~> (pc \in {"loaded", "unloaded"})

\* What run_typesafe() prints: after kmem_cache_free(a), "a" is an address that
\* is certainly still readable (rcu_demo.c:278).
TypesafeRead == lastRead # "wild"
-----------------------------------------------------------------------------
\* What is on its way, and how far the script is then: a callback while
\* insmod waits for it, the staller's section while insmod waits for done, an
\* object between its allocation and its release.
OnTheWay ==
    /\ pc = "syncing" => i < 2 * Rounds
    /\ cb \in {"queued", "ripe"} => pc = "waitcb"
    /\ cbDone => cb = "run"
    /\ "stall" \in inside => staller = "inside"
    /\ staller \in {"new", "inside", "left"} => pc = "waitdone" /\ done = 0
    /\ a = "held" => pc = "free_a"
    /\ b \in {"held", "same"} => pc = "use_b"

ModesInv == TypeOK /\ OnTheWay
=============================================================================
