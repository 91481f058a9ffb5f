--------------------------- MODULE ResourcePaths ---------------------------
(***************************************************************************)
(* Sequential programs whose difficulty is their error paths: what each    *)
(* one acquires (pages, references, locks, disabled interrupts, settings,  *)
(* registrations) and gives back on every path through it.                 *)
(*                                                                         *)
(* A program is a function from labels to steps <<op, arg, next, other>>:  *)
(*   get r    acquire r, go to next; or, when other is a label, fail to    *)
(*   try r    the same with a result nobody looks at: next in either case  *)
(*   put r    give r back          free r  the same, where NULL is allowed *)
(*   undo r   give r back by a call that may fail, and nobody looks        *)
(*   use r    read or write what r protects                                *)
(*   past r   write beyond its end                                         *)
(*   read r   let a call fill r, which may fail to other                   *)
(*   if p     a parameter          ptr r   was r acquired (not NULL)       *)
(*   held r   is r held            may     a condition of the environment  *)
(*   lose r   the callee gives r back behind the caller's back             *)
(* A use of NULL or MAP_FAILED kills the program, or the insmod.  Printing *)
(* is left out; a loop body is walked once.                                *)
(***************************************************************************)
EXTENDS Naturals, Sequences, TLC

VARIABLES
  prog, at,    \* the program and the label of its next step
  params,      \* the parameters that are set
  held,        \* what is acquired and not given back
  nonnull,     \* pointers that were assigned
  faults       \* pairs <<kind, r>> of misuse

vars == <<prog, at, params, held, nonnull, faults>>

-----------------------------------------------------------------------------
(* The programs.                                                           *)

\* mm_convert_init(): a kernel page, then task, mm, mmap_lock and user page.
MmConvert ==
  [ start  |-> <<"get", "kpage", "showA", "pid">>,
    showA  |-> <<"use", "kpage", "freeA", "">>,
    freeA  |-> <<"put", "kpage", "pid", "">>,
    pid    |-> <<"if", "target_pid", "find", "mm">>,
    find   |-> <<"get", "task", "mm", "end">>,
    mm     |-> <<"get", "mm", "lock", "out">>,
    lock   |-> <<"get", "mmap_lock", "vma", "">>,
    vma    |-> <<"may", "", "walk", "unlock">>,
    walk   |-> <<"may", "", "pte", "unlock">>,        \* pgd, pud or pmd is none
    pte    |-> <<"get", "page", "back", "back">>,     \* pte_present(), get_page()
    back   |-> <<"use", "mmap_lock", "unl", "">>,
    unl    |-> <<"put", "mmap_lock", "rmap", "">>,
    rmap   |-> <<"ptr", "page", "showB", "mmput">>,
    showB  |-> <<"use", "page", "putB", "">>,
    putB   |-> <<"put", "page", "mmput", "">>,
    unlock |-> <<"put", "mmap_lock", "mmput", "">>,
    mmput  |-> <<"put", "mm", "out", "">>,
    out    |-> <<"if", "target_pid", "putT", "end">>,
    putT   |-> <<"put", "task", "end", "">> ]

\* Mutant: probe_buddy() forgets its eight pages.
MmProbeBuddyLeaks ==
  [ start |-> <<"get", "pg", "p8", "end">>,
    p8    |-> <<"get", "p8", "show8", "kmal">>,
    show8 |-> <<"use", "p8", "kmal", "">> ]

\* mm_probe_init() from its page on, with probe_buddy().
MmProbeBuddy ==
  [ start |-> <<"get", "pg", "p8", "end">>,
    p8    |-> <<"get", "p8", "show8", "kmal">>,
    show8 |-> <<"use", "p8", "free8", "">>,
    free8 |-> <<"put", "p8", "kmal", "">> ]

\* probe_kmalloc_vmalloc().
MmProbeAlloc ==
  [ kmal  |-> <<"get", "k", "phys", "vmal">>,
    phys  |-> <<"use", "k", "kfree", "">>,
    kfree |-> <<"put", "k", "vmal", "">>,
    vmal  |-> <<"get", "v", "pages", "cache">>,
    pages |-> <<"use", "v", "vfree", "">>,
    vfree |-> <<"put", "v", "cache", "">> ]

\* probe_slub(): the two objects are freed only when both were allocated, the
\* cache is destroyed either way; then the kmalloc ladder.
MmProbeSlub ==
  [ cache  |-> <<"get", "cache", "o1", "ladder">>,
    o1     |-> <<"get", "o1", "o2", "o2">>,
    o2     |-> <<"get", "o2", "both", "both">>,
    both   |-> <<"ptr", "o1", "both2", "gone">>,
    both2  |-> <<"ptr", "o2", "show", "gone">>,
    show   |-> <<"use", "o1", "free1", "">>,
    free1  |-> <<"put", "o1", "free2", "">>,
    free2  |-> <<"put", "o2", "gone", "">>,
    gone   |-> <<"put", "cache", "ladder", "">>,
    ladder |-> <<"get", "m", "ksize", "flags">>,
    ksize  |-> <<"use", "m", "mfree", "">>,
    mfree  |-> <<"put", "m", "flags", "">> ]

\* probe_page_flags(), probe_refcount() and the end of mm_probe_init().
MmProbeRefcount ==
  [ flags |-> <<"use", "pg", "rpage", "">>,
    rpage |-> <<"get", "rpage", "getr", "slab">>,
    getr  |-> <<"get", "ref", "putr", "">>,
    putr  |-> <<"put", "ref", "freer", "">>,
    freer |-> <<"put", "rpage", "slab", "">>,
    slab  |-> <<"get", "obj", "shows", "last">>,
    shows |-> <<"use", "obj", "frees", "">>,
    frees |-> <<"put", "obj", "last", "">>,
    last  |-> <<"put", "pg", "end", "">> ]

\* show_spinlock_semantics(): spin_lock(), spin_lock_irqsave(), raw_spin_lock().
SyncSpin ==
  [ start |-> <<"get", "g_spin", "un1", "">>,
    un1   |-> <<"put", "g_spin", "irq", "">>,
    irq   |-> <<"get", "irqs_off", "lock2", "">>,
    lock2 |-> <<"get", "g_spin", "un2", "">>,
    un2   |-> <<"put", "g_spin", "on", "">>,
    on    |-> <<"put", "irqs_off", "raw", "">>,
    raw   |-> <<"get", "g_raw_spin", "unraw", "">>,
    unraw |-> <<"put", "g_raw_spin", "q", "">> ]

\* show_qspinlock()'s lock and show_sleeping_locks(): mutex, rwsem for two
\* readers and for a writer.
SyncSleep ==
  [ q     |-> <<"get", "l", "unq", "">>,
    unq   |-> <<"put", "l", "mtx", "">>,
    mtx   |-> <<"get", "g_mutex", "owner", "">>,
    owner |-> <<"use", "g_mutex", "unmtx", "">>,
    unmtx |-> <<"put", "g_mutex", "r1", "">>,
    r1    |-> <<"get", "reader1", "r2", "">>,
    r2    |-> <<"get", "reader2", "ur1", "">>,
    ur1   |-> <<"put", "reader2", "ur2", "">>,
    ur2   |-> <<"put", "reader1", "w", "">>,
    w     |-> <<"get", "writer", "count", "">>,
    count |-> <<"use", "writer", "unw", "">>,
    unw   |-> <<"put", "writer", "page", "">> ]

\* show_pg_locked(): trylock_page() twice, the second in vain.
SyncPage ==
  [ page  |-> <<"get", "pg", "try", "end">>,
    try   |-> <<"get", "PG_locked", "unpg", "">>,
    unpg  |-> <<"put", "PG_locked", "free", "">>,
    free  |-> <<"put", "pg", "end", "">> ]

\* sched_probe_init(): pid and task references, test_irq_across_schedule()
\* and test_atomic_sleep(): schedule() enables interrupts and resets
\* preempt_count, which the code tests before preempt_enable().
SchedProbe ==
  [ start |-> <<"if", "target_pid", "pid", "irq?">>,
    pid   |-> <<"get", "pid", "task", "irq?">>,
    task  |-> <<"get", "task", "dump", "putp">>,
    dump  |-> <<"use", "task", "putt", "">>,
    putt  |-> <<"put", "task", "putp", "">>,
    putp  |-> <<"put", "pid", "irq?", "">> ] @@
  ("irq?" :> <<"if", "test_irq", "off", "atomic?">>) @@
  ("atomic?" :> <<"if", "test_atomic", "timer", "end">>) @@
  [ off   |-> <<"get", "irqs_off", "sched", "">>,
    sched |-> <<"lose", "irqs_off", "on", "">>,
    on    |-> <<"may", "", "atomic?", "atomic?">>,    \* local_irq_enable(): already on
    timer |-> <<"get", "timer", "del", "">>,
    del   |-> <<"put", "timer", "noprm", "">>,
    noprm |-> <<"get", "preempt", "atom", "">>,
    atom  |-> <<"may", "", "reset", "cnt">>,          \* schedule_debug() resets it, or not
    reset |-> <<"lose", "preempt", "cnt", "">>,
    cnt   |-> <<"held", "preempt", "enab", "end">>,
    enab  |-> <<"put", "preempt", "end", "">> ]

\* main() of ksm_test.c.  The settings it changes; sleep_millisecs is never
\* saved, and "20" is written to it once more instead of the old value.
KsmTest ==
  [ start |-> <<"get", "pmfd", "ksm", "end">>,
    ksm   |-> <<"may", "", "same", "end">>,
    same  |-> <<"try", "same", "diff", "">>,
    diff  |-> <<"try", "diff", "fill1", "">>,
    fill1 |-> <<"use", "same", "fill2", "">>,
    fill2 |-> <<"use", "diff", "advise", "">>,
    advise|-> <<"may", "", "scan", "end">>,
    scan  |-> <<"get", "pages_to_scan", "sleep", "end">>,
    sleep |-> <<"get", "sleep_millisecs", "run", "end">>,
    run   |-> <<"get", "run", "merge", "end">>,
    merge |-> <<"use", "same", "unm1", "">>,
    unm1  |-> <<"put", "same", "unm2", "">>,
    unm2  |-> <<"put", "diff", "rest1", "">>,
    rest1 |-> <<"undo", "pages_to_scan", "rest2", "">>,
    rest2 |-> <<"undo", "run", "end", "">> ]

\* pvtm_probe_init(), one cluster: the regulator is not given back when the
\* registers could not be mapped.
PvtmProbe ==
  [ start |-> <<"get", "b", "reg", "reg">>,
    reg   |-> <<"get", "reg", "map", "map">>,
    map   |-> <<"ptr", "b", "read", "end">>,
    read  |-> <<"use", "b", "putr", "">>,
    putr  |-> <<"ptr", "reg", "put", "unmap">>,
    put   |-> <<"put", "reg", "unmap", "">>,
    unmap |-> <<"put", "b", "end", "">> ]

\* tp_lab_init() and tp_lab_exit(): the probe stays registered when
\* kthread_run() fails and the module goes away.
TpLab ==
  [ start |-> <<"if", "probe_on", "probe", "run">>,
    probe |-> <<"get", "probe", "run", "run">>,
    run   |-> <<"get", "thread", "hits", "end">>,
    hits  |-> <<"use", "thread", "stop", "">>,
    stop  |-> <<"put", "thread", "off?", "">> ] @@
  ("off?" :> <<"if", "probe_on", "reg?", "end">>) @@
  ("reg?" :> <<"held", "probe", "unreg", "end">>) @@
  [ unreg |-> <<"put", "probe", "end", "">> ]

\* slub_lab_init() and slub_lab_exit(): one deliberate error per bit of mode.
SlubLab ==
  [ start |-> <<"get", "cache", "b1", "end">>,
    b1    |-> <<"if", "oob", "oob", "b2">>,
    oob   |-> <<"try", "p", "write", "">>,
    write |-> <<"past", "p", "oobf", "">>,
    oobf  |-> <<"put", "p", "b2", "">>,
    b2    |-> <<"if", "uaf", "uaf", "b4">>,
    uaf   |-> <<"try", "p", "uaff", "">>,
    uaff  |-> <<"put", "p", "uafw", "">>,
    uafw  |-> <<"use", "p", "uafa", "">>,
    uafa  |-> <<"try", "p", "uafb", "">>,
    uafb  |-> <<"put", "p", "b4", "">>,
    b4    |-> <<"if", "dbl", "dbl", "b8">>,
    dbl   |-> <<"try", "p", "dblf", "">>,
    dblf  |-> <<"put", "p", "dblg", "">>,
    dblg  |-> <<"put", "p", "b8", "">>,
    b8    |-> <<"if", "freeptr", "fp", "b16">>,
    fp    |-> <<"try", "p", "fpf", "">>,
    fpf   |-> <<"put", "p", "fpw", "">>,
    fpw   |-> <<"use", "p", "fpa", "">>,
    fpa   |-> <<"get", "p", "fpb", "b16">>,
    fpb   |-> <<"put", "p", "b16", "">>,
    b16   |-> <<"if", "leak", "leak", "exit">>,
    leak  |-> <<"try", "leaked", "exit", "">>,
    exit  |-> <<"put", "cache", "end", "">> ]

\* main() of migrate_compact.c, one round of compaction.
MigrateCompact ==
  [ start |-> <<"get", "pmfd", "befor", "end">>,
    befor |-> <<"try", "before", "after", "">>,
    after |-> <<"try", "after", "map", "">>,
    map   |-> <<"get", "p", "touch", "end">>,
    touch |-> <<"use", "p", "pfns1", "">>,
    pfns1 |-> <<"use", "before", "open", "">>,
    open  |-> <<"get", "fd", "close", "end">>,
    close |-> <<"put", "fd", "pfns2", "">>,
    pfns2 |-> <<"use", "after", "cmp", "">>,
    cmp   |-> <<"use", "p", "unmap", "">>,
    unmap |-> <<"put", "p", "free1", "">>,
    free1 |-> <<"put", "before", "free2", "">>,
    free2 |-> <<"put", "after", "end", "">> ]

\* main() of exp00_whoami.c, one node: two ioctl()s, each of which may fail.
Whoami ==
  [ start |-> <<"get", "fd", "ver", "end">>,
    ver   |-> <<"may", "", "res", "close">>,
    res   |-> <<"use", "fd", "close", "">>,
    close |-> <<"put", "fd", "end", "">> ]

\* main() of exp01_regs.c.
Regs ==
  [ start |-> <<"get", "mem", "map0", "end">>,
    map0  |-> <<"get", "core0", "map1", "end">>,
    map1  |-> <<"get", "core1", "map2", "end">>,
    map2  |-> <<"get", "core2", "read", "end">>,
    read  |-> <<"use", "core2", "drm", "">>,
    drm   |-> <<"get", "drm", "ask", "un0">>,
    ask   |-> <<"use", "core0", "close", "">>,
    close |-> <<"put", "drm", "un0", "">>,
    un0   |-> <<"put", "core0", "un1", "">>,
    un1   |-> <<"put", "core1", "un2", "">>,
    un2   |-> <<"put", "core2", "unmem", "">>,
    unmem |-> <<"put", "mem", "end", "">> ]

\* slurp() of exp05_run.c: the model's file in a buffer.
Slurp ==
  [ start |-> <<"if", "argv1", "open", "end">>,
    open  |-> <<"get", "f", "alloc", "end">>,
    alloc |-> <<"try", "model", "read", "">>,         \* and when ftell() gave -1
    read  |-> <<"read", "model", "fclose", "bad">>,
    bad   |-> <<"free", "model", "bad2", "">>,
    bad2  |-> <<"put", "f", "end", "">>,
    fclose|-> <<"put", "f", "init", "">> ]

\* main() of exp05_run.c, no input or one, whichever of the rknn_query() calls
\* fails; rknn_destroy() undoes rknn_inputs_set().
RunModel ==
  [ init  |-> <<"get", "ctx", "free", "free">>,
    free  |-> <<"put", "model", "ok", "">>,
    ok    |-> <<"ptr", "ctx", "query", "end">>,
    query |-> <<"use", "ctx", "in", "">>,
    in    |-> <<"try", "inputs", "bufs", "">>,
    bufs  |-> <<"try", "bufs", "any", "">>,
    any   |-> <<"may", "", "buf", "set">>,            \* ion.n_input > 0
    buf   |-> <<"try", "buf", "inbuf", "">>,
    inbuf |-> <<"use", "bufs", "ininp", "">>,
    ininp |-> <<"use", "inputs", "set", "">>,
    set   |-> <<"get", "inputs_set", "run", "end">>,
    run   |-> <<"may", "", "fbuf", "fbuf">>,          \* rknn_run(), in a loop
    fbuf  |-> <<"free", "buf", "fbufs", "">>,
    fbufs |-> <<"free", "bufs", "fin", "">>,
    fin   |-> <<"free", "inputs", "unset", "">>,
    unset |-> <<"put", "inputs_set", "destr", "">>,
    destr |-> <<"put", "ctx", "end", "">> ]

Code ==
  [ mm_convert |-> MmConvert,
    mm_probe |-> MmProbeBuddy @@ MmProbeAlloc @@ MmProbeSlub @@ MmProbeRefcount,
    sync_probe |-> SyncSpin @@ SyncSleep @@ SyncPage,
    sched_probe |-> SchedProbe, ksm_test |-> KsmTest, pvtm_probe |-> PvtmProbe,
    tp_lab |-> TpLab, slub_lab |-> SlubLab, migrate_compact |-> MigrateCompact,
    exp00_whoami |-> Whoami, exp01_regs |-> Regs, exp05_run |-> Slurp @@ RunModel ]

ParamsOf(p) == {s[2] : s \in {t \in {Code[p][l] : l \in DOMAIN Code[p]} : t[1] = "if"}}

-----------------------------------------------------------------------------
Init ==
  /\ prog = "none" /\ at = "end" /\ params = {}
  /\ held = {} /\ nonnull = {} /\ faults = {}

Start ==
  /\ prog = "none"
  /\ prog' \in DOMAIN Code /\ at' = "start"
  /\ params' \in SUBSET ParamsOf(prog')
  /\ UNCHANGED <<held, nonnull, faults>>

Running == prog # "none" /\ at # "end"
Op == Code[prog][at][1]
R == Code[prog][at][2]
Then == at' = Code[prog][at][3]
Else == at' = Code[prog][at][4]
Fault(kind) == faults' = faults \cup {<<kind, R>>}

\* The pointer is NULL or MAP_FAILED.
Crash == R \notin nonnull /\ at' = "end" /\ Fault("null") /\ UNCHANGED held

Get ==
  /\ Running /\ Op \in {"get", "try"}
  /\ \/ /\ Then
        /\ held' = held \cup {R} /\ nonnull' = nonnull \cup {R}
        /\ IF R \in held THEN Fault("again") ELSE UNCHANGED faults
     \/ /\ IF Op = "try" THEN Then ELSE Code[prog][at][4] # "" /\ Else
        /\ nonnull' = nonnull \ {R}
        /\ UNCHANGED <<held, faults>>
  /\ UNCHANGED <<prog, params>>

Put ==
  /\ Running /\ Op \in {"put", "free"}
  /\ \/ R \in held /\ Then /\ held' = held \ {R} /\ UNCHANGED faults
     \/ R \in nonnull \ held /\ Then /\ Fault("put") /\ UNCHANGED held
     \/ Op = "free" /\ R \notin nonnull /\ Then /\ UNCHANGED <<held, faults>>
     \/ Op = "put" /\ Crash
  /\ UNCHANGED <<prog, params, nonnull>>

Undo ==
  /\ Running /\ Op = "undo" /\ Then
  /\ \/ held' = held \ {R} /\ UNCHANGED faults
     \/ Fault("kept") /\ UNCHANGED held
  /\ UNCHANGED <<prog, params, nonnull>>

Use ==
  /\ Running /\ Op \in {"use", "past"}
  /\ \/ /\ R \in held /\ Then /\ UNCHANGED held
        /\ IF Op = "past" THEN Fault("past") ELSE UNCHANGED faults
     \/ R \in nonnull \ held /\ Then /\ Fault("use") /\ UNCHANGED held
     \/ Crash
  /\ UNCHANGED <<prog, params, nonnull>>

\* fread(): into NULL it may also fail, where the kernel does the copy.
Fill ==
  /\ Running /\ Op = "read"
  /\ \/ R \in held /\ Then /\ UNCHANGED <<held, faults>>
     \/ Else /\ UNCHANGED <<held, faults>>
     \/ Crash
  /\ UNCHANGED <<prog, params, nonnull>>

Lose ==
  /\ Running /\ Op = "lose" /\ Then /\ held' = held \ {R}
  /\ UNCHANGED <<prog, params, nonnull, faults>>

Branch ==
  /\ Running
  /\ CASE Op = "if" -> IF R \in params THEN Then ELSE Else
       [] Op = "ptr" -> IF R \in nonnull THEN Then ELSE Else
       [] Op = "held" -> IF R \in held THEN Then ELSE Else
       [] Op = "may" -> Then \/ Else
       [] OTHER -> FALSE
  /\ UNCHANGED <<prog, params, held, nonnull, faults>>

Next == Start \/ Get \/ Put \/ Undo \/ Use \/ Fill \/ Lose \/ Branch

-----------------------------------------------------------------------------
\* What is left behind, and the misuse, on every path that does not end in a
\* use of NULL: nothing, but for the exact cases below.
Kept == {r \in {"pages_to_scan", "run"} : <<"kept", r>> \in faults}
Remains ==
  CASE prog = "mm_probe" -> IF {"o1", "o2"} \subseteq nonnull THEN {} ELSE nonnull \cap {"o1", "o2"}
    [] prog = "ksm_test" ->         \* closed by the exit of the process, settings apart
         Kept \cup (nonnull \cap {"pmfd", "sleep_millisecs"}) \cup
         (IF "run" \in nonnull THEN {} ELSE nonnull \ {"pmfd"})
    [] prog = "pvtm_probe" -> IF "b" \in nonnull THEN {} ELSE nonnull
    [] prog = "tp_lab" -> IF "thread" \in nonnull THEN {} ELSE nonnull
    [] prog = "slub_lab" -> nonnull \cap {"leaked"}
    [] prog = "migrate_compact" -> IF "fd" \in nonnull THEN {"pmfd"} ELSE nonnull
    [] prog = "exp01_regs" -> IF "core2" \in nonnull THEN {} ELSE nonnull
    [] prog = "exp05_run" ->        \* rknn_inputs_set() fails
         IF "ctx" \in nonnull /\ "inputs_set" \notin nonnull
         THEN nonnull \cap {"ctx", "inputs", "bufs", "buf"} ELSE {}
    [] OTHER -> {}
Misuse ==
  IF prog = "slub_lab" /\ "cache" \in nonnull
  THEN (IF "oob" \in params THEN {<<"past", "p">>} ELSE {}) \cup
       (IF {"uaf", "freeptr"} \cap params # {} THEN {<<"use", "p">>} ELSE {}) \cup
       (IF "dbl" \in params THEN {<<"put", "p">>} ELSE {})
  ELSE {}

\* The calls whose NULL or MAP_FAILED the code does not look for before it
\* uses it: slub_lab.c:81, 88, 92, 98, 105; ksm_test.c:81, 83;
\* migrate_compact.c:77, 78; exp05_run.c:22, 57, 58.
Unchecked ==
  CASE prog = "slub_lab" -> {"p"}
    [] prog = "ksm_test" -> {"same", "diff"}
    [] prog = "migrate_compact" -> {"before", "after"}
    [] prog = "exp05_run" -> {"model", "inputs", "bufs"}
    [] OTHER -> {}
NullUses == {<<"null", r>> : r \in Unchecked}

\* What outlives the process that dies.
Lasting == {"cache", "leaked", "pages_to_scan", "sleep_millisecs", "run", "probe", "reg"}

\* mm_convert.c, mm_probe.c, sync_probe.c, sched_probe.c, ksm_test.c,
\* pvtm_probe.c, tp_lab.c, slub_lab.c, migrate_compact.c, exp00_whoami.c,
\* exp01_regs.c, exp05_run.c: whichever of the calls fail, nothing is given
\* back twice or used while not held, and all is given back.  The exceptions:
\* NULL and MAP_FAILED are used where the code does not check for them, which
\* ends the program and, in slub_lab, leaves its cache; what the exit of a
\* failed user program closes; an object of probe_slub() when just one of its
\* two allocations succeeds; KSM's settings after a failure (sleep_millisecs
\* always, the others when they cannot be written back); a regulator without
\* registers; tp_lab's probe without its thread; and the errors slub_lab is
\* asked to make.
PathsClean ==
  LET kept == {<<"kept", r>> : r \in Kept}
      died == faults \cap NullUses # {}
  IN /\ faults \subseteq Misuse \cup NullUses \cup kept
     /\ at = "end" /\ ~died => held = Remains /\ faults = Misuse \cup kept
     /\ at = "end" /\ died =>
          held \cap Lasting = IF prog = "slub_lab" THEN {"cache"} ELSE {}
=============================================================================
