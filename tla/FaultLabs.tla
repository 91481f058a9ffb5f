------------------------------ MODULE FaultLabs ------------------------------
(***************************************************************************)
(* Two user programs that count page faults.                               *)
(*   fault_types       mark() and report() around a sweep over a mapping,  *)
(*                     one sweep per kind of fault; two are in a child     *)
(*   concurrent_fault  threads leave a barrier together and write the same *)
(*                     pages                                               *)
(* The kernel's memory management is external: pages of 4 KB, no swapping. *)
(* A sweep touches page after page; a touch the page table does not allow  *)
(* is a fault.  A read fault on a file also maps some of the cached pages  *)
(* around it; when the page is not cached the fault is a major one and     *)
(* pages are read in ahead.  getrusage() counts the faults of the process, *)
(* not of the mapping: mark() itself may fault where it stores the counts, *)
(* and so may anything else the process touches.  The RSS is not modelled, *)
(* being only approximate in the kernel.                                   *)
(***************************************************************************)
EXTENDS Integers, FiniteSets, Sequences

CONSTANTS Pages,      \* pages of a mapping, 4096 and 16384 in the code
          Threads,    \* threads of concurrent_fault, 8 in the code
          MaxOther    \* bound: faults elsewhere in the process, per report

VARIABLES
  prog, pos,         \* the program; in fault_types, per process, its next step
  pte,               \* per process and page: "none", "zero", "ro" or "rw"
  shared,            \* per page: parent and child map one frame
  cache, file,       \* pages in the page cache; the first byte of the file
  data,              \* per process: the page with g_min and g_maj, "ro" or "rw"
  swept,             \* per process: pages touched in this sweep
  minor, major,      \* per process: faults on the mapping since mark()
  own,               \* faults of mark()'s own stores, after its getrusage()
  stray, strayMaj,   \* minor and major faults elsewhere since mark()
  copies,            \* history: frames of the mapping copied since mark()
  said,              \* per process: what its last report() said, if any
  th, at,            \* concurrent_fault: per thread its state and its page
  present, lost,     \* pages mapped; frames given back after the double check
  faults,            \* faults on the mapping, counted in ru_minflt
  spurious, other,   \* faults that found the page mapped; faults elsewhere
  printed            \* the "extra" faults, once printed

maps == <<pte, shared, cache, file>>
counts == <<minor, major, own, stray, strayMaj, copies>>
proc == <<pos, maps, data, swept, counts, said>>
conc == <<th, at, present, lost, faults, spurious, other, printed>>
vars == <<prog, proc, conc>>

Procs == {"parent", "child"}
P == 1..Pages
Nil == [p \in Procs |-> 0]
Empty == [i \in P |-> "none"]

Init ==
  /\ prog = "none" /\ pos = [parent |-> 1, child |-> 0]
  /\ pte = [p \in Procs |-> Empty] /\ shared = [i \in P |-> FALSE]
  /\ cache = {} /\ file = "AB" /\ swept = Nil
  /\ data = [p \in Procs |-> "rw"]           \* the loader has written to it
  /\ minor = Nil /\ major = Nil /\ own = Nil /\ stray = Nil /\ strayMaj = Nil
  /\ copies = Nil /\ said = [p \in Procs |-> {}]
  /\ th = [t \in Threads |-> "none"] /\ at = [t \in Threads |-> 1]
  /\ present = {} /\ lost = 0 /\ faults = 0 /\ spurious = 0 /\ other = 0 /\ printed = {}

Start ==
  /\ prog = "none" /\ prog' \in {"fault_types", "concurrent_fault"}
  /\ UNCHANGED <<proc, conc>>

-----------------------------------------------------------------------------
(* fault_types.                                                            *)

\* main(), and the body of the child: <<sweep or call, access, mapping, pages>>
Steps == [
  parent |-> << <<"untouched", "read", "anon", 0>>, <<"write", "write", "anon", Pages>>,
     <<"zero", "read", "anon", Pages>>, <<"hot", "read", "file", Pages>>,
     <<"cold", "read", "file", Pages>>, <<"fork">>, <<"wait">>,
     <<"reuse", "write", "anon", Pages>>, <<"again", "write", "anon", Pages>>,
     <<"private", "write", "priv", 1>>, <<"shared", "write", "file", 1>>, <<"end">> >>,
  child |-> << <<"mark">>, <<"cread", "read", "anon", Pages>>, <<"cwrite", "write", "anon", Pages>>, <<"exit">> >>]

Step(p) == Steps[p][pos[p]]
Active(p) == prog = "fault_types" /\ pos[p] # 0 /\ Len(Step(p)) = 4
Calls(p, c) == prog = "fault_types" /\ pos[p] # 0 /\ Step(p)[1] = c

\* The page cache is hot, or was dropped and is read in again.
FileFault(p, i) ==
  \E around \in {S \in SUBSET (IF i \in cache THEN cache ELSE P) : i \in S} :
    /\ pte' = [pte EXCEPT ![p] = [j \in P |-> IF j \in around THEN "ro" ELSE @[j]]]
    /\ cache' = cache \cup around
    /\ IF i \in cache THEN minor' = [minor EXCEPT ![p] = @ + 1] /\ UNCHANGED major
                      ELSE major' = [major EXCEPT ![p] = @ + 1] /\ UNCHANGED minor
    /\ UNCHANGED <<shared, file, copies>>

\* A shared mapping writes to the page cache.
SharedFault(p, i) ==
  /\ pte' = [pte EXCEPT ![p][i] = "rw"] /\ file' = "5A"
  /\ minor' = [minor EXCEPT ![p] = @ + 1]
  /\ UNCHANGED <<shared, cache, major, copies>>

\* A private page: filled, copied, or reused when nobody else has the frame.
PrivateFault(p, i) ==
  LET copy == pte[p][i] = "ro" /\ (shared[i] \/ Step(p)[3] = "priv")
  IN  /\ pte' = [pte EXCEPT ![p][i] = IF Step(p)[2] = "write" THEN "rw" ELSE "zero"]
      /\ shared' = [shared EXCEPT ![i] = FALSE]
      /\ minor' = [minor EXCEPT ![p] = @ + 1]
      /\ copies' = [copies EXCEPT ![p] = @ + (IF copy THEN 1 ELSE 0)]
      /\ UNCHANGED <<cache, file, major>>

Touch(p) ==
  /\ Active(p) /\ swept[p] < Step(p)[4]
  /\ LET i == swept[p] + 1
         allowed == pte[p][i] = "rw" \/ (Step(p)[2] = "read" /\ pte[p][i] # "none")
     IN  /\ swept' = [swept EXCEPT ![p] = i]
         /\ CASE allowed -> UNCHANGED <<maps, minor, major, copies>>
              [] ~allowed /\ Step(p)[3] = "file" /\ Step(p)[2] = "read" -> FileFault(p, i)
              [] ~allowed /\ Step(p)[3] = "file" /\ Step(p)[2] = "write" -> SharedFault(p, i)
              [] OTHER -> PrivateFault(p, i)
  /\ UNCHANGED <<prog, pos, data, own, stray, strayMaj, said, conc>>

\* Between mark() and report(): the stack, the heap, the code, a library.
StrayFault(p) ==
  /\ Active(p) /\ stray[p] + strayMaj[p] < MaxOther
  /\ \/ stray' = [stray EXCEPT ![p] = @ + 1] /\ UNCHANGED strayMaj
     \/ strayMaj' = [strayMaj EXCEPT ![p] = @ + 1] /\ UNCHANGED stray
  /\ UNCHANGED <<prog, pos, maps, data, swept, minor, major, own, copies, said, conc>>

\* mark(): getrusage(), and then the stores to g_min and g_maj, whose page is d.
Mark(p, d) ==
  /\ swept' = [swept EXCEPT ![p] = 0] /\ copies' = [copies EXCEPT ![p] = 0]
  /\ minor' = [minor EXCEPT ![p] = 0] /\ major' = [major EXCEPT ![p] = 0]
  /\ stray' = [stray EXCEPT ![p] = 0] /\ strayMaj' = [strayMaj EXCEPT ![p] = 0]
  /\ own' = [own EXCEPT ![p] = IF d = "ro" THEN 1 ELSE 0]
  /\ data' = [data EXCEPT ![p] = "rw"]

\* What main() does to its mappings between two sweeps: a new mapping, and
\* before that the file is written, or dropped from the page cache; the
\* private page is printed, and so read, before it is written.
Remap(p) ==
  CASE Step(p)[1] \in {"write", "private"} -> pte' = [pte EXCEPT ![p] = Empty] /\ UNCHANGED cache
    [] Step(p)[1] = "zero" -> pte' = [pte EXCEPT ![p] = Empty] /\ cache' = P
    [] Step(p)[1] = "hot" -> pte' = [pte EXCEPT ![p] = Empty] /\ cache' = {}
    [] Step(p)[1] = "again" -> pte' = [pte EXCEPT ![p] = [Empty EXCEPT ![1] = "ro"]] /\ cache' = cache \cup {1}
    [] OTHER -> UNCHANGED <<pte, cache>>

\* report(), and the mark() of the next sweep.  The last sweep has neither:
\* what it did to the file is printed.
Report(p) ==
  /\ Active(p) /\ swept[p] = Step(p)[4]
  /\ said' = [said EXCEPT ![p] = {[
       sweep |-> Step(p)[1], minor |-> minor[p] + own[p] + stray[p], major |-> major[p] + strayMaj[p],
       own |-> own[p], stray |-> stray[p], strayMaj |-> strayMaj[p], copies |-> copies[p], file |-> file]}]
  /\ pos' = [pos EXCEPT ![p] = @ + 1]
  /\ Remap(p) /\ Mark(p, data[p])
  /\ UNCHANGED <<prog, shared, file, conc>>

\* memset() fills a new mapping; fork() shares its frames read-only, like those
\* of all data, or fails, which main() takes for being the parent.
Fork ==
  /\ Calls("parent", "fork")
  /\ \/ /\ pte' = [p \in Procs |-> [i \in P |-> "ro"]]
        /\ shared' = [i \in P |-> TRUE] /\ data' = [p \in Procs |-> "ro"]
        /\ pos' = [pos EXCEPT !.parent = @ + 1, !.child = 1]
     \/ /\ pte' = [pte EXCEPT !["parent"] = [i \in P |-> "rw"]]
        /\ UNCHANGED <<shared, data>>
        /\ pos' = [pos EXCEPT !.parent = @ + 1]
  /\ UNCHANGED <<prog, cache, file, swept, counts, said, conc>>

\* The child's first mark().
ChildMarks ==
  /\ Calls("child", "mark") /\ pos' = [pos EXCEPT !.child = @ + 1]
  /\ Mark("child", data["child"])
  /\ UNCHANGED <<prog, maps, said, conc>>

\* The child exits, and its frames are the parent's alone.
ChildExits ==
  /\ Calls("child", "exit") /\ pos' = [pos EXCEPT !.child = 0]
  /\ shared' = [i \in P |-> FALSE] /\ pte' = [pte EXCEPT !["child"] = Empty]
  /\ UNCHANGED <<prog, cache, file, data, swept, counts, said, conc>>

\* The mark() after wait(): binding wait() and sleep() to their library may
\* have written to that page since fork().
Resume ==
  /\ pos' = [pos EXCEPT !.parent = @ + 1]
  /\ \E d \in {data["parent"], "rw"} : Mark("parent", d)
  /\ UNCHANGED <<prog, maps, said, conc>>

\* Mutant: main() does not wait().
WaitNot == Calls("parent", "wait") /\ Resume

\* wait(NULL): until the child is gone; at once when there is none.
Wait == Calls("parent", "wait") /\ pos["child"] = 0 /\ Resume

\* The mapping, or the file behind it, could not be made, which main() does not
\* ask: its first use is a SIGSEGV or a SIGBUS.
MapMissing ==
  /\ prog = "fault_types" /\ Step("parent")[1] \notin {"wait", "reuse", "again", "end"}
  /\ pos' = [pos EXCEPT !.parent = 12]
  /\ UNCHANGED <<prog, maps, data, swept, counts, said, conc>>

-----------------------------------------------------------------------------
(* concurrent_fault.                                                       *)

ConcurrentFault == prog = "concurrent_fault"

\* pthread_create() may fail, which main() does not ask.
Launch ==
  /\ ConcurrentFault /\ \A t \in Threads : th[t] = "none"
  /\ th' \in [Threads -> {"waits", "missing"}]
  /\ UNCHANGED <<prog, proc, at, present, lost, faults, spurious, other, printed>>

\* pthread_barrier_wait(): all threads start together, if all are there.  When
\* mmap() had failed the first write kills the process.
BarrierOpens ==
  /\ ConcurrentFault /\ \A t \in Threads : th[t] = "waits"
  /\ \E s \in {"write", "killed"} : th' = [t \in Threads |-> s]
  /\ UNCHANGED <<prog, proc, at, present, lost, faults, spurious, other, printed>>

\* p[i] = 1 in th(): the page is mapped, or the write traps.
WritePage(t) ==
  /\ ConcurrentFault /\ th[t] = "write"
  /\ \/ at[t] > Pages /\ th' = [th EXCEPT ![t] = "over"] /\ UNCHANGED <<at, faults>>
     \/ at[t] \in present /\ at' = [at EXCEPT ![t] = @ + 1] /\ UNCHANGED <<th, faults>>
     \/ /\ at[t] \in P \ present /\ th' = [th EXCEPT ![t] = "trap"]
        /\ faults' = faults + 1 /\ UNCHANGED at
  /\ UNCHANGED <<prog, proc, present, lost, spurious, other, printed>>

\* handle_pte_fault(): by now mapped (nothing to do), or a frame is allocated.
EnterFault(t) ==
  /\ ConcurrentFault /\ th[t] = "trap"
  /\ IF at[t] \in present THEN th' = [th EXCEPT ![t] = "write"] /\ spurious' = spurious + 1
                          ELSE th' = [th EXCEPT ![t] = "frame"] /\ UNCHANGED spurious
  /\ UNCHANGED <<prog, proc, at, present, lost, faults, other, printed>>

\* do_anonymous_page() under the pte lock: the first one maps its frame, the
\* others find the pte taken and give theirs back.
Install(t) ==
  /\ ConcurrentFault /\ th[t] = "frame" /\ th' = [th EXCEPT ![t] = "write"]
  /\ IF at[t] \in present THEN lost' = lost + 1 /\ UNCHANGED present
                          ELSE present' = present \cup {at[t]} /\ UNCHANGED lost
  /\ UNCHANGED <<prog, proc, at, faults, spurious, other, printed>>

\* The process also faults on its code, its stacks and its heap.
OtherFault ==
  /\ ConcurrentFault /\ printed = {} /\ other < MaxOther
  /\ other' = other + 1
  /\ UNCHANGED <<prog, proc, th, at, present, lost, faults, spurious, printed>>

\* main() has joined all threads and prints ru_minflt - SZ/4096.  If no thread
\* could be created it joined none: the join of a pthread_t that was never
\* written may return, or else nothing is printed.
PrintExtra ==
  /\ ConcurrentFault /\ printed = {}
  /\ \E s \in {"over", "missing"} : \A t \in Threads : th[t] = s
  /\ printed' = {(faults + other) - Pages}
  /\ UNCHANGED <<prog, proc, th, at, present, lost, faults, spurious, other>>

FaultTypes ==
  \/ \E p \in Procs : Touch(p) \/ StrayFault(p) \/ Report(p)
  \/ Fork \/ ChildMarks \/ ChildExits \/ Wait \/ MapMissing
Thread(t) == WritePage(t) \/ EnterFault(t) \/ Install(t)
Next ==
  \/ Start \/ FaultTypes \/ Launch \/ BarrierOpens \/ OtherFault \/ PrintExtra
  \/ \E t \in Threads : Thread(t)

-----------------------------------------------------------------------------
Forked == \E e \in said["child"] : e.sweep = "cwrite"     \* and the child has written

\* The faults a report() counts on the mapping it is about.
Minor(e) == e.minor - (e.own + e.stray)
Major(e) == e.major - e.strayMaj

\* What report() may say at the end of each sweep.
Announced(e) ==
  /\ e.sweep \in {"untouched", "cread", "again"} => Minor(e) = 0 /\ Major(e) = 0
  /\ e.sweep \in {"write", "zero"} => Minor(e) = Pages
  /\ e.sweep = "hot" => Minor(e) \in 1..Pages /\ Major(e) = 0
  /\ e.sweep = "cold" => Major(e) >= 1 /\ Minor(e) + Major(e) <= Pages
  /\ e.sweep = "cwrite" => Minor(e) = Pages /\ e.copies = Pages
  /\ e.sweep = "reuse" => e.copies = 0 /\ Minor(e) = IF Forked THEN Pages ELSE 0
  /\ e.sweep = "private" => Minor(e) = 1 /\ e.copies = 1 /\ e.file = "AB"
  /\ e.sweep = "shared" => e.file = "5A"
  /\ e.own \in IF e.sweep = "cread" THEN {1} ELSE IF e.sweep = "reuse" /\ Forked THEN {0, 1} ELSE {0}

\* fault_types: in every interleaving with the child, each sweep faults on its
\* mapping as the program announces: once per page for a first write, for a
\* first read and for the child's write, never for untouched memory, for the
\* child's read and for the second write.  File sweeps fault at most once per
\* page, major faults being possible exactly for the cold one, which has one at
\* least.  The write after wait() faults once per page but copies nothing,
\* unless fork() had failed: then it does not fault at all.  A private write
\* leaves the file as it was, a shared one changes it.  What report() prints is
\* that plus the faults elsewhere in the process and those of mark() itself:
\* exactly one in the child's read sweep, where 0 is announced, one or none in
\* the sweep after wait(), and none in any other.
FaultsAsAnnounced == \A p \in Procs : \A e \in said[p] : Announced(e)

\* concurrent_fault: when the surplus is printed, every page has one frame and
\* each of the other frames was given back; the surplus is these plus the faults
\* that found the page mapped and the faults elsewhere in the process, so it is
\* an upper bound, not the number of double checks that failed.  It is negative
\* only if no thread could be created.
ExtraFaults ==
  \A x \in printed :
    IF \A t \in Threads : th[t] = "missing" THEN x = other - Pages
    ELSE present = P /\ x = lost + spurious + other /\ lost <= x

-----------------------------------------------------------------------------
(* The inductive invariant.                                                *)

FltSizes ==
  Pages \in Nat \ {0} /\ IsFiniteSet(Threads) /\ Threads # {} /\ MaxOther \in Nat

TypeOK ==
  /\ prog \in {"none", "fault_types", "concurrent_fault"}
  /\ pos \in [Procs -> 0..12] /\ pos["parent"] \in 1..12 /\ pos["child"] \in 0..4
  /\ pte \in [Procs -> [P -> {"none", "zero", "ro", "rw"}]] /\ shared \in [P -> BOOLEAN]
  /\ cache \subseteq P /\ file \in {"AB", "5A"} /\ data \in [Procs -> {"ro", "rw"}]
  /\ swept \in [Procs -> 0..Pages]
  /\ minor \in [Procs -> Nat] /\ major \in [Procs -> Nat] /\ own \in [Procs -> {0, 1}]
  /\ stray \in [Procs -> Nat] /\ strayMaj \in [Procs -> Nat] /\ copies \in [Procs -> Nat]
  /\ th \in [Threads -> {"none", "missing", "waits", "killed", "write", "trap", "frame", "over"}]
  /\ DOMAIN said = Procs /\ at \in [Threads -> 1..(Pages + 1)]
  /\ present \subseteq P /\ printed \subseteq Int
  /\ lost \in Nat /\ faults \in Nat /\ spurious \in Nat /\ other \in Nat

\* Page i of process p is mapped as `before` until the sweep touches it, then
\* as `after`.
Sweeping(p, before, after) ==
  \A i \in P : pte[p][i] = IF i <= swept[p] THEN after ELSE before

\* What each sweep of the parent has met so far.
ParentSweeps ==
  LET p == "parent" k == pos["parent"] s == swept["parent"] IN
  /\ k = 1 => minor[p] = 0 /\ major[p] = 0 /\ s = 0 /\ Sweeping(p, "none", "none")
  /\ k = 2 => minor[p] = s /\ Sweeping(p, "none", "rw")
  /\ k = 3 => minor[p] = s /\ Sweeping(p, "none", "zero")
  /\ k = 4 => /\ cache = P /\ major[p] = 0 /\ minor[p] <= s
              /\ IF s = 0 THEN Sweeping(p, "none", "none") ELSE minor[p] >= 1
  /\ k = 5 => /\ minor[p] + major[p] <= s
              /\ IF s = 0 THEN cache = {} /\ Sweeping(p, "none", "none") ELSE major[p] >= 1
  /\ k \in {6, 7} => minor[p] = 0 /\ copies[p] = 0 /\ s = 0
  /\ k = 7 /\ pos["child"] # 0 => Sweeping(p, "ro", "ro")
  /\ k \in {7, 8} /\ pos["child"] = 0 =>
       IF Forked THEN Sweeping(p, "ro", "rw") /\ (\A i \in P : ~shared[i]) /\ minor[p] = s
                 ELSE Sweeping(p, "rw", "rw") /\ minor[p] = 0
  /\ k = 8 => copies[p] = 0
  /\ k = 9 => minor[p] = 0 /\ major[p] = 0 /\ Sweeping(p, "rw", "rw")
  /\ k = 10 => IF s = 0 THEN pte[p][1] = "ro" /\ minor[p] = 0 /\ copies[p] = 0
                        ELSE minor[p] = 1 /\ copies[p] = 1
  /\ k <= 10 => file = "AB"
  /\ k = 11 => IF s = 0 THEN pte[p][1] = "none" ELSE file = "5A"

\* What each sweep of the child has met so far, while the parent waits.
ChildSweeps ==
  LET p == "child" k == pos["child"] s == swept["child"] IN
  /\ k # 0 => pos["parent"] = 7
  /\ k = 1 => Sweeping(p, "ro", "ro")
  /\ k = 2 => minor[p] = 0 /\ major[p] = 0 /\ copies[p] = 0 /\ Sweeping(p, "ro", "ro")
  /\ k = 3 => minor[p] = s /\ copies[p] = s /\ Sweeping(p, "ro", "rw")
  /\ k \in 1..3 => \A i \in P : (k = 3 => i > s) => shared[i]
  /\ k = 4 => Forked
  /\ pos["parent"] < 7 \/ k \in 1..3 => ~Forked
  /\ \A q \in Procs : \A e \in said[q] : e.sweep = "reuse" => pos["parent"] >= 9

\* Which mark() finds its page shared with the other process.
DataPages ==
  /\ pos["child"] = 1 => data["child"] = "ro"
  /\ pos["child"] = 2 => own["child"] = 1
  /\ pos["child"] >= 2 => data["child"] = "rw"
  /\ pos["child"] = 3 => own["child"] = 0
  /\ pos["parent"] # 7 \/ (pos["child"] = 0 /\ ~Forked) => data["parent"] = "rw"
  /\ pos["parent"] # 8 \/ ~Forked => own["parent"] = 0

\* Every fault of concurrent_fault mapped a page, gave its frame back, found
\* the page mapped, or is on its way.
Trapped == {t \in Threads : th[t] \in {"trap", "frame"}}
FaultsCounted ==
  /\ \A t \in Threads :
       /\ \A i \in P : i < at[t] => i \in present
       /\ t \in Trapped => at[t] \in P
       /\ th[t] = "over" => at[t] > Pages
  /\ faults = Cardinality(present) + lost + spurious + Cardinality(Trapped)
  /\ (\A t \in Threads : th[t] \in {"none", "missing"}) => faults = 0
  /\ printed # {} => \E s \in {"over", "missing"} : \A t \in Threads : th[t] = s

FltInv ==
  /\ TypeOK /\ ParentSweeps /\ ChildSweeps /\ DataPages /\ FaultsCounted
  /\ FaultsAsAnnounced /\ ExtraFaults
=============================================================================
