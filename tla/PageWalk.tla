------------------------------ MODULE PageWalk ------------------------------
(***************************************************************************)
(* armv8_dump.c: the software page-table walk() of armv8_dump_init(), with *)
(* decode_desc().  The page tables are live: walk() takes no lock and      *)
(* loads an entry again for every macro it applies to it, so that the      *)
(* tables may change between two of its loads: those of user addresses, by *)
(* reclaim and khugepaged, and those of a kernel address given as walk_va, *)
(* which may be unmapped.  The other kernel addresses it walks are fixed:  *)
(* the kernel image, the linear map and the code of the module itself.     *)
(* mm_convert.c has the same walk under mmap_lock (module ResourcePaths).  *)
(*                                                                         *)
(* A virtual address is reduced to its space, a number and its path: the   *)
(* entries that translate it at levels 0 to 3.  A level has a 2-bit index  *)
(* and a page 4 bytes: an entry of level l maps 4^(4-l) bytes.             *)
(***************************************************************************)
EXTENDS Integers, Sequences

CONSTANTS MaxChanges     \* bound on concurrent changes of the tables

VARIABLES
  pc, todo,      \* where walk() is; the walks armv8_dump_init() still has to do
  va, path, lvl, \* the address and whether its mapping is fixed, its live
                 \* entries, the current level
  types,         \* the type decode_desc() printed for each level
  pa,            \* the physical address printed, NoPa before
  changes        \* changes made to path during this walk

vars == <<pc, todo, va, path, lvl, types, pa, changes>>

NoPa == -1
Wild == -2       \* an entry that is no table was followed
Size(l) == 4^(4 - l)

\* An entry: the type bits [1:0] and the rest, in which the low bits of an
\* output address hold attributes.
Desc(lo2, rest) == [lo2 |-> lo2, rest |-> rest]
None == Desc(0, 0)
Table == Desc(3, 0)
Leaf(l, attr) == Desc(IF l = 3 THEN 3 ELSE 1, 2 * Size(l) + attr)
NotPresent == Desc(0, 37)      \* a swap or migration entry: nonzero, bit 0 clear

\* The path that ends at level l with entry d.
PathTo(l, d) == [k \in 0 .. 3 |-> IF k < l THEN Table ELSE IF k = l THEN d ELSE None]

KernelPaths == {PathTo(l, Leaf(l, attr)) : l \in 1 .. 3, attr \in {0, 3}} \cup {PathTo(l, None) : l \in 0 .. 3}
UserPaths == KernelPaths \cup {PathTo(l, NotPresent) : l \in 2 .. 3}

\* What the MMU makes of an address: its physical address, or NoPa (a fault).
RECURSIVE MmuFrom(_, _, _)
MmuFrom(p, a, l) ==
  CASE p[l].lo2 \in {0, 2} -> NoPa
    [] l < 3 /\ p[l].lo2 = 3 -> MmuFrom(p, a, l + 1)
    [] OTHER -> 2 * Size(l) + (a % Size(l))
Mmu(p, a) == MmuFrom(p, a, 0)

-----------------------------------------------------------------------------
\* decode_desc(): the name of an entry's type.
decode_desc(d, l) ==
  CASE d.lo2 % 2 = 0 -> "INVALID"
    [] d.lo2 = 3 -> IF l = 3 THEN "PAGE" ELSE "TABLE"
    [] OTHER -> "BLOCK"

IsNone(d) == d = None            \* pgd_none(), pud_none(), pmd_none(), pte_none()
IsSect(d) == d.lo2 = 1           \* pud_sect(), pmd_sect()

Init ==
  /\ pc = "init" /\ todo = <<>> /\ va = [user |-> FALSE, fixed |-> TRUE, at |-> 0]
  /\ path = PathTo(0, None) /\ lvl = 0 /\ types = <<>> /\ pa = NoPa /\ changes = 0

\* armv8_dump_init(): stext and walk_va are parameters, the linear map and the
\* module itself are always walked, user code when current has an mm.
ArmInit ==
  /\ pc = "init"
  /\ \E stext, mm, extra \in BOOLEAN :
       todo' = (IF stext THEN <<"kernel">> ELSE <<>>) \o <<"kernel", "kernel">> \o
               (IF mm THEN <<"user">> ELSE <<>>) \o (IF extra THEN <<"any">> ELSE <<>>)
  /\ pc' = "idle"
  /\ UNCHANGED <<va, path, lvl, types, pa, changes>>

\* walk(): the table is chosen by bit 63; without an mm there is none for user
\* addresses and the walk is over.
Start ==
  /\ pc = "idle" /\ todo # <<>>
  /\ todo' = Tail(todo)
  /\ \E user \in (IF Head(todo) = "any" THEN BOOLEAN ELSE {Head(todo) = "user"}), a \in {0, 27, 91} :
       /\ va' = [user |-> user, fixed |-> Head(todo) = "kernel", at |-> a]
       /\ path' \in (IF user THEN UserPaths ELSE KernelPaths)
       /\ pc' \in (IF user /\ Head(todo) = "any" THEN {"decode", "idle"} ELSE {"decode"})
  /\ lvl' = 0 /\ types' = <<>> /\ pa' = NoPa /\ changes' = 0

Decode ==
  /\ pc = "decode"
  /\ types' = Append(types, decode_desc(path[lvl], lvl))
  /\ pc' = "none?"
  /\ UNCHANGED <<todo, va, path, lvl, pa, changes>>

TestNone ==
  /\ pc = "none?"
  /\ pc' = CASE IsNone(path[lvl]) -> "done" [] lvl = 0 -> "next" [] lvl = 3 -> "pa" [] OTHER -> "sect?"
  /\ UNCHANGED <<todo, va, path, lvl, types, pa, changes>>

TestSect ==
  /\ pc = "sect?"
  /\ pc' = IF IsSect(path[lvl]) THEN "pa" ELSE "next"
  /\ UNCHANGED <<todo, va, path, lvl, types, pa, changes>>

\* pud_offset(), pmd_offset(), pte_offset_kernel(): load the entry, follow it.
NextLevel ==
  /\ pc = "next"
  /\ IF path[lvl].lo2 = 3
     THEN lvl' = lvl + 1 /\ pc' = "decode" /\ UNCHANGED pa
     ELSE pa' = Wild /\ pc' = "done" /\ UNCHANGED lvl
  /\ UNCHANGED <<todo, va, path, types, changes>>

\* Mutant: the attributes of a block are not masked off.
PrintPaUnmasked ==
  /\ pc = "pa"
  /\ pa' = path[lvl].rest + (va.at % Size(lvl))
  /\ pc' = "done"
  /\ UNCHANGED <<todo, va, path, lvl, types, changes>>

\* pa = (entry & GENMASK(47, shift)) | (va & (size - 1)).
PrintPa ==
  /\ pc = "pa"
  /\ pa' = (path[lvl].rest - (path[lvl].rest % Size(lvl))) + (va.at % Size(lvl))
  /\ pc' = "done"
  /\ UNCHANGED <<todo, va, path, lvl, types, changes>>

\* verify: and the end of walk().
EndWalk ==
  /\ pc = "done"
  /\ pc' = "idle"
  /\ UNCHANGED <<todo, va, path, lvl, types, pa, changes>>

\* A page is unmapped, or reclaim takes it away and leaves a swap entry; or
\* khugepaged replaces a table by a block, and the old table, into which walk()
\* may hold a pointer, is given up: its entry is kept, cleared or overwritten.
Change ==
  /\ ~va.fixed /\ pc \notin {"init", "idle", "done"} /\ changes < MaxChanges
  /\ \/ path[3].lo2 = 3 /\ path' = [path EXCEPT ![3] = None]
     \/ va.user /\ path[3].lo2 = 3 /\ path' = [path EXCEPT ![3] = NotPresent]
     \/ /\ va.user /\ path[2].lo2 = 3
        /\ \E old \in {path[3], None, NotPresent} : path' = [path EXCEPT ![2] = Leaf(2, 0), ![3] = old]
  /\ changes' = changes + 1
  /\ UNCHANGED <<pc, todo, va, lvl, types, pa>>

Next == ArmInit \/ Start \/ Decode \/ TestNone \/ TestSect \/ NextLevel \/ PrintPa \/ EndWalk \/ Change

-----------------------------------------------------------------------------
\* walk() and decode_desc(): the walk of a fixed kernel address, and of any
\* other address whose tables did not change meanwhile, over entries that are
\* tables, leaves or zero, prints the physical address the MMU uses, or none
\* where the MMU faults, and the entries it names are the ones the MMU visits.
\* Of a walk during which the tables changed this says nothing: it may print
\* the address of a page that is gone, or one made from a swap entry.
WalkExact ==
  pc = "done" /\ (va.fixed \/ (changes = 0 /\ \A l \in 0 .. 3 : path[l] # NotPresent)) =>
    /\ pa = Mmu(path, va.at)
    /\ \A l \in DOMAIN types : types[l] = "TABLE" <=> l < Len(types)
    /\ types[Len(types)] = "INVALID" <=> pa = NoPa

\* walk(): an entry that is no table is never followed for a fixed kernel
\* address; for another one only after its tables changed during the walk, or
\* through an entry at level 2 that is not zero and not present.
WildOnlyIfMoved == pa = Wild => ~va.fixed /\ (changes > 0 \/ path[2] = NotPresent)
=============================================================================
