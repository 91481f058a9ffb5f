-------------------------------- MODULE RkSpy --------------------------------
(***************************************************************************)
(* rknpu/tools/rkspy.c: a preloaded shim that wraps ioctl() and mmap() of  *)
(* the NPU runtime, keeps a table of the buffers the runtime created and   *)
(* decodes every SUBMIT by looking its task object up by its address and   *)
(* its register commands by the range of NPU addresses they lie in.  The   *)
(* runtime and the rknpu driver are the environment: threads create, map,  *)
(* unmap, destroy and submit buffers, and the driver hands handles,        *)
(* addresses and mmap offsets out again once their object is gone.  The    *)
(* table has no lock and learns of no destroy.  Left out are the physical  *)
(* pages of the mapped entries, which the first submit prints.             *)
(***************************************************************************)
EXTENDS Integers, FiniteSets, FiniteSetsExt

CONSTANTS Threads,      \* runtime threads that may call the shim at once
          MaxObj,       \* bound: objects the runtime creates
          Names,        \* the driver's handles, object addresses and offsets, all > 0
          Areas,        \* the ranges of NPU addresses a buffer can get: [first, size]
          MAXB          \* entries of bufs[]

VARIABLES objs,         \* objs[o]: the driver's object, o in the order of creation
          bufs, nbuf,   \* the shim's table; bufs[i].of is a ghost: who filled it
          pc, cur,      \* per thread: where in ioctl(), and for which object
          seen,         \* the value of nbuf a thread last read
          raced         \* ghost: two threads were in the MEM_CREATE branch at once

vars == <<objs, bufs, nbuf, pc, cur, seen, raced>>

Objects == 1..MaxObj
NoArea == [first |-> 0, size |-> 0]
NoObj == [st |-> "none", h |-> 0, at |-> 0, dma |-> NoArea, off |-> 0, va |-> FALSE, offered |-> FALSE]
NewObj(h, at, dma, off) ==
    [st |-> "live", h |-> h, at |-> at, dma |-> dma, off |-> off, va |-> FALSE, offered |-> FALSE]
Blank == [of |-> 0, h |-> 0, at |-> 0, dma |-> NoArea, moff |-> 0, va |-> 0]

Holds(area, a) == area.first <= a /\ a < area.first + area.size
Disjoint(c, d) == c.first + c.size <= d.first \/ d.first + d.size <= c.first

\* What a lookup yields besides an object: no entry, an entry without an
\* address, an address with nothing mapped there any more.
Missing == MaxObj + 1
Unmapped == MaxObj + 2
Wild == MaxObj + 3

Live == {o \in Objects : objs[o].st = "live"}
InFlight == {cur[t] : t \in Threads}

\* The objects the runtime can name: created, returned to it, not destroyed.
Usable == Live \ InFlight

Object == [st : {"none", "live", "dead"}, h : Names \cup {0}, at : Names \cup {0},
           dma : Areas \cup {NoArea}, off : Names \cup {0}, va : BOOLEAN, offered : BOOLEAN]
Entry == [of : Objects \cup {0}, h : Names \cup {0}, at : Names \cup {0},
          dma : Areas \cup {NoArea}, moff : Names \cup {0}, va : Objects \cup {0}]

TypeOK ==
    /\ objs \in [Objects -> Object]
    /\ bufs \in [1..(MAXB + 1) -> Entry]
    /\ nbuf \in Nat /\ seen \in [Threads -> Nat]
    /\ pc \in [Threads -> {"idle", "check", "write", "bump"}]
    /\ cur \in [Threads -> Objects \cup {0}]
    /\ raced \in BOOLEAN

\* bufs[MAXB + 1] stands for the memory after the array.
Init ==
    /\ objs = [o \in Objects |-> NoObj]
    /\ bufs = [i \in 1..(MAXB + 1) |-> Blank]
    /\ nbuf = 0
    /\ pc = [t \in Threads |-> "idle"]
    /\ cur = [t \in Threads |-> 0]
    /\ seen = [t \in Threads |-> 0]
    /\ raced = FALSE

Entries == 1..(IF nbuf > MAXB THEN MAXB + 1 ELSE nbuf)

\* The index of the first entry that P holds of, 0 for "-1".
First(P(_)) ==
    IF \E i \in Entries : P(i)
    THEN CHOOSE i \in Entries : P(i) /\ \A j \in Entries : P(j) => i <= j
    ELSE 0

find_by_obj(a) == LET Is(i) == bufs[i].at = a IN First(Is)

\* Mutant: the address after the last one of a buffer still counts as its own.
find_by_dmaEnd(a) ==
    LET In(i) == bufs[i].dma.first # 0 /\ bufs[i].dma.first <= a
                                       /\ a <= bufs[i].dma.first + bufs[i].dma.size
    IN  First(In)

find_by_dma(a) ==
    LET In(i) == bufs[i].dma.first # 0 /\ Holds(bufs[i].dma, a) IN First(In)

\* What reading through entry i at an offset yields: the object mapped at its
\* va, if there is one and it is that long.
ReadThrough(i, off) ==
    CASE i = 0 -> Missing
      [] i # 0 /\ bufs[i].va = 0 -> Unmapped
      [] i # 0 /\ bufs[i].va # 0 /\ objs[bufs[i].va].va /\ off < objs[bufs[i].va].dma.size -> bufs[i].va
      [] OTHER -> Wild

\* Handles come from an idr, which gives out the smallest that is free.
FreeHandles == Names \ {objs[p].h : p \in Live}

(***************************************************************************)
(* ioctl(MEM_CREATE): the driver's part, then the shim's, which tests      *)
(* nbuf, fills the entry nbuf names by then and increments nbuf.           *)
(***************************************************************************)
Create(t, o) ==
    /\ pc[t] = "idle" /\ objs[o].st = "none"
    /\ \A p \in 1..(o - 1) : objs[p].st # "none"
    /\ \E at, off \in Names, dma \in Areas :
          /\ \A p \in Live : objs[p].at # at /\ objs[p].off # off /\ Disjoint(objs[p].dma, dma)
          /\ FreeHandles # {}
          /\ LET h == Min(FreeHandles) IN
             objs' = [objs EXCEPT ![o] = NewObj(h, at, dma, off)]
    /\ pc' = [pc EXCEPT ![t] = "check"]
    /\ cur' = [cur EXCEPT ![t] = o]
    /\ raced' = (raced \/ \E u \in Threads \ {t} : pc[u] # "idle")
    /\ UNCHANGED <<bufs, nbuf, seen>>

\* Mutant: the limit is tested one entry too late.
CheckRoomOff(t) ==
    /\ pc[t] = "check"
    /\ pc' = [pc EXCEPT ![t] = IF nbuf <= MAXB THEN "write" ELSE "idle"]
    /\ cur' = [cur EXCEPT ![t] = IF nbuf <= MAXB THEN @ ELSE 0]
    /\ UNCHANGED <<objs, bufs, nbuf, seen, raced>>

CheckRoom(t) ==
    /\ pc[t] = "check"
    /\ pc' = [pc EXCEPT ![t] = IF nbuf < MAXB THEN "write" ELSE "idle"]
    /\ cur' = [cur EXCEPT ![t] = IF nbuf < MAXB THEN @ ELSE 0]
    /\ UNCHANGED <<objs, bufs, nbuf, seen, raced>>

WriteEntry(t) ==
    /\ pc[t] = "write"
    /\ LET i == IF nbuf < MAXB THEN nbuf + 1 ELSE MAXB + 1
           o == cur[t]
       IN  bufs' = [bufs EXCEPT ![i].of = o, ![i].h = objs[o].h, ![i].at = objs[o].at,
                                 ![i].dma = objs[o].dma]
    /\ seen' = [seen EXCEPT ![t] = nbuf]
    /\ pc' = [pc EXCEPT ![t] = "bump"]
    /\ UNCHANGED <<objs, nbuf, cur, raced>>

\* nbuf++ is a plain load and store: it may also store the value read earlier.
Bump(t) ==
    /\ pc[t] = "bump"
    /\ nbuf' \in {nbuf + 1, seen[t] + 1}
    /\ pc' = [pc EXCEPT ![t] = "idle"]
    /\ cur' = [cur EXCEPT ![t] = 0]
    /\ seen' = [seen EXCEPT ![t] = 0]
    /\ UNCHANGED <<objs, bufs, raced>>

\* Mutant: only the first entry with the handle learns its offset.
MemMapFirst(t, o) ==
    /\ pc[t] = "idle" /\ o \in Usable /\ ~objs[o].offered
    /\ objs' = [objs EXCEPT ![o].offered = TRUE]
    /\ LET Has(i) == bufs[i].h = objs[o].h
       IN  bufs' = [i \in DOMAIN bufs |->
                      IF i = First(Has)
                      THEN [bufs[i] EXCEPT !.moff = objs[o].off] ELSE bufs[i]]
    /\ UNCHANGED <<nbuf, pc, cur, seen, raced>>

\* ioctl(MEM_MAP): every entry with the handle, live or not, takes the offset;
\* a stale one keeps its object address and its range.
MemMap(t, o) ==
    /\ pc[t] = "idle" /\ o \in Usable /\ ~objs[o].offered
    /\ objs' = [objs EXCEPT ![o].offered = TRUE]
    /\ bufs' = [i \in DOMAIN bufs |->
                  IF i \in Entries /\ bufs[i].h = objs[o].h
                  THEN [bufs[i] EXCEPT !.moff = objs[o].off] ELSE bufs[i]]
    /\ UNCHANGED <<nbuf, pc, cur, seen, raced>>

\* mmap() and note_map(): every entry with the offset takes the address.  An
\* object is mapped at an address of its own, named by its number.
Mmap(t, o) ==
    /\ pc[t] = "idle" /\ o \in Usable /\ objs[o].offered /\ ~objs[o].va
    /\ objs' = [objs EXCEPT ![o].va = TRUE]
    /\ bufs' = [i \in DOMAIN bufs |->
                  IF i \in Entries /\ bufs[i].moff = objs[o].off
                  THEN [bufs[i] EXCEPT !.va = o] ELSE bufs[i]]
    /\ UNCHANGED <<nbuf, pc, cur, seen, raced>>

\* munmap() and ioctl(MEM_DESTROY): the shim passes both through unseen.  The
\* mmap offset goes back to the driver.
Destroy(t, o) ==
    /\ pc[t] = "idle" /\ o \in Usable
    /\ objs' = [objs EXCEPT ![o].st = "dead", ![o].va = FALSE, ![o].offered = FALSE, ![o].off = 0]
    /\ UNCHANGED <<bufs, nbuf, pc, cur, seen, raced>>

\* regcmd_find() and the raw dump: where the command at NPU address a is read,
\* an object and an offset in it.
Commands(a) ==
    LET i == find_by_dma(a)
        off == IF i = 0 THEN 0 ELSE a - bufs[i].dma.first
    IN  <<ReadThrough(i, off), off>>

\* What dump_submit() decodes for a submit whose task object is o and whose
\* tasks name register commands at offset k of r: the task buffer first, then,
\* when that was found, the commands.
dump_submit(o, r, k) ==
    LET task == ReadThrough(find_by_obj(objs[o].at), 0)
    IN  [task |-> task, reg |-> IF task \in {Missing, Unmapped} THEN <<task, 0>>
                                ELSE Commands(objs[r].dma.first + k)]

\* The runtime fills the task buffer before it submits it.
Submittable(o, r) == {o, r} \subseteq Usable /\ objs[o].va

\* ioctl(SUBMIT), dumped before the driver sees it: the table and the buffers
\* are read and stay as they are.
Submit(t, o, r) ==
    /\ pc[t] = "idle" /\ Submittable(o, r)
    /\ UNCHANGED vars

Next ==
    \E t \in Threads :
       \/ CheckRoom(t) \/ WriteEntry(t) \/ Bump(t)
       \/ \E o \in Objects :
             Create(t, o) \/ MemMap(t, o) \/ Mmap(t, o) \/ Destroy(t, o)
       \/ \E o, r \in Objects : Submit(t, o, r)

Spec == Init /\ [][Next]_vars

(***************************************************************************)
(* Properties.                                                             *)
(***************************************************************************)
Recorded(o) == \E i \in Entries : bufs[i].of = o

\* A stale entry claims the object address of the live object o under another
\* handle, or the NPU address at offset k of it, under another handle or with a
\* range that begins elsewhere.
Shadowed(o) == \E i \in Entries : bufs[i].at = objs[o].at /\ bufs[i].h # objs[o].h
Overlaid(o, k) ==
    \E i \in Entries :
       /\ Holds(bufs[i].dma, objs[o].dma.first + k)
       /\ bufs[i].h # objs[o].h \/ bufs[i].dma.first # objs[o].dma.first

\* While no two MEM_CREATE calls overlap, the table holds the first MAXB
\* objects in the order of their creation, and is never written past its end.
SpyTableExact ==
    ~raced => /\ nbuf <= MAXB /\ bufs[MAXB + 1] = Blank
              /\ \A i \in 1..nbuf : bufs[i].of = i /\ bufs[i].h = objs[i].h
              /\ (\A t \in Threads : pc[t] = "idle") =>
                    nbuf = LET n == Cardinality({o \in Objects : objs[o].st # "none"})
                           IN  IF n < MAXB THEN n ELSE MAXB

\* A submit is decoded from the memory it names, although the shim never removes
\* an entry: a stale entry with the handle of a live object got its offset and
\* address from MEM_MAP and mmap.  But it keeps its object address and range: a
\* stale entry that claims the address under another handle, or whose range
\* begins elsewhere, may be found first, and then something else is decoded.
\* Otherwise a buffer is missing only when the table was full at its creation.
SpyDecodesLive ==
    \A o, r \in Objects : \A k \in 0..(objs[r].dma.size - 1) :
       (Submittable(o, r) /\ ~raced /\ ~Shadowed(o)) =>
          LET d == dump_submit(o, r, k)
          IN  /\ d.task = IF \E i \in Entries : bufs[i].at = objs[o].at
                          THEN o ELSE Missing
              /\ objs[r].va /\ Recorded(r) /\ ~Overlaid(r, k) /\ d.task = o => d.reg = <<r, k>>

\* The table holds the buffers of the runtime, and a submit is decoded from the
\* memory of the objects it names.
SpyExact == SpyTableExact /\ SpyDecodesLive

(***************************************************************************)
(* The inductive invariant behind SpyExact.                                *)
(***************************************************************************)
\* Constants the code gives meaning to: an array, names that are not 0.
SpyConstants ==
    /\ MaxObj \in Nat /\ MAXB \in Nat /\ Names \subseteq Nat \ {0}
    /\ Areas \subseteq [first : Nat \ {0}, size : Nat \ {0}]

\* The driver never has two live objects of one handle, address or offset.
Distinct ==
    \A o \in Live :
       /\ objs[o].h \in Names /\ objs[o].at \in Names /\ objs[o].off \in Names
       /\ objs[o].dma \in Areas
       /\ \A p \in Live : p # o => /\ objs[p].h # objs[o].h /\ objs[p].at # objs[o].at
                                   /\ objs[p].off # objs[o].off

\* An object whose MEM_CREATE has not returned is live and not mapped.
Flight ==
    \A t \in Threads :
       /\ pc[t] = "idle" <=> cur[t] = 0
       /\ cur[t] # 0 => /\ objs[cur[t]].st = "live"
                        /\ ~objs[cur[t]].offered /\ ~objs[cur[t]].va

\* Without a race one thread at a time is in the MEM_CREATE branch.
Sole ==
    ~raced => \A t, u \in Threads : pc[t] # "idle" /\ pc[u] # "idle" => t = u

Smaller(x, y) == IF x < y THEN x ELSE y
Describes(i, o) ==
    /\ bufs[i].of = o /\ bufs[i].h = objs[o].h /\ bufs[i].at = objs[o].at
    /\ bufs[i].dma = objs[o].dma

\* The first m objects exist; the table holds as many of them as have returned
\* from MEM_CREATE and fit.
Filled(m) ==
    /\ \A o \in Objects : objs[o].st # "none" <=> o <= m
    /\ nbuf <= MAXB /\ nbuf <= m /\ bufs[MAXB + 1] = Blank
    /\ \A i \in 1..nbuf : Describes(i, i)
    /\ (\A t \in Threads : pc[t] = "idle") => nbuf = Smaller(m, MAXB)
    /\ \A t \in Threads :
          /\ pc[t] # "idle" => cur[t] = m /\ nbuf = Smaller(m - 1, MAXB)
          /\ pc[t] \in {"write", "bump"} => m <= MAXB
          /\ pc[t] = "bump" => seen[t] = nbuf /\ Describes(m, m)
Table == ~raced => \E m \in 0..MaxObj : Filled(m)

\* MEM_MAP and mmap have refreshed every entry with the handle of a live object,
\* stale ones included.
Refreshed ==
    ~raced =>
       \A o \in Live :
          /\ objs[o].va => objs[o].offered
          /\ \A i \in Entries : bufs[i].h = objs[o].h =>
                /\ objs[o].offered => bufs[i].moff = objs[o].off
                /\ objs[o].va => bufs[i].va = o

SpyInv == TypeOK /\ Distinct /\ Flight /\ Sole /\ Table /\ Refreshed
=============================================================================
