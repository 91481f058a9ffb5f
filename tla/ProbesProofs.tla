---------------------------- MODULE ProbesProofs ----------------------------
(***************************************************************************)
(* Proofs about the kernel modules among the probes, for every value of    *)
(* the constants.                                                          *)
(*   rcu_demo.c     mode 0 never lets a reader touch freed memory or see an *)
(*     older version after a newer one, and rmmod leaves neither objects   *)
(*     nor callbacks, for every number of readers and of writer rounds;    *)
(*     modes 1 to 3 leave no reader and no object behind                   *)
(*   crash_probe.c  every command stays within what it may read            *)
(*   irq_live.c     what is printed is what the handlers saw, on any number *)
(*     of CPUs                                                             *)
(*   ctx_probe.c    the context table, and that rmmod leaves no callback   *)
(***************************************************************************)
EXTENDS RcuDemo, Probes, FiniteSetTheorems, SequenceTheorems, ProofLemmas
-----------------------------------------------------------------------------
(* rcu_demo.c, mode 0.                                                   *)

\* The exited readers are a finite set, no larger than the set of readers.
LEMMA ExitedFinite ==
  /\ IsFiniteSet(Exited)
  /\ Cardinality(Exited) \in Nat /\ Cardinality(Readers) \in Nat
  /\ Cardinality(Exited) <= Cardinality(Readers)
<1>1. Exited \subseteq Readers /\ IsFiniteSet(Readers)
  BY RcuDemoAssumption DEF Exited
<1> QED BY <1>1, FS_Subset, FS_CardinalityType

\* The initial state satisfies the invariant: nothing is allocated.
LEMMA InitIInv == Init => IInv
<1> SUFFICES ASSUME Init PROVE IInv
  OBVIOUS
<1> USE RcuDemoAssumption
<1>1. TypeOK
  BY DEF Init, TypeOK, Objs, Null
<1>2. Threads
  <2>1. Exited = {}
    BY DEF Init, Exited
  <2>2. Cardinality(Exited) = 0
    BY <2>1, FS_EmptySet
  <2> QED BY <2>2 DEF Init, Threads
<1>3. Objects
  BY DEF Init, Objects
<1>4. \A r \in Readers : Protected(r) /\ Ordered(r)
  BY DEF Init, Protected, Ordered, Null
<1>5. Reclaimed
  BY DEF Init, Reclaimed
<1> QED BY <1>1, <1>2, <1>3, <1>4, <1>5 DEF IInv

\* Every step keeps the variables in their types.
LEMMA NextTypeOK == TypeOK /\ Objects /\ [Next]_vars => TypeOK'
<1> SUFFICES ASSUME TypeOK, Objects, [Next]_vars PROVE TypeOK'
  OBVIOUS
<1> USE RcuDemoAssumption DEF TypeOK, Objs, Null
<1>1. CASE Insmod
  <2>1. CASE InitNoMem
    BY <2>1 DEF InitNoMem, rvars, wvars
  <2>2. CASE InitPublish
    BY <2>2 DEF InitPublish, rvars, wvars
  <2>3. CASE Spawn
    BY <2>3 DEF Spawn
  <2>4. CASE WaitDone
    BY <2>4 DEF WaitDone, rvars, wvars
  <2> QED BY <1>1, <2>1, <2>2, <2>3, <2>4 DEF Insmod
<1>2. ASSUME NEW r \in Readers, Reader(r) PROVE TypeOK'
  <2>1. CASE ReadLock(r)
    BY <2>1 DEF ReadLock, wvars
  <2>2. CASE Dereference(r)
    BY <2>2 DEF Dereference, wvars
  <2>3. CASE ReadUnlock(r)
    BY <2>3 DEF ReadUnlock, wvars
  <2>4. CASE ReaderDone(r)
    BY <2>4 DEF ReaderDone, wvars
  <2> QED BY <1>2, <2>1, <2>2, <2>3, <2>4 DEF Reader
<1>3. CASE Writer
  <2>1. CASE Alloc
    BY <2>1 DEF Alloc, rvars
  <2>2. CASE WriterDone
    BY <2>2 DEF WriterDone, rvars
  <2>3. CASE Copy
    BY <2>3 DEF Copy, rvars
  <2>4. CASE Publish
    BY <2>4 DEF Publish, rvars
  <2>5. CASE CallRcu
    <3>1. old \in Objs
      BY <2>5 DEF CallRcu, Objects
    <3> QED BY <2>5, <3>1 DEF CallRcu, Inside, rvars
  <2> QED BY <1>3, <2>1, <2>2, <2>3, <2>4, <2>5 DEF Writer
<1>4. ASSUME NEW o \in Objs, MyrcuDel(o) PROVE TypeOK'
  BY <1>4 DEF MyrcuDel, rvars, wvars
<1>5. CASE Unpublish
  BY <1>5 DEF Unpublish, Inside, rvars, wvars
<1>6. CASE Rmmod
  BY <1>6 DEF Rmmod, SyncFree, Barrier, rvars, wvars
<1>7. CASE Unloaded \/ UNCHANGED vars
  BY <1>7 DEF Unloaded, vars, rvars, wvars
<1> QED BY <1>1, <1>2, <1>3, <1>4, <1>5, <1>6, <1>7 DEF Next

\* done counts the threads that have left, and the writer runs only while
\* insmod waits for it.
LEMMA NextThreads == TypeOK /\ Threads /\ [Next]_vars => Threads'
<1> SUFFICES ASSUME TypeOK, Threads, [Next]_vars PROVE Threads'
  OBVIOUS
<1> USE RcuDemoAssumption
<1>a. IsFiniteSet(Exited) /\ Cardinality(Exited) \in Nat
      /\ Cardinality(Readers) \in Nat /\ Cardinality(Exited) <= Cardinality(Readers)
  BY ExitedFinite
<1>0. ASSUME rpc' = rpc PROVE Exited' = Exited
  BY <1>0 DEF Exited
<1>1. CASE InitNoMem
  BY <1>1, <1>0 DEF InitNoMem, rvars, wvars, Threads, TypeOK
<1>2. CASE InitPublish
  BY <1>2, <1>0 DEF InitPublish, rvars, wvars, Threads, TypeOK, Null
<1>3. CASE Spawn
  <2>1. Exited = {} /\ Exited' = {}
    BY <1>3 DEF Spawn, Exited, Threads
  <2>2. g_ptr # Null
    BY <1>3 DEF Spawn, Threads
  <2> QED BY <2>1, <2>2, <1>3 DEF Spawn, Threads
<1>4. CASE WaitDone
  <2>1. wpc = "exited"
    BY <1>a, <1>4 DEF WaitDone, Threads
  <2> QED BY <2>1, <1>4, <1>0 DEF WaitDone, rvars, wvars, Threads
<1>5. ASSUME NEW r \in Readers, Reader(r) PROVE Threads'
  <2>0. phase \notin {"init", "spawn"}
    BY <1>5 DEF Reader, ReadLock, Dereference, ReadUnlock, ReaderDone, Threads
  <2>1. CASE ReadLock(r) \/ Dereference(r) \/ ReadUnlock(r)
    <3>1. Exited' = Exited
      BY <2>1 DEF ReadLock, Dereference, ReadUnlock, Exited, TypeOK
    <3> QED BY <2>0, <2>1, <3>1 DEF ReadLock, Dereference, ReadUnlock, Threads, wvars
  <2>2. CASE ReaderDone(r)
    <3>1. Exited' = Exited \cup {r} /\ r \notin Exited
      BY <2>2 DEF ReaderDone, Exited, TypeOK
    <3>2. Cardinality(Exited') = Cardinality(Exited) + 1
      BY <3>1, <1>a, FS_AddElement
    <3> QED BY <2>0, <2>2, <3>2, <1>a DEF ReaderDone, Threads, wvars
  <2> QED BY <1>5, <2>1, <2>2 DEF Reader
<1>6. CASE Writer
  <2>1. phase = "wait" /\ g_ptr # Null
    BY <1>6 DEF Writer, Alloc, WriterDone, Copy, Publish, CallRcu, Threads
  <2>2. Exited' = Exited
    BY <1>6, <1>0 DEF Writer, Alloc, WriterDone, Copy, Publish, CallRcu, rvars
  <2>3. CASE Alloc
    BY <2>1, <2>2, <2>3 DEF Alloc, Threads
  <2>4. CASE WriterDone
    BY <2>1, <2>2, <2>4, <1>a DEF WriterDone, Threads
  <2>5. CASE Copy
    BY <2>1, <2>2, <2>5 DEF Copy, Threads
  <2>6. CASE Publish
    BY <2>1, <2>2, <2>6 DEF Publish, Threads, TypeOK, Null
  <2>7. CASE CallRcu
    BY <2>1, <2>2, <2>7 DEF CallRcu, Threads
  <2> QED BY <1>6, <2>3, <2>4, <2>5, <2>6, <2>7 DEF Writer
<1>7. ASSUME NEW o \in Objs, MyrcuDel(o) PROVE Threads'
  BY <1>7, <1>0 DEF MyrcuDel, rvars, wvars, Threads
<1>8. CASE Unpublish
  BY <1>8, <1>0 DEF Unpublish, rvars, wvars, Threads
<1>9. CASE Rmmod
  BY <1>9, <1>0 DEF Rmmod, SyncFree, Barrier, rvars, wvars, Threads
<1>10. CASE Unloaded \/ UNCHANGED vars
  BY <1>10, <1>0 DEF Unloaded, vars, rvars, wvars, Threads
<1> QED
  BY <1>1, <1>2, <1>3, <1>4, <1>5, <1>6, <1>7, <1>8, <1>9, <1>10 DEF Next, Insmod

\* Objects in use are alive and distinct, so each is freed at most once.
LEMMA NextObjects == TypeOK /\ Threads /\ Objects /\ [Next]_vars => Objects'
<1> SUFFICES ASSUME TypeOK, Threads, Objects, [Next]_vars PROVE Objects'
  OBVIOUS
<1> USE RcuDemoAssumption DEF Objs, Null
<1>1. CASE InitNoMem
  BY <1>1 DEF InitNoMem, rvars, wvars, Objects, Used
<1>2. CASE InitPublish
  BY <1>2 DEF InitPublish, rvars, wvars, Objects, Used, Threads, TypeOK
<1>3. CASE Spawn
  BY <1>3 DEF Spawn, Objects, Used, Threads
<1>4. CASE WaitDone
  BY <1>4 DEF WaitDone, rvars, wvars, Objects, Used
<1>5. ASSUME NEW r \in Readers, Reader(r) PROVE Objects'
  BY <1>5 DEF Reader, ReadLock, Dereference, ReadUnlock, ReaderDone, wvars, Objects, Used
<1>6. CASE Alloc
  BY <1>6 DEF Alloc, rvars, Objects, Used, Threads, TypeOK
<1>7. CASE WriterDone
  BY <1>7 DEF WriterDone, rvars, Objects, Used
<1>8. CASE Copy
  BY <1>8 DEF Copy, rvars, Objects, Used, Threads, TypeOK
<1>9. CASE Publish
  BY <1>9 DEF Publish, rvars, Objects, Used, Threads, TypeOK
<1>10. CASE CallRcu
  BY <1>10 DEF CallRcu, rvars, Objects, Used, Threads, TypeOK
<1>11. ASSUME NEW o \in Objs, MyrcuDel(o) PROVE Objects'
  BY <1>11 DEF MyrcuDel, rvars, wvars, Objects, Used, TypeOK
<1>12. CASE Unpublish
  BY <1>12 DEF Unpublish, rvars, wvars, Objects, Used, Threads, TypeOK
<1>13. CASE SyncFree
  BY <1>13 DEF SyncFree, rvars, wvars, Objects, Used, Threads, TypeOK
<1>14. CASE Barrier
  BY <1>14 DEF Barrier, rvars, wvars, Objects, Used
<1>15. CASE Unloaded \/ UNCHANGED vars
  BY <1>15 DEF Unloaded, vars, rvars, wvars, Objects, Used
<1> QED
  BY <1>1, <1>2, <1>3, <1>4, <1>5, <1>6, <1>7, <1>8, <1>9, <1>10, <1>11, <1>12,
     <1>13, <1>14, <1>15 DEF Next, Insmod, Writer, Rmmod

\* What a reader holds stays protected from both ways of freeing it.
LEMMA NextProtected ==
  IInv /\ [Next]_vars => \A r \in Readers : Protected(r)'
<1> SUFFICES ASSUME IInv, [Next]_vars, NEW r \in Readers PROVE Protected(r)'
  OBVIOUS
<1>0. TypeOK /\ Threads /\ Objects /\ Protected(r)
  BY DEF IInv
<1> USE RcuDemoAssumption, <1>0 DEF Null
<1>1. CASE InitNoMem
  BY <1>1 DEF InitNoMem, rvars, wvars, Protected, Threads
<1>2. CASE InitPublish
  BY <1>2 DEF InitPublish, rvars, wvars, Protected, Threads
<1>3. CASE Spawn
  BY <1>3 DEF Spawn, Protected, Threads
<1>4. CASE WaitDone
  BY <1>4 DEF WaitDone, rvars, wvars, Protected
<1>5. ASSUME NEW s \in Readers, Reader(s) PROVE Protected(r)'
  <2>1. CASE ReadLock(s)
    BY <2>1 DEF ReadLock, wvars, Protected, TypeOK
  <2>2. CASE Dereference(s)
    BY <2>2 DEF Dereference, wvars, Protected, TypeOK, Objects
  <2>3. CASE ReadUnlock(s)
    BY <2>3 DEF ReadUnlock, wvars, Protected, TypeOK
  <2>4. CASE ReaderDone(s)
    BY <2>4 DEF ReaderDone, wvars, Protected, TypeOK
  <2> QED BY <1>5, <2>1, <2>2, <2>3, <2>4 DEF Reader
<1>6. CASE Alloc
  BY <1>6 DEF Alloc, rvars, Protected, TypeOK, Objs
<1>7. CASE WriterDone
  BY <1>7 DEF WriterDone, rvars, Protected
<1>8. CASE Copy
  BY <1>8 DEF Copy, rvars, Protected
<1>9. CASE Publish
  BY <1>9 DEF Publish, rvars, Protected, Objects
<1>10. CASE CallRcu
  BY <1>10 DEF CallRcu, rvars, Protected, Inside, Objects
<1>11. ASSUME NEW o \in Objs, MyrcuDel(o) PROVE Protected(r)'
  BY <1>11 DEF MyrcuDel, rvars, wvars, Protected, Objects, TypeOK
<1>12. CASE Unpublish
  BY <1>12 DEF Unpublish, rvars, wvars, Protected, Inside, Threads
<1>13. CASE SyncFree
  BY <1>13 DEF SyncFree, rvars, wvars, Protected, Threads, TypeOK, Objects
<1>14. CASE Barrier
  BY <1>14 DEF Barrier, rvars, wvars, Protected
<1>15. CASE Unloaded \/ UNCHANGED vars
  BY <1>15 DEF Unloaded, vars, rvars, wvars, Protected
<1> QED
  BY <1>1, <1>2, <1>3, <1>4, <1>5, <1>6, <1>7, <1>8, <1>9, <1>10, <1>11, <1>12,
     <1>13, <1>14, <1>15 DEF Next, Insmod, Writer, Rmmod

\* No live object is forgotten, and the callbacks drained by rcu_barrier()
\* are the last ones.
LEMMA NextReclaimed == IInv /\ [Next]_vars => Reclaimed'
<1> SUFFICES ASSUME IInv, [Next]_vars PROVE Reclaimed'
  OBVIOUS
<1>0. TypeOK /\ Threads /\ Objects /\ Reclaimed
  BY DEF IInv
<1> USE RcuDemoAssumption, <1>0 DEF Objs, Null
<1>1. CASE InitNoMem
  BY <1>1 DEF InitNoMem, rvars, wvars, Reclaimed
<1>2. CASE InitPublish
  BY <1>2 DEF InitPublish, rvars, wvars, Reclaimed, Threads, TypeOK
<1>3. CASE Spawn
  BY <1>3 DEF Spawn, Reclaimed, Threads
<1>4. CASE WaitDone
  BY <1>4 DEF WaitDone, rvars, wvars, Reclaimed
<1>5. ASSUME NEW r \in Readers, Reader(r) PROVE Reclaimed'
  BY <1>5 DEF Reader, ReadLock, Dereference, ReadUnlock, ReaderDone, wvars, Reclaimed
<1>6. CASE Alloc
  BY <1>6 DEF Alloc, rvars, Reclaimed, Threads, TypeOK
<1>7. CASE WriterDone
  BY <1>7 DEF WriterDone, rvars, Reclaimed
<1>8. CASE Copy
  BY <1>8 DEF Copy, rvars, Reclaimed
<1>9. CASE Publish
  BY <1>9 DEF Publish, rvars, Reclaimed, Objects
<1>10. CASE CallRcu
  BY <1>10 DEF CallRcu, rvars, Reclaimed, Threads
<1>11. ASSUME NEW o \in Objs, MyrcuDel(o) PROVE Reclaimed'
  BY <1>11 DEF MyrcuDel, rvars, wvars, Reclaimed, TypeOK
<1>12. CASE Unpublish
  BY <1>12 DEF Unpublish, rvars, wvars, Reclaimed
<1>13. CASE SyncFree
  BY <1>13 DEF SyncFree, rvars, wvars, Reclaimed, Threads, TypeOK
<1>14. CASE Barrier
  BY <1>14 DEF Barrier, rvars, wvars, Reclaimed
<1>15. CASE Unloaded \/ UNCHANGED vars
  BY <1>15 DEF Unloaded, vars, rvars, wvars, Reclaimed
<1> QED
  BY <1>1, <1>2, <1>3, <1>4, <1>5, <1>6, <1>7, <1>8, <1>9, <1>10, <1>11, <1>12,
     <1>13, <1>14, <1>15 DEF Next, Insmod, Writer, Rmmod

\* Objects are published in the order of their versions, filled before they
\* are, and not written any more while a reader may hold them.
LEMMA NextOrdered == IInv /\ [Next]_vars => \A r \in Readers : Ordered(r)'
<1> SUFFICES ASSUME IInv, [Next]_vars, NEW r \in Readers PROVE Ordered(r)'
  OBVIOUS
<1>0. TypeOK /\ Threads /\ Objects /\ Protected(r) /\ Ordered(r)
  BY DEF IInv
<1> USE RcuDemoAssumption, <1>0 DEF Null, Objs
<1>1. CASE InitNoMem
  BY <1>1 DEF InitNoMem, rvars, wvars, Ordered
<1>2. CASE InitPublish
  BY <1>2 DEF InitPublish, rvars, wvars, Ordered, Version, Protected, Threads, TypeOK
<1>3. CASE Spawn
  BY <1>3 DEF Spawn, Ordered, Threads
<1>4. CASE WaitDone
  BY <1>4 DEF WaitDone, rvars, wvars, Ordered
<1>5. ASSUME NEW s \in Readers, Reader(s) PROVE Ordered(r)'
  <2>1. CASE ReadLock(s)
    BY <2>1 DEF ReadLock, wvars, Ordered
  <2>2. CASE Dereference(s)
    BY <2>2 DEF Dereference, wvars, Ordered, Version, TypeOK
  <2>3. CASE ReadUnlock(s)
    <3>1. /\ g_ptr' = g_ptr /\ a' = a /\ wpc' = wpc /\ wi' = wi /\ phase' = phase
          /\ rpc[s] = "have"
          /\ seen' = [seen EXCEPT ![s] = IF p[s] = Null THEN seen[s] ELSE a[p[s]]]
          /\ p' = [p EXCEPT ![s] = Null]
      BY <2>3 DEF ReadUnlock, wvars
    <3>2. CASE s # r
      <4>1. p'[r] = p[r] /\ seen'[r] = seen[r]
        BY <3>1, <3>2 DEF TypeOK
      <4> QED BY <3>1, <4>1 DEF Ordered, Version
    <3>3. CASE s = r
      <4>1. p'[r] = Null /\ seen'[r] = IF p[r] = Null THEN seen[r] ELSE a[p[r]]
        BY <3>1, <3>3 DEF TypeOK
      <4>2. phase # "init"
        BY <3>1 DEF Threads
      <4>3. p[r] # Null /\ g_ptr # Null => a[p[r]] <= Version(g_ptr)
        <5>1. p[r] \in Objs \cup {Null} /\ g_ptr \in Objs \cup {Null}
          BY DEF TypeOK
        <5> QED BY <5>1 DEF Ordered, Version
      <4> QED BY <3>1, <4>1, <4>2, <4>3 DEF Ordered, Version
    <3> QED BY <3>2, <3>3
  <2>4. CASE ReaderDone(s)
    BY <2>4 DEF ReaderDone, wvars, Ordered
  <2> QED BY <1>5, <2>1, <2>2, <2>3, <2>4 DEF Reader
<1>6. CASE Alloc
  BY <1>6 DEF Alloc, rvars, Ordered
<1>7. CASE WriterDone
  BY <1>7 DEF WriterDone, rvars, Ordered
<1>8. CASE Copy
  <2>1. g_ptr # wi /\ p[r] # wi
    <3>1. wpc = "copy" /\ phase = "wait" /\ g_ptr # Null
      BY <1>8 DEF Copy, Threads
    <3>2. \A x \in Objs : Used(x) => x # wi
      BY <3>1 DEF Used, TypeOK
    <3>3. Used(g_ptr) /\ g_ptr \in Objs
      BY <3>1 DEF Objects, TypeOK
    <3>4. p[r] # Null => p[r] = g_ptr \/ p[r] \in DOMAIN cbs
      BY <3>1 DEF Protected
    <3>5. \A o \in DOMAIN cbs : o \in Objs /\ Used(o)
      BY DEF Objects, TypeOK
    <3>6. wi # Null
      BY DEF TypeOK
    <3> QED BY <3>2, <3>3, <3>4, <3>5, <3>6, Zenon
  <2>2. /\ wpc' = "publish" /\ wi' = wi /\ g_ptr' = g_ptr /\ p' = p /\ seen' = seen
        /\ phase' = phase /\ a' = [a EXCEPT ![wi] = 4 + wi]
    BY <1>8 DEF Copy, rvars
  <2>3. wi # 0 /\ wi \in Objs
    BY <1>8 DEF Copy, Objects, TypeOK
  <2>4. a'[wi] = Version(wi) /\ \A o \in Objs : o # wi => a'[o] = a[o]
    BY <2>2, <2>3 DEF Version, TypeOK
  <2>5. p[r] \in Objs \cup {Null} /\ g_ptr \in Objs \cup {Null}
    BY DEF TypeOK
  <2> QED BY <2>1, <2>2, <2>4, <2>5 DEF Ordered, Version
<1>9. CASE Publish
  <2>1. /\ wpc = "publish" /\ g_ptr' = wi /\ wpc' = "retire"
        /\ a' = a /\ p' = p /\ seen' = seen /\ phase' = phase
    BY <1>9 DEF Publish, rvars
  <2>2. /\ wpc \in {"copy", "publish"} /\ g_ptr # Null /\ phase = "wait" /\ wi # 0
        /\ Used(g_ptr) /\ a[wi] = Version(wi)
    BY <2>1 DEF Threads, Objects, Ordered
  <2>3. /\ g_ptr \in Nat /\ wi \in Nat /\ g_ptr < wi /\ p[r] \in Objs \cup {Null}
        /\ seen[r] \in Int
    BY <2>2 DEF Used, TypeOK
  <2>4. seen[r] <= Version(wi)
    BY <2>2, <2>3 DEF Ordered, Version
  <2>5. p[r] # Null => p[r] <= wi
    BY <2>2, <2>3 DEF Ordered
  <2> QED BY <2>1, <2>2, <2>4, <2>5 DEF Ordered, Version
<1>10. CASE CallRcu
  BY <1>10 DEF CallRcu, rvars, Ordered
<1>11. ASSUME NEW o \in Objs, MyrcuDel(o) PROVE Ordered(r)'
  BY <1>11 DEF MyrcuDel, rvars, wvars, Ordered
<1>12. CASE Unpublish
  BY <1>12 DEF Unpublish, rvars, wvars, Ordered
<1>13. CASE SyncFree
  BY <1>13 DEF SyncFree, rvars, wvars, Ordered
<1>14. CASE Barrier
  BY <1>14 DEF Barrier, rvars, wvars, Ordered
<1>15. CASE Unloaded \/ UNCHANGED vars
  BY <1>15 DEF Unloaded, vars, rvars, wvars, Ordered
<1> QED
  BY <1>1, <1>2, <1>3, <1>4, <1>5, <1>6, <1>7, <1>8, <1>9, <1>10, <1>11, <1>12,
     <1>13, <1>14, <1>15 DEF Next, Insmod, Writer, Rmmod

\* The invariant holds throughout, for any readers and any number of rounds.
THEOREM RcuInvariant == Spec => []IInv
<1>1. IInv /\ [Next]_vars => IInv'
  BY NextTypeOK, NextThreads, NextObjects, NextProtected, NextReclaimed, NextOrdered DEF IInv
<1> QED BY InitIInv, <1>1, PTL DEF Spec

\* A reader inside its critical section never holds a freed object: neither
\* myrcu_del() nor the kfree() of cleanup_example() overtakes it.
THEOREM RcuSafe == Spec => []NoUseAfterFree
<1>1. IInv => NoUseAfterFree
  BY DEF IInv, Protected, NoUseAfterFree
<1> QED BY RcuInvariant, <1>1, PTL

\* rcu_demo_exit() leaves no callback behind that would run in freed text, and
\* every object of the demo was freed by myrcu_del() or cleanup_example().
THEOREM RcuUnloadClean == Spec => []CleanUnload
<1>1. IInv => CleanUnload
  BY DEF IInv, Reclaimed, Threads, CleanUnload, Objs, Null
<1> QED BY RcuInvariant, <1>1, PTL

\* The values myrcu_reader_thread() prints never go back to an older version.
THEOREM RcuReadsForward == Spec => ReadsMoveForward
<1>1. IInv /\ [Next]_vars => [\A r \in Readers : seen'[r] >= seen[r]]_vars
  <2> SUFFICES ASSUME IInv, [Next]_vars, NEW r \in Readers PROVE seen'[r] >= seen[r]
    OBVIOUS
  <2>1. ASSUME NEW s \in Readers, ReadUnlock(s) PROVE seen'[r] >= seen[r]
    BY <2>1 DEF ReadUnlock, IInv, TypeOK, Ordered, Version, Objs, Null
  <2>2. ASSUME seen' = seen PROVE seen'[r] >= seen[r]
    BY <2>2 DEF IInv, TypeOK
  <2>3. CASE \E s \in Readers : ReadLock(s) \/ Dereference(s) \/ ReaderDone(s)
    BY <2>2, <2>3 DEF ReadLock, Dereference, ReaderDone
  <2>4. CASE Insmod \/ Writer \/ Unpublish \/ Rmmod \/ Unloaded \/ UNCHANGED vars
    BY <2>2, <2>4 DEF Insmod, InitNoMem, InitPublish, Spawn, WaitDone, Writer, Alloc,
       WriterDone, Copy, Publish, CallRcu, Unpublish, Rmmod, SyncFree, Barrier, Unloaded,
       vars, rvars
  <2>5. CASE \E o \in Objs : MyrcuDel(o)
    BY <2>2, <2>5 DEF MyrcuDel, rvars
  <2> QED BY <2>1, <2>3, <2>4, <2>5 DEF Next, Reader
<1> QED BY RcuInvariant, <1>1, PTL DEF Spec, ReadsMoveForward

-----------------------------------------------------------------------------
(* rcu_demo.c, modes 1 to 3.                                              *)

\* No mode has been chosen yet.
LEMMA ModesStart == Rcu!Init => Rcu!ModesInv
<1> SUFFICES ASSUME Rcu!Init PROVE Rcu!ModesInv
  OBVIOUS
<1>1. Rcu!TypeOK
  <2>1. rmI \in 0..(2 * RmRounds)
    BY RmAssumption DEF Rcu!Init
  <2>2. rmMode \in 0..3 /\ rmDone \in 0..1
    BY DEF Rcu!Init
  <2>3. rmGp \subseteq rmInside /\ rmInside \subseteq {"other", "stall"}
    BY DEF Rcu!Init
  <2> QED BY <2>1, <2>2, <2>3 DEF Rcu!Init, Rcu!TypeOK
<1>2. Rcu!OnTheWay
  BY DEF Rcu!Init, Rcu!OnTheWay
<1> QED BY <1>1, <1>2 DEF Rcu!ModesInv

\* Readers of other tasks, grace periods and the page.
LEMMA ModesRcuSteps ==
  ASSUME Rcu!ModesInv, Rcu!OtherReader \/ Rcu!GpBegin \/ Rcu!GpEnd \/ Rcu!PageLeaves \/ Rcu!ProbeCb
  PROVE  Rcu!ModesInv'
<1> USE RmAssumption DEF Rcu!ModesInv, Rcu!TypeOK, Rcu!OnTheWay
<1>1. CASE Rcu!OtherReader
  BY <1>1 DEF Rcu!OtherReader, Rcu!timing, Rcu!slab, Rcu!stall
<1>2. CASE Rcu!GpBegin
  BY <1>2 DEF Rcu!GpBegin, Rcu!timing, Rcu!slab, Rcu!stall
<1>3. CASE Rcu!GpEnd
  <2>1. rmI' \in 0..(2 * RmRounds) /\ (rmPc' = "syncing" => rmI' < 2 * RmRounds)
    BY <1>3 DEF Rcu!GpEnd, Rcu!stall
  <2>2. Rcu!TypeOK'
    BY <1>3, <2>1 DEF Rcu!GpEnd, Rcu!stall
  <2>3. Rcu!OnTheWay'
    BY <1>3, <2>1 DEF Rcu!GpEnd, Rcu!stall
  <2> QED BY <2>2, <2>3
<1>4. CASE Rcu!PageLeaves
  BY <1>4 DEF Rcu!PageLeaves, Rcu!PageEmpty, Rcu!rcu, Rcu!timing, Rcu!stall
<1>5. CASE Rcu!ProbeCb
  BY <1>5 DEF Rcu!ProbeCb, Rcu!rcu, Rcu!slab, Rcu!stall
<1> QED BY <1>1, <1>2, <1>3, <1>4, <1>5

\* run_timing() and run_typesafe().
LEMMA ModesScriptSteps ==
  ASSUME Rcu!ModesInv,
         \/ Rcu!Insmod \/ Rcu!Synchronize \/ Rcu!CallRcu \/ Rcu!WaitCb \/ Rcu!Barrier
         \/ Rcu!CreateCache \/ Rcu!FreeA \/ Rcu!ReadA \/ Rcu!AllocB \/ Rcu!UseB \/ Rcu!DestroyCache \/ Rcu!Rmmod
  PROVE  Rcu!ModesInv'
<1> USE RmAssumption DEF Rcu!ModesInv, Rcu!TypeOK, Rcu!OnTheWay
<1>1. CASE Rcu!Insmod
  <2>1. PICK m \in 1..3 : rmMode' = m /\ rmPc' = <<"sync", "cache", "create">>[m]
    BY <1>1 DEF Rcu!Insmod
  <2>2. rmPc' \in {"sync", "cache", "create"} /\ rmMode' \in 0..3
    BY <2>1
  <2> QED BY <1>1, <2>2 DEF Rcu!Insmod, Rcu!rcu, Rcu!timing, Rcu!slab, Rcu!stall
<1>2. CASE Rcu!Synchronize
  BY <1>2 DEF Rcu!Synchronize, Rcu!rcu, Rcu!timing, Rcu!slab, Rcu!stall
<1>3. CASE Rcu!CallRcu
  BY <1>3 DEF Rcu!CallRcu, Rcu!rcu, Rcu!slab, Rcu!stall
<1>4. CASE Rcu!WaitCb
  BY <1>4 DEF Rcu!WaitCb, Rcu!rcu, Rcu!timing, Rcu!slab, Rcu!stall
<1>5. CASE Rcu!Barrier
  BY <1>5 DEF Rcu!Barrier, Rcu!rcu, Rcu!timing, Rcu!slab, Rcu!stall
<1>6. CASE Rcu!CreateCache
  BY <1>6 DEF Rcu!CreateCache, Rcu!rcu, Rcu!timing, Rcu!slab, Rcu!stall
<1>7. CASE Rcu!FreeA
  BY <1>7 DEF Rcu!FreeA, Rcu!rcu, Rcu!timing, Rcu!stall
<1>8. CASE Rcu!ReadA
  BY <1>8 DEF Rcu!ReadA, Rcu!rcu, Rcu!timing, Rcu!stall
<1>9. CASE Rcu!AllocB
  BY <1>9 DEF Rcu!AllocB, Rcu!rcu, Rcu!timing, Rcu!stall
<1>10. CASE Rcu!UseB
  BY <1>10 DEF Rcu!UseB, Rcu!rcu, Rcu!timing, Rcu!stall
<1>11. CASE Rcu!DestroyCache
  BY <1>11 DEF Rcu!DestroyCache, Rcu!rcu, Rcu!timing, Rcu!stall
<1>12. CASE Rcu!Rmmod
  BY <1>12 DEF Rcu!Rmmod, Rcu!rcu, Rcu!timing, Rcu!slab, Rcu!stall
<1> QED BY <1>1, <1>2, <1>3, <1>4, <1>5, <1>6, <1>7, <1>8, <1>9, <1>10, <1>11, <1>12

\* run_stall() and its thread.
LEMMA ModesStallSteps ==
  ASSUME Rcu!ModesInv, Rcu!CreateStaller \/ Rcu!StallEnter \/ Rcu!StallLeave \/ Rcu!StallDone \/ Rcu!StallReturn
         \/ Rcu!WaitDone
  PROVE  Rcu!ModesInv'
<1> USE RmAssumption DEF Rcu!ModesInv, Rcu!TypeOK, Rcu!OnTheWay
<1>1. CASE Rcu!CreateStaller
  BY <1>1 DEF Rcu!CreateStaller, Rcu!rcu, Rcu!timing, Rcu!slab, Rcu!stall
<1>2. CASE Rcu!StallEnter
  BY <1>2 DEF Rcu!StallEnter, Rcu!timing, Rcu!slab
<1>3. CASE Rcu!StallLeave
  BY <1>3 DEF Rcu!StallLeave, Rcu!timing, Rcu!slab
<1>4. CASE Rcu!StallDone
  BY <1>4 DEF Rcu!StallDone, Rcu!rcu, Rcu!timing, Rcu!slab
<1>5. CASE Rcu!StallReturn
  BY <1>5 DEF Rcu!StallReturn, Rcu!rcu, Rcu!timing, Rcu!slab
<1>6. CASE Rcu!WaitDone
  BY <1>6 DEF Rcu!WaitDone, Rcu!rcu, Rcu!timing, Rcu!slab, Rcu!stall
<1> QED BY <1>1, <1>2, <1>3, <1>4, <1>5, <1>6

\* Every step keeps the invariant, and the invariant gives what the run checks.
LEMMA ModesSteps == Rcu!ModesInv /\ [Rcu!Next]_(Rcu!vars) => Rcu!ModesInv'
<1> SUFFICES ASSUME Rcu!ModesInv, [Rcu!Next]_(Rcu!vars) PROVE Rcu!ModesInv'
  OBVIOUS
<1>1. CASE UNCHANGED Rcu!vars
  BY <1>1 DEF Rcu!vars, Rcu!ModesInv, Rcu!TypeOK, Rcu!OnTheWay
<1> QED BY <1>1, ModesRcuSteps, ModesScriptSteps, ModesStallSteps DEF Rcu!Next, Rcu!Module

LEMMA ModesSafe == Rcu!ModesInv => Rcu!ModesQuiet
BY DEF Rcu!ModesInv, Rcu!TypeOK, Rcu!OnTheWay, Rcu!ModesQuiet

-----------------------------------------------------------------------------
(* crash_probe.c.                                                          *)

\* The initial state satisfies the invariant.
LEMMA CrashStart == Crash!Init => Crash!CrashInv
<1> SUFFICES ASSUME Crash!Init PROVE Crash!CrashInv
  OBVIOUS
<1> USE CpAssumption
<1>1. Crash!TypeOK
  <2>1. cpFp \in Crash!Addresses /\ cpCur \in 0..Crash!Wild
    BY DEF Crash!Init, Crash!Addresses, Crash!Wild
  <2> QED BY <2>1 DEF Crash!Init, Crash!TypeOK, Crash!Unpinned
<1>2. Crash!Referenced /\ Crash!DumpsStack
  BY DEF Crash!Init, Crash!Referenced, Crash!DumpsStack, Crash!Unpinned
<1>3. Crash!Untouched /\ Crash!TaskPinned /\ Crash!WalkInBounds
  BY DEF Crash!Init, Crash!Untouched, Crash!TaskPinned, Crash!WalkInBounds
<1> QED BY <1>1, <1>2, <1>3 DEF Crash!CrashInv

\* While a command holds its reference the task_struct is there, and nothing
\* freed is touched when all it touches is alive.
LEMMA CrashAccess ==
  ASSUME Crash!Referenced, cpPc \notin Crash!Unpinned
  PROVE  /\ Crash!Access({"task"}) => cpBad' = cpBad
         /\ \A o : Crash!Access({o}) => cpBad' \subseteq cpBad \cup {o}
         /\ \A o : Crash!Access({o}) /\ Crash!Live(o) => cpBad' = cpBad
         /\ \A o : Crash!Access({o, "task"}) => Crash!Access({o})
         /\ \A o : Crash!Access({"task", o}) => Crash!Access({o})
<1>1. Crash!Live("task")
  BY DEF Crash!Referenced, Crash!Live
<1> QED BY <1>1 DEF Crash!Access

\* The task and the waiters.
LEMMA CrashWorldSteps ==
  ASSUME Crash!CrashInv, Crash!TaskStep \/ Crash!WaiterLeaves
  PROVE  Crash!CrashInv'
<1> USE CpAssumption DEF Crash!CrashInv, Crash!Unpinned, Crash!walk
<1>1. CASE Crash!TaskStep
  <2> USE <1>1 DEF Crash!TaskStep, Crash!Wake, Crash!Sleep, Crash!Die, Crash!Reap
  <2>1. Crash!TypeOK'
    BY DEF Crash!TypeOK, Crash!Addresses
  <2>2. Crash!Referenced' /\ Crash!DumpsStack'
    BY DEF Crash!Referenced, Crash!DumpsStack
  <2>3. Crash!Untouched'
    BY DEF Crash!Untouched
  <2>4. Crash!TaskPinned' /\ Crash!WalkInBounds'
    BY DEF Crash!TaskPinned, Crash!WalkInBounds
  <2> QED BY <2>1, <2>2, <2>3, <2>4
<1>2. CASE Crash!WaiterLeaves
  <2> USE <1>2 DEF Crash!WaiterLeaves
  <2>1. Crash!TypeOK'
    BY DEF Crash!TypeOK, Crash!Addresses
  <2>2. Crash!Referenced' /\ Crash!DumpsStack'
    BY DEF Crash!Referenced, Crash!DumpsStack
  <2>3. Crash!Untouched' /\ Crash!TaskPinned' /\ Crash!WalkInBounds'
    BY DEF Crash!Untouched, Crash!TaskPinned, Crash!WalkInBounds
  <2> QED BY <2>1, <2>2, <2>3
<1> QED BY <1>1, <1>2

\* cp_write(), get_task(), put_task_struct().
LEMMA CrashCommandSteps ==
  ASSUME Crash!CrashInv, Crash!CpWrite \/ Crash!GetTask \/ Crash!PutTask
  PROVE  Crash!CrashInv'
<1> USE CpAssumption DEF Crash!CrashInv, Crash!Unpinned
<1>1. CASE Crash!CpWrite
  <2> USE <1>1 DEF Crash!CpWrite
  <2>1. Crash!TypeOK'
    BY DEF Crash!TypeOK, Crash!Addresses, Crash!Unpinned
  <2>2. Crash!Untouched'
    BY DEF Crash!Untouched
  <2>3. Crash!Referenced' /\ Crash!DumpsStack'
    BY DEF Crash!Referenced, Crash!DumpsStack, Crash!Unpinned
  <2>4. Crash!TaskPinned' /\ Crash!WalkInBounds'
    BY DEF Crash!TaskPinned, Crash!WalkInBounds, Crash!Referenced, Crash!Unpinned
  <2> QED BY <2>1, <2>2, <2>3, <2>4
<1>2. CASE Crash!GetTask
  <2> USE <1>2 DEF Crash!GetTask, Crash!walk
  <2>1. Crash!TypeOK'
    BY DEF Crash!TypeOK, Crash!Addresses, Crash!Referenced
  <2>2. Crash!Referenced' /\ Crash!DumpsStack'
    BY DEF Crash!Referenced, Crash!DumpsStack
  <2>3. Crash!Untouched'
    BY DEF Crash!Untouched, Crash!Referenced
  <2>4. Crash!TaskPinned' /\ Crash!WalkInBounds'
    BY DEF Crash!TaskPinned, Crash!WalkInBounds, Crash!Referenced
  <2> QED BY <2>1, <2>2, <2>3, <2>4
<1>3. CASE Crash!PutTask
  <2> USE <1>3 DEF Crash!PutTask, Crash!walk
  <2>0. cpBad' = cpBad
    BY CrashAccess
  <2>1. Crash!TypeOK'
    BY DEF Crash!TypeOK, Crash!Addresses
  <2>2. Crash!Referenced' /\ Crash!DumpsStack'
    BY DEF Crash!Referenced, Crash!DumpsStack
  <2>3. Crash!Untouched'
    BY <2>0 DEF Crash!Untouched
  <2>4. Crash!TaskPinned' /\ Crash!WalkInBounds'
    BY <2>0 DEF Crash!TaskPinned, Crash!WalkInBounds, Crash!Referenced
  <2> QED BY <2>1, <2>2, <2>3, <2>4
<1> QED BY <1>1, <1>2, <1>3

\* cmd_bt(): from the look at the task to the end of the chain.
LEMMA CrashWalkSteps ==
  ASSUME Crash!CrashInv, Crash!CheckSleeps \/ Crash!Frame \/ Crash!ChainEnds
  PROVE  Crash!CrashInv'
<1> USE CpAssumption DEF Crash!CrashInv, Crash!Unpinned
<1>1. CASE Crash!CheckSleeps
  <2> USE <1>1 DEF Crash!CheckSleeps
  <2>0. cpBad' = cpBad /\ cpBad = {}
    BY CrashAccess DEF Crash!Untouched
  <2>1. Crash!TypeOK'
    BY DEF Crash!TypeOK
  <2>2. Crash!Referenced' /\ Crash!DumpsStack'
    BY DEF Crash!Referenced, Crash!DumpsStack
  <2>3. Crash!Untouched'
    BY <2>0 DEF Crash!Untouched
  <2>4. Crash!TaskPinned' /\ Crash!WalkInBounds'
    BY <2>0 DEF Crash!TaskPinned, Crash!WalkInBounds
  <2> QED BY <2>1, <2>2, <2>3, <2>4
<1>2. CASE Crash!Frame
  <2> USE <1>2 DEF Crash!Frame
  <2>0. /\ cpFp' \in Crash!Addresses /\ cpPc' \in {"walked", "frame"} /\ cpCmd' = cpCmd
        /\ cpReads' = cpReads \cup {cpFp, cpFp + 1}
    BY DEF Crash!TypeOK
  <2>1. Crash!TypeOK'
    BY <2>0 DEF Crash!TypeOK
  <2>2. Crash!Referenced' /\ Crash!DumpsStack'
    BY <2>0 DEF Crash!Referenced, Crash!DumpsStack
  <2>3. cpBad' \subseteq cpBad \cup {"stack"} /\ ("task" \notin cpMoved => cpBad' = cpBad)
    <3>1. cpTask = "sleep" => Crash!Live("stack")
      BY DEF Crash!Live
    <3> QED BY <3>1, CrashAccess DEF Crash!Untouched, Crash!TaskPinned
  <2>4. Crash!Untouched'
    BY <2>0, <2>3 DEF Crash!Untouched
  <2>5. Crash!WalkInBounds'
    <3>1. cpFp \in CpStackLo..CpStackHi - 1 /\ cpFp + 1 \in CpStackLo..CpStackHi - 1
      BY DEF Crash!InStack, Crash!TypeOK, Crash!Addresses
    <3> QED BY <3>1, <2>0 DEF Crash!WalkInBounds
  <2>6. Crash!TaskPinned'
    BY <2>0, <2>3 DEF Crash!TaskPinned
  <2> QED BY <2>1, <2>2, <2>4, <2>5, <2>6
<1>3. CASE Crash!ChainEnds
  <2> USE <1>3 DEF Crash!ChainEnds, Crash!walk
  <2>1. Crash!TypeOK'
    BY DEF Crash!TypeOK, Crash!Addresses
  <2>2. Crash!Referenced' /\ Crash!DumpsStack'
    BY DEF Crash!Referenced, Crash!DumpsStack
  <2>3. Crash!Untouched'
    BY DEF Crash!Untouched
  <2>4. Crash!TaskPinned' /\ Crash!WalkInBounds'
    BY DEF Crash!TaskPinned, Crash!WalkInBounds
  <2> QED BY <2>1, <2>2, <2>3, <2>4
<1> QED BY <1>1, <1>2, <1>3

\* btf's dump.
LEMMA CrashDumpSteps ==
  ASSUME Crash!CrashInv, Crash!Walked \/ Crash!Dump
  PROVE  Crash!CrashInv'
<1> USE CpAssumption DEF Crash!CrashInv, Crash!Unpinned
<1>1. CASE Crash!Walked
  <2> USE <1>1 DEF Crash!Walked
  <2>0. cpBad' = cpBad /\ cpPc' \in {"put", "dump"} /\ (cpPc' = "dump" => cpFp' \in CpStackLo..CpStackHi)
    BY CrashAccess
  <2>1. cpFp' \in Crash!Addresses
    BY DEF Crash!TypeOK, Crash!Addresses
  <2>2. Crash!TypeOK'
    BY <2>0, <2>1 DEF Crash!TypeOK
  <2>3. Crash!Referenced' /\ Crash!DumpsStack'
    BY <2>0 DEF Crash!Referenced, Crash!DumpsStack
  <2>4. Crash!Untouched'
    BY <2>0 DEF Crash!Untouched
  <2>5. Crash!TaskPinned' /\ Crash!WalkInBounds'
    BY <2>0 DEF Crash!TaskPinned, Crash!WalkInBounds
  <2> QED BY <2>2, <2>3, <2>4, <2>5
<1>2. CASE Crash!Dump
  <2> USE <1>2 DEF Crash!Dump
  <2>0. cpFp \in CpStackLo..CpStackHi /\
          (cpFp < CpStackHi => cpFp + 1 \in CpStackLo..CpStackHi /\ cpFp \in CpStackLo..CpStackHi - 1)
    BY DEF Crash!DumpsStack
  <2>1. /\ cpFp' \in CpStackLo..CpStackHi /\ cpPc' \in {"put", "dump"}
        /\ cpReads' \subseteq cpReads \cup {cpFp} /\ (cpFp < CpStackHi \/ cpReads' = cpReads)
    BY <2>0
  <2>2. cpFp' \in Crash!Addresses
    BY <2>1 DEF Crash!Addresses
  <2>3. Crash!TypeOK'
    BY <2>1, <2>2 DEF Crash!TypeOK
  <2>4. Crash!Referenced' /\ Crash!DumpsStack'
    BY <2>1 DEF Crash!Referenced, Crash!DumpsStack
  <2>5. cpBad' \subseteq cpBad \cup {"stack"} /\ ("task" \notin cpMoved => cpBad' = cpBad)
    <3>1. cpTask = "sleep" => Crash!Live("stack")
      BY DEF Crash!Live
    <3>2. CASE cpFp < CpStackHi
      BY <3>1, <3>2, CrashAccess DEF Crash!Untouched, Crash!TaskPinned
    <3>3. CASE ~(cpFp < CpStackHi)
      BY <3>3 DEF Crash!TaskPinned
    <3> QED BY <3>2, <3>3
  <2>6. Crash!Untouched'
    BY <2>1, <2>5 DEF Crash!Untouched
  <2>7. Crash!WalkInBounds'
    BY <2>0, <2>1 DEF Crash!WalkInBounds
  <2>8. Crash!TaskPinned'
    BY <2>1, <2>5 DEF Crash!TaskPinned
  <2> QED BY <2>3, <2>4, <2>6, <2>7, <2>8
<1> QED BY <1>1, <1>2

\* cmd_mm() and cmd_sched().
LEMMA CrashReadSteps ==
  ASSUME Crash!CrashInv, Crash!ReadMm \/ Crash!UseMm \/ Crash!CmdSched
  PROVE  Crash!CrashInv'
<1> USE CpAssumption DEF Crash!CrashInv, Crash!Unpinned, Crash!walk
<1>1. CASE Crash!ReadMm \/ Crash!CmdSched
  <2>0. cpBad' = cpBad /\ cpBad = {} /\ cpPc' \in {"put", "mm2"} /\
          (cpPc' = "mm2" => cpTask \in {"sleep", "run"})
    BY <1>1, CrashAccess DEF Crash!ReadMm, Crash!CmdSched, Crash!Untouched, Crash!TypeOK
  <2>1. /\ cpMoved' \in {{}, cpMoved}
        /\ UNCHANGED <<cpTask, cpCmd, cpHeld, cpFp, cpFrame, cpCur, cpReads, cpWaiters>>
        /\ cpPc \in {"mm", "sched"}
    BY <1>1 DEF Crash!ReadMm, Crash!CmdSched
  <2>2. Crash!TypeOK'
    BY <2>0, <2>1 DEF Crash!TypeOK, Crash!Addresses
  <2>3. Crash!Referenced' /\ Crash!DumpsStack'
    BY <2>0, <2>1 DEF Crash!Referenced, Crash!DumpsStack
  <2>4. Crash!Untouched' /\ Crash!TaskPinned' /\ Crash!WalkInBounds'
    BY <2>0, <2>1 DEF Crash!Untouched, Crash!TaskPinned, Crash!WalkInBounds
  <2> QED BY <2>2, <2>3, <2>4
<1>2. CASE Crash!UseMm
  <2> USE <1>2 DEF Crash!UseMm
  <2>1. Crash!TypeOK'
    BY DEF Crash!TypeOK, Crash!Addresses
  <2>2. Crash!Referenced' /\ Crash!DumpsStack'
    BY DEF Crash!Referenced, Crash!DumpsStack
  <2>3. cpBad' \subseteq cpBad \cup {"mm"} /\ ("task" \notin cpMoved => cpBad' = cpBad)
    <3>1. cpTask \in {"sleep", "run"} => Crash!Live("mm")
      BY DEF Crash!Live
    <3> QED BY <3>1, CrashAccess DEF Crash!Untouched, Crash!TaskPinned
  <2>4. Crash!Untouched' /\ Crash!TaskPinned' /\ Crash!WalkInBounds'
    BY <2>3 DEF Crash!Untouched, Crash!TaskPinned, Crash!WalkInBounds
  <2> QED BY <2>1, <2>2, <2>4
<1> QED BY <1>1, <1>2

\* cmd_rwsem(): sem->owner, read and used without a reference.
LEMMA CrashOwnerSteps ==
  ASSUME Crash!CrashInv, Crash!CmdRwsem \/ Crash!PrintOwner
  PROVE  Crash!CrashInv'
<1> USE CpAssumption DEF Crash!CrashInv, Crash!walk, Crash!Unpinned
<1>1. CASE Crash!CmdRwsem
  <2> USE <1>1 DEF Crash!CmdRwsem
  <2>1. Crash!TypeOK'
    BY DEF Crash!TypeOK, Crash!Addresses
  <2>2. Crash!Referenced' /\ Crash!DumpsStack'
    BY DEF Crash!Referenced, Crash!DumpsStack
  <2>3. Crash!Untouched' /\ Crash!TaskPinned' /\ Crash!WalkInBounds'
    BY DEF Crash!Untouched, Crash!TaskPinned, Crash!WalkInBounds
  <2> QED BY <2>1, <2>2, <2>3
<1>2. CASE Crash!PrintOwner
  <2> USE <1>2 DEF Crash!PrintOwner
  <2>0. /\ cpBad' \subseteq cpBad \cup {"reader", "writer"}
        /\ "writer" \in cpBad' => "writer" \in cpBad \/ (cpTask = "reaped" /\ cpPc = "writer")
    <3>1. CASE cpPc = "reader"
      <4>1. cpBad' = cpBad \/ cpBad' = cpBad \cup {"reader"}
        BY <3>1 DEF Crash!Access
      <4> QED BY <4>1
    <3>2. CASE cpPc = "writer"
      <4>1. Crash!Live("writer") <=> cpTask # "reaped"
        BY DEF Crash!Live
      <4> QED BY <3>2, <4>1 DEF Crash!Access
    <3> QED BY <3>1, <3>2
  <2>1. Crash!TypeOK'
    BY DEF Crash!TypeOK, Crash!Addresses
  <2>2. Crash!Referenced' /\ Crash!DumpsStack'
    BY DEF Crash!Referenced, Crash!DumpsStack
  <2>3. Crash!Untouched'
    BY <2>0 DEF Crash!Untouched
  <2>4. Crash!TaskPinned' /\ Crash!WalkInBounds'
    BY <2>0 DEF Crash!TaskPinned, Crash!WalkInBounds
  <2> QED BY <2>1, <2>2, <2>3, <2>4
<1> QED BY <1>1, <1>2

\* cmd_rwsem(): a waiter that is still in the list leads to another that is.
LEMMA CrashListSteps ==
  ASSUME Crash!CrashInv,
         Crash!BeginWalk \/ Crash!ReadWaiter \/ Crash!PrintWaiter \/ Crash!NextWaiter
  PROVE  Crash!CrashInv'
<1> USE CpAssumption DEF Crash!CrashInv, Crash!Unpinned
<1>1. CASE Crash!BeginWalk
  <2> USE <1>1 DEF Crash!BeginWalk
  <2>1. cpWaiters # {} => cpCur' \in cpWaiters
    <3>1. \A w \in cpWaiters : w \in Nat /\ w > 0
      BY DEF Crash!TypeOK
    <3>2. Crash!Later(0) = cpWaiters
      BY <3>1 DEF Crash!Later
    <3> QED BY <3>2 DEF Crash!Follows
  <2>2. Crash!TypeOK'
    BY DEF Crash!TypeOK, Crash!Addresses, Crash!Wild
  <2>3. Crash!Referenced' /\ Crash!DumpsStack'
    BY DEF Crash!Referenced, Crash!DumpsStack
  <2>4. Crash!Untouched' /\ Crash!TaskPinned' /\ Crash!WalkInBounds'
    BY <2>1 DEF Crash!Untouched, Crash!TaskPinned, Crash!WalkInBounds
  <2> QED BY <2>2, <2>3, <2>4
<1>2. CASE Crash!ReadWaiter \/ Crash!PrintWaiter \/ Crash!NextWaiter
  <2>1. /\ cpBad' \subseteq cpBad \cup {"waiter", "wtask"}
        /\ cpCur \in cpWaiters => cpBad' = cpBad
    BY <1>2 DEF Crash!ReadWaiter, Crash!PrintWaiter, Crash!NextWaiter, Crash!Access, Crash!Live
  <2>2. /\ cpPc \in {"waiter", "wtask", "link"} /\ cpPc' \in {"wtask", "link", "waiter", "idle"}
        /\ UNCHANGED <<cpTask, cpCmd, cpHeld, cpFp, cpFrame, cpReads, cpWaiters, cpMoved>>
    BY <1>2 DEF Crash!ReadWaiter, Crash!PrintWaiter, Crash!NextWaiter, Crash!walk
  <2>3. cpCur' \in 0..Crash!Wild
    BY <1>2 DEF Crash!ReadWaiter, Crash!PrintWaiter, Crash!NextWaiter, Crash!walk, Crash!TypeOK
  <2>4. cpCur \in cpWaiters /\ cpPc' # "idle" => cpCur' \in cpWaiters
    <3>1. CASE Crash!NextWaiter
      BY <3>1 DEF Crash!NextWaiter, Crash!Live, Crash!Follows, Crash!Later
    <3> QED BY <1>2, <3>1 DEF Crash!ReadWaiter, Crash!PrintWaiter, Crash!walk
  <2>5. Crash!TypeOK'
    BY <2>2, <2>3 DEF Crash!TypeOK, Crash!Addresses
  <2>6. Crash!Referenced' /\ Crash!DumpsStack'
    BY <2>2 DEF Crash!Referenced, Crash!DumpsStack
  <2>7. Crash!Untouched'
    BY <2>1, <2>2, <2>4 DEF Crash!Untouched
  <2>8. Crash!TaskPinned' /\ Crash!WalkInBounds'
    BY <2>1, <2>2 DEF Crash!TaskPinned, Crash!WalkInBounds, Crash!Referenced
  <2> QED BY <2>5, <2>6, <2>7, <2>8
<1> QED BY <1>1, <1>2

\* Every step keeps the invariant, and the invariant gives what the run checks.
LEMMA CrashSteps == Crash!CrashInv /\ [Crash!Next]_(Crash!vars) => Crash!CrashInv'
<1> SUFFICES ASSUME Crash!CrashInv, [Crash!Next]_(Crash!vars) PROVE Crash!CrashInv'
  OBVIOUS
<1>1. CASE UNCHANGED Crash!vars
  <2> USE <1>1 DEF Crash!vars, Crash!walk, Crash!CrashInv
  <2>1. Crash!TypeOK' /\ Crash!Referenced' /\ Crash!DumpsStack'
    BY DEF Crash!TypeOK, Crash!Addresses, Crash!Referenced, Crash!DumpsStack
  <2>2. Crash!Untouched' /\ Crash!TaskPinned' /\ Crash!WalkInBounds'
    BY DEF Crash!Untouched, Crash!TaskPinned, Crash!WalkInBounds
  <2> QED BY <2>1, <2>2
<1> QED BY <1>1, CrashWorldSteps, CrashCommandSteps, CrashWalkSteps, CrashDumpSteps,
           CrashReadSteps, CrashOwnerSteps, CrashListSteps DEF Crash!Next, Crash!Command

LEMMA CrashSafe == Crash!CrashInv => Crash!TaskPinned /\ Crash!WalkInBounds /\ Crash!StableTargetSafe
BY DEF Crash!CrashInv, Crash!Untouched, Crash!StableTargetSafe, Crash!TypeOK

-----------------------------------------------------------------------------
(* irq_live.c.                                                             *)

\* The instance counts with the operator of FiniteSets.
LEMMA IrqCount == \A S : Irq!Cardinality(S) = Cardinality(S)
BY DEF Irq!Cardinality, Cardinality

\* The handlers at one place are a finite set.
LEMMA IrqPlaces ==
  /\ Cardinality(IrqCpus) \in Nat /\ Cardinality(IrqCpus) > 0
  /\ \A place : IsFiniteSet(Irq!In(place)) /\ Cardinality(Irq!In(place)) \in Nat
  /\ \A place : Cardinality(Irq!In(place)) <= Cardinality(IrqCpus)
<1>1. ASSUME NEW place
      PROVE  IsFiniteSet(Irq!In(place)) /\ Cardinality(Irq!In(place)) \in Nat /\
               Cardinality(Irq!In(place)) <= Cardinality(IrqCpus)
  <2>1. Irq!In(place) \subseteq IrqCpus
    BY DEF Irq!In
  <2> QED BY <2>1, IrqAssumption, FS_Subset, FS_CardinalityType
<1>2. Cardinality(IrqCpus) \in Nat /\ Cardinality(IrqCpus) > 0
  BY IrqAssumption, FS_CardinalityType, FS_EmptySet
<1> QED BY <1>1, <1>2

\* A handler leaves one place, and arrives at another.
LEMMA IrqCounts ==
  ASSUME NEW S \in SUBSET IrqCpus, NEW c \in IrqCpus
  PROVE  /\ c \notin S => Cardinality(S \cup {c}) = Cardinality(S) + 1
         /\ c \in S => Cardinality(S \ {c}) = Cardinality(S) - 1
<1>1. IsFiniteSet(S)
  BY IrqAssumption, FS_Subset
<1> QED BY <1>1, FS_AddElement, FS_RemoveElement

\* The initial state satisfies the invariant.
LEMMA IrqStart == Irq!Init => Irq!IrqInv
<1> SUFFICES ASSUME Irq!Init PROVE Irq!IrqInv
  OBVIOUS
<1> USE IrqAssumption DEF Irq!Init
<1>1. Irq!TypeOK
  BY DEF Irq!TypeOK
<1>2. Irq!In("frame") = {} /\ Irq!In("print") = {} /\ Irq!In("inc") = {}
  BY DEF Irq!In
<1>3. Cardinality(Irq!In("inc")) = 0 /\ Cardinality(Irq!In("print")) = 0
  BY <1>2, FS_EmptySet
<1>4. Irq!Unregistered /\ Irq!Spans
  BY DEF Irq!Unregistered, Irq!Spans
<1>5. Irq!Locked
  BY <1>2 DEF Irq!Locked
<1>6. Irq!Tickets
  BY IrqCount, <1>2, <1>3, IrqPlaces DEF Irq!Tickets
<1> QED BY <1>1, <1>4, <1>5, <1>6 DEF Irq!IrqInv

\* insmod and rmmod.
LEMMA IrqModuleSteps ==
  ASSUME Irq!IrqInv, Irq!Insmod \/ Irq!Rmmod
  PROVE  Irq!IrqInv'
<1> USE IrqAssumption DEF Irq!IrqInv, Irq!stats
<1>1. /\ UNCHANGED <<irqPc, irqEl, Irq!stats, irqPrlock, irqGot, irqEvtGot, irqFrames, irqDispatches>>
      /\ irqPhase' \in {"absent", "failed", "loaded", "gone"} /\ irqProbes' \subseteq {"gic", "evt"}
      /\ irqPhase' = "gone" => irqProbes' = {} /\ \A c \in IrqCpus : irqPc[c] = "idle"
  BY DEF Irq!Insmod, Irq!Rmmod, Irq!TypeOK
<1>2. Irq!TypeOK'
  BY <1>1 DEF Irq!TypeOK
<1>3. \A place : Irq!In(place)' = Irq!In(place)
  BY <1>1 DEF Irq!In
<1>4. Irq!Unregistered' /\ Irq!Spans'
  BY <1>1 DEF Irq!Unregistered, Irq!Spans
<1>5. Irq!Locked'
  BY <1>1, <1>3 DEF Irq!Locked
<1>6. Irq!Tickets'
  BY <1>1, <1>3 DEF Irq!Tickets
<1> QED BY <1>2, <1>4, <1>5, <1>6

\* pre_gic().
LEMMA IrqGicSteps ==
  ASSUME Irq!IrqInv, NEW c \in IrqCpus, Irq!PreGic(c) \/ Irq!LockGic(c) \/ Irq!PrintFrame(c)
  PROVE  Irq!IrqInv'
<1> USE IrqAssumption DEF Irq!IrqInv
<1>0. Irq!TypeOK
  OBVIOUS
<1>1. CASE Irq!PreGic(c)
  <2> USE <1>1 DEF Irq!PreGic
  <2>1. PICK new \in {"end", "lock"} : irqPc' = [irqPc EXCEPT ![c] = new]
    OBVIOUS
  <2>2. /\ Irq!In("frame")' = Irq!In("frame") /\ Irq!In("print")' = Irq!In("print") /\
             Irq!In("inc")' = Irq!In("inc")
    BY <2>1 DEF Irq!In, Irq!TypeOK
  <2>3. PICK sp \in IrqSps :
          /\ irqSpMin' = [irqSpMin EXCEPT ![c] = IF @ = 0 \/ sp < @ THEN sp ELSE @]
          /\ irqSpMax' = [irqSpMax EXCEPT ![c] = IF sp > @ THEN sp ELSE @]
          /\ irqSpSeen' = [irqSpSeen EXCEPT ![c] = @ \cup {sp}]
    OBVIOUS
  <2>4. sp \in Nat /\ sp > 0
    OBVIOUS
  <2>5. Irq!TypeOK'
    <3>1. /\ irqSpMin' \in [IrqCpus -> Nat] /\ irqSpMax' \in [IrqCpus -> Nat]
      BY <2>3, <2>4 DEF Irq!TypeOK
    <3>2. irqSpSeen' \in [IrqCpus -> SUBSET Nat]
      BY <2>3, <2>4 DEF Irq!TypeOK
    <3>3. irqIrqs' \in [IrqCpus -> Nat]
      BY DEF Irq!TypeOK
    <3>4. irqPc' \in [IrqCpus -> {"idle", "lock", "frame", "end", "inc", "print"}]
      BY <2>1 DEF Irq!TypeOK
    <3> QED BY <3>1, <3>2, <3>3, <3>4 DEF Irq!TypeOK
  <2>6. Irq!Unregistered'
    BY DEF Irq!Unregistered
  <2>7. Irq!Locked'
    BY <2>2 DEF Irq!Locked
  <2>8. Irq!Tickets'
    BY <2>2 DEF Irq!Tickets
  <2>9. Irq!Spans'
    <3> SUFFICES ASSUME NEW d \in IrqCpus
                 PROVE  /\ irqIrqs'[d] = 0 => irqSpMin'[d] = 0 /\ irqSpMax'[d] = 0 /\ irqSpSeen'[d] = {}
                        /\ irqIrqs'[d] > 0 => irqSpMin'[d] > 0
                        /\ irqIrqs'[d] > 0 => /\ {irqSpMin'[d], irqSpMax'[d]} \subseteq irqSpSeen'[d]
                                              /\ \A s \in irqSpSeen'[d] : irqSpMin'[d] <= s /\ s <= irqSpMax'[d]
      BY DEF Irq!Spans
    <3>1. CASE d # c
      <4>1. irqIrqs'[d] = irqIrqs[d] /\ irqSpMin'[d] = irqSpMin[d] /\ irqSpMax'[d] = irqSpMax[d] /\
              irqSpSeen'[d] = irqSpSeen[d]
        BY <2>3, <3>1 DEF Irq!TypeOK
      <4> QED BY <4>1 DEF Irq!Spans
    <3>2. CASE d = c
      <4>1. /\ irqIrqs'[c] = irqIrqs[c] + 1 /\ irqIrqs[c] \in Nat
            /\ irqSpMin'[c] = (IF irqSpMin[c] = 0 \/ sp < irqSpMin[c] THEN sp ELSE irqSpMin[c])
            /\ irqSpMax'[c] = (IF sp > irqSpMax[c] THEN sp ELSE irqSpMax[c])
            /\ irqSpSeen'[c] = irqSpSeen[c] \cup {sp}
            /\ irqSpMin[c] \in Nat /\ irqSpMax[c] \in Nat /\ irqSpSeen[c] \subseteq Nat
        BY <2>3 DEF Irq!TypeOK
      <4>2. CASE irqIrqs[c] = 0
        <5>1. irqSpMin[c] = 0 /\ irqSpMax[c] = 0 /\ irqSpSeen[c] = {}
          BY <4>2 DEF Irq!Spans
        <5> QED BY <2>4, <3>2, <4>1, <5>1
      <4>3. CASE irqIrqs[c] > 0
        <5>1. /\ irqSpMin[c] > 0 /\ irqSpMin[c] \in irqSpSeen[c] /\ irqSpMax[c] \in irqSpSeen[c]
              /\ \A s \in irqSpSeen[c] : irqSpMin[c] <= s /\ s <= irqSpMax[c]
          BY <4>3 DEF Irq!Spans
        <5>2. irqSpMin'[c] \in irqSpSeen'[c] /\ irqSpMax'[c] \in irqSpSeen'[c] /\ irqSpMin'[c] > 0
          BY <2>4, <4>1, <5>1
        <5>3. \A s \in irqSpSeen'[c] : irqSpMin'[c] <= s /\ s <= irqSpMax'[c]
          BY <2>4, <4>1, <5>1
        <5> QED BY <3>2, <4>1, <5>2, <5>3
      <4> QED BY <4>1, <4>2, <4>3
    <3> QED BY <3>1, <3>2
  <2> QED BY <2>5, <2>6, <2>7, <2>8, <2>9
<1>2. CASE Irq!LockGic(c)
  <2> USE <1>2 DEF Irq!LockGic
  <2>1. PICK new \in {"frame", "end"} : irqPc' = [irqPc EXCEPT ![c] = new]
    OBVIOUS
  <2>2. /\ Irq!In("print")' = Irq!In("print") /\ Irq!In("inc")' = Irq!In("inc")
        /\ new # "frame" => Irq!In("frame")' = Irq!In("frame")
        /\ new = "frame" => Irq!In("frame")' = Irq!In("frame") \cup {c}
    BY <2>1 DEF Irq!In, Irq!TypeOK
  <2>3. Irq!TypeOK'
    <3>1. irqPc' \in [IrqCpus -> {"idle", "lock", "frame", "end", "inc", "print"}]
      BY <2>1 DEF Irq!TypeOK
    <3> QED BY <3>1 DEF Irq!TypeOK, Irq!stats
  <2>4. Irq!Unregistered' /\ Irq!Spans'
    BY DEF Irq!Unregistered, Irq!Spans, Irq!stats
  <2>5. Irq!Locked'
    <3>1. CASE irqGot < IrqSamples
      <4>1. irqPc' = [irqPc EXCEPT ![c] = "frame"] /\ irqPrlock' = {c} /\ irqGot' = irqGot + 1
        BY <3>1
      <4>2. Irq!In("frame")' = Irq!In("frame") \cup {c}
        BY <4>1 DEF Irq!In, Irq!TypeOK
      <4> QED BY <3>1, <4>1, <4>2 DEF Irq!Locked, Irq!TypeOK
    <3>2. CASE ~(irqGot < IrqSamples)
      <4>1. irqPc' = [irqPc EXCEPT ![c] = "end"] /\ irqPrlock' = irqPrlock /\ irqGot' = irqGot
        BY <3>2
      <4>2. Irq!In("frame")' = Irq!In("frame")
        BY <4>1 DEF Irq!In, Irq!TypeOK
      <4> QED BY <4>1, <4>2 DEF Irq!Locked
    <3> QED BY <3>1, <3>2
  <2>6. Irq!Tickets'
    BY <2>2 DEF Irq!Tickets
  <2> QED BY <2>3, <2>4, <2>5, <2>6
<1>3. CASE Irq!PrintFrame(c)
  <2> USE <1>3 DEF Irq!PrintFrame
  <2>1. irqPc' = [irqPc EXCEPT ![c] = "end"]
    OBVIOUS
  <2>2. /\ Irq!In("print")' = Irq!In("print") /\ Irq!In("inc")' = Irq!In("inc") /\
             Irq!In("frame")' = Irq!In("frame") \ {c}
    BY <2>1 DEF Irq!In, Irq!TypeOK
  <2>3. Irq!TypeOK'
    BY DEF Irq!TypeOK, Irq!stats
  <2>4. Irq!Unregistered' /\ Irq!Spans'
    BY DEF Irq!Unregistered, Irq!Spans, Irq!stats
  <2>5. Irq!Locked'
    <3>1. c \in irqPrlock /\ \A d \in irqPrlock : d = c
      BY DEF Irq!Locked, Irq!In
    <3>2. irqPrlock = {c} /\ irqPrlock' = {}
      BY <3>1
    <3>3. /\ Len(irqFrames) \in Nat /\ Len(irqFrames') = Len(irqFrames) + 1 /\
               irqFrames'[Len(irqFrames) + 1] = irqGot
          /\ \A i \in 1..Len(irqFrames) : irqFrames'[i] = irqFrames[i]
      BY DEF Irq!TypeOK
    <3>4. \A i \in 1..Len(irqFrames') : irqFrames'[i] = i
      BY <3>2, <3>3 DEF Irq!Locked
    <3> QED BY <2>2, <3>2, <3>3, <3>4 DEF Irq!Locked
  <2>6. Irq!Tickets'
    BY <2>2 DEF Irq!Tickets
  <2> QED BY <2>3, <2>4, <2>5, <2>6
<1> QED BY <1>1, <1>2, <1>3

\* pre_evt().
LEMMA IrqEvtSteps ==
  ASSUME Irq!IrqInv, NEW c \in IrqCpus, Irq!PreEvt(c) \/ Irq!IncEvt(c) \/ Irq!PrintEvt(c)
  PROVE  Irq!IrqInv'
<1> USE IrqAssumption DEF Irq!IrqInv
<1>0. /\ Irq!TypeOK /\ irqEvtGot \in Nat
      /\ Cardinality(IrqCpus) \in Nat /\ Len(irqDispatches) \in Nat
      /\ \A place : Cardinality(Irq!In(place)) \in Nat /\ Cardinality(Irq!In(place)) <= Cardinality(IrqCpus)
  <2>1. Irq!TypeOK /\ irqEvtGot \in Nat /\ Len(irqDispatches) \in Nat
    BY DEF Irq!TypeOK
  <2> QED BY <2>1, IrqPlaces
<1>1. CASE Irq!PreEvt(c)
  <2> USE <1>1 DEF Irq!PreEvt
  <2>1. PICK new \in {"idle", "inc"} : irqPc' = [irqPc EXCEPT ![c] = new] /\
          (new = "inc" => irqEvtGot < IrqSamples /\ "evt" \in irqProbes)
    OBVIOUS
  <2>2. /\ Irq!In("print")' = Irq!In("print") /\ Irq!In("frame")' = Irq!In("frame")
        /\ new # "inc" => Irq!In("inc")' = Irq!In("inc")
    BY <2>1 DEF Irq!In, Irq!TypeOK
  <2>3. Irq!TypeOK'
    <3>1. irqPc' \in [IrqCpus -> {"idle", "lock", "frame", "end", "inc", "print"}]
      BY <2>1 DEF Irq!TypeOK
    <3> QED BY <3>1 DEF Irq!TypeOK, Irq!stats
  <2>4. Irq!Unregistered' /\ Irq!Spans'
    <3>1. irqPhase = "gone" => irqProbes = {} /\ \A d \in IrqCpus : irqPc'[d] = "idle"
      BY <2>1 DEF Irq!Unregistered
    <3> QED BY <3>1 DEF Irq!Unregistered, Irq!Spans, Irq!stats
  <2>5. Irq!Locked'
    BY <2>2 DEF Irq!Locked
  <2>6. Irq!Tickets'
    <3>1. irqEvtGot + Cardinality(Irq!In("inc")') < IrqSamples + Cardinality(IrqCpus)
      <4>1. CASE new = "inc"
        <5>1. Cardinality(Irq!In("inc")') <= Cardinality(IrqCpus) /\ Cardinality(Irq!In("inc")') \in Nat
          <6>1. Irq!In("inc")' \subseteq IrqCpus
            BY DEF Irq!In
          <6>2. Cardinality(Irq!In("inc")') <= Cardinality(IrqCpus) /\ Cardinality(Irq!In("inc")') \in Nat
            BY <6>1, FS_Subset, FS_CardinalityType
          <6> QED BY <6>2
        <5> QED BY <1>0, <2>1, <4>1, <5>1
      <4>2. CASE new # "inc"
        BY IrqCount, <2>2, <4>2 DEF Irq!Tickets
      <4> QED BY <4>1, <4>2
    <3> QED BY IrqCount, <2>2, <3>1 DEF Irq!Tickets
  <2> QED BY <2>3, <2>4, <2>5, <2>6
<1>2. CASE Irq!IncEvt(c)
  <2> USE <1>2 DEF Irq!IncEvt
  <2>1. PICK new \in {"idle", "print"} :
          irqPc' = [irqPc EXCEPT ![c] = new] /\ (new = "print" <=> irqEvtGot + 1 <= IrqSamples)
    <3>1. CASE irqEvtGot + 1 > IrqSamples
      BY <1>0, <3>1
    <3>2. CASE ~(irqEvtGot + 1 > IrqSamples)
      BY <1>0, <3>2
    <3> QED BY <3>1, <3>2
  <2>2. /\ Irq!In("frame")' = Irq!In("frame")
        /\ new # "print" => Irq!In("print")' = Irq!In("print")
        /\ new = "print" => Irq!In("print")' = Irq!In("print") \cup {c}
        /\ Irq!In("inc")' = Irq!In("inc") \ {c} /\ c \in Irq!In("inc") /\ c \notin Irq!In("print")
        /\ Irq!In("inc") \subseteq IrqCpus /\ Irq!In("print") \subseteq IrqCpus
    BY <2>1 DEF Irq!In, Irq!TypeOK
  <2>0. /\ new = "print" => Cardinality(Irq!In("print")') = Cardinality(Irq!In("print")) + 1
        /\ Cardinality(Irq!In("inc")') = Cardinality(Irq!In("inc")) - 1
    BY <2>2, IrqCounts
  <2>3. Irq!TypeOK'
    <3>1. irqPc' \in [IrqCpus -> {"idle", "lock", "frame", "end", "inc", "print"}]
      BY <2>1 DEF Irq!TypeOK
    <3>2. irqEl' \in [IrqCpus -> Nat]
      BY DEF Irq!TypeOK
    <3> QED BY <3>1, <3>2 DEF Irq!TypeOK, Irq!stats
  <2>4. Irq!Unregistered' /\ Irq!Spans'
    BY DEF Irq!Unregistered, Irq!Spans, Irq!stats
  <2>5. Irq!Locked'
    BY <2>2 DEF Irq!Locked
  <2>6. /\ \A d \in IrqCpus : d # c => irqEl'[d] = irqEl[d]
        /\ irqEl'[c] = irqEvtGot + 1 /\ irqEvtGot' = irqEvtGot + 1 /\ irqDispatches' = irqDispatches
    BY DEF Irq!TypeOK
  <2>7. \A d \in Irq!In("print")' : (d = c /\ irqEvtGot + 1 <= IrqSamples) \/ (d # c /\ d \in Irq!In("print"))
    BY <2>1, <2>2
  <2>8. \A i \in 1..Len(irqDispatches) : irqDispatches[i][1] \in Nat /\ irqDispatches[i][2] \in Nat
    <3>1. \A i \in 1..Len(irqDispatches) : irqDispatches[i] \in Nat \X Nat
      BY DEF Irq!TypeOK
    <3> QED BY <3>1
  <2>9. \A i \in 1..Len(irqDispatches) : irqDispatches[i][1] <= irqEvtGot /\ irqDispatches[i][2] <= irqEvtGot
    BY <1>0, <2>8 DEF Irq!Tickets
  <2>10. \A d \in Irq!In("print") : d \in IrqCpus /\ irqEl[d] \in 1..irqEvtGot /\ irqEl[d] <= IrqSamples
    BY DEF Irq!Tickets, Irq!In
  <2>11. ASSUME NEW d \in Irq!In("print")'
         PROVE  /\ irqEl'[d] \in 1..irqEvtGot' /\ irqEl'[d] <= IrqSamples
                /\ \A e \in Irq!In("print")' : irqEl'[e] = irqEl'[d] => e = d
                /\ \A i \in 1..Len(irqDispatches') : irqDispatches'[i][1] # irqEl'[d]
    <3>1. CASE d = c
      <4>1. irqEl'[d] = irqEvtGot + 1 /\ irqEvtGot + 1 <= IrqSamples
        BY <2>6, <2>7, <3>1
      <4>2. \A e \in Irq!In("print")' : e # c => irqEl'[e] = irqEl[e] /\ irqEl[e] <= irqEvtGot
        BY <1>0, <2>6, <2>7, <2>10
      <4>3. \A e \in Irq!In("print")' : irqEl'[e] = irqEl'[d] => e = d
        BY <1>0, <4>1, <4>2, <2>7, <2>10, <3>1
      <4>4. \A i \in 1..Len(irqDispatches') : irqDispatches'[i][1] # irqEl'[d]
        BY <1>0, <2>6, <2>8, <2>9, <4>1
      <4> QED BY <1>0, <2>6, <4>1, <4>3, <4>4
    <3>2. CASE d # c
      <4>1. d \in Irq!In("print") /\ irqEl'[d] = irqEl[d]
        BY <2>6, <2>7, <2>10, <3>2
      <4>2. irqEl[d] \in 1..irqEvtGot /\ irqEl[d] <= IrqSamples /\ irqEl[d] # irqEl'[c]
        BY <1>0, <2>6, <2>10, <4>1
      <4>3. \A e \in Irq!In("print")' : irqEl'[e] = irqEl'[d] => e = d
        <5> SUFFICES ASSUME NEW e \in Irq!In("print")', irqEl'[e] = irqEl'[d] PROVE e = d
          OBVIOUS
        <5>1. e # c
          BY <4>1, <4>2
        <5>2. e \in Irq!In("print") /\ irqEl'[e] = irqEl[e]
          BY <2>6, <2>7, <2>10, <5>1
        <5> QED BY <4>1, <5>2 DEF Irq!Tickets
      <4>4. \A i \in 1..Len(irqDispatches') : irqDispatches'[i][1] # irqEl'[d]
        BY <2>6, <4>1 DEF Irq!Tickets
      <4> QED BY <1>0, <2>6, <4>1, <4>2, <4>3, <4>4
    <3> QED BY <3>1, <3>2
  <2>12. \A i \in 1..Len(irqDispatches') :
           /\ irqDispatches'[i][1] \in 1..IrqSamples /\ irqDispatches'[i][1] <= irqDispatches'[i][2]
           /\ irqDispatches'[i][2] <= irqEvtGot'
           /\ \A j \in 1..Len(irqDispatches') : irqDispatches'[i][1] = irqDispatches'[j][1] => i = j
    <3>1. \A i \in 1..Len(irqDispatches) : irqDispatches[i][2] <= irqEvtGot + 1
      BY <1>0, <2>8, <2>9
    <3> QED BY <2>6, <3>1 DEF Irq!Tickets
  <2>13. irqEvtGot' + Cardinality(Irq!In("inc")') < IrqSamples + Cardinality(IrqCpus)
    BY IrqCount, <1>0, <2>0, <2>6 DEF Irq!Tickets
  <2>14. Len(irqDispatches') + Cardinality(Irq!In("print")') = IF irqEvtGot' < IrqSamples THEN irqEvtGot' ELSE IrqSamples
    <3>1. Len(irqDispatches) + Cardinality(Irq!In("print")) = IF irqEvtGot < IrqSamples THEN irqEvtGot ELSE IrqSamples
      BY IrqCount DEF Irq!Tickets
    <3>2. CASE new = "print"
      BY <1>0, <2>0, <2>1, <2>6, <3>1, <3>2
    <3>3. CASE new # "print"
      BY <1>0, <2>1, <2>2, <2>6, <3>1, <3>3
    <3> QED BY <3>2, <3>3
  <2>15. Irq!Tickets'
    BY IrqCount, <2>11, <2>12, <2>13, <2>14 DEF Irq!Tickets
  <2> QED BY <2>3, <2>4, <2>5, <2>15
<1>3. CASE Irq!PrintEvt(c)
  <2> USE <1>3 DEF Irq!PrintEvt
  <2>1. irqPc' = [irqPc EXCEPT ![c] = "idle"]
    OBVIOUS
  <2>2. /\ Irq!In("frame")' = Irq!In("frame") /\ Irq!In("inc")' = Irq!In("inc")
        /\ Irq!In("print")' = Irq!In("print") \ {c} /\ c \in Irq!In("print")
        /\ Cardinality(Irq!In("print")') = Cardinality(Irq!In("print")) - 1
    <3>1. /\ Irq!In("frame")' = Irq!In("frame") /\ Irq!In("inc")' = Irq!In("inc")
          /\ Irq!In("print")' = Irq!In("print") \ {c} /\ c \in Irq!In("print") /\
               Irq!In("print") \subseteq IrqCpus
      BY <2>1 DEF Irq!In, Irq!TypeOK
    <3> QED BY <3>1, IrqCounts
  <2>3. irqEl[c] \in Nat
    BY DEF Irq!TypeOK
  <2>4. Irq!TypeOK'
    <3>1. <<irqEl[c], irqEvtGot>> \in Nat \X Nat
      BY <1>0, <2>3
    <3>2. irqDispatches' \in Seq(Nat \X Nat)
      BY <3>1 DEF Irq!TypeOK
    <3> QED BY <3>2 DEF Irq!TypeOK, Irq!stats
  <2>5. Irq!Unregistered' /\ Irq!Spans'
    BY DEF Irq!Unregistered, Irq!Spans, Irq!stats
  <2>6. Irq!Locked'
    BY <2>2 DEF Irq!Locked
  <2> DEFINE n == Len(irqDispatches)
  <2>7. /\ Len(irqDispatches') = n + 1 /\ irqDispatches'[n + 1] = <<irqEl[c], irqEvtGot>>
        /\ \A i \in 1..n : irqDispatches'[i] = irqDispatches[i]
    BY <1>0, <2>3 DEF Irq!TypeOK
  <2>8. /\ irqEl[c] \in 1..irqEvtGot /\ irqEl[c] <= IrqSamples
        /\ \A d \in Irq!In("print") : irqEl[d] = irqEl[c] => d = c
        /\ \A i \in 1..n : irqDispatches[i][1] # irqEl[c]
    BY <2>2 DEF Irq!Tickets
  <2>9. \A i \in 1..Len(irqDispatches') : i \in 1..n \/ (i = n + 1 /\ i \notin 1..n)
    BY <1>0, <2>7
  <2>10. ASSUME NEW d \in Irq!In("print")'
         PROVE  /\ irqEl'[d] \in 1..irqEvtGot' /\ irqEl'[d] <= IrqSamples
                /\ \A e \in Irq!In("print")' : irqEl'[e] = irqEl'[d] => e = d
                /\ \A i \in 1..Len(irqDispatches') : irqDispatches'[i][1] # irqEl'[d]
    <3>1. d \in Irq!In("print") /\ d # c
      BY <2>2
    <3>2. irqEl[d] # irqEl[c]
      BY <2>8, <3>1
    <3>3. \A i \in 1..n : irqDispatches[i][1] # irqEl[d]
      BY <3>1 DEF Irq!Tickets
    <3>4. ASSUME NEW i \in 1..Len(irqDispatches') PROVE irqDispatches'[i][1] # irqEl[d]
      BY <2>7, <2>9, <3>2, <3>3
    <3>5. irqEl[d] \in 1..irqEvtGot /\ irqEl[d] <= IrqSamples /\
            \A e \in Irq!In("print") : irqEl[e] = irqEl[d] => e = d
      BY <3>1 DEF Irq!Tickets
    <3> QED BY <2>2, <3>4, <3>5
  <2>11. ASSUME NEW i \in 1..Len(irqDispatches')
         PROVE  /\ irqDispatches'[i][1] \in 1..IrqSamples /\ irqDispatches'[i][1] <= irqDispatches'[i][2]
                /\ irqDispatches'[i][2] <= irqEvtGot'
                /\ \A j \in 1..Len(irqDispatches') : irqDispatches'[i][1] = irqDispatches'[j][1] => i = j
    <3>1. CASE i \in 1..n
      <4>1. irqDispatches'[i] = irqDispatches[i]
        BY <2>7, <3>1
      <4>2. \A j \in 1..Len(irqDispatches') : irqDispatches'[i][1] = irqDispatches'[j][1] => i = j
        BY <2>7, <2>8, <2>9, <3>1, <4>1 DEF Irq!Tickets
      <4> QED BY <3>1, <4>1, <4>2 DEF Irq!Tickets
    <3>2. CASE i = n + 1
      <4>1. irqDispatches'[i][1] = irqEl[c] /\ irqDispatches'[i][2] = irqEvtGot
        BY <2>7, <3>2
      <4>2. \A j \in 1..Len(irqDispatches') : irqDispatches'[i][1] = irqDispatches'[j][1] => i = j
        BY <2>7, <2>8, <2>9, <3>2, <4>1
      <4> QED BY <1>0, <2>8, <4>1, <4>2
    <3> QED BY <2>9, <3>1, <3>2
  <2>12. Len(irqDispatches') + Cardinality(Irq!In("print")') = IF irqEvtGot' < IrqSamples THEN irqEvtGot' ELSE IrqSamples
    BY IrqCount, <1>0, <2>2, <2>7 DEF Irq!Tickets
  <2>13. Irq!Tickets'
    BY IrqCount, <2>2, <2>10, <2>11, <2>12 DEF Irq!Tickets
  <2> QED BY <2>4, <2>5, <2>6, <2>13
<1> QED BY <1>1, <1>2, <1>3

LEMMA IrqSteps == Irq!IrqInv /\ [Irq!Next]_(Irq!vars) => Irq!IrqInv'
<1> SUFFICES ASSUME Irq!IrqInv, [Irq!Next]_(Irq!vars) PROVE Irq!IrqInv'
  OBVIOUS
<1>1. CASE UNCHANGED Irq!vars
  <2> USE <1>1 DEF Irq!vars, Irq!stats, Irq!IrqInv
  <2>1. \A place : Irq!In(place)' = Irq!In(place)
    BY DEF Irq!In
  <2>2. Irq!TypeOK' /\ Irq!Unregistered' /\ Irq!Spans'
    BY DEF Irq!TypeOK, Irq!Unregistered, Irq!Spans
  <2>3. Irq!Locked'
    BY <2>1 DEF Irq!Locked
  <2>4. Irq!Tickets'
    BY <2>1 DEF Irq!Tickets
  <2> QED BY <2>2, <2>3, <2>4
<1> QED BY <1>1, IrqModuleSteps, IrqGicSteps, IrqEvtSteps DEF Irq!Next, Irq!Handler

LEMMA IrqReports == Irq!IrqInv => Irq!FramesExact /\ Irq!DispatchesBounded /\ Irq!SpansExact
<1> SUFFICES ASSUME Irq!IrqInv PROVE Irq!FramesExact /\ Irq!DispatchesBounded /\ Irq!SpansExact
  OBVIOUS
<1> USE IrqAssumption DEF Irq!IrqInv
<1>1. Len(irqFrames) \in Nat /\ Len(irqDispatches) \in Nat /\ irqEvtGot \in Nat /\ irqGot \in Nat
  BY DEF Irq!TypeOK
<1>2. irqPhase = "gone" => Irq!In("frame") = {} /\ Irq!In("print") = {} /\ Cardinality(Irq!In("print")) = 0
  <2>1. irqPhase = "gone" => Irq!In("frame") = {} /\ Irq!In("print") = {}
    BY DEF Irq!Unregistered, Irq!In
  <2> QED BY <2>1, FS_EmptySet
<1>3. Irq!FramesExact
  <2>1. irqFrames = [i \in 1..Len(irqFrames) |-> i]
    BY DEF Irq!TypeOK, Irq!Locked
  <2>2. Len(irqFrames) <= IrqSamples
    BY <1>1 DEF Irq!Locked
  <2>3. irqPhase = "gone" => irqGot = Len(irqFrames)
    BY <1>1, <1>2 DEF Irq!Locked
  <2> QED BY <2>1, <2>2, <2>3 DEF Irq!FramesExact
<1>4. Irq!DispatchesBounded
  <2>1. irqEvtGot < IrqSamples + Cardinality(IrqCpus)
    BY IrqCount, <1>1, IrqPlaces DEF Irq!Tickets
  <2>2. irqPhase = "gone" => Len(irqDispatches) = (IF irqEvtGot < IrqSamples THEN irqEvtGot ELSE IrqSamples)
    BY IrqCount, <1>1, <1>2 DEF Irq!Tickets
  <2> QED BY IrqCount, <2>1, <2>2 DEF Irq!DispatchesBounded, Irq!Tickets
<1>5. Irq!SpansExact
  BY DEF Irq!Spans, Irq!SpansExact
<1> QED BY <1>3, <1>4, <1>5

-----------------------------------------------------------------------------
(* ctx_probe.c.                                                            *)

\* Which step of its script insmod takes, by mode.
LEMMA CtxScript0 ==
  ASSUME ctxMode = 0, ctxPhase = "init", ctxPc \in 1..20
  PROVE  /\ Len(Ctx!Script) = 20
         /\ Ctx!At("take") <=> ctxPc \in {1, 2}
         /\ Ctx!At("init") <=> ctxPc \in {3, 6, 8}
         /\ Ctx!At("post") <=> ctxPc \in {4, 9, 14, 16, 18}
         /\ Ctx!At("wait") <=> ctxPc \in {5, 10, 11, 15, 17, 19}
         /\ Ctx!At("reinit") <=> ctxPc \in {7, 13}
         /\ Ctx!At("process") <=> ctxPc = 12
         /\ Ctx!At("end") <=> ctxPc = 20
         /\ ~Ctx!At("spawn") /\ ~Ctx!At("last") /\ ~Ctx!At("settle") /\ ~Ctx!At("stop")
         /\ Ctx!Arg = <<"insmod", "bh", "iw", "iw", "iw", "tl", "tl", "ht", "ht", "ht", "tl", "tl", "tl",
                        "tl", "tl", "tl2", "bh", "wk", "wk", "none">>[ctxPc]
<1>1. Ctx!Script = Ctx!RunMode0
  BY DEF Ctx!Script
<1>2. Len(Ctx!RunMode0) = 20
  BY DEF Ctx!RunMode0
<1>3. /\ Ctx!RunMode0[1][1] = "take" /\ Ctx!RunMode0[1][2] = "insmod" /\ Ctx!RunMode0[2][1] = "take" /\
           Ctx!RunMode0[2][2] = "bh"
      /\ Ctx!RunMode0[3][1] = "init" /\ Ctx!RunMode0[3][2] = "iw" /\ Ctx!RunMode0[4][1] = "post" /\
           Ctx!RunMode0[4][2] = "iw"
      /\ Ctx!RunMode0[5][1] = "wait" /\ Ctx!RunMode0[5][2] = "iw" /\ Ctx!RunMode0[6][1] = "init" /\
           Ctx!RunMode0[6][2] = "tl"
      /\ Ctx!RunMode0[7][1] = "reinit" /\ Ctx!RunMode0[7][2] = "tl" /\ Ctx!RunMode0[8][1] = "init" /\
           Ctx!RunMode0[8][2] = "ht"
      /\ Ctx!RunMode0[9][1] = "post" /\ Ctx!RunMode0[9][2] = "ht" /\ Ctx!RunMode0[10][1] = "wait" /\
           Ctx!RunMode0[10][2] = "ht"
      /\ Ctx!RunMode0[11][1] = "wait" /\ Ctx!RunMode0[11][2] = "tl" /\ Ctx!RunMode0[12][1] = "process" /\
           Ctx!RunMode0[12][2] = "tl"
      /\ Ctx!RunMode0[13][1] = "reinit" /\ Ctx!RunMode0[13][2] = "tl" /\ Ctx!RunMode0[14][1] = "post" /\
           Ctx!RunMode0[14][2] = "tl"
      /\ Ctx!RunMode0[15][1] = "wait" /\ Ctx!RunMode0[15][2] = "tl" /\ Ctx!RunMode0[16][1] = "post" /\
           Ctx!RunMode0[16][2] = "tl2"
      /\ Ctx!RunMode0[17][1] = "wait" /\ Ctx!RunMode0[17][2] = "bh" /\ Ctx!RunMode0[18][1] = "post" /\
           Ctx!RunMode0[18][2] = "wk"
      /\ Ctx!RunMode0[19][1] = "wait" /\ Ctx!RunMode0[19][2] = "wk" /\ Ctx!RunMode0[20][1] = "end" /\
           Ctx!RunMode0[20][2] = "none"
  BY DEF Ctx!RunMode0
<1>4. ctxPc = 1 \/ ctxPc = 2 \/ ctxPc = 3 \/ ctxPc = 4 \/ ctxPc = 5 \/ ctxPc = 6 \/ ctxPc = 7 \/ ctxPc = 8 \/
        ctxPc = 9 \/ ctxPc = 10
      \/ ctxPc = 11 \/ ctxPc = 12 \/ ctxPc = 13 \/ ctxPc = 14 \/ ctxPc = 15 \/ ctxPc = 16 \/ ctxPc = 17 \/
           ctxPc = 18 \/ ctxPc = 19 \/ ctxPc = 20
  OBVIOUS
<1>5. Ctx!Script[ctxPc][1] = <<"take", "take", "init", "post", "wait", "init", "reinit", "init", "post", "wait",
                         "wait", "process", "reinit", "post", "wait", "post", "wait", "post", "wait",
                           "end">>[ctxPc]
  BY <1>1, <1>3, <1>4
<1>6. Ctx!Script[ctxPc][2] = <<"insmod", "bh", "iw", "iw", "iw", "tl", "tl", "ht", "ht", "ht",
                         "tl", "tl", "tl", "tl", "tl", "tl2", "bh", "wk", "wk", "none">>[ctxPc]
  BY <1>1, <1>3, <1>4
<1>7. \A op : Ctx!At(op) <=> Ctx!Script[ctxPc][1] = op
  BY DEF Ctx!At
<1>8. Ctx!Arg = Ctx!Script[ctxPc][2]
  BY DEF Ctx!Arg
<1> QED BY <1>1, <1>2, <1>4, <1>5, <1>6, <1>7, <1>8

\* run_mode1().
LEMMA CtxScript1 ==
  ASSUME ctxMode = 1, ctxPhase = "init", ctxPc \in 1..5
  PROVE  /\ Len(Ctx!Script) = 5
         /\ Ctx!At("reinit") <=> ctxPc = 1
         /\ Ctx!At("post") <=> ctxPc = 2
         /\ Ctx!At("wait") <=> ctxPc = 3
         /\ Ctx!At("last") <=> ctxPc = 4
         /\ Ctx!At("end") <=> ctxPc = 5
         /\ ~Ctx!At("take") /\ ~Ctx!At("init") /\ ~Ctx!At("process") /\ ~Ctx!At("spawn") /\
              ~Ctx!At("settle") /\ ~Ctx!At("stop")
         /\ Ctx!Arg = <<"tl", "tl_spin", "tl", "none", "none">>[ctxPc]
<1>1. Ctx!Script = Ctx!RunMode1
  BY DEF Ctx!Script
<1>2. Len(Ctx!RunMode1) = 5
  BY DEF Ctx!RunMode1
<1>3. /\ Ctx!RunMode1[1][1] = "reinit" /\ Ctx!RunMode1[1][2] = "tl" /\ Ctx!RunMode1[2][1] = "post" /\
           Ctx!RunMode1[2][2] = "tl_spin"
      /\ Ctx!RunMode1[3][1] = "wait" /\ Ctx!RunMode1[3][2] = "tl" /\ Ctx!RunMode1[4][1] = "last" /\
           Ctx!RunMode1[4][2] = "none"
      /\ Ctx!RunMode1[5][1] = "end" /\ Ctx!RunMode1[5][2] = "none"
  BY DEF Ctx!RunMode1
<1>4. ctxPc = 1 \/ ctxPc = 2 \/ ctxPc = 3 \/ ctxPc = 4 \/ ctxPc = 5
  OBVIOUS
<1>5. Ctx!Script[ctxPc][1] = <<"reinit", "post", "wait", "last", "end">>[ctxPc]
  BY <1>1, <1>3, <1>4
<1>6. Ctx!Script[ctxPc][2] = <<"tl", "tl_spin", "tl", "none", "none">>[ctxPc]
  BY <1>1, <1>3, <1>4
<1>7. \A op : Ctx!At(op) <=> Ctx!Script[ctxPc][1] = op
  BY DEF Ctx!At
<1>8. Ctx!Arg = Ctx!Script[ctxPc][2]
  BY DEF Ctx!Arg
<1> QED BY <1>1, <1>2, <1>4, <1>5, <1>6, <1>7, <1>8

\* run_mode2().
LEMMA CtxScript2 ==
  ASSUME ctxMode = 2, ctxPhase = "init", ctxPc \in 1..8
  PROVE  /\ Len(Ctx!Script) = 8
         /\ Ctx!At("spawn") <=> ctxPc = 1
         /\ Ctx!At("init") <=> ctxPc = 2
         /\ Ctx!At("reinit") <=> ctxPc = 3
         /\ Ctx!At("post") <=> ctxPc = 4
         /\ Ctx!At("wait") <=> ctxPc = 5
         /\ Ctx!At("settle") <=> ctxPc = 6
         /\ Ctx!At("stop") <=> ctxPc = 7
         /\ Ctx!At("end") <=> ctxPc = 8
         /\ ~Ctx!At("take") /\ ~Ctx!At("process") /\ ~Ctx!At("last")
         /\ Ctx!Arg = <<"none", "ht", "tl", "ht_raise", "tl", "none", "none", "none">>[ctxPc]
<1>1. Ctx!Script = Ctx!RunMode2
  BY DEF Ctx!Script
<1>2. Len(Ctx!RunMode2) = 8
  BY DEF Ctx!RunMode2
<1>3. /\ Ctx!RunMode2[1][1] = "spawn" /\ Ctx!RunMode2[1][2] = "none" /\ Ctx!RunMode2[2][1] = "init" /\
           Ctx!RunMode2[2][2] = "ht"
      /\ Ctx!RunMode2[3][1] = "reinit" /\ Ctx!RunMode2[3][2] = "tl" /\ Ctx!RunMode2[4][1] = "post" /\
           Ctx!RunMode2[4][2] = "ht_raise"
      /\ Ctx!RunMode2[5][1] = "wait" /\ Ctx!RunMode2[5][2] = "tl" /\ Ctx!RunMode2[6][1] = "settle" /\
           Ctx!RunMode2[6][2] = "none"
      /\ Ctx!RunMode2[7][1] = "stop" /\ Ctx!RunMode2[7][2] = "none" /\ Ctx!RunMode2[8][1] = "end" /\
           Ctx!RunMode2[8][2] = "none"
  BY DEF Ctx!RunMode2
<1>4. ctxPc = 1 \/ ctxPc = 2 \/ ctxPc = 3 \/ ctxPc = 4 \/ ctxPc = 5 \/ ctxPc = 6 \/ ctxPc = 7 \/ ctxPc = 8
  OBVIOUS
<1>5. Ctx!Script[ctxPc][1] = <<"spawn", "init", "reinit", "post", "wait", "settle", "stop", "end">>[ctxPc]
  BY <1>1, <1>3, <1>4
<1>6. Ctx!Script[ctxPc][2] = <<"none", "ht", "tl", "ht_raise", "tl", "none", "none", "none">>[ctxPc]
  BY <1>1, <1>3, <1>4
<1>7. \A op : Ctx!At(op) <=> Ctx!Script[ctxPc][1] = op
  BY DEF Ctx!At
<1>8. Ctx!Arg = Ctx!Script[ctxPc][2]
  BY DEF Ctx!Arg
<1> QED BY <1>1, <1>2, <1>4, <1>5, <1>6, <1>7, <1>8

\* run_mode3().
LEMMA CtxScript3 ==
  ASSUME ctxMode = 3, ctxPhase = "init", ctxPc \in 1..5
  PROVE  /\ Len(Ctx!Script) = 5
         /\ Ctx!At("take") <=> ctxPc = 1
         /\ Ctx!At("reinit") <=> ctxPc = 2
         /\ Ctx!At("post") <=> ctxPc = 3
         /\ Ctx!At("wait") <=> ctxPc = 4
         /\ Ctx!At("end") <=> ctxPc = 5
         /\ ~Ctx!At("init") /\ ~Ctx!At("process") /\ ~Ctx!At("spawn") /\ ~Ctx!At("last") /\
              ~Ctx!At("settle") /\ ~Ctx!At("stop")
         /\ Ctx!Arg = <<"insmod", "wk", "wk_sleep", "wk", "none">>[ctxPc]
<1>1. Ctx!Script = Ctx!RunMode3
  BY DEF Ctx!Script
<1>2. Len(Ctx!RunMode3) = 5
  BY DEF Ctx!RunMode3
<1>3. /\ Ctx!RunMode3[1][1] = "take" /\ Ctx!RunMode3[1][2] = "insmod" /\ Ctx!RunMode3[2][1] = "reinit" /\
           Ctx!RunMode3[2][2] = "wk"
      /\ Ctx!RunMode3[3][1] = "post" /\ Ctx!RunMode3[3][2] = "wk_sleep" /\ Ctx!RunMode3[4][1] = "wait" /\
           Ctx!RunMode3[4][2] = "wk"
      /\ Ctx!RunMode3[5][1] = "end" /\ Ctx!RunMode3[5][2] = "none"
  BY DEF Ctx!RunMode3
<1>4. ctxPc = 1 \/ ctxPc = 2 \/ ctxPc = 3 \/ ctxPc = 4 \/ ctxPc = 5
  OBVIOUS
<1>5. Ctx!Script[ctxPc][1] = <<"take", "reinit", "post", "wait", "end">>[ctxPc]
  BY <1>1, <1>3, <1>4
<1>6. Ctx!Script[ctxPc][2] = <<"insmod", "wk", "wk_sleep", "wk", "none">>[ctxPc]
  BY <1>1, <1>3, <1>4
<1>7. \A op : Ctx!At(op) <=> Ctx!Script[ctxPc][1] = op
  BY DEF Ctx!At
<1>8. Ctx!Arg = Ctx!Script[ctxPc][2]
  BY DEF Ctx!Arg
<1> QED BY <1>1, <1>2, <1>4, <1>5, <1>6, <1>7, <1>8

\* In every mode: the script ends with "end", and its arguments.
LEMMA CtxArguments ==
  ASSUME Ctx!TypeOK, ctxPhase = "init", ctxPc <= Len(Ctx!Script)
  PROVE  /\ Len(Ctx!Script) \in 1..20 /\ ctxPc \in 1..Len(Ctx!Script)
         /\ ~Ctx!At("end") => ctxPc + 1 <= Len(Ctx!Script)
         /\ Ctx!At("take") => Ctx!Arg \in {"insmod", "bh"}
         /\ Ctx!At("post") => Ctx!Arg \in Ctx!Callbacks
         /\ Ctx!At("init") => Ctx!Arg \in {"iw", "ht", "tl"}
         /\ Ctx!At("wait") \/ Ctx!At("reinit") => Ctx!Arg \in {"iw", "ht", "tl", "wk", "bh"}
<1>0. ctxPc \in 1..20 /\ ctxMode \in {0, 1, 2, 3}
  BY DEF Ctx!TypeOK
<1>1. CASE ctxMode = 0
  <2>2. Len(Ctx!Script) = 20 /\ (~Ctx!At("end") => ctxPc # 20)
    BY <1>0, <1>1, CtxScript0
  <2>3. Ctx!At("take") => Ctx!Arg \in {"insmod", "bh"}
    BY <1>0, <1>1, CtxScript0
  <2>4. Ctx!At("post") => Ctx!Arg \in Ctx!Callbacks
    BY <1>0, <1>1, CtxScript0 DEF Ctx!Callbacks
  <2>5. Ctx!At("init") => Ctx!Arg \in {"iw", "ht", "tl"}
    BY <1>0, <1>1, CtxScript0
  <2>6. Ctx!At("wait") \/ Ctx!At("reinit") => Ctx!Arg \in {"iw", "ht", "tl", "wk", "bh"}
    BY <1>0, <1>1, CtxScript0
  <2> QED BY <1>0, <2>2, <2>3, <2>4, <2>5, <2>6
<1>2. CASE ctxMode = 1
  <2>1. Len(Ctx!Script) = 5
    BY <1>2 DEF Ctx!Script, Ctx!RunMode1
  <2> QED BY <1>0, <1>2, <2>1, CtxScript1 DEF Ctx!Callbacks
<1>3. CASE ctxMode = 2
  <2>1. Len(Ctx!Script) = 8
    BY <1>3 DEF Ctx!Script, Ctx!RunMode2
  <2> QED BY <1>0, <1>3, <2>1, CtxScript2 DEF Ctx!Callbacks
<1>4. CASE ctxMode = 3
  <2>1. Len(Ctx!Script) = 5
    BY <1>4 DEF Ctx!Script, Ctx!RunMode3
  <2> QED BY <1>0, <1>4, <2>1, CtxScript3 DEF Ctx!Callbacks
<1> QED BY <1>0, <1>1, <1>2, <1>3, <1>4

\* Before insmod nothing is queued.
LEMMA CtxStart ==
  ASSUME Ctx!Init
  PROVE  Ctx!CtxInv
<1> USE DEF Ctx!Init
<1>1. Ctx!TypeOK
  <2>1. ctxStage \in [Ctx!Callbacks -> {"idle", "take", "asleep", "rest", "ret"}]
    OBVIOUS
  <2>2. ctxLocal \in [Ctx!Callbacks -> 0..Ctx!Slots]
    BY DEF Ctx!Slots
  <2>3. ctxLabel \in [Ctx!Callbacks -> Ctx!Callbacks \cup {"none", "softirq1", "softirq3", "awake"}]
    OBVIOUS
  <2>4. ctxFp \in [1..Ctx!Slots -> Ctx!Callbacks \cup {"none", "insmod", "bh", "softirq1", "softirq3", "awake"}]
    OBVIOUS
  <2>5. ctxDone \in [{"iw", "ht", "tl", "wk", "bh"} -> Nat]
    OBVIOUS
  <2>6. ctxNfp \in 0..Ctx!Slots /\ ctxLate \in 0..CtxMaxLate
    BY CtxAssumption DEF Ctx!Slots
  <2>7. /\ ctxMode \in 0..3 /\ ctxPhase = "absent" /\ ctxPc \in 1..20 /\ ctxLate = 0
        /\ ctxQueued \subseteq Ctx!Callbacks /\ ctxInited \subseteq {"iw", "ht", "tl"} /\ ctxVictim = "none"
    OBVIOUS
  <2>8. ctxTimely \in BOOLEAN /\ ctxFromHardirq \in BOOLEAN /\ ctxSleptOk \in BOOLEAN /\ ctxGap \in BOOLEAN
    OBVIOUS
  <2> HIDE DEF Ctx!Init
  <2> QED BY <2>1, <2>2, <2>3, <2>4, <2>5, <2>6, <2>7, <2>8 DEF Ctx!TypeOK
<1>2. Ctx!Drained
  BY DEF Ctx!Drained
<1>3. Ctx!Quiet(0)
  BY DEF Ctx!Quiet, Ctx!Idle, Ctx!Active, Ctx!NoneDone
<1>4. Ctx!InOrder
  BY <1>3 DEF Ctx!InOrder
<1> QED BY <1>1, <1>2, <1>4 DEF Ctx!CtxInv

\* Every step keeps the variables in their types.
LEMMA CtxTyped ==
  ASSUME Ctx!TypeOK, Ctx!InOrder, Ctx!Next
  PROVE  Ctx!TypeOK'
<1> DEFINE S == {"idle", "take", "asleep", "rest", "ret"}
           L == Ctx!Callbacks \cup {"none", "softirq1", "softirq3", "awake"}
           P == Ctx!Callbacks \cup {"none", "insmod", "bh", "softirq1", "softirq3", "awake"}
           D == {"iw", "ht", "tl", "wk", "bh"}
<1>0. ctxPhase = "init" => /\ ctxPc <= Len(Ctx!Script) /\ Len(Ctx!Script) \in 1..20
                           /\ ~Ctx!At("end") => ctxPc + 1 \in 1..20
                           /\ Ctx!At("take") => Ctx!Arg \in {"insmod", "bh"}
                           /\ Ctx!At("post") => Ctx!Arg \in Ctx!Callbacks
                           /\ Ctx!At("init") => Ctx!Arg \in {"iw", "ht", "tl"}
                           /\ Ctx!At("wait") \/ Ctx!At("reinit") => Ctx!Arg \in {"iw", "ht", "tl", "wk", "bh"}
  <2>1. ctxPhase = "init" => ctxPc <= Len(Ctx!Script)
    BY DEF Ctx!InOrder
  <2>2. CASE ctxPhase = "init"
    <3>1. ctxPc <= Len(Ctx!Script)
      BY <2>1, <2>2
    <3>2. /\ Len(Ctx!Script) \in 1..20 /\ ctxPc \in 1..Len(Ctx!Script)
          /\ ~Ctx!At("end") => ctxPc + 1 <= Len(Ctx!Script)
          /\ Ctx!At("take") => Ctx!Arg \in {"insmod", "bh"}
          /\ Ctx!At("post") => Ctx!Arg \in Ctx!Callbacks
          /\ Ctx!At("init") => Ctx!Arg \in {"iw", "ht", "tl"}
          /\ Ctx!At("wait") \/ Ctx!At("reinit") => Ctx!Arg \in {"iw", "ht", "tl", "wk", "bh"}
      BY <2>2, <3>1, CtxArguments
    <3>3. ~Ctx!At("end") => ctxPc + 1 \in 1..20
      <4>1. \A n \in 1..20 : \A m \in 1..n : m + 1 <= n => m + 1 \in 1..20
        OBVIOUS
      <4> QED BY <3>2, <4>1
    <3> QED BY <3>1, <3>2, <3>3
  <2> QED BY <2>2
<1> USE DEF Ctx!TypeOK
<1>1. \A op : Ctx!At(op) => ctxPhase = "init"
  BY DEF Ctx!At
<1>1a. Ctx!At("take") \/ Ctx!At("post") \/ Ctx!At("init") \/ Ctx!At("reinit") \/ Ctx!At("process") \/
         Ctx!At("spawn") \/ Ctx!At("wait")
       \/ Ctx!At("last") \/ Ctx!At("settle") \/ Ctx!At("stop") => ~Ctx!At("end")
  BY DEF Ctx!At
<1>2. CASE Ctx!Insmod
  <2>1. ctxMode' \in 0..3 /\ ctxLate' \in 0..CtxMaxLate /\ ctxPhase' \in {"init", "failed"} /\ ctxPc' = 1
    BY <1>2, CtxAssumption DEF Ctx!Insmod
  <2>2. ctxTimely' \in BOOLEAN /\ (ctxTimely' => ctxLate' = 0)
    BY <1>2 DEF Ctx!Insmod
  <2> QED BY <1>2, <2>1, <2>2 DEF Ctx!Insmod, Ctx!cbs, Ctx!table, Ctx!flags
<1>3. CASE Ctx!Take
  <2>1. ctxFp' \in [1..Ctx!Slots -> P] /\ ctxNfp' \in 0..Ctx!Slots
    <3>1. Ctx!Arg \in P /\ ctxNfp + 1 \in 1..Ctx!Slots
      BY <1>0, <1>1, <1>3 DEF Ctx!Take, Ctx!Slots
    <3> QED BY <1>3, <3>1 DEF Ctx!Take, Ctx!Slots
  <2> QED BY <1>0, <1>1, <1>1a, <1>3, <2>1 DEF Ctx!Take, Ctx!cbs, Ctx!flags
<1>4. CASE Ctx!Post
  BY <1>0, <1>1, <1>1a, <1>4 DEF Ctx!Post, Ctx!table, Ctx!flags
<1>5. CASE Ctx!SetUp
  <2>1. ctxDone' \in [D -> Nat]
    <3>1. ctxDone' = ctxDone \/ ctxDone' = [ctxDone EXCEPT ![Ctx!Arg] = 0]
      BY <1>5 DEF Ctx!SetUp
    <3> QED BY <3>1
  <2>2. ctxInited' \subseteq {"iw", "ht", "tl"} /\ ctxFromHardirq' \in BOOLEAN
    <3>1. ctxInited' = ctxInited \/ (ctxInited' = ctxInited \cup {Ctx!Arg} /\ Ctx!At("init"))
      BY <1>5 DEF Ctx!SetUp
    <3>2. ctxFromHardirq' = ctxFromHardirq \/ ctxFromHardirq' = FALSE
      BY <1>5 DEF Ctx!SetUp
    <3> QED BY <3>1, <3>2, <1>0, <1>1
  <2>3. ctxVictim' \in {"none", "run", "hit", "gone"}
    BY <1>5 DEF Ctx!SetUp
  <2>4. ctxPc' \in 1..20
    BY <1>0, <1>1, <1>1a, <1>5 DEF Ctx!SetUp
  <2> QED BY <1>5, <2>1, <2>2, <2>3, <2>4 DEF Ctx!SetUp, Ctx!cbs, Ctx!table
<1>6. CASE Ctx!SpawnFails
  BY <1>6 DEF Ctx!SpawnFails, Ctx!cbs, Ctx!table, Ctx!flags
<1>7. CASE Ctx!WaitFor
  <2>1. ctxDone' \in [D -> Nat] /\ ctxLate' \in 0..CtxMaxLate /\ (ctxTimely => ctxLate' = 0)
    <3>1. Ctx!Arg \in D /\ ctxDone[Ctx!Arg] \in Nat
      BY <1>0, <1>1, <1>7 DEF Ctx!WaitFor
    <3>2. CASE ctxDone[Ctx!Arg] > 0 /\ ctxDone' = [ctxDone EXCEPT ![Ctx!Arg] = @ - 1] /\ UNCHANGED ctxLate
      BY <3>1, <3>2
    <3>3. CASE ctxDone[Ctx!Arg] = 0 /\ ctxLate > 0 /\ ctxLate' = ctxLate - 1 /\ UNCHANGED ctxDone
      BY <3>1, <3>3, CtxAssumption
    <3> QED BY <1>7, <3>2, <3>3 DEF Ctx!WaitFor
  <2> QED BY <1>0, <1>1, <1>1a, <1>7, <2>1 DEF Ctx!WaitFor, Ctx!cbs, Ctx!table, Ctx!flags
<1>8. CASE Ctx!Settle
  BY <1>0, <1>1, <1>1a, <1>8 DEF Ctx!Settle, Ctx!cbs, Ctx!table
<1>9. CASE Ctx!Report
  BY <1>9 DEF Ctx!Report, Ctx!cbs, Ctx!table, Ctx!flags
<1>10. CASE Ctx!Rmmod
  BY <1>10 DEF Ctx!Rmmod, Ctx!cbs, Ctx!table, Ctx!flags
<1>11. CASE Ctx!Drain
  <2>1. ctxQueued' \subseteq Ctx!Callbacks
    BY <1>11 DEF Ctx!Drain
  <2>2. ctxPc' \in 1..20 /\ ctxPhase' \in {"exit", "gone"}
    <3>1. Len(Ctx!ExitScript) = 7
      BY DEF Ctx!ExitScript
    <3>2. ctxPc \in 1..7
      BY <1>11, <3>1 DEF Ctx!Drain, Ctx!InOrder
    <3>3. \/ ctxPc = 7 /\ ctxPc' = ctxPc /\ ctxPhase' = "gone"
          \/ ctxPc # 7 /\ ctxPc' = ctxPc + 1 /\ ctxPhase' = "exit"
      BY <1>11, <3>1 DEF Ctx!Drain
    <3>4. ctxPc' \in 1..20
      <4>1. ctxPc' = ctxPc \/ ctxPc' = ctxPc + 1
        BY <3>3
      <4> HIDE DEF Ctx!TypeOK
      <4> QED BY <3>2, <4>1
    <3>5. ctxPhase' \in {"exit", "gone"}
      BY <3>3
    <3> QED BY <3>4, <3>5
  <2> QED BY <1>11, <2>1, <2>2 DEF Ctx!Drain, Ctx!table, Ctx!flags
<1>12. CASE Ctx!VictimLoops
  BY <1>12 DEF Ctx!VictimLoops, Ctx!cbs, Ctx!table
<1>13. ASSUME NEW c \in Ctx!Callbacks, Ctx!CallbackStep(c)
       PROVE  Ctx!TypeOK'
  <2>1. CASE Ctx!TakeRead(c)
    <3>1. Ctx!What(c) \in L
      BY DEF Ctx!What
    <3>2. ctxStage' \in [Ctx!Callbacks -> S] /\ ctxLocal' \in [Ctx!Callbacks -> 0..Ctx!Slots]
      BY <2>1 DEF Ctx!TakeRead
    <3>3. ctxLabel' \in [Ctx!Callbacks -> L]
      BY <2>1, <3>1 DEF Ctx!TakeRead
    <3>4. ctxQueued' \subseteq Ctx!Callbacks /\ ctxSleptOk' \in BOOLEAN
      BY <2>1 DEF Ctx!TakeRead
    <3> QED BY <2>1, <3>2, <3>3, <3>4 DEF Ctx!TakeRead, Ctx!table
  <2>2. CASE Ctx!TakeStore(c)
    <3>1. ctxFp' \in [1..Ctx!Slots -> P] /\ ctxNfp' \in 0..Ctx!Slots
      <4>1. CASE ctxLocal[c] < Ctx!Slots
        <5>1. ctxLabel[c] \in P /\ ctxLocal[c] + 1 \in 1..Ctx!Slots
          BY <4>1 DEF Ctx!Slots
        <5>2. ctxNfp' = ctxLocal[c] + 1 /\ ctxFp' = [ctxFp EXCEPT ![ctxLocal[c] + 1] = ctxLabel[c]]
          BY <2>2, <4>1 DEF Ctx!TakeStore
        <5> QED BY <5>1, <5>2 DEF Ctx!Slots
      <4>2. CASE ~(ctxLocal[c] < Ctx!Slots)
        BY <2>2, <4>2 DEF Ctx!TakeStore, Ctx!table
      <4> QED BY <4>1, <4>2
    <3>2. ctxStage' \in [Ctx!Callbacks -> S]
      BY <2>2 DEF Ctx!TakeStore
    <3>3. ctxLocal' \in [Ctx!Callbacks -> 0..Ctx!Slots]
      BY <2>2 DEF Ctx!TakeStore, Ctx!Slots
    <3>4. ctxLabel' \in [Ctx!Callbacks -> L]
      BY <2>2 DEF Ctx!TakeStore
    <3>5. ctxVictim' \in {"none", "run", "hit", "gone"}
      BY <2>2 DEF Ctx!TakeStore
    <3> QED BY <2>2, <3>1, <3>2, <3>3, <3>4, <3>5 DEF Ctx!TakeStore
  <2>3. CASE Ctx!Finish(c)
    <3>1. Ctx!Posts(c) \subseteq Ctx!Callbacks
      BY DEF Ctx!Posts, Ctx!Callbacks
    <3>2. ctxDone' \in [D -> Nat]
      <4>1. DOMAIN ctxDone = D
        OBVIOUS
      <4>2. \A d \in D : ctxDone[d] + (IF d \in Ctx!Completes(c) THEN 1 ELSE 0) \in Nat
        OBVIOUS
      <4> QED BY <2>3, <4>1, <4>2 DEF Ctx!Finish
    <3>3. ctxStage' \in [Ctx!Callbacks -> S]
      BY <2>3 DEF Ctx!Finish
    <3> QED BY <2>3, <3>1, <3>2, <3>3 DEF Ctx!Finish, Ctx!table, Ctx!flags
  <2>4. CASE Ctx!Return(c)
    <3>1. ctxStage' \in [Ctx!Callbacks -> S]
      BY <2>4 DEF Ctx!Return
    <3> QED BY <2>4, <3>1 DEF Ctx!Return, Ctx!table, Ctx!flags
  <2> QED BY <1>13, <2>1, <2>2, <2>3, <2>4 DEF Ctx!CallbackStep
<1> QED BY <1>2, <1>3, <1>4, <1>5, <1>6, <1>7, <1>8, <1>9, <1>10, <1>11, <1>12, <1>13 DEF Ctx!Next, Ctx!InitStep

\* With nothing active a callback can only return.
LEMMA CtxQuietStep ==
  ASSUME Ctx!TypeOK, Ctx!Active = {}, NEW e \in Ctx!Callbacks, Ctx!CallbackStep(e)
  PROVE  Ctx!Return(e) /\ Ctx!Active' = {}
<1>1. e \notin ctxQueued /\ ctxStage[e] \in {"idle", "ret"} /\ ctxQueued = {}
  BY DEF Ctx!Active, Ctx!TypeOK
<1>2. ~Ctx!TakeRead(e) /\ ~Ctx!TakeStore(e) /\ ~Ctx!Finish(e)
  BY <1>1 DEF Ctx!TakeRead, Ctx!TakeStore, Ctx!Finish
<1>3. Ctx!Return(e)
  BY <1>2 DEF Ctx!CallbackStep
<1>4. ctxQueued' = {} /\ ctxStage' = [ctxStage EXCEPT ![e] = "idle"]
  BY <1>1, <1>3 DEF Ctx!Return
<1>5. \A c \in Ctx!Callbacks : ctxStage'[c] \in {"idle", "ret"}
  BY <1>4 DEF Ctx!Active, Ctx!TypeOK
<1> QED BY <1>3, <1>4, <1>5 DEF Ctx!Active

\* Every step keeps what rmmod has waited for drained.
LEMMA CtxDrained ==
  ASSUME Ctx!TypeOK, Ctx!Drained, Ctx!InOrder, Ctx!Next
  PROVE  Ctx!Drained'
<1> DEFINE Gone == CASE ctxPhase = "exit" -> UNION {Ctx!ExitScript[j] : j \in 1..(ctxPc - 1)}
                     [] ctxPhase = "gone" -> Ctx!Callbacks
                     [] OTHER -> {}
           Hole == IF ctxTimely THEN {} ELSE {"tl", "tl_block"}
<1>1. Gone \cap Ctx!Outstanding \subseteq Hole
  BY DEF Ctx!Drained
<1>2. SUFFICES Gone' \cap Ctx!Outstanding' \subseteq Hole'
  BY DEF Ctx!Drained
<1>3. CASE Ctx!Insmod
  BY <1>3 DEF Ctx!Insmod
<1>4. CASE Ctx!InitStep
  <2>1. ctxPhase' \in {"init", "loaded"}
    BY <1>4 DEF Ctx!InitStep, Ctx!Take, Ctx!Post, Ctx!SetUp, Ctx!SpawnFails, Ctx!WaitFor, Ctx!Settle,
         Ctx!Report, Ctx!At
  <2> QED BY <2>1
<1>5. CASE Ctx!Rmmod
  <2>1. ctxPhase' = "exit" /\ ctxPc' - 1 = 0
    BY <1>5 DEF Ctx!Rmmod
  <2>2. Gone' = UNION {Ctx!ExitScript[j] : j \in 1..0}
    BY <2>1
  <2>3. Gone' = {}
    <3> HIDE DEF Gone
    <3> QED BY <2>2
  <2> HIDE DEF Gone
  <2> QED BY <2>3
<1>6. CASE Ctx!Drain
  <2>1. ctxPhase = "exit" /\ ctxTimely' = ctxTimely /\ ctxStage' = ctxStage /\ ctxQueued' \subseteq ctxQueued
    BY <1>6 DEF Ctx!Drain
  <2>2. Ctx!ExitScript[ctxPc] \cap Ctx!Outstanding' = {}
    BY <1>6 DEF Ctx!Drain, Ctx!Outstanding
  <2>3. Ctx!Outstanding' \subseteq Ctx!Outstanding
    BY <2>1 DEF Ctx!Outstanding
  <2>4. ctxPc \in 1..7 /\ Len(Ctx!ExitScript) = 7
    <3>1. Len(Ctx!ExitScript) = 7
      BY DEF Ctx!ExitScript
    <3> QED BY <2>1, <3>1 DEF Ctx!InOrder, Ctx!TypeOK
  <2>5. Gone' \subseteq UNION {Ctx!ExitScript[j] : j \in 1..ctxPc}
    <3>1. CASE ctxPc = 7
      <4>1. ctxPhase' = "gone" /\ Gone' = Ctx!Callbacks
        BY <1>6, <2>4, <3>1 DEF Ctx!Drain
      <4>2. ASSUME NEW c \in Ctx!Callbacks
            PROVE  \E j \in 1..7 : c \in Ctx!ExitScript[j]
        <5>1. /\ Ctx!ExitScript[1] = {"tl"} /\ Ctx!ExitScript[2] = {"tl2"} /\ Ctx!ExitScript[3] = {"tl_spin"}
              /\ Ctx!ExitScript[4] = {"tl_block"} /\ Ctx!ExitScript[5] = {"ht", "ht_raise"}
              /\ Ctx!ExitScript[6] = {"iw"} /\ Ctx!ExitScript[7] = {"wk", "wk_sleep"}
          BY DEF Ctx!ExitScript
        <5> QED BY <5>1 DEF Ctx!Callbacks
      <4> QED BY <3>1, <4>1, <4>2
    <3>2. CASE ctxPc # 7
      <4>1. ctxPhase' = "exit" /\ ctxPc' = ctxPc + 1
        BY <1>6, <2>4, <3>2 DEF Ctx!Drain
      <4>2. Gone' = UNION {Ctx!ExitScript[j] : j \in 1..(ctxPc' - 1)}
        BY <4>1
      <4>3. ctxPc' - 1 = ctxPc
        BY <2>4, <4>1
      <4> QED BY <4>2, <4>3
    <3> QED BY <3>1, <3>2
  <2>6. \A x \in Gone' : x \in Ctx!ExitScript[ctxPc] \/ x \in Gone
    <3>1. Gone = UNION {Ctx!ExitScript[j] : j \in 1..(ctxPc - 1)}
      BY <2>1
    <3>2. \A j \in 1..ctxPc : j = ctxPc \/ j \in 1..(ctxPc - 1)
      BY <2>4
    <3> HIDE DEF Gone
    <3> QED BY <2>5, <3>1, <3>2
  <2> HIDE DEF Gone
  <2> QED BY <1>1, <2>1, <2>2, <2>3, <2>6
<1>7. CASE Ctx!VictimLoops
  <2>1. Ctx!Outstanding' = Ctx!Outstanding /\ Gone' = Gone /\ Hole' = Hole
    BY <1>7 DEF Ctx!VictimLoops, Ctx!cbs, Ctx!Outstanding
  <2> QED BY <1>1, <2>1
<1>8. ASSUME NEW c \in Ctx!Callbacks, Ctx!CallbackStep(c)
      PROVE  Gone' \cap Ctx!Outstanding' \subseteq Hole'
  <2>1. ctxPhase' = ctxPhase /\ ctxPc' = ctxPc /\ ctxTimely' = ctxTimely
    BY <1>8 DEF Ctx!CallbackStep, Ctx!TakeRead, Ctx!TakeStore, Ctx!Finish, Ctx!Return
  <2>2. Gone' = Gone /\ Hole' = Hole
    BY <2>1
  <2>3. Ctx!Outstanding' \subseteq Ctx!Outstanding \cup {"tl", "tl_block"}
    <3>1. CASE Ctx!TakeRead(c)
      BY <3>1 DEF Ctx!TakeRead, Ctx!Outstanding, Ctx!TypeOK
    <3>2. CASE Ctx!TakeStore(c)
      BY <3>2 DEF Ctx!TakeStore, Ctx!Outstanding, Ctx!TypeOK
    <3>3. CASE Ctx!Finish(c)
      <4>1. Ctx!Posts(c) \subseteq {"tl", "tl_block"}
        BY DEF Ctx!Posts
      <4> QED BY <3>3, <4>1 DEF Ctx!Finish, Ctx!Outstanding, Ctx!TypeOK
    <3>4. CASE Ctx!Return(c)
      BY <3>4 DEF Ctx!Return, Ctx!Outstanding, Ctx!TypeOK
    <3> QED BY <1>8, <3>1, <3>2, <3>3, <3>4 DEF Ctx!CallbackStep
  <2>4. CASE ctxTimely /\ ctxPhase \in {"exit", "gone"}
    <3>1. Ctx!Active = {}
      BY <2>4 DEF Ctx!InOrder
    <3>2. Ctx!Return(c)
      BY <1>8, <3>1, CtxQuietStep
    <3>3. Ctx!Outstanding' \subseteq Ctx!Outstanding
      BY <3>2 DEF Ctx!Return, Ctx!Outstanding, Ctx!TypeOK
    <3> HIDE DEF Gone, Hole
    <3> QED BY <1>1, <2>2, <3>3
  <2>5. CASE ~ctxTimely
    <3>1. Hole = {"tl", "tl_block"}
      BY <2>5
    <3> HIDE DEF Gone, Hole
    <3> QED BY <1>1, <2>2, <2>3, <3>1
  <2>6. CASE ctxPhase \notin {"exit", "gone"}
    <3>1. Gone = {}
      BY <2>6
    <3> HIDE DEF Gone, Hole
    <3> QED BY <2>2, <3>1
  <2> QED BY <2>4, <2>5, <2>6
<1> QED BY <1>3, <1>4, <1>5, <1>6, <1>7, <1>8 DEF Ctx!Next

\* What the table must show, line by line.
LEMMA CtxLines ==
  /\ ctxMode = 0 =>
       /\ Len(Ctx!Expected) = 8 /\ Ctx!Expected[1] = "insmod" /\ Ctx!Expected[2] = "bh"
       /\ Ctx!Expected[3] = "iw" /\ Ctx!Expected[4] = "ht" /\ Ctx!Expected[5] = "softirq1"
       /\ Ctx!Expected[6] = "softirq3" /\ Ctx!Expected[7] = "tl2" /\ Ctx!Expected[8] = "wk"
  /\ ctxMode = 1 => Len(Ctx!Expected) = 1 /\ Ctx!Expected[1] = "tl_spin"
  /\ ctxMode = 2 =>
       Len(Ctx!Expected) = 2 /\ Ctx!Expected[1] = "ht_raise" /\ Ctx!Expected[2] = "tl_block"
  /\ ctxMode = 3 =>
       /\ Len(Ctx!Expected) = 3 /\ Ctx!Expected[1] = "insmod"
       /\ Ctx!Expected[2] = "wk_sleep" /\ Ctx!Expected[3] = "awake"
<1>1. ctxMode = 0 => Ctx!Expected = <<"insmod", "bh", "iw", "ht", "softirq1", "softirq3", "tl2", "wk">>
  BY DEF Ctx!Expected
<1>2. ctxMode = 1 => Ctx!Expected = <<"tl_spin">>
  BY DEF Ctx!Expected
<1>3. ctxMode = 2 => Ctx!Expected = <<"ht_raise", "tl_block">>
  BY DEF Ctx!Expected
<1>4. ctxMode = 3 => Ctx!Expected = <<"insmod", "wk_sleep", "awake">>
  BY DEF Ctx!Expected
<1> QED BY <1>1, <1>2, <1>3, <1>4

\* With nothing active a callback changes nothing the table depends on.
LEMMA CtxKeep ==
  ASSUME Ctx!TypeOK, Ctx!Active = {}, Ctx!SoFar, NEW e \in Ctx!Callbacks, Ctx!CallbackStep(e)
  PROVE  /\ Ctx!Active' = {} /\ Ctx!SoFar' /\ ctxQueued' = ctxQueued /\ ctxNfp' = ctxNfp /\ ctxDone' = ctxDone
         /\ ctxSleptOk' = ctxSleptOk /\ ctxVictim' = ctxVictim
<1>1. Ctx!Return(e) /\ Ctx!Active' = {}
  BY CtxQuietStep
<1>2. ctxMode' = ctxMode /\ ctxQueued' = ctxQueued /\ ctxNfp' = ctxNfp /\ ctxFp' = ctxFp /\
        ctxDone' = ctxDone /\ ctxSleptOk' = ctxSleptOk
      /\ ctxVictim' = ctxVictim
  BY <1>1 DEF Ctx!Return, Ctx!table, Ctx!flags
<1>3. Ctx!Expected' = Ctx!Expected
  BY <1>2 DEF Ctx!Expected
<1> QED BY <1>1, <1>2, <1>3 DEF Ctx!SoFar

\* A step while callback c is on its way to slot s: it goes on, or it sleeps
\* and enters its second line, or it is done and has posted what it posts.
LEMMA CtxServe ==
  ASSUME Ctx!TypeOK, NEW c \in Ctx!Callbacks, NEW s \in 1..8, Ctx!Serving(c, s), Ctx!SoFar,
         c \in ctxQueued => Ctx!Expected[s] = Ctx!What(c),
         ctxStage[c] = "asleep" => s + 1 \in 1..8 /\ Ctx!Expected[s + 1] = "awake",
         NEW e \in Ctx!Callbacks, Ctx!CallbackStep(e)
  PROVE  /\ Ctx!SoFar'
         /\ ctxVictim' = ctxVictim \/ (c = "tl_block" /\ ctxVictim = "run" /\ ctxVictim' = "hit")
         /\ ctxNfp' = ctxNfp \/ (ctxNfp' = s /\ (c = "tl_block" /\ ctxVictim = "run" => ctxVictim' = "hit"))
         /\ \/ Ctx!Serving(c, s)' /\ ctxDone' = ctxDone /\ ctxSleptOk' = ctxSleptOk /\
                 ctxQueued' \subseteq ctxQueued
            \/ /\ c = "wk_sleep" /\ Ctx!Serving(c, s + 1)' /\ ctxDone' = ctxDone /\ ~ctxSleptOk /\ ctxSleptOk'
               /\ c \notin ctxQueued'
            \/ /\ ctxStage[c] = "rest" /\ Ctx!Active' = Ctx!Posts(c) /\ ctxNfp' = s /\ ctxSleptOk' = ctxSleptOk
               /\ ctxDone' = [d \in DOMAIN ctxDone |-> ctxDone[d] + (IF d \in Ctx!Completes(c) THEN 1 ELSE 0)]
               /\ Ctx!Posts(c) = {"tl"} => Ctx!Serving("tl", s + 1)'
               /\ Ctx!Posts(c) = {"tl_block"} => Ctx!Serving("tl_block", s + 1)'
<1>0. /\ ctxMode' = ctxMode /\ Ctx!Expected' = Ctx!Expected
      /\ Ctx!Active = {c} /\ ctxQueued \subseteq {c}
      /\ \A d \in Ctx!Callbacks : d # c => ctxStage[d] \in {"idle", "ret"}
      /\ ctxNfp \in 0..8 /\ DOMAIN ctxStage = Ctx!Callbacks
  <2>1. ctxMode' = ctxMode
    BY DEF Ctx!CallbackStep, Ctx!TakeRead, Ctx!TakeStore, Ctx!Finish, Ctx!Return
  <2>2. Ctx!Expected' = Ctx!Expected
    BY <2>1 DEF Ctx!Expected
  <2>3. Ctx!Active = {c}
    BY DEF Ctx!Serving
  <2> QED BY <2>1, <2>2, <2>3 DEF Ctx!Active, Ctx!TypeOK, Ctx!Slots
<1>1. CASE e # c
  <2>1. e \notin ctxQueued /\ ctxStage[e] \in {"idle", "ret"}
    BY <1>0, <1>1
  <2>2. Ctx!Return(e)
    BY <2>1 DEF Ctx!CallbackStep, Ctx!TakeRead, Ctx!TakeStore, Ctx!Finish
  <2>3. /\ ctxQueued' = ctxQueued /\ ctxNfp' = ctxNfp /\ ctxFp' = ctxFp /\ ctxDone' = ctxDone /\
             ctxSleptOk' = ctxSleptOk
        /\ ctxVictim' = ctxVictim /\ ctxLocal' = ctxLocal /\ ctxLabel' = ctxLabel
        /\ ctxStage' = [ctxStage EXCEPT ![e] = "idle"]
    BY <2>2 DEF Ctx!Return, Ctx!table, Ctx!flags
  <2>4. ctxStage'[c] = ctxStage[c]
    BY <1>0, <1>1, <2>3
  <2>5. Ctx!Active' = Ctx!Active
    BY <1>0, <2>1, <2>3 DEF Ctx!Active
  <2>6. Ctx!Serving(c, s)'
    BY <1>0, <2>3, <2>4, <2>5 DEF Ctx!Serving
  <2> QED BY <1>0, <2>3, <2>6 DEF Ctx!SoFar
<1>2. CASE e = c /\ Ctx!TakeRead(c) /\ c \in ctxQueued /\ ctxStage[c] = "idle"
  <2>1. /\ ctxQueued' = {} /\ ctxNfp' = ctxNfp /\ ctxFp' = ctxFp /\ ctxDone' = ctxDone /\ ctxVictim' = ctxVictim
        /\ ctxStage' = [ctxStage EXCEPT ![c] = "take"] /\ ctxLocal' = [ctxLocal EXCEPT ![c] = ctxNfp]
        /\ ctxLabel' = [ctxLabel EXCEPT ![c] = Ctx!What(c)] /\ ctxSleptOk' = ctxSleptOk
    BY <1>0, <1>2 DEF Ctx!TakeRead, Ctx!table
  <2>2. ctxNfp = s - 1
    BY <1>2 DEF Ctx!Serving
  <2>3. ctxStage'[c] = "take" /\ ctxLocal'[c] = s - 1 /\ ctxLabel'[c] = Ctx!Expected[s]
    BY <1>0, <1>2, <2>1, <2>2 DEF Ctx!TypeOK
  <2>4. Ctx!Active' = {c}
    BY <1>0, <2>1, <2>3 DEF Ctx!Active
  <2>5. Ctx!Serving(c, s)'
    BY <1>0, <2>1, <2>2, <2>3, <2>4 DEF Ctx!Serving
  <2> QED BY <1>0, <2>1, <2>5 DEF Ctx!SoFar
<1>3. CASE e = c /\ Ctx!TakeRead(c) /\ ctxStage[c] = "asleep"
  <2>1. /\ ctxQueued = {} /\ ctxNfp' = ctxNfp /\ ctxFp' = ctxFp /\ ctxDone' = ctxDone /\ ctxVictim' = ctxVictim
        /\ ctxStage' = [ctxStage EXCEPT ![c] = "take"] /\ ctxLocal' = [ctxLocal EXCEPT ![c] = ctxNfp]
        /\ ctxLabel' = [ctxLabel EXCEPT ![c] = Ctx!What(c)] /\ ctxQueued' = ctxQueued /\ ctxSleptOk'
    BY <1>0, <1>3 DEF Ctx!TakeRead, Ctx!table, Ctx!Serving
  <2>2. ctxNfp = s /\ c = "wk_sleep" /\ ~ctxSleptOk
    BY <1>3 DEF Ctx!Serving
  <2>3. ctxStage'[c] = "take" /\ ctxLocal'[c] = s /\ ctxLabel'[c] = Ctx!Expected[s + 1]
    <3>1. Ctx!What(c) = "awake"
      BY <1>3, <2>2 DEF Ctx!What
    <3> QED BY <1>0, <1>3, <2>1, <2>2, <3>1 DEF Ctx!TypeOK
  <2>4. Ctx!Active' = {c}
    BY <1>0, <2>1, <2>3 DEF Ctx!Active
  <2>5. Ctx!Serving(c, s + 1)'
    <3>1. (s + 1) - 1 = s
      OBVIOUS
    <3> QED BY <1>0, <2>1, <2>2, <2>3, <2>4, <3>1 DEF Ctx!Serving
  <2> QED BY <1>0, <2>1, <2>2, <2>5 DEF Ctx!SoFar
<1>4. CASE e = c /\ Ctx!TakeStore(c)
  <2>1. /\ c \notin ctxQueued /\ ctxStage[c] = "take" /\ ctxNfp = s - 1 /\ ctxLocal[c] = s - 1
        /\ ctxLabel[c] = Ctx!Expected[s]
    BY <1>4 DEF Ctx!TakeStore, Ctx!Serving
  <2>2. /\ ctxNfp' = s /\ ctxFp' = [ctxFp EXCEPT ![s] = Ctx!Expected[s]]
    <3>1. ctxLocal[c] < Ctx!Slots /\ ctxLocal[c] + 1 = s
      BY <2>1 DEF Ctx!Slots
    <3> QED BY <1>4, <2>1, <3>1 DEF Ctx!TakeStore
  <2>3. /\ ctxQueued' = ctxQueued /\ ctxDone' = ctxDone /\ ctxSleptOk' = ctxSleptOk
        /\ ctxStage' = [ctxStage EXCEPT ![c] = IF c = "wk_sleep" /\ ~ctxSleptOk THEN "asleep" ELSE "rest"]
        /\ ctxVictim' = IF c = "tl_block" /\ ctxVictim = "run" THEN "hit" ELSE ctxVictim
    BY <1>4 DEF Ctx!TakeStore
  <2>4. ctxStage'[c] = IF c = "wk_sleep" /\ ~ctxSleptOk THEN "asleep" ELSE "rest"
    BY <1>0, <2>3
  <2>5. Ctx!Active' = {c}
    BY <1>0, <2>3, <2>4 DEF Ctx!Active
  <2>6. Ctx!Serving(c, s)'
    BY <2>1, <2>2, <2>3, <2>4, <2>5 DEF Ctx!Serving
  <2>7. Ctx!SoFar'
    <3>1. \A i \in 1..s : ctxFp'[i] = Ctx!Expected[i]
      <4>1. ASSUME NEW i \in 1..s
            PROVE  ctxFp'[i] = Ctx!Expected[i]
        <5>1. i \in 1..8 /\ DOMAIN ctxFp = 1..8
          BY DEF Ctx!TypeOK, Ctx!Slots
        <5>2. CASE i = s
          BY <2>2, <5>1, <5>2
        <5>3. CASE i # s
          <6>1. i \in 1..ctxNfp /\ ctxFp'[i] = ctxFp[i]
            BY <2>1, <2>2, <5>1, <5>3
          <6> QED BY <6>1 DEF Ctx!SoFar
        <5> QED BY <5>2, <5>3
      <4> QED BY <4>1
    <3> QED BY <1>0, <2>2, <3>1 DEF Ctx!SoFar
  <2>8. ctxVictim' = ctxVictim \/ (c = "tl_block" /\ ctxVictim = "run" /\ ctxVictim' = "hit")
    BY <2>3
  <2>9. c = "tl_block" /\ ctxVictim = "run" => ctxVictim' = "hit"
    BY <2>3
  <2> QED BY <2>2, <2>3, <2>6, <2>7, <2>8, <2>9
<1>5. CASE e = c /\ Ctx!Finish(c)
  <2>1. c \notin ctxQueued /\ ctxStage[c] = "rest" /\ ctxNfp = s
    BY <1>5 DEF Ctx!Finish, Ctx!Serving
  <2>2. /\ ctxQueued' = Ctx!Posts(c) /\ ctxStage' = [ctxStage EXCEPT ![c] = "ret"] /\ ctxNfp' = ctxNfp /\
             ctxFp' = ctxFp
        /\ ctxSleptOk' = ctxSleptOk /\ ctxVictim' = ctxVictim
        /\ ctxDone' = [d \in DOMAIN ctxDone |-> ctxDone[d] + (IF d \in Ctx!Completes(c) THEN 1 ELSE 0)]
    BY <1>0, <1>5, <2>1 DEF Ctx!Finish, Ctx!table, Ctx!flags
  <2>3. \A d \in Ctx!Callbacks : ctxStage'[d] \in {"idle", "ret"}
    BY <1>0, <2>2
  <2>4. Ctx!Posts(c) \subseteq Ctx!Callbacks
    BY DEF Ctx!Posts, Ctx!Callbacks
  <2>5. Ctx!Active' = Ctx!Posts(c)
    BY <2>2, <2>3 DEF Ctx!Active
  <2>6. (s + 1) - 1 = s
    OBVIOUS
  <2>7. Ctx!Posts(c) = {"tl"} => Ctx!Serving("tl", s + 1)'
    <3>1. "tl" \in Ctx!Callbacks
      BY DEF Ctx!Callbacks
    <3> QED BY <2>1, <2>2, <2>3, <2>5, <2>6, <3>1 DEF Ctx!Serving
  <2>8. Ctx!Posts(c) = {"tl_block"} => Ctx!Serving("tl_block", s + 1)'
    <3>1. "tl_block" \in Ctx!Callbacks
      BY DEF Ctx!Callbacks
    <3> QED BY <2>1, <2>2, <2>3, <2>5, <2>6, <3>1 DEF Ctx!Serving
  <2>9. Ctx!SoFar'
    BY <1>0, <2>2 DEF Ctx!SoFar
  <2> QED BY <2>1, <2>2, <2>5, <2>7, <2>8, <2>9
<1>6. CASE e = c /\ Ctx!Return(c)
  <2>1. ctxStage[c] = "ret"
    BY <1>6 DEF Ctx!Return
  <2>2. c \in ctxQueued /\ ctxNfp = s - 1
    BY <2>1 DEF Ctx!Serving
  <2>3. /\ ctxQueued' = ctxQueued /\ ctxNfp' = ctxNfp /\ ctxFp' = ctxFp /\ ctxDone' = ctxDone /\
             ctxSleptOk' = ctxSleptOk
        /\ ctxVictim' = ctxVictim /\ ctxStage' = [ctxStage EXCEPT ![c] = "idle"]
    BY <1>6 DEF Ctx!Return, Ctx!table, Ctx!flags
  <2>4. ctxStage'[c] = "idle"
    BY <1>0, <2>3
  <2>5. Ctx!Active' = {c}
    BY <1>0, <2>2, <2>3, <2>4 DEF Ctx!Active
  <2>6. Ctx!Serving(c, s)'
    BY <2>2, <2>3, <2>4, <2>5 DEF Ctx!Serving
  <2> QED BY <1>0, <2>3, <2>6 DEF Ctx!SoFar
<1>7. e = c => \/ Ctx!TakeRead(c) /\ c \in ctxQueued /\ ctxStage[c] = "idle"
               \/ Ctx!TakeRead(c) /\ ctxStage[c] = "asleep"
               \/ Ctx!TakeStore(c) \/ Ctx!Finish(c) \/ Ctx!Return(c)
  <2>1. Ctx!TakeRead(c) => (c \in ctxQueued /\ ctxStage[c] = "idle") \/ ctxStage[c] = "asleep"
    BY DEF Ctx!TakeRead
  <2> QED BY <2>1 DEF Ctx!CallbackStep
<1> QED BY <1>1, <1>2, <1>3, <1>4, <1>5, <1>6, <1>7

\* insmod waits for what callback c completes after it entered slot s.
LEMMA CtxWaits ==
  ASSUME Ctx!TypeOK, NEW c \in Ctx!Callbacks, NEW s \in 1..8, NEW d, Ctx!Waits(c, s, d), Ctx!SoFar,
         c # "wk_sleep", Ctx!Posts(c) = {}, Ctx!Completes(c) = {d},
         Ctx!Expected[s] = IF c = "tl" THEN (IF ctxFromHardirq THEN "softirq1" ELSE "softirq3") ELSE c,
         NEW e \in Ctx!Callbacks, Ctx!CallbackStep(e)
  PROVE  /\ Ctx!SoFar' /\ Ctx!Waits(c, s, d)'
         /\ ctxVictim' = ctxVictim \/ (c = "tl_block" /\ ctxVictim = "run" /\ ctxVictim' = "hit")
         /\ ctxNfp' = ctxNfp \/ (ctxNfp' = s /\ (c = "tl_block" /\ ctxVictim = "run" => ctxVictim' = "hit"))
<1>1. CASE Ctx!Serving(c, s) /\ Ctx!NoneDone
  <2>1. c \in ctxQueued => Ctx!Expected[s] = Ctx!What(c)
    <3>1. c \in ctxQueued => ctxStage[c] # "asleep"
      BY <1>1 DEF Ctx!Serving
    <3> QED BY <3>1 DEF Ctx!What
  <2>2. ctxStage[c] # "asleep"
    BY <1>1 DEF Ctx!Serving
  <2>3. /\ Ctx!SoFar'
        /\ ctxVictim' = ctxVictim \/ (c = "tl_block" /\ ctxVictim = "run" /\ ctxVictim' = "hit")
        /\ ctxNfp' = ctxNfp \/ (ctxNfp' = s /\ (c = "tl_block" /\ ctxVictim = "run" => ctxVictim' = "hit"))
        /\ \/ Ctx!Serving(c, s)' /\ ctxDone' = ctxDone
           \/ /\ Ctx!Active' = Ctx!Posts(c) /\ ctxNfp' = s
              /\ ctxDone' = [x \in DOMAIN ctxDone |-> ctxDone[x] + (IF x \in Ctx!Completes(c) THEN 1 ELSE 0)]
    BY <1>1, <2>1, <2>2, CtxServe
  <2>4. CASE Ctx!Serving(c, s)' /\ ctxDone' = ctxDone
    BY <1>1, <2>3, <2>4 DEF Ctx!Waits, Ctx!NoneDone
  <2>5. CASE /\ Ctx!Active' = Ctx!Posts(c) /\ ctxNfp' = s
             /\ ctxDone' = [x \in DOMAIN ctxDone |-> ctxDone[x] + (IF x \in Ctx!Completes(c) THEN 1 ELSE 0)]
    <3>1. DOMAIN ctxDone' = DOMAIN ctxDone
      BY <2>5
    <3>2. \A x \in DOMAIN ctxDone : ctxDone'[x] = IF x \in {d} THEN 1 ELSE 0
      BY <1>1, <2>5 DEF Ctx!NoneDone
    <3>3. Ctx!OnlyDone({d})'
      BY <3>1, <3>2 DEF Ctx!OnlyDone
    <3> QED BY <2>3, <2>5, <3>3 DEF Ctx!Waits, Ctx!Idle
  <2> QED BY <2>3, <2>4, <2>5
<1>2. CASE Ctx!Idle(s) /\ Ctx!OnlyDone({d})
  <2>1. Ctx!Active' = {} /\ Ctx!SoFar' /\ ctxNfp' = ctxNfp /\ ctxDone' = ctxDone /\ ctxVictim' = ctxVictim
    BY <1>2, CtxKeep DEF Ctx!Idle
  <2> QED BY <1>2, <2>1 DEF Ctx!Waits, Ctx!Idle, Ctx!OnlyDone
<1> QED BY <1>1, <1>2 DEF Ctx!Waits

\* What no callback writes.
LEMMA CtxFrame ==
  ASSUME NEW e \in Ctx!Callbacks, Ctx!CallbackStep(e)
  PROVE  /\ ctxMode' = ctxMode /\ ctxPhase' = ctxPhase /\ ctxPc' = ctxPc /\ ctxLate' = ctxLate /\
              ctxTimely' = ctxTimely
         /\ ctxFromHardirq' = ctxFromHardirq /\ ctxGap' = ctxGap /\ Ctx!Expected' = Ctx!Expected
<1>1. /\ ctxMode' = ctxMode /\ ctxPhase' = ctxPhase /\ ctxPc' = ctxPc /\ ctxLate' = ctxLate /\
           ctxTimely' = ctxTimely
      /\ ctxFromHardirq' = ctxFromHardirq /\ ctxGap' = ctxGap
  BY DEF Ctx!CallbackStep, Ctx!TakeRead, Ctx!TakeStore, Ctx!Finish, Ctx!Return, Ctx!flags
<1> QED BY <1>1 DEF Ctx!Expected

\* The callbacks keep the order of run_mode0() ...
LEMMA CtxCallback0 ==
  ASSUME Ctx!TypeOK, ctxMode = 0, Ctx!Mode0, Ctx!SoFar, NEW e \in Ctx!Callbacks, Ctx!CallbackStep(e)
  PROVE  Ctx!Mode0' /\ Ctx!SoFar'
<1>0. ctxPc' = ctxPc /\ ctxFromHardirq' = ctxFromHardirq /\ (ctxFromHardirq <=> ctxPc <= 12) /\ ctxPc \in 1..20
  BY CtxFrame DEF Ctx!Mode0, Ctx!TypeOK
<1>1. CASE Ctx!Active = {}
  <2>1. Ctx!Active' = {} /\ Ctx!SoFar' /\ ctxNfp' = ctxNfp /\ ctxDone' = ctxDone
    BY <1>1, CtxKeep
  <2>2. \A s : Ctx!Idle(s)' <=> Ctx!Idle(s)
    BY <1>1, <2>1 DEF Ctx!Idle
  <2>3. (Ctx!NoneDone' <=> Ctx!NoneDone) /\ \A ds : Ctx!OnlyDone(ds)' <=> Ctx!OnlyDone(ds)
    BY <2>1 DEF Ctx!NoneDone, Ctx!OnlyDone
  <2>4. \A c, s : ~Ctx!Serving(c, s)
    BY <1>1 DEF Ctx!Serving
  <2>5. \A s : Ctx!Quiet(s) => Ctx!Quiet(s)'
    BY <2>2, <2>3 DEF Ctx!Quiet
  <2>6. \A c, s, d : Ctx!Waits(c, s, d) => Ctx!Waits(c, s, d)'
    BY <2>2, <2>3, <2>4 DEF Ctx!Waits
  <2>7. (ctxPc = 10 => \/ Ctx!Serving("ht", 4) /\ Ctx!NoneDone
                       \/ Ctx!Serving("tl", 5) /\ Ctx!OnlyDone({"ht"})
                       \/ Ctx!Idle(5) /\ Ctx!OnlyDone({"ht", "tl"}))'
    BY <1>0, <2>2, <2>3, <2>4 DEF Ctx!Mode0
  <2> QED BY <1>0, <2>1, <2>5, <2>6, <2>7 DEF Ctx!Mode0
<1>2. CASE ctxPc = 10 /\ Ctx!Active # {}
  <2>1. \/ Ctx!Serving("ht", 4) /\ Ctx!NoneDone
        \/ Ctx!Serving("tl", 5) /\ Ctx!OnlyDone({"ht"})
    BY <1>2 DEF Ctx!Mode0, Ctx!Idle
  <2>2. /\ "ht" \in Ctx!Callbacks /\ "tl" \in Ctx!Callbacks /\ Ctx!Posts("ht") = {"tl"} /\ Ctx!Posts("tl") = {}
        /\ Ctx!Completes("ht") = {"ht"} /\ Ctx!Completes("tl") = {"tl"}
    BY DEF Ctx!Callbacks, Ctx!Posts, Ctx!Completes
  <2>3. Ctx!SoFar' /\ ( \/ Ctx!Serving("ht", 4) /\ Ctx!NoneDone
                        \/ Ctx!Serving("tl", 5) /\ Ctx!OnlyDone({"ht"})
                        \/ Ctx!Idle(5) /\ Ctx!OnlyDone({"ht", "tl"}) )'
    <3>1. CASE Ctx!Serving("ht", 4) /\ Ctx!NoneDone
      <4>1. ctxStage["ht"] # "asleep" /\ Ctx!What("ht") = "ht" /\ Ctx!Expected[4] = "ht"
        <5>1. ctxStage["ht"] # "asleep"
          BY <3>1 DEF Ctx!Serving
        <5> QED BY <5>1, CtxLines DEF Ctx!What
      <4>2. /\ Ctx!SoFar'
            /\ \/ Ctx!Serving("ht", 4)' /\ ctxDone' = ctxDone
               \/ /\ Ctx!Serving("tl", 5)'
                  /\ ctxDone' = [x \in DOMAIN ctxDone |-> ctxDone[x] + (IF x \in {"ht"} THEN 1 ELSE 0)]
        <5>1. Ctx!Serving("tl", 4 + 1)' => Ctx!Serving("tl", 5)'
          BY DEF Ctx!Serving
        <5> QED BY <2>2, <3>1, <4>1, <5>1, CtxServe
      <4>3. CASE Ctx!Serving("ht", 4)' /\ ctxDone' = ctxDone
        BY <3>1, <4>2, <4>3 DEF Ctx!NoneDone
      <4>4. CASE /\ Ctx!Serving("tl", 5)'
                 /\ ctxDone' = [x \in DOMAIN ctxDone |-> ctxDone[x] + (IF x \in {"ht"} THEN 1 ELSE 0)]
        <5>1. Ctx!OnlyDone({"ht"})'
          BY <3>1, <4>4 DEF Ctx!OnlyDone, Ctx!NoneDone
        <5> QED BY <4>2, <4>4, <5>1
      <4> QED BY <4>2, <4>3, <4>4
    <3>2. CASE Ctx!Serving("tl", 5) /\ Ctx!OnlyDone({"ht"})
      <4>1. ctxStage["tl"] # "asleep" /\ Ctx!What("tl") = "softirq1" /\ Ctx!Expected[5] = "softirq1"
        <5>1. ctxStage["tl"] # "asleep"
          BY <3>2 DEF Ctx!Serving
        <5>2. ctxFromHardirq
          BY <1>0, <1>2
        <5> QED BY <5>1, <5>2, CtxLines DEF Ctx!What
      <4>2. /\ Ctx!SoFar'
            /\ \/ Ctx!Serving("tl", 5)' /\ ctxDone' = ctxDone
               \/ /\ Ctx!Active' = {} /\ ctxNfp' = 5
                  /\ ctxDone' = [x \in DOMAIN ctxDone |-> ctxDone[x] + (IF x \in {"tl"} THEN 1 ELSE 0)]
        BY <2>2, <3>2, <4>1, CtxServe
      <4>3. CASE Ctx!Serving("tl", 5)' /\ ctxDone' = ctxDone
        BY <3>2, <4>2, <4>3 DEF Ctx!OnlyDone
      <4>4. CASE /\ Ctx!Active' = {} /\ ctxNfp' = 5
                 /\ ctxDone' = [x \in DOMAIN ctxDone |-> ctxDone[x] + (IF x \in {"tl"} THEN 1 ELSE 0)]
        <5>1. Ctx!OnlyDone({"ht", "tl"})'
          BY <3>2, <4>4 DEF Ctx!OnlyDone
        <5> QED BY <4>2, <4>4, <5>1 DEF Ctx!Idle
      <4> QED BY <4>2, <4>3, <4>4
    <3> QED BY <2>1, <3>1, <3>2
  <2> QED BY <1>0, <1>2, <2>3 DEF Ctx!Mode0
<1>3. ASSUME NEW c \in Ctx!Callbacks, NEW s \in 1..8, NEW d, Ctx!Waits(c, s, d), c # "wk_sleep",
               Ctx!Posts(c) = {},
             Ctx!Completes(c) = {d},
             Ctx!Expected[s] = IF c = "tl" THEN (IF ctxFromHardirq THEN "softirq1" ELSE "softirq3") ELSE c
      PROVE  Ctx!Waits(c, s, d)' /\ Ctx!SoFar'
  BY <1>3, CtxWaits
<1>4. /\ {"iw", "tl", "tl2", "wk"} \subseteq Ctx!Callbacks
      /\ Ctx!Posts("iw") = {} /\ Ctx!Posts("tl") = {} /\ Ctx!Posts("tl2") = {} /\ Ctx!Posts("wk") = {}
      /\ Ctx!Completes("iw") = {"iw"} /\ Ctx!Completes("tl") = {"tl"} /\ Ctx!Completes("tl2") = {"bh"}
      /\ Ctx!Completes("wk") = {"wk"}
  BY DEF Ctx!Callbacks, Ctx!Posts, Ctx!Completes
<1>5. /\ Ctx!Expected[3] = "iw" /\ Ctx!Expected[5] = "softirq1" /\ Ctx!Expected[6] = "softirq3"
      /\ Ctx!Expected[7] = "tl2" /\ Ctx!Expected[8] = "wk"
  BY CtxLines
<1>6. CASE ctxPc = 5
  <2>1. Ctx!Waits("iw", 3, "iw")
    BY <1>6 DEF Ctx!Mode0
  <2>2. Ctx!Waits("iw", 3, "iw")' /\ Ctx!SoFar'
    BY <1>3, <1>4, <1>5, <2>1
  <2> QED BY <1>0, <1>6, <2>2 DEF Ctx!Mode0
<1>7. CASE ctxPc = 11
  <2>1. Ctx!Waits("tl", 5, "tl") /\ ctxFromHardirq
    BY <1>0, <1>7 DEF Ctx!Mode0
  <2>2. Ctx!Waits("tl", 5, "tl")' /\ Ctx!SoFar'
    BY <1>3, <1>4, <1>5, <2>1
  <2> QED BY <1>0, <1>7, <2>2 DEF Ctx!Mode0
<1>8. CASE ctxPc = 15
  <2>1. Ctx!Waits("tl", 6, "tl") /\ ~ctxFromHardirq
    BY <1>0, <1>8 DEF Ctx!Mode0
  <2>2. Ctx!Waits("tl", 6, "tl")' /\ Ctx!SoFar'
    BY <1>3, <1>4, <1>5, <2>1
  <2> QED BY <1>0, <1>8, <2>2 DEF Ctx!Mode0
<1>9. CASE ctxPc = 17
  <2>1. Ctx!Waits("tl2", 7, "bh")
    BY <1>9 DEF Ctx!Mode0
  <2>2. Ctx!Waits("tl2", 7, "bh")' /\ Ctx!SoFar'
    BY <1>3, <1>4, <1>5, <2>1
  <2> QED BY <1>0, <1>9, <2>2 DEF Ctx!Mode0
<1>10. CASE ctxPc = 19
  <2>1. Ctx!Waits("wk", 8, "wk")
    BY <1>10 DEF Ctx!Mode0
  <2>2. Ctx!Waits("wk", 8, "wk")' /\ Ctx!SoFar'
    BY <1>3, <1>4, <1>5, <2>1
  <2> QED BY <1>0, <1>10, <2>2 DEF Ctx!Mode0
<1>11. ctxPc \notin {5, 10, 11, 15, 17, 19} => Ctx!Active = {}
  <2>1. ctxPc \notin {5, 10, 11, 15, 17, 19} =>
             ctxPc \in {1, 2, 3, 4, 6, 7, 8, 9, 12, 13, 14, 16, 18, 20}
    BY <1>0
  <2> QED BY <2>1 DEF Ctx!Mode0, Ctx!Quiet, Ctx!Idle
<1> QED BY <1>1, <1>2, <1>6, <1>7, <1>8, <1>9, <1>10, <1>11

\* ... of run_mode1() ...
LEMMA CtxCallback1 ==
  ASSUME Ctx!TypeOK, ctxMode = 1, Ctx!Mode1, Ctx!SoFar, NEW e \in Ctx!Callbacks, Ctx!CallbackStep(e)
  PROVE  Ctx!Mode1' /\ Ctx!SoFar' /\ ctxVictim' = ctxVictim
<1>0. ctxPc' = ctxPc /\ ctxPc \in 1..5
  BY CtxFrame DEF Ctx!Mode1
<1>1. CASE ctxPc # 3
  <2>1. ctxPc \in {1, 2} \/ ctxPc \in {4, 5}
    BY <1>0, <1>1
  <2>2. Ctx!Active = {}
    BY <2>1 DEF Ctx!Mode1, Ctx!Quiet, Ctx!Idle
  <2>3. Ctx!Active' = {} /\ Ctx!SoFar' /\ ctxNfp' = ctxNfp /\ ctxDone' = ctxDone /\ ctxVictim' = ctxVictim
    BY <2>2, CtxKeep
  <2>4. \A s : Ctx!Quiet(s) => Ctx!Quiet(s)'
    BY <2>2, <2>3 DEF Ctx!Quiet, Ctx!Idle, Ctx!NoneDone
  <2> QED BY <1>0, <1>1, <2>3, <2>4 DEF Ctx!Mode1
<1>2. CASE ctxPc = 3
  <2>1. Ctx!Waits("tl_spin", 1, "tl")
    BY <1>2 DEF Ctx!Mode1
  <2>2. "tl_spin" \in Ctx!Callbacks /\ Ctx!Posts("tl_spin") = {} /\ Ctx!Completes("tl_spin") = {"tl"}
    BY DEF Ctx!Callbacks, Ctx!Posts, Ctx!Completes
  <2>3. Ctx!Expected[1] = "tl_spin"
    BY CtxLines
  <2>4. Ctx!Waits("tl_spin", 1, "tl")' /\ Ctx!SoFar' /\ ctxVictim' = ctxVictim
    BY <2>1, <2>2, <2>3, CtxWaits
  <2> QED BY <1>0, <1>2, <2>4 DEF Ctx!Mode1
<1> QED BY <1>1, <1>2

\* ... of run_mode2() ...
LEMMA CtxCallback2 ==
  ASSUME Ctx!TypeOK, ctxMode = 2, Ctx!Mode2, Ctx!SoFar, NEW e \in Ctx!Callbacks, Ctx!CallbackStep(e)
  PROVE  Ctx!Mode2' /\ Ctx!SoFar'
<1>0. ctxPc' = ctxPc /\ ctxGap' = ctxGap /\ ctxPc \in 1..8
  BY CtxFrame DEF Ctx!Mode2
<1>1. CASE Ctx!Active = {}
  <2>1. Ctx!Active' = {} /\ Ctx!SoFar' /\ ctxNfp' = ctxNfp /\ ctxDone' = ctxDone /\ ctxVictim' = ctxVictim
    BY <1>1, CtxKeep
  <2>2. \A s : Ctx!Idle(s)' <=> Ctx!Idle(s)
    BY <1>1, <2>1 DEF Ctx!Idle
  <2>3. (Ctx!NoneDone' <=> Ctx!NoneDone) /\ \A ds : Ctx!OnlyDone(ds)' <=> Ctx!OnlyDone(ds)
    BY <2>1 DEF Ctx!NoneDone, Ctx!OnlyDone
  <2>4. \A c, s : ~Ctx!Serving(c, s)
    BY <1>1 DEF Ctx!Serving
  <2>5. \A s : Ctx!Quiet(s) => Ctx!Quiet(s)'
    BY <2>2, <2>3 DEF Ctx!Quiet
  <2>6. \A c, s, d : Ctx!Waits(c, s, d) => Ctx!Waits(c, s, d)'
    BY <2>2, <2>3, <2>4 DEF Ctx!Waits
  <2> QED BY <1>0, <2>1, <2>4, <2>5, <2>6 DEF Ctx!Mode2
<1>2. CASE Ctx!Active # {}
  <2>0. ctxPc = 5 /\ ctxVictim \in {"run", "hit"} /\ (ctxNfp = 2 => ctxVictim = "hit" \/ ctxGap)
    <3>1. ctxPc = 5
      BY <1>0, <1>2 DEF Ctx!Mode2, Ctx!Quiet, Ctx!Idle
    <3> QED BY <3>1 DEF Ctx!Mode2
  <2>1. CASE Ctx!Serving("ht_raise", 1) /\ Ctx!NoneDone
    <3>1. "ht_raise" \in Ctx!Callbacks /\ Ctx!Posts("ht_raise") = {"tl_block"} /\ Ctx!Completes("ht_raise") = {}
      BY DEF Ctx!Callbacks, Ctx!Posts, Ctx!Completes
    <3>2. ctxStage["ht_raise"] # "asleep" /\ Ctx!What("ht_raise") = "ht_raise" /\ Ctx!Expected[1] = "ht_raise"
      <4>1. ctxStage["ht_raise"] # "asleep"
        BY <2>1 DEF Ctx!Serving
      <4> QED BY <4>1, CtxLines DEF Ctx!What
    <3>3. Ctx!Serving("tl_block", 1 + 1)' => Ctx!Serving("tl_block", 2)'
      BY DEF Ctx!Serving
    <3>4. /\ Ctx!SoFar' /\ ctxVictim' = ctxVictim /\ ctxNfp' \in {ctxNfp, 1}
          /\ \/ Ctx!Serving("ht_raise", 1)' /\ ctxDone' = ctxDone
             \/ /\ Ctx!Serving("tl_block", 2)'
                /\ ctxDone' = [x \in DOMAIN ctxDone |-> ctxDone[x] + (IF x \in {} THEN 1 ELSE 0)]
      BY <2>1, <3>1, <3>2, <3>3, CtxServe
    <3>5. ctxNfp' # 2
      <4>1. ctxNfp \in {0, 1}
        BY <2>1 DEF Ctx!Serving
      <4> QED BY <3>4, <4>1
    <3>6. Ctx!NoneDone'
      BY <2>1, <3>4 DEF Ctx!NoneDone
    <3>7. ctxPc' = 5 /\ ((Ctx!Serving("ht_raise", 1) /\ Ctx!NoneDone) \/ Ctx!Waits("tl_block", 2, "tl"))'
      BY <1>0, <2>0, <3>4, <3>6 DEF Ctx!Waits
    <3> QED BY <2>0, <3>4, <3>5, <3>7 DEF Ctx!Mode2
  <2>2. CASE Ctx!Waits("tl_block", 2, "tl")
    <3>1. "tl_block" \in Ctx!Callbacks /\ Ctx!Posts("tl_block") = {} /\ Ctx!Completes("tl_block") = {"tl"}
      BY DEF Ctx!Callbacks, Ctx!Posts, Ctx!Completes
    <3>2. Ctx!Expected[2] = "tl_block"
      BY CtxLines
    <3>3. /\ Ctx!SoFar' /\ Ctx!Waits("tl_block", 2, "tl")'
          /\ ctxVictim' = ctxVictim \/ (ctxVictim = "run" /\ ctxVictim' = "hit")
          /\ ctxNfp' = ctxNfp \/ (ctxNfp' = 2 /\ (ctxVictim = "run" => ctxVictim' = "hit"))
      BY <2>2, <3>1, <3>2, CtxWaits
    <3>4. ctxVictim' \in {"run", "hit"} /\ (ctxNfp' = 2 => ctxVictim' = "hit" \/ ctxGap')
      BY <1>0, <2>0, <3>3
    <3>5. ctxPc' = 5
      BY <1>0, <2>0
    <3> QED BY <3>3, <3>4, <3>5 DEF Ctx!Mode2
  <2> QED BY <2>0, <2>1, <2>2 DEF Ctx!Mode2
<1> QED BY <1>1, <1>2

\* ... and of run_mode3().
LEMMA CtxCallback3 ==
  ASSUME Ctx!TypeOK, ctxMode = 3, Ctx!Mode3, Ctx!SoFar, NEW e \in Ctx!Callbacks, Ctx!CallbackStep(e)
  PROVE  Ctx!Mode3' /\ Ctx!SoFar' /\ ctxVictim' = ctxVictim
<1>0. ctxPc' = ctxPc /\ ctxPc \in 1..5
  BY CtxFrame DEF Ctx!Mode3
<1>1. CASE Ctx!Active = {}
  <2>1. Ctx!Active' = {} /\ Ctx!SoFar' /\ ctxNfp' = ctxNfp /\ ctxDone' = ctxDone /\ ctxVictim' = ctxVictim /\
          ctxSleptOk' = ctxSleptOk
    BY <1>1, CtxKeep
  <2>2. \A s : Ctx!Idle(s)' <=> Ctx!Idle(s)
    BY <1>1, <2>1 DEF Ctx!Idle
  <2>3. (Ctx!NoneDone' <=> Ctx!NoneDone) /\ \A ds : Ctx!OnlyDone(ds)' <=> Ctx!OnlyDone(ds)
    BY <2>1 DEF Ctx!NoneDone, Ctx!OnlyDone
  <2>4. \A c, s : ~Ctx!Serving(c, s)
    BY <1>1 DEF Ctx!Serving
  <2>5. \A s : Ctx!Quiet(s) => Ctx!Quiet(s)'
    BY <2>2, <2>3 DEF Ctx!Quiet
  <2> QED BY <1>0, <2>1, <2>2, <2>3, <2>4, <2>5 DEF Ctx!Mode3
<1>2. CASE Ctx!Active # {}
  <2>0. ctxPc = 4
    BY <1>0, <1>2 DEF Ctx!Mode3, Ctx!Quiet, Ctx!Idle
  <2>1. "wk_sleep" \in Ctx!Callbacks /\ Ctx!Posts("wk_sleep") = {} /\ Ctx!Completes("wk_sleep") = {"wk"}
    BY DEF Ctx!Callbacks, Ctx!Posts, Ctx!Completes
  <2>2. Ctx!Expected[2] = "wk_sleep" /\ Ctx!Expected[3] = "awake"
    BY CtxLines
  <2>3. CASE Ctx!Serving("wk_sleep", 2) /\ ~ctxSleptOk /\ Ctx!NoneDone
    <3>1. "wk_sleep" \in ctxQueued => Ctx!What("wk_sleep") = "wk_sleep"
      BY <2>3 DEF Ctx!Serving, Ctx!What
    <3>2. ctxStage["wk_sleep"] # "rest"
      BY <2>3 DEF Ctx!Serving
    <3>3. Ctx!Serving("wk_sleep", 2 + 1)' => Ctx!Serving("wk_sleep", 3)'
      BY DEF Ctx!Serving
    <3>4. 2 + 1 \in 1..8 /\ Ctx!Expected[2 + 1] = "awake"
      BY <2>2
    <3>5. /\ Ctx!SoFar' /\ ctxVictim' = ctxVictim /\ ctxDone' = ctxDone
          /\ \/ Ctx!Serving("wk_sleep", 2)' /\ ctxSleptOk' = ctxSleptOk
             \/ Ctx!Serving("wk_sleep", 3)' /\ ctxSleptOk' /\ "wk_sleep" \notin ctxQueued'
      BY <2>1, <2>2, <2>3, <3>1, <3>2, <3>3, <3>4, CtxServe
    <3>6. Ctx!NoneDone'
      BY <2>3, <3>5 DEF Ctx!NoneDone
    <3>7. (Ctx!Serving("wk_sleep", 2) /\ ~ctxSleptOk /\ Ctx!NoneDone)'
          \/ (Ctx!Serving("wk_sleep", 3) /\ ctxSleptOk /\ "wk_sleep" \notin ctxQueued /\ Ctx!NoneDone)'
      BY <2>3, <3>5, <3>6
    <3> QED BY <1>0, <2>0, <3>5, <3>7 DEF Ctx!Mode3
  <2>4. CASE Ctx!Serving("wk_sleep", 3) /\ ctxSleptOk /\ "wk_sleep" \notin ctxQueued /\ Ctx!NoneDone
    <3>1. ctxStage["wk_sleep"] # "asleep"
      BY <2>4 DEF Ctx!Serving
    <3>2. /\ Ctx!SoFar' /\ ctxVictim' = ctxVictim
          /\ \/ Ctx!Serving("wk_sleep", 3)' /\ ctxDone' = ctxDone /\ ctxSleptOk' = ctxSleptOk /\
                  ctxQueued' \subseteq ctxQueued
             \/ /\ Ctx!Active' = {} /\ ctxNfp' = 3
                /\ ctxDone' = [x \in DOMAIN ctxDone |-> ctxDone[x] + (IF x \in {"wk"} THEN 1 ELSE 0)]
      <4>1. /\ Ctx!SoFar'
            /\ ctxVictim' = ctxVictim \/ ("wk_sleep" = "tl_block" /\ ctxVictim = "run" /\ ctxVictim' = "hit")
            /\ \/ Ctx!Serving("wk_sleep", 3)' /\ ctxDone' = ctxDone /\ ctxSleptOk' = ctxSleptOk /\
                    ctxQueued' \subseteq ctxQueued
               \/ ~ctxSleptOk
               \/ /\ Ctx!Active' = Ctx!Posts("wk_sleep") /\ ctxNfp' = 3
                  /\ ctxDone' = [x \in DOMAIN ctxDone |-> ctxDone[x] + (IF x \in Ctx!Completes("wk_sleep") THEN 1 ELSE 0)]
        <5>1. "wk_sleep" \in ctxQueued => Ctx!Expected[3] = Ctx!What("wk_sleep")
          BY <2>4
        <5>2. ctxStage["wk_sleep"] = "asleep" => 3 + 1 \in 1..8 /\ Ctx!Expected[3 + 1] = "awake"
          BY <3>1
        <5>3. 3 \in 1..8 /\ Ctx!Serving("wk_sleep", 3)
          BY <2>4
        <5> QED BY <2>1, <5>1, <5>2, <5>3, CtxServe
      <4> QED BY <2>1, <2>4, <4>1
    <3>3. CASE Ctx!Serving("wk_sleep", 3)' /\ ctxDone' = ctxDone /\ ctxSleptOk' = ctxSleptOk /\
                 ctxQueued' \subseteq ctxQueued
      <4>1. (Ctx!Serving("wk_sleep", 3) /\ ctxSleptOk /\ "wk_sleep" \notin ctxQueued /\ Ctx!NoneDone)'
        BY <2>4, <3>3 DEF Ctx!NoneDone
      <4> QED BY <1>0, <2>0, <3>2, <4>1 DEF Ctx!Mode3
    <3>4. CASE /\ Ctx!Active' = {} /\ ctxNfp' = 3
               /\ ctxDone' = [x \in DOMAIN ctxDone |-> ctxDone[x] + (IF x \in {"wk"} THEN 1 ELSE 0)]
      <4>1. Ctx!OnlyDone({"wk"})'
        BY <2>4, <3>4 DEF Ctx!OnlyDone, Ctx!NoneDone
      <4>2. Ctx!Idle(3)'
        BY <3>4 DEF Ctx!Idle
      <4> QED BY <1>0, <2>0, <3>2, <4>1, <4>2 DEF Ctx!Mode3
    <3> QED BY <3>2, <3>3, <3>4
  <2> QED BY <1>2, <2>0, <2>3, <2>4 DEF Ctx!Mode3, Ctx!Idle
<1> QED BY <1>1, <1>2

\* What each kind of step of insmod's script does.
LEMMA CtxOps ==
  ASSUME Ctx!InitStep
  PROVE  /\ ctxPhase = "init" /\ ctxMode' = ctxMode /\ ctxTimely' = ctxTimely /\
              Ctx!Expected' = Ctx!Expected /\ Ctx!Script' = Ctx!Script
         /\ \/ (Ctx!Take /\ Ctx!At("take")) \/ (Ctx!Post /\ Ctx!At("post")) \/ (Ctx!WaitFor /\ Ctx!At("wait"))
            \/ Ctx!SetUp /\ (Ctx!At("init") \/ Ctx!At("reinit") \/ Ctx!At("process") \/ Ctx!At("spawn"))
            \/ (Ctx!SpawnFails /\ Ctx!At("spawn")) \/ (Ctx!Report /\ Ctx!At("end"))
            \/ Ctx!Settle /\ (Ctx!At("last") \/ Ctx!At("settle") \/ Ctx!At("stop"))
<1>1. /\ ctxPhase = "init" /\ ctxMode' = ctxMode /\ ctxTimely' = ctxTimely
  BY DEF Ctx!InitStep, Ctx!Take, Ctx!Post, Ctx!SetUp, Ctx!SpawnFails, Ctx!WaitFor, Ctx!Settle, Ctx!Report,
       Ctx!At
<1>2. Ctx!Expected' = Ctx!Expected /\ Ctx!Script' = Ctx!Script
  BY <1>1 DEF Ctx!Expected, Ctx!Script
<1>3. \/ (Ctx!Take /\ Ctx!At("take")) \/ (Ctx!Post /\ Ctx!At("post")) \/ (Ctx!WaitFor /\ Ctx!At("wait"))
      \/ Ctx!SetUp /\ (Ctx!At("init") \/ Ctx!At("reinit") \/ Ctx!At("process") \/ Ctx!At("spawn"))
      \/ (Ctx!SpawnFails /\ Ctx!At("spawn")) \/ (Ctx!Report /\ Ctx!At("end"))
      \/ Ctx!Settle /\ (Ctx!At("last") \/ Ctx!At("settle") \/ Ctx!At("stop"))
  <2>1. (Ctx!Take => Ctx!At("take")) /\ (Ctx!Post => Ctx!At("post")) /\ (Ctx!WaitFor => Ctx!At("wait"))
    BY DEF Ctx!Take, Ctx!Post, Ctx!WaitFor
  <2>2. Ctx!SetUp => Ctx!At("init") \/ Ctx!At("reinit") \/ Ctx!At("process") \/ Ctx!At("spawn")
    BY DEF Ctx!SetUp
  <2>3. (Ctx!SpawnFails => Ctx!At("spawn")) /\ (Ctx!Report => Ctx!At("end"))
    BY DEF Ctx!SpawnFails, Ctx!Report
  <2>4. Ctx!Settle => Ctx!At("last") \/ Ctx!At("settle") \/ Ctx!At("stop")
    BY DEF Ctx!Settle
  <2>5. Ctx!Take \/ Ctx!Post \/ Ctx!SetUp \/ Ctx!SpawnFails \/ Ctx!WaitFor \/ Ctx!Settle \/ Ctx!Report
    BY DEF Ctx!InitStep
  <2> QED BY <2>1, <2>2, <2>3, <2>4, <2>5
<1> QED BY <1>1, <1>2, <1>3

\* take() by insmod itself.
LEMMA CtxTakeOp ==
  ASSUME Ctx!TypeOK, Ctx!Take, NEW n \in 0..7, Ctx!Quiet(n), Ctx!SoFar, Ctx!Arg = Ctx!Expected[n + 1]
  PROVE  /\ Ctx!Quiet(n + 1)' /\ Ctx!SoFar' /\ ctxPc' = ctxPc + 1 /\ ctxPhase' = ctxPhase
         /\ ctxFromHardirq' = ctxFromHardirq /\ ctxSleptOk' = ctxSleptOk /\ ctxVictim' = ctxVictim
<1>1. /\ ctxPc' = ctxPc + 1 /\ ctxPhase' = ctxPhase /\ ctxMode' = ctxMode /\ ctxNfp' = n + 1
      /\ ctxFp' = [ctxFp EXCEPT ![n + 1] = Ctx!Expected[n + 1]] /\ ctxQueued' = ctxQueued /\
           ctxStage' = ctxStage
      /\ ctxDone' = ctxDone /\ ctxFromHardirq' = ctxFromHardirq /\ ctxSleptOk' = ctxSleptOk /\
           ctxVictim' = ctxVictim
  BY DEF Ctx!Take, Ctx!Quiet, Ctx!Idle, Ctx!cbs, Ctx!flags
<1>2. Ctx!Active' = {}
  BY <1>1 DEF Ctx!Active, Ctx!Quiet, Ctx!Idle
<1>3. Ctx!Quiet(n + 1)'
  BY <1>1, <1>2 DEF Ctx!Quiet, Ctx!Idle, Ctx!NoneDone
<1>4. Ctx!Expected' = Ctx!Expected
  BY <1>1 DEF Ctx!Expected
<1>5. ASSUME NEW i \in 1..(n + 1)
      PROVE  ctxFp'[i] = Ctx!Expected[i]
  <2>1. i \in 1..8 /\ DOMAIN ctxFp = 1..8
    BY DEF Ctx!TypeOK, Ctx!Slots
  <2>2. CASE i = n + 1
    BY <1>1, <2>1, <2>2
  <2>3. CASE i # n + 1
    <3>1. i \in 1..ctxNfp /\ ctxFp'[i] = ctxFp[i]
      BY <1>1, <2>1, <2>3 DEF Ctx!Quiet, Ctx!Idle
    <3> QED BY <3>1 DEF Ctx!SoFar
  <2> QED BY <2>2, <2>3
<1>6. Ctx!SoFar'
  BY <1>1, <1>4, <1>5 DEF Ctx!SoFar
<1> QED BY <1>1, <1>3, <1>6

\* The posted callback is on its way to the next slot.
LEMMA CtxPostOp ==
  ASSUME Ctx!TypeOK, Ctx!Post, NEW n \in 0..7, Ctx!Quiet(n), Ctx!SoFar, NEW c \in Ctx!Callbacks, Ctx!Arg = c
  PROVE  /\ Ctx!Serving(c, n + 1)' /\ Ctx!NoneDone' /\ Ctx!SoFar' /\ ctxPc' = ctxPc + 1 /\ ctxPhase' = ctxPhase
         /\ ctxFromHardirq' = ctxFromHardirq /\ ctxSleptOk' = ctxSleptOk /\ ctxVictim' = ctxVictim /\
              ctxGap' = ctxGap
<1>1. /\ ctxPc' = ctxPc + 1 /\ ctxPhase' = ctxPhase /\ ctxMode' = ctxMode /\ ctxNfp' = n
      /\ ctxFp' = ctxFp /\ ctxQueued' = ctxQueued \cup {c} /\ ctxStage' = ctxStage
      /\ ctxDone' = ctxDone /\ ctxFromHardirq' = ctxFromHardirq /\ ctxSleptOk' = ctxSleptOk /\
           ctxVictim' = ctxVictim
      /\ ctxNfp = n /\ ctxGap' = ctxGap
  BY DEF Ctx!Post, Ctx!Quiet, Ctx!Idle, Ctx!table, Ctx!flags
<1>2. ctxQueued = {} /\ \A d \in Ctx!Callbacks : ctxStage[d] \in {"idle", "ret"}
  BY DEF Ctx!Active, Ctx!Quiet, Ctx!Idle
<1>3. Ctx!Active' = {c} /\ c \in ctxQueued'
  BY <1>1, <1>2 DEF Ctx!Active
<1>4. (n + 1) - 1 = n
  OBVIOUS
<1>5. Ctx!Serving(c, n + 1)'
  BY <1>1, <1>2, <1>3, <1>4 DEF Ctx!Serving
<1>6. Ctx!Expected' = Ctx!Expected
  BY <1>1 DEF Ctx!Expected
<1>7. Ctx!NoneDone' /\ Ctx!SoFar'
  BY <1>1, <1>6 DEF Ctx!NoneDone, Ctx!Quiet, Ctx!SoFar
<1> QED BY <1>1, <1>5, <1>7

\* init_irq_work() and its like, reinit_completion(), kthread_run().
LEMMA CtxSetUpOp ==
  ASSUME Ctx!TypeOK, Ctx!SetUp, NEW n \in 0..8, Ctx!Quiet(n), Ctx!SoFar
  PROVE  /\ Ctx!Quiet(n)' /\ Ctx!SoFar' /\ ctxPc' = ctxPc + 1 /\ ctxPhase' = ctxPhase /\
              ctxSleptOk' = ctxSleptOk /\ ctxGap' = ctxGap
         /\ ctxFromHardirq' = IF Ctx!At("process") THEN FALSE ELSE ctxFromHardirq
         /\ ctxVictim' = IF Ctx!At("spawn") THEN "run" ELSE ctxVictim
<1>1. /\ ctxPc' = ctxPc + 1 /\ ctxPhase' = ctxPhase /\ ctxMode' = ctxMode /\ ctxNfp' = ctxNfp
      /\ ctxFp' = ctxFp /\ ctxQueued' = ctxQueued /\ ctxStage' = ctxStage /\ ctxSleptOk' = ctxSleptOk /\
           ctxGap' = ctxGap
  BY DEF Ctx!SetUp, Ctx!table, Ctx!cbs
<1>2. ctxDone' = ctxDone \/ ctxDone' = [ctxDone EXCEPT ![Ctx!Arg] = 0]
  BY DEF Ctx!SetUp
<1>3. Ctx!NoneDone'
  <2>1. \A d \in DOMAIN ctxDone : ctxDone[d] = 0
    BY DEF Ctx!Quiet, Ctx!NoneDone
  <2> QED BY <1>2, <2>1 DEF Ctx!NoneDone
<1>4. Ctx!Quiet(n)'
  BY <1>1, <1>3 DEF Ctx!Quiet, Ctx!Idle, Ctx!Active
<1>5. Ctx!Expected' = Ctx!Expected
  BY <1>1 DEF Ctx!Expected
<1>6. Ctx!SoFar'
  BY <1>1, <1>5 DEF Ctx!SoFar
<1>7. /\ Ctx!At("process") => ~Ctx!At("init") /\ ~Ctx!At("reinit") /\ ~Ctx!At("spawn")
      /\ Ctx!At("spawn") => ~Ctx!At("init") /\ ~Ctx!At("reinit") /\ ~Ctx!At("process")
  BY DEF Ctx!At
<1>8. ctxFromHardirq' = IF Ctx!At("process") THEN FALSE ELSE ctxFromHardirq
  BY <1>7 DEF Ctx!SetUp
<1>9. ctxVictim' = IF Ctx!At("spawn") THEN "run" ELSE ctxVictim
  BY <1>7 DEF Ctx!SetUp
<1> QED BY <1>1, <1>4, <1>6, <1>8, <1>9

\* A wait in time: its complete() has happened, and is used up.
LEMMA CtxWaitOp ==
  ASSUME Ctx!TypeOK, ctxTimely, Ctx!WaitFor, Ctx!SoFar
  PROVE  /\ ctxDone[Ctx!Arg] > 0 /\ ctxDone' = [ctxDone EXCEPT ![Ctx!Arg] = @ - 1]
         /\ Ctx!SoFar' /\ ctxPc' = ctxPc + 1 /\ ctxPhase' = ctxPhase /\ Ctx!Active' = Ctx!Active /\
              ctxNfp' = ctxNfp
         /\ \A c, s : Ctx!Serving(c, s) => Ctx!Serving(c, s)'
         /\ ctxFromHardirq' = ctxFromHardirq /\ ctxSleptOk' = ctxSleptOk /\ ctxVictim' = ctxVictim /\
              ctxGap' = ctxGap
<1>1. /\ ctxPc' = ctxPc + 1 /\ ctxPhase' = ctxPhase /\ ctxMode' = ctxMode /\ ctxNfp' = ctxNfp
      /\ ctxFp' = ctxFp /\ ctxQueued' = ctxQueued /\ ctxStage' = ctxStage /\ ctxLocal' = ctxLocal /\
           ctxLabel' = ctxLabel
      /\ ctxFromHardirq' = ctxFromHardirq /\ ctxSleptOk' = ctxSleptOk /\ ctxVictim' = ctxVictim /\
           ctxGap' = ctxGap
  BY DEF Ctx!WaitFor, Ctx!table, Ctx!cbs, Ctx!flags
<1>2. ctxLate = 0
  BY DEF Ctx!TypeOK
<1>3. ctxDone[Ctx!Arg] > 0 /\ ctxDone' = [ctxDone EXCEPT ![Ctx!Arg] = @ - 1]
  BY <1>2 DEF Ctx!WaitFor
<1>4. Ctx!Expected' = Ctx!Expected
  BY <1>1 DEF Ctx!Expected
<1>5. Ctx!Active' = Ctx!Active
  BY <1>1 DEF Ctx!Active
<1>6. \A c, s : Ctx!Serving(c, s) => Ctx!Serving(c, s)'
  BY <1>1, <1>4, <1>5 DEF Ctx!Serving
<1>7. Ctx!SoFar'
  BY <1>1, <1>4 DEF Ctx!SoFar
<1> QED BY <1>1, <1>3, <1>5, <1>6, <1>7

\* ... which ends a wait for one callback.
LEMMA CtxWaited ==
  ASSUME Ctx!TypeOK, ctxTimely, Ctx!WaitFor, Ctx!SoFar, NEW c, NEW s, NEW d \in {"iw", "ht", "tl", "wk", "bh"},
         Ctx!Waits(c, s, d), Ctx!Arg = d
  PROVE  Ctx!Quiet(s)'
<1>1. /\ ctxDone[Ctx!Arg] > 0 /\ ctxDone' = [ctxDone EXCEPT ![Ctx!Arg] = @ - 1] /\ Ctx!Active' = Ctx!Active /\
           ctxNfp' = ctxNfp
  BY CtxWaitOp
<1>2. DOMAIN ctxDone = {"iw", "ht", "tl", "wk", "bh"}
  BY DEF Ctx!TypeOK
<1>3. Ctx!Idle(s) /\ Ctx!OnlyDone({d})
  BY <1>1, <1>2 DEF Ctx!Waits, Ctx!NoneDone
<1>4. Ctx!NoneDone'
  BY <1>1, <1>2, <1>3 DEF Ctx!NoneDone, Ctx!OnlyDone
<1> QED BY <1>1, <1>3, <1>4 DEF Ctx!Quiet, Ctx!Idle

\* msleep(20), kthread_stop(), and reading the last line.
LEMMA CtxSettleOp ==
  ASSUME Ctx!TypeOK, ctxTimely, Ctx!Settle, NEW n \in 0..8, Ctx!Quiet(n), Ctx!SoFar
  PROVE  /\ Ctx!Quiet(n)' /\ Ctx!SoFar' /\ ctxPc' = ctxPc + 1 /\ ctxPhase' = ctxPhase /\
              ctxSleptOk' = ctxSleptOk /\ ctxGap' = ctxGap
         /\ ~Ctx!At("stop") => ctxVictim' = ctxVictim
         /\ Ctx!At("settle") => ctxVictim # "hit"
<1>1. /\ ctxPc' = ctxPc + 1 /\ ctxPhase' = ctxPhase /\ ctxMode' = ctxMode /\ ctxNfp' = ctxNfp /\
           ctxDone' = ctxDone
      /\ ctxFp' = ctxFp /\ ctxQueued' = ctxQueued /\ ctxStage' = ctxStage /\ ctxSleptOk' = ctxSleptOk /\
           ctxGap' = ctxGap
  BY DEF Ctx!Settle, Ctx!table, Ctx!cbs
<1>2. Ctx!Quiet(n)'
  BY <1>1 DEF Ctx!Quiet, Ctx!Idle, Ctx!Active, Ctx!NoneDone
<1>3. Ctx!Expected' = Ctx!Expected
  BY <1>1 DEF Ctx!Expected
<1>4. Ctx!SoFar'
  BY <1>1, <1>3 DEF Ctx!SoFar
<1>5. ~Ctx!At("stop") => ctxVictim' = ctxVictim
  BY DEF Ctx!Settle
<1>6. Ctx!At("settle") => ~Ctx!At("last") /\ ~Ctx!At("stop")
  BY DEF Ctx!At
<1>7. Ctx!At("settle") => ctxVictim # "hit"
  <2>1. ctxLate = 0
    BY DEF Ctx!TypeOK
  <2> QED BY <1>6, <2>1 DEF Ctx!Settle
<1> QED BY <1>1, <1>2, <1>4, <1>5, <1>7

\* insmod keeps the order of run_mode0() ...
LEMMA CtxInit0 ==
  ASSUME Ctx!TypeOK, ctxTimely, ctxMode = 0, Ctx!Mode0, Ctx!SoFar, Ctx!InitStep
  PROVE  /\ ctxPhase' = "init" => Ctx!Mode0' /\ Ctx!SoFar' /\ ctxVictim' = ctxVictim
         /\ ctxPhase' # "init" => ctxPhase' = "loaded" /\ Ctx!Active' = {}
<1>0. ctxPhase = "init" /\ ctxPc \in 1..20
  BY CtxOps DEF Ctx!TypeOK
<1>1. ctxPc \in {1, 2} \/ ctxPc \in {3, 6, 7, 8, 12, 13} \/ ctxPc \in {4, 9, 14, 16, 18}
      \/ ctxPc \in {5, 10, 11, 15, 17, 19} \/ ctxPc = 20
  BY <1>0
<1>2. /\ ctxPc \in {1, 2} => Ctx!Take
      /\ ctxPc \in {3, 6, 7, 8, 12, 13} => Ctx!SetUp
      /\ ctxPc \in {4, 9, 14, 16, 18} => Ctx!Post
      /\ ctxPc \in {5, 10, 11, 15, 17, 19} => Ctx!WaitFor
      /\ ctxPc = 20 => Ctx!Report
  BY <1>0, CtxOps, CtxScript0
<1>3. /\ (ctxPc = 1 => Ctx!Arg = "insmod") /\ (ctxPc = 2 => Ctx!Arg = "bh")
      /\ (ctxPc = 4 => Ctx!Arg = "iw") /\ (ctxPc = 9 => Ctx!Arg = "ht") /\ (ctxPc = 14 => Ctx!Arg = "tl")
      /\ (ctxPc = 16 => Ctx!Arg = "tl2") /\ (ctxPc = 18 => Ctx!Arg = "wk")
      /\ (ctxPc = 5 => Ctx!Arg = "iw") /\ (ctxPc = 10 => Ctx!Arg = "ht") /\ (ctxPc = 11 => Ctx!Arg = "tl")
      /\ (ctxPc = 15 => Ctx!Arg = "tl") /\ (ctxPc = 17 => Ctx!Arg = "bh") /\ (ctxPc = 19 => Ctx!Arg = "wk")
  BY <1>0, CtxScript0
<1>11. CASE ctxPc = 1
  <2>1. Ctx!Take /\ Ctx!Quiet(0) /\ Ctx!Arg = Ctx!Expected[1]
    BY <1>2, <1>3, <1>11, CtxLines DEF Ctx!Mode0
  <2>2. /\ Ctx!Quiet(0 + 1)' /\ Ctx!SoFar' /\ ctxPc' = ctxPc + 1 /\ ctxPhase' = ctxPhase
        /\ ctxFromHardirq' = ctxFromHardirq /\ ctxVictim' = ctxVictim
    BY <2>1, CtxTakeOp
  <2>3. ctxPc' = 2 /\ Ctx!Quiet(1)'
    BY <1>11, <2>2 DEF Ctx!Quiet, Ctx!Idle
  <2> QED BY <1>0, <1>11, <2>2, <2>3 DEF Ctx!Mode0
<1>12. CASE ctxPc = 2
  <2>1. Ctx!Take /\ Ctx!Quiet(1) /\ Ctx!Arg = Ctx!Expected[2]
    BY <1>2, <1>3, <1>12, CtxLines DEF Ctx!Mode0
  <2>2. /\ Ctx!Quiet(1 + 1)' /\ Ctx!SoFar' /\ ctxPc' = ctxPc + 1 /\ ctxPhase' = ctxPhase
        /\ ctxFromHardirq' = ctxFromHardirq /\ ctxVictim' = ctxVictim
    BY <2>1, CtxTakeOp
  <2>3. ctxPc' = 3 /\ Ctx!Quiet(2)'
    BY <1>12, <2>2 DEF Ctx!Quiet, Ctx!Idle
  <2> QED BY <1>0, <1>12, <2>2, <2>3 DEF Ctx!Mode0
<1>13. CASE ctxPc = 3
  <2>1. Ctx!SetUp /\ Ctx!Quiet(2) /\ ~Ctx!At("process") /\ ~Ctx!At("spawn")
    BY <1>0, <1>2, <1>13, CtxScript0 DEF Ctx!Mode0
  <2>2. /\ Ctx!Quiet(2)' /\ Ctx!SoFar' /\ ctxPc' = ctxPc + 1 /\ ctxPhase' = ctxPhase
        /\ ctxFromHardirq' = ctxFromHardirq /\ ctxVictim' = ctxVictim
    BY <2>1, CtxSetUpOp
  <2>3. ctxPc' = 4
    BY <1>13, <2>2
  <2> QED BY <1>0, <1>13, <2>2, <2>3 DEF Ctx!Mode0
<1>14. CASE ctxPc = 4
  <2>1. Ctx!Post /\ Ctx!Quiet(2) /\ Ctx!Arg = "iw" /\ "iw" \in Ctx!Callbacks
    BY <1>2, <1>3, <1>14 DEF Ctx!Mode0, Ctx!Callbacks
  <2>2. /\ Ctx!Serving("iw", 2 + 1)' /\ Ctx!NoneDone' /\ Ctx!SoFar' /\ ctxPc' = ctxPc + 1 /\
             ctxPhase' = ctxPhase
        /\ ctxFromHardirq' = ctxFromHardirq /\ ctxVictim' = ctxVictim
    BY <2>1, CtxPostOp
  <2>3. ctxPc' = 5 /\ Ctx!Serving("iw", 3)'
    BY <1>14, <2>2 DEF Ctx!Serving
  <2>4. Ctx!Waits("iw", 3, "iw")'
    BY <2>2, <2>3 DEF Ctx!Waits
  <2> QED BY <1>0, <1>14, <2>2, <2>3, <2>4 DEF Ctx!Mode0
<1>15. CASE ctxPc = 5
  <2>1. Ctx!WaitFor /\ Ctx!Waits("iw", 3, "iw") /\ Ctx!Arg = "iw"
    BY <1>2, <1>3, <1>15 DEF Ctx!Mode0
  <2>2. /\ Ctx!SoFar' /\ ctxPc' = ctxPc + 1 /\ ctxPhase' = ctxPhase /\ ctxFromHardirq' = ctxFromHardirq /\
             ctxVictim' = ctxVictim
    BY <2>1, CtxWaitOp
  <2>3. ctxPc' = 6 /\ Ctx!Quiet(3)'
    BY <1>15, <2>1, <2>2, CtxWaited
  <2> QED BY <1>0, <1>15, <2>2, <2>3 DEF Ctx!Mode0
<1>16. CASE ctxPc = 6
  <2>1. Ctx!SetUp /\ Ctx!Quiet(3) /\ ~Ctx!At("process") /\ ~Ctx!At("spawn")
    BY <1>0, <1>2, <1>16, CtxScript0 DEF Ctx!Mode0
  <2>2. /\ Ctx!Quiet(3)' /\ Ctx!SoFar' /\ ctxPc' = ctxPc + 1 /\ ctxPhase' = ctxPhase
        /\ ctxFromHardirq' = ctxFromHardirq /\ ctxVictim' = ctxVictim
    BY <2>1, CtxSetUpOp
  <2>3. ctxPc' = 7
    BY <1>16, <2>2
  <2> QED BY <1>0, <1>16, <2>2, <2>3 DEF Ctx!Mode0
<1>17. CASE ctxPc = 7
  <2>1. Ctx!SetUp /\ Ctx!Quiet(3) /\ ~Ctx!At("process") /\ ~Ctx!At("spawn")
    BY <1>0, <1>2, <1>17, CtxScript0 DEF Ctx!Mode0
  <2>2. /\ Ctx!Quiet(3)' /\ Ctx!SoFar' /\ ctxPc' = ctxPc + 1 /\ ctxPhase' = ctxPhase
        /\ ctxFromHardirq' = ctxFromHardirq /\ ctxVictim' = ctxVictim
    BY <2>1, CtxSetUpOp
  <2>3. ctxPc' = 8
    BY <1>17, <2>2
  <2> QED BY <1>0, <1>17, <2>2, <2>3 DEF Ctx!Mode0
<1>18. CASE ctxPc = 8
  <2>1. Ctx!SetUp /\ Ctx!Quiet(3) /\ ~Ctx!At("process") /\ ~Ctx!At("spawn")
    BY <1>0, <1>2, <1>18, CtxScript0 DEF Ctx!Mode0
  <2>2. /\ Ctx!Quiet(3)' /\ Ctx!SoFar' /\ ctxPc' = ctxPc + 1 /\ ctxPhase' = ctxPhase
        /\ ctxFromHardirq' = ctxFromHardirq /\ ctxVictim' = ctxVictim
    BY <2>1, CtxSetUpOp
  <2>3. ctxPc' = 9
    BY <1>18, <2>2
  <2> QED BY <1>0, <1>18, <2>2, <2>3 DEF Ctx!Mode0
<1>19. CASE ctxPc = 9
  <2>1. Ctx!Post /\ Ctx!Quiet(3) /\ Ctx!Arg = "ht" /\ "ht" \in Ctx!Callbacks
    BY <1>2, <1>3, <1>19 DEF Ctx!Mode0, Ctx!Callbacks
  <2>2. /\ Ctx!Serving("ht", 3 + 1)' /\ Ctx!NoneDone' /\ Ctx!SoFar' /\ ctxPc' = ctxPc + 1 /\
             ctxPhase' = ctxPhase
        /\ ctxFromHardirq' = ctxFromHardirq /\ ctxVictim' = ctxVictim
    BY <2>1, CtxPostOp
  <2>3. ctxPc' = 10 /\ Ctx!Serving("ht", 4)'
    BY <1>19, <2>2 DEF Ctx!Serving
  <2> QED BY <1>0, <1>19, <2>2, <2>3 DEF Ctx!Mode0
<1>20. CASE ctxPc = 10
  <2>1. Ctx!WaitFor /\ Ctx!Arg = "ht"
    BY <1>2, <1>3, <1>20
  <2>2. /\ Ctx!SoFar' /\ ctxPc' = ctxPc + 1 /\ ctxPhase' = ctxPhase /\ ctxFromHardirq' = ctxFromHardirq /\
             ctxVictim' = ctxVictim
        /\ ctxDone["ht"] > 0 /\ ctxDone' = [ctxDone EXCEPT !["ht"] = @ - 1]
        /\ Ctx!Active' = Ctx!Active /\ ctxNfp' = ctxNfp /\ \A c, s : Ctx!Serving(c, s) => Ctx!Serving(c, s)'
    BY <2>1, CtxWaitOp
  <2>3. DOMAIN ctxDone = {"iw", "ht", "tl", "wk", "bh"}
    BY DEF Ctx!TypeOK
  <2>4. \/ Ctx!Serving("tl", 5) /\ Ctx!OnlyDone({"ht"})
        \/ Ctx!Idle(5) /\ Ctx!OnlyDone({"ht", "tl"})
    BY <1>20, <2>2, <2>3 DEF Ctx!Mode0, Ctx!NoneDone
  <2>5. Ctx!Waits("tl", 5, "tl")'
    <3>1. CASE Ctx!Serving("tl", 5) /\ Ctx!OnlyDone({"ht"})
      <4>1. Ctx!NoneDone'
        BY <2>2, <2>3, <3>1 DEF Ctx!NoneDone, Ctx!OnlyDone
      <4> QED BY <2>2, <3>1, <4>1 DEF Ctx!Waits
    <3>2. CASE Ctx!Idle(5) /\ Ctx!OnlyDone({"ht", "tl"})
      <4>1. Ctx!OnlyDone({"tl"})'
        BY <2>2, <2>3, <3>2 DEF Ctx!OnlyDone
      <4> QED BY <2>2, <3>2, <4>1 DEF Ctx!Waits, Ctx!Idle
    <3> QED BY <2>4, <3>1, <3>2
  <2>6. ctxPc' = 11
    BY <1>20, <2>2
  <2> QED BY <1>0, <1>20, <2>2, <2>5, <2>6 DEF Ctx!Mode0
<1>21. CASE ctxPc = 11
  <2>1. Ctx!WaitFor /\ Ctx!Waits("tl", 5, "tl") /\ Ctx!Arg = "tl"
    BY <1>2, <1>3, <1>21 DEF Ctx!Mode0
  <2>2. /\ Ctx!SoFar' /\ ctxPc' = ctxPc + 1 /\ ctxPhase' = ctxPhase /\ ctxFromHardirq' = ctxFromHardirq /\
             ctxVictim' = ctxVictim
    BY <2>1, CtxWaitOp
  <2>3. ctxPc' = 12 /\ Ctx!Quiet(5)'
    BY <1>21, <2>1, <2>2, CtxWaited
  <2> QED BY <1>0, <1>21, <2>2, <2>3 DEF Ctx!Mode0
<1>22. CASE ctxPc = 12
  <2>1. Ctx!SetUp /\ Ctx!Quiet(5) /\ Ctx!At("process") /\ ~Ctx!At("spawn")
    BY <1>0, <1>2, <1>22, CtxScript0 DEF Ctx!Mode0
  <2>2. /\ Ctx!Quiet(5)' /\ Ctx!SoFar' /\ ctxPc' = ctxPc + 1 /\ ctxPhase' = ctxPhase
        /\ ctxFromHardirq' = FALSE /\ ctxVictim' = ctxVictim
    BY <2>1, CtxSetUpOp
  <2>3. ctxPc' = 13
    BY <1>22, <2>2
  <2> QED BY <1>0, <1>22, <2>2, <2>3 DEF Ctx!Mode0
<1>23. CASE ctxPc = 13
  <2>1. Ctx!SetUp /\ Ctx!Quiet(5) /\ ~Ctx!At("process") /\ ~Ctx!At("spawn")
    BY <1>0, <1>2, <1>23, CtxScript0 DEF Ctx!Mode0
  <2>2. /\ Ctx!Quiet(5)' /\ Ctx!SoFar' /\ ctxPc' = ctxPc + 1 /\ ctxPhase' = ctxPhase
        /\ ctxFromHardirq' = ctxFromHardirq /\ ctxVictim' = ctxVictim
    BY <2>1, CtxSetUpOp
  <2>3. ctxPc' = 14
    BY <1>23, <2>2
  <2> QED BY <1>0, <1>23, <2>2, <2>3 DEF Ctx!Mode0
<1>24. CASE ctxPc = 14
  <2>1. Ctx!Post /\ Ctx!Quiet(5) /\ Ctx!Arg = "tl" /\ "tl" \in Ctx!Callbacks
    BY <1>2, <1>3, <1>24 DEF Ctx!Mode0, Ctx!Callbacks
  <2>2. /\ Ctx!Serving("tl", 5 + 1)' /\ Ctx!NoneDone' /\ Ctx!SoFar' /\ ctxPc' = ctxPc + 1 /\
             ctxPhase' = ctxPhase
        /\ ctxFromHardirq' = ctxFromHardirq /\ ctxVictim' = ctxVictim
    BY <2>1, CtxPostOp
  <2>3. ctxPc' = 15 /\ Ctx!Serving("tl", 6)'
    BY <1>24, <2>2 DEF Ctx!Serving
  <2>4. Ctx!Waits("tl", 6, "tl")'
    BY <2>2, <2>3 DEF Ctx!Waits
  <2> QED BY <1>0, <1>24, <2>2, <2>3, <2>4 DEF Ctx!Mode0
<1>25. CASE ctxPc = 15
  <2>1. Ctx!WaitFor /\ Ctx!Waits("tl", 6, "tl") /\ Ctx!Arg = "tl"
    BY <1>2, <1>3, <1>25 DEF Ctx!Mode0
  <2>2. /\ Ctx!SoFar' /\ ctxPc' = ctxPc + 1 /\ ctxPhase' = ctxPhase /\ ctxFromHardirq' = ctxFromHardirq /\
             ctxVictim' = ctxVictim
    BY <2>1, CtxWaitOp
  <2>3. ctxPc' = 16 /\ Ctx!Quiet(6)'
    BY <1>25, <2>1, <2>2, CtxWaited
  <2> QED BY <1>0, <1>25, <2>2, <2>3 DEF Ctx!Mode0
<1>26. CASE ctxPc = 16
  <2>1. Ctx!Post /\ Ctx!Quiet(6) /\ Ctx!Arg = "tl2" /\ "tl2" \in Ctx!Callbacks
    BY <1>2, <1>3, <1>26 DEF Ctx!Mode0, Ctx!Callbacks
  <2>2. /\ Ctx!Serving("tl2", 6 + 1)' /\ Ctx!NoneDone' /\ Ctx!SoFar' /\ ctxPc' = ctxPc + 1 /\
             ctxPhase' = ctxPhase
        /\ ctxFromHardirq' = ctxFromHardirq /\ ctxVictim' = ctxVictim
    BY <2>1, CtxPostOp
  <2>3. ctxPc' = 17 /\ Ctx!Serving("tl2", 7)'
    BY <1>26, <2>2 DEF Ctx!Serving
  <2>4. Ctx!Waits("tl2", 7, "bh")'
    BY <2>2, <2>3 DEF Ctx!Waits
  <2> QED BY <1>0, <1>26, <2>2, <2>3, <2>4 DEF Ctx!Mode0
<1>27. CASE ctxPc = 17
  <2>1. Ctx!WaitFor /\ Ctx!Waits("tl2", 7, "bh") /\ Ctx!Arg = "bh"
    BY <1>2, <1>3, <1>27 DEF Ctx!Mode0
  <2>2. /\ Ctx!SoFar' /\ ctxPc' = ctxPc + 1 /\ ctxPhase' = ctxPhase /\ ctxFromHardirq' = ctxFromHardirq /\
             ctxVictim' = ctxVictim
    BY <2>1, CtxWaitOp
  <2>3. ctxPc' = 18 /\ Ctx!Quiet(7)'
    BY <1>27, <2>1, <2>2, CtxWaited
  <2> QED BY <1>0, <1>27, <2>2, <2>3 DEF Ctx!Mode0
<1>28. CASE ctxPc = 18
  <2>1. Ctx!Post /\ Ctx!Quiet(7) /\ Ctx!Arg = "wk" /\ "wk" \in Ctx!Callbacks
    BY <1>2, <1>3, <1>28 DEF Ctx!Mode0, Ctx!Callbacks
  <2>2. /\ Ctx!Serving("wk", 7 + 1)' /\ Ctx!NoneDone' /\ Ctx!SoFar' /\ ctxPc' = ctxPc + 1 /\
             ctxPhase' = ctxPhase
        /\ ctxFromHardirq' = ctxFromHardirq /\ ctxVictim' = ctxVictim
    BY <2>1, CtxPostOp
  <2>3. ctxPc' = 19 /\ Ctx!Serving("wk", 8)'
    BY <1>28, <2>2 DEF Ctx!Serving
  <2>4. Ctx!Waits("wk", 8, "wk")'
    BY <2>2, <2>3 DEF Ctx!Waits
  <2> QED BY <1>0, <1>28, <2>2, <2>3, <2>4 DEF Ctx!Mode0
<1>29. CASE ctxPc = 19
  <2>1. Ctx!WaitFor /\ Ctx!Waits("wk", 8, "wk") /\ Ctx!Arg = "wk"
    BY <1>2, <1>3, <1>29 DEF Ctx!Mode0
  <2>2. /\ Ctx!SoFar' /\ ctxPc' = ctxPc + 1 /\ ctxPhase' = ctxPhase /\ ctxFromHardirq' = ctxFromHardirq /\
             ctxVictim' = ctxVictim
    BY <2>1, CtxWaitOp
  <2>3. ctxPc' = 20 /\ Ctx!Quiet(8)'
    BY <1>29, <2>1, <2>2, CtxWaited
  <2> QED BY <1>0, <1>29, <2>2, <2>3 DEF Ctx!Mode0
<1>30. CASE ctxPc = 20
  <2>1. Ctx!Report /\ Ctx!Active = {}
    BY <1>2, <1>30 DEF Ctx!Mode0, Ctx!Quiet, Ctx!Idle
  <2> QED BY <2>1 DEF Ctx!Report, Ctx!cbs, Ctx!Active
<1> QED BY <1>0, <1>11, <1>12, <1>13, <1>14, <1>15, <1>16, <1>17, <1>18, <1>19, <1>20, <1>21, <1>22, <1>23,
             <1>24, <1>25, <1>26, <1>27, <1>28, <1>29, <1>30

\* ... of run_mode1() ...
LEMMA CtxInit1 ==
  ASSUME Ctx!TypeOK, ctxTimely, ctxMode = 1, Ctx!Mode1, Ctx!SoFar, Ctx!InitStep
  PROVE  /\ ctxPhase' = "init" => Ctx!Mode1' /\ Ctx!SoFar' /\ ctxVictim' = ctxVictim
         /\ ctxPhase' # "init" => ctxPhase' = "loaded" /\ Ctx!Active' = {}
<1>0. ctxPhase = "init" /\ ctxPc \in 1..5
  BY CtxOps DEF Ctx!Mode1
<1>1. ctxPc = 1 \/ ctxPc = 2 \/ ctxPc = 3 \/ ctxPc = 4 \/ ctxPc = 5
  BY <1>0
<1>2. /\ (ctxPc = 1 => Ctx!SetUp /\ ~Ctx!At("spawn")) /\ (ctxPc = 2 => Ctx!Post /\ Ctx!Arg = "tl_spin")
      /\ (ctxPc = 3 => Ctx!WaitFor /\ Ctx!Arg = "tl") /\ (ctxPc = 4 => Ctx!Settle /\ ~Ctx!At("stop")) /\
           (ctxPc = 5 => Ctx!Report)
  BY <1>0, CtxOps, CtxScript1
<1>3. CASE ctxPc = 1
  <2>1. Ctx!Quiet(0)' /\ Ctx!SoFar' /\ ctxPc' = ctxPc + 1 /\ ctxPhase' = ctxPhase /\ ctxVictim' = ctxVictim
    BY <1>2, <1>3, CtxSetUpOp DEF Ctx!Mode1
  <2>2. ctxPc' = 2
    BY <1>3, <2>1
  <2> QED BY <1>0, <2>1, <2>2 DEF Ctx!Mode1
<1>4. CASE ctxPc = 2
  <2>1. Ctx!Quiet(0) /\ Ctx!Post /\ Ctx!Arg = "tl_spin" /\ "tl_spin" \in Ctx!Callbacks
    BY <1>2, <1>4 DEF Ctx!Mode1, Ctx!Callbacks
  <2>2. /\ Ctx!Serving("tl_spin", 0 + 1)' /\ Ctx!NoneDone' /\ Ctx!SoFar' /\ ctxPc' = ctxPc + 1 /\
             ctxPhase' = ctxPhase
        /\ ctxVictim' = ctxVictim
    BY <2>1, CtxPostOp
  <2>3. ctxPc' = 3 /\ Ctx!Serving("tl_spin", 1)'
    BY <1>4, <2>2 DEF Ctx!Serving
  <2>4. Ctx!Waits("tl_spin", 1, "tl")'
    BY <2>2, <2>3 DEF Ctx!Waits
  <2> QED BY <1>0, <2>2, <2>3, <2>4 DEF Ctx!Mode1
<1>5. CASE ctxPc = 3
  <2>1. Ctx!WaitFor /\ Ctx!Waits("tl_spin", 1, "tl") /\ Ctx!Arg = "tl"
    BY <1>2, <1>5 DEF Ctx!Mode1
  <2>2. Ctx!SoFar' /\ ctxPc' = ctxPc + 1 /\ ctxPhase' = ctxPhase /\ ctxVictim' = ctxVictim
    BY <2>1, CtxWaitOp
  <2>3. ctxPc' = 4 /\ Ctx!Quiet(1)'
    BY <1>5, <2>1, <2>2, CtxWaited
  <2> QED BY <1>0, <2>2, <2>3 DEF Ctx!Mode1
<1>6. CASE ctxPc = 4
  <2>1. Ctx!Quiet(1)' /\ Ctx!SoFar' /\ ctxPc' = ctxPc + 1 /\ ctxPhase' = ctxPhase /\ ctxVictim' = ctxVictim
    BY <1>2, <1>6, CtxSettleOp DEF Ctx!Mode1
  <2>2. ctxPc' = 5
    BY <1>6, <2>1
  <2> QED BY <1>0, <2>1, <2>2 DEF Ctx!Mode1
<1>7. CASE ctxPc = 5
  <2>1. Ctx!Report /\ Ctx!Active = {}
    BY <1>2, <1>7 DEF Ctx!Mode1, Ctx!Quiet, Ctx!Idle
  <2> QED BY <2>1 DEF Ctx!Report, Ctx!cbs, Ctx!Active
<1> QED BY <1>1, <1>3, <1>4, <1>5, <1>6, <1>7

\* ... of run_mode2() ...
LEMMA CtxInit2 ==
  ASSUME Ctx!TypeOK, ctxTimely, ctxMode = 2, Ctx!Mode2, Ctx!SoFar, Ctx!InitStep
  PROVE  /\ ctxPhase' = "init" => Ctx!Mode2' /\ Ctx!SoFar'
         /\ ctxPhase' # "init" => ctxPhase' = "loaded" /\ Ctx!Active' = {}
<1>0. ctxPhase = "init" /\ ctxPc \in 1..8
  BY CtxOps DEF Ctx!Mode2
<1>1. ctxPc = 1 \/ ctxPc \in {2, 3} \/ ctxPc = 4 \/ ctxPc = 5 \/ ctxPc = 6 \/ ctxPc = 7 \/ ctxPc = 8
  BY <1>0
<1>2. /\ (ctxPc = 1 => Ctx!SpawnFails \/ (Ctx!SetUp /\ Ctx!At("spawn"))) /\
           (ctxPc \in {2, 3} => Ctx!SetUp /\ ~Ctx!At("spawn"))
      /\ (ctxPc = 4 => Ctx!Post /\ Ctx!Arg = "ht_raise") /\ (ctxPc = 5 => Ctx!WaitFor /\ Ctx!Arg = "tl")
      /\ (ctxPc = 6 => Ctx!Settle /\ Ctx!At("settle") /\ ~Ctx!At("stop")) /\ (ctxPc = 7 => Ctx!Settle) /\
           (ctxPc = 8 => Ctx!Report)
  BY <1>0, CtxOps, CtxScript2
<1>3. CASE ctxPc = 1
  <2>1. Ctx!Quiet(0)
    BY <1>3 DEF Ctx!Mode2
  <2>2. CASE Ctx!SpawnFails
    BY <2>1, <2>2 DEF Ctx!SpawnFails, Ctx!cbs, Ctx!Active, Ctx!Quiet, Ctx!Idle
  <2>3. CASE Ctx!SetUp /\ Ctx!At("spawn")
    <3>1. Ctx!Quiet(0)' /\ Ctx!SoFar' /\ ctxPc' = ctxPc + 1 /\ ctxPhase' = ctxPhase /\ ctxVictim' = "run"
      BY <2>1, <2>3, CtxSetUpOp
    <3>2. ctxPc' = 2
      BY <1>3, <3>1
    <3>3. ctxNfp' = 0
      BY <3>1 DEF Ctx!Quiet, Ctx!Idle
    <3> QED BY <1>0, <3>1, <3>2, <3>3 DEF Ctx!Mode2
  <2> QED BY <1>2, <1>3, <2>2, <2>3
<1>4. CASE ctxPc \in {2, 3}
  <2>1. Ctx!Quiet(0) /\ Ctx!SetUp /\ ~Ctx!At("spawn")
    BY <1>2, <1>4 DEF Ctx!Mode2
  <2>2. Ctx!Quiet(0)' /\ Ctx!SoFar' /\ ctxPc' = ctxPc + 1 /\ ctxPhase' = ctxPhase /\ ctxVictim' = ctxVictim
    BY <2>1, CtxSetUpOp
  <2>3. ctxPc' \in {3, 4} /\ ctxNfp' = 0
    BY <1>4, <2>2 DEF Ctx!Quiet, Ctx!Idle
  <2>4. ctxVictim \in {"run", "hit"}
    BY <1>4 DEF Ctx!Mode2
  <2> QED BY <1>0, <2>2, <2>3, <2>4 DEF Ctx!Mode2
<1>5. CASE ctxPc = 4
  <2>1. Ctx!Quiet(0) /\ Ctx!Post /\ Ctx!Arg = "ht_raise" /\ "ht_raise" \in Ctx!Callbacks /\
          ctxVictim \in {"run", "hit"}
    BY <1>2, <1>5 DEF Ctx!Mode2, Ctx!Callbacks
  <2>2. /\ Ctx!Serving("ht_raise", 0 + 1)' /\ Ctx!NoneDone' /\ Ctx!SoFar' /\ ctxPc' = ctxPc + 1 /\
             ctxPhase' = ctxPhase
        /\ ctxVictim' = ctxVictim
    BY <2>1, CtxPostOp
  <2>3. ctxPc' = 5 /\ Ctx!Serving("ht_raise", 1)'
    BY <1>5, <2>2 DEF Ctx!Serving
  <2>4. ctxNfp' # 2
    BY <2>3 DEF Ctx!Serving
  <2> QED BY <1>0, <2>1, <2>2, <2>3, <2>4 DEF Ctx!Mode2
<1>6. CASE ctxPc = 5
  <2>0. Ctx!WaitFor /\ Ctx!Arg = "tl" /\ ctxVictim \in {"run", "hit"} /\
          (ctxNfp = 2 => ctxVictim = "hit" \/ ctxGap)
    BY <1>2, <1>6 DEF Ctx!Mode2
  <2>1. /\ Ctx!SoFar' /\ ctxPc' = ctxPc + 1 /\ ctxPhase' = ctxPhase /\ ctxVictim' = ctxVictim /\
             ctxDone["tl"] > 0 /\ ctxNfp' = ctxNfp
        /\ ctxGap' = ctxGap
    BY <2>0, CtxWaitOp
  <2>2. Ctx!Waits("tl_block", 2, "tl")
    <3>1. ~Ctx!NoneDone
      BY <2>1 DEF Ctx!NoneDone, Ctx!TypeOK
    <3> QED BY <1>6, <3>1 DEF Ctx!Mode2
  <2>3. ctxPc' = 6 /\ Ctx!Quiet(2)'
    BY <1>6, <2>0, <2>1, <2>2, CtxWaited
  <2> QED BY <1>0, <2>0, <2>1, <2>3 DEF Ctx!Mode2
<1>7. CASE ctxPc = 6
  <2>1. Ctx!Settle /\ Ctx!At("settle") /\ ~Ctx!At("stop") /\ Ctx!Quiet(2) /\ ctxVictim \in {"run", "hit"}
    BY <1>2, <1>7 DEF Ctx!Mode2
  <2>2. Ctx!Quiet(2)' /\ Ctx!SoFar' /\ ctxPc' = ctxPc + 1 /\ ctxPhase' = ctxPhase /\ ctxVictim' = ctxVictim /\
          ctxGap' = ctxGap /\ ctxVictim # "hit"
    BY <2>1, CtxSettleOp
  <2>3. ctxGap
    BY <1>7, <2>1, <2>2 DEF Ctx!Mode2, Ctx!Quiet, Ctx!Idle
  <2>4. ctxPc' = 7
    BY <1>7, <2>2
  <2> QED BY <1>0, <2>1, <2>2, <2>3, <2>4 DEF Ctx!Mode2
<1>8. CASE ctxPc = 7
  <2>1. Ctx!Settle /\ Ctx!Quiet(2) /\ ctxGap
    BY <1>2, <1>8 DEF Ctx!Mode2
  <2>2. Ctx!Quiet(2)' /\ Ctx!SoFar' /\ ctxPc' = ctxPc + 1 /\ ctxPhase' = ctxPhase /\ ctxGap' = ctxGap
    BY <2>1, CtxSettleOp
  <2>3. ctxPc' = 8
    BY <1>8, <2>2
  <2> QED BY <1>0, <2>1, <2>2, <2>3 DEF Ctx!Mode2
<1>9. CASE ctxPc = 8
  <2>1. Ctx!Report /\ Ctx!Active = {}
    BY <1>2, <1>9 DEF Ctx!Mode2, Ctx!Quiet, Ctx!Idle
  <2> QED BY <2>1 DEF Ctx!Report, Ctx!cbs, Ctx!Active
<1> QED BY <1>1, <1>3, <1>4, <1>5, <1>6, <1>7, <1>8, <1>9

\* ... and of run_mode3().
LEMMA CtxInit3 ==
  ASSUME Ctx!TypeOK, ctxTimely, ctxMode = 3, Ctx!Mode3, Ctx!SoFar, Ctx!InitStep
  PROVE  /\ ctxPhase' = "init" => Ctx!Mode3' /\ Ctx!SoFar' /\ ctxVictim' = ctxVictim
         /\ ctxPhase' # "init" => ctxPhase' = "loaded" /\ Ctx!Active' = {}
<1>0. ctxPhase = "init" /\ ctxPc \in 1..5
  BY CtxOps DEF Ctx!Mode3
<1>1. ctxPc = 1 \/ ctxPc = 2 \/ ctxPc = 3 \/ ctxPc = 4 \/ ctxPc = 5
  BY <1>0
<1>2. /\ (ctxPc = 1 => Ctx!Take /\ Ctx!Arg = "insmod") /\ (ctxPc = 2 => Ctx!SetUp /\ ~Ctx!At("spawn"))
      /\ (ctxPc = 3 => Ctx!Post /\ Ctx!Arg = "wk_sleep") /\ (ctxPc = 4 => Ctx!WaitFor /\ Ctx!Arg = "wk") /\
           (ctxPc = 5 => Ctx!Report)
  BY <1>0, CtxOps, CtxScript3
<1>3. CASE ctxPc = 1
  <2>1. Ctx!Take /\ Ctx!Quiet(0) /\ Ctx!Arg = Ctx!Expected[0 + 1] /\ ~ctxSleptOk
    BY <1>2, <1>3, CtxLines DEF Ctx!Mode3
  <2>2. /\ Ctx!Quiet(0 + 1)' /\ Ctx!SoFar' /\ ctxPc' = ctxPc + 1 /\ ctxPhase' = ctxPhase /\
             ctxSleptOk' = ctxSleptOk
        /\ ctxVictim' = ctxVictim
    BY <2>1, CtxTakeOp
  <2>3. ctxPc' = 2 /\ Ctx!Quiet(1)'
    BY <1>3, <2>2 DEF Ctx!Quiet, Ctx!Idle
  <2> QED BY <1>0, <2>1, <2>2, <2>3 DEF Ctx!Mode3
<1>4. CASE ctxPc = 2
  <2>1. Ctx!SetUp /\ Ctx!Quiet(1) /\ ~Ctx!At("spawn") /\ ~ctxSleptOk
    BY <1>2, <1>4 DEF Ctx!Mode3
  <2>2. Ctx!Quiet(1)' /\ Ctx!SoFar' /\ ctxPc' = ctxPc + 1 /\ ctxPhase' = ctxPhase /\
          ctxSleptOk' = ctxSleptOk /\ ctxVictim' = ctxVictim
    BY <2>1, CtxSetUpOp
  <2>3. ctxPc' = 3
    BY <1>4, <2>2
  <2> QED BY <1>0, <2>1, <2>2, <2>3 DEF Ctx!Mode3
<1>5. CASE ctxPc = 3
  <2>1. Ctx!Post /\ Ctx!Quiet(1) /\ Ctx!Arg = "wk_sleep" /\ "wk_sleep" \in Ctx!Callbacks /\ ~ctxSleptOk
    BY <1>2, <1>5 DEF Ctx!Mode3, Ctx!Callbacks
  <2>2. /\ Ctx!Serving("wk_sleep", 1 + 1)' /\ Ctx!NoneDone' /\ Ctx!SoFar' /\ ctxPc' = ctxPc + 1 /\
             ctxPhase' = ctxPhase
        /\ ctxSleptOk' = ctxSleptOk /\ ctxVictim' = ctxVictim
    BY <2>1, CtxPostOp
  <2>3. ctxPc' = 4 /\ Ctx!Serving("wk_sleep", 2)'
    BY <1>5, <2>2 DEF Ctx!Serving
  <2> QED BY <1>0, <2>1, <2>2, <2>3 DEF Ctx!Mode3
<1>6. CASE ctxPc = 4
  <2>0. Ctx!WaitFor /\ Ctx!Arg = "wk"
    BY <1>2, <1>6
  <2>1. Ctx!SoFar' /\ ctxPc' = ctxPc + 1 /\ ctxPhase' = ctxPhase /\ ctxVictim' = ctxVictim /\ ctxDone["wk"] > 0
    BY <2>0, CtxWaitOp
  <2>2. Ctx!Waits("wk_sleep", 3, "wk")
    <3>1. ~Ctx!NoneDone
      BY <2>1 DEF Ctx!NoneDone, Ctx!TypeOK
    <3> QED BY <1>6, <3>1 DEF Ctx!Mode3, Ctx!Waits
  <2>3. ctxPc' = 5 /\ Ctx!Quiet(3)'
    BY <1>6, <2>0, <2>1, <2>2, CtxWaited
  <2> QED BY <1>0, <2>1, <2>3 DEF Ctx!Mode3
<1>7. CASE ctxPc = 5
  <2>1. Ctx!Report /\ Ctx!Active = {}
    BY <1>2, <1>7 DEF Ctx!Mode3, Ctx!Quiet, Ctx!Idle
  <2> QED BY <2>1 DEF Ctx!Report, Ctx!cbs, Ctx!Active
<1> QED BY <1>1, <1>3, <1>4, <1>5, <1>6, <1>7

\* The order is kept by every step.
LEMMA CtxInOrder ==
  ASSUME Ctx!TypeOK, Ctx!InOrder, Ctx!Next
  PROVE  Ctx!InOrder'
<1> DEFINE Modes0to3 == /\ Ctx!SoFar
                        /\ ctxMode = 0 => Ctx!Mode0
                        /\ ctxMode = 1 => Ctx!Mode1
                        /\ ctxMode = 2 => Ctx!Mode2
                        /\ ctxMode = 3 => Ctx!Mode3
                        /\ ctxMode # 2 => ctxVictim = "none"
           Fresh == Ctx!Quiet(0) /\ ctxFromHardirq /\ ~ctxSleptOk /\ ctxVictim = "none"
<1>0. /\ ctxPhase = "absent" => Fresh
      /\ ctxTimely /\ ctxPhase = "init" => Modes0to3
      /\ ctxTimely /\ ctxPhase \in {"loaded", "exit", "gone"} => Ctx!Active = {}
      /\ ctxPhase = "init" => ctxPc <= Len(Ctx!Script)
      /\ ctxPhase = "exit" => ctxPc <= Len(Ctx!ExitScript)
  BY DEF Ctx!InOrder
<1>a. SUFFICES /\ ctxPhase' = "absent" => Fresh'
               /\ ctxTimely' /\ ctxPhase' = "init" => Modes0to3'
               /\ ctxTimely' /\ ctxPhase' \in {"loaded", "exit", "gone"} => Ctx!Active' = {}
               /\ ctxPhase' = "init" => ctxPc' <= Len(Ctx!Script')
               /\ ctxPhase' = "exit" => ctxPc' <= Len(Ctx!ExitScript)
  BY DEF Ctx!InOrder
<1>b. Len(Ctx!ExitScript) = 7
  BY DEF Ctx!ExitScript
<1>m. ctxMode \in 0..3 /\ ctxPc \in 1..20
  BY DEF Ctx!TypeOK
<1>1. CASE Ctx!Insmod
  <2>1. Fresh
    BY <1>0, <1>1 DEF Ctx!Insmod
  <2>2. /\ ctxPhase' \in {"init", "failed"} /\ ctxPc' = 1 /\ ctxMode' \in 0..3
        /\ ctxFromHardirq' = ctxFromHardirq /\ ctxSleptOk' = ctxSleptOk /\ ctxVictim' = ctxVictim
        /\ ctxNfp' = ctxNfp /\ ctxQueued' = ctxQueued /\ ctxStage' = ctxStage /\ ctxDone' = ctxDone
    BY <1>1, CtxAssumption DEF Ctx!Insmod, Ctx!cbs, Ctx!table, Ctx!flags
  <2>3. Ctx!Quiet(0)' /\ ctxNfp' = 0
    BY <2>1, <2>2 DEF Ctx!Quiet, Ctx!Idle, Ctx!Active, Ctx!NoneDone
  <2>4. Ctx!SoFar'
    BY <2>3 DEF Ctx!SoFar
  <2>5. 1 <= Len(Ctx!Script')
    <3>1. Len(Ctx!RunMode0) = 20 /\ Len(Ctx!RunMode1) = 5 /\ Len(Ctx!RunMode2) = 8 /\ Len(Ctx!RunMode3) = 5
      BY DEF Ctx!RunMode0, Ctx!RunMode1, Ctx!RunMode2, Ctx!RunMode3
    <3>2. ctxMode' = 0 \/ ctxMode' = 1 \/ ctxMode' = 2 \/ ctxMode' = 3
      BY <2>2
    <3>3. /\ (ctxMode' = 0 => Ctx!Script' = Ctx!RunMode0) /\ (ctxMode' = 1 => Ctx!Script' = Ctx!RunMode1)
          /\ (ctxMode' = 2 => Ctx!Script' = Ctx!RunMode2) /\ (ctxMode' = 3 => Ctx!Script' = Ctx!RunMode3)
      BY DEF Ctx!Script
    <3> QED BY <3>1, <3>2, <3>3
  <2>6. Ctx!Mode0'
    BY <2>1, <2>2, <2>3 DEF Ctx!Mode0
  <2>7. Ctx!Mode1' /\ Ctx!Mode3'
    BY <2>1, <2>2, <2>3 DEF Ctx!Mode1, Ctx!Mode3
  <2>8. Ctx!Mode2'
    BY <2>2, <2>3 DEF Ctx!Mode2
  <2>9. ctxVictim' = "none"
    BY <2>1, <2>2
  <2> HIDE DEF Fresh
  <2> QED BY <2>2, <2>4, <2>5, <2>6, <2>7, <2>8, <2>9
<1>2. CASE Ctx!InitStep
  <2>1. ctxPhase = "init" /\ ctxMode' = ctxMode /\ ctxTimely' = ctxTimely /\ Ctx!Script' = Ctx!Script
    BY <1>2, CtxOps
  <2>2. ctxPhase' \in {"init", "loaded"}
    BY <1>2 DEF Ctx!InitStep, Ctx!Take, Ctx!Post, Ctx!SetUp, Ctx!SpawnFails, Ctx!WaitFor, Ctx!Settle,
         Ctx!Report, Ctx!At
  <2>3. ctxPhase' = "init" => ctxPc' <= Len(Ctx!Script')
    <3>1. ~Ctx!At("end") => ctxPc + 1 <= Len(Ctx!Script)
      BY <1>0, <2>1, CtxArguments
    <3>2. ctxPhase' = "init" => ctxPc' = ctxPc + 1 /\ ~Ctx!At("end")
      <4>1. Ctx!At("end") =>
                  /\ ~Ctx!At("take") /\ ~Ctx!At("post") /\ ~Ctx!At("wait") /\ ~Ctx!At("init") /\
                       ~Ctx!At("reinit")
                  /\ ~Ctx!At("process") /\ ~Ctx!At("spawn") /\ ~Ctx!At("last") /\ ~Ctx!At("settle") /\
                       ~Ctx!At("stop")
        BY DEF Ctx!At
      <4>2. ctxPhase' = "init" => ~Ctx!SpawnFails /\ ~Ctx!Report
        BY DEF Ctx!SpawnFails, Ctx!Report
      <4>3. Ctx!Take \/ Ctx!Post \/ Ctx!WaitFor \/ Ctx!SetUp \/ Ctx!Settle => ctxPc' = ctxPc + 1
        BY DEF Ctx!Take, Ctx!Post, Ctx!WaitFor, Ctx!SetUp, Ctx!Settle
      <4> QED BY <1>2, <4>1, <4>2, <4>3, CtxOps
    <3> QED BY <2>1, <3>1, <3>2
  <2>4. CASE ctxTimely
    <3>1. Modes0to3
      BY <1>0, <2>1, <2>4
    <3>2. CASE ctxMode = 0
      <4>1. /\ ctxPhase' = "init" => Ctx!Mode0' /\ Ctx!SoFar' /\ ctxVictim' = ctxVictim
            /\ ctxPhase' # "init" => ctxPhase' = "loaded" /\ Ctx!Active' = {}
        BY <1>2, <2>4, <3>1, <3>2, CtxInit0
      <4> QED BY <2>1, <2>2, <2>3, <3>1, <3>2, <4>1
    <3>3. CASE ctxMode = 1
      <4>1. /\ ctxPhase' = "init" => Ctx!Mode1' /\ Ctx!SoFar' /\ ctxVictim' = ctxVictim
            /\ ctxPhase' # "init" => ctxPhase' = "loaded" /\ Ctx!Active' = {}
        BY <1>2, <2>4, <3>1, <3>3, CtxInit1
      <4> QED BY <2>1, <2>2, <2>3, <3>1, <3>3, <4>1
    <3>4. CASE ctxMode = 2
      <4>1. /\ ctxPhase' = "init" => Ctx!Mode2' /\ Ctx!SoFar'
            /\ ctxPhase' # "init" => ctxPhase' = "loaded" /\ Ctx!Active' = {}
        BY <1>2, <2>4, <3>1, <3>4, CtxInit2
      <4> QED BY <2>1, <2>2, <2>3, <3>4, <4>1
    <3>5. CASE ctxMode = 3
      <4>1. /\ ctxPhase' = "init" => Ctx!Mode3' /\ Ctx!SoFar' /\ ctxVictim' = ctxVictim
            /\ ctxPhase' # "init" => ctxPhase' = "loaded" /\ Ctx!Active' = {}
        BY <1>2, <2>4, <3>1, <3>5, CtxInit3
      <4> QED BY <2>1, <2>2, <2>3, <3>1, <3>5, <4>1
    <3>6. ctxMode = 0 \/ ctxMode = 1 \/ ctxMode = 2 \/ ctxMode = 3
      BY <1>m
    <3> QED BY <3>2, <3>3, <3>4, <3>5, <3>6
  <2> HIDE DEF Fresh, Modes0to3
  <2> QED BY <2>1, <2>2, <2>3, <2>4
<1>3. CASE Ctx!Rmmod
  <2>1. ctxPhase = "loaded" /\ ctxPhase' = "exit" /\ ctxPc' = 1 /\ ctxTimely' = ctxTimely /\
          ctxQueued' = ctxQueued /\ ctxStage' = ctxStage
    BY <1>3 DEF Ctx!Rmmod, Ctx!cbs
  <2>2. Ctx!Active' = Ctx!Active
    BY <2>1 DEF Ctx!Active
  <2> HIDE DEF Fresh, Modes0to3
  <2> QED BY <1>0, <1>b, <2>1, <2>2
<1>4. CASE Ctx!Drain
  <2>1. /\ ctxPhase = "exit" /\ ctxTimely' = ctxTimely /\ ctxQueued' \subseteq ctxQueued /\ ctxStage' = ctxStage
    BY <1>4 DEF Ctx!Drain
  <2>2. Ctx!Active' \subseteq Ctx!Active
    BY <2>1 DEF Ctx!Active
  <2>3. \/ ctxPhase' = "gone"
        \/ ctxPhase' = "exit" /\ ctxPc' = ctxPc + 1 /\ ctxPc # 7
    BY <1>4, <1>b DEF Ctx!Drain
  <2>4. ctxPc <= 7
    BY <1>0, <1>b, <2>1
  <2>5. ctxPhase' = "exit" => ctxPc' <= 7
    BY <1>m, <2>3, <2>4
  <2> HIDE DEF Fresh, Modes0to3
  <2> QED BY <1>0, <1>b, <2>1, <2>2, <2>3, <2>5
<1>5. CASE Ctx!VictimLoops
  <2>1. /\ ctxVictim = "hit" /\ ctxVictim' = "run" /\ ctxGap' /\ ctxPhase' = ctxPhase /\ ctxPc' = ctxPc /\
             ctxMode' = ctxMode
        /\ ctxTimely' = ctxTimely /\ ctxFromHardirq' = ctxFromHardirq /\ ctxSleptOk' = ctxSleptOk /\
             ctxDone' = ctxDone
        /\ ctxNfp' = ctxNfp /\ ctxFp' = ctxFp /\ ctxQueued' = ctxQueued /\ ctxStage' = ctxStage /\
             ctxLocal' = ctxLocal /\ ctxLabel' = ctxLabel
    BY <1>5 DEF Ctx!VictimLoops, Ctx!cbs, Ctx!table
  <2>2. Ctx!Active' = Ctx!Active /\ Ctx!Script' = Ctx!Script /\ Ctx!Expected' = Ctx!Expected
    BY <2>1 DEF Ctx!Active, Ctx!Script, Ctx!Expected
  <2>3. ctxPhase # "absent"
    BY <1>0, <2>1
  <2>4. CASE ctxTimely /\ ctxPhase = "init"
    <3>1. ctxMode = 2 /\ Ctx!Mode2 /\ Ctx!SoFar
      BY <1>0, <2>1, <2>4
    <3>2. Ctx!SoFar'
      BY <2>1, <2>2, <3>1 DEF Ctx!SoFar
    <3>3. (Ctx!NoneDone' <=> Ctx!NoneDone) /\ \A ds : Ctx!OnlyDone(ds)' <=> Ctx!OnlyDone(ds)
      BY <2>1 DEF Ctx!NoneDone, Ctx!OnlyDone
    <3>4. \A s : Ctx!Idle(s)' <=> Ctx!Idle(s)
      BY <2>1, <2>2 DEF Ctx!Idle
    <3>5. \A c, s : Ctx!Serving(c, s)' <=> Ctx!Serving(c, s)
      BY <2>1, <2>2 DEF Ctx!Serving
    <3>6. \A s : Ctx!Quiet(s) => Ctx!Quiet(s)'
      BY <3>3, <3>4 DEF Ctx!Quiet
    <3>7. \A c, s, d : Ctx!Waits(c, s, d) => Ctx!Waits(c, s, d)'
      BY <3>3, <3>4, <3>5 DEF Ctx!Waits
    <3>8. Ctx!Mode2'
      BY <2>1, <3>1, <3>3, <3>5, <3>6, <3>7 DEF Ctx!Mode2
    <3> QED BY <1>0, <2>1, <2>2, <2>4, <3>1, <3>2, <3>8
  <2> HIDE DEF Fresh, Modes0to3
  <2> QED BY <1>0, <2>1, <2>2, <2>3, <2>4
<1>6. ASSUME NEW e \in Ctx!Callbacks, Ctx!CallbackStep(e)
      PROVE  /\ ctxPhase' = "absent" => Fresh'
             /\ ctxTimely' /\ ctxPhase' = "init" => Modes0to3'
             /\ ctxTimely' /\ ctxPhase' \in {"loaded", "exit", "gone"} => Ctx!Active' = {}
             /\ ctxPhase' = "init" => ctxPc' <= Len(Ctx!Script')
             /\ ctxPhase' = "exit" => ctxPc' <= Len(Ctx!ExitScript)
  <2>1. ctxMode' = ctxMode /\ ctxPhase' = ctxPhase /\ ctxPc' = ctxPc /\ ctxTimely' = ctxTimely /\
          ctxFromHardirq' = ctxFromHardirq
    BY <1>6, CtxFrame
  <2>2. Ctx!Script' = Ctx!Script
    BY <2>1 DEF Ctx!Script
  <2>3. ctxVictim = "none" => ctxVictim' = "none"
    BY <1>6 DEF Ctx!CallbackStep, Ctx!TakeRead, Ctx!TakeStore, Ctx!Finish, Ctx!Return, Ctx!flags
  <2>4. CASE ctxPhase = "absent"
    <3>1. Fresh
      BY <1>0, <2>4
    <3>2. Ctx!Return(e) /\ Ctx!Active' = {}
      BY <1>6, <3>1, CtxQuietStep DEF Ctx!Quiet, Ctx!Idle
    <3>3. ctxNfp' = ctxNfp /\ ctxDone' = ctxDone /\ ctxSleptOk' = ctxSleptOk
      BY <3>2 DEF Ctx!Return, Ctx!table, Ctx!flags
    <3>4. Ctx!Quiet(0)'
      BY <3>1, <3>2, <3>3 DEF Ctx!Quiet, Ctx!Idle, Ctx!NoneDone
    <3>5. Fresh'
      BY <2>1, <2>3, <3>1, <3>3, <3>4
    <3> HIDE DEF Fresh, Modes0to3
    <3> QED BY <2>1, <2>4, <3>5
  <2>5. CASE ctxTimely /\ ctxPhase = "init"
    <3>1. Modes0to3
      BY <1>0, <2>5
    <3>2. CASE ctxMode = 0
      <4>1. Ctx!Mode0' /\ Ctx!SoFar'
        BY <1>6, <3>1, <3>2, CtxCallback0
      <4>2. Modes0to3'
        BY <2>1, <2>3, <3>1, <3>2, <4>1
      <4> HIDE DEF Modes0to3
      <4> QED BY <1>0, <2>1, <2>2, <2>5, <4>2
    <3>3. CASE ctxMode = 1
      <4>1. Ctx!Mode1' /\ Ctx!SoFar'
        BY <1>6, <3>1, <3>3, CtxCallback1
      <4>2. Modes0to3'
        BY <2>1, <2>3, <3>1, <3>3, <4>1
      <4> HIDE DEF Modes0to3
      <4> QED BY <1>0, <2>1, <2>2, <2>5, <4>2
    <3>4. CASE ctxMode = 2
      <4>1. Ctx!Mode2' /\ Ctx!SoFar'
        BY <1>6, <3>1, <3>4, CtxCallback2
      <4>2. Modes0to3'
        BY <2>1, <2>3, <3>1, <3>4, <4>1
      <4> HIDE DEF Modes0to3
      <4> QED BY <1>0, <2>1, <2>2, <2>5, <4>2
    <3>5. CASE ctxMode = 3
      <4>1. Ctx!Mode3' /\ Ctx!SoFar'
        BY <1>6, <3>1, <3>5, CtxCallback3
      <4>2. Modes0to3'
        BY <2>1, <2>3, <3>1, <3>5, <4>1
      <4> HIDE DEF Modes0to3
      <4> QED BY <1>0, <2>1, <2>2, <2>5, <4>2
    <3>6. ctxMode = 0 \/ ctxMode = 1 \/ ctxMode = 2 \/ ctxMode = 3
      BY <1>m
    <3> QED BY <3>2, <3>3, <3>4, <3>5, <3>6
  <2>6. CASE ctxTimely /\ ctxPhase \in {"loaded", "exit", "gone"}
    <3>1. Ctx!Active' = {}
      BY <1>0, <1>6, <2>6, CtxQuietStep
    <3> HIDE DEF Fresh, Modes0to3
    <3> QED BY <1>0, <2>1, <2>2, <2>6, <3>1
  <2> HIDE DEF Fresh, Modes0to3
  <2>7. CASE ~ctxTimely /\ ctxPhase # "absent"
    BY <1>0, <2>1, <2>2, <2>7
  <2>8. CASE ctxTimely /\ ctxPhase \notin {"absent", "init", "loaded", "exit", "gone"}
    BY <2>1, <2>8
  <2>9. ctxTimely \in BOOLEAN
    BY DEF Ctx!TypeOK
  <2> QED BY <2>4, <2>5, <2>6, <2>7, <2>8, <2>9
<1> HIDE DEF Fresh, Modes0to3
<1> QED BY <1>1, <1>2, <1>3, <1>4, <1>5, <1>6 DEF Ctx!Next

\* Every step keeps the invariant ...
LEMMA CtxSteps ==
  ASSUME Ctx!CtxInv, [Ctx!Next]_(Ctx!vars)
  PROVE  Ctx!CtxInv'
<1>1. CASE Ctx!Next
  BY <1>1, CtxTyped, CtxDrained, CtxInOrder DEF Ctx!CtxInv
<1>2. CASE UNCHANGED Ctx!vars
  <2>1. Ctx!TypeOK'
    BY <1>2 DEF Ctx!CtxInv, Ctx!TypeOK, Ctx!vars
  <2>2. Ctx!Drained'
    BY <1>2 DEF Ctx!CtxInv, Ctx!Drained, Ctx!Outstanding, Ctx!vars
  <2>3. Ctx!InOrder'
    <3>1. /\ ctxMode' = ctxMode /\ ctxPhase' = ctxPhase /\ ctxPc' = ctxPc /\ ctxTimely' = ctxTimely /\
               ctxQueued' = ctxQueued
          /\ ctxStage' = ctxStage /\ ctxLocal' = ctxLocal /\ ctxLabel' = ctxLabel /\ ctxNfp' = ctxNfp /\
               ctxFp' = ctxFp
          /\ ctxDone' = ctxDone /\ ctxFromHardirq' = ctxFromHardirq /\ ctxSleptOk' = ctxSleptOk /\
               ctxVictim' = ctxVictim
          /\ ctxGap' = ctxGap
      BY <1>2 DEF Ctx!vars
    <3>2. Ctx!Active' = Ctx!Active /\ Ctx!Script' = Ctx!Script /\ Ctx!Expected' = Ctx!Expected
      BY <3>1 DEF Ctx!Active, Ctx!Script, Ctx!Expected
    <3>3. (Ctx!NoneDone' <=> Ctx!NoneDone) /\ \A ds : Ctx!OnlyDone(ds)' <=> Ctx!OnlyDone(ds)
      BY <3>1 DEF Ctx!NoneDone, Ctx!OnlyDone
    <3>4. (Ctx!SoFar' <=> Ctx!SoFar) /\ \A s : Ctx!Idle(s)' <=> Ctx!Idle(s)
      BY <3>1, <3>2 DEF Ctx!SoFar, Ctx!Idle
    <3>5. \A c, s : Ctx!Serving(c, s)' <=> Ctx!Serving(c, s)
      BY <3>1, <3>2 DEF Ctx!Serving
    <3>6. \A s : Ctx!Quiet(s)' <=> Ctx!Quiet(s)
      BY <3>3, <3>4 DEF Ctx!Quiet
    <3>7. \A c, s, d : Ctx!Waits(c, s, d)' <=> Ctx!Waits(c, s, d)
      BY <3>3, <3>4, <3>5 DEF Ctx!Waits
    <3>8. Ctx!Mode0' <=> Ctx!Mode0
      BY <3>1, <3>3, <3>4, <3>5, <3>6, <3>7 DEF Ctx!Mode0
    <3>9. (Ctx!Mode1' <=> Ctx!Mode1) /\ (Ctx!Mode2' <=> Ctx!Mode2)
      BY <3>1, <3>3, <3>4, <3>5, <3>6, <3>7 DEF Ctx!Mode1, Ctx!Mode2
    <3>10. Ctx!Mode3' <=> Ctx!Mode3
      BY <3>1, <3>3, <3>4, <3>5, <3>6, <3>7 DEF Ctx!Mode3
    <3> QED BY <3>1, <3>2, <3>4, <3>6, <3>8, <3>9, <3>10 DEF Ctx!CtxInv, Ctx!InOrder
  <2> QED BY <2>1, <2>2, <2>3 DEF Ctx!CtxInv
<1> QED BY <1>1, <1>2

\* ... which gives what the run checks.
LEMMA CtxSafe ==
  ASSUME Ctx!CtxInv
  PROVE  Ctx!TableExact /\ Ctx!UnloadSafe
<1> USE DEF Ctx!CtxInv
<1>1. Ctx!UnloadSafe
  <2>1. ctxPhase = "gone" =>
          Ctx!Callbacks \cap Ctx!Outstanding \subseteq (IF ctxTimely THEN {} ELSE {"tl", "tl_block"})
    BY DEF Ctx!Drained
  <2>2. Ctx!Outstanding \subseteq Ctx!Callbacks
    BY DEF Ctx!Outstanding, Ctx!TypeOK
  <2> QED BY <2>1, <2>2 DEF Ctx!UnloadSafe
<1>2. ASSUME ctxTimely, ctxPhase = "init"
      PROVE  /\ Ctx!At("end") /\ ctxVictim # "none" => ctxGap
             /\ Ctx!At("end") => SubSeq(ctxFp, 1, ctxNfp) = Ctx!Expected
             /\ Ctx!At("last") => ctxNfp > 0
  <2>0. /\ ctxMode \in {0, 1, 2, 3} /\ ctxPc \in 1..20 /\ Ctx!SoFar
        /\ (ctxMode = 0 => Ctx!Mode0) /\ (ctxMode = 1 => Ctx!Mode1) /\ (ctxMode = 2 => Ctx!Mode2) /\
             (ctxMode = 3 => Ctx!Mode3)
        /\ (ctxMode # 2 => ctxVictim = "none")
    BY <1>2 DEF Ctx!TypeOK, Ctx!InOrder
  <2>1. Ctx!At("end") => ctxNfp = Len(Ctx!Expected) /\ ctxNfp \in 0..8 /\ (ctxVictim # "none" => ctxGap)
    <3>1. CASE ctxMode = 0
      BY <1>2, <2>0, <3>1, CtxScript0, CtxLines DEF Ctx!Mode0, Ctx!Quiet, Ctx!Idle
    <3>2. CASE ctxMode = 1
      BY <1>2, <2>0, <3>2, CtxScript1, CtxLines DEF Ctx!Mode1, Ctx!Quiet, Ctx!Idle
    <3>3. CASE ctxMode = 2
      BY <1>2, <2>0, <3>3, CtxScript2, CtxLines DEF Ctx!Mode2, Ctx!Quiet, Ctx!Idle
    <3>4. CASE ctxMode = 3
      BY <1>2, <2>0, <3>4, CtxScript3, CtxLines DEF Ctx!Mode3, Ctx!Quiet, Ctx!Idle
    <3> QED BY <2>0, <3>1, <3>2, <3>3, <3>4
  <2>2. Ctx!At("last") => ctxNfp > 0
    <3>1. CASE ctxMode = 0
      BY <1>2, <2>0, <3>1, CtxScript0
    <3>2. CASE ctxMode = 1
      BY <1>2, <2>0, <3>2, CtxScript1 DEF Ctx!Mode1, Ctx!Quiet, Ctx!Idle
    <3>3. CASE ctxMode = 2
      BY <1>2, <2>0, <3>3, CtxScript2 DEF Ctx!Mode2
    <3>4. CASE ctxMode = 3
      BY <1>2, <2>0, <3>4, CtxScript3 DEF Ctx!Mode3
    <3> QED BY <2>0, <3>1, <3>2, <3>3, <3>4
  <2>3. Ctx!At("end") => SubSeq(ctxFp, 1, ctxNfp) = Ctx!Expected
    <3> DEFINE P == Ctx!Callbacks \cup {"none", "insmod", "bh", "softirq1", "softirq3", "awake"}
    <3>1. Ctx!Expected \in Seq(P)
      <4>1. "iw" \in P /\ "ht" \in P /\ "tl2" \in P /\ "wk" \in P /\ "tl_spin" \in P
            /\ "ht_raise" \in P /\ "tl_block" \in P /\ "wk_sleep" \in P
        BY DEF Ctx!Callbacks
      <4>2. /\ ctxMode = 0 => Ctx!Expected = <<"insmod", "bh", "iw", "ht", "softirq1", "softirq3", "tl2", "wk">>
            /\ ctxMode = 1 => Ctx!Expected = <<"tl_spin">>
            /\ ctxMode = 2 => Ctx!Expected = <<"ht_raise", "tl_block">>
            /\ ctxMode = 3 => Ctx!Expected = <<"insmod", "wk_sleep", "awake">>
        BY DEF Ctx!Expected
      <4>3. "insmod" \in P /\ "bh" \in P /\ "softirq1" \in P /\ "softirq3" \in P /\ "awake" \in P
        OBVIOUS
      <4> HIDE DEF P
      <4>4. <<"insmod", "bh", "iw", "ht", "softirq1", "softirq3", "tl2", "wk">> \in Seq(P)
        BY <4>1, <4>3
      <4>5. <<"tl_spin">> \in Seq(P) /\ <<"ht_raise", "tl_block">> \in Seq(P)
        BY <4>1
      <4>6. <<"insmod", "wk_sleep", "awake">> \in Seq(P)
        BY <4>1, <4>3
      <4> QED BY <2>0, <4>2, <4>4, <4>5, <4>6
    <3>2. ASSUME Ctx!At("end")
          PROVE  SubSeq(ctxFp, 1, ctxNfp) = Ctx!Expected
      <4>1. \A i \in 1..ctxNfp : ctxFp[i] = Ctx!Expected[i] /\ ctxFp[i] \in P
        <5>1. \A i \in 1..ctxNfp : i \in 1..8
          BY <2>1, <3>2
        <5>2. \A i \in 1..8 : ctxFp[i] \in P
          BY DEF Ctx!TypeOK, Ctx!Slots
        <5> HIDE DEF P
        <5> QED BY <2>0, <5>1, <5>2 DEF Ctx!SoFar
      <4>2. ctxNfp \in Nat /\ ctxNfp \in Int /\ 1 \in Int /\ ctxNfp = Len(Ctx!Expected)
        BY <2>1, <3>2
      <4> HIDE DEF P
      <4>3. /\ SubSeq(ctxFp, 1, ctxNfp) \in Seq(P)
            /\ Len(SubSeq(ctxFp, 1, ctxNfp)) = IF 1 <= ctxNfp THEN ctxNfp - 1 + 1 ELSE 0
            /\ \A i \in 1 .. ctxNfp - 1 + 1 : SubSeq(ctxFp, 1, ctxNfp)[i] = ctxFp[1 + i - 1]
        BY <4>1, <4>2, SubSeqProperties
      <4>4. Len(SubSeq(ctxFp, 1, ctxNfp)) = ctxNfp /\ ctxNfp - 1 + 1 = ctxNfp
        BY <4>2, <4>3
      <4>5. \A i \in 1..ctxNfp : SubSeq(ctxFp, 1, ctxNfp)[i] = Ctx!Expected[i]
        <5>1. ASSUME NEW i \in 1..ctxNfp
              PROVE  SubSeq(ctxFp, 1, ctxNfp)[i] = Ctx!Expected[i]
          <6>1. 1 + i - 1 = i
            BY <4>2
          <6> QED BY <4>1, <4>3, <4>4, <6>1
        <5> QED BY <5>1
      <4> QED BY <3>1, <4>2, <4>3, <4>4, <4>5, SeqEqual
    <3> QED BY <3>2
  <2> QED BY <2>1, <2>2, <2>3
<1> QED BY <1>1, <1>2 DEF Ctx!TableExact

-----------------------------------------------------------------------------
(* The probes together.                                                    *)

\* A step of the whole is a step of each part, or leaves its variables alone.
LEMMA ProbesParts ==
  ASSUME [ProbesNext]_probesVars
  PROVE  /\ [Ctx!Next]_(Ctx!vars)
         /\ [Irq!Next]_(Irq!vars)
         /\ [Crash!Next]_(Crash!vars)
         /\ [Rcu!Next]_(Rcu!vars)
<1> USE DEF ctxVars, irqVars, cpVars, rmVars, Ctx!vars, Ctx!cbs, Ctx!table, Ctx!flags
<1>1. CASE CtxNext
  BY <1>1 DEF CtxNext, Irq!vars, Crash!vars, Rcu!vars
<1>2. CASE IrqNext
  BY <1>2 DEF IrqNext, Irq!vars, Crash!vars, Rcu!vars
<1>3. CASE CrashNext
  BY <1>3 DEF CrashNext, Irq!vars, Crash!vars, Rcu!vars
<1>4. CASE RcuNext
  BY <1>4 DEF RcuNext, Irq!vars, Crash!vars, Rcu!vars
<1>5. CASE UNCHANGED probesVars
  BY <1>5 DEF probesVars, Irq!vars, Crash!vars, Rcu!vars
<1> QED BY <1>1, <1>2, <1>3, <1>4, <1>5 DEF ProbesNext

\* Each part keeps its own invariant.
LEMMA ProbesInvariant == ProbesSpec => [](Ctx!CtxInv /\ Irq!IrqInv /\ Crash!CrashInv /\ Rcu!ModesInv)
<1> DEFINE Inv == Ctx!CtxInv /\ Irq!IrqInv /\ Crash!CrashInv /\ Rcu!ModesInv
<1>1. ProbesInit => Inv
  BY CtxStart, IrqStart, CrashStart, ModesStart DEF ProbesInit
<1>2. Inv /\ [ProbesNext]_probesVars => Inv'
  <2> SUFFICES ASSUME Inv, [ProbesNext]_probesVars PROVE Inv'
    OBVIOUS
  <2>1. Ctx!CtxInv'
    BY ProbesParts, CtxSteps
  <2>2. Irq!IrqInv'
    BY ProbesParts, IrqSteps
  <2>3. Crash!CrashInv'
    BY ProbesParts, CrashSteps
  <2>4. Rcu!ModesInv'
    BY ProbesParts, ModesSteps
  <2> QED BY <2>1, <2>2, <2>3, <2>4
<1>3. QED BY <1>1, <1>2, PTL DEF ProbesSpec

\* ctx_probe.c, rcu_demo.c, crash_probe.c: whatever the number of rounds, of
\* waiters, of words of the stack and of waits that time out, none leaves a
\* callback, timer or reader behind, nor a thread short of its return, and what
\* is read after it was freed was freed while the command looked, with the
\* exceptions ProbesMemorySafe names.
THEOREM ProbesSafe == ProbesSpec => []ProbesMemorySafe
<1>1. Ctx!CtxInv /\ Crash!CrashInv /\ Rcu!ModesInv => ProbesMemorySafe
  <2> SUFFICES ASSUME Ctx!CtxInv, Crash!CrashInv, Rcu!ModesInv PROVE ProbesMemorySafe
    OBVIOUS
  <2>1. Ctx!UnloadSafe
    BY CtxSafe
  <2>2. Rcu!ModesQuiet
    BY ModesSafe
  <2>3. Crash!TaskPinned /\ Crash!WalkInBounds /\ Crash!StableTargetSafe
    BY CrashSafe
  <2> QED BY <2>1, <2>2, <2>3 DEF ProbesMemorySafe
<1> QED BY <1>1, ProbesInvariant, PTL

\* ctx_probe.c, irq_live.c: on any number of CPUs and for any number of samples
\* and interrupts, the frames, dispatches and stack pointers printed are those
\* the handlers saw, and in every mode the context table is exact in time.
THEOREM ProbesReports == ProbesSpec => []ProbesReportExact
<1>1. Ctx!CtxInv /\ Irq!IrqInv => ProbesReportExact
  <2> SUFFICES ASSUME Ctx!CtxInv, Irq!IrqInv PROVE ProbesReportExact
    OBVIOUS
  <2>1. Ctx!TableExact
    BY CtxSafe
  <2>2. Irq!FramesExact /\ Irq!DispatchesBounded /\ Irq!SpansExact
    BY IrqReports
  <2> QED BY <2>1, <2>2 DEF ProbesReportExact
<1> QED BY <1>1, ProbesInvariant, PTL
=============================================================================
