------------------------- MODULE LockingLabsProofs --------------------------
(***************************************************************************)
(* Proofs about the locking labs, for every value of the constants: any    *)
(* schedule of rounds, number of threads and operations (lock_bench.c), any*)
(* number of tasks and of table slots (lockup_lab.c), and every mode and   *)
(* choice of timing (dl_lab.c, rwsem_lab.c, arm64_lab.c).                  *)
(*   LabsSafe: types; a mutex is unlocked by its owner; two waiters of     *)
(*     different types queue in order; a pid has one slot of ht_tab        *)
(*   LabsUnloadsClean: rmmod leaves nothing behind                         *)
(*   LbReportsExact: the printed counts are those of the round             *)
(*   KhReportsTruthful: a report takes two walks, the task the same count  *)
(***************************************************************************)
EXTENDS LockingLabs, FiniteSetTheorems, ProofLemmas

-----------------------------------------------------------------------------
\* A step of the whole is a step of each part, or leaves its variables alone.
LEMMA PartSteps ==
  ASSUME [Next]_vars
  PROVE  /\ [Dl!Next]_(Dl!vars)
         /\ [Rw!Next]_(Rw!vars)
         /\ [Lb!Next]_(Lb!vars)
         /\ [Kh!Next]_(Kh!vars)
         /\ [Full!Next]_(Full!vars)
<1> USE DEF dlVars, rwVars, lbVars, khVars, kfVars, Dl!vars, Rw!vars, Lb!vars,
            Kh!vars, Kh!tasks, Kh!table, Full!vars, Full!tasks, Full!table
<1>1. CASE DlNext
  BY <1>1 DEF DlNext
<1>2. CASE RwNext
  BY <1>2 DEF RwNext
<1>3. CASE LbNext
  BY <1>3 DEF LbNext
<1>4. CASE KhNext
  BY <1>4 DEF KhNext
<1>5. CASE FullNext
  BY <1>5 DEF FullNext
<1>6. CASE UNCHANGED vars
  BY <1>6 DEF vars
<1> QED BY <1>1, <1>2, <1>3, <1>4, <1>5, <1>6 DEF Next

-----------------------------------------------------------------------------
(* dl_lab.c.                                                               *)

\* aa_mutex_fn(), abba_fn(), book_thread(): locking, unlocking and leaving.
LEMMA DlThreadSteps ==
  ASSUME NEW t \in Dl!Threads, Dl!DlInv,
         Dl!Enter(t) \/ Dl!Lock1(t) \/ Dl!Lock2Get(t) \/ Dl!Lock2Intr(t) \/ Dl!TryEscape(t) \/
         Dl!Unlock2(t) \/ Dl!Unlock1(t) \/ Dl!Loop(t)
  PROVE  Dl!DlInv'
<1> USE DEF Dl!DlInv, Dl!Threads, Dl!Mutexes, Dl!NoOwner, Dl!Goto, Dl!FirstOf, Dl!SecondOf, Dl!LabModes
<1>1. CASE Dl!Enter(t)
  <2> USE <1>1 DEF Dl!Enter
  <2>1. Dl!TypeOK'
    <3>1. dlAllowed' \in SUBSET Dl!Threads /\ dlAllowed \subseteq dlAllowed'
      BY DEF Dl!TypeOK
    <3>2. dlPc' \in [Dl!Threads -> {"none", "new", "lock1", "lock2", "asleep", "unlock2", "unlock1",
                                  "cancel", "sleep", "kill", "loop", "exited"}]
      BY DEF Dl!TypeOK
    <3> QED BY <3>1, <3>2 DEF Dl!TypeOK
  <2>2. Dl!Places'
    BY DEF Dl!TypeOK, Dl!Places, Dl!ThreadsOf, Dl!ToSet
  <2>3. Dl!Owners'
    BY DEF Dl!TypeOK, Dl!Places, Dl!Owners
  <2>4. Dl!Stopped'
    BY DEF Dl!TypeOK, Dl!Places, Dl!Stopped
  <2> QED BY <2>1, <2>2, <2>3, <2>4
<1>2. CASE Dl!Lock1(t)
  <2> USE <1>2 DEF Dl!Lock1
  <2>1. Dl!TypeOK'
    BY DEF Dl!TypeOK
  <2>2. Dl!Places'
    BY DEF Dl!TypeOK, Dl!Places, Dl!ThreadsOf, Dl!ToSet
  <2>3. Dl!Owners'
    BY DEF Dl!TypeOK, Dl!Places, Dl!Owners
  <2>4. Dl!Stopped'
    <3>1. t = "book" => dlMode = "book"
      BY DEF Dl!TypeOK, Dl!Places, Dl!ThreadsOf, Dl!ToSet
    <3>2. dlPhase = "unloaded" => dlPc[t] \in {"none", "exited"}
      BY DEF Dl!Stopped
    <3>3. dlPhase # "unloaded"
      BY <3>2
    <3> QED BY <3>1, <3>3 DEF Dl!TypeOK, Dl!Stopped
  <2> QED BY <2>1, <2>2, <2>3, <2>4
<1>3. CASE Dl!Lock2Get(t)
  <2> USE <1>3 DEF Dl!Lock2Get
  <2>1. Dl!TypeOK'
    BY DEF Dl!TypeOK
  <2>2. Dl!Places'
    BY DEF Dl!TypeOK, Dl!Places, Dl!ThreadsOf, Dl!ToSet
  <2>3. Dl!Owners'
    BY DEF Dl!TypeOK, Dl!Places, Dl!Owners
  <2>4. Dl!Stopped'
    BY DEF Dl!TypeOK, Dl!Places, Dl!Stopped
  <2> QED BY <2>1, <2>2, <2>3, <2>4
<1>4. CASE Dl!Lock2Intr(t)
  <2> USE <1>4 DEF Dl!Lock2Intr
  <2>1. Dl!TypeOK'
    BY DEF Dl!TypeOK
  <2>2. Dl!Places'
    BY DEF Dl!TypeOK, Dl!Places, Dl!ThreadsOf, Dl!ToSet
  <2>3. Dl!Owners'
    BY DEF Dl!TypeOK, Dl!Places, Dl!Owners
  <2>4. Dl!Stopped'
    BY DEF Dl!TypeOK, Dl!Places, Dl!Stopped
  <2> QED BY <2>1, <2>2, <2>3, <2>4
<1>5. CASE Dl!TryEscape(t)
  <2> USE <1>5 DEF Dl!TryEscape
  <2>1. Dl!TypeOK'
    BY DEF Dl!TypeOK
  <2>2. Dl!Places'
    BY DEF Dl!TypeOK, Dl!Places, Dl!ThreadsOf, Dl!ToSet
  <2>3. Dl!Owners'
    BY DEF Dl!TypeOK, Dl!Places, Dl!Owners
  <2>4. Dl!Stopped'
    BY DEF Dl!TypeOK, Dl!Places, Dl!Stopped
  <2> QED BY <2>1, <2>2, <2>3, <2>4
<1>6. CASE Dl!Unlock2(t)
  <2> USE <1>6 DEF Dl!Unlock2
  <2>1. Dl!TypeOK'
    BY DEF Dl!TypeOK
  <2>2. Dl!Places'
    BY DEF Dl!TypeOK, Dl!Places, Dl!ThreadsOf, Dl!ToSet
  <2>3. Dl!Owners'
    <3>1. t \in {"ab", "ba", "aa"}
      BY DEF Dl!Places
    <3>2. CASE t = "aa"
      <4>1. dlMode = "aa"
        BY <3>2 DEF Dl!TypeOK, Dl!Places, Dl!ThreadsOf, Dl!ToSet
      <4>2. \A u \in {"ab", "ba", "book"} : dlPc[u] = "none"
        BY <4>1 DEF Dl!TypeOK, Dl!Places, Dl!ThreadsOf, Dl!ToSet
      <4>3. dlWork = "idle"
        BY <4>1 DEF Dl!Stopped
      <4> QED BY <3>2, <4>2, <4>3 DEF Dl!TypeOK, Dl!Owners
    <3>3. CASE t = "ab"
      BY <3>3 DEF Dl!TypeOK, Dl!Places, Dl!Owners
    <3>4. CASE t = "ba"
      BY <3>4 DEF Dl!TypeOK, Dl!Places, Dl!Owners
    <3> QED BY <3>1, <3>2, <3>3, <3>4
  <2>4. Dl!Stopped'
    BY DEF Dl!TypeOK, Dl!Places, Dl!Stopped
  <2> QED BY <2>1, <2>2, <2>3, <2>4
<1>7. CASE Dl!Unlock1(t)
  <2> USE <1>7 DEF Dl!Unlock1
  <2>1. Dl!TypeOK'
    BY DEF Dl!TypeOK
  <2>2. Dl!Places'
    BY DEF Dl!TypeOK, Dl!Places, Dl!ThreadsOf, Dl!ToSet
  <2>3. Dl!Owners'
    <3>1. t \in {"ab", "ba", "aa", "book"}
      BY DEF Dl!Places
    <3>2. CASE t = "aa"
      <4>1. dlMode = "aa"
        BY <3>2 DEF Dl!TypeOK, Dl!Places, Dl!ThreadsOf, Dl!ToSet
      <4>2. \A u \in {"ab", "ba", "book"} : dlPc[u] = "none"
        BY <4>1 DEF Dl!TypeOK, Dl!Places, Dl!ThreadsOf, Dl!ToSet
      <4>3. dlWork = "idle"
        BY <4>1 DEF Dl!Stopped
      <4> QED BY <3>2, <4>2, <4>3 DEF Dl!TypeOK, Dl!Owners
    <3>3. CASE t = "ab"
      BY <3>3 DEF Dl!TypeOK, Dl!Places, Dl!Owners
    <3>4. CASE t = "ba"
      BY <3>4 DEF Dl!TypeOK, Dl!Places, Dl!Owners
    <3>5. CASE t = "book"
      BY <3>5 DEF Dl!TypeOK, Dl!Places, Dl!Owners
    <3> QED BY <3>1, <3>2, <3>3, <3>4, <3>5
  <2>4. Dl!Stopped'
    BY DEF Dl!TypeOK, Dl!Places, Dl!Stopped
  <2> QED BY <2>1, <2>2, <2>3, <2>4
<1>8. CASE Dl!Loop(t)
  <2> USE <1>8 DEF Dl!Loop
  <2>1. Dl!TypeOK'
    BY DEF Dl!TypeOK
  <2>2. Dl!Places'
    BY DEF Dl!TypeOK, Dl!Places, Dl!ThreadsOf, Dl!ToSet
  <2>3. Dl!Owners'
    BY DEF Dl!TypeOK, Dl!Places, Dl!Owners
  <2>4. Dl!Stopped'
    BY DEF Dl!TypeOK, Dl!Places, Dl!Stopped
  <2> QED BY <2>1, <2>2, <2>3, <2>4
<1> QED BY <1>1, <1>2, <1>3, <1>4, <1>5, <1>6, <1>7, <1>8

\* The double lock of mode 1, the worker of mode 4 and the watchdog.
LEMMA DlOtherSteps ==
  ASSUME Dl!DlInv,
         Dl!AaLock2 \/ Dl!AaWake \/ Dl!CancelSync \/ Dl!WorkStart \/ Dl!WorkTryLock \/ Dl!WorkGiveUp \/
         Dl!WorkUnlock \/ Dl!WatchFire \/ Dl!SendSig
  PROVE  Dl!DlInv'
<1> USE DEF Dl!DlInv, Dl!Threads, Dl!Mutexes, Dl!NoOwner, Dl!Goto, Dl!FirstOf, Dl!SecondOf, Dl!LabModes
<1>1. CASE Dl!AaLock2
  <2> USE <1>1 DEF Dl!AaLock2
  <2>1. Dl!TypeOK'
    BY DEF Dl!TypeOK
  <2>2. Dl!Places'
    BY DEF Dl!TypeOK, Dl!Places, Dl!ThreadsOf, Dl!ToSet
  <2>3. Dl!Owners'
    BY DEF Dl!TypeOK, Dl!Places, Dl!Owners
  <2>4. Dl!Stopped'
    BY DEF Dl!TypeOK, Dl!Places, Dl!Stopped
  <2> QED BY <2>1, <2>2, <2>3, <2>4
<1>2. CASE Dl!AaWake
  <2> USE <1>2 DEF Dl!AaWake
  <2>1. Dl!TypeOK'
    BY DEF Dl!TypeOK
  <2>2. Dl!Places'
    BY DEF Dl!TypeOK, Dl!Places, Dl!ThreadsOf, Dl!ToSet
  <2>3. Dl!Owners'
    BY DEF Dl!TypeOK, Dl!Places, Dl!Owners
  <2>4. Dl!Stopped'
    BY DEF Dl!TypeOK, Dl!Places, Dl!Stopped
  <2> QED BY <2>1, <2>2, <2>3, <2>4
<1>3. CASE Dl!CancelSync
  <2> USE <1>3 DEF Dl!CancelSync
  <2>1. Dl!TypeOK'
    BY DEF Dl!TypeOK
  <2>2. Dl!Places'
    BY DEF Dl!TypeOK, Dl!Places, Dl!ThreadsOf, Dl!ToSet
  <2>3. Dl!Owners'
    BY DEF Dl!TypeOK, Dl!Places, Dl!Owners
  <2>4. Dl!Stopped'
    BY DEF Dl!TypeOK, Dl!Places, Dl!Stopped
  <2> QED BY <2>1, <2>2, <2>3, <2>4
<1>4. CASE Dl!WorkStart
  <2> USE <1>4 DEF Dl!WorkStart
  <2>1. Dl!TypeOK'
    BY DEF Dl!TypeOK
  <2>2. Dl!Places'
    BY DEF Dl!TypeOK, Dl!Places, Dl!ThreadsOf, Dl!ToSet
  <2>3. Dl!Owners'
    BY DEF Dl!TypeOK, Dl!Places, Dl!Owners
  <2>4. Dl!Stopped'
    BY DEF Dl!TypeOK, Dl!Places, Dl!Stopped
  <2> QED BY <2>1, <2>2, <2>3, <2>4
<1>5. CASE Dl!WorkTryLock
  <2> USE <1>5 DEF Dl!WorkTryLock
  <2>1. Dl!TypeOK'
    BY DEF Dl!TypeOK
  <2>2. Dl!Places'
    BY DEF Dl!TypeOK, Dl!Places, Dl!ThreadsOf, Dl!ToSet
  <2>3. Dl!Owners'
    BY DEF Dl!TypeOK, Dl!Places, Dl!Owners
  <2>4. Dl!Stopped'
    BY DEF Dl!TypeOK, Dl!Places, Dl!Stopped
  <2> QED BY <2>1, <2>2, <2>3, <2>4
<1>6. CASE Dl!WorkGiveUp
  <2> USE <1>6 DEF Dl!WorkGiveUp
  <2>1. Dl!TypeOK'
    BY DEF Dl!TypeOK
  <2>2. Dl!Places'
    BY DEF Dl!TypeOK, Dl!Places, Dl!ThreadsOf, Dl!ToSet
  <2>3. Dl!Owners'
    BY DEF Dl!TypeOK, Dl!Places, Dl!Owners
  <2>4. Dl!Stopped'
    BY DEF Dl!TypeOK, Dl!Places, Dl!Stopped
  <2> QED BY <2>1, <2>2, <2>3, <2>4
<1>7. CASE Dl!WorkUnlock
  <2> USE <1>7 DEF Dl!WorkUnlock
  <2>1. Dl!TypeOK'
    BY DEF Dl!TypeOK
  <2>2. Dl!Places'
    BY DEF Dl!TypeOK, Dl!Places, Dl!ThreadsOf, Dl!ToSet
  <2>3. Dl!Owners'
    BY DEF Dl!TypeOK, Dl!Places, Dl!Owners
  <2>4. Dl!Stopped'
    BY DEF Dl!TypeOK, Dl!Places, Dl!Stopped
  <2> QED BY <2>1, <2>2, <2>3, <2>4
<1>8. CASE Dl!WatchFire
  <2> USE <1>8 DEF Dl!WatchFire
  <2>1. Dl!TypeOK'
    BY DEF Dl!TypeOK
  <2>2. Dl!Places'
    BY DEF Dl!TypeOK, Dl!Places, Dl!ThreadsOf, Dl!ToSet
  <2>3. Dl!Owners'
    BY DEF Dl!TypeOK, Dl!Places, Dl!Owners
  <2>4. Dl!Stopped'
    BY DEF Dl!TypeOK, Dl!Places, Dl!Stopped
  <2> QED BY <2>1, <2>2, <2>3, <2>4
<1>9. CASE Dl!SendSig
  <2> USE <1>9 DEF Dl!SendSig
  <2>1. Dl!TypeOK'
    BY DEF Dl!TypeOK
  <2>2. Dl!Places'
    BY DEF Dl!TypeOK, Dl!Places, Dl!ThreadsOf, Dl!ToSet
  <2>3. Dl!Owners'
    BY DEF Dl!TypeOK, Dl!Places, Dl!Owners
  <2>4. Dl!Stopped'
    BY DEF Dl!TypeOK, Dl!Places, Dl!Stopped
  <2> QED BY <2>1, <2>2, <2>3, <2>4
<1> QED BY <1>1, <1>2, <1>3, <1>4, <1>5, <1>6, <1>7, <1>8, <1>9

\* dl_lab_init() and dl_lab_exit().
LEMMA DlModuleSteps ==
  ASSUME DlModes \subseteq Dl!LabModes, DlTimeliness \subseteq BOOLEAN, Dl!DlInv,
         Dl!Insmod \/ Dl!Rmmod \/ Dl!KthreadStop \/ Dl!KthreadJoin \/ Dl!ExitDone
  PROVE  Dl!DlInv'
<1> USE DEF Dl!DlInv, Dl!Threads, Dl!Mutexes, Dl!NoOwner, Dl!Goto, Dl!FirstOf, Dl!SecondOf, Dl!LabModes
<1>1. CASE Dl!Insmod
  <2> USE <1>1 DEF Dl!Insmod
  <2>1. Dl!TypeOK'
    BY DEF Dl!TypeOK
  <2>2. Dl!Places'
    BY DEF Dl!TypeOK, Dl!Places, Dl!ThreadsOf, Dl!ToSet
  <2>3. Dl!Owners'
    BY DEF Dl!TypeOK, Dl!Places, Dl!Owners
  <2>4. Dl!Stopped'
    BY DEF Dl!TypeOK, Dl!Places, Dl!Stopped
  <2> QED BY <2>1, <2>2, <2>3, <2>4
<1>2. CASE Dl!Rmmod
  <2> USE <1>2 DEF Dl!Rmmod
  <2>1. Dl!TypeOK'
    BY DEF Dl!TypeOK
  <2>2. Dl!Places'
    BY DEF Dl!TypeOK, Dl!Places, Dl!ThreadsOf, Dl!ToSet
  <2>3. Dl!Owners'
    BY DEF Dl!TypeOK, Dl!Places, Dl!Owners
  <2>4. Dl!Stopped'
    <3>1. dlMode \in Dl!LabModes /\ dlPhase' = "stop" /\ dlStopping' = Dl!ThreadsOf(dlMode) /\ dlPc' = dlPc
          /\ dlWork' = dlWork /\ dlMode' = dlMode
      BY DEF Dl!TypeOK, Dl!Places
    <3>2. Dl!ThreadsOf(dlMode) \in Seq(Dl!Threads)
      <4>1. /\ <<"watch", "aa">> \in Seq(Dl!Threads) /\ <<"watch", "ab", "ba">> \in Seq(Dl!Threads)
            /\ <<"ab", "ba">> \in Seq(Dl!Threads) /\ <<"book">> \in Seq(Dl!Threads)
        OBVIOUS
      <4> QED BY <3>1, <4>1 DEF Dl!ThreadsOf
    <3>3. ASSUME NEW t \in Dl!Threads, dlPc[t] # "none"
          PROVE  \E i \in 1..Len(Dl!ThreadsOf(dlMode)) : Dl!ThreadsOf(dlMode)[i] = t
      <4>1. t \in Dl!ToSet(Dl!ThreadsOf(dlMode))
        BY <3>1, <3>3 DEF Dl!Places
      <4> QED BY <3>2, <4>1 DEF Dl!ToSet
    <3> QED BY <3>1, <3>2, <3>3 DEF Dl!Stopped
  <2> QED BY <2>1, <2>2, <2>3, <2>4
<1>3. CASE Dl!KthreadStop
  <2> USE <1>3 DEF Dl!KthreadStop
  <2>1. Dl!TypeOK'
    <3>1. Head(dlStopping) \in Dl!Threads
      BY DEF Dl!Stopped
    <3> QED BY <3>1 DEF Dl!TypeOK
  <2>2. Dl!Places'
    BY DEF Dl!TypeOK, Dl!Places, Dl!ThreadsOf, Dl!ToSet
  <2>3. Dl!Owners'
    BY DEF Dl!TypeOK, Dl!Places, Dl!Owners
  <2>4. Dl!Stopped'
    BY DEF Dl!TypeOK, Dl!Places, Dl!Stopped
  <2> QED BY <2>1, <2>2, <2>3, <2>4
<1>4. CASE Dl!KthreadJoin
  <2> USE <1>4 DEF Dl!KthreadJoin
  <2>1. Dl!TypeOK'
    BY DEF Dl!TypeOK
  <2>2. Dl!Places'
    BY DEF Dl!TypeOK, Dl!Places, Dl!ThreadsOf, Dl!ToSet
  <2>3. Dl!Owners'
    BY DEF Dl!TypeOK, Dl!Places, Dl!Owners
  <2>4. Dl!Stopped'
    <3>1. dlStopping \in Seq(Dl!Threads) /\ dlStopping # <<>> /\ dlStopping' = Tail(dlStopping)
          /\ dlPc[dlStopping[1]] = "exited" /\ dlPc' = dlPc /\ dlPhase = "stop" /\ dlPhase' = "stop"
          /\ dlWork' = dlWork /\ dlMode' = dlMode
      BY DEF Dl!Stopped
    <3>2. dlStopping' \in Seq(Dl!Threads) /\ Len(dlStopping') = Len(dlStopping) - 1
      BY <3>1
    <3>3. ASSUME NEW t \in Dl!Threads, dlPc[t] \notin {"none", "exited"}
          PROVE  \E i \in 1..Len(dlStopping') : dlStopping'[i] = t
      <4>1. PICK i \in 1..Len(dlStopping) : dlStopping[i] = t
        BY <3>1, <3>3 DEF Dl!Stopped
      <4>2. i # 1 /\ i - 1 \in 1..Len(dlStopping')
        BY <3>1, <3>2, <3>3, <4>1
      <4>3. dlStopping'[i - 1] = t
        BY <3>1, <4>1, <4>2
      <4> QED BY <4>2, <4>3
    <3> QED BY <3>1, <3>2, <3>3 DEF Dl!Stopped
  <2> QED BY <2>1, <2>2, <2>3, <2>4
<1>5. CASE Dl!ExitDone
  <2> USE <1>5 DEF Dl!ExitDone
  <2>1. Dl!TypeOK'
    BY DEF Dl!TypeOK
  <2>2. Dl!Places'
    BY DEF Dl!TypeOK, Dl!Places, Dl!ThreadsOf, Dl!ToSet
  <2>3. Dl!Owners'
    <3>1. dlWork # "hold"
      BY DEF Dl!Stopped
    <3> QED BY <3>1 DEF Dl!TypeOK, Dl!Owners
  <2>4. Dl!Stopped'
    BY DEF Dl!TypeOK, Dl!Places, Dl!Stopped
  <2> QED BY <2>1, <2>2, <2>3, <2>4
<1> QED BY <1>1, <1>2, <1>3, <1>4, <1>5

\* The inductive invariant of dl_lab.c.
LEMMA DlInvariant ==
  ASSUME DlModes \subseteq Dl!LabModes, DlTimeliness \subseteq BOOLEAN
  PROVE  /\ Dl!Init => Dl!DlInv
         /\ Dl!DlInv /\ [Dl!Next]_(Dl!vars) => Dl!DlInv'
<1>1. Dl!Init => Dl!DlInv
  <2> USE DEF Dl!Init, Dl!Threads, Dl!Mutexes, Dl!NoOwner
  <2>1. Dl!Init => Dl!TypeOK
    BY DEF Dl!TypeOK
  <2>2. Dl!Init => Dl!Places
    BY DEF Dl!Places, Dl!LabModes
  <2>3. Dl!Init => Dl!Owners
    BY DEF Dl!Owners, Dl!FirstOf, Dl!SecondOf
  <2>4. Dl!Init => Dl!Stopped
    BY DEF Dl!Stopped
  <2> QED BY <2>1, <2>2, <2>3, <2>4 DEF Dl!DlInv
<1>2. Dl!DlInv /\ UNCHANGED Dl!vars => Dl!DlInv'
  BY DEF Dl!vars, Dl!DlInv, Dl!TypeOK, Dl!Places, Dl!Owners, Dl!Stopped
<1> QED BY <1>1, <1>2, DlThreadSteps, DlOtherSteps, DlModuleSteps
        DEF Dl!Next, Dl!Run, Dl!Aa, Dl!Worker, Dl!Watch, Dl!Exit, Dl!Unloaded

\* A mutex is unlocked only by the thread that holds it.
LEMMA DlUnlockByOwner == Dl!DlInv => Dl!UnlockByOwner
BY DEF Dl!DlInv, Dl!Owners, Dl!Places, Dl!UnlockByOwner, Dl!FirstOf, Dl!SecondOf, Dl!Threads

\* Nothing of the module is left once rmmod has returned: whoever still held a
\* mutex would be a thread that has not exited, or work that is not idle.
LEMMA DlUnloadClean == Dl!DlInv => Dl!UnloadClean
BY DEF Dl!DlInv, Dl!TypeOK, Dl!Owners, Dl!Stopped, Dl!UnloadClean, Dl!Created, Dl!FirstOf, Dl!SecondOf, Dl!Threads, Dl!Mutexes, Dl!NoOwner

-----------------------------------------------------------------------------
(* rwsem_lab.c and arm64_lab.c.                                            *)

\* The elements of a sequence.
LEMMA RwSeqSet == ASSUME NEW S, NEW s \in Seq(S) PROVE Rw!ToSet(s) \subseteq S
BY DEF Rw!ToSet

\* holder_fn(), reader_fn(), writer2_fn() and the frames of lab_main().
LEMMA RwThreadSteps ==
  ASSUME NEW t \in Rw!Threads, Rw!RwInv,
         Rw!Down(t) \/ Rw!Granted(t) \/ Rw!Up(t) \/ Rw!Loop(t)
  PROVE  Rw!RwInv'
<1> USE DEF Rw!RwInv, Rw!Threads, Rw!SpawnOrder, Rw!StopOrder, Rw!Writers, Rw!sem, Rw!fp
<1>1. CASE Rw!Down(t)
  <2> USE <1>1 DEF Rw!Down, Rw!Get, Rw!CanGet, Rw!AtDown, Rw!Unborn
  <2>1. Rw!TypeOK'
    <3>1. rwWaitList' \in Seq(Rw!Threads \cup {"insmod"})
      BY DEF Rw!Semaphore
    <3>2. Rw!ToSet(rwWaitList') \subseteq Rw!Threads \cup {"insmod"}
      BY <3>1, RwSeqSet
    <3>3. rwPc' \in [Rw!Threads -> {"none", "new", "err", "waiting", "holding", "loop", "exited"}]
      BY DEF Rw!TypeOK
    <3>4. Rw!Get(t) \/ UNCHANGED <<rwWriter, rwReaders>>
      OBVIOUS
    <3>5. rwWriter' \in SUBSET Rw!Writers /\ rwReaders' \in SUBSET Rw!Threads
      <4> HIDE DEF Rw!Down, Rw!CanGet, Rw!AtDown, Rw!Unborn
      <4> QED BY <3>4 DEF Rw!TypeOK
    <3> QED BY <3>2, <3>3, <3>5 DEF Rw!TypeOK
  <2>2. Rw!Spawned'
    BY DEF Rw!TypeOK, Rw!Spawned
  <2>3. Rw!Semaphore'
    <3>0. rwPc \in [Rw!Threads -> {"none", "new", "err", "waiting", "holding", "loop", "exited"}]
          /\ rwPc[t] = "new" /\ t \notin rwWriter \cup rwReaders /\ t # "insmod"
          /\ \A i \in 1..Len(rwWaitList) : rwWaitList[i] # t
      BY DEF Rw!TypeOK, Rw!Semaphore
    <3>1. CASE Rw!Unborn(t) /\ rwPc' = [rwPc EXCEPT ![t] = "exited"] /\ UNCHANGED Rw!sem
      BY <3>0, <3>1 DEF Rw!Semaphore
    <3>2. CASE Rw!Get(t) /\ Rw!CanGet(t) /\ rwWaitList = <<>> /\ rwPc' = [rwPc EXCEPT ![t] = "holding"] /\ UNCHANGED rwWaitList
      <4>1. rwWaitList' = rwWaitList /\ \A u \in Rw!Threads : (rwPc'[u] = "waiting" <=> rwPc[u] = "waiting")
        BY <3>0, <3>2
      <4>2. \A u \in Rw!Threads : rwPc'[u] = "holding" <=> u \in rwWriter' \cup rwReaders'
        BY <3>0, <3>2 DEF Rw!Semaphore
      <4>3. "insmod" \in rwWriter' => rwMode' = 2
        BY <3>2 DEF Rw!Semaphore
      <4> QED BY <4>1, <4>2, <4>3 DEF Rw!Semaphore
    <3>3. CASE rwWaitList' = Append(rwWaitList, t) /\ rwPc' = [rwPc EXCEPT ![t] = "waiting"]
               /\ UNCHANGED <<rwWriter, rwReaders>>
      <4>1. rwWaitList \in Seq(Rw!Threads \cup {"insmod"})
        BY DEF Rw!Semaphore
      <4>2. rwWaitList' \in Seq(Rw!Threads \cup {"insmod"}) /\ Len(rwWaitList') = Len(rwWaitList) + 1
            /\ Len(rwWaitList) \in Nat /\ rwWaitList'[Len(rwWaitList) + 1] = t
            /\ \A i \in 1..Len(rwWaitList) : rwWaitList'[i] = rwWaitList[i]
        BY <3>3, <4>1
      <4>3. \A u \in Rw!Threads : rwPc'[u] = "waiting" <=> \E i \in 1..Len(rwWaitList') : rwWaitList'[i] = u
        <5>1. ASSUME NEW u \in Rw!Threads, u # t
              PROVE  (\E i \in 1..Len(rwWaitList') : rwWaitList'[i] = u)
                       <=> (\E i \in 1..Len(rwWaitList) : rwWaitList[i] = u)
          BY <4>2, <5>1
        <5> QED BY <3>0, <3>3, <4>2, <5>1 DEF Rw!Semaphore
      <4>4. \A i, j \in 1..Len(rwWaitList') : rwWaitList'[i] = rwWaitList'[j] => i = j
        BY <3>0, <4>2 DEF Rw!Semaphore
      <4>5. (\E i \in 1..Len(rwWaitList') : rwWaitList'[i] = "insmod") => rwPhase' = "stuck"
        <5> SUFFICES ASSUME NEW i \in 1..Len(rwWaitList'), rwWaitList'[i] = "insmod" PROVE rwPhase = "stuck"
          OBVIOUS
        <5>1. i \in 1..Len(rwWaitList) /\ rwWaitList[i] = "insmod"
          BY <3>0, <4>2
        <5> QED BY <5>1 DEF Rw!Semaphore
      <4>6. \A u \in Rw!Threads : rwPc'[u] = "holding" <=> u \in rwWriter' \cup rwReaders'
        BY <3>0, <3>3 DEF Rw!Semaphore
      <4>7. "insmod" \in rwWriter' => rwMode' = 2
        BY <3>3 DEF Rw!Semaphore
      <4> QED BY <4>2, <4>3, <4>4, <4>5, <4>6, <4>7 DEF Rw!Semaphore
    <3> QED BY <3>1, <3>2, <3>3
  <2>4. Rw!Stopped'
    BY DEF Rw!TypeOK, Rw!Stopped
  <2>5. Rw!Queueing'
    <3> SUFFICES ASSUME rwTimely, rwMode \in {1, 3}, rwPhase \in {"init", "loaded"}, \A u \in Rw!Threads : rwPc'[u] # "err"
                 PROVE  Rw!Queueing'
      BY DEF Rw!Queueing
    <3>1. rwStop = {} /\ (\A u \in Rw!Threads : rwPc[u] # "err")
          /\ rwPc \in [Rw!Threads -> {"none", "new", "err", "waiting", "holding", "loop", "exited"}]
      BY DEF Rw!Stopped, Rw!TypeOK
    <3>2. /\ rwPc["holder"] \in {"none", "new", "holding"}
          /\ rwPc["rd1"] \in {"none", "new", "waiting"} /\ rwPc["wr2"] \in {"none", "new", "waiting"}
          /\ rwPc["rd1"] # "none" => rwPc["holder"] = "holding"
          /\ rwPc["wr2"] # "none" => rwPc["rd1"] = "waiting"
          /\ rwReaders = {} /\ rwWriter = IF rwPc["holder"] = "holding" THEN {"holder"} ELSE {}
          /\ rwWaitList = IF rwPc["rd1"] # "waiting" THEN <<>>
                          ELSE IF rwPc["wr2"] # "waiting" THEN <<"rd1">> ELSE <<"rd1", "wr2">>
          /\ rwMode = 3 /\ rwPc["rd1"] = "waiting" => rwFrames = 3
          /\ rwPhase = "loaded" => rwPc["wr2"] = "waiting"
          /\ rwPhase = "loaded" /\ rwMode = 3 => rwAnswer = 3
      BY <3>1 DEF Rw!Queueing
    <3>3. CASE t = "holder"
      BY <3>1, <3>2, <3>3 DEF Rw!Queueing
    <3>4. CASE t = "rd1"
      BY <3>1, <3>2, <3>4 DEF Rw!Queueing
    <3>5. CASE t = "wr2"
      <4>1. rwWaitList = <<"rd1">> /\ rwWriter = {"holder"} /\ rwWaitList' = <<"rd1", "wr2">>
        BY <3>1, <3>2, <3>5
      <4> QED BY <3>1, <3>2, <3>5, <4>1 DEF Rw!Queueing
    <3> QED BY <3>3, <3>4, <3>5
  <2> QED BY <2>1, <2>2, <2>3, <2>4, <2>5
<1>2. CASE Rw!Granted(t)
  <2> USE <1>2 DEF Rw!Granted, Rw!Get, Rw!CanGet
  <2>1. Rw!TypeOK'
    <3>1. rwWaitList' \in Seq(Rw!Threads \cup {"insmod"})
      BY DEF Rw!Semaphore
    <3>2. Rw!ToSet(rwWaitList') \subseteq Rw!Threads \cup {"insmod"}
      BY <3>1, RwSeqSet
    <3>3. rwPc' \in [Rw!Threads -> {"none", "new", "err", "waiting", "holding", "loop", "exited"}]
      BY DEF Rw!TypeOK
    <3>4. rwWriter' \in SUBSET Rw!Writers /\ rwReaders' \in SUBSET Rw!Threads
      BY DEF Rw!TypeOK
    <3> QED BY <3>2, <3>3, <3>4 DEF Rw!TypeOK
  <2>2. Rw!Spawned'
    BY DEF Rw!TypeOK, Rw!Spawned
  <2>3. Rw!Semaphore'
    <3>0. rwPc \in [Rw!Threads -> {"none", "new", "err", "waiting", "holding", "loop", "exited"}]
          /\ rwPc[t] = "waiting" /\ t # "insmod" /\ rwPc' = [rwPc EXCEPT ![t] = "holding"]
      BY DEF Rw!TypeOK
    <3>1. rwWaitList \in Seq(Rw!Threads \cup {"insmod"}) /\ rwWaitList # <<>>
          /\ \A i, j \in 1..Len(rwWaitList) : rwWaitList[i] = rwWaitList[j] => i = j
      BY <3>0 DEF Rw!Semaphore
    <3>2. rwWaitList' \in Seq(Rw!Threads \cup {"insmod"}) /\ Len(rwWaitList') = Len(rwWaitList) - 1
          /\ Len(rwWaitList) \in Nat \ {0} /\ rwWaitList[1] = t
          /\ \A i \in 1..Len(rwWaitList') : rwWaitList'[i] = rwWaitList[i + 1]
      BY <3>1
    <3>3. \A u \in Rw!Threads : rwPc'[u] = "waiting" <=> \E i \in 1..Len(rwWaitList') : rwWaitList'[i] = u
      <4>1. ASSUME NEW u \in Rw!Threads, u # t, NEW i \in 1..Len(rwWaitList), rwWaitList[i] = u
            PROVE  \E j \in 1..Len(rwWaitList') : rwWaitList'[j] = u
        <5>1. i # 1 /\ i - 1 \in 1..Len(rwWaitList')
          BY <3>2, <4>1
        <5> QED BY <3>2, <4>1, <5>1
      <4>2. ASSUME NEW i \in 1..Len(rwWaitList')
            PROVE  rwWaitList'[i] # t /\ \E j \in 1..Len(rwWaitList) : rwWaitList[j] = rwWaitList'[i]
        <5>1. i + 1 \in 1..Len(rwWaitList) /\ i + 1 # 1
          BY <3>2
        <5> QED BY <3>1, <3>2, <5>1
      <4> QED BY <3>0, <4>1, <4>2 DEF Rw!Semaphore
    <3>4. \A i, j \in 1..Len(rwWaitList') : rwWaitList'[i] = rwWaitList'[j] => i = j
      <4> SUFFICES ASSUME NEW i \in 1..Len(rwWaitList'), NEW j \in 1..Len(rwWaitList'), rwWaitList'[i] = rwWaitList'[j]
                   PROVE  i = j
        OBVIOUS
      <4>1. i + 1 \in 1..Len(rwWaitList) /\ j + 1 \in 1..Len(rwWaitList)
        BY <3>2
      <4>2. i + 1 = j + 1
        BY <3>1, <3>2, <4>1
      <4> QED BY <3>2, <4>2
    <3>5. (\E i \in 1..Len(rwWaitList') : rwWaitList'[i] = "insmod") => rwPhase' = "stuck"
      <4> SUFFICES ASSUME NEW i \in 1..Len(rwWaitList'), rwWaitList'[i] = "insmod" PROVE rwPhase = "stuck"
        OBVIOUS
      <4>1. i + 1 \in 1..Len(rwWaitList) /\ rwWaitList[i + 1] = "insmod"
        BY <3>2
      <4> QED BY <4>1 DEF Rw!Semaphore
    <3>6. \A u \in Rw!Threads : rwPc'[u] = "holding" <=> u \in rwWriter' \cup rwReaders'
      BY <3>0 DEF Rw!Semaphore
    <3>7. "insmod" \in rwWriter' => rwMode' = 2
      BY DEF Rw!Semaphore
    <3> QED BY <3>2, <3>3, <3>4, <3>5, <3>6, <3>7 DEF Rw!Semaphore
  <2>4. Rw!Stopped'
    BY DEF Rw!TypeOK, Rw!Stopped
  <2>5. Rw!Queueing'
    BY DEF Rw!TypeOK, Rw!Spawned, Rw!Stopped, Rw!Queueing
  <2> QED BY <2>1, <2>2, <2>3, <2>4, <2>5
<1>3. CASE Rw!Up(t)
  <2> USE <1>3 DEF Rw!Up, Rw!Release
  <2>1. Rw!TypeOK'
    BY DEF Rw!TypeOK
  <2>2. Rw!Spawned'
    BY DEF Rw!TypeOK, Rw!Spawned
  <2>3. Rw!Semaphore'
    <3>1. rwPc \in [Rw!Threads -> {"none", "new", "err", "waiting", "holding", "loop", "exited"}]
          /\ rwPc' = [rwPc EXCEPT ![t] = "loop"] /\ rwPc[t] = "holding" /\ rwWaitList' = rwWaitList
          /\ rwWriter' = rwWriter \ {t} /\ rwReaders' = rwReaders \ {t} /\ rwMode' = rwMode /\ rwPhase' = rwPhase
      BY DEF Rw!TypeOK
    <3>2. \A u \in Rw!Threads : rwPc'[u] = "holding" <=> u \in rwWriter' \cup rwReaders'
      BY <3>1 DEF Rw!Semaphore
    <3>3. \A u \in Rw!Threads : rwPc'[u] = "waiting" <=> rwPc[u] = "waiting"
      BY <3>1
    <3> QED BY <3>1, <3>2, <3>3 DEF Rw!Semaphore
  <2>4. Rw!Stopped'
    BY DEF Rw!TypeOK, Rw!Stopped
  <2>5. Rw!Queueing'
    <3>1. rwPc[t] = "holding" /\ (t = "holder" => rwReleaseNow \/ t \in rwStop)
          /\ rwPc' = [rwPc EXCEPT ![t] = "loop"] /\ rwMode' = rwMode /\ rwTimely' = rwTimely /\ rwPhase' = rwPhase
          /\ rwPc \in [Rw!Threads -> {"none", "new", "err", "waiting", "holding", "loop", "exited"}]
      BY DEF Rw!TypeOK
    <3>2. rwPhase \in {"init", "loaded"} => t # "holder"
      BY <3>1 DEF Rw!Stopped
    <3>3. t # "holder" => ~(rwTimely /\ rwMode \in {1, 3} /\ rwPhase \in {"init", "loaded"}
                             /\ \A u \in Rw!Threads : rwPc[u] # "err")
      BY <3>1 DEF Rw!Queueing
    <3>4. (\A u \in Rw!Threads : rwPc'[u] # "err") => \A u \in Rw!Threads : rwPc[u] # "err"
      BY <3>1
    <3> QED BY <3>1, <3>2, <3>3, <3>4 DEF Rw!Queueing
  <2> QED BY <2>1, <2>2, <2>3, <2>4, <2>5
<1>4. CASE Rw!Loop(t)
  <2> USE <1>4 DEF Rw!Loop
  <2>1. Rw!TypeOK'
    BY DEF Rw!TypeOK
  <2>2. Rw!Spawned'
    BY DEF Rw!TypeOK, Rw!Spawned
  <2>3. Rw!Semaphore'
    BY DEF Rw!TypeOK, Rw!Semaphore
  <2>4. Rw!Stopped'
    BY DEF Rw!TypeOK, Rw!Stopped
  <2>5. Rw!Queueing'
    BY DEF Rw!TypeOK, Rw!Spawned, Rw!Stopped, Rw!Queueing
  <2> QED BY <2>1, <2>2, <2>3, <2>4, <2>5
<1> QED BY <1>1, <1>2, <1>3, <1>4

\* lab_init(), with the frames its reader stores meanwhile.
LEMMA RwInitSteps ==
  ASSUME RwModes \subseteq 1..3, RwTimeliness \subseteq BOOLEAN, Rw!RwInv,
         Rw!Load \/ Rw!Spawn \/ Rw!InitDone \/ Rw!BookFails \/ Rw!BookDownWrite \/ Rw!CreateOops \/ Rw!Frame
  PROVE  Rw!RwInv'
<1> USE DEF Rw!RwInv, Rw!Threads, Rw!SpawnOrder, Rw!StopOrder, Rw!Writers, Rw!sem, Rw!fp
<1>1. CASE Rw!Load
  <2> USE <1>1 DEF Rw!Load
  <2>1. Rw!TypeOK'
    BY DEF Rw!TypeOK
  <2>2. Rw!Spawned'
    BY DEF Rw!TypeOK, Rw!Spawned
  <2>3. Rw!Semaphore'
    <3>1. rwMode = 0
      BY DEF Rw!Spawned
    <3> QED BY <3>1 DEF Rw!TypeOK, Rw!Semaphore
  <2>4. Rw!Stopped'
    BY DEF Rw!TypeOK, Rw!Stopped
  <2>5. Rw!Queueing'
    <3>1. rwSpawning = <<"holder", "rd1", "wr2">>
      BY DEF Rw!Spawned
    <3>2. \A t \in Rw!Threads : rwPc[t] = "none"
      BY <3>1 DEF Rw!Spawned
    <3>3. rwWriter = {} /\ rwReaders = {}
      BY <3>2 DEF Rw!TypeOK, Rw!Spawned, Rw!Semaphore
    <3>4. rwWaitList = <<>>
      <4>1. rwWaitList \in Seq(Rw!Threads \cup {"insmod"}) /\ rwPhase # "stuck"
        BY DEF Rw!Semaphore
      <4>2. SUFFICES ASSUME rwWaitList # <<>> PROVE FALSE
        OBVIOUS
      <4>3. 1 \in 1..Len(rwWaitList) /\ rwWaitList[1] \in Rw!Threads \cup {"insmod"}
        BY <4>1, <4>2
      <4> QED BY <3>2, <4>1, <4>3 DEF Rw!Semaphore
    <3> QED BY <3>2, <3>3, <3>4 DEF Rw!Queueing
  <2> QED BY <2>1, <2>2, <2>3, <2>4, <2>5
<1>2. CASE Rw!Spawn
  <2> USE <1>2 DEF Rw!Spawn, Rw!Arrived
  <2>1. Rw!TypeOK'
    BY DEF Rw!TypeOK
  <2>2. Rw!Spawned'
    <3>1. /\ rwSpawning' = Tail(rwSpawning) /\ rwPhase = "init" /\ rwPhase' = "init" /\ rwMode' = rwMode /\ rwMode \in {1, 3}
          /\ rwSpawning \in {<<"holder", "rd1", "wr2">>, <<"rd1", "wr2">>, <<"wr2">>}
          /\ rwPc \in [Rw!Threads -> {"none", "new", "err", "waiting", "holding", "loop", "exited"}]
      BY DEF Rw!TypeOK, Rw!Spawned
    <3>2. PICK how \in {"new", "err"} : rwPc' = [rwPc EXCEPT ![Head(rwSpawning)] = how]
      OBVIOUS
    <3>3. CASE rwSpawning = <<"holder", "rd1", "wr2">>
      <4>1. Head(rwSpawning) = "holder" /\ rwSpawning' = <<"rd1", "wr2">>
        BY <3>1, <3>3
      <4> QED BY <3>1, <3>2, <3>3, <4>1 DEF Rw!Spawned
    <3>4. CASE rwSpawning = <<"rd1", "wr2">>
      <4>1. Head(rwSpawning) = "rd1" /\ rwSpawning' = <<"wr2">>
        BY <3>1, <3>4
      <4> QED BY <3>1, <3>2, <3>4, <4>1 DEF Rw!Spawned
    <3>5. CASE rwSpawning = <<"wr2">>
      <4>1. Head(rwSpawning) = "wr2" /\ rwSpawning' = <<>>
        BY <3>1, <3>5
      <4> QED BY <3>1, <3>2, <3>5, <4>1 DEF Rw!Spawned
    <3> QED BY <3>1, <3>3, <3>4, <3>5
  <2>3. Rw!Semaphore'
    <3>1. Head(rwSpawning) \in Rw!Threads /\ rwPc[Head(rwSpawning)] = "none"
          /\ rwPc \in [Rw!Threads -> {"none", "new", "err", "waiting", "holding", "loop", "exited"}]
      BY DEF Rw!TypeOK, Rw!Spawned
    <3>2. PICK how \in {"new", "err"} : rwPc' = [rwPc EXCEPT ![Head(rwSpawning)] = how]
      OBVIOUS
    <3>3. \A t \in Rw!Threads : /\ rwPc'[t] = "holding" <=> rwPc[t] = "holding"
                                /\ rwPc'[t] = "waiting" <=> rwPc[t] = "waiting"
      BY <3>1, <3>2
    <3> QED BY <3>3 DEF Rw!Semaphore
  <2>4. Rw!Stopped'
    BY DEF Rw!TypeOK, Rw!Stopped
  <2>5. Rw!Queueing'
    BY DEF Rw!TypeOK, Rw!Spawned, Rw!Stopped, Rw!Queueing
  <2> QED BY <2>1, <2>2, <2>3, <2>4, <2>5
<1>3. CASE Rw!InitDone
  <2> USE <1>3 DEF Rw!InitDone, Rw!Arrived
  <2>1. Rw!TypeOK'
    BY DEF Rw!TypeOK
  <2>2. Rw!Spawned'
    BY DEF Rw!TypeOK, Rw!Spawned
  <2>3. Rw!Semaphore'
    BY DEF Rw!TypeOK, Rw!Semaphore
  <2>4. Rw!Stopped'
    BY DEF Rw!TypeOK, Rw!Stopped
  <2>5. Rw!Queueing'
    BY DEF Rw!TypeOK, Rw!Spawned, Rw!Stopped, Rw!Queueing
  <2> QED BY <2>1, <2>2, <2>3, <2>4, <2>5
<1>4. CASE Rw!BookFails
  <2> USE <1>4 DEF Rw!BookFails
  <2>1. Rw!TypeOK'
    BY DEF Rw!TypeOK
  <2>2. Rw!Spawned'
    BY DEF Rw!TypeOK, Rw!Spawned
  <2>3. Rw!Semaphore'
    BY DEF Rw!TypeOK, Rw!Semaphore
  <2>4. Rw!Stopped'
    BY DEF Rw!TypeOK, Rw!Stopped
  <2>5. Rw!Queueing'
    BY DEF Rw!TypeOK, Rw!Spawned, Rw!Stopped, Rw!Queueing
  <2> QED BY <2>1, <2>2, <2>3, <2>4, <2>5
<1>5. CASE Rw!BookDownWrite
  <2> USE <1>5 DEF Rw!BookDownWrite
  <2>1. Rw!TypeOK'
    BY DEF Rw!TypeOK
  <2>2. Rw!Spawned'
    BY DEF Rw!TypeOK, Rw!Spawned
  <2>3. Rw!Semaphore'
    <3>1. \A t \in Rw!Threads : rwPc[t] = "none"
      BY DEF Rw!Spawned
    <3> QED BY <3>1 DEF Rw!Semaphore
  <2>4. Rw!Stopped'
    BY DEF Rw!TypeOK, Rw!Stopped
  <2>5. Rw!Queueing'
    BY DEF Rw!TypeOK, Rw!Spawned, Rw!Stopped, Rw!Queueing
  <2> QED BY <2>1, <2>2, <2>3, <2>4, <2>5
<1>6. CASE Rw!CreateOops
  <2> USE <1>6 DEF Rw!CreateOops
  <2>1. Rw!TypeOK'
    <3>1. rwWaitList' \in Seq(Rw!Threads \cup {"insmod"})
      BY DEF Rw!Semaphore
    <3>2. Rw!ToSet(rwWaitList') \subseteq Rw!Threads \cup {"insmod"}
      BY <3>1, RwSeqSet
    <3> QED BY <3>2 DEF Rw!TypeOK
  <2>2. Rw!Spawned'
    BY DEF Rw!TypeOK, Rw!Spawned
  <2>3. Rw!Semaphore'
    <3>0. rwMode = 2 /\ rwSpawning = <<"holder", "rd1", "wr2">>
      BY DEF Rw!Spawned
    <3>1. \A t \in Rw!Threads : rwPc[t] = "none"
      BY <3>0 DEF Rw!Spawned
    <3>2. /\ rwWaitList \in Seq(Rw!Threads \cup {"insmod"})
          /\ \A i \in 1..Len(rwWaitList) : rwWaitList[i] \notin Rw!Threads \cup {"insmod"}
      BY <3>1 DEF Rw!Semaphore
    <3>3. rwWaitList = <<>>
      BY <3>2
    <3>4. rwWaitList' = <<"insmod">>
      BY <3>3
    <3> QED BY <3>0, <3>1, <3>4 DEF Rw!Semaphore
  <2>4. Rw!Stopped'
    BY DEF Rw!TypeOK, Rw!Stopped
  <2>5. Rw!Queueing'
    BY DEF Rw!TypeOK, Rw!Spawned, Rw!Stopped, Rw!Queueing
  <2> QED BY <2>1, <2>2, <2>3, <2>4, <2>5
<1>7. CASE Rw!Frame
  <2> USE <1>7 DEF Rw!Frame
  <2>1. Rw!TypeOK'
    BY DEF Rw!TypeOK
  <2>2. Rw!Spawned'
    BY DEF Rw!TypeOK, Rw!Spawned
  <2>3. Rw!Semaphore'
    BY DEF Rw!TypeOK, Rw!Semaphore
  <2>4. Rw!Stopped'
    BY DEF Rw!TypeOK, Rw!Stopped
  <2>5. Rw!Queueing'
    BY DEF Rw!TypeOK, Rw!Spawned, Rw!Stopped, Rw!Queueing
  <2> QED BY <2>1, <2>2, <2>3, <2>4, <2>5
<1> QED BY <1>1, <1>2, <1>3, <1>4, <1>5, <1>6, <1>7

\* lab_exit().
LEMMA RwExitSteps ==
  ASSUME Rw!RwInv,
         Rw!Rmmod \/ Rw!KthreadStop \/ Rw!KthreadJoin \/ Rw!ExitDone
  PROVE  Rw!RwInv'
<1> USE DEF Rw!RwInv, Rw!Threads, Rw!SpawnOrder, Rw!StopOrder, Rw!Writers, Rw!sem, Rw!fp
<1>1. CASE Rw!Rmmod
  <2> USE <1>1 DEF Rw!Rmmod
  <2>1. Rw!TypeOK'
    BY DEF Rw!TypeOK
  <2>2. Rw!Spawned'
    BY DEF Rw!TypeOK, Rw!Spawned
  <2>3. Rw!Semaphore'
    BY DEF Rw!TypeOK, Rw!Semaphore
  <2>4. Rw!Stopped'
    BY DEF Rw!TypeOK, Rw!Stopped
  <2>5. Rw!Queueing'
    BY DEF Rw!TypeOK, Rw!Spawned, Rw!Stopped, Rw!Queueing
  <2> QED BY <2>1, <2>2, <2>3, <2>4, <2>5
<1>2. CASE Rw!KthreadStop
  <2> USE <1>2 DEF Rw!KthreadStop
  <2>1. Rw!TypeOK'
    <3>1. Head(rwStopping) \in Rw!Threads
      BY DEF Rw!Stopped
    <3> QED BY <3>1 DEF Rw!TypeOK
  <2>2. Rw!Spawned'
    BY DEF Rw!TypeOK, Rw!Spawned
  <2>3. Rw!Semaphore'
    BY DEF Rw!TypeOK, Rw!Semaphore
  <2>4. Rw!Stopped'
    BY DEF Rw!TypeOK, Rw!Stopped
  <2>5. Rw!Queueing'
    BY DEF Rw!TypeOK, Rw!Spawned, Rw!Stopped, Rw!Queueing
  <2> QED BY <2>1, <2>2, <2>3, <2>4, <2>5
<1>3. CASE Rw!KthreadJoin
  <2> USE <1>3 DEF Rw!KthreadJoin
  <2>1. Rw!TypeOK'
    BY DEF Rw!TypeOK
  <2>2. Rw!Spawned'
    BY DEF Rw!TypeOK, Rw!Spawned
  <2>3. Rw!Semaphore'
    BY DEF Rw!TypeOK, Rw!Semaphore
  <2>4. Rw!Stopped'
    <3>1. rwStopping \in Seq(Rw!Threads) /\ rwStopping # <<>> /\ rwStopping' = Tail(rwStopping)
          /\ rwPc[rwStopping[1]] = "exited" /\ rwPc' = rwPc /\ rwPhase = "stop" /\ rwPhase' = "stop"
      BY DEF Rw!Stopped
    <3>2. rwStopping' \in Seq(Rw!Threads) /\ Len(rwStopping') = Len(rwStopping) - 1
      BY <3>1
    <3>3. ASSUME NEW t \in Rw!Threads, rwPc[t] # "exited"
          PROVE  \E i \in 1..Len(rwStopping') : rwStopping'[i] = t
      <4>1. PICK i \in 1..Len(rwStopping) : rwStopping[i] = t
        BY <3>1, <3>3 DEF Rw!Stopped
      <4>2. i # 1 /\ i - 1 \in 1..Len(rwStopping')
        BY <3>1, <3>2, <3>3, <4>1
      <4>3. rwStopping'[i - 1] = t
        BY <3>1, <4>1, <4>2
      <4> QED BY <4>2, <4>3
    <3> QED BY <3>1, <3>2, <3>3 DEF Rw!Stopped
  <2>5. Rw!Queueing'
    BY DEF Rw!TypeOK, Rw!Spawned, Rw!Stopped, Rw!Queueing
  <2> QED BY <2>1, <2>2, <2>3, <2>4, <2>5
<1>4. CASE Rw!ExitDone
  <2> USE <1>4 DEF Rw!ExitDone
  <2>1. Rw!TypeOK'
    BY DEF Rw!TypeOK
  <2>2. Rw!Spawned'
    BY DEF Rw!TypeOK, Rw!Spawned
  <2>3. Rw!Semaphore'
    BY DEF Rw!TypeOK, Rw!Semaphore
  <2>4. Rw!Stopped'
    BY DEF Rw!TypeOK, Rw!Stopped
  <2>5. Rw!Queueing'
    BY DEF Rw!TypeOK, Rw!Spawned, Rw!Stopped, Rw!Queueing
  <2> QED BY <2>1, <2>2, <2>3, <2>4, <2>5
<1> QED BY <1>1, <1>2, <1>3, <1>4

\* The inductive invariant of rwsem_lab.c and arm64_lab.c.
LEMMA RwInvariant ==
  ASSUME RwModes \subseteq 1..3, RwTimeliness \subseteq BOOLEAN
  PROVE  /\ Rw!Init => Rw!RwInv
         /\ Rw!RwInv /\ [Rw!Next]_(Rw!vars) => Rw!RwInv'
<1>1. Rw!Init => Rw!RwInv
  <2> USE DEF Rw!Init, Rw!Threads, Rw!SpawnOrder, Rw!StopOrder, Rw!Writers
  <2>1. Rw!Init => Rw!TypeOK
    <3>1. SUFFICES ASSUME Rw!Init PROVE Rw!TypeOK
      OBVIOUS
    <3>2. Rw!ToSet(rwWaitList) = {}
      BY <3>1 DEF Rw!ToSet
    <3>3. rwPc \in [Rw!Threads -> {"none", "new", "err", "waiting", "holding", "loop", "exited"}]
      BY <3>1
    <3>4. Rw!ToSet(rwWaitList) \subseteq Rw!Threads \cup {"insmod"}
      BY <3>2
    <3>5. rwStop \subseteq Rw!Threads /\ rwWriter \subseteq Rw!Writers /\ rwReaders \subseteq Rw!Threads /\ rwReleaseNow \in BOOLEAN
      BY <3>1
    <3>6. rwMode \in RwModes \cup {0} /\ rwTimely \in BOOLEAN
      BY <3>1, Zenon
    <3>7. /\ rwFrames \in 0..3 /\ rwAnswer \in 0..3
          /\ rwPhase \in {"absent", "init", "loaded", "failed", "book", "stuck", "stop", "oops", "unloaded"}
      BY <3>1
    <3> QED BY <3>3, <3>4, <3>5, <3>6, <3>7 DEF Rw!TypeOK
  <2>2. Rw!Init => Rw!Spawned
    BY DEF Rw!Spawned
  <2>3. Rw!Init => Rw!Semaphore
    BY DEF Rw!Semaphore
  <2>4. Rw!Init => Rw!Stopped
    BY DEF Rw!Stopped
  <2>5. Rw!Init => Rw!Queueing
    BY DEF Rw!Queueing
  <2> QED BY <2>1, <2>2, <2>3, <2>4, <2>5 DEF Rw!RwInv
<1>2. Rw!RwInv /\ UNCHANGED Rw!vars => Rw!RwInv'
  BY DEF Rw!vars, Rw!RwInv, Rw!TypeOK, Rw!Spawned, Rw!Semaphore, Rw!Stopped, Rw!Queueing
<1> QED BY <1>1, <1>2, RwThreadSteps, RwInitSteps, RwExitSteps
        DEF Rw!Next, Rw!Run, Rw!Insmod, Rw!Book, Rw!Exit, Rw!Final

\* What mode 1 shows: the holder, and two waiters of different types in order.
LEMMA RwTwoWaiters == Rw!RwInv => Rw!TwoWaiters
BY DEF Rw!RwInv, Rw!TypeOK, Rw!Spawned, Rw!Queueing, Rw!TwoWaiters, Rw!Threads

\* After rmmod every thread is gone, so that nobody can hold lab_sem or wait.
LEMMA RwCleanUnload == Rw!RwInv => Rw!CleanUnload
BY DEF Rw!RwInv, Rw!TypeOK, Rw!Spawned, Rw!Semaphore, Rw!Stopped, Rw!CleanUnload, Rw!Threads, Rw!Writers

-----------------------------------------------------------------------------
(* lock_bench.c.                                                           *)

\* The instance adds up with the operator of Sums, so that its lemmas hold.
LEMMA LbSum == \A f, m : Lb!Sum(f, m) = Sum(f, m)
  BY DEF Lb!Sum, Sum

LEMMA LbSumSteps ==
  ASSUME NEW f, NEW m \in Nat, \A k \in 1..m : f[k] \in Int
  PROVE  /\ Lb!Sum(f, 0) = 0
         /\ \A j \in 1..m : Lb!Sum(f, j) = Lb!Sum(f, j - 1) + f[j]
         /\ \A j \in 0..m : Lb!Sum(f, j) \in Int
  BY LbSum, SumSteps

LEMMA LbSumShift ==
  ASSUME NEW f, NEW g, NEW m, NEW i, NEW d, Shifted(f, g, m, i, d)
  PROVE  Lb!Sum(g, m) = Lb!Sum(f, m) + d
  BY LbSum, SumShift

LEMMA LbSumBits ==
  ASSUME NEW f, NEW m \in Nat, \A k \in 1..m : f[k] \in {0, 1}
  PROVE  /\ Lb!Sum(f, m) \in 0..m
         /\ Lb!Sum(f, m) = 0 <=> \A k \in 1..m : f[k] = 0
         /\ (\A k \in 1..m : f[k] = 1) => Lb!Sum(f, m) = m
  BY LbSum, SumBits

\* Every round has its lock and its number of threads.
LEMMA LbRound ==
  ASSUME LbMaxThreads \in Nat, LbMaxOps \in Nat, LbMaxSwitches \in Nat,
         LbSchedule \in Seq(Lb!Kinds \X (1..LbMaxThreads)), Lb!TypeOK
  PROVE  Lb!Lock \in Lb!Kinds /\ Lb!Nthr \in 1..LbMaxThreads /\ 1..Lb!Nthr \subseteq Lb!T
<1>1. LbSchedule[lbRound] \in Lb!Kinds \X (1..LbMaxThreads)
  BY DEF Lb!TypeOK
<1>2. Lb!Nthr \in 1..LbMaxThreads /\ Lb!Lock \in Lb!Kinds
  BY <1>1 DEF Lb!Nthr, Lb!Lock
<1> QED BY <1>2 DEF Lb!T

\* What a slot adds is a number.
LEMMA LbSlots ==
  ASSUME LbMaxThreads \in Nat, LbMaxOps \in Nat, LbMaxSwitches \in Nat,
         LbSchedule \in Seq(Lb!Kinds \X (1..LbMaxThreads)), Lb!TypeOK
  PROVE  \A k \in Lb!T : Lb!Alive[k] \in {0, 1} /\ Lb!OpsSoFar[k] \in Int /\ Lb!SlpSoFar[k] \in Int
<1> SUFFICES ASSUME NEW k \in Lb!T
             PROVE  Lb!Alive[k] \in {0, 1} /\ Lb!OpsSoFar[k] \in Int /\ Lb!SlpSoFar[k] \in Int
  OBVIOUS
<1>1. lbOps[k] \in Int /\ lbN[k] \in Int /\ lbTcsw[k] \in Int /\ lbNvcsw[k] \in Int
  BY DEF Lb!TypeOK
<1>2. Lb!Alive[k] \in {0, 1}
  BY DEF Lb!Alive
<1>3. Lb!OpsSoFar[k] \in Int
  BY <1>1 DEF Lb!OpsSoFar
<1>4. Lb!SlpSoFar[k] \in Int
  BY <1>1 DEF Lb!SlpSoFar
<1> QED BY <1>2, <1>3, <1>4

\* While a round is on, the counters follow its threads: what one of them
\* adds to its slot is added to the sum.
LEMMA LbAccount ==
  ASSUME LbMaxThreads \in Nat, LbMaxOps \in Nat, LbMaxSwitches \in Nat,
         LbSchedule \in Seq(Lb!Kinds \X (1..LbMaxThreads)), Lb!LbInv,
         lbPhase \in {"create", "join"}, lbPhase' \in {"create", "join"}, lbRound' = lbRound,
         NEW i \in 1..Lb!Nthr, NEW a \in Int, NEW o \in Int, NEW s \in Int,
         \A k \in 1..Lb!Nthr : Lb!Alive'[k] = IF k = i THEN Lb!Alive[k] + a ELSE Lb!Alive[k],
         \A k \in 1..Lb!Nthr : Lb!OpsSoFar'[k] = IF k = i THEN Lb!OpsSoFar[k] + o ELSE Lb!OpsSoFar[k],
         ~lbFailed' => /\ ~lbFailed
                       /\ \A k \in 1..Lb!Nthr :
                            Lb!SlpSoFar'[k] = IF k = i THEN Lb!SlpSoFar[k] + s ELSE Lb!SlpSoFar[k],
         lbRunning' = lbRunning + a, lbDid' = lbDid + o, lbSlept' = lbSlept + s
  PROVE  /\ Lb!Accounted' /\ lbRunning' \in 0..LbMaxThreads
         /\ lbRunning' = 0 => \A k \in 1..Lb!Nthr : Lb!Alive'[k] = 0
<1>1. Lb!Nthr \in Nat /\ Lb!Nthr' = Lb!Nthr /\ 1..Lb!Nthr \subseteq Lb!T /\ Lb!Nthr \in 1..LbMaxThreads
  BY LbRound DEF Lb!LbInv, Lb!Nthr
<1>2. \A k \in 1..Lb!Nthr : Lb!Alive[k] \in {0, 1} /\ Lb!OpsSoFar[k] \in Int /\ Lb!SlpSoFar[k] \in Int
  BY <1>1, LbSlots DEF Lb!LbInv
<1>3. Lb!Sum(Lb!Alive', Lb!Nthr) = Lb!Sum(Lb!Alive, Lb!Nthr) + a
  <2>1. Shifted(Lb!Alive, Lb!Alive', Lb!Nthr, i, a)
    BY <1>1, <1>2 DEF Shifted
  <2> QED BY <2>1, LbSumShift
<1>4. Lb!Sum(Lb!OpsSoFar', Lb!Nthr) = Lb!Sum(Lb!OpsSoFar, Lb!Nthr) + o
  <2>1. Shifted(Lb!OpsSoFar, Lb!OpsSoFar', Lb!Nthr, i, o)
    BY <1>1, <1>2 DEF Shifted
  <2> QED BY <2>1, LbSumShift
<1>5. ~lbFailed' => Lb!Sum(Lb!SlpSoFar', Lb!Nthr) = Lb!Sum(Lb!SlpSoFar, Lb!Nthr) + s
  <2> SUFFICES ASSUME ~lbFailed' PROVE Lb!Sum(Lb!SlpSoFar', Lb!Nthr) = Lb!Sum(Lb!SlpSoFar, Lb!Nthr) + s
    OBVIOUS
  <2>1. Shifted(Lb!SlpSoFar, Lb!SlpSoFar', Lb!Nthr, i, s)
    BY <1>1, <1>2 DEF Shifted
  <2> QED BY <2>1, LbSumShift
<1>6. Lb!Accounted'
  <2>1. lbRunning = Lb!Sum(Lb!Alive, Lb!Nthr) /\ lbDid = Lb!Sum(Lb!OpsSoFar, Lb!Nthr) /\ lbDid \in Int /\ lbSlept \in Int
        /\ (~lbFailed => lbSlept = Lb!Sum(Lb!SlpSoFar, Lb!Nthr))
    BY DEF Lb!LbInv, Lb!Accounted
  <2>2. lbDid' \in Int /\ lbSlept' \in Int
    BY <2>1
  <2>3. lbRunning' = Lb!Sum(Lb!Alive', Lb!Nthr') /\ lbDid' = Lb!Sum(Lb!OpsSoFar', Lb!Nthr')
    BY <1>1, <1>3, <1>4, <2>1
  <2>4. ~lbFailed' => lbSlept' = Lb!Sum(Lb!SlpSoFar', Lb!Nthr')
    BY <1>1, <1>5, <2>1
  <2>5. (Lb!Sum(Lb!Alive, Lb!Nthr))' = Lb!Sum(Lb!Alive', Lb!Nthr') /\ (Lb!Sum(Lb!OpsSoFar, Lb!Nthr))' = Lb!Sum(Lb!OpsSoFar', Lb!Nthr')
        /\ (Lb!Sum(Lb!SlpSoFar, Lb!Nthr))' = Lb!Sum(Lb!SlpSoFar', Lb!Nthr')
    OBVIOUS
  <2> QED BY <2>2, <2>3, <2>4, <2>5 DEF Lb!Accounted
<1>7. \A k \in 1..Lb!Nthr : Lb!Alive'[k] \in {0, 1}
  BY <1>1 DEF Lb!Alive
<1>8. lbRunning' = Lb!Sum(Lb!Alive', Lb!Nthr)
  BY <1>3 DEF Lb!LbInv, Lb!Accounted
<1>9. lbRunning' \in 0..Lb!Nthr /\ (lbRunning' = 0 => \A k \in 1..Lb!Nthr : Lb!Alive'[k] = 0)
  BY <1>1, <1>7, <1>8, LbSumBits
<1> QED BY <1>1, <1>6, <1>9

\* run_one_bench(), run_optspin_case(): the loop that creates the threads.
LEMMA LbCreateSteps ==
  ASSUME LbMaxThreads \in Nat, LbMaxOps \in Nat, LbMaxSwitches \in Nat,
         LbSchedule \in Seq(Lb!Kinds \X (1..LbMaxThreads)), Lb!LbInv,
         Lb!Create \/ Lb!CreateFails \/ Lb!CreateDone
  PROVE  Lb!LbInv'
<1> USE DEF Lb!LbInv
<1>0. /\ Lb!Nthr \in 1..LbMaxThreads /\ 1..Lb!Nthr \subseteq Lb!T
      /\ \A k \in Lb!T : k \in Nat /\ 1 <= k /\ k <= LbMaxThreads
      /\ lbNext \in Nat /\ 1 <= lbNext /\ lbNext <= LbMaxThreads + 1
      /\ 0 \in 0..LbMaxOps /\ 1 \in 0..(LbMaxSwitches + 1)
  <2>1. lbNext \in 1..(LbMaxThreads + 1)
    BY DEF Lb!TypeOK
  <2> QED BY <2>1, LbRound DEF Lb!T
<1>a. lbPc \in [Lb!T -> {"none", "start", "loop", "locked", "dec"}] /\ lbOps \in [Lb!T -> Int] /\ lbN \in [Lb!T -> Int]
  BY DEF Lb!TypeOK
<1>b. lbTcsw \in [Lb!T -> Int] /\ lbNvcsw \in [Lb!T -> Int]
  BY DEF Lb!TypeOK
<1>c. /\ lbOps \in [Lb!T -> 0..LbMaxOps] /\ lbN \in [Lb!T -> 0..LbMaxOps] /\ lbNvcsw \in [Lb!T -> 0..(LbMaxSwitches + 1)]
      /\ lbHolders \subseteq Lb!T /\ lbRound \in DOMAIN LbSchedule /\ lbFailed \in BOOLEAN
  BY DEF Lb!TypeOK
<1>1. CASE Lb!Create
  <2> USE <1>1 DEF Lb!Create, Lb!data, Lb!report
  <2>1. lbNext \in 1..Lb!Nthr /\ lbPhase = "create" /\ lbPhase' = "create" /\ lbRound' = lbRound
    BY <1>0, <1>a DEF Lb!Placed
  <2>a. lbPc[lbNext] = "none" /\ lbPc'[lbNext] = "start" /\ \A k \in Lb!T : k # lbNext => lbPc'[k] = lbPc[k]
    BY <1>0, <1>a, <2>1 DEF Lb!Placed
  <2>2. \A k \in 1..Lb!Nthr : Lb!Alive'[k] = IF k = lbNext THEN Lb!Alive[k] + 0 ELSE Lb!Alive[k]
    BY <1>0, <2>a, <1>a, <2>1 DEF Lb!Placed, Lb!Alive
  <2>3. \A k \in 1..Lb!Nthr : Lb!OpsSoFar'[k] = IF k = lbNext THEN Lb!OpsSoFar[k] + 0 ELSE Lb!OpsSoFar[k]
    <3> SUFFICES ASSUME NEW k \in 1..Lb!Nthr
                 PROVE  Lb!OpsSoFar'[k] = IF k = lbNext THEN Lb!OpsSoFar[k] + 0 ELSE Lb!OpsSoFar[k]
      OBVIOUS
    <3>1. CASE k = lbNext
      BY <1>0, <2>a, <1>a, <1>b, <2>1, <3>1 DEF Lb!Placed, Lb!OpsSoFar
    <3>2. CASE k # lbNext
      BY <1>0, <2>a, <1>a, <1>b, <2>1, <3>2 DEF Lb!Placed, Lb!OpsSoFar
    <3> QED BY <3>1, <3>2
  <2>4. ~lbFailed' => /\ ~lbFailed
                      /\ \A k \in 1..Lb!Nthr :
                           Lb!SlpSoFar'[k] = IF k = lbNext THEN Lb!SlpSoFar[k] + 0 ELSE Lb!SlpSoFar[k]
    <3> SUFFICES ASSUME ~lbFailed', NEW k \in 1..Lb!Nthr
                 PROVE  ~lbFailed /\ Lb!SlpSoFar'[k] = IF k = lbNext THEN Lb!SlpSoFar[k] + 0 ELSE Lb!SlpSoFar[k]
      BY <1>0
    <3>1. CASE k = lbNext
      BY <1>0, <2>a, <1>a, <1>b, <2>1, <3>1 DEF Lb!Placed, Lb!SlpSoFar
    <3>2. CASE k # lbNext
      BY <1>0, <2>a, <1>a, <1>b, <2>1, <3>2 DEF Lb!Placed, Lb!SlpSoFar
    <3> QED BY <3>1, <3>2
  <2>5. lbRunning' = lbRunning + 0 /\ lbDid' = lbDid + 0 /\ lbSlept' = lbSlept + 0
    BY DEF Lb!TypeOK, Lb!Accounted
  <2>6. Lb!Accounted' /\ lbRunning' \in 0..LbMaxThreads
    <3>1. lbNext \in 1..Lb!Nthr /\ 0 \in Int
      BY <2>1
    <3> HIDE <1>1
    <3> QED BY <2>1, <2>2, <2>3, <2>4, <2>5, <3>1, LbAccount
  <2>7. Lb!TypeOK'
    <3>1. lbRound' \in DOMAIN LbSchedule /\ lbFailed' \in BOOLEAN
      BY <2>1, <1>a, <1>c
    <3>2. lbPhase' \in {"absent", "setup", "create", "join", "done"} /\ lbNext' \in 1..(LbMaxThreads + 1)
      BY <1>0, <2>1, <1>a, <1>c
    <3>3. lbOps' \in [Lb!T -> 0..LbMaxOps]
      BY <1>a, <1>c
    <3>4. lbN' \in [Lb!T -> 0..LbMaxOps]
      BY <1>0, <2>a, <1>a, <1>c
    <3>5. lbTcsw' \in [Lb!T -> Int]
      BY <1>b, <1>a, <1>c
    <3>6. lbNvcsw' \in [Lb!T -> 0..(LbMaxSwitches + 1)]
      BY <1>0, <2>a, <1>a, <1>c
    <3>7. lbPc' \in [Lb!T -> {"none", "start", "loop", "locked", "dec"}]
      BY <1>a, <1>c
    <3>8. lbHolders' \subseteq Lb!T
      BY <2>1, <1>a, <1>c
    <3> QED BY <2>6, <3>1, <3>2, <3>3, <3>4, <3>5, <3>6, <3>7, <3>8 DEF Lb!TypeOK
  <2>8. Lb!Placed'
    BY <1>0, <2>a, <1>a, <2>1 DEF Lb!Placed, Lb!Nthr
  <2>9. Lb!Protected'
    BY <1>0, <2>a, <1>a, <2>1 DEF Lb!Placed, Lb!Protected, Lb!Lock
  <2> QED BY <2>6, <2>7, <2>8, <2>9
<1>2. CASE Lb!CreateFails
  <2> USE <1>2 DEF Lb!CreateFails, Lb!data, Lb!report
  <2>1. lbNext \in 1..Lb!Nthr /\ lbPhase = "create" /\ lbPhase' = "create" /\ lbRound' = lbRound
    BY <1>0, <1>a DEF Lb!Placed
  <2>2. \A k \in 1..Lb!Nthr : Lb!Alive'[k] = IF k = lbNext THEN Lb!Alive[k] + (-1) ELSE Lb!Alive[k]
    BY <1>0, <1>a, <2>1 DEF Lb!Placed, Lb!Alive
  <2>3. \A k \in 1..Lb!Nthr : Lb!OpsSoFar'[k] = IF k = lbNext THEN Lb!OpsSoFar[k] + 0 ELSE Lb!OpsSoFar[k]
    <3> SUFFICES ASSUME NEW k \in 1..Lb!Nthr
                 PROVE  Lb!OpsSoFar'[k] = IF k = lbNext THEN Lb!OpsSoFar[k] + 0 ELSE Lb!OpsSoFar[k]
      OBVIOUS
    <3>1. CASE k = lbNext
      BY <1>0, <1>a, <1>b, <2>1, <3>1 DEF Lb!Placed, Lb!OpsSoFar
    <3>2. CASE k # lbNext
      BY <1>0, <1>a, <1>b, <2>1, <3>2 DEF Lb!Placed, Lb!OpsSoFar
    <3> QED BY <3>1, <3>2
  <2>4. ~lbFailed' => /\ ~lbFailed
                      /\ \A k \in 1..Lb!Nthr :
                           Lb!SlpSoFar'[k] = IF k = lbNext THEN Lb!SlpSoFar[k] + 0 ELSE Lb!SlpSoFar[k]
    <3> SUFFICES ASSUME ~lbFailed', NEW k \in 1..Lb!Nthr
                 PROVE  ~lbFailed /\ Lb!SlpSoFar'[k] = IF k = lbNext THEN Lb!SlpSoFar[k] + 0 ELSE Lb!SlpSoFar[k]
      BY <1>0
    <3>1. CASE k = lbNext
      BY <1>0, <1>a, <1>b, <2>1, <3>1 DEF Lb!Placed, Lb!SlpSoFar
    <3>2. CASE k # lbNext
      BY <1>0, <1>a, <1>b, <2>1, <3>2 DEF Lb!Placed, Lb!SlpSoFar
    <3> QED BY <3>1, <3>2
  <2>5. lbRunning' = lbRunning + (-1) /\ lbDid' = lbDid + 0 /\ lbSlept' = lbSlept + 0
    BY DEF Lb!TypeOK, Lb!Accounted
  <2>6. Lb!Accounted' /\ lbRunning' \in 0..LbMaxThreads
    <3>1. lbNext \in 1..Lb!Nthr /\ -1 \in Int /\ 0 \in Int
      BY <2>1
    <3> HIDE <1>2
    <3> QED BY <2>1, <2>2, <2>3, <2>4, <2>5, <3>1, LbAccount
  <2>7. Lb!TypeOK'
    <3>1. lbRound' \in DOMAIN LbSchedule /\ lbFailed' \in BOOLEAN
      BY <1>c, <2>1, Zenon
    <3>2. lbPhase' \in {"absent", "setup", "create", "join", "done"} /\ lbNext' \in 1..(LbMaxThreads + 1)
      BY <1>0, <2>1, <1>a, <1>c
    <3>3. lbOps' \in [Lb!T -> 0..LbMaxOps]
      BY <1>a, <1>c
    <3>4. lbN' \in [Lb!T -> 0..LbMaxOps]
      BY <1>0, <1>a, <1>c
    <3>5. lbTcsw' \in [Lb!T -> Int]
      BY <1>b, <1>a, <1>c
    <3>6. lbNvcsw' \in [Lb!T -> 0..(LbMaxSwitches + 1)]
      BY <1>0, <1>a, <1>c
    <3>7. lbPc' \in [Lb!T -> {"none", "start", "loop", "locked", "dec"}]
      BY <1>a, <1>c
    <3>8. lbHolders' \subseteq Lb!T
      BY <2>1, <1>a, <1>c
    <3> QED BY <2>6, <3>1, <3>2, <3>3, <3>4, <3>5, <3>6, <3>7, <3>8 DEF Lb!TypeOK
  <2>8. Lb!Placed'
    BY <1>0, <1>a, <2>1 DEF Lb!Placed, Lb!Nthr
  <2>9. Lb!Protected'
    BY <1>0, <1>a, <2>1 DEF Lb!Placed, Lb!Protected, Lb!Lock
  <2> QED BY <2>6, <2>7, <2>8, <2>9
<1>3. CASE Lb!CreateDone
  <2> USE <1>3 DEF Lb!CreateDone, Lb!data, Lb!report
  <2>1. 1 \in 1..Lb!Nthr /\ lbPhase = "create" /\ lbPhase' = "join" /\ lbRound' = lbRound
    BY <1>0, <1>a DEF Lb!Placed
  <2>a. lbNext = Lb!Nthr + 1 /\ Lb!Nthr' = Lb!Nthr
    BY <1>0 DEF Lb!Placed, Lb!Nthr
  <2>2. \A k \in 1..Lb!Nthr : Lb!Alive'[k] = IF k = 1 THEN Lb!Alive[k] + 0 ELSE Lb!Alive[k]
    BY <1>0, <2>a, <1>a, <2>1 DEF Lb!Placed, Lb!Alive
  <2>3. \A k \in 1..Lb!Nthr : Lb!OpsSoFar'[k] = IF k = 1 THEN Lb!OpsSoFar[k] + 0 ELSE Lb!OpsSoFar[k]
    <3> SUFFICES ASSUME NEW k \in 1..Lb!Nthr
                 PROVE  Lb!OpsSoFar'[k] = IF k = 1 THEN Lb!OpsSoFar[k] + 0 ELSE Lb!OpsSoFar[k]
      OBVIOUS
    <3>1. CASE k = 1
      BY <1>0, <2>a, <1>a, <1>b, <2>1, <3>1 DEF Lb!Placed, Lb!OpsSoFar
    <3>2. CASE k # 1
      BY <1>0, <2>a, <1>a, <1>b, <2>1, <3>2 DEF Lb!Placed, Lb!OpsSoFar
    <3> QED BY <3>1, <3>2
  <2>4. ~lbFailed' => /\ ~lbFailed
                      /\ \A k \in 1..Lb!Nthr :
                           Lb!SlpSoFar'[k] = IF k = 1 THEN Lb!SlpSoFar[k] + 0 ELSE Lb!SlpSoFar[k]
    <3> SUFFICES ASSUME ~lbFailed', NEW k \in 1..Lb!Nthr
                 PROVE  ~lbFailed /\ Lb!SlpSoFar'[k] = IF k = 1 THEN Lb!SlpSoFar[k] + 0 ELSE Lb!SlpSoFar[k]
      BY <1>0
    <3>1. CASE k = 1
      BY <1>0, <2>a, <1>a, <1>b, <2>1, <3>1 DEF Lb!Placed, Lb!SlpSoFar
    <3>2. CASE k # 1
      BY <1>0, <2>a, <1>a, <1>b, <2>1, <3>2 DEF Lb!Placed, Lb!SlpSoFar
    <3> QED BY <3>1, <3>2
  <2>5. lbRunning' = lbRunning + 0 /\ lbDid' = lbDid + 0 /\ lbSlept' = lbSlept + 0
    BY DEF Lb!TypeOK, Lb!Accounted
  <2>6. Lb!Accounted' /\ lbRunning' \in 0..LbMaxThreads
    <3>1. 1 \in 1..Lb!Nthr /\ 0 \in Int
      BY <2>1
    <3> HIDE <1>3
    <3> QED BY <2>1, <2>2, <2>3, <2>4, <2>5, <3>1, LbAccount
  <2>7. Lb!TypeOK'
    <3>1. lbRound' \in DOMAIN LbSchedule /\ lbFailed' \in BOOLEAN
      BY <2>1, <1>a, <1>c
    <3>2. lbPhase' \in {"absent", "setup", "create", "join", "done"} /\ lbNext' \in 1..(LbMaxThreads + 1)
      BY <1>0, <2>1, <1>a, <1>c
    <3>3. lbOps' \in [Lb!T -> 0..LbMaxOps]
      BY <1>a, <1>c
    <3>4. lbN' \in [Lb!T -> 0..LbMaxOps]
      BY <1>0, <2>a, <1>a, <1>c
    <3>5. lbTcsw' \in [Lb!T -> Int]
      BY <1>b, <1>a, <1>c
    <3>6. lbNvcsw' \in [Lb!T -> 0..(LbMaxSwitches + 1)]
      BY <1>0, <2>a, <1>a, <1>c
    <3>7. lbPc' \in [Lb!T -> {"none", "start", "loop", "locked", "dec"}]
      BY <1>a, <1>c
    <3>8. lbHolders' \subseteq Lb!T
      BY <2>1, <1>a, <1>c
    <3> QED BY <2>6, <3>1, <3>2, <3>3, <3>4, <3>5, <3>6, <3>7, <3>8 DEF Lb!TypeOK
  <2>8. Lb!Placed'
    BY <1>0, <2>a, <1>a, <2>a, <2>1 DEF Lb!Placed
  <2>9. Lb!Protected'
    BY <1>0, <2>a, <1>a, <2>1 DEF Lb!Placed, Lb!Protected, Lb!Lock
  <2> QED BY <2>6, <2>7, <2>8, <2>9
<1> QED BY <1>1, <1>2, <1>3

\* bench_thread(), optspin_thread().
LEMMA LbThreadSteps ==
  ASSUME LbMaxThreads \in Nat, LbMaxOps \in Nat, LbMaxSwitches \in Nat,
         LbSchedule \in Seq(Lb!Kinds \X (1..LbMaxThreads)), Lb!LbInv,
         NEW i \in Lb!T, Lb!Bench(i) \/ Lb!Sleep(i)
  PROVE  Lb!LbInv'
<1> USE DEF Lb!LbInv
<1>0. /\ Lb!Nthr \in 1..LbMaxThreads /\ 1..Lb!Nthr \subseteq Lb!T
      /\ \A k \in Lb!T : k \in Nat /\ 1 <= k /\ k <= LbMaxThreads
      /\ lbNext \in Nat /\ 1 <= lbNext /\ lbNext <= LbMaxThreads + 1
      /\ 0 \in 0..LbMaxOps /\ 1 \in 0..(LbMaxSwitches + 1)
  <2>1. lbNext \in 1..(LbMaxThreads + 1)
    BY DEF Lb!TypeOK
  <2> QED BY <2>1, LbRound DEF Lb!T
<1>a. lbPc \in [Lb!T -> {"none", "start", "loop", "locked", "dec"}] /\ lbOps \in [Lb!T -> Int] /\ lbN \in [Lb!T -> Int]
  BY DEF Lb!TypeOK
<1>b. lbTcsw \in [Lb!T -> Int] /\ lbNvcsw \in [Lb!T -> Int]
  BY DEF Lb!TypeOK
<1>c. /\ lbOps \in [Lb!T -> 0..LbMaxOps] /\ lbN \in [Lb!T -> 0..LbMaxOps] /\ lbNvcsw \in [Lb!T -> 0..(LbMaxSwitches + 1)]
      /\ lbHolders \subseteq Lb!T /\ lbRound \in DOMAIN LbSchedule /\ lbFailed \in BOOLEAN
  BY DEF Lb!TypeOK
<1>1. CASE Lb!Snapshot(i)
  <2> USE <1>1 DEF Lb!Snapshot, Lb!data, Lb!report
  <2>1. i \in 1..Lb!Nthr /\ lbPhase \in {"create", "join"} /\ lbPhase' = lbPhase /\ lbRound' = lbRound
    BY <1>0, <1>a DEF Lb!Placed
  <2>2. \A k \in 1..Lb!Nthr : Lb!Alive'[k] = IF k = i THEN Lb!Alive[k] + 0 ELSE Lb!Alive[k]
    BY <1>0, <1>a, <2>1 DEF Lb!Placed, Lb!Alive
  <2>3. \A k \in 1..Lb!Nthr : Lb!OpsSoFar'[k] = IF k = i THEN Lb!OpsSoFar[k] + 0 ELSE Lb!OpsSoFar[k]
    <3> SUFFICES ASSUME NEW k \in 1..Lb!Nthr
                 PROVE  Lb!OpsSoFar'[k] = IF k = i THEN Lb!OpsSoFar[k] + 0 ELSE Lb!OpsSoFar[k]
      OBVIOUS
    <3>1. CASE k = i
      BY <1>0, <1>a, <1>b, <2>1, <3>1 DEF Lb!Placed, Lb!OpsSoFar
    <3>2. CASE k # i
      BY <1>0, <1>a, <1>b, <2>1, <3>2 DEF Lb!Placed, Lb!OpsSoFar
    <3> QED BY <3>1, <3>2
  <2>4. ~lbFailed' => /\ ~lbFailed
                      /\ \A k \in 1..Lb!Nthr :
                           Lb!SlpSoFar'[k] = IF k = i THEN Lb!SlpSoFar[k] + 0 ELSE Lb!SlpSoFar[k]
    <3> SUFFICES ASSUME ~lbFailed', NEW k \in 1..Lb!Nthr
                 PROVE  ~lbFailed /\ Lb!SlpSoFar'[k] = IF k = i THEN Lb!SlpSoFar[k] + 0 ELSE Lb!SlpSoFar[k]
      BY <1>0
    <3>1. CASE k = i
      BY <1>0, <1>a, <1>b, <2>1, <3>1 DEF Lb!Placed, Lb!SlpSoFar
    <3>2. CASE k # i
      BY <1>0, <1>a, <1>b, <2>1, <3>2 DEF Lb!Placed, Lb!SlpSoFar
    <3> QED BY <3>1, <3>2
  <2>5. lbRunning' = lbRunning + 0 /\ lbDid' = lbDid + 0 /\ lbSlept' = lbSlept + 0
    BY DEF Lb!TypeOK, Lb!Accounted
  <2>6. Lb!Accounted' /\ lbRunning' \in 0..LbMaxThreads
    <3>1. i \in 1..Lb!Nthr /\ 0 \in Int
      BY <2>1
    <3> HIDE <1>1
    <3> QED BY <2>1, <2>2, <2>3, <2>4, <2>5, <3>1, LbAccount
  <2>7. Lb!TypeOK'
    <3>1. lbRound' \in DOMAIN LbSchedule /\ lbFailed' \in BOOLEAN
      BY <2>1, <1>a, <1>c
    <3>2. lbPhase' \in {"absent", "setup", "create", "join", "done"} /\ lbNext' \in 1..(LbMaxThreads + 1)
      BY <1>0, <2>1, <1>a, <1>c
    <3>3. lbOps' \in [Lb!T -> 0..LbMaxOps]
      BY <1>a, <1>c
    <3>4. lbN' \in [Lb!T -> 0..LbMaxOps]
      BY <1>0, <1>a, <1>c
    <3>5. lbTcsw' \in [Lb!T -> Int]
      BY <1>b, <1>a, <1>c
    <3>6. lbNvcsw' \in [Lb!T -> 0..(LbMaxSwitches + 1)]
      BY <1>0, <1>a, <1>c
    <3>7. lbPc' \in [Lb!T -> {"none", "start", "loop", "locked", "dec"}]
      BY <1>a, <1>c
    <3>8. lbHolders' \subseteq Lb!T
      BY <2>1, <1>a, <1>c
    <3> QED BY <2>6, <3>1, <3>2, <3>3, <3>4, <3>5, <3>6, <3>7, <3>8 DEF Lb!TypeOK
  <2>8. Lb!Placed'
    BY <1>0, <1>a, <2>1 DEF Lb!Placed, Lb!Nthr
  <2>9. Lb!Protected'
    BY <1>0, <1>a, <2>1 DEF Lb!Placed, Lb!Protected, Lb!Lock
  <2> QED BY <2>6, <2>7, <2>8, <2>9
<1>2. CASE Lb!Acquire(i)
  <2> USE <1>2 DEF Lb!Acquire, Lb!data, Lb!report
  <2>1. i \in 1..Lb!Nthr /\ lbPhase \in {"create", "join"} /\ lbPhase' = lbPhase /\ lbRound' = lbRound
    BY <1>0, <1>a DEF Lb!Placed
  <2>2. \A k \in 1..Lb!Nthr : Lb!Alive'[k] = IF k = i THEN Lb!Alive[k] + 0 ELSE Lb!Alive[k]
    BY <1>0, <1>a, <2>1 DEF Lb!Placed, Lb!Alive
  <2>3. \A k \in 1..Lb!Nthr : Lb!OpsSoFar'[k] = IF k = i THEN Lb!OpsSoFar[k] + 0 ELSE Lb!OpsSoFar[k]
    <3> SUFFICES ASSUME NEW k \in 1..Lb!Nthr
                 PROVE  Lb!OpsSoFar'[k] = IF k = i THEN Lb!OpsSoFar[k] + 0 ELSE Lb!OpsSoFar[k]
      OBVIOUS
    <3>1. CASE k = i
      BY <1>0, <1>a, <1>b, <2>1, <3>1 DEF Lb!Placed, Lb!OpsSoFar
    <3>2. CASE k # i
      BY <1>0, <1>a, <1>b, <2>1, <3>2 DEF Lb!Placed, Lb!OpsSoFar
    <3> QED BY <3>1, <3>2
  <2>4. ~lbFailed' => /\ ~lbFailed
                      /\ \A k \in 1..Lb!Nthr :
                           Lb!SlpSoFar'[k] = IF k = i THEN Lb!SlpSoFar[k] + 0 ELSE Lb!SlpSoFar[k]
    <3> SUFFICES ASSUME ~lbFailed', NEW k \in 1..Lb!Nthr
                 PROVE  ~lbFailed /\ Lb!SlpSoFar'[k] = IF k = i THEN Lb!SlpSoFar[k] + 0 ELSE Lb!SlpSoFar[k]
      BY <1>0
    <3>1. CASE k = i
      BY <1>0, <1>a, <1>b, <2>1, <3>1 DEF Lb!Placed, Lb!SlpSoFar
    <3>2. CASE k # i
      BY <1>0, <1>a, <1>b, <2>1, <3>2 DEF Lb!Placed, Lb!SlpSoFar
    <3> QED BY <3>1, <3>2
  <2>5. lbRunning' = lbRunning + 0 /\ lbDid' = lbDid + 0 /\ lbSlept' = lbSlept + 0
    BY DEF Lb!TypeOK, Lb!Accounted
  <2>6. Lb!Accounted' /\ lbRunning' \in 0..LbMaxThreads
    <3>1. i \in 1..Lb!Nthr /\ 0 \in Int
      BY <2>1
    <3> HIDE <1>2
    <3> QED BY <2>1, <2>2, <2>3, <2>4, <2>5, <3>1, LbAccount
  <2>7. Lb!TypeOK'
    <3>1. lbRound' \in DOMAIN LbSchedule /\ lbFailed' \in BOOLEAN
      BY <2>1, <1>a, <1>c
    <3>2. lbPhase' \in {"absent", "setup", "create", "join", "done"} /\ lbNext' \in 1..(LbMaxThreads + 1)
      BY <1>0, <2>1, <1>a, <1>c
    <3>3. lbOps' \in [Lb!T -> 0..LbMaxOps]
      BY <1>a, <1>c
    <3>4. lbN' \in [Lb!T -> 0..LbMaxOps]
      BY <1>0, <1>a, <1>c
    <3>5. lbTcsw' \in [Lb!T -> Int]
      BY <1>b, <1>a, <1>c
    <3>6. lbNvcsw' \in [Lb!T -> 0..(LbMaxSwitches + 1)]
      BY <1>0, <1>a, <1>c
    <3>7. lbPc' \in [Lb!T -> {"none", "start", "loop", "locked", "dec"}]
      BY <1>a, <1>c
    <3>8. lbHolders' \subseteq Lb!T
      BY <2>1, <1>a, <1>c
    <3> QED BY <2>6, <3>1, <3>2, <3>3, <3>4, <3>5, <3>6, <3>7, <3>8 DEF Lb!TypeOK
  <2>8. Lb!Placed'
    BY <1>0, <1>a, <2>1 DEF Lb!Placed, Lb!Nthr
  <2>9. Lb!Protected'
    BY <1>0, <1>a, <2>1 DEF Lb!Placed, Lb!Protected, Lb!Lock
  <2> QED BY <2>6, <2>7, <2>8, <2>9
<1>3. CASE Lb!Sleep(i)
  <2> USE <1>3 DEF Lb!Sleep, Lb!data, Lb!report
  <2>1. i \in 1..Lb!Nthr /\ lbPhase \in {"create", "join"} /\ lbPhase' = lbPhase /\ lbRound' = lbRound
    BY <1>0, <1>a DEF Lb!Placed
  <2>a. lbNvcsw[i] + 1 \in 0..(LbMaxSwitches + 1)
    BY <1>c
  <2>2. \A k \in 1..Lb!Nthr : Lb!Alive'[k] = IF k = i THEN Lb!Alive[k] + 0 ELSE Lb!Alive[k]
    BY <1>0, <2>a, <1>a, <2>1 DEF Lb!Placed, Lb!Alive
  <2>3. \A k \in 1..Lb!Nthr : Lb!OpsSoFar'[k] = IF k = i THEN Lb!OpsSoFar[k] + 0 ELSE Lb!OpsSoFar[k]
    <3> SUFFICES ASSUME NEW k \in 1..Lb!Nthr
                 PROVE  Lb!OpsSoFar'[k] = IF k = i THEN Lb!OpsSoFar[k] + 0 ELSE Lb!OpsSoFar[k]
      OBVIOUS
    <3>1. CASE k = i
      BY <1>0, <2>a, <1>a, <1>b, <2>1, <3>1 DEF Lb!Placed, Lb!OpsSoFar
    <3>2. CASE k # i
      BY <1>0, <2>a, <1>a, <1>b, <2>1, <3>2 DEF Lb!Placed, Lb!OpsSoFar
    <3> QED BY <3>1, <3>2
  <2>4. ~lbFailed' => /\ ~lbFailed
                      /\ \A k \in 1..Lb!Nthr :
                           Lb!SlpSoFar'[k] = IF k = i THEN Lb!SlpSoFar[k] + 1 ELSE Lb!SlpSoFar[k]
    <3> SUFFICES ASSUME ~lbFailed', NEW k \in 1..Lb!Nthr
                 PROVE  ~lbFailed /\ Lb!SlpSoFar'[k] = IF k = i THEN Lb!SlpSoFar[k] + 1 ELSE Lb!SlpSoFar[k]
      BY <1>0
    <3>1. CASE k = i
      BY <1>0, <2>a, <1>a, <1>b, <2>1, <3>1 DEF Lb!Placed, Lb!SlpSoFar
    <3>2. CASE k # i
      BY <1>0, <2>a, <1>a, <1>b, <2>1, <3>2 DEF Lb!Placed, Lb!SlpSoFar
    <3> QED BY <3>1, <3>2
  <2>5. lbRunning' = lbRunning + 0 /\ lbDid' = lbDid + 0 /\ lbSlept' = lbSlept + 1
    BY DEF Lb!TypeOK, Lb!Accounted
  <2>6. Lb!Accounted' /\ lbRunning' \in 0..LbMaxThreads
    <3>1. i \in 1..Lb!Nthr /\ 0 \in Int /\ 1 \in Int
      BY <2>1
    <3> HIDE <1>3
    <3> QED BY <2>1, <2>2, <2>3, <2>4, <2>5, <3>1, LbAccount
  <2>7. Lb!TypeOK'
    <3>1. lbRound' \in DOMAIN LbSchedule /\ lbFailed' \in BOOLEAN
      BY <2>1, <1>a, <1>c
    <3>2. lbPhase' \in {"absent", "setup", "create", "join", "done"} /\ lbNext' \in 1..(LbMaxThreads + 1)
      BY <1>0, <2>1, <1>a, <1>c
    <3>3. lbOps' \in [Lb!T -> 0..LbMaxOps]
      BY <1>a, <1>c
    <3>4. lbN' \in [Lb!T -> 0..LbMaxOps]
      BY <1>0, <2>a, <1>a, <1>c
    <3>5. lbTcsw' \in [Lb!T -> Int]
      BY <1>b, <1>a, <1>c
    <3>6. lbNvcsw' \in [Lb!T -> 0..(LbMaxSwitches + 1)]
      BY <1>0, <2>a, <1>a, <1>c
    <3>7. lbPc' \in [Lb!T -> {"none", "start", "loop", "locked", "dec"}]
      BY <1>a, <1>c
    <3>8. lbHolders' \subseteq Lb!T
      BY <2>1, <1>a, <1>c
    <3> QED BY <2>6, <3>1, <3>2, <3>3, <3>4, <3>5, <3>6, <3>7, <3>8 DEF Lb!TypeOK
  <2>8. Lb!Placed'
    BY <1>0, <2>a, <1>a, <2>1 DEF Lb!Placed, Lb!Nthr
  <2>9. Lb!Protected'
    BY <1>0, <2>a, <1>a, <2>1 DEF Lb!Placed, Lb!Protected, Lb!Lock
  <2> QED BY <2>6, <2>7, <2>8, <2>9
<1>4. CASE Lb!Release(i)
  <2> USE <1>4 DEF Lb!Release, Lb!data, Lb!report
  <2>1. i \in 1..Lb!Nthr /\ lbPhase \in {"create", "join"} /\ lbPhase' = lbPhase /\ lbRound' = lbRound
    BY <1>0, <1>a DEF Lb!Placed
  <2>a. i \in lbHolders /\ lbN[i] + 1 \in 0..LbMaxOps /\ lbPc'[i] = "loop" /\ \A k \in Lb!T : k # i => lbPc'[k] = lbPc[k]
    <3>1. i \in lbHolders
      BY DEF Lb!Protected
    <3>2. lbN[i] \in 0..LbMaxOps /\ lbN[i] < LbMaxOps
      BY <1>c, <3>1 DEF Lb!Protected
    <3>3. lbN[i] + 1 \in 0..LbMaxOps
      BY <3>2
    <3>4. lbPc'[i] = "loop" /\ \A k \in Lb!T : k # i => lbPc'[k] = lbPc[k]
      BY <1>a
    <3> QED BY <3>1, <3>3, <3>4
  <2>2. \A k \in 1..Lb!Nthr : Lb!Alive'[k] = IF k = i THEN Lb!Alive[k] + 0 ELSE Lb!Alive[k]
    BY <1>0, <2>a, <1>a, <2>1 DEF Lb!Placed, Lb!Alive
  <2>3. \A k \in 1..Lb!Nthr : Lb!OpsSoFar'[k] = IF k = i THEN Lb!OpsSoFar[k] + 1 ELSE Lb!OpsSoFar[k]
    <3> SUFFICES ASSUME NEW k \in 1..Lb!Nthr
                 PROVE  Lb!OpsSoFar'[k] = IF k = i THEN Lb!OpsSoFar[k] + 1 ELSE Lb!OpsSoFar[k]
      OBVIOUS
    <3>1. CASE k = i
      BY <1>0, <2>a, <1>a, <1>b, <2>1, <3>1 DEF Lb!Placed, Lb!OpsSoFar
    <3>2. CASE k # i
      BY <1>0, <2>a, <1>a, <1>b, <2>1, <3>2 DEF Lb!Placed, Lb!OpsSoFar
    <3> QED BY <3>1, <3>2
  <2>4. ~lbFailed' => /\ ~lbFailed
                      /\ \A k \in 1..Lb!Nthr :
                           Lb!SlpSoFar'[k] = IF k = i THEN Lb!SlpSoFar[k] + 0 ELSE Lb!SlpSoFar[k]
    <3> SUFFICES ASSUME ~lbFailed', NEW k \in 1..Lb!Nthr
                 PROVE  ~lbFailed /\ Lb!SlpSoFar'[k] = IF k = i THEN Lb!SlpSoFar[k] + 0 ELSE Lb!SlpSoFar[k]
      BY <1>0
    <3>1. CASE k = i
      BY <1>0, <2>a, <1>a, <1>b, <2>1, <3>1 DEF Lb!Placed, Lb!SlpSoFar
    <3>2. CASE k # i
      BY <1>0, <2>a, <1>a, <1>b, <2>1, <3>2 DEF Lb!Placed, Lb!SlpSoFar
    <3> QED BY <3>1, <3>2
  <2>5. lbRunning' = lbRunning + 0 /\ lbDid' = lbDid + 1 /\ lbSlept' = lbSlept + 0
    BY DEF Lb!TypeOK, Lb!Accounted
  <2>6. Lb!Accounted' /\ lbRunning' \in 0..LbMaxThreads
    <3>1. i \in 1..Lb!Nthr /\ 0 \in Int /\ 1 \in Int
      BY <2>1
    <3> HIDE <1>4
    <3> QED BY <2>1, <2>2, <2>3, <2>4, <2>5, <3>1, LbAccount
  <2>7. Lb!TypeOK'
    <3>1. lbRound' \in DOMAIN LbSchedule /\ lbFailed' \in BOOLEAN
      BY <2>1, <1>a, <1>c
    <3>2. lbPhase' \in {"absent", "setup", "create", "join", "done"} /\ lbNext' \in 1..(LbMaxThreads + 1)
      BY <1>0, <2>1, <1>a, <1>c
    <3>3. lbOps' \in [Lb!T -> 0..LbMaxOps]
      BY <1>a, <1>c
    <3>4. lbN' \in [Lb!T -> 0..LbMaxOps]
      BY <1>0, <2>a, <1>a, <1>c
    <3>5. lbTcsw' \in [Lb!T -> Int]
      BY <1>b, <1>a, <1>c
    <3>6. lbNvcsw' \in [Lb!T -> 0..(LbMaxSwitches + 1)]
      BY <1>0, <2>a, <1>a, <1>c
    <3>7. lbPc' \in [Lb!T -> {"none", "start", "loop", "locked", "dec"}]
      BY <1>a, <1>c
    <3>8. lbHolders' \subseteq Lb!T
      BY <2>1, <1>a, <1>c
    <3> QED BY <2>6, <3>1, <3>2, <3>3, <3>4, <3>5, <3>6, <3>7, <3>8 DEF Lb!TypeOK
  <2>8. Lb!Placed'
    BY <1>0, <2>a, <1>a, <2>1 DEF Lb!Placed, Lb!Nthr
  <2>9. Lb!Protected'
    <3>1. Lb!Lock' = Lb!Lock /\ lbBl_shared \in Nat /\ lbBl_shared = lbProtected /\ lbBl_atomic \in Nat /\ lbBl_atomic = lbAtomics
      BY DEF Lb!Lock, Lb!Protected
    <3>2. Lb!Lock \in Lb!Exclusive => lbTmp[i] = lbBl_shared /\ lbHolders' = {}
      BY <2>a DEF Lb!Protected
    <3>3. lbBl_shared' \in Nat /\ lbBl_shared' = lbProtected' /\ lbBl_atomic' \in Nat /\ lbBl_atomic' = lbAtomics'
      BY <3>1, <3>2
    <3>4. lbTmp' \in [Lb!T -> Nat] /\ lbHolders' = {k \in Lb!T : lbPc'[k] = "locked"}
      BY <2>a DEF Lb!Protected
    <3>5. \A k \in lbHolders' : lbN'[k] < LbMaxOps
      BY <1>a, <2>a DEF Lb!Protected
    <3> QED BY <3>1, <3>2, <3>3, <3>4, <3>5 DEF Lb!Protected
  <2> QED BY <2>6, <2>7, <2>8, <2>9
<1>5. CASE Lb!Finish(i)
  <2> USE <1>5 DEF Lb!Finish, Lb!data, Lb!report
  <2>1. i \in 1..Lb!Nthr /\ lbPhase \in {"create", "join"} /\ lbPhase' = lbPhase /\ lbRound' = lbRound
    BY <1>0, <1>a DEF Lb!Placed
  <2>2. \A k \in 1..Lb!Nthr : Lb!Alive'[k] = IF k = i THEN Lb!Alive[k] + 0 ELSE Lb!Alive[k]
    BY <1>0, <1>a, <2>1 DEF Lb!Placed, Lb!Alive
  <2>3. \A k \in 1..Lb!Nthr : Lb!OpsSoFar'[k] = IF k = i THEN Lb!OpsSoFar[k] + 0 ELSE Lb!OpsSoFar[k]
    <3> SUFFICES ASSUME NEW k \in 1..Lb!Nthr
                 PROVE  Lb!OpsSoFar'[k] = IF k = i THEN Lb!OpsSoFar[k] + 0 ELSE Lb!OpsSoFar[k]
      OBVIOUS
    <3>1. CASE k = i
      BY <1>0, <1>a, <1>b, <2>1, <3>1 DEF Lb!Placed, Lb!OpsSoFar
    <3>2. CASE k # i
      BY <1>0, <1>a, <1>b, <2>1, <3>2 DEF Lb!Placed, Lb!OpsSoFar
    <3> QED BY <3>1, <3>2
  <2>4. ~lbFailed' => /\ ~lbFailed
                      /\ \A k \in 1..Lb!Nthr :
                           Lb!SlpSoFar'[k] = IF k = i THEN Lb!SlpSoFar[k] + 0 ELSE Lb!SlpSoFar[k]
    <3> SUFFICES ASSUME ~lbFailed', NEW k \in 1..Lb!Nthr
                 PROVE  ~lbFailed /\ Lb!SlpSoFar'[k] = IF k = i THEN Lb!SlpSoFar[k] + 0 ELSE Lb!SlpSoFar[k]
      BY <1>0
    <3>1. CASE k = i
      BY <1>0, <1>a, <1>b, <2>1, <3>1 DEF Lb!Placed, Lb!SlpSoFar
    <3>2. CASE k # i
      BY <1>0, <1>a, <1>b, <2>1, <3>2 DEF Lb!Placed, Lb!SlpSoFar
    <3> QED BY <3>1, <3>2
  <2>5. lbRunning' = lbRunning + 0 /\ lbDid' = lbDid + 0 /\ lbSlept' = lbSlept + 0
    BY DEF Lb!TypeOK, Lb!Accounted
  <2>6. Lb!Accounted' /\ lbRunning' \in 0..LbMaxThreads
    <3>1. i \in 1..Lb!Nthr /\ 0 \in Int
      BY <2>1
    <3> HIDE <1>5
    <3> QED BY <2>1, <2>2, <2>3, <2>4, <2>5, <3>1, LbAccount
  <2>7. Lb!TypeOK'
    <3>1. lbRound' \in DOMAIN LbSchedule /\ lbFailed' \in BOOLEAN
      BY <2>1, <1>a, <1>c
    <3>2. lbPhase' \in {"absent", "setup", "create", "join", "done"} /\ lbNext' \in 1..(LbMaxThreads + 1)
      BY <1>0, <2>1, <1>a, <1>c
    <3>3. lbOps' \in [Lb!T -> 0..LbMaxOps]
      BY <1>a, <1>c
    <3>4. lbN' \in [Lb!T -> 0..LbMaxOps]
      BY <1>0, <1>a, <1>c
    <3>5. lbTcsw' \in [Lb!T -> Int]
      BY <1>b, <1>a, <1>c
    <3>6. lbNvcsw' \in [Lb!T -> 0..(LbMaxSwitches + 1)]
      BY <1>0, <1>a, <1>c
    <3>7. lbPc' \in [Lb!T -> {"none", "start", "loop", "locked", "dec"}]
      BY <1>a, <1>c
    <3>8. lbHolders' \subseteq Lb!T
      BY <2>1, <1>a, <1>c
    <3> QED BY <2>6, <3>1, <3>2, <3>3, <3>4, <3>5, <3>6, <3>7, <3>8 DEF Lb!TypeOK
  <2>8. Lb!Placed'
    BY <1>0, <1>a, <2>1 DEF Lb!Placed, Lb!Nthr
  <2>9. Lb!Protected'
    BY <1>0, <1>a, <2>1 DEF Lb!Placed, Lb!Protected, Lb!Lock
  <2> QED BY <2>6, <2>7, <2>8, <2>9
<1>6. CASE Lb!Dec(i)
  <2> USE <1>6 DEF Lb!Dec, Lb!Gone, Lb!data, Lb!report
  <2>1. i \in 1..Lb!Nthr /\ lbPhase \in {"create", "join"} /\ lbPhase' = lbPhase /\ lbRound' = lbRound
    BY <1>0, <1>a DEF Lb!Placed
  <2>2. \A k \in 1..Lb!Nthr : Lb!Alive'[k] = IF k = i THEN Lb!Alive[k] + (-1) ELSE Lb!Alive[k]
    BY <1>0, <1>a, <2>1 DEF Lb!Placed, Lb!Alive
  <2>3. \A k \in 1..Lb!Nthr : Lb!OpsSoFar'[k] = IF k = i THEN Lb!OpsSoFar[k] + 0 ELSE Lb!OpsSoFar[k]
    <3> SUFFICES ASSUME NEW k \in 1..Lb!Nthr
                 PROVE  Lb!OpsSoFar'[k] = IF k = i THEN Lb!OpsSoFar[k] + 0 ELSE Lb!OpsSoFar[k]
      OBVIOUS
    <3>1. CASE k = i
      BY <1>0, <1>a, <1>b, <2>1, <3>1 DEF Lb!Placed, Lb!OpsSoFar
    <3>2. CASE k # i
      BY <1>0, <1>a, <1>b, <2>1, <3>2 DEF Lb!Placed, Lb!OpsSoFar
    <3> QED BY <3>1, <3>2
  <2>4. ~lbFailed' => /\ ~lbFailed
                      /\ \A k \in 1..Lb!Nthr :
                           Lb!SlpSoFar'[k] = IF k = i THEN Lb!SlpSoFar[k] + 0 ELSE Lb!SlpSoFar[k]
    <3> SUFFICES ASSUME ~lbFailed', NEW k \in 1..Lb!Nthr
                 PROVE  ~lbFailed /\ Lb!SlpSoFar'[k] = IF k = i THEN Lb!SlpSoFar[k] + 0 ELSE Lb!SlpSoFar[k]
      BY <1>0
    <3>1. CASE k = i
      BY <1>0, <1>a, <1>b, <2>1, <3>1 DEF Lb!Placed, Lb!SlpSoFar
    <3>2. CASE k # i
      BY <1>0, <1>a, <1>b, <2>1, <3>2 DEF Lb!Placed, Lb!SlpSoFar
    <3> QED BY <3>1, <3>2
  <2>5. lbRunning' = lbRunning + (-1) /\ lbDid' = lbDid + 0 /\ lbSlept' = lbSlept + 0
    BY DEF Lb!TypeOK, Lb!Accounted
  <2>6. Lb!Accounted' /\ lbRunning' \in 0..LbMaxThreads
    <3>1. i \in 1..Lb!Nthr /\ -1 \in Int /\ 0 \in Int
      BY <2>1
    <3> HIDE <1>6
    <3> QED BY <2>1, <2>2, <2>3, <2>4, <2>5, <3>1, LbAccount
  <2>7. Lb!TypeOK'
    <3>1. lbRound' \in DOMAIN LbSchedule /\ lbFailed' \in BOOLEAN
      BY <2>1, <1>a, <1>c
    <3>2. lbPhase' \in {"absent", "setup", "create", "join", "done"} /\ lbNext' \in 1..(LbMaxThreads + 1)
      BY <1>0, <2>1, <1>a, <1>c
    <3>3. lbOps' \in [Lb!T -> 0..LbMaxOps]
      BY <1>a, <1>c
    <3>4. lbN' \in [Lb!T -> 0..LbMaxOps]
      BY <1>0, <1>a, <1>c
    <3>5. lbTcsw' \in [Lb!T -> Int]
      BY <1>b, <1>a, <1>c
    <3>6. lbNvcsw' \in [Lb!T -> 0..(LbMaxSwitches + 1)]
      BY <1>0, <1>a, <1>c
    <3>7. lbPc' \in [Lb!T -> {"none", "start", "loop", "locked", "dec"}]
      BY <1>a, <1>c
    <3>8. lbHolders' \subseteq Lb!T
      BY <2>1, <1>a, <1>c
    <3> QED BY <2>6, <3>1, <3>2, <3>3, <3>4, <3>5, <3>6, <3>7, <3>8 DEF Lb!TypeOK
  <2>8. Lb!Placed'
    BY <1>0, <1>a, <2>1 DEF Lb!Placed, Lb!Nthr
  <2>9. Lb!Protected'
    BY <1>0, <1>a, <2>1 DEF Lb!Placed, Lb!Protected, Lb!Lock
  <2> QED BY <2>6, <2>7, <2>8, <2>9
<1> QED BY <1>1, <1>2, <1>3, <1>4, <1>5, <1>6 DEF Lb!Bench

\* Between rounds.  That running is zero says that no thread is left.
LEMMA LbRoundSteps ==
  ASSUME LbMaxThreads \in Nat, LbMaxOps \in Nat, LbMaxSwitches \in Nat,
         LbSchedule \in Seq(Lb!Kinds \X (1..LbMaxThreads)), LbSchedule # <<>>, Lb!LbInv,
         Lb!Load \/ Lb!Setup \/ Lb!Join
  PROVE  Lb!LbInv'
<1> USE DEF Lb!LbInv
<1>0. /\ Lb!Nthr \in 1..LbMaxThreads /\ 1..Lb!Nthr \subseteq Lb!T
      /\ \A k \in Lb!T : k \in Nat /\ 1 <= k /\ k <= LbMaxThreads
      /\ lbNext \in Nat /\ 1 <= lbNext /\ lbNext <= LbMaxThreads + 1
      /\ 0 \in 0..LbMaxOps /\ 1 \in 0..(LbMaxSwitches + 1)
  <2>1. lbNext \in 1..(LbMaxThreads + 1)
    BY DEF Lb!TypeOK
  <2> QED BY <2>1, LbRound DEF Lb!T
<1>a. lbPc \in [Lb!T -> {"none", "start", "loop", "locked", "dec"}] /\ lbOps \in [Lb!T -> Int] /\ lbN \in [Lb!T -> Int]
  BY DEF Lb!TypeOK
<1>b. lbTcsw \in [Lb!T -> Int] /\ lbNvcsw \in [Lb!T -> Int]
  BY DEF Lb!TypeOK
<1>c. /\ lbOps \in [Lb!T -> 0..LbMaxOps] /\ lbN \in [Lb!T -> 0..LbMaxOps] /\ lbNvcsw \in [Lb!T -> 0..(LbMaxSwitches + 1)]
      /\ lbHolders \subseteq Lb!T /\ lbRound \in DOMAIN LbSchedule /\ lbFailed \in BOOLEAN
  BY DEF Lb!TypeOK
<1>1. CASE Lb!Load
  <2> USE <1>1 DEF Lb!Load
  <2>1. Lb!TypeOK'
    <3>1. UNCHANGED <<lbRound, lbNext, lbRunning, lbOps, lbTcsw, lbPc, lbN, lbNvcsw, lbHolders, lbFailed>>
      BY DEF Lb!report
    <3> QED BY <3>1 DEF Lb!TypeOK
  <2>2. Lb!Placed'
    BY <1>0 DEF Lb!TypeOK, Lb!Placed
  <2>3. Lb!Protected'
    BY DEF Lb!TypeOK, Lb!Placed, Lb!Protected, Lb!Lock, Lb!data
  <2>4. Lb!Accounted'
    BY DEF Lb!TypeOK, Lb!Accounted, Lb!report
  <2> QED BY <2>1, <2>2, <2>3, <2>4
<1>2. CASE Lb!Setup
  <2> USE <1>2 DEF Lb!Setup
  <2>1. \A k \in Lb!T : lbPc'[k] = "none" /\ lbOps'[k] = 0 /\ k >= lbNext'
    BY <1>0 DEF Lb!TypeOK, Lb!Placed, Lb!Zero
  <2>2. Lb!Nthr' = Lb!Nthr /\ lbRunning' = Lb!Nthr /\ lbNext' = 1 /\ lbPhase' = "create" /\ lbDid' = 0 /\ lbSlept' = 0
    BY DEF Lb!Nthr
  <2>3. Lb!TypeOK'
    <3>1. lbOps' \in [Lb!T -> 0..LbMaxOps]
      BY DEF Lb!Zero
    <3>2. UNCHANGED <<lbRound, lbTcsw, lbPc, lbN, lbNvcsw, lbHolders, lbFailed>>
      BY DEF Lb!report
    <3>3. lbNext' \in 1..(LbMaxThreads + 1) /\ lbRunning' \in 0..LbMaxThreads
      BY <1>0, <2>2
    <3> QED BY <2>2, <3>1, <3>2, <3>3 DEF Lb!TypeOK
  <2>4. Lb!Placed'
    BY <1>0, <2>1, <2>2 DEF Lb!TypeOK, Lb!Placed
  <2>5. Lb!Protected'
    BY <2>1 DEF Lb!TypeOK, Lb!Placed, Lb!Protected, Lb!Lock, Lb!data
  <2>6. \A k \in 1..Lb!Nthr : Lb!Alive'[k] = 1 /\ Lb!OpsSoFar'[k] = 0 /\ Lb!SlpSoFar'[k] = 0
    <3>1. \A k \in 1..Lb!Nthr : k \in Lb!T /\ 1 <= k
      BY <1>0
    <3> QED BY <2>1, <2>2, <3>1 DEF Lb!Alive, Lb!OpsSoFar, Lb!SlpSoFar
  <2>7. Lb!Sum(Lb!Alive', Lb!Nthr) = Lb!Nthr
    <3>1. \A k \in 1..Lb!Nthr : Lb!Alive'[k] \in {0, 1}
      BY <2>6
    <3>2. \A k \in 1..Lb!Nthr : Lb!Alive'[k] = 1
      BY <2>6
    <3> QED BY <1>0, <3>1, <3>2, LbSumBits
  <2>8. Lb!Sum(Lb!OpsSoFar', Lb!Nthr) = 0 /\ Lb!Sum(Lb!SlpSoFar', Lb!Nthr) = 0
    <3>1. \A k \in 1..Lb!Nthr : Lb!OpsSoFar'[k] \in {0, 1} /\ Lb!OpsSoFar'[k] = 0
      BY <2>6
    <3>2. \A k \in 1..Lb!Nthr : Lb!SlpSoFar'[k] \in {0, 1} /\ Lb!SlpSoFar'[k] = 0
      BY <2>6
    <3> QED BY <1>0, <3>1, <3>2, LbSumBits
  <2>9. Lb!Accounted'
    <3>1. (Lb!Sum(Lb!Alive, Lb!Nthr))' = Lb!Nthr /\ (Lb!Sum(Lb!OpsSoFar, Lb!Nthr))' = 0 /\ (Lb!Sum(Lb!SlpSoFar, Lb!Nthr))' = 0
      BY <2>2, <2>7, <2>8
    <3> QED BY <2>2, <3>1 DEF Lb!Accounted
  <2> QED BY <2>3, <2>4, <2>5, <2>9
<1>3. CASE Lb!Join
  <2> USE <1>3 DEF Lb!Join
  <2>1. \A k \in 1..Lb!Nthr : Lb!Alive[k] \in {0, 1} /\ Lb!OpsSoFar[k] \in Int /\ Lb!SlpSoFar[k] \in Int
    BY <1>0, LbSlots
  <2>2. \A k \in 1..Lb!Nthr : Lb!Alive[k] = 0
    BY <1>0, <2>1, LbSumBits DEF Lb!Accounted
  <2>3. \A k \in Lb!T : lbPc[k] = "none"
    <3> SUFFICES ASSUME NEW k \in Lb!T, lbPc[k] # "none" PROVE FALSE
      BY <1>a
    <3>1. k \in 1..Lb!Nthr
      BY <1>0 DEF Lb!Placed
    <3>2. Lb!Alive[k] = 1
      BY DEF Lb!Alive
    <3> QED BY <2>2, <3>1, <3>2
  <2>4. \A k \in 1..Lb!Nthr : Lb!OpsSoFar[k] = lbOps[k] /\ Lb!SlpSoFar[k] = lbTcsw[k]
    <3>1. \A k \in 1..Lb!Nthr : k \in Lb!T /\ ~ (lbNext <= k)
      BY <1>0 DEF Lb!TypeOK, Lb!Placed
    <3> QED BY <2>3, <3>1 DEF Lb!OpsSoFar, Lb!SlpSoFar
  <2>5. Lb!Total(lbOps) = Lb!Sum(Lb!OpsSoFar, Lb!Nthr) + 0 /\ Lb!Total(lbTcsw) = Lb!Sum(Lb!SlpSoFar, Lb!Nthr) + 0
    <3>1. Shifted(Lb!OpsSoFar, lbOps, Lb!Nthr, 1, 0) /\ Shifted(Lb!SlpSoFar, lbTcsw, Lb!Nthr, 1, 0)
      BY <1>0, <2>1, <2>4 DEF Shifted
    <3> QED BY <3>1, LbSumShift DEF Lb!Total
  <2>6. Lb!TypeOK'
    <3>1. lbRound' \in DOMAIN LbSchedule /\ lbPhase' \in {"setup", "done"}
      BY DEF Lb!TypeOK
    <3> QED BY <3>1 DEF Lb!TypeOK
  <2>7. Lb!Placed'
    BY <2>3 DEF Lb!Placed
  <2>8. Lb!Protected'
    <3>1. lbHolders = {}
      BY <2>3 DEF Lb!Protected
    <3> QED BY <2>3, <3>1 DEF Lb!Protected, Lb!data
  <2>9. Lb!Accounted'
    <3>1. lbDid = Lb!Total(lbOps) /\ (~lbFailed => lbSlept = Lb!Total(lbTcsw)) /\ lbDid \in Int /\ lbSlept \in Int
      BY <2>5 DEF Lb!Accounted
    <3>2. lbRep'.ops = Lb!Total(lbOps) /\ lbRep'.csw = Lb!Total(lbTcsw) /\ lbPhase' \in {"setup", "done"}
      OBVIOUS
    <3> QED BY <3>1, <3>2 DEF Lb!Accounted
  <2> QED BY <2>6, <2>7, <2>8, <2>9
<1> QED BY <1>1, <1>2, <1>3

\* The inductive invariant of lock_bench.c.
LEMMA LbInvariant ==
  ASSUME LbMaxThreads \in Nat, LbMaxOps \in Nat, LbMaxSwitches \in Nat,
         LbSchedule \in Seq(Lb!Kinds \X (1..LbMaxThreads)), LbSchedule # <<>>
  PROVE  /\ Lb!Init => Lb!LbInv
         /\ Lb!LbInv /\ [Lb!Next]_(Lb!vars) => Lb!LbInv'
<1>1. Lb!Init => Lb!LbInv
  <2> SUFFICES ASSUME Lb!Init PROVE Lb!LbInv
    OBVIOUS
  <2> USE DEF Lb!Init
  <2>1. Lb!TypeOK
    <3>1. 1 \in DOMAIN LbSchedule
      OBVIOUS
    <3>2. Lb!Zero \in [Lb!T -> 0..LbMaxOps] /\ Lb!Zero \in [Lb!T -> Int] /\ Lb!Zero \in [Lb!T -> 0..(LbMaxSwitches + 1)]
      BY DEF Lb!Zero
    <3>3. lbPc \in [Lb!T -> {"none", "start", "loop", "locked", "dec"}] /\ lbHolders \subseteq Lb!T
      OBVIOUS
    <3>4. lbFailed \in BOOLEAN
      BY Zenon
    <3>5. lbNext \in 1..(LbMaxThreads + 1) /\ lbRunning \in 0..LbMaxThreads
      OBVIOUS
    <3> QED BY <3>1, <3>2, <3>3, <3>4, <3>5 DEF Lb!TypeOK
  <2>2. Lb!Placed
    BY DEF Lb!Placed
  <2>3. Lb!Protected
    BY DEF Lb!Protected, Lb!Zero
  <2>4. Lb!Accounted
    BY DEF Lb!Accounted
  <2> QED BY <2>1, <2>2, <2>3, <2>4 DEF Lb!LbInv
<1>2. ASSUME Lb!LbInv, UNCHANGED Lb!vars PROVE Lb!LbInv'
  <2>1. Lb!TypeOK' /\ Lb!Placed' /\ Lb!Protected'
    BY <1>2 DEF Lb!vars, Lb!LbInv, Lb!TypeOK, Lb!Placed, Lb!Protected, Lb!Lock, Lb!Nthr
  <2>2. Lb!Alive' = Lb!Alive /\ Lb!OpsSoFar' = Lb!OpsSoFar /\ Lb!SlpSoFar' = Lb!SlpSoFar /\ Lb!Nthr' = Lb!Nthr
    BY <1>2 DEF Lb!vars, Lb!Alive, Lb!OpsSoFar, Lb!SlpSoFar, Lb!Nthr
  <2>3. Lb!Accounted'
    BY <1>2, <2>2 DEF Lb!vars, Lb!LbInv, Lb!Accounted
  <2> QED BY <2>1, <2>3 DEF Lb!LbInv
<1> QED BY <1>1, <1>2, LbRoundSteps, LbCreateSteps, LbThreadSteps DEF Lb!Next, Lb!Insmod, Lb!Done

\* What insmod prints, and what it leaves behind.
LEMMA LbExact ==
  Lb!LbInv => Lb!RoundsDoNotOverlap /\ Lb!NoLostUpdate /\ Lb!OpsExact /\ Lb!SwitchesExact
<1> SUFFICES ASSUME Lb!LbInv
             PROVE  Lb!RoundsDoNotOverlap /\ Lb!NoLostUpdate /\ Lb!OpsExact /\ Lb!SwitchesExact
  OBVIOUS
<1>1. Lb!RoundsDoNotOverlap
  BY DEF Lb!LbInv, Lb!Placed, Lb!Protected, Lb!RoundsDoNotOverlap
<1>2. Lb!NoLostUpdate
  BY DEF Lb!LbInv, Lb!Protected, Lb!NoLostUpdate
<1>3. Lb!OpsExact /\ Lb!SwitchesExact
  BY DEF Lb!LbInv, Lb!Accounted, Lb!OpsExact, Lb!SwitchesExact
<1> QED BY <1>1, <1>2, <1>3

-----------------------------------------------------------------------------
(* The khungtaskd of lockup_lab.c ...                                      *)

\* The lowest of some slots.
LEMMA KhLowestSlot ==
  ASSUME KhHtMax \in Nat, NEW S \in SUBSET Kh!Slots, S # {}
  PROVE  Kh!Lowest(S) \in S /\ \A j \in S : Kh!Lowest(S) <= j
<1>1. S \in SUBSET Nat
  BY DEF Kh!Slots
<1>2. \E x \in S : \A y \in S : x <= y
  BY <1>1, SmallestElement
<1> QED BY <1>2 DEF Kh!Lowest

\* ht_slot(): the slot of the pid if it has one; else the first free slot, the
\* slots before it being in use; else none.
LEMMA KhSlotFound ==
  ASSUME KhHtMax \in Nat, NEW p \in KhPids
  PROVE  \/ Kh!HtSlot(p) \in Kh!Slots /\ khHtPid[Kh!HtSlot(p)] = p
         \/ /\ \A i \in Kh!Slots : khHtPid[i] # p
            /\ Kh!HtSlot(p) \in Kh!Slots /\ khHtPid[Kh!HtSlot(p)] = 0
            /\ \A i \in Kh!Slots : khHtPid[i] = 0 => Kh!HtSlot(p) <= i
         \/ /\ \A i \in Kh!Slots : khHtPid[i] # p /\ khHtPid[i] # 0
            /\ Kh!HtSlot(p) = 0
<1>1. CASE Kh!Held(p) # {}
  <2>1. Kh!Held(p) \in SUBSET Kh!Slots
    BY DEF Kh!Held
  <2>2. Kh!Lowest(Kh!Held(p)) \in Kh!Held(p) /\ Kh!HtSlot(p) = Kh!Lowest(Kh!Held(p))
    BY <1>1, <2>1, KhLowestSlot DEF Kh!HtSlot
  <2>3. Kh!HtSlot(p) \in Kh!Held(p)
    BY <2>2
  <2> QED BY <2>3 DEF Kh!Held
<1>2. CASE Kh!Held(p) = {} /\ Kh!Free # {}
  <2>1. Kh!Free \in SUBSET Kh!Slots
    BY DEF Kh!Free
  <2>2. /\ Kh!Lowest(Kh!Free) \in Kh!Free /\ Kh!HtSlot(p) = Kh!Lowest(Kh!Free)
        /\ \A j \in Kh!Free : Kh!Lowest(Kh!Free) <= j
    BY <1>2, <2>1, KhLowestSlot DEF Kh!HtSlot
  <2>3. Kh!HtSlot(p) \in Kh!Free /\ \A j \in Kh!Free : Kh!HtSlot(p) <= j
    BY <2>2
  <2>4. \A i \in Kh!Slots : khHtPid[i] # p
    BY <1>2 DEF Kh!Held
  <2> QED BY <2>3, <2>4 DEF Kh!Free
<1>3. CASE Kh!Held(p) = {} /\ Kh!Free = {}
  <2>1. Kh!HtSlot(p) = 0
    BY <1>3 DEF Kh!HtSlot
  <2> QED BY <1>3, <2>1 DEF Kh!Held, Kh!Free
<1> QED BY <1>1, <1>2, <1>3

\* check_one() of a task in D state that has a slot, or gets the first free one.
LEMMA KhVisit ==
  ASSUME KhPids \subseteq Nat \ {0}, KhHtMax \in Nat, KhMaxSwitch \in Nat,
         NEW p \in KhPids, Kh!Visit(p), Kh!KhInv
  PROVE  Kh!KhInv'
<1> USE DEF Kh!KhInv, Kh!tasks, Kh!table
<1>1. CASE khTask[p] \notin {"prep", "block"} \/ Kh!HtSlot(p) = 0
  <2>1. UNCHANGED <<Kh!tasks, Kh!table>>
    BY <1>1 DEF Kh!Visit
  <2>2. \/ UNCHANGED <<khSeen, khStill>>
        \/ /\ khTask[p] \in {"prep", "block"}
           /\ \A i \in Kh!Slots : khHtPid[i] # p
           /\ khSeen' = [khSeen EXCEPT ![p] = khSwitches[p]] /\ khStill' = khStill \cup {p}
    <3>1. CASE khTask[p] \notin {"prep", "block"}
      BY <3>1 DEF Kh!Visit
    <3>2. CASE khTask[p] \in {"prep", "block"} /\ Kh!HtSlot(p) = 0
      <4>1. \A i \in Kh!Slots : khHtPid[i] # p
        BY <3>2, KhSlotFound DEF Kh!Slots
      <4> QED BY <3>2, <4>1 DEF Kh!Visit
    <3> QED BY <1>1, <3>1, <3>2
  <2>3. Kh!TypeOK'
    <3>1. /\ khKhung' = khKhung /\ khOns' = khOns /\ khTodo' \subseteq KhPids /\ khReported' = khReported
      BY <1>1 DEF Kh!Visit, Kh!TypeOK
    <3>2. khSeen' \in [KhPids -> Int]
      BY <2>2 DEF Kh!TypeOK
    <3>3. khStill' \subseteq KhPids
      BY <2>2 DEF Kh!TypeOK
    <3> QED BY <2>1, <3>1, <3>2, <3>3 DEF Kh!TypeOK
  <2>4. Kh!TableSound'
    BY <2>1 DEF Kh!TableSound
  <2>5. Kh!Remembered'
    BY <2>1, <2>2 DEF Kh!TypeOK, Kh!Remembered
  <2>6. Kh!Counted'
    BY <2>1, <2>2 DEF Kh!TypeOK, Kh!Counted
  <2> QED BY <2>3, <2>4, <2>5, <2>6
<1>2. CASE khTask[p] \in {"prep", "block"} /\ Kh!HtSlot(p) # 0
  <2> DEFINE s == Kh!HtSlot(p)
  <2>1. /\ s \in Kh!Slots
        /\ khHtPid[s] = p \/ /\ \A i \in Kh!Slots : khHtPid[i] # p
                             /\ khHtPid[s] = 0 /\ \A i \in Kh!Slots : khHtPid[i] = 0 => s <= i
    BY <1>2, KhSlotFound
  <2>2. /\ UNCHANGED <<Kh!tasks, khKhung, khOns>> /\ khTodo' \subseteq KhPids
        /\ khHtPid' = [khHtPid EXCEPT ![s] = p] /\ khHtCount' = [khHtCount EXCEPT ![s] = khSwitches[p]]
        /\ khSeen' = [khSeen EXCEPT ![p] = khSwitches[p]] /\ khStill' = khStill \cup {p}
        /\ khReported' \subseteq khReported \cup {p}
    BY <1>2 DEF Kh!Visit, Kh!TypeOK
  <2> HIDE DEF s
  <2>3. Kh!TypeOK'
    <3>1. khSwitches[p] \in Nat
      BY DEF Kh!TypeOK
    <3>2. khHtPid' \in [Kh!Slots -> KhPids \cup {0}]
      BY <2>1, <2>2 DEF Kh!TypeOK
    <3>4. khHtCount' \in [Kh!Slots -> Nat]
      BY <2>1, <2>2, <3>1 DEF Kh!TypeOK
    <3>5. khSeen' \in [KhPids -> Int]
      BY <2>2, <3>1 DEF Kh!TypeOK
    <3>3. khStill' \subseteq KhPids /\ khReported' \subseteq KhPids
      BY <2>2 DEF Kh!TypeOK
    <3> QED BY <2>2, <3>2, <3>3, <3>4, <3>5 DEF Kh!TypeOK
  <2>4. Kh!TableSound'
    <3>1. \A i \in Kh!Slots : khHtPid'[i] = IF i = s THEN p ELSE khHtPid[i]
      BY <2>1, <2>2 DEF Kh!TypeOK
    <3>2. Kh!Slots \subseteq Nat /\ p # 0
      BY DEF Kh!Slots
    <3>3. ASSUME NEW i \in Kh!Slots, NEW j \in Kh!Slots, khHtPid'[i] = khHtPid'[j], khHtPid'[i] # 0
          PROVE  i = j
      BY <2>1, <3>1, <3>3 DEF Kh!TableSound
    <3>4. ASSUME NEW i \in Kh!Slots, NEW j \in Kh!Slots, i < j, khHtPid'[j] # 0
          PROVE  khHtPid'[i] # 0
      <4>1. CASE khHtPid[s] = p
        BY <2>1, <3>1, <3>2, <3>4, <4>1 DEF Kh!TableSound
      <4>2. CASE j # s
        BY <3>1, <3>2, <3>4, <4>2 DEF Kh!TableSound
      <4>3. CASE j = s /\ khHtPid[s] # p
        BY <2>1, <3>1, <3>2, <3>4, <4>3
      <4> QED BY <4>1, <4>2, <4>3
    <3> QED BY <3>3, <3>4 DEF Kh!TableSound
  <2>5. Kh!Remembered'
    <3>1. ASSUME NEW i \in Kh!Slots, khHtPid'[i] # 0
          PROVE  khHtCount'[i] = khSeen'[khHtPid'[i]] /\ khTask'[khHtPid'[i]] # "unborn"
      <4>1. CASE i = s
        BY <1>2, <2>1, <2>2, <4>1 DEF Kh!TypeOK
      <4>2. CASE i # s
        <5>1. /\ khHtPid'[i] = khHtPid[i] /\ khHtCount'[i] = khHtCount[i] /\ khTask' = khTask
              /\ khHtPid[i] \in KhPids /\ khHtCount[i] = khSeen[khHtPid[i]] /\ khTask[khHtPid[i]] # "unborn"
          BY <2>1, <2>2, <3>1, <4>2 DEF Kh!TypeOK, Kh!Remembered
        <5>2. khHtPid[i] # p
          BY <2>1, <4>2, <5>1 DEF Kh!TableSound
        <5> QED BY <2>2, <5>1, <5>2 DEF Kh!TypeOK
      <4> QED BY <4>1, <4>2
    <3> QED BY <3>1 DEF Kh!Remembered
  <2>6. Kh!Counted'
    BY <1>2, <2>2 DEF Kh!TypeOK, Kh!Counted
  <2> QED BY <2>3, <2>4, <2>5, <2>6
<1> QED BY <1>1, <1>2

\* The tasks, which fork, run, block and exit.
LEMMA KhTaskSteps ==
  ASSUME KhPids \subseteq Nat \ {0}, KhHtMax \in Nat, KhMaxSwitch \in Nat,
         NEW p \in KhPids, Kh!Task(p), Kh!KhInv
  PROVE  Kh!KhInv'
<1> USE DEF Kh!KhInv, Kh!tasks, Kh!table
<1>1. CASE Kh!Fork(p)
  <2> USE <1>1 DEF Kh!Fork
  <2>1. Kh!TypeOK'
    BY DEF Kh!TypeOK
  <2>2. Kh!TableSound'
    BY DEF Kh!TypeOK, Kh!TableSound
  <2>3. Kh!Remembered'
    BY DEF Kh!TypeOK, Kh!Remembered
  <2>4. Kh!Counted'
    BY DEF Kh!TypeOK, Kh!Counted
  <2> QED BY <2>1, <2>2, <2>3, <2>4
<1>2. CASE Kh!ExitTask(p)
  <2> USE <1>2 DEF Kh!ExitTask
  <2>1. Kh!TypeOK'
    BY DEF Kh!TypeOK
  <2>2. Kh!TableSound'
    BY DEF Kh!TypeOK, Kh!TableSound
  <2>3. Kh!Remembered'
    BY DEF Kh!TypeOK, Kh!Remembered
  <2>4. Kh!Counted'
    BY DEF Kh!TypeOK, Kh!Counted
  <2> QED BY <2>1, <2>2, <2>3, <2>4
<1>3. CASE Kh!SetState(p)
  <2> USE <1>3 DEF Kh!SetState
  <2>1. Kh!TypeOK'
    BY DEF Kh!TypeOK
  <2>2. Kh!TableSound'
    BY DEF Kh!TypeOK, Kh!TableSound
  <2>3. Kh!Remembered'
    BY DEF Kh!TypeOK, Kh!Remembered
  <2>4. Kh!Counted'
    BY DEF Kh!TypeOK, Kh!Counted
  <2> QED BY <2>1, <2>2, <2>3, <2>4
<1>4. CASE Kh!SwitchOut(p)
  <2> USE <1>4 DEF Kh!SwitchOut
  <2>1. Kh!TypeOK'
    <3>1. khSwitches[p] + 1 \in 0..KhMaxSwitch
      BY DEF Kh!TypeOK, Kh!Counted
    <3>2. khSwitches' \in [KhPids -> 0..KhMaxSwitch] /\ khTask' \in [KhPids -> {"unborn", "run", "prep", "block", "dead"}]
      BY <3>1 DEF Kh!TypeOK
    <3> QED BY <3>2 DEF Kh!TypeOK
  <2>2. Kh!TableSound'
    BY DEF Kh!TypeOK, Kh!TableSound
  <2>3. Kh!Remembered'
    BY DEF Kh!TypeOK, Kh!Remembered
  <2>4. Kh!Counted'
    BY DEF Kh!TypeOK, Kh!Counted
  <2> QED BY <2>1, <2>2, <2>3, <2>4
<1>5. CASE Kh!Wake(p)
  <2> USE <1>5 DEF Kh!Wake
  <2>1. Kh!TypeOK'
    BY DEF Kh!TypeOK
  <2>2. Kh!TableSound'
    BY DEF Kh!TypeOK, Kh!TableSound
  <2>3. Kh!Remembered'
    BY DEF Kh!TypeOK, Kh!Remembered
  <2>4. Kh!Counted'
    BY DEF Kh!TypeOK, Kh!Counted
  <2> QED BY <2>1, <2>2, <2>3, <2>4
<1> QED BY <1>1, <1>2, <1>3, <1>4, <1>5 DEF Kh!Task

\* The inductive invariant of khungtaskd, while pids are not given out again.
LEMMA KhInvariant ==
  ASSUME KhPids \subseteq Nat \ {0}, KhHtMax \in Nat, KhMaxSwitch \in Nat, KhMaxOn \in Nat
  PROVE  /\ Kh!Init => Kh!KhInv
         /\ Kh!KhInv /\ [Kh!Next]_(Kh!vars) => Kh!KhInv'
<1>1. Kh!Init => Kh!KhInv
  BY DEF Kh!Init, Kh!KhInv, Kh!TypeOK, Kh!TableSound, Kh!Remembered, Kh!Counted, Kh!Slots
<1>2. ASSUME Kh!KhInv, Kh!BeginScan \/ Kh!EndScan \/ Kh!KhungOn \/ Kh!KhungOff
      PROVE  Kh!KhInv'
  <2>1. UNCHANGED <<Kh!tasks, Kh!table, khSeen, khStill>>
    BY <1>2 DEF Kh!BeginScan, Kh!EndScan, Kh!KhungOn, Kh!KhungOff
  <2>2. Kh!TypeOK'
    <3>1. khKhung' \in {"off", "sleep", "scan"} /\ khOns' \in 0..KhMaxOn /\ khReported' = khReported
      BY <1>2 DEF Kh!KhInv, Kh!TypeOK, Kh!BeginScan, Kh!EndScan, Kh!KhungOn, Kh!KhungOff
    <3>2. khTodo' \subseteq KhPids
      BY <1>2 DEF Kh!KhInv, Kh!TypeOK, Kh!BeginScan, Kh!EndScan, Kh!KhungOn, Kh!KhungOff
    <3>3. /\ khTask' = khTask /\ khSwitches' = khSwitches /\ khHtPid' = khHtPid /\ khHtCount' = khHtCount
          /\ khSeen' = khSeen /\ khStill' = khStill
      BY <2>1 DEF Kh!tasks, Kh!table
    <3>4. Kh!TypeOK
      BY <1>2 DEF Kh!KhInv
    <3> QED BY <3>1, <3>2, <3>3, <3>4 DEF Kh!TypeOK
  <2> QED BY <1>2, <2>1, <2>2 DEF Kh!KhInv, Kh!TableSound, Kh!Remembered, Kh!Counted, Kh!tasks, Kh!table
<1>3. Kh!KhInv /\ UNCHANGED Kh!vars => Kh!KhInv'
  BY DEF Kh!vars, Kh!tasks, Kh!table, Kh!KhInv, Kh!TypeOK, Kh!TableSound, Kh!Remembered, Kh!Counted
<1> QED BY <1>1, <1>2, <1>3, KhVisit, KhTaskSteps DEF Kh!Next, Kh!Scan

\* Whoever is newly reported had, at the walk before, the switch count it has.
LEMMA KhTruthful ==
  ASSUME KhPids \subseteq Nat \ {0}, KhHtMax \in Nat, KhMaxSwitch \in Nat,
         Kh!KhInv, [Kh!Next]_(Kh!vars), NEW q \in KhPids, q \in khReported', q \notin khReported
  PROVE  khSeen[q] = khSwitches[q] /\ (khTask[q] = "block" => q \in khStill)
<1>1. PICK p \in KhPids : Kh!Visit(p)
  BY DEF Kh!Next, Kh!Scan, Kh!Task, Kh!BeginScan, Kh!EndScan, Kh!KhungOn, Kh!KhungOff, Kh!Fork, Kh!ExitTask, Kh!SetState,
         Kh!SwitchOut, Kh!Wake, Kh!vars
<1>2. /\ q = p /\ Kh!HtSlot(p) # 0 /\ Kh!LastCount(p, Kh!HtSlot(p)) = khSwitches[p]
  BY <1>1 DEF Kh!Visit
<1>3. khSwitches[p] \in Nat
  BY DEF Kh!KhInv, Kh!TypeOK
<1>4. khHtPid[Kh!HtSlot(p)] = p /\ khHtCount[Kh!HtSlot(p)] = khSwitches[p]
  BY <1>2, <1>3 DEF Kh!LastCount, Kh!UlongMax
<1>5. Kh!HtSlot(p) \in Kh!Slots
  BY <1>2, KhSlotFound
<1>6. khSeen[p] = khSwitches[p]
  BY <1>4, <1>5 DEF Kh!KhInv, Kh!Remembered
<1> QED BY <1>2, <1>6 DEF Kh!KhInv, Kh!Counted

-----------------------------------------------------------------------------
(* ... and again, for the second size of its table.                        *)

\* The lowest of some slots.
LEMMA FullLowestSlot ==
  ASSUME FullHtMax \in Nat, NEW S \in SUBSET Full!Slots, S # {}
  PROVE  Full!Lowest(S) \in S /\ \A j \in S : Full!Lowest(S) <= j
<1>1. S \in SUBSET Nat
  BY DEF Full!Slots
<1>2. \E x \in S : \A y \in S : x <= y
  BY <1>1, SmallestElement
<1> QED BY <1>2 DEF Full!Lowest

\* ht_slot(): the slot of the pid if it has one; else the first free slot, the
\* slots before it being in use; else none.
LEMMA FullSlotFound ==
  ASSUME FullHtMax \in Nat, NEW p \in FullPids
  PROVE  \/ Full!HtSlot(p) \in Full!Slots /\ kfHtPid[Full!HtSlot(p)] = p
         \/ /\ \A i \in Full!Slots : kfHtPid[i] # p
            /\ Full!HtSlot(p) \in Full!Slots /\ kfHtPid[Full!HtSlot(p)] = 0
            /\ \A i \in Full!Slots : kfHtPid[i] = 0 => Full!HtSlot(p) <= i
         \/ /\ \A i \in Full!Slots : kfHtPid[i] # p /\ kfHtPid[i] # 0
            /\ Full!HtSlot(p) = 0
<1>1. CASE Full!Held(p) # {}
  <2>1. Full!Held(p) \in SUBSET Full!Slots
    BY DEF Full!Held
  <2>2. Full!Lowest(Full!Held(p)) \in Full!Held(p) /\ Full!HtSlot(p) = Full!Lowest(Full!Held(p))
    BY <1>1, <2>1, FullLowestSlot DEF Full!HtSlot
  <2>3. Full!HtSlot(p) \in Full!Held(p)
    BY <2>2
  <2> QED BY <2>3 DEF Full!Held
<1>2. CASE Full!Held(p) = {} /\ Full!Free # {}
  <2>1. Full!Free \in SUBSET Full!Slots
    BY DEF Full!Free
  <2>2. /\ Full!Lowest(Full!Free) \in Full!Free /\ Full!HtSlot(p) = Full!Lowest(Full!Free)
        /\ \A j \in Full!Free : Full!Lowest(Full!Free) <= j
    BY <1>2, <2>1, FullLowestSlot DEF Full!HtSlot
  <2>3. Full!HtSlot(p) \in Full!Free /\ \A j \in Full!Free : Full!HtSlot(p) <= j
    BY <2>2
  <2>4. \A i \in Full!Slots : kfHtPid[i] # p
    BY <1>2 DEF Full!Held
  <2> QED BY <2>3, <2>4 DEF Full!Free
<1>3. CASE Full!Held(p) = {} /\ Full!Free = {}
  <2>1. Full!HtSlot(p) = 0
    BY <1>3 DEF Full!HtSlot
  <2> QED BY <1>3, <2>1 DEF Full!Held, Full!Free
<1> QED BY <1>1, <1>2, <1>3

\* check_one() of a task in D state that has a slot, or gets the first free one.
LEMMA FullVisit ==
  ASSUME FullPids \subseteq Nat \ {0}, FullHtMax \in Nat, FullMaxSwitch \in Nat,
         NEW p \in FullPids, Full!Visit(p), Full!KhInv
  PROVE  Full!KhInv'
<1> USE DEF Full!KhInv, Full!tasks, Full!table
<1>1. CASE kfTask[p] \notin {"prep", "block"} \/ Full!HtSlot(p) = 0
  <2>1. UNCHANGED <<Full!tasks, Full!table>>
    BY <1>1 DEF Full!Visit
  <2>2. \/ UNCHANGED <<kfSeen, kfStill>>
        \/ /\ kfTask[p] \in {"prep", "block"}
           /\ \A i \in Full!Slots : kfHtPid[i] # p
           /\ kfSeen' = [kfSeen EXCEPT ![p] = kfSwitches[p]] /\ kfStill' = kfStill \cup {p}
    <3>1. CASE kfTask[p] \notin {"prep", "block"}
      BY <3>1 DEF Full!Visit
    <3>2. CASE kfTask[p] \in {"prep", "block"} /\ Full!HtSlot(p) = 0
      <4>1. \A i \in Full!Slots : kfHtPid[i] # p
        BY <3>2, FullSlotFound DEF Full!Slots
      <4> QED BY <3>2, <4>1 DEF Full!Visit
    <3> QED BY <1>1, <3>1, <3>2
  <2>3. Full!TypeOK'
    <3>1. /\ kfKhung' = kfKhung /\ kfOns' = kfOns /\ kfTodo' \subseteq FullPids /\ kfReported' = kfReported
      BY <1>1 DEF Full!Visit, Full!TypeOK
    <3>2. kfSeen' \in [FullPids -> Int]
      BY <2>2 DEF Full!TypeOK
    <3>3. kfStill' \subseteq FullPids
      BY <2>2 DEF Full!TypeOK
    <3> QED BY <2>1, <3>1, <3>2, <3>3 DEF Full!TypeOK
  <2>4. Full!TableSound'
    BY <2>1 DEF Full!TableSound
  <2>5. Full!Remembered'
    BY <2>1, <2>2 DEF Full!TypeOK, Full!Remembered
  <2>6. Full!Counted'
    BY <2>1, <2>2 DEF Full!TypeOK, Full!Counted
  <2> QED BY <2>3, <2>4, <2>5, <2>6
<1>2. CASE kfTask[p] \in {"prep", "block"} /\ Full!HtSlot(p) # 0
  <2> DEFINE s == Full!HtSlot(p)
  <2>1. /\ s \in Full!Slots
        /\ kfHtPid[s] = p \/ /\ \A i \in Full!Slots : kfHtPid[i] # p
                             /\ kfHtPid[s] = 0 /\ \A i \in Full!Slots : kfHtPid[i] = 0 => s <= i
    BY <1>2, FullSlotFound
  <2>2. /\ UNCHANGED <<Full!tasks, kfKhung, kfOns>> /\ kfTodo' \subseteq FullPids
        /\ kfHtPid' = [kfHtPid EXCEPT ![s] = p] /\ kfHtCount' = [kfHtCount EXCEPT ![s] = kfSwitches[p]]
        /\ kfSeen' = [kfSeen EXCEPT ![p] = kfSwitches[p]] /\ kfStill' = kfStill \cup {p}
        /\ kfReported' \subseteq kfReported \cup {p}
    BY <1>2 DEF Full!Visit, Full!TypeOK
  <2> HIDE DEF s
  <2>3. Full!TypeOK'
    <3>1. kfSwitches[p] \in Nat
      BY DEF Full!TypeOK
    <3>2. kfHtPid' \in [Full!Slots -> FullPids \cup {0}]
      BY <2>1, <2>2 DEF Full!TypeOK
    <3>4. kfHtCount' \in [Full!Slots -> Nat]
      BY <2>1, <2>2, <3>1 DEF Full!TypeOK
    <3>5. kfSeen' \in [FullPids -> Int]
      BY <2>2, <3>1 DEF Full!TypeOK
    <3>3. kfStill' \subseteq FullPids /\ kfReported' \subseteq FullPids
      BY <2>2 DEF Full!TypeOK
    <3> QED BY <2>2, <3>2, <3>3, <3>4, <3>5 DEF Full!TypeOK
  <2>4. Full!TableSound'
    <3>1. \A i \in Full!Slots : kfHtPid'[i] = IF i = s THEN p ELSE kfHtPid[i]
      BY <2>1, <2>2 DEF Full!TypeOK
    <3>2. Full!Slots \subseteq Nat /\ p # 0
      BY DEF Full!Slots
    <3>3. ASSUME NEW i \in Full!Slots, NEW j \in Full!Slots, kfHtPid'[i] = kfHtPid'[j], kfHtPid'[i] # 0
          PROVE  i = j
      BY <2>1, <3>1, <3>3 DEF Full!TableSound
    <3>4. ASSUME NEW i \in Full!Slots, NEW j \in Full!Slots, i < j, kfHtPid'[j] # 0
          PROVE  kfHtPid'[i] # 0
      <4>1. CASE kfHtPid[s] = p
        BY <2>1, <3>1, <3>2, <3>4, <4>1 DEF Full!TableSound
      <4>2. CASE j # s
        BY <3>1, <3>2, <3>4, <4>2 DEF Full!TableSound
      <4>3. CASE j = s /\ kfHtPid[s] # p
        BY <2>1, <3>1, <3>2, <3>4, <4>3
      <4> QED BY <4>1, <4>2, <4>3
    <3> QED BY <3>3, <3>4 DEF Full!TableSound
  <2>5. Full!Remembered'
    <3>1. ASSUME NEW i \in Full!Slots, kfHtPid'[i] # 0
          PROVE  kfHtCount'[i] = kfSeen'[kfHtPid'[i]] /\ kfTask'[kfHtPid'[i]] # "unborn"
      <4>1. CASE i = s
        BY <1>2, <2>1, <2>2, <4>1 DEF Full!TypeOK
      <4>2. CASE i # s
        <5>1. /\ kfHtPid'[i] = kfHtPid[i] /\ kfHtCount'[i] = kfHtCount[i] /\ kfTask' = kfTask
              /\ kfHtPid[i] \in FullPids /\ kfHtCount[i] = kfSeen[kfHtPid[i]] /\ kfTask[kfHtPid[i]] # "unborn"
          BY <2>1, <2>2, <3>1, <4>2 DEF Full!TypeOK, Full!Remembered
        <5>2. kfHtPid[i] # p
          BY <2>1, <4>2, <5>1 DEF Full!TableSound
        <5> QED BY <2>2, <5>1, <5>2 DEF Full!TypeOK
      <4> QED BY <4>1, <4>2
    <3> QED BY <3>1 DEF Full!Remembered
  <2>6. Full!Counted'
    BY <1>2, <2>2 DEF Full!TypeOK, Full!Counted
  <2> QED BY <2>3, <2>4, <2>5, <2>6
<1> QED BY <1>1, <1>2

\* The tasks, which fork, run, block and exit.
LEMMA FullTaskSteps ==
  ASSUME FullPids \subseteq Nat \ {0}, FullHtMax \in Nat, FullMaxSwitch \in Nat,
         NEW p \in FullPids, Full!Task(p), Full!KhInv
  PROVE  Full!KhInv'
<1> USE DEF Full!KhInv, Full!tasks, Full!table
<1>1. CASE Full!Fork(p)
  <2> USE <1>1 DEF Full!Fork
  <2>1. Full!TypeOK'
    BY DEF Full!TypeOK
  <2>2. Full!TableSound'
    BY DEF Full!TypeOK, Full!TableSound
  <2>3. Full!Remembered'
    BY DEF Full!TypeOK, Full!Remembered
  <2>4. Full!Counted'
    BY DEF Full!TypeOK, Full!Counted
  <2> QED BY <2>1, <2>2, <2>3, <2>4
<1>2. CASE Full!ExitTask(p)
  <2> USE <1>2 DEF Full!ExitTask
  <2>1. Full!TypeOK'
    BY DEF Full!TypeOK
  <2>2. Full!TableSound'
    BY DEF Full!TypeOK, Full!TableSound
  <2>3. Full!Remembered'
    BY DEF Full!TypeOK, Full!Remembered
  <2>4. Full!Counted'
    BY DEF Full!TypeOK, Full!Counted
  <2> QED BY <2>1, <2>2, <2>3, <2>4
<1>3. CASE Full!SetState(p)
  <2> USE <1>3 DEF Full!SetState
  <2>1. Full!TypeOK'
    BY DEF Full!TypeOK
  <2>2. Full!TableSound'
    BY DEF Full!TypeOK, Full!TableSound
  <2>3. Full!Remembered'
    BY DEF Full!TypeOK, Full!Remembered
  <2>4. Full!Counted'
    BY DEF Full!TypeOK, Full!Counted
  <2> QED BY <2>1, <2>2, <2>3, <2>4
<1>4. CASE Full!SwitchOut(p)
  <2> USE <1>4 DEF Full!SwitchOut
  <2>1. Full!TypeOK'
    <3>1. kfSwitches[p] + 1 \in 0..FullMaxSwitch
      BY DEF Full!TypeOK, Full!Counted
    <3>2. kfSwitches' \in [FullPids -> 0..FullMaxSwitch] /\ kfTask' \in [FullPids -> {"unborn", "run", "prep", "block", "dead"}]
      BY <3>1 DEF Full!TypeOK
    <3> QED BY <3>2 DEF Full!TypeOK
  <2>2. Full!TableSound'
    BY DEF Full!TypeOK, Full!TableSound
  <2>3. Full!Remembered'
    BY DEF Full!TypeOK, Full!Remembered
  <2>4. Full!Counted'
    BY DEF Full!TypeOK, Full!Counted
  <2> QED BY <2>1, <2>2, <2>3, <2>4
<1>5. CASE Full!Wake(p)
  <2> USE <1>5 DEF Full!Wake
  <2>1. Full!TypeOK'
    BY DEF Full!TypeOK
  <2>2. Full!TableSound'
    BY DEF Full!TypeOK, Full!TableSound
  <2>3. Full!Remembered'
    BY DEF Full!TypeOK, Full!Remembered
  <2>4. Full!Counted'
    BY DEF Full!TypeOK, Full!Counted
  <2> QED BY <2>1, <2>2, <2>3, <2>4
<1> QED BY <1>1, <1>2, <1>3, <1>4, <1>5 DEF Full!Task

\* The inductive invariant of khungtaskd, while pids are not given out again.
LEMMA FullInvariant ==
  ASSUME FullPids \subseteq Nat \ {0}, FullHtMax \in Nat, FullMaxSwitch \in Nat, FullMaxOn \in Nat
  PROVE  /\ Full!Init => Full!KhInv
         /\ Full!KhInv /\ [Full!Next]_(Full!vars) => Full!KhInv'
<1>1. Full!Init => Full!KhInv
  BY DEF Full!Init, Full!KhInv, Full!TypeOK, Full!TableSound, Full!Remembered, Full!Counted, Full!Slots
<1>2. ASSUME Full!KhInv, Full!BeginScan \/ Full!EndScan \/ Full!KhungOn \/ Full!KhungOff
      PROVE  Full!KhInv'
  <2>1. UNCHANGED <<Full!tasks, Full!table, kfSeen, kfStill>>
    BY <1>2 DEF Full!BeginScan, Full!EndScan, Full!KhungOn, Full!KhungOff
  <2>2. Full!TypeOK'
    <3>1. kfKhung' \in {"off", "sleep", "scan"} /\ kfOns' \in 0..FullMaxOn /\ kfReported' = kfReported
      BY <1>2 DEF Full!KhInv, Full!TypeOK, Full!BeginScan, Full!EndScan, Full!KhungOn, Full!KhungOff
    <3>2. kfTodo' \subseteq FullPids
      BY <1>2 DEF Full!KhInv, Full!TypeOK, Full!BeginScan, Full!EndScan, Full!KhungOn, Full!KhungOff
    <3>3. /\ kfTask' = kfTask /\ kfSwitches' = kfSwitches /\ kfHtPid' = kfHtPid /\ kfHtCount' = kfHtCount
          /\ kfSeen' = kfSeen /\ kfStill' = kfStill
      BY <2>1 DEF Full!tasks, Full!table
    <3>4. Full!TypeOK
      BY <1>2 DEF Full!KhInv
    <3> QED BY <3>1, <3>2, <3>3, <3>4 DEF Full!TypeOK
  <2> QED BY <1>2, <2>1, <2>2 DEF Full!KhInv, Full!TableSound, Full!Remembered, Full!Counted, Full!tasks, Full!table
<1>3. Full!KhInv /\ UNCHANGED Full!vars => Full!KhInv'
  BY DEF Full!vars, Full!tasks, Full!table, Full!KhInv, Full!TypeOK, Full!TableSound, Full!Remembered, Full!Counted
<1> QED BY <1>1, <1>2, <1>3, FullVisit, FullTaskSteps DEF Full!Next, Full!Scan

\* Whoever is newly reported had, at the walk before, the switch count it has.
LEMMA FullTruthful ==
  ASSUME FullPids \subseteq Nat \ {0}, FullHtMax \in Nat, FullMaxSwitch \in Nat,
         Full!KhInv, [Full!Next]_(Full!vars), NEW q \in FullPids, q \in kfReported', q \notin kfReported
  PROVE  kfSeen[q] = kfSwitches[q] /\ (kfTask[q] = "block" => q \in kfStill)
<1>1. PICK p \in FullPids : Full!Visit(p)
  BY DEF Full!Next, Full!Scan, Full!Task, Full!BeginScan, Full!EndScan, Full!KhungOn, Full!KhungOff, Full!Fork, Full!ExitTask, Full!SetState,
         Full!SwitchOut, Full!Wake, Full!vars
<1>2. /\ q = p /\ Full!HtSlot(p) # 0 /\ Full!LastCount(p, Full!HtSlot(p)) = kfSwitches[p]
  BY <1>1 DEF Full!Visit
<1>3. kfSwitches[p] \in Nat
  BY DEF Full!KhInv, Full!TypeOK
<1>4. kfHtPid[Full!HtSlot(p)] = p /\ kfHtCount[Full!HtSlot(p)] = kfSwitches[p]
  BY <1>2, <1>3 DEF Full!LastCount, Full!UlongMax
<1>5. Full!HtSlot(p) \in Full!Slots
  BY <1>2, FullSlotFound
<1>6. kfSeen[p] = kfSwitches[p]
  BY <1>4, <1>5 DEF Full!KhInv, Full!Remembered
<1> QED BY <1>2, <1>6 DEF Full!KhInv, Full!Counted

-----------------------------------------------------------------------------
(* The whole.                                                              *)

\* The invariants of the parts, none of which disturbs another.
LEMMA LabsInvariant == Spec => [](Dl!DlInv /\ Rw!RwInv /\ Lb!LbInv /\ Kh!KhInv /\ Full!KhInv)
<1> USE DlAssumption, RwAssumption, LbAssumption, KhAssumption, FullAssumption
<1>1. DlModes \subseteq Dl!LabModes
  BY DEF Dl!LabModes
<1>2. Init => Dl!DlInv /\ Rw!RwInv /\ Lb!LbInv /\ Kh!KhInv /\ Full!KhInv
  BY <1>1, DlInvariant, RwInvariant, LbInvariant, KhInvariant, FullInvariant DEF Init
<1>3. ASSUME Dl!DlInv /\ Rw!RwInv /\ Lb!LbInv /\ Kh!KhInv /\ Full!KhInv, [Next]_vars
      PROVE  (Dl!DlInv /\ Rw!RwInv /\ Lb!LbInv /\ Kh!KhInv /\ Full!KhInv)'
  <2>1. Dl!DlInv'
    BY <1>1, <1>3, PartSteps, DlInvariant
  <2>2. Rw!RwInv'
    BY <1>3, PartSteps, RwInvariant
  <2>3. Lb!LbInv'
    BY <1>3, PartSteps, LbInvariant
  <2>4. Kh!KhInv'
    BY <1>3, PartSteps, KhInvariant
  <2>5. Full!KhInv'
    BY <1>3, PartSteps, FullInvariant
  <2> QED BY <2>1, <2>2, <2>3, <2>4, <2>5
<1> QED BY <1>2, <1>3, PTL DEF Spec

\* dl_lab.c: in modes 2 to 4 nobody unlocks a mutex that another thread holds.
\* rwsem_lab.c, arm64_lab.c: given time, the reader and the second writer wait
\* in the order they came, behind the holder.  lockup_lab.c (ht_slot()): a pid
\* has one slot, and the slots in use come first.
THEOREM LabsSafe == Spec => []LabsInv
<1>1. Dl!DlInv /\ Rw!RwInv /\ Lb!LbInv /\ Kh!KhInv /\ Full!KhInv => LabsInv
  <2> SUFFICES ASSUME Dl!DlInv, Rw!RwInv, Lb!LbInv, Kh!KhInv, Full!KhInv
               PROVE  LabsInv
    OBVIOUS
  <2>1. Dl!TypeOK /\ Rw!TypeOK /\ Lb!TypeOK
    BY DEF Dl!DlInv, Rw!RwInv, Lb!LbInv
  <2>2. Dl!UnlockByOwner /\ Rw!TwoWaiters
    BY DlUnlockByOwner, RwTwoWaiters
  <2>3. Kh!TableInv /\ Full!TableInv
    BY DEF Kh!KhInv, Kh!TableInv, Full!KhInv, Full!TableInv
  <2> QED BY <2>1, <2>2, <2>3 DEF LabsInv
<1> QED BY <1>1, LabsInvariant, PTL

\* dl_lab_exit(), lab_exit(): once rmmod has returned no lock is held and no
\* thread, waiter or work item of the module is left.
THEOREM LabsUnloadsClean == Spec => []LabsUnloadClean
<1>1. Dl!DlInv /\ Rw!RwInv => LabsUnloadClean
  BY DlUnloadClean, RwCleanUnload DEF LabsUnloadClean
<1> QED BY <1>1, LabsInvariant, PTL

\* run_one_bench(), run_optspin_case(): for every schedule of rounds, no thread
\* of a round outlives it, no update under a lock is lost, and the sums printed
\* are the operations and, when every thread could be created, the voluntary
\* context switches of the round.
THEOREM LbReportsExact == Spec => []LbReportExact
<1>1. Lb!LbInv => LbReportExact
  BY LbExact DEF LbReportExact
<1> QED BY <1>1, LabsInvariant, PTL

\* check_one(): whoever is reported was seen in D state, with the switch count
\* it still has, by an earlier walk; and if it is switched out it has not run
\* since.  For any number of tasks and of table slots.
THEOREM KhReportsTruthful == Spec => KhReportTruthful
<1> USE KhAssumption, FullAssumption
<1>1. Kh!KhInv /\ [Next]_vars =>
        [\A p \in KhPids : p \in khReported' /\ p \notin khReported =>
           khSeen[p] = khSwitches[p] /\ (khTask[p] = "block" => p \in khStill)]_(Kh!vars)
  <2> SUFFICES ASSUME Kh!KhInv, [Next]_vars, NEW p \in KhPids, p \in khReported', p \notin khReported
               PROVE  khSeen[p] = khSwitches[p] /\ (khTask[p] = "block" => p \in khStill)
    OBVIOUS
  <2> QED BY PartSteps, KhTruthful
<1>2. Full!KhInv /\ [Next]_vars =>
        [\A p \in FullPids : p \in kfReported' /\ p \notin kfReported =>
           kfSeen[p] = kfSwitches[p] /\ (kfTask[p] = "block" => p \in kfStill)]_(Full!vars)
  <2> SUFFICES ASSUME Full!KhInv, [Next]_vars, NEW p \in FullPids, p \in kfReported', p \notin kfReported
               PROVE  kfSeen[p] = kfSwitches[p] /\ (kfTask[p] = "block" => p \in kfStill)
    OBVIOUS
  <2> QED BY PartSteps, FullTruthful
<1> QED BY <1>1, <1>2, LabsInvariant, PTL DEF Spec, KhReportTruthful, Kh!ReportTruthful, Full!ReportTruthful
=============================================================================
