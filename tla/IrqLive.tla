------------------------------ MODULE IrqLive -------------------------------
(***************************************************************************)
(* experiments/irq_live.c: two kprobes on the interrupt path, hit by all   *)
(* CPUs at once.  pre_gic() prints at most `samples` frames, counted in    *)
(* got under prlock; pre_evt() prints at most `samples` dispatches,        *)
(* counted in evt_got without a lock; every CPU keeps the range of stack   *)
(* pointers it saw.  rmmod unregisters both probes and prints the totals.  *)
(*                                                                         *)
(* External: unregister_kprobe() returns when no handler of the probe runs *)
(* any more.  A frame is abstracted to whether it passes the filters       *)
(* (get_irq_regs(), from_el0, want_hwirq) and to the stack pointer.        *)
(***************************************************************************)
EXTENDS Integers, Sequences, FiniteSets

CONSTANTS
  Cpus, Samples,   \* the CPUs; the module parameter samples
  Sps,             \* stack pointers, a set of positive numbers
  MaxIrqs          \* bound: interrupts per CPU

VARIABLES
  phase,
  probes,          \* the kprobes registered
  pc, el,          \* per CPU: where its handler is; the number it printed last
  irqs,            \* per CPU: interrupts so far (sp_hits)
  spMin, spMax, spSeen,    \* per CPU; spSeen is the set of all stack pointers met
  prlock,          \* CPUs holding prlock
  got, evtGot,
  frames, dispatches       \* the numbers printed in the frames and dispatch lines

vars == <<phase, probes, pc, el, irqs, spMin, spMax, spSeen, prlock, got, evtGot, frames, dispatches>>
stats == <<irqs, spMin, spMax, spSeen>>

Init ==
  /\ phase = "absent" /\ probes = {}
  /\ pc = [c \in Cpus |-> "idle"] /\ el = [c \in Cpus |-> 0]
  /\ irqs = [c \in Cpus |-> 0]
  /\ spMin = [c \in Cpus |-> 0] /\ spMax = [c \in Cpus |-> 0] /\ spSeen = [c \in Cpus |-> {}]
  /\ prlock = {} /\ got = 0 /\ evtGot = 0 /\ frames = <<>> /\ dispatches = <<>>

\* A failing first probe fails insmod; a failing second one is skipped.
Insmod ==
  /\ phase = "absent"
  /\ \E registered \in SUBSET {"gic", "evt"} :
       /\ probes' = IF "gic" \in registered THEN registered ELSE {}
       /\ phase' = IF "gic" \in registered THEN "loaded" ELSE "failed"
  /\ UNCHANGED <<pc, el, stats, prlock, got, evtGot, frames, dispatches>>

-----------------------------------------------------------------------------
(* pre_gic().                                                              *)

\* The stack range, the unlocked test of got, and the filters.
PreGic(c) ==
  /\ "gic" \in probes /\ pc[c] = "idle" /\ irqs[c] < MaxIrqs
  /\ irqs' = [irqs EXCEPT ![c] = @ + 1]
  /\ \E sp \in Sps :
       /\ spMin' = [spMin EXCEPT ![c] = IF @ = 0 \/ sp < @ THEN sp ELSE @]
       /\ spMax' = [spMax EXCEPT ![c] = IF sp > @ THEN sp ELSE @]
       /\ spSeen' = [spSeen EXCEPT ![c] = @ \cup {sp}]
  /\ \/ pc' = [pc EXCEPT ![c] = "end"]                           \* filtered out
     \/ got < Samples /\ pc' = [pc EXCEPT ![c] = "lock"]
  /\ UNCHANGED <<phase, probes, el, prlock, got, evtGot, frames, dispatches>>

\* Mutant: got is not tested again under the lock.
LockGicOnce(c) ==
  /\ pc[c] = "lock" /\ prlock = {}
  /\ prlock' = {c} /\ got' = got + 1 /\ pc' = [pc EXCEPT ![c] = "frame"]
  /\ UNCHANGED <<phase, probes, el, stats, evtGot, frames, dispatches>>

\* raw_spin_lock(), the second test, atomic_inc().
LockGic(c) ==
  /\ pc[c] = "lock" /\ prlock = {}
  /\ IF got < Samples
     THEN prlock' = {c} /\ got' = got + 1 /\ pc' = [pc EXCEPT ![c] = "frame"]
     ELSE pc' = [pc EXCEPT ![c] = "end"] /\ UNCHANGED <<prlock, got>>
  /\ UNCHANGED <<phase, probes, el, stats, evtGot, frames, dispatches>>

\* The frame is printed, numbered by atomic_read(&got), and the lock dropped.
PrintFrame(c) ==
  /\ pc[c] = "frame"
  /\ frames' = Append(frames, got)
  /\ prlock' = prlock \ {c} /\ pc' = [pc EXCEPT ![c] = "end"]
  /\ UNCHANGED <<phase, probes, el, stats, got, evtGot, dispatches>>

-----------------------------------------------------------------------------
(* pre_evt(), further down the path of the same interrupt, if reached; of  *)
(* any interrupt once the first probe is gone.                             *)

PreEvt(c) ==
  /\ pc[c] = "end" \/ (pc[c] = "idle" /\ probes = {"evt"})
  /\ \/ pc' = [pc EXCEPT ![c] = "idle"]                 \* filtered out, or not reached
     \/ "evt" \in probes /\ evtGot < Samples /\ pc' = [pc EXCEPT ![c] = "inc"]
  /\ UNCHANGED <<phase, probes, el, stats, prlock, got, evtGot, frames, dispatches>>

\* Mutant: the value atomic_inc_return() returns is not tested.
IncEvtUntested(c) ==
  /\ pc[c] = "inc"
  /\ evtGot' = evtGot + 1 /\ el' = [el EXCEPT ![c] = evtGot + 1]
  /\ pc' = [pc EXCEPT ![c] = "print"]
  /\ UNCHANGED <<phase, probes, stats, prlock, got, frames, dispatches>>

IncEvt(c) ==
  /\ pc[c] = "inc"
  /\ evtGot' = evtGot + 1 /\ el' = [el EXCEPT ![c] = evtGot + 1]
  /\ pc' = [pc EXCEPT ![c] = IF evtGot + 1 > Samples THEN "idle" ELSE "print"]
  /\ UNCHANGED <<phase, probes, stats, prlock, got, frames, dispatches>>

\* The line is numbered by a second read of evt_got.
PrintEvt(c) ==
  /\ pc[c] = "print"
  /\ dispatches' = Append(dispatches, <<el[c], evtGot>>)
  /\ pc' = [pc EXCEPT ![c] = "idle"]
  /\ UNCHANGED <<phase, probes, el, stats, prlock, got, evtGot, frames>>

\* irq_live_exit(): both probes are unregistered, then the totals printed.
Rmmod ==
  /\ phase = "loaded"
  /\ \/ "gic" \in probes /\ probes' = probes \ {"gic"} /\ UNCHANGED phase
     \/ "gic" \notin probes /\ "evt" \in probes /\ probes' = {} /\ UNCHANGED phase
     \/ probes = {} /\ (\A c \in Cpus : pc[c] = "idle") /\ phase' = "gone" /\ UNCHANGED probes
  /\ UNCHANGED <<pc, el, stats, prlock, got, evtGot, frames, dispatches>>

Handler(c) == PreGic(c) \/ LockGic(c) \/ PrintFrame(c) \/ PreEvt(c) \/ IncEvt(c) \/ PrintEvt(c)
Next == Insmod \/ Rmmod \/ \E c \in Cpus : Handler(c)

-----------------------------------------------------------------------------
\* pre_gic(): however many CPUs take interrupts, the frames are numbered
\* 1, 2, 3 ... without a gap or a repetition, there are at most `samples`, and
\* the total printed by rmmod is their number.
FramesExact ==
  /\ frames = [i \in 1..Len(frames) |-> i]
  /\ Len(frames) <= Samples
  /\ phase = "gone" => got = Len(frames)

\* pre_evt(): no ticket is printed twice and none beyond `samples`; a line may
\* carry a later ticket's number but never one before its own, and evt_got
\* runs past `samples` by less than the number of CPUs, so that the total
\* rmmod prints is that much too large.
DispatchesBounded ==
  /\ \A i, j \in 1..Len(dispatches) : dispatches[i][1] = dispatches[j][1] => i = j
  /\ \A i \in 1..Len(dispatches) :
       dispatches[i][1] \in 1..Samples /\ dispatches[i][1] <= dispatches[i][2]
  /\ evtGot < Samples + Cardinality(Cpus)
  /\ phase = "gone" => Len(dispatches) = (IF evtGot < Samples THEN evtGot ELSE Samples)

\* sp_min, sp_max: the range a CPU reports is exactly that of what it met.
SpansExact ==
  \A c \in Cpus : irqs[c] > 0 =>
    /\ {spMin[c], spMax[c]} \subseteq spSeen[c]
    /\ \A sp \in spSeen[c] : spMin[c] <= sp /\ sp <= spMax[c]
-----------------------------------------------------------------------------
TypeOK ==
  /\ phase \in {"absent", "failed", "loaded", "gone"} /\ probes \subseteq {"gic", "evt"}
  /\ pc \in [Cpus -> {"idle", "lock", "frame", "end", "inc", "print"}]
  /\ el \in [Cpus -> Nat] /\ irqs \in [Cpus -> Nat]
  /\ spMin \in [Cpus -> Nat] /\ spMax \in [Cpus -> Nat] /\ spSeen \in [Cpus -> SUBSET Nat]
  /\ got \in Nat /\ evtGot \in Nat
  /\ frames \in Seq(Nat) /\ dispatches \in Seq(Nat \X Nat)

In(place) == {c \in Cpus : pc[c] = place}

\* rmmod returns when no handler is left, and none begins any more.
Unregistered == phase = "gone" => probes = {} /\ \A c \in Cpus : pc[c] = "idle"

\* The CPU with prlock has counted its frame and not printed it yet.
Locked ==
  /\ prlock = In("frame") /\ \A c, d \in prlock : c = d
  /\ got <= Samples
  /\ got = Len(frames) + (IF prlock = {} THEN 0 ELSE 1)
  /\ \A i \in 1..Len(frames) : frames[i] = i

\* Every ticket drawn is in a line or with a CPU about to print it, or it was
\* beyond the limit; each CPU that passed the unlocked test draws one more.
Tickets ==
  /\ \A c \in In("print") :
       /\ el[c] \in 1..evtGot /\ el[c] <= Samples
       /\ \A d \in In("print") : el[d] = el[c] => d = c
       /\ \A i \in 1..Len(dispatches) : dispatches[i][1] # el[c]
  /\ \A i \in 1..Len(dispatches) :
       /\ dispatches[i][1] \in 1..Samples /\ dispatches[i][1] <= dispatches[i][2]
       /\ dispatches[i][2] <= evtGot
       /\ \A j \in 1..Len(dispatches) : dispatches[i][1] = dispatches[j][1] => i = j
  /\ evtGot + Cardinality(In("inc")) < Samples + Cardinality(Cpus)
  /\ Len(dispatches) + Cardinality(In("print")) = IF evtGot < Samples THEN evtGot ELSE Samples

\* A CPU without interrupts has an empty range.
Spans ==
  \A c \in Cpus :
    /\ irqs[c] = 0 => spMin[c] = 0 /\ spMax[c] = 0 /\ spSeen[c] = {}
    /\ irqs[c] > 0 => spMin[c] > 0
    /\ irqs[c] > 0 =>
         {spMin[c], spMax[c]} \subseteq spSeen[c] /\ \A sp \in spSeen[c] : spMin[c] <= sp /\ sp <= spMax[c]

IrqInv == TypeOK /\ Unregistered /\ Locked /\ Tickets /\ Spans
=============================================================================
