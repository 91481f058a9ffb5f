------------------------------ MODULE CtxProbe ------------------------------
(***************************************************************************)
(* experiments/ctx_probe.c.  insmod runs one mode, a script of steps that  *)
(* post callbacks (irq_work, hrtimer, tasklet, work) and wait for each one *)
(* with a timeout whose outcome nobody looks at; every context calls       *)
(* take(), which fills the next slot of fp[].  rmmod then makes sure, in a *)
(* fixed order, that no callback is left.                                  *)
(*                                                                         *)
(* External: a posted callback runs once per posting, on some CPU, and     *)
(* posting one that is queued already does nothing; kthread_stop() joins.  *)
(***************************************************************************)
EXTENDS Naturals, Sequences

CONSTANTS
  Modes,       \* values of the module parameter mode to explore
  MaxLate      \* bound: waits that may time out in one insmod

Callbacks == {"iw", "ht", "tl", "tl2", "wk", "tl_spin", "ht_raise", "tl_block", "wk_sleep"}
Slots == 8                    \* ARRAY_SIZE(fp)

VARIABLES
  mode, phase, pc,     \* the mode, and insmod's or rmmod's position in its script
  late,        \* how many waits may still time out before their callback is served
  timely,      \* none may, from the start
  queued,      \* callbacks posted and not begun
  stage,       \* per callback: where its function is
  local,       \* per callback: the nfp it read in take()
  label,       \* per callback: what it passes to take()
  nfp, fp,     \* slots used, and what each one says
  done,        \* completions: how many complete() calls are not waited for yet
  fromHardirq, inited, sleptOk,      \* tl_from_hardirq, *_inited, wk_slept_ok
  victim, gap  \* victim_fn(): "hit" once the tasklet took its CPU; victim_gap_ns is long

vars == <<mode, phase, pc, late, timely, queued, stage, local, label, nfp, fp, done, fromHardirq,
          inited, sleptOk, victim, gap>>
table == <<nfp, fp>>
flags == <<fromHardirq, inited, sleptOk, victim, gap>>
cbs == <<queued, stage, local, label>>

Init ==
  /\ mode = 0 /\ phase = "absent" /\ pc = 1 /\ timely = FALSE /\ late = 0
  /\ queued = {} /\ stage = [c \in Callbacks |-> "idle"]
  /\ local = [c \in Callbacks |-> 0] /\ label = [c \in Callbacks |-> "none"]
  /\ nfp = 0 /\ fp = [i \in 1..Slots |-> "none"]
  /\ done = [c \in {"iw", "ht", "tl", "wk", "bh"} |-> 0]
  /\ fromHardirq = TRUE /\ inited = {} /\ sleptOk = FALSE
  /\ victim = "none" /\ gap = FALSE

-----------------------------------------------------------------------------
(* What insmod does in each mode, and what rmmod does.                     *)

\* Mutant: the second wait, for tl_done, is missing.
RunMode0NoWait ==
  << <<"take", "insmod">>, <<"take", "bh">>, <<"init", "iw">>, <<"post", "iw">>, <<"wait", "iw">>,
     <<"init", "tl">>, <<"reinit", "tl">>, <<"init", "ht">>, <<"post", "ht">>, <<"wait", "ht">>,
     <<"process", "tl">>, <<"reinit", "tl">>, <<"post", "tl">>, <<"wait", "tl">>,
     <<"post", "tl2">>, <<"wait", "bh">>, <<"post", "wk">>, <<"wait", "wk">>, <<"end", "none">> >>

\* The tasklet is posted twice: by ht_fn(), and here with BHs off.
RunMode0 ==
  << <<"take", "insmod">>, <<"take", "bh">>, <<"init", "iw">>, <<"post", "iw">>, <<"wait", "iw">>,
     <<"init", "tl">>, <<"reinit", "tl">>, <<"init", "ht">>, <<"post", "ht">>, <<"wait", "ht">>,
     <<"wait", "tl">>,
     <<"process", "tl">>, <<"reinit", "tl">>, <<"post", "tl">>, <<"wait", "tl">>,
     <<"post", "tl2">>, <<"wait", "bh">>, <<"post", "wk">>, <<"wait", "wk">>, <<"end", "none">> >>

RunMode1 ==
  << <<"reinit", "tl">>, <<"post", "tl_spin">>, <<"wait", "tl">>, <<"last", "none">>, <<"end", "none">> >>

RunMode2 ==
  << <<"spawn", "none">>, <<"init", "ht">>, <<"reinit", "tl">>, <<"post", "ht_raise">>,
     <<"wait", "tl">>, <<"settle", "none">>, <<"stop", "none">>, <<"end", "none">> >>

RunMode3 ==
  << <<"take", "insmod">>, <<"reinit", "wk">>, <<"post", "wk_sleep">>, <<"wait", "wk">>,
     <<"end", "none">> >>

Script == <<RunMode0, RunMode1, RunMode2, RunMode3>>[mode + 1]
At(op) == phase = "init" /\ Script[pc][1] = op
Arg == Script[pc][2]

\* Mutant: the work items are not flushed.
ExitScriptNoFlush == <<{"tl"}, {"tl2"}, {"tl_spin"}, {"tl_block"}, {"ht", "ht_raise"}, {"iw"}>>

\* What each call of ctx_probe_exit() waits for: tasklet_kill() four times,
\* hrtimer_cancel(), irq_work_sync(), flush_scheduled_work().
ExitScript ==
  <<{"tl"}, {"tl2"}, {"tl_spin"}, {"tl_block"}, {"ht", "ht_raise"}, {"iw"}, {"wk", "wk_sleep"}>>

Outstanding == queued \cup {c \in Callbacks : stage[c] # "idle"}

-----------------------------------------------------------------------------
(* ctx_probe_init(): one step of the script.                               *)

Insmod ==
  /\ phase = "absent" /\ pc' = 1
  /\ mode' \in Modes /\ late' \in 0..MaxLate /\ timely' = (late' = 0)
  /\ \/ phase' = "init"
     \/ phase' = "failed"     \* no kallsyms entry
  /\ UNCHANGED <<cbs, table, done, flags>>

Take ==
  /\ At("take") /\ pc' = pc + 1
  /\ nfp < Slots
  /\ nfp' = nfp + 1 /\ fp' = [fp EXCEPT ![nfp + 1] = Arg]
  /\ UNCHANGED <<mode, phase, late, timely, cbs, done, flags>>

Post ==
  /\ At("post") /\ pc' = pc + 1
  /\ queued' = queued \cup {Arg}
  /\ UNCHANGED <<mode, phase, late, timely, stage, local, label, table, done, flags>>

SetUp ==
  /\ \/ At("init") /\ inited' = inited \cup {Arg} /\ UNCHANGED <<done, fromHardirq, victim>>
     \/ At("reinit") /\ done' = [done EXCEPT ![Arg] = 0] /\ UNCHANGED <<inited, fromHardirq, victim>>
     \/ At("process") /\ fromHardirq' = FALSE /\ UNCHANGED <<done, inited, victim>>
     \/ At("spawn") /\ victim' = "run" /\ UNCHANGED <<done, inited, fromHardirq>>
  /\ pc' = pc + 1
  /\ UNCHANGED <<mode, phase, late, timely, cbs, table, sleptOk, gap>>

SpawnFails ==
  /\ At("spawn") /\ phase' = "loaded"
  /\ UNCHANGED <<mode, pc, late, timely, cbs, table, done, flags>>

\* wait_for_completion_timeout(): the result is ignored.
WaitFor ==
  /\ At("wait") /\ pc' = pc + 1
  /\ \/ done[Arg] > 0 /\ done' = [done EXCEPT ![Arg] = @ - 1] /\ UNCHANGED late
     \/ done[Arg] = 0 /\ late > 0 /\ late' = late - 1 /\ UNCHANGED done
  /\ UNCHANGED <<mode, phase, timely, cbs, table, flags>>

\* msleep(20), in which the victim's loop goes round; then it is stopped and
\* joined.  Mode 1 reads fp[nfp - 1] instead.
Settle ==
  /\ \/ At("last") /\ UNCHANGED victim
     \/ At("settle") /\ (late = 0 => victim # "hit") /\ UNCHANGED victim
     \/ At("stop") /\ victim' = "gone"
  /\ pc' = pc + 1
  /\ UNCHANGED <<mode, phase, late, timely, cbs, table, done, fromHardirq, inited, sleptOk, gap>>

\* The mode's report, print_table() and the return of insmod.
Report ==
  /\ At("end") /\ phase' = "loaded"
  /\ UNCHANGED <<mode, pc, late, timely, cbs, table, done, flags>>

-----------------------------------------------------------------------------
(* The callbacks, each with the take() it calls.                           *)

What(c) == IF c = "tl" THEN (IF fromHardirq THEN "softirq1" ELSE "softirq3")
           ELSE IF stage[c] = "asleep" THEN "awake" ELSE c

\* The callback starts (or wk_sleep_fn() wakes up) and take() reads nfp.
TakeRead(c) ==
  /\ \/ c \in queued /\ stage[c] = "idle" /\ queued' = queued \ {c} /\ UNCHANGED sleptOk
     \/ stage[c] = "asleep" /\ sleptOk' = TRUE /\ UNCHANGED queued
  /\ stage' = [stage EXCEPT ![c] = "take"]
  /\ local' = [local EXCEPT ![c] = nfp]
  /\ label' = [label EXCEPT ![c] = What(c)]
  /\ UNCHANGED <<mode, phase, pc, late, timely, table, done, fromHardirq, inited, victim, gap>>

\* ... uses the slot when there is one; wk_sleep_fn() then sleeps.
TakeStore(c) ==
  /\ stage[c] = "take"
  /\ IF local[c] < Slots
     THEN nfp' = local[c] + 1 /\ fp' = [fp EXCEPT ![local[c] + 1] = label[c]]
     ELSE UNCHANGED table
  /\ stage' = [stage EXCEPT ![c] = IF c = "wk_sleep" /\ ~sleptOk THEN "asleep" ELSE "rest"]
  /\ local' = [local EXCEPT ![c] = 0] /\ label' = [label EXCEPT ![c] = "none"]
  /\ victim' = IF c = "tl_block" /\ victim = "run" THEN "hit" ELSE victim
  /\ UNCHANGED <<mode, phase, pc, late, timely, queued, done, fromHardirq, inited,
                 sleptOk, gap>>

\* What else the callback does: the hrtimers post a tasklet, and all but
\* ht_raise_fn() complete what insmod waits for.
Posts(c) == CASE c = "ht" -> {"tl"} [] c = "ht_raise" -> {"tl_block"} [] OTHER -> {}
Completes(c) ==
  CASE c \in {"tl", "tl_spin", "tl_block"} -> {"tl"} [] c = "tl2" -> {"bh"}
    [] c \in {"wk", "wk_sleep"} -> {"wk"} [] c = "ht_raise" -> {} [] OTHER -> {c}

Finish(c) ==
  /\ stage[c] = "rest"
  /\ queued' = queued \cup Posts(c)
  /\ done' = [d \in DOMAIN done |-> done[d] + (IF d \in Completes(c) THEN 1 ELSE 0)]
  /\ stage' = [stage EXCEPT ![c] = "ret"]
  /\ UNCHANGED <<mode, phase, pc, late, timely, local, label, table, flags>>

\* The last instructions of the function, still in the module's text.
Return(c) ==
  /\ stage[c] = "ret" /\ stage' = [stage EXCEPT ![c] = "idle"]
  /\ UNCHANGED <<mode, phase, pc, late, timely, queued, local, label, table, done, flags>>

\* victim_fn() goes round its loop and sees how long it was away.
VictimLoops ==
  /\ victim = "hit" /\ stage["tl_block"] \in {"ret", "idle"}
  /\ victim' = "run" /\ gap' = TRUE
  /\ UNCHANGED <<mode, phase, pc, late, timely, cbs, table, done, fromHardirq, inited, sleptOk>>

-----------------------------------------------------------------------------
(* ctx_probe_exit().                                                       *)

Rmmod ==
  /\ phase = "loaded" /\ phase' = "exit" /\ pc' = 1
  /\ UNCHANGED <<mode, late, timely, cbs, table, done, flags>>

\* One call of the exit script; hrtimer_cancel() also takes the timer out of
\* its queue.  A tasklet, timer or irq_work never set up is skipped.
Drain ==
  /\ phase = "exit"
  /\ LET gone == ExitScript[pc] IN
     /\ queued' = queued \ (gone \cap {"ht", "ht_raise"})
     /\ gone \cap (queued' \cup {c \in Callbacks : stage[c] # "idle"}) = {}
  /\ IF pc = Len(ExitScript) THEN phase' = "gone" /\ UNCHANGED pc
     ELSE pc' = pc + 1 /\ UNCHANGED phase
  /\ UNCHANGED <<mode, late, timely, stage, local, label, table, done, flags>>

CallbackStep(c) == TakeRead(c) \/ TakeStore(c) \/ Finish(c) \/ Return(c)
InitStep == Take \/ Post \/ SetUp \/ SpawnFails \/ WaitFor \/ Settle \/ Report
Next == Insmod \/ InitStep \/ Rmmod \/ Drain \/ VictimLoops \/ \E c \in Callbacks : CallbackStep(c)

\* insmod and rmmod are running tasks, softirqs, timers and workers are
\* served, and the victim owns its CPU between interrupts.
Fairness ==
  /\ WF_vars(InitStep) /\ WF_vars(Drain) /\ WF_vars(VictimLoops)
  /\ \A c \in Callbacks : WF_vars(CallbackStep(c))

Spec == Init /\ [][Next]_vars /\ Fairness

-----------------------------------------------------------------------------
TypeOK ==
  /\ mode \in 0..3 /\ phase \in {"absent", "init", "failed", "loaded", "exit", "gone"}
  /\ pc \in 1..20 /\ timely \in BOOLEAN
  /\ late \in 0..MaxLate /\ (timely => late = 0)
  /\ queued \subseteq Callbacks
  /\ stage \in [Callbacks -> {"idle", "take", "asleep", "rest", "ret"}]
  /\ local \in [Callbacks -> 0..Slots] /\ nfp \in 0..Slots
  /\ label \in [Callbacks -> Callbacks \cup {"none", "softirq1", "softirq3", "awake"}]
  /\ fp \in [1..Slots -> Callbacks \cup {"none", "insmod", "bh", "softirq1", "softirq3", "awake"}]
  /\ done \in [{"iw", "ht", "tl", "wk", "bh"} -> Nat]
  /\ fromHardirq \in BOOLEAN /\ sleptOk \in BOOLEAN /\ gap \in BOOLEAN
  /\ inited \subseteq {"iw", "ht", "tl"} /\ victim \in {"none", "run", "hit", "gone"}

\* What the table must show, in order, and what run_mode1() and run_mode2()
\* conclude from.
Expected ==
  << <<"insmod", "bh", "iw", "ht", "softirq1", "softirq3", "tl2", "wk">>, <<"tl_spin">>,
     <<"ht_raise", "tl_block">>, <<"insmod", "wk_sleep", "awake">> >>[mode + 1]

\* take(), run_mode0() .. run_mode3(): when insmod gets to its report in time,
\* the table holds one line per context, in order and under the right label
\* (all eight slots in mode 0), the index fp[nfp - 1] of run_mode1() is valid
\* and the victim of run_mode2() has noticed its gap.
TableExact ==
  timely /\ phase = "init" =>
    /\ At("end") /\ victim # "none" => gap
    /\ At("end") => SubSeq(fp, 1, nfp) = Expected
    /\ At("last") => nfp > 0

\* ctx_probe_exit(): once the module is gone no callback of it is queued or
\* running.  Where a wait had timed out the hole is the tasklet of a timer
\* that expires after tasklet_kill() and before hrtimer_cancel().
UnloadSafe ==
  phase = "gone" => Outstanding \subseteq (IF timely THEN {} ELSE {"tl", "tl_block"})

\* Neither a lost callback nor a late one keeps insmod or rmmod from ending.
ModuleCallsReturn ==
  /\ phase = "init" ~> phase = "loaded"
  /\ phase = "exit" ~> phase = "gone"
-----------------------------------------------------------------------------
\* Callbacks that have still to enter a line or to complete something.
Active == queued \cup {c \in Callbacks : stage[c] \notin {"idle", "ret"}}

\* rmmod: what a call of its script has waited for does not come back, but for
\* the tasklets of late timers.
Drained ==
  LET gone == CASE phase = "exit" -> UNION {ExitScript[j] : j \in 1..(pc - 1)}
                [] phase = "gone" -> Callbacks
                [] OTHER -> {}
  IN gone \cap Outstanding \subseteq (IF timely THEN {} ELSE {"tl", "tl_block"})

\* Without a timed-out wait the contexts come one after the other: nothing is
\* active and slots 1 .. s are in use, or callback c is on its way to slot s.
NoneDone == \A d \in DOMAIN done : done[d] = 0
OnlyDone(ds) == \A d \in DOMAIN done : done[d] = IF d \in ds THEN 1 ELSE 0
SoFar == \A s \in 1..nfp : fp[s] = Expected[s]
Idle(s) == Active = {} /\ nfp = s
Quiet(s) == Idle(s) /\ NoneDone
Serving(c, s) ==
  /\ Active = {c}
  /\ \/ c \in queued /\ stage[c] \in {"idle", "ret"} /\ nfp = s - 1
     \/ /\ c \notin queued /\ stage[c] = "take" /\ nfp = s - 1
        /\ local[c] = s - 1 /\ label[c] = Expected[s]
     \/ /\ c \notin queued /\ nfp = s
        /\ stage[c] = IF c = "wk_sleep" /\ ~sleptOk THEN "asleep" ELSE "rest"
Waits(c, s, d) == (Serving(c, s) /\ NoneDone) \/ (Idle(s) /\ OnlyDone({d}))

\* Where run_mode0() .. run_mode3() are, and what the table holds then.
Mode0 ==
  /\ fromHardirq <=> pc <= 12
  /\ pc = 1 => Quiet(0)
  /\ pc = 2 => Quiet(1)
  /\ pc \in {3, 4} => Quiet(2)
  /\ pc = 5 => Waits("iw", 3, "iw")
  /\ pc \in 6..9 => Quiet(3)
  /\ pc = 10 => \/ Serving("ht", 4) /\ NoneDone
                \/ Serving("tl", 5) /\ OnlyDone({"ht"})
                \/ Idle(5) /\ OnlyDone({"ht", "tl"})
  /\ pc = 11 => Waits("tl", 5, "tl")
  /\ pc \in 12..14 => Quiet(5)
  /\ pc = 15 => Waits("tl", 6, "tl")
  /\ pc = 16 => Quiet(6)
  /\ pc = 17 => Waits("tl2", 7, "bh")
  /\ pc = 18 => Quiet(7)
  /\ pc = 19 => Waits("wk", 8, "wk")
  /\ pc = 20 => Quiet(8)

Mode1 ==
  /\ pc \in 1..5
  /\ pc \in {1, 2} => Quiet(0)
  /\ pc = 3 => Waits("tl_spin", 1, "tl")
  /\ pc \in {4, 5} => Quiet(1)

Mode2 ==
  /\ pc \in 1..8
  /\ pc \in 1..4 => Quiet(0)
  /\ pc = 5 => (Serving("ht_raise", 1) /\ NoneDone) \/ Waits("tl_block", 2, "tl")
  /\ pc \in 6..8 => Quiet(2)
  /\ pc \in 2..7 => victim \in {"run", "hit"} /\ (nfp = 2 => victim = "hit" \/ gap)
  /\ pc \in {7, 8} => gap

Mode3 ==
  /\ pc \in 1..5
  /\ pc = 1 => Quiet(0)
  /\ pc \in {2, 3} => Quiet(1)
  /\ pc = 4 => \/ Serving("wk_sleep", 2) /\ ~sleptOk /\ NoneDone
               \/ Serving("wk_sleep", 3) /\ sleptOk /\ "wk_sleep" \notin queued /\ NoneDone
               \/ Idle(3) /\ OnlyDone({"wk"})
  /\ pc = 5 => Quiet(3)
  /\ pc <= 3 => ~sleptOk

InOrder ==
  /\ phase = "absent" => Quiet(0) /\ fromHardirq /\ ~sleptOk /\ victim = "none"
  /\ timely /\ phase = "init" =>
       /\ SoFar
       /\ mode = 0 => Mode0
       /\ mode = 1 => Mode1
       /\ mode = 2 => Mode2
       /\ mode = 3 => Mode3
       /\ mode # 2 => victim = "none"
  /\ timely /\ phase \in {"loaded", "exit", "gone"} => Active = {}
  /\ phase = "init" => pc <= Len(Script)
  /\ phase = "exit" => pc <= Len(ExitScript)

CtxInv == TypeOK /\ Drained /\ InOrder
=============================================================================
