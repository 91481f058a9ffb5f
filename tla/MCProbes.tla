------------------------------ MODULE MCProbes ------------------------------
(***************************************************************************)
(* The probes, one of which runs: the modules of Probes, and the programs  *)
(* and functions that are explored completely.                             *)
(*   ctx_probe    all modes; one of the waits may time out                 *)
(*   irq_live     two CPUs, two interrupts each                            *)
(*   crash_probe  a target that wakes, exits and is reaped meanwhile       *)
(*   rcu_demo     modes 1 to 3                                             *)
(*   resources    every path through programs that acquire and release     *)
(*   decoders     instructions (sync_probe, irq_probe), page tables        *)
(*                (armv8_dump)                                             *)
(*   arithmetic   copied from the kernel (sched_probe and others), in words*)
(*                of 5 bits                                                *)
(***************************************************************************)
EXTENDS Probes

VARIABLES
  resProg, resAt, resParams, resHeld, resNonnull, resFaults,
  insnAsked, insnShown,
  pwPc, pwTodo, pwVa, pwPath, pwLvl, pwTypes, pwPa, pwChanges,
  pmJob, pmN, pmSum, pmT50, pmT80, pmT95

Res == INSTANCE ResourcePaths WITH
  prog <- resProg, at <- resAt, params <- resParams, held <- resHeld, nonnull <- resNonnull,
  faults <- resFaults

Insn == INSTANCE InsnDecode WITH
  asked <- insnAsked, shown <- insnShown

Walk == INSTANCE PageWalk WITH
  MaxChanges <- 1, pc <- pwPc, todo <- pwTodo, va <- pwVa, path <- pwPath, lvl <- pwLvl,
  types <- pwTypes, pa <- pwPa, changes <- pwChanges

Math == INSTANCE ProbeMath WITH
  W <- 5, MaxOrder <- 4, MaxFree <- 2, job <- pmJob, n <- pmN, sum <- pmSum, t50 <- pmT50,
  t80 <- pmT80, t95 <- pmT95

resVars == <<resProg, resAt, resParams, resHeld, resNonnull, resFaults>>
insnVars == <<insnAsked, insnShown>>
pwVars == <<pwPc, pwTodo, pwVa, pwPath, pwLvl, pwTypes, pwPa, pwChanges>>
pmVars == <<pmJob, pmN, pmSum, pmT50, pmT80, pmT95>>
others == <<resVars, insnVars, pwVars, pmVars>>
vars == <<probesVars, others>>

Init == ProbesInit /\ Res!Init /\ Insn!Init /\ Walk!Init /\ Math!Init

PartNext == ProbesNext /\ UNCHANGED others
ResNext ==
  /\ Only("ResourcePaths") /\ Res!Next
  /\ UNCHANGED <<ctxVars, irqVars, cpVars, rmVars, insnVars, pwVars, pmVars>>
InsnNext ==
  /\ Only("InsnDecode") /\ Insn!Next
  /\ UNCHANGED <<ctxVars, irqVars, cpVars, rmVars, resVars, pwVars, pmVars>>
WalkNext ==
  /\ Only("PageWalk") /\ Walk!Next
  /\ UNCHANGED <<ctxVars, irqVars, cpVars, rmVars, resVars, insnVars, pmVars>>
MathNext ==
  /\ Only("ProbeMath") /\ Math!Next
  /\ UNCHANGED <<ctxVars, irqVars, cpVars, rmVars, resVars, insnVars, pwVars>>

Next == PartNext \/ ResNext \/ InsnNext \/ WalkNext \/ MathNext

Spec == Init /\ [][Next]_vars /\ ProbesFairness

-----------------------------------------------------------------------------
\* Every program that acquires descriptors, mappings, references or locks
\* gives them back on every path, but for the exceptions listed there.
ProbesPathsClean == Res!PathsClean

\* sync_probe.c, irq_probe.c: of the kinds of instructions decode() knows, each
\* is shown as what the architecture says it is, but for four that Misread
\* names, and the callee that holds an outlined one is listed too.
\* armv8_dump.c: the walk by hand through the page tables agrees with the MMU
\* for fixed kernel addresses, and for others if their tables did not change
\* under it.
DecodersExact ==
  Insn!DecodeExact /\ Insn!DumpFindsAtomic /\ Walk!WalkExact /\ Walk!WildOnlyIfMoved

\* sched_probe.c, sync_probe.c, mm_probe.c, nospec_mask.c: the arithmetic copied
\* from the kernel, in words of W bits, agrees with what it stands for.
NumbersExact == Math!SchedMathExact /\ Math!PeltExact /\ Math!ProbeNumbersExact
=============================================================================
