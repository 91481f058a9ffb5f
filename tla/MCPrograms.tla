----------------------------- MODULE MCPrograms -----------------------------
(***************************************************************************)
(* Small instances of the user-space programs.                             *)
(*   wbtest        one or two scenarios, one property of the driver missing*)
(*   rkspy         two threads of the runtime, a table of two entries, one *)
(*                 buffer range that overlaps two others                   *)
(*   litmus        barrier_sb and barrier_mp, every mode                   *)
(*   fork labs     wake_cpu, lb_case, sched_weight and vruntime_place      *)
(*   thread labs   lse_bench, heat and membw                               *)
(*   fault labs    fault_types and concurrent_fault                        *)
(***************************************************************************)
EXTENDS Programs

MCSpyAreas == {[first |-> 1, size |-> 2], [first |-> 2, size |-> 1], [first |-> 3, size |-> 1]}
=============================================================================
