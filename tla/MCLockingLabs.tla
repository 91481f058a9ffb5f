--------------------------- MODULE MCLockingLabs ----------------------------
(***************************************************************************)
(* Small instances of the locking labs and of khungtaskd.                  *)
(*   dl_lab      modes 1 to 4, with threads in time and late               *)
(*   rwsem_lab   both modes (3: arm64_lab), threads in time and late,      *)
(*               failing kthread_run                                       *)
(*   lock_bench  an uncontended round, two in a row on a mutex as in       *)
(*               run_optspin(), one of readers, one without a lock;        *)
(*               failing kthread_create                                    *)
(*   khungtaskd  two tasks, a table with a slot for each; and a table with *)
(*               one slot, which is full after the first                   *)
(***************************************************************************)
EXTENDS LockingLabs

\* The rounds of lock_bench: a lock and its number of threads each.
Rounds ==
  <<<<"spin", 1>>, <<"mutex", 2>>, <<"mutex", 2>>, <<"rwsem_r", 2>>, <<"atomic", 2>>>>
=============================================================================
