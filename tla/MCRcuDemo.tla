----------------------------- MODULE MCRcuDemo -----------------------------
(* The one reader of rcu_demo.c, a second one to make grace periods wait   *)
(* for different sets of readers, and two or three rounds of the writer.   *)
EXTENDS RcuDemo
=============================================================================
