---------------------------- MODULE MCSoftirqPar ----------------------------
(* Three CPUs, all three modes of softirq_par.c, one load and one unload.  *)
EXTENDS SoftirqPar
=============================================================================
