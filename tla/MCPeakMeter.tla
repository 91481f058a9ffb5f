---------------------------- MODULE MCPeakMeter ----------------------------
(* Three threads entering and leaving the callback of PeakMeter, from the  *)
(* first to many rounds: the state space is finite without a bound.        *)
EXTENDS PeakMeter
=============================================================================
