----------------------------- MODULE MCWqProbe -----------------------------
(* Three items and three kworkers: enough for one item to sleep, one to    *)
(* run and one to be parked behind max_active = 2.                         *)
EXTENDS WqProbe
=============================================================================
