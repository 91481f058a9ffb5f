------------------------- MODULE MCLockupWatchdog -------------------------
(* Two or three CPUs, thresh = 5 seconds as in the usage text of           *)
(* lockup_lab.c, lockups on both sides of the detection limits.            *)
EXTENDS LockupWatchdog
=============================================================================
