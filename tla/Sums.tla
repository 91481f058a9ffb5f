-------------------------------- MODULE Sums --------------------------------
(***************************************************************************)
(* Adding up an array, as main() of the benchmarks does.                   *)
(***************************************************************************)
EXTENDS Integers

\* The first m elements of an array, added up from the front as the code does.
Sum(f, m) ==
  LET total[k \in 0..m] == IF k = 0 THEN 0 ELSE total[k - 1] + f[k]
  IN  total[m]
=============================================================================
