------------------------------ MODULE ProbeMath ------------------------------
(***************************************************************************)
(* The arithmetic the probes redo from the kernel: load weights, vruntime  *)
(* and PELT decay (sched_probe.c), wraparound comparison (sync_probe.c),   *)
(* the free-block count of probe_fragmentation() (mm_probe.c) and the      *)
(* index mask of nospec_mask.c.  Each is compared with a reference over    *)
(* all inputs of a small word, the loops of show_pelt() run at full width. *)
(***************************************************************************)
EXTENDS Integers, Sequences, SequencesExt

CONSTANTS
  W,           \* bits of a word where the code has 32 or 64
  MaxOrder,    \* orders of free blocks: 0 .. MaxOrder - 1
  MaxFree      \* bound on the blocks of one order

VARIABLES
  job,             \* what is computed: <<name, inputs...>>
  n, sum,          \* the loop counter of show_pelt() and its running sum
  t50, t80, t95    \* show_pelt(): when the utilisation passed each mark, -1 before

vars == <<job, n, sum, t50, t80, t95>>

-----------------------------------------------------------------------------
(* sched_probe.c                                                           *)

my_prio_to_weight == <<
  88761, 71755, 56483, 46273, 36291, 29154, 23254, 18705, 14949, 11916,
   9548,  7620,  6100,  4904,  3906,  3121,  2501,  1991,  1586,  1277,
   1024,   820,   655,   526,   423,   335,   272,   215,   172,   137,
    110,    87,    70,    56,    45,    36,    29,    23,    18,    15>>

my_prio_to_wmult == <<
      48388,     59856,     76040,     92818,    118348,    147320,    184698,    229616,    287308,    360437,
     449829,    563644,    704093,    875809,   1099582,   1376151,   1717300,   2157191,   2708050,   3363326,
    4194304,   5237765,   6557202,   8165337,  10153587,  12820798,  15790321,  19976592,  24970740,  31350126,
   39045157,  49367440,  61356676,  76695844,  95443717, 119304647, 148102320, 186737708, 238609294, 286331153>>

\* show_weight_table(): 0xffffffff / w, without leaving 31 bits.
InvWeight(w) ==
  LET m == 2147483647 IN 2 * (m \div w) + (2 * (m % w) + 1) \div w

\* my_calc_delta(): the factor is halved until it fits a word, the shift with it.
\* Mutant: the shift is not taken back.
my_calc_deltaNoShift(delta, weight, inv) ==
  LET fact == (weight % 2^W) * inv
      k == CHOOSE j \in 0 .. W : fact \div 2^j < 2^W /\ (j > 0 => fact \div 2^(j - 1) >= 2^W)
  IN  ((delta * (fact \div 2^k)) % 2^(2 * W)) \div 2^W

my_calc_delta(delta, weight, inv) ==
  LET fact == (weight % 2^W) * inv
      k == CHOOSE j \in 0 .. W : fact \div 2^j < 2^W /\ (j > 0 => fact \div 2^(j - 1) >= 2^W)
  IN  ((delta * (fact \div 2^k)) % 2^(2 * W)) \div 2^(W - k)

\* my_yN_inv[]: bytes from the least significant on.
my_yN_inv == <<
  <<255,255,255,255>>, <<218,178,131,250>>, << 20,125, 37,245>>, <<154,185,228,239>>,
  <<230,198,192,234>>, <<230,  6,185,229>>, <<235,222,204,224>>, <<150,183,251,219>>,
  <<201,252, 68,215>>, <<145, 29,168,210>>, << 20,140, 36,206>>, <<133,189,185,201>>,
  << 16, 42,103,197>>, <<201, 76, 44,193>>, <<158,163,  8,189>>, << 70,175,251,184>>,
  << 51,243,  4,181>>, <<129,245, 35,177>>, <<233, 62, 88,173>>, <<180, 90,161,169>>,
  <<169,214,254,165>>, <<  2, 67,112,162>>, << 95, 50,245,158>>, <<185, 57,141,155>>,
  << 80,240, 55,152>>, <<168,239,244,148>>, <<115,211,195,145>>, <<138, 57,164,142>>,
  <<227,193,149,139>>, <<128, 14,152,136>>, <<103,195,170,133>>, <<152,134,205,130>> >>
PERIOD == 32
LOAD_AVG_MAX == 47742

\* mul_u64_u32_shr(v, m, 32), byte by byte.
MulShr32(v, m) == FoldLeft(LAMBDA acc, b : (acc + v * b) \div 256, 0, m)

\* Mutant: the part of n beyond full periods is dropped.
my_decay_loadWhole(v, k) ==
  IF k > PERIOD * 63 THEN 0
  ELSE MulShr32(IF k \div PERIOD > 30 THEN 0 ELSE v \div 2^(k \div PERIOD), my_yN_inv[1])

my_decay_load(v, k) ==
  IF k > PERIOD * 63 THEN 0
  ELSE MulShr32(IF k \div PERIOD > 30 THEN 0 ELSE v \div 2^(k \div PERIOD), my_yN_inv[(k % PERIOD) + 1])

Init == job = <<"none">> /\ n = 0 /\ sum = 0 /\ t50 = -1 /\ t80 = -1 /\ t95 = -1

\* show_pelt(): the sum of 1024 * y^n, until it stays the same or 1000 rounds.
PeltStart ==
  /\ job = <<"none">>
  /\ job' = <<"sum">> /\ sum' = 1024 /\ n' = 0
  /\ UNCHANGED <<t50, t80, t95>>

PeltSum ==
  /\ job = <<"sum">>
  /\ LET next == MulShr32(sum, my_yN_inv[2]) + 1024 IN
     IF n >= 1000 \/ next = sum
     THEN job' = <<"summed">> /\ UNCHANGED <<n, sum>>
     ELSE sum' = next /\ n' = n + 1 /\ UNCHANGED job
  /\ UNCHANGED <<t50, t80, t95>>

PeltRampStart ==
  /\ job = <<"summed">>
  /\ job' = <<"ramp">> /\ n' = 0 /\ UNCHANGED <<sum, t50, t80, t95>>

\* The ramp util(n) = 1024 - decay_load(1024, n) and the first n past each mark.
PeltRamp ==
  /\ job = <<"ramp">>
  /\ LET u == 1024 - my_decay_load(1024, n)
         mark(t, pct) == IF t < 0 /\ u * 100 >= 1024 * pct THEN n ELSE t
     IN  t50' = mark(t50, 50) /\ t80' = mark(t80, 80) /\ t95' = mark(t95, 95)
  /\ n' = n + 1
  /\ job' = IF n' = 1024 THEN <<"pelt done">> ELSE job
  /\ UNCHANGED sum

-----------------------------------------------------------------------------
(* sync_probe.c, mm_probe.c, nospec_mask.c                                 *)

\* ULONG_CMP_GE() and ULONG_CMP_LT() as show_ulong_cmp() prints and uses them.
Sub(a, b) == (a - b) % 2^W
ULONG_MAX == 2^W - 1
ULONG_CMP_GE(a, b) == ULONG_MAX \div 2 >= Sub(a, b)
ULONG_CMP_LT(a, b) == ULONG_MAX \div 2 < Sub(a, b)

\* probe_fragmentation(): blocks of an order, with all larger ones split.
suitable(nr_free, order) ==
  FoldLeft(LAMBDA s, o : s + nr_free[o] * 2^(o - order), 0, [i \in 1 .. MaxOrder - order |-> order + i - 1])
verdict(nr_free, order) ==
  CASE nr_free[order] > 0 -> "direct" [] suitable(nr_free, order) > 0 -> "split" [] OTHER -> "none"

\* mask_c(): ~(index | (size - 1 - index)) >> 63, arithmetically.
\* Mutant: size instead of size - 1.
mask_cOffByOne(index, size) ==
  IF index >= 2^(W - 1) \/ Sub(size, index) >= 2^(W - 1) THEN 0 ELSE ULONG_MAX
mask_c(index, size) ==
  IF index >= 2^(W - 1) \/ Sub(Sub(size, 1), index) >= 2^(W - 1) THEN 0 ELSE ULONG_MAX
\* mask_asm(): cmp idx, sz; sbc 0 - 0 - !C.
mask_asm(index, size) == IF index < size THEN ULONG_MAX ELSE 0

Compute ==
  /\ job = <<"none">>
  /\ \/ \E d \in 0 .. 2^W - 1, w \in {2^(W - 1) - 1, 2^(W - 2), 2^W - 1, 2^W + 3}, i \in {1, 2^(W - 1), 2^W - 1} :
          job' = <<"calc_delta", d, w, i>>
     \/ \E v \in {1, 2, 1024, 47742}, k \in {0, 1, 31, 32, 33, 63, 64, 1000, 2015, 2016, 2017, 4000} : job' = <<"decay", v, k>>
     \/ \E a, b \in 0 .. 2^W - 1 : job' = <<"seq", a, b>> \/ job' = <<"mask", a, b>>
     \/ \E f \in [0 .. MaxOrder - 1 -> 0 .. MaxFree] : job' = <<"frag", f>>
     \/ \E i \in 1 .. 40 : job' = <<"weight", i>>
  /\ UNCHANGED <<n, sum, t50, t80, t95>>

Next == PeltStart \/ PeltSum \/ PeltRampStart \/ PeltRamp \/ Compute

-----------------------------------------------------------------------------
\* Blocks of an order that repeated allocation gets out of the free lists: take
\* one of the order, or split the smallest larger block.
RECURSIVE Allocatable(_, _)
Allocatable(f, order) ==
  LET larger == {o \in order .. MaxOrder - 1 : f[o] > 0}
      o == CHOOSE x \in larger : \A y \in larger : x <= y
  IN  IF larger = {} THEN 0
      ELSE 1 + Allocatable([k \in DOMAIN f |-> CASE k = o -> f[k] - 1
                                                 [] k >= order /\ k < o -> f[k] + 1
                                                 [] OTHER -> f[k]], order)

\* my_calc_delta(), my_prio_to_wmult[] and my_decay_load(): the scaled product
\* loses less than one unit of the shortened factor; the stored inverse
\* weights are within one of 2^32 / weight; a decay by one period more halves,
\* never grows with n and is 0 after 63 periods.
SchedMathExact ==
  /\ job[1] = "calc_delta" =>
       LET p == (job[3] % 2^W) * job[4]
           got == my_calc_delta(job[2], job[3], job[4])
           k == CHOOSE j \in 0 .. W : p \div 2^j < 2^W /\ (j > 0 => p \div 2^(j - 1) >= 2^W)
           want == (job[2] * p) \div 2^W
       IN  got <= want /\ want - got <= (job[2] * 2^k) \div 2^W + 1
  /\ job[1] = "weight" =>
       my_prio_to_wmult[job[2]] - InvWeight(my_prio_to_weight[job[2]]) \in {-1, 0, 1}
  /\ job[1] = "decay" =>
       LET d(k) == my_decay_load(job[2], k) IN
       /\ d(job[3] + 1) <= d(job[3])
       /\ job[3] + PERIOD <= PERIOD * 63 => d(job[3]) - 2 * d(job[3] + PERIOD) \in -1 .. 2
       /\ job[3] > PERIOD * 63 => d(job[3]) = 0

\* show_pelt(): the sum converges, before the bound of 1000 rounds, to the
\* LOAD_AVG_MAX the kernel uses; half the load is reached after one period and
\* the marks are passed in order.
PeltExact ==
  /\ job[1] = "summed" => n < 1000 /\ sum = LOAD_AVG_MAX
  /\ job[1] = "pelt done" => t50 = PERIOD /\ t50 < t80 /\ t80 < t95 /\ t95 < 5 * PERIOD

\* show_ulong_cmp(): the sequence number that was taken later compares greater
\* across the wraparound, up to half the range; probe_fragmentation(): the
\* count and the verdict of an order are what allocation can really get;
\* mask_c() agrees with mask_asm() for every size up to half the range.
ProbeNumbersExact ==
  /\ job[1] = "seq" =>
       LET d == Sub(job[3], job[2]) IN
       /\ ULONG_CMP_LT(job[2], job[3]) <=> d \in 1 .. 2^(W - 1)
       /\ ULONG_CMP_GE(job[2], job[3]) <=> ~ULONG_CMP_LT(job[2], job[3])
  /\ job[1] = "frag" =>
       \A o \in 0 .. MaxOrder - 1 :
         /\ suitable(job[2], o) = Allocatable(job[2], o)
         /\ verdict(job[2], o) = "none" <=> Allocatable(job[2], o) = 0
  /\ job[1] = "mask" /\ job[3] <= 2^(W - 1) =>
       mask_c(job[2], job[3]) = mask_asm(job[2], job[3])
=============================================================================
