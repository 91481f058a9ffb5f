---------------------------- MODULE ProofLemmas ----------------------------
(***************************************************************************)
(* Facts about the data the proofs of several components rest on: queues   *)
(* as sequences without repetition, the smallest element of a set of       *)
(* naturals (the order in which the code handles CPUs and table slots),    *)
(* and the sums over threads that the benchmarks print.                    *)
(***************************************************************************)
EXTENDS Integers, Sequences, Functions, Sums, SequenceTheorems, WellFoundedInduction, TLAPS

\* A non-empty set of naturals has a smallest element.
LEMMA SmallestElement ==
  ASSUME NEW S \in SUBSET Nat, S # {}
  PROVE  \E x \in S : \A y \in S : x <= y
<1>1. PICK x \in S : \A y \in S : ~ (<<y, x>> \in OpToRel(<, Nat))
  BY NatLessThanWellFounded, WFMin
<1>2. ASSUME NEW y \in S PROVE x <= y
  <2>1. ~ (<<y, x>> \in OpToRel(<, Nat))
    BY <1>1
  <2>2. y < x => <<y, x>> \in OpToRel(<, Nat)
    BY DEF OpToRel
  <2>3. ~ (y < x)
    BY <2>1, <2>2, Zenon
  <2>4. x \in Nat /\ y \in Nat
    OBVIOUS
  <2>5. \A u, v \in Nat : ~ (u < v) => v <= u
    OBVIOUS
  <2> QED BY <2>3, <2>4, <2>5, Zenon
<1> QED BY <1>2

\* The empty queue.
LEMMA EmptyQueue == Range(<<>>) = {} /\ IsInjective(<<>>)
  BY DEF Range, IsInjective

\* Only the empty queue holds nothing.
LEMMA RangeEmpty ==
  ASSUME NEW S, NEW s \in Seq(S), Range(s) = {}
  PROVE  s = <<>>
<1>1. SUFFICES ASSUME s # <<>> PROVE FALSE
  OBVIOUS
<1>2. 1 \in DOMAIN s
  BY <1>1, EmptySeq, LenProperties
<1> QED BY <1>2 DEF Range

\* Adding at the end: what the queue holds, and that it stays without
\* repetition when the element is new.
LEMMA AppendQueue ==
  ASSUME NEW S, NEW s \in Seq(S), NEW e \in S
  PROVE  /\ Append(s, e) \in Seq(S)
         /\ Append(s, e) # <<>>
         /\ Range(Append(s, e)) = Range(s) \cup {e}
         /\ IsInjective(s) /\ e \notin Range(s) => IsInjective(Append(s, e))
<1> DEFINE t == Append(s, e)
<1>1. /\ t \in Seq(S) /\ t # <<>> /\ Len(t) = Len(s) + 1
      /\ \A i \in 1..Len(s) : t[i] = s[i]
      /\ t[Len(s) + 1] = e
  BY AppendProperties
<1>2. /\ Len(s) \in Nat /\ DOMAIN s = 1..Len(s)
      /\ DOMAIN t = 1..(Len(s) + 1)
  BY <1>1, LenProperties
<1> HIDE DEF t
<1>3. Range(t) = Range(s) \cup {e}
  BY <1>1, <1>2 DEF Range
<1>4. IsInjective(s) /\ e \notin Range(s) => IsInjective(t)
  BY <1>1, <1>2 DEF Range, IsInjective
<1> QED BY <1>1, <1>3, <1>4 DEF t

\* Taking from the front.
LEMMA TailQueue ==
  ASSUME NEW S, NEW s \in Seq(S), s # <<>>
  PROVE  /\ Head(s) \in S /\ Tail(s) \in Seq(S)
         /\ Range(s) = Range(Tail(s)) \cup {Head(s)}
         /\ IsInjective(s) => IsInjective(Tail(s)) /\ Head(s) \notin Range(Tail(s))
<1> DEFINE t == Tail(s)
<1>1. /\ Head(s) \in S /\ t \in Seq(S) /\ Len(t) = Len(s) - 1
      /\ \A i \in 1..Len(t) : t[i] = s[i + 1]
  BY HeadTailProperties
<1>2. Head(s) = s[1]
  OBVIOUS
<1>3. /\ Len(s) \in Nat \ {0} /\ DOMAIN s = 1..Len(s)
      /\ DOMAIN t = 1..(Len(s) - 1)
  BY <1>1, LenProperties, EmptySeq
<1> HIDE DEF t
<1>4. Range(s) = Range(t) \cup {Head(s)}
  <2>1. ASSUME NEW i \in 1..Len(s) PROVE s[i] = s[1] \/ \E k \in 1..(Len(s) - 1) : t[k] = s[i]
    <3>1. CASE i = 1
      BY <3>1
    <3>2. CASE i # 1
      <4>1. i - 1 \in 1..(Len(s) - 1) /\ t[i - 1] = s[(i - 1) + 1] /\ (i - 1) + 1 = i
        BY <3>2, <1>1, <1>3
      <4> QED BY <4>1
    <3> QED BY <3>1, <3>2
  <2>2. ASSUME NEW k \in 1..(Len(s) - 1) PROVE \E i \in 1..Len(s) : s[i] = t[k]
    <3>1. k + 1 \in 1..Len(s) /\ t[k] = s[k + 1]
      BY <1>1, <1>3
    <3> QED BY <3>1
  <2>3. Range(s) = {s[i] : i \in 1..Len(s)} /\ Range(t) = {t[k] : k \in 1..(Len(s) - 1)}
    BY <1>3 DEF Range
  <2>4. s[1] \in Range(s)
    BY <2>3, <1>3
  <2>5. Range(s) \subseteq Range(t) \cup {s[1]}
    BY <2>1, <2>3
  <2>6. Range(t) \subseteq Range(s)
    BY <2>2, <2>3
  <2> QED BY <2>4, <2>5, <2>6, <1>2
<1>5. ASSUME IsInjective(s) PROVE IsInjective(t) /\ Head(s) \notin Range(t)
  <2>1. \A i, k \in 1..Len(s) : s[i] = s[k] => i = k
    BY <1>3, <1>5 DEF IsInjective
  <2>2. \A k \in 1..(Len(s) - 1) : k + 1 \in 1..Len(s) /\ k + 1 # 1 /\ t[k] = s[k + 1]
    BY <1>1, <1>3
  <2>3. \A i, k \in 1..(Len(s) - 1) : i + 1 = k + 1 => i = k
    OBVIOUS
  <2>4. IsInjective(t)
    BY <2>1, <2>2, <2>3, <1>3 DEF IsInjective
  <2>5. 1 \in 1..Len(s)
    BY <1>3
  <2>6. \A k \in 1..(Len(s) - 1) : t[k] # s[1]
    BY <2>1, <2>2, <2>5
  <2> QED BY <2>4, <2>6, <1>2, <1>3 DEF Range
<1> QED BY <1>1, <1>4, <1>5 DEF t

\* What adding up an array amounts to: the recursion has a solution, and two
\* solutions agree as far as both go.
LEMMA SumSteps ==
  ASSUME NEW f, NEW m \in Nat, \A k \in 1..m : f[k] \in Int
  PROVE  /\ Sum(f, 0) = 0
         /\ \A j \in 1..m : Sum(f, j) = Sum(f, j - 1) + f[j]
         /\ \A j \in 0..m : Sum(f, j) \in Int
<1> DEFINE Adds(s, u) == s = [k \in 0..u |-> IF k = 0 THEN 0 ELSE s[k - 1] + f[k]]
           Added(u) == CHOOSE s : Adds(s, u)
<1>1. \A u \in Nat : \E s : Adds(s, u)
  <2> DEFINE Bad == {u \in Nat : ~ \E s : Adds(s, u)}
  <2>1. SUFFICES ASSUME Bad # {} PROVE FALSE
    OBVIOUS
  <2>2. PICK b \in Bad : \A u \in Bad : b <= u
    BY <2>1, SmallestElement
  <2>3. Adds([k \in 0..0 |-> 0], 0)
    OBVIOUS
  <2>4. b # 0 /\ b - 1 \in Nat /\ b - 1 \notin Bad
    <3>1. b # 0
      BY <2>2, <2>3
    <3>2. b \in Nat
      BY <2>2
    <3>3. b - 1 \in Nat /\ ~ (b <= b - 1)
      BY <3>1, <3>2
    <3> QED BY <2>2, <3>1, <3>3
  <2>5. PICK s : Adds(s, b - 1)
    BY <2>4
  <2> DEFINE t == [k \in 0..b |-> IF k = b THEN s[b - 1] + f[b] ELSE s[k]]
  <2>6. ASSUME NEW k \in 0..b PROVE t[k] = IF k = 0 THEN 0 ELSE t[k - 1] + f[k]
    <3>1. b \in Nat /\ b # 0
      BY <2>2, <2>4
    <3>2. CASE k = b
      <4>1. t[k] = s[k - 1] + f[k] /\ k - 1 \in 0..b /\ k - 1 # b /\ t[k - 1] = s[k - 1]
        BY <3>1, <3>2
      <4> QED BY <3>1, <3>2, <4>1
    <3>3. CASE k # b /\ k # 0
      <4>1. k \in 0..(b - 1) /\ k - 1 \in 0..b /\ k - 1 # b /\ t[k] = s[k] /\ t[k - 1] = s[k - 1]
        BY <3>1, <3>3
      <4>2. s[k] = s[k - 1] + f[k]
        BY <2>5, <3>3, <4>1
      <4> QED BY <3>3, <4>1, <4>2
    <3>4. CASE k # b /\ k = 0
      <4>1. 0 \in 0..(b - 1) /\ t[k] = s[k]
        BY <3>1, <3>4
      <4>2. s[0] = 0
        BY <2>5, <4>1
      <4> QED BY <3>4, <4>1, <4>2
    <3> QED BY <3>2, <3>3, <3>4
  <2>7. Adds(t, b)
    <3>1. t = [k \in 0..b |-> t[k]]
      OBVIOUS
    <3> HIDE DEF t
    <3> QED BY <3>1, <2>6
  <2> QED BY <2>2, <2>7
<1>2. \A u \in Nat : Adds(Added(u), u)
  BY <1>1
<1>3. \A u \in Nat : Sum(f, u) = Added(u)[u]
  BY DEF Sum
<1>4. \A u \in Nat : \A k \in 0..u : Added(u)[k] = IF k = 0 THEN 0 ELSE Added(u)[k - 1] + f[k]
  <2> SUFFICES ASSUME NEW u \in Nat, NEW k \in 0..u
               PROVE  Added(u)[k] = IF k = 0 THEN 0 ELSE Added(u)[k - 1] + f[k]
    OBVIOUS
  <2>1. PICK s : s = Added(u)
    OBVIOUS
  <2>2. Adds(s, u)
    BY <1>2, <2>1
  <2> HIDE DEF Added
  <2> QED BY <2>1, <2>2
<1> HIDE DEF Adds, Added
<1>5. \A u \in Nat \ {0} : \A k \in 0..(u - 1) : Added(u)[k] = Added(u - 1)[k]
  <2> SUFFICES ASSUME NEW u \in Nat \ {0} PROVE \A k \in 0..(u - 1) : Added(u)[k] = Added(u - 1)[k]
    OBVIOUS
  <2> DEFINE Bad == {k \in 0..(u - 1) : Added(u)[k] # Added(u - 1)[k]}
  <2>1. SUFFICES ASSUME Bad # {} PROVE FALSE
    OBVIOUS
  <2>2. Bad \in SUBSET Nat
    OBVIOUS
  <2>3. PICK b \in Bad : \A k \in Bad : b <= k
    BY <2>1, <2>2, SmallestElement
  <2>4. u - 1 \in Nat /\ b \in 0..(u - 1) /\ b \in 0..u
    BY <2>3
  <2>5. /\ Added(u)[b] = IF b = 0 THEN 0 ELSE Added(u)[b - 1] + f[b]
        /\ Added(u - 1)[b] = IF b = 0 THEN 0 ELSE Added(u - 1)[b - 1] + f[b]
    BY <1>4, <2>4
  <2>6. b # 0
    BY <2>3, <2>5
  <2>7. b - 1 \in 0..(u - 1) /\ ~ (b <= b - 1)
    BY <2>4, <2>6
  <2>8. Added(u)[b - 1] = Added(u - 1)[b - 1]
    BY <2>3, <2>7
  <2> QED BY <2>3, <2>5, <2>6, <2>8
<1>6. Sum(f, 0) = 0
  BY <1>3, <1>4
<1>7. ASSUME NEW j \in Nat \ {0} PROVE Sum(f, j) = Sum(f, j - 1) + f[j]
  <2>1. j \in Nat /\ j - 1 \in Nat /\ j \in 0..j /\ j # 0 /\ j - 1 \in 0..(j - 1)
    OBVIOUS
  <2>2. Sum(f, j) = Added(j)[j - 1] + f[j]
    BY <1>3, <1>4, <2>1
  <2>3. Sum(f, j - 1) = Added(j)[j - 1]
    BY <1>3, <1>5, <2>1
  <2> QED BY <2>2, <2>3
<1>8. \A j \in 0..m : Sum(f, j) \in Int
  <2> DEFINE Bad == {j \in 0..m : Sum(f, j) \notin Int}
  <2>1. SUFFICES ASSUME Bad # {} PROVE FALSE
    OBVIOUS
  <2>2. Bad \in SUBSET Nat
    OBVIOUS
  <2>3. PICK b \in Bad : \A k \in Bad : b <= k
    BY <2>1, <2>2, SmallestElement
  <2>4. b # 0
    BY <1>6, <2>3
  <2>5. b - 1 \in 0..m /\ ~ (b <= b - 1) /\ b \in 1..m /\ b \in Nat \ {0}
    BY <2>3, <2>4
  <2>6. Sum(f, b - 1) \in Int
    BY <2>3, <2>5
  <2> QED BY <1>7, <2>3, <2>5, <2>6
<1>9. \A j \in 1..m : j \in Nat \ {0}
  OBVIOUS
<1> QED BY <1>6, <1>7, <1>8, <1>9

\* g is f with d added at i.
Shifted(f, g, m, i, d) ==
  /\ m \in Nat /\ i \in 1..m /\ d \in Int
  /\ \A k \in 1..m : f[k] \in Int /\ g[k] = IF k = i THEN f[k] + d ELSE f[k]

\* Changing one element by d changes the sum by d.
LEMMA SumShift ==
  ASSUME NEW f, NEW g, NEW m, NEW i, NEW d, Shifted(f, g, m, i, d)
  PROVE  Sum(g, m) = Sum(f, m) + d
<1> USE DEF Shifted
<1>1. \A k \in 1..m : f[k] \in Int /\ g[k] \in Int
  OBVIOUS
<1> DEFINE Bad == {j \in 0..m : Sum(g, j) # IF i <= j THEN Sum(f, j) + d ELSE Sum(f, j)}
<1>2. ASSUME Bad # {} PROVE FALSE
  <2>1. Bad \in SUBSET Nat
    OBVIOUS
  <2>2. PICK b \in Bad : \A j \in Bad : b <= j
    BY <1>2, <2>1, SmallestElement
  <2>3. Sum(f, 0) = 0 /\ Sum(g, 0) = 0
    BY <1>1, SumSteps
  <2>4. b # 0
    BY <2>2, <2>3
  <2>5. b \in 1..m /\ b - 1 \in 0..m /\ ~ (b <= b - 1)
    BY <2>2, <2>4
  <2>6. /\ Sum(f, b) = Sum(f, b - 1) + f[b] /\ Sum(g, b) = Sum(g, b - 1) + g[b]
        /\ Sum(f, b - 1) \in Int
    BY <1>1, <2>5, SumSteps
  <2>7. b - 1 \notin Bad
    BY <2>2, <2>5
  <2>8. Sum(g, b - 1) = IF i <= b - 1 THEN Sum(f, b - 1) + d ELSE Sum(f, b - 1)
    BY <2>5, <2>7
  <2>9. Sum(g, b) = IF i <= b THEN Sum(f, b) + d ELSE Sum(f, b)
    <3>1. CASE b = i
      BY <2>5, <2>6, <2>8, <3>1
    <3>2. CASE b # i
      BY <2>5, <2>6, <2>8, <3>2
    <3> QED BY <3>1, <3>2
  <2> QED BY <2>2, <2>9
<1>3. m \in 0..m /\ i <= m
  OBVIOUS
<1> QED BY <1>2, <1>3

\* A sum of zeros and ones.
LEMMA SumBits ==
  ASSUME NEW f, NEW m \in Nat, \A k \in 1..m : f[k] \in {0, 1}
  PROVE  /\ Sum(f, m) \in 0..m
         /\ Sum(f, m) = 0 <=> \A k \in 1..m : f[k] = 0
         /\ (\A k \in 1..m : f[k] = 1) => Sum(f, m) = m
<1> DEFINE Good(j) == /\ Sum(f, j) \in 0..j
                      /\ Sum(f, j) = 0 <=> \A k \in 1..j : f[k] = 0
                      /\ (\A k \in 1..j : f[k] = 1) => Sum(f, j) = j
           Bad == {j \in 0..m : ~ Good(j)}
<1>1. \A k \in 1..m : f[k] \in Int
  OBVIOUS
<1>2. ASSUME Bad # {} PROVE FALSE
  <2>1. Bad \in SUBSET Nat
    OBVIOUS
  <2>2. PICK b \in Bad : \A j \in Bad : b <= j
    BY <1>2, <2>1, SmallestElement
  <2>3. Sum(f, 0) = 0
    BY <1>1, SumSteps
  <2>4. b # 0
    BY <2>2, <2>3
  <2>5. b \in 1..m /\ b - 1 \in 0..m /\ ~ (b <= b - 1)
    BY <2>2, <2>4
  <2>6. Sum(f, b) = Sum(f, b - 1) + f[b]
    BY <1>1, <2>5, SumSteps
  <2>7. Good(b - 1)
    BY <2>2, <2>5
  <2>8. f[b] \in {0, 1} /\ \A k \in 1..b : k = b \/ k \in 1..(b - 1)
    BY <2>5
  <2>9. \A k \in 1..(b - 1) : k \in 1..b
    BY <2>5
  <2>10. b \in 1..b
    BY <2>5
  <2>11. Good(b)
    <3>1. Sum(f, b) \in 0..b
      BY <2>5, <2>6, <2>7, <2>8
    <3>2. Sum(f, b) = 0 <=> \A k \in 1..b : f[k] = 0
      <4>1. Sum(f, b) = 0 <=> Sum(f, b - 1) = 0 /\ f[b] = 0
        BY <2>5, <2>6, <2>7, <2>8
      <4>2. (\A k \in 1..b : f[k] = 0) <=> (\A k \in 1..(b - 1) : f[k] = 0) /\ f[b] = 0
        BY <2>8, <2>9, <2>10
      <4> QED BY <2>7, <4>1, <4>2
    <3>3. ASSUME \A k \in 1..b : f[k] = 1 PROVE Sum(f, b) = b
      <4>1. Sum(f, b - 1) = b - 1 /\ f[b] = 1
        BY <2>7, <2>9, <2>10, <3>3
      <4> QED BY <2>5, <2>6, <4>1
    <3> QED BY <3>1, <3>2, <3>3
  <2> QED BY <2>2, <2>11
<1>3. m \in 0..m
  OBVIOUS
<1>4. Good(m)
  BY <1>2, <1>3
<1> QED BY <1>4

\* Equal elements, equal sums.
LEMMA SumSame ==
  ASSUME NEW f, NEW g, NEW m \in Nat, \A k \in 1..m : f[k] \in Int /\ g[k] = f[k]
  PROVE  Sum(g, m) = Sum(f, m)
<1> DEFINE Bad == {j \in 0..m : Sum(g, j) # Sum(f, j)}
<1>1. ASSUME Bad # {} PROVE FALSE
  <2>1. Bad \in SUBSET Nat /\ \A k \in 1..m : g[k] \in Int
    OBVIOUS
  <2>2. PICK b \in Bad : \A j \in Bad : b <= j
    BY <1>1, <2>1, SmallestElement
  <2>3. Sum(f, 0) = 0 /\ Sum(g, 0) = 0
    BY <2>1, SumSteps
  <2>4. b # 0
    BY <2>2, <2>3
  <2>5. b \in 1..m /\ b - 1 \in 0..m /\ ~ (b <= b - 1)
    BY <2>2, <2>4
  <2>6. Sum(f, b) = Sum(f, b - 1) + f[b] /\ Sum(g, b) = Sum(g, b - 1) + g[b]
    BY <2>1, <2>5, SumSteps
  <2>7. Sum(g, b - 1) = Sum(f, b - 1) /\ g[b] = f[b]
    BY <2>2, <2>5
  <2> QED BY <2>2, <2>6, <2>7
<1>2. m \in 0..m
  OBVIOUS
<1> QED BY <1>1, <1>2

\* m equal elements.
LEMMA SumConstant ==
  ASSUME NEW f, NEW m \in Nat, NEW c \in Int, \A k \in 1..m : f[k] = c
  PROVE  Sum(f, m) = m * c
<1> DEFINE Bad == {j \in 0..m : Sum(f, j) # j * c}
<1>1. ASSUME Bad # {} PROVE FALSE
  <2>1. Bad \in SUBSET Nat /\ \A k \in 1..m : f[k] \in Int
    OBVIOUS
  <2>2. PICK b \in Bad : \A j \in Bad : b <= j
    BY <1>1, <2>1, SmallestElement
  <2>3. Sum(f, 0) = 0 /\ 0 * c = 0
    BY <2>1, SumSteps
  <2>4. b # 0
    BY <2>2, <2>3
  <2>5. b \in 1..m /\ b - 1 \in 0..m /\ ~ (b <= b - 1)
    BY <2>2, <2>4
  <2>6. Sum(f, b) = Sum(f, b - 1) + f[b]
    BY <2>1, <2>5, SumSteps
  <2>7. Sum(f, b - 1) = (b - 1) * c /\ f[b] = c
    BY <2>2, <2>5
  <2>8. b * c = (b - 1) * c + c
    <3>1. b \in Nat /\ c \in Int
      BY <2>5
    <3> QED BY <3>1
  <2> QED BY <2>2, <2>6, <2>7, <2>8
<1>2. m \in 0..m
  OBVIOUS
<1> QED BY <1>1, <1>2
=============================================================================
