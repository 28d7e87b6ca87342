------------------------------- MODULE Induction -------------------------------
(***************************************************************************)
(* Induction over the natural numbers in a form that takes sets where the  *)
(* library's theorems take operators, and what it gives for FoldLeft: that *)
(* the function it recurses with exists.  Applied to one operator after    *)
(* another, this is how a loop over a string or a list is unrolled.        *)
(***************************************************************************)
EXTENDS Integers, Sequences, SequencesExt, SequenceTheorems, WellFoundedInduction, TLAPS

\* Every non-empty set of natural numbers has a least element.
LEMMA LeastNatural ==
  ASSUME NEW T \in SUBSET Nat, T # {}
  PROVE  \E m \in T : \A k \in T : m <= k
<1> DEFINE R == {ss \in Nat \X Nat : ss[1] < ss[2]}
<1>1. IsWellFoundedOn(R, Nat)
  BY NatLessThanWellFounded DEF OpToRel
<1>2. PICK x \in T : \A y \in T : ~ (<<y, x>> \in R)
  <2> HIDE DEF R
  <2> QED BY <1>1, WFMin
<1>3. \A y \in T : x <= y
  <2> SUFFICES ASSUME NEW y \in T PROVE x <= y OBVIOUS
  <2>1. x \in Nat /\ y \in Nat OBVIOUS
  <2>2. <<y, x>> \notin R BY <1>2
  <2> QED BY <2>1, <2>2
<1> QED BY <1>3

\* Induction up to n: a set that holds 0 and with i - 1 also i holds all of 0..n.
LEMMA CountUp ==
  ASSUME NEW n \in Nat, NEW T, 0 \in T, \A i \in 1..n : (i - 1) \in T => i \in T
  PROVE  \A i \in 0..n : i \in T
<1> DEFINE Out == {i \in 0..n : i \notin T}
<1> SUFFICES ASSUME Out # {} PROVE FALSE OBVIOUS
<1>1. PICK m \in Out : \A k \in Out : m <= k
  <2>1. Out \in SUBSET Nat OBVIOUS
  <2> HIDE DEF Out
  <2> QED BY <2>1, LeastNatural
<1>2. m \in 1..n /\ m \notin T OBVIOUS
<1>3. (m - 1) \in 0..n /\ ~(m <= m - 1) BY <1>2
<1>4. (m - 1) \in T BY <1>1, <1>3
<1> QED BY <1>2, <1>4

\* The function FoldLeft recurses with, on the subsets of 1..n.
IsIter(it, F, base, s, n) ==
  it = [T \in SUBSET (1..n) |->
          IF T = {} THEN base ELSE F[<<it[T \ {Max(T)}], s[Max(T)]>>]]

\* Max is the greatest element of a bounded set.
LEMMA MaxOf ==
  ASSUME NEW n \in Nat, NEW T \in SUBSET (1..n), T # {}
  PROVE  Max(T) \in T /\ \A k \in T : k <= Max(T)
<1> DEFINE Gap == {n - k : k \in T}
<1>1. Gap \in SUBSET Nat /\ Gap # {} OBVIOUS
<1>2. PICK g \in Gap : \A k \in Gap : g <= k
  <2> HIDE DEF Gap
  <2> QED BY <1>1, LeastNatural
<1>3. PICK m \in T : g = n - m OBVIOUS
<1>4. \A k \in T : m >= k
  <2> SUFFICES ASSUME NEW k \in T PROVE m >= k OBVIOUS
  <2>1. n - k \in Gap OBVIOUS
  <2>2. m \in Int /\ k \in Int /\ n - m <= n - k BY <2>1, <1>2, <1>3
  <2> QED BY <2>2
<1>5. \E x \in T : \A y \in T : x >= y BY <1>4
<1>6. Max(T) \in T /\ \A y \in T : Max(T) >= y BY <1>5 DEF Max
<1>7. \A y \in T : y \in Int OBVIOUS
<1> QED BY <1>6, <1>7

LEMMA MaxIs ==
  ASSUME NEW n \in Nat, NEW T \in SUBSET (1..n), n \in T
  PROVE  Max(T) = n
<1>1. PICK m \in T : m = Max(T) /\ n <= m BY MaxOf
<1>2. m \in 1..n OBVIOUS
<1> QED BY <1>1, <1>2

\* For every step function and every sequence the recursion has a solution.
LEMMA IterExists ==
  ASSUME NEW W, NEW C, NEW F \in [W \X C -> W], NEW base \in W, NEW s \in Seq(C)
  PROVE  \A n \in 0..Len(s) : \E it \in [SUBSET (1..n) -> W] : IsIter(it, F, base, s, n)
<1> DEFINE Good == {n \in 0..Len(s) : \E it \in [SUBSET (1..n) -> W] : IsIter(it, F, base, s, n)}
<1>1. 0 \in Good
  <2> DEFINE it == [T \in SUBSET (1..0) |-> base]
  <2>1. \A T \in SUBSET (1..0) : T = {} OBVIOUS
  <2>2. it \in [SUBSET (1..0) -> W] OBVIOUS
  <2>3. IsIter(it, F, base, s, 0) BY <2>1 DEF IsIter
  <2> QED BY <2>2, <2>3
<1>2. ASSUME NEW n \in 1..Len(s), (n - 1) \in Good PROVE n \in Good
  <2>1. PICK it \in [SUBSET (1..(n-1)) -> W] : IsIter(it, F, base, s, n - 1) BY <1>2
  <2> DEFINE jt == [T \in SUBSET (1..n) |-> IF n \in T THEN F[<<it[T \ {n}], s[n]>>] ELSE it[T]]
  <2>2. \A T \in SUBSET (1..n) : n \in T => T \ {n} \in SUBSET (1..(n-1)) OBVIOUS
  <2>3. \A T \in SUBSET (1..n) : n \notin T => T \in SUBSET (1..(n-1)) OBVIOUS
  <2>4. s[n] \in C OBVIOUS
  <2>5. jt \in [SUBSET (1..n) -> W]
    <3> SUFFICES ASSUME NEW T \in SUBSET (1..n) PROVE jt[T] \in W OBVIOUS
    <3>1. CASE n \in T BY <3>1, <2>2, <2>4
    <3>2. CASE n \notin T BY <3>2, <2>3
    <3> QED BY <3>1, <3>2
  <2>6. ASSUME NEW T \in SUBSET (1..n)
        PROVE  jt[T] = IF T = {} THEN base ELSE F[<<jt[T \ {Max(T)}], s[Max(T)]>>]
    <3>1. CASE n \in T
      <4>1. Max(T) = n BY <3>1, MaxIs
      <4>2. T \ {n} \in SUBSET (1..n) /\ n \notin T \ {n} OBVIOUS
      <4>3. jt[T \ {n}] = it[T \ {n}] BY <4>2
      <4> QED BY <3>1, <4>1, <4>3
    <3>2. CASE n \notin T
      <4>0. T \in SUBSET (1..(n-1)) BY <3>2, <2>3
      <4>1. jt[T] = it[T] BY <3>2
      <4>2. it[T] = IF T = {} THEN base ELSE F[<<it[T \ {Max(T)}], s[Max(T)]>>]
        BY <4>0, <2>1 DEF IsIter
      <4>3. jt[T \ {Max(T)}] = it[T \ {Max(T)}]
        <5>1. T \ {Max(T)} \in SUBSET (1..n) /\ n \notin T \ {Max(T)} BY <3>2
        <5> QED BY <5>1
      <4> QED BY <4>1, <4>2, <4>3
    <3> QED BY <3>1, <3>2
  <2>7. IsIter(jt, F, base, s, n)
    <3> HIDE DEF jt
    <3> QED BY <2>5, <2>6 DEF IsIter
  <2> HIDE DEF jt
  <2> QED BY <2>5, <2>7
<1>3. Len(s) \in Nat OBVIOUS
<1>4. \A n \in 0..Len(s) : n \in Good
  <2> HIDE DEF Good
  <2> QED BY <1>1, <1>2, <1>3, CountUp
<1> QED BY <1>4

\* The sets the recursion passes through on its way down.
LEMMA UpTo ==
  ASSUME NEW n \in Nat, NEW i \in 1..n
  PROVE  /\ 1..i \in SUBSET (1..n) /\ 1..i # {}
         /\ (1..i) \ {i} = 1..(i - 1)
         /\ Max(1..i) = i
         /\ 1..(i - 1) \in SUBSET (1..n)
<1>1. 1..i \in SUBSET (1..n) OBVIOUS
<1>2. i \in 1..i OBVIOUS
<1>3. (1..i) \ {i} = 1..(i - 1) OBVIOUS
<1>4. Max(1..i) = i
  <2>1. i \in Nat /\ 1..i \in SUBSET (1..i) OBVIOUS
  <2> QED BY <1>2, <2>1, MaxIs
<1> QED BY <1>1, <1>2, <1>3, <1>4

\* iter agrees with the recursion as long as its values stay in W.
IsFold(iter, F, base, s, n, W, C) ==
  /\ F \in [W \X C -> W] /\ base \in W /\ n \in Nat /\ s \in [1..n -> C]
  /\ iter[{}] = base
  /\ \A T \in SUBSET (1..n) : (T # {} /\ iter[T \ {Max(T)}] \in W) =>
       iter[T] = F[<<iter[T \ {Max(T)}], s[Max(T)]>>]

\* Each element of the sequence is applied to what the ones before it gave.
Steps(f, F, base, s, n) ==
  f[0] = base /\ \A i \in 1..n : f[i] = F[<<f[i - 1], s[i]>>]

\* A fold that is a solution of the recursion goes from step to step.
LEMMA FoldSteps ==
  ASSUME NEW W, NEW C, NEW F, NEW base, NEW n, NEW s, NEW iter,
         IsFold(iter, F, base, s, n, W, C)
  PROVE  \E f \in [0..n -> W] : Steps(f, F, base, s, n) /\ f[n] = iter[1..n]
<1> DEFINE f == [i \in 0..n |-> iter[1..i]]
           G == {i \in 0..n : f[i] \in W}
<1>0. /\ F \in [W \X C -> W] /\ base \in W /\ n \in Nat /\ s \in [1..n -> C] /\ iter[{}] = base
  BY DEF IsFold
<1> USE <1>0
<1>1. f[0] = base
  <2>1. 1..0 = {} /\ 0 \in 0..n
    OBVIOUS
  <2> QED  BY <1>0, <2>1
<1>2. ASSUME NEW i \in 1..n, f[i - 1] \in W
      PROVE  f[i] = F[<<f[i - 1], s[i]>>] /\ f[i] \in W
  <2>1. /\ 1..i \in SUBSET (1..n) /\ 1..i # {} /\ (1..i) \ {i} = 1..(i - 1) /\ Max(1..i) = i
    BY UpTo
  <2>2. f[i - 1] = iter[1..(i - 1)] /\ f[i] = iter[1..i]
    OBVIOUS
  <2>3. f[i] = F[<<f[i - 1], s[i]>>]
    BY <1>2, <2>1, <2>2 DEF IsFold
  <2> QED  BY <1>2, <2>3
<1>3. \A i \in 0..n : i \in G
  <2>1. 0 \in G
    BY <1>1
  <2>2. ASSUME NEW i \in 1..n, (i - 1) \in G PROVE i \in G
    <3>1. i \in 0..n /\ f[i - 1] \in W
      BY <2>2
    <3>2. f[i] \in W
      BY <1>2, <3>1
    <3> QED  BY <3>1, <3>2
  <2> HIDE DEF G
  <2> QED  BY <2>1, <2>2, CountUp
<1>4. \A i \in 1..n : f[i] = F[<<f[i - 1], s[i]>>]
  <2> SUFFICES ASSUME NEW i \in 1..n PROVE f[i] = F[<<f[i - 1], s[i]>>]
    OBVIOUS
  <2>1. i - 1 \in 0..n
    OBVIOUS
  <2>2. f[i - 1] \in W
    BY <1>3, <2>1
  <2> QED  BY <1>2, <2>2
<1>5. f[n] = iter[1..n]
  OBVIOUS
<1>6. f \in [0..n -> W]
  BY <1>3
<1> QED  BY <1>1, <1>4, <1>5, <1>6 DEF Steps
===============================================================================
