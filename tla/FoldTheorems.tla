---------------------------- MODULE FoldTheorems ----------------------------
(***************************************************************************)
(* What FoldLeft computes, by induction on the length of the sequence.  A  *)
(* module that wants to know it of a fold INSTANCEs this one, with the     *)
(* step of the fold for Step and what is to be shown of it for Inv: the    *)
(* provers cannot put an operator in the place of a theorem's parameter,   *)
(* but a constant is replaced before they see the theorem.                 *)
(***************************************************************************)
EXTENDS Integers, Folds, WellFoundedInduction

CONSTANTS
  Step(_, _, _, _),  \* two values that stay the same, accumulator, element
  Inv(_, _, _)       \* what the claim is about, number of elements folded, accumulator

\* The greatest index, which FoldLeft takes last.
Highest(S) == CHOOSE x \in S : \A y \in S : x >= y

Result(p, q, base, seq) ==
  MapThenFoldSet(LAMBDA x, acc : Step(p, q, acc, x), base, LAMBDA i : seq[i],
                 LAMBDA S : Highest(S), DOMAIN seq)

\* Of the naturals in a set that has one, one is the least.
LEMMA LeastNatural ==
  ASSUME NEW T \in SUBSET Nat, T # {}
  PROVE  \E n \in T : \A m \in T : n <= m
<1>1. PICK R : R = OpToRel(<, Nat)
  OBVIOUS
<1>2. IsWellFoundedOn(R, Nat)
  BY <1>1, NatLessThanWellFounded
<1>3. \E n \in T : \A m \in T : <<m, n>> \notin R
  BY <1>2, WFMin
<1>4. PICK n \in T : \A m \in T : <<m, n>> \notin R
  BY <1>3
<1>5. \A m, k \in Nat : <<m, k>> \in R <=> m < k
  BY <1>1 DEF OpToRel
<1>6. \A m \in T : n <= m
  <2> SUFFICES ASSUME NEW m \in T
               PROVE  n <= m
    OBVIOUS
  <2>1. ~(m < n) /\ m \in Nat /\ n \in Nat
    BY <1>4, <1>5
  <2>2. QED
    BY <2>1
<1>7. QED
  BY <1>6

\* A set with 0 that has the successor of each of its members below n has n.
LEMMA CountingUp ==
  ASSUME NEW n \in Nat, NEW Q, 0 \in Q, \A k \in 0..(n - 1) : k \in Q => k + 1 \in Q
  PROVE  0..n \subseteq Q
<1> SUFFICES ASSUME (0..n) \ Q # {} PROVE FALSE
  OBVIOUS
<1>1. PICK T : T = (0..n) \ Q
  OBVIOUS
<1>2. T \in SUBSET Nat /\ T # {}
  BY <1>1
<1>3. PICK k \in T : \A m \in T : k <= m
  BY <1>2, LeastNatural
<1>4. k \in 0..n /\ k \notin Q /\ k # 0
  BY <1>1, <1>3
<1>5. k - 1 \in 0..(n - 1)
  BY <1>4
<1>6. k - 1 \in Q
  <2>1. k - 1 \notin T
    BY <1>2, <1>3, <1>4
  <2>2. QED
    BY <1>1, <1>5, <2>1
<1>7. k - 1 + 1 = k
  BY <1>4
<1>8. QED
  BY <1>4, <1>5, <1>6, <1>7

\* The greatest of a set of numbers with n on top.
LEMMA TopOf ==
  ASSUME NEW n \in Nat, NEW s \in SUBSET (1..n), n \in s
  PROVE  Highest(s) = n
<1>1. \A x \in s : n >= x
  OBVIOUS
<1>2. \A x \in s : (\A y \in s : x >= y) => x = n
  OBVIOUS
<1>3. QED
  BY <1>1, <1>2 DEF Highest

\* iter is the recursive function of MapThenFoldSet on the indexes up to n.
Iterates(p, q, base, seq, n, iter) ==
  iter = [s \in SUBSET (1..n) |->
            IF s = {} THEN base
            ELSE Step(p, q, iter[s \ {Highest(s)}], seq[Highest(s)])]

\* There is such a function, since the greatest index is taken last.
LEMMA IterExists ==
  ASSUME NEW p, NEW q, NEW base, NEW seq, NEW n \in Nat
  PROVE  \E iter : Iterates(p, q, base, seq, n, iter)
<1> DEFINE Q == {k \in Nat : \E iter : Iterates(p, q, base, seq, k, iter)}
<1>1. 0 \in Q
  <2>1. PICK f : f = [s \in SUBSET (1..0) |-> base]
    OBVIOUS
  <2>2. SUBSET (1..0) = {{}}
    OBVIOUS
  <2>3. f = [s \in SUBSET (1..0) |->
            IF s = {} THEN base
            ELSE Step(p, q, f[s \ {Highest(s)}], seq[Highest(s)])]
    BY <2>1, <2>2
  <2>4. QED
    BY <2>3 DEF Iterates
<1>2. ASSUME NEW k \in Nat, k \in Q
      PROVE  k + 1 \in Q
  <2>1. PICK h : Iterates(p, q, base, seq, k, h)
    BY <1>2
  <2>2. PICK f : f = [s \in SUBSET (1..(k + 1)) |->
                        IF k + 1 \in s THEN Step(p, q, h[s \ {k + 1}], seq[k + 1]) ELSE h[s]]
    OBVIOUS
  <2>3. ASSUME NEW s \in SUBSET (1..(k + 1))
        PROVE  f[s] = IF s = {} THEN base
                      ELSE Step(p, q, f[s \ {Highest(s)}], seq[Highest(s)])
    <3>1. CASE k + 1 \in s
      <4>1. Highest(s) = k + 1
        BY <3>1, TopOf
      <4>2. s \ {k + 1} \in SUBSET (1..(k + 1)) /\ k + 1 \notin s \ {k + 1}
        OBVIOUS
      <4>3. f[s \ {k + 1}] = h[s \ {k + 1}]
        BY <2>2, <4>2
      <4>4. QED
        BY <2>2, <3>1, <4>1, <4>3
    <3>2. CASE k + 1 \notin s
      <4>1. s \in SUBSET (1..k)
        BY <3>2
      <4>2. f[s] = h[s]
        BY <2>2, <3>2
      <4>3. h[s] = IF s = {} THEN base ELSE Step(p, q, h[s \ {Highest(s)}], seq[Highest(s)])
        BY <2>1, <4>1 DEF Iterates
      <4>4. f[s \ {Highest(s)}] = h[s \ {Highest(s)}]
        BY <2>2, <3>2
      <4>5. QED
        BY <4>2, <4>3, <4>4
    <3>3. QED
      BY <3>1, <3>2
  <2>4. f = [s \in SUBSET (1..(k + 1)) |->
            IF s = {} THEN base
            ELSE Step(p, q, f[s \ {Highest(s)}], seq[Highest(s)])]
    BY <2>2, <2>3
  <2>5. Iterates(p, q, base, seq, k + 1, f)
    BY <2>4 DEF Iterates
  <2>6. QED
    BY <2>5
<1>3. \A k \in 0..(n - 1) : k \in Q => k + 1 \in Q
  BY <1>2
<1>4. n \in Q
  <2> HIDE DEF Q
  <2>1. 0..n \subseteq Q
    BY <1>1, <1>3, CountingUp
  <2>2. QED
    BY <2>1
<1>5. QED
  BY <1>4

\* A fold is what its step makes of what the elements before the last make.
LEMMA FoldIsIter ==
  ASSUME NEW p, NEW q, NEW base, NEW seq, NEW n \in Nat, DOMAIN seq = 1..n
  PROVE  \E iter : /\ Iterates(p, q, base, seq, n, iter)
                   /\ Result(p, q, base, seq) = iter[1..n]
<1>1. PICK iter : iter = CHOOSE it : Iterates(p, q, base, seq, n, it)
  OBVIOUS
<1>2. Iterates(p, q, base, seq, n, iter)
  BY <1>1, IterExists
<1>3. Result(p, q, base, seq) = iter[1..n]
  BY <1>1 DEF Result, MapThenFoldSet, Iterates
<1>4. QED
  BY <1>2, <1>3

\* What holds at the start, and is kept by folding one more element, holds of
\* the fold of all.
THEOREM FoldKeeps ==
  ASSUME NEW about, NEW p, NEW q, NEW base, NEW seq, NEW n \in Nat, DOMAIN seq = 1..n,
         Inv(about, 0, base),
         \A k \in 1..n : \A acc :
           Inv(about, k - 1, acc) => Inv(about, k, Step(p, q, acc, seq[k]))
  PROVE  Inv(about, n, Result(p, q, base, seq))
<1>1. PICK iter : /\ Iterates(p, q, base, seq, n, iter)
                  /\ Result(p, q, base, seq) = iter[1..n]
  BY FoldIsIter
<1> DEFINE Q == {k \in 0..n : Inv(about, k, iter[1..k])}
<1>2. 0 \in Q
  <2>1. 1..0 = {} /\ 1..0 \in SUBSET (1..n)
    OBVIOUS
  <2>2. iter[1..0] = base
    BY <1>1, <2>1 DEF Iterates
  <2>3. QED
    BY <2>2
<1>3. ASSUME NEW k \in 0..(n - 1), k \in Q
      PROVE  k + 1 \in Q
  <2>1. 1..(k + 1) \in SUBSET (1..n) /\ 1..(k + 1) # {} /\ k + 1 \in 1..n
    <3> HIDE DEF Q
    <3>1. k \in Nat /\ k + 1 \in Nat /\ 1 <= k + 1 /\ k + 1 <= n
      OBVIOUS
    <3>2. QED
      BY <3>1
  <2>2. Highest(1..(k + 1)) = k + 1
    <3>1. k + 1 \in Nat /\ 1..(k + 1) \in SUBSET (1..(k + 1)) /\ k + 1 \in 1..(k + 1)
      OBVIOUS
    <3>2. QED
      BY <3>1, TopOf
  <2>3. (1..(k + 1)) \ {k + 1} = 1..k
    OBVIOUS
  <2>4. iter[1..(k + 1)] = Step(p, q, iter[1..k], seq[k + 1])
    BY <1>1, <2>1, <2>2, <2>3 DEF Iterates
  <2>5. Inv(about, k, iter[1..k]) /\ k + 1 - 1 = k
    BY <1>3
  <2>6. QED
    BY <2>1, <2>4, <2>5
<1>4. n \in Q
  <2> HIDE DEF Q
  <2>1. 0..n \subseteq Q
    BY <1>2, <1>3, CountingUp
  <2>2. QED
    BY <2>1
<1>5. QED
  BY <1>1, <1>4

=============================================================================
