----------------------------- MODULE FoldLemmas -----------------------------
(***************************************************************************)
(* What a loop over a sequence computes: lemmas about the folds with which *)
(* the models write the loops of the code, about sums over positions and   *)
(* about sets of positions listed in order.                                *)
(*                                                                         *)
(* The library states induction and the existence of recursive functions   *)
(* for an operator, which a proof cannot instantiate.  Here both are       *)
(* stated for sets: a set of naturals that is closed under successor, and  *)
(* a step that is a function on a set of states.                           *)
(***************************************************************************)
EXTENDS Integers, FiniteSets, SequencesExt, FiniteSetsExt, TLAPS,
        WellFoundedInduction, FiniteSetTheorems

---------------------------------------------------------------------------
\* Induction over the naturals, with a set where the library has a predicate.
LEMMA NatSet ==
  ASSUME NEW S, 0 \in S, \A n \in Nat : n \in S => n + 1 \in S
  PROVE  \A n \in Nat : n \in S
<1> DEFINE R == OpToRel(<, Nat)
           T == Nat \ S
<1>1. IsWellFoundedOn(R, Nat)
  BY NatLessThanWellFounded
<1>2. SUFFICES ASSUME T # {} PROVE FALSE
  OBVIOUS
<1>3. PICK x \in T : \A y \in T : ~(<<y, x>> \in R)
  <2> HIDE DEF R, T
  <2>1. T \subseteq Nat
    BY DEF T
  <2> QED
    BY <1>1, <1>2, <2>1, WFMin
<1>4. x \in Nat /\ x # 0
  BY <1>3
<1>5. x - 1 \in Nat /\ (x - 1) + 1 = x
  BY <1>4
<1>6. x - 1 \in T
  BY <1>3, <1>5
<1>7. <<x - 1, x>> \in R
  BY <1>4, <1>5 DEF OpToRel
<1> QED
  BY <1>3, <1>6, <1>7

\* A finite interval's non-empty subsets have a largest element.
LEMMA MaxOfSubset ==
  ASSUME NEW n \in Nat, NEW s \in SUBSET (1..n), s # {}
  PROVE  Max(s) \in s /\ \A y \in s : Max(s) >= y
<1> DEFINE P == {k \in Nat : \A t \in SUBSET (1..k) :
                   t # {} => \E x \in t : \A y \in t : x >= y}
<1>1. 0 \in P
  <2>1. \A t \in SUBSET (1..0) : t = {}
    OBVIOUS
  <2> QED
    BY <2>1
<1>2. ASSUME NEW k \in Nat, k \in P PROVE k + 1 \in P
  <2> SUFFICES ASSUME NEW t \in SUBSET (1..(k + 1)), t # {}
               PROVE  \E x \in t : \A y \in t : x >= y
    OBVIOUS
  <2>1. CASE k + 1 \in t
    BY <2>1
  <2>2. CASE k + 1 \notin t
    <3>1. t \in SUBSET (1..k)
      BY <2>2
    <3> QED
      BY <1>2, <3>1
  <2> QED
    BY <2>1, <2>2
<1> HIDE DEF P
<1>3. n \in P
  BY <1>1, <1>2, NatSet
<1>4. \E x \in s : \A y \in s : x >= y
  BY <1>3 DEF P
<1> QED
  BY <1>4 DEF Max

\* F is a fold with step g and base b over the subsets of 1..k: it takes the largest
\* position last.
IsFold(F, St, k, b, g) ==
  /\ F \in [SUBSET (1..k) -> St]
  /\ \A s \in SUBSET (1..k) : F[s] = IF s = {} THEN b ELSE g[Max(s), F[s \ {Max(s)}]]

\* A fold over the positions 1..n exists, when its step is a function on a set of states.
LEMMA FoldExists ==
  ASSUME NEW n \in Nat, NEW St, NEW b \in St, NEW g \in [(1..n) \X St -> St]
  PROVE  \E F : IsFold(F, St, n, b, g)
<1> DEFINE P == {k \in Nat : k <= n => \E F : IsFold(F, St, k, b, g)}
<1>1. 0 \in P
  <2>1. \A s \in SUBSET (1..0) : s = {}
    OBVIOUS
  <2>2. IsFold([s \in SUBSET (1..0) |-> b], St, 0, b, g)
    BY <2>1 DEF IsFold
  <2> QED
    BY <2>2
<1>2. ASSUME NEW k \in Nat, k \in P PROVE k + 1 \in P
  <2> SUFFICES ASSUME k + 1 <= n
               PROVE  \E F : IsFold(F, St, k + 1, b, g)
    OBVIOUS
  <2>1. PICK E : IsFold(E, St, k, b, g)
    BY <1>2
  <2> DEFINE F == [s \in SUBSET (1..(k + 1)) |->
                     IF k + 1 \in s THEN g[k + 1, E[s \ {k + 1}]] ELSE E[s]]
  <2>2. ASSUME NEW s \in SUBSET (1..(k + 1)), k + 1 \in s
        PROVE  Max(s) = k + 1 /\ s \ {k + 1} \in SUBSET (1..k)
               /\ F[s] = g[k + 1, E[s \ {k + 1}]] /\ F[s \ {k + 1}] = E[s \ {k + 1}]
    <3>1. Max(s) \in s /\ \A y \in s : Max(s) >= y
      BY <2>2, MaxOfSubset, k + 1 \in Nat
    <3>2. \A y \in s : y \in 1..(k + 1)
      OBVIOUS
    <3>3. Max(s) = k + 1
      <4>1. Max(s) \in 1..(k + 1) /\ Max(s) >= k + 1
        BY <2>2, <3>1, <3>2
      <4> QED
        BY <4>1
    <3>4. s \ {k + 1} \in SUBSET (1..k)
      BY <3>2
    <3>5. s \ {k + 1} \in SUBSET (1..(k + 1)) /\ k + 1 \notin s \ {k + 1}
      OBVIOUS
    <3> QED
      BY <2>2, <3>3, <3>4, <3>5
  <2>3. ASSUME NEW s \in SUBSET (1..(k + 1)), k + 1 \notin s
        PROVE  s \in SUBSET (1..k) /\ F[s] = E[s]
    BY <2>3
  <2>4. ASSUME NEW s \in SUBSET (1..k) PROVE F[s] = E[s]
    <3>1. \A y \in s : y \in 1..k
      OBVIOUS
    <3>2. s \in SUBSET (1..(k + 1)) /\ k + 1 \notin s
      BY <3>1
    <3> QED
      BY <2>3, <3>2
  <2>5. F \in [SUBSET (1..(k + 1)) -> St]
    <3> SUFFICES ASSUME NEW s \in SUBSET (1..(k + 1)) PROVE F[s] \in St
      OBVIOUS
    <3>1. CASE k + 1 \in s
      <4>1. E[s \ {k + 1}] \in St
        BY <2>1, <2>2, <3>1 DEF IsFold
      <4>2. k + 1 \in 1..n
        OBVIOUS
      <4> QED
        BY <2>2, <3>1, <4>1, <4>2
    <3>2. CASE k + 1 \notin s
      BY <2>1, <2>3, <3>2 DEF IsFold
    <3> QED
      BY <3>1, <3>2
  <2> HIDE DEF F
  <2>6. ASSUME NEW s \in SUBSET (1..(k + 1))
        PROVE  F[s] = IF s = {} THEN b ELSE g[Max(s), F[s \ {Max(s)}]]
    <3>1. CASE k + 1 \in s
      BY <2>2, <3>1
    <3>2. CASE k + 1 \notin s
      <4>1. s \in SUBSET (1..k) /\ s \ {Max(s)} \in SUBSET (1..k)
        BY <2>3, <3>2
      <4> QED
        BY <2>1, <2>4, <4>1 DEF IsFold
    <3> QED
      BY <3>1, <3>2
  <2>7. IsFold(F, St, k + 1, b, g)
    BY <2>5, <2>6 DEF IsFold
  <2> QED
    BY <2>7
<1> HIDE DEF P
<1>3. n \in P
  BY <1>1, <1>2, NatSet
<1> QED
  BY <1>3 DEF P

\* Every initial part of the positions ends with its largest.
LEMMA MaxOfInterval ==
  ASSUME NEW k \in Nat \ {0}
  PROVE  Max(1..k) = k /\ (1..k) \ {k} = 1..(k - 1)
<1>1. 1..k # {} /\ 1..k \in SUBSET (1..k)
  OBVIOUS
<1>2. Max(1..k) \in 1..k /\ \A y \in 1..k : Max(1..k) >= y
  BY <1>1, MaxOfSubset
<1>3. k \in 1..k
  OBVIOUS
<1>4. Max(1..k) >= k
  BY <1>2, <1>3
<1>5. Max(1..k) = k
  BY <1>2, <1>4
<1> QED
  BY <1>5

\* A function of position sets that starts with b and takes step g at the largest position.
Iterated(iter, St, n, b, g) ==
  /\ iter[{}] = b
  /\ \A s \in SUBSET (1..n) : s # {} /\ iter[s \ {Max(s)}] \in St =>
       iter[s] = g[Max(s), iter[s \ {Max(s)}]]

\* What a loop has found after each of its n steps, and what it has found at its end.
IsLoop(found, St, n, b, g, end) ==
  /\ found \in [0..n -> St] /\ found[0] = b /\ found[n] = end
  /\ \A k \in 1..n : found[k] = g[k, found[k - 1]]

\* A fold over the positions 1..n is a loop: from what it has found after k - 1 positions
\* it finds what it has found after k.
LEMMA FoldLoop ==
  ASSUME NEW n \in Nat, NEW St, NEW b \in St, NEW g \in [(1..n) \X St -> St],
         NEW iter, Iterated(iter, St, n, b, g)
  PROVE  \E found : IsLoop(found, St, n, b, g, iter[1..n])
<1> DEFINE P == {k \in Nat : k <= n => iter[1..k] \in St}
           found == [k \in 0..n |-> iter[1..k]]
<1>1. iter[1..0] = b
  <2>1. 1..0 = {}
    OBVIOUS
  <2> QED
    BY <2>1 DEF Iterated
<1>2. ASSUME NEW k \in 1..n, iter[1..(k - 1)] \in St
      PROVE  iter[1..k] \in St /\ iter[1..k] = g[k, iter[1..(k - 1)]]
  <2>1. k \in Nat \ {0} /\ 1..k \in SUBSET (1..n) /\ 1..k # {}
    OBVIOUS
  <2>2. Max(1..k) = k /\ (1..k) \ {k} = 1..(k - 1)
    BY <2>1, MaxOfInterval
  <2>3. iter[1..k] = g[k, iter[1..(k - 1)]]
    BY <1>2, <2>1, <2>2 DEF Iterated
  <2>4. <<k, iter[1..(k - 1)]>> \in (1..n) \X St
    BY <1>2
  <2> QED
    BY <2>3, <2>4
<1>3. 0 \in P
  BY <1>1
<1>4. ASSUME NEW k \in Nat, k \in P PROVE k + 1 \in P
  <2> SUFFICES ASSUME k + 1 <= n PROVE iter[1..(k + 1)] \in St
    OBVIOUS
  <2>1. k + 1 \in 1..n /\ iter[1..((k + 1) - 1)] \in St
    <3>1. (k + 1) - 1 = k /\ k <= n
      OBVIOUS
    <3> QED
      BY <1>4, <3>1
  <2> QED
    BY <1>2, <2>1
<1> HIDE DEF P
<1>5. \A k \in Nat : k \in P
  BY <1>3, <1>4, NatSet
<1>6. \A k \in 0..n : iter[1..k] \in St
  BY <1>5 DEF P
<1>7. found \in [0..n -> St] /\ found[0] = b /\ found[n] = iter[1..n]
  BY <1>1, <1>6
<1>8. ASSUME NEW k \in 1..n PROVE found[k] = g[k, found[k - 1]]
  <2>1. k - 1 \in 0..n /\ k \in 0..n
    OBVIOUS
  <2> QED
    BY <1>2, <1>6, <2>1
<1>9. IsLoop(found, St, n, b, g, iter[1..n])
  BY <1>7, <1>8 DEF IsLoop
<1> QED
  BY <1>9

\* joined holds, at each position, the sequences up to there joined one after the other.
IsJoined(joined, seqs, n) ==
  \A i \in 1..n : joined[i] = IF i = 1 THEN seqs[i] ELSE joined[i - 1] \o seqs[i]

\* FlattenSeq joins its sequences one after the other.
LEMMA FlattenedIsJoined ==
  ASSUME NEW n \in Nat, NEW St, NEW seqs \in [1..n -> Seq(St)]
  PROVE  \E joined : /\ IsJoined(joined, seqs, n)
                     /\ FlattenSeq(seqs) = IF n = 0 THEN <<>> ELSE joined[n]
<1> DEFINE Joins(f) == f = [i \in 1..Len(seqs) |->
                              IF i = 1 THEN seqs[i] ELSE f[i - 1] \o seqs[i]]
           joined == CHOOSE f : Joins(f)
           g == [x \in (1..n) \X Seq(St) |-> x[2] \o seqs[x[1]]]
<1>1. Len(seqs) = n /\ \A i \in 1..n : seqs[i] \in Seq(St)
  OBVIOUS
<1>2. FlattenSeq(seqs) = IF n = 0 THEN <<>> ELSE joined[n]
  BY <1>1 DEF FlattenSeq
<1>3. g \in [(1..n) \X Seq(St) -> Seq(St)]
  <2>1. \A x \in (1..n) \X Seq(St) : x[2] \o seqs[x[1]] \in Seq(St)
    <3> SUFFICES ASSUME NEW x \in (1..n) \X Seq(St) PROVE x[2] \o seqs[x[1]] \in Seq(St)
      OBVIOUS
    <3>1. x[2] \in Seq(St) /\ seqs[x[1]] \in Seq(St)
      BY <1>1
    <3> QED
      BY <3>1
  <2> QED
    BY <2>1
<1>4. ASSUME NEW k \in 1..n, NEW x \in Seq(St) PROVE g[k, x] = x \o seqs[k]
  OBVIOUS
<1> HIDE DEF g
<1>5. <<>> \in Seq(St)
  OBVIOUS
<1>6. PICK F : IsFold(F, Seq(St), n, <<>>, g)
  BY <1>3, <1>5, FoldExists
<1>7. \A k \in 0..n : F[1..k] \in Seq(St)
  <2>1. \A k \in 0..n : 1..k \in SUBSET (1..n)
    OBVIOUS
  <2> QED
    BY <1>6, <2>1 DEF IsFold
<1>8. ASSUME NEW k \in 1..n PROVE F[1..k] = F[1..(k - 1)] \o seqs[k]
  <2>1. k \in Nat \ {0} /\ k \in 0..n /\ k - 1 \in 0..n /\ k \in 1..k
    OBVIOUS
  <2>2. Max(1..k) = k /\ (1..k) \ {k} = 1..(k - 1) /\ 1..k # {}
    BY <2>1, MaxOfInterval
  <2>3. 1..k \in SUBSET (1..n)
    OBVIOUS
  <2>4. F[1..k] = g[k, F[1..(k - 1)]]
    BY <1>6, <2>1, <2>2, <2>3 DEF IsFold
  <2> QED
    BY <1>4, <1>7, <2>1, <2>4
<1>9. F[1..0] = <<>>
  <2>1. 1..0 = {} /\ {} \in SUBSET (1..n)
    OBVIOUS
  <2> QED
    BY <1>6, <2>1 DEF IsFold
<1> DEFINE h == [i \in 1..n |-> F[1..i]]
<1>10. ASSUME NEW i \in 1..n
       PROVE  h[i] = IF i = 1 THEN seqs[i] ELSE h[i - 1] \o seqs[i]
  <2>1. CASE i = 1
    <3>1. 1 \in 1..n /\ 1 - 1 = 0
      BY <2>1
    <3>2. F[1..1] = F[1..0] \o seqs[1]
      BY <1>8, <3>1
    <3>3. <<>> \o seqs[1] = seqs[1]
      BY <1>1, <3>1
    <3>4. h[1] = F[1..1]
      BY <3>1
    <3> QED
      BY <1>9, <2>1, <3>2, <3>3, <3>4
  <2>2. CASE i # 1
    <3>1. i - 1 \in 1..n
      BY <2>2
    <3> QED
      BY <1>8, <2>2, <3>1
  <2> QED
    BY <2>1, <2>2
<1>11. Joins(h)
  <2>1. h = [i \in 1..n |-> h[i]]
    OBVIOUS
  <2> HIDE DEF h
  <2> QED
    BY <1>1, <1>10, <2>1
<1>12. Joins(joined)
  BY <1>11
<1> HIDE DEF joined
<1>13. IsJoined(joined, seqs, n)
  BY <1>1, <1>12 DEF IsJoined
<1> QED
  BY <1>2, <1>13

---------------------------------------------------------------------------
\* W sums the sizes in w: what it gives for a set does not depend on an order.
Sums(W, n, w) ==
  /\ W \in [SUBSET (1..n) -> Nat] /\ W[{}] = 0
  /\ \A s \in SUBSET (1..n) : \A x \in s : W[s] = w[x] + W[s \ {x}]

\* There is such a sum.
LEMMA SumExists ==
  ASSUME NEW n \in Nat, NEW w \in [1..n -> Nat]
  PROVE  \E W : Sums(W, n, w)
<1> DEFINE P == {k \in Nat : k <= n => \E W : Sums(W, k, w)}
<1>1. 0 \in P
  <2>1. \A s \in SUBSET (1..0) : s = {}
    OBVIOUS
  <2>2. {} \in SUBSET (1..0)
    OBVIOUS
  <2>3. Sums([s \in SUBSET (1..0) |-> 0], 0, w)
    BY <2>1, <2>2 DEF Sums
  <2> QED
    BY <2>3
<1>2. ASSUME NEW k \in Nat, k \in P PROVE k + 1 \in P
  <2> SUFFICES ASSUME k + 1 <= n PROVE \E W : Sums(W, k + 1, w)
    OBVIOUS
  <2>1. PICK E : Sums(E, k, w)
    BY <1>2
  <2> DEFINE last == k + 1
             W == [s \in SUBSET (1..last) |->
                     IF last \in s THEN w[last] + E[s \ {last}] ELSE E[s]]
  <2>2. \A s \in SUBSET (1..last) : s \ {last} \in SUBSET (1..k)
    OBVIOUS
  <2>3. \A s \in SUBSET (1..last) : last \notin s => s \in SUBSET (1..k)
    OBVIOUS
  <2>4. \A s \in SUBSET (1..k) : E[s] \in Nat
    BY <2>1 DEF Sums
  <2>5. \A i \in 1..last : w[i] \in Nat
    OBVIOUS
  <2>6. last \in 1..last
    OBVIOUS
  <2>7. W \in [SUBSET (1..last) -> Nat]
    <3> SUFFICES ASSUME NEW s \in SUBSET (1..last) PROVE W[s] \in Nat
      OBVIOUS
    <3> HIDE DEF last
    <3> QED
      BY <2>2, <2>3, <2>4, <2>5, <2>6
  <2>8. W[{}] = 0
    BY <2>1 DEF Sums
  <2>9. \A s \in SUBSET (1..last) :
          W[s] = IF last \in s THEN w[last] + E[s \ {last}] ELSE E[s]
    OBVIOUS
  <2> HIDE DEF W, last
  <2>10. ASSUME NEW s \in SUBSET (1..last), NEW x \in s PROVE W[s] = w[x] + W[s \ {x}]
    <3>1. s \ {x} \in SUBSET (1..last) /\ x \in 1..last
      OBVIOUS
    <3>2. CASE last \notin s
      <4>1. E[s] = w[x] + E[s \ {x}]
        BY <2>1, <2>3, <3>2 DEF Sums
      <4> QED
        BY <2>9, <3>1, <3>2, <4>1
    <3>3. CASE x = last
      <4>1. last \notin s \ {x} /\ last \in s
        BY <3>3
      <4> QED
        BY <2>9, <3>1, <3>3, <4>1
    <3>4. CASE last \in s /\ x # last
      <4>1. x \in s \ {last} /\ last \in s \ {x} /\ (s \ {last}) \ {x} = (s \ {x}) \ {last}
        BY <3>4
      <4>2. E[s \ {last}] = w[x] + E[(s \ {x}) \ {last}]
        <5>1. s \ {last} \in SUBSET (1..k) /\ x \in s \ {last}
          BY <2>2, <4>1
        <5>2. E[s \ {last}] = w[x] + E[(s \ {last}) \ {x}]
          BY <2>1, <5>1 DEF Sums
        <5> QED
          BY <4>1, <5>2
      <4>3. W[s] = w[last] + E[s \ {last}] /\ W[s \ {x}] = w[last] + E[(s \ {x}) \ {last}]
        BY <2>9, <3>1, <3>4, <4>1
      <4>4. w[last] \in Nat /\ w[x] \in Nat /\ E[(s \ {x}) \ {last}] \in Nat
        BY <2>2, <2>4, <2>5, <2>6, <3>1
      <4> QED
        BY <4>2, <4>3, <4>4
    <3> QED
      BY <3>2, <3>3, <3>4
  <2>11. Sums(W, last, w)
    BY <2>7, <2>8, <2>10 DEF Sums
  <2> QED
    BY <2>11 DEF last
<1> HIDE DEF P
<1>3. n \in P
  BY <1>1, <1>2, NatSet
<1> QED
  BY <1>3 DEF P

---------------------------------------------------------------------------
\* c lists the m numbers of S in their order.
Lists(c, m, S) ==
  /\ m \in Nat /\ c \in [1..m -> S]
  /\ \A i, j \in 1..m : i < j => c[i] < c[j]
  /\ \A x \in S : \E i \in 1..m : c[i] = x

\* One more number at the end of a list.
LEMMA ListsOneMore ==
  ASSUME NEW c, NEW m, NEW S, NEW T, NEW x \in Nat, Lists(c, m, S), S \subseteq Nat,
         \A y \in S : y < x, T = S \cup {x}
  PROVE  /\ Lists([i \in 1..(m + 1) |-> IF i = m + 1 THEN x ELSE c[i]], m + 1, T)
<1> DEFINE d == [i \in 1..(m + 1) |-> IF i = m + 1 THEN x ELSE c[i]]
<1>1. m \in Nat /\ c \in [1..m -> S] /\ (\A i, j \in 1..m : i < j => c[i] < c[j])
      /\ \A y \in S : \E i \in 1..m : c[i] = y
  BY DEF Lists
<1>2. d[m + 1] = x /\ \A i \in 1..m : d[i] = c[i] /\ c[i] \in S /\ i \in 1..(m + 1)
  BY <1>1
<1>3. \A i \in 1..(m + 1) : i \in 1..m \/ i = m + 1
  BY <1>1
<1>4. m + 1 \in 1..(m + 1)
  BY <1>1
<1>5. d \in [1..(m + 1) -> T]
  BY <1>2, <1>3
<1> HIDE DEF d
<1>6. ASSUME NEW i \in 1..(m + 1), NEW j \in 1..(m + 1), i < j PROVE d[i] < d[j]
  <2>1. i \in 1..m
    BY <1>1, <1>6
  <2>2. CASE j \in 1..m
    BY <1>1, <1>2, <1>6, <2>1, <2>2
  <2>3. CASE j = m + 1
    BY <1>2, <2>1, <2>3
  <2> QED
    BY <1>3, <2>2, <2>3
<1>7. \A y \in T : \E i \in 1..(m + 1) : d[i] = y
  BY <1>1, <1>2, <1>4
<1>8. Lists(d, m + 1, T)
  BY <1>1, <1>5, <1>6, <1>7 DEF Lists
<1> QED
  BY <1>8 DEF d

\* An increasing function of 1..n into itself is the identity.
LEMMA IncreasingIsIdentity ==
  ASSUME NEW n \in Nat, NEW p \in [1..n -> 1..n], \A i, j \in 1..n : i < j => p[i] < p[j]
  PROVE  \A i \in 1..n : p[i] = i
<1> DEFINE P == {k \in Nat : k \in 1..n => p[k] >= k}
           Q == {k \in Nat : n - k \in 1..n => p[n - k] <= n - k}
<1>1. \A i \in 1..n : p[i] \in 1..n
  OBVIOUS
<1>2. 0 \in P
  OBVIOUS
<1>3. ASSUME NEW k \in Nat, k \in P PROVE k + 1 \in P
  <2> SUFFICES ASSUME k + 1 \in 1..n PROVE p[k + 1] >= k + 1
    OBVIOUS
  <2>1. CASE k = 0
    BY <1>1, <2>1
  <2>2. CASE k # 0
    <3>1. k \in 1..n /\ k < k + 1
      BY <2>2
    <3>2. p[k] >= k /\ p[k] < p[k + 1]
      BY <1>3, <3>1
    <3> QED
      BY <1>1, <3>1, <3>2
  <2> QED
    BY <2>1, <2>2
<1>4. 0 \in Q
  BY <1>1
<1>5. ASSUME NEW k \in Nat, k \in Q PROVE k + 1 \in Q
  <2> SUFFICES ASSUME n - (k + 1) \in 1..n PROVE p[n - (k + 1)] <= n - (k + 1)
    OBVIOUS
  <2>1. n - k \in 1..n /\ n - (k + 1) < n - k
    OBVIOUS
  <2>2. p[n - k] <= n - k /\ p[n - (k + 1)] < p[n - k]
    BY <1>5, <2>1
  <2> QED
    BY <1>1, <2>1, <2>2
<1> HIDE DEF P, Q
<1>6. (\A k \in Nat : k \in P) /\ (\A k \in Nat : k \in Q)
  BY <1>2, <1>3, <1>4, <1>5, NatSet
<1>7. ASSUME NEW i \in 1..n PROVE p[i] = i
  <2>1. i \in Nat /\ n - i \in Nat /\ n - (n - i) = i
    OBVIOUS
  <2>2. p[i] >= i
    BY <1>6, <2>1 DEF P
  <2>3. p[i] <= i
    BY <1>6, <2>1 DEF Q
  <2> QED
    BY <1>1, <2>2, <2>3
<1> QED
  BY <1>7

\* A list is as long as its set is large.
LEMMA ListsCardinality ==
  ASSUME NEW c, NEW m, NEW S, Lists(c, m, S), S \subseteq Nat
  PROVE  IsFiniteSet(S) /\ Cardinality(S) = m
<1>1. m \in Nat /\ c \in [1..m -> S] /\ (\A i, j \in 1..m : i < j => c[i] < c[j])
      /\ \A x \in S : \E i \in 1..m : c[i] = x
  BY DEF Lists
<1>2. \A i, j \in 1..m : c[i] = c[j] => i = j
  <2> SUFFICES ASSUME NEW i \in 1..m, NEW j \in 1..m, c[i] = c[j] PROVE i = j
    OBVIOUS
  <2>1. c[i] \in Nat /\ c[j] \in Nat
    BY <1>1
  <2> QED
    BY <1>1, <2>1
<1>3. c \in Bijection(1..m, S)
  BY <1>1, <1>2 DEF Bijection, Injection, Surjection, IsInjective
<1>4. ExistsBijection(1..m, S)
  BY <1>3 DEF ExistsBijection
<1> QED
  BY <1>1, <1>4, FS_CountingElements, FS_NatBijection

\* There is one list of a set.
LEMMA ListsOnce ==
  ASSUME NEW c, NEW m, NEW S, Lists(c, m, S), S \subseteq Nat,
         NEW f \in [1..m -> S], \A i, j \in 1..m : i < j => f[i] < f[j]
  PROVE  f = c
<1>1. m \in Nat /\ c \in [1..m -> S] /\ (\A i, j \in 1..m : i < j => c[i] < c[j])
      /\ \A x \in S : \E i \in 1..m : c[i] = x
  BY DEF Lists
<1> DEFINE p == [i \in 1..m |-> CHOOSE a \in 1..m : c[a] = f[i]]
<1>2. \A i \in 1..m : p[i] \in 1..m /\ c[p[i]] = f[i]
  BY <1>1
<1>3. p \in [1..m -> 1..m]
  BY <1>2
<1> HIDE DEF p
<1>4. ASSUME NEW i \in 1..m, NEW j \in 1..m, i < j PROVE p[i] < p[j]
  <2>1. c[p[i]] < c[p[j]] /\ c[p[i]] \in Nat /\ c[p[j]] \in Nat
    BY <1>1, <1>2, <1>4
  <2>2. p[j] < p[i] => c[p[j]] < c[p[i]]
    BY <1>1, <1>2
  <2>3. p[i] # p[j] /\ ~(p[j] < p[i])
    BY <2>1, <2>2
  <2> QED
    BY <1>2, <2>3
<1>5. \A i \in 1..m : p[i] = i
  BY <1>1, <1>3, <1>4, IncreasingIsIdentity
<1> QED
  BY <1>1, <1>2, <1>5

From(c, a, n) == {c[b] : b \in a..n}

\* The end of a list, from position a on.
LEMMA ListsEnd ==
  ASSUME NEW c, NEW n, NEW S, Lists(c, n, S), NEW a \in 1..(n + 1)
  PROVE  Lists([i \in 1..(n - a + 1) |-> c[a - 1 + i]], n - a + 1, From(c, a, n))
<1>1. n \in Nat /\ c \in [1..n -> S] /\ (\A i, j \in 1..n : i < j => c[i] < c[j])
  BY DEF Lists
<1> DEFINE d == [i \in 1..(n - a + 1) |-> c[a - 1 + i]]
           E == From(c, a, n)
<1>2. a \in Nat /\ n - a + 1 \in Nat
  BY <1>1
<1>3. \A i \in 1..(n - a + 1) : a - 1 + i \in a..n /\ a - 1 + i \in 1..n /\ d[i] = c[a - 1 + i]
  BY <1>1, <1>2
<1>4. d \in [1..(n - a + 1) -> E]
  BY <1>3 DEF From
<1>5. ASSUME NEW b \in a..n PROVE \E i \in 1..(n - a + 1) : d[i] = c[b]
  <2>1. b - a + 1 \in 1..(n - a + 1) /\ a - 1 + (b - a + 1) = b
    BY <1>1, <1>2
  <2> QED
    BY <1>3, <2>1
<1>6. \A i, j \in 1..(n - a + 1) : i < j => a - 1 + i < a - 1 + j
  BY <1>1, <1>2
<1>7. \A i, j \in 1..(n - a + 1) : i < j => d[i] < d[j]
  BY <1>1, <1>3, <1>6
<1> HIDE DEF d
<1>8. Lists(d, n - a + 1, E)
  BY <1>2, <1>4, <1>5, <1>7 DEF Lists, From
<1> QED
  BY <1>8 DEF d

\* The positions from place a of a list on are the list's numbers from c[a] on.
LEMMA NewerAre ==
  ASSUME NEW c, NEW n, NEW S, Lists(c, n, S), S \subseteq Nat, NEW a \in 1..n
  PROVE  /\ \A k \in S : k >= c[a] <=> k \in From(c, a, n)
         /\ From(c, a, n) \ {c[a]} = From(c, a + 1, n) /\ c[a] \in From(c, a, n)
<1>1. n \in Nat /\ c \in [1..n -> S] /\ (\A i, j \in 1..n : i < j => c[i] < c[j])
      /\ \A x \in S : \E i \in 1..n : c[i] = x
  BY DEF Lists
<1>2. a \in Nat /\ a..n \subseteq 1..n /\ \A b \in 1..n : c[b] \in S /\ c[b] \in Nat
  <2>1. a \in Nat /\ a..n \subseteq 1..n
    BY <1>1
  <2> QED
    BY <1>1, <2>1
<1>3. ASSUME NEW b \in 1..n PROVE c[b] >= c[a] <=> b \in a..n
  <2>1. CASE b < a
    BY <1>1, <1>2, <2>1
  <2>2. CASE b = a
    BY <1>2, <2>2
  <2>3. CASE a < b
    BY <1>1, <1>2, <2>3
  <2> QED
    BY <1>1, <1>2, <2>1, <2>2, <2>3
<1>4. \A k \in S : k >= c[a] <=> k \in From(c, a, n)
  BY <1>1, <1>2, <1>3 DEF From
<1>5. \A b \in a..n : c[b] # c[a] <=> b \in (a + 1)..n
  <2> SUFFICES ASSUME NEW b \in a..n PROVE c[b] # c[a] <=> b \in (a + 1)..n
    OBVIOUS
  <2>1. a < b => c[a] < c[b]
    BY <1>1, <1>2
  <2> QED
    BY <1>1, <1>2, <2>1
<1>6. \A b \in (a + 1)..n : b \in a..n
  BY <1>1, <1>2
<1> QED
  BY <1>2, <1>4, <1>5, <1>6 DEF From

=============================================================================
