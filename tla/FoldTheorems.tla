---------------------------- MODULE FoldTheorems -----------------------------
(***************************************************************************)
(* Induction and recursion over the naturals, stated of sets and functions *)
(* so that they can be used without operator parameters: a property of all *)
(* n is the set of those n that have it, and the step of an iteration is a *)
(* function.  The lemmas say that an iteration exists, and that what a     *)
(* fold or a selection of the library computes over 1..n is that iteration.*)
(***************************************************************************)
EXTENDS Selection, TLAPS, WellFoundedInduction

\* A set of naturals that is not empty has a least member.
LEMMA LeastMember ==
  ASSUME NEW T \in SUBSET Nat, T # {}
  PROVE  \E x \in T : \A y \in T : x <= y
  <1> DEFINE R == OpToRel(<, Nat)
  <1>1. IsWellFoundedOn(R, Nat)
    BY NatLessThanWellFounded
  <1>2. \A x, y \in Nat : <<y, x>> \in R <=> y < x
    BY DEF OpToRel
  <1> HIDE DEF R
  <1>3. PICK x \in T : \A y \in T : ~(<<y, x>> \in R)
    BY <1>1, WFMin
  <1>4. \A y \in T : ~(y < x) /\ y \in Nat /\ x \in Nat
    BY <1>2, <1>3
  <1> QED
    BY <1>3, <1>4

\* Induction: a set that has zero and the successor of each of its members.
LEMMA SetInduction ==
  ASSUME NEW T, 0 \in T, \A n \in Nat : n \in T => n + 1 \in T
  PROVE  Nat \subseteq T
  <1> DEFINE U == Nat \ T
  <1>1. ASSUME U # {} PROVE FALSE
    <2>1. PICK x \in U : \A y \in U : x <= y
      BY <1>1, LeastMember
    <2>2. x # 0 /\ x - 1 \in Nat /\ x - 1 \notin U
      BY <2>1
    <2> QED
      BY <2>2
  <1> QED
    BY <1>1

\* Induction up to a bound.
LEMMA BoundedInduction ==
  ASSUME NEW n \in Nat, NEW T, 0 \in T, \A i \in 0..(n - 1) : i \in T => i + 1 \in T
  PROVE  0..n \subseteq T
  <1> DEFINE U == {i \in Nat : i <= n => i \in T}
  <1>1. 0 \in U
    OBVIOUS
  <1>2. ASSUME NEW i \in Nat, i \in U PROVE i + 1 \in U
    BY <1>2
  <1> HIDE DEF U
  <1>3. Nat \subseteq U
    BY <1>1, <1>2, SetInduction
  <1> QED
    BY <1>3 DEF U

IsIteration(r, n, b, step) ==
  r[0] = b /\ \A i \in 1..n : r[i] = step[<<r[i - 1], i>>]

\* A step function can be iterated n times.
LEMMA IterationExists ==
  ASSUME NEW n \in Nat, NEW V, NEW b \in V, NEW step \in [V \X (1..n) -> V]
  PROVE  \E r \in [0..n -> V] : IsIteration(r, n, b, step)
  <1> DEFINE T == {m \in 0..n : \E r \in [0..m -> V] : IsIteration(r, m, b, step)}
  <1>1. 0 \in T
    <2>1. [i \in 0..0 |-> b] \in [0..0 -> V]
      OBVIOUS
    <2>2. IsIteration([i \in 0..0 |-> b], 0, b, step)
      BY DEF IsIteration
    <2> QED
      BY <2>1, <2>2
  <1>2. ASSUME NEW m \in 0..(n - 1), m \in T PROVE m + 1 \in T
    <2>1. PICK r \in [0..m -> V] : IsIteration(r, m, b, step)
      BY <1>2
    <2> DEFINE next == step[<<r[m], m + 1>>]
               q == [i \in 0..(m + 1) |-> IF i = m + 1 THEN next ELSE r[i]]
    <2>2. next \in V
      BY <2>1
    <2>3. q \in [0..(m + 1) -> V]
      BY <2>1, <2>2
    <2>4. q[0] = b
      BY <2>1 DEF IsIteration
    <2>5. ASSUME NEW i \in 1..(m + 1) PROVE q[i] = step[<<q[i - 1], i>>]
      <3>1. i - 1 \in 0..m /\ i - 1 # m + 1 /\ q[i - 1] = r[i - 1]
        OBVIOUS
      <3>2. CASE i = m + 1
        <4>1. i - 1 = m /\ q[i] = next
          BY <3>2
        <4>2. q[i - 1] = r[m]
          BY <3>1, <4>1
        <4> HIDE DEF q
        <4> QED
          BY <3>2, <4>1, <4>2
      <3>3. CASE i # m + 1
        <4>1. i \in 1..m /\ q[i] = r[i]
          BY <3>3
        <4>2. r[i] = step[<<r[i - 1], i>>]
          BY <2>1, <4>1 DEF IsIteration
        <4> QED
          BY <3>1, <4>1, <4>2
      <3> QED
        BY <3>2, <3>3
    <2> HIDE DEF q
    <2>6. IsIteration(q, m + 1, b, step)
      BY <2>4, <2>5 DEF IsIteration
    <2> QED
      BY <2>3, <2>6
  <1> HIDE DEF T
  <1>3. 0..n \subseteq T
    BY <1>1, <1>2, BoundedInduction
  <1>4. n \in T
    BY <1>3
  <1> QED
    BY <1>4 DEF T

\* It can be iterated in one way only.
LEMMA IterationUnique ==
  ASSUME NEW n \in Nat, NEW b, NEW step, NEW q, NEW r,
         IsIteration(q, n, b, step), IsIteration(r, n, b, step)
  PROVE  \A i \in 0..n : q[i] = r[i]
  <1> DEFINE T == {i \in 0..n : q[i] = r[i]}
  <1>1. 0 \in T
    BY DEF IsIteration
  <1>2. ASSUME NEW i \in 0..(n - 1), i \in T PROVE i + 1 \in T
    <2>1. i + 1 \in 1..n /\ (i + 1) - 1 = i /\ i + 1 \in 0..n
      OBVIOUS
    <2>2. q[i + 1] = step[<<q[i], i + 1>>] /\ r[i + 1] = step[<<r[i], i + 1>>]
      BY <2>1 DEF IsIteration
    <2> QED
      BY <1>2, <2>1, <2>2
  <1> HIDE DEF T
  <1>3. 0..n \subseteq T
    BY <1>1, <1>2, BoundedInduction
  <1> QED
    BY <1>3 DEF T

-----------------------------------------------------------------------------
(* What MapThenFoldSet of the library computes.  A fold to the left over    *)
(* 1..n takes the greatest index off the set it still has to fold.         *)

MaxOf(t) == CHOOSE x \in t : \A y \in t : x >= y

\* The greatest member of a set of numbers from 1 to n.
LEMMA MaxOfSet ==
  ASSUME NEW n \in Nat, NEW t \in SUBSET (1..n), t # {}
  PROVE  /\ MaxOf(t) \in t /\ MaxOf(t) \in 1..n
         /\ \A y \in t : y <= MaxOf(t)
  <1> DEFINE T == {n - y : y \in t}
  <1>1. T \in SUBSET Nat /\ T # {}
    <2>1. \A y \in t : y \in 1..n
      OBVIOUS
    <2>2. \A y \in 1..n : n - y \in Nat
      OBVIOUS
    <2> QED
      BY <2>1, <2>2
  <1>2. PICK z \in T : \A y \in T : z <= y
    BY <1>1, LeastMember
  <1>3. PICK x \in t : z = n - x
    BY <1>2
  <1>4. \A y \in t : x >= y
    <2> SUFFICES ASSUME NEW y \in t PROVE x >= y
      OBVIOUS
    <2>1. n - x <= n - y
      BY <1>2, <1>3
    <2>2. x \in Int /\ y \in Int
      OBVIOUS
    <2> QED
      BY <2>1, <2>2
  <1>5. MaxOf(t) \in t /\ \A y \in t : MaxOf(t) >= y
    BY <1>3, <1>4 DEF MaxOf
  <1> QED
    BY <1>5

\* What a fold over 1..k takes off first is k, and 1..(k - 1) is left.
LEMMA MaxOfRange ==
  ASSUME NEW n \in Nat, NEW k \in 1..n
  PROVE  /\ 1..k \in SUBSET (1..n) /\ 1..(k - 1) \in SUBSET (1..n) /\ 1..k # {}
         /\ MaxOf(1..k) = k /\ (1..k) \ {k} = 1..(k - 1)
  <1>1. 1..k \in SUBSET (1..n) /\ 1..(k - 1) \in SUBSET (1..n) /\ 1..k # {} /\ k \in 1..k
    OBVIOUS
  <1>2. MaxOf(1..k) \in 1..k /\ k <= MaxOf(1..k)
    BY <1>1, MaxOfSet
  <1> QED
    BY <1>1, <1>2

\* The function a left fold is the value of, for a step given as a function.
IsFold(g, n, b, step) ==
  g = [t \in SUBSET (1..n) |->
         IF t = {} THEN b ELSE step[<<g[t \ {MaxOf(t)}], MaxOf(t)>>]]

\* Every step function has a fold.
LEMMA FoldExists ==
  ASSUME NEW n \in Nat, NEW V, NEW b \in V, NEW step \in [V \X (1..n) -> V]
  PROVE  \E g \in [SUBSET (1..n) -> V] : IsFold(g, n, b, step)
  <1> DEFINE Masked(t) == [p \in V \X (1..n) |-> IF p[2] \in t THEN step[p] ELSE p[1]]
             Run(t) == CHOOSE r \in [0..n -> V] : IsIteration(r, n, b, Masked(t))
             g == [t \in SUBSET (1..n) |-> Run(t)[n]]
  <1>1. ASSUME NEW t \in SUBSET (1..n)
        PROVE  /\ Run(t) \in [0..n -> V] /\ Run(t)[0] = b
               /\ \A i \in 1..n : i \in t => Run(t)[i] = step[<<Run(t)[i - 1], i>>]
               /\ \A i \in 1..n : i \notin t => Run(t)[i] = Run(t)[i - 1]
    <2>1. Masked(t) \in [V \X (1..n) -> V]
      OBVIOUS
    <2> HIDE DEF Masked
    <2>2. \E r \in [0..n -> V] : IsIteration(r, n, b, Masked(t))
      BY <2>1, IterationExists
    <2>3. Run(t) \in [0..n -> V] /\ IsIteration(Run(t), n, b, Masked(t))
      BY <2>2
    <2> HIDE DEF Run
    <2>4. ASSUME NEW i \in 1..n
          PROVE  Masked(t)[<<Run(t)[i - 1], i>>]
                   = IF i \in t THEN step[<<Run(t)[i - 1], i>>] ELSE Run(t)[i - 1]
      <3>1. <<Run(t)[i - 1], i>> \in V \X (1..n)
        BY <2>3
      <3> QED
        BY <3>1 DEF Masked
    <2> QED
      BY <2>3, <2>4 DEF IsIteration
  <1> HIDE DEF Run
  \* Nothing happens beyond the greatest index, nor where two sets agree.
  <1>2. ASSUME NEW t \in SUBSET (1..n), NEW m \in 0..n, \A i \in t : i <= m
        PROVE  Run(t)[n] = Run(t)[m]
    <2> DEFINE T == {d \in 0..(n - m) : Run(t)[m + d] = Run(t)[m]}
    <2>1. 0 \in T
      OBVIOUS
    <2>2. ASSUME NEW d \in 0..((n - m) - 1), d \in T PROVE d + 1 \in T
      <3>1. m + d + 1 \in 1..n /\ m + d + 1 \notin t /\ (m + d + 1) - 1 = m + d
        BY <1>2
      <3>2. Run(t)[m + d + 1] = Run(t)[m + d]
        BY <1>1, <3>1
      <3> QED
        BY <2>2, <3>2
    <2> HIDE DEF T
    <2>3. 0..(n - m) \subseteq T
      BY <2>1, <2>2, BoundedInduction
    <2>4. n - m \in T
      BY <2>3
    <2> QED
      BY <2>4 DEF T
  <1>3. ASSUME NEW t \in SUBSET (1..n), NEW u \in SUBSET (1..n), NEW m \in 0..n,
               \A i \in 1..m : i \in t <=> i \in u
        PROVE  Run(t)[m] = Run(u)[m]
    <2> DEFINE T == {i \in 0..m : Run(t)[i] = Run(u)[i]}
    <2>1. 0 \in T
      BY <1>1
    <2>2. ASSUME NEW i \in 0..(m - 1), i \in T PROVE i + 1 \in T
      <3>1. i + 1 \in 1..m /\ i + 1 \in 1..n /\ (i + 1) - 1 = i /\ i + 1 \in 0..m
        OBVIOUS
      <3>2. CASE i + 1 \in t
        <4>1. Run(t)[i + 1] = step[<<Run(t)[i], i + 1>>]
          BY <1>1, <3>1, <3>2
        <4>2. Run(u)[i + 1] = step[<<Run(u)[i], i + 1>>]
          BY <1>1, <1>3, <3>1, <3>2
        <4> QED
          BY <2>2, <3>1, <4>1, <4>2
      <3>3. CASE i + 1 \notin t
        BY <1>1, <1>3, <2>2, <3>1, <3>3
      <3> QED
        BY <3>2, <3>3
    <2> HIDE DEF T
    <2>3. 0..m \subseteq T
      BY <2>1, <2>2, BoundedInduction
    <2> QED
      BY <2>3 DEF T
  <1>4. g \in [SUBSET (1..n) -> V]
    BY <1>1
  <1>5. ASSUME NEW t \in SUBSET (1..n)
        PROVE  g[t] = IF t = {} THEN b ELSE step[<<g[t \ {MaxOf(t)}], MaxOf(t)>>]
    <2>1. CASE t = {}
      <3>1. Run(t)[n] = Run(t)[0]
        BY <1>2, <2>1
      <3> QED
        BY <1>1, <2>1, <3>1
    <2>2. CASE t # {}
      <3> DEFINE m == MaxOf(t)
                 u == t \ {m}
      <3>1. m \in t /\ m \in 1..n /\ (\A y \in t : y <= m) /\ u \in SUBSET (1..n)
        BY <2>2, MaxOfSet
      <3> HIDE DEF m
      <3>2. \A y \in u : y <= m - 1
        BY <3>1
      <3>3. m \in 0..n /\ m - 1 \in 0..n
        BY <3>1
      <3>4. Run(t)[n] = Run(t)[m] /\ Run(u)[n] = Run(u)[m - 1]
        BY <1>2, <3>1, <3>2, <3>3
      <3>5. \A i \in 1..(m - 1) : i \in t <=> i \in u
        BY <3>1
      <3> HIDE DEF u
      <3>6. Run(t)[m - 1] = Run(u)[m - 1]
        BY <1>3, <3>1, <3>3, <3>5
      <3>7. Run(t)[m] = step[<<Run(t)[m - 1], m>>]
        BY <1>1, <3>1
      <3>8. g[t] = Run(t)[n] /\ g[u] = Run(u)[n]
        BY <3>1
      <3> HIDE DEF g
      <3> QED
        BY <2>2, <3>4, <3>6, <3>7, <3>8 DEF m, u
    <2> QED
      BY <2>1, <2>2
  <1> HIDE DEF g
  <1>6. IsFold(g, n, b, step)
    <2> DEFINE rhs == [t \in SUBSET (1..n) |->
                         IF t = {} THEN b ELSE step[<<g[t \ {MaxOf(t)}], MaxOf(t)>>]]
    <2>1. DOMAIN g = SUBSET (1..n) /\ g = [t \in DOMAIN g |-> g[t]]
      BY <1>4
    <2>2. \A t \in SUBSET (1..n) : g[t] = rhs[t]
      BY <1>5
    <2>3. g = rhs
      BY <2>1, <2>2
    <2> QED
      BY <2>3 DEF IsFold
  <1> QED
    BY <1>4, <1>6

-----------------------------------------------------------------------------
(* The members of a set in a sequence, in their order.                      *)

IsSelection(r, s, A, S) ==
  /\ r \in [0..Len(s) -> Seq(A)]
  /\ r[0] = <<>> /\ r[Len(s)] = Select(s, S)
  /\ \A i \in 1..Len(s) : r[i] = IF s[i] \in S THEN Append(r[i - 1], s[i]) ELSE r[i - 1]

\* A selection is computed element by element, from the left.
LEMMA SelectRuns ==
  ASSUME NEW A, NEW s \in Seq(A), NEW S
  PROVE  \E r : IsSelection(r, s, A, S)
  <1> DEFINE n == Len(s)
             step == [p \in Seq(A) \X (1..n) |->
                        IF s[p[2]] \in S THEN Append(p[1], s[p[2]]) ELSE p[1]]
             Is(r) == r = [i \in 0..n |->
                             IF i = 0 THEN <<>>
                             ELSE IF s[i] \in S THEN Append(r[i - 1], s[i]) ELSE r[i - 1]]
             kept == CHOOSE r : Is(r)
  <1>1. n \in Nat /\ <<>> \in Seq(A) /\ \A i \in 1..n : s[i] \in A
    OBVIOUS
  <1>2. \A v \in Seq(A), i \in 1..n :
          /\ step[<<v, i>>] \in Seq(A)
          /\ step[<<v, i>>] = IF s[i] \in S THEN Append(v, s[i]) ELSE v
    BY <1>1
  <1>3. step \in [Seq(A) \X (1..n) -> Seq(A)]
    BY <1>1
  <1>4. PICK r \in [0..n -> Seq(A)] : IsIteration(r, n, <<>>, step)
    <2> HIDE DEF n, step
    <2> QED
      BY <1>1, <1>3, IterationExists
  <1>5. \A i \in 1..n : r[i] = IF s[i] \in S THEN Append(r[i - 1], s[i]) ELSE r[i - 1]
    <2> SUFFICES ASSUME NEW i \in 1..n
                 PROVE  r[i] = IF s[i] \in S THEN Append(r[i - 1], s[i]) ELSE r[i - 1]
      OBVIOUS
    <2>1. r[i] = step[<<r[i - 1], i>>]
      BY <1>4 DEF IsIteration
    <2>2. i - 1 \in 0..n
      BY <1>1
    <2>3. r[i - 1] \in Seq(A)
      BY <1>4, <2>2
    <2> HIDE DEF step, n
    <2> QED
      BY <1>2, <2>1, <2>3
  <1>6. Is(r)
    <2>1. r[0] = <<>>
      BY <1>4 DEF IsIteration
    <2> HIDE DEF n, step
    <2>2. \A i \in 0..n : i = 0 \/ i \in 1..n
      BY <1>1
    <2>3. \A i \in 0..n :
            r[i] = IF i = 0 THEN <<>>
                   ELSE IF s[i] \in S THEN Append(r[i - 1], s[i]) ELSE r[i - 1]
      BY <1>5, <2>1, <2>2
    <2>4. r = [i \in 0..n |-> r[i]]
      BY <1>4
    <2> QED
      BY <2>3, <2>4
  <1>7. Is(kept)
    BY <1>6
  <1>8. Select(s, S) = kept[n]
    BY DEF Select
  <1> HIDE DEF kept, step
  <1>9. \A i \in 0..n : kept[i] = r[i]
    <2> DEFINE T == {i \in 0..n : kept[i] = r[i]}
    <2>1. 0 \in T
      BY <1>1, <1>6, <1>7
    <2>2. ASSUME NEW i \in 0..(n - 1), i \in T PROVE i + 1 \in T
      <3>1. i + 1 \in 1..n /\ (i + 1) - 1 = i /\ i + 1 \in 0..n /\ i + 1 # 0
        BY <1>1
      <3>2. kept[i + 1] = IF s[i + 1] \in S THEN Append(kept[i], s[i + 1]) ELSE kept[i]
        BY <1>7, <3>1
      <3>3. r[i + 1] = IF s[i + 1] \in S THEN Append(r[i], s[i + 1]) ELSE r[i]
        BY <1>5, <3>1
      <3> QED
        BY <2>2, <3>1, <3>2, <3>3
    <2> HIDE DEF T
    <2>3. 0..n \subseteq T
      BY <1>1, <2>1, <2>2, BoundedInduction
    <2> QED
      BY <2>3 DEF T
  <1>10. r[0] = <<>> /\ r[n] = Select(s, S)
    BY <1>1, <1>4, <1>8, <1>9 DEF IsIteration
  <1>11. IsSelection(r, s, A, S)
    BY <1>4, <1>5, <1>10 DEF IsSelection
  <1> QED
    BY <1>11

\* Nothing is selected from nothing.
LEMMA SelectEmpty == ASSUME NEW S PROVE Select(<<>>, S) = <<>>
  <1> DEFINE Is(r) == r = [i \in 0..Len(<<>>) |->
                             IF i = 0 THEN <<>>
                             ELSE IF <<>>[i] \in S THEN Append(r[i - 1], <<>>[i]) ELSE r[i - 1]]
             kept == CHOOSE r : Is(r)
  <1>1. Is([i \in 0..0 |-> <<>>])
    OBVIOUS
  <1>2. Is(kept)
    BY <1>1
  <1>3. kept[Len(<<>>)] = <<>>
    BY <1>2
  <1> QED
    BY <1>3 DEF Select

\* Two runs that agree on the elements agree on the results.
LEMMA SelectPrefix ==
  ASSUME NEW A, NEW s \in Seq(A), NEW t \in Seq(A), NEW S, NEW U, Len(s) <= Len(t),
         \A i \in 1..Len(s) : s[i] = t[i] /\ (s[i] \in S <=> t[i] \in U),
         \A i \in 1..Len(t) : i > Len(s) => t[i] \notin U
  PROVE  Select(s, S) = Select(t, U)
  <1>1. PICK q : IsSelection(q, s, A, S)
    BY SelectRuns
  <1>2. PICK r : IsSelection(r, t, A, U)
    BY SelectRuns
  <1> DEFINE m == Len(s)
             n == Len(t)
             T == {i \in 0..n : r[i] = q[IF i <= m THEN i ELSE m]}
  <1>3. m \in Nat /\ n \in Nat /\ m <= n
    OBVIOUS
  <1>4. 0 \in T
    BY <1>1, <1>2 DEF IsSelection
  <1>5. ASSUME NEW i \in 0..(n - 1), i \in T PROVE i + 1 \in T
    <2> HIDE DEF T, n, m
    <2>1. i + 1 \in 1..n /\ (i + 1) - 1 = i /\ i + 1 \in 0..n
      BY <1>3
    <2> USE DEF T, n, m
    <2>2. r[i + 1] = IF t[i + 1] \in U THEN Append(r[i], t[i + 1]) ELSE r[i]
      BY <1>2, <2>1 DEF IsSelection
    <2>3. CASE i + 1 <= m
      <3>1. i + 1 \in 1..m /\ r[i] = q[i]
        BY <1>5, <2>1, <2>3
      <3>2. q[i + 1] = IF s[i + 1] \in S THEN Append(q[i], s[i + 1]) ELSE q[i]
        BY <1>1, <2>1, <3>1 DEF IsSelection
      <3>3. r[i + 1] = q[i + 1]
        BY <2>2, <3>1, <3>2
      <3> QED
        BY <2>1, <2>3, <3>3
    <2>4. CASE ~(i + 1 <= m)
      <3>1. i + 1 \in 1..Len(t) /\ i + 1 > Len(s)
        BY <2>1, <2>4
      <3>2. r[i + 1] = r[i]
        BY <2>2, <3>1
      <3>3. r[i] = q[m]
        <4>1. r[i] = q[IF i <= m THEN i ELSE m]
          BY <1>5
        <4>2. i >= m /\ i \in Nat
          BY <1>3, <2>4
        <4>3. i = m \/ ~(i <= m)
          BY <1>3, <4>2
        <4> QED
          BY <4>1, <4>3
      <3> QED
        BY <2>1, <2>4, <3>2, <3>3
    <2> QED
      BY <2>3, <2>4
  <1> HIDE DEF T
  <1>6. 0..n \subseteq T
    BY <1>3, <1>4, <1>5, BoundedInduction
  <1>7. n \in T
    BY <1>3, <1>6
  <1>8. r[n] = q[m]
    <2>1. r[n] = q[IF n <= m THEN n ELSE m]
      BY <1>7 DEF T
    <2>2. n = m \/ ~(n <= m)
      BY <1>3
    <2> QED
      BY <2>1, <2>2
  <1> QED
    BY <1>1, <1>2, <1>8 DEF IsSelection

\* One more element is selected or not, and changes nothing before it.
LEMMA SelectAppend ==
  ASSUME NEW A, NEW s \in Seq(A), NEW e \in A, NEW S
  PROVE  Select(Append(s, e), S) = IF e \in S THEN Append(Select(s, S), e) ELSE Select(s, S)
  <1> DEFINE n == Len(s)
  <1>0. PICK t : t = Append(s, e)
    OBVIOUS
  <1>1. /\ n \in Nat /\ t \in Seq(A) /\ Len(t) = n + 1 /\ t[n + 1] = e
        /\ \A i \in 1..n : t[i] = s[i]
    BY <1>0
  <1>2. PICK r : IsSelection(r, t, A, S)
    BY <1>1, SelectRuns
  <1>3. PICK q : IsSelection(q, s, A, S)
    BY SelectRuns
  <1> DEFINE T == {i \in 0..n : r[i] = q[i]}
  <1>4. 0 \in T
    BY <1>1, <1>2, <1>3 DEF IsSelection
  <1>5. ASSUME NEW i \in 0..(n - 1), i \in T PROVE i + 1 \in T
    <2>1. i + 1 \in 1..n /\ (i + 1) - 1 = i /\ i + 1 \in 0..n /\ i + 1 \in 1..(n + 1)
      BY <1>1
    <2>2. r[i + 1] = IF t[i + 1] \in S THEN Append(r[i], t[i + 1]) ELSE r[i]
      BY <1>1, <1>2, <2>1 DEF IsSelection
    <2>3. q[i + 1] = IF s[i + 1] \in S THEN Append(q[i], s[i + 1]) ELSE q[i]
      BY <1>3, <2>1 DEF IsSelection
    <2>4. t[i + 1] = s[i + 1] /\ r[i] = q[i]
      BY <1>1, <1>5, <2>1
    <2> QED
      BY <2>1, <2>2, <2>3, <2>4
  <1> HIDE DEF T
  <1>6. 0..n \subseteq T
    BY <1>1, <1>4, <1>5, BoundedInduction
  <1>7. r[n] = q[n]
    <2>1. n \in T
      BY <1>1, <1>6
    <2> QED
      BY <2>1 DEF T
  <1>8. n + 1 \in 1..(n + 1) /\ (n + 1) - 1 = n
    BY <1>1
  <1>9. r[n + 1] = IF t[n + 1] \in S THEN Append(r[n], t[n + 1]) ELSE r[n]
    BY <1>1, <1>2, <1>8 DEF IsSelection
  <1> QED
    BY <1>1, <1>2, <1>3, <1>7, <1>9, <1>0 DEF IsSelection

HoldsMembers(w, s, A, S) ==
  /\ w \in Seq(A)
  /\ \A i \in 1..Len(w) : w[i] \in S /\ \E j \in 1..Len(s) : s[j] = w[i]
  /\ \A j \in 1..Len(s) : s[j] \in S => \E i \in 1..Len(w) : w[i] = s[j]

\* What is selected is in the set and in the sequence, and nothing else is left out.
LEMMA SelectMembers ==
  ASSUME NEW A, NEW s \in Seq(A), NEW S
  PROVE  HoldsMembers(Select(s, S), s, A, S)
  <1> DEFINE n == Len(s)
  <1>1. PICK r : IsSelection(r, s, A, S)
    BY SelectRuns
  <1> DEFINE Good(k) ==
               /\ \A i \in 1..Len(r[k]) : r[k][i] \in S /\ \E j \in 1..k : s[j] = r[k][i]
               /\ \A j \in 1..k : s[j] \in S => \E i \in 1..Len(r[k]) : r[k][i] = s[j]
             T == {k \in 0..n : Good(k)}
  <1>2. n \in Nat /\ \A k \in 0..n : r[k] \in Seq(A)
    <2>1. r \in [0..n -> Seq(A)]
      BY <1>1 DEF IsSelection
    <2> QED
      BY <2>1
  <1>3. 0 \in T
    BY <1>1 DEF IsSelection
  <1>4. ASSUME NEW k \in 0..(n - 1), k \in T PROVE k + 1 \in T
    <2>1. k + 1 \in 1..n /\ (k + 1) - 1 = k /\ k + 1 \in 0..n /\ k \in 0..n
      BY <1>2
    <2>2. r[k + 1] = IF s[k + 1] \in S THEN Append(r[k], s[k + 1]) ELSE r[k]
      BY <1>1, <2>1 DEF IsSelection
    <2>3. Good(k) /\ r[k] \in Seq(A)
      BY <1>2, <1>4, <2>1
    <2>4. \A j \in 1..(k + 1) : j \in 1..k \/ j = k + 1
      BY <2>1
    <2>5. CASE s[k + 1] \notin S
      <3>1. r[k + 1] = r[k]
        BY <2>2, <2>5
      <3>2. \A j \in 1..k : j \in 1..(k + 1)
        BY <2>1
      <3>3. Good(k + 1)
        BY <2>3, <2>4, <2>5, <3>1, <3>2
      <3> QED
        BY <2>1, <3>3
    <2>6. CASE s[k + 1] \in S
      <3> DEFINE v == r[k]
                 m == Len(v)
                 w == r[k + 1]
      <3>1. /\ m \in Nat /\ Len(w) = m + 1 /\ w[m + 1] = s[k + 1]
            /\ \A i \in 1..m : w[i] = v[i]
        BY <2>2, <2>3, <2>6
      <3>2. \A i \in 1..(m + 1) : i \in 1..m \/ i = m + 1
        BY <3>1
      <3>3. m + 1 \in 1..(m + 1) /\ k + 1 \in 1..(k + 1) /\ \A j \in 1..k : j \in 1..(k + 1)
        BY <2>1, <3>1
      <3>4. \A i \in 1..m : i \in 1..(m + 1)
        BY <3>1
      <3>5. ASSUME NEW i \in 1..Len(w) PROVE w[i] \in S /\ \E j \in 1..(k + 1) : s[j] = w[i]
        <4>1. CASE i = m + 1
          BY <2>6, <3>1, <3>3, <4>1
        <4>2. CASE i \in 1..m
          <5>1. w[i] = v[i] /\ v[i] \in S /\ \E j \in 1..k : s[j] = v[i]
            BY <2>3, <3>1, <4>2
          <5> QED
            BY <3>3, <5>1
        <4> QED
          BY <3>1, <3>2, <4>1, <4>2
      <3>6. ASSUME NEW j \in 1..(k + 1), s[j] \in S PROVE \E i \in 1..Len(w) : w[i] = s[j]
        <4>1. CASE j = k + 1
          BY <3>1, <3>3, <4>1
        <4>2. CASE j \in 1..k
          <5>1. PICK i \in 1..m : v[i] = s[j]
            BY <2>3, <3>6, <4>2
          <5> QED
            BY <3>1, <3>4, <5>1
        <4> QED
          BY <2>4, <4>1, <4>2
      <3>7. Good(k + 1)
        BY <3>5, <3>6
      <3> HIDE DEF Good
      <3> QED
        BY <2>1, <3>7
    <2> QED
      BY <2>5, <2>6
  <1> HIDE DEF T
  <1>5. 0..n \subseteq T
    BY <1>2, <1>3, <1>4, BoundedInduction
  <1>6. n \in T
    BY <1>2, <1>5
  <1>7. Good(n)
    BY <1>6 DEF T
  <1>8. r[n] = Select(s, S) /\ r[n] \in Seq(A)
    BY <1>1, <1>2 DEF IsSelection
  <1> QED
    BY <1>7, <1>8 DEF HoldsMembers

Increasing(s) == \A i, j \in 1..Len(s) : i < j => s[i] < s[j]

\* A selection of an increasing sequence of numbers is increasing.
LEMMA SelectIncreasing ==
  ASSUME NEW s \in Seq(Int), NEW S, Increasing(s)
  PROVE  Increasing(Select(s, S))
  <1> DEFINE n == Len(s)
  <1>1. PICK r : IsSelection(r, s, Int, S)
    BY SelectRuns
  <1> DEFINE Good(k) ==
               /\ \A i, j \in 1..Len(r[k]) : i < j => r[k][i] < r[k][j]
               /\ \A i \in 1..Len(r[k]), j \in 1..n : j > k => r[k][i] < s[j]
             T == {k \in 0..n : Good(k)}
  <1>2. n \in Nat /\ (\A k \in 0..n : r[k] \in Seq(Int)) /\ \A i \in 1..n : s[i] \in Int
    <2>1. r \in [0..n -> Seq(Int)]
      BY <1>1 DEF IsSelection
    <2> QED
      BY <2>1
  <1>3. 0 \in T
    BY <1>1 DEF IsSelection
  <1>4. ASSUME NEW k \in 0..(n - 1), k \in T PROVE k + 1 \in T
    <2>1. k + 1 \in 1..n /\ (k + 1) - 1 = k /\ k + 1 \in 0..n /\ k \in 0..n
      BY <1>2
    <2>2. r[k + 1] = IF s[k + 1] \in S THEN Append(r[k], s[k + 1]) ELSE r[k]
      BY <1>1, <2>1 DEF IsSelection
    <2>3. Good(k) /\ r[k] \in Seq(Int)
      BY <1>2, <1>4, <2>1
    <2>4. \A j \in 1..n : j > k + 1 => j > k /\ s[k + 1] < s[j]
      BY <1>2, <2>1 DEF Increasing
    <2>5. CASE s[k + 1] \notin S
      <3>1. r[k + 1] = r[k]
        BY <2>2, <2>5
      <3>2. Good(k + 1)
        BY <2>3, <2>4, <3>1
      <3> QED
        BY <2>1, <3>2
    <2>6. CASE s[k + 1] \in S
      <3> DEFINE v == r[k]
                 m == Len(v)
                 w == r[k + 1]
                 e == s[k + 1]
      <3>1. e \in Int
        BY <1>2, <2>1
      <3>2. /\ m \in Nat /\ Len(w) = m + 1 /\ w[m + 1] = e
            /\ \A i \in 1..m : w[i] = v[i] /\ v[i] \in Int
        BY <2>2, <2>3, <2>6, <3>1
      <3>3. \A i \in 1..m : v[i] < e
        <4>1. \A i \in 1..Len(r[k]), j \in 1..n : j > k => r[k][i] < s[j]
          BY <2>3
        <4>2. k + 1 \in 1..n /\ k + 1 > k
          BY <2>1
        <4> HIDE DEF n, Good, T
        <4> QED
          BY <4>1, <4>2
      <3>4. \A i \in 1..(m + 1) : i \in 1..m \/ i = m + 1
        BY <3>2
      <3>5. ASSUME NEW i \in 1..(m + 1), NEW j \in 1..(m + 1), i < j PROVE w[i] < w[j]
        <4>1. i \in 1..m
          BY <3>2, <3>5
        <4> QED
          BY <2>3, <3>2, <3>3, <3>4, <3>5, <4>1
      <3>6. ASSUME NEW i \in 1..(m + 1), NEW j \in 1..n, j > k + 1 PROVE w[i] < s[j]
        <4>1. CASE i \in 1..m
          <5>1. w[i] = v[i] /\ j > k
            BY <2>4, <3>2, <3>6, <4>1
          <5>2. v[i] < s[j]
            BY <2>3, <4>1, <5>1
          <5> QED
            BY <5>1, <5>2
        <4>2. CASE i = m + 1
          BY <2>4, <3>2, <3>6, <4>2
        <4> QED
          BY <3>4, <4>1, <4>2
      <3>7. Good(k + 1)
        BY <3>2, <3>5, <3>6
      <3> QED
        BY <2>1, <3>7
    <2> QED
      BY <2>5, <2>6
  <1> HIDE DEF T
  <1>5. 0..n \subseteq T
    BY <1>2, <1>3, <1>4, BoundedInduction
  <1>6. n \in T
    BY <1>2, <1>5
  <1> QED
    BY <1>1, <1>6 DEF T, IsSelection, Increasing
=============================================================================
