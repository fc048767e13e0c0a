---------------------------- MODULE HistoryProofs ----------------------------
(***************************************************************************)
(* Proofs about the event log, its compaction and what the model is sent:  *)
(* for any bound on the log, the batch, the budget and what /compact       *)
(* keeps, and whatever the store loses.  The recursion of the code is      *)
(* folded over sequences (FoldTheorems); what a fold has built after its   *)
(* k-th element is shown for every k by BoundedInduction.                  *)
(*                                                                         *)
(* The inductive invariant is LogInv: snapshots follow one another, all    *)
(* that lies behind the newest is covered, and no snapshot cuts a round.   *)
(* HistoryInv adds what the conversation holds.                            *)
(***************************************************************************)
EXTENDS History, FoldTheorems

-----------------------------------------------------------------------------
(* Sequences joined. *)

\* What is where when one sequence follows another.
LEMMA Joined ==
  ASSUME NEW A, NEW v \in Seq(A), NEW x \in Seq(A)
  PROVE  /\ v \o x \in Seq(A) /\ Len(v \o x) = Len(v) + Len(x)
         /\ Len(v) \in Nat /\ Len(x) \in Nat
         /\ \A p \in 1..Len(v) : (v \o x)[p] = v[p]
         /\ \A p \in 1..Len(x) : (v \o x)[Len(v) + p] = x[p]
  OBVIOUS

\* The concatenations FlattenSeq goes through.
IsFlattening(f, ss, A) ==
  /\ f \in [0..Len(ss) -> Seq(A)]
  /\ f[0] = <<>> /\ f[Len(ss)] = FlattenSeq(ss)
  /\ \A i \in 1..Len(ss) : f[i] = f[i - 1] \o ss[i]

\* Sequences are joined one after the other, from the left.
LEMMA FlattenRuns ==
  ASSUME NEW A, NEW ss \in Seq(Seq(A))
  PROVE  \E f : IsFlattening(f, ss, A)
  <1> DEFINE n == Len(ss)
             step == [p \in Seq(A) \X (1..n) |-> p[1] \o ss[p[2]]]
             Is(h) == h = [i \in 1..n |-> IF i = 1 THEN ss[i] ELSE h[i - 1] \o ss[i]]
             flatten == CHOOSE h : Is(h)
  <1>1. n \in Nat /\ <<>> \in Seq(A) /\ \A i \in 1..n : ss[i] \in Seq(A)
    OBVIOUS
  <1>2. \A v \in Seq(A), i \in 1..n : v \o ss[i] \in Seq(A)
    BY <1>1
  <1>3. step \in [Seq(A) \X (1..n) -> Seq(A)]
    BY <1>2
  <1>4. \A v \in Seq(A), i \in 1..n : step[<<v, i>>] = v \o ss[i]
    OBVIOUS
  <1>5. PICK f \in [0..n -> Seq(A)] : IsIteration(f, n, <<>>, step)
    <2> HIDE DEF n, step
    <2> QED
      BY <1>1, <1>3, IterationExists
  <1>6. ASSUME NEW i \in 1..n PROVE f[i] = f[i - 1] \o ss[i]
    <2>1. f[i] = step[<<f[i - 1], i>>]
      BY <1>5 DEF IsIteration
    <2>2. i - 1 \in 0..n
      BY <1>1
    <2>3. f[i - 1] \in Seq(A)
      BY <1>5, <2>2
    <2> HIDE DEF step, n
    <2> QED
      BY <1>4, <2>1, <2>3
  <1>7. f[0] = <<>>
    BY <1>5 DEF IsIteration
  <1> HIDE DEF step
  <1>8. Is([i \in 1..n |-> f[i]])
    <2> DEFINE g == [i \in 1..n |-> f[i]]
    <2>1. ASSUME NEW i \in 1..n PROVE g[i] = IF i = 1 THEN ss[i] ELSE g[i - 1] \o ss[i]
      <3>1. CASE i = 1
        <4>0. i - 1 = 0 /\ g[i] = f[i]
          BY <3>1
        <4>1. f[i] = f[i - 1] \o ss[i]
          BY <1>6
        <4>2. f[i - 1] = <<>>
          BY <1>7, <4>0
        <4>3. g[i] = <<>> \o ss[i]
          BY <4>0, <4>1, <4>2
        <4> HIDE DEF n, g
        <4> QED
          BY <1>1, <3>1, <4>3
      <3>2. CASE i # 1
        <4>1. i - 1 \in 1..n
          BY <1>1, <3>2
        <4> QED
          BY <1>6, <3>2, <4>1
      <3> QED
        BY <3>1, <3>2
    <2>2. g = [i \in 1..n |-> g[i]]
      OBVIOUS
    <2> HIDE DEF g
    <2>3. g = [i \in 1..n |-> IF i = 1 THEN ss[i] ELSE g[i - 1] \o ss[i]]
      BY <2>1, <2>2
    <2> QED
      BY <2>3 DEF g
  <1>9. Is(flatten)
    BY <1>8
  <1> HIDE DEF flatten
  <1>10. \A i \in 0..n : i = 0 \/ flatten[i] = f[i]
    <2> DEFINE T == {i \in 0..n : i = 0 \/ flatten[i] = f[i]}
    <2>1. 0 \in T
      BY <1>1
    <2>2. ASSUME NEW i \in 0..(n - 1), i \in T PROVE i + 1 \in T
      <3> HIDE DEF n
      <3>1. i + 1 \in 1..n /\ (i + 1) - 1 = i /\ i + 1 \in 0..n
        BY <1>1
      <3>2. f[i + 1] = f[i] \o ss[i + 1]
        BY <1>6, <3>1
      <3>3. flatten[i + 1] = IF i + 1 = 1 THEN ss[i + 1] ELSE flatten[i] \o ss[i + 1]
        BY <1>9, <3>1
      <3>4. CASE i = 0
        <4>1. f[i + 1] = <<>> \o ss[i + 1]
          BY <1>7, <3>2, <3>4
        <4>2. f[i + 1] = ss[i + 1]
          BY <1>1, <3>1, <4>1
        <4> QED
          BY <3>1, <3>3, <3>4, <4>2
      <3>5. CASE i # 0
        <4>1. flatten[i] = f[i]
          BY <2>2, <3>5
        <4>2. i + 1 # 1
          BY <1>1, <3>5
        <4> QED
          BY <3>1, <3>2, <3>3, <4>1, <4>2
      <3> QED
        BY <3>4, <3>5
    <2> HIDE DEF T
    <2>3. 0..n \subseteq T
      BY <1>1, <2>1, <2>2, BoundedInduction
    <2> QED
      BY <2>3 DEF T
  <1>11. f[n] = FlattenSeq(ss)
    <2>1. CASE n = 0
      <3>1. FlattenSeq(ss) = ss /\ ss = <<>>
        BY <2>1 DEF FlattenSeq
      <3> QED
        BY <1>7, <2>1, <3>1
    <2>2. CASE n # 0
      <3>1. FlattenSeq(ss) = flatten[n]
        BY <2>2 DEF FlattenSeq, flatten
      <3>2. n \in 0..n
        BY <1>1
      <3> QED
        BY <1>10, <2>2, <3>1, <3>2
    <2> QED
      BY <2>1, <2>2
  <1>12. IsFlattening(f, ss, A)
    BY <1>5, <1>6, <1>7, <1>11 DEF IsFlattening
  <1> QED
    BY <1>12

\* The first sequences joined are what FlattenSeq has joined by then.
LEMMA FlattenPrefix ==
  ASSUME NEW A, NEW ss \in Seq(Seq(A)), NEW f, IsFlattening(f, ss, A), NEW k \in 0..Len(ss)
  PROVE  f[k] = FlattenSeq(SubSeq(ss, 1, k))
  <1> DEFINE part == SubSeq(ss, 1, k)
  <1>1. part \in Seq(Seq(A)) /\ Len(part) = k /\ \A i \in 1..k : part[i] = ss[i]
    OBVIOUS
  <1> HIDE DEF part
  <1>2. PICK g : IsFlattening(g, part, A)
    BY <1>1, FlattenRuns
  <1> DEFINE T == {i \in 0..k : f[i] = g[i]}
  <1>3. 0 \in T
    BY <1>2 DEF IsFlattening
  <1>4. ASSUME NEW i \in 0..(k - 1), i \in T PROVE i + 1 \in T
    <2>1. i + 1 \in 1..k /\ (i + 1) - 1 = i /\ i + 1 \in 0..k /\ i + 1 \in 1..Len(ss)
      OBVIOUS
    <2>2. f[i + 1] = f[i] \o ss[i + 1]
      BY <2>1 DEF IsFlattening
    <2>3. g[i + 1] = g[i] \o part[i + 1]
      BY <1>1, <1>2, <2>1 DEF IsFlattening
    <2> QED
      BY <1>1, <1>4, <2>1, <2>2, <2>3
  <1>0. k \in Nat
    OBVIOUS
  <1> HIDE DEF T
  <1>5. 0..k \subseteq T
    BY <1>0, <1>3, <1>4, BoundedInduction
  <1>6. f[k] = g[k]
    BY <1>5 DEF T
  <1>7. g[k] = FlattenSeq(part)
    BY <1>1, <1>2 DEF IsFlattening
  <1> QED
    BY <1>6, <1>7 DEF part

\* Every element comes out of one of the sequences, behind those before it there,
\* and every element of a sequence comes out.
ComesOutOf(w, ss) ==
  /\ \A p \in 1..Len(w) : \E b \in 1..Len(ss) : \E o \in 1..Len(ss[b]) :
       /\ w[p] = ss[b][o]
       /\ \A q \in 1..o : p - o + q \in 1..p /\ w[p - o + q] = ss[b][q]
  /\ \A b \in 1..Len(ss) : \A o \in 1..Len(ss[b]) : \E p \in 1..Len(w) : w[p] = ss[b][o]

\* What is flattened is all there, each sequence in one piece.
LEMMA FlattenPlaces ==
  ASSUME NEW A, NEW ss \in Seq(Seq(A))
  PROVE  FlattenSeq(ss) \in Seq(A) /\ ComesOutOf(FlattenSeq(ss), ss)
  <1> DEFINE n == Len(ss)
  <1>1. PICK f : IsFlattening(f, ss, A)
    BY FlattenRuns
  <1>2. n \in Nat /\ (\A k \in 0..n : f[k] \in Seq(A)) /\ \A i \in 1..n : ss[i] \in Seq(A)
    BY <1>1 DEF IsFlattening
  <1> DEFINE Forth(k) == \A p \in 1..Len(f[k]) : \E b \in 1..k : \E o \in 1..Len(ss[b]) :
                           /\ f[k][p] = ss[b][o]
                           /\ \A q \in 1..o : p - o + q \in 1..p /\ f[k][p - o + q] = ss[b][q]
             Back(k) == \A b \in 1..k : \A o \in 1..Len(ss[b]) :
                          \E p \in 1..Len(f[k]) : f[k][p] = ss[b][o]
             T == {k \in 0..n : Forth(k) /\ Back(k)}
  <1>3. 0 \in T
    BY <1>1 DEF IsFlattening
  <1>4. ASSUME NEW k \in 0..(n - 1), k \in T PROVE k + 1 \in T
    <2> DEFINE v == f[k]
               w == f[k + 1]
               x == ss[k + 1]
               l == Len(v)
               m == Len(x)
    <2>1. k + 1 \in 1..n /\ (k + 1) - 1 = k /\ k + 1 \in 0..n /\ k \in 0..n
      BY <1>2
    <2>2. w = v \o x
      BY <1>1, <2>1 DEF IsFlattening
    <2>3. v \in Seq(A) /\ x \in Seq(A)
      BY <1>2, <2>1
    <2>4. /\ l \in Nat /\ m \in Nat /\ Len(w) = l + m
          /\ \A p \in 1..l : w[p] = v[p]
          /\ \A p \in 1..m : w[l + p] = x[p]
      <3> HIDE DEF v, w, x
      <3> QED
        BY <2>2, <2>3, Joined
    <2>5. Forth(k) /\ Back(k)
      BY <1>4
    <2>6. \A b \in 1..(k + 1) : b \in 1..k \/ b = k + 1
      BY <2>1
    <2> HIDE DEF T, n, l, m
    <2>7. Forth(k + 1)
      <3> SUFFICES ASSUME NEW p \in 1..Len(w)
                   PROVE  \E b \in 1..(k + 1) : \E o \in 1..Len(ss[b]) :
                            /\ w[p] = ss[b][o]
                            /\ \A q \in 1..o : p - o + q \in 1..p /\ w[p - o + q] = ss[b][q]
        OBVIOUS
      <3>1. CASE p \in 1..l
        <4>0. PICK b \in 1..k : \E o \in 1..Len(ss[b]) :
                /\ v[p] = ss[b][o]
                /\ \A q \in 1..o : p - o + q \in 1..p /\ v[p - o + q] = ss[b][q]
          BY <2>5, <3>1 DEF l
        <4>1. PICK o \in 1..Len(ss[b]) :
                /\ v[p] = ss[b][o]
                /\ \A q \in 1..o : p - o + q \in 1..p /\ v[p - o + q] = ss[b][q]
          BY <4>0
        <4>2. w[p] = ss[b][o]
          BY <2>4, <3>1, <4>1
        <4>3. ASSUME NEW q \in 1..o
              PROVE  p - o + q \in 1..p /\ w[p - o + q] = ss[b][q]
          <5>1. p - o + q \in 1..p /\ v[p - o + q] = ss[b][q]
            BY <4>1
          <5>2. p - o + q \in 1..l
            BY <2>4, <3>1, <5>1
          <5> QED
            BY <2>4, <5>1, <5>2
        <4>4. b \in 1..(k + 1)
          BY <2>1
        <4> QED
          BY <4>2, <4>3, <4>4
      <3>2. CASE p \notin 1..l
        <4>1. p - l \in 1..m /\ p = l + (p - l)
          BY <2>4, <3>2
        <4>2. PICK o \in 1..m : o = p - l
          BY <4>1
        <4>3. w[p] = x[o]
          BY <2>4, <4>1, <4>2
        <4>4. ASSUME NEW q \in 1..o
              PROVE  p - o + q \in 1..p /\ w[p - o + q] = x[q]
          <5>1. p - o + q = l + q /\ q \in 1..m /\ l + q \in 1..p
            BY <2>4, <4>1, <4>2
          <5> QED
            BY <2>4, <5>1
        <4>5. k + 1 \in 1..(k + 1) /\ x = ss[k + 1]
          BY <2>1
        <4> QED
          BY <4>3, <4>4, <4>5 DEF m
      <3> QED
        BY <3>1, <3>2
    <2>8. Back(k + 1)
      <3> SUFFICES ASSUME NEW b \in 1..(k + 1), NEW o \in 1..Len(ss[b])
                   PROVE  \E p \in 1..Len(w) : w[p] = ss[b][o]
        OBVIOUS
      <3>1. CASE b \in 1..k
        <4>1. PICK p \in 1..l : v[p] = ss[b][o]
          BY <2>5, <3>1 DEF l
        <4> QED
          BY <2>4, <4>1
      <3>2. CASE b = k + 1
        <4>1. o \in 1..m /\ ss[b][o] = x[o]
          BY <3>2 DEF m
        <4>2. l + o \in 1..Len(w) /\ w[l + o] = x[o]
          BY <2>4, <4>1
        <4> QED
          BY <4>1, <4>2
      <3> QED
        BY <2>6, <3>1, <3>2
    <2> HIDE DEF Forth, Back
    <2> QED
      BY <2>1, <2>7, <2>8 DEF T
  <1> HIDE DEF T
  <1>5. 0..n \subseteq T
    BY <1>2, <1>3, <1>4, BoundedInduction
  <1>6. n \in 0..n
    BY <1>2
  <1>7. Forth(n) /\ Back(n)
    BY <1>5, <1>6 DEF T
  <1>8. f[n] = FlattenSeq(ss) /\ f[n] \in Seq(A)
    BY <1>1, <1>2, <1>6 DEF IsFlattening
  <1> QED
    BY <1>7, <1>8 DEF ComesOutOf

-----------------------------------------------------------------------------
(* Positions of a sequence that pass a test. *)

\* One more sequence is joined at the end.
LEMMA FlattenAppend ==
  ASSUME NEW A, NEW ss \in Seq(Seq(A)), NEW x \in Seq(A)
  PROVE  FlattenSeq(Append(ss, x)) = FlattenSeq(ss) \o x
  <1> DEFINE tt == Append(ss, x)
             n == Len(ss)
  <1>1. /\ tt \in Seq(Seq(A)) /\ Len(tt) = n + 1 /\ n \in Nat /\ tt[n + 1] = x
        /\ SubSeq(tt, 1, n) = ss
    OBVIOUS
  <1> HIDE DEF tt, n
  <1>2. PICK f : IsFlattening(f, tt, A)
    BY <1>1, FlattenRuns
  <1>3. n \in 0..Len(tt) /\ n + 1 \in 1..Len(tt) /\ (n + 1) - 1 = n
    BY <1>1
  <1>4. f[n] = FlattenSeq(ss)
    BY <1>1, <1>2, <1>3, FlattenPrefix
  <1>5. f[n + 1] = f[n] \o tt[n + 1] /\ f[n + 1] = FlattenSeq(tt)
    BY <1>1, <1>2, <1>3 DEF IsFlattening
  <1> QED
    BY <1>1, <1>4, <1>5 DEF tt

\* Nothing is joined from nothing.
LEMMA FlattenEmpty == FlattenSeq(<<>>) = <<>>
  BY DEF FlattenSeq

-----------------------------------------------------------------------------
\* The seqs of a set, in order.
ListsSet(w, S) ==
  /\ w \in Seq(Nat) /\ Increasing(w)
  /\ \A i \in 1..Len(w) : w[i] \in S
  /\ \A x \in S : \E i \in 1..Len(w) : w[i] = x

\* Seqs lists the members of a set of seqs, whatever the sequence holds.
LEMMA SeqsList ==
  ASSUME NEW A, NEW s \in Seq(A), NEW S \in SUBSET (1..Len(s))
  PROVE  ListsSet(Seqs(s, S), S) /\ \A i \in 1..Len(Seqs(s, S)) : Seqs(s, S)[i] \in 1..Len(s)
  <1> DEFINE all == All(s)
             w == Select(all, S)
  <1>1. /\ all \in Seq(Nat) /\ all \in Seq(Int) /\ Len(all) = Len(s) /\ Len(s) \in Nat
        /\ \A i \in 1..Len(s) : all[i] = i
    BY DEF All
  <1>2. Increasing(all)
    BY <1>1 DEF Increasing
  <1> HIDE DEF all
  <1>3. Increasing(w)
    BY <1>1, <1>2, SelectIncreasing
  <1>4. HoldsMembers(w, all, Nat, S)
    BY <1>1, SelectMembers
  <1> HIDE DEF w
  <1>5. w \in Seq(Nat) /\ \A i \in 1..Len(w) : w[i] \in S
    BY <1>4 DEF HoldsMembers
  <1>6. \A x \in S : \E i \in 1..Len(w) : w[i] = x
    <2> SUFFICES ASSUME NEW x \in S PROVE \E i \in 1..Len(w) : w[i] = x
      OBVIOUS
    <2>1. x \in 1..Len(all) /\ all[x] = x
      BY <1>1
    <2>2. all[x] \in S => \E i \in 1..Len(w) : w[i] = all[x]
      BY <1>4, <2>1 DEF HoldsMembers
    <2> QED
      BY <2>1, <2>2
  <1>7. w = Seqs(s, S)
    BY DEF Seqs, w, all
  <1> QED
    BY <1>3, <1>5, <1>6, <1>7 DEF ListsSet

\* Seqs of the members of two sequences that agree, the longer one having none
\* of its own.
LEMMA SeqsOfLonger ==
  ASSUME NEW A, NEW s \in Seq(A), NEW t \in Seq(A), Len(s) <= Len(t), NEW S \in SUBSET (1..Len(s))
  PROVE  Seqs(t, S) = Seqs(s, S)
  <1> DEFINE a == All(s)
             b == All(t)
  <1>0. a \in Seq(Nat) /\ Len(a) = Len(s) /\ Len(s) \in Nat /\ \A i \in 1..Len(s) : a[i] = i
    BY DEF All
  <1>1. b \in Seq(Nat) /\ Len(b) = Len(t) /\ Len(t) \in Nat /\ \A i \in 1..Len(t) : b[i] = i
    BY DEF All
  <1> HIDE DEF a, b
  <1>2. \A i \in 1..Len(a) : a[i] = b[i] /\ (a[i] \in S <=> b[i] \in S)
    BY <1>0, <1>1
  <1>3. \A i \in 1..Len(b) : i > Len(a) => b[i] \notin S
    BY <1>0, <1>1
  <1>4. Select(a, S) = Select(b, S)
    <2>1. Len(a) <= Len(b)
      BY <1>0, <1>1
    <2> QED
      BY <1>0, <1>1, <1>2, <1>3, <2>1, SelectPrefix
  <1> QED
    BY <1>4 DEF Seqs, a, b

\* The last element is listed last.
LEMMA SeqsWithLast ==
  ASSUME NEW A, NEW s \in Seq(A), NEW e \in A, NEW S \in SUBSET (1..Len(s))
  PROVE  Seqs(Append(s, e), S \cup {Len(s) + 1}) = Append(Seqs(s, S), Len(s) + 1)
  <1> DEFINE a == All(s)
             b == All(Append(s, e))
             n == Len(s) + 1
             U == S \cup {n}
  <1>1. a \in Seq(Nat) /\ n \in Nat /\ Len(a) = Len(s) /\ \A i \in 1..Len(s) : a[i] = i
    BY DEF All
  <1>2. b = Append(a, n)
    BY DEF All
  <1> HIDE DEF a, b, n
  <1>3. Select(Append(a, n), U) = IF n \in U THEN Append(Select(a, U), n) ELSE Select(a, U)
    <2> HIDE DEF U
    <2> QED
      BY <1>1, SelectAppend
  <1>4. Select(a, S) = Select(a, U)
    <2>1. \A i \in 1..Len(a) : a[i] = a[i] /\ (a[i] \in S <=> a[i] \in U)
      BY <1>1 DEF n
    <2>2. Len(a) <= Len(a) /\ \A i \in 1..Len(a) : i > Len(a) => a[i] \notin U
      BY <1>1
    <2> HIDE DEF U
    <2> QED
      BY <1>1, <2>1, <2>2, SelectPrefix
  <1> QED
    BY <1>2, <1>3, <1>4 DEF Seqs, a, b, n

-----------------------------------------------------------------------------
(* Projections, as project_events builds them. *)

EventTypes ==
  {"session_started", "user_message", "assistant_text", "tool_call_proposed", "policy_decision",
   "approval_denied", "tool_result", "turn_completed", "context_snapshot"}
\* Only a snapshot has a range; where that matters, it is said of a proposal.
Events ==
  {e \in [type : EventTypes, call : Nat, from : Nat, to : Nat] :
     e.type = "tool_call_proposed" => e = Event(e.type, e.call)}
Logs == Seq(Events)

Shows == [role : {"user", "assistant", "tool", "tool_calls"}, ids : Seq(Nat)]
Projections == [messages : Seq(Shows), proposed : Seq(Nat)]

Conversational(type) == RoleOf(type) # "silent" \/ type = "tool_call_proposed"

\* What an event adds to a projection is one.
LEMMA ProjectionGrows ==
  ASSUME NEW l \in Logs, NEW st \in Projections, NEW i \in 1..Len(l)
  PROVE  AddToProjection(l, st, i) \in Projections
  <1>1. /\ st.messages \in Seq(Shows) /\ st.proposed \in Seq(Nat) /\ i \in Nat
        /\ st = [messages |-> st.messages, proposed |-> st.proposed]
    BY DEF Projections
  <1>0. l[i].type \in EventTypes
    <2>1. l[i] \in Events
      BY DEF Logs
    <2> QED
      BY <2>1 DEF Events
  <1>2. Message("tool_calls", st.proposed) \in Shows
    BY <1>1 DEF Message, Shows
  <1>3. Flush(st) \in Seq(Shows)
    <2>1. Append(st.messages, Message("tool_calls", st.proposed)) \in Seq(Shows)
      <3> DEFINE x == Message("tool_calls", st.proposed)
      <3> HIDE DEF x
      <3>1. x \in Shows
        BY <1>2 DEF x
      <3>2. Append(st.messages, x) \in Seq(Shows)
        BY <1>1, <3>1
      <3> QED
        BY <3>2 DEF x
    <2> QED
      BY <1>1, <2>1 DEF Flush
  <1>4. RoleOf(l[i].type) # "silent" => Message(RoleOf(l[i].type), <<i>>) \in Shows
    BY <1>0, <1>1 DEF RoleOf, Message, Shows, EventTypes
  <1>5. CASE l[i].type = "tool_call_proposed"
    <2>1. AddToProjection(l, st, i) = [messages |-> st.messages, proposed |-> Append(st.proposed, i)]
      <3>1. AddToProjection(l, st, i) = [st EXCEPT !.proposed = Append(st.proposed, i)]
        BY <1>5 DEF AddToProjection, RoleOf
      <3> QED
        BY <1>1, <3>1
    <2>2. Append(st.proposed, i) \in Seq(Nat)
      BY <1>1
    <2> QED
      BY <1>1, <2>1, <2>2 DEF Projections
  <1>6. CASE l[i].type # "tool_call_proposed" /\ RoleOf(l[i].type) # "silent"
    <2>1. AddToProjection(l, st, i)
            = [messages |-> Append(Flush(st), Message(RoleOf(l[i].type), <<i>>)), proposed |-> <<>>]
      BY <1>6 DEF AddToProjection
    <2> QED
      BY <1>3, <1>4, <1>6, <2>1 DEF Projections
  <1>7. CASE l[i].type # "tool_call_proposed" /\ RoleOf(l[i].type) = "silent"
    BY <1>7 DEF AddToProjection
  <1> QED
    BY <1>5, <1>6, <1>7

IsProjecting(r, l, seqs) ==
  /\ r \in [0..Len(seqs) -> Projections]
  /\ r[0] = Empty /\ r[Len(seqs)] = Projected(l, seqs)
  /\ \A k \in 1..Len(seqs) : r[k] = AddToProjection(l, r[k - 1], seqs[k])

\* A log is projected event by event.
LEMMA ProjectRuns ==
  ASSUME NEW l \in Logs, NEW seqs \in Seq(1..Len(l))
  PROVE  \E r : IsProjecting(r, l, seqs)
  <1> DEFINE n == Len(seqs)
             V == Projections
             Add(st, i) == AddToProjection(l, st, i)
             step == [p \in V \X (1..n) |-> Add(p[1], seqs[p[2]])]
             Is(f) == f = [t \in SUBSET (1..n) |->
                             IF t = {} THEN Empty ELSE Add(f[t \ {MaxOf(t)}], seqs[MaxOf(t)])]
             h == CHOOSE f : Is(f)
  <1>1. n \in Nat /\ DOMAIN seqs = 1..n /\ \A i \in 1..n : seqs[i] \in 1..Len(l)
    OBVIOUS
  <1>2. Empty \in V
    BY DEF Empty, Projections
  <1>3. \A v \in V, i \in 1..n :
          Add(v, seqs[i]) \in V /\ step[<<v, i>>] = Add(v, seqs[i])
    BY <1>1, ProjectionGrows
  <1> HIDE DEF V, Add
  <1>4. step \in [V \X (1..n) -> V]
    BY <1>3
  <1>5. PICK g \in [SUBSET (1..n) -> V] : IsFold(g, n, Empty, step)
    <2> HIDE DEF n, step
    <2> QED
      BY <1>1, <1>2, <1>4, FoldExists
  <1>6. Is(g)
    <2>1. ASSUME NEW t \in SUBSET (1..n), t # {}
          PROVE  step[<<g[t \ {MaxOf(t)}], MaxOf(t)>>] = Add(g[t \ {MaxOf(t)}], seqs[MaxOf(t)])
      <3>1. MaxOf(t) \in 1..n
        BY <1>1, <2>1, MaxOfSet
      <3>2. g[t \ {MaxOf(t)}] \in V
        BY <1>5
      <3> HIDE DEF step
      <3> QED
        BY <1>3, <3>1, <3>2
    <2> HIDE DEF step, n
    <2> QED
      BY <1>5, <2>1 DEF IsFold
  <1>7. Is(h)
    BY <1>6
  <1>8. Projected(l, seqs) = h[1..n]
    <2>1. Projected(l, seqs) = FoldLeft(Add, Empty, seqs)
      BY DEF Projected, Add
    <2>2. FoldLeft(Add, Empty, seqs) = h[1..n]
      BY <1>1 DEF FoldLeft, MapThenFoldSet, Max, MaxOf
    <2> QED
      BY <2>1, <2>2
  <1> HIDE DEF h, n, step
  <1>9. h[1..0] = Empty
    BY <1>1, <1>7
  <1>10. ASSUME NEW k \in 1..n PROVE h[1..k] = Add(h[1..(k - 1)], seqs[k])
    <2>1. /\ 1..k \in SUBSET (1..n) /\ 1..k # {}
          /\ MaxOf(1..k) = k /\ (1..k) \ {k} = 1..(k - 1)
      BY <1>1, MaxOfRange
    <2> QED
      BY <1>7, <2>1
  <1>11. \A k \in 0..n : h[1..k] \in V
    <2> DEFINE T == {k \in 0..n : h[1..k] \in V}
    <2>1. 0 \in T
      BY <1>1, <1>2, <1>9
    <2>2. ASSUME NEW k \in 0..(n - 1), k \in T PROVE k + 1 \in T
      <3>1. k + 1 \in 1..n /\ (k + 1) - 1 = k /\ k + 1 \in 0..n
        BY <1>1
      <3>2. h[1..(k + 1)] = Add(h[1..k], seqs[k + 1])
        BY <1>10, <3>1
      <3> QED
        BY <1>3, <2>2, <3>1, <3>2
    <2> HIDE DEF T
    <2>3. 0..n \subseteq T
      BY <1>1, <2>1, <2>2, BoundedInduction
    <2> QED
      BY <2>3 DEF T
  <1> DEFINE r == [k \in 0..n |-> h[1..k]]
  <1>12. r \in [0..n -> V] /\ r[0] = Empty /\ r[n] = Projected(l, seqs)
    BY <1>1, <1>8, <1>9, <1>11
  <1>13. \A k \in 1..n : r[k] = Add(r[k - 1], seqs[k])
    <2>1. \A k \in 1..n : k - 1 \in 0..n /\ k \in 0..n
      BY <1>1
    <2> QED
      BY <1>10, <2>1
  <1> HIDE DEF r
  <1>14. IsProjecting(r, l, seqs)
    BY <1>12, <1>13 DEF IsProjecting, n, V, Add
  <1> QED
    BY <1>14

\* Only the types of the events listed matter, and one more adds itself.
LEMMA ProjectMore ==
  ASSUME NEW l \in Logs, NEW m \in Logs, NEW seqs \in Seq(1..Len(l)), NEW i \in 1..Len(m),
         \A k \in 1..Len(l) : k \in 1..Len(m) /\ m[k].type = l[k].type
  PROVE  /\ Projected(m, seqs) = Projected(l, seqs)
         /\ Projected(m, Append(seqs, i)) = AddToProjection(m, Projected(l, seqs), i)
  <1> DEFINE n == Len(seqs)
             t == Append(seqs, i)
  <1>1. /\ n \in Nat /\ Len(t) = n + 1 /\ t \in Seq(1..Len(m)) /\ seqs \in Seq(1..Len(m))
        /\ t[n + 1] = i /\ \A k \in 1..n : t[k] = seqs[k] /\ seqs[k] \in 1..Len(l)
    <2>1. n \in Nat /\ \A k \in 1..n : seqs[k] \in 1..Len(l)
      OBVIOUS
    <2>2. seqs \in Seq(1..Len(m))
      BY SMTT(20), <2>1
    <2>3. t \in Seq(1..Len(m))
      BY <2>2
    <2> QED
      BY <2>1, <2>2, <2>3
  <1> HIDE DEF t, n
  <1>2. PICK p : IsProjecting(p, l, seqs)
    BY ProjectRuns
  <1>3. PICK q : IsProjecting(q, m, seqs)
    BY <1>1, ProjectRuns
  <1>4. PICK r : IsProjecting(r, m, t)
    BY <1>1, ProjectRuns
  <1>5. \A k \in 0..n : q[k] = p[k] /\ r[k] = p[k]
    <2> DEFINE T == {k \in 0..n : q[k] = p[k] /\ r[k] = p[k]}
    <2>1. 0 \in T
      BY <1>1, <1>2, <1>3, <1>4 DEF IsProjecting
    <2>2. ASSUME NEW k \in 0..(n - 1), k \in T PROVE k + 1 \in T
      <3>1. k + 1 \in 1..n /\ (k + 1) - 1 = k /\ k + 1 \in 0..n /\ k + 1 \in 1..(n + 1)
        BY <1>1
      <3>2. p[k + 1] = AddToProjection(l, p[k], seqs[k + 1])
        BY <1>2, <3>1 DEF IsProjecting, n
      <3>3. q[k + 1] = AddToProjection(m, q[k], seqs[k + 1])
        BY <1>3, <3>1 DEF IsProjecting, n
      <3>4. r[k + 1] = AddToProjection(m, r[k], t[k + 1])
        BY <1>1, <1>4, <3>1 DEF IsProjecting
      <3>5. t[k + 1] = seqs[k + 1] /\ m[seqs[k + 1]].type = l[seqs[k + 1]].type
        BY <1>1, <3>1
      <3>6. AddToProjection(m, p[k], seqs[k + 1]) = AddToProjection(l, p[k], seqs[k + 1])
        BY <3>5 DEF AddToProjection
      <3> QED
        BY <2>2, <3>1, <3>2, <3>3, <3>4, <3>5, <3>6
    <2> HIDE DEF T
    <2>3. 0..n \subseteq T
      BY <1>1, <2>1, <2>2, BoundedInduction
    <2> QED
      BY <2>3 DEF T
  <1>6. n \in 0..n /\ n + 1 \in 1..(n + 1) /\ (n + 1) - 1 = n
    BY <1>1
  <1>7. p[n] = Projected(l, seqs) /\ q[n] = Projected(m, seqs)
    BY <1>2, <1>3 DEF IsProjecting, n
  <1>8. r[n + 1] = Projected(m, t) /\ r[n + 1] = AddToProjection(m, r[n], t[n + 1])
    BY <1>1, <1>4, <1>6 DEF IsProjecting
  <1> QED
    BY <1>1, <1>5, <1>6, <1>7, <1>8 DEF t

-----------------------------------------------------------------------------
(* What a projection shows is what it was given. *)

Ids(shown) == [k \in DOMAIN shown |-> shown[k].ids]

\* Messages that show events of X as what they are, in the order of the log.
Faithful(shown, l, X) ==
  /\ shown \in Seq(Shows)
  /\ \A k \in 1..Len(shown) : \A o \in 1..Len(shown[k].ids) :
       /\ shown[k].ids[o] \in X
       /\ l[shown[k].ids[o]].type = "tool_call_proposed" => shown[k].role = "tool_calls"
  /\ \A k \in 1..Len(shown) : shown[k].role = "tool" =>
       /\ shown[k].ids = <<shown[k].ids[1]>>
       /\ l[shown[k].ids[1]].type = "tool_result"
  /\ \A j, k \in 1..Len(shown) : \A o \in 1..Len(shown[j].ids), q \in 1..Len(shown[k].ids) :
       j < k => shown[j].ids[o] < shown[k].ids[q]

\* What is flattened is a sequence of seqs.
LEMMA IdsFlatten ==
  ASSUME NEW shown \in Seq(Shows)
  PROVE  Ids(shown) \in Seq(Seq(Nat)) /\ Len(Ids(shown)) = Len(shown) /\ FlattenSeq(Ids(shown)) \in Seq(Nat)
  <1>1. \A k \in 1..Len(shown) : shown[k].ids \in Seq(Nat)
    <2>1. \A k \in 1..Len(shown) : shown[k] \in Shows
      OBVIOUS
    <2> QED
      BY <2>1 DEF Shows
  <1>2. Ids(shown) \in Seq(Seq(Nat)) /\ Len(Ids(shown)) = Len(shown)
    BY <1>1 DEF Ids
  <1> QED
    BY <1>2, FlattenPlaces

\* A message that shows later events can be added.
LEMMA FaithfulAppend ==
  ASSUME NEW l \in Logs, NEW X \in SUBSET (1..Len(l)), NEW Y \in SUBSET (1..Len(l)), X \subseteq Y,
         NEW shown, Faithful(shown, l, X), NEW m \in Shows,
         \A o \in 1..Len(m.ids) :
           /\ m.ids[o] \in Y
           /\ l[m.ids[o]].type = "tool_call_proposed" => m.role = "tool_calls",
         m.role = "tool" => m.ids = <<m.ids[1]>> /\ l[m.ids[1]].type = "tool_result",
         \A k \in 1..Len(shown) : \A o \in 1..Len(shown[k].ids), q \in 1..Len(m.ids) :
           shown[k].ids[o] < m.ids[q]
  PROVE  /\ Faithful(Append(shown, m), l, Y)
         /\ FlattenSeq(Ids(Append(shown, m))) = FlattenSeq(Ids(shown)) \o m.ids
  <1> DEFINE w == Append(shown, m)
             n == Len(shown)
  <1>1. shown \in Seq(Shows) /\ n \in Nat
    BY DEF Faithful
  <1>2. /\ w \in Seq(Shows) /\ Len(w) = n + 1 /\ w[n + 1] = m
        /\ \A k \in 1..n : w[k] = shown[k]
    BY <1>1
  <1>3. \A k \in 1..(n + 1) : k \in 1..n \/ k = n + 1
    BY <1>1
  <1> HIDE DEF w, n
  <1>4. \A k \in 1..(n + 1) : \A o \in 1..Len(w[k].ids) :
          /\ w[k].ids[o] \in Y
          /\ l[w[k].ids[o]].type = "tool_call_proposed" => w[k].role = "tool_calls"
    <2> SUFFICES ASSUME NEW k \in 1..(n + 1), NEW o \in 1..Len(w[k].ids)
                 PROVE  /\ w[k].ids[o] \in Y
                        /\ l[w[k].ids[o]].type = "tool_call_proposed" => w[k].role = "tool_calls"
      OBVIOUS
    <2>1. CASE k \in 1..n
      BY <1>2, <2>1 DEF Faithful, n
    <2>2. CASE k = n + 1
      BY <1>2, <2>2
    <2> QED
      BY <1>3, <2>1, <2>2
  <1>5. \A k \in 1..(n + 1) : w[k].role = "tool" =>
          w[k].ids = <<w[k].ids[1]>> /\ l[w[k].ids[1]].type = "tool_result"
    <2> SUFFICES ASSUME NEW k \in 1..(n + 1), w[k].role = "tool"
                 PROVE  w[k].ids = <<w[k].ids[1]>> /\ l[w[k].ids[1]].type = "tool_result"
      OBVIOUS
    <2>1. CASE k \in 1..n
      BY <1>2, <2>1 DEF Faithful, n
    <2>2. CASE k = n + 1
      BY <1>2, <2>2
    <2> QED
      BY <1>3, <2>1, <2>2
  <1>6. \A j, k \in 1..(n + 1) : \A o \in 1..Len(w[j].ids), q \in 1..Len(w[k].ids) :
          j < k => w[j].ids[o] < w[k].ids[q]
    <2> SUFFICES ASSUME NEW j \in 1..(n + 1), NEW k \in 1..(n + 1), j < k,
                        NEW o \in 1..Len(w[j].ids), NEW q \in 1..Len(w[k].ids)
                 PROVE  w[j].ids[o] < w[k].ids[q]
      OBVIOUS
    <2>1. j \in 1..n
      BY <1>1
    <2>2. CASE k \in 1..n
      BY <1>2, <2>1, <2>2 DEF Faithful, n
    <2>3. CASE k = n + 1
      BY <1>2, <2>1, <2>3 DEF n
    <2> QED
      BY <1>3, <2>2, <2>3
  <1>7. Faithful(w, l, Y)
    BY <1>2, <1>4, <1>5, <1>6 DEF Faithful
  <1>8. m.ids \in Seq(Nat) /\ \A k \in 1..n : shown[k].ids \in Seq(Nat)
    <2>1. \A k \in 1..n : shown[k] \in Shows
      BY <1>1 DEF n
    <2> QED
      BY <2>1 DEF Shows
  <1>9. Ids(shown) \in Seq(Seq(Nat)) /\ Ids(w) = Append(Ids(shown), m.ids)
    <2>1. Ids(shown) = [k \in 1..n |-> shown[k].ids]
      BY <1>1 DEF Ids, n
    <2>2. Ids(shown) \in Seq(Seq(Nat)) /\ Len(Ids(shown)) = n
      BY <1>1, IdsFlatten DEF n
    <2>3. Ids(w) = [k \in 1..(n + 1) |-> w[k].ids]
      BY <1>1, <1>2 DEF Ids
    <2> DEFINE t == Ids(shown)
               x == m.ids
               u == Append(t, x)
    <2>4. u \in Seq(Seq(Nat)) /\ Len(u) = n + 1 /\ u[n + 1] = x /\ \A k \in 1..n : u[k] = t[k]
      <3> HIDE DEF t, x
      <3>1. t \in Seq(Seq(Nat)) /\ Len(t) = n /\ x \in Seq(Nat) /\ n \in Nat
        BY <1>1, <1>8, <2>2 DEF t, x
      <3> QED
        BY <3>1
    <2> HIDE DEF u
    <2>5. u = [k \in 1..(n + 1) |-> u[k]]
      BY <1>1, <2>4
    <2>6. \A k \in 1..(n + 1) : w[k].ids = u[k]
      BY <1>2, <1>3, <2>1, <2>4
    <2> QED
      BY <2>2, <2>3, <2>5, <2>6 DEF u
  <1>10. FlattenSeq(Ids(w)) = FlattenSeq(Ids(shown)) \o m.ids
    BY <1>8, <1>9, FlattenAppend
  <1> QED
    BY <1>7, <1>10 DEF w

\* A projection under way, of the events of X.
Showing(st, l, X) ==
  /\ st \in Projections
  /\ Faithful(st.messages, l, X)
  /\ \A o \in 1..Len(st.proposed) :
       st.proposed[o] \in X /\ l[st.proposed[o]].type = "tool_call_proposed"
  /\ \A k \in 1..Len(st.messages) :
       \A o \in 1..Len(st.messages[k].ids), q \in 1..Len(st.proposed) :
         st.messages[k].ids[o] < st.proposed[q]

Everything(st) == FlattenSeq(Ids(st.messages)) \o st.proposed

\* The proposals that are still open are shown last.
LEMMA FlushShows ==
  ASSUME NEW l \in Logs, NEW X \in SUBSET (1..Len(l)), NEW st, Showing(st, l, X)
  PROVE  /\ Faithful(Flush(st), l, X)
         /\ FlattenSeq(Ids(Flush(st))) = Everything(st)
  <1>1. st.messages \in Seq(Shows) /\ st.proposed \in Seq(Nat)
    BY DEF Showing, Projections
  <1>2. CASE st.proposed = <<>>
    <2>1. FlattenSeq(Ids(st.messages)) \in Seq(Nat)
      BY <1>1, IdsFlatten
    <2>2. Everything(st) = FlattenSeq(Ids(st.messages))
      BY <1>2, <2>1 DEF Everything
    <2> QED
      BY <1>2, <2>2 DEF Flush, Showing
  <1>3. CASE st.proposed # <<>>
    <2> DEFINE m == Message("tool_calls", st.proposed)
    <2>1. m \in Shows /\ m.role = "tool_calls" /\ m.ids = st.proposed
      BY <1>1 DEF Message, Shows
    <2>2. Flush(st) = Append(st.messages, m)
      BY <1>3 DEF Flush
    <2> HIDE DEF m
    <2>3. Faithful(st.messages, l, X)
      BY DEF Showing
    <2>4. \A o \in 1..Len(m.ids) :
            m.ids[o] \in X /\ (l[m.ids[o]].type = "tool_call_proposed" => m.role = "tool_calls")
      BY <2>1 DEF Showing
    <2>5. \A k \in 1..Len(st.messages) : \A o \in 1..Len(st.messages[k].ids), q \in 1..Len(m.ids) :
            st.messages[k].ids[o] < m.ids[q]
      BY <2>1 DEF Showing
    <2>6. /\ Faithful(Append(st.messages, m), l, X)
          /\ FlattenSeq(Ids(Append(st.messages, m))) = FlattenSeq(Ids(st.messages)) \o m.ids
      <3>1. X \subseteq X /\ (m.role = "tool" => m.ids = <<m.ids[1]>> /\ l[m.ids[1]].type = "tool_result")
        BY <2>1
      <3> QED
        BY <2>1, <2>3, <2>4, <2>5, <3>1, FaithfulAppend
    <2> QED
      BY <2>1, <2>2, <2>6 DEF Everything
  <1> QED
    BY <1>2, <1>3

\* A later event is shown, if it belongs to the conversation.
LEMMA AddShows ==
  ASSUME NEW l \in Logs, NEW X \in SUBSET (1..Len(l)), NEW st, Showing(st, l, X),
         NEW i \in 1..Len(l), \A x \in X : x < i
  PROVE  /\ Showing(AddToProjection(l, st, i), l, X \cup {i})
         /\ Everything(AddToProjection(l, st, i))
              = IF Conversational(l[i].type) THEN Append(Everything(st), i) ELSE Everything(st)
  <1> DEFINE Y == X \cup {i}
             new == AddToProjection(l, st, i)
             role == RoleOf(l[i].type)
             flat == FlattenSeq(Ids(st.messages))
  <1>1. /\ st.messages \in Seq(Shows) /\ st.proposed \in Seq(Nat) /\ flat \in Seq(Nat)
        /\ st = [messages |-> st.messages, proposed |-> st.proposed]
        /\ Faithful(st.messages, l, X) /\ st \in Projections
    <2>1. st \in Projections /\ Faithful(st.messages, l, X)
      BY DEF Showing
    <2>2. st.messages \in Seq(Shows) /\ st.proposed \in Seq(Nat)
      BY <2>1 DEF Projections
    <2>3. flat \in Seq(Nat)
      BY <2>2, IdsFlatten
    <2>4. st = [messages |-> st.messages, proposed |-> st.proposed]
      BY <2>1 DEF Projections
    <2> QED
      BY <2>1, <2>2, <2>3, <2>4
  <1>2. i \in Nat /\ Y \in SUBSET (1..Len(l)) /\ X \subseteq Y /\ i \in Y
    OBVIOUS
  <1>3. new \in Projections
    BY <1>1, ProjectionGrows
  <1>4. Everything(st) = flat \o st.proposed
    BY DEF Everything
  <1> HIDE DEF Y, flat
  <1>5. CASE l[i].type = "tool_call_proposed"
    <2>1. new = [messages |-> st.messages, proposed |-> Append(st.proposed, i)]
      <3>1. new = [st EXCEPT !.proposed = Append(st.proposed, i)]
        BY <1>5 DEF AddToProjection, RoleOf
      <3> QED
        BY <1>1, <3>1
    <2> DEFINE p == st.proposed
               q == Append(p, i)
               n == Len(p)
    <2>2. /\ n \in Nat /\ Len(q) = n + 1 /\ q[n + 1] = i /\ (\A o \in 1..n : q[o] = p[o])
          /\ \A o \in 1..(n + 1) : o \in 1..n \/ o = n + 1
      <3> HIDE DEF p
      <3>1. p \in Seq(Nat)
        BY <1>1 DEF p
      <3> QED
        BY <1>2, <3>1
    <2>3. Faithful(st.messages, l, Y)
      BY <1>1, <1>2 DEF Faithful
    <2>4. /\ \A o \in 1..n : p[o] \in X /\ l[p[o]].type = "tool_call_proposed"
          /\ \A k \in 1..Len(st.messages) : \A o \in 1..Len(st.messages[k].ids), z \in 1..n :
               st.messages[k].ids[o] < p[z]
          /\ \A k \in 1..Len(st.messages) : \A o \in 1..Len(st.messages[k].ids) :
               st.messages[k].ids[o] \in X
      BY DEF Showing, Faithful
    <2> HIDE DEF p, q, n, new
    <2>5. \A o \in 1..Len(q) : q[o] \in Y /\ l[q[o]].type = "tool_call_proposed"
      BY <1>2, <1>5, <2>2, <2>4
    <2>6. \A k \in 1..Len(st.messages) : \A o \in 1..Len(st.messages[k].ids), z \in 1..Len(q) :
            st.messages[k].ids[o] < q[z]
      BY <2>2, <2>4
    <2>7. new.messages = st.messages /\ new.proposed = q
      BY <2>1 DEF q, p
    <2>8. Showing(new, l, Y)
      BY <1>3, <2>3, <2>5, <2>6, <2>7 DEF Showing
    <2>9. Everything(new) = flat \o Append(p, i)
      BY <2>7 DEF Everything, flat, q
    <2>10. flat \o Append(p, i) = Append(flat \o p, i)
      <3>1. p \in Seq(Nat) /\ flat \in Seq(Nat) /\ i \in Nat
        BY <1>1, <1>2 DEF p
      <3> QED
        BY <3>1
    <2> QED
      BY <1>4, <1>5, <2>8, <2>9, <2>10 DEF Conversational, new, Y, p
  <1>6. CASE l[i].type # "tool_call_proposed" /\ role # "silent"
    <2> DEFINE m == Message(role, <<i>>)
               flushed == Flush(st)
    <2>1. new = [messages |-> Append(flushed, m), proposed |-> <<>>]
      BY <1>6 DEF AddToProjection
    <2>2. m \in Shows /\ m.ids = <<i>> /\ m.role = role
          /\ (role = "tool" => l[i].type = "tool_result")
      <3>1. l[i] \in Events
        BY DEF Logs
      <3>2. l[i].type \in EventTypes
        BY <3>1 DEF Events
      <3> QED
        BY <1>2, <1>6, <3>2 DEF Message, Shows, RoleOf, EventTypes
    <2>3. Faithful(flushed, l, X) /\ FlattenSeq(Ids(flushed)) = Everything(st)
      BY FlushShows
    <2> HIDE DEF m, flushed, new, role
    <2>4. \A o \in 1..Len(m.ids) : m.ids[o] = i
      BY <2>2
    <2>5. \A k \in 1..Len(flushed) : \A o \in 1..Len(flushed[k].ids), z \in 1..Len(m.ids) :
            flushed[k].ids[o] < m.ids[z]
      BY <2>3, <2>4 DEF Faithful
    <2>6. m.role = "tool" => m.ids = <<m.ids[1]>> /\ l[m.ids[1]].type = "tool_result"
      BY <2>2
    <2>7. \A o \in 1..Len(m.ids) :
            m.ids[o] \in Y /\ (l[m.ids[o]].type = "tool_call_proposed" => m.role = "tool_calls")
      BY <1>2, <1>6, <2>4
    <2>8. /\ Faithful(Append(flushed, m), l, Y)
          /\ FlattenSeq(Ids(Append(flushed, m))) = FlattenSeq(Ids(flushed)) \o m.ids
      BY ZenonT(30), <1>2, <2>2, <2>3, <2>5, <2>6, <2>7, FaithfulAppend
    <2>9. new.messages = Append(flushed, m) /\ new.proposed = <<>>
      BY <2>1
    <2>10. Showing(new, l, Y)
      BY <1>3, <2>8, <2>9 DEF Showing
    <2>11. Everything(new) = Append(Everything(st), i)
      <3> DEFINE e == Everything(st)
      <3>1. e \in Seq(Nat)
        BY <1>1, <1>4
      <3> HIDE DEF e
      <3>2. Everything(new) = (e \o <<i>>) \o <<>>
        BY <2>2, <2>3, <2>8, <2>9 DEF Everything, e
      <3>3. (e \o <<i>>) \o <<>> = Append(e, i)
        BY <1>2, <3>1
      <3> QED
        BY <3>2, <3>3 DEF e
    <2> QED
      BY <1>6, <2>10, <2>11 DEF Conversational, new, Y, role
  <1>7. CASE l[i].type # "tool_call_proposed" /\ role = "silent"
    <2>1. new = st
      BY <1>7 DEF AddToProjection
    <2>2. Showing(st, l, Y)
      BY <1>2 DEF Showing, Faithful
    <2> QED
      BY <1>7, <2>1, <2>2 DEF Conversational, Y
  <1> QED
    BY <1>5, <1>6, <1>7

\* The seqs of the events that belong to the conversation.
Spoken(l) == {i \in DOMAIN l : Conversational(l[i].type)}

\* What a projection shows: the events of the conversation among those listed,
\* all of them, in order, and as what they are.
LEMMA ProjectShows ==
  ASSUME NEW l \in Logs, NEW seqs \in Seq(1..Len(l)), Increasing(seqs)
  PROVE  /\ Faithful(ProjectEvents(l, seqs), l, {seqs[k] : k \in 1..Len(seqs)})
         /\ FlattenSeq(Ids(ProjectEvents(l, seqs))) = Select(seqs, Spoken(l))
  <1> DEFINE n == Len(seqs)
             X(k) == {seqs[q] : q \in 1..k}
  <1>1. n \in Nat /\ \A k \in 1..n : seqs[k] \in 1..Len(l)
    OBVIOUS
  <1>2. PICK r : IsProjecting(r, l, seqs)
    BY ProjectRuns
  <1>3. PICK s : IsSelection(s, seqs, Nat, Spoken(l))
    <2>1. seqs \in Seq(Nat)
      BY <1>1
    <2> QED
      BY <2>1, SelectRuns
  <1>4. \A k \in 0..n : X(k) \in SUBSET (1..Len(l))
    BY <1>1
  <1> DEFINE T == {k \in 0..n : Showing(r[k], l, X(k)) /\ Everything(r[k]) = s[k]}
  <1>5. 0 \in T
    <2>1. r[0] = Empty /\ s[0] = <<>>
      BY <1>2, <1>3 DEF IsProjecting, IsSelection
    <2>2. Empty.messages = <<>> /\ Empty.proposed = <<>> /\ Empty \in Projections
      BY DEF Empty, Projections
    <2>3. Showing(Empty, l, X(0))
      BY <2>2 DEF Showing, Faithful
    <2>4. Ids(<<>>) = <<>>
      BY DEF Ids
    <2>5. Everything(Empty) = <<>>
      BY <2>2, <2>4, FlattenEmpty DEF Everything
    <2> QED
      BY <1>1, <2>1, <2>3, <2>5
  <1>6. ASSUME NEW k \in 0..(n - 1), k \in T PROVE k + 1 \in T
    <2> HIDE DEF n
    <2>1. k + 1 \in 1..n /\ (k + 1) - 1 = k /\ k + 1 \in 0..n /\ k \in 0..n
      BY <1>1
    <2>2. r[k + 1] = AddToProjection(l, r[k], seqs[k + 1])
      BY <1>2, <2>1 DEF IsProjecting, n
    <2>3. s[k + 1] = IF seqs[k + 1] \in Spoken(l) THEN Append(s[k], seqs[k + 1]) ELSE s[k]
      BY <1>3, <2>1 DEF IsSelection, n
    <2>4. seqs[k + 1] \in Spoken(l) <=> Conversational(l[seqs[k + 1]].type)
      <3>1. DOMAIN l = 1..Len(l)
        BY DEF Logs
      <3>2. seqs[k + 1] \in DOMAIN l
        BY <1>1, <2>1, <3>1
      <3> QED
        BY <3>2 DEF Spoken
    <2>5. \A x \in X(k) : x < seqs[k + 1]
      <3> SUFFICES ASSUME NEW q \in 1..k PROVE seqs[q] < seqs[k + 1]
        OBVIOUS
      <3>1. q \in 1..Len(seqs) /\ k + 1 \in 1..Len(seqs) /\ q < k + 1
        BY <1>1, <2>1 DEF n
      <3> QED
        BY <3>1 DEF Increasing
    <2>6. X(k + 1) = X(k) \cup {seqs[k + 1]}
      <3>1. 1..(k + 1) = (1..k) \cup {k + 1}
        BY <2>1
      <3> QED
        BY <3>1
    <2>7. X(k) \in SUBSET (1..Len(l)) /\ seqs[k + 1] \in 1..Len(l)
      BY <1>1, <1>4, <2>1
    <2>8. Showing(r[k], l, X(k)) /\ Everything(r[k]) = s[k]
      BY <1>6
    <2> DEFINE Z == X(k)
               i == seqs[k + 1]
               st == r[k]
    <2> HIDE DEF X, T
    <2>9. /\ Showing(r[k + 1], l, X(k) \cup {seqs[k + 1]})
          /\ Everything(r[k + 1]) = IF Conversational(l[seqs[k + 1]].type)
                                      THEN Append(Everything(r[k]), seqs[k + 1])
                                      ELSE Everything(r[k])
      <3>1. Z \in SUBSET (1..Len(l)) /\ i \in 1..Len(l) /\ Showing(st, l, Z) /\ \A x \in Z : x < i
        BY <2>5, <2>7, <2>8
      <3>2. r[k + 1] = AddToProjection(l, st, i)
        BY <2>2
      <3> HIDE DEF Z, i, st
      <3>3. /\ Showing(AddToProjection(l, st, i), l, Z \cup {i})
            /\ Everything(AddToProjection(l, st, i))
                 = IF Conversational(l[i].type) THEN Append(Everything(st), i) ELSE Everything(st)
        BY <3>1, AddShows
      <3> QED
        BY <3>2, <3>3 DEF Z, i, st
    <2>10. Everything(r[k + 1]) = s[k + 1]
      BY <2>3, <2>4, <2>8, <2>9
    <2>11. Showing(r[k + 1], l, X(k + 1))
      BY <2>6, <2>9
    <2> QED
      BY <2>1, <2>10, <2>11 DEF T
  <1> HIDE DEF T
  <1>7. 0..n \subseteq T
    BY <1>1, <1>5, <1>6, BoundedInduction
  <1>8. n \in T
    BY <1>1, <1>7
  <1>9. Showing(r[n], l, X(n)) /\ Everything(r[n]) = s[n]
    BY <1>8 DEF T
  <1>10. r[n] = Projected(l, seqs) /\ s[n] = Select(seqs, Spoken(l))
    BY <1>2, <1>3 DEF IsProjecting, IsSelection
  <1>11. X(n) \in SUBSET (1..Len(l))
    BY <1>1, <1>4
  <1> HIDE DEF X
  <1>12. /\ Faithful(Flush(r[n]), l, X(n)) /\ FlattenSeq(Ids(Flush(r[n]))) = Everything(r[n])
    BY <1>9, <1>11, FlushShows
  <1> QED
    BY <1>9, <1>10, <1>12 DEF ProjectEvents, X

-----------------------------------------------------------------------------
(* Causal groups, as group_events builds them. *)

CausalGroups == [ids : Seq(Nat), call : Nat, terminal : BOOLEAN, open : BOOLEAN]
Groups == Seq(CausalGroups)

\* How one event changes the groups.
Regrouped(w, gs, l, i) ==
  LET n == Len(gs)
      Takes(g) == gs[g].open /\ gs[g].call = l[i].call
  IN /\ w \in Groups /\ Len(w) \in {n, n + 1}
     /\ \A g \in 1..n :
          /\ w[g].call = gs[g].call
          /\ \/ w[g].ids = gs[g].ids
             \/ /\ w[g].ids = Append(gs[g].ids, i)
                /\ Takes(g) /\ l[i].type \in CallRefTypes
     /\ Len(w) = n + 1 => /\ w[n + 1].ids = <<i>>
                          /\ w[n + 1].open => /\ l[i].type = "tool_call_proposed"
                                              /\ w[n + 1].call = l[i].call
     /\ Len(w) = n => \E g \in 1..n : w[g].ids = Append(gs[g].ids, i)
     /\ l[i].type = "tool_call_proposed" =>
          /\ Len(w) = n + 1 /\ w[n + 1].open /\ ~w[n + 1].terminal
          /\ \A g \in 1..n :
               /\ w[g].open <=> gs[g].open /\ ~gs[g].terminal /\ gs[g].call # l[i].call
               /\ w[g].terminal <=> gs[g].terminal
     /\ l[i].type # "tool_call_proposed" => \A g \in 1..n : w[g].open <=> gs[g].open
     /\ l[i].type \in CallRefTypes /\ (\E g \in 1..n : Takes(g)) => Len(w) = n

\* The fields of a group.
LEMMA GroupFields ==
  ASSUME NEW r \in CausalGroups
  PROVE  r.ids \in Seq(Nat) /\ r.call \in Nat /\ r.terminal \in BOOLEAN /\ r.open \in BOOLEAN
  BY DEF CausalGroups

\* A group that is closed keeps the rest.
LEMMA CloseRecord ==
  ASSUME NEW r \in CausalGroups, NEW b \in BOOLEAN
  PROVE  LET c == [r EXCEPT !.open = b]
         IN  c \in CausalGroups /\ c.ids = r.ids /\ c.call = r.call /\ c.terminal = r.terminal /\ c.open = b
  BY DEF CausalGroups

\* A group that takes an event keeps the rest.
LEMMA JoinRecord ==
  ASSUME NEW r \in CausalGroups, NEW b \in BOOLEAN, NEW x \in Seq(Nat)
  PROVE  LET c == [r EXCEPT !.ids = x, !.terminal = b]
         IN  c \in CausalGroups /\ c.ids = x /\ c.call = r.call /\ c.open = r.open
  BY DEF CausalGroups

\* What AddToGroups does to the groups.
LEMMA AddRegroups ==
  ASSUME NEW l \in Logs, NEW gs \in Groups, NEW i \in 1..Len(l)
  PROVE  Regrouped(AddToGroups(l, gs, i), gs, l, i)
  <1> DEFINE n == Len(gs)
             w == AddToGroups(l, gs, i)
             Takes(g) == gs[g].open /\ gs[g].call = l[i].call
             Closed(g) == [gs[g] EXCEPT !.open = @ /\ ~gs[g].terminal /\ gs[g].call # l[i].call]
             Joins(g) == [gs[g] EXCEPT !.ids = Append(@, i),
                                       !.terminal = @ \/ l[i].type \in TerminalTypes]
  <1>1. n \in Nat /\ DOMAIN gs = 1..n /\ gs \in Seq(CausalGroups) /\ \A g \in 1..n : gs[g] \in CausalGroups
    BY DEF Groups
  <1>2. i \in Nat /\ l[i].call \in Nat
    <2>1. l[i] \in Events
      BY DEF Logs
    <2> QED
      BY <2>1 DEF Events
  <1>3. ASSUME NEW g \in 1..n
        PROVE  /\ Closed(g) \in CausalGroups /\ Closed(g).ids = gs[g].ids /\ Closed(g).call = gs[g].call
               /\ Closed(g).open <=> gs[g].open /\ ~gs[g].terminal /\ gs[g].call # l[i].call
               /\ Closed(g).terminal <=> gs[g].terminal
    <2> DEFINE r == gs[g]
               b == r.open /\ ~r.terminal /\ r.call # l[i].call
               c == [r EXCEPT !.open = b]
    <2>1. r \in CausalGroups
      BY <1>1
    <2> HIDE DEF r
    <2>2. b \in BOOLEAN
      OBVIOUS
    <2> HIDE DEF b
    <2>3. c \in CausalGroups /\ c.ids = r.ids /\ c.call = r.call /\ c.terminal = r.terminal /\ c.open = b
      BY <2>1, <2>2, CloseRecord
    <2> QED
      BY <2>3 DEF b, r
  <1>4. ASSUME NEW g \in 1..n
        PROVE  /\ Joins(g) \in CausalGroups /\ Joins(g).ids = Append(gs[g].ids, i)
               /\ Joins(g).call = gs[g].call /\ Joins(g).open = gs[g].open
    <2> DEFINE r == gs[g]
               b == r.terminal \/ l[i].type \in TerminalTypes
               x == Append(r.ids, i)
               c == [r EXCEPT !.ids = x, !.terminal = b]
    <2>1. r \in CausalGroups
      BY <1>1
    <2> HIDE DEF r
    <2>2. r.terminal \in BOOLEAN /\ r.ids \in Seq(Nat)
      BY <2>1, GroupFields
    <2>3. b \in BOOLEAN
      BY <2>2
    <2>4. x \in Seq(Nat)
      BY <1>2, <2>2
    <2> HIDE DEF b, x
    <2>5. c \in CausalGroups /\ c.ids = x /\ c.call = r.call /\ c.open = r.open
      BY ZenonT(30), <2>1, <2>3, <2>4, JoinRecord
    <2> QED
      BY <2>5 DEF b, x, r
  <1>5. n + 1 # n
    <2>1. n \in Nat
      BY <1>1
    <2> HIDE DEF n
    <2> QED
      BY <2>1
  <1>6. Chain(i, l[i].call) \in CausalGroups /\ Singleton(i) \in CausalGroups
    BY <1>2 DEF Chain, Singleton, CausalGroups, NoCall
  <1>7. CASE l[i].type = "tool_call_proposed"
    <2> DEFINE c == [g \in 1..n |-> Closed(g)]
               e == Chain(i, l[i].call)
    <2>0. l[i].type \notin CallRefTypes
      BY <1>7 DEF CallRefTypes
    <2>1. w = Append(c, e)
      BY <1>1, <1>7, <2>0 DEF AddToGroups
    <2>2. c \in Seq(CausalGroups) /\ Len(c) = n /\ \A g \in 1..n : c[g] = Closed(g)
      <3> HIDE DEF Closed
      <3> QED
        BY <1>1, <1>3
    <2>3. /\ w \in Seq(CausalGroups) /\ Len(w) = n + 1 /\ w[n + 1] = e
          /\ \A g \in 1..n : w[g] = Closed(g)
      <3> HIDE DEF c, e, w, Closed, n
      <3>1. e \in CausalGroups
        BY <1>6 DEF e
      <3> QED
        BY <1>1, <2>1, <2>2, <3>1
    <2>4. \A g \in 1..n :
            /\ w[g].call = gs[g].call /\ w[g].ids = gs[g].ids
            /\ w[g].open <=> gs[g].open /\ ~gs[g].terminal /\ gs[g].call # l[i].call
            /\ w[g].terminal <=> gs[g].terminal
      <3> HIDE DEF Closed, w
      <3> QED
        BY <1>3, <2>3
    <2>5. e.ids = <<i>> /\ e.open /\ ~e.terminal /\ e.call = l[i].call
      BY DEF Chain
    <2> HIDE DEF w, e, Takes, Closed, Joins
    <2>7. w \in Groups /\ Len(w) \in {n, n + 1}
      BY <2>3 DEF Groups
    <2>a. \A g \in 1..n :
            /\ w[g].call = gs[g].call
            /\ \/ w[g].ids = gs[g].ids
               \/ /\ w[g].ids = Append(gs[g].ids, i)
                  /\ gs[g].open /\ gs[g].call = l[i].call /\ l[i].type \in CallRefTypes
      BY <1>5, <1>7, <2>0, <2>3, <2>4, <2>5
    <2>b. Len(w) = n + 1 => /\ w[n + 1].ids = <<i>>
                            /\ w[n + 1].open => /\ l[i].type = "tool_call_proposed"
                                                /\ w[n + 1].call = l[i].call
      BY <1>5, <1>7, <2>0, <2>3, <2>4, <2>5
    <2>c. Len(w) = n => \E g \in 1..n : w[g].ids = Append(gs[g].ids, i)
      BY <1>5, <1>7, <2>0, <2>3, <2>4, <2>5
    <2>d. l[i].type = "tool_call_proposed" =>
            /\ Len(w) = n + 1 /\ w[n + 1].open /\ ~w[n + 1].terminal
            /\ \A g \in 1..n :
                 /\ w[g].open <=> gs[g].open /\ ~gs[g].terminal /\ gs[g].call # l[i].call
                 /\ w[g].terminal <=> gs[g].terminal
      BY <1>5, <1>7, <2>0, <2>3, <2>4, <2>5
    <2>e. l[i].type # "tool_call_proposed" => \A g \in 1..n : w[g].open <=> gs[g].open
      BY <1>5, <1>7, <2>0, <2>3, <2>4, <2>5
    <2>f. l[i].type \in CallRefTypes /\ (\E g \in 1..n : gs[g].open /\ gs[g].call = l[i].call) => Len(w) = n
      BY <1>5, <1>7, <2>0, <2>3, <2>4, <2>5
    <2>g. Regrouped(w, gs, l, i)
      BY <2>7, <2>a, <2>b, <2>c, <2>d, <2>e, <2>f DEF Regrouped
    <2> QED
      BY <2>g DEF w
  <1>8. CASE l[i].type \in CallRefTypes /\ \E g \in 1..n : Takes(g)
    <2>1. l[i].type # "tool_call_proposed"
      BY <1>8 DEF CallRefTypes
    <2>2. w = [g \in 1..n |-> IF Takes(g) THEN Joins(g) ELSE gs[g]]
      BY <1>1, <1>8, <2>1 DEF AddToGroups
    <2>3. w \in Seq(CausalGroups) /\ Len(w) = n
      <3> HIDE DEF Joins, Takes
      <3> QED
        BY <1>1, <1>4, <2>2
    <2>4. \A g \in 1..n :
            /\ w[g].call = gs[g].call
            /\ w[g].open <=> gs[g].open
            /\ w[g].ids = IF Takes(g) THEN Append(gs[g].ids, i) ELSE gs[g].ids
      <3> HIDE DEF Joins, Takes
      <3> QED
        BY <1>4, <2>2
    <2> HIDE DEF w
    <2>7. w \in Groups /\ Len(w) \in {n, n + 1}
      BY <2>3 DEF Groups
    <2>8. /\ \E g \in 1..n : w[g].ids = Append(gs[g].ids, i)
          /\ \A g \in 1..n : w[g].ids = gs[g].ids \/ (w[g].ids = Append(gs[g].ids, i) /\ Takes(g))
      BY <1>8, <2>4
    <2> HIDE DEF Joins, Closed
    <2>a. \A g \in 1..n :
            /\ w[g].call = gs[g].call
            /\ \/ w[g].ids = gs[g].ids
               \/ /\ w[g].ids = Append(gs[g].ids, i)
                  /\ gs[g].open /\ gs[g].call = l[i].call /\ l[i].type \in CallRefTypes
      BY <1>5, <1>8, <2>1, <2>3, <2>4, <2>8
    <2>b. Len(w) = n + 1 => /\ w[n + 1].ids = <<i>>
                            /\ w[n + 1].open => /\ l[i].type = "tool_call_proposed"
                                                /\ w[n + 1].call = l[i].call
      BY <1>5, <1>8, <2>1, <2>3, <2>4, <2>8
    <2>c. Len(w) = n => \E g \in 1..n : w[g].ids = Append(gs[g].ids, i)
      BY <1>5, <1>8, <2>1, <2>3, <2>4, <2>8
    <2>d. l[i].type = "tool_call_proposed" =>
            /\ Len(w) = n + 1 /\ w[n + 1].open /\ ~w[n + 1].terminal
            /\ \A g \in 1..n :
                 /\ w[g].open <=> gs[g].open /\ ~gs[g].terminal /\ gs[g].call # l[i].call
                 /\ w[g].terminal <=> gs[g].terminal
      BY <1>5, <1>8, <2>1, <2>3, <2>4, <2>8
    <2>e. l[i].type # "tool_call_proposed" => \A g \in 1..n : w[g].open <=> gs[g].open
      BY <1>5, <1>8, <2>1, <2>3, <2>4, <2>8
    <2>f. l[i].type \in CallRefTypes /\ (\E g \in 1..n : gs[g].open /\ gs[g].call = l[i].call) => Len(w) = n
      BY <1>5, <1>8, <2>1, <2>3, <2>4, <2>8
    <2>g. Regrouped(w, gs, l, i)
      BY <2>7, <2>a, <2>b, <2>c, <2>d, <2>e, <2>f DEF Regrouped
    <2> QED
      BY <2>g DEF w
  <1>9. CASE l[i].type # "tool_call_proposed" /\ ~(l[i].type \in CallRefTypes /\ \E g \in 1..n : Takes(g))
    <2> DEFINE e == Singleton(i)
    <2>1. w = Append(gs, e)
      BY <1>1, <1>9 DEF AddToGroups
    <2>2. w \in Seq(CausalGroups) /\ Len(w) = n + 1 /\ w[n + 1] = e /\ \A g \in 1..n : w[g] = gs[g]
      <3> HIDE DEF e, w
      <3>1. e \in CausalGroups
        BY <1>6 DEF e
      <3> QED
        BY <1>1, <2>1, <3>1
    <2>3. e.ids = <<i>> /\ ~e.open
      BY DEF Singleton
    <2> HIDE DEF w, e, Closed, Joins
    <2>7. w \in Groups /\ Len(w) \in {n, n + 1}
      BY <2>2 DEF Groups
    <2>a. \A g \in 1..n :
            /\ w[g].call = gs[g].call
            /\ \/ w[g].ids = gs[g].ids
               \/ /\ w[g].ids = Append(gs[g].ids, i)
                  /\ gs[g].open /\ gs[g].call = l[i].call /\ l[i].type \in CallRefTypes
      BY <1>5, <1>9, <2>2, <2>3
    <2>b. Len(w) = n + 1 => /\ w[n + 1].ids = <<i>>
                            /\ w[n + 1].open => /\ l[i].type = "tool_call_proposed"
                                                /\ w[n + 1].call = l[i].call
      BY <1>5, <1>9, <2>2, <2>3
    <2>c. Len(w) = n => \E g \in 1..n : w[g].ids = Append(gs[g].ids, i)
      BY <1>5, <1>9, <2>2, <2>3
    <2>d. l[i].type = "tool_call_proposed" =>
            /\ Len(w) = n + 1 /\ w[n + 1].open /\ ~w[n + 1].terminal
            /\ \A g \in 1..n :
                 /\ w[g].open <=> gs[g].open /\ ~gs[g].terminal /\ gs[g].call # l[i].call
                 /\ w[g].terminal <=> gs[g].terminal
      BY <1>5, <1>9, <2>2, <2>3
    <2>e. l[i].type # "tool_call_proposed" => \A g \in 1..n : w[g].open <=> gs[g].open
      BY <1>5, <1>9, <2>2, <2>3
    <2>f. l[i].type \in CallRefTypes /\ (\E g \in 1..n : gs[g].open /\ gs[g].call = l[i].call) => Len(w) = n
      BY <1>5, <1>9, <2>2, <2>3
    <2>g. Regrouped(w, gs, l, i)
      BY <2>7, <2>a, <2>b, <2>c, <2>d, <2>e, <2>f DEF Regrouped
    <2> QED
      BY <2>g DEF w
  <1> QED
    BY <1>7, <1>8, <1>9

IsGrouping(r, l, seqs) ==
  /\ r \in [0..Len(seqs) -> Groups]
  /\ r[0] = <<>> /\ r[Len(seqs)] = GroupEvents(l, seqs)
  /\ \A k \in 1..Len(seqs) : r[k] = AddToGroups(l, r[k - 1], seqs[k])

\* The groups are built event by event.
LEMMA GroupRuns ==
  ASSUME NEW l \in Logs, NEW seqs \in Seq(1..Len(l))
  PROVE  \E r : IsGrouping(r, l, seqs)
  <1> DEFINE n == Len(seqs)
             V == Groups
             Add(st, i) == AddToGroups(l, st, i)
             step == [p \in V \X (1..n) |-> Add(p[1], seqs[p[2]])]
             Is(f) == f = [t \in SUBSET (1..n) |->
                             IF t = {} THEN <<>> ELSE Add(f[t \ {MaxOf(t)}], seqs[MaxOf(t)])]
             h == CHOOSE f : Is(f)
  <1>1. n \in Nat /\ DOMAIN seqs = 1..n /\ \A i \in 1..n : seqs[i] \in 1..Len(l)
    OBVIOUS
  <1>2. <<>> \in V
    BY DEF Groups
  <1>3. \A v \in V, i \in 1..n :
          Add(v, seqs[i]) \in V /\ step[<<v, i>>] = Add(v, seqs[i])
    <2>1. \A v \in V, i \in 1..n : Regrouped(Add(v, seqs[i]), v, l, seqs[i])
      BY <1>1, AddRegroups
    <2> QED
      BY <1>1, <2>1 DEF Regrouped
  <1> HIDE DEF V, Add
  <1>4. step \in [V \X (1..n) -> V]
    BY <1>3
  <1>5. PICK g \in [SUBSET (1..n) -> V] : IsFold(g, n, <<>>, step)
    <2> HIDE DEF n, step
    <2> QED
      BY <1>1, <1>2, <1>4, FoldExists
  <1>6. Is(g)
    <2>1. ASSUME NEW t \in SUBSET (1..n), t # {}
          PROVE  step[<<g[t \ {MaxOf(t)}], MaxOf(t)>>] = Add(g[t \ {MaxOf(t)}], seqs[MaxOf(t)])
      <3>1. MaxOf(t) \in 1..n
        BY <1>1, <2>1, MaxOfSet
      <3>2. g[t \ {MaxOf(t)}] \in V
        BY <1>5
      <3> HIDE DEF step
      <3> QED
        BY <1>3, <3>1, <3>2
    <2> HIDE DEF step, n
    <2> QED
      BY <1>5, <2>1 DEF IsFold
  <1>7. Is(h)
    BY <1>6
  <1>8. GroupEvents(l, seqs) = h[1..n]
    <2>1. GroupEvents(l, seqs) = FoldLeft(Add, <<>>, seqs)
      BY DEF GroupEvents, Add
    <2>2. FoldLeft(Add, <<>>, seqs) = h[1..n]
      BY <1>1 DEF FoldLeft, MapThenFoldSet, Max, MaxOf
    <2> QED
      BY <2>1, <2>2
  <1> HIDE DEF h, n, step
  <1>9. h[1..0] = <<>>
    BY <1>1, <1>7
  <1>10. ASSUME NEW k \in 1..n PROVE h[1..k] = Add(h[1..(k - 1)], seqs[k])
    <2>1. /\ 1..k \in SUBSET (1..n) /\ 1..k # {}
          /\ MaxOf(1..k) = k /\ (1..k) \ {k} = 1..(k - 1)
      BY <1>1, MaxOfRange
    <2> QED
      BY <1>7, <2>1
  <1>11. \A k \in 0..n : h[1..k] \in V
    <2> DEFINE T == {k \in 0..n : h[1..k] \in V}
    <2>1. 0 \in T
      BY <1>1, <1>2, <1>9
    <2>2. ASSUME NEW k \in 0..(n - 1), k \in T PROVE k + 1 \in T
      <3>1. k + 1 \in 1..n /\ (k + 1) - 1 = k /\ k + 1 \in 0..n
        BY <1>1
      <3>2. h[1..(k + 1)] = Add(h[1..k], seqs[k + 1])
        BY <1>10, <3>1
      <3> QED
        BY <1>3, <2>2, <3>1, <3>2
    <2> HIDE DEF T
    <2>3. 0..n \subseteq T
      BY <1>1, <2>1, <2>2, BoundedInduction
    <2> QED
      BY <2>3 DEF T
  <1> DEFINE r == [k \in 0..n |-> h[1..k]]
  <1>12. r \in [0..n -> V] /\ r[0] = <<>> /\ r[n] = GroupEvents(l, seqs)
    BY <1>1, <1>8, <1>9, <1>11
  <1>13. \A k \in 1..n : r[k] = Add(r[k - 1], seqs[k])
    <2>1. \A k \in 1..n : k - 1 \in 0..n /\ k \in 0..n
      BY <1>1
    <2> QED
      BY <1>10, <2>1
  <1> HIDE DEF r
  <1>14. IsGrouping(r, l, seqs)
    BY <1>12, <1>13 DEF IsGrouping, n, V, Add
  <1> QED
    BY <1>14

-----------------------------------------------------------------------------
(* The groups of a log cover it and keep its calls whole. *)

\* The proposal p and what is listed behind it: proposals, then answers.
Runs(l, X, p) ==
  /\ p \in X /\ l[p].type = "tool_call_proposed"
  /\ \E m \in Nat : \A x \in X : x >= p =>
       IF x <= m THEN l[x].type = "tool_call_proposed" ELSE l[x].type \in CallRefTypes

\* x is an answer of the run that p belongs to, to the call id of p.
Follows(l, X, p, x) ==
  /\ p < x /\ l[x].type \in CallRefTypes /\ l[x].call = l[p].call
  /\ Runs(l, {y \in X : y <= x}, p)

\* Groups of the events of X.
GroupsCover(gs, X) ==
  /\ \A g \in 1..Len(gs) :
       /\ Len(gs[g].ids) >= 1 /\ Increasing(gs[g].ids)
       /\ \A o \in 1..Len(gs[g].ids) : gs[g].ids[o] \in X
  /\ \A x \in X : \E g \in 1..Len(gs) : \E o \in 1..Len(gs[g].ids) : gs[g].ids[o] = x

\* A group of several events is a proposal and what refers to its call id, and so
\* is a group that is open.
GroupsCausal(gs, l) ==
  \A g \in 1..Len(gs) :
    /\ \A o \in 1..Len(gs[g].ids) : o > 1 =>
         /\ l[gs[g].ids[o]].type \in CallRefTypes
         /\ l[gs[g].ids[o]].call = l[gs[g].ids[1]].call
         /\ l[gs[g].ids[1]].type = "tool_call_proposed"
    /\ gs[g].open =>
         l[gs[g].ids[1]].type = "tool_call_proposed" /\ gs[g].call = l[gs[g].ids[1]].call

\* While a run lasts, the groups of its proposals are open.
GroupsOpen(gs, l, X) ==
  /\ \A p \in X : Runs(l, X, p) =>
       \E g \in 1..Len(gs) :
         /\ gs[g].open /\ gs[g].call = l[p].call
         /\ (\A x \in X : x >= p => l[x].type = "tool_call_proposed") => ~gs[g].terminal
  /\ \A g \in 1..Len(gs), p \in X :
       Runs(l, X, p) /\ gs[g].open /\ gs[g].call = l[p].call => gs[g].ids[1] >= p

\* An answer joins its run, never an earlier call of the same id.
GroupsAnswer(gs, l, X) ==
  \A g \in 1..Len(gs), p \in X : \A o \in 1..Len(gs[g].ids) :
    Follows(l, X, p, gs[g].ids[o]) => o > 1 /\ gs[g].ids[1] >= p

Grouping(gs, l, X) ==
  /\ gs \in Groups
  /\ GroupsCover(gs, X) /\ GroupsCausal(gs, l) /\ GroupsOpen(gs, l, X) /\ GroupsAnswer(gs, l, X)

\* Where the ids of the groups end up.
Placed(w, gs, l, i) ==
  LET n == Len(gs)
  IN /\ n \in Nat /\ Len(w) \in {n, n + 1}
     /\ \A g \in 1..Len(w) : g \in 1..n \/ (g = n + 1 /\ Len(w) = n + 1)
     /\ \A g \in 1..n :
          LET k == Len(gs[g].ids)
          IN /\ k \in Nat /\ k >= 1 /\ Len(w[g].ids) \in {k, k + 1}
             /\ g \in 1..Len(w) /\ w[g].call = gs[g].call
             /\ \A o \in 1..k : w[g].ids[o] = gs[g].ids[o]
             /\ w[g].ids[1] = gs[g].ids[1]
             /\ \A o \in 1..Len(w[g].ids) : o \in 1..k \/ (o = k + 1 /\ Len(w[g].ids) = k + 1)
             /\ Len(w[g].ids) = k + 1 =>
                  /\ w[g].ids[k + 1] = i /\ gs[g].open
                  /\ gs[g].call = l[i].call /\ l[i].type \in CallRefTypes
     /\ Len(w) = n + 1 => Len(w[n + 1].ids) = 1 /\ w[n + 1].ids[1] = i

\* A regrouping puts the new event behind the others, in one place or several.
LEMMA RegroupPlaces ==
  ASSUME NEW l \in Logs, NEW X \in SUBSET (1..Len(l)), NEW gs, Grouping(gs, l, X),
         NEW i \in 1..Len(l), NEW w, Regrouped(w, gs, l, i)
  PROVE  Placed(w, gs, l, i)
  <1> DEFINE n == Len(gs)
  <1>1. gs \in Seq(CausalGroups) /\ n \in Nat /\ Len(w) \in {n, n + 1} /\ i \in Nat
    BY DEF Grouping, Groups, Regrouped
  <1>2. ASSUME NEW g \in 1..n
        PROVE  gs[g].ids \in Seq(Nat) /\ Len(gs[g].ids) >= 1
    <2>1. gs[g] \in CausalGroups
      BY <1>1
    <2> QED
      BY <2>1, GroupFields DEF Grouping, GroupsCover
  <1>3. ASSUME NEW g \in 1..n
        PROVE  LET k == Len(gs[g].ids)
               IN /\ k \in Nat /\ k >= 1 /\ Len(w[g].ids) \in {k, k + 1}
                  /\ g \in 1..Len(w) /\ w[g].call = gs[g].call
                  /\ \A o \in 1..k : w[g].ids[o] = gs[g].ids[o]
                  /\ w[g].ids[1] = gs[g].ids[1]
                  /\ \A o \in 1..Len(w[g].ids) : o \in 1..k \/ (o = k + 1 /\ Len(w[g].ids) = k + 1)
                  /\ Len(w[g].ids) = k + 1 =>
                       /\ w[g].ids[k + 1] = i /\ gs[g].open
                       /\ gs[g].call = l[i].call /\ l[i].type \in CallRefTypes
    <2> DEFINE v == gs[g].ids
               u == w[g].ids
               k == Len(v)
    <2>1. v \in Seq(Nat) /\ k \in Nat /\ k >= 1
      BY <1>2
    <2>2. /\ w[g].call = gs[g].call
          /\ \/ u = v
             \/ /\ u = Append(v, i) /\ gs[g].open
                /\ gs[g].call = l[i].call /\ l[i].type \in CallRefTypes
      BY DEF Regrouped
    <2>3. g \in 1..Len(w)
      BY <1>1
    <2>4. 1 \in 1..k /\ k + 1 # k
      <3> HIDE DEF k
      <3> QED
        BY <2>1
    <2>5. CASE u = v
      <3>1. Len(u) = k
        BY <2>5
      <3> QED
        BY <2>1, <2>2, <2>3, <2>4, <2>5, <3>1
    <2>6. CASE u # v
      <3>1. /\ u = Append(v, i) /\ gs[g].open
            /\ gs[g].call = l[i].call /\ l[i].type \in CallRefTypes
        BY <2>2, <2>6
      <3>2. Len(u) = k + 1 /\ u[k + 1] = i /\ \A o \in 1..k : u[o] = v[o]
        <4> HIDE DEF u, v
        <4> QED
          BY <1>1, <2>1, <3>1
      <3>3. \A o \in 1..(k + 1) : o \in 1..k \/ o = k + 1
        <4> HIDE DEF k
        <4> QED
          BY <2>1
      <3> QED
        BY <2>1, <2>2, <2>3, <2>4, <3>1, <3>2, <3>3
    <2> QED
      BY <2>5, <2>6
  <1>4. \A g \in 1..Len(w) : g \in 1..n \/ (g = n + 1 /\ Len(w) = n + 1)
    <2> DEFINE m == Len(w)
    <2> HIDE DEF n, m
    <2>1. m \in {n, n + 1}
      BY <1>1 DEF m
    <2>2. \A g \in 1..m : g \in 1..n \/ (g = n + 1 /\ m = n + 1)
      BY <1>1, <2>1
    <2> QED
      BY <2>2 DEF m
  <1>5. Len(w) = n + 1 => Len(w[n + 1].ids) = 1 /\ w[n + 1].ids[1] = i
    <2> DEFINE x == w[n + 1].ids
    <2>1. Len(w) = n + 1 => x = <<i>>
      BY DEF Regrouped
    <2> HIDE DEF x, n
    <2>2. x = <<i>> => Len(x) = 1 /\ x[1] = i
      BY <1>1
    <2> QED
      BY <2>1, <2>2 DEF x
  <1> QED
    BY <1>1, <1>3, <1>4, <1>5 DEF Placed

\* The groups hold the events listed, and no others.
LEMMA CoverStep ==
  ASSUME NEW l \in Logs, NEW X \in SUBSET (1..Len(l)), NEW gs, Grouping(gs, l, X),
         NEW i \in 1..Len(l), \A x \in X : x < i, NEW w, Regrouped(w, gs, l, i), Placed(w, gs, l, i)
  PROVE  GroupsCover(w, X \cup {i})
  <1> DEFINE n == Len(gs)
             Y == X \cup {i}
  <1>1. GroupsCover(gs, X) /\ n \in Nat /\ i \in Nat
    BY DEF Grouping, Placed
  <1>2. ASSUME NEW g \in 1..Len(w)
        PROVE  /\ Len(w[g].ids) >= 1 /\ Increasing(w[g].ids)
               /\ \A o \in 1..Len(w[g].ids) : w[g].ids[o] \in Y
    <2> DEFINE u == w[g].ids
    <2>1. CASE g \in 1..n
      <3> DEFINE v == gs[g].ids
                 k == Len(v)
      <3>1. /\ k \in Nat /\ k >= 1 /\ Len(u) \in {k, k + 1}
            /\ \A o \in 1..k : u[o] = v[o]
            /\ \A o \in 1..Len(u) : o \in 1..k \/ (o = k + 1 /\ u[o] = i)
        BY <2>1 DEF Placed
      <3>2. Increasing(v) /\ \A o \in 1..k : v[o] \in X
        BY <1>1, <2>1 DEF GroupsCover
      <3> HIDE DEF u, v, k
      <3>3. \A o \in 1..Len(u) : u[o] \in Y
        BY <3>1, <3>2
      <3>4. ASSUME NEW o \in 1..Len(u), NEW q \in 1..Len(u), o < q PROVE u[o] < u[q]
        <4>1. o \in 1..k
          BY <3>1, <3>4
        <4>2. CASE q \in 1..k
          <5>1. v[o] < v[q]
            BY <3>2, <3>4, <4>1, <4>2 DEF Increasing, k
          <5> QED
            BY <3>1, <4>1, <4>2, <5>1
        <4>3. CASE q \notin 1..k
          <5>1. u[q] = i /\ u[o] = v[o] /\ v[o] \in X
            BY <3>1, <3>2, <4>1, <4>3
          <5> QED
            BY <5>1
        <4> QED
          BY <4>2, <4>3
      <3>5. Increasing(u)
        BY <3>4 DEF Increasing
      <3>6. Len(u) >= 1
        BY <3>1
      <3> QED
        BY <3>3, <3>5, <3>6 DEF u
    <2>2. CASE g = n + 1 /\ Len(w) = n + 1
      <3>1. Len(u) = 1 /\ u[1] = i
        BY <2>2 DEF Placed
      <3> HIDE DEF u
      <3>2. \A o \in 1..Len(u) : o = 1 /\ u[o] = i
        BY <3>1
      <3>3. Increasing(u) /\ Len(u) >= 1
        BY <3>1, <3>2 DEF Increasing
      <3>4. \A o \in 1..Len(u) : u[o] \in Y
        BY <3>2
      <3> QED
        BY <3>3, <3>4 DEF u
    <2> QED
      BY <2>1, <2>2 DEF Placed
  <1>3. ASSUME NEW x \in Y PROVE \E g \in 1..Len(w) : \E o \in 1..Len(w[g].ids) : w[g].ids[o] = x
    <2>1. CASE x \in X
      <3>1. PICK g \in 1..n : \E o \in 1..Len(gs[g].ids) : gs[g].ids[o] = x
        BY <1>1, <2>1 DEF GroupsCover
      <3>2. PICK o \in 1..Len(gs[g].ids) : gs[g].ids[o] = x
        BY <3>1
      <3> DEFINE k == Len(gs[g].ids)
      <3>3. k \in Nat /\ Len(w[g].ids) \in {k, k + 1} /\ w[g].ids[o] = gs[g].ids[o] /\ g \in 1..Len(w)
        BY <3>2 DEF Placed
      <3>4. o \in 1..Len(w[g].ids)
        <4> HIDE DEF k
        <4>1. o \in 1..k
          BY DEF k
        <4> QED
          BY <3>3, <4>1
      <3> QED
        BY <3>2, <3>3, <3>4
    <2>2. CASE x = i
      <3>1. CASE Len(w) = n + 1
        <4>1. n + 1 \in 1..Len(w) /\ Len(w[n + 1].ids) = 1 /\ w[n + 1].ids[1] = i
          BY <1>1, <3>1 DEF Placed
        <4>2. 1 \in 1..Len(w[n + 1].ids)
          BY <4>1
        <4> QED
          BY <2>2, <4>1, <4>2
      <3>2. CASE Len(w) = n
        <4>1. PICK g \in 1..n : w[g].ids = Append(gs[g].ids, i)
          BY <3>2 DEF Regrouped
        <4> DEFINE v == gs[g].ids
        <4>2. v \in Seq(Nat)
          <5>1. gs[g] \in CausalGroups
            BY DEF Grouping, Groups
          <5> QED
            BY <5>1, GroupFields
        <4>3. Len(Append(v, i)) \in 1..Len(Append(v, i)) /\ Append(v, i)[Len(Append(v, i))] = i
          <5> HIDE DEF v
          <5> QED
            BY <1>1, <4>2
        <4>4. g \in 1..Len(w)
          BY <3>2
        <4> QED
          BY <2>2, <4>1, <4>3, <4>4
      <3> QED
        BY <3>1, <3>2 DEF Placed
    <2> QED
      BY <2>1, <2>2
  <1> QED
    BY <1>2, <1>3 DEF GroupsCover

\* The groups stay causal.
LEMMA CausalStep ==
  ASSUME NEW l \in Logs, NEW X \in SUBSET (1..Len(l)), NEW gs, Grouping(gs, l, X),
         NEW i \in 1..Len(l), NEW w, Regrouped(w, gs, l, i), Placed(w, gs, l, i)
  PROVE  GroupsCausal(w, l)
  <1> DEFINE n == Len(gs)
  <1>1. GroupsCausal(gs, l) /\ n \in Nat
    BY DEF Grouping, Placed
  <1> SUFFICES ASSUME NEW g \in 1..Len(w)
               PROVE  /\ \A o \in 1..Len(w[g].ids) : o > 1 =>
                           /\ l[w[g].ids[o]].type \in CallRefTypes
                           /\ l[w[g].ids[o]].call = l[w[g].ids[1]].call
                           /\ l[w[g].ids[1]].type = "tool_call_proposed"
                      /\ w[g].open => /\ l[w[g].ids[1]].type = "tool_call_proposed"
                                      /\ w[g].call = l[w[g].ids[1]].call
    BY DEF GroupsCausal
  <1>2. CASE g \in 1..n
    <2> DEFINE u == w[g].ids
               v == gs[g].ids
               k == Len(v)
    <2>1. /\ k \in Nat /\ k >= 1 /\ u[1] = v[1] /\ w[g].call = gs[g].call
          /\ \A o \in 1..k : u[o] = v[o]
          /\ \A o \in 1..Len(u) : o \in 1..k \/ (o = k + 1 /\ Len(u) = k + 1)
          /\ Len(u) = k + 1 => /\ u[k + 1] = i /\ gs[g].open
                               /\ gs[g].call = l[i].call /\ l[i].type \in CallRefTypes
      BY <1>2 DEF Placed
    <2>2. /\ \A o \in 1..k : o > 1 =>
               /\ l[v[o]].type \in CallRefTypes /\ l[v[o]].call = l[v[1]].call
               /\ l[v[1]].type = "tool_call_proposed"
          /\ gs[g].open => l[v[1]].type = "tool_call_proposed" /\ gs[g].call = l[v[1]].call
      BY <1>1, <1>2 DEF GroupsCausal
    <2>3. w[g].open => gs[g].open
      BY <1>2 DEF Regrouped
    <2> HIDE DEF u, v, k
    <2>4. ASSUME NEW o \in 1..Len(u), o > 1
          PROVE  /\ l[u[o]].type \in CallRefTypes /\ l[u[o]].call = l[u[1]].call
                 /\ l[u[1]].type = "tool_call_proposed"
      <3>1. CASE o \in 1..k
        BY <2>1, <2>2, <2>4, <3>1
      <3>2. CASE o \notin 1..k
        BY <2>1, <2>2, <3>2
      <3> QED
        BY <3>1, <3>2
    <2> QED
      BY <2>1, <2>2, <2>3, <2>4 DEF u
  <1>3. CASE g = n + 1 /\ Len(w) = n + 1
    <2>1. Len(w[g].ids) = 1 /\ w[g].ids[1] = i
      BY <1>3 DEF Placed
    <2>2. w[g].open => l[i].type = "tool_call_proposed" /\ w[g].call = l[i].call
      BY <1>3 DEF Regrouped
    <2>3. \A o \in 1..Len(w[g].ids) : ~(o > 1)
      BY <2>1
    <2> QED
      BY <2>1, <2>2, <2>3
  <1> QED
    BY <1>2, <1>3 DEF Placed

\* What ran on with one more event ran before it.
LEMMA RunsOn ==
  ASSUME NEW l \in Logs, NEW X \in SUBSET (1..Len(l)), NEW i \in 1..Len(l), \A x \in X : x < i,
         NEW p \in X, Runs(l, X \cup {i}, p)
  PROVE  /\ Runs(l, X, p)
         /\ l[i].type = "tool_call_proposed" \/ l[i].type \in CallRefTypes
         /\ l[i].type = "tool_call_proposed" => \A x \in X : x >= p => l[x].type = "tool_call_proposed"
  <1>1. PICK m \in Nat : \A x \in X \cup {i} : x >= p =>
          IF x <= m THEN l[x].type = "tool_call_proposed" ELSE l[x].type \in CallRefTypes
    BY DEF Runs
  <1>2. p \in Nat /\ i \in Nat /\ p < i /\ \A x \in X : x \in Nat /\ x < i
    OBVIOUS
  <1>3. Runs(l, X, p)
    BY <1>1 DEF Runs
  <1>4. IF i <= m THEN l[i].type = "tool_call_proposed" ELSE l[i].type \in CallRefTypes
    BY <1>1, <1>2
  <1>5. ASSUME l[i].type = "tool_call_proposed", NEW x \in X, x >= p
        PROVE  l[x].type = "tool_call_proposed"
    <2>1. i <= m
      BY <1>4, <1>5 DEF CallRefTypes
    <2>2. x <= m
      BY <1>2, <2>1
    <2> QED
      BY <1>1, <1>5, <2>2
  <1> QED
    BY <1>3, <1>4, <1>5

\* The groups of a run that goes on stay open.
LEMMA OpenStep ==
  ASSUME NEW l \in Logs, NEW X \in SUBSET (1..Len(l)), NEW gs, Grouping(gs, l, X),
         NEW i \in 1..Len(l), \A x \in X : x < i, NEW w, Regrouped(w, gs, l, i), Placed(w, gs, l, i)
  PROVE  GroupsOpen(w, l, X \cup {i})
  <1> DEFINE n == Len(gs)
             Y == X \cup {i}
  <1>1. n \in Nat /\ Len(w) \in {n, n + 1} /\ (\A g \in 1..n : g \in 1..Len(w))
        /\ \A g \in 1..Len(w) : g \in 1..n \/ (g = n + 1 /\ Len(w) = n + 1)
    BY DEF Placed
  <1>2. \A g \in 1..n : w[g].call = gs[g].call /\ w[g].ids[1] = gs[g].ids[1]
    BY DEF Placed
  <1>3. Len(w) = n + 1 => /\ w[n + 1].ids[1] = i
                          /\ w[n + 1].open => /\ l[i].type = "tool_call_proposed"
                                              /\ w[n + 1].call = l[i].call
    BY DEF Placed, Regrouped
  <1>4. l[i].type = "tool_call_proposed" =>
          /\ Len(w) = n + 1 /\ w[n + 1].open /\ ~w[n + 1].terminal
          /\ \A g \in 1..n :
               /\ w[g].open <=> gs[g].open /\ ~gs[g].terminal /\ gs[g].call # l[i].call
               /\ w[g].terminal <=> gs[g].terminal
    BY DEF Regrouped
  <1>5. l[i].type # "tool_call_proposed" => \A g \in 1..n : w[g].open <=> gs[g].open
    BY DEF Regrouped
  <1>6. /\ \A p \in X : Runs(l, X, p) =>
             \E g \in 1..n :
               /\ gs[g].open /\ gs[g].call = l[p].call
               /\ (\A x \in X : x >= p => l[x].type = "tool_call_proposed") => ~gs[g].terminal
        /\ \A g \in 1..n, p \in X :
             Runs(l, X, p) /\ gs[g].open /\ gs[g].call = l[p].call => gs[g].ids[1] >= p
    BY DEF Grouping, GroupsOpen
  <1>7. "tool_call_proposed" \notin CallRefTypes
    BY DEF CallRefTypes
  <1>8. i \in Nat /\ i >= i /\ (\A x \in X : i >= x) /\ (n + 1 \in 1..(n + 1))
    BY <1>1
  <1>9. ASSUME NEW p \in Y, Runs(l, Y, p)
        PROVE  \E g \in 1..Len(w) :
                 /\ w[g].open /\ w[g].call = l[p].call
                 /\ (\A x \in Y : x >= p => l[x].type = "tool_call_proposed") => ~w[g].terminal
    <2> HIDE DEF n
    <2>1. CASE l[i].type = "tool_call_proposed" /\ l[i].call = l[p].call
      <3>1. n + 1 \in 1..Len(w) /\ w[n + 1].open /\ ~w[n + 1].terminal /\ w[n + 1].call = l[p].call
        BY <1>3, <1>4, <1>8, <2>1
      <3> QED
        BY <3>1
    <2>2. CASE l[i].type = "tool_call_proposed" /\ l[i].call # l[p].call
      <3>1. p \in X
        BY <2>2
      <3>2. Runs(l, X, p) /\ \A x \in X : x >= p => l[x].type = "tool_call_proposed"
        BY <1>9, <2>2, <3>1, RunsOn
      <3>3. PICK g \in 1..n : gs[g].open /\ gs[g].call = l[p].call /\ ~gs[g].terminal
        BY <1>6, <3>1, <3>2
      <3>4. w[g].open /\ ~w[g].terminal /\ w[g].call = l[p].call /\ g \in 1..Len(w)
        BY <1>1, <1>2, <1>4, <2>2, <3>3
      <3> QED
        BY <3>4
    <2>3. CASE l[i].type # "tool_call_proposed"
      <3>1. p \in X
        BY <1>9, <2>3 DEF Runs
      <3>2. Runs(l, X, p)
        BY <1>9, <3>1, RunsOn
      <3>3. PICK g \in 1..n : gs[g].open /\ gs[g].call = l[p].call
        BY <1>6, <3>1, <3>2
      <3>4. w[g].open /\ w[g].call = l[p].call /\ g \in 1..Len(w)
        BY <1>1, <1>2, <1>5, <2>3, <3>3
      <3>5. i \in Y /\ i >= p
        BY <1>8, <3>1
      <3> QED
        BY <2>3, <3>4, <3>5
    <2> QED
      BY <2>1, <2>2, <2>3
  <1>10. ASSUME NEW g \in 1..Len(w), NEW p \in Y, Runs(l, Y, p), w[g].open, w[g].call = l[p].call
         PROVE  w[g].ids[1] >= p
    <2>1. CASE g \in 1..n
      <3>1. gs[g].open /\ gs[g].call = l[p].call
        BY <1>2, <1>4, <1>5, <1>10, <2>1
      <3>2. p \in X
        <4>1. ASSUME p = i PROVE FALSE
          <5>1. l[i].type = "tool_call_proposed"
            BY <1>10, <4>1 DEF Runs
          <5>2. gs[g].call # l[i].call
            BY <1>4, <1>10, <2>1, <5>1
          <5> QED
            BY <3>1, <4>1, <5>2
        <4> QED
          BY <4>1
      <3>3. Runs(l, X, p)
        BY <1>10, <3>2, RunsOn
      <3> QED
        BY <1>2, <1>6, <2>1, <3>1, <3>2, <3>3
    <2>2. CASE g = n + 1 /\ Len(w) = n + 1
      BY <1>3, <1>8, <2>2
    <2> QED
      BY <1>1, <2>1, <2>2
  <1> QED
    BY <1>9, <1>10 DEF GroupsOpen

\* An answer joins the run it belongs to.
LEMMA AnswerStep ==
  ASSUME NEW l \in Logs, NEW X \in SUBSET (1..Len(l)), NEW gs, Grouping(gs, l, X),
         NEW i \in 1..Len(l), \A x \in X : x < i, NEW w, Regrouped(w, gs, l, i), Placed(w, gs, l, i)
  PROVE  GroupsAnswer(w, l, X \cup {i})
  <1> DEFINE n == Len(gs)
             Y == X \cup {i}
  <1> SUFFICES ASSUME NEW g \in 1..Len(w), NEW p \in Y, NEW o \in 1..Len(w[g].ids),
                      Follows(l, Y, p, w[g].ids[o])
               PROVE  o > 1 /\ w[g].ids[1] >= p
    BY DEF GroupsAnswer
  <1> DEFINE x == w[g].ids[o]
  <1>1. /\ p < x /\ l[x].type \in CallRefTypes /\ l[x].call = l[p].call
        /\ Runs(l, {y \in Y : y <= x}, p)
    BY DEF Follows
  <1>2. x \in Y
    <2>1. GroupsCover(w, Y)
      BY CoverStep
    <2> HIDE DEF Y
    <2> QED
      BY <2>1 DEF GroupsCover
  <1>3. p \in X
    <2>1. x <= i /\ p \in Nat /\ i \in Nat /\ x \in Nat
      BY <1>2
    <2> HIDE DEF x
    <2> QED
      BY <1>1, <2>1
  <1>4. i \in Nat /\ \A y \in X : y \in Nat /\ y < i
    OBVIOUS
  <1> HIDE DEF x
  <1>5. CASE x = i
    <2>1. {y \in Y : y <= x} = X \cup {i}
      BY <1>4, <1>5
    <2>2. Runs(l, X, p)
      BY <1>1, <1>3, <2>1, RunsOn
    <2>3. PICK h \in 1..n : gs[h].open /\ gs[h].call = l[p].call
      BY <1>3, <2>2 DEF Grouping, GroupsOpen
    <2>4. Len(w) = n
      <3>1. gs[h].open /\ gs[h].call = l[i].call /\ l[i].type \in CallRefTypes
        BY <1>1, <1>5, <2>3
      <3> QED
        BY <3>1 DEF Regrouped
    <2>5. g \in 1..n
      BY <2>4
    <2> DEFINE v == gs[g].ids
               k == Len(v)
    <2>6. /\ k \in Nat /\ k >= 1 /\ w[g].ids[1] = v[1]
          /\ \A q \in 1..k : w[g].ids[q] = v[q]
          /\ o \in 1..k \/ (o = k + 1 /\ Len(w[g].ids) = k + 1)
          /\ Len(w[g].ids) = k + 1 => gs[g].open /\ gs[g].call = l[i].call
      BY <2>5 DEF Placed
    <2>7. \A q \in 1..k : v[q] \in X
      BY <2>5 DEF Grouping, GroupsCover
    <2>8. o \notin 1..k
      BY SMTT(20), <1>4, <1>5, <2>6, <2>7 DEF x
    <2>9. o = k + 1 /\ gs[g].open /\ gs[g].call = l[i].call
      BY <2>6, <2>8
    <2>10. gs[g].ids[1] >= p
      BY <1>1, <1>3, <1>5, <2>2, <2>5, <2>9 DEF Grouping, GroupsOpen
    <2> HIDE DEF k
    <2>11. o > 1
      BY <2>6, <2>9
    <2> QED
      BY <2>6, <2>10, <2>11
  <1>6. CASE x \in X
    <2>1. {y \in Y : y <= x} = {y \in X : y <= x}
      BY <1>4, <1>6
    <2>2. Follows(l, X, p, x)
      BY <1>1, <2>1 DEF Follows
    <2>3. g \in 1..n
      <3>1. ASSUME g = n + 1, Len(w) = n + 1 PROVE FALSE
        <4>1. Len(w[g].ids) = 1 /\ w[g].ids[1] = i
          BY <3>1 DEF Placed
        <4>2. x = i
          BY <4>1 DEF x
        <4> QED
          BY <1>4, <1>6, <4>2
      <3> QED
        BY <3>1 DEF Placed
    <2> DEFINE v == gs[g].ids
               k == Len(v)
    <2>4. /\ k \in Nat /\ w[g].ids[1] = v[1]
          /\ \A q \in 1..k : w[g].ids[q] = v[q]
          /\ o \in 1..k \/ (o = k + 1 /\ Len(w[g].ids) = k + 1)
          /\ Len(w[g].ids) = k + 1 => w[g].ids[k + 1] = i
      BY <2>3 DEF Placed
    <2>5. o \in 1..k
      BY <1>4, <1>6, <2>4 DEF x
    <2>6. v[o] = x
      BY <2>4, <2>5 DEF x
    <2>7. o > 1 /\ v[1] >= p
      BY <1>3, <2>2, <2>3, <2>5, <2>6 DEF Grouping, GroupsAnswer
    <2> QED
      BY <2>4, <2>7
  <1> QED
    BY <1>2, <1>5, <1>6

\* What group_events builds from seqs in order.
LEMMA GroupsHold ==
  ASSUME NEW l \in Logs, NEW seqs \in Seq(1..Len(l)), Increasing(seqs)
  PROVE  Grouping(GroupEvents(l, seqs), l, {seqs[k] : k \in 1..Len(seqs)})
  <1> DEFINE n == Len(seqs)
             X(k) == {seqs[q] : q \in 1..k}
  <1>1. n \in Nat /\ \A k \in 1..n : seqs[k] \in 1..Len(l)
    OBVIOUS
  <1>2. PICK r : IsGrouping(r, l, seqs)
    BY GroupRuns
  <1>3. \A k \in 0..n : X(k) \in SUBSET (1..Len(l))
    BY <1>1
  <1> DEFINE T == {k \in 0..n : Grouping(r[k], l, X(k))}
  <1>4. 0 \in T
    <2>1. r[0] = <<>> /\ Len(<<>>) = 0 /\ <<>> \in Groups
      BY <1>2 DEF IsGrouping, Groups
    <2>2. X(0) = {}
      OBVIOUS
    <2>3. Grouping(<<>>, l, {})
      BY <2>1 DEF Grouping, GroupsCover, GroupsCausal, GroupsOpen, GroupsAnswer
    <2>4. Grouping(r[0], l, X(0))
      <3>1. r[0] = <<>>
        BY <2>1
      <3> HIDE DEF X, n
      <3> QED
        BY <2>2, <2>3, <3>1
    <2>5. 0 \in 0..n
      BY <1>1
    <2> HIDE DEF X, n
    <2> QED
      BY <2>4, <2>5
  <1>5. ASSUME NEW k \in 0..(n - 1), k \in T PROVE k + 1 \in T
    <2> HIDE DEF n
    <2>1. k + 1 \in 1..n /\ (k + 1) - 1 = k /\ k + 1 \in 0..n /\ k \in 0..n
      BY <1>1
    <2> DEFINE i == seqs[k + 1]
               Z == X(k)
               gs == r[k]
               w == AddToGroups(l, gs, i)
    <2>2. r[k + 1] = w
      BY <1>2, <2>1 DEF IsGrouping, n
    <2>3. \A x \in Z : x < i
      <3> SUFFICES ASSUME NEW q \in 1..k PROVE seqs[q] < seqs[k + 1]
        OBVIOUS
      <3>1. q \in 1..Len(seqs) /\ k + 1 \in 1..Len(seqs) /\ q < k + 1
        BY <1>1, <2>1 DEF n
      <3> QED
        BY <3>1 DEF Increasing
    <2>4. X(k + 1) = Z \cup {i}
      <3>1. 1..(k + 1) = (1..k) \cup {k + 1}
        BY <2>1
      <3> QED
        BY <3>1
    <2>5. Z \in SUBSET (1..Len(l)) /\ i \in 1..Len(l)
      BY <1>1, <1>3, <2>1
    <2>6. Grouping(gs, l, Z)
      <3> HIDE DEF X
      <3> QED
        BY <1>5
    <2>7. Regrouped(w, gs, l, i)
      <3> HIDE DEF i, Z, gs
      <3>1. gs \in Groups
        BY <2>6 DEF Grouping
      <3> QED
        BY <2>5, <3>1, AddRegroups
    <2> HIDE DEF i, Z, gs, w, T, X
    <2>8. Placed(w, gs, l, i)
      BY <2>5, <2>6, <2>7, RegroupPlaces
    <2>9. GroupsCover(w, Z \cup {i})
      BY <2>3, <2>5, <2>6, <2>7, <2>8, CoverStep
    <2>10. GroupsCausal(w, l)
      BY <2>5, <2>6, <2>7, <2>8, CausalStep
    <2>11. GroupsOpen(w, l, Z \cup {i})
      BY <2>3, <2>5, <2>6, <2>7, <2>8, OpenStep
    <2>12. GroupsAnswer(w, l, Z \cup {i})
      BY <2>3, <2>5, <2>6, <2>7, <2>8, AnswerStep
    <2>13. w \in Groups
      BY <2>7 DEF Regrouped
    <2>14. Grouping(r[k + 1], l, X(k + 1))
      BY <2>2, <2>4, <2>9, <2>10, <2>11, <2>12, <2>13 DEF Grouping
    <2> QED
      BY <2>1, <2>14 DEF T
  <1> HIDE DEF T
  <1>6. 0..n \subseteq T
    BY <1>1, <1>4, <1>5, BoundedInduction
  <1>7. n \in T
    BY <1>1, <1>6
  <1>8. Grouping(r[n], l, X(n))
    BY <1>7 DEF T
  <1>9. r[n] = GroupEvents(l, seqs)
    BY <1>2 DEF IsGrouping
  <1> QED
    BY <1>8, <1>9

-----------------------------------------------------------------------------
(* Snapshots, and what holds of every log. *)

Snaps(l) == {i \in DOMAIN l : l[i].type = "context_snapshot"}

\* The snapshots of a log, the newest of them, and what it covers.
LEMMA SnapshotFacts ==
  ASSUME NEW l \in Logs
  PROVE  /\ {Snapshots(l)[k] : k \in DOMAIN Snapshots(l)} = Snaps(l)
         /\ Snaps(l) \in SUBSET (1..Len(l))
         /\ Snaps(l) = {} => CoveredEnd(l) = 0 /\ ActiveSnapshot(l) = 0 /\ Summary(l) = <<>>
         /\ Snaps(l) # {} =>
              /\ ActiveSnapshot(l) \in Snaps(l)
              /\ \A s \in Snaps(l) : s <= ActiveSnapshot(l)
              /\ CoveredEnd(l) = l[ActiveSnapshot(l)].to
              /\ Summary(l) = <<Message("assistant", <<ActiveSnapshot(l)>>)>>
  <1> DEFINE w == Snapshots(l)
             n == Len(w)
  <1>1. DOMAIN l = 1..Len(l) /\ Len(l) \in Nat
    BY DEF Logs
  <1>2. Snaps(l) \in SUBSET (1..Len(l))
    BY <1>1 DEF Snaps
  <1>3. w = Seqs(l, Snaps(l))
    BY DEF Snapshots, Snaps
  <1>4. ListsSet(w, Snaps(l))
    <2>1. l \in Seq(Events)
      BY DEF Logs
    <2> HIDE DEF w
    <2> QED
      BY <1>2, <1>3, <2>1, SeqsList
  <1> HIDE DEF w
  <1>5. /\ w \in Seq(Nat) /\ n \in Nat /\ DOMAIN w = 1..n
        /\ (\A i \in 1..n : w[i] \in Snaps(l)) /\ \A x \in Snaps(l) : \E i \in 1..n : w[i] = x
    BY <1>4 DEF ListsSet
  <1>6. {w[k] : k \in DOMAIN w} = Snaps(l)
    BY <1>5
  <1>7. Snaps(l) = {} => w = <<>>
    <2>1. Snaps(l) = {} => 1..n = {}
      BY <1>5
    <2> QED
      BY <1>5, <2>1
  <1>8. CASE Snaps(l) = {}
    BY <1>2, <1>6, <1>7, <1>8 DEF CoveredEnd, ActiveSnapshot, Summary, w
  <1>9. CASE Snaps(l) # {}
    <2>1. w # <<>> /\ n \in 1..n
      BY <1>5, <1>9
    <2>2. ActiveSnapshot(l) = w[n]
      BY <2>1 DEF ActiveSnapshot, w, Last
    <2>3. \A i \in 1..n : i < n => w[i] < w[n]
      BY <1>4, <2>1 DEF ListsSet, Increasing
    <2>4. \A s \in Snaps(l) : s <= w[n]
      <3> SUFFICES ASSUME NEW s \in Snaps(l) PROVE s <= w[n]
        OBVIOUS
      <3>1. PICK i \in 1..n : w[i] = s
        BY <1>5
      <3>2. n \in Nat /\ w[i] \in Nat
        BY <1>5
      <3> HIDE DEF n
      <3>3. i < n \/ i = n
        BY <3>2
      <3>4. w[i] <= w[n]
        <4>1. CASE i < n
          <5>1. w[i] < w[n] /\ w[n] \in Nat
            BY <1>5, <2>1, <2>3, <4>1
          <5> QED
            BY <3>2, <5>1
        <4>2. CASE i = n
          BY <3>2, <4>2
        <4> QED
          BY <3>3, <4>1, <4>2
      <3> QED
        BY <3>1, <3>4
    <2>5. CoveredEnd(l) = l[ActiveSnapshot(l)].to
          /\ Summary(l) = <<Message("assistant", <<ActiveSnapshot(l)>>)>>
      BY <2>1 DEF CoveredEnd, Summary, w
    <2>6. w[n] \in Snaps(l)
      BY <1>5, <2>1
    <2> QED
      BY <1>2, <1>6, <1>9, <2>2, <2>4, <2>5, <2>6 DEF w
  <1> QED
    BY <1>8, <1>9

\* Every snapshot covers what lies before it, and reaches further than those
\* before it.
SnapshotsOK(l) ==
  /\ \A s \in Snaps(l) : 1 <= l[s].from /\ l[s].from <= l[s].to /\ l[s].to < s
  /\ \A s, t \in Snaps(l) : s < t => l[s].to < l[t].to

\* How far the snapshots reach.
LEMMA CoveredEndFacts ==
  ASSUME NEW l \in Logs, SnapshotsOK(l)
  PROVE  /\ CoveredEnd(l) \in Nat /\ CoveredEnd(l) <= Len(l) /\ Len(l) \in Nat
         /\ \A s \in Snaps(l) : s \in 1..Len(l) /\ l[s].to \in Nat /\ l[s].to <= CoveredEnd(l)
         /\ CoveredEnd(l) > 0 => ActiveSnapshot(l) \in Snaps(l) /\ CoveredEnd(l) < ActiveSnapshot(l)
  <1>1. \A s \in 1..Len(l) : l[s].to \in Nat /\ l[s].from \in Nat
    <2> SUFFICES ASSUME NEW s \in 1..Len(l) PROVE l[s].to \in Nat /\ l[s].from \in Nat
      OBVIOUS
    <2>1. l[s] \in Events
      BY DEF Logs
    <2> QED
      BY <2>1 DEF Events
  <1>2. Len(l) \in Nat /\ Snaps(l) \in SUBSET (1..Len(l))
    <2>1. Len(l) \in Nat
      BY DEF Logs
    <2> QED
      BY <2>1, SnapshotFacts
  <1>3. CASE Snaps(l) = {}
    <2>1. CoveredEnd(l) = 0
      BY <1>3, SnapshotFacts
    <2>2. Len(l) \in Nat
      BY <1>2
    <2>3. CoveredEnd(l) \in Nat /\ CoveredEnd(l) <= Len(l) /\ ~(CoveredEnd(l) > 0)
      BY <2>1, <2>2
    <2> QED
      BY <1>3, <2>2, <2>3
  <1>4. CASE Snaps(l) # {}
    <2> DEFINE a == ActiveSnapshot(l)
               c == CoveredEnd(l)
    <2>1. a \in Snaps(l) /\ (\A s \in Snaps(l) : s <= a) /\ c = l[a].to
      BY <1>4, SnapshotFacts
    <2>2. a \in 1..Len(l) /\ c \in Nat /\ c < a
      BY <1>1, <1>2, <2>1 DEF SnapshotsOK
    <2> HIDE DEF a, c
    <2>3. ASSUME NEW s \in Snaps(l) PROVE l[s].to <= c
      <3>1. s < a \/ s = a
        BY <1>2, <2>1, <2>2
      <3>2. s < a => l[s].to < c
        BY <2>1 DEF SnapshotsOK
      <3>3. l[s].to \in Nat
        BY <1>1, <1>2
      <3> QED
        BY <2>1, <2>2, <3>1, <3>2, <3>3
    <2>4. c <= Len(l)
      BY <1>2, <2>2
    <2> QED
      BY <1>1, <1>2, <2>1, <2>2, <2>3, <2>4 DEF a, c
  <1> QED
    BY <1>3, <1>4

-----------------------------------------------------------------------------
\* Answers and Stray of a given log.
AnswersIn(l, p, i) ==
  /\ l[p] = Event("tool_call_proposed", l[i].call)
  /\ \E m \in p..(i - 1) : /\ \A z \in p..m : l[z].type = "tool_call_proposed"
                           /\ \A z \in (m + 1)..i : l[z].type \in CallRefTypes
StrayIn(l, i) == l[i].type = "tool_result" /\ \A p \in 1..(i - 1) : ~AnswersIn(l, p, i)

CoveredBy(l, i) == \E s \in Snaps(l) : l[s].from <= i /\ i <= l[s].to

\* What a snapshot has left behind, it covers.
CoversAll(l, whole) ==
  \A i \in 1..CoveredEnd(l) : Conversational(l[i].type) =>
    CoveredBy(l, i) \/ (~whole /\ StrayIn(l, i))

\* No snapshot cuts a round: an answer beyond it has its proposal beyond it.
RunsUncut(l) ==
  \A i \in 1..Len(l), p \in 1..Len(l) :
    p < i /\ i > CoveredEnd(l) /\ AnswersIn(l, p, i) =>
      \E q \in 1..Len(l) : q > CoveredEnd(l) /\ q < i /\ AnswersIn(l, q, i)

Answered(l) ==
  \A i \in 1..Len(l) : l[i].type \in CallRefTypes => \E p \in 1..Len(l) : p < i /\ AnswersIn(l, p, i)

LogInv(l, whole) ==
  /\ l \in Logs /\ whole \in BOOLEAN
  /\ SnapshotsOK(l) /\ CoversAll(l, whole) /\ RunsUncut(l)
  /\ whole => Answered(l)

\* Whether an event answers another does not depend on what follows.
LEMMA SameAnswers ==
  ASSUME NEW l \in Logs, NEW m \in Logs, Len(l) <= Len(m), \A k \in 1..Len(l) : m[k] = l[k],
         NEW i \in 1..Len(l)
  PROVE  /\ \A p \in 1..i : AnswersIn(m, p, i) <=> AnswersIn(l, p, i)
         /\ StrayIn(m, i) <=> StrayIn(l, i)
  <1>1. Len(l) \in Nat /\ i \in Nat
    BY DEF Logs
  <1>2. ASSUME NEW p \in 1..i PROVE AnswersIn(m, p, i) <=> AnswersIn(l, p, i)
    <2>1. m[p] = l[p] /\ m[i] = l[i]
      BY <1>1
    <2>2. \A q \in p..(i - 1) :
            /\ \A z \in p..q : m[z] = l[z]
            /\ \A z \in (q + 1)..i : m[z] = l[z]
      BY <1>1
    <2> QED
      BY <2>1, <2>2 DEF AnswersIn
  <1>3. \A p \in 1..(i - 1) : p \in 1..i
    BY <1>1
  <1> QED
    BY <1>1, <1>2, <1>3 DEF StrayIn

\* What has been read off a log stays as it is while no snapshot is added.
LEMMA LongerLog ==
  ASSUME NEW l \in Logs, NEW m \in Logs, Len(l) <= Len(m), \A k \in 1..Len(l) : m[k] = l[k],
         \A k \in 1..Len(m) : k > Len(l) => m[k].type # "context_snapshot"
  PROVE  /\ Snaps(m) = Snaps(l) /\ CoveredEnd(m) = CoveredEnd(l)
         /\ ActiveSnapshot(m) = ActiveSnapshot(l) /\ Summary(m) = Summary(l)
  <1>1. Len(l) \in Nat /\ Len(m) \in Nat /\ DOMAIN l = 1..Len(l) /\ DOMAIN m = 1..Len(m)
    BY DEF Logs
  <1>2. Snaps(m) = Snaps(l)
    <2>1. \A k \in 1..Len(m) : k \in 1..Len(l) \/ k > Len(l)
      BY <1>1
    <2>2. \A k \in 1..Len(l) : k \in 1..Len(m)
      BY <1>1
    <2> QED
      BY <1>1, <2>1, <2>2 DEF Snaps
  <1>3. CASE Snaps(l) = {}
    BY <1>2, <1>3, SnapshotFacts
  <1>4. CASE Snaps(l) # {}
    <2> DEFINE a == ActiveSnapshot(l)
               b == ActiveSnapshot(m)
    <2>1. a \in Snaps(l) /\ b \in Snaps(l) /\ (\A s \in Snaps(l) : s <= a) /\ \A s \in Snaps(l) : s <= b
      BY <1>2, <1>4, SnapshotFacts
    <2>2. Snaps(l) \in SUBSET (1..Len(l))
      BY SnapshotFacts
    <2> HIDE DEF a, b
    <2>3. a = b /\ a \in 1..Len(l)
      BY <2>1, <2>2
    <2>4. m[a] = l[a]
      BY <2>3
    <2> QED
      BY <1>2, <1>4, <2>3, <2>4, SnapshotFacts DEF a, b
  <1> QED
    BY <1>3, <1>4

\* The invariant of the log is kept by events that are no snapshots, if those
\* that answer have what they answer.
LEMMA LongerLogInv ==
  ASSUME NEW l, NEW whole, LogInv(l, whole), NEW still \in BOOLEAN, still => whole,
         NEW m \in Logs, Len(l) <= Len(m), \A k \in 1..Len(l) : m[k] = l[k],
         \A k \in 1..Len(m) : k > Len(l) => m[k].type # "context_snapshot",
         still => \A i \in 1..Len(m) : i > Len(l) /\ m[i].type \in CallRefTypes =>
                    \E p \in 1..Len(m) : p < i /\ AnswersIn(m, p, i)
  PROVE  LogInv(m, still)
  <1> DEFINE c == CoveredEnd(l)
  <1>1. l \in Logs /\ SnapshotsOK(l) /\ CoversAll(l, whole) /\ RunsUncut(l) /\ (whole => Answered(l))
    BY DEF LogInv
  <1>2. Snaps(m) = Snaps(l) /\ CoveredEnd(m) = c
    BY <1>1, LongerLog
  <1>3. /\ c \in Nat /\ c <= Len(l) /\ Len(l) \in Nat /\ Len(m) \in Nat
        /\ \A s \in Snaps(l) : s \in 1..Len(l)
        /\ c > 0 => ActiveSnapshot(l) \in Snaps(l) /\ c < ActiveSnapshot(l)
    BY <1>1, CoveredEndFacts DEF Logs
  <1> HIDE DEF c
  <1>4. \A s \in Snaps(l) : m[s] = l[s]
    BY <1>3
  <1>5. SnapshotsOK(m)
    BY <1>1, <1>2, <1>4 DEF SnapshotsOK
  <1>6. ASSUME NEW i \in 1..Len(l)
        PROVE  /\ m[i] = l[i] /\ i \in 1..Len(m)
               /\ \A p \in 1..i : AnswersIn(m, p, i) <=> AnswersIn(l, p, i)
               /\ StrayIn(m, i) <=> StrayIn(l, i)
    BY <1>1, <1>3, SameAnswers
  <1>7. CoversAll(m, still)
    <2> SUFFICES ASSUME NEW i \in 1..c, Conversational(m[i].type)
                 PROVE  CoveredBy(m, i) \/ (~still /\ StrayIn(m, i))
      BY <1>2 DEF CoversAll
    <2>1. i \in 1..Len(l)
      BY <1>3
    <2>2. CoveredBy(l, i) \/ (~whole /\ StrayIn(l, i))
      BY <1>1, <1>6, <2>1 DEF CoversAll, c
    <2> QED
      BY <1>2, <1>4, <1>6, <2>1, <2>2 DEF CoveredBy
  <1>8. RunsUncut(m)
    <2> SUFFICES ASSUME NEW i \in 1..Len(m), NEW p \in 1..Len(m), p < i, i > c, AnswersIn(m, p, i)
                 PROVE  \E q \in 1..Len(m) : q > c /\ q < i /\ AnswersIn(m, q, i)
      BY <1>2 DEF RunsUncut
    <2>1. CASE i \in 1..Len(l)
      <3>1. p \in 1..i /\ p \in 1..Len(l)
        BY <2>1
      <3>2. AnswersIn(l, p, i)
        BY <1>6, <2>1, <3>1
      <3>3. PICK q \in 1..Len(l) : q > c /\ q < i /\ AnswersIn(l, q, i)
        BY <1>1, <2>1, <3>1, <3>2 DEF RunsUncut, c
      <3>4. q \in 1..i /\ q \in 1..Len(m)
        BY <1>3, <3>3
      <3> QED
        BY <1>6, <2>1, <3>3, <3>4
    <2>2. CASE i > Len(l)
      <3>1. ASSUME ~(p > c) PROVE FALSE
        <4> DEFINE a == ActiveSnapshot(l)
        <4>1. c > 0 /\ a \in Snaps(l) /\ c < a /\ a \in 1..Len(l)
          BY <1>3, <3>1
        <4>2. a \in p..i /\ m[a].type = "context_snapshot"
          <5>1. l[a].type = "context_snapshot"
            BY <4>1 DEF Snaps
          <5> HIDE DEF a
          <5> QED
            BY <1>3, <1>4, <2>2, <3>1, <4>1, <5>1
        <4>3. PICK k \in p..(i - 1) : /\ \A z \in p..k : m[z].type = "tool_call_proposed"
                                      /\ \A z \in (k + 1)..i : m[z].type \in CallRefTypes
          BY DEF AnswersIn
        <4> HIDE DEF a
        <4>4. a \in p..k \/ a \in (k + 1)..i
          BY <4>2
        <4> QED
          BY <4>2, <4>3, <4>4 DEF CallRefTypes
      <3> QED
        BY <3>1
    <2> QED
      BY <1>3, <2>1, <2>2
  <1>9. still => Answered(m)
    <2> SUFFICES ASSUME still, NEW i \in 1..Len(m), m[i].type \in CallRefTypes
                 PROVE  \E p \in 1..Len(m) : p < i /\ AnswersIn(m, p, i)
      BY DEF Answered
    <2>1. CASE i \in 1..Len(l)
      <3>1. PICK p \in 1..Len(l) : p < i /\ AnswersIn(l, p, i)
        BY <1>1, <1>6, <2>1 DEF Answered
      <3>2. p \in 1..i /\ p \in 1..Len(m)
        BY <1>3, <2>1, <3>1
      <3> QED
        BY <1>6, <2>1, <3>1, <3>2
    <2>2. CASE i > Len(l)
      BY <2>2
    <2> QED
      BY <1>3, <2>1, <2>2
  <1> QED
    BY <1>5, <1>7, <1>8, <1>9 DEF LogInv

-----------------------------------------------------------------------------
(* What the model is shown. *)

Beyond(l) == {i \in 1..Len(l) : i > CoveredEnd(l)}
Shown(shown, i) == \E k \in 1..Len(shown) : \E o \in 1..Len(shown[k].ids) : shown[k].ids[o] = i

\* What is projected beyond the newest snapshot.
LEMMA TailShows ==
  ASSUME NEW l \in Logs
  PROVE  LET tail == ProjectEvents(l, After(l, CoveredEnd(l)))
         IN /\ After(l, CoveredEnd(l)) \in Seq(1..Len(l)) /\ Increasing(After(l, CoveredEnd(l)))
            /\ {After(l, CoveredEnd(l))[k] : k \in 1..Len(After(l, CoveredEnd(l)))} = Beyond(l)
            /\ Faithful(tail, l, Beyond(l))
            /\ \A i \in Beyond(l) : Conversational(l[i].type) => Shown(tail, i)
            /\ FlattenSeq(Ids(tail)) \in Seq(Nat) /\ Increasing(FlattenSeq(Ids(tail)))
  <1> DEFINE seqs == After(l, CoveredEnd(l))
             tail == ProjectEvents(l, seqs)
             n == Len(seqs)
             flat == FlattenSeq(Ids(tail))
  <1>1. l \in Seq(Events) /\ DOMAIN l = 1..Len(l)
    BY DEF Logs
  <1>2. Beyond(l) \in SUBSET (1..Len(l)) /\ Spoken(l) = {i \in 1..Len(l) : Conversational(l[i].type)}
    BY <1>1 DEF Beyond, Spoken
  <1>3. seqs = Seqs(l, Beyond(l))
    BY <1>1 DEF After, Beyond
  <1> HIDE DEF seqs
  <1>4. ListsSet(seqs, Beyond(l)) /\ \A k \in 1..n : seqs[k] \in 1..Len(l)
    BY <1>1, <1>2, <1>3, SeqsList
  <1>5. seqs \in Seq(Nat) /\ Increasing(seqs)
        /\ (\A k \in 1..n : seqs[k] \in Beyond(l)) /\ \A i \in Beyond(l) : \E k \in 1..n : seqs[k] = i
    BY <1>4 DEF ListsSet
  <1>6. seqs \in Seq(1..Len(l))
    BY <1>4, <1>5
  <1>7. {seqs[k] : k \in 1..n} = Beyond(l)
    BY <1>5
  <1> HIDE DEF n
  <1>8. Faithful(tail, l, Beyond(l)) /\ flat = Select(seqs, Spoken(l))
    <2>1. Faithful(tail, l, {seqs[k] : k \in 1..Len(seqs)}) /\ flat = Select(seqs, Spoken(l))
      BY <1>5, <1>6, ProjectShows
    <2> QED
      BY <1>7, <2>1 DEF n
  <1> HIDE DEF tail
  <1>9. tail \in Seq(Shows)
    BY <1>8 DEF Faithful
  <1>10. Ids(tail) \in Seq(Seq(Nat)) /\ Len(Ids(tail)) = Len(tail) /\ flat \in Seq(Nat)
    BY <1>9, IdsFlatten
  <1>11. ComesOutOf(flat, Ids(tail))
    BY <1>10, FlattenPlaces
  <1>12. HoldsMembers(flat, seqs, Nat, Spoken(l))
    BY <1>5, <1>8, SelectMembers
  <1>13. seqs \in Seq(Int)
    BY <1>5
  <1>14. Increasing(flat)
    BY <1>5, <1>8, <1>13, SelectIncreasing
  <1> HIDE DEF flat
  <1>15. ASSUME NEW i \in Beyond(l), Conversational(l[i].type) PROVE Shown(tail, i)
    <2>1. i \in Spoken(l)
      BY <1>2, <1>15
    <2>2. PICK k \in 1..n : seqs[k] = i
      BY <1>5
    <2>3. PICK p \in 1..Len(flat) : flat[p] = i
      <3>1. seqs[k] \in Spoken(l) => \E p \in 1..Len(flat) : flat[p] = seqs[k]
        BY <1>12, <2>2 DEF HoldsMembers, n
      <3> QED
        BY <2>1, <2>2, <3>1
    <2>4. PICK b \in 1..Len(Ids(tail)) : \E o \in 1..Len(Ids(tail)[b]) : flat[p] = Ids(tail)[b][o]
      BY <1>11 DEF ComesOutOf
    <2>5. b \in 1..Len(tail) /\ Ids(tail)[b] = tail[b].ids
      <3>1. b \in 1..Len(tail)
        BY <1>10
      <3>2. DOMAIN tail = 1..Len(tail)
        BY <1>9
      <3> QED
        BY <3>1, <3>2 DEF Ids
    <2> QED
      BY <2>3, <2>4, <2>5 DEF Shown
  <1> QED
    BY <1>5, <1>6, <1>7, <1>8, <1>10, <1>14, <1>15 DEF tail, seqs, n, flat

\* A summary shows the snapshot it is taken from.
LEMMA SummaryShows ==
  ASSUME NEW l \in Logs
  PROVE  /\ Summary(l) \in Seq(Shows) /\ Len(Summary(l)) \in {0, 1}
         /\ \A k \in 1..Len(Summary(l)) :
              /\ Summary(l)[k].role = "assistant"
              /\ \A o \in 1..Len(Summary(l)[k].ids) :
                   Summary(l)[k].ids[o] \in Snaps(l)
  <1>1. CASE Snaps(l) = {}
    <2>1. Summary(l) = <<>>
      BY <1>1, SnapshotFacts
    <2> QED
      BY <2>1
  <1>2. CASE Snaps(l) # {}
    <2> DEFINE m == Message("assistant", <<ActiveSnapshot(l)>>)
    <2>1. Summary(l) = <<m>> /\ ActiveSnapshot(l) \in Snaps(l) /\ Snaps(l) \in SUBSET (1..Len(l))
      BY <1>2, SnapshotFacts
    <2>2. m \in Shows /\ m.role = "assistant" /\ m.ids = <<ActiveSnapshot(l)>>
      BY <2>1 DEF Message, Shows
    <2> HIDE DEF m
    <2>3. \A o \in 1..Len(m.ids) : m.ids[o] = ActiveSnapshot(l)
      BY <2>2
    <2>4. <<m>> \in Seq(Shows) /\ Len(<<m>>) = 1 /\ \A k \in 1..1 : <<m>>[k] = m
      BY <2>2
    <2> QED
      BY <2>1, <2>2, <2>3, <2>4
  <1> QED
    BY <1>1, <1>2

\* What the model is shown, message by message.
LEMMA ProviderParts ==
  ASSUME NEW l \in Logs
  PROVE  LET s == Len(Summary(l))
             tail == ProjectEvents(l, After(l, CoveredEnd(l)))
             provider == ProviderMessages(l)
         IN /\ s \in Nat /\ Len(tail) \in Nat /\ provider \in Seq(Shows) /\ Len(provider) = s + Len(tail)
            /\ \A k \in 1..s : provider[k] = Summary(l)[k]
            /\ \A k \in 1..Len(tail) : provider[s + k] = tail[k]
            /\ \A k \in 1..Len(provider) : k \in 1..s \/ k - s \in 1..Len(tail)
  <1> DEFINE sum == Summary(l)
             tail == ProjectEvents(l, After(l, CoveredEnd(l)))
             provider == ProviderMessages(l)
  <1>1. sum \in Seq(Shows)
    BY SummaryShows
  <1>2. tail \in Seq(Shows)
    <2>1. Faithful(tail, l, Beyond(l))
      BY TailShows
    <2> QED
      BY <2>1 DEF Faithful
  <1>3. provider = sum \o tail
    BY DEF ProviderMessages
  <1> HIDE DEF sum, tail, provider
  <1>4. /\ sum \o tail \in Seq(Shows) /\ Len(sum \o tail) = Len(sum) + Len(tail)
        /\ Len(sum) \in Nat /\ Len(tail) \in Nat
        /\ \A p \in 1..Len(sum) : (sum \o tail)[p] = sum[p]
        /\ \A p \in 1..Len(tail) : (sum \o tail)[Len(sum) + p] = tail[p]
    BY <1>1, <1>2, Joined
  <1>5. \A k \in 1..(Len(sum) + Len(tail)) : k \in 1..Len(sum) \/ k - Len(sum) \in 1..Len(tail)
    BY <1>4
  <1> QED
    BY <1>3, <1>4, <1>5 DEF sum, tail, provider

\* Under the invariant of the log, the projection is complete.
LEMMA CompleteProjection ==
  ASSUME LogInv(log, intact)
  PROVE  CoveredOrShown
  <1> DEFINE l == log
             c == CoveredEnd(l)
             tail == ProjectEvents(l, After(l, c))
             provider == ProviderMessages(l)
             s == Len(Summary(l))
             ids == FlattenSeq(Ids(tail))
             Covered(i) == \E x \in Range(Snapshots(l)) : l[x].from <= i /\ i <= l[x].to
             Seen(i) == \E k \in DOMAIN provider : i \in Range(provider[k].ids)
  <1>1. l \in Logs /\ SnapshotsOK(l) /\ CoversAll(l, intact)
    BY DEF LogInv
  <1>2. /\ c \in Nat /\ c <= Len(l) /\ Len(l) \in Nat /\ DOMAIN l = 1..Len(l)
        /\ \A x \in Snaps(l) : l[x].to \in Nat /\ l[x].to <= c
    <2>1. DOMAIN l = 1..Len(l)
      BY <1>1 DEF Logs
    <2> QED
      BY <1>1, <2>1, CoveredEndFacts
  <1>3. Range(Snapshots(l)) = Snaps(l)
    BY <1>1, SnapshotFacts DEF Range
  <1>4. /\ Faithful(tail, l, Beyond(l))
        /\ \A i \in Beyond(l) : Conversational(l[i].type) => Shown(tail, i)
        /\ ids \in Seq(Nat) /\ Increasing(ids)
    BY <1>1, TailShows
  <1>5. /\ s \in Nat /\ Len(tail) \in Nat /\ provider \in Seq(Shows) /\ Len(provider) = s + Len(tail)
        /\ \A k \in 1..s : provider[k] = Summary(l)[k]
        /\ \A k \in 1..Len(tail) : provider[s + k] = tail[k]
        /\ \A k \in 1..Len(provider) : k \in 1..s \/ k - s \in 1..Len(tail)
    BY <1>1, ProviderParts
  <1>6. \A k \in 1..s : \A o \in 1..Len(Summary(l)[k].ids) : Summary(l)[k].ids[o] \in Snaps(l)
    BY <1>1, SummaryShows
  <1>7. \A k \in 1..Len(provider) : provider[k].ids \in Seq(Nat)
    <2>1. \A k \in 1..Len(provider) : provider[k] \in Shows
      BY <1>5
    <2> QED
      BY <2>1 DEF Shows
  <1> HIDE DEF tail, provider, s, ids, c, l
  <1>8. \A i : Seen(i) <=> Shown(provider, i)
    <2> SUFFICES ASSUME NEW i PROVE Seen(i) <=> Shown(provider, i)
      OBVIOUS
    <2>1. DOMAIN provider = 1..Len(provider)
      BY <1>5
    <2>2. \A k \in 1..Len(provider) :
            i \in Range(provider[k].ids) <=> \E o \in 1..Len(provider[k].ids) : provider[k].ids[o] = i
      BY <1>7 DEF Range
    <2> QED
      BY <2>1, <2>2 DEF Shown
  <1>9. ASSUME NEW i \in 1..Len(l), Conversational(l[i].type)
        PROVE  /\ ~(Covered(i) /\ Seen(i))
               /\ Covered(i) \/ Seen(i) \/ (~intact /\ StrayIn(l, i))
    <2>1. ASSUME Covered(i), Seen(i) PROVE FALSE
      <3>1. i <= c
        <4>1. PICK x \in Snaps(l) : i <= l[x].to
          BY <1>3, <2>1
        <4> QED
          BY <1>2, <4>1
      <3>2. PICK k \in 1..Len(provider) : \E o \in 1..Len(provider[k].ids) : provider[k].ids[o] = i
        BY <1>8, <2>1 DEF Shown
      <3>3. PICK o \in 1..Len(provider[k].ids) : provider[k].ids[o] = i
        BY <3>2
      <3>4. CASE k \in 1..s
        <4>1. i \in Snaps(l)
          BY <1>5, <1>6, <3>3, <3>4
        <4>2. l[i].type = "context_snapshot"
          BY <4>1 DEF Snaps
        <4> QED
          BY <1>9, <4>2 DEF Conversational, RoleOf
      <3>5. CASE k - s \in 1..Len(tail)
        <4>1. s + (k - s) = k
          BY <1>5
        <4>2. provider[k] = tail[k - s]
          BY <1>5, <3>5, <4>1
        <4>3. i \in Beyond(l)
          BY <1>4, <3>3, <3>5, <4>2 DEF Faithful
        <4> QED
          BY <1>2, <3>1, <4>3 DEF Beyond, c
      <3> QED
        BY <1>5, <3>4, <3>5
    <2>2. CASE i > c
      <3>1. i \in Beyond(l)
        BY <2>2 DEF Beyond, c
      <3>2. PICK k \in 1..Len(tail) : \E o \in 1..Len(tail[k].ids) : tail[k].ids[o] = i
        BY <1>4, <1>9, <3>1 DEF Shown
      <3>3. s + k \in 1..Len(provider) /\ provider[s + k] = tail[k]
        BY <1>5
      <3>4. Seen(i)
        BY <1>8, <3>2, <3>3 DEF Shown
      <3> QED
        BY <2>1, <3>4
    <2>3. CASE ~(i > c)
      <3>1. i \in 1..c
        BY <1>2, <2>3
      <3>2. CoveredBy(l, i) \/ (~intact /\ StrayIn(l, i))
        BY <1>1, <1>9, <3>1 DEF CoversAll, c
      <3>3. CoveredBy(l, i) => Covered(i)
        BY <1>3 DEF CoveredBy
      <3> QED
        BY <2>1, <3>2, <3>3
    <2> QED
      BY <2>2, <2>3
  <1>10. \A j, k \in DOMAIN ids : j # k => ids[j] # ids[k]
    <2>1. DOMAIN ids = 1..Len(ids) /\ Len(ids) \in Nat /\ \A j \in 1..Len(ids) : ids[j] \in Nat
      BY <1>4
    <2>2. ASSUME NEW j \in 1..Len(ids), NEW k \in 1..Len(ids), j # k PROVE ids[j] # ids[k]
      <3>1. j < k \/ k < j
        BY <2>1, <2>2
      <3>2. ids[j] < ids[k] \/ ids[k] < ids[j]
        BY <1>4, <3>1 DEF Increasing
      <3> QED
        BY <2>1, <3>2
    <2> QED
      BY <2>1, <2>2
  <1>11. \A i \in DOMAIN l : RoleOf(l[i].type) # "silent" \/ l[i].type = "tool_call_proposed"
           => /\ ~(Covered(i) /\ Seen(i))
              /\ Covered(i) \/ Seen(i) \/ (~intact /\ StrayIn(l, i))
    BY <1>2, <1>9 DEF Conversational
  <1>12. \A i : Stray(i) <=> StrayIn(l, i)
    BY DEF Stray, StrayIn, Answers, AnswersIn, l
  <1> QED
    BY <1>10, <1>11, <1>12 DEF CoveredOrShown, l, c, tail, provider, ids, Ids

-----------------------------------------------------------------------------
(* No result without its call. *)

\* NoOrphanedResult, message by message.
ProposedBefore(w, p, l) ==
  \E j \in 1..(p - 1) :
    /\ w[j].role = "tool_calls"
    /\ \E o \in 1..Len(w[j].ids) : /\ w[j].ids[o] \in 1..Len(l)
                                   /\ l[w[j].ids[o]].call = l[w[p].ids[1]].call
Proposed(w, l) == \A p \in 1..Len(w) : w[p].role = "tool" => ProposedBefore(w, p, l)

\* What comes before the results does not matter, if it holds none.
LEMMA NoOrphanBehind ==
  ASSUME log \in Logs, NEW v \in Seq(Shows), NEW w \in Seq(Shows),
         \A k \in 1..Len(v) : v[k].role # "tool", Proposed(w, log)
  PROVE  NoOrphanedResult(v \o w)
  <1> DEFINE n == Len(v)
             x == v \o w
  <1>1. /\ x \in Seq(Shows) /\ Len(x) = n + Len(w) /\ n \in Nat /\ Len(w) \in Nat
        /\ \A p \in 1..n : x[p] = v[p]
        /\ \A p \in 1..Len(w) : x[n + p] = w[p]
    BY Joined
  <1>2. DOMAIN x = 1..(n + Len(w))
    BY <1>1
  <1> HIDE DEF n, x
  <1>3. SUFFICES ASSUME NEW k \in 1..(n + Len(w)), x[k].role = "tool"
                 PROVE  \E j \in 1..(k - 1), i \in 1..Len(log) :
                          /\ x[j].role = "tool_calls" /\ i \in Range(x[j].ids)
                          /\ log[i].call = log[x[k].ids[1]].call
    BY <1>2 DEF NoOrphanedResult, x
  <1> DEFINE p == k - n
  <1>4. k \in 1..n \/ (p \in 1..Len(w) /\ k = n + p)
    BY <1>1
  <1>5. p \in 1..Len(w) /\ k = n + p
    BY <1>1, <1>3, <1>4 DEF n
  <1> HIDE DEF p
  <1>6. x[k] = w[p]
    BY <1>1, <1>5
  <1>7. PICK j \in 1..(p - 1) :
          /\ w[j].role = "tool_calls"
          /\ \E o \in 1..Len(w[j].ids) : /\ w[j].ids[o] \in 1..Len(log)
                                         /\ log[w[j].ids[o]].call = log[w[p].ids[1]].call
    BY <1>3, <1>5, <1>6 DEF Proposed, ProposedBefore
  <1>8. PICK o \in 1..Len(w[j].ids) : /\ w[j].ids[o] \in 1..Len(log)
                                      /\ log[w[j].ids[o]].call = log[w[p].ids[1]].call
    BY <1>7
  <1>9. j \in 1..Len(w) /\ n + j \in 1..(k - 1) /\ x[n + j] = w[j]
    <2>1. j \in 1..Len(w) /\ n + j \in 1..(k - 1)
      BY <1>1, <1>5
    <2> QED
      BY <1>1, <2>1
  <1>10. w[j].ids[o] \in Range(w[j].ids)
    <2>1. w[j] \in Shows
      BY <1>9
    <2>2. w[j].ids \in Seq(Nat)
      BY <2>1 DEF Shows
    <2>3. o \in DOMAIN w[j].ids
      BY <1>8, <2>2
    <2> QED
      BY <2>3 DEF Range
  <1> QED
    BY <1>6, <1>7, <1>8, <1>9, <1>10

\* Every event of the conversation among those listed is shown.
LEMMA ProjectedShown ==
  ASSUME NEW l \in Logs, NEW seqs \in Seq(1..Len(l)), Increasing(seqs), NEW k \in 1..Len(seqs),
         Conversational(l[seqs[k]].type)
  PROVE  Shown(ProjectEvents(l, seqs), seqs[k])
  <1> DEFINE shown == ProjectEvents(l, seqs)
             flat == FlattenSeq(Ids(shown))
             i == seqs[k]
  <1>1. Faithful(shown, l, {seqs[z] : z \in 1..Len(seqs)}) /\ flat = Select(seqs, Spoken(l))
    BY ProjectShows
  <1> HIDE DEF shown
  <1>2. shown \in Seq(Shows)
    BY <1>1 DEF Faithful
  <1>3. Ids(shown) \in Seq(Seq(Nat)) /\ Len(Ids(shown)) = Len(shown)
    BY <1>2, IdsFlatten
  <1>4. ComesOutOf(flat, Ids(shown))
    BY <1>3, FlattenPlaces
  <1>5. HoldsMembers(flat, seqs, 1..Len(l), Spoken(l))
    BY <1>1, SelectMembers
  <1>6. i \in Spoken(l)
    <2>1. i \in 1..Len(l) /\ DOMAIN l = 1..Len(l)
      BY DEF Logs
    <2> QED
      BY <2>1 DEF Spoken
  <1> HIDE DEF flat
  <1>7. PICK p \in 1..Len(flat) : flat[p] = i
    BY <1>5, <1>6 DEF HoldsMembers
  <1>8. PICK b \in 1..Len(Ids(shown)) : \E o \in 1..Len(Ids(shown)[b]) : flat[p] = Ids(shown)[b][o]
    BY <1>4 DEF ComesOutOf
  <1>9. b \in 1..Len(shown) /\ Ids(shown)[b] = shown[b].ids
    <2>1. b \in 1..Len(shown)
      BY <1>3
    <2>2. DOMAIN shown = 1..Len(shown)
      BY <1>2
    <2> QED
      BY <2>1, <2>2 DEF Ids
  <1> QED
    BY <1>7, <1>8, <1>9 DEF Shown, shown

\* In what is projected, a proposal listed before an answer to it is shown
\* before it.
LEMMA ProposalShownFirst ==
  ASSUME NEW l \in Logs, NEW X, NEW shown, Faithful(shown, l, X), X \subseteq 1..Len(l),
         NEW p \in 1..Len(shown), shown[p].role = "tool",
         NEW q \in 1..Len(l), q < shown[p].ids[1], l[q].type = "tool_call_proposed",
         l[q].call = l[shown[p].ids[1]].call, Shown(shown, q)
  PROVE  ProposedBefore(shown, p, l)
  <1>1. PICK j \in 1..Len(shown) : \E o \in 1..Len(shown[j].ids) : shown[j].ids[o] = q
    BY DEF Shown
  <1>2. PICK o \in 1..Len(shown[j].ids) : shown[j].ids[o] = q
    BY <1>1
  <1>3. shown[j].role = "tool_calls"
    BY <1>2 DEF Faithful
  <1>4. Len(shown) \in Nat
    BY DEF Faithful
  <1>5. shown[p].ids = <<shown[p].ids[1]>>
    BY DEF Faithful
  <1>6. 1 \in 1..Len(shown[p].ids)
    <2> DEFINE x == shown[p].ids[1]
    <2> HIDE DEF x
    <2>1. 1 \in 1..Len(<<x>>)
      OBVIOUS
    <2> QED
      BY <1>5, <2>1 DEF x
  <1>7. shown[p].ids[1] \in 1..Len(l)
    BY <1>6 DEF Faithful
  <1>8. ~(p < j)
    <2>1. p < j => shown[p].ids[1] < shown[j].ids[o]
      BY <1>2, <1>6 DEF Faithful
    <2>2. Len(l) \in Nat
      BY DEF Logs
    <2> QED
      BY <1>2, <1>7, <2>1, <2>2
  <1>9. j # p
    BY <1>3
  <1>10. j \in 1..(p - 1)
    BY <1>4, <1>8, <1>9
  <1> QED
    BY <1>2, <1>3, <1>10 DEF ProposedBefore

\* Under the invariant of a whole log, an answer beyond the newest snapshot has
\* its proposal there.
LEMMA ProposalBeyond ==
  ASSUME NEW l, LogInv(l, TRUE), NEW i \in Beyond(l), l[i].type \in CallRefTypes
  PROVE  \E q \in Beyond(l) : q < i /\ AnswersIn(l, q, i)
  <1>1. PICK p \in 1..Len(l) : p < i /\ AnswersIn(l, p, i)
    BY DEF LogInv, Answered, Beyond
  <1>2. PICK q \in 1..Len(l) : q > CoveredEnd(l) /\ q < i /\ AnswersIn(l, q, i)
    BY <1>1 DEF LogInv, RunsUncut, Beyond
  <1> QED
    BY <1>2 DEF Beyond

\* In what the model is shown, results follow their proposals.
LEMMA TailProposed ==
  ASSUME NEW l, LogInv(l, TRUE)
  PROVE  Proposed(ProjectEvents(l, After(l, CoveredEnd(l))), l)
  <1> DEFINE tail == ProjectEvents(l, After(l, CoveredEnd(l)))
  <1>1. l \in Logs
    BY DEF LogInv
  <1>2. Faithful(tail, l, Beyond(l)) /\ \A i \in Beyond(l) : Conversational(l[i].type) => Shown(tail, i)
    BY <1>1, TailShows
  <1> HIDE DEF tail
  <1>3. SUFFICES ASSUME NEW p \in 1..Len(tail), tail[p].role = "tool"
                 PROVE  ProposedBefore(tail, p, l)
    BY DEF Proposed, tail
  <1> DEFINE x == tail[p].ids[1]
  <1>4. tail[p].ids = <<x>> /\ l[x].type = "tool_result"
    BY <1>2, <1>3 DEF Faithful
  <1>5. x \in Beyond(l)
    <2> HIDE DEF x
    <2>1. 1 \in 1..Len(<<x>>)
      OBVIOUS
    <2>2. 1 \in 1..Len(tail[p].ids)
      BY <1>4, <2>1
    <2> QED
      BY <1>2, <2>2 DEF Faithful, x
  <1>6. PICK q \in Beyond(l) : q < x /\ AnswersIn(l, q, x)
    BY <1>4, <1>5, ProposalBeyond DEF CallRefTypes
  <1>7. l[q].type = "tool_call_proposed" /\ l[q].call = l[x].call
    BY <1>6 DEF AnswersIn, Event
  <1>8. Shown(tail, q)
    BY <1>2, <1>7 DEF Conversational
  <1>9. q \in 1..Len(l) /\ Beyond(l) \subseteq 1..Len(l)
    BY DEF Beyond
  <1> QED
    BY <1>1, <1>2, <1>3, <1>6, <1>7, <1>8, <1>9, ProposalShownFirst

\* What one group shows: its results behind its proposal.
LEMMA GroupProposed ==
  ASSUME NEW l, LogInv(l, TRUE), NEW X, X \subseteq Beyond(l),
         \A i \in Beyond(l) : Conversational(l[i].type) \/ l[i].type \in CallRefTypes => i \in X,
         NEW gs, Grouping(gs, l, X), NEW g \in 1..Len(gs)
  PROVE  /\ ProjectEvents(l, gs[g].ids) \in Seq(Shows)
         /\ Proposed(ProjectEvents(l, gs[g].ids), l)
  <1> DEFINE ids == gs[g].ids
             shown == ProjectEvents(l, ids)
             I == {ids[k] : k \in 1..Len(ids)}
  <1>1. l \in Logs /\ Beyond(l) \subseteq 1..Len(l)
    BY DEF LogInv, Beyond
  <1>2. /\ Len(ids) >= 1 /\ Increasing(ids) /\ \A o \in 1..Len(ids) : ids[o] \in X
    BY DEF Grouping, GroupsCover
  <1>3. \A o \in 1..Len(ids) : o > 1 =>
          /\ l[ids[o]].type \in CallRefTypes
          /\ l[ids[o]].call = l[ids[1]].call
          /\ l[ids[1]].type = "tool_call_proposed"
    BY DEF Grouping, GroupsCausal
  <1>4. \A p \in X : \A o \in 1..Len(ids) : Follows(l, X, p, ids[o]) => o > 1 /\ ids[1] >= p
    BY DEF Grouping, GroupsAnswer
  <1>5. ids \in Seq(Nat)
    <2>1. gs \in Seq(CausalGroups)
      BY DEF Grouping, Groups
    <2>2. gs[g] \in CausalGroups
      BY <2>1
    <2> QED
      BY <2>2, GroupFields
  <1>6. ids \in Seq(1..Len(l)) /\ I \subseteq 1..Len(l)
    <2>1. \A o \in 1..Len(ids) : ids[o] \in 1..Len(l)
      BY <1>1, <1>2
    <2> HIDE DEF ids
    <2> QED
      BY <1>5, <2>1
  <1> HIDE DEF ids
  <1>7. Faithful(shown, l, I)
    BY <1>1, <1>2, <1>6, ProjectShows
  <1>8. \A k \in 1..Len(ids) : Conversational(l[ids[k]].type) => Shown(shown, ids[k])
    BY <1>1, <1>2, <1>6, ProjectedShown
  <1> HIDE DEF shown
  <1>9. Proposed(shown, l)
    <2> SUFFICES ASSUME NEW p \in 1..Len(shown), shown[p].role = "tool"
                 PROVE  ProposedBefore(shown, p, l)
      BY DEF Proposed
    <2> DEFINE x == shown[p].ids[1]
    <2>1. shown[p].ids = <<x>> /\ l[x].type = "tool_result"
      BY <1>7 DEF Faithful
    <2>2. x \in I
      <3> HIDE DEF x, I
      <3>1. 1 \in 1..Len(<<x>>)
        OBVIOUS
      <3>2. 1 \in 1..Len(shown[p].ids)
        BY <2>1, <3>1
      <3> QED
        BY <1>7, <3>2 DEF Faithful, x
    <2>3. PICK z \in 1..Len(ids) : ids[z] = x
      BY <2>2
    <2>4. x \in X /\ x \in Beyond(l)
      BY <1>2, <2>3
    <2> HIDE DEF x
    <2>5. PICK q \in Beyond(l) : q < x /\ AnswersIn(l, q, x)
      BY <2>1, <2>4, ProposalBeyond DEF CallRefTypes
    <2>6. l[q].type = "tool_call_proposed" /\ l[q].call = l[x].call
      BY <2>5 DEF AnswersIn, Event
    <2>7. q \in X
      BY <2>6 DEF Conversational
    <2>8. Follows(l, X, q, x)
      <3>1. PICK m \in q..(x - 1) : /\ \A y \in q..m : l[y].type = "tool_call_proposed"
                                    /\ \A y \in (m + 1)..x : l[y].type \in CallRefTypes
        BY <2>5 DEF AnswersIn
      <3>2. Len(l) \in Nat /\ q \in 1..Len(l) /\ x \in 1..Len(l)
        BY <1>1, <2>4 DEF Logs
      <3>3. m \in Nat
        BY <3>1, <3>2
      <3>4. ASSUME NEW y \in {y \in X : y <= x}, y >= q
            PROVE  IF y <= m THEN l[y].type = "tool_call_proposed" ELSE l[y].type \in CallRefTypes
        <4>1. y \in 1..Len(l) /\ y <= x
          BY <1>1
        <4>2. y <= m => y \in q..m
          BY <3>2, <3>3, <3>4, <4>1
        <4>3. ~(y <= m) => y \in (m + 1)..x
          BY <3>2, <3>3, <4>1
        <4> QED
          BY <3>1, <4>2, <4>3
      <3>5. q \in {y \in X : y <= x}
        BY <2>5, <2>7, <3>2
      <3>6. Runs(l, {y \in X : y <= x}, q)
        BY <2>6, <3>3, <3>4, <3>5 DEF Runs
      <3> QED
        BY <2>1, <2>5, <2>6, <3>6 DEF Follows, CallRefTypes
    <2>9. z > 1
      BY <1>4, <2>3, <2>7, <2>8
    <2> DEFINE h == ids[1]
    <2>10. l[h].type = "tool_call_proposed" /\ l[h].call = l[x].call
      BY <1>3, <2>3, <2>9
    <2>11. 1 \in 1..Len(ids) /\ h \in 1..Len(l) /\ h < x
      <3>1. Len(ids) \in Nat
        BY <1>5
      <3>2. 1 \in 1..Len(ids)
        BY <1>2, <3>1
      <3>3. h < x
        BY <2>3, <2>9, <3>2, <1>2 DEF Increasing
      <3> QED
        BY <1>6, <3>2, <3>3
    <2>12. Shown(shown, h)
      BY <1>8, <2>10, <2>11 DEF Conversational
    <2> HIDE DEF h, I
    <2>13. h < shown[p].ids[1] /\ l[h].call = l[shown[p].ids[1]].call
      BY <2>10, <2>11 DEF x
    <2>14. l[h].type = "tool_call_proposed" /\ h \in 1..Len(l)
      BY <2>10, <2>11
    <2>15. l \in Logs /\ I \subseteq 1..Len(l)
      BY <1>1, <1>6
    <2>16. PICK y \in 1..Len(l) : /\ y < shown[p].ids[1] /\ l[y].type = "tool_call_proposed"
                                  /\ l[y].call = l[shown[p].ids[1]].call /\ Shown(shown, y)
      BY <2>12, <2>13, <2>14
    <2> QED
      BY <1>7, <2>15, <2>16, ProposalShownFirst
  <1>10. shown \in Seq(Shows)
    BY <1>7 DEF Faithful
  <1> QED
    BY <1>9, <1>10 DEF shown, ids

\* Blocks of messages in each of which results follow their proposals, put
\* together.
LEMMA BlocksProposed ==
  ASSUME NEW l, NEW blocks \in Seq(Seq(Shows)), \A b \in 1..Len(blocks) : Proposed(blocks[b], l)
  PROVE  FlattenSeq(blocks) \in Seq(Shows) /\ Proposed(FlattenSeq(blocks), l)
  <1> DEFINE w == FlattenSeq(blocks)
  <1>1. w \in Seq(Shows) /\ ComesOutOf(w, blocks)
    BY FlattenPlaces
  <1> HIDE DEF w
  <1>2. ASSUME NEW p \in 1..Len(w), w[p].role = "tool"
        PROVE  ProposedBefore(w, p, l)
    <2>1. PICK b \in 1..Len(blocks) : \E o \in 1..Len(blocks[b]) :
            /\ w[p] = blocks[b][o]
            /\ \A q \in 1..o : p - o + q \in 1..p /\ w[p - o + q] = blocks[b][q]
      BY <1>1 DEF ComesOutOf
    <2> DEFINE block == blocks[b]
    <2>2. block \in Seq(Shows) /\ Proposed(block, l)
      OBVIOUS
    <2> HIDE DEF block
    <2>3. PICK o \in 1..Len(block) :
            /\ w[p] = block[o]
            /\ \A q \in 1..o : p - o + q \in 1..p /\ w[p - o + q] = block[q]
      BY <2>1 DEF block
    <2>4. PICK j \in 1..(o - 1) :
            /\ block[j].role = "tool_calls"
            /\ \E y \in 1..Len(block[j].ids) : /\ block[j].ids[y] \in 1..Len(l)
                                               /\ l[block[j].ids[y]].call = l[block[o].ids[1]].call
      BY <1>2, <2>2, <2>3 DEF Proposed, ProposedBefore
    <2>5. o \in Nat /\ p \in Nat
      BY <1>1, <2>2
    <2>6. j \in 1..o /\ p - o + j \in 1..(p - 1)
      <3>1. j \in 1..o
        BY <2>5
      <3>2. p - o + j \in 1..p
        BY <2>3, <3>1
      <3> QED
        BY <2>5, <3>1, <3>2
    <2>7. w[p - o + j] = block[j]
      BY <2>3, <2>6
    <2> DEFINE k == p - o + j
    <2>8. k \in 1..(p - 1) /\ w[k] = block[j] /\ w[p] = block[o]
      BY <2>3, <2>6, <2>7
    <2> HIDE DEF k
    <2>9. /\ w[k].role = "tool_calls"
          /\ \E y \in 1..Len(w[k].ids) : /\ w[k].ids[y] \in 1..Len(l)
                                        /\ l[w[k].ids[y]].call = l[w[p].ids[1]].call
      BY <2>4, <2>8
    <2> QED
      BY <2>8, <2>9 DEF ProposedBefore
  <1> QED
    BY <1>1, <1>2 DEF Proposed, w

\* However many groups emergency_reduce keeps, results follow their proposals.
LEMMA ReductionProposed ==
  ASSUME LogInv(log, TRUE), NEW keep
  PROVE  NoOrphanedResult(EmergencyReduce(log, keep))
  <1> DEFINE l == log
             X == {i \in DOMAIN l : i > CoveredEnd(l) /\ l[i].type # "context_snapshot"}
             after == Seqs(l, X)
             groups == GroupEvents(l, after)
             Dropped(g) == g <= Len(groups) - keep /\ groups[g].terminal
             stays == {g \in DOMAIN groups : ~Dropped(g)}
             kept == Seqs(groups, stays)
             marker == IF Len(kept) < Len(groups) THEN <<Message("user", <<>>)>> ELSE <<>>
             blocks == [k \in DOMAIN kept |-> ProjectEvents(l, groups[kept[k]].ids)]
  <1>1. l \in Logs /\ l \in Seq(Events) /\ DOMAIN l = 1..Len(l)
    BY DEF LogInv, Logs
  <1>2. EmergencyReduce(log, keep) = Summary(l) \o marker \o FlattenSeq(blocks)
    BY DEF EmergencyReduce
  <1>3. X \subseteq Beyond(l) /\ X \in SUBSET (1..Len(l))
        /\ \A i \in Beyond(l) : Conversational(l[i].type) \/ l[i].type \in CallRefTypes => i \in X
    BY <1>1 DEF Beyond, Conversational, RoleOf, CallRefTypes
  <1> HIDE DEF X
  <1>4. ListsSet(after, X) /\ \A k \in 1..Len(after) : after[k] \in 1..Len(l)
    BY <1>1, <1>3, SeqsList
  <1>5. after \in Seq(1..Len(l)) /\ Increasing(after) /\ {after[k] : k \in 1..Len(after)} = X
    <2> HIDE DEF after
    <2>1. after \in Seq(Nat) /\ Increasing(after)
          /\ (\A k \in 1..Len(after) : after[k] \in X) /\ \A i \in X : \E k \in 1..Len(after) : after[k] = i
      BY <1>4 DEF ListsSet
    <2> QED
      BY SMTT(20), <1>4, <2>1
  <1> HIDE DEF after
  <1>6. Grouping(groups, l, X)
    BY <1>1, <1>5, GroupsHold
  <1> HIDE DEF groups
  <1>7. groups \in Seq(CausalGroups) /\ DOMAIN groups = 1..Len(groups)
    <2>1. groups \in Seq(CausalGroups)
      BY <1>6 DEF Grouping, Groups
    <2> QED
      BY <2>1
  <1>8. stays \in SUBSET (1..Len(groups))
    BY <1>7
  <1> HIDE DEF stays
  <1>9. ListsSet(kept, stays) /\ \A k \in 1..Len(kept) : kept[k] \in 1..Len(groups)
    BY <1>7, <1>8, SeqsList
  <1> HIDE DEF kept
  <1>10. kept \in Seq(Nat) /\ DOMAIN kept = 1..Len(kept) /\ Len(kept) \in Nat
    BY <1>9 DEF ListsSet
  <1>11. ASSUME NEW k \in 1..Len(kept)
         PROVE  /\ ProjectEvents(l, groups[kept[k]].ids) \in Seq(Shows)
                /\ Proposed(ProjectEvents(l, groups[kept[k]].ids), l)
    BY <1>3, <1>6, <1>9, GroupProposed
  <1>12. /\ blocks \in Seq(Seq(Shows)) /\ Len(blocks) = Len(kept)
         /\ \A b \in 1..Len(blocks) : Proposed(blocks[b], l)
    <2> DEFINE Block(k) == ProjectEvents(l, groups[kept[k]].ids)
    <2>1. \A k \in 1..Len(kept) : Block(k) \in Seq(Shows)
      BY <1>11
    <2>2. blocks = [k \in 1..Len(kept) |-> Block(k)]
      BY <1>10
    <2> HIDE DEF Block
    <2>3. blocks \in [1..Len(kept) -> Seq(Shows)]
      BY <2>1, <2>2
    <2>4. blocks \in Seq(Seq(Shows)) /\ Len(blocks) = Len(kept)
      <3> HIDE DEF blocks
      <3> QED
        BY <1>10, <2>3
    <2>5. \A b \in 1..Len(kept) : blocks[b] = Block(b)
      BY <2>2
    <2> QED
      BY <1>11, <2>4, <2>5 DEF Block
  <1> HIDE DEF blocks
  <1>13. FlattenSeq(blocks) \in Seq(Shows) /\ Proposed(FlattenSeq(blocks), l)
    BY <1>12, BlocksProposed
  <1>14. /\ Summary(l) \in Seq(Shows)
         /\ \A k \in 1..Len(Summary(l)) : Summary(l)[k].role = "assistant"
    BY <1>1, SummaryShows
  <1>15. marker \in Seq(Shows) /\ \A k \in 1..Len(marker) : marker[k].role = "user"
    <2> DEFINE m == Message("user", <<>>)
    <2>1. m \in Shows /\ m.role = "user"
      BY DEF Message, Shows
    <2> HIDE DEF m
    <2>2. <<m>> \in Seq(Shows) /\ Len(<<m>>) = 1 /\ \A k \in 1..1 : <<m>>[k] = m
      BY <2>1
    <2>3. <<>> \in Seq(Shows) /\ Len(<<>>) = 0
      OBVIOUS
    <2>4. marker = <<m>> \/ marker = <<>>
      BY DEF m
    <2> HIDE DEF marker
    <2>5. CASE marker = <<m>>
      BY <2>1, <2>2, <2>5
    <2>6. CASE marker = <<>>
      BY <2>3, <2>6
    <2> QED
      BY <2>4, <2>5, <2>6
  <1> HIDE DEF marker
  <1> DEFINE v == Summary(l) \o marker
  <1>16. v \in Seq(Shows) /\ \A k \in 1..Len(v) : v[k].role # "tool"
    <2> DEFINE a == Summary(l)
    <2>1. a \in Seq(Shows) /\ \A k \in 1..Len(a) : a[k].role = "assistant"
      BY <1>14
    <2> HIDE DEF a
    <2>2. /\ a \o marker \in Seq(Shows) /\ Len(a \o marker) = Len(a) + Len(marker)
          /\ Len(a) \in Nat /\ Len(marker) \in Nat
          /\ \A p \in 1..Len(a) : (a \o marker)[p] = a[p]
          /\ \A p \in 1..Len(marker) : (a \o marker)[Len(a) + p] = marker[p]
      BY <1>15, <2>1, Joined
    <2>3. ASSUME NEW k \in 1..Len(a \o marker) PROVE (a \o marker)[k].role # "tool"
      <3>1. k \in 1..Len(a) \/ (k - Len(a) \in 1..Len(marker) /\ k = Len(a) + (k - Len(a)))
        BY <2>2
      <3>2. CASE k \in 1..Len(a)
        BY <2>1, <2>2, <3>2
      <3>3. CASE k - Len(a) \in 1..Len(marker) /\ k = Len(a) + (k - Len(a))
        <4>1. (a \o marker)[Len(a) + (k - Len(a))] = marker[k - Len(a)]
          BY <2>2, <3>3
        <4>2. (a \o marker)[k] = marker[k - Len(a)]
          BY <3>3, <4>1
        <4> QED
          BY <1>15, <3>3, <4>2
      <3> QED
        BY <3>1, <3>2, <3>3
    <2> QED
      BY <2>2, <2>3 DEF a
  <1> HIDE DEF v
  <1>17. NoOrphanedResult(v \o FlattenSeq(blocks))
    BY <1>1, <1>13, <1>16, NoOrphanBehind
  <1> QED
    BY <1>2, <1>17 DEF v

\* Under the invariant of the log, results follow their proposals.
LEMMA ResultsFollow ==
  ASSUME LogInv(log, intact)
  PROVE  ResultsFollowProposals
  <1> SUFFICES ASSUME intact PROVE ResultsFollowProposals
    BY DEF ResultsFollowProposals
  <1>1. LogInv(log, TRUE) /\ log \in Logs /\ Answered(log)
    <2>1. intact = TRUE
      BY DEF LogInv
    <2> QED
      BY <2>1 DEF LogInv
  <1>2. Unproposed(log) = {}
    <2> SUFFICES ASSUME NEW i \in 1..Len(log), log[i].type \in CallRefTypes
                 PROVE  \E k \in 1..(i - 1) : log[k] = Event("tool_call_proposed", log[i].call)
      <3>1. DOMAIN log = 1..Len(log)
        BY <1>1 DEF Logs
      <3> QED
        BY <3>1 DEF Unproposed
    <2>1. PICK p \in 1..Len(log) : p < i /\ AnswersIn(log, p, i)
      BY <1>1 DEF Answered
    <2>2. p \in 1..(i - 1)
      BY <2>1
    <2> QED
      BY <2>1, <2>2 DEF AnswersIn
  <1>3. NoOrphanedResult(ProviderMessages(log))
    <2> DEFINE tail == ProjectEvents(log, After(log, CoveredEnd(log)))
    <2>1. tail \in Seq(Shows)
      <3>1. Faithful(tail, log, Beyond(log))
        BY <1>1, TailShows
      <3> QED
        BY <3>1 DEF Faithful
    <2>2. Proposed(tail, log)
      BY <1>1, TailProposed
    <2>3. ProviderMessages(log) = Summary(log) \o tail
      BY DEF ProviderMessages
    <2> HIDE DEF tail
    <2>4. Summary(log) \in Seq(Shows) /\ \A k \in 1..Len(Summary(log)) : Summary(log)[k].role # "tool"
      BY <1>1, SummaryShows
    <2>5. NoOrphanedResult(Summary(log) \o tail)
      BY <1>1, <2>1, <2>2, <2>4, NoOrphanBehind
    <2> QED
      BY <2>3, <2>5
  <1>4. \A keep \in 0..2 : NoOrphanedResult(EmergencyReduce(log, keep))
    BY <1>1, ReductionProposed
  <1> QED
    BY <1>2, <1>3, <1>4 DEF ResultsFollowProposals

-----------------------------------------------------------------------------
(* What compact may cover. *)

\* No groups cost nothing.
LEMMA NothingSpent == Spent(<<>>) = 0
  <1> DEFINE Add(sum, g) == sum + Tokens(g)
             Is(f) == f = [t \in SUBSET (1..0) |->
                             IF t = {} THEN 0 ELSE Add(f[t \ {MaxOf(t)}], <<>>[MaxOf(t)])]
             h == CHOOSE f : Is(f)
  <1>1. SUBSET (1..0) = {{}} /\ DOMAIN <<>> = 1..0
    <2>1. 1..0 = {}
      OBVIOUS
    <2> QED
      BY <2>1
  <1>2. Is([t \in SUBSET (1..0) |-> 0])
    <2> HIDE DEF Add
    <2> QED
      BY <1>1
  <1>3. Is(h)
    BY <1>2
  <1>4. Spent(<<>>) = h[1..0]
    <2>1. Spent(<<>>) = FoldLeft(Add, 0, <<>>)
      BY DEF Spent
    <2> HIDE DEF Add
    <2>2. FoldLeft(Add, 0, <<>>) = h[1..0]
      BY <1>1 DEF FoldLeft, MapThenFoldSet, Max, MaxOf
    <2> QED
      BY <2>1, <2>2
  <1>5. h[{}] = 0
    <2> HIDE DEF Add, h
    <2> QED
      BY <1>1, <1>3
  <1>6. 1..0 = {}
    OBVIOUS
  <1> QED
    BY <1>4, <1>5, <1>6

\* What /compact takes: a beginning of the groups that no later one overlaps.
LEMMA ClosedRange ==
  ASSUME NEW gs \in Groups, NEW budget \in Nat
  PROVE  \E k \in 0..Len(gs) :
           /\ SelectClosedRange(gs, budget) = SubSeq(gs, 1, k)
           /\ \A i \in 1..k, j \in (k + 1)..Len(gs) : SeqEnd(gs[i]) < SeqStart(gs[j])
  <1> DEFINE n == Len(gs)
             Closed(k) == \A i \in 1..k, j \in (k + 1)..Len(gs) : SeqEnd(gs[i]) < SeqStart(gs[j])
             Whole(k) == Closed(k) /\ Fits(SubSeq(gs, 1, k), budget)
             S == {k \in 0..n : Whole(k)}
  <1>1. n \in Nat
    BY DEF Groups
  <1>2. Whole(0)
    <2>1. 1..0 = {}
      OBVIOUS
    <2>2. Closed(0)
      BY <2>1
    <2>3. SubSeq(gs, 1, 0) = <<>>
      BY DEF Groups
    <2>4. Fits(<<>>, budget)
      <3>1. DOMAIN <<>> = 1..0
        OBVIOUS
      <3>2. DOMAIN <<>> = {}
        BY <2>1, <3>1
      <3>3. 0 <= budget
        OBVIOUS
      <3> QED
        BY <3>2, <3>3, NothingSpent DEF Fits
    <2> QED
      BY <2>2, <2>3, <2>4
  <1> DEFINE k == Max(S)
  <1>3. SelectClosedRange(gs, budget) = SubSeq(gs, 1, k)
    BY DEF SelectClosedRange
  <1> HIDE DEF Whole, n
  <1>4. k \in S
    <2>1. S \in SUBSET Nat /\ 0 \in S /\ \A x \in S : x <= n
      BY <1>1, <1>2
    <2> HIDE DEF S
    <2>2. \E x \in S : \A y \in S : x >= y
      <3> DEFINE U == {n - x : x \in S}
      <3>1. U \in SUBSET Nat /\ n - 0 \in U
        BY <1>1, <2>1
      <3> HIDE DEF U
      <3>2. PICK u \in U : \A y \in U : u <= y
        BY <3>1, LeastMember
      <3>3. PICK x \in S : u = n - x
        BY <3>2 DEF U
      <3>4. \A y \in S : n - y \in U
        BY DEF U
      <3>5. ASSUME NEW y \in S PROVE x >= y
        <4>1. n - x <= n - y
          BY <3>2, <3>3, <3>4
        <4>2. x \in Nat /\ y \in Nat
          BY <2>1
        <4> QED
          BY <1>1, <4>1, <4>2
      <3> QED
        BY <3>5
    <2> QED
      BY <2>2 DEF Max
  <1>5. k \in 0..Len(gs) /\ Closed(k)
    BY <1>4 DEF Whole, n
  <1> HIDE DEF k, S, Closed
  <1> QED
    BY <1>3, <1>5 DEF Closed

EachSeq(l) == 1..Len(l)

\* The groups of the whole log.
LEMMA AllGroups ==
  ASSUME NEW l \in Logs
  PROVE  Grouping(GroupEvents(l, All(l)), l, EachSeq(l))
  <1> DEFINE seqs == All(l)
             n == Len(l)
  <1>1. n \in Nat /\ DOMAIN l = 1..n
    BY DEF Logs
  <1>2. seqs = [i \in 1..n |-> i]
    BY <1>1 DEF All
  <1> HIDE DEF seqs, n
  <1>3. seqs \in Seq(1..n) /\ Len(seqs) = n /\ \A i \in 1..n : seqs[i] = i
    BY <1>1, <1>2
  <1>4. Increasing(seqs) /\ {seqs[k] : k \in 1..Len(seqs)} = 1..n
    BY <1>3 DEF Increasing
  <1>5. Grouping(GroupEvents(l, seqs), l, {seqs[k] : k \in 1..Len(seqs)})
    BY <1>3, <1>4, GroupsHold DEF n
  <1> QED
    BY <1>4, <1>5 DEF seqs, n, EachSeq

\* The first and the last event of a group.
LEMMA GroupEnds ==
  ASSUME NEW l \in Logs, NEW gs, Grouping(gs, l, EachSeq(l)), NEW g \in 1..Len(gs)
  PROVE  /\ SeqStart(gs[g]) = gs[g].ids[1] /\ SeqStart(gs[g]) \in 1..Len(l)
         /\ SeqEnd(gs[g]) \in 1..Len(l) /\ SeqStart(gs[g]) <= SeqEnd(gs[g])
         /\ \A o \in 1..Len(gs[g].ids) :
              /\ gs[g].ids[o] \in 1..Len(l)
              /\ SeqStart(gs[g]) <= gs[g].ids[o] /\ gs[g].ids[o] <= SeqEnd(gs[g])
  <1> DEFINE ids == gs[g].ids
             k == Len(ids)
  <1>1. k >= 1 /\ Increasing(ids) /\ \A o \in 1..k : ids[o] \in 1..Len(l)
    BY DEF Grouping, GroupsCover, EachSeq
  <1>2. ids \in Seq(Nat)
    <2>1. gs \in Seq(CausalGroups)
      BY DEF Grouping, Groups
    <2>2. gs[g] \in CausalGroups
      BY <2>1
    <2> QED
      BY <2>2, GroupFields
  <1> HIDE DEF ids
  <1>3. k \in Nat /\ 1 \in 1..k /\ k \in 1..k
    BY <1>1, <1>2
  <1>4. Head(ids) = ids[1] /\ Last(ids) = ids[k]
    BY <1>2, <1>3 DEF Last
  <1>5. Len(l) \in Nat
    BY DEF Logs
  <1>6. ASSUME NEW o \in 1..k PROVE ids[1] <= ids[o] /\ ids[o] <= ids[k]
    <2>1. ids[1] \in Nat /\ ids[o] \in Nat /\ ids[k] \in Nat
      BY <1>1, <1>3
    <2>2. 1 < o => ids[1] < ids[o]
      BY <1>1, <1>3 DEF Increasing
    <2>3. o < k => ids[o] < ids[k]
      BY <1>1, <1>3 DEF Increasing
    <2>4. (1 < o \/ o = 1) /\ (o < k \/ o = k)
      BY <1>3
    <2> QED
      BY <2>1, <2>2, <2>3, <2>4
  <1> QED
    BY <1>1, <1>3, <1>4, <1>6 DEF SeqStart, SeqEnd, ids

\* The groups /compact may take.
MayTake(l, group) == SeqStart(group) > CoveredEnd(l) /\ l[SeqStart(group)].type # "context_snapshot"

\* The groups /compact may take keep to the run beyond the newest snapshot.
LEMMA EligibleGroups ==
  ASSUME log \in Logs
  PROVE  LET gs == GroupEvents(log, All(log))
         IN /\ Eligible \in Groups
            /\ \A j \in 1..Len(Eligible) :
                 MayTake(log, Eligible[j]) /\ \E g \in 1..Len(gs) : Eligible[j] = gs[g]
            /\ \A g \in 1..Len(gs) : MayTake(log, gs[g]) => \E j \in 1..Len(Eligible) : Eligible[j] = gs[g]
  <1> DEFINE gs == GroupEvents(log, All(log))
             T == {g \in Range(gs) : SeqStart(g) > CoveredEnd(log)
                                       /\ ~(log[SeqStart(g)].type = "context_snapshot")}
  <1>1. gs \in Seq(CausalGroups)
    <2>1. Grouping(gs, log, EachSeq(log))
      BY AllGroups
    <2> QED
      BY <2>1 DEF Grouping, Groups
  <1>2. Eligible = Select(gs, T)
    BY DEF Eligible
  <1> HIDE DEF gs
  <1>3. \A g \in 1..Len(gs) : gs[g] \in T <=> MayTake(log, gs[g])
    <2>1. DOMAIN gs = 1..Len(gs)
      BY <1>1
    <2> QED
      BY <2>1 DEF MayTake, Range
  <1> HIDE DEF T
  <1>4. HoldsMembers(Select(gs, T), gs, CausalGroups, T)
    BY <1>1, SelectMembers
  <1>5. HoldsMembers(Eligible, gs, CausalGroups, T)
    BY <1>2, <1>4
  <1> DEFINE E == Eligible
  <1>6. HoldsMembers(E, gs, CausalGroups, T)
    BY <1>5
  <1> HIDE DEF E
  <1>7. E \in Groups
    BY <1>6 DEF HoldsMembers, Groups
  <1>8. ASSUME NEW j \in 1..Len(E) PROVE MayTake(log, E[j]) /\ \E g \in 1..Len(gs) : E[j] = gs[g]
    <2>1. E[j] \in T /\ \E g \in 1..Len(gs) : gs[g] = E[j]
      BY <1>6 DEF HoldsMembers
    <2> QED
      BY <1>3, <2>1
  <1>9. ASSUME NEW g \in 1..Len(gs), MayTake(log, gs[g]) PROVE \E j \in 1..Len(E) : E[j] = gs[g]
    BY <1>3, <1>6, <1>9 DEF HoldsMembers
  <1> QED
    BY <1>7, <1>8, <1>9 DEF gs, E

\* Compact's range: a group it may take lies in it, or behind it.
Ranged(l, f, t) ==
  LET gs == GroupEvents(l, All(l))
  IN /\ f \in Nat /\ t \in Nat /\ CoveredEnd(l) < f /\ f <= t /\ t <= Len(l)
     /\ \A g \in 1..Len(gs) : MayTake(l, gs[g]) =>
          \/ f <= SeqStart(gs[g]) /\ SeqEnd(gs[g]) <= t
          \/ t < SeqStart(gs[g])

\* The range /compact covers.
LEMMA CompactRange ==
  ASSUME LogInv(log, intact), Budget \in Nat, SelectClosedRange(Eligible, Budget) # <<>>
  PROVE  \E f, t \in Nat :
           /\ BuildSnapshot(SelectClosedRange(Eligible, Budget)) = SnapshotEvent(f, t)
           /\ Ranged(log, f, t)
  <1> DEFINE gs == GroupEvents(log, All(log))
             n == Len(log)
             c == CoveredEnd(log)
             E == Eligible
             selected == SelectClosedRange(Eligible, Budget)
  <1>1. log \in Logs /\ n \in Nat /\ c \in Nat
    <2>1. log \in Logs /\ SnapshotsOK(log)
      BY DEF LogInv
    <2> QED
      BY <2>1, CoveredEndFacts DEF Logs
  <1>2. Grouping(gs, log, EachSeq(log))
    BY <1>1, AllGroups
  <1>3. /\ E \in Groups
        /\ \A j \in 1..Len(E) : MayTake(log, E[j]) /\ \E g \in 1..Len(gs) : E[j] = gs[g]
        /\ \A g \in 1..Len(gs) : MayTake(log, gs[g]) => \E j \in 1..Len(E) : E[j] = gs[g]
    BY <1>1, EligibleGroups
  <1>4. PICK k \in 0..Len(E) :
          /\ selected = SubSeq(E, 1, k)
          /\ \A i \in 1..k, j \in (k + 1)..Len(E) : SeqEnd(E[i]) < SeqStart(E[j])
    BY <1>3, ClosedRange
  <1> HIDE DEF gs, E, c
  <1>5. \A j \in 1..Len(E) :
          /\ SeqStart(E[j]) \in 1..n /\ SeqEnd(E[j]) \in 1..n
          /\ SeqStart(E[j]) <= SeqEnd(E[j]) /\ c < SeqStart(E[j])
    <2> SUFFICES ASSUME NEW j \in 1..Len(E)
                 PROVE  /\ SeqStart(E[j]) \in 1..n /\ SeqEnd(E[j]) \in 1..n
                        /\ SeqStart(E[j]) <= SeqEnd(E[j]) /\ c < SeqStart(E[j])
      OBVIOUS
    <2>1. PICK g \in 1..Len(gs) : E[j] = gs[g]
      BY <1>3
    <2>2. SeqStart(gs[g]) \in 1..n /\ SeqEnd(gs[g]) \in 1..n /\ SeqStart(gs[g]) <= SeqEnd(gs[g])
      BY <1>1, <1>2, GroupEnds
    <2>3. SeqStart(E[j]) > c
      BY <1>3 DEF MayTake, c
    <2>4. c < SeqStart(E[j])
      BY <1>1, <2>1, <2>2, <2>3
    <2> QED
      BY <2>1, <2>2, <2>4
  <1>6. Len(E) \in Nat /\ E \in Seq(CausalGroups)
    BY <1>3 DEF Groups
  <1>7. DOMAIN selected = 1..k /\ (\A i \in 1..k : selected[i] = E[i] /\ i \in 1..Len(E)) /\ 1 \in 1..k
    <2>1. selected \in Seq(CausalGroups) /\ DOMAIN selected = 1..k
          /\ \A i \in 1..k : selected[i] = E[i] /\ i \in 1..Len(E)
      <3> HIDE DEF selected
      <3> QED
        BY <1>4, <1>6
    <2>2. k # 0
      <3>1. k = 0 => selected = <<>>
        <4> HIDE DEF selected
        <4> QED
          BY <1>4, <1>6
      <3> QED
        BY <3>1
    <2> QED
      BY <2>1, <2>2
  <1> HIDE DEF selected, n
  <1> DEFINE starts == {SeqStart(selected[g]) : g \in DOMAIN selected}
             ends == {SeqEnd(selected[g]) : g \in DOMAIN selected}
             f == CHOOSE s \in starts : \A y \in starts : s <= y
             t == CHOOSE e \in ends : \A y \in ends : y <= e
  <1>8. BuildSnapshot(selected) = SnapshotEvent(f, t)
    BY DEF BuildSnapshot
  <1>9. /\ starts \in SUBSET Nat /\ starts # {} /\ ends \in SUBSET (1..n) /\ ends # {}
    <2>1. ASSUME NEW i \in 1..k PROVE SeqStart(selected[i]) \in Nat /\ SeqEnd(selected[i]) \in 1..n
      <3>1. selected[i] = E[i] /\ i \in 1..Len(E)
        BY <1>7
      <3>2. SeqStart(E[i]) \in 1..n /\ SeqEnd(E[i]) \in 1..n
        BY <1>5, <3>1
      <3>3. SeqStart(E[i]) \in Nat
        BY <3>2
      <3> QED
        BY <3>1, <3>2, <3>3
    <2>2. SeqStart(selected[1]) \in starts /\ SeqEnd(selected[1]) \in ends
      BY <1>7
    <2>3. starts \in SUBSET Nat /\ ends \in SUBSET (1..n)
      BY <1>7, <2>1
    <2> QED
      BY <2>2, <2>3
  <1>10. f \in starts /\ \A y \in starts : f <= y
    <2> HIDE DEF starts
    <2>1. \E s \in starts : \A y \in starts : s <= y
      BY <1>9, LeastMember
    <2> QED
      BY <2>1
  <1>11. t \in ends /\ \A y \in ends : y <= t
    <2> HIDE DEF ends
    <2>1. \E e \in ends : \A y \in ends : y <= e
      <3>1. MaxOf(ends) \in ends /\ \A y \in ends : y <= MaxOf(ends)
        BY <1>1, <1>9, MaxOfSet
      <3> QED
        BY <3>1
    <2> QED
      BY <2>1
  <1> HIDE DEF f, t
  <1>12. PICK a \in 1..k : f = SeqStart(E[a])
    BY <1>7, <1>10
  <1>13. PICK b \in 1..k : t = SeqEnd(E[b])
    BY <1>7, <1>11
  <1>14. \A i \in 1..k : f <= SeqStart(E[i]) /\ SeqEnd(E[i]) <= t
    BY <1>7, <1>10, <1>11
  <1> HIDE DEF starts, ends
  <1>15. f \in 1..n /\ t \in 1..n /\ c < f /\ f <= t
    <2>1. f \in 1..n /\ t \in 1..n /\ c < f
      BY <1>5, <1>7, <1>12, <1>13
    <2>2. SeqStart(E[a]) <= SeqEnd(E[a]) /\ SeqEnd(E[a]) <= t /\ SeqEnd(E[a]) \in 1..n
      BY <1>5, <1>7, <1>14
    <2> QED
      BY <1>12, <2>1, <2>2
  <1>16. ASSUME NEW g \in 1..Len(gs), MayTake(log, gs[g])
         PROVE  \/ f <= SeqStart(gs[g]) /\ SeqEnd(gs[g]) <= t
                \/ t < SeqStart(gs[g])
    <2>1. PICK j \in 1..Len(E) : E[j] = gs[g]
      BY <1>3, <1>16
    <2>2. CASE j \in 1..k
      BY <1>14, <2>1, <2>2
    <2>3. CASE ~(j \in 1..k)
      <3>1. j \in (k + 1)..Len(E)
        BY <1>6, <2>3
      <3> QED
        BY <1>4, <1>13, <2>1, <3>1
    <2> QED
      BY <2>2, <2>3
  <1>17. Ranged(log, f, t)
    BY <1>1, <1>15, <1>16 DEF Ranged, gs, c, n
  <1>18. f \in Nat /\ t \in Nat
    BY <1>15
  <1> QED
    BY <1>8, <1>17, <1>18 DEF selected

-----------------------------------------------------------------------------
(* A snapshot keeps what holds of the log. *)

\* An answer follows its proposal among all events.
LEMMA AnswerFollows ==
  ASSUME NEW l \in Logs, NEW i \in 1..Len(l), NEW q \in 1..Len(l), q < i, AnswersIn(l, q, i)
  PROVE  Follows(l, EachSeq(l), q, i)
  <1> DEFINE X == EachSeq(l)
  <1>1. Len(l) \in Nat
    BY DEF Logs
  <1>2. PICK m \in q..(i - 1) : /\ \A y \in q..m : l[y].type = "tool_call_proposed"
                                /\ \A y \in (m + 1)..i : l[y].type \in CallRefTypes
    BY DEF AnswersIn
  <1>3. m \in Nat /\ q \in q..m /\ i \in (m + 1)..i
    BY <1>1, <1>2
  <1>4. ASSUME NEW y \in {y \in X : y <= i}, y >= q
        PROVE  IF y <= m THEN l[y].type = "tool_call_proposed" ELSE l[y].type \in CallRefTypes
    <2>1. y \in 1..Len(l) /\ y <= i
      BY DEF EachSeq
    <2>2. y <= m => y \in q..m
      BY <1>1, <1>3, <1>4, <2>1
    <2>3. ~(y <= m) => y \in (m + 1)..i
      BY <1>1, <1>3, <2>1
    <2> QED
      BY <1>2, <2>2, <2>3
  <1>5. q \in {y \in X : y <= i}
    BY <1>1 DEF EachSeq
  <1>6. l[q].type = "tool_call_proposed" /\ l[i].type \in CallRefTypes
    BY <1>2, <1>3
  <1>7. Runs(l, {y \in X : y <= i}, q)
    BY <1>3, <1>4, <1>5, <1>6 DEF Runs
  <1>8. l[i].call = l[q].call
    BY DEF AnswersIn, Event
  <1> QED
    BY <1>6, <1>7, <1>8 DEF Follows

\* An answer beyond the newest snapshot lies in the group of a proposal it answers,
\* which lies beyond it too.
LEMMA AnswerGroup ==
  ASSUME NEW l, NEW whole, LogInv(l, whole), NEW i \in 1..Len(l), i > CoveredEnd(l),
         NEW p \in 1..Len(l), p < i, AnswersIn(l, p, i),
         NEW g \in 1..Len(GroupEvents(l, All(l))), NEW o \in 1..Len(GroupEvents(l, All(l))[g].ids),
         GroupEvents(l, All(l))[g].ids[o] = i
  PROVE  LET h == SeqStart(GroupEvents(l, All(l))[g])
         IN /\ h \in 1..Len(l) /\ h < i /\ AnswersIn(l, h, i)
            /\ MayTake(l, GroupEvents(l, All(l))[g])
  <1> DEFINE gs == GroupEvents(l, All(l))
             h == SeqStart(gs[g])
             c == CoveredEnd(l)
  <1>1. l \in Logs /\ RunsUncut(l) /\ c \in Nat /\ Len(l) \in Nat
    <2>1. l \in Logs /\ RunsUncut(l) /\ SnapshotsOK(l)
      BY DEF LogInv
    <2> QED
      BY <2>1, CoveredEndFacts
  <1>2. PICK q \in 1..Len(l) : q > c /\ q < i /\ AnswersIn(l, q, i)
    BY <1>1 DEF RunsUncut
  <1>3. Follows(l, EachSeq(l), q, i)
    BY <1>1, <1>2, AnswerFollows
  <1>4. Grouping(gs, l, EachSeq(l))
    BY <1>1, AllGroups
  <1>5. gs[g].ids[o] = i /\ g \in 1..Len(gs) /\ o \in 1..Len(gs[g].ids)
    OBVIOUS
  <1> HIDE DEF gs
  <1>6. h = gs[g].ids[1] /\ h \in 1..Len(l)
    BY <1>1, <1>4, <1>5, GroupEnds
  <1>7. o > 1 /\ gs[g].ids[1] >= q
    BY <1>3, <1>4, <1>5 DEF Grouping, GroupsAnswer, EachSeq
  <1>8. l[h].type = "tool_call_proposed" /\ l[i].call = l[h].call
    BY <1>4, <1>5, <1>6, <1>7 DEF Grouping, GroupsCausal
  <1>9. h < i
    <2>1. Increasing(gs[g].ids)
      BY <1>4, <1>5 DEF Grouping, GroupsCover
    <2>2. gs[g].ids \in Seq(Nat)
      <3>1. gs \in Seq(CausalGroups)
        BY <1>4 DEF Grouping, Groups
      <3>2. gs[g] \in CausalGroups
        BY <1>5, <3>1
      <3> QED
        BY <3>2, GroupFields
    <2> DEFINE ids == gs[g].ids
    <2>3. Increasing(ids) /\ ids \in Seq(Nat) /\ o \in 1..Len(ids) /\ ids[o] = i /\ h = ids[1] /\ o > 1
      BY <1>5, <1>6, <1>7, <2>1, <2>2
    <2> HIDE DEF ids
    <2>4. 1 \in 1..Len(ids)
      BY <2>3
    <2> QED
      BY <2>3, <2>4 DEF Increasing
  <1> HIDE DEF h
  <1>10. l[h] = Event("tool_call_proposed", l[i].call)
    <2>1. l[h] \in Events
      BY <1>1, <1>6 DEF Logs
    <2> QED
      BY <1>8, <2>1 DEF Events
  <1>11. AnswersIn(l, h, i)
    <2>1. PICK m \in q..(i - 1) : /\ \A y \in q..m : l[y].type = "tool_call_proposed"
                                  /\ \A y \in (m + 1)..i : l[y].type \in CallRefTypes
      BY <1>2 DEF AnswersIn
    <2>2. m \in Nat /\ h >= q
      BY <1>2, <1>6, <1>7, <2>1
    <2>3. h <= m
      <3>1. h \notin (m + 1)..i
        BY <1>8, <2>1 DEF CallRefTypes
      <3> QED
        BY <1>6, <1>9, <2>2, <3>1
    <2>4. m \in h..(i - 1) /\ \A y \in h..m : y \in q..m
      BY <1>2, <1>6, <2>1, <2>2, <2>3
    <2> QED
      BY <1>10, <2>1, <2>4 DEF AnswersIn
  <1>12. h > c /\ l[h].type # "context_snapshot"
    BY <1>1, <1>2, <1>6, <1>7, <1>8
  <1>13. MayTake(l, gs[g])
    BY <1>12 DEF MayTake, h, c
  <1> QED
    BY <1>6, <1>9, <1>11, <1>13 DEF h, gs

\* What a snapshot changes in the log.
LEMMA NewSnapshot ==
  ASSUME NEW l, NEW whole, LogInv(l, whole), NEW f, NEW t, Ranged(l, f, t)
  PROVE  LET m == Append(l, SnapshotEvent(f, t))
         IN /\ m \in Logs /\ Len(m) = Len(l) + 1 /\ \A k \in 1..Len(l) : m[k] = l[k]
            /\ m[Len(l) + 1] = SnapshotEvent(f, t)
            /\ Snaps(m) = Snaps(l) \cup {Len(l) + 1} /\ CoveredEnd(m) = t
            /\ SnapshotsOK(m)
  <1> DEFINE e == SnapshotEvent(f, t)
             m == Append(l, e)
             n == Len(l)
             c == CoveredEnd(l)
  <1>1. l \in Logs /\ SnapshotsOK(l) /\ l \in Seq(Events) /\ n \in Nat
    BY DEF LogInv, Logs
  <1>2. c \in Nat /\ \A s \in Snaps(l) : s \in 1..n /\ l[s].to \in Nat /\ l[s].to <= c
    BY <1>1, CoveredEndFacts
  <1>3. f \in Nat /\ t \in Nat /\ c < f /\ f <= t /\ t <= n
    BY DEF Ranged
  <1>4. e \in Events /\ e.type = "context_snapshot" /\ e.from = f /\ e.to = t
    BY <1>3 DEF SnapshotEvent, Events, EventTypes, NoCall
  <1> HIDE DEF e
  <1>5. m \in Seq(Events) /\ Len(m) = n + 1 /\ (\A k \in 1..n : m[k] = l[k]) /\ m[n + 1] = e
    BY <1>1, <1>4
  <1>6. DOMAIN m = 1..(n + 1) /\ DOMAIN l = 1..n
    BY <1>1, <1>5
  <1> HIDE DEF m, n, c
  <1>7. m \in Logs
    BY <1>5 DEF Logs
  <1>8. Snaps(m) = Snaps(l) \cup {n + 1}
    <2>1. \A k \in 1..(n + 1) : k \in 1..n \/ k = n + 1
      BY <1>1
    <2>2. \A k \in 1..n : k \in 1..(n + 1)
      BY <1>1
    <2>3. n + 1 \in 1..(n + 1)
      BY <1>1
    <2>4. \A k \in DOMAIN m : m[k].type = "context_snapshot" <=> k = n + 1 \/ k \in Snaps(l)
      BY <1>2, <1>4, <1>5, <1>6, <2>1 DEF Snaps
    <2>5. Snaps(l) \subseteq DOMAIN m
      BY <1>2, <1>6, <2>2
    <2> QED
      BY <1>6, <2>3, <2>4, <2>5 DEF Snaps
  <1>9. CoveredEnd(m) = t
    <2> DEFINE a == ActiveSnapshot(m)
    <2>1. /\ a \in Snaps(m) /\ (\A s \in Snaps(m) : s <= a) /\ CoveredEnd(m) = m[a].to
      BY <1>7, <1>8, SnapshotFacts
    <2> HIDE DEF a
    <2>2. a = n + 1
      <3>1. n + 1 <= a /\ (a \in 1..n \/ a = n + 1)
        BY <1>2, <1>8, <2>1
      <3> QED
        BY <1>1, <3>1
    <2> QED
      BY <1>4, <1>5, <2>1, <2>2
  <1>10. SnapshotsOK(m)
    <2>1. ASSUME NEW s \in Snaps(m) PROVE 1 <= m[s].from /\ m[s].from <= m[s].to /\ m[s].to < s
      <3>1. CASE s = n + 1
        BY <1>1, <1>2, <1>3, <1>4, <1>5, <3>1
      <3>2. CASE s \in Snaps(l)
        <4>1. m[s] = l[s]
          BY <1>2, <1>5, <3>2
        <4> QED
          BY <1>1, <3>2, <4>1 DEF SnapshotsOK
      <3> QED
        BY <1>8, <3>1, <3>2
    <2>2. ASSUME NEW s \in Snaps(m), NEW u \in Snaps(m), s < u PROVE m[s].to < m[u].to
      <3>1. s \in Snaps(l)
        <4>1. s # n + 1
          <5>1. u = n + 1 \/ u \in 1..n
            BY <1>2, <1>8
          <5> QED
            BY <1>1, <2>2, <5>1
        <4> QED
          BY <1>8, <4>1
      <3>2. m[s] = l[s] /\ l[s].to \in Nat /\ l[s].to <= c
        BY <1>2, <1>5, <3>1
      <3>3. CASE u = n + 1
        BY <1>2, <1>3, <1>4, <1>5, <3>2, <3>3
      <3>4. CASE u \in Snaps(l)
        <4>1. m[u] = l[u]
          BY <1>2, <1>5, <3>4
        <4> QED
          BY <1>1, <2>2, <3>1, <3>2, <3>4, <4>1 DEF SnapshotsOK
      <3> QED
        BY <1>8, <3>3, <3>4
    <2> QED
      BY <2>1, <2>2 DEF SnapshotsOK
  <1> QED
    BY <1>5, <1>7, <1>8, <1>9, <1>10 DEF m, n, e

\* /compact keeps the invariant of the log.
LEMMA SnapshotKeeps ==
  ASSUME NEW l, NEW whole, LogInv(l, whole), NEW f, NEW t, Ranged(l, f, t)
  PROVE  LogInv(Append(l, SnapshotEvent(f, t)), whole)
  <1> DEFINE m == Append(l, SnapshotEvent(f, t))
             n == Len(l)
             c == CoveredEnd(l)
             gs == GroupEvents(l, All(l))
  <1>1. l \in Logs /\ whole \in BOOLEAN /\ SnapshotsOK(l) /\ CoversAll(l, whole)
        /\ RunsUncut(l) /\ (whole => Answered(l)) /\ n \in Nat
    BY DEF LogInv, Logs
  <1>2. c \in Nat /\ \A s \in Snaps(l) : s \in 1..n
    BY <1>1, CoveredEndFacts
  <1>3. /\ f \in Nat /\ t \in Nat /\ c < f /\ f <= t /\ t <= n
        /\ \A g \in 1..Len(gs) : MayTake(l, gs[g]) =>
             \/ f <= SeqStart(gs[g]) /\ SeqEnd(gs[g]) <= t
             \/ t < SeqStart(gs[g])
    BY DEF Ranged
  <1>4. /\ m \in Logs /\ Len(m) = n + 1 /\ \A k \in 1..n : m[k] = l[k]
        /\ m[n + 1] = SnapshotEvent(f, t)
        /\ Snaps(m) = Snaps(l) \cup {n + 1} /\ CoveredEnd(m) = t
        /\ SnapshotsOK(m)
    BY NewSnapshot
  <1>5. Grouping(gs, l, EachSeq(l))
    BY <1>1, AllGroups
  <1>6. ASSUME NEW i \in 1..n
        PROVE  /\ i \in 1..Len(m) /\ m[i] = l[i]
               /\ \A p \in 1..i : AnswersIn(m, p, i) <=> AnswersIn(l, p, i)
               /\ StrayIn(m, i) <=> StrayIn(l, i)
    <2>1. Len(l) <= Len(m) /\ \A k \in 1..Len(l) : m[k] = l[k]
      BY <1>1, <1>4
    <2>2. i \in 1..Len(l)
      OBVIOUS
    <2> HIDE DEF m
    <2> QED
      BY <1>1, <1>4, <2>1, <2>2, SameAnswers
  <1>7. ASSUME NEW i \in 1..n
        PROVE  \E g \in 1..Len(gs) : \E o \in 1..Len(gs[g].ids) : gs[g].ids[o] = i
    BY <1>5 DEF Grouping, GroupsCover, EachSeq
  <1>8. ASSUME NEW i \in 1..n, i > c, NEW p \in 1..n, p < i, AnswersIn(l, p, i)
        PROVE  \E g \in 1..Len(gs) :
                 /\ MayTake(l, gs[g]) /\ i <= SeqEnd(gs[g])
                 /\ SeqStart(gs[g]) \in 1..n /\ SeqStart(gs[g]) < i /\ AnswersIn(l, SeqStart(gs[g]), i)
    <2>1. PICK g \in 1..Len(gs) : \E o \in 1..Len(gs[g].ids) : gs[g].ids[o] = i
      BY <1>7
    <2>2. PICK o \in 1..Len(gs[g].ids) : gs[g].ids[o] = i
      BY <2>1
    <2>3. /\ SeqStart(gs[g]) \in 1..n /\ SeqStart(gs[g]) < i /\ AnswersIn(l, SeqStart(gs[g]), i)
          /\ MayTake(l, gs[g])
      BY <1>8, <2>2, AnswerGroup
    <2>4. i <= SeqEnd(gs[g])
      <3> HIDE DEF gs
      <3> QED
        BY <1>1, <1>5, <2>2, GroupEnds
    <2> QED
      BY <2>3, <2>4
  <1> HIDE DEF m, gs, c, n
  <1>9. CoversAll(m, whole)
    <2> SUFFICES ASSUME NEW i \in 1..t, Conversational(m[i].type)
                 PROVE  CoveredBy(m, i) \/ (~whole /\ StrayIn(m, i))
      BY <1>4 DEF CoversAll
    <2>1. i \in 1..n /\ m[i] = l[i] /\ (StrayIn(m, i) <=> StrayIn(l, i))
      <3>1. i \in 1..n
        BY <1>1, <1>3
      <3> QED
        BY <1>6, <3>1
    <2>2. CASE i <= c
      <3>1. i \in 1..c
        BY <1>2, <2>1, <2>2
      <3>2. CoveredBy(l, i) \/ (~whole /\ StrayIn(l, i))
        BY <1>1, <2>1, <3>1 DEF CoversAll, c
      <3>3. CoveredBy(l, i) => CoveredBy(m, i)
        BY <1>2, <1>4 DEF CoveredBy
      <3> QED
        BY <2>1, <3>2, <3>3
    <2>3. CASE f <= i
      <3>1. m[n + 1].from = f /\ m[n + 1].to = t
        BY <1>4 DEF SnapshotEvent
      <3>2. n + 1 \in Snaps(m) /\ i <= t
        BY <1>1, <1>3, <1>4
      <3> QED
        BY <2>3, <3>1, <3>2 DEF CoveredBy
    <2>4. CASE c < i /\ i < f
      <3>1. PICK g \in 1..Len(gs) : \E o \in 1..Len(gs[g].ids) : gs[g].ids[o] = i
        BY <1>7, <2>1
      <3>2. PICK o \in 1..Len(gs[g].ids) : gs[g].ids[o] = i
        BY <3>1
      <3> DEFINE h == SeqStart(gs[g])
      <3>3. h = gs[g].ids[1] /\ h \in 1..n /\ h <= i /\ i <= SeqEnd(gs[g]) /\ SeqEnd(gs[g]) \in 1..n
        BY <1>1, <1>5, <3>2, GroupEnds DEF n
      <3>4. ASSUME MayTake(l, gs[g]) PROVE FALSE
        <4>1. f <= h \/ t < h
          BY <1>3, <3>4
        <4> HIDE DEF h
        <4> QED
          BY <1>1, <1>3, <2>1, <2>4, <3>3, <4>1
      <3>5. CASE h > c
        <4>1. l[h].type # "context_snapshot"
          <5>1. CASE o = 1
            <6>1. h = i
              BY <3>2, <3>3, <5>1
            <6> QED
              BY <2>1, <6>1 DEF Conversational, RoleOf
          <5>2. CASE o # 1
            <6>1. o > 1
              <7>1. gs[g].ids \in Seq(Nat)
                <8>1. gs \in Seq(CausalGroups)
                  BY <1>5 DEF Grouping, Groups
                <8>2. gs[g] \in CausalGroups
                  BY <8>1
                <8> QED
                  BY <8>2, GroupFields
              <7> QED
                BY <3>2, <5>2, <7>1
            <6>2. l[gs[g].ids[1]].type = "tool_call_proposed"
              BY <1>5, <3>2, <6>1 DEF Grouping, GroupsCausal
            <6> QED
              BY <3>3, <6>2
          <5> QED
            BY <5>1, <5>2
        <4>2. MayTake(l, gs[g])
          BY <3>5, <4>1 DEF MayTake, c
        <4> QED
          BY <3>4, <4>2
      <3>6. CASE ~(h > c)
        <4>1. \A p \in 1..(i - 1) : ~AnswersIn(l, p, i)
          <5> SUFFICES ASSUME NEW p \in 1..(i - 1), AnswersIn(l, p, i) PROVE FALSE
            OBVIOUS
          <5>1. p \in 1..n /\ p < i
            BY <1>1, <2>1
          <5>2. p \in 1..Len(l) /\ i \in 1..Len(l) /\ i > CoveredEnd(l)
            BY <1>2, <2>1, <2>4, <5>1 DEF n, c
          <5>3. MayTake(l, gs[g])
            BY <3>2, <5>1, <5>2, AnswerGroup DEF gs
          <5> QED
            BY <3>4, <5>3
        <4>2. o # 1
          <5>1. o = 1 => h = i
            BY <3>2, <3>3
          <5> QED
            BY <1>2, <2>1, <2>4, <3>6, <5>1
        <4>3. l[i].type \in CallRefTypes
          <5>1. o > 1
            <6>1. gs[g].ids \in Seq(Nat)
              <7>1. gs \in Seq(CausalGroups)
                BY <1>5 DEF Grouping, Groups
              <7>2. gs[g] \in CausalGroups
                BY <7>1
              <7> QED
                BY <7>2, GroupFields
            <6> QED
              BY <3>2, <4>2, <6>1
          <5> QED
            BY <1>5, <3>2, <5>1 DEF Grouping, GroupsCausal
        <4>4. l[i].type = "tool_result"
          BY <2>1, <4>3 DEF Conversational, RoleOf, CallRefTypes
        <4>5. StrayIn(l, i)
          BY <4>1, <4>4 DEF StrayIn
        <4>6. ~whole
          <5> SUFFICES ASSUME whole PROVE FALSE
            OBVIOUS
          <5>1. PICK p \in 1..Len(l) : p < i /\ AnswersIn(l, p, i)
            BY <1>1, <2>1, <4>3 DEF Answered, n
          <5>2. p \in 1..(i - 1)
            BY <2>1, <1>1, <5>1
          <5> QED
            BY <4>1, <5>1, <5>2
        <4> QED
          BY <2>1, <4>5, <4>6
      <3> QED
        BY <3>5, <3>6
    <2> QED
      BY <1>2, <1>3, <2>1, <2>2, <2>3, <2>4
  <1>10. RunsUncut(m)
    <2> SUFFICES ASSUME NEW i \in 1..(n + 1), NEW p \in 1..(n + 1), p < i, i > t, AnswersIn(m, p, i)
                 PROVE  \E q \in 1..(n + 1) : q > t /\ q < i /\ AnswersIn(m, q, i)
      BY <1>4 DEF RunsUncut
    <2>1. i \in 1..n
      <3>1. m[i].type \in CallRefTypes
        <4>1. PICK k \in p..(i - 1) : \A z \in (k + 1)..i : m[z].type \in CallRefTypes
          BY DEF AnswersIn
        <4>2. i \in (k + 1)..i
          BY <1>1, <4>1
        <4> QED
          BY <4>1, <4>2
      <3>2. i # n + 1
        BY <1>4, <3>1 DEF SnapshotEvent, CallRefTypes
      <3> QED
        BY <1>1, <3>2
    <2>2. p \in 1..n /\ p \in 1..i /\ i > c
      BY <1>1, <1>2, <1>3, <2>1
    <2>3. AnswersIn(l, p, i)
      BY <1>6, <2>1, <2>2
    <2>4. PICK g \in 1..Len(gs) :
            /\ MayTake(l, gs[g]) /\ i <= SeqEnd(gs[g])
            /\ SeqStart(gs[g]) \in 1..n /\ SeqStart(gs[g]) < i /\ AnswersIn(l, SeqStart(gs[g]), i)
      BY <1>8, <2>1, <2>2, <2>3
    <2> DEFINE h == SeqStart(gs[g])
    <2>5. h > t
      <3>1. SeqEnd(gs[g]) \in 1..n
        BY <1>1, <1>5, GroupEnds DEF n
      <3>2. ~(SeqEnd(gs[g]) <= t)
        BY <1>1, <1>3, <2>1, <2>4, <3>1
      <3>3. t < h
        BY <1>3, <2>4, <3>2
      <3> QED
        BY <1>3, <2>4, <3>3
    <2>6. h \in 1..(n + 1) /\ h \in 1..i /\ h < i /\ AnswersIn(l, h, i)
      <3>1. h \in 1..n /\ h < i /\ AnswersIn(l, h, i)
        BY <2>4
      <3> HIDE DEF h
      <3> QED
        BY <1>1, <2>1, <3>1
    <2> HIDE DEF h
    <2>7. AnswersIn(m, h, i)
      BY <1>6, <2>1, <2>6
    <2> QED
      BY <2>5, <2>6, <2>7
  <1>11. whole => Answered(m)
    <2> SUFFICES ASSUME whole, NEW i \in 1..(n + 1), m[i].type \in CallRefTypes
                 PROVE  \E p \in 1..(n + 1) : p < i /\ AnswersIn(m, p, i)
      BY <1>4 DEF Answered
    <2>1. i \in 1..n
      <3>1. i # n + 1
        BY <1>4 DEF SnapshotEvent, CallRefTypes
      <3> QED
        BY <1>1, <3>1
    <2>2. PICK p \in 1..n : p < i /\ AnswersIn(l, p, i)
      BY <1>1, <1>6, <2>1 DEF Answered, n
    <2>3. p \in 1..i /\ p \in 1..(n + 1)
      BY <1>1, <2>1, <2>2
    <2> QED
      BY <1>6, <2>1, <2>2, <2>3
  <1>12. LogInv(m, whole)
    BY <1>1, <1>4, <1>9, <1>10, <1>11 DEF LogInv
  <1> QED
    BY <1>12 DEF m

-----------------------------------------------------------------------------
(* A round keeps what holds of the log. *)

\* A function on 1..n is a sequence.
LEMMA ListOf ==
  ASSUME NEW n \in Nat, NEW S, NEW f \in [1..n -> S]
  PROVE  f \in Seq(S) /\ Len(f) = n
  OBVIOUS

\* What answers a call: silent events, then its result.
LEMMA AnswerFacts ==
  ASSUME NEW id \in Nat, NEW d \in BOOLEAN
  PROVE  LET a == Answer(id, d)
         IN /\ a \in Seq(Events) /\ Len(a) \in {1, 3}
            /\ a[Len(a)] = Event("tool_result", id)
            /\ \A o \in 1..Len(a) :
                 /\ a[o].type \in CallRefTypes /\ a[o].call = id
                 /\ o < Len(a) => RoleOf(a[o].type) = "silent" /\ a[o].type # "tool_call_proposed"
  <1> DEFINE x == Event("policy_decision", id)
             y == Event("approval_denied", id)
             z == Event("tool_result", id)
  <1>1. x \in Events /\ y \in Events /\ z \in Events
    BY DEF Event, Events, EventTypes
  <1>2. /\ x.type = "policy_decision" /\ y.type = "approval_denied" /\ z.type = "tool_result"
        /\ x.call = id /\ y.call = id /\ z.call = id
    BY DEF Event
  <1>3. /\ x.type \in CallRefTypes /\ y.type \in CallRefTypes /\ z.type \in CallRefTypes
        /\ RoleOf(x.type) = "silent" /\ x.type # "tool_call_proposed"
        /\ RoleOf(y.type) = "silent" /\ y.type # "tool_call_proposed"
    BY <1>2 DEF CallRefTypes, RoleOf
  <1>4. Answer(id, d) = (IF d THEN <<x, y>> ELSE <<>>) \o <<z>>
    BY DEF Answer, Denied
  <1> HIDE DEF x, y, z
  <1>5. CASE d
    <2> DEFINE u == <<x, y>>
               v == <<z>>
               a == u \o v
    <2>1. /\ u \in Seq(Events) /\ Len(u) = 2 /\ u[1] = x /\ u[2] = y
          /\ v \in Seq(Events) /\ Len(v) = 1 /\ v[1] = z
      BY <1>1
    <2>2. Answer(id, d) = a
      BY <1>4, <1>5
    <2> HIDE DEF u, v
    <2>3. a \in Seq(Events) /\ Len(a) = 3 /\ a[1] = x /\ a[2] = y /\ a[3] = z
      <3>1. /\ u \o v \in Seq(Events) /\ Len(u \o v) = Len(u) + Len(v)
            /\ \A p \in 1..Len(u) : (u \o v)[p] = u[p]
            /\ \A p \in 1..Len(v) : (u \o v)[Len(u) + p] = v[p]
        <4>1. u \in Seq(Events) /\ v \in Seq(Events)
          BY <2>1
        <4> QED
          BY <4>1, Joined
      <3>2. Len(a) = 3 /\ 1 \in 1..Len(u) /\ 2 \in 1..Len(u) /\ 1 \in 1..Len(v) /\ Len(u) + 1 = 3
        BY <2>1, <3>1
      <3>3. a[1] = u[1] /\ a[2] = u[2] /\ a[Len(u) + 1] = v[1]
        BY <3>1, <3>2
      <3> QED
        BY <2>1, <3>1, <3>2, <3>3
    <2> HIDE DEF a
    <2>4. \A o \in 1..3 : o = 1 \/ o = 2 \/ o = 3
      OBVIOUS
    <2>5. \A o \in 1..3 :
            /\ a[o].type \in CallRefTypes /\ a[o].call = id
            /\ o < 3 => RoleOf(a[o].type) = "silent" /\ a[o].type # "tool_call_proposed"
      BY <1>2, <1>3, <2>3, <2>4
    <2> QED
      BY <2>2, <2>3, <2>5 DEF a, z
  <1>6. CASE ~d
    <2>1. <<>> \o <<z>> = <<z>>
      OBVIOUS
    <2>2. Answer(id, d) = <<z>>
      BY <1>4, <1>6, <2>1
    <2> DEFINE a == <<z>>
    <2>3. a \in Seq(Events) /\ Len(a) = 1 /\ a[1] = z
      BY <1>1
    <2> HIDE DEF a
    <2>4. \A o \in 1..1 : o = 1 /\ ~(o < 1)
      OBVIOUS
    <2>5. \A o \in 1..1 :
            /\ a[o].type \in CallRefTypes /\ a[o].call = id
            /\ o < 1 => RoleOf(a[o].type) = "silent" /\ a[o].type # "tool_call_proposed"
      BY <1>2, <1>3, <2>3, <2>4
    <2> QED
      BY <2>2, <2>3, <2>5 DEF a, z
  <1> QED
    BY <1>5, <1>6

\* The events of one round.
ProposalsOf(ids, size) == [i \in 1..size |-> Event("tool_call_proposed", ids[i])]
AnswersOf(ids, denied, lost) ==
  [i \in 1..Len(denied) |-> IF i = lost THEN <<>> ELSE Answer(ids[i], denied[i])]

\* The events of a round's proposals.
LEMMA ProposalFacts ==
  ASSUME NEW size \in Nat, NEW ids, \A i \in 1..size : ids[i] \in Nat
  PROVE  LET ps == ProposalsOf(ids, size)
         IN /\ ps \in Seq(Events) /\ Len(ps) = size
            /\ \A i \in 1..size : ps[i] = Event("tool_call_proposed", ids[i])
                                  /\ ps[i].type = "tool_call_proposed" /\ ps[i].call = ids[i]
  <1> DEFINE ps == ProposalsOf(ids, size)
  <1>1. ASSUME NEW i \in 1..size
        PROVE  /\ Event("tool_call_proposed", ids[i]) \in Events
               /\ Event("tool_call_proposed", ids[i]).type = "tool_call_proposed"
               /\ Event("tool_call_proposed", ids[i]).call = ids[i]
    BY <1>1 DEF Event, Events, EventTypes
  <1>2. ps = [i \in 1..size |-> Event("tool_call_proposed", ids[i])]
    BY DEF ProposalsOf
  <1>3. ps \in [1..size -> Events]
    BY <1>1, <1>2
  <1>4. \A i \in 1..size : ps[i] = Event("tool_call_proposed", ids[i])
    BY <1>2
  <1> HIDE DEF ps
  <1>5. ps \in Seq(Events) /\ Len(ps) = size
    BY <1>3
  <1> QED
    BY <1>1, <1>4, <1>5 DEF ps

\* The events of a round's answers.
LEMMA AnswersFacts ==
  ASSUME NEW n \in Nat, NEW ids, \A i \in 1..n : ids[i] \in Nat,
         NEW denied \in [1..n -> BOOLEAN], NEW lost
  PROVE  LET ans == AnswersOf(ids, denied, lost)
         IN /\ Len(denied) = n
            /\ ans \in Seq(Seq(Events)) /\ Len(ans) = n
            /\ \A i \in 1..n : ans[i] = IF i = lost THEN <<>> ELSE Answer(ids[i], denied[i])
            /\ \A i \in 1..n : \A o \in 1..Len(ans[i]) :
                 ans[i][o].type \in CallRefTypes /\ ans[i][o].call = ids[i]
  <1> DEFINE ans == AnswersOf(ids, denied, lost)
             One(i) == IF i = lost THEN <<>> ELSE Answer(ids[i], denied[i])
  <1>1. Len(denied) = n
    OBVIOUS
  <1>2. ASSUME NEW i \in 1..n
        PROVE  /\ One(i) \in Seq(Events)
               /\ \A o \in 1..Len(One(i)) : One(i)[o].type \in CallRefTypes /\ One(i)[o].call = ids[i]
    <2>1. CASE i = lost
      <3>1. One(i) = <<>>
        BY <2>1
      <3>2. <<>> \in Seq(Events) /\ 1..Len(<<>>) = {}
        OBVIOUS
      <3> HIDE DEF One
      <3> QED
        BY <3>1, <3>2
    <2>2. CASE i # lost
      <3> DEFINE id == ids[i]
                 d == denied[i]
                 a == Answer(id, d)
      <3>1. id \in Nat /\ d \in BOOLEAN
        OBVIOUS
      <3> HIDE DEF id, d
      <3>2. /\ a \in Seq(Events)
            /\ \A o \in 1..Len(a) : a[o].type \in CallRefTypes /\ a[o].call = id
        BY <3>1, AnswerFacts
      <3>3. One(i) = a
        BY <2>2 DEF id, d
      <3> HIDE DEF a, One
      <3> QED
        BY <3>2, <3>3 DEF id
    <2> QED
      BY <2>1, <2>2
  <1>3. ans = [i \in 1..n |-> One(i)]
    BY <1>1 DEF AnswersOf
  <1> HIDE DEF ans, One
  <1>4. ans \in [1..n -> Seq(Events)] /\ \A i \in 1..n : ans[i] = One(i)
    <2>1. \A i \in 1..n : One(i) \in Seq(Events)
      BY <1>2
    <2> QED
      BY <1>3, <2>1
  <1>5. ans \in Seq(Seq(Events)) /\ Len(ans) = n
    <2>1. ans \in [1..n -> Seq(Events)]
      BY <1>4
    <2> QED
      BY <2>1, ListOf
  <1>6. \A i \in 1..n : \A o \in 1..Len(ans[i]) :
          ans[i][o].type \in CallRefTypes /\ ans[i][o].call = ids[i]
    <2> SUFFICES ASSUME NEW i \in 1..n
                 PROVE  \A o \in 1..Len(ans[i]) : ans[i][o].type \in CallRefTypes /\ ans[i][o].call = ids[i]
      OBVIOUS
    <2>1. ans[i] = One(i)
      BY <1>4
    <2> QED
      BY <1>2, <2>1
  <1>7. \A i \in 1..n : ans[i] = IF i = lost THEN <<>> ELSE Answer(ids[i], denied[i])
    BY <1>4 DEF One
  <1> QED
    BY <1>1, <1>5, <1>6, <1>7 DEF ans

\* The log behind a round that the store has taken whole.
LEMMA RoundAnswered ==
  ASSUME NEW l \in Logs, NEW ps \in Seq(Events), NEW flat \in Seq(Events),
         NEW m, m = (l \o ps) \o flat,
         \A i \in 1..Len(ps) : ps[i].type = "tool_call_proposed",
         \A p \in 1..Len(flat) : flat[p].type \in CallRefTypes,
         \A p \in 1..Len(flat) : \E b \in 1..Len(ps) :
           ps[b] = Event("tool_call_proposed", flat[p].call)
  PROVE  \A i \in 1..Len(m) : i > Len(l) /\ m[i].type \in CallRefTypes =>
           \E p \in 1..Len(m) : p < i /\ AnswersIn(m, p, i)
  <1> DEFINE n == Len(l)
             k == Len(ps)
  <1>1. l \in Seq(Events) /\ n \in Nat /\ k \in Nat /\ Len(flat) \in Nat
    BY DEF Logs
  <1>2. /\ l \o ps \in Seq(Events) /\ Len(l \o ps) = n + k
        /\ \A p \in 1..k : (l \o ps)[n + p] = ps[p]
    BY <1>1, Joined
  <1>3. /\ Len(m) = n + k + Len(flat)
        /\ \A p \in 1..(n + k) : m[p] = (l \o ps)[p]
        /\ \A p \in 1..Len(flat) : m[n + k + p] = flat[p]
    <2> DEFINE v == l \o ps
    <2>1. v \in Seq(Events) /\ Len(v) = n + k
      BY <1>2
    <2> HIDE DEF v
    <2>2. /\ Len(v \o flat) = Len(v) + Len(flat)
          /\ \A p \in 1..Len(v) : (v \o flat)[p] = v[p]
          /\ \A p \in 1..Len(flat) : (v \o flat)[Len(v) + p] = flat[p]
      <3>1. v \in Seq(Events) /\ flat \in Seq(Events)
        BY <2>1
      <3> QED
        BY <3>1, Joined
    <2> QED
      BY <2>1, <2>2 DEF v
  <1>4. \A p \in 1..k : n + p \in 1..(n + k) /\ m[n + p] = ps[p]
    <2>1. \A p \in 1..k : n + p \in 1..(n + k)
      BY <1>1
    <2> QED
      BY <1>2, <1>3, <2>1
  <1> HIDE DEF n, k
  <1> SUFFICES ASSUME NEW i \in 1..(n + k + Len(flat)), i > n, m[i].type \in CallRefTypes
               PROVE  \E p \in 1..(n + k + Len(flat)) : p < i /\ AnswersIn(m, p, i)
    BY <1>3 DEF n
  <1>5. \A z \in (n + 1)..(n + k) : m[z].type = "tool_call_proposed"
    <2> SUFFICES ASSUME NEW z \in (n + 1)..(n + k) PROVE m[z].type = "tool_call_proposed"
      OBVIOUS
    <2>1. z - n \in 1..k /\ n + (z - n) = z
      BY <1>1
    <2>2. m[n + (z - n)] = ps[z - n]
      BY <1>4, <2>1
    <2> QED
      BY <2>1, <2>2 DEF k
  <1>6. \A z \in (n + k + 1)..(n + k + Len(flat)) :
          z - (n + k) \in 1..Len(flat) /\ m[z] = flat[z - (n + k)] /\ m[z].type \in CallRefTypes
    <2> SUFFICES ASSUME NEW z \in (n + k + 1)..(n + k + Len(flat))
                 PROVE  z - (n + k) \in 1..Len(flat) /\ m[z] = flat[z - (n + k)] /\ m[z].type \in CallRefTypes
      OBVIOUS
    <2>1. z - (n + k) \in 1..Len(flat) /\ n + k + (z - (n + k)) = z
      BY SMTT(20), <1>1
    <2>2. m[n + k + (z - (n + k))] = flat[z - (n + k)]
      BY <1>3, <2>1
    <2> QED
      BY <2>1, <2>2
  <1>7. i \in (n + k + 1)..(n + k + Len(flat))
    <2>1. i \notin (n + 1)..(n + k)
      BY <1>5 DEF CallRefTypes
    <2> QED
      BY <1>1, <2>1
  <1>8. PICK b \in 1..k : ps[b] = Event("tool_call_proposed", m[i].call)
    <2>1. \E b \in 1..k : ps[b] = Event("tool_call_proposed", flat[i - (n + k)].call)
      BY <1>6, <1>7 DEF k
    <2> QED
      BY <1>6, <1>7, <2>1
  <1> DEFINE q == n + b
  <1>9. q \in (n + 1)..(n + k) /\ q \in 1..(n + k + Len(flat)) /\ q < i /\ n + k \in q..(i - 1)
    BY <1>1, <1>7
  <1>10. m[q] = Event("tool_call_proposed", m[i].call)
    BY <1>4, <1>8
  <1> HIDE DEF q
  <1>11. \A z \in q..(n + k) : z \in (n + 1)..(n + k)
    BY <1>1, <1>9
  <1>12. \A z \in (n + k + 1)..i : z \in (n + k + 1)..(n + k + Len(flat))
    BY <1>1, <1>7
  <1>13. AnswersIn(m, q, i)
    <2>1. \A z \in q..(n + k) : m[z].type = "tool_call_proposed"
      BY <1>5, <1>11
    <2>2. \A z \in (n + k + 1)..i : m[z].type \in CallRefTypes
      BY <1>6, <1>12
    <2> QED
      BY <1>9, <1>10, <2>1, <2>2 DEF AnswersIn
  <1> QED
    BY <1>9, <1>13

\* A round keeps the invariant of the log.
LEMMA RoundKeeps ==
  ASSUME LogInv(log, intact), NEW ids, NEW size \in Nat, NEW n \in 0..size,
         \A i \in 1..size : ids[i] \in Nat,
         NEW denied \in [1..n -> BOOLEAN], NEW lost, Round(ids, size, denied, lost)
  PROVE  LogInv(log', intact')
  <1> DEFINE ps == ProposalsOf(ids, size)
             ans == AnswersOf(ids, denied, lost)
             flat == FlattenSeq(ans)
             shown == IF lost = Proposals THEN <<>> ELSE ps
             m == log'
  <1>1. log \in Logs /\ log \in Seq(Events) /\ intact \in BOOLEAN /\ Len(log) \in Nat
    BY DEF LogInv, Logs
  <1>2. n \in Nat /\ \A i \in 1..n : i \in 1..size
    OBVIOUS
  <1>3. /\ ps \in Seq(Events) /\ Len(ps) = size
        /\ \A i \in 1..size : ps[i] = Event("tool_call_proposed", ids[i])
                              /\ ps[i].type = "tool_call_proposed" /\ ps[i].call = ids[i]
    BY ProposalFacts
  <1>4. /\ Len(denied) = n
        /\ ans \in Seq(Seq(Events)) /\ Len(ans) = n
        /\ \A i \in 1..n : \A o \in 1..Len(ans[i]) :
             ans[i][o].type \in CallRefTypes /\ ans[i][o].call = ids[i]
    BY <1>2, AnswersFacts
  <1>5. m = (log \o shown) \o flat
    BY DEF Round, ProposalsOf, AnswersOf
  <1>6. IF lost = Nothing THEN intact' = intact ELSE intact' = FALSE
    BY DEF Round, AppendFails
  <1> HIDE DEF ps, ans
  <1>7. flat \in Seq(Events) /\ ComesOutOf(flat, ans)
    BY <1>4, FlattenPlaces
  <1> HIDE DEF flat
  <1>8. ASSUME NEW p \in 1..Len(flat)
        PROVE  flat[p].type \in CallRefTypes /\ \E b \in 1..n : flat[p].call = ids[b]
    <2>1. PICK b \in 1..Len(ans) : \E o \in 1..Len(ans[b]) : flat[p] = ans[b][o]
      BY <1>7 DEF ComesOutOf
    <2> QED
      BY <1>4, <2>1
  <1>9. shown \in Seq(Events) /\ \A i \in 1..Len(shown) : shown[i].type = "tool_call_proposed"
    <2>1. CASE shown = ps
      BY <1>3, <2>1
    <2>2. CASE shown = <<>>
      <3>1. <<>> \in Seq(Events) /\ 1..Len(<<>>) = {}
        OBVIOUS
      <3> HIDE DEF shown
      <3> QED
        BY <2>2, <3>1
    <2> QED
      BY <2>1, <2>2
  <1> HIDE DEF shown
  <1>10. /\ m \in Logs /\ Len(log) <= Len(m) /\ \A k \in 1..Len(log) : m[k] = log[k]
         /\ \A k \in 1..Len(m) : k > Len(log) => m[k].type # "context_snapshot"
    <2> DEFINE v == log \o shown
    <2>1. /\ v \in Seq(Events) /\ Len(v) = Len(log) + Len(shown) /\ Len(shown) \in Nat
          /\ \A p \in 1..Len(log) : v[p] = log[p]
          /\ \A p \in 1..Len(shown) : v[Len(log) + p] = shown[p]
      BY <1>1, <1>9, Joined
    <2> HIDE DEF v
    <2>2. /\ v \o flat \in Seq(Events) /\ Len(v \o flat) = Len(v) + Len(flat) /\ Len(flat) \in Nat
          /\ \A p \in 1..Len(v) : (v \o flat)[p] = v[p]
          /\ \A p \in 1..Len(flat) : (v \o flat)[Len(v) + p] = flat[p]
      <3>1. v \in Seq(Events) /\ flat \in Seq(Events)
        BY <1>7, <2>1
      <3> QED
        BY <3>1, Joined
    <2>3. m = v \o flat
      BY <1>5 DEF v
    <2> HIDE DEF m
    <2>4. \A k \in 1..Len(log) : k \in 1..Len(v)
      BY <1>1, <2>1
    <2>5. ASSUME NEW k \in 1..Len(m), k > Len(log) PROVE m[k].type # "context_snapshot"
      <3>1. CASE k \in 1..Len(v)
        <4>1. k - Len(log) \in 1..Len(shown) /\ Len(log) + (k - Len(log)) = k
          BY <1>1, <2>1, <2>5, <3>1
        <4>2. v[Len(log) + (k - Len(log))] = shown[k - Len(log)]
          BY <2>1, <4>1
        <4>3. m[k] = shown[k - Len(log)]
          BY <2>2, <2>3, <3>1, <4>1, <4>2
        <4> QED
          BY <1>9, <4>1, <4>3
      <3>2. CASE k \notin 1..Len(v)
        <4>1. k - Len(v) \in 1..Len(flat) /\ Len(v) + (k - Len(v)) = k
          BY <1>1, <2>1, <2>2, <2>3, <3>2
        <4>2. (v \o flat)[Len(v) + (k - Len(v))] = flat[k - Len(v)]
          BY <2>2, <4>1
        <4>3. m[k] = flat[k - Len(v)]
          BY <2>3, <4>1, <4>2
        <4> QED
          BY <1>8, <4>1, <4>3 DEF CallRefTypes
      <3> QED
        BY <3>1, <3>2
    <2>6. m \in Logs /\ Len(log) <= Len(m)
      BY <1>1, <2>1, <2>2, <2>3 DEF Logs
    <2>7. \A k \in 1..Len(log) : m[k] = log[k]
      BY <2>1, <2>2, <2>3, <2>4
    <2> QED
      BY <2>5, <2>6, <2>7
  <1>11. intact' => \A i \in 1..Len(m) : i > Len(log) /\ m[i].type \in CallRefTypes =>
                      \E p \in 1..Len(m) : p < i /\ AnswersIn(m, p, i)
    <2> SUFFICES ASSUME intact'
                 PROVE  \A i \in 1..Len(m) : i > Len(log) /\ m[i].type \in CallRefTypes =>
                          \E p \in 1..Len(m) : p < i /\ AnswersIn(m, p, i)
      OBVIOUS
    <2>1. shown = ps
      <3>1. lost = Nothing
        BY <1>6
      <3>2. -1 # 0
        OBVIOUS
      <3> QED
        BY <3>1, <3>2 DEF shown, Nothing, Proposals
    <2> HIDE DEF m
    <2>2. \A p \in 1..Len(flat) : \E b \in 1..Len(ps) :
            ps[b] = Event("tool_call_proposed", flat[p].call)
      <3> SUFFICES ASSUME NEW p \in 1..Len(flat)
                   PROVE  \E b \in 1..Len(ps) : ps[b] = Event("tool_call_proposed", flat[p].call)
        OBVIOUS
      <3>1. PICK b \in 1..n : flat[p].call = ids[b]
        BY <1>8
      <3>2. b \in 1..size /\ Len(ps) = size
        BY <1>2, <1>3
      <3>3. ps[b] = Event("tool_call_proposed", ids[b])
        BY <1>3, <3>2
      <3> QED
        BY <3>1, <3>2, <3>3
    <2>3. m = (log \o ps) \o flat
      BY <1>5, <2>1
    <2>4. \A i \in 1..Len(ps) : ps[i].type = "tool_call_proposed"
      BY <1>3
    <2>5. \A p \in 1..Len(flat) : flat[p].type \in CallRefTypes
      BY <1>8
    <2> QED
      BY <1>1, <1>3, <1>7, <2>2, <2>3, <2>4, <2>5, RoundAnswered
  <1> DEFINE still == intact'
  <1>12. still \in BOOLEAN /\ (still => intact)
    BY <1>1, <1>6
  <1> HIDE DEF m, still
  <1>13. LogInv(m, still)
    <2>1. still => \A i \in 1..Len(m) : i > Len(log) /\ m[i].type \in CallRefTypes =>
                      \E p \in 1..Len(m) : p < i /\ AnswersIn(m, p, i)
      BY <1>11 DEF still
    <2> QED
      BY <1>10, <1>12, <2>1, LongerLogInv
  <1> QED
    BY <1>13 DEF m, still

-----------------------------------------------------------------------------
(* Every step keeps what holds of the log. *)

\* One more event that refers to no call keeps the invariant of the log.
LEMMA OneMoreKeeps ==
  ASSUME NEW l, NEW whole, LogInv(l, whole), NEW type \in EventTypes,
         type \notin CallRefTypes, type # "context_snapshot"
  PROVE  LogInv(Append(l, Event(type, NoCall)), whole)
  <1> DEFINE e == Event(type, NoCall)
             m == Append(l, e)
             n == Len(l)
  <1>1. l \in Seq(Events) /\ n \in Nat /\ whole \in BOOLEAN
    BY DEF LogInv, Logs
  <1>2. e \in Events /\ e.type = type
    BY DEF Event, Events, NoCall
  <1> HIDE DEF e
  <1>3. m \in Seq(Events) /\ Len(m) = n + 1 /\ (\A k \in 1..n : m[k] = l[k]) /\ m[n + 1] = e
    BY <1>1, <1>2
  <1> HIDE DEF m
  <1>4. \A k \in 1..Len(m) : k > n => m[k].type = type
    <2>1. \A k \in 1..Len(m) : k > n => k = n + 1
      BY <1>1, <1>3
    <2> QED
      BY <1>2, <1>3, <2>1
  <1>5. \A k \in 1..Len(m) : k > n => m[k].type # "context_snapshot" /\ m[k].type \notin CallRefTypes
    BY <1>4
  <1>6. m \in Logs /\ n <= Len(m)
    BY <1>1, <1>3 DEF Logs
  <1>7. LogInv(m, whole)
    <2>1. whole => \A i \in 1..Len(m) : i > Len(l) /\ m[i].type \in CallRefTypes =>
                     \E p \in 1..Len(m) : p < i /\ AnswersIn(m, p, i)
      BY <1>5 DEF n
    <2>2. \A k \in 1..Len(m) : k > Len(l) => m[k].type # "context_snapshot"
      BY <1>5 DEF n
    <2>3. \A k \in 1..Len(l) : m[k] = l[k]
      BY <1>3 DEF n
    <2>4. Len(l) <= Len(m)
      BY <1>6 DEF n
    <2> QED
      BY <1>1, <1>6, <2>1, <2>2, <2>3, <2>4, LongerLogInv
  <1> QED
    BY <1>7 DEF m, e

\* When an append fails, nothing is added, and less is promised.
LEMMA LostKeeps ==
  ASSUME NEW l, NEW whole, LogInv(l, whole)
  PROVE  LogInv(l, FALSE)
  <1>1. l \in Logs /\ Len(l) \in Nat
    BY DEF LogInv, Logs
  <1>2. Len(l) <= Len(l) /\ \A k \in 1..Len(l) : ~(k > Len(l))
    BY <1>1
  <1> QED
    BY <1>1, <1>2, LongerLogInv

\* A session starts with one event.
LEMMA LogStarts ==
  ASSUME HistoryInit
  PROVE  LogInv(log, intact)
  <1> DEFINE e == Event("session_started", NoCall)
  <1>1. e \in Events /\ e.type = "session_started"
    BY DEF Event, Events, EventTypes, NoCall
  <1>2. log = <<e>> /\ intact = TRUE
    BY DEF HistoryInit
  <1> HIDE DEF e
  <1>3. log \in Logs /\ Len(log) = 1 /\ log[1] = e /\ DOMAIN log = 1..1
    BY <1>1, <1>2 DEF Logs
  <1>4. \A i \in 1..Len(log) : i = 1 /\ log[i].type = "session_started"
    BY <1>1, <1>3
  <1>5. Snaps(log) = {}
    BY <1>3, <1>4 DEF Snaps
  <1>6. CoveredEnd(log) = 0
    BY <1>3, <1>5, SnapshotFacts
  <1>7. SnapshotsOK(log)
    BY <1>5 DEF SnapshotsOK
  <1>8. CoversAll(log, intact)
    <2>1. 1..0 = {}
      OBVIOUS
    <2> QED
      BY <1>6, <2>1 DEF CoversAll
  <1>9. RunsUncut(log)
    <2>1. \A i \in 1..Len(log), p \in 1..Len(log) : ~(p < i)
      BY <1>3
    <2> QED
      BY <2>1 DEF RunsUncut
  <1>10. Answered(log)
    BY <1>4 DEF Answered, CallRefTypes
  <1> QED
    BY <1>2, <1>3, <1>7, <1>8, <1>9, <1>10 DEF LogInv

\* The rounds of the engine.
LEMMA EngineRounds ==
  ASSUME HistoryAssumption, EngineRound
  PROVE  \E ids, size, n, denied, lost :
           /\ size \in Nat /\ size > 0 /\ n \in 0..size /\ \A i \in 1..size : ids[i] \in Nat
           /\ denied \in [1..n -> BOOLEAN] /\ lost \in Nothing..n
           /\ Round(ids, size, denied, lost)
  <1>1. MaxBatch \in Nat
    BY DEF HistoryAssumption
  <1>2. PICK ids \in CallIds, size \in 1..MaxBatch :
          \E n \in 0..size : \E denied \in [1..n -> BOOLEAN], lost \in Nothing..n :
            Round(ids, size, denied, lost)
    BY DEF EngineRound
  <1>3. PICK n \in 0..size : \E denied \in [1..n -> BOOLEAN], lost \in Nothing..n :
          Round(ids, size, denied, lost)
    BY <1>2
  <1>4. PICK denied \in [1..n -> BOOLEAN], lost \in Nothing..n : Round(ids, size, denied, lost)
    BY <1>3
  <1>5. size \in Nat /\ size > 0 /\ \A i \in 1..size : i \in 1..MaxBatch
    BY <1>1
  <1>6. \A i \in 1..size : ids[i] \in Nat
    <2>1. \A i \in 1..MaxBatch : ids[i] \in Nat
      <3>1. CASE ids = [i \in 1..MaxBatch |-> i]
        BY <1>1, <3>1
      <3>2. CASE ids = [i \in 1..MaxBatch |-> 1]
        BY <1>1, <3>2
      <3> QED
        BY <1>2, <3>1, <3>2 DEF CallIds
    <2> QED
      BY <1>5, <2>1
  <1> QED
    BY <1>4, <1>5, <1>6

\* Every step keeps the invariant of the log.
LEMMA LogKeeps ==
  ASSUME HistoryAssumption, LogInv(log, intact), [HistoryNext]_historyVars
  PROVE  LogInv(log', intact')
  <1> DEFINE Keeps == LogInv(log', intact')
  <1>0. intact \in BOOLEAN
    BY DEF LogInv
  <1>1. ASSUME NEW type \in {"user_message", "assistant_text"}, NEW role, NEW next, Say(type, role, next)
        PROVE  Keeps
    <2>1. CASE log' = Append(log, Event(type, NoCall)) /\ intact' = intact
      <3>1. type \in EventTypes /\ type \notin CallRefTypes /\ type # "context_snapshot"
        BY DEF EventTypes, CallRefTypes
      <3>2. LogInv(Append(log, Event(type, NoCall)), intact)
        BY <3>1, OneMoreKeeps
      <3> QED
        BY <2>1, <3>2
    <2>2. CASE log' = log /\ intact' = FALSE
      <3>1. LogInv(log, FALSE)
        BY LostKeeps
      <3> QED
        BY <2>2, <3>1
    <2> QED
      BY <1>1, <2>1, <2>2 DEF Say, AppendFails
  <1>2. CASE UserMessage
    BY <1>1, <1>2 DEF UserMessage
  <1>3. CASE AssistantText
    BY <1>1, <1>3 DEF AssistantText
  <1>4. CASE EngineRound
    <2>1. PICK ids, size, n, denied, lost :
            /\ size \in Nat /\ size > 0 /\ n \in 0..size /\ \A i \in 1..size : ids[i] \in Nat
            /\ denied \in [1..n -> BOOLEAN] /\ lost \in Nothing..n
            /\ Round(ids, size, denied, lost)
      BY <1>4, EngineRounds
    <2> QED
      BY <2>1, RoundKeeps
  <1>5. CASE NoText
    BY <1>5 DEF NoText
  <1>6. CASE TurnCompleted
    <2>1. CASE log' = Append(log, Event("turn_completed", NoCall)) /\ intact' = intact
      <3> DEFINE type == "turn_completed"
      <3>1. type \in EventTypes /\ type \notin CallRefTypes /\ type # "context_snapshot"
        BY DEF EventTypes, CallRefTypes
      <3>2. LogInv(Append(log, Event(type, NoCall)), intact)
        <4> HIDE DEF type
        <4> QED
          BY <3>1, OneMoreKeeps
      <3> QED
        BY <2>1, <3>2
    <2>2. CASE log' = log /\ intact' = FALSE
      <3>1. LogInv(log, FALSE)
        BY LostKeeps
      <3> QED
        BY <2>2, <3>1
    <2> QED
      BY <1>6, <2>1, <2>2 DEF TurnCompleted
  <1>7. CASE Clear
    BY <1>7 DEF Clear
  <1>8. CASE Load
    BY <1>8 DEF Load
  <1>9. CASE Compact
    <2> DEFINE selected == SelectClosedRange(Eligible, Budget)
    <2>1. selected # <<>> /\ log' = Append(log, BuildSnapshot(selected)) /\ intact' = intact
      BY <1>9 DEF Compact, AppendSnapshot
    <2>2. Budget \in Nat
      BY DEF HistoryAssumption
    <2>3. PICK f, t \in Nat : BuildSnapshot(selected) = SnapshotEvent(f, t) /\ Ranged(log, f, t)
      BY <2>1, <2>2, CompactRange
    <2>4. LogInv(Append(log, SnapshotEvent(f, t)), intact)
      BY <2>3, SnapshotKeeps
    <2> QED
      BY <2>1, <2>3, <2>4
  <1>10. CASE UNCHANGED historyVars
    BY <1>10 DEF historyVars
  <1> QED
    BY <1>2, <1>3, <1>4, <1>5, <1>6, <1>7, <1>8, <1>9, <1>10 DEF HistoryNext

\* The invariant of the log holds in every reachable state.
THEOREM LogHolds == HistorySpec => []LogInv(log, intact)
  <1>1. HistoryInit => LogInv(log, intact)
    BY LogStarts
  <1>2. LogInv(log, intact) /\ [HistoryNext]_historyVars => LogInv(log, intact)'
    BY HistoryAssumption, LogKeeps
  <1> QED
    BY <1>1, <1>2, PTL DEF HistorySpec

\* ResultsFollowProposals: wherever /compact has cut the log and however many
\* groups emergency_reduce drops, the model is sent no result without its call.
THEOREM ResultsStayAnswered == HistorySpec => []ResultsFollowProposals
  <1>1. LogInv(log, intact) => ResultsFollowProposals
    BY ResultsFollow
  <1> QED
    BY <1>1, LogHolds, PTL

\* CoveredOrShown: every event of the conversation is covered by a snapshot or
\* shown to the model, never both and never twice.
THEOREM ProjectionIsComplete == HistorySpec => []CoveredOrShown
  <1>1. LogInv(log, intact) => CoveredOrShown
    BY CompleteProjection
  <1> QED
    BY <1>1, LogHolds, PTL

-----------------------------------------------------------------------------
(* The conversation against the log. *)

\* The projection beyond the newest snapshot, its last proposals still open.
Reading(l) == Projected(l, After(l, CoveredEnd(l)))

\* What the model is sent is the summary and what has been read beyond it.
LEMMA ProviderReads ==
  ASSUME NEW l \in Logs
  PROVE  /\ ProviderMessages(l) = Summary(l) \o Flush(Reading(l))
         /\ Reading(l) \in Projections
  <1> DEFINE seqs == After(l, CoveredEnd(l))
  <1>1. ProviderMessages(l) = Summary(l) \o Flush(Reading(l))
    BY DEF ProviderMessages, ProjectEvents, Reading
  <1>2. seqs \in Seq(1..Len(l))
    BY TailShows
  <1> HIDE DEF seqs
  <1>3. PICK r : IsProjecting(r, l, seqs)
    BY <1>2, ProjectRuns
  <1>4. Projected(l, seqs) \in Projections
    <2>1. Len(seqs) \in 0..Len(seqs)
      BY <1>2
    <2> QED
      BY <1>3, <2>1 DEF IsProjecting
  <1> QED
    BY <1>1, <1>4 DEF Reading, seqs

\* An event that is no snapshot adds itself to what has been read.
LEMMA ReadsMore ==
  ASSUME NEW l \in Logs, SnapshotsOK(l), NEW e \in Events, e.type # "context_snapshot"
  PROVE  LET m == Append(l, e)
         IN /\ m \in Logs /\ Len(m) = Len(l) + 1 /\ m[Len(m)] = e
            /\ SnapshotsOK(m) /\ Summary(m) = Summary(l)
            /\ Reading(m) = AddToProjection(m, Reading(l), Len(m))
  <1> DEFINE m == Append(l, e)
             n == Len(l)
             c == CoveredEnd(l)
             seqs == After(l, c)
  <1>1. l \in Seq(Events) /\ n \in Nat /\ DOMAIN l = 1..n
    BY DEF Logs
  <1>2. c \in Nat /\ c <= n /\ \A s \in Snaps(l) : s \in 1..n
    BY <1>1, CoveredEndFacts
  <1>3. m \in Seq(Events) /\ Len(m) = n + 1 /\ (\A k \in 1..n : m[k] = l[k]) /\ m[n + 1] = e
    BY <1>1
  <1>4. DOMAIN m = 1..(n + 1) /\ m \in Logs
    BY <1>1, <1>3 DEF Logs
  <1>5. n <= Len(m) /\ \A k \in 1..Len(m) : k > n => m[k].type # "context_snapshot"
    <2>1. \A k \in 1..(n + 1) : k > n => k = n + 1
      BY <1>1
    <2> QED
      BY <1>1, <1>3, <2>1
  <1>6. /\ Snaps(m) = Snaps(l) /\ CoveredEnd(m) = c /\ Summary(m) = Summary(l)
    <2> HIDE DEF m
    <2> QED
      BY <1>3, <1>4, <1>5, LongerLog
  <1>7. SnapshotsOK(m)
    <2> HIDE DEF m
    <2>1. \A s \in Snaps(l) : m[s] = l[s]
      BY <1>2, <1>3
    <2> QED
      BY <1>6, <2>1 DEF SnapshotsOK
  <1>8. seqs = Seqs(l, Beyond(l)) /\ Beyond(l) \in SUBSET (1..n)
    BY <1>1 DEF After, Beyond
  <1>9. After(m, c) = Append(seqs, n + 1)
    <2>1. {i \in DOMAIN m : i > c} = Beyond(l) \cup {n + 1}
      <3> HIDE DEF m, n, c
      <3>1. \A i \in 1..(n + 1) : i \in 1..n \/ i = n + 1
        BY <1>1
      <3>2. \A i \in 1..n : i \in 1..(n + 1)
        BY <1>1
      <3>3. n + 1 \in 1..(n + 1) /\ n + 1 > c
        BY <1>1, <1>2
      <3>4. Beyond(l) = {i \in 1..n : i > c}
        BY DEF Beyond, n, c
      <3> QED
        BY <1>4, <3>1, <3>2, <3>3, <3>4
    <2>2. After(m, c) = Seqs(m, Beyond(l) \cup {n + 1})
      <3> HIDE DEF m, c
      <3> QED
        BY <2>1 DEF After
    <2>3. Seqs(Append(l, e), Beyond(l) \cup {Len(l) + 1}) = Append(Seqs(l, Beyond(l)), Len(l) + 1)
      BY <1>1, <1>8, SeqsWithLast
    <2> QED
      BY <1>8, <2>2, <2>3
  <1>10. seqs \in Seq(1..n)
    BY TailShows
  <1> HIDE DEF m, seqs, c
  <1>11. Projected(m, Append(seqs, n + 1)) = AddToProjection(m, Projected(l, seqs), n + 1)
    <2> DEFINE i == n + 1
    <2>1. i \in 1..Len(m)
      BY <1>1, <1>3
    <2>2. \A k \in 1..Len(l) : k \in 1..Len(m) /\ m[k].type = l[k].type
      BY <1>1, <1>3
    <2> HIDE DEF i
    <2>3. seqs \in Seq(1..Len(l))
      BY <1>10
    <2>4. Projected(m, Append(seqs, i)) = AddToProjection(m, Projected(l, seqs), i)
      BY <1>4, <2>1, <2>2, <2>3, ProjectMore
    <2> QED
      BY <2>4 DEF i
  <1>12. Reading(m) = AddToProjection(m, Reading(l), Len(m))
    BY <1>3, <1>6, <1>9, <1>11 DEF Reading, seqs, c
  <1> QED
    BY <1>3, <1>4, <1>6, <1>7, <1>12 DEF m

\* What is added, by the kind of event.
LEMMA ReadsKinds ==
  ASSUME NEW l \in Logs, SnapshotsOK(l), NEW e \in Events, e.type # "context_snapshot"
  PROVE  LET m == Append(l, e)
             shown == Append(Flush(Reading(l)), Message(RoleOf(e.type), <<Len(l) + 1>>))
         IN /\ RoleOf(e.type) # "silent" =>
                 Reading(m) = [messages |-> shown, proposed |-> <<>>] /\ Flush(Reading(m)) = shown
            /\ RoleOf(e.type) = "silent" /\ e.type # "tool_call_proposed" => Reading(m) = Reading(l)
            /\ e.type = "tool_call_proposed" =>
                 /\ Reading(m).messages = Reading(l).messages
                 /\ Reading(m).proposed = Append(Reading(l).proposed, Len(l) + 1)
  <1> DEFINE m == Append(l, e)
             R == Reading(l)
             i == Len(l) + 1
             shown == Append(Flush(R), Message(RoleOf(e.type), <<i>>))
  <1>1. Len(m) = i /\ m[i] = e /\ Reading(m) = AddToProjection(m, R, i)
    BY ReadsMore
  <1>2. R \in Projections
    BY ProviderReads
  <1> HIDE DEF m, R, i
  <1>3. CASE RoleOf(e.type) # "silent"
    <2>1. e.type # "tool_call_proposed"
      BY <1>3 DEF RoleOf
    <2>2. Reading(m) = [messages |-> shown, proposed |-> <<>>]
      BY <1>1, <1>3, <2>1 DEF AddToProjection
    <2>3. Flush(Reading(m)) = shown
      <3> HIDE DEF shown
      <3> QED
        BY <2>2 DEF Flush
    <2> QED
      BY <1>3, <2>1, <2>2, <2>3 DEF m, R, i
  <1>4. CASE RoleOf(e.type) = "silent" /\ e.type # "tool_call_proposed"
    <2>1. Reading(m) = R
      BY <1>1, <1>4 DEF AddToProjection
    <2> QED
      BY <1>4, <2>1 DEF m, R, i
  <1>5. CASE e.type = "tool_call_proposed"
    <2>1. RoleOf(e.type) = "silent"
      BY <1>5 DEF RoleOf
    <2>2. Reading(m) = [R EXCEPT !.proposed = Append(@, i)]
      BY <1>1, <1>5, <2>1 DEF AddToProjection
    <2>3. Reading(m).messages = R.messages /\ Reading(m).proposed = Append(R.proposed, i)
      BY <1>2, <2>2 DEF Projections
    <2> QED
      BY <1>5, <2>1, <2>3 DEF m, R, i
  <1> QED
    BY <1>3, <1>4, <1>5

\* A sequence is joined element by element.
LEMMA JoinedOneByOne ==
  ASSUME NEW A, NEW l \in Seq(A), NEW u \in Seq(A)
  PROVE  /\ l \o SubSeq(u, 1, 0) = l
         /\ l \o SubSeq(u, 1, Len(u)) = l \o u
         /\ \A k \in 0..(Len(u) - 1) : l \o SubSeq(u, 1, k + 1) = Append(l \o SubSeq(u, 1, k), u[k + 1])
  <1>1. Len(u) \in Nat /\ Len(l) \in Nat
    OBVIOUS
  <1>2. l \o SubSeq(u, 1, 0) = l
    <2>1. SubSeq(u, 1, 0) = <<>>
      OBVIOUS
    <2>2. l \o <<>> = l
      OBVIOUS
    <2> QED
      BY <2>1, <2>2
  <1>3. SubSeq(u, 1, Len(u)) = u
    OBVIOUS
  <1>4. ASSUME NEW k \in 0..(Len(u) - 1)
        PROVE  l \o SubSeq(u, 1, k + 1) = Append(l \o SubSeq(u, 1, k), u[k + 1])
    <2> DEFINE v == SubSeq(u, 1, k)
               w == SubSeq(u, 1, k + 1)
               x == u[k + 1]
    <2>1. v \in Seq(A) /\ Len(v) = k /\ k \in Nat /\ x \in A
      BY <1>1
    <2>2. w \in Seq(A) /\ Len(w) = k + 1
      BY <1>1
    <2>3. w[k + 1] = x /\ \A i \in 1..k : w[i] = v[i]
      BY <1>1
    <2> HIDE DEF v, w, x
    <2>4. w = Append(v, x)
      BY <2>1, <2>2, <2>3
    <2>5. l \o Append(v, x) = Append(l \o v, x)
      BY <1>1, <2>1
    <2> QED
      BY <2>4, <2>5 DEF v, w, x
  <1> QED
    BY <1>2, <1>3, <1>4

\* What has been read when a call is answered: one more result.
LEMMA ReadsAnswer ==
  ASSUME NEW l \in Logs, SnapshotsOK(l), NEW id \in Nat, NEW d \in BOOLEAN
  PROVE  LET m == l \o Answer(id, d)
         IN /\ m \in Logs /\ SnapshotsOK(m) /\ Summary(m) = Summary(l)
            /\ Len(m) = Len(l) + Len(Answer(id, d))
            /\ Flush(Reading(m)) = Append(Flush(Reading(l)), Message("tool", <<Len(m)>>))
            /\ Reading(m).proposed = <<>>
  <1> DEFINE a == Answer(id, d)
             n == Len(l)
             z == Len(a)
             part(k) == l \o SubSeq(a, 1, k)
             Good(k) == /\ part(k) \in Logs /\ SnapshotsOK(part(k)) /\ Summary(part(k)) = Summary(l)
                        /\ Len(part(k)) = n + k /\ Reading(part(k)) = Reading(l)
  <1>1. /\ a \in Seq(Events) /\ z \in {1, 3} /\ a[z] = Event("tool_result", id)
        /\ \A o \in 1..z : /\ a[o].type \in CallRefTypes /\ a[o].call = id
                           /\ o < z => RoleOf(a[o].type) = "silent" /\ a[o].type # "tool_call_proposed"
    BY AnswerFacts
  <1>2. l \in Seq(Events) /\ n \in Nat
    BY DEF Logs
  <1> HIDE DEF a
  <1>3. /\ part(0) = l /\ part(z) = l \o a
        /\ \A k \in 0..(z - 1) : part(k + 1) = Append(part(k), a[k + 1])
    BY SMTT(20), <1>1, <1>2, JoinedOneByOne
  <1> HIDE DEF part
  <1>4. \A k \in 0..(z - 1) : Good(k)
    <2> DEFINE T == {k \in 0..(z - 1) : Good(k)}
    <2>1. z - 1 \in Nat
      BY <1>1
    <2>2. Good(0)
      BY <1>2, <1>3
    <2>3. 0 \in T
      BY <2>1, <2>2
    <2>4. ASSUME NEW k \in 0..((z - 1) - 1), Good(k) PROVE Good(k + 1)
      <3>1. k \in 0..(z - 1) /\ k + 1 \in 1..z /\ k + 1 < z
        BY <1>1, <2>4
      <3> DEFINE e == a[k + 1]
                 v == part(k)
      <3>2. e \in Events /\ RoleOf(e.type) = "silent" /\ e.type # "tool_call_proposed"
            /\ e.type # "context_snapshot"
        <4>1. a[k + 1].type \in CallRefTypes
          BY <1>1, <3>1
        <4> QED
          BY <1>1, <3>1, <4>1 DEF CallRefTypes
      <3>3. part(k + 1) = Append(v, e)
        BY <1>3, <3>1
      <3>4. v \in Logs /\ SnapshotsOK(v) /\ Summary(v) = Summary(l) /\ Len(v) = n + k /\ Reading(v) = Reading(l)
        BY <2>4
      <3> HIDE DEF e, v
      <3>5. /\ Append(v, e) \in Logs /\ Len(Append(v, e)) = Len(v) + 1
            /\ SnapshotsOK(Append(v, e)) /\ Summary(Append(v, e)) = Summary(v)
        BY <3>2, <3>4, ReadsMore
      <3>6. Reading(Append(v, e)) = Reading(v)
        BY <3>2, <3>4, ReadsKinds
      <3>7. Len(part(k + 1)) = n + (k + 1)
        BY <1>2, <3>1, <3>3, <3>4, <3>5
      <3> QED
        BY <3>3, <3>4, <3>5, <3>6, <3>7
    <2>5. \A k \in 0..((z - 1) - 1) : k \in T => k + 1 \in T
      BY <2>1, <2>4
    <2> DEFINE y == z - 1
    <2> HIDE DEF T, Good
    <2>6. 0..y \subseteq T
      <3>1. y \in Nat
        BY <2>1
      <3>2. \A k \in 0..(y - 1) : k \in T => k + 1 \in T
        BY <2>5
      <3> HIDE DEF y
      <3> QED
        BY <2>3, <3>1, <3>2, BoundedInduction
    <2> QED
      BY <2>6 DEF T
  <1> DEFINE v == part(z - 1)
             e == a[z]
             m == Append(v, e)
  <1>5. v \in Logs /\ SnapshotsOK(v) /\ Summary(v) = Summary(l) /\ Len(v) = n + (z - 1) /\ Reading(v) = Reading(l)
    <2>1. z - 1 \in 0..(z - 1)
      BY <1>1
    <2> QED
      BY <1>4, <2>1
  <1>6. l \o a = m
    <2>1. z - 1 \in 0..(z - 1) /\ (z - 1) + 1 = z
      BY <1>1
    <2>2. part((z - 1) + 1) = Append(part(z - 1), a[(z - 1) + 1])
      BY <1>3, <2>1
    <2> QED
      BY <1>3, <2>1, <2>2
  <1>7. e \in Events /\ e.type = "tool_result"
    <2>1. z \in 1..z
      BY <1>1
    <2> QED
      BY <1>1, <2>1 DEF Event
  <1>8. RoleOf(e.type) = "tool" /\ e.type # "context_snapshot"
    BY <1>7 DEF RoleOf
  <1> HIDE DEF v, e
  <1>9. m \in Logs /\ Len(m) = Len(v) + 1 /\ SnapshotsOK(m) /\ Summary(m) = Summary(v)
    BY <1>5, <1>7, <1>8, ReadsMore
  <1>10. /\ Reading(m) = [messages |-> Append(Flush(Reading(v)), Message("tool", <<Len(v) + 1>>)), proposed |-> <<>>]
         /\ Flush(Reading(m)) = Append(Flush(Reading(v)), Message("tool", <<Len(v) + 1>>))
    BY <1>5, <1>7, <1>8, ReadsKinds
  <1> HIDE DEF m
  <1>11. Len(m) = n + z
    BY <1>1, <1>2, <1>5, <1>9
  <1>12. Reading(m).proposed = <<>>
    BY <1>10
  <1> QED
    BY <1>5, <1>6, <1>9, <1>10, <1>11, <1>12 DEF a

\* What has been read when a round's proposals are in the log.
LEMMA ReadsProposals ==
  ASSUME NEW l \in Logs, SnapshotsOK(l), Reading(l).proposed = <<>>,
         NEW ps \in Seq(Events), \A i \in 1..Len(ps) : ps[i].type = "tool_call_proposed", Len(ps) > 0
  PROVE  LET m == l \o ps
         IN /\ m \in Logs /\ SnapshotsOK(m) /\ Summary(m) = Summary(l)
            /\ Len(m) = Len(l) + Len(ps)
            /\ Flush(Reading(m))
                 = Append(Flush(Reading(l)), Message("tool_calls", [i \in 1..Len(ps) |-> Len(l) + i]))
  <1> DEFINE n == Len(l)
             z == Len(ps)
             R == Reading(l)
             part(k) == l \o SubSeq(ps, 1, k)
             open(k) == [i \in 1..k |-> n + i]
             Good(k) == /\ part(k) \in Logs /\ SnapshotsOK(part(k)) /\ Summary(part(k)) = Summary(l)
                        /\ Len(part(k)) = n + k
                        /\ Reading(part(k)).messages = R.messages
                        /\ Reading(part(k)).proposed = open(k)
  <1>1. l \in Seq(Events) /\ n \in Nat /\ z \in Nat /\ z > 0
    BY DEF Logs
  <1>2. /\ part(0) = l /\ part(z) = l \o ps
        /\ \A k \in 0..(z - 1) : part(k + 1) = Append(part(k), ps[k + 1])
    BY <1>1, JoinedOneByOne
  <1>3. open(0) = <<>>
    OBVIOUS
  <1>4. ASSUME NEW k \in Nat PROVE Append(open(k), n + (k + 1)) = open(k + 1)
    <2> DEFINE x == n + (k + 1)
               v == open(k)
               w == open(k + 1)
    <2>1. v \in Seq(Nat) /\ Len(v) = k /\ x \in Nat /\ \A i \in 1..k : v[i] = n + i
      BY <1>1
    <2>2. w \in Seq(Nat) /\ Len(w) = k + 1 /\ w[k + 1] = x /\ \A i \in 1..k : w[i] = n + i
      BY <1>1
    <2> HIDE DEF v, w, x
    <2>3. Append(v, x) = w
      BY <2>1, <2>2
    <2> QED
      BY <2>3 DEF v, w, x
  <1> HIDE DEF part, open
  <1>5. Good(z)
    <2> DEFINE T == {k \in 0..z : Good(k)}
    <2>1. Good(0)
      BY <1>1, <1>2, <1>3
    <2>2. 0 \in T
      BY <1>1, <2>1
    <2>3. ASSUME NEW k \in 0..(z - 1), Good(k) PROVE Good(k + 1)
      <3> DEFINE e == ps[k + 1]
                 v == part(k)
      <3>1. k + 1 \in 1..z /\ k \in Nat
        BY <1>1
      <3>2. e \in Events /\ e.type = "tool_call_proposed" /\ e.type # "context_snapshot"
        BY <3>1
      <3>3. part(k + 1) = Append(v, e)
        BY <1>2
      <3>4. /\ v \in Logs /\ SnapshotsOK(v) /\ Summary(v) = Summary(l) /\ Len(v) = n + k
            /\ Reading(v).messages = R.messages /\ Reading(v).proposed = open(k)
        BY <2>3
      <3> HIDE DEF e, v
      <3>5. /\ Append(v, e) \in Logs /\ Len(Append(v, e)) = Len(v) + 1
            /\ SnapshotsOK(Append(v, e)) /\ Summary(Append(v, e)) = Summary(v)
        BY <3>2, <3>4, ReadsMore
      <3>6. /\ Reading(Append(v, e)).messages = Reading(v).messages
            /\ Reading(Append(v, e)).proposed = Append(Reading(v).proposed, Len(v) + 1)
        BY <3>2, <3>4, ReadsKinds
      <3>7. Len(v) + 1 = n + (k + 1)
        BY <1>1, <3>1, <3>4
      <3>8. Append(open(k), n + (k + 1)) = open(k + 1)
        BY <1>4, <3>1
      <3> QED
        BY <3>3, <3>4, <3>5, <3>6, <3>7, <3>8
    <2> HIDE DEF Good, z
    <2>4. \A k \in 0..(z - 1) : k \in T => k + 1 \in T
      BY <1>1, <2>3
    <2> HIDE DEF T
    <2>5. 0..z \subseteq T
      BY <1>1, <2>2, <2>4, BoundedInduction
    <2>6. z \in 0..z
      BY <1>1
    <2> QED
      BY <2>5, <2>6 DEF T
  <1> DEFINE m == l \o ps
  <1>6. /\ m \in Logs /\ SnapshotsOK(m) /\ Summary(m) = Summary(l) /\ Len(m) = n + z
        /\ Reading(m).messages = R.messages /\ Reading(m).proposed = open(z)
    BY <1>2, <1>5
  <1> HIDE DEF m, R
  <1>7. Flush(R) = R.messages
    BY DEF Flush, R
  <1>8. open(z) # <<>>
    <2> DEFINE w == open(z)
    <2>1. Len(w) = z
      BY <1>1 DEF open
    <2>2. Len(<<>>) = 0
      OBVIOUS
    <2> HIDE DEF w
    <2>3. w # <<>>
      BY <1>1, <2>1, <2>2
    <2> QED
      BY <2>3 DEF w
  <1>9. Flush(Reading(m)) = Append(R.messages, Message("tool_calls", open(z)))
    BY <1>6, <1>8 DEF Flush
  <1> QED
    BY <1>6, <1>7, <1>9 DEF m, R, open

\* What the conversation is given for the answers of a round, and what the log
\* says once they are in it.
AnswersShown(q, ans, n) ==
  [i \in 1..n |-> Message("tool", <<Len(q) + Len(FlattenSeq(SubSeq(ans, 1, i)))>>)]
AnswersRead(q, m, shown, n) ==
  /\ m \in Logs /\ SnapshotsOK(m) /\ Summary(m) = Summary(q)
  /\ Flush(Reading(m)) = Flush(Reading(q)) \o shown
  /\ n > 0 => Reading(m).proposed = <<>>

\* What has been read when the calls of a round are answered, one by one.
LEMMA ReadsAnswers ==
  ASSUME NEW q \in Logs, SnapshotsOK(q), NEW n \in Nat, NEW ids, \A i \in 1..n : ids[i] \in Nat,
         NEW denied \in [1..n -> BOOLEAN],
         NEW ans \in Seq(Seq(Events)), Len(ans) = n, \A i \in 1..n : ans[i] = Answer(ids[i], denied[i])
  PROVE  AnswersRead(q, q \o FlattenSeq(ans), AnswersShown(q, ans, n), n)
  <1>1. PICK f : IsFlattening(f, ans, Events)
    BY FlattenRuns
  <1>2. /\ f \in [0..n -> Seq(Events)] /\ f[0] = <<>> /\ f[n] = FlattenSeq(ans)
        /\ \A i \in 1..n : f[i] = f[i - 1] \o ans[i]
    BY <1>1 DEF IsFlattening
  <1>3. \A k \in 0..n : f[k] = FlattenSeq(SubSeq(ans, 1, k))
    BY <1>1, FlattenPrefix
  <1>4. q \in Seq(Events) /\ Len(q) \in Nat
    BY DEF Logs
  <1> DEFINE base == Flush(Reading(q))
             one(i) == Message("tool", <<Len(q) + Len(f[i])>>)
             results(k) == [i \in 1..k |-> one(i)]
             part(k) == q \o f[k]
             Good(k) == /\ part(k) \in Logs /\ SnapshotsOK(part(k)) /\ Summary(part(k)) = Summary(q)
                        /\ Flush(Reading(part(k))) = base \o results(k)
                        /\ k > 0 => Reading(part(k)).proposed = <<>>
  <1>5. base \in Seq(Shows)
    <2> DEFINE R == Reading(q)
    <2>1. R \in Projections
      BY ProviderReads
    <2> HIDE DEF R
    <2>2. R.messages \in Seq(Shows) /\ R.proposed \in Seq(Nat)
      BY <2>1 DEF Projections
    <2> DEFINE y == Message("tool_calls", R.proposed)
    <2>3. y \in Shows
      BY <2>2 DEF Message, Shows
    <2> HIDE DEF y
    <2>4. Append(R.messages, y) \in Seq(Shows)
      BY <2>2, <2>3
    <2> QED
      BY <2>2, <2>4 DEF Flush, R, y
  <1> HIDE DEF base
  <1>6. \A i \in 0..n : one(i) \in Shows
    <2> SUFFICES ASSUME NEW i \in 0..n PROVE one(i) \in Shows
      OBVIOUS
    <2> DEFINE x == Len(q) + Len(f[i])
    <2>1. f[i] \in Seq(Events)
      BY <1>2
    <2>2. x \in Nat
      BY <1>4, <2>1
    <2> HIDE DEF x
    <2>3. <<x>> \in Seq(Nat)
      BY <2>2
    <2>4. Message("tool", <<x>>) \in Shows
      BY <2>3 DEF Message, Shows
    <2> QED
      BY <2>4 DEF x
  <1> HIDE DEF one
  <1>7. part(0) = q
    <2>1. q \o <<>> = q
      BY <1>4
    <2> QED
      BY <1>2, <2>1
  <1>8. \A k \in 0..(n - 1) : part(k + 1) = part(k) \o ans[k + 1]
    <2> SUFFICES ASSUME NEW k \in 0..(n - 1) PROVE part(k + 1) = part(k) \o ans[k + 1]
      OBVIOUS
    <2> DEFINE v == f[k]
               x == ans[k + 1]
    <2>1. k + 1 \in 1..n /\ (k + 1) - 1 = k /\ k \in 0..n
      OBVIOUS
    <2>2. v \in Seq(Events) /\ x \in Seq(Events) /\ f[k + 1] = v \o x
      <3>1. v \in Seq(Events)
        BY <1>2, <2>1
      <3>2. x \in Seq(Events)
        <4> DEFINE S == Seq(Events)
        <4>1. ans \in Seq(S) /\ k + 1 \in 1..Len(ans)
          BY <2>1
        <4> HIDE DEF S
        <4>2. ans[k + 1] \in S
          BY ONLY <4>1
        <4> QED
          BY <4>2 DEF S
      <3>3. f[k + 1] = f[(k + 1) - 1] \o ans[k + 1]
        BY <1>2, <2>1
      <3> QED
        BY <2>1, <3>1, <3>2, <3>3
    <2> HIDE DEF v, x
    <2>3. q \in Seq(Events) /\ v \in Seq(Events) /\ x \in Seq(Events)
      BY <1>4, <2>2
    <2>4. q \o (v \o x) = (q \o v) \o x
      BY ONLY <2>3
    <2> QED
      BY <2>2, <2>4 DEF v, x
  <1>9. \A k \in 0..(n - 1) : base \o results(k + 1) = Append(base \o results(k), one(k + 1))
    <2> SUFFICES ASSUME NEW k \in 0..(n - 1)
                 PROVE  base \o results(k + 1) = Append(base \o results(k), one(k + 1))
      OBVIOUS
    <2> DEFINE v == results(k)
               w == results(k + 1)
               x == one(k + 1)
    <2>1. k \in Nat /\ \A i \in 1..(k + 1) : i \in 0..n
      OBVIOUS
    <2>2. v \in [1..k -> Shows] /\ w \in [1..(k + 1) -> Shows] /\ x \in Shows
      BY <1>6, <2>1
    <2>3. w[k + 1] = x /\ \A i \in 1..k : w[i] = v[i]
      BY <2>1
    <2> HIDE DEF v, w, x
    <2>4. v \in Seq(Shows) /\ Len(v) = k
      BY <2>1, <2>2, ListOf
    <2>5. w \in Seq(Shows) /\ Len(w) = k + 1
      <3> DEFINE y == k + 1
      <3>1. y \in Nat /\ w \in [1..y -> Shows]
        BY <2>1, <2>2
      <3> HIDE DEF y
      <3>2. w \in Seq(Shows) /\ Len(w) = y
        BY <3>1, ListOf
      <3> QED
        BY <3>2 DEF y
    <2>6. w = Append(v, x)
      BY <2>1, <2>2, <2>3, <2>4, <2>5
    <2>7. base \o Append(v, x) = Append(base \o v, x)
      BY <1>5, <2>2, <2>4
    <2> QED
      BY <2>6, <2>7 DEF v, w, x
  <1>10. base \o results(0) = base
    <2>1. results(0) = <<>>
      OBVIOUS
    <2>2. base \o <<>> = base
      BY <1>5
    <2> HIDE DEF results
    <2> QED
      BY <2>1, <2>2
  <1> HIDE DEF part, results
  <1>11. Good(n)
    <2> DEFINE T == {k \in 0..n : Good(k)}
    <2>1. Good(0)
      BY <1>7, <1>10 DEF base
    <2>2. 0 \in T
      BY <2>1
    <2>3. ASSUME NEW k \in 0..(n - 1), Good(k) PROVE Good(k + 1)
      <3> DEFINE j == k + 1
                 id == ids[j]
                 d == denied[j]
                 a == Answer(id, d)
                 v == part(k)
                 m == v \o a
      <3>1. j \in 1..n /\ j \in 0..n /\ j > 0
        OBVIOUS
      <3>2. id \in Nat /\ d \in BOOLEAN /\ ans[j] = a
        BY <3>1
      <3>3. v \in Logs /\ SnapshotsOK(v) /\ Summary(v) = Summary(q) /\ Flush(Reading(v)) = base \o results(k)
        BY <2>3
      <3>4. part(j) = m
        BY <1>8, <3>2
      <3>5. base \o results(j) = Append(base \o results(k), one(j))
        BY <1>9
      <3>6. part(j) = q \o f[j] /\ f[j] \in Seq(Events)
        BY <1>2, <3>1 DEF part
      <3> HIDE DEF id, d, v, j
      <3>7. /\ m \in Logs /\ SnapshotsOK(m) /\ Summary(m) = Summary(v)
            /\ Flush(Reading(m)) = Append(Flush(Reading(v)), Message("tool", <<Len(m)>>))
            /\ Reading(m).proposed = <<>>
        BY <3>2, <3>3, ReadsAnswer
      <3> HIDE DEF m, a
      <3>8. Len(m) = Len(q) + Len(f[j])
        <4> DEFINE w == f[j]
        <4>1. m = q \o w /\ w \in Seq(Events)
          BY <3>4, <3>6
        <4> HIDE DEF w
        <4>2. Len(q \o w) = Len(q) + Len(w)
          BY <1>4, <4>1
        <4> QED
          BY <4>1, <4>2 DEF w
      <3>9. Message("tool", <<Len(m)>>) = one(j)
        BY <3>8 DEF one
      <3>10. Good(j)
        BY <3>3, <3>4, <3>5, <3>7, <3>9
      <3> QED
        BY <3>10 DEF j
    <2> HIDE DEF Good
    <2>4. \A k \in 0..(n - 1) : k \in T => k + 1 \in T
      BY <2>3
    <2> HIDE DEF T
    <2>5. 0..n \subseteq T
      BY <2>2, <2>4, BoundedInduction
    <2>6. n \in 0..n
      OBVIOUS
    <2> QED
      BY <2>5, <2>6 DEF T
  <1>12. part(n) = q \o FlattenSeq(ans)
    BY <1>2 DEF part
  <1>13. results(n) = [i \in 1..n |-> Message("tool", <<Len(q) + Len(FlattenSeq(SubSeq(ans, 1, i)))>>)]
    <2>1. \A i \in 1..n : i \in 0..n
      OBVIOUS
    <2>2. \A i \in 1..n : one(i) = Message("tool", <<Len(q) + Len(FlattenSeq(SubSeq(ans, 1, i)))>>)
      BY <1>3, <2>1 DEF one
    <2> QED
      BY <2>2 DEF results
  <1> HIDE DEF one
  <1>14. results(n) = AnswersShown(q, ans, n)
    BY <1>13 DEF AnswersShown
  <1> QED
    BY <1>11, <1>12, <1>14 DEF base, AnswersRead

\* What a projection with its proposals flushed is.
LEMMA FlushedMessages ==
  ASSUME NEW l \in Logs
  PROVE  Flush(Reading(l)) \in Seq(Shows) /\ Summary(l) \in Seq(Shows)
  <1> DEFINE R == Reading(l)
  <1>1. R \in Projections
    BY ProviderReads
  <1> HIDE DEF R
  <1>2. R.messages \in Seq(Shows) /\ R.proposed \in Seq(Nat)
    BY <1>1 DEF Projections
  <1> DEFINE y == Message("tool_calls", R.proposed)
  <1>3. y \in Shows
    BY <1>2 DEF Message, Shows
  <1> HIDE DEF y
  <1>4. Append(R.messages, y) \in Seq(Shows)
    BY <1>2, <1>3
  <1>5. Flush(R) \in Seq(Shows)
    BY <1>2, <1>4 DEF Flush, y
  <1> QED
    BY <1>5, SummaryShows DEF R

\* Joining is associative.
LEMMA JoinedTogether ==
  ASSUME NEW u \in Seq(Shows), NEW v \in Seq(Shows), NEW e \in Shows, NEW w \in Seq(Shows)
  PROVE  Append(u \o v, e) \o w = u \o (Append(v, e) \o w)
  <1> DEFINE x == Append(v, e)
  <1>1. x \in Seq(Shows) /\ Append(u \o v, e) = u \o x
    BY SMTT(20)
  <1> HIDE DEF x
  <1>2. (u \o x) \o w = u \o (x \o w)
    BY <1>1
  <1> QED
    BY <1>1, <1>2 DEF x

\* A round whose events are all in the log adds to the conversation what the log
\* then says.
LEMMA RoundMirrors ==
  ASSUME LogInv(log, intact), messages = ProviderMessages(log), Reading(log).proposed = <<>>,
         NEW ids, NEW size \in Nat, size > 0, NEW n \in 0..size,
         \A i \in 1..size : ids[i] \in Nat,
         NEW denied \in [1..n -> BOOLEAN], Round(ids, size, denied, Nothing)
  PROVE  messages' = ProviderMessages(log') /\ (n > 0 => Reading(log').proposed = <<>>)
  <1> DEFINE ps == ProposalsOf(ids, size)
             ans == AnswersOf(ids, denied, Nothing)
             q == log \o ps
             m == log'
             call == Message("tool_calls", [i \in 1..size |-> Len(log) + i])
             results == [i \in 1..n |-> Message("tool", <<Len(q) + Len(FlattenSeq(SubSeq(ans, 1, i)))>>)]
  <1>1. log \in Logs /\ SnapshotsOK(log) /\ log \in Seq(Events) /\ Len(log) \in Nat
    BY DEF LogInv, Logs
  <1>2. n \in Nat /\ \A i \in 1..n : i \in 1..size
    OBVIOUS
  <1>3. /\ ps \in Seq(Events) /\ Len(ps) = size
        /\ \A i \in 1..size : ps[i].type = "tool_call_proposed"
    BY ProposalFacts
  <1>4. /\ Len(denied) = n
        /\ ans \in Seq(Seq(Events)) /\ Len(ans) = n
        /\ \A i \in 1..n : ans[i] = IF i = Nothing THEN <<>> ELSE Answer(ids[i], denied[i])
    BY <1>2, AnswersFacts
  <1>5. \A i \in 1..n : i # Nothing
    BY DEF Nothing
  <1>6. Nothing # Proposals
    BY DEF Nothing, Proposals
  <1>7. m = q \o FlattenSeq(ans)
    BY <1>6 DEF Round, ProposalsOf, AnswersOf
  <1>8. Len(q) = Len(log) + Len(ps)
    <2> HIDE DEF ps
    <2> QED
      BY <1>1, <1>3, Joined
  <1>9. messages' = Append(messages, call) \o results
    <2> DEFINE shown == IF Nothing = Proposals THEN <<>> ELSE ps
               Place(i) == Len(log) + Len(shown) + Len(FlattenSeq(SubSeq(ans, 1, i)))
               call2 == Message("tool_calls",
                          [i \in 1..size |-> IF Nothing = Proposals THEN Unlogged ELSE Len(log) + i])
               results2 == [i \in 1..Len(denied) |->
                              Message("tool", <<IF i = Nothing THEN Unlogged ELSE Place(i)>>)]
    <2>1. messages' = Append(messages, call2) \o results2
      BY DEF Round, ProposalsOf, AnswersOf
    <2>2. shown = ps
      BY <1>6
    <2>3. call2 = call
      BY <1>6
    <2> HIDE DEF ps, ans, q, shown
    <2>4. \A i \in 1..n : Place(i) = Len(q) + Len(FlattenSeq(SubSeq(ans, 1, i)))
      BY <1>8, <2>2
    <2>5. results2 = results
      <3> HIDE DEF Place
      <3>1. \A i \in 1..n : Message("tool", <<IF i = Nothing THEN Unlogged ELSE Place(i)>>)
                              = Message("tool", <<Len(q) + Len(FlattenSeq(SubSeq(ans, 1, i)))>>)
        BY <1>5, <2>4
      <3> QED
        BY <1>4, <3>1
    <2> QED
      BY <2>1, <2>3, <2>5
  <1> HIDE DEF ps, ans
  <1>10. \A i \in 1..n : ans[i] = Answer(ids[i], denied[i])
    BY <1>4, <1>5
  <1>11. /\ q \in Logs /\ SnapshotsOK(q) /\ Summary(q) = Summary(log)
         /\ Flush(Reading(q)) = Append(Flush(Reading(log)), call)
    <2>1. /\ \A i \in 1..Len(ps) : ps[i].type = "tool_call_proposed"
          /\ Len(ps) > 0
      BY <1>3
    <2>2. /\ q \in Logs /\ SnapshotsOK(q) /\ Summary(q) = Summary(log)
          /\ Flush(Reading(q))
               = Append(Flush(Reading(log)), Message("tool_calls", [i \in 1..Len(ps) |-> Len(log) + i]))
      BY <1>1, <1>3, <2>1, ReadsProposals
    <2> QED
      BY <1>3, <2>2
  <1> HIDE DEF q, call
  <1>12. AnswersRead(q, m, results, n)
    <2>1. \A i \in 1..n : ids[i] \in Nat
      BY <1>2
    <2> HIDE DEF m, results
    <2>2. AnswersRead(q, q \o FlattenSeq(ans), AnswersShown(q, ans, n), n)
      BY <1>2, <1>4, <1>10, <1>11, <2>1, ReadsAnswers
    <2>3. results = AnswersShown(q, ans, n)
      BY DEF results, AnswersShown
    <2> QED
      BY <1>7, <2>2, <2>3
  <1> HIDE DEF m
  <1>13. ProviderMessages(m) = Summary(m) \o Flush(Reading(m))
    BY <1>12, ProviderReads DEF AnswersRead
  <1>14. messages = Summary(log) \o Flush(Reading(log))
    BY <1>1, ProviderReads
  <1> DEFINE u == Summary(log)
             v == Flush(Reading(log))
  <1>15. u \in Seq(Shows) /\ v \in Seq(Shows)
    BY <1>1, FlushedMessages
  <1>16. call \in Shows
    <2> DEFINE open == [i \in 1..size |-> Len(log) + i]
    <2>1. open \in Seq(Nat)
      BY <1>1
    <2> HIDE DEF open
    <2>2. Message("tool_calls", open) \in Shows
      BY <2>1 DEF Message, Shows
    <2> QED
      BY <2>2 DEF open, call
  <1>17. results \in Seq(Shows)
    <2> SUFFICES ASSUME NEW i \in 1..n
                 PROVE  Message("tool", <<Len(q) + Len(FlattenSeq(SubSeq(ans, 1, i)))>>) \in Shows
      <3> DEFINE one(i) == Message("tool", <<Len(q) + Len(FlattenSeq(SubSeq(ans, 1, i)))>>)
      <3>1. (\A i \in 1..n : one(i) \in Shows) => [i \in 1..n |-> one(i)] \in [1..n -> Shows]
        <4> HIDE DEF one
        <4> QED
          OBVIOUS
      <3>2. results = [i \in 1..n |-> one(i)]
        OBVIOUS
      <3> HIDE DEF results
      <3>3. results \in [1..n -> Shows] => results \in Seq(Shows)
        BY ListOf
      <3> QED
        BY <3>1, <3>2, <3>3
    <2> DEFINE s == SubSeq(ans, 1, i)
               k == Len(FlattenSeq(s))
    <2>1. s \in Seq(Seq(Events))
      BY <1>4
    <2> HIDE DEF s
    <2>2. FlattenSeq(s) \in Seq(Events)
      BY <2>1, FlattenPlaces
    <2>3. k \in Nat /\ Len(q) \in Nat
      BY <1>1, <1>3, <1>8, <2>2
    <2> HIDE DEF k
    <2> DEFINE x == Len(q) + k
    <2>4. x \in Nat
      BY <2>3
    <2> HIDE DEF x
    <2>5. <<x>> \in Seq(Nat)
      BY <2>4
    <2>6. Message("tool", <<x>>) \in Shows
      BY <2>5 DEF Message, Shows
    <2> QED
      BY <2>6 DEF x, k, s
  <1> HIDE DEF u, v, results
  <1>18. Append(u \o v, call) \o results = u \o (Append(v, call) \o results)
    BY ZenonT(30), <1>15, <1>16, <1>17, JoinedTogether
  <1>19. messages' = ProviderMessages(m)
    BY <1>9, <1>11, <1>12, <1>13, <1>14, <1>18 DEF u, v, AnswersRead
  <1> QED
    BY <1>12, <1>19 DEF m, AnswersRead

-----------------------------------------------------------------------------
\* The conversation against the log.  While a turn runs, no proposals are open,
\* so that the next round's begin a message of their own.
Mirrors == mirrored =>
  /\ messages = ProviderMessages(log)
  /\ phase = "turn" => Reading(log).proposed = <<>>

HistoryInv == LogInv(log, intact) /\ Mirrors

\* An empty log says nothing.
LEMMA NothingRead ==
  /\ <<>> \in Logs /\ SnapshotsOK(<<>>) /\ Summary(<<>>) = <<>> /\ Len(<<>>) = 0
  /\ Reading(<<>>) = Empty
  <1> DEFINE l == <<>>
             seqs == After(l, CoveredEnd(l))
  <1>1. l \in Logs /\ Len(l) = 0 /\ 1..0 = {}
    BY DEF Logs
  <1> HIDE DEF l
  <1>2. Snaps(l) = {}
    BY <1>1, SnapshotFacts
  <1>3. SnapshotsOK(l) /\ Summary(l) = <<>>
    BY <1>1, <1>2, SnapshotFacts DEF SnapshotsOK
  <1>4. seqs \in Seq(1..Len(l))
    BY <1>1, TailShows
  <1> HIDE DEF seqs
  <1>5. PICK r : IsProjecting(r, l, seqs)
    BY <1>1, <1>4, ProjectRuns
  <1>6. Len(seqs) = 0
    <2>1. \A k \in 1..Len(seqs) : seqs[k] \in 1..Len(l)
      BY <1>4
    <2>2. \A k \in 1..Len(seqs) : FALSE
      BY <1>1, <2>1
    <2>3. Len(seqs) \in Nat
      BY <1>4
    <2>4. Len(seqs) >= 1 => 1 \in 1..Len(seqs)
      BY <2>3
    <2> QED
      BY <2>2, <2>3, <2>4
  <1>7. Projected(l, seqs) = Empty
    BY <1>5, <1>6 DEF IsProjecting
  <1> QED
    BY <1>1, <1>3, <1>7 DEF l, seqs, Reading

\* At the start both are empty.
LEMMA MirrorStarts ==
  ASSUME HistoryInit
  PROVE  Mirrors
  <1> DEFINE e == Event("session_started", NoCall)
             b == <<>>
  <1>1. e \in Events /\ e.type = "session_started"
    BY DEF Event, Events, EventTypes, NoCall
  <1>2. log = <<e>> /\ messages = <<>>
    BY DEF HistoryInit
  <1>3. RoleOf(e.type) = "silent" /\ e.type # "tool_call_proposed" /\ e.type # "context_snapshot"
    BY <1>1 DEF RoleOf
  <1>4. /\ b \in Logs /\ SnapshotsOK(b) /\ Summary(b) = <<>> /\ Reading(b) = Empty
    BY NothingRead
  <1>5. Append(b, e) = <<e>>
    OBVIOUS
  <1> HIDE DEF e, b
  <1>6. Append(b, e) \in Logs /\ Summary(Append(b, e)) = Summary(b)
    BY <1>1, <1>3, <1>4, ReadsMore
  <1>7. Reading(Append(b, e)) = Reading(b)
    BY <1>1, <1>3, <1>4, ReadsKinds
  <1>8. log \in Logs /\ Summary(log) = <<>> /\ Reading(log) = Empty
    BY <1>2, <1>4, <1>5, <1>6, <1>7
  <1>9. Flush(Empty) = <<>> /\ Empty.proposed = <<>>
    BY DEF Flush, Empty
  <1>10. ProviderMessages(log) = Summary(log) \o Flush(Reading(log))
    BY <1>8, ProviderReads
  <1>11. <<>> \o <<>> = <<>>
    OBVIOUS
  <1>12. ProviderMessages(log) = <<>>
    BY <1>8, <1>9, <1>10, <1>11
  <1> QED
    BY <1>2, <1>8, <1>9, <1>12 DEF Mirrors

\* A message that is said is shown by the log, if the log has it.
LEMMA SayMirrors ==
  ASSUME HistoryInv, NEW type \in {"user_message", "assistant_text"}, NEW role, role = RoleOf(type),
         NEW next, Say(type, role, next)
  PROVE  Mirrors'
  <1>1. SUFFICES ASSUME mirrored'
                 PROVE  messages' = ProviderMessages(log') /\ Reading(log').proposed = <<>>
    BY DEF Mirrors, Reading
  <1> DEFINE e == Event(type, NoCall)
             m == log'
             R == Reading(log)
  <1>2. /\ m = Append(log, e) /\ mirrored
        /\ messages' = Append(messages, Message(role, <<Len(m)>>))
    BY <1>1 DEF Say, AppendFails
  <1>3. log \in Logs /\ SnapshotsOK(log) /\ messages = ProviderMessages(log) /\ Len(log) \in Nat
    BY <1>2 DEF HistoryInv, LogInv, Mirrors, Logs
  <1>4. e \in Events /\ e.type = type
    BY DEF Event, Events, EventTypes, NoCall
  <1>5. RoleOf(e.type) = role /\ role \in {"user", "assistant"} /\ e.type # "context_snapshot"
    BY <1>4 DEF RoleOf
  <1> HIDE DEF e, m
  <1>6. m \in Logs /\ Len(m) = Len(log) + 1 /\ Summary(m) = Summary(log)
    <2>1. /\ Append(log, e) \in Logs /\ Len(Append(log, e)) = Len(log) + 1
          /\ Summary(Append(log, e)) = Summary(log)
      BY <1>3, <1>4, <1>5, ReadsMore
    <2> QED
      BY <1>2, <2>1
  <1> DEFINE y == Message(role, <<Len(log) + 1>>)
  <1>7. Reading(m) = [messages |-> Append(Flush(R), y), proposed |-> <<>>]
        /\ Flush(Reading(m)) = Append(Flush(R), y)
    <2>1. role # "silent"
      BY <1>5
    <2>2. /\ Reading(Append(log, e))
               = [messages |-> Append(Flush(R), Message(RoleOf(e.type), <<Len(log) + 1>>)), proposed |-> <<>>]
          /\ Flush(Reading(Append(log, e)))
               = Append(Flush(R), Message(RoleOf(e.type), <<Len(log) + 1>>))
      BY <1>3, <1>4, <1>5, <2>1, ReadsKinds
    <2> QED
      BY <1>2, <1>5, <2>2
  <1>8. Reading(m).proposed = <<>>
    BY <1>7
  <1>9. ProviderMessages(m) = Summary(m) \o Flush(Reading(m))
    BY <1>6, ProviderReads
  <1>10. messages = Summary(log) \o Flush(R)
    BY <1>3, ProviderReads
  <1> DEFINE u == Summary(log)
             v == Flush(R)
  <1>11. u \in Seq(Shows) /\ v \in Seq(Shows)
    BY <1>3, FlushedMessages
  <1>12. y \in Shows
    <2> DEFINE x == Len(log) + 1
    <2>1. <<x>> \in Seq(Nat)
      BY <1>3
    <2> HIDE DEF x
    <2>2. Message(role, <<x>>) \in Shows
      BY <1>5, <2>1 DEF Message, Shows
    <2> QED
      BY <2>2 DEF x
  <1>13. messages' = Append(messages, y)
    BY <1>2, <1>6
  <1> HIDE DEF u, v, y, R
  <1>14. Append(u \o v, y) = u \o Append(v, y)
    BY <1>11, <1>12
  <1>15. messages' = ProviderMessages(m)
    BY <1>6, <1>7, <1>9, <1>10, <1>13, <1>14 DEF u, v
  <1> QED
    BY <1>8, <1>15 DEF m

\* The end of a turn adds nothing the log shows.
LEMMA EndMirrors ==
  ASSUME HistoryInv, TurnCompleted
  PROVE  Mirrors'
  <1>1. SUFFICES ASSUME mirrored' PROVE messages' = ProviderMessages(log')
    BY DEF Mirrors, TurnCompleted
  <1>2. mirrored /\ messages' = messages
    BY <1>1 DEF TurnCompleted
  <1>3. log \in Logs /\ SnapshotsOK(log) /\ messages = ProviderMessages(log)
    BY <1>2 DEF HistoryInv, LogInv, Mirrors
  <1> DEFINE e == Event("turn_completed", NoCall)
  <1>4. CASE log' = Append(log, e)
    <2>1. e \in Events /\ e.type = "turn_completed"
      BY DEF Event, Events, EventTypes, NoCall
    <2>2. RoleOf(e.type) = "silent" /\ e.type # "tool_call_proposed" /\ e.type # "context_snapshot"
      BY <2>1 DEF RoleOf
    <2> HIDE DEF e
    <2> DEFINE m == Append(log, e)
    <2>3. m \in Logs /\ Summary(m) = Summary(log)
      BY <1>3, <2>1, <2>2, ReadsMore
    <2>4. Reading(m) = Reading(log)
      BY <1>3, <2>1, <2>2, ReadsKinds
    <2> HIDE DEF m
    <2>5. ProviderMessages(m) = ProviderMessages(log)
      BY <1>3, <2>3, <2>4, ProviderReads
    <2> QED
      BY <1>2, <1>3, <1>4, <2>5 DEF m
  <1>5. CASE log' = log
    BY <1>2, <1>3, <1>5
  <1> QED
    BY <1>4, <1>5 DEF TurnCompleted

\* Every step keeps the conversation and the log together, or says that it does not.
LEMMA MirrorKeeps ==
  ASSUME HistoryAssumption, HistoryInv, [HistoryNext]_historyVars
  PROVE  Mirrors'
  <1>1. CASE UserMessage
    <2>1. RoleOf("user_message") = "user"
      BY DEF RoleOf
    <2> QED
      BY <1>1, <2>1, SayMirrors DEF UserMessage
  <1>2. CASE AssistantText
    <2>1. RoleOf("assistant_text") = "assistant"
      BY DEF RoleOf
    <2> QED
      BY <1>2, <2>1, SayMirrors DEF AssistantText
  <1>3. CASE EngineRound
    <2>1. PICK ids, size, n, denied, lost :
            /\ size \in Nat /\ size > 0 /\ n \in 0..size /\ \A i \in 1..size : ids[i] \in Nat
            /\ denied \in [1..n -> BOOLEAN] /\ lost \in Nothing..n
            /\ Round(ids, size, denied, lost)
      BY <1>3, EngineRounds
    <2>2. SUFFICES ASSUME mirrored'
                   PROVE  /\ messages' = ProviderMessages(log')
                          /\ phase' = "turn" => Reading(log').proposed = <<>>
      BY DEF Mirrors, Reading
    <2>3. lost = Nothing /\ mirrored /\ phase = "turn"
      BY <2>1, <2>2 DEF Round, AppendFails
    <2>4. messages = ProviderMessages(log) /\ Reading(log).proposed = <<>>
      BY <2>3 DEF HistoryInv, Mirrors
    <2>5. messages' = ProviderMessages(log') /\ (n > 0 => Reading(log').proposed = <<>>)
      BY <2>1, <2>3, <2>4, RoundMirrors DEF HistoryInv
    <2>6. phase' = "turn" => n > 0
      <3>1. Len(denied) = n
        BY <2>1
      <3>2. phase' \in IF n = size THEN {"turn", "ending"} ELSE {"ending"}
        BY <2>1, <3>1 DEF Round
      <3> QED
        BY <2>1, <3>2
    <2> QED
      BY <2>5, <2>6
  <1>4. CASE NoText
    BY <1>4 DEF NoText, HistoryInv, Mirrors
  <1>5. CASE TurnCompleted
    BY <1>5, EndMirrors
  <1>6. CASE Clear
    BY <1>6 DEF Clear, Mirrors
  <1>7. CASE Load
    BY <1>7 DEF Load, Mirrors
  <1>8. CASE Compact
    BY <1>8 DEF Compact, Mirrors
  <1>9. CASE UNCHANGED historyVars
    BY <1>9 DEF historyVars, HistoryInv, Mirrors
  <1> QED
    BY <1>1, <1>2, <1>3, <1>4, <1>5, <1>6, <1>7, <1>8, <1>9 DEF HistoryNext

\* ConversationMirrorsLog: as long as no append failed and nothing replaced or
\* shortened it, what the model is sent live is what the log projects to.
THEOREM ConversationIsMirrored == HistorySpec => []ConversationMirrorsLog
  <1>1. HistoryInit => HistoryInv
    BY LogStarts, MirrorStarts DEF HistoryInv
  <1>2. HistoryInv /\ [HistoryNext]_historyVars => HistoryInv'
    BY HistoryAssumption, LogKeeps, MirrorKeeps DEF HistoryInv
  <1>3. HistoryInv => ConversationMirrorsLog
    BY DEF HistoryInv, Mirrors, ConversationMirrorsLog
  <1> QED
    BY <1>1, <1>2, <1>3, PTL DEF HistorySpec
=============================================================================
