--------------------------- MODULE StorageProofs ----------------------------
(***************************************************************************)
(* Proofs about what is kept on disk beside the workspace: the event       *)
(* store, the database of sessions and the legacy tools' file backups -    *)
(* for every value of their constants.                                     *)
(***************************************************************************)
EXTENDS EventStore, SessionDb, LegacyLoop, SequenceTheorems, TLAPS

-----------------------------------------------------------------------------
(***************************************************************************)
(* The event database, for any processes that share it, any number and     *)
(* size of groups, and any number of kills.                                *)
(***************************************************************************)
AllIds == {"event", "legacy"} \X Nat \X Nat
EventIds(i) == {<<"event", i, k>> : k \in Nat}
LegacyIds == {<<"legacy", 0, k>> : k \in Nat}
Imported(m) == {<<"legacy", 0, k>> : k \in 1..m}

\* Every group has ids of its own, but for the imports: they grow, so that the
\* latest contains the others.
Latest(L) ==
  /\ L \subseteq Imported(legacy + 1)
  /\ L = {} \/ \E j \in DOMAIN groups : groups[j] = L
  /\ \A i \in DOMAIN groups : groups[i] \subseteq EventIds(i - 1) \/ groups[i] \subseteq L

Nested ==
  \A i, j \in DOMAIN groups :
    i < j => groups[i] \cap groups[j] = {} \/ groups[i] \subseteq groups[j]

GroupsInv ==
  /\ legacy \in Nat
  /\ groups \in Seq(SUBSET AllIds)
  /\ \E L \in SUBSET LegacyIds : Latest(L)
  /\ Nested

\* The open transaction: what it inserted, what is to come and what was there
\* make up the group begun last.
Queue == {toInsert[i] : i \in DOMAIN toInsert}

OpenInv ==
  /\ toInsert \in Seq(AllIds)
  /\ writer # Nobody =>
       /\ Len(groups) >= 1
       /\ Ids(inserted) \cup Queue \subseteq groups[Len(groups)]
       /\ groups[Len(groups)] \subseteq Ids(rows) \cup Ids(inserted) \cup Queue

\* Numbers of the log lie below the counter, those of the transaction above.
Rows == [seq : Nat, id : AllIds]
Unique(events) == \A e, f \in events : e.seq = f.seq \/ e.id = f.id => e = f

NumbersInv ==
  /\ counter \in Nat /\ drawn \in Nat
  /\ rows \in SUBSET Rows /\ inserted \in SUBSET Rows
  /\ \A e \in rows : e.seq <= counter
  /\ \A e \in inserted : counter < e.seq /\ e.seq <= counter + drawn
  /\ Unique(rows \cup inserted)

\* What the log holds of a group: nothing, all, or what an earlier import left.
WholeGroup(i) ==
  LET there == groups[i] \cap Ids(rows) IN
  there = {} \/ there = groups[i] \/ \E j \in 1..i - 1 : there \subseteq groups[j]

LogInv ==
  /\ \A i \in DOMAIN groups : WholeGroup(i)
  /\ \A x \in Ids(rows) : \E i \in DOMAIN groups : x \in groups[i]

StoreInv == GroupsInv /\ OpenInv /\ NumbersInv /\ LogInv

-----------------------------------------------------------------------------
\* No two identifiers are the same, of new events or of legacy ones.
LEMMA Disjoint ==
  /\ \A i \in Nat : EventIds(i) \cap LegacyIds = {}
  /\ \A i, j \in Nat : i # j => EventIds(i) \cap EventIds(j) = {}
  BY DEF EventIds, LegacyIds

\* The identifiers of a union.
LEMMA IdsOfBoth == \A A, B : Ids(A \cup B) = Ids(A) \cup Ids(B)
  BY DEF Ids

\* The store is empty at first.
LEMMA StoreInitHolds == StoreInit => StoreInv
  <1> SUFFICES ASSUME StoreInit PROVE StoreInv
    OBVIOUS
  <1>1. /\ groups = <<>> /\ toInsert = <<>> /\ writer = Nobody
        /\ rows = {} /\ inserted = {} /\ counter = 0 /\ drawn = 0 /\ legacy = 1
    BY DEF StoreInit
  <1>2. GroupsInv
    <2>1. Latest({})
      BY <1>1 DEF Latest
    <2> QED
      BY <1>1, <2>1 DEF GroupsInv, Nested
  <1>3. OpenInv
    BY <1>1 DEF OpenInv
  <1>4. NumbersInv /\ LogInv
    BY <1>1 DEF NumbersInv, Unique, LogInv, Ids
  <1> QED
    BY <1>2, <1>3, <1>4 DEF StoreInv

\* BEGIN: the group joins the others, and the log holds as yet what an earlier
\* import left of it, if anything.
LEMMA BeginStep ==
  ASSUME StoreInv, NEW p \in Clients, NEW ids \in Seq(AllIds), BeginGroup(p, ids),
         NEW G, G = {ids[i] : i \in DOMAIN ids},
         \/ G \subseteq EventIds(Len(groups))
         \/ G = Imported(legacy + 1)
  PROVE  StoreInv'
  <1> DEFINE N == Len(groups)
  <1>1. /\ N \in Nat /\ DOMAIN groups = 1..N
        /\ groups \in Seq(SUBSET AllIds) /\ legacy \in Nat
    BY DEF StoreInv, GroupsInv
  <1>2. G \in SUBSET AllIds
    OBVIOUS
  <1>3. /\ groups' = Append(groups, G)
        /\ toInsert' = ids /\ inserted' = {} /\ drawn' = 0
        /\ UNCHANGED <<rows, counter, legacy>>
    BY DEF BeginGroup
  <1>4. /\ groups' \in Seq(SUBSET AllIds) /\ Len(groups') = N + 1
        /\ DOMAIN groups' = 1..(N + 1)
        /\ groups'[N + 1] = G
        /\ \A i \in 1..N : groups'[i] = groups[i]
    BY <1>1, <1>2, <1>3
  <1>5. PICK L \in SUBSET LegacyIds : Latest(L)
    BY DEF StoreInv, GroupsInv
  <1>6. \A i \in 1..N : groups[i] \subseteq EventIds(i - 1) \/ groups[i] \subseteq L
    BY <1>1, <1>5 DEF Latest
  <1>7. L \subseteq Imported(legacy + 1) /\ Imported(legacy + 1) \subseteq LegacyIds
    BY <1>1, <1>5 DEF Latest, Imported, LegacyIds
  <1> HIDE DEF N
  \* Against an earlier group, the new one is disjoint, or a larger import.
  <1>8. ASSUME NEW i \in 1..N
        PROVE  \/ groups[i] \cap G = {}
               \/ groups[i] \subseteq L /\ L \subseteq G
    <2>1. CASE G \subseteq EventIds(N)
      <3>1. CASE groups[i] \subseteq EventIds(i - 1)
        <4>1. i - 1 \in Nat /\ i - 1 # N
          BY <1>1
        <4>2. EventIds(i - 1) \cap EventIds(N) = {}
          BY <1>1, <4>1, Disjoint
        <4> QED
          BY <2>1, <3>1, <4>2
      <3>2. CASE groups[i] \subseteq L
        <4>1. EventIds(N) \cap LegacyIds = {}
          BY <1>1, Disjoint
        <4> QED
          BY <1>5, <2>1, <3>2, <4>1
      <3> QED
        BY <1>6, <3>1, <3>2
    <2>2. CASE G = Imported(legacy + 1)
      <3>1. CASE groups[i] \subseteq EventIds(i - 1)
        <4>1. EventIds(i - 1) \cap LegacyIds = {}
          BY <1>1, Disjoint
        <4> QED
          BY <1>7, <2>2, <3>1, <4>1
      <3>2. CASE groups[i] \subseteq L
        BY <1>7, <2>2, <3>2
      <3> QED
        BY <1>6, <3>1, <3>2
    <2> QED
      BY <2>1, <2>2 DEF N
  <1>9. Nested'
    <2> SUFFICES ASSUME NEW i \in 1..(N + 1), NEW j \in 1..(N + 1), i < j
                 PROVE  groups'[i] \cap groups'[j] = {} \/ groups'[i] \subseteq groups'[j]
      BY <1>4 DEF Nested
    <2>1. i \in 1..N
      BY <1>1
    <2>2. CASE j = N + 1
      BY <1>4, <1>8, <2>1, <2>2
    <2>3. CASE j \in 1..N
      BY <1>1, <1>4, <2>1, <2>3 DEF StoreInv, GroupsInv, Nested
    <2> QED
      BY <1>1, <2>2, <2>3
  <1>10. \E K \in SUBSET LegacyIds : Latest(K)'
    <2>1. CASE G \subseteq EventIds(N)
      <3>1. Latest(L)'
        <4>1. L \subseteq Imported(legacy' + 1)
          BY <1>3, <1>7
        <4>2. L = {} \/ \E j \in DOMAIN groups' : groups'[j] = L
          <5>1. CASE L = {}
            BY <5>1
          <5>2. CASE L # {}
            <6>1. PICK j \in 1..N : groups[j] = L
              BY <1>1, <1>5, <5>2 DEF Latest, N
            <6>2. j \in 1..(N + 1)
              BY <1>1
            <6> QED
              BY <1>4, <6>1, <6>2
          <5> QED
            BY <5>1, <5>2
        <4>3. \A i \in DOMAIN groups' :
                groups'[i] \subseteq EventIds(i - 1) \/ groups'[i] \subseteq L
          <5> SUFFICES ASSUME NEW i \in 1..(N + 1)
                       PROVE  groups'[i] \subseteq EventIds(i - 1) \/ groups'[i] \subseteq L
            BY <1>4
          <5>1. CASE i = N + 1
            <6>1. i - 1 = N
              BY <1>1, <5>1
            <6> QED
              BY <1>4, <2>1, <5>1, <6>1
          <5>2. CASE i \in 1..N
            BY <1>4, <1>6, <5>2
          <5> QED
            BY <1>1, <5>1, <5>2
        <4> QED
          BY <4>1, <4>2, <4>3 DEF Latest, Imported
      <3> QED
        BY <3>1
    <2>2. CASE G = Imported(legacy + 1)
      <3>1. G \subseteq Imported(legacy' + 1) /\ G \in SUBSET LegacyIds
        BY <1>3, <1>7, <2>2
      <3>2. N + 1 \in DOMAIN groups' /\ groups'[N + 1] = G
        BY <1>1, <1>4
      <3>3. \A i \in DOMAIN groups' :
              groups'[i] \subseteq EventIds(i - 1) \/ groups'[i] \subseteq G
        <4> SUFFICES ASSUME NEW i \in 1..(N + 1)
                     PROVE  groups'[i] \subseteq EventIds(i - 1) \/ groups'[i] \subseteq G
          BY <1>4
        <4>1. CASE i = N + 1
          BY <1>4, <4>1
        <4>2. CASE i \in 1..N
          <5>1. groups'[i] = groups[i]
            BY <1>4, <4>2
          <5> QED
            BY <1>6, <1>7, <2>2, <4>2, <5>1
        <4> QED
          BY <1>1, <4>1, <4>2
      <3>4. Latest(G)'
        BY <3>1, <3>2, <3>3 DEF Latest, Imported
      <3> QED
        BY <3>1, <3>4
    <2> QED
      BY <2>1, <2>2 DEF N
  <1>11. GroupsInv'
    BY <1>1, <1>3, <1>4, <1>9, <1>10 DEF GroupsInv
  <1>12. OpenInv'
    <2>1. Queue' = G /\ Ids(inserted') = {}
      BY <1>3 DEF Queue, Ids
    <2>2. groups'[Len(groups')] = G /\ Len(groups') >= 1
      BY <1>1, <1>4
    <2> QED
      BY <1>3, <2>1, <2>2 DEF OpenInv
  <1>13. NumbersInv'
    BY <1>3 DEF StoreInv, NumbersInv, Unique
  <1>14. LogInv'
    <2>1. Ids(rows') = Ids(rows)
      BY <1>3
    <2>2. \A x \in Ids(rows) : \E i \in 1..N : x \in groups[i]
      BY <1>1 DEF StoreInv, LogInv, N
    <2>3. \A x \in Ids(rows') : \E i \in DOMAIN groups' : x \in groups'[i]
      <3>1. 1..N \subseteq 1..(N + 1)
        BY <1>1
      <3> QED
        BY <1>4, <2>1, <2>2, <3>1
    <2>4. ASSUME NEW i \in 1..(N + 1)
          PROVE  WholeGroup(i)'
      <3>1. CASE i = N + 1
        <4> DEFINE there == G \cap Ids(rows)
        <4>1. there \subseteq L
          BY <1>8, <2>2
        <4>2. CASE L = {}
          BY <1>4, <2>1, <3>1, <4>1, <4>2 DEF WholeGroup
        <4>3. CASE L # {}
          <5>1. PICK j \in 1..N : groups[j] = L
            BY <1>1, <1>5, <4>3 DEF Latest, N
          <5>2. j \in 1..(i - 1) /\ groups'[j] = L
            BY <1>1, <1>4, <3>1, <5>1
          <5> QED
            BY <1>4, <2>1, <3>1, <4>1, <5>2 DEF WholeGroup
        <4> QED
          BY <4>2, <4>3
      <3>2. CASE i \in 1..N
        <4>1. WholeGroup(i)
          BY <1>1, <3>2 DEF StoreInv, LogInv, N
        <4>2. groups'[i] = groups[i] /\ \A j \in 1..(i - 1) : groups'[j] = groups[j]
          BY <1>1, <1>4, <3>2
        <4> QED
          BY <2>1, <4>1, <4>2 DEF WholeGroup
      <3> QED
        BY <1>1, <3>1, <3>2
    <2> QED
      BY <1>4, <2>3, <2>4 DEF LogInv
  <1> QED
    BY <1>11, <1>12, <1>13, <1>14 DEF StoreInv

\* A group, or a legacy session, is begun with its first insert.
LEMMA BeginSteps ==
  ASSUME StoreInv, NEW p \in Clients, AppendGroup(p) \/ ImportLegacy(p)
  PROVE  StoreInv'
  <1>1. Len(groups) \in Nat /\ legacy \in Nat /\ MaxGroupSize \in Nat
    BY StoreAssumption DEF StoreAssumption, StoreInv, GroupsInv
  <1>2. CASE AppendGroup(p)
    <2>1. PICK n \in 1..MaxGroupSize :
            BeginGroup(p, [i \in 1..n |-> <<"event", Len(groups), i>>])
      BY <1>2 DEF AppendGroup
    <2> DEFINE ids == [i \in 1..n |-> <<"event", Len(groups), i>>]
    <2>2. n \in Nat
      BY <1>1
    <2>3. ids \in Seq(AllIds)
      <3>1. \A i \in 1..n : <<"event", Len(groups), i>> \in AllIds
        BY <1>1, <2>2 DEF AllIds
      <3> QED
        BY <2>2, <3>1
    <2>4. {ids[i] : i \in DOMAIN ids} \subseteq EventIds(Len(groups))
      BY <2>2 DEF EventIds
    <2> HIDE DEF ids
    <2>5. BeginGroup(p, ids)
      BY <2>1 DEF ids
    <2> QED
      BY <2>3, <2>4, <2>5, BeginStep
  <1>3. CASE ImportLegacy(p)
    <2> DEFINE ids == [i \in 1..legacy + 1 |-> <<"legacy", 0, i>>]
    <2>1. BeginGroup(p, ids)
      BY <1>3 DEF ImportLegacy
    <2>2. ids \in Seq(AllIds)
      <3>1. \A i \in 1..legacy + 1 : <<"legacy", 0, i>> \in AllIds
        BY <1>1 DEF AllIds
      <3>2. legacy + 1 \in Nat
        BY <1>1
      <3> QED
        BY <3>1, <3>2
    <2>3. {ids[i] : i \in DOMAIN ids} = Imported(legacy + 1)
      BY <1>1 DEF Imported
    <2> HIDE DEF ids
    <2> QED
      BY <2>1, <2>2, <2>3, BeginStep
  <1> QED
    BY <1>2, <1>3

\* INSERT OR IGNORE: the id leaves the queue, and is in the log or in the
\* transaction from then on.
LEMMA InsertStep ==
  ASSUME StoreInv, Insert
  PROVE  StoreInv'
  <1> DEFINE id == Head(toInsert)
             new == [seq |-> counter + drawn', id |-> id]
  <1>1. /\ writer # Nobody /\ toInsert # <<>> /\ toInsert \in Seq(AllIds)
        /\ toInsert' = Tail(toInsert) /\ drawn' = drawn + 1
        /\ UNCHANGED <<rows, counter, writer, legacy, groups>>
    BY DEF Insert, StoreInv, OpenInv
  <1>2. /\ id \in AllIds /\ toInsert' \in Seq(AllIds)
        /\ Queue = {id} \cup Queue'
    <2>1. /\ Len(toInsert) \in Nat /\ Len(toInsert) >= 1 /\ DOMAIN toInsert = 1..Len(toInsert)
          /\ Len(Tail(toInsert)) = Len(toInsert) - 1
          /\ \A i \in 1..Len(toInsert) - 1 : Tail(toInsert)[i] = toInsert[i + 1]
          /\ Tail(toInsert) \in Seq(AllIds) /\ id = toInsert[1] /\ toInsert[1] \in AllIds
      BY <1>1
    <2>2. DOMAIN Tail(toInsert) = 1..Len(toInsert) - 1
      BY <2>1
    <2>3. Queue' = {toInsert[i + 1] : i \in 1..Len(toInsert) - 1}
      BY <1>1, <2>1, <2>2 DEF Queue
    <2>4. Queue = {toInsert[i] : i \in 1..Len(toInsert)}
      BY <2>1 DEF Queue
    <2>5. Queue \subseteq {id} \cup Queue'
      <3> SUFFICES ASSUME NEW i \in 1..Len(toInsert), i # 1
                   PROVE  toInsert[i] \in Queue'
        BY <2>1, <2>4
      <3>1. i - 1 \in 1..Len(toInsert) - 1 /\ toInsert[i] = toInsert[(i - 1) + 1]
        BY <2>1
      <3> QED
        BY <2>3, <3>1
    <2>6. {id} \cup Queue' \subseteq Queue
      BY <2>1, <2>3, <2>4
    <2> QED
      BY <1>1, <2>1, <2>5, <2>6
  <1>3. /\ counter \in Nat /\ drawn \in Nat
        /\ rows \in SUBSET Rows /\ inserted \in SUBSET Rows
        /\ \A e \in rows : e.seq <= counter
        /\ \A e \in inserted : counter < e.seq /\ e.seq <= counter + drawn
        /\ Unique(rows \cup inserted)
    BY DEF StoreInv, NumbersInv
  <1>4. \/ id \in Ids(rows \cup inserted) /\ inserted' = inserted
        \/ id \notin Ids(rows \cup inserted) /\ inserted' = inserted \cup {new}
    BY <1>1, <1>3 DEF Insert
  <1>5. Ids({new}) = {id}
    BY DEF Ids
  <1> HIDE DEF id
  <1>6. /\ Ids(inserted') \subseteq Ids(inserted) \cup {id}
        /\ id \in Ids(rows) \cup Ids(inserted')
        /\ Ids(inserted) \subseteq Ids(inserted')
    BY <1>4, <1>5, IdsOfBoth
  <1>7. OpenInv'
    BY <1>1, <1>2, <1>6 DEF StoreInv, OpenInv
  <1>8. NumbersInv'
    <2>1. new \in Rows /\ new.seq = counter + drawn + 1 /\ new.id = id
      BY <1>1, <1>2, <1>3 DEF Rows
    <2> HIDE DEF new
    <2>2. counter' \in Nat /\ drawn' \in Nat /\ rows' \in SUBSET Rows /\ inserted' \in SUBSET Rows
      BY <1>1, <1>3, <1>4, <2>1
    <2>3. \A e \in inserted : e.seq \in Nat
      BY <1>3 DEF Rows
    <2>4. \A e \in rows : e.seq \in Nat
      BY <1>3 DEF Rows
    <2>5. ASSUME NEW e \in inserted'
          PROVE  counter < e.seq /\ e.seq <= counter + drawn + 1
      BY <1>3, <1>4, <2>1, <2>3
    <2>6. Unique(rows \cup inserted')
      <3>1. CASE inserted' = inserted
        BY <1>3, <3>1
      <3>2. CASE id \notin Ids(rows \cup inserted) /\ inserted' = inserted \cup {new}
        <4>1. \A e \in rows \cup inserted : e.id # id
          BY <3>2 DEF Ids
        <4>2. \A e \in rows \cup inserted : e.seq # counter + drawn + 1
          BY <1>3, <2>3, <2>4
        <4> QED
          BY <1>3, <2>1, <3>2, <4>1, <4>2 DEF Unique
      <3> QED
        BY <1>4, <3>1, <3>2
    <2> QED
      BY <1>1, <1>3, <2>2, <2>5, <2>6 DEF NumbersInv
  <1>9. GroupsInv' /\ LogInv'
    BY <1>1 DEF StoreInv, GroupsInv, Latest, Nested, LogInv, WholeGroup
  <1> QED
    BY <1>7, <1>8, <1>9 DEF StoreInv

\* COMMIT: all of the last group is in the log now, and of an earlier one
\* nothing more, or all of it too.
LEMMA CommitStep ==
  ASSUME StoreInv, CommitGroup
  PROVE  StoreInv'
  <1> DEFINE N == Len(groups)
  <1>1. /\ writer # Nobody /\ toInsert = <<>>
        /\ rows' = rows \cup inserted /\ counter' = counter + drawn
        /\ writer' = Nobody /\ toInsert' = <<>> /\ inserted' = {} /\ drawn' = 0
        /\ UNCHANGED <<legacy, groups>>
    BY DEF CommitGroup, EndTransaction
  <1>2. /\ N \in Nat /\ DOMAIN groups = 1..N /\ N >= 1
    BY <1>1 DEF StoreInv, GroupsInv, OpenInv
  <1>3. Ids(rows') = Ids(rows) \cup Ids(inserted)
    BY <1>1, IdsOfBoth
  <1>4. /\ Ids(inserted) \subseteq groups[N]
        /\ groups[N] \subseteq Ids(rows')
    <2>1. Queue = {}
      BY <1>1 DEF Queue
    <2> QED
      BY <1>1, <1>3, <2>1 DEF StoreInv, OpenInv
  <1> HIDE DEF N
  <1>5. LogInv'
    <2>1. ASSUME NEW x \in Ids(rows')
          PROVE  \E i \in DOMAIN groups : x \in groups[i]
      <3>1. CASE x \in Ids(rows)
        BY <3>1 DEF StoreInv, LogInv
      <3>2. CASE x \in Ids(inserted)
        BY <1>2, <1>4, <3>2
      <3> QED
        BY <1>3, <3>1, <3>2
    <2>2. ASSUME NEW i \in 1..N
          PROVE  WholeGroup(i)'
      <3>1. CASE groups[i] \subseteq groups[N]
        <4>1. groups[i] \cap Ids(rows') = groups[i]
          BY <1>4, <3>1
        <4> QED
          BY <1>1, <4>1 DEF WholeGroup
      <3>2. CASE groups[i] \cap groups[N] = {}
        <4>1. groups[i] \cap Ids(rows') = groups[i] \cap Ids(rows)
          BY <1>3, <1>4, <3>2
        <4>2. WholeGroup(i)
          BY <1>2 DEF StoreInv, LogInv
        <4> QED
          BY <1>1, <4>1, <4>2 DEF WholeGroup
      <3>3. groups[i] \subseteq groups[N] \/ groups[i] \cap groups[N] = {}
        <4>1. CASE i = N
          BY <4>1
        <4>2. CASE i < N
          BY <1>2, <4>2 DEF StoreInv, GroupsInv, Nested
        <4> QED
          BY <1>2, <4>1, <4>2
      <3> QED
        BY <3>1, <3>2, <3>3
    <2> QED
      BY <1>1, <1>2, <2>1, <2>2 DEF LogInv
  <1>6. NumbersInv'
    <2>1. \A e \in rows : e.seq \in Nat
      BY DEF StoreInv, NumbersInv, Rows
    <2> QED
      BY <1>1, <2>1 DEF StoreInv, NumbersInv, Unique
  <1>7. OpenInv' /\ GroupsInv'
    BY <1>1 DEF StoreInv, OpenInv, GroupsInv, Latest, Nested
  <1> QED
    BY <1>5, <1>6, <1>7 DEF StoreInv

\* A rollback, and the death of the writer, leave the log as it was.
LEMMA AbandonStep ==
  ASSUME StoreInv, EndTransaction, UNCHANGED <<rows, counter, legacy, groups>>
  PROVE  StoreInv'
  <1>1. OpenInv'
    BY DEF EndTransaction, OpenInv
  <1>2. NumbersInv'
    BY DEF EndTransaction, StoreInv, NumbersInv, Unique
  <1>3. GroupsInv' /\ LogInv'
    BY DEF StoreInv, GroupsInv, Latest, Nested, LogInv, WholeGroup
  <1> QED
    BY <1>1, <1>2, <1>3 DEF StoreInv

\* Opening and migrating touch neither the log nor a transaction.
LEMMA QuietStep ==
  ASSUME StoreInv, UNCHANGED contents
  PROVE  StoreInv'
  <1>1. UNCHANGED <<rows, counter, writer, toInsert, inserted, drawn, legacy, groups>>
    BY DEF contents, transaction
  <1>2. GroupsInv' /\ LogInv'
    BY <1>1 DEF StoreInv, GroupsInv, Latest, Nested, LogInv, WholeGroup
  <1>3. OpenInv' /\ NumbersInv'
    BY <1>1 DEF StoreInv, OpenInv, Queue, NumbersInv, Unique
  <1> QED
    BY <1>2, <1>3 DEF StoreInv

\* A larger legacy session only makes room for larger imports.
LEMMA LegacyStep ==
  ASSUME StoreInv, LegacyMessage
  PROVE  StoreInv'
  <1>1. /\ legacy \in Nat /\ legacy' = legacy + 1
        /\ UNCHANGED <<rows, counter, transaction, groups>>
    BY DEF LegacyMessage, StoreInv, GroupsInv
  <1>2. Imported(legacy + 1) \subseteq Imported(legacy' + 1)
    BY <1>1 DEF Imported
  <1>3. GroupsInv'
    <2>1. PICK L \in SUBSET LegacyIds : Latest(L)
      BY DEF StoreInv, GroupsInv
    <2>2. Latest(L)'
      BY <1>1, <1>2, <2>1 DEF Latest, Imported
    <2> QED
      BY <1>1, <2>1, <2>2 DEF StoreInv, GroupsInv, Nested
  <1>4. OpenInv' /\ NumbersInv' /\ LogInv'
    BY <1>1 DEF transaction, StoreInv, OpenInv, Queue, NumbersInv, Unique, LogInv, WholeGroup
  <1> QED
    BY <1>3, <1>4 DEF StoreInv

\* Every step of every process keeps it.
LEMMA StepKeepsStoreInv == StoreInv /\ [StoreNext]_storeVars => StoreInv'
  <1> SUFFICES ASSUME StoreInv, [StoreNext]_storeVars PROVE StoreInv'
    OBVIOUS
  <1>1. ASSUME NEW p \in Clients,
               OpenStore(p) \/ ReadVersion(p) \/ CreateTable(p) \/ CreateIndex(p)
               \/ RecordVersion(p) \/ GoOn(p)
        PROVE  StoreInv'
    BY <1>1, QuietStep
    DEF OpenStore, ReadVersion, CreateTable, CreateIndex, Create, RecordVersion, GoOn
  <1>2. ASSUME NEW p \in Clients, AppendGroup(p) \/ ImportLegacy(p)
        PROVE  StoreInv'
    BY <1>2, BeginSteps
  <1>3. ASSUME NEW p \in Clients, KillClient(p)
        PROVE  StoreInv'
    <2>1. CASE writer = p
      BY <1>3, <2>1, AbandonStep DEF KillClient
    <2>2. CASE writer # p
      BY <1>3, <2>2, QuietStep DEF KillClient, contents
    <2> QED
      BY <2>1, <2>2
  <1>4. CASE Insert
    BY <1>4, InsertStep
  <1>5. CASE CommitGroup
    BY <1>5, CommitStep
  <1>6. CASE RollBackGroup
    BY <1>6, AbandonStep DEF RollBackGroup
  <1>7. CASE LegacyMessage
    BY <1>7, LegacyStep
  <1>8. CASE UNCHANGED storeVars
    BY <1>8, QuietStep DEF storeVars, contents, transaction
  <1> QED
    BY <1>1, <1>2, <1>3, <1>4, <1>5, <1>6, <1>7, <1>8 DEF StoreNext

\* No kill, failure or other process leaves a part of a group that
\* append_group or import_legacy_session wrote, and no two events share a number.
THEOREM GroupsAreWholeHolds == StoreSpec => []GroupsAreWhole
  <1>1. StoreInv => GroupsAreWhole
    BY DEF StoreInv, LogInv, WholeGroup, NumbersInv, Unique, GroupsAreWhole
  <1> QED
    BY <1>1, StoreInitHolds, StepKeepsStoreInv, PTL DEF StoreSpec

-----------------------------------------------------------------------------
(***************************************************************************)
(* The database of sessions, for any processes, sessions and messages.     *)
(***************************************************************************)
Texts == Seq(Nat)

\* f finds the texts of part that are not gone in whole, in order.
Embeds(f, part, gone, whole) ==
  /\ f \in [DOMAIN part -> DOMAIN whole \cup {0}]
  /\ \A i \in DOMAIN part :
       part[i] \notin gone => /\ f[i] # 0 /\ whole[f[i]] = part[i]
                              /\ \A j \in 1..i - 1 : f[j] < f[i]

\* The same in terms of an embedding.
LEMMA OccursByEmbedding ==
  ASSUME NEW part, NEW gone, NEW whole
  PROVE  Occurs(part, gone, whole) <=> \E f : Embeds(f, part, gone, whole)
  BY DEF Occurs, Embeds

\* Nothing occurs in everything.
LEMMA OccursEmpty == ASSUME NEW gone, NEW whole PROVE Occurs(<<>>, gone, whole)
  <1>1. Embeds([i \in {} |-> 0], <<>>, gone, whole)
    BY DEF Embeds
  <1> QED
    BY <1>1, OccursByEmbedding

\* A list of texts starts with those of another.
Begins(w, v) == Len(w) <= Len(v) /\ \A i \in 1..Len(w) : v[i] = w[i]

\* A list starts with itself, whatever is added to it.
LEMMA BeginsLonger ==
  ASSUME NEW w \in Texts, NEW u \in Texts, NEW e \in Nat
  PROVE  Begins(w, w) /\ Begins(w, w \o u) /\ Begins(w, Append(w \o u, e))
  BY DEF Begins, Texts

\* What a connection reads, with rows of its own that are gone, occurs in what is stored.
LEMMA OccursCommitted ==
  ASSUME NEW w \in Texts, NEW u \in Texts, NEW gone, \A i \in DOMAIN u : u[i] \in gone
  PROVE  Occurs(w \o u, gone, w)
  <1> DEFINE n == Len(w)
             m == Len(u)
             s == w \o u
             f == [i \in 1..(n + m) |-> IF i <= n THEN i ELSE 0]
  <1>1. n \in Nat /\ m \in Nat /\ DOMAIN w = 1..n /\ DOMAIN u = 1..m
    BY DEF Texts
  <1>2. /\ DOMAIN s = 1..(n + m) /\ \A i \in 1..n : s[i] = w[i]
        /\ \A i \in 1..m : s[n + i] = u[i]
    BY DEF Texts
  <1> HIDE DEF s, n, m
  <1>3. \A i \in 1..(n + m) : i \in 1..n \/ (i - n \in 1..m /\ i = n + (i - n))
    BY <1>1
  <1>4. \A i \in 1..(n + m) : s[i] \notin gone => i \in 1..n
    BY <1>1, <1>2, <1>3
  <1>5. \A i \in 1..n : f[i] = i /\ i # 0 /\ \A j \in 1..i - 1 : f[j] = j /\ j < i
    BY <1>1
  <1>6. f \in [1..(n + m) -> (1..n) \cup {0}]
    BY <1>1
  <1> HIDE DEF f
  <1>7. ASSUME NEW i \in 1..(n + m), s[i] \notin gone
        PROVE  f[i] # 0 /\ w[f[i]] = s[i] /\ \A j \in 1..i - 1 : f[j] < f[i]
    BY <1>2, <1>4, <1>5, <1>7
  <1>8. Embeds(f, s, gone, w)
    BY <1>1, <1>2, <1>6, <1>7 DEF Embeds
  <1> QED
    BY <1>8, OccursByEmbedding DEF s

\* What occurs in a session occurs in it when it grows and when more texts are gone,
LEMMA OccursInLonger ==
  ASSUME NEW s \in Texts, NEW w \in Texts, NEW v \in Texts, NEW gone, NEW more,
         gone \subseteq more, Begins(w, v), Occurs(s, gone, w)
  PROVE  Occurs(s, more, v)
  <1> DEFINE n == Len(s)
             m == Len(w)
             k == Len(v)
  <1>1. PICK f : Embeds(f, s, gone, w)
    BY OccursByEmbedding
  <1>2. /\ n \in Nat /\ m \in Nat /\ k \in Nat
        /\ DOMAIN s = 1..n /\ DOMAIN w = 1..m /\ DOMAIN v = 1..k
    BY DEF Texts
  <1>3. m <= k /\ \A i \in 1..m : v[i] = w[i]
    BY DEF Begins
  <1> HIDE DEF n, m, k
  <1>4. f \in [1..n -> (1..m) \cup {0}]
    BY <1>1, <1>2 DEF Embeds
  <1>5. f \in [1..n -> (1..k) \cup {0}]
    BY <1>2, <1>3, <1>4
  <1>6. ASSUME NEW i \in 1..n, s[i] \notin more
        PROVE  f[i] # 0 /\ v[f[i]] = s[i] /\ \A j \in 1..i - 1 : f[j] < f[i]
    <2>1. f[i] # 0 /\ w[f[i]] = s[i] /\ \A j \in 1..i - 1 : f[j] < f[i]
      BY <1>1, <1>2, <1>6 DEF Embeds
    <2>2. f[i] \in 1..m
      BY <1>4, <2>1
    <2> QED
      BY <1>3, <2>1, <2>2
  <1>7. Embeds(f, s, more, v)
    BY <1>2, <1>5, <1>6 DEF Embeds
  <1> QED
    BY <1>7, OccursByEmbedding

\* and with a text added to both;
LEMMA OccursExtended ==
  ASSUME NEW s \in Texts, NEW w \in Texts, NEW e \in Nat, NEW gone, Occurs(s, gone, w)
  PROVE  Occurs(Append(s, e), gone, Append(w, e))
  <1> DEFINE n == Len(s)
             m == Len(w)
             t == Append(s, e)
             v == Append(w, e)
  <1>1. PICK f : Embeds(f, s, gone, w)
    BY OccursByEmbedding
  <1> DEFINE g == [i \in 1..(n + 1) |-> IF i = n + 1 THEN m + 1 ELSE f[i]]
  <1>2. n \in Nat /\ m \in Nat /\ DOMAIN s = 1..n /\ DOMAIN w = 1..m
    BY DEF Texts
  <1>3. DOMAIN v = 1..(m + 1) /\ v[m + 1] = e /\ \A i \in 1..m : v[i] = w[i]
    BY DEF Texts
  <1>4. DOMAIN t = 1..(n + 1) /\ t[n + 1] = e /\ \A i \in 1..n : t[i] = s[i]
    BY DEF Texts
  <1> HIDE DEF t, v, n, m
  <1>5. \A i \in 1..n : /\ f[i] \in (1..m) \cup {0}
                        /\ s[i] \notin gone =>
                             f[i] # 0 /\ w[f[i]] = s[i] /\ \A j \in 1..i - 1 : f[j] < f[i]
    BY <1>1, <1>2 DEF Embeds
  <1>6. \A i \in 1..(n + 1) : i = n + 1 \/ (i \in 1..n /\ i # n + 1)
    BY <1>2
  <1>7. g[n + 1] = m + 1 /\ \A i \in 1..n : g[i] = f[i]
    BY <1>2
  <1>8. \A i \in 1..n : g[i] \in (1..m) \cup {0} /\ g[i] < m + 1
    BY <1>2, <1>5, <1>7
  <1>9. g \in [1..(n + 1) -> (1..(m + 1)) \cup {0}]
    BY <1>2, <1>5, <1>6
  <1> HIDE DEF g
  <1>10. ASSUME NEW i \in 1..(n + 1), t[i] \notin gone
         PROVE  g[i] # 0 /\ v[g[i]] = t[i] /\ \A j \in 1..i - 1 : g[j] < g[i]
    <2>1. CASE i = n + 1
      <3>1. \A j \in 1..i - 1 : j \in 1..n
        BY <1>2, <2>1
      <3> QED
        BY <1>2, <1>3, <1>4, <1>7, <1>8, <2>1, <3>1
    <2>2. CASE i \in 1..n
      <3>1. \A j \in 1..i - 1 : j \in 1..n
        BY <1>2, <2>2
      <3>2. s[i] \notin gone /\ t[i] = s[i]
        BY <1>4, <1>10, <2>2
      <3>3. f[i] # 0 /\ w[f[i]] = s[i] /\ f[i] \in 1..m
        BY <1>5, <2>2, <3>2
      <3>4. \A j \in 1..i - 1 : f[j] < f[i]
        BY <1>5, <2>2, <3>2
      <3> QED
        BY <1>3, <1>7, <2>2, <3>1, <3>2, <3>3, <3>4
    <2> QED
      BY <1>6, <2>1, <2>2
  <1>11. Embeds(g, t, gone, v)
    BY <1>3, <1>4, <1>9, <1>10 DEF Embeds
  <1> QED
    BY <1>11, OccursByEmbedding DEF t, v

\* a text that is gone may follow;
LEMMA OccursWithGone ==
  ASSUME NEW s \in Texts, NEW w \in Texts, NEW e \in Nat, NEW gone, e \in gone,
         Occurs(s, gone, w)
  PROVE  Occurs(Append(s, e), gone, w)
  <1> DEFINE n == Len(s)
             m == Len(w)
             t == Append(s, e)
  <1>1. PICK f : Embeds(f, s, gone, w)
    BY OccursByEmbedding
  <1> DEFINE g == [i \in 1..(n + 1) |-> IF i = n + 1 THEN 0 ELSE f[i]]
  <1>2. n \in Nat /\ m \in Nat /\ DOMAIN s = 1..n /\ DOMAIN w = 1..m
    BY DEF Texts
  <1>3. DOMAIN t = 1..(n + 1) /\ t[n + 1] = e /\ \A i \in 1..n : t[i] = s[i]
    BY DEF Texts
  <1> HIDE DEF t, n, m
  <1>4. \A i \in 1..n : /\ f[i] \in (1..m) \cup {0}
                        /\ s[i] \notin gone =>
                             f[i] # 0 /\ w[f[i]] = s[i] /\ \A j \in 1..i - 1 : f[j] < f[i]
    BY <1>1, <1>2 DEF Embeds
  <1>5. \A i \in 1..(n + 1) : i = n + 1 \/ (i \in 1..n /\ i # n + 1)
    BY <1>2
  <1>6. \A i \in 1..n : g[i] = f[i]
    BY <1>2
  <1>7. g \in [1..(n + 1) -> (1..m) \cup {0}]
    BY <1>4, <1>5
  <1> HIDE DEF g
  <1>8. ASSUME NEW i \in 1..(n + 1), t[i] \notin gone
        PROVE  g[i] # 0 /\ w[g[i]] = t[i] /\ \A j \in 1..i - 1 : g[j] < g[i]
    <2>1. i \in 1..n
      BY <1>3, <1>5, <1>8
    <2>2. \A j \in 1..i - 1 : j \in 1..n
      BY <1>2, <2>1
    <2>3. s[i] \notin gone /\ t[i] = s[i]
      BY <1>3, <1>8, <2>1
    <2>4. f[i] # 0 /\ w[f[i]] = s[i] /\ \A j \in 1..i - 1 : f[j] < f[i]
      BY <1>4, <2>1, <2>3
    <2> QED
      BY <1>6, <2>1, <2>2, <2>3, <2>4
  <1>9. Embeds(g, t, gone, w)
    BY <1>2, <1>3, <1>7, <1>8 DEF Embeds
  <1> QED
    BY <1>9, OccursByEmbedding DEF t

\* and what is left when the first texts are cut off occurs as well.
LEMMA OccursCut ==
  ASSUME NEW s \in Texts, NEW w \in Texts, NEW k \in 0..Len(s), NEW gone, Occurs(s, gone, w)
  PROVE  Occurs(SubSeq(s, k + 1, Len(s)), gone, w)
  <1> DEFINE n == Len(s)
             m == Len(w)
             t == SubSeq(s, k + 1, n)
  <1>1. PICK f : Embeds(f, s, gone, w)
    BY OccursByEmbedding
  <1> DEFINE g == [i \in 1..(n - k) |-> f[i + k]]
  <1>2. n \in Nat /\ m \in Nat /\ DOMAIN s = 1..n /\ DOMAIN w = 1..m /\ k \in Nat /\ k <= n
    BY DEF Texts
  <1>3. DOMAIN t = 1..(n - k) /\ \A i \in 1..(n - k) : t[i] = s[i + k]
    BY <1>2 DEF Texts
  <1> HIDE DEF t, n, m
  <1>4. \A i \in 1..n : /\ f[i] \in (1..m) \cup {0}
                        /\ s[i] \notin gone =>
                             f[i] # 0 /\ w[f[i]] = s[i] /\ \A j \in 1..i - 1 : f[j] < f[i]
    BY <1>1, <1>2 DEF Embeds
  <1>5. \A i \in 1..(n - k) : i + k \in 1..n /\ g[i] = f[i + k]
    BY <1>2
  <1>6. g \in [1..(n - k) -> (1..m) \cup {0}]
    BY <1>4, <1>5
  <1> HIDE DEF g
  <1>7. ASSUME NEW i \in 1..(n - k), t[i] \notin gone
        PROVE  g[i] # 0 /\ w[g[i]] = t[i] /\ \A j \in 1..i - 1 : g[j] < g[i]
    <2>0. t[i] = s[i + k] /\ s[i + k] \notin gone
      BY <1>3, <1>7
    <2>1. g[i] # 0 /\ w[g[i]] = t[i]
      BY <1>4, <1>5, <2>0
    <2>2. ASSUME NEW j \in 1..i - 1 PROVE g[j] < g[i]
      <3>1. j \in 1..(n - k) /\ j + k \in 1..(i + k) - 1 /\ i + k \in 1..n
        BY <1>2, <1>5
      <3>2. f[j + k] < f[i + k]
        BY <1>4, <2>0, <3>1
      <3> QED
        BY <1>5, <3>1, <3>2
    <2> QED
      BY <2>1, <2>2
  <1>8. Embeds(g, t, gone, w)
    BY <1>2, <1>3, <1>6, <1>7 DEF Embeds
  <1> QED
    BY <1>8, OccursByEmbedding DEF t, n

-----------------------------------------------------------------------------
DbTypeOK ==
  /\ sessions \in Seq(Texts) /\ Len(sessions) <= MaxSessions
  /\ uncommitted \in [Processes -> [1..MaxSessions -> Texts]]
  /\ typed \in Nat /\ saying \in [Processes -> Nat]
  /\ sessionId \in [Processes -> Nat]
  /\ \A p \in Processes : sessionId[p] # NoSession => sessionId[p] \in DOMAIN sessions
  /\ shown \in [Processes -> Texts] /\ logged \in [Processes -> Texts]
  /\ at \in [Processes -> {"down", "prompt", "storing", "turn"}]
  /\ origin \in [Processes -> {"own", "loaded", "log"}]

\* A process that does not run has no session and shows nothing.
DownIsEmpty(p) ==
  at[p] = "down" => sessionId[p] = NoSession /\ shown[p] = <<>> /\ logged[p] = <<>>

\* What a transaction has left open is of calls that raised.
RowsRaised(p) ==
  \A s \in 1..MaxSessions : \A i \in DOMAIN uncommitted[p][s] : uncommitted[p][s][i] \in unstored

\* The texts are in the session, but for those that are gone and, while its
\* storing is due, a last one.
InStore(texts, session, gone, last, due) ==
  \/ Occurs(texts, gone, session)
  \/ due /\ \E r \in Texts : texts = Append(r, last) /\ Occurs(r, gone, session)

\* As long as nothing was loaded, the texts of the log are stored too, which is
\* what a compaction falls back on.
OwnIsStored(p) ==
  sessionId[p] # NoSession /\ origin[p] = "own" =>
    InStore(logged[p], sessions[sessionId[p]], unstored, saying[p], at[p] = "storing")

\* The text whose storing is due is the last that is shown.
ShownIsStored(p) ==
  sessionId[p] # NoSession /\ origin[p] # "log" =>
    InStore(shown[p], sessions[sessionId[p]], unstored, saying[p], at[p] = "storing")

ProcessInv(p) == DownIsEmpty(p) /\ RowsRaised(p) /\ OwnIsStored(p) /\ ShownIsStored(p)
DbInv == DbTypeOK /\ \A p \in Processes : ProcessInv(p)

\* A session that grows, or more texts that are gone, leave it so.
LEMMA InStoreLonger ==
  ASSUME NEW s \in Texts, NEW w \in Texts, NEW v \in Texts, NEW gone, NEW more, NEW e, NEW due,
         gone \subseteq more, Begins(w, v), InStore(s, w, gone, e, due)
  PROVE  InStore(s, v, more, e, due)
  BY OccursInLonger DEF InStore

\* With the last text among those that are gone, all of them occur.
LEMMA InStoreSaid ==
  ASSUME NEW s \in Texts, NEW w \in Texts, NEW gone, NEW e \in Nat, NEW due,
         InStore(s, w, gone, e, due)
  PROVE  Occurs(s, gone \cup {e}, w)
  <1>1. Begins(w, w) /\ gone \subseteq gone \cup {e} /\ e \in gone \cup {e}
    BY DEF Begins, Texts
  <1>2. CASE Occurs(s, gone, w)
    BY <1>1, <1>2, OccursInLonger
  <1>3. ASSUME NEW r \in Texts, s = Append(r, e), Occurs(r, gone, w)
        PROVE  Occurs(s, gone \cup {e}, w)
    <2>1. Occurs(r, gone \cup {e}, w)
      BY <1>1, <1>3, OccursInLonger
    <2> QED
      BY <1>1, <1>3, <2>1, OccursWithGone
  <1> QED
    BY <1>2, <1>3 DEF InStore

\* Once the last text is stored behind the open rows, all of them are.
LEMMA InStoreAdded ==
  ASSUME NEW s \in Texts, NEW w \in Texts, NEW u \in Texts, NEW gone, NEW e \in Nat, NEW due,
         InStore(s, w, gone, e, due)
  PROVE  Occurs(s, gone, Append(w \o u, e))
  <1> DEFINE v == w \o u
             x == Append(v, e)
  <1>1. v \in Texts /\ x \in Texts
    BY DEF Texts
  <1>2. Begins(w, v) /\ Begins(w, x)
    BY BeginsLonger
  <1> HIDE DEF v, x
  <1>3. CASE Occurs(s, gone, w)
    BY <1>1, <1>2, <1>3, OccursInLonger DEF x, v
  <1>4. ASSUME NEW r \in Texts, s = Append(r, e), Occurs(r, gone, w)
        PROVE  Occurs(s, gone, x)
    <2>1. Occurs(r, gone, v)
      BY <1>1, <1>2, <1>4, OccursInLonger
    <2> QED
      BY <1>1, <1>4, <2>1, OccursExtended DEF x
  <1> QED
    BY <1>3, <1>4 DEF InStore, x, v

\* At first, and after its end, a process has nothing to store.
LEMMA NoRowsOpen ==
  NoRows \in [1..MaxSessions -> Texts] /\ \A s \in 1..MaxSessions : NoRows[s] = <<>>
  BY DEF NoRows, Texts

\* No process has started at first.
LEMMA DbInitHolds == SessionDbInit => DbInv
  <1> SUFFICES ASSUME SessionDbInit PROVE DbInv
    OBVIOUS
  <1>1. DbTypeOK
    BY NoRowsOpen, SessionDbAssumption
    DEF SessionDbInit, DbTypeOK, SessionDbAssumption, Texts, NoSession, NoMessage
  <1>2. ASSUME NEW p \in Processes PROVE ProcessInv(p)
    BY NoRowsOpen
    DEF SessionDbInit, ProcessInv, DownIsEmpty, RowsRaised, OwnIsStored, ShownIsStored, NoSession
  <1> QED
    BY <1>1, <1>2 DEF DbInv

\* Sessions only grow, texts that are gone stay so, and the others are left alone.
OthersStay(p) ==
  /\ \A s \in DOMAIN sessions : s \in DOMAIN sessions' /\ Begins(sessions[s], sessions'[s])
  /\ unstored \subseteq unstored'
  /\ \A q \in Processes \ {p} :
       /\ at'[q] = at[q] /\ saying'[q] = saying[q] /\ sessionId'[q] = sessionId[q]
       /\ shown'[q] = shown[q] /\ logged'[q] = logged[q] /\ origin'[q] = origin[q]
       /\ uncommitted'[q] = uncommitted[q]

\* Then only the process that steps has to be looked at.
LEMMA OthersKeepInv ==
  ASSUME DbInv, DbTypeOK', NEW p \in Processes, OthersStay(p), ProcessInv(p)'
  PROVE  DbInv'
  <1>1. ASSUME NEW q \in Processes, q # p PROVE ProcessInv(q)'
    <2>1. /\ at'[q] = at[q] /\ saying'[q] = saying[q] /\ sessionId'[q] = sessionId[q]
          /\ shown'[q] = shown[q] /\ logged'[q] = logged[q] /\ origin'[q] = origin[q]
          /\ uncommitted'[q] = uncommitted[q] /\ unstored \subseteq unstored'
      BY <1>1 DEF OthersStay
    <2>2. ProcessInv(q) /\ shown[q] \in Texts /\ logged[q] \in Texts
      BY DEF DbInv, DbTypeOK
    <2>3. DownIsEmpty(q)' /\ RowsRaised(q)'
      BY <2>1, <2>2 DEF ProcessInv, DownIsEmpty, RowsRaised
    <2> DEFINE w == sessions[sessionId[q]]
               v == sessions'[sessionId[q]]
    <2>4. ASSUME sessionId[q] # NoSession PROVE w \in Texts /\ v \in Texts /\ Begins(w, v)
      <3>1. sessionId[q] \in DOMAIN sessions /\ sessionId[q] \in DOMAIN sessions'
        BY <2>4 DEF OthersStay, DbInv, DbTypeOK
      <3>2. w \in Texts
        BY <3>1 DEF DbInv, DbTypeOK
      <3>3. v \in Texts
        BY <3>1 DEF DbTypeOK
      <3> QED
        BY <3>1, <3>2, <3>3 DEF OthersStay
    <2> HIDE DEF w, v
    <2>5. OwnIsStored(q)'
      <3> SUFFICES ASSUME sessionId[q] # NoSession, origin[q] = "own"
                   PROVE  InStore(logged[q], v, unstored', saying[q], at[q] = "storing")
        BY <2>1 DEF OwnIsStored, v
      <3>1. InStore(logged[q], w, unstored, saying[q], at[q] = "storing")
        BY <2>2 DEF ProcessInv, OwnIsStored, w
      <3> QED
        BY <2>1, <2>2, <2>4, <3>1, InStoreLonger
    <2>6. ShownIsStored(q)'
      <3> SUFFICES ASSUME sessionId[q] # NoSession, origin[q] # "log"
                   PROVE  InStore(shown[q], v, unstored', saying[q], at[q] = "storing")
        BY <2>1 DEF ShownIsStored, v
      <3>1. InStore(shown[q], w, unstored, saying[q], at[q] = "storing")
        BY <2>2 DEF ProcessInv, ShownIsStored, w
      <3> QED
        BY <2>1, <2>2, <2>4, <3>1, InStoreLonger
    <2> QED
      BY <2>3, <2>5, <2>6 DEF ProcessInv
  <1>2. \A q \in Processes : ProcessInv(q)'
    BY <1>1
  <1> QED
    BY <1>2 DEF DbInv

\* The sessions as they are begin with themselves.
LEMMA SessionsStay ==
  ASSUME DbTypeOK, sessions' = sessions
  PROVE  \A s \in DOMAIN sessions : s \in DOMAIN sessions' /\ Begins(sessions[s], sessions'[s])
  <1>1. \A s \in DOMAIN sessions : sessions[s] \in Texts
    BY DEF DbTypeOK
  <1>2. \A s \in DOMAIN sessions : Begins(sessions[s], sessions[s])
    BY <1>1 DEF Begins, Texts
  <1> QED
    BY <1>2

\* A process starts, with a session of its own or with none.
LEMMA StartStep ==
  ASSUME DbInv, NEW p \in Processes, StartProcess(p)
  PROVE  DbInv'
  <1>0. DbTypeOK /\ ProcessInv(p)
    BY DEF DbInv
  <1>1. /\ at' = [at EXCEPT ![p] = "prompt"] /\ at'[p] = "prompt"
        /\ UNCHANGED <<uncommitted, typed, saying, shown, logged, origin, unstored>>
        /\ shown[p] = <<>> /\ logged[p] = <<>> /\ sessionId[p] = 0
    BY <1>0 DEF StartProcess, textVars, ProcessInv, DownIsEmpty, DbTypeOK, NoSession
  <1>2. DownIsEmpty(p)' /\ RowsRaised(p)'
    BY <1>0, <1>1 DEF ProcessInv, DownIsEmpty, RowsRaised
  <1>3. OwnIsStored(p)' /\ ShownIsStored(p)'
    BY <1>1, OccursEmpty DEF OwnIsStored, ShownIsStored, InStore
  <1>4. CASE UNCHANGED <<sessions, sessionId>>
    <2>1. DbTypeOK'
      BY <1>0, <1>1, <1>4 DEF DbTypeOK
    <2>2. OthersStay(p)
      BY <1>0, <1>1, <1>4, SessionsStay DEF OthersStay, DbTypeOK
    <2>3. ProcessInv(p)'
      BY <1>2, <1>3 DEF ProcessInv
    <2> QED
      BY <2>1, <2>2, <2>3, OthersKeepInv
  <1>5. CASE /\ Len(sessions) < MaxSessions
             /\ sessions' = Append(sessions, <<>>)
             /\ sessionId' = [sessionId EXCEPT ![p] = Len(sessions')]
    <2> DEFINE n == Len(sessions)
    <2>1. <<>> \in Texts /\ MaxSessions \in Nat
      BY SessionDbAssumption DEF Texts, SessionDbAssumption
    <2>2. /\ n \in Nat /\ DOMAIN sessions = 1..n /\ sessions' \in Seq(Texts)
          /\ DOMAIN sessions' = 1..(n + 1) /\ Len(sessions') = n + 1
          /\ \A s \in 1..n : sessions'[s] = sessions[s] /\ sessions[s] \in Texts
      BY <1>0, <1>5, <2>1 DEF DbTypeOK
    <2>3. /\ sessionId'[p] = n + 1 /\ sessionId' \in [Processes -> Nat]
          /\ \A q \in Processes : q # p => sessionId'[q] = sessionId[q]
      BY <1>0, <1>5, <2>2 DEF DbTypeOK
    <2>4. \A q \in Processes : sessionId'[q] # NoSession => sessionId'[q] \in DOMAIN sessions'
      BY <1>0, <2>2, <2>3 DEF DbTypeOK
    <2>5. at' \in [Processes -> {"down", "prompt", "storing", "turn"}]
      BY <1>0, <1>1 DEF DbTypeOK
    <2>6. Len(sessions') <= MaxSessions
      BY <1>5, <2>1, <2>2
    <2>7. DbTypeOK'
      BY <1>0, <1>1, <2>2, <2>3, <2>4, <2>5, <2>6 DEF DbTypeOK
    <2>8. \A s \in DOMAIN sessions : s \in DOMAIN sessions' /\ Begins(sessions[s], sessions'[s])
      BY <2>2 DEF Begins, Texts
    <2>9. OthersStay(p)
      BY <1>0, <1>1, <2>3, <2>8 DEF OthersStay, DbTypeOK
    <2>10. ProcessInv(p)'
      BY <1>2, <1>3 DEF ProcessInv
    <2> QED
      BY <2>7, <2>9, <2>10, OthersKeepInv
  <1> QED
    BY <1>4, <1>5 DEF StartProcess

\* A text is shown, and in the log or not, before it is stored.
LEMMA ConversationStep ==
  ASSUME DbInv, NEW p \in Processes, NEW from \in {"prompt", "turn"}, AddToConversation(p, from)
  PROVE  DbInv'
  <1>0. DbTypeOK /\ ProcessInv(p)
    BY DEF DbInv
  <1> DEFINE e == typed'
  <1>1. /\ at[p] = from /\ at' = [at EXCEPT ![p] = "storing"] /\ e = typed + 1
        /\ saying' = [saying EXCEPT ![p] = e]
        /\ shown' = [shown EXCEPT ![p] = Append(shown[p], e)]
        /\ logged' = logged \/ logged' = [logged EXCEPT ![p] = Append(logged[p], e)]
        /\ UNCHANGED <<sessions, uncommitted, sessionId, origin, unstored>>
    BY DEF AddToConversation, databaseVars
  <1>2. e \in Nat
    BY <1>0, <1>1, SMTT(20) DEF DbTypeOK
  <1> HIDE DEF e
  <1>3. /\ shown[p] \in Texts /\ logged[p] \in Texts
        /\ Append(shown[p], e) \in Texts /\ Append(logged[p], e) \in Texts
    BY <1>0, <1>2 DEF DbTypeOK, Texts
  <1>4. /\ at'[p] = "storing" /\ saying'[p] = e /\ shown'[p] = Append(shown[p], e)
        /\ logged'[p] \in {logged[p], Append(logged[p], e)}
    BY <1>0, <1>1 DEF DbTypeOK
  <1>5. DbTypeOK'
    <2>1. shown' \in [Processes -> Texts] /\ logged' \in [Processes -> Texts]
      BY <1>0, <1>1, <1>3 DEF DbTypeOK
    <2>2. at' \in [Processes -> {"down", "prompt", "storing", "turn"}]
      BY <1>0, <1>1 DEF DbTypeOK
    <2>3. saying' \in [Processes -> Nat] /\ typed' \in Nat
      BY <1>0, <1>1, <1>2 DEF DbTypeOK, e
    <2> QED
      BY <1>0, <1>1, <2>1, <2>2, <2>3 DEF DbTypeOK
  <1>6. OthersStay(p)
    <2>1. \A q \in Processes \ {p} :
            /\ at'[q] = at[q] /\ saying'[q] = saying[q] /\ shown'[q] = shown[q]
            /\ logged'[q] = logged[q]
      BY <1>0, <1>1 DEF DbTypeOK
    <2> QED
      BY <1>0, <1>1, <2>1, SessionsStay DEF OthersStay
  <1>7. DownIsEmpty(p)' /\ RowsRaised(p)'
    BY <1>0, <1>1, <1>4 DEF ProcessInv, DownIsEmpty, RowsRaised
  <1>8. OwnIsStored(p)'
    <2> SUFFICES ASSUME sessionId[p] # NoSession, origin[p] = "own"
                 PROVE  InStore(logged'[p], sessions[sessionId[p]], unstored, e, TRUE)
      BY <1>1, <1>4 DEF OwnIsStored
    <2>1. Occurs(logged[p], unstored, sessions[sessionId[p]])
      BY <1>0, <1>1 DEF ProcessInv, OwnIsStored, InStore
    <2> QED
      BY <1>3, <1>4, <2>1 DEF InStore
  <1>9. ShownIsStored(p)'
    <2> SUFFICES ASSUME sessionId[p] # NoSession, origin[p] # "log"
                 PROVE  InStore(shown'[p], sessions[sessionId[p]], unstored, e, TRUE)
      BY <1>1, <1>4 DEF ShownIsStored
    <2>1. Occurs(shown[p], unstored, sessions[sessionId[p]])
      BY <1>0, <1>1 DEF ProcessInv, ShownIsStored, InStore
    <2> QED
      BY <1>3, <1>4, <2>1 DEF InStore
  <1>10. ProcessInv(p)'
    BY <1>7, <1>8, <1>9 DEF ProcessInv
  <1> QED
    BY <1>5, <1>6, <1>10, OthersKeepInv

\* One element of a sequence is replaced.
LEMMA ReplacedInSeq ==
  ASSUME NEW A, NEW s \in Seq(A), NEW i \in DOMAIN s, NEW e \in A
  PROVE  /\ [s EXCEPT ![i] = e] \in Seq(A) /\ DOMAIN [s EXCEPT ![i] = e] = DOMAIN s
         /\ Len([s EXCEPT ![i] = e]) = Len(s)
  OBVIOUS

\* The others stay.
LEMMA ReplacedItem ==
  ASSUME NEW A, NEW s \in Seq(A), NEW i \in DOMAIN s, NEW e \in A
  PROVE  \A k \in DOMAIN s : /\ s[k] \in A
                             /\ [s EXCEPT ![i] = e][k] = IF k = i THEN e ELSE s[k]
  OBVIOUS

\* What a connection reads in each session is what is stored there, and its rows.
LEMMA SeenByIs ==
  ASSUME DbTypeOK, NEW p \in Processes
  PROVE  /\ SeenBy(p) \in Seq(Texts) /\ DOMAIN SeenBy(p) = DOMAIN sessions
         /\ Len(SeenBy(p)) = Len(sessions)
         /\ \A s \in DOMAIN sessions :
              /\ s \in 1..MaxSessions /\ sessions[s] \in Texts /\ uncommitted[p][s] \in Texts
              /\ SeenBy(p)[s] = sessions[s] \o uncommitted[p][s]
  <1> DEFINE n == Len(sessions)
  <1>1. /\ n \in Nat /\ DOMAIN sessions = 1..n /\ MaxSessions \in Nat /\ n <= MaxSessions
    BY SessionDbAssumption DEF DbTypeOK, SessionDbAssumption
  <1>2. \A s \in DOMAIN sessions : s \in 1..MaxSessions
    BY <1>1
  <1>3. \A s \in DOMAIN sessions : sessions[s] \in Texts /\ uncommitted[p][s] \in Texts
    <2>1. \A s \in DOMAIN sessions : sessions[s] \in Texts
      BY DEF DbTypeOK
    <2>2. uncommitted[p] \in [1..MaxSessions -> Texts]
      BY DEF DbTypeOK
    <2> QED
      BY <1>2, <2>1, <2>2
  <1>4. \A s \in DOMAIN sessions : sessions[s] \o uncommitted[p][s] \in Texts
    <2>1. \A w \in Texts, u \in Texts : w \o u \in Texts
      BY DEF Texts
    <2> QED
      BY <1>3, <2>1
  <1> HIDE DEF n
  <1>5. SeenBy(p) = [s \in 1..n |-> sessions[s] \o uncommitted[p][s]]
    BY <1>1 DEF SeenBy, Stored, GetSession
  <1>6. SeenBy(p) \in [1..n -> Texts]
    BY <1>1, <1>4, <1>5
  <1>7. SeenBy(p) \in Seq(Texts) /\ Len(SeenBy(p)) = n
    BY <1>1, <1>6
  <1> QED
    BY <1>1, <1>2, <1>3, <1>5, <1>6, <1>7 DEF n

\* That begins with what is stored.
LEMMA SeenByBegins ==
  ASSUME DbTypeOK, NEW p \in Processes
  PROVE  \A s \in DOMAIN sessions : Begins(sessions[s], sessions[s] \o uncommitted[p][s])
  <1> TAKE s \in DOMAIN sessions
  <1>1. sessions[s] \in Texts /\ uncommitted[p][s] \in Texts /\ 0 \in Nat
    BY SeenByIs
  <1> QED
    BY <1>1, BeginsLonger

\* A commit of what a connection reads leaves every session longer.
LEMMA CommitGrows ==
  ASSUME DbTypeOK, NEW p \in Processes, sessions' = SeenBy(p)
  PROVE  /\ sessions' \in Seq(Texts) /\ DOMAIN sessions' = DOMAIN sessions
         /\ Len(sessions') = Len(sessions)
         /\ \A s \in DOMAIN sessions : Begins(sessions[s], sessions'[s])
  <1>1. \A s \in DOMAIN sessions : Begins(sessions[s], sessions[s] \o uncommitted[p][s])
    BY SeenByBegins
  <1> QED
    BY <1>1, SeenByIs

\* add_message returns: the text is behind the rows that were open.
LEMMA AddMessageStep ==
  ASSUME DbInv, NEW p \in Processes, AddMessage(p)
  PROVE  DbInv'
  <1>0. DbTypeOK /\ ProcessInv(p)
    BY DEF DbInv
  <1> DEFINE e == saying[p]
             x == sessionId[p]
  <1>1. /\ at[p] = "storing" /\ at' = [at EXCEPT ![p] = "turn"]
        /\ saying' = [saying EXCEPT ![p] = 0] /\ e \in Nat
        /\ UNCHANGED <<typed, sessionId, shown, logged, origin, unstored>>
    BY <1>0 DEF AddMessage, DbTypeOK, NoMessage
  <1>2. /\ at' \in [Processes -> {"down", "prompt", "storing", "turn"}] /\ at'[p] = "turn"
        /\ saying' \in [Processes -> Nat]
        /\ \A q \in Processes \ {p} : at'[q] = at[q] /\ saying'[q] = saying[q]
    BY <1>0, <1>1 DEF DbTypeOK
  <1>3. shown[p] \in Texts /\ logged[p] \in Texts
    BY <1>0 DEF DbTypeOK
  <1>4. DownIsEmpty(p)'
    BY <1>2 DEF DownIsEmpty
  <1>5. CASE x = NoSession /\ UNCHANGED <<sessions, uncommitted>>
    <2>1. DbTypeOK'
      BY <1>0, <1>1, <1>2, <1>5 DEF DbTypeOK
    <2>2. OthersStay(p)
      BY <1>0, <1>1, <1>2, <1>5, SessionsStay DEF OthersStay
    <2>3. ProcessInv(p)'
      BY <1>0, <1>1, <1>4, <1>5 DEF ProcessInv, RowsRaised, OwnIsStored, ShownIsStored
    <2> QED
      BY <2>1, <2>2, <2>3, OthersKeepInv
  <1>6. CASE x # NoSession /\ CommitRows(p, [SeenBy(p) EXCEPT ![x] = Append(@, e)])
    <2> DEFINE w == sessions[x]
               u == uncommitted[p][x]
               y == Append(w \o u, e)
    <2>1. x \in DOMAIN sessions /\ w \in Texts /\ u \in Texts /\ SeenBy(p)[x] = w \o u
      BY <1>0, <1>6, SeenByIs DEF DbTypeOK
    <2>2. y \in Texts /\ Begins(w, y)
      BY <1>1, <2>1, BeginsLonger DEF Texts
    <2>3. sessions' = [SeenBy(p) EXCEPT ![x] = y]
      BY <1>6, <2>1 DEF CommitRows
    <2>4. uncommitted' = [uncommitted EXCEPT ![p] = NoRows]
      BY <1>6 DEF CommitRows
    <2> HIDE DEF y, x, w, u, e
    <2>5. SeenBy(p) \in Seq(Texts) /\ x \in DOMAIN SeenBy(p)
      BY <1>0, <2>1, SeenByIs
    <2>6. /\ sessions' \in Seq(Texts) /\ DOMAIN sessions' = DOMAIN SeenBy(p)
          /\ Len(sessions') = Len(SeenBy(p))
      BY <2>2, <2>3, <2>5, ReplacedInSeq
    <2>7. /\ sessions' \in Seq(Texts) /\ DOMAIN sessions' = DOMAIN sessions
          /\ Len(sessions') = Len(sessions)
      BY <1>0, <2>6, SeenByIs
    <2>8. \A s \in DOMAIN sessions : s # x => sessions'[s] = sessions[s] \o uncommitted[p][s]
      BY <1>0, <2>2, <2>3, <2>5, ReplacedItem, SeenByIs
    <2>9. sessions'[x] = y
      BY <2>2, <2>3, <2>5, ReplacedItem
    <2>10. \A s \in DOMAIN sessions : Begins(sessions[s], sessions'[s])
      <3>1. ASSUME NEW s \in DOMAIN sessions, s # x PROVE Begins(sessions[s], sessions'[s])
        BY <1>0, <2>8, <3>1, SeenByBegins
      <3>2. Begins(sessions[x], sessions'[x])
        BY <2>2, <2>9 DEF w
      <3> QED
        BY <3>1, <3>2
    <2>11. uncommitted' \in [Processes -> [1..MaxSessions -> Texts]]
           /\ uncommitted'[p] = NoRows
           /\ \A q \in Processes \ {p} : uncommitted'[q] = uncommitted[q]
      BY <1>0, <2>4, NoRowsOpen DEF DbTypeOK
    <2>12. DbTypeOK'
      BY <1>0, <1>1, <1>2, <2>7, <2>11 DEF DbTypeOK
    <2>13. OthersStay(p)
      BY <1>1, <1>2, <2>7, <2>10, <2>11 DEF OthersStay
    <2>14. RowsRaised(p)'
      BY <2>11, NoRowsOpen DEF RowsRaised
    <2>15. OwnIsStored(p)'
      <3> SUFFICES ASSUME x # NoSession, origin[p] = "own"
                   PROVE  InStore(logged[p], y, unstored, saying'[p], at'[p] = "storing")
        BY <1>1, <2>9 DEF OwnIsStored, x
      <3>1. InStore(logged[p], w, unstored, e, TRUE)
        BY <1>0, <1>1 DEF ProcessInv, OwnIsStored, w, x, e
      <3>2. Occurs(logged[p], unstored, y)
        BY <1>1, <1>3, <2>1, <3>1, InStoreAdded DEF y
      <3> QED
        BY <3>2 DEF InStore
    <2>16. ShownIsStored(p)'
      <3> SUFFICES ASSUME x # NoSession, origin[p] # "log"
                   PROVE  InStore(shown[p], y, unstored, saying'[p], at'[p] = "storing")
        BY <1>1, <2>9 DEF ShownIsStored, x
      <3>1. InStore(shown[p], w, unstored, e, TRUE)
        BY <1>0, <1>1 DEF ProcessInv, ShownIsStored, w, x, e
      <3>2. Occurs(shown[p], unstored, y)
        BY <1>1, <1>3, <2>1, <3>1, InStoreAdded DEF y
      <3> QED
        BY <3>2 DEF InStore
    <2>17. ProcessInv(p)'
      BY <1>4, <2>14, <2>15, <2>16 DEF ProcessInv
    <2> QED
      BY <2>12, <2>13, <2>17, OthersKeepInv
  <1> QED
    BY <1>5, <1>6 DEF AddMessage

\* add_message raises: the text is gone, whatever became of its row.
LEMMA AddMessageFailsStep ==
  ASSUME DbInv, NEW p \in Processes, AddMessageFails(p)
  PROVE  DbInv'
  <1>0. DbTypeOK /\ ProcessInv(p)
    BY DEF DbInv
  <1> DEFINE e == saying[p]
             x == sessionId[p]
             w == sessions[x]
  <1>1. /\ at[p] = "storing" /\ at' = [at EXCEPT ![p] = "prompt"] /\ x # NoSession
        /\ saying' = [saying EXCEPT ![p] = 0] /\ e \in Nat /\ unstored' = unstored \cup {e}
        /\ UNCHANGED <<sessions, typed, sessionId, shown, logged, origin>>
    BY <1>0 DEF AddMessageFails, DbTypeOK, NoMessage
  <1>2. /\ at' \in [Processes -> {"down", "prompt", "storing", "turn"}] /\ at'[p] = "prompt"
        /\ saying' \in [Processes -> Nat]
        /\ \A q \in Processes \ {p} : at'[q] = at[q] /\ saying'[q] = saying[q]
    BY <1>0, <1>1 DEF DbTypeOK
  <1>3. shown[p] \in Texts /\ logged[p] \in Texts /\ w \in Texts
    BY <1>0, <1>1 DEF DbTypeOK
  <1>4. x \in 1..MaxSessions /\ uncommitted[p][x] \in Texts
    BY <1>0, <1>1, SeenByIs DEF DbTypeOK
  <1>5. RowsRaised(p)
    BY <1>0 DEF ProcessInv
  <1>6. uncommitted' \in [Processes -> [1..MaxSessions -> Texts]] /\ RowsRaised(p)'
        /\ \A q \in Processes \ {p} : uncommitted'[q] = uncommitted[q]
    <2>1. CASE UNCHANGED uncommitted
      BY <1>0, <1>1, <1>5, <2>1 DEF DbTypeOK, RowsRaised
    <2>2. CASE uncommitted' = [uncommitted EXCEPT ![p][x] = Append(@, e)]
      <3> DEFINE u == uncommitted[p][x]
                 y == Append(u, e)
                 filled == [uncommitted[p] EXCEPT ![x] = y]
      <3>1. y \in Texts /\ DOMAIN y = 1..(Len(u) + 1) /\ DOMAIN u = 1..Len(u) /\ Len(u) \in Nat
            /\ y[Len(u) + 1] = e /\ \A i \in 1..Len(u) : y[i] = u[i]
        BY <1>1, <1>4 DEF Texts
      <3>2. uncommitted[p] \in [1..MaxSessions -> Texts]
        BY <1>0 DEF DbTypeOK
      <3>3. uncommitted' = [uncommitted EXCEPT ![p] = filled]
        BY <2>2
      <3> HIDE DEF y
      <3>4. filled \in [1..MaxSessions -> Texts] /\ filled[x] = y
            /\ \A s \in 1..MaxSessions : s # x => filled[s] = uncommitted[p][s]
        BY <1>4, <3>1, <3>2
      <3> HIDE DEF filled, u
      <3>5. uncommitted' \in [Processes -> [1..MaxSessions -> Texts]] /\ uncommitted'[p] = filled
            /\ \A q \in Processes \ {p} : uncommitted'[q] = uncommitted[q]
        BY <1>0, <3>3, <3>4 DEF DbTypeOK
      <3>6. \A i \in DOMAIN y : y[i] = e \/ (i \in DOMAIN u /\ y[i] = u[i])
        BY <3>1, SMTT(20)
      <3>7. \A i \in DOMAIN u : u[i] \in unstored
        BY <1>4, <1>5 DEF RowsRaised, u
      <3>8. \A i \in DOMAIN y : y[i] \in unstored'
        BY <1>1, <3>6, <3>7
      <3>9. ASSUME NEW s \in 1..MaxSessions, NEW i \in DOMAIN filled[s] PROVE filled[s][i] \in unstored'
        BY <1>1, <1>5, <3>4, <3>8, <3>9 DEF RowsRaised
      <3> QED
        BY <3>5, <3>9 DEF RowsRaised
    <2>3. CASE uncommitted' = [uncommitted EXCEPT ![p] = NoRows]
      BY <1>0, <2>3, NoRowsOpen DEF DbTypeOK, RowsRaised
    <2> QED
      BY <2>1, <2>2, <2>3 DEF AddMessageFails
  <1>7. DbTypeOK'
    BY <1>0, <1>1, <1>2, <1>6 DEF DbTypeOK
  <1>8. OthersStay(p)
    BY <1>0, <1>1, <1>2, <1>6, SessionsStay DEF OthersStay
  <1>9. DownIsEmpty(p)'
    BY <1>2 DEF DownIsEmpty
  <1>10. OwnIsStored(p)'
    <2> SUFFICES ASSUME origin[p] = "own"
                 PROVE  InStore(logged[p], w, unstored', saying'[p], at'[p] = "storing")
      BY <1>1 DEF OwnIsStored
    <2>1. InStore(logged[p], w, unstored, e, TRUE)
      BY <1>0, <1>1 DEF ProcessInv, OwnIsStored
    <2> HIDE DEF w, e
    <2>2. Occurs(logged[p], unstored \cup {e}, w)
      BY <1>1, <1>3, <2>1, InStoreSaid
    <2> QED
      BY <1>1, <2>2 DEF InStore
  <1>11. ShownIsStored(p)'
    <2> SUFFICES ASSUME origin[p] # "log"
                 PROVE  InStore(shown[p], w, unstored', saying'[p], at'[p] = "storing")
      BY <1>1 DEF ShownIsStored
    <2>1. InStore(shown[p], w, unstored, e, TRUE)
      BY <1>0, <1>1 DEF ProcessInv, ShownIsStored
    <2> HIDE DEF w, e
    <2>2. Occurs(shown[p], unstored \cup {e}, w)
      BY <1>1, <1>3, <2>1, InStoreSaid
    <2> QED
      BY <1>1, <2>2 DEF InStore
  <1>12. ProcessInv(p)'
    BY <1>6, <1>9, <1>10, <1>11 DEF ProcessInv
  <1> QED
    BY <1>7, <1>8, <1>12, OthersKeepInv

\* The end of a list of texts is one.
LEMMA CutIsText ==
  ASSUME NEW s \in Texts, NEW k \in 0..Len(s)
  PROVE  SubSeq(s, k + 1, Len(s)) \in Texts
  BY DEF Texts

\* A step of one process that shortens, empties or rebuilds what it shows.
LEMMA ShownStep ==
  ASSUME DbInv, NEW p \in Processes, at[p] # "down",
         NEW t \in Texts, NEW o \in {"own", "loaded", "log"},
         UNCHANGED <<sessions, uncommitted, typed, saying, at, sessionId, logged, unstored>>,
         shown' = [shown EXCEPT ![p] = t], origin' = [origin EXCEPT ![p] = o],
         o = "own" => origin[p] = "own",
         sessionId[p] # NoSession /\ o # "log" => Occurs(t, unstored, sessions[sessionId[p]])
  PROVE  DbInv'
  <1>0. DbTypeOK /\ ProcessInv(p)
    BY DEF DbInv
  <1>1. DbTypeOK'
    BY <1>0 DEF DbTypeOK
  <1>2. shown'[p] = t /\ origin'[p] = o
    BY <1>0 DEF DbTypeOK
  <1>3. OthersStay(p)
    BY <1>0, SessionsStay DEF OthersStay, DbTypeOK
  <1>4. DownIsEmpty(p)' /\ RowsRaised(p)'
    BY <1>0 DEF ProcessInv, DownIsEmpty, RowsRaised
  <1>5. OwnIsStored(p)' /\ ShownIsStored(p)'
    BY <1>0, <1>2 DEF ProcessInv, OwnIsStored, ShownIsStored, InStore
  <1> QED
    BY <1>1, <1>3, <1>4, <1>5, OthersKeepInv DEF ProcessInv

\* A stored session is loaded, and is where the next texts go.
LEMMA LoadStep ==
  ASSUME DbInv, NEW p \in Processes, NEW s \in Stored, LoadSession(p, s)
  PROVE  DbInv'
  <1>0. DbTypeOK /\ ProcessInv(p)
    BY DEF DbInv
  <1> DEFINE w == sessions[s]
             u == uncommitted[p][s]
             t == w \o u
  <1>1. s \in DOMAIN sessions /\ s \in 1..MaxSessions /\ s \in Nat /\ w \in Texts /\ u \in Texts
    BY <1>0, SeenByIs DEF Stored
  <1>2. /\ at[p] = "prompt" /\ shown' = [shown EXCEPT ![p] = t]
        /\ sessionId' = [sessionId EXCEPT ![p] = s]
        /\ origin' = [origin EXCEPT ![p] = "loaded"]
        /\ UNCHANGED <<sessions, uncommitted, typed, saying, at, logged, unstored>>
    BY DEF LoadSession, GetSession, databaseVars
  <1>3. t \in Texts
    BY <1>1 DEF Texts
  <1>4. Occurs(t, unstored, w)
    <2>1. \A i \in DOMAIN u : u[i] \in unstored
      BY <1>0, <1>1 DEF ProcessInv, RowsRaised
    <2> HIDE DEF w, u
    <2> QED
      BY <1>1, <2>1, OccursCommitted
  <1> HIDE DEF t
  <1>5. sessionId'[p] = s /\ shown'[p] = t /\ origin'[p] = "loaded"
        /\ \A q \in Processes \ {p} : sessionId'[q] = sessionId[q] /\ shown'[q] = shown[q]
                                      /\ origin'[q] = origin[q]
    BY <1>0, <1>2 DEF DbTypeOK
  <1>6. DbTypeOK'
    <2>1. sessionId' \in [Processes -> Nat]
          /\ \A q \in Processes : sessionId'[q] # NoSession => sessionId'[q] \in DOMAIN sessions'
      BY <1>0, <1>1, <1>2, <1>5 DEF DbTypeOK
    <2>2. shown' \in [Processes -> Texts] /\ origin' \in [Processes -> {"own", "loaded", "log"}]
      BY <1>0, <1>2, <1>3 DEF DbTypeOK
    <2> QED
      BY <1>0, <1>2, <2>1, <2>2 DEF DbTypeOK
  <1>7. OthersStay(p)
    BY <1>0, <1>2, <1>5, SessionsStay DEF OthersStay
  <1>8. DownIsEmpty(p)' /\ RowsRaised(p)'
    BY <1>0, <1>2 DEF ProcessInv, DownIsEmpty, RowsRaised
  <1>9. OwnIsStored(p)'
    BY <1>5 DEF OwnIsStored
  <1>10. ShownIsStored(p)'
    BY <1>2, <1>4, <1>5 DEF ShownIsStored, InStore
  <1> QED
    BY <1>6, <1>7, <1>8, <1>9, <1>10, OthersKeepInv DEF ProcessInv

\* A name is given, and the open rows are committed.
LEMMA RenameStep ==
  ASSUME DbInv, NEW p \in Processes, Rename(p)
  PROVE  DbInv'
  <1>0. DbTypeOK /\ ProcessInv(p)
    BY DEF DbInv
  <1>1. /\ sessions' = SeenBy(p) /\ uncommitted' = [uncommitted EXCEPT ![p] = NoRows]
        /\ at[p] = "prompt" /\ sessionId[p] # NoSession
        /\ UNCHANGED <<typed, saying, shown, logged, origin, at, sessionId, unstored>>
    BY DEF Rename, CommitRows, textVars
  <1>2. /\ sessions' \in Seq(Texts) /\ DOMAIN sessions' = DOMAIN sessions
        /\ Len(sessions') = Len(sessions)
        /\ \A s \in DOMAIN sessions : Begins(sessions[s], sessions'[s])
    BY <1>0, <1>1, CommitGrows
  <1>3. uncommitted' \in [Processes -> [1..MaxSessions -> Texts]] /\ uncommitted'[p] = NoRows
        /\ \A q \in Processes \ {p} : uncommitted'[q] = uncommitted[q]
    BY <1>0, <1>1, NoRowsOpen DEF DbTypeOK
  <1>4. DbTypeOK'
    BY <1>0, <1>1, <1>2, <1>3 DEF DbTypeOK
  <1>5. OthersStay(p)
    BY <1>1, <1>2, <1>3 DEF OthersStay
  <1>6. DownIsEmpty(p)' /\ RowsRaised(p)'
    BY <1>0, <1>1, <1>3, NoRowsOpen DEF ProcessInv, DownIsEmpty, RowsRaised
  <1> DEFINE w == sessions[sessionId[p]]
             v == sessions'[sessionId[p]]
  <1>7. sessionId[p] \in DOMAIN sessions
    BY <1>0, <1>1 DEF DbTypeOK
  <1>8. w \in Texts /\ v \in Texts /\ Begins(w, v) /\ shown[p] \in Texts /\ logged[p] \in Texts
    <2>1. w \in Texts /\ shown[p] \in Texts /\ logged[p] \in Texts
      BY <1>0, <1>7 DEF DbTypeOK
    <2>2. v \in Texts
      BY <1>2, <1>7
    <2> QED
      BY <1>2, <1>7, <2>1, <2>2
  <1> HIDE DEF w, v
  <1>9. OwnIsStored(p)'
    <2> SUFFICES ASSUME origin[p] = "own"
                 PROVE  InStore(logged[p], v, unstored, saying[p], at[p] = "storing")
      BY <1>1 DEF OwnIsStored, v
    <2>1. InStore(logged[p], w, unstored, saying[p], at[p] = "storing")
      BY <1>0, <1>1 DEF ProcessInv, OwnIsStored, w
    <2> QED
      BY <1>8, <2>1, InStoreLonger
  <1>10. ShownIsStored(p)'
    <2> SUFFICES ASSUME origin[p] # "log"
                 PROVE  InStore(shown[p], v, unstored, saying[p], at[p] = "storing")
      BY <1>1 DEF ShownIsStored, v
    <2>1. InStore(shown[p], w, unstored, saying[p], at[p] = "storing")
      BY <1>0, <1>1 DEF ProcessInv, ShownIsStored, w
    <2> QED
      BY <1>8, <2>1, InStoreLonger
  <1> QED
    BY <1>4, <1>5, <1>6, <1>9, <1>10, OthersKeepInv DEF ProcessInv

\* A process ends, and its open rows with it.
LEMMA StopStep ==
  ASSUME DbInv, NEW p \in Processes, Stop(p)
  PROVE  DbInv'
  <1>0. DbTypeOK /\ ProcessInv(p)
    BY DEF DbInv
  <1>1. <<>> \in Texts
    BY DEF Texts
  <1>2. /\ at' = [at EXCEPT ![p] = "down"] /\ saying' = [saying EXCEPT ![p] = 0]
        /\ sessionId' = [sessionId EXCEPT ![p] = 0]
        /\ shown' = [shown EXCEPT ![p] = <<>>] /\ logged' = [logged EXCEPT ![p] = <<>>]
        /\ origin' = [origin EXCEPT ![p] = "own"]
        /\ uncommitted' = [uncommitted EXCEPT ![p] = NoRows]
        /\ UNCHANGED <<sessions, typed, unstored>>
    BY DEF Stop, Leave, NoMessage, NoSession
  <1>3. /\ at' \in [Processes -> {"down", "prompt", "storing", "turn"}]
        /\ saying' \in [Processes -> Nat]
        /\ origin' \in [Processes -> {"own", "loaded", "log"}]
    BY <1>0, <1>2 DEF DbTypeOK
  <1>4. shown' \in [Processes -> Texts] /\ logged' \in [Processes -> Texts]
        /\ uncommitted' \in [Processes -> [1..MaxSessions -> Texts]]
    BY <1>0, <1>1, <1>2, NoRowsOpen DEF DbTypeOK
  <1>5. sessionId' \in [Processes -> Nat] /\ sessionId'[p] = 0
        /\ \A q \in Processes : sessionId'[q] # NoSession => sessionId'[q] \in DOMAIN sessions'
    BY <1>0, <1>2 DEF DbTypeOK, NoSession
  <1>6. DbTypeOK'
    BY <1>0, <1>2, <1>3, <1>4, <1>5 DEF DbTypeOK
  <1>7. OthersStay(p)
    BY <1>0, <1>2, SessionsStay DEF OthersStay, DbTypeOK
  <1>8. shown'[p] = <<>> /\ logged'[p] = <<>> /\ uncommitted'[p] = NoRows
    BY <1>0, <1>2 DEF DbTypeOK
  <1>9. ProcessInv(p)'
    BY <1>5, <1>8, NoRowsOpen
    DEF ProcessInv, DownIsEmpty, RowsRaised, OwnIsStored, ShownIsStored, NoSession
  <1> QED
    BY <1>6, <1>7, <1>9, OthersKeepInv

\* Every step of every process keeps the invariant.
LEMMA DbStep ==
  ASSUME DbInv, [SessionDbNext]_sessionDbVars
  PROVE  DbInv'
  <1>0. DbTypeOK /\ KeepRecent \in Nat /\ \A p \in Processes : ProcessInv(p)
    BY SessionDbAssumption DEF DbInv, SessionDbAssumption
  <1>1. ASSUME NEW p \in Processes, StartProcess(p) PROVE DbInv'
    BY <1>1, StartStep
  <1>2. ASSUME NEW p \in Processes, TextTyped(p) \/ TextAnswered(p) PROVE DbInv'
    BY <1>2, ConversationStep DEF TextTyped, TextAnswered
  <1>3. ASSUME NEW p \in Processes, AddMessage(p) \/ AddMessageFails(p) PROVE DbInv'
    BY <1>3, AddMessageStep, AddMessageFailsStep
  <1>4. ASSUME NEW p \in Processes, TurnEnds(p) PROVE DbInv'
    <2>1. /\ at[p] = "turn" /\ at' = [at EXCEPT ![p] = "prompt"]
          /\ UNCHANGED <<sessions, uncommitted, typed, saying, shown, logged, origin,
                         sessionId, unstored>>
      BY <1>4 DEF TurnEnds, databaseVars, textVars
    <2>2. at' \in [Processes -> {"down", "prompt", "storing", "turn"}] /\ at'[p] = "prompt"
          /\ \A q \in Processes \ {p} : at'[q] = at[q]
      BY <1>0, <2>1 DEF DbTypeOK
    <2>3. DbTypeOK'
      BY <1>0, <2>1, <2>2 DEF DbTypeOK
    <2>4. OthersStay(p)
      BY <1>0, <2>1, <2>2, SessionsStay DEF OthersStay
    <2>5. ProcessInv(p)'
      BY <1>0, <2>1, <2>2
      DEF ProcessInv, DownIsEmpty, RowsRaised, OwnIsStored, ShownIsStored, InStore
    <2> QED
      BY <2>3, <2>4, <2>5, OthersKeepInv
  <1>5. ASSUME NEW p \in Processes, Truncate(p) PROVE DbInv'
    <2>1. PICK kept \in 0..KeepRecent :
            /\ kept < Len(shown[p])
            /\ shown' = [shown EXCEPT ![p] = SubSeq(@, Len(@) - kept + 1, Len(@))]
      BY <1>5 DEF Truncate
    <2> DEFINE k == Len(shown[p]) - kept
               t == SubSeq(shown[p], k + 1, Len(shown[p]))
    <2>2. shown[p] \in Texts /\ k \in 0..Len(shown[p])
      BY <1>0, <2>1 DEF DbTypeOK, Texts
    <2>3. /\ at[p] # "down" /\ at[p] # "storing" /\ shown' = [shown EXCEPT ![p] = t]
          /\ UNCHANGED <<sessions, uncommitted, typed, saying, at, sessionId, logged,
                         origin, unstored>>
      BY <1>5, <2>1 DEF Truncate, databaseVars
    <2>4. t \in Texts
      BY <2>2, CutIsText
    <2>5. sessionId[p] # NoSession /\ origin[p] # "log" =>
            Occurs(t, unstored, sessions[sessionId[p]])
      <3> SUFFICES ASSUME sessionId[p] # NoSession, origin[p] # "log"
                   PROVE  Occurs(t, unstored, sessions[sessionId[p]])
        OBVIOUS
      <3>1. Occurs(shown[p], unstored, sessions[sessionId[p]]) /\ sessions[sessionId[p]] \in Texts
        BY <1>0, <2>3 DEF ProcessInv, ShownIsStored, InStore, DbTypeOK
      <3> QED
        BY <2>2, <3>1, OccursCut
    <2>6. origin' = [origin EXCEPT ![p] = origin[p]] /\ origin[p] \in {"own", "loaded", "log"}
      BY <1>0, <2>3 DEF DbTypeOK
    <2> HIDE DEF t, k
    <2> QED
      BY <2>3, <2>4, <2>5, <2>6, ShownStep
  <1>6. ASSUME NEW p \in Processes, CompactFromLog(p) PROVE DbInv'
    <2>1. PICK k \in 1..Len(logged[p]) :
            shown' = [shown EXCEPT ![p] = SubSeq(logged[p], k + 1, Len(logged[p]))]
      BY <1>6 DEF CompactFromLog
    <2> DEFINE t == SubSeq(logged[p], k + 1, Len(logged[p]))
               o == IF origin[p] = "own" THEN "own" ELSE "log"
    <2>2. /\ at[p] = "prompt" /\ at[p] # "down" /\ origin' = [origin EXCEPT ![p] = o]
          /\ UNCHANGED <<sessions, uncommitted, typed, saying, at, sessionId, logged, unstored>>
      BY <1>6 DEF CompactFromLog, databaseVars
    <2>3. logged[p] \in Texts /\ k \in 0..Len(logged[p])
      BY <1>0 DEF DbTypeOK, Texts
    <2>4. t \in Texts
      BY <2>3, CutIsText
    <2>5. sessionId[p] # NoSession /\ o # "log" => Occurs(t, unstored, sessions[sessionId[p]])
      <3> SUFFICES ASSUME sessionId[p] # NoSession, origin[p] = "own"
                   PROVE  Occurs(t, unstored, sessions[sessionId[p]])
        OBVIOUS
      <3>1. Occurs(logged[p], unstored, sessions[sessionId[p]]) /\ sessions[sessionId[p]] \in Texts
        BY <1>0, <2>2 DEF ProcessInv, OwnIsStored, InStore, DbTypeOK
      <3> QED
        BY <2>3, <3>1, OccursCut
    <2>6. shown' = [shown EXCEPT ![p] = t] /\ (o = "own" => origin[p] = "own")
          /\ o \in {"own", "loaded", "log"}
      BY <2>1
    <2> HIDE DEF t, o
    <2> QED
      BY <2>2, <2>4, <2>5, <2>6, ShownStep
  <1>7. ASSUME NEW p \in Processes, ClearConversation(p) PROVE DbInv'
    <2> DEFINE o == IF origin[p] = "own" THEN "own" ELSE "loaded"
    <2>1. /\ at[p] # "down" /\ origin' = [origin EXCEPT ![p] = o]
          /\ shown' = [shown EXCEPT ![p] = <<>>]
          /\ UNCHANGED <<sessions, uncommitted, typed, saying, at, sessionId, logged, unstored>>
      BY <1>7 DEF ClearConversation, databaseVars
    <2>2. <<>> \in Texts /\ (o = "own" => origin[p] = "own") /\ o \in {"own", "loaded", "log"}
      BY DEF Texts
    <2> HIDE DEF o
    <2> QED
      BY <2>1, <2>2, OccursEmpty, ShownStep
  <1>8. ASSUME NEW p \in Processes, Rename(p) \/ Stop(p) PROVE DbInv'
    BY <1>8, RenameStep, StopStep
  <1>9. ASSUME NEW p \in Processes, NEW s \in Stored, LoadSession(p, s) PROVE DbInv'
    BY <1>9, LoadStep
  <1>10. CASE UNCHANGED sessionDbVars
    BY <1>0, <1>10
    DEF sessionDbVars, databaseVars, textVars, DbInv, DbTypeOK, ProcessInv, DownIsEmpty, RowsRaised,
        OwnIsStored, ShownIsStored
  <1> QED
    BY <1>1, <1>2, <1>3, <1>4, <1>5, <1>6, <1>7, <1>8, <1>9, <1>10 DEF SessionDbNext

\* For any processes, sessions and texts, what a process shows is in the session it
\* stores to, in order, but for the text whose add_message is due, the texts whose
\* add_message raised, and a compaction after a load (shadow_code/db.py and the turns
\* and session commands of main.py).
THEOREM WhatIsShownIsStored == SessionDbSpec => []ConversationCanBeLoaded
  <1>1. ASSUME DbInv PROVE ConversationCanBeLoaded
    <2> SUFFICES ASSUME NEW p \in Processes, sessionId[p] # NoSession, origin[p] # "log"
                 PROVE  Occurs(shown[p], unstored \cup {saying[p]}, sessions[sessionId[p]])
      BY DEF ConversationCanBeLoaded
    <2>1. InStore(shown[p], sessions[sessionId[p]], unstored, saying[p], at[p] = "storing")
      BY <1>1 DEF DbInv, ProcessInv, ShownIsStored
    <2>2. shown[p] \in Texts /\ sessions[sessionId[p]] \in Texts /\ saying[p] \in Nat
      BY <1>1 DEF DbInv, DbTypeOK
    <2> QED
      BY <2>1, <2>2, InStoreSaid
  <1>2. DbInv => ConversationCanBeLoaded
    BY <1>1
  <1> QED
    BY <1>2, DbInitHolds, DbStep, PTL DEF SessionDbSpec

-----------------------------------------------------------------------------
(***************************************************************************)
(* The legacy tools' backups, for any files and contents.                  *)
(***************************************************************************)
\* The files that have a backup are those of the session.
KeptInv ==
  /\ DOMAIN backups = Files /\ DOMAIN saved = Files
  /\ BackupNeverLost

\* Nothing was written at first.
LEMMA LegacyInitHolds == LegacyInit => KeptInv
  BY DEF LegacyInit, KeptInv, BackupNeverLost

\* Every step keeps each backup until it is restored.
LEMMA LegacyToolStep ==
  ASSUME KeptInv, [LegacyNext]_legacyVars
  PROVE  KeptInv'
  <1> USE DEF KeptInv, BackupNeverLost
  <1>1. CASE UNCHANGED <<backups, saved, where>>
    BY <1>1
  <1>2. CASE where = "prompt" /\ UNCHANGED <<backups, saved>>
    BY <1>2
  <1>3. CASE where \in {"loop", "dispatch"} /\ UNCHANGED <<backups, saved>>
    BY <1>3
  <1>4. CASE CallRaises
    BY <1>4 DEF CallRaises, Dispatching
  <1>5. ASSUME NEW f \in Files, FileBackup(f) PROVE KeptInv'
    BY <1>5 DEF FileBackup, Dispatching, Result
  <1>6. ASSUME NEW f \in Files, FileRestore(f) PROVE KeptInv'
    BY <1>6 DEF FileRestore, Dispatching, Result
  <1>7. TakePrompt => where = "prompt" /\ UNCHANGED <<backups, saved>>
    BY DEF TakePrompt
  <1>8. EngineTurn \/ ToolLimit \/ FeedBack =>
          where \in {"loop", "dispatch"} /\ UNCHANGED <<backups, saved>>
    BY DEF EngineTurn, ToolLimit, FeedBack
  <1>9. CallFails \/ MultiRead \/ DeclineCommand \/ Bash \/ ChangeDirectory \/ DirectoryRemoved =>
          UNCHANGED <<backups, saved, where>>
    BY DEF CallFails, MultiRead, DeclineCommand, Bash, ChangeDirectory, DirectoryRemoved, Result,
           loopVars
  <1>10. ASSUME NEW f \in Files, ReadFile(f) \/ WriteFileTool(f) \/ AppendFile(f)
                                 \/ EditFile(f) \/ OutsideChange(f)
         PROVE  UNCHANGED <<backups, saved, where>>
    <2>1. CASE ReadFile(f)
      BY <2>1 DEF ReadFile, Result
    <2>2. CASE WriteFileTool(f)
      BY <2>2 DEF WriteFileTool, WriteInPlace, Result
    <2>3. CASE AppendFile(f)
      BY <2>3 DEF AppendFile, Result
    <2>4. CASE EditFile(f)
      BY <2>4 DEF EditFile, WriteInPlace, EditBinary, Result
    <2>5. CASE OutsideChange(f)
      BY <2>5 DEF OutsideChange, loopVars
    <2> QED
      BY <1>10, <2>1, <2>2, <2>3, <2>4, <2>5
  <1>11. CASE UNCHANGED legacyVars
    BY <1>1, <1>11 DEF legacyVars
  <1> HIDE DEF KeptInv
  <1> QED
    BY <1>1, <1>2, <1>3, <1>4, <1>5, <1>6, <1>7, <1>8, <1>9, <1>10, <1>11 DEF LegacyNext

\* For any files, contents and order of calls, what file_backup keeps is there until
\* file_restore has brought it back (shadow_code/tools/file_backup.py).
THEOREM BackupsSurviveFailures == LegacySpec => []BackupNeverLost
  <1>1. LegacySpec => []KeptInv
    BY LegacyInitHolds, LegacyToolStep, PTL DEF LegacySpec
  <1>2. KeptInv => BackupNeverLost
    BY DEF KeptInv
  <1> QED
    BY <1>1, <1>2, PTL
=============================================================================
