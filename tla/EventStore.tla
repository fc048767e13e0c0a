----------------------------- MODULE EventStore -----------------------------
(***************************************************************************)
(* The event database (shadow_code/events.py) as the processes that open   *)
(* it share it: each migrates the schema when it opens the file, appends   *)
(* groups of events in one transaction each, imports a legacy session, and *)
(* may be killed at any step.                                              *)
(*                                                                         *)
(* Python's sqlite3 opens a transaction for an INSERT and not for DDL, so  *)
(* each statement of a migration is committed by itself.  AUTOINCREMENT    *)
(* draws a number for an ignored row too, and gives it back on rollback.   *)
(***************************************************************************)
EXTENDS Naturals, Sequences

CONSTANTS
  Clients,        \* the processes that open the store
  MaxGroupSize,   \* bound: events of one group
  MaxGroups,      \* bound: groups begun
  MaxLegacy,    \* bound: messages of the legacy session
  MaxKills        \* bound: processes killed

ASSUME StoreAssumption ==
  {MaxGroupSize, MaxGroups, MaxLegacy, MaxKills} \subseteq Nat

SchemaVersion == 1
Nobody == "nobody"

VARIABLES
  schema,     \* the objects of the database
  version,    \* the largest version recorded in schema_migrations
  rows,       \* committed events, by number
  counter,    \* the last number AUTOINCREMENT gave
  client,     \* what each process is doing
  writer,     \* who holds the write lock
  toInsert,   \* the writer's events still to insert
  inserted,   \* those of its transaction
  drawn,      \* numbers drawn in it
  legacy,     \* messages in the legacy database
  kills,
  groups      \* ghost: the groups begun, as sets of event ids

storeVars == <<schema, version, rows, counter, client, writer, toInsert, inserted, drawn,
               legacy, kills, groups>>
transaction == <<writer, toInsert, inserted, drawn>>
contents == <<rows, counter, transaction, legacy, groups>>

StoreInit ==
  /\ schema = {} /\ version = 0
  /\ rows = {} /\ counter = 0
  /\ client = [p \in Clients |-> "closed"]
  /\ writer = Nobody /\ toInsert = <<>> /\ inserted = {} /\ drawn = 0
  /\ legacy = 1 /\ kills = 0 /\ groups = <<>>

-----------------------------------------------------------------------------
(* EventStore.__init__ and _migrate.                                       *)

Proceed(p, place) == client' = [client EXCEPT ![p] = place]

OpenStore(p) ==
  /\ client[p] = "closed"
  /\ schema' = schema \cup {"schema_migrations"}
  /\ Proceed(p, "opened")
  /\ UNCHANGED <<version, contents, kills>>

ReadVersion(p) ==
  /\ client[p] = "opened"
  /\ Proceed(p, IF version < SchemaVersion THEN "table" ELSE "ready")
  /\ UNCHANGED <<schema, version, contents, kills>>

\* A statement that finds its object there fails, and the store with it.
Create(p, place, object, then) ==
  /\ client[p] = place /\ writer = Nobody
  /\ IF object \in schema
     THEN Proceed(p, "failed") /\ UNCHANGED schema
     ELSE Proceed(p, then) /\ schema' = schema \cup {object}
  /\ UNCHANGED <<version, contents, kills>>

CreateTable(p) == Create(p, "table", "events", "index")
CreateIndex(p) == Create(p, "index", "idx_events_session", "record")

RecordVersion(p) ==
  /\ client[p] = "record" /\ writer = Nobody
  /\ version' = SchemaVersion
  /\ Proceed(p, "ready")
  /\ UNCHANGED <<schema, contents, kills>>

\* The session goes on without a store.
GoOn(p) ==
  /\ client[p] = "failed"
  /\ Proceed(p, "without")
  /\ UNCHANGED <<schema, version, contents, kills>>

-----------------------------------------------------------------------------
(* append_group; append is a group of one.                                 *)

BeginGroup(p, ids) ==
  /\ client[p] = "ready"
  /\ writer = Nobody /\ writer' = p
  /\ toInsert' = ids /\ inserted' = {} /\ drawn' = 0
  /\ groups' = Append(groups, {ids[i] : i \in DOMAIN ids})
  /\ UNCHANGED <<schema, version, rows, counter, client, legacy, kills>>

AppendGroup(p) ==
  /\ Len(groups) < MaxGroups
  /\ \E n \in 1..MaxGroupSize :
       BeginGroup(p, [i \in 1..n |-> <<"event", Len(groups), i>>])

\* import_legacy_session: the ids follow from the rows that are copied.
ImportLegacy(p) ==
  /\ Len(groups) < MaxGroups
  /\ BeginGroup(p, [i \in 1..legacy + 1 |-> <<"legacy", 0, i>>])

Ids(events) == {e.id : e \in events}

\* INSERT OR IGNORE
Insert_Commits ==
  LET id == Head(toInsert) IN
  /\ writer # Nobody /\ toInsert # <<>>
  /\ toInsert' = Tail(toInsert)
  /\ counter' = counter + 1
  /\ rows' = IF id \in Ids(rows) THEN rows ELSE rows \cup {[seq |-> counter', id |-> id]}
  /\ UNCHANGED <<schema, version, client, writer, inserted, drawn, legacy, kills, groups>>

Insert ==
  LET id == Head(toInsert) IN
  /\ writer # Nobody /\ toInsert # <<>>
  /\ toInsert' = Tail(toInsert)
  /\ drawn' = drawn + 1
  /\ inserted' = IF id \in Ids(rows \cup inserted)
                 THEN inserted
                 ELSE inserted \cup {[seq |-> counter + drawn', id |-> id]}
  /\ UNCHANGED <<schema, version, rows, counter, client, writer, legacy, kills, groups>>

EndTransaction == writer' = Nobody /\ toInsert' = <<>> /\ inserted' = {} /\ drawn' = 0

CommitGroup ==
  /\ writer # Nobody /\ toInsert = <<>>
  /\ rows' = rows \cup inserted
  /\ counter' = counter + drawn
  /\ EndTransaction
  /\ UNCHANGED <<schema, version, client, legacy, kills, groups>>

\* An error of SQLite or a payload of the wrong model: append_failed, or the
\* warning _emit makes of it.
RollBackGroup ==
  /\ writer # Nobody
  /\ EndTransaction
  /\ UNCHANGED <<schema, version, rows, counter, client, legacy, kills, groups>>

KillClient(p) ==
  /\ client[p] # "closed" /\ kills < MaxKills
  /\ kills' = kills + 1
  /\ Proceed(p, "closed")
  /\ IF writer = p THEN EndTransaction ELSE UNCHANGED transaction
  /\ UNCHANGED <<schema, version, rows, counter, legacy, groups>>

LegacyMessage ==
  /\ legacy < MaxLegacy
  /\ legacy' = legacy + 1
  /\ UNCHANGED <<schema, version, rows, counter, client, transaction, kills, groups>>

StoreNext ==
  \/ \E p \in Clients :
       \/ OpenStore(p) \/ ReadVersion(p) \/ CreateTable(p) \/ CreateIndex(p) \/ RecordVersion(p)
       \/ GoOn(p) \/ AppendGroup(p) \/ ImportLegacy(p) \/ KillClient(p)
  \/ Insert \/ CommitGroup \/ RollBackGroup \/ LegacyMessage

StoreSpec == StoreInit /\ [][StoreNext]_storeVars

-----------------------------------------------------------------------------
\* events.py "Append events in ONE transaction; a crash persists none of them":
\* no kill, failure or other process leaves a part of a group in the log, and
\* the numbers of a group's own events are not shared with another's.
GroupsAreWhole ==
  /\ \A i \in DOMAIN groups : LET there == groups[i] \cap Ids(rows) IN
       there = {} \/ there = groups[i] \/ \E j \in 1..i - 1 : there \subseteq groups[j]
  /\ \A e, f \in rows : e.seq = f.seq \/ e.id = f.id => e = f

\* verify over the whole log: "missing seq N: event log has a gap".
Gaps == {n \in 1..counter : /\ \A e \in rows : e.seq # n
                            /\ \E e, f \in rows : e.seq < n /\ n < f.seq}

\* A log that only this code has written verifies.
OwnLogVerifies == Gaps = {}
=============================================================================
