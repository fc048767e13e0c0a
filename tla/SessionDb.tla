----------------------------- MODULE SessionDb ------------------------------
(***************************************************************************)
(* The database of sessions (shadow_code/db.py) under the processes that   *)
(* share it: each opens a session of its own, stores what is typed and     *)
(* answered as it goes, and may name, list and load any stored session.    *)
(*                                                                         *)
(* A message is a text typed or answered, by its number; tool calls, their *)
(* results and summaries are never stored here.  A text is added to the    *)
(* conversation and the log first and stored after that; the call of the   *)
(* database may fail in between, and the session goes on without the text. *)
(* A call inserts and commits on the connection of its process: a failing  *)
(* one may leave its row in the transaction, which no other process can    *)
(* write beside until the next call commits it or the connection is gone.  *)
(***************************************************************************)
EXTENDS Naturals, Sequences, FiniteSets

CONSTANTS
  Processes,    \* the processes that run the program
  MaxSessions,  \* bound: sessions created
  MaxTyped,     \* bound: messages typed and answered
  MaxRaises,    \* bound: of those, the ones whose storing raises
  KeepRecent    \* KEEP_RECENT_MESSAGES

ASSUME SessionDbAssumption == {MaxSessions, MaxTyped, MaxRaises, KeepRecent} \subseteq Nat

NoSession == 0

VARIABLES
  sessions,    \* the stored sessions: their messages, in the order of their ids
  uncommitted, \* each process: the rows of its open transaction, by their session
  typed,       \* messages so far
  at,          \* each process: "down", "prompt", "storing" a text, or "turn"
  saying,      \* the text being stored
  sessionId,   \* rt.session_id; NoSession without a database
  shown,       \* the texts of its conversation
  logged,      \* the texts of its event log, which /load does not change
  origin,      \* ghost: what it shows is its "own", "loaded", or the log's after a load
  unstored     \* ghost: the texts whose storing raised a DatabaseError

databaseVars == <<sessions, uncommitted>>
textVars == <<typed, saying, shown, logged, origin>>
sessionDbVars == <<databaseVars, textVars, at, sessionId, unstored>>

NoMessage == 0
NoRows == [s \in 1..MaxSessions |-> <<>>]

SessionDbInit ==
  /\ sessions = <<>> /\ typed = 0 /\ unstored = {}
  /\ uncommitted = [p \in Processes |-> NoRows]
  /\ at = [p \in Processes |-> "down"]
  /\ saying = [p \in Processes |-> NoMessage]
  /\ sessionId = [p \in Processes |-> NoSession]
  /\ shown = [p \in Processes |-> <<>>] /\ logged = shown
  /\ origin = [p \in Processes |-> "own"]

Stored == DOMAIN sessions

\* The messages a connection reads: those committed, and its own rows.
GetSession(p, s) == IF s \in Stored THEN sessions[s] \o uncommitted[p][s] ELSE <<>>

\* SQLite lets one connection write at a time.
MayWrite(p) == \A q \in Processes \ {p} : uncommitted[q] = NoRows

\* A transaction ends: the sessions are now as its connection read them, with
\* what it writes last.
SeenBy(p) == [s \in Stored |-> GetSession(p, s)]
CommitRows(p, rows) ==
  /\ MayWrite(p)
  /\ sessions' = rows
  /\ uncommitted' = [uncommitted EXCEPT ![p] = NoRows]

Leave(p) ==
  /\ at' = [at EXCEPT ![p] = "down"]
  /\ saying' = [saying EXCEPT ![p] = NoMessage]
  /\ sessionId' = [sessionId EXCEPT ![p] = NoSession]
  /\ shown' = [shown EXCEPT ![p] = <<>>]
  /\ logged' = [logged EXCEPT ![p] = <<>>]
  /\ origin' = [origin EXCEPT ![p] = "own"]
  /\ uncommitted' = [uncommitted EXCEPT ![p] = NoRows]

\* create_session, or a warning and a session that stores nothing.
StartProcess(p) ==
  /\ at[p] = "down"
  /\ at' = [at EXCEPT ![p] = "prompt"]
  /\ \/ /\ MayWrite(p) /\ Len(sessions) < MaxSessions
        /\ sessions' = Append(sessions, <<>>)
        /\ sessionId' = [sessionId EXCEPT ![p] = Len(sessions')]
     \/ UNCHANGED <<sessions, sessionId>>
  /\ UNCHANGED <<uncommitted, textVars, unstored>>

\* A text joins the conversation, and the log unless its append fails with a
\* warning; the database comes next.
AddToConversation(p, from) ==
  /\ at[p] = from /\ at' = [at EXCEPT ![p] = "storing"]
  /\ typed < MaxTyped /\ typed' = typed + 1
  /\ saying' = [saying EXCEPT ![p] = typed']
  /\ shown' = [shown EXCEPT ![p] = Append(@, typed')]
  /\ logged' \in {logged, [logged EXCEPT ![p] = Append(@, typed')]}
  /\ UNCHANGED <<databaseVars, sessionId, origin, unstored>>

TextTyped(p) == AddToConversation(p, "prompt")

\* A turn of legacy tool calls goes on after an answer, and may have another.
TextAnswered(p) == AddToConversation(p, "turn")

\* add_message: the row is inserted and the transaction committed.
AddMessage(p) ==
  /\ at[p] = "storing" /\ at' = [at EXCEPT ![p] = "turn"]
  /\ saying' = [saying EXCEPT ![p] = NoMessage]
  /\ \/ sessionId[p] = NoSession /\ UNCHANGED <<sessions, uncommitted>>
     \/ /\ sessionId[p] # NoSession
        /\ CommitRows(p, [SeenBy(p) EXCEPT ![sessionId[p]] = Append(@, saying[p])])
  /\ UNCHANGED <<typed, sessionId, shown, logged, origin, unstored>>

\* add_message raises, which ends the turn, and in the TUI only that: the row
\* was not inserted, is left in a transaction nobody rolls back, or SQLite
\* rolled the transaction back.
AddMessageFails(p) ==
  /\ at[p] = "storing" /\ at' = [at EXCEPT ![p] = "prompt"]
  /\ sessionId[p] # NoSession /\ Cardinality(unstored) < MaxRaises
  /\ saying' = [saying EXCEPT ![p] = NoMessage]
  /\ unstored' = unstored \cup {saying[p]}
  /\ \/ UNCHANGED uncommitted
     \/ /\ MayWrite(p)
        /\ uncommitted' = [uncommitted EXCEPT ![p][sessionId[p]] = Append(@, saying[p])]
     \/ uncommitted' = [uncommitted EXCEPT ![p] = NoRows]
  /\ UNCHANGED <<sessions, typed, sessionId, shown, logged, origin>>

\* The answer is stored, or the turn was interrupted, failed or ran out of
\* budget and has none.
TurnEnds(p) ==
  /\ at[p] = "turn" /\ at' = [at EXCEPT ![p] = "prompt"]
  /\ UNCHANGED <<databaseVars, textVars, sessionId, unstored>>

\* The conversation is cut to its last messages before it overflows, or by a
\* /compact without a log: at most KeepRecent of them are texts.
Truncate(p) ==
  /\ at[p] \in {"turn", "prompt"}
  /\ \E kept \in 0..KeepRecent :
       /\ kept < Len(shown[p])
       /\ shown' = [shown EXCEPT ![p] = SubSeq(@, Len(@) - kept + 1, Len(@))]
  /\ UNCHANGED <<databaseVars, typed, saying, logged, origin, at, sessionId, unstored>>

\* /compact: a snapshot covers the first texts of the event log, and the
\* conversation is built again from the log - whatever was loaded before.
CompactFromLog(p) ==
  /\ at[p] = "prompt" /\ logged[p] # <<>>
  /\ \E covered \in 1..Len(logged[p]) :
       shown' = [shown EXCEPT ![p] = SubSeq(logged[p], covered + 1, Len(logged[p]))]
  /\ origin' = [origin EXCEPT ![p] = IF @ = "own" THEN "own" ELSE "log"]
  /\ UNCHANGED <<databaseVars, typed, saying, logged, at, sessionId, unstored>>

\* /clear: the conversation only; the session goes on.
ClearConversation(p) ==
  /\ at[p] = "prompt" /\ shown[p] # <<>>
  /\ shown' = [shown EXCEPT ![p] = <<>>]
  /\ origin' = [origin EXCEPT ![p] = IF @ = "own" THEN "own" ELSE "loaded"]
  /\ UNCHANGED <<databaseVars, typed, saying, logged, at, sessionId, unstored>>

\* /load: the conversation of a stored session, which is now also where the
\* next messages go.
LoadSession_KeepsSession(p, s) ==
  /\ at[p] = "prompt" /\ sessionId[p] # NoSession /\ s \in Stored
  /\ shown' = [shown EXCEPT ![p] = GetSession(p, s)]
  /\ origin' = [origin EXCEPT ![p] = "loaded"]
  /\ UNCHANGED <<databaseVars, typed, saying, logged, at, sessionId, unstored>>

LoadSession(p, s) ==
  /\ at[p] = "prompt" /\ sessionId[p] # NoSession /\ s \in Stored
  /\ shown' = [shown EXCEPT ![p] = GetSession(p, s)]
  /\ sessionId' = [sessionId EXCEPT ![p] = s]
  /\ origin' = [origin EXCEPT ![p] = "loaded"]
  /\ UNCHANGED <<databaseVars, typed, saying, logged, at, unstored>>

\* /save: a name, which nothing here reads, and with it the commit of whatever
\* the connection has open.
Rename(p) ==
  /\ at[p] = "prompt" /\ sessionId[p] # NoSession
  /\ CommitRows(p, SeenBy(p))
  /\ UNCHANGED <<textVars, at, sessionId, unstored>>

\* /exit, the end of the process, or a DatabaseError that ends it: any of a
\* line session, and that of a command in the TUI.  Closing commits nothing.
Stop(p) ==
  /\ at[p] # "down"
  /\ Leave(p)
  /\ UNCHANGED <<sessions, typed, unstored>>

SessionDbNext ==
  \E p \in Processes :
    \/ StartProcess(p) \/ TextTyped(p) \/ TextAnswered(p) \/ AddMessage(p)
    \/ AddMessageFails(p) \/ TurnEnds(p) \/ Truncate(p) \/ CompactFromLog(p)
    \/ ClearConversation(p) \/ Rename(p) \/ Stop(p)
    \/ \E s \in Stored : LoadSession(p, s)

SessionDbSpec == SessionDbInit /\ [][SessionDbNext]_sessionDbVars

-----------------------------------------------------------------------------
\* The texts of part, without those of gone, are in whole, in the same order.
Occurs(part, gone, whole) ==
  \E f \in [DOMAIN part -> DOMAIN whole \cup {0}] :
    \A i \in DOMAIN part :
      part[i] \notin gone =>
        /\ f[i] # 0 /\ whole[f[i]] = part[i]
        /\ \A j \in 1..i - 1 : f[j] < f[i]

\* What the model is shown can be loaded again: the texts of the conversation
\* are in the session it is stored to, in the same order, whatever was loaded,
\* cleared, cut or compacted before and whoever else writes to the same session.
\* Not there yet is the text whose add_message is due, and those whose
\* add_message raised need never be; and a /compact after a /load brings back
\* the texts of the log.
ConversationCanBeLoaded ==
  \A p \in Processes :
    sessionId[p] # NoSession /\ origin[p] # "log" =>
      Occurs(shown[p], unstored \cup {saying[p]}, sessions[sessionId[p]])
=============================================================================
