------------------------------ MODULE History -------------------------------
(***************************************************************************)
(* The two memories of a session (shadow_code/main.py, conversation.py,    *)
(* context_compaction.py): the event log, to which events are only ever    *)
(* added, and the conversation the model is sent, which turns extend,      *)
(* /clear and /load replace, the automatic tiers shorten and /compact      *)
(* rebuilds from the log.  A message knows the events it shows; content    *)
(* that no event holds is marked Unlogged.                                 *)
(***************************************************************************)
EXTENDS EventLog

CONSTANTS
  MaxEvents,      \* bound: length of the log
  MaxBatch,       \* bound: calls of one round
  Budget,         \* tokens one /compact may summarize
  KeepResults,    \* KEEP_RECENT_RESULTS
  KeepMessages    \* KEEP_RECENT_MESSAGES

ASSUME HistoryAssumption ==
  {MaxEvents, MaxBatch, Budget, KeepResults, KeepMessages} \subseteq Nat \ {0}

VARIABLES
  log,        \* the events of this session
  messages,   \* conv.messages
  phase,      \* between turns, in a turn, or at its end
  intact,     \* ghost: no append has failed
  mirrored,   \* ghost: the conversation is what the log says
  summaries   \* ghost: automatic compactions that succeeded

historyVars == <<log, messages, phase, intact, mirrored, summaries>>

HistoryInit ==
  /\ log = <<Event("session_started", NoCall)>>
  /\ messages = <<>>
  /\ phase = "idle"
  /\ intact = TRUE /\ mirrored = TRUE
  /\ summaries = 0

Unlogged == 0
\* An append fails; after one failure the store is taken to work.
AppendFails == intact /\ intact' = FALSE /\ mirrored' = FALSE
Room(n) == Len(log) + n <= MaxEvents /\ Len(messages) < MaxEvents

\* _emit: the append of an event may fail, which is a warning.
Say(type, role, next) ==
  /\ Room(1)
  /\ \/ /\ log' = Append(log, Event(type, NoCall))
        /\ messages' = Append(messages, Message(role, <<Len(log')>>))
        /\ UNCHANGED <<intact, mirrored>>
     \/ /\ messages' = Append(messages, Message(role, <<Unlogged>>))
        /\ AppendFails
        /\ UNCHANGED log
  /\ phase' = next
  /\ UNCHANGED summaries

UserMessage == phase = "idle" /\ Say("user_message", "user", "turn")
AssistantText == phase = "turn" /\ Say("assistant_text", "assistant", "ending")

\* One round of the engine.  The proposals are appended together, then each
\* call is answered until the batch ends or the turn is cancelled in it; any
\* append may fail.  Ids are numbered per stream, or sent - and then perhaps
\* repeated - by the server.
CallIds == {[i \in 1..MaxBatch |-> i], [i \in 1..MaxBatch |-> 1]}

Denied(id) == <<Event("policy_decision", id), Event("approval_denied", id)>>
Answer(id, denied) ==
  (IF denied THEN Denied(id) ELSE <<>>) \o <<Event("tool_result", id)>>

Proposals == 0    \* what the store lost: the proposals, one answer, or
Nothing == -1

Round(ids, size, denied, lost) ==
  LET answered == Len(denied)
      proposals == [i \in 1..size |-> Event("tool_call_proposed", ids[i])]
      answers == [i \in 1..answered |-> IF i = lost THEN <<>> ELSE Answer(ids[i], denied[i])]
      shown == IF lost = Proposals THEN <<>> ELSE proposals
      Place(i) == Len(log) + Len(shown) + Len(FlattenSeq(SubSeq(answers, 1, i)))
      call == Message("tool_calls",
                [i \in 1..size |-> IF lost = Proposals THEN Unlogged ELSE Len(log) + i])
      results == [i \in 1..answered |->
                    Message("tool", <<IF i = lost THEN Unlogged ELSE Place(i)>>)]
  IN /\ phase = "turn" /\ Room(size + Len(FlattenSeq(answers)))
     /\ log' = log \o shown \o FlattenSeq(answers)
     /\ messages' = Append(messages, call) \o results
     /\ IF lost = Nothing THEN UNCHANGED <<intact, mirrored>> ELSE AppendFails
     /\ phase' \in IF answered = size THEN {"turn", "ending"} ELSE {"ending"}
     /\ UNCHANGED summaries

EngineRound ==
  \E ids \in CallIds, size \in 1..MaxBatch : \E answered \in 0..size :
    \E denied \in [1..answered -> BOOLEAN], lost \in Nothing..answered :
      Round(ids, size, denied, lost)

\* A turn also ends without a text: cancelled, failed, out of budget, empty.
NoText ==
  /\ phase = "turn"
  /\ phase' = "ending"
  /\ UNCHANGED <<log, messages, intact, mirrored, summaries>>

-----------------------------------------------------------------------------
\* The automatic tiers, by how full the context is after the turn.
ClearOldToolResults(conv) ==
  LET tools == Seqs(conv, {i \in DOMAIN conv : conv[i].role = "tool"})
      old == {tools[k] : k \in 1..(Len(tools) - KeepResults)}
  IN [i \in DOMAIN conv |-> IF i \in old THEN Message("user", <<>>) ELSE conv[i]]

LastMessages(conv) == SubSeq(conv, Len(conv) - KeepMessages + 1, Len(conv))

ApplySummary(conv) ==
  IF Len(conv) <= KeepMessages THEN conv
  ELSE <<Message("summary", <<>>)>> \o LastMessages(conv)

EmergencyTruncate(conv) ==
  IF Len(conv) <= KeepMessages THEN conv
  ELSE <<Message("truncated", <<>>)>> \o LastMessages(conv)

\* turn_completed is recorded, then the tiers are tried one after the other.
\* The token count is not taken again in between.
TurnCompleted ==
  /\ phase = "ending" /\ Room(1)
  /\ \/ log' = Append(log, Event("turn_completed", NoCall)) /\ UNCHANGED intact
     \/ intact /\ intact' = FALSE /\ UNCHANGED log
  /\ phase' = "idle"
  /\ \E full \in {"no", "clearing", "compaction", "emergency"}, summarized \in BOOLEAN :
       LET cleared == IF full = "no" THEN messages ELSE ClearOldToolResults(messages)
           compacts == full \in {"compaction", "emergency"} /\ summarized
           compacted == IF compacts THEN ApplySummary(cleared) ELSE cleared
           kept == IF full = "emergency" THEN EmergencyTruncate(compacted) ELSE compacted
       IN /\ messages' = kept
          /\ mirrored' = (mirrored /\ kept = messages)
          /\ summaries' = IF compacts /\ compacted # cleared THEN summaries + 1 ELSE summaries

-----------------------------------------------------------------------------
\* Commands between turns.
Clear ==
  /\ phase = "idle"
  /\ messages' = <<>>
  /\ mirrored' = FALSE
  /\ UNCHANGED <<log, phase, intact, summaries>>

\* /load: the user and assistant messages of a saved session.
Load ==
  /\ phase = "idle"
  /\ messages' = <<Message("user", <<Unlogged>>), Message("assistant", <<Unlogged>>)>>
  /\ mirrored' = FALSE
  /\ UNCHANGED <<log, phase, intact, summaries>>

Eligible ==
  LET groups == GroupEvents(log, All(log))
      Beyond(group) == SeqStart(group) > CoveredEnd(log)
      Snapshot(group) == log[SeqStart(group)].type = "context_snapshot"
  IN Select(groups, {g \in Range(groups) : Beyond(g) /\ ~Snapshot(g)})

\* A snapshot reaches from the first event of its groups to their last.
BuildSnapshot(groups) ==
  LET starts == {SeqStart(groups[g]) : g \in DOMAIN groups}
      ends == {SeqEnd(groups[g]) : g \in DOMAIN groups}
  IN SnapshotEvent(CHOOSE s \in starts : \A t \in starts : s <= t,
                   CHOOSE e \in ends : \A f \in ends : f <= e)

\* What validation asks of the range; what it asks of the summary's text is left
\* to the model's choice.
ValidSnapshot(snapshot, groups) ==
  /\ groups # <<>>
  /\ snapshot.from <= snapshot.to
  /\ \A g \in DOMAIN groups : snapshot.from <= SeqStart(groups[g]) /\ SeqEnd(groups[g]) <= snapshot.to

\* It is added beside the active one, never over it.
AppendSnapshot(snapshot) ==
  /\ Snapshots(log) # <<>> => ~Overlap(log[ActiveSnapshot(log)], snapshot)
  /\ log' = Append(log, snapshot)

\* /compact.  The model's summary or its validation may fail, and so may the
\* append: then nothing changes.
Compact ==
  LET selected == SelectClosedRange(Eligible, Budget)
      snapshot == BuildSnapshot(selected)
  IN /\ phase = "idle" /\ Room(1)
     /\ selected # <<>>
     /\ ValidSnapshot(snapshot, selected)
     /\ AppendSnapshot(snapshot)
     /\ messages' = ProviderMessages(log')
     /\ mirrored' = TRUE
     /\ UNCHANGED <<phase, intact, summaries>>

HistoryNext ==
  \/ UserMessage \/ AssistantText \/ EngineRound \/ NoText \/ TurnCompleted
  \/ Clear \/ Load \/ Compact

HistorySpec == HistoryInit /\ [][HistoryNext]_historyVars

-----------------------------------------------------------------------------
\* What is read off the log never shows a tool result without its proposal,
\* wherever /compact has cut it and however emergency_reduce thins it out.
NoOrphanedResult(shown) ==
  \A k \in DOMAIN shown : shown[k].role = "tool" =>
    \E j \in 1..(k - 1), i \in 1..Len(log) :
      /\ shown[j].role = "tool_calls" /\ i \in Range(shown[j].ids)
      /\ log[i].call = log[shown[k].ids[1]].call

ResultsFollowProposals ==
  intact =>
    /\ Unproposed(log) = {}
    /\ NoOrphanedResult(ProviderMessages(log))
    /\ \A keep \in 0..2 : NoOrphanedResult(EmergencyReduce(log, keep))

\* Event i answers the proposal p: behind it come the rest of the round's
\* proposals, then answers only.  A stray result answers none, because the store
\* lost its round's proposals.
Answers(p, i) ==
  /\ log[p] = Event("tool_call_proposed", log[i].call)
  /\ \E m \in p..(i - 1) : /\ \A z \in p..m : log[z].type = "tool_call_proposed"
                           /\ \A z \in (m + 1)..i : log[z].type \in CallRefTypes
Stray(i) == log[i].type = "tool_result" /\ \A p \in 1..(i - 1) : ~Answers(p, i)

\* The projection is complete: every event of the conversation is covered by
\* a snapshot or shown, never both and never twice, in the order of the log.
\* Only a stray result may be neither: a group of an older call of its id, which
\* a snapshot covers, can have taken it.
CoveredOrShown ==
  LET projection == ProjectEvents(log, After(log, CoveredEnd(log)))
      ids == FlattenSeq([k \in DOMAIN projection |-> projection[k].ids])
      provider == ProviderMessages(log)
      Covered(i) == \E s \in Range(Snapshots(log)) : log[s].from <= i /\ i <= log[s].to
      Shown(i) == \E k \in DOMAIN provider : i \in Range(provider[k].ids)
  IN /\ \A i \in DOMAIN log :
          RoleOf(log[i].type) # "silent" \/ log[i].type = "tool_call_proposed"
            => /\ ~(Covered(i) /\ Shown(i))
               /\ Covered(i) \/ Shown(i) \/ (~intact /\ Stray(i))
     /\ \A j, k \in DOMAIN ids : j # k => ids[j] # ids[k]

\* As long as no append failed and nothing replaced or shortened it, the live
\* conversation is what the log projects to - also after cancelled rounds,
\* repeated ids and compactions.
ConversationMirrorsLog == mirrored => messages = ProviderMessages(log)

\* Conversation: emergency truncation is the "fallback if compaction fails":
\* the summary of a compaction that succeeded is in the conversation.
SummarySurvives ==
  [][summaries' > summaries =>
       \E k \in DOMAIN messages' : messages'[k].role = "summary"]_historyVars
=============================================================================
