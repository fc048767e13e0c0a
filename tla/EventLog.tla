------------------------------ MODULE EventLog ------------------------------
(***************************************************************************)
(* What shadow_code reads off one session of the event log: causal groups  *)
(* and the closed range /compact takes of them (context_compaction.py),    *)
(* the messages the log projects to, and its integrity (events.py).        *)
(*                                                                         *)
(* A log is a sequence of events, an event's place in it its seq and its   *)
(* id.  An event has a type, the call id it refers to, and, if it is a     *)
(* snapshot, the range it covers; texts are left out, so a message is its  *)
(* role and the events it shows.                                           *)
(***************************************************************************)
EXTENDS Integers, Sequences, FiniteSets, SequencesExt, FiniteSetsExt, Selection

NoCall == 0
CallRefTypes == {"policy_decision", "approval_denied", "tool_result"}
TerminalTypes == {"tool_result", "approval_denied"}

Event(type, call) == [type |-> type, call |-> call, from |-> 0, to |-> 0]
SnapshotEvent(from, to) ==
  [type |-> "context_snapshot", call |-> NoCall, from |-> from, to |-> to]

All(log) == [i \in DOMAIN log |-> i]
Seqs(log, S) == Select(All(log), S)
After(log, seq) == Seqs(log, {i \in DOMAIN log : i > seq})

-----------------------------------------------------------------------------
\* group_events, over the events with the given seqs.  A group is open while
\* its call id is looked up: a new proposal closes the finished ones and
\* takes over the entry of its own id.
Singleton(i) == [ids |-> <<i>>, call |-> NoCall, terminal |-> TRUE, open |-> FALSE]
Chain(i, call) == [ids |-> <<i>>, call |-> call, terminal |-> FALSE, open |-> TRUE]

AddToGroups(log, groups, i) ==
  LET event == log[i]
      OfCall(g) == groups[g].open /\ groups[g].call = event.call
      Close(group) == [group EXCEPT !.open = @ /\ ~group.terminal /\ group.call # event.call]
      Join(group) == [group EXCEPT !.ids = Append(@, i),
                                   !.terminal = @ \/ event.type \in TerminalTypes]
  IN CASE event.type = "tool_call_proposed" ->
            Append([g \in DOMAIN groups |-> Close(groups[g])], Chain(i, event.call))
       [] event.type \in CallRefTypes /\ (\E g \in DOMAIN groups : OfCall(g)) ->
            [g \in DOMAIN groups |-> IF OfCall(g) THEN Join(groups[g]) ELSE groups[g]]
       [] OTHER -> Append(groups, Singleton(i))

GroupEvents(log, seqs) ==
  LET Add(groups, i) == AddToGroups(log, groups, i)
  IN  FoldLeft(Add, <<>>, seqs)

SeqStart(group) == Head(group.ids)
SeqEnd(group) == Last(group.ids)
Tokens(group) == Len(group.ids)    \* the estimate grows with the payloads

\* select_closed_range: the longest prefix that splits no overlapping groups,
\* holds no pending one and fits the budget.
Spent(groups) == FoldLeft(LAMBDA sum, g : sum + Tokens(g), 0, groups)
Fits(groups, budget) ==
  Spent(groups) <= budget /\ \A i \in DOMAIN groups : groups[i].terminal

SelectClosedRange_Splits(groups, budget) ==
  LET Whole(k) == Fits(SubSeq(groups, 1, k), budget)
  IN SubSeq(groups, 1, Max({k \in 0..Len(groups) : Whole(k)}))

SelectClosedRange(groups, budget) ==
  LET Closed(k) == \A i \in 1..k, j \in (k + 1)..Len(groups) :
                     SeqEnd(groups[i]) < SeqStart(groups[j])
      Whole(k) == Closed(k) /\ Fits(SubSeq(groups, 1, k), budget)
  IN SubSeq(groups, 1, Max({k \in 0..Len(groups) : Whole(k)}))

-----------------------------------------------------------------------------
\* project_events: proposals that follow each other, whatever silent events
\* lie between, make one assistant message.
Message(role, ids) == [role |-> role, ids |-> ids]

RoleOf(type) ==
  CASE type = "user_message" -> "user"
    [] type = "assistant_text" -> "assistant"
    [] type = "tool_result" -> "tool"
    [] OTHER -> "silent"

Flush(projection) ==
  IF projection.proposed = <<>> THEN projection.messages
  ELSE Append(projection.messages, Message("tool_calls", projection.proposed))

AddToProjection(log, projection, i) ==
  LET role == RoleOf(log[i].type) IN
  CASE log[i].type = "tool_call_proposed" -> [projection EXCEPT !.proposed = Append(@, i)]
    [] role # "silent" ->
         [messages |-> Append(Flush(projection), Message(role, <<i>>)), proposed |-> <<>>]
    [] OTHER -> projection

Empty == [messages |-> <<>>, proposed |-> <<>>]
Projected(log, seqs) ==
  LET Add(projection, i) == AddToProjection(log, projection, i)
  IN  FoldLeft(Add, Empty, seqs)

ProjectEvents_DropsTail(log, seqs) == Projected(log, seqs).messages
ProjectEvents(log, seqs) == Flush(Projected(log, seqs))

Snapshots(log) == Seqs(log, {i \in DOMAIN log : log[i].type = "context_snapshot"})

Overlap(a, b) == a.from <= b.to /\ b.from <= a.to

\* active_snapshot: the newest one; 0 if there is none.
ActiveSnapshot(log) == IF Snapshots(log) = <<>> THEN 0 ELSE Last(Snapshots(log))
CoveredEnd(log) == IF Snapshots(log) = <<>> THEN 0 ELSE log[ActiveSnapshot(log)].to

Summary(log) ==
  IF Snapshots(log) = <<>> THEN <<>>
  ELSE <<Message("assistant", <<ActiveSnapshot(log)>>)>>

ProviderMessages_FromSnapshot(log) ==
  Summary(log) \o ProjectEvents(log, After(log, ActiveSnapshot(log)))

\* build_provider_messages
ProviderMessages(log) ==
  Summary(log) \o ProjectEvents(log, After(log, CoveredEnd(log)))

\* emergency_reduce: the oldest finished groups beyond the snapshot give way
\* to a marker.
EmergencyReduce(log, keep) ==
  LET after == Seqs(log, {i \in DOMAIN log : /\ i > CoveredEnd(log)
                                              /\ log[i].type # "context_snapshot"})
      groups == GroupEvents(log, after)
      Dropped(g) == g <= Len(groups) - keep /\ groups[g].terminal
      kept == Seqs(groups, {g \in DOMAIN groups : ~Dropped(g)})
      marker == IF Len(kept) < Len(groups) THEN <<Message("user", <<>>)>> ELSE <<>>
  IN Summary(log) \o marker
       \o FlattenSeq([k \in DOMAIN kept |-> ProjectEvents(log, groups[kept[k]].ids)])

-----------------------------------------------------------------------------
\* EventStore.verify, on a session that opens with session_started.
Unproposed(log) ==
  {i \in DOMAIN log :
     /\ log[i].type \in CallRefTypes
     /\ \A k \in 1..(i - 1) : log[k] # Event("tool_call_proposed", log[i].call)}
=============================================================================
