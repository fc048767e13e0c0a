--------------------------- MODULE ProviderStream ---------------------------
(***************************************************************************)
(* One round of the model: the reader thread of OllamaProvider, which      *)
(* reads lines off the HTTP response and assembles events from them, the   *)
(* queue to the event loop, and the client that collects text and calls    *)
(* (shadow_code/provider.py, ollama_client.py, and the round of main.py).  *)
(*                                                                         *)
(* A line is junk, or a chunk: whether it has text, the tool calls it      *)
(* carries and whether it is the last.  Arguments arrive whole or in       *)
(* fragments; a fragment is the number of its line.                        *)
(***************************************************************************)
EXTENDS Integers, Sequences, FiniteSets, SequencesExt, Selection

CONSTANTS
  ResponseLines,  \* the lines a server may send
  MaxLines        \* bound: lines of one response

Unnumbered == <<>>      \* a call without an index; <<i>> with one
ArgumentForms == {"fragment", "mapping", "empty", "scalar", "null"}
RawCalls ==
  [index : {Unnumbered} \cup [1..1 -> Nat], named : BOOLEAN, args : ArgumentForms]
StreamLines == [junk : BOOLEAN, text : BOOLEAN, done : BOOLEAN, calls : Seq(RawCalls)]

ASSUME StreamAssumption == MaxLines \in Nat /\ ResponseLines \subseteq StreamLines

VARIABLES
  reader,     \* where the reader thread is
  response,   \* the HTTP response: none, open or closed
  lines,      \* lines read so far
  sawDone,    \* saw_done
  buffers,    \* StreamAssembler._buffers
  nextIndex,  \* StreamAssembler._next_index
  queue,      \* events on their way to the loop
  cancelled,  \* the provider's cancel event
  client,     \* what became of the round
  called,     \* last_tool_calls
  interrupt,  \* rt.interrupted
  fed         \* ghost: the fragments received per index before the last chunk

streamVars == <<reader, response, lines, sawDone, buffers, nextIndex, queue,
                cancelled, client, called, interrupt, fed>>
assembler == <<buffers, nextIndex>>
consumer == <<client, called, interrupt>>

StreamInit ==
  /\ reader = "none" /\ response = "none" /\ lines = 0 /\ sawDone = FALSE
  /\ buffers = <<>> /\ nextIndex = 0
  /\ queue = <<>> /\ cancelled = FALSE
  /\ client = "none" /\ called = <<>> /\ interrupt = FALSE
  /\ fed = <<>>

Text == [type |-> "text"]
Quiet == [type |-> "other"]      \* thinking, starts, deltas, usage, stop reason
Error(code) == [type |-> "error", code |-> code]
Sentinel == [type |-> "none"]
Complete(index, arguments) == [type |-> "call", index |-> index, arguments |-> arguments]

-----------------------------------------------------------------------------
\* The assembler: [buffers, next, events] before and after.
With(f, key, value) == [k \in DOMAIN f \cup {key} |-> IF k = key THEN value ELSE f[k]]
Nothing == <<"nothing">>

Accept(buffer, args, line) ==
  CASE args = "fragment" -> [buffer EXCEPT !.fragments = Append(@, line)]
    [] args \in {"mapping", "scalar"} /\ buffer.final = Nothing ->
         [buffer EXCEPT !.final = <<args, line>>]
    [] args = "empty" /\ buffer.final = Nothing /\ buffer.fragments = <<>> ->
         [buffer EXCEPT !.final = <<"empty", line>>]
    [] OTHER -> buffer

\* _feed_call: a call without an index takes the next one.
FeedCall(state, call, line) ==
  LET explicit == call.index # Unnumbered
      index == IF explicit THEN call.index[1] ELSE state.next
      fresh == [explicit |-> explicit, named |-> call.named, fragments |-> <<>>,
                final |-> Nothing, flushed |-> FALSE]
      buffer == IF index \in DOMAIN state.buffers THEN state.buffers[index] ELSE fresh
  IN [buffers |-> With(state.buffers, index, Accept(buffer, call.args, line)),
      next |-> IF index + 1 > state.next THEN index + 1 ELSE state.next,
      events |-> Append(state.events, Quiet)]

\* _flush_pending: what is not flushed yet completes, in the order of the
\* indexes; a numbered slot that never got anything is an error.
Incomplete(buffer) ==
  /\ buffer.explicit /\ ~buffer.named
  /\ buffer.fragments = <<>>
  /\ buffer.final = Nothing \/ buffer.final[1] = "empty"

Completion(index, buffer) ==
  IF Incomplete(buffer) THEN Error("incomplete_tool_call")
  ELSE Complete(index, IF buffer.final # Nothing THEN buffer.final
                       ELSE <<"fragments", buffer.fragments>>)

\* The indexes in order: all are below the next one.
Indexes(state) == [i \in 1..state.next |-> i - 1]

FlushPending_Again(state) ==
  LET due == Select(Indexes(state), DOMAIN state.buffers)
  IN [state EXCEPT !.events = @ \o [i \in DOMAIN due |-> Completion(due[i], state.buffers[due[i]])]]

FlushPending(state) ==
  LET due == Select(Indexes(state), {i \in DOMAIN state.buffers : ~state.buffers[i].flushed})
  IN [state EXCEPT
        !.buffers = [i \in DOMAIN @ |-> [@[i] EXCEPT !.flushed = TRUE]],
        !.events = @ \o [i \in DOMAIN due |-> Completion(due[i], state.buffers[due[i]])]]

FeedCalls(state, calls, line) ==
  LET Add(s, call) == FeedCall(s, call, line) IN FoldLeft(Add, state, calls)

Feed(state, chunk, line) ==
  LET texts == IF chunk.text THEN Append(state.events, Text) ELSE state.events
      after == FeedCalls([state EXCEPT !.events = texts], chunk.calls, line)
  IN IF chunk.done THEN [FlushPending(after) EXCEPT !.events = Append(@, Quiet)] ELSE after

Assembled == [buffers |-> buffers, next |-> nextIndex, events |-> <<>>]
Becomes(state) ==
  /\ buffers' = state.buffers /\ nextIndex' = state.next
  /\ queue' = queue \o state.events

-----------------------------------------------------------------------------
\* stream: the client starts the thread, and collects what it posts.
StartStream ==
  /\ client = "none"
  /\ client' = "collecting" /\ reader' = "post"
  /\ UNCHANGED <<response, lines, sawDone, assembler, queue, cancelled, called, interrupt, fed>>

\* The reader thread.
RequestFails ==
  /\ reader = "post"
  /\ \E code \in {"timeout", "http_error", "disconnect"} :
       queue' = IF cancelled /\ code = "disconnect" THEN queue ELSE Append(queue, Error(code))
  /\ reader' = "finally"
  /\ UNCHANGED <<response, lines, sawDone, assembler, cancelled, consumer, fed>>

Responds ==
  /\ reader = "post"
  /\ response' = "open" /\ reader' = "read"
  /\ UNCHANGED <<lines, sawDone, assembler, queue, cancelled, consumer, fed>>

\* The fragments per index, as long as the round is not done.
FedBy(chunk, state) ==
  IF sawDone THEN fed
  ELSE [i \in DOMAIN state.buffers |-> state.buffers[i].fragments]

ReadLine(line) ==
  /\ reader = "read" /\ response = "open" /\ lines < MaxLines
  /\ lines' = lines + 1
  /\ \/ /\ cancelled
        /\ reader' = "finally"
        /\ UNCHANGED <<sawDone, assembler, queue, fed>>
     \/ /\ ~cancelled /\ line.junk
        /\ queue' = Append(queue, Error("malformed_payload"))
        /\ reader' = "finally"
        /\ UNCHANGED <<sawDone, assembler, fed>>
     \/ /\ ~cancelled /\ ~line.junk
        /\ LET fedState == Feed(Assembled, line, lines')
           IN Becomes(fedState) /\ fed' = FedBy(line, fedState)
        /\ sawDone' = (sawDone \/ line.done)
        /\ UNCHANGED reader
  /\ UNCHANGED <<response, cancelled, consumer>>

\* The stream ends: pending calls are flushed, and without a last chunk that
\* is a disconnect all the same.
EndOfStream ==
  /\ reader = "read" /\ response = "open"
  /\ LET flushed == FlushPending(Assembled)
     IN Becomes(IF sawDone \/ cancelled THEN flushed
                ELSE [flushed EXCEPT !.events = Append(@, Error("disconnect"))])
  /\ reader' = "finally"
  /\ UNCHANGED <<response, lines, sawDone, cancelled, consumer, fed>>

\* Reading raises: it timed out, the connection broke, or the client has
\* closed the response under it.
ReadFails ==
  /\ reader = "read"
  /\ \E code \in IF response = "open" THEN {"timeout", "disconnect"} ELSE {"disconnect"} :
       queue' = IF cancelled /\ code = "disconnect" THEN queue ELSE Append(queue, Error(code))
  /\ reader' = "finally"
  /\ UNCHANGED <<response, lines, sawDone, assembler, cancelled, consumer, fed>>

ReaderEnds_AfterDone ==
  /\ reader = "finally"
  /\ response' = IF response = "none" THEN "none" ELSE "closed"
  /\ queue' = IF sawDone THEN queue ELSE Append(queue, Sentinel)
  /\ reader' = "ended"
  /\ UNCHANGED <<lines, sawDone, assembler, cancelled, consumer, fed>>

ReaderEnds ==
  /\ reader = "finally"
  /\ response' = IF response = "none" THEN "none" ELSE "closed"
  /\ queue' = Append(queue, Sentinel)
  /\ reader' = "ended"
  /\ UNCHANGED <<lines, sawDone, assembler, cancelled, consumer, fed>>

-----------------------------------------------------------------------------
\* The client.  Leaving the stream early or by an error sets cancel and
\* closes the response; it waits for the thread, but not for ever.
Leave(outcome) ==
  /\ client' = outcome
  /\ cancelled' = TRUE
  /\ response' = IF response = "open" THEN "closed" ELSE response

Interrupted ==
  /\ client = "collecting" /\ ~interrupt
  /\ interrupt' = TRUE
  /\ UNCHANGED <<reader, response, lines, sawDone, assembler, queue, cancelled, client, called,
                 fed>>

\* The frontend's loop shows text as it comes, and only then looks at the
\* interrupt flag.
TextArrives ==
  IF interrupt THEN Leave("cancelled") ELSE UNCHANGED <<client, cancelled, response>>

\* The client keeps the calls that are complete, and an error ends the round.
TakeEvent ==
  LET event == Head(queue)
  IN /\ client = "collecting" /\ queue # <<>>
     /\ queue' = Tail(queue)
     /\ CASE event.type = "text" -> TextArrives /\ UNCHANGED called
          [] event.type = "call" ->
               /\ called' = Append(called, event)
               /\ UNCHANGED <<client, cancelled, response>>
          [] event.type = "error" -> Leave("failed") /\ UNCHANGED called
          [] event.type = "none" -> Leave("completed") /\ UNCHANGED called
          [] OTHER -> UNCHANGED <<client, cancelled, response, called>>
     /\ UNCHANGED <<reader, lines, sawDone, assembler, interrupt, fed>>

ReaderSteps ==
  \/ RequestFails \/ Responds \/ (\E line \in ResponseLines : ReadLine(line))
  \/ EndOfStream \/ ReadFails \/ ReaderEnds

StreamNext == StartStream \/ ReaderSteps \/ Interrupted \/ TakeEvent

\* Every read ends, if only by its time-out, and the client keeps reading; that
\* a response has finitely many lines is the bound MaxLines.
StreamFairness == WF_streamVars(ReaderSteps) /\ WF_streamVars(TakeEvent)

StreamSpec == StreamInit /\ [][StreamNext]_streamVars /\ StreamFairness

-----------------------------------------------------------------------------
\* A round handed to the engine is whole: its last chunk has come, no call is
\* in it twice, and a call in fragments carries every fragment the server
\* sent for it up to then - never the part that a broken stream left behind.
CompletedRoundsAreWhole ==
  client = "completed" =>
    /\ sawDone
    /\ \A i, j \in DOMAIN called : called[i].index = called[j].index => i = j
    /\ \A i \in DOMAIN called :
         called[i].arguments[1] = "fragments" /\ called[i].index \in DOMAIN fed =>
           called[i].arguments[2] = fed[called[i].index]

\* However a response breaks off, a round ends for the client and its thread
\* with it: the sentinel is posted on every path, behind every event.
RoundsEnd == client = "collecting" ~> client # "collecting" /\ reader = "ended"
=============================================================================
