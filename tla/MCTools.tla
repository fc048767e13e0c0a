------------------------------ MODULE MCTools -------------------------------
(***************************************************************************)
(* Where a session waits for others: the gate in front of every handler, a *)
(* shell command, an MCP client, the terminal UI and the provider's        *)
(* stream.  They share no variable, so the instance runs one at a time,    *)
(* the one in focus, and the others wait in an initial state.              *)
(***************************************************************************)
EXTENDS Executor, ProcessRun, McpClient, TuiBridge, ProviderStream

CONSTANTS c1, c2, shown1, shown2, sh, background, server, child

VARIABLE focus

MCCalls == {c1, c2}
MCFacts == {shown1, shown2}
MCPlans == [call : MCCalls, facts : MCFacts]

\* Lines of a response: text, a call in fragments with and without an index, a
\* slot without a name, a whole call, the last chunk alone and with a call.
Chunk(calls, done) == [junk |-> FALSE, text |-> FALSE, calls |-> calls, done |-> done]
RawCall(index, args) == [index |-> index, named |-> TRUE, args |-> args]
MCLines ==
  {[Chunk(<<>>, FALSE) EXCEPT !.junk = TRUE],
   [Chunk(<<>>, FALSE) EXCEPT !.text = TRUE],
   Chunk(<<RawCall(<<0>>, "fragment")>>, FALSE),
   Chunk(<<RawCall(Unnumbered, "mapping"), RawCall(Unnumbered, "fragment")>>, FALSE),
   Chunk(<<[RawCall(<<1>>, "empty") EXCEPT !.named = FALSE]>>, FALSE),
   Chunk(<<RawCall(<<0>>, "fragment")>>, TRUE),
   Chunk(<<>>, TRUE)}

Init ==
  /\ focus \in {"gate", "process", "mcp", "tui", "stream"}
  /\ ExecutorInit /\ ProcInit /\ McpInit
  /\ TuiInit
  /\ StreamInit

Next ==
  \/ /\ focus = "gate" /\ ExecutorNext
     /\ UNCHANGED <<focus, procVars, mcpVars, tuiVars, streamVars>>
  \/ /\ focus = "process" /\ ProcNext
     /\ UNCHANGED <<focus, executorVars, mcpVars, tuiVars, streamVars>>
  \/ /\ focus = "mcp" /\ McpNext
     /\ UNCHANGED <<focus, executorVars, procVars, tuiVars, streamVars>>
  \/ /\ focus = "tui" /\ TuiNext
     /\ UNCHANGED <<focus, executorVars, procVars, mcpVars, streamVars>>
  \/ /\ focus = "stream" /\ StreamNext
     /\ UNCHANGED <<focus, executorVars, procVars, mcpVars, tuiVars>>

\* In its initial state a module has no fair step to take, so the fairness of
\* those out of focus asks nothing.
Spec ==
  /\ Init /\ [][Next]_<<focus, executorVars, procVars, mcpVars, tuiVars, streamVars>>
  /\ ProcFairness /\ McpFairness /\ TuiFairness /\ StreamFairness
=============================================================================
