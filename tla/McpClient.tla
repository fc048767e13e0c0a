----------------------------- MODULE McpClient ------------------------------
(***************************************************************************)
(* McpClient of shadow_code/mcp.py under its manager: one server process,  *)
(* the thread that sends requests and waits for their answers, and the     *)
(* thread that reads the server's output and hands answers over.           *)
(*                                                                         *)
(* The two threads share the table of pending requests and the broken      *)
(* mark, both under the client's lock; a step of this module is what       *)
(* happens between two points where the other thread can come in.  The     *)
(* server may write anything at any time, and exit at any time.            *)
(*                                                                         *)
(* Requests go out one at a time: initialize and tools/list at discovery,  *)
(* tools/call afterwards.                                                  *)
(***************************************************************************)
EXTENDS Naturals, Sequences, ProcessGroup

CONSTANTS
  Server, ServerHelpers,
  MaxRequests,     \* bound: requests of one client
  PipeLines        \* bound: lines the server has written and nobody read

ASSUME McpAssumption ==
  /\ Server \notin ServerHelpers
  /\ MaxRequests \in Nat /\ PipeLines \in Nat

VARIABLES
  phase,       \* where the manager is with this client
  mcpPc,       \* where the requesting thread is
  verdict,     \* how the request now ending, or ended last, came out
  requestId,   \* _next_id
  pending,     \* ids of _pending
  delivered,   \* what was put into the queue of request requestId
  broken,      \* _broken
  owned,       \* _process is set
  stdout,      \* lines written and not read
  readerPc,    \* where the reader thread is
  carrying,    \* what it is about to put: [to, outcome]
  serving      \* the server's processes that still run

mcpVars == <<phase, mcpPc, verdict, requestId, pending, delivered, broken, owned,
             stdout, readerPc, carrying, serving>>
requestVars == <<requestId, pending, delivered>>
serverVars == <<stdout, serving>>
readerVars == <<readerPc, carrying>>

Ids == 1..MaxRequests
Bodies == {"result", "error", "malformed"}
Codes == {"mcp_server_error", "mcp_protocol_error", "mcp_disconnected",
          "mcp_timeout"}

\* A response; a notification (no id); a line that is too long, not JSON or
\* not an object; a response whose id cannot be a table key.
Lines == [id : Ids, body : Bodies]
         \cup {[id |-> 0, body |-> b] : b \in {"notification", "garbage", "unhashable"}}

McpInit ==
  /\ phase = "new"
  /\ mcpPc = "idle" /\ verdict = "none"
  /\ requestId = 0 /\ pending = {} /\ delivered = <<>>
  /\ broken = "none" /\ owned = FALSE
  /\ stdout = <<>>
  /\ readerPc = "none" /\ carrying = [to |-> {}, outcome |-> "none"]
  /\ serving = <<>>

-----------------------------------------------------------------------------
\* _fail, under the lock: the first error stays, and every waiter is taken
\* out; the puts that follow need no lock.
Broken(code) == IF broken = "none" THEN code ELSE broken

Put(ids, outcome) ==
  delivered' = IF requestId \in ids THEN Append(delivered, outcome) ELSE delivered

FailByCaller(code) ==
  /\ broken' = Broken(code)
  /\ pending' = {}
  /\ Put(pending, code)

\* The request is over: during discovery an error closes the client, later it
\* is the answer of the call.
Conclude(v) ==
  /\ verdict' = v
  /\ \/ /\ v = "result"
        /\ mcpPc' = "idle"
        /\ phase' = IF phase = "connecting" THEN "listing" ELSE "ready"
     \/ /\ v # "result" /\ phase = "ready"
        /\ mcpPc' = "idle"
        /\ UNCHANGED phase
     \/ /\ v # "result" /\ phase # "ready"
        /\ mcpPc' = "close"
        /\ UNCHANGED phase

-----------------------------------------------------------------------------
\* connect: spawn, both threads started.
Connect ==
  /\ phase = "new"
  /\ phase' = "connecting"
  /\ owned' = TRUE
  /\ readerPc' = "read"
  /\ serving' \in Families(Server, ServerHelpers)
  /\ mcpPc' = "idle"
  /\ UNCHANGED <<verdict, requestVars, broken, stdout, carrying>>

\* The command cannot be spawned: reported unavailable.
ConnectFails ==
  /\ phase = "new"
  /\ phase' = "closed"
  /\ verdict' = "mcp_disconnected"
  /\ broken' = "mcp_disconnected"
  /\ UNCHANGED <<mcpPc, requestVars, owned, readerVars, serverVars>>

\* The head of _request: a broken client or a dead server answers at once.
Request ==
  /\ phase \in {"connecting", "listing", "ready"}
  /\ mcpPc = "idle"
  /\ requestId < MaxRequests
  /\ IF broken # "none"
     THEN Conclude(broken) /\ UNCHANGED broken
     ELSE IF ~owned \/ Server \notin Alive(serving)
     THEN /\ broken' = "mcp_disconnected"
          /\ Conclude("mcp_disconnected")
     ELSE /\ mcpPc' = "register"
          /\ UNCHANGED <<phase, verdict, broken>>
  /\ UNCHANGED <<requestVars, owned, readerVars, serverVars>>

Register ==
  /\ mcpPc = "register"
  /\ requestId' = requestId + 1
  /\ pending' = pending \cup {requestId'}
  /\ delivered' = <<>>
  /\ mcpPc' = "write"
  /\ UNCHANGED <<phase, verdict, broken, owned, readerVars, serverVars>>

Write ==
  /\ mcpPc = "write"
  /\ mcpPc' = "wait"
  /\ UNCHANGED <<phase, verdict, requestVars, broken, owned, readerVars, serverVars>>

\* Nobody reads the pipe any more.
WriteFails ==
  /\ mcpPc = "write"
  /\ FailByCaller("mcp_disconnected")
  /\ Conclude("mcp_disconnected")
  /\ UNCHANGED <<requestId, owned, readerVars, serverVars>>

\* waiter.get, then _extract_result and the checks of connect, list_tools and
\* call_tool; an answer that fails them leaves the client as it is.
Receive ==
  /\ mcpPc = "wait" /\ delivered # <<>>
  /\ Conclude(CASE Head(delivered) = "error" -> "mcp_server_error"
                [] Head(delivered) = "malformed" -> "mcp_protocol_error"
                [] OTHER -> Head(delivered))
  /\ UNCHANGED <<requestVars, broken, owned, readerVars, serverVars>>

\* The notification that follows initialize cannot be written.
NotifyFails ==
  /\ mcpPc = "wait" /\ phase = "connecting"
  /\ delivered # <<>> /\ Head(delivered) = "result"
  /\ FailByCaller("mcp_disconnected")
  /\ Conclude("mcp_disconnected")
  /\ UNCHANGED <<requestId, owned, readerVars, serverVars>>

TimeOut_IfDead ==
  /\ mcpPc = "wait" /\ delivered = <<>>
  /\ Server \notin Alive(serving)
  /\ pending' = pending \ {requestId}
  /\ verdict' = "mcp_timeout"
  /\ mcpPc' = "close"
  /\ UNCHANGED <<phase, requestId, delivered, broken, owned, readerVars, serverVars>>

TimeOut_KeepsClient ==
  /\ mcpPc = "wait" /\ delivered = <<>>
  /\ pending' = pending \ {requestId}
  /\ verdict' = "mcp_timeout"
  /\ mcpPc' = "idle"
  /\ UNCHANGED <<phase, requestId, delivered, broken, owned, readerVars, serverVars>>

\* No answer in time: the waiter is withdrawn and the client closed.
TimeOut ==
  /\ mcpPc = "wait" /\ delivered = <<>>
  /\ pending' = pending \ {requestId}
  /\ verdict' = "mcp_timeout"
  /\ mcpPc' = "close"
  /\ UNCHANGED <<phase, requestId, delivered, broken, owned, readerVars, serverVars>>

\* Ctrl-C during discovery; later SIGINT has a handler that only sets a flag.
Interrupt ==
  /\ phase # "ready"
  /\ mcpPc \in {"write", "wait"}
  /\ verdict' = "interrupted"
  /\ mcpPc' = "close"
  /\ UNCHANGED <<phase, requestVars, broken, owned, readerVars, serverVars>>

\* The manager closes its clients when the session ends, and at once the ones
\* that offer no usable tool.
CloseClient ==
  /\ phase = "ready" /\ mcpPc = "idle"
  /\ verdict' = "closed"
  /\ mcpPc' = "close"
  /\ UNCHANGED <<phase, requestVars, broken, owned, readerVars, serverVars>>

\* close(): _fail, then the process is given up - killed if it still runs,
\* only reaped if it does not.
Close ==
  /\ mcpPc = "close"
  /\ FailByCaller("mcp_disconnected")
  /\ owned' = FALSE
  /\ mcpPc' = IF Server \in Alive(serving) THEN "terminate" ELSE "join"
  /\ UNCHANGED <<phase, verdict, requestId, readerVars, serverVars>>

TerminateServer ==
  /\ mcpPc = "terminate"
  /\ serving' = AfterTerm(serving)
  /\ mcpPc' = IF Server \in Alive(serving') THEN "kill" ELSE "join"
  /\ UNCHANGED <<phase, verdict, requestVars, broken, owned, readerVars, stdout>>

KillServer ==
  /\ mcpPc = "kill"
  /\ serving' = IF Server \in Alive(serving) THEN AfterKill(serving) ELSE serving
  /\ mcpPc' = "join"
  /\ UNCHANGED <<phase, verdict, requestVars, broken, owned, readerVars, stdout>>

\* The stderr reader is joined; the request, or the client's life, ends.
Closed ==
  /\ mcpPc = "join"
  /\ ~PipesHeld(serving)
  /\ mcpPc' = "idle"
  /\ phase' = IF phase = "ready" /\ verdict # "closed" THEN "ready" ELSE "closed"
  /\ UNCHANGED <<verdict, requestVars, broken, owned, readerVars, serverVars>>

McpCaller ==
  \/ Register \/ Write \/ WriteFails \/ Receive \/ NotifyFails \/ TimeOut
  \/ Interrupt \/ Close \/ TerminateServer \/ KillServer \/ Closed

-----------------------------------------------------------------------------
\* _read_loop: a line is read, and under the lock its waiter taken out.
TakeWaiter_Peek(id) ==
  /\ readerPc' = IF id \in pending THEN "put" ELSE "read"
  /\ carrying' = [to |-> {id} \cap pending, outcome |-> Head(stdout).body]
  /\ UNCHANGED pending

TakeWaiter(id) ==
  /\ readerPc' = IF id \in pending THEN "put" ELSE "read"
  /\ carrying' = [to |-> {id} \cap pending, outcome |-> Head(stdout).body]
  /\ pending' = pending \ {id}

ReadResponse ==
  /\ readerPc = "read" /\ stdout # <<>>
  /\ Head(stdout).id \in Ids
  /\ TakeWaiter(Head(stdout).id)
  /\ stdout' = Tail(stdout)
  /\ UNCHANGED <<phase, mcpPc, verdict, requestId, delivered, broken, owned, serving>>

ReadNotification ==
  /\ readerPc = "read" /\ stdout # <<>>
  /\ Head(stdout).body = "notification"
  /\ stdout' = Tail(stdout)
  /\ UNCHANGED <<phase, mcpPc, verdict, requestVars, broken, owned, readerVars, serving>>

\* The table lookup raises TypeError and the thread dies as it is.
ReadUnhashable ==
  /\ readerPc = "read" /\ stdout # <<>>
  /\ Head(stdout).body = "unhashable"
  /\ stdout' = Tail(stdout)
  /\ readerPc' = "dead"
  /\ UNCHANGED <<phase, mcpPc, verdict, requestVars, broken, owned, carrying, serving>>

\* _fail by the reader, under the lock; it ends after the puts.
FailByReader(code) ==
  /\ broken' = Broken(code)
  /\ carrying' = [to |-> pending, outcome |-> code]
  /\ pending' = {}
  /\ readerPc' = "put_last"
  /\ UNCHANGED <<phase, mcpPc, verdict, requestId, delivered, owned, serving>>

ReadGarbage ==
  /\ readerPc = "read" /\ stdout # <<>>
  /\ Head(stdout).body = "garbage"
  /\ FailByReader("mcp_protocol_error")
  /\ stdout' = Tail(stdout)

EndOfFile ==
  /\ readerPc = "read" /\ stdout = <<>>
  /\ ~PipesHeld(serving)
  /\ FailByReader("mcp_disconnected")
  /\ UNCHANGED stdout

AfterPut == IF readerPc = "put_last" THEN "dead" ELSE "read"

PutOutcome ==
  /\ readerPc \in {"put", "put_last"}
  /\ Put(carrying.to, carrying.outcome)
  /\ readerPc' = AfterPut
  /\ carrying' = [to |-> {}, outcome |-> "none"]
  /\ UNCHANGED <<phase, mcpPc, verdict, requestId, pending, broken, owned, serverVars>>

Reader ==
  ReadResponse \/ ReadNotification \/ ReadUnhashable \/ ReadGarbage
  \/ EndOfFile \/ PutOutcome

\* An answer to a request not issued yet is dropped, or read late enough to
\* have been written after it: no need to write it earlier.
ServerWrites(line) ==
  /\ line.id <= requestId
  /\ PipesHeld(serving)
  /\ Len(stdout) < PipeLines
  /\ stdout' = Append(stdout, line)
  /\ UNCHANGED <<phase, mcpPc, verdict, requestVars, broken, owned, readerVars, serving>>

ServerExits(p) ==
  /\ p \in Alive(serving)
  /\ serving' = Without(serving, p)
  /\ UNCHANGED <<phase, mcpPc, verdict, requestVars, broken, owned, readerVars, stdout>>

ServerSide ==
  \/ \E line \in Lines : ServerWrites(line)
  \/ \E p \in Alive(serving) : ServerExits(p)

Manager == Connect \/ ConnectFails \/ Request \/ CloseClient

McpNext == Manager \/ McpCaller \/ Reader \/ ServerSide

\* Both threads run on and time passes; the server owes nothing.
McpFairness ==
  /\ WF_mcpVars(Register \/ Write \/ Receive \/ TimeOut)
  /\ WF_mcpVars(Close \/ TerminateServer \/ KillServer)
  /\ WF_mcpVars(Closed)
  /\ WF_mcpVars(Reader)

McpSpec == McpInit /\ [][McpNext]_mcpVars /\ McpFairness

-----------------------------------------------------------------------------
\* A waiter's queue holds one item and a put to a full one blocks for ever:
\* answers, duplicates of them, failures and close() together deliver at most
\* one outcome to a request.
OneOutcomePerRequest ==
  LET coming == IF requestId \in carrying.to THEN 1 ELSE 0
      registered == IF requestId \in pending THEN 1 ELSE 0
  IN Len(delivered) + coming + registered <= 1

\* A timed-out, interrupted or closed client is never trusted again: when its
\* caller goes on, it is broken, its process given up and dead, and of the
\* group only what ignored SIGTERM runs.
UntrustedServerIsGone ==
  verdict \in {"mcp_timeout", "interrupted", "closed"} /\ mcpPc = "idle" =>
    /\ broken # "none" /\ ~owned
    /\ Server \notin Alive(serving)

\* Every request comes to an end, whatever the server does or fails to do;
\* only a survivor that keeps its pipes can hold a close().
RequestsEnd ==
  []<>(mcpPc = "idle" \/ (mcpPc = "join" /\ PipesHeld(serving)))

=============================================================================
