------------------------------ MODULE Startup -------------------------------
(***************************************************************************)
(* The life of one run of the program, main() of shadow_code/main.py with  *)
(* McpManager of mcp.py: what is opened in which order, where start-up     *)
(* gives up, which frontend runs, and what is closed and recorded at the   *)
(* end.  Clients are McpClient's business; here a server is owned or not.  *)
(***************************************************************************)
EXTENDS McpDiscovery

CONSTANTS
  Builtins,  \* names of the built-in tools
  Configs,   \* the mcp.json files considered
  Payloads   \* the tool lists a server may answer with

ASSUME StartupAssumption ==
  /\ IsFiniteSet(Builtins)
  /\ \A payload \in Payloads : payload \in Seq({payload[i] : i \in DOMAIN payload})

VARIABLES
  progress,      \* how far main() has come
  tui,           \* _want_tui(): the full-screen frontend
  tty,           \* standard input is a terminal
  undiscovered,  \* configured servers not tried yet
  statuses,      \* McpManager's statuses
  tools,         \* the names of the registry, in the order they were added
  owned,         \* servers whose process group the manager owns
  open,          \* what else is open
  recorded,      \* the lifecycle events of this session in the event store
  outcome        \* how the run ended

startupVars == <<progress, tui, tty, undiscovered, statuses, tools, owned, open, recorded, outcome>>

StartupInit ==
  /\ progress = "guard"
  /\ tui \in BOOLEAN /\ tty \in BOOLEAN
  /\ undiscovered = <<>> /\ statuses = <<>>
  /\ tools = SetToSeq(Builtins)
  /\ owned = {} /\ open = {}
  /\ recorded = <<>>
  /\ outcome = "running"

ExitWith(how) == progress' = "exited" /\ outcome' = how

\* _emit: an append that fails is a warning.
Record(events) == recorded' \in {recorded, recorded \o events}

StatusEvent(status) == [type |-> "mcp_server", server |-> status.server, state |-> status.state]
Started == [type |-> "session_started"]
Ended == [type |-> "session_ended"]

PinWorkspace ==
  /\ progress = "guard"
  /\ \/ progress' = "config" /\ open' = {"guard"} /\ UNCHANGED outcome
     \/ ExitWith("refused") /\ UNCHANGED open
  /\ UNCHANGED <<tui, tty, undiscovered, statuses, tools, owned, recorded>>

ReadConfig(file) ==
  /\ progress = "config"
  /\ undiscovered' = LoadConfig(file).servers
  /\ progress' = "discover"
  /\ UNCHANGED <<tui, tty, statuses, tools, owned, open, recorded, outcome>>

\* One server of McpManager.discover.  A server that fails to connect or to
\* list its tools, and one without a usable tool, is closed again.
Discovered(server, state) ==
  /\ statuses' = Append(statuses, [server |-> server, state |-> state])
  /\ undiscovered' = Tail(undiscovered)

Unavailable ==
  /\ progress = "discover" /\ undiscovered # <<>>
  /\ Discovered(Head(undiscovered).name, "unavailable")
  /\ UNCHANGED <<progress, tui, tty, tools, owned, open, recorded, outcome>>

Discover(payload) ==
  LET server == Head(undiscovered).name
      specs == BuildServerSpecs(server, payload, Range(tools))
  IN /\ progress = "discover" /\ undiscovered # <<>>
     /\ \/ /\ specs.raised
           /\ owned' = owned \cup {server}
           /\ ExitWith("discovery raised")
           /\ UNCHANGED <<statuses, undiscovered, tools>>
        \/ /\ ~specs.raised /\ specs.names = <<>>
           /\ Discovered(server, "empty")
           /\ UNCHANGED <<progress, outcome, tools, owned>>
        \/ /\ ~specs.raised /\ specs.names # <<>>
           /\ Discovered(server, "ready")
           /\ tools' = tools \o specs.names
           /\ owned' = owned \cup {server}
           /\ UNCHANGED <<progress, outcome>>
     /\ UNCHANGED <<tui, tty, open, recorded>>

\* The prompt is compiled, then the model server asked for its health; either
\* failure leaves by sys.exit, and the manager is not closed.
CompilePrompt ==
  /\ progress = "discover" /\ undiscovered = <<>>
  /\ \/ progress' = "health" /\ UNCHANGED outcome
     \/ ExitWith("sys_exit")
  /\ UNCHANGED <<tui, tty, undiscovered, statuses, tools, owned, open, recorded>>

HealthCheck ==
  /\ progress = "health"
  /\ \/ progress' = "stores" /\ UNCHANGED outcome
     \/ ExitWith("sys_exit")
  /\ UNCHANGED <<tui, tty, undiscovered, statuses, tools, owned, open, recorded>>

\* The session database and the event store are each optional.
WithDb == {open, open \cup {"db"}}

\* The store does not open, or fails while it is asked for pending calls: the
\* session runs without it.
StoreFails ==
  /\ progress = "stores"
  /\ open' \in WithDb
  /\ progress' = "frontend"
  /\ UNCHANGED <<tui, tty, undiscovered, statuses, tools, owned, recorded, outcome>>

PendingDeclined_KeepsServers ==
  /\ progress = "stores"
  /\ open' = {}
  /\ ExitWith("left")
  /\ UNCHANGED <<tui, tty, undiscovered, statuses, tools, owned, recorded>>

\* Pending calls of the last session, which the user does not abandon.
PendingDeclined ==
  /\ progress = "stores"
  /\ open' = {} /\ owned' = {}
  /\ ExitWith("left")
  /\ UNCHANGED <<tui, tty, undiscovered, statuses, tools, recorded>>

BeginRecorded ==
  /\ progress = "stores"
  /\ open' \in {o \cup {"store"} : o \in WithDb}
  /\ recorded' \in
       {begun \o servers :
          begun \in {<<>>, <<Started>>},
          servers \in {<<>>, [i \in DOMAIN statuses |-> StatusEvent(statuses[i])]}}
  /\ progress' = "frontend"
  /\ UNCHANGED <<tui, tty, undiscovered, statuses, tools, owned, outcome>>

FrontendReturns ==
  /\ progress = "frontend"
  /\ progress' = "cleanup"
  /\ UNCHANGED <<tui, tty, undiscovered, statuses, tools, owned, open, recorded, outcome>>

\* The full-screen frontend raises: on a terminal the line loop takes over.
TuiFails ==
  /\ progress = "frontend" /\ tui
  /\ IF tty THEN tui' = FALSE /\ UNCHANGED <<progress, outcome>>
            ELSE ExitWith("raised") /\ UNCHANGED tui
  /\ UNCHANGED <<tty, undiscovered, statuses, tools, owned, open, recorded>>

\* McpManager.close, and what it closed is recorded.
CloseServers ==
  /\ progress = "cleanup"
  /\ progress' = "closing"
  /\ owned' = {}
  /\ IF "store" \in open
     THEN Record([i \in 1..Cardinality(owned) |->
                    StatusEvent([server |-> SetToSeq(owned)[i], state |-> "closed"])])
     ELSE UNCHANGED recorded
  /\ UNCHANGED <<tui, tty, undiscovered, statuses, tools, open, outcome>>

EndSession ==
  /\ progress = "closing"
  /\ IF "store" \in open THEN Record(<<Ended>>) ELSE UNCHANGED recorded
  /\ open' = {}
  /\ ExitWith("clean")
  /\ UNCHANGED <<tui, tty, undiscovered, statuses, tools, owned>>

StartupNext ==
  \/ PinWorkspace \/ (\E file \in Configs : ReadConfig(file))
  \/ Unavailable \/ (\E payload \in Payloads : Discover(payload))
  \/ CompilePrompt \/ HealthCheck
  \/ StoreFails \/ PendingDeclined \/ BeginRecorded
  \/ FrontendReturns \/ TuiFails \/ CloseServers \/ EndSession

StartupSpec == StartupInit /\ [][StartupNext]_startupVars

-----------------------------------------------------------------------------
\* No tool answers to the name of another: discovered tools never shadow a
\* built-in or each other, across servers whose names concatenate alike, and
\* the registry's constructor never meets a duplicate.
ToolNamesUnique == \A i, j \in DOMAIN tools : tools[i] = tools[j] => i = j

\* README "Session exit closes every owned client and process group": when the
\* session ends or pending calls are declined, nothing stays open.
SessionExitClosesServers == outcome \in {"clean", "left"} => owned = {} /\ open = {}

\* McpManager "Discovery never raises".
DiscoveryNeverRaises == outcome # "discovery raised"
=============================================================================
