# shadow-code in TLA+

Specifications of the parts of Shadow Code that decide *whether a tool runs, what
it may do, what a session waits for, and what survives when something goes wrong*,
with the TLC instances that check them and machine-checked proofs of the
properties that matter most. Paths below are relative to `shadow_code/`.

    tlc -workers 2 -config MCAgentEngine_turn.cfg MCAgentEngine.tla
    tlapm AgentEngineProofs.tla      (and FoldTheorems and the six other *Proofs.tla)

## 1. The system

Shadow Code is a terminal coding agent. A user message starts a *turn*; a model
streams text and tool calls; the engine admits each call (validation, duplicate
check, policy, and for anything with effects a one-shot approval), runs the
handler, feeds the results back, and repeats until the model stops or a budget
trips. Everything of consequence is appended to an event log that the next start
reads.

| component | state it keeps | operations | interacts with | hard behaviours | correct when |
|---|---|---|---|---|---|
| `engine.py` AgentEngine | state, budget counters, duplicate register, open round, recorded rounds | `run_turn`, `admit_calls` | stream, consent, cancel flag, store, executor (all injected) | cancellation and clock polled between any two steps; failing stream; failing append; early exits in mid-batch | no handler without consent, one result per call, budgets hold, turn ends |
| `policy/engine.py`, `tools/registry.py` | none (immutable facts) | `decide`, `validate_call` | engine | fall-through cases | ungranted and unknown are refused |
| `domain/approval.py` ApprovalAuthority | outstanding tokens | `issue`, `consume` | engine, executor | replay, mismatch | one execution per grant, of the plan shown |
| `executor.py` | none | `execute_validated_call` | authority, handlers | any combination of arguments | gate cannot be talked round |
| `events.py` EventStore | append-only log (SQLite), schema version | open and migrate, `append_group`, import, `pending_tool_calls`, `verify` | engine, start-up, `/compact`, other processes | append fails; kill between two appends; ids reused; two processes migrate at once | groups are whole, interrupted work stays visible |
| `main.py` session | runtime, interrupt flag, prompt in use | start-up, line loop, slash commands, exit | everything | kill at any step; Ctrl-C; early exits of start-up | nothing is re-executed, pending work is shown, servers are closed |
| `mutation.py`, `tools/catalog.py` | files, temporary files | plan, apply, export | guard's flock, other processes | outside edits, system-call failures, kills, several writers | compare-and-swap of the whole file |
| `policy/workspace.py` | pinned root descriptor, flock | `mutation_lock`, `open_read`, `open_dir` | mutation, other processes | blocking lock | lock always given up |
| `ops.py` | backups | `/doctor` sweep, `/backup`, `/restore` | lock file, databases | probe-then-act; half a restore; write-ahead logs | sweeps only orphans, restores verify first |
| `context_compaction.py`, `conversation.py` | snapshots, message window | group, select, snapshot, project, tiers | log, model | summarizer fails; pending groups; second snapshot | nothing lost, no call split from its result |
| `mcp.py` | pending table, broken flag, process | `connect`, `_request`, reader thread, `close`; manager: load, `discover`, `shutdown` | server process, engine, start-up | late answers, time-outs, EOF against registration; untrusted schemas | every request ends once, a client given up leaves no process |
| `process.py` | drain threads, process group | `run_process` | bash tool | time-out, helpers that leave the group or keep the pipes | the call returns, output is accounted for |
| `tui.py` | busy flag, cancel flag, answer, approval event, input queue | consent bridge, cancel, exit | engine's worker thread | two threads over plain attributes | no answer is carried over, leaving does not hang |
| `tui_tools.py` | groups and rows of the transcript | `begin_round`, row updates | engine's notifications | step numbers and ids that repeat | a row stands in its own round |
| `prompt_compiler.py`, `prompt_store.py` | snapshots, active pointer, watched time stamps | compile, save, verify, activate, watch, reload, rollback | overlay files, other sessions | kills and failing calls between two files | the pointer names a whole snapshot |
| `provider.py`, `ollama_client.py` | per-stream buffers, event queue | reader thread, chunk assembly, collection of a round | server, event loop | partial calls, missing ids, a response closed under its reader | each call emitted once and whole, every round ends |
| `db.py` | sessions and their messages | create, save, load, name, add | `/save`, `/load`, `/clear`, `/compact`, other processes | the conversation changes where the database does not | a stored session can be loaded |
| `parser.py`, `tools/` (legacy) | files read, in-memory backups | opt-in loop over fenced calls | the model's text | partial writes, failures in a row | a kept copy outlives a failing write |
| `eval/` | trace, scores | select, run, score, gate | the engine, workspaces | a scenario that raises; repeated ids; a subset of the corpus | a release is passed only by what was measured |

## 2. Modules

    Policy ──┐
    Approval ┼─► AgentEngine ──► Session            CasFile ◄── Mutation
             │        │ implements CallLedger              (implements)
             └► Executor ─┐
    ProcessGroup ─► ProcessRun ─┤                   EventLog ─► History ─┐
            └─────► McpClient ──┤                McpDiscovery ─► Startup ┤
                    TuiBridge ──┼─► MCTools       Prompts, Backup, EvalRun┼─► MCRecords
               ProviderStream ──┘                 LegacyLoop, EventStore, ┤
                                                              SessionDb ──┘
    ToolRows stands alone; MC*: instances for TLC

    FoldTheorems ─► ToolsProofs     (Executor, ProcessRun, McpClient, TuiBridge, ProviderStream)
                 ├► StartProofs     (Prompts, Startup, Backup, EvalRun)
                 └► HistoryProofs   (EventLog, History)
    AgentEngineProofs ─► SessionProofs;  MutationProofs;
    StorageProofs                   (EventStore, SessionDb, LegacyLoop)

| module | models | how its state and actions correspond to the code |
|---|---|---|
| `Policy` | `PolicyEngine.decide`, `_granted_capabilities`, the verdict of `validate_call` | operators over the facts of a call these read |
| `Approval` | `ApprovalAuthority` | `outstanding` is its dictionary; `EXTENDS`ed by Executor, instantiated by AgentEngine |
| `Executor` | `execute_validated_call` facing arbitrary callers | one action per outcome of the gate; ghosts record what was granted and what ran |
| `AgentEngine` | `run_turn` and everything below it | one action per step between two polls or calls to the outside |
| `CallLedger` | *abstract*: what the engine promises of a proposed call | AgentEngine and Session refine it |
| `Session` | kill, exit and start-up around the engine | memory is lost, the log stays |
| `Mutation` | preview, plan, apply/export, flock, `/doctor` sweep, outside edits | one writer per approved call, each in its own process |
| `CasFile` | *abstract*: an atomic compare-and-swap of a file | Mutation refines it |
| `ProcessGroup` | what a signal to a process group reaches | a family of processes: who left the group, ignores SIGTERM, holds the pipes |
| `ProcessRun` | `run_process`: caller, two drain threads, shell and helpers | `procPc` is where the caller is; `Drain` is one read of a drain thread |
| `McpClient` | one client: request thread, reader thread, server | `pending`, `broken` are the code's fields; `mcpPc` and `carrying` are where each thread is between two lock sections |
| `McpDiscovery` | entries of `mcp.json`, tools to specs and names | operators, as the code's functions are pure |
| `Startup` | `main()` from the workspace guard to the last close, with `McpManager` | `progress` walks the function; every early return is an action |
| `TuiBridge` | app thread against worker thread | `driver` and `worker` are program points, from the opening of the stores on; a posted callback is a queued step of the app thread |
| `ProviderStream` | reader thread, chunk assembler, queue, collecting client | one action per line read and per event taken |
| `Selection` | list comprehensions with a test | the members of a set in the order of a sequence |
| `EventLog` | grouping, closed range, projection, verification | operators over a sequence of events |
| `History` | the log and the conversation of a session | turns, `/compact`, `/clear`, `/load`, automatic tiers as actions |
| `Prompts` | sessions on one snapshot store | one action per file-system call another session can come between |
| `Backup` | page-wise copies, write-ahead log, manifest, two verifications | `stage` and `todo` are the loops over the databases |
| `EvalRun` | scenarios on the engine, trace, scoring, thresholds | a run walks its scenarios call by call |
| `LegacyLoop` | opt-in loop and file tools | one action per dispatched tool |
| `EventStore` | migration, transactions, import, several processes, kills | one action per SQL statement that takes, needs or releases the write lock |
| `SessionDb` | sessions and messages of several processes | one action per command; in a turn, a text joins the conversation and its `add_message` follows or raises |
| `ToolRows` | groups and rows of the transcript | the engine's notifications in their order |

**AgentEngine.** `pc` is the point of the code the engine thread has reached;
the thread is sequential, so interleaving comes from `RequestCancel` (the
interrupt flag of either frontend) and `TimePasses` (the clock), which may happen
between any two steps, are read only where the code polls, and never block.
`pc = "decided" / "asked" / "granted"` are the three `_raise_if_cancelled` calls
of `_admit_validated`; `"consent"` is the wait for the user; `"dispatch"` is
`execute_validated_call` before the handler, `"handler"` while it runs; `"skip"`
is `_skip_remaining`. `Emit` is one append transaction and may fail, which the
code turns into a warning. A raw call is a member of `Contents`: its name with
canonical arguments, what the duplicate register is keyed by.
`proposed, answered, started, consented, lateStarts` are ghosts.

**Session.** Runs the engine while the process is up. `Crash` may hit between
any two engine steps, so also while a handler runs. Only the most recent
session's events are read by start-up, so `log` holds one session. Left out: a
`session_started` append that fails, after which the older session still counts
as the most recent one until another event lands.

**Mutation.** All writers target one file, the interesting case: different files
share only the lock. The plan the user sees is built in `Preview`, the one that
is executed in `PlanAgain` from a new snapshot; `ReadAgain` is the second read of
`prepare` with the digest check. `Critical` names the points between taking the
flock and giving it up. The module's own comment assumes "cooperating writers"
for the instant between the pre-commit snapshot and `rename`; `OutsideEdit` is
enabled everywhere else. Any system call may fail, the `unlink` that clears up
after another failure included: apply_mutation suppresses its error
(mutation.py:309), and the ghost `unremoved` names the temporary files left so.

**Waiting: ProcessRun, McpClient, TuiBridge, ProviderStream.** In each, two or
three threads of the program share a few fields and face somebody who owes them
nothing. A step is what happens between two points at which another thread can
come in: a section under the client's lock, one attribute read or written, one
`read` or `put`. The counterpart is free: a helper may leave its group and hold
the pipes, a server writes any line, or none, at any time, the user presses any
key the panel shows, a response has any lines and may be closed under its reader.

**Keeping: the modules of MCRecords.** State that outlives a step, under what
can come between: kills, failing calls, other processes. Files are modelled at
the grain the code writes them (`Prompts`, `Backup`), databases at the grain of a
statement (`EventStore`) or of a call (`SessionDb`), where a call that raises may
leave its row in an open transaction. Content is a version number, a digest the pair it is computed
from, a message the events it shows.

**Focus.** The components of `MCTools`, and those of `MCRecords`, share no
variable, so exploring them together would only multiply their states. Each
instance has a variable `focus`: the module in focus takes all the steps and the
others stay in one initial state. Every behaviour of a single module is a
behaviour of the instance. In an initial state no step that carries fairness is
enabled, so the fairness of the modules out of focus asks nothing.

## 3. Runs

| run | instance and bounds | what it shows |
|---|---|---|
| `turn` | 5 kinds of call (allowed read, gated bash, file write, ungranted MCP, invalid), batches ≤ 2, `MaxSteps` 2, `MaxCalls` 2, `MaxDuplicates` 1, output budget one handler's output, 1 failing append, 1 turn | all safety properties of a turn, refinement of `CallLedger`, and termination |
| `answers` | as `turn`, smaller | **violation**: a cancelled turn leaves calls without a result |
| `session` | read and bash, single calls, 2 turns, 1 kill, server-side ids | interrupted calls are shown; nothing is run or answered after a restart |
| `ids` | the same with `call-<index>` ids | **violation**: an interrupted call is hidden |
| `mutation` | one `write_file`, one `edit_file`, 2 contents, 2 modes, strict or not, 1 outside edit, 1 sweep, kills and failures anywhere | serialization, no leftovers, truthful results, compare-and-swap, progress |
| `drift` | one outside edit, no sweep | **violation**: the previewed file is not the replaced one |
| `sweep` | one sweep, no outside edit | **violation**: a live writer's temporary file is removed |
| `tools` | gate: 2 calls × 2 plan variants, 3 tokens; command: 1 helper, budget 1 of at most 2 bytes per stream; MCP: 3 requests, 1 helper, 1 line in the pipe; TUI: 2 inputs, 2 questions; stream: 3 lines out of 7 kinds | everything a session waits for ends, once and correctly, whatever its counterpart does |
| `records` | log: 8 events, batches of 2, budget 4; prompts: 2 sessions, 2 overlays and a broken one, 1 edit; start-up: 4 configurations, 3 server names; backup: 2 commits, 1 tampering; evaluation: 6 scenarios, 2 selected; store: 2 processes, 3 groups of ≤ 2, 2 legacy messages, 1 kill; sessions: 2 processes, 2 sessions, 3 texts, 1 raising `add_message` | what a session keeps stays readable, whole and consistent |
| `discovery` | as `records`, one overlay | **violation**: a tool schema takes start-up down |
| `restore` | as `records`, one overlay | **violation**: a restore does not take effect |
| `rows` | 2 turns of 2 rounds of 1 call, server-side ids | **violation**: a round joins the group of the turn before |

*Why the bounds are enough.* Each engine rule concerns one call, its neighbours
in the batch, or the previous round, so two calls per batch and two rounds reach
every early exit with something before and after it; every budget is small enough
to be hit exactly and passed. Reuse of an id needs two rounds. Mutations interact
in pairs through one lock and one file. One kill and one outside edit can fall
between any two steps; every property speaks of the state after it.

In `tools`, one helper process is in turn in the group or out of it, stubborn or
not, holding the pipes or not, and one byte below, at and above the budget is
what chunks can straddle; three MCP requests are a late answer, the request it
could be taken for, and one after the client broke; two questions are an answer
and the question that could inherit it. Three lines are two fragments and a last
chunk. In `records`, eight events are a turn of two rounds, its compaction, a
second turn and a second compaction; everything shared has two processes, and
files that must agree are two. Names in `MCRecords` are chosen so that two
servers' tools concatenate to the same name; the six scenarios cover both
drivers, both categories, every kind of expectation and the loop's early ends.

`MCSymmetry` (sessions, good overlays and processes are each alike) is used in
`records` only, which checks no liveness. The limits are constants of
the modules, and the theorems of section 5 do not depend on them.
`CHECK_DEADLOCK FALSE` is set where the bounds make the system stop.

*Properties.* Each is stated above its definition. Those that take several steps
of several actors to break:

- the engine: `ConsentBeforeExecution`, `NoStandingGrant`, `CancelStopsHandlers`,
  `OneTerminalResult`, `RoundsAnswered`, `BudgetsHold`, `InterruptedRunIsPending`,
  `ImplementsCallLedger`, `TurnEndsOrAwaitsUser`; across kills
  `InterruptedWorkReported` and `ResumeNeverReexecutes`;
- the gate: `OneDispatchPerGrant`, `PresentedIsSpent`;
- files: `CommitsSerialized`, `NoTempLeftBehind`, `ResultTellsTheTruth`,
  `ImplementsCasFile`, `ApprovedCallsReturn`; `BackupNeverLost` of the legacy tools;
- waiting: `OutputAccounted`, `CommandReturns`; `OneOutcomePerRequest`,
  `UntrustedServerIsGone`, `RequestsEnd`; `NoInheritedConsent`, `LeavingLeaves`;
  `CompletedRoundsAreWhole`, `RoundsEnd`;
- memory: `ResultsFollowProposals`, `CoveredOrShown`, `ConversationMirrorsLog`,
  `ConversationCanBeLoaded`; storage: `GroupsAreWhole`, `PointerVerified`,
  `TamperedBackupWritesNothing`; start and exit: `ToolNamesUnique`,
  `SessionExitClosesServers`; release: `ReleaseIsEarned`.

Some say in themselves where they stop. `CommandReturns` and `RequestsEnd` allow
a caller to be held by a survivor that keeps the pipes, because the code joins
its reader without a time-out (process.py:146). `LeavingLeaves` excepts input
that ends meanwhile and an exception that ended the driver - out of a slash
command, a store that did not open, or the engine (tui.py:979-1006): the app runs
on, and what Ctrl+D queues is read by nobody. `NoTempLeftBehind` excepts a killed
process and a temporary file whose `unlink` failed too, which the docstring of
`apply_mutation` does not. `ConversationCanBeLoaded` excepts a text whose
`add_message` is due or has raised - the TUI reports a `DatabaseError` and goes on
(tui.py:1018-1021), with the text in the conversation and the log and not in the
database - and `/compact` after `/load`, which rebuilds the conversation from the
log of the session that was left. `CancelStopsHandlers` lets one handler start that
was past the last poll, where README:120-122 is worded more strongly;
`UntrustedServerIsGone` speaks of time-outs, interrupts and `close`, where the
docstring at mcp.py:341 adds protocol violations and the end of the pipe.
`NoInheritedConsent` is about the handlers of a turn; for slash commands see
section 4. `SessionExitClosesServers` speaks of the ends by
return: the two `sys.exit` calls at main.py:1434 and main.py:1449 leave servers
to the end of their pipes. `ConversationMirrorsLog` holds while no append failed
and nothing shortened or replaced the conversation; the results of opt-in markdown
tool calls (main.py:1176), which no event records, are outside it.

For each property, an operator placed before the one it distorts (`Burn_Keeps`,
`IsDuplicate_OffByOne`, ...) is a plausible bug that breaks it; nothing in the
specifications uses these operators.

*Fairness.* `AgentEngine!FairSpec` is weak fairness of the engine's own steps:
one thread that runs until it blocks, with streams and handlers that return
(requests, commands and MCP calls carry time-outs). The user owes nothing - not
an answer, not a cancellation, not another message - hence `TurnEndsOrAwaitsUser`
stops at the approval prompt. `Mutation!FairSpec` is weak fairness of each
writer's steps: separate processes, of which only `TakeLock` can be held up, and
the kernel hands a free flock to a waiter. With more than two writers queueing
for ever `TakeLock` would need strong fairness; each writer here is one call, so
the lock is contended finitely often and weak fairness suffices.

`ProcFairness`: the caller runs on, its time-outs included, and the drain threads
read what is there; no process of the command owes its end. `McpFairness`: both
threads run on and time passes; the server owes neither an answer nor its end.
`TuiFairness`: both threads run on, and a question that is on the panel is
answered in the end - the one thing asked of the user, as the code waits for the
answer without a time-out. `StreamFairness`: every read ends, if only by the
client's read time-out, and the client keeps reading; that a response has
finitely many lines is the bound `MaxLines`.

## 4. Disagreements found

Each has a run whose counterexample shows it.

1. README:113 and the header of `engine.py` promise a terminal result for every
   proposed call; cancellation leaves the rest of the batch without one (`answers`).
2. `pending_tool_calls` matches by call id over the whole session, and ids repeat
   when the server sends none; a crashed call can go unreported (`ids`).
3. README:354 and a comment in `apply_mutation` promise that an edit between the
   approval preview and execution is refused; the plan is rebuilt at execution, so
   it is not (`drift`). What does hold is `ImplementsCasFile`, from the rebuilt plan on.
4. `cleanup_stale` promises to remove nothing while a live instance holds the lock;
   it probes the lock, gives it up, and then removes (`sweep`). The writer then
   fails cleanly: `ImplementsCasFile` and `NoTempLeftBehind` hold with the sweep.
5. `McpManager.discover` promises not to raise; a property whose JSON type is a
   list is looked up in a frozenset and raises `TypeError`, past the handler and out
   of `main()`, with servers running (`discovery`, mcp.py:315).
6. A restore copies over the main file of a database and leaves its write-ahead
   log, which SQLite reads first: the restore is reported and not seen (`restore`,
   ops.py:461).
7. The rows of the transcript are said to be grouped per engine round; a group is
   recognised by its step number, which starts again with every turn (`rows`,
   tui_tools.py:234).

Stated in a module and refuted by TLC on the instance of `tools` or `records` when
listed in its configuration, but without a run of its own:

- `SummarySurvives` (History): emergency truncation is the "fallback if compaction
  fails" (conversation.py:5), but the token count is not taken again after a
  summary, so it follows a compaction that succeeded and drops its summary
  (main.py:1228).
- `RollbackPinsPrompt` (Prompts): README:216 pins a rolled-back prompt for the rest
  of the session; the prompt in use stays until the next watch (main.py:540).
- `TimedOutGroupIsDead` (ProcessRun): the docstring of `run_process` has the whole
  group killed on a time-out; SIGKILL follows only if the leader outlives its
  grace period, so a member that ignores SIGTERM survives a leader that does not.
- `DriverMakesNoDifference` (EvalRun): scoring is to be the same whoever drove the
  engine; with repeated ids a denied call is taken for executed when another of
  its id ran (eval/runner.py:382).
- `NoInheritedConfirmation` (TuiBridge): `_begin_approval` promises "no batch
  approval, no inherited consent" (tui.py:819-823) and `_wait_approval` to be
  fail-closed. When the input ends after a yes while a slash command asks again, the
  loop closes over the posted question, which would have reset the answer, and the
  `finally` of `run` sets the event: the command goes on with the earlier yes. A
  turn is saved by the cancel flag (`NoInheritedConsent`); a command reads none.
- `OwnLogVerifies` (EventStore): an import that meets ids already there draws
  numbers it does not use, and `verify` reports a gap (events.py:530).

Also met while modelling, with nothing in the repository that states otherwise: the
statements of a schema migration are committed one by one, so that a process
killed between the table and the version row, or a second process that migrates
at the same time, meets a table that exists, and the session goes on without a
store (`Create` in EventStore).

And one that came out of a proof that did not go through. The head of
context_compaction.py promises compaction "WITHOUT losing causal tool groups or
source history". If the store lost the proposals of a round and its ids repeat,
`group_events` gives that round's results to an older group of the same id. When
that group begins inside what a snapshot covers, the next `/compact` passes over it
and takes a range that starts behind such a result: it stays in the log, and is
neither covered nor shown from then on (TLC finds it with `MaxEvents` 12 and budget
2). `CoveredOrShown` names this case, `Stray`, and excludes every other; of a log
without a lost append it says that nothing is missing.

## 5. Proofs

`AgentEngineProofs` proves, for every set of calls, policy facts, granted
capabilities, budgets and bounds allowed by `EngineAssumption`:

| theorem | statement |
|---|---|
| `Invariance` | `Spec => []IInv` |
| `TypeCorrect` | `Spec => []TypeOK` |
| `ConsentAlwaysFirst` | `Spec => []ConsentBeforeExecution` |
| `GrantsNeverStand` | `Spec => []NoStandingGrant` |
| `CancellationHolds` | `Spec => []CancelStopsHandlers` |
| `EngineImplementsLedger` | `Spec => ImplementsCallLedger` |
| `ResultsAreTerminal` | `Spec => []OneTerminalResult` |
| `RoundsAreAnswered` | `Spec => []RoundsAnswered` |
| `InterruptedRunsArePending` | `ProviderIds` implies `Spec => []InterruptedRunIsPending` |
| `BudgetsAlwaysHold` | `Spec => []BudgetsHold` |

`ConsentBeforeExecution` is not inductive: nothing in it says why the call now
being dispatched had been consented to. `IInv` adds what the thread's position
implies. `PositionInv`: a round is open exactly at the points inside admission,
and `Current` names a call there. `AdmissionInv`: at each point past the policy
decision, what has been established of the current call - valid, allowed, gated,
consented. `GrantInv`: a token is in hand only at `dispatch` and whatever is
outstanding carries it. The proof has one lemma per action, with a step for each
conjunct the action can disturb. `CancelStopsHandlers` needs the same positions
and the fact that a handler is reached at most once after the last poll.

The other five each add a layer on `IInv`. `CallInv` places every proposed call:
in an earlier turn, in a recorded round, or at its position in the open one, where
it is answered exactly if the position is passed; an action then moves at most
one call of the ledger. `LogInv` ties the log to the ghosts: it says only what was
proposed or answered, and all of it unless an append failed. `RoundInv`: inside a
round there are as many results as calls passed, and only a cancelled turn records
a round cut short. `RunInv`: a handler starts for a proposed call only; with ids of
the server's own, its proposal in the log then matches no result but its own, and
`pending_tool_calls` finds it. The theorem assumes `ProviderIds`; the run `ids`
shows what happens without it. `BudgetInv`: every handler was counted when its
call was admitted, and the call on its way is counted and has not run.

`SessionProofs` carries this across kills and restarts, from the engine's lemmas:

| theorem | statement | what is added to the engine's invariant |
|---|---|---|
| `ConsentSurvivesRestarts` | `SessionSpec => [](ConsentBeforeExecution /\ NoStandingGrant)` | memory lost at any point is that of an engine between turns, so `IInv` survives |
| `InterruptedWorkIsReported` | `ProviderIds` implies `SessionSpec => []InterruptedWorkReported` | `ReportInv`: a denial in the log has its result; what a dead process left running is pending, and what start-up shows is what is pending |
| `RestartsImplementLedger` | `SessionSpec => ResumeNeverReexecutes` | `PastInv`: between turns every proposed call is of a turn that is over |

`MutationProofs`, for every set of writers, contents, modes and edits, and any
number of sweeps, kills and outside edits, under `MutationAssumption`:

| theorem | statement |
|---|---|
| `Invariance` | `Spec => []IInv` |
| `TypeCorrect` | `Spec => []TypeOK` |
| `CommitsAreSerialized` | `Spec => []CommitsSerialized` |
| `TempsAreRemoved` | `Spec => []NoTempLeftBehind`: a temporary file at a writer that returned is one whose `unlink` failed |
| `MutationImplementsCas` | `Spec => ImplementsCasFile` |
| `ResultsAreTrue` | `Spec => []ResultTellsTheTruth` |

`IInv` says of each writer what holds at the point it has reached (`At`): under
the lock from `Critical` on, a plan made from its baseline, a temporary file that
is the planned content or gone, and at `checked` a target that still is the
baseline. The last is what makes the rename a compare-and-swap. It is stable only
because a rename happens under the lock (`LeavesOthers`) and because outside
edits stay out of that one window - the module's stated assumption, and the
place where the theorem would fail without it. `WholeFile` keeps a torn file from
ever being read as a baseline. The refinement theorem then maps each action to
`Plan`, `Commit`, `Fail`, `OutsideEdit` or a stutter. `ResultsAreTrue` follows
from `TruthInv`, which says for each writer, at its point and with its result, what
of its content is in the file unless somebody disturbed it.

Three modules collect the components that share a subject, again for every value
of their constants:

| module | theorem | statement | inductive invariant |
|---|---|---|---|
| `ToolsProofs` | `GateTypeCorrect` | `ExecutorSpec => []ExecutorTypeOK` | `GateInv`, whose `OutstandingInv` binds what is outstanding to the plan it was granted for |
| | `ApprovalIsOneShot` | `ExecutorSpec => []OneDispatchPerGrant` | the same: what is outstanding has run nothing, so honoring it is a first dispatch |
| | `PresentedStaysSpent` | `ExecutorSpec => []PresentedIsSpent` | the same |
| | `OutputAccountedHolds` | `ProcSpec => []OutputAccounted` | `DrainInv`: a thread drops bytes from a full buffer only and accounts for none that was not written; a returned command has no holder of its pipes and nothing unread |
| | `ProcTypeOKHolds` | `ProcSpec => []ProcTypeOK` | the same, with who may still run |
| | `OneOutcomeHolds` | `McpSpec => []OneOutcomePerRequest` | `DeliveryInv`: a request's outcome is to come, being carried, or delivered, and one of these only |
| | `UntrustedServerIsGoneHolds` | `McpSpec => []UntrustedServerIsGone` | `GoneInv`: giving up goes through `close()` in order - broken, without its process, past its death |
| | `NoInheritedConsentHolds` | `TuiSpec => [](TuiTypeOK /\ NoInheritedConsent)` | `ConsentInv`: one job at a time; a question queued or on a live panel is the one the worker waits with; a yes it can act on was given to it, or the cancel flag stands against it |
| | `RoundsAreWhole` | `StreamSpec => []CompletedRoundsAreWhole` | `StreamInv`: the sentinel is behind everything and an early end behind an error; a call handed on, taken or on its way, is settled in its slot, which nothing completes again |
| `StartProofs` | `PointerVerifiedHolds` | `PromptsSpec => []PointerVerified` | `PromptsInv`: what a session has verified, or has staged as the pointer, is complete, and no step takes a file out of a published snapshot |
| | `ExitsClose` | `StartupSpec => []SessionExitClosesServers` | `ClosedInv`: a session ends behind the close of its servers only |
| | `NamesStayUnique` | `StartupSpec => []ToolNamesUnique` | `NamesInv`, with what `build_server_specs` gives for any list of tools |
| | `TamperingIsRefused` | `BackupSpec => []TamperedBackupWritesNothing` | `BackupInv`: a copy that does not match is still ahead of the second verification, and nothing is written before that is through |
| | `ReleasesAreEarned` | `EvalSpec => []ReleaseIsEarned` | `EvalInv`: every scenario behind the run is scored, and a score without failures is of a scenario whose calls deserved none |
| `StorageProofs` | `GroupsAreWholeHolds` | `StoreSpec => []GroupsAreWhole` | `StoreInv`: groups have ids of their own but for imports, which grow; the open transaction, what is to come and what was there make up its group; the log's numbers lie below the counter, the transaction's above |
| | `WhatIsShownIsStored` | `SessionDbSpec => []ConversationCanBeLoaded` | `DbInv`: what a process shows is in its session, but for texts whose storing raised and, while a storing is due, the last; until something is loaded, so is its log, which a compaction falls back on; rows left in an open transaction are of texts that raised |
| | `BackupsSurviveFailures` | `LegacySpec => []BackupNeverLost` | `KeptInv`: the same, with a backup for files of the session only |

`HistoryProofs`, for any bound on the log, the batch and the budget, whatever is
proposed, answered, denied or lost, and wherever `/compact` cuts:

| theorem | statement |
|---|---|
| `LogHolds` | `HistorySpec => []LogInv(log, intact)` |
| `ResultsStayAnswered` | `HistorySpec => []ResultsFollowProposals` |
| `ProjectionIsComplete` | `HistorySpec => []CoveredOrShown` |
| `ConversationIsMirrored` | `HistorySpec => []ConversationMirrorsLog` |

None of the three properties is inductive: they speak of what the projection shows
now, and the next snapshot is cut by the groups. `LogInv` says what every log is:
snapshots follow one another and reach further each (`SnapshotsOK`), all that lies
behind the newest is covered (`CoversAll`), an answer beyond it has its proposal
beyond it (`RunsUncut`), and in a whole log every answer has one (`Answered`). That a
snapshot keeps this is the heart of it, and is about `group_events`: `Grouping` -
the groups cover the events, a group holds one proposal and answers to its call,
an open call's group is open, an answer joins the round it answers - is carried event
by event through the fold (`GroupsHold`), and `select_closed_range` then takes whole
groups that nothing behind them overlaps. `Showing` is the same for `project_events`:
what has been added is shown once and in order. `HistoryInv` adds what the
conversation holds: while it mirrors the log, no proposal is open between rounds, so
the calls of the next round make a message of their own, as the log will say.

*Induction over data.* The folds of the code are proved about without the library's
induction theorems, whose parameters are operators. `FoldTheorems` states induction of
sets - `T` has 0, and `k + 1` with every `k`, so it has all - and derives from it that a
fold, a selection or a concatenation over a sequence is an iteration, given as a
function with a value for every prefix. A fact about a fold is then the set of the
prefixes that have it. `Selection` writes a comprehension's test as a set for the same
reason. No module declares a recursive operator.

*Assumptions.* The named ASSUMEs of the modules: bounds that are natural numbers, sets
of ids and labels that are not empty or finite where the code builds them, and
`ProviderIds` as an explicit hypothesis of the two theorems about interrupted work.

Only model-checked: liveness (`ENABLED` and fairness are out of the prover's reach)
- `TurnEndsOrAwaitsUser`, `ApprovedCallsReturn`, `CommandReturns`, `RequestsEnd`,
`LeavingLeaves`, `RoundsEnd` - and the seven violations, which TLC's counterexamples
show. Every invariant that a passing run checks is the statement of a theorem.

## 6. Not modelled

- Line REPL and display, skills, rules and prompt text, read-only tools and
  projections, configuration: rendering and pure functions of files and of the
  environment, without protocol state.
- Of the modelled components: the contents of previews, diffs, messages and
  reports; `admit_calls`, the compatibility entry; `delete_session`, which no
  command calls; SHA-256 (different plans or contents are taken to have different
  digests); path resolution and symbolic links; the patch file written by a strict
  session; the environment of commands and the decoding of their output; the
  filter that shows a stream; the summary's wording and its validation; SQLite
  itself (a statement happens or fails).
- In `EvalRun` the failure classes `budget_output` and `budget_calls` are not
  reached: its scenarios trip the other budgets, which `AgentEngine` covers in full.
- The two `sys.exit` paths of start-up mentioned in section 3.

## 7. What is left

1. Runs for the disagreements of section 4 that have none.
2. A composition of `TuiBridge` with `AgentEngine`, so that a key pressed between
   the busy flag and the reset of the interrupt flag (tui.py:1017) meets the real
   turn, and of `EventStore` with `Session`.
3. Proofs: the corollaries of `EngineImplementsLedger` for a reader of `CallLedger`
   alone, and of a snapshot's range that it is the largest one the budget allows.
