----------------------------- MODULE TuiBridge ------------------------------
(***************************************************************************)
(* The full-screen frontend of shadow_code/tui.py: the app thread, whose   *)
(* event loop handles keys and posted callbacks and runs the session       *)
(* driver, and the one worker thread, on which slash commands and turns    *)
(* run.  They meet in plain attributes - the busy flag, the cancel flag,   *)
(* the answer - and in one threading.Event.                                *)
(*                                                                         *)
(* A turn is reduced to what crosses the bridge: it clears the cancel      *)
(* flag, may ask for consent and run a handler, polls the cancel flag, and *)
(* ends.  A slash command may ask for a confirmation.  Each question has a *)
(* number of its own, which the code does not see.                         *)
(***************************************************************************)
EXTENDS Naturals, Sequences

CONSTANTS
  MaxInputs,      \* bound: lines entered
  MaxQuestions    \* bound: consents and confirmations asked

ASSUME TuiAssumption == MaxInputs \in Nat /\ MaxQuestions \in Nat

VARIABLES
  app,              \* the event loop: running, torn down, or past it
  driver,           \* where the session driver is
  inputs,           \* _inputs
  entered,          \* how many lines were entered
  busy,             \* _busy
  interrupted,      \* rt.interrupted
  approvalPending,  \* _approval_pending
  approvalAnswer,   \* _approval_answer
  event,            \* _approval_event is set
  posted,           \* callbacks queued on the loop: the questions to show
  worker,           \* where the worker thread is
  job,              \* what it runs
  asked,            \* questions asked so far; the last is the current one
  shown,            \* the question on the approval panel, or the last one there
  stores,           \* the stores opened on the worker: none yet, open or closed
  unopened,         \* those the driver still has to open there
  agreed,           \* ghost: questions answered yes by a key
  ran,              \* ghost: questions whose yes let a handler run
  leaving,          \* ghost: the user asked to leave while nothing ran
  died              \* ghost: an exception has ended the driver

tuiVars == <<app, driver, inputs, entered, busy, interrupted, approvalPending, approvalAnswer,
             event, posted, worker, job, asked, shown, stores, unopened, agreed, ran, leaving,
             died>>
loopVars == <<app, driver, inputs, entered, busy>>
panelVars == <<approvalPending, approvalAnswer, event, posted, shown>>
workerVars == <<worker, job, asked>>
driverVars == <<stores, unopened, died>>
ghosts == <<agreed, ran, leaving>>

TuiInit ==
  /\ app = "new" /\ driver = "open"
  /\ inputs = <<>> /\ entered = 0
  /\ busy = FALSE /\ interrupted = FALSE
  /\ approvalPending = FALSE /\ approvalAnswer = FALSE /\ event = FALSE
  /\ posted = <<>> /\ shown = 0
  /\ worker = "idle" /\ job = "none" /\ asked = 0
  /\ stores = "none" /\ unopened = 0
  /\ agreed = {} /\ ran = {} /\ leaving = FALSE /\ died = FALSE

Running == app = "running"
Resting == {"idle", "done", "raised"}    \* the worker runs nothing

-----------------------------------------------------------------------------
\* Keys, on the app thread.  While a question is pending the panel owns them.
Enter(item) ==
  /\ Running /\ ~approvalPending /\ entered < MaxInputs
  /\ inputs' = Append(inputs, item)
  /\ entered' = entered + 1
  /\ UNCHANGED <<app, driver, busy, interrupted, panelVars, workerVars, driverVars, ghosts>>

ResolveApproval(yes) ==
  /\ approvalAnswer' = yes
  /\ approvalPending' = FALSE
  /\ event' = TRUE
  /\ agreed' = IF yes THEN agreed \cup {shown} ELSE agreed
  /\ UNCHANGED <<posted, shown>>

PressAnswer(yes) ==
  /\ Running /\ approvalPending
  /\ ResolveApproval(yes)
  /\ UNCHANGED <<loopVars, interrupted, workerVars, driverVars, ran, leaving>>

\* Ctrl+C: deny what is pending, else cancel the turn that runs.
CancelKey ==
  /\ Running
  /\ \/ approvalPending /\ ResolveApproval(FALSE) /\ UNCHANGED interrupted
     \/ /\ ~approvalPending /\ busy
        /\ interrupted' = TRUE
        /\ UNCHANGED <<panelVars, agreed>>
  /\ UNCHANGED <<loopVars, workerVars, driverVars, ran, leaving>>

\* Ctrl+D: the same, and with nothing to stop the session is left.
ExitKey ==
  /\ Running
  /\ \/ /\ approvalPending /\ ResolveApproval(FALSE)
        /\ UNCHANGED <<inputs, interrupted, leaving>>
     \/ /\ ~approvalPending /\ busy
        /\ interrupted' = TRUE
        /\ UNCHANGED <<inputs, panelVars, agreed, leaving>>
     \/ /\ ~approvalPending /\ ~busy /\ ~leaving
        /\ inputs' = Append(inputs, "leave")
        /\ leaving' = TRUE
        /\ UNCHANGED <<interrupted, panelVars, agreed>>
  /\ UNCHANGED <<app, driver, entered, busy, workerVars, driverVars, ran>>

-----------------------------------------------------------------------------
\* The driver starts with the app.  It opens the stores the session has once
\* more, on the worker, and builds the engine; the keys work meanwhile.
StartApp ==
  /\ app = "new" /\ app' = "running"
  /\ unopened' \in 0..2
  /\ UNCHANGED <<driver, inputs, entered, busy, interrupted, panelVars, workerVars, stores, died,
                 ghosts>>

StartJob(kind) == job' = kind /\ worker' = "start"

OpenStore ==
  /\ Running /\ driver = "open" /\ worker = "idle" /\ unopened > 0
  /\ StartJob("open")
  /\ UNCHANGED <<loopVars, interrupted, panelVars, asked, driverVars, ghosts>>

StoreOpened ==
  /\ Running /\ driver = "open" /\ worker = "done"
  /\ stores' = "open" /\ unopened' = unopened - 1
  /\ worker' = "idle" /\ job' = "none"
  /\ UNCHANGED <<loopVars, interrupted, panelVars, asked, died, ghosts>>

\* _build_engine raises when a part of the runtime is missing.
BuildEngine ==
  /\ Running /\ driver = "open" /\ worker = "idle" /\ unopened = 0
  /\ \/ driver' = "get" /\ UNCHANGED died
     \/ driver' = "closing" /\ died' = TRUE
  /\ UNCHANGED <<app, inputs, entered, busy, interrupted, panelVars, workerVars, stores, unopened,
                 ghosts>>

\* Leaving ends the app; the stores opened on the worker are closed there,
\* behind whatever it still runs.
TakeInput_OnlyReturns ==
  /\ Running /\ driver = "get" /\ inputs # <<>>
  /\ inputs' = Tail(inputs)
  /\ IF Head(inputs) = "leave"
     THEN /\ driver' = "closing" /\ UNCHANGED <<app, worker, job>>
     ELSE /\ driver' = "dispatch" /\ StartJob(Head(inputs))
          /\ UNCHANGED app
  /\ UNCHANGED <<entered, busy, interrupted, panelVars, asked, driverVars, ghosts>>

TakeInput ==
  /\ Running /\ driver = "get" /\ inputs # <<>>
  /\ inputs' = Tail(inputs)
  /\ IF Head(inputs) = "leave"
     THEN /\ app' = "teardown" /\ driver' = "closing"
          /\ UNCHANGED <<worker, job>>
     ELSE /\ driver' = "dispatch" /\ StartJob(Head(inputs))
          /\ UNCHANGED app
  /\ UNCHANGED <<entered, busy, interrupted, panelVars, asked, driverVars, ghosts>>

\* The command is done: it was /exit, it is handled, or it is a message.
Dispatched ==
  /\ Running /\ driver = "dispatch" /\ worker = "done"
  /\ \/ /\ job = "/exit"
        /\ app' = "teardown" /\ driver' = "closing" /\ worker' = "idle" /\ job' = "none"
        /\ UNCHANGED busy
     \/ /\ job = "/command"
        /\ driver' = "get" /\ worker' = "idle" /\ job' = "none"
        /\ UNCHANGED <<app, busy>>
     \/ /\ job = "message"
        /\ driver' = "turn" /\ busy' = TRUE /\ StartJob("turn")
        /\ UNCHANGED app
  /\ UNCHANGED <<inputs, entered, interrupted, panelVars, asked, driverVars, ghosts>>

\* An exception out of a slash command, or out of a store that does not open,
\* ends the driver; the app runs on.
DriverRaises ==
  /\ Running /\ driver \in {"open", "dispatch"} /\ worker = "raised"
  /\ driver' = "closing" /\ died' = TRUE
  /\ UNCHANGED <<app, inputs, entered, busy, interrupted, panelVars, workerVars, stores, unopened,
                 ghosts>>

TurnOver ==
  /\ Running /\ driver = "turn" /\ worker = "done"
  /\ busy' = FALSE
  /\ driver' = "get" /\ worker' = "idle" /\ job' = "none"
  /\ UNCHANGED <<app, inputs, entered, interrupted, panelVars, asked, driverVars, ghosts>>

StoresClosed == stores' = IF stores = "open" THEN "closed" ELSE stores

CloseStores ==
  /\ driver \in {"closing", "cancelled"}
  /\ stores = "open" => worker \in Resting
  /\ StoresClosed
  /\ driver' = "ended"
  /\ UNCHANGED <<app, inputs, entered, busy, interrupted, panelVars, workerVars, unopened, died,
                 ghosts>>

\* The loop cancels a driver that is still closing: what it waits for is
\* dropped.  A driver that is cancelled already is waited for.
CloseDropped ==
  /\ app = "teardown" /\ driver = "closing"
  /\ driver' = "ended"
  /\ UNCHANGED <<app, inputs, entered, busy, interrupted, panelVars, workerVars, driverVars,
                 ghosts>>

\* A posted question comes up: the panel is armed afresh.
BeginApproval(q) ==
  /\ shown' = q /\ approvalPending' = TRUE /\ approvalAnswer' = FALSE

RunPosted ==
  /\ app \in {"running", "teardown"} /\ posted # <<>>
  /\ BeginApproval(Head(posted))
  /\ posted' = Tail(posted)
  /\ UNCHANGED <<loopVars, interrupted, event, workerVars, driverVars, ghosts>>

\* The input ends: the app stops, and the loop cancels the driver wherever it
\* waits.
InputEnds ==
  /\ Running
  /\ app' = "teardown"
  /\ driver' = IF driver = "ended" THEN "ended" ELSE "cancelled"
  /\ busy' = FALSE
  /\ UNCHANGED <<inputs, entered, interrupted, panelVars, workerVars, driverVars, ghosts>>

\* The loop closes when the driver has ended; what is still queued is dropped.
LoopCloses ==
  /\ app = "teardown" /\ driver = "ended"
  /\ app' = "closed"
  /\ posted' = <<>>
  /\ UNCHANGED <<driver, inputs, entered, busy, interrupted, approvalPending, approvalAnswer,
                 event, shown, workerVars, driverVars, ghosts>>

\* run()'s finally: the cancel flag first, then the event, then shutdown.
FinallyFirst_Event ==
  /\ app = "closed"
  /\ event' = TRUE
  /\ app' = "interrupting"
  /\ UNCHANGED <<driver, inputs, entered, busy, interrupted, approvalPending, approvalAnswer,
                 posted, shown, workerVars, driverVars, ghosts>>

FinallyFirst ==
  /\ app = "closed"
  /\ interrupted' = TRUE
  /\ app' = "interrupting"
  /\ UNCHANGED <<driver, inputs, entered, busy, panelVars, workerVars, driverVars, ghosts>>

FinallyThen ==
  /\ app = "interrupting"
  /\ event' = TRUE
  /\ app' = "shutdown"
  /\ UNCHANGED <<driver, inputs, entered, busy, interrupted, approvalPending, approvalAnswer,
                 posted, shown, workerVars, driverVars, ghosts>>

Shutdown ==
  /\ app = "shutdown" /\ worker \in Resting
  /\ app' = "ended"
  /\ UNCHANGED <<driver, inputs, entered, busy, interrupted, panelVars, workerVars, driverVars,
                 ghosts>>

-----------------------------------------------------------------------------
\* The worker.  A turn starts by clearing the cancel flag.
StartTurn ==
  /\ worker = "start" /\ job = "turn"
  /\ interrupted' = FALSE
  /\ worker' = "work"
  /\ UNCHANGED <<loopVars, panelVars, job, asked, driverVars, ghosts>>

StartCommand ==
  /\ worker = "start" /\ job # "turn"
  /\ worker' = "work"
  /\ UNCHANGED <<loopVars, interrupted, panelVars, job, asked, driverVars, ghosts>>

\* _consent and _ask_approval: clear the event, post the question, wait.
MayAsk ==
  /\ asked < MaxQuestions
  /\ \/ job = "turn" /\ ~interrupted
     \/ job = "/command"

ClearEvent ==
  /\ worker = "work" /\ MayAsk
  /\ event' = FALSE
  /\ worker' = "post"
  /\ asked' = asked + 1
  /\ UNCHANGED <<loopVars, interrupted, approvalPending, approvalAnswer, posted, shown, job,
                 driverVars, ghosts>>

\* On a closed loop the callback is applied on the spot.
PostQuestion ==
  /\ worker = "post"
  /\ worker' = "wait"
  /\ IF app \in {"running", "teardown"}
     THEN posted' = Append(posted, asked) /\ UNCHANGED <<approvalPending, approvalAnswer, shown>>
     ELSE BeginApproval(asked) /\ UNCHANGED posted
  /\ UNCHANGED <<loopVars, interrupted, event, job, asked, driverVars, ghosts>>

Answered ==
  /\ worker = "wait" /\ event
  /\ worker' = IF approvalAnswer /\ job = "turn" THEN "decide" ELSE "work"
  /\ UNCHANGED <<loopVars, interrupted, panelVars, job, asked, driverVars, ghosts>>

\* After a yes the engine polls the cancel flag once more, then the handler
\* runs.
Decide ==
  /\ worker = "decide"
  /\ IF interrupted
     THEN worker' = "done" /\ UNCHANGED ran
     ELSE worker' = "work" /\ ran' = ran \cup {asked}
  /\ UNCHANGED <<loopVars, interrupted, panelVars, job, asked, driverVars, agreed, leaving>>

Finish ==
  /\ worker = "work"
  /\ worker' \in IF job \in {"/command", "open"} THEN {"done", "raised"} ELSE {"done"}
  /\ UNCHANGED <<loopVars, interrupted, panelVars, job, asked, driverVars, ghosts>>

UserKeys ==
  \/ \E item \in {"message", "/command", "/exit"} : Enter(item)
  \/ (\E yes \in BOOLEAN : PressAnswer(yes)) \/ CancelKey \/ ExitKey

AppSteps ==
  \/ OpenStore \/ StoreOpened \/ BuildEngine
  \/ TakeInput \/ Dispatched \/ DriverRaises \/ TurnOver \/ CloseStores \/ CloseDropped
  \/ RunPosted \/ LoopCloses \/ FinallyFirst \/ FinallyThen \/ Shutdown

WorkerSteps ==
  StartTurn \/ StartCommand \/ ClearEvent \/ PostQuestion \/ Answered \/ Decide \/ Finish

TuiNext == StartApp \/ UserKeys \/ AppSteps \/ InputEnds \/ WorkerSteps

\* Both threads run on, and a question on the panel is answered in the end;
\* nothing else is owed by the user.
TuiFairness ==
  /\ WF_tuiVars(AppSteps)
  /\ WF_tuiVars(WorkerSteps) /\ WF_tuiVars(Finish)
  /\ WF_tuiVars(\E yes \in BOOLEAN : PressAnswer(yes))

TuiSpec == TuiInit /\ [][TuiNext]_tuiVars /\ TuiFairness

-----------------------------------------------------------------------------
TuiTypeOK ==
  /\ app \in {"new", "running", "teardown", "closed", "interrupting", "shutdown", "ended"}
  /\ driver \in {"open", "get", "dispatch", "turn", "closing", "cancelled", "ended"}
  /\ worker \in {"idle", "start", "work", "post", "wait", "decide", "done", "raised"}
  /\ job \in {"none", "open", "message", "/command", "/exit", "turn"}
  /\ inputs \in Seq({"message", "/command", "/exit", "leave"})
  /\ busy \in BOOLEAN /\ interrupted \in BOOLEAN /\ event \in BOOLEAN
  /\ approvalPending \in BOOLEAN /\ approvalAnswer \in BOOLEAN
  /\ stores \in {"none", "open", "closed"} /\ unopened \in 0..2 /\ died \in BOOLEAN
  /\ asked \in 0..MaxQuestions /\ shown \in 0..MaxQuestions

\* A handler runs on a yes given to its own question while it was on the
\* panel - never on the answer to an earlier one, also when the loop closes
\* with a question still queued.
NoInheritedConsent == ran \subseteq agreed

\* What _begin_approval says of every question - no inherited consent - for a
\* slash command's: a yes it takes was given to its own question.
NoInheritedConfirmation ==
  worker = "wait" /\ job = "/command" /\ event /\ approvalAnswer => asked \in agreed

\* Asking to leave while nothing runs leads out of the program, unless the
\* input ends meanwhile or an exception has ended the driver and left the app
\* to itself: out of a slash command, a store that did not open, or the engine.
LeavingLeaves ==
  leaving /\ Running ~> \/ app = "ended"
                        \/ driver = "cancelled"
                        \/ died /\ Running
=============================================================================
