---------------------------- MODULE AgentEngine -----------------------------
(***************************************************************************)
(* AgentEngine of shadow_code/engine.py: one user turn after another, each *)
(* a bounded loop of  stream -> collect -> admit (validate -> policy ->    *)
(* approval -> execute) -> record,  with the turn's events appended to the *)
(* event store on the way.                                                 *)
(*                                                                         *)
(* The engine runs on one thread.  What interleaves with it is the user's  *)
(* cancellation flag and the clock, which may change between any two steps *)
(* and are read only where the code polls them; `pc` is the point of the   *)
(* code the thread has reached, and every poll is a step of its own.       *)
(*                                                                         *)
(* A raw call is a member of Contents (its name and canonical arguments);  *)
(* the position <<turn, round, index>> it was proposed at identifies it.   *)
(***************************************************************************)
EXTENDS Naturals, Sequences, FiniteSets, Policy

CONSTANTS
  Contents,          \* (name, canonical arguments) pairs a model may propose
  FactsOf,           \* what validation and policy read of each of them
  Granted,           \* the capabilities granted to the session
  Workspace,         \* whether the policy facts carry a workspace identity
  ProviderIds,       \* the server names calls itself (else "call-<index>")
  OutputSizes,       \* sizes a handler's output may have
  MaxSteps,          \* EngineBudgets.max_steps
  MaxCalls,          \* EngineBudgets.max_calls
  MaxOutput,         \* EngineBudgets.max_output_chars
  MaxDuplicates,     \* EngineBudgets.max_duplicates
  MaxBatch,          \* bound: calls proposed by one provider round
  MaxTurns,          \* bound: turns of the session
  MaxStoreFailures   \* bound: appends the event store refuses

ASSUME EngineAssumption ==
  /\ FactsOf \in [Contents -> CallFacts]
  /\ Granted \subseteq Capabilities
  /\ Workspace \in BOOLEAN
  /\ ProviderIds \in BOOLEAN
  /\ OutputSizes \subseteq Nat
  /\ OutputSizes # {}
  /\ MaxSteps \in Nat \ {0}
  /\ MaxCalls \in Nat
  /\ MaxOutput \in Nat
  /\ MaxDuplicates \in Nat
  /\ MaxBatch \in Nat
  /\ MaxTurns \in Nat
  /\ MaxStoreFailures \in Nat

VARIABLES
  state,          \* EngineState as reported to the frontends
  pc,             \* the point of run_turn the thread is at
  turn,           \* turns started
  cancel,         \* cancel_requested()
  late,           \* clock() - start > max_seconds
  retried,        \* the provider round was retried
  steps,          \* rounds recorded in this turn
  callsSeen,
  callsExecuted,
  output,         \* output characters of this turn
  seen,           \* occurrences of each content in this turn
  batch,          \* the proposed round being admitted
  next,           \* position in batch of the call being admitted
  pendingResults, \* result codes recorded for batch so far
  rounds,         \* EngineRounds recorded in this turn
  reason,         \* why the turn trips or ended
  log,            \* events of the session, in append order
  storeFailures,  \* appends that failed and degraded to a warning
  outstanding, issued,   \* the approval authority
  token,          \* the token in the engine's hand (0: none)
  proposed,       \* ghost: calls ever proposed
  answered,       \* ghost: calls that got a terminal result
  started,        \* ghost: handler runs, [call, content]
  consented,      \* ghost: approvals the user gave, [call, content]
  lateStarts      \* ghost: handlers started while cancellation was requested

authorityVars == <<outstanding, issued, token>>
budgetVars == <<callsSeen, callsExecuted, output, seen>>
roundVars == <<batch, next, pendingResults, rounds, steps, proposed, answered>>
storeVars == <<log, storeFailures>>
ghostVars == <<started, consented, lateStarts>>
inputVars == <<cancel, late>>
vars == <<state, pc, turn, retried, reason, inputVars, roundVars, budgetVars,
          storeVars, authorityVars, ghostVars>>

States == {"idle", "streaming", "collecting", "admitting", "awaiting_approval",
           "executing", "completed", "cancelled", "failed", "budget_exhausted"}

PCs == {"idle", "loop", "stream", "admit", "skip", "decided", "asked",
        "consent", "granted", "dispatch", "handler", "ended"}

Reasons == {"none", "completed", "cancelled", "provider_error", "budget_time",
            "budget_calls", "budget_steps", "budget_output", "duplicates"}

\* The codes a terminal ToolResult may carry.
ResultCodes == {"ok", "handler_error", "invalid", "duplicate_call", "policy_denied",
                "plan_error", "approval_denied", "approval_invalid", "budget_exhausted"}

EventTypes == {"tool_call_proposed", "policy_decision", "approval_requested",
               "approval_granted", "approval_denied", "tool_result"}

CallRefs == [turn : 1..MaxTurns, round : 1..MaxSteps, index : 1..MaxBatch]
Events == [type : EventTypes, call : CallRefs]
CallsMade == [call : CallRefs, content : Contents]

\* The id under which a call is logged and answered.  StreamAssembler numbers
\* the calls of one stream when the server sends no ids, so the same ids come
\* back in the next round; with server ids every call has its own.
CallId(c) == IF ProviderIds THEN <<c.turn, c.round, c.index>> ELSE <<c.index>>
CallIds == { CallId(c) : c \in CallRefs }

\* The action plan an approval is bound to: its other fields are fixed for
\* the session or rendered from the same call.
PlanOf(id, content) == [id |-> id, content |-> content]
ActionPlans == [id : CallIds, content : Contents]

Authority == INSTANCE Approval WITH Plans <- ActionPlans

Current == [turn |-> turn, round |-> steps + 1, index |-> next]
Content == batch[next]
CurrentCall == [call |-> Current, content |-> Content]
CurrentPlan == PlanOf(CallId(Current), Content)
CurrentDisposition == Disposition(FactsOf[Content], Granted, Workspace)
IsMutation == FactsOf[Content].capability = "filesystem.write"

Event(type) == [type |-> type, call |-> Current]

\* cancel_requested(), polled between steps and never inside one.
CancelRequested_BetweenRounds == cancel /\ pc \in {"loop", "stream"}
CancelRequested == cancel

-----------------------------------------------------------------------------
\* One append transaction of the store: all of the events or, when the store
\* fails, none of them and a warning.
Emit(events) ==
  \/ /\ log' = log \o events
     /\ UNCHANGED storeFailures
  \/ /\ storeFailures < MaxStoreFailures
     /\ storeFailures' = storeFailures + 1
     /\ UNCHANGED log

\* _record_round: nothing to record unless a round is being admitted.
RecordRound ==
  IF batch = <<>>
  THEN UNCHANGED roundVars
  ELSE /\ rounds' = Append(rounds, [calls |-> batch, results |-> pendingResults])
       /\ steps' = steps + 1
       /\ batch' = <<>>
       /\ pendingResults' = <<>>
       /\ next' = 1
       /\ UNCHANGED <<proposed, answered>>

\* _finish: the open round is recorded, then the terminal state is reported.
Finish(status, why) ==
  /\ RecordRound
  /\ state' = status
  /\ reason' = why
  /\ pc' = "ended"

\* _budget_trip_reason
BudgetTripReason ==
  IF late THEN "budget_time"
  ELSE IF callsSeen >= MaxCalls THEN "budget_calls"
  ELSE "none"

\* Skipping starts at the repeated call instead of after it.
RecordResult_SkipsFromSame(code) ==
  /\ pendingResults' = Append(pendingResults, code)
  /\ next' = IF code = "duplicate_call" THEN next ELSE next + 1
  /\ answered' = answered \cup {Current}
  /\ UNCHANGED <<batch, rounds, steps, proposed>>

\* A call got its terminal result and the loop goes on to the next one.
RecordResult(code) ==
  /\ pendingResults' = Append(pendingResults, code)
  /\ next' = next + 1
  /\ answered' = answered \cup {Current}
  /\ UNCHANGED <<batch, rounds, steps, proposed>>

\* A handler that failed is run once more under the consent it had.
Settle_Rerun(code, size) ==
  IF code = "handler_error"
  THEN pc' = "dispatch" /\ UNCHANGED <<reason, output, roundVars>>
  ELSE /\ RecordResult(code)
       /\ output' = output + size
       /\ pc' = "admit" /\ UNCHANGED reason

\* The tail of _admit_round for an admitted call: output is accounted, and a
\* tripped output budget skips what is left of the batch.
Settle(code, size) ==
  /\ RecordResult(code)
  /\ output' = output + size
  /\ IF output' > MaxOutput
     THEN pc' = "skip" /\ reason' = "budget_output"
     ELSE pc' = "admit" /\ UNCHANGED reason

-----------------------------------------------------------------------------
Init ==
  /\ state = "idle" /\ pc = "idle" /\ turn = 0
  /\ cancel = FALSE /\ late = FALSE /\ retried = FALSE
  /\ steps = 0 /\ callsSeen = 0 /\ callsExecuted = 0 /\ output = 0
  /\ seen = [c \in Contents |-> 0]
  /\ batch = <<>> /\ next = 1 /\ pendingResults = <<>> /\ rounds = <<>>
  /\ reason = "none"
  /\ log = <<>> /\ storeFailures = 0
  /\ Authority!AuthorityInit /\ token = 0
  /\ proposed = {} /\ answered = {}
  /\ started = {} /\ consented = {} /\ lateStarts = 0

\* A user message: the frontend clears its interrupt flag and calls run_turn,
\* which resets everything the previous turn left.
BeginTurn ==
  /\ pc \in {"idle", "ended"}
  /\ turn < MaxTurns
  /\ turn' = turn + 1
  /\ state' = "idle" /\ pc' = "loop"
  /\ cancel' = FALSE /\ late' = FALSE /\ retried' = FALSE
  /\ steps' = 0 /\ callsSeen' = 0 /\ callsExecuted' = 0 /\ output' = 0
  /\ seen' = [c \in Contents |-> 0]
  /\ batch' = <<>> /\ next' = 1 /\ pendingResults' = <<>> /\ rounds' = <<>>
  /\ reason' = "none" /\ lateStarts' = 0
  /\ UNCHANGED <<storeVars, authorityVars, proposed, answered, started, consented>>

\* Head of the turn loop: cancellation, then the budgets, then a new stream.
OpenRound ==
  /\ pc = "loop"
  /\ IF CancelRequested THEN Finish("cancelled", "cancelled")
     ELSE IF BudgetTripReason # "none" THEN Finish("budget_exhausted", BudgetTripReason)
     ELSE /\ state' = "streaming" /\ pc' = "stream"
          /\ UNCHANGED <<roundVars, reason>>
  /\ UNCHANGED <<turn, retried, inputVars, budgetVars, storeVars, authorityVars, ghostVars>>

\* stream() raised StreamCancelledError: the frontend saw the interrupt flag.
StreamCancelled ==
  /\ pc = "stream"
  /\ CancelRequested
  /\ Finish("cancelled", "cancelled")
  /\ UNCHANGED <<turn, retried, inputVars, budgetVars, storeVars, authorityVars, ghostVars>>

\* One bounded retry of a provider round per turn.
MayRetry_Always(transient) == transient
MayRetry(transient) == transient /\ ~retried

\* stream() raised StreamError.
StreamFailed(transient) ==
  /\ pc = "stream"
  /\ IF MayRetry(transient)
     THEN /\ retried' = TRUE
          /\ pc' = "loop"
          /\ UNCHANGED <<state, reason, roundVars>>
     ELSE /\ Finish("failed", "provider_error")
          /\ UNCHANGED retried
  /\ UNCHANGED <<turn, inputVars, budgetVars, storeVars, authorityVars, ghostVars>>

\* stream() returned text and no native calls.
StreamCompleted ==
  /\ pc = "stream"
  /\ Finish("completed", "completed")
  /\ UNCHANGED <<turn, retried, inputVars, budgetVars, storeVars, authorityVars, ghostVars>>

\* stream() returned native calls: every proposal is logged in one group
\* before the first of them is admitted.
StreamProposed(calls) ==
  /\ pc = "stream"
  /\ state' = "collecting" /\ pc' = "admit"
  /\ batch' = calls /\ next' = 1 /\ pendingResults' = <<>>
  /\ LET Ref(i) == [turn |-> turn, round |-> steps + 1, index |-> i]
     IN  /\ Emit([i \in DOMAIN calls |-> [type |-> "tool_call_proposed", call |-> Ref(i)]])
         /\ proposed' = proposed \cup {Ref(i) : i \in DOMAIN calls}
  /\ UNCHANGED <<turn, retried, reason, rounds, steps, answered, inputVars, budgetVars,
                 authorityVars, ghostVars>>

-----------------------------------------------------------------------------
(* _admit_round.  At the head of its loop: cancellation, the budgets, then *)
(* the next call is admitted.                                              *)

Admitting == pc = "admit" /\ next <= Len(batch)
MayAdmit == Admitting /\ ~CancelRequested /\ BudgetTripReason = "none"

AdmissionCancelled ==
  /\ Admitting
  /\ CancelRequested
  /\ Finish("cancelled", "cancelled")
  /\ UNCHANGED <<turn, retried, inputVars, budgetVars, storeVars, authorityVars, ghostVars>>

\* A tripped budget ends the turn without answering the rest of the batch.
BudgetTrips_Unanswered ==
  /\ Admitting
  /\ ~CancelRequested
  /\ BudgetTripReason # "none"
  /\ Finish("budget_exhausted", BudgetTripReason)
  /\ UNCHANGED <<turn, retried, inputVars, budgetVars, storeVars, authorityVars, ghostVars>>

BudgetTrips ==
  /\ Admitting
  /\ ~CancelRequested
  /\ BudgetTripReason # "none"
  /\ pc' = "skip" /\ reason' = BudgetTripReason
  /\ UNCHANGED <<state, turn, retried, inputVars, roundVars, budgetVars, storeVars,
                 authorityVars, ghostVars>>

\* The envelope, the tool name or the arguments do not validate.
AdmitInvalid ==
  /\ MayAdmit
  /\ ~FactsOf[Content].valid
  /\ state' = "admitting"
  /\ callsSeen' = callsSeen + 1
  /\ Emit(<<Event("tool_result")>>)
  /\ RecordResult("invalid")
  /\ UNCHANGED <<pc, turn, retried, reason, callsExecuted, output, seen, inputVars,
                 authorityVars, ghostVars>>

\* A valid call enters the duplicate register.
CountOccurrence ==
  /\ FactsOf[Content].valid
  /\ callsSeen' = callsSeen + 1
  /\ seen' = [seen EXCEPT ![Content] = @ + 1]

IsDuplicate_OffByOne == seen[Content] > MaxDuplicates
IsDuplicate == seen[Content] + 1 > MaxDuplicates

AdmitDuplicate ==
  /\ MayAdmit
  /\ CountOccurrence
  /\ IsDuplicate
  /\ state' = "admitting"
  /\ Emit(<<Event("tool_result")>>)
  /\ RecordResult("duplicate_call")
  /\ pc' = "skip" /\ reason' = "duplicates"
  /\ UNCHANGED <<turn, retried, callsExecuted, output, inputVars, authorityVars, ghostVars>>

AdmitDenied ==
  /\ MayAdmit
  /\ CountOccurrence
  /\ ~IsDuplicate
  /\ CurrentDisposition = "deny"
  /\ state' = "admitting"
  /\ Emit(<<Event("policy_decision"), Event("tool_result")>>)
  /\ Settle("policy_denied", 0)
  /\ UNCHANGED <<turn, retried, callsExecuted, inputVars, authorityVars, ghostVars>>

AdmitAllowed ==
  /\ MayAdmit
  /\ CountOccurrence
  /\ ~IsDuplicate
  /\ CurrentDisposition = "allow"
  /\ state' = "admitting"
  /\ Emit(<<Event("policy_decision")>>)
  /\ pc' = "decided"
  /\ UNCHANGED <<turn, retried, reason, callsExecuted, output, inputVars, roundVars,
                 authorityVars, ghostVars>>

\* A file mutation whose preview cannot be planned never becomes a prompt.
AdmitUnplannable ==
  /\ MayAdmit
  /\ CountOccurrence
  /\ ~IsDuplicate
  /\ CurrentDisposition = "require_approval"
  /\ IsMutation
  /\ state' = "admitting"
  /\ Emit(<<Event("tool_result")>>)
  /\ Settle("plan_error", 0)
  /\ UNCHANGED <<turn, retried, callsExecuted, inputVars, authorityVars, ghostVars>>

AdmitGated ==
  /\ MayAdmit
  /\ CountOccurrence
  /\ ~IsDuplicate
  /\ CurrentDisposition = "require_approval"
  /\ state' = "awaiting_approval"
  /\ Emit(<<Event("policy_decision"), Event("approval_requested")>>)
  /\ pc' = "asked"
  /\ UNCHANGED <<turn, retried, reason, callsExecuted, output, inputVars, roundVars,
                 authorityVars, ghostVars>>

StepsSpent == steps' >= MaxSteps

\* The batch is exhausted: the round is recorded and the step budget read.
RoundAdmitted ==
  /\ pc = "admit"
  /\ next > Len(batch)
  /\ RecordRound
  /\ IF StepsSpent
     THEN state' = "budget_exhausted" /\ reason' = "budget_steps" /\ pc' = "ended"
     ELSE pc' = "loop" /\ UNCHANGED <<state, reason>>
  /\ UNCHANGED <<turn, retried, inputVars, budgetVars, storeVars, authorityVars, ghostVars>>

\* _skip_remaining: one terminal result per call the budget never admitted.
SkipCall ==
  /\ pc = "skip"
  /\ next <= Len(batch)
  /\ Emit(<<Event("tool_result")>>)
  /\ RecordResult("budget_exhausted")
  /\ UNCHANGED <<state, pc, turn, retried, reason, inputVars, budgetVars, authorityVars,
                 ghostVars>>

\* _terminate
SkipDone ==
  /\ pc = "skip"
  /\ next > Len(batch)
  /\ Finish("budget_exhausted", reason)
  /\ UNCHANGED <<turn, retried, inputVars, budgetVars, storeVars, authorityVars, ghostVars>>

-----------------------------------------------------------------------------
(* _admit_validated, past the policy decision. *)

\* _raise_if_cancelled: a pending cancellation ends the turn here.
CancelledAt(point) ==
  /\ pc = point
  /\ CancelRequested
  /\ Finish("cancelled", "cancelled")
  /\ UNCHANGED <<turn, retried, inputVars, budgetVars, storeVars, authorityVars, ghostVars>>

StartAllowed ==
  /\ pc = "decided"
  /\ ~CancelRequested
  /\ state' = "executing" /\ pc' = "dispatch"
  /\ UNCHANGED <<turn, retried, reason, inputVars, roundVars, budgetVars, storeVars,
                 authorityVars, ghostVars>>

AskUser ==
  /\ pc = "asked"
  /\ ~CancelRequested
  /\ pc' = "consent"
  /\ UNCHANGED <<state, turn, retried, reason, inputVars, roundVars, budgetVars,
                 storeVars, authorityVars, ghostVars>>

\* A denial is read as an answer like any other and the call goes on.
UserDenies_GoesOn ==
  /\ pc = "consent"
  /\ pc' = "granted"
  /\ UNCHANGED <<state, turn, retried, reason, inputVars, roundVars, budgetVars,
                 storeVars, authorityVars, ghostVars>>

UserDenies ==
  /\ pc = "consent"
  /\ state' = "admitting"
  /\ Emit(<<Event("approval_denied"), Event("tool_result")>>)
  /\ Settle("approval_denied", 0)
  /\ UNCHANGED <<turn, retried, callsSeen, callsExecuted, seen, inputVars, authorityVars,
                 ghostVars>>

UserApproves ==
  /\ pc = "consent"
  /\ pc' = "granted"
  /\ consented' = consented \cup {CurrentCall}
  /\ UNCHANGED <<state, turn, retried, reason, inputVars, roundVars, budgetVars,
                 storeVars, authorityVars, started, lateStarts>>

IssueToken ==
  /\ pc = "granted"
  /\ ~CancelRequested
  /\ Authority!Issue(CurrentPlan)
  /\ token' = issued'
  /\ state' = "executing" /\ pc' = "dispatch"
  /\ UNCHANGED <<turn, retried, reason, inputVars, roundVars, budgetVars, storeVars,
                 ghostVars>>

\* execute_validated_call up to the handler: an approved call spends its
\* token first, and the handler runs only when the token was honored.
Dispatch ==
  /\ pc = "dispatch"
  /\ pc' = "handler"
  /\ Authority!Burn(token)
  /\ token' = 0
  /\ IF token = 0 \/ Authority!Honors(token, CurrentPlan)
     THEN /\ started' = started \cup {CurrentCall}
          /\ lateStarts' = IF cancel THEN lateStarts + 1 ELSE lateStarts
     ELSE UNCHANGED <<started, lateStarts>>
  /\ UNCHANGED <<state, turn, retried, reason, inputVars, roundVars, budgetVars,
                 storeVars, consented>>

\* execute_validated_call returned: a result or a typed error of the handler,
\* or approval_invalid when it never ran.
HandlerReturns(code, size) ==
  /\ pc = "handler"
  /\ code \in IF CurrentCall \in started THEN {"ok", "handler_error"}
                                         ELSE {"approval_invalid"}
  /\ code # "ok" => size = 0
  /\ state' = "admitting"
  /\ callsExecuted' = callsExecuted + 1
  /\ Emit(IF CurrentDisposition = "allow"
          THEN <<Event("tool_result")>>
          ELSE <<Event("approval_granted"), Event("tool_result")>>)
  /\ Settle(code, size)
  /\ UNCHANGED <<turn, retried, callsSeen, seen, inputVars, authorityVars, ghostVars>>

\* KeyboardInterrupt inside a handler: the turn ends as a cancellation.
HandlerInterrupted ==
  /\ pc = "handler"
  /\ CurrentCall \in started
  /\ Finish("cancelled", "cancelled")
  /\ UNCHANGED <<turn, retried, inputVars, budgetVars, storeVars, authorityVars, ghostVars>>

-----------------------------------------------------------------------------
(* The environment: the user asks to stop; the turn's time runs out. *)

Active == pc \notin {"idle", "ended"}

RequestCancel ==
  /\ Active /\ ~cancel
  /\ cancel' = TRUE
  /\ UNCHANGED <<state, pc, turn, retried, reason, late, roundVars, budgetVars, storeVars,
                 authorityVars, ghostVars>>

TimePasses ==
  /\ Active /\ ~late
  /\ late' = TRUE
  /\ UNCHANGED <<state, pc, turn, retried, reason, cancel, roundVars, budgetVars, storeVars,
                 authorityVars, ghostVars>>

Batches == UNION { [1..n -> Contents] : n \in 1..MaxBatch }

StreamStep ==
  \/ StreamCancelled
  \/ \E transient \in BOOLEAN : StreamFailed(transient)
  \/ StreamCompleted
  \/ \E calls \in Batches : StreamProposed(calls)

AdmitStep ==
  \/ AdmissionCancelled \/ BudgetTrips
  \/ AdmitInvalid \/ AdmitDuplicate \/ AdmitDenied \/ AdmitAllowed
  \/ AdmitUnplannable \/ AdmitGated
  \/ RoundAdmitted \/ SkipCall \/ SkipDone

ExecuteStep ==
  \/ \E point \in {"decided", "asked", "granted"} : CancelledAt(point)
  \/ StartAllowed \/ AskUser \/ IssueToken \/ Dispatch

HandlerStep ==
  \/ \E code \in ResultCodes, size \in OutputSizes \cup {0} : HandlerReturns(code, size)
  \/ HandlerInterrupted

EngineStep == OpenRound \/ StreamStep \/ AdmitStep \/ ExecuteStep \/ HandlerStep

UserAnswers == UserDenies \/ UserApproves

Next == BeginTurn \/ EngineStep \/ UserAnswers \/ RequestCancel \/ TimePasses

Spec == Init /\ [][Next]_vars

\* The engine's thread keeps running, streams and handlers return (both are
\* bounded by timeouts); nothing obliges the user to answer, to cancel or to
\* send another message.
FairSpec == Spec /\ WF_vars(EngineStep)
-----------------------------------------------------------------------------
TypeOK ==
  /\ state \in States
  /\ pc \in PCs
  /\ turn \in 0..MaxTurns
  /\ cancel \in BOOLEAN /\ late \in BOOLEAN /\ retried \in BOOLEAN
  /\ steps \in 0..MaxSteps
  /\ callsSeen \in Nat /\ callsExecuted \in Nat /\ output \in Nat
  /\ seen \in [Contents -> Nat]
  /\ batch \in Seq(Contents) /\ Len(batch) <= MaxBatch
  /\ next \in Nat \ {0}
  /\ pendingResults \in Seq(ResultCodes)
  /\ rounds \in Seq([calls : Seq(Contents), results : Seq(ResultCodes)])
  /\ reason \in Reasons
  /\ log \in Seq(Events)
  /\ storeFailures \in 0..MaxStoreFailures
  /\ Authority!AuthorityTypeOK
  /\ token \in 0..issued
  /\ proposed \subseteq CallRefs /\ answered \subseteq CallRefs
  /\ started \subseteq CallsMade
  /\ consented \subseteq CallsMade
  /\ lateStarts \in Nat

\* No handler runs before validation, policy and - where policy asks for it -
\* the user's own yes to that very call; a denied call never runs.
ConsentBeforeExecution ==
  \A s \in started :
    LET facts == FactsOf[s.content]
        disposition == Disposition(facts, Granted, Workspace)
    IN  /\ facts.valid
        /\ disposition # "deny"
        /\ disposition = "require_approval" => s \in consented

\* A grant is spent by the execution it was given for: none is outstanding
\* anywhere else, so none can be remembered, replayed or left by a turn that
\* was cancelled between the user's yes and the handler.
NoStandingGrant == outstanding # {} => pc = "dispatch" /\ token # 0

Logged(type) == { log[i].call : i \in {j \in DOMAIN log : log[j].type = type} }

LoggedProposals == Logged("tool_call_proposed")
LoggedResults == Logged("tool_result")

\* A call is never answered twice, on any path through budgets, duplicates,
\* denials and skips, and never before it was proposed.
OneTerminalResult ==
  /\ \A i, j \in DOMAIN log :
        log[i].type = "tool_result" /\ log[j] = log[i] => i = j
  /\ storeFailures = 0 =>
        \A i \in DOMAIN log : log[i].type # "tool_call_proposed" =>
           \E j \in 1..(i - 1) : log[j] = [log[i] EXCEPT !.type = "tool_call_proposed"]

\* A turn that was not cancelled leaves no call unanswered: every recorded
\* round holds one result per proposed call, in order, and - unless the store
\* failed - the log says the same; a cancelled one leaves at most the tail of
\* its last round open.
RoundsAnswered ==
  /\ \A r \in DOMAIN rounds :
        \/ Len(rounds[r].results) = Len(rounds[r].calls)
        \/ /\ state = "cancelled" /\ r = Len(rounds)
           /\ Len(rounds[r].results) < Len(rounds[r].calls)
  /\ pc = "ended" /\ state # "cancelled" /\ storeFailures = 0 =>
        {c \in LoggedProposals : c.turn = turn} \subseteq LoggedResults

\* The per-turn budgets bound the work of a turn, whatever is proposed.
BudgetsHold ==
  /\ callsSeen <= MaxCalls
  /\ steps <= MaxSteps
  /\ \A c \in Contents :
        Cardinality({s \in started : s.call.turn = turn /\ s.content = c}) <= MaxDuplicates
  /\ Cardinality({s \in started : s.call.turn = turn}) <= callsSeen
  /\ output > MaxOutput => pc \in {"skip", "ended"}

\* Cancellation is polled, not immediate - but once it is requested at most
\* one more handler starts: the one already past its last poll.
CancelStopsHandlers == lateStarts <= 1

\* An approval request closes the call it is about.
PendingIds_RequestCloses ==
  { CallId(c) : c \in LoggedProposals }
    \ { CallId(c) : c \in LoggedResults \cup Logged("approval_requested") }

\* EventStore.pending_tool_calls: ids proposed and never answered, by id.
PendingIds ==
  { CallId(c) : c \in LoggedProposals }
    \ { CallId(c) : c \in LoggedResults \cup Logged("approval_denied") }

\* Interrupted work stays visible: the call of a handler that has run and has
\* no logged result is reported as pending by the event log.
InterruptedRunIsPending ==
  storeFailures = 0 =>
    \A s \in started : s.call \notin LoggedResults => CallId(s.call) \in PendingIds

\* Every turn ends, or comes to wait for the user's decision on an approval.
TurnEndsOrAwaitsUser == Active ~> (pc \in {"ended", "consent"})

\* What the engine promises of each call, as an abstract ledger.  Calls of
\* the open round that are still to be answered are proposed, or running; a
\* call whose round was recorded without its result was abandoned.
StatusOf(c) ==
  IF c \notin proposed THEN "unknown"
  ELSE IF c \in answered THEN "answered"
  ELSE IF batch # <<>> /\ c.turn = turn /\ c.round = steps + 1
       THEN IF pc = "handler" /\ c = Current /\ CurrentCall \in started
            THEN "running" ELSE "proposed"
  ELSE "abandoned"

Ledger == INSTANCE CallLedger WITH
            Calls <- CallRefs,
            status <- [c \in CallRefs |-> StatusOf(c)]

ImplementsCallLedger == Ledger!LedgerSpec

\* What README says of every turn: each call of a recorded round has its
\* terminal result.
EveryCallAnswered ==
  \A r \in DOMAIN rounds : Len(rounds[r].results) = Len(rounds[r].calls)
=============================================================================
