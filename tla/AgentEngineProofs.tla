-------------------------- MODULE AgentEngineProofs --------------------------
(***************************************************************************)
(* Proofs about AgentEngine for every set of calls, every policy facts and *)
(* every budget: type correctness; that no handler runs without the        *)
(* consent policy asks for and no grant stands between executions; that    *)
(* cancellation stops handlers; that the engine implements the call        *)
(* ledger; that results are terminal, rounds answered, interrupted runs    *)
(* pending in the log; and that the budgets hold.                          *)
(***************************************************************************)
EXTENDS AgentEngine, TLAPS, SequenceTheorems, FiniteSetTheorems

\* The points at which the call at position `next` is being admitted.
AtCall == {"decided", "asked", "consent", "granted", "dispatch", "handler"}
Outside == {"idle", "loop", "stream", "ended"}

\* Between rounds nothing is being admitted; inside one, the turn, the round
\* and the position name the call.
PositionInv ==
  /\ pc \in Outside <=> batch = <<>>
  /\ Active => turn \in 1..MaxTurns /\ steps < MaxSteps
  /\ pc \in AtCall => next <= Len(batch)

\* What admission has established of the current call at each point.
AdmissionInv ==
  /\ pc \in AtCall => FactsOf[Content].valid
  /\ pc = "decided" => CurrentDisposition = "allow"
  /\ pc \in {"asked", "consent", "granted"} => CurrentDisposition = "require_approval"
  /\ pc = "granted" => CurrentCall \in consented
  /\ pc = "dispatch" =>
       \/ token = 0 /\ CurrentDisposition = "allow"
       \/ CurrentDisposition = "require_approval" /\ CurrentCall \in consented

\* A token is in hand only on the way to its execution, and whatever is
\* outstanding carries it.
GrantInv ==
  /\ token # 0 => pc = "dispatch"
  /\ \A g \in outstanding : g.token = token

IInv == TypeOK /\ PositionInv /\ AdmissionInv /\ GrantInv /\ ConsentBeforeExecution

-----------------------------------------------------------------------------
USE EngineAssumption DEF EngineAssumption, CancelRequested, MayRetry, StepsSpent

\* The call being admitted has a name and a content.
LEMMA CurrentCallType ==
  ASSUME TypeOK, PositionInv, pc \notin Outside, next <= Len(batch)
  PROVE  /\ Current \in CallRefs
         /\ Content \in Contents
         /\ CurrentCall \in CallsMade
         /\ CurrentPlan \in ActionPlans
  <1>1. Content \in Contents
    BY DEF TypeOK, Content
  <1>2. Current \in CallRefs
    BY DEF TypeOK, PositionInv, Active, Outside, Current, CallRefs
  <1>3. CurrentPlan \in ActionPlans
    BY <1>1, <1>2 DEF CurrentPlan, PlanOf, ActionPlans, CallIds
  <1> QED
    BY <1>1, <1>2, <1>3 DEF CurrentCall, CallsMade

LEMMA EmitType ==
  ASSUME TypeOK, NEW events \in Seq(Events), Emit(events)
  PROVE  log' \in Seq(Events) /\ storeFailures' \in 0..MaxStoreFailures
  <1>1. log \in Seq(Events) /\ storeFailures \in 0..MaxStoreFailures
    BY DEF TypeOK
  <1>2. log \o events \in Seq(Events)
    BY <1>1
  <1>3. log' \in Seq(Events)
    BY <1>1, <1>2 DEF Emit
  <1>4. storeFailures' \in 0..MaxStoreFailures
    BY <1>1 DEF Emit
  <1> QED
    BY <1>3, <1>4

LEMMA RecordResultType ==
  ASSUME TypeOK, PositionInv, pc \notin Outside, next <= Len(batch),
         NEW code \in ResultCodes, RecordResult(code)
  PROVE  /\ pendingResults' \in Seq(ResultCodes)
         /\ next' \in Nat \ {0}
         /\ answered' \subseteq CallRefs
         /\ batch' = batch /\ rounds' = rounds /\ steps' = steps /\ proposed' = proposed
  BY CurrentCallType DEF TypeOK, RecordResult

\* Abandoned or complete, a recorded round leaves nothing being admitted.
LEMMA RecordRoundType ==
  ASSUME TypeOK, PositionInv, Active, RecordRound
  PROVE  /\ rounds' \in Seq([calls : Seq(Contents), results : Seq(ResultCodes)])
         /\ steps' \in 0..MaxSteps
         /\ batch' = <<>>
         /\ pendingResults' \in Seq(ResultCodes)
         /\ next' \in Nat \ {0}
         /\ proposed' = proposed /\ answered' = answered
  <1> DEFINE Rounds == [calls : Seq(Contents), results : Seq(ResultCodes)]
  <1>1. /\ rounds \in Seq(Rounds) /\ batch \in Seq(Contents)
        /\ pendingResults \in Seq(ResultCodes)
        /\ next \in Nat \ {0} /\ steps \in 0..MaxSteps /\ steps < MaxSteps
    BY DEF TypeOK, PositionInv
  <1>2. CASE batch = <<>>
    BY <1>1, <1>2 DEF RecordRound, roundVars
  <1>3. CASE batch # <<>>
    <2>1. [calls |-> batch, results |-> pendingResults] \in Rounds
      BY <1>1
    <2> HIDE DEF Rounds
    <2>2. Append(rounds, [calls |-> batch, results |-> pendingResults]) \in Seq(Rounds)
      BY <1>1, <2>1
    <2>3. rounds' \in Seq(Rounds)
      BY <1>3, <2>2 DEF RecordRound
    <2>4. steps' \in 0..MaxSteps
      BY <1>1, <1>3 DEF RecordRound
    <2>5. batch' = <<>> /\ pendingResults' = <<>> /\ next' = 1
      BY <1>3 DEF RecordRound
    <2>6. proposed' = proposed /\ answered' = answered
      BY <1>3 DEF RecordRound
    <2>7. pendingResults' \in Seq(ResultCodes)
      BY <2>5
    <2> USE DEF Rounds
    <2> QED
      BY <2>3, <2>4, <2>5, <2>6, <2>7
  <1> QED
    BY <1>2, <1>3

-----------------------------------------------------------------------------
(* What steps of one kind keep. *)

\* The call at hand is the same as long as batch and position are.
LEMMA SameCall ==
  ASSUME UNCHANGED <<turn, steps, batch, next>>
  PROVE  /\ Current' = Current /\ Content' = Content
         /\ CurrentCall' = CurrentCall /\ CurrentDisposition' = CurrentDisposition
  <1>1. Current' = Current /\ Content' = Content
    BY DEF Current, Content
  <1> QED
    BY <1>1 DEF CurrentCall, CurrentDisposition

\* Away from dispatch nothing is in hand, so nothing is outstanding.
LEMMA UnheldStep ==
  ASSUME IInv, pc # "dispatch", UNCHANGED <<authorityVars, started, consented>>
  PROVE  GrantInv' /\ ConsentBeforeExecution'
  BY DEF IInv, GrantInv, ConsentBeforeExecution, authorityVars, TypeOK

LEMMA AwayStep ==
  ASSUME pc' \notin AtCall
  PROVE  AdmissionInv'
  BY DEF AdmissionInv, AtCall

\* A turn may end at every point but the two between a spent grant and its
\* handler, and leaves nothing behind.
LEMMA FinishStep ==
  ASSUME IInv, Active, pc # "dispatch",
         NEW status \in States, NEW why \in Reasons, Finish(status, why),
         UNCHANGED <<turn, retried, inputVars, budgetVars, storeVars, authorityVars, ghostVars>>
  PROVE  IInv'
  <1>1. /\ rounds' \in Seq([calls : Seq(Contents), results : Seq(ResultCodes)])
        /\ steps' \in 0..MaxSteps /\ batch' = <<>>
        /\ pendingResults' \in Seq(ResultCodes) /\ next' \in Nat \ {0}
        /\ proposed' = proposed /\ answered' = answered
    BY RecordRoundType DEF Finish, IInv
  <1>2. /\ batch' \in Seq(Contents) /\ Len(batch') <= MaxBatch
    BY <1>1
  <1>3. state' = status /\ reason' = why /\ pc' = "ended"
    BY DEF Finish
  <1>4. TypeOK'
    BY <1>1, <1>2, <1>3 DEF IInv, TypeOK, PCs, inputVars, budgetVars, storeVars,
       authorityVars, ghostVars, Authority!AuthorityTypeOK
  <1>5. PositionInv'
    BY <1>1, <1>3 DEF PositionInv, Active, Outside, AtCall
  <1> QED
    BY <1>3, <1>4, <1>5, UnheldStep, AwayStep DEF IInv, AtCall, ghostVars

\* A call settled at its own position leads on to the next one, or to the
\* skipping of the rest.
LEMMA SettleStep ==
  ASSUME IInv, pc \notin Outside, next <= Len(batch), pc # "dispatch",
         NEW code \in ResultCodes, NEW size \in Nat, Settle(code, size),
         NEW events \in Seq(Events), Emit(events),
         state' \in States, callsSeen' \in Nat, callsExecuted' \in Nat,
         seen' \in [Contents -> Nat],
         UNCHANGED <<turn, retried, inputVars, authorityVars, ghostVars>>
  PROVE  IInv'
  <1>1. log' \in Seq(Events) /\ storeFailures' \in 0..MaxStoreFailures
    BY EmitType DEF IInv
  <1>2. /\ pendingResults' \in Seq(ResultCodes) /\ next' \in Nat \ {0}
        /\ answered' \subseteq CallRefs
        /\ batch' = batch /\ rounds' = rounds /\ steps' = steps /\ proposed' = proposed
    BY RecordResultType DEF IInv, Settle
  <1>3. output' \in Nat
    BY DEF IInv, TypeOK, Settle
  <1>4. pc' \in {"admit", "skip"} /\ reason' \in Reasons
    BY DEF IInv, TypeOK, Settle, Reasons
  <1>5. TypeOK'
    BY <1>1, <1>2, <1>3, <1>4 DEF IInv, TypeOK, PCs, inputVars, authorityVars, ghostVars,
       Authority!AuthorityTypeOK
  <1>6. PositionInv'
    BY <1>2, <1>4 DEF IInv, PositionInv, Active, Outside, AtCall
  <1> QED
    BY <1>4, <1>5, <1>6, UnheldStep, AwayStep DEF IInv, AtCall, ghostVars

-----------------------------------------------------------------------------
(* The initial state, and the actions one by one. *)

LEMMA InitIInv == Init => IInv
  <1> SUFFICES ASSUME Init PROVE IInv
    OBVIOUS
  <1>1. /\ state = "idle" /\ pc = "idle" /\ turn = 0 /\ reason = "none"
        /\ cancel \in BOOLEAN /\ late \in BOOLEAN /\ retried \in BOOLEAN
        /\ steps = 0 /\ callsSeen = 0 /\ callsExecuted = 0 /\ output = 0
        /\ next = 1 /\ storeFailures = 0 /\ lateStarts = 0
        /\ outstanding = {} /\ issued = 0 /\ token = 0
        /\ proposed = {} /\ answered = {} /\ started = {} /\ consented = {}
    BY DEF Init, Authority!AuthorityInit
  <1>2. batch = <<>> /\ pendingResults = <<>> /\ rounds = <<>> /\ log = <<>>
    BY DEF Init
  <1>3. seen = [c \in Contents |-> 0]
    BY DEF Init
  <1>4. TypeOK
    <2>1. batch \in Seq(Contents) /\ Len(batch) <= MaxBatch
      BY <1>2
    <2>2. /\ pendingResults \in Seq(ResultCodes) /\ log \in Seq(Events)
          /\ rounds \in Seq([calls : Seq(Contents), results : Seq(ResultCodes)])
      BY <1>2
    <2>3. seen \in [Contents -> Nat]
      BY <1>3
    <2> QED
      BY <1>1, <2>1, <2>2, <2>3 DEF TypeOK, States, PCs, Reasons, Authority!AuthorityTypeOK
  <1>5. PositionInv /\ AdmissionInv
    BY <1>1, <1>2 DEF PositionInv, AdmissionInv, Outside, AtCall, Active
  <1>6. GrantInv /\ ConsentBeforeExecution
    BY <1>1 DEF GrantInv, ConsentBeforeExecution
  <1> QED
    BY <1>4, <1>5, <1>6 DEF IInv

LEMMA BeginTurnStep == IInv /\ BeginTurn => IInv'
  <1> SUFFICES ASSUME IInv, BeginTurn PROVE IInv'
    OBVIOUS
  <1>1. /\ pc # "dispatch" /\ turn < MaxTurns /\ turn' = turn + 1
        /\ state' = "idle" /\ pc' = "loop" /\ reason' = "none"
        /\ cancel' \in BOOLEAN /\ late' \in BOOLEAN /\ retried' \in BOOLEAN
        /\ steps' = 0 /\ callsSeen' = 0 /\ callsExecuted' = 0 /\ output' = 0
        /\ next' = 1 /\ lateStarts' = 0
        /\ UNCHANGED <<storeVars, authorityVars, proposed, answered, started, consented>>
    BY DEF BeginTurn
  <1>2. batch' = <<>> /\ pendingResults' = <<>> /\ rounds' = <<>>
    BY DEF BeginTurn
  <1>3. seen' = [c \in Contents |-> 0]
    BY DEF BeginTurn
  <1>4. TypeOK'
    <2>1. batch' \in Seq(Contents) /\ Len(batch') <= MaxBatch
      BY <1>2
    <2>2. /\ pendingResults' \in Seq(ResultCodes)
          /\ rounds' \in Seq([calls : Seq(Contents), results : Seq(ResultCodes)])
      BY <1>2
    <2>3. seen' \in [Contents -> Nat]
      BY <1>3
    <2>4. /\ log' \in Seq(Events)
          /\ storeFailures' \in 0..MaxStoreFailures
          /\ Authority!AuthorityTypeOK'
          /\ token' \in 0..issued'
          /\ proposed' \subseteq CallRefs /\ answered' \subseteq CallRefs
          /\ started' \subseteq CallsMade /\ consented' \subseteq CallsMade
      BY <1>1 DEF IInv, TypeOK, storeVars, authorityVars, Authority!AuthorityTypeOK
    <2>5. /\ state' \in States /\ pc' \in PCs /\ reason' \in Reasons
          /\ cancel' \in BOOLEAN /\ late' \in BOOLEAN /\ retried' \in BOOLEAN
      BY <1>1 DEF States, PCs, Reasons
    <2>6. /\ turn' \in 0..MaxTurns /\ steps' \in 0..MaxSteps
          /\ callsSeen' \in Nat /\ callsExecuted' \in Nat /\ output' \in Nat
          /\ next' \in Nat \ {0} /\ lateStarts' \in Nat
      BY <1>1 DEF IInv, TypeOK
    <2> QED
      BY <2>1, <2>2, <2>3, <2>4, <2>5, <2>6 DEF TypeOK
  <1>5. PositionInv'
    BY <1>1, <1>2 DEF IInv, TypeOK, PositionInv, Active, Outside, AtCall
  <1> QED
    BY <1>1, <1>4, <1>5, UnheldStep, AwayStep DEF IInv, AtCall

LEMMA OpenRoundStep == IInv /\ OpenRound => IInv'
  <1> SUFFICES ASSUME IInv, OpenRound PROVE IInv'
    OBVIOUS
  <1>1. CASE cancel
    BY <1>1, FinishStep DEF OpenRound, Active, States, Reasons
  <1>2. CASE ~cancel /\ BudgetTripReason # "none"
    <2>1. BudgetTripReason \in Reasons
      BY DEF BudgetTripReason, Reasons
    <2> QED
      BY <1>2, <2>1, FinishStep DEF OpenRound, Active, States
  <1>3. CASE ~cancel /\ BudgetTripReason = "none"
    <2>1. TypeOK'
      BY <1>3 DEF OpenRound, IInv, TypeOK, States, PCs, inputVars, roundVars, budgetVars,
         storeVars, authorityVars, ghostVars, Authority!AuthorityTypeOK
    <2>2. PositionInv'
      BY <1>3 DEF OpenRound, IInv, PositionInv, Active, Outside, AtCall, roundVars
    <2> QED
      BY <1>3, <2>1, <2>2, UnheldStep, AwayStep DEF OpenRound, IInv, AtCall, ghostVars
  <1> QED
    BY <1>1, <1>2, <1>3

LEMMA StreamStepKeeps == IInv /\ StreamStep => IInv'
  <1> SUFFICES ASSUME IInv, StreamStep PROVE IInv'
    OBVIOUS
  <1>1. CASE StreamCancelled
    BY <1>1, FinishStep DEF StreamCancelled, Active, States, Reasons
  <1>2. ASSUME NEW transient \in BOOLEAN, StreamFailed(transient) PROVE IInv'
    <2>1. CASE transient /\ ~retried
      <3>1. TypeOK'
        BY <1>2, <2>1 DEF StreamFailed, IInv, TypeOK, PCs, inputVars, roundVars, budgetVars,
           storeVars, authorityVars, ghostVars, Authority!AuthorityTypeOK
      <3>2. PositionInv'
        BY <1>2, <2>1 DEF StreamFailed, IInv, PositionInv, Active, Outside, AtCall, roundVars
      <3> QED
        BY <1>2, <2>1, <3>1, <3>2, UnheldStep, AwayStep DEF StreamFailed, IInv, AtCall, ghostVars
    <2>2. CASE ~(transient /\ ~retried)
      BY <1>2, <2>2, FinishStep DEF StreamFailed, Active, States, Reasons
    <2> QED
      BY <2>1, <2>2
  <1>3. CASE StreamCompleted
    BY <1>3, FinishStep DEF StreamCompleted, Active, States, Reasons
  <1>4. ASSUME NEW calls \in Batches, StreamProposed(calls) PROVE IInv'
    <2> DEFINE Ref(i) == [turn |-> turn, round |-> steps + 1, index |-> i]
               events == [i \in DOMAIN calls |->
                            [type |-> "tool_call_proposed", call |-> Ref(i)]]
    <2>1. PICK n \in 1..MaxBatch : calls \in [1..n -> Contents]
      BY DEF Batches
    <2>2. calls \in Seq(Contents) /\ Len(calls) = n /\ DOMAIN calls = 1..n /\ calls # <<>>
      BY <2>1
    <2>3. turn \in 1..MaxTurns /\ steps + 1 \in 1..MaxSteps
      BY <1>4 DEF StreamProposed, IInv, TypeOK, PositionInv, Active
    <2>4. \A i \in DOMAIN calls : Ref(i) \in CallRefs
      BY <2>1, <2>2, <2>3 DEF CallRefs
    <2>5. events \in [1..n -> Events]
      BY <2>2, <2>4 DEF Events, EventTypes
    <2>6. events \in Seq(Events)
      BY <2>1, <2>5
    <2>7. Emit(events)
      BY <1>4 DEF StreamProposed
    <2>8. proposed' \subseteq CallRefs
      BY <1>4, <2>4 DEF StreamProposed, IInv, TypeOK
    <2> HIDE DEF events, Ref
    <2>9. log' \in Seq(Events) /\ storeFailures' \in 0..MaxStoreFailures
      BY <2>6, <2>7, EmitType DEF IInv
    <2>10. TypeOK'
      <3>1. batch' \in Seq(Contents) /\ Len(batch') <= MaxBatch
        BY <1>4, <2>1, <2>2 DEF StreamProposed
      <3>2. pendingResults' \in Seq(ResultCodes) /\ next' = 1
        BY <1>4 DEF StreamProposed
      <3> QED
        BY <1>4, <2>8, <2>9, <3>1, <3>2 DEF StreamProposed, IInv, TypeOK, States, PCs,
           inputVars, budgetVars, authorityVars, ghostVars, Authority!AuthorityTypeOK
    <2>11. PositionInv'
      BY <1>4, <2>2 DEF StreamProposed, IInv, PositionInv, Active, Outside, AtCall
    <2> QED
      BY <1>4, <2>10, <2>11, UnheldStep, AwayStep DEF StreamProposed, IInv, AtCall, ghostVars
  <1> QED
    BY <1>1, <1>2, <1>3, <1>4 DEF StreamStep

LEMMA EventType ==
  ASSUME TypeOK, PositionInv, pc \notin Outside, next <= Len(batch), NEW type \in EventTypes
  PROVE  Event(type) \in Events
  BY CurrentCallType DEF Event, Events

LEMMA CountOccurrenceType ==
  ASSUME TypeOK, Content \in Contents, CountOccurrence
  PROVE  callsSeen' \in Nat /\ seen' \in [Contents -> Nat]
  <1>1. callsSeen \in Nat /\ seen \in [Contents -> Nat]
    BY DEF TypeOK
  <1>2. callsSeen' = callsSeen + 1 /\ seen' = [seen EXCEPT ![Content] = @ + 1]
    BY DEF CountOccurrence
  <1>3. callsSeen' \in Nat
    BY <1>1, <1>2
  <1>4. seen' \in [Contents -> Nat]
    BY <1>1, <1>2
  <1> QED
    BY <1>3, <1>4

\* A call that needs no handler is settled in the step that admits it.
LEMMA AdmitSettledStep == IInv /\ (AdmitDenied \/ AdmitUnplannable) => IInv'
  <1> SUFFICES ASSUME IInv, AdmitDenied \/ AdmitUnplannable PROVE IInv'
    OBVIOUS
  <1>1. pc = "admit" /\ pc \notin Outside /\ next <= Len(batch)
    BY DEF AdmitDenied, AdmitUnplannable, MayAdmit, Admitting, Outside
  <1>2. Content \in Contents
    BY <1>1, CurrentCallType DEF IInv
  <1>3. callsSeen' \in Nat /\ seen' \in [Contents -> Nat]
    BY <1>2, CountOccurrenceType DEF AdmitDenied, AdmitUnplannable, IInv
  <1>4. state' \in States /\ callsExecuted' \in Nat
    BY DEF AdmitDenied, AdmitUnplannable, IInv, TypeOK, States
  <1>5. Event("policy_decision") \in Events /\ Event("tool_result") \in Events
    BY <1>1, EventType DEF IInv, EventTypes
  <1>6. /\ <<Event("tool_result")>> \in Seq(Events)
        /\ <<Event("policy_decision"), Event("tool_result")>> \in Seq(Events)
    BY <1>5
  <1>7. CASE AdmitDenied
    <2>1. "policy_denied" \in ResultCodes
      BY DEF ResultCodes
    <2>2. /\ Settle("policy_denied", 0)
          /\ Emit(<<Event("policy_decision"), Event("tool_result")>>)
          /\ UNCHANGED <<turn, retried, inputVars, authorityVars, ghostVars>>
      BY <1>7 DEF AdmitDenied
    <2> QED
      BY <1>1, <1>3, <1>4, <1>6, <2>1, <2>2, SettleStep
  <1>8. CASE AdmitUnplannable
    <2>1. "plan_error" \in ResultCodes
      BY DEF ResultCodes
    <2>2. /\ Settle("plan_error", 0)
          /\ Emit(<<Event("tool_result")>>)
          /\ UNCHANGED <<turn, retried, inputVars, authorityVars, ghostVars>>
      BY <1>8 DEF AdmitUnplannable
    <2> QED
      BY <1>1, <1>3, <1>4, <1>6, <2>1, <2>2, SettleStep
  <1> QED
    BY <1>7, <1>8

\* An invalid, repeated or skipped call only gets its result.
LEMMA AdmitAnsweredStep == IInv /\ (AdmitInvalid \/ AdmitDuplicate \/ SkipCall) => IInv'
  <1> SUFFICES ASSUME IInv, AdmitInvalid \/ AdmitDuplicate \/ SkipCall PROVE IInv'
    OBVIOUS
  <1>1. pc \in {"admit", "skip"} /\ pc \notin Outside /\ next <= Len(batch)
    BY DEF AdmitInvalid, AdmitDuplicate, SkipCall, MayAdmit, Admitting, Outside
  <1>2. Content \in Contents
    BY <1>1, CurrentCallType DEF IInv
  <1>3. <<Event("tool_result")>> \in Seq(Events)
    BY <1>1, EventType DEF IInv, EventTypes
  <1>4. Emit(<<Event("tool_result")>>)
    BY DEF AdmitInvalid, AdmitDuplicate, SkipCall
  <1>5. log' \in Seq(Events) /\ storeFailures' \in 0..MaxStoreFailures
    BY <1>3, <1>4, EmitType DEF IInv
  <1>6. PICK code \in ResultCodes : RecordResult(code)
    BY DEF AdmitInvalid, AdmitDuplicate, SkipCall, ResultCodes
  <1>7. /\ pendingResults' \in Seq(ResultCodes) /\ next' \in Nat \ {0}
        /\ answered' \subseteq CallRefs
        /\ batch' = batch /\ rounds' = rounds /\ steps' = steps /\ proposed' = proposed
    BY <1>1, <1>6, RecordResultType DEF IInv
  <1>8. callsSeen' \in Nat /\ seen' \in [Contents -> Nat]
    <2>1. callsSeen \in Nat /\ seen \in [Contents -> Nat] /\ seen[Content] \in Nat
      BY <1>2 DEF IInv, TypeOK
    <2>2. callsSeen' = callsSeen \/ callsSeen' = callsSeen + 1
      BY DEF AdmitInvalid, AdmitDuplicate, SkipCall, CountOccurrence, budgetVars
    <2>3. seen' = seen \/ seen' = [seen EXCEPT ![Content] = @ + 1]
      BY DEF AdmitInvalid, AdmitDuplicate, SkipCall, CountOccurrence, budgetVars
    <2> QED
      BY <2>1, <2>2, <2>3
  <1>9. pc' \in {"admit", "skip"} /\ state' \in States /\ reason' \in Reasons
    BY <1>1 DEF AdmitInvalid, AdmitDuplicate, SkipCall, IInv, TypeOK, States, Reasons
  <1>10. /\ UNCHANGED <<turn, retried, callsExecuted, output>>
         /\ UNCHANGED <<inputVars, authorityVars, ghostVars>>
    BY DEF AdmitInvalid, AdmitDuplicate, SkipCall, budgetVars
  <1>11. TypeOK'
    BY <1>5, <1>7, <1>8, <1>9, <1>10 DEF IInv, TypeOK, PCs, inputVars, authorityVars,
       ghostVars, Authority!AuthorityTypeOK
  <1>12. PositionInv'
    BY <1>1, <1>7, <1>9, <1>10 DEF IInv, PositionInv, Active, Outside, AtCall
  <1> QED
    BY <1>1, <1>9, <1>10, <1>11, <1>12, UnheldStep, AwayStep DEF IInv, AtCall, ghostVars

\* A call that goes on to its handler or to the user carries policy's word.
LEMMA AdmitOnwardStep == IInv /\ (AdmitAllowed \/ AdmitGated) => IInv'
  <1> SUFFICES ASSUME IInv, AdmitAllowed \/ AdmitGated PROVE IInv'
    OBVIOUS
  <1>1. pc = "admit" /\ pc \notin Outside /\ next <= Len(batch)
    BY DEF AdmitAllowed, AdmitGated, MayAdmit, Admitting, Outside
  <1>2. Content \in Contents
    BY <1>1, CurrentCallType DEF IInv
  <1>3. Event("policy_decision") \in Events /\ Event("approval_requested") \in Events
    BY <1>1, EventType DEF IInv, EventTypes
  <1>4. PICK events \in Seq(Events) : Emit(events)
    <2>1. /\ <<Event("policy_decision")>> \in Seq(Events)
          /\ <<Event("policy_decision"), Event("approval_requested")>> \in Seq(Events)
      BY <1>3
    <2>2. \/ Emit(<<Event("policy_decision")>>)
          \/ Emit(<<Event("policy_decision"), Event("approval_requested")>>)
      BY DEF AdmitAllowed, AdmitGated
    <2> QED
      BY <2>1, <2>2
  <1>5. log' \in Seq(Events) /\ storeFailures' \in 0..MaxStoreFailures
    BY <1>4, EmitType DEF IInv
  <1>6. callsSeen' \in Nat /\ seen' \in [Contents -> Nat]
    BY <1>2, CountOccurrenceType DEF AdmitAllowed, AdmitGated, IInv
  <1>7. /\ UNCHANGED <<turn, retried, reason, callsExecuted, output>>
        /\ UNCHANGED <<inputVars, roundVars, authorityVars, ghostVars>>
    BY DEF AdmitAllowed, AdmitGated
  <1>8. pc' \in {"decided", "asked"} /\ state' \in States
    BY DEF AdmitAllowed, AdmitGated, IInv, TypeOK, States
  <1>9. TypeOK'
    BY <1>5, <1>6, <1>7, <1>8 DEF IInv, TypeOK, PCs, inputVars, roundVars, authorityVars,
       ghostVars, Authority!AuthorityTypeOK
  <1>10. PositionInv'
    BY <1>1, <1>7, <1>8 DEF IInv, PositionInv, Active, Outside, AtCall, roundVars
  <1>11. Content' = Content /\ CurrentDisposition' = CurrentDisposition
    BY <1>7, SameCall DEF roundVars
  <1>12. AdmissionInv'
    BY <1>8, <1>11 DEF AdmissionInv, AtCall, AdmitAllowed, AdmitGated, CountOccurrence
  <1> QED
    BY <1>1, <1>7, <1>9, <1>10, <1>12, UnheldStep DEF IInv, ghostVars

LEMMA RoundAdmittedStep == IInv /\ RoundAdmitted => IInv'
  <1> SUFFICES ASSUME IInv, RoundAdmitted PROVE IInv'
    OBVIOUS
  <1>1. pc = "admit" /\ Active /\ batch # <<>>
    BY DEF RoundAdmitted, Active, IInv, PositionInv, Outside
  <1>2. /\ rounds' \in Seq([calls : Seq(Contents), results : Seq(ResultCodes)])
        /\ steps' \in 0..MaxSteps /\ batch' = <<>>
        /\ pendingResults' \in Seq(ResultCodes) /\ next' \in Nat \ {0}
        /\ proposed' = proposed /\ answered' = answered
    BY <1>1, RecordRoundType DEF RoundAdmitted, IInv
  <1>3. batch' \in Seq(Contents) /\ Len(batch') <= MaxBatch
    BY <1>2
  <1>4. /\ pc' \in {"loop", "ended"} /\ state' \in States /\ reason' \in Reasons
        /\ pc' = "loop" => steps' < MaxSteps
    BY <1>2 DEF RoundAdmitted, IInv, TypeOK, States, Reasons
  <1>5. UNCHANGED <<turn, retried, inputVars, budgetVars, storeVars, authorityVars, ghostVars>>
    BY DEF RoundAdmitted
  <1>6. TypeOK'
    BY <1>2, <1>3, <1>4, <1>5 DEF IInv, TypeOK, PCs, inputVars, budgetVars, storeVars,
       authorityVars, ghostVars, Authority!AuthorityTypeOK
  <1>7. PositionInv'
    BY <1>1, <1>2, <1>4, <1>5 DEF IInv, PositionInv, Active, Outside, AtCall
  <1> QED
    BY <1>1, <1>4, <1>5, <1>6, <1>7, UnheldStep, AwayStep DEF IInv, AtCall, ghostVars

\* Every way a turn ends but a finished round and a failed stream.
LEMMA EndingsStep ==
  ASSUME IInv,
         \/ AdmissionCancelled \/ SkipDone \/ HandlerInterrupted
         \/ \E point \in {"decided", "asked", "granted"} : CancelledAt(point)
  PROVE  IInv'
  <1>1. /\ pc \in {"admit", "skip", "handler", "decided", "asked", "granted"}
        /\ UNCHANGED <<turn, retried, inputVars, budgetVars, storeVars, authorityVars, ghostVars>>
    BY DEF AdmissionCancelled, SkipDone, HandlerInterrupted, CancelledAt, Admitting
  <1>2. PICK status \in States, why \in Reasons : Finish(status, why)
    <2>1. reason \in Reasons
      BY DEF IInv, TypeOK
    <2> QED
      BY <2>1 DEF AdmissionCancelled, SkipDone, HandlerInterrupted, CancelledAt, States, Reasons
  <1> QED
    BY <1>1, <1>2, FinishStep DEF Active

LEMMA BudgetTripsStep == IInv /\ BudgetTrips => IInv'
  <1> SUFFICES ASSUME IInv, BudgetTrips PROVE IInv'
    OBVIOUS
  <1>1. /\ pc = "admit" /\ pc' = "skip" /\ reason' \in Reasons
        /\ UNCHANGED <<state, turn, retried, inputVars, roundVars, budgetVars, storeVars,
                       authorityVars, ghostVars>>
    BY DEF BudgetTrips, BudgetTripReason, Admitting, Reasons
  <1>2. TypeOK'
    BY <1>1 DEF IInv, TypeOK, PCs, inputVars, roundVars, budgetVars, storeVars, authorityVars,
       ghostVars, Authority!AuthorityTypeOK
  <1>3. PositionInv'
    BY <1>1 DEF IInv, PositionInv, Active, Outside, AtCall, roundVars
  <1> QED
    BY <1>1, <1>2, <1>3, UnheldStep, AwayStep DEF IInv, AtCall, ghostVars

\* Steps toward the handler that neither touch the round nor the authority.
LEMMA TowardStep ==
  ASSUME IInv, pc \in AtCall, pc # "dispatch", pc' \in AtCall, state' \in States,
         consented' \subseteq CallsMade, consented \subseteq consented',
         UNCHANGED <<turn, retried, reason, inputVars, roundVars, budgetVars, storeVars,
                     authorityVars, started, lateStarts>>
  PROVE  TypeOK' /\ PositionInv' /\ GrantInv' /\ ConsentBeforeExecution'
  <1>1. TypeOK'
    BY DEF IInv, TypeOK, PCs, AtCall, inputVars, roundVars, budgetVars, storeVars, authorityVars,
       Authority!AuthorityTypeOK
  <1>2. PositionInv'
    BY DEF IInv, PositionInv, Active, Outside, AtCall, roundVars
  <1>3. GrantInv'
    BY DEF IInv, GrantInv, authorityVars
  <1>4. ConsentBeforeExecution'
    BY DEF IInv, ConsentBeforeExecution
  <1> QED
    BY <1>1, <1>2, <1>3, <1>4

LEMMA StartAllowedStep == IInv /\ StartAllowed => IInv'
  <1> SUFFICES ASSUME IInv, StartAllowed PROVE IInv'
    OBVIOUS
  <1>1. /\ pc = "decided" /\ pc' = "dispatch" /\ state' = "executing"
        /\ UNCHANGED <<turn, retried, reason, inputVars, roundVars, budgetVars, storeVars,
                       authorityVars, ghostVars>>
    BY DEF StartAllowed
  <1>2. TypeOK' /\ PositionInv' /\ GrantInv' /\ ConsentBeforeExecution'
    BY <1>1, TowardStep DEF AtCall, States, ghostVars, IInv, TypeOK
  <1>3. Content' = Content /\ CurrentDisposition' = CurrentDisposition
    BY <1>1, SameCall DEF roundVars
  <1>4. token' = 0
    BY <1>1 DEF IInv, GrantInv, authorityVars
  <1>5. AdmissionInv'
    BY <1>1, <1>3, <1>4 DEF IInv, AdmissionInv, AtCall
  <1> QED
    BY <1>2, <1>5 DEF IInv

LEMMA AskUserStep == IInv /\ AskUser => IInv'
  <1> SUFFICES ASSUME IInv, AskUser PROVE IInv'
    OBVIOUS
  <1>1. /\ pc = "asked" /\ pc' = "consent" /\ state' = state
        /\ UNCHANGED <<turn, retried, reason, inputVars, roundVars, budgetVars, storeVars,
                       authorityVars, ghostVars>>
    BY DEF AskUser
  <1>2. TypeOK' /\ PositionInv' /\ GrantInv' /\ ConsentBeforeExecution'
    BY <1>1, TowardStep DEF AtCall, ghostVars, IInv, TypeOK
  <1>3. Content' = Content /\ CurrentDisposition' = CurrentDisposition
    BY <1>1, SameCall DEF roundVars
  <1>4. AdmissionInv'
    BY <1>1, <1>3 DEF IInv, AdmissionInv, AtCall
  <1> QED
    BY <1>2, <1>4 DEF IInv

LEMMA UserApprovesStep == IInv /\ UserApproves => IInv'
  <1> SUFFICES ASSUME IInv, UserApproves PROVE IInv'
    OBVIOUS
  <1>1. /\ pc = "consent" /\ pc' = "granted" /\ state' = state
        /\ consented' = consented \cup {CurrentCall}
        /\ UNCHANGED <<turn, retried, reason, inputVars, roundVars, budgetVars, storeVars,
                       authorityVars, started, lateStarts>>
    BY DEF UserApproves
  <1>2. CurrentCall \in CallsMade
    BY <1>1, CurrentCallType DEF IInv, PositionInv, Outside, AtCall
  <1>3. TypeOK' /\ PositionInv' /\ GrantInv' /\ ConsentBeforeExecution'
    BY <1>1, <1>2, TowardStep DEF AtCall, IInv, TypeOK
  <1>4. Content' = Content /\ CurrentDisposition' = CurrentDisposition /\ CurrentCall' = CurrentCall
    BY <1>1, SameCall DEF roundVars
  <1>5. AdmissionInv'
    BY <1>1, <1>4 DEF IInv, AdmissionInv, AtCall
  <1> QED
    BY <1>3, <1>5 DEF IInv

LEMMA UserDeniesStep == IInv /\ UserDenies => IInv'
  <1> SUFFICES ASSUME IInv, UserDenies PROVE IInv'
    OBVIOUS
  <1>1. pc = "consent" /\ pc \notin Outside /\ next <= Len(batch)
    BY DEF UserDenies, Outside, IInv, PositionInv, AtCall
  <1>2. Event("approval_denied") \in Events /\ Event("tool_result") \in Events
    BY <1>1, EventType DEF IInv, EventTypes
  <1>3. <<Event("approval_denied"), Event("tool_result")>> \in Seq(Events)
    BY <1>2
  <1>4. /\ Settle("approval_denied", 0) /\ "approval_denied" \in ResultCodes
        /\ Emit(<<Event("approval_denied"), Event("tool_result")>>)
        /\ UNCHANGED <<turn, retried, callsSeen, callsExecuted, seen, inputVars, authorityVars,
                       ghostVars>>
    BY DEF UserDenies, ResultCodes
  <1>5. /\ state' \in States /\ callsSeen' \in Nat /\ callsExecuted' \in Nat
        /\ seen' \in [Contents -> Nat]
    BY <1>4 DEF UserDenies, States, IInv, TypeOK
  <1> QED
    BY <1>1, <1>3, <1>4, <1>5, SettleStep

LEMMA IssueTokenStep == IInv /\ IssueToken => IInv'
  <1> SUFFICES ASSUME IInv, IssueToken PROVE IInv'
    OBVIOUS
  <1>1. /\ pc = "granted" /\ pc' = "dispatch" /\ state' = "executing"
        /\ issued' = issued + 1 /\ token' = issued + 1
        /\ outstanding' = outstanding \cup {[token |-> issued + 1, digest |-> CurrentPlan]}
        /\ UNCHANGED <<turn, retried, reason, inputVars, roundVars, budgetVars, storeVars, ghostVars>>
    BY DEF IssueToken, Authority!Issue
  <1>2. CurrentPlan \in ActionPlans
    BY <1>1, CurrentCallType DEF IInv, PositionInv, Outside, AtCall
  <1>3. token = 0 /\ issued \in Nat /\ outstanding \subseteq Authority!Grants
    BY <1>1 DEF IInv, GrantInv, TypeOK, Authority!AuthorityTypeOK
  <1>4. outstanding = {}
    BY <1>3 DEF IInv, GrantInv, Authority!Grants
  <1>5. Authority!AuthorityTypeOK'
    BY <1>1, <1>2, <1>3, <1>4 DEF Authority!AuthorityTypeOK, Authority!Grants
  <1>6. token' \in 0..issued'
    BY <1>1, <1>3
  <1>7. TypeOK'
    BY <1>1, <1>5, <1>6 DEF IInv, TypeOK, PCs, States, inputVars, roundVars, budgetVars,
       storeVars, ghostVars
  <1>8. PositionInv'
    BY <1>1 DEF IInv, PositionInv, Active, Outside, AtCall, roundVars
  <1>9. Content' = Content /\ CurrentDisposition' = CurrentDisposition /\ CurrentCall' = CurrentCall
    BY <1>1, SameCall DEF roundVars
  <1>10. AdmissionInv'
    BY <1>1, <1>9 DEF IInv, AdmissionInv, AtCall, ghostVars
  <1>11. GrantInv'
    BY <1>1, <1>4 DEF GrantInv
  <1>12. ConsentBeforeExecution'
    BY <1>1 DEF IInv, ConsentBeforeExecution, ghostVars
  <1> QED
    BY <1>7, <1>8, <1>10, <1>11, <1>12 DEF IInv

\* Dispatch spends whatever is outstanding; a handler that starts is the one
\* policy allowed or the user consented to.
LEMMA DispatchStep == IInv /\ Dispatch => IInv'
  <1> SUFFICES ASSUME IInv, Dispatch PROVE IInv'
    OBVIOUS
  <1>1. /\ pc = "dispatch" /\ pc' = "handler" /\ token' = 0 /\ issued' = issued
        /\ outstanding' = {g \in outstanding : g.token # token}
        /\ UNCHANGED <<state, turn, retried, reason, inputVars, roundVars, budgetVars, storeVars,
                       consented>>
    BY DEF Dispatch, Authority!Burn
  <1>2. outstanding' = {}
    BY <1>1 DEF IInv, GrantInv
  <1>3. /\ CurrentCall \in CallsMade /\ FactsOf[Content].valid
        /\ \/ CurrentDisposition = "allow"
           \/ CurrentDisposition = "require_approval" /\ CurrentCall \in consented
    BY <1>1, CurrentCallType DEF IInv, PositionInv, AdmissionInv, Outside, AtCall
  <1>4. started' \in {started, started \cup {CurrentCall}} /\ lateStarts' \in Nat
    BY DEF Dispatch, IInv, TypeOK
  <1>5. started' \subseteq CallsMade
    BY <1>3, <1>4 DEF IInv, TypeOK
  <1>6. TypeOK'
    <2>1. Authority!AuthorityTypeOK' /\ token' \in 0..issued'
      BY <1>1, <1>2 DEF IInv, TypeOK, Authority!AuthorityTypeOK, Authority!Grants
    <2> QED
      BY <1>1, <1>4, <1>5, <2>1 DEF IInv, TypeOK, PCs, inputVars, roundVars, budgetVars, storeVars
  <1>7. PositionInv'
    BY <1>1 DEF IInv, PositionInv, Active, Outside, AtCall, roundVars
  <1>8. Content' = Content
    BY <1>1, SameCall DEF roundVars
  <1>9. AdmissionInv'
    BY <1>1, <1>3, <1>8 DEF AdmissionInv
  <1>10. GrantInv'
    BY <1>1, <1>2 DEF GrantInv
  <1>11. ConsentBeforeExecution'
    <2>1. CurrentCall.content = Content
      BY DEF CurrentCall
    <2>2. ASSUME NEW s \in started'
          PROVE  /\ FactsOf[s.content].valid
                 /\ Disposition(FactsOf[s.content], Granted, Workspace) # "deny"
                 /\ Disposition(FactsOf[s.content], Granted, Workspace) = "require_approval"
                       => s \in consented
      <3>1. CASE s \in started
        BY <3>1 DEF IInv, ConsentBeforeExecution
      <3>2. CASE s = CurrentCall
        BY <1>3, <2>1, <3>2 DEF CurrentDisposition
      <3> QED
        BY <1>4, <3>1, <3>2
    <2> QED
      BY <1>1, <2>2 DEF ConsentBeforeExecution
  <1> QED
    BY <1>6, <1>7, <1>9, <1>10, <1>11 DEF IInv

LEMMA HandlerReturnsStep ==
  ASSUME IInv, NEW code \in ResultCodes, NEW size \in OutputSizes \cup {0},
         HandlerReturns(code, size)
  PROVE  IInv'
  <1>1. pc = "handler" /\ pc \notin Outside /\ next <= Len(batch)
    BY DEF HandlerReturns, Outside, IInv, PositionInv, AtCall
  <1>2. Event("approval_granted") \in Events /\ Event("tool_result") \in Events
    BY <1>1, EventType DEF IInv, EventTypes
  <1>3. PICK events \in Seq(Events) : Emit(events)
    <2>1. /\ <<Event("tool_result")>> \in Seq(Events)
          /\ <<Event("approval_granted"), Event("tool_result")>> \in Seq(Events)
      BY <1>2
    <2>2. \/ Emit(<<Event("tool_result")>>)
          \/ Emit(<<Event("approval_granted"), Event("tool_result")>>)
      BY DEF HandlerReturns
    <2> QED
      BY <2>1, <2>2
  <1>4. /\ Settle(code, size) /\ state' \in States
        /\ UNCHANGED <<turn, retried, callsSeen, seen, inputVars, authorityVars, ghostVars>>
    BY DEF HandlerReturns, States
  <1>5. callsSeen' \in Nat /\ callsExecuted' \in Nat /\ seen' \in [Contents -> Nat]
    BY <1>4 DEF HandlerReturns, IInv, TypeOK
  <1>6. size \in Nat
    OBVIOUS
  <1> QED
    BY <1>1, <1>3, <1>4, <1>5, <1>6, SettleStep

\* The user's wish to stop and the clock are only read by later steps.
LEMMA EnvironmentStep == IInv /\ (RequestCancel \/ TimePasses \/ UNCHANGED vars) => IInv'
  <1> SUFFICES ASSUME IInv, RequestCancel \/ TimePasses \/ UNCHANGED vars PROVE IInv'
    OBVIOUS
  <1>1. /\ cancel' \in BOOLEAN /\ late' \in BOOLEAN
        /\ UNCHANGED <<state, pc, turn, retried, reason, roundVars, budgetVars, storeVars,
                       authorityVars, ghostVars>>
    BY DEF RequestCancel, TimePasses, vars, inputVars, IInv, TypeOK
  <1>2. TypeOK'
    BY <1>1 DEF IInv, TypeOK, roundVars, budgetVars, storeVars, authorityVars, ghostVars,
       Authority!AuthorityTypeOK
  <1>3. PositionInv'
    BY <1>1 DEF IInv, PositionInv, Active, roundVars
  <1>4. Content' = Content /\ CurrentDisposition' = CurrentDisposition /\ CurrentCall' = CurrentCall
    BY <1>1, SameCall DEF roundVars
  <1>5. AdmissionInv'
    BY <1>1, <1>4 DEF IInv, AdmissionInv, authorityVars, ghostVars
  <1>6. GrantInv'
    BY <1>1 DEF IInv, GrantInv, authorityVars
  <1>7. ConsentBeforeExecution'
    BY <1>1 DEF IInv, ConsentBeforeExecution, ghostVars
  <1> QED
    BY <1>2, <1>3, <1>5, <1>6, <1>7 DEF IInv

LEMMA NextIInv == IInv /\ [Next]_vars => IInv'
  <1> SUFFICES ASSUME IInv, [Next]_vars PROVE IInv'
    OBVIOUS
  <1>1. CASE BeginTurn
    BY <1>1, BeginTurnStep
  <1>2. CASE OpenRound
    BY <1>2, OpenRoundStep
  <1>3. CASE StreamStep
    BY <1>3, StreamStepKeeps
  <1>4. CASE AdmitStep
    BY <1>4, AdmitSettledStep, AdmitAnsweredStep, AdmitOnwardStep, RoundAdmittedStep,
       EndingsStep, BudgetTripsStep DEF AdmitStep
  <1>5. CASE ExecuteStep
    BY <1>5, EndingsStep, StartAllowedStep, AskUserStep, IssueTokenStep, DispatchStep
       DEF ExecuteStep
  <1>6. CASE HandlerStep
    BY <1>6, HandlerReturnsStep, EndingsStep DEF HandlerStep
  <1>7. CASE UserAnswers
    BY <1>7, UserDeniesStep, UserApprovesStep DEF UserAnswers
  <1>8. CASE RequestCancel \/ TimePasses \/ UNCHANGED vars
    BY <1>8, EnvironmentStep
  <1> QED
    BY <1>1, <1>2, <1>3, <1>4, <1>5, <1>6, <1>7, <1>8 DEF Next, EngineStep

-----------------------------------------------------------------------------
\* The inductive invariant holds of every behaviour of the engine.
THEOREM Invariance == Spec => []IInv
  BY InitIInv, NextIInv, PTL DEF Spec

\* Every variable keeps its type, whatever is proposed and however the turn
\* ends: rounds, steps, budgets and events stay in their ranges.
THEOREM TypeCorrect == Spec => []TypeOK
  <1>1. IInv => TypeOK
    BY DEF IInv
  <1> QED
    BY Invariance, <1>1, PTL

\* No handler of _admit_validated runs before validation, policy and - where
\* policy asks for it - the user's own yes to that very call.
THEOREM ConsentAlwaysFirst == Spec => []ConsentBeforeExecution
  <1>1. IInv => ConsentBeforeExecution
    BY DEF IInv
  <1> QED
    BY Invariance, <1>1, PTL

\* A grant is outstanding only between its issue and the execution it was
\* given for, on every path through cancellation, denial and error.
THEOREM GrantsNeverStand == Spec => []NoStandingGrant
  <1>1. IInv => NoStandingGrant
    BY DEF IInv, GrantInv, NoStandingGrant, TypeOK, Authority!AuthorityTypeOK, Authority!Grants
  <1> QED
    BY Invariance, <1>1, PTL

-----------------------------------------------------------------------------
(* Cancellation.  Once a handler has started late the turn can only reach   *)
(* polls, and the flag stays up until the next turn.                       *)

LateInv ==
  /\ lateStarts \in {0, 1}
  /\ lateStarts = 1 => cancel /\ pc \in {"handler", "admit", "skip", "loop", "ended"}

LEMMA NextLateInv == LateInv /\ [Next]_vars => LateInv'
  <1> SUFFICES ASSUME LateInv, [Next]_vars PROVE LateInv'
    OBVIOUS
  <1>1. CASE BeginTurn
    <2>1. lateStarts' = 0
      BY <1>1 DEF BeginTurn
    <2> QED
      BY <2>1 DEF LateInv
  <1>2. CASE OpenRound
    BY <1>2 DEF OpenRound, Finish, LateInv, inputVars, ghostVars
  <1>3. CASE StreamStep
    BY <1>3 DEF StreamStep, StreamCancelled, StreamFailed, StreamCompleted, StreamProposed, LateInv,
       ghostVars
  <1>4. CASE AdmitStep
    <2>1. cancel' = cancel /\ lateStarts' = lateStarts /\ pc \in {"admit", "skip"}
      BY <1>4 DEF AdmitStep, AdmissionCancelled, BudgetTrips, AdmitInvalid, AdmitDuplicate,
         AdmitDenied, AdmitAllowed, AdmitUnplannable, AdmitGated, RoundAdmitted, SkipCall, SkipDone,
         MayAdmit, Admitting, inputVars, ghostVars
    <2>2. cancel => pc' \in {"admit", "skip", "loop", "ended"}
      BY <1>4 DEF AdmitStep, AdmissionCancelled, BudgetTrips, AdmitInvalid, AdmitDuplicate,
         AdmitDenied, AdmitAllowed, AdmitUnplannable, AdmitGated, RoundAdmitted, SkipCall, SkipDone,
         MayAdmit, Admitting, Finish
    <2> QED
      BY <2>1, <2>2 DEF LateInv
  <1>5. CASE ExecuteStep
    BY <1>5 DEF ExecuteStep, CancelledAt, StartAllowed, AskUser, IssueToken, Dispatch, LateInv,
       inputVars, ghostVars
  <1>6. CASE HandlerStep
    BY <1>6 DEF HandlerStep, HandlerReturns, HandlerInterrupted, Settle, Finish, LateInv,
       inputVars, ghostVars
  <1>7. CASE UserAnswers
    BY <1>7 DEF UserAnswers, UserDenies, UserApproves, LateInv, inputVars, ghostVars
  <1>8. CASE RequestCancel \/ TimePasses \/ UNCHANGED vars
    BY <1>8 DEF RequestCancel, TimePasses, vars, LateInv, inputVars, ghostVars
  <1> QED
    BY <1>1, <1>2, <1>3, <1>4, <1>5, <1>6, <1>7, <1>8 DEF Next, EngineStep

\* After a cancellation request at most one more handler starts: the one
\* already past its last poll.
THEOREM CancellationHolds == Spec => []CancelStopsHandlers
  <1>1. Init => LateInv
    BY DEF Init, LateInv
  <1>2. LateInv => CancelStopsHandlers
    BY DEF LateInv, CancelStopsHandlers
  <1> QED
    BY <1>1, <1>2, NextLateInv, PTL DEF Spec
-----------------------------------------------------------------------------
(* The call ledger.  Of the calls proposed so far those of the open round   *)
(* are known by their position, and answered in that order.                *)

RefAt(i) == [turn |-> turn, round |-> steps + 1, index |-> i]

InOpenRound(c) == batch # <<>> /\ c.turn = turn /\ c.round = steps + 1

CallInv ==
  /\ answered \subseteq proposed
  /\ \A c \in proposed :
       \/ c.turn < turn
       \/ c.turn = turn /\ c.round <= steps
       \/ InOpenRound(c) /\ c.index \in 1..Len(batch)
  /\ \A i \in 1..Len(batch) : RefAt(i) \in proposed /\ (RefAt(i) \in answered <=> i < next)

Unsettled == {c \in proposed \ answered : InOpenRound(c)}
Runs(c) == pc = "handler" /\ c = Current /\ CurrentCall \in started

\* The mapping, one status at a time.
LEMMA Statuses ==
  ASSUME NEW c \in CallRefs, TypeOK, CallInv
  PROVE  /\ StatusOf(c) = "unknown" <=> c \notin proposed
         /\ StatusOf(c) = "answered" <=> c \in answered
         /\ StatusOf(c) = "running" <=> c \in Unsettled /\ Runs(c)
         /\ StatusOf(c) = "proposed" <=> c \in Unsettled /\ ~Runs(c)
         /\ StatusOf(c) = "abandoned" <=> c \in proposed \ (answered \cup Unsettled)
         /\ StatusOf(c) \in {"unknown", "answered", "running", "proposed", "abandoned"}
  BY DEF StatusOf, Unsettled, InOpenRound, Runs, CallInv

LEMMA InStatus ==
  ASSUME TypeOK, CallInv
  PROVE  /\ Ledger!In("unknown") = CallRefs \ proposed
         /\ Ledger!In("running") = {c \in Unsettled : Runs(c)}
         /\ Ledger!In("proposed") = {c \in Unsettled : ~Runs(c)}
         /\ Unsettled \subseteq CallRefs
  <1>1. Unsettled \subseteq CallRefs
    BY DEF Unsettled, TypeOK
  <1> QED
    BY <1>1, Statuses DEF Ledger!In

\* The status of every call at once.
Status == [c \in CallRefs |-> StatusOf(c)]

LEMMA SameStatus ==
  ASSUME \A c \in CallRefs : StatusOf(c)' = StatusOf(c)
  PROVE  UNCHANGED Status
  BY DEF Status

\* A step that answers, proposes and records nothing, and starts or ends no
\* handler.
LEMMA QuietCalls ==
  ASSUME IInv, CallInv, UNCHANGED <<turn, roundVars>>,
         pc' = "handler" <=> pc = "handler", pc = "handler" => UNCHANGED started
  PROVE  CallInv' /\ UNCHANGED Status
  <1>1. Current' = Current /\ CurrentCall' = CurrentCall
    BY SameCall DEF roundVars
  <1>2. CallInv'
    BY DEF roundVars, CallInv, InOpenRound, RefAt
  <1>3. \A c \in CallRefs : StatusOf(c)' = StatusOf(c)
    BY <1>1 DEF roundVars, StatusOf
  <1> QED
    BY <1>2, <1>3, SameStatus

\* The call at hand is proposed, and waits for its answer.
LEMMA CurrentOpen ==
  ASSUME IInv, CallInv, pc \notin Outside, next <= Len(batch)
  PROVE  /\ Current \in CallRefs /\ Current = RefAt(next)
         /\ next \in 1..Len(batch) /\ batch # <<>>
         /\ Current \in Unsettled /\ Current \in proposed /\ Current \notin answered
  <1>1. Current \in CallRefs
    BY CurrentCallType DEF IInv
  <1>2. next \in Nat \ {0} /\ Len(batch) \in Nat
    BY DEF IInv, TypeOK
  <1>3. next \in 1..Len(batch)
    BY <1>2
  <1>4. batch # <<>>
    BY DEF IInv, PositionInv
  <1>5. Current = RefAt(next)
    BY DEF Current, RefAt
  <1>6. Current \in proposed /\ Current \notin answered
    BY <1>2, <1>3, <1>5 DEF CallInv
  <1>7. Current \in Unsettled
    BY <1>4, <1>5, <1>6 DEF Unsettled, InOpenRound, RefAt
  <1> QED
    BY <1>1, <1>3, <1>4, <1>5, <1>6, <1>7

\* The call at hand, running or not, gets its answer; no other changes.
LEMMA AnswerCall ==
  ASSUME IInv, TypeOK', CallInv, pc \notin Outside, next <= Len(batch),
         NEW code, RecordResult(code), turn' = turn, pc' # "handler"
  PROVE  CallInv' /\ Ledger!Answer(Current)
  <1>1. /\ Current \in CallRefs /\ Current = RefAt(next)
        /\ next \in 1..Len(batch) /\ batch # <<>>
    BY CurrentOpen
  <1>2. Current \in Unsettled
    BY CurrentOpen
  <1>3. /\ answered' = answered \cup {Current} /\ next' = next + 1
        /\ UNCHANGED <<batch, rounds, steps, proposed>>
    BY DEF RecordResult
  <1>4. \A i \in 1..Len(batch) : RefAt(i)' = RefAt(i) /\ (RefAt(i) = Current <=> i = next)
    BY <1>1, <1>3 DEF RefAt
  <1>5. CallInv'
    <2>1. answered' \subseteq proposed'
      BY <1>2, <1>3 DEF CallInv, Unsettled
    <2>2. \A c \in proposed' :
            \/ c.turn < turn'
            \/ c.turn = turn' /\ c.round <= steps'
            \/ InOpenRound(c)' /\ c.index \in 1..Len(batch')
      BY <1>3 DEF CallInv, InOpenRound
    <2>3. ASSUME NEW i \in 1..Len(batch)
          PROVE  RefAt(i)' \in proposed' /\ (RefAt(i)' \in answered' <=> i < next')
      <3>1. next \in Nat /\ i \in Nat
        BY DEF IInv, TypeOK
      <3> QED
        BY <1>3, <1>4, <3>1 DEF CallInv
    <2> QED
      BY <1>3, <2>1, <2>2, <2>3 DEF CallInv
  <1>6. ASSUME NEW c \in CallRefs, c # Current
        PROVE  StatusOf(c)' = StatusOf(c)
    BY <1>3, <1>6 DEF StatusOf
  <1>7. ASSUME NEW c \in CallRefs, c = Current
        PROVE  StatusOf(c)' = "answered"
    <2>1. c \in answered' /\ c \in proposed'
      BY <1>2, <1>3, <1>7 DEF Unsettled
    <2> QED
      BY <2>1 DEF StatusOf
  <1>8. Ledger!Move({Current}, "answered")
    BY <1>6, <1>7 DEF Ledger!Move
  <1>9. \/ Current \in Ledger!In("running")
        \/ Current \in Ledger!In("proposed") /\ Ledger!In("running") = {}
    <2>1. /\ Ledger!In("running") = {c \in Unsettled : Runs(c)}
          /\ Ledger!In("proposed") = {c \in Unsettled : ~Runs(c)}
      BY InStatus DEF IInv
    <2>2. \A c : Runs(c) => c = Current
      BY DEF Runs
    <2> QED
      BY <1>2, <2>1, <2>2
  <1> QED
    BY <1>5, <1>8, <1>9 DEF Ledger!Answer

\* A round is recorded: what it has not answered is given up.
LEMMA RecordCalls ==
  ASSUME IInv, CallInv, RecordRound, turn' = turn, pc' # "handler", Active
  PROVE  CallInv' /\ (Ledger!Abandon \/ UNCHANGED Status)
  <1>1. CASE batch = <<>>
    <2>1. UNCHANGED roundVars /\ pc # "handler"
      BY <1>1 DEF RecordRound, IInv, PositionInv, Outside
    <2> QED
      BY <2>1, QuietCalls
  <1>2. CASE batch # <<>>
    <2>1. batch' = <<>> /\ steps' = steps + 1 /\ UNCHANGED <<proposed, answered>>
      BY <1>2 DEF RecordRound
    <2>2. CallInv'
      <3>1. answered' \subseteq proposed'
        BY <2>1 DEF CallInv
      <3>2. \A c \in proposed' : c.turn < turn' \/ (c.turn = turn' /\ c.round <= steps')
        <4>1. \A c \in proposed : c.round \in Nat /\ steps \in Nat
          BY DEF IInv, TypeOK, CallRefs
        <4> QED
          BY <2>1, <4>1 DEF CallInv, InOpenRound
      <3>3. 1..Len(batch') = {}
        BY <2>1
      <3> QED
        BY <3>1, <3>2, <3>3 DEF CallInv
    <2>3. Ledger!In("proposed") \cup Ledger!In("running") = Unsettled
      BY InStatus DEF IInv
    <2>4. ASSUME NEW c \in CallRefs
          PROVE  StatusOf(c)' = IF c \in Unsettled THEN "abandoned" ELSE StatusOf(c)
      BY <1>2, <2>1 DEF StatusOf, Unsettled, InOpenRound
    <2>5. Ledger!Move(Unsettled, "abandoned")
      BY <2>4 DEF Ledger!Move
    <2>6. CASE Unsettled # {}
      BY <2>2, <2>3, <2>5, <2>6 DEF Ledger!Abandon
    <2>7. CASE Unsettled = {}
      BY <2>2, <2>4, <2>7, SameStatus
    <2> QED
      BY <2>6, <2>7
  <1> QED
    BY <1>1, <1>2

LEMMA FinishCalls ==
  ASSUME IInv, CallInv, NEW status, NEW why, Finish(status, why), turn' = turn, Active
  PROVE  CallInv' /\ (Ledger!Abandon \/ UNCHANGED Status)
  BY RecordCalls DEF Finish

\* The calls of a stream are new, and no others are open.
LEMMA ProposeCalls ==
  ASSUME IInv, CallInv, NEW calls \in Batches, StreamProposed(calls)
  PROVE  CallInv' /\ \E S \in SUBSET CallRefs : Ledger!Propose(S)
  <1> DEFINE S == {RefAt(i) : i \in DOMAIN calls}
  <1>1. /\ pc = "stream" /\ batch = <<>> /\ turn \in 1..MaxTurns /\ steps \in Nat
        /\ steps + 1 \in 1..MaxSteps
    BY DEF StreamProposed, IInv, TypeOK, PositionInv, Outside, Active
  <1>2. /\ DOMAIN calls = 1..Len(calls) /\ Len(calls) \in 1..MaxBatch /\ calls # <<>>
    BY DEF Batches
  <1>3. /\ batch' = calls /\ next' = 1 /\ pc' = "admit" /\ proposed' = proposed \cup S
        /\ UNCHANGED <<turn, steps, answered>>
    BY DEF StreamProposed, RefAt
  <1>4. S \subseteq CallRefs
    BY <1>1, <1>2 DEF RefAt, CallRefs
  <1>5. \A c \in proposed : ~(c.turn = turn /\ c.round = steps + 1)
    <2>1. \A c \in proposed : c.turn \in Nat /\ c.round \in Nat /\ turn \in Nat
      BY <1>1 DEF IInv, TypeOK, CallRefs
    <2> QED
      BY <1>1, <2>1 DEF CallInv, InOpenRound
  <1>6. \A c \in S : c.turn = turn /\ c.round = steps + 1 /\ c.index \in 1..Len(calls)
    BY <1>2 DEF RefAt
  <1>7. \A c \in S : c \notin proposed /\ c \notin answered
    BY <1>5, <1>6 DEF CallInv
  <1> HIDE DEF S
  <1>8. CallInv'
    <2>1. answered' \subseteq proposed'
      BY <1>3 DEF CallInv
    <2>2. \A c \in proposed' :
            \/ c.turn < turn'
            \/ c.turn = turn' /\ c.round <= steps'
            \/ InOpenRound(c)' /\ c.index \in 1..Len(batch')
      BY <1>1, <1>2, <1>3, <1>6 DEF CallInv, InOpenRound
    <2>3. ASSUME NEW i \in 1..Len(calls)
          PROVE  RefAt(i)' \in proposed' /\ (RefAt(i)' \in answered' <=> i < next')
      <3>1. RefAt(i)' = RefAt(i) /\ RefAt(i) \in S
        BY <1>2, <1>3 DEF RefAt, S
      <3> QED
        BY <1>3, <1>7, <3>1
    <2> QED
      BY <1>3, <2>1, <2>2, <2>3 DEF CallInv
  <1>9. Ledger!Propose(S)
    <2>1. Unsettled = {}
      BY <1>1 DEF Unsettled, InOpenRound
    <2>2. /\ Ledger!In("proposed") \cup Ledger!In("running") = {}
          /\ Ledger!In("unknown") = CallRefs \ proposed
      BY <2>1, InStatus DEF IInv
    <2>3. S # {} /\ S \subseteq CallRefs \ proposed
      <3>1. RefAt(1) \in S
        BY <1>2 DEF S
      <3> QED
        BY <1>4, <1>7, <3>1
    <2>4. ASSUME NEW c \in CallRefs
          PROVE  StatusOf(c)' = IF c \in S THEN "proposed" ELSE StatusOf(c)
      <3>1. CASE c \in S
        BY <1>2, <1>3, <1>6, <1>7, <3>1 DEF StatusOf
      <3>2. CASE c \notin S
        BY <1>1, <1>3, <1>5, <3>2 DEF StatusOf
      <3> QED
        BY <3>1, <3>2
    <2>5. Ledger!Move(S, "proposed")
      BY <2>4 DEF Ledger!Move
    <2> QED
      BY <2>2, <2>3, <2>5 DEF Ledger!Propose
  <1> QED
    BY <1>4, <1>8, <1>9

\* A handler that starts is the one run of its call.
LEMMA RunCall ==
  ASSUME IInv, CallInv, Dispatch
  PROVE  CallInv' /\ (Ledger!Run(Current) \/ UNCHANGED Status)
  <1>1. /\ pc = "dispatch" /\ pc' = "handler" /\ pc \notin Outside
        /\ next <= Len(batch) /\ UNCHANGED <<turn, roundVars>>
    BY DEF Dispatch, Outside, IInv, PositionInv, AtCall
  <1>2. Current \in CallRefs /\ Current = RefAt(next) /\ next \in 1..Len(batch) /\ batch # <<>>
    BY <1>1, CurrentOpen
  <1>3. Current \in Unsettled
    BY <1>1, CurrentOpen
  <1>4. CallInv'
    BY <1>1 DEF roundVars, CallInv, InOpenRound, RefAt
  <1>5. Current' = Current /\ CurrentCall' = CurrentCall
    BY <1>1, SameCall DEF roundVars
  <1>6. ASSUME NEW c \in CallRefs
        PROVE  StatusOf(c)' = IF c = Current /\ CurrentCall \in started'
                              THEN "running" ELSE StatusOf(c)
    <2>1. UNCHANGED <<turn, steps, batch, proposed, answered>>
      BY <1>1 DEF roundVars
    <2>2. CASE c = Current /\ CurrentCall \in started'
      BY <1>1, <1>3, <1>5, <2>1, <2>2 DEF StatusOf, Unsettled, InOpenRound
    <2>3. CASE ~(c = Current /\ CurrentCall \in started')
      BY <1>1, <1>5, <2>1, <2>3 DEF StatusOf
    <2> QED
      BY <2>2, <2>3
  <1>7. CASE CurrentCall \in started'
    <2>1. Ledger!Move({Current}, "running")
      BY <1>6, <1>7 DEF Ledger!Move
    <2>2. Current \in Ledger!In("proposed") /\ Ledger!In("running") = {}
      BY <1>1, <1>3, InStatus DEF IInv, Runs
    <2> QED
      BY <1>4, <2>1, <2>2 DEF Ledger!Run
  <1>8. CASE CurrentCall \notin started'
    BY <1>4, <1>6, <1>8, SameStatus
  <1> QED
    BY <1>7, <1>8

-----------------------------------------------------------------------------
(* Every action of the engine, seen in the ledger. *)

CallStep == CallInv' /\ (Ledger!LedgerNext \/ UNCHANGED Status)

LEMMA InitCalls == Init => CallInv /\ Ledger!LedgerInit
  <1> SUFFICES ASSUME Init PROVE CallInv /\ Ledger!LedgerInit
    OBVIOUS
  <1>1. proposed = {} /\ answered = {} /\ batch = <<>>
    BY DEF Init
  <1>2. CallInv
    BY <1>1 DEF CallInv
  <1>3. \A c \in CallRefs : StatusOf(c) = "unknown"
    BY <1>1 DEF StatusOf
  <1> QED
    BY <1>2, <1>3 DEF Ledger!LedgerInit

LEMMA BeginTurnCalls == IInv /\ CallInv /\ BeginTurn => CallStep
  <1> SUFFICES ASSUME IInv, CallInv, BeginTurn PROVE CallStep
    OBVIOUS
  <1>1. /\ batch = <<>> /\ batch' = <<>> /\ turn' = turn + 1 /\ turn \in Nat
        /\ UNCHANGED <<proposed, answered>>
    BY DEF BeginTurn, IInv, TypeOK, PositionInv, Outside
  <1>2. \A c \in proposed' : c.turn < turn'
    <2>1. \A c \in proposed : c.turn \in Nat
      BY DEF IInv, TypeOK, CallRefs
    <2> QED
      BY <1>1, <2>1 DEF CallInv, InOpenRound
  <1>3. CallInv'
    <2>1. 1..Len(batch') = {}
      BY <1>1
    <2> QED
      BY <1>1, <1>2, <2>1 DEF CallInv
  <1>4. \A c \in CallRefs : StatusOf(c)' = StatusOf(c)
    BY <1>1 DEF StatusOf
  <1> QED
    BY <1>3, <1>4, SameStatus DEF CallStep

\* The turn ends, at whichever point, or its round is complete.
LEMMA EndingCalls ==
  ASSUME IInv, CallInv, turn' = turn, Active,
         \/ \E status \in States, why \in Reasons : Finish(status, why)
         \/ RoundAdmitted
  PROVE  CallStep
  <1>1. CallInv' /\ (Ledger!Abandon \/ UNCHANGED Status)
    <2>1. CASE \E status \in States, why \in Reasons : Finish(status, why)
      BY <2>1, FinishCalls
    <2>2. CASE RoundAdmitted
      BY <2>2, RecordCalls DEF RoundAdmitted
    <2> QED
      BY <2>1, <2>2
  <1> QED
    BY <1>1 DEF CallStep, Ledger!LedgerNext

\* A call gets its result and the loop goes on.
LEMMA AnsweringCalls ==
  ASSUME IInv, TypeOK', CallInv, pc \notin Outside, next <= Len(batch), turn' = turn,
         pc' # "handler", NEW code, RecordResult(code)
  PROVE  CallStep
  <1>1. CallInv' /\ Ledger!Answer(Current)
    BY AnswerCall
  <1>2. Current \in CallRefs
    BY CurrentCallType DEF IInv
  <1> QED
    BY <1>1, <1>2 DEF CallStep, Ledger!LedgerNext

\* Nothing happens to a call.
LEMMA StutteringCalls ==
  ASSUME IInv, CallInv, UNCHANGED <<turn, roundVars>>,
         pc' = "handler" <=> pc = "handler", pc = "handler" => UNCHANGED started
  PROVE  CallStep
  BY QuietCalls DEF CallStep

LEMMA StreamCalls == IInv /\ CallInv /\ (OpenRound \/ StreamStep) => CallStep
  <1> SUFFICES ASSUME IInv, CallInv, OpenRound \/ StreamStep PROVE CallStep
    OBVIOUS
  <1>1. CASE OpenRound
    <2>1. Active /\ turn' = turn
      BY <1>1 DEF OpenRound, Active
    <2>2. CASE \E status \in States, why \in Reasons : Finish(status, why)
      BY <2>1, <2>2, EndingCalls
    <2>3. CASE pc' = "stream" /\ UNCHANGED roundVars
      BY <1>1, <2>1, <2>3, StutteringCalls DEF OpenRound
    <2>4. BudgetTripReason \in Reasons
      BY DEF BudgetTripReason, Reasons
    <2> QED
      BY <1>1, <2>2, <2>3, <2>4 DEF OpenRound, States, Reasons
  <1>2. CASE StreamCancelled \/ StreamCompleted
    <2>1. Active /\ turn' = turn
      BY <1>2 DEF StreamCancelled, StreamCompleted, Active
    <2>2. \E status \in States, why \in Reasons : Finish(status, why)
      BY <1>2 DEF StreamCancelled, StreamCompleted, States, Reasons
    <2> QED
      BY <2>1, <2>2, EndingCalls
  <1>3. ASSUME NEW transient \in BOOLEAN, StreamFailed(transient) PROVE CallStep
    <2>1. Active /\ turn' = turn /\ pc = "stream"
      BY <1>3 DEF StreamFailed, Active
    <2>2. CASE transient /\ ~retried
      BY <1>3, <2>1, <2>2, StutteringCalls DEF StreamFailed
    <2>3. CASE ~(transient /\ ~retried)
      <3>1. \E status \in States, why \in Reasons : Finish(status, why)
        BY <1>3, <2>3 DEF StreamFailed, States, Reasons
      <3> QED
        BY <2>1, <3>1, EndingCalls
    <2> QED
      BY <2>2, <2>3
  <1>4. ASSUME NEW calls \in Batches, StreamProposed(calls) PROVE CallStep
    BY <1>4, ProposeCalls DEF CallStep, Ledger!LedgerNext
  <1> QED
    BY <1>1, <1>2, <1>3, <1>4 DEF StreamStep

LEMMA AdmitCalls == IInv /\ TypeOK' /\ CallInv /\ AdmitStep => CallStep
  <1> SUFFICES ASSUME IInv, TypeOK', CallInv, AdmitStep PROVE CallStep
    OBVIOUS
  <1>1. turn' = turn /\ Active /\ pc \notin AtCall
    BY DEF AdmitStep, AdmissionCancelled, BudgetTrips, AdmitInvalid, AdmitDuplicate, AdmitDenied,
       AdmitAllowed, AdmitUnplannable, AdmitGated, RoundAdmitted, SkipCall, SkipDone, MayAdmit,
       Admitting, Active, AtCall
  <1>2. CASE AdmissionCancelled
    BY <1>1, <1>2, EndingCalls DEF AdmissionCancelled, States, Reasons
  <1>3. CASE SkipDone
    <2>1. \E status \in States, why \in Reasons : Finish(status, why)
      BY <1>3 DEF SkipDone, States, IInv, TypeOK
    <2> QED
      BY <1>1, <2>1, EndingCalls
  <1>4. CASE RoundAdmitted
    BY <1>1, <1>4, EndingCalls
  <1>5. CASE BudgetTrips \/ AdmitAllowed \/ AdmitGated
    <2>1. UNCHANGED roundVars /\ pc' # "handler" /\ pc # "handler"
      BY <1>5 DEF BudgetTrips, AdmitAllowed, AdmitGated, MayAdmit, Admitting
    <2> QED
      BY <1>1, <2>1, StutteringCalls
  <1>6. CASE AdmitInvalid \/ AdmitDuplicate \/ AdmitDenied \/ AdmitUnplannable \/ SkipCall
    <2>1. pc \notin Outside /\ next <= Len(batch) /\ pc' # "handler"
      BY <1>6 DEF AdmitInvalid, AdmitDuplicate, AdmitDenied, AdmitUnplannable, SkipCall, MayAdmit,
         Admitting, Settle, Outside
    <2>2. \E code \in ResultCodes : RecordResult(code)
      BY <1>6 DEF AdmitInvalid, AdmitDuplicate, AdmitDenied, AdmitUnplannable, SkipCall, Settle,
         ResultCodes
    <2> QED
      BY <1>1, <2>1, <2>2, AnsweringCalls
  <1> QED
    BY <1>2, <1>3, <1>4, <1>5, <1>6 DEF AdmitStep

LEMMA ExecuteCalls == IInv /\ CallInv /\ ExecuteStep => CallStep
  <1> SUFFICES ASSUME IInv, CallInv, ExecuteStep PROVE CallStep
    OBVIOUS
  <1>1. ASSUME NEW point \in {"decided", "asked", "granted"}, CancelledAt(point) PROVE CallStep
    <2>1. turn' = turn /\ Active /\ \E status \in States, why \in Reasons : Finish(status, why)
      BY <1>1 DEF CancelledAt, Active, States, Reasons
    <2> QED
      BY <2>1, EndingCalls
  <1>2. CASE StartAllowed \/ AskUser \/ IssueToken
    <2>1. UNCHANGED <<turn, roundVars>> /\ pc # "handler" /\ pc' # "handler"
      BY <1>2 DEF StartAllowed, AskUser, IssueToken
    <2> QED
      BY <2>1, StutteringCalls
  <1>3. CASE Dispatch
    <2>1. Current \in CallRefs
      BY <1>3, CurrentCallType DEF Dispatch, Outside, IInv, PositionInv, AtCall
    <2>2. CallInv' /\ (Ledger!Run(Current) \/ UNCHANGED Status)
      BY <1>3, RunCall
    <2> QED
      BY <2>1, <2>2 DEF CallStep, Ledger!LedgerNext
  <1> QED
    BY <1>1, <1>2, <1>3 DEF ExecuteStep

LEMMA HandlerCalls == IInv /\ TypeOK' /\ CallInv /\ (HandlerStep \/ UserAnswers) => CallStep
  <1> SUFFICES ASSUME IInv, TypeOK', CallInv, HandlerStep \/ UserAnswers PROVE CallStep
    OBVIOUS
  <1>1. turn' = turn /\ pc \in {"handler", "consent"}
    BY DEF HandlerStep, HandlerReturns, HandlerInterrupted, UserAnswers, UserDenies, UserApproves
  <1>2. Active /\ pc \notin Outside /\ next <= Len(batch)
    BY <1>1 DEF Active, Outside, AtCall, IInv, PositionInv
  <1>3. CASE HandlerInterrupted
    BY <1>1, <1>2, <1>3, EndingCalls DEF HandlerInterrupted, States, Reasons
  <1>4. CASE UserApproves
    <2>1. UNCHANGED <<turn, roundVars>> /\ pc # "handler" /\ pc' # "handler"
      BY <1>4 DEF UserApproves
    <2> QED
      BY <2>1, StutteringCalls
  <1>5. CASE UserDenies \/ \E code \in ResultCodes, size \in OutputSizes \cup {0} : HandlerReturns(code, size)
    <2>1. pc' # "handler" /\ \E code \in ResultCodes : RecordResult(code)
      BY <1>5 DEF UserDenies, HandlerReturns, Settle, ResultCodes
    <2> QED
      BY <1>1, <1>2, <2>1, AnsweringCalls
  <1> QED
    BY <1>3, <1>4, <1>5 DEF HandlerStep, UserAnswers

LEMMA NextCalls == IInv /\ TypeOK' /\ CallInv /\ [Next]_vars => CallStep
  <1> SUFFICES ASSUME IInv, TypeOK', CallInv, [Next]_vars PROVE CallStep
    OBVIOUS
  <1>1. CASE BeginTurn
    BY <1>1, BeginTurnCalls
  <1>2. CASE OpenRound \/ StreamStep
    BY <1>2, StreamCalls
  <1>3. CASE AdmitStep
    BY <1>3, AdmitCalls
  <1>4. CASE ExecuteStep
    BY <1>4, ExecuteCalls
  <1>5. CASE HandlerStep \/ UserAnswers
    BY <1>5, HandlerCalls
  <1>6. CASE RequestCancel \/ TimePasses \/ UNCHANGED vars
    <2>1. UNCHANGED <<turn, pc, roundVars, started>>
      BY <1>6 DEF RequestCancel, TimePasses, vars, ghostVars
    <2> QED
      BY <2>1, StutteringCalls
  <1> QED
    BY <1>1, <1>2, <1>3, <1>4, <1>5, <1>6 DEF Next, EngineStep

\* What README says of a proposed call, as far as it holds: every behaviour of
\* the engine, with its cancellations, budgets and failures, is one of the call
\* ledger - a call runs at most once and nothing beside it, is answered at most
\* once and not after its round was given up.
THEOREM EngineImplementsLedger == Spec => ImplementsCallLedger
  <1>1. IInv /\ IInv' /\ CallInv /\ [Next]_vars => CallInv' /\ [Ledger!LedgerNext]_Status
    <2>1. IInv' => TypeOK'
      BY DEF IInv
    <2> QED
      BY <2>1, NextCalls DEF CallStep
  <1> QED
    BY InitCalls, Invariance, <1>1, PTL DEF Spec, ImplementsCallLedger, Ledger!LedgerSpec, Status
-----------------------------------------------------------------------------
(* The event log.  What it says was proposed and answered was, and - unless *)
(* an append failed - it says so of every call that was.                   *)

Proposal(c) == [type |-> "tool_call_proposed", call |-> c]
Result(c) == [type |-> "tool_result", call |-> c]

LogInv ==
  /\ \A i \in DOMAIN log :
        /\ log[i].type \in {"tool_result", "approval_denied"} => log[i].call \in answered
        /\ log[i].type = "tool_call_proposed" => log[i].call \in proposed
  /\ storeFailures = 0 => \A c \in proposed : \E j \in DOMAIN log : log[j] = Proposal(c)
  /\ storeFailures = 0 => \A c \in answered : \E j \in DOMAIN log : log[j] = Result(c)
  /\ OneTerminalResult

\* One append: the results of the calls that are answered by it, at most one,
\* and the proposals of the calls that are proposed by it.
LEMMA EmitLog ==
  ASSUME TypeOK, LogInv, NEW events \in Seq(Events), Emit(events),
         proposed \subseteq proposed', answered \subseteq answered',
         \A k \in DOMAIN events :
            IF events[k].type = "tool_call_proposed" THEN events[k].call \in proposed'
                                                     ELSE events[k].call \in proposed,
         \A k \in DOMAIN events :
            events[k].type = "tool_result" => events[k].call \in answered' \ answered,
         \A k \in DOMAIN events :
            events[k].type = "approval_denied" => events[k].call \in answered',
         \A k, l \in DOMAIN events :
            events[k].type = "tool_result" /\ events[l].type = "tool_result" => k = l,
         \A c \in proposed' \ proposed : \E k \in DOMAIN events : events[k] = Proposal(c),
         \A c \in answered' \ answered : \E k \in DOMAIN events : events[k] = Result(c)
  PROVE  LogInv'
  <1>1. log \in Seq(Events) /\ storeFailures \in Nat
    BY DEF TypeOK
  <1>2. CASE log' = log /\ storeFailures' = storeFailures + 1
    <2>1. storeFailures' # 0
      BY <1>1, <1>2
    <2> QED
      BY <1>2, <2>1 DEF LogInv, OneTerminalResult
  <1>3. CASE log' = log \o events /\ storeFailures' = storeFailures
    <2> DEFINE n == Len(log)
               m == Len(events)
    <2>1. /\ n \in Nat /\ m \in Nat
          /\ DOMAIN log = 1..n /\ DOMAIN events = 1..m /\ DOMAIN log' = 1..(n + m)
          /\ \A i \in 1..n : log'[i] = log[i]
          /\ \A i \in (n + 1)..(n + m) : log'[i] = events[i - n] /\ i - n \in 1..m
          /\ \A k \in 1..m : log'[n + k] = events[k] /\ n + k \in 1..(n + m)
      BY <1>1, <1>3
    <2>2. \A i \in 1..(n + m) : i \in 1..n \/ i \in (n + 1)..(n + m)
      BY <2>1
    <2>3. \A i \in 1..n : log[i] \in Events
      BY <1>1, <2>1
    <2>4. \A k \in 1..m : events[k] \in Events
      BY <2>1
    <2> HIDE DEF n, m
    <2>5. ASSUME NEW i \in DOMAIN log'
          PROVE  /\ log'[i].type \in {"tool_result", "approval_denied"} => log'[i].call \in answered'
                 /\ log'[i].type = "tool_call_proposed" => log'[i].call \in proposed'
      <3>1. CASE i \in 1..n
        BY <2>1, <3>1 DEF LogInv
      <3>2. CASE i \in (n + 1)..(n + m)
        BY <2>1, <3>2
      <3> QED
        BY <2>1, <2>2, <3>1, <3>2
    <2>6. ASSUME storeFailures' = 0, NEW c \in proposed'
          PROVE  \E j \in DOMAIN log' : log'[j] = Proposal(c)
      <3>1. CASE c \in proposed
        <4>1. PICK j \in DOMAIN log : log[j] = Proposal(c)
          BY <1>3, <2>6, <3>1 DEF LogInv
        <4>2. j \in 1..(n + m) /\ log'[j] = log[j]
          BY <2>1, <4>1
        <4> QED
          BY <2>1, <4>1, <4>2
      <3>2. CASE c \notin proposed
        <4>1. PICK k \in DOMAIN events : events[k] = Proposal(c)
          BY <3>2
        <4> QED
          BY <2>1, <4>1
      <3> QED
        BY <3>1, <3>2
    <2>7. ASSUME storeFailures' = 0, NEW c \in answered'
          PROVE  \E j \in DOMAIN log' : log'[j] = Result(c)
      <3>1. CASE c \in answered
        <4>1. PICK j \in DOMAIN log : log[j] = Result(c)
          BY <1>3, <2>7, <3>1 DEF LogInv
        <4>2. j \in 1..(n + m) /\ log'[j] = log[j]
          BY <2>1, <4>1
        <4> QED
          BY <2>1, <4>1, <4>2
      <3>2. CASE c \notin answered
        <4>1. PICK k \in DOMAIN events : events[k] = Result(c)
          BY <3>2
        <4> QED
          BY <2>1, <4>1
      <3> QED
        BY <3>1, <3>2
    <2>8. ASSUME NEW i \in DOMAIN log', NEW j \in DOMAIN log',
                 log'[i].type = "tool_result", log'[j] = log'[i]
          PROVE  i = j
      <3>1. CASE i \in 1..n /\ j \in 1..n
        BY <2>1, <2>8, <3>1 DEF LogInv, OneTerminalResult
      <3>2. CASE i \in (n + 1)..(n + m) /\ j \in (n + 1)..(n + m)
        <4>1. PICK k \in DOMAIN events, l \in DOMAIN events : k = i - n /\ l = j - n
          BY <2>1, <3>2
        <4>2. events[k] = log'[i] /\ events[l] = log'[j]
          BY <2>1, <3>2, <4>1
        <4>3. k = l
          BY <2>8, <4>1, <4>2
        <4> QED
          BY <2>1, <3>2, <4>1, <4>3
      <3>3. CASE i \in 1..n /\ j \in (n + 1)..(n + m)
        <4>1. log'[i].call \in answered
          BY <2>1, <2>8, <3>3 DEF LogInv
        <4>2. log'[j].call \notin answered
          BY <2>1, <2>8, <3>3 DEF LogInv
        <4> QED
          BY <2>8, <4>1, <4>2
      <3>4. CASE j \in 1..n /\ i \in (n + 1)..(n + m)
        <4>1. log'[j].call \in answered /\ log'[i].call \notin answered
          BY <2>1, <2>8, <3>4 DEF LogInv
        <4> QED
          BY <2>8, <4>1
      <3> QED
        BY <2>1, <2>2, <3>1, <3>2, <3>3, <3>4
    <2>9. ASSUME storeFailures' = 0, NEW i \in DOMAIN log', log'[i].type # "tool_call_proposed"
          PROVE  \E j \in 1..(i - 1) : log'[j] = [log'[i] EXCEPT !.type = "tool_call_proposed"]
      <3>1. CASE i \in 1..n
        <4>1. PICK j \in 1..(i - 1) : log[j] = [log[i] EXCEPT !.type = "tool_call_proposed"]
          BY <1>3, <2>1, <2>9, <3>1 DEF LogInv, OneTerminalResult
        <4>2. j \in 1..n
          BY <2>1, <3>1, <4>1
        <4> QED
          BY <2>1, <3>1, <4>1, <4>2
      <3>2. CASE i \in (n + 1)..(n + m)
        <4>1. log'[i] \in Events /\ log'[i].call \in proposed
          BY <2>1, <2>4, <2>9, <3>2
        <4>2. PICK j \in DOMAIN log : log[j] = Proposal(log'[i].call)
          BY <1>3, <2>9, <4>1 DEF LogInv
        <4>3. j \in 1..(i - 1) /\ log'[j] = log[j]
          BY <2>1, <3>2, <4>2
        <4>4. Proposal(log'[i].call) = [log'[i] EXCEPT !.type = "tool_call_proposed"]
          BY <4>1 DEF Events, Proposal
        <4> QED
          BY <4>2, <4>3, <4>4
      <3> QED
        BY <2>1, <2>2, <3>1, <3>2
    <2> QED
      BY <2>5, <2>6, <2>7, <2>8, <2>9 DEF LogInv, OneTerminalResult
  <1> QED
    BY <1>2, <1>3 DEF Emit

\* Nothing is appended, proposed or answered.
LEMMA QuietLog ==
  ASSUME LogInv, UNCHANGED <<storeVars, proposed, answered>>
  PROVE  LogInv'
  BY DEF LogInv, OneTerminalResult, storeVars

\* Events of the call at hand, the last of them its result if it gets one.
LEMMA EmitOne ==
  ASSUME IInv, CallInv, LogInv, pc \notin Outside, next <= Len(batch), proposed' = proposed,
         NEW type \in EventTypes \ {"tool_call_proposed", "approval_denied"},
         Emit(<<Event(type)>>),
         answered' = IF type = "tool_result" THEN answered \cup {Current} ELSE answered
  PROVE  LogInv'
  <1> DEFINE events == <<Event(type)>>
  <1>1. Event(type) \in Events
    BY EventType DEF IInv
  <1>2. /\ events \in Seq(Events) /\ DOMAIN events = {1}
        /\ events[1].type = type /\ events[1].call = Current
        /\ type = "tool_result" => events[1] = Result(Current)
    BY <1>1 DEF Event, Result
  <1>3. Current \in proposed /\ Current \notin answered
    BY CurrentOpen
  <1> QED
    BY <1>2, <1>3, EmitLog DEF IInv

LEMMA EmitTwo ==
  ASSUME IInv, CallInv, LogInv, pc \notin Outside, next <= Len(batch), proposed' = proposed,
         NEW type \in EventTypes \ {"tool_call_proposed", "tool_result"},
         NEW last \in EventTypes \ {"tool_call_proposed", "approval_denied"},
         Emit(<<Event(type), Event(last)>>), type = "approval_denied" => last = "tool_result",
         answered' = IF last = "tool_result" THEN answered \cup {Current} ELSE answered
  PROVE  LogInv'
  <1> DEFINE events == <<Event(type), Event(last)>>
  <1>1. Event(type) \in Events /\ Event(last) \in Events
    BY EventType DEF IInv
  <1>2. /\ events \in Seq(Events) /\ DOMAIN events = {1, 2}
        /\ events[1].type = type /\ events[1].call = Current
        /\ events[2].type = last /\ events[2].call = Current
        /\ last = "tool_result" => events[2] = Result(Current)
    BY <1>1 DEF Event, Result
  <1>3. Current \in proposed /\ Current \notin answered
    BY CurrentOpen
  <1> QED
    BY <1>2, <1>3, EmitLog DEF IInv

\* A stream's proposals are logged before the first of them is admitted.
LEMMA ProposalLog ==
  ASSUME IInv, CallInv, CallInv', LogInv, NEW calls \in Batches, StreamProposed(calls)
  PROVE  LogInv'
  <1> DEFINE events == [i \in DOMAIN calls |-> Proposal(RefAt(i))]
  <1>1. /\ Emit(events) /\ answered' = answered
        /\ proposed' = proposed \cup {RefAt(i) : i \in DOMAIN calls}
    BY DEF StreamProposed, RefAt, Proposal
  <1>2. /\ DOMAIN calls = 1..Len(calls) /\ Len(calls) \in 1..MaxBatch
    BY DEF Batches
  <1>3. turn \in 1..MaxTurns /\ steps + 1 \in 1..MaxSteps
    BY DEF StreamProposed, IInv, TypeOK, PositionInv, Outside, Active
  <1>4. \A i \in DOMAIN calls : Proposal(RefAt(i)) \in Events
    BY <1>2, <1>3 DEF RefAt, CallRefs, Proposal, Events, EventTypes
  <1>5. events \in Seq(Events) /\ DOMAIN events = DOMAIN calls
    BY <1>2, <1>4
  <1>6. \A i \in DOMAIN events : /\ events[i] = Proposal(RefAt(i)) /\ events[i].call = RefAt(i)
                               /\ events[i].type = "tool_call_proposed"
    BY DEF Proposal
  <1> HIDE DEF events
  <1> QED
    BY <1>1, <1>5, <1>6, EmitLog DEF IInv

LEMMA AdmitLog == IInv /\ CallInv /\ LogInv /\ AdmitStep => LogInv'
  <1> SUFFICES ASSUME IInv, CallInv, LogInv, AdmitStep PROVE LogInv'
    OBVIOUS
  <1>1. CASE AdmissionCancelled \/ SkipDone \/ RoundAdmitted \/ BudgetTrips
    <2>1. UNCHANGED <<proposed, answered>>
      BY <1>1 DEF AdmissionCancelled, SkipDone, RoundAdmitted, BudgetTrips, Finish, RecordRound,
         roundVars
    <2>2. UNCHANGED storeVars
      BY <1>1 DEF AdmissionCancelled, SkipDone, RoundAdmitted, BudgetTrips
    <2> QED
      BY <2>1, <2>2, QuietLog
  <1>2. CASE ~(AdmissionCancelled \/ SkipDone \/ RoundAdmitted \/ BudgetTrips)
    <2>1. pc \notin Outside /\ next <= Len(batch) /\ proposed' = proposed
      BY <1>2 DEF AdmitStep, AdmitInvalid, AdmitDuplicate, AdmitDenied, AdmitAllowed,
         AdmitUnplannable, AdmitGated, SkipCall, MayAdmit, Admitting, Outside, Settle, RecordResult,
         roundVars
    <2>2. CASE AdmitInvalid \/ AdmitDuplicate \/ AdmitUnplannable \/ SkipCall
      <3>1. Emit(<<Event("tool_result")>>) /\ answered' = answered \cup {Current}
        BY <2>2 DEF AdmitInvalid, AdmitDuplicate, AdmitUnplannable, SkipCall, Settle, RecordResult
      <3> QED
        BY <2>1, <3>1, EmitOne DEF EventTypes
    <2>3. CASE AdmitDenied
      <3>1. /\ Emit(<<Event("policy_decision"), Event("tool_result")>>)
            /\ answered' = answered \cup {Current}
        BY <2>3 DEF AdmitDenied, Settle, RecordResult
      <3> QED
        BY <2>1, <3>1, EmitTwo DEF EventTypes
    <2>4. CASE AdmitAllowed
      <3>1. Emit(<<Event("policy_decision")>>) /\ answered' = answered
        BY <2>4 DEF AdmitAllowed, roundVars
      <3> QED
        BY <2>1, <3>1, EmitOne DEF EventTypes
    <2>5. CASE AdmitGated
      <3>1. /\ Emit(<<Event("policy_decision"), Event("approval_requested")>>)
            /\ answered' = answered
        BY <2>5 DEF AdmitGated, roundVars
      <3> QED
        BY <2>1, <3>1, EmitTwo DEF EventTypes
    <2> QED
      BY <1>2, <2>2, <2>3, <2>4, <2>5 DEF AdmitStep
  <1> QED
    BY <1>1, <1>2

LEMMA HandlerLog == IInv /\ CallInv /\ LogInv /\ (HandlerStep \/ UserAnswers) => LogInv'
  <1> SUFFICES ASSUME IInv, CallInv, LogInv, HandlerStep \/ UserAnswers PROVE LogInv'
    OBVIOUS
  <1>1. CASE HandlerInterrupted \/ UserApproves
    <2>1. UNCHANGED <<storeVars, proposed, answered>>
      BY <1>1 DEF HandlerInterrupted, UserApproves, Finish, RecordRound, roundVars
    <2> QED
      BY <2>1, QuietLog
  <1>2. ASSUME \/ UserDenies
               \/ \E code \in ResultCodes, size \in OutputSizes \cup {0} : HandlerReturns(code, size)
        PROVE  LogInv'
    <2>1. pc \notin Outside /\ next <= Len(batch)
      BY <1>2 DEF UserDenies, HandlerReturns, Outside, AtCall, IInv, PositionInv
    <2>2. proposed' = proposed /\ answered' = answered \cup {Current}
      BY <1>2 DEF UserDenies, HandlerReturns, Settle, RecordResult
    <2>3. \/ Emit(<<Event("tool_result")>>)
          \/ Emit(<<Event("approval_granted"), Event("tool_result")>>)
          \/ Emit(<<Event("approval_denied"), Event("tool_result")>>)
      BY <1>2 DEF UserDenies, HandlerReturns
    <2>4. CASE Emit(<<Event("tool_result")>>)
      BY <2>1, <2>2, <2>4, EmitOne DEF EventTypes
    <2>5. CASE Emit(<<Event("approval_granted"), Event("tool_result")>>)
      BY <2>1, <2>2, <2>5, EmitTwo DEF EventTypes
    <2>6. CASE Emit(<<Event("approval_denied"), Event("tool_result")>>)
      BY <2>1, <2>2, <2>6, EmitTwo DEF EventTypes
    <2> QED
      BY <2>3, <2>4, <2>5, <2>6
  <1> QED
    BY <1>1, <1>2 DEF HandlerStep, UserAnswers

LEMMA NextLog == IInv /\ CallInv /\ LogInv /\ CallInv' /\ [Next]_vars => LogInv'
  <1> SUFFICES ASSUME IInv, CallInv, LogInv, CallInv', [Next]_vars PROVE LogInv'
    OBVIOUS
  <1>1. CASE BeginTurn \/ OpenRound \/ ExecuteStep \/ RequestCancel \/ TimePasses \/ UNCHANGED vars
    <2>1. UNCHANGED storeVars
      BY <1>1 DEF BeginTurn, OpenRound, ExecuteStep, CancelledAt, StartAllowed, AskUser, IssueToken,
         Dispatch, RequestCancel, TimePasses, vars, storeVars
    <2>2. UNCHANGED <<proposed, answered>>
      BY <1>1 DEF BeginTurn, OpenRound, ExecuteStep, CancelledAt, StartAllowed, AskUser, IssueToken,
         Dispatch, RequestCancel, TimePasses, vars, Finish, RecordRound, roundVars
    <2> QED
      BY <2>1, <2>2, QuietLog
  <1>2. CASE StreamStep
    <2>1. CASE StreamCancelled \/ StreamCompleted \/ \E transient \in BOOLEAN : StreamFailed(transient)
      <3>1. UNCHANGED <<storeVars, proposed, answered>>
        BY <2>1 DEF StreamCancelled, StreamCompleted, StreamFailed, Finish, RecordRound, roundVars
      <3> QED
        BY <3>1, QuietLog
    <2>2. ASSUME NEW calls \in Batches, StreamProposed(calls) PROVE LogInv'
      BY <2>2, ProposalLog
    <2> QED
      BY <1>2, <2>1, <2>2 DEF StreamStep
  <1>3. CASE AdmitStep
    BY <1>3, AdmitLog
  <1>4. CASE HandlerStep \/ UserAnswers
    BY <1>4, HandlerLog
  <1> QED
    BY <1>1, <1>2, <1>3, <1>4 DEF Next, EngineStep

LEMMA CallsHold == Spec => []CallInv
  <1>1. IInv /\ IInv' /\ CallInv /\ [Next]_vars => CallInv'
    <2>1. IInv' => TypeOK'
      BY DEF IInv
    <2> QED
      BY <2>1, NextCalls DEF CallStep
  <1> QED
    BY InitCalls, Invariance, <1>1, PTL DEF Spec

LEMMA LogHolds == Spec => []LogInv
  <1>1. Init => LogInv
    <2> SUFFICES ASSUME Init PROVE LogInv
      OBVIOUS
    <2>1. log = <<>> /\ proposed = {} /\ answered = {}
      BY DEF Init
    <2>2. DOMAIN log = {}
      BY <2>1
    <2> QED
      BY <2>1, <2>2 DEF LogInv, OneTerminalResult
  <1> QED
    BY Invariance, CallsHold, <1>1, NextLog, PTL DEF Spec

\* A call gets at most one result in the event log, on every path through
\* budgets, duplicates, denials and skips, and - as long as the store takes
\* what is appended - never before it was logged as proposed.
THEOREM ResultsAreTerminal == Spec => []OneTerminalResult
  <1>1. LogInv => OneTerminalResult
    BY DEF LogInv
  <1> QED
    BY LogHolds, <1>1, PTL

\* A handler runs for a proposed call.
RunInv == \A s \in started : s.call \in proposed

LEMMA NextRun == IInv /\ CallInv /\ RunInv /\ [Next]_vars => RunInv'
  <1> SUFFICES ASSUME IInv, CallInv, RunInv, [Next]_vars PROVE RunInv'
    OBVIOUS
  <1>1. CASE Dispatch
    <2>1. pc \notin Outside /\ next <= Len(batch)
      BY <1>1 DEF Dispatch, Outside, IInv, PositionInv, AtCall
    <2>2. CurrentCall.call \in proposed
      BY <2>1, CurrentOpen DEF CurrentCall
    <2> QED
      BY <1>1, <2>2 DEF Dispatch, RunInv, roundVars
  <1>2. CASE ~Dispatch
    <2>1. started' = started
      BY <1>2 DEF Next, EngineStep, BeginTurn, OpenRound, StreamStep, StreamCancelled, StreamFailed,
         StreamCompleted, StreamProposed, AdmitStep, AdmissionCancelled, BudgetTrips, AdmitInvalid,
         AdmitDuplicate, AdmitDenied, AdmitAllowed, AdmitUnplannable, AdmitGated, RoundAdmitted,
         SkipCall, SkipDone, ExecuteStep, CancelledAt, StartAllowed, AskUser, IssueToken,
         HandlerStep, HandlerReturns, HandlerInterrupted, UserAnswers, UserDenies, UserApproves,
         RequestCancel, TimePasses, vars, ghostVars
    <2>2. proposed \subseteq proposed'
      BY <1>2 DEF Next, EngineStep, BeginTurn, OpenRound, StreamStep, StreamCancelled, StreamFailed,
         StreamCompleted, StreamProposed, AdmitStep, AdmissionCancelled, BudgetTrips, AdmitInvalid,
         AdmitDuplicate, AdmitDenied, AdmitAllowed, AdmitUnplannable, AdmitGated, RoundAdmitted,
         SkipCall, SkipDone, ExecuteStep, CancelledAt, StartAllowed, AskUser, IssueToken,
         HandlerStep, HandlerReturns, HandlerInterrupted, UserAnswers, UserDenies, UserApproves,
         RequestCancel, TimePasses, vars, Finish, Settle, RecordRound, RecordResult, roundVars
    <2> QED
      BY <2>1, <2>2 DEF RunInv
  <1> QED
    BY <1>1, <1>2

\* With ids of the server's own, the call of a handler that has run and whose
\* result is not in the log is among those start-up reports as pending.  That
\* ids differ is what the proof needs them for, and what numbering them per
\* stream takes away.
THEOREM InterruptedRunsArePending ==
  ASSUME ProviderIds
  PROVE  Spec => []InterruptedRunIsPending
  <1>1. Init => RunInv
    BY DEF Init, RunInv
  <1>2. IInv /\ LogInv /\ RunInv => InterruptedRunIsPending
    <2> SUFFICES ASSUME IInv, LogInv, RunInv, storeFailures = 0,
                        NEW s \in started, s.call \notin LoggedResults
                 PROVE  CallId(s.call) \in PendingIds
      BY DEF InterruptedRunIsPending
    <2>1. log \in Seq(Events) /\ s.call \in proposed
      BY DEF IInv, TypeOK, RunInv
    <2>2. ASSUME NEW i \in DOMAIN log PROVE log[i].call \in CallRefs
      <3>1. log[i] \in Events
        BY <2>1
      <3> QED
        BY <3>1 DEF Events
    <2>3. s.call \in LoggedProposals
      <3>1. PICK j \in DOMAIN log : log[j] = Proposal(s.call)
        BY <2>1 DEF LogInv
      <3> QED
        BY <3>1 DEF LoggedProposals, Logged, Proposal
    <2>4. s.call \notin answered
      <3> SUFFICES ASSUME s.call \in answered PROVE s.call \in LoggedResults
        OBVIOUS
      <3>1. PICK j \in DOMAIN log : log[j] = Result(s.call)
        BY DEF LogInv
      <3> QED
        BY <3>1 DEF LoggedResults, Logged, Result
    <2>5. \A c \in LoggedResults \cup Logged("approval_denied") : c \in answered /\ c \in CallRefs
      BY <2>2 DEF LogInv, LoggedResults, Logged
    <2>6. s.call \in CallRefs
      BY <2>2, <2>3 DEF LoggedProposals, Logged
    <2>7. \A c \in CallRefs : CallId(c) = CallId(s.call) => c = s.call
      BY <2>6 DEF CallId, CallRefs
    <2>8. CallId(s.call) \notin {CallId(c) : c \in LoggedResults \cup Logged("approval_denied")}
      BY <2>4, <2>5, <2>7
    <2> QED
      BY <2>3, <2>8 DEF PendingIds
  <1> QED
    BY Invariance, CallsHold, LogHolds, <1>1, <1>2, NextRun, PTL DEF Spec

-----------------------------------------------------------------------------
(* Recorded rounds.  Inside a round the calls before the current position   *)
(* have their results; only a cancelled turn records one before its end.   *)

Complete(r) == Len(rounds[r].results) = Len(rounds[r].calls)

CutShort(r) ==
  /\ state = "cancelled" /\ r = Len(rounds)
  /\ Len(rounds[r].results) < Len(rounds[r].calls)

RoundInv ==
  /\ pc \notin Outside => Len(pendingResults) = next - 1 /\ next <= Len(batch) + 1
  /\ state = "cancelled" => pc = "ended"
  /\ \A r \in DOMAIN rounds : Complete(r) \/ CutShort(r)
  /\ state # "cancelled" =>
        \A c \in proposed : c.turn = turn /\ c.round <= steps => c \in answered

\* A round that is complete, or that a cancellation cuts short.
LEMMA RecordRounds ==
  ASSUME IInv, CallInv, RoundInv, Active, RecordRound, turn' = turn,
         pc' \in Outside, state' = "cancelled" => pc' = "ended",
         batch = <<>> \/ next > Len(batch) \/ state' = "cancelled"
  PROVE  RoundInv'
  <1> DEFINE Rounds == [calls : Seq(Contents), results : Seq(ResultCodes)]
  <1>1. /\ rounds \in Seq(Rounds) /\ batch \in Seq(Contents) /\ pendingResults \in Seq(ResultCodes)
        /\ next \in Nat \ {0} /\ steps \in Nat /\ Len(batch) \in Nat
    BY DEF IInv, TypeOK
  <1>2. state # "cancelled"
    BY DEF RoundInv, Active
  <1>3. \A r \in DOMAIN rounds : Complete(r)
    BY <1>2 DEF RoundInv, CutShort
  <1>4. CASE batch = <<>>
    BY <1>2, <1>3, <1>4 DEF RecordRound, roundVars, RoundInv, Complete
  <1>5. CASE batch # <<>>
    <2> DEFINE last == [calls |-> batch, results |-> pendingResults]
    <2>1. /\ rounds' = Append(rounds, last) /\ steps' = steps + 1
          /\ UNCHANGED <<proposed, answered>>
      BY <1>5 DEF RecordRound
    <2>2. /\ DOMAIN rounds' = 1..(Len(rounds) + 1) /\ Len(rounds') = Len(rounds) + 1
          /\ DOMAIN rounds = 1..Len(rounds) /\ Len(rounds) \in Nat
          /\ rounds'[Len(rounds) + 1] = last
          /\ \A r \in DOMAIN rounds : rounds'[r] = rounds[r]
      <3>1. last \in Rounds
        BY <1>1
      <3> HIDE DEF Rounds, last
      <3> QED
        BY <1>1, <2>1, <3>1
    <2>3. Len(pendingResults) = next - 1 /\ next <= Len(batch) + 1
      BY <1>5 DEF RoundInv, IInv, PositionInv
    <2>4. \A r \in DOMAIN rounds' : Complete(r)' \/ CutShort(r)'
      <3>1. ASSUME NEW r \in DOMAIN rounds PROVE Complete(r)'
        BY <1>3, <2>2, <3>1 DEF Complete
      <3>2. ASSUME NEW r \in DOMAIN rounds', r = Len(rounds) + 1
            PROVE  Complete(r)' \/ CutShort(r)'
        <4>1. rounds'[r].calls = batch /\ rounds'[r].results = pendingResults
          BY <2>2, <3>2
        <4>2. Len(pendingResults) = Len(batch) \/ Len(pendingResults) < Len(batch)
          BY <1>1, <2>3
        <4>3. CASE Len(pendingResults) = Len(batch)
          BY <4>1, <4>3 DEF Complete
        <4>4. CASE Len(pendingResults) < Len(batch)
          <5>1. state' = "cancelled"
            BY <1>1, <1>5, <2>3, <4>4
          <5> QED
            BY <2>2, <3>2, <4>1, <4>4, <5>1 DEF CutShort
        <4> QED
          BY <4>2, <4>3, <4>4
      <3> QED
        BY <2>2, <3>1, <3>2
    <2>5. ASSUME state' # "cancelled", NEW c \in proposed', c.turn = turn', c.round <= steps'
          PROVE  c \in answered'
      <3>1. CASE c.round <= steps
        BY <1>2, <2>1, <2>5, <3>1 DEF RoundInv
      <3>2. CASE ~(c.round <= steps)
        <4>1. c \in CallRefs /\ c.turn \in Nat /\ turn \in Nat
          BY <2>1, <2>5 DEF IInv, TypeOK, CallRefs
        <4>2. InOpenRound(c) /\ c.index \in 1..Len(batch)
          BY <2>1, <2>5, <3>2, <4>1 DEF CallInv
        <4>3. c = RefAt(c.index)
          BY <4>1, <4>2 DEF InOpenRound, RefAt, CallRefs
        <4>4. c.index < next
          BY <1>1, <1>5, <2>5, <4>2
        <4> QED
          BY <2>1, <4>2, <4>3, <4>4 DEF CallInv
      <3> QED
        BY <3>1, <3>2
    <2> QED
      BY <2>4, <2>5 DEF RoundInv
  <1> QED
    BY <1>4, <1>5

\* The call at hand is answered, and the loop goes on.
LEMMA AnswerRounds ==
  ASSUME IInv, CallInv, RoundInv, pc \notin Outside, next <= Len(batch),
         NEW code \in ResultCodes, RecordResult(code), turn' = turn, state' # "cancelled"
  PROVE  RoundInv'
  <1>1. /\ pendingResults \in Seq(ResultCodes) /\ next \in Nat \ {0} /\ Len(batch) \in Nat
        /\ Len(pendingResults) = next - 1
    BY DEF IInv, TypeOK, RoundInv
  <1>2. state # "cancelled"
    BY DEF RoundInv, Outside
  <1>3. /\ pendingResults' = Append(pendingResults, code) /\ next' = next + 1
        /\ answered' = answered \cup {Current} /\ UNCHANGED <<batch, rounds, steps, proposed>>
    BY DEF RecordResult
  <1>4. Len(pendingResults') = next' - 1 /\ next' <= Len(batch') + 1
    BY <1>1, <1>3
  <1>5. \A r \in DOMAIN rounds' : Complete(r)'
    BY <1>2, <1>3 DEF RoundInv, Complete, CutShort
  <1> QED
    BY <1>2, <1>3, <1>4, <1>5 DEF RoundInv

\* No call is answered and no round recorded.
LEMMA QuietRounds ==
  ASSUME RoundInv, UNCHANGED <<turn, roundVars>>, state' = "cancelled" <=> state = "cancelled",
         state = "cancelled" => pc' = "ended", pc' \notin Outside => pc \notin Outside
  PROVE  RoundInv'
  BY DEF RoundInv, roundVars, Complete, CutShort

LEMMA BeginTurnRounds == IInv /\ CallInv /\ BeginTurn => RoundInv'
  <1> SUFFICES ASSUME IInv, CallInv, BeginTurn PROVE RoundInv'
    OBVIOUS
  <1>1. /\ pc' = "loop" /\ state' = "idle" /\ rounds' = <<>> /\ turn' = turn + 1 /\ turn \in Nat
        /\ batch = <<>> /\ proposed' = proposed
    BY DEF BeginTurn, IInv, TypeOK, PositionInv, Outside
  <1>2. \A c \in proposed' : c.turn # turn'
    <2>1. \A c \in proposed : c.turn \in Nat
      BY DEF IInv, TypeOK, CallRefs
    <2> QED
      BY <1>1, <2>1 DEF CallInv, InOpenRound
  <1>3. DOMAIN rounds' = {}
    BY <1>1
  <1> QED
    BY <1>1, <1>2, <1>3 DEF RoundInv, Outside

LEMMA ProposeRounds ==
  ASSUME IInv, RoundInv, NEW calls \in Batches, StreamProposed(calls)
  PROVE  RoundInv'
  <1>1. /\ pendingResults' = <<>> /\ next' = 1 /\ batch' = calls /\ state' = "collecting"
        /\ proposed' = proposed \cup {RefAt(i) : i \in DOMAIN calls}
        /\ UNCHANGED <<turn, steps, rounds, answered>>
    BY DEF StreamProposed, RefAt
  <1>2. state # "cancelled"
    BY DEF RoundInv, StreamProposed
  <1>3. Len(pendingResults') = next' - 1 /\ next' <= Len(batch') + 1
    BY <1>1 DEF Batches
  <1>4. \A r \in DOMAIN rounds' : Complete(r)'
    BY <1>1, <1>2 DEF RoundInv, Complete, CutShort
  <1>5. \A c \in proposed' : c.turn = turn' /\ c.round <= steps' => c \in answered'
    <2>1. steps \in Nat
      BY DEF IInv, TypeOK
    <2>2. \A i \in DOMAIN calls : ~(RefAt(i).round <= steps)
      BY <2>1 DEF RefAt
    <2> QED
      BY <1>1, <1>2, <2>2 DEF RoundInv
  <1> QED
    BY <1>1, <1>3, <1>4, <1>5 DEF RoundInv

LEMMA FinishRounds ==
  ASSUME IInv, CallInv, RoundInv, Active, NEW status, NEW why, Finish(status, why), turn' = turn,
         batch = <<>> \/ next > Len(batch) \/ status = "cancelled"
  PROVE  RoundInv'
  BY RecordRounds DEF Finish, Outside

LEMMA StreamRounds == IInv /\ CallInv /\ RoundInv /\ (OpenRound \/ StreamStep) => RoundInv'
  <1> SUFFICES ASSUME IInv, CallInv, RoundInv, OpenRound \/ StreamStep PROVE RoundInv'
    OBVIOUS
  <1>1. batch = <<>> /\ Active /\ turn' = turn /\ pc \in {"loop", "stream"}
    BY DEF OpenRound, StreamStep, StreamCancelled, StreamCompleted, StreamFailed, StreamProposed,
       Active, Outside, IInv, PositionInv
  <1>2. state # "cancelled"
    BY <1>1 DEF RoundInv
  <1>3. CASE \E status, why : Finish(status, why)
    BY <1>1, <1>3, FinishRounds
  <1>4. CASE /\ UNCHANGED roundVars /\ pc' \in {"loop", "stream"} /\ state' # "cancelled"
    BY <1>1, <1>2, <1>4, QuietRounds DEF Outside
  <1>5. CASE OpenRound
    BY <1>3, <1>4, <1>5 DEF OpenRound
  <1>6. CASE StreamCancelled \/ StreamCompleted
    BY <1>3, <1>6 DEF StreamCancelled, StreamCompleted
  <1>7. ASSUME NEW transient \in BOOLEAN, StreamFailed(transient) PROVE RoundInv'
    BY <1>2, <1>3, <1>4, <1>7 DEF StreamFailed
  <1>8. ASSUME NEW calls \in Batches, StreamProposed(calls) PROVE RoundInv'
    BY <1>8, ProposeRounds
  <1> QED
    BY <1>5, <1>6, <1>7, <1>8 DEF StreamStep

LEMMA AdmitRounds == IInv /\ CallInv /\ RoundInv /\ AdmitStep => RoundInv'
  <1> SUFFICES ASSUME IInv, CallInv, RoundInv, AdmitStep PROVE RoundInv'
    OBVIOUS
  <1>1. pc \in {"admit", "skip"} /\ Active /\ turn' = turn /\ pc \notin Outside
    BY DEF AdmitStep, AdmissionCancelled, BudgetTrips, AdmitInvalid, AdmitDuplicate, AdmitDenied,
       AdmitAllowed, AdmitUnplannable, AdmitGated, RoundAdmitted, SkipCall, SkipDone, MayAdmit,
       Admitting, Active, Outside
  <1>2. state # "cancelled"
    BY <1>1 DEF RoundInv
  <1>3. CASE AdmissionCancelled \/ SkipDone
    BY <1>1, <1>3, FinishRounds DEF AdmissionCancelled, SkipDone
  <1>4. CASE RoundAdmitted
    <2>1. RecordRound /\ next > Len(batch) /\ pc' \in Outside /\ state' # "cancelled"
      BY <1>2, <1>4 DEF RoundAdmitted, Outside
    <2> QED
      BY <1>1, <2>1, RecordRounds
  <1>5. CASE BudgetTrips \/ AdmitAllowed \/ AdmitGated
    <2>1. UNCHANGED roundVars /\ state' # "cancelled"
      BY <1>2, <1>5 DEF BudgetTrips, AdmitAllowed, AdmitGated
    <2> QED
      BY <1>1, <1>2, <2>1, QuietRounds
  <1>6. CASE AdmitInvalid \/ AdmitDuplicate \/ AdmitDenied \/ AdmitUnplannable \/ SkipCall
    <2>1. next <= Len(batch) /\ state' # "cancelled"
      BY <1>2, <1>6 DEF AdmitInvalid, AdmitDuplicate, AdmitDenied, AdmitUnplannable, SkipCall,
         MayAdmit, Admitting
    <2>2. \E code \in ResultCodes : RecordResult(code)
      BY <1>6 DEF AdmitInvalid, AdmitDuplicate, AdmitDenied, AdmitUnplannable, SkipCall, Settle,
         ResultCodes
    <2> QED
      BY <1>1, <2>1, <2>2, AnswerRounds
  <1> QED
    BY <1>3, <1>4, <1>5, <1>6 DEF AdmitStep

LEMMA CallRounds ==
  IInv /\ CallInv /\ RoundInv /\ (ExecuteStep \/ HandlerStep \/ UserAnswers) => RoundInv'
  <1> SUFFICES ASSUME IInv, CallInv, RoundInv, ExecuteStep \/ HandlerStep \/ UserAnswers
               PROVE RoundInv'
    OBVIOUS
  <1>1. pc \in AtCall /\ turn' = turn
    BY DEF ExecuteStep, CancelledAt, StartAllowed, AskUser, IssueToken, Dispatch, HandlerStep,
       HandlerReturns, HandlerInterrupted, UserAnswers, UserDenies, UserApproves, AtCall
  <1>2. pc \notin Outside /\ Active /\ next <= Len(batch) /\ state # "cancelled"
    BY <1>1 DEF Outside, AtCall, Active, IInv, PositionInv, RoundInv
  <1>3. CASE \/ \E point \in {"decided", "asked", "granted"} : CancelledAt(point)
             \/ HandlerInterrupted
    BY <1>1, <1>2, <1>3, FinishRounds DEF CancelledAt, HandlerInterrupted
  <1>4. CASE StartAllowed \/ AskUser \/ IssueToken \/ Dispatch \/ UserApproves
    <2>1. UNCHANGED roundVars /\ state' # "cancelled"
      BY <1>2, <1>4 DEF StartAllowed, AskUser, IssueToken, Dispatch, UserApproves
    <2> QED
      BY <1>1, <1>2, <2>1, QuietRounds
  <1>5. CASE \/ UserDenies
             \/ \E code \in ResultCodes, size \in OutputSizes \cup {0} : HandlerReturns(code, size)
    <2>1. state' # "cancelled" /\ \E code \in ResultCodes : RecordResult(code)
      BY <1>5 DEF UserDenies, HandlerReturns, Settle, ResultCodes
    <2> QED
      BY <1>1, <1>2, <2>1, AnswerRounds
  <1> QED
    BY <1>3, <1>4, <1>5 DEF ExecuteStep, HandlerStep, UserAnswers

LEMMA NextRounds == IInv /\ CallInv /\ RoundInv /\ [Next]_vars => RoundInv'
  <1> SUFFICES ASSUME IInv, CallInv, RoundInv, [Next]_vars PROVE RoundInv'
    OBVIOUS
  <1>1. CASE RequestCancel \/ TimePasses \/ UNCHANGED vars
    <2>1. UNCHANGED <<turn, pc, state, roundVars>>
      BY <1>1 DEF RequestCancel, TimePasses, vars
    <2>2. state = "cancelled" => pc' = "ended"
      BY <2>1 DEF RoundInv
    <2> QED
      BY <2>1, <2>2, QuietRounds
  <1> QED
    BY <1>1, BeginTurnRounds, StreamRounds, AdmitRounds, CallRounds DEF Next, EngineStep

\* A turn that was not cancelled leaves no call of it unanswered, in the
\* rounds it hands back and - unless the store failed - in the event log; a
\* cancelled one leaves at most the tail of its last round.
THEOREM RoundsAreAnswered == Spec => []RoundsAnswered
  <1>1. Init => RoundInv
    <2> SUFFICES ASSUME Init PROVE RoundInv
      OBVIOUS
    <2>1. pc = "idle" /\ state = "idle" /\ proposed = {} /\ rounds = <<>>
      BY DEF Init
    <2>2. DOMAIN rounds = {}
      BY <2>1
    <2> QED
      BY <2>1, <2>2 DEF RoundInv, Outside
  <1>2. IInv /\ CallInv /\ LogInv /\ RoundInv => RoundsAnswered
    <2> SUFFICES ASSUME IInv, CallInv, LogInv, RoundInv PROVE RoundsAnswered
      OBVIOUS
    <2>1. ASSUME pc = "ended", state # "cancelled", storeFailures = 0,
                 NEW c \in LoggedProposals, c.turn = turn
          PROVE  c \in LoggedResults
      <3>1. c \in proposed
        BY <2>1 DEF LogInv, LoggedProposals, Logged
      <3>2. c.turn \in Nat /\ turn \in Nat /\ batch = <<>>
        BY <2>1, <3>1 DEF IInv, TypeOK, CallRefs, PositionInv, Outside
      <3>3. c.round <= steps
        BY <2>1, <3>1, <3>2 DEF CallInv, InOpenRound
      <3>4. c \in answered
        BY <2>1, <3>1, <3>3 DEF RoundInv
      <3>5. PICK j \in DOMAIN log : log[j] = Result(c)
        BY <2>1, <3>4 DEF LogInv
      <3> QED
        BY <3>5 DEF LoggedResults, Logged, Result
    <2> QED
      BY <2>1 DEF RoundsAnswered, RoundInv, Complete, CutShort
  <1> QED
    BY Invariance, CallsHold, LogHolds, <1>1, <1>2, NextRounds, PTL DEF Spec
-----------------------------------------------------------------------------
(* Budgets.  Every handler of the turn was counted when its call was        *)
(* admitted; the call on its way to its handler is counted and not run.    *)

Started == {s \in started : s.call.turn = turn}
StartedWith(c) == {s \in Started : s.content = c}
OnItsWay == pc \in AtCall \ {"handler"}

BudgetInv ==
  /\ callsSeen <= MaxCalls
  /\ output > MaxOutput => pc \in {"skip", "ended"}
  /\ IsFiniteSet(started) /\ \A s \in started : s.call.turn <= turn
  /\ Cardinality(Started) + (IF OnItsWay THEN 1 ELSE 0) <= callsSeen
  /\ \A c \in Contents :
       /\ Cardinality(StartedWith(c)) <= MaxDuplicates
       /\ Cardinality(StartedWith(c)) + (IF OnItsWay /\ c = Content THEN 1 ELSE 0) <= seen[c]
  /\ OnItsWay => seen[Content] <= MaxDuplicates

\* Counting.
LEMMA Counts ==
  ASSUME IsFiniteSet(started)
  PROVE  /\ Cardinality(Started) \in Nat
         /\ \A c : Cardinality(StartedWith(c)) \in Nat
  <1>1. Started \subseteq started /\ \A c : StartedWith(c) \subseteq started
    BY DEF Started, StartedWith
  <1>2. IsFiniteSet(Started) /\ \A c : IsFiniteSet(StartedWith(c))
    BY <1>1, FS_Subset
  <1> QED
    BY <1>2, FS_CardinalityType

LEMMA AddOne ==
  ASSUME NEW S, IsFiniteSet(S), NEW x
  PROVE  /\ IsFiniteSet(S \cup {x})
         /\ Cardinality(S \cup {x}) \in Nat
         /\ Cardinality(S \cup {x}) <= Cardinality(S) + 1
  <1>1. Cardinality(S) \in Nat
    BY FS_CardinalityType
  <1>2. CASE x \in S
    <2>1. S \cup {x} = S
      BY <1>2
    <2> QED
      BY <1>1, <2>1
  <1>3. CASE x \notin S
    <2>1. IsFiniteSet(S \cup {x}) /\ Cardinality(S \cup {x}) = Cardinality(S) + 1
      BY <1>3, FS_AddElement
    <2> QED
      BY <1>1, <2>1
  <1> QED
    BY <1>2, <1>3

\* Nothing starts and nothing is on its way; counters only grow.
LEMMA AwayBudget ==
  ASSUME IInv, TypeOK', BudgetInv, UNCHANGED <<turn, started>>, ~OnItsWay',
         callsSeen <= callsSeen', callsSeen' <= MaxCalls,
         \A c \in Contents : seen[c] <= seen'[c],
         output' > MaxOutput => pc' \in {"skip", "ended"}
  PROVE  BudgetInv'
  <1>1. /\ Cardinality(Started) \in Nat /\ callsSeen \in Nat /\ seen \in [Contents -> Nat]
        /\ callsSeen' \in Nat /\ seen' \in [Contents -> Nat]
        /\ \A c : Cardinality(StartedWith(c)) \in Nat
    BY Counts DEF BudgetInv, IInv, TypeOK
  <1>2. Started' = Started /\ \A c : StartedWith(c)' = StartedWith(c)
    BY DEF Started, StartedWith
  <1>3. Cardinality(Started) <= callsSeen'
    BY <1>1 DEF BudgetInv
  <1>4. ASSUME NEW c \in Contents PROVE Cardinality(StartedWith(c)) <= seen'[c]
    BY <1>1 DEF BudgetInv
  <1> QED
    BY <1>1, <1>2, <1>3, <1>4 DEF BudgetInv

\* On its way, a call stays so from poll to poll.
LEMMA OnwardBudget ==
  ASSUME IInv, BudgetInv, OnItsWay, OnItsWay', UNCHANGED <<roundVars, turn, started, budgetVars>>
  PROVE  BudgetInv'
  <1>1. Started' = Started /\ \A c : StartedWith(c)' = StartedWith(c)
    BY DEF Started, StartedWith
  <1>2. Content' = Content
    BY SameCall DEF roundVars
  <1> QED
    BY <1>1, <1>2 DEF BudgetInv, budgetVars, OnItsWay, AtCall

\* A call is admitted: it is counted, and not one too many.
LEMMA AdmitBudget ==
  ASSUME IInv, BudgetInv, MayAdmit, CountOccurrence, ~IsDuplicate, OnItsWay',
         UNCHANGED <<roundVars, turn, started, output>>
  PROVE  BudgetInv'
  <1>1. /\ Cardinality(Started) \in Nat /\ callsSeen \in Nat /\ seen \in [Contents -> Nat]
        /\ \A c : Cardinality(StartedWith(c)) \in Nat
    BY Counts DEF BudgetInv, IInv, TypeOK
  <1>2. Started' = Started /\ \A c : StartedWith(c)' = StartedWith(c)
    BY DEF Started, StartedWith
  <1>3. callsSeen < MaxCalls /\ pc = "admit" /\ ~OnItsWay /\ ~(output' > MaxOutput)
    BY <1>1 DEF MayAdmit, Admitting, BudgetTripReason, OnItsWay, AtCall, BudgetInv, IInv, TypeOK
  <1>4. Content \in Contents /\ Content' = Content
    BY <1>3, CurrentCallType, SameCall DEF IInv, MayAdmit, Admitting, Outside, roundVars
  <1>5. /\ callsSeen' = callsSeen + 1 /\ seen' = [seen EXCEPT ![Content] = @ + 1]
        /\ seen'[Content] <= MaxDuplicates
    BY <1>1, <1>4 DEF CountOccurrence, IsDuplicate
  <1>6. Cardinality(Started') + 1 <= callsSeen' /\ callsSeen' <= MaxCalls
    BY <1>1, <1>2, <1>3, <1>5 DEF BudgetInv
  <1>7. ASSUME NEW c \in Contents
        PROVE  /\ Cardinality(StartedWith(c)') <= MaxDuplicates
               /\ Cardinality(StartedWith(c)') + (IF c = Content THEN 1 ELSE 0) <= seen'[c]
    BY <1>1, <1>2, <1>3, <1>4, <1>5 DEF BudgetInv
  <1>8. IsFiniteSet(started') /\ \A s \in started' : s.call.turn <= turn'
    BY DEF BudgetInv
  <1> QED
    BY <1>3, <1>4, <1>5, <1>6, <1>7, <1>8 DEF BudgetInv

\* A call on its way starts its handler, or is refused at the gate.
LEMMA DispatchBudget ==
  ASSUME IInv, BudgetInv, Dispatch
  PROVE  BudgetInv'
  <1>1. /\ pc = "dispatch" /\ OnItsWay /\ ~OnItsWay'
        /\ UNCHANGED <<turn, callsSeen, seen, output>> /\ output' = output
    BY DEF Dispatch, OnItsWay, AtCall, budgetVars
  <1>2. started' \subseteq started \cup {CurrentCall} /\ started \subseteq started'
    BY DEF Dispatch
  <1>3. /\ IsFiniteSet(started \cup {CurrentCall}) /\ IsFiniteSet(started')
    BY <1>2, FS_AddElement, FS_Subset DEF BudgetInv
  <1>4. CurrentCall.call.turn = turn /\ CurrentCall.content = Content /\ turn \in Nat
    BY DEF CurrentCall, Current, IInv, TypeOK
  <1>5. /\ Content \in Contents /\ MaxOutput \in Nat /\ output \in Nat
        /\ Cardinality(Started) \in Nat /\ callsSeen \in Nat /\ seen \in [Contents -> Nat]
        /\ \A c : Cardinality(StartedWith(c)) \in Nat
    BY <1>1, CurrentCallType, Counts DEF BudgetInv, IInv, TypeOK, PositionInv, AtCall, Outside
  <1>6. \A s \in started' : s.call.turn <= turn'
    BY <1>1, <1>2, <1>4 DEF BudgetInv
  <1>7. /\ Cardinality(Started') <= Cardinality(Started) + 1 /\ Cardinality(Started') \in Nat
    <2>1. /\ Started' \subseteq Started \cup {CurrentCall} /\ IsFiniteSet(Started)
      BY <1>1, <1>2, FS_Subset DEF Started, BudgetInv
    <2>2. /\ IsFiniteSet(Started \cup {CurrentCall})
          /\ Cardinality(Started \cup {CurrentCall}) <= Cardinality(Started) + 1
      BY <2>1, AddOne
    <2>3. Cardinality(Started \cup {CurrentCall}) \in Nat
      BY <2>2, FS_CardinalityType
    <2>4. IsFiniteSet(Started') /\ Cardinality(Started') <= Cardinality(Started \cup {CurrentCall})
      BY <2>1, <2>2, FS_Subset
    <2>5. Cardinality(Started') \in Nat
      BY <2>4, FS_CardinalityType
    <2> QED
      BY <1>5, <2>2, <2>3, <2>4, <2>5
  <1>8. ASSUME NEW c \in Contents
        PROVE  /\ Cardinality(StartedWith(c)') \in Nat
               /\ Cardinality(StartedWith(c)') <=
                     Cardinality(StartedWith(c)) + (IF c = Content THEN 1 ELSE 0)
    <2>1. IsFiniteSet(StartedWith(c))
      BY FS_Subset DEF StartedWith, Started, BudgetInv
    <2>2. CASE c = Content
      <3>1. StartedWith(c)' \subseteq StartedWith(c) \cup {CurrentCall}
        BY <1>1, <1>2 DEF StartedWith, Started
      <3>2. /\ IsFiniteSet(StartedWith(c) \cup {CurrentCall})
            /\ Cardinality(StartedWith(c) \cup {CurrentCall}) <= Cardinality(StartedWith(c)) + 1
        BY <2>1, AddOne
      <3>3. Cardinality(StartedWith(c) \cup {CurrentCall}) \in Nat
        BY <3>2, FS_CardinalityType
      <3>4. /\ IsFiniteSet(StartedWith(c)')
            /\ Cardinality(StartedWith(c)') <= Cardinality(StartedWith(c) \cup {CurrentCall})
        BY <3>1, <3>2, FS_Subset
      <3>5. Cardinality(StartedWith(c)') \in Nat
        BY <3>4, FS_CardinalityType
      <3> QED
        BY <1>5, <2>2, <3>2, <3>3, <3>4, <3>5
    <2>3. CASE c # Content
      <3>1. StartedWith(c)' = StartedWith(c)
        BY <1>1, <1>2, <1>4, <2>3 DEF StartedWith, Started
      <3> QED
        BY <1>5, <2>3, <3>1
    <2> QED
      BY <2>2, <2>3
  <1>9. Cardinality(Started') <= callsSeen' /\ callsSeen' <= MaxCalls
    BY <1>1, <1>5, <1>7 DEF BudgetInv
  <1>10. ASSUME NEW c \in Contents
         PROVE  /\ Cardinality(StartedWith(c)') <= MaxDuplicates
                /\ Cardinality(StartedWith(c)') <= seen'[c]
    <2>1. CASE c = Content
      <3>1. Cardinality(StartedWith(c)) + 1 <= seen[c] /\ seen[c] <= MaxDuplicates
        BY <1>1, <2>1 DEF BudgetInv
      <3> QED
        BY <1>1, <1>5, <1>8, <2>1, <3>1
    <2>2. CASE c # Content
      <3>1. Cardinality(StartedWith(c)) <= seen[c] /\ Cardinality(StartedWith(c)) <= MaxDuplicates
        BY <1>5, <2>2 DEF BudgetInv
      <3> QED
        BY <1>1, <1>5, <1>8, <2>2, <3>1
    <2> QED
      BY <2>1, <2>2
  <1>11. ~(output' > MaxOutput)
    BY <1>1, <1>5 DEF BudgetInv
  <1> QED
    BY <1>1, <1>3, <1>6, <1>7, <1>8, <1>9, <1>10, <1>11 DEF BudgetInv

LEMMA BeginTurnBudget ==
  ASSUME IInv, BudgetInv, BeginTurn
  PROVE  BudgetInv'
  <1>1. /\ turn' = turn + 1 /\ turn \in Nat /\ started' = started /\ pc' = "loop"
        /\ callsSeen' = 0 /\ output' = 0 /\ seen' = [c \in Contents |-> 0]
    BY DEF BeginTurn, IInv, TypeOK
  <1>2. \A s \in started : s.call.turn \in Nat
    BY DEF IInv, TypeOK, CallsMade, CallRefs
  <1>3. \A s \in started' : s.call.turn <= turn' /\ s.call.turn # turn'
    BY <1>1, <1>2 DEF BudgetInv
  <1>4. Started' = {} /\ \A c : StartedWith(c)' = {}
    BY <1>3 DEF Started, StartedWith
  <1>5. Cardinality(Started') = 0 /\ \A c : Cardinality(StartedWith(c)') = 0
    BY <1>4, FS_EmptySet
  <1>6. ~OnItsWay'
    BY <1>1 DEF OnItsWay, AtCall
  <1>7. \A c \in Contents : seen'[c] = 0
    BY <1>1
  <1> QED
    BY <1>1, <1>3, <1>5, <1>6, <1>7 DEF BudgetInv

\* Neither counters nor handlers, and no call on its way afterwards.
LEMMA RestBudget ==
  ASSUME IInv, TypeOK', BudgetInv, UNCHANGED <<turn, started, callsSeen, seen>>, ~OnItsWay',
         output' > MaxOutput => pc' \in {"skip", "ended"}
  PROVE  BudgetInv'
  <1>1. callsSeen <= callsSeen' /\ callsSeen' <= MaxCalls
    BY DEF BudgetInv, IInv, TypeOK
  <1>2. ASSUME NEW c \in Contents PROVE seen[c] <= seen'[c]
    <2>1. seen[c] \in Nat /\ seen'[c] = seen[c]
      BY DEF IInv, TypeOK
    <2> QED
      BY <2>1
  <1> QED
    BY <1>1, <1>2, AwayBudget

LEMMA AdmitStepBudget == IInv /\ TypeOK' /\ BudgetInv /\ AdmitStep => BudgetInv'
  <1> SUFFICES ASSUME IInv, TypeOK', BudgetInv, AdmitStep PROVE BudgetInv'
    OBVIOUS
  <1>1. /\ UNCHANGED <<turn, started>> /\ pc \in {"admit", "skip"}
        /\ output > MaxOutput => pc = "skip"
    BY DEF AdmitStep, AdmissionCancelled, BudgetTrips, AdmitInvalid, AdmitDuplicate, AdmitDenied,
       AdmitAllowed, AdmitUnplannable, AdmitGated, RoundAdmitted, SkipCall, SkipDone, MayAdmit,
       Admitting, ghostVars, BudgetInv
  <1>2. CASE AdmissionCancelled \/ BudgetTrips \/ RoundAdmitted \/ SkipCall \/ SkipDone
    <2>1. UNCHANGED budgetVars /\ (pc = "skip" => pc' \in {"skip", "ended"})
      BY <1>2 DEF AdmissionCancelled, BudgetTrips, RoundAdmitted, SkipCall, SkipDone, Admitting, Finish
    <2>2. pc' \in {"skip", "ended", "loop"}
      BY <1>1, <1>2 DEF AdmissionCancelled, BudgetTrips, RoundAdmitted, SkipCall, SkipDone, Finish
    <2>3. ~OnItsWay'
      BY <2>2 DEF OnItsWay, AtCall
    <2> QED
      BY <1>1, <2>1, <2>3, RestBudget DEF budgetVars
  <1>3. CASE AdmitInvalid \/ AdmitDuplicate \/ AdmitDenied \/ AdmitUnplannable
    <2>1. pc = "admit" /\ callsSeen' = callsSeen + 1 /\ callsSeen < MaxCalls
      <3>1. MayAdmit /\ callsSeen' = callsSeen + 1
        BY <1>3 DEF AdmitInvalid, AdmitDuplicate, AdmitDenied, AdmitUnplannable, CountOccurrence
      <3> QED
        BY <3>1 DEF MayAdmit, Admitting, BudgetTripReason, IInv, TypeOK
    <2>2. ASSUME NEW c \in Contents PROVE seen[c] <= seen'[c]
      <3>1. seen[c] \in Nat /\ seen \in [Contents -> Nat]
        BY DEF IInv, TypeOK
      <3>2. seen' = seen \/ seen' = [seen EXCEPT ![Content] = @ + 1]
        BY <1>3 DEF AdmitInvalid, AdmitDuplicate, AdmitDenied, AdmitUnplannable, CountOccurrence
      <3>3. seen'[c] = seen[c] \/ seen'[c] = seen[c] + 1
        BY <3>1, <3>2
      <3> QED
        BY <3>1, <3>3
    <2>3. pc' \in {"admit", "skip"} /\ (output' > MaxOutput => pc' = "skip")
      <3>1. CASE AdmitInvalid \/ AdmitDuplicate
        BY <1>1, <2>1, <3>1 DEF AdmitInvalid, AdmitDuplicate
      <3>2. CASE AdmitDenied \/ AdmitUnplannable
        BY <3>2 DEF AdmitDenied, AdmitUnplannable, Settle
      <3> QED
        BY <1>3, <3>1, <3>2
    <2>4. ~OnItsWay'
      BY <2>3 DEF OnItsWay, AtCall
    <2>5. callsSeen <= callsSeen' /\ callsSeen' <= MaxCalls
      BY <2>1 DEF IInv, TypeOK
    <2> QED
      BY <1>1, <2>2, <2>3, <2>4, <2>5, AwayBudget
  <1>4. CASE AdmitAllowed \/ AdmitGated
    <2>1. /\ MayAdmit /\ CountOccurrence /\ ~IsDuplicate
          /\ UNCHANGED <<roundVars, output>> /\ pc' \in {"decided", "asked"}
      BY <1>4 DEF AdmitAllowed, AdmitGated
    <2>2. OnItsWay'
      BY <2>1 DEF OnItsWay, AtCall
    <2> QED
      BY <1>1, <2>1, <2>2, AdmitBudget
  <1> QED
    BY <1>2, <1>3, <1>4 DEF AdmitStep

LEMMA NextBudget == IInv /\ TypeOK' /\ BudgetInv /\ [Next]_vars => BudgetInv'
  <1> SUFFICES ASSUME IInv, TypeOK', BudgetInv, [Next]_vars PROVE BudgetInv'
    OBVIOUS
  <1>1. CASE BeginTurn
    BY <1>1, BeginTurnBudget
  <1>2. CASE OpenRound \/ StreamStep
    <2>1. /\ UNCHANGED <<turn, started, budgetVars>> /\ pc \in {"loop", "stream"}
          /\ pc' \in {"loop", "stream", "admit", "ended"}
      BY <1>2 DEF OpenRound, StreamStep, StreamCancelled, StreamCompleted, StreamFailed,
         StreamProposed, Finish, ghostVars
    <2>2. ~OnItsWay' /\ ~(output > MaxOutput)
      BY <2>1 DEF OnItsWay, AtCall, BudgetInv
    <2> QED
      BY <2>1, <2>2, RestBudget DEF budgetVars
  <1>3. CASE AdmitStep
    BY <1>3, AdmitStepBudget
  <1>4. CASE Dispatch
    BY <1>4, DispatchBudget
  <1>5. CASE StartAllowed \/ AskUser \/ IssueToken \/ UserApproves
    <2>1. /\ UNCHANGED <<roundVars, turn, started, budgetVars>>
          /\ pc \in {"decided", "asked", "granted", "consent"}
          /\ pc' \in {"dispatch", "consent", "granted"}
      BY <1>5 DEF StartAllowed, AskUser, IssueToken, UserApproves, ghostVars
    <2>2. OnItsWay /\ OnItsWay'
      BY <2>1 DEF OnItsWay, AtCall
    <2> QED
      BY <2>1, <2>2, OnwardBudget
  <1>6. CASE \/ \E point \in {"decided", "asked", "granted"} : CancelledAt(point)
             \/ HandlerInterrupted
    <2>1. UNCHANGED <<turn, started, budgetVars>> /\ pc' = "ended"
      BY <1>6 DEF CancelledAt, HandlerInterrupted, Finish, ghostVars
    <2>2. ~OnItsWay'
      BY <2>1 DEF OnItsWay, AtCall
    <2> QED
      BY <2>1, <2>2, RestBudget DEF budgetVars
  <1>7. CASE \/ UserDenies
             \/ \E code \in ResultCodes, size \in OutputSizes \cup {0} : HandlerReturns(code, size)
    <2>1. /\ UNCHANGED <<turn, started, callsSeen, seen>>
          /\ pc' \in {"admit", "skip"} /\ (output' > MaxOutput => pc' = "skip")
      BY <1>7 DEF UserDenies, HandlerReturns, Settle, ghostVars
    <2>2. ~OnItsWay'
      BY <2>1 DEF OnItsWay, AtCall
    <2> QED
      BY <2>1, <2>2, RestBudget
  <1>8. CASE RequestCancel \/ TimePasses \/ UNCHANGED vars
    <2>1. UNCHANGED <<turn, pc, started, roundVars, budgetVars>>
      BY <1>8 DEF RequestCancel, TimePasses, vars, ghostVars
    <2>2. CASE OnItsWay
      <3>1. OnItsWay'
        BY <2>1, <2>2 DEF OnItsWay
      <3> QED
        BY <2>1, <2>2, <3>1, OnwardBudget
    <2>3. CASE ~OnItsWay
      <3>1. ~OnItsWay' /\ (output' > MaxOutput => pc' \in {"skip", "ended"})
        BY <2>1, <2>3 DEF OnItsWay, BudgetInv, budgetVars
      <3> QED
        BY <2>1, <3>1, RestBudget DEF budgetVars
    <2> QED
      BY <2>2, <2>3
  <1> QED
    BY <1>1, <1>2, <1>3, <1>4, <1>5, <1>6, <1>7, <1>8
       DEF Next, EngineStep, ExecuteStep, HandlerStep, UserAnswers

\* The budgets of EngineBudgets bound what a turn does - calls, rounds, runs
\* of one content, output - whatever the model proposes and for any budgets.
THEOREM BudgetsAlwaysHold == Spec => []BudgetsHold
  <1>1. Init => BudgetInv
    <2> SUFFICES ASSUME Init PROVE BudgetInv
      OBVIOUS
    <2>1. pc = "idle" /\ started = {} /\ callsSeen = 0 /\ output = 0 /\ seen = [c \in Contents |-> 0]
      BY DEF Init
    <2>2. Started = {} /\ \A c : StartedWith(c) = {}
      BY <2>1 DEF Started, StartedWith
    <2>3. ~OnItsWay
      BY <2>1 DEF OnItsWay, AtCall
    <2>4. \A c \in Contents : seen[c] = 0
      BY <2>1
    <2> QED
      BY <2>1, <2>2, <2>3, <2>4, FS_EmptySet DEF BudgetInv
  <1>2. IInv /\ BudgetInv => BudgetsHold
    <2> SUFFICES ASSUME IInv, BudgetInv PROVE BudgetsHold
      OBVIOUS
    <2>1. /\ Cardinality(Started) \in Nat /\ callsSeen \in Nat /\ steps <= MaxSteps
      BY Counts DEF BudgetInv, IInv, TypeOK
    <2>2. Cardinality(Started) <= callsSeen
      BY <2>1 DEF BudgetInv
    <2>3. ASSUME NEW c \in Contents
          PROVE  Cardinality({s \in started : s.call.turn = turn /\ s.content = c}) <= MaxDuplicates
      <3>1. {s \in started : s.call.turn = turn /\ s.content = c} = StartedWith(c)
        BY DEF StartedWith, Started
      <3> QED
        BY <3>1 DEF BudgetInv
    <2> QED
      BY <2>1, <2>2, <2>3 DEF BudgetsHold, BudgetInv, Started
  <1>3. IInv' => TypeOK'
    BY DEF IInv
  <1> QED
    BY Invariance, <1>1, <1>2, <1>3, NextBudget, PTL DEF Spec
=============================================================================
