---------------------------- MODULE SessionProofs ----------------------------
(***************************************************************************)
(* Proofs about the engine inside its process: what the engine guarantees  *)
(* within one process it guarantees across kills and restarts.  A kill     *)
(* takes the memory at any point of a turn and leaves the log and what     *)
(* ran; a start reads the log only.                                        *)
(***************************************************************************)
EXTENDS Session, AgentEngineProofs

USE EngineAssumption DEF EngineAssumption, CancelRequested, MayRetry, StepsSpent

\* Memory lost at any point is that of an engine between turns.
LEMMA LoseMemoryStep ==
  ASSUME IInv, LoseMemory, UNCHANGED <<turn, storeVars, started, consented>>,
         UNCHANGED <<proposed, answered>>
  PROVE  IInv'
  <1>1. /\ state' = "idle" /\ pc' = "idle" /\ reason' = "none" /\ turn' = turn
        /\ cancel' = FALSE /\ late' = FALSE /\ retried' = FALSE
        /\ steps' = 0 /\ callsSeen' = 0 /\ callsExecuted' = 0 /\ output' = 0
        /\ next' = 1 /\ lateStarts' = 0 /\ outstanding' = {} /\ issued' = issued /\ token' = 0
        /\ UNCHANGED <<storeVars, proposed, answered, started, consented>>
    BY DEF LoseMemory
  <1>2. batch' = <<>> /\ pendingResults' = <<>> /\ rounds' = <<>>
    BY DEF LoseMemory
  <1>3. seen' = [c \in Contents |-> 0]
    BY DEF LoseMemory
  <1>4. TypeOK'
    <2>1. batch' \in Seq(Contents) /\ Len(batch') <= MaxBatch
      BY <1>2
    <2>2. /\ pendingResults' \in Seq(ResultCodes)
          /\ rounds' \in Seq([calls : Seq(Contents), results : Seq(ResultCodes)])
      BY <1>2
    <2>3. seen' \in [Contents -> Nat]
      BY <1>3
    <2>4. /\ log' \in Seq(Events)
          /\ storeFailures' \in 0..MaxStoreFailures
          /\ Authority!AuthorityTypeOK'
          /\ token' \in 0..issued'
          /\ proposed' \subseteq CallRefs /\ answered' \subseteq CallRefs
          /\ started' \subseteq CallsMade /\ consented' \subseteq CallsMade
      BY <1>1 DEF IInv, TypeOK, storeVars, Authority!AuthorityTypeOK
    <2>5. /\ state' \in States /\ pc' \in PCs /\ reason' \in Reasons
          /\ cancel' \in BOOLEAN /\ late' \in BOOLEAN /\ retried' \in BOOLEAN
      BY <1>1 DEF States, PCs, Reasons
    <2>6. /\ turn' \in 0..MaxTurns /\ steps' \in 0..MaxSteps
          /\ callsSeen' \in Nat /\ callsExecuted' \in Nat /\ output' \in Nat
          /\ next' \in Nat \ {0} /\ lateStarts' \in Nat
      BY <1>1 DEF IInv, TypeOK
    <2> QED
      BY <2>1, <2>2, <2>3, <2>4, <2>5, <2>6 DEF TypeOK
  <1>5. PositionInv'
    BY <1>1, <1>2 DEF PositionInv, Active, Outside, AtCall
  <1>6. GrantInv' /\ ConsentBeforeExecution'
    BY <1>1 DEF IInv, GrantInv, ConsentBeforeExecution
  <1> QED
    BY <1>1, <1>4, <1>5, <1>6, AwayStep DEF IInv, AtCall

\* A new session starts an empty log; the rest is as the last process left it.
LEMMA BeginSessionStep ==
  ASSUME IInv, BeginSession, UNCHANGED reported
  PROVE  IInv'
  <1>1. /\ log' = <<>>
        /\ UNCHANGED <<state, pc, turn, retried, reason, inputVars, roundVars, budgetVars,
                       storeFailures, authorityVars, ghostVars>>
    BY DEF BeginSession
  <1>2. log' \in Seq(Events)
    BY <1>1
  <1>3. TypeOK'
    BY <1>1, <1>2 DEF IInv, TypeOK, inputVars, roundVars, budgetVars, authorityVars, ghostVars,
       Authority!AuthorityTypeOK
  <1>4. PositionInv'
    BY <1>1 DEF IInv, PositionInv, Active, Outside, AtCall, roundVars
  <1>5. Content' = Content /\ CurrentDisposition' = CurrentDisposition /\ CurrentCall' = CurrentCall
    BY <1>1, SameCall DEF roundVars
  <1>6. AdmissionInv'
    BY <1>1, <1>5 DEF IInv, AdmissionInv, AtCall, authorityVars, ghostVars
  <1>7. GrantInv' /\ ConsentBeforeExecution'
    BY <1>1 DEF IInv, GrantInv, ConsentBeforeExecution, authorityVars, ghostVars
  <1> QED
    BY <1>3, <1>4, <1>6, <1>7 DEF IInv

\* A kill, an exit and a start keep the engine's invariant, as its own steps do.
LEMMA SessionIInv == IInv /\ [SessionNext]_sessionVars => IInv'
  <1> SUFFICES ASSUME IInv, [SessionNext]_sessionVars PROVE IInv'
    OBVIOUS
  <1>1. CASE Next \/ UNCHANGED vars
    BY <1>1, NextIInv
  <1>2. CASE Crash \/ Exit
    BY <1>2, LoseMemoryStep DEF Crash, Exit, Stop
  <1>3. CASE StartClean \/ Abandon
    BY <1>3, BeginSessionStep DEF StartClean, Abandon
  <1>4. CASE StartAsking \/ Leave
    <2>1. UNCHANGED vars
      BY <1>4 DEF StartAsking, Leave
    <2> QED
      BY <2>1, NextIInv
  <1> QED
    BY <1>1, <1>2, <1>3, <1>4 DEF SessionNext, sessionVars

\* The engine's own invariant survives every kill and restart.
LEMMA SessionKeepsIInv == SessionSpec => []IInv
  BY InitIInv, SessionIInv, PTL DEF SessionSpec, SessionInit

\* Consent is not inherited: after a kill at any point, in the next session as
\* in the first, no handler runs without its own validation, policy and yes,
\* and no grant of the dead process is left standing.
THEOREM ConsentSurvivesRestarts ==
  SessionSpec => [](ConsentBeforeExecution /\ NoStandingGrant)
  <1>1. IInv => ConsentBeforeExecution /\ NoStandingGrant
    BY DEF IInv, GrantInv, NoStandingGrant, TypeOK, Authority!AuthorityTypeOK, Authority!Grants
  <1> QED
    BY SessionKeepsIInv, <1>1, PTL

-----------------------------------------------------------------------------
(* What the next start shows.  The store appends a denial together with the *)
(* result of the denied call, so a call closed by a denial has its result;  *)
(* and what is shown is read when nobody is left to append.                 *)

DenialHasResult ==
  \A i \in DOMAIN log : log[i].type = "approval_denied" =>
    \E j \in DOMAIN log : log[j] = Result(log[i].call)

ReportInv ==
  /\ process \in {"up", "down", "asking"}
  /\ DenialHasResult
  /\ process # "up" => {CallId(c) : c \in interrupted} \subseteq PendingIds
  /\ process = "asking" => PendingIds \subseteq reported

\* Events that bring the result of every denial among them keep the log so.
LEMMA AppendKeepsDenials ==
  ASSUME TypeOK, DenialHasResult, NEW events \in Seq(Events), Emit(events),
         \A k \in DOMAIN events : events[k].type = "approval_denied" =>
           \E l \in DOMAIN events : events[l] = Result(events[k].call)
  PROVE  DenialHasResult'
  <1>1. log \in Seq(Events)
    BY DEF TypeOK
  <1>2. CASE log' = log
    BY <1>2 DEF DenialHasResult
  <1>3. CASE log' = log \o events
    <2> DEFINE n == Len(log)
               m == Len(events)
    <2>1. /\ n \in Nat /\ m \in Nat
          /\ DOMAIN log = 1..n /\ DOMAIN events = 1..m /\ DOMAIN log' = 1..(n + m)
          /\ \A i \in 1..n : log'[i] = log[i]
          /\ \A i \in 1..(n + m) : i \notin 1..n => log'[i] = events[i - n] /\ i - n \in 1..m
          /\ \A k \in 1..m : log'[n + k] = events[k] /\ n + k \in 1..(n + m)
          /\ \A i \in 1..n : i \in 1..(n + m)
      BY <1>1, <1>3
    <2> HIDE DEF n, m
    <2> SUFFICES ASSUME NEW i \in DOMAIN log', log'[i].type = "approval_denied"
                 PROVE  \E j \in DOMAIN log' : log'[j] = Result(log'[i].call)
      BY DEF DenialHasResult
    <2>2. CASE i \in 1..n
      BY <2>1, <2>2 DEF DenialHasResult
    <2>3. CASE i \notin 1..n
      <3>1. PICK l \in DOMAIN events : events[l] = Result(events[i - n].call)
        BY <2>1, <2>3
      <3> QED
        BY <2>1, <2>3, <3>1
    <2> QED
      BY <2>2, <2>3
  <1> QED
    BY <1>2, <1>3 DEF Emit

\* The only append with a denial in it is the user's no, and it has the result.
LEMMA NextKeepsDenials == IInv /\ DenialHasResult /\ [Next]_vars => DenialHasResult'
  <1> SUFFICES ASSUME IInv, DenialHasResult, [Next]_vars PROVE DenialHasResult'
    OBVIOUS
  <1>0. TypeOK
    BY DEF IInv
  <1>1. ASSUME NEW type \in EventTypes \ {"approval_denied"}, Emit(<<Event(type)>>),
               pc \notin Outside, next <= Len(batch)
        PROVE  DenialHasResult'
    <2> DEFINE events == <<Event(type)>>
    <2>1. Event(type) \in Events /\ Event(type).type # "approval_denied"
      BY <1>1, EventType DEF IInv, Event
    <2>2. events \in Seq(Events) /\ \A k \in DOMAIN events : events[k] = Event(type)
      BY <2>1
    <2> HIDE DEF events
    <2>3. \A k \in DOMAIN events : events[k].type # "approval_denied"
      BY <2>1, <2>2
    <2> QED
      BY <1>0, <1>1, <2>2, <2>3, AppendKeepsDenials DEF events
  <1>2. ASSUME NEW type \in EventTypes, NEW last \in EventTypes \ {"approval_denied"},
               Emit(<<Event(type), Event(last)>>), pc \notin Outside, next <= Len(batch),
               type = "approval_denied" => last = "tool_result"
        PROVE  DenialHasResult'
    <2> DEFINE events == <<Event(type), Event(last)>>
    <2>1. Event(type) \in Events /\ Event(last) \in Events
      BY <1>2, EventType DEF IInv
    <2>2. /\ events \in Seq(Events) /\ DOMAIN events = {1, 2}
          /\ events[1].type = type /\ events[1].call = Current
          /\ events[2].type = last
          /\ last = "tool_result" => events[2] = Result(Current)
      BY <2>1 DEF Event, Result
    <2> HIDE DEF events
    <2>3. \A k \in DOMAIN events : events[k].type = "approval_denied" =>
            \E l \in DOMAIN events : events[l] = Result(events[k].call)
      BY <1>2, <2>2
    <2> QED
      BY <1>0, <1>2, <2>2, <2>3, AppendKeepsDenials DEF events
  <1>3. ASSUME NEW calls \in Batches, StreamProposed(calls) PROVE DenialHasResult'
    <2> DEFINE events == [i \in DOMAIN calls |-> Proposal(RefAt(i))]
    <2>1. Emit(events)
      BY <1>3 DEF StreamProposed, RefAt, Proposal
    <2>2. /\ DOMAIN calls = 1..Len(calls) /\ Len(calls) \in 1..MaxBatch
      BY DEF Batches
    <2>3. turn \in 1..MaxTurns /\ steps + 1 \in 1..MaxSteps
      BY <1>3 DEF StreamProposed, IInv, TypeOK, PositionInv, Outside, Active
    <2>4. \A i \in DOMAIN calls : Proposal(RefAt(i)) \in Events
      BY <2>2, <2>3 DEF RefAt, CallRefs, Proposal, Events, EventTypes
    <2>5. events \in Seq(Events)
      BY <2>2, <2>4
    <2>6. \A i \in DOMAIN events : events[i].type = "tool_call_proposed"
      BY DEF Proposal
    <2> HIDE DEF events
    <2> QED
      BY <1>0, <2>1, <2>5, <2>6, AppendKeepsDenials
  <1>4. CASE UNCHANGED log
    BY <1>4 DEF DenialHasResult
  <1>5. CASE StreamStep
    BY <1>3, <1>4, <1>5 DEF StreamStep, StreamCancelled, StreamCompleted, StreamFailed, storeVars
  <1>6. CASE AdmitStep
    <2>1. \/ UNCHANGED log
          \/ /\ pc \notin Outside /\ next <= Len(batch)
             /\ \/ Emit(<<Event("tool_result")>>)
                \/ Emit(<<Event("policy_decision")>>)
                \/ Emit(<<Event("policy_decision"), Event("tool_result")>>)
                \/ Emit(<<Event("policy_decision"), Event("approval_requested")>>)
      BY <1>6 DEF AdmitStep, AdmissionCancelled, BudgetTrips, RoundAdmitted, SkipDone, AdmitInvalid,
         AdmitDuplicate, AdmitDenied, AdmitAllowed, AdmitUnplannable, AdmitGated, SkipCall,
         MayAdmit, Admitting, Outside, storeVars
    <2> QED
      BY <1>1, <1>2, <1>4, <2>1 DEF EventTypes
  <1>7. CASE HandlerStep \/ UserAnswers
    <2>1. \/ UNCHANGED log
          \/ /\ pc \notin Outside /\ next <= Len(batch)
             /\ \/ Emit(<<Event("tool_result")>>)
                \/ Emit(<<Event("approval_granted"), Event("tool_result")>>)
                \/ Emit(<<Event("approval_denied"), Event("tool_result")>>)
      BY <1>7 DEF HandlerStep, UserAnswers, HandlerReturns, HandlerInterrupted, UserDenies,
         UserApproves, Outside, AtCall, IInv, PositionInv, storeVars
    <2> QED
      BY <1>1, <1>2, <1>4, <2>1 DEF EventTypes
  <1>8. CASE BeginTurn \/ OpenRound \/ ExecuteStep \/ RequestCancel \/ TimePasses \/ UNCHANGED vars
    <2>1. UNCHANGED log
      BY <1>8 DEF BeginTurn, OpenRound, ExecuteStep, CancelledAt, StartAllowed, AskUser, IssueToken,
         Dispatch, RequestCancel, TimePasses, vars, storeVars
    <2> QED
      BY <1>4, <2>1
  <1> QED
    BY <1>5, <1>6, <1>7, <1>8 DEF Next, EngineStep

\* With ids of the server's own, a call that is logged as proposed and has no
\* logged result is pending: no other call closes its id.
LEMMA UnloggedIsPending ==
  ASSUME ProviderIds, TypeOK, DenialHasResult, NEW c \in LoggedProposals, c \notin LoggedResults
  PROVE  CallId(c) \in PendingIds
  <1>1. \A i \in DOMAIN log : log[i].call \in CallRefs
    <2>1. log \in Seq(Events)
      BY DEF TypeOK
    <2>2. \A i \in DOMAIN log : log[i] \in Events
      BY <2>1
    <2> QED
      BY <2>2 DEF Events
  <1>2. c \in CallRefs
    BY <1>1 DEF LoggedProposals, Logged
  <1>3. \A d \in LoggedResults \cup Logged("approval_denied") : d \in CallRefs /\ d \in LoggedResults
    BY <1>1 DEF LoggedResults, Logged, DenialHasResult, Result
  <1>4. \A d \in CallRefs : CallId(d) = CallId(c) => d = c
    BY <1>2 DEF CallId, CallRefs
  <1>5. CallId(c) \notin {CallId(d) : d \in LoggedResults \cup Logged("approval_denied")}
    BY <1>3, <1>4
  <1> QED
    BY <1>5 DEF PendingIds

\* Every step of the engine, a kill and a start keep what is reported complete.
LEMMA ReportStep ==
  ASSUME ProviderIds, IInv, ReportInv, [SessionNext]_sessionVars
  PROVE  ReportInv'
  <1>1. CASE process = "up" /\ (Next \/ UNCHANGED vars) /\ UNCHANGED processVars
    <2>1. DenialHasResult'
      BY <1>1, NextKeepsDenials DEF ReportInv
    <2> QED
      BY <1>1, <2>1 DEF ReportInv, processVars
  <1>2. CASE Crash \/ Exit
    <2>1. /\ process' = "down" /\ log' = log
          /\ interrupted' = {c \in Unlogged : c \in LoggedProposals}
      BY <1>2 DEF Crash, Exit, Stop, storeVars
    <2>2. DenialHasResult' /\ PendingIds' = PendingIds
      BY <2>1 DEF ReportInv, DenialHasResult, PendingIds, LoggedProposals, LoggedResults, Logged
    <2>3. \A c \in interrupted' : CallId(c) \in PendingIds
      BY <2>1, UnloggedIsPending DEF Unlogged, ReportInv, IInv
    <2> QED
      BY <2>1, <2>2, <2>3 DEF ReportInv
  <1>3. CASE StartClean \/ Abandon
    <2>1. process' = "up" /\ log' = <<>>
      BY <1>3 DEF StartClean, Abandon, BeginSession
    <2>2. DOMAIN log' = {}
      BY <2>1
    <2> QED
      BY <2>1, <2>2 DEF ReportInv, DenialHasResult
  <1>4. CASE StartAsking \/ Leave \/ (process # "up" /\ UNCHANGED sessionVars)
    <2>1. /\ log' = log /\ interrupted' = interrupted /\ process # "up"
          /\ \/ process' = "asking" /\ reported' = PendingIds
             \/ process' = "down"
             \/ process' = process /\ reported' = reported
      BY <1>4 DEF StartAsking, Leave, sessionVars, processVars, vars, storeVars
    <2>2. DenialHasResult' /\ PendingIds' = PendingIds
      BY <2>1 DEF ReportInv, DenialHasResult, PendingIds, LoggedProposals, LoggedResults, Logged
    <2> QED
      BY <2>1, <2>2 DEF ReportInv
  <1> QED
    BY <1>1, <1>2, <1>3, <1>4 DEF SessionNext, sessionVars

\* _resolve_pending_events: no session begins before the user was shown every
\* call the last one ran without logging its result, wherever the kill fell.
\* The server's own ids are what makes a call findable; with per-stream
\* numbers it does not hold, as the instance MCSession_ids.cfg shows.
THEOREM InterruptedWorkIsReported ==
  ASSUME ProviderIds
  PROVE  SessionSpec => InterruptedWorkReported
  <1>1. SessionInit => ReportInv
    <2> SUFFICES ASSUME SessionInit PROVE ReportInv
      OBVIOUS
    <2>1. log = <<>> /\ interrupted = {} /\ process = "down"
      BY DEF SessionInit, Init
    <2>2. DOMAIN log = {}
      BY <2>1
    <2> QED
      BY <2>1, <2>2 DEF ReportInv, DenialHasResult
  <1>2. IInv /\ ReportInv /\ [SessionNext]_sessionVars => ReportInv'
    BY ReportStep
  <1>3. ReportInv /\ [SessionNext]_sessionVars =>
          [process # "up" /\ process' = "up"
             => {CallId(c) : c \in interrupted} \subseteq reported]_sessionVars
    <2> SUFFICES ASSUME ReportInv, SessionNext, process # "up", process' = "up"
                 PROVE  {CallId(c) : c \in interrupted} \subseteq reported
      OBVIOUS
    <2>1. StartClean \/ Abandon
      BY DEF SessionNext, Crash, Exit, Stop, StartAsking, Leave, processVars
    <2>2. \/ PendingIds = {}
          \/ process = "asking"
      BY <2>1 DEF StartClean, Abandon
    <2> QED
      BY <2>2 DEF ReportInv
  <1> QED
    BY SessionKeepsIInv, <1>1, <1>2, <1>3, PTL DEF SessionSpec, InterruptedWorkReported

-----------------------------------------------------------------------------
(* The call ledger across restarts.  Between turns the engine has forgotten *)
(* its rounds, but no proposed call is of a turn still to come.             *)

PastInv ==
  /\ answered \subseteq proposed
  /\ \A c \in proposed : c.turn <= turn
  /\ pc # "idle" => CallInv

\* The calls of a round in progress are calls of this turn or of earlier ones,
LEMMA CallInvIsPast == IInv /\ CallInv => PastInv
  <1> SUFFICES ASSUME IInv, CallInv PROVE \A c \in proposed : c.turn <= turn
    BY DEF PastInv, CallInv
  <1>1. \A c \in proposed : c.turn \in Nat /\ turn \in Nat
    BY DEF IInv, TypeOK, CallRefs
  <1> QED
    BY <1>1 DEF CallInv, InOpenRound

\* and stay so.
LEMMA CallInvStaysPast == TypeOK' /\ CallInv' => PastInv'
  <1> SUFFICES ASSUME TypeOK', CallInv' PROVE \A c \in proposed' : c.turn <= turn'
    BY DEF PastInv, CallInv
  <1>1. \A c \in proposed' : c.turn \in Nat /\ turn' \in Nat
    <2>1. proposed' \subseteq CallRefs /\ turn' \in 0..MaxTurns
      BY DEF TypeOK
    <2> QED
      BY <2>1 DEF CallRefs
  <1> QED
    BY <1>1 DEF CallInv, InOpenRound

\* A turn begins beside the calls that earlier turns and processes left.
LEMMA PastBeginTurn == IInv /\ PastInv /\ BeginTurn => CallStep
  <1> SUFFICES ASSUME IInv, PastInv, BeginTurn PROVE CallStep
    OBVIOUS
  <1>1. /\ batch = <<>> /\ batch' = <<>> /\ turn' = turn + 1 /\ turn \in Nat
        /\ UNCHANGED <<proposed, answered>>
    BY DEF BeginTurn, IInv, TypeOK, PositionInv, Outside
  <1>2. \A c \in proposed' : c.turn < turn'
    <2>1. \A c \in proposed : c.turn \in Nat
      BY DEF IInv, TypeOK, CallRefs
    <2> QED
      BY <1>1, <2>1 DEF PastInv
  <1>3. CallInv'
    <2>1. 1..Len(batch') = {}
      BY <1>1
    <2> QED
      BY <1>1, <1>2, <2>1 DEF CallInv, PastInv
  <1>4. \A c \in CallRefs : StatusOf(c)' = StatusOf(c)
    BY <1>1 DEF StatusOf
  <1> QED
    BY <1>3, <1>4, SameStatus DEF CallStep

\* Whatever was open when the memory went is given up at once.
LEMMA PastStop ==
  ASSUME IInv, PastInv, Stop
  PROVE  PastInv' /\ (Ledger!Abandon \/ UNCHANGED Status)
  <1>1. /\ pc' = "idle" /\ batch' = <<>>
        /\ UNCHANGED <<turn, proposed, answered>>
    BY DEF Stop, LoseMemory
  <1>2. PastInv'
    BY <1>1 DEF PastInv
  <1>3. ASSUME NEW c \in CallRefs
        PROVE  StatusOf(c)' = IF c \in Unsettled THEN "abandoned" ELSE StatusOf(c)
    BY <1>1 DEF StatusOf, Unsettled, InOpenRound
  <1>4. CASE Unsettled = {}
    BY <1>2, <1>3, <1>4, SameStatus
  <1>5. CASE Unsettled # {}
    <2>1. pc # "idle"
      BY <1>5 DEF Unsettled, InOpenRound, IInv, PositionInv, Outside
    <2>2. Ledger!In("proposed") \cup Ledger!In("running") = Unsettled
      BY <2>1, InStatus DEF IInv, PastInv
    <2>3. Ledger!Move(Unsettled, "abandoned")
      BY <1>3 DEF Ledger!Move
    <2> QED
      BY <1>2, <1>5, <2>2, <2>3 DEF Ledger!Abandon
  <1> QED
    BY <1>4, <1>5

\* Every step moves the calls as the ledger allows, or none of them.
LEMMA SessionCalls ==
  ASSUME IInv, TypeOK', IInv', PastInv, [SessionNext]_sessionVars
  PROVE  PastInv' /\ (Ledger!LedgerNext \/ UNCHANGED Status)
  <1>1. CASE BeginTurn
    BY <1>1, PastBeginTurn, CallInvStaysPast DEF CallStep
  <1>2. CASE [Next]_vars /\ ~BeginTurn /\ pc # "idle"
    BY <1>2, NextCalls, CallInvStaysPast DEF CallStep, PastInv
  <1>3. CASE [Next]_vars /\ ~BeginTurn /\ pc = "idle"
    <2>1. UNCHANGED vars
      BY <1>3 DEF Next, EngineStep, OpenRound, StreamStep, StreamCancelled, StreamFailed,
         StreamCompleted, StreamProposed, AdmitStep, AdmissionCancelled, BudgetTrips, AdmitInvalid,
         AdmitDuplicate, AdmitDenied, AdmitAllowed, AdmitUnplannable, AdmitGated, RoundAdmitted,
         SkipCall, SkipDone, ExecuteStep, CancelledAt, StartAllowed, AskUser, IssueToken, Dispatch,
         HandlerStep, HandlerReturns, HandlerInterrupted, UserAnswers, UserDenies, UserApproves,
         RequestCancel, TimePasses, MayAdmit, Admitting, Active
    <2>2. UNCHANGED <<turn, pc, roundVars, started>>
      BY <2>1 DEF vars, ghostVars
    <2>3. \A c \in CallRefs : StatusOf(c)' = StatusOf(c)
      BY <1>3, <2>2 DEF roundVars, StatusOf
    <2> QED
      BY <1>3, <2>2, <2>3, SameStatus DEF PastInv, roundVars
  <1>4. CASE Crash \/ Exit
    BY <1>4, PastStop DEF Crash, Exit, Ledger!LedgerNext
  <1>5. CASE StartClean \/ Abandon
    <2>1. UNCHANGED <<turn, pc, roundVars, started>>
      BY <1>5 DEF StartClean, Abandon, BeginSession, ghostVars
    <2>2. Current' = Current /\ CurrentCall' = CurrentCall
      BY <2>1, SameCall DEF roundVars
    <2>3. \A c \in CallRefs : StatusOf(c)' = StatusOf(c)
      BY <2>1, <2>2 DEF roundVars, StatusOf
    <2>4. PastInv'
      BY <2>1 DEF PastInv, roundVars, CallInv, InOpenRound, RefAt
    <2> QED
      BY <2>3, <2>4, SameStatus
  <1>6. CASE StartAsking \/ Leave
    <2>1. UNCHANGED vars
      BY <1>6 DEF StartAsking, Leave
    <2> QED
      BY <2>1, <1>2, <1>3 DEF BeginTurn, vars
  <1> QED
    BY <1>1, <1>2, <1>3, <1>4, <1>5, <1>6 DEF SessionNext, sessionVars

\* main.py resumes by asking, never by running: across any number of kills and
\* restarts the calls follow the ledger, so one that an earlier process left
\* behind is neither run nor answered by a later one.
THEOREM RestartsImplementLedger == SessionSpec => ResumeNeverReexecutes
  <1>1. SessionInit => PastInv /\ Ledger!LedgerInit
    BY InitIInv, InitCalls, CallInvIsPast DEF SessionInit
  <1>2. IInv /\ IInv' /\ PastInv /\ [SessionNext]_sessionVars
          => PastInv' /\ [Ledger!LedgerNext]_Status
    <2>1. IInv' => TypeOK'
      BY DEF IInv
    <2> QED
      BY <2>1, SessionCalls
  <1> QED
    BY SessionKeepsIInv, <1>1, <1>2, PTL
       DEF SessionSpec, ResumeNeverReexecutes, Ledger!LedgerSpec, Status
=============================================================================
