------------------------------ MODULE Executor ------------------------------
(***************************************************************************)
(* execute_validated_call (shadow_code/executor.py) against the one-shot   *)
(* authority: the last gate in front of a handler.  Its callers hold       *)
(* tokens, plans and calls in any combination - a token of another call, a *)
(* plan of another call, a token already spent, an argument left out - and *)
(* the gate alone has to keep approvals one-shot and exact.                *)
(*                                                                         *)
(* The ghost variables record what the user approved, what ran under each  *)
(* token, and which tokens the authority was ever asked about.             *)
(***************************************************************************)
EXTENDS Approval, Sequences

CONSTANTS
  Calls,       \* validated calls (tool, version, capability, arguments, id)
  Facts,       \* the remaining plan facts: preview, workspace, registry, ...
  MaxTokens    \* bound: grants issued in one behaviour

ASSUME ExecutorAssumption ==
  /\ MaxTokens \in Nat
  /\ Plans = [call : Calls, facts : Facts]

VARIABLES
  answer,       \* what the last execution attempt returned
  granted,      \* ghost: granted[t] is the plan approved with token t
  dispatched,   \* ghost: dispatched[t] lists the plans run under token t
  presented     \* ghost: issued tokens that reached consume

executorVars == <<outstanding, issued, answer, granted, dispatched, presented>>

Answers == {"none", "handler_result", "approval_invalid"}

Tokens == 1..MaxTokens

Absent == [call |-> "absent"]    \* an argument the caller left out (None)

ExecutorInit ==
  /\ AuthorityInit
  /\ answer = "none"
  /\ granted = <<>>
  /\ dispatched = [t \in Tokens |-> <<>>]
  /\ presented = {}

\* The user approves a plan and the engine obtains its token.
Approve(plan) ==
  /\ issued < MaxTokens
  /\ Issue(plan)
  /\ granted' = Append(granted, plan)
  /\ UNCHANGED <<answer, dispatched, presented>>

\* _plan_matches_call
PlanMatchesCall(plan, call) == plan.call = call

\* No approval argument at all: the plain path of an allowed call.
ExecuteUnbound(call) ==
  /\ answer' = "handler_result"
  /\ UNCHANGED <<outstanding, issued, granted, dispatched, presented>>

\* Some approval argument is given but the set is incomplete or the plan is
\* of another call: approval_invalid, and the authority is never asked, so
\* no token is spent.
RefuseUnasked(call, token, plan, authority) ==
  /\ token \in Tokens \/ authority \/ plan \in Plans
  /\ \/ token \notin Tokens
     \/ ~authority
     \/ plan \notin Plans
     \/ ~PlanMatchesCall(plan, call)
  /\ answer' = "approval_invalid"
  /\ UNCHANGED <<outstanding, issued, granted, dispatched, presented>>

\* The handler runs under an honored token.
RunUnder(token, plan) ==
  IF Honors(token, plan)
  THEN /\ dispatched' = [dispatched EXCEPT ![token] = Append(@, plan)]
       /\ answer' = "handler_result"
  ELSE /\ answer' = "approval_invalid"
       /\ UNCHANGED dispatched

\* A token is burned only by the plan it is bound to.
ExecuteApproved_KeepsMismatched(call, token, plan) ==
  /\ PlanMatchesCall(plan, call)
  /\ IF Honors(token, plan) THEN Burn(token) ELSE UNCHANGED <<outstanding, issued>>
  /\ RunUnder(token, plan)
  /\ presented' = presented \cup ({token} \cap 1..issued)
  /\ UNCHANGED granted

\* A complete set of arguments reaches consume, which burns the token; the
\* handler runs only when the token was honored.
ExecuteApproved(call, token, plan) ==
  /\ PlanMatchesCall(plan, call)
  /\ Burn(token)
  /\ RunUnder(token, plan)
  /\ presented' = presented \cup ({token} \cap 1..issued)
  /\ UNCHANGED granted

ExecutorNext ==
  \/ \E plan \in Plans : Approve(plan)
  \/ \E call \in Calls : ExecuteUnbound(call)
  \/ \E call \in Calls, token \in Tokens \cup {0}, plan \in Plans \cup {Absent},
        authority \in BOOLEAN : RefuseUnasked(call, token, plan, authority)
  \/ \E call \in Calls, token \in Tokens, plan \in Plans :
        ExecuteApproved(call, token, plan)

ExecutorSpec == ExecutorInit /\ [][ExecutorNext]_executorVars

-----------------------------------------------------------------------------
ExecutorTypeOK ==
  /\ AuthorityTypeOK
  /\ issued \in 0..MaxTokens
  /\ answer \in Answers
  /\ granted \in Seq(Plans)
  /\ dispatched \in [Tokens -> Seq(Plans)]
  /\ presented \subseteq Tokens

\* An approval covers one execution of exactly the plan the user saw: what
\* ran under a token is at most one dispatch, and of the plan it was granted
\* for - whatever tokens, plans and calls the callers combine.
OneDispatchPerGrant ==
  \A t \in Tokens :
    /\ Len(dispatched[t]) <= 1
    /\ Len(dispatched[t]) = 1 => t <= Len(granted) /\ dispatched[t][1] = granted[t]

\* A token is spent by being shown to the authority, also with a plan it is
\* not bound to: it can never be tried again with the right one.
PresentedIsSpent == \A g \in outstanding : g.token \notin presented
=============================================================================
