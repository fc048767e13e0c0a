----------------------------- MODULE CallLedger -----------------------------
(***************************************************************************)
(* What the engine promises about proposed tool calls, with nothing of how *)
(* it does it: a call is proposed, its handler runs at most once and only  *)
(* while nothing else runs, it is answered at most once, and a call left   *)
(* behind by an interrupted turn is neither run nor answered any more.     *)
(***************************************************************************)
CONSTANT Calls

VARIABLE status

Statuses == {"unknown", "proposed", "running", "answered", "abandoned"}

LedgerTypeOK == status \in [Calls -> Statuses]

In(s) == {c \in Calls : status[c] = s}

LedgerInit == status = [c \in Calls |-> "unknown"]

Move(S, s) == status' = [c \in Calls |-> IF c \in S THEN s ELSE status[c]]

\* A provider round proposes calls; the previous round is settled by then.
Propose(S) ==
  /\ In("proposed") \cup In("running") = {}
  /\ S # {} /\ S \subseteq In("unknown")
  /\ Move(S, "proposed")

Run(c) ==
  /\ c \in In("proposed")
  /\ In("running") = {}
  /\ Move({c}, "running")

\* Results come one at a time; a running call is answered before any other.
Answer(c) ==
  /\ \/ c \in In("running")
     \/ c \in In("proposed") /\ In("running") = {}
  /\ Move({c}, "answered")

\* An interrupted turn gives up everything it has not answered, at once.
Abandon ==
  /\ In("proposed") \cup In("running") # {}
  /\ Move(In("proposed") \cup In("running"), "abandoned")

LedgerNext ==
  \/ \E S \in SUBSET Calls : Propose(S)
  \/ \E c \in Calls : Run(c) \/ Answer(c)
  \/ Abandon

LedgerSpec == LedgerInit /\ [][LedgerNext]_status
=============================================================================
