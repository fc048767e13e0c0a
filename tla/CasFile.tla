------------------------------ MODULE CasFile -------------------------------
(***************************************************************************)
(* What an approved file mutation promises of the file it targets, with no *)
(* locks, temporary files or renames: the file changes only when somebody  *)
(* outside edits it, or when a client's planned baseline still is the file *)
(* and the whole planned content replaces it in one step.                  *)
(***************************************************************************)
CONSTANTS
  Clients,     \* the mutations
  Files,       \* files that may be there
  Absent,      \* no file
  Outcome(_, _, _)  \* Outcome(c, b, f): f is what c makes of the baseline b

VARIABLES
  file,        \* the file at the target path, or Absent
  baseline,    \* what each client planned against
  status       \* "open", "planned", "committed" or "failed"

casVars == <<file, baseline, status>>

CasTypeOK ==
  /\ file \in Files \cup {Absent}
  /\ baseline \in [Clients -> Files \cup {Absent}]
  /\ status \in [Clients -> {"open", "planned", "committed", "failed"}]

CasInit ==
  /\ file \in Files \cup {Absent}
  /\ baseline = [c \in Clients |-> Absent]
  /\ status = [c \in Clients |-> "open"]

Plan(c) ==
  /\ status[c] = "open"
  /\ baseline' = [baseline EXCEPT ![c] = file]
  /\ status' = [status EXCEPT ![c] = "planned"]
  /\ UNCHANGED file

\* The compare and the swap are one step.
Commit(c) ==
  /\ status[c] = "planned"
  /\ file = baseline[c]
  /\ file' \in Files
  /\ Outcome(c, baseline[c], file')
  /\ status' = [status EXCEPT ![c] = "committed"]
  /\ UNCHANGED baseline

Fail(c) ==
  /\ status[c] \in {"open", "planned"}
  /\ status' = [status EXCEPT ![c] = "failed"]
  /\ UNCHANGED <<file, baseline>>

OutsideEdit ==
  /\ file' \in Files \cup {Absent}
  /\ UNCHANGED <<baseline, status>>

CasNext == OutsideEdit \/ \E c \in Clients : Plan(c) \/ Commit(c) \/ Fail(c)

CasSpec == CasInit /\ [][CasNext]_casVars
=============================================================================
