------------------------------ MODULE ToolRows ------------------------------
(***************************************************************************)
(* The transcript of the terminal UI (shadow_code/tui.py, tui_tools.py):   *)
(* the engine notifies every stage of every call, and a model of groups    *)
(* and rows turns the notifications into what is on the screen.  They are  *)
(* applied in the order they were posted, so each is applied at once.      *)
(*                                                                         *)
(* A row knows its call id and the call it was made for; its status and    *)
(* its text change in place and are left out.                              *)
(***************************************************************************)
EXTENDS Naturals, Sequences

CONSTANTS
  ProviderIds,   \* the server names calls itself (else they are numbered)
  RowTurns,      \* bound: turns
  RowSteps,      \* bound: rounds of a turn
  RowBatch       \* bound: calls of a round

VARIABLES
  userTurn,   \* turns so far
  step,       \* rounds of this turn, the open one included
  unsettled,  \* calls of the open round without a result
  groups,     \* ToolLifecycleModel.groups
  entries     \* the transcript: "user", or the number of a group

rowVars == <<userTurn, step, unsettled, groups, entries>>

RowsInit ==
  /\ userTurn = 0 /\ step = 0 /\ unsettled = 0
  /\ groups = <<>> /\ entries = <<>>

NewRow(place) == [id |-> IF ProviderIds THEN place ELSE <<place[3]>>, of |-> place]

UserTurn ==
  /\ unsettled = 0 /\ userTurn < RowTurns
  /\ userTurn' = userTurn + 1 /\ step' = 0
  /\ entries' = Append(entries, "user")
  /\ UNCHANGED <<unsettled, groups>>

\* /clear; the engine's counts are not the model's.
ClearTranscript ==
  /\ unsettled = 0
  /\ groups' = <<>> /\ entries' = <<>>
  /\ UNCHANGED <<userTurn, step, unsettled>>

\* begin_round: a group of its own, unless the last one has this step's number.
BeginRound(number) ==
  IF groups # <<>> /\ groups[Len(groups)].step = number
  THEN groups
  ELSE Append(groups, [step |-> number, rows |-> <<>>])

Has(group, id) == \E i \in DOMAIN group.rows : group.rows[i].id = id

\* note_proposed for each call of the batch: an id that has a row gets no other.
NoteProposed(group, places) ==
  [group EXCEPT !.rows =
     @ \o SelectSeq([i \in DOMAIN places |-> NewRow(places[i])],
                    LAMBDA row : ~Has(group, row.id))]

\* A round that needed a new group gets an entry where the transcript ends.
Round ==
  /\ unsettled = 0 /\ userTurn > 0 /\ step < RowSteps
  /\ step' = step + 1
  /\ \E calls \in 1..RowBatch :
       LET begun == BeginRound(step')
           places == [i \in 1..calls |-> <<userTurn, step', i>>]
       IN  /\ groups' = [begun EXCEPT ![Len(begun)] = NoteProposed(@, places)]
           /\ entries' = IF Len(begun) > Len(groups) THEN Append(entries, Len(begun)) ELSE entries
           /\ unsettled' = calls
  /\ UNCHANGED userTurn

\* The call at hand awaits approval, runs and gets its result: its row changes
\* where it stands.
CallSettled ==
  /\ unsettled > 0
  /\ unsettled' = unsettled - 1
  /\ UNCHANGED <<userTurn, step, groups, entries>>

\* The turn is cancelled inside the round: what is left gets no result.
TurnCancelled ==
  /\ unsettled > 0
  /\ unsettled' = 0
  /\ UNCHANGED <<userTurn, step, groups, entries>>

RowsNext ==
  UserTurn \/ ClearTranscript \/ Round \/ CallSettled \/ TurnCancelled

RowsSpec == RowsInit /\ [][RowsNext]_rowVars

-----------------------------------------------------------------------------
\* README "Tool calls render grouped per engine round": the rows of one group
\* are calls of one round.
GroupIsOneRound ==
  \A g \in DOMAIN groups : \A i, j \in DOMAIN groups[g].rows :
    LET a == groups[g].rows[i].of
        b == groups[g].rows[j].of
    IN  a[1] = b[1] /\ a[2] = b[2]
=============================================================================
