------------------------------ MODULE Approval ------------------------------
(***************************************************************************)
(* ApprovalAuthority of shadow_code/domain/approval.py: the session's only *)
(* memory of what the user approved.  `outstanding` is its dictionary from *)
(* token id to plan digest; token ids are random in the code, fresh        *)
(* numbers here.  A plan stands for its own digest (SHA-256 over every     *)
(* field: two different plans are assumed to have different digests).      *)
(***************************************************************************)
EXTENDS Naturals

CONSTANT Plans   \* the action plans that can be put to the user

VARIABLES
  outstanding,   \* {[token |-> id, digest |-> plan]}: issued and not consumed
  issued         \* number of tokens issued so far; ids are 1..issued

Grants == [token : Nat \ {0}, digest : Plans]

AuthorityTypeOK ==
  /\ outstanding \subseteq Grants
  /\ issued \in Nat

AuthorityInit ==
  /\ outstanding = {}
  /\ issued = 0

\* A token id one too low, which may be one already spent.
Issue_OffByOne(plan) ==
  /\ issued' = issued + 1
  /\ outstanding' = outstanding \cup {[token |-> issued, digest |-> plan]}

\* issue: a fresh token bound to the digest of exactly this plan.
Issue(plan) ==
  /\ issued' = issued + 1
  /\ outstanding' = outstanding \cup {[token |-> issued + 1, digest |-> plan]}

\* The verdict of consume: the token is outstanding and bound to this plan.
Honors(token, plan) == [token |-> token, digest |-> plan] \in outstanding

\* A token is honored and stays outstanding.
Burn_Keeps(token) == UNCHANGED <<outstanding, issued>>

\* The effect of consume, whatever its verdict: the token is burned.
Burn(token) ==
  /\ outstanding' = {g \in outstanding : g.token # token}
  /\ UNCHANGED issued
=============================================================================
