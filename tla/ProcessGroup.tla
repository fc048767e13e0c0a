---------------------------- MODULE ProcessGroup ----------------------------
(***************************************************************************)
(* What signals to a process group reach (_kill_process_group of           *)
(* shadow_code/process.py, used for shell commands and MCP servers).       *)
(*                                                                         *)
(* A family maps the processes of one command that still run to what they  *)
(* are: a child may leave the group (setsid), ignore SIGTERM, and keep the *)
(* pipes it inherited.  The leader is a member by start_new_session.       *)
(***************************************************************************)
EXTENDS Functions

Traits == {t \in [member : BOOLEAN, stubborn : BOOLEAN, holdsPipes : BOOLEAN] :
             t.stubborn => t.member}

\* The families a leader may start with, having started some helpers.
Families(leader, helpers) ==
  UNION {{f \in [{leader} \cup H -> Traits] : f[leader].member /\ f[leader].holdsPipes} :
           H \in SUBSET helpers}

Alive(family) == DOMAIN family

\* What is left of a family without a process, after SIGTERM to the group, and
\* after SIGKILL to it.
Without(family, p) == Restrict(family, Alive(family) \ {p})
AfterTerm(family) ==
  Restrict(family, {p \in Alive(family) : ~family[p].member \/ family[p].stubborn})
AfterKill(family) == Restrict(family, {p \in Alive(family) : ~family[p].member})

\* Somebody can still write to the pipes: their reader sees no end of file.
PipesHeld(family) == \E p \in Alive(family) : family[p].holdsPipes
=============================================================================
