----------------------------- MODULE MCMutation -----------------------------
(* Small instances of Mutation: a write and an edit, each of a strict      *)
(* session or not, meet at one file of two contents and two modes.         *)
EXTENDS Mutation

CONSTANTS write, edit, a, b, private, shared

MCContentOf == [w \in Writers |-> a]
\* The text an edit looks for stands once in a, whose edit is b, and twice in b.
MCMatches == [w \in Writers |-> [d \in Data |-> IF d = a THEN 1 ELSE 2]]
MCReplaced == [w \in Writers |-> [d \in Data |-> IF d = a THEN b ELSE a]]
=============================================================================
