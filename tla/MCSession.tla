----------------------------- MODULE MCSession ------------------------------
(* A read and a shell command, one per round, across restarts. *)
EXTENDS Session

CONSTANTS read, bash

MCFactsOf ==
  [c \in Contents |->
     IF c = read
     THEN [valid |-> TRUE, capability |-> "filesystem.read", sideEffects |-> "none"]
     ELSE [valid |-> TRUE, capability |-> "process.execute", sideEffects |-> "unknown"]]

MCGranted == GrantedCapabilities(FALSE, TRUE, FALSE)
=============================================================================
