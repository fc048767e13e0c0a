--------------------------- MODULE MCAgentEngine ----------------------------
(* Instances of the engine: one content per way a call can be admitted. *)
EXTENDS AgentEngine

CONSTANTS read, bash, write, mcp, bad   \* one raw call of each kind

Facts(v, c, e) == [valid |-> v, capability |-> c, sideEffects |-> e]

MCFactsOf ==
  [c \in Contents |->
     CASE c = read  -> Facts(TRUE, "filesystem.read", "none")
       [] c = bash  -> Facts(TRUE, "process.execute", "unknown")
       [] c = write -> Facts(TRUE, "filesystem.write", "mutating")
       [] c = mcp   -> Facts(TRUE, "mcp.invoke", "unknown")
       [] OTHER     -> Facts(FALSE, "filesystem.read", "none")]

MCGranted == GrantedCapabilities(FALSE, TRUE, FALSE)
=============================================================================
