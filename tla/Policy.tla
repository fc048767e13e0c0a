------------------------------- MODULE Policy -------------------------------
(***************************************************************************)
(* What admission may do with one proposed tool call, before any handler   *)
(* is considered: the registry's validation verdict and the policy         *)
(* engine's disposition (shadow_code/tools/registry.py,                    *)
(* shadow_code/policy/engine.py).  Pure operators, no state.               *)
(*                                                                         *)
(* A proposed call is abstracted to the facts those two read of it: whether*)
(* the envelope, the tool name and the arguments validate, and the         *)
(* capability and side effects its ToolSpec declares.                      *)
(***************************************************************************)

Capabilities == {"filesystem.read", "filesystem.write", "process.execute",
                 "network.access", "mcp.invoke"}

SideEffects == {"none", "mutating", "unknown"}

\* The facts of a raw call that validation and policy look at.
CallFacts == [valid : BOOLEAN, capability : Capabilities, sideEffects : SideEffects]

Dispositions == {"allow", "require_approval", "deny"}

SensitiveCapabilities == {"filesystem.write", "process.execute",
                          "network.access", "mcp.invoke"}

\* PolicyEngine.decide: an ungranted capability or a missing workspace
\* denies first; only a side-effect free read is allowed outright; mutating,
\* unknown and sensitive calls need one approval each; the rest is denied.
Disposition(f, granted, workspace) ==
  IF f.capability \notin granted \/ ~workspace THEN "deny"
  ELSE IF f.capability = "filesystem.read" /\ f.sideEffects = "none" THEN "allow"
  ELSE IF \/ f.sideEffects \in {"mutating", "unknown"}
          \/ f.capability \in SensitiveCapabilities
       THEN "require_approval"
       ELSE "deny"

\* _granted_capabilities: reads, writes and shell are granted; strict bash
\* withholds the shell where nothing can confine it; MCP only when a server
\* discovered tools.
GrantedCapabilities(bashStrict, unconfined, mcpActive) ==
  ( {"filesystem.read", "filesystem.write", "process.execute"}
      \ (IF bashStrict /\ unconfined THEN {"process.execute"} ELSE {}) )
  \cup (IF mcpActive THEN {"mcp.invoke"} ELSE {})
=============================================================================
