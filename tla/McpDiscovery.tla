---------------------------- MODULE McpDiscovery ----------------------------
(***************************************************************************)
(* What discovery makes of mcp.json and of the tools a server announces    *)
(* (shadow_code/mcp.py): which entries become servers, with which limits,  *)
(* and which tools become specs, under which names.  Everything here is    *)
(* untrusted input; whatever is malformed is rejected and reported.        *)
(***************************************************************************)
EXTENDS Integers, Sequences, FiniteSets, SequencesExt

CONSTANTS
  Malformed,       \* a name that is no string, or not of the pattern
  Namespaced,      \* [server, tool |-> the name "mcp_<server>__<tool>"]
  DefaultTimeout, MaxTimeout, DefaultOutput, MaxOutputLimit

ASSUME DiscoveryAssumption ==
  /\ 0 < DefaultTimeout /\ DefaultTimeout <= MaxTimeout
  /\ 0 < DefaultOutput /\ DefaultOutput <= MaxOutputLimit

\* A limit as it is configured; one that is no number counts as Given(0).
Unset == <<>>
Given(n) == <<n>>

\* One entry of mcp.json: what the checks of _parse_server find.
IsEntry(e) ==
  /\ {e.object, e.knownKeys, e.command, e.args, e.env} \subseteq BOOLEAN
  /\ e.enabled \in {"absent", "true", "false", "malformed"}

\* A wrong field rejects an entry with an issue; an entry switched off is
\* dropped before its command is looked at, and not reported.
Disabled(e) ==
  /\ e.name # Malformed /\ e.object /\ e.knownKeys
  /\ e.enabled = "false"

Accepted(e) ==
  /\ e.name # Malformed /\ e.object /\ e.knownKeys
  /\ e.enabled \in {"absent", "true"}
  /\ e.command /\ e.args /\ e.env

\* _bounded_timeout: what is corrupt gives the default, what is too large the cap.
BoundedTimeout(value) ==
  CASE value = Unset -> DefaultTimeout
    [] value # Unset /\ value[1] <= 0 -> DefaultTimeout
    [] value # Unset /\ value[1] > MaxTimeout -> MaxTimeout
    [] OTHER -> value[1]

BoundedOutput(value) ==
  LET wanted == IF value = Unset \/ value[1] <= 0 THEN DefaultOutput ELSE value[1]
  IN IF wanted < MaxOutputLimit THEN wanted ELSE MaxOutputLimit

ParsedServer(e) ==
  [name |-> e.name, timeout |-> BoundedTimeout(e.timeout), output |-> BoundedOutput(e.output)]

\* load_mcp_config: a missing file is no configuration, a bad one an issue.
LoadConfig(file) ==
  LET accepted == SelectSeq(file.entries, Accepted)
      silent == {i \in DOMAIN file.entries :
                   Accepted(file.entries[i]) \/ Disabled(file.entries[i])}
  IN CASE file.state = "missing" -> [servers |-> <<>>, issues |-> 0]
       [] file.state = "malformed" -> [servers |-> <<>>, issues |-> 1]
       [] OTHER ->
            [servers |-> [i \in DOMAIN accepted |-> ParsedServer(accepted[i])],
             issues |-> Len(file.entries) - Cardinality(silent)]

-----------------------------------------------------------------------------
ScalarTypes == {"string", "integer", "number", "boolean"}
Several == "several types"    \* "type": ["string", "null"], a list

\* _build_args_model: a flat object of scalar properties with plain names.  A
\* list of types cannot be looked up in the table of scalar types: TypeError.
Verdict(schema) ==
  LET Bad(i) == LET property == schema.properties[i]
                IN ~property.identifier \/ property.type \notin ScalarTypes
      bad == {i \in DOMAIN schema.properties : Bad(i)}
      first == schema.properties[CHOOSE i \in bad : \A k \in bad : i <= k]
  IN CASE ~schema.object -> "rejected"
       [] schema.object /\ bad = {} -> "supported"
       [] OTHER -> IF first.identifier /\ first.type = Several THEN "raises" ELSE "rejected"

\* build_server_specs: the tools announced, in order, under names not taken.
Named(server, tool, seen) ==
  /\ tool.name # Malformed
  /\ Namespaced[<<server, tool.name>>] # Malformed
  /\ Namespaced[<<server, tool.name>>] \notin seen

BuildServerSpecs_ForgetsOwn(server, payload, reserved) ==
  LET Admits(tool) == Named(server, tool, reserved) /\ Verdict(tool.schema) = "supported"
      admitted == SelectSeq(payload, Admits)
  IN [names |-> [i \in DOMAIN admitted |-> Namespaced[<<server, admitted[i].name>>]],
      raised |-> FALSE]

BuildServerSpecs(server, payload, reserved) ==
  LET Add(specs, tool) ==
        IF specs.raised \/ ~Named(server, tool, reserved \cup Range(specs.names))
        THEN specs
        ELSE CASE Verdict(tool.schema) = "supported" ->
                    [specs EXCEPT !.names = Append(@, Namespaced[<<server, tool.name>>])]
               [] Verdict(tool.schema) = "raises" -> [specs EXCEPT !.raised = TRUE]
               [] OTHER -> specs
  IN FoldLeft(Add, [names |-> <<>>, raised |-> FALSE], payload)
=============================================================================
