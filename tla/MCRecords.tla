----------------------------- MODULE MCRecords ------------------------------
(***************************************************************************)
(* What a session keeps, and how it comes up and goes down: history,       *)
(* prompt snapshots, start, backups, the event store, the database of      *)
(* sessions, the legacy tools' files and the evaluation of a release.  The *)
(* modules share no variable, so the instance runs one at a time, the one  *)
(* in focus, and the others wait in one of their initial states.           *)
(***************************************************************************)
EXTENDS History, Prompts, Startup, Backup, EvalRun, LegacyLoop, EventStore, SessionDb, TLC

CONSTANTS
  s1, s2, r1, t1, t2, t3,  \* sessions, their registry and overlays of Prompts
  sa, sb, misnamed,        \* server names of Startup, the last of no legal form
  f1, f2,                  \* paths of LegacyLoop
  p1, p2                   \* processes of EventStore and SessionDb

VARIABLE focus

\* Processes of one kind are alike, and so are the overlays that compile.
MCSymmetry ==
  Permutations({s1, s2}) \cup Permutations({t1, t3}) \cup Permutations({p1, p2})

MCRegistryOf == [s \in {s1, s2} |-> r1]

\* a server "a" with a tool "b__t" and a server "a__b" with a tool "t"
MCNamespaced ==
  [p \in {sa, sb} \X {"t", "b__t"} |->
     CASE p = <<sa, "t">> -> "mcp_a__t"
       [] p \in {<<sa, "b__t">>, <<sb, "t">>} -> "mcp_a__b__t"
       [] OTHER -> misnamed]

Property(i, t) == [identifier |-> i, type |-> t]
MCSchemas ==
  {[object |-> o, properties |-> ps] :
     o \in BOOLEAN, ps \in {<<>>, <<Property(TRUE, "string"), Property(TRUE, "array")>>,
                            <<Property(TRUE, Several)>>}}
MCToolLists == {[name |-> n, schema |-> s] : n \in {"t", "b__t", misnamed}, s \in MCSchemas}
MCPayloads == {<<>>} \cup {<<x>> : x \in MCToolLists} \cup (MCToolLists \X MCToolLists)

Entry(name, enabled, command, timeout, output) ==
  [name |-> name, object |-> TRUE, knownKeys |-> TRUE, enabled |-> enabled,
   command |-> command, args |-> TRUE, env |-> TRUE, timeout |-> timeout, output |-> output]
MCConfigs ==
  {[state |-> "missing", entries |-> <<>>], [state |-> "malformed", entries |-> <<>>],
   [state |-> "good",
    entries |-> <<Entry(sa, "absent", TRUE, Unset, Given(0)),
                  Entry(misnamed, "true", TRUE, Unset, Unset),
                  Entry(sb, "true", TRUE, Given(9), Given(2))>>],
   [state |-> "good",
    entries |-> <<Entry(sa, "false", TRUE, Unset, Unset),
                  Entry(sb, "true", TRUE, Given(9), Given(9))>>]}

\* Scenarios of the kinds the corpus has.
Unconditional ==
  [tools |-> {}, order |-> <<>>, paths |-> {}, codes |-> {}, anyCodes |-> {},
   denial |-> FALSE, status |-> "completed", reason |-> "any", maxCalls |-> 9,
   forbidden |-> {}, content |-> "any", exported |-> FALSE]
Plain ==
  [category |-> "safety", injection |-> FALSE, approve |-> FALSE, tamper |-> FALSE,
   export |-> FALSE, cancelAfter |-> 0, driver |-> "transcript", script |-> <<>>,
   expect |-> Unconditional]
MCScenarios ==
  <<[Plain EXCEPT !.driver = "model", !.injection = TRUE, !.expect.forbidden = {"process"}],
    [Plain EXCEPT !.script = <<<<"read">>, <<"edit">>, <<>>>>, !.approve = TRUE,
                  !.export = TRUE, !.expect.exported = TRUE, !.expect.forbidden = {"file"}],
    [Plain EXCEPT !.script = <<<<"read">>, <<"read", "bash">>>>,
                  !.expect.codes = {"duplicate_call"}, !.expect.status = "budget_exhausted",
                  !.expect.reason = "duplicates"],
    [Plain EXCEPT !.script = <<<<"read">>, <<"read">>, <<>>>>, !.cancelAfter = 1,
                  !.expect.status = "cancelled", !.expect.forbidden = {"workspace"}],
    [Plain EXCEPT !.driver = "model", !.approve = TRUE, !.tamper = TRUE,
                  !.expect.anyCodes = {"no_match"}, !.expect.content = "tampered"],
    [Plain EXCEPT !.category = "capability", !.driver = "model", !.approve = TRUE,
                  !.expect.order = <<"read", "edit">>, !.expect.tools = {"edit"},
                  !.expect.paths = {"target"}, !.expect.content = "new",
                  !.expect.maxCalls = 1]>>
MCBatches == {<<"read">>, <<"edit">>, <<"junk", "bash">>, <<"escape", "edit">>}
MCMinRate == [c \in Categories |-> IF c = "safety" THEN 100 ELSE 60]

-----------------------------------------------------------------------------
\* Where an initial state is a choice, a module out of focus takes one of them.
Waits(part) == focus # part

Init ==
  /\ focus \in {"history", "prompts", "startup", "backup", "eval", "legacy", "store", "sessions"}
  /\ HistoryInit
  /\ PromptsInit
  /\ StartupInit /\ (Waits("startup") => ~tui /\ ~tty)
  /\ BackupInit /\ (Waits("backup") => targets = {} /\ \A l \in LabelSet : file[l] = Missing)
  /\ EvalInit /\ (Waits("eval") => selected = {1} /\ ~numbered)
  /\ LegacyInit /\ (Waits("legacy") => \A f \in Files : files[f] = Absent)
  /\ StoreInit
  /\ SessionDbInit

Next ==
  \/ /\ focus = "history" /\ HistoryNext
     /\ UNCHANGED <<focus, promptVars, startupVars, backupVars,
                    evalVars, legacyVars, storeVars, sessionDbVars>>
  \/ /\ focus = "prompts" /\ PromptsNext
     /\ UNCHANGED <<focus, historyVars, startupVars, backupVars,
                    evalVars, legacyVars, storeVars, sessionDbVars>>
  \/ /\ focus = "startup" /\ StartupNext
     /\ UNCHANGED <<focus, historyVars, promptVars, backupVars,
                    evalVars, legacyVars, storeVars, sessionDbVars>>
  \/ /\ focus = "backup" /\ BackupNext
     /\ UNCHANGED <<focus, historyVars, promptVars, startupVars,
                    evalVars, legacyVars, storeVars, sessionDbVars>>
  \/ /\ focus = "eval" /\ EvalNext
     /\ UNCHANGED <<focus, historyVars, promptVars, startupVars,
                    backupVars, legacyVars, storeVars, sessionDbVars>>
  \/ /\ focus = "legacy" /\ LegacyNext
     /\ UNCHANGED <<focus, historyVars, promptVars, startupVars,
                    backupVars, evalVars, storeVars, sessionDbVars>>
  \/ /\ focus = "store" /\ StoreNext
     /\ UNCHANGED <<focus, historyVars, promptVars, startupVars,
                    backupVars, evalVars, legacyVars, sessionDbVars>>
  \/ /\ focus = "sessions" /\ SessionDbNext
     /\ UNCHANGED <<focus, historyVars, promptVars, startupVars,
                    backupVars, evalVars, legacyVars, storeVars>>

Spec ==
  Init /\ [][Next]_<<focus, historyVars, promptVars, startupVars, backupVars, evalVars,
                     legacyVars, storeVars, sessionDbVars>>
=============================================================================
