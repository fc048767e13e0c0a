------------------------------ MODULE Prompts -------------------------------
(***************************************************************************)
(* The system prompt of shadow_code/prompt_compiler.py and prompt_store.py *)
(* for sessions that share one snapshot store: compile the overlay, save   *)
(* the snapshot under its digest, verify it, move the active pointer.  The *)
(* store is directories and files renamed into place, so every step here   *)
(* is one that another session can come between.                           *)
(*                                                                         *)
(* A digest is the pair of what was compiled: the overlay's text and the   *)
(* tool registry.  What is broken does not compile.                        *)
(***************************************************************************)
EXTENDS Naturals, FiniteSets

CONSTANTS
  Sessions,
  RegistryOf,  \* the registry each session runs with
  Texts,       \* overlay texts that compile
  Broken,      \* one that does not
  MaxEdits     \* bound: edits of the overlay

ASSUME PromptsAssumption == Broken \notin Texts /\ MaxEdits \in Nat

Digests == Texts \X {RegistryOf[s] : s \in Sessions}
None == <<>>
Torn == <<"torn">>     \* a pointer file without a digest in it

VARIABLES
  overlay, stamp,  \* the overlay's text, and its time stamp
  disk,            \* the files in each snapshot's directory
  staging,         \* the files in .staging-<digest>
  pointer,         \* the file "active"
  pointerStaging,  \* .active-staging
  place,           \* where each session is
  goal, target,    \* why and to which digest it switches
  active,          \* manager.active
  watched,         \* manager._watched
  inUse,           \* rt.system_prompt
  pinned           \* ghost: the digest of the last rollback, if nothing came after

promptVars == <<overlay, stamp, disk, staging, pointer, pointerStaging, place, goal,
                target, active, watched, inUse, pinned>>
fileVars == <<disk, staging, pointer, pointerStaging>>
sessionVars == <<active, watched, inUse, pinned>>

Dir == "dir"
Complete == {Dir, "compiled.txt", "sources.json"}

PromptsInit ==
  /\ overlay \in Texts /\ stamp = 0
  /\ disk = [d \in Digests |-> {}] /\ staging = [d \in Digests |-> {}]
  /\ pointer = None /\ pointerStaging = None
  /\ place = [s \in Sessions |-> "off"]
  /\ goal = [s \in Sessions |-> "none"] /\ target = [s \in Sessions |-> None]
  /\ active = [s \in Sessions |-> None] /\ inUse = [s \in Sessions |-> None]
  /\ watched = [s \in Sessions |-> 0]
  /\ pinned = [s \in Sessions |-> None]

Goto(s, where) == place' = [place EXCEPT ![s] = where]

EditOverlay ==
  /\ stamp < MaxEdits
  /\ overlay' \in Texts \cup {Broken}
  /\ stamp' = stamp + 1
  /\ UNCHANGED <<fileVars, place, goal, target, sessionVars>>

\* The compile fails: start-up exits, a watched edit is warned about and the
\* turn goes on, a command has no effect.
GiveUp(s, why) ==
  CASE why = "bootstrap" -> "exited"
    [] why = "watch" -> "turn"
    [] OTHER -> "idle"

Compile(s, why) ==
  /\ goal' = [goal EXCEPT ![s] = why]
  /\ IF overlay = Broken
     THEN Goto(s, GiveUp(s, why)) /\ UNCHANGED target
     ELSE Goto(s, "save") /\ target' = [target EXCEPT ![s] = <<overlay, RegistryOf[s]>>]
  /\ UNCHANGED <<overlay, stamp, fileVars, sessionVars>>

Bootstrap(s) == place[s] = "off" /\ Compile(s, "bootstrap")
Reload(s) == place[s] = "idle" /\ Compile(s, "reload")

\* Every message looks at the time stamps first.
Watch(s) == place[s] = "idle" /\ watched[s] # stamp /\ Compile(s, "watch")

NothingChanged(s) ==
  /\ place[s] = "idle" /\ watched[s] = stamp
  /\ Goto(s, "turn")
  /\ UNCHANGED <<overlay, stamp, fileVars, goal, target, sessionVars>>

TurnOver(s) ==
  /\ place[s] = "turn"
  /\ Goto(s, "idle")
  /\ UNCHANGED <<overlay, stamp, fileVars, goal, target, sessionVars>>

\* /prompt rollback: a whole snapshot, of this registry.
Rollback(s, digest) ==
  /\ place[s] = "idle"
  /\ disk[digest] = Complete /\ digest[2] = RegistryOf[s]
  /\ goal' = [goal EXCEPT ![s] = "rollback"] /\ target' = [target EXCEPT ![s] = digest]
  /\ Goto(s, "verify")
  /\ UNCHANGED <<overlay, stamp, fileVars, sessionVars>>

\* The /prompt commands that change something.  /prompt edit is an edit of the
\* overlay, which any editor may make, and then a reload.
PromptCommand(s) == Reload(s) \/ \E digest \in Digests : Rollback(s, digest)

-----------------------------------------------------------------------------
\* PromptStore.save, staged in a directory of the digest's own.  A system
\* call that fails raises OSError, which no caller expects.
Raise(s) == Goto(s, "crashed")

Staged(s) == staging[target[s]]
Stage(s, files) == staging' = [staging EXCEPT ![target[s]] = files]

Save(s) ==
  /\ place[s] = "save"
  /\ Goto(s, IF disk[target[s]] = Complete THEN "pointer" ELSE "stage")
  /\ UNCHANGED <<overlay, stamp, fileVars, goal, target, sessionVars>>

MakeStaging(s) ==
  /\ place[s] = "stage"
  /\ Stage(s, {Dir})
  /\ Goto(s, "text")
  /\ UNCHANGED <<overlay, stamp, disk, pointer, pointerStaging, goal, target, sessionVars>>

WriteFile(s, file, next) ==
  /\ IF Staged(s) = {}
     THEN Raise(s) /\ UNCHANGED staging
     ELSE Stage(s, Staged(s) \cup {file}) /\ Goto(s, next)
  /\ UNCHANGED <<overlay, stamp, disk, pointer, pointerStaging, goal, target, sessionVars>>

WriteCompiled(s) == place[s] = "text" /\ WriteFile(s, "compiled.txt", "sources")
WriteSources(s) == place[s] = "sources" /\ WriteFile(s, "sources.json", "publish")

\* os.replace puts a directory in place of an empty one only.
Publish(s) ==
  /\ place[s] = "publish"
  /\ IF Staged(s) = {} \/ ~(disk[target[s]] \subseteq {Dir})
     THEN Raise(s) /\ UNCHANGED disk
     ELSE disk' = [disk EXCEPT ![target[s]] = Staged(s)] /\ Goto(s, "pointer")
  /\ Stage(s, {})
  /\ UNCHANGED <<overlay, stamp, pointer, pointerStaging, goal, target, sessionVars>>

\* Start-up leaves a pointer alone that is right already, and a torn one ends it.
ReadPointer(s) ==
  /\ place[s] = "pointer"
  /\ Goto(s, CASE goal[s] # "bootstrap" -> "verify"
               [] goal[s] = "bootstrap" /\ pointer = Torn -> "exited"
               [] goal[s] = "bootstrap" /\ pointer = target[s] -> "done"
               [] OTHER -> "verify")
  /\ UNCHANGED <<overlay, stamp, fileVars, goal, target, sessionVars>>

Verify_NotAgain(s) ==
  /\ place[s] = "verify"
  /\ Goto(s, IF pointer # Torn THEN "open" ELSE GiveUp(s, goal[s]))
  /\ UNCHANGED <<overlay, stamp, fileVars, goal, target, sessionVars>>

\* set_active: load and verify, look at the pointer, stage the new one and
\* rename it.  All sessions stage under one name.
Verify(s) ==
  /\ place[s] = "verify"
  /\ Goto(s, IF disk[target[s]] = Complete /\ pointer # Torn
             THEN "open" ELSE GiveUp(s, goal[s]))
  /\ UNCHANGED <<overlay, stamp, fileVars, goal, target, sessionVars>>

OpenPointer(s) ==
  /\ place[s] = "open"
  /\ pointerStaging' = Torn
  /\ Goto(s, "write")
  /\ UNCHANGED <<overlay, stamp, disk, staging, pointer, goal, target, sessionVars>>

\* The open file may have been renamed away, and be the pointer by now.
WritePointer(s) ==
  /\ place[s] = "write"
  /\ IF pointerStaging # None
     THEN pointerStaging' = target[s] /\ UNCHANGED pointer
     ELSE pointer' = target[s] /\ UNCHANGED pointerStaging
  /\ Goto(s, "rename")
  /\ UNCHANGED <<overlay, stamp, disk, staging, goal, target, sessionVars>>

RenamePointer(s) ==
  /\ place[s] = "rename"
  /\ IF pointerStaging = None
     THEN Raise(s) /\ UNCHANGED pointer
     ELSE pointer' = pointerStaging /\ Goto(s, "done")
  /\ pointerStaging' = None
  /\ UNCHANGED <<overlay, stamp, disk, staging, goal, target, sessionVars>>

\* Done: the time stamps are taken now, and only start-up and the watch hand
\* the text on to the session.
Switched(s) ==
  /\ place[s] = "done"
  /\ active' = [active EXCEPT ![s] = target[s]]
  /\ watched' = [watched EXCEPT ![s] = IF goal[s] = "rollback" THEN @ ELSE stamp]
  /\ inUse' = [inUse EXCEPT ![s] = IF goal[s] \in {"bootstrap", "watch"} THEN target[s] ELSE @]
  /\ pinned' = [pinned EXCEPT ![s] = IF goal[s] = "rollback" THEN target[s] ELSE None]
  /\ Goto(s, IF goal[s] = "watch" THEN "turn" ELSE "idle")
  /\ UNCHANGED <<overlay, stamp, fileVars, goal, target>>

Kill(s) ==
  /\ place[s] \notin {"off", "exited", "crashed"}
  /\ Goto(s, "crashed")
  /\ UNCHANGED <<overlay, stamp, fileVars, goal, target, sessionVars>>

PromptsNext ==
  \/ EditOverlay
  \/ \E s \in Sessions :
       \/ Bootstrap(s) \/ PromptCommand(s) \/ Watch(s) \/ NothingChanged(s) \/ TurnOver(s)
       \/ Save(s) \/ MakeStaging(s) \/ WriteCompiled(s) \/ WriteSources(s) \/ Publish(s)
       \/ ReadPointer(s) \/ Verify(s) \/ OpenPointer(s) \/ WritePointer(s) \/ RenamePointer(s)
       \/ Switched(s) \/ Kill(s)

PromptsSpec == PromptsInit /\ [][PromptsNext]_promptVars

-----------------------------------------------------------------------------
\* Whatever sessions and kills come between, the pointer never names a
\* snapshot that is not all there.  (It may be torn: the staged pointer has
\* one name for all.)
PointerVerified == pointer \in Digests => disk[pointer] = Complete

\* README "Rollback pins the snapshot for the rest of the session".
RollbackPinsPrompt ==
  \A s \in Sessions : place[s] = "turn" /\ pinned[s] # None => inUse[s] = pinned[s]
=============================================================================
