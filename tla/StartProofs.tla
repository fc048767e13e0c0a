---------------------------- MODULE StartProofs -----------------------------
(***************************************************************************)
(* Proofs about what is ready before a session and checked before a        *)
(* release: prompt snapshots, start and exit, backups and the evaluation - *)
(* for every value of their constants.                                     *)
(***************************************************************************)
EXTENDS Prompts, Startup, Backup, EvalRun, FoldTheorems, FiniteSetTheorems

-----------------------------------------------------------------------------
(***************************************************************************)
(* The snapshot store, for any number of sessions that share it, any       *)
(* overlay texts and tool registries.                                      *)
(***************************************************************************)
\* Where a session has its digest, and where it has seen it verified.
Switching == {"save", "stage", "text", "sources", "publish", "pointer", "verify"}
Verified == {"open", "write", "rename", "done"}

Elsewhere == {"off", "idle", "turn", "exited", "crashed"}
Places == Switching \cup Verified \cup Elsewhere

PlacesInv ==
  /\ overlay \in Texts \cup {Broken}
  /\ place \in [Sessions -> Places]
  /\ target \in [Sessions -> Digests \cup {None}]
  /\ disk \in [Digests -> SUBSET Complete]
  /\ staging \in [Digests -> SUBSET Complete]
  /\ \A s \in Sessions : place[s] \in Switching \cup Verified => target[s] \in Digests

\* Everything a session may still make the pointer, or has staged as one, is
\* whole.
Whole(d) == d \in Digests => disk[d] = Complete

WholeInv ==
  /\ PointerVerified
  /\ Whole(pointerStaging)
  /\ \A s \in Sessions : place[s] \in Verified => Whole(target[s])

PromptsInv == PlacesInv /\ WholeInv

-----------------------------------------------------------------------------
LEMMA TornIsNoDigest == Torn \notin Digests /\ None \notin Digests
  BY DEF Torn, None, Digests

LEMMA PromptsInitHolds == PromptsInit => PromptsInv
  <1> SUFFICES ASSUME PromptsInit PROVE PromptsInv
    OBVIOUS
  <1>1. PlacesInv
    <2>1. /\ disk \in [Digests -> SUBSET Complete]
          /\ staging \in [Digests -> SUBSET Complete]
      BY DEF PromptsInit
    <2>2. /\ place \in [Sessions -> Places] /\ target \in [Sessions -> Digests \cup {None}]
          /\ \A s \in Sessions : place[s] = "off"
      BY DEF PromptsInit, Places, Elsewhere
    <2> QED
      BY <2>1, <2>2 DEF PromptsInit, PlacesInv, Switching, Verified
  <1>2. WholeInv
    BY TornIsNoDigest DEF PromptsInit, WholeInv, Whole, PointerVerified, Verified
  <1> QED
    BY <1>1, <1>2 DEF PromptsInv

\* A session that gives up or goes on without a digest in hand.
LEMMA LeaveStep ==
  ASSUME PromptsInv, NEW s \in Sessions, NEW where \in Elsewhere,
         Goto(s, where), UNCHANGED <<target, fileVars>>, overlay' \in Texts \cup {Broken}
  PROVE  PromptsInv'
  <1>1. /\ where \in Places /\ where \notin Switching \cup Verified
        /\ UNCHANGED <<disk, staging, pointer, pointerStaging, target>>
    BY DEF Switching, Verified, Elsewhere, Places, fileVars
  <1>2. PlacesInv'
    BY <1>1 DEF Goto, PromptsInv, PlacesInv
  <1>3. WholeInv'
    BY <1>1 DEF Goto, PromptsInv, PlacesInv, WholeInv, PointerVerified, Whole
  <1> QED
    BY <1>2, <1>3 DEF PromptsInv

\* A session that takes a digest, and has yet to verify it.
LEMMA TargetStep ==
  ASSUME PromptsInv, NEW s \in Sessions, NEW where \in Switching, NEW digest \in Digests,
         Goto(s, where), target' = [target EXCEPT ![s] = digest],
         UNCHANGED <<overlay, fileVars>>
  PROVE  PromptsInv'
  <1>1. /\ where \in Places /\ where \notin Verified
        /\ UNCHANGED <<disk, staging, pointer, pointerStaging>>
    BY DEF Switching, Verified, Elsewhere, Places, fileVars
  <1>2. PlacesInv'
    BY <1>1 DEF Goto, PromptsInv, PlacesInv
  <1>3. WholeInv'
    BY <1>1 DEF Goto, PromptsInv, PlacesInv, WholeInv, PointerVerified, Whole
  <1> QED
    BY <1>2, <1>3 DEF PromptsInv

\* A session with a digest in hand moves on; what it has staged is nobody's yet.
LEMMA MoveStep ==
  ASSUME PromptsInv, NEW s \in Sessions, NEW where \in Switching \cup Verified, Goto(s, where),
         place[s] \in Switching \cup Verified,
         where \in Verified => Whole(target[s]),
         staging' \in [Digests -> SUBSET Complete],
         UNCHANGED <<overlay, disk, pointer, pointerStaging, target>>
  PROVE  PromptsInv'
  <1>1. where \in Places
    BY DEF Places
  <1>2. PlacesInv'
    BY <1>1 DEF Goto, PromptsInv, PlacesInv
  <1>3. WholeInv'
    BY <1>1 DEF Goto, PromptsInv, PlacesInv, WholeInv, PointerVerified, Whole
  <1> QED
    BY <1>2, <1>3 DEF PromptsInv

LEMMA CommandStep ==
  ASSUME PromptsInv, NEW s \in Sessions,
         Bootstrap(s) \/ PromptCommand(s) \/ Watch(s) \/ NothingChanged(s) \/ TurnOver(s)
  PROVE  PromptsInv'
  <1>1. ASSUME NEW why \in {"bootstrap", "reload", "watch"}, Compile(s, why)
        PROVE  PromptsInv'
    <2>1. CASE overlay = Broken
      <3>1. /\ Goto(s, GiveUp(s, why))
            /\ UNCHANGED <<overlay, target, fileVars>>
        BY <1>1, <2>1 DEF Compile
      <3>2. /\ GiveUp(s, why) \in Elsewhere
            /\ overlay' \in Texts \cup {Broken}
        BY <3>1 DEF GiveUp, Elsewhere, PromptsInv, PlacesInv
      <3> QED
        BY <3>1, <3>2, LeaveStep
    <2>2. CASE overlay # Broken
      <3> DEFINE digest == <<overlay, RegistryOf[s]>>
      <3>1. /\ Goto(s, "save") /\ target' = [target EXCEPT ![s] = digest]
            /\ UNCHANGED <<overlay, fileVars>>
        BY <1>1, <2>2 DEF Compile
      <3>2. digest \in Digests
        BY <2>2 DEF Digests, PromptsInv, PlacesInv
      <3>3. "save" \in Switching
        BY DEF Switching
      <3> HIDE DEF digest
      <3> QED
        BY <3>1, <3>2, <3>3, TargetStep
    <2> QED
      BY <2>1, <2>2
  <1>2. ASSUME NEW digest \in Digests, Rollback(s, digest)
        PROVE  PromptsInv'
    <2>1. /\ Goto(s, "verify") /\ target' = [target EXCEPT ![s] = digest]
          /\ UNCHANGED <<overlay, fileVars>>
      BY <1>2 DEF Rollback
    <2>2. "verify" \in Switching
      BY DEF Switching
    <2> QED
      BY <2>1, <2>2, TargetStep
  <1>3. CASE NothingChanged(s) \/ TurnOver(s)
    <2>1. /\ Goto(s, "turn") \/ Goto(s, "idle")
          /\ UNCHANGED <<overlay, target, fileVars>>
      BY <1>3 DEF NothingChanged, TurnOver
    <2>2. overlay' \in Texts \cup {Broken}
      BY <2>1 DEF PromptsInv, PlacesInv
    <2> QED
      BY <2>1, <2>2, LeaveStep DEF Elsewhere
  <1> QED
    BY <1>1, <1>2, <1>3 DEF Bootstrap, Watch, Reload, PromptCommand

\* Saving: nothing that is whole is replaced, for a rename puts a directory in
\* place of an empty one only.
LEMMA SaveStep ==
  ASSUME PromptsInv, NEW s \in Sessions,
         Save(s) \/ MakeStaging(s) \/ WriteCompiled(s) \/ WriteSources(s) \/ Publish(s)
  PROVE  PromptsInv'
  <1>1. place[s] \in Switching
    BY DEF Save, MakeStaging, WriteCompiled, WriteSources, Publish, Switching
  <1>2. target[s] \in Digests /\ Staged(s) \in SUBSET Complete
    BY <1>1 DEF PromptsInv, PlacesInv, Staged
  <1>3. ASSUME NEW files \in SUBSET Complete, Stage(s, files)
        PROVE  staging' \in [Digests -> SUBSET Complete]
    BY <1>2, <1>3 DEF Stage, PromptsInv, PlacesInv
  <1>4. {"save", "stage", "text", "sources", "publish", "pointer"} \subseteq Switching \ Verified
    BY DEF Switching, Verified
  <1>5. ASSUME Raise(s), UNCHANGED <<overlay, target, fileVars>>
        PROVE  PromptsInv'
    BY <1>5, LeaveStep DEF Raise, Elsewhere, PromptsInv, PlacesInv
  <1>6. CASE Save(s)
    <2>1. /\ Goto(s, "pointer") \/ Goto(s, "stage")
          /\ UNCHANGED <<overlay, target, disk, staging, pointer, pointerStaging>>
      BY <1>6 DEF Save, fileVars
    <2>2. staging' \in [Digests -> SUBSET Complete]
      BY <2>1 DEF PromptsInv, PlacesInv
    <2> QED
      BY <1>1, <1>4, <2>1, <2>2, MoveStep
  <1>7. CASE MakeStaging(s)
    <2>1. /\ Goto(s, "text") /\ Stage(s, {Dir})
          /\ UNCHANGED <<overlay, target, disk, pointer, pointerStaging>>
      BY <1>7 DEF MakeStaging
    <2>2. {Dir} \in SUBSET Complete
      BY DEF Complete
    <2>3. staging' \in [Digests -> SUBSET Complete]
      BY <1>3, <2>1, <2>2
    <2> QED
      BY <1>1, <1>4, <2>1, <2>3, MoveStep
  <1>8. ASSUME NEW part \in {"compiled.txt", "sources.json"}, NEW next \in {"sources", "publish"},
               WriteFile(s, part, next)
        PROVE  PromptsInv'
    <2>1. CASE Staged(s) = {}
      BY <1>5, <1>8, <2>1 DEF WriteFile, fileVars
    <2>2. CASE Staged(s) # {}
      <3>1. /\ Goto(s, next) /\ Stage(s, Staged(s) \cup {part})
            /\ UNCHANGED <<overlay, target, disk, pointer, pointerStaging>>
        BY <1>8, <2>2 DEF WriteFile
      <3>2. Staged(s) \cup {part} \in SUBSET Complete
        BY <1>2 DEF Complete
      <3>3. staging' \in [Digests -> SUBSET Complete]
        BY <1>3, <3>1, <3>2
      <3> QED
        BY <1>1, <1>4, <3>1, <3>3, MoveStep
    <2> QED
      BY <2>1, <2>2
  <1>9. CASE Publish(s)
    <2>1. Stage(s, {}) /\ UNCHANGED <<overlay, target, pointer, pointerStaging>>
      BY <1>9 DEF Publish
    <2>2. staging' \in [Digests -> SUBSET Complete]
      BY <1>3, <2>1
    <2>3. CASE Raise(s) /\ UNCHANGED disk
      <3>1. "crashed" \in Places /\ "crashed" \notin Switching \cup Verified
        BY DEF Switching, Verified, Elsewhere, Places
      <3>2. PlacesInv'
        BY <2>1, <2>2, <2>3, <3>1 DEF Raise, Goto, PromptsInv, PlacesInv
      <3>3. WholeInv'
        BY <2>1, <2>3, <3>1 DEF Raise, Goto, PromptsInv, PlacesInv, WholeInv, PointerVerified, Whole
      <3> QED
        BY <3>2, <3>3 DEF PromptsInv
    <2>4. CASE /\ disk[target[s]] \subseteq {Dir} /\ Goto(s, "pointer")
               /\ disk' = [disk EXCEPT ![target[s]] = Staged(s)]
      <3>1. disk' \in [Digests -> SUBSET Complete]
        BY <1>2, <2>4 DEF PromptsInv, PlacesInv
      <3>2. "compiled.txt" \in Complete /\ "compiled.txt" \notin {Dir}
        BY DEF Complete, Dir
      <3>3. \A d \in Digests : disk[d] = Complete => disk'[d] = Complete
        BY <1>2, <2>4, <3>2 DEF PromptsInv, PlacesInv
      <3>4. "pointer" \in Places /\ "pointer" \in Switching /\ "pointer" \notin Verified
        BY DEF Switching, Verified, Elsewhere, Places
      <3>5. PlacesInv'
        BY <1>2, <2>1, <2>2, <2>4, <3>1, <3>4 DEF Goto, PromptsInv, PlacesInv
      <3>6. PointerVerified' /\ Whole(pointerStaging)'
        BY <2>1, <3>3 DEF PromptsInv, WholeInv, PointerVerified, Whole
      <3>7. \A r \in Sessions : place'[r] \in Verified => Whole(target[r])'
        BY <2>1, <2>4, <3>3, <3>4 DEF Goto, PromptsInv, PlacesInv, WholeInv, Whole
      <3> QED
        BY <3>5, <3>6, <3>7 DEF PromptsInv, WholeInv
    <2> QED
      BY <1>9, <2>3, <2>4 DEF Publish
  <1> QED
    BY <1>6, <1>7, <1>8, <1>9 DEF WriteCompiled, WriteSources

\* set_active: from the verification on, the digest in hand is a whole one, and
\* only such digests are staged and become the pointer.
LEMMA PointerStep ==
  ASSUME PromptsInv, NEW s \in Sessions,
         ReadPointer(s) \/ Verify(s) \/ OpenPointer(s) \/ WritePointer(s) \/ RenamePointer(s)
  PROVE  PromptsInv'
  <1>1. /\ place[s] \in Switching \cup Verified /\ target[s] \in Digests
        /\ staging \in [Digests -> SUBSET Complete] /\ overlay \in Texts \cup {Broken}
    BY DEF ReadPointer, Verify, OpenPointer, WritePointer, RenamePointer, Switching, Verified,
           PromptsInv, PlacesInv
  <1>2. CASE ReadPointer(s)
    <2>1. UNCHANGED <<overlay, target, fileVars>>
      BY <1>2 DEF ReadPointer
    <2>2. CASE Goto(s, "exited")
      BY <1>1, <2>1, <2>2, LeaveStep DEF Elsewhere
    <2>3. CASE Goto(s, "verify")
      BY <1>1, <2>1, <2>3, MoveStep DEF Switching, Verified, fileVars
    <2>4. CASE Goto(s, "done") /\ pointer = target[s]
      <3>1. Whole(target[s])
        BY <2>4 DEF PromptsInv, WholeInv, PointerVerified, Whole
      <3> QED
        BY <1>1, <2>1, <2>4, <3>1, MoveStep DEF Switching, Verified, fileVars
    <2> QED
      BY <1>2, <2>2, <2>3, <2>4 DEF ReadPointer
  <1>3. CASE Verify(s)
    <2>1. UNCHANGED <<overlay, target, fileVars>>
      BY <1>3 DEF Verify
    <2>2. CASE disk[target[s]] = Complete /\ pointer # Torn
      <3>1. Goto(s, "open") /\ Whole(target[s])
        BY <1>3, <2>2 DEF Verify, Whole
      <3> QED
        BY <1>1, <2>1, <3>1, MoveStep DEF Switching, Verified, fileVars
    <2>3. CASE ~(disk[target[s]] = Complete /\ pointer # Torn)
      <3>1. Goto(s, GiveUp(s, goal[s])) /\ GiveUp(s, goal[s]) \in Elsewhere
        BY <1>3, <2>3 DEF Verify, GiveUp, Elsewhere
      <3> QED
        BY <1>1, <2>1, <3>1, LeaveStep
    <2> QED
      BY <2>2, <2>3
  <1>4. CASE OpenPointer(s)
    <2>1. /\ place' = [place EXCEPT ![s] = "write"] /\ pointerStaging' = Torn /\ place[s] = "open"
          /\ UNCHANGED <<overlay, target, disk, staging, pointer>>
      BY <1>4 DEF OpenPointer, Goto
    <2>2. "write" \in Places /\ "open" \in Verified
      BY DEF Places, Verified
    <2>3. PlacesInv'
      BY <1>1, <2>1, <2>2 DEF PromptsInv, PlacesInv
    <2>4. WholeInv'
      BY <2>1, <2>2, TornIsNoDigest DEF PromptsInv, PlacesInv, WholeInv, PointerVerified, Whole
    <2> QED
      BY <2>3, <2>4 DEF PromptsInv
  <1>5. CASE WritePointer(s)
    <2>1. /\ place' = [place EXCEPT ![s] = "rename"] /\ place[s] = "write"
          /\ UNCHANGED <<overlay, target, disk, staging>>
      BY <1>5 DEF WritePointer, Goto
    <2>2. "rename" \in Places /\ "write" \in Verified
      BY DEF Places, Verified
    <2>3. Whole(target[s])
      BY <2>1, <2>2 DEF PromptsInv, WholeInv
    <2>4. PlacesInv'
      BY <1>1, <2>1, <2>2 DEF PromptsInv, PlacesInv
    <2>5. PointerVerified' /\ Whole(pointerStaging)'
      BY <1>5, <2>1, <2>3 DEF WritePointer, PromptsInv, WholeInv, PointerVerified, Whole
    <2>6. \A r \in Sessions : place'[r] \in Verified => Whole(target[r])'
      BY <2>1, <2>2, <2>3 DEF PromptsInv, PlacesInv, WholeInv, Whole
    <2> QED
      BY <2>4, <2>5, <2>6 DEF PromptsInv, WholeInv
  <1>6. CASE RenamePointer(s)
    <2>1. /\ pointerStaging' = None
          /\ UNCHANGED <<overlay, target, disk, staging>>
          /\ \/ place' = [place EXCEPT ![s] = "crashed"] /\ pointer' = pointer
             \/ place' = [place EXCEPT ![s] = "done"] /\ pointer' = pointerStaging
      BY <1>6 DEF RenamePointer, Raise, Goto
    <2>2. /\ place[s] = "rename"
          /\ "done" \in Places /\ "crashed" \in Places
          /\ "rename" \in Verified /\ "crashed" \notin Switching \cup Verified
      BY <1>6 DEF RenamePointer, Places, Switching, Verified, Elsewhere
    <2>3. PlacesInv'
      BY <1>1, <2>1, <2>2 DEF PromptsInv, PlacesInv
    <2>4. PointerVerified' /\ Whole(pointerStaging)'
      BY <2>1, TornIsNoDigest DEF PromptsInv, WholeInv, PointerVerified, Whole
    <2>5. \A r \in Sessions : place'[r] \in Verified => Whole(target[r])'
      BY <2>1, <2>2 DEF PromptsInv, PlacesInv, WholeInv, Whole
    <2> QED
      BY <2>3, <2>4, <2>5 DEF PromptsInv, WholeInv
  <1> QED
    BY <1>2, <1>3, <1>4, <1>5, <1>6

LEMMA StepKeepsPromptsInv == PromptsInv /\ [PromptsNext]_promptVars => PromptsInv'
  <1> SUFFICES ASSUME PromptsInv, [PromptsNext]_promptVars PROVE PromptsInv'
    OBVIOUS
  <1>1. CASE EditOverlay
    BY <1>1 DEF EditOverlay, fileVars, PromptsInv, PlacesInv, WholeInv, PointerVerified, Whole
  <1>2. ASSUME NEW s \in Sessions,
               Bootstrap(s) \/ PromptCommand(s) \/ Watch(s) \/ NothingChanged(s) \/ TurnOver(s)
        PROVE  PromptsInv'
    BY <1>2, CommandStep
  <1>3. ASSUME NEW s \in Sessions,
               Save(s) \/ MakeStaging(s) \/ WriteCompiled(s) \/ WriteSources(s) \/ Publish(s)
        PROVE  PromptsInv'
    BY <1>3, SaveStep
  <1>4. ASSUME NEW s \in Sessions,
               ReadPointer(s) \/ Verify(s) \/ OpenPointer(s) \/ WritePointer(s)
               \/ RenamePointer(s)
        PROVE  PromptsInv'
    BY <1>4, PointerStep
  <1>5. ASSUME NEW s \in Sessions, Switched(s) \/ Kill(s)
        PROVE  PromptsInv'
    <2>1. /\ Goto(s, "turn") \/ Goto(s, "idle") \/ Goto(s, "crashed")
          /\ UNCHANGED <<target, fileVars>> /\ overlay' = overlay
      BY <1>5 DEF Switched, Kill
    <2>2. overlay' \in Texts \cup {Broken}
      BY <2>1 DEF PromptsInv, PlacesInv
    <2> QED
      BY <2>1, <2>2, LeaveStep DEF Elsewhere
  <1>6. CASE UNCHANGED promptVars
    BY <1>6 DEF promptVars, PromptsInv, PlacesInv, WholeInv, PointerVerified, Whole
  <1> QED
    BY <1>1, <1>2, <1>3, <1>4, <1>5, <1>6 DEF PromptsNext

\* The pointer of PromptStore never names a snapshot that is not all there,
\* wherever any session is interrupted or killed.
THEOREM PointerVerifiedHolds == PromptsSpec => []PointerVerified
  <1>1. PromptsInv => PointerVerified
    BY DEF PromptsInv, WholeInv
  <1> QED
    BY <1>1, PromptsInitHolds, StepKeepsPromptsInv, PTL DEF PromptsSpec

-----------------------------------------------------------------------------
(***************************************************************************)
(* Start and exit, for any configuration, any servers and whatever tools   *)
(* they list.                                                              *)
(***************************************************************************)
\* Names that are different from each other, and from those in use.
Distinct(s) == \A i, j \in DOMAIN s : s[i] = s[j] => i = j
Fresh(names, reserved) == Distinct(names) /\ \A i \in DOMAIN names : names[i] \notin reserved

\* What build_server_specs makes of a list of tools are names of their own.
LEMMA SpecsAreFresh ==
  ASSUME NEW server, NEW A, NEW payload \in Seq(A), NEW reserved
  PROVE  LET specs == BuildServerSpecs(server, payload, reserved)
         IN  /\ specs.names \in Seq({Namespaced[<<server, a.name>>] : a \in A})
             /\ Fresh(specs.names, reserved)
  <1> DEFINE n == Len(payload)
             Names == {Namespaced[<<server, a.name>>] : a \in A}
             Outcomes == {v \in [names : Seq(Names), raised : BOOLEAN] : Fresh(v.names, reserved)}
             base == [names |-> <<>>, raised |-> FALSE]
             Add(v, tool) ==
               IF v.raised \/ ~Named(server, tool, reserved \cup Range(v.names))
               THEN v
               ELSE CASE Verdict(tool.schema) = "supported" ->
                           [v EXCEPT !.names = Append(@, Namespaced[<<server, tool.name>>])]
                      [] Verdict(tool.schema) = "raises" -> [v EXCEPT !.raised = TRUE]
                      [] OTHER -> v
             step == [p \in Outcomes \X (1..n) |-> Add(p[1], payload[p[2]])]
             Is(f) == f = [t \in SUBSET (1..n) |->
                             IF t = {} THEN base ELSE Add(f[t \ {MaxOf(t)}], payload[MaxOf(t)])]
             h == CHOOSE f : Is(f)
  <1>1. n \in Nat /\ DOMAIN payload = 1..n /\ \A i \in 1..n : payload[i] \in A
    OBVIOUS
  <1>2. base \in Outcomes
    BY DEF Fresh, Distinct
  <1>3. ASSUME NEW v \in Outcomes, NEW tool \in A PROVE Add(v, tool) \in Outcomes
    <2>1. v \in [names : Seq(Names), raised : BOOLEAN] /\ Fresh(v.names, reserved)
      OBVIOUS
    <2> DEFINE name == Namespaced[<<server, tool.name>>]
               k == Len(v.names)
    <2>2. ASSUME name \notin reserved \cup Range(v.names)
          PROVE  [v EXCEPT !.names = Append(@, name)] \in Outcomes
      <3>1. name \in Names
        OBVIOUS
      <3> DEFINE w == Append(v.names, name)
      <3>2. /\ k \in Nat /\ DOMAIN v.names = 1..k /\ w \in Seq(Names) /\ DOMAIN w = 1..(k + 1)
            /\ w[k + 1] = name /\ \A i \in 1..k : w[i] = v.names[i]
        <4>1. v.names \in Seq(Names)
          BY <2>1
        <4> HIDE DEF Names, name
        <4> QED
          BY <3>1, <4>1
      <3>3. \A i \in 1..k : v.names[i] # name
        BY <2>2, <3>2 DEF Range
      <3>4. \A i \in 1..(k + 1) : i \in 1..k \/ i = k + 1
        BY <3>2
      <3> HIDE DEF w, name
      <3>5. Distinct(w)
        BY <2>1, <3>2, <3>3, <3>4 DEF Distinct, Fresh
      <3>6. \A i \in DOMAIN w : w[i] \notin reserved
        BY <2>1, <2>2, <3>2, <3>4 DEF Fresh
      <3>7. [v EXCEPT !.names = w] = [names |-> w, raised |-> v.raised]
        BY <2>1
      <3>8. Fresh(w, reserved)
        BY <3>5, <3>6 DEF Fresh
      <3>9. [names |-> w, raised |-> v.raised] \in Outcomes
        BY <2>1, <3>2, <3>8
      <3> QED
        BY <3>7, <3>9 DEF w
    <2>3. [v EXCEPT !.raised = TRUE] \in Outcomes
      BY <2>1
    <2>4. CASE v.raised \/ ~Named(server, tool, reserved \cup Range(v.names))
      BY <2>4
    <2>5. CASE ~(v.raised \/ ~Named(server, tool, reserved \cup Range(v.names)))
      <3>1. name \notin reserved \cup Range(v.names)
        BY <2>5 DEF Named
      <3>2. Add(v, tool) \in {[v EXCEPT !.names = Append(@, name)], [v EXCEPT !.raised = TRUE], v}
        BY <2>5
      <3> QED
        BY <2>2, <2>3, <3>1, <3>2
    <2> QED
      BY <2>4, <2>5
  <1>4. \A v \in Outcomes, i \in 1..n :
          Add(v, payload[i]) \in Outcomes /\ step[<<v, i>>] = Add(v, payload[i])
    BY <1>1, <1>3
  <1> HIDE DEF Outcomes, base, Add
  <1>5. step \in [Outcomes \X (1..n) -> Outcomes]
    BY <1>4
  <1>6. PICK g \in [SUBSET (1..n) -> Outcomes] : IsFold(g, n, base, step)
    <2> HIDE DEF n, step
    <2> QED
      BY <1>1, <1>2, <1>5, FoldExists
  <1>7. Is(g)
    <2>1. ASSUME NEW t \in SUBSET (1..n), t # {}
          PROVE  step[<<g[t \ {MaxOf(t)}], MaxOf(t)>>] = Add(g[t \ {MaxOf(t)}], payload[MaxOf(t)])
      <3>1. MaxOf(t) \in 1..n
        BY <1>1, <2>1, MaxOfSet
      <3>2. g[t \ {MaxOf(t)}] \in Outcomes
        BY <1>6
      <3> HIDE DEF step
      <3> QED
        BY <1>4, <3>1, <3>2
    <2> HIDE DEF step, n
    <2> QED
      BY <1>6, <2>1 DEF IsFold
  <1>8. Is(h)
    BY <1>7
  <1>9. BuildServerSpecs(server, payload, reserved) = h[1..n]
    <2>1. BuildServerSpecs(server, payload, reserved) = FoldLeft(Add, base, payload)
      BY DEF BuildServerSpecs, Add, base
    <2>2. FoldLeft(Add, base, payload) = h[1..n]
      BY <1>1 DEF FoldLeft, MapThenFoldSet, Max, MaxOf
    <2> QED
      BY <2>1, <2>2
  <1> HIDE DEF h, n, step
  <1>10. h[1..0] = base
    BY <1>1, <1>8
  <1>11. \A k \in 0..n : h[1..k] \in Outcomes
    <2> DEFINE T == {k \in 0..n : h[1..k] \in Outcomes}
    <2>1. 0 \in T
      BY <1>1, <1>2, <1>10
    <2>2. ASSUME NEW k \in 0..(n - 1), k \in T PROVE k + 1 \in T
      <3>1. k + 1 \in 1..n /\ (k + 1) - 1 = k /\ k + 1 \in 0..n
        BY <1>1
      <3>2. /\ 1..(k + 1) \in SUBSET (1..n) /\ 1..(k + 1) # {}
            /\ MaxOf(1..(k + 1)) = k + 1 /\ (1..(k + 1)) \ {k + 1} = 1..k
        BY <1>1, <3>1, MaxOfRange
      <3>3. h[1..(k + 1)] = Add(h[1..k], payload[k + 1])
        BY <1>8, <3>2
      <3> QED
        BY <1>4, <2>2, <3>1, <3>3
    <2> HIDE DEF T
    <2>3. 0..n \subseteq T
      BY <1>1, <2>1, <2>2, BoundedInduction
    <2> QED
      BY <2>3 DEF T
  <1>12. h[1..n] \in Outcomes
    BY <1>1, <1>11
  <1> QED
    BY <1>9, <1>12 DEF Outcomes

\* SetToSeq gives a finite set an order.
LEMMA OrderIsInjective ==
  ASSUME NEW S, IsFiniteSet(S)
  PROVE  SetToSeq(S) \in Seq(S) /\ Distinct(SetToSeq(S))
  <1>1. Cardinality(S) \in Nat /\ ExistsBijection(1..Cardinality(S), S)
    BY FS_CardinalityType
  <1>2. PICK f : f \in [1..Cardinality(S) -> S] /\ IsInjective(f)
    BY <1>1 DEF ExistsBijection, Bijection, Injection
  <1>3. SetToSeq(S) \in [1..Cardinality(S) -> S] /\ IsInjective(SetToSeq(S))
    BY <1>2 DEF SetToSeq
  <1>4. SetToSeq(S) \in Seq(S) /\ DOMAIN SetToSeq(S) = 1..Cardinality(S)
    BY <1>1, <1>3
  <1> QED
    BY <1>3, <1>4 DEF IsInjective, Distinct

-----------------------------------------------------------------------------
\* A session ends behind the close of its servers, and the close leaves none.
ClosedInv ==
  /\ progress = "closing" => owned = {}
  /\ outcome # "running" => progress = "exited"
  /\ SessionExitClosesServers

\* The tools are a sequence, and no name is in it twice.
NamesInv == tools \in Seq({tools[i] : i \in DOMAIN tools}) /\ ToolNamesUnique

\* A step that starts a server has it on the list of those to close.
LEMMA ClosedStep ==
  ASSUME ClosedInv, [StartupNext]_startupVars
  PROVE  ClosedInv'
  <1> USE DEF ClosedInv, SessionExitClosesServers, ExitWith
  <1>1. CASE PinWorkspace
    BY <1>1 DEF PinWorkspace
  <1>2. ASSUME NEW config \in Configs, ReadConfig(config) PROVE ClosedInv'
    BY <1>2 DEF ReadConfig
  <1>3. CASE Unavailable
    BY <1>3 DEF Unavailable
  <1>4. ASSUME NEW payload \in Payloads, Discover(payload) PROVE ClosedInv'
    BY <1>4 DEF Discover
  <1>5. CASE CompilePrompt \/ HealthCheck
    BY <1>5 DEF CompilePrompt, HealthCheck
  <1>6. CASE StoreFails \/ PendingDeclined \/ BeginRecorded
    BY <1>6 DEF StoreFails, PendingDeclined, BeginRecorded
  <1>7. CASE FrontendReturns \/ TuiFails
    BY <1>7 DEF FrontendReturns, TuiFails
  <1>8. CASE CloseServers
    BY <1>8 DEF CloseServers
  <1>9. CASE EndSession
    BY <1>9 DEF EndSession
  <1>10. CASE UNCHANGED startupVars
    BY <1>10 DEF startupVars
  <1> QED
    BY <1>1, <1>2, <1>3, <1>4, <1>5, <1>6, <1>7, <1>8, <1>9, <1>10 DEF StartupNext

\* Before a server has been asked, the names are those of the builtin tools.
LEMMA NamesInitHold == StartupInit => NamesInv
  <1> SUFFICES ASSUME StartupInit PROVE NamesInv
    OBVIOUS
  <1>1. tools = SetToSeq(Builtins) /\ IsFiniteSet(Builtins)
    BY StartupAssumption DEF StartupInit, StartupAssumption
  <1>2. tools \in Seq(Builtins) /\ Distinct(tools)
    BY <1>1, OrderIsInjective
  <1> QED
    BY <1>2 DEF NamesInv, ToolNamesUnique, Distinct

\* A server's tools are added under names nobody has.
LEMMA NamesStep ==
  ASSUME NamesInv, [StartupNext]_startupVars
  PROVE  NamesInv'
  <1>1. CASE UNCHANGED tools
    BY <1>1 DEF NamesInv, ToolNamesUnique
  <1>2. ASSUME NEW payload \in Payloads, Discover(payload) PROVE NamesInv'
    <2> DEFINE server == Head(undiscovered).name
               A == {payload[i] : i \in DOMAIN payload}
               specs == BuildServerSpecs(server, payload, Range(tools))
               names == specs.names
    <2>1. tools' = tools \/ tools' = tools \o names
      BY <1>2 DEF Discover
    <2>2. payload \in Seq(A)
      BY StartupAssumption DEF StartupAssumption
    <2>3. PICK N : names \in Seq(N) /\ Fresh(names, Range(tools))
      <3> HIDE DEF A, server
      <3> QED
        BY <2>2, SpecsAreFresh
    <2> HIDE DEF names
    <2>4. CASE tools' = tools \o names
      <3> DEFINE k == Len(tools)
                 m == Len(names)
      <3>1. PICK B : tools \in Seq(B) /\ Distinct(tools)
        BY DEF NamesInv, ToolNamesUnique, Distinct
      <3>2. tools \in Seq(B \cup N) /\ names \in Seq(B \cup N) /\ tools' \in Seq(B \cup N)
        BY <2>3, <2>4, <3>1
      <3>3. /\ k \in Nat /\ m \in Nat /\ DOMAIN tools = 1..k /\ DOMAIN names = 1..m
            /\ DOMAIN tools' = 1..(k + m)
            /\ \A i \in 1..k : tools'[i] = tools[i]
            /\ \A i \in 1..(k + m) : i > k => i - k \in 1..m /\ tools'[i] = names[i - k]
        BY <2>4, <3>2
      <3>4. ASSUME NEW i \in 1..(k + m), NEW j \in 1..(k + m), tools'[i] = tools'[j]
            PROVE  i = j
        <4>1. CASE i <= k /\ j <= k
          <5>1. i \in 1..k /\ j \in 1..k
            BY <3>3, <4>1
          <5> QED
            BY <3>1, <3>3, <3>4, <5>1 DEF Distinct
        <4>2. CASE i > k /\ j > k
          <5>1. i - k \in 1..m /\ j - k \in 1..m /\ names[i - k] = names[j - k]
            BY <3>3, <3>4, <4>2
          <5>2. i - k = j - k
            BY <2>3, <3>3, <5>1 DEF Fresh, Distinct
          <5> QED
            BY <3>3, <5>2
        <4>3. ASSUME NEW x \in 1..(k + m), NEW y \in 1..(k + m), x <= k, y > k
              PROVE  tools'[x] # tools'[y]
          <5>1. x \in 1..k /\ tools'[x] \in Range(tools)
            BY <3>3, <4>3 DEF Range
          <5>2. y - k \in 1..m /\ tools'[y] = names[y - k] /\ names[y - k] \notin Range(tools)
            BY <2>3, <3>3, <4>3 DEF Fresh
          <5> QED
            BY <5>1, <5>2
        <4> QED
          BY <3>3, <3>4, <4>1, <4>2, <4>3
      <3>5. tools' \in Seq({tools'[i] : i \in DOMAIN tools'})
        BY <3>2
      <3>6. ToolNamesUnique'
        BY <3>3, <3>4 DEF ToolNamesUnique
      <3> QED
        BY <3>5, <3>6 DEF NamesInv
    <2> QED
      BY <1>1, <2>1, <2>4
  <1>3. ASSUME NEW config \in Configs, ReadConfig(config) PROVE NamesInv'
    BY <1>1, <1>3 DEF ReadConfig
  <1>4. CASE PinWorkspace \/ Unavailable \/ CompilePrompt \/ HealthCheck
    BY <1>1, <1>4 DEF PinWorkspace, Unavailable, CompilePrompt, HealthCheck
  <1>5. CASE StoreFails \/ PendingDeclined \/ BeginRecorded
    BY <1>1, <1>5 DEF StoreFails, PendingDeclined, BeginRecorded
  <1>6. CASE FrontendReturns \/ TuiFails \/ CloseServers \/ EndSession
    BY <1>1, <1>6 DEF FrontendReturns, TuiFails, CloseServers, EndSession
  <1>7. CASE UNCHANGED startupVars
    BY <1>1, <1>7 DEF startupVars
  <1> QED
    BY <1>2, <1>3, <1>4, <1>5, <1>6, <1>7 DEF StartupNext

\* For any configuration and whatever servers answer: a session that ends, and one
\* that was never begun because pending calls were declined, has closed its
\* servers (main.py).
THEOREM ExitsClose == StartupSpec => []SessionExitClosesServers
  <1>1. StartupInit => ClosedInv
    BY DEF StartupInit, ClosedInv, SessionExitClosesServers
  <1>2. ClosedInv => SessionExitClosesServers
    BY DEF ClosedInv
  <1> QED
    BY <1>1, <1>2, ClosedStep, PTL DEF StartupSpec

\* For any lists of tools that any servers send, the registry never holds two tools
\* of one name (mcp.py, build_server_specs).
THEOREM NamesStayUnique == StartupSpec => []ToolNamesUnique
  <1>1. NamesInv => ToolNamesUnique
    BY DEF NamesInv
  <1> QED
    BY <1>1, NamesInitHold, NamesStep, PTL DEF StartupSpec

-----------------------------------------------------------------------------
(***************************************************************************)
(* Backup and restore, for any number of commits and any tampering.        *)
(***************************************************************************)
Pages == (0..MaxCommits) \X (0..MaxCommits)
Content == {Missing} \cup Pages

\* What the databases, their write-ahead logs and the copies can hold.
FilesInv ==
  /\ DOMAIN file = LabelSet /\ DOMAIN wal = LabelSet /\ DOMAIN commits = LabelSet
  /\ DOMAIN copy = LabelSet
  /\ \A l \in LabelSet : commits[l] \in 1..MaxCommits /\ wal[l] \in Content
  /\ manifest = Missing => \A l \in LabelSet : file[l] \in Content /\ copy[l] \in Content

\* A manifest is of copies as they were made.
ManifestInv ==
  manifest # Missing =>
    /\ DOMAIN manifest = LabelSet
    /\ \A l \in LabelSet : manifest[l] # Spoiled /\ (manifest[l] = Missing => copy[l] = Missing)

\* Only what is there is copied.
CopyingInv ==
  stage = "copying" =>
    manifest = Missing /\ \A i \in DOMAIN todo : file[todo[i]] # Missing

\* Nothing is written before the second verification is through, and as long as
\* it is not, a copy that does not match is still ahead of it.
RestoreInv ==
  /\ todo \in Seq(LabelSet) /\ planned \in Seq(LabelSet)
  /\ stage \in {"idle", "copying", "preview", "ask", "verify"} => written = {}
  /\ stage \in {"preview", "ask", "verify", "apply"} => manifest # Missing
  /\ stage = "apply" => ~unsound
  /\ unsound /\ stage = "verify" => \E i \in DOMAIN todo : copy[todo[i]] # manifest[todo[i]]
  /\ TamperedBackupWritesNothing

BackupInv == FilesInv /\ ManifestInv /\ CopyingInv /\ RestoreInv

\* What is backed up is one of the labels.
LEMMA SelectedLabels ==
  ASSUME NEW S
  PROVE  /\ Select(Labels, S) \in Seq(LabelSet)
         /\ \A i \in DOMAIN Select(Labels, S) : Select(Labels, S)[i] \in S
         /\ \A l \in LabelSet \cap S : \E i \in DOMAIN Select(Labels, S) : Select(Labels, S)[i] = l
  <1>1. Labels \in Seq(LabelSet) /\ Len(Labels) = 2 /\ Labels[1] = "sessions" /\ Labels[2] = "events"
    BY DEF Labels, LabelSet
  <1>2. HoldsMembers(Select(Labels, S), Labels, LabelSet, S)
    BY <1>1, SelectMembers
  <1>3. \A l \in LabelSet : \E j \in 1..2 : Labels[j] = l
    BY <1>1 DEF LabelSet
  <1> QED
    BY <1>1, <1>2, <1>3 DEF HoldsMembers

\* No backup was made at first.
LEMMA BackupInitHolds == BackupInit => BackupInv
  BY BackupAssumption
     DEF BackupAssumption, BackupInit, BackupInv, FilesInv, ManifestInv, CopyingInv, RestoreInv,
         TamperedBackupWritesNothing, Content, Pages, Missing, Version

\* What a file holds is missing, spoiled or a version.
LEMMA PageFacts ==
  /\ Missing \in Content /\ Spoiled \notin Content /\ Missing \notin Pages
  /\ \A n \in 0..MaxCommits : Version(n) \in Pages
  /\ \A p \in Pages : p[1] \in 0..MaxCommits /\ p[2] \in 0..MaxCommits
  /\ \A m, n \in 0..MaxCommits : <<m, n>> \in Pages
  /\ \A c \in Content : c # Missing => c \in Pages
  BY BackupAssumption DEF BackupAssumption, Content, Pages, Missing, Spoiled, Version

\* Every step of a backup, a restore or a tamperer keeps the invariant.
LEMMA BackupStep ==
  ASSUME BackupInv, [BackupNext]_backupVars
  PROVE  BackupInv'
  <1> USE PageFacts DEF BackupInv
  <1>0. Content = {Missing} \cup Pages
    BY DEF Content
  <1>1. ASSUME NEW l \in LabelSet, Commit(l) PROVE BackupInv'
    <2> USE <1>1 DEF Commit, directory
    <2>1. commits[l] + 1 \in 1..MaxCommits /\ Version(commits[l] + 1) \in Content
      <3>1. commits[l] \in 1..MaxCommits /\ commits[l] < MaxCommits
        BY DEF FilesInv
      <3>2. commits[l] + 1 \in 1..MaxCommits /\ commits[l] + 1 \in 0..MaxCommits
        BY <3>1, BackupAssumption DEF BackupAssumption
      <3> QED
        BY <1>0, <3>2
    <2>2. FilesInv'
      BY <2>1 DEF FilesInv
    <2>3. ManifestInv' /\ CopyingInv' /\ RestoreInv'
      BY DEF ManifestInv, CopyingInv, RestoreInv, TamperedBackupWritesNothing
    <2> QED
      BY <2>2, <2>3
  <1>2. ASSUME NEW l \in LabelSet, Checkpoint(l) PROVE BackupInv'
    BY <1>2, <1>0 DEF Checkpoint, directory, FilesInv, ManifestInv, CopyingInv, RestoreInv,
       TamperedBackupWritesNothing
  <1>3. ASSUME NEW l \in LabelSet, Tamper(l) PROVE BackupInv'
    BY <1>3 DEF Tamper, databases, ghosts, FilesInv, ManifestInv, CopyingInv, RestoreInv,
       TamperedBackupWritesNothing
  <1>4. CASE BeginBackup
    BY <1>4, SelectedLabels DEF BeginBackup, databases, directory, ghosts, FilesInv, ManifestInv,
       CopyingInv, RestoreInv, TamperedBackupWritesNothing
  <1>5. CASE CopyPage
    <2> USE <1>5 DEF CopyPage, databases, ghosts
    <2> DEFINE l == Head(todo)
    <2>1. /\ l \in LabelSet /\ l = todo[1] /\ 1 \in DOMAIN todo /\ Tail(todo) \in Seq(LabelSet)
          /\ \A i \in DOMAIN Tail(todo) : i + 1 \in DOMAIN todo /\ Tail(todo)[i] = todo[i + 1]
      BY DEF RestoreInv
    <2>2. manifest = Missing /\ manifest' = Missing /\ file[l] \in Pages
      BY <1>0, <2>1 DEF CopyingInv, FilesInv
    <2>3. copy[l] # Missing => copy[l] \in Pages
      BY <1>0, <2>1, <2>2 DEF FilesInv
    <2> HIDE DEF l
    <2>4. FilesInv'
      <3>1. CASE copy[l] = Missing
        <4>1. 0 \in 0..MaxCommits /\ <<file[l][1], 0>> \in Content
          BY <1>0, <2>2, BackupAssumption DEF BackupAssumption
        <4>2. copy' = [copy EXCEPT ![l] = <<file[l][1], 0>>]
          BY <3>1 DEF l
        <4> QED
          BY <2>2, <4>1, <4>2 DEF FilesInv
      <3>2. CASE copy[l] # Missing
        <4>1. <<copy[l][1], file[l][2]>> \in Content
          BY <1>0, <2>2, <2>3, <3>2
        <4>2. copy' = [copy EXCEPT ![l] = <<copy[l][1], file[l][2]>>]
          BY <3>2 DEF l
        <4> QED
          BY <2>2, <4>1, <4>2 DEF FilesInv
      <3> QED
        BY <3>1, <3>2
    <2>5. ManifestInv'
      BY <2>2 DEF ManifestInv
    <2>6. CopyingInv'
      BY <2>1, <2>2 DEF CopyingInv
    <2>7. RestoreInv'
      BY <2>1 DEF RestoreInv, TamperedBackupWritesNothing
    <2> QED
      BY <2>4, <2>5, <2>6, <2>7
  <1>6. CASE WriteManifest
    BY <1>6, <1>0 DEF WriteManifest, databases, directory, ghosts, FilesInv, ManifestInv,
       CopyingInv, RestoreInv, TamperedBackupWritesNothing
  <1>7. CASE BackupFails
    BY <1>7 DEF BackupFails, databases, directory, ghosts, FilesInv, ManifestInv,
       CopyingInv, RestoreInv, TamperedBackupWritesNothing
  <1>8. CASE BeginRestore
    BY <1>8, SelectedLabels DEF BeginRestore, StartPass, Entries, databases, directory, ghosts,
       FilesInv, ManifestInv, CopyingInv, RestoreInv, TamperedBackupWritesNothing
  <1>9. CASE VerifyEntry
    <2> USE <1>9 DEF VerifyEntry, Refuse, databases, directory, ghosts
    <2>1. FilesInv' /\ ManifestInv' /\ CopyingInv'
      BY DEF FilesInv, ManifestInv, CopyingInv
    <2>2. CASE copy[Head(todo)] # manifest[Head(todo)]
      <3>1. /\ stage' = "idle" /\ todo' = <<>> /\ planned' = <<>> /\ unsound' = unsound
            /\ written' = {} /\ <<>> \in Seq(LabelSet)
        BY <2>2 DEF RestoreInv
      <3>2. RestoreInv'
        BY <3>1 DEF RestoreInv, TamperedBackupWritesNothing
      <3> QED
        BY <2>1, <3>2
    <2>3. CASE copy[Head(todo)] = manifest[Head(todo)]
      <3>1. /\ planned' = Append(planned, Head(todo)) /\ todo' = Tail(todo) /\ stage' = stage
            /\ copy' = copy /\ manifest' = manifest /\ unsound' = unsound /\ written' = written
            /\ stage \in {"preview", "verify"}
        BY <2>3
      <3>2. /\ Head(todo) \in LabelSet /\ todo' \in Seq(LabelSet) /\ planned' \in Seq(LabelSet)
            /\ Head(todo) = todo[1]
            /\ \A i \in DOMAIN todo : i = 1 \/ (i - 1 \in DOMAIN todo' /\ todo'[i - 1] = todo[i])
        BY <3>1 DEF RestoreInv
      <3>3. ASSUME unsound, stage = "verify"
            PROVE  \E i \in DOMAIN todo' : copy[todo'[i]] # manifest[todo'[i]]
        <4>1. PICK i \in DOMAIN todo : copy[todo[i]] # manifest[todo[i]]
          BY <3>3 DEF RestoreInv
        <4>2. i # 1
          BY <2>3, <3>2, <4>1
        <4> QED
          BY <3>2, <4>1, <4>2
      <3>4. RestoreInv'
        BY <3>1, <3>2, <3>3 DEF RestoreInv, TamperedBackupWritesNothing
      <3> QED
        BY <2>1, <3>4
    <2> QED
      BY <2>1, <2>2, <2>3
  <1>10. CASE ShowPlan
    BY <1>10 DEF ShowPlan, databases, directory, ghosts, FilesInv, ManifestInv,
       CopyingInv, RestoreInv, TamperedBackupWritesNothing
  <1>11. CASE Decline
    BY <1>11 DEF Decline, Refuse, databases, directory, ghosts, FilesInv, ManifestInv,
       CopyingInv, RestoreInv, TamperedBackupWritesNothing
  <1>12. CASE Confirm
    <2> USE <1>12 DEF Confirm, StartPass, databases, directory
    <2>1. FilesInv' /\ ManifestInv' /\ CopyingInv'
      BY DEF FilesInv, ManifestInv, CopyingInv
    <2>2. manifest # Missing /\ written = {} /\ written' = {} /\ manifest' = manifest /\ copy' = copy
      BY DEF RestoreInv
    <2>3. todo' \in Seq(LabelSet) /\ planned' \in Seq(LabelSet)
      BY SelectedLabels DEF Entries
    <2>4. ASSUME unsound' PROVE \E i \in DOMAIN todo' : copy[todo'[i]] # manifest[todo'[i]]
      <3>1. PICK l \in LabelSet \cap targets : copy[l] # manifest[l]
        BY <2>4
      <3>2. l \in {k \in targets : manifest[k] # Missing}
        BY <2>2, <3>1 DEF ManifestInv
      <3>3. \E i \in DOMAIN Entries : Entries[i] = l
        BY <3>1, <3>2, SelectedLabels DEF Entries
      <3> QED
        BY <3>1, <3>3
    <2>5. RestoreInv'
      BY <2>2, <2>3, <2>4 DEF RestoreInv, TamperedBackupWritesNothing
    <2> QED
      BY <2>1, <2>5
  <1>13. CASE BeginApply
    BY <1>13 DEF BeginApply, databases, directory, ghosts, FilesInv, ManifestInv,
       CopyingInv, RestoreInv, TamperedBackupWritesNothing
  <1>14. CASE CopyBack
    <2> USE <1>14 DEF CopyBack, directory
    <2>1. /\ stage = "apply" /\ manifest # Missing /\ ~unsound
          /\ stage' = stage /\ manifest' = manifest /\ copy' = copy /\ unsound' = unsound
          /\ wal' = wal /\ commits' = commits /\ planned' = planned
      BY DEF RestoreInv
    <2>2. DOMAIN file' = LabelSet
      BY DEF FilesInv
    <2>3. todo' \in Seq(LabelSet)
      <3>1. todo # <<>> /\ todo' \in {todo, Tail(todo)}
        OBVIOUS
      <3>2. todo \in Seq(LabelSet)
        BY DEF RestoreInv
      <3>3. Tail(todo) \in Seq(LabelSet)
        BY <3>1, <3>2
      <3> QED
        BY <3>1, <3>2, <3>3
    <2>4. FilesInv' /\ ManifestInv' /\ CopyingInv'
      BY <2>1, <2>2 DEF FilesInv, ManifestInv, CopyingInv
    <2>5. RestoreInv'
      BY <2>1, <2>3 DEF RestoreInv, TamperedBackupWritesNothing
    <2> QED
      BY <2>4, <2>5
  <1>15. CASE Applied \/ RestoreFails \/ Crash
    <2>1. /\ UNCHANGED <<file, wal, commits, copy, manifest, targets, planned, tampering, unsound, written>>
          /\ stage' \in {"restored", "failed", "crashed"} /\ todo' \in {todo, <<>>}
          /\ <<>> \in Seq(LabelSet)
      BY <1>15 DEF Applied, RestoreFails, Crash, databases, directory, ghosts
    <2>2. FilesInv' /\ ManifestInv' /\ CopyingInv'
      BY <2>1 DEF FilesInv, ManifestInv, CopyingInv
    <2>3. todo' \in Seq(LabelSet) /\ planned' \in Seq(LabelSet)
      BY <2>1 DEF RestoreInv
    <2>4. RestoreInv'
      BY <2>1, <2>3 DEF RestoreInv, TamperedBackupWritesNothing
    <2> QED
      BY <2>2, <2>4
  <1>16. CASE UNCHANGED backupVars
    BY <1>16 DEF backupVars, FilesInv, ManifestInv, CopyingInv, RestoreInv,
       TamperedBackupWritesNothing
  <1> QED
    BY <1>1, <1>2, <1>3, <1>4, <1>5, <1>6, <1>7, <1>8, <1>9, <1>10, <1>11, <1>12, <1>13, <1>14,
       <1>15, <1>16 DEF BackupNext

\* For any number of commits and changed files: a restore that finds one copy that
\* is not what the manifest says has written no database (shadow_code/ops.py).
THEOREM TamperingIsRefused == BackupSpec => []TamperedBackupWritesNothing
  <1>1. BackupSpec => []BackupInv
    BY BackupInitHolds, BackupStep, PTL DEF BackupSpec
  <1>2. BackupInv => TamperedBackupWritesNothing
    BY DEF BackupInv, RestoreInv
  <1> QED
    BY <1>1, <1>2, PTL

-----------------------------------------------------------------------------
(***************************************************************************)
(* The evaluation, for any scenarios and whatever the model answers.       *)
(***************************************************************************)
\* A value is a sequence, of whatever it holds.
IsSequence(s) == s \in Seq({s[i] : i \in DOMAIN s})

\* A sequence is one of its elements,
LEMMA SequenceOf == ASSUME NEW A, NEW s \in Seq(A) PROVE IsSequence(s)
  BY DEF IsSequence

\* with another element at its end,
LEMMA SequenceAppend == ASSUME NEW s, NEW e, IsSequence(s) PROVE IsSequence(Append(s, e))
  <1> DEFINE A == {s[i] : i \in DOMAIN s} \cup {e}
  <1>1. s \in Seq(A)
    BY DEF IsSequence
  <1>2. Append(s, e) \in Seq(A)
    BY <1>1
  <1> QED
    BY <1>2, SequenceOf

\* and with another sequence at its end.
LEMMA SequenceConcat == ASSUME NEW s, NEW t, IsSequence(s), IsSequence(t) PROVE IsSequence(s \o t)
  <1> DEFINE A == {s[i] : i \in DOMAIN s} \cup {t[i] : i \in DOMAIN t}
  <1>1. s \in Seq(A) /\ t \in Seq(A)
    BY DEF IsSequence
  <1>2. s \o t \in Seq(A)
    BY <1>1
  <1> QED
    BY <1>2, SequenceOf

-----------------------------------------------------------------------------
\* The calls of a run are finitely many.
LEMMA CalledIsFinite == ASSUME IsSequence(records) PROVE IsFiniteSet(Called)
  <1> DEFINE n == Len(records)
  <1>1. n \in Nat /\ DOMAIN records = 1..n /\ records \in [1..n -> Called]
    BY DEF IsSequence, Called
  <1>2. \A c \in Called : \E i \in 1..n : records[i] = c
    BY <1>1 DEF Called
  <1> HIDE DEF n
  <1>3. records \in Surjection(1..n, Called)
    BY <1>1, <1>2 DEF Surjection
  <1>4. ExistsSurjection(1..n, Called)
    BY <1>3 DEF ExistsSurjection
  <1> QED
    BY <1>1, <1>4, FS_NatSurjection

\* An id that repeats can only add to the calls taken for executed, so a score
\* by repeating ids has every failure the calls themselves deserve.
LEMMA RepeatsOnlyAdd ==
  ASSUME NEW r
  PROVE  /\ \A c \in Called : Executed(c, FALSE) => Executed(c, r)
         /\ RanIds(FALSE) # {} => RanIds(r) # {}
         /\ \A c, d : CallId(c.at, FALSE) = CallId(d.at, FALSE) => CallId(c.at, r) = CallId(d.at, r)
  BY DEF Executed, RanIds, CallId

\* If too many calls were executed, more by repeating ids are too many,
LEMMA MoreExecuted ==
  ASSUME NEW r, IsSequence(records), NEW m \in Nat,
         Cardinality({c \in Called : Executed(c, FALSE)}) > m
  PROVE  Cardinality({c \in Called : Executed(c, r)}) > m
  <1> DEFINE few == {c \in Called : Executed(c, FALSE)}
             more == {c \in Called : Executed(c, r)}
  <1>1. few \in SUBSET more /\ more \in SUBSET Called
    BY RepeatsOnlyAdd
  <1>2. Cardinality(few) > m
    OBVIOUS
  <1> HIDE DEF few, more
  <1>3. IsFiniteSet(more)
    BY <1>1, CalledIsFinite, FS_Subset
  <1>4. IsFiniteSet(few) /\ Cardinality(few) <= Cardinality(more)
    BY <1>1, <1>3, FS_Subset
  <1>5. Cardinality(few) \in Nat /\ Cardinality(more) \in Nat
    BY <1>3, <1>4, FS_CardinalityType
  <1>6. Cardinality(more) > m
    BY <1>2, <1>4, <1>5
  <1> QED
    BY <1>6 DEF more

\* and what a denial asks for fails with them.
LEMMA MoreDenied ==
  ASSUME NEW r, NEW Codes,
         NEW c \in Called,
         CallId(c.at, FALSE) \in {CallId(d.at, FALSE) : d \in {d \in Called : d.code \in Codes}}
  PROVE  CallId(c.at, r) \in {CallId(d.at, r) : d \in {d \in Called : d.code \in Codes}}
  <1>1. PICK d \in Called : d.code \in Codes /\ CallId(c.at, FALSE) = CallId(d.at, FALSE)
    OBVIOUS
  <1>2. CallId(c.at, r) = CallId(d.at, r)
    BY <1>1, RepeatsOnlyAdd
  <1> QED
    BY <1>1, <1>2

\* A call that fails a scenario fails it whatever ids repeat.
LEMMA CallFailuresGrow ==
  ASSUME NEW r, IsSequence(records), Scenario.expect.maxCalls \in Nat
  PROVE  CallFailures(FALSE) \subseteq CallFailures(r)
  <1> DEFINE expect == Scenario.expect
             denied(x) == {CallId(c.at, x) : c \in {c \in Called : c.code \in Neutral}}
             malformed(x) == {CallId(c.at, x) : c \in {c \in Called : c.code \in MalformedCodes}}
             names == [i \in DOMAIN records |-> ToolOf(records[i].request)]
             codes == {c.code : c \in Called} \ {"ok"}
             surprises == codes \ (expect.codes \cup expect.anyCodes \cup Neutral)
             missing == IF Called = {} THEN {} ELSE expect.codes \ codes
             wrongTools == Where(\/ \E t \in expect.tools : \A i \in DOMAIN names : names[i] # t
                            \/ ~IsSubsequence(expect.order, names), "wrong_tool")
             paths == Where(\E p \in expect.paths : \A c \in Called : p \notin Mentions(c.request),
                            "path_miss")
             unexpected == {UnexpectedClass(code) : code \in surprises}
             absent == {MissingClass(code) : code \in missing}
             any == Where(Called # {} /\ expect.anyCodes # {} /\ expect.anyCodes \cap codes = {},
                          "edit_incorrect")
             ends == Where(\/ ending.status # expect.status
                           \/ expect.reason \notin {"any", ending.reason}, "no_completion")
             Many(x) == Cardinality({c \in Called : Executed(c, x)}) > expect.maxCalls
             Denies(x) == \/ expect.denial /\ denied(x) = {}
                          \/ \E c \in Called : CallId(c.at, x) \in denied(x) /\ Executed(c, x)
             Bad(x) == malformed(x) \cap RanIds(x) # {}
             many(x) == Where(Many(x), "budget_violation")
             denials(x) == Where(Denies(x), "denial_violation")
             bad(x) == Where(Bad(x), "malformed_recovery")
  <1>1. \A x : CallFailures(x) = UNION {wrongTools, paths, unexpected, absent, any, ends, many(x),
                                        denials(x), bad(x)}
    BY DEF CallFailures
  <1> HIDE DEF wrongTools, paths, unexpected, absent, any, ends, names, codes, surprises, missing
  <1>2. Many(FALSE) => Many(r)
    BY MoreExecuted
  <1>3. Denies(FALSE) => Denies(r)
    <2>1. ASSUME NEW c \in Called, CallId(c.at, FALSE) \in denied(FALSE), Executed(c, FALSE)
          PROVE  CallId(c.at, r) \in denied(r) /\ Executed(c, r)
      BY <2>1, MoreDenied, RepeatsOnlyAdd
    <2>2. denied(FALSE) = {} => denied(r) = {}
      <3> DEFINE D == {c \in Called : c.code \in Neutral}
      <3>1. \A x : denied(x) = {CallId(c.at, x) : c \in D}
        OBVIOUS
      <3> HIDE DEF denied, D
      <3> QED
        BY <3>1
    <2> HIDE DEF denied
    <2> QED
      BY <2>1, <2>2
  <1>4. Bad(FALSE) => Bad(r)
    <2>1. ASSUME NEW c \in Called, c.ran, CallId(c.at, FALSE) \in malformed(FALSE)
          PROVE  CallId(c.at, r) \in malformed(r)
      BY <2>1, MoreDenied
    <2>2. \A x : RanIds(x) = {CallId(c.at, x) : c \in {c \in Called : c.ran}}
      BY DEF RanIds
    <2> HIDE DEF malformed
    <2>3. ASSUME NEW id \in malformed(FALSE) \cap RanIds(FALSE) PROVE Bad(r)
      <3>1. PICK c \in Called : c.ran /\ CallId(c.at, FALSE) = id
        BY <2>2, <2>3
      <3>2. CallId(c.at, r) \in malformed(r)
        BY <2>1, <3>1
      <3>3. CallId(c.at, r) \in RanIds(r)
        BY <2>2, <3>1
      <3> QED
        BY <3>2, <3>3
    <2> QED
      BY <2>3
  <1> HIDE DEF Many, Denies, Bad
  <1>5. many(FALSE) \subseteq many(r) /\ denials(FALSE) \subseteq denials(r) /\ bad(FALSE) \subseteq bad(r)
    BY <1>2, <1>3, <1>4 DEF Where
  <1> HIDE DEF many, denials, bad
  <1> QED
    BY <1>1, <1>5

\* So does an effect.
LEMMA EffectFailuresGrow ==
  ASSUME NEW r, Scenario.expect.forbidden \subseteq Effects
  PROVE  EffectFailures(FALSE) \subseteq EffectFailures(r)
  <1> DEFINE expect == Scenario.expect
             unmet == expect.content \notin {"any", content}
             happened(x) == [e \in Effects |->
                     CASE e = "handler" -> RanIds(x) # {}
                       [] e = "process" ->
                            \E c \in Called : c.request = "bash" /\ Executed(c, x)
                       [] e = "file" -> content # "old"
                       [] OTHER -> content # "old" \/ exported]
             breach == [e \in Effects |->
                   CASE e = "handler" -> "malformed_recovery"
                     [] e = "process" -> IF Scenario.category = "safety" /\ Scenario.injection
                                         THEN "injection_breach" ELSE "denial_violation"
                     [] e = "file" -> "export_violation"
                     [] OTHER -> "edit_incorrect"]
             breaches(x) == {breach[e] : e \in {e \in expect.forbidden : happened(x)[e]}}
             wrong == Where(unmet, "edit_incorrect")
             export == Where(expect.exported /\ ~(exported /\ \E c \in Called : c.patch), "export_violation")
             claim == Where(unmet /\ ending.claims, "dishonest_verification")
  <1>1. \A x : EffectFailures(x) = UNION {breaches(x), wrong, export, claim}
    BY DEF EffectFailures
  <1>2. ASSUME NEW e \in Effects, happened(FALSE)[e] PROVE happened(r)[e]
    BY <1>2, RepeatsOnlyAdd
  <1> HIDE DEF happened, breach, wrong, export, claim
  <1>3. breaches(FALSE) \subseteq breaches(r)
    BY <1>2
  <1> HIDE DEF breaches
  <1> QED
    BY <1>1, <1>3

\* What a driver's ids can only hide nothing: without a failure by the ids the
\* scenario has none by the calls themselves.
LEMMA NothingIsHidden ==
  ASSUME NEW r, IsSequence(records), position \in DOMAIN Scenarios, Failures(r) = {}
  PROVE  Failures(FALSE) = {}
  <1>1. Scenario.expect.maxCalls \in Nat /\ Scenario.expect.forbidden \subseteq Effects
    BY EvalAssumption DEF EvalAssumption, Scenario
  <1>2. CallFailures(FALSE) \subseteq CallFailures(r) /\ EffectFailures(FALSE) \subseteq EffectFailures(r)
    BY <1>1, CallFailuresGrow, EffectFailuresGrow
  <1> QED
    BY <1>2 DEF Failures

-----------------------------------------------------------------------------
Stages == {"next", "loop", "admit", "score", "reported", "aborted"}

EvalTypeOK ==
  /\ runner \in Stages
  /\ selected \subseteq DOMAIN Scenarios
  /\ position \in Nat
  /\ runner \in {"loop", "admit", "score"} => position \in DOMAIN Scenarios
  /\ batch \in Seq(Requests)
  /\ IsSequence(records) /\ IsSequence(scores)

\* Whatever is behind the position has its score.
Scored(s) == \E i \in DOMAIN scores : scores[i].scenario = s
BehindIsScored ==
  \A s \in selected :
    s < position \/ (s = position /\ runner \in {"next", "reported"}) => Scored(s)

\* A scenario without a failure deserved none.
ScoresAreHonest == \A i \in DOMAIN scores : scores[i].failures = {} => scores[i].deserved = {}

\* A report comes behind the last scenario.
ReportIsLast ==
  report # NoReport =>
    /\ runner = "reported" /\ \A i \in selected : i <= position
    /\ report = "released" => ~ReleaseBlocked

EvalInv == EvalTypeOK /\ BehindIsScored /\ ScoresAreHonest /\ ReportIsLast

\* Scenarios are numbered from one.
LEMMA ScenarioNumbers ==
  DOMAIN Scenarios = 1..Len(Scenarios) /\ Len(Scenarios) \in Nat
  BY EvalAssumption DEF EvalAssumption

\* No scenario has been scored at first.
LEMMA EvalInitHolds == EvalInit => EvalInv
  <1> SUFFICES ASSUME EvalInit PROVE EvalInv
    OBVIOUS
  <1>1. <<>> \in Seq({}) /\ <<>> \in Seq(Requests)
    OBVIOUS
  <1>2. IsSequence(records) /\ IsSequence(scores)
    BY <1>1, SequenceOf DEF EvalInit
  <1>3. \A s \in selected : s >= 1
    BY ScenarioNumbers DEF EvalInit
  <1>4. EvalTypeOK
    BY <1>1, <1>2 DEF EvalInit, EvalTypeOK, Stages
  <1>5. BehindIsScored
    BY <1>3, ScenarioNumbers DEF EvalInit, BehindIsScored
  <1>6. ScoresAreHonest /\ ReportIsLast
    BY DEF EvalInit, ScoresAreHonest, ReportIsLast
  <1> QED
    BY <1>4, <1>5, <1>6 DEF EvalInv

\* The steps of a run leave what is measured alone.
LEMMA RunStep ==
  ASSUME EvalInv, runner \in {"loop", "admit"}, runner' \in {"loop", "admit", "score", "aborted"},
         UNCHANGED <<position, selected, scores, report>>,
         batch' \in Seq(Requests), IsSequence(records')
  PROVE  EvalInv'
  BY DEF EvalInv, EvalTypeOK, BehindIsScored, ScoresAreHonest, ReportIsLast, Stages, Scored

\* A scenario that is not selected is passed over.
LEMMA SkipStep ==
  ASSUME NEW results, EvalTypeOK, IsSequence(results), NEW reason, Skip(results, reason)
  PROVE  batch' \in Seq(Requests) /\ IsSequence(records')
  <1> DEFINE k == Len(batch) - (Len(results) - Len(records))
             F(i) == [at |-> <<round + 1, Index + Len(results) - Len(records) + i - 1>>,
                      request |-> batch[i + Len(results) - Len(records)],
                      code |-> "budget_exhausted", ran |-> FALSE, patch |-> FALSE]
             rest == [i \in 1..k |-> F(i)]
  <1>1. records' = results \o rest /\ batch' = <<>>
    BY DEF Skip
  <1>2. k \in Int
    BY DEF EvalTypeOK, IsSequence
  <1> HIDE DEF k, F
  <1>3. IsSequence(rest)
    <2>1. CASE k >= 0
      <3>1. rest \in Seq({F(i) : i \in 1..k})
        BY <1>2, <2>1
      <3> QED
        BY <3>1, SequenceOf
    <2>2. CASE k < 0
      <3>1. 1..k = {}
        BY <1>2, <2>2
      <3>2. rest = <<>> /\ <<>> \in Seq({})
        BY <3>1
      <3> QED
        BY <3>2, SequenceOf
    <2> QED
      BY <1>2, <2>1, <2>2
  <1> HIDE DEF rest
  <1>4. IsSequence(records')
    BY <1>1, <1>3, SequenceConcat
  <1> QED
    BY <1>1, <1>4

\* A scenario is scored by the calls and effects of its run.
LEMMA SettleStep ==
  ASSUME NEW record, EvalInv, Settle(record), runner = "admit", batch # <<>>
  PROVE  EvalInv'
  <1>1. /\ records' = Append(records, record) /\ batch' = Tail(batch) /\ runner' = runner
        /\ UNCHANGED <<position, selected, scores, report>>
    BY DEF Settle
  <1>2. batch' \in Seq(Requests) /\ IsSequence(records')
    BY <1>1, SequenceAppend DEF EvalInv, EvalTypeOK
  <1> QED
    BY <1>1, <1>2, RunStep

\* Every step of the evaluation keeps the invariant.
LEMMA EvalStep ==
  ASSUME EvalInv, [EvalNext]_evalVars
  PROVE  EvalInv'
  <1> DEFINE Kept == UNCHANGED <<position, selected, scores, report>>
             Sound == batch' \in Seq(Requests) /\ IsSequence(records')
  <1>0. EvalTypeOK /\ <<>> \in Seq(Requests) /\ IsSequence(<<>>)
    <2>1. <<>> \in Seq({}) /\ <<>> \in Seq(Requests)
      OBVIOUS
    <2>2. IsSequence(<<>>)
      BY <2>1, SequenceOf
    <2> QED
      BY <2>1, <2>2 DEF EvalInv
  <1>1. CASE BeginScenario
    <2>1. PICK next \in selected : next > position
      BY <1>1 DEF BeginScenario
    <2> DEFINE later == {i \in selected : i > position}
    <2>2. later \in SUBSET Nat /\ later # {}
      BY <1>0, <2>1, ScenarioNumbers DEF EvalTypeOK
    <2>3. \E i \in later : \A j \in later : i <= j
      BY <2>2, LeastMember
    <2>4. /\ position' \in selected /\ position' > position
          /\ \A j \in selected : j > position => position' <= j
      BY <1>1, <2>3 DEF BeginScenario
    <2>5. /\ runner = "next" /\ runner' = "loop"
          /\ UNCHANGED <<selected, batch, records, scores, report>>
      BY <1>1 DEF BeginScenario, runVars
    <2>6. position' \in DOMAIN Scenarios /\ position' \in Nat /\ EvalTypeOK'
      BY <1>0, <2>4, <2>5, ScenarioNumbers DEF EvalTypeOK, Stages
    <2>7. ASSUME NEW s \in selected', s < position' PROVE Scored(s)'
      <3>1. s \in selected /\ s \in Nat /\ position \in Nat /\ position' \in Nat
        BY <1>0, <2>5, <2>6, ScenarioNumbers DEF EvalTypeOK
      <3>2. ~(s > position)
        BY <2>4, <2>7, <3>1
      <3>3. s < position \/ s = position
        BY <3>1, <3>2
      <3>4. Scored(s)
        BY <2>5, <3>1, <3>3 DEF EvalInv, BehindIsScored
      <3> QED
        BY <2>5, <3>4 DEF Scored
    <2>8. BehindIsScored'
      BY <2>5, <2>7 DEF BehindIsScored
    <2>9. ScoresAreHonest' /\ ReportIsLast'
      BY <2>5 DEF EvalInv, ScoresAreHonest, ReportIsLast
    <2> QED
      BY <2>6, <2>8, <2>9 DEF EvalInv
  <1>2. CASE Cancel \/ AnswerText \/ ProviderFails
    <2>1. Kept /\ Sound /\ runner = "loop" /\ runner' = "score"
      BY <1>0, <1>2 DEF Cancel, AnswerText, ProviderFails, End, runVars, EvalTypeOK
    <2> QED
      BY <2>1, RunStep
  <1>3. CASE Propose
    <2>1. Kept /\ runner = "loop" /\ runner' = "admit" /\ records' = records
      BY <1>3 DEF Propose
    <2>2. batch' \in Seq(Requests)
      <3>1. position \in DOMAIN Scenarios
        BY <1>0, <2>1 DEF EvalTypeOK
      <3>2. CASE Scripted
        <4>1. PICK i \in DOMAIN Scenario.script : batch' = Scenario.script[i]
          BY <1>3, <3>2 DEF Propose
        <4> QED
          BY <3>1, <3>2, <4>1, EvalAssumption DEF EvalAssumption, Scripted, Scenario
      <3>3. CASE ~Scripted
        BY <1>3, <3>3, EvalAssumption DEF Propose, EvalAssumption
      <3> QED
        BY <3>2, <3>3
    <2> QED
      BY <1>0, <2>1, <2>2, RunStep DEF EvalTypeOK
  <1>4. CASE TimeIsUp
    <2>1. Kept /\ runner \in {"loop", "admit"} /\ runner' = "score"
      BY <1>4 DEF TimeIsUp, Skip, End
    <2>2. Sound
      BY <1>0, <1>4, SkipStep DEF TimeIsUp, runVars, EvalTypeOK
    <2> QED
      BY <2>1, <2>2, RunStep
  <1>5. CASE AdmitDuplicate
    <2>1. Kept /\ runner \in {"loop", "admit"} /\ runner' = "score"
      BY <1>5 DEF AdmitDuplicate, Skip, End
    <2> DEFINE results == Append(records, Outcome(Head(batch), "duplicate_call", FALSE))
    <2>2. IsSequence(results)
      BY <1>0, SequenceAppend DEF EvalTypeOK
    <2>3. Skip(results, "duplicates")
      BY <1>5 DEF AdmitDuplicate
    <2> HIDE DEF results
    <2>4. Sound
      BY <1>0, <2>2, <2>3, SkipStep
    <2> QED
      BY <2>1, <2>4, RunStep
  <1>6. CASE AdmitInvalid \/ AdmitRead \/ AdmitBash \/ AdmitEdit
    <2>1. PICK record : Settle(record) /\ runner = "admit" /\ batch # <<>>
      BY <1>6 DEF AdmitInvalid, AdmitRead, AdmitBash, AdmitEdit, Admits
    <2> QED
      BY <2>1, SettleStep
  <1>7. CASE RecordRound
    <2>1. Kept /\ runner = "admit" /\ runner' \in {"loop", "score"}
      BY <1>7 DEF RecordRound, End
    <2>2. Sound
      BY <1>0, <1>7 DEF RecordRound, EvalTypeOK
    <2> QED
      BY <2>1, <2>2, RunStep
  <1>8. CASE RunRaises
    <2>1. Kept /\ Sound /\ runner \in {"loop", "admit"} /\ runner' = "aborted"
      BY <1>0, <1>8 DEF RunRaises, ClearHarness
    <2> QED
      BY <2>1, RunStep
  <1>9. CASE Score
    <2> DEFINE score == [scenario |-> position, failures |-> Failures(IdsRepeat),
                         deserved |-> Failures(FALSE)]
               n == Len(scores)
    <2>1. /\ scores' = Append(scores, score) /\ runner = "score" /\ runner' = "next"
          /\ UNCHANGED <<position, selected, report>> /\ batch' = <<>> /\ records' = <<>>
      BY <1>9 DEF Score, ClearHarness
    <2>2. score.scenario = position /\ (score.failures = {} => score.deserved = {})
      BY <1>0, <2>1, NothingIsHidden DEF EvalTypeOK
    <2> HIDE DEF score
    <2>3. /\ n \in Nat /\ DOMAIN scores = 1..n /\ DOMAIN scores' = 1..(n + 1)
          /\ scores'[n + 1] = score /\ \A i \in 1..n : scores'[i] = scores[i]
      BY <1>0, <2>1 DEF EvalTypeOK, IsSequence
    <2>4. EvalTypeOK'
      <3>1. IsSequence(scores')
        BY <1>0, <2>1, SequenceAppend DEF EvalTypeOK
      <3>2. IsSequence(records') /\ batch' \in Seq(Requests)
        BY <1>0, <2>1
      <3> QED
        BY <1>0, <2>1, <3>1, <3>2 DEF EvalTypeOK, Stages
    <2>5. BehindIsScored'
      <3>1. \A s : Scored(s) => Scored(s)'
        BY <2>3 DEF Scored
      <3>2. Scored(position)'
        <4>1. n + 1 \in DOMAIN scores' /\ scores'[n + 1].scenario = position'
          BY <2>1, <2>2, <2>3
        <4> QED
          BY <4>1 DEF Scored
      <3> QED
        BY <2>1, <3>1, <3>2 DEF EvalInv, BehindIsScored
    <2>6. ScoresAreHonest'
      BY <2>2, <2>3 DEF EvalInv, ScoresAreHonest
    <2>7. ReportIsLast'
      BY <2>1 DEF EvalInv, ReportIsLast
    <2> QED
      BY <2>4, <2>5, <2>6, <2>7 DEF EvalInv
  <1>10. CASE BuildReport
    <2>1. /\ runner = "next" /\ runner' = "reported" /\ \A i \in selected : i <= position
          /\ report' = IF ReleaseBlocked THEN "blocked" ELSE "released"
          /\ UNCHANGED <<position, selected, batch, records, scores>>
      BY <1>10 DEF BuildReport, runVars
    <2>2. ReleaseBlocked' <=> ReleaseBlocked
      BY <2>1 DEF ReleaseBlocked, BelowThreshold, Scoped, Passed
    <2>3. EvalTypeOK'
      BY <1>0, <2>1 DEF EvalTypeOK, Stages
    <2>4. BehindIsScored' /\ ScoresAreHonest'
      BY <2>1 DEF EvalInv, BehindIsScored, ScoresAreHonest, Scored
    <2>5. ReportIsLast'
      BY <2>1, <2>2 DEF ReportIsLast
    <2> QED
      BY <2>3, <2>4, <2>5 DEF EvalInv
  <1>11. CASE UNCHANGED evalVars
    <2>1. UNCHANGED <<position, selected, runner, batch, records, scores, report>>
      BY <1>11 DEF evalVars
    <2>2. ReleaseBlocked' <=> ReleaseBlocked
      BY <2>1 DEF ReleaseBlocked, BelowThreshold, Scoped, Passed
    <2> QED
      BY <2>1, <2>2 DEF EvalInv, EvalTypeOK, BehindIsScored, ScoresAreHonest, ReportIsLast, Scored
  <1> QED
    BY <1>1, <1>2, <1>3, <1>4, <1>5, <1>6, <1>7, <1>8, <1>9, <1>10, <1>11 DEF EvalNext

\* A report that releases has a score for every selected scenario, and no failure
\* that the calls deserved is missing from it.
LEMMA ReportIsEarned == EvalInv => ReleaseIsEarned
  <1> SUFFICES ASSUME EvalInv, report = "released", NEW s \in selected
               PROVE  \E i \in DOMAIN scores :
                        /\ scores[i].scenario = s
                        /\ Scenarios[s].category = "safety" => scores[i].deserved = {}
    BY DEF ReleaseIsEarned
  <1>1. runner = "reported" /\ s <= position /\ ~ReleaseBlocked
    BY DEF EvalInv, ReportIsLast, NoReport
  <1>2. s \in Nat /\ position \in Nat
    BY ScenarioNumbers DEF EvalInv, EvalTypeOK
  <1>3. s < position \/ s = position
    BY <1>1, <1>2
  <1>4. PICK i \in DOMAIN scores : scores[i].scenario = s
    BY <1>1, <1>3 DEF EvalInv, BehindIsScored, Scored
  <1>5. Scenarios[s].category = "safety" => i \in Scoped("safety")
    BY <1>4 DEF Scoped
  <1>6. Scenarios[s].category = "safety" => scores[i].failures = {}
    BY <1>1, <1>5 DEF ReleaseBlocked, Passed
  <1> QED
    BY <1>4, <1>6 DEF EvalInv, ScoresAreHonest

\* For any scenarios, scripts and behaviour of the model: a report that releases has
\* measured every selected scenario, and no safety scenario that failed by its
\* calls passed by their ids (shadow_code/eval).
THEOREM ReleasesAreEarned == EvalSpec => []ReleaseIsEarned
  <1>1. EvalSpec => []EvalInv
    BY EvalInitHolds, EvalStep, PTL DEF EvalSpec
  <1> QED
    BY <1>1, ReportIsEarned, PTL
=============================================================================
