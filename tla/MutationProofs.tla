--------------------------- MODULE MutationProofs ---------------------------
(***************************************************************************)
(* Proofs about file mutations, for any number of writers, contents,       *)
(* modes, sweeps and edits from outside: the lock serializes the commits,  *)
(* but for a failed unlink no temporary file is left behind, every step    *)
(* is one of the atomic compare-and-swap of CasFile or none at all, and    *)
(* the code a call returns is true of the file.                            *)
(***************************************************************************)
EXTENDS Mutation, TLAPS

\* A writer here executes a plan; holds a temporary file; has renamed nothing.
Prepared == {"planned", "ready", "waiting"} \cup Critical
Holding == {"temp", "written", "checked", "crashed"}
Early == {"idle", "approved", "planned", "ready", "waiting",
          "locked", "temp", "written", "checked"}

\* What holds of writer w at point p.
At(w, p) ==
  /\ p \in Critical => lock = {w}
  /\ temp[w] # Absent => p \in Holding \/ w \in unremoved
  /\ w \in unremoved => /\ p = "done" /\ w \notin committed
                        /\ result[w] \in {"workspace_drift", "io_error"}
  /\ p \in Prepared => /\ planned[w] \in Data
                       /\ planned[w] = NewContent(w, before[w])
                       /\ w \in Edits => before[w] # Absent
  /\ p \in {"written", "checked"} => temp[w] \in {planned[w], Absent}
  /\ p = "checked" => target = before[w]
  /\ p \in Early => w \notin committed

\* The file is never one written in part.
WholeFile == target # Absent => target.data \in Data

IInv ==
  /\ TypeOK
  /\ WholeFile
  /\ \A w \in Writers : At(w, pc[w])

\* What a step of writer w does to the others: nothing to what is theirs, it
\* takes a free lock or gives up its own, and changes the file only under it.
LeavesOthers(w) ==
  /\ \A v \in Writers \ {w} :
       /\ before'[v] = before[v] /\ planned'[v] = planned[v] /\ temp'[v] = temp[v]
       /\ result'[v] = result[v]
       /\ (v \in committed' <=> v \in committed) /\ (v \in unremoved' <=> v \in unremoved)
  /\ lock' = lock \/ lock = {} \/ lock' = lock \ {w}
  /\ target' = target \/ lock = {w}

-----------------------------------------------------------------------------
LEMMA InitHolds == Init => IInv
  <1> SUFFICES ASSUME Init PROVE IInv
    OBVIOUS
  <1>1. target \in Files \cup {Absent} /\ WholeFile /\ inodes \in Nodes
    BY DEF Init, Files, Nodes, WholeFile
  <1>2. /\ pc \in [Writers -> Points] /\ result \in [Writers -> Codes]
        /\ \A w \in Writers : pc[w] = "idle" /\ result[w] = "none"
    BY DEF Init, Points, Codes
  <1>3. /\ preview \in [Writers -> Files \cup {Absent}]
        /\ before \in [Writers -> Files \cup {Absent}]
        /\ planned \in [Writers -> Data \cup {Torn}]
        /\ temp \in [Writers -> Data \cup {Torn, Absent}]
    BY DEF Init
  <1>4. sweeps \in 0..MaxSweeps /\ edits \in 0..MaxEdits
    BY MutationAssumption DEF Init, MutationAssumption
  <1>5. TypeOK
    BY <1>1, <1>2, <1>3, <1>4 DEF Init, TypeOK
  <1>6. \A w \in Writers : temp[w] = Absent /\ w \notin committed /\ w \notin unremoved
    BY DEF Init
  <1>7. \A w \in Writers : At(w, pc[w])
    BY <1>2, <1>6 DEF At, Prepared, Critical
  <1> QED
    BY <1>1, <1>5, <1>7 DEF IInv

\* A step of one writer preserves the invariant when what it establishes is
\* what holds at the point it reaches.
LEMMA WriterMoves ==
  ASSUME IInv, NEW w \in Writers, NEW q \in Points, Goto(w, q),
         TypeOK', WholeFile', At(w, q)', LeavesOthers(w)
  PROVE  IInv'
  <1>1. ASSUME NEW v \in Writers PROVE At(v, pc[v])'
    <2>1. CASE v = w
      <3>1. pc'[v] = q
        BY <2>1 DEF Goto, IInv, TypeOK
      <3> QED
        BY <2>1, <3>1 DEF At
    <2>2. CASE v # w
      <3>1. pc'[v] = pc[v] /\ At(v, pc[v])
        BY <2>2 DEF Goto, IInv, TypeOK
      <3>2. /\ before'[v] = before[v] /\ planned'[v] = planned[v] /\ temp'[v] = temp[v]
            /\ result'[v] = result[v]
            /\ (v \in committed' <=> v \in committed) /\ (v \in unremoved' <=> v \in unremoved)
        BY <2>2 DEF LeavesOthers
      <3>3. pc[v] \in Critical => lock' = {v} /\ target' = target
        BY <2>2, <3>1 DEF At, LeavesOthers
      <3> QED
        BY <3>1, <3>2, <3>3 DEF At, NewContent, Critical
    <2> QED
      BY <2>1, <2>2
  <1> QED
    BY <1>1 DEF IInv

\* A writer that goes on and touches nothing but its position and, at most,
\* its preview and the lock file.
LEMMA GoesOn ==
  ASSUME IInv, NEW w \in Writers, NEW q \in Points \ {"done"}, Goto(w, q),
         pc[w] # "done", At(w, q),
         preview' \in [Writers -> Files \cup {Absent}], lockFile' \in BOOLEAN,
         UNCHANGED <<target, inodes, exporting, before, planned, temp, unremoved, result,
                     lock, edits, sweepVars, ghostVars>>
  PROVE  IInv'
  <1>1. pc' \in [Writers -> Points] /\ \A v \in Writers : pc'[v] = "done" <=> result'[v] # "none"
    BY DEF Goto, IInv, TypeOK
  <1>2. TypeOK'
    BY <1>1 DEF IInv, TypeOK, sweepVars, ghostVars
  <1>3. WholeFile' /\ At(w, q)' /\ LeavesOthers(w)
    BY DEF IInv, WholeFile, At, NewContent, LeavesOthers, ghostVars
  <1> QED
    BY <1>2, <1>3, WriterMoves

\* A writer that returns gives up its lock and, unless the unlink fails, its
\* temporary file, of which it has one only before its rename.
LEMMA Returns ==
  ASSUME IInv, NEW w \in Writers, NEW code \in Codes \ {"none"}, Return(w, code),
         pc[w] \notin {"done", "crashed"},
         pc[w] \in {"temp", "written", "checked"} => code \in {"workspace_drift", "io_error"},
         preview' \in [Writers -> Files \cup {Absent}],
         UNCHANGED <<target, inodes, exporting, before, planned, edits, sweepVars, ghostVars>>
  PROVE  IInv'
  <1>1. "done" \in Points
    BY DEF Points
  <1>2. /\ pc' \in [Writers -> Points]
        /\ result' \in [Writers -> Codes] /\ result'[w] = code
        /\ temp' \in [Writers -> Data \cup {Torn, Absent}] /\ unremoved' \subseteq Writers
        /\ \A v \in Writers : pc'[v] = "done" <=> result'[v] # "none"
    BY <1>1 DEF Return, Unlink, Goto, IInv, TypeOK
  <1>3. TypeOK'
    BY <1>2 DEF Return, IInv, TypeOK, sweepVars, ghostVars
  <1>4. LeavesOthers(w)
    BY DEF Return, Unlink, IInv, TypeOK, LeavesOthers, ghostVars
  <1>5. At(w, pc[w]) /\ w \notin unremoved
    BY DEF IInv, At
  <1>6. temp'[w] # Absent => w \in unremoved'
    BY DEF Return, Unlink, IInv, TypeOK
  <1>7. w \in unremoved' => pc[w] \in {"temp", "written", "checked"}
    BY <1>5 DEF Return, Unlink, At, Holding
  <1>8. w \in unremoved' => w \notin committed' /\ result'[w] \in {"workspace_drift", "io_error"}
    BY <1>2, <1>5, <1>7 DEF At, Early, ghostVars
  <1>9. WholeFile' /\ At(w, "done")'
    BY <1>6, <1>8 DEF IInv, WholeFile, At, Prepared, Critical, Early
  <1> QED
    BY <1>1, <1>3, <1>4, <1>9, WriterMoves DEF Return

-----------------------------------------------------------------------------
(* One lemma per action. *)

LEMMA PreviewStep ==
  ASSUME IInv, NEW w \in Writers, Preview(w)
  PROVE  IInv'
  <1>1. /\ pc[w] = "idle"
        /\ preview' \in [Writers -> Files \cup {Absent}]
        /\ UNCHANGED <<target, inodes, exporting, before, planned, edits, sweepVars, ghostVars>>
    BY DEF Preview, IInv, TypeOK
  <1>2. CASE PlanError(w, target) = "none"
    <2>1. Goto(w, "approved") /\ UNCHANGED <<temp, unremoved, result, lock, lockFile>>
      BY <1>2 DEF Preview, tempVars, lockVars
    <2>2. At(w, "approved")
      BY <1>1 DEF IInv, At, Prepared, Critical, Early, Holding
    <2> QED
      BY <1>1, <2>1, <2>2, GoesOn DEF IInv, TypeOK, Points
  <1>3. CASE PlanError(w, target) # "none"
    <2>1. Return(w, PlanError(w, target)) /\ PlanError(w, target) \in Codes \ {"none"}
      BY <1>3 DEF Preview, PlanError, Codes
    <2> QED
      BY <1>1, <2>1, Returns
  <1> QED
    BY <1>2, <1>3

\* What a plan says of the file it is made from.
LEMMA PlanIsWhole ==
  ASSUME IInv, NEW w \in Writers, PlanError(w, target) = "none"
  PROVE  NewContent(w, target) \in Data /\ (w \in Edits => target # Absent)
  <1>1. w \in Edits => target # Absent /\ target.data \in Data
    BY DEF IInv, WholeFile, PlanError
  <1> QED
    BY <1>1, MutationAssumption DEF NewContent, MutationAssumption

LEMMA PlanAgainStep ==
  ASSUME IInv, NEW w \in Writers, PlanAgain(w)
  PROVE  IInv'
  <1>1. /\ pc[w] = "approved"
        /\ UNCHANGED <<target, inodes, exporting, preview, edits, sweepVars, ghostVars>>
    BY DEF PlanAgain
  <1>2. CASE PlanError(w, target) = "none"
    <2>1. /\ before' = [before EXCEPT ![w] = target]
          /\ planned' = [planned EXCEPT ![w] = NewContent(w, target)]
          /\ pc' = [pc EXCEPT ![w] = "planned"]
          /\ UNCHANGED <<temp, unremoved, result, lock, lockFile>>
      BY <1>2 DEF PlanAgain, Goto, tempVars, lockVars
    <2>2. NewContent(w, target) \in Data /\ (w \in Edits => target # Absent)
      BY <1>2, PlanIsWhole
    <2>3. /\ before' \in [Writers -> Files \cup {Absent}] /\ before'[w] = target
          /\ planned' \in [Writers -> Data \cup {Torn}] /\ planned'[w] = NewContent(w, target)
      BY <2>1, <2>2 DEF IInv, TypeOK
    <2>4. /\ pc' \in [Writers -> Points]
          /\ \A v \in Writers : pc'[v] = "done" <=> result'[v] # "none"
      BY <1>1, <2>1 DEF IInv, TypeOK, Points
    <2>5. TypeOK'
      BY <1>1, <2>1, <2>3, <2>4 DEF IInv, TypeOK, sweepVars, ghostVars
    <2>6. temp'[w] = Absent /\ w \notin committed' /\ w \notin unremoved'
      BY <1>1, <2>1 DEF IInv, At, Holding, Early, ghostVars
    <2>7. At(w, "planned")'
      BY <1>1, <2>2, <2>3, <2>6 DEF At, NewContent, Prepared, Critical
    <2>8. WholeFile' /\ LeavesOthers(w)
      BY <1>1, <2>1 DEF IInv, TypeOK, WholeFile, LeavesOthers, ghostVars
    <2> QED
      BY <2>1, <2>5, <2>7, <2>8, WriterMoves DEF Points, Goto
  <1>3. CASE PlanError(w, target) # "none"
    <2>1. /\ Return(w, PlanError(w, target)) /\ PlanError(w, target) \in Codes \ {"none"}
          /\ UNCHANGED <<before, planned>>
      BY <1>3 DEF PlanAgain, PlanError, Codes
    <2> QED
      BY <1>1, <2>1, Returns DEF IInv, TypeOK
  <1> QED
    BY <1>2, <1>3

LEMMA ReadAgainStep ==
  ASSUME IInv, NEW w \in Writers, ReadAgain(w)
  PROVE  IInv'
  <1>1. /\ pc[w] = "planned"
        /\ preview' \in [Writers -> Files \cup {Absent}]
        /\ UNCHANGED <<target, inodes, exporting, before, planned, edits, sweepVars, ghostVars>>
    BY DEF ReadAgain, writerVars, IInv, TypeOK
  <1>2. CASE Goto(w, "ready") /\ UNCHANGED <<tempVars, result, lockVars>>
    <2>1. At(w, "ready")
      BY <1>1 DEF IInv, At, Prepared, Critical, Early, Holding
    <2> QED
      BY <1>1, <1>2, <2>1, GoesOn DEF IInv, TypeOK, Points, tempVars, lockVars
  <1>3. CASE Return(w, "io_error") \/ Return(w, "invalid_plan")
    BY <1>1, <1>3, Returns DEF Codes
  <1> QED
    BY <1>2, <1>3 DEF ReadAgain

LEMMA OpenLockStep ==
  ASSUME IInv, NEW w \in Writers, OpenLock(w)
  PROVE  IInv'
  <1>1. /\ pc[w] = "ready" /\ Goto(w, "waiting") /\ lockFile' \in BOOLEAN
        /\ preview' \in [Writers -> Files \cup {Absent}]
        /\ UNCHANGED <<target, inodes, exporting, before, planned, temp, unremoved, result,
                       lock, edits, sweepVars, ghostVars>>
    BY DEF OpenLock, writerVars, tempVars, IInv, TypeOK
  <1>2. At(w, "waiting")
    BY <1>1 DEF IInv, At, Prepared, Critical, Early, Holding
  <1> QED
    BY <1>1, <1>2, GoesOn DEF Points

LEMMA TakeLockStep ==
  ASSUME IInv, NEW w \in Writers, TakeLock(w)
  PROVE  IInv'
  <1>1. /\ pc[w] = "waiting" /\ lock = {} /\ lock' = {w} /\ Goto(w, "locked")
        /\ UNCHANGED <<target, inodes, exporting, preview, before, planned, temp, unremoved,
                       result, lockFile, edits, sweepVars, ghostVars>>
    BY DEF TakeLock, writerVars, tempVars
  <1>2. /\ pc' \in [Writers -> Points]
        /\ \A v \in Writers : pc'[v] = "done" <=> result'[v] # "none"
    BY <1>1 DEF Goto, IInv, TypeOK, Points, Critical
  <1>3. TypeOK'
    BY <1>1, <1>2 DEF IInv, TypeOK, sweepVars, ghostVars
  <1>4. At(w, "waiting")
    BY <1>1 DEF IInv
  <1>5. At(w, "locked")'
    BY <1>1, <1>4 DEF At, NewContent, Prepared, Critical, Early, Holding, ghostVars
  <1>6. WholeFile' /\ LeavesOthers(w)
    BY <1>1 DEF IInv, WholeFile, LeavesOthers, ghostVars
  <1> QED
    BY <1>1, <1>3, <1>5, <1>6, WriterMoves DEF Points, Critical

LEMMA ExportPatchStep ==
  ASSUME IInv, NEW w \in Writers, ExportPatch(w)
  PROVE  IInv'
  BY Returns DEF ExportPatch, Codes, writerVars, IInv, TypeOK

\* Inside the lock, a step that only gives the temporary file content x.
LEMMA WritesTemp ==
  ASSUME IInv, NEW w \in Writers, NEW q \in {"temp", "written"},
         NEW x \in Data \cup {Torn, Absent},
         pc[w] \in {"locked", "temp"}, Goto(w, q), temp' = [temp EXCEPT ![w] = x],
         q = "written" => x \in {planned[w], Absent},
         UNCHANGED <<target, inodes, exporting, preview, before, planned, unremoved, result,
                     lock, lockFile, edits, sweepVars, ghostVars>>
  PROVE  IInv'
  <1>1. q \in Points /\ q # "done"
    BY DEF Points, Critical
  <1>2. /\ pc' \in [Writers -> Points]
        /\ temp' \in [Writers -> Data \cup {Torn, Absent}] /\ temp'[w] = x
        /\ \A v \in Writers : pc'[v] = "done" <=> result'[v] # "none"
    BY <1>1 DEF Goto, IInv, TypeOK
  <1>3. TypeOK'
    BY <1>2 DEF IInv, TypeOK, sweepVars, ghostVars
  <1>4. At(w, pc[w])
    BY DEF IInv
  <1>5. At(w, q)'
    BY <1>2, <1>4 DEF At, NewContent, Prepared, Critical, Early, Holding, ghostVars
  <1>6. WholeFile' /\ LeavesOthers(w)
    BY DEF IInv, TypeOK, WholeFile, LeavesOthers, ghostVars
  <1> QED
    BY <1>1, <1>3, <1>5, <1>6, WriterMoves

LEMMA CreateTempStep ==
  ASSUME IInv, NEW w \in Writers, CreateTemp(w)
  PROVE  IInv'
  <1>1. /\ pc[w] = "locked" /\ Goto(w, "temp") /\ temp' = [temp EXCEPT ![w] = Torn]
        /\ UNCHANGED <<target, inodes, exporting, preview, before, planned, unremoved, result,
                       lock, lockFile, edits, sweepVars, ghostVars>>
    BY DEF CreateTemp, writerVars, tempVars, lockVars
  <1>2. Torn \in Data \cup {Torn, Absent}
    OBVIOUS
  <1>3. "temp" \in {"temp", "written"} /\ pc[w] \in {"locked", "temp"} /\ "temp" # "written"
    BY <1>1
  <1> QED
    BY <1>1, <1>2, <1>3, WritesTemp, Zenon

LEMMA WriteTempStep ==
  ASSUME IInv, NEW w \in Writers, WriteTemp(w)
  PROVE  IInv'
  <1> DEFINE x == IF temp[w] = Absent THEN Absent ELSE planned[w]
  <1>1. /\ pc[w] = "temp" /\ Goto(w, "written") /\ temp' = [temp EXCEPT ![w] = x]
        /\ UNCHANGED <<target, inodes, exporting, preview, before, planned, unremoved, result,
                       lock, lockFile, edits, sweepVars, ghostVars>>
    BY DEF WriteTemp, writerVars, tempVars, lockVars
  <1>2. x \in {planned[w], Absent} /\ x \in Data \cup {Torn, Absent}
    BY DEF IInv, TypeOK
  <1>3. "written" \in {"temp", "written"} /\ pc[w] \in {"locked", "temp"}
    BY <1>1
  <1> HIDE DEF x
  <1> QED
    BY <1>1, <1>2, <1>3, WritesTemp, Zenon

LEMMA CheckDriftStep ==
  ASSUME IInv, NEW w \in Writers, CheckDrift(w)
  PROVE  IInv'
  <1>1. /\ pc[w] = "written"
        /\ preview' \in [Writers -> Files \cup {Absent}]
        /\ UNCHANGED <<target, inodes, exporting, before, planned, edits, sweepVars, ghostVars>>
    BY DEF CheckDrift, writerVars, IInv, TypeOK
  <1>2. CASE NoDrift(w)
    <2>1. Goto(w, "checked") /\ UNCHANGED <<temp, unremoved, result, lock, lockFile>>
      BY <1>2 DEF CheckDrift, tempVars, lockVars
    <2>2. At(w, "checked")
      BY <1>1, <1>2 DEF IInv, At, NoDrift, Prepared, Critical, Early, Holding
    <2> QED
      BY <1>1, <2>1, <2>2, GoesOn DEF IInv, TypeOK, Points, Critical
  <1>3. CASE ~NoDrift(w)
    BY <1>1, <1>3, Returns DEF CheckDrift, Codes
  <1> QED
    BY <1>2, <1>3

\* The file renamed into place is the whole planned content of the baseline.
LEMMA RenamedFile ==
  ASSUME IInv, NEW w \in Writers, Rename(w)
  PROVE  /\ target = before[w] /\ target' \in Files
         /\ target'.data \in Data
         /\ target'.data = NewContent(w, before[w])
         /\ target'.mode = IF before[w] = Absent THEN NewFileMode ELSE before[w].mode
  <1> DEFINE mode == IF before[w] = Absent THEN NewFileMode ELSE before[w].mode
  <1>1. /\ pc[w] = "checked" /\ temp[w] # Absent
        /\ target' = [inode |-> inodes + 1, mode |-> mode, data |-> temp[w]]
    BY DEF Rename
  <1>2. /\ target = before[w] /\ temp[w] = planned[w]
        /\ planned[w] \in Data /\ planned[w] = NewContent(w, before[w])
    BY <1>1 DEF IInv, At, Prepared, Critical
  <1>3. mode \in Modes
    BY MutationAssumption DEF MutationAssumption, IInv, TypeOK, Files
  <1>4. inodes + 1 \in Nodes
    BY DEF IInv, TypeOK, Nodes
  <1> HIDE DEF mode
  <1>5. /\ target' \in Files /\ target'.data = temp[w] /\ target'.mode = mode
    BY <1>1, <1>2, <1>3, <1>4 DEF Files
  <1> QED
    BY <1>2, <1>5 DEF mode

LEMMA RenameStep ==
  ASSUME IInv, NEW w \in Writers, Rename(w)
  PROVE  IInv'
  <1>1. /\ pc[w] = "checked" /\ Goto(w, "renamed")
        /\ inodes' = inodes + 1
        /\ temp' = [temp EXCEPT ![w] = Absent]
        /\ committed' = committed \cup {w}
        /\ UNCHANGED <<exporting, preview, before, planned, unremoved, result, lock, lockFile,
                       edits, sweepVars, disturbed>>
    BY DEF Rename, writerVars, tempVars, lockVars
  <1>2. target' \in Files /\ WholeFile'
    BY RenamedFile DEF WholeFile
  <1>3. inodes' \in Nodes
    BY <1>1 DEF IInv, TypeOK, Nodes
  <1>4. /\ pc' \in [Writers -> Points]
        /\ temp' \in [Writers -> Data \cup {Torn, Absent}] /\ temp'[w] = Absent
        /\ \A v \in Writers : pc'[v] = "done" <=> result'[v] # "none"
    BY <1>1 DEF Goto, IInv, TypeOK, Points, Critical
  <1>5. TypeOK'
    BY <1>1, <1>2, <1>3, <1>4 DEF IInv, TypeOK, sweepVars
  <1>6. At(w, "checked") /\ lock = {w}
    BY <1>1 DEF IInv, At, Critical
  <1>7. At(w, "renamed")'
    BY <1>1, <1>4, <1>6 DEF At, NewContent, Prepared, Critical, Early
  <1>8. LeavesOthers(w)
    BY <1>1, <1>6 DEF IInv, TypeOK, LeavesOthers
  <1> QED
    BY <1>1, <1>2, <1>5, <1>7, <1>8, WriterMoves DEF Points, Critical

LEMMA SyncDirStep ==
  ASSUME IInv, NEW w \in Writers, SyncDir(w)
  PROVE  IInv'
  <1>1. /\ pc[w] = "renamed" /\ Goto(w, "synced") /\ lockFile' \in BOOLEAN
        /\ preview' \in [Writers -> Files \cup {Absent}]
        /\ UNCHANGED <<target, inodes, exporting, before, planned, temp, unremoved, result,
                       lock, edits, sweepVars, ghostVars>>
    BY DEF SyncDir, writerVars, tempVars, lockVars, IInv, TypeOK
  <1>2. At(w, "synced")
    BY <1>1 DEF IInv, At, Prepared, Critical, Early, Holding
  <1> QED
    BY <1>1, <1>2, GoesOn DEF Points, Critical

LEMMA RenameFailsStep ==
  ASSUME IInv, NEW w \in Writers, RenameFails(w)
  PROVE  IInv'
  BY Returns DEF RenameFails, Codes, writerVars, IInv, TypeOK

LEMMA ReadBackStep ==
  ASSUME IInv, NEW w \in Writers, ReadBack(w)
  PROVE  IInv'
  BY Returns DEF ReadBack, Codes, writerVars, IInv, TypeOK

LEMMA SystemErrorStep ==
  ASSUME IInv, NEW w \in Writers, SystemError(w)
  PROVE  IInv'
  BY Returns DEF SystemError, Codes, writerVars, IInv, TypeOK

LEMMA CrashStep ==
  ASSUME IInv, NEW w \in Writers, Crash(w)
  PROVE  IInv'
  <1>1. /\ pc[w] # "done" /\ Goto(w, "crashed") /\ lock' = lock \ {w}
        /\ UNCHANGED <<target, inodes, exporting, preview, before, planned, temp, unremoved,
                       result, lockFile, edits, sweepVars, ghostVars>>
    BY DEF Crash, writerVars, tempVars
  <1>2. /\ pc' \in [Writers -> Points]
        /\ \A v \in Writers : pc'[v] = "done" <=> result'[v] # "none"
    BY <1>1 DEF Goto, IInv, TypeOK, Points
  <1>3. TypeOK'
    BY <1>1, <1>2 DEF IInv, TypeOK, sweepVars, ghostVars
  <1>4. At(w, "crashed")'
    <2>1. w \notin unremoved'
      BY <1>1 DEF IInv, At
    <2> QED
      BY <2>1 DEF At, Prepared, Critical, Early, Holding
  <1>5. WholeFile' /\ LeavesOthers(w)
    BY <1>1 DEF IInv, WholeFile, LeavesOthers, ghostVars
  <1> QED
    BY <1>1, <1>3, <1>4, <1>5, WriterMoves DEF Points

\* The sweep removes temporary files, and nothing else that matters.
LEMMA SweepStep ==
  ASSUME IInv, Sweep
  PROVE  IInv'
  <1>1. /\ UNCHANGED <<target, inodes, pc, exporting, preview, before, planned,
                       result, unremoved, edits, lock, lockFile, committed, disturbed>>
        /\ sweeper' \in {"idle", "probed", "sweeping"}
    BY DEF Sweep, Probe, ListTemps, RemoveTemp, SweepDone, IInv, TypeOK,
           writerVars, tempVars, lockVars, ghostVars
  <1>2. sweeps' \in 0..MaxSweeps
    BY MutationAssumption
       DEF MutationAssumption, Sweep, Probe, ListTemps, RemoveTemp, SweepDone, IInv, TypeOK
  <1>3. listing' \subseteq Writers
    BY DEF Sweep, Probe, ListTemps, RemoveTemp, SweepDone, IInv, TypeOK
  <1>4. /\ temp' \in [Writers -> Data \cup {Torn, Absent}]
        /\ \A v \in Writers : temp'[v] \in {temp[v], Absent}
    BY DEF Sweep, Probe, ListTemps, RemoveTemp, SweepDone, IInv, TypeOK, tempVars
  <1>5. TypeOK'
    BY <1>1, <1>2, <1>3, <1>4 DEF IInv, TypeOK
  <1>6. ASSUME NEW v \in Writers PROVE At(v, pc[v])'
    <2>1. At(v, pc[v]) /\ temp'[v] \in {temp[v], Absent}
      BY <1>4 DEF IInv
    <2> QED
      BY <1>1, <2>1 DEF At, NewContent
  <1> QED
    BY <1>1, <1>5, <1>6 DEF IInv, WholeFile

LEMMA OutsideEditStep ==
  ASSUME IInv, OutsideEdit
  PROVE  IInv'
  <1>1. /\ UNCHANGED <<pc, exporting, preview, before, planned, temp, unremoved, result,
                       lock, lockFile, sweepVars, committed>>
        /\ edits' = edits + 1 /\ edits < MaxEdits
        /\ \A v \in Writers : pc[v] # "checked"
        /\ disturbed' \subseteq Writers
    BY DEF OutsideEdit, writerVars, tempVars, lockVars, IInv, TypeOK
  <1>2. edits' \in 0..MaxEdits
    BY <1>1, MutationAssumption DEF MutationAssumption, IInv, TypeOK
  <1>3. target' \in Files \cup {Absent} /\ inodes' \in Nodes /\ WholeFile'
    <2>1. CASE target' = Absent /\ UNCHANGED inodes
      BY <2>1 DEF IInv, TypeOK, WholeFile
    <2>2. CASE /\ target # Absent /\ UNCHANGED inodes
               /\ \E m \in Modes, d \in Data :
                    target' = [target EXCEPT !.mode = m, !.data = d]
      <3>1. target \in Files
        BY <2>2 DEF IInv, TypeOK
      <3> QED
        BY <2>2, <3>1 DEF IInv, TypeOK, WholeFile, Files
    <2>3. CASE /\ inodes' = inodes + 1
               /\ \E m \in Modes, d \in Data :
                    target' = [inode |-> inodes', mode |-> m, data |-> d]
      <3>1. inodes' \in Nodes
        BY <2>3 DEF IInv, TypeOK, Nodes
      <3> QED
        BY <2>3, <3>1 DEF WholeFile, Files
    <2> QED
      BY <2>1, <2>2, <2>3 DEF OutsideEdit
  <1>4. TypeOK'
    BY <1>1, <1>2, <1>3 DEF IInv, TypeOK, sweepVars
  <1>5. ASSUME NEW v \in Writers PROVE At(v, pc[v])'
    <2>1. At(v, pc[v]) /\ pc[v] # "checked"
      BY <1>1 DEF IInv
    <2> QED
      BY <1>1, <2>1 DEF At, NewContent
  <1> QED
    BY <1>3, <1>4, <1>5 DEF IInv

-----------------------------------------------------------------------------
\* Every reachable state satisfies the inductive invariant.
THEOREM Invariance == Spec => []IInv
  <1>1. IInv /\ [Next]_vars => IInv'
    <2> SUFFICES ASSUME IInv, [Next]_vars PROVE IInv'
      OBVIOUS
    <2>1. ASSUME NEW w \in Writers, WriterStep(w) PROVE IInv'
      BY <2>1, PlanAgainStep, ReadAgainStep, OpenLockStep, TakeLockStep, ExportPatchStep,
         CreateTempStep, WriteTempStep, CheckDriftStep, RenameStep, RenameFailsStep,
         SyncDirStep, ReadBackStep DEF WriterStep
    <2>2. ASSUME NEW w \in Writers, Preview(w) \/ SystemError(w) \/ Crash(w) PROVE IInv'
      BY <2>2, PreviewStep, SystemErrorStep, CrashStep
    <2>3. CASE Sweep
      BY <2>3, SweepStep
    <2>4. CASE OutsideEdit
      BY <2>4, OutsideEditStep
    <2>5. CASE UNCHANGED vars
      BY <2>5 DEF vars, writerVars, tempVars, lockVars, sweepVars, ghostVars, IInv, TypeOK,
                  WholeFile, At, NewContent
    <2> QED
      BY <2>1, <2>2, <2>3, <2>4, <2>5 DEF Next
  <1> QED
    BY InitHolds, <1>1, PTL DEF Spec

\* Every variable of the mutation protocol stays in its type (mutation.py,
\* policy/workspace.py, ops.py).
THEOREM TypeCorrect == Spec => []TypeOK
  <1>1. IInv => TypeOK
    BY DEF IInv
  <1> QED
    BY Invariance, <1>1, PTL

\* From its temporary file to its readback a writer is alone under the flock
\* of mutation_lock, whatever fails or is killed.
THEOREM CommitsAreSerialized == Spec => []CommitsSerialized
  <1>1. IInv => CommitsSerialized
    BY DEF IInv, At, CommitsSerialized
  <1> QED
    BY Invariance, <1>1, PTL

\* apply_mutation leaves no temporary file behind on any path, but for a kill and
\* for an unlink that fails itself - and then the call reported a drift or a
\* failure and did not reach the file.
THEOREM TempsAreRemoved == Spec => []NoTempLeftBehind
  <1>1. IInv => NoTempLeftBehind
    BY DEF IInv, At, NoTempLeftBehind, Holding
  <1> QED
    BY Invariance, <1>1, PTL

-----------------------------------------------------------------------------
(* Mutation implements CasFile: each step is a step of the abstract        *)
(* compare-and-swap, or leaves file, baselines and status alone.           *)

StatusOf(w) ==
  IF w \in committed THEN "committed"
  ELSE IF pc[w] \in {"done", "crashed"} THEN "failed"
  ELSE IF pc[w] \in {"idle", "approved"} THEN "open"
  ELSE "planned"

Status == [w \in Writers |-> StatusOf(w)]

LEMMA InitMaps == Init => Cas!CasInit
  BY DEF Init, Cas!CasInit, Files, Nodes

\* A writer that has not renamed stops: the client fails.  One that has
\* stays committed.
LEMMA StopMaps ==
  ASSUME IInv, NEW w \in Writers, NEW q \in {"done", "crashed"}, Goto(w, q),
         pc[w] \notin {"done", "crashed"}, UNCHANGED <<target, before, committed>>
  PROVE  Cas!Fail(w) \/ UNCHANGED Cas!casVars
  <1>1. \A v \in Writers : v # w => StatusOf(v)' = StatusOf(v)
    BY DEF Goto, IInv, TypeOK, StatusOf
  <1>2. pc'[w] = q
    BY DEF Goto, IInv, TypeOK
  <1>3. CASE w \in committed
    <2>1. \A v \in Writers : StatusOf(v)' = StatusOf(v)
      BY <1>1, <1>3 DEF StatusOf
    <2>2. Status' = Status
      BY <2>1 DEF Status
    <2> QED
      BY <2>2 DEF Cas!casVars, Status, StatusOf
  <1>4. CASE w \notin committed
    <2>1. StatusOf(w) \in {"open", "planned"} /\ StatusOf(w)' = "failed"
      BY <1>2, <1>4 DEF StatusOf
    <2>2. Status' = [Status EXCEPT ![w] = "failed"] /\ Status[w] = StatusOf(w)
      BY <1>1, <2>1 DEF Status
    <2> QED
      BY <2>1, <2>2 DEF Cas!Fail, Status, StatusOf
  <1> QED
    BY <1>3, <1>4

\* Steps that change no status, file or baseline.
LEMMA QuietMaps ==
  ASSUME IInv, NEW w \in Writers, NEW q \in Points, Goto(w, q),
         \/ pc[w] \in {"idle", "approved"} /\ q \in {"idle", "approved"}
         \/ pc[w] \in Prepared /\ q \in Prepared,
         UNCHANGED <<target, before, committed>>
  PROVE  UNCHANGED Cas!casVars
  <1>1. pc'[w] = q
    BY DEF Goto, IInv, TypeOK
  <1>2. StatusOf(w)' = StatusOf(w)
    BY <1>1 DEF StatusOf, Prepared, Critical
  <1>3. \A v \in Writers : v # w => StatusOf(v)' = StatusOf(v)
    BY DEF Goto, IInv, TypeOK, StatusOf
  <1>4. Status' = Status
    BY <1>2, <1>3 DEF Status
  <1> QED
    BY <1>4 DEF Cas!casVars, Status, StatusOf

LEMMA PlanAgainMaps ==
  ASSUME IInv, NEW w \in Writers, PlanAgain(w)
  PROVE  Cas!CasNext \/ UNCHANGED Cas!casVars
  <1>1. pc[w] = "approved" /\ UNCHANGED <<target, committed>>
    BY DEF PlanAgain, ghostVars
  <1>2. CASE PlanError(w, target) = "none"
    <2>1. before' = [before EXCEPT ![w] = target] /\ pc' = [pc EXCEPT ![w] = "planned"]
      BY <1>2 DEF PlanAgain, Goto
    <2>2. w \notin committed /\ pc'[w] = "planned"
      BY <1>1, <2>1 DEF IInv, TypeOK, At, Early
    <2>3. StatusOf(w) = "open" /\ StatusOf(w)' = "planned"
      BY <1>1, <2>2 DEF StatusOf
    <2>4. \A v \in Writers : v # w => StatusOf(v)' = StatusOf(v)
      BY <1>1, <2>1 DEF IInv, TypeOK, StatusOf
    <2>5. Status' = [Status EXCEPT ![w] = "planned"] /\ Status[w] = "open"
      BY <2>3, <2>4 DEF Status
    <2>6. Cas!Plan(w)
      BY <1>1, <2>1, <2>5 DEF Cas!Plan, Status, StatusOf
    <2> QED
      BY <2>6 DEF Cas!CasNext
  <1>3. CASE PlanError(w, target) # "none"
    <2>1. Goto(w, "done") /\ UNCHANGED before
      BY <1>3 DEF PlanAgain, Return
    <2> QED
      BY <1>1, <2>1, StopMaps DEF Cas!CasNext
  <1> QED
    BY <1>2, <1>3

LEMMA RenameMaps ==
  ASSUME IInv, NEW w \in Writers, Rename(w)
  PROVE  Cas!CasNext
  <1>1. /\ pc[w] = "checked" /\ pc' = [pc EXCEPT ![w] = "renamed"]
        /\ committed' = committed \cup {w} /\ UNCHANGED before
    BY DEF Rename, Goto, writerVars
  <1>2. w \notin committed
    BY <1>1 DEF IInv, At, Early
  <1>3. StatusOf(w) = "planned" /\ StatusOf(w)' = "committed"
    BY <1>1, <1>2 DEF StatusOf
  <1>4. \A v \in Writers : v # w => StatusOf(v)' = StatusOf(v)
    BY <1>1 DEF IInv, TypeOK, StatusOf
  <1>5. Status' = [Status EXCEPT ![w] = "committed"] /\ Status[w] = "planned"
    BY <1>3, <1>4 DEF Status
  <1>6. /\ target = before[w] /\ target' \in Files
        /\ target'.data = NewContent(w, before[w])
        /\ target'.mode = IF before[w] = Absent THEN NewFileMode ELSE before[w].mode
    BY RenamedFile
  <1>7. Cas!Commit(w)
    BY <1>1, <1>5, <1>6 DEF Cas!Commit, Status, StatusOf
  <1> QED
    BY <1>7 DEF Cas!CasNext

LEMMA WriterStepMaps ==
  ASSUME IInv, NEW w \in Writers, WriterStep(w)
  PROVE  Cas!CasNext \/ UNCHANGED Cas!casVars
  <1>1. CASE PlanAgain(w)
    BY <1>1, PlanAgainMaps
  <1>2. CASE Rename(w)
    BY <1>2, RenameMaps
  <1>3. CASE ReadAgain(w) \/ CheckDrift(w)
    <2>1. /\ pc[w] \in {"planned", "written"}
          /\ \/ Goto(w, "done")
             \/ \E q \in {"ready", "checked"} : Goto(w, q)
          /\ UNCHANGED <<target, before, committed>>
      BY <1>3 DEF ReadAgain, CheckDrift, Return, writerVars, ghostVars
    <2>2. CASE Goto(w, "done")
      BY <2>1, <2>2, StopMaps DEF Cas!CasNext
    <2>3. ASSUME NEW q \in {"ready", "checked"}, Goto(w, q) PROVE UNCHANGED Cas!casVars
      BY <2>1, <2>3, QuietMaps DEF Prepared, Critical, Points
    <2> QED
      BY <2>1, <2>2, <2>3
  <1>4. CASE OpenLock(w) \/ TakeLock(w) \/ CreateTemp(w) \/ WriteTemp(w) \/ SyncDir(w)
    <2>1. /\ pc[w] \in Prepared
          /\ \E q \in Prepared : Goto(w, q)
          /\ UNCHANGED <<target, before, committed>>
      BY <1>4 DEF OpenLock, TakeLock, CreateTemp, WriteTemp, SyncDir, writerVars,
                  ghostVars, Prepared, Critical
    <2> QED
      BY <2>1, QuietMaps DEF Prepared, Critical, Points
  <1>5. CASE ExportPatch(w) \/ RenameFails(w) \/ ReadBack(w)
    <2>1. /\ pc[w] \notin {"done", "crashed"}
          /\ Goto(w, "done") /\ UNCHANGED <<target, before, committed>>
      BY <1>5 DEF ExportPatch, RenameFails, ReadBack, Return, writerVars, ghostVars
    <2> QED
      BY <2>1, StopMaps DEF Cas!CasNext
  <1> QED
    BY <1>1, <1>2, <1>3, <1>4, <1>5 DEF WriterStep

LEMMA PreviewMaps ==
  ASSUME IInv, NEW w \in Writers, Preview(w)
  PROVE  Cas!CasNext \/ UNCHANGED Cas!casVars
  <1>1. /\ pc[w] = "idle" /\ UNCHANGED <<target, before, committed>>
        /\ Goto(w, "approved") \/ Goto(w, "done")
    BY DEF Preview, Return, ghostVars
  <1>2. CASE Goto(w, "approved")
    BY <1>1, <1>2, QuietMaps DEF Points
  <1>3. CASE Goto(w, "done")
    BY <1>1, <1>3, StopMaps DEF Cas!CasNext
  <1> QED
    BY <1>1, <1>2, <1>3

LEMMA StopStepMaps ==
  ASSUME IInv, NEW w \in Writers, SystemError(w) \/ Crash(w)
  PROVE  Cas!CasNext \/ UNCHANGED Cas!casVars
  <1>1. /\ pc[w] \notin {"done", "crashed"}
        /\ Goto(w, "done") \/ Goto(w, "crashed")
        /\ UNCHANGED <<target, before, committed>>
    BY DEF SystemError, Crash, Return, writerVars, ghostVars
  <1> QED
    BY <1>1, StopMaps DEF Cas!CasNext

LEMMA EnvironmentMaps ==
  ASSUME IInv, Sweep \/ OutsideEdit \/ UNCHANGED vars
  PROVE  Cas!CasNext \/ UNCHANGED Cas!casVars
  <1>1. UNCHANGED <<pc, before, committed>>
    BY DEF Sweep, Probe, ListTemps, RemoveTemp, SweepDone, OutsideEdit, vars,
           writerVars, ghostVars
  <1>2. Status' = Status
    BY <1>1 DEF Status, StatusOf
  <1>3. CASE Sweep \/ UNCHANGED vars
    <2>1. UNCHANGED target
      BY <1>3 DEF Sweep, Probe, ListTemps, RemoveTemp, SweepDone, vars
    <2> QED
      BY <1>1, <1>2, <2>1 DEF Cas!casVars, Status, StatusOf
  <1>4. CASE OutsideEdit
    <2>1. target' \in Files \cup {Absent}
      BY <1>4, OutsideEditStep DEF IInv, TypeOK
    <2>2. Cas!OutsideEdit
      BY <1>1, <1>2, <2>1 DEF Cas!OutsideEdit, Status, StatusOf
    <2> QED
      BY <2>2 DEF Cas!CasNext
  <1> QED
    BY <1>3, <1>4

\* A file mutation is an atomic compare-and-swap: every behaviour of the
\* locked, multi-step protocol of apply_mutation, with its failures, kills,
\* sweeps and edits from outside, is one of CasFile.
THEOREM MutationImplementsCas == Spec => ImplementsCasFile
  <1>1. IInv /\ [Next]_vars => [Cas!CasNext]_Cas!casVars
    <2> SUFFICES ASSUME IInv, [Next]_vars PROVE Cas!CasNext \/ UNCHANGED Cas!casVars
      OBVIOUS
    <2>1. CASE \E w \in Writers : WriterStep(w)
      BY <2>1, WriterStepMaps
    <2>2. CASE \E w \in Writers : Preview(w)
      BY <2>2, PreviewMaps
    <2>3. CASE \E w \in Writers : SystemError(w) \/ Crash(w)
      BY <2>3, StopStepMaps
    <2>4. CASE Sweep \/ OutsideEdit \/ UNCHANGED vars
      BY <2>4, EnvironmentMaps
    <2> QED
      BY <2>1, <2>2, <2>3, <2>4 DEF Next
  <1> QED
    BY InitMaps, Invariance, <1>1, PTL DEF Spec, ImplementsCasFile, Cas!CasSpec
-----------------------------------------------------------------------------
(* What a call returns.  Past its rename, a writer's content is in place     *)
(* unless the file was edited from outside since; under the lock no other   *)
(* writer can have replaced it.                                             *)

InPlace(w) == target # Absent /\ target.data = planned[w]

Truth(w) ==
  /\ w \in exporting => w \notin committed
                        /\ pc[w] \notin {"temp", "written", "checked", "renamed", "synced"}
  /\ pc[w] \in {"renamed", "synced"} => w \in committed /\ (w \in disturbed \/ InPlace(w))
  /\ result[w] = "ok" => w \in committed
  /\ result[w] \in {"no_match", "ambiguous_match", "invalid_plan", "workspace_drift"}
       => w \notin committed
  /\ result[w] = "readback_mismatch" => w \in committed \cap disturbed

TruthInv == \A w \in Writers : Truth(w)

\* A step that leaves v where it is, with its result, and takes its content
\* from the file only by an edit from outside.
LEMMA TruthStays ==
  ASSUME TypeOK, NEW v \in Writers, Truth(v),
         pc'[v] = pc[v], result'[v] = result[v], planned'[v] = planned[v],
         v \in committed' <=> v \in committed, disturbed \subseteq disturbed',
         exporting' = exporting,
         pc[v] \in {"renamed", "synced"} => v \in disturbed' \/ target' = target
  PROVE  Truth(v)'
  BY DEF Truth, InPlace

\* A writer that goes on from a point before its rename, to another.
LEMMA TruthEarly ==
  ASSUME IInv, TypeOK', NEW w \in Writers, Truth(w), pc[w] \in Early, NEW q \in Early, Goto(w, q),
         UNCHANGED <<exporting, committed, result>>,
         q \in {"temp", "written", "checked"} => w \notin exporting
  PROVE  Truth(w)'
  <1>1. pc'[w] = q /\ pc' \in [Writers -> Points] /\ w \notin committed
    BY DEF Goto, IInv, TypeOK, At
  <1>2. result'[w] = "none"
    BY <1>1 DEF Early, TypeOK
  <1> QED
    BY <1>1, <1>2 DEF Truth, Early

\* A writer that returns, with a code true of it.
LEMMA TruthReturns ==
  ASSUME IInv, NEW w \in Writers, Truth(w), NEW code, Return(w, code),
         UNCHANGED <<exporting, committed, disturbed>>,
         code = "ok" => w \in committed,
         code \in {"no_match", "ambiguous_match", "invalid_plan", "workspace_drift"}
           => w \notin committed,
         code = "readback_mismatch" => w \in committed \cap disturbed
  PROVE  Truth(w)'
  <1>1. pc'[w] = "done" /\ result'[w] = code
    BY DEF Return, Goto, IInv, TypeOK
  <1> QED
    BY <1>1 DEF Truth

\* What a step of one writer is to the others.
LEMMA TruthOfOthers ==
  ASSUME IInv, TruthInv, NEW w \in Writers, NEW v \in Writers, v # w,
         Preview(w) \/ WriterStep(w) \/ SystemError(w) \/ Crash(w)
  PROVE  Truth(v)'
  <1>1. pc'[v] = pc[v]
    BY DEF Preview, WriterStep, SystemError, Crash, PlanAgain, ReadAgain, OpenLock, TakeLock,
       ExportPatch, CreateTemp, WriteTemp, CheckDrift, Rename, RenameFails, SyncDir, ReadBack,
       Return, Goto, IInv, TypeOK
  <1>2. result'[v] = result[v]
    BY DEF Preview, WriterStep, SystemError, Crash, PlanAgain, ReadAgain, OpenLock, TakeLock,
       ExportPatch, CreateTemp, WriteTemp, CheckDrift, Rename, RenameFails, SyncDir, ReadBack,
       Return, IInv, TypeOK
  <1>3. planned'[v] = planned[v] /\ exporting' = exporting
    BY DEF Preview, WriterStep, SystemError, Crash, PlanAgain, ReadAgain, OpenLock, TakeLock,
       ExportPatch, CreateTemp, WriteTemp, CheckDrift, Rename, RenameFails, SyncDir, ReadBack,
       writerVars, IInv, TypeOK
  <1>4. (v \in committed' <=> v \in committed) /\ disturbed' = disturbed
    BY DEF Preview, WriterStep, SystemError, Crash, PlanAgain, ReadAgain, OpenLock, TakeLock,
       ExportPatch, CreateTemp, WriteTemp, CheckDrift, Rename, RenameFails, SyncDir, ReadBack,
       ghostVars
  <1>5. target' = target \/ pc[w] = "checked"
    BY DEF Preview, WriterStep, SystemError, Crash, PlanAgain, ReadAgain, OpenLock, TakeLock,
       ExportPatch, CreateTemp, WriteTemp, CheckDrift, Rename, RenameFails, SyncDir, ReadBack
  <1>6. pc[w] = "checked" => pc[v] \notin {"renamed", "synced"}
    BY DEF IInv, At, Critical
  <1> QED
    BY <1>1, <1>2, <1>3, <1>4, <1>5, <1>6, TruthStays DEF IInv, TruthInv

LEMMA TruthOfWriter ==
  ASSUME IInv, TypeOK', TruthInv, NEW w \in Writers,
         Preview(w) \/ WriterStep(w) \/ SystemError(w) \/ Crash(w)
  PROVE  Truth(w)'
  <1>1. Truth(w) /\ At(w, pc[w]) /\ pc \in [Writers -> Points]
    BY DEF TruthInv, IInv, TypeOK
  <1>2. PlanError(w, target) \in {"none", "no_match", "ambiguous_match"}
    BY DEF PlanError
  <1>3. CASE Preview(w)
    <2>1. w \notin committed /\ pc[w] = "idle" /\ UNCHANGED <<exporting, committed, disturbed>>
      BY <1>1, <1>3 DEF Preview, At, Early, ghostVars
    <2>2. CASE PlanError(w, target) = "none"
      BY <1>1, <1>3, <2>1, <2>2, TruthEarly DEF Preview, Early
    <2>3. CASE PlanError(w, target) # "none"
      BY <1>1, <1>2, <1>3, <2>1, <2>3, TruthReturns DEF Preview
    <2> QED
      BY <2>2, <2>3
  <1>4. CASE PlanAgain(w)
    <2>1. w \notin committed /\ pc[w] = "approved" /\ UNCHANGED <<exporting, committed, disturbed>>
      BY <1>1, <1>4 DEF PlanAgain, At, Early, ghostVars
    <2>2. CASE PlanError(w, target) = "none"
      BY <1>1, <1>4, <2>1, <2>2, TruthEarly DEF PlanAgain, Early
    <2>3. CASE PlanError(w, target) # "none"
      BY <1>1, <1>2, <1>4, <2>1, <2>3, TruthReturns DEF PlanAgain
    <2> QED
      BY <2>2, <2>3
  <1>5. CASE ReadAgain(w)
    <2>1. w \notin committed /\ pc[w] = "planned" /\ UNCHANGED <<exporting, committed, disturbed>>
      BY <1>1, <1>5 DEF ReadAgain, At, Early, ghostVars, writerVars
    <2>2. CASE Return(w, "io_error") \/ Return(w, "invalid_plan")
      BY <1>1, <2>1, <2>2, TruthReturns
    <2>3. CASE Goto(w, "ready") /\ UNCHANGED <<tempVars, result, lockVars>>
      BY <1>1, <2>1, <2>3, TruthEarly DEF Early
    <2> QED
      BY <1>5, <2>2, <2>3 DEF ReadAgain
  <1>6. CASE OpenLock(w) \/ TakeLock(w) \/ CreateTemp(w) \/ WriteTemp(w)
    <2>1. pc[w] \in Early /\ UNCHANGED <<exporting, committed, result>>
      BY <1>6 DEF OpenLock, TakeLock, CreateTemp, WriteTemp, Early, writerVars, ghostVars
    <2>2. CASE OpenLock(w) \/ TakeLock(w)
      BY <1>1, <2>1, <2>2, TruthEarly DEF OpenLock, TakeLock, Early
    <2>3. CASE CreateTemp(w)
      BY <1>1, <2>1, <2>3, TruthEarly DEF CreateTemp, Early
    <2>4. CASE WriteTemp(w)
      <3>1. w \notin exporting
        BY <1>1, <2>4 DEF WriteTemp, Truth
      <3> QED
        BY <1>1, <2>1, <2>4, <3>1, TruthEarly DEF WriteTemp, Early
    <2> QED
      BY <1>6, <2>2, <2>3, <2>4
  <1>7. CASE CheckDrift(w)
    <2>1. /\ w \notin committed /\ w \notin exporting /\ pc[w] = "written"
          /\ UNCHANGED <<exporting, committed, disturbed>>
      BY <1>1, <1>7 DEF CheckDrift, At, Early, Truth, ghostVars, writerVars
    <2>2. CASE Return(w, "workspace_drift")
      BY <1>1, <2>1, <2>2, TruthReturns
    <2>3. CASE Goto(w, "checked") /\ UNCHANGED <<tempVars, result, lockVars>>
      BY <1>1, <2>1, <2>3, TruthEarly DEF Early
    <2> QED
      BY <1>7, <2>2, <2>3 DEF CheckDrift
  <1>8. CASE ExportPatch(w) \/ RenameFails(w) \/ SystemError(w)
    <2>1. UNCHANGED <<exporting, committed, disturbed>>
      BY <1>8 DEF ExportPatch, RenameFails, SystemError, ghostVars, writerVars
    <2>2. Return(w, "exported") \/ Return(w, "io_error")
      BY <1>8 DEF ExportPatch, RenameFails, SystemError
    <2> QED
      BY <1>1, <2>1, <2>2, TruthReturns
  <1>9. CASE Rename(w)
    <2>1. /\ pc[w] = "checked" /\ pc'[w] = "renamed" /\ w \in committed' /\ result' = result
          /\ UNCHANGED <<exporting, planned, disturbed>>
      BY <1>1, <1>9 DEF Rename, Goto, writerVars
    <2>2. target'.data = temp[w] /\ temp[w] = planned[w] /\ target' # Absent
      <3>1. /\ target'.data = temp[w] /\ temp[w] = planned[w]
            /\ target' \in Files \cup {Absent}
        BY <1>1, <1>9 DEF Rename, At, TypeOK
      <3>2. temp[w] \in Data /\ temp[w] # Absent
        BY <1>1, <1>9, <3>1 DEF Rename, At, Prepared, Critical
      <3>3. target' = [inode |-> inodes + 1,
                       mode  |-> IF before[w] = Absent THEN NewFileMode ELSE before[w].mode,
                       data  |-> temp[w]]
        BY <1>9 DEF Rename
      <3>4. (IF before[w] = Absent THEN NewFileMode ELSE before[w].mode) \in Modes
        BY MutationAssumption DEF MutationAssumption, IInv, TypeOK, Files
      <3>5. target' \in [inode : Nat, mode : Modes, data : Data \cup {Torn}]
        BY <3>2, <3>3, <3>4 DEF IInv, TypeOK, Nodes
      <3> QED
        BY <3>1, <3>5, MutationAssumption DEF MutationAssumption
    <2>3. result[w] = "none" /\ w \notin exporting
      BY <1>1, <2>1 DEF IInv, TypeOK, Truth
    <2> QED
      BY <2>1, <2>2, <2>3 DEF Truth, InPlace
  <1>10. CASE SyncDir(w)
    <2>1. /\ pc[w] = "renamed" /\ pc'[w] = "synced" /\ result' = result
          /\ UNCHANGED <<exporting, planned, target, committed, disturbed>>
      BY <1>1, <1>10 DEF SyncDir, Goto, writerVars, ghostVars
    <2> QED
      BY <1>1, <2>1 DEF Truth, InPlace
  <1>11. CASE ReadBack(w)
    <2>1. pc[w] = "synced" /\ UNCHANGED <<exporting, committed, disturbed>>
      BY <1>11 DEF ReadBack, writerVars, ghostVars
    <2>2. w \in committed /\ (w \in disturbed \/ InPlace(w))
      BY <1>1, <2>1 DEF Truth
    <2>3. CASE InPlace(w)
      BY <1>1, <1>11, <2>1, <2>2, <2>3, TruthReturns DEF ReadBack, InPlace
    <2>4. CASE ~InPlace(w)
      BY <1>1, <1>11, <2>1, <2>2, <2>4, TruthReturns DEF ReadBack, InPlace
    <2> QED
      BY <2>3, <2>4
  <1>12. CASE Crash(w)
    <2>1. /\ pc'[w] = "crashed" /\ result' = result
          /\ UNCHANGED <<exporting, committed, disturbed>>
      BY <1>1, <1>12 DEF Crash, Goto, writerVars, ghostVars
    <2> QED
      BY <1>1, <2>1 DEF Truth
  <1> QED
    BY <1>3, <1>4, <1>5, <1>6, <1>7, <1>8, <1>9, <1>10, <1>11, <1>12 DEF WriterStep

LEMMA NextTruth == IInv /\ TypeOK' /\ TruthInv /\ [Next]_vars => TruthInv'
  <1> SUFFICES ASSUME IInv, TypeOK', TruthInv, [Next]_vars, NEW v \in Writers PROVE Truth(v)'
    BY DEF TruthInv
  <1>1. ASSUME NEW w \in Writers, Preview(w) \/ WriterStep(w) \/ SystemError(w) \/ Crash(w)
        PROVE  Truth(v)'
    BY <1>1, TruthOfWriter, TruthOfOthers
  <1>2. CASE Sweep \/ UNCHANGED vars
    <2>1. UNCHANGED <<pc, result, writerVars, ghostVars, target>>
      BY <1>2 DEF Sweep, Probe, ListTemps, RemoveTemp, SweepDone, vars
    <2> QED
      BY <2>1, TruthStays DEF IInv, TruthInv, writerVars, ghostVars
  <1>3. CASE OutsideEdit
    <2>1. /\ UNCHANGED <<pc, result, writerVars, committed>>
          /\ disturbed' = disturbed \cup {w \in Writers : pc[w] \in {"renamed", "synced"}}
      BY <1>3 DEF OutsideEdit
    <2> QED
      BY <2>1, TruthStays DEF IInv, TruthInv, writerVars
  <1> QED
    BY <1>1, <1>2, <1>3 DEF Next

\* The code a mutation returns tells the truth about the file, for any number
\* of writers, failures, sweeps and edits from outside: "ok" only after its own
\* rename, a drift or a stale plan only without one, and a failed readback only
\* when something other than Shadow Code has been at the file.
THEOREM ResultsAreTrue == Spec => []ResultTellsTheTruth
  <1>1. Init => TruthInv
    BY DEF Init, TruthInv, Truth
  <1>2. TruthInv => ResultTellsTheTruth
    BY DEF TruthInv, Truth, ResultTellsTheTruth
  <1>3. IInv' => TypeOK'
    BY DEF IInv
  <1> QED
    BY Invariance, <1>1, <1>2, <1>3, NextTruth, PTL DEF Spec
=============================================================================
