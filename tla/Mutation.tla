------------------------------ MODULE Mutation ------------------------------
(***************************************************************************)
(* File mutations of shadow_code/mutation.py, called by the write_file and *)
(* edit_file handlers of tools/catalog.py, the cooperative flock of        *)
(* policy/workspace.py they commit under, and the /doctor sweep of ops.py  *)
(* that removes the temporary files of killed writers.                     *)
(*                                                                         *)
(* Each member of Writers is one approved call of a process of its own: it *)
(* is previewed, approved, planned again by the handler, and applied.  All *)
(* of them target one file.  Programs that know nothing of the lock may    *)
(* edit, replace, chmod or delete that file at any time but one: the       *)
(* window between the last check and the rename, which the module's threat *)
(* model ("a stable workspace with cooperating writers") leaves open.      *)
(***************************************************************************)
EXTENDS Naturals, FiniteSets

CONSTANTS
  Writers,
  Edits,         \* the writers that are edit_file calls; others write_file
  Data, Modes,   \* file contents and permission bits
  Absent,        \* no file at the path; no temporary file
  Torn,          \* content written in part
  NewFileMode,
  ContentOf,     \* [Writers -> Data]: what a write_file writes
  Matches,       \* [Writers -> [Data -> 0..2]]: occurrences of an edit's text
  Replaced,      \* [Writers -> [Data -> Data]]: the first one replaced
  MaxEdits,      \* bound: edits from outside
  MaxSweeps      \* bound: /doctor runs

ASSUME MutationAssumption ==
  /\ Edits \subseteq Writers
  /\ Torn \notin Data
  /\ Absent \notin [inode : Nat, mode : Modes, data : Data \cup {Torn}]
  /\ NewFileMode \in Modes
  /\ ContentOf \in [Writers -> Data]
  /\ Matches \in [Writers -> [Data -> 0..2]]
  /\ Replaced \in [Writers -> [Data -> Data]]
  /\ MaxEdits \in Nat /\ MaxSweeps \in Nat

VARIABLES
  exporting,   \* the writers of strict sessions, whose mutation_mode is export
  target,      \* the file at the path
  inodes,      \* inode numbers given out
  pc,          \* where each writer is
  preview,     \* the snapshot its approval preview was built from
  before,      \* MutationPlan.before of the plan it executes
  planned,     \* the content that plan's digest is of
  temp,        \* the content of its temporary file
  unremoved,   \* ghost: writers whose unlink of it failed
  result,      \* the code it returned
  lock,        \* holders of the flock: a set of at most one writer
  lockFile,    \* .shadow-code.lock exists
  sweeper,     \* where /doctor is
  listing,     \* temporary files its sweep still has to remove
  sweeps,
  edits,       \* edits from outside so far
  committed,   \* ghost: writers whose rename happened
  disturbed    \* ghost: writers whose file was edited after their rename

writerVars == <<exporting, preview, before, planned>>
tempVars == <<temp, unremoved>>
lockVars == <<lock, lockFile>>
sweepVars == <<sweeper, listing, sweeps>>
ghostVars == <<committed, disturbed>>
vars == <<target, inodes, pc, tempVars, result, edits, writerVars, lockVars, sweepVars, ghostVars>>

Nodes == Nat \ {0}
Files == [inode : Nodes, mode : Modes, data : Data \cup {Torn}]

\* The steps between taking the lock and leaving it.
Critical == {"locked", "temp", "written", "checked", "renamed", "synced"}
Points == {"idle", "approved", "planned", "ready", "waiting", "done", "crashed"} \cup Critical

Codes == {"none", "ok", "exported", "no_match", "ambiguous_match", "invalid_plan",
          "workspace_drift", "io_error", "readback_mismatch"}

\* What build_edit_plan and build_write_plan refuse, of the file they read.
PlanError(w, file) ==
  IF w \notin Edits THEN "none"
  ELSE IF file = Absent \/ Matches[w][file.data] = 0 THEN "no_match"
  ELSE IF Matches[w][file.data] > 1 THEN "ambiguous_match"
  ELSE "none"

\* The content a mutation makes of the file it read.
NewContent(w, file) == IF w \in Edits THEN Replaced[w][file.data] ELSE ContentOf[w]

Init ==
  /\ exporting \in SUBSET Writers
  /\ target \in {Absent} \cup [inode : {1}, mode : Modes, data : Data]
  /\ inodes = 1
  /\ pc = [w \in Writers |-> "idle"]
  /\ preview = [w \in Writers |-> Absent]
  /\ before = [w \in Writers |-> Absent]
  /\ planned = [w \in Writers |-> Torn]
  /\ temp = [w \in Writers |-> Absent] /\ unremoved = {}
  /\ result = [w \in Writers |-> "none"]
  /\ lock = {} /\ lockFile = FALSE
  /\ sweeper = "idle" /\ listing = {} /\ sweeps = 0
  /\ edits = 0
  /\ committed = {} /\ disturbed = {}

Goto(w, point) == pc' = [pc EXCEPT ![w] = point]

\* The temporary file of an aborted mutation stays.
Return_KeepsTemp(w, code) ==
  /\ Goto(w, "done")
  /\ result' = [result EXCEPT ![w] = code]
  /\ lock' = lock \ {w}
  /\ UNCHANGED <<tempVars, lockFile>>

\* The finally's unlink, whose failure is suppressed.
Unlink(w) ==
  \/ temp' = [temp EXCEPT ![w] = Absent] /\ UNCHANGED unremoved
  \/ temp[w] # Absent /\ unremoved' = unremoved \cup {w} /\ UNCHANGED temp

\* An early return forgets the lock.
Return_KeepsLock(w, code) ==
  /\ Goto(w, "done")
  /\ result' = [result EXCEPT ![w] = code]
  /\ Unlink(w)
  /\ UNCHANGED lockVars

\* An aborted mutation leaves no code behind.
Return_NoCode(w, code) ==
  /\ Goto(w, "done")
  /\ Unlink(w)
  /\ lock' = lock \ {w}
  /\ UNCHANGED <<result, lockFile>>

\* The writer returns a code; leaving apply_mutation unlinks the temporary
\* file unless it was renamed, or tries to, and releases the lock.
Return(w, code) ==
  /\ Goto(w, "done")
  /\ result' = [result EXCEPT ![w] = code]
  /\ Unlink(w)
  /\ lock' = lock \ {w}
  /\ UNCHANGED lockFile

\* _mutation_plan_for_call: the plan shown for approval.  Its baseline is not
\* kept; a call whose preview cannot be planned never gets further.
Preview(w) ==
  /\ pc[w] = "idle"
  /\ preview' = [preview EXCEPT ![w] = target]
  /\ IF PlanError(w, target) = "none"
     THEN Goto(w, "approved") /\ UNCHANGED <<tempVars, result, lockVars>>
     ELSE Return(w, PlanError(w, target))
  /\ UNCHANGED <<target, inodes, exporting, before, planned, edits, sweepVars, ghostVars>>

\* The handler plans the approved call again, from the file as it is now.
PlanAgain(w) ==
  /\ pc[w] = "approved"
  /\ IF PlanError(w, target) = "none"
     THEN /\ before' = [before EXCEPT ![w] = target]
          /\ planned' = [planned EXCEPT ![w] = NewContent(w, target)]
          /\ Goto(w, "planned")
          /\ UNCHANGED <<tempVars, result, lockVars>>
     ELSE Return(w, PlanError(w, target)) /\ UNCHANGED <<before, planned>>
  /\ UNCHANGED <<target, inodes, exporting, preview, edits, sweepVars, ghostVars>>

\* The content to write is made from a second read; apply_mutation and
\* render_patch refuse one that is not the content planned.
ReadAgain(w) ==
  /\ pc[w] = "planned"
  /\ IF w \in Edits /\ target = Absent THEN Return(w, "io_error")
     ELSE IF NewContent(w, target) # planned[w] THEN Return(w, "invalid_plan")
     ELSE Goto(w, "ready") /\ UNCHANGED <<tempVars, result, lockVars>>
  /\ UNCHANGED <<target, inodes, writerVars, edits, sweepVars, ghostVars>>

\* mutation_lock: the lock file is created, then flock blocks on it.
OpenLock(w) ==
  /\ pc[w] = "ready"
  /\ lockFile' = TRUE
  /\ Goto(w, "waiting")
  /\ UNCHANGED <<target, inodes, writerVars, tempVars, result, lock, edits, sweepVars, ghostVars>>

\* The flock is shared.
TakeLock_Shared(w) ==
  /\ pc[w] = "waiting"
  /\ lock' = lock \cup {w}
  /\ Goto(w, "locked")
  /\ UNCHANGED <<target, inodes, writerVars, tempVars, result, lockFile, edits, sweepVars, ghostVars>>

TakeLock(w) ==
  /\ pc[w] = "waiting"
  /\ lock = {}
  /\ lock' = {w}
  /\ Goto(w, "locked")
  /\ UNCHANGED <<target, inodes, writerVars, tempVars, result, lockFile, edits, sweepVars, ghostVars>>

-----------------------------------------------------------------------------
(* apply_mutation and export_patch, inside the lock. *)

\* export_patch writes its patch elsewhere and leaves the target alone.
ExportPatch(w) ==
  /\ pc[w] = "locked" /\ w \in exporting
  /\ Return(w, "exported")
  /\ UNCHANGED <<target, inodes, writerVars, edits, sweepVars, ghostVars>>

CreateTemp(w) ==
  /\ pc[w] = "locked" /\ w \notin exporting
  /\ temp' = [temp EXCEPT ![w] = Torn]
  /\ Goto(w, "temp")
  /\ UNCHANGED <<target, inodes, writerVars, unremoved, result, edits, lockVars, sweepVars, ghostVars>>

\* Written, fsynced and given its mode; the sweep may have unlinked it already.
WriteTemp(w) ==
  /\ pc[w] = "temp"
  /\ temp' = [temp EXCEPT ![w] = IF @ = Absent THEN Absent ELSE planned[w]]
  /\ Goto(w, "written")
  /\ UNCHANGED <<target, inodes, writerVars, unremoved, result, edits, lockVars, sweepVars, ghostVars>>

\* _require_no_drift: presence, identity, mode and content of the target are
\* those of the plan's baseline.
NoDrift_ContentOnly(w) ==
  IF target = Absent \/ before[w] = Absent
  THEN target = before[w] ELSE target.data = before[w].data
NoDrift(w) == target = before[w]

\* The pre-commit check.
CheckDrift(w) ==
  /\ pc[w] = "written"
  /\ IF NoDrift(w)
     THEN Goto(w, "checked") /\ UNCHANGED <<tempVars, result, lockVars>>
     ELSE Return(w, "workspace_drift")
  /\ UNCHANGED <<target, inodes, writerVars, edits, sweepVars, ghostVars>>

\* The rename; it fails when the temporary file is gone.
Rename(w) ==
  /\ pc[w] = "checked"
  /\ temp[w] # Absent
  /\ target' = [inode |-> inodes + 1,
                mode  |-> IF before[w] = Absent THEN NewFileMode ELSE before[w].mode,
                data  |-> temp[w]]
  /\ inodes' = inodes + 1
  /\ temp' = [temp EXCEPT ![w] = Absent]
  /\ committed' = committed \cup {w}
  /\ Goto(w, "renamed")
  /\ UNCHANGED <<writerVars, unremoved, result, edits, lockVars, sweepVars, disturbed>>

RenameFails(w) ==
  /\ pc[w] = "checked"
  /\ temp[w] = Absent
  /\ Return(w, "io_error")
  /\ UNCHANGED <<target, inodes, writerVars, edits, sweepVars, ghostVars>>

\* The lock is given up before the readback.
SyncDir_Unlocks(w) ==
  /\ pc[w] = "renamed"
  /\ Goto(w, "synced")
  /\ lock' = lock \ {w}
  /\ UNCHANGED <<target, inodes, writerVars, tempVars, result, lockFile, edits, sweepVars, ghostVars>>

SyncDir(w) ==
  /\ pc[w] = "renamed"
  /\ Goto(w, "synced")
  /\ UNCHANGED <<target, inodes, writerVars, tempVars, result, edits, lockVars, sweepVars, ghostVars>>

\* Post-write readback, still under the lock.
ReadBack(w) ==
  /\ pc[w] = "synced"
  /\ IF target # Absent /\ target.data = planned[w]
     THEN Return(w, "ok") ELSE Return(w, "readback_mismatch")
  /\ UNCHANGED <<target, inodes, writerVars, edits, sweepVars, ghostVars>>

\* Any system call may fail, before the rename or after it.
SystemError(w) ==
  /\ pc[w] \notin {"idle", "done", "crashed"}
  /\ Return(w, "io_error")
  /\ UNCHANGED <<target, inodes, writerVars, edits, sweepVars, ghostVars>>

\* The process is killed: the kernel drops its flock, its temporary file stays.
Crash(w) ==
  /\ pc[w] \notin {"done", "crashed"}
  /\ Goto(w, "crashed")
  /\ lock' = lock \ {w}
  /\ UNCHANGED <<target, inodes, writerVars, tempVars, result, lockFile, edits, sweepVars, ghostVars>>

-----------------------------------------------------------------------------
(* cleanup_stale, run by /doctor. *)

\* The flock is probed - taken without waiting and given up at once - and
\* only if the lock file exists; when it is held, nothing is swept.
Probe ==
  /\ sweeper = "idle" /\ sweeps < MaxSweeps
  /\ sweeps' = sweeps + 1
  /\ sweeper' = IF lockFile /\ lock # {} THEN "idle" ELSE "probed"
  /\ UNCHANGED <<target, inodes, pc, writerVars, tempVars, result, edits, lockVars, listing, ghostVars>>

ListTemps ==
  /\ sweeper = "probed"
  /\ listing' = {w \in Writers : temp[w] # Absent}
  /\ sweeper' = "sweeping"
  /\ UNCHANGED <<target, inodes, pc, writerVars, tempVars, result, edits, lockVars, sweeps, ghostVars>>

\* Best effort: a file that cannot be unlinked is passed over.
RemoveTemp(w) ==
  /\ sweeper = "sweeping" /\ w \in listing
  /\ temp' = [temp EXCEPT ![w] = Absent] \/ UNCHANGED temp
  /\ listing' = listing \ {w}
  /\ UNCHANGED <<target, inodes, pc, writerVars, unremoved, result, edits, lockVars, sweeper, sweeps, ghostVars>>

SweepDone ==
  /\ sweeper = "sweeping" /\ listing = {}
  /\ sweeper' = "idle"
  /\ UNCHANGED <<target, inodes, pc, writerVars, tempVars, result, edits, lockVars, listing, sweeps, ghostVars>>

\* A program that ignores the lock writes the file in place, replaces it,
\* changes its mode, or deletes it.
OutsideEdit ==
  /\ edits < MaxEdits /\ edits' = edits + 1
  /\ \A w \in Writers : pc[w] # "checked"
  /\ \/ target' = Absent /\ UNCHANGED inodes
     \/ /\ target # Absent
        /\ \E m \in Modes, d \in Data : target' = [target EXCEPT !.mode = m, !.data = d]
        /\ UNCHANGED inodes
     \/ /\ inodes' = inodes + 1
        /\ \E m \in Modes, d \in Data : target' = [inode |-> inodes', mode |-> m, data |-> d]
  /\ target' # target
  /\ disturbed' = disturbed \cup {w \in Writers : pc[w] \in {"renamed", "synced"}}
  /\ UNCHANGED <<pc, writerVars, tempVars, result, lockVars, sweepVars, committed>>

-----------------------------------------------------------------------------
WriterStep(w) ==
  \/ PlanAgain(w) \/ ReadAgain(w) \/ OpenLock(w) \/ TakeLock(w)
  \/ ExportPatch(w) \/ CreateTemp(w) \/ WriteTemp(w) \/ CheckDrift(w)
  \/ Rename(w) \/ RenameFails(w) \/ SyncDir(w) \/ ReadBack(w)

Sweep == Probe \/ ListTemps \/ SweepDone \/ \E w \in Writers : RemoveTemp(w)

Next ==
  \/ \E w \in Writers : Preview(w) \/ WriterStep(w) \/ SystemError(w) \/ Crash(w)
  \/ Sweep
  \/ OutsideEdit

Spec == Init /\ [][Next]_vars

\* An approved call runs on a thread of its own process and blocks nowhere
\* but in flock; no fairness is asked of users, failures or outside edits.
FairSpec == Spec /\ \A w \in Writers : WF_vars(WriterStep(w))
-----------------------------------------------------------------------------
TypeOK ==
  /\ exporting \subseteq Writers
  /\ target \in Files \cup {Absent}
  /\ inodes \in Nodes
  /\ pc \in [Writers -> Points]
  /\ preview \in [Writers -> Files \cup {Absent}]
  /\ before \in [Writers -> Files \cup {Absent}]
  /\ planned \in [Writers -> Data \cup {Torn}]
  /\ temp \in [Writers -> Data \cup {Torn, Absent}] /\ unremoved \subseteq Writers
  /\ result \in [Writers -> Codes]
  /\ \A w \in Writers : pc[w] = "done" <=> result[w] # "none"
  /\ lock \subseteq Writers /\ lockFile \in BOOLEAN
  /\ sweeper \in {"idle", "probed", "sweeping"}
  /\ listing \subseteq Writers
  /\ sweeps \in 0..MaxSweeps /\ edits \in 0..MaxEdits
  /\ committed \subseteq Writers /\ disturbed \subseteq Writers

\* Mutations are serialized: from the moment it creates its temporary file to
\* its readback a writer holds the flock, and nobody else does - through
\* failures, crashes that drop the lock, and the probes of the sweep.
CommitsSerialized ==
  \A w \in Writers : pc[w] \in Critical => lock = {w}

\* No path through the mutation - drift, failed calls, a lost temporary file -
\* leaves a temporary file behind, but for a kill and for an unlink that fails
\* itself; and what such an unlink leaves belongs to a call that reported a
\* drift or a failure and never reached the file.
NoTempLeftBehind ==
  \A w \in Writers :
    /\ temp[w] # Absent =>
         pc[w] \in {"temp", "written", "checked", "crashed"} \/ w \in unremoved
    /\ w \in unremoved => w \notin committed /\ result[w] \in {"workspace_drift", "io_error"}

\* What a call returns is the truth about the file: "ok"
\* means this call's content was put there; a drift, a stale plan or a strict
\* session means it never was; and a failed readback is never the doing of
\* another Shadow Code writer.
ResultTellsTheTruth ==
  \A w \in Writers :
    /\ result[w] = "ok" => w \in committed
    /\ w \in exporting \/ result[w] \in {"no_match", "ambiguous_match", "invalid_plan",
                                        "workspace_drift"} => w \notin committed
    /\ result[w] = "readback_mismatch" => w \in committed \cap disturbed

\* The file changes only by edits from outside or by swapping a planned
\* baseline, unchanged to the moment of the rename, for the whole planned
\* content under the baseline's mode: no torn file, no lost update, and a
\* mutation that fails before its rename changes nothing.
Cas == INSTANCE CasFile WITH
  Clients <- Writers,
  file <- target,
  baseline <- before,
  status <- [w \in Writers |->
               IF w \in committed THEN "committed"
               ELSE IF pc[w] \in {"done", "crashed"} THEN "failed"
               ELSE IF pc[w] \in {"idle", "approved"} THEN "open"
               ELSE "planned"],
  Outcome <- LAMBDA w, b, f :
               /\ f.data = NewContent(w, b)
               /\ f.mode = IF b = Absent THEN NewFileMode ELSE b.mode

ImplementsCasFile == Cas!CasSpec

\* An approved mutation is never stuck behind the lock: whatever the other
\* writers do, crashes and failures included, it returns.
ApprovedCallsReturn ==
  \A w \in Writers : (pc[w] = "approved") ~> (pc[w] \in {"done", "crashed"})

\* What README says of drift: the file a mutation replaces is the one its
\* approval preview was made from.
PreviewedFileReplaced == \A w \in Writers : w \in committed => before[w] = preview[w]

\* What README says of the sweep: no temporary file of a live writer that
\* holds the lock is removed.
SweepSparesLiveWriters ==
  \A w \in Writers : pc[w] \in {"temp", "written", "checked"} => temp[w] # Absent
=============================================================================
