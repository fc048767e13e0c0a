------------------------------- MODULE Backup -------------------------------
(***************************************************************************)
(* /backup and /restore (shadow_code/ops.py and main.py): the databases    *)
(* are copied file by file and described by a manifest; a restore verifies *)
(* the copies against it, asks, verifies them again and copies them back   *)
(* over files that live sessions have open.                                *)
(*                                                                         *)
(* A database is its main file, of two pages, and a write-ahead log beside *)
(* it, which SQLite reads first and folds into the file now and then.  A   *)
(* commit has a number; a page holds the number of its commit, so the      *)
(* content of a file is its digest.                                        *)
(***************************************************************************)
EXTENDS Integers, Sequences, FiniteSets, Selection

CONSTANTS
  MaxCommits,   \* bound: commits per database
  MaxTampering  \* bound: changes to the backup from outside

ASSUME BackupAssumption == MaxCommits \in Nat \ {0} /\ MaxTampering \in Nat

Labels == <<"sessions", "events">>
LabelSet == {"sessions", "events"}

Missing == <<>>
Cut == <<0, 0>>             \* a file opened for writing, nothing written yet
Version(n) == <<n, n>>
Spoiled == Version(MaxCommits + 1)     \* a copy changed from outside

VARIABLES
  file,       \* the main file of each database
  wal,        \* its write-ahead log: the last commit in it, or nothing
  commits,    \* commits so far
  copy,       \* the files in the backup directory
  manifest,   \* label to digest, or Missing
  stage,      \* what the session is doing
  todo,       \* labels still to do
  targets,    \* the databases the session has a path for
  planned,    \* the entries verified in this pass, in order
  tampering,  \* changes from outside so far
  unsound,    \* ghost: a copy did not match when the applying pass began
  written,    \* ghost: targets the restore has opened for writing
  kept        \* ghost: no commit since the restore began to write

backupVars == <<file, wal, commits, copy, manifest, stage, todo, targets, planned,
                tampering, unsound, written, kept>>
databases == <<file, wal, commits>>
directory == <<copy, manifest>>
ghosts == <<unsound, written, kept>>

BackupInit ==
  /\ file \in [LabelSet -> {Missing, Version(1)}]
  /\ wal = [l \in LabelSet |-> Missing]
  /\ commits = [l \in LabelSet |-> 1]
  /\ copy = [l \in LabelSet |-> Missing] /\ manifest = Missing
  /\ stage = "idle" /\ todo = <<>> /\ planned = <<>>
  /\ targets \in SUBSET LabelSet
  /\ tampering = 0
  /\ unsound = FALSE /\ written = {} /\ kept = TRUE

\* What a connection reads.
Live(l) == IF wal[l] # Missing THEN wal[l] ELSE file[l]

\* Sessions, this one between its commands and others at any time.
Commit(l) ==
  /\ file[l] # Missing /\ commits[l] < MaxCommits
  /\ commits' = [commits EXCEPT ![l] = @ + 1]
  /\ wal' = [wal EXCEPT ![l] = Version(commits'[l])]
  /\ kept' = (kept /\ written = {})
  /\ UNCHANGED <<file, directory, stage, todo, targets, planned, tampering, unsound, written>>

Checkpoint(l) ==
  /\ wal[l] # Missing
  /\ file' = [file EXCEPT ![l] = wal[l]]
  /\ wal' = [wal EXCEPT ![l] = Missing]
  /\ kept' = (kept /\ written = {})
  /\ UNCHANGED <<commits, directory, stage, todo, targets, planned, tampering, unsound, written>>

Tamper(l) ==
  /\ copy[l] # Missing /\ manifest # Missing /\ tampering < MaxTampering
  /\ copy' = [copy EXCEPT ![l] = Spoiled]
  /\ tampering' = tampering + 1
  /\ UNCHANGED <<databases, manifest, stage, todo, targets, planned, ghosts>>

-----------------------------------------------------------------------------
\* backup_databases: a directory of its own, the databases that exist, a page
\* at a time, and the manifest at the very end.
BeginBackup ==
  /\ stage = "idle" /\ manifest = Missing /\ \A l \in LabelSet : copy[l] = Missing
  /\ stage' = "copying"
  /\ todo' = Select(Labels, {l \in targets : file[l] # Missing})
  /\ UNCHANGED <<databases, directory, targets, planned, tampering, ghosts>>

CopyPage ==
  LET l == Head(todo) IN
  /\ stage = "copying" /\ todo # <<>>
  /\ IF copy[l] = Missing
     THEN /\ copy' = [copy EXCEPT ![l] = <<file[l][1], 0>>]
          /\ UNCHANGED todo
     ELSE /\ copy' = [copy EXCEPT ![l] = <<@[1], file[l][2]>>]
          /\ todo' = Tail(todo)
  /\ UNCHANGED <<databases, manifest, stage, targets, planned, tampering, ghosts>>

WriteManifest ==
  /\ stage = "copying" /\ todo = <<>>
  /\ IF \A l \in LabelSet : copy[l] = Missing
     THEN UNCHANGED manifest      \* nothing_to_backup
     ELSE manifest' = copy
  /\ stage' = "idle"
  /\ UNCHANGED <<databases, copy, todo, targets, planned, tampering, ghosts>>

BackupFails ==
  /\ stage = "copying"
  /\ stage' = "idle" /\ todo' = <<>>
  /\ UNCHANGED <<databases, directory, targets, planned, tampering, ghosts>>

-----------------------------------------------------------------------------
\* restore_databases, first as a preview, then to apply.
Entries == Select(Labels, {l \in targets : manifest[l] # Missing})
StartPass(pass) == stage' = pass /\ todo' = Entries /\ planned' = <<>>

BeginRestore ==
  /\ stage = "idle" /\ manifest # Missing /\ written = {}
  /\ StartPass("preview")
  /\ UNCHANGED <<databases, directory, targets, tampering, ghosts>>

Refuse == stage' = "idle" /\ todo' = <<>> /\ planned' = <<>>

VerifyEntry_CopiesAtOnce ==
  LET l == Head(todo) IN
  /\ stage \in {"preview", "verify"} /\ todo # <<>>
  /\ IF copy[l] # manifest[l]
     THEN Refuse /\ UNCHANGED <<file, written>>
     ELSE /\ planned' = Append(planned, l) /\ todo' = Tail(todo)
          /\ file' = IF stage = "verify" THEN [file EXCEPT ![l] = copy[l]] ELSE file
          /\ written' = IF stage = "verify" THEN written \cup {l} ELSE written
          /\ UNCHANGED stage
  /\ UNCHANGED <<wal, commits, directory, targets, tampering, unsound, kept>>

VerifyEntry ==
  LET l == Head(todo) IN
  /\ stage \in {"preview", "verify"} /\ todo # <<>>
  /\ IF copy[l] # manifest[l]
     THEN Refuse
     ELSE planned' = Append(planned, l) /\ todo' = Tail(todo) /\ UNCHANGED stage
  /\ UNCHANGED <<databases, directory, targets, tampering, ghosts>>

\* The plan is shown: a target would change if its main file differs.
WouldChange(l) == file[l] # manifest[l]

ShowPlan ==
  /\ stage = "preview" /\ todo = <<>>
  /\ IF \E i \in DOMAIN planned : WouldChange(planned[i])
     THEN stage' = "ask" /\ UNCHANGED planned
     ELSE stage' = "idle" /\ planned' = <<>>
  /\ UNCHANGED <<databases, directory, todo, targets, tampering, ghosts>>

Decline ==
  /\ stage = "ask"
  /\ Refuse
  /\ UNCHANGED <<databases, directory, targets, tampering, ghosts>>

Confirm ==
  /\ stage = "ask"
  /\ StartPass("verify")
  /\ unsound' = (\E l \in LabelSet \cap targets : copy[l] # manifest[l])
  /\ UNCHANGED <<databases, directory, targets, tampering, written, kept>>

BeginApply ==
  /\ stage = "verify" /\ todo = <<>>
  /\ stage' = "apply" /\ todo' = planned
  /\ UNCHANGED <<databases, directory, targets, planned, tampering, ghosts>>

\* Each target is cut to nothing, and the copy is written over it page by page.
CopyBack ==
  LET l == Head(todo) IN
  /\ stage = "apply" /\ todo # <<>>
  /\ \/ /\ l \notin written
        /\ file' = [file EXCEPT ![l] = Cut]
        /\ written' = written \cup {l}
        /\ UNCHANGED <<todo, kept>>
     \/ /\ l \in written /\ file[l][1] # copy[l][1]
        /\ file' = [file EXCEPT ![l] = <<copy[l][1], @[2]>>]
        /\ UNCHANGED <<todo, written, kept>>
     \/ /\ l \in written /\ file[l][1] = copy[l][1]
        /\ file' = [file EXCEPT ![l] = <<@[1], copy[l][2]>>]
        /\ todo' = Tail(todo)
        /\ UNCHANGED <<written, kept>>
  /\ UNCHANGED <<wal, commits, directory, stage, targets, planned, tampering, unsound>>

Applied ==
  /\ stage = "apply" /\ todo = <<>>
  /\ stage' = "restored"
  /\ UNCHANGED <<databases, directory, todo, targets, planned, tampering, ghosts>>

RestoreFails ==
  /\ stage = "apply" /\ todo # <<>>
  /\ stage' = "failed" /\ todo' = <<>>
  /\ UNCHANGED <<databases, directory, targets, planned, tampering, ghosts>>

Crash ==
  /\ stage \notin {"crashed", "restored"}
  /\ stage' = "crashed" /\ todo' = <<>>
  /\ UNCHANGED <<databases, directory, targets, planned, tampering, ghosts>>

BackupNext ==
  \/ \E l \in LabelSet : Commit(l) \/ Checkpoint(l) \/ Tamper(l)
  \/ BeginBackup \/ CopyPage \/ WriteManifest \/ BackupFails
  \/ BeginRestore \/ VerifyEntry \/ ShowPlan \/ Decline \/ Confirm
  \/ BeginApply \/ CopyBack \/ Applied \/ RestoreFails
  \/ Crash

BackupSpec == BackupInit /\ [][BackupNext]_backupVars

-----------------------------------------------------------------------------
\* README "a tampered backup refuses with nothing written": one copy that does
\* not match leaves every database alone, the ones verified before it too.
TamperedBackupWritesNothing == unsound => written = {}

\* "DB backup restores": when the restore is applied, and no session has written
\* since it began to, every database it lists reads as the backup does.
RestoreTakesEffect ==
  stage = "restored" /\ kept /\ tampering = 0 =>
    \A i \in DOMAIN planned : Live(planned[i]) = manifest[planned[i]]
=============================================================================
