----------------------------- MODULE LegacyLoop -----------------------------
(***************************************************************************)
(* The legacy tool loop (shadow_code/main.py, parser.py, tools/): the text *)
(* of a completed turn may carry fenced tool calls, which are dispatched   *)
(* one after another without the engine's gates, and their results go back *)
(* to the model in the next turn.  The file tools write in place; the only *)
(* guards are the set of paths that were read and the in-memory backups.   *)
(*                                                                         *)
(* A file is a sequence of pieces of text.  What a call is, is chosen when *)
(* it is dispatched; a response only fixes how many there are.             *)
(***************************************************************************)
EXTENDS Naturals, Sequences, FiniteSets

CONSTANTS
  Files,         \* absolute paths the tools are given
  Blocked,       \* those of them under BLOCKED_PATHS
  Pieces,        \* pieces of text
  MaxLength,     \* bound: pieces of a file
  MaxToolTurns,  \* MAX_TOOL_TURNS
  NativeSteps,   \* rounds the engine may run inside one turn
  MaxErrors,     \* MAX_CONSECUTIVE_ERRORS
  MaxFences,     \* bound: calls of one response
  MaxPrompts     \* bound: messages of the user

ASSUME LegacyAssumption ==
  /\ Blocked \subseteq Files
  /\ {MaxLength, MaxToolTurns, NativeSteps, MaxErrors, MaxFences, MaxPrompts} \subseteq Nat

VARIABLES
  files,      \* what is at each path
  readFiles,  \* ToolContext.read_files
  backups,    \* ToolContext.backups
  cwd,        \* the working directory still exists
  where,      \* the point of the loop
  prompts,    \* messages of the user
  turns,      \* turns counted for this message
  errors,     \* failures in a row
  calls,      \* calls of the response being dispatched
  results,    \* results formatted for it
  saved       \* ghost: what file_backup last promised to keep of each path

legacyVars == <<files, readFiles, backups, cwd, where, prompts, turns, errors, calls,
                results, saved>>
loopVars == <<where, prompts, turns, errors, calls, results>>

FileTexts == UNION {[1..n -> Pieces] : n \in 0..MaxLength}
Text(t) == [kind |-> "text", text |-> t]
Special(kind) == [kind |-> kind, text |-> <<>>]
Nodes == {Text(t) : t \in FileTexts} \cup {Special(k) : k \in {"absent", "dir", "binary", "locked"}}
Absent == Special("absent")
Emptied == Text(<<>>)
NoBackup == Special("none")

LegacyInit ==
  /\ files \in [Files -> {Absent, Special("locked")} \cup {Text(<<p>>) : p \in Pieces}]
  /\ readFiles = {} /\ cwd = TRUE
  /\ backups = [f \in Files |-> NoBackup] /\ saved = backups
  /\ where = "prompt" /\ prompts = 0 /\ turns = 0 /\ errors = 0
  /\ calls = 0 /\ results = 0

\* Other programs, and commands the model ran, change files at any time.
OutsideChange(f) ==
  /\ \E node \in {Absent, Special("dir"), Special("binary")} : files' = [files EXCEPT ![f] = node]
  /\ files[f].kind # "locked"
  /\ UNCHANGED <<readFiles, backups, cwd, loopVars, saved>>

DirectoryRemoved ==
  /\ cwd' = FALSE /\ cwd
  /\ UNCHANGED <<files, readFiles, backups, loopVars, saved>>

-----------------------------------------------------------------------------
TakePrompt ==
  /\ where = "prompt" /\ prompts < MaxPrompts
  /\ prompts' = prompts + 1
  /\ where' = "loop" /\ turns' = 0 /\ errors' = 0
  /\ UNCHANGED <<files, readFiles, backups, cwd, calls, results, saved>>

\* The closed fences that hold a call or no JSON count as calls, other JSON is
\* skipped; a fence left open counts only when nothing else did.
Recognised(closed, open) == IF closed = 0 /\ open THEN 1 ELSE closed

\* engine.run_turn: the loop is over unless it completed with text that holds
\* calls.
EngineTurn ==
  /\ where = "loop" /\ turns < MaxToolTurns
  /\ \E steps \in 0..NativeSteps, closed \in 0..MaxFences, open \in BOOLEAN :
       /\ turns' = turns + steps
       /\ calls' = Recognised(closed, open)
       /\ where' = IF calls' = 0 THEN "prompt" ELSE "dispatch"
  /\ results' = 0
  /\ UNCHANGED <<files, readFiles, backups, cwd, prompts, errors, saved>>

ToolLimit ==
  /\ where = "loop" /\ turns >= MaxToolTurns
  /\ where' = "prompt"
  /\ UNCHANGED <<files, readFiles, backups, cwd, prompts, turns, errors, calls, results, saved>>

Dispatching == where = "dispatch" /\ results < calls

\* format_result: success resets the count of errors, failure adds to it.
Result(success) ==
  /\ results' = results + 1
  /\ errors' = IF success THEN 0 ELSE errors + 1
  /\ UNCHANGED <<where, prompts, turns, calls>>

\* The results are one message to the model, and a turn.
FeedBack ==
  /\ where = "dispatch" /\ results = calls
  /\ turns' = turns + 1
  /\ where' = IF errors >= MaxErrors THEN "prompt" ELSE "loop"
  /\ UNCHANGED <<files, readFiles, backups, cwd, prompts, errors, calls, results, saved>>

\* Invalid JSON, an unknown tool, parameters that do not validate, an exception
\* inside a tool.
CallFails ==
  /\ Dispatching
  /\ Result(FALSE)
  /\ UNCHANGED <<files, readFiles, backups, cwd, saved>>

\* A command that is not text: validation is outside of dispatch's handler, and
\* the exception leaves the loop.  The full-screen driver reports it and takes
\* the next message; the line loop dies of it, and its memory with it.
CallRaises ==
  /\ Dispatching
  /\ \/ where' = "prompt" /\ UNCHANGED <<readFiles, backups>>
     \/ /\ where' = "dead"
        /\ readFiles' = {} /\ backups' = [f \in Files |-> NoBackup]
  /\ UNCHANGED <<files, cwd, prompts, turns, errors, calls, results, saved>>

-----------------------------------------------------------------------------
\* read_file, and multi_read over several paths, which always succeeds.
Readable(f) == f \notin Blocked /\ files[f].kind = "text"

ReadFile(f) ==
  /\ Dispatching
  /\ \E beyond \in BOOLEAN :
       LET shown == Readable(f) /\ ~(beyond /\ files[f].text # <<>>)
       IN  /\ Result(shown)
           /\ readFiles' = IF shown THEN readFiles \cup {f} ELSE readFiles
  /\ UNCHANGED <<files, backups, cwd, saved>>

MultiRead ==
  /\ Dispatching
  /\ \E paths \in SUBSET Files \ {{}} : readFiles' = readFiles \cup {f \in paths : Readable(f)}
  /\ Result(TRUE)
  /\ UNCHANGED <<files, backups, cwd, saved>>

\* open(path, "w") empties the file before the text is encoded and written.
WriteInPlace(f, text) ==
  \/ /\ files[f].kind # "locked"
     /\ files' = [files EXCEPT ![f] = Text(text)]
     /\ Result(TRUE)
  \/ /\ files[f].kind # "locked"
     /\ files' = [files EXCEPT ![f] = Emptied]
     /\ Result(FALSE)
  \/ files[f].kind = "locked" /\ UNCHANGED files /\ Result(FALSE)

WriteFileTool(f) ==
  /\ Dispatching
  /\ IF files[f].kind = "dir" \/ (files[f].kind # "absent" /\ f \notin readFiles)
     THEN UNCHANGED files /\ Result(FALSE)
     ELSE \E text \in FileTexts : WriteInPlace(f, text)
  /\ UNCHANGED <<readFiles, backups, cwd, saved>>

\* Appending asks for no reading first.
AppendFile(f) ==
  /\ Dispatching
  /\ CASE files[f].kind = "text" ->
            \E p \in Pieces : /\ Len(files[f].text) < MaxLength
                             /\ files' = [files EXCEPT ![f].text = Append(@, p)]
                             /\ Result(TRUE)
       [] files[f].kind = "binary" -> UNCHANGED files /\ Result(TRUE)
       [] OTHER -> UNCHANGED files /\ Result(FALSE)
  /\ UNCHANGED <<readFiles, backups, cwd, saved>>

Positions(f, old) == {i \in DOMAIN files[f].text : files[f].text[i] = old}
Replace(f, at, new) == [i \in DOMAIN files[f].text |-> IF i \in at THEN new ELSE files[f].text[i]]

\* What it finds in a file that has turned binary is not told apart here.
EditBinary(f) ==
  \/ \E found \in BOOLEAN : UNCHANGED files /\ Result(found)
  \/ files' = [files EXCEPT ![f] = Emptied] /\ Result(FALSE)

EditFile(f) ==
  /\ Dispatching
  /\ \E old, new \in Pieces, all \in BOOLEAN :
       LET found == Positions(f, old) IN
       IF \/ f \notin readFiles \/ old = new \/ files[f].kind \notin {"text", "binary"}
          \/ files[f].kind = "text" /\ (found = {} \/ (~all /\ Cardinality(found) > 1))
       THEN UNCHANGED files /\ Result(FALSE)
       ELSE IF files[f].kind = "text" THEN WriteInPlace(f, Replace(f, found, new))
       ELSE EditBinary(f)
  /\ UNCHANGED <<readFiles, backups, cwd, saved>>

FileBackup(f) ==
  LET kept == files[f].kind \in {"text", "binary"} IN
  /\ Dispatching
  /\ backups' = IF kept THEN [backups EXCEPT ![f] = files[f]] ELSE backups
  /\ saved' = IF kept THEN [saved EXCEPT ![f] = files[f]] ELSE saved
  /\ Result(kept)
  /\ UNCHANGED <<files, readFiles, cwd>>

FileRestore_PopsFirst(f) ==
  /\ Dispatching
  /\ IF backups[f] = NoBackup
     THEN UNCHANGED <<files, backups, saved>> /\ Result(FALSE)
     ELSE /\ backups' = [backups EXCEPT ![f] = NoBackup]
          /\ \/ /\ files[f].kind \notin {"dir", "locked"}
                /\ files' = [files EXCEPT ![f] = backups[f]]
                /\ saved' = [saved EXCEPT ![f] = NoBackup]
                /\ Result(TRUE)
             \/ /\ files[f].kind \in {"dir", "locked"}
                /\ UNCHANGED <<files, saved>> /\ Result(FALSE)
  /\ UNCHANGED <<readFiles, cwd>>

\* The backup is given up only when the file has been written.
FileRestore(f) ==
  /\ Dispatching
  /\ IF backups[f] = NoBackup \/ files[f].kind \in {"dir", "locked"}
     THEN UNCHANGED <<files, backups, saved>> /\ Result(FALSE)
     ELSE \/ /\ files' = [files EXCEPT ![f] = backups[f]]
             /\ backups' = [backups EXCEPT ![f] = NoBackup]
             /\ saved' = [saved EXCEPT ![f] = NoBackup]
             /\ Result(TRUE)
          \/ /\ files' = [files EXCEPT ![f] = Emptied]
             /\ UNCHANGED <<backups, saved>> /\ Result(FALSE)
  /\ UNCHANGED <<readFiles, cwd>>

\* A destructive command is asked about; when declined it is answered, but
\* does not count as an error.  Any command needs the working directory.
DeclineCommand ==
  /\ Dispatching
  /\ results' = results + 1
  /\ UNCHANGED <<files, readFiles, backups, cwd, where, prompts, turns, errors, calls, saved>>

Bash ==
  /\ Dispatching
  /\ \E exits \in BOOLEAN : Result(cwd /\ exits)
  /\ UNCHANGED <<files, readFiles, backups, cwd, saved>>

\* A command that begins with cd moves the session, to a directory that exists.
ChangeDirectory ==
  /\ Dispatching /\ cwd
  /\ Result(TRUE)
  /\ UNCHANGED <<files, readFiles, backups, cwd, saved>>

LegacyNext ==
  \/ TakePrompt \/ EngineTurn \/ ToolLimit \/ FeedBack \/ CallFails \/ CallRaises
  \/ \E f \in Files :
       \/ ReadFile(f) \/ WriteFileTool(f) \/ AppendFile(f) \/ EditFile(f)
       \/ FileBackup(f) \/ FileRestore(f) \/ OutsideChange(f)
  \/ MultiRead \/ DeclineCommand \/ Bash \/ ChangeDirectory \/ DirectoryRemoved

LegacySpec == LegacyInit /\ [][LegacyNext]_legacyVars

-----------------------------------------------------------------------------
\* What file_backup said it keeps is there until file_restore said it is back,
\* whatever calls fail in between, as long as the program runs.
BackupNeverLost ==
  where # "dead" => \A f \in Files : saved[f] # NoBackup => backups[f] = saved[f]
=============================================================================
