----------------------------- MODULE ProcessRun -----------------------------
(***************************************************************************)
(* run_process of shadow_code/process.py behind the bash handler of        *)
(* tools/catalog.py: one shell command with its helpers, the caller that   *)
(* waits for it, and the two threads that drain its output.                *)
(*                                                                         *)
(* The caller waits for the shell alone and joins the drain threads after  *)
(* it, without a time-out: they end when nobody holds the pipes any more.  *)
(***************************************************************************)
EXTENDS Naturals, ProcessGroup

CONSTANTS
  Shell, Helpers,   \* the shell, and the processes it may leave running
  ByteBudget,       \* max_output_chars * 4, per stream
  MaxBytes          \* bound: bytes written to a stream

ASSUME ProcessAssumption ==
  /\ Shell \notin Helpers
  /\ ByteBudget \in Nat /\ MaxBytes \in Nat

VARIABLES
  procPc,      \* where the caller is
  family,      \* the command's processes that still run
  ending,      \* how the wait ended
  written,     \* bytes written to each stream
  retained,    \* bytes kept by its drain thread
  removed      \* removed_bytes of its drain thread

procVars == <<procPc, family, ending, written, retained, removed>>

Procs == {Shell} \cup Helpers
Streams == {"stdout", "stderr"}
ProcEnded == {"returned", "raised", "process_error"}

ProcInit ==
  /\ procPc = "none"
  /\ family = <<>>
  /\ ending = "none"
  /\ written = [s \in Streams |-> 0]
  /\ retained = written
  /\ removed = written

Buffered(s) == written[s] - (retained[s] + removed[s])

ProcIdle == procPc \in {"none"} \cup ProcEnded

\* Popen, with the drain threads started.
Spawn ==
  /\ ProcIdle
  /\ procPc' = "wait"
  /\ family' \in Families(Shell, Helpers)
  /\ ending' = "none"
  /\ written' = [s \in Streams |-> 0]
  /\ retained' = written'
  /\ removed' = written'

\* Popen fails: the handler answers process_error.
SpawnFails ==
  /\ ProcIdle
  /\ procPc' = "process_error"
  /\ ending' = "none"
  /\ UNCHANGED <<family, written, retained, removed>>

ShellEnds ==
  /\ procPc = "wait" /\ Shell \notin Alive(family)
  /\ ending' = "exited"
  /\ procPc' = "join"
  /\ UNCHANGED <<family, written, retained, removed>>

\* wait(timeout) expires - the shell may end at that very moment - or a
\* KeyboardInterrupt arrives.
WaitAborted(why) ==
  /\ procPc = "wait"
  /\ ending' = why
  /\ procPc' = "terminate"
  /\ UNCHANGED <<family, written, retained, removed>>

AfterGroupKill == IF ending = "interrupted" THEN "raised" ELSE "join"

\* SIGTERM to the whole group.
Terminate ==
  /\ procPc = "terminate"
  /\ family' = AfterTerm(family)
  /\ procPc' = "grace"
  /\ UNCHANGED <<ending, written, retained, removed>>

\* The shell dies within the grace period: no SIGKILL follows.
LeaderReaped ==
  /\ procPc = "grace" /\ Shell \notin Alive(family)
  /\ procPc' = AfterGroupKill
  /\ UNCHANGED <<family, ending, written, retained, removed>>

KillGroup_Waits ==
  /\ procPc = "grace" /\ Shell \notin Alive(family)
  /\ procPc' = AfterGroupKill
  /\ UNCHANGED <<family, ending, written, retained, removed>>

KillGroup ==
  /\ procPc = "grace" /\ Shell \in Alive(family)
  /\ family' = AfterKill(family)
  /\ procPc' = AfterGroupKill
  /\ UNCHANGED <<ending, written, retained, removed>>

\* finish() of both readers: everything drained, and end of file on the pipe.
ReadersJoined ==
  /\ procPc = "join"
  /\ ~PipesHeld(family)
  /\ \A s \in Streams : Buffered(s) = 0
  /\ procPc' = "returned"
  /\ UNCHANGED <<family, ending, written, retained, removed>>

ProcCaller ==
  \/ ShellEnds \/ WaitAborted("timed_out") \/ WaitAborted("interrupted")
  \/ Terminate \/ LeaderReaped \/ KillGroup \/ ReadersJoined

\* _drain: one chunk, of which what has room is kept and the rest counted.
Kept_ForgetsRetained(s, chunk) == IF chunk < ByteBudget THEN chunk ELSE ByteBudget

Kept(s, chunk) ==
  LET room == ByteBudget - retained[s] IN IF chunk < room THEN chunk ELSE room

Drain(s, chunk) ==
  /\ procPc \notin {"none", "process_error"}
  /\ chunk \in 1..Buffered(s)
  /\ retained' = [retained EXCEPT ![s] = @ + Kept(s, chunk)]
  /\ removed' = [removed EXCEPT ![s] = @ + chunk - Kept(s, chunk)]
  /\ UNCHANGED <<procPc, family, ending, written>>

ProcessWrites(p, s) ==
  /\ p \in Alive(family) /\ family[p].holdsPipes
  /\ written[s] < MaxBytes
  /\ written' = [written EXCEPT ![s] = @ + 1]
  /\ UNCHANGED <<procPc, family, ending, retained, removed>>

ProcessExits(p) ==
  /\ p \in Alive(family)
  /\ family' = Without(family, p)
  /\ UNCHANGED <<procPc, ending, written, retained, removed>>

ProcWorld ==
  \/ \E s \in Streams : \E chunk \in 1..Buffered(s) : Drain(s, chunk)
  \/ \E p \in Alive(family) : ProcessExits(p) \/ \E s \in Streams : ProcessWrites(p, s)

ProcNext == Spawn \/ SpawnFails \/ ProcCaller \/ ProcWorld

\* The caller runs on, time-outs included, and the drain threads read; no
\* process owes its end.
ProcFairness ==
  /\ WF_procVars(ShellEnds \/ WaitAborted("timed_out"))
  /\ WF_procVars(Terminate \/ LeaderReaped \/ KillGroup)
  /\ WF_procVars(ReadersJoined)
  /\ \A s \in Streams : WF_procVars(\E chunk \in 1..Buffered(s) : Drain(s, chunk))

ProcSpec == ProcInit /\ [][ProcNext]_procVars /\ ProcFairness

-----------------------------------------------------------------------------
ProcTypeOK ==
  /\ procPc \in {"none", "wait", "terminate", "grace", "join"} \cup ProcEnded
  /\ Alive(family) \subseteq Procs
  /\ ending \in {"none", "exited", "timed_out", "interrupted"}
  /\ \A s \in Streams : retained[s] + removed[s] <= written[s]

\* A returned command has accounted for every byte its processes wrote: the
\* first ByteBudget of them are kept, the rest counted as removed - however
\* the chunks fell and whoever wrote last.
OutputAccounted ==
  procPc = "returned" =>
    \A s \in Streams :
      /\ retained[s] + removed[s] = written[s]
      /\ retained[s] = IF written[s] < ByteBudget THEN written[s] ELSE ByteBudget

\* The run_process docstring: "On timeout the whole process group is
\* SIGTERMed then SIGKILLed", which the handler's output repeats.
TimedOutGroupIsDead ==
  ending = "timed_out" /\ procPc = "returned" =>
    \A p \in Alive(family) : ~family[p].member

\* A command comes back, by itself or by its time-out; only a survivor that
\* keeps the pipes can hold its caller.
CommandReturns ==
  []<>(ProcIdle \/ (procPc = "join" /\ PipesHeld(family)))
=============================================================================
