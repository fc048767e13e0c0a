------------------------------ MODULE Session -------------------------------
(***************************************************************************)
(* The process around the engine (shadow_code/main.py): it may be killed   *)
(* at any step of a turn, and every start reads the event log of the most  *)
(* recent session, reports the calls that session left unfinished and asks *)
(* before a fresh session begins (_resolve_pending_events).                *)
(*                                                                         *)
(* Only the most recent session's events are ever read again, so `log`     *)
(* holds that session; a new session starts it afresh.  What the engine    *)
(* holds in memory dies with the process; the log and the ghosts do not.   *)
(***************************************************************************)
EXTENDS AgentEngine

CONSTANT MaxCrashes   \* bound: times the process is killed

ASSUME SessionAssumption == MaxCrashes \in Nat

VARIABLES
  process,       \* "up", "down", or "asking" at startup
  crashes,       \* times the process was killed
  interrupted,   \* ghost: calls whose handler ran and left no logged result
  reported       \* ghost: the ids startup showed to the user

processVars == <<process, crashes, interrupted, reported>>
sessionVars == <<vars, processVars>>

SessionInit ==
  /\ Init
  /\ process = "down"
  /\ crashes = 0
  /\ interrupted = {}
  /\ reported = {}

\* The open round survives and is admitted again by the next process.
LoseMemory_Resumes ==
  /\ state' = "idle" /\ pc' = IF batch = <<>> THEN "idle" ELSE "admit"
  /\ cancel' = FALSE /\ late' = FALSE
  /\ outstanding' = {} /\ token' = 0
  /\ UNCHANGED <<retried, steps, budgetVars, batch, next, pendingResults, rounds, reason,
                 lateStarts, issued>>

\* Everything the engine and the authority keep in memory is gone.
LoseMemory ==
  /\ state' = "idle" /\ pc' = "idle"
  /\ cancel' = FALSE /\ late' = FALSE /\ retried' = FALSE
  /\ steps' = 0 /\ callsSeen' = 0 /\ callsExecuted' = 0 /\ output' = 0
  /\ seen' = [c \in Contents |-> 0]
  /\ batch' = <<>> /\ next' = 1 /\ pendingResults' = <<>> /\ rounds' = <<>>
  /\ reason' = "none" /\ lateStarts' = 0
  /\ outstanding' = {} /\ issued' = issued /\ token' = 0

Unlogged == { s.call : s \in started } \ LoggedResults

\* The process ends: killed at any point of a turn, or left between turns.
\* Whatever ran without a logged result is what the next start must show.
Stop ==
  /\ process = "up"
  /\ process' = "down"
  /\ LoseMemory
  /\ interrupted' = { c \in Unlogged : c \in LoggedProposals }
  /\ reported' = {}
  /\ UNCHANGED <<turn, storeVars, proposed, answered, started, consented>>

Crash ==
  /\ Active
  /\ crashes < MaxCrashes
  /\ crashes' = crashes + 1
  /\ Stop

Exit ==
  /\ ~Active
  /\ Stop
  /\ UNCHANGED crashes

\* A new session id: its session_started makes it the most recent session.
BeginSession ==
  /\ process' = "up"
  /\ log' = <<>>
  /\ UNCHANGED <<state, pc, turn, retried, reason, inputVars, roundVars, budgetVars,
                 storeFailures, authorityVars, ghostVars, crashes, interrupted>>

\* A new session begins without a look at the last one.
StartClean_Blind ==
  /\ process = "down"
  /\ BeginSession
  /\ UNCHANGED reported

\* Nothing is pending in the most recent session.
StartClean ==
  /\ process = "down"
  /\ PendingIds = {}
  /\ BeginSession
  /\ UNCHANGED reported

\* Pending calls are listed and the user is asked.
StartAsking ==
  /\ process = "down"
  /\ PendingIds # {}
  /\ process' = "asking"
  /\ reported' = PendingIds
  /\ UNCHANGED <<vars, crashes, interrupted>>

Abandon ==
  /\ process = "asking"
  /\ BeginSession
  /\ UNCHANGED reported

\* Anything but "y": the process leaves and the record stays.
Leave ==
  /\ process = "asking"
  /\ process' = "down"
  /\ UNCHANGED <<vars, crashes, interrupted, reported>>

SessionNext ==
  \/ process = "up" /\ Next /\ UNCHANGED processVars
  \/ Crash \/ Exit \/ StartClean \/ StartAsking \/ Abandon \/ Leave

SessionSpec == SessionInit /\ [][SessionNext]_sessionVars

-----------------------------------------------------------------------------

\* A new session begins only after the user was shown every call that ran in
\* the previous one and left no result: interrupted work is never passed over
\* in silence.
InterruptedWorkReported ==
  [][process # "up" /\ process' = "up"
       => {CallId(c) : c \in interrupted} \subseteq reported]_sessionVars

\* Resuming never re-executes: across kills and restarts the calls of an
\* earlier process are abandoned - not run, not answered.
ResumeNeverReexecutes == Ledger!LedgerSpec
=============================================================================
