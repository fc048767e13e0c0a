---------------------------- MODULE ToolsProofs -----------------------------
(***************************************************************************)
(* Proofs about what a session waits for: the executor's gate, the output  *)
(* of a shell command, the MCP client, consent in the full-screen frontend *)
(* and a round of the provider - for every value of their constants.       *)
(***************************************************************************)
EXTENDS Executor, ProcessRun, McpClient, TuiBridge, ProviderStream, FoldTheorems, SequenceTheorems

-----------------------------------------------------------------------------
(***************************************************************************)
(* The executor's gate, for every set of calls and plan facts and any      *)
(* number of grants.                                                       *)
(***************************************************************************)
\* What is outstanding was granted, to that plan, and has run nothing yet;
\* tokens not issued yet have run nothing and were shown to nobody.
OutstandingInv ==
  /\ Len(granted) = issued
  /\ \A g \in outstanding :
       /\ g.token \in 1..issued
       /\ g.digest = granted[g.token]
       /\ Len(dispatched[g.token]) = 0
  /\ presented \subseteq 1..issued

GateInv == ExecutorTypeOK /\ OutstandingInv /\ OneDispatchPerGrant /\ PresentedIsSpent

-----------------------------------------------------------------------------
LEMMA BoundIsNat == MaxTokens \in Nat
  BY ExecutorAssumption DEF ExecutorAssumption

LEMMA GateInitHolds == ExecutorInit => GateInv
  <1> SUFFICES ASSUME ExecutorInit PROVE GateInv
    OBVIOUS
  <1>1. \A t \in Tokens : dispatched[t] = <<>>
    BY DEF ExecutorInit
  <1>2. dispatched \in [Tokens -> Seq(Plans)]
    BY DEF ExecutorInit
  <1>3. granted = <<>> /\ granted \in Seq(Plans) /\ Len(granted) = 0
    BY DEF ExecutorInit
  <1>4. ExecutorTypeOK
    <2>1. issued \in Nat /\ issued \in 0..MaxTokens
      BY BoundIsNat DEF ExecutorInit, AuthorityInit
    <2>2. /\ outstanding \subseteq Grants
          /\ answer \in Answers
          /\ presented \subseteq Tokens
      BY DEF ExecutorInit, AuthorityInit, Answers
    <2> QED
      BY <1>2, <1>3, <2>1, <2>2 DEF ExecutorTypeOK, AuthorityTypeOK
  <1>5. OutstandingInv /\ PresentedIsSpent
    BY <1>3 DEF ExecutorInit, OutstandingInv, PresentedIsSpent, AuthorityInit
  <1>6. OneDispatchPerGrant
    BY <1>1 DEF OneDispatchPerGrant
  <1> QED
    BY <1>4, <1>5, <1>6 DEF GateInv

\* A fresh grant: its token is new to the ghosts.
LEMMA ApproveStep ==
  ASSUME GateInv, NEW plan \in Plans, Approve(plan)
  PROVE  GateInv'
  <1> DEFINE fresh == [token |-> issued + 1, digest |-> plan]
  <1>1. /\ issued \in Nat /\ issued < MaxTokens /\ issued' = issued + 1
        /\ outstanding' = outstanding \cup {fresh}
        /\ granted' = Append(granted, plan)
        /\ answer' = answer /\ dispatched' = dispatched /\ presented' = presented
    BY DEF Approve, Issue, GateInv, ExecutorTypeOK, AuthorityTypeOK
  <1>2. /\ granted' \in Seq(Plans) /\ Len(granted') = issued'
        /\ granted'[issued + 1] = plan
        /\ \A i \in 1..issued : granted'[i] = granted[i]
    BY <1>1 DEF GateInv, ExecutorTypeOK, OutstandingInv
  <1>3. Len(dispatched[issued + 1]) = 0
    <2> DEFINE n == Len(dispatched[issued + 1])
    <2>1. issued + 1 \in Tokens
      BY <1>1, BoundIsNat DEF Tokens
    <2>2. n \in Nat
      BY <2>1, LenProperties DEF GateInv, ExecutorTypeOK
    <2>3. n <= 1 /\ (n = 1 => issued + 1 <= issued)
      BY <2>1 DEF GateInv, OneDispatchPerGrant, OutstandingInv
    <2>4. n # 1
      BY <1>1, <2>3
    <2> HIDE DEF n
    <2>5. n = 0
      BY <2>2, <2>3, <2>4
    <2> QED
      BY <2>5 DEF n
  <1>4. ExecutorTypeOK'
    <2>1. issued' \in Nat /\ issued' \in 0..MaxTokens /\ fresh.token \in Nat \ {0}
      BY <1>1, BoundIsNat
    <2>2. fresh \in Grants
      BY <2>1 DEF Grants
    <2>3. outstanding' \subseteq Grants
      BY <1>1, <2>2 DEF GateInv, ExecutorTypeOK, AuthorityTypeOK
    <2> QED
      BY <1>1, <1>2, <2>1, <2>3 DEF GateInv, ExecutorTypeOK, AuthorityTypeOK
  <1>5. OutstandingInv'
    <2>1. ASSUME NEW g \in outstanding'
          PROVE  /\ g.token \in 1..issued' /\ g.digest = granted'[g.token]
                 /\ Len(dispatched'[g.token]) = 0
      BY <1>1, <1>2, <1>3, <2>1 DEF GateInv, OutstandingInv
    <2>2. presented' \subseteq 1..issued'
      BY <1>1 DEF GateInv, OutstandingInv
    <2> QED
      BY <1>2, <2>1, <2>2 DEF OutstandingInv
  <1>6. OneDispatchPerGrant'
    BY <1>1, <1>2 DEF GateInv, OneDispatchPerGrant, OutstandingInv, Tokens
  <1>7. PresentedIsSpent'
    BY <1>1 DEF GateInv, PresentedIsSpent, OutstandingInv
  <1> QED
    BY <1>4, <1>5, <1>6, <1>7 DEF GateInv

\* Nothing but the answer changes where the authority is not asked.
LEMMA UnaskedStep ==
  ASSUME GateInv, answer' \in Answers,
         UNCHANGED <<outstanding, issued, granted, dispatched, presented>>
  PROVE  GateInv'
  <1>1. ExecutorTypeOK'
    BY DEF GateInv, ExecutorTypeOK, AuthorityTypeOK
  <1>2. OutstandingInv' /\ OneDispatchPerGrant' /\ PresentedIsSpent'
    BY DEF GateInv, OutstandingInv, OneDispatchPerGrant, PresentedIsSpent
  <1> QED
    BY <1>1, <1>2 DEF GateInv

\* The token is burned whatever the verdict; the handler runs on the plan
\* the token was granted for, which has run nothing before.
LEMMA ExecuteStep ==
  ASSUME GateInv, NEW call \in Calls, NEW token \in Tokens, NEW plan \in Plans,
         ExecuteApproved(call, token, plan)
  PROVE  GateInv'
  <1>1. /\ outstanding' = {g \in outstanding : g.token # token}
        /\ issued' = issued /\ granted' = granted
        /\ presented' = presented \cup ({token} \cap 1..issued)
    BY DEF ExecuteApproved, Burn
  <1>2. /\ answer' \in Answers
        /\ dispatched' \in [Tokens -> Seq(Plans)]
        /\ \A t \in Tokens : t # token => dispatched'[t] = dispatched[t]
    <2>1. dispatched \in [Tokens -> Seq(Plans)]
      BY DEF GateInv, ExecutorTypeOK
    <2>2. CASE Honors(token, plan)
      <3>1. /\ answer' = "handler_result"
            /\ dispatched' = [dispatched EXCEPT ![token] = Append(dispatched[token], plan)]
        BY <2>2 DEF ExecuteApproved, RunUnder
      <3>2. Append(dispatched[token], plan) \in Seq(Plans)
        BY <2>1, AppendProperties
      <3> QED
        BY <2>1, <3>1, <3>2 DEF Answers
    <2>3. CASE ~Honors(token, plan)
      BY <2>1, <2>3 DEF ExecuteApproved, RunUnder, Answers
    <2> QED
      BY <2>2, <2>3
  <1> DEFINE MayHaveRun(t) ==
        /\ Len(dispatched'[t]) <= 1
        /\ Len(dispatched'[t]) = 1 =>
             t <= Len(granted') /\ dispatched'[t][1] = granted'[t]
  <1>3. ASSUME Honors(token, plan) PROVE MayHaveRun(token)
    <2>1. /\ token \in 1..issued /\ plan = granted[token]
          /\ Len(dispatched[token]) = 0 /\ Len(granted) = issued
      BY <1>3 DEF Honors, GateInv, OutstandingInv
    <2>2. dispatched[token] \in Seq(Plans) /\ issued \in Nat
      BY DEF GateInv, ExecutorTypeOK, AuthorityTypeOK
    <2>3. dispatched'[token] = Append(dispatched[token], plan)
      BY <1>3 DEF ExecuteApproved, RunUnder, GateInv, ExecutorTypeOK
    <2>4. /\ Len(Append(dispatched[token], plan)) = 1
          /\ Append(dispatched[token], plan)[1] = plan
      BY <2>1, <2>2, AppendProperties
    <2> QED
      BY <1>1, <2>1, <2>2, <2>3, <2>4
  <1>4. ASSUME ~Honors(token, plan) PROVE MayHaveRun(token)
    BY <1>1, <1>4 DEF ExecuteApproved, RunUnder, GateInv, OneDispatchPerGrant
  <1>5. OneDispatchPerGrant'
    <2>1. ASSUME NEW t \in Tokens PROVE MayHaveRun(t)
      <3>1. CASE t = token
        BY <1>3, <1>4, <3>1
      <3>2. CASE t # token
        BY <1>1, <1>2, <3>2 DEF GateInv, OneDispatchPerGrant
      <3> QED
        BY <3>1, <3>2
    <2> QED
      BY <2>1 DEF OneDispatchPerGrant
  <1>6. ExecutorTypeOK'
    BY <1>1, <1>2 DEF GateInv, ExecutorTypeOK, AuthorityTypeOK
  <1>7. OutstandingInv'
    <2>1. ASSUME NEW g \in outstanding'
          PROVE  /\ g.token \in 1..issued' /\ g.digest = granted'[g.token]
                 /\ Len(dispatched'[g.token]) = 0
      <3>1. g \in outstanding /\ g.token # token /\ g.token \in 1..issued
        BY <1>1 DEF GateInv, OutstandingInv
      <3>2. g.token \in Tokens
        BY <3>1, BoundIsNat DEF GateInv, ExecutorTypeOK, Tokens
      <3> QED
        BY <1>1, <1>2, <3>1, <3>2 DEF GateInv, OutstandingInv
    <2>2. Len(granted') = issued' /\ presented' \subseteq 1..issued'
      BY <1>1 DEF GateInv, OutstandingInv
    <2> QED
      BY <2>1, <2>2 DEF OutstandingInv
  <1>8. PresentedIsSpent'
    BY <1>1 DEF GateInv, PresentedIsSpent
  <1> QED
    BY <1>5, <1>6, <1>7, <1>8 DEF GateInv

-----------------------------------------------------------------------------
\* Every reachable state satisfies the inductive invariant.
THEOREM GateInvariance == ExecutorSpec => []GateInv
  <1>1. GateInv /\ [ExecutorNext]_executorVars => GateInv'
    <2> SUFFICES ASSUME GateInv, [ExecutorNext]_executorVars PROVE GateInv'
      OBVIOUS
    <2>1. CASE \E plan \in Plans : Approve(plan)
      BY <2>1, ApproveStep
    <2>2. CASE \E call \in Calls : ExecuteUnbound(call)
      BY <2>2, UnaskedStep DEF ExecuteUnbound, Answers
    <2>3. CASE \E call \in Calls, token \in Tokens \cup {0}, plan \in Plans \cup {Absent},
                  authority \in BOOLEAN : RefuseUnasked(call, token, plan, authority)
      BY <2>3, UnaskedStep DEF RefuseUnasked, Answers
    <2>4. CASE \E call \in Calls, token \in Tokens, plan \in Plans :
                 ExecuteApproved(call, token, plan)
      BY <2>4, ExecuteStep
    <2>5. CASE UNCHANGED executorVars
      BY <2>5, UnaskedStep DEF executorVars, GateInv, ExecutorTypeOK
    <2> QED
      BY <2>1, <2>2, <2>3, <2>4, <2>5 DEF ExecutorNext
  <1> QED
    BY GateInitHolds, <1>1, PTL DEF ExecutorSpec

\* Types hold for every set of calls and facts (executor.py, approval.py).
THEOREM GateTypeCorrect == ExecutorSpec => []ExecutorTypeOK
  <1>1. GateInv => ExecutorTypeOK
    BY DEF GateInv
  <1> QED
    BY GateInvariance, <1>1, PTL

\* An approval covers at most one execution, of exactly the plan approved,
\* whatever callers pass to execute_validated_call.
THEOREM ApprovalIsOneShot == ExecutorSpec => []OneDispatchPerGrant
  <1>1. GateInv => OneDispatchPerGrant
    BY DEF GateInv
  <1> QED
    BY GateInvariance, <1>1, PTL

\* A token shown to consume, with whatever plan, is never outstanding again.
THEOREM PresentedStaysSpent == ExecutorSpec => []PresentedIsSpent
  <1>1. GateInv => PresentedIsSpent
    BY DEF GateInv
  <1> QED
    BY GateInvariance, <1>1, PTL

-----------------------------------------------------------------------------
(***************************************************************************)
(* A shell command's output, for every byte budget, every set of helper    *)
(* processes and any number of bytes written.                              *)
(***************************************************************************)
\* Each drain thread: what it keeps fits, it drops nothing while there is
\* room, and it accounts for no byte that was not written.
StreamsInv ==
  /\ written \in [Streams -> Nat]
  /\ retained \in [Streams -> Nat]
  /\ removed \in [Streams -> Nat]
  /\ \A s \in Streams :
       /\ retained[s] <= ByteBudget
       /\ removed[s] > 0 => retained[s] = ByteBudget
       /\ retained[s] + removed[s] <= written[s]

\* Nobody can write to a returned command's streams, and nothing waits in them.
ReturnedInv ==
  procPc = "returned" =>
    /\ ~PipesHeld(family)
    /\ \A s \in Streams : Buffered(s) = 0

DrainInv == StreamsInv /\ ReturnedInv

-----------------------------------------------------------------------------
LEMMA BudgetIsNat == ByteBudget \in Nat
  BY ProcessAssumption DEF ProcessAssumption

LEMMA ProcInitHolds == ProcInit => DrainInv
  BY BudgetIsNat DEF ProcInit, DrainInv, StreamsInv, ReturnedInv, Buffered

\* A new command starts with empty streams.
LEMMA SpawnStep ==
  ASSUME Spawn
  PROVE  DrainInv'
  BY BudgetIsNat DEF Spawn, DrainInv, StreamsInv, ReturnedInv

\* A chunk: what has room is kept, so bytes are dropped from a full buffer
\* only.  A returned command has no chunk left.
LEMMA DrainStep ==
  ASSUME DrainInv, NEW s \in Streams, NEW chunk \in 1..Buffered(s), Drain(s, chunk)
  PROVE  DrainInv'
  <1> DEFINE kept == Kept(s, chunk)
  <1>1. /\ written[s] \in Nat /\ retained[s] \in Nat /\ removed[s] \in Nat
        /\ retained[s] <= ByteBudget
        /\ removed[s] > 0 => retained[s] = ByteBudget
    BY DEF DrainInv, StreamsInv
  <1>2. /\ chunk \in Nat /\ chunk >= 1
        /\ retained[s] + removed[s] + chunk <= written[s]
    BY <1>1 DEF Buffered
  <1>3. /\ kept \in Nat /\ kept <= chunk
        /\ retained[s] + kept <= ByteBudget
        /\ kept # chunk => retained[s] + kept = ByteBudget
    BY <1>1, <1>2, BudgetIsNat DEF Kept
  <1>4. /\ retained' = [retained EXCEPT ![s] = retained[s] + kept]
        /\ removed' = [removed EXCEPT ![s] = removed[s] + chunk - kept]
        /\ written' = written /\ procPc' = procPc /\ family' = family
    BY DEF Drain
  <1> HIDE DEF kept
  <1>5. removed[s] + chunk - kept \in Nat
    BY <1>1, <1>2, <1>3
  <1>6. StreamsInv'
    <2>1. /\ written' \in [Streams -> Nat]
          /\ retained' \in [Streams -> Nat]
          /\ removed' \in [Streams -> Nat]
      BY <1>1, <1>3, <1>4, <1>5 DEF DrainInv, StreamsInv
    <2>2. ASSUME NEW r \in Streams
          PROVE  /\ retained'[r] <= ByteBudget
                 /\ removed'[r] > 0 => retained'[r] = ByteBudget
                 /\ retained'[r] + removed'[r] <= written'[r]
      <3>1. CASE r = s
        <4>1. /\ retained'[r] = retained[s] + kept
              /\ removed'[r] = removed[s] + chunk - kept
              /\ written'[r] = written[s]
          BY <1>4, <3>1 DEF DrainInv, StreamsInv
        <4> QED
          BY <4>1, <1>1, <1>2, <1>3, BudgetIsNat
      <3>2. CASE r # s
        <4>1. retained'[r] = retained[r] /\ removed'[r] = removed[r] /\ written'[r] = written[r]
          BY <1>4, <3>2 DEF DrainInv, StreamsInv
        <4> QED
          BY <4>1 DEF DrainInv, StreamsInv
      <3> QED
        BY <3>1, <3>2
    <2> QED
      BY <2>1, <2>2 DEF StreamsInv
  <1>7. ReturnedInv'
    <2>1. procPc # "returned"
      BY <1>1, <1>2 DEF DrainInv, ReturnedInv, Buffered
    <2> QED
      BY <2>1, <1>4 DEF ReturnedInv
  <1> QED
    BY <1>6, <1>7 DEF DrainInv

\* Only a process that holds the pipes writes, so a returned command's are silent.
LEMMA WriteStep ==
  ASSUME DrainInv, NEW p \in Alive(family), NEW s \in Streams, ProcessWrites(p, s)
  PROVE  DrainInv'
  <1>1. procPc # "returned"
    BY DEF DrainInv, ReturnedInv, PipesHeld, ProcessWrites
  <1>2. /\ written' = [written EXCEPT ![s] = written[s] + 1]
        /\ retained' = retained /\ removed' = removed /\ procPc' = procPc
    BY DEF ProcessWrites
  <1>3. ReturnedInv'
    BY <1>1, <1>2 DEF ReturnedInv
  <1>4. written' \in [Streams -> Nat]
    BY <1>2 DEF DrainInv, StreamsInv
  <1>5. \A r \in Streams : written[r] \in Nat /\ written'[r] \in Nat /\ written[r] <= written'[r]
    BY <1>2 DEF DrainInv, StreamsInv
  <1>6. StreamsInv'
    BY <1>2, <1>4, <1>5, BudgetIsNat DEF DrainInv, StreamsInv
  <1> QED
    BY <1>3, <1>6 DEF DrainInv

\* A process that is gone holds no pipe, whether it ended or was killed.
LEMMA FewerHoldPipes ==
  ASSUME NEW f, NEW S \in SUBSET Alive(f), ~PipesHeld(f)
  PROVE  ~PipesHeld(Restrict(f, S))
  BY DEF PipesHeld, Alive, Restrict

LEMMA ExitStep ==
  ASSUME DrainInv, NEW p \in Alive(family), ProcessExits(p)
  PROVE  DrainInv'
  <1>1. /\ family' = Restrict(family, Alive(family) \ {p})
        /\ UNCHANGED <<procPc, written, retained, removed>>
    BY DEF ProcessExits, Without
  <1>2. StreamsInv'
    BY <1>1 DEF DrainInv, StreamsInv
  <1>3. ASSUME procPc' = "returned"
        PROVE  ~PipesHeld(family')
    <2>1. ~PipesHeld(family)
      BY <1>1, <1>3 DEF DrainInv, ReturnedInv
    <2>2. Alive(family) \ {p} \in SUBSET Alive(family)
      OBVIOUS
    <2> QED
      BY <1>1, <2>1, <2>2, FewerHoldPipes
  <1>4. ReturnedInv'
    BY <1>1, <1>3 DEF DrainInv, ReturnedInv, Buffered
  <1> QED
    BY <1>2, <1>4 DEF DrainInv

\* The caller's own steps leave the streams alone, and it returns only with
\* the pipes free and drained.
LEMMA CallerStep ==
  ASSUME DrainInv, ProcCaller
  PROVE  DrainInv'
  <1>1. UNCHANGED <<written, retained, removed>>
    BY DEF ProcCaller, ShellEnds, WaitAborted, Terminate, LeaderReaped, KillGroup, ReadersJoined
  <1>2. StreamsInv'
    BY <1>1 DEF DrainInv, StreamsInv
  <1>3. CASE ReadersJoined
    <2>1. ~PipesHeld(family') /\ \A s \in Streams : Buffered(s)' = 0
      BY <1>1, <1>3 DEF ReadersJoined, Buffered
    <2> QED
      BY <1>2, <2>1 DEF DrainInv, ReturnedInv
  <1>4. CASE ~ReadersJoined
    <2>1. procPc' # "returned"
      BY <1>4 DEF ProcCaller, ShellEnds, WaitAborted, Terminate, LeaderReaped, KillGroup,
                  AfterGroupKill
    <2> QED
      BY <1>2, <2>1 DEF DrainInv, ReturnedInv
  <1> QED
    BY <1>3, <1>4

LEMMA StepKeepsDrainInv == DrainInv /\ [ProcNext]_procVars => DrainInv'
  <1> SUFFICES ASSUME DrainInv, [ProcNext]_procVars PROVE DrainInv'
    OBVIOUS
  <1>1. CASE Spawn
    BY <1>1, SpawnStep
  <1>2. CASE SpawnFails
    BY <1>2 DEF SpawnFails, DrainInv, StreamsInv, ReturnedInv
  <1>3. CASE ProcCaller
    BY <1>3, CallerStep
  <1>4. CASE ProcWorld
    <2>1. ASSUME NEW s \in Streams, NEW chunk \in 1..Buffered(s), Drain(s, chunk)
          PROVE  DrainInv'
      BY <2>1, DrainStep
    <2>2. ASSUME NEW p \in Alive(family), ProcessExits(p)
          PROVE  DrainInv'
      BY <2>2, ExitStep
    <2>3. ASSUME NEW p \in Alive(family), NEW s \in Streams, ProcessWrites(p, s)
          PROVE  DrainInv'
      BY <2>3, WriteStep
    <2> QED
      BY <1>4, <2>1, <2>2, <2>3 DEF ProcWorld
  <1>5. CASE UNCHANGED procVars
    BY <1>5 DEF procVars, DrainInv, StreamsInv, ReturnedInv, Buffered
  <1> QED
    BY <1>1, <1>2, <1>3, <1>4, <1>5 DEF ProcNext

LEMMA DrainInvAccounts == DrainInv => OutputAccounted
  <1> SUFFICES ASSUME DrainInv, procPc = "returned", NEW s \in Streams
               PROVE  /\ retained[s] + removed[s] = written[s]
                      /\ retained[s] = IF written[s] < ByteBudget
                                       THEN written[s] ELSE ByteBudget
    BY DEF OutputAccounted
  <1>1. /\ written[s] \in Nat /\ retained[s] \in Nat /\ removed[s] \in Nat
        /\ retained[s] <= ByteBudget
        /\ removed[s] > 0 => retained[s] = ByteBudget
        /\ written[s] - (retained[s] + removed[s]) = 0
    BY DEF DrainInv, StreamsInv, ReturnedInv, Buffered
  <1>2. retained[s] + removed[s] = written[s]
    BY <1>1
  <1>3. CASE removed[s] = 0
    <2>1. retained[s] = written[s]
      BY <1>1, <1>2, <1>3
    <2> QED
      BY <1>1, <1>2, <2>1, BudgetIsNat
  <1>4. CASE removed[s] > 0
    <2>1. retained[s] = ByteBudget
      BY <1>1, <1>4
    <2>2. ~(written[s] < ByteBudget)
      BY <1>1, <1>2, <1>4, <2>1, BudgetIsNat
    <2> QED
      BY <1>2, <2>1, <2>2
  <1> QED
    BY <1>1, <1>3, <1>4

\* A returned command has accounted for every byte its processes wrote,
\* the first ByteBudget of each stream kept and the rest counted, however
\* run_process's two drain threads cut the output into chunks.
THEOREM OutputAccountedHolds == ProcSpec => []OutputAccounted
  <1>1. ProcSpec => []DrainInv
    BY ProcInitHolds, StepKeepsDrainInv, PTL DEF ProcSpec
  <1> QED
    BY <1>1, DrainInvAccounts, PTL

-----------------------------------------------------------------------------
LEMMA FamiliesAreProcs == \A f \in Families(Shell, Helpers) : Alive(f) \subseteq Procs
  BY DEF Families, Alive, Procs

LEMMA StepKeepsProcTypeOK == ProcTypeOK /\ DrainInv' /\ [ProcNext]_procVars => ProcTypeOK'
  <1> SUFFICES ASSUME ProcTypeOK, DrainInv', [ProcNext]_procVars PROVE ProcTypeOK'
    OBVIOUS
  <1>1. \A s \in Streams : retained'[s] + removed'[s] <= written'[s]
    BY DEF DrainInv, StreamsInv
  <1>2. Alive(family') \subseteq Procs
    <2>1. CASE Spawn
      BY <2>1, FamiliesAreProcs DEF Spawn
    <2>2. CASE ~Spawn
      <3>1. Alive(family') \subseteq Alive(family)
        BY <2>2 DEF ProcNext, procVars, SpawnFails, ProcCaller, ShellEnds, WaitAborted,
                    Terminate, LeaderReaped, KillGroup, ReadersJoined, ProcWorld, Drain,
                    ProcessWrites, ProcessExits, AfterTerm, AfterKill, Without, Restrict, Alive
      <3> QED
        BY <3>1 DEF ProcTypeOK
    <2> QED
      BY <2>1, <2>2
  <1>3. /\ procPc' \in {"none", "wait", "terminate", "grace", "join"} \cup ProcEnded
        /\ ending' \in {"none", "exited", "timed_out", "interrupted"}
    BY DEF ProcTypeOK, ProcNext, procVars, Spawn, SpawnFails, ProcCaller, ShellEnds,
           WaitAborted, Terminate, LeaderReaped, KillGroup, ReadersJoined, AfterGroupKill,
           ProcWorld, Drain, ProcessWrites, ProcessExits, ProcEnded
  <1> QED
    BY <1>1, <1>2, <1>3 DEF ProcTypeOK

\* Type correctness of the command's state, and no byte accounted for twice.
THEOREM ProcTypeOKHolds == ProcSpec => []ProcTypeOK
  <1>1. ProcInit => ProcTypeOK
    BY DEF ProcInit, ProcTypeOK, Alive, ProcEnded
  <1>2. ProcSpec => []DrainInv
    BY ProcInitHolds, StepKeepsDrainInv, PTL DEF ProcSpec
  <1> QED
    BY <1>1, <1>2, StepKeepsProcTypeOK, PTL DEF ProcSpec

-----------------------------------------------------------------------------
(***************************************************************************)
(* The MCP client, for any number of requests, any helper processes and    *)
(* whatever the server writes.                                             *)
(***************************************************************************)
\* What a client that was not given up may hear: a line's body, or a code that
\* a broken connection leaves.
Harmless == {"none", "result", "error", "malformed", "notification", "garbage", "unhashable",
             "mcp_server_error", "mcp_protocol_error", "mcp_disconnected"}
Untrusted == {"mcp_timeout", "interrupted", "closed"}

\* Ids beyond requestId were given to nobody.
DeliveryTypeOK ==
  /\ requestId \in Nat
  /\ pending \subseteq 1..requestId
  /\ carrying \in [to : SUBSET (1..requestId), outcome : Harmless]
  /\ delivered \in Seq(Harmless)
  /\ broken \in Harmless
  /\ stdout \in Seq(Lines)

\* A request's outcome is either to come, or being carried, or delivered.
AtMostOne ==
  /\ requestId \in pending => requestId \notin carrying.to
  /\ requestId \in pending \cup carrying.to => Len(delivered) = 0
  /\ Len(delivered) <= 1

DeliveryInv == DeliveryTypeOK /\ AtMostOne

\* Giving a client up goes through close(): broken first, then without its
\* process, then past the death of the server.
ClosingInv ==
  /\ phase = "new" => verdict = "none" /\ mcpPc = "idle"
  /\ mcpPc \in {"register", "write", "wait"} => verdict \notin Untrusted
  /\ mcpPc \in {"terminate", "kill", "join"} => broken # "none" /\ ~owned
  /\ mcpPc = "join" => Server \notin Alive(serving)
  /\ Server \in Alive(serving) => serving[Server].member

GoneInv == ClosingInv /\ UntrustedServerIsGone

-----------------------------------------------------------------------------
(* Deliveries.                                                             *)

LEMMA BodiesAreHarmless == \A line \in Lines : line.body \in Harmless
  BY DEF Lines, Bodies, Harmless

\* Handing an outcome to waiters just taken out of the table.
LEMMA PutMovesOne ==
  ASSUME DeliveryInv, NEW code \in Harmless, Put(pending, code), pending' = {},
         UNCHANGED <<requestId, carrying, stdout>>, broken' \in Harmless
  PROVE  DeliveryInv'
  <1>1. delivered' \in Seq(Harmless)
    BY DEF DeliveryInv, DeliveryTypeOK, Put
  <1>2. Len(delivered') = IF requestId \in pending THEN Len(delivered) + 1 ELSE Len(delivered)
    BY DEF DeliveryInv, DeliveryTypeOK, Put
  <1>3. Len(delivered) \in Nat
    BY DEF DeliveryInv, DeliveryTypeOK
  <1>4. AtMostOne'
    BY <1>2, <1>3 DEF DeliveryInv, AtMostOne
  <1> QED
    BY <1>1, <1>4 DEF DeliveryInv, DeliveryTypeOK

LEMMA FailByCallerDelivers ==
  ASSUME DeliveryInv, FailByCaller("mcp_disconnected"), UNCHANGED <<requestId, carrying, stdout>>
  PROVE  DeliveryInv'
  <1>1. broken' \in Harmless
    BY DEF FailByCaller, Broken, DeliveryInv, DeliveryTypeOK, Harmless
  <1>2. "mcp_disconnected" \in Harmless
    BY DEF Harmless
  <1> QED
    BY <1>1, <1>2, PutMovesOne DEF FailByCaller

LEMMA CallerDelivers == DeliveryInv /\ McpCaller => DeliveryInv'
  <1> SUFFICES ASSUME DeliveryInv, McpCaller PROVE DeliveryInv'
    OBVIOUS
  <1> USE DEF DeliveryInv
  <1>1. CASE Register
    <2>1. /\ requestId' = requestId + 1 /\ requestId \in Nat
          /\ pending' = pending \cup {requestId'}
          /\ delivered' = <<>>
          /\ UNCHANGED <<carrying, broken, stdout>>
      BY <1>1 DEF Register, DeliveryTypeOK, readerVars, serverVars
    <2>2. pending \subseteq 1..requestId /\ carrying.to \subseteq 1..requestId
      BY DEF DeliveryTypeOK
    <2>3. requestId' \notin carrying.to
      BY <2>1, <2>2
    <2>4. AtMostOne'
      BY <2>1, <2>3 DEF AtMostOne
    <2>5. 1..requestId \subseteq 1..requestId' /\ requestId' \in 1..requestId' /\ requestId' \in Nat
      BY <2>1
    <2>6. DeliveryTypeOK'
      BY <2>1, <2>2, <2>5 DEF DeliveryTypeOK
    <2> QED
      BY <2>4, <2>6
  <1>2. CASE Write \/ Receive \/ Interrupt \/ TerminateServer \/ KillServer \/ Closed
    BY <1>2 DEF Write, Receive, Interrupt, TerminateServer, KillServer, Closed, requestVars,
                readerVars, serverVars, DeliveryTypeOK, AtMostOne
  <1>3. CASE WriteFails \/ NotifyFails \/ Close
    BY <1>3, FailByCallerDelivers
    DEF WriteFails, NotifyFails, Close, readerVars, serverVars
  <1>4. CASE TimeOut
    <2>1. /\ pending' = pending \ {requestId} /\ delivered = <<>>
          /\ UNCHANGED <<requestId, delivered, broken, carrying, stdout>>
      BY <1>4 DEF TimeOut, readerVars, serverVars
    <2> QED
      BY <2>1 DEF DeliveryTypeOK, AtMostOne
  <1> QED
    BY <1>1, <1>2, <1>3, <1>4 DEF McpCaller

LEMMA FailByReaderDelivers ==
  ASSUME DeliveryInv, NEW code \in Harmless, FailByReader(code), stdout' \in Seq(Lines)
  PROVE  DeliveryInv'
  <1>1. /\ carrying' = [to |-> pending, outcome |-> code] /\ pending' = {}
        /\ UNCHANGED <<requestId, delivered>>
    BY DEF FailByReader
  <1>2. broken' \in Harmless
    BY DEF FailByReader, Broken, DeliveryInv, DeliveryTypeOK
  <1>3. Len(delivered) \in Nat
    BY DEF DeliveryInv, DeliveryTypeOK
  <1>4. AtMostOne'
    BY <1>1, <1>3 DEF DeliveryInv, AtMostOne
  <1> QED
    BY <1>1, <1>2, <1>4 DEF DeliveryInv, DeliveryTypeOK

LEMMA ReaderDelivers == DeliveryInv /\ Reader => DeliveryInv'
  <1> SUFFICES ASSUME DeliveryInv, Reader PROVE DeliveryInv'
    OBVIOUS
  <1> USE DEF DeliveryInv
  <1>1. Len(delivered) \in Nat
    BY DEF DeliveryTypeOK
  <1>2. ASSUME stdout # <<>>
        PROVE  Tail(stdout) \in Seq(Lines) /\ Head(stdout) \in Lines
    BY <1>2 DEF DeliveryTypeOK
  <1>3. CASE ReadResponse
    <2> DEFINE line == Head(stdout)
    <2>1. /\ carrying' = [to |-> {line.id} \cap pending, outcome |-> line.body]
          /\ pending' = pending \ {line.id}
          /\ stdout' = Tail(stdout) /\ stdout # <<>>
          /\ UNCHANGED <<requestId, delivered, broken>>
      BY <1>3 DEF ReadResponse, TakeWaiter
    <2>2. line.body \in Harmless /\ stdout' \in Seq(Lines)
      BY <1>2, <2>1, BodiesAreHarmless
    <2> HIDE DEF line
    <2>3. AtMostOne'
      BY <1>1, <2>1 DEF AtMostOne
    <2>4. DeliveryTypeOK'
      BY <2>1, <2>2 DEF DeliveryTypeOK
    <2> QED
      BY <2>3, <2>4
  <1>4. CASE ReadNotification \/ ReadUnhashable
    BY <1>2, <1>4 DEF ReadNotification, ReadUnhashable, requestVars, readerVars, DeliveryTypeOK,
                      AtMostOne
  <1>5. CASE ReadGarbage
    <2>1. stdout' \in Seq(Lines) /\ FailByReader("mcp_protocol_error")
      BY <1>2, <1>5 DEF ReadGarbage
    <2> QED
      BY <2>1, FailByReaderDelivers DEF Harmless
  <1>6. CASE EndOfFile
    <2>1. stdout' \in Seq(Lines) /\ FailByReader("mcp_disconnected")
      BY <1>6 DEF EndOfFile, DeliveryTypeOK
    <2> QED
      BY <2>1, FailByReaderDelivers DEF Harmless
  <1>7. CASE PutOutcome
    <2>1. /\ delivered' = IF requestId \in carrying.to
                          THEN Append(delivered, carrying.outcome) ELSE delivered
          /\ carrying' = [to |-> {}, outcome |-> "none"]
          /\ UNCHANGED <<requestId, pending, broken, stdout>>
      BY <1>7 DEF PutOutcome, Put, serverVars
    <2>2. carrying.outcome \in Harmless
      BY DEF DeliveryTypeOK
    <2>3. /\ delivered' \in Seq(Harmless)
          /\ Len(delivered') = IF requestId \in carrying.to THEN Len(delivered) + 1
                               ELSE Len(delivered)
      BY <2>1, <2>2 DEF DeliveryTypeOK
    <2>4. AtMostOne'
      BY <1>1, <2>1, <2>3 DEF AtMostOne
    <2>5. DeliveryTypeOK'
      BY <2>1, <2>3 DEF DeliveryTypeOK, Harmless
    <2> QED
      BY <2>4, <2>5
  <1> QED
    BY <1>3, <1>4, <1>5, <1>6, <1>7 DEF Reader

LEMMA StepKeepsDeliveryInv == DeliveryInv /\ [McpNext]_mcpVars => DeliveryInv'
  <1> SUFFICES ASSUME DeliveryInv, [McpNext]_mcpVars PROVE DeliveryInv'
    OBVIOUS
  <1>1. CASE Manager
    <2>1. /\ UNCHANGED <<requestId, pending, delivered, carrying, stdout>>
          /\ broken' \in Harmless
      BY <1>1 DEF Manager, Connect, ConnectFails, Request, CloseClient, requestVars, readerVars,
                  serverVars, DeliveryInv, DeliveryTypeOK, Harmless
    <2> QED
      BY <2>1 DEF DeliveryInv, DeliveryTypeOK, AtMostOne
  <1>2. CASE McpCaller
    BY <1>2, CallerDelivers
  <1>3. CASE Reader
    BY <1>3, ReaderDelivers
  <1>4. CASE ServerSide
    <2>1. /\ UNCHANGED <<requestId, pending, delivered, carrying, broken>>
          /\ stdout' \in Seq(Lines)
      BY <1>4 DEF ServerSide, ServerWrites, ServerExits, requestVars, readerVars, DeliveryInv,
                  DeliveryTypeOK
    <2> QED
      BY <2>1 DEF DeliveryInv, DeliveryTypeOK, AtMostOne
  <1>5. CASE UNCHANGED mcpVars
    BY <1>5 DEF mcpVars, DeliveryInv, DeliveryTypeOK, AtMostOne
  <1> QED
    BY <1>1, <1>2, <1>3, <1>4, <1>5 DEF McpNext

LEMMA InitDelivers == McpInit => DeliveryInv
  BY DEF McpInit, DeliveryInv, DeliveryTypeOK, AtMostOne, Harmless

\* One waiter's queue of one item takes whatever _read_loop, _fail and close()
\* put for it: nobody ever blocks on a full queue.
THEOREM OneOutcomeHolds == McpSpec => []OneOutcomePerRequest
  <1>1. DeliveryInv => OneOutcomePerRequest
    <2> SUFFICES ASSUME DeliveryInv PROVE OneOutcomePerRequest
      OBVIOUS
    <2>1. Len(delivered) \in Nat
      BY DEF DeliveryInv, DeliveryTypeOK
    <2>2. CASE requestId \in pending
      BY <2>1, <2>2 DEF DeliveryInv, AtMostOne, OneOutcomePerRequest
    <2>3. CASE requestId \notin pending
      BY <2>1, <2>3 DEF DeliveryInv, AtMostOne, OneOutcomePerRequest
    <2> QED
      BY <2>2, <2>3
  <1> QED
    BY <1>1, InitDelivers, StepKeepsDeliveryInv, PTL DEF McpSpec

-----------------------------------------------------------------------------
(* Giving a client up.                                                     *)

\* What a signal to the group, or an exit, leaves of the server's processes.
LEMMA FamiliesOnlyShrink ==
  ASSUME Server \in Alive(serving) => serving[Server].member,
         serving' \in {AfterTerm(serving), AfterKill(serving)}
                      \cup {Without(serving, p) : p \in Alive(serving)}
  PROVE  Alive(serving') \subseteq Alive(serving)
         /\ (Server \in Alive(serving') => serving'[Server].member)
  BY DEF AfterTerm, AfterKill, Without, Restrict, Alive

LEMMA ServerStartsAsMember ==
  \A f \in Families(Server, ServerHelpers) : Server \in Alive(f) /\ f[Server].member
  BY DEF Families, Alive

\* The end of a request, when what is reported is harmless.
LEMMA ConcludeKeepsGone ==
  ASSUME GoneInv, NEW v \in Harmless, Conclude(v), phase # "new",
         UNCHANGED <<owned, serving>>
  PROVE  GoneInv'
  <1>1. /\ verdict' = v /\ verdict' \notin Untrusted
        /\ mcpPc' \in {"idle", "close"}
        /\ phase' # "new"
    BY DEF Conclude, Untrusted, Harmless
  <1> QED
    BY <1>1 DEF GoneInv, ClosingInv, UntrustedServerIsGone, Untrusted

LEMMA ManagerKeepsGone == DeliveryInv /\ GoneInv /\ Manager => GoneInv'
  <1> SUFFICES ASSUME DeliveryInv, GoneInv, Manager PROVE GoneInv'
    OBVIOUS
  <1>1. CASE Connect
    <2>1. /\ phase' = "connecting" /\ mcpPc' = "idle" /\ verdict' = verdict /\ verdict = "none"
          /\ serving' \in Families(Server, ServerHelpers)
      BY <1>1 DEF Connect, GoneInv, ClosingInv
    <2>2. serving'[Server].member
      BY <2>1, ServerStartsAsMember
    <2> QED
      BY <2>1, <2>2 DEF GoneInv, ClosingInv, UntrustedServerIsGone, Untrusted
  <1>2. CASE ConnectFails
    BY <1>2 DEF ConnectFails, serverVars, GoneInv, ClosingInv, UntrustedServerIsGone, Untrusted
  <1>3. CASE Request
    <2>1. /\ phase # "new" /\ mcpPc = "idle"
          /\ UNCHANGED <<owned, serving>>
      BY <1>3 DEF Request, serverVars
    <2>2. CASE broken # "none"
      BY <1>3, <2>1, <2>2, ConcludeKeepsGone DEF Request, DeliveryInv, DeliveryTypeOK
    <2>3. CASE broken = "none"
      <3>1. CASE Conclude("mcp_disconnected")
        BY <2>1, <3>1, ConcludeKeepsGone DEF Harmless
      <3>2. CASE mcpPc' = "register" /\ UNCHANGED <<phase, verdict, broken>>
        <4>1. verdict \notin Untrusted
          BY <2>1, <2>3 DEF GoneInv, UntrustedServerIsGone, Untrusted
        <4> QED
          BY <2>1, <3>2, <4>1 DEF GoneInv, ClosingInv, UntrustedServerIsGone
      <3> QED
        BY <1>3, <2>3, <3>1, <3>2 DEF Request
    <2> QED
      BY <2>2, <2>3
  <1>4. CASE CloseClient
    BY <1>4 DEF CloseClient, serverVars, GoneInv, ClosingInv, UntrustedServerIsGone
  <1> QED
    BY <1>1, <1>2, <1>3, <1>4 DEF Manager

LEMMA CallerKeepsGone == DeliveryInv /\ GoneInv /\ McpCaller => GoneInv'
  <1> SUFFICES ASSUME DeliveryInv, GoneInv, McpCaller PROVE GoneInv'
    OBVIOUS
  <1>1. CASE Register \/ Write
    BY <1>1 DEF Register, Write, requestVars, readerVars, serverVars, GoneInv, ClosingInv,
                UntrustedServerIsGone
  <1>2. CASE WriteFails \/ NotifyFails
    <2>1. /\ Conclude("mcp_disconnected") /\ phase # "new"
          /\ UNCHANGED <<owned, serving>>
      BY <1>2 DEF WriteFails, NotifyFails, serverVars, GoneInv, ClosingInv
    <2> QED
      BY <2>1, ConcludeKeepsGone DEF Harmless
  <1>3. CASE Receive
    <2> DEFINE v == CASE Head(delivered) = "error" -> "mcp_server_error"
                      [] Head(delivered) = "malformed" -> "mcp_protocol_error"
                      [] OTHER -> Head(delivered)
    <2>1. /\ Conclude(v) /\ delivered # <<>> /\ phase # "new"
          /\ UNCHANGED <<owned, serving>>
      BY <1>3 DEF Receive, readerVars, serverVars, GoneInv, ClosingInv
    <2>2. Head(delivered) \in Harmless
      BY <2>1 DEF DeliveryInv, DeliveryTypeOK
    <2>3. v \in Harmless
      BY <2>2 DEF Harmless
    <2> HIDE DEF v
    <2> QED
      BY <2>1, <2>3, ConcludeKeepsGone
  <1>4. CASE TimeOut \/ Interrupt
    BY <1>4 DEF TimeOut, Interrupt, serverVars, GoneInv, ClosingInv, UntrustedServerIsGone
  <1>5. CASE Close
    <2>1. broken' # "none"
      BY <1>5 DEF Close, FailByCaller, Broken
    <2> QED
      BY <1>5, <2>1 DEF Close, serverVars, GoneInv, ClosingInv, UntrustedServerIsGone
  <1>6. CASE TerminateServer
    <2>1. Server \in Alive(serving') => serving'[Server].member
      BY <1>6, FamiliesOnlyShrink DEF TerminateServer, GoneInv, ClosingInv
    <2> QED
      BY <1>6, <2>1 DEF TerminateServer, GoneInv, ClosingInv, UntrustedServerIsGone
  <1>7. CASE KillServer
    <2>1. Server \notin Alive(serving')
      BY <1>7 DEF KillServer, AfterKill, Restrict, Alive, GoneInv, ClosingInv
    <2> QED
      BY <1>7, <2>1 DEF KillServer, GoneInv, ClosingInv, UntrustedServerIsGone
  <1>8. CASE Closed
    <2>1. /\ mcpPc = "join" /\ mcpPc' = "idle" /\ phase' # "new"
          /\ UNCHANGED <<verdict, broken, owned, serving>>
      BY <1>8 DEF Closed, serverVars
    <2> QED
      BY <2>1 DEF GoneInv, ClosingInv, UntrustedServerIsGone
  <1> QED
    BY <1>1, <1>2, <1>3, <1>4, <1>5, <1>6, <1>7, <1>8 DEF McpCaller

LEMMA StepKeepsGoneInv == DeliveryInv /\ GoneInv /\ [McpNext]_mcpVars => GoneInv'
  <1> SUFFICES ASSUME DeliveryInv, GoneInv, [McpNext]_mcpVars PROVE GoneInv'
    OBVIOUS
  <1>1. CASE Manager
    BY <1>1, ManagerKeepsGone
  <1>2. CASE McpCaller
    BY <1>2, CallerKeepsGone
  <1>3. CASE Reader
    <2>1. /\ UNCHANGED <<phase, mcpPc, verdict, owned, serving>>
          /\ broken # "none" => broken' # "none"
      BY <1>3 DEF Reader, ReadResponse, ReadNotification, ReadUnhashable, ReadGarbage, EndOfFile,
                  PutOutcome, FailByReader, Broken, serverVars
    <2> QED
      BY <2>1 DEF GoneInv, ClosingInv, UntrustedServerIsGone
  <1>4. CASE ServerSide
    <2>1. /\ UNCHANGED <<phase, mcpPc, verdict, owned, broken>>
          /\ serving' = serving \/ \E p \in Alive(serving) : serving' = Without(serving, p)
      BY <1>4 DEF ServerSide, ServerWrites, ServerExits
    <2>2. Server \in Alive(serving) => serving[Server].member
      BY DEF GoneInv, ClosingInv
    <2>3. Alive(serving') \subseteq Alive(serving)
          /\ (Server \in Alive(serving') => serving'[Server].member)
      BY <2>1, <2>2, FamiliesOnlyShrink
    <2> QED
      BY <2>1, <2>3 DEF GoneInv, ClosingInv, UntrustedServerIsGone
  <1>5. CASE UNCHANGED mcpVars
    BY <1>5 DEF mcpVars, GoneInv, ClosingInv, UntrustedServerIsGone
  <1> QED
    BY <1>1, <1>2, <1>3, <1>4, <1>5 DEF McpNext

LEMMA InitIsGone == McpInit => GoneInv
  BY DEF McpInit, GoneInv, ClosingInv, UntrustedServerIsGone, Alive, Untrusted

\* Whoever goes on after a time-out, a Ctrl-C or a close() of McpClient leaves
\* a client behind that is broken and whose server is dead.
THEOREM UntrustedServerIsGoneHolds == McpSpec => []UntrustedServerIsGone
  <1>1. GoneInv => UntrustedServerIsGone
    BY DEF GoneInv
  <1>2. McpSpec => []DeliveryInv
    BY InitDelivers, StepKeepsDeliveryInv, PTL DEF McpSpec
  <1> QED
    BY <1>1, <1>2, InitIsGone, StepKeepsGoneInv, PTL DEF McpSpec

-----------------------------------------------------------------------------
(***************************************************************************)
(* Consent across the two threads of the full-screen frontend, for any     *)
(* number of lines entered and questions asked.                            *)
(***************************************************************************)
\* The driver hands the worker one job at a time, and none before the app runs or
\* when it has no store left to open.
OneJob ==
  app = "new" \/ driver = "get" \/ (driver = "open" /\ unopened = 0) => worker = "idle"

\* A queued question is the one the worker waits with, and a question on a
\* live panel is that one too: no key can answer another.
PanelInv ==
  /\ app = "new" => ~approvalPending
  /\ posted # <<>> =>
       /\ app \in {"running", "teardown"}
       /\ posted = <<asked>> /\ worker = "wait" /\ ~event
  /\ worker = "post" /\ app \in {"running", "teardown"} => ~event
  /\ app = "running" /\ approvalPending =>
       posted = <<>> /\ worker = "wait" /\ ~event /\ shown = asked

\* A yes the worker can still act on was given to its question, or the session
\* is being left and the cancel flag stands against it.
Vouched == asked \in agreed \/ interrupted

YesInv ==
  /\ worker = "wait" /\ approvalAnswer
       /\ (event \/ app \in {"interrupting", "shutdown", "ended"}) => Vouched
  /\ worker = "decide" => Vouched

ConsentInv == OneJob /\ PanelInv /\ YesInv /\ NoInheritedConsent

-----------------------------------------------------------------------------
\* Before the app runs nothing is asked.
LEMMA TuiInitHolds == TuiInit => TuiTypeOK /\ ConsentInv
  <1> SUFFICES ASSUME TuiInit PROVE TuiTypeOK /\ ConsentInv
    OBVIOUS
  <1>1. asked \in 0..MaxQuestions /\ shown \in 0..MaxQuestions /\ 0 \in 0..2
    BY TuiAssumption DEF TuiAssumption, TuiInit
  <1>2. TuiTypeOK
    <2>1. inputs \in Seq({"message", "/command", "/exit", "leave"})
      BY DEF TuiInit
    <2> QED
      BY <1>1, <2>1, Zenon DEF TuiInit, TuiTypeOK
  <1>3. ConsentInv
    BY DEF TuiInit, ConsentInv, OneJob, PanelInv, YesInv, NoInheritedConsent
  <1> QED
    BY <1>2, <1>3

\* A key answers the question that is shown, and that is the worker's.
LEMMA KeysKeepConsent ==
  ASSUME TuiTypeOK, ConsentInv, UserKeys
  PROVE  ConsentInv'
  <1> USE DEF ConsentInv, UserKeys, Enter, PressAnswer, CancelKey, ExitKey, ResolveApproval,
              Running, loopVars, panelVars, workerVars, ghosts
  <1>1. OneJob'
    BY DEF OneJob, PanelInv, TuiTypeOK, driverVars
  <1>2. PanelInv'
    BY DEF OneJob, PanelInv, TuiTypeOK
  <1>3. YesInv'
    BY DEF OneJob, PanelInv, YesInv, Vouched, TuiTypeOK
  <1>4. NoInheritedConsent'
    BY DEF PanelInv, YesInv, Vouched, NoInheritedConsent
  <1> QED
    BY <1>1, <1>2, <1>3, <1>4

\* The driver starts a job only when the worker waits for none.
LEMMA DriverKeepsConsent ==
  ASSUME TuiTypeOK, ConsentInv, 
         \/ StartApp \/ OpenStore \/ StoreOpened \/ BuildEngine
         \/ TakeInput \/ Dispatched \/ DriverRaises \/ TurnOver
  PROVE  ConsentInv'
  <1> USE DEF ConsentInv, StartApp, OpenStore, StoreOpened, BuildEngine, TakeInput, Dispatched,
              DriverRaises, TurnOver, StartJob, Running, loopVars, panelVars, workerVars, driverVars,
              ghosts
  <1>1. OneJob'
    BY DEF OneJob, PanelInv, TuiTypeOK, driverVars
  <1>2. PanelInv'
    BY DEF OneJob, PanelInv, TuiTypeOK
  <1>3. YesInv'
    BY DEF OneJob, PanelInv, YesInv, Vouched, TuiTypeOK
  <1>4. NoInheritedConsent'
    BY DEF PanelInv, YesInv, Vouched, NoInheritedConsent
  <1> QED
    BY <1>1, <1>2, <1>3, <1>4

\* A question still queued is dropped with the loop.
LEMMA LoopKeepsConsent ==
  ASSUME TuiTypeOK, ConsentInv, CloseStores \/ CloseDropped \/ InputEnds \/ LoopCloses
  PROVE  ConsentInv'
  <1> USE DEF ConsentInv, CloseStores, CloseDropped, StoresClosed, InputEnds, LoopCloses,
              Running, loopVars, panelVars, workerVars, ghosts
  <1>1. OneJob'
    BY DEF OneJob, PanelInv, TuiTypeOK, driverVars
  <1>2. PanelInv'
    BY DEF OneJob, PanelInv, TuiTypeOK
  <1>3. YesInv'
    BY DEF OneJob, PanelInv, YesInv, Vouched, TuiTypeOK
  <1>4. NoInheritedConsent'
    BY DEF PanelInv, YesInv, Vouched, NoInheritedConsent
  <1> QED
    BY <1>1, <1>2, <1>3, <1>4

\* The queued question comes up, unanswered, while the worker waits with it.
LEMMA RunPostedKeepsConsent ==
  ASSUME TuiTypeOK, ConsentInv, RunPosted
  PROVE  ConsentInv'
  <1> USE DEF ConsentInv
  <1>1. /\ posted = <<asked>> /\ worker = "wait" /\ ~event
        /\ app \in {"running", "teardown"}
    BY DEF RunPosted, PanelInv
  <1>2. /\ posted' = <<>> /\ shown' = asked /\ approvalAnswer' = FALSE
        /\ UNCHANGED <<app, driver, unopened, interrupted, event, worker, asked, agreed, ran>>
    BY <1>1 DEF RunPosted, BeginApproval, loopVars, workerVars, driverVars, ghosts
  <1> QED
    BY <1>1, <1>2 DEF OneJob, PanelInv, YesInv, NoInheritedConsent

\* The last event is set for no answer: by then the cancel flag stands, or the
\* question came up, unanswered, on the closed loop.
LEMMA FinallyKeepsConsent ==
  ASSUME TuiTypeOK, ConsentInv, FinallyFirst \/ FinallyThen \/ Shutdown
  PROVE  ConsentInv'
  <1> USE DEF ConsentInv, FinallyFirst, FinallyThen, Shutdown, Resting,
              panelVars, workerVars, ghosts
  <1>1. OneJob'
    BY DEF OneJob, PanelInv, TuiTypeOK, driverVars
  <1>2. PanelInv'
    BY DEF OneJob, PanelInv, TuiTypeOK
  <1>3. YesInv'
    BY DEF OneJob, PanelInv, YesInv, Vouched, TuiTypeOK
  <1>4. NoInheritedConsent'
    BY DEF PanelInv, YesInv, Vouched, NoInheritedConsent
  <1> QED
    BY <1>1, <1>2, <1>3, <1>4

\* On a live loop the question is queued behind none, else it is shown at once.
LEMMA PostKeepsConsent ==
  ASSUME TuiTypeOK, ConsentInv, PostQuestion
  PROVE  ConsentInv'
  <1> USE DEF ConsentInv
  <1>1. /\ posted = <<>> /\ worker = "post" /\ worker' = "wait" /\ app # "new"
        /\ ~(app = "running" /\ approvalPending)
        /\ UNCHANGED <<app, driver, unopened, interrupted, event, asked, agreed, ran>>
    BY DEF PostQuestion, OneJob, PanelInv, loopVars, driverVars, ghosts
  <1>2. OneJob' /\ NoInheritedConsent'
    BY <1>1 DEF OneJob, NoInheritedConsent
  <1>3. CASE app \in {"running", "teardown"}
    <2>1. posted' = <<asked>> /\ UNCHANGED <<approvalPending, approvalAnswer, shown>>
      BY <1>1, <1>3 DEF PostQuestion
    <2>2. ~event
      BY <1>1, <1>3 DEF PanelInv
    <2>3. PanelInv' /\ YesInv'
      BY <1>1, <1>3, <2>1, <2>2 DEF PanelInv, YesInv
    <2> QED
      BY <1>2, <2>3
  <1>4. CASE app \notin {"running", "teardown"}
    <2>1. posted' = <<>> /\ approvalAnswer' = FALSE
      BY <1>1, <1>4 DEF PostQuestion, BeginApproval
    <2> QED
      BY <1>1, <1>2, <1>4, <2>1 DEF PanelInv, YesInv
  <1> QED
    BY <1>3, <1>4

\* The event is cleared before a question is posted, and the cancel flag polled
\* once more after its yes.
LEMMA WorkerKeepsConsent ==
  ASSUME TuiTypeOK, ConsentInv,
         StartTurn \/ StartCommand \/ ClearEvent \/ Answered \/ Decide \/ Finish
  PROVE  ConsentInv'
  <1> USE DEF ConsentInv, StartTurn, StartCommand, ClearEvent, MayAsk, Answered, Decide, Finish,
              loopVars, panelVars, ghosts
  <1>1. OneJob'
    BY DEF OneJob, PanelInv, TuiTypeOK, driverVars
  <1>2. PanelInv'
    BY DEF OneJob, PanelInv, TuiTypeOK
  <1>3. YesInv'
    BY DEF OneJob, PanelInv, YesInv, Vouched, TuiTypeOK
  <1>4. NoInheritedConsent'
    BY DEF PanelInv, YesInv, Vouched, NoInheritedConsent
  <1> QED
    BY <1>1, <1>2, <1>3, <1>4

\* Every step of both threads keeps it.
LEMMA StepKeepsConsent == TuiTypeOK /\ ConsentInv /\ [TuiNext]_tuiVars => ConsentInv'
  <1> SUFFICES ASSUME TuiTypeOK, ConsentInv, [TuiNext]_tuiVars PROVE ConsentInv'
    OBVIOUS
  <1>1. CASE UserKeys
    BY <1>1, KeysKeepConsent
  <1>2. CASE StartApp \/ AppSteps \/ InputEnds
    BY <1>2, DriverKeepsConsent, LoopKeepsConsent, RunPostedKeepsConsent, FinallyKeepsConsent
    DEF AppSteps
  <1>3. CASE WorkerSteps
    BY <1>3, PostKeepsConsent, WorkerKeepsConsent DEF WorkerSteps
  <1>4. CASE UNCHANGED tuiVars
    BY <1>4 DEF tuiVars, ConsentInv, OneJob, PanelInv, YesInv, Vouched, NoInheritedConsent
  <1> QED
    BY <1>1, <1>2, <1>3, <1>4 DEF TuiNext

-----------------------------------------------------------------------------
\* Only the current question is ever shown.
LEMMA StepKeepsNumbers ==
  ASSUME TuiTypeOK, ConsentInv, [TuiNext]_tuiVars
  PROVE  asked' \in 0..MaxQuestions /\ shown' \in 0..MaxQuestions
  <1> USE DEF TuiTypeOK
  <1>1. CASE ClearEvent
    BY <1>1, TuiAssumption DEF TuiAssumption, ClearEvent, MayAsk, panelVars
  <1>2. CASE RunPosted
    <2>1. posted = <<asked>>
      BY <1>2 DEF RunPosted, ConsentInv, PanelInv
    <2> QED
      BY <1>2, <2>1 DEF RunPosted, BeginApproval, workerVars
  <1>3. CASE PostQuestion
    BY <1>3 DEF PostQuestion, BeginApproval
  <1>4. CASE UserKeys
    BY <1>4 DEF UserKeys, Enter, PressAnswer, CancelKey, ExitKey, ResolveApproval, panelVars,
                workerVars
  <1>5. CASE StartApp \/ (AppSteps /\ ~RunPosted) \/ InputEnds
    BY <1>5 DEF StartApp, AppSteps, OpenStore, StoreOpened, BuildEngine, TakeInput, Dispatched,
                DriverRaises, TurnOver, CloseStores, CloseDropped, LoopCloses, FinallyFirst, FinallyThen, Shutdown, InputEnds, StartJob,
                panelVars, workerVars
  <1>6. CASE StartTurn \/ StartCommand \/ Answered \/ Decide \/ Finish
    BY <1>6 DEF StartTurn, StartCommand, Answered, Decide, Finish, panelVars
  <1>7. CASE UNCHANGED tuiVars
    BY <1>7 DEF tuiVars
  <1> QED
    BY <1>1, <1>2, <1>3, <1>4, <1>5, <1>6, <1>7 DEF TuiNext, WorkerSteps

\* Every step keeps the types.
LEMMA StepKeepsTuiTypeOK == TuiTypeOK /\ ConsentInv /\ [TuiNext]_tuiVars => TuiTypeOK'
  <1> SUFFICES ASSUME TuiTypeOK, ConsentInv, [TuiNext]_tuiVars PROVE TuiTypeOK'
    OBVIOUS
  <1> USE DEF TuiNext, UserKeys, AppSteps, WorkerSteps, Enter, PressAnswer, CancelKey, ExitKey,
              ResolveApproval, StartApp, OpenStore, StoreOpened, BuildEngine, TakeInput,
              Dispatched, DriverRaises, TurnOver, CloseStores, CloseDropped, RunPosted, BeginApproval, LoopCloses, FinallyFirst, FinallyThen,
              Shutdown, StartJob, InputEnds, StartTurn, StartCommand, ClearEvent, PostQuestion,
              Answered, Decide, Finish, tuiVars, loopVars, panelVars, workerVars
  <1>1. asked' \in 0..MaxQuestions /\ shown' \in 0..MaxQuestions
    BY StepKeepsNumbers
  <1>2. /\ app' \in {"new", "running", "teardown", "closed", "interrupting", "shutdown", "ended"}
        /\ driver' \in {"open", "get", "dispatch", "turn", "closing", "cancelled", "ended"}
    BY DEF TuiTypeOK
  <1>3. worker' \in {"idle", "start", "work", "post", "wait", "decide", "done", "raised"}
    BY DEF TuiTypeOK
  <1>4. stores' \in {"none", "open", "closed"} /\ died' \in BOOLEAN
    BY DEF TuiTypeOK, StoresClosed, driverVars
  <1>5. busy' \in BOOLEAN /\ interrupted' \in BOOLEAN /\ event' \in BOOLEAN
    BY DEF TuiTypeOK
  <1>6. approvalPending' \in BOOLEAN /\ approvalAnswer' \in BOOLEAN
    BY DEF TuiTypeOK
  <1>7. inputs' \in Seq({"message", "/command", "/exit", "leave"})
    BY DEF TuiTypeOK
  <1>8. job' \in {"none", "open", "message", "/command", "/exit", "turn"}
    BY DEF TuiTypeOK
  <1>9. unopened' \in 0..2
    BY DEF TuiTypeOK, ConsentInv, OneJob, driverVars
  <1> QED
    BY <1>1, <1>2, <1>3, <1>4, <1>5, <1>6, <1>7, <1>8, <1>9 DEF TuiTypeOK

\* No handler runs on a yes that was given to another question, at whichever
\* step of ShadowTui's worker, panel and shutdown the two threads meet.
THEOREM NoInheritedConsentHolds == TuiSpec => [](TuiTypeOK /\ NoInheritedConsent)
  <1>1. ConsentInv => NoInheritedConsent
    BY DEF ConsentInv
  <1>2. TuiSpec => [](TuiTypeOK /\ ConsentInv)
    BY TuiInitHolds, StepKeepsConsent, StepKeepsTuiTypeOK, PTL DEF TuiSpec
  <1> QED
    BY <1>1, <1>2, PTL

-----------------------------------------------------------------------------
(***************************************************************************)
(* A round of the provider, for any lines a server sends.                  *)
(***************************************************************************)
\* Slots, and the events made of them.
Finals == ArgumentForms \X Nat
Slots == [explicit : BOOLEAN, named : BOOLEAN, fragments : Seq(Nat),
          final : Finals \cup {Nothing}, flushed : BOOLEAN]
SlotMaps == UNION {[D -> Slots] : D \in SUBSET Nat}
Arguments == Finals \cup ({"fragments"} \X Seq(Nat))
CallEvents == [type : {"call"}, index : Nat, arguments : Arguments]
ErrorEvents == [type : {"error"},
                code : {"timeout", "http_error", "disconnect", "malformed_payload",
                        "incomplete_tool_call"}]
StreamEvents == CallEvents \cup ErrorEvents \cup {Text, Quiet, Sentinel}

IsCall(e) == e.type = "call"
Live == client \in {"none", "collecting"}

StreamTypeOK ==
  /\ sawDone \in BOOLEAN /\ lines \in Nat /\ nextIndex \in Nat
  /\ buffers \in SlotMaps /\ DOMAIN buffers \subseteq 0..(nextIndex - 1)
  /\ queue \in Seq(StreamEvents) /\ called \in Seq(CallEvents)

\* The sentinel is behind everything and an early end behind an error; before the
\* last chunk no call is complete, and what was complete by then stays so.
PhaseInv ==
  /\ client = "none" => reader = "none"
  /\ ~sawDone => fed = [i \in DOMAIN buffers |-> buffers[i].fragments]
  /\ sawDone => \A i \in DOMAIN fed : i \in DOMAIN buffers /\ buffers[i].flushed
  /\ \A j \in DOMAIN queue : queue[j].type = "none" => j = Len(queue) /\ reader = "ended"
  /\ Live => /\ ~cancelled
             /\ reader \in {"finally", "ended"} /\ ~sawDone =>
                  \E j \in DOMAIN queue : queue[j].type = "error"
             /\ reader \notin {"finally", "ended"} /\ ~sawDone =>
                  called = <<>> /\ \A j \in DOMAIN queue : ~IsCall(queue[j])

\* A call that was handed on: its slot will not be completed again.
Settled(e) ==
  /\ e.index \in DOMAIN buffers /\ buffers[e.index].flushed
  /\ e.arguments[1] = "fragments" /\ e.index \in DOMAIN fed => e.arguments[2] = fed[e.index]

\* The calls that were taken and those on their way are settled, each once.
CallsInv ==
  Live =>
    /\ \A i \in DOMAIN called : Settled(called[i])
    /\ \A j \in DOMAIN queue : IsCall(queue[j]) => Settled(queue[j])
    /\ \A i, j \in DOMAIN called : called[i].index = called[j].index => i = j
    /\ \A i, j \in DOMAIN queue :
         IsCall(queue[i]) /\ IsCall(queue[j]) /\ queue[i].index = queue[j].index => i = j
    /\ \A i \in DOMAIN called, j \in DOMAIN queue :
         IsCall(queue[j]) => called[i].index # queue[j].index

StreamInv == StreamTypeOK /\ PhaseInv /\ CallsInv /\ CompletedRoundsAreWhole

-----------------------------------------------------------------------------
\* What feeding calls leaves as it was: b are the buffers before.
States(b) ==
  {st \in [buffers : SlotMaps, next : Nat, events : Seq({Text, Quiet})] :
     /\ DOMAIN st.buffers \subseteq 0..(st.next - 1)
     /\ \A i \in DOMAIN b : i \in DOMAIN st.buffers /\ st.buffers[i].flushed = b[i].flushed}

\* A slot takes the arguments of a call without being flushed or forgotten.
LEMMA AcceptKeeps ==
  ASSUME NEW slot \in Slots, NEW args \in ArgumentForms, NEW line \in Nat
  PROVE  /\ Accept(slot, args, line) \in Slots
         /\ Accept(slot, args, line).flushed = slot.flushed
  <1> DEFINE fragments == Append(slot.fragments, line)
  <1>1. fragments \in Seq(Nat)
    BY DEF Slots
  <1>2. <<args, line>> \in Finals /\ (args = "empty" => <<"empty", line>> \in Finals)
    BY DEF Finals
  <1>3. Accept(slot, args, line) \in
          {slot, [slot EXCEPT !.fragments = fragments], [slot EXCEPT !.final = <<args, line>>]}
    BY DEF Accept, ArgumentForms
  <1> HIDE DEF fragments
  <1>4. [slot EXCEPT !.fragments = fragments] \in Slots
        /\ [slot EXCEPT !.fragments = fragments].flushed = slot.flushed
    BY <1>1 DEF Slots
  <1>5. [slot EXCEPT !.final = <<args, line>>] \in Slots
        /\ [slot EXCEPT !.final = <<args, line>>].flushed = slot.flushed
    BY <1>2 DEF Slots
  <1> QED
    BY <1>3, <1>4, <1>5

\* One call of a chunk.
LEMMA FeedCallKeeps ==
  ASSUME NEW b, NEW st \in States(b), NEW call \in RawCalls, NEW line \in Nat
  PROVE  FeedCall(st, call, line) \in States(b)
  <1> DEFINE explicit == call.index # Unnumbered
             index == IF explicit THEN call.index[1] ELSE st.next
             fresh == [explicit |-> explicit, named |-> call.named, fragments |-> <<>>,
                       final |-> Nothing, flushed |-> FALSE]
             slot == IF index \in DOMAIN st.buffers THEN st.buffers[index] ELSE fresh
             new == Accept(slot, call.args, line)
             after == With(st.buffers, index, new)
             next == IF index + 1 > st.next THEN index + 1 ELSE st.next
             events == Append(st.events, Quiet)
  <1>1. /\ st.next \in Nat /\ st.buffers \in SlotMaps /\ DOMAIN st.buffers \subseteq 0..(st.next - 1)
        /\ st.events \in Seq({Text, Quiet})
        /\ \A i \in DOMAIN b : i \in DOMAIN st.buffers /\ st.buffers[i].flushed = b[i].flushed
    BY DEF States
  <1>2. index \in Nat /\ call.args \in ArgumentForms /\ call.named \in BOOLEAN
    BY <1>1 DEF RawCalls
  <1>3. DOMAIN st.buffers \subseteq Nat /\ \A i \in DOMAIN st.buffers : st.buffers[i] \in Slots
    BY <1>1 DEF SlotMaps
  <1>4. fresh \in Slots
    BY <1>2 DEF Slots
  <1> HIDE DEF index, fresh, explicit
  <1>5. slot \in Slots
    BY <1>3, <1>4
  <1> HIDE DEF slot
  <1>6. new \in Slots /\ new.flushed = slot.flushed
    BY <1>2, <1>5, AcceptKeeps
  <1> HIDE DEF new
  <1>7. /\ DOMAIN after = DOMAIN st.buffers \cup {index}
        /\ \A i \in DOMAIN after : after[i] = IF i = index THEN new ELSE st.buffers[i]
    BY DEF With
  <1>8. after \in SlotMaps
    <2>1. after = [i \in DOMAIN after |-> after[i]]
      BY DEF With
    <2>2. \A i \in DOMAIN after : after[i] \in Slots
      BY <1>3, <1>6, <1>7
    <2>3. DOMAIN after \in SUBSET Nat
      BY <1>2, <1>3, <1>7
    <2> HIDE DEF after
    <2>4. after \in [DOMAIN after -> Slots]
      BY <2>1, <2>2
    <2> QED
      BY <2>3, <2>4 DEF SlotMaps
  <1> HIDE DEF after
  <1>9. next \in Nat /\ DOMAIN after \subseteq 0..(next - 1)
    BY <1>1, <1>2, <1>7
  <1>10. events \in Seq({Text, Quiet})
    BY <1>1
  <1>11. \A i \in DOMAIN b : i \in DOMAIN after /\ after[i].flushed = b[i].flushed
    BY <1>1, <1>6, <1>7 DEF slot
  <1>12. FeedCall(st, call, line) = [buffers |-> after, next |-> next, events |-> events]
    BY DEF FeedCall, after, new, slot, fresh, index, explicit
  <1> HIDE DEF next, events
  <1> QED
    BY <1>8, <1>9, <1>10, <1>11, <1>12 DEF States

\* The calls of a chunk, one after the other.
LEMMA FeedCallsKeep ==
  ASSUME NEW b, NEW base \in States(b), NEW calls \in Seq(RawCalls), NEW line \in Nat
  PROVE  FeedCalls(base, calls, line) \in States(b)
  <1> DEFINE n == Len(calls)
             V == States(b)
             Add(st, call) == FeedCall(st, call, line)
             step == [p \in V \X (1..n) |-> Add(p[1], calls[p[2]])]
             Is(f) == f = [t \in SUBSET (1..n) |->
                             IF t = {} THEN base ELSE Add(f[t \ {MaxOf(t)}], calls[MaxOf(t)])]
             h == CHOOSE f : Is(f)
  <1>1. n \in Nat /\ DOMAIN calls = 1..n /\ \A i \in 1..n : calls[i] \in RawCalls
    OBVIOUS
  <1>2. base \in V
    OBVIOUS
  <1>3. \A v \in V, i \in 1..n :
          Add(v, calls[i]) \in V /\ step[<<v, i>>] = Add(v, calls[i])
    BY <1>1, FeedCallKeeps
  <1> HIDE DEF V, Add
  <1>4. step \in [V \X (1..n) -> V]
    BY <1>3
  <1>5. PICK g \in [SUBSET (1..n) -> V] : IsFold(g, n, base, step)
    <2> HIDE DEF n, step
    <2> QED
      BY <1>1, <1>2, <1>4, FoldExists
  <1>6. Is(g)
    <2>1. ASSUME NEW t \in SUBSET (1..n), t # {}
          PROVE  step[<<g[t \ {MaxOf(t)}], MaxOf(t)>>] = Add(g[t \ {MaxOf(t)}], calls[MaxOf(t)])
      <3>1. MaxOf(t) \in 1..n
        BY <1>1, <2>1, MaxOfSet
      <3>2. g[t \ {MaxOf(t)}] \in V
        BY <1>5
      <3> HIDE DEF step
      <3> QED
        BY <1>3, <3>1, <3>2
    <2> HIDE DEF step, n
    <2> QED
      BY <1>5, <2>1 DEF IsFold
  <1>7. Is(h)
    BY <1>6
  <1>8. FeedCalls(base, calls, line) = h[1..n]
    <2>1. FeedCalls(base, calls, line) = FoldLeft(Add, base, calls)
      BY DEF FeedCalls, Add
    <2>2. FoldLeft(Add, base, calls) = h[1..n]
      BY <1>1 DEF FoldLeft, MapThenFoldSet, Max, MaxOf
    <2> QED
      BY <2>1, <2>2
  <1> HIDE DEF h, n, step
  <1>9. h[1..0] = base
    BY <1>1, <1>7
  <1>10. \A k \in 0..n : h[1..k] \in V
    <2> DEFINE T == {k \in 0..n : h[1..k] \in V}
    <2>1. 0 \in T
      BY <1>1, <1>2, <1>9
    <2>2. ASSUME NEW k \in 0..(n - 1), k \in T PROVE k + 1 \in T
      <3>1. k + 1 \in 1..n /\ (k + 1) - 1 = k /\ k + 1 \in 0..n
        BY <1>1
      <3>2. /\ 1..(k + 1) \in SUBSET (1..n) /\ 1..(k + 1) # {}
            /\ MaxOf(1..(k + 1)) = k + 1 /\ (1..(k + 1)) \ {k + 1} = 1..k
        BY <1>1, <3>1, MaxOfRange
      <3>3. h[1..(k + 1)] = Add(h[1..k], calls[k + 1])
        BY <1>7, <3>2
      <3> QED
        BY <1>3, <2>2, <3>1, <3>3
    <2> HIDE DEF T
    <2>3. 0..n \subseteq T
      BY <1>1, <2>1, <2>2, BoundedInduction
    <2> QED
      BY <2>3 DEF T
  <1> QED
    BY <1>1, <1>8, <1>10 DEF V

-----------------------------------------------------------------------------
\* What the assembler hands on, given the buffers b before: calls that were not
\* complete before, each once and with every fragment of its slot.
Delivers(b, st) ==
  /\ st.buffers \in SlotMaps /\ st.next \in Nat /\ DOMAIN st.buffers \subseteq 0..(st.next - 1)
  /\ st.events \in Seq(StreamEvents)
  /\ \A i \in DOMAIN b : i \in DOMAIN st.buffers /\ (b[i].flushed => st.buffers[i].flushed)
  /\ \A i \in DOMAIN st.events : st.events[i].type # "none"
  /\ \A i \in DOMAIN st.events : IsCall(st.events[i]) =>
       LET e == st.events[i]
       IN  /\ e.index \in DOMAIN st.buffers /\ st.buffers[e.index].flushed
           /\ ~(e.index \in DOMAIN b /\ b[e.index].flushed)
           /\ e.arguments[1] = "fragments" =>
                e.arguments[2] = st.buffers[e.index].fragments
  /\ \A i, j \in DOMAIN st.events :
       IsCall(st.events[i]) /\ IsCall(st.events[j]) /\ st.events[i].index = st.events[j].index
         => i = j

\* A flush completes every slot that was not complete, each once.
LEMMA FlushDelivers ==
  ASSUME NEW b, NEW st \in States(b)
  PROVE  /\ Delivers(b, FlushPending(st))
         /\ DOMAIN FlushPending(st).buffers = DOMAIN st.buffers
         /\ \A i \in DOMAIN st.buffers :
              /\ FlushPending(st).buffers[i].flushed
              /\ FlushPending(st).buffers[i].fragments = st.buffers[i].fragments
  <1> DEFINE open == {i \in DOMAIN st.buffers : ~st.buffers[i].flushed}
             order == Indexes(st)
             due == Select(order, open)
             done == [i \in DOMAIN due |-> Completion(due[i], st.buffers[due[i]])]
             after == [i \in DOMAIN st.buffers |-> [st.buffers[i] EXCEPT !.flushed = TRUE]]
             events == st.events \o done
             m == Len(st.events)
             k == Len(due)
  <1>1. /\ st \in [buffers : SlotMaps, next : Nat, events : Seq({Text, Quiet})]
        /\ st.next \in Nat /\ st.buffers \in SlotMaps /\ DOMAIN st.buffers \subseteq 0..(st.next - 1)
        /\ st.events \in Seq({Text, Quiet})
        /\ \A i \in DOMAIN b : i \in DOMAIN st.buffers /\ st.buffers[i].flushed = b[i].flushed
    BY DEF States
  <1>2. DOMAIN st.buffers \subseteq Nat /\ \A i \in DOMAIN st.buffers : st.buffers[i] \in Slots
    BY <1>1 DEF SlotMaps
  <1>3. order \in Seq(Int) /\ Increasing(order)
    BY <1>1 DEF Indexes, Increasing
  <1> HIDE DEF order, open
  <1>4. Increasing(due) /\ HoldsMembers(due, order, Int, open)
    BY <1>3, SelectIncreasing, SelectMembers
  <1> HIDE DEF due
  <1>5. /\ due \in Seq(Int) /\ DOMAIN due = 1..k /\ k \in Nat
        /\ \A i \in 1..k : due[i] \in open /\ due[i] \in Int
        /\ \A i, j \in 1..k : due[i] = due[j] => i = j
    <2>1. due \in Seq(Int) /\ \A i \in 1..k : due[i] \in open
      BY <1>4 DEF HoldsMembers
    <2>2. \A i, j \in 1..k : i < j => due[i] < due[j]
      BY <1>4 DEF Increasing
    <2>3. k \in Nat /\ DOMAIN due = 1..k /\ \A i \in 1..k : due[i] \in Int
      BY <2>1
    <2>4. \A i, j \in 1..k : i < j \/ j < i \/ i = j
      BY <2>3
    <2>5. \A i, j \in 1..k : due[i] = due[j] => i = j
      BY <2>2, <2>3, <2>4
    <2> QED
      BY <2>1, <2>3, <2>5
  <1>6. \A i \in 1..k : due[i] \in DOMAIN st.buffers /\ ~st.buffers[due[i]].flushed
    BY <1>5 DEF open
  <1>7. ASSUME NEW i \in 1..k
        PROVE  \/ done[i] \in ErrorEvents
               \/ /\ done[i] \in CallEvents /\ done[i].index = due[i]
                  /\ done[i].arguments[1] = "fragments" =>
                       done[i].arguments[2] = st.buffers[due[i]].fragments
    <2> DEFINE d == due[i]
               slot == st.buffers[d]
    <2>1. done[i] = Completion(d, slot)
      BY <1>5
    <2>2. slot \in Slots /\ d \in Nat
      BY <1>2, <1>6
    <2> HIDE DEF done, slot, d
    <2>3. CASE Incomplete(slot)
      BY <2>1, <2>3 DEF Completion, Error, ErrorEvents
    <2>4. CASE ~Incomplete(slot) /\ slot.final # Nothing
      <3>1. slot.final \in Finals
        BY <2>2, <2>4 DEF Slots
      <3>2. slot.final[1] # "fragments" /\ slot.final \in Arguments
        BY <3>1 DEF Finals, ArgumentForms, Arguments
      <3>3. done[i] = [type |-> "call", index |-> d, arguments |-> slot.final]
        BY <2>1, <2>4 DEF Completion, Complete
      <3> QED
        BY <2>2, <3>2, <3>3 DEF CallEvents, d
    <2>5. CASE ~Incomplete(slot) /\ slot.final = Nothing
      <3> DEFINE args == <<"fragments", slot.fragments>>
      <3>1. slot.fragments \in Seq(Nat)
        BY <2>2 DEF Slots
      <3>2. args \in Arguments
        BY <3>1 DEF Arguments
      <3>3. done[i] = [type |-> "call", index |-> d, arguments |-> args]
        BY <2>1, <2>5 DEF Completion, Complete
      <3>4. args[1] = "fragments" /\ args[2] = slot.fragments
        OBVIOUS
      <3> HIDE DEF args
      <3>5. done[i] \in CallEvents /\ done[i].index = d /\ done[i].arguments = args
        BY <2>2, <3>2, <3>3 DEF CallEvents
      <3> QED
        BY <3>4, <3>5 DEF d, slot
    <2> QED
      BY <2>3, <2>4, <2>5
  <1>8. FlushPending(st) = [buffers |-> after, next |-> st.next, events |-> events]
    <2>1. FlushPending(st) = [st EXCEPT !.buffers = after, !.events = events]
      BY DEF FlushPending, due, order, open
    <2> HIDE DEF after, events
    <2> QED
      BY <1>1, <2>1
  <1>9. /\ after \in SlotMaps /\ DOMAIN after = DOMAIN st.buffers
        /\ \A i \in DOMAIN after : after[i].flushed /\ after[i].fragments = st.buffers[i].fragments
    <2>1. \A i \in DOMAIN st.buffers :
            /\ [st.buffers[i] EXCEPT !.flushed = TRUE] \in Slots
            /\ [st.buffers[i] EXCEPT !.flushed = TRUE].flushed
            /\ [st.buffers[i] EXCEPT !.flushed = TRUE].fragments = st.buffers[i].fragments
      BY <1>2 DEF Slots
    <2>2. after \in [DOMAIN st.buffers -> Slots] /\ DOMAIN st.buffers \in SUBSET Nat
      BY <1>2, <2>1
    <2> QED
      BY <2>1, <2>2 DEF SlotMaps
  <1> HIDE DEF after
  <1>10. /\ m \in Nat /\ \A i \in 1..m : st.events[i] \in {Text, Quiet}
         /\ done \in Seq(StreamEvents) /\ Len(done) = k
    <2>1. \A i \in 1..k : done[i] \in StreamEvents
      BY <1>7 DEF StreamEvents
    <2>2. done = [i \in 1..k |-> done[i]]
      BY <1>5
    <2> HIDE DEF done
    <2>3. done \in Seq(StreamEvents) /\ Len(done) = k
      BY <1>5, <2>1, <2>2
    <2> QED
      BY <1>1, <2>3
  <1> HIDE DEF done
  <1>11. /\ events \in Seq(StreamEvents) /\ DOMAIN events = 1..(m + k)
         /\ \A i \in 1..m : events[i] = st.events[i]
         /\ \A i \in 1..(m + k) : i > m => i - m \in 1..k /\ events[i] = done[i - m]
    <2>1. st.events \in Seq(StreamEvents)
      BY <1>1 DEF StreamEvents
    <2> HIDE DEF k
    <2>2. /\ events \in Seq(StreamEvents) /\ DOMAIN events = 1..(m + k)
          /\ \A i \in 1..m : events[i] = st.events[i]
      BY <1>10, <2>1
    <2>3. \A i \in 1..(m + k) : i > m => i - m \in 1..k
      BY <1>5, <1>10
    <2>4. \A i \in 1..(m + k) : i > m => events[i] = done[i - m]
      BY <1>10, <2>1
    <2> QED
      BY <2>2, <2>3, <2>4
  <1> HIDE DEF events, m, k
  <1>12. \A i \in 1..(m + k) :
           \/ events[i] \in {Text, Quiet} \cup ErrorEvents
           \/ /\ i - m \in 1..k /\ events[i] \in CallEvents /\ events[i].index = due[i - m]
              /\ events[i].arguments[1] = "fragments" =>
                   events[i].arguments[2] = st.buffers[due[i - m]].fragments
    <2> SUFFICES ASSUME NEW i \in 1..(m + k)
                 PROVE  \/ events[i] \in {Text, Quiet} \cup ErrorEvents
                        \/ /\ i - m \in 1..k /\ events[i] \in CallEvents
                           /\ events[i].index = due[i - m]
                           /\ events[i].arguments[1] = "fragments" =>
                                events[i].arguments[2] = st.buffers[due[i - m]].fragments
      OBVIOUS
    <2>1. CASE i > m
      BY <1>7, <1>11, <2>1
    <2>2. CASE ~(i > m)
      <3>1. i \in 1..m
        BY <1>5, <1>10, <2>2
      <3> QED
        BY <1>10, <1>11, <3>1
    <2> QED
      BY <2>1, <2>2
  <1>13. /\ \A i \in 1..(m + k) : events[i].type # "none"
         /\ \A i \in 1..(m + k) : IsCall(events[i]) =>
              /\ i - m \in 1..k /\ events[i].index = due[i - m]
              /\ events[i].arguments[1] = "fragments" =>
                   events[i].arguments[2] = st.buffers[due[i - m]].fragments
    BY <1>12 DEF IsCall, Text, Quiet, ErrorEvents, CallEvents
  <1>14. \A i, j \in 1..(m + k) :
           IsCall(events[i]) /\ IsCall(events[j]) /\ events[i].index = events[j].index => i = j
    <2> SUFFICES ASSUME NEW i \in 1..(m + k), NEW j \in 1..(m + k), IsCall(events[i]),
                        IsCall(events[j]), events[i].index = events[j].index
                 PROVE  i = j
      OBVIOUS
    <2>1. i - m = j - m
      BY <1>5, <1>13
    <2> QED
      BY <1>5, <1>10, <2>1
  <1>15. Delivers(b, FlushPending(st))
    <2> DEFINE new == FlushPending(st)
    <2>1. new.buffers = after /\ new.next = st.next /\ new.events = events
      BY <1>8
    <2>2. /\ after \in SlotMaps /\ st.next \in Nat /\ DOMAIN after \subseteq 0..(st.next - 1)
          /\ events \in Seq(StreamEvents)
      BY <1>1, <1>9, <1>11
    <2>3. \A i \in DOMAIN b : i \in DOMAIN after /\ (b[i].flushed => after[i].flushed)
      BY <1>1, <1>9
    <2>4. ASSUME NEW i \in DOMAIN events, IsCall(events[i])
          PROVE  /\ events[i].index \in DOMAIN after /\ after[events[i].index].flushed
                 /\ ~(events[i].index \in DOMAIN b /\ b[events[i].index].flushed)
                 /\ events[i].arguments[1] = "fragments" =>
                      events[i].arguments[2] = after[events[i].index].fragments
      <3>1. /\ i - m \in 1..k /\ events[i].index = due[i - m]
            /\ events[i].arguments[1] = "fragments" =>
                 events[i].arguments[2] = st.buffers[due[i - m]].fragments
        BY <1>11, <1>13, <2>4
      <3> QED
        BY <1>1, <1>6, <1>9, <3>1
    <2> HIDE DEF new
    <2>5. Delivers(b, new)
      BY <1>11, <1>13, <1>14, <2>1, <2>2, <2>3, <2>4 DEF Delivers
    <2> QED
      BY <2>5 DEF new
  <1> QED
    BY <1>8, <1>9, <1>15

\* An event that is no call can follow.
LEMMA DeliversMore ==
  ASSUME NEW b, NEW B, NEW N, NEW E,
         NEW st \in [buffers : B, next : N, events : E], Delivers(b, st),
         NEW e \in StreamEvents, e.type \notin {"call", "none"}
  PROVE  Delivers(b, [st EXCEPT !.events = Append(@, e)])
  <1> DEFINE m == Len(st.events)
             events == Append(st.events, e)
  <1>1. st.events \in Seq(StreamEvents) /\ m \in Nat
    BY DEF Delivers
  <1>2. /\ events \in Seq(StreamEvents) /\ DOMAIN events = 1..(m + 1) /\ events[m + 1] = e
        /\ DOMAIN st.events = 1..m
        /\ \A i \in 1..(m + 1) : i = m + 1 \/ (i \in 1..m /\ events[i] = st.events[i])
    BY <1>1
  <1> DEFINE new == [st EXCEPT !.events = events]
  <1>3. new.events = events /\ new.buffers = st.buffers /\ new.next = st.next
    OBVIOUS
  <1> HIDE DEF events, new, m
  <1>4. \A i \in 1..(m + 1) : IsCall(events[i]) => i \in 1..m /\ events[i] = st.events[i]
    BY <1>2 DEF IsCall
  <1>5. Delivers(b, new)
    <2>1. /\ new.buffers \in SlotMaps /\ new.next \in Nat
          /\ DOMAIN new.buffers \subseteq 0..(new.next - 1)
          /\ \A i \in DOMAIN b : i \in DOMAIN new.buffers /\ (b[i].flushed => new.buffers[i].flushed)
      BY <1>3 DEF Delivers
    <2>2. new.events \in Seq(StreamEvents) /\ \A i \in DOMAIN new.events : new.events[i].type # "none"
      BY <1>2, <1>3 DEF Delivers
    <2>3. \A i \in DOMAIN new.events : IsCall(new.events[i]) =>
            LET c == new.events[i]
            IN  /\ c.index \in DOMAIN new.buffers /\ new.buffers[c.index].flushed
                /\ ~(c.index \in DOMAIN b /\ b[c.index].flushed)
                /\ c.arguments[1] = "fragments" =>
                     c.arguments[2] = new.buffers[c.index].fragments
      BY <1>2, <1>3, <1>4 DEF Delivers
    <2>4. \A i, j \in DOMAIN new.events :
            IsCall(new.events[i]) /\ IsCall(new.events[j])
              /\ new.events[i].index = new.events[j].index => i = j
      BY <1>2, <1>3, <1>4 DEF Delivers
    <2> QED
      BY <2>1, <2>2, <2>3, <2>4 DEF Delivers
  <1> QED
    BY <1>5 DEF new, events

Joins(q, s, t) ==
  /\ q \in Seq(StreamEvents) /\ DOMAIN q = 1..(Len(s) + Len(t))
  /\ \A i \in 1..Len(s) : q[i] = s[i]
  /\ \A i \in DOMAIN q : i \in 1..Len(s) \/ (i - Len(s) \in 1..Len(t) /\ q[i] = t[i - Len(s)])

\* What is where when one list of events follows another.
LEMMA Joining ==
  ASSUME NEW s \in Seq(StreamEvents), NEW t \in Seq(StreamEvents)
  PROVE  Joins(s \o t, s, t)
  <1>1. Len(s) \in Nat /\ Len(t) \in Nat
    OBVIOUS
  <1>2. s \o t \in Seq(StreamEvents) /\ DOMAIN (s \o t) = 1..(Len(s) + Len(t))
    OBVIOUS
  <1>3. \A i \in 1..Len(s) : (s \o t)[i] = s[i]
    OBVIOUS
  <1>4. \A i \in 1..(Len(s) + Len(t)) : i \notin 1..Len(s) => i - Len(s) \in 1..Len(t)
    BY <1>1
  <1>5. \A i \in 1..(Len(s) + Len(t)) : i \notin 1..Len(s) => (s \o t)[i] = t[i - Len(s)]
    OBVIOUS
  <1> QED
    BY <1>2, <1>3, <1>4, <1>5 DEF Joins

\* One chunk: calls complete only in the last one, and then all of them.
LEMMA FeedDelivers ==
  ASSUME StreamTypeOK, NEW line \in ResponseLines, NEW n \in Nat
  PROVE  /\ Delivers(buffers, Feed(Assembled, line, n))
         /\ line.done => \A i \in DOMAIN Feed(Assembled, line, n).buffers :
                           Feed(Assembled, line, n).buffers[i].flushed
         /\ ~line.done => \A i \in DOMAIN Feed(Assembled, line, n).events :
                            ~IsCall(Feed(Assembled, line, n).events[i])
  <1> DEFINE texts == IF line.text THEN Append(<<>>, Text) ELSE <<>>
             base == [buffers |-> buffers, next |-> nextIndex, events |-> texts]
             after == FeedCalls(base, line.calls, n)
             flushed == FlushPending(after)
  <1>1. line.calls \in Seq(RawCalls) /\ line.text \in BOOLEAN /\ line.done \in BOOLEAN
    BY StreamAssumption DEF StreamAssumption, StreamLines
  <1>2. texts \in Seq({Text, Quiet})
    <2>1. \A A : \A e \in A : <<>> \in Seq(A) /\ Append(<<>>, e) \in Seq(A)
      OBVIOUS
    <2> QED
      BY <2>1
  <1> HIDE DEF texts
  <1>3. base \in States(buffers)
    BY <1>2 DEF States, StreamTypeOK
  <1>4. [Assembled EXCEPT !.events = texts] = base
    BY DEF Assembled
  <1>5. Assembled.events = <<>>
    BY DEF Assembled
  <1> HIDE DEF base
  <1>6. after \in States(buffers)
    BY <1>1, <1>3, FeedCallsKeep
  <1>7. Feed(Assembled, line, n) = IF line.done THEN [flushed EXCEPT !.events = Append(@, Quiet)]
                                   ELSE after
    BY <1>4, <1>5 DEF Feed, texts, after, flushed
  <1> HIDE DEF after
  <1>8. CASE line.done
    <2>1. Delivers(buffers, flushed)
      BY <1>6, FlushDelivers
    <2>2. \A i \in DOMAIN flushed.buffers : flushed.buffers[i].flushed
      BY <1>6, FlushDelivers
    <2>3. PICK B, E, N : flushed \in [buffers : B, next : N, events : E]
      <3>1. after \in [buffers : SlotMaps, next : Nat, events : Seq({Text, Quiet})]
        BY <1>6 DEF States
      <3>2. PICK c, d : flushed = [after EXCEPT !.buffers = c, !.events = d]
        BY DEF FlushPending
      <3>3. flushed \in [buffers : {c}, next : Nat, events : {d}]
        BY <3>1, <3>2
      <3> QED
        BY <3>3
    <2>4. Quiet \in StreamEvents /\ Quiet.type \notin {"call", "none"}
      BY DEF StreamEvents, Quiet
    <2> HIDE DEF flushed
    <2> DEFINE new == [flushed EXCEPT !.events = Append(@, Quiet)]
    <2>5. Delivers(buffers, new)
      BY <2>1, <2>3, <2>4, DeliversMore
    <2>6. new.buffers = flushed.buffers
      BY <2>3
    <2> QED
      BY <1>7, <1>8, <2>2, <2>5, <2>6
  <1>9. CASE ~line.done
    <2>1. /\ after.buffers \in SlotMaps /\ after.next \in Nat
          /\ DOMAIN after.buffers \subseteq 0..(after.next - 1)
          /\ after.events \in Seq({Text, Quiet})
          /\ \A i \in DOMAIN buffers :
               i \in DOMAIN after.buffers /\ after.buffers[i].flushed = buffers[i].flushed
      BY <1>6 DEF States
    <2>2. \A i \in DOMAIN after.events : after.events[i] \in {Text, Quiet}
      BY <2>1
    <2>3. \A i \in DOMAIN after.events : ~IsCall(after.events[i]) /\ after.events[i].type # "none"
      BY <2>2 DEF Text, Quiet, IsCall
    <2>4. after.events \in Seq(StreamEvents)
      BY <2>1 DEF StreamEvents
    <2>5. Delivers(buffers, after)
      BY <2>1, <2>3, <2>4 DEF Delivers
    <2> QED
      BY <1>7, <1>9, <2>3, <2>5
  <1> QED
    BY <1>1, <1>8, <1>9

\* What the reader hands on keeps the calls of a round each whole and once.
LEMMA DeliveryKeepsCalls ==
  ASSUME StreamInv, reader = "read", NEW st, Delivers(buffers, st), Becomes(st),
         UNCHANGED <<client, called>>,
         \/ sawDone /\ fed' = fed
         \/ /\ ~sawDone
            /\ fed' = [i \in DOMAIN st.buffers |-> st.buffers[i].fragments]
  PROVE  CallsInv'
  <1> DEFINE m == Len(queue)
             k == Len(st.events)
             Old(i) == i \in 1..m /\ queue'[i] = queue[i]
             New(i) == i - m \in 1..k /\ queue'[i] = st.events[i - m]
  <1>1. /\ buffers' = st.buffers /\ queue' = queue \o st.events
        /\ queue \in Seq(StreamEvents) /\ st.events \in Seq(StreamEvents)
        /\ m \in Nat /\ k \in Nat /\ DOMAIN queue = 1..m /\ DOMAIN st.events = 1..k
    BY DEF Becomes, StreamInv, StreamTypeOK, Delivers
  <1>2. DOMAIN queue' = 1..(m + k) /\ \A i \in 1..(m + k) : Old(i) \/ New(i)
    <2>1. Joins(queue', queue, st.events)
      BY <1>1, Joining
    <2> QED
      BY <1>1, <2>1 DEF Joins
  <1> SUFFICES ASSUME Live PROVE CallsInv'
    BY DEF CallsInv, Live
  <1>3. /\ \A i \in DOMAIN called : Settled(called[i])
        /\ \A j \in 1..m : IsCall(queue[j]) => Settled(queue[j])
        /\ \A i, j \in DOMAIN called : called[i].index = called[j].index => i = j
        /\ \A i, j \in 1..m :
             IsCall(queue[i]) /\ IsCall(queue[j]) /\ queue[i].index = queue[j].index => i = j
        /\ \A i \in DOMAIN called, j \in 1..m :
             IsCall(queue[j]) => called[i].index # queue[j].index
    BY <1>1 DEF StreamInv, CallsInv
  <1>4. ~sawDone => called = <<>> /\ \A j \in 1..m : ~IsCall(queue[j])
    BY <1>1 DEF StreamInv, PhaseInv
  <1>5. sawDone => fed' = fed /\ \A i \in DOMAIN fed : i \in DOMAIN buffers /\ buffers[i].flushed
    BY DEF StreamInv, PhaseInv
  \* Calls handed on before: their slots were flushed, and are.
  <1>6. ASSUME NEW e, Settled(e), sawDone
        PROVE  Settled(e)' /\ e.index \in DOMAIN buffers /\ buffers[e.index].flushed
    <2>1. e.index \in DOMAIN buffers /\ buffers[e.index].flushed
      BY <1>6 DEF Settled
    <2>2. e.index \in DOMAIN st.buffers /\ st.buffers[e.index].flushed
      BY <2>1 DEF Delivers
    <2> QED
      BY <1>1, <1>5, <1>6, <2>1, <2>2 DEF Settled
  <1>7. /\ \A i \in DOMAIN called : /\ Settled(called[i])'
                                   /\ called[i].index \in DOMAIN buffers
                                   /\ buffers[called[i].index].flushed
        /\ \A j \in 1..m : IsCall(queue[j]) => /\ queue[j].index \in DOMAIN buffers
                                              /\ buffers[queue[j].index].flushed
    <2>1. \A i \in DOMAIN called : sawDone
      BY <1>4
    <2>2. \A i \in DOMAIN called : Settled(called[i])'
      BY <1>3, <1>6, <2>1 DEF Settled
    <2> QED
      BY <1>3, <1>4, <1>6, <2>1, <2>2 DEF Settled
  \* Calls handed on now: their slots were not.
  <1>8. ASSUME NEW j \in 1..k, IsCall(st.events[j])
        PROVE  LET e == st.events[j]
               IN  /\ e.index \in DOMAIN buffers' /\ buffers'[e.index].flushed
                   /\ e.arguments[1] = "fragments" /\ e.index \in DOMAIN fed' =>
                        e.arguments[2] = fed'[e.index]
                   /\ ~(e.index \in DOMAIN buffers /\ buffers[e.index].flushed)
    <2> DEFINE e == st.events[j]
    <2>1. /\ e.index \in DOMAIN st.buffers /\ st.buffers[e.index].flushed
          /\ ~(e.index \in DOMAIN buffers /\ buffers[e.index].flushed)
          /\ e.arguments[1] = "fragments" =>
               e.arguments[2] = st.buffers[e.index].fragments
      BY <1>1, <1>8 DEF Delivers
    <2> HIDE DEF e
    <2>2. CASE sawDone
      BY <1>1, <1>5, <2>1, <2>2 DEF e
    <2>3. CASE ~sawDone
      BY <1>1, <2>1, <2>3 DEF e
    <2> QED
      BY <2>2, <2>3
  <1>9. \A i, j \in 1..k : IsCall(st.events[i]) /\ IsCall(st.events[j])
                            /\ st.events[i].index = st.events[j].index => i = j
    BY <1>1 DEF Delivers
  <1> HIDE DEF k, m
  <1>10. \A j \in 1..(m + k) : IsCall(queue'[j]) => Settled(queue[j])'
    <2> SUFFICES ASSUME NEW j \in 1..(m + k), IsCall(queue'[j]) PROVE Settled(queue[j])'
      OBVIOUS
    <2>1. CASE Old(j)
      <3>1. Settled(queue[j]) /\ sawDone /\ queue'[j] = queue[j]
        BY <1>3, <1>4, <2>1
      <3>2. PICK e : e = queue[j]
        OBVIOUS
      <3>3. Settled(e)'
        BY <1>6, <3>1, <3>2
      <3> QED
        BY <3>1, <3>2, <3>3 DEF Settled
    <2>2. CASE New(j)
      BY <1>8, <2>2 DEF Settled
    <2> QED
      BY <1>2, <2>1, <2>2
  <1>11. ASSUME NEW i \in 1..(m + k), NEW j \in 1..(m + k), IsCall(queue'[i]), IsCall(queue'[j]),
                queue'[i].index = queue'[j].index
         PROVE  i = j
    <2>1. CASE Old(i) /\ Old(j)
      BY <1>3, <1>11, <2>1
    <2>2. CASE New(i) /\ New(j)
      <3>1. i - m = j - m
        BY <1>9, <1>11, <2>2
      <3> QED
        BY <1>1, <3>1
    <2>3. CASE Old(i) /\ New(j)
      BY <1>7, <1>8, <1>11, <2>3
    <2>4. CASE New(i) /\ Old(j)
      BY <1>7, <1>8, <1>11, <2>4
    <2> QED
      BY <1>2, <2>1, <2>2, <2>3, <2>4
  <1>12. ASSUME NEW i \in DOMAIN called, NEW j \in 1..(m + k), IsCall(queue'[j])
         PROVE  called[i].index # queue'[j].index
    <2>1. CASE Old(j)
      BY <1>3, <1>12, <2>1
    <2>2. CASE New(j)
      BY <1>7, <1>8, <1>12, <2>2
    <2> QED
      BY <1>2, <2>1, <2>2
  <1>13. \A i \in DOMAIN called' : Settled(called[i])'
    BY <1>7 DEF Settled
  <1> QED
    BY <1>2, <1>3, <1>10, <1>11, <1>12, <1>13 DEF CallsInv

\* Nothing has been asked, read or posted at first.
LEMMA StreamInitHolds == StreamInit => StreamInv
  <1> SUFFICES ASSUME StreamInit PROVE StreamInv
    OBVIOUS
  <1>1. buffers \in [{} -> Slots] /\ {} \in SUBSET Nat
    BY DEF StreamInit
  <1>2. StreamTypeOK
    <2>1. [{} -> Slots] \in {[D -> Slots] : D \in SUBSET Nat}
      BY <1>1
    <2>2. buffers \in SlotMaps
      BY <1>1, <2>1 DEF SlotMaps
    <2>3. DOMAIN buffers = {}
      BY <1>1
    <2>4. queue \in Seq(StreamEvents) /\ called \in Seq(CallEvents)
      BY DEF StreamInit
    <2>5. sawDone \in BOOLEAN /\ lines \in Nat /\ nextIndex \in Nat
      BY DEF StreamInit
    <2> QED
      BY <2>2, <2>3, <2>4, <2>5 DEF StreamTypeOK
  <1>3. PhaseInv /\ CallsInv /\ CompletedRoundsAreWhole
    BY DEF StreamInit, PhaseInv, CallsInv, CompletedRoundsAreWhole
  <1> QED
    BY <1>2, <1>3 DEF StreamInv

\* The reader posts one event and goes on to its end, or starts to.
LEMMA PostStep ==
  ASSUME StreamInv, NEW e \in StreamEvents, ~IsCall(e),
         queue' = Append(queue, e) \/ (queue' = queue /\ cancelled),
         reader \in {"post", "read", "finally"}, reader' \in {"finally", "ended"},
         reader # "finally" => e.type = "error" /\ reader' = "finally",
         e.type = "none" => reader' = "ended",
         UNCHANGED <<lines, sawDone, buffers, nextIndex, cancelled, client, called, fed>>
           \/ (lines' = lines + 1
                /\ UNCHANGED <<sawDone, buffers, nextIndex, cancelled, client, called, fed>>)
  PROVE  StreamInv'
  <1> DEFINE m == Len(queue)
  <1>1. /\ queue \in Seq(StreamEvents) /\ m \in Nat /\ DOMAIN queue = 1..m
        /\ UNCHANGED <<sawDone, buffers, nextIndex, cancelled, client, called, fed>>
    BY DEF StreamInv, StreamTypeOK
  <1>2. StreamTypeOK'
    <2>1. queue' \in Seq(StreamEvents)
      BY <1>1
    <2>2. lines' \in Nat
      BY DEF StreamInv, StreamTypeOK
    <2> QED
      BY <1>1, <2>1, <2>2 DEF StreamInv, StreamTypeOK
  <1>3. CompletedRoundsAreWhole'
    BY <1>1 DEF StreamInv, CompletedRoundsAreWhole
  <1>4. CASE queue' = queue /\ cancelled
    <2>1. PhaseInv'
      BY <1>1, <1>4 DEF StreamInv, PhaseInv, Live
    <2>2. CallsInv'
      BY <1>1, <1>4 DEF StreamInv, PhaseInv, CallsInv, Live
    <2> QED
      BY <1>2, <1>3, <2>1, <2>2 DEF StreamInv
  <1>5. CASE queue' = Append(queue, e)
    <2>1. /\ DOMAIN queue' = 1..(m + 1) /\ Len(queue') = m + 1 /\ queue'[m + 1] = e
          /\ \A i \in 1..m : queue'[i] = queue[i]
          /\ \A i \in 1..(m + 1) : i \in 1..m \/ i = m + 1
      BY <1>1, <1>5
    <2> HIDE DEF m
    <2>2. \A j \in 1..m : queue[j].type # "none"
      BY <1>1 DEF StreamInv, PhaseInv
    <2>3. (\E j \in 1..m : queue[j].type = "error") => \E j \in 1..(m + 1) : queue'[j].type = "error"
      BY <1>1, <2>1
    <2>4. reader # "finally" => \E j \in 1..(m + 1) : queue'[j].type = "error"
      BY <1>1, <2>1
    <2>5. PhaseInv'
      <3>1. /\ client' = "none" => reader' = "none"
            /\ ~sawDone' => fed' = [i \in DOMAIN buffers' |-> buffers'[i].fragments]
            /\ sawDone' => \A i \in DOMAIN fed' : i \in DOMAIN buffers' /\ buffers'[i].flushed
        BY <1>1 DEF StreamInv, PhaseInv
      <3>2. \A j \in DOMAIN queue' : queue'[j].type = "none" => j = Len(queue') /\ reader' = "ended"
        BY <2>1, <2>2
      <3>3. ASSUME Live
            PROVE  ~cancelled /\ (~sawDone => \E j \in 1..(m + 1) : queue'[j].type = "error")
        BY <1>1, <2>3, <2>4, <3>3 DEF StreamInv, PhaseInv
      <3> QED
        BY <1>1, <2>1, <3>1, <3>2, <3>3 DEF PhaseInv, Live
    <2>6. CallsInv'
      <3>1. \A j \in 1..(m + 1) : IsCall(queue'[j]) => j \in 1..m /\ queue'[j] = queue[j]
        BY <2>1
      <3>2. \A x : Settled(x) => Settled(x)'
        BY <1>1 DEF Settled
      <3>3. Live' <=> Live
        BY <1>1 DEF Live
      <3>4. ASSUME Live
            PROVE  /\ \A i \in DOMAIN called : Settled(called[i])'
                   /\ \A j \in 1..(m + 1) : IsCall(queue'[j]) => Settled(queue[j])'
        BY <1>1, <3>1, <3>4 DEF StreamInv, CallsInv, Settled
      <3> QED
        BY <1>1, <2>1, <3>1, <3>3, <3>4 DEF StreamInv, CallsInv
    <2> QED
      BY <1>2, <1>3, <2>5, <2>6 DEF StreamInv
  <1> QED
    BY <1>4, <1>5

\* The chunks that are read, and the end of the stream.
LEMMA ReadStep ==
  ASSUME StreamInv, NEW line \in ResponseLines, ReadLine(line)
  PROVE  StreamInv'
  <1>1. /\ reader = "read" /\ lines' = lines + 1 /\ lines' \in Nat
        /\ UNCHANGED <<response, cancelled, client, called, interrupt>>
    BY DEF ReadLine, StreamInv, StreamTypeOK, consumer
  <1>2. CASE /\ cancelled /\ reader' = "finally"
             /\ UNCHANGED <<sawDone, buffers, nextIndex, queue, fed>>
    <2>1. Error("disconnect") \in StreamEvents /\ ~IsCall(Error("disconnect"))
          /\ Error("disconnect").type = "error"
      BY DEF StreamEvents, ErrorEvents, Error, IsCall
    <2> QED
      BY <1>1, <1>2, <2>1, PostStep
  <1>3. CASE /\ queue' = Append(queue, Error("malformed_payload")) /\ reader' = "finally"
             /\ UNCHANGED <<sawDone, buffers, nextIndex, fed>>
    <2>1. Error("malformed_payload") \in StreamEvents /\ ~IsCall(Error("malformed_payload"))
          /\ Error("malformed_payload").type = "error"
      BY DEF StreamEvents, ErrorEvents, Error, IsCall
    <2> QED
      BY <1>1, <1>3, <2>1, PostStep
  <1>4. CASE /\ ~line.junk /\ UNCHANGED reader
             /\ LET st == Feed(Assembled, line, lines') IN Becomes(st) /\ fed' = FedBy(line, st)
             /\ sawDone' = (sawDone \/ line.done)
    <2> DEFINE st == Feed(Assembled, line, lines')
    <2>1. StreamTypeOK /\ PhaseInv
      BY DEF StreamInv
    <2>2. PICK n \in Nat : n = lines'
      BY <1>1
    <2>3. /\ Delivers(buffers, Feed(Assembled, line, n))
          /\ line.done => \A i \in DOMAIN Feed(Assembled, line, n).buffers :
                            Feed(Assembled, line, n).buffers[i].flushed
          /\ ~line.done => \A i \in DOMAIN Feed(Assembled, line, n).events :
                             ~IsCall(Feed(Assembled, line, n).events[i])
      BY <2>1, FeedDelivers
    <2>4. /\ Delivers(buffers, st)
          /\ line.done => \A i \in DOMAIN st.buffers : st.buffers[i].flushed
          /\ ~line.done => \A i \in DOMAIN st.events : ~IsCall(st.events[i])
      BY <2>2, <2>3
    <2>5. Becomes(st) /\ fed' = FedBy(line, st)
      BY <1>4
    <2> HIDE DEF st
    <2>6. \/ sawDone /\ fed' = fed
          \/ /\ ~sawDone
             /\ fed' = [i \in DOMAIN st.buffers |-> st.buffers[i].fragments]
      BY <2>5 DEF FedBy
    <2>7. CallsInv'
      BY <1>1, <2>4, <2>5, <2>6, DeliveryKeepsCalls
    <2>8. line.done \in BOOLEAN
      BY StreamAssumption DEF StreamAssumption, StreamLines
    <2>9. /\ buffers' = st.buffers /\ nextIndex' = st.next /\ queue' = queue \o st.events
          /\ st.events \in Seq(StreamEvents) /\ queue \in Seq(StreamEvents)
      BY <2>1, <2>4, <2>5 DEF Becomes, Delivers, StreamTypeOK
    <2>10. Joins(queue', queue, st.events)
      BY <2>9, Joining
    <2>11. StreamTypeOK'
      BY <1>1, <1>4, <2>1, <2>4, <2>8, <2>9, <2>10 DEF StreamTypeOK, Delivers, Joins
    <2>12. \A j \in DOMAIN queue' :
             \/ j \in DOMAIN queue /\ queue'[j] = queue[j]
             \/ \E i \in DOMAIN st.events : queue'[j] = st.events[i]
      <3>1. DOMAIN queue = 1..Len(queue) /\ DOMAIN st.events = 1..Len(st.events)
        BY <2>9
      <3> QED
        BY <2>10, <3>1 DEF Joins
    <2>13. PhaseInv'
      <3>1. client' = "none" => reader' = "none"
        BY <1>1, <1>4, <2>1 DEF PhaseInv
      <3>2. ~sawDone' => fed' = [i \in DOMAIN buffers' |-> buffers'[i].fragments]
        BY <1>4, <2>6, <2>9
      <3>3. sawDone' => \A i \in DOMAIN fed' : i \in DOMAIN buffers' /\ buffers'[i].flushed
        <4>1. CASE sawDone
          BY <2>1, <2>4, <2>6, <2>9, <4>1 DEF PhaseInv, Delivers
        <4>2. CASE ~sawDone
          BY <1>4, <2>4, <2>6, <2>9, <4>2
        <4> QED
          BY <4>1, <4>2
      <3>4. \A j \in DOMAIN queue' : queue'[j].type # "none"
        BY <1>1, <2>1, <2>4, <2>12 DEF PhaseInv, Delivers
      <3>5. Live /\ ~sawDone' => called' = <<>> /\ \A j \in DOMAIN queue' : ~IsCall(queue'[j])
        BY <1>1, <1>4, <2>1, <2>4, <2>8, <2>12 DEF PhaseInv
      <3>6. Live => ~cancelled
        BY <2>1 DEF PhaseInv
      <3> QED
        BY <1>1, <1>4, <3>1, <3>2, <3>3, <3>4, <3>5, <3>6 DEF PhaseInv, Live
    <2>14. CompletedRoundsAreWhole'
      BY <1>1, <1>4, <2>6 DEF StreamInv, CompletedRoundsAreWhole
    <2> QED
      BY <2>7, <2>11, <2>13, <2>14 DEF StreamInv
  <1> QED
    BY <1>1, <1>2, <1>3, <1>4 DEF ReadLine, assembler

\* The stream ends: what is pending completes, and an early end is an error.
LEMMA EndStep == ASSUME StreamInv, EndOfStream PROVE StreamInv'
  <1> DEFINE flushed == FlushPending(Assembled)
             st == IF sawDone \/ cancelled THEN flushed
                   ELSE [flushed EXCEPT !.events = Append(@, Error("disconnect"))]
  <1>1. /\ reader = "read" /\ reader' = "finally" /\ Becomes(st)
        /\ UNCHANGED <<lines, sawDone, cancelled, client, called, fed>>
    BY DEF EndOfStream, consumer
  <1>2. StreamTypeOK /\ PhaseInv
    BY DEF StreamInv
  <1>3. Assembled \in States(buffers) /\ Assembled.buffers = buffers
    BY <1>2 DEF StreamTypeOK, States, Assembled
  <1>4. /\ Delivers(buffers, flushed) /\ DOMAIN flushed.buffers = DOMAIN buffers
        /\ \A i \in DOMAIN buffers :
             flushed.buffers[i].flushed /\ flushed.buffers[i].fragments = buffers[i].fragments
    BY <1>3, FlushDelivers
  <1>5. PICK B, E, N : flushed \in [buffers : B, next : N, events : E]
    <2>1. Assembled \in [buffers : SlotMaps, next : Nat, events : Seq({Text, Quiet})]
      BY <1>3 DEF States
    <2>2. PICK c, d : flushed = [Assembled EXCEPT !.buffers = c, !.events = d]
      BY DEF FlushPending
    <2>3. flushed \in [buffers : {c}, next : Nat, events : {d}]
      BY <2>1, <2>2
    <2> QED
      BY <2>3
  <1> HIDE DEF flushed
  <1>6. Error("disconnect") \in StreamEvents /\ Error("disconnect").type = "error"
    BY DEF StreamEvents, ErrorEvents, Error
  <1>7. PICK e : e = Error("disconnect")
    OBVIOUS
  <1> DEFINE more == [flushed EXCEPT !.events = Append(@, e)]
  <1>8. Delivers(buffers, more)
    BY <1>4, <1>5, <1>6, <1>7, DeliversMore
  <1>9. st = IF sawDone \/ cancelled THEN flushed ELSE more
    BY <1>7
  <1>10. more.buffers = flushed.buffers /\ more.events = Append(flushed.events, e)
    BY <1>5
  <1> HIDE DEF st, more
  <1>11. Delivers(buffers, st) /\ st.buffers = flushed.buffers
    BY <1>4, <1>8, <1>9, <1>10
  <1>12. ~sawDone => fed = [i \in DOMAIN st.buffers |-> st.buffers[i].fragments]
    BY <1>2, <1>4, <1>11 DEF PhaseInv
  <1>13. CallsInv'
    BY <1>1, <1>11, <1>12, DeliveryKeepsCalls
  <1>14. /\ buffers' = st.buffers /\ nextIndex' = st.next /\ queue' = queue \o st.events
         /\ st.events \in Seq(StreamEvents) /\ queue \in Seq(StreamEvents)
    BY <1>1, <1>2, <1>11 DEF Becomes, Delivers, StreamTypeOK
  <1>15. Joins(queue', queue, st.events)
    BY <1>14, Joining
  <1>16. StreamTypeOK'
    BY <1>1, <1>2, <1>11, <1>14, <1>15 DEF StreamTypeOK, Delivers, Joins
  <1>17. \A j \in DOMAIN queue' :
           \/ j \in DOMAIN queue /\ queue'[j] = queue[j]
           \/ \E i \in DOMAIN st.events : queue'[j] = st.events[i]
    <2>1. DOMAIN queue = 1..Len(queue) /\ DOMAIN st.events = 1..Len(st.events)
      BY <1>14
    <2> QED
      BY <1>15, <2>1 DEF Joins
  \* A stream that ends before its last chunk is an error behind all else.
  <1>18. ~sawDone /\ ~cancelled => \E j \in DOMAIN queue' : queue'[j].type = "error"
    <2> SUFFICES ASSUME ~sawDone, ~cancelled
                 PROVE  \E j \in DOMAIN queue' : queue'[j].type = "error"
      OBVIOUS
    <2>1. flushed.events \in Seq(StreamEvents)
      BY <1>4 DEF Delivers
    <2> DEFINE k == Len(st.events)
               m == Len(queue)
    <2>2. k \in Nat /\ k >= 1 /\ st.events[k] = e
      BY <1>6, <1>7, <1>9, <1>10, <2>1
    <2>3. m \in Nat /\ m + k \in DOMAIN queue' /\ m + k \notin 1..m /\ (m + k) - m = k
      BY <1>14, <1>15, <2>2 DEF Joins
    <2>4. queue'[m + k] = st.events[(m + k) - m]
      BY <1>15, <2>3 DEF Joins
    <2> QED
      BY <1>6, <1>7, <2>2, <2>3, <2>4
  <1>19. PhaseInv'
    <2>1. client' = "none" => reader' = "none"
      BY <1>1, <1>2 DEF PhaseInv
    <2>2. ~sawDone' => fed' = [i \in DOMAIN buffers' |-> buffers'[i].fragments]
      BY <1>1, <1>12, <1>14
    <2>3. sawDone' => \A i \in DOMAIN fed' : i \in DOMAIN buffers' /\ buffers'[i].flushed
      BY <1>1, <1>2, <1>4, <1>11, <1>14 DEF PhaseInv
    <2>4. \A j \in DOMAIN queue' : queue'[j].type # "none"
      BY <1>1, <1>2, <1>11, <1>17 DEF PhaseInv, Delivers
    <2>5. Live => ~cancelled
      BY <1>2 DEF PhaseInv
    <2> QED
      BY <1>1, <1>18, <2>1, <2>2, <2>3, <2>4, <2>5 DEF PhaseInv, Live
  <1>20. CompletedRoundsAreWhole'
    BY <1>1 DEF StreamInv, CompletedRoundsAreWhole
  <1> QED
    BY <1>13, <1>16, <1>19, <1>20 DEF StreamInv

\* The client takes an event: a call joins the others, the sentinel completes
\* the round, and whatever else ends it makes it no completed one.
LEMMA TakeStep == ASSUME StreamInv, TakeEvent PROVE StreamInv'
  <1> DEFINE taken == Head(queue)
             rest == Tail(queue)
             m == Len(queue)
  <1>1. /\ client = "collecting" /\ queue # <<>> /\ queue' = rest
        /\ UNCHANGED <<reader, lines, sawDone, buffers, nextIndex, fed>>
    BY DEF TakeEvent, assembler
  <1>2. /\ queue \in Seq(StreamEvents) /\ called \in Seq(CallEvents)
        /\ m \in Nat /\ m >= 1 /\ DOMAIN queue = 1..m /\ taken = queue[1] /\ taken \in StreamEvents
        /\ rest \in Seq(StreamEvents) /\ DOMAIN rest = 1..(m - 1) /\ Len(rest) = m - 1
        /\ \A j \in 1..(m - 1) : rest[j] = queue[j + 1] /\ j + 1 \in 1..m /\ j + 1 # 1
    <2>1. queue \in Seq(StreamEvents) /\ called \in Seq(CallEvents)
      BY DEF StreamInv, StreamTypeOK
    <2> QED
      BY <1>1, <2>1
  <1>3. PhaseInv /\ CallsInv /\ Live /\ ~cancelled
    BY <1>1 DEF StreamInv, PhaseInv, Live
  <1> HIDE DEF m, rest, taken
  \* What becomes of the round.
  <1>4. \/ /\ taken.type = "call" /\ called' = Append(called, taken)
           /\ UNCHANGED <<client, cancelled>>
        \/ UNCHANGED called /\ client' \in {"failed", "cancelled"}
        \/ /\ taken.type = "none" /\ UNCHANGED called /\ client' = "completed"
        \/ /\ taken.type \notin {"call", "error", "none"} /\ UNCHANGED <<client, cancelled, called>>
    BY DEF TakeEvent, TextArrives, Leave, taken
  <1>5. /\ \A i \in DOMAIN called : Settled(called[i])
        /\ \A j \in 1..m : IsCall(queue[j]) => Settled(queue[j])
        /\ \A i, j \in DOMAIN called : called[i].index = called[j].index => i = j
        /\ \A i, j \in 1..m :
             IsCall(queue[i]) /\ IsCall(queue[j]) /\ queue[i].index = queue[j].index => i = j
        /\ \A i \in DOMAIN called, j \in 1..m :
             IsCall(queue[j]) => called[i].index # queue[j].index
    BY <1>2, <1>3 DEF CallsInv
  <1>6. /\ \A j \in 1..(m - 1) : rest[j].type = "none" => j = m - 1 /\ reader = "ended"
        /\ taken.type = "none" => m = 1 /\ reader = "ended"
    <2>1. \A j \in 1..m : queue[j].type = "none" => j = m /\ reader = "ended"
      BY <1>2, <1>3 DEF PhaseInv, m
    <2>2. \A j \in 1..(m - 1) : j + 1 = m => j = m - 1
      BY <1>2
    <2>3. 1 \in 1..m
      BY <1>2
    <2> QED
      BY <1>2, <2>1, <2>2, <2>3
  <1>7. taken.type # "error" /\ (\E j \in 1..m : queue[j].type = "error")
          => \E j \in 1..(m - 1) : rest[j].type = "error"
    <2> SUFFICES ASSUME taken.type # "error", NEW j \in 1..m, queue[j].type = "error"
                 PROVE  \E i \in 1..(m - 1) : rest[i].type = "error"
      OBVIOUS
    <2>1. j # 1
      BY <1>2
    <2>2. j - 1 \in 1..(m - 1) /\ (j - 1) + 1 = j
      BY <1>2, <2>1
    <2>3. rest[j - 1] = queue[j]
      BY <1>2, <2>2
    <2> QED
      BY <2>2, <2>3
  <1>8. IsCall(taken) => taken \in CallEvents
    BY <1>2 DEF IsCall, StreamEvents, ErrorEvents, Text, Quiet, Sentinel
  <1>9. called' \in Seq(CallEvents)
    <2>1. \A e \in CallEvents : Append(called, e) \in Seq(CallEvents)
      BY <1>2
    <2> QED
      BY <1>2, <1>4, <1>8, <2>1 DEF IsCall
  <1>10. StreamTypeOK'
    BY <1>1, <1>2, <1>9 DEF StreamInv, StreamTypeOK
  <1>11. \A e : Settled(e) => Settled(e)'
    BY <1>1 DEF Settled
  <1>12. CASE UNCHANGED called /\ client' \in {"failed", "cancelled"}
    <2>1. CallsInv' /\ CompletedRoundsAreWhole'
      BY <1>12 DEF CallsInv, CompletedRoundsAreWhole, Live
    <2>2. PhaseInv'
      BY <1>1, <1>2, <1>3, <1>6, <1>12 DEF PhaseInv, Live
    <2> QED
      BY <1>10, <2>1, <2>2 DEF StreamInv
  <1>13. CASE /\ taken.type = "none" /\ UNCHANGED called /\ client' = "completed"
    <2>1. sawDone
      <3>1. ~\E j \in 1..m : queue[j].type = "error"
        BY <1>2, <1>6, <1>13
      <3> QED
        BY <1>2, <1>3, <1>6, <1>13, <3>1 DEF PhaseInv
    <2>2. CompletedRoundsAreWhole'
      BY <1>1, <1>5, <1>13, <2>1 DEF CompletedRoundsAreWhole, Settled
    <2>3. CallsInv'
      BY <1>13 DEF CallsInv, Live
    <2>4. PhaseInv'
      BY <1>1, <1>2, <1>3, <1>6, <1>13 DEF PhaseInv, Live
    <2> QED
      BY <1>10, <2>2, <2>3, <2>4 DEF StreamInv
  <1>14. ASSUME client' = client, cancelled' = cancelled, taken.type \notin {"error", "none"},
                ~sawDone /\ reader \notin {"finally", "ended"} => UNCHANGED called
         PROVE  PhaseInv' /\ CompletedRoundsAreWhole'
    <2>1. CompletedRoundsAreWhole'
      BY <1>1, <1>14 DEF CompletedRoundsAreWhole
    <2>2. PhaseInv'
      <3>1. /\ client' = "none" => reader' = "none"
            /\ ~sawDone' => fed' = [i \in DOMAIN buffers' |-> buffers'[i].fragments]
            /\ sawDone' => \A i \in DOMAIN fed' : i \in DOMAIN buffers' /\ buffers'[i].flushed
        BY <1>1, <1>3, <1>14 DEF PhaseInv
      <3>2. \A j \in DOMAIN queue' : queue'[j].type = "none" => j = Len(queue') /\ reader' = "ended"
        BY <1>1, <1>2, <1>6
      <3>3. reader' \in {"finally", "ended"} /\ ~sawDone' =>
              \E j \in DOMAIN queue' : queue'[j].type = "error"
        BY <1>1, <1>2, <1>3, <1>7, <1>14 DEF PhaseInv
      <3>4. reader' \notin {"finally", "ended"} /\ ~sawDone' =>
              called' = <<>> /\ \A j \in DOMAIN queue' : ~IsCall(queue'[j])
        BY <1>1, <1>2, <1>3, <1>14 DEF PhaseInv
      <3> QED
        BY <1>3, <1>14, <3>1, <3>2, <3>3, <3>4 DEF PhaseInv
    <2> QED
      BY <2>1, <2>2
  <1>15. CASE /\ taken.type \notin {"call", "error", "none"}
              /\ UNCHANGED <<client, cancelled, called>>
    <2>1. \A i \in DOMAIN called' : Settled(called[i])'
      BY <1>1, <1>5, <1>15 DEF Settled
    <2>2. \A j \in DOMAIN queue' : IsCall(queue'[j]) => Settled(queue[j])'
      BY <1>1, <1>2, <1>5 DEF Settled
    <2>3. \A i, j \in DOMAIN queue' :
            IsCall(queue'[i]) /\ IsCall(queue'[j]) /\ queue'[i].index = queue'[j].index => i = j
      <3> SUFFICES ASSUME NEW i \in 1..(m - 1), NEW j \in 1..(m - 1), IsCall(rest[i]),
                          IsCall(rest[j]), rest[i].index = rest[j].index
                   PROVE  i = j
        BY <1>1, <1>2
      <3>1. i + 1 = j + 1
        BY <1>2, <1>5
      <3> QED
        BY <3>1
    <2>4. CallsInv'
      BY <1>1, <1>2, <1>5, <1>15, <2>1, <2>2, <2>3 DEF CallsInv
    <2> QED
      BY <1>10, <1>14, <1>15, <2>4 DEF StreamInv
  <1>16. CASE /\ taken.type = "call" /\ called' = Append(called, taken)
              /\ UNCHANGED <<client, cancelled>>
    <2> DEFINE k == Len(called)
    <2>1. IsCall(taken) /\ IsCall(queue[1]) /\ 1 \in 1..m /\ taken = queue[1]
      BY <1>2, <1>16 DEF IsCall
    <2>2. /\ k \in Nat /\ DOMAIN called = 1..k /\ DOMAIN called' = 1..(k + 1)
          /\ called'[k + 1] = taken /\ \A i \in 1..k : called'[i] = called[i]
          /\ \A i \in 1..(k + 1) : i \in 1..k \/ i = k + 1
      BY <1>2, <1>8, <1>16, <2>1
    <2> HIDE DEF k
    <2>3. \A i \in DOMAIN called' : Settled(called[i])'
      BY <1>1, <1>5, <2>1, <2>2 DEF Settled
    <2>4. \A j \in DOMAIN queue' : IsCall(queue'[j]) => Settled(queue[j])'
      BY <1>1, <1>2, <1>5 DEF Settled
    <2>5. \A i, j \in DOMAIN queue' :
            IsCall(queue'[i]) /\ IsCall(queue'[j]) /\ queue'[i].index = queue'[j].index => i = j
      <3> SUFFICES ASSUME NEW i \in 1..(m - 1), NEW j \in 1..(m - 1), IsCall(rest[i]),
                          IsCall(rest[j]), rest[i].index = rest[j].index
                   PROVE  i = j
        BY <1>1, <1>2
      <3>1. i + 1 = j + 1
        BY <1>2, <1>5
      <3> QED
        BY <3>1
    <2>6. \A i, j \in DOMAIN called' : called'[i].index = called'[j].index => i = j
      BY <1>5, <2>1, <2>2
    <2>7. \A i \in DOMAIN called', j \in DOMAIN queue' :
            IsCall(queue'[j]) => called'[i].index # queue'[j].index
      <3> SUFFICES ASSUME NEW i \in 1..(k + 1), NEW j \in 1..(m - 1), IsCall(rest[j])
                   PROVE  called'[i].index # rest[j].index
        BY <1>1, <1>2, <2>2
      <3>1. rest[j] = queue[j + 1] /\ j + 1 \in 1..m /\ j + 1 # 1
        BY <1>2
      <3> QED
        BY <1>5, <2>1, <2>2, <3>1
    <2>8. CallsInv'
      BY <2>3, <2>4, <2>5, <2>6, <2>7 DEF CallsInv
    <2>9. ~sawDone => reader \in {"finally", "ended"}
      BY <1>2, <1>3, <2>1 DEF PhaseInv
    <2> QED
      BY <1>10, <1>14, <1>16, <2>8, <2>9 DEF StreamInv
  <1> QED
    BY <1>4, <1>12, <1>13, <1>15, <1>16

\* Every step of the reader and of the client keeps the invariant.
LEMMA StreamStep ==
  ASSUME StreamInv, [StreamNext]_streamVars
  PROVE  StreamInv'
  <1>1. CASE StartStream
    BY <1>1 DEF StartStream, assembler, StreamInv, StreamTypeOK, PhaseInv, CallsInv, Live, Settled,
       CompletedRoundsAreWhole
  <1>2. ASSUME NEW code \in {"timeout", "http_error", "disconnect"}
        PROVE  /\ Error(code) \in StreamEvents /\ ~IsCall(Error(code))
               /\ Error(code).type = "error"
    BY DEF StreamEvents, ErrorEvents, Error, IsCall
  <1>3. CASE RequestFails
    BY <1>2, <1>3, PostStep DEF RequestFails, assembler, consumer
  <1>4. CASE Responds
    BY <1>4 DEF Responds, assembler, consumer, StreamInv, StreamTypeOK, PhaseInv, CallsInv, Live,
       Settled, CompletedRoundsAreWhole
  <1>5. ASSUME NEW line \in ResponseLines, ReadLine(line) PROVE StreamInv'
    BY <1>5, ReadStep
  <1>6. CASE EndOfStream
    BY <1>6, EndStep
  <1>7. CASE ReadFails
    <2>1. PICK code \in {"timeout", "disconnect"} :
            queue' = IF cancelled /\ code = "disconnect" THEN queue ELSE Append(queue, Error(code))
      BY <1>7 DEF ReadFails
    <2> QED
      BY <1>2, <1>7, <2>1, PostStep DEF ReadFails, assembler, consumer
  <1>8. CASE ReaderEnds
    <2>1. Sentinel \in StreamEvents /\ ~IsCall(Sentinel)
      BY DEF StreamEvents, Sentinel, IsCall
    <2> QED
      BY <1>8, <2>1, PostStep DEF ReaderEnds, assembler, consumer
  <1>9. CASE Interrupted
    BY <1>9 DEF Interrupted, assembler, StreamInv, StreamTypeOK, PhaseInv, CallsInv, Live, Settled,
       CompletedRoundsAreWhole
  <1>10. CASE TakeEvent
    BY <1>10, TakeStep
  <1>11. CASE UNCHANGED streamVars
    BY <1>11 DEF streamVars, StreamInv, StreamTypeOK, PhaseInv, CallsInv, Live, Settled,
       CompletedRoundsAreWhole
  <1> QED
    BY <1>1, <1>3, <1>4, <1>5, <1>6, <1>7, <1>8, <1>9, <1>10, <1>11 DEF StreamNext, ReaderSteps

\* A round that is handed to the engine is whole, however many lines a server
\* sends and in whatever pieces its calls come (shadow_code/provider.py,
\* StreamAssembler and the reader thread).
THEOREM RoundsAreWhole == StreamSpec => []CompletedRoundsAreWhole
  <1>1. StreamInv => CompletedRoundsAreWhole
    BY DEF StreamInv
  <1> QED
    BY <1>1, StreamInitHolds, StreamStep, PTL DEF StreamSpec
=============================================================================
