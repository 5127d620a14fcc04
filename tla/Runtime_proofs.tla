----------------------------- MODULE Runtime_proofs -----------------------------
(***************************************************************************)
(* Proofs about Runtime, for any number of agents, messages, Stops, failed  *)
(* writes and restarts, and for both runners.  The invariant of the         *)
(* lifecycle is inherited: every step of Runtime is one of RunLifecycle, or *)
(* leaves it alone.                                                         *)
(***************************************************************************)
EXTENDS Runtime, RunLifecycle_proofs, FiniteSetTheorems

\* A run that the runner has had, and does not have any more.
Gone == {"completing", "failing", "closing", "closingFailed", "done", "rejected", "lost"}

\* What works in a workspace was launched for its agent; it is at work no more, or
\* abandoned, once its child has ended, and not yet while it is being launched.
WorkInv ==
  \A a \in Agents :
    /\ \A r \in work[a] : AgentOf[r] = a /\ pc[r] \in {"inRunner"} \cup Gone
    /\ child[a] = "launched" => process[a] \notin work[a]
    /\ child[a] = "exited" => process[a] \notin work[a] \ abandoned
    /\ work[a] \subseteq {process[a]} \cup abandoned
    /\ provider = "container" => \A r, q \in work[a] : r = q

\* What was told to end has been told for a reason that its verdict will give.
KillInv ==
  \A a \in Agents :
    kill[a] # "none" \/ rm[a] # "none" => a \in cancelled \/ stops[a] # {}

RInv == IInv /\ RTypeOK /\ WorkInv /\ KillInv

--------------------------------------------------------------------------------
(* Steps: those of the lifecycle, and those of the runner                      *)

\* Every step is one of RunLifecycle, or one the service does not see.
LEMMA StepMaps == ASSUME [RNext]_rvars PROVE [Next]_vars
  <1>1. ASSUME NEW r \in Runs, Send(r) \/ RRunStep(r) PROVE Next
    BY <1>1 DEF RRunStep, RLaunch, RProcessEnds, Next, RunStep
  <1>2. ASSUME NEW o \in Ops, RCancel(o) \/ ROpStep(o) PROVE Next
    BY <1>2 DEF RCancel, ROpStep, Next
  <1>3. ASSUME NEW a \in Agents, StartAgent(a) PROVE Next BY <1>3 DEF Next
  <1>4. ASSUME NEW a \in Agents, Enforced(a) \/ Free(a) PROVE UNCHANGED vars
    BY <1>4 DEF Enforced, Free
  <1>5. ASSUME RRestart PROVE Next BY <1>5 DEF RRestart, Next
  <1>6. ASSUME UNCHANGED rvars PROVE UNCHANGED vars BY <1>6 DEF rvars
  <1> QED BY <1>1, <1>2, <1>3, <1>4, <1>5, <1>6 DEF RNext

\* What moves the runner: a run taken or given back, a cancel, a restart, itself.
LEMMA RunnerFrame ==
  ASSUME [RNext]_rvars
  PROVE  \/ UNCHANGED <<own, process, cancelled>>
         \/ \E r \in Runs : RLaunch(r) \/ RProcessEnds(r)
         \/ \E o \in Ops : RCancel(o)
         \/ \E a \in Agents : Enforced(a) \/ Free(a)
         \/ RRestart
  <1>1. ASSUME NEW r \in Runs, Send(r), UNCHANGED own PROVE UNCHANGED <<own, process, cancelled>>
    BY <1>1 DEF Send, runner
  <1>2. ASSUME NEW r \in Runs, RRunStep(r), ~RLaunch(r), ~RProcessEnds(r)
        PROVE  UNCHANGED <<own, process, cancelled>>
    BY <1>2 DEF RRunStep, Mint, Refuse, Spawn, AskingFails, StartRun, StartRunFails, CheckCancelled,
       LaunchRefused, Complete, Fail, CloseToken, CompletionFails, FailureFails, runner
  <1>3. ASSUME NEW o \in Ops, ROpStep(o) PROVE UNCHANGED <<own, process, cancelled>>
    BY <1>3 DEF ROpStep, OpStep, AwaitExecution, Withdraw, FinishStop, FinishDelete, FinishFails,
       runner
  <1>4. ASSUME NEW a \in Agents, StartAgent(a), UNCHANGED own
        PROVE  UNCHANGED <<own, process, cancelled>>
    BY <1>4 DEF StartAgent, runner
  <1>5. ASSUME UNCHANGED rvars PROVE UNCHANGED <<own, process, cancelled>> BY <1>5 DEF rvars, vars
  <1> QED BY <1>1, <1>2, <1>3, <1>4, <1>5 DEF RNext

\* A run that was taken is not taken again.
LEMMA TakenOnce ==
  ASSUME IInv, [Next]_vars, NEW r \in Runs, pc[r] \in {"inRunner"} \cup Gone
  PROVE  pc'[r] \in {"inRunner"} \cup Gone
  <1> USE DEF Gone
  <1>0. pc \in [Runs -> PCs] BY DEF IInv, TypeOK
  <1>1. ASSUME NEW q \in Runs, Send(q) \/ Mint(q) \/ Refuse(q) \/ Spawn(q) \/ AskingFails(q)
        PROVE  pc'[r] = pc[r]
    BY <1>0, <1>1 DEF Send, Mint, Refuse, Spawn, AskingFails, Goto
  <1>2. ASSUME NEW q \in Runs,
               StartRun(q) \/ StartRunFails(q) \/ CheckCancelled(q) \/ Launch(q) \/ LaunchRefused(q)
        PROVE  pc'[r] = pc[r]
    BY <1>0, <1>2 DEF StartRun, StartRunFails, CheckCancelled, Launch, LaunchRefused, Goto, Settle,
       Throw
  <1>3. ASSUME NEW q \in Runs,
               \/ ProcessEnds(q) \/ Complete(q) \/ Fail(q) \/ CloseToken(q)
               \/ CompletionFails(q) \/ FailureFails(q)
        PROVE  pc'[r] = pc[r] \/ pc'[r] \in Gone
    BY <1>0, <1>3 DEF ProcessEnds, Complete, Fail, CloseToken, CompletionFails, FailureFails, Goto,
       Settle, Throw
  <1>4. ASSUME NEW o \in Ops, Cancel(o) \/ OpStep(o) PROVE pc' = pc
    BY <1>4 DEF Cancel, OpStep, AwaitExecution, Withdraw, FinishStop, FinishDelete, FinishFails
  <1>5. ASSUME NEW a \in Agents, StartAgent(a) \/ KillAgent(a) PROVE pc' = pc
    BY <1>5 DEF StartAgent, KillAgent
  <1>6. CASE Restart BY <1>0, <1>6 DEF Restart
  <1>7. CASE UNCHANGED vars BY <1>7 DEF vars
  <1> QED BY <1>1, <1>2, <1>3, <1>4, <1>5, <1>6, <1>7 DEF Next, RunStep

\* The agent of a run that is taken, or given back.
LEMMA TheAgent ==
  ASSUME IInv, NEW a \in Agents, process[a] # None
  PROVE  process[a] \in Runs /\ AgentOf[process[a]] = a /\ pc[process[a]] = "inRunner"
  BY DEF IInv, TypeOK, TablesInv

--------------------------------------------------------------------------------
(* Types *)

LEMMA RTypeStep ==
  ASSUME RInv, [RNext]_rvars
  PROVE  RTypeOK'
  <1> USE DEF RTypeOK
  <1>0. RTypeOK /\ TypeOK BY DEF RInv, IInv
  <1>1. CASE UNCHANGED <<own, process, cancelled>> BY <1>0, <1>1 DEF own, R!TypeOK
  <1>2. ASSUME NEW r \in Runs, RLaunch(r) PROVE RTypeOK'
    <2>1. R!Run(AgentOf[r], r) /\ AgentOf[r] \in Agents /\ r # None
      BY <1>2, ConstantsOK DEF RLaunch
    <2> QED BY <1>0, <2>1 DEF R!Run, R!TypeOK, TypeOK
  <1>3. ASSUME NEW r \in Runs, RProcessEnds(r) PROVE RTypeOK'
    <2>1. R!Close(AgentOf[r]) /\ AgentOf[r] \in Agents
      BY <1>3, ConstantsOK DEF RProcessEnds
    <2> QED BY <1>0, <2>1 DEF R!Close, R!Drop, R!TypeOK, TypeOK
  <1>4. ASSUME NEW o \in Ops, RCancel(o) PROVE RTypeOK'
    <2>1. R!Cancel(OpAgent[o]) /\ OpAgent[o] \in Agents BY <1>4, ConstantsOK DEF RCancel
    <2> QED BY <1>0, <2>1 DEF R!Cancel, R!Terminate, R!own, R!TypeOK
  <1>5. CASE RRestart BY <1>0, <1>5 DEF RRestart, R!ServerDies, R!TypeOK
  <1>6. ASSUME NEW a \in Agents, Enforced(a) PROVE RTypeOK'
    <2>1. CASE R!TimesOut(a) BY <1>0, <2>1 DEF R!TimesOut, R!Raise, R!Terminate, R!TypeOK
    <2>2. CASE R!ForceKills(a) BY <1>0, <2>2 DEF R!ForceKills, R!TypeOK
    <2>3. CASE R!DiesOfKill(a) BY <1>0, <2>3 DEF R!DiesOfKill, R!Exit, R!TypeOK
    <2>4. CASE R!Removes(a) BY <1>0, <2>4 DEF R!Removes, R!TypeOK
    <2>5. CASE R!RemoveFails(a) BY <1>0, <2>5 DEF R!RemoveFails, R!TypeOK
    <2>6. CASE R!LateRemoves(a) BY <1>0, <2>6 DEF R!LateRemoves, R!TypeOK
    <2>7. CASE R!SeesRemoval(a) BY <1>0, <2>7 DEF R!SeesRemoval, R!Exit, R!TypeOK
    <2> QED BY <1>6, <2>1, <2>2, <2>3, <2>4, <2>5, <2>6, <2>7 DEF Enforced, R!Enforced
  <1>7. ASSUME NEW a \in Agents, Free(a) PROVE RTypeOK'
    <2>1. CASE R!Overflows(a) BY <1>0, <2>1 DEF R!Overflows, R!Raise, R!Terminate, R!TypeOK
    <2>2. CASE R!SpawnFails(a) BY <1>0, <2>2 DEF R!SpawnFails, R!Exit, R!TypeOK
    <2>3. CASE R!Boot(a)
      <3>1. process[a] \in Runs BY <1>0, <2>3, TheAgent DEF R!Boot, RInv
      <3> QED BY <1>0, <2>3, <3>1 DEF R!Boot, R!TypeOK
    <2>4. CASE R!NameTaken(a) BY <1>0, <2>4 DEF R!NameTaken, R!Exit, R!TypeOK
    <2>5. CASE R!Exits(a)
      <3>1. PICK how \in {"answer", "silent", "broken"} : R!Exit(a, how) BY <2>5 DEF R!Exits
      <3> QED BY <1>0, <2>5, <3>1 DEF R!Exits, R!Exit, R!TypeOK
    <2>6. CASE R!AbandonedEnds(a) BY <1>0, <2>6 DEF R!AbandonedEnds, R!TypeOK
    <2> QED BY <1>7, <2>1, <2>2, <2>3, <2>4, <2>5, <2>6 DEF Free, R!Free
  <1> QED BY <1>1, <1>2, <1>3, <1>4, <1>5, <1>6, <1>7, RunnerFrame

--------------------------------------------------------------------------------
(* What is at work, and what was told to end                                   *)

\* A step that leaves the tables and the workspaces as they are leaves their relation.
LEMMA WorkStays ==
  ASSUME RInv, [Next]_vars, UNCHANGED <<provider, process, work, abandoned>>,
         \A a \in Agents :
           child'[a] = child[a] \/ (child'[a] = "exited" /\ process[a] \notin work[a] \ abandoned)
  PROVE  WorkInv'
  <1>1. ASSUME NEW a \in Agents, NEW r \in work[a] PROVE pc'[r] \in {"inRunner"} \cup Gone
    <2>1. r \in Runs /\ pc[r] \in {"inRunner"} \cup Gone
      BY <1>1 DEF RInv, RTypeOK, R!TypeOK, WorkInv
    <2> QED BY <2>1, TakenOnce DEF RInv
  <1> QED BY <1>1 DEF RInv, WorkInv

LEMMA WorkStep == ASSUME RInv, [RNext]_rvars PROVE WorkInv'
  <1>0. RTypeOK /\ TypeOK /\ WorkInv /\ [Next]_vars BY StepMaps DEF RInv, IInv
  <1>a. /\ work \in [Agents -> SUBSET Runs]
        /\ child \in [Agents -> {"none", "launched", "running", "exited"}]
        /\ process \in [Agents -> Runs \cup {None}]
        /\ \A a \in Agents : child[a] # "none" <=> process[a] # None
    BY <1>0 DEF RTypeOK, R!TypeOK, TypeOK
  <1>b. \A b \in Agents : \A r \in work[b] : pc'[r] \in {"inRunner"} \cup Gone
    BY <1>0, <1>a, TakenOnce DEF WorkInv, RInv
  <1>1. CASE UNCHANGED <<own, process, cancelled>> BY <1>0, <1>1, WorkStays DEF own
  <1>2. ASSUME NEW r \in Runs, RLaunch(r) PROVE WorkInv'
    <2> DEFINE a == AgentOf[r]
    <2>1. /\ a \in Agents /\ pc[r] = "launching" /\ process[a] = None
          /\ process' = [process EXCEPT ![a] = r] /\ child' = [child EXCEPT ![a] = "launched"]
          /\ UNCHANGED <<provider, work, abandoned>>
      BY <1>2, ConstantsOK DEF RLaunch, Launch, R!Run
    <2>2. r \notin work[a] BY <1>0, <2>1 DEF WorkInv, Gone
    <2>3. None \notin work[a] BY <1>a, <2>1, ConstantsOK
    <2> HIDE DEF a
    <2> QED BY <1>0, <1>a, <1>b, <2>1, <2>2, <2>3 DEF WorkInv
  <1>3. ASSUME NEW r \in Runs, RProcessEnds(r) PROVE WorkInv'
    <2> DEFINE a == AgentOf[r]
    <2>1. /\ a \in Agents /\ process[a] = r /\ child[a] = "exited"
          /\ process' = [process EXCEPT ![a] = None] /\ child' = [child EXCEPT ![a] = "none"]
          /\ UNCHANGED <<provider, work, abandoned>>
      BY <1>3, ConstantsOK DEF RProcessEnds, R!Close, R!Drop
    <2> HIDE DEF a
    <2>2. work[a] \subseteq abandoned BY <1>0, <2>1 DEF WorkInv
    <2> QED BY <1>0, <1>a, <1>b, <2>1, <2>2 DEF WorkInv
  <1>4. ASSUME NEW o \in Ops, RCancel(o) PROVE WorkInv'
    BY <1>0, <1>4, WorkStays DEF RCancel, Cancel, R!Cancel, R!own
  <1>5. CASE RRestart
    <2>1. /\ process' = [b \in Agents |-> None] /\ child' = [b \in Agents |-> "none"]
          /\ abandoned' = abandoned \cup UNION {work[b] : b \in Agents}
          /\ UNCHANGED <<provider, work>>
      BY <1>5 DEF RRestart, R!ServerDies
    <2> QED BY <1>0, <1>b, <2>1 DEF WorkInv
  <1>6. ASSUME NEW a \in Agents, Enforced(a) PROVE WorkInv'
    <2>0. UNCHANGED pc BY <1>6 DEF Enforced, vars
    <2>1. CASE R!TimesOut(a) BY <1>0, <2>1, WorkStays DEF R!TimesOut, R!Raise
    <2>2. CASE R!ForceKills(a) BY <1>0, <2>2, WorkStays DEF R!ForceKills
    <2>3. CASE R!DiesOfKill(a)
      <3>1. /\ child[a] # "none" /\ child' = [child EXCEPT ![a] = "exited"]
            /\ UNCHANGED <<provider, process>>
        BY <2>3 DEF R!DiesOfKill, R!Exit
      <3>2. CASE provider = "container"
        <4>1. work' = work /\ abandoned' = abandoned \cup (work[a] \cap {process[a]})
          BY <2>3, <3>2 DEF R!DiesOfKill
        <4> QED BY <1>0, <1>a, <1>b, <3>1, <4>1 DEF WorkInv
      <3>3. CASE provider # "container"
        <4>1. work' = [work EXCEPT ![a] = @ \ {process[a]}] /\ abandoned' = abandoned
          BY <2>3, <3>3 DEF R!DiesOfKill
        <4> QED BY <1>0, <1>a, <1>b, <3>1, <3>3, <4>1 DEF WorkInv
      <3> QED BY <3>2, <3>3
    <2>4. CASE R!Removes(a)
      <3>1. /\ work' = [work EXCEPT ![a] = {}] /\ abandoned' = abandoned \ work[a]
            /\ UNCHANGED <<provider, process, child>>
        BY <2>4 DEF R!Removes
      <3>2. ASSUME NEW b \in Agents, b # a PROVE work[b] \cap work[a] = {}
        BY <1>0, <3>2 DEF WorkInv
      <3> QED BY <1>0, <1>a, <1>b, <3>1, <3>2 DEF WorkInv
    <2>5. CASE R!RemoveFails(a) BY <1>0, <2>5, WorkStays DEF R!RemoveFails
    <2>6. CASE R!LateRemoves(a)
      <3>1. /\ work' = work \/ work' = [work EXCEPT ![a] = {}]
            /\ abandoned' = abandoned \cap UNION {work'[b] : b \in Agents}
            /\ UNCHANGED <<provider, process, child>>
        BY <2>6 DEF R!LateRemoves
      <3>2. \A b \in Agents : work'[b] = work[b] \/ work'[b] = {} BY <1>a, <3>1
      <3>3. \A b \in Agents : work'[b] \cap abandoned \subseteq abandoned' BY <3>1
      <3> QED BY <1>0, <1>a, <1>b, <3>1, <3>2, <3>3 DEF WorkInv
    <2>7. CASE R!SeesRemoval(a)
      <3>1. /\ process[a] \notin work[a] /\ child' = [child EXCEPT ![a] = "exited"]
            /\ UNCHANGED <<provider, process, work, abandoned>>
        BY <2>7 DEF R!SeesRemoval, R!Exit
      <3> QED BY <1>0, <1>a, <3>1, WorkStays
    <2> QED BY <1>6, <2>1, <2>2, <2>3, <2>4, <2>5, <2>6, <2>7 DEF Enforced, R!Enforced
  <1>7. ASSUME NEW a \in Agents, Free(a) PROVE WorkInv'
    <2>0. UNCHANGED pc BY <1>7 DEF Free, vars
    <2>1. CASE R!Overflows(a) BY <1>0, <2>1, WorkStays DEF R!Overflows, R!Raise
    <2>2. CASE R!SpawnFails(a) \/ R!NameTaken(a)
      <3>1. /\ child[a] = "launched" /\ child' = [child EXCEPT ![a] = "exited"]
            /\ UNCHANGED <<provider, process, work, abandoned>>
        BY <2>2 DEF R!SpawnFails, R!NameTaken, R!Exit
      <3>2. process[a] \notin work[a] BY <1>0, <3>1 DEF WorkInv
      <3> QED BY <1>0, <1>a, <3>1, <3>2, WorkStays
    <2>3. CASE R!Boot(a)
      <3>1. /\ child[a] = "launched" /\ child' = [child EXCEPT ![a] = "running"]
            /\ provider = "container" => work[a] = {}
            /\ work' = [work EXCEPT ![a] = @ \cup {process[a]}]
            /\ UNCHANGED <<provider, process, abandoned>>
        BY <2>3 DEF R!Boot
      <3>2. AgentOf[process[a]] = a /\ pc[process[a]] = "inRunner"
        BY <1>a, <3>1, TheAgent DEF RInv
      <3> QED BY <1>0, <1>a, <1>b, <2>0, <3>1, <3>2 DEF WorkInv
    <2>4. CASE R!Exits(a)
      <3>1. /\ child[a] # "none" /\ child' = [child EXCEPT ![a] = "exited"]
            /\ work' = [work EXCEPT ![a] = @ \ {process[a]}]
            /\ UNCHANGED <<provider, process, abandoned>>
        BY <2>4 DEF R!Exits, R!Exit
      <3> QED BY <1>0, <1>a, <1>b, <3>1 DEF WorkInv
    <2>5. CASE R!AbandonedEnds(a)
      <3>1. PICK r \in work[a] : /\ work' = [work EXCEPT ![a] = @ \ {r}]
                                /\ abandoned' = abandoned \ {r}
                                /\ UNCHANGED <<provider, process, child>>
        BY <2>5 DEF R!AbandonedEnds
      <3>2. \A b \in Agents : b # a => r \notin work[b] BY <1>0, <3>1 DEF WorkInv
      <3> QED BY <1>0, <1>a, <1>b, <3>1, <3>2 DEF WorkInv
    <2> QED BY <1>7, <2>1, <2>2, <2>3, <2>4, <2>5 DEF Free, R!Free
  <1> QED BY <1>1, <1>2, <1>3, <1>4, <1>5, <1>6, <1>7, RunnerFrame

LEMMA KillInvStep == ASSUME RInv, [RNext]_rvars PROVE KillInv'
  <1>0. RTypeOK /\ TypeOK /\ KillInv BY DEF RInv, IInv
  <1>a. /\ stops \in [Agents -> SUBSET {"timedOut", "outputExceeded"}]
        /\ kill \in [Agents -> {"none", "armed", "fired"}]
        /\ rm \in [Agents -> {"none", "asked", "removed", "failed"}]
    BY <1>0 DEF RTypeOK, R!TypeOK
  <1>1. CASE UNCHANGED <<stops, kill, rm, cancelled>> BY <1>0, <1>1 DEF KillInv
  <1>2. ASSUME NEW a \in Agents, NEW flag, R!Raise(a, flag) PROVE KillInv'
    BY <1>0, <1>a, <1>2 DEF R!Raise, R!Terminate, KillInv
  <1>3. ASSUME NEW r \in Runs, RLaunch(r) PROVE UNCHANGED <<stops, kill, rm, cancelled>>
    BY <1>3 DEF RLaunch, R!Run
  <1>4. ASSUME NEW r \in Runs, RProcessEnds(r) PROVE KillInv'
    <2>1. R!Drop(AgentOf[r]) BY <1>4 DEF RProcessEnds, R!Close
    <2> QED BY <1>0, <1>a, <2>1 DEF R!Drop, KillInv
  <1>5. ASSUME NEW o \in Ops, RCancel(o) PROVE KillInv'
    <2>1. R!Cancel(OpAgent[o]) BY <1>5 DEF RCancel
    <2> QED BY <1>0, <1>a, <2>1 DEF R!Cancel, R!Terminate, R!own, KillInv
  <1>6. CASE RRestart BY <1>6 DEF RRestart, R!ServerDies, KillInv
  <1>7. ASSUME NEW a \in Agents, R!ForceKills(a) \/ R!Removes(a) \/ R!RemoveFails(a) PROVE KillInv'
    <2>1. CASE R!ForceKills(a) BY <1>0, <1>a, <2>1 DEF R!ForceKills, KillInv
    <2>2. CASE R!Removes(a) BY <1>0, <1>a, <2>2 DEF R!Removes, KillInv
    <2>3. CASE R!RemoveFails(a) BY <1>0, <1>a, <2>3 DEF R!RemoveFails, KillInv
    <2> QED BY <1>7, <2>1, <2>2, <2>3
  <1>8. ASSUME NEW a \in Agents, R!DiesOfKill(a) \/ R!LateRemoves(a) \/ R!SeesRemoval(a)
        PROVE  UNCHANGED <<stops, kill, rm, cancelled>>
    BY <1>8 DEF R!DiesOfKill, R!LateRemoves, R!SeesRemoval, R!Exit
  <1>9. ASSUME NEW a \in Agents, Free(a), ~R!Overflows(a)
        PROVE  UNCHANGED <<stops, kill, rm, cancelled>>
    BY <1>9 DEF Free, R!Free, R!SpawnFails, R!Boot, R!NameTaken, R!Exits, R!AbandonedEnds, R!Exit
  <1>10. ASSUME NEW a \in Agents, R!TimesOut(a) \/ R!Overflows(a) PROVE KillInv'
    BY <1>2, <1>10 DEF R!TimesOut, R!Overflows
  <1> QED BY <1>1, <1>3, <1>4, <1>5, <1>6, <1>7, <1>8, <1>9, <1>10, RunnerFrame
      DEF own, Enforced, R!Enforced

--------------------------------------------------------------------------------
(* The invariant, and the properties                                           *)

LEMMA RInitHolds == RInit => RInv
  <1> SUFFICES ASSUME RInit PROVE RInv OBVIOUS
  <1>1. IInv BY InitIInv DEF RInit
  <1>2. RTypeOK BY DEF RInit, R!Init, RTypeOK, R!TypeOK
  <1>3. WorkInv /\ KillInv BY DEF RInit, R!Init, WorkInv, KillInv
  <1> QED BY <1>1, <1>2, <1>3 DEF RInv

\* executeRun with the runners of codex-runner.ts and container-codex-runner.ts is executeRun with
\* a process that ends as it likes: Runtime implements the safety part of RunLifecycle.
THEOREM RuntimeIsALifecycle == RSpec => Init /\ [][Next]_vars
  <1>1. RInit => Init BY DEF RInit
  <1>2. [RNext]_rvars => [Next]_vars BY StepMaps
  <1> QED BY <1>1, <1>2, PTL DEF RSpec

\* Rows, tables, processes, kills and containers agree at every step.
THEOREM RInvariantHolds == RSpec => []RInv
  <1>1. RInit => RInv BY RInitHolds
  <1>2. RInv /\ [RNext]_rvars => RInv'
    <2>1. RInv /\ [RNext]_rvars => IInv' BY StepMaps, Step DEF RInv
    <2> QED BY <2>1, RTypeStep, WorkStep, KillInvStep DEF RInv
  <1> QED BY <1>1, <1>2, PTL DEF RSpec

\* The variables of the runners keep their types, and an agent has a child process exactly
\* while the runner's table has its entry.
THEOREM RTypeCorrect == RSpec => []RTypeOK
  <1>1. RInv => RTypeOK BY DEF RInv
  <1> QED BY <1>1, RInvariantHolds, PTL

LEMMA AtMostOne ==
  ASSUME NEW S, \A x, y \in S : x = y
  PROVE  Cardinality(S) <= 1
  <1>1. CASE S = {} BY <1>1, FS_EmptySet
  <1>2. ASSUME NEW x \in S PROVE Cardinality(S) = 1
    <2>1. S = {x} BY <1>2
    <2> QED BY <2>1, FS_Singleton
  <1> QED BY <1>1, <1>2

\* What works in a workspace is the run the runner has for its agent, or was abandoned; of
\* containers, which carry their agent's name, there is one at a time.
THEOREM WorkIsOfItsRun == RSpec => []WorkHasRun
  <1>1. RInv => WorkHasRun BY AtMostOne DEF RInv, WorkInv, WorkHasRun
  <1> QED BY <1>1, RInvariantHolds, PTL

\* When stopAgent and deleteAgent go on after their wait, the run they waited for works no
\* more, unless its container was left behind.
THEOREM StopEndsWork == RSpec => []StopSeesWorkGone
  <1>1. RInv => StopSeesWorkGone
    <2> SUFFICES ASSUME RInv, NEW o \in Ops, opPc[o] = "finishing", opWait[o] # None
                 PROVE  opWait[o] \notin work[OpAgent[o]] \ abandoned
      BY DEF StopSeesWorkGone
    <2> DEFINE a == OpAgent[o]
    <2>1. a \in Agents BY ConstantsOK
    <2>2. pc[opWait[o]] = "done" BY DEF RInv, IInv, WaitInv
    <2>3. opWait[o] # process[a] BY <2>1, <2>2, TheAgent DEF RInv
    <2>4. work[a] \subseteq {process[a]} \cup abandoned BY <2>1 DEF RInv, WorkInv
    <2> QED BY <2>3, <2>4
  <1> QED BY <1>1, RInvariantHolds, PTL

\* A run leaves the runner for completion when its process ends, and then only.
LEMMA OnlyEnds ==
  ASSUME IInv, [RNext]_rvars, NEW r \in Runs, pc[r] = "inRunner", pc'[r] = "completing"
  PROVE  RProcessEnds(r)
  <1>0. pc \in [Runs -> PCs] BY DEF IInv, TypeOK
  <1>1. ASSUME NEW q \in Runs, Send(q) \/ (RRunStep(q) /\ ~RProcessEnds(q)) PROVE pc'[r] = pc[r]
    <2>1. CASE Send(q) \/ Mint(q) \/ Refuse(q) \/ Spawn(q) \/ AskingFails(q)
      BY <1>0, <2>1 DEF Send, Mint, Refuse, Spawn, AskingFails, Goto
    <2>2. CASE \/ StartRun(q) \/ StartRunFails(q) \/ CheckCancelled(q)
               \/ Launch(q) \/ LaunchRefused(q)
      BY <1>0, <2>2 DEF StartRun, StartRunFails, CheckCancelled, Launch, LaunchRefused, Goto,
         Settle, Throw
    <2>3. CASE Complete(q) \/ Fail(q) \/ CloseToken(q) \/ CompletionFails(q) \/ FailureFails(q)
      BY <1>0, <2>3 DEF Complete, Fail, CloseToken, CompletionFails, FailureFails, Goto,
         Settle, Throw
    <2> QED BY <1>1, <2>1, <2>2, <2>3 DEF RRunStep, RLaunch
  <1>2. ASSUME NEW q \in Runs, RProcessEnds(q), q # r PROVE pc'[r] = pc[r]
    BY <1>0, <1>2 DEF RProcessEnds, ProcessEnds, Goto, Throw
  <1>3. ASSUME NEW o \in Ops, RCancel(o) \/ ROpStep(o) PROVE pc' = pc
    BY <1>3 DEF RCancel, ROpStep, Cancel, OpStep, AwaitExecution, Withdraw, FinishStop,
       FinishDelete, FinishFails
  <1>4. ASSUME NEW a \in Agents, StartAgent(a) \/ Enforced(a) \/ Free(a) PROVE pc' = pc
    BY <1>4 DEF StartAgent, Enforced, Free, vars
  <1>5. CASE RRestart BY <1>0, <1>5 DEF RRestart, Restart
  <1>6. CASE UNCHANGED rvars BY <1>6 DEF rvars, vars
  <1> QED BY <1>1, <1>2, <1>3, <1>4, <1>5, <1>6 DEF RNext

\* An answer is taken (run in codex-runner.ts) only from a process that nobody told to end.
THEOREM AnswerIsFree == RSpec => AnswerWasNotForced
  <1>1. ASSUME RInv, [RNext]_rvars, NEW r \in Runs, pc[r] = "inRunner", pc'[r] = "completing"
        PROVE  kill[AgentOf[r]] = "none" /\ rm[AgentOf[r]] = "none"
    <2> DEFINE a == AgentOf[r]
    <2>0. pc \in [Runs -> PCs] /\ a \in Agents BY <1>1, ConstantsOK DEF RInv, IInv, TypeOK
    <2>1. RProcessEnds(r) BY <1>1, OnlyEnds DEF RInv
    <2>2. R!Verdict(a) = "completed" BY <1>1, <2>1 DEF RProcessEnds
    <2>3. a \notin cancelled /\ stops[a] = {} BY <2>2 DEF R!Verdict
    <2> QED BY <1>1, <2>0, <2>3 DEF RInv, KillInv
  <1>2. RInv /\ [RNext]_rvars =>
          [\A r \in Runs : pc[r] = "inRunner" /\ pc'[r] = "completing" =>
             kill[AgentOf[r]] = "none" /\ rm[AgentOf[r]] = "none"]_rvars
    BY <1>1
  <1> QED BY <1>2, RInvariantHolds, PTL DEF RSpec, AnswerWasNotForced
================================================================================
