-------------------------- MODULE RunLifecycle_proofs --------------------------
(***************************************************************************)
(* Proofs about RunLifecycle for any number of agents, messages, Stops,     *)
(* Deletes, failed writes and restarts.  The liveness properties and the    *)
(* two properties the code does not have are left to TLC.                   *)
(***************************************************************************)
EXTENDS RunLifecycle, TLAPS

\* Until its end is recorded, a run holds its agent's busy flag.
Holding == {"asking"} \cup Executing

\* What the rows of a call are at each point of its way.
RowsInv ==
  \A r \in Runs :
    /\ pc[r] \in {"idle", "estimating", "refused"} =>
         runStatus[r] = "none" /\ token[r] = "none"
    /\ pc[r] \in {"asking", "starting"} => runStatus[r] \in {"none", "queued"}
    /\ pc[r] \in {"checking", "launching", "inRunner", "completing"} =>
         runStatus[r] \in {"none", "running"}
    /\ pc[r] = "closing" => runStatus[r] \in {"none", "completed"}
    /\ pc[r] = "failing" =>
         \/ runStatus[r] \in {"none", "running"}
         \/ runStatus[r] = "completed" /\ ending[r] = "failed" /\ faults > 0
    /\ pc[r] \in {"closingFailed", "done"} => runStatus[r] \in {"none"} \cup Terminal
    /\ pc[r] = "done" => token[r] # "live"
    /\ pc[r] = "rejected" => faults > 0
    /\ pc[r] = "lost" => runStatus[r] \notin Going

\* A deleted agent has no run rows, and only a deleted one lacks the row of a run
\* on its way.
DeletedInv ==
  \A r \in Runs :
    /\ status[AgentOf[r]] = "deleted" => runStatus[r] = "none"
    /\ pc[r] \in InFlight /\ runStatus[r] = "none" => status[AgentOf[r]] = "deleted"

\* A run in flight of a stopped agent has outlived the Stop.
StoppedInv ==
  \A r \in Runs : status[AgentOf[r]] = "stopped" /\ pc[r] \in InFlight => r \in outlived

\* The tables of the service and of the runner name runs of their agent that are
\* where the table says.
TablesInv ==
  \A a \in Agents :
    /\ active[a] # None => AgentOf[active[a]] = a /\ pc[active[a]] \in InFlight \ {"asking"}
    /\ process[a] # None => AgentOf[process[a]] = a /\ pc[process[a]] = "inRunner"

\* An operation past its wait has seen the run done.
WaitInv ==
  \A o \in Ops : opPc[o] = "finishing" /\ opWait[o] # None => pc[opWait[o]] = "done"

\* Without a failed write or a run that outlived a Stop, the busy flag is held by
\* one run, and that run is the registered one once it executes.
Clean(a) == faults = 0 /\ outlived \cap RunsOf(a) = {}

HolderInv ==
  \A r \in Runs : Clean(AgentOf[r]) /\ pc[r] \in Holding =>
    /\ status[AgentOf[r]] \in {"busy", "deleted"}
    /\ \A q \in RunsOf(AgentOf[r]) : pc[q] \in Holding => q = r
    /\ pc[r] \in Executing => active[AgentOf[r]] = r

IInv ==
  /\ TypeOK /\ RowsInv /\ DeletedInv /\ StoppedInv
  /\ TablesInv /\ WaitInv /\ HolderInv /\ BusyHasRun /\ LiveTokenHasRun

--------------------------------------------------------------------------------
(* The initial states *)

LEMMA InitIInv == Init => IInv
    BY ConstantsOK DEF Init, IInv, TypeOK, RowsInv, DeletedInv, StoppedInv, TablesInv,
       WaitInv,
     HolderInv, BusyHasRun, LiveTokenHasRun, InFlight, Executing, Holding, PCs, OpPCs, Going,
     Terminal, RunsOf, Clean

--------------------------------------------------------------------------------
(* Each part of the invariant is preserved; one step per action. *)

\* Types.
LEMMA TypeStep ==
  ASSUME TypeOK, [Next]_vars
  PROVE  TypeOK'
<1> USE ConstantsOK DEF TypeOK, PCs, OpPCs, InFlight, Executing, Going, Terminal, RunsOf
<1>1. ASSUME NEW r \in Runs, Send(r) PROVE TypeOK'
  BY <1>1 DEF Send, Goto, database, runner, ops, bounds
<1>2. ASSUME NEW r \in Runs, Mint(r) PROVE TypeOK'
  BY <1>2 DEF Mint, Goto, database, runner, ops, bounds
<1>3. ASSUME NEW r \in Runs, Refuse(r) PROVE TypeOK'
  BY <1>3 DEF Refuse, Goto, database, runner, ops, bounds
<1>4. ASSUME NEW r \in Runs, Spawn(r) PROVE TypeOK'
  BY <1>4 DEF Spawn, Goto, database, runner, ops, bounds
<1>5. ASSUME NEW r \in Runs, AskingFails(r) PROVE TypeOK'
  BY <1>5 DEF AskingFails, Goto, Fault, database, runner, ops, bounds
<1>6. ASSUME NEW r \in Runs, StartRun(r) PROVE TypeOK'
  BY <1>6 DEF StartRun, Goto, database, runner, ops, bounds
<1>7. ASSUME NEW r \in Runs, StartRunFails(r) PROVE TypeOK'
  BY <1>7 DEF StartRunFails, Settle, Goto, Fault, database, runner, ops, bounds
<1>8. ASSUME NEW r \in Runs, CheckCancelled(r) PROVE TypeOK'
  BY <1>8 DEF CheckCancelled, Throw, Goto, database, runner, ops, bounds
<1>9. ASSUME NEW r \in Runs, Launch(r) PROVE TypeOK'
  BY <1>9 DEF Launch, Goto, database, runner, ops, bounds
<1>10. ASSUME NEW r \in Runs, LaunchRefused(r) PROVE TypeOK'
  BY <1>10 DEF LaunchRefused, Throw, Goto, database, runner, ops, bounds
<1>11. ASSUME NEW r \in Runs, ProcessEnds(r) PROVE TypeOK'
  BY <1>11 DEF ProcessEnds, Throw, Goto, database, runner, ops, bounds
<1>12. ASSUME NEW r \in Runs, Complete(r) PROVE TypeOK'
  BY <1>12 DEF Complete, Goto, database, runner, ops, bounds
<1>13. ASSUME NEW r \in Runs, Fail(r) PROVE TypeOK'
  BY <1>13 DEF Fail, Goto, database, runner, ops, bounds
<1>14. ASSUME NEW r \in Runs, CloseToken(r) PROVE TypeOK'
  BY <1>14 DEF CloseToken, Settle, Goto, database, runner, ops, bounds
<1>15. ASSUME NEW r \in Runs, CompletionFails(r) PROVE TypeOK'
  BY <1>15 DEF CompletionFails, Throw, Goto, Fault, database, runner, ops, bounds
<1>16. ASSUME NEW r \in Runs, FailureFails(r) PROVE TypeOK'
  BY <1>16 DEF FailureFails, Settle, Goto, Fault, database, runner, ops, bounds
<1>17. ASSUME NEW o \in Ops, Cancel(o) PROVE TypeOK'
  BY <1>17 DEF Cancel, database, runner, ops, bounds
<1>18. ASSUME NEW o \in Ops, AwaitExecution(o) PROVE TypeOK'
  BY <1>18 DEF AwaitExecution, database, runner, ops, bounds
<1>19. ASSUME NEW o \in Ops, Withdraw(o) PROVE TypeOK'
  BY <1>19 DEF Withdraw, database, runner, ops, bounds
<1>20. ASSUME NEW o \in Ops, FinishStop(o) PROVE TypeOK'
  BY <1>20 DEF FinishStop, database, runner, ops, bounds
<1>21. ASSUME NEW o \in Ops, FinishDelete(o) PROVE TypeOK'
  BY <1>21 DEF FinishDelete, database, runner, ops, bounds
<1>22. ASSUME NEW o \in Ops, FinishFails(o) PROVE TypeOK'
  BY <1>22 DEF FinishFails, Fault, database, runner, ops, bounds
<1>23. ASSUME NEW a \in Agents, StartAgent(a) PROVE TypeOK'
  BY <1>23 DEF StartAgent, database, runner, ops, bounds
<1>24. ASSUME NEW a \in Agents, KillAgent(a) PROVE TypeOK'
  BY <1>24 DEF KillAgent, database, runner, ops, bounds
<1>25. ASSUME Restart PROVE TypeOK'
  BY <1>25 DEF Restart
<1>26. ASSUME UNCHANGED vars PROVE TypeOK'
  BY <1>26 DEF vars
<1>27. QED
    BY <1>1, <1>2, <1>3, <1>4, <1>5, <1>6, <1>7, <1>8, <1>9, <1>10, <1>11, <1>12, <1>13,
       <1>14, <1>15, <1>16, <1>17, <1>18, <1>19, <1>20, <1>21, <1>22, <1>23, <1>24, <1>25, <1>26
       DEF Next, RunStep, OpStep

\* Rows of a call.
LEMMA RowsStep ==
  ASSUME TypeOK, RowsInv, DeletedInv, [Next]_vars
  PROVE  RowsInv'
<1> USE ConstantsOK DEF TypeOK, RowsInv, DeletedInv, InFlight, Executing, Going, Terminal
<1>1. ASSUME NEW r \in Runs, Send(r) PROVE RowsInv'
  BY <1>1 DEF Send, Goto, database, runner, ops, bounds
<1>2. ASSUME NEW r \in Runs, Mint(r) PROVE RowsInv'
  BY <1>2 DEF Mint, Goto, database, runner, ops, bounds
<1>3. ASSUME NEW r \in Runs, Refuse(r) PROVE RowsInv'
  BY <1>3 DEF Refuse, Goto, database, runner, ops, bounds
<1>4. ASSUME NEW r \in Runs, Spawn(r) PROVE RowsInv'
  BY <1>4 DEF Spawn, Goto, database, runner, ops, bounds
<1>5. ASSUME NEW r \in Runs, AskingFails(r) PROVE RowsInv'
  BY <1>5 DEF AskingFails, Goto, Fault, database, runner, ops, bounds
<1>6. ASSUME NEW r \in Runs, StartRun(r) PROVE RowsInv'
  BY <1>6 DEF StartRun, Goto, database, runner, ops, bounds
<1>7. ASSUME NEW r \in Runs, StartRunFails(r) PROVE RowsInv'
  BY <1>7 DEF StartRunFails, Settle, Goto, Fault, database, runner, ops, bounds
<1>8. ASSUME NEW r \in Runs, CheckCancelled(r) PROVE RowsInv'
  BY <1>8 DEF CheckCancelled, Throw, Goto, database, runner, ops, bounds
<1>9. ASSUME NEW r \in Runs, Launch(r) PROVE RowsInv'
  BY <1>9 DEF Launch, Goto, database, runner, ops, bounds
<1>10. ASSUME NEW r \in Runs, LaunchRefused(r) PROVE RowsInv'
  BY <1>10 DEF LaunchRefused, Throw, Goto, database, runner, ops, bounds
<1>11. ASSUME NEW r \in Runs, ProcessEnds(r) PROVE RowsInv'
  <2>1. /\ pc[r] = "inRunner" /\ pc'[r] \in {"failing", "completing"}
        /\ \A q \in Runs : q # r => pc'[q] = pc[q] /\ ending'[q] = ending[q]
        /\ UNCHANGED <<runStatus, token, faults>>
    BY <1>11 DEF ProcessEnds, Throw, Goto, database, bounds
  <2>2. QED BY <2>1
<1>12. ASSUME NEW r \in Runs, Complete(r) PROVE RowsInv'
  BY <1>12 DEF Complete, Goto, database, runner, ops, bounds
<1>13. ASSUME NEW r \in Runs, Fail(r) PROVE RowsInv'
  BY <1>13 DEF Fail, Goto, database, runner, ops, bounds
<1>14. ASSUME NEW r \in Runs, CloseToken(r) PROVE RowsInv'
  BY <1>14 DEF CloseToken, Settle, Goto, database, runner, ops, bounds
<1>15. ASSUME NEW r \in Runs, CompletionFails(r) PROVE RowsInv'
  BY <1>15 DEF CompletionFails, Throw, Goto, Fault, database, runner, ops, bounds
<1>16. ASSUME NEW r \in Runs, FailureFails(r) PROVE RowsInv'
  BY <1>16 DEF FailureFails, Settle, Goto, Fault, database, runner, ops, bounds
<1>17. ASSUME NEW o \in Ops, Cancel(o) PROVE RowsInv'
  BY <1>17 DEF Cancel, database, runner, ops, bounds
<1>18. ASSUME NEW o \in Ops, AwaitExecution(o) PROVE RowsInv'
  BY <1>18 DEF AwaitExecution, database, runner, ops, bounds
<1>19. ASSUME NEW o \in Ops, Withdraw(o) PROVE RowsInv'
  BY <1>19 DEF Withdraw, database, runner, ops, bounds
<1>20. ASSUME NEW o \in Ops, FinishStop(o) PROVE RowsInv'
  BY <1>20 DEF FinishStop, database, runner, ops, bounds
<1>21. ASSUME NEW o \in Ops, FinishDelete(o) PROVE RowsInv'
  BY <1>21 DEF FinishDelete, database, runner, ops, bounds
<1>22. ASSUME NEW o \in Ops, FinishFails(o) PROVE RowsInv'
  BY <1>22 DEF FinishFails, Fault, database, runner, ops, bounds
<1>23. ASSUME NEW a \in Agents, StartAgent(a) PROVE RowsInv'
  BY <1>23 DEF StartAgent, database, runner, ops, bounds
<1>24. ASSUME NEW a \in Agents, KillAgent(a) PROVE RowsInv'
  BY <1>24 DEF KillAgent, database, runner, ops, bounds
<1>25. ASSUME Restart PROVE RowsInv'
  BY <1>25 DEF Restart
<1>26. ASSUME UNCHANGED vars PROVE RowsInv'
  BY <1>26 DEF vars
<1>27. QED
    BY <1>1, <1>2, <1>3, <1>4, <1>5, <1>6, <1>7, <1>8, <1>9, <1>10, <1>11, <1>12, <1>13,
       <1>14, <1>15, <1>16, <1>17, <1>18, <1>19, <1>20, <1>21, <1>22, <1>23, <1>24, <1>25, <1>26
       DEF Next, RunStep, OpStep

\* Rows of a deleted agent.
LEMMA DeletedStep ==
  ASSUME TypeOK, RowsInv, DeletedInv, [Next]_vars
  PROVE  DeletedInv'
<1> USE ConstantsOK DEF TypeOK, RowsInv, DeletedInv, InFlight, Executing, Going, Terminal,
     RunsOf
<1>1. ASSUME NEW r \in Runs, Send(r) PROVE DeletedInv'
  BY <1>1 DEF Send, Goto, database, runner, ops, bounds
<1>2. ASSUME NEW r \in Runs, Mint(r) PROVE DeletedInv'
  BY <1>2 DEF Mint, Goto, database, runner, ops, bounds
<1>3. ASSUME NEW r \in Runs, Refuse(r) PROVE DeletedInv'
  BY <1>3 DEF Refuse, Goto, database, runner, ops, bounds
<1>4. ASSUME NEW r \in Runs, Spawn(r) PROVE DeletedInv'
  BY <1>4 DEF Spawn, Goto, database, runner, ops, bounds
<1>5. ASSUME NEW r \in Runs, AskingFails(r) PROVE DeletedInv'
  BY <1>5 DEF AskingFails, Goto, Fault, database, runner, ops, bounds
<1>6. ASSUME NEW r \in Runs, StartRun(r) PROVE DeletedInv'
  BY <1>6 DEF StartRun, Goto, database, runner, ops, bounds
<1>7. ASSUME NEW r \in Runs, StartRunFails(r) PROVE DeletedInv'
  BY <1>7 DEF StartRunFails, Settle, Goto, Fault, database, runner, ops, bounds
<1>8. ASSUME NEW r \in Runs, CheckCancelled(r) PROVE DeletedInv'
  BY <1>8 DEF CheckCancelled, Throw, Goto, database, runner, ops, bounds
<1>9. ASSUME NEW r \in Runs, Launch(r) PROVE DeletedInv'
  BY <1>9 DEF Launch, Goto, database, runner, ops, bounds
<1>10. ASSUME NEW r \in Runs, LaunchRefused(r) PROVE DeletedInv'
  BY <1>10 DEF LaunchRefused, Throw, Goto, database, runner, ops, bounds
<1>11. ASSUME NEW r \in Runs, ProcessEnds(r) PROVE DeletedInv'
  BY <1>11 DEF ProcessEnds, Throw, Goto, database, runner, ops, bounds
<1>12. ASSUME NEW r \in Runs, Complete(r) PROVE DeletedInv'
  BY <1>12 DEF Complete, Goto, database, runner, ops, bounds
<1>13. ASSUME NEW r \in Runs, Fail(r) PROVE DeletedInv'
  BY <1>13 DEF Fail, Goto, database, runner, ops, bounds
<1>14. ASSUME NEW r \in Runs, CloseToken(r) PROVE DeletedInv'
  BY <1>14 DEF CloseToken, Settle, Goto, database, runner, ops, bounds
<1>15. ASSUME NEW r \in Runs, CompletionFails(r) PROVE DeletedInv'
  BY <1>15 DEF CompletionFails, Throw, Goto, Fault, database, runner, ops, bounds
<1>16. ASSUME NEW r \in Runs, FailureFails(r) PROVE DeletedInv'
  BY <1>16 DEF FailureFails, Settle, Goto, Fault, database, runner, ops, bounds
<1>17. ASSUME NEW o \in Ops, Cancel(o) PROVE DeletedInv'
  BY <1>17 DEF Cancel, database, runner, ops, bounds
<1>18. ASSUME NEW o \in Ops, AwaitExecution(o) PROVE DeletedInv'
  BY <1>18 DEF AwaitExecution, database, runner, ops, bounds
<1>19. ASSUME NEW o \in Ops, Withdraw(o) PROVE DeletedInv'
  BY <1>19 DEF Withdraw, database, runner, ops, bounds
<1>20. ASSUME NEW o \in Ops, FinishStop(o) PROVE DeletedInv'
  BY <1>20 DEF FinishStop, database, runner, ops, bounds
<1>21. ASSUME NEW o \in Ops, FinishDelete(o) PROVE DeletedInv'
  BY <1>21 DEF FinishDelete, database, runner, ops, bounds
<1>22. ASSUME NEW o \in Ops, FinishFails(o) PROVE DeletedInv'
  BY <1>22 DEF FinishFails, Fault, database, runner, ops, bounds
<1>23. ASSUME NEW a \in Agents, StartAgent(a) PROVE DeletedInv'
  BY <1>23 DEF StartAgent, database, runner, ops, bounds
<1>24. ASSUME NEW a \in Agents, KillAgent(a) PROVE DeletedInv'
  BY <1>24 DEF KillAgent, database, runner, ops, bounds
<1>25. ASSUME Restart PROVE DeletedInv'
  BY <1>25 DEF Restart
<1>26. ASSUME UNCHANGED vars PROVE DeletedInv'
  BY <1>26 DEF vars
<1>27. QED
    BY <1>1, <1>2, <1>3, <1>4, <1>5, <1>6, <1>7, <1>8, <1>9, <1>10, <1>11, <1>12, <1>13,
       <1>14, <1>15, <1>16, <1>17, <1>18, <1>19, <1>20, <1>21, <1>22, <1>23, <1>24, <1>25, <1>26
       DEF Next, RunStep, OpStep

\* Runs of a stopped agent.
LEMMA StoppedStep ==
  ASSUME TypeOK, StoppedInv, [Next]_vars
  PROVE  StoppedInv'
<1> USE ConstantsOK DEF TypeOK, StoppedInv, InFlight, Executing, RunsOf
<1>1. ASSUME NEW r \in Runs, Send(r) PROVE StoppedInv'
  BY <1>1 DEF Send, Goto, database, runner, ops, bounds
<1>2. ASSUME NEW r \in Runs, Mint(r) PROVE StoppedInv'
  BY <1>2 DEF Mint, Goto, database, runner, ops, bounds
<1>3. ASSUME NEW r \in Runs, Refuse(r) PROVE StoppedInv'
  BY <1>3 DEF Refuse, Goto, database, runner, ops, bounds
<1>4. ASSUME NEW r \in Runs, Spawn(r) PROVE StoppedInv'
  BY <1>4 DEF Spawn, Goto, database, runner, ops, bounds
<1>5. ASSUME NEW r \in Runs, AskingFails(r) PROVE StoppedInv'
  BY <1>5 DEF AskingFails, Goto, Fault, database, runner, ops, bounds
<1>6. ASSUME NEW r \in Runs, StartRun(r) PROVE StoppedInv'
  BY <1>6 DEF StartRun, Goto, database, runner, ops, bounds
<1>7. ASSUME NEW r \in Runs, StartRunFails(r) PROVE StoppedInv'
  BY <1>7 DEF StartRunFails, Settle, Goto, Fault, database, runner, ops, bounds
<1>8. ASSUME NEW r \in Runs, CheckCancelled(r) PROVE StoppedInv'
  BY <1>8 DEF CheckCancelled, Throw, Goto, database, runner, ops, bounds
<1>9. ASSUME NEW r \in Runs, Launch(r) PROVE StoppedInv'
  BY <1>9 DEF Launch, Goto, database, runner, ops, bounds
<1>10. ASSUME NEW r \in Runs, LaunchRefused(r) PROVE StoppedInv'
  BY <1>10 DEF LaunchRefused, Throw, Goto, database, runner, ops, bounds
<1>11. ASSUME NEW r \in Runs, ProcessEnds(r) PROVE StoppedInv'
  BY <1>11 DEF ProcessEnds, Throw, Goto, database, runner, ops, bounds
<1>12. ASSUME NEW r \in Runs, Complete(r) PROVE StoppedInv'
  BY <1>12 DEF Complete, Goto, database, runner, ops, bounds
<1>13. ASSUME NEW r \in Runs, Fail(r) PROVE StoppedInv'
  BY <1>13 DEF Fail, Goto, database, runner, ops, bounds
<1>14. ASSUME NEW r \in Runs, CloseToken(r) PROVE StoppedInv'
  BY <1>14 DEF CloseToken, Settle, Goto, database, runner, ops, bounds
<1>15. ASSUME NEW r \in Runs, CompletionFails(r) PROVE StoppedInv'
  BY <1>15 DEF CompletionFails, Throw, Goto, Fault, database, runner, ops, bounds
<1>16. ASSUME NEW r \in Runs, FailureFails(r) PROVE StoppedInv'
  BY <1>16 DEF FailureFails, Settle, Goto, Fault, database, runner, ops, bounds
<1>17. ASSUME NEW o \in Ops, Cancel(o) PROVE StoppedInv'
  BY <1>17 DEF Cancel, database, runner, ops, bounds
<1>18. ASSUME NEW o \in Ops, AwaitExecution(o) PROVE StoppedInv'
  BY <1>18 DEF AwaitExecution, database, runner, ops, bounds
<1>19. ASSUME NEW o \in Ops, Withdraw(o) PROVE StoppedInv'
  BY <1>19 DEF Withdraw, database, runner, ops, bounds
<1>20. ASSUME NEW o \in Ops, FinishStop(o) PROVE StoppedInv'
  BY <1>20 DEF FinishStop, database, runner, ops, bounds
<1>21. ASSUME NEW o \in Ops, FinishDelete(o) PROVE StoppedInv'
  BY <1>21 DEF FinishDelete, database, runner, ops, bounds
<1>22. ASSUME NEW o \in Ops, FinishFails(o) PROVE StoppedInv'
  BY <1>22 DEF FinishFails, Fault, database, runner, ops, bounds
<1>23. ASSUME NEW a \in Agents, StartAgent(a) PROVE StoppedInv'
  BY <1>23 DEF StartAgent, database, runner, ops, bounds
<1>24. ASSUME NEW a \in Agents, KillAgent(a) PROVE StoppedInv'
  BY <1>24 DEF KillAgent, database, runner, ops, bounds
<1>25. ASSUME Restart PROVE StoppedInv'
  BY <1>25 DEF Restart
<1>26. ASSUME UNCHANGED vars PROVE StoppedInv'
  BY <1>26 DEF vars
<1>27. QED
    BY <1>1, <1>2, <1>3, <1>4, <1>5, <1>6, <1>7, <1>8, <1>9, <1>10, <1>11, <1>12, <1>13,
       <1>14, <1>15, <1>16, <1>17, <1>18, <1>19, <1>20, <1>21, <1>22, <1>23, <1>24, <1>25, <1>26
       DEF Next, RunStep, OpStep

\* Tables.
LEMMA TablesStep ==
  ASSUME TypeOK, TablesInv, [Next]_vars
  PROVE  TablesInv'
<1> USE ConstantsOK DEF TypeOK, TablesInv, InFlight, Executing
<1>1. ASSUME NEW r \in Runs, Send(r) PROVE TablesInv'
  BY <1>1 DEF Send, Goto, database, runner, ops, bounds
<1>2. ASSUME NEW r \in Runs, Mint(r) PROVE TablesInv'
  BY <1>2 DEF Mint, Goto, database, runner, ops, bounds
<1>3. ASSUME NEW r \in Runs, Refuse(r) PROVE TablesInv'
  BY <1>3 DEF Refuse, Goto, database, runner, ops, bounds
<1>4. ASSUME NEW r \in Runs, Spawn(r) PROVE TablesInv'
  BY <1>4 DEF Spawn, Goto, database, runner, ops, bounds
<1>5. ASSUME NEW r \in Runs, AskingFails(r) PROVE TablesInv'
  BY <1>5 DEF AskingFails, Goto, Fault, database, runner, ops, bounds
<1>6. ASSUME NEW r \in Runs, StartRun(r) PROVE TablesInv'
  BY <1>6 DEF StartRun, Goto, database, runner, ops, bounds
<1>7. ASSUME NEW r \in Runs, StartRunFails(r) PROVE TablesInv'
  BY <1>7 DEF StartRunFails, Settle, Goto, Fault, database, runner, ops, bounds
<1>8. ASSUME NEW r \in Runs, CheckCancelled(r) PROVE TablesInv'
  BY <1>8 DEF CheckCancelled, Throw, Goto, database, runner, ops, bounds
<1>9. ASSUME NEW r \in Runs, Launch(r) PROVE TablesInv'
  BY <1>9 DEF Launch, Goto, database, runner, ops, bounds
<1>10. ASSUME NEW r \in Runs, LaunchRefused(r) PROVE TablesInv'
  BY <1>10 DEF LaunchRefused, Throw, Goto, database, runner, ops, bounds
<1>11. ASSUME NEW r \in Runs, ProcessEnds(r) PROVE TablesInv'
  BY <1>11 DEF ProcessEnds, Throw, Goto, database, runner, ops, bounds
<1>12. ASSUME NEW r \in Runs, Complete(r) PROVE TablesInv'
  BY <1>12 DEF Complete, Goto, database, runner, ops, bounds
<1>13. ASSUME NEW r \in Runs, Fail(r) PROVE TablesInv'
  BY <1>13 DEF Fail, Goto, database, runner, ops, bounds
<1>14. ASSUME NEW r \in Runs, CloseToken(r) PROVE TablesInv'
  BY <1>14 DEF CloseToken, Settle, Goto, database, runner, ops, bounds
<1>15. ASSUME NEW r \in Runs, CompletionFails(r) PROVE TablesInv'
  BY <1>15 DEF CompletionFails, Throw, Goto, Fault, database, runner, ops, bounds
<1>16. ASSUME NEW r \in Runs, FailureFails(r) PROVE TablesInv'
  BY <1>16 DEF FailureFails, Settle, Goto, Fault, database, runner, ops, bounds
<1>17. ASSUME NEW o \in Ops, Cancel(o) PROVE TablesInv'
  BY <1>17 DEF Cancel, database, runner, ops, bounds
<1>18. ASSUME NEW o \in Ops, AwaitExecution(o) PROVE TablesInv'
  BY <1>18 DEF AwaitExecution, database, runner, ops, bounds
<1>19. ASSUME NEW o \in Ops, Withdraw(o) PROVE TablesInv'
  BY <1>19 DEF Withdraw, database, runner, ops, bounds
<1>20. ASSUME NEW o \in Ops, FinishStop(o) PROVE TablesInv'
  BY <1>20 DEF FinishStop, database, runner, ops, bounds
<1>21. ASSUME NEW o \in Ops, FinishDelete(o) PROVE TablesInv'
  BY <1>21 DEF FinishDelete, database, runner, ops, bounds
<1>22. ASSUME NEW o \in Ops, FinishFails(o) PROVE TablesInv'
  BY <1>22 DEF FinishFails, Fault, database, runner, ops, bounds
<1>23. ASSUME NEW a \in Agents, StartAgent(a) PROVE TablesInv'
  BY <1>23 DEF StartAgent, database, runner, ops, bounds
<1>24. ASSUME NEW a \in Agents, KillAgent(a) PROVE TablesInv'
  BY <1>24 DEF KillAgent, database, runner, ops, bounds
<1>25. ASSUME Restart PROVE TablesInv'
  BY <1>25 DEF Restart
<1>26. ASSUME UNCHANGED vars PROVE TablesInv'
  BY <1>26 DEF vars
<1>27. QED
    BY <1>1, <1>2, <1>3, <1>4, <1>5, <1>6, <1>7, <1>8, <1>9, <1>10, <1>11, <1>12, <1>13,
       <1>14, <1>15, <1>16, <1>17, <1>18, <1>19, <1>20, <1>21, <1>22, <1>23, <1>24, <1>25, <1>26
       DEF Next, RunStep, OpStep

\* Waiting operations.
LEMMA WaitStep ==
  ASSUME TypeOK, WaitInv, [Next]_vars
  PROVE  WaitInv'
<1> USE ConstantsOK DEF TypeOK, WaitInv, InFlight, Executing
<1>1. ASSUME NEW r \in Runs, Send(r) PROVE WaitInv'
  BY <1>1 DEF Send, Goto, database, runner, ops, bounds
<1>2. ASSUME NEW r \in Runs, Mint(r) PROVE WaitInv'
  BY <1>2 DEF Mint, Goto, database, runner, ops, bounds
<1>3. ASSUME NEW r \in Runs, Refuse(r) PROVE WaitInv'
  BY <1>3 DEF Refuse, Goto, database, runner, ops, bounds
<1>4. ASSUME NEW r \in Runs, Spawn(r) PROVE WaitInv'
  BY <1>4 DEF Spawn, Goto, database, runner, ops, bounds
<1>5. ASSUME NEW r \in Runs, AskingFails(r) PROVE WaitInv'
  BY <1>5 DEF AskingFails, Goto, Fault, database, runner, ops, bounds
<1>6. ASSUME NEW r \in Runs, StartRun(r) PROVE WaitInv'
  BY <1>6 DEF StartRun, Goto, database, runner, ops, bounds
<1>7. ASSUME NEW r \in Runs, StartRunFails(r) PROVE WaitInv'
  BY <1>7 DEF StartRunFails, Settle, Goto, Fault, database, runner, ops, bounds
<1>8. ASSUME NEW r \in Runs, CheckCancelled(r) PROVE WaitInv'
  BY <1>8 DEF CheckCancelled, Throw, Goto, database, runner, ops, bounds
<1>9. ASSUME NEW r \in Runs, Launch(r) PROVE WaitInv'
  BY <1>9 DEF Launch, Goto, database, runner, ops, bounds
<1>10. ASSUME NEW r \in Runs, LaunchRefused(r) PROVE WaitInv'
  BY <1>10 DEF LaunchRefused, Throw, Goto, database, runner, ops, bounds
<1>11. ASSUME NEW r \in Runs, ProcessEnds(r) PROVE WaitInv'
  BY <1>11 DEF ProcessEnds, Throw, Goto, database, runner, ops, bounds
<1>12. ASSUME NEW r \in Runs, Complete(r) PROVE WaitInv'
  BY <1>12 DEF Complete, Goto, database, runner, ops, bounds
<1>13. ASSUME NEW r \in Runs, Fail(r) PROVE WaitInv'
  BY <1>13 DEF Fail, Goto, database, runner, ops, bounds
<1>14. ASSUME NEW r \in Runs, CloseToken(r) PROVE WaitInv'
  BY <1>14 DEF CloseToken, Settle, Goto, database, runner, ops, bounds
<1>15. ASSUME NEW r \in Runs, CompletionFails(r) PROVE WaitInv'
  BY <1>15 DEF CompletionFails, Throw, Goto, Fault, database, runner, ops, bounds
<1>16. ASSUME NEW r \in Runs, FailureFails(r) PROVE WaitInv'
  BY <1>16 DEF FailureFails, Settle, Goto, Fault, database, runner, ops, bounds
<1>17. ASSUME NEW o \in Ops, Cancel(o) PROVE WaitInv'
  BY <1>17 DEF Cancel, database, runner, ops, bounds
<1>18. ASSUME NEW o \in Ops, AwaitExecution(o) PROVE WaitInv'
  BY <1>18 DEF AwaitExecution, database, runner, ops, bounds
<1>19. ASSUME NEW o \in Ops, Withdraw(o) PROVE WaitInv'
  BY <1>19 DEF Withdraw, database, runner, ops, bounds
<1>20. ASSUME NEW o \in Ops, FinishStop(o) PROVE WaitInv'
  BY <1>20 DEF FinishStop, database, runner, ops, bounds
<1>21. ASSUME NEW o \in Ops, FinishDelete(o) PROVE WaitInv'
  BY <1>21 DEF FinishDelete, database, runner, ops, bounds
<1>22. ASSUME NEW o \in Ops, FinishFails(o) PROVE WaitInv'
  BY <1>22 DEF FinishFails, Fault, database, runner, ops, bounds
<1>23. ASSUME NEW a \in Agents, StartAgent(a) PROVE WaitInv'
  BY <1>23 DEF StartAgent, database, runner, ops, bounds
<1>24. ASSUME NEW a \in Agents, KillAgent(a) PROVE WaitInv'
  BY <1>24 DEF KillAgent, database, runner, ops, bounds
<1>25. ASSUME Restart PROVE WaitInv'
  BY <1>25 DEF Restart
<1>26. ASSUME UNCHANGED vars PROVE WaitInv'
  BY <1>26 DEF vars
<1>27. QED
    BY <1>1, <1>2, <1>3, <1>4, <1>5, <1>6, <1>7, <1>8, <1>9, <1>10, <1>11, <1>12, <1>13,
       <1>14, <1>15, <1>16, <1>17, <1>18, <1>19, <1>20, <1>21, <1>22, <1>23, <1>24, <1>25, <1>26
       DEF Next, RunStep, OpStep

\* The holder of the busy flag.
LEMMA HolderStep ==
  ASSUME TypeOK, RowsInv, StoppedInv, TablesInv, HolderInv, [Next]_vars
  PROVE  HolderInv'
<1> USE ConstantsOK DEF TypeOK, RowsInv, StoppedInv, TablesInv, HolderInv, Clean, Holding,
     RunsOf, InFlight, Executing
<1>1. ASSUME NEW r \in Runs, Send(r) PROVE HolderInv'
  BY <1>1 DEF Send, Goto, database, runner, ops, bounds
<1>2. ASSUME NEW r \in Runs, Mint(r) PROVE HolderInv'
  BY <1>2 DEF Mint, Goto, database, runner, ops, bounds
<1>3. ASSUME NEW r \in Runs, Refuse(r) PROVE HolderInv'
  BY <1>3 DEF Refuse, Goto, database, runner, ops, bounds
<1>4. ASSUME NEW r \in Runs, Spawn(r) PROVE HolderInv'
  BY <1>4 DEF Spawn, Goto, database, runner, ops, bounds
<1>5. ASSUME NEW r \in Runs, AskingFails(r) PROVE HolderInv'
  BY <1>5 DEF AskingFails, Goto, Fault, database, runner, ops, bounds
<1>6. ASSUME NEW r \in Runs, StartRun(r) PROVE HolderInv'
  BY <1>6 DEF StartRun, Goto, database, runner, ops, bounds
<1>7. ASSUME NEW r \in Runs, StartRunFails(r) PROVE HolderInv'
  BY <1>7 DEF StartRunFails, Settle, Goto, Fault, database, runner, ops, bounds
<1>8. ASSUME NEW r \in Runs, CheckCancelled(r) PROVE HolderInv'
  BY <1>8 DEF CheckCancelled, Throw, Goto, database, runner, ops, bounds
<1>9. ASSUME NEW r \in Runs, Launch(r) PROVE HolderInv'
  BY <1>9 DEF Launch, Goto, database, runner, ops, bounds
<1>10. ASSUME NEW r \in Runs, LaunchRefused(r) PROVE HolderInv'
  BY <1>10 DEF LaunchRefused, Throw, Goto, database, runner, ops, bounds
<1>11. ASSUME NEW r \in Runs, ProcessEnds(r) PROVE HolderInv'
  BY <1>11 DEF ProcessEnds, Throw, Goto, database, runner, ops, bounds
<1>12. ASSUME NEW r \in Runs, Complete(r) PROVE HolderInv'
  BY <1>12 DEF Complete, Goto, database, runner, ops, bounds
<1>13. ASSUME NEW r \in Runs, Fail(r) PROVE HolderInv'
  BY <1>13 DEF Fail, Goto, database, runner, ops, bounds
<1>14. ASSUME NEW r \in Runs, CloseToken(r) PROVE HolderInv'
  BY <1>14 DEF CloseToken, Settle, Goto, database, runner, ops, bounds
<1>15. ASSUME NEW r \in Runs, CompletionFails(r) PROVE HolderInv'
  BY <1>15 DEF CompletionFails, Throw, Goto, Fault, database, runner, ops, bounds
<1>16. ASSUME NEW r \in Runs, FailureFails(r) PROVE HolderInv'
  BY <1>16 DEF FailureFails, Settle, Goto, Fault, database, runner, ops, bounds
<1>17. ASSUME NEW o \in Ops, Cancel(o) PROVE HolderInv'
  BY <1>17 DEF Cancel, database, runner, ops, bounds
<1>18. ASSUME NEW o \in Ops, AwaitExecution(o) PROVE HolderInv'
  BY <1>18 DEF AwaitExecution, database, runner, ops, bounds
<1>19. ASSUME NEW o \in Ops, Withdraw(o) PROVE HolderInv'
  BY <1>19 DEF Withdraw, database, runner, ops, bounds
<1>20. ASSUME NEW o \in Ops, FinishStop(o) PROVE HolderInv'
  BY <1>20 DEF FinishStop, database, runner, ops, bounds
<1>21. ASSUME NEW o \in Ops, FinishDelete(o) PROVE HolderInv'
  BY <1>21 DEF FinishDelete, database, runner, ops, bounds
<1>22. ASSUME NEW o \in Ops, FinishFails(o) PROVE HolderInv'
  BY <1>22 DEF FinishFails, Fault, database, runner, ops, bounds
<1>23. ASSUME NEW a \in Agents, StartAgent(a) PROVE HolderInv'
  BY <1>23 DEF StartAgent, database, runner, ops, bounds
<1>24. ASSUME NEW a \in Agents, KillAgent(a) PROVE HolderInv'
  BY <1>24 DEF KillAgent, database, runner, ops, bounds
<1>25. ASSUME Restart PROVE HolderInv'
  BY <1>25 DEF Restart
<1>26. ASSUME UNCHANGED vars PROVE HolderInv'
  BY <1>26 DEF vars
<1>27. QED
    BY <1>1, <1>2, <1>3, <1>4, <1>5, <1>6, <1>7, <1>8, <1>9, <1>10, <1>11, <1>12, <1>13,
       <1>14, <1>15, <1>16, <1>17, <1>18, <1>19, <1>20, <1>21, <1>22, <1>23, <1>24, <1>25, <1>26
       DEF Next, RunStep, OpStep

\* Busy agents.
LEMMA BusyStep ==
  ASSUME TypeOK, RowsInv, DeletedInv, BusyHasRun, [Next]_vars
  PROVE  BusyHasRun'
<1> USE ConstantsOK DEF TypeOK, RowsInv, DeletedInv, BusyHasRun, RunsOf, InFlight, Executing
<1>1. ASSUME NEW r \in Runs, Send(r) PROVE BusyHasRun'
  BY <1>1 DEF Send, Goto, database, runner, ops, bounds
<1>2. ASSUME NEW r \in Runs, Mint(r) PROVE BusyHasRun'
  BY <1>2 DEF Mint, Goto, database, runner, ops, bounds
<1>3. ASSUME NEW r \in Runs, Refuse(r) PROVE BusyHasRun'
  BY <1>3 DEF Refuse, Goto, database, runner, ops, bounds
<1>4. ASSUME NEW r \in Runs, Spawn(r) PROVE BusyHasRun'
  BY <1>4 DEF Spawn, Goto, database, runner, ops, bounds
<1>5. ASSUME NEW r \in Runs, AskingFails(r) PROVE BusyHasRun'
  BY <1>5 DEF AskingFails, Goto, Fault, database, runner, ops, bounds
<1>6. ASSUME NEW r \in Runs, StartRun(r) PROVE BusyHasRun'
  BY <1>6 DEF StartRun, Goto, database, runner, ops, bounds
<1>7. ASSUME NEW r \in Runs, StartRunFails(r) PROVE BusyHasRun'
  BY <1>7 DEF StartRunFails, Settle, Goto, Fault, database, runner, ops, bounds
<1>8. ASSUME NEW r \in Runs, CheckCancelled(r) PROVE BusyHasRun'
  BY <1>8 DEF CheckCancelled, Throw, Goto, database, runner, ops, bounds
<1>9. ASSUME NEW r \in Runs, Launch(r) PROVE BusyHasRun'
  BY <1>9 DEF Launch, Goto, database, runner, ops, bounds
<1>10. ASSUME NEW r \in Runs, LaunchRefused(r) PROVE BusyHasRun'
  BY <1>10 DEF LaunchRefused, Throw, Goto, database, runner, ops, bounds
<1>11. ASSUME NEW r \in Runs, ProcessEnds(r) PROVE BusyHasRun'
  BY <1>11 DEF ProcessEnds, Throw, Goto, database, runner, ops, bounds
<1>12. ASSUME NEW r \in Runs, Complete(r) PROVE BusyHasRun'
  BY <1>12 DEF Complete, Goto, database, runner, ops, bounds
<1>13. ASSUME NEW r \in Runs, Fail(r) PROVE BusyHasRun'
  BY <1>13 DEF Fail, Goto, database, runner, ops, bounds
<1>14. ASSUME NEW r \in Runs, CloseToken(r) PROVE BusyHasRun'
  BY <1>14 DEF CloseToken, Settle, Goto, database, runner, ops, bounds
<1>15. ASSUME NEW r \in Runs, CompletionFails(r) PROVE BusyHasRun'
  BY <1>15 DEF CompletionFails, Throw, Goto, Fault, database, runner, ops, bounds
<1>16. ASSUME NEW r \in Runs, FailureFails(r) PROVE BusyHasRun'
  BY <1>16 DEF FailureFails, Settle, Goto, Fault, database, runner, ops, bounds
<1>17. ASSUME NEW o \in Ops, Cancel(o) PROVE BusyHasRun'
  BY <1>17 DEF Cancel, database, runner, ops, bounds
<1>18. ASSUME NEW o \in Ops, AwaitExecution(o) PROVE BusyHasRun'
  BY <1>18 DEF AwaitExecution, database, runner, ops, bounds
<1>19. ASSUME NEW o \in Ops, Withdraw(o) PROVE BusyHasRun'
  BY <1>19 DEF Withdraw, database, runner, ops, bounds
<1>20. ASSUME NEW o \in Ops, FinishStop(o) PROVE BusyHasRun'
  BY <1>20 DEF FinishStop, database, runner, ops, bounds
<1>21. ASSUME NEW o \in Ops, FinishDelete(o) PROVE BusyHasRun'
  BY <1>21 DEF FinishDelete, database, runner, ops, bounds
<1>22. ASSUME NEW o \in Ops, FinishFails(o) PROVE BusyHasRun'
  BY <1>22 DEF FinishFails, Fault, database, runner, ops, bounds
<1>23. ASSUME NEW a \in Agents, StartAgent(a) PROVE BusyHasRun'
  BY <1>23 DEF StartAgent, database, runner, ops, bounds
<1>24. ASSUME NEW a \in Agents, KillAgent(a) PROVE BusyHasRun'
  BY <1>24 DEF KillAgent, database, runner, ops, bounds
<1>25. ASSUME Restart PROVE BusyHasRun'
  BY <1>25 DEF Restart
<1>26. ASSUME UNCHANGED vars PROVE BusyHasRun'
  BY <1>26 DEF vars
<1>27. QED
    BY <1>1, <1>2, <1>3, <1>4, <1>5, <1>6, <1>7, <1>8, <1>9, <1>10, <1>11, <1>12, <1>13,
       <1>14, <1>15, <1>16, <1>17, <1>18, <1>19, <1>20, <1>21, <1>22, <1>23, <1>24, <1>25, <1>26
       DEF Next, RunStep, OpStep

\* Live tokens.
LEMMA LiveTokenStep ==
  ASSUME TypeOK, LiveTokenHasRun, [Next]_vars
  PROVE  LiveTokenHasRun'
<1> USE ConstantsOK DEF TypeOK, LiveTokenHasRun, InFlight, Executing
<1>1. ASSUME NEW r \in Runs, Send(r) PROVE LiveTokenHasRun'
  BY <1>1 DEF Send, Goto, database, runner, ops, bounds
<1>2. ASSUME NEW r \in Runs, Mint(r) PROVE LiveTokenHasRun'
  BY <1>2 DEF Mint, Goto, database, runner, ops, bounds
<1>3. ASSUME NEW r \in Runs, Refuse(r) PROVE LiveTokenHasRun'
  BY <1>3 DEF Refuse, Goto, database, runner, ops, bounds
<1>4. ASSUME NEW r \in Runs, Spawn(r) PROVE LiveTokenHasRun'
  BY <1>4 DEF Spawn, Goto, database, runner, ops, bounds
<1>5. ASSUME NEW r \in Runs, AskingFails(r) PROVE LiveTokenHasRun'
  BY <1>5 DEF AskingFails, Goto, Fault, database, runner, ops, bounds
<1>6. ASSUME NEW r \in Runs, StartRun(r) PROVE LiveTokenHasRun'
  BY <1>6 DEF StartRun, Goto, database, runner, ops, bounds
<1>7. ASSUME NEW r \in Runs, StartRunFails(r) PROVE LiveTokenHasRun'
  BY <1>7 DEF StartRunFails, Settle, Goto, Fault, database, runner, ops, bounds
<1>8. ASSUME NEW r \in Runs, CheckCancelled(r) PROVE LiveTokenHasRun'
  BY <1>8 DEF CheckCancelled, Throw, Goto, database, runner, ops, bounds
<1>9. ASSUME NEW r \in Runs, Launch(r) PROVE LiveTokenHasRun'
  BY <1>9 DEF Launch, Goto, database, runner, ops, bounds
<1>10. ASSUME NEW r \in Runs, LaunchRefused(r) PROVE LiveTokenHasRun'
  BY <1>10 DEF LaunchRefused, Throw, Goto, database, runner, ops, bounds
<1>11. ASSUME NEW r \in Runs, ProcessEnds(r) PROVE LiveTokenHasRun'
  BY <1>11 DEF ProcessEnds, Throw, Goto, database, runner, ops, bounds
<1>12. ASSUME NEW r \in Runs, Complete(r) PROVE LiveTokenHasRun'
  BY <1>12 DEF Complete, Goto, database, runner, ops, bounds
<1>13. ASSUME NEW r \in Runs, Fail(r) PROVE LiveTokenHasRun'
  BY <1>13 DEF Fail, Goto, database, runner, ops, bounds
<1>14. ASSUME NEW r \in Runs, CloseToken(r) PROVE LiveTokenHasRun'
  BY <1>14 DEF CloseToken, Settle, Goto, database, runner, ops, bounds
<1>15. ASSUME NEW r \in Runs, CompletionFails(r) PROVE LiveTokenHasRun'
  BY <1>15 DEF CompletionFails, Throw, Goto, Fault, database, runner, ops, bounds
<1>16. ASSUME NEW r \in Runs, FailureFails(r) PROVE LiveTokenHasRun'
  BY <1>16 DEF FailureFails, Settle, Goto, Fault, database, runner, ops, bounds
<1>17. ASSUME NEW o \in Ops, Cancel(o) PROVE LiveTokenHasRun'
  BY <1>17 DEF Cancel, database, runner, ops, bounds
<1>18. ASSUME NEW o \in Ops, AwaitExecution(o) PROVE LiveTokenHasRun'
  BY <1>18 DEF AwaitExecution, database, runner, ops, bounds
<1>19. ASSUME NEW o \in Ops, Withdraw(o) PROVE LiveTokenHasRun'
  BY <1>19 DEF Withdraw, database, runner, ops, bounds
<1>20. ASSUME NEW o \in Ops, FinishStop(o) PROVE LiveTokenHasRun'
  BY <1>20 DEF FinishStop, database, runner, ops, bounds
<1>21. ASSUME NEW o \in Ops, FinishDelete(o) PROVE LiveTokenHasRun'
  BY <1>21 DEF FinishDelete, database, runner, ops, bounds
<1>22. ASSUME NEW o \in Ops, FinishFails(o) PROVE LiveTokenHasRun'
  BY <1>22 DEF FinishFails, Fault, database, runner, ops, bounds
<1>23. ASSUME NEW a \in Agents, StartAgent(a) PROVE LiveTokenHasRun'
  BY <1>23 DEF StartAgent, database, runner, ops, bounds
<1>24. ASSUME NEW a \in Agents, KillAgent(a) PROVE LiveTokenHasRun'
  BY <1>24 DEF KillAgent, database, runner, ops, bounds
<1>25. ASSUME Restart PROVE LiveTokenHasRun'
  BY <1>25 DEF Restart
<1>26. ASSUME UNCHANGED vars PROVE LiveTokenHasRun'
  BY <1>26 DEF vars
<1>27. QED
    BY <1>1, <1>2, <1>3, <1>4, <1>5, <1>6, <1>7, <1>8, <1>9, <1>10, <1>11, <1>12, <1>13,
       <1>14, <1>15, <1>16, <1>17, <1>18, <1>19, <1>20, <1>21, <1>22, <1>23, <1>24, <1>25, <1>26
       DEF Next, RunStep, OpStep

LEMMA Step ==
  ASSUME IInv, [Next]_vars
  PROVE  IInv'
    BY TypeStep, RowsStep, DeletedStep, StoppedStep, TablesStep, WaitStep, HolderStep,
       BusyStep,
     LiveTokenStep DEF IInv

LEMMA Invariance == Spec => []IInv
<1>1. IInv /\ [Next]_vars => IInv'
  BY Step
<1>2. QED
  BY <1>1, InitIInv, PTL DEF Spec

--------------------------------------------------------------------------------
(* Safety *)

\* Every variable of the lifecycle keeps its type.
THEOREM TypeCorrect == Spec => []TypeOK
<1>1. IInv => TypeOK
  BY DEF IInv
<1>2. QED
  BY <1>1, Invariance, PTL

\* closeRunToken: only a call on its way, one cut short by a failed write, or
\* one cut short by the death of the server has a live token.
THEOREM IdentityDiesWithRun == Spec => []LiveTokenHasRun
<1>1. IInv => LiveTokenHasRun
  BY DEF IInv
<1>2. QED
  BY <1>1, Invariance, PTL

\* A busy agent has a run that will release it, or whose release failed.
THEOREM BusyIsHeld == Spec => []BusyHasRun
<1>1. IInv => BusyHasRun
  BY DEF IInv
<1>2. QED
  BY <1>1, Invariance, PTL

\* The busy flag excludes a second run unless a write failed or a run outlived a Stop.
THEOREM BusyExcludes == Spec => []OneRunUnlessOutlived
<1>1. ASSUME IInv PROVE OneRunUnlessOutlived
  <2>1. SUFFICES ASSUME NEW a \in Agents, Clean(a), NEW r \in RunsOf(a), NEW q \in RunsOf(a),
                        runStatus[r] \in Going, runStatus[q] \in Going
                 PROVE  r = q
    BY DEF OneRunUnlessOutlived, Clean
  <2>2. ASSUME NEW x \in RunsOf(a), runStatus[x] \in Going PROVE pc[x] \in Holding
    <3>1. x \in Runs /\ faults = 0 /\ pc[x] \in PCs
      BY <1>1, <2>1 DEF IInv, TypeOK, RunsOf, Clean
    <3>2. QED
            BY <1>1, <2>2, <3>1 DEF IInv, RowsInv, PCs, InFlight, Executing, Holding, Going,
           Terminal
  <2>3. pc[r] \in Holding /\ pc[q] \in Holding
    BY <2>1, <2>2
  <2>4. QED
    BY <1>1, <2>1, <2>3 DEF IInv, HolderInv, RunsOf
<1>2. QED
  BY <1>1, Invariance, PTL

\* Stop finds the executing run in activeExecutions, and never a settled one.
THEOREM StopFinds == Spec => []StopFindsTheRun
<1>1. ASSUME IInv, NEW a \in Agents, active[a] # None
      PROVE  pc[active[a]] \in InFlight \ {"asking"}
  BY <1>1 DEF IInv, TablesInv
<1>2. ASSUME IInv, NEW a \in Agents, Clean(a), NEW r \in RunsOf(a), pc[r] \in Executing
      PROVE  active[a] = r
  BY <1>2 DEF IInv, HolderInv, Holding, RunsOf
<1>3. IInv => StopFindsTheRun
  BY <1>1, <1>2 DEF StopFindsTheRun, Clean
<1>4. QED
  BY <1>3, Invariance, PTL

\* Stop and Delete go on with the awaited run ended, closed and out of the runner.
THEOREM StopSees == Spec => []StopSeesRunOut
<1>1. ASSUME IInv PROVE StopSeesRunOut
  <2>1. SUFFICES ASSUME NEW o \in Ops, opPc[o] = "finishing", opWait[o] # None
                 PROVE  /\ runStatus[opWait[o]] \notin Going
                        /\ token[opWait[o]] # "live"
                        /\ process[AgentOf[opWait[o]]] # opWait[o]
    BY DEF StopSeesRunOut
  <2>2. opWait[o] \in Runs /\ pc[opWait[o]] = "done" /\ AgentOf[opWait[o]] \in Agents
    BY <1>1, <2>1, ConstantsOK DEF IInv, TypeOK, WaitInv
  <2>3. runStatus[opWait[o]] \notin Going /\ token[opWait[o]] # "live"
    BY <1>1, <2>2 DEF IInv, RowsInv, Going, Terminal
  <2>4. process[AgentOf[opWait[o]]] # opWait[o]
    BY <1>1, <2>1, <2>2 DEF IInv, TablesInv
  <2>5. QED
    BY <2>3, <2>4
<1>2. QED
  BY <1>1, Invariance, PTL

--------------------------------------------------------------------------------
(* What no step may do: few actions write each column, and the rest is theirs. *)

LEMMA Writers ==
  ASSUME [Next]_vars
  PROVE  /\ \/ UNCHANGED token
            \/ Restart
            \/ \E r \in Runs : Mint(r) \/ CloseToken(r)
            \/ \E a \in Agents : KillAgent(a)
         /\ \/ UNCHANGED runStatus
            \/ Restart
            \/ \E r \in Runs : Mint(r) \/ StartRun(r) \/ Complete(r) \/ Fail(r)
            \/ \E o \in Ops : FinishDelete(o)
         /\ \/ UNCHANGED status
            \/ Restart
            \/ \E r \in Runs : Mint(r) \/ Complete(r) \/ Fail(r)
            \/ \E o \in Ops : FinishStop(o) \/ FinishDelete(o)
            \/ \E a \in Agents : StartAgent(a)
<1> USE DEF database, runner, ops, bounds
<1>1. ASSUME NEW r \in Runs,
             \/ Send(r) \/ Refuse(r) \/ Spawn(r) \/ AskingFails(r) \/ StartRunFails(r)
             \/ CheckCancelled(r) \/ Launch(r) \/ LaunchRefused(r) \/ ProcessEnds(r)
             \/ CompletionFails(r) \/ FailureFails(r)
      PROVE  UNCHANGED <<status, runStatus, token>>
  BY <1>1 DEF Send, Refuse, Spawn, AskingFails, StartRunFails, CheckCancelled, Launch,
     LaunchRefused, ProcessEnds, CompletionFails, FailureFails
<1>2. ASSUME NEW o \in Ops, Cancel(o) \/ AwaitExecution(o) \/ Withdraw(o) \/ FinishFails(o)
      PROVE  UNCHANGED <<status, runStatus, token>>
  BY <1>2 DEF Cancel, AwaitExecution, Withdraw, FinishFails
<1>3. /\ \A r \in Runs : CloseToken(r) => UNCHANGED <<status, runStatus>>
      /\ \A r \in Runs : StartRun(r) => UNCHANGED <<status, token>>
      /\ \A r \in Runs : Complete(r) \/ Fail(r) => UNCHANGED token
      /\ \A o \in Ops : FinishStop(o) => UNCHANGED <<runStatus, token>>
      /\ \A o \in Ops : FinishDelete(o) => UNCHANGED token
      /\ \A a \in Agents : StartAgent(a) => UNCHANGED <<runStatus, token>>
      /\ \A a \in Agents : KillAgent(a) => UNCHANGED <<status, runStatus>>
    BY DEF CloseToken, StartRun, Complete, Fail, FinishStop, FinishDelete, StartAgent,
       KillAgent
<1>4. UNCHANGED vars => UNCHANGED <<status, runStatus, token>>
  BY DEF vars
<1>5. QED
  BY <1>1, <1>2, <1>3, <1>4 DEF Next, RunStep, OpStep

\* closeRunToken and killAgent leave a revoked row as it is, and nobody else writes it.
THEOREM RevocationIsOnce == Spec => RevokedStaysRevoked
<1> DEFINE Allowed == \A r \in Runs : token[r] \in {"closed", "killed"} => token'[r] = token[r]
<1>1. ASSUME IInv, [Next]_vars PROVE Allowed
  <2> USE <1>1, ConstantsOK DEF IInv, TypeOK, RowsInv
  <2>1. ASSUME UNCHANGED token \/ Restart PROVE Allowed
    BY <2>1 DEF Restart
  <2>2. ASSUME NEW r \in Runs, Mint(r) PROVE Allowed
    BY <2>2 DEF Mint
  <2>3. ASSUME NEW r \in Runs, CloseToken(r) PROVE Allowed
    BY <2>3 DEF CloseToken
  <2>4. ASSUME NEW a \in Agents, KillAgent(a) PROVE Allowed
    BY <2>4 DEF KillAgent
  <2>5. QED
    BY <2>1, <2>2, <2>3, <2>4, Writers
<1>2. IInv /\ [Next]_vars => [Allowed]_vars
  BY <1>1
<1>3. Spec => [][Allowed]_vars
  BY <1>2, Invariance, PTL DEF Spec
<1>4. QED
  BY <1>3 DEF RevokedStaysRevoked

\* A run's end is written once, but for a completed run whose token could not be closed.
THEOREM EndsAreFinal == Spec => TerminalIsFinal
<1> DEFINE Allowed ==
    \A r \in Runs : runStatus[r] \in Terminal =>
      \/ runStatus'[r] \in {runStatus[r], "none"}
      \/ runStatus[r] = "completed" /\ runStatus'[r] = "failed" /\ faults > 0
<1>1. ASSUME IInv, [Next]_vars PROVE Allowed
  <2> USE <1>1, ConstantsOK DEF IInv, TypeOK, RowsInv, DeletedInv, InFlight, Executing, Going,
          Terminal, RunsOf
  <2>1. ASSUME UNCHANGED runStatus PROVE Allowed
    BY <2>1 DEF Terminal
  <2>2. ASSUME Restart PROVE Allowed
    BY <2>2 DEF Restart
  <2>3. ASSUME NEW r \in Runs, Mint(r) PROVE Allowed
    BY <2>3 DEF Mint
  <2>4. ASSUME NEW r \in Runs, StartRun(r) PROVE Allowed
    BY <2>4 DEF StartRun
  <2>5. ASSUME NEW r \in Runs, Complete(r) PROVE Allowed
    BY <2>5 DEF Complete
  <2>6. ASSUME NEW r \in Runs, Fail(r) PROVE Allowed
    BY <2>6 DEF Fail
  <2>7. ASSUME NEW o \in Ops, FinishDelete(o) PROVE Allowed
    BY <2>7 DEF FinishDelete
  <2>8. QED
    BY <2>1, <2>2, <2>3, <2>4, <2>5, <2>6, <2>7, Writers
<1>2. IInv /\ [Next]_vars => [Allowed]_vars
  BY <1>1
<1>3. Spec => [][Allowed]_vars
  BY <1>2, Invariance, PTL DEF Spec
<1>4. QED
  BY <1>3 DEF TerminalIsFinal

\* Nothing that outlives a Delete brings the agent or a row of a run back.
THEOREM DeletionIsFinal == Spec => DeletedStaysDeleted
<1> DEFINE Allowed ==
    \A a \in Agents : status[a] = "deleted" =>
      status'[a] = "deleted" /\ \A r \in RunsOf(a) : runStatus'[r] = "none"
<1>1. ASSUME IInv, [Next]_vars PROVE Allowed
  <2> USE <1>1, ConstantsOK DEF IInv, TypeOK, RowsInv, DeletedInv, InFlight, Executing, Going,
          Terminal, RunsOf
  <2>1. ASSUME UNCHANGED <<status, runStatus>> PROVE Allowed
    BY <2>1 DEF RunsOf
  <2>2. ASSUME Restart PROVE Allowed
    BY <2>2 DEF Restart
  <2>3. ASSUME NEW r \in Runs, Mint(r) PROVE Allowed
    BY <2>3 DEF Mint
  <2>4. ASSUME NEW r \in Runs, StartRun(r) PROVE Allowed
    BY <2>4 DEF StartRun
  <2>5. ASSUME NEW r \in Runs, Complete(r) PROVE Allowed
    BY <2>5 DEF Complete
  <2>6. ASSUME NEW r \in Runs, Fail(r) PROVE Allowed
    BY <2>6 DEF Fail
  <2>7. ASSUME NEW o \in Ops, FinishStop(o) PROVE Allowed
    BY <2>7 DEF FinishStop
  <2>8. ASSUME NEW o \in Ops, FinishDelete(o) PROVE Allowed
    BY <2>8 DEF FinishDelete
  <2>9. ASSUME NEW a \in Agents, StartAgent(a) PROVE Allowed
    BY <2>9 DEF StartAgent
  <2>10. QED
    BY <2>1, <2>2, <2>3, <2>4, <2>5, <2>6, <2>7, <2>8, <2>9, Writers
<1>2. IInv /\ [Next]_vars => [Allowed]_vars
  BY <1>1
<1>3. Spec => [][Allowed]_vars
  BY <1>2, Invariance, PTL DEF Spec
<1>4. QED
  BY <1>3 DEF DeletedStaysDeleted

\* A stopped agent is woken by Start, or by the completion of a run that outlived the Stop.
THEOREM StopHolds == Spec => StoppedStays
<1> DEFINE Allowed ==
    \A a \in Agents : status[a] = "stopped" /\ status'[a] # "stopped" =>
      \/ status'[a] = "deleted"
      \/ StartAgent(a)
      \/ status'[a] = "ready" /\ outlived \cap RunsOf(a) # {}
<1>1. ASSUME IInv, [Next]_vars PROVE Allowed
  <2> USE <1>1, ConstantsOK DEF IInv, TypeOK, StoppedInv, InFlight, Executing, RunsOf
  <2>1. ASSUME UNCHANGED status PROVE Allowed
    BY <2>1 DEF TypeOK
  <2>2. ASSUME Restart PROVE Allowed
    BY <2>2 DEF Restart
  <2>3. ASSUME NEW r \in Runs, Mint(r) PROVE Allowed
    BY <2>3 DEF Mint
  <2>4. ASSUME NEW r \in Runs, Complete(r) PROVE Allowed
    BY <2>4 DEF Complete
  <2>5. ASSUME NEW r \in Runs, Fail(r) PROVE Allowed
    BY <2>5 DEF Fail
  <2>6. ASSUME NEW o \in Ops, FinishStop(o) PROVE Allowed
    BY <2>6 DEF FinishStop
  <2>7. ASSUME NEW o \in Ops, FinishDelete(o) PROVE Allowed
    BY <2>7 DEF FinishDelete
  <2>8. ASSUME NEW a \in Agents, StartAgent(a) PROVE Allowed
    BY <2>8 DEF StartAgent
  <2>9. QED
    BY <2>1, <2>2, <2>3, <2>4, <2>5, <2>6, <2>7, <2>8, Writers
<1>2. IInv /\ [Next]_vars => [Allowed]_vars
  BY <1>1
<1>3. Spec => [][Allowed]_vars
  BY <1>2, Invariance, PTL DEF Spec
<1>4. QED
  BY <1>3 DEF StoppedStays
================================================================================
