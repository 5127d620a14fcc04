----------------------------- MODULE RunLifecycle ------------------------------
(***************************************************************************)
(* How AgentService runs an agent: a message becomes a run with an identity *)
(* (a RunToken row), executeRun drives it through the runner, and Start,    *)
(* Stop, Delete, Kill and a restart of the server meet it anywhere on its   *)
(* way.  Each call of store.mutate is one step (JsonStore shows it may be), *)
(* and so is what runs between two awaits.                                  *)
(*                                                                          *)
(* Scopes, taints and cards are left to other modules; the runner is its    *)
(* table of active processes, and a process ends in whatever way it likes.  *)
(***************************************************************************)
EXTENDS Naturals

CONSTANTS Agents,        \* agent ids, never reused
          Runs,          \* calls of sendMessage, each with the run it would create
          AgentOf,       \* the agent each call is addressed to
          Ops,           \* calls of stopAgent and deleteAgent
          OpAgent,       \* the agent each of those is addressed to
          OpKind,        \* "stop" or "delete"
          None,          \* no run
          MaxFaults,     \* bound: store writes that fail
          MaxRestarts    \* bound: restarts of the server

ASSUME ConstantsOK ==
  /\ AgentOf \in [Runs -> Agents]
  /\ OpAgent \in [Ops -> Agents]
  /\ OpKind \in [Ops -> {"stop", "delete"}]
  /\ None \notin Runs
  /\ MaxFaults \in Nat /\ MaxRestarts \in Nat

VARIABLES
  \* the database
  status,        \* Agent.status, or "deleted" when there is no row
  runStatus,     \* AgentRun.status, or "none" when there is no row
  token,         \* the RunToken row: "live", or revoked by the run's end or by Kill
  \* the server's memory
  pc,            \* where each sendMessage/executeRun is
  ending,        \* how a run that did not complete will be recorded
  active,        \* activeExecutions
  process,       \* the runner's table: the run whose process an agent has
  cancelled,     \* agents whose process has been told to stop
  cancelling,    \* cancellationRequests
  opPc,          \* where each stopAgent/deleteAgent is
  opWait,        \* the run it waits for
  \* bounds and history
  faults, restarts,
  outlived       \* history: runs still going when their agent was marked stopped

database == <<status, runStatus, token>>
runner   == <<process, cancelled>>
ops      == <<opPc, opWait>>
bounds   == <<faults, restarts>>
vars == <<status, runStatus, token, pc, ending, active, process, cancelled,
          cancelling, opPc, opWait, faults, restarts, outlived>>

Going    == {"queued", "running"}
Terminal == {"completed", "failed", "cancelled"}

\* executeRun from its first line to the mutation that records the run's end.
Executing == {"starting", "checking", "launching", "inRunner", "completing", "failing"}
\* Everything between a minted token and the end of the call that closes it.
InFlight  == {"asking"} \cup Executing \cup {"closing", "closingFailed"}
PCs   == {"idle", "estimating", "refused", "done", "rejected", "lost"} \cup InFlight
OpPCs == {"idle", "cancelling", "awaiting", "finishing", "done", "failed", "lost"}

RunsOf(a) == {r \in Runs : AgentOf[r] = a}

Fault == faults < MaxFaults /\ faults' = faults + 1 /\ UNCHANGED restarts

Goto(r, where) == pc' = [pc EXCEPT ![r] = where]

Init ==
  /\ status = [a \in Agents |-> "ready"]
  /\ runStatus = [r \in Runs |-> "none"]
  /\ token = [r \in Runs |-> "none"]
  /\ pc = [r \in Runs |-> "idle"]
  /\ ending = [r \in Runs |-> "failed"]
  /\ active = [a \in Agents |-> None]
  /\ process = [a \in Agents |-> None]
  /\ cancelled = {}
  /\ cancelling = {}
  /\ opPc = [o \in Ops |-> "idle"]
  /\ opWait = [o \in Ops |-> None]
  /\ faults = 0 /\ restarts = 0
  /\ outlived = {}

--------------------------------------------------------------------------------
(* Mutated forms of actions below: the slips the properties must notice. *)

\* The guards read the agent as it was before the estimator was asked.
MintStale(r) ==
  /\ pc[r] = "estimating"
  /\ status' = [status EXCEPT ![AgentOf[r]] = "busy"]
  /\ runStatus' = [runStatus EXCEPT ![r] = "queued"]
  /\ token' = [token EXCEPT ![r] = "live"]
  /\ Goto(r, "asking")
  /\ UNCHANGED <<ending, active, runner, cancelling, ops, bounds, outlived>>

\* The busy guard is forgotten.
MintWhileBusy(r) ==
  /\ pc[r] = "estimating"
  /\ status[AgentOf[r]] \notin {"deleted", "stopped"}
  /\ status' = [status EXCEPT ![AgentOf[r]] = "busy"]
  /\ runStatus' = [runStatus EXCEPT ![r] = "queued"]
  /\ token' = [token EXCEPT ![r] = "live"]
  /\ Goto(r, "asking")
  /\ UNCHANGED <<ending, active, runner, cancelling, ops, bounds, outlived>>

\* The catch block takes a stopped agent for a broken one.
FailOverStop(r) ==
  /\ pc[r] = "failing"
  /\ runStatus' = [runStatus EXCEPT ![r] = IF @ = "none" THEN @ ELSE ending[r]]
  /\ status' = [status EXCEPT ![AgentOf[r]] =
                  IF @ = "deleted" THEN @
                  ELSE IF ending[r] = "cancelled" THEN "ready" ELSE "error"]
  /\ ending' = [ending EXCEPT ![r] = "failed"]
  /\ Goto(r, "closingFailed")
  /\ UNCHANGED <<token, active, runner, cancelling, ops, bounds, outlived>>

\* A cancelled run leaves its agent as it is: Stop will set the status.
FailCancelledQuietly(r) ==
  /\ pc[r] = "failing"
  /\ runStatus' = [runStatus EXCEPT ![r] = IF @ = "none" THEN @ ELSE ending[r]]
  /\ status' = [status EXCEPT ![AgentOf[r]] =
                  IF @ \in {"deleted", "stopped"} \/ ending[r] = "cancelled" THEN @
                  ELSE "error"]
  /\ ending' = [ending EXCEPT ![r] = "failed"]
  /\ Goto(r, "closingFailed")
  /\ UNCHANGED <<token, active, runner, cancelling, ops, bounds, outlived>>

\* The agent takes the run's status for its own.
FailWithRunStatus(r) ==
  /\ pc[r] = "failing"
  /\ runStatus' = [runStatus EXCEPT ![r] = IF @ = "none" THEN @ ELSE ending[r]]
  /\ status' = [status EXCEPT ![AgentOf[r]] =
                  IF @ \in {"deleted", "stopped"} THEN @ ELSE ending[r]]
  /\ ending' = [ending EXCEPT ![r] = "failed"]
  /\ Goto(r, "closingFailed")
  /\ UNCHANGED <<token, active, runner, cancelling, ops, bounds, outlived>>

\* Only a completed run closes its token.
CloseCompletedToken(r) ==
  /\ pc[r] \in {"closing", "closingFailed"}
  /\ token' = [token EXCEPT ![r] =
                 IF @ = "live" /\ runStatus[r] = "completed" THEN "closed" ELSE @]
  /\ pc' = [pc EXCEPT ![r] = "done"]
  /\ active' = [active EXCEPT ![AgentOf[r]] = IF @ = r THEN None ELSE @]
  /\ UNCHANGED <<status, runStatus, ending, runner, cancelling, ops, bounds, outlived>>

\* The run's end overwrites the time at which Kill revoked it.
CloseTokenAgain(r) ==
  /\ pc[r] \in {"closing", "closingFailed"}
  /\ token' = [token EXCEPT ![r] = "closed"]
  /\ pc' = [pc EXCEPT ![r] = "done"]
  /\ active' = [active EXCEPT ![AgentOf[r]] = IF @ = r THEN None ELSE @]
  /\ UNCHANGED <<status, runStatus, ending, runner, cancelling, ops, bounds, outlived>>

\* cancelExecution trusts runner.cancel and does not await the execution.
WithdrawAtOnce(o) ==
  /\ opPc[o] = "awaiting"
  /\ opPc' = [opPc EXCEPT ![o] = "finishing"]
  /\ cancelling' = cancelling \ {OpAgent[o]}
  /\ UNCHANGED <<database, pc, ending, active, runner, opWait, bounds, outlived>>

\* Stop writes the runs' end as well as the agent's.
FinishStopEndsRuns(o) ==
  LET a == OpAgent[o] IN
  /\ opPc[o] = "finishing" /\ OpKind[o] = "stop"
  /\ status' = [status EXCEPT ![a] = IF @ = "deleted" THEN @ ELSE "stopped"]
  /\ runStatus' = [r \in Runs |-> IF AgentOf[r] = a /\ runStatus[r] \in Going
                                  THEN "cancelled" ELSE runStatus[r]]
  /\ outlived' = outlived \cup {r \in RunsOf(a) : pc[r] \in InFlight}
  /\ opPc' = [opPc EXCEPT ![o] = "done"]
  /\ opWait' = [opWait EXCEPT ![o] = None]
  /\ UNCHANGED <<token, pc, ending, active, runner, cancelling, bounds>>

\* initialize ends the runs and forgets their agents.
RestartKeepsBusy ==
  /\ restarts < MaxRestarts
  /\ restarts' = restarts + 1
  /\ runStatus' = [r \in Runs |->
                     IF runStatus[r] \in Going THEN "cancelled" ELSE runStatus[r]]
  /\ pc' = [r \in Runs |->
              IF pc[r] \in InFlight \cup {"estimating", "rejected"} THEN "lost" ELSE pc[r]]
  /\ opPc' = [o \in Ops |->
                IF opPc[o] \in {"cancelling", "awaiting", "finishing"} THEN "lost" ELSE opPc[o]]
  /\ active' = [a \in Agents |-> None]
  /\ process' = [a \in Agents |-> None]
  /\ cancelled' = {} /\ cancelling' = {}
  /\ ending' = [r \in Runs |-> "failed"] /\ opWait' = [o \in Ops |-> None]
  /\ UNCHANGED <<status, token, faults, outlived>>

\* The wrong entry: a finished execution removes whatever is registered.
SettleAny(r, where) ==
  /\ Goto(r, where)
  /\ active' = [active EXCEPT ![AgentOf[r]] = None]

--------------------------------------------------------------------------------
(* sendMessage *)

\* The request arrives and awaits the scope estimator.
Send(r) ==
  /\ pc[r] = "idle"
  /\ Goto(r, "estimating")
  /\ UNCHANGED <<database, ending, active, runner, cancelling, ops, bounds, outlived>>

\* One mutation writes the run and its token and marks the agent busy.
Mint(r) ==
  /\ pc[r] = "estimating"
  /\ status[AgentOf[r]] \notin {"deleted", "stopped", "busy"}
  /\ status' = [status EXCEPT ![AgentOf[r]] = "busy"]
  /\ runStatus' = [runStatus EXCEPT ![r] = "queued"]
  /\ token' = [token EXCEPT ![r] = "live"]
  /\ Goto(r, "asking")
  /\ UNCHANGED <<ending, active, runner, cancelling, ops, bounds, outlived>>

\* 404 or 409.
Refuse(r) ==
  /\ pc[r] = "estimating"
  /\ status[AgentOf[r]] \in {"deleted", "stopped", "busy"}
  /\ Goto(r, "refused")
  /\ UNCHANGED <<database, ending, active, runner, cancelling, ops, bounds, outlived>>

\* The cards for missing scopes are written; executeRun begins and is registered.
Spawn(r) ==
  /\ pc[r] = "asking"
  /\ active' = [active EXCEPT ![AgentOf[r]] = r]
  /\ Goto(r, "starting")
  /\ UNCHANGED <<database, ending, runner, cancelling, ops, bounds, outlived>>

\* Writing a card fails: sendMessage rejects and nobody executes the run.
AskingFails(r) ==
  /\ pc[r] = "asking"
  /\ Fault
  /\ Goto(r, "rejected")
  /\ UNCHANGED <<database, ending, active, runner, cancelling, ops, outlived>>

--------------------------------------------------------------------------------
(* executeRun *)

\* The promise settles; its entry in activeExecutions goes, if it is still its own.
Settle(r, where) ==
  /\ Goto(r, where)
  /\ active' = [active EXCEPT ![AgentOf[r]] = IF @ = r THEN None ELSE @]

\* Into the catch block.
Throw(r, how) ==
  /\ Goto(r, "failing")
  /\ ending' = [ending EXCEPT ![r] = how]

StartRun(r) ==
  /\ pc[r] = "starting"
  /\ runStatus' = [runStatus EXCEPT ![r] = IF @ = "none" THEN @ ELSE "running"]
  /\ Goto(r, "checking")
  /\ UNCHANGED <<status, token, ending, active, runner, cancelling, ops, bounds, outlived>>

\* This mutation stands outside the try: nothing records the failure.
StartRunFails(r) ==
  /\ pc[r] = "starting"
  /\ Fault
  /\ Settle(r, "rejected")
  /\ UNCHANGED <<database, ending, runner, cancelling, ops, outlived>>

CheckCancelled(r) ==
  /\ pc[r] = "checking"
  /\ IF AgentOf[r] \in cancelling
     THEN Throw(r, "cancelled")
     ELSE Goto(r, "launching") /\ UNCHANGED ending
  /\ UNCHANGED <<database, active, runner, cancelling, ops, bounds, outlived>>

\* The token is signed; the runner takes the run unless it has one of this agent.
Launch(r) ==
  /\ pc[r] = "launching"
  /\ process[AgentOf[r]] = None
  /\ process' = [process EXCEPT ![AgentOf[r]] = r]
  /\ Goto(r, "inRunner")
  /\ UNCHANGED <<database, ending, active, cancelled, cancelling, ops, bounds, outlived>>

LaunchRefused(r) ==
  /\ pc[r] = "launching"
  /\ process[AgentOf[r]] # None
  /\ Throw(r, "failed")
  /\ UNCHANGED <<database, active, runner, cancelling, ops, bounds, outlived>>

\* The process ends: by itself, by the timeout, for its output, or cancelled.  A
\* cancelled one never completes; an "error" event fails it whatever was asked.
ProcessEnds(r) ==
  /\ pc[r] = "inRunner"
  /\ process' = [process EXCEPT ![AgentOf[r]] = None]
  /\ cancelled' = cancelled \ {AgentOf[r]}
  /\ \/ Throw(r, "failed")
     \/ AgentOf[r] \in cancelled /\ Throw(r, "cancelled")
     \/ AgentOf[r] \notin cancelled /\ Goto(r, "completing") /\ UNCHANGED ending
  /\ UNCHANGED <<database, active, cancelling, ops, bounds, outlived>>

\* The screened answer is stored, if run and agent still have rows.
Complete(r) ==
  /\ pc[r] = "completing"
  /\ IF runStatus[r] = "none" \/ status[AgentOf[r]] = "deleted"
     THEN UNCHANGED <<status, runStatus>>
     ELSE /\ runStatus' = [runStatus EXCEPT ![r] = "completed"]
          /\ status' = [status EXCEPT ![AgentOf[r]] = "ready"]
  /\ Goto(r, "closing")
  /\ UNCHANGED <<token, ending, active, runner, cancelling, ops, bounds, outlived>>

\* The catch block: the run's end is recorded and a stopped agent stays stopped.
Fail(r) ==
  /\ pc[r] = "failing"
  /\ runStatus' = [runStatus EXCEPT ![r] = IF @ = "none" THEN @ ELSE ending[r]]
  /\ status' = [status EXCEPT ![AgentOf[r]] =
                  IF @ \in {"deleted", "stopped"} THEN @
                  ELSE IF ending[r] = "cancelled" THEN "ready" ELSE "error"]
  /\ ending' = [ending EXCEPT ![r] = "failed"]
  /\ Goto(r, "closingFailed")
  /\ UNCHANGED <<token, active, runner, cancelling, ops, bounds, outlived>>

\* closeRunToken: a token Kill has revoked keeps Kill's timestamp.
CloseToken(r) ==
  /\ pc[r] \in {"closing", "closingFailed"}
  /\ token' = [token EXCEPT ![r] = IF @ = "live" THEN "closed" ELSE @]
  /\ Settle(r, "done")
  /\ UNCHANGED <<status, runStatus, ending, runner, cancelling, ops, bounds, outlived>>

\* A write fails inside the try: the catch block records a failed run.
CompletionFails(r) ==
  /\ pc[r] \in {"completing", "closing"}
  /\ Fault
  /\ Throw(r, "failed")
  /\ UNCHANGED <<database, active, runner, cancelling, ops, outlived>>

\* A write fails inside the catch block: executeRun rejects.
FailureFails(r) ==
  /\ pc[r] \in {"failing", "closingFailed"}
  /\ Fault
  /\ Settle(r, "rejected")
  /\ UNCHANGED <<database, ending, runner, cancelling, ops, outlived>>

--------------------------------------------------------------------------------
(* startAgent, killAgent *)

StartAgent(a) ==
  /\ status[a] \notin {"deleted", "busy"}
  /\ status' = [status EXCEPT ![a] = "ready"]
  /\ UNCHANGED <<runStatus, token, pc, ending, active, runner, cancelling, ops, bounds,
                 outlived>>

KillAgent(a) ==
  /\ status[a] # "deleted"
  /\ token' = [r \in Runs |-> IF AgentOf[r] = a /\ token[r] = "live"
                              THEN "killed" ELSE token[r]]
  /\ UNCHANGED <<status, runStatus, pc, ending, active, runner, cancelling, ops, bounds,
                 outlived>>

--------------------------------------------------------------------------------
(* stopAgent, deleteAgent *)

\* cancelExecution up to its first await: the process, if any, is told to stop.
Cancel(o) ==
  LET a == OpAgent[o] IN
  /\ opPc[o] = "idle"
  /\ status[a] # "deleted"
  /\ cancelling' = cancelling \cup {a}
  /\ cancelled' = IF process[a] = None THEN cancelled ELSE cancelled \cup {a}
  /\ opPc' = [opPc EXCEPT ![o] = "cancelling"]
  /\ opWait' = [opWait EXCEPT ![o] = process[a]]
  /\ UNCHANGED <<database, pc, ending, active, process, bounds, outlived>>

\* runner.cancel returns when that process has closed; then the execution is read.
AwaitExecution(o) ==
  /\ opPc[o] = "cancelling"
  /\ opWait[o] # None => pc[opWait[o]] # "inRunner"
  /\ opPc' = [opPc EXCEPT ![o] = "awaiting"]
  /\ opWait' = [opWait EXCEPT ![o] = active[OpAgent[o]]]
  /\ UNCHANGED <<database, pc, ending, active, runner, cancelling, bounds, outlived>>

\* The execution has settled; the finally block withdraws the request.
Withdraw(o) ==
  /\ opPc[o] = "awaiting"
  /\ opWait[o] # None => pc[opWait[o]] \in {"done", "rejected"}
  /\ opPc' = [opPc EXCEPT ![o] =
                IF opWait[o] # None /\ pc[opWait[o]] = "rejected"
                THEN "failed" ELSE "finishing"]
  /\ cancelling' = cancelling \ {OpAgent[o]}
  /\ UNCHANGED <<database, pc, ending, active, runner, opWait, bounds, outlived>>

\* setStatus("stopped"), or 404 when the agent is gone.
FinishStop(o) ==
  LET a == OpAgent[o] IN
  /\ opPc[o] = "finishing" /\ OpKind[o] = "stop"
  /\ status' = [status EXCEPT ![a] = IF @ = "deleted" THEN @ ELSE "stopped"]
  /\ outlived' = outlived \cup {r \in RunsOf(a) : pc[r] \in InFlight}
  /\ opPc' = [opPc EXCEPT ![o] = "done"]
  /\ opWait' = [opWait EXCEPT ![o] = None]
  /\ UNCHANGED <<runStatus, token, pc, ending, active, runner, cancelling, bounds>>

\* The agent, its messages and its runs lose their rows; its tokens do not.
FinishDelete(o) ==
  LET a == OpAgent[o] IN
  /\ opPc[o] = "finishing" /\ OpKind[o] = "delete"
  /\ status' = [status EXCEPT ![a] = "deleted"]
  /\ runStatus' = [r \in Runs |-> IF AgentOf[r] = a THEN "none" ELSE runStatus[r]]
  /\ opPc' = [opPc EXCEPT ![o] = "done"]
  /\ opWait' = [opWait EXCEPT ![o] = None]
  /\ UNCHANGED <<token, pc, ending, active, runner, cancelling, bounds, outlived>>

FinishFails(o) ==
  /\ opPc[o] = "finishing"
  /\ Fault
  /\ opPc' = [opPc EXCEPT ![o] = "failed"]
  /\ opWait' = [opWait EXCEPT ![o] = None]
  /\ UNCHANGED <<database, pc, ending, active, runner, cancelling, outlived>>

--------------------------------------------------------------------------------
(* The server dies and comes back: initialize ends what the rows say is going. *)

Restart ==
  /\ restarts < MaxRestarts
  /\ restarts' = restarts + 1
  /\ runStatus' = [r \in Runs |->
                     IF runStatus[r] \in Going THEN "cancelled" ELSE runStatus[r]]
  /\ status' = [a \in Agents |-> IF status[a] = "busy" THEN "ready" ELSE status[a]]
  /\ pc' = [r \in Runs |->
              IF pc[r] \in InFlight \cup {"estimating", "rejected"} THEN "lost" ELSE pc[r]]
  /\ opPc' = [o \in Ops |->
                IF opPc[o] \in {"cancelling", "awaiting", "finishing"} THEN "lost" ELSE opPc[o]]
  /\ active' = [a \in Agents |-> None]
  /\ process' = [a \in Agents |-> None]
  /\ cancelled' = {} /\ cancelling' = {}
  /\ ending' = [r \in Runs |-> "failed"] /\ opWait' = [o \in Ops |-> None]
  /\ UNCHANGED <<token, faults, outlived>>

--------------------------------------------------------------------------------

RunStep(r) ==
  \/ Mint(r) \/ Refuse(r) \/ Spawn(r) \/ AskingFails(r)
  \/ StartRun(r) \/ StartRunFails(r) \/ CheckCancelled(r)
  \/ Launch(r) \/ LaunchRefused(r) \/ ProcessEnds(r)
  \/ Complete(r) \/ Fail(r) \/ CloseToken(r)
  \/ CompletionFails(r) \/ FailureFails(r)

OpStep(o) ==
  AwaitExecution(o) \/ Withdraw(o) \/ FinishStop(o) \/ FinishDelete(o) \/ FinishFails(o)

Next ==
  \/ \E r \in Runs : Send(r) \/ RunStep(r)
  \/ \E o \in Ops : Cancel(o) \/ OpStep(o)
  \/ \E a \in Agents : StartAgent(a) \/ KillAgent(a)
  \/ Restart

\* The estimator has a timeout, the runner kills a process at CODEX_TIMEOUT_MS
\* and 3 s after SIGTERM, and the store answers: no await stays open for ever.
Fairness ==
  /\ \A r \in Runs : WF_vars(RunStep(r))
  /\ \A o \in Ops : WF_vars(OpStep(o))

Spec == Init /\ [][Next]_vars /\ Fairness

--------------------------------------------------------------------------------
(* Properties *)

\* Every variable has its type.
TypeOK ==
  /\ status \in [Agents -> {"ready", "busy", "stopped", "error", "deleted"}]
  /\ runStatus \in [Runs -> {"none"} \cup Going \cup Terminal]
  /\ token \in [Runs -> {"none", "live", "closed", "killed"}]
  /\ pc \in [Runs -> PCs]
  /\ ending \in [Runs -> {"failed", "cancelled"}]
  /\ active \in [Agents -> Runs \cup {None}]
  /\ process \in [Agents -> Runs \cup {None}]
  /\ cancelled \subseteq Agents /\ cancelling \subseteq Agents
  /\ opPc \in [Ops -> OpPCs]
  /\ opWait \in [Ops -> Runs \cup {None}]
  /\ faults \in 0..MaxFaults /\ restarts \in 0..MaxRestarts
  /\ outlived \subseteq Runs

\* A run's identity dies with the run: a live token belongs to a call still on
\* its way, or to one the failure of a write or the death of the server cut
\* short.  Those two leave it live until it expires.
LiveTokenHasRun ==
  \A r \in Runs : token[r] = "live" => pc[r] \in InFlight \cup {"rejected", "lost"}

\* An agent is busy only while a run of it is on its way to the mutation that
\* ends it: nothing but a failed write leaves an agent busy for ever.
BusyHasRun ==
  \A a \in Agents : status[a] = "busy" =>
    \E r \in RunsOf(a) : pc[r] \in {"asking", "rejected"} \cup Executing

\* activeExecutions holds no settled execution, and as long as every write
\* succeeds and no run has outlived a Stop, a run that executes is the one it
\* holds: the end of an older run does not take a newer one's entry, and Stop
\* finds what it has to wait for.
StopFindsTheRun ==
  \A a \in Agents :
    /\ active[a] # None => pc[active[a]] \in InFlight \ {"asking"}
    /\ faults = 0 /\ outlived \cap RunsOf(a) = {} =>
         \A r \in RunsOf(a) : pc[r] \in Executing => active[a] = r

\* As long as every write succeeds and no run has outlived a Stop, an agent has
\* one active run: the busy flag, not activeExecutions, is what excludes.
OneRunUnlessOutlived ==
  \A a \in Agents :
    faults = 0 /\ outlived \cap RunsOf(a) = {} =>
      \A r, q \in RunsOf(a) : runStatus[r] \in Going /\ runStatus[q] \in Going => r = q

\* When cancelExecution has awaited an execution, Stop and Delete go on to
\* their own mutation with that run ended, its token revoked and its process gone.
StopSeesRunOut ==
  \A o \in Ops : opPc[o] = "finishing" /\ opWait[o] # None =>
    LET r == opWait[o] IN
    /\ runStatus[r] \notin Going
    /\ token[r] # "live"
    /\ process[AgentOf[r]] # r

\* A revoked token is never live again and never revoked twice: the moment at
\* which Kill or the run's end revoked it is the evidence.
RevokedStaysRevoked ==
  [][\A r \in Runs : token[r] \in {"closed", "killed"} => token'[r] = token[r]]_vars

\* A run's end is written once.  The exception is a completed run whose token
\* could not be closed: the catch block then calls it failed.
TerminalIsFinal ==
  [][\A r \in Runs : runStatus[r] \in Terminal =>
       \/ runStatus'[r] \in {runStatus[r], "none"}
       \/ runStatus[r] = "completed" /\ runStatus'[r] = "failed" /\ faults > 0]_vars

\* Work that outlives a Delete writes nothing back: the agent stays deleted
\* and none of its runs has a row again.
DeletedStaysDeleted ==
  [][\A a \in Agents : status[a] = "deleted" =>
       status'[a] = "deleted" /\ \A r \in RunsOf(a) : runStatus'[r] = "none"]_vars

\* A stopped agent stays stopped until somebody starts or deletes it, whatever
\* its runs do; only a run that outlived the Stop, and completes, makes it ready.
StoppedStays ==
  [][\A a \in Agents : status[a] = "stopped" /\ status'[a] # "stopped" =>
       \/ status'[a] = "deleted"
       \/ StartAgent(a)
       \/ status'[a] = "ready" /\ outlived \cap RunsOf(a) # {}]_vars

\* docs/ARCHITECTURE.md:32-33, "One Agent can have only one active Run."
OneActiveRun ==
  \A r, q \in Runs :
    AgentOf[r] = AgentOf[q] /\ runStatus[r] \in Going /\ runStatus[q] \in Going => r = q

\* agent-service.ts:992, "A run's identity dies with the run.  Without this a
\* cancelled or failed run leaves a usable token behind until its expiry."
EndedRunHasNoToken ==
  \A r \in Runs :
    runStatus[r] \in Terminal /\ pc[r] \notin InFlight => token[r] # "live"
================================================================================
