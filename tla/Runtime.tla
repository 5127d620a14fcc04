-------------------------------- MODULE Runtime ---------------------------------
(***************************************************************************)
(* executeRun with the runner it calls: RunLifecycle, whose processes end   *)
(* in whatever way they like, joined step by step with Runner, whose        *)
(* processes end for a reason.                                              *)
(***************************************************************************)
EXTENDS RunLifecycle, FiniteSets

VARIABLES
  provider, stops, child, fate, kill, rm, late, work, abandoned   \* see Runner

R == INSTANCE Runner

own == <<provider, stops, child, fate, kill, rm, late, work, abandoned>>
rvars == <<vars, own>>

RInit == Init /\ R!Init

--------------------------------------------------------------------------------
(* Joint steps *)

RLaunch(r) == Launch(r) /\ R!Run(AgentOf[r], r)

\* The promise of run settles: executeRun goes on with the runner's verdict.
RProcessEnds(r) ==
  LET a == AgentOf[r] IN
  /\ process[a] = r
  /\ ProcessEnds(r) /\ R!Close(a)
  /\ CASE R!Verdict(a) = "completed" -> pc'[r] = "completing"
       [] R!Verdict(a) = "cancelled" -> ending'[r] = "cancelled" /\ pc'[r] = "failing"
       [] OTHER -> ending'[r] = "failed" /\ pc'[r] = "failing"

RCancel(o) == Cancel(o) /\ R!Cancel(OpAgent[o])

RRestart == Restart /\ R!ServerDies

\* Everything else executeRun and the operations do leaves the runner alone.
RRunStep(r) ==
  \/ /\ \/ Mint(r) \/ Refuse(r) \/ Spawn(r) \/ AskingFails(r)
        \/ StartRun(r) \/ StartRunFails(r) \/ CheckCancelled(r) \/ LaunchRefused(r)
        \/ Complete(r) \/ Fail(r) \/ CloseToken(r) \/ CompletionFails(r) \/ FailureFails(r)
     /\ UNCHANGED own
  \/ RLaunch(r) \/ RProcessEnds(r)

\* cancel of a container awaits the removal, then the end of the client.
ROpStep(o) ==
  /\ OpStep(o) /\ UNCHANGED own
  /\ opPc[o] = "cancelling" /\ opWait[o] # None => OpAgent[o] \notin late

Enforced(a) == R!Enforced(a) /\ UNCHANGED vars

Free(a) == R!Free(a) /\ UNCHANGED vars

\* KillAgent is left out: it revokes tokens, and nothing here reads them.
RNext ==
  \/ \E r \in Runs : (Send(r) /\ UNCHANGED own) \/ RRunStep(r)
  \/ \E o \in Ops : RCancel(o) \/ ROpStep(o)
  \/ \E a \in Agents : (StartAgent(a) /\ UNCHANGED own) \/ Enforced(a) \/ Free(a)
  \/ RRestart

\* Codex itself owes nothing: it may work for ever and ignore SIGTERM.  Timers
\* fire, SIGKILL kills, `rm` answers within its timeout and pipes close.
RFairness ==
  /\ \A r \in Runs : WF_rvars(RRunStep(r))
  /\ \A o \in Ops : WF_rvars(ROpStep(o))
  /\ \A a \in Agents : WF_rvars(Enforced(a))

RSpec == RInit /\ [][RNext]_rvars /\ RFairness

--------------------------------------------------------------------------------
(* Properties *)

\* Every variable has its type, and an agent has a child process exactly while
\* the runner's table has an entry for it.
RTypeOK ==
  /\ R!TypeOK
  /\ \A a \in Agents : child[a] # "none" <=> process[a] # None

\* An answer counts only if nobody told the process to end: one that answers
\* SIGTERM with a last message and exit code 0 does not complete its run.
AnswerWasNotForced ==
  [][\A r \in Runs : pc[r] = "inRunner" /\ pc'[r] = "completing" =>
       kill[AgentOf[r]] = "none" /\ rm[AgentOf[r]] = "none"]_rvars

\* Whatever works in a workspace belongs to the run the runner has for the agent,
\* unless the server died or the engine did not remove a container; and of
\* containers, named after the agent, there is one at a time even then.
WorkHasRun ==
  \A a \in Agents :
    /\ work[a] \subseteq {process[a]} \cup abandoned
    /\ provider = "container" => Cardinality(work[a]) <= 1

\* When Stop or Delete go on after their wait, the run they waited for has left
\* the workspace, unless the engine did not remove its container.
StopSeesWorkGone ==
  \A o \in Ops : opPc[o] = "finishing" /\ opWait[o] # None =>
    opWait[o] \notin work[OpAgent[o]] \ abandoned

\* CODEX_TIMEOUT_MS is a maximum: an agent does not stay busy, whatever Codex
\* does, unless its one `rm` came before its container had begun, or a write
\* failed where nothing records it,
BusyEnds ==
  \A a \in Agents : status[a] = "busy" ~>
    status[a] # "busy" \/ R!Spent(a) \/ \E r \in RunsOf(a) : pc[r] = "rejected"

\* and Stop and Delete return, whatever the run they wait for is doing.
StopReturns ==
  \A o \in Ops : opPc[o] = "cancelling" ~>
    opPc[o] \in {"done", "failed", "lost"} \/ R!Spent(OpAgent[o])
================================================================================
