--------------------------------- MODULE Runner ---------------------------------
(***************************************************************************)
(* The two AgentRunners: CodexRunner spawns Codex as a child of the server, *)
(* ContainerCodexRunner spawns the engine's client, and the container works *)
(* under a name of its own.  A run is ended by itself, by its timeout, for  *)
(* its output or by cancel, and these race: what each sends to the process, *)
(* and which one is reported, is modelled here.  The steps are operators of *)
(* the agent; Runtime joins them with the steps of executeRun.              *)
(***************************************************************************)
EXTENDS FiniteSets

CONSTANTS Agents, Runs, None

VARIABLES
  provider,    \* config.runtimeProvider
  process,     \* the table of active entries: the run an agent's entry is for
  cancelled,   \* entries with the cancelled flag
  stops,       \* the entry's other flags: timedOut, outputExceeded
  child,       \* the entry's child process
  fate,        \* how the child ended: with an answer, silent, broken, or unspawned
  kill,        \* SIGTERM sent and the force-kill timer armed; SIGKILL sent
  rm,          \* the entry's termination promise
  late,        \* agents with the `rm` of a closed entry still under way
  work,        \* runs at work in the agent's workspace, as the machine sees it
  abandoned    \* the work among it that lost its entry without being ended

own == <<provider, stops, child, fate, kill, rm, late, work, abandoned>>

Init ==
  /\ provider \in {"local-process", "container"}
  /\ process = [a \in Agents |-> None] /\ cancelled = {}
  /\ stops = [a \in Agents |-> {}]
  /\ child = [a \in Agents |-> "none"]
  /\ fate = [a \in Agents |-> "answer"]
  /\ kill = [a \in Agents |-> "none"]
  /\ rm = [a \in Agents |-> "none"]
  /\ late = {}
  /\ work = [a \in Agents |-> {}]
  /\ abandoned = {}

TypeOK ==
  /\ provider \in {"local-process", "container"}
  /\ stops \in [Agents -> SUBSET {"timedOut", "outputExceeded"}]
  /\ child \in [Agents -> {"none", "launched", "running", "exited"}]
  /\ fate \in [Agents -> {"answer", "silent", "broken", "unspawned"}]
  /\ kill \in [Agents -> {"none", "armed", "fired"}]
  /\ rm \in [Agents -> {"none", "asked", "removed", "failed"}]
  /\ late \subseteq Agents
  /\ work \in [Agents -> SUBSET Runs]
  /\ abandoned \subseteq Runs

--------------------------------------------------------------------------------
(* Mutated forms. *)

\* The entry goes and its child stays.
DropKeepsChild(a) ==
  /\ process' = [process EXCEPT ![a] = None]
  /\ cancelled' = cancelled \ {a}
  /\ UNCHANGED <<stops, child, fate, kill, rm>>

\* The entry leaves the table with all it says of its child.
Drop(a) ==
  /\ process' = [process EXCEPT ![a] = None]
  /\ cancelled' = cancelled \ {a}
  /\ stops' = [stops EXCEPT ![a] = {}]
  /\ child' = [child EXCEPT ![a] = "none"]
  /\ fate' = [fate EXCEPT ![a] = "answer"]
  /\ kill' = [kill EXCEPT ![a] = "none"]
  /\ rm' = [rm EXCEPT ![a] = "none"]

\* The exit code is looked at before the flags.
VerdictOfExit(a) ==
  IF fate[a] \in {"unspawned", "broken", "silent"}
  THEN IF a \in cancelled THEN "cancelled" ELSE "failed"
  ELSE "completed"

\* Waiting for "exit" of the client, or for nothing: the entry is settled at once.
CloseEarly(a) ==
  /\ child[a] # "none"
  /\ child[a] = "exited" \/ kill[a] = "armed" \/ rm[a] # "none"
  /\ Drop(a)
  /\ UNCHANGED <<provider, late, work, abandoned>>

\* The name of the container is made unique.
BootAnyName(a) ==
  /\ child[a] = "launched"
  /\ child' = [child EXCEPT ![a] = "running"]
  /\ work' = [work EXCEPT ![a] = @ \cup {process[a]}]
  /\ UNCHANGED <<provider, process, cancelled, stops, fate, kill, rm, late, abandoned>>

\* No force-kill timer: a child that ignores SIGTERM is waited for.
TerminatePolitely(a) ==
  /\ kill' = kill
  /\ rm' = [rm EXCEPT ![a] = IF provider = "container" /\ @ = "none" THEN "asked" ELSE @]

--------------------------------------------------------------------------------
(* Ending a child *)

\* terminate: SIGTERM and one force-kill timer, unless the child has exited.
\* removeContainer: one `rm --force` for the life of the entry.
Terminate(a) ==
  IF provider = "container"
  THEN /\ rm' = [rm EXCEPT ![a] = IF @ = "none" THEN "asked" ELSE @]
       /\ UNCHANGED kill
  ELSE /\ kill' = [kill EXCEPT ![a] = IF @ = "none" /\ child[a] # "exited" THEN "armed" ELSE @]
       /\ UNCHANGED rm

Raise(a, flag) ==
  /\ child[a] # "none" /\ flag \notin stops[a]
  /\ stops' = [stops EXCEPT ![a] = @ \cup {flag}]
  /\ Terminate(a)
  /\ UNCHANGED <<provider, process, cancelled, child, fate, late, work, abandoned>>

\* CODEX_TIMEOUT_MS has passed; the child may have exited with its pipes still open.
TimesOut(a) == Raise(a, "timedOut")

\* More than CODEX_MAX_OUTPUT_BYTES have arrived.
Overflows(a) == child[a] \in {"running", "exited"} /\ Raise(a, "outputExceeded")

\* cancel up to its await.  Without an entry it returns false.
Cancel(a) ==
  IF process[a] = None
  THEN UNCHANGED <<own, process, cancelled>>
  ELSE /\ cancelled' = cancelled \cup {a}
       /\ Terminate(a)
       /\ UNCHANGED <<provider, process, stops, child, fate, late, work, abandoned>>

\* Three seconds after SIGTERM.
ForceKills(a) ==
  /\ child[a] # "none" /\ kill[a] = "armed"
  /\ kill' = [kill EXCEPT ![a] = "fired"]
  /\ UNCHANGED <<provider, process, cancelled, stops, child, fate, rm, late, work, abandoned>>

\* `rm --force` has ended whatever has the name, which may be nothing yet.
Removes(a) ==
  /\ child[a] # "none" /\ rm[a] = "asked"
  /\ rm' = [rm EXCEPT ![a] = "removed"]
  /\ work' = [work EXCEPT ![a] = {}]
  /\ abandoned' = abandoned \ work[a]
  /\ UNCHANGED <<provider, process, cancelled, stops, child, fate, kill, late>>

\* It found none, the engine refused, or eight seconds passed: the client is signalled.
RemoveFails(a) ==
  /\ child[a] # "none" /\ rm[a] = "asked"
  /\ rm' = [rm EXCEPT ![a] = "failed"]
  /\ kill' = [kill EXCEPT ![a] = "armed"]
  /\ UNCHANGED <<provider, process, cancelled, stops, child, fate, late, work, abandoned>>

--------------------------------------------------------------------------------
(* The life of a child *)

\* run, up to the promise of its end.
Run(a, r) ==
  /\ process[a] = None
  /\ process' = [process EXCEPT ![a] = r]
  /\ child' = [child EXCEPT ![a] = "launched"]
  /\ UNCHANGED <<provider, cancelled, stops, fate, kill, rm, late, work, abandoned>>

Exit(a, how) ==
  /\ child' = [child EXCEPT ![a] = "exited"]
  /\ fate' = [fate EXCEPT ![a] = how]
  /\ UNCHANGED <<provider, process, cancelled, stops, kill, rm, late>>

\* The "error" event.
SpawnFails(a) == child[a] = "launched" /\ Exit(a, "unspawned") /\ UNCHANGED <<work, abandoned>>

\* Codex begins to work; a container needs its name to be free.
Boot(a) ==
  /\ child[a] = "launched"
  /\ provider = "container" => work[a] = {}
  /\ child' = [child EXCEPT ![a] = "running"]
  /\ work' = [work EXCEPT ![a] = @ \cup {process[a]}]
  /\ UNCHANGED <<provider, process, cancelled, stops, fate, kill, rm, late, abandoned>>

NameTaken(a) ==
  /\ child[a] = "launched" /\ provider = "container" /\ work[a] # {}
  /\ Exit(a, "broken") /\ UNCHANGED <<work, abandoned>>

\* Codex ends, having said something or nothing: by itself, or on SIGTERM.
Exits(a) ==
  /\ child[a] = "running" /\ process[a] \in work[a]
  /\ \E how \in {"answer", "silent", "broken"} : Exit(a, how)
  /\ work' = [work EXCEPT ![a] = @ \ {process[a]}]
  /\ UNCHANGED abandoned

\* The client of a removed container ends.
SeesRemoval(a) ==
  /\ child[a] = "running" /\ process[a] \notin work[a]
  /\ Exit(a, "broken") /\ UNCHANGED <<work, abandoned>>

\* SIGKILL ends the child: Codex itself, or only the client of its container.
DiesOfKill(a) ==
  /\ child[a] \in {"launched", "running"} /\ kill[a] = "fired"
  /\ Exit(a, "broken")
  /\ IF provider = "container"
     THEN abandoned' = abandoned \cup (work[a] \cap {process[a]}) /\ UNCHANGED work
     ELSE work' = [work EXCEPT ![a] = @ \ {process[a]}] /\ UNCHANGED abandoned

\* What decides, in this order: a failed spawn, cancelled, timed out, too much
\* output, the exit code, nothing said.
Verdict(a) ==
  IF fate[a] = "unspawned" THEN "failed"
  ELSE IF a \in cancelled THEN "cancelled"
  ELSE IF stops[a] # {} \/ fate[a] # "answer" THEN "failed"
  ELSE "completed"

\* The "close" event, once every holder of the pipes is gone; the entry goes with it.
Close(a) ==
  /\ child[a] = "exited"
  /\ Drop(a)
  /\ late' = IF rm[a] = "asked" THEN late \cup {a} ELSE late
  /\ UNCHANGED <<provider, work, abandoned>>

\* An `rm` that outlived its entry finds nothing, or whatever has the name by now.
LateRemoves(a) ==
  /\ a \in late
  /\ late' = late \ {a}
  /\ UNCHANGED work \/ work' = [work EXCEPT ![a] = {}]
  /\ abandoned' = abandoned \cap UNION {work'[b] : b \in Agents}
  /\ UNCHANGED <<provider, process, cancelled, stops, child, fate, kill, rm>>

\* The server dies: its children and containers stay at work.
ServerDies ==
  /\ process' = [a \in Agents |-> None] /\ cancelled' = {}
  /\ stops' = [a \in Agents |-> {}]
  /\ child' = [a \in Agents |-> "none"]
  /\ fate' = [a \in Agents |-> "answer"]
  /\ kill' = [a \in Agents |-> "none"]
  /\ rm' = [a \in Agents |-> "none"]
  /\ late' = {}
  /\ abandoned' = abandoned \cup UNION {work[a] : a \in Agents}
  /\ UNCHANGED <<provider, work>>

AbandonedEnds(a) ==
  \E r \in work[a] \cap abandoned :
    /\ work' = [work EXCEPT ![a] = @ \ {r}]
    /\ abandoned' = abandoned \ {r}
    /\ UNCHANGED <<provider, process, cancelled, stops, child, fate, kill, rm, late>>

\* The entry's one removal came before its container: nobody will end it now.
Spent(a) == rm[a] = "removed" /\ (child[a] = "launched" \/ process[a] \in work[a])

--------------------------------------------------------------------------------

\* Timers fire and the machine carries out what it was told.
Enforced(a) ==
  \/ TimesOut(a) \/ ForceKills(a) \/ DiesOfKill(a)
  \/ Removes(a) \/ RemoveFails(a) \/ LateRemoves(a) \/ SeesRemoval(a)

\* What Codex, the machine and the past may do, or not.
Free(a) ==
  Overflows(a) \/ SpawnFails(a) \/ Boot(a) \/ NameTaken(a) \/ Exits(a) \/ AbandonedEnds(a)
================================================================================
