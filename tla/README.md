# Agent Launchpad in TLA+

Models, model checks and proofs of the control plane of Agent Launchpad
(`src/apps/server`) and of the page it serves (`src/apps/web`): a single Node
process that keeps agents, their runs and the identities of those runs in one JSON
file, starts a Codex process per message, and stands as a gateway between that
process and everything it wants to reach; and a browser page that polls it.

## The system

| Part | State it keeps | Operations | Talks to |
|---|---|---|---|
| JSON store (`store.ts`) | one document in memory, `launchpad.json`, its `.tmp`, a promise chain | `initialize`, `snapshot`, `mutate`, `persist` | everybody calls `mutate` and reads `snapshot` |
| Run lifecycle (`agent-service.ts`) | rows: agents, runs, messages, run tokens. Memory: `activeExecutions`, `cancellationRequests` | `sendMessage`, `executeRun`, `startAgent`, `stopAgent`, `deleteAgent`, `killAgent`, `initialize` | the store, the runner, the scope estimator, cards |
| Runner (`codex-runner.ts`, `container-codex-runner.ts`) | the active processes, one per agent | `run`, `cancel`, timeout, output limit, force-kill | the Codex process |
| Tool gateway (`gateway.ts`) | nothing of its own; a context per request | five tools, each: scope, grant, taint, egress, effect, audit row, card | store, `ifc.ts`, Postgres, a webhook |
| Information flow (`ifc.ts`, `classify.ts`) | taints on run tokens, a fingerprint cache | `addTaint`, `checkEgress`, `checkIntegrity`, `screenOutput` | store |
| Grants (`grants.ts`) | policy grants | create, revoke, find a live one | store; a revocation rewrites taints |
| Approvals (`approvals.ts`) | cards | create on deny, decide | tokens, agents, grants |
| Audit (`audit.ts`, `redact.ts`) | the newest 5000 rows | append | store |
| Model proxy, HTTP API, identities (`llm-proxy.ts`, `app.ts`, `auth.ts`) | none | a check of the token row or of the owner per request | store |
| CRM (`db.ts`) | Postgres rows under row-level security | `withOwner` | gateway |
| Seed (`seed.ts`) | the same file, from another process | rewrite the demo data | store |
| Web client (`App.tsx`) | polled copies of the above | polls and commands, with guards against stale answers | HTTP API |

What makes it hard is not parallel threads, there are none: it is what happens
between two `await`s. A `mutate` is atomic, but most operations are several of
them with a process, a file, a language model or another request in between; the
process may die anywhere; a write may fail; and a human revokes, kills, stops and
answers cards while all of it goes on. `PROJECT.json` lists these hazards line by
line, with the property that watches each.

What must hold, per part:

* store: readers see durable data; an acknowledged change survives; a rejected one
  leaves nothing; an unreadable file is not overwritten; the queue never stalls;
* lifecycle: an identity dies with its run; one active run per agent; Stop and
  Delete mean it, whatever finishes later; a busy agent becomes free again;
* information flow: nothing a model has seen leaves without a human's licence for
  its source, across tools, runs, revocations and approvals;
* cards: an answer takes effect once, on what it was about; a kill is final;
* runners: a run ends by its timeout at the latest, is reported for what ended it, and
  leaves nothing at work;
* trail and screen: nothing is answered without its row, no row claims what did not
  happen, and of a secret the gateway handed out no key and no copied passage is printed;
* page: it shows the signed-in user's data only, does not go back in time, and keeps
  watching what it shows as running.

## The modules

### `AtomicStore`, `JsonStore`, `JsonStore_proofs`

`AtomicStore` is the promise: a queue of calls, applied one at a time or rejected,
and a crash that loses the queue, the oldest call of which may or may not have been
applied. `JsonStore` is `store.ts`. Its variables are `this.data` (`data`), the
promise chain (`queue`), the clone under mutation (`next`), the progress of
`persist` (`io`), the two files, and what every caller has been told (`outcome`).
The database is abstracted to the sequence of mutations it contains, which is all
the properties need to tell states apart. Actions: the branches of `initialize`
(file, no file, refused), a call of `mutate` joining the chain, its function
running or throwing, the write of the temporary file (two steps, so that a crash
tears it), the rename, the answer, the failure of a file operation, and a crash
anywhere.

* `JsonStore.cfg`: four calls, any number of crashes, all initial files. Two
  concurrent calls already show every ordering; four let two succeed and two fail,
  in any order, around a crash. Checks the safety properties, the refinement
  `RefinesAtomicStore` (also its initial states), and `EveryCallSettles`.
* Fairness: weak, on "the pending file operation or queued function goes on". Node
  runs every continuation, and a file operation ends. Nothing is assumed of calls,
  crashes and restarts.
* Proved for any set of mutations: `TypeCorrect`, `ReadersSeeDurableData`,
  `AcknowledgedStays`, `RejectedVanishes`, `UnreadableStays`, and
  `ImplementsAtomicStore`. The inductive invariant `IInv` adds to the types that no
  call waits twice (`QueueInv`), what clone, temporary file and file contain in each
  phase of `persist` (`PhaseInv`), and that the file holds nothing but acknowledged
  calls, calls in doubt after a crash, and the one between its rename and its answer
  (`FileInv`). Without `PhaseInv` an acknowledged call could be overwritten by an
  older clone.

### `RunLifecycle`, `MCRunLifecycle`, `RunLifecycle_proofs`

One step per stretch of code between two awaits of `sendMessage`, `executeRun`,
`stopAgent`, `deleteAgent`; one step each for `startAgent`, `killAgent` and the
recovery in `initialize`. `pc[r]` is where the call for run `r` is:
`estimating` (the estimator is awaited), `asking` (minted, writing cards, not yet in
`activeExecutions`), `starting`, `checking`, `launching`, `inRunner`, `completing`
or `failing`, `closing`, and the ends. `status`, `runStatus` and `token` are the
rows; `active`, `cancelling`, `process` and `cancelled` the in-memory tables. Any
mutation after the mint may fail (`MaxFaults`), and the server may restart
(`MaxRestarts`), which drops the memory and leaves the file. A mint that cannot be
written leaves nothing (`RejectedLeavesNoTrace` of the store) and is the same as a
call that never came.

* `RunLifecycle.cfg`: two messages, one Stop, one Delete, Start and Kill at any time,
  one failed write, one restart. Two messages are what overlapping takes, two
  operations what sharing one entry of `cancellationRequests` takes; the failed write
  and the restart can fall on any step.
* Liveness is checked in `Runtime`, where processes end for a reason.
* Divergences found. `OneActiveRun.cfg`: `docs/ARCHITECTURE.md:32` promises one active
  run; a Stop between the mint and the registration finds nothing to wait for, and
  after Start there are two. The variable `outlived` remembers such runs, and
  `OneRunUnlessOutlived`, `StopFindsTheRun` and `StoppedStays` say that nothing else
  breaks the promise. `EndedRunHasNoToken.cfg`: a restart cancels the interrupted run
  and leaves its token live. `LiveTokenHasRun` excepts such tokens and those whose closing
  could not be written, so for a restart it is this divergence, not that property, that speaks.
* Proved, for any number of agents, messages, operations, faults and restarts:
  `TypeCorrect`, `IdentityDiesWithRun`, `BusyIsHeld`, `BusyExcludes`, `StopFinds`,
  `StopSees`, `RevocationIsOnce`, `EndsAreFinal`, `DeletionIsFinal`, `StopHolds`.
  The inductive invariant ties the rows to `pc` (`RowsInv`), deleted and stopped agents
  to their runs (`DeletedInv`, `StoppedInv`), the tables to the runs they name
  (`TablesInv`), an operation past its wait to the end it saw (`WaitInv`), and says that
  without faults and outlived runs one run holds the busy flag and is the registered
  one (`HolderInv`): that last part is what excludes a second run, and none of the
  others implies it. Each part has a lemma with one step per action.

### `Runner`, `Runtime`, `MCRuntime`, `Runtime_proofs`

`Runner` is both classes behind `AgentRunner`, chosen by `provider`. Per agent: the entry
of the active table (`process`, the `cancelled` flag, `stops` for `timedOut` and
`outputExceeded`), the child and how it ended (`child`, `fate`), the force-kill timer
(`kill`), the entry's one `rm --force` (`rm`, and `late` when the entry closes before it
answers), and what the machine itself sees at work in the workspace (`work`, `abandoned`).
A container works under a name of its own, so the death of the engine's client does not
end it, a removal sent before it began removes nothing, and one a dead server left keeps
the name. `Runtime` joins these steps with those of `executeRun` and `cancelExecution`:
`Launch` with `Run`, `ProcessEnds` with `Close` and the runner's verdict, `Cancel` with
`Cancel`, `Restart` with the death of the server. So each behaviour of `Runtime` is one of
`RunLifecycle` whose processes end for a reason: `RuntimeIsALifecycle` proves the safety half
of that.

* `Runtime.cfg`: two messages, one Stop, Start at any time, one failed write, one restart,
  either runner. `killAgent` is left out: it touches tokens, which nothing here reads.
  Two runs are what a late removal, or a container left over, takes to meet a successor.
* `AnswerWasNotForced`: a process that answers SIGTERM with a last message and exit code
  0 does not complete its run. `WorkHasRun` and `StopSeesWorkGone`: nothing works in a
  workspace but the run the runner has for it, when Stop goes on that run is out of it.
  They except `abandoned`: work that lost its entry because the server died or the engine
  did not remove the container, about which the code can do nothing. The force-kill timer needs
  no such property: it holds its own child (`codex-runner.ts:384`), and what can go wrong with
  it, that it is not armed or lost, is what `StopReturns` notices.
* `BusyEnds` and `StopReturns`. Fairness is weak on every step of a call already made,
  that is, every await is answered (the estimator has a timeout, the store settles every
  call: `EveryCallSettles`), and on what the machine enforces (`Enforced`): timers fire,
  SIGKILL kills, `rm` answers within its own timeout, closed pipes are seen. Nothing is
  assumed of Codex, which may work for ever and ignore SIGTERM, of messages, Stops or
  restarts. Both except `Spent`: `removeContainer` memoises its promise
  (`container-codex-runner.ts:134`), so a removal sent before the container existed is
  never repeated, and neither the timeout nor Stop then ends that run.

### `Gateway`, `MCGateway`, `Gateway_proofs`

Information flow for one agent. Calls are slots that authenticate, act and return any
number of times. A reading call finds its grant, awaits the content, adds its taint,
writes its row, and answers, each a step; a sending call authenticates, passes
`egressGate` (its effect begins in the same step) or is denied with a declassify card,
and answers; any of them may fail on the way. A human creates, revokes and lets
expire grants and answers cards between any two steps. A content is its label's
identity; `memory` (history) is the set of labels whose content a Codex thread was
shown, and a sending call may carry all of it (`payload`).

* `OnlyLicensedFlows`: what is sent was licensed by a human for its source and class,
  or that destination was approved for that run. `OnlyBelievedActs`: the integrity
  half. `RevokedStopsFlow`: once a grant is revoked, its content passes the gate no
  more, carried or not. `ApprovalStaysWithItsRun`: `egressAllow` serves the run that
  was denied.
* `Gateway.cfg`: two runs, a read and a send that overlap; what is read is another agent's
  workspace under one grant, or the owner's own CRM under none or the standing grant that
  Always allow creates, one or the other in a behaviour (`OneSource`): with both there are
  more states than can be visited, and taints of different grants are checked one by one. What
  expires there is the grant over the workspace. Two runs are what carrying taints takes (a
  third adds only the reordering below); runs are interchangeable, so symmetry is used, and no
  liveness is checked with it. Classes other than `external` behave alike: a label permits a
  class or it does not.
* Divergences found. `TaintsFollowMemory.cfg`: with a slow estimator, runs are minted in
  another order than their messages arrived, and the next run takes its taints from the
  wrong one (`agent-service.ts:698` promises otherwise); `OnlyLicensedFlows` and
  `OnlyBelievedActs` are therefore stated for behaviours without such an overtaking.
  `RevokedTaintsAreEmpty.cfg`: a revocation between the lookup and the taint leaves a
  taint with its egress (`grants.ts:65`); `RevokedStopsFlow` excepts exactly those
  reads (`late`), and grants a human widens after their revocation.
* Assumed: the runs of the agent do not overlap (`RunLifecycle` says when they may),
  Codex resumes the thread it is given (another thread id in its output would replace
  the agent's), a human's answer is one step, scopes suffice. Copying through the
  agent's own workspace is outside the claim, as the code says at
  `agent-service.ts:707`.

### `Approvals`, `MCApprovals`, `Approvals_proofs`

Scopes and the cards that ask for them, for one agent. A message is estimated, its run
minted with the scopes the estimate leaves of what the agent holds, a card raised for
each one missing, and executed; a call without its scope is denied in three steps (the
token row is read, the audit row written, the card written); an answer is a check on a
snapshot, the widening, and the status with its row, three steps other answers and
`killAgent` come between. `killAgent` is one mutation and then the refusal of the cards a
snapshot showed, through the same steps; it stops at the first card decided meanwhile or
row not written. Expiry is one bit per run's window (`expired`); `seen` is what had
expired when a message took its timestamp. Cards are scarce and used once; calls that
hold their scope change nothing here and are left to `Gateway`.

* `NarrowingHolds`: a run whose task was estimated holds nothing but the estimate and what
  a human allowed. `AllowedRunMayRetry`: the run that asked can do what was allowed.
  `DenyChangesNothing`: a refused card widened nothing, unless it was answered twice at
  once or an earlier answer was cut short (`muddled`). `KillHolds`: after a kill neither
  the agent nor a later run holds a scope a human did not give it since; an answer already
  past its check when the kill came counts as given (`since`), for the code lets it widen.
* `Approvals.cfg`: two cards, a human and `killAgent`, with one run and two scopes, which is
  what narrowing takes, or two runs and one scope, which is what inheriting temporary scopes
  takes (`OneRunOrScope`); both doubled at once make more than ten million states. The windows
  that end are those of runs answered with a scope, for what a window's end changes is what
  the next run inherits; with one run there is no next. One kill at a time, and one in all
  (`MaxKills`): a second finds the state a first leaves. Everything but `killAgent` is
  interchangeable, and no temporal property is checked with the symmetry.
* Divergence found. `KillIsFinal.cfg`: a call denied before the kill writes its card after
  the snapshot of the pending ones, and "Always allow" on it undoes the kill, which
  `docs/API.md:60` says cannot happen.

### `Trail`, `MCTrail`, `Trail_proofs`

What is told and what is on record. A call of a run, to a tool or to the model, goes from
`gate` through its effect, its taint and its row to its answer, each an await that can
fail: `pc` is `gate`, `denying`, `tainting`, `auditing`, `refusing` or `failing`, and ends in
`allowed`, `denied`, `refused`, `failed` or `unanswered`. `acted` says whether the effect
took place, `missed` that the row of an answer was tried and could not be written. Whether
policy refuses a call is `Gateway`'s matter, and free here. The trail is a sequence with
its cap; `dropped` (history) is what the cap removed. A run ends with an output, any set of
`Parts`: a document is its words and, when a detector matches it, a key. `Screen` is
`screenOutput` over the fingerprints of what the run read (`index`); `heard` (history) is what
the gateway answered it before. The parts follow what `shingles` tells apart: a
`Passage`, six or more words in a row of a document as they stand; a `Scrap`, fewer words, or
reworded ones; the `Key`. A document of fewer than six words (`Short`) has no passage; its whole
text leaves one hash, if it has twelve characters, which only an output equal to it meets
(`alone`).

* `Trail.cfg`: one run, two calls, two failing writes, one restart, a trail of two rows,
  and a secret document of the agent's own, a short secret and a plain one of another agent:
  two reads are what "the highest level" takes, two failures what a failed row and the
  failure of the row about it take, and two rows plus that of the output overflow the trail.
  `Few` in `MCTrail` lets an output hold scraps of the short document only: a scrap changes no
  verdict, and the property asks nothing of it.
* `SecretsStayOut`: whatever calls are under way when the output comes, the chat gets no
  key, no six words in a row of a secret document the run was answered, and nothing when
  the output is a short secret (of twelve characters or more) and nothing else. It does not say
  that a secret document stays out: fewer than six words of one, or all of a short one among
  other words, match no window, so the output is redacted and not blocked, and the words beside
  the key (a `DB_PASSWORD` after an `ARK_` key, say) are stored in the chat. Words that reached
  the model otherwise (through its own shell, or in an earlier run of the conversation) leave no
  fingerprints, and only keys are scrubbed of them. `AnsweredIsOnRecord`: every answer of a tool
  or of the model, an error too, has its row, still there or dropped by the cap. Two answers of
  the proxy that have no row are no calls of this model: no valid token, so no run to name
  (`llm-proxy.ts:26`), and no key for the model (`llm-proxy.ts:55`), which
  `agent-service.ts:621` keeps out of the reach of ordinary runs.
  `RowsTellTheTruth`: "allow" was done, "deny" by
  policy was not, and a model on record as unavailable did not answer, unless the row of
  its answer could not be written (`missed`): the `catch` at `llm-proxy.ts:91` is meant for the
  network and takes that failure too. That row is false in the code, and the property says
  only that no other is.

### `HttpApi`, `WebClient`, `MCWebClient`, `WebClient_proofs`

`HttpApi` is what the page talks to: the open paths and the token gate of `auth.ts`, the
ownership gate and the routes of `app.ts`, each request served in one step, and the agents,
runs, trail rows and cards they touch. A token may expire at any time (`MayBeRefused`).
`WebClient` is `App.tsx`. `page` is the component's state; `polling` its
`pollingRunIds`; `net` the requests under way, and the 900 ms timers of `pollRun`. A
request remembers who asked, for which agent, filter, card or file, and whether its
session is still the current one (`live`, for `sessionVersionRef`) and no newer request for
the trail was made (`fresh`, for `eventRequestRef`). It is served or refused in any order,
its answer delivered in any order or lost, and the code that takes it applies the guards
of the source, no more: `refreshAgents` compares sessions, `refreshMessages` also the
selection, `refreshEvents` also the filter and the order, `api.runs` at a selection only
the selection. A handler, the render of what it set and the effects of that render are
one step: React runs them before the next network callback can. Actions of the human are
guarded by what is on screen and enabled.

* `OnlyOwnData`, `TrailMovesForward`, `DecidedStaysDecided`, `RunStaysWatched`: see their
  comments. The first has two exceptions, both things the code lets through (see below): the
  history of agents in `strayed`, which a late `createAgent` has selected, and the scopes of a
  run that the page held when the session began (`left`). `DecidedStaysDecided` speaks of every
  card the session was ever shown as decided (`seen`), and excepts those that a list rendered
  since lacked (`lost`): `refreshApprovals` merges a list with the one before it, so one read
  before the card was raised, arriving after the decision, makes the page forget it, and one
  read before the decision then offers the card again. The last excepts two steps, which do leave a run shown as running
  that nobody polls: a poll that is refused, and an answer of the selection that comes while
  an ended run is not yet forgotten (`App.tsx:1014`, `1391`). No liveness is claimed: the page
  asks again only while timers and the network go on, and may be closed.
* `WebClient.cfg`: two users, an agent of each and one more the first may create, two cards, one
  row per agent, sign-in, switch, sign-out, expiry, reload; an agent of the first may be deleted
  where runs are followed. Two agents are what a selection
  takes, a second user what sessions take, a card per agent what toasts take; the second
  user's run and trail are left empty, and no agent is deleted in a session that began with
  scopes left by another; where either is, one agent of the first user has runs; and both cards
  are there only with one of them pending and no late request of an earlier session. Each of
  these meets every request, one at a time. Every run polled has scopes withheld, for the page shows none
  otherwise (`App.tsx:2167`). The panels share session, agents and selection and
  nothing else, and a behaviour follows one (`panel`): an invariant of the page is one of
  each panel with those three. The human and the timers ask while two requests are under
  way (`MaxNet`), and answers may then add to them; `Few` bounds all to three, of which one
  of an earlier session, and loses answers where files are followed, whose panel is
  cheap. One late answer against the current ones is what every guard compares.

The modules hold, before their actions, mutated forms of some of them that the properties
must notice; they are no part of `Next`.

## What is proved and what is only checked

Every safety property that a passing run checks is a theorem, for every value of the
constants. What stays with TLC: liveness (`EveryCallSettles`, `BusyEnds`, `StopReturns`), for
the prover has neither `ENABLED` nor fairness, and the runs that show a divergence.

Each proof module states one inductive invariant (`IInv`, `RInv`), which TLC has checked on
the instance of the run, and proves that it holds initially and that each action keeps each
of its parts; the theorems follow. Assumptions are the named `ASSUME`s of the modules: the three
special file states are not databases; calls and messages are addressed to agents, cards and
owners are of theirs; `None` is no id; bounds are naturals; the trail keeps at least one
row; runs and calls, and agents and the reasons to list them, have different names;
`internal` is a class of egress, and the owner's own CRM is no grant. Symmetry, `OneSource`,
`OneRunOrScope`, `Few` and the other constraints of the runs are no assumption of any theorem.

The arguments of the store and the lifecycle are told with their modules. The others:

**Runtime.** `StepMaps` shows that each step is one of the lifecycle or leaves its variables
alone, so the lifecycle's invariant is inherited and not proved again. `WorkInv` ties what
works in a workspace to the child and to where its run stands; it has to say that a process
not yet started, or already exited, does no work, for otherwise a launch could find its
predecessor working and a `Close` could leave its own run behind. `KillInv` says that what was
told to end was told for a reason (`cancelled` or one of `stops`) that the verdict reads, from
which `AnswerIsFree` follows: an answer given under SIGTERM meets a reason.

**Gateway.** The properties speak of a send, and what they need is that the taints of a run
cover whatever its model remembers and a call may carry. That is `MemoryInv`, and it is true
of the run minted last, by arrival; the order of arrivals (`OrderInv`) and of the threads
(`RunInv`) are what makes the run whose taints are carried over that one. Two things had to be
added before the steps went through: that in order there is a last minted run at all, and that
an idle call carries nothing. `EgressInv` and `TrustInv` say that whatever a grant, a label on
its way or a taint permits was licensed, or vouched for, by a human. `RevokedInv` is the
strengthening for revocation: neither taints nor labels on their way permit anything of a
revoked grant, a read under way apart. `TaintsFollowInOrder` and `RevocationNarrows` are the
true halves of the two divergences.

**Approvals.** The three steps of an answer are what the properties must survive, so
`AnswerInv` says where each stands: what it is about to widen was given since the last kill,
what it has widened the run that asked holds. `OneAnswer` says that a card not `muddled` has
one decider and is pending while it has, without which a refusal could follow a widening.
`CardInv` and `AskInv` say that whoever asks has a token, and `GivenInv` that a temporary
scope is one of a card that widened.

**WebClient.** Every handler ends in a render, so the proof is of `Render`: a page that
`MaySet`, with requests that may be `AskedBy` it and what may stay under way, keeps the
invariant (`GoodStep`), and each handler is an instance. `NetInv` is the heart: a request that
was accepted is about its sender's agent and its answer lists the sender's, and a request that
is `live` has the page's user for its sender. So a guard that compares sessions is enough for
a list, and one that compares selections is enough for a panel, which belongs to the agent
selected (`PanelsOf`); where the code compares neither, `strayed` appears, and `left`
where it resets nothing. `ListsOf` also ties what a session was shown as decided to what is so
now (`seen \subseteq decided \cup lost`), which each list and each answer to a decision keeps
(`ListedMaySet`) and each new session begins afresh (`EndedMaySet`). `TrailInv` says
that one request for events is the newest and that the trail on screen is no newer than its
answer will be. `PollInv` says that each id in `pollingRunIds` has a timer or a request of
this session behind it; what newly shows a run as running is that poll, or code that adds the
id: hence `RunIsWatched`.

**Trail.** The invariant has four parts besides types. A call is
`Consistent`: what it has done is settled by where it stands, and an "unavailable" on its
way means no effect or a missed row. It is `OnRecord`: if answered, its row is among those
ever written (`Written`, the trail and what the cap took). `RowInv` is the part the
properties do not show: a row of a call exists only when the call is over, so nothing it
says can later become false. A run's `Screening` holds what was screened free of keys, of
passages of secrets heard and of short ones printed alone, and what is stored equal to it. `PrintInv` carries the order of
`fingerprint` and the audit row: a secret about to be answered, or answered, is among
the fingerprints, on which `ScreenCleans` rests. `RecordWrites` says the cap moves a row to
`dropped` and loses none; `CallMoves` and `RunMoves` are the step of one call and one run,
and each action is an instance. Every secret document leaves fingerprints because its
own key classifies it (`ClassifyIsLevel`), in whosever workspace it is.

## Seen while modelling, and not claimed by any document

* A switch of accounts while a decision is under way leaves `decidingApprovalId` set
  (`App.tsx:1224`, `1421`): every button to decide is disabled until the next sign-out.
* The comment at `App.tsx:910` says the first observation of cards only sets a baseline.
  The first one is the empty list the page starts with, so cards pending before the tab
  was opened are announced; `Toasts` has it as the code does.
* `bootstrap` opens the shell without comparing sessions (`App.tsx:874`, `1443`): a 401 that
  ends the session meanwhile leaves a shell with no user, whose lists stay empty.
* `createAgent` selects what it made without comparing sessions (`App.tsx:1106`), and
  `sendMessage` compares the selection only (`App.tsx:1404`). When both are answered after
  another user has signed in, the new session has an agent of the other user selected, which
  it does not list, and a message of it in `messages`. Once the user selects an agent of
  theirs, that message is on screen until the history asked for arrives, for the effect of
  the selection empties `messages` only when nothing is selected (`App.tsx:1000`). The proof
  of `OwnDataOnly` turned this up: it takes two late requests, one more than the bounds of
  `WebClient.cfg`. `page.strayed` remembers such agents.
* `pollRun` sets `activeRunScopes` (`App.tsx:1377`) and nothing resets it: neither
  `clearSession`, nor `loginAs`, nor the effect of the selection. The page shows it under
  whatever agent is selected (`App.tsx:2167`), with that agent's name (`2191`), so after a
  switch of account the next user reads what the run of the one before asked for, until a
  run of their own is polled. The comment at `App.tsx:570` means it to outlive the run, and
  nothing says it may outlive the selection or the session. `page.left` remembers whose it is.
  `loginAs` also leaves what was typed into the prompt and the form of a new agent
  (`App.tsx:1421`), which `clearSession` empties; text typed is not in the model.
* Whether a secret that is copied into the chat is withheld depends on six words
  (`ifc.ts:45`). `docs/DIAGRAMS.md:379` and the comment at `ifc.ts:125` speak of copied
  content without that limit; `Trail` has the limit.
* Answers for messages and for two files of one agent are taken in any order
  (`App.tsx:722`, `776`).
* Fingerprints are kept by run and threads by conversation (`ifc.ts:90`): what an earlier
  run read can be printed by a later one, keys apart.
* A removal of a container sent before it exists is never repeated, see `Spent`.

## Not modelled

The scope estimator and the grant parser (a language model behind one call), which texts
the patterns of a detector match and how rows are redacted, the signatures of tokens,
request schemas, creating and parsing grants over HTTP, Postgres and its row-level
security, path checks, the archive of a workspace, configuration, the migration of old
files, the seed process (nothing orders it with the server), and in the page the edit and
start of an agent, text typed and not sent, and layout. `PROJECT.json` gives the reason for each.

## Plan

Done, in this order: store (the atomicity everything else rests on), lifecycle, gateway,
approvals, runners, page, trail; and the safety properties of all of them proved. Next:

1. The answers to grant and declassify cards in their steps.
2. `migrateDatabase` and `assess` as pure operators against reference definitions.
3. The screen over a conversation: fingerprints of the runs before, with the theorem that
   then bounds what a later run can print.
4. An abstract specification of the gateway (a ledger of licences and sends) that `Gateway`
   implements in order.
