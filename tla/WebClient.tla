------------------------------- MODULE WebClient -------------------------------
(***************************************************************************)
(* The browser page: App.tsx, api.ts and approval-state.ts.                  *)
(*                                                                          *)
(* A handler sets state; React renders it and runs the effects whose inputs  *)
(* changed, which ask the server for more.  Answers arrive in any order, each *)
(* to code that remembers the session, the agent and the filter it asked for. *)
(* `net` holds the requests under way, the timers of pollRun among them.      *)
(*                                                                          *)
(* The panels of the page share the session, the list of agents and the      *)
(* selection, and nothing else.  A behaviour follows one of them.            *)
(***************************************************************************)
EXTENDS HttpApi

CONSTANTS Paths,           \* files of a workspace
          MaxNet,          \* bound: requests under way when the human or a timer asks for more
          MaxFailures      \* bound: answers lost

\* Why the agents were asked for, unless to select a new one.
Reasons == {"boot", "list", "last", "closing"}

ASSUME PageConstants == Agents \cap Reasons = {} /\ MaxNet \in Nat /\ MaxFailures \in Nat

VARIABLES panel, page, polling, net, failures
vars == <<server, panel, page, polling, net, failures>>

Panels == {"cards", "run", "events", "files"}
Filters == {"policy", "all"}

Follows(kind) ==
  \/ kind \in {"auth", "login", "system", "agents", "create", "delete"}
  \/ kind \in (CASE panel = "cards"  -> {"approvals", "decide", "command"}
                 [] panel = "run"    -> {"messages", "runs", "send", "stop", "wait", "run", "closing"}
                 [] panel = "events" -> {"events", "command"}
                 [] panel = "files"  -> {"grants", "files", "file"})

\* restoreStoredUser, and the state a page starts with.
Fresh(u) ==
  [auth |-> "unknown", busy |-> FALSE, user |-> u, agents |-> {}, selected |-> None,
   filter |-> "policy", messages |-> {}, run |-> None, events |-> None,
   approvals |-> {}, decided |-> {}, toasts |-> {}, deciding |-> FALSE,
   grants |-> None, files |-> None, openPath |-> None, openFile |-> None,
   scopes |-> None,      \* whose run the scopes on the page are of
   strayed |-> {},       \* history: agents of others this session has selected
   left |-> {},          \* history: whose scopes the page held when the session began
   seen |-> {},          \* history: cards this session has been shown as decided
   lost |-> {}]          \* history: those of them that a list rendered since then lacked

\* live: the session it was asked in goes on; fresh: no later request for events, nor reset.
Request(p, kind, a, arg) ==
  [kind |-> kind, by |-> p.user, agent |-> a, arg |-> arg, live |-> TRUE, fresh |-> TRUE,
   got |-> None]

Selected(p) == p.selected \in p.agents          \* the agent on screen
Pending(p)  == p.approvals \ p.decided

-----------------------------------------------------------------------------
(* Effects.                                                                   *)

Moved(p, q)      == p.selected # q.selected
Timeline(p)      == <<p.auth, p.user, p.filter, p.selected>>
Signed(p)        == p.auth = "open" /\ p.user # None

\* A card that became pending for an agent not selected is announced, while it is pending.
Toasts(p, q) ==
  LET arrivals == {c \in Pending(q) \ Pending(p) : About[c] # q.selected}
  IN (q.toasts \cup arrivals) \cap Pending(q)

\* The selection's effect empties the panels of the agent that was on screen.
Emptied(q) ==
  [q EXCEPT !.run = None, !.grants = None, !.files = None, !.openPath = None, !.openFile = None,
            !.messages = IF q.selected = None THEN {} ELSE @]

\* What the effects set after q is rendered over p.
Settled(p, q) ==
  [(IF Moved(p, q) THEN Emptied(q) ELSE q) EXCEPT
     !.events = IF Timeline(p) # Timeline(q) THEN None ELSE @,
     !.toasts = Toasts(p, q)]

\* What they ask for.
SelectionLoads(p, q) ==
  IF ~Moved(p, q) \/ q.selected = None THEN {}
  ELSE {Request(q, k, q.selected, None) : k \in {"grants", "files", "messages", "runs"}}

TimelineLoads(p, q) ==
  IF Timeline(p) # Timeline(q) /\ Signed(q) /\ q.selected # None
  THEN {Request(q, "events", q.selected, q.filter)} ELSE {}

ApprovalLoads(p, q) ==
  IF <<p.auth, p.user>> # <<q.auth, q.user>> /\ Signed(q)
  THEN {Request(q, "approvals", None, None)} ELSE {}

Loads(p, q) == SelectionLoads(p, q) \cup TimelineLoads(p, q) \cup ApprovalLoads(p, q)

\* q is rendered; `rest` is what stays under way, `asked` what the handler asks for; `same`:
\* the session goes on.
Render(q, rest, asked, same) ==
  LET new  == {r \in asked \cup Loads(page, q) : Follows(r.kind)}
      bump == Timeline(page) # Timeline(q) \/ \E r \in new : r.kind = "events"
  IN /\ page' = Settled(page, q)
     /\ net' = new \cup {[r EXCEPT !.live = @ /\ same, !.fresh = @ /\ same /\ ~bump] : r \in rest}

Commit(q, rest, asked)     == Render(q, rest, asked, TRUE)
\* Mutant: the ids being polled are not forgotten with the session.
NewSessionKeepsPolls(q, rest, asked) == Render(q, rest, asked, FALSE) /\ UNCHANGED polling

NewSession(q, rest, asked) == Render(q, rest, asked, FALSE) /\ polling' = {}

-----------------------------------------------------------------------------
(* Sessions.                                                                  *)

Init ==
  /\ ApiInit
  /\ panel \in Panels
  /\ \E u \in Users \cup {None} : page = Fresh(u) /\ net = {Request(page, "auth", None, None)}
  /\ polling = {} /\ failures = 0

\* What clearSession and loginAs both reset, and the histories of a session.  The files and
\* the toasts are left to the effects; the scopes of the last run polled stay.
Ended(p) ==
  [p EXCEPT !.agents = {}, !.selected = None, !.filter = "policy", !.messages = {}, !.run = None,
     !.events = None, !.approvals = {}, !.decided = {}, !.grants = None,
     !.strayed = {}, !.left = {p.scopes} \ {None}, !.seen = {}, !.lost = {}]

Cleared ==
  [Ended(page) EXCEPT !.auth = "required", !.busy = FALSE, !.user = None, !.deciding = FALSE]

ClearSession(rest) == NewSession(Cleared, rest, {})

\* bootstrap: the agents and the system, both awaited.
Bootstrap(p, why) == {Request(p, "agents", None, "boot"), Request(p, "system", None, why)}

Room == Cardinality(net) < MaxNet

Human == UNCHANGED <<server, panel, failures>>

\* On the login screen, or from the account menu to the other account.
ClickLogin ==
  /\ ~page.busy /\ Room
  /\ \E u \in Users :
       /\ page.auth = "required" \/ (Signed(page) /\ u # page.user)
       /\ Commit([page EXCEPT !.busy = TRUE], net, {Request(page, "login", None, u)})
  /\ Human /\ UNCHANGED polling

Logout == page.auth = "open" /\ ClearSession(net) /\ Human

\* The tab is reloaded: what was under way is forgotten, the stored user is not.
Reload ==
  /\ page' = Fresh(page.user) /\ net' = {Request(page, "auth", None, None)} /\ polling' = {}
  /\ Human

-----------------------------------------------------------------------------
(* What the human asks for.                                                   *)

Ask(p, requests) == Room /\ Commit(p, net, requests) /\ Human /\ UNCHANGED polling
Shell            == page.auth = "open"

Select ==
  /\ Shell
  /\ \E a \in page.agents \ {page.selected} : Ask([page EXCEPT !.selected = a], {})

SetFilter ==
  /\ Shell /\ panel = "events"
  /\ \E f \in Filters \ {page.filter} : Ask([page EXCEPT !.filter = f], {})

Create ==
  /\ Shell /\ ~page.busy
  /\ Ask([page EXCEPT !.busy = TRUE], {Request(page, "create", None, None)})

Delete ==
  /\ Shell /\ ~page.busy /\ Selected(page)
  /\ Ask([page EXCEPT !.busy = TRUE], {Request(page, "delete", page.selected, None)})

ShownRunning == page.run # None /\ page.run.n = 1

\* Enter sends, whatever else is under way.
Send ==
  /\ Shell /\ panel = "run" /\ Selected(page) /\ ~ShownRunning
  /\ Ask(page, {Request(page, "send", page.selected, None)})

Stop ==
  /\ Shell /\ Selected(page) /\ ~page.busy /\ ShownRunning
  /\ Ask([page EXCEPT !.busy = TRUE], {Request(page, "stop", page.selected, None)})

\* Kill and Revoke: what they do is in Gateway and Approvals.
Command ==
  /\ Shell /\ panel \in {"cards", "events"} /\ Selected(page)
  /\ Ask(page, {Request(page, "command", page.selected, None)})

Decide ==
  /\ Shell /\ ~page.deciding
  /\ \E c \in Pending(page) :
       Ask([page EXCEPT !.deciding = TRUE], {Request(page, "decide", None, c)})

Dismiss ==
  /\ Shell
  /\ \E c \in page.toasts : page' = [page EXCEPT !.toasts = @ \ {c}]
  /\ Human /\ UNCHANGED <<polling, net>>

OpenFile ==
  /\ Shell /\ Selected(page) /\ page.files = page.selected
  /\ \E p \in Paths : Ask([page EXCEPT !.openPath = p, !.openFile = None],
                          {Request(page, "file", page.selected, p)})

\* The two timers.
Poll(request) == Signed(page) /\ Follows(request.kind) /\ Ask(page, {request})

PollApprovals == Poll(Request(page, "approvals", None, None))
PollEvents    == page.selected # None /\ Poll(Request(page, "events", page.selected, page.filter))

-----------------------------------------------------------------------------
(* What the server does, and the network.                                     *)

Serve(q) ==
  /\ q.got = None /\ q.kind \notin {"wait", "closing"} /\ ~MustBeRefused(q)
  /\ Effect(q)
  /\ net' = (net \ {q}) \cup {[q EXCEPT !.got = Reply(q)]}
  /\ UNCHANGED <<panel, page, polling, failures>>

Refuse(q) ==
  /\ q.got = None /\ q.kind \notin {"wait", "closing"} /\ MayBeRefused(q)
  /\ net' = (net \ {q}) \cup {[q EXCEPT !.got = Answer(401)]}
  /\ UNCHANGED <<server, panel, page, polling, failures>>

\* The request or its answer is lost.
Lose(q) ==
  /\ failures < MaxFailures /\ q.kind \notin {"wait", "closing"}
  /\ failures' = failures + 1
  /\ net' = (net \ {q}) \cup {[q EXCEPT !.got = Answer(500)]}
  /\ UNCHANGED <<server, panel, page, polling>>

Elsewhere ==
  /\ \/ panel = "run" /\ \E a \in Agents : RunEnds(a)
     \/ panel = "events" /\ \E a \in Agents : CallDecided(a)
     \/ panel = "cards" /\ \E c \in Cards : CardRaised(c) \/ DecidedElsewhere(c)
  /\ UNCHANGED <<panel, page, polling, net, failures>>

-----------------------------------------------------------------------------
(* Answers.  Each of these is given what else is under way.                   *)

OnScreen(q) == page.selected = q.agent       \* selectedIdRef.current === agentId
Mine(q)     == q.live /\ OnScreen(q)

GotAuth(q, rest) ==
  /\ IF page.user # None THEN Commit(page, rest, Bootstrap(page, "start"))
                         ELSE Commit([page EXCEPT !.auth = "required"], rest, {})
  /\ UNCHANGED polling

\* loginAs, whoever is signed in by now.
GotLogin(q, rest) ==
  LET p == [Ended(page) EXCEPT !.user = q.arg]
  IN NewSession(p, rest, Bootstrap(p, "login"))

\* Mutant: refreshAgents does not compare sessions.
GotAgentsOfAnySession(q, rest) ==
  /\ Commit([page EXCEPT !.agents = q.got.of, !.busy = FALSE], rest, {})
  /\ UNCHANGED polling

\* refreshAgents; createAgent then selects what it made, whoever is signed in by now.
GotAgents(q, rest) ==
  \E first \in q.got.of \cup {None} :
    LET kept == IF page.selected \in q.got.of THEN page.selected ELSE first
        p    == IF q.live THEN [page EXCEPT !.agents = q.got.of, !.selected = kept] ELSE page
    IN /\ (first = None) = (q.got.of = {})
       /\ Commit(CASE q.arg \in Agents -> [p EXCEPT !.selected = q.arg, !.busy = FALSE,
                                     !.strayed = @ \cup {a \in {q.arg} : Owner[a] # p.user}]
                   [] q.arg = "last"   -> [p EXCEPT !.busy = FALSE]
                   [] OTHER            -> p, rest, {})
       /\ UNCHANGED polling

\* bootstrap is over when both have answered: the shell opens.
GotSystem(q, rest) ==
  /\ ~\E r \in rest : r.kind = "agents" /\ r.arg = "boot" /\ r.live = q.live
  /\ Commit([page EXCEPT !.auth = IF q.arg = "lost" THEN @ ELSE "open",
                         !.busy = IF q.arg = "login" THEN FALSE ELSE @], rest, {})
  /\ UNCHANGED polling

GotCreated(q, rest) ==
  Commit(page, rest, {Request(page, "agents", None, a) : a \in q.got.of}) /\ UNCHANGED polling

GotDeleted(q, rest) ==
  Commit(page, rest, {Request(page, "agents", None, "last")}) /\ UNCHANGED polling

GotMessages(q, rest) ==
  /\ Commit(IF Mine(q) THEN [page EXCEPT !.messages = {q.agent}] ELSE page, rest, {})
  /\ UNCHANGED polling

\* pollRun, unless the run is polled already.
PollRun(p, rest, a, why, asked) ==
  /\ Commit(p, rest, asked \cup IF a \in polling THEN {} ELSE {Request(p, "wait", a, why)})
  /\ polling' = polling \cup {a}

\* The selection's api.runs: no session is compared.
GotRuns(q, rest) ==
  LET p == [page EXCEPT !.run = IF q.got.n = 0 THEN None ELSE [agent |-> q.agent, n |-> q.got.n]]
  IN IF OnScreen(q) /\ q.got.n = 1 THEN PollRun(p, rest, q.agent, "select", {})
     ELSE Commit(IF OnScreen(q) THEN p ELSE page, rest, {}) /\ UNCHANGED polling

GotSent(q, rest) ==
  PollRun(IF OnScreen(q) THEN [page EXCEPT !.messages = @ \cup {q.agent},
                                           !.run = [agent |-> q.agent, n |-> 1]] ELSE page,
          rest, q.agent, "send", {})

GotStopped(q, rest) ==
  /\ Commit(IF page.run # None THEN [page EXCEPT !.run.n = 2] ELSE page, rest,
            {Request(page, "agents", None, "last"), Request(page, "messages", q.agent, None)})
  /\ polling' = {}

\* The 900 ms of pollRun are over.
Tick(q, rest) ==
  /\ q.kind = "wait"
  /\ IF q.live THEN Commit(page, rest, {Request(page, "run", q.agent, q.arg)}) /\ UNCHANGED polling
               ELSE Commit(page, rest, {}) /\ polling' = polling \ {q.agent}
  /\ Human

\* The run and its scopes; every run has some withheld, so that they show.
\* An ended run is forgotten only when the refreshes it asks for have answered.
GotRun(q, rest) ==
  LET p == IF Mine(q) THEN [page EXCEPT !.run = [agent |-> q.agent, n |-> q.got.n],
                                        !.scopes = q.agent] ELSE page
      closing == {Request(p, "messages", q.agent, "closing"), Request(p, "agents", None, "closing"),
                  Request(p, "closing", q.agent, None)}
  IN IF q.got.n = 2 THEN Commit(p, rest, closing) /\ UNCHANGED polling
     ELSE IF q.live THEN Commit(p, rest, {Request(p, "wait", q.agent, q.arg)}) /\ UNCHANGED polling
     ELSE Commit(p, rest, {}) /\ polling' = polling \ {q.agent}

Forget(q, rest) ==
  /\ q.kind = "closing" /\ ~\E r \in rest : r.arg = "closing"
  /\ Commit(page, rest, {}) /\ polling' = polling \ {q.agent}
  /\ Human

\* A list is rendered with those of it that are decided, and the histories keep up.
Listed(p, list, decided) ==
  [p EXCEPT !.approvals = list, !.decided = decided,
            !.seen = @ \cup decided, !.lost = (@ \cup (p.seen \ list)) \ decided]

\* Mutant: refreshApprovals takes each answer as it is.
GotApprovalsAsTheyAre(q, rest) ==
  /\ Commit(IF q.live THEN Listed(page, q.got.of, q.got.done) ELSE page, rest, {})
  /\ UNCHANGED polling

\* refreshApprovals: a card the page shows as decided is not pending again.
GotApprovals(q, rest) ==
  /\ Commit(IF q.live THEN Listed(page, q.got.of, (page.decided \cap q.got.of) \cup q.got.done)
            ELSE page, rest, {})
  /\ UNCHANGED polling

\* The buttons come back here before the refreshes have answered, in the code after.
GotDecided(q, rest) ==
  /\ IF q.live THEN Commit([Listed(page, page.approvals, page.decided \cup ({q.arg} \cap page.approvals))
                              EXCEPT !.deciding = FALSE],
                           rest, {Request(page, "agents", None, "list"), Request(page, "approvals", None, None)})
               ELSE Commit(page, rest, {})
  /\ UNCHANGED polling

GotCommand(q, rest) ==
  /\ Commit(page, rest, IF Mine(q) THEN {Request(page, "approvals", None, None),
                                         Request(page, "events", q.agent, page.filter)} ELSE {})
  /\ UNCHANGED polling

\* Mutant: refreshEvents does not compare request ids.
GotEventsInAnyOrder(q, rest) ==
  /\ Commit(IF Mine(q) /\ page.filter = q.arg
            THEN [page EXCEPT !.events = [agent |-> q.agent, filter |-> q.arg, rows |-> q.got.n]]
            ELSE page, rest, {})
  /\ UNCHANGED polling

\* refreshEvents: only the newest request may show.
GotEvents(q, rest) ==
  /\ Commit(IF Mine(q) /\ q.fresh /\ page.filter = q.arg
            THEN [page EXCEPT !.events = [agent |-> q.agent, filter |-> q.arg, rows |-> q.got.n]]
            ELSE page, rest, {})
  /\ UNCHANGED polling

GotGrants(q, rest) ==
  Commit(IF Mine(q) THEN [page EXCEPT !.grants = q.agent] ELSE page, rest, {}) /\ UNCHANGED polling

GotFiles(q, rest) ==
  Commit(IF Mine(q) THEN [page EXCEPT !.files = q.agent] ELSE page, rest, {}) /\ UNCHANGED polling

\* showFile compares the agent, not the path.
GotFile(q, rest) ==
  /\ Commit(IF Mine(q) THEN [page EXCEPT !.openFile = [agent |-> q.agent, path |-> q.arg]] ELSE page, rest, {})
  /\ UNCHANGED polling

Got(q, rest) ==
  \/ q.kind = "auth"      /\ GotAuth(q, rest)
  \/ q.kind = "login"     /\ GotLogin(q, rest)
  \/ q.kind = "agents"    /\ GotAgents(q, rest)
  \/ q.kind = "system"    /\ GotSystem(q, rest)
  \/ q.kind = "create"    /\ GotCreated(q, rest)
  \/ q.kind = "delete"    /\ GotDeleted(q, rest)
  \/ q.kind = "messages"  /\ GotMessages(q, rest)
  \/ q.kind = "runs"      /\ GotRuns(q, rest)
  \/ q.kind = "send"      /\ GotSent(q, rest)
  \/ q.kind = "stop"      /\ GotStopped(q, rest)
  \/ q.kind = "run"       /\ GotRun(q, rest)
  \/ q.kind = "approvals" /\ GotApprovals(q, rest)
  \/ q.kind = "decide"    /\ GotDecided(q, rest)
  \/ q.kind = "command"   /\ GotCommand(q, rest)
  \/ q.kind = "events"    /\ GotEvents(q, rest)
  \/ q.kind = "grants"    /\ GotGrants(q, rest)
  \/ q.kind = "files"     /\ GotFiles(q, rest)
  \/ q.kind = "file"      /\ GotFile(q, rest)

\* A 401 ends the session whose token it refuses: api.ts, then clearSession.
Ends(q) == q.got.code = 401 /\ q.by # None /\ q.live

Expires(q, rest) == Ends(q) /\ ClearSession(rest)

\* The catch and finally of each caller.
Fails(q, rest) ==
  /\ q.got.code # 200 /\ ~Ends(q)
  /\ LET sent == q.kind = "send" \/ (q.kind = "run" /\ q.arg = "send")
         last == \/ q.kind \in {"login", "create", "delete", "stop"}
                 \/ q.kind = "system" /\ q.arg = "login"
                 \/ q.kind = "agents" /\ (q.arg \in Agents \/ q.arg = "last")
                 \/ \E r \in rest : r.kind = "system" /\ r.arg = "login" /\ q.arg = "boot"
     IN /\ Commit([page EXCEPT !.busy = IF last THEN FALSE ELSE @, !.run = IF sent THEN None ELSE @,
                     !.deciding = IF q.kind = "decide" /\ q.live THEN FALSE ELSE @],
                  IF q.kind = "agents" /\ q.arg = "boot"
                  THEN {IF r.kind = "system" THEN [r EXCEPT !.arg = "lost"] ELSE r : r \in rest} ELSE rest,
                  IF sent THEN {Request(page, "agents", None, "list")} ELSE {})
        /\ polling' = IF q.kind = "run" THEN polling \ {q.agent} ELSE polling

Deliver(q) ==
  /\ q.got # None
  /\ \/ q.got.code = 200 /\ Got(q, net \ {q})
     \/ Expires(q, net \ {q})
     \/ Fails(q, net \ {q})
  /\ Human

-----------------------------------------------------------------------------
Next ==
  \/ ClickLogin \/ Logout \/ Reload \/ Select \/ SetFilter \/ Create \/ Delete \/ Send \/ Stop
  \/ Command \/ Decide \/ Dismiss \/ OpenFile \/ PollApprovals \/ PollEvents
  \/ Elsewhere
  \/ \E q \in net : Serve(q) \/ Refuse(q) \/ Lose(q) \/ Deliver(q)
                      \/ Tick(q, net \ {q}) \/ Forget(q, net \ {q})

Spec == Init /\ [][Next]_vars

-----------------------------------------------------------------------------
(* Properties.                                                                *)

Shown ==
  IF ~Shell THEN {}
  ELSE page.agents \cup {About[c] : c \in page.approvals \cup page.toasts}
       \cup IF ~Selected(page) THEN {}
            ELSE {x.agent : x \in {page.run, page.events, page.openFile} \ {None}}
                   \cup ({page.grants, page.files} \ {None})

\* Whose messages, and whose scopes of a run, the agent on screen is shown with.
History == IF Shell /\ Selected(page) THEN page.messages ELSE {}
Scopes  == IF Shell /\ Selected(page) THEN {page.scopes} \ {None} ELSE {}

\* Whatever of an earlier session arrives, and when: the page shows the signed-in user's
\* agents, history, run and its scopes, trail, cards, files and grants, and nothing when
\* nobody is signed in.  Two ways are left.  createAgent and then sendMessage, both answered
\* in a later session, select an agent of the earlier one and show its message, until the
\* history that the next selection asks for replaces it.  And the scopes that the page held
\* when the session began stay, whoever's run they are of, until a run polled replaces them.
OnlyOwnData ==
  \A a \in Shown \cup (History \ page.strayed) \cup (Scopes \ page.left) : Owner[a] = page.user

\* A poll answered late does not take the trail back to an earlier state.
TrailMovesForward ==
  [][page.events # None /\ page'.events # None
       /\ page.events.agent = page'.events.agent /\ page.events.filter = page'.events.filter
     => page.events.rows <= page'.events.rows]_vars

\* A card that this session was shown as decided is not offered for a decision again, in any
\* order of the lists, decisions and their refreshes; unless a list without it has been
\* rendered since (one read before the card was raised, and late), for the page compares a
\* list with the one before it only.
DecidedStaysDecided == Pending(page) \cap page.seen \subseteq page.lost

\* A run shown as running is being polled by this session, so that the page sees it end: no
\* reselection, Stop, or return to it after signing in again loses the poll.  Two steps may:
\* the poll is refused (pollRun gives up), or an old answer of the selection shows the run
\* as running while the poll that saw it end is not forgotten yet.
Watched ==
  ShownRunning => \E q \in net : /\ q.kind \in {"wait", "run", "closing"}
                                /\ q.agent = page.run.agent /\ q.live

RunStaysWatched ==
  [][\/ ~Watched \/ Watched'
     \/ \E q \in net \ net' : q.kind = "closing" \/ (q.kind = "run" /\ q.got # None /\ q.got.code # 200)]_vars
================================================================================
