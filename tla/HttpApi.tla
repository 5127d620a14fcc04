-------------------------------- MODULE HttpApi --------------------------------
(***************************************************************************)
(* What the browser talks to: the routes of app.ts behind the token gate of  *)
(* auth.ts and the ownership gate, over the parts of agent-service.ts and    *)
(* approvals.ts they reach, each a single step here.  How those steps        *)
(* interleave inside the server is in RunLifecycle, Approvals and JsonStore. *)
(***************************************************************************)
EXTENDS Naturals, FiniteSets

CONSTANTS Users,
          Agents,          \* agent ids, used once
          Owner,           \* the user who creates each
          AtFirst,         \* the agents there are when the page is opened
          Cards,           \* card ids, used once
          About,           \* the agent of each card
          None,            \* no user, agent, card, answer
          MaxRows          \* bound: rows in the trail of an agent

ASSUME ApiConstants ==
  /\ Owner \in [Agents -> Users] /\ AtFirst \subseteq Agents /\ About \in [Cards -> Agents]
  /\ None \notin Users \cup Agents \cup Cards
  /\ MaxRows \in Nat

VARIABLES
  life,            \* agents: "new", "made", "deleted"
  runs,            \* the run of each agent: 0 none, 1 queued or running, 2 over
  rows,            \* rows in the trail of each agent
  cards            \* cards: "none", "pending", "decided"

server == <<life, runs, rows, cards>>

ApiInit ==
  /\ life = [a \in Agents |-> IF a \in AtFirst THEN "made" ELSE "new"]
  /\ runs = [a \in Agents |-> 0]
  /\ rows = [a \in Agents |-> 0]
  /\ cards = [c \in Cards |-> "none"]

OfUser(u)  == {a \in Agents : life[a] = "made" /\ Owner[a] = u}
CardsOf(u) == {c \in Cards : cards[c] # "none" /\ Owner[About[c]] = u}

-----------------------------------------------------------------------------
(* A request names the user its token was signed for, and what it is about.   *)

OpenPaths == {"auth", "login"}

\* 401: no token, or (nothing here measures time) one whose 8 hours are over.
MayBeRefused(q) == q.kind \notin OpenPaths
MustBeRefused(q) == MayBeRefused(q) /\ q.by = None

\* The preHandler: what the request names exists and belongs to the caller.
OwnsAgent(q) == q.agent # None => q.agent \in OfUser(q.by)
OwnsCard(q)  == q.kind = "decide" => q.arg \in CardsOf(q.by)
Owned(q)     == OwnsAgent(q) /\ OwnsCard(q)

\* What the handler itself refuses.  Bound: an agent gets one run, a user the agents there are.
NewFor(u) == {a \in Agents : life[a] = "new" /\ Owner[a] = u}

Accepts(q) ==
  CASE q.kind = "send"   -> runs[q.agent] = 0
    [] q.kind = "decide" -> cards[q.arg] = "pending"
    [] q.kind = "create" -> NewFor(q.by) # {}
    [] OTHER             -> TRUE

Created(q) == CHOOSE a \in NewFor(q.by) : TRUE

Answer(code) == [code |-> code, n |-> 0, of |-> {}, done |-> {}]

\* What the handler answers, in the state it finds.
Reply(q) ==
  IF ~Owned(q) \/ ~Accepts(q) THEN Answer(400)
  ELSE [code |-> 200,
        n    |-> CASE q.kind \in {"runs", "run"} -> runs[q.agent]
                   [] q.kind = "events"          -> rows[q.agent]
                   [] OTHER                      -> 0,
        of   |-> CASE q.kind = "agents"    -> OfUser(q.by)
                   [] q.kind = "approvals" -> CardsOf(q.by)
                   [] q.kind = "create"    -> {Created(q)}
                   [] OTHER                -> {},
        done |-> IF q.kind = "approvals" THEN {c \in CardsOf(q.by) : cards[c] = "decided"} ELSE {}]

\* What an accepted request changes.
Over(a) == [runs EXCEPT ![a] = IF @ = 1 THEN 2 ELSE @]

Change(q) ==
  /\ life' = CASE q.kind = "create" -> [life EXCEPT ![Created(q)] = "made"]
               [] q.kind = "delete" -> [life EXCEPT ![q.agent] = "deleted"]
               [] OTHER             -> life
  /\ runs' = CASE q.kind = "send"               -> [runs EXCEPT ![q.agent] = 1]
               [] q.kind \in {"stop", "delete"} -> Over(q.agent)
               [] OTHER                         -> runs
  /\ cards' = IF q.kind = "decide" THEN [cards EXCEPT ![q.arg] = "decided"] ELSE cards
  /\ UNCHANGED rows

Effect(q) == IF Reply(q).code = 200 THEN Change(q) ELSE UNCHANGED server

-----------------------------------------------------------------------------
(* What happens without the browser.                                          *)

RunEnds(a) == runs[a] = 1 /\ runs' = Over(a) /\ UNCHANGED <<life, rows, cards>>

\* A call is decided and its row written.
CallDecided(a) ==
  /\ life[a] = "made" /\ rows[a] < MaxRows
  /\ rows' = [rows EXCEPT ![a] = @ + 1]
  /\ UNCHANGED <<life, runs, cards>>

\* A denied call raises a card; a human answers one in another tab.
CardRaised(c) ==
  /\ life[About[c]] = "made" /\ cards[c] = "none"
  /\ cards' = [cards EXCEPT ![c] = "pending"]
  /\ UNCHANGED <<life, runs, rows>>

DecidedElsewhere(c) ==
  /\ cards[c] = "pending"
  /\ cards' = [cards EXCEPT ![c] = "decided"]
  /\ UNCHANGED <<life, runs, rows>>
================================================================================
