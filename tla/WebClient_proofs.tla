---------------------------- MODULE WebClient_proofs ----------------------------
(***************************************************************************)
(* Proofs about WebClient, for any number of users, agents, cards, files,   *)
(* rows, requests under way and lost answers.                               *)
(***************************************************************************)
EXTENDS WebClient, TLAPS

Own(u)      == {a \in Agents : Owner[a] = u}
OwnCards(u) == {c \in Cards : Owner[About[c]] = u}

OfAgent == {"messages", "runs", "send", "stop", "wait", "run", "closing", "delete", "command",
            "events", "grants", "files", "file"}
Kinds   == OfAgent \cup {"auth", "login", "system", "agents", "create", "approvals", "decide"}
Args    == Agents \cup Users \cup Cards \cup Paths \cup Filters \cup
           {None, "boot", "start", "login", "lost", "last", "closing", "list", "select", "send"}

PageSet ==
  [auth : {"unknown", "required", "open"}, busy : BOOLEAN, user : Users \cup {None},
   agents : SUBSET Agents, selected : Agents \cup {None}, filter : Filters,
   messages : SUBSET Agents, run : {None} \cup [agent : Agents, n : Nat],
   events : {None} \cup [agent : Agents, filter : Filters, rows : Nat],
   approvals : SUBSET Cards, decided : SUBSET Cards, toasts : SUBSET Cards, deciding : BOOLEAN,
   grants : Agents \cup {None}, files : Agents \cup {None}, openPath : Paths \cup {None},
   openFile : {None} \cup [agent : Agents, path : Args], scopes : Agents \cup {None},
   strayed : SUBSET Agents, left : SUBSET Agents, seen : SUBSET Cards, lost : SUBSET Cards]

AnswerSet == [code : Nat, n : Nat, of : SUBSET (Agents \cup Cards), done : SUBSET Cards]
NetSet    == [kind : Kinds, by : Users \cup {None}, agent : Agents \cup {None}, arg : Args,
              live : BOOLEAN, fresh : BOOLEAN, got : {None} \cup AnswerSet]

\* What a page lists is its user's, but for what createAgent and sendMessage let in and for
\* the scopes it held before; a card it showed as decided is so, or was lost from the list.
ListsOf(p) ==
  /\ p.agents \subseteq Own(p.user)
  /\ p.approvals \subseteq OwnCards(p.user)
  /\ p.selected # None => p.selected \in Own(p.user) \cup p.strayed
  /\ p.messages \subseteq Own(p.user) \cup p.strayed
  /\ p.scopes # None => p.scopes \in Own(p.user) \cup p.left
  /\ p.seen \subseteq p.decided \cup p.lost

\* What of it most handlers leave alone.
SamePast(p, q) == p.scopes = q.scopes /\ p.left = q.left /\ p.seen = q.seen /\ p.lost = q.lost

\* Its panels are of the agent selected.
PanelsOf(p) ==
  /\ p.run # None => p.run.agent = p.selected
  /\ p.openFile # None => p.openFile.agent = p.selected
  /\ p.grants \in {None, p.selected} /\ p.files \in {None, p.selected}

TrailOf(p) == p.events # None => p.events.agent = p.selected /\ p.events.filter = p.filter

PageInv ==
  /\ page \in PageSet /\ ListsOf(page) /\ PanelsOf(page) /\ TrailOf(page)
  /\ page.toasts \subseteq page.approvals

\* What an accepted request is about belongs to its sender, and so does its answer.
AnswerOK(r) ==
  r.got # None /\ r.got.code = 200 =>
    /\ r.agent # None => r.agent \in Own(r.by)
    /\ r.kind \in {"agents", "create"} => r.got.of \subseteq Own(r.by)
    /\ r.kind = "approvals" => r.got.of \subseteq OwnCards(r.by)
    /\ r.kind = "events" => r.got.n <= rows[r.agent]

RequestOK(r) ==
  /\ r \in NetSet /\ Follows(r.kind)
  /\ r.kind \in OfAgent => r.agent \in Agents
  /\ r.kind = "login" => r.arg \in Users
  /\ r.kind \in {"wait", "closing"} => r.got = None
  /\ r.live => r.by = page.user

NetInv == \A r \in net : RequestOK(r) /\ AnswerOK(r)

ServerInv ==
  /\ rows \in [Agents -> Nat] /\ runs \in [Agents -> Nat] /\ polling \subseteq Agents
  /\ panel \in Panels

\* The trail on screen is no newer than the server's, nor than the answer to the newest request.
TrailInv ==
  /\ page.events # None => page.events.rows <= rows[page.events.agent]
  /\ \A r, s \in net : r.kind = "events" /\ r.fresh /\ s.kind = "events" /\ s.fresh => r = s
  /\ \A r \in net : r.kind = "events" /\ r.fresh /\ r.got # None /\ r.got.code = 200
                    /\ page.events # None /\ page.events.agent = r.agent
                    => page.events.rows <= r.got.n

\* A run in pollingRunIds has its poll, in this session.
Polls(r, a) == r.kind \in {"wait", "run", "closing"} /\ r.agent = a /\ r.live
PollInv == \A a \in polling : \E r \in net : Polls(r, a)

IInv == PageInv /\ NetInv /\ ServerInv /\ TrailInv /\ PollInv

--------------------------------------------------------------------------------
(* Rendering                                                                    *)

\* What a handler may ask for.
AskedBy(p, r) ==
  /\ r \in NetSet /\ r.by = p.user /\ r.live /\ r.fresh /\ r.got = None
  /\ r.kind \in OfAgent => r.agent \in Agents
  /\ r.kind = "login" => r.arg \in Users

\* What a handler may set, given what else is under way.
MaySet(q) ==
  /\ q \in PageSet /\ ListsOf(q)
  /\ Moved(page, q) \/ PanelsOf(q)
  /\ Timeline(page) # Timeline(q) \/ TrailOf(q)

NewestTrail(q, rest) ==
  q.events # None =>
    \/ q.events = page.events
    \/ \E d \in net \ rest : /\ d.kind = "events" /\ d.fresh /\ d.got # None /\ d.got.code = 200
                             /\ q.events.agent = d.agent /\ q.events.rows = d.got.n

MayAsk(q, asked) ==
  /\ \A r \in asked : AskedBy(q, r)
  /\ \A r, s \in asked : r.kind = "events" /\ s.kind = "events" => r = s
  /\ \A r \in asked : r.kind = "events" => Timeline(page) = Timeline(q)

\* What stays under way is what was, but that bootstrap may have lost its agents.
MayStay(rest) ==
  \A r \in rest : \E s \in net : r = s \/ (s.kind = "system" /\ r = [s EXCEPT !.arg = "lost"])

Good(q, rest, asked, same) ==
  /\ MaySet(q) /\ NewestTrail(q, rest) /\ MayAsk(q, asked) /\ MayStay(rest)
  /\ same \in BOOLEAN /\ (same => q.user = page.user)

LEMMA RequestIsAsked ==
  ASSUME NEW p, p.user \in Users \cup {None}, NEW k \in Kinds, NEW a \in Agents \cup {None},
         NEW x \in Args, k \in OfAgent => a \in Agents, k = "login" => x \in Users
  PROVE  AskedBy(p, Request(p, k, a, x)) /\ Request(p, k, a, x).kind = k
         /\ Request(p, k, a, x).agent = a
  BY DEF AskedBy, Request, NetSet

LEMMA LoadsAreAsked ==
  ASSUME NEW q \in PageSet
  PROVE  /\ \A r \in Loads(page, q) : AskedBy(q, r)
         /\ \A r, s \in Loads(page, q) : r.kind = "events" /\ s.kind = "events" => r = s
         /\ \A r \in Loads(page, q) : r.kind = "events" => Timeline(page) # Timeline(q)
  <1>1. ASSUME NEW r \in SelectionLoads(page, q) PROVE AskedBy(q, r) /\ r.kind # "events"
    <2>1. q.selected \in Agents BY <1>1 DEF SelectionLoads, PageSet
    <2>2. PICK k \in {"grants", "files", "messages", "runs"} : r = Request(q, k, q.selected, None)
      BY <1>1 DEF SelectionLoads
    <2>3. q.user \in Users \cup {None} /\ k \in Kinds /\ k # "login" /\ None \in Args
      BY <2>2 DEF PageSet, Kinds, OfAgent, Args
    <2> QED BY <2>1, <2>2, <2>3, RequestIsAsked
  <1>2. ASSUME NEW r \in TimelineLoads(page, q)
        PROVE  /\ AskedBy(q, r) /\ r = Request(q, "events", q.selected, q.filter)
               /\ Timeline(page) # Timeline(q)
    <2>1. r = Request(q, "events", q.selected, q.filter) /\ q.selected # None
          /\ Timeline(page) # Timeline(q)
      BY <1>2 DEF TimelineLoads
    <2>2. /\ q.user \in Users \cup {None} /\ q.selected \in Agents /\ "events" \in Kinds
          /\ q.filter \in Args
      BY <2>1 DEF PageSet, Kinds, OfAgent, Args
    <2> QED BY <2>1, <2>2, RequestIsAsked
  <1>3. ASSUME NEW r \in ApprovalLoads(page, q) PROVE AskedBy(q, r) /\ r.kind # "events"
    <2>1. r = Request(q, "approvals", None, None) BY <1>3 DEF ApprovalLoads
    <2>2. /\ q.user \in Users \cup {None} /\ "approvals" \in Kinds /\ "approvals" \notin OfAgent
          /\ None \in Args
      BY DEF PageSet, Kinds, OfAgent, Args
    <2> QED BY <2>1, <2>2, RequestIsAsked
  <1> QED BY <1>1, <1>2, <1>3 DEF Loads

LEMMA EmptiedIsPage ==
  ASSUME NEW q \in PageSet, NEW m \in SUBSET Agents
  PROVE  [q EXCEPT !.run = None, !.grants = None, !.files = None, !.openPath = None,
                   !.openFile = None, !.messages = m] \in PageSet
  BY DEF PageSet

LEMMA ToastedIsPage ==
  ASSUME NEW e \in PageSet, NEW t \in SUBSET Cards, NEW v \in {None, e.events}
  PROVE  [e EXCEPT !.events = v, !.toasts = t] \in PageSet
  BY ZenonT(40) DEF PageSet

\* What is rendered is a page that keeps the invariant.
LEMMA SettledIsOK ==
  ASSUME NEW q, page \in PageSet, MaySet(q)
  PROVE  LET p == Settled(page, q)
         IN /\ p \in PageSet /\ ListsOf(p) /\ PanelsOf(p) /\ TrailOf(p) /\ p.toasts \subseteq p.approvals
            /\ p.user = q.user /\ p.events \in {None, q.events}
            /\ p.approvals = q.approvals /\ p.decided = q.decided /\ p.selected = q.selected
            /\ p.run = IF Moved(page, q) THEN None ELSE q.run
  <1> DEFINE e == IF Moved(page, q) THEN Emptied(q) ELSE q
             p == Settled(page, q)
             v == IF Timeline(page) # Timeline(q) THEN None ELSE e.events
  <1>1. q \in PageSet /\ ListsOf(q) BY DEF MaySet
  <1>2. e \in PageSet
    <2> DEFINE m == IF q.selected = None THEN {} ELSE q.messages
    <2>1. m \in SUBSET Agents BY <1>1 DEF PageSet
    <2>2. Emptied(q) = [q EXCEPT !.run = None, !.grants = None, !.files = None, !.openPath = None,
                                 !.openFile = None, !.messages = m]
      BY DEF Emptied
    <2> QED BY <1>1, <2>1, <2>2, EmptiedIsPage, ZenonT(40)
  <1>3. /\ e.user = q.user /\ e.agents = q.agents /\ e.selected = q.selected /\ e.filter = q.filter
        /\ e.approvals = q.approvals /\ e.decided = q.decided /\ e.events = q.events
        /\ e.strayed = q.strayed /\ SamePast(e, q) /\ e.messages \subseteq q.messages
        /\ e.run = IF Moved(page, q) THEN None ELSE q.run
    BY <1>1 DEF Emptied, PageSet, SamePast
  <1>4. PanelsOf(e) BY <1>1 DEF MaySet, Emptied, PanelsOf, PageSet
  <1>5. Toasts(page, q) \subseteq q.approvals /\ q.approvals \subseteq Cards
    BY <1>1 DEF Toasts, Pending, PageSet
  <1>6. /\ p = [e EXCEPT !.events = v, !.toasts = Toasts(page, q)]
        /\ v \in {None, q.events}
    BY <1>3 DEF Settled
  <1> HIDE DEF e, v
  <1>7. p \in PageSet
    <2>1. Toasts(page, q) \in SUBSET Cards BY <1>5
    <2>2. v \in {None, e.events} BY <1>3, <1>6
    <2>3. [e EXCEPT !.events = v, !.toasts = Toasts(page, q)] \in PageSet
      BY <1>2, <2>1, <2>2, ToastedIsPage
    <2> QED BY <1>6, <2>3
  <1>7a. /\ p.toasts = Toasts(page, q)
        /\ p.events = v
        /\ p.user = e.user /\ p.agents = e.agents /\ p.selected = e.selected /\ p.filter = e.filter
        /\ p.approvals = e.approvals /\ p.decided = e.decided /\ p.strayed = e.strayed
        /\ p.messages = e.messages /\ p.run = e.run /\ p.openFile = e.openFile
        /\ p.grants = e.grants /\ p.files = e.files /\ SamePast(p, e)
    BY <1>2, <1>6 DEF PageSet, SamePast
  <1> HIDE DEF p
  <1>8. ListsOf(p) BY <1>1, <1>3, <1>7a DEF ListsOf, SamePast
  <1>9. PanelsOf(p)
    <2>1. e.selected = p.selected BY <1>7a
    <2> QED BY <1>4, <1>7a, <2>1 DEF PanelsOf
  <1>10. TrailOf(p) BY <1>3, <1>7a DEF TrailOf, MaySet, v
  <1> QED BY <1>3, <1>5, <1>6, <1>7, <1>7a, <1>8, <1>9, <1>10 DEF p

LEMMA FollowsStays == ASSUME panel' = panel, NEW k PROVE Follows(k)' = Follows(k)
  BY DEF Follows

LEMMA RenderedPage ==
  ASSUME page \in PageSet, NEW q, NEW rest, NEW asked, NEW same, MaySet(q), Render(q, rest, asked, same)
  PROVE  /\ PageInv'
         /\ page'.user = q.user /\ page'.events \in {None, q.events}
         /\ page'.approvals = q.approvals /\ page'.decided = q.decided
         /\ page'.selected = q.selected
         /\ page'.run = IF Moved(page, q) THEN None ELSE q.run
  <1>1. page' = Settled(page, q) BY DEF Render
  <1> QED BY <1>1, SettledIsOK DEF PageInv

\* What is under way after a render: what was asked, and what stayed.
New(q, asked)        == {r \in asked \cup Loads(page, q) : Follows(r.kind)}
Bump(q, asked)       == Timeline(page) # Timeline(q) \/ \E r \in New(q, asked) : r.kind = "events"
Kept(s, same, bump)  == [s EXCEPT !.live = @ /\ same, !.fresh = @ /\ same /\ ~bump]

LEMMA RenderedNet ==
  ASSUME NEW q, NEW rest, NEW asked, NEW same, Render(q, rest, asked, same)
  PROVE  net' = New(q, asked) \cup {Kept(s, same, Bump(q, asked)) : s \in rest}
  BY DEF Render, New, Bump, Kept

LEMMA KeptFields ==
  ASSUME NEW s \in NetSet, NEW same \in BOOLEAN, NEW bump \in BOOLEAN
  PROVE  LET r == Kept(s, same, bump)
         IN /\ r \in NetSet /\ r.kind = s.kind /\ r.by = s.by /\ r.agent = s.agent /\ r.arg = s.arg
            /\ r.got = s.got /\ (r.live <=> s.live /\ same) /\ (r.fresh <=> s.fresh /\ same /\ ~bump)
  BY DEF Kept, NetSet

\* What stays under way is as good as it was.
LEMMA RestIsOK ==
  ASSUME NetInv, NEW rest, MayStay(rest), NEW s \in rest
  PROVE  /\ RequestOK(s) /\ AnswerOK(s)
         /\ s.kind = "system" \/ s \in net
  <1>1. CASE s \in net BY <1>1 DEF NetInv
  <1>2. CASE \E z \in net : z.kind = "system" /\ s = [z EXCEPT !.arg = "lost"]
    <2>1. PICK z \in net : z.kind = "system" /\ s = [z EXCEPT !.arg = "lost"] BY <1>2
    <2>2. RequestOK(z) /\ AnswerOK(z) BY DEF NetInv
    <2>3. s \in NetSet /\ s.kind = z.kind /\ s.by = z.by /\ s.agent = z.agent /\ s.got = z.got
          /\ s.live = z.live
      BY <2>1, <2>2 DEF RequestOK, NetSet, Args
    <2> QED BY <2>1, <2>2, <2>3 DEF RequestOK, AnswerOK, OfAgent
  <1> QED BY <1>1, <1>2 DEF MayStay

LEMMA NewIsAsked ==
  ASSUME NEW q, NEW asked, MaySet(q), MayAsk(q, asked)
  PROVE  /\ \A r \in New(q, asked) : AskedBy(q, r)
         /\ \A r, s \in New(q, asked) : r.kind = "events" /\ s.kind = "events" => r = s
  BY LoadsAreAsked DEF New, MaySet, MayAsk

LEMMA RenderNetInv ==
  ASSUME IInv, NEW q, NEW rest, NEW asked, NEW same, Good(q, rest, asked, same),
         Render(q, rest, asked, same), UNCHANGED <<server, panel>>
  PROVE  NetInv'
  <1> SUFFICES ASSUME NEW r \in net' PROVE RequestOK(r)' /\ AnswerOK(r)' BY DEF NetInv
  <1>0. page'.user = q.user BY RenderedPage DEF IInv, PageInv, Good
  <1>1. CASE r \in New(q, asked)
    <2>1. AskedBy(q, r) BY <1>1, NewIsAsked DEF Good
    <2>2. Follows(r.kind)' BY <1>1, FollowsStays DEF New
    <2> QED BY <1>0, <2>1, <2>2 DEF RequestOK, AnswerOK, AskedBy
  <1>2. ASSUME NEW s \in rest, r = Kept(s, same, Bump(q, asked)) PROVE RequestOK(r)' /\ AnswerOK(r)'
    <2>1. RequestOK(s) /\ AnswerOK(s) BY RestIsOK DEF IInv, Good
    <2>2. /\ r \in NetSet /\ r.kind = s.kind /\ r.by = s.by /\ r.agent = s.agent /\ r.arg = s.arg
          /\ r.got = s.got /\ (r.live <=> s.live /\ same)
      <3>1. s \in NetSet /\ same \in BOOLEAN /\ Bump(q, asked) \in BOOLEAN
        BY <2>1 DEF RequestOK, Good, Bump
      <3> QED BY <1>2, <3>1, KeptFields
    <2>3. Follows(r.kind)' BY <2>1, <2>2, FollowsStays DEF RequestOK
    <2>4. r.live => r.by = page'.user BY <1>0, <2>1, <2>2 DEF RequestOK, Good
    <2>5. rows' = rows BY DEF server
    <2> QED BY <2>1, <2>2, <2>3, <2>4, <2>5 DEF RequestOK, AnswerOK
  <1> QED BY <1>1, <1>2, RenderedNet

LEMMA RenderTrailInv ==
  ASSUME IInv, NEW q, NEW rest, NEW asked, NEW same, Good(q, rest, asked, same),
         Render(q, rest, asked, same), UNCHANGED <<server, panel>>
  PROVE  /\ TrailInv'
         /\ page.events # None /\ page'.events # None /\ page.events.agent = page'.events.agent
            => page.events.rows <= page'.events.rows
  <1>0. rows' = rows BY DEF server
  <1>1. page'.events \in {None, q.events} BY RenderedPage DEF IInv, PageInv, Good
  \* What is shown is what was, or the answer to the newest request.
  <1>2. page'.events # None =>
          \/ page'.events = page.events
          \/ \E d \in net \ rest : /\ d.kind = "events" /\ d.fresh /\ d.got # None /\ d.got.code = 200
                                   /\ page'.events.agent = d.agent /\ page'.events.rows = d.got.n
    BY <1>1 DEF Good, NewestTrail
  \* A request for events that is still the newest was so before, or is new and the only one.
  <1>3. ASSUME NEW r \in net', r.kind = "events", r.fresh
        PROVE  \/ r \in New(q, asked)
               \/ /\ \A z \in New(q, asked) : z.kind # "events"
                  /\ \E s \in rest : /\ s \in net /\ s.kind = "events" /\ s.fresh /\ s.got = r.got
                                     /\ s.agent = r.agent /\ r = Kept(s, same, Bump(q, asked))
    <2>1. CASE r \in New(q, asked) BY <2>1
    <2>2. ASSUME NEW s \in rest, r = Kept(s, same, Bump(q, asked))
          PROVE  /\ \A z \in New(q, asked) : z.kind # "events"
                 /\ s \in net /\ s.kind = "events" /\ s.fresh /\ s.got = r.got /\ s.agent = r.agent
      <3>1. RequestOK(s) /\ (s.kind = "system" \/ s \in net) BY RestIsOK DEF IInv, Good
      <3>2. s \in NetSet /\ same \in BOOLEAN /\ Bump(q, asked) \in BOOLEAN
        BY <3>1 DEF RequestOK, Good, Bump
      <3>3. /\ r.kind = s.kind /\ r.agent = s.agent /\ r.got = s.got
            /\ (r.fresh <=> s.fresh /\ same /\ ~Bump(q, asked))
        BY <2>2, <3>2, KeptFields
      <3> QED BY <1>3, <3>1, <3>3 DEF Bump
    <2> QED BY <2>1, <2>2, RenderedNet
  <1>4. page'.events # None => page'.events.rows <= rows'[page'.events.agent]
    <2>1. ASSUME NEW d \in net, d.kind = "events", d.got # None, d.got.code = 200
          PROVE  d.got.n <= rows[d.agent]
      BY <2>1 DEF IInv, NetInv, AnswerOK
    <2> QED BY <1>0, <1>2, <2>1 DEF IInv, TrailInv
  <1>5. ASSUME NEW r \in net', NEW s \in net', r.kind = "events", r.fresh, s.kind = "events", s.fresh
        PROVE  r = s
    <2>1. \A z \in New(q, asked) : \A y \in New(q, asked) :
            z.kind = "events" /\ y.kind = "events" => z = y
      BY NewIsAsked DEF Good
    <2>2. \A z, y \in net : z.kind = "events" /\ z.fresh /\ y.kind = "events" /\ y.fresh => z = y
      BY DEF IInv, TrailInv
    <2> QED BY <1>3, <1>5, <2>1, <2>2
  <1>6. ASSUME NEW r \in net', r.kind = "events", r.fresh, r.got # None, r.got.code = 200,
               page'.events # None, page'.events.agent = r.agent
        PROVE  page'.events.rows <= r.got.n
    <2>1. r \notin New(q, asked)
      <3>1. r \in New(q, asked) => r.got = None BY NewIsAsked DEF Good, AskedBy
      <3> QED BY <1>6, <3>1
    <2>2. PICK s \in rest : s \in net /\ s.kind = "events" /\ s.fresh /\ s.got = r.got
                            /\ s.agent = r.agent
      BY <1>3, <1>6, <2>1
    <2>3. ~\E d \in net \ rest : d.kind = "events" /\ d.fresh BY <2>2 DEF IInv, TrailInv
    <2>4. page'.events = page.events BY <1>2, <1>6, <2>3
    <2> QED BY <1>6, <2>2, <2>4 DEF IInv, TrailInv
  <1>7. ASSUME page.events # None, page'.events # None, page.events.agent = page'.events.agent
        PROVE  page.events.rows <= page'.events.rows
    <2>1. CASE page'.events = page.events BY <1>7, <2>1 DEF IInv, PageInv, PageSet
    <2>2. ASSUME NEW d \in net, d.kind = "events", d.fresh, d.got # None, d.got.code = 200,
                 page'.events.agent = d.agent, page'.events.rows = d.got.n
          PROVE  page.events.rows <= page'.events.rows
      BY <1>7, <2>2 DEF IInv, TrailInv
    <2> QED BY <1>2, <1>7, <2>1, <2>2
  <1> QED BY <1>4, <1>5, <1>6, <1>7 DEF TrailInv
--------------------------------------------------------------------------------
(* What every step does                                                         *)

MovesForward ==
  page.events # None /\ page'.events # None /\ page.events.agent = page'.events.agent
  => page.events.rows <= page'.events.rows

Keeps == PageInv' /\ NetInv' /\ TrailInv' /\ MovesForward

LEMMA GoodStep ==
  ASSUME IInv, NEW q, NEW rest, NEW asked, NEW same, Good(q, rest, asked, same),
         Render(q, rest, asked, same), UNCHANGED <<server, panel>>
  PROVE  Keeps
  <1>1. page \in PageSet /\ MaySet(q) BY DEF IInv, PageInv, Good
  <1>2. PageInv' BY <1>1, RenderedPage
  <1> QED BY <1>2, RenderNetInv, RenderTrailInv DEF Keeps, MovesForward

\* A handler of the same session.
LEMMA CommitStep ==
  ASSUME IInv, NEW q, NEW rest, NEW asked, MaySet(q), NewestTrail(q, rest), MayAsk(q, asked),
         MayStay(rest), q.user = page.user, Commit(q, rest, asked), UNCHANGED <<server, panel>>
  PROVE  Keeps
  <1>1. Good(q, rest, asked, TRUE) BY DEF Good
  <1> QED BY <1>1, GoodStep DEF Commit

\* One that empties the page for a new session.
LEMMA SessionStep ==
  ASSUME IInv, NEW q, NEW rest, NEW asked, MaySet(q), q.events = None, MayAsk(q, asked),
         MayStay(rest), NewSession(q, rest, asked), UNCHANGED <<server, panel>>
  PROVE  Keeps
  <1>1. Good(q, rest, asked, FALSE) BY DEF Good, NewestTrail
  <1> QED BY <1>1, GoodStep DEF NewSession

LEMMA SubsetStays == ASSUME NEW rest \in SUBSET net PROVE MayStay(rest)
  BY DEF MayStay

LEMMA NothingAsked == ASSUME NEW q PROVE MayAsk(q, {})
  BY DEF MayAsk

LEMMA OneAsked ==
  ASSUME NEW q, NEW r, AskedBy(q, r), r.kind # "events" \/ Timeline(page) = Timeline(q)
  PROVE  MayAsk(q, {r})
  BY DEF MayAsk

LEMMA TwoAsked ==
  ASSUME NEW q, NEW r, NEW s, AskedBy(q, r), AskedBy(q, s),
         r.kind # "events" /\ s.kind # "events"
  PROVE  MayAsk(q, {r, s})
  BY DEF MayAsk

\* A page with nothing changed but what the invariant does not speak of.
Alike(q) ==
  /\ q \in PageSet
  /\ q.user = page.user /\ q.agents = page.agents /\ q.selected = page.selected
  /\ q.filter = page.filter /\ q.messages = page.messages /\ q.run = page.run
  /\ q.events = page.events /\ q.approvals = page.approvals /\ q.decided = page.decided
  /\ q.grants = page.grants /\ q.files = page.files /\ q.strayed = page.strayed /\ SamePast(q, page)
  /\ q.openFile \in {None, page.openFile}

LEMMA AlikeMaySet ==
  ASSUME IInv, NEW q, Alike(q), NEW rest
  PROVE  MaySet(q) /\ NewestTrail(q, rest) /\ q.user = page.user
  <1>1. ListsOf(q) BY DEF Alike, IInv, PageInv, ListsOf, SamePast
  <1>2. PanelsOf(q) BY DEF Alike, IInv, PageInv, PanelsOf
  <1>3. TrailOf(q) BY DEF Alike, IInv, PageInv, TrailOf
  <1> QED BY <1>1, <1>2, <1>3 DEF Alike, MaySet, NewestTrail

LEMMA PageAlike == ASSUME IInv PROVE Alike(page)
  BY DEF IInv, PageInv, Alike, SamePast

LEMMA BusyAlike == ASSUME IInv, NEW b \in BOOLEAN PROVE Alike([page EXCEPT !.busy = b])
  BY DEF IInv, PageInv, Alike, PageSet, SamePast

LEMMA DecidingAlike == ASSUME IInv, NEW b \in BOOLEAN PROVE Alike([page EXCEPT !.deciding = b])
  BY DEF IInv, PageInv, Alike, PageSet, SamePast

LEMMA AuthAlike ==
  ASSUME IInv, NEW b \in BOOLEAN, NEW x \in {"unknown", "required", "open"}
  PROVE  Alike([page EXCEPT !.auth = x, !.busy = b])
  <1>1. page \in PageSet BY DEF IInv, PageInv
  <1> DEFINE y == [page EXCEPT !.auth = x]
  <1>2. y \in PageSet BY <1>1 DEF PageSet
  <1>3. [page EXCEPT !.auth = x, !.busy = b] = [y EXCEPT !.busy = b] OBVIOUS
  <1> HIDE DEF y
  <1>4. [y EXCEPT !.busy = b] \in PageSet BY <1>2 DEF PageSet
  <1> QED BY <1>1, <1>3, <1>4 DEF Alike, PageSet, SamePast

LEMMA FileAlike ==
  ASSUME IInv, NEW x \in Paths PROVE Alike([page EXCEPT !.openPath = x, !.openFile = None])
  BY ZenonT(100) DEF IInv, PageInv, Alike, PageSet, SamePast

\* Handlers that leave the page as it is but for such things.
LEMMA AlikeStep ==
  ASSUME IInv, NEW q, NEW rest, NEW asked, Alike(q), MayStay(rest), MayAsk(q, asked),
         Commit(q, rest, asked), UNCHANGED <<server, panel>>
  PROVE  Keeps
  BY AlikeMaySet, CommitStep

\* A request about the agent on screen.
LEMMA AskSelected ==
  ASSUME IInv, Selected(page), NEW k \in OfAgent \ {"events"}, NEW x \in Args, NEW q,
         q.user = page.user
  PROVE  MayAsk(q, {Request(page, k, page.selected, x)})
  <1>1. page.selected \in Agents /\ page.user \in Users \cup {None}
    BY DEF Selected, IInv, PageInv, PageSet
  <1>2. /\ AskedBy(page, Request(page, k, page.selected, x))
        /\ Request(page, k, page.selected, x).kind = k
    BY <1>1, RequestIsAsked DEF Kinds, OfAgent
  <1>3. AskedBy(q, Request(page, k, page.selected, x)) BY <1>2 DEF AskedBy
  <1> QED BY <1>2, <1>3, OneAsked

\* A request about none.
LEMMA AskOther ==
  ASSUME IInv, NEW k \in Kinds \ OfAgent, NEW x \in Args, k = "login" => x \in Users, NEW q,
         q.user = page.user
  PROVE  /\ AskedBy(q, Request(page, k, None, x)) /\ Request(page, k, None, x).kind = k
         /\ MayAsk(q, {Request(page, k, None, x)})
  <1>1. page.user \in Users \cup {None} BY DEF IInv, PageInv, PageSet
  <1>2. /\ AskedBy(page, Request(page, k, None, x)) /\ Request(page, k, None, x).kind = k
    BY <1>1, RequestIsAsked
  <1>3. AskedBy(q, Request(page, k, None, x)) BY <1>2 DEF AskedBy
  <1> QED BY <1>2, <1>3, OneAsked DEF OfAgent
--------------------------------------------------------------------------------
(* What the human and the timers ask for                                        *)

LEMMA SelectStep == ASSUME IInv, Select PROVE Keeps
  <1>1. PICK a \in page.agents \ {page.selected} : Commit([page EXCEPT !.selected = a], net, {})
    BY DEF Select, Ask
  <1> DEFINE q == [page EXCEPT !.selected = a]
  <1>2. page \in PageSet /\ ListsOf(page) BY DEF IInv, PageInv
  <1>3. a \in Agents BY <1>2 DEF PageSet
  <1>4. /\ q \in PageSet /\ q.user = page.user /\ q.agents = page.agents /\ q.selected = a
        /\ q.messages = page.messages /\ q.approvals = page.approvals /\ q.decided = page.decided
        /\ q.strayed = page.strayed /\ SamePast(q, page) /\ q.filter = page.filter
        /\ q.events = page.events
        /\ q.auth = page.auth
    BY <1>2, <1>3 DEF PageSet, SamePast
  <1> HIDE DEF q
  <1>5. ListsOf(q) BY <1>1, <1>2, <1>4 DEF ListsOf, SamePast
  <1>6. Moved(page, q) /\ Timeline(page) # Timeline(q) BY <1>1, <1>4 DEF Moved, Timeline
  <1>7. MaySet(q) /\ NewestTrail(q, net) BY <1>4, <1>5, <1>6 DEF MaySet, NewestTrail
  <1>8. UNCHANGED <<server, panel>> /\ Commit(q, net, {}) BY <1>1 DEF Select, Ask, Human, q
  <1> QED BY <1>4, <1>7, <1>8, CommitStep, SubsetStays, NothingAsked

LEMMA SetFilterStep == ASSUME IInv, SetFilter PROVE Keeps
  <1>1. PICK f \in Filters \ {page.filter} : Commit([page EXCEPT !.filter = f], net, {})
    BY DEF SetFilter, Ask
  <1> DEFINE q == [page EXCEPT !.filter = f]
  <1>2. page \in PageSet /\ ListsOf(page) /\ PanelsOf(page) BY DEF IInv, PageInv
  <1>4. /\ q \in PageSet /\ q.user = page.user /\ q.agents = page.agents
        /\ q.selected = page.selected
        /\ q.messages = page.messages /\ q.approvals = page.approvals /\ q.decided = page.decided
        /\ q.strayed = page.strayed /\ SamePast(q, page) /\ q.filter = f /\ q.events = page.events
        /\ q.run = page.run /\ q.openFile = page.openFile /\ q.grants = page.grants
        /\ q.files = page.files
    BY <1>1, <1>2 DEF PageSet, SamePast
  <1> HIDE DEF q
  <1>5. ListsOf(q) BY <1>2, <1>4 DEF ListsOf, SamePast
  <1>6. PanelsOf(q) BY <1>2, <1>4 DEF PanelsOf
  <1>7. Timeline(page) # Timeline(q) BY <1>1, <1>4 DEF Timeline
  <1>8. MaySet(q) /\ NewestTrail(q, net) BY <1>4, <1>5, <1>6, <1>7 DEF MaySet, NewestTrail
  <1>9. UNCHANGED <<server, panel>> /\ Commit(q, net, {}) BY <1>1 DEF SetFilter, Ask, Human, q
  <1> QED BY <1>4, <1>8, <1>9, CommitStep, SubsetStays, NothingAsked

LEMMA AskStep ==
  ASSUME IInv, ClickLogin \/ Create \/ Delete \/ Send \/ Stop \/ Command \/ Decide \/ OpenFile
               \/ PollApprovals \/ PollEvents
  PROVE  Keeps
  <1> USE DEF Human
  <1>0. MayStay(net) BY SubsetStays
  <1>b. Alike([page EXCEPT !.busy = TRUE]) /\ [page EXCEPT !.busy = TRUE].user = page.user
    BY BusyAlike DEF Alike
  <1>d. Alike([page EXCEPT !.deciding = TRUE]) /\ [page EXCEPT !.deciding = TRUE].user = page.user
    BY DecidingAlike DEF Alike
  <1>p. Alike(page) BY PageAlike
  <1>k. /\ {"login", "create", "decide", "approvals"} \subseteq Kinds \ OfAgent
        /\ {"delete", "send", "stop", "command", "file"} \subseteq OfAgent \ {"events"}
        /\ None \in Args /\ Users \subseteq Args /\ Cards \subseteq Args /\ Paths \subseteq Args
        /\ Filters \subseteq Args
    BY DEF Kinds, OfAgent, Args
  <1>1. CASE ClickLogin
    <2>1. PICK u \in Users : Commit([page EXCEPT !.busy = TRUE], net, {Request(page, "login", None, u)})
      BY <1>1 DEF ClickLogin
    <2>2. MayAsk([page EXCEPT !.busy = TRUE], {Request(page, "login", None, u)})
      BY <1>b, <1>k, AskOther
    <2> QED BY <1>0, <1>1, <1>b, <2>1, <2>2, AlikeStep DEF ClickLogin
  <1>2. CASE Create
    <2>1. MayAsk([page EXCEPT !.busy = TRUE], {Request(page, "create", None, None)})
      BY <1>b, <1>k, AskOther
    <2> QED BY <1>0, <1>2, <1>b, <2>1, AlikeStep DEF Create, Ask
  <1>3. CASE Delete
    <2>1. MayAsk([page EXCEPT !.busy = TRUE], {Request(page, "delete", page.selected, None)})
      BY <1>3, <1>b, <1>k, AskSelected DEF Delete
    <2> QED BY <1>0, <1>3, <1>b, <2>1, AlikeStep DEF Delete, Ask
  <1>4. CASE Send
    <2>1. MayAsk(page, {Request(page, "send", page.selected, None)})
      BY <1>4, <1>k, AskSelected DEF Send
    <2> QED BY <1>0, <1>4, <1>p, <2>1, AlikeStep DEF Send, Ask
  <1>5. CASE Stop
    <2>1. MayAsk([page EXCEPT !.busy = TRUE], {Request(page, "stop", page.selected, None)})
      BY <1>5, <1>b, <1>k, AskSelected DEF Stop
    <2> QED BY <1>0, <1>5, <1>b, <2>1, AlikeStep DEF Stop, Ask
  <1>6. CASE Command
    <2>1. MayAsk(page, {Request(page, "command", page.selected, None)})
      BY <1>6, <1>k, AskSelected DEF Command
    <2> QED BY <1>0, <1>6, <1>p, <2>1, AlikeStep DEF Command, Ask
  <1>7. CASE Decide
    <2>1. PICK c \in Pending(page) :
            Commit([page EXCEPT !.deciding = TRUE], net, {Request(page, "decide", None, c)})
      BY <1>7 DEF Decide, Ask
    <2>2. c \in Cards BY DEF Pending, IInv, PageInv, PageSet
    <2>3. MayAsk([page EXCEPT !.deciding = TRUE], {Request(page, "decide", None, c)})
      BY <1>d, <1>k, <2>2, AskOther
    <2> QED BY <1>0, <1>7, <1>d, <2>1, <2>3, AlikeStep DEF Decide, Ask
  <1>8. CASE OpenFile
    <2>1. PICK x \in Paths : Commit([page EXCEPT !.openPath = x, !.openFile = None], net,
                                    {Request(page, "file", page.selected, x)})
      BY <1>8 DEF OpenFile, Ask
    <2> DEFINE q == [page EXCEPT !.openPath = x, !.openFile = None]
    <2>2. Alike(q) BY FileAlike
    <2>3. q.user = page.user BY <2>2 DEF Alike
    <2> HIDE DEF q
    <2>4. MayAsk(q, {Request(page, "file", page.selected, x)})
      BY <1>8, <1>k, <2>3, AskSelected DEF OpenFile
    <2>5. Commit(q, net, {Request(page, "file", page.selected, x)}) BY <2>1 DEF q
    <2> QED BY <1>0, <1>8, <2>2, <2>4, <2>5, AlikeStep DEF OpenFile, Ask
  <1>9. CASE PollApprovals
    <2>1. MayAsk(page, {Request(page, "approvals", None, None)}) BY <1>k, AskOther
    <2> QED BY <1>0, <1>9, <1>p, <2>1, AlikeStep DEF PollApprovals, Poll, Ask
  <1>10. CASE PollEvents
    <2>1. page.selected \in Agents /\ page.filter \in Filters /\ page.user \in Users \cup {None}
      BY <1>10 DEF PollEvents, IInv, PageInv, PageSet
    <2>2. AskedBy(page, Request(page, "events", page.selected, page.filter))
      BY <1>k, <2>1, RequestIsAsked DEF Kinds, OfAgent
    <2>3. MayAsk(page, {Request(page, "events", page.selected, page.filter)})
      BY <2>2, OneAsked
    <2> QED BY <1>0, <1>10, <1>p, <2>3, AlikeStep DEF PollEvents, Poll, Ask
  <1> QED BY <1>1, <1>2, <1>3, <1>4, <1>5, <1>6, <1>7, <1>8, <1>9, <1>10

\* What a session leaves of the page, but for who is signed in and what is under way.
EndedAs(q, e) ==
  /\ q.agents = e.agents /\ q.selected = e.selected /\ q.messages = e.messages /\ q.run = e.run
  /\ q.events = e.events /\ q.approvals = e.approvals /\ q.decided = e.decided
  /\ q.grants = e.grants /\ q.files = e.files /\ q.openFile = e.openFile /\ SamePast(q, e)

LEMMA EndedIsPage ==
  ASSUME NEW p \in PageSet
  PROVE  /\ Ended(p) \in PageSet
         /\ Ended(p).agents = {} /\ Ended(p).selected = None /\ Ended(p).messages = {}
         /\ Ended(p).run = None /\ Ended(p).events = None /\ Ended(p).approvals = {}
         /\ Ended(p).decided = {} /\ Ended(p).grants = None /\ Ended(p).files = p.files
         /\ Ended(p).openFile = p.openFile /\ Ended(p).scopes = p.scopes
         /\ Ended(p).left = {p.scopes} \ {None} /\ Ended(p).seen = {} /\ Ended(p).lost = {}
  <1> DEFINE l == {p.scopes} \ {None}
             y == [p EXCEPT !.agents = {}, !.selected = None, !.filter = "policy", !.messages = {}]
             z == [y EXCEPT !.run = None, !.events = None, !.approvals = {}, !.decided = {}]
             g == [z EXCEPT !.grants = None]
             x == [g EXCEPT !.strayed = {}]
             w == [x EXCEPT !.left = l]
  <1>1. l \in SUBSET Agents /\ "policy" \in Filters BY DEF PageSet, Filters
  <1>2. Ended(p) = [w EXCEPT !.seen = {}, !.lost = {}] BY DEF Ended
  <1> HIDE DEF l
  <1>3. y \in PageSet BY <1>1, ZenonT(40) DEF PageSet
  <1>4. y.files = p.files /\ y.openFile = p.openFile /\ y.scopes = p.scopes
        /\ y.agents = {} /\ y.selected = None /\ y.messages = {}
    BY DEF PageSet
  <1> HIDE DEF y
  <1>5. z \in PageSet BY <1>3, ZenonT(100) DEF PageSet
  <1>6. z.files = p.files /\ z.openFile = p.openFile /\ z.scopes = p.scopes
        /\ z.agents = {} /\ z.selected = None /\ z.messages = {}
        /\ z.run = None /\ z.events = None /\ z.approvals = {} /\ z.decided = {}
    BY <1>3, <1>4 DEF PageSet
  <1> HIDE DEF z
  <1>6a. g \in PageSet BY <1>5 DEF PageSet
  <1>6b. g.files = p.files /\ g.openFile = p.openFile /\ g.scopes = p.scopes
         /\ g.agents = {} /\ g.selected = None /\ g.messages = {}
         /\ g.run = None /\ g.events = None /\ g.approvals = {} /\ g.decided = {}
         /\ g.grants = None
    BY <1>5, <1>6 DEF PageSet
  <1> HIDE DEF g
  <1>6c. x \in PageSet BY <1>6a DEF PageSet
  <1>6d. x.files = p.files /\ x.openFile = p.openFile /\ x.scopes = p.scopes
         /\ x.agents = {} /\ x.selected = None /\ x.messages = {}
         /\ x.run = None /\ x.events = None /\ x.approvals = {} /\ x.decided = {}
         /\ x.grants = None
    BY <1>6a, <1>6b DEF PageSet
  <1> HIDE DEF x
  <1>7. w \in PageSet BY <1>1, <1>6c DEF PageSet
  <1>8. w.files = p.files /\ w.openFile = p.openFile /\ w.scopes = p.scopes
        /\ w.agents = {} /\ w.selected = None /\ w.messages = {}
        /\ w.run = None /\ w.events = None /\ w.approvals = {} /\ w.decided = {}
        /\ w.grants = None /\ w.left = l
    BY <1>6c, <1>6d DEF PageSet
  <1> HIDE DEF w
  <1>9. Ended(p) \in PageSet BY <1>2, <1>7, ZenonT(100) DEF PageSet
  <1>10. /\ Ended(p).agents = {} /\ Ended(p).selected = None /\ Ended(p).messages = {}
         /\ Ended(p).run = None /\ Ended(p).events = None /\ Ended(p).approvals = {}
         /\ Ended(p).decided = {} /\ Ended(p).grants = None /\ Ended(p).files = p.files
         /\ Ended(p).openFile = p.openFile /\ Ended(p).scopes = p.scopes
         /\ Ended(p).left = l /\ Ended(p).seen = {} /\ Ended(p).lost = {}
    BY <1>2, <1>7, <1>8 DEF PageSet
  <1> QED BY <1>9, <1>10 DEF l

\* The page of an ended session may be set for any user: its scopes are those it was left.
LEMMA EndedMaySet ==
  ASSUME page \in PageSet, PanelsOf(page)
  PROVE  /\ Ended(page) \in PageSet
         /\ \A q \in PageSet : EndedAs(q, Ended(page)) => MaySet(q) /\ q.events = None
  <1>1. ASSUME NEW q \in PageSet, EndedAs(q, Ended(page)) PROVE MaySet(q) /\ q.events = None
    <2>1. /\ q.agents = {} /\ q.selected = None /\ q.messages = {} /\ q.run = None
          /\ q.events = None /\ q.approvals = {} /\ q.decided = {} /\ q.grants = None
          /\ q.files = page.files /\ q.openFile = page.openFile /\ q.scopes = page.scopes
          /\ q.left = {page.scopes} \ {None} /\ q.seen = {} /\ q.lost = {}
      BY <1>1, EndedIsPage DEF EndedAs, SamePast
    <2>2. ListsOf(q) BY <2>1 DEF ListsOf
    <2>3. Moved(page, q) \/ PanelsOf(q) BY <2>1 DEF Moved, PanelsOf
    <2> QED BY <2>1, <2>2, <2>3 DEF MaySet, TrailOf
  <1> QED BY <1>1, EndedIsPage

\* clearSession.
LEMMA ClearStep ==
  ASSUME IInv, NEW rest \in SUBSET net, ClearSession(rest), UNCHANGED <<server, panel>>
  PROVE  Keeps
  <1>1. page \in PageSet /\ PanelsOf(page) BY DEF IInv, PageInv
  <1> DEFINE e == Ended(page)
             y == [e EXCEPT !.auth = "required"]
             z == [y EXCEPT !.busy = FALSE]
             w == [z EXCEPT !.user = None]
  <1>2. e \in PageSet BY <1>1, EndedMaySet
  <1>3. Cleared = [w EXCEPT !.deciding = FALSE] BY DEF Cleared
  <1> HIDE DEF e
  <1>4. y \in PageSet BY <1>2 DEF PageSet
  <1> HIDE DEF y
  <1>5. z \in PageSet BY <1>4, ZenonT(60) DEF PageSet
  <1> HIDE DEF z
  <1>6. w \in PageSet BY <1>5 DEF PageSet
  <1> HIDE DEF w
  <1>7. Cleared \in PageSet BY <1>3, <1>6, ZenonT(60) DEF PageSet
  <1>8. EndedAs(Cleared, e)
    <2> USE DEF SamePast
    <2>1. Cleared = [e EXCEPT !.auth = "required", !.busy = FALSE, !.user = None, !.deciding = FALSE]
      BY DEF Cleared, e
    <2> QED BY <1>2, <2>1 DEF EndedAs, PageSet
  <1>9. MaySet(Cleared) /\ Cleared.events = None BY <1>1, <1>7, <1>8, EndedMaySet DEF e
  <1> QED BY <1>9, SessionStep, SubsetStays, NothingAsked DEF ClearSession
--------------------------------------------------------------------------------
(* Answers                                                                      *)

\* What an answer is delivered with.
LEMMA Delivered ==
  ASSUME IInv, NEW q \in net, q.got # None
  PROVE  /\ q \in NetSet /\ RequestOK(q) /\ q.got \in AnswerSet
         /\ q.kind \in OfAgent => q.agent \in Agents /\ q.agent # None
         /\ q.got.code = 200 => AnswerOK(q)
         /\ page \in PageSet /\ ListsOf(page) /\ PanelsOf(page) /\ TrailOf(page)
         /\ MayStay(net \ {q})
  <1>1. RequestOK(q) /\ AnswerOK(q) BY DEF IInv, NetInv
  <1>2. q \in NetSet BY <1>1 DEF RequestOK
  <1>3. q.got \in AnswerSet BY <1>2 DEF NetSet
  <1>4. q.kind \in OfAgent => q.agent \in Agents /\ q.agent # None BY <1>1, ApiConstants DEF RequestOK
  <1> QED BY <1>1, <1>2, <1>3, <1>4, SubsetStays DEF IInv, PageInv

\* A page with other panels, or other messages, of the same selection.
LEMMA PanelsMaySet ==
  ASSUME IInv, NEW q, q \in PageSet, NEW rest,
         q.user = page.user, q.agents = page.agents, q.selected = page.selected,
         q.filter = page.filter, q.approvals = page.approvals, q.decided = page.decided,
         q.strayed = page.strayed, SamePast(q, page), q.events = page.events, PanelsOf(q),
         q.messages \subseteq Own(page.user) \cup page.strayed
  PROVE  MaySet(q) /\ NewestTrail(q, rest)
  <1>1. ListsOf(q) BY DEF IInv, PageInv, ListsOf, SamePast
  <1>2. TrailOf(q) BY DEF IInv, PageInv, TrailOf
  <1> QED BY <1>1, <1>2 DEF MaySet, NewestTrail

Relisted(o, d, b) == [Listed(page, o, d) EXCEPT !.deciding = b]

\* A list of the user's cards is rendered with those decided that are, and no fewer.
LEMMA ListedMaySet ==
  ASSUME IInv, NEW o, o \subseteq OwnCards(page.user), NEW d \in SUBSET Cards,
         page.decided \cap o \subseteq d, NEW b \in BOOLEAN, NEW rest
  PROVE  LET p == Relisted(o, d, b)
         IN p \in PageSet /\ MaySet(p) /\ NewestTrail(p, rest) /\ p.user = page.user
  <1> DEFINE s == page.seen \cup d
             l == (page.lost \cup (page.seen \ o)) \ d
             y == [page EXCEPT !.approvals = o, !.decided = d]
             z == [y EXCEPT !.seen = s, !.lost = l]
             p == Relisted(o, d, b)
  <1>1. /\ page \in PageSet /\ ListsOf(page) /\ PanelsOf(page) /\ TrailOf(page)
        /\ o \in SUBSET Cards
    BY DEF IInv, PageInv, OwnCards
  <1>2. s \in SUBSET Cards /\ l \in SUBSET Cards BY <1>1 DEF PageSet
  <1>3. s \subseteq d \cup l BY <1>1 DEF ListsOf
  <1>4. p = [z EXCEPT !.deciding = b] BY DEF Listed, Relisted
  <1> HIDE DEF s, l, p
  <1>5. y \in PageSet BY <1>1, ZenonT(40) DEF PageSet
  <1>6. /\ y.user = page.user /\ y.agents = page.agents /\ y.selected = page.selected
        /\ y.filter = page.filter /\ y.messages = page.messages /\ y.run = page.run
        /\ y.events = page.events /\ y.approvals = o /\ y.decided = d
        /\ y.grants = page.grants /\ y.files = page.files /\ y.openFile = page.openFile
        /\ y.strayed = page.strayed /\ y.scopes = page.scopes /\ y.left = page.left
    BY <1>1 DEF PageSet
  <1> HIDE DEF y
  <1>7. z \in PageSet BY <1>2, <1>5, ZenonT(40) DEF PageSet
  <1>8. /\ z.user = y.user /\ z.agents = y.agents /\ z.selected = y.selected
        /\ z.filter = y.filter /\ z.messages = y.messages /\ z.run = y.run
        /\ z.events = y.events /\ z.approvals = y.approvals /\ z.decided = y.decided
        /\ z.grants = y.grants /\ z.files = y.files /\ z.openFile = y.openFile
        /\ z.strayed = y.strayed /\ z.scopes = y.scopes /\ z.left = y.left
        /\ z.seen = s /\ z.lost = l
    BY <1>5 DEF PageSet
  <1> HIDE DEF z
  <1>9. p \in PageSet BY <1>4, <1>7, ZenonT(40) DEF PageSet
  <1>10. /\ p.user = z.user /\ p.agents = z.agents /\ p.selected = z.selected
         /\ p.filter = z.filter /\ p.messages = z.messages /\ p.run = z.run
         /\ p.events = z.events /\ p.approvals = z.approvals /\ p.decided = z.decided
         /\ p.grants = z.grants /\ p.files = z.files /\ p.openFile = z.openFile
         /\ p.strayed = z.strayed /\ p.scopes = z.scopes /\ p.left = z.left
         /\ p.seen = z.seen /\ p.lost = z.lost
    BY <1>4, <1>7 DEF PageSet
  <1>11. ListsOf(p) BY <1>1, <1>3, <1>6, <1>8, <1>10 DEF ListsOf
  <1>12. PanelsOf(p) BY <1>1, <1>6, <1>8, <1>10 DEF PanelsOf
  <1>13. TrailOf(p) BY <1>1, <1>6, <1>8, <1>10 DEF TrailOf
  <1>14. p.user = page.user /\ p.events = page.events BY <1>6, <1>8, <1>10
  <1>15. MaySet(p) /\ NewestTrail(p, rest)
    BY <1>9, <1>11, <1>12, <1>13, <1>14 DEF MaySet, NewestTrail
  <1> QED BY <1>9, <1>14, <1>15 DEF p

LEMMA AuthStep ==
  ASSUME IInv, NEW q \in net, q.got # None, GotAuth(q, net \ {q}), UNCHANGED <<server, panel>>
  PROVE  Keeps
  <1>1. MayStay(net \ {q}) BY SubsetStays
  <1>k. {"agents", "system"} \subseteq Kinds \ OfAgent /\ {"boot", "start"} \subseteq Args
    BY DEF Kinds, OfAgent, Args
  <1>2. CASE Commit(page, net \ {q}, Bootstrap(page, "start"))
    <2>1. MayAsk(page, Bootstrap(page, "start"))
      <3>1. /\ AskedBy(page, Request(page, "agents", None, "boot"))
            /\ Request(page, "agents", None, "boot").kind = "agents"
            /\ AskedBy(page, Request(page, "system", None, "start"))
            /\ Request(page, "system", None, "start").kind = "system"
        BY <1>k, AskOther
      <3> QED BY <3>1, TwoAsked DEF Bootstrap
    <2> QED BY <1>1, <1>2, <2>1, PageAlike, AlikeStep
  <1>3. CASE Commit([page EXCEPT !.auth = "required"], net \ {q}, {})
    <2>1. page \in PageSet BY DEF IInv, PageInv
    <2>2. Alike([page EXCEPT !.auth = "required"]) BY <2>1 DEF Alike, PageSet, SamePast
    <2> QED BY <1>1, <1>3, <2>2, AlikeStep, NothingAsked
  <1> QED BY <1>2, <1>3 DEF GotAuth

LEMMA LoginStep ==
  ASSUME IInv, NEW q \in net, q.got # None, q.kind = "login", GotLogin(q, net \ {q}),
         UNCHANGED <<server, panel>>
  PROVE  Keeps
  <1> DEFINE e == Ended(page)
             p == [Ended(page) EXCEPT !.user = q.arg]
  <1>1. /\ page \in PageSet /\ PanelsOf(page) /\ q.arg \in Users /\ MayStay(net \ {q})
    BY Delivered DEF RequestOK
  <1>2. e \in PageSet /\ p = [e EXCEPT !.user = q.arg] BY <1>1, EndedMaySet
  <1>3. NewSession(p, net \ {q}, Bootstrap(p, "login")) BY DEF GotLogin
  <1> HIDE DEF e, p
  <1>4. p \in PageSet /\ p.user = q.arg BY <1>1, <1>2 DEF PageSet
  <1>5. EndedAs(p, e) BY <1>2 DEF EndedAs, SamePast, PageSet
  <1>6. MaySet(p) /\ p.events = None BY <1>1, <1>4, <1>5, EndedMaySet DEF e
  <1>7. MayAsk(p, Bootstrap(p, "login"))
    <2>1. {"agents", "system"} \subseteq Kinds \ OfAgent /\ {"boot", "login"} \subseteq Args
      BY DEF Kinds, OfAgent, Args
    <2>2. p.user \in Users \cup {None} BY <1>1, <1>4
    <2>3. /\ AskedBy(p, Request(p, "agents", None, "boot"))
          /\ Request(p, "agents", None, "boot").kind = "agents"
          /\ AskedBy(p, Request(p, "system", None, "login"))
          /\ Request(p, "system", None, "login").kind = "system"
      BY <2>1, <2>2, RequestIsAsked
    <2> QED BY <2>3, TwoAsked DEF Bootstrap
  <1> QED BY <1>1, <1>3, <1>6, <1>7, SessionStep

LEMMA AgentsStep ==
  ASSUME IInv, NEW q \in net, q.got # None, q.kind = "agents", q.got.code = 200,
         GotAgents(q, net \ {q}), UNCHANGED <<server, panel>>
  PROVE  Keeps
  <1>1. /\ page \in PageSet /\ ListsOf(page) /\ PanelsOf(page) /\ TrailOf(page) /\ MayStay(net \ {q})
        /\ q.got.of \subseteq Own(q.by) /\ (q.live => q.by = page.user)
    BY Delivered DEF RequestOK, AnswerOK
  <1>2. PICK first \in q.got.of \cup {None} :
          LET kept == IF page.selected \in q.got.of THEN page.selected ELSE first
              p    == IF q.live THEN [page EXCEPT !.agents = q.got.of, !.selected = kept] ELSE page
          IN Commit(CASE q.arg \in Agents -> [p EXCEPT !.selected = q.arg, !.busy = FALSE,
                                                  !.strayed = @ \cup {a \in {q.arg} : Owner[a] # p.user}]
                      [] q.arg = "last"   -> [p EXCEPT !.busy = FALSE]
                      [] OTHER            -> p, net \ {q}, {})
    BY DEF GotAgents
  <1> DEFINE kept == IF page.selected \in q.got.of THEN page.selected ELSE first
             p == IF q.live THEN [page EXCEPT !.agents = q.got.of, !.selected = kept] ELSE page
             own == {a \in {q.arg} : Owner[a] # p.user}
             z == CASE q.arg \in Agents -> [p EXCEPT !.selected = q.arg, !.busy = FALSE,
                                                     !.strayed = @ \cup own]
                    [] q.arg = "last"   -> [p EXCEPT !.busy = FALSE]
                    [] OTHER            -> p
  <1>3. kept \in Own(q.by) \cup {None} BY <1>1
  <1> HIDE DEF kept
  <1>4. /\ p \in PageSet /\ ListsOf(p) /\ p.user = page.user /\ p.filter = page.filter
        /\ p.run = page.run /\ p.openFile = page.openFile /\ p.grants = page.grants
        /\ p.files = page.files /\ p.events = page.events /\ p.approvals = page.approvals
        /\ p.decided = page.decided
    <2>1. CASE ~q.live BY <1>1, <2>1
    <2>2. CASE q.live
      <3>1. p = [page EXCEPT !.agents = q.got.of, !.selected = kept] BY <2>2
      <3>2. q.got.of \in SUBSET Agents /\ kept \in Agents \cup {None} BY <1>1, <1>3 DEF Own
      <3> HIDE DEF p
      <3>3. /\ p \in PageSet /\ p.user = page.user /\ p.filter = page.filter
            /\ p.run = page.run /\ p.openFile = page.openFile /\ p.grants = page.grants
            /\ p.files = page.files /\ p.events = page.events /\ p.approvals = page.approvals
            /\ p.decided = page.decided /\ p.agents = q.got.of /\ p.selected = kept
            /\ p.messages = page.messages /\ p.strayed = page.strayed /\ SamePast(p, page)
        BY <1>1, <3>1, <3>2, ZenonT(40) DEF PageSet, SamePast
      <3>4. ListsOf(p) BY <1>1, <1>3, <2>2, <3>3 DEF ListsOf, SamePast
      <3> QED BY <3>3, <3>4
    <2> QED BY <2>1, <2>2
  <1>a. q.arg \in Agents => own \in SUBSET Agents /\ q.arg \in Own(p.user) \cup own BY DEF Own
  <1>6. Commit(z, net \ {q}, {}) BY <1>2 DEF p, kept
  <1> HIDE DEF p, own
  <1>5. /\ z \in PageSet /\ ListsOf(z) /\ z.user = page.user /\ z.filter = page.filter
        /\ z.run = page.run /\ z.openFile = page.openFile /\ z.grants = page.grants
        /\ z.files = page.files /\ z.events = page.events /\ z.approvals = page.approvals
        /\ z.decided = page.decided
    <2>1. CASE q.arg \in Agents
      <3>1. z = [p EXCEPT !.selected = q.arg, !.busy = FALSE, !.strayed = @ \cup own]
        BY <2>1, PageConstants DEF Reasons
      <3>2. own \in SUBSET Agents /\ q.arg \in Own(p.user) \cup own BY <1>a, <2>1
      <3> HIDE DEF z
      <3>4. /\ z \in PageSet /\ z.user = p.user /\ z.filter = p.filter
            /\ z.run = p.run /\ z.openFile = p.openFile /\ z.grants = p.grants
            /\ z.files = p.files /\ z.events = p.events /\ z.approvals = p.approvals
            /\ z.decided = p.decided /\ z.agents = p.agents /\ z.selected = q.arg
            /\ z.messages = p.messages /\ z.strayed = p.strayed \cup own /\ SamePast(z, p)
        BY <1>4, <2>1, <3>1, <3>2, ZenonT(40) DEF PageSet, SamePast
      <3>5. ListsOf(z) BY <1>4, <3>2, <3>4 DEF ListsOf, SamePast
      <3> QED BY <1>4, <3>4, <3>5
    <2>2. CASE q.arg \notin Agents /\ q.arg = "last"
      <3>1. z = [p EXCEPT !.busy = FALSE] BY <2>2
      <3> HIDE DEF z
      <3>2. /\ z \in PageSet /\ z.user = p.user /\ z.filter = p.filter
            /\ z.run = p.run /\ z.openFile = p.openFile /\ z.grants = p.grants
            /\ z.files = p.files /\ z.events = p.events /\ z.approvals = p.approvals
            /\ z.decided = p.decided /\ z.agents = p.agents /\ z.selected = p.selected
            /\ z.messages = p.messages /\ z.strayed = p.strayed /\ SamePast(z, p)
        BY <1>4, <3>1, ZenonT(40) DEF PageSet, SamePast
      <3>3. ListsOf(z) BY <1>4, <3>2 DEF ListsOf, SamePast
      <3> QED BY <1>4, <3>2, <3>3
    <2>3. CASE q.arg \notin Agents /\ q.arg # "last"
      <3>1. z = p BY <2>3
      <3> QED BY <1>4, <3>1, ZenonT(40)
    <2> QED BY <2>1, <2>2, <2>3
  <1> HIDE DEF z
  <1>7. Moved(page, z) \/ PanelsOf(z) BY <1>1, <1>5 DEF Moved, PanelsOf
  <1>8. Timeline(page) # Timeline(z) \/ TrailOf(z)
    <2>1. CASE page.selected = z.selected BY <1>1, <1>5, <2>1 DEF TrailOf
    <2>2. CASE page.selected # z.selected BY <2>2 DEF Timeline
    <2> QED BY <2>1, <2>2
  <1>9. MaySet(z) /\ NewestTrail(z, net \ {q}) BY <1>5, <1>7, <1>8 DEF MaySet, NewestTrail
  <1> QED BY <1>1, <1>5, <1>6, <1>9, CommitStep, NothingAsked

\* A request about an agent that is not for its events.
LEMMA AskAgent ==
  ASSUME IInv, NEW k \in OfAgent \ {"events"}, NEW a \in Agents, NEW x \in Args, NEW p, p \in PageSet
  PROVE  AskedBy(p, Request(p, k, a, x)) /\ Request(p, k, a, x).kind = k
  <1>1. p.user \in Users \cup {None} BY DEF PageSet
  <1> QED BY <1>1, RequestIsAsked DEF Kinds, OfAgent

LEMMA AskLists ==
  ASSUME IInv, NEW k \in {"agents", "approvals"}, NEW x \in Args
  PROVE  AskedBy(page, Request(page, k, None, x)) /\ Request(page, k, None, x).kind = k
  <1>1. page.user \in Users \cup {None} BY DEF IInv, PageInv, PageSet
  <1>2. k \in Kinds /\ k \notin OfAgent /\ k # "login" BY DEF Kinds, OfAgent
  <1> QED BY <1>1, <1>2, RequestIsAsked

LEMMA QuietStep ==
  ASSUME IInv, NEW q \in net, q.got # None, q.got.code = 200, UNCHANGED <<server, panel>>,
         \/ q.kind = "system" /\ GotSystem(q, net \ {q})
         \/ q.kind = "create" /\ GotCreated(q, net \ {q})
         \/ q.kind = "delete" /\ GotDeleted(q, net \ {q})
         \/ q.kind = "decide" /\ GotDecided(q, net \ {q})
         \/ q.kind = "command" /\ GotCommand(q, net \ {q})
         \/ q.kind = "file" /\ GotFile(q, net \ {q})
  PROVE  Keeps
  <1>0. MayStay(net \ {q}) BY SubsetStays
  <1>p. Alike(page) /\ page \in PageSet /\ page.user \in Users \cup {None}
    BY PageAlike DEF IInv, PageInv, PageSet
  <1>k. /\ {"agents", "approvals"} \subseteq Kinds \ OfAgent
        /\ None \in Args /\ "last" \in Args /\ "list" \in Args
        /\ Agents \subseteq Args /\ Filters \subseteq Args
    BY DEF Kinds, OfAgent, Args
  <1>1. CASE q.kind = "system" /\ GotSystem(q, net \ {q})
    <2> DEFINE x == IF q.arg = "lost" THEN page.auth ELSE "open"
               b == IF q.arg = "login" THEN FALSE ELSE page.busy
    <2>1. x \in {"unknown", "required", "open"} /\ b \in BOOLEAN BY <1>p DEF PageSet
    <2>2. Commit([page EXCEPT !.auth = x, !.busy = b], net \ {q}, {}) BY <1>1 DEF GotSystem
    <2> HIDE DEF x, b
    <2>3. Alike([page EXCEPT !.auth = x, !.busy = b]) BY <2>1, AuthAlike
    <2>4. MayAsk([page EXCEPT !.auth = x, !.busy = b], {}) BY NothingAsked
    <2> QED BY <1>0, <2>2, <2>3, <2>4, AlikeStep
  <1>2. CASE q.kind = "create" /\ GotCreated(q, net \ {q})
    <2>1. q.got.of \subseteq Agents BY <1>2, Delivered DEF AnswerOK, Own
    <2> DEFINE asked == {Request(page, "agents", None, a) : a \in q.got.of}
    <2>2. ASSUME NEW r \in asked PROVE AskedBy(page, r) /\ r.kind = "agents"
      <3>1. PICK a \in q.got.of : r = Request(page, "agents", None, a) BY <2>2
      <3>2. a \in Args BY <1>k, <2>1
      <3>3. /\ AskedBy(page, Request(page, "agents", None, a))
            /\ Request(page, "agents", None, a).kind = "agents"
        BY <3>2, AskLists
      <3> QED BY <3>1, <3>3
    <2>3. MayAsk(page, asked) BY <2>2 DEF MayAsk
    <2> QED BY <1>0, <1>2, <1>p, <2>3, AlikeStep DEF GotCreated
  <1>3. CASE q.kind = "delete" /\ GotDeleted(q, net \ {q})
    <2>1. MayAsk(page, {Request(page, "agents", None, "last")}) BY <1>k, AskOther
    <2> QED BY <1>0, <1>3, <1>p, <2>1, AlikeStep DEF GotDeleted
  <1>4. CASE q.kind = "decide" /\ GotDecided(q, net \ {q})
    <2> DEFINE d == page.decided \cup ({q.arg} \cap page.approvals)
               p == Relisted(page.approvals, d, FALSE)
               asked == {Request(page, "agents", None, "list"), Request(page, "approvals", None, None)}
    <2>1. CASE q.live
      <3>1. Commit(p, net \ {q}, asked) BY <1>4, <2>1 DEF GotDecided, Relisted
      <3>2. d \in SUBSET Cards /\ page.decided \cap page.approvals \subseteq d BY <1>p DEF PageSet
      <3>3. page.approvals \subseteq OwnCards(page.user) BY DEF IInv, PageInv, ListsOf
      <3> HIDE DEF d
      <3>4. p \in PageSet /\ MaySet(p) /\ NewestTrail(p, net \ {q}) /\ p.user = page.user
        <4>1. ASSUME NEW o, o = page.approvals, NEW b \in BOOLEAN, b = FALSE
              PROVE  LET z == Relisted(o, d, b)
                     IN z \in PageSet /\ MaySet(z) /\ NewestTrail(z, net \ {q}) /\ z.user = page.user
          BY <3>2, <3>3, <4>1, ListedMaySet
        <4> QED BY <4>1, Zenon
      <3> HIDE DEF p
      <3>5. MayAsk(p, asked)
        <4>1. /\ AskedBy(p, Request(page, "agents", None, "list"))
              /\ Request(page, "agents", None, "list").kind = "agents"
          BY <1>k, <3>4, AskOther, ZenonT(100)
        <4>2. /\ AskedBy(p, Request(page, "approvals", None, None))
              /\ Request(page, "approvals", None, None).kind = "approvals"
          BY <1>k, <3>4, AskOther, ZenonT(100)
        <4> QED BY <4>1, <4>2, TwoAsked
      <3> QED BY <1>0, <3>1, <3>4, <3>5, CommitStep
    <2>2. CASE ~q.live
      <3>1. Commit(page, net \ {q}, {}) BY <1>4, <2>2 DEF GotDecided
      <3> QED BY <1>0, <1>p, <3>1, AlikeStep, NothingAsked
    <2> QED BY <2>1, <2>2
  <1>5. CASE q.kind = "command" /\ GotCommand(q, net \ {q})
    <2> DEFINE asked == {Request(page, "approvals", None, None),
                         Request(page, "events", q.agent, page.filter)}
    <2>1. CASE Mine(q)
      <3>1. /\ AskedBy(page, Request(page, "approvals", None, None))
            /\ Request(page, "approvals", None, None).kind = "approvals"
        BY <1>k, AskLists
      <3>2. page.filter \in Args BY <1>k, <1>p DEF PageSet
      <3>3. q.agent \in Agents BY <1>5, Delivered DEF OfAgent
      <3>4. /\ AskedBy(page, Request(page, "events", q.agent, page.filter))
        BY <1>p, <3>2, <3>3, RequestIsAsked DEF Kinds, OfAgent
      <3>5. MayAsk(page, asked) BY <3>1, <3>4 DEF MayAsk
      <3> QED BY <1>0, <1>5, <1>p, <2>1, <3>5, AlikeStep DEF GotCommand
    <2>2. CASE ~Mine(q)
      <3>1. Commit(page, net \ {q}, {}) BY <1>5, <2>2 DEF GotCommand
      <3> QED BY <1>0, <1>p, <3>1, AlikeStep, NothingAsked
    <2> QED BY <2>1, <2>2
  <1>6. CASE q.kind = "file" /\ GotFile(q, net \ {q})
    <2> DEFINE f == [agent |-> q.agent, path |-> q.arg]
               p == [page EXCEPT !.openFile = f]
    <2>1. CASE Mine(q)
      <3>1. Commit(p, net \ {q}, {}) BY <1>6, <2>1 DEF GotFile
      <3>2. q.agent \in Agents /\ q.arg \in Args BY <1>6, Delivered DEF OfAgent, NetSet
      <3>3. f \in [agent : Agents, path : Args] /\ f.agent = q.agent BY <3>2
      <3> HIDE DEF f
      <3>4. /\ p \in PageSet /\ p.user = page.user /\ p.agents = page.agents
            /\ p.selected = page.selected /\ p.filter = page.filter /\ p.messages = page.messages
            /\ p.run = page.run /\ p.events = page.events /\ p.approvals = page.approvals
            /\ p.decided = page.decided /\ p.grants = page.grants /\ p.files = page.files
            /\ p.strayed = page.strayed /\ SamePast(p, page) /\ p.openFile = f
        BY <1>p, <3>3 DEF PageSet, SamePast
      <3> HIDE DEF p
      <3>5. PanelsOf(p) BY <2>1, <3>3, <3>4 DEF IInv, PageInv, PanelsOf, Mine, OnScreen
      <3>6. p.messages \subseteq Own(page.user) \cup page.strayed BY <3>4 DEF IInv, PageInv, ListsOf
      <3>7. MaySet(p) /\ NewestTrail(p, net \ {q}) BY <3>4, <3>5, <3>6, PanelsMaySet
      <3> QED BY <1>0, <3>1, <3>4, <3>7, CommitStep, NothingAsked
    <2>2. CASE ~Mine(q)
      <3>1. Commit(page, net \ {q}, {}) BY <1>6, <2>2 DEF GotFile
      <3> QED BY <1>0, <1>p, <3>1, AlikeStep, NothingAsked
    <2> QED BY <2>1, <2>2
  <1> QED BY <1>1, <1>2, <1>3, <1>4, <1>5, <1>6

LEMMA ListsStep ==
  ASSUME IInv, NEW q \in net, q.got # None, q.got.code = 200, UNCHANGED <<server, panel>>,
         \/ q.kind = "messages" /\ GotMessages(q, net \ {q})
         \/ q.kind = "grants" /\ GotGrants(q, net \ {q})
         \/ q.kind = "files" /\ GotFiles(q, net \ {q})
         \/ q.kind = "approvals" /\ GotApprovals(q, net \ {q})
         \/ q.kind = "events" /\ GotEvents(q, net \ {q})
  PROVE  Keeps
  <1>0. MayStay(net \ {q}) BY SubsetStays
  <1>p. Alike(page) /\ page \in PageSet BY PageAlike DEF IInv, PageInv
  <1>l. /\ page.messages \subseteq Own(page.user) \cup page.strayed
        /\ page.agents \subseteq Own(page.user)
        /\ page.selected # None => page.selected \in Own(page.user) \cup page.strayed
    BY DEF IInv, PageInv, ListsOf
  <1>d. /\ q \in NetSet /\ q.got \in AnswerSet /\ AnswerOK(q) /\ (q.live => q.by = page.user)
        /\ (q.kind \in OfAgent => q.agent \in Agents /\ q.agent # None)
    BY Delivered DEF RequestOK
  <1>s. ASSUME Commit(page, net \ {q}, {}) PROVE Keeps
    BY <1>0, <1>p, <1>s, AlikeStep, NothingAsked
  <1>1. CASE q.kind = "messages" /\ GotMessages(q, net \ {q})
    <2> DEFINE p == [page EXCEPT !.messages = {q.agent}]
    <2>1. CASE Mine(q)
      <3>1. Commit(p, net \ {q}, {}) BY <1>1, <2>1 DEF GotMessages
      <3>2. q.agent \in Agents /\ q.agent \in Own(page.user)
        BY <1>1, <1>d, <2>1 DEF OfAgent, AnswerOK, Mine
      <3>3. /\ p \in PageSet /\ p.user = page.user /\ p.agents = page.agents
            /\ p.selected = page.selected /\ p.filter = page.filter
            /\ p.messages = {q.agent} /\ p.run = page.run /\ p.events = page.events
            /\ p.approvals = page.approvals /\ p.decided = page.decided
            /\ p.grants = page.grants /\ p.files = page.files
            /\ p.strayed = page.strayed /\ SamePast(p, page)
            /\ p.openFile = page.openFile
        BY <1>p, <3>2 DEF PageSet, SamePast
      <3> HIDE DEF p
      <3>4. PanelsOf(p) BY <3>3 DEF IInv, PageInv, PanelsOf
      <3>5. p.messages \subseteq Own(page.user) \cup page.strayed BY <3>2, <3>3
      <3>6. MaySet(p) /\ NewestTrail(p, net \ {q}) BY <3>3, <3>4, <3>5, PanelsMaySet
      <3> QED BY <1>0, <3>1, <3>3, <3>6, CommitStep, NothingAsked
    <2>2. CASE ~Mine(q) BY <1>1, <1>s, <2>2 DEF GotMessages
    <2> QED BY <2>1, <2>2
  <1>2. CASE q.kind = "grants" /\ GotGrants(q, net \ {q})
    <2> DEFINE p == [page EXCEPT !.grants = q.agent]
    <2>1. CASE Mine(q)
      <3>1. Commit(p, net \ {q}, {}) BY <1>2, <2>1 DEF GotGrants
      <3>2. q.agent \in Agents BY <1>2, <1>d DEF OfAgent
      <3>3. /\ p \in PageSet /\ p.user = page.user /\ p.agents = page.agents
            /\ p.selected = page.selected /\ p.filter = page.filter
            /\ p.messages = page.messages /\ p.run = page.run /\ p.events = page.events
            /\ p.approvals = page.approvals /\ p.decided = page.decided
            /\ p.grants = q.agent /\ p.files = page.files
            /\ p.strayed = page.strayed /\ SamePast(p, page)
            /\ p.openFile = page.openFile
        BY <1>p, <3>2 DEF PageSet, SamePast
      <3> HIDE DEF p
      <3>4. PanelsOf(p) BY <2>1, <3>3 DEF IInv, PageInv, PanelsOf, Mine, OnScreen
      <3>6. MaySet(p) /\ NewestTrail(p, net \ {q}) BY <1>l, <3>3, <3>4, PanelsMaySet
      <3> QED BY <1>0, <3>1, <3>3, <3>6, CommitStep, NothingAsked
    <2>2. CASE ~Mine(q) BY <1>2, <1>s, <2>2 DEF GotGrants
    <2> QED BY <2>1, <2>2
  <1>3. CASE q.kind = "files" /\ GotFiles(q, net \ {q})
    <2> DEFINE p == [page EXCEPT !.files = q.agent]
    <2>1. CASE Mine(q)
      <3>1. Commit(p, net \ {q}, {}) BY <1>3, <2>1 DEF GotFiles
      <3>2. q.agent \in Agents BY <1>3, <1>d DEF OfAgent
      <3>3. /\ p \in PageSet /\ p.user = page.user /\ p.agents = page.agents
            /\ p.selected = page.selected /\ p.filter = page.filter
            /\ p.messages = page.messages /\ p.run = page.run /\ p.events = page.events
            /\ p.approvals = page.approvals /\ p.decided = page.decided
            /\ p.grants = page.grants /\ p.files = q.agent
            /\ p.strayed = page.strayed /\ SamePast(p, page)
            /\ p.openFile = page.openFile
        BY <1>p, <3>2 DEF PageSet, SamePast
      <3> HIDE DEF p
      <3>4. PanelsOf(p) BY <2>1, <3>3 DEF IInv, PageInv, PanelsOf, Mine, OnScreen
      <3>6. MaySet(p) /\ NewestTrail(p, net \ {q}) BY <1>l, <3>3, <3>4, PanelsMaySet
      <3> QED BY <1>0, <3>1, <3>3, <3>6, CommitStep, NothingAsked
    <2>2. CASE ~Mine(q) BY <1>3, <1>s, <2>2 DEF GotFiles
    <2> QED BY <2>1, <2>2
  <1>4. CASE q.kind = "approvals" /\ GotApprovals(q, net \ {q})
    <2> DEFINE o == q.got.of
               d == (page.decided \cap o) \cup q.got.done
               p == Listed(page, o, d)
    <2>1. CASE q.live
      <3>1. Commit(p, net \ {q}, {}) BY <1>4, <2>1 DEF GotApprovals
      <3>2. o \subseteq OwnCards(page.user) BY <1>4, <1>d, <2>1 DEF AnswerOK
      <3>3. d \in SUBSET Cards /\ page.decided \cap o \subseteq d BY <1>p, <1>d DEF AnswerSet, PageSet
      <3>4. page.deciding \in BOOLEAN BY <1>p DEF PageSet
      <3> HIDE DEF d, o
      <3>5. LET z == Relisted(o, d, page.deciding)
            IN z \in PageSet /\ MaySet(z) /\ NewestTrail(z, net \ {q}) /\ z.user = page.user
        BY <3>2, <3>3, <3>4, ListedMaySet
      <3>6. p = Relisted(o, d, page.deciding) BY <1>p DEF Listed, Relisted, PageSet
      <3> HIDE DEF p
      <3> QED BY <1>0, <3>1, <3>5, <3>6, CommitStep, NothingAsked
    <2>2. CASE ~q.live BY <1>4, <1>s, <2>2 DEF GotApprovals
    <2> QED BY <2>1, <2>2
  <1>5. CASE q.kind = "events" /\ GotEvents(q, net \ {q})
    <2> DEFINE e == [agent |-> q.agent, filter |-> q.arg, rows |-> q.got.n]
               p == [page EXCEPT !.events = e]
    <2>1. CASE Mine(q) /\ q.fresh /\ page.filter = q.arg
      <3>1. Commit(p, net \ {q}, {}) BY <1>5, <2>1 DEF GotEvents
      <3>2. q.agent \in Agents /\ q.got.n \in Nat /\ q.arg \in Filters
        BY <1>5, <1>d, <1>p, <2>1 DEF OfAgent, AnswerSet, PageSet
      <3>a. /\ e \in [agent : Agents, filter : Filters, rows : Nat]
            /\ e.agent = q.agent /\ e.filter = q.arg /\ e.rows = q.got.n
        BY <3>2
      <3> HIDE DEF e
      <3>3. /\ p \in PageSet /\ p.user = page.user /\ p.agents = page.agents
            /\ p.selected = page.selected /\ p.filter = page.filter
            /\ p.messages = page.messages /\ p.run = page.run /\ p.events = e
            /\ p.approvals = page.approvals /\ p.decided = page.decided
            /\ p.grants = page.grants /\ p.files = page.files
            /\ p.strayed = page.strayed /\ SamePast(p, page)
            /\ p.openFile = page.openFile
        BY <1>p, <3>a DEF PageSet, SamePast
      <3> HIDE DEF p
      <3>4. PanelsOf(p) BY <3>3 DEF IInv, PageInv, PanelsOf
      <3>5. TrailOf(p) BY <2>1, <3>3, <3>a DEF TrailOf, Mine, OnScreen
      <3>6. ListsOf(p) BY <3>3 DEF IInv, PageInv, ListsOf, SamePast
          <3>8. MaySet(p) BY <3>3, <3>4, <3>5, <3>6 DEF MaySet
      <3>9. q \in net \ (net \ {q}) OBVIOUS
      <3>10. NewestTrail(p, net \ {q}) BY <1>5, <2>1, <3>3, <3>a, <3>9 DEF NewestTrail
      <3> QED BY <1>0, <3>1, <3>3, <3>8, <3>10, CommitStep, NothingAsked
    <2>2. CASE ~(Mine(q) /\ q.fresh /\ page.filter = q.arg) BY <1>5, <1>s, <2>2 DEF GotEvents
    <2> QED BY <2>1, <2>2
  <1> QED BY <1>1, <1>2, <1>3, <1>4, <1>5

\* A run of the agent on screen is put in its panel.
LEMMA RunMaySet ==
  ASSUME IInv, NEW x \in {None} \cup [agent : Agents, n : Nat], x # None => x.agent = page.selected,
         NEW rest
  PROVE  LET p == [page EXCEPT !.run = x]
         IN p \in PageSet /\ MaySet(p) /\ NewestTrail(p, rest) /\ p.user = page.user
  <1> DEFINE p == [page EXCEPT !.run = x]
  <1>1. page \in PageSet BY DEF IInv, PageInv
  <1>2. /\ p \in PageSet /\ p.user = page.user /\ p.agents = page.agents
        /\ p.selected = page.selected /\ p.filter = page.filter
        /\ p.messages = page.messages /\ p.run = x /\ p.events = page.events
        /\ p.approvals = page.approvals /\ p.decided = page.decided
        /\ p.grants = page.grants /\ p.files = page.files
        /\ p.strayed = page.strayed /\ SamePast(p, page)
        /\ p.openFile = page.openFile
    BY <1>1 DEF PageSet, SamePast
  <1> HIDE DEF p
  <1>3. PanelsOf(p) BY <1>2 DEF IInv, PageInv, PanelsOf
  <1>4. p.messages \subseteq Own(page.user) \cup page.strayed BY <1>2 DEF IInv, PageInv, ListsOf
  <1>5. MaySet(p) /\ NewestTrail(p, rest) BY <1>2, <1>3, <1>4, PanelsMaySet
  <1> QED BY <1>2, <1>5 DEF p

LEMMA SentMaySet ==
  ASSUME IInv, NEW a \in Agents, a = page.selected, NEW rest
  PROVE  LET p == [page EXCEPT !.messages = @ \cup {a}, !.run = [agent |-> a, n |-> 1]]
         IN p \in PageSet /\ MaySet(p) /\ NewestTrail(p, rest) /\ p.user = page.user
  <1> DEFINE x == [agent |-> a, n |-> 1]
             m == page.messages \cup {a}
             p == [page EXCEPT !.messages = @ \cup {a}, !.run = x]
  <1>1. page \in PageSet /\ ListsOf(page) BY DEF IInv, PageInv
  <1>a. p = [page EXCEPT !.messages = m, !.run = x] OBVIOUS
  <1>b. x \in [agent : Agents, n : Nat] /\ x.agent = a OBVIOUS
  <1>c. m \in SUBSET Agents BY <1>1 DEF PageSet
  <1>d. a # None BY ApiConstants
  <1>e. m \subseteq Own(page.user) \cup page.strayed BY <1>1, <1>d DEF ListsOf
  <1> HIDE DEF x, m, p
  <1>2. /\ p \in PageSet /\ p.user = page.user /\ p.agents = page.agents
        /\ p.selected = page.selected /\ p.filter = page.filter /\ p.messages = m
        /\ p.run = x /\ p.events = page.events /\ p.approvals = page.approvals
        /\ p.decided = page.decided /\ p.grants = page.grants /\ p.files = page.files
        /\ p.strayed = page.strayed /\ SamePast(p, page) /\ p.openFile = page.openFile
    BY <1>1, <1>a, <1>b, <1>c, ZenonT(40) DEF PageSet, SamePast
  <1>3. PanelsOf(p) BY <1>2, <1>b DEF IInv, PageInv, PanelsOf
  <1>5. MaySet(p) /\ NewestTrail(p, rest) BY <1>2, <1>3, <1>e, PanelsMaySet
  <1> QED BY <1>2, <1>5 DEF p, x

\* So are its scopes, of the user's own agent.
Polled(x, a) == [page EXCEPT !.run = x, !.scopes = a]

LEMMA PolledMaySet ==
  ASSUME IInv, NEW x \in {None} \cup [agent : Agents, n : Nat], x # None => x.agent = page.selected,
         NEW a \in Own(page.user), NEW rest
  PROVE  LET p == Polled(x, a)
         IN p \in PageSet /\ MaySet(p) /\ NewestTrail(p, rest) /\ p.user = page.user
  <1> DEFINE y == [page EXCEPT !.run = x]
             p == Polled(x, a)
  <1>1. y \in PageSet /\ MaySet(y) /\ NewestTrail(y, rest) /\ y.user = page.user BY RunMaySet
  <1>3. p = [y EXCEPT !.scopes = a] /\ a \in Agents BY DEF Own, Polled
  <1> HIDE DEF y, p
  <1>4. p \in PageSet BY <1>1, <1>3, ZenonT(40) DEF PageSet
  <1>5. /\ p.auth = y.auth /\ p.user = y.user /\ p.agents = y.agents /\ p.selected = y.selected
        /\ p.filter = y.filter /\ p.messages = y.messages /\ p.run = y.run
        /\ p.events = y.events /\ p.approvals = y.approvals /\ p.decided = y.decided
        /\ p.grants = y.grants /\ p.files = y.files /\ p.openFile = y.openFile
        /\ p.strayed = y.strayed /\ p.scopes = a /\ p.left = y.left
        /\ p.seen = y.seen /\ p.lost = y.lost
    BY <1>1, <1>3 DEF PageSet
  <1>6. ListsOf(p) BY <1>1, <1>5 DEF MaySet, ListsOf
  <1>7. Moved(page, p) \/ PanelsOf(p) BY <1>1, <1>5 DEF MaySet, Moved, PanelsOf
  <1>8. Timeline(page) # Timeline(p) \/ TrailOf(p) BY <1>1, <1>5 DEF MaySet, Timeline, TrailOf
  <1>9. NewestTrail(p, rest) BY <1>1, <1>5 DEF NewestTrail
  <1> QED BY <1>1, <1>4, <1>5, <1>6, <1>7, <1>8, <1>9 DEF MaySet, p

\* The run on screen is stopped.
LEMMA StoppedMaySet ==
  ASSUME IInv, page.run # None, NEW rest
  PROVE  LET p == [page EXCEPT !.run.n = 2]
         IN p \in PageSet /\ MaySet(p) /\ NewestTrail(p, rest) /\ p.user = page.user
  <1> DEFINE x == [page.run EXCEPT !.n = 2]
  <1>1. page \in PageSet /\ PanelsOf(page) BY DEF IInv, PageInv
  <1>2. page.run \in [agent : Agents, n : Nat] BY <1>1 DEF PageSet
  <1>3. x \in [agent : Agents, n : Nat] /\ x.agent = page.run.agent BY <1>2
  <1>4. x # None => x.agent = page.selected BY <1>1, <1>3 DEF PanelsOf
  <1>5. [page EXCEPT !.run.n = 2] = [page EXCEPT !.run = x] OBVIOUS
  <1> HIDE DEF x
  <1> QED BY <1>3, <1>4, <1>5, RunMaySet

\* What the catch and finally blocks leave of the page.
LEMMA FailedMaySet ==
  ASSUME IInv, NEW b \in BOOLEAN, NEW d \in BOOLEAN,
         NEW x \in {None} \cup [agent : Agents, n : Nat], x # None => x.agent = page.selected, NEW rest
  PROVE  LET p == [page EXCEPT !.busy = b, !.run = x, !.deciding = d]
         IN p \in PageSet /\ MaySet(p) /\ NewestTrail(p, rest) /\ p.user = page.user
  <1> DEFINE p == [page EXCEPT !.busy = b, !.run = x, !.deciding = d]
  <1>1. page \in PageSet BY DEF IInv, PageInv
  <1>a. [page EXCEPT !.busy = b] \in PageSet BY <1>1 DEF PageSet
  <1>b. [[page EXCEPT !.busy = b] EXCEPT !.run = x] \in PageSet BY <1>a, ZenonT(100) DEF PageSet
  <1>c. p = [[[page EXCEPT !.busy = b] EXCEPT !.run = x] EXCEPT !.deciding = d] OBVIOUS
  <1>d. p \in PageSet BY <1>b, <1>c, ZenonT(100) DEF PageSet
  <1>2. /\ p \in PageSet /\ p.user = page.user /\ p.agents = page.agents
        /\ p.selected = page.selected /\ p.filter = page.filter
        /\ p.messages = page.messages /\ p.run = x /\ p.events = page.events
        /\ p.approvals = page.approvals /\ p.decided = page.decided
        /\ p.grants = page.grants /\ p.files = page.files
        /\ p.strayed = page.strayed /\ SamePast(p, page)
        /\ p.openFile = page.openFile
    BY <1>1, <1>d DEF PageSet, SamePast
  <1> HIDE DEF p
  <1>3. PanelsOf(p) BY <1>2 DEF IInv, PageInv, PanelsOf
  <1>4. p.messages \subseteq Own(page.user) \cup page.strayed BY <1>2 DEF IInv, PageInv, ListsOf
  <1>5. MaySet(p) /\ NewestTrail(p, rest) BY <1>2, <1>3, <1>4, PanelsMaySet
  <1> QED BY <1>2, <1>5 DEF p

LEMMA PollRunStep ==
  ASSUME IInv, NEW p, p \in PageSet, NEW rest, MayStay(rest), MaySet(p), NewestTrail(p, rest),
         p.user = page.user, NEW a \in Agents, NEW why \in {"select", "send"},
         PollRun(p, rest, a, why, {}), UNCHANGED <<server, panel>>
  PROVE  Keeps
  <1> DEFINE r == Request(p, "wait", a, why)
             asked == {} \cup IF a \in polling THEN {} ELSE {r}
  <1>1. "wait" \in OfAgent \ {"events"} /\ why \in Args BY DEF OfAgent, Args
  <1>2. AskedBy(p, r) /\ r.kind = "wait" BY <1>1, AskAgent
  <1> HIDE DEF r
  <1>3. MayAsk(p, asked) BY <1>2 DEF MayAsk
  <1>4. Commit(p, rest, asked) BY DEF PollRun, r
  <1> QED BY <1>3, <1>4, CommitStep

LEMMA RunsStep ==
  ASSUME IInv, NEW q \in net, q.got # None, q.got.code = 200, UNCHANGED <<server, panel>>,
         \/ q.kind = "runs" /\ GotRuns(q, net \ {q})
         \/ q.kind = "send" /\ GotSent(q, net \ {q})
         \/ q.kind = "stop" /\ GotStopped(q, net \ {q})
         \/ q.kind = "run" /\ GotRun(q, net \ {q})
  PROVE  Keeps
  <1>0. MayStay(net \ {q}) BY SubsetStays
  <1>p. Alike(page) /\ page \in PageSet BY PageAlike DEF IInv, PageInv
  <1>m. MaySet(page) /\ NewestTrail(page, net \ {q}) BY <1>p, AlikeMaySet
  <1>d. q.agent \in Agents /\ q.got.n \in Nat /\ q.arg \in Args
    BY Delivered DEF OfAgent, AnswerSet, NetSet
  <1>e. ASSUME NEW n \in Nat
        PROVE  /\ [agent |-> q.agent, n |-> n] \in {None} \cup [agent : Agents, n : Nat]
               /\ [agent |-> q.agent, n |-> n].agent = q.agent
    BY <1>d, <1>e
  <1>1. CASE q.kind = "runs" /\ GotRuns(q, net \ {q})
    <2> DEFINE x == IF q.got.n = 0 THEN None ELSE [agent |-> q.agent, n |-> q.got.n]
               p == [page EXCEPT !.run = x]
    <2>1. CASE OnScreen(q)
      <3>1. x \in {None} \cup [agent : Agents, n : Nat] /\ (x # None => x.agent = page.selected)
        BY <1>d, <1>e, <2>1 DEF OnScreen
      <3>2. \/ PollRun(p, net \ {q}, q.agent, "select", {})
            \/ Commit(p, net \ {q}, {})
        BY <1>1, <2>1 DEF GotRuns
      <3> HIDE DEF x
      <3>3. p \in PageSet /\ MaySet(p) /\ NewestTrail(p, net \ {q}) /\ p.user = page.user
        BY <3>1, RunMaySet
      <3> HIDE DEF p
      <3>4. CASE PollRun(p, net \ {q}, q.agent, "select", {}) BY <1>0, <1>d, <3>3, <3>4, PollRunStep
      <3>5. CASE Commit(p, net \ {q}, {}) BY <1>0, <3>3, <3>5, CommitStep, NothingAsked
      <3> QED BY <3>2, <3>4, <3>5
    <2>2. CASE ~OnScreen(q)
      <3>1. Commit(page, net \ {q}, {}) BY <1>1, <2>2 DEF GotRuns
      <3> QED BY <1>0, <1>p, <3>1, AlikeStep, NothingAsked
    <2> QED BY <2>1, <2>2
  <1>2. CASE q.kind = "send" /\ GotSent(q, net \ {q})
    <2>1. CASE OnScreen(q)
      <3> DEFINE p == [page EXCEPT !.messages = @ \cup {q.agent}, !.run = [agent |-> q.agent, n |-> 1]]
      <3>1. PollRun(p, net \ {q}, q.agent, "send", {}) BY <1>2, <2>1 DEF GotSent
      <3>2. p \in PageSet /\ MaySet(p) /\ NewestTrail(p, net \ {q}) /\ p.user = page.user
        BY <1>d, <2>1, SentMaySet, ZenonT(40) DEF OnScreen
      <3> HIDE DEF p
      <3> QED BY <1>0, <1>d, <3>1, <3>2, PollRunStep
    <2>2. CASE ~OnScreen(q)
      <3>1. PollRun(page, net \ {q}, q.agent, "send", {}) BY <1>2, <2>2 DEF GotSent
      <3> QED BY <1>0, <1>d, <1>m, <1>p, <3>1, PollRunStep
    <2> QED BY <2>1, <2>2
  <1>3. CASE q.kind = "stop" /\ GotStopped(q, net \ {q})
    <2> DEFINE asked == {Request(page, "agents", None, "last"),
                         Request(page, "messages", q.agent, None)}
               p == [page EXCEPT !.run.n = 2]
    <2>1. ASSUME NEW z, z.user = page.user PROVE MayAsk(z, asked)
      <3>1. "messages" \in OfAgent \ {"events"} /\ None \in Args /\ "last" \in Args BY DEF OfAgent, Args
      <3>2. /\ AskedBy(page, Request(page, "agents", None, "last"))
            /\ Request(page, "agents", None, "last").kind = "agents"
        BY <3>1, AskLists
      <3>3. /\ AskedBy(page, Request(page, "messages", q.agent, None))
            /\ Request(page, "messages", q.agent, None).kind = "messages"
        BY <1>d, <1>p, <3>1, AskAgent
      <3>4. /\ AskedBy(z, Request(page, "agents", None, "last"))
            /\ AskedBy(z, Request(page, "messages", q.agent, None))
        BY <2>1, <3>2, <3>3 DEF AskedBy
      <3> QED BY <3>2, <3>3, <3>4, TwoAsked
    <2>2. CASE page.run # None
      <3>1. Commit(p, net \ {q}, asked) BY <1>3, <2>2 DEF GotStopped
      <3>2. p \in PageSet /\ MaySet(p) /\ NewestTrail(p, net \ {q}) /\ p.user = page.user
        BY <2>2, StoppedMaySet
      <3> HIDE DEF p
      <3>3. MayAsk(p, asked) BY <2>1, <3>2
      <3> QED BY <1>0, <3>1, <3>2, <3>3, CommitStep
    <2>3. CASE page.run = None
      <3>1. Commit(page, net \ {q}, asked) BY <1>3, <2>3 DEF GotStopped
      <3>2. MayAsk(page, asked) BY <2>1
      <3> QED BY <1>0, <1>p, <3>1, <3>2, AlikeStep
    <2> QED BY <2>2, <2>3
  <1>4. CASE q.kind = "run" /\ GotRun(q, net \ {q})
    <2> DEFINE x == [agent |-> q.agent, n |-> q.got.n]
               p == IF Mine(q) THEN Polled(x, q.agent) ELSE page
    <2>1. p \in PageSet /\ MaySet(p) /\ NewestTrail(p, net \ {q}) /\ p.user = page.user
      <3>1. CASE Mine(q)
        <4>1. x \in {None} \cup [agent : Agents, n : Nat] /\ x.agent = page.selected
          BY <1>d, <1>e, <3>1 DEF Mine, OnScreen
        <4>2. p = Polled(x, q.agent) BY <3>1
        <4>3. q.agent \in Own(page.user)
          <5>1. RequestOK(q) /\ AnswerOK(q) BY DEF IInv, NetInv
          <5>2. q.live /\ q.kind \in OfAgent BY <1>4, <3>1 DEF Mine, OfAgent
          <5>3. q.by = page.user /\ q.agent # None
            BY <5>1, <5>2, ApiConstants DEF RequestOK
          <5> QED BY <5>1, <5>3 DEF AnswerOK
        <4> HIDE DEF x, p
        <4> QED BY <4>1, <4>2, <4>3, PolledMaySet
      <3>2. CASE ~Mine(q) BY <1>m, <1>p, <3>2
      <3> QED BY <3>1, <3>2
    <2>2. \/ Commit(p, net \ {q}, {Request(p, "messages", q.agent, "closing"),
                                    Request(p, "agents", None, "closing"),
                                    Request(p, "closing", q.agent, None)})
          \/ Commit(p, net \ {q}, {Request(p, "wait", q.agent, q.arg)})
          \/ Commit(p, net \ {q}, {})
      BY <1>4 DEF GotRun, Polled
    <2> HIDE DEF p
    <2>3. /\ {"messages", "closing", "wait"} \subseteq OfAgent \ {"events"}
          /\ "closing" \in Args /\ None \in Args
      BY DEF OfAgent, Args
    <2>4. p.user \in Users \cup {None} /\ "agents" \in Kinds /\ "agents" \notin OfAgent
      BY <2>1 DEF PageSet, Kinds, OfAgent
    <2>5. /\ AskedBy(p, Request(p, "messages", q.agent, "closing"))
          /\ Request(p, "messages", q.agent, "closing").kind = "messages"
          /\ AskedBy(p, Request(p, "closing", q.agent, None))
          /\ Request(p, "closing", q.agent, None).kind = "closing"
          /\ AskedBy(p, Request(p, "wait", q.agent, q.arg))
          /\ Request(p, "wait", q.agent, q.arg).kind = "wait"
      BY <1>d, <2>1, <2>3, AskAgent
    <2>6. /\ AskedBy(p, Request(p, "agents", None, "closing"))
          /\ Request(p, "agents", None, "closing").kind = "agents"
      BY <2>3, <2>4, RequestIsAsked
    <2>7. /\ MayAsk(p, {Request(p, "messages", q.agent, "closing"),
                        Request(p, "agents", None, "closing"), Request(p, "closing", q.agent, None)})
          /\ MayAsk(p, {Request(p, "wait", q.agent, q.arg)})
      BY <2>5, <2>6 DEF MayAsk
    <2> QED BY <1>0, <2>1, <2>2, <2>7, CommitStep, NothingAsked
  <1> QED BY <1>1, <1>2, <1>3, <1>4

\* The timer of pollRun, and its end.
LEMMA TimerStep ==
  ASSUME IInv, NEW q \in net, Tick(q, net \ {q}) \/ Forget(q, net \ {q})
  PROVE  Keeps
  <1>0. MayStay(net \ {q}) BY SubsetStays
  <1>p. Alike(page) /\ page \in PageSet BY PageAlike DEF IInv, PageInv
  <1>1. UNCHANGED <<server, panel>> BY DEF Tick, Forget, Human
  <1>2. CASE Commit(page, net \ {q}, {}) BY <1>0, <1>1, <1>2, <1>p, AlikeStep, NothingAsked
  <1>3. CASE q.kind = "wait" /\ Commit(page, net \ {q}, {Request(page, "run", q.agent, q.arg)})
    <2>1. q.agent \in Agents /\ q.arg \in Args /\ "run" \in OfAgent \ {"events"}
      BY <1>3 DEF IInv, NetInv, RequestOK, OfAgent, NetSet
    <2>2. /\ AskedBy(page, Request(page, "run", q.agent, q.arg))
          /\ Request(page, "run", q.agent, q.arg).kind = "run"
      BY <1>p, <2>1, AskAgent
    <2>3. MayAsk(page, {Request(page, "run", q.agent, q.arg)}) BY <2>2, OneAsked
    <2> QED BY <1>0, <1>1, <1>3, <1>p, <2>3, AlikeStep
  <1> QED BY <1>2, <1>3 DEF Tick, Forget

\* A failed request, and a refused one.
LEMMA FailsStep ==
  ASSUME IInv, NEW q \in net, q.got # None, Fails(q, net \ {q}), UNCHANGED <<server, panel>>
  PROVE  Keeps
  <1> DEFINE sent == q.kind = "send" \/ (q.kind = "run" /\ q.arg = "send")
             last == \/ q.kind \in {"login", "create", "delete", "stop"}
                     \/ q.kind = "system" /\ q.arg = "login"
                     \/ q.kind = "agents" /\ (q.arg \in Agents \/ q.arg = "last")
                     \/ \E r \in net \ {q} : r.kind = "system" /\ r.arg = "login" /\ q.arg = "boot"
             b == IF last THEN FALSE ELSE page.busy
             d == IF q.kind = "decide" /\ q.live THEN FALSE ELSE page.deciding
             x == IF sent THEN None ELSE page.run
             rest == IF q.kind = "agents" /\ q.arg = "boot"
                     THEN {IF r.kind = "system" THEN [r EXCEPT !.arg = "lost"] ELSE r : r \in net \ {q}}
                     ELSE net \ {q}
             asked == IF sent THEN {Request(page, "agents", None, "list")} ELSE {}
  <1>a. page.busy \in BOOLEAN /\ page.deciding \in BOOLEAN BY DEF IInv, PageInv, PageSet
  <1>b. b \in BOOLEAN /\ d \in BOOLEAN /\ x \in {None, page.run} BY <1>a
  <1>c. Commit([page EXCEPT !.busy = b, !.run = x, !.deciding = d], rest, asked) BY DEF Fails
  <1>d. /\ rest \in {net \ {q},
                     {IF r.kind = "system" THEN [r EXCEPT !.arg = "lost"] ELSE r : r \in net \ {q}}}
        /\ asked \in {{}, {Request(page, "agents", None, "list")}}
    OBVIOUS
  <1> HIDE DEF b, d, x, rest, asked
  <1> DEFINE p == [page EXCEPT !.busy = b, !.run = x, !.deciding = d]
  <1>2. p \in PageSet /\ MaySet(p) /\ NewestTrail(p, rest) /\ p.user = page.user
    <2>1. page \in PageSet /\ PanelsOf(page) BY DEF IInv, PageInv
    <2>2. x \in {None} \cup [agent : Agents, n : Nat] BY <1>b, <2>1 DEF PageSet
    <2>3. x # None => x.agent = page.selected BY <1>b, <2>1 DEF PanelsOf
    <2>4. b \in BOOLEAN /\ d \in BOOLEAN BY <1>b
    <2> QED BY <2>2, <2>3, <2>4, FailedMaySet
  <1>3. MayStay(rest)
    <2>1. ASSUME NEW r \in rest
          PROVE  \E s \in net : r = s \/ (s.kind = "system" /\ r = [s EXCEPT !.arg = "lost"])
      BY <1>d, <2>1
    <2> QED BY <2>1 DEF MayStay
  <1> HIDE DEF p
  <1>4. MayAsk(p, asked)
    <2>1. "list" \in Args BY DEF Args
    <2>2. /\ AskedBy(page, Request(page, "agents", None, "list"))
          /\ Request(page, "agents", None, "list").kind = "agents"
      BY <2>1, AskLists
    <2>3. AskedBy(p, Request(page, "agents", None, "list")) BY <1>2, <2>2 DEF AskedBy
    <2> QED BY <1>d, <2>2, <2>3, OneAsked, NothingAsked
  <1>5. Commit(p, rest, asked) BY <1>c DEF p
  <1> QED BY <1>2, <1>3, <1>4, <1>5, CommitStep

LEMMA DeliverStep == ASSUME IInv, NEW q \in net, Deliver(q) PROVE Keeps
  <1>1. q.got # None /\ UNCHANGED <<server, panel>> BY DEF Deliver, Human
  <1>2. CASE q.got.code = 200 /\ Got(q, net \ {q})
    BY <1>1, <1>2, AuthStep, LoginStep, AgentsStep, QuietStep, ListsStep, RunsStep DEF Got
  <1>3. CASE Expires(q, net \ {q}) BY <1>1, <1>3, ClearStep DEF Expires
  <1>4. CASE Fails(q, net \ {q}) BY <1>1, <1>4, FailsStep
  <1> QED BY <1>2, <1>3, <1>4 DEF Deliver
--------------------------------------------------------------------------------
(* The server and the network                                                   *)

\* What the server answers is its sender's.
LEMMA ReplyIsOwn ==
  ASSUME IInv, NEW q \in net
  PROVE  LET g == Reply(q)
         IN /\ g \in AnswerSet
            /\ g.code = 200 => /\ q.agent # None => q.agent \in Own(q.by)
                               /\ q.kind \in {"agents", "create"} => g.of \subseteq Own(q.by)
                               /\ q.kind = "approvals" => g.of \subseteq OwnCards(q.by)
                               /\ q.kind = "events" => g.n = rows[q.agent]
  <1> DEFINE g == Reply(q)
  <1>1. q.kind \in OfAgent => q.agent \in Agents BY DEF IInv, NetInv, RequestOK
  <1>2. CASE ~Owned(q) \/ ~Accepts(q)
    <2>1. g = Answer(400) BY <1>2 DEF Reply
    <2> QED BY <2>1 DEF Answer, AnswerSet
  <1>3. CASE Owned(q) /\ Accepts(q)
    <2> DEFINE n == CASE q.kind \in {"runs", "run"} -> runs[q.agent]
                      [] q.kind = "events"          -> rows[q.agent]
                      [] OTHER                      -> 0
               of == CASE q.kind = "agents"    -> OfUser(q.by)
                       [] q.kind = "approvals" -> CardsOf(q.by)
                       [] q.kind = "create"    -> {Created(q)}
                       [] OTHER                -> {}
               done == IF q.kind = "approvals" THEN {c \in CardsOf(q.by) : cards[c] = "decided"} ELSE {}
    <2>1. g = [code |-> 200, n |-> n, of |-> of, done |-> done] BY <1>3 DEF Reply
    <2>2. n \in Nat /\ (q.kind = "events" => n = rows[q.agent])
      <3>1. q.kind \in {"runs", "run", "events"} => q.agent \in Agents BY <1>1 DEF OfAgent
      <3> QED BY <3>1 DEF IInv, ServerInv
    <2>3. done \in SUBSET Cards BY DEF CardsOf
    <2>4. /\ of \in SUBSET (Agents \cup Cards)
          /\ q.kind \in {"agents", "create"} => of \subseteq Own(q.by)
          /\ q.kind = "approvals" => of \subseteq OwnCards(q.by)
      <3>1. CASE q.kind = "agents"
        <4>1. of = OfUser(q.by) BY <3>1
        <4> HIDE DEF of
        <4> QED BY <3>1, <4>1 DEF OfUser, Own
      <3>2. CASE q.kind = "approvals"
        <4>1. of = CardsOf(q.by) BY <3>2
        <4> HIDE DEF of
        <4> QED BY <3>2, <4>1 DEF CardsOf, OwnCards
      <3>3. CASE q.kind = "create"
        <4>1. of = {Created(q)} BY <3>3
        <4>2. NewFor(q.by) # {} BY <1>3, <3>3 DEF Accepts
        <4>3. Created(q) \in NewFor(q.by) BY <4>2 DEF Created
        <4> HIDE DEF of
        <4> QED BY <3>3, <4>1, <4>3 DEF NewFor, Own
      <3>4. CASE q.kind \notin {"agents", "approvals", "create"}
        <4>1. of = {} BY <3>4
        <4> HIDE DEF of
        <4> QED BY <3>4, <4>1
      <3> QED BY <3>1, <3>2, <3>3, <3>4
    <2>5. q.agent # None => q.agent \in Own(q.by) BY <1>3 DEF Owned, OwnsAgent, OfUser, Own
    <2> HIDE DEF n, of, done
    <2>6. g \in AnswerSet /\ g.n = n /\ g.of = of BY <2>1, <2>2, <2>3, <2>4 DEF AnswerSet
    <2> QED BY <2>2, <2>4, <2>5, <2>6
  <1> QED BY <1>2, <1>3

\* A request is answered.
LEMMA AnsweredStep ==
  ASSUME IInv, NEW q \in net, q.kind \notin {"wait", "closing"}, NEW g \in AnswerSet,
         net' = (net \ {q}) \cup {[q EXCEPT !.got = g]},
         UNCHANGED <<panel, page, polling, rows>>, runs' \in [Agents -> Nat],
         g.code = 200 => /\ q.agent # None => q.agent \in Own(q.by)
                         /\ q.kind \in {"agents", "create"} => g.of \subseteq Own(q.by)
                         /\ q.kind = "approvals" => g.of \subseteq OwnCards(q.by)
                         /\ q.kind = "events" => g.n = rows[q.agent]
  PROVE  IInv' /\ MovesForward
  <1> DEFINE z == [q EXCEPT !.got = g]
  <1>1. RequestOK(q) /\ (q.kind \in OfAgent => q.agent \in Agents) BY DEF IInv, NetInv, RequestOK
  <1>2. /\ z \in NetSet /\ z.kind = q.kind /\ z.by = q.by /\ z.agent = q.agent /\ z.arg = q.arg
        /\ z.live = q.live /\ z.fresh = q.fresh /\ z.got = g
    BY <1>1 DEF RequestOK, NetSet
  <1>3. net' = (net \ {q}) \cup {z} OBVIOUS
  <1> HIDE DEF z
  <1>4. PageInv' /\ MovesForward
    BY DEF IInv, PageInv, MovesForward, PageSet, ListsOf, PanelsOf, TrailOf
  <1>5. NetInv'
    <2> SUFFICES ASSUME NEW r \in net' PROVE RequestOK(r)' /\ AnswerOK(r)' BY DEF NetInv
    <2>1. Follows(r.kind)' = Follows(r.kind) BY FollowsStays
    <2>2. CASE r \in net
      <3>1. RequestOK(r) /\ AnswerOK(r) BY <2>2 DEF IInv, NetInv
      <3> QED BY <2>1, <3>1 DEF RequestOK, AnswerOK
    <2>3. CASE r = z
      <3>1. RequestOK(r)' BY <1>1, <1>2, <2>1, <2>3 DEF RequestOK
      <3>2. ServerInv /\ "events" \in OfAgent BY DEF IInv, OfAgent
      <3>3. q.kind = "events" => rows[q.agent] \in Nat BY <1>1, <3>2 DEF ServerInv
      <3>4. AnswerOK(r)' BY <1>2, <2>3, <3>3 DEF AnswerOK
      <3> QED BY <3>1, <3>4
    <2> QED BY <1>3, <2>2, <2>3
  <1>6. TrailInv'
    <2>1. page'.events # None => page'.events.rows <= rows'[page'.events.agent] BY DEF IInv, TrailInv
    <2>2. ASSUME NEW r \in net', NEW s \in net', r.kind = "events", r.fresh, s.kind = "events", s.fresh
          PROVE  r = s
      <3>1. \A x, y \in net : x.kind = "events" /\ x.fresh /\ y.kind = "events" /\ y.fresh => x = y
        BY DEF IInv, TrailInv
      <3> QED BY <1>2, <1>3, <2>2, <3>1
    <2>3. ASSUME NEW r \in net', r.kind = "events", r.fresh, r.got # None, r.got.code = 200,
                 page'.events # None, page'.events.agent = r.agent
          PROVE  page'.events.rows <= r.got.n
      <3>1. CASE r \in net BY <2>3, <3>1 DEF IInv, TrailInv
      <3>2. CASE r = z BY <1>2, <2>1, <2>3, <3>2
      <3> QED BY <1>3, <3>1, <3>2
    <2> QED BY <2>1, <2>2, <2>3 DEF TrailInv
  <1>7. PollInv'
    <2> SUFFICES ASSUME NEW a \in polling PROVE \E r \in net' : Polls(r, a) BY DEF PollInv
    <2>1. PICK r \in net : Polls(r, a) BY DEF IInv, PollInv
    <2> QED BY <1>2, <1>3, <2>1 DEF Polls
  <1>8. ServerInv' BY DEF IInv, ServerInv
  <1> QED BY <1>4, <1>5, <1>6, <1>7, <1>8 DEF IInv

LEMMA NetworkStep ==
  ASSUME IInv, NEW q \in net, Serve(q) \/ Refuse(q) \/ Lose(q)
  PROVE  IInv' /\ MovesForward
  <1>0. runs \in [Agents -> Nat] /\ RequestOK(q) /\ q.kind \notin {"wait", "closing"}
    BY DEF IInv, ServerInv, NetInv, Serve, Refuse, Lose
  <1>1. CASE Serve(q)
    <2>1. UNCHANGED <<panel, page, polling, rows>> BY <1>1 DEF Serve, Effect, Change, server
    <2>2. runs' \in [Agents -> Nat] BY <1>0, <1>1 DEF Serve, Effect, Change, server, Over
    <2>3. net' = (net \ {q}) \cup {[q EXCEPT !.got = Reply(q)]} BY <1>1 DEF Serve
    <2> DEFINE g == Reply(q)
    <2>4. /\ g \in AnswerSet
          /\ g.code = 200 => /\ q.agent # None => q.agent \in Own(q.by)
                             /\ q.kind \in {"agents", "create"} => g.of \subseteq Own(q.by)
                             /\ q.kind = "approvals" => g.of \subseteq OwnCards(q.by)
                             /\ q.kind = "events" => g.n = rows[q.agent]
      BY ReplyIsOwn
    <2>5. net' = (net \ {q}) \cup {[q EXCEPT !.got = g]} BY <2>3
    <2> HIDE DEF g
    <2> QED BY <1>0, <2>1, <2>2, <2>4, <2>5, AnsweredStep
  <1>2. ASSUME NEW k \in {401, 500}, net' = (net \ {q}) \cup {[q EXCEPT !.got = Answer(k)]},
               UNCHANGED <<server, panel, page, polling>>
        PROVE  IInv' /\ MovesForward
    <2>1. Answer(k) \in AnswerSet /\ Answer(k).code # 200 BY <1>2 DEF Answer, AnswerSet
    <2>2. UNCHANGED <<panel, page, polling, rows>> /\ runs' \in [Agents -> Nat] BY <1>0, <1>2 DEF server
    <2> QED BY <1>0, <1>2, <2>1, <2>2, AnsweredStep
  <1> QED BY <1>1, <1>2 DEF Refuse, Lose

\* What happens without the browser, and what leaves all as it is.
LEMMA ElsewhereStep ==
  ASSUME IInv, Elsewhere \/ UNCHANGED vars
  PROVE  IInv' /\ MovesForward
  <1>1. UNCHANGED <<panel, page, polling, net>> BY DEF Elsewhere, vars
  <1>2. /\ rows' \in [Agents -> Nat] /\ runs' \in [Agents -> Nat]
        /\ \A a \in Agents : rows[a] \in Nat /\ rows'[a] \in Nat /\ rows[a] <= rows'[a]
    BY DEF IInv, ServerInv, Elsewhere, vars, server, RunEnds, CallDecided, CardRaised,
           DecidedElsewhere, Over
  <1>3. PageInv' /\ MovesForward
    BY <1>1 DEF IInv, PageInv, MovesForward, PageSet, ListsOf, PanelsOf, TrailOf
  <1>4. NetInv'
    <2> SUFFICES ASSUME NEW r \in net PROVE RequestOK(r)' /\ AnswerOK(r)' BY <1>1 DEF NetInv
    <2>1. Follows(r.kind)' = Follows(r.kind) BY <1>1, FollowsStays
    <2>2. RequestOK(r) /\ AnswerOK(r) BY DEF IInv, NetInv
    <2>3. RequestOK(r)' BY <1>1, <2>1, <2>2 DEF RequestOK
    <2>4. r.kind = "events" => r.agent \in Agents BY <2>2 DEF RequestOK, OfAgent
    <2>5. r.got # None => r.got.n \in Nat BY <2>2 DEF RequestOK, NetSet, AnswerSet
    <2> QED BY <1>2, <2>2, <2>3, <2>4, <2>5 DEF AnswerOK
  <1>5. TrailInv'
    <2>1. page.events # None => page.events.agent \in Agents /\ page.events.rows \in Nat
      BY DEF IInv, PageInv, PageSet
    <2> QED BY <1>1, <1>2, <2>1 DEF IInv, TrailInv
  <1>6. PollInv' BY <1>1 DEF IInv, PollInv, Polls
  <1>7. ServerInv' BY <1>1, <1>2 DEF IInv, ServerInv
  <1> QED BY <1>3, <1>4, <1>5, <1>6, <1>7 DEF IInv
--------------------------------------------------------------------------------
(* The polls                                                                    *)

PollKinds == {"wait", "run", "closing"}

\* A poll is given up: it was refused, or its run is over and the page has been refreshed.
GivenUp ==
  \E q \in net \ net' : q.kind = "closing" \/ (q.kind = "run" /\ q.got # None /\ q.got.code # 200)

KeepsPolls == PollInv' /\ polling' \subseteq Agents /\ (Watched => Watched' \/ GivenUp)

\* The run a render leaves on screen.
LEMMA RenderedRun ==
  ASSUME NEW p, NEW rest, NEW asked, NEW same, Render(p, rest, asked, same), "run" \in DOMAIN p
  PROVE  page'.run \in {None, p.run}
  BY DEF Render, Settled, Emptied

\* What goes on being polled, in a session that goes on.
LEMMA PollsStay ==
  ASSUME IInv, NEW p, NEW rest, NEW asked, Commit(p, rest, asked), NEW s \in rest, s \in net, NEW a,
         Polls(s, a)
  PROVE  \E r \in net' : Polls(r, a)
  <1>1. s \in NetSet /\ Bump(p, asked) \in BOOLEAN BY DEF IInv, NetInv, RequestOK, Bump
  <1>2. net' = New(p, asked) \cup {Kept(z, TRUE, Bump(p, asked)) : z \in rest}
    BY DEF Commit, Render, New, Bump, Kept
  <1> DEFINE r == Kept(s, TRUE, Bump(p, asked))
  <1>3. r \in net' BY <1>2
  <1>4. r.kind = s.kind /\ r.agent = s.agent /\ (r.live <=> s.live)
    <2> DEFINE b == Bump(p, asked)
    <2>1. b \in BOOLEAN /\ r = Kept(s, TRUE, b) BY <1>1
    <2> HIDE DEF b, r
    <2> QED BY <1>1, <2>1 DEF Kept, NetSet
  <1> HIDE DEF r
  <1> QED BY <1>3, <1>4 DEF Polls

\* What a handler asks for is under way if the panel wants it.
LEMMA AskedIsUnderWay ==
  ASSUME NEW p, NEW rest, NEW asked, Commit(p, rest, asked), NEW r \in asked, Follows(r.kind)
  PROVE  r \in net'
  <1>1. net' = New(p, asked) \cup {Kept(z, TRUE, Bump(p, asked)) : z \in rest}
    BY DEF Commit, Render, New, Bump, Kept
  <1> QED BY <1>1 DEF New

\* What a handler sets that puts no running run on screen but the one that is there.
StartsNoRun(p) == p.run \in {None, page.run} \/ p.run.n # 1

\* A render keeps the polls if each goes on, and a run it starts to show has one.
LEMMA PollsGoOn ==
  ASSUME IInv, NEW p, NEW rest, NEW asked, Commit(p, rest, asked), "run" \in DOMAIN p,
         polling' \subseteq Agents, \A a \in polling' : \E r \in net' : Polls(r, a),
         \A s \in net, a \in Agents : Polls(s, a) => GivenUp \/ \E r \in net' : Polls(r, a),
         StartsNoRun(p) \/ \E r \in net' : Polls(r, p.run.agent)
  PROVE  KeepsPolls
  <1>1. page'.run \in {None, p.run} BY RenderedRun DEF Commit
  <1>2. page.run # None => page.run.agent \in Agents BY DEF IInv, PageInv, PageSet
  <1>3. Watched => Watched' \/ GivenUp
    BY <1>1, <1>2 DEF Watched, ShownRunning, Polls, StartsNoRun
  <1> QED BY <1>3 DEF KeepsPolls, PollInv

\* Handlers that have nothing to do with polls.
LEMMA QuietPolls ==
  ASSUME IInv, NEW p, NEW rest, NEW asked, Commit(p, rest, asked), "run" \in DOMAIN p,
         StartsNoRun(p), polling' \subseteq polling, \A s \in net : s.kind \in PollKinds => s \in rest
  PROVE  KeepsPolls
  <1>1. \A s \in net : \A a : Polls(s, a) => \E r \in net' : Polls(r, a)
    BY PollsStay DEF Polls, PollKinds
  <1>2. \A a \in polling' : \E r \in net' : Polls(r, a) BY <1>1 DEF IInv, PollInv
  <1> QED BY <1>1, <1>2, PollsGoOn DEF IInv, ServerInv

\* A new session polls nothing, and shows no run.
LEMMA SessionPolls ==
  ASSUME NEW p, NEW rest, NEW asked, NewSession(p, rest, asked), "run" \in DOMAIN p, p.run = None
  PROVE  KeepsPolls
  <1>1. page'.run = None /\ polling' = {} BY RenderedRun DEF NewSession
  <1> QED BY <1>1 DEF KeepsPolls, PollInv, Watched, ShownRunning

SetsNoRun(p) == "run" \in DOMAIN p /\ p.run = page.run

LEMMA AskPolls ==
  ASSUME IInv, ClickLogin \/ Select \/ SetFilter \/ Create \/ Delete \/ Send \/ Stop \/ Command
               \/ Decide \/ OpenFile \/ PollApprovals \/ PollEvents
  PROVE  KeepsPolls
  <1>1. page \in PageSet BY DEF IInv, PageInv
  <1>2. polling' = polling
    BY DEF ClickLogin, Select, SetFilter, Create, Delete, Send, Stop, Command, Decide, OpenFile,
           PollApprovals, PollEvents, Poll, Ask
  <1>3. PICK p, asked : Commit(p, net, asked) /\ SetsNoRun(p)
    <2>1. CASE ClickLogin \/ Create \/ Delete \/ Stop
      <3>1. PICK asked : Commit([page EXCEPT !.busy = TRUE], net, asked)
        BY <2>1 DEF ClickLogin, Create, Delete, Stop, Ask
      <3>2. SetsNoRun([page EXCEPT !.busy = TRUE]) BY <1>1 DEF SetsNoRun, PageSet
      <3> QED BY <3>1, <3>2
    <2>2. CASE Send \/ Command \/ PollApprovals \/ PollEvents
      <3>1. PICK asked : Commit(page, net, asked)
        BY <2>2 DEF Send, Command, PollApprovals, PollEvents, Poll, Ask
      <3>2. SetsNoRun(page) BY <1>1 DEF SetsNoRun, PageSet
      <3> QED BY <3>1, <3>2
    <2>3. CASE Decide
      <3>1. PICK asked : Commit([page EXCEPT !.deciding = TRUE], net, asked) BY <2>3 DEF Decide, Ask
      <3>2. SetsNoRun([page EXCEPT !.deciding = TRUE]) BY <1>1 DEF SetsNoRun, PageSet
      <3> QED BY <3>1, <3>2
    <2>4. CASE OpenFile
      <3>1. PICK x, asked : Commit([page EXCEPT !.openPath = x, !.openFile = None], net, asked)
        BY <2>4 DEF OpenFile, Ask
      <3>2. SetsNoRun([page EXCEPT !.openPath = x, !.openFile = None])
        BY <1>1 DEF SetsNoRun, PageSet
      <3> QED BY <3>1, <3>2
    <2>5. CASE Select
      <3>1. PICK a : Commit([page EXCEPT !.selected = a], net, {}) BY <2>5 DEF Select, Ask
      <3>2. SetsNoRun([page EXCEPT !.selected = a]) BY <1>1 DEF SetsNoRun, PageSet
      <3> QED BY <3>1, <3>2
    <2>6. CASE SetFilter
      <3>1. PICK f : Commit([page EXCEPT !.filter = f], net, {}) BY <2>6 DEF SetFilter, Ask
      <3>2. SetsNoRun([page EXCEPT !.filter = f]) BY <1>1 DEF SetsNoRun, PageSet
      <3> QED BY <3>1, <3>2
    <2> QED BY <2>1, <2>2, <2>3, <2>4, <2>5, <2>6
  <1> QED BY <1>2, <1>3, QuietPolls DEF SetsNoRun, StartsNoRun

\* The answers that say nothing of a run.
LEMMA QuietAnswers ==
  ASSUME IInv, NEW q \in net, q.kind \notin PollKinds,
         \/ GotAuth(q, net \ {q}) \/ GotAgents(q, net \ {q}) \/ GotSystem(q, net \ {q})
         \/ GotCreated(q, net \ {q}) \/ GotDeleted(q, net \ {q}) \/ GotMessages(q, net \ {q})
         \/ GotApprovals(q, net \ {q}) \/ GotDecided(q, net \ {q}) \/ GotCommand(q, net \ {q})
         \/ GotEvents(q, net \ {q}) \/ GotGrants(q, net \ {q}) \/ GotFiles(q, net \ {q})
         \/ GotFile(q, net \ {q})
  PROVE  KeepsPolls
  <1>1. page \in PageSet BY DEF IInv, PageInv
  <1>p. SetsNoRun(page) BY <1>1 DEF SetsNoRun, PageSet
  <1>2. polling' = polling
    BY DEF GotAuth, GotAgents, GotSystem, GotCreated, GotDeleted, GotMessages, GotApprovals,
           GotDecided, GotCommand, GotEvents, GotGrants, GotFiles, GotFile
  <1>3. SUFFICES \E p, asked : Commit(p, net \ {q}, asked) /\ SetsNoRun(p)
    <2>1. \A s \in net : s.kind \in PollKinds => s \in net \ {q} OBVIOUS
    <2> QED BY <1>2, <2>1, QuietPolls DEF SetsNoRun, StartsNoRun
  <1>4. ASSUME NEW asked, Commit(page, net \ {q}, asked)
        PROVE  \E p, as : Commit(p, net \ {q}, as) /\ SetsNoRun(p)
    BY <1>4, <1>p
  <1>5. CASE GotAuth(q, net \ {q})
    <2>1. SetsNoRun([page EXCEPT !.auth = "required"]) BY <1>1 DEF SetsNoRun, PageSet
    <2> QED BY <1>4, <1>5, <2>1 DEF GotAuth
  <1>6. CASE GotAgents(q, net \ {q})
    <2>1. PICK first \in q.got.of \cup {None} :
            LET kept == IF page.selected \in q.got.of THEN page.selected ELSE first
                p    == IF q.live THEN [page EXCEPT !.agents = q.got.of, !.selected = kept] ELSE page
            IN Commit(CASE q.arg \in Agents -> [p EXCEPT !.selected = q.arg, !.busy = FALSE,
                                            !.strayed = @ \cup {a \in {q.arg} : Owner[a] # p.user}]
                        [] q.arg = "last"   -> [p EXCEPT !.busy = FALSE]
                        [] OTHER            -> p, net \ {q}, {})
      BY <1>6 DEF GotAgents
    <2> DEFINE kept == IF page.selected \in q.got.of THEN page.selected ELSE first
               of == q.got.of
               p == IF q.live THEN [page EXCEPT !.agents = of, !.selected = kept] ELSE page
               st == p.strayed \cup {a \in {q.arg} : Owner[a] # p.user}
               z == CASE q.arg \in Agents -> [p EXCEPT !.selected = q.arg, !.busy = FALSE, !.strayed = st]
                      [] q.arg = "last"   -> [p EXCEPT !.busy = FALSE]
                      [] OTHER            -> p
    <2>2. Commit(z, net \ {q}, {}) BY <2>1
    <2> HIDE DEF kept, of, st
    <2>3. "run" \in DOMAIN p /\ p.run = page.run BY <1>1 DEF PageSet
    <2> HIDE DEF p
    <2>4. SetsNoRun(z) BY <2>3 DEF SetsNoRun
    <2> QED BY <2>2, <2>4
  <1>7. CASE GotSystem(q, net \ {q})
    <2>1. PICK x, b : Commit([page EXCEPT !.auth = x, !.busy = b], net \ {q}, {})
      BY <1>7 DEF GotSystem
    <2>2. SetsNoRun([page EXCEPT !.auth = x, !.busy = b]) BY <1>1 DEF SetsNoRun, PageSet
    <2> QED BY <2>1, <2>2
  <1>8. CASE GotCreated(q, net \ {q}) \/ GotDeleted(q, net \ {q}) \/ GotCommand(q, net \ {q})
    BY <1>4, <1>8 DEF GotCreated, GotDeleted, GotCommand
  <1>9. CASE GotMessages(q, net \ {q})
    <2>1. SetsNoRun([page EXCEPT !.messages = {q.agent}]) BY <1>1 DEF SetsNoRun, PageSet
    <2> QED BY <1>4, <1>9, <2>1 DEF GotMessages
  <1>10. CASE GotApprovals(q, net \ {q})
    <2> DEFINE of == q.got.of
               d == (page.decided \cap q.got.of) \cup q.got.done
    <2>1. Commit(Listed(page, of, d), net \ {q}, {}) \/ Commit(page, net \ {q}, {})
      BY <1>10 DEF GotApprovals
    <2> HIDE DEF of, d
    <2>2. SetsNoRun(Listed(page, of, d)) BY <1>1 DEF SetsNoRun, PageSet, Listed
    <2> QED BY <1>4, <2>1, <2>2
  <1>11. CASE GotDecided(q, net \ {q})
    <2> DEFINE d == page.decided \cup ({q.arg} \cap page.approvals)
               p == [Listed(page, page.approvals, d) EXCEPT !.deciding = FALSE]
    <2>1. PICK asked : Commit(p, net \ {q}, asked) \/ Commit(page, net \ {q}, asked)
      BY <1>11 DEF GotDecided
    <2> HIDE DEF d
    <2>2. SetsNoRun(p) BY <1>1 DEF SetsNoRun, PageSet, Listed
    <2> HIDE DEF p
    <2> QED BY <1>4, <2>1, <2>2
  <1>12. CASE GotEvents(q, net \ {q})
    <2> DEFINE v == [agent |-> q.agent, filter |-> q.arg, rows |-> q.got.n]
    <2>1. \/ Commit([page EXCEPT !.events = v], net \ {q}, {})
          \/ Commit(page, net \ {q}, {})
      BY <1>12 DEF GotEvents
    <2> HIDE DEF v
    <2>2. SetsNoRun([page EXCEPT !.events = v]) BY <1>1 DEF SetsNoRun, PageSet
    <2> QED BY <1>4, <2>1, <2>2
  <1>13. CASE GotGrants(q, net \ {q})
    <2>1. SetsNoRun([page EXCEPT !.grants = q.agent]) BY <1>1 DEF SetsNoRun, PageSet
    <2> QED BY <1>4, <1>13, <2>1 DEF GotGrants
  <1>14. CASE GotFiles(q, net \ {q})
    <2>1. SetsNoRun([page EXCEPT !.files = q.agent]) BY <1>1 DEF SetsNoRun, PageSet
    <2> QED BY <1>4, <1>14, <2>1 DEF GotFiles
  <1>15. CASE GotFile(q, net \ {q})
    <2> DEFINE v == [agent |-> q.agent, path |-> q.arg]
    <2>1. \/ Commit([page EXCEPT !.openFile = v], net \ {q}, {})
          \/ Commit(page, net \ {q}, {})
      BY <1>15 DEF GotFile
    <2> HIDE DEF v
    <2>2. SetsNoRun([page EXCEPT !.openFile = v]) BY <1>1 DEF SetsNoRun, PageSet
    <2> QED BY <1>4, <2>1, <2>2
  <1> QED BY <1>5, <1>6, <1>7, <1>8, <1>9, <1>10, <1>11, <1>12, <1>13, <1>14, <1>15

\* The panel that follows runs follows their polls.
LEMMA RunsAreFollowed ==
  ASSUME IInv, NEW q \in net, q.kind \in {"runs", "send", "run", "wait"}
  PROVE  /\ Follows("wait") /\ Follows("run") /\ Follows("closing")
         /\ q.agent \in Agents
  BY DEF IInv, NetInv, RequestOK, ServerInv, Panels, Follows, OfAgent

\* pollRun is called for a run that has just been shown.
LEMMA PollRunPolls ==
  ASSUME IInv, NEW q \in net, q.kind \in {"runs", "send"}, NEW p, "run" \in DOMAIN p,
         StartsNoRun(p) \/ p.run.agent = q.agent, NEW why, PollRun(p, net \ {q}, q.agent, why, {})
  PROVE  KeepsPolls
  <1> DEFINE a == q.agent
             r == Request(p, "wait", a, why)
             asked == {} \cup IF a \in polling THEN {} ELSE {r}
  <1>1. Commit(p, net \ {q}, asked) /\ polling' = polling \cup {a} BY DEF PollRun
  <1>2. a \in Agents /\ Follows("wait") BY RunsAreFollowed
  <1>3. r.kind = "wait" /\ Polls(r, a) BY DEF Request, Polls
  <1> HIDE DEF r
  <1>4. a \in polling \/ r \in net'
    <2>1. a \notin polling => r \in asked OBVIOUS
    <2> HIDE DEF asked
    <2> QED BY <1>1, <1>2, <1>3, <2>1, AskedIsUnderWay
  <1> HIDE DEF asked, a
  <1>5. ASSUME NEW s \in net, NEW b, Polls(s, b) PROVE \E x \in net' : Polls(x, b)
    <2>1. s \in net \ {q} BY <1>5 DEF Polls
    <2> QED BY <1>1, <1>5, <2>1, PollsStay
  <1>6. ASSUME NEW b \in polling' PROVE \E x \in net' : Polls(x, b)
    BY <1>1, <1>3, <1>4, <1>5 DEF IInv, PollInv
  <1>7. polling' \subseteq Agents BY <1>1, <1>2 DEF IInv, ServerInv
  <1>8. StartsNoRun(p) \/ \E x \in net' : Polls(x, p.run.agent) BY <1>1, <1>6 DEF a
  <1> QED BY <1>1, <1>5, <1>6, <1>7, <1>8, PollsGoOn

\* A request of a poll is over, and followed by another.
LEMMA NextPoll ==
  ASSUME IInv, NEW q \in net, NEW p, NEW asked, Commit(p, net \ {q}, asked), "run" \in DOMAIN p,
         NEW r \in asked, Polls(r, q.agent), Follows(r.kind), polling' = polling,
         StartsNoRun(p) \/ p.run.agent = q.agent
  PROVE  KeepsPolls
  <1>1. r \in net' BY AskedIsUnderWay
  <1>2. ASSUME NEW s \in net, NEW b, Polls(s, b) PROVE \E x \in net' : Polls(x, b)
    <2>1. CASE s = q BY <1>1, <1>2, <2>1 DEF Polls
    <2>2. CASE s \in net \ {q} BY <1>2, <2>2, PollsStay
    <2> QED BY <2>1, <2>2
  <1>3. \A b \in polling' : \E x \in net' : Polls(x, b) BY <1>2 DEF IInv, PollInv
  <1>4. StartsNoRun(p) \/ \E x \in net' : Polls(x, p.run.agent) BY <1>1
  <1> QED BY <1>2, <1>3, <1>4, PollsGoOn DEF IInv, ServerInv

\* One is over, and its run forgotten.
LEMMA LastPoll ==
  ASSUME IInv, NEW q \in net, NEW p, NEW asked, Commit(p, net \ {q}, asked), "run" \in DOMAIN p,
         polling' = polling \ {q.agent}, StartsNoRun(p),
         ~q.live \/ q.kind = "closing" \/ (q.kind = "run" /\ q.got # None /\ q.got.code # 200)
  PROVE  KeepsPolls
  <1>1. ASSUME NEW s \in net, s # q, NEW b, Polls(s, b) PROVE \E x \in net' : Polls(x, b)
    BY <1>1, PollsStay
  <1>2. ASSUME NEW b \in polling' PROVE \E x \in net' : Polls(x, b)
    <2>1. PICK s \in net : Polls(s, b) BY <1>2 DEF IInv, PollInv
    <2>2. s # q BY <1>2, <2>1 DEF Polls
    <2> QED BY <1>1, <2>1, <2>2
  <1>3. ASSUME NEW s \in net, NEW b, Polls(s, b) PROVE GivenUp \/ \E x \in net' : Polls(x, b)
    <2>1. CASE s # q BY <1>1, <1>3, <2>1
    <2>2. CASE s = q /\ q \in net' BY <1>3, <2>2
    <2>3. CASE s = q /\ q \notin net' BY <1>3, <2>3 DEF Polls, GivenUp
    <2> QED BY <2>1, <2>2, <2>3
  <1>4. polling' \subseteq Agents BY DEF IInv, ServerInv
  <1> QED BY <1>2, <1>3, <1>4, PollsGoOn

LEMMA RunAnswers ==
  ASSUME IInv, NEW q \in net, q.got # None, q.got.code = 200,
         \/ q.kind = "runs" /\ GotRuns(q, net \ {q})
         \/ q.kind = "send" /\ GotSent(q, net \ {q})
         \/ q.kind = "stop" /\ GotStopped(q, net \ {q})
         \/ q.kind = "run" /\ GotRun(q, net \ {q})
  PROVE  KeepsPolls
  <1>p. page \in PageSet /\ "run" \in DOMAIN page BY DEF IInv, PageInv, PageSet
  <1>o. StartsNoRun(page) BY DEF StartsNoRun
  <1>s. ASSUME NEW x PROVE "run" \in DOMAIN [page EXCEPT !.run = x] /\ [page EXCEPT !.run = x].run = x
    BY <1>p DEF PageSet
  <1>1. CASE q.kind = "runs" /\ GotRuns(q, net \ {q})
    <2> DEFINE x == IF q.got.n = 0 THEN None ELSE [agent |-> q.agent, n |-> q.got.n]
               p == [page EXCEPT !.run = x]
    <2>1. \/ OnScreen(q) /\ q.got.n = 1 /\ PollRun(p, net \ {q}, q.agent, "select", {})
          \/ /\ Commit(p, net \ {q}, {}) /\ q.got.n # 1 /\ polling' = polling
          \/ Commit(page, net \ {q}, {}) /\ polling' = polling
      BY <1>1 DEF GotRuns
    <2>2. /\ q.got.n = 1 => x.agent = q.agent
          /\ q.got.n # 1 => x = None \/ x.n # 1
      OBVIOUS
    <2> HIDE DEF x
    <2>3. p.run = x /\ "run" \in DOMAIN p BY <1>s
    <2>4. CASE OnScreen(q) /\ q.got.n = 1 /\ PollRun(p, net \ {q}, q.agent, "select", {})
      BY <1>1, <2>2, <2>3, <2>4, PollRunPolls
    <2>5. CASE Commit(p, net \ {q}, {}) /\ q.got.n # 1 /\ polling' = polling
      <3>1. StartsNoRun(p) BY <2>2, <2>3, <2>5 DEF StartsNoRun
      <3> QED BY <1>1, <2>3, <2>5, <3>1, QuietPolls DEF PollKinds
    <2>6. CASE Commit(page, net \ {q}, {}) /\ polling' = polling
      BY <1>1, <1>o, <1>p, <2>6, QuietPolls DEF PollKinds
    <2> QED BY <2>1, <2>4, <2>5, <2>6
  <1>2. CASE q.kind = "send" /\ GotSent(q, net \ {q})
    <2> DEFINE x == [agent |-> q.agent, n |-> 1]
               m == page.messages \cup {q.agent}
               p == [page EXCEPT !.messages = m, !.run = x]
    <2>1. \/ PollRun(p, net \ {q}, q.agent, "send", {})
          \/ PollRun(page, net \ {q}, q.agent, "send", {})
      BY <1>2 DEF GotSent
    <2>2. x.agent = q.agent OBVIOUS
    <2> HIDE DEF x, m
    <2>3. p.run = x /\ "run" \in DOMAIN p BY <1>p DEF PageSet
    <2> HIDE DEF p
    <2> QED BY <1>2, <1>o, <1>p, <2>1, <2>2, <2>3, PollRunPolls
  <1>3. CASE q.kind = "stop" /\ GotStopped(q, net \ {q})
    <2> DEFINE x == [page.run EXCEPT !.n = 2]
               p == [page EXCEPT !.run = x]
    <2>1. PICK asked : \/ Commit(page, net \ {q}, asked)
                       \/ page.run # None /\ Commit(p, net \ {q}, asked)
      BY <1>3 DEF GotStopped
    <2>2. polling' = {} BY <1>3 DEF GotStopped
    <2>3. page.run # None => x.n # 1 BY <1>p DEF PageSet
    <2> HIDE DEF x
    <2>4. p.run = x /\ "run" \in DOMAIN p BY <1>s
    <2>5. page.run # None => StartsNoRun(p) BY <2>3, <2>4 DEF StartsNoRun
    <2> HIDE DEF p
    <2> QED BY <1>3, <1>o, <1>p, <2>1, <2>2, <2>4, <2>5, QuietPolls DEF PollKinds
  <1>4. CASE q.kind = "run" /\ GotRun(q, net \ {q})
    <2> DEFINE x == [agent |-> q.agent, n |-> q.got.n]
               y == [page EXCEPT !.run = x, !.scopes = q.agent]
               p == IF Mine(q) THEN y ELSE page
               c == {Request(p, "messages", q.agent, "closing"), Request(p, "agents", None, "closing"),
                     Request(p, "closing", q.agent, None)}
               w == {Request(p, "wait", q.agent, q.arg)}
    <2>1. \/ Commit(p, net \ {q}, c) /\ polling' = polling
          \/ Commit(p, net \ {q}, w) /\ polling' = polling
          \/ ~q.live /\ Commit(p, net \ {q}, {}) /\ polling' = polling \ {q.agent}
      BY <1>4 DEF GotRun
    <2>2. x.agent = q.agent OBVIOUS
    <2> HIDE DEF x
    <2>2a. y.run = x /\ "run" \in DOMAIN y BY <1>p DEF PageSet
    <2> HIDE DEF y
    <2>3. /\ "run" \in DOMAIN p /\ (StartsNoRun(p) \/ p.run.agent = q.agent)
          /\ ~q.live => StartsNoRun(p)
      BY <1>o, <1>p, <2>2, <2>2a DEF Mine
    <2>4. /\ Request(p, "closing", q.agent, None) \in c
          /\ Request(p, "wait", q.agent, q.arg) \in w
      OBVIOUS
    <2> HIDE DEF p, c, w
    <2>5. /\ Polls(Request(p, "closing", q.agent, None), q.agent)
          /\ Polls(Request(p, "wait", q.agent, q.arg), q.agent)
          /\ Request(p, "closing", q.agent, None).kind = "closing"
          /\ Request(p, "wait", q.agent, q.arg).kind = "wait"
      BY DEF Polls, Request
    <2>6. Follows("wait") /\ Follows("closing") BY <1>4, RunsAreFollowed
    <2>7. CASE Commit(p, net \ {q}, c) /\ polling' = polling
      BY <2>3, <2>4, <2>5, <2>6, <2>7, NextPoll
    <2>8. CASE Commit(p, net \ {q}, w) /\ polling' = polling
      BY <2>3, <2>4, <2>5, <2>6, <2>8, NextPoll
    <2>9. CASE ~q.live /\ Commit(p, net \ {q}, {}) /\ polling' = polling \ {q.agent}
      BY <2>3, <2>9, LastPoll
    <2> QED BY <2>1, <2>7, <2>8, <2>9
  <1> QED BY <1>1, <1>2, <1>3, <1>4

LEMMA TimerPolls ==
  ASSUME IInv, NEW q \in net, Tick(q, net \ {q}) \/ Forget(q, net \ {q})
  PROVE  KeepsPolls
  <1>1. "run" \in DOMAIN page /\ StartsNoRun(page) BY DEF IInv, PageInv, PageSet, StartsNoRun
  <1>2. CASE q.kind = "wait" /\ polling' = polling
             /\ Commit(page, net \ {q}, {Request(page, "run", q.agent, q.arg)})
    <2> DEFINE r == Request(page, "run", q.agent, q.arg)
    <2>1. r.kind = "run" /\ Polls(r, q.agent) BY DEF Polls, Request
    <2>2. r \in {r} /\ Commit(page, net \ {q}, {r}) BY <1>2
    <2> HIDE DEF r
    <2> QED BY <1>1, <1>2, <2>1, <2>2, NextPoll, RunsAreFollowed
  <1>3. CASE /\ ~q.live \/ q.kind = "closing"
             /\ Commit(page, net \ {q}, {}) /\ polling' = polling \ {q.agent}
    BY <1>1, <1>3, LastPoll
  <1> QED BY <1>2, <1>3 DEF Tick, Forget

LEMMA FailsPolls ==
  ASSUME IInv, NEW q \in net, q.got # None, Fails(q, net \ {q})
  PROVE  KeepsPolls
  <1> DEFINE sent == q.kind = "send" \/ (q.kind = "run" /\ q.arg = "send")
             last == \/ q.kind \in {"login", "create", "delete", "stop"}
                     \/ q.kind = "system" /\ q.arg = "login"
                     \/ q.kind = "agents" /\ (q.arg \in Agents \/ q.arg = "last")
                     \/ \E r \in net \ {q} : r.kind = "system" /\ r.arg = "login" /\ q.arg = "boot"
             b == IF last THEN FALSE ELSE page.busy
             d == IF q.kind = "decide" /\ q.live THEN FALSE ELSE page.deciding
             x == IF sent THEN None ELSE page.run
             rest == IF q.kind = "agents" /\ q.arg = "boot"
                     THEN {IF r.kind = "system" THEN [r EXCEPT !.arg = "lost"] ELSE r : r \in net \ {q}}
                     ELSE net \ {q}
             asked == IF sent THEN {Request(page, "agents", None, "list")} ELSE {}
  <1>1. /\ Commit([page EXCEPT !.busy = b, !.run = x, !.deciding = d], rest, asked)
        /\ x \in {None, page.run}
        /\ \/ rest = net \ {q}
           \/ /\ q.kind = "agents"
              /\ rest = {IF r.kind = "system" THEN [r EXCEPT !.arg = "lost"] ELSE r : r \in net \ {q}}
    BY DEF Fails
  <1> HIDE DEF b, d, x, rest, asked
  <1> DEFINE p == [page EXCEPT !.busy = b, !.run = x, !.deciding = d]
  <1>2. "run" \in DOMAIN p /\ p.run = x BY DEF IInv, PageInv, PageSet
  <1>3. Commit(p, rest, asked) BY <1>1
  <1> HIDE DEF p
  <1>4. StartsNoRun(p) BY <1>1, <1>2 DEF StartsNoRun
  <1>5. q.kind \notin {"wait", "closing"} /\ q.got.code # 200 BY DEF IInv, NetInv, RequestOK, Fails
  <1>6. CASE q.kind = "run"
    <2>1. polling' = polling \ {q.agent} /\ rest = net \ {q} BY <1>1, <1>6 DEF Fails
    <2> QED BY <1>2, <1>3, <1>4, <1>5, <1>6, <2>1, LastPoll
  <1>7. CASE q.kind # "run"
    <2>1. ASSUME NEW s \in net, s.kind \in PollKinds PROVE s \in rest
      BY <1>1, <1>5, <1>7, <2>1 DEF PollKinds
    <2>2. polling' = polling BY <1>7 DEF Fails
    <2> QED BY <1>2, <1>3, <1>4, <2>1, <2>2, QuietPolls
  <1> QED BY <1>6, <1>7

\* clearSession.
LEMMA ClearPolls == ASSUME IInv, NEW rest, ClearSession(rest) PROVE KeepsPolls
  <1>1. "run" \in DOMAIN Cleared /\ Cleared.run = None
    BY DEF IInv, PageInv, PageSet, Cleared, Ended
  <1> QED BY <1>1, SessionPolls DEF ClearSession

LEMMA DeliverPolls == ASSUME IInv, NEW q \in net, Deliver(q) PROVE KeepsPolls
  <1>1. q.got # None BY DEF Deliver
  <1>2. CASE q.got.code = 200 /\ Got(q, net \ {q})
    <2>1. CASE q.kind = "login" /\ GotLogin(q, net \ {q})
      <3> DEFINE p == [Ended(page) EXCEPT !.user = q.arg]
      <3>1. NewSession(p, net \ {q}, Bootstrap(p, "login")) BY <2>1 DEF GotLogin
      <3>2. "run" \in DOMAIN p /\ p.run = None BY DEF IInv, PageInv, PageSet, Ended
      <3> HIDE DEF p
      <3> QED BY <3>1, <3>2, SessionPolls
    <2>2. CASE q.kind \in {"runs", "send", "stop", "run"}
      BY <1>1, <1>2, <2>2, RunAnswers DEF Got
    <2>3. CASE q.kind \notin {"login", "runs", "send", "stop", "run"}
      <3>1. q.kind \notin PollKinds BY <1>2, <2>3 DEF Got, PollKinds
      <3> QED BY <1>2, <2>3, <3>1, QuietAnswers DEF Got
    <2> QED BY <1>2, <2>1, <2>2, <2>3 DEF Got
  <1>3. CASE Expires(q, net \ {q}) BY <1>3, ClearPolls DEF Expires
  <1>4. CASE Fails(q, net \ {q}) BY <1>1, <1>4, FailsPolls
  <1> QED BY <1>2, <1>3, <1>4 DEF Deliver
--------------------------------------------------------------------------------
(* The invariant                                                                *)

StaysWatched == Watched => Watched' \/ GivenUp

LEMMA FreshIsOK ==
  ASSUME NEW u \in Users \cup {None}
  PROVE  LET p == Fresh(u)
         IN /\ p \in PageSet /\ ListsOf(p) /\ PanelsOf(p) /\ p.user = u /\ p.toasts = {}
            /\ p.approvals = {} /\ p.events = None /\ p.run = None
  <1>1. Fresh(u) \in PageSet BY DEF Fresh, PageSet, Filters
  <1> QED BY <1>1 DEF Fresh, ListsOf, PanelsOf

\* A page is opened, or opened again.
LEMMA OpenedIsOK ==
  ASSUME NEW u \in Users \cup {None}, page = Fresh(u), net = {Request(page, "auth", None, None)},
         polling = {}
  PROVE  PageInv /\ NetInv /\ TrailInv /\ PollInv
  <1>1. /\ page \in PageSet /\ ListsOf(page) /\ PanelsOf(page) /\ page.user = u /\ page.toasts = {}
        /\ page.approvals = {} /\ page.events = None
    BY FreshIsOK
  <1>2. PageInv BY <1>1 DEF PageInv, TrailOf
  <1>3. "auth" \in Kinds \ OfAgent /\ None \in Args BY DEF Kinds, OfAgent, Args
  <1>4. /\ AskedBy(page, Request(page, "auth", None, None))
        /\ Request(page, "auth", None, None).kind = "auth"
    BY <1>1, <1>3, RequestIsAsked
  <1>5. NetInv BY <1>3, <1>4 DEF NetInv, RequestOK, AnswerOK, AskedBy, Follows
  <1>6. TrailInv BY <1>1, <1>4 DEF TrailInv
  <1> QED BY <1>2, <1>5, <1>6 DEF PollInv

LEMMA InitHolds == ASSUME Init PROVE IInv
  <1>1. PICK u \in Users \cup {None} : page = Fresh(u) /\ net = {Request(page, "auth", None, None)}
    BY DEF Init
  <1>2. PageInv /\ NetInv /\ TrailInv /\ PollInv BY <1>1, OpenedIsOK DEF Init
  <1>3. ServerInv BY DEF Init, ApiInit, ServerInv
  <1> QED BY <1>2, <1>3 DEF IInv

\* What the page does alone leaves the server as it is.
LEMMA PageStep ==
  ASSUME IInv, Keeps, KeepsPolls, UNCHANGED <<server, panel>>
  PROVE  IInv' /\ MovesForward /\ StaysWatched
  <1>1. ServerInv' BY DEF IInv, ServerInv, KeepsPolls, server
  <1> QED BY <1>1 DEF IInv, Keeps, KeepsPolls, StaysWatched

LEMMA DismissStep == ASSUME IInv, Dismiss PROVE Keeps /\ KeepsPolls
  <1>1. PICK c \in page.toasts : page' = [page EXCEPT !.toasts = @ \ {c}] BY DEF Dismiss
  <1> DEFINE t == page.toasts \ {c}
  <1>2. page \in PageSet /\ t \in SUBSET Cards BY DEF IInv, PageInv, PageSet
  <1>3. page' = [page EXCEPT !.toasts = t] BY <1>1
  <1>4. t \subseteq page.approvals BY DEF IInv, PageInv
  <1> HIDE DEF t
  <1>5. /\ page' \in PageSet /\ page'.toasts = t /\ page'.user = page.user
        /\ page'.agents = page.agents /\ page'.selected = page.selected /\ page'.filter = page.filter
        /\ page'.messages = page.messages /\ page'.run = page.run /\ page'.events = page.events
        /\ page'.approvals = page.approvals /\ page'.decided = page.decided
        /\ page'.grants = page.grants /\ page'.files = page.files
        /\ page'.strayed = page.strayed /\ SamePast(page', page) /\ page'.openFile = page.openFile
    BY <1>2, <1>3 DEF PageSet, SamePast
  <1>6. UNCHANGED <<server, panel, net, polling>> BY DEF Dismiss, Human
  <1>7. ListsOf(page') /\ PanelsOf(page') /\ TrailOf(page')
    BY <1>5 DEF IInv, PageInv, ListsOf, PanelsOf, TrailOf, SamePast
  <1>8. PageInv' BY <1>4, <1>5, <1>7 DEF PageInv
  <1>9. NetInv'
    <2> SUFFICES ASSUME NEW r \in net PROVE RequestOK(r)' /\ AnswerOK(r)' BY <1>6 DEF NetInv
    <2>1. Follows(r.kind)' = Follows(r.kind) BY <1>6, FollowsStays
    <2> QED BY <1>5, <1>6, <2>1 DEF IInv, NetInv, RequestOK, AnswerOK, server
  <1>10. TrailInv' BY <1>5, <1>6 DEF IInv, TrailInv, server
  <1>11. MovesForward BY <1>5 DEF MovesForward, PageSet
  <1>12. KeepsPolls
    BY <1>5, <1>6 DEF KeepsPolls, IInv, ServerInv, PollInv, Polls, Watched, ShownRunning
  <1> QED BY <1>8, <1>9, <1>10, <1>11, <1>12 DEF Keeps

LEMMA ReloadStep == ASSUME IInv, Reload PROVE Keeps /\ KeepsPolls
  <1>1. page.user \in Users \cup {None} BY DEF IInv, PageInv, PageSet
  <1> DEFINE p == Fresh(page.user)
             r == Request(page, "auth", None, None)
  <1>2. page' = p /\ net' = {r} /\ polling' = {} BY DEF Reload
  <1>3. /\ p \in PageSet /\ ListsOf(p) /\ PanelsOf(p) /\ p.user = page.user /\ p.toasts = {}
        /\ p.approvals = {} /\ p.events = None /\ p.run = None
    BY <1>1, FreshIsOK
  <1>4. "auth" \in Kinds \ OfAgent /\ None \in Args BY DEF Kinds, OfAgent, Args
  <1>5. AskedBy(page, r) /\ r.kind = "auth" BY <1>1, <1>4, RequestIsAsked
  <1> HIDE DEF p, r
  <1>6. PageInv' BY <1>2, <1>3 DEF PageInv, TrailOf
  <1>7. NetInv' BY <1>2, <1>3, <1>4, <1>5 DEF NetInv, RequestOK, AnswerOK, AskedBy, Follows
  <1>8. TrailInv' BY <1>2, <1>3, <1>5 DEF TrailInv
  <1>9. MovesForward BY <1>2, <1>3 DEF MovesForward
  <1>10. KeepsPolls BY <1>2, <1>3 DEF KeepsPolls, PollInv, Watched, ShownRunning
  <1> QED BY <1>6, <1>7, <1>8, <1>9, <1>10 DEF Keeps

\* The server and the network leave the page as it is, and a poll answered is still a poll.
LEMMA StillWatched ==
  ASSUME IInv, page' = page,
         \A s \in net : \E r \in net' : r.kind = s.kind /\ r.agent = s.agent /\ r.live = s.live
  PROVE  StaysWatched
  BY DEF StaysWatched, Watched, ShownRunning

LEMMA AnsweredWatched ==
  ASSUME IInv, NEW q \in net, NEW g, net' = (net \ {q}) \cup {[q EXCEPT !.got = g]}, page' = page
  PROVE  StaysWatched
  <1>1. q \in NetSet BY DEF IInv, NetInv, RequestOK
  <1> DEFINE z == [q EXCEPT !.got = g]
  <1>2. z.kind = q.kind /\ z.agent = q.agent /\ z.live = q.live BY <1>1 DEF NetSet
  <1>3. net' = (net \ {q}) \cup {z} OBVIOUS
  <1> HIDE DEF z
  <1> QED BY <1>2, <1>3, StillWatched

LEMMA StepHolds ==
  ASSUME IInv, [Next]_vars
  PROVE  IInv' /\ MovesForward /\ StaysWatched
  <1>1. CASE ClickLogin \/ Create \/ Delete \/ Send \/ Stop \/ Command \/ Decide \/ OpenFile
             \/ PollApprovals \/ PollEvents \/ Select \/ SetFilter
    <2>1. UNCHANGED <<server, panel>>
      BY <1>1 DEF ClickLogin, Create, Delete, Send, Stop, Command, Decide, OpenFile,
                  PollApprovals, PollEvents, Select, SetFilter, Poll, Ask, Human
    <2>2. Keeps BY <1>1, AskStep, SelectStep, SetFilterStep
    <2>3. KeepsPolls BY <1>1, AskPolls
    <2> QED BY <2>1, <2>2, <2>3, PageStep
  <1>2. CASE Logout
    <2>1. ClearSession(net) /\ UNCHANGED <<server, panel>> BY <1>2 DEF Logout, Human
    <2> QED BY <2>1, ClearStep, ClearPolls, PageStep
  <1>3. CASE Reload
    <2>1. UNCHANGED <<server, panel>> BY <1>3 DEF Reload, Human
    <2> QED BY <1>3, <2>1, ReloadStep, PageStep
  <1>4. CASE Dismiss
    <2>1. UNCHANGED <<server, panel>> BY <1>4 DEF Dismiss, Human
    <2> QED BY <1>4, <2>1, DismissStep, PageStep
  <1>5. CASE Elsewhere \/ UNCHANGED vars
    <2>1. UNCHANGED <<page, net>> BY <1>5 DEF Elsewhere, vars
    <2> QED BY <1>5, <2>1, ElsewhereStep, StillWatched
  <1>6. ASSUME NEW q \in net, Serve(q) \/ Refuse(q) \/ Lose(q)
        PROVE  IInv' /\ MovesForward /\ StaysWatched
    <2>1. page' = page BY <1>6 DEF Serve, Refuse, Lose
    <2>2. PICK g : net' = (net \ {q}) \cup {[q EXCEPT !.got = g]}
      BY <1>6, ZenonT(40) DEF Serve, Refuse, Lose
    <2> QED BY <1>6, <2>1, <2>2, NetworkStep, AnsweredWatched
  <1>7. ASSUME NEW q \in net, Deliver(q)
        PROVE  IInv' /\ MovesForward /\ StaysWatched
    <2>1. UNCHANGED <<server, panel>> BY <1>7 DEF Deliver, Human
    <2> QED BY <1>7, <2>1, DeliverStep, DeliverPolls, PageStep
  <1>8. ASSUME NEW q \in net, Tick(q, net \ {q}) \/ Forget(q, net \ {q})
        PROVE  IInv' /\ MovesForward /\ StaysWatched
    <2>1. UNCHANGED <<server, panel>> BY <1>8 DEF Tick, Forget, Human
    <2> QED BY <1>8, <2>1, TimerStep, TimerPolls, PageStep
  <1> QED BY <1>1, <1>2, <1>3, <1>4, <1>5, <1>6, <1>7, <1>8 DEF Next

\* In every state: the page's lists, panels and trail are of whom and of what they should be,
\* each request under way says truly who sent it, and each run being polled has its poll.
THEOREM InvariantHolds == Spec => []IInv
  <1>1. IInv /\ [Next]_vars => IInv' BY StepHolds
  <1> QED BY <1>1, InitHolds, PTL DEF Spec

LEMMA OwnedIsOwn == ASSUME IInv PROVE OnlyOwnData
  <1>1. page \in PageSet /\ ListsOf(page) /\ PanelsOf(page) /\ TrailOf(page) BY DEF IInv, PageInv
  <1>2. ASSUME NEW a \in Shown PROVE Owner[a] = page.user
    <2>1. CASE a \in page.agents BY <1>1, <2>1 DEF ListsOf, Own
    <2>2. CASE \E c \in page.approvals \cup page.toasts : a = About[c]
      BY <1>1, <2>2 DEF ListsOf, OwnCards, IInv, PageInv
    <2>3. ASSUME Selected(page), a = page.selected PROVE Owner[a] = page.user
      BY <1>1, <2>3 DEF Selected, ListsOf, Own
    <2>4. ASSUME a \notin page.agents, ~\E c \in page.approvals \cup page.toasts : a = About[c]
          PROVE  Selected(page) /\ a = page.selected
      <3>1. Selected(page) BY <1>2, <2>4 DEF Shown
      <3>2. \/ a \in {x.agent : x \in {page.run, page.events, page.openFile} \ {None}}
            \/ a \in {page.grants, page.files} \ {None}
        BY <1>2, <2>4 DEF Shown
      <3>3. CASE a \in {page.grants, page.files} \ {None} BY <1>1, <3>1, <3>3 DEF PanelsOf
      <3>4. CASE \E x \in {page.run, page.events, page.openFile} \ {None} : a = x.agent
        BY <1>1, <3>1, <3>4 DEF PanelsOf, TrailOf
      <3> QED BY <3>2, <3>3, <3>4
    <2> QED BY <2>1, <2>2, <2>3, <2>4
  <1>3. ASSUME NEW a \in History \ page.strayed PROVE Owner[a] = page.user
    BY <1>1, <1>3 DEF History, ListsOf, Own
  <1>4. ASSUME NEW a \in Scopes \ page.left PROVE Owner[a] = page.user
    BY <1>1, <1>4 DEF Scopes, ListsOf, Own
  <1> QED BY <1>2, <1>3, <1>4 DEF OnlyOwnData

\* Whatever an answer of an earlier session brings, and whenever (refreshAgents, refreshApprovals,
\* pollRun and the selection's effect of App.tsx), the page shows the signed-in user's data only,
\* but for the one message createAgent and sendMessage can let in, and for the scopes of a run
\* (activeRunScopes) that clearSession and loginAs leave on it.
THEOREM OwnDataOnly == Spec => []OnlyOwnData
  BY InvariantHolds, OwnedIsOwn, PTL

\* However the polls of refreshEvents are answered, the trail on screen never goes back.
THEOREM TrailForward == Spec => TrailMovesForward
  <1>1. IInv /\ [Next]_vars =>
          [page.events # None /\ page'.events # None
             /\ page.events.agent = page'.events.agent /\ page.events.filter = page'.events.filter
           => page.events.rows <= page'.events.rows]_vars
    BY StepHolds DEF MovesForward
  <1> QED BY <1>1, InvariantHolds, PTL DEF Spec, TrailMovesForward

\* refreshApprovals, in whatever order its answers and those to decisions arrive, offers a card
\* that the session was shown as decided again only once a list without it was rendered since.
THEOREM DecidedStay == Spec => []DecidedStaysDecided
  <1>1. IInv => DecidedStaysDecided
    BY DEF IInv, PageInv, ListsOf, Pending, DecidedStaysDecided
  <1> QED BY <1>1, InvariantHolds, PTL

\* A run shown as running keeps its poll in this session, whatever is selected, stopped or signed
\* in meanwhile: pollRun ends it only when it was refused or the run is over.
THEOREM RunIsWatched == Spec => RunStaysWatched
  <1>1. IInv /\ [Next]_vars =>
          [\/ ~Watched \/ Watched'
           \/ \E q \in net \ net' : q.kind = "closing" \/ (q.kind = "run" /\ q.got # None
                                                           /\ q.got.code # 200)]_vars
    BY StepHolds DEF StaysWatched, GivenUp
  <1> QED BY <1>1, InvariantHolds, PTL DEF Spec, RunStaysWatched
================================================================================
