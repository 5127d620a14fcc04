------------------------------- MODULE Approvals -------------------------------
(***************************************************************************)
(* Scopes and the cards that ask for them (approvals.ts, and the parts of    *)
(* agent-service.ts and gateway.ts that mint, deny, ask, edit and kill), for *)
(* one agent.                                                                *)
(*                                                                          *)
(* A run gets the scopes its task seems to need; a call beyond them is denied *)
(* and raises a card; a human's answer widens the run's token and the agent.  *)
(* An answer is a check on a snapshot and up to two mutations, and answers,   *)
(* kills and denied calls overlap.  Cards over grants and destinations take   *)
(* the same steps; what they widen is in Gateway.                             *)
(***************************************************************************)
EXTENDS Naturals

CONSTANTS Scopes,
          Runs,            \* messages to the agent, each with its run and token
          Cards,           \* card ids, used once
          Calls,           \* tool calls under way at a time
          Humans,          \* answers under way at a time, from any browser
          Killer,          \* killAgent, which answers cards as well
          None,            \* no run, no card, no scope
          MaxKills         \* bound: kills

Deciders == Humans \cup {Killer}
Allow    == {"allow_run", "allow_always"}

ASSUME ConstantsOK ==
  /\ Killer \notin Humans
  /\ None \notin Runs \cup Cards \cup Scopes
  /\ MaxKills \in Nat

VARIABLES
  \* the agent
  tools,           \* permissions.tools
  temp,            \* tempScopes: the run whose expiry each has, if any
  current,         \* the run that makes it busy
  \* the runs and their tokens
  phase,           \* where each message is
  expired,         \* runs whose window is over: token.expiresAt has passed
  seen,            \* the windows over when each message arrived
  scp,             \* the scopes of each token
  estimate,        \* estimated
  missing,         \* the scopes sendMessage has yet to ask for
  live,            \* tokens not revoked
  \* cards, calls, answers
  card, call, answer,
  toVoid,          \* the cards killAgent has yet to refuse
  \* history
  kills,
  killed,          \* runs whose token was there when the last kill came
  since,           \* scopes given since the last kill, or under way when it came
  widened,         \* cards that have widened something
  muddled          \* cards answered twice at once, or by an answer cut short

agent   == <<tools, temp, current>>
tokens  == <<phase, expired, seen, scp, estimate, missing, live>>
history == <<kills, killed, since, widened, muddled>>
vars    == <<agent, tokens, card, call, answer, toVoid, history>>

NoCard   == [status |-> "none", run |-> None, scope |-> None, why |-> "none"]
NoCall   == [run |-> None, scope |-> None]
NoAnswer == [at |-> "idle", card |-> None, say |-> "deny"]

Init ==
  /\ tools \in SUBSET Scopes
  /\ temp = [s \in Scopes |-> None]
  /\ current = None
  /\ phase = [r \in Runs |-> "idle"]
  /\ expired = {}
  /\ seen = [r \in Runs |-> {}]
  /\ scp = [r \in Runs |-> {}]
  /\ estimate = [r \in Runs |-> {}]
  /\ missing = [r \in Runs |-> {}]
  /\ live = {}
  /\ card = [k \in Cards |-> NoCard]
  /\ call = [c \in Calls |-> NoCall]
  /\ answer = [d \in Deciders |-> NoAnswer]
  /\ toVoid = {}
  /\ kills = 0 /\ killed = {} /\ since = Scopes
  /\ widened = {} /\ muddled = {}

ScopeOf(d) == card[answer[d].card].scope
RunOf(d)   == card[answer[d].card].run

\* tempScopes that had not expired when the message arrived.
LiveTemps(r) == {s \in Scopes : temp[s] # None /\ temp[s] \notin seen[r]}

--------------------------------------------------------------------------------
(* Mutated forms of actions below, each with a mistake the code could make.  They *)
(* are no part of Next.                                                           *)

\* The token gets what the agent holds, whatever the task needs.
MintStanding(r, e) ==
  LET standing == tools \cup LiveTemps(r) IN
  /\ phase[r] = "estimating" /\ current = None
  /\ scp' = [scp EXCEPT ![r] = standing]
  /\ estimate' = [estimate EXCEPT ![r] = e]
  /\ missing' = [missing EXCEPT ![r] = e \ standing]
  /\ live' = live \cup {r} /\ current' = r
  /\ phase' = [phase EXCEPT ![r] = "minted"]
  /\ seen' = [seen EXCEPT ![r] = {}]
  /\ UNCHANGED <<tools, temp, expired, card, call, answer, toVoid, history>>

\* The status on the snapshot is not looked at.
CheckNothing(d, k, say) ==
  /\ answer[d] = NoAnswer
  /\ card[k].status # "none"
  /\ d = Killer => k \in toVoid /\ say = "deny"
  /\ answer' = [answer EXCEPT ![d] =
                  [at |-> IF say = "deny" THEN "widened" ELSE "checked", card |-> k, say |-> say]]
  /\ since' = IF say = "deny" THEN since ELSE since \cup {card[k].scope}
  /\ muddled' = IF \E o \in Deciders : answer[o].card = k THEN muddled \cup {k} ELSE muddled
  /\ UNCHANGED <<agent, tokens, card, call, toVoid, kills, killed, widened>>

\* The run that was denied is forgotten.
WidenAgentOnly(d) ==
  LET s == ScopeOf(d)  r == RunOf(d) IN
  /\ answer[d].at = "checked"
  /\ IF answer[d].say = "allow_run"
     THEN temp' = [temp EXCEPT ![s] = r] /\ UNCHANGED tools
     ELSE tools' = tools \cup {s} /\ UNCHANGED temp
  /\ widened' = widened \cup {answer[d].card}
  /\ answer' = [answer EXCEPT ![d].at = "widened"]
  /\ UNCHANGED <<current, tokens, card, call, toVoid, kills, killed, since, muddled>>

\* What was decided is kept apart from the status.
MarkDecided(d) ==
  /\ answer[d].at = "widened"
  /\ card' = [card EXCEPT ![answer[d].card].status = "decided"]
  /\ answer' = [answer EXCEPT ![d] = NoAnswer]
  /\ toVoid' = IF d = Killer THEN toVoid \ {answer[d].card} ELSE toVoid
  /\ UNCHANGED <<agent, tokens, call, history>>

\* The scopes of "Allow for this run" are left to the next run.
KillKeepingTemps ==
  /\ kills < MaxKills /\ toVoid = {} /\ answer[Killer] = NoAnswer
  /\ live' = {} /\ tools' = {}
  /\ toVoid' = {k \in Cards : card[k].status = "pending"}
  /\ kills' = kills + 1
  /\ killed' = {r \in Runs : phase[r] \in {"minted", "stuck", "ended"}}
  /\ since' = {ScopeOf(d) : d \in {h \in Humans : answer[h].at = "checked"}}
  /\ UNCHANGED <<temp, current, phase, expired, seen, scp, estimate, missing, card, call, answer,
                 widened, muddled>>

--------------------------------------------------------------------------------
(* createCardOnDeny: one pending card per scope and reason to ask *)

Ask(r, s, why) ==
  IF \E k \in Cards : card[k].status = "pending" /\ card[k].scope = s /\ card[k].why = why
  THEN UNCHANGED card
  ELSE \E k \in Cards :
         /\ card[k] = NoCard
         /\ card' = [card EXCEPT ![k] = [status |-> "pending", run |-> r, scope |-> s,
                                         why |-> why]]

--------------------------------------------------------------------------------
(* Messages and runs *)

Arrive(r) ==
  /\ phase[r] = "idle"
  /\ phase' = [phase EXCEPT ![r] = "estimating"]
  /\ seen' = [seen EXCEPT ![r] = expired]
  /\ UNCHANGED <<agent, expired, scp, estimate, missing, live, card, call, answer, toVoid, history>>

\* The estimate e narrows what the agent holds; what a human allowed for this run's
\* window stays.  No estimate, no narrowing.
Mint(r, e) ==
  LET standing == tools \cup LiveTemps(r) IN
  /\ phase[r] = "estimating" /\ current = None
  /\ scp' = [scp EXCEPT ![r] = IF e = {} THEN standing ELSE (standing \cap e) \cup LiveTemps(r)]
  /\ estimate' = [estimate EXCEPT ![r] = e]
  /\ missing' = [missing EXCEPT ![r] = e \ standing]
  /\ live' = live \cup {r} /\ current' = r
  /\ phase' = [phase EXCEPT ![r] = "minted"]
  /\ seen' = [seen EXCEPT ![r] = {}]
  /\ UNCHANGED <<tools, temp, expired, card, call, answer, toVoid, history>>

\* requestMissingScopes: one card after the other, before the run executes.
AskForScope(r, s) ==
  /\ s \in missing[r]
  /\ Ask(r, s, "task")
  /\ missing' = [missing EXCEPT ![r] = @ \ {s}]
  /\ UNCHANGED <<agent, phase, expired, seen, scp, estimate, live, call, answer, toVoid, history>>

\* A card cannot be written: the run is never executed, and holds its agent.
AskFails(r) ==
  /\ missing[r] # {}
  /\ missing' = [missing EXCEPT ![r] = {}]
  /\ phase' = [phase EXCEPT ![r] = "stuck"]
  /\ UNCHANGED <<agent, expired, seen, scp, estimate, live, card, call, answer, toVoid, history>>

\* However the run ends, its token is closed.
End(r) ==
  /\ phase[r] = "minted" /\ missing[r] = {}
  /\ phase' = [phase EXCEPT ![r] = "ended"]
  /\ live' = live \ {r} /\ current' = None
  /\ UNCHANGED <<tools, temp, expired, seen, scp, estimate, missing, card, call, answer, toVoid,
                 history>>

WindowEnds(r) ==
  /\ phase[r] \in {"minted", "stuck", "ended"} /\ r \notin expired
  /\ expired' = expired \cup {r}
  /\ UNCHANGED <<agent, phase, seen, scp, estimate, missing, live, card, call, answer, toVoid,
                 history>>

--------------------------------------------------------------------------------
(* Tool calls: only the ones that lack their scope leave anything behind *)

\* Authenticated against the token row, refused by the scopes it had then.
Deny(c, s) ==
  /\ call[c] = NoCall
  /\ current \in live \ expired /\ phase[current] = "minted" /\ missing[current] = {}
  /\ s \notin scp[current]
  /\ call' = [call EXCEPT ![c] = [run |-> current, scope |-> s]]
  /\ UNCHANGED <<agent, tokens, card, answer, toVoid, history>>

\* The audit row is written, then the card.
RaiseCard(c) ==
  /\ call[c] # NoCall
  /\ Ask(call[c].run, call[c].scope, "deny")
  /\ call' = [call EXCEPT ![c] = NoCall]
  /\ UNCHANGED <<agent, tokens, answer, toVoid, history>>

\* One of the two cannot be written.
CallFails(c) ==
  /\ call[c] # NoCall
  /\ call' = [call EXCEPT ![c] = NoCall]
  /\ UNCHANGED <<agent, tokens, card, answer, toVoid, history>>

--------------------------------------------------------------------------------
(* decideApproval *)

\* The card is pending on a snapshot; a Deny has nothing to widen.
Check(d, k, say) ==
  /\ answer[d] = NoAnswer
  /\ card[k].status = "pending"
  /\ d = Killer => k \in toVoid /\ say = "deny"
  /\ answer' = [answer EXCEPT ![d] =
                  [at |-> IF say = "deny" THEN "widened" ELSE "checked", card |-> k, say |-> say]]
  /\ since' = IF say = "deny" THEN since ELSE since \cup {card[k].scope}
  /\ muddled' = IF \E o \in Deciders : answer[o].card = k THEN muddled \cup {k} ELSE muddled
  /\ UNCHANGED <<agent, tokens, card, call, toVoid, kills, killed, widened>>

\* The token of the run that asked, and the agent: for the run's window or for good.
Widen(d) ==
  LET s == ScopeOf(d)  r == RunOf(d) IN
  /\ answer[d].at = "checked"
  /\ scp' = [scp EXCEPT ![r] = @ \cup {s}]
  /\ IF answer[d].say = "allow_run"
     THEN temp' = [temp EXCEPT ![s] = r] /\ UNCHANGED tools
     ELSE tools' = tools \cup {s} /\ UNCHANGED temp
  /\ widened' = widened \cup {answer[d].card}
  /\ answer' = [answer EXCEPT ![d].at = "widened"]
  /\ UNCHANGED <<current, phase, expired, seen, estimate, missing, live, card, call, toVoid, kills,
                 killed, since, muddled>>

\* The status is written without another look; then the audit row, and if that cannot
\* be written killAgent stops here.
Mark(d) ==
  /\ answer[d].at = "widened"
  /\ card' = [card EXCEPT ![answer[d].card].status = answer[d].say]
  /\ answer' = [answer EXCEPT ![d] = NoAnswer]
  /\ IF d = Killer THEN toVoid' \in {toVoid \ {answer[d].card}, {}} ELSE UNCHANGED toVoid
  /\ UNCHANGED <<agent, tokens, call, history>>

\* A mutation cannot be written; killAgent stops at the first such card.
AnswerFails(d) ==
  /\ answer[d] # NoAnswer
  /\ answer' = [answer EXCEPT ![d] = NoAnswer]
  /\ toVoid' = IF d = Killer THEN {} ELSE toVoid
  /\ muddled' = muddled \cup {answer[d].card}
  /\ UNCHANGED <<agent, tokens, card, call, kills, killed, since, widened>>

--------------------------------------------------------------------------------
(* updateAgent, killAgent *)

Edit(S) ==
  /\ current = None
  /\ tools' = S
  /\ since' = since \cup S
  /\ UNCHANGED <<temp, current, tokens, card, call, answer, toVoid, kills, killed, widened, muddled>>

\* One mutation; the cards to void are read when it is done.
Kill ==
  /\ kills < MaxKills /\ toVoid = {} /\ answer[Killer] = NoAnswer
  /\ live' = {} /\ tools' = {} /\ temp' = [s \in Scopes |-> None]
  /\ toVoid' = {k \in Cards : card[k].status = "pending"}
  /\ kills' = kills + 1
  /\ killed' = {r \in Runs : phase[r] \in {"minted", "stuck", "ended"}}
  /\ since' = {ScopeOf(d) : d \in {h \in Humans : answer[h].at = "checked"}}
  /\ UNCHANGED <<current, phase, expired, seen, scp, estimate, missing, card, call, answer,
                 widened, muddled>>

\* A card of the list has been decided meanwhile: 409, and the rest stays.
KillAborts ==
  /\ answer[Killer] = NoAnswer
  /\ \E k \in toVoid : card[k].status # "pending"
  /\ toVoid' = {}
  /\ UNCHANGED <<agent, tokens, card, call, answer, history>>

--------------------------------------------------------------------------------

RunStep(r) == \/ Arrive(r)
              \/ \E e \in SUBSET Scopes : Mint(r, e)
              \/ \E s \in Scopes : AskForScope(r, s)
              \/ AskFails(r) \/ End(r) \/ WindowEnds(r)
CallStep(c) == (\E s \in Scopes : Deny(c, s)) \/ RaiseCard(c) \/ CallFails(c)
AnswerStep(d) == \/ \E k \in Cards, say \in Allow \cup {"deny"} : Check(d, k, say)
                 \/ Widen(d) \/ Mark(d) \/ AnswerFails(d)

Next ==
  \/ \E r \in Runs : RunStep(r)
  \/ \E c \in Calls : CallStep(c)
  \/ \E d \in Deciders : AnswerStep(d)
  \/ \E S \in SUBSET Scopes : Edit(S)
  \/ Kill \/ KillAborts

Spec == Init /\ [][Next]_vars

--------------------------------------------------------------------------------
(* Properties *)

\* Every variable has its type.
TypeOK ==
  /\ tools \subseteq Scopes /\ temp \in [Scopes -> Runs \cup {None}]
  /\ current \in Runs \cup {None}
  /\ phase \in [Runs -> {"idle", "estimating", "minted", "stuck", "ended"}]
  /\ expired \subseteq Runs /\ seen \in [Runs -> SUBSET Runs]
  /\ scp \in [Runs -> SUBSET Scopes] /\ estimate \in [Runs -> SUBSET Scopes]
  /\ missing \in [Runs -> SUBSET Scopes]
  /\ live \subseteq Runs
  /\ card \in [Cards -> [status : {"none", "pending", "deny"} \cup Allow,
                         run : Runs \cup {None}, scope : Scopes \cup {None},
                         why : {"none", "task", "deny"}]]
  /\ call \in [Calls -> [run : Runs \cup {None}, scope : Scopes \cup {None}]]
  /\ answer \in [Deciders -> [at : {"idle", "checked", "widened"},
                              card : Cards \cup {None}, say : Allow \cup {"deny"}]]
  /\ toVoid \subseteq Cards
  /\ kills \in 0..MaxKills
  /\ killed \subseteq Runs /\ since \subseteq Scopes
  /\ widened \subseteq Cards /\ muddled \subseteq Cards

\* Narrowing is automatic and widening never is: a run whose task was estimated
\* holds nothing beyond the estimate but what a human answered a card with.
NarrowingHolds ==
  LET given == {card[k].scope : k \in widened} IN
  \A r \in Runs : estimate[r] # {} => scp[r] \subseteq estimate[r] \cup given

\* An answered card is not answered in vain: the run that asked can now do it.
AllowedRunMayRetry ==
  \A k \in Cards : card[k].status \in Allow => card[k].scope \in scp[card[k].run]

\* approvals.ts:37 says a Deny changes nothing.  So it is, but for a card that was
\* answered twice at once or whose first answer was cut short.
DenyChangesNothing ==
  \A k \in Cards : card[k].status = "deny" /\ k \notin muddled => k \notin widened

\* After a kill the agent, its next runs included, holds nothing a human has not
\* given since; an answer that was under way at that moment still counts.
KillHolds ==
  /\ tools \subseteq since
  /\ \A s \in Scopes : temp[s] # None => s \in since
  /\ \A r \in live : scp[r] \subseteq since

\* agent-service.ts:408 and docs/API.md:60: killAgent refuses the cards the agent
\* provoked, since an "Always allow" clicked later would undo the kill.  So once it
\* has, no card over a call denied before the kill can still be answered with Allow.
KillIsFinal ==
  [][\A h \in Humans : toVoid = {} /\ answer[h] = NoAnswer /\ answer'[h].at = "checked" =>
        LET k == card[answer'[h].card] IN k.why = "task" \/ k.run \notin killed]_vars
================================================================================
