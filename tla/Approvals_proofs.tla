---------------------------- MODULE Approvals_proofs ----------------------------
(***************************************************************************)
(* Proofs about Approvals, for any number of scopes, runs, cards, calls,    *)
(* humans and kills.                                                        *)
(***************************************************************************)
EXTENDS Approvals, TLAPS

CardSet   == [status : {"none", "pending", "deny"} \cup Allow, run : Runs \cup {None},
              scope : Scopes \cup {None}, why : {"none", "task", "deny"}]
CallSet   == [run : Runs \cup {None}, scope : Scopes \cup {None}]
AnswerSet == [at : {"idle", "checked", "widened"}, card : Cards \cup {None},
              say : Allow \cup {"deny"}]

\* A run whose token has been minted.
Born == {"minted", "stuck", "ended"}

\* A card asks for a scope of a run that has a token.
CardInv ==
  \A k \in Cards : card[k].status # "none" =>
    card[k].run \in Runs /\ card[k].scope \in Scopes /\ phase[card[k].run] \in Born

\* So does a denied call that will raise one, and what sendMessage has yet to ask.
AskInv ==
  /\ \A c \in Calls : call[c] # NoCall =>
       call[c].run \in Runs /\ call[c].scope \in Scopes /\ phase[call[c].run] \in Born
  /\ \A r \in Runs : missing[r] # {} => phase[r] \in Born

\* Where an answer stands: what it is about to widen was given since the last kill,
\* and what it has widened the run that asked holds.
AnswerOK(d) ==
  /\ answer[d].at = "idle" => answer[d] = NoAnswer
  /\ answer[d].at # "idle" => answer[d].card \in Cards /\ card[answer[d].card].status # "none"
  /\ answer[d].at = "checked" => answer[d].say \in Allow /\ ScopeOf(d) \in since
  /\ answer[d].at = "widened" /\ answer[d].say \in Allow => ScopeOf(d) \in scp[RunOf(d)]

AnswerInv == \A d \in Deciders : AnswerOK(d)

\* What has been given by a card is the scope of a card, and temporary scopes were.
GivenInv ==
  /\ \A k \in widened : card[k].status # "none"
  /\ \A s \in Scopes : temp[s] # None => \E k \in widened : card[k].scope = s

\* A card is answered by one decider at a time, and while it is pending; what it has widened
\* it is being, or was, allowed to.  Unless it is muddled.
Orderly(k) ==
  /\ \A d, e \in Deciders : answer[d].card = k /\ answer[e].card = k => d = e
  /\ \A d \in Deciders : answer[d].card = k => card[k].status = "pending"
  /\ k \in widened => \/ card[k].status \in Allow
                      \/ \E d \in Deciders : answer[d].card = k /\ answer[d].say \in Allow

OneAnswer == \A k \in Cards \ muddled : Orderly(k)

IInv == /\ TypeOK /\ CardInv /\ AskInv /\ AnswerInv /\ GivenInv /\ OneAnswer
        /\ NarrowingHolds /\ AllowedRunMayRetry /\ KillHolds

--------------------------------------------------------------------------------
(* Cards *)

\* createCardOnDeny leaves the cards there are, and may write one.
LEMMA AskWrites ==
  ASSUME TypeOK, NEW r \in Runs, NEW s \in Scopes, NEW why \in {"task", "deny"}, Ask(r, s, why)
  PROVE  /\ card' \in [Cards -> CardSet]
         /\ \A k \in Cards : \/ card'[k] = card[k]
                             \/ /\ card[k].status = "none" /\ card'[k].status = "pending"
                                /\ card'[k].run = r /\ card'[k].scope = s
  BY DEF TypeOK, Ask, NoCard, CardSet

--------------------------------------------------------------------------------
(* Types *)

LEMMA TypeInit == Init => TypeOK
  BY ConstantsOK DEF Init, TypeOK, NoCard, NoCall, NoAnswer

LEMMA TypeStep == ASSUME IInv, [Next]_vars PROVE TypeOK'
  <1> USE DEF CardSet, CallSet, AnswerSet
  <1>0. TypeOK BY DEF IInv
  <1>1. ASSUME NEW r \in Runs, Arrive(r) PROVE TypeOK' BY <1>0, <1>1 DEF Arrive, TypeOK, agent, history
  <1>2. ASSUME NEW r \in Runs, NEW e \in SUBSET Scopes, Mint(r, e) PROVE TypeOK'
    <2> DEFINE new == IF e = {} THEN tools \cup LiveTemps(r)
                      ELSE ((tools \cup LiveTemps(r)) \cap e) \cup LiveTemps(r)
    <2>1. LiveTemps(r) \subseteq Scopes /\ tools \subseteq Scopes BY <1>0 DEF LiveTemps, TypeOK
    <2>2. new \in SUBSET Scopes /\ e \ (tools \cup LiveTemps(r)) \in SUBSET Scopes BY <2>1
    <2>3. /\ scp' = [scp EXCEPT ![r] = new]
          /\ missing' = [missing EXCEPT ![r] = e \ (tools \cup LiveTemps(r))]
      BY <1>2 DEF Mint
    <2> HIDE DEF new
    <2>4. scp' \in [Runs -> SUBSET Scopes] /\ missing' \in [Runs -> SUBSET Scopes]
      BY <1>0, <2>2, <2>3 DEF TypeOK
    <2> QED BY <1>0, <1>2, <2>4 DEF Mint, TypeOK, history
  <1>3. ASSUME NEW r \in Runs, NEW s \in Scopes, AskForScope(r, s) PROVE TypeOK'
    <2>1. card' \in [Cards -> CardSet] BY <1>0, <1>3, AskWrites DEF AskForScope
    <2> QED BY <1>0, <1>3, <2>1 DEF AskForScope, TypeOK, agent, history
  <1>4. ASSUME NEW r \in Runs, AskFails(r) \/ End(r) \/ WindowEnds(r) PROVE TypeOK'
    <2>1. CASE AskFails(r) BY <1>0, <2>1 DEF AskFails, TypeOK, agent, history
    <2>2. CASE End(r) BY <1>0, <2>2 DEF End, TypeOK, history
    <2>3. CASE WindowEnds(r) BY <1>0, <2>3 DEF WindowEnds, TypeOK, agent, history
    <2> QED BY <1>4, <2>1, <2>2, <2>3
  <1>5. ASSUME NEW c \in Calls, NEW s \in Scopes, Deny(c, s) PROVE TypeOK'
    BY <1>0, <1>5 DEF Deny, TypeOK, agent, history, tokens
  <1>6. ASSUME NEW c \in Calls, RaiseCard(c) PROVE TypeOK'
    <2>1. call[c].run \in Runs /\ call[c].scope \in Scopes BY <1>6 DEF RaiseCard, IInv, AskInv
    <2>2. card' \in [Cards -> CardSet] BY <1>0, <1>6, <2>1, AskWrites DEF RaiseCard
    <2> QED BY <1>0, <1>6, <2>2 DEF RaiseCard, TypeOK, agent, history, tokens, NoCall
  <1>7. ASSUME NEW c \in Calls, CallFails(c) PROVE TypeOK'
    BY <1>0, <1>7 DEF CallFails, TypeOK, agent, history, tokens, NoCall
  <1>8. ASSUME NEW d \in Deciders, NEW k \in Cards, NEW say \in Allow \cup {"deny"}, Check(d, k, say)
        PROVE  TypeOK'
    <2>1. card[k].scope \in Scopes BY <1>8 DEF Check, IInv, CardInv
    <2> QED BY <1>0, <1>8, <2>1 DEF Check, TypeOK, agent, tokens
  <1>9. ASSUME NEW d \in Deciders, Widen(d) PROVE TypeOK'
    <2>1. ScopeOf(d) \in Scopes /\ RunOf(d) \in Runs /\ answer[d].card \in Cards
      BY <1>9 DEF Widen, IInv, AnswerInv, AnswerOK, CardInv, ScopeOf, RunOf
    <2>2. scp' \in [Runs -> SUBSET Scopes] BY <1>0, <1>9, <2>1 DEF Widen, TypeOK
    <2>3. temp' \in [Scopes -> Runs \cup {None}] /\ tools' \subseteq Scopes
      BY <1>0, <1>9, <2>1 DEF Widen, TypeOK
    <2>4. answer' \in [Deciders -> AnswerSet] BY <1>0, <1>9, ZenonT(40) DEF Widen, TypeOK
    <2>5. widened' \subseteq Cards BY <1>0, <1>9, <2>1 DEF Widen, TypeOK
    <2>6. UNCHANGED <<current, phase, expired, seen, estimate, missing, live, card, call, toVoid, kills,
                      killed, since, muddled>>
      BY <1>9 DEF Widen
    <2> QED BY <1>0, <2>2, <2>3, <2>4, <2>5, <2>6 DEF TypeOK
  <1>10. ASSUME NEW d \in Deciders, Mark(d) PROVE TypeOK'
    <2>1. card' \in [Cards -> CardSet]
      <3>1. answer[d].say \in {"none", "pending", "deny"} \cup Allow BY <1>0 DEF TypeOK
      <3>2. card' = [card EXCEPT ![answer[d].card].status = answer[d].say] BY <1>10 DEF Mark
      <3>3. card \in [Cards -> CardSet] BY <1>0 DEF TypeOK
      <3> QED BY <3>1, <3>2, <3>3
    <2>2. answer' \in [Deciders -> AnswerSet] BY <1>0, <1>10 DEF Mark, TypeOK, NoAnswer
    <2>3. toVoid' \subseteq Cards
      <3>1. CASE d = Killer BY <1>0, <1>10, <3>1 DEF Mark, TypeOK
      <3>2. CASE d # Killer BY <1>0, <1>10, <3>2 DEF Mark, TypeOK
      <3> QED BY <3>1, <3>2
    <2> QED BY <1>0, <1>10, <2>1, <2>2, <2>3 DEF Mark, TypeOK, agent, tokens, history
  <1>11. ASSUME NEW d \in Deciders, AnswerFails(d) PROVE TypeOK'
    <2>1. answer[d].card \in Cards BY <1>0, <1>11 DEF AnswerFails, IInv, AnswerInv, AnswerOK, TypeOK, NoAnswer
    <2> QED BY <1>0, <1>11, <2>1 DEF AnswerFails, TypeOK, agent, tokens, NoAnswer
  <1>12. ASSUME NEW S \in SUBSET Scopes, Edit(S) PROVE TypeOK'
    BY <1>0, <1>12 DEF Edit, TypeOK, tokens
  <1>13. CASE Kill
    <2>1. \A d \in Humans : answer[d].at = "checked" => ScopeOf(d) \in Scopes
      BY DEF IInv, AnswerInv, AnswerOK, CardInv, ScopeOf, Deciders
    <2> QED BY <1>0, <1>13, <2>1, ConstantsOK DEF Kill, TypeOK
  <1>14. CASE KillAborts BY <1>0, <1>14 DEF KillAborts, TypeOK, agent, tokens, history
  <1>15. CASE UNCHANGED vars BY <1>0, <1>15 DEF vars, agent, tokens, history, TypeOK
  <1> QED BY <1>1, <1>2, <1>3, <1>4, <1>5, <1>6, <1>7, <1>8, <1>9, <1>10, <1>11, <1>12, <1>13,
             <1>14, <1>15 DEF Next, RunStep, CallStep, AnswerStep

--------------------------------------------------------------------------------
(* What no step takes back                                                     *)

\* A step that answers no card and asks for none leaves the cards alone.
LEMMA CardStep ==
  ASSUME IInv, [Next]_vars
  PROVE  \/ card' = card
         \/ \E r \in Runs, s \in Scopes, why \in {"task", "deny"} :
              phase[r] \in Born /\ phase' = phase /\ Ask(r, s, why)
         \/ \E d \in Deciders : Mark(d)
  <1>1. ASSUME NEW r \in Runs, RunStep(r)
        PROVE  card' = card \/ \E s \in Scopes : AskForScope(r, s)
    BY <1>1 DEF RunStep, Arrive, Mint, AskFails, End, WindowEnds
  <1>2. ASSUME NEW r \in Runs, NEW s \in Scopes, AskForScope(r, s)
        PROVE  phase[r] \in Born /\ phase' = phase /\ Ask(r, s, "task")
    BY <1>2 DEF AskForScope, IInv, AskInv
  <1>3. ASSUME NEW c \in Calls, CallStep(c)
        PROVE  card' = card \/ RaiseCard(c)
    BY <1>3 DEF CallStep, Deny, CallFails
  <1>4. ASSUME NEW c \in Calls, RaiseCard(c)
        PROVE  /\ call[c].run \in Runs /\ call[c].scope \in Scopes /\ phase[call[c].run] \in Born
               /\ phase' = phase /\ Ask(call[c].run, call[c].scope, "deny")
    BY <1>4 DEF RaiseCard, IInv, AskInv, tokens
  <1>5. ASSUME NEW d \in Deciders, AnswerStep(d) PROVE card' = card \/ Mark(d)
    BY <1>5 DEF AnswerStep, Check, Widen, AnswerFails
  <1>6. ASSUME NEW S, Edit(S) PROVE card' = card BY <1>6 DEF Edit
  <1>7. ASSUME Kill \/ KillAborts \/ UNCHANGED vars PROVE card' = card
    BY <1>7 DEF Kill, KillAborts, vars
  <1> QED BY <1>1, <1>2, <1>3, <1>4, <1>5, <1>6, <1>7 DEF Next

\* A card keeps its run and its scope; one that is new asks for a run that has a token.
LEMMA CardsLast ==
  ASSUME IInv, [Next]_vars, NEW k \in Cards
  PROVE  /\ card[k].status # "none" =>
              /\ card'[k].status # "none"
              /\ card'[k].run = card[k].run /\ card'[k].scope = card[k].scope
         /\ card[k].status = "none" /\ card'[k].status # "none" =>
              /\ card'[k].status = "pending"
              /\ card'[k].run \in Runs /\ card'[k].scope \in Scopes
              /\ phase[card'[k].run] \in Born
  <1>0. TypeOK BY DEF IInv
  <1>1. CASE card' = card BY <1>1
  <1>2. ASSUME NEW r \in Runs, NEW s \in Scopes, NEW why \in {"task", "deny"},
               phase[r] \in Born, Ask(r, s, why)
        PROVE  \/ card'[k] = card[k]
               \/ /\ card[k].status = "none" /\ card'[k].status = "pending"
                  /\ card'[k].run = r /\ card'[k].scope = s
    BY <1>0, <1>2, AskWrites
  <1>3. ASSUME NEW d \in Deciders, Mark(d)
        PROVE  /\ card[k].status # "none" =>
                    /\ card'[k].status # "none"
                    /\ card'[k].run = card[k].run /\ card'[k].scope = card[k].scope
               /\ card[k].status = "none" => card'[k] = card[k]
    <2>1. answer[d].say \in Allow \cup {"deny"} /\ card \in [Cards -> CardSet]
      BY <1>0 DEF TypeOK, CardSet
    <2>2. card' = [card EXCEPT ![answer[d].card].status = answer[d].say] BY <1>3 DEF Mark
    <2>3. card[answer[d].card].status # "none" BY <1>3 DEF Mark, IInv, AnswerInv, AnswerOK
    <2> QED BY <2>1, <2>2, <2>3 DEF CardSet, Allow
  <1> QED BY <1>1, <1>2, <1>3, CardStep

\* A run that has its token keeps it, what it may do is only widened, and what was estimated
\* stays.
LEMMA RunsLast ==
  ASSUME IInv, [Next]_vars, NEW r \in Runs, phase[r] \in Born
  PROVE  phase'[r] \in Born /\ scp[r] \subseteq scp'[r] /\ estimate'[r] = estimate[r]
  <1>0. TypeOK BY DEF IInv
  <1>1. ASSUME NEW q \in Runs, RunStep(q)
        PROVE  phase'[r] \in Born /\ scp[r] \subseteq scp'[r] /\ estimate'[r] = estimate[r]
    <2>1. CASE Arrive(q) BY <1>0, <2>1 DEF Arrive, TypeOK, Born
    <2>2. ASSUME NEW e \in SUBSET Scopes, Mint(q, e)
          PROVE  phase'[r] \in Born /\ scp[r] \subseteq scp'[r] /\ estimate'[r] = estimate[r]
      <3>1. q # r BY <2>2 DEF Mint, Born
      <3> QED BY <1>0, <2>2, <3>1 DEF Mint, TypeOK
    <2>3. ASSUME NEW s \in Scopes, AskForScope(q, s)
          PROVE  phase'[r] \in Born /\ scp[r] \subseteq scp'[r] /\ estimate'[r] = estimate[r]
      BY <2>3 DEF AskForScope
    <2>4. CASE AskFails(q) \/ End(q) \/ WindowEnds(q)
      BY <1>0, <2>4 DEF AskFails, End, WindowEnds, TypeOK, Born
    <2> QED BY <1>1, <2>1, <2>2, <2>3, <2>4 DEF RunStep
  <1>2. ASSUME NEW c \in Calls, CallStep(c) PROVE UNCHANGED <<phase, scp, estimate>>
    BY <1>2 DEF CallStep, Deny, RaiseCard, CallFails, tokens
  <1>3. ASSUME NEW d \in Deciders, AnswerStep(d)
        PROVE  phase'[r] \in Born /\ scp[r] \subseteq scp'[r] /\ estimate'[r] = estimate[r]
    <2>1. CASE Widen(d) BY <1>0, <2>1 DEF Widen, TypeOK
    <2>2. CASE ~Widen(d) BY <1>3, <2>2 DEF AnswerStep, Check, Mark, AnswerFails, tokens
    <2> QED BY <2>1, <2>2
  <1>4. ASSUME NEW S, Edit(S) PROVE UNCHANGED <<phase, scp, estimate>> BY <1>4 DEF Edit, tokens
  <1>5. ASSUME Kill \/ KillAborts \/ UNCHANGED vars PROVE UNCHANGED <<phase, scp, estimate>>
    BY <1>5 DEF Kill, KillAborts, vars, tokens
  <1> QED BY <1>1, <1>2, <1>3, <1>4, <1>5 DEF Next

LEMMA CardInvStep == ASSUME IInv, [Next]_vars PROVE CardInv'
  <1>1. ASSUME NEW k \in Cards, card'[k].status # "none"
        PROVE  card'[k].run \in Runs /\ card'[k].scope \in Scopes /\ phase'[card'[k].run] \in Born
    <2>1. card'[k].run \in Runs /\ card'[k].scope \in Scopes /\ phase[card'[k].run] \in Born
      BY <1>1, CardsLast DEF IInv, CardInv
    <2> QED BY <2>1, RunsLast
  <1> QED BY <1>1 DEF CardInv

LEMMA AskInvStep == ASSUME IInv, [Next]_vars PROVE AskInv'
  <1>0. TypeOK /\ AskInv BY DEF IInv
  <1>1. ASSUME NEW c \in Calls, call'[c] # NoCall
        PROVE  call'[c].run \in Runs /\ call'[c].scope \in Scopes /\ phase[call'[c].run] \in Born
    <2>1. ASSUME NEW r \in Runs, RunStep(r) PROVE call' = call
      BY <2>1 DEF RunStep, Arrive, Mint, AskForScope, AskFails, End, WindowEnds
    <2>2. ASSUME NEW b \in Calls, NEW s \in Scopes, Deny(b, s)
          PROVE  call'[c].run \in Runs /\ call'[c].scope \in Scopes /\ phase[call'[c].run] \in Born
      <3>1. current \in Runs /\ phase[current] \in Born BY <1>0, <2>2 DEF Deny, TypeOK, Born
      <3>2. call' = [call EXCEPT ![b] = [run |-> current, scope |-> s]] BY <2>2 DEF Deny
      <3> QED BY <1>0, <1>1, <3>1, <3>2 DEF AskInv, TypeOK
    <2>3. ASSUME NEW b \in Calls, RaiseCard(b) \/ CallFails(b) PROVE call'[c] \in {call[c], NoCall}
      BY <1>0, <2>3 DEF RaiseCard, CallFails, TypeOK
    <2>4. ASSUME NEW d \in Deciders, AnswerStep(d) PROVE call' = call
      BY <2>4 DEF AnswerStep, Check, Widen, Mark, AnswerFails
    <2>5. ASSUME NEW S, Edit(S) PROVE call' = call BY <2>5 DEF Edit
    <2>6. ASSUME Kill \/ KillAborts \/ UNCHANGED vars PROVE call' = call
      BY <2>6 DEF Kill, KillAborts, vars
    <2> QED BY <1>0, <1>1, <2>1, <2>2, <2>3, <2>4, <2>5, <2>6 DEF AskInv, Next, CallStep
  <1>2. ASSUME NEW r \in Runs, missing'[r] # {} PROVE phase'[r] \in Born
    <2>1. CASE missing[r] # {} BY <2>1, <1>0, RunsLast DEF AskInv
    <2>2. CASE missing[r] = {}
      <3>1. ASSUME NEW q \in Runs, RunStep(q), ~\E e \in SUBSET Scopes : Mint(q, e)
            PROVE  missing'[r] = {}
        BY <1>0, <2>2, <3>1 DEF RunStep, Arrive, AskForScope, AskFails, End, WindowEnds, TypeOK
      <3>2. ASSUME NEW q \in Runs, NEW e \in SUBSET Scopes, Mint(q, e) PROVE phase'[r] \in Born
        <4>1. q = r BY <1>0, <1>2, <2>2, <3>2 DEF Mint, TypeOK
        <4> QED BY <4>1, <1>0, <3>2 DEF Mint, TypeOK, Born
      <3>3. ASSUME NEW c \in Calls, CallStep(c) PROVE missing' = missing
        BY <3>3 DEF CallStep, Deny, RaiseCard, CallFails, tokens
      <3>4. ASSUME NEW d \in Deciders, AnswerStep(d) PROVE missing' = missing
        BY <3>4 DEF AnswerStep, Check, Widen, Mark, AnswerFails, tokens
      <3>5. ASSUME NEW S, Edit(S) PROVE missing' = missing BY <3>5 DEF Edit, tokens
      <3>6. ASSUME Kill \/ KillAborts \/ UNCHANGED vars PROVE missing' = missing
        BY <3>6 DEF Kill, KillAborts, vars, tokens
      <3> QED BY <1>2, <2>2, <3>1, <3>2, <3>3, <3>4, <3>5, <3>6 DEF Next
    <2> QED BY <2>1, <2>2
  <1>3. ASSUME NEW c \in Calls, call'[c] # NoCall PROVE phase'[call'[c].run] \in Born
    BY <1>1, <1>3, RunsLast
  <1> QED BY <1>1, <1>2, <1>3 DEF AskInv, NoCall

--------------------------------------------------------------------------------
(* Answers                                                                     *)

\* Who answers, and what was given, changes by an answer, an edit of the agent or a kill.
LEMMA AnswerFrame ==
  ASSUME [Next]_vars
  PROVE  \/ UNCHANGED <<answer, widened, muddled, since, temp>>
         \/ \E d \in Deciders, k \in Cards, say \in Allow \cup {"deny"} : Check(d, k, say)
         \/ \E d \in Deciders : Widen(d) \/ Mark(d) \/ AnswerFails(d)
         \/ \E S \in SUBSET Scopes : Edit(S)
         \/ Kill
  <1>1. ASSUME NEW r \in Runs, RunStep(r) PROVE UNCHANGED <<answer, widened, muddled, since, temp>>
    BY <1>1 DEF RunStep, Arrive, Mint, AskForScope, AskFails, End, WindowEnds, history, agent
  <1>2. ASSUME NEW c \in Calls, CallStep(c) PROVE UNCHANGED <<answer, widened, muddled, since, temp>>
    BY <1>2 DEF CallStep, Deny, RaiseCard, CallFails, history, agent
  <1>3. ASSUME KillAborts \/ UNCHANGED vars PROVE UNCHANGED <<answer, widened, muddled, since, temp>>
    BY <1>3 DEF KillAborts, vars, history, agent
  <1> QED BY <1>1, <1>2, <1>3 DEF Next, AnswerStep

\* An answer that does not move, and whose scope is still counted as given, stays so.
LEMMA AnswerStays ==
  ASSUME IInv, [Next]_vars, NEW d \in Deciders, answer'[d] = answer[d],
         answer[d].at = "checked" /\ ScopeOf(d) \in since => ScopeOf(d) \in since'
  PROVE  AnswerOK(d)'
  <1>1. AnswerOK(d) BY DEF IInv, AnswerInv, AnswerOK
  <1>2. CASE answer[d].at = "idle" BY <1>1, <1>2 DEF AnswerOK, NoAnswer
  <1>3. CASE answer[d].at # "idle"
    <2> DEFINE k == answer[d].card
    <2>1. k \in Cards /\ card[k].status # "none" BY <1>1, <1>3 DEF AnswerOK
    <2>2. card'[k].status # "none" /\ card'[k].run = card[k].run /\ card'[k].scope = card[k].scope
      BY <2>1, CardsLast
    <2>3. card[k].run \in Runs /\ phase[card[k].run] \in Born BY <2>1 DEF IInv, CardInv
    <2>4. scp[card[k].run] \subseteq scp'[card[k].run] BY <2>3, RunsLast
    <2> QED BY <1>1, <1>3, <2>1, <2>2, <2>4 DEF AnswerOK, ScopeOf, RunOf
  <1> QED BY <1>2, <1>3

LEMMA AnswerInvStep == ASSUME IInv, [Next]_vars PROVE AnswerInv'
  <1>0. TypeOK /\ answer \in [Deciders -> AnswerSet] BY DEF IInv, TypeOK, AnswerSet
  <1> SUFFICES ASSUME NEW e \in Deciders PROVE AnswerOK(e)' BY DEF AnswerInv, AnswerOK
  <1>1. CASE UNCHANGED <<answer, widened, muddled, since, temp>> BY <1>1, AnswerStays
  <1>2. ASSUME NEW d \in Deciders, NEW k \in Cards, NEW say \in Allow \cup {"deny"}, Check(d, k, say)
        PROVE  AnswerOK(e)'
    <2>1. since \subseteq since' BY <1>2 DEF Check
    <2>2. CASE e # d
      <3>1. answer'[e] = answer[e] BY <1>0, <1>2, <2>2 DEF Check
      <3> QED BY <3>1, <2>1, AnswerStays
    <2>3. CASE e = d
      <3>1. answer'[e] = [at |-> IF say = "deny" THEN "widened" ELSE "checked", card |-> k, say |-> say]
        BY <1>0, <1>2, <2>3 DEF Check
      <3>2. card' = card /\ card[k].status = "pending" BY <1>2 DEF Check
      <3>3. say # "deny" => card[k].scope \in since' BY <1>2 DEF Check
      <3>4. say # "deny" <=> say \in Allow BY DEF Allow
      <3> QED BY <3>1, <3>2, <3>3, <3>4 DEF AnswerOK, ScopeOf
    <2> QED BY <2>2, <2>3
  <1>3. ASSUME NEW d \in Deciders, Widen(d) PROVE AnswerOK(e)'
    <2>1. since' = since /\ card' = card BY <1>3 DEF Widen
    <2>2. CASE e # d
      <3>1. answer'[e] = answer[e] BY <1>0, <1>3, <2>2 DEF Widen
      <3> QED BY <3>1, <2>1, AnswerStays
    <2>3. CASE e = d
      <3>1. answer'[e] = [answer[e] EXCEPT !.at = "widened"] BY <1>0, <1>3, <2>3 DEF Widen
      <3>2. answer'[e].at = "widened" /\ answer'[e].card = answer[e].card
        BY <1>0, <3>1 DEF AnswerSet
      <3>3. answer[e].card \in Cards /\ card[answer[e].card].status # "none"
        BY <1>3, <2>3 DEF Widen, IInv, AnswerInv, AnswerOK
      <3>4. RunOf(e) \in Runs BY <3>3 DEF IInv, CardInv, RunOf
      <3>5. scp' = [scp EXCEPT ![RunOf(e)] = @ \cup {ScopeOf(e)}] BY <1>3, <2>3 DEF Widen
      <3>6. ScopeOf(e) \in scp'[RunOf(e)] BY <1>0, <3>4, <3>5 DEF TypeOK
      <3>7. ScopeOf(e)' = ScopeOf(e) /\ RunOf(e)' = RunOf(e) BY <2>1, <3>2 DEF ScopeOf, RunOf
      <3> QED BY <2>1, <3>2, <3>3, <3>6, <3>7 DEF AnswerOK
    <2> QED BY <2>2, <2>3
  <1>4. ASSUME NEW d \in Deciders, Mark(d) \/ AnswerFails(d) PROVE AnswerOK(e)'
    <2>1. since' = since BY <1>4 DEF Mark, AnswerFails, history
    <2>2. answer' = [answer EXCEPT ![d] = NoAnswer] BY <1>4 DEF Mark, AnswerFails
    <2>3. CASE e # d
      <3>1. answer'[e] = answer[e] BY <1>0, <2>2, <2>3
      <3> QED BY <3>1, <2>1, AnswerStays
    <2>4. CASE e = d
      <3>1. answer'[e] = NoAnswer BY <1>0, <2>2, <2>4
      <3> QED BY <3>1 DEF AnswerOK, NoAnswer
    <2> QED BY <2>3, <2>4
  <1>5. ASSUME NEW S \in SUBSET Scopes, Edit(S) PROVE AnswerOK(e)'
    <2>1. answer' = answer /\ since \subseteq since' BY <1>5 DEF Edit
    <2> QED BY <2>1, AnswerStays
  <1>6. CASE Kill
    <2>1. answer' = answer
          /\ since' = {ScopeOf(d) : d \in {h \in Humans : answer[h].at = "checked"}}
      BY <1>6 DEF Kill
    <2>2. answer[e].at = "checked" => e \in Humans BY <1>6 DEF Kill, Deciders, NoAnswer
    <2> QED BY <2>1, <2>2, AnswerStays
  <1> QED BY <1>1, <1>2, <1>3, <1>4, <1>5, <1>6, AnswerFrame

LEMMA GivenInvStep == ASSUME IInv, [Next]_vars PROVE GivenInv'
  <1>0. TypeOK /\ GivenInv BY DEF IInv
  <1>1. widened \subseteq widened'
    <2>1. ASSUME NEW d \in Deciders, Widen(d) PROVE widened \subseteq widened' BY <2>1 DEF Widen
    <2>2. ASSUME NEW d \in Deciders, Mark(d) \/ AnswerFails(d) PROVE widened' = widened
      BY <2>2 DEF Mark, AnswerFails, history
    <2> QED BY <2>1, <2>2, AnswerFrame DEF Check, Edit, Kill
  <1>2. \A k \in widened' \ widened : card[k].status # "none" /\ k \in Cards
    <2>1. ASSUME NEW d \in Deciders, Widen(d)
          PROVE  /\ widened' = widened \cup {answer[d].card}
                 /\ answer[d].card \in Cards /\ card[answer[d].card].status # "none"
      BY <2>1 DEF Widen, IInv, AnswerInv, AnswerOK
    <2>2. ASSUME NEW d \in Deciders, Mark(d) \/ AnswerFails(d) PROVE widened' = widened
      BY <2>2 DEF Mark, AnswerFails, history
    <2> QED BY <2>1, <2>2, AnswerFrame DEF Check, Edit, Kill
  <1>3. \A k \in widened : k \in Cards BY <1>0 DEF TypeOK
  <1>4. \A k \in widened' : card'[k].status # "none"
    BY <1>0, <1>2, <1>3, CardsLast DEF GivenInv
  <1>5. ASSUME NEW s \in Scopes, temp'[s] # None PROVE \E k \in widened' : card'[k].scope = s
    <2>1. CASE temp'[s] = temp[s]
      <3>1. PICK k \in widened : card[k].scope = s BY <1>0, <1>5, <2>1 DEF GivenInv
      <3>2. card'[k].scope = s BY <1>0, <1>3, <3>1, CardsLast DEF GivenInv
      <3> QED BY <3>1, <3>2, <1>1
    <2>2. CASE temp'[s] # temp[s]
      <3>1. PICK d \in Deciders : Widen(d)
        <4>1. ~Kill BY <1>5 DEF Kill
        <4> QED BY <2>2, <4>1, AnswerFrame DEF Check, Mark, AnswerFails, Edit, agent
      <3>2. ScopeOf(d) = s BY <1>0, <2>2, <3>1 DEF Widen, TypeOK
      <3>3. answer[d].card \in widened' /\ card' = card BY <3>1 DEF Widen
      <3> QED BY <3>2, <3>3 DEF ScopeOf
    <2> QED BY <2>1, <2>2
  <1> QED BY <1>4, <1>5 DEF GivenInv

LEMMA OneAnswerStep == ASSUME IInv, [Next]_vars PROVE OneAnswer'
  <1>0. /\ TypeOK /\ GivenInv /\ answer \in [Deciders -> AnswerSet] /\ card \in [Cards -> CardSet]
        /\ \A k \in Cards \ muddled : Orderly(k)
    BY DEF IInv, TypeOK, OneAnswer, Orderly, AnswerSet, CardSet
  <1> SUFFICES ASSUME NEW k \in Cards \ muddled' PROVE Orderly(k)' BY DEF OneAnswer, Orderly
  <1>1. ASSUME NEW d \in Deciders, Mark(d) PROVE Orderly(k)'
    <2>1. /\ answer' = [answer EXCEPT ![d] = NoAnswer] /\ widened' = widened /\ muddled' = muddled
          /\ card' = [card EXCEPT ![answer[d].card].status = answer[d].say]
      BY <1>1 DEF Mark, history
    <2>2. Orderly(k) BY <1>0, <2>1
    <2>3. \A e \in Deciders : answer'[e] = IF e = d THEN NoAnswer ELSE answer[e] BY <1>0, <2>1
    <2>4. NoAnswer.card # k BY ConstantsOK DEF NoAnswer
    <2>5. CASE answer[d].card = k
      <3>1. \A e \in Deciders : answer'[e].card # k BY <2>2, <2>3, <2>4, <2>5 DEF Orderly
      <3>2. card'[k].status = answer[d].say BY <1>0, <2>1, <2>5 DEF CardSet
      <3>3. k \in widened => answer[d].say \in Allow
        <4>1. card[k].status = "pending" BY <2>2, <2>5 DEF Orderly
        <4> QED BY <4>1, <2>2, <2>5 DEF Orderly, Allow
      <3> QED BY <2>1, <3>1, <3>2, <3>3 DEF Orderly
    <2>6. CASE answer[d].card # k
      <3>1. card'[k] = card[k] BY <1>0, <2>1, <2>6
      <3>2. \A e \in Deciders : answer'[e].card = k => answer'[e] = answer[e] BY <2>3, <2>4
      <3>3. \A e \in Deciders : answer[e].card = k => answer'[e] = answer[e] BY <2>3, <2>6
      <3> QED BY <2>1, <2>2, <3>1, <3>2, <3>3, ZenonT(40) DEF Orderly
    <2> QED BY <2>5, <2>6
  <1>2. ASSUME NEW d \in Deciders, AnswerFails(d) PROVE Orderly(k)'
    <2>1. /\ answer' = [answer EXCEPT ![d] = NoAnswer] /\ widened' = widened /\ card' = card
          /\ muddled' = muddled \cup {answer[d].card}
      BY <1>2 DEF AnswerFails
    <2>2. Orderly(k) /\ answer[d].card # k BY <1>0, <2>1
    <2>3. \A e \in Deciders : answer'[e] = IF e = d THEN NoAnswer ELSE answer[e] BY <1>0, <2>1
    <2>4. NoAnswer.card # k BY ConstantsOK DEF NoAnswer
    <2> QED BY <2>1, <2>2, <2>3, <2>4 DEF Orderly
  <1>3. ASSUME NEW d \in Deciders, Widen(d) PROVE Orderly(k)'
    <2>1. /\ answer' = [answer EXCEPT ![d].at = "widened"] /\ card' = card /\ muddled' = muddled
          /\ widened' = widened \cup {answer[d].card} /\ answer[d].at = "checked"
      BY <1>3 DEF Widen
    <2>2. Orderly(k) /\ answer[d].say \in Allow BY <1>0, <2>1 DEF IInv, AnswerInv, AnswerOK
    <2>3. \A e \in Deciders : answer'[e].card = answer[e].card /\ answer'[e].say = answer[e].say
      BY <1>0, <2>1 DEF AnswerSet
    <2> QED BY <2>1, <2>2, <2>3 DEF Orderly
  <1>4. ASSUME NEW d \in Deciders, NEW j \in Cards, NEW say \in Allow \cup {"deny"}, Check(d, j, say)
        PROVE  Orderly(k)'
    <2>1. /\ answer[d] = NoAnswer /\ card[j].status = "pending" /\ card' = card /\ widened' = widened
          /\ answer' = [answer EXCEPT ![d] = [at |-> IF say = "deny" THEN "widened" ELSE "checked",
                                              card |-> j, say |-> say]]
          /\ muddled' = IF \E o \in Deciders : answer[o].card = j THEN muddled \cup {j} ELSE muddled
      BY <1>4 DEF Check
    <2>2. k \notin muddled /\ Orderly(k) BY <1>0, <2>1
    <2>3. \A e \in Deciders : e # d => answer'[e] = answer[e] BY <1>0, <2>1
    <2>4. answer'[d].card = j /\ answer'[d].say = say BY <1>0, <2>1
    <2>5. answer[d].card # k BY <2>1, ConstantsOK DEF NoAnswer
    <2>6. CASE k = j
      <3>1. \A o \in Deciders : answer[o].card # k BY <2>1, <2>6
      <3>2. k \notin widened BY <2>1, <2>2, <2>6, <3>1 DEF Orderly, Allow
      <3> QED BY <2>1, <2>3, <2>4, <2>6, <3>1, <3>2 DEF Orderly
    <2>7. CASE k # j BY <2>1, <2>2, <2>3, <2>4, <2>5, <2>7 DEF Orderly
    <2> QED BY <2>6, <2>7
  <1>5. CASE UNCHANGED <<answer, widened, muddled>> /\ \A d \in Deciders : ~Mark(d)
    <2>1. Orderly(k) BY <1>0, <1>5
    <2>2. card'[k] = card[k] \/ card[k].status = "none" BY <1>0, <1>5, CardStep, AskWrites
    <2>3. CASE card'[k] = card[k] BY <1>5, <2>1, <2>3 DEF Orderly
    <2>4. CASE card[k].status = "none"
      <3>1. k \notin widened /\ \A d \in Deciders : answer[d].card # k
        BY <1>0, <2>1, <2>4 DEF GivenInv, Orderly
      <3> QED BY <1>5, <3>1 DEF Orderly
    <2> QED BY <2>2, <2>3, <2>4
  <1>6. \/ UNCHANGED <<answer, widened, muddled>>
        \/ \E d \in Deciders, j \in Cards, say \in Allow \cup {"deny"} : Check(d, j, say)
        \/ \E d \in Deciders : Widen(d) \/ Mark(d) \/ AnswerFails(d)
    BY AnswerFrame DEF Edit, Kill
  <1> QED BY <1>1, <1>2, <1>3, <1>4, <1>5, <1>6

--------------------------------------------------------------------------------
(* What is held                                                                *)

LEMMA NarrowingStep == ASSUME IInv, [Next]_vars PROVE NarrowingHolds'
  <1> DEFINE given == {card[k].scope : k \in widened}
  <1>0. TypeOK /\ GivenInv /\ NarrowingHolds BY DEF IInv
  <1>1. given \subseteq given'
    <2>1. ASSUME NEW k \in widened PROVE k \in widened' /\ card'[k].scope = card[k].scope
      <3>1. k \in Cards /\ card[k].status # "none" BY <1>0 DEF TypeOK, GivenInv
      <3>2. ASSUME NEW d \in Deciders, Widen(d) \/ Mark(d) \/ AnswerFails(d)
            PROVE  widened \subseteq widened'
        BY <3>2 DEF Widen, Mark, AnswerFails, history
      <3>3. widened \subseteq widened' BY <3>2, AnswerFrame DEF Check, Edit, Kill
      <3> QED BY <3>1, <3>3, CardsLast
    <2> QED BY <2>1
  <1>2. \A r \in Runs : LiveTemps(r) \subseteq given BY <1>0 DEF LiveTemps, GivenInv
  <1>3. \A r \in Runs : estimate[r] # {} => scp[r] \subseteq estimate[r] \cup given
    BY <1>0 DEF NarrowingHolds
  <1> SUFFICES ASSUME NEW r \in Runs, estimate'[r] # {}
               PROVE  scp'[r] \subseteq estimate'[r] \cup given'
    BY DEF NarrowingHolds
  <1>4. CASE scp'[r] = scp[r] /\ estimate'[r] = estimate[r]
    <2> HIDE DEF given
    <2> QED BY <1>1, <1>3, <1>4
  <1>5. ASSUME NEW q \in Runs, NEW e \in SUBSET Scopes, Mint(q, e)
        PROVE  scp'[r] \subseteq estimate'[r] \cup given'
    <2>1. CASE q # r
      <3>1. scp'[r] = scp[r] /\ estimate'[r] = estimate[r] BY <1>0, <1>5, <2>1 DEF Mint, TypeOK
      <3> QED BY <3>1, <1>4
    <2>2. CASE q = r
      <3>1. estimate'[r] = e BY <1>0, <1>5, <2>2 DEF Mint, TypeOK
      <3>2. e # {} => scp'[r] = ((tools \cup LiveTemps(r)) \cap e) \cup LiveTemps(r)
        BY <1>0, <1>5, <2>2 DEF Mint, TypeOK
      <3> HIDE DEF given
      <3> QED BY <3>1, <3>2, <1>1, <1>2
    <2> QED BY <2>1, <2>2
  <1>6. ASSUME NEW d \in Deciders, Widen(d)
        PROVE  scp'[r] \subseteq estimate'[r] \cup given'
    <2>1. scp'[r] \subseteq scp[r] \cup {ScopeOf(d)} /\ estimate' = estimate
      BY <1>0, <1>6 DEF Widen, TypeOK
    <2>2. ScopeOf(d) \in given' BY <1>6 DEF Widen, ScopeOf
    <2> HIDE DEF given
    <2> QED BY <2>1, <2>2, <1>1, <1>3
  <1>7. CASE /\ \A q \in Runs, e \in SUBSET Scopes : ~Mint(q, e)
             /\ \A d \in Deciders : ~Widen(d)
    <2>1. ASSUME NEW q \in Runs, RunStep(q) PROVE UNCHANGED <<scp, estimate>>
      BY <1>7, <2>1 DEF RunStep, Arrive, AskForScope, AskFails, End, WindowEnds
    <2>2. ASSUME NEW c \in Calls, CallStep(c) PROVE UNCHANGED <<scp, estimate>>
      BY <2>2 DEF CallStep, Deny, RaiseCard, CallFails, tokens
    <2>3. ASSUME NEW d \in Deciders, AnswerStep(d) PROVE UNCHANGED <<scp, estimate>>
      BY <1>7, <2>3 DEF AnswerStep, Check, Mark, AnswerFails, tokens
    <2>4. ASSUME NEW S \in SUBSET Scopes, Edit(S) PROVE UNCHANGED <<scp, estimate>>
      BY <2>4 DEF Edit, tokens
    <2>5. ASSUME Kill \/ KillAborts \/ UNCHANGED vars PROVE UNCHANGED <<scp, estimate>>
      BY <2>5 DEF Kill, KillAborts, vars, tokens
    <2>6. UNCHANGED <<scp, estimate>> BY <2>1, <2>2, <2>3, <2>4, <2>5 DEF Next
    <2> QED BY <2>6, <1>4
  <1> QED BY <1>5, <1>6, <1>7

LEMMA RetryStep == ASSUME IInv, [Next]_vars PROVE AllowedRunMayRetry'
  <1>0. TypeOK /\ CardInv /\ AllowedRunMayRetry BY DEF IInv
  <1> SUFFICES ASSUME NEW k \in Cards, card'[k].status \in Allow
               PROVE  card'[k].scope \in scp'[card'[k].run]
    BY DEF AllowedRunMayRetry
  <1>1. card[k].status # "none" BY CardsLast DEF Allow
  <1>2. /\ card'[k].run = card[k].run /\ card'[k].scope = card[k].scope
        /\ scp[card[k].run] \subseteq scp'[card[k].run]
    BY <1>0, <1>1, CardsLast, RunsLast DEF CardInv
  <1>3. CASE card[k].status \in Allow BY <1>0, <1>2, <1>3 DEF AllowedRunMayRetry
  <1>4. CASE card[k].status \notin Allow
    <2>1. PICK d \in Deciders : Mark(d)
      BY <1>0, <1>1, <1>4, CardStep, AskWrites
    <2>2. answer[d].card = k /\ answer[d].say \in Allow
      <3>1. card' = [card EXCEPT ![answer[d].card].status = answer[d].say] BY <2>1 DEF Mark
      <3>2. card \in [Cards -> CardSet] BY <1>0 DEF TypeOK, CardSet
      <3> QED BY <1>4, <3>1, <3>2 DEF CardSet
    <2>3. card[k].scope \in scp[card[k].run]
      BY <2>1, <2>2 DEF Mark, IInv, AnswerInv, AnswerOK, ScopeOf, RunOf
    <2> QED BY <1>2, <2>3
  <1> QED BY <1>3, <1>4

\* Everything a live token or its agent holds has been given since the last kill.
LEMMA KillStep == ASSUME IInv, [Next]_vars PROVE KillHolds'
  <1>0. TypeOK /\ KillHolds BY DEF IInv
  <1>1. CASE UNCHANGED <<tools, temp, scp>> /\ live' \subseteq live /\ since \subseteq since'
    BY <1>0, <1>1 DEF KillHolds
  <1>2. ASSUME NEW r \in Runs, NEW e \in SUBSET Scopes, Mint(r, e) PROVE KillHolds'
    <2> DEFINE standing == tools \cup LiveTemps(r)
    <2>1. standing \subseteq since BY <1>0 DEF KillHolds, LiveTemps
    <2>2. scp' = [scp EXCEPT ![r] = IF e = {} THEN standing ELSE (standing \cap e) \cup LiveTemps(r)]
          /\ live' = live \cup {r} /\ UNCHANGED <<tools, temp, since>>
      BY <1>2 DEF Mint, history
    <2>3. scp'[r] \subseteq standing BY <1>0, <2>2 DEF TypeOK
    <2>4. \A q \in live' : scp'[q] \subseteq since
      <3>1. ASSUME NEW q \in live', q # r PROVE scp'[q] \subseteq since
        BY <1>0, <2>2, <3>1 DEF TypeOK, KillHolds
      <3> QED BY <2>1, <2>3, <3>1
    <2> QED BY <1>0, <2>2, <2>4 DEF KillHolds
  <1>3. ASSUME NEW d \in Deciders, Widen(d) PROVE KillHolds'
    <2>1. ScopeOf(d) \in since BY <1>3 DEF Widen, IInv, AnswerInv, AnswerOK
    <2>2. /\ scp' = [scp EXCEPT ![RunOf(d)] = @ \cup {ScopeOf(d)}]
          /\ live' = live /\ since' = since
      BY <1>3 DEF Widen
    <2>3. tools' \subseteq tools \cup {ScopeOf(d)} BY <1>3 DEF Widen
    <2>4. \A s \in Scopes : temp'[s] # None => temp[s] # None \/ s = ScopeOf(d)
      BY <1>0, <1>3 DEF Widen, TypeOK
    <2>5. \A r \in Runs : scp'[r] \subseteq scp[r] \cup {ScopeOf(d)} BY <1>0, <2>2 DEF TypeOK
    <2>6. live \subseteq Runs BY <1>0 DEF TypeOK
    <2> QED BY <1>0, <2>1, <2>2, <2>3, <2>4, <2>5, <2>6 DEF KillHolds
  <1>4. CASE Kill BY <1>4 DEF Kill, KillHolds
  <1>5. ASSUME NEW S \in SUBSET Scopes, Edit(S) PROVE KillHolds'
    BY <1>0, <1>5 DEF Edit, tokens, KillHolds
  <1>6. ASSUME NEW r \in Runs, RunStep(r), \A e \in SUBSET Scopes : ~Mint(r, e) PROVE KillHolds'
    <2>1. UNCHANGED <<tools, temp, scp, since>> /\ live' \subseteq live
      BY <1>6 DEF RunStep, Arrive, AskForScope, AskFails, End, WindowEnds, agent, history
    <2> QED BY <2>1, <1>1
  <1>7. ASSUME NEW c \in Calls, CallStep(c) PROVE KillHolds'
    <2>1. UNCHANGED <<tools, temp, scp, since, live>>
      BY <1>7 DEF CallStep, Deny, RaiseCard, CallFails, agent, tokens, history
    <2> QED BY <2>1, <1>1
  <1>8. ASSUME NEW d \in Deciders, AnswerStep(d), ~Widen(d) PROVE KillHolds'
    <2>1. UNCHANGED <<tools, temp, scp, live>> /\ since \subseteq since'
      BY <1>8 DEF AnswerStep, Check, Mark, AnswerFails, agent, tokens, history
    <2> QED BY <2>1, <1>1
  <1>9. CASE KillAborts \/ UNCHANGED vars
    <2>1. UNCHANGED <<tools, temp, scp, live, since>>
      BY <1>9 DEF KillAborts, vars, agent, tokens, history
    <2> QED BY <2>1, <1>1
  <1> QED BY <1>2, <1>3, <1>4, <1>5, <1>6, <1>7, <1>8, <1>9 DEF Next

--------------------------------------------------------------------------------
(* The invariant, and the properties                                           *)

LEMMA InitHolds == Init => IInv
  <1> SUFFICES ASSUME Init PROVE IInv OBVIOUS
  <1>1. TypeOK BY TypeInit
  <1>2. CardInv /\ AskInv BY DEF Init, CardInv, AskInv, NoCard, NoCall
  <1>3. AnswerInv /\ GivenInv BY DEF Init, AnswerInv, AnswerOK, GivenInv, NoAnswer
  <1>4. OneAnswer BY ConstantsOK DEF Init, OneAnswer, Orderly, NoAnswer
  <1>5. NarrowingHolds /\ AllowedRunMayRetry /\ KillHolds
    BY DEF Init, NarrowingHolds, AllowedRunMayRetry, KillHolds, NoCard, Allow
  <1> QED BY <1>1, <1>2, <1>3, <1>4, <1>5 DEF IInv

\* Cards, answers and what each run and its agent hold agree at every step.
THEOREM InvariantHolds == Spec => []IInv
  <1>1. Init => IInv BY InitHolds
  <1>2. IInv /\ [Next]_vars => IInv'
    BY TypeStep, CardInvStep, AskInvStep, AnswerInvStep, GivenInvStep, OneAnswerStep,
       NarrowingStep, RetryStep, KillStep DEF IInv
  <1> QED BY <1>1, <1>2, PTL DEF Spec

\* Every variable keeps its type: the rows of approvals.ts and of the tokens are well-formed.
THEOREM TypeCorrect == Spec => []TypeOK
  <1>1. IInv => TypeOK BY DEF IInv
  <1> QED BY <1>1, InvariantHolds, PTL

\* A run whose task was estimated (agent-service.ts) holds nothing beyond the estimate but
\* what an answered card gave.
THEOREM NarrowingIsKept == Spec => []NarrowingHolds
  <1>1. IInv => NarrowingHolds BY DEF IInv
  <1> QED BY <1>1, InvariantHolds, PTL

\* A card marked as allowed (decideApproval) has reached the token of the run that asked.
THEOREM AllowedMayRetry == Spec => []AllowedRunMayRetry
  <1>1. IInv => AllowedRunMayRetry BY DEF IInv
  <1> QED BY <1>1, InvariantHolds, PTL

\* A refused card (decideApproval) has widened nothing, unless it was answered twice at once
\* or an answer to it was cut short.
THEOREM DenyIsInert == Spec => []DenyChangesNothing
  <1>1. IInv => DenyChangesNothing
    <2> SUFFICES ASSUME IInv, NEW k \in Cards \ muddled, card[k].status = "deny", k \in widened
                 PROVE  FALSE
      BY DEF DenyChangesNothing
    <2>1. card[k].status \notin Allow BY DEF Allow
    <2>2. PICK d \in Deciders : answer[d].card = k BY <2>1 DEF IInv, OneAnswer, Orderly
    <2>3. card[k].status = "pending" BY <2>2 DEF IInv, OneAnswer, Orderly
    <2> QED BY <2>3
  <1> QED BY <1>1, InvariantHolds, PTL

\* After killAgent the agent and its tokens hold only what a human gave since, whatever
\* answers, calls and messages it met.
THEOREM KillIsKept == Spec => []KillHolds
  <1>1. IInv => KillHolds BY DEF IInv
  <1> QED BY <1>1, InvariantHolds, PTL
================================================================================
