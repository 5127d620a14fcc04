----------------------------- MODULE Gateway_proofs -----------------------------
(***************************************************************************)
(* Proofs about Gateway, for any number of runs, grants, destinations,      *)
(* classes and calls.                                                       *)
(***************************************************************************)
EXTENDS Gateway, TLAPS

CardSet  == [run : Runs \cup {None}, label : Labels \cup {None}, integrity : BOOLEAN]
LabelSet == [id : Labels \cup {None}, egress : SUBSET Egress, trusted : BOOLEAN]

\* Messages have each their place, in the order of their arrival.
OrderInv ==
  /\ \A r \in Runs : issued[r] <= clock
  /\ \A r, q \in Runs : issued[r] # 0 /\ issued[r] = issued[q] => r = q
  /\ \A r \in minted : issued[r] # 0

\* A run under way has a token; threads and what was told in them are those of runs that
\* have.
RunInv ==
  /\ current # None => current \in minted
  /\ agentThread # None => agentThread \in minted
  /\ \A r \in minted : tokenThread[r] # None => tokenThread[r] \in minted
  /\ \A r \in Runs : r \notin minted => memory[r] = {} /\ tainted[r] = {}

\* A call has a run; a label it has added taints that run, and so does all it may carry.
CallInv ==
  \A c \in Calls :
    /\ pc[c] # "idle" => caller[c] \in minted
    /\ pc[c] = "idle" => payload[c] = {}
    /\ pc[c] \in {"found", "acted"} => label[c].id \in Labels
    /\ pc[c] = "acted" => label[c].id \in tainted[caller[c]]
    /\ pc[c] # "idle" /\ ~overtook => payload[c] \subseteq tainted[caller[c]]

CardInv == \A d \in Dests : card[d] # NoCard => card[d].run \in minted /\ card[d].label \in Labels

\* Whatever a grant, a label on its way, or a taint permits, a human has licensed.
EgressInv ==
  /\ \A g \in Grants : \A e \in grantEgress[g] : <<g, e>> \in licensed
  /\ \A c \in Calls : pc[c] = "found" => \A e \in label[c].egress : <<label[c].id, e>> \in licensed
  /\ \A r \in Runs, l \in Labels, e \in Egress : e \in allows[r][l] => <<l, e>> \in licensed
  /\ <<OwnCrm, "internal">> \in licensed

\* Whatever is believed, somebody has vouched for.
TrustInv ==
  /\ grantTrust \subseteq vouched /\ OwnCrm \in vouched
  /\ \A g \in Standing : grantState[g] # "none" => g \in vouched
  /\ \A c \in Calls : pc[c] = "found" /\ label[c].trusted => label[c].id \in vouched
  /\ \A r \in Runs : believed[r] \subseteq vouched

\* In order, there is a last run minted; it is of the agent's conversation, is the one whose
\* process is alive, and is tainted by all the model remembers.
MemoryInv ==
  ~overtook =>
    /\ minted # {} => \E p \in minted : IsPrevious(p)
    /\ current # None => IsPrevious(current)
    /\ \A p \in minted : IsPrevious(p) =>
         tokenThread[p] = agentThread /\ memory[Session(p)] \subseteq tainted[p]

\* A revoked grant permits nothing, and no label of it is on its way, unless it is late.
RevokedInv ==
  \A g \in Grants : grantState[g] = "revoked" /\ g \notin late =>
    /\ \A r \in Runs : allows[r][g] = {}
    /\ \A c \in Calls : pc[c] = "found" => label[c].id # g

IInv == /\ TypeOK /\ OrderInv /\ RunInv /\ CallInv /\ CardInv
        /\ EgressInv /\ TrustInv /\ MemoryInv /\ RevokedInv
        /\ OnlyLicensedFlows /\ OnlyBelievedActs

--------------------------------------------------------------------------------
(* Types *)

LEMMA TypeInit == Init => TypeOK
  <1> USE DEF CardSet, LabelSet
  <1> SUFFICES ASSUME Init PROVE TypeOK OBVIOUS
  <1>1. /\ grantState \in [Grants -> {"none", "live", "expired", "revoked"}]
        /\ grantEgress \in [Grants -> SUBSET Egress] /\ grantTrust \subseteq Grants
        /\ clock \in Nat /\ issued \in [Runs -> Nat]
        /\ minted \subseteq Runs /\ live \subseteq minted
    BY DEF Init
  <1>2. /\ tainted \in [Runs -> SUBSET Labels]
        /\ allows \in [Runs -> [Labels -> SUBSET Egress]]
        /\ believed \in [Runs -> SUBSET Labels]
        /\ egressAllow \in [Runs -> SUBSET Dests]
        /\ tokenThread \in [Runs -> Runs \cup {None}]
        /\ current \in Runs \cup {None} /\ agentThread \in Runs \cup {None}
    BY DEF Init
  <1>3. card \in [Dests -> CardSet] /\ label \in [Calls -> LabelSet]
    BY DEF Init, NoCard, NoLabel
  <1>4. /\ pc \in [Calls -> {"idle", "in", "found", "acted", "sent"}]
        /\ caller \in [Calls -> Runs \cup {None}]
        /\ memory \in [Runs -> SUBSET Labels]
        /\ payload \in [Calls -> SUBSET Labels]
    BY DEF Init
  <1>5. /\ licensed \subseteq Labels \X Egress
        /\ vouched \subseteq Labels /\ late \subseteq Grants
        /\ overtook \in BOOLEAN
    <2>1. OwnCrm \in Labels BY DEF Labels
    <2>2. <<OwnCrm, "internal">> \in Labels \X Egress BY <2>1, ConstantsOK
    <2>3. licensed \subseteq Labels \X Egress BY <2>2 DEF Init
    <2> QED BY <2>1, <2>3 DEF Init
  <1> QED BY <1>1, <1>2, <1>3, <1>4, <1>5 DEF TypeOK

\* What adds a label, or the class of a destination, keeps the types of the taints.
LEMMA DoneType ==
  ASSUME TypeOK, NEW c \in Calls, Done(c)
  PROVE  /\ pc' \in [Calls -> {"idle", "in", "found", "acted", "sent"}]
         /\ caller' \in [Calls -> Runs \cup {None}]
         /\ label' \in [Calls -> LabelSet]
         /\ payload' \in [Calls -> SUBSET Labels]
  BY DEF TypeOK, Done, Goto, NoLabel, LabelSet

LEMMA TypeStep == ASSUME IInv, [Next]_vars PROVE TypeOK'
  <1> USE DEF CardSet, LabelSet
  <1>0. TypeOK BY DEF IInv
  <1>a. /\ \A c \in Calls : pc[c] # "idle" => caller[c] \in Runs
        /\ \A d \in Dests : card[d] # NoCard => card[d].run \in Runs /\ card[d].label \in Labels
    BY <1>0 DEF IInv, CallInv, CardInv, TypeOK
  <1>b. /\ Grants \subseteq Labels /\ OwnCrm \in Labels
        /\ Standing \subseteq Grants /\ Borrowed \subseteq Grants
    BY DEF Labels, Grants
  <1>1. ASSUME NEW r \in Runs, Arrive(r) PROVE TypeOK'
    BY <1>0, <1>1 DEF Arrive, TypeOK, grants, taints, agent, calls, history, human
  <1>2. ASSUME NEW r \in Runs, Mint(r) PROVE TypeOK'
    <2>1. /\ tainted' \in [Runs -> SUBSET Labels]
          /\ allows' \in [Runs -> [Labels -> SUBSET Egress]]
          /\ believed' \in [Runs -> SUBSET Labels]
      <3>1. CASE UNCHANGED taints BY <1>0, <3>1 DEF TypeOK, taints
      <3>2. CASE ~UNCHANGED taints
        <4>1. PICK p \in minted : /\ tainted' = [tainted EXCEPT ![r] = tainted[p]]
                                  /\ allows' = [allows EXCEPT ![r] = allows[p]]
                                  /\ believed' = [believed EXCEPT ![r] = believed[p]]
          BY <1>2, <3>2 DEF Mint
        <4>2. p \in Runs BY <1>0 DEF TypeOK
        <4> QED BY <1>0, <4>1, <4>2 DEF TypeOK
      <3> QED BY <3>1, <3>2
    <2>2. /\ minted' = minted \cup {r} /\ live' = live \cup {r} /\ current' = r
          /\ tokenThread' = [tokenThread EXCEPT ![r] = agentThread]
          /\ overtook' \in BOOLEAN
      BY <1>0, <1>2 DEF Mint, TypeOK
    <2>3. UNCHANGED <<grants, clock, issued, egressAllow, agentThread, card, calls, history, human>>
      BY <1>2 DEF Mint
    <2> QED BY <1>0, <2>1, <2>2, <2>3 DEF TypeOK, grants, calls, history, human
  <1>3. ASSUME NEW r \in Runs, Complete(r) \/ Fail(r) PROVE TypeOK'
    <2>1. CASE Complete(r)
      BY <1>0, <2>1 DEF Complete, Session, TypeOK, grants, taints, calls, history, human
    <2>2. CASE Fail(r) BY <1>0, <2>2 DEF Fail, TypeOK, grants, taints, calls, history, human
    <2> QED BY <1>3, <2>1, <2>2
  <1>4. CASE Kill BY <1>0, <1>4 DEF Kill, TypeOK, grants, taints, agent, calls, history, human
  <1>5. ASSUME NEW c \in Calls, NEW r \in Runs, Authenticate(c, r) PROVE TypeOK'
    <2>1. memory[Session(r)] \in SUBSET Labels BY <1>0 DEF Session, TypeOK
    <2> QED BY <1>0, <1>5, <2>1
        DEF Authenticate, Goto, TypeOK, grants, taints, tokens, agent, human
  <1>6. ASSUME NEW c \in Calls, FindGrant(c) \/ FindStanding(c) PROVE TypeOK'
    <2>1. label' \in [Calls -> LabelSet]
      <3>1. CASE FindGrant(c) BY <1>0, <1>b, <3>1 DEF FindGrant, LabelFrom, TypeOK
      <3>2. CASE FindStanding(c)
        <4>1. PICK new \in LabelSet : label' = [label EXCEPT ![c] = new]
          <5>1. CASE label' = [label EXCEPT ![c] =
                                 [id |-> OwnCrm, egress |-> {"internal"}, trusted |-> TRUE]]
            BY <5>1, <1>b, ConstantsOK
          <5>2. ASSUME NEW g \in Standing, label' = [label EXCEPT ![c] = LabelFrom(g, TRUE)]
                PROVE  \E new \in LabelSet : label' = [label EXCEPT ![c] = new]
            <6>1. LabelFrom(g, TRUE) \in LabelSet BY <1>0, <1>b DEF TypeOK, LabelFrom
            <6> QED BY <5>2, <6>1
          <5> QED BY <3>2, <5>1, <5>2 DEF FindStanding
        <4> QED BY <1>0, <4>1 DEF TypeOK
      <3> QED BY <1>6, <3>1, <3>2
    <2>2. /\ pc' = [pc EXCEPT ![c] = "found"]
          /\ UNCHANGED <<grants, taints, tokens, agent, card, caller, history, human, overtook>>
      BY <1>6 DEF FindGrant, FindStanding, Goto
    <2> QED BY <1>0, <2>1, <2>2 DEF TypeOK, grants, taints, tokens, agent, history, human
  <1>7. ASSUME NEW c \in Calls, AddTaint(c) PROVE TypeOK'
    <2>1. caller[c] \in Runs /\ label[c].id \in Labels /\ label[c].egress \in SUBSET Egress
      BY <1>0, <1>a, <1>7 DEF AddTaint, IInv, CallInv, TypeOK
    <2>2. /\ pc' = [pc EXCEPT ![c] = "acted"]
          /\ UNCHANGED <<grants, tokens, agent, card, caller, label, history, human, overtook>>
      BY <1>7 DEF AddTaint, Goto
    <2>3. CASE UNCHANGED taints
      BY <1>0, <2>2, <2>3 DEF TypeOK, taints, grants, tokens, agent, history, human
    <2>4. CASE ~UNCHANGED taints
      <3>1. /\ tainted' = [tainted EXCEPT ![caller[c]] = @ \cup {label[c].id}]
            /\ allows' = [allows EXCEPT ![caller[c]][label[c].id] = label[c].egress]
            /\ believed' \in {believed, [believed EXCEPT ![caller[c]] = @ \cup {label[c].id}]}
        BY <1>7, <2>4 DEF AddTaint
      <3>2. tainted \in [Runs -> SUBSET Labels] /\ believed \in [Runs -> SUBSET Labels]
        BY <1>0 DEF TypeOK
      <3>3. tainted' \in [Runs -> SUBSET Labels] /\ believed' \in [Runs -> SUBSET Labels]
        BY <2>1, <3>1, <3>2
      <3>4. allows' \in [Runs -> [Labels -> SUBSET Egress]] BY <1>0, <2>1, <3>1 DEF TypeOK
      <3> QED BY <1>0, <2>2, <3>3, <3>4 DEF TypeOK, grants, tokens, agent, history, human
    <2> QED BY <2>3, <2>4
  <1>8. ASSUME NEW c \in Calls, SendOut(c) PROVE TypeOK'
    BY <1>0, <1>8 DEF SendOut, Goto, TypeOK, grants, taints, tokens, agent, history, human
  <1>9. ASSUME NEW c \in Calls, Answer(c) \/ Throw(c) \/ DenyGrant(c) \/ DenySend(c) PROVE TypeOK'
    <2>1. Done(c) /\ UNCHANGED <<grants, taints, tokens, agent, human, overtook>>
      BY <1>9 DEF Answer, Throw, DenyGrant, DenySend
    <2>2. memory' \in [Runs -> SUBSET Labels]
      <3>1. CASE Answer(c)
        <4>1. pc[c] = "acted" => label[c].id \in Labels BY DEF IInv, CallInv
        <4> QED BY <1>0, <3>1, <4>1 DEF Answer, TypeOK
      <3>2. CASE ~Answer(c) BY <1>0, <1>9, <3>2 DEF Throw, DenyGrant, DenySend, TypeOK
      <3> QED BY <3>1, <3>2
    <2>3. card' \in [Dests -> CardSet]
      <3>1. CASE DenySend(c)
        <4>1. caller[c] \in Runs /\ tainted[caller[c]] \subseteq Labels
          BY <1>0, <1>a, <3>1 DEF DenySend, TypeOK
        <4>2. PICK l \in Labels, b \in BOOLEAN :
                card' = IF card[DestOf[c]] # NoCard THEN card
                        ELSE [card EXCEPT ![DestOf[c]] =
                                [run |-> caller[c], label |-> l, integrity |-> b]]
          BY <3>1, <4>1 DEF DenySend
        <4> QED BY <1>0, <4>1, <4>2 DEF TypeOK
      <3>2. CASE ~DenySend(c) BY <1>0, <1>9, <3>2 DEF Throw, DenyGrant, Answer, TypeOK
      <3> QED BY <3>1, <3>2
    <2> QED BY <1>0, <2>1, <2>2, <2>3, DoneType DEF TypeOK, grants, taints, tokens, agent, human
  <1>10. ASSUME NEW g \in Grants, CreateGrant(g) PROVE TypeOK'
    <2>1. PICK offer \in Offers[g], trusted \in BOOLEAN : Grant(g, offer, trusted)
      BY <1>10 DEF CreateGrant
    <2>2. offer \subseteq Egress BY ConstantsOK
    <2>3. licensed' \subseteq Labels \X Egress BY <1>0, <1>b, <2>1, <2>2 DEF Grant, TypeOK
    <2>4. /\ grantState' \in [Grants -> {"none", "live", "expired", "revoked"}]
          /\ grantEgress' \in [Grants -> SUBSET Egress] /\ grantTrust' \subseteq Grants
          /\ vouched' \subseteq Labels
      BY <1>0, <1>b, <2>1, <2>2 DEF Grant, TypeOK
    <2>5. UNCHANGED <<taints, tokens, agent, card, calls, history, late, overtook>>
      BY <1>10 DEF CreateGrant
    <2> QED BY <1>0, <2>3, <2>4, <2>5 DEF TypeOK, taints, tokens, agent, calls, history
  <1>11. ASSUME NEW g \in Grants, Expire(g) PROVE TypeOK'
    BY <1>0, <1>11 DEF Expire, TypeOK, taints, tokens, agent, calls, history, human
  <1>12. ASSUME NEW g \in Grants, RevokeGrant(g) PROVE TypeOK'
    <2>1. allows' \in [Runs -> [Labels -> SUBSET Egress]] BY <1>0, <1>12 DEF RevokeGrant, TypeOK
    <2>2. late' \subseteq Grants BY <1>0, <1>12 DEF RevokeGrant, TypeOK
    <2>3. grantState' \in [Grants -> {"none", "live", "expired", "revoked"}]
      BY <1>0, <1>12 DEF RevokeGrant, TypeOK
    <2>4. UNCHANGED <<grantEgress, grantTrust, tainted, believed, tokens, agent, card, calls,
                      history, licensed, vouched, overtook>>
      BY <1>12 DEF RevokeGrant
    <2> QED BY <1>0, <2>1, <2>2, <2>3, <2>4 DEF TypeOK, tokens, agent, calls, history
  <1>13. ASSUME NEW d \in Dests, CardStep(d) PROVE TypeOK'
    <2>1. /\ card[d].run \in Runs /\ card[d].label \in Labels /\ ClassOf[d] \in Egress
          /\ card' \in [Dests -> CardSet]
          /\ UNCHANGED <<tainted, clock, issued, minted, live, tokenThread, agent, calls, history,
                         overtook>>
      <3>1. card[d] # NoCard /\ card' = [card EXCEPT ![d] = NoCard]
        BY <1>13 DEF CardStep, Refuse, AllowRun, AllowAlwaysIntegrity, AllowAlwaysEgress, Decided
      <3>2. NoCard \in CardSet BY DEF NoCard
      <3>3. card' \in [Dests -> CardSet] BY <1>0, <3>1, <3>2 DEF TypeOK
      <3>4. UNCHANGED <<tainted, clock, issued, minted, live, tokenThread, agent, calls, history,
                        overtook>>
        BY <1>13 DEF CardStep, Refuse, AllowRun, AllowAlwaysIntegrity, AllowAlwaysEgress, taints,
           tokens
      <3> QED BY <1>a, <3>1, <3>3, <3>4, ConstantsOK
    <2>2. CASE Refuse(d)
      BY <1>0, <2>1, <2>2 DEF Refuse, TypeOK, grants, taints, tokens, agent, calls, history, human
    <2>3. CASE AllowRun(d)
      BY <1>0, <2>1, <2>3 DEF AllowRun, TypeOK, grants, taints, agent, calls, history, human
    <2>4. CASE AllowAlwaysIntegrity(d)
      <3>1. believed' \in [Runs -> SUBSET Labels]
        BY <1>0, <2>1, <2>4 DEF AllowAlwaysIntegrity, TypeOK
      <3>2. grantTrust' \subseteq Grants /\ vouched' \subseteq Labels
        BY <1>0, <1>b, <2>1, <2>4 DEF AllowAlwaysIntegrity, TypeOK
      <3>3. UNCHANGED <<grantState, grantEgress, allows, tokens, licensed, late>>
        BY <2>4 DEF AllowAlwaysIntegrity
      <3> QED BY <1>0, <2>1, <3>1, <3>2, <3>3 DEF TypeOK, tokens, agent, calls, history
    <2>5. CASE AllowAlwaysEgress(d)
      <3>1. allows' \in [Runs -> [Labels -> SUBSET Egress]]
        <4>1. allows' = [allows EXCEPT ![card[d].run][card[d].label] = @ \cup {ClassOf[d]}]
          BY <2>5 DEF AllowAlwaysEgress
        <4> QED BY <1>0, <2>1, <4>1 DEF TypeOK
      <3>2. /\ grantState' \in [Grants -> {"none", "live", "expired", "revoked"}]
            /\ grantEgress' \in [Grants -> SUBSET Egress] /\ grantTrust' \subseteq Grants
            /\ late' \subseteq Grants
        <4>1. ASSUME NEW g \in Grants, NEW e \in SUBSET Egress,
                     grantEgress' = [grantEgress EXCEPT ![g] = e]
              PROVE  grantEgress' \in [Grants -> SUBSET Egress]
          BY <1>0, <4>1 DEF TypeOK
        <4>2. CASE card[d].label \in Grants
          <5>1. /\ grantEgress' = [grantEgress EXCEPT ![card[d].label] = @ \cup {ClassOf[d]}]
                /\ late' \in {late, late \cup {card[d].label}}
                /\ UNCHANGED <<grantState, grantTrust>>
            BY <2>5, <4>2, ConstantsOK DEF AllowAlwaysEgress
          <5>2. grantEgress[card[d].label] \cup {ClassOf[d]} \in SUBSET Egress
            BY <1>0, <2>1, <4>2 DEF TypeOK
          <5> QED BY <1>0, <4>1, <4>2, <5>1, <5>2 DEF TypeOK
        <4>3. CASE card[d].label \notin Grants
          <5>1. PICK g \in Standing :
                  /\ grantState' = [grantState EXCEPT ![g] = "live"]
                  /\ grantEgress' = [grantEgress EXCEPT ![g] = {"internal", ClassOf[d]}]
            BY <2>5, <4>3 DEF AllowAlwaysEgress
          <5>2. UNCHANGED <<grantTrust, late>> BY <2>5, <4>3 DEF AllowAlwaysEgress
          <5>3. {"internal", ClassOf[d]} \in SUBSET Egress BY <2>1, ConstantsOK
          <5>4. grantEgress' \in [Grants -> SUBSET Egress] BY <1>b, <4>1, <5>1, <5>3
          <5> QED BY <1>0, <1>b, <5>1, <5>2, <5>4 DEF TypeOK
        <4> QED BY <4>2, <4>3
      <3>3. licensed' \subseteq Labels \X Egress /\ vouched' \subseteq Labels
        BY <1>0, <1>b, <2>1, <2>5, ConstantsOK DEF AllowAlwaysEgress, TypeOK
      <3>4. UNCHANGED <<believed, egressAllow>> BY <2>5 DEF AllowAlwaysEgress, tokens
      <3> QED BY <1>0, <2>1, <3>1, <3>2, <3>3, <3>4 DEF TypeOK, agent, calls, history
    <2> QED BY <1>13, <2>2, <2>3, <2>4, <2>5 DEF CardStep
  <1>14. CASE UNCHANGED vars
    BY <1>0, <1>14 DEF vars, grants, taints, tokens, agent, calls, history, human, TypeOK
  <1> QED BY <1>1, <1>2, <1>3, <1>4, <1>5, <1>6, <1>7, <1>8, <1>9, <1>10, <1>11, <1>12, <1>13,
             <1>14 DEF Next, RunStep, CallStep, GrantStep

--------------------------------------------------------------------------------
(* What each part of a step leaves alone, and what no step takes back          *)

LEMMA TaintFrame ==
  ASSUME [Next]_vars
  PROVE  \/ UNCHANGED taints
         \/ \E r \in Runs : Mint(r)
         \/ \E c \in Calls : AddTaint(c)
         \/ \E g \in Grants : RevokeGrant(g)
         \/ \E d \in Dests : AllowAlwaysIntegrity(d) \/ AllowAlwaysEgress(d)
  <1>1. ASSUME NEW r \in Runs, RunStep(r) PROVE UNCHANGED taints \/ Mint(r)
    BY <1>1 DEF RunStep, Arrive, Complete, Fail
  <1>2. CASE Kill BY <1>2 DEF Kill
  <1>3. ASSUME NEW c \in Calls, CallStep(c) PROVE UNCHANGED taints \/ AddTaint(c)
    BY <1>3 DEF CallStep, Authenticate, FindGrant, FindStanding, SendOut, Answer, Throw, DenyGrant,
       DenySend
  <1>4. ASSUME NEW g \in Grants, GrantStep(g) PROVE UNCHANGED taints \/ RevokeGrant(g)
    BY <1>4 DEF GrantStep, CreateGrant, Expire
  <1>5. ASSUME NEW d \in Dests, CardStep(d)
        PROVE  UNCHANGED taints \/ AllowAlwaysIntegrity(d) \/ AllowAlwaysEgress(d)
    BY <1>5 DEF CardStep, Refuse, AllowRun
  <1>6. CASE UNCHANGED vars BY <1>6 DEF vars
  <1> QED BY <1>1, <1>2, <1>3, <1>4, <1>5, <1>6 DEF Next

LEMMA RunFrame ==
  ASSUME [Next]_vars
  PROVE  \/ UNCHANGED <<clock, issued, minted, tokenThread, current, agentThread, overtook>>
         \/ \E r \in Runs : RunStep(r)
  <1>1. CASE Kill BY <1>1 DEF Kill, agent
  <1>2. ASSUME NEW c \in Calls, CallStep(c) PROVE UNCHANGED <<tokens, agent, overtook>>
    BY <1>2 DEF CallStep, Authenticate, FindGrant, FindStanding, AddTaint, SendOut, Answer, Throw,
       DenyGrant, DenySend
  <1>3. ASSUME NEW g \in Grants, GrantStep(g) PROVE UNCHANGED <<tokens, agent, overtook>>
    BY <1>3 DEF GrantStep, CreateGrant, Expire, RevokeGrant
  <1>4. ASSUME NEW d \in Dests, CardStep(d)
        PROVE  UNCHANGED <<clock, issued, minted, tokenThread, agent, overtook>>
    BY <1>4 DEF CardStep, Refuse, AllowRun, AllowAlwaysIntegrity, AllowAlwaysEgress, tokens
  <1>5. CASE UNCHANGED vars BY <1>5 DEF vars, tokens, agent
  <1> QED BY <1>1, <1>2, <1>3, <1>4, <1>5 DEF Next, tokens, agent

LEMMA GrantFrame ==
  ASSUME [Next]_vars
  PROVE  \/ UNCHANGED <<grants, human>>
         \/ \E g \in Grants : GrantStep(g)
         \/ \E d \in Dests : AllowAlwaysIntegrity(d) \/ AllowAlwaysEgress(d)
  <1>1. ASSUME NEW r \in Runs, RunStep(r) PROVE UNCHANGED <<grants, human>>
    BY <1>1 DEF RunStep, Arrive, Mint, Complete, Fail
  <1>2. CASE Kill BY <1>2 DEF Kill
  <1>3. ASSUME NEW c \in Calls, CallStep(c) PROVE UNCHANGED <<grants, human>>
    BY <1>3 DEF CallStep, Authenticate, FindGrant, FindStanding, AddTaint, SendOut, Answer, Throw,
       DenyGrant, DenySend
  <1>4. ASSUME NEW d \in Dests, CardStep(d)
        PROVE  UNCHANGED <<grants, human>> \/ AllowAlwaysIntegrity(d) \/ AllowAlwaysEgress(d)
    BY <1>4 DEF CardStep, Refuse, AllowRun
  <1>5. CASE UNCHANGED vars BY <1>5 DEF vars
  <1> QED BY <1>1, <1>2, <1>3, <1>4, <1>5 DEF Next

\* A call moves by its own steps.
LEMMA CallFrame ==
  ASSUME IInv, [Next]_vars, NEW c \in Calls
  PROVE  \/ /\ pc'[c] = pc[c] /\ caller'[c] = caller[c]
            /\ label'[c] = label[c] /\ payload'[c] = payload[c]
         \/ CallStep(c)
  <1>0. TypeOK BY DEF IInv
  <1>1. ASSUME NEW r \in Runs, RunStep(r) PROVE UNCHANGED <<calls, payload>>
    BY <1>1 DEF RunStep, Arrive, Mint, Complete, Fail, history
  <1>2. CASE Kill BY <1>2 DEF Kill, calls, history
  <1>3. ASSUME NEW b \in Calls, b # c, CallStep(b)
        PROVE  /\ pc'[c] = pc[c] /\ caller'[c] = caller[c]
               /\ label'[c] = label[c] /\ payload'[c] = payload[c]
    <2>1. ASSUME NEW r \in Runs, Authenticate(b, r)
          PROVE  /\ pc'[c] = pc[c] /\ caller'[c] = caller[c]
                 /\ label'[c] = label[c] /\ payload'[c] = payload[c]
      BY <1>0, <1>3, <2>1 DEF Authenticate, Goto, TypeOK
    <2>2. CASE FindGrant(b) BY <1>0, <1>3, <2>2 DEF FindGrant, Goto, history, TypeOK
    <2>3. CASE FindStanding(b)
      <3>1. /\ pc' = [pc EXCEPT ![b] = "found"] /\ \E new : label' = [label EXCEPT ![b] = new]
            /\ UNCHANGED <<caller, payload>>
        BY <2>3 DEF FindStanding, Goto, history
      <3> QED BY <1>0, <1>3, <3>1 DEF TypeOK
    <2>4. CASE AddTaint(b) BY <1>0, <1>3, <2>4 DEF AddTaint, Goto, history, TypeOK
    <2>5. CASE SendOut(b) BY <1>0, <1>3, <2>5 DEF SendOut, Goto, history, TypeOK
    <2>6. CASE Done(b) BY <1>0, <1>3, <2>6 DEF Done, Goto, TypeOK
    <2> QED BY <1>3, <2>1, <2>2, <2>3, <2>4, <2>5, <2>6
        DEF CallStep, Answer, Throw, DenyGrant, DenySend
  <1>4. ASSUME NEW g \in Grants, GrantStep(g) PROVE UNCHANGED <<calls, payload>>
    BY <1>4 DEF GrantStep, CreateGrant, Expire, RevokeGrant, history
  <1>5. ASSUME NEW d \in Dests, CardStep(d) PROVE UNCHANGED <<calls, payload>>
    BY <1>5 DEF CardStep, Refuse, AllowRun, AllowAlwaysIntegrity, AllowAlwaysEgress, history
  <1>6. CASE UNCHANGED vars BY <1>6 DEF vars, calls, history
  <1> QED BY <1>1, <1>2, <1>3, <1>4, <1>5, <1>6 DEF Next, calls

\* A destination is approved by a human who answers its card.
LEMMA ApprovalFrame ==
  ASSUME [Next]_vars
  PROVE  UNCHANGED egressAllow \/ \E d \in Dests : AllowRun(d)
  <1>1. ASSUME NEW r \in Runs, RunStep(r) PROVE UNCHANGED egressAllow
    <2>1. CASE Mint(r) BY <2>1 DEF Mint
    <2>2. CASE Arrive(r) \/ Complete(r) \/ Fail(r) BY <2>2 DEF Arrive, Complete, Fail
    <2> QED BY <1>1, <2>1, <2>2 DEF RunStep
  <1>2. CASE Kill BY <1>2 DEF Kill
  <1>3. ASSUME NEW c \in Calls, CallStep(c) PROVE UNCHANGED tokens
    BY <1>3 DEF CallStep, Authenticate, FindGrant, FindStanding, AddTaint, SendOut, Answer,
       Throw, DenyGrant, DenySend
  <1>4. ASSUME NEW g \in Grants, GrantStep(g) PROVE UNCHANGED tokens
    BY <1>4 DEF GrantStep, CreateGrant, Expire, RevokeGrant
  <1>5. ASSUME NEW d \in Dests, CardStep(d) PROVE UNCHANGED tokens \/ AllowRun(d)
    BY <1>5 DEF CardStep, Refuse, AllowAlwaysIntegrity, AllowAlwaysEgress
  <1>6. CASE UNCHANGED vars BY <1>6 DEF vars, tokens
  <1> QED BY <1>1, <1>2, <1>3, <1>4, <1>5, <1>6 DEF Next, tokens

\* Tokens, approvals and declarations stay; so do the taints of a token.
LEMMA Grows ==
  ASSUME IInv, [Next]_vars
  PROVE  /\ licensed \subseteq licensed' /\ vouched \subseteq vouched'
         /\ minted \subseteq minted' /\ (overtook => overtook')
         /\ \A r \in Runs : egressAllow[r] \subseteq egressAllow'[r]
         /\ \A r \in minted : tainted[r] \subseteq tainted'[r]
  <1>0. TypeOK BY DEF IInv
  <1>1. licensed \subseteq licensed' /\ vouched \subseteq vouched'
    <2>1. CASE UNCHANGED <<grants, human>> BY <2>1 DEF human
    <2>2. ASSUME NEW g \in Grants, GrantStep(g)
          PROVE  licensed \subseteq licensed' /\ vouched \subseteq vouched'
      BY <2>2 DEF GrantStep, CreateGrant, Grant, Expire, RevokeGrant, human
    <2>3. ASSUME NEW d \in Dests, AllowAlwaysIntegrity(d) \/ AllowAlwaysEgress(d)
          PROVE  licensed \subseteq licensed' /\ vouched \subseteq vouched'
      BY <2>3 DEF AllowAlwaysIntegrity, AllowAlwaysEgress
    <2> QED BY <2>1, <2>2, <2>3, GrantFrame
  <1>2. minted \subseteq minted' /\ (overtook => overtook')
    <2>1. ASSUME NEW r \in Runs, RunStep(r)
          PROVE  minted \subseteq minted' /\ (overtook => overtook')
      <3>1. CASE Mint(r) BY <3>1 DEF Mint
      <3>2. CASE Arrive(r) \/ Complete(r) \/ Fail(r) BY <3>2 DEF Arrive, Complete, Fail
      <3> QED BY <2>1, <3>1, <3>2 DEF RunStep
    <2> QED BY <2>1, RunFrame
  <1>3. ASSUME NEW r \in Runs PROVE egressAllow[r] \subseteq egressAllow'[r]
    <2>1. CASE UNCHANGED egressAllow BY <2>1
    <2>2. ASSUME NEW d \in Dests, AllowRun(d) PROVE egressAllow[r] \subseteq egressAllow'[r]
      BY <1>0, <2>2 DEF AllowRun, TypeOK
    <2> QED BY <2>1, <2>2, ApprovalFrame
  <1>4. ASSUME NEW r \in minted PROVE tainted[r] \subseteq tainted'[r]
    <2>0. r \in Runs BY <1>0 DEF TypeOK
    <2>1. CASE UNCHANGED tainted BY <2>1
    <2>2. ASSUME NEW q \in Runs, Mint(q) PROVE tainted[r] \subseteq tainted'[r]
      <3>1. q # r BY <2>2 DEF Mint
      <3>2. tainted' = tainted \/ \E p : tainted' = [tainted EXCEPT ![q] = tainted[p]]
        BY <2>2 DEF Mint, taints
      <3> QED BY <1>0, <2>0, <3>1, <3>2 DEF TypeOK
    <2>3. ASSUME NEW c \in Calls, AddTaint(c) PROVE tainted[r] \subseteq tainted'[r]
      <3>1. \/ tainted' = tainted
            \/ tainted' = [tainted EXCEPT ![caller[c]] = @ \cup {label[c].id}]
        BY <2>3 DEF AddTaint, taints
      <3> QED BY <1>0, <2>0, <3>1, ZenonT(40) DEF TypeOK
    <2>4. ASSUME NEW g \in Grants, RevokeGrant(g) PROVE UNCHANGED tainted BY <2>4 DEF RevokeGrant
    <2>5. ASSUME NEW d \in Dests, AllowAlwaysIntegrity(d) \/ AllowAlwaysEgress(d)
          PROVE  UNCHANGED tainted
      BY <2>5 DEF AllowAlwaysIntegrity, AllowAlwaysEgress
    <2> QED BY <2>1, <2>2, <2>3, <2>4, <2>5, TaintFrame DEF taints
  <1> QED BY <1>1, <1>2, <1>3, <1>4

--------------------------------------------------------------------------------
(* Runs and calls                                                              *)

LEMMA OrderStep == ASSUME IInv, [Next]_vars PROVE OrderInv'
  <1>0. TypeOK /\ OrderInv BY DEF IInv
  <1>1. CASE UNCHANGED <<issued, clock, minted>> BY <1>0, <1>1 DEF OrderInv
  <1>2. ASSUME NEW r \in Runs, Arrive(r) PROVE OrderInv'
    <2>1. /\ issued[r] = 0 /\ clock' = clock + 1 /\ minted' = minted
          /\ issued' = [issued EXCEPT ![r] = clock + 1]
      BY <1>2 DEF Arrive
    <2>2. clock \in Nat /\ issued \in [Runs -> Nat] /\ minted \subseteq Runs BY <1>0 DEF TypeOK
    <2>3. \A q \in Runs : issued[q] < clock + 1 BY <1>0, <2>2 DEF OrderInv
    <2>4. \A q \in Runs : issued'[q] <= clock' BY <2>1, <2>2, <2>3
    <2>5. \A p, q \in Runs : issued'[p] # 0 /\ issued'[p] = issued'[q] => p = q
      BY <1>0, <2>1, <2>2, <2>3 DEF OrderInv
    <2>6. \A q \in minted' : issued'[q] # 0 BY <1>0, <2>1, <2>2 DEF OrderInv
    <2> QED BY <2>4, <2>5, <2>6 DEF OrderInv
  <1>3. ASSUME NEW r \in Runs, Mint(r) PROVE OrderInv'
    <2>1. issued[r] # 0 /\ minted' = minted \cup {r} /\ UNCHANGED <<clock, issued>> BY <1>3 DEF Mint
    <2> QED BY <1>0, <2>1 DEF OrderInv
  <1>4. ASSUME NEW r \in Runs, Complete(r) \/ Fail(r) PROVE UNCHANGED <<issued, clock, minted>>
    BY <1>4 DEF Complete, Fail
  <1> QED BY <1>1, <1>2, <1>3, <1>4, RunFrame DEF RunStep

\* What is told to a model is told in the conversation of the run whose process is alive.
LEMMA MemoryFrame ==
  ASSUME [Next]_vars
  PROVE  memory' = memory \/ \E c \in Calls : Answer(c)
  <1>1. ASSUME NEW r \in Runs, RunStep(r) PROVE memory' = memory
    BY <1>1 DEF RunStep, Arrive, Mint, Complete, Fail, history
  <1>2. CASE Kill BY <1>2 DEF Kill, history
  <1>3. ASSUME NEW c \in Calls, CallStep(c) PROVE memory' = memory \/ Answer(c)
    BY <1>3 DEF CallStep, Authenticate, FindGrant, FindStanding, AddTaint, SendOut, Throw,
       DenyGrant, DenySend, history
  <1>4. ASSUME NEW g \in Grants, GrantStep(g) PROVE memory' = memory
    BY <1>4 DEF GrantStep, CreateGrant, Expire, RevokeGrant, history
  <1>5. ASSUME NEW d \in Dests, CardStep(d) PROVE memory' = memory
    BY <1>5 DEF CardStep, Refuse, AllowRun, AllowAlwaysIntegrity, AllowAlwaysEgress, history
  <1>6. CASE UNCHANGED vars BY <1>6 DEF vars, history
  <1> QED BY <1>1, <1>2, <1>3, <1>4, <1>5, <1>6 DEF Next

LEMMA RunStepInv == ASSUME IInv, [Next]_vars PROVE RunInv'
  <1>0. TypeOK /\ RunInv BY DEF IInv
  <1>1. /\ current' # None => current' \in minted'
        /\ agentThread' # None => agentThread' \in minted'
        /\ \A r \in minted' : tokenThread'[r] # None => tokenThread'[r] \in minted'
    <2>1. CASE UNCHANGED <<clock, issued, minted, tokenThread, current, agentThread, overtook>>
      BY <1>0, <2>1 DEF RunInv
    <2>2. ASSUME NEW r \in Runs, Mint(r)
          PROVE  /\ current' # None => current' \in minted'
                 /\ agentThread' # None => agentThread' \in minted'
                 /\ \A q \in minted' : tokenThread'[q] # None => tokenThread'[q] \in minted'
      <3>1. /\ minted' = minted \cup {r} /\ current' = r /\ agentThread' = agentThread
            /\ tokenThread' = [tokenThread EXCEPT ![r] = agentThread]
        BY <2>2 DEF Mint
      <3> QED BY <1>0, <3>1 DEF RunInv, TypeOK
    <2>3. ASSUME NEW r \in Runs, Complete(r)
          PROVE  /\ current' # None => current' \in minted'
                 /\ agentThread' # None => agentThread' \in minted'
                 /\ \A q \in minted' : tokenThread'[q] # None => tokenThread'[q] \in minted'
      <3>1. r \in minted BY <1>0, <2>3, ConstantsOK DEF Complete, RunInv
      <3>2. Session(r) \in minted BY <1>0, <3>1 DEF Session, RunInv
      <3> QED BY <1>0, <2>3, <3>2 DEF Complete, RunInv, TypeOK
    <2>4. ASSUME NEW r \in Runs, Arrive(r) \/ Fail(r)
          PROVE  UNCHANGED <<minted, tokenThread, agentThread>> /\ current' \in {current, None}
      BY <2>4 DEF Arrive, Fail, agent
    <2> QED BY <1>0, <2>1, <2>2, <2>3, <2>4, RunFrame DEF RunStep, RunInv
  <1>2. ASSUME NEW r \in Runs, r \notin minted' PROVE memory'[r] = {} /\ tainted'[r] = {}
    <2>0. r \notin minted /\ memory[r] = {} /\ tainted[r] = {} BY <1>0, <1>2, Grows DEF RunInv
    <2>1. memory'[r] = {}
      <3>1. ASSUME NEW c \in Calls, Answer(c) PROVE memory'[r] = memory[r]
        <4>1. CASE memory' = memory BY <4>1
        <4>2. CASE memory' # memory
          <5>1. current = caller[c] /\ pc[c] # "idle"
                /\ \E l : memory' = [memory EXCEPT ![Session(current)] = l]
            BY <3>1, <4>2 DEF Answer
          <5>2. current \in minted BY <5>1 DEF IInv, CallInv
          <5>3. Session(current) \in minted BY <1>0, <5>2 DEF Session, RunInv
          <5> QED BY <1>0, <2>0, <5>1, <5>3 DEF TypeOK
        <4> QED BY <4>1, <4>2
      <3> QED BY <2>0, <3>1, MemoryFrame
    <2>2. tainted'[r] = {}
      <3>1. ASSUME NEW q \in Runs, Mint(q) PROVE tainted'[r] = tainted[r]
        <4>1. q # r BY <1>2, <3>1 DEF Mint
        <4>2. tainted' = tainted \/ \E p : tainted' = [tainted EXCEPT ![q] = tainted[p]]
          BY <3>1 DEF Mint, taints
        <4> QED BY <1>0, <4>1, <4>2 DEF TypeOK
      <3>2. ASSUME NEW c \in Calls, AddTaint(c) PROVE tainted'[r] = tainted[r]
        <4>1. caller[c] \in minted BY <3>2 DEF AddTaint, IInv, CallInv
        <4>2. caller[c] # r BY <2>0, <4>1
        <4>3. \/ tainted' = tainted
              \/ tainted' = [tainted EXCEPT ![caller[c]] = @ \cup {label[c].id}]
          BY <3>2 DEF AddTaint, taints
        <4> QED BY <1>0, <4>2, <4>3 DEF TypeOK
      <3>3. ASSUME NEW g \in Grants, RevokeGrant(g) PROVE tainted' = tainted BY <3>3 DEF RevokeGrant
      <3>4. ASSUME NEW d \in Dests, AllowAlwaysIntegrity(d) \/ AllowAlwaysEgress(d)
            PROVE  tainted' = tainted
        BY <3>4 DEF AllowAlwaysIntegrity, AllowAlwaysEgress
      <3> QED BY <2>0, <3>1, <3>2, <3>3, <3>4, TaintFrame DEF taints
    <2> QED BY <2>1, <2>2
  <1> QED BY <1>1, <1>2 DEF RunInv

\* What the model of the run under way remembers taints its token.
LEMMA ModelIsTainted ==
  ASSUME IInv, ~overtook, current # None
  PROVE  memory[Session(current)] \subseteq tainted[current]
  <1>1. current \in minted /\ IsPrevious(current) BY DEF IInv, RunInv, MemoryInv
  <1> QED BY <1>1 DEF IInv, MemoryInv

LEMMA CallStepInv == ASSUME IInv, [Next]_vars PROVE CallInv'
  <1>0. TypeOK /\ CallInv BY DEF IInv
  <1> SUFFICES ASSUME NEW c \in Calls
               PROVE  /\ pc'[c] # "idle" => caller'[c] \in minted'
                      /\ pc'[c] = "idle" => payload'[c] = {}
                      /\ pc'[c] \in {"found", "acted"} => label'[c].id \in Labels
                      /\ pc'[c] = "acted" => label'[c].id \in tainted'[caller'[c]]
                      /\ pc'[c] # "idle" /\ ~overtook' => payload'[c] \subseteq tainted'[caller'[c]]
    BY DEF CallInv
  <1>1. /\ minted \subseteq minted' /\ (overtook => overtook')
        /\ \A r \in minted : tainted[r] \subseteq tainted'[r]
    BY Grows
  <1>2. CASE /\ pc'[c] = pc[c] /\ caller'[c] = caller[c]
             /\ label'[c] = label[c] /\ payload'[c] = payload[c]
    BY <1>0, <1>1, <1>2 DEF CallInv
  <1>3. ASSUME NEW r \in Runs, Authenticate(c, r)
        PROVE  /\ pc'[c] = "in" /\ caller'[c] \in minted'
               /\ ~overtook' => payload'[c] \subseteq tainted'[caller'[c]]
    <2>1. /\ pc[c] = "idle" /\ current = r /\ r \in live
          /\ pc' = [pc EXCEPT ![c] = "in"] /\ caller' = [caller EXCEPT ![c] = r]
          /\ payload' = payload \/ payload' = [payload EXCEPT ![c] = memory[Session(r)]]
      BY <1>3 DEF Authenticate, Goto
    <2>2. pc'[c] = "in" /\ caller'[c] = r /\ r \in minted BY <1>0, <2>1 DEF TypeOK
    <2>3. payload'[c] \in {{}, memory[Session(r)]} BY <1>0, <2>1 DEF TypeOK, CallInv
    <2>4. ~overtook => memory[Session(r)] \subseteq tainted[r] BY <2>1, ModelIsTainted, ConstantsOK
    <2> QED BY <1>1, <2>2, <2>3, <2>4
  <1>4. ASSUME FindGrant(c) \/ FindStanding(c)
        PROVE  /\ pc[c] = "in" /\ pc'[c] = "found" /\ label'[c].id \in Labels
               /\ UNCHANGED <<caller, payload>>
    <2>1. \E l \in Labels : \E e, b :
            label' = [label EXCEPT ![c] = [id |-> l, egress |-> e, trusted |-> b]]
      BY <1>4 DEF FindGrant, FindStanding, LabelFrom, Labels, Grants
    <2>2. /\ pc[c] = "in" /\ pc' = [pc EXCEPT ![c] = "found"]
          /\ UNCHANGED <<caller, payload>>
      BY <1>4 DEF FindGrant, FindStanding, Goto, history
    <2> QED BY <1>0, <2>1, <2>2 DEF TypeOK
  <1>5. ASSUME AddTaint(c)
        PROVE  /\ pc[c] = "found" /\ pc'[c] = "acted" /\ label'[c].id \in tainted'[caller'[c]]
               /\ UNCHANGED <<caller, payload, label>>
    <2>1. /\ pc[c] = "found" /\ pc' = [pc EXCEPT ![c] = "acted"]
          /\ UNCHANGED <<caller, payload, label>>
      BY <1>5 DEF AddTaint, Goto, history
    <2>2. caller[c] \in Runs BY <1>0, <2>1 DEF CallInv, TypeOK
    <2>3. \/ label[c].id \in tainted[caller[c]] /\ tainted' = tainted
          \/ tainted' = [tainted EXCEPT ![caller[c]] = @ \cup {label[c].id}]
      BY <1>5 DEF AddTaint, taints
    <2> QED BY <1>0, <2>1, <2>2, <2>3 DEF TypeOK
  <1>6. ASSUME SendOut(c)
        PROVE  pc[c] = "in" /\ pc'[c] = "sent" /\ UNCHANGED <<caller, payload, label>>
    BY <1>0, <1>6 DEF SendOut, Goto, history, TypeOK
  <1>7. ASSUME Done(c) PROVE pc'[c] = "idle" /\ payload'[c] = {}
    BY <1>0, <1>7 DEF Done, Goto, TypeOK
  <1>8. ASSUME Answer(c) \/ Throw(c) \/ DenyGrant(c) \/ DenySend(c) PROVE Done(c)
    BY <1>8 DEF Answer, Throw, DenyGrant, DenySend
  <1> QED BY <1>0, <1>1, <1>2, <1>3, <1>4, <1>5, <1>6, <1>7, <1>8, CallFrame DEF CallStep, CallInv

LEMMA CardStepInv == ASSUME IInv, [Next]_vars PROVE CardInv'
  <1>0. TypeOK /\ CardInv BY DEF IInv
  <1>1. CASE card' = card BY <1>0, <1>1, Grows DEF CardInv
  <1>2. ASSUME NEW d \in Dests, CardStep(d) PROVE CardInv'
    <2>1. card' = [card EXCEPT ![d] = NoCard]
      BY <1>2 DEF CardStep, Refuse, AllowRun, AllowAlwaysIntegrity, AllowAlwaysEgress, Decided
    <2>2. \A e \in Dests : card'[e] \in {card[e], NoCard} BY <1>0, <2>1 DEF TypeOK
    <2> QED BY <1>0, <2>2, Grows DEF CardInv
  <1>3. ASSUME NEW c \in Calls, DenySend(c) PROVE CardInv'
    <2> DEFINE d == DestOf[c]
    <2>1. caller[c] \in minted /\ caller[c] \in Runs
      BY <1>0, <1>3 DEF DenySend, IInv, CallInv, TypeOK
    <2>2. PICK l \in tainted[caller[c]] :
            card' = IF card[d] # NoCard THEN card
                    ELSE [card EXCEPT ![d] = [run |-> caller[c], label |-> l,
                                              integrity |-> ~Blocks(caller[c], d, l)]]
      BY <1>3 DEF DenySend
    <2>3. l \in Labels BY <1>0, <2>1 DEF TypeOK
    <2>4. \A e \in Dests : \/ card'[e] = card[e]
                           \/ card'[e].run = caller[c] /\ card'[e].label = l
      BY <1>0, <2>2 DEF TypeOK
    <2> QED BY <1>0, <2>1, <2>3, <2>4, Grows DEF CardInv
  <1>4. ASSUME ~\E d \in Dests : CardStep(d), ~\E c \in Calls : DenySend(c) PROVE card' = card
    <2>1. ASSUME NEW r \in Runs, RunStep(r) PROVE card' = card
      BY <2>1 DEF RunStep, Arrive, Mint, Complete, Fail
    <2>2. CASE Kill BY <2>2 DEF Kill
    <2>3. ASSUME NEW c \in Calls, CallStep(c), ~DenySend(c) PROVE card' = card
      BY <2>3 DEF CallStep, Authenticate, FindGrant, FindStanding, AddTaint, SendOut, Answer,
         Throw, DenyGrant
    <2>4. ASSUME NEW g \in Grants, GrantStep(g) PROVE card' = card
      BY <2>4 DEF GrantStep, CreateGrant, Expire, RevokeGrant
    <2>5. CASE UNCHANGED vars BY <2>5 DEF vars
    <2> QED BY <1>4, <2>1, <2>2, <2>3, <2>4, <2>5 DEF Next
  <1> QED BY <1>1, <1>2, <1>3, <1>4

--------------------------------------------------------------------------------
(* What is allowed and what is believed                                        *)

\* A grant that is created is licensed for what it was given, and for no other.
LEMMA GrantsAreLicensed ==
  ASSUME IInv, [Next]_vars
  PROVE  \A g \in Grants : \A e \in grantEgress'[g] : <<g, e>> \in licensed'
  <1>0. TypeOK /\ EgressInv /\ licensed \subseteq licensed' BY Grows DEF IInv
  <1>1. CASE grantEgress' = grantEgress BY <1>0, <1>1 DEF EgressInv
  <1>2. ASSUME NEW g \in Grants, CreateGrant(g)
        PROVE  \A h \in Grants : \A e \in grantEgress'[h] : <<h, e>> \in licensed'
    <2>1. PICK offer \in Offers[g] : /\ grantEgress' = [grantEgress EXCEPT ![g] = offer]
                                    /\ licensed' = licensed \cup ({g} \X offer)
      BY <1>2 DEF CreateGrant, Grant
    <2>2. ASSUME NEW h \in Grants, NEW e \in grantEgress'[h] PROVE <<h, e>> \in licensed'
      <3>1. CASE h = g BY <1>0, <2>1, <2>2, <3>1 DEF TypeOK
      <3>2. CASE h # g BY <1>0, <2>1, <2>2, <3>2 DEF TypeOK, EgressInv
      <3> QED BY <3>1, <3>2
    <2> QED BY <2>2
  <1>3. ASSUME NEW d \in Dests, AllowAlwaysEgress(d)
        PROVE  \A h \in Grants : \A e \in grantEgress'[h] : <<h, e>> \in licensed'
    <2> DEFINE l == card[d].label  cls == ClassOf[d]
    <2>1. CASE l \in Grants
      <3>1. /\ grantEgress' = [grantEgress EXCEPT ![l] = @ \cup {cls}]
            /\ licensed' = licensed \cup {<<l, cls>>}
        BY <1>3, <2>1, ConstantsOK DEF AllowAlwaysEgress
      <3> HIDE DEF l, cls
      <3>2. ASSUME NEW h \in Grants, NEW e \in grantEgress'[h]
            PROVE  e \in grantEgress[h] \/ (h = l /\ e = cls)
        BY <1>0, <3>1, <3>2 DEF TypeOK
      <3> QED BY <1>0, <3>1, <3>2 DEF EgressInv
    <2>2. CASE l \notin Grants
      <3>1. PICK g \in Standing :
              /\ grantEgress' = [grantEgress EXCEPT ![g] = {"internal", cls}]
              /\ licensed' = licensed \cup {<<OwnCrm, cls>>, <<g, "internal">>, <<g, cls>>}
        BY <1>3, <2>2 DEF AllowAlwaysEgress
      <3>2. g \in Grants BY DEF Grants
      <3> HIDE DEF l, cls
      <3>3. ASSUME NEW h \in Grants, NEW e \in grantEgress'[h]
            PROVE  (h # g /\ e \in grantEgress[h]) \/ (h = g /\ e \in {"internal", cls})
        BY <1>0, <3>1, <3>2, <3>3 DEF TypeOK
      <3> QED BY <1>0, <3>1, <3>3 DEF EgressInv
    <2> QED BY <2>1, <2>2
  <1>4. ASSUME NEW g \in Grants, Expire(g) \/ RevokeGrant(g) PROVE grantEgress' = grantEgress
    BY <1>4 DEF Expire, RevokeGrant
  <1>5. ASSUME NEW d \in Dests, AllowAlwaysIntegrity(d) PROVE grantEgress' = grantEgress
    BY <1>5 DEF AllowAlwaysIntegrity
  <1> QED BY <1>1, <1>2, <1>3, <1>4, <1>5, GrantFrame DEF GrantStep, grants

\* So is the label a call has found.
LEMMA LabelsAreLicensed ==
  ASSUME IInv, [Next]_vars, NEW c \in Calls, pc'[c] = "found"
  PROVE  \A e \in label'[c].egress : <<label'[c].id, e>> \in licensed'
  <1>0. TypeOK /\ EgressInv /\ licensed \subseteq licensed' BY Grows DEF IInv
  <1>1. CASE pc'[c] = pc[c] /\ label'[c] = label[c] BY <1>0, <1>1 DEF EgressInv
  <1>2. ASSUME NEW g \in Grants, NEW t, label' = [label EXCEPT ![c] = LabelFrom(g, t)]
        PROVE  \A e \in label'[c].egress : <<label'[c].id, e>> \in licensed'
    <2>1. label'[c] = [id |-> g, egress |-> grantEgress[g], trusted |-> t]
      BY <1>0, <1>2 DEF TypeOK, LabelFrom
    <2> QED BY <1>0, <2>1 DEF EgressInv
  <1>3. CASE FindGrant(c) BY <1>2, <1>3 DEF FindGrant, Grants
  <1>4. CASE FindStanding(c)
    <2>1. ASSUME label' = [label EXCEPT ![c] =
                             [id |-> OwnCrm, egress |-> {"internal"}, trusted |-> TRUE]]
          PROVE  \A e \in label'[c].egress : <<label'[c].id, e>> \in licensed'
      <3>1. label'[c] = [id |-> OwnCrm, egress |-> {"internal"}, trusted |-> TRUE]
        BY <1>0, <2>1 DEF TypeOK
      <3> QED BY <1>0, <3>1 DEF EgressInv
    <2> QED BY <1>2, <1>4, <2>1 DEF FindStanding, Grants
  <1>5. ASSUME NEW r, Authenticate(c, r) PROVE pc'[c] = "in"
    BY <1>0, <1>5 DEF Authenticate, Goto, TypeOK
  <1>6. ASSUME AddTaint(c) \/ SendOut(c) PROVE pc'[c] # "found"
    BY <1>0, <1>6 DEF AddTaint, SendOut, Goto, TypeOK
  <1>7. ASSUME Answer(c) \/ Throw(c) \/ DenyGrant(c) \/ DenySend(c) PROVE pc'[c] # "found"
    BY <1>0, <1>7 DEF Answer, Throw, DenyGrant, DenySend, Done, Goto, TypeOK
  <1> QED BY <1>1, <1>3, <1>4, <1>5, <1>6, <1>7, CallFrame DEF CallStep

\* And so is a taint.
LEMMA TaintsAreLicensed ==
  ASSUME IInv, [Next]_vars
  PROVE  \A r \in Runs, l \in Labels, e \in Egress : e \in allows'[r][l] => <<l, e>> \in licensed'
  <1>0. TypeOK /\ EgressInv /\ licensed \subseteq licensed' BY Grows DEF IInv
  <1> SUFFICES ASSUME NEW r \in Runs, NEW l \in Labels, NEW e \in Egress, e \in allows'[r][l]
               PROVE  <<l, e>> \in licensed'
    OBVIOUS
  <1>1. CASE e \in allows[r][l] BY <1>0, <1>1 DEF EgressInv
  <1>2. CASE UNCHANGED taints BY <1>0, <1>2 DEF taints, EgressInv
  <1>3. ASSUME NEW q \in Runs, Mint(q) PROVE <<l, e>> \in licensed'
    <2>1. PICK p \in Runs : allows' = allows \/ allows' = [allows EXCEPT ![q] = allows[p]]
      BY <1>0, <1>3 DEF Mint, taints, TypeOK
    <2>2. e \in allows[r][l] \/ e \in allows[p][l] BY <1>0, <2>1 DEF TypeOK
    <2> QED BY <1>0, <2>2 DEF EgressInv
  <1>4. ASSUME NEW c \in Calls, AddTaint(c) PROVE <<l, e>> \in licensed'
    <2>1. /\ pc[c] = "found"
          /\ \/ allows' = allows
             \/ allows' = [allows EXCEPT ![caller[c]][label[c].id] = label[c].egress]
      BY <1>4 DEF AddTaint, taints
    <2>2. e \in allows[r][l] \/ (l = label[c].id /\ e \in label[c].egress)
      <3>1. allows \in [Runs -> [Labels -> SUBSET Egress]] BY <1>0 DEF TypeOK
      <3>2. CASE allows' = allows BY <3>2
      <3>3. CASE allows' = [allows EXCEPT ![caller[c]][label[c].id] = label[c].egress]
        BY <3>1, <3>3
      <3> QED BY <2>1, <3>2, <3>3
    <2> QED BY <1>0, <2>1, <2>2 DEF EgressInv
  <1>5. ASSUME NEW g \in Grants, RevokeGrant(g) PROVE e \in allows[r][l]
    BY <1>0, <1>5 DEF RevokeGrant, TypeOK
  <1>6. ASSUME NEW d \in Dests, AllowAlwaysIntegrity(d) PROVE allows' = allows
    BY <1>6 DEF AllowAlwaysIntegrity
  <1>7. ASSUME NEW d \in Dests, AllowAlwaysEgress(d) PROVE <<l, e>> \in licensed'
    <2>1. /\ allows' = [allows EXCEPT ![card[d].run][card[d].label] = @ \cup {ClassOf[d]}]
          /\ <<card[d].label, ClassOf[d]>> \in licensed'
      <3>1. allows' = [allows EXCEPT ![card[d].run][card[d].label] = @ \cup {ClassOf[d]}]
        BY <1>7 DEF AllowAlwaysEgress
      <3>2. CASE card[d].label \in Grants BY <1>7, <3>2, ConstantsOK DEF AllowAlwaysEgress
      <3>3. CASE card[d].label \notin Grants BY <1>7, <3>3 DEF AllowAlwaysEgress
      <3> QED BY <3>1, <3>2, <3>3
    <2>2. e \in allows[r][l] \/ (l = card[d].label /\ e = ClassOf[d]) BY <1>0, <2>1 DEF TypeOK
    <2> QED BY <1>0, <2>1, <2>2 DEF EgressInv
  <1> QED BY <1>1, <1>2, <1>3, <1>4, <1>5, <1>6, <1>7, TaintFrame

LEMMA EgressStep == ASSUME IInv, [Next]_vars PROVE EgressInv'
  <1>1. <<OwnCrm, "internal">> \in licensed' BY Grows DEF IInv, EgressInv
  <1>2. \A g \in Grants : \A e \in grantEgress'[g] : <<g, e>> \in licensed' BY GrantsAreLicensed
  <1>3. \A c \in Calls : pc'[c] = "found" =>
          \A e \in label'[c].egress : <<label'[c].id, e>> \in licensed'
    BY LabelsAreLicensed
  <1>4. \A r \in Runs, l \in Labels, e \in Egress : e \in allows'[r][l] => <<l, e>> \in licensed'
    BY TaintsAreLicensed
  <1> QED BY <1>1, <1>2, <1>3, <1>4 DEF EgressInv

LEMMA TrustStep == ASSUME IInv, [Next]_vars PROVE TrustInv'
  <1>0. TypeOK /\ TrustInv /\ vouched \subseteq vouched' BY Grows DEF IInv
  <1>1. /\ grantTrust' \subseteq vouched' /\ OwnCrm \in vouched'
        /\ \A g \in Standing : grantState'[g] # "none" => g \in vouched'
    <2>1. CASE UNCHANGED <<grants, human>> BY <1>0, <2>1 DEF grants, TrustInv
    <2>2. ASSUME NEW g \in Grants, CreateGrant(g)
          PROVE  /\ grantTrust' \subseteq vouched'
                 /\ \A h \in Standing : grantState'[h] # "none" => h \in vouched'
      <3>1. PICK t \in BOOLEAN :
              /\ grantState' = [grantState EXCEPT ![g] = "live"]
              /\ grantTrust' = IF t /\ g \in Borrowed THEN grantTrust \cup {g} ELSE grantTrust
              /\ vouched' = IF t \/ g \in Standing THEN vouched \cup {g} ELSE vouched
        BY <2>2 DEF CreateGrant, Grant
      <3>2. \A h \in Standing : grantState'[h] # "none" => h = g \/ grantState[h] # "none"
        BY <1>0, <3>1 DEF TypeOK, Grants
      <3> QED BY <1>0, <3>1, <3>2 DEF TrustInv
    <2>3. ASSUME NEW g \in Grants, Expire(g) \/ RevokeGrant(g)
          PROVE  /\ grantTrust' = grantTrust
                 /\ \A h \in Standing : grantState'[h] # "none" => grantState[h] # "none"
      BY <1>0, <2>3 DEF Expire, RevokeGrant, TypeOK, Grants
    <2>4. ASSUME NEW d \in Dests, AllowAlwaysIntegrity(d)
          PROVE  grantTrust' \subseteq vouched' /\ grantState' = grantState
      BY <1>0, <2>4 DEF AllowAlwaysIntegrity, TrustInv
    <2>5. ASSUME NEW d \in Dests, AllowAlwaysEgress(d)
          PROVE  /\ grantTrust' = grantTrust
                 /\ \A h \in Standing : grantState'[h] # "none" => h \in vouched'
      <3>1. CASE card[d].label \in Grants
        BY <1>0, <2>5, <3>1, ConstantsOK DEF AllowAlwaysEgress, TrustInv
      <3>2. CASE card[d].label \notin Grants
        <4>1. PICK g \in Standing : /\ grantState' = [grantState EXCEPT ![g] = "live"]
                                   /\ vouched' = vouched \cup {g} /\ grantTrust' = grantTrust
          BY <2>5, <3>2 DEF AllowAlwaysEgress
        <4>2. \A h \in Standing : grantState'[h] # "none" => h = g \/ grantState[h] # "none"
          BY <1>0, <4>1 DEF TypeOK, Grants
        <4> QED BY <1>0, <4>1, <4>2 DEF TrustInv
      <3> QED BY <3>1, <3>2
    <2> QED BY <1>0, <2>1, <2>2, <2>3, <2>4, <2>5, GrantFrame DEF GrantStep, TrustInv
  <1>2. ASSUME NEW c \in Calls, pc'[c] = "found", label'[c].trusted PROVE label'[c].id \in vouched'
    <2>1. CASE pc'[c] = pc[c] /\ label'[c] = label[c] BY <1>0, <1>2, <2>1 DEF TrustInv
    <2>2. CASE FindGrant(c)
      <3>1. PICK g \in Borrowed : label' = [label EXCEPT ![c] = LabelFrom(g, g \in grantTrust)]
        BY <2>2 DEF FindGrant
      <3>2. label'[c].id = g /\ label'[c].trusted = (g \in grantTrust)
        BY <1>0, <3>1 DEF TypeOK, LabelFrom
      <3> QED BY <1>0, <1>2, <3>2 DEF TrustInv
    <2>3. CASE FindStanding(c)
      <3>1. \E l, e : /\ label' = [label EXCEPT ![c] = [id |-> l, egress |-> e, trusted |-> TRUE]]
                      /\ l = OwnCrm \/ (l \in Standing /\ grantState[l] = "live")
        BY <2>3 DEF FindStanding, LabelFrom
      <3>2. label'[c].id \in vouched BY <1>0, <3>1 DEF TypeOK, TrustInv
      <3> QED BY <1>0, <3>2
    <2>4. ASSUME NEW r, Authenticate(c, r) PROVE pc'[c] = "in"
      BY <1>0, <2>4 DEF Authenticate, Goto, TypeOK
    <2>5. ASSUME AddTaint(c) \/ SendOut(c) PROVE pc'[c] # "found"
      BY <1>0, <2>5 DEF AddTaint, SendOut, Goto, TypeOK
    <2>6. ASSUME Answer(c) \/ Throw(c) \/ DenyGrant(c) \/ DenySend(c) PROVE pc'[c] # "found"
      BY <1>0, <2>6 DEF Answer, Throw, DenyGrant, DenySend, Done, Goto, TypeOK
    <2> QED BY <1>2, <2>1, <2>2, <2>3, <2>4, <2>5, <2>6, CallFrame DEF CallStep
  <1>3. ASSUME NEW r \in Runs PROVE believed'[r] \subseteq vouched'
    <2>1. CASE UNCHANGED taints BY <1>0, <2>1 DEF taints, TrustInv
    <2>2. ASSUME NEW q \in Runs, Mint(q) PROVE believed'[r] \subseteq vouched'
      <3>1. PICK p \in Runs :
              believed' = believed \/ believed' = [believed EXCEPT ![q] = believed[p]]
        BY <1>0, <2>2 DEF Mint, taints, TypeOK
      <3> QED BY <1>0, <3>1 DEF TypeOK, TrustInv
    <2>3. ASSUME NEW c \in Calls, AddTaint(c) PROVE believed'[r] \subseteq vouched'
      <3>1. /\ pc[c] = "found"
            /\ \/ believed' = believed
               \/ /\ label[c].trusted
                  /\ believed' = [believed EXCEPT ![caller[c]] = @ \cup {label[c].id}]
        BY <2>3 DEF AddTaint, taints
      <3>2. \/ believed'[r] \subseteq believed[r]
            \/ label[c].trusted /\ believed'[r] \subseteq believed[r] \cup {label[c].id}
        <4>1. believed \in [Runs -> SUBSET Labels] BY <1>0 DEF TypeOK
        <4>2. CASE believed' = believed BY <4>2
        <4>3. CASE /\ label[c].trusted
                   /\ believed' = [believed EXCEPT ![caller[c]] = @ \cup {label[c].id}]
          BY <4>1, <4>3
        <4> QED BY <3>1, <4>2, <4>3
      <3> QED BY <1>0, <3>1, <3>2 DEF TrustInv
    <2>4. ASSUME NEW g \in Grants, RevokeGrant(g) PROVE believed' = believed BY <2>4 DEF RevokeGrant
    <2>5. ASSUME NEW d \in Dests, AllowAlwaysIntegrity(d) PROVE believed'[r] \subseteq vouched'
      <3>1. /\ believed' = [believed EXCEPT ![card[d].run] = @ \cup {card[d].label}]
            /\ card[d].label \in vouched'
        BY <2>5 DEF AllowAlwaysIntegrity
      <3>2. believed'[r] \subseteq believed[r] \cup {card[d].label} BY <1>0, <3>1 DEF TypeOK
      <3> QED BY <1>0, <3>1, <3>2 DEF TrustInv
    <2>6. ASSUME NEW d \in Dests, AllowAlwaysEgress(d) PROVE believed' = believed
      BY <2>6 DEF AllowAlwaysEgress
    <2> QED BY <1>0, <2>1, <2>2, <2>3, <2>4, <2>5, <2>6, TaintFrame DEF TrustInv
  <1> QED BY <1>0, <1>1, <1>2, <1>3 DEF TrustInv

--------------------------------------------------------------------------------
(* What the model remembers, and what was revoked                              *)

LEMMA OnePrevious ==
  ASSUME IInv, NEW p \in minted, NEW q \in minted, IsPrevious(p), IsPrevious(q)
  PROVE  p = q
  <1>1. p \in Runs /\ q \in Runs /\ issued \in [Runs -> Nat] BY DEF IInv, TypeOK
  <1>2. issued[p] <= issued[q] /\ issued[q] <= issued[p] BY DEF IsPrevious
  <1>3. issued[p] = issued[q] BY <1>1, <1>2
  <1> QED BY <1>1, <1>3 DEF IInv, OrderInv

LEMMA MemoryStep == ASSUME IInv, [Next]_vars PROVE MemoryInv'
  <1>0. TypeOK /\ MemoryInv /\ OrderInv /\ RunInv BY DEF IInv
  <1> SUFFICES ASSUME ~overtook'
               PROVE  /\ minted' # {} => \E p \in minted' : IsPrevious(p)'
                      /\ current' # None => IsPrevious(current)'
                      /\ \A p \in minted' : IsPrevious(p)' =>
                           /\ tokenThread'[p] = agentThread'
                           /\ memory'[Session(p)'] \subseteq tainted'[p]
    BY DEF MemoryInv
  <1>1. /\ ~overtook /\ minted \subseteq minted'
        /\ \A r \in minted : tainted[r] \subseteq tainted'[r]
    BY Grows
  <1>2. /\ minted # {} => \E p \in minted : IsPrevious(p)
        /\ current # None => IsPrevious(current)
        /\ \A p \in minted : IsPrevious(p) =>
             tokenThread[p] = agentThread /\ memory[Session(p)] \subseteq tainted[p]
    BY <1>0, <1>1 DEF MemoryInv
  <1>3. CASE UNCHANGED <<clock, issued, minted, tokenThread, current, agentThread, overtook>>
    <2>1. ASSUME NEW p \in minted, IsPrevious(p), memory' # memory
          PROVE  memory'[Session(p)] \subseteq tainted[p]
      <3>1. PICK c \in Calls : Answer(c) BY <2>1, MemoryFrame
      <3>2. /\ pc[c] = "acted" /\ current = caller[c]
            /\ memory' = [memory EXCEPT ![Session(current)] = @ \cup {label[c].id}]
        BY <2>1, <3>1 DEF Answer
      <3>3. current \in minted /\ label[c].id \in tainted[current] BY <3>2 DEF IInv, CallInv
      <3>4. current # None /\ IsPrevious(current) BY <1>0, <1>2, <3>3, ConstantsOK DEF TypeOK
      <3>5. p = current BY <2>1, <3>3, <3>4, OnePrevious
      <3> QED BY <1>0, <1>2, <2>1, <3>2, <3>3, <3>5 DEF TypeOK
    <2>2. \A p \in minted : Session(p)' = Session(p) /\ (IsPrevious(p)' <=> IsPrevious(p))
      BY <1>3 DEF Session, IsPrevious
    <2>3. current' # None => IsPrevious(current)' BY <1>2, <1>3 DEF IsPrevious
    <2>4. ASSUME NEW p \in minted, IsPrevious(p)
          PROVE  tokenThread'[p] = agentThread' /\ memory'[Session(p)] \subseteq tainted'[p]
      <3>1. memory'[Session(p)] \subseteq tainted[p] BY <1>2, <2>1, <2>4
      <3> QED BY <1>1, <1>2, <1>3, <2>4, <3>1
    <2> QED BY <1>2, <1>3, <2>2, <2>3, <2>4
  <1>4. ASSUME NEW r \in Runs, RunStep(r)
        PROVE  /\ minted' # {} => \E p \in minted' : IsPrevious(p)'
               /\ current' # None => IsPrevious(current)'
               /\ \A p \in minted' : IsPrevious(p)' =>
                    /\ tokenThread'[p] = agentThread'
                    /\ memory'[Session(p)'] \subseteq tainted'[p]
    <2>1. memory' = memory BY <1>4 DEF RunStep, Arrive, Mint, Complete, Fail, history
    <2>2. CASE Arrive(r)
      <3>1. /\ issued[r] = 0 /\ issued' = [issued EXCEPT ![r] = clock + 1]
            /\ UNCHANGED <<minted, tokenThread, current, agentThread, tainted>>
        BY <2>2 DEF Arrive, agent, taints
      <3>2. \A q \in minted : q \in Runs /\ issued'[q] = issued[q]
        BY <1>0, <3>1 DEF TypeOK, OrderInv
      <3>3. \A p \in minted : Session(p)' = Session(p) /\ (IsPrevious(p)' <=> IsPrevious(p))
        BY <3>1, <3>2 DEF Session, IsPrevious
      <3>4. current # None => current \in minted BY <1>0 DEF RunInv
      <3> QED BY <1>2, <2>1, <3>1, <3>3, <3>4
    <2>3. CASE Mint(r)
      <3>1. /\ r \notin minted /\ minted' = minted \cup {r} /\ current' = r
            /\ tokenThread' = [tokenThread EXCEPT ![r] = agentThread]
            /\ UNCHANGED <<issued, agentThread>>
            /\ ~\E p \in minted : issued[p] > issued[r]
        BY <2>3 DEF Mint
      <3>2. minted \subseteq Runs /\ issued \in [Runs -> Nat] BY <1>0 DEF TypeOK
      <3>3. IsPrevious(r)' BY <3>1, <3>2 DEF IsPrevious
      <3>4. ASSUME NEW p \in minted', IsPrevious(p)' PROVE p = r
        <4>1. issued[p] = issued[r] /\ p \in Runs BY <3>1, <3>2, <3>3, <3>4 DEF IsPrevious
        <4>2. issued[r] # 0 BY <2>3 DEF Mint
        <4> QED BY <1>0, <4>1, <4>2 DEF OrderInv
      <3>5. tokenThread'[r] = agentThread' BY <1>0, <3>1 DEF TypeOK
      <3>6. memory[r] = {} BY <1>0, <3>1 DEF RunInv
      <3>7. memory[Session(r)'] \subseteq tainted'[r]
        <4>1. CASE agentThread = None BY <3>1, <3>5, <3>6, <4>1 DEF Session
        <4>2. CASE agentThread # None
          <5>1. Session(r)' = agentThread BY <3>1, <3>5, <4>2 DEF Session
          <5>2. agentThread \in minted BY <1>0, <4>2 DEF RunInv
          <5>3. CASE \A p \in minted : ~IsPrevious(p)
            BY <1>2, <5>2, <5>3
          <5>4. ASSUME NEW p \in minted, IsPrevious(p),
                       IF SameConversation(p) THEN tainted' = [tainted EXCEPT ![r] = tainted[p]]
                       ELSE UNCHANGED taints
                PROVE  memory[Session(r)'] \subseteq tainted'[r]
            <6>1. tokenThread[p] = agentThread /\ memory[Session(p)] \subseteq tainted[p]
              BY <1>2, <5>4
            <6>2. SameConversation(p) /\ Session(p) = agentThread
              BY <4>2, <6>1 DEF SameConversation, Session
            <6> QED BY <1>0, <5>1, <5>4, <6>1, <6>2 DEF TypeOK
          <5> QED BY <2>3, <5>3, <5>4 DEF Mint
        <4> QED BY <4>1, <4>2
      <3> QED BY <2>1, <3>1, <3>3, <3>4, <3>5, <3>7
    <2>4. CASE Complete(r)
      <3>1. /\ current = r /\ current' = None /\ agentThread' = Session(r)
            /\ tokenThread' = [tokenThread EXCEPT ![r] = Session(r)]
            /\ UNCHANGED <<issued, minted, tainted>>
        BY <2>4 DEF Complete, taints
      <3>2. r # None /\ r \in minted /\ IsPrevious(r) BY <1>0, <1>2, <3>1, ConstantsOK DEF RunInv
      <3>3. Session(r) # None BY <3>2, ConstantsOK DEF Session
      <3>4. tokenThread'[r] = Session(r) BY <1>0, <3>1 DEF TypeOK
      <3>5. Session(r)' = Session(r) BY <3>3, <3>4 DEF Session
      <3>6. \A p \in minted : IsPrevious(p)' <=> p = r
        <4>1. \A p \in minted : IsPrevious(p)' <=> IsPrevious(p) BY <3>1 DEF IsPrevious
        <4> QED BY <3>2, <4>1, OnePrevious
      <3> QED BY <1>2, <2>1, <3>1, <3>2, <3>4, <3>5, <3>6
    <2>5. CASE Fail(r)
      <3>1. current' = None /\ UNCHANGED <<issued, minted, tokenThread, agentThread, tainted>>
        BY <2>5 DEF Fail, taints
      <3>2. \A p \in minted : Session(p)' = Session(p) /\ (IsPrevious(p)' <=> IsPrevious(p))
        BY <3>1 DEF Session, IsPrevious
      <3> QED BY <1>2, <2>1, <3>1, <3>2
    <2> QED BY <1>4, <2>2, <2>3, <2>4, <2>5 DEF RunStep
  <1> QED BY <1>3, <1>4, RunFrame

LEMMA RevokedStep == ASSUME IInv, [Next]_vars PROVE RevokedInv'
  <1>0. TypeOK /\ RevokedInv BY DEF IInv
  <1> SUFFICES ASSUME NEW g \in Grants, grantState'[g] = "revoked", g \notin late'
               PROVE  /\ \A r \in Runs : allows'[r][g] = {}
                      /\ \A c \in Calls : pc'[c] = "found" => label'[c].id # g
    BY DEF RevokedInv
  <1>a. g \in Labels BY DEF Labels
  <1>1. CASE RevokeGrant(g)
    <2>1. /\ allows' = [r \in Runs |-> [allows[r] EXCEPT ![g] = {}]]
          /\ late' = IF Underway(g) THEN late \cup {g} ELSE late \ {g}
          /\ UNCHANGED <<pc, label>>
      BY <1>1 DEF RevokeGrant, calls
    <2>2. ~Underway(g) BY <2>1
    <2> QED BY <1>0, <1>a, <2>1, <2>2 DEF TypeOK, Underway
  <1>2. CASE ~RevokeGrant(g)
    <2>1. grantState[g] = "revoked" /\ g \notin late
      <3>1. CASE UNCHANGED <<grants, human>> BY <3>1 DEF grants, human
      <3>2. ASSUME NEW h \in Grants, CreateGrant(h) PROVE grantState[g] = "revoked" /\ g \notin late
        <4>1. grantState' = [grantState EXCEPT ![h] = "live"] /\ late' = late
          BY <3>2 DEF CreateGrant, Grant
        <4> QED BY <1>0, <4>1 DEF TypeOK
      <3>3. ASSUME NEW h \in Grants, Expire(h) PROVE grantState[g] = "revoked" /\ g \notin late
        <4>1. grantState' = [grantState EXCEPT ![h] = "expired"] /\ late' = late
          BY <3>3 DEF Expire, human
        <4> QED BY <1>0, <4>1 DEF TypeOK
      <3>4. ASSUME NEW h \in Grants, RevokeGrant(h) PROVE grantState[g] = "revoked" /\ g \notin late
        <4>1. /\ h # g /\ grantState' = [grantState EXCEPT ![h] = "revoked"]
              /\ late' \in {late \cup {h}, late \ {h}}
          BY <1>2, <3>4 DEF RevokeGrant
        <4> QED BY <1>0, <4>1 DEF TypeOK
      <3>5. ASSUME NEW d \in Dests, AllowAlwaysIntegrity(d) PROVE UNCHANGED <<grantState, late>>
        BY <3>5 DEF AllowAlwaysIntegrity
      <3>6. ASSUME NEW d \in Dests, AllowAlwaysEgress(d)
            PROVE  grantState[g] = "revoked" /\ g \notin late
        <4>1. CASE card[d].label \in Grants
          <5>1. grantState' = grantState /\ late \subseteq late'
            BY <3>6, <4>1, ConstantsOK DEF AllowAlwaysEgress
          <5> QED BY <5>1
        <4>2. CASE card[d].label \notin Grants
          <5>1. late' = late /\ \E h : grantState' = [grantState EXCEPT ![h] = "live"]
            BY <3>6, <4>2 DEF AllowAlwaysEgress
          <5> QED BY <1>0, <5>1 DEF TypeOK
        <4> QED BY <4>1, <4>2
      <3> QED BY <3>1, <3>2, <3>3, <3>4, <3>5, <3>6, GrantFrame DEF GrantStep
    <2>2. /\ \A r \in Runs : allows[r][g] = {}
          /\ \A c \in Calls : pc[c] = "found" => label[c].id # g
      BY <1>0, <2>1 DEF RevokedInv
    <2>3. ASSUME NEW r \in Runs PROVE allows'[r][g] = {}
      <3>1. CASE UNCHANGED taints BY <2>2, <3>1 DEF taints
      <3>2. ASSUME NEW q \in Runs, Mint(q) PROVE allows'[r][g] = {}
        <4>1. PICK p \in Runs : allows' = allows \/ allows' = [allows EXCEPT ![q] = allows[p]]
          BY <1>0, <3>2 DEF Mint, taints, TypeOK
        <4> QED BY <1>0, <2>2, <4>1 DEF TypeOK
      <3>3. ASSUME NEW c \in Calls, AddTaint(c) PROVE allows'[r][g] = {}
        <4>1. /\ label[c].id # g
              /\ \/ allows' = allows
                 \/ allows' = [allows EXCEPT ![caller[c]][label[c].id] = label[c].egress]
          BY <2>2, <3>3 DEF AddTaint, taints
        <4>2. allows \in [Runs -> [Labels -> SUBSET Egress]] BY <1>0 DEF TypeOK
        <4>3. CASE allows' = allows BY <2>2, <4>3
        <4>4. CASE allows' = [allows EXCEPT ![caller[c]][label[c].id] = label[c].egress]
          BY <1>a, <2>2, <4>1, <4>2, <4>4
        <4> QED BY <4>1, <4>3, <4>4
      <3>4. ASSUME NEW h \in Grants, RevokeGrant(h) PROVE allows'[r][g] = {}
        BY <1>0, <1>a, <2>2, <3>4 DEF RevokeGrant, TypeOK
      <3>5. ASSUME NEW d \in Dests, AllowAlwaysIntegrity(d) PROVE allows' = allows
        BY <3>5 DEF AllowAlwaysIntegrity
      <3>6. ASSUME NEW d \in Dests, AllowAlwaysEgress(d) PROVE allows'[r][g] = {}
        <4>1. allows' = [allows EXCEPT ![card[d].run][card[d].label] = @ \cup {ClassOf[d]}]
          BY <3>6 DEF AllowAlwaysEgress
        <4>2. card[d].label # g
          <5>1. ASSUME card[d].label = g PROVE g \in late'
            BY <2>1, <3>6, <5>1, ConstantsOK DEF AllowAlwaysEgress
          <5> QED BY <5>1
        <4>3. allows \in [Runs -> [Labels -> SUBSET Egress]] BY <1>0 DEF TypeOK
        <4> QED BY <1>a, <2>2, <4>1, <4>2, <4>3
      <3> QED BY <2>2, <3>1, <3>2, <3>3, <3>4, <3>5, <3>6, TaintFrame
    <2>4. ASSUME NEW c \in Calls, pc'[c] = "found" PROVE label'[c].id # g
      <3>1. CASE pc'[c] = pc[c] /\ label'[c] = label[c] BY <2>2, <2>4, <3>1
      <3>2. CASE FindGrant(c) \/ FindStanding(c)
        <4>1. \E l, e, b : /\ label' = [label EXCEPT ![c] = [id |-> l, egress |-> e, trusted |-> b]]
                           /\ l = OwnCrm \/ grantState[l] = "live"
          BY <3>2 DEF FindGrant, FindStanding, LabelFrom
        <4> QED BY <1>0, <2>1, <4>1, ConstantsOK DEF TypeOK
      <3>3. ASSUME NEW r, Authenticate(c, r) PROVE pc'[c] = "in"
        BY <1>0, <3>3 DEF Authenticate, Goto, TypeOK
      <3>4. ASSUME AddTaint(c) \/ SendOut(c) PROVE pc'[c] # "found"
        BY <1>0, <3>4 DEF AddTaint, SendOut, Goto, TypeOK
      <3>5. ASSUME Answer(c) \/ Throw(c) \/ DenyGrant(c) \/ DenySend(c) PROVE pc'[c] # "found"
        BY <1>0, <3>5 DEF Answer, Throw, DenyGrant, DenySend, Done, Goto, TypeOK
      <3> QED BY <2>4, <3>1, <3>2, <3>3, <3>4, <3>5, CallFrame DEF CallStep
    <2> QED BY <2>3, <2>4
  <1> QED BY <1>1, <1>2

--------------------------------------------------------------------------------
(* Flows                                                                       *)

\* A call that is sent was sent before, or passes the gate now; an approval is not withdrawn.
LEMMA SendFrame ==
  ASSUME IInv, [Next]_vars, NEW c \in Calls, pc'[c] = "sent", ~overtook', ~Approved(c)'
  PROVE  /\ ~overtook /\ ~Approved(c) /\ payload'[c] = payload[c]
         /\ \/ pc[c] = "sent"
            \/ /\ pc[c] = "in" /\ caller[c] \in Runs /\ payload[c] \subseteq tainted[caller[c]]
               /\ Passes(caller[c], DestOf[c])
  <1>0. TypeOK BY DEF IInv
  <1>1. ASSUME NEW r, Authenticate(c, r) PROVE FALSE BY <1>0, <1>1 DEF Authenticate, Goto, TypeOK
  <1>2. ASSUME FindGrant(c) \/ FindStanding(c) \/ AddTaint(c) PROVE FALSE
    BY <1>0, <1>2 DEF FindGrant, FindStanding, AddTaint, Goto, TypeOK
  <1>3. ASSUME Answer(c) \/ Throw(c) \/ DenyGrant(c) \/ DenySend(c) PROVE FALSE
    BY <1>0, <1>3 DEF Answer, Throw, DenyGrant, DenySend, Done, Goto, TypeOK
  <1>4. /\ payload'[c] = payload[c] /\ caller'[c] = caller[c]
        /\ pc[c] = "sent" \/ SendOut(c)
    <2>1. ASSUME SendOut(c) PROVE payload' = payload /\ caller' = caller
      BY <2>1 DEF SendOut, history
    <2> QED BY <1>1, <1>2, <1>3, <2>1, CallFrame DEF CallStep
  <1>5. ~overtook /\ pc[c] \in {"in", "sent"} BY <1>4, Grows DEF SendOut
  <1>6. caller[c] \in minted /\ payload[c] \subseteq tainted[caller[c]]
    BY <1>5 DEF IInv, CallInv
  <1>7. caller[c] \in Runs /\ egressAllow[caller[c]] \subseteq egressAllow'[caller[c]]
    BY <1>0, <1>6, Grows DEF TypeOK
  <1>8. ~Approved(c) BY <1>4, <1>7 DEF Approved
  <1> QED BY <1>4, <1>5, <1>6, <1>7, <1>8 DEF SendOut

\* What passes the gate without an approval is allowed by every label it carries, and
\* believed where that counts.
LEMMA GateMeans ==
  ASSUME IInv, NEW c \in Calls, caller[c] \in Runs, payload[c] \subseteq tainted[caller[c]],
         Passes(caller[c], DestOf[c]), ~Approved(c), NEW l \in payload[c]
  PROVE  /\ l \in Labels /\ Class(c) \in Egress
         /\ Class(c) \in allows[caller[c]][l]
         /\ DestOf[c] \in Outbound => l \in believed[caller[c]]
  <1>1. l \in Labels /\ l \in tainted[caller[c]] BY DEF IInv, TypeOK
  <1>2. ~Blocks(caller[c], DestOf[c], l) /\ ~Distrusts(caller[c], DestOf[c], l)
    BY <1>1 DEF Passes, Approved
  <1> QED BY <1>1, <1>2, ConstantsOK DEF Blocks, Distrusts, Class

LEMMA FlowStep == ASSUME IInv, [Next]_vars PROVE OnlyLicensedFlows'
  <1> SUFFICES ASSUME ~overtook', NEW c \in Calls, pc'[c] = "sent", ~Approved(c)',
                      NEW l \in payload'[c]
               PROVE  <<l, Class(c)>> \in licensed'
    BY DEF OnlyLicensedFlows, Class
  <1>1. <<l, Class(c)>> \in licensed
    <2>1. CASE pc[c] = "sent" BY <2>1, SendFrame DEF IInv, OnlyLicensedFlows
    <2>2. CASE pc[c] # "sent"
      <3>1. /\ caller[c] \in Runs /\ l \in Labels /\ Class(c) \in Egress
            /\ Class(c) \in allows[caller[c]][l]
        BY <2>2, SendFrame, GateMeans
      <3> QED BY <3>1 DEF IInv, EgressInv
    <2> QED BY <2>1, <2>2
  <1> QED BY <1>1, Grows

LEMMA BeliefStep == ASSUME IInv, [Next]_vars PROVE OnlyBelievedActs'
  <1> SUFFICES ASSUME ~overtook', NEW c \in Calls, pc'[c] = "sent", ~Approved(c)',
                      DestOf[c] \in Outbound, NEW l \in payload'[c]
               PROVE  l \in vouched'
    BY DEF OnlyBelievedActs
  <1>1. l \in vouched
    <2>1. CASE pc[c] = "sent" BY <2>1, SendFrame DEF IInv, OnlyBelievedActs
    <2>2. CASE pc[c] # "sent"
      <3>1. caller[c] \in Runs /\ l \in believed[caller[c]] BY <2>2, SendFrame, GateMeans
      <3> QED BY <3>1 DEF IInv, TrustInv
    <2> QED BY <2>1, <2>2
  <1> QED BY <1>1, Grows

--------------------------------------------------------------------------------
(* The invariant, and the properties                                           *)

LEMMA InitHolds == Init => IInv
  <1> SUFFICES ASSUME Init PROVE IInv OBVIOUS
  <1>1. TypeOK BY TypeInit
  <1>2. OrderInv /\ RunInv BY DEF Init, OrderInv, RunInv
  <1>3. CallInv /\ CardInv BY DEF Init, CallInv, CardInv
  <1>4. EgressInv BY DEF Init, EgressInv
  <1>5. TrustInv BY DEF Init, TrustInv, Grants
  <1>6. MemoryInv BY DEF Init, MemoryInv
  <1>7. RevokedInv BY DEF Init, RevokedInv
  <1>8. OnlyLicensedFlows /\ OnlyBelievedActs BY DEF Init, OnlyLicensedFlows, OnlyBelievedActs
  <1> QED BY <1>1, <1>2, <1>3, <1>4, <1>5, <1>6, <1>7, <1>8 DEF IInv

\* Messages, tokens, taints, grants, cards and calls agree at every step of gateway.ts,
\* grants.ts, approvals.ts and sendMessage.
THEOREM InvariantHolds == Spec => []IInv
  <1>1. Init => IInv BY InitHolds
  <1>2. IInv /\ [Next]_vars => IInv'
    BY TypeStep, OrderStep, RunStepInv, CallStepInv, CardStepInv, EgressStep, TrustStep,
       MemoryStep, RevokedStep, FlowStep, BeliefStep DEF IInv
  <1> QED BY <1>1, <1>2, PTL DEF Spec

\* Every variable keeps its type: the grants, the tokens, their taints and the cards stay
\* well-formed, and a token that is live exists.
THEOREM TypeCorrect == Spec => []TypeOK
  <1>1. IInv => TypeOK BY DEF IInv
  <1> QED BY <1>1, InvariantHolds, PTL

\* While runs are minted in the order of their messages, nothing the model was shown is sent
\* (egressGate in gateway.ts) to a class that no human has allowed for its source, unless one
\* has approved that destination for that run.
THEOREM FlowsAreLicensed == Spec => []OnlyLicensedFlows
  <1>1. IInv => OnlyLicensedFlows BY DEF IInv
  <1> QED BY <1>1, InvariantHolds, PTL

\* And nothing nobody vouched for is sent to where the integrity check of ifc.ts applies.
THEOREM ActsAreBelieved == Spec => []OnlyBelievedActs
  <1>1. IInv => OnlyBelievedActs BY DEF IInv
  <1> QED BY <1>1, InvariantHolds, PTL

\* The carry of taints in sendMessage is right as long as no run overtakes another: what the
\* model of the run under way remembers is among the labels of its token.
THEOREM TaintsFollowInOrder == Spec => [](~overtook => TaintsFollowMemory)
  <1>1. IInv => (~overtook => TaintsFollowMemory) BY ModelIsTainted DEF TaintsFollowMemory
  <1> QED BY <1>1, InvariantHolds, PTL

\* revokeGrant (grants.ts) leaves no egress to the taints of the grant on any token, except
\* where a read was under way or a human has answered a card since.
THEOREM RevocationNarrows ==
  Spec => [](\A g \in Grants \ late : grantState[g] = "revoked" =>
               \A r \in Runs : allows[r][g] = {})
  <1>1. IInv => \A g \in Grants \ late : grantState[g] = "revoked" =>
                  \A r \in Runs : allows[r][g] = {}
    BY DEF IInv, RevokedInv
  <1> QED BY <1>1, InvariantHolds, PTL

\* A call that passes egressGate after a grant was revoked carries none of its content.
THEOREM RevocationStopsFlow == Spec => RevokedStopsFlow
  <1>1. ASSUME IInv, IInv', [Next]_vars, NEW c \in Calls, pc[c] = "in", pc'[c] = "sent",
               ~overtook, ~Approved(c), NEW g \in payload[c] \cap Grants, grantState[g] = "revoked"
        PROVE  g \in late
    <2>0. TypeOK BY <1>1 DEF IInv
    <2>1. SendOut(c)
      <3>1. ASSUME NEW r, Authenticate(c, r) PROVE FALSE
        BY <2>0, <1>1, <3>1 DEF Authenticate, Goto, TypeOK
      <3>2. ASSUME FindGrant(c) \/ FindStanding(c) \/ AddTaint(c) PROVE FALSE
        BY <2>0, <1>1, <3>2 DEF FindGrant, FindStanding, AddTaint, Goto, TypeOK
      <3>3. ASSUME Answer(c) \/ Throw(c) \/ DenyGrant(c) \/ DenySend(c) PROVE FALSE
        BY <2>0, <1>1, <3>3 DEF Answer, Throw, DenyGrant, DenySend, Done, Goto, TypeOK
      <3> QED BY <1>1, <3>1, <3>2, <3>3, CallFrame DEF CallStep
    <2>2. caller[c] \in minted /\ payload[c] \subseteq tainted[caller[c]]
      BY <1>1 DEF IInv, CallInv
    <2>3. caller[c] \in Runs BY <2>0, <2>2 DEF TypeOK
    <2>4. Passes(caller[c], DestOf[c]) BY <2>1 DEF SendOut
    <2>5. allows[caller[c]][g] # {} BY <1>1, <2>2, <2>3, <2>4, GateMeans
    <2> QED BY <1>1, <2>3, <2>5 DEF IInv, RevokedInv
  <1>2. IInv /\ IInv' /\ [Next]_vars =>
          [\A c \in Calls :
             pc[c] = "in" /\ pc'[c] = "sent" /\ ~overtook /\ ~Approved(c) =>
               \A g \in payload[c] \cap Grants : grantState[g] = "revoked" => g \in late]_vars
    BY <1>1
  <1> QED BY <1>2, InvariantHolds, PTL DEF Spec, RevokedStopsFlow

\* A destination is approved (decideApproval, allow_run) for no run but the one that was
\* denied, which has its token.
THEOREM ApprovalsStay == Spec => ApprovalStaysWithItsRun
  <1>1. ASSUME IInv, [Next]_vars, NEW r \in Runs, NEW d \in Dests,
               d \in egressAllow'[r], d \notin egressAllow[r]
        PROVE  card[d].run = r /\ r \in minted
    <2>0. TypeOK BY <1>1 DEF IInv
    <2>1. PICK e \in Dests : AllowRun(e) BY <1>1, ApprovalFrame
    <2>2. card[e] # NoCard /\ egressAllow' = [egressAllow EXCEPT ![card[e].run] = @ \cup {e}]
      BY <2>1 DEF AllowRun
    <2>3. e = d /\ card[e].run = r BY <1>1, <2>0, <2>2 DEF TypeOK
    <2> QED BY <1>1, <2>2, <2>3 DEF IInv, CardInv
  <1>2. IInv /\ [Next]_vars =>
          [\A r \in Runs, d \in Dests :
             d \in egressAllow'[r] /\ d \notin egressAllow[r] =>
               card[d].run = r /\ r \in minted]_vars
    BY <1>1
  <1> QED BY <1>2, InvariantHolds, PTL DEF Spec, ApprovalStaysWithItsRun
================================================================================
