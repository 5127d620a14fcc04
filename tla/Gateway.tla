-------------------------------- MODULE Gateway --------------------------------
(***************************************************************************)
(* Information flow through the tool gateway (gateway.ts, ifc.ts, grants.ts *)
(* and the taint half of approvals.ts), for one agent of one tenant.        *)
(*                                                                          *)
(* What a run reads under a grant, or from its owner's CRM, taints its      *)
(* token with a label; a call that sends must satisfy every label.  Tool    *)
(* calls are concurrent and take several steps, and between two of them a   *)
(* human creates, revokes and declassifies.  Taints are carried from one    *)
(* run of a conversation to the next.                                       *)
(*                                                                          *)
(* Contents, paths and levels are abstracted to the label of their source;  *)
(* scopes and the life of cards and runs are in other modules, and runs do  *)
(* not overlap here (RunLifecycle says when they may).                      *)
(***************************************************************************)
EXTENDS Naturals

CONSTANTS Runs,            \* messages to the agent, each with its run
          Borrowed,        \* grants over another agent's workspace
          Standing,        \* tenant-level grants over the owner's CRM
          OwnCrm,          \* OWN_CRM_LABEL: a CRM read under no standing grant
          Egress,          \* destination classes
          Dests,           \* destinations: a URL, a workspace, the CRM
          ClassOf,         \* the class of each
          Outbound,        \* those the integrity check applies to
          Calls,           \* tool calls
          ToolOf,          \* the tool of each: "workspace_read", "crm_read" or "webhook_send"
          DestOf,          \* where a sending call sends
          None,            \* no run, no thread, no label
          Offers           \* bound: egress sets a human gives each grant when it is new

Grants == Borrowed \cup Standing
Labels == Grants \cup {OwnCrm}

ASSUME ConstantsOK ==
  /\ Borrowed \cap Standing = {} /\ OwnCrm \notin Grants
  /\ None \notin Runs \cup Labels
  /\ "internal" \in Egress
  /\ ClassOf \in [Dests -> Egress]
  /\ Outbound \subseteq Dests
  /\ ToolOf \in [Calls -> {"workspace_read", "crm_read", "webhook_send"}]
  /\ DestOf \in [Calls -> Dests]
  /\ Offers \in [Grants -> SUBSET SUBSET Egress]

VARIABLES
  \* PolicyGrant rows
  grantState,      \* "none", "live", "expired" or "revoked"
  grantEgress,     \* egress
  grantTrust,      \* the borrowed ones with trustContent, the others never need it
  \* RunToken rows
  clock,           \* the messages that have arrived
  issued,          \* issuedAt: the place of each among them, 0 before it arrives
  minted,          \* the tokens that exist
  live,            \* the tokens not revoked
  tainted,         \* the labels among its taints
  allows,          \* the egress of each
  believed,        \* the labels marked trusted
  egressAllow,     \* destinations a human approved for this run
  tokenThread,     \* threadId
  \* the agent
  current,         \* the run whose process is alive
  agentThread,     \* codexThreadId: a thread is named by the run that began it
  \* cards and calls
  card,            \* per destination, the pending declassify card
  pc,              \* where each call is
  caller,          \* its run, from the verified token
  label,           \* what it is about to add: [id, egress, trusted]
  \* history
  memory,          \* per thread, the labels whose content the model was shown
  payload,         \* the labels whose content a sending call may carry
  licensed,        \* label and class pairs a human has allowed
  vouched,         \* labels a human, or the channel, has declared trusted
  late,            \* revoked grants of which a label or an egress was under way
  overtook         \* a run was minted after one whose message arrived later

grants  == <<grantState, grantEgress, grantTrust>>
taints  == <<tainted, allows, believed>>
tokens  == <<clock, issued, minted, live, egressAllow, tokenThread>>
agent   == <<current, agentThread>>
calls   == <<pc, caller, label>>
history == <<memory, payload>>
human   == <<licensed, vouched, late>>
vars == <<grants, taints, tokens, agent, card, calls, history, human, overtook>>

NoLabel == [id |-> None, egress |-> {}, trusted |-> FALSE]
NoCard  == [run |-> None, label |-> None, integrity |-> FALSE]
Class(c) == ClassOf[DestOf[c]]

\* The Codex session of a run: the one it resumes, or its own.
Session(r) == IF tokenThread[r] = None THEN r ELSE tokenThread[r]

Init ==
  /\ grantState = [g \in Grants |-> "none"]
  /\ grantEgress = [g \in Grants |-> {}]
  /\ grantTrust = {}
  /\ clock = 0 /\ issued = [r \in Runs |-> 0]
  /\ minted = {} /\ live = {}
  /\ tainted = [r \in Runs |-> {}]
  /\ allows = [r \in Runs |-> [l \in Labels |-> {}]]
  /\ believed = [r \in Runs |-> {}]
  /\ egressAllow = [r \in Runs |-> {}]
  /\ tokenThread = [r \in Runs |-> None]
  /\ current = None /\ agentThread = None
  /\ card = [d \in Dests |-> NoCard]
  /\ pc = [c \in Calls |-> "idle"]
  /\ caller = [c \in Calls |-> None]
  /\ label = [c \in Calls |-> NoLabel]
  /\ memory = [r \in Runs |-> {}]
  /\ payload = [c \in Calls |-> {}]
  /\ licensed = {<<OwnCrm, "internal">>}
  /\ vouched = {OwnCrm}
  /\ late = {} /\ overtook = FALSE

--------------------------------------------------------------------------------
(* Mutated forms of actions below, each with a mistake the code could make.  They *)
(* are no part of Next.                                                           *)

\* A follow-up run starts with no taints.
MintClean(r) ==
  /\ issued[r] # 0 /\ r \notin minted /\ current = None
  /\ minted' = minted \cup {r} /\ live' = live \cup {r}
  /\ tokenThread' = [tokenThread EXCEPT ![r] = agentThread]
  /\ current' = r
  /\ overtook' = (overtook \/ \E p \in minted : issued[p] > issued[r])
  /\ UNCHANGED <<grants, taints, clock, issued, egressAllow, agentThread, card, calls, history, human>>

\* The approvals of the last run are carried along with its taints.
MintWithApprovals(r) ==
  /\ issued[r] # 0 /\ r \notin minted /\ current = None
  /\ \E p \in IF minted = {} THEN {r} ELSE minted :
       /\ tainted' = [tainted EXCEPT ![r] = tainted[p]]
       /\ allows' = [allows EXCEPT ![r] = allows[p]]
       /\ believed' = [believed EXCEPT ![r] = believed[p]]
       /\ egressAllow' = [egressAllow EXCEPT ![r] = egressAllow[p]]
  /\ minted' = minted \cup {r} /\ live' = live \cup {r}
  /\ tokenThread' = [tokenThread EXCEPT ![r] = agentThread]
  /\ current' = r
  /\ overtook' = (overtook \/ \E p \in minted : issued[p] > issued[r])
  /\ UNCHANGED <<grants, clock, issued, agentThread, card, calls, history, human>>

\* The label is believed whatever the human said of the grant.
BelievedLabel(g, trusted) == [id |-> g, egress |-> grantEgress[g], trusted |-> TRUE]

\* The standing grant is looked up without regard to its revocation.
FindAnyStanding(c) ==
  /\ pc[c] = "in" /\ ToolOf[c] = "crm_read"
  /\ \E g \in Standing :
       /\ grantState[g] # "none"
       /\ label' = [label EXCEPT ![c] = [id |-> g, egress |-> grantEgress[g], trusted |-> TRUE]]
  /\ pc' = [pc EXCEPT ![c] = "found"]
  /\ UNCHANGED <<grants, taints, tokens, agent, card, caller, history, human, overtook>>

\* Taints are told apart by origin alone: all reads of the CRM share one.
AddTaintByOrigin(c) ==
  LET r == caller[c]  l == label[c]
      Origin(i) == IF i \in Borrowed THEN i ELSE OwnCrm
  IN
  /\ pc[c] = "found"
  /\ IF \E i \in tainted[r] : Origin(i) = Origin(l.id)
     THEN UNCHANGED taints
     ELSE /\ tainted' = [tainted EXCEPT ![r] = @ \cup {l.id}]
          /\ allows' = [allows EXCEPT ![r][l.id] = l.egress]
          /\ believed' = IF l.trusted THEN [believed EXCEPT ![r] = @ \cup {l.id}]
                         ELSE believed
  /\ pc' = [pc EXCEPT ![c] = "acted"]
  /\ UNCHANGED <<grants, tokens, agent, card, caller, label, history, human, overtook>>

\* Only the tokens that are still live are narrowed.
RevokeOnLiveTokens(g) ==
  /\ grantState[g] # "none"
  /\ grantState' = [grantState EXCEPT ![g] = "revoked"]
  /\ allows' = [r \in Runs |-> IF r \in live THEN [allows[r] EXCEPT ![g] = {}] ELSE allows[r]]
  /\ late' = late \ {g}
  /\ UNCHANGED <<grantEgress, grantTrust, tainted, believed, tokens, agent, card, calls,
                 history, licensed, vouched, overtook>>

\* The model is shown a label, not what it stands for.
AnswerWithLabel(c) ==
  /\ pc[c] \in {"acted", "sent"}
  /\ memory' = [r \in Runs |-> memory[r] \cup {label[c]}]
  /\ pc' = [pc EXCEPT ![c] = "idle"]
  /\ UNCHANGED <<caller, label, payload, grants, taints, tokens, agent, card, human, overtook>>

--------------------------------------------------------------------------------
(* Messages and runs: sendMessage, executeRun's end, killAgent *)

\* sendMessage takes its timestamp and awaits the scope estimator.
Arrive(r) ==
  /\ issued[r] = 0
  /\ clock' = clock + 1
  /\ issued' = [issued EXCEPT ![r] = clock + 1]
  /\ UNCHANGED <<grants, taints, minted, live, egressAllow, tokenThread, agent, card, calls,
                 history, human, overtook>>

IsPrevious(p) == p \in minted /\ \A q \in minted : issued[q] <= issued[p]
SameConversation(p) == tokenThread[p] \in {None, agentThread}

\* The mutation that mints: the taints of the newest token of the conversation.
Mint(r) ==
  /\ issued[r] # 0 /\ r \notin minted
  /\ current = None
  /\ \/ /\ \A p \in minted : ~IsPrevious(p)
        /\ UNCHANGED taints
     \/ \E p \in minted :
          /\ IsPrevious(p)
          /\ IF SameConversation(p)
             THEN /\ tainted' = [tainted EXCEPT ![r] = tainted[p]]
                  /\ allows' = [allows EXCEPT ![r] = allows[p]]
                  /\ believed' = [believed EXCEPT ![r] = believed[p]]
             ELSE UNCHANGED taints
  /\ minted' = minted \cup {r} /\ live' = live \cup {r}
  /\ tokenThread' = [tokenThread EXCEPT ![r] = agentThread]
  /\ current' = r
  /\ overtook' = (overtook \/ \E p \in minted : issued[p] > issued[r])
  /\ UNCHANGED <<grants, clock, issued, egressAllow, agentThread, card, calls, history, human>>

\* A completed run leaves its thread to the agent and, if it began it, to its token.
Complete(r) ==
  /\ current = r
  /\ agentThread' = Session(r)
  /\ tokenThread' = [tokenThread EXCEPT ![r] = Session(r)]
  /\ live' = live \ {r} /\ current' = None
  /\ UNCHANGED <<grants, taints, clock, issued, minted, egressAllow, card, calls, history, human,
                 overtook>>

\* A failed or cancelled run leaves both as they were.
Fail(r) ==
  /\ current = r
  /\ live' = live \ {r} /\ current' = None
  /\ UNCHANGED <<grants, taints, clock, issued, minted, egressAllow, tokenThread, agentThread, card,
                 calls, history, human, overtook>>

\* The agent's tokens are revoked; its process goes on.
Kill ==
  /\ live # {}
  /\ live' = {}
  /\ UNCHANGED <<grants, taints, clock, issued, minted, egressAllow, tokenThread, agent, card, calls,
                 history, human, overtook>>

--------------------------------------------------------------------------------
(* Tool calls *)

Goto(c, where) == pc' = [pc EXCEPT ![c] = where]

\* The call is over; what the handler closed over is gone.
Done(c) ==
  /\ Goto(c, "idle")
  /\ caller' = [caller EXCEPT ![c] = None]
  /\ label' = [label EXCEPT ![c] = NoLabel]
  /\ payload' = [payload EXCEPT ![c] = {}]

\* The token row is live; the tools close over the run it names.
Authenticate(c, r) ==
  /\ pc[c] = "idle"
  /\ current = r /\ r \in live
  /\ Goto(c, "in")
  /\ caller' = [caller EXCEPT ![c] = r]
  /\ payload' = IF ToolOf[c] = "webhook_send"
                THEN [payload EXCEPT ![c] = memory[Session(r)]] ELSE payload
  /\ UNCHANGED <<grants, taints, tokens, agent, card, label, memory, human, overtook>>

LabelFrom(g, trusted) == [id |-> g, egress |-> grantEgress[g], trusted |-> trusted]

\* resolveWorkspace finds a live grant; its egress and trust are kept for the label.
FindGrant(c) ==
  /\ pc[c] = "in" /\ ToolOf[c] = "workspace_read"
  /\ \E g \in Borrowed :
       /\ grantState[g] = "live"
       /\ label' = [label EXCEPT ![c] = LabelFrom(g, g \in grantTrust)]
  /\ Goto(c, "found")
  /\ UNCHANGED <<grants, taints, tokens, agent, card, caller, history, human, overtook>>

\* crm_read has its rows and looks for a standing grant over them.
FindStanding(c) ==
  /\ pc[c] = "in" /\ ToolOf[c] = "crm_read"
  /\ \/ \E g \in Standing :
          /\ grantState[g] = "live"
          /\ label' = [label EXCEPT ![c] = LabelFrom(g, TRUE)]
     \/ /\ \A g \in Standing : grantState[g] # "live"
        /\ label' = [label EXCEPT ![c] =
                       [id |-> OwnCrm, egress |-> {"internal"}, trusted |-> TRUE]]
  /\ Goto(c, "found")
  /\ UNCHANGED <<grants, taints, tokens, agent, card, caller, history, human, overtook>>

\* A label the token already holds is kept as it is.
AddTaint(c) ==
  LET r == caller[c]  l == label[c] IN
  /\ pc[c] = "found"
  /\ IF l.id \in tainted[r]
     THEN UNCHANGED taints
     ELSE /\ tainted' = [tainted EXCEPT ![r] = @ \cup {l.id}]
          /\ allows' = [allows EXCEPT ![r][l.id] = l.egress]
          /\ believed' = IF l.trusted THEN [believed EXCEPT ![r] = @ \cup {l.id}]
                         ELSE believed
  /\ Goto(c, "acted")
  /\ UNCHANGED <<grants, tokens, agent, card, caller, label, history, human, overtook>>

Blocks(r, d, l)    == l \in tainted[r] /\ ClassOf[d] \notin allows[r][l]
Distrusts(r, d, l) == l \in tainted[r] /\ d \in Outbound /\ l \notin believed[r]

Passes(r, d) ==
  \/ d \in egressAllow[r]
  \/ \A l \in Labels : ~Blocks(r, d, l) /\ ~Distrusts(r, d, l)

\* egressGate reads the token row again; the effect begins without a wait.
SendOut(c) ==
  /\ pc[c] = "in" /\ ToolOf[c] = "webhook_send"
  /\ Passes(caller[c], DestOf[c])
  /\ Goto(c, "sent")
  /\ UNCHANGED <<grants, taints, tokens, agent, card, caller, label, history, human, overtook>>

\* The row is written and the answer given; a live process is shown what it read.
Answer(c) ==
  /\ pc[c] \in {"acted", "sent"}
  /\ memory' = IF pc[c] = "acted" /\ current = caller[c]
               THEN [memory EXCEPT ![Session(current)] = @ \cup {label[c].id}]
               ELSE memory
  /\ Done(c)
  /\ UNCHANGED <<grants, taints, tokens, agent, card, human, overtook>>

\* A tool, the store or the audit trail fails: the answer is an error, and what was
\* done is not undone.
Throw(c) ==
  /\ pc[c] # "idle"
  /\ Done(c)
  /\ UNCHANGED <<grants, taints, tokens, agent, card, memory, human, overtook>>

\* No live grant: denied, with a grant card that is no part of this module.
DenyGrant(c) ==
  /\ pc[c] = "in" /\ ToolOf[c] = "workspace_read"
  /\ \A g \in Borrowed : grantState[g] # "live"
  /\ Done(c)
  /\ UNCHANGED <<grants, taints, tokens, agent, card, memory, human, overtook>>

\* declassifyCard names the label that blocks, or else one that is not believed;
\* a card pending for the destination is left as it is.
DenySend(c) ==
  LET r == caller[c]  d == DestOf[c] IN
  /\ pc[c] = "in" /\ ToolOf[c] = "webhook_send"
  /\ ~Passes(r, d)
  /\ \E l \in tainted[r] :
       /\ IF \E k \in Labels : Blocks(r, d, k) THEN Blocks(r, d, l) ELSE Distrusts(r, d, l)
       /\ card' = IF card[d] # NoCard THEN card
                  ELSE [card EXCEPT ![d] = [run |-> r, label |-> l,
                                            integrity |-> ~Blocks(r, d, l)]]
  /\ Done(c)
  /\ UNCHANGED <<grants, taints, tokens, agent, memory, human, overtook>>

--------------------------------------------------------------------------------
(* What a human does: createGrant, revokeGrant, decideApproval *)

Grant(g, offer, trusted) ==
  /\ grantState[g] = "none"
  /\ grantState' = [grantState EXCEPT ![g] = "live"]
  /\ grantEgress' = [grantEgress EXCEPT ![g] = offer]
  /\ grantTrust' = IF trusted /\ g \in Borrowed THEN grantTrust \cup {g} ELSE grantTrust
  /\ licensed' = licensed \cup ({g} \X offer)
  /\ vouched' = IF trusted \/ g \in Standing THEN vouched \cup {g} ELSE vouched

CreateGrant(g) ==
  /\ \E offer \in Offers[g], trusted \in BOOLEAN : Grant(g, offer, trusted)
  /\ UNCHANGED <<taints, tokens, agent, card, calls, history, late, overtook>>

\* Its expiresAt passes; nothing is written.
Expire(g) ==
  /\ grantState[g] = "live"
  /\ grantState' = [grantState EXCEPT ![g] = "expired"]
  /\ UNCHANGED <<grantEgress, grantTrust, taints, tokens, agent, card, calls, history, human,
                 overtook>>

\* A call has found the grant and has yet to add its label.
Underway(g) == \E c \in Calls : pc[c] = "found" /\ label[c].id = g

\* The grant's taints on every token lose all egress, again when it is repeated.
RevokeGrant(g) ==
  /\ grantState[g] # "none"
  /\ grantState' = [grantState EXCEPT ![g] = "revoked"]
  /\ allows' = [r \in Runs |-> [allows[r] EXCEPT ![g] = {}]]
  /\ late' = IF Underway(g) THEN late \cup {g} ELSE late \ {g}
  /\ UNCHANGED <<grantEgress, grantTrust, tainted, believed, tokens, agent, card, calls,
                 history, licensed, vouched, overtook>>

Decided(d) == card' = [card EXCEPT ![d] = NoCard]

Refuse(d) ==
  /\ card[d] # NoCard
  /\ Decided(d)
  /\ UNCHANGED <<grants, taints, tokens, agent, calls, history, human, overtook>>

\* This destination, for the run that was denied.
AllowRun(d) ==
  /\ card[d] # NoCard
  /\ egressAllow' = [egressAllow EXCEPT ![card[d].run] = @ \cup {d}]
  /\ Decided(d)
  /\ UNCHANGED <<grants, taints, clock, issued, minted, live, tokenThread, agent, calls,
                 history, human, overtook>>

\* What is read under this grant may be believed from now on.
AllowAlwaysIntegrity(d) ==
  LET l == card[d].label  r == card[d].run IN
  /\ card[d] # NoCard /\ card[d].integrity
  /\ grantTrust' = IF l \in Borrowed THEN grantTrust \cup {l} ELSE grantTrust
  /\ believed' = [believed EXCEPT ![r] = @ \cup {l}]
  /\ vouched' = vouched \cup {l}
  /\ Decided(d)
  /\ UNCHANGED <<grantState, grantEgress, tainted, allows, tokens, agent, calls, history,
                 licensed, late, overtook>>

\* The class is added to the label of this run and to its grant; for the owner's
\* CRM, which has none, a standing grant is created.
AllowAlwaysEgress(d) ==
  LET l == card[d].label  r == card[d].run  e == ClassOf[d] IN
  /\ card[d] # NoCard /\ ~card[d].integrity
  /\ allows' = [allows EXCEPT ![r][l] = @ \cup {e}]
  /\ \/ /\ l \in Grants
        /\ grantEgress' = [grantEgress EXCEPT ![l] = @ \cup {e}]
        /\ licensed' = licensed \cup {<<l, e>>}
        /\ late' = IF grantState[l] = "revoked" THEN late \cup {l} ELSE late
        /\ UNCHANGED <<grantState, grantTrust, vouched>>
     \/ /\ l = OwnCrm
        /\ \E g \in Standing :
             /\ grantState[g] = "none"
             /\ grantState' = [grantState EXCEPT ![g] = "live"]
             /\ grantEgress' = [grantEgress EXCEPT ![g] = {"internal", e}]
             /\ licensed' = licensed \cup {<<OwnCrm, e>>, <<g, "internal">>, <<g, e>>}
             /\ vouched' = vouched \cup {g}
        /\ UNCHANGED <<grantTrust, late>>
  /\ Decided(d)
  /\ UNCHANGED <<tainted, believed, tokens, agent, calls, history, overtook>>

--------------------------------------------------------------------------------

RunStep(r)  == Arrive(r) \/ Mint(r) \/ Complete(r) \/ Fail(r)
CallStep(c) == \/ \E r \in Runs : Authenticate(c, r)
               \/ FindGrant(c) \/ FindStanding(c) \/ AddTaint(c)
               \/ SendOut(c) \/ Answer(c) \/ Throw(c)
               \/ DenyGrant(c) \/ DenySend(c)
GrantStep(g) == CreateGrant(g) \/ Expire(g) \/ RevokeGrant(g)
CardStep(d) == \/ Refuse(d) \/ AllowRun(d)
               \/ AllowAlwaysIntegrity(d) \/ AllowAlwaysEgress(d)

Next ==
  \/ \E r \in Runs : RunStep(r)
  \/ Kill
  \/ \E c \in Calls : CallStep(c)
  \/ \E g \in Grants : GrantStep(g)
  \/ \E d \in Dests : CardStep(d)

Spec == Init /\ [][Next]_vars

--------------------------------------------------------------------------------
(* Properties *)

\* Every variable has its type.
TypeOK ==
  /\ grantState \in [Grants -> {"none", "live", "expired", "revoked"}]
  /\ grantEgress \in [Grants -> SUBSET Egress] /\ grantTrust \subseteq Grants
  /\ clock \in Nat /\ issued \in [Runs -> Nat]
  /\ minted \subseteq Runs /\ live \subseteq minted
  /\ tainted \in [Runs -> SUBSET Labels]
  /\ allows \in [Runs -> [Labels -> SUBSET Egress]]
  /\ believed \in [Runs -> SUBSET Labels]
  /\ egressAllow \in [Runs -> SUBSET Dests]
  /\ tokenThread \in [Runs -> Runs \cup {None}]
  /\ current \in Runs \cup {None} /\ agentThread \in Runs \cup {None}
  /\ card \in [Dests -> [run : Runs \cup {None}, label : Labels \cup {None},
                         integrity : BOOLEAN]]
  /\ pc \in [Calls -> {"idle", "in", "found", "acted", "sent"}]
  /\ caller \in [Calls -> Runs \cup {None}]
  /\ label \in [Calls -> [id : Labels \cup {None}, egress : SUBSET Egress,
                          trusted : BOOLEAN]]
  /\ memory \in [Runs -> SUBSET Labels]
  /\ payload \in [Calls -> SUBSET Labels]
  /\ licensed \subseteq Labels \X Egress
  /\ vouched \subseteq Labels /\ late \subseteq Grants
  /\ overtook \in BOOLEAN

Approved(c) == DestOf[c] \in egressAllow[caller[c]]

\* Nothing a model was shown leaves for a class of destination that no human has
\* allowed for its source, unless one allowed that destination for that run: not
\* by waiting a turn, not through a concurrent call, not after an error.  (While
\* runs are minted in the order of their messages; see TaintsFollowMemory.)
OnlyLicensedFlows ==
  ~overtook => \A c \in Calls :
    pc[c] = "sent" /\ ~Approved(c) => \A l \in payload[c] : <<l, Class(c)>> \in licensed

\* Content nobody vouched for triggers no outbound action without a human.
OnlyBelievedActs ==
  ~overtook => \A c \in Calls :
    pc[c] = "sent" /\ ~Approved(c) /\ DestOf[c] \in Outbound => payload[c] \subseteq vouched

\* A call that passes the gate after a grant was revoked carries none of its
\* content anywhere, unless a read under it was under way when it was revoked, or
\* a human has answered its card since.
RevokedStopsFlow ==
  [][\A c \in Calls :
       pc[c] = "in" /\ pc'[c] = "sent" /\ ~overtook /\ ~Approved(c) =>
         \A g \in payload[c] \cap Grants : grantState[g] = "revoked" => g \in late]_vars

\* A human's approval of one destination for one run never serves another run.
ApprovalStaysWithItsRun ==
  [][\A r \in Runs, d \in Dests :
       d \in egressAllow'[r] /\ d \notin egressAllow[r] => card[d].run = r /\ r \in minted]_vars

\* agent-service.ts:698, "Taints follow the data for as long as the model can
\* still remember it."
TaintsFollowMemory == current # None => memory[Session(current)] \subseteq tainted[current]

\* grants.ts:65, "Revocation narrows, never widens (D9): the grant's taints lose
\* all egress."
RevokedTaintsAreEmpty ==
  \A g \in Grants : grantState[g] = "revoked" => \A r \in Runs : allows[r][g] = {}
================================================================================
