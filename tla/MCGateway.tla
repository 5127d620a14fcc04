------------------------------- MODULE MCGateway -------------------------------
(* Small instances of Gateway. *)
EXTENDS Gateway, TLC

CONSTANTS r1, r2, r3, hook, b1, m1, s1, g1, h1

Classes == {"internal", "agent", "external"}

MCClassOf == [d \in Dests |-> "external"]

MCToolOf == [c \in Calls |-> CASE c = b1 -> "workspace_read"
                               [] c = m1 -> "crm_read"
                               [] OTHER -> "webhook_send"]

MCDestOf == [c \in Calls |-> hook]

\* The default of createGrant and, for a workspace, the widest choice of a human.
DefaultOrExternal == [g \in Grants |-> IF g \in Borrowed
                                       THEN {{"internal"}, {"internal", "external"}}
                                       ELSE {{"internal"}}]

\* Bound: a behaviour has to do with another agent's workspace or with the CRM,
\* and not with both; what expires is the grant over the workspace.
UsesWorkspace == grantState[g1] # "none" \/ pc[b1] # "idle"
UsesCrm == grantState[h1] # "none" \/ pc[m1] # "idle" \/ \E r \in Runs : OwnCrm \in tainted[r]
OneSource == ~(UsesWorkspace /\ UsesCrm) /\ grantState[h1] # "expired"

\* Runs are interchangeable.
RunSymmetry == Permutations(Runs)
================================================================================
