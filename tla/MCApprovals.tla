------------------------------ MODULE MCApprovals ------------------------------
(* Small instances of Approvals. *)
EXTENDS Approvals, TLC, FiniteSets

\* Bound: a behaviour has to do with two runs or with two scopes, and not with both; the
\* windows that end are, with two runs, those of runs that were answered with a scope.
RunsUsed   == {r \in Runs : phase[r] # "idle"}
ScopesUsed == tools \cup (IF kills = 0 THEN {} ELSE since) \cup {s \in Scopes : temp[s] # None}
                \cup UNION {scp[r] \cup estimate[r] : r \in Runs}
                \cup {card[k].scope : k \in Cards} \cup {call[c].scope : c \in Calls}
OneRunOrScope == \/ Cardinality(RunsUsed) < 2 /\ expired = {}
                 \/ /\ Cardinality(ScopesUsed \ {None}) < 2
                    /\ expired \subseteq {card[k].run : k \in widened}

\* Scopes, runs, cards, and humans are interchangeable; killAgent is not a human.
Symmetry == Permutations(Scopes) \cup Permutations(Runs) \cup Permutations(Cards)
              \cup Permutations(Humans)
================================================================================
