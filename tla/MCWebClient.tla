------------------------------ MODULE MCWebClient ------------------------------
(* Small instances of WebClient. *)
EXTENDS WebClient

CONSTANTS u1, u2, a1, a2, b1, c1, c2

MCOwner == [a \in Agents |-> IF a = b1 THEN u2 ELSE u1]
MCAbout == [c \in Cards |-> IF c = c1 THEN a1 ELSE a2]

\* Bounds: three requests under way, one of them of an earlier session; an answer is lost
\* where files are followed, and one agent of the first user deleted where runs are, with
\* no scopes left by an earlier session; nothing runs for the second user.
AtWork ==
  /\ Cardinality({q \in net : q.kind # "closing"}) <= 3
  /\ Cardinality({q \in net : ~q.live}) <= 1
  /\ failures = 0 \/ panel = "files"

Deletions ==
  \A a \in Agents :
    life[a] = "deleted" => panel = "run" /\ a # b1 /\ life[a1] # life[a2] /\ page.left = {}

\* Both agents have had a run only where none was deleted and no scopes are left.
Runs ==
  /\ runs[b1] = 0 /\ rows[b1] = 0
  /\ page.left # {} \/ (\E a \in Agents : life[a] = "deleted") => runs[a1] = 0 \/ runs[a2] = 0

\* Both cards are there only with one pending, and no request of an earlier session under way.
BothCards ==
  (\A c \in Cards : cards[c] # "none") => /\ \E c \in Cards : cards[c] = "pending"
                                          /\ \A q \in net : q.live

Few == AtWork /\ Deletions /\ Runs /\ BothCards
================================================================================
