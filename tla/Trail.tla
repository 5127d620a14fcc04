--------------------------------- MODULE Trail ---------------------------------
(***************************************************************************)
(* What is told, and what is on record: the order in which the gateway       *)
(* (gateway.ts), the model proxy (llm-proxy.ts) and the end of a run         *)
(* (executeRun) act, write the audit row (audit.ts) and answer, when writes   *)
(* fail and the server restarts; and the screen (ifc.ts, classify.ts) that a  *)
(* run's output passes before it becomes a chat message.                      *)
(*                                                                          *)
(* Whether policy refuses a call is in Gateway: here it may, or may not.      *)
(***************************************************************************)
EXTENDS Naturals, Sequences, FiniteSets

CONSTANTS Runs, Calls,
          Docs,            \* what a call can read: files, CRM rows
          Secret,          \* those a detector of SECRET_PATTERNS matches
          Short,           \* those of fewer than six words
          Borrowed,        \* those of another agent's workspace or the CRM
          None,
          Cap,             \* the rows the trail keeps (5000)
          MaxFailures,     \* bound: store writes that fail
          MaxRestarts      \* bound: restarts

ASSUME TrailConstants ==
  /\ Secret \subseteq Docs /\ Borrowed \subseteq Docs /\ Short \subseteq Docs /\ None \notin Docs
  /\ Cap \in Nat \ {0} /\ MaxFailures \in Nat /\ MaxRestarts \in Nat
  /\ Runs \cap Calls = {} /\ None \notin {"policy", "unavailable"}

VARIABLES
  run,             \* runs: phase, the output screened, what is stored of it
  call,            \* calls: pc, run, kind, what it reads, whether it took effect
  index,           \* the fingerprints of each run: what it read that is kept there
  trail,           \* the rows of the store, oldest first
  dropped,         \* history: rows the cap has removed
  heard,           \* history: what each run was answered before its output was screened
  failures, restarts

vars == <<run, call, index, trail, dropped, heard, failures, restarts>>

Kinds == {"read", "write", "send", "model"}

Levels == [public |-> 0, internal |-> 1, confidential |-> 2, secret |-> 3]
Limit  == Levels.confidential                \* outputMaxLevel

-----------------------------------------------------------------------------
(* classify.ts and ifc.ts.  An output is any parts of documents: six or more   *)
(* words in a row of a long one, as they stand; fewer words, or words          *)
(* reworded, of any; the keys a detector matches.                              *)

Passage(d)  == [doc |-> d, part |-> "passage"]
Scrap(d)    == [doc |-> d, part |-> "scrap"]
Key(d)      == [doc |-> d, part |-> "key"]
Parts       == {Passage(d) : d \in Docs \ Short} \cup {Scrap(d) : d \in Docs} \cup {Key(d) : d \in Secret}
PartsOf(d)  == {p \in Parts : p.doc = d}

Highest(levels) == CHOOSE l \in levels : \A k \in levels : k <= l

DetectLevel(parts) == IF \E p \in parts : p.part = "key" THEN Levels.secret ELSE Levels.public

Base(d)     == IF d \in Borrowed THEN Levels.confidential ELSE Levels.internal
Classify(d) == Highest({Base(d), DetectLevel(PartsOf(d))})

\* Mutant: the agent's own files never leave fingerprints.
FingerprintedBorrowed(d) == d \in Borrowed

\* The agent's own files leave fingerprints only when they are secret.
Fingerprinted(d) == d \in Borrowed \/ Classify(d) = Levels.secret

\* shingles: each six words in a row of a document leave a hash, and a short document, of
\* twelve characters or more, that of its whole text: only an output that is this text and
\* nothing else (`alone`) has the same.  A shorter one leaves none, and is never `alone`.
Matches(r, out, alone) == {d \in index[r] : Passage(d) \in out \/ d = alone}

\* matchOrigin: the highest level of a read that is matched.
OriginLevel(r, out, alone) ==
  Highest({Classify(d) : d \in Matches(r, out, alone)} \cup {Levels.public})

\* screenOutput
Screen(r, out, alone) ==
  LET origin == OriginLevel(r, out, alone)
      level  == Highest({origin, DetectLevel(out)})
      Passed(verdict, kept) == [verdict |-> verdict, out |-> kept, alone |-> alone]
  IN CASE level <= Limit  -> Passed("allow", out)
       [] origin > Limit  -> Passed("block", {})
       [] OTHER           -> Passed("redact", {p \in out : p.part # "key"})

-----------------------------------------------------------------------------
NoCall == [pc |-> "idle", run |-> None, kind |-> None, doc |-> None, acted |-> FALSE, missed |-> FALSE]
Begun  == [phase |-> "running", screened |-> None, stored |-> None]

Init ==
  /\ run = [r \in Runs |-> Begun]
  /\ call = [c \in Calls |-> NoCall]
  /\ index = [r \in Runs |-> {}]
  /\ trail = <<>> /\ dropped = {}
  /\ heard = [r \in Runs |-> {}]
  /\ failures = 0 /\ restarts = 0

\* recordEvent: the row is appended, and the oldest goes when there are too many.
Record(row) ==
  LET longer == Append(trail, row)
  IN /\ trail' = IF Len(longer) > Cap THEN Tail(longer) ELSE longer
     /\ dropped' = IF Len(longer) > Cap THEN dropped \cup {Head(longer)} ELSE dropped
     /\ UNCHANGED failures

\* A store write fails, and says so.
WriteFails == failures < MaxFailures /\ failures' = failures + 1 /\ UNCHANGED <<trail, dropped>>
NoWrite    == UNCHANGED <<trail, dropped, failures>>

-----------------------------------------------------------------------------
(* Calls.                                                                     *)

Step(c, from, to) == call[c].pc = from /\ call' = [call EXCEPT ![c].pc = to]
OfCalls           == UNCHANGED <<run, restarts>>

\* A tool call, or a request for the model, of a run.
Begin(c, r, kind, d) ==
  /\ call[c].pc = "idle" /\ run[r].phase = "running"
  /\ (kind = "read") = (d # None)
  /\ call' = [call EXCEPT ![c] = [NoCall EXCEPT !.pc = "gate", !.run = r, !.kind = kind, !.doc = d]]
  /\ UNCHANGED <<index, heard>> /\ NoWrite /\ OfCalls

\* The token is dead, or policy refuses.
Deny(c) == Step(c, "gate", "denying") /\ UNCHANGED <<index, heard>> /\ NoWrite /\ OfCalls

\* Mutant: a tool that fails is taken to have answered.
ActOrSwallow(c) ==
  \E to \in {IF call[c].kind = "read" THEN "tainting" ELSE "auditing"}, done \in BOOLEAN :
    /\ call[c].pc = "gate"
    /\ call' = [call EXCEPT ![c].pc = to, ![c].acted = done]
    /\ UNCHANGED <<index, heard>> /\ NoWrite /\ OfCalls

\* The tool or the model does what it was asked.  It may yet fail, having done it.
Act(c) ==
  \E to \in {IF call[c].kind = "read" THEN "tainting" ELSE "auditing", "failing"} :
    /\ call[c].pc = "gate"
    /\ call' = [call EXCEPT ![c].pc = to, ![c].acted = call[c].kind # "model" \/ to = "auditing"]
    /\ UNCHANGED <<index, heard>> /\ NoWrite /\ OfCalls

\* The model's provider answers that it will not: its answer is relayed.
Refuse(c) ==
  /\ call[c].kind = "model" /\ Step(c, "gate", "refusing")
  /\ UNCHANGED <<index, heard>> /\ NoWrite /\ OfCalls

\* It fails without.
ActFails(c) == Step(c, "gate", "failing") /\ UNCHANGED <<index, heard>> /\ NoWrite /\ OfCalls

\* What was read taints the token, in the store, then leaves its fingerprints, in memory.
Taint(c) ==
  LET r == call[c].run d == call[c].doc
  IN \/ /\ Step(c, "tainting", "auditing")
        /\ index' = [index EXCEPT ![r] = IF Fingerprinted(d) THEN @ \cup {d} ELSE @]
        /\ UNCHANGED heard /\ NoWrite /\ OfCalls
     \/ /\ Step(c, "tainting", "failing") /\ d \in Borrowed
        /\ WriteFails /\ UNCHANGED <<index, heard>> /\ OfCalls

Row(c, decision, reason) == [of |-> c, decision |-> decision, reason |-> reason]

Told(c) == IF call[c].kind = "read" /\ run[call[c].run].screened = None
           THEN [heard EXCEPT ![call[c].run] = @ \cup {call[c].doc}] ELSE heard

\* Mutant: the row is not awaited.
AuditUnawaited(c) ==
  /\ Step(c, "auditing", "allowed")
  /\ Record(Row(c, "allow", None)) \/ WriteFails
  /\ heard' = Told(c) /\ UNCHANGED index /\ OfCalls

\* The row, then the answer.
Audit(c) ==
  \/ /\ Step(c, "auditing", "allowed") /\ Record(Row(c, "allow", None))
     /\ heard' = Told(c) /\ UNCHANGED index /\ OfCalls
  \/ /\ call[c].pc = "auditing" /\ WriteFails
     /\ call' = [call EXCEPT ![c].pc = "failing", ![c].missed = TRUE]
     /\ UNCHANGED <<index, heard>> /\ OfCalls

AuditDeny(c) ==
  /\ \/ Step(c, "denying", "denied") /\ Record(Row(c, "deny", "policy"))
     \/ Step(c, "denying", "unanswered") /\ WriteFails
  /\ UNCHANGED <<index, heard>> /\ OfCalls

\* A row of a refusal that cannot be written is taken, too, for the model being unavailable.
AuditRefusal(c) ==
  /\ \/ Step(c, "refusing", "refused") /\ Record(Row(c, "deny", "status"))
     \/ Step(c, "refusing", "failing") /\ WriteFails
  /\ UNCHANGED <<index, heard>> /\ OfCalls

\* "error" of a tool, "upstream-unavailable" of the model.
ErrorRow(c) == Row(c, "deny", IF call[c].kind = "model" THEN "unavailable" ELSE "error")

\* Whatever was thrown.
AuditError(c) ==
  /\ \/ Step(c, "failing", "failed") /\ Record(ErrorRow(c))
     \/ Step(c, "failing", "unanswered") /\ WriteFails
  /\ UNCHANGED <<index, heard>> /\ OfCalls

-----------------------------------------------------------------------------
(* The end of a run.                                                          *)

OfRuns == UNCHANGED <<call, index, heard, restarts>>

\* The process ends with an output: anything the model knows, wherever from, or a short
\* document and nothing else.  (One under 12 characters leaves no hash: `alone` is None.)
Output(r) ==
  \E out \in SUBSET Parts, alone \in Short \cup {None} :
    LET s == Screen(r, out, alone)
    IN /\ alone # None => out = PartsOf(alone)
       /\ run[r].phase = "running"
       /\ run' = [run EXCEPT ![r].phase = IF s.verdict = "allow" THEN "storing" ELSE "withholding",
                             ![r].screened = s]
       /\ NoWrite /\ OfRuns

\* The deny row of an output withheld comes before anything is stored.
AuditOutput(r) ==
  /\ run[r].phase = "withholding"
  /\ \/ /\ Record([of |-> r, decision |-> "deny", reason |-> run[r].screened.verdict])
        /\ run' = [run EXCEPT ![r].phase = "storing"]
     \/ WriteFails /\ run' = [run EXCEPT ![r].phase = "failed"]
  /\ OfRuns

Store(r) ==
  /\ run[r].phase = "storing"
  /\ \/ NoWrite /\ run' = [run EXCEPT ![r].phase = "completed", ![r].stored = run[r].screened]
     \/ WriteFails /\ run' = [run EXCEPT ![r].phase = "failed"]
  /\ OfRuns

\* Cancelled, timed out, failed.
Fail(r) ==
  /\ run[r].phase = "running" /\ run' = [run EXCEPT ![r].phase = "failed"]
  /\ NoWrite /\ OfRuns

\* Runs under way are failed; calls under way are never answered.
Restart ==
  /\ restarts < MaxRestarts /\ restarts' = restarts + 1
  /\ run' = [r \in Runs |-> IF run[r].phase \in {"running", "withholding", "storing"}
                            THEN [run[r] EXCEPT !.phase = "failed"] ELSE run[r]]
  /\ call' = [c \in Calls |-> IF call[c].pc \in {"gate", "denying", "tainting", "auditing", "refusing", "failing"}
                              THEN [call[c] EXCEPT !.pc = "unanswered"] ELSE call[c]]
  /\ UNCHANGED <<index, heard>> /\ NoWrite

Next ==
  \/ \E c \in Calls :
       \/ \E r \in Runs, kind \in Kinds, d \in Docs \cup {None} : Begin(c, r, kind, d)
       \/ Deny(c) \/ Act(c) \/ Refuse(c) \/ ActFails(c) \/ Taint(c)
       \/ Audit(c) \/ AuditDeny(c) \/ AuditRefusal(c) \/ AuditError(c)
  \/ \E r \in Runs : Output(r) \/ AuditOutput(r) \/ Store(r) \/ Fail(r)
  \/ Restart

Spec == Init /\ [][Next]_vars

-----------------------------------------------------------------------------
(* Properties.                                                                *)

Rows == {trail[i] : i \in 1..Len(trail)}

\* No chat message holds what a detector matches.  Of a secret document that the gateway
\* answered the run it holds no six words in a row, and nothing when the output was the text
\* of a short one (and of twelve characters or more) alone, whatever calls were under way when
\* the output came.  Fewer words, and a short document among others, pass without their keys.
SecretsStayOut ==
  \A r \in Runs : run[r].stored # None =>
    LET s == run[r].stored
        told == heard[r] \cap Secret
    IN /\ \A p \in s.out : p.part # "key" /\ (p.part = "passage" => p.doc \notin told)
       /\ s.alone \in told => s.out = {}

\* What is answered, an error too, to an agent or in the chat, was put on record first: by a
\* row that is there, or that the cap has dropped.  (The proxy answers without a row where no
\* token names a run, and where there is no key for the model: neither is a call here.)
AnsweredIsOnRecord ==
  /\ \A c \in Calls :
       /\ call[c].pc = "allowed" => Row(c, "allow", None) \in Rows \cup dropped
       /\ call[c].pc = "refused" => Row(c, "deny", "status") \in Rows \cup dropped
       /\ call[c].pc = "denied"  => Row(c, "deny", "policy") \in Rows \cup dropped
       /\ call[c].pc = "failed"  => ErrorRow(c) \in Rows \cup dropped
  /\ \A r \in Runs : run[r].stored # None /\ run[r].stored.verdict # "allow" =>
       \E row \in Rows \cup dropped : row.of = r

\* A row tells what happened: allowed is done, denied by policy is not, and a model said to
\* be unavailable did not answer, unless the row of its answer could not be written.
RowsTellTheTruth ==
  \A row \in Rows : row.of \in Calls =>
    LET c == call[row.of]
    IN /\ row.decision = "allow" => c.acted
       /\ row.reason = "policy" => ~c.acted
       /\ row.reason = "unavailable" => ~c.acted \/ c.missed
================================================================================
