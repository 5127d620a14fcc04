----------------------------- MODULE Trail_proofs ------------------------------
(***************************************************************************)
(* Proofs about Trail, for any number of runs, calls, documents, failures    *)
(* and restarts, and any cap.                                                *)
(***************************************************************************)
EXTENDS Trail, TLAPS

Over   == {"allowed", "denied", "refused", "failed", "unanswered"}
Open   == {"gate", "denying", "tainting", "auditing", "refusing", "failing"}
Phases == {"running", "withholding", "storing", "completed", "failed"}

Screened == [verdict : {"allow", "block", "redact"}, out : SUBSET Parts, alone : Short \cup {None}]
Reasons  == {None, "policy", "status", "error", "unavailable", "allow", "block", "redact"}
RowSet   == [of : Calls \cup Runs, decision : {"allow", "deny"}, reason : Reasons]
RunSet   == [phase : Phases, screened : Screened \cup {None}, stored : Screened \cup {None}]
CallSet  == [pc : {"idle"} \cup Open \cup Over, run : Runs \cup {None}, kind : Kinds \cup {None},
             doc : Docs \cup {None}, acted : BOOLEAN, missed : BOOLEAN]

\* Every variable has its type.
TypeInv ==
  /\ run \in [Runs -> RunSet] /\ call \in [Calls -> CallSet]
  /\ index \in [Runs -> SUBSET Docs] /\ heard \in [Runs -> SUBSET Docs]
  /\ trail \in Seq(RowSet) /\ dropped \subseteq RowSet
  /\ failures \in Nat /\ restarts \in Nat

\* Rows ever written.
Written == Rows \cup dropped

\* What a call k has done where it stands.
Consistent(k) ==
  /\ k.pc \in Open => k.run \in Runs /\ (k.kind = "read" => k.doc \in Docs)
  /\ k.pc \in {"gate", "denying", "refusing"} => ~k.acted
  /\ k.pc = "tainting" => k.kind = "read"
  /\ k.pc \in {"tainting", "auditing"} => k.acted
  /\ k.pc = "failing" /\ k.kind = "model" => ~k.acted \/ k.missed

\* A row is true of the call k it is about.
Tells(row, k) ==
  /\ row.decision = "allow" => k.acted
  /\ row.reason = "policy" => ~k.acted
  /\ row.reason = "unavailable" => ~k.acted \/ k.missed

\* The answer to call c, if k is one, is among the rows W.
OnRecord(c, k, W) ==
  /\ k.pc = "allowed" => Row(c, "allow", None) \in W
  /\ k.pc = "refused" => Row(c, "deny", "status") \in W
  /\ k.pc = "denied"  => Row(c, "deny", "policy") \in W
  /\ k.pc = "failed"  => Row(c, "deny", IF k.kind = "model" THEN "unavailable" ELSE "error") \in W

\* Once the output of a run is screened, no passage of a secret it was answered is in it, nor
\* such a secret alone; what is stored was screened, and is among the rows W if it was not
\* let through.
CleanPart(r, p) == p.part # "key" /\ (p.part = "passage" => p.doc \notin heard[r] \cap Secret)

Clean(r, s) ==
  /\ \A p \in s.out : CleanPart(r, p)
  /\ s.alone \in heard[r] \cap Secret => s.out = {}

Withheld(r, s, W) == s.verdict # "allow" => \E row \in W : row.of = r

Screening(r, n, W) ==
  /\ n.phase = "running" => n.screened = None
  /\ n.phase \in {"withholding", "storing"} => n.screened \in Screened
  /\ n.phase = "storing" => Withheld(r, n.screened, W)
  /\ n.stored # None => n.stored = n.screened /\ Withheld(r, n.stored, W)
  /\ n.screened # None => Clean(r, n.screened)

CallInv   == \A c \in Calls : Consistent(call[c]) /\ OnRecord(c, call[c], Written)
RunInv    == \A r \in Runs : Screening(r, run[r], Written)

\* A call has a row when it is over, and not before; and its row is true.
RowInv ==
  \A row \in Written : row.of \in Calls => call[row.of].pc \in Over /\ Tells(row, call[row.of])

\* What is about to be answered, and what was, has left its fingerprints if it is secret.
PrintInv ==
  /\ \A c \in Calls :
       call[c].pc = "auditing" /\ call[c].kind = "read" /\ call[c].doc \in Secret
         => call[c].doc \in index[call[c].run]
  /\ \A r \in Runs : heard[r] \cap Secret \subseteq index[r]

IInv == TypeInv /\ CallInv /\ RunInv /\ RowInv /\ PrintInv

-----------------------------------------------------------------------------
(* Levels and the screen.                                                     *)

LEMMA HighestIsHighest ==
  ASSUME NEW S \in SUBSET (0..3), S # {}
  PROVE  Highest(S) \in S /\ \A k \in S : k <= Highest(S)
  <1>1. \E l \in S : \A k \in S : k <= l
    <2>1. CASE 3 \in S BY <2>1
    <2>2. CASE 3 \notin S /\ 2 \in S BY <2>2
    <2>3. CASE 3 \notin S /\ 2 \notin S /\ 1 \in S BY <2>3
    <2>4. CASE 3 \notin S /\ 2 \notin S /\ 1 \notin S
      <3>1. \A k \in S : k = 0 BY <2>4
      <3>2. PICK k \in S : TRUE OBVIOUS
      <3> QED BY <3>1, <3>2
    <2> QED BY <2>1, <2>2, <2>3, <2>4
  <1> QED BY <1>1 DEF Highest

LEMMA DetectIsLevel == ASSUME NEW P PROVE DetectLevel(P) \in {0, 3}
  BY DEF DetectLevel, Levels

LEMMA ClassifyIsLevel ==
  ASSUME NEW d \in Docs PROVE Classify(d) \in 0..3 /\ (d \in Secret => Classify(d) = 3)
  <1> DEFINE S == {Base(d), DetectLevel(PartsOf(d))}
  <1>1. S \in SUBSET (0..3) /\ S # {} BY DetectIsLevel DEF Base, Levels
  <1>2. Highest(S) \in S /\ \A k \in S : k <= Highest(S) BY <1>1, HighestIsHighest
  <1>3. ASSUME d \in Secret PROVE DetectLevel(PartsOf(d)) = 3
    <2>1. Key(d) \in PartsOf(d) /\ Key(d).part = "key" BY <1>3 DEF Key, Parts, PartsOf
    <2> QED BY <2>1 DEF DetectLevel, Levels
  <1> HIDE DEF S
  <1>4. Classify(d) = Highest(S) BY DEF Classify, S
  <1>5. d \in Secret => 3 \in S BY <1>3 DEF S
  <1>6. Classify(d) \in 0..3 BY <1>1, <1>2, <1>4
  <1>7. ASSUME d \in Secret PROVE Classify(d) = 3
    <2>1. Highest(S) \in 0..3 BY <1>1, <1>2
    <2>2. 3 <= Highest(S) BY <1>7, <1>5, <1>2
    <2> QED BY <2>1, <2>2, <1>4
  <1> QED BY <1>6, <1>7

LEMMA OriginIsLevel ==
  ASSUME TypeInv, NEW r \in Runs, NEW out, NEW alone
  PROVE  /\ OriginLevel(r, out, alone) \in 0..3
         /\ \A d \in index[r] \cap Secret :
              Passage(d) \in out \/ d = alone => OriginLevel(r, out, alone) = 3
  <1> DEFINE S == {Classify(d) : d \in Matches(r, out, alone)} \cup {Levels.public}
  <1>0. Matches(r, out, alone) \subseteq Docs BY DEF Matches, TypeInv
  <1>1. S \in SUBSET (0..3) /\ S # {} BY <1>0, ClassifyIsLevel DEF Levels
  <1>2. Highest(S) \in S /\ \A k \in S : k <= Highest(S) BY <1>1, HighestIsHighest
  <1>3. ASSUME NEW d \in index[r] \cap Secret, Passage(d) \in out \/ d = alone PROVE 3 \in S
    <2>1. d \in Matches(r, out, alone) BY <1>3 DEF Matches
    <2> QED BY <2>1, <1>0, ClassifyIsLevel
  <1> HIDE DEF S
  <1>4. OriginLevel(r, out, alone) = Highest(S) BY DEF OriginLevel, S
  <1>5. Highest(S) \in 0..3 BY <1>1, <1>2
  <1>6. ASSUME NEW d \in index[r] \cap Secret, Passage(d) \in out \/ d = alone
        PROVE  OriginLevel(r, out, alone) = 3
    <2>1. 3 <= Highest(S) BY <1>3, <1>6, <1>2
    <2> QED BY <2>1, <1>4, <1>5
  <1> QED BY <1>4, <1>5, <1>6

\* An output that passes the screen, whatever is left of it, is clean.
LEMMA ScreenCleans ==
  ASSUME TypeInv, PrintInv, NEW r \in Runs, NEW out \in SUBSET Parts, NEW alone \in Short \cup {None}
  PROVE  Screen(r, out, alone) \in Screened /\ Clean(r, Screen(r, out, alone))
  <1> DEFINE O == OriginLevel(r, out, alone)
             D == DetectLevel(out)
             level == Highest({O, D})
             Passed(verdict, kept) == [verdict |-> verdict, out |-> kept, alone |-> alone]
             kept == {p \in out : p.part # "key"}
  <1>1. O \in 0..3 /\ D \in {0, 3} BY OriginIsLevel, DetectIsLevel
  <1>2. level \in {O, D} /\ O <= level /\ D <= level
    <2>1. {O, D} \in SUBSET (0..3) /\ {O, D} # {} BY <1>1
    <2> HIDE DEF O, D
    <2> QED BY <2>1, HighestIsHighest
  <1>3. ASSUME O <= 2, NEW p \in out, p.part # "key" PROVE CleanPart(r, p)
    <2>1. SUFFICES ASSUME p.part = "passage", p.doc \in heard[r] \cap Secret PROVE FALSE
      BY <1>3 DEF CleanPart
    <2>2. PICK d \in Docs : p = Passage(d) BY <2>1 DEF Parts, Passage, Scrap, Key
    <2>3. d \in index[r] \cap Secret /\ Passage(d) \in out BY <2>1, <2>2 DEF PrintInv, Passage
    <2> QED BY <2>3, <1>3, OriginIsLevel
  <1>4. O <= 2 => alone \notin heard[r] \cap Secret
    <2>1. SUFFICES ASSUME O <= 2, alone \in heard[r] \cap Secret PROVE FALSE OBVIOUS
    <2>2. alone \in index[r] \cap Secret BY <2>1 DEF PrintInv
    <2> QED BY <2>1, <2>2, OriginIsLevel
  <1>5. D <= 2 => \A p \in out : p.part # "key" BY DEF DetectLevel, Levels
  <1>6. Limit = 2 BY DEF Limit, Levels
  <1>7. Screen(r, out, alone) = CASE level <= Limit -> Passed("allow", out)
                                  [] O > Limit      -> Passed("block", {})
                                  [] OTHER          -> Passed("redact", kept)
    BY DEF Screen
  <1> HIDE DEF O, D, level
  <1>8. CASE level <= 2
    <2>1. Screen(r, out, alone) = Passed("allow", out) BY <1>6, <1>7, <1>8, <1>1, <1>2
    <2>2. O <= 2 /\ D <= 2 BY <1>8, <1>1, <1>2
    <2> QED BY <2>1, <2>2, <1>3, <1>4, <1>5 DEF Clean, Screened
  <1>9. CASE ~(level <= 2) /\ O > 2
    <2>1. Screen(r, out, alone) = Passed("block", {}) BY <1>6, <1>7, <1>9
    <2> QED BY <2>1 DEF Clean, Screened
  <1>10. CASE ~(level <= 2) /\ ~(O > 2)
    <2>1. Screen(r, out, alone) = Passed("redact", kept) BY <1>6, <1>7, <1>10
    <2>2. O <= 2 BY <1>10, <1>1
    <2>3. \A p \in kept : CleanPart(r, p) BY <2>2, <1>3
    <2>4. kept \in SUBSET Parts OBVIOUS
    <2> HIDE DEF kept
    <2> QED BY <2>1, <2>2, <2>3, <2>4, <1>4 DEF Clean, Screened
  <1> QED BY <1>8, <1>9, <1>10

-----------------------------------------------------------------------------
(* The trail.                                                                 *)

\* recordEvent adds the row and forgets nothing.
LEMMA RecordWrites ==
  ASSUME TypeInv, NEW row \in RowSet, Record(row)
  PROVE  /\ Written' = Written \cup {row}
         /\ trail' \in Seq(RowSet) /\ dropped' \subseteq RowSet /\ failures' = failures
  <1> DEFINE longer == Append(trail, row)
             n == Len(trail)
  <1>1. trail \in Seq(RowSet) /\ dropped \subseteq RowSet /\ n \in Nat BY DEF TypeInv
  <1>2. longer \in Seq(RowSet) /\ Len(longer) = n + 1 /\ longer # <<>> BY <1>1
  <1>3. \A i \in 1..n : longer[i] = trail[i] BY <1>1
  <1>4. longer[n + 1] = row BY <1>1
  <1>5. {longer[i] : i \in 1..(n + 1)} = Rows \cup {row} BY <1>1, <1>3, <1>4 DEF Rows
  <1>6. Tail(longer) \in Seq(RowSet) /\ Len(Tail(longer)) = n /\ Head(longer) = longer[1]
        /\ \A i \in 1..n : Tail(longer)[i] = longer[i + 1]
    BY <1>1, <1>2
  <1>7. {longer[i] : i \in 1..(n + 1)} = {Head(longer)} \cup {Tail(longer)[i] : i \in 1..n}
    <2>1. ASSUME NEW i \in 1..(n + 1) PROVE longer[i] \in {Head(longer)} \cup {Tail(longer)[j] : j \in 1..n}
      <3>1. CASE i = 1 BY <3>1, <1>6
      <3>2. CASE i # 1
        <4>1. i - 1 \in 1..n /\ Tail(longer)[i - 1] = longer[i] BY <3>2, <1>1, <1>6
        <4> QED BY <4>1
      <3> QED BY <3>1, <3>2
    <2>2. ASSUME NEW i \in 1..n PROVE Tail(longer)[i] \in {longer[j] : j \in 1..(n + 1)}
      <3>1. i + 1 \in 1..(n + 1) BY <1>1
      <3> QED BY <3>1, <1>6
    <2>3. Head(longer) \in {longer[j] : j \in 1..(n + 1)} BY <1>1, <1>6
    <2> QED BY <2>1, <2>2, <2>3
  <1>8. Head(longer) \in RowSet
    <2>1. 1 \in 1..Len(longer) BY <1>1, <1>2
    <2> QED BY <2>1, <1>2, <1>6
  <1> HIDE DEF longer
  <1>9. /\ trail' = IF Len(longer) > Cap THEN Tail(longer) ELSE longer
        /\ dropped' = IF Len(longer) > Cap THEN dropped \cup {Head(longer)} ELSE dropped
        /\ failures' = failures
    BY DEF Record, longer
  <1>10. CASE Len(longer) > Cap
    <2>1. Rows' = {Tail(longer)[i] : i \in 1..n} BY <1>6, <1>9, <1>10 DEF Rows
    <2>2. dropped' = dropped \cup {Head(longer)} BY <1>9, <1>10
    <2>3. Rows' \cup {Head(longer)} = Rows \cup {row} BY <2>1, <1>5, <1>7
    <2> QED BY <2>2, <2>3, <1>1, <1>6, <1>8, <1>9, <1>10 DEF Written
  <1>11. CASE ~(Len(longer) > Cap)
    <2>1. Rows' = {longer[i] : i \in 1..(n + 1)} BY <1>2, <1>9, <1>11 DEF Rows
    <2> QED BY <2>1, <1>1, <1>2, <1>5, <1>9, <1>11 DEF Written
  <1> QED BY <1>10, <1>11

\* A step that writes nothing, or fails to.
LEMMA NothingWritten ==
  ASSUME TypeInv, trail' = trail, dropped' = dropped
  PROVE  Written' = Written /\ trail' \in Seq(RowSet) /\ dropped' \subseteq RowSet
  BY DEF Written, Rows, TypeInv

-----------------------------------------------------------------------------
(* The steps: what a call, or a run, becomes.                                 *)

\* Rows once written stay so, and the new ones are about what moved.
Adds(of) ==
  \/ trail' = trail /\ dropped' = dropped
  \/ \E row \in RowSet : Record(row) /\ row.of = of

LEMMA Grows ==
  ASSUME TypeInv, NEW of, Adds(of)
  PROVE  /\ trail' \in Seq(RowSet) /\ dropped' \subseteq RowSet
         /\ Written \subseteq Written'
         /\ \A row \in Written' : row \in Written \/ (row \in RowSet /\ row.of = of)
  <1>1. CASE trail' = trail /\ dropped' = dropped BY <1>1, NothingWritten
  <1>2. CASE \E row \in RowSet : Record(row) /\ row.of = of
    <2>1. PICK row \in RowSet : Record(row) /\ row.of = of BY <1>2
    <2> QED BY <2>1, RecordWrites
  <1> QED BY <1>1, <1>2 DEF Adds

\* A call moves: it becomes k.
LEMMA CallMoves ==
  ASSUME IInv, NEW c \in Calls, NEW k \in CallSet, Consistent(k),
         call[c].pc \notin Over, call' = [call EXCEPT ![c] = k],
         UNCHANGED <<run, restarts>>, failures' \in Nat,
         Adds(c), OnRecord(c, k, Written'),
         \A row \in Written' : row.of = c => k.pc \in Over /\ Tells(row, k),
         index' \in [Runs -> SUBSET Docs], heard' \in [Runs -> SUBSET Docs],
         k.pc = "auditing" /\ k.kind = "read" /\ k.doc \in Secret => k.doc \in index'[k.run],
         \A r \in Runs : /\ index[r] \subseteq index'[r]
                         /\ heard'[r] \cap Secret \subseteq index'[r]
                         /\ run[r].screened # None => heard'[r] = heard[r]
  PROVE  IInv'
  <1>1. TypeInv' BY Grows DEF IInv, TypeInv
  <1>2. Written \subseteq Written' /\ \A row \in Written' : row \in Written \/ row.of = c
    BY Grows DEF IInv
  <1>3. /\ \A d \in Calls : call'[d] = IF d = c THEN k ELSE call[d]
    BY DEF IInv, TypeInv
  <1>4. CallInv'
    <2>1. \A d \in Calls \ {c} : OnRecord(d, call[d], Written')
      BY <1>2 DEF IInv, CallInv, OnRecord
    <2>2. \A d \in Calls : Consistent(call'[d]) /\ OnRecord(d, call'[d], Written')
      BY <1>3, <2>1 DEF IInv, CallInv
    <2> QED BY <2>2 DEF CallInv, Consistent, OnRecord, Row
  <1>5. RunInv'
    <2>1. ASSUME NEW r \in Runs PROVE Screening(r, run[r], Written)'
      <3>1. Screening(r, run[r], Written) BY DEF IInv, RunInv
      <3>2. run'[r] = run[r] OBVIOUS
      <3>3. run[r].screened # None => heard'[r] = heard[r] OBVIOUS
      <3> QED BY <3>1, <3>2, <3>3, <1>2 DEF Screening, Clean, CleanPart, Withheld
    <2> QED BY <2>1 DEF RunInv
  <1>6. RowInv'
    <2>1. ASSUME NEW row \in Written', row.of \in Calls
          PROVE  call'[row.of].pc \in Over /\ Tells(row, call'[row.of])
      <3>1. CASE row.of = c BY <3>1, <1>3
      <3>2. CASE row.of # c
        <4>1. row \in Written BY <3>2, <1>2
        <4>2. call[row.of].pc \in Over /\ Tells(row, call[row.of]) BY <4>1, <2>1 DEF IInv, RowInv
        <4> QED BY <4>2, <3>2, <2>1, <1>3
      <3> QED BY <3>1, <3>2
    <2> QED BY <2>1 DEF RowInv, Tells
  <1>7. PrintInv'
    <2>1. ASSUME NEW d \in Calls,
                 call'[d].pc = "auditing", call'[d].kind = "read", call'[d].doc \in Secret
          PROVE  call'[d].doc \in index'[call'[d].run]
      <3>1. CASE d = c BY <3>1, <2>1, <1>3
      <3>2. CASE d # c
        <4>1. call'[d] = call[d] BY <3>2, <1>3
        <4>2. call[d].doc \in index[call[d].run] BY <4>1, <2>1 DEF IInv, PrintInv
        <4>3. call[d].run \in Runs BY <4>1, <2>1 DEF IInv, CallInv, Consistent, Open
        <4> QED BY <4>1, <4>2, <4>3
      <3> QED BY <3>1, <3>2
    <2> QED BY <2>1 DEF PrintInv
  <1> QED BY <1>1, <1>4, <1>5, <1>6, <1>7 DEF IInv

\* A run moves: it becomes n.
LEMMA RunMoves ==
  ASSUME IInv, NEW r \in Runs, NEW n \in RunSet, run' = [run EXCEPT ![r] = n],
         UNCHANGED <<call, index, heard, restarts>>, failures' \in Nat,
         Adds(r), Screening(r, n, Written')
  PROVE  IInv'
  <1>1. TypeInv' BY Grows DEF IInv, TypeInv
  <1>2. Written \subseteq Written' /\ \A row \in Written' : row \in Written \/ row.of = r
    BY Grows DEF IInv
  <1>3. \A q \in Runs : run'[q] = IF q = r THEN n ELSE run[q] BY DEF IInv, TypeInv
  <1>4. CallInv' BY <1>2 DEF IInv, CallInv, Consistent, OnRecord, Row
  <1>5. RunInv'
    <2>1. ASSUME NEW q \in Runs PROVE Screening(q, run[q], Written)'
      <3>1. CASE q = r
        <4>1. run'[q] = n BY <3>1, <1>3
        <4> QED BY <3>1, <4>1 DEF Screening, Clean, CleanPart, Withheld
      <3>2. CASE q # r
        <4>1. run'[q] = run[q] BY <3>2, <1>3
        <4>2. Screening(q, run[q], Written) BY DEF IInv, RunInv
        <4> QED BY <4>1, <4>2, <1>2 DEF Screening, Clean, CleanPart, Withheld
      <3> QED BY <3>1, <3>2
    <2> QED BY <2>1 DEF RunInv
  <1>6. RowInv'
    <2>1. r \notin Calls BY TrailConstants
    <2>2. \A row \in Written' : row.of \in Calls => row \in Written BY <2>1, <1>2
    <2> QED BY <2>2 DEF IInv, RowInv, Tells
  <1>7. PrintInv' BY DEF IInv, PrintInv
  <1> QED BY <1>1, <1>4, <1>5, <1>6, <1>7 DEF IInv

-----------------------------------------------------------------------------
(* The actions of a call.                                                     *)

LEMMA NoRowYet ==
  ASSUME IInv, NEW c \in Calls, call[c].pc \notin Over
  PROVE  \A row \in Written : row.of # c
  BY DEF IInv, RowInv

\* It moves, and nothing is written, printed or told.
LEMMA MovesQuietly ==
  ASSUME IInv, NEW c \in Calls, NEW k \in CallSet, Consistent(k),
         call[c].pc \notin Over, call' = [call EXCEPT ![c] = k],
         k.pc \notin {"allowed", "refused", "denied", "failed"}, k.pc = "auditing" => k.kind # "read",
         trail' = trail, dropped' = dropped, failures' \in Nat,
         UNCHANGED <<run, restarts, index, heard>>
  PROVE  IInv'
  <1>1. Written' = Written BY NothingWritten DEF IInv
  <1>2. \A row \in Written' : row.of # c BY <1>1, NoRowYet
  <1>3. Adds(c) BY DEF Adds
  <1>4. OnRecord(c, k, Written') BY DEF OnRecord
  <1>5. /\ index' \in [Runs -> SUBSET Docs] /\ heard' \in [Runs -> SUBSET Docs]
        /\ \A r \in Runs : /\ index[r] \subseteq index'[r]
                           /\ heard'[r] \cap Secret \subseteq index'[r]
                           /\ run[r].screened # None => heard'[r] = heard[r]
    BY DEF IInv, TypeInv, PrintInv
  <1> QED BY <1>2, <1>3, <1>4, <1>5, CallMoves

\* It is over, and a row is written.
LEMMA MovesWithRow ==
  ASSUME IInv, NEW c \in Calls, NEW k \in CallSet, NEW row \in RowSet, Record(row),
         row.of = c, k.pc \in Over, Tells(row, k), OnRecord(c, k, {row}),
         call[c].pc \notin Over, call' = [call EXCEPT ![c] = k],
         UNCHANGED <<run, restarts, index>>,
         heard' \in [Runs -> SUBSET Docs],
         \A r \in Runs : /\ heard'[r] \cap Secret \subseteq index[r]
                         /\ run[r].screened # None => heard'[r] = heard[r]
  PROVE  IInv'
  <1>1. Written' = Written \cup {row} /\ failures' = failures BY RecordWrites DEF IInv
  <1>2. \A w \in Written' : w.of = c => w = row BY <1>1, NoRowYet
  <1>3. Adds(c) BY DEF Adds
  <1>4. OnRecord(c, k, Written') BY <1>1 DEF OnRecord
  <1>5. Consistent(k) /\ k.pc # "auditing" BY DEF Consistent, Over, Open
  <1>6. failures' \in Nat /\ index' \in [Runs -> SUBSET Docs] BY <1>1 DEF IInv, TypeInv
  <1> QED BY <1>2, <1>3, <1>4, <1>5, <1>6, CallMoves

LEMMA BeginKeeps ==
  ASSUME IInv, NEW c \in Calls, NEW r \in Runs, NEW kind \in Kinds, NEW d \in Docs \cup {None},
         Begin(c, r, kind, d)
  PROVE  IInv'
  <1> DEFINE k == [NoCall EXCEPT !.pc = "gate", !.run = r, !.kind = kind, !.doc = d]
  <1>1. k \in CallSet BY DEF NoCall, CallSet, Open
  <1>2. Consistent(k)
    <2>1. kind = "read" => d \in Docs BY DEF Begin
    <2> QED BY <2>1 DEF Consistent, NoCall
  <1>3. k.pc = "gate" BY DEF NoCall
  <1>4. call' = [call EXCEPT ![c] = k] /\ call[c].pc \notin Over BY DEF Begin, Over
  <1>5. /\ trail' = trail /\ dropped' = dropped /\ failures' \in Nat
        /\ UNCHANGED <<run, restarts, index, heard>>
    BY DEF Begin, NoWrite, OfCalls, IInv, TypeInv
  <1> HIDE DEF k
  <1> QED BY <1>1, <1>2, <1>3, <1>4, <1>5, MovesQuietly

\* Deny, Refuse and ActFails, and every write that fails, only change where a call stands.
LEMMA StepsQuietly ==
  ASSUME IInv, NEW c \in Calls, NEW from \in Open, NEW to \in {"denying", "refusing", "failing", "unanswered"},
         Step(c, from, to),
         to \in {"denying", "refusing"} => from = "gate",
         to = "failing" => from \in {"gate", "refusing"} \/ call[c].kind # "model",
         NoWrite \/ WriteFails, OfCalls, UNCHANGED <<index, heard>>
  PROVE  IInv'
  <1> DEFINE k == [call[c] EXCEPT !.pc = to]
  <1>1. call[c] \in CallSet /\ Consistent(call[c]) /\ call[c].pc = from
    BY DEF IInv, TypeInv, CallInv, Step
  <1>2. k \in CallSet BY <1>1 DEF CallSet, Open, Over
  <1>3. k.pc = to /\ k.run = call[c].run /\ k.kind = call[c].kind /\ k.doc = call[c].doc
        /\ k.acted = call[c].acted /\ k.missed = call[c].missed
    BY <1>1 DEF CallSet
  <1>4. call' = [call EXCEPT ![c] = k] BY DEF Step
  <1> HIDE DEF k
  <1>5. Consistent(k) BY <1>1, <1>3 DEF Consistent, Open
  <1>6. call[c].pc \notin Over BY <1>1 DEF Open, Over
  <1>7. /\ trail' = trail /\ dropped' = dropped /\ failures' \in Nat
        /\ UNCHANGED <<run, restarts, index, heard>>
    BY DEF NoWrite, WriteFails, OfCalls, IInv, TypeInv
  <1> QED BY <1>2, <1>3, <1>4, <1>5, <1>6, <1>7, MovesQuietly

LEMMA ActKeeps ==
  ASSUME IInv, NEW c \in Calls, Act(c) PROVE IInv'
  <1>1. PICK to \in {IF call[c].kind = "read" THEN "tainting" ELSE "auditing", "failing"} :
          /\ call[c].pc = "gate"
          /\ call' = [call EXCEPT ![c].pc = to, ![c].acted = call[c].kind # "model" \/ to = "auditing"]
          /\ UNCHANGED <<index, heard>> /\ NoWrite /\ OfCalls
    BY DEF Act
  <1> DEFINE done == call[c].kind # "model" \/ to = "auditing"
             k == [call[c] EXCEPT !.pc = to, !.acted = done]
  <1>2. call \in [Calls -> CallSet] /\ call[c] \in CallSet /\ Consistent(call[c])
    BY DEF IInv, TypeInv, CallInv
  <1>3. to \in {"tainting", "auditing", "failing"} /\ done \in BOOLEAN BY <1>1
  <1>4. k \in CallSet BY <1>2, <1>3 DEF CallSet, Open, Over
  <1>5. k.pc = to /\ k.run = call[c].run /\ k.kind = call[c].kind /\ k.doc = call[c].doc
        /\ k.acted = done /\ k.missed = call[c].missed
    BY <1>2 DEF CallSet
  <1>6. call' = [call EXCEPT ![c] = k] BY <1>1, <1>2 DEF CallSet
  <1>7. to = "tainting" => call[c].kind = "read" BY <1>1
  <1>8. to = "auditing" => call[c].kind # "read" BY <1>1
  <1> HIDE DEF k
  <1>9. Consistent(k) BY <1>1, <1>2, <1>3, <1>5, <1>7 DEF Consistent, Open
  <1>10. call[c].pc \notin Over BY <1>1 DEF Over
  <1>11. /\ trail' = trail /\ dropped' = dropped /\ failures' \in Nat
         /\ UNCHANGED <<run, restarts, index, heard>>
    BY <1>1 DEF NoWrite, OfCalls, IInv, TypeInv
  <1>12. k.pc \notin {"allowed", "refused", "denied", "failed"} /\ (k.pc = "auditing" => k.kind # "read")
    BY <1>3, <1>5, <1>8
  <1> QED BY <1>4, <1>6, <1>9, <1>10, <1>11, <1>12, MovesQuietly

\* A secret that is read has left its fingerprints before it is audited.
LEMMA TaintKeeps ==
  ASSUME IInv, NEW c \in Calls, Taint(c) PROVE IInv'
  <1> DEFINE r == call[c].run
             d == call[c].doc
  <1>1. /\ call \in [Calls -> CallSet] /\ call[c] \in CallSet /\ Consistent(call[c])
        /\ call[c].pc = "tainting"
    BY DEF IInv, TypeInv, CallInv, Taint, Step
  <1>2. r \in Runs /\ d \in Docs /\ call[c].kind = "read" /\ call[c].acted
    BY <1>1 DEF Consistent, Open
  <1>3. CASE /\ Step(c, "tainting", "auditing")
             /\ index' = [index EXCEPT ![r] = IF Fingerprinted(d) THEN @ \cup {d} ELSE @]
             /\ UNCHANGED heard /\ NoWrite /\ OfCalls
    <2> DEFINE k == [call[c] EXCEPT !.pc = "auditing"]
    <2>1. k \in CallSet BY <1>1 DEF CallSet, Open, Over
    <2>2. k.pc = "auditing" /\ k.run = r /\ k.kind = "read" /\ k.doc = d /\ k.acted
      BY <1>1, <1>2 DEF CallSet
    <2>3. call' = [call EXCEPT ![c] = k] BY <1>3 DEF Step
    <2> HIDE DEF k
    <2>4. Consistent(k) BY <2>2, <1>2 DEF Consistent
    <2>5. call[c].pc \notin Over BY <1>1 DEF Over
    <2>6. /\ trail' = trail /\ dropped' = dropped /\ failures' \in Nat
          /\ UNCHANGED <<run, restarts, heard>>
      BY <1>3 DEF NoWrite, OfCalls, IInv, TypeInv
    <2>7. Adds(c) BY <2>6 DEF Adds
    <2>8. Written' = Written BY <2>6, NothingWritten DEF IInv
    <2>9. OnRecord(c, k, Written') /\ \A row \in Written' : row.of # c
      BY <2>2, <2>5, <2>8, NoRowYet DEF OnRecord
    <2>10. /\ index \in [Runs -> SUBSET Docs]
           /\ index' = [index EXCEPT ![r] = IF Fingerprinted(d) THEN @ \cup {d} ELSE @]
      BY <1>3 DEF IInv, TypeInv
    <2> HIDE DEF r, d
    <2>11. /\ index' \in [Runs -> SUBSET Docs]
           /\ \A q \in Runs : index[q] \subseteq index'[q]
           /\ Fingerprinted(d) => d \in index'[r]
      BY <2>10, <1>2
    <2>12. d \in Secret => Fingerprinted(d)
      BY <1>2, ClassifyIsLevel DEF Fingerprinted, Levels
    <2>13. /\ heard' \in [Runs -> SUBSET Docs]
           /\ \A q \in Runs : heard'[q] = heard[q] /\ heard[q] \cap Secret \subseteq index[q]
      BY <2>6 DEF IInv, TypeInv, PrintInv
    <2>14. \A q \in Runs : /\ index[q] \subseteq index'[q]
                           /\ heard'[q] \cap Secret \subseteq index'[q]
                           /\ run[q].screened # None => heard'[q] = heard[q]
      BY <2>11, <2>13
    <2>15. k.doc \in Secret => k.doc \in index'[k.run] BY <2>2, <2>11, <2>12
    <2> QED BY <2>1, <2>3, <2>4, <2>5, <2>6, <2>7, <2>9, <2>11, <2>13, <2>14, <2>15, CallMoves
  <1>4. CASE /\ Step(c, "tainting", "failing") /\ d \in Borrowed
             /\ WriteFails /\ UNCHANGED <<index, heard>> /\ OfCalls
    <2>1. "tainting" \in Open /\ call[c].kind # "model" BY <1>2 DEF Open
    <2> QED BY <1>4, <2>1, StepsQuietly
  <1> QED BY <1>3, <1>4 DEF Taint

LEMMA AuditKeeps ==
  ASSUME IInv, NEW c \in Calls, Audit(c) PROVE IInv'
  <1>1. /\ call \in [Calls -> CallSet] /\ call[c] \in CallSet /\ Consistent(call[c])
        /\ call[c].pc = "auditing" /\ call[c].pc \notin Over
    BY DEF IInv, TypeInv, CallInv, Audit, Step, Over
  <1>2. call[c].run \in Runs /\ call[c].acted /\ (call[c].kind = "read" => call[c].doc \in Docs)
    BY <1>1 DEF Consistent, Open
  <1>3. CASE /\ Step(c, "auditing", "allowed") /\ Record(Row(c, "allow", None))
             /\ heard' = Told(c) /\ UNCHANGED index /\ OfCalls
    <2> DEFINE k == [call[c] EXCEPT !.pc = "allowed"]
               row == Row(c, "allow", None)
    <2>1. k \in CallSet BY <1>1 DEF CallSet, Open, Over
    <2>2. k.pc = "allowed" /\ k.acted BY <1>1, <1>2 DEF CallSet
    <2>3. call' = [call EXCEPT ![c] = k] BY <1>3 DEF Step
    <2>4. row \in RowSet /\ row.of = c /\ row.decision = "allow" /\ row.reason = None
      BY DEF Row, RowSet, Reasons
    <2>5. OnRecord(c, k, {row}) BY <2>2 DEF OnRecord
    <2> HIDE DEF k, row
    <2>6. Tells(row, k) BY <2>2, <2>4, TrailConstants DEF Tells
    <2>7. Record(row) /\ UNCHANGED <<run, restarts, index>> BY <1>3 DEF OfCalls, row
    <2>8. /\ heard \in [Runs -> SUBSET Docs] /\ heard' = Told(c)
          /\ \A q \in Runs : heard[q] \cap Secret \subseteq index[q]
      BY <1>3 DEF IInv, TypeInv, PrintInv
    <2>9. /\ heard' \in [Runs -> SUBSET Docs]
          /\ \A q \in Runs : /\ heard'[q] \cap Secret \subseteq index[q]
                             /\ run[q].screened # None => heard'[q] = heard[q]
      <3>1. CASE call[c].kind = "read" /\ run[call[c].run].screened = None
        <4>1. heard' = [heard EXCEPT ![call[c].run] = @ \cup {call[c].doc}] BY <2>8, <3>1 DEF Told
        <4>2. call[c].doc \in Docs /\ (call[c].doc \in Secret => call[c].doc \in index[call[c].run])
          BY <3>1, <1>1, <1>2 DEF IInv, PrintInv
        <4> QED BY <4>1, <4>2, <3>1, <2>8, <1>2
      <3>2. CASE ~(call[c].kind = "read" /\ run[call[c].run].screened = None)
        <4>1. heard' = heard BY <2>8, <3>2 DEF Told
        <4> QED BY <4>1, <2>8
      <3> QED BY <3>1, <3>2
    <2>10. k.pc \in Over BY <2>2 DEF Over
    <2> QED BY <2>1, <2>3, <2>4, <2>5, <2>6, <2>7, <2>9, <2>10, <1>1, MovesWithRow
  <1>4. CASE /\ call[c].pc = "auditing" /\ WriteFails
             /\ call' = [call EXCEPT ![c].pc = "failing", ![c].missed = TRUE]
             /\ UNCHANGED <<index, heard>> /\ OfCalls
    <2> DEFINE k == [call[c] EXCEPT !.pc = "failing", !.missed = TRUE]
    <2>1. k \in CallSet BY <1>1 DEF CallSet, Open, Over
    <2>2. k.pc = "failing" /\ k.run = call[c].run /\ k.kind = call[c].kind /\ k.doc = call[c].doc
          /\ k.missed
      BY <1>1 DEF CallSet
    <2>3. call' = [call EXCEPT ![c] = k] BY <1>4, <1>1 DEF CallSet
    <2> HIDE DEF k
    <2>4. Consistent(k) BY <2>2, <1>2 DEF Consistent
    <2>5. /\ trail' = trail /\ dropped' = dropped /\ failures' \in Nat
          /\ UNCHANGED <<run, restarts, index, heard>>
      BY <1>4 DEF WriteFails, OfCalls, IInv, TypeInv
    <2> QED BY <2>1, <2>2, <2>3, <2>4, <2>5, <1>1, MovesQuietly
  <1> QED BY <1>3, <1>4 DEF Audit

\* A refusal, or a failure, is over when its row is written.
LEMMA StepsWithRow ==
  ASSUME IInv, NEW c \in Calls, NEW from \in Open, NEW to \in Over, NEW reason \in Reasons,
         Step(c, from, to), Record(Row(c, "deny", reason)), OfCalls, UNCHANGED <<index, heard>>,
         to # "allowed", to = "refused" => reason = "status", to = "denied" => reason = "policy",
         to = "failed" => reason = IF call[c].kind = "model" THEN "unavailable" ELSE "error",
         reason = "policy" => ~call[c].acted,
         reason = "unavailable" => ~call[c].acted \/ call[c].missed
  PROVE  IInv'
  <1> DEFINE k == [call[c] EXCEPT !.pc = to]
             row == Row(c, "deny", reason)
  <1>1. call[c] \in CallSet /\ call[c].pc = from /\ call[c].pc \notin Over
    BY DEF IInv, TypeInv, Step, Open, Over
  <1>2. k \in CallSet BY <1>1 DEF CallSet, Open, Over
  <1>3. k.pc = to /\ k.acted = call[c].acted /\ k.missed = call[c].missed /\ k.kind = call[c].kind
    BY <1>1 DEF CallSet
  <1>4. call' = [call EXCEPT ![c] = k] BY DEF Step
  <1>5. row \in RowSet /\ row.of = c /\ row.decision = "deny" /\ row.reason = reason
    BY DEF Row, RowSet
  <1>6. OnRecord(c, k, {row}) BY <1>3 DEF OnRecord
  <1>7. Record(row) /\ UNCHANGED <<run, restarts, index>> BY DEF OfCalls
  <1> HIDE DEF k, row
  <1>8. Tells(row, k) BY <1>3, <1>5 DEF Tells
  <1>9. /\ heard' \in [Runs -> SUBSET Docs]
        /\ \A q \in Runs : /\ heard'[q] \cap Secret \subseteq index[q]
                           /\ run[q].screened # None => heard'[q] = heard[q]
    BY DEF IInv, TypeInv, PrintInv
  <1> QED BY <1>1, <1>2, <1>3, <1>4, <1>5, <1>6, <1>7, <1>8, <1>9, MovesWithRow

LEMMA RefusalsKeep ==
  ASSUME IInv, NEW c \in Calls, AuditDeny(c) \/ AuditRefusal(c) \/ AuditError(c)
  PROVE  IInv'
  <1>1. Consistent(call[c]) BY DEF IInv, CallInv
  <1>2. /\ {"denying", "refusing", "failing"} \subseteq Open
        /\ {"denied", "refused", "failed", "unanswered"} \subseteq Over
        /\ {"policy", "status", "error", "unavailable"} \subseteq Reasons
    BY DEF Open, Over, Reasons
  <1>3. CASE AuditDeny(c)
    <2>1. CASE Step(c, "denying", "denied") /\ Record(Row(c, "deny", "policy"))
      <3>1. ~call[c].acted BY <2>1, <1>1 DEF Step, Consistent
      <3> QED BY <1>3, <2>1, <3>1, <1>2, StepsWithRow DEF AuditDeny
    <2>2. CASE Step(c, "denying", "unanswered") /\ WriteFails
      BY <1>3, <2>2, <1>2, StepsQuietly DEF AuditDeny
    <2> QED BY <1>3, <2>1, <2>2 DEF AuditDeny
  <1>4. CASE AuditRefusal(c)
    <2>1. CASE Step(c, "refusing", "refused") /\ Record(Row(c, "deny", "status"))
      BY <1>4, <2>1, <1>2, StepsWithRow DEF AuditRefusal
    <2>2. CASE Step(c, "refusing", "failing") /\ WriteFails
      BY <1>4, <2>2, <1>2, StepsQuietly DEF AuditRefusal
    <2> QED BY <1>4, <2>1, <2>2 DEF AuditRefusal
  <1>5. CASE AuditError(c)
    <2> DEFINE reason == IF call[c].kind = "model" THEN "unavailable" ELSE "error"
    <2>1. CASE Step(c, "failing", "failed") /\ Record(Row(c, "deny", reason))
      <3>1. reason = "unavailable" => ~call[c].acted \/ call[c].missed
        BY <2>1, <1>1 DEF Step, Consistent
      <3>2. reason \in Reasons /\ reason # "policy" BY <1>2
      <3>4. reason = IF call[c].kind = "model" THEN "unavailable" ELSE "error" OBVIOUS
      <3> HIDE DEF reason
      <3>3. OfCalls /\ UNCHANGED <<index, heard>> BY <1>5 DEF AuditError
      <3> QED BY <2>1, <3>1, <3>2, <3>3, <3>4, <1>2, StepsWithRow
    <2>2. CASE Step(c, "failing", "unanswered") /\ WriteFails
      BY <1>5, <2>2, <1>2, StepsQuietly DEF AuditError
    <2> QED BY <1>5, <2>1, <2>2 DEF AuditError, ErrorRow
  <1> QED BY <1>3, <1>4, <1>5

-----------------------------------------------------------------------------
(* The end of a run, and restarts.                                            *)

LEMMA OutputKeeps ==
  ASSUME IInv, NEW r \in Runs, Output(r) PROVE IInv'
  <1>1. PICK out \in SUBSET Parts, alone \in Short \cup {None} :
          LET s == Screen(r, out, alone)
          IN /\ run[r].phase = "running"
             /\ run' = [run EXCEPT ![r].phase = IF s.verdict = "allow" THEN "storing" ELSE "withholding",
                                   ![r].screened = s]
             /\ NoWrite /\ OfRuns
    BY DEF Output
  <1> DEFINE s == Screen(r, out, alone)
             phase == IF s.verdict = "allow" THEN "storing" ELSE "withholding"
             n == [run[r] EXCEPT !.phase = phase, !.screened = s]
  <1>2. s \in Screened /\ Clean(r, s) BY ScreenCleans DEF IInv
  <1>3. run \in [Runs -> RunSet] /\ run[r] \in RunSet /\ Screening(r, run[r], Written)
    BY DEF IInv, TypeInv, RunInv
  <1>4. run[r].phase = "running" /\ run' = [run EXCEPT ![r].phase = phase, ![r].screened = s]
        /\ NoWrite /\ OfRuns
    BY <1>1
  <1>5. /\ trail' = trail /\ dropped' = dropped /\ failures' \in Nat
        /\ UNCHANGED <<call, index, heard, restarts>>
    BY <1>4 DEF NoWrite, OfRuns, IInv, TypeInv
  <1> HIDE DEF s
  <1>6. n \in RunSet BY <1>2, <1>3 DEF RunSet, Phases
  <1>7. n.phase = phase /\ n.screened = s /\ n.stored = run[r].stored BY <1>3 DEF RunSet
  <1>8. run' = [run EXCEPT ![r] = n] BY <1>3, <1>4 DEF RunSet
  <1> HIDE DEF n
  <1>9. run[r].screened = None BY <1>3, <1>4 DEF Screening
  <1>10. n.stored = None BY <1>3, <1>7, <1>9 DEF Screening
  <1>11. Screening(r, n, Written')
    BY <1>2, <1>7, <1>10 DEF Screening, Withheld
  <1>12. Adds(r) BY <1>5 DEF Adds
  <1> QED BY <1>5, <1>6, <1>8, <1>11, <1>12, RunMoves

\* The phase alone changes, or what was screened is stored.
LEMMA RunSteps ==
  ASSUME IInv, NEW r \in Runs, NEW phase \in Phases, NEW stored \in {run[r].stored, run[r].screened},
         run' = [run EXCEPT ![r] = [run[r] EXCEPT !.phase = phase, !.stored = stored]],
         Adds(r), OfRuns, failures' \in Nat,
         phase \in {"completed", "failed", "storing"},
         phase = "storing" => run[r].phase = "withholding" /\ \E row \in Written' : row.of = r,
         stored # run[r].stored => run[r].phase = "storing"
  PROVE  IInv'
  <1> DEFINE n == [run[r] EXCEPT !.phase = phase, !.stored = stored]
  <1>1. run[r] \in RunSet /\ Screening(r, run[r], Written) BY DEF IInv, TypeInv, RunInv
  <1>2. n \in RunSet BY <1>1 DEF RunSet
  <1>3. n.phase = phase /\ n.screened = run[r].screened /\ n.stored = stored BY <1>1 DEF RunSet
  <1>4. run' = [run EXCEPT ![r] = n] OBVIOUS
  <1> HIDE DEF n
  <1>5. Written \subseteq Written' BY Grows DEF IInv
  <1>6. Withheld(r, stored, Written') \/ stored = None
    <2>1. CASE stored = run[r].stored BY <2>1, <1>1, <1>5 DEF Screening, Withheld
    <2>2. CASE stored # run[r].stored
      <3>1. stored = run[r].screened /\ run[r].phase = "storing" BY <2>2
      <3> QED BY <3>1, <1>1, <1>5 DEF Screening, Withheld
    <2> QED BY <2>1, <2>2
  <1>7. stored # None => stored = run[r].screened BY <1>1 DEF Screening
  <1>8. phase = "storing" => run[r].screened \in Screened /\ Withheld(r, run[r].screened, Written')
    BY <1>1 DEF Screening, Withheld
  <1>9. Screening(r, n, Written') BY <1>1, <1>3, <1>6, <1>7, <1>8 DEF Screening
  <1>10. UNCHANGED <<call, index, heard, restarts>> BY DEF OfRuns
  <1> QED BY <1>2, <1>4, <1>9, <1>10, RunMoves

LEMMA EndKeeps ==
  ASSUME IInv, NEW r \in Runs, AuditOutput(r) \/ Store(r) \/ Fail(r) PROVE IInv'
  <1>1. /\ run \in [Runs -> RunSet] /\ run[r] \in RunSet /\ failures \in Nat
        /\ Screening(r, run[r], Written) /\ OfRuns
    BY DEF IInv, TypeInv, RunInv, AuditOutput, Store, Fail
  <1>2. \A p \in Phases : run' = [run EXCEPT ![r].phase = p]
          => run' = [run EXCEPT ![r] = [run[r] EXCEPT !.phase = p, !.stored = run[r].stored]]
    BY <1>1 DEF RunSet
  <1>3. {"completed", "failed", "storing"} \subseteq Phases BY DEF Phases
  <1>4. NoWrite \/ WriteFails => Adds(r) /\ failures' \in Nat
    BY <1>1 DEF NoWrite, WriteFails, Adds
  <1>5. CASE (NoWrite \/ WriteFails) /\ run' = [run EXCEPT ![r].phase = "failed"]
    <2>1. run' = [run EXCEPT ![r] = [run[r] EXCEPT !.phase = "failed", !.stored = run[r].stored]]
      BY <1>2, <1>3, <1>5
    <2> QED BY <2>1, <1>1, <1>3, <1>4, <1>5, RunSteps
  <1>6. CASE /\ run[r].phase = "withholding"
             /\ Record([of |-> r, decision |-> "deny", reason |-> run[r].screened.verdict])
             /\ run' = [run EXCEPT ![r].phase = "storing"]
    <2> DEFINE row == [of |-> r, decision |-> "deny", reason |-> run[r].screened.verdict]
    <2>1. run[r].screened \in Screened BY <1>1, <1>6 DEF Screening
    <2>2. row \in RowSet /\ row.of = r BY <2>1 DEF RowSet, Reasons, Screened
    <2>3. Record(row) BY <1>6
    <2> HIDE DEF row
    <2>4. Written' = Written \cup {row} /\ failures' = failures
      BY <2>2, <2>3, RecordWrites DEF IInv
    <2>5. Adds(r) BY <2>2, <2>3 DEF Adds
    <2>6. \E w \in Written' : w.of = r BY <2>2, <2>4
    <2>7. run' = [run EXCEPT ![r] = [run[r] EXCEPT !.phase = "storing", !.stored = run[r].stored]]
      BY <1>2, <1>3, <1>6
    <2> QED BY <2>4, <2>5, <2>6, <2>7, <1>1, <1>3, <1>6, RunSteps
  <1>7. CASE /\ run[r].phase = "storing" /\ NoWrite
             /\ run' = [run EXCEPT ![r].phase = "completed", ![r].stored = run[r].screened]
    <2>1. run' = [run EXCEPT ![r] = [run[r] EXCEPT !.phase = "completed", !.stored = run[r].screened]]
      BY <1>1, <1>7 DEF RunSet
    <2> QED BY <2>1, <1>1, <1>3, <1>4, <1>7, RunSteps
  <1> QED BY <1>5, <1>6, <1>7 DEF AuditOutput, Store, Fail

LEMMA RestartKeeps ==
  ASSUME IInv, Restart PROVE IInv'
  <1>1. /\ run \in [Runs -> RunSet] /\ call \in [Calls -> CallSet]
        /\ \A c \in Calls : Consistent(call[c]) /\ OnRecord(c, call[c], Written)
        /\ \A r \in Runs : Screening(r, run[r], Written)
    BY DEF IInv, TypeInv, CallInv, RunInv
  <1>2. /\ trail' = trail /\ dropped' = dropped /\ failures' = failures
        /\ index' = index /\ heard' = heard /\ restarts' = restarts + 1
    BY DEF Restart, NoWrite
  <1>3. Written' = Written BY <1>2, NothingWritten DEF IInv
  <1>4. \A c \in Calls :
          /\ call'[c] \in CallSet
          /\ call'[c].pc \notin Open
          /\ call'[c].acted = call[c].acted /\ call'[c].kind = call[c].kind
          /\ call'[c].missed = call[c].missed
          /\ call'[c].pc = call[c].pc \/ call'[c].pc = "unanswered"
          /\ call[c].pc \in Over => call'[c] = call[c]
    BY <1>1 DEF Restart, CallSet, Open, Over
  <1>5. \A r \in Runs :
          /\ run'[r] \in RunSet
          /\ run'[r].phase \notin {"running", "withholding", "storing"}
          /\ run'[r].screened = run[r].screened /\ run'[r].stored = run[r].stored
    BY <1>1 DEF Restart, RunSet, Phases
  <1>6. TypeInv'
    <2>1. call' \in [Calls -> CallSet] /\ run' \in [Runs -> RunSet] BY <1>4, <1>5 DEF Restart
    <2> QED BY <2>1, <1>2 DEF IInv, TypeInv
  <1>7. CallInv'
    <2>1. ASSUME NEW c \in Calls PROVE Consistent(call'[c]) /\ OnRecord(c, call'[c], Written')
      <3>1. Consistent(call'[c]) BY <1>4 DEF Consistent, Open
      <3>2. OnRecord(c, call'[c], Written') BY <1>1, <1>3, <1>4 DEF OnRecord
      <3> QED BY <3>1, <3>2
    <2> QED BY <2>1 DEF CallInv, Consistent, OnRecord, Row
  <1>8. RunInv'
    <2>1. ASSUME NEW r \in Runs PROVE Screening(r, run[r], Written)'
      <3>1. Screening(r, run[r], Written) BY <1>1
      <3> QED BY <3>1, <1>2, <1>3, <1>5 DEF Screening, Clean, CleanPart, Withheld
    <2> QED BY <2>1 DEF RunInv
  <1>9. RowInv'
    <2>1. ASSUME NEW row \in Written', row.of \in Calls
          PROVE  call'[row.of].pc \in Over /\ Tells(row, call'[row.of])
      <3>1. call[row.of].pc \in Over /\ Tells(row, call[row.of]) BY <2>1, <1>3 DEF IInv, RowInv
      <3> QED BY <3>1, <2>1, <1>4
    <2> QED BY <2>1 DEF RowInv, Tells
  <1>10. PrintInv' BY <1>2, <1>4 DEF IInv, PrintInv, Open
  <1> QED BY <1>6, <1>7, <1>8, <1>9, <1>10 DEF IInv

-----------------------------------------------------------------------------
(* The invariant, and the properties.                                         *)

LEMMA InitHolds == Init => IInv
  <1> SUFFICES ASSUME Init PROVE IInv OBVIOUS
  <1> USE DEF Init
  <1>1. Written = {} BY DEF Written, Rows
  <1>2. \A c \in Calls : call[c] = NoCall OBVIOUS
  <1>3. \A r \in Runs : run[r] = Begun OBVIOUS
  <1>4. TypeInv
    <2>1. NoCall \in CallSet BY DEF NoCall, CallSet
    <2>2. Begun \in RunSet BY DEF Begun, RunSet, Phases
    <2>3. trail \in Seq(RowSet) OBVIOUS
    <2> QED BY <2>1, <2>2, <2>3 DEF TypeInv
  <1>5. CallInv BY <1>2 DEF CallInv, Consistent, OnRecord, NoCall, Open
  <1>6. RunInv BY <1>3 DEF RunInv, Screening, Begun
  <1>7. RowInv BY <1>1 DEF RowInv
  <1>8. PrintInv BY <1>2 DEF PrintInv, NoCall
  <1> QED BY <1>4, <1>5, <1>6, <1>7, <1>8 DEF IInv

LEMMA StutterKeeps == ASSUME IInv, UNCHANGED vars PROVE IInv'
  BY DEF vars, IInv, TypeInv, CallInv, RunInv, RowInv, PrintInv, Written, Rows, Consistent, OnRecord,
         Row, Screening, Withheld, Clean, CleanPart, Tells

LEMMA NextKeeps == ASSUME IInv, [Next]_vars PROVE IInv'
  <1>1. ASSUME NEW c \in Calls, NEW r \in Runs, NEW kind \in Kinds, NEW d \in Docs \cup {None},
               Begin(c, r, kind, d)
        PROVE  IInv'
    BY <1>1, BeginKeeps
  <1>2. ASSUME NEW c \in Calls, Deny(c) \/ Refuse(c) \/ ActFails(c) PROVE IInv'
    <2>1. "gate" \in Open BY DEF Open
    <2> QED BY <1>2, <2>1, StepsQuietly DEF Deny, Refuse, ActFails
  <1>3. ASSUME NEW c \in Calls, Act(c) PROVE IInv' BY <1>3, ActKeeps
  <1>4. ASSUME NEW c \in Calls, Taint(c) PROVE IInv' BY <1>4, TaintKeeps
  <1>5. ASSUME NEW c \in Calls, Audit(c) PROVE IInv' BY <1>5, AuditKeeps
  <1>6. ASSUME NEW c \in Calls, AuditDeny(c) \/ AuditRefusal(c) \/ AuditError(c) PROVE IInv'
    BY <1>6, RefusalsKeep
  <1>7. ASSUME NEW r \in Runs, Output(r) PROVE IInv' BY <1>7, OutputKeeps
  <1>8. ASSUME NEW r \in Runs, AuditOutput(r) \/ Store(r) \/ Fail(r) PROVE IInv'
    BY <1>8, EndKeeps
  <1>9. CASE Restart BY <1>9, RestartKeeps
  <1>10. CASE UNCHANGED vars BY <1>10, StutterKeeps
  <1> QED BY <1>1, <1>2, <1>3, <1>4, <1>5, <1>6, <1>7, <1>8, <1>9, <1>10 DEF Next

\* What each call has done, which rows there are and what has left its fingerprints agree.
THEOREM InvariantHolds == Spec => []IInv
  <1>1. Init => IInv BY InitHolds
  <1>2. IInv /\ [Next]_vars => IInv' BY NextKeeps
  <1> QED BY <1>1, <1>2, PTL DEF Spec

\* What is answered, to an agent or in the chat, was put on record first (recordEvent before
\* the answer in gateway.ts and llm-proxy.ts, and before the message in executeRun).
THEOREM AnswersAreOnRecord == Spec => []AnsweredIsOnRecord
  <1>1. IInv => AnsweredIsOnRecord
    BY DEF IInv, CallInv, RunInv, OnRecord, Screening, Withheld, Written, AnsweredIsOnRecord,
           ErrorRow, Rows
  <1> QED BY <1>1, InvariantHolds, PTL

\* A row says what became of the call it is about, whatever fails to be written.
THEOREM TrailIsTrue == Spec => []RowsTellTheTruth
  <1>1. IInv => RowsTellTheTruth BY DEF IInv, RowInv, Tells, Written, RowsTellTheTruth
  <1> QED BY <1>1, InvariantHolds, PTL

\* No chat message holds a key.  Of a secret document that its run was answered through the
\* gateway it holds no six words in a row, and nothing when the output was a short one (of
\* twelve characters at least) alone (screenOutput, matchOrigin).
THEOREM NoSecretIsStored == Spec => []SecretsStayOut
  <1>1. IInv => SecretsStayOut
    BY DEF IInv, RunInv, Screening, Clean, CleanPart, SecretsStayOut
  <1> QED BY <1>1, InvariantHolds, PTL
================================================================================
