--------------------------- MODULE JsonStore_proofs ----------------------------
(***************************************************************************)
(* Proofs about JsonStore for every set of mutations: its type invariant,   *)
(* what readers and callers may rely on, and that it implements the atomic   *)
(* store.  Liveness is left to TLC.                                          *)
(***************************************************************************)
EXTENDS JsonStore, Integers, TLAPS

\* No mutation waits twice, and the ones that wait have not been answered.
QueueInv ==
  /\ \A i \in DOMAIN queue : outcome[queue[i]] = "pending"
  /\ \A i, j \in DOMAIN queue : i # j => queue[i] # queue[j]

\* Which contents memory, clone, temporary file and file have at each step of
\* persist, in each phase.
PhaseInv ==
  /\ phase # "up" => queue = <<>> /\ data = <<>>
  /\ phase \in {"down", "refused"} => io = "none"
  /\ phase = "creating" => next = <<>> /\ io # "none" /\ (io # "renamed" => file = NoFile)
  /\ phase = "up" /\ io # "none" => queue # <<>> /\ next = Append(data, Head(queue))
  /\ phase = "up" /\ io # "renamed" => file = data
  /\ io = "written" => tmp = next
  /\ io = "renamed" => file = next

\* What is in the file has been acknowledged, is in doubt after a crash, or is
\* the one mutation between its rename and its answer.
FileInv ==
  \A m \in Mutations :
    /\ outcome[m] = "ok" => Contains(Stored, m)
    /\ Contains(Stored, m) =>
         \/ outcome[m] \in {"ok", "lost"}
         \/ phase = "up" /\ io = "renamed" /\ m = Head(queue)

IInv == TypeOK /\ QueueInv /\ PhaseInv /\ FileInv

USE FileStatesAreNotDatabases

--------------------------------------------------------------------------------
(* Sequences *)

LEMMA AppendFacts ==
  ASSUME NEW S, NEW s \in Seq(S), NEW e \in S
  PROVE  /\ Append(s, e) \in Seq(S)
         /\ Append(s, e) # <<>>
         /\ Len(Append(s, e)) = Len(s) + 1
         /\ \A i \in 1..Len(s) : Append(s, e)[i] = s[i]
         /\ Append(s, e)[Len(s) + 1] = e
         /\ \A m : Contains(Append(s, e), m) <=> (Contains(s, m) \/ m = e)
<1>1. /\ Append(s, e) \in Seq(S)
      /\ Append(s, e) # <<>>
      /\ Len(Append(s, e)) = Len(s) + 1
      /\ \A i \in 1..Len(s) : Append(s, e)[i] = s[i]
      /\ Append(s, e)[Len(s) + 1] = e
  OBVIOUS
<1>2. ASSUME NEW m PROVE Contains(Append(s, e), m) <=> (Contains(s, m) \/ m = e)
  BY <1>1 DEF Contains
<1>3. QED BY <1>1, <1>2

LEMMA TailFacts ==
  ASSUME NEW S, NEW s \in Seq(S), s # <<>>
  PROVE  /\ Head(s) \in S /\ Head(s) = s[1]
         /\ Len(s) \in Nat \ {0}
         /\ Tail(s) \in Seq(S)
         /\ Len(Tail(s)) = Len(s) - 1
         /\ \A i \in 1..(Len(s) - 1) : Tail(s)[i] = s[i + 1]
OBVIOUS

LEMMA EmptyHoldsNothing == \A m : ~Contains(<<>>, m)
BY DEF Contains
--------------------------------------------------------------------------------
(* Type correctness *)

LEMMA TypeInit == Init => TypeOK
<1>1. <<>> \in Seq(Mutations)
  OBVIOUS
<1>2. QED BY <1>1 DEF Init, TypeOK, Databases, Phases, IoSteps, Outcomes

LEMMA TypeStep == TypeOK /\ PhaseInv /\ [Next]_vars => TypeOK'
<1> SUFFICES ASSUME TypeOK, PhaseInv, [Next]_vars PROVE TypeOK'
  OBVIOUS
<1> USE DEF TypeOK, Databases, Phases, IoSteps, Outcomes
<1>1. CASE Load
  BY <1>1 DEF Load, FileStates
<1>2. CASE LoadMissing
  BY <1>2 DEF LoadMissing
<1>3. CASE LoadRefused
  BY <1>3 DEF LoadRefused
<1>4. CASE Created
  BY <1>4 DEF Created
<1>5. ASSUME NEW m \in Mutations, Submit(m) PROVE TypeOK'
  <2>1. queue' \in Seq(Mutations)
    BY <1>5, AppendFacts DEF Submit
  <2>2. QED BY <1>5, <2>1 DEF Submit
<1>6. CASE RunMutation
  <2>1. Append(data, Head(queue)) \in Seq(Mutations)
    BY <1>6, TailFacts, AppendFacts DEF RunMutation
  <2>2. QED BY <1>6, <2>1 DEF RunMutation
<1>7. CASE MutationThrows
  <2>1. Tail(queue) \in Seq(Mutations)
    BY <1>7, TailFacts DEF MutationThrows
  <2>2. QED BY <1>7, <2>1 DEF MutationThrows, Settle
<1>8. CASE Commit
  <2>1. Tail(queue) \in Seq(Mutations)
    BY <1>8, TailFacts DEF Commit, PhaseInv
  <2>2. QED BY <1>8, <2>1 DEF Commit, Settle
<1>9. CASE BeginWrite
  BY <1>9 DEF BeginWrite
<1>10. CASE EndWrite
  BY <1>10 DEF EndWrite
<1>11. CASE Rename
  BY <1>11 DEF Rename, PhaseInv
<1>12. CASE PersistFails
  <2>1. phase = "up" => Tail(queue) \in Seq(Mutations)
    BY <1>12, TailFacts DEF PersistFails, PhaseInv
  <2>2. QED BY <1>12, <2>1 DEF PersistFails, Settle
<1>13. CASE Crash
  BY <1>13 DEF Crash
<1>14. CASE UNCHANGED vars
  BY <1>14 DEF vars
<1>15. QED
  BY <1>1, <1>2, <1>3, <1>4, <1>5, <1>6, <1>7, <1>8, <1>9, <1>10, <1>11, <1>12,
     <1>13, <1>14 DEF Next, Persist

--------------------------------------------------------------------------------
(* The contents of memory and files along persist *)

LEMMA PhaseStep == TypeOK /\ PhaseInv /\ [Next]_vars => PhaseInv'
<1> SUFFICES ASSUME TypeOK, PhaseInv, [Next]_vars PROVE PhaseInv'
  OBVIOUS
<1> USE DEF PhaseInv, TypeOK, Databases, Phases, IoSteps
<1>1. CASE Load
  BY <1>1 DEF Load
<1>2. CASE LoadMissing
  BY <1>2 DEF LoadMissing
<1>3. CASE LoadRefused
  BY <1>3 DEF LoadRefused
<1>4. CASE Created
  BY <1>4 DEF Created
<1>5. ASSUME NEW m \in Mutations, Submit(m) PROVE PhaseInv'
  <2>1. /\ queue' # <<>>
        /\ queue # <<>> => Head(queue') = Head(queue)
    <3>1. queue' # <<>> /\ Len(queue') = Len(queue) + 1 /\ queue' \in Seq(Mutations)
      BY <1>5, AppendFacts DEF Submit
    <3>2. queue # <<>> => queue'[1] = queue[1]
      BY <1>5, AppendFacts, TailFacts DEF Submit
    <3>3. QED BY <3>1, <3>2, TailFacts
  <2>2. QED BY <1>5, <2>1 DEF Submit
<1>6. CASE RunMutation
  BY <1>6 DEF RunMutation
<1>7. CASE MutationThrows
  BY <1>7 DEF MutationThrows, Settle
<1>8. CASE Commit
  BY <1>8 DEF Commit, Settle
<1>9. CASE BeginWrite
  BY <1>9 DEF BeginWrite
<1>10. CASE EndWrite
  BY <1>10 DEF EndWrite
<1>11. CASE Rename
  BY <1>11 DEF Rename
<1>12. CASE PersistFails
  BY <1>12 DEF PersistFails, Settle
<1>13. CASE Crash
  BY <1>13 DEF Crash
<1>14. CASE UNCHANGED vars
  BY <1>14 DEF vars
<1>15. QED
  BY <1>1, <1>2, <1>3, <1>4, <1>5, <1>6, <1>7, <1>8, <1>9, <1>10, <1>11, <1>12,
     <1>13, <1>14 DEF Next, Persist
--------------------------------------------------------------------------------
(* The queue *)

\* Settling the oldest call keeps the others waiting, each of them once.
LEMMA SettleQueue ==
  ASSUME TypeOK, QueueInv, queue # <<>>, NEW result, Settle(result)
  PROVE  QueueInv'
<1>1. /\ queue \in Seq(Mutations)
      /\ queue' \in Seq(Mutations)
      /\ Len(queue) \in Nat \ {0} /\ Len(queue') = Len(queue) - 1
      /\ \A i \in 1..Len(queue') : queue'[i] = queue[i + 1]
      /\ Head(queue) = queue[1]
  BY TailFacts DEF TypeOK, Databases, Settle
<1>2. \A i \in 1..Len(queue') : queue[i + 1] # Head(queue) /\ outcome[queue[i + 1]] = "pending"
  BY <1>1 DEF QueueInv
<1>3. \A i \in DOMAIN queue' : outcome'[queue'[i]] = "pending"
  <2>1. ASSUME NEW i \in 1..Len(queue') PROVE outcome'[queue'[i]] = "pending"
    <3>1. queue'[i] \in Mutations /\ queue'[i] # Head(queue)
      BY <1>1, <1>2
    <3>2. QED BY <1>1, <1>2, <3>1 DEF Settle, TypeOK
  <2>2. QED BY <1>1, <2>1
<1>4. \A i, j \in DOMAIN queue' : i # j => queue'[i] # queue'[j]
  <2>1. ASSUME NEW i \in 1..Len(queue'), NEW j \in 1..Len(queue'), i # j
        PROVE  queue'[i] # queue'[j]
    <3>1. i + 1 \in DOMAIN queue /\ j + 1 \in DOMAIN queue /\ i + 1 # j + 1
      BY <1>1, <2>1
    <3>2. queue[i + 1] # queue[j + 1]
      BY <3>1 DEF QueueInv
    <3>3. QED BY <1>1, <3>2
  <2>2. QED BY <1>1, <2>1
<1>5. QED BY <1>3, <1>4 DEF QueueInv

LEMMA QueueStep == TypeOK /\ PhaseInv /\ QueueInv /\ [Next]_vars => QueueInv'
<1> SUFFICES ASSUME TypeOK, PhaseInv, QueueInv, [Next]_vars PROVE QueueInv'
  OBVIOUS
<1>1. ASSUME UNCHANGED <<queue, outcome>> PROVE QueueInv'
  BY <1>1 DEF QueueInv
<1>2. ASSUME NEW m \in Mutations, Submit(m) PROVE QueueInv'
  <2>1. /\ queue \in Seq(Mutations) /\ queue' \in Seq(Mutations)
        /\ Len(queue) \in Nat /\ Len(queue') = Len(queue) + 1
        /\ \A i \in 1..Len(queue) : queue'[i] = queue[i]
        /\ queue'[Len(queue) + 1] = m
    BY <1>2, AppendFacts DEF TypeOK, Databases, Submit
  <2>2. \A i \in 1..Len(queue) : queue[i] # m /\ queue[i] \in Mutations
    BY <1>2, <2>1 DEF QueueInv, Submit
  <2>3. \A i \in DOMAIN queue' : outcome'[queue'[i]] = "pending"
    BY <1>2, <2>1, <2>2 DEF QueueInv, Submit, TypeOK
  <2>4. \A i, j \in DOMAIN queue' : i # j => queue'[i] # queue'[j]
    BY <2>1, <2>2 DEF QueueInv
  <2>5. QED BY <2>3, <2>4 DEF QueueInv
<1>3. CASE MutationThrows
  BY <1>3, SettleQueue DEF MutationThrows
<1>4. CASE Commit
  BY <1>4, SettleQueue DEF Commit, PhaseInv
<1>5. CASE PersistFails
  <2>1. CASE phase = "up"
    BY <1>5, <2>1, SettleQueue DEF PersistFails, PhaseInv
  <2>2. CASE phase # "up"
    BY <1>5, <2>2, <1>1 DEF PersistFails
  <2>3. QED BY <2>1, <2>2
<1>6. CASE Crash
  BY <1>6 DEF Crash, QueueInv
<1>7. QED
  BY <1>1, <1>2, <1>3, <1>4, <1>5, <1>6
  DEF Next, Persist, vars, Load, LoadMissing, LoadRefused, Created, RunMutation,
      BeginWrite, EndWrite, Rename

--------------------------------------------------------------------------------
(* The file *)

LEMMA FileStep == IInv /\ [Next]_vars => FileInv'
<1> SUFFICES ASSUME IInv, [Next]_vars, NEW m \in Mutations
             PROVE  /\ outcome'[m] = "ok" => Contains(Stored', m)
                    /\ Contains(Stored', m) =>
                         \/ outcome'[m] \in {"ok", "lost"}
                         \/ phase' = "up" /\ io' = "renamed" /\ m = Head(queue')
  BY DEF FileInv
<1>0. /\ outcome[m] = "ok" => Contains(Stored, m)
      /\ Contains(Stored, m) =>
           \/ outcome[m] \in {"ok", "lost"}
           \/ phase = "up" /\ io = "renamed" /\ m = Head(queue)
      /\ outcome \in [Mutations -> Outcomes]
  BY DEF IInv, FileInv, TypeOK
<1>1. ASSUME UNCHANGED <<file, outcome>>, io # "renamed" PROVE Stored' = Stored
  BY <1>1 DEF Stored
<1>2. CASE Load \/ LoadMissing \/ LoadRefused \/ RunMutation \/ BeginWrite \/ EndWrite
  <2>1. UNCHANGED <<file, outcome>> /\ io # "renamed"
    BY <1>2 DEF Load, LoadMissing, LoadRefused, RunMutation, BeginWrite, EndWrite,
                IInv, PhaseInv
  <2>2. QED BY <2>1, <1>1, <1>0
<1>3. CASE Created
  <2>1. UNCHANGED Stored
    BY <1>3 DEF Created, Stored
  <2>2. ~Contains(Stored, m)
    <3>1. file = <<>>
      BY <1>3 DEF Created, IInv, PhaseInv
    <3>2. Stored = <<>>
      BY <3>1 DEF Stored
    <3>3. QED BY <3>2, EmptyHoldsNothing
  <2>3. QED BY <2>1, <2>2, <1>0, <1>3 DEF Created
<1>4. ASSUME NEW n \in Mutations, Submit(n)
      PROVE  /\ outcome'[m] = "ok" => Contains(Stored', m)
             /\ Contains(Stored', m) =>
                  \/ outcome'[m] \in {"ok", "lost"}
                  \/ phase' = "up" /\ io' = "renamed" /\ m = Head(queue')
  <2>1. UNCHANGED Stored
    BY <1>4 DEF Submit, Stored
  <2>2. queue # <<>> => Head(queue') = Head(queue)
    <3>1. queue \in Seq(Mutations) /\ queue' \in Seq(Mutations) /\ queue' # <<>>
      BY <1>4, AppendFacts DEF Submit, IInv, TypeOK, Databases
    <3>2. queue # <<>> => queue'[1] = queue[1]
      BY <1>4, <3>1, AppendFacts, TailFacts DEF Submit
    <3>3. QED BY <3>1, <3>2, TailFacts
  <2>3. phase = "up" /\ io = "renamed" => queue # <<>>
    BY DEF IInv, PhaseInv
  <2>4. outcome[n] = "unused" /\ outcome' = [outcome EXCEPT ![n] = "pending"]
    BY <1>4 DEF Submit
  <2>5. ~Contains(Stored, n)
    <3>1. phase = "up" /\ io = "renamed" => n # Head(queue)
      <4>1. SUFFICES ASSUME queue # <<>> PROVE n # Head(queue)
        BY <2>3
      <4>2. queue \in Seq(Mutations) /\ 1 \in DOMAIN queue /\ Head(queue) = queue[1]
        BY <4>1, TailFacts DEF IInv, TypeOK, Databases
      <4>3. QED BY <4>2, <2>4 DEF IInv, QueueInv
    <3>2. QED BY <3>1, <2>4 DEF IInv, FileInv
  <2>6. QED BY <1>0, <1>4, <2>1, <2>2, <2>3, <2>4, <2>5 DEF Submit
<1>5. CASE MutationThrows
  <2>1. UNCHANGED Stored
    BY <1>5 DEF MutationThrows, Stored
  <2>2. Head(queue) \in Mutations /\ outcome[Head(queue)] = "pending"
    <3>1. queue \in Seq(Mutations) /\ 1 \in DOMAIN queue /\ Head(queue) = queue[1]
      BY <1>5, TailFacts DEF MutationThrows, IInv, TypeOK, Databases
    <3>2. QED BY <3>1 DEF IInv, QueueInv
  <2>3. ~Contains(Stored, Head(queue))
    BY <1>5, <2>2 DEF MutationThrows, IInv, FileInv
  <2>4. QED BY <1>0, <1>5, <2>1, <2>2, <2>3 DEF MutationThrows, Settle
<1>6. CASE Commit
  <2>1. UNCHANGED Stored
    BY <1>6 DEF Commit, Stored
  <2>2. Contains(Stored, Head(queue)) /\ Head(queue) \in Mutations
    <3>1. /\ file = Append(data, Head(queue)) /\ queue # <<>>
          /\ queue \in Seq(Mutations) /\ data \in Seq(Mutations)
      BY <1>6 DEF Commit, IInv, PhaseInv, TypeOK, Databases
    <3>2. Head(queue) \in Mutations
      BY <3>1, TailFacts
    <3>3. Stored = Append(data, Head(queue))
      BY <3>1, <3>2, AppendFacts DEF Stored
    <3>4. QED BY <3>1, <3>2, <3>3, AppendFacts
  <2>3. QED BY <1>0, <1>6, <2>1, <2>2 DEF Commit, Settle
<1>7. CASE Rename
  <2>1. file' = next /\ io' = "renamed" /\ UNCHANGED <<phase, queue, outcome>>
    BY <1>7 DEF Rename, IInv, PhaseInv
  <2>2. CASE phase = "creating"
    <3>1. Stored' = <<>> /\ Stored = <<>>
      BY <1>7, <2>1, <2>2 DEF Stored, Rename, IInv, PhaseInv, FileStates
    <3>2. QED BY <1>0, <2>1, <2>2, <3>1, EmptyHoldsNothing
  <2>3. CASE phase = "up"
    <3>1. /\ next = Append(data, Head(queue)) /\ file = data
          /\ data \in Seq(Mutations) /\ Head(queue) \in Mutations
      BY <1>7, <2>3, TailFacts DEF Rename, IInv, PhaseInv, TypeOK, Databases
    <3>2. Stored' = next /\ Stored = data
      BY <2>1, <3>1, AppendFacts DEF Stored
    <3>3. Contains(Stored', m) <=> (Contains(Stored, m) \/ m = Head(queue))
      BY <3>1, <3>2, AppendFacts
    <3>4. io = "written"
      BY <1>7 DEF Rename
    <3>5. QED BY <1>0, <2>1, <2>3, <3>3, <3>4
  <2>4. QED BY <1>7, <2>2, <2>3 DEF Rename, IInv, PhaseInv, TypeOK, Phases
<1>8. CASE PersistFails
  <2>1. Stored' = Stored /\ io # "renamed" /\ io' = "none"
    BY <1>8 DEF PersistFails, Stored
  <2>2. CASE phase = "up"
    <3>1. queue # <<>> /\ Settle("failed")
      BY <1>8, <2>2 DEF PersistFails, IInv, PhaseInv
    <3>2. Head(queue) \in Mutations /\ outcome[Head(queue)] = "pending"
      <4>1. queue \in Seq(Mutations) /\ 1 \in DOMAIN queue /\ Head(queue) = queue[1]
        BY <3>1, TailFacts DEF IInv, TypeOK, Databases
      <4>2. QED BY <4>1 DEF IInv, QueueInv
    <3>3. ~Contains(Stored, Head(queue))
      BY <2>1, <3>2 DEF IInv, FileInv
    <3>4. QED BY <1>0, <2>1, <3>1, <3>2, <3>3 DEF Settle
  <2>3. CASE phase # "up"
    BY <1>0, <1>8, <2>1, <2>3 DEF PersistFails
  <2>4. QED BY <2>2, <2>3
<1>9. CASE Crash
  <2>1. UNCHANGED Stored
    BY <1>9 DEF Crash, Stored
  <2>2. outcome[m] = "pending" => outcome'[m] = "lost"
    BY <1>9 DEF Crash
  <2>3. outcome[m] # "pending" => outcome'[m] = outcome[m]
    BY <1>9 DEF Crash
  <2>4. phase = "up" /\ io = "renamed" => outcome[Head(queue)] = "pending"
    <3>1. SUFFICES ASSUME queue # <<>> PROVE outcome[Head(queue)] = "pending"
      BY DEF IInv, PhaseInv
    <3>2. queue \in Seq(Mutations) /\ 1 \in DOMAIN queue /\ Head(queue) = queue[1]
      BY <3>1, TailFacts DEF IInv, TypeOK, Databases
    <3>3. QED BY <3>2 DEF IInv, QueueInv
  <2>5. QED BY <1>0, <2>1, <2>2, <2>3, <2>4
<1>10. CASE UNCHANGED vars
  BY <1>0, <1>10 DEF vars, Stored
<1>11. QED
  BY <1>2, <1>3, <1>4, <1>5, <1>6, <1>7, <1>8, <1>9, <1>10 DEF Next, Persist
--------------------------------------------------------------------------------
(* The theorems *)

LEMMA Invariance == Spec => []IInv
<1>1. Init => IInv
  <2>1. Init => PhaseInv /\ QueueInv
    BY DEF Init, PhaseInv, QueueInv
  <2>2. Init => FileInv
    <3>1. SUFFICES ASSUME Init PROVE FileInv
      OBVIOUS
    <3>2. Stored = <<>>
      BY <3>1 DEF Init, Stored, FileStates
    <3>3. QED BY <3>1, <3>2, EmptyHoldsNothing DEF Init, FileInv
  <2>3. QED BY <2>1, <2>2, TypeInit DEF IInv
<1>2. IInv /\ [Next]_vars => IInv'
  BY TypeStep, PhaseStep, QueueStep, FileStep DEF IInv
<1>3. QED BY <1>1, <1>2, PTL DEF Spec

\* Every variable of the store keeps its type; in particular the file that
\* replaces launchpad.json (store.ts, persist) is never half written.
THEOREM TypeCorrect == Spec => []TypeOK
<1>1. IInv => TypeOK
  BY DEF IInv
<1>2. QED BY <1>1, Invariance, PTL

\* What snapshot() returns is what a crash at this instant would give back,
\* but for the one mutation that is renamed and not yet acknowledged.
THEOREM ReadersSeeDurableData == Spec => []SnapshotIsDurable
<1>1. IInv => SnapshotIsDurable
  <2>1. SUFFICES ASSUME IInv, phase = "up"
                 PROVE  Stored \in {data} \cup
                          (IF io = "renamed" THEN {Append(data, Head(queue))} ELSE {})
    BY DEF SnapshotIsDurable
  <2>2. CASE io # "renamed"
    BY <2>1, <2>2 DEF IInv, PhaseInv, TypeOK, Databases, Stored
  <2>3. CASE io = "renamed"
    <3>1. file = Append(data, Head(queue)) /\ queue # <<>>
      BY <2>1, <2>3 DEF IInv, PhaseInv
    <3>2. file \in Seq(Mutations)
      BY <2>1, <3>1, TailFacts, AppendFacts DEF IInv, TypeOK, Databases
    <3>3. QED BY <2>3, <3>1, <3>2 DEF Stored
  <2>4. QED BY <2>2, <2>3
<1>2. QED BY <1>1, Invariance, PTL

\* A mutation whose caller was answered is in the file for ever (mutate
\* resolves after persist; a crash forgets memory, not the file).
THEOREM AcknowledgedStays == Spec => []AcknowledgedIsKept
<1>1. IInv => AcknowledgedIsKept
  BY DEF IInv, FileInv, AcknowledgedIsKept
<1>2. QED BY <1>1, Invariance, PTL

\* A mutation whose caller saw an error is nowhere: mutate works on a clone and
\* drops it when the function throws or persist rejects.
THEOREM RejectedVanishes == Spec => []RejectedLeavesNoTrace
<1>1. IInv => RejectedLeavesNoTrace
  <2>1. SUFFICES ASSUME IInv, NEW m \in Mutations, outcome[m] = "failed"
                 PROVE  ~Contains(Stored, m) /\ ~Contains(data, m)
    BY DEF RejectedLeavesNoTrace
  <2>2. CASE phase # "up"
    <3>1. data = <<>>
      BY <2>1, <2>2 DEF IInv, PhaseInv
    <3>2. QED BY <2>1, <2>2, <3>1, EmptyHoldsNothing DEF IInv, FileInv
  <2>3. CASE phase = "up" /\ io # "renamed"
    <3>1. Stored = data
      BY <2>1, <2>3 DEF IInv, PhaseInv, TypeOK, Databases, Stored
    <3>2. QED BY <2>1, <2>3, <3>1 DEF IInv, FileInv
  <2>4. CASE phase = "up" /\ io = "renamed"
    <3>1. /\ file = Append(data, Head(queue)) /\ queue # <<>>
          /\ queue \in Seq(Mutations) /\ data \in Seq(Mutations)
      BY <2>1, <2>4 DEF IInv, PhaseInv, TypeOK, Databases
    <3>2. /\ Head(queue) \in Mutations /\ Head(queue) = queue[1] /\ 1 \in DOMAIN queue
      BY <3>1, TailFacts
    <3>3. Stored = Append(data, Head(queue))
      BY <3>1, <3>2, AppendFacts DEF Stored
    <3>4. outcome[Head(queue)] = "pending"
      BY <2>1, <3>2 DEF IInv, QueueInv
    <3>5. ~Contains(Stored, m)
      BY <2>1, <3>4 DEF IInv, FileInv
    <3>6. QED BY <3>1, <3>2, <3>3, <3>5, AppendFacts
  <2>5. QED BY <2>2, <2>3, <2>4
<1>2. QED BY <1>1, Invariance, PTL

\* initialize never replaces a file it cannot read by an empty database.
THEOREM UnreadableStays == Spec => UnreadableIsNotOverwritten
<1>1. IInv /\ [Next]_vars => [file = Unreadable => file' = Unreadable]_file
  <2>1. SUFFICES ASSUME IInv, [Next]_vars, file = Unreadable, file' # file
                 PROVE  FALSE
    OBVIOUS
  <2>2. Rename
    BY <2>1 DEF Next, Persist, vars, Load, LoadMissing, LoadRefused, Created, Submit,
       RunMutation, MutationThrows, Commit, Settle, BeginWrite, EndWrite, PersistFails, Crash
  <2>3. file \in {NoFile} \cup Seq(Mutations)
    BY <2>1, <2>2 DEF Rename, IInv, PhaseInv, TypeOK, Databases, Phases
  <2>4. QED BY <2>1, <2>3 DEF FileStates
<1>2. QED BY <1>1, Invariance, PTL DEF Spec, UnreadableIsNotOverwritten

\* The store implements the atomic one: commit is the step that applies a
\* mutation, and a crash may apply the one whose rename it follows.
THEOREM ImplementsAtomicStore == Spec => RefinesAtomicStore
<1> DEFINE db == IF phase = "up" THEN data ELSE Stored
<1>1. Init => Atomic!Init
  <2>1. SUFFICES ASSUME Init PROVE Stored = <<>>
    BY DEF Init, Atomic!Init
  <2>2. QED BY <2>1 DEF Init, Stored, FileStates
<1>2. IInv /\ [Next]_vars => [Atomic!Next]_(Atomic!vars)
  <2> SUFFICES ASSUME IInv, [Next]_vars PROVE [Atomic!Next]_(Atomic!vars)
    OBVIOUS
  <2> USE DEF Atomic!vars, Atomic!Next
  <2>1. ASSUME UNCHANGED <<phase, data, queue, file, outcome>>
        PROVE  UNCHANGED Atomic!vars
    BY <2>1 DEF Stored
  <2>2. CASE Load
    BY <2>2 DEF Load, Stored
  <2>3. CASE LoadMissing \/ LoadRefused
    BY <2>3 DEF LoadMissing, LoadRefused, Stored
  <2>4. CASE Created
    <3>1. file = <<>> /\ data = <<>> /\ UNCHANGED <<file, data>>
      BY <2>4 DEF Created, IInv, PhaseInv
    <3>2. Stored = <<>>
      BY <3>1 DEF Stored
    <3>3. QED BY <2>4, <3>1, <3>2 DEF Created
  <2>5. ASSUME NEW m \in Mutations, Submit(m) PROVE Atomic!Submit(m)
    BY <2>5 DEF Submit, Atomic!Submit
  <2>6. CASE RunMutation \/ BeginWrite \/ EndWrite
    BY <2>6, <2>1 DEF RunMutation, BeginWrite, EndWrite
  <2>7. CASE MutationThrows
    BY <2>7 DEF MutationThrows, Settle, Atomic!Reject
  <2>8. CASE Commit
    BY <2>8 DEF Commit, Settle, Atomic!Apply, IInv, PhaseInv
  <2>9. CASE Rename
    <3>1. CASE phase = "up"
      BY <2>9, <3>1 DEF Rename
    <3>2. CASE phase = "creating"
      <4>1. Stored' = <<>> /\ Stored = <<>>
        BY <2>9, <3>2 DEF Stored, Rename, IInv, PhaseInv, FileStates
      <4>2. QED BY <2>9, <3>2, <4>1 DEF Rename
    <3>3. QED BY <2>9, <3>1, <3>2 DEF Rename, IInv, PhaseInv, TypeOK, Phases
  <2>10. CASE PersistFails
    <3>1. CASE phase = "up"
      BY <2>10, <3>1 DEF PersistFails, Settle, Atomic!Reject, IInv, PhaseInv
    <3>2. CASE phase # "up"
      BY <2>10, <3>2 DEF PersistFails, Stored
    <3>3. QED BY <3>1, <3>2
  <2>11. CASE Crash
    <3>1. db' = db \/ (queue # <<>> /\ db' = Append(db, Head(queue)))
      <4>1. db' = Stored
        BY <2>11 DEF Crash, Stored
      <4>2. CASE phase # "up"
        BY <4>1, <4>2
      <4>3. CASE phase = "up" /\ io # "renamed"
        BY <4>1, <4>3 DEF IInv, PhaseInv, TypeOK, Databases, Stored
      <4>4. CASE phase = "up" /\ io = "renamed"
        <5>1. file = Append(data, Head(queue)) /\ queue # <<>>
          BY <4>4 DEF IInv, PhaseInv
        <5>2. file \in Seq(Mutations)
          BY <5>1, TailFacts, AppendFacts DEF IInv, TypeOK, Databases
        <5>3. Stored = file
          BY <5>2 DEF Stored
        <5>4. QED BY <4>1, <4>4, <5>1, <5>3
      <4>5. QED BY <4>2, <4>3, <4>4
    <3>2. QED BY <2>11, <3>1 DEF Crash, Atomic!Crash
  <2>12. CASE UNCHANGED vars
    BY <2>12, <2>1 DEF vars
  <2>13. QED
    BY <2>2, <2>3, <2>4, <2>5, <2>6, <2>7, <2>8, <2>9, <2>10, <2>11, <2>12
    DEF Next, Persist, Atomic!Next
<1>3. QED BY <1>1, <1>2, Invariance, PTL DEF Spec, RefinesAtomicStore, Atomic!Spec
================================================================================
