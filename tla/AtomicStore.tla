------------------------------ MODULE AtomicStore ------------------------------
(***************************************************************************)
(* What JsonStore promises its callers: one database, changed by one       *)
(* mutation at a time, in the order the mutations were submitted.  A        *)
(* mutation takes effect and is acknowledged in the same step or leaves no  *)
(* trace.  A crash forgets every caller; the mutation that was being        *)
(* written is in the database afterwards or is not, and no other is.        *)
(***************************************************************************)
EXTENDS Sequences

CONSTANT Mutations        \* the calls of store.mutate, each made at most once

VARIABLES db,             \* the mutations the database contains, in order
          pending,        \* submitted and not settled, oldest first
          outcome         \* what each caller has been told

vars == <<db, pending, outcome>>

Init ==
  /\ db = <<>>
  /\ pending = <<>>
  /\ outcome = [m \in Mutations |-> "unused"]

Submit(m) ==
  /\ outcome[m] = "unused"
  /\ outcome' = [outcome EXCEPT ![m] = "pending"]
  /\ pending' = Append(pending, m)
  /\ UNCHANGED db

Apply ==
  /\ pending # <<>>
  /\ db' = Append(db, Head(pending))
  /\ outcome' = [outcome EXCEPT ![Head(pending)] = "ok"]
  /\ pending' = Tail(pending)

Reject ==
  /\ pending # <<>>
  /\ outcome' = [outcome EXCEPT ![Head(pending)] = "failed"]
  /\ pending' = Tail(pending)
  /\ UNCHANGED db

Crash ==
  /\ \/ UNCHANGED db
     \/ pending # <<>> /\ db' = Append(db, Head(pending))
  /\ outcome' = [m \in Mutations |->
                   IF outcome[m] = "pending" THEN "lost" ELSE outcome[m]]
  /\ pending' = <<>>

Next == (\E m \in Mutations : Submit(m)) \/ Apply \/ Reject \/ Crash

Spec == Init /\ [][Next]_vars
================================================================================
