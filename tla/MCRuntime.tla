------------------------------- MODULE MCRuntime --------------------------------
(* Small instances of Runtime: one agent, two messages, a Stop. *)
EXTENDS Runtime, TLC

CONSTANTS a1, r1, r2, o1

AllToOne == [r \in Runs |-> a1]

OpsToOne == [o \in Ops |-> a1]

StopsOnly == [o \in Ops |-> "stop"]
===============================================================================
