---------------------------- MODULE MCRunLifecycle ----------------------------
(* Small instances of RunLifecycle: one agent, several messages, Stop and Delete. *)
EXTENDS RunLifecycle, TLC

CONSTANTS a1, r1, r2, r3, o1, o2

AllToOne == [r \in Runs |-> a1]

OpsToOne == [o \in Ops |-> a1]

StopAndDelete == [o \in Ops |-> IF o = o2 THEN "delete" ELSE "stop"]

StopsOnly == [o \in Ops |-> "stop"]
===============================================================================
