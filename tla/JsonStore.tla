------------------------------- MODULE JsonStore -------------------------------
(***************************************************************************)
(* The control plane's only database (store.ts): one in-memory document,    *)
(* replaced by one mutation at a time, and one JSON file, replaced by       *)
(* writing launchpad.json.tmp and renaming it over launchpad.json.          *)
(*                                                                          *)
(* A database is abstracted to the sequence of the mutations it contains.   *)
(* Each call of mutate is a value of Mutations; its function may throw (a   *)
(* 404 or a 409 in the callers) and each of the three file operations may   *)
(* fail or be cut short by a crash of the process.                          *)
(***************************************************************************)
EXTENDS Sequences

CONSTANTS Mutations,      \* the calls of mutate, each made at most once
          NoFile,         \* the path does not exist (ENOENT)
          Torn,           \* a file whose writing has begun and not ended
          Unreadable      \* a file JSON.parse or migrateDatabase refuses

FileStates == {NoFile, Torn, Unreadable}

ASSUME FileStatesAreNotDatabases ==
  /\ \A f \in FileStates : f \notin Seq(Mutations)
  /\ NoFile # Torn /\ NoFile # Unreadable /\ Torn # Unreadable

VARIABLES phase,          \* "down", "creating" (initialize, no file), "up", "refused"
          data,           \* this.data
          queue,          \* this.queue: calls not settled, oldest first
          next,           \* the clone the running mutation writes
          io,             \* how far persist has come
          tmp,            \* launchpad.json.tmp
          file,           \* launchpad.json
          outcome         \* what each caller of mutate has been told

memory == <<phase, data, queue, next, io>>
vars   == <<phase, data, queue, next, io, tmp, file, outcome>>

Databases == Seq(Mutations)
Phases    == {"down", "creating", "up", "refused"}
IoSteps   == {"none", "staged", "writing", "written", "renamed"}
Outcomes  == {"unused", "pending", "ok", "failed", "lost"}

Contains(db, m) == \E i \in DOMAIN db : db[i] = m

\* What readFile and migrateDatabase make of the file.
Stored == IF file \in FileStates THEN <<>> ELSE file

--------------------------------------------------------------------------------
(* Mutated forms of actions below: the slips the properties must notice. *)

\* Any read error is taken for a missing file.
LoadMissingOnAnyError ==
  /\ phase = "down"
  /\ file \in FileStates
  /\ phase' = "creating" /\ next' = data /\ io' = "staged"
  /\ UNCHANGED <<data, queue, tmp, file, outcome>>

\* this.data is assigned before the file is written.
RunMutationInPlace ==
  /\ phase = "up" /\ io = "none" /\ queue # <<>>
  /\ next' = Append(data, Head(queue))
  /\ data' = next'
  /\ io' = "staged"
  /\ UNCHANGED <<phase, queue, tmp, file, outcome>>

\* The newest call runs first.
RunMutationNewest ==
  /\ phase = "up" /\ io = "none" /\ queue # <<>>
  /\ next' = Append(data, queue[Len(queue)])
  /\ io' = "staged"
  /\ UNCHANGED <<phase, data, queue, tmp, file, outcome>>

\* writeFile goes to the real path.
BeginWriteOverFile ==
  /\ io = "staged"
  /\ file' = Torn /\ tmp' = Torn
  /\ io' = "writing"
  /\ UNCHANGED <<phase, data, queue, next, outcome>>

\* The caller is answered before the rename.
CommitUnrenamed ==
  /\ phase = "up" /\ io = "written"
  /\ data' = next /\ io' = "none"
  /\ outcome' = [outcome EXCEPT ![Head(queue)] = "ok"]
  /\ queue' = Tail(queue)
  /\ UNCHANGED <<phase, next, tmp, file>>

\* The rejection is swallowed: the chain goes on, the caller is never told.
PersistFailsUnanswered ==
  /\ io \in {"staged", "writing", "written"}
  /\ io' = "none"
  /\ phase = "up" /\ queue' = Tail(queue)
  /\ UNCHANGED <<phase, data, next, tmp, file, outcome>>

--------------------------------------------------------------------------------

Init ==
  /\ phase = "down"
  /\ data = <<>> /\ queue = <<>> /\ next = <<>>
  /\ io = "none"
  /\ tmp = NoFile
  /\ file \in {NoFile, Unreadable, <<>>}
  /\ outcome = [m \in Mutations |-> "unused"]

--------------------------------------------------------------------------------
(* initialize: the file is read, or an empty one is written when there is none. *)

Load ==
  /\ phase = "down"
  /\ file \notin FileStates
  /\ phase' = "up"
  /\ data' = file
  /\ UNCHANGED <<queue, next, io, tmp, file, outcome>>

LoadMissing ==
  /\ phase = "down"
  /\ file = NoFile
  /\ phase' = "creating"
  /\ next' = data
  /\ io' = "staged"
  /\ UNCHANGED <<data, queue, tmp, file, outcome>>

\* Anything but ENOENT is thrown on to index.ts, which does not listen.
LoadRefused ==
  /\ phase = "down"
  /\ file \in {Torn, Unreadable}
  /\ phase' = "refused"
  /\ UNCHANGED <<data, queue, next, io, tmp, file, outcome>>

Created ==
  /\ phase = "creating"
  /\ io = "renamed"
  /\ phase' = "up"
  /\ io' = "none"
  /\ UNCHANGED <<data, queue, next, tmp, file, outcome>>

--------------------------------------------------------------------------------
(* mutate: the call joins the promise chain; the oldest one runs alone. *)

Submit(m) ==
  /\ phase = "up"
  /\ outcome[m] = "unused"
  /\ queue' = Append(queue, m)
  /\ outcome' = [outcome EXCEPT ![m] = "pending"]
  /\ UNCHANGED <<phase, data, next, io, tmp, file>>

\* The oldest call leaves the chain; .catch lets the one behind it start.
Settle(result) ==
  /\ outcome' = [outcome EXCEPT ![Head(queue)] = result]
  /\ queue' = Tail(queue)

RunMutation ==
  /\ phase = "up" /\ io = "none" /\ queue # <<>>
  /\ next' = Append(data, Head(queue))
  /\ io' = "staged"
  /\ UNCHANGED <<phase, data, queue, tmp, file, outcome>>

MutationThrows ==
  /\ phase = "up" /\ io = "none" /\ queue # <<>>
  /\ Settle("failed")
  /\ UNCHANGED <<phase, data, next, io, tmp, file>>

Commit ==
  /\ phase = "up" /\ io = "renamed"
  /\ data' = next
  /\ io' = "none"
  /\ Settle("ok")
  /\ UNCHANGED <<phase, next, tmp, file>>

--------------------------------------------------------------------------------
(* persist: writeFile of the temporary path, then rename over the real one. *)

BeginWrite ==
  /\ io = "staged"
  /\ tmp' = Torn
  /\ io' = "writing"
  /\ UNCHANGED <<phase, data, queue, next, file, outcome>>

EndWrite ==
  /\ io = "writing"
  /\ tmp' = next
  /\ io' = "written"
  /\ UNCHANGED <<phase, data, queue, next, file, outcome>>

Rename ==
  /\ io = "written"
  /\ file' = tmp
  /\ tmp' = NoFile
  /\ io' = "renamed"
  /\ UNCHANGED <<phase, data, queue, next, outcome>>

\* writeFile or rename rejects: the temporary file stays as it is.  Under
\* mutate the caller sees the error; under initialize the process ends.
PersistFails ==
  /\ io \in {"staged", "writing", "written"}
  /\ io' = "none"
  /\ \/ phase = "up" /\ Settle("failed") /\ UNCHANGED phase
     \/ phase = "creating" /\ phase' = "down" /\ UNCHANGED <<queue, outcome>>
  /\ UNCHANGED <<data, next, tmp, file>>

--------------------------------------------------------------------------------
(* The process dies anywhere: the memory and every caller are gone. *)

Crash ==
  /\ phase \in {"creating", "up"}
  /\ phase' = "down"
  /\ data' = <<>> /\ queue' = <<>> /\ next' = <<>>
  /\ io' = "none"
  /\ outcome' = [m \in Mutations |->
                   IF outcome[m] = "pending" THEN "lost" ELSE outcome[m]]
  /\ UNCHANGED <<tmp, file>>

Persist == BeginWrite \/ EndWrite \/ Rename \/ PersistFails

Next ==
  \/ Load \/ LoadMissing \/ LoadRefused \/ Created
  \/ \E m \in Mutations : Submit(m)
  \/ RunMutation \/ MutationThrows \/ Commit
  \/ Persist
  \/ Crash

\* Every await settles: the file system answers and the promise chain runs on.
Fairness == WF_vars(RunMutation \/ MutationThrows \/ Commit \/ Persist)

Spec == Init /\ [][Next]_vars /\ Fairness

--------------------------------------------------------------------------------
(* Properties *)

\* Every variable has its type; launchpad.json itself is never a torn file.
TypeOK ==
  /\ phase \in Phases
  /\ data \in Databases /\ queue \in Databases /\ next \in Databases
  /\ io \in IoSteps
  /\ tmp \in {NoFile, Torn} \cup Databases
  /\ file \in {NoFile, Unreadable} \cup Databases
  /\ outcome \in [Mutations -> Outcomes]

\* snapshot() shows committed data only: a crash at this instant would give
\* back exactly what readers see now, with at most the one mutation whose
\* rename has happened and whose caller has not been answered.
SnapshotIsDurable ==
  phase = "up" =>
    Stored \in {data} \cup (IF io = "renamed" THEN {Append(data, Head(queue))} ELSE {})

\* A caller whose mutate resolved finds its mutation in the file for ever,
\* through any later failure, crash and restart.
AcknowledgedIsKept ==
  \A m \in Mutations : outcome[m] = "ok" => Contains(Stored, m)

\* A caller whose mutate rejected finds nothing of it, in the file or in
\* memory: a mutation that throws or cannot be written leaves no trace.
RejectedLeavesNoTrace ==
  \A m \in Mutations :
    outcome[m] = "failed" => ~Contains(Stored, m) /\ ~Contains(data, m)

\* A file this version cannot read is never replaced by an empty database.
UnreadableIsNotOverwritten ==
  [][file = Unreadable => file' = Unreadable]_file

\* The store is the atomic one: memory is what it serves while it is up, the
\* file what it will serve after a restart.
Atomic == INSTANCE AtomicStore WITH
            db      <- IF phase = "up" THEN data ELSE Stored,
            pending <- queue

RefinesAtomicStore == Atomic!Spec

\* Every call of mutate is answered, or its process has died: one failing
\* mutation does not stop the ones queued behind it.
EveryCallSettles ==
  \A m \in Mutations : outcome[m] = "pending" ~> outcome[m] # "pending"
================================================================================
