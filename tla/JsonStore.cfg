\* Four calls of mutate on one store, any of them failing, with any crashes.
SPECIFICATION Spec
CONSTANTS
  Mutations = {m1, m2, m3, m4}
  NoFile = NoFile
  Torn = Torn
  Unreadable = Unreadable
INVARIANTS
  TypeOK
  SnapshotIsDurable
  AcknowledgedIsKept
  RejectedLeavesNoTrace
PROPERTIES
  UnreadableIsNotOverwritten
  RefinesAtomicStore
  EveryCallSettles
\* A server that refuses its file ends.
CHECK_DEADLOCK FALSE
