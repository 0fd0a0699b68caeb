\* Two clients and up to three calls: a read, a write that times out, a write of
\* the other client, and the retry.
SPECIFICATION Spec
CONSTANTS
  c1 = c1
  c2 = c2
  Clients = {c1, c2}
  Operations <- MCOperations
  Catalogs <- MCCatalogs
  Arguments <- MCArguments
  RequestIds <- MCRequestIds
  MaxCalls = 3
INVARIANTS
  TypeOK
  ReadOnlyNeverWrites
  CallsWriteAtMostOnce
  GuardedWritesReplaceWhatWasRead
  ChosenIdsExecuteOnce
PROPERTY
  CallsAreAnswered
CHECK_DEADLOCK FALSE
