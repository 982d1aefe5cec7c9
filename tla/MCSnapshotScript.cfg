\* Reorganisations of one block, so that with three blocks a snapshot may end at
\* blocks 0 to 2, and a build of the last one has two requests.
CONSTANTS
  Addresses = {a1}
  Filters = {Burn}
  Runs = {r1}
  OverlappingReorgOffset = 0
  LogsFetchChunkSize = 1
  MaxReorgDepth = 1
  MaxBlock = 3
  NoNumber = NoNumber
  RpcAttempts = 2
  NotInteger = NotInteger
SPECIFICATION ScriptSpec
INVARIANTS ScriptTypeOK VettedIsExact FewErrorsDoNotFail
PROPERTY DeploymentsAreRestarts
CHECK_DEADLOCK FALSE
