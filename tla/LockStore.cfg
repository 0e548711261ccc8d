SPECIFICATION Spec
CONSTANTS
  Keys = {1, 2}
  Txns = {1, 2}
  LargeTxns = {1}
  Setups <- MCSetups
  Losses = {FALSE}
  LateCommit = FALSE
  DumpWaits = TRUE
  MaxLog = 3
  MaxRestarts = 1
  MaxJobs = 1
INVARIANTS
  TypeOK
  
  SnapshotLocks
  
CHECK_DEADLOCK FALSE
