CONSTANTS
  r1 = r1
  r2 = r2
  Runs <- MCRuns
  Remote <- MCRemote
  Workers = 1
  MaxChanges = 2
  MaxUpsets = 1
SPECIFICATION FairSpec
INVARIANTS TypeOK RemoteWorkBlocksResumption
PROPERTIES ImplementsSafeSuspension SuspensionSettles
CHECK_DEADLOCK FALSE
