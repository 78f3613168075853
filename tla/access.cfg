CONSTANTS
  Specs <- MCMixed
  n1 = n1
  n2 = n2
  Namespaces <- MCNamespaces
  Options <- MCOptions
  MaxLaunch = 4
  MaxRevisions = 1
  MaxFaults = 1
SPECIFICATION FairSpec
INVARIANTS TypeOK DeletedRunLeavesNothing
PROPERTIES DeletionCompletes TerminalRunExpires
CHECK_DEADLOCK FALSE
