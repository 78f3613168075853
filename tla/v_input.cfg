CONSTANTS
  Specs <- MCHub
  n1 = n1
  n2 = n2
  Namespaces <- MCNamespaces
  Options <- MCOptions
  MaxLaunch = 2
  MaxRevisions = 1
  MaxFaults = 0
SPECIFICATION Spec
INVARIANT FreshInput
CHECK_DEADLOCK FALSE
