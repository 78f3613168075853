CONSTANTS
  Cleaners = {"worker", "config"}
  Kinds = {}
  MaxUID <- MCPodReplaced
  MaxFaults = 0
SPECIFICATION Spec
INVARIANT ConfirmedPassStopsWork
PROPERTY CompletedPodKept
