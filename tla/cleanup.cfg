CONSTANTS
  Cleaners = {"worker"}
  Kinds = {"pool"}
  MaxUID <- MCReplaced
  MaxFaults = 1
SPECIFICATION FairSpec
INVARIANTS TypeOK ConfirmedPassStopsWork
PROPERTIES ForeignPodUntouched WorkloadRemoved
