\* Three mutations, every interleaving with the coordinator, any one loss.
SPECIFICATION FairSpec
CONSTANTS
  Mutator = {m1, m2, m3}
  Seed = seed
  NoLease = none
  MaxAttempts = 2
  MaxLosses = 1
INVARIANTS
  PublishedIsReadable
PROPERTIES
  ImplementsSite
  MutationsEnd
\* Every mutation ends.
CHECK_DEADLOCK FALSE
