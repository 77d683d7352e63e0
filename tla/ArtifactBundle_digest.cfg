\* Runs in which nothing fails.
SPECIFICATION BundleSpec
CONSTANTS
  Wishes = {{}, {"preview", "verify"}, {"evidence", "agent", "bench"}}
  MaxFaults = 0
  MaxChanges = 0
INVARIANTS
  FinishedBundleVerifies
\* The run ends.
CHECK_DEADLOCK FALSE
