\* The site changes once between two collections.
SPECIFICATION BundleSpec
CONSTANTS
  Wishes = {{}, {"preview", "verify"}, {"evidence", "agent", "bench"}}
  MaxFaults = 0
  MaxChanges = 1
INVARIANTS
  IdNamesPatch
\* The run ends.
CHECK_DEADLOCK FALSE
