\* A timeout while docker run is under way.
SPECIFICATION Spec
CONSTANTS
  Count = 2
  MaxReleases = 1
INVARIANTS
  LateProvisioningTornDown
\* The guarded call ends.
CHECK_DEADLOCK FALSE
