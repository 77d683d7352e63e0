\* The runner and one other process, every interleaving and every crash.
SPECIFICATION Spec
CONSTANTS
  Process = {runner, client}
  Owner = runner
  Reason = {r1}
  NoReason = NoReason
  CreateStatus <- MCCreateStatus
  Updates <- MCUpdates
  MaxAttempts = 1
INVARIANTS
  RecordNeverTorn
  SuccessAfterRunning
PROPERTIES
  CurrentWritesAreAtomic
\* Every process may crash.
CHECK_DEADLOCK FALSE
