\* Expected to fail: two processes, and a call whose read went stale.
SPECIFICATION Spec
CONSTANTS
  Process = {runner, client}
  Owner = runner
  Reason = {r1, r2}
  NoReason = NoReason
  CreateStatus <- MCCreateStatus
  Updates <- MCUpdates
  MaxAttempts = 1
PROPERTIES
  TerminalIsFinal
CHECK_DEADLOCK FALSE
