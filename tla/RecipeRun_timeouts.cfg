\* Expected to fail: a timeout while the runtime is created.
SPECIFICATION Spec
CONSTANTS
  Reason = {r1}
  NoReason = NoReason
  Steps <- MCRequired
  Modes = {"plain"}
INVARIANTS
  TimeoutsSettleTimedOut
CHECK_DEADLOCK FALSE
