\* Expected to fail: an advisory step swallows an interruption.
SPECIFICATION Spec
CONSTANTS
  Reason = {r1}
  NoReason = NoReason
  Steps <- MCAdvisoryFirst
  Modes = {"plain"}
INVARIANTS
  InterruptionsSettleCancelled
CHECK_DEADLOCK FALSE
