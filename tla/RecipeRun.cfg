\* An advisory step before a required one, under every preview option; any
\* operation may hang, the recipe timer is fair.
SPECIFICATION FairSpec
CONSTANTS
  Reason = {r1}
  NoReason = NoReason
  Steps <- MCAdvisoryFirst
  Modes = {"plain", "held", "leased"}
INVARIANTS
  SuccessIsClean
  NothingForgotten
  SettledUnlessThrown
  OutsideEndsRun
  NoDeadPreview
PROPERTIES
  RunEnds
\* A finished run has nothing left to do.
CHECK_DEADLOCK FALSE
