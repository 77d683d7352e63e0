\* Each component of the Playground backend on its own: two commands and
\* destroy(), three requests on two listeners, three processes at one cache,
\* three fuzz cases with two checkpoint names, a failing case of five steps.
SPECIFICATION PlaygroundSpec
CONSTANTS
  Command = {c1, c2}
  NoCommand = none
  Timed = {c1}
  Unguarded = {c1}
  MaxRuns = 2
  MaxAttempts = 2
  Request = {r1, r2, r3}
  Process = {p1, p2, p3}
  Cases = 3
  Name = {"a", "b"}
  MaxSteps = 5
INVARIANTS
  OwnSignal
  ResolvedLeavesNothing
  OneAtATimeInOrder
  ServerOutlivesClients
  GivenArchiveStays
  DownloadedOnce
  CasesAreIsolated
  MinimizedStillFails
PROPERTIES
  AbortsTakeEffect
  QueuesDrain
  RequestsEnd
\* Every component comes to its end.
CHECK_DEADLOCK FALSE
