\* Each component of the host process on its own, with every failure,
\* timeout, abort and kill it may meet.
SPECIFICATION HostSpec
CONSTANTS
  Count = 3
  MaxReleases = 2
  Command = {c1}
  Descendant = {d1, d2}
  MaxBytes = 2
  MaxWritten = 3
  Widths = {1, 2}
  Wishes = {{}, {"preview", "verify"}, {"evidence", "agent", "bench"},
            {"typed", "evidence", "preview"}}
  MaxFaults = 1
  MaxChanges = 1
INVARIANTS
  OnlyKnownLeftovers
  ReportIsFinal
  LeaseIsTrue
  CapturedFaithfully
  ListedFilesExist
  OneFaultIsMended
PROPERTIES
  ImplementsServiceContract
  ServicesEnd
  StartAnswers
  TimeoutEndsCommand
\* Every component comes to its end.
CHECK_DEADLOCK FALSE
