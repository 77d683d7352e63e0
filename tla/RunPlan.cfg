\* Every dependency relation of three workers, under every mix of controls;
\* timed adapters may hang, everything else settles.
SPECIFICATION FanoutSpec
CONSTANTS
  NumWorkers = 3
  MaxConcurrency = 2
  Requested <- MCRequested
  Controls = {"none", "deadline", "cancelled"}
  AdapterResults <- MCAdapterResults
  Path = {"result.json"}
  NoPath = "-"
  Deliveries <- MCDeliveries
  RequiredSets <- MCRequiredSets
INVARIANTS
  DependencyOrder
  ConcurrencyBound
  AlwaysSchedulable
  HonestReport
  AggregateIsRight
PROPERTIES
  ImplementsPlanContract
  PlanEnds
