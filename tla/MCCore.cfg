CONSTANTS
  NumOps = 5
  RobSize = 4
  IssueQueueCapacity = 3
  LdqSize = 2
  StqSize = 2
  RetireSize = 2
  WindowSize = 2
  Programs <- LoopTraces
SPECIFICATION FairSpec
INVARIANTS
  InFlightAgrees
  DepsAreLastInstances
  StopsWhenDone
PROPERTIES
  ImplementsWindow
  SimulationStops
