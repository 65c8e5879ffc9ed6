SPECIFICATION Spec
CONSTANTS
  FUs = {"ALU", "EXT", "MUL", "LU", "PACK"}
  Machines <- MCMachines
  Programs <- MCPrograms
  Functions <- MCFunctions
  WindowSize = 4
  IssueQueueCapacity = 6
  MaxLoadCycles = 5
INVARIANTS
  UnitsAccounted
  StreamsMatchQueue
  ResultsFollowArguments
PROPERTY AllFinish
