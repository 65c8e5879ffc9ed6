SPECIFICATION Spec
CONSTANTS
  Scenarios <- MCScenarios
  LdqSize = 2
  StqSize = 2
  LsuPorts = 2
  ReservationLimit = 6
  HostLimit = 3
  Readings <- MCReadings
INVARIANTS
  TraceInStep
  NumbersFollowProgram
  NothingLeftBehind
  OperandsAreLatest
PROPERTY
  RunsToTheEnd
