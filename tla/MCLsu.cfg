CONSTANTS
  NumOps = 5
  LdqSize = 2
  StqSize = 2
  Programs <- LoadFirst
SPECIFICATION Spec
INVARIANTS
  NoLostWakeup
  CompletionAssertsHold
  LoadsFollowStores

