SPECIFICATION Spec
CONSTANTS
  NUM_RANKS = 2
  NUM_BANKS = 2
  NUM_ROWS = 2
  NUM_COLS = 1
  CL = 2
  AL = 0
  BL = 4
  tRAS = 4
  tRCD = 3
  tRRD = 1
  tRC = 6
  tRP = 2
  tCCD = 2
  tRTP = 2
  tWTR = 1
  tWR = 1
  tRTRS = 1
  tRFC = 5
  tFAW = 13
  tCKE = 2
  tXP = 2
  tCMD = 1
  REFRESH_CYCLES = 40
  TOTAL_ROW_ACCESSES = 1
  TRANS_QUEUE_DEPTH = 1
  Inis <- Inis_
  Addresses = {0, 1, 4}
  TransLimit = 3
  StartAt = {20, 7, 2}
  IdleLimit = 1
INVARIANT NoError DataBusExclusive NoRefreshForgotten
PROPERTY AccessesInOrder AllAnswered
