SPECIFICATION FairHSpec
CONSTANTS
  k1 = k1
  k2 = k2
  r1 = r1
  r2 = r2
  NoKey = NoKey
  Keys <- MCKeys
  Limits <- MCLimits
  Values <- MCValues
  Requests <- MCRequests
  TTL = 1
  MaxTime = 2
  MaxSessions = 2
CHECK_DEADLOCK FALSE
INVARIANTS HTypeOK BudgetRespected ChargedOncePerSignature AddressNeverOutdated
PROPERTIES ImplementsBudget LiveSessionKept NoSignatureAfterDestroy EveryCallAnswered ShutdownCompletes
