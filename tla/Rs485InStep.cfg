SPECIFICATION FairSpec
CONSTANTS
  Callers = {c1, c2}
  Requests <- MCRequests
  MaxExchanges = 4
  Late = FALSE
  Noise = FALSE
CHECK_DEADLOCK FALSE
INVARIANTS OneQuestionOneAnswer LeavesNothing
PROPERTIES EveryCallReturns ImplementsAtomicBus
