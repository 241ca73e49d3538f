\* A restart between the stages of a break whose final target is None.
SPECIFICATION MCSpec
CONSTANTS
  t1 = t1
  t2 = t2
  Workloads <- RestartLoads
  LeaseKeys = {"k1", "k2", "o1"}
  TradKeys = {"o1"}
  Openers <- MCOpeners
  WordBits = 2
  IdSpace = 12
  MaxCredits = 3
  MaxCharge = 2
  MaxGrant = 2
  MaxHigh = 7
  MaxAsyncCredits = 2
INVARIANT AskedHonoured
CHECK_DEADLOCK FALSE
