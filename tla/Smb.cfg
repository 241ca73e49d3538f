SPECIFICATION MCSpec
CONSTANTS
  t1 = t1
  t2 = t2
  Workloads <- MCWorkloads
  LeaseKeys = {"k1", "k2", "o1"}
  TradKeys = {"o1"}
  Openers <- MCOpeners
  WordBits = 2
  IdSpace = 12
  MaxCredits = 3
  MaxCharge = 2
  MaxGrant = 2
  MaxHigh = 7
  MaxAsyncCredits = 2
INVARIANTS
   Compatible AskedHonoured AtMostOnce CreditsKept
\* Message ids are bounded and run out.
CHECK_DEADLOCK FALSE
