SPECIFICATION Spec
CONSTANTS
  u1 = u1
  u2 = u2
  base = base
  ZeroAddress = ZeroAddress
  Users <- MCUsers
  Addresses <- MCUsers
  Contract <- MCContract
  Networks <- MCNetworks
  Fee <- MCFee
  Minimum <- MCMinimum
  MaxPerDay <- MCMaxPerDay
  Incomes <- MCIncomes
  Auths <- MCAuths
  MaxAge = 1
  MaxLead = 0
  DayLength = 2
  PageLimit = 2
  MaxTime = 2
  MaxLost = 1
INVARIANTS
  LedgerExplainsAccount
  SettledOnce
  DailyLimits
  WalletIsCovered
PROPERTIES
  ImplementsPayouts
CHECK_DEADLOCK FALSE
