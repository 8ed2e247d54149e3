SPECIFICATION DriftSpec
CONSTANTS
  u1 = u1
  u2 = u2
  Users <- MCUsers
  Jobs <- MCJobs
  Owner <- MCOwner
  Hold <- MCHold
  RawJobs <- MCRawJobs
  Costs <- MCCosts
  Referrals <- MCReferrals
  Deposits <- MCDeposits
  Rewards <- MCNoRewards
  MaxDeposited <- MCMaxDepositedTwice
  BatchLimit = 1
  MaxFaults = 1
PROPERTIES
  JobsTerminate
  LockedIsRepaired
CHECK_DEADLOCK FALSE
