SPECIFICATION FairSpec
CONSTANTS
  u1 = u1
  k1 = k1
  k2 = k2
  NoKey = NoKey
  Users <- MCUsers
  Jobs <- MCJobs
  Owner <- MCOwner
  Hold <- MCHold
  Funds <- MCFunds
  Streamed <- MCStreamed
  Ahead <- MCAhead
  Keys <- MCKeys
  Usages <- MCUsages
  DefaultLimit = 1
  Limits <- MCLimits
  BatchLimit = 1
  MaxSlots = 1
  MaxAttempts = 2
  CooldownAfter = 2
  Upsets = {"restarts"}
  MaxUpsets = 1
PROPERTIES
  JobsTerminate
CHECK_DEADLOCK FALSE
