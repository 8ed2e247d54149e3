SPECIFICATION Spec
CONSTANTS
  u1 = u1
  u2 = u2
  Users <- MCUsers
  Jobs <- MCJobs
  Owner <- MCOwner
  Hold <- MCHold
  RawJobs <- MCRawJobs
  Costs <- MCCosts
  Referrals <- MCReferrals
  Deposits <- MCDeposits
  Rewards <- MCRewards
  MaxDeposited <- MCMaxDeposited
  BatchLimit = 2
  MaxFaults = 1
INVARIANTS
  TypeOK
  LockedMatchesHolds
  Solvent
  RecordedOnce
  SuccessIsPaidWork
  CopiesAreGrounded
  SubmittedOncePerFault
  NoOrphanWithoutFault
  ClosedJobsAreStopped
PROPERTIES
  ClosedIsFinal
  AbortedTaskIsStopped
  ImplementsBilling
CHECK_DEADLOCK FALSE
