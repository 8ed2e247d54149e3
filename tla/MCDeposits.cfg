SPECIFICATION FairSpec
CONSTANTS
  r = r
  a = a
  b = b
  near = near
  far = far
  NoUser = NoUser
  Wallets <- MCWallets
  Older <- MCOlder
  Networks <- MCNetworks
  Logs <- MCLogs
  Confirmation <- MCConfirmation
  StartBlock <- MCStartBlock
  LogRange <- MCLogRange
  PerToken = 1
  TokenUnit = 2
  SignupBonus = 1
  InviteeBonus = 1
  Ratio = 1
  RatioUnit = 2
  Tiers <- MCTiers
  MaxHead <- MCMaxHead
  MaxCodes <- MCMaxCodes
  MaxFaults = 2
INVARIANTS
  EventsExplainBalances
  CursorPassesHandled
  RewardsAreEarned
PROPERTIES
  DepositsAreCredited
CHECK_DEADLOCK FALSE
