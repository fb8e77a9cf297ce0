SPECIFICATION Spec
CHECK_DEADLOCK FALSE
CONSTANTS
  U64Max = 100
  U128Max = 1009999
  U8Max = 1
  XcavSupply = 7
  Users <- MCUsers
  None = None
  Assets <- MCAssets
  Decimals <- MCDecimals
  Configs <- MCTwoConfigs
  InitialRoles <- MCRoles
  RoleChanges <- MCDelivererChanges
  Amounts = {1}
  Scores = {10000}
  Recipients = {}
  MaxModules = 1
  MaxSponsorships = 1
  MaxBookings = 1
  MaxStray = 1
  MaxTime = 3
  Horizon = 2
  school = school
  lecturer = lecturer
  staff = staff
  usd = usd
  strike_limit = 1
  cancels = 2
  windows = 1
INVARIANTS CranksNeverRevert EscrowsExact
