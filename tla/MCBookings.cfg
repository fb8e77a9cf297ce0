SPECIFICATION Spec
CHECK_DEADLOCK FALSE
CONSTANTS
  U64Max = 100
  U128Max = 1009999
  U8Max = 2
  XcavSupply = 6
  Users <- MCUsers
  None = None
  Assets <- MCAssets
  Decimals <- MCDecimals
  Configs <- MCOneConfig
  InitialRoles <- MCBothSides
  RoleChanges <- MCDelivererChanges
  Amounts = {2}
  Scores = {10000}
  Recipients = {}
  MaxModules = 1
  MaxSponsorships = 2
  MaxBookings = 2
  MaxStray = 0
  MaxTime = 2
  Horizon = 0
  school = school
  lecturer = lecturer
  staff = staff
  usd = usd
  strike_limit = 2
  cancels = 2
  windows = 1
INVARIANTS TypeOK ClaimsCounted ClaimsBacked VaultSolvent BookingsBacked TokensAccounted SchoolAllocationFunded CancellationsCounted
