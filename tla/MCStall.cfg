SPECIFICATION HSpec
CHECK_DEADLOCK FALSE
CONSTANTS
  Users <- MCUsers
  None = None
  Voters = {staff}
  Assets <- MCAssets
  Decimals <- MCDecimals
  Configs <- MCTwoConfigs
  InitialRoles <- MCRoles
  RoleChanges <- MCRoleChanges
  TokenCounts = {2}
  Powers = {2}
  XcavSupply = 12
  U64Max = 100
  U128Max = 1009999
  I64Max = 3
  MaxBanned = 1
  MaxProposals = 1
  MaxStray = 1
  MaxTime = 3
  Horizon = 0
  amy = amy
  ben = ben
  staff = staff
  usd = usd
PROPERTIES SlashedForOwnStall
