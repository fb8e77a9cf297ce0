SPECIFICATION MarketSpec
CHECK_DEADLOCK FALSE
CONSTANTS
  Users <- MCUsers
  None = None
  Voters = {staff}
  Assets <- MCAssets
  Decimals <- MCDecimals
  Configs <- MCConfigs
  ProposalParams <- MCProposalParams
  InitialRoles <- MCRoles
  RoleChanges = {}
  Amounts = {1}
  Scores = {10000}
  Recipients = {}
  TokenCounts = {2}
  Powers = {1}
  XcavSupply = 3
  U8Max = 1
  U64Max = 100
  U128Max = 1009999
  I64Max = 10
  MaxBanned = 1
  MaxModules = 1
  MaxSponsorships = 1
  MaxBookings = 1
  MaxProposals = 1
  MaxStray = 0
  MaxTime = 2
  Horizon = 1
  ProposeUntil = 0
  school = school
  staff = staff
  usd = usd
INVARIANTS PaidAtModulePrice VaultShared FoundedModulesSound
