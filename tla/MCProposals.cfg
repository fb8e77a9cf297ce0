SPECIFICATION AgingSpec
CHECK_DEADLOCK FALSE
CONSTANTS
  Users <- MCUsers
  None = None
  Voters = {staff}
  Assets <- MCAssets
  Decimals <- MCDecimals
  Configs <- MCTwoConfigs
  InitialRoles <- MCRoles
  RoleChanges <- MCRoleChanges
  TokenCounts = {2}
  Powers = {2, 3}
  XcavSupply = 12
  U64Max = 100
  U128Max = 1009999
  I64Max = 2
  MaxBanned = 1
  MaxProposals = 1
  MaxStray = 1
  MaxTime = 1
  Horizon = 0
  amy = amy
  ben = ben
  staff = staff
  usd = usd
INVARIANTS TypeOK ReservationsWhole PreSponsorshipKept DepositsBacked ProposalsMoveOn TallyExact
PROPERTIES UploadDeadlineHonoured ImplementsProposalLifecycle EveryProposalEnds
