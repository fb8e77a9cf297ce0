SPECIFICATION Spec
CHECK_DEADLOCK FALSE
CONSTANTS
  Users <- MCUsers
  None = None
  RegionCodes <- MCRegionCodes
  Configs <- MCTwoConfigs
  InitialOperators <- MCUsers
  Operators <- MCOperators
  Amounts = {1, 2}
  Supplies = {1000, 2000}
  U64Max = 2000
  I64Max = 10
  MaxProposals = 2
  MaxTime = 3
  Horizon = 1
  ann = ann
  bob = bob
  england = england
INVARIANTS TypeOK OneCandidacy VaultBacked TallyBacked NothingStaysLocked
