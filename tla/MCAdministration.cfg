SPECIFICATION MCSpec
CHECK_DEADLOCK FALSE
CONSTANTS
  Users <- MCUsers
  None = None
  deployer = owner
  Candidates = {council}
  RoleNames <- MCRoleNames
  Mints = {xcav, other}
  Kinds <- MCKinds
  Amounts = {1, 2}
  MaxSupply = 2
  owner = owner
  council = council
INVARIANTS MCTypeOK DepositsCovered FundsMovable
PROPERTIES RolesGated
