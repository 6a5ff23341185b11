SPECIFICATION Spec
CONSTANTS
  NumAddrs = 6
  Permissions <- MCPermissions
  MaxRegions = 3
  NoStack = NoStack
  RuleSets <- MCRuleSets
  AccessSizes = {1, 2}
  MaxIntegers <- MCMaxIntegers
INVARIANTS TypeOK CheckIsPointwise PermissionsOfRegion NoIntegerMet
CHECK_DEADLOCK FALSE
