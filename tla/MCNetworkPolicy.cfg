SPECIFICATION SuiteSpec
CONSTANTS
  Rules <- MCRules
  MaxDeviation = 2
  DayLength = 4
  AddressBits = 5
  RecoveryPrefixes = {1, 2}
  PoolFirst = 3
  PoolLast = 5
  MAX_POOL_SIZE = 3
  Macs = {"m", "n"}
  LanMoves <- MCMoves
  Pools <- MCPools
  Spots = {8, 10, 13}
  Subnets <- MCSubnets
  FirstPlan <- MCPlan
  MaxEdits = 3
INVARIANTS
  FirewallSound ExplanationAgrees ScheduleSound PlanSound
PROPERTY UnconfirmedKeepsManagement
CHECK_DEADLOCK FALSE
