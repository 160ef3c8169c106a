CONSTANTS
  b1 = b1
  b2 = b2
  b3 = b3
  NoBlock = NoBlock
  Blocks = {b1, b2, b3}
  HashLists <- MCHashLists
  superblockTimeout = 2
  respondMerkleRootHashesCost = 2
  respondBlockHeaderCost = 1
  queryMerkleRootHashesCost = 1
  Deposits = {0, 6}
  maxHashes = 4
SPECIFICATION DriverSpec
CHECK_DEADLOCK FALSE
INVARIANTS
  TypeOK
  ChallengerCanMove
  QueriesAccepted
PROPERTIES
  RightVerdict
  BattleEnds
