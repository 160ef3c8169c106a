CONSTANTS
  Operators = {k1, k2}
  First = k1
  Bot = bot
  Bidders = {bot, rival}
  NoBidder = NoBidder
  auctionMinimumDuration = 2
  bidAmount = 2
  RivalBids = {1, 2, 3}
  Funds = 2
  MAXIMUM_BLOCK_INTERVAL = 1
  StartingBlocks = {0, 1}
  MaxBlock = 5
  LastOpening = 2
  MaxEnds = 1
SPECIFICATION LiveSpec
INVARIANTS
  TypeOK
  LeadIsTracked
  RowIsJustified
PROPERTIES
  Serves
CHECK_DEADLOCK FALSE
