CONSTANTS
  Operators = {k1}
  First = k1
  Bot = bot
  Bidders = {bot, rival}
  NoBidder = NoBidder
  auctionMinimumDuration = 2
  bidAmount = 2
  RivalBids = {}
  Funds = 2
  MAXIMUM_BLOCK_INTERVAL = 1
  StartingBlocks = {0}
  MaxBlock = 5
  LastOpening = 2
  MaxEnds = 1
SPECIFICATION FairSpec
PROPERTIES
  ClosedWhenWon
CHECK_DEADLOCK FALSE
