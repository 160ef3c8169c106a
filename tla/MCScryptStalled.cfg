CONSTANTS
  Accounts = {a1, a2}
  Third = Third
  ClaimIds = {c1}
  NoAccount = NoAccount
  minDeposit = 1
  defaultChallengeTimeout = 1
  responseTime = 1
  steps = 3
  Amounts = {1}
  MaxBalance = 2
  MaxChallenges = 1
  MaxBegun = 0
SPECIFICATION FairSpec
PROPERTIES
  GameEnds
CHECK_DEADLOCK FALSE
