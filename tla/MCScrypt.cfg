CONSTANTS
  Accounts = {a1, a2, a3}
  Third = a3
  ClaimIds = {c1, c2}
  NoAccount = NoAccount
  minDeposit = 1
  defaultChallengeTimeout = 0
  responseTime = 1
  steps = 4
  Amounts = {1}
  MaxBalance = 4
  MaxChallenges = 2
  MaxBegun = 1
SYMMETRY Symmetry
SPECIFICATION ScopedSpec
INVARIANTS
  Solvent
  NoImpasse
PROPERTIES
  HonestKeepsBond
CHECK_DEADLOCK FALSE
