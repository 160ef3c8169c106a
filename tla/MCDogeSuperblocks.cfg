CONSTANTS
  Superblocks = {s1, s2, s3, s4, s5, s6}
  NoSuperblock = NoSuperblock
  Works = {1, 2}
  AncestorStep = 2
  NumAncestorDepths = 3
SYMMETRY Symmetry
CONSTRAINT Scope
SPECIFICATION Spec
INVARIANTS
  TypeOK
  ApprovedClosed
  BestIsHeaviest
  SkipListServes
PROPERTIES
  TreeSpec
CHECK_DEADLOCK FALSE
