CONSTANTS
  a = a
  b = b
  c = c
  Peers = {a, b}
  Founder = a
  Admins = {a}
  Quorum = 1
  MaxOps = 6
  MaxPending = 2
  Rank <- MCRank
SPECIFICATION FairSpec
INVARIANTS TypeOK CausallyClosed SamePast SameVerdict
PROPERTY Convergence
CHECK_DEADLOCK FALSE
