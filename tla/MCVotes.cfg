CONSTANTS
  a = a
  b = b
  c = c
  Peers = {a, b, c}
  Founder = a
  Admins = {}
  Quorum = 2
  MaxOps = 17
  MaxPending = 1
  Rank <- EarlyRank
SPECIFICATION VotesSpec
INVARIANT QuorumEvicts
CHECK_DEADLOCK FALSE
