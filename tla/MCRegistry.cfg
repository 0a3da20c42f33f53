\* Three sessions are the fewest for which a shift can skip a channel.
CONSTANTS
  Connections = {s1, s2, s3}
  Rebuilders = {r1}
  MaxRebuilds = 2
  NoSession = NoSession
  Readers = {s1, s2, s3}
SPECIFICATION FeedSpec
SYMMETRY SessionSymmetry
INVARIANTS
  FeedTypeOK
  SubscribersExact
  BehindIsUnderWay
