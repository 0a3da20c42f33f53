\* A unit is ten seconds: lifetimes under, over and far over the margin.
CONSTANTS
  Callers = {c1, c2}
  Margin = 3
  Timeout = 1
  Lifetimes = {0, 2, 5}
  DefaultExpiry = 6
  MaxTime = 6
  NoOne = NoOne
SPECIFICATION FairSpec
INVARIANTS
  ReturnedIsFresh
  OncePerLifetime
PROPERTIES
  ApplyReturns
