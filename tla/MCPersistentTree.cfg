\* Nothing is left to do once the bounds are reached.
SPECIFICATION Spec
CHECK_DEADLOCK FALSE
CONSTANTS
  Keys = {5, 6, 7}
  MaxDeltas = 4
  MaxOps = 6
  Rewrites = 5
INVARIANTS TreeIsValid TreeHoldsContent LogHoldsSnapshot PointersCanBeFetched NilIsNeverFresh
 
