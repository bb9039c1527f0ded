SPECIFICATION Spec
CONSTANTS
  Catalog = {2, 4}
  User = {7, 9, 11, 13}
INVARIANT StackHoldsUnvisited
 
