SPECIFICATION Spec
CONSTANTS
  Ids = {0, 1, 2, 3, 5, 8, 9}
  Keys = {0, 1, 2, 3, 4, 5, 6, 7, 11, 12, 24}
INVARIANTS SelectsFromSortedList SelectsEvenly NegativeKeysAreMultiples
