CONSTANTS
  N = 2
  Capacity = 1
  MaxTyped = 4
SPECIFICATION BackFairSpec
PROPERTY ActivelyListens
CHECK_DEADLOCK FALSE
