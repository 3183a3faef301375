SPECIFICATION Spec
CONSTANTS
  TRIES = 1
  POLLS = 1
  QUEUE = 6
  MaxFlaps = 3
INVARIANTS
  StaticWins
CHECK_DEADLOCK FALSE
