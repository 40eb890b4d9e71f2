SPECIFICATION Spec
CONSTANTS
  Sets = {1}
  Leftover = 28
  Keys = {"one", "lshift"}
  MaxActions = 3
  MaxMoves = 0
  RingSize = 4
INVARIANT ReleasedIsItsOwn
\* When everything has been reported the driver waits for the next key.
CHECK_DEADLOCK FALSE
