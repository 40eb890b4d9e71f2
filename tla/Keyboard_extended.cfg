SPECIFICATION Spec
CONSTANTS
  Sets = {1}
  Leftover = 28
  Keys = {"lshift", "rctrl"}
  MaxActions = 2
  MaxMoves = 0
  RingSize = 4
INVARIANT ModifiersAreNoKeys
\* When everything has been reported the driver waits for the next key.
CHECK_DEADLOCK FALSE
