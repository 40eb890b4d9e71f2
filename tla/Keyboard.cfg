\* Three key actions and one movement of the mouse, at any moment.
CONSTANTS
  Sets = {1}
  Leftover = 28
  Keys = {"one", "lshift", "rctrl"}
  MaxActions = 3
  MaxMoves = 1
  RingSize = 4
SPECIFICATION Spec
INVARIANTS TypeOK InitRight PanicHasReason EventsFollowKeys
PROPERTIES InitEnds KeysReported
\* When everything has been reported the driver waits for the next key.
CHECK_DEADLOCK FALSE
