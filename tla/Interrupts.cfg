\* The timer, the keyboard, the diskette and, on the slave, the clock and the
\* mouse.
CONSTANTS
  Lines = {0, 1, 6, 8, 12}
  Fault = 16
SPECIFICATION Spec
INVARIANTS NoNesting NothingLeftInService
PROPERTY PendingServed
