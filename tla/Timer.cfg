\* Eight ticks to a round of _ticks, a device on the slave besides the timer,
\* frequencies the 16-bit divisor can express.
CONSTANTS
  Lines = {0, 12}
  Fault = 16
  TickLimit = 8
  PIT_FREQ = 1193180
  DivLimit = 65536
  Asks = {0, 1, 3}
  Freqs = {0, 19, 1193180}
  Watch = 5
SPECIFICATION TimerSpec
INVARIANT BootIsMasked
PROPERTIES SleepNotShort SleepNotLong SleepEnds
