CONSTANTS
  \* The command FIFO in front of the bus master: writes are spaced.
  FLEN = 4
  Data = {d1, d2}
  SpacedWrites = TRUE
  \* Two different requests, at most two of them in the devices.
  Request = {q1, q2}
  MaxPend = 2
  \* Two words, tables of four entries, characters four clocks apart.
  Value = {0, 1}
  T = 4
  FMax = 3
  Gap = 4
  \* A character a few clocks long, a buffer of three, two clients.
  UARTLEN = 2
  BufLen = 3
  MaxChar = 5
  Conns = 2
  \* Three data bits, six clocks per baud.
  W = 3
  B = 6
  \* The shortest scope the programs accept.
  LEN = 8
  Holdoffs = {0, 3, 9}
SPECIFICATION PartsSpec
INVARIANTS
  NothingLost
  HostReadsWord
  CommandsArrive
  PipeIntact
  CharsArrive
  ScopeShows
PROPERTIES
  ImplementsQueue
  DelayImplementsQueue
