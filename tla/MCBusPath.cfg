\* Reads and bursts on the shared bus, over a mapped address and an unmapped
\* one, and on the debug port, against a CPU that does what it likes.
CONSTANTS
  Lengths = {1, 2, 3, 4}
  AddrMod = 4
  MaxPend = 7
  HostWaits = TRUE
  Crosses = FALSE
  ZipPort = {2, 3}
  Unmapped = {0}
  DevMax = 2
SPECIFICATION PathSpec
INVARIANTS
  ReadExact
  AnswersReported
  RightOwner
  NothingLostInPath
PROPERTIES
  NoAnswerAbandoned
  KeepsRequestRules
