CONSTANTS
  \* One address does not answer: a program ends at the first error it is told
  \* of, and the next one starts with an address.
  B = 2
  Top = 5
  Word = {0, 1}
  T = 2
  MaxLen = 2
  MaxWr = 1
  Mapped = {0,2,3,4,5}
  EowLen = 2
  ReadsBack = FALSE
  Catches = FALSE
  LinkMax = 3
  BusSpace = 6
  \* Two banks of two rows, the bank's end and the rest of it.
  Banks = 2
  Rows = 2
  Col = {0, 2}
  Value = {"d", "e"}
  Every = 14
  Soon = 5
  Startup = 3
  RDLY = 6
  \* A buffer of four words, transfers of one block and of two.
  Block = 4
  DmaSpace = 8
  MaxMove = 3
  Blocks = {0, 2}
  \* Two lines of four words, two tags and two lines that do not answer.
  Words = 4
  Lines = 2
  Tags = 2
  Targets = {3, 10}
  BadLines = {1, 3}
  PfPend = 2
  \* A list of four entries, full at three.
  Entries = 4
  OPT_MAXDEPTH = 3
  Ids = {"a", "b"}
  \* A timer of three values, jiffies of six.
  TimerMod = 3
  JifHalf = 3
  \* A timer, the serial port and a counter.
  Pulses = {"tma"}
  Levels = {"uart"}
  Counters = {"mtc"}
SPECIFICATION BoardSpec
INVARIANTS
  ReadsRight
  WritesLand
  CommandsAccepted
  RightWord
  AnsweredInTime
  Copies
  HandsInstruction
  LoadsReturn
  RingsInTime
  NoEventLost
