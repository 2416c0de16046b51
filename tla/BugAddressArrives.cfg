\* The SDRAM, the addresses below it, and the first of the ZipCPU's debug port.
CONSTANTS
  B = 4
  Top = 258
  BusSpace = 4096
  \* What only the link itself looks at.
  T = 2
  MaxLen = 1
  MaxWr = 1
  Mapped = {}
  EowLen = 8
  ReadsBack = FALSE
  Catches = FALSE
  LinkMax = 3
SPECIFICATION CodeSpec
INVARIANTS
  AddressArrives
