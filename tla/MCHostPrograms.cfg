\* Two words of memory, four sectors of flash whose first holds the FPGA's
\* configuration, a register and the program counter, two peripherals.
CONSTANTS
  NCpu = 2
  PC = 1
  Followed = {0, 1, 3, 4}
  Value = {0, 1}
  NWord = 2
  RamWords = 2
  StartHalted = TRUE
  FlashBytes = 128
  PageB = 8
  NPages = 4
  EraseB = 16
  Images <- MCImages
  RESET_ADDRESS = 32
  MaxFaults = 1
  Columns = 1
  NShown = 2
  FirstCounter = 1
  Bitstream = {3, 17, 35}
SPECIFICATION Spec
INVARIANTS
  LoadedAsFile
  NoOldCode
  RegistersShown
  TypedLands
PROPERTIES
  BitstreamKept
  LoadEnds
