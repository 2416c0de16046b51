\* wbuexec.v:166-195: an error seen while the read is still being requested.
CONSTANTS
  Lengths = {1, 3}
  AddrMod = 4
  MaxPend = 3
  HostWaits = TRUE
SPECIFICATION Spec
INVARIANT WaitsForAnswers
