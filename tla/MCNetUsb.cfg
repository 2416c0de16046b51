\* Packets of 4 and a ring of 8; two clients; a line of one packet and one of two.
SPECIFICATION Spec
CONSTANTS
  PktLen = 4
  RxLen = 2
  BufLen = 8
  Conns = 2
  Lines = {2, 5}
  Answers = {4}
  MaxSent = 5
  MaxLate = 1
  ReadMax = 4
  OutMax = 2
INVARIANTS
  StreamsIntact
PROPERTIES
  CloseNoticed
