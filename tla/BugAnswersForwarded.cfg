\* As MCNetUsb.cfg: an answer to the last command of a client.
SPECIFICATION Spec
CONSTANTS
  PktLen = 4
  RxLen = 2
  BufLen = 8
  Conns = 2
  Lines = {2, 5}
  Answers = {4}
  MaxSent = 5
  MaxLate = 1
  ReadMax = 4
  OutMax = 2
PROPERTIES
  AnswersForwarded
