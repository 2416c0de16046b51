\* One codeword of two digits; the words the stages make have one.  A line is
\* full after one digit.
CONSTANTS
  Word = {w2}
  Digits <- TwoDigits
  FullAt = 1
  IdleMax = 1
  FifoMax = 1
SPECIFICATION Spec
INVARIANTS
  NothingLost
PROPERTIES
  InterruptTold
  EverythingSent
