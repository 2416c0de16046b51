\* Four words of flash in two pages; a block of two words on the card.
SPECIFICATION Spec
CONSTANTS
  Bits = {1}
  MemBytes = 4
  PageBytes = 2
  PageWords = 2
  Delay = 0
  Lag = 1
  d1 = d1
  d2 = d2
  w1 = w1
  EraseBytes <- MCErase
  Blocks <- MCBlocks
  WriteBlock <- MCWriteBlock
  Requests <- MCRequests
INVARIANTS ReadsWhatWasWritten WritesLand NeverRefused SdAnswered
PROPERTIES FlashAnswers
CHECK_DEADLOCK FALSE
