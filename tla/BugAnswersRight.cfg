\* Every address answers; a program may read where its last write left off.
CONSTANTS
  B = 2
  Top = 5
  Value = {0, 1}
  T = 2
  MaxLen = 2
  MaxWr = 1
  Mapped = {0, 1, 2, 3, 4, 5}
  EowLen = 8
  ReadsBack = TRUE
  Catches = FALSE
  LinkMax = 3
  BusSpace = 7
SPECIFICATION Spec
INVARIANTS
  AnswersRight
