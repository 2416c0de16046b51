CONSTANTS
  \* Two words, a table of two entries, characters four clocks apart.
  Value = {0, 1}
  T = 2
  Gap = 4
SPECIFICATION Spec
INVARIANT EveryCommandArrives
