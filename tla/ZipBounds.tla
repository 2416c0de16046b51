----------------------------- MODULE ZipBounds -----------------------------
(***************************************************************************)
(* The sizes of the parts around the ZipCPU: the DMA controller (WbDma)    *)
(* and what it is asked to do, the instruction cache (PfCache), the memory *)
(* unit (PipeMem), the timers and the jiffies (ZipTimers).                 *)
(***************************************************************************)
EXTENDS Naturals

CONSTANTS Block,     \* words in the DMA's buffer (2^LGMEMLEN = 1024)
          DmaSpace,  \* values of an address (2^ADDRESS_WIDTH = 2^24)
          MaxMove,   \* bound: the longest transfer
          Blocks     \* what is written to transfer_len

CONSTANTS Words,        \* words in a line of the cache (2^PW = 16)
          Lines,        \* lines of the cache (2^LGLINES = 64)
          Tags,         \* values of a line's tag (2^(AW-CW) = 2^14)
          Targets,      \* where the processor jumps to
          BadLines,     \* lines that answer with an error
          PfPend,       \* bound: what the bus takes before it answers
          Entries,      \* entries in the memory unit's list (2^FLN = 16)
          OPT_MAXDEPTH, \* operations at which that list counts as full (13)
          TimerMod,     \* values of a timer (2^31)
          JifHalf       \* half the values of the jiffies (2^31)

ASSUME DmaAssumption ==
  /\ Block \in Nat \ {0, 1} /\ DmaSpace \in Nat \ {0, 1}
  /\ MaxMove \in 0 .. DmaSpace - 1 /\ Blocks \subseteq 0 .. Block - 1

\* A line's tag is written with an answer that comes before the last word is
\* asked for (pfcache.v:380-382), so the bus must not take a whole line first.
ASSUME PfAssumption ==
  /\ Words \in Nat \ 0 .. 2 /\ Lines \in Nat \ {0} /\ Tags \in Nat \ {0}
  /\ Targets \subseteq 0 .. Words * Lines * Tags - 1
  /\ PfPend \in 1 .. Words - 2

\* A list that is full must not look empty.
ASSUME DepthAssumption == Entries \in Nat /\ OPT_MAXDEPTH \in 1 .. Entries - 1

ASSUME TimerAssumption == TimerMod \in Nat \ {0} /\ JifHalf \in Nat \ {0}
=============================================================================
