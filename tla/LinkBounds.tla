---------------------------- MODULE LinkBounds ------------------------------
(***************************************************************************)
(* The sizes of the debug link (DebugLink), of the addresses on it         *)
(* (AddrCode), of what its programs ask for, and what they do.             *)
(***************************************************************************)
EXTENDS Integers

CONSTANTS B,          \* values of a digit (64)
          Top,        \* addresses a program uses are below this
          BusSpace,   \* values of o_wb_addr (2^32)
          T,          \* entries of the read table (1024)
          MaxLen,     \* bound: words of a call
          MaxWr,      \* words written before a look at the answers (MAXWRLEN)
          Mapped,     \* addresses that answer without an error
          ReadsBack,  \* may a program read where its last write left off
          Catches,    \* does a program go on after a bus error
          EowLen,     \* words whose read looks like the end of a burst (8)
          LinkMax     \* bound: commands, and codewords, on their way

ASSUME BAssumption == B \in Nat /\ B > 1 /\ B % 2 = 0

\* The values of n digits.
Span(n) ==
  CASE n = 0 -> 1
    [] n = 1 -> B
    [] n = 2 -> B * B
    [] n = 3 -> B * B * B
    [] n = 4 -> B * B * B * B
    [] n = 5 -> B * B * B * B * B

ASSUME TopAssumption == Top \in 1 .. Span(5) /\ BusSpace \in Nat /\ BusSpace > Top
\* What answers is in the space: its top does, as rtl/busmaster.v decodes some
\* bits only.
ASSUME MappedAssumption == Mapped \subseteq 0 .. BusSpace - 1
ASSUME TAssumption == T \in Nat \ {0, 1}
ASSUME MaxLenAssumption == MaxLen \in Nat \ {0} /\ MaxWr \in Nat \ {0}
ASSUME EowLenAssumption == EowLen \in Nat \ {0}
ASSUME LinkMaxAssumption == LinkMax >= MaxWr + 2
ASSUME FlagAssumption == ReadsBack \in BOOLEAN /\ Catches \in BOOLEAN
=============================================================================
