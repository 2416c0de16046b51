------------------------------- MODULE WbuFifo -------------------------------
(***************************************************************************)
(* rtl/wbufifo.v: the synchronous FIFO of the debug bus.  wbubus.v uses it *)
(* twice: in front of the bus master (commands from the host) and behind   *)
(* it (codewords to the host).                                             *)
(*                                                                         *)
(* The input wires are variables, sampled by the registers at the next     *)
(* clock.  Each action is one clock, named for what the wires ask for.     *)
(*                                                                         *)
(* Two facts about the wires come from the users.  Both read only while    *)
(* o_empty_n is high (wbubus.v:88, wbuoutput.v:76).  The input FIFO is fed *)
(* by a serial port, so two writes are never on adjacent clocks            *)
(* (SpacedWrites = TRUE); the output FIFO takes one word per acknowledged  *)
(* read, on adjacent clocks when the slave is pipelined (FALSE).           *)
(***************************************************************************)
EXTENDS Naturals

CONSTANTS FLEN,          \* slots of the memory, 1 << LGFLEN in the code
          Data,          \* the words stored
          SpacedWrites   \* does the writer leave a clock between two writes?

ASSUME FlenAssumption == FLEN \in Nat /\ FLEN >= 4
ASSUME DataAssumption == Data # {}
ASSUME SpacedAssumption == SpacedWrites \in BOOLEAN

VARIABLES i_rst, i_wr, i_data, i_rd,     \* input wires
          fifo, r_first, r_last,         \* memory, write and read pointer
          will_overflow, will_underflow, \* the next write (read) is refused
          o_data, o_empty_n              \* registered outputs

vars  == <<i_rst, i_wr, i_data, i_rd, fifo, r_first, r_last,
           will_overflow, will_underflow, o_data, o_empty_n>>

Slot == 0 .. FLEN - 1

\* LGFLEN-bit increment.
Inc(p) == IF p = FLEN - 1 THEN 0 ELSE p + 1

nxt_first == Inc(r_first)
nxt_last  == Inc(r_last)

\* One word short of FLEN is all the pointers can tell from empty.
Full  == nxt_first = r_last
Empty == r_first = r_last
-----------------------------------------------------------------------------
\* Any wires the two users can drive in the state the registers step into.
DriveWires ==
  /\ i_rst' \in BOOLEAN
  /\ i_data' \in Data
  /\ i_wr' \in BOOLEAN
  /\ i_wr /\ SpacedWrites => ~i_wr'
  /\ i_rd' \in BOOLEAN
  /\ i_rd' => o_empty_n'

Init ==
  /\ i_rst \in BOOLEAN /\ i_wr \in BOOLEAN /\ i_data \in Data /\ i_rd = FALSE
  /\ fifo \in [Slot -> Data]
  /\ r_first = 0 /\ r_last = 0
  /\ will_overflow = FALSE /\ will_underflow = FALSE
  /\ o_data \in Data
  /\ o_empty_n = FALSE

\* Mutant: the word goes where the pointer is about to be.
MemoryNextSlot ==
  /\ fifo'   = IF i_wr THEN [fifo EXCEPT ![nxt_first] = i_data] ELSE fifo
  /\ o_data' = fifo[IF i_rd THEN nxt_last ELSE r_last]

\* The memory is written on every i_wr, refused or not; the output register
\* reads the memory as it was before this clock's write.
Memory ==
  /\ fifo'   = IF i_wr THEN [fifo EXCEPT ![r_first] = i_data] ELSE fifo
  /\ o_data' = fifo[IF i_rd THEN nxt_last ELSE r_last]

\* A read makes room, unless a write takes it in the same clock.
OverflowOnRead == will_overflow /\ i_wr

OverflowOnIdle == will_overflow \/ Full

\* r_last+1 is computed in 32 bits: it does not wrap at FLEN.
UnderflowOnRead == r_last + 1 = r_first

Reset ==
  /\ i_rst
  /\ Memory
  /\ r_first' = 0 /\ r_last' = 0
  /\ will_overflow' = FALSE /\ will_underflow' = FALSE
  /\ o_empty_n' = FALSE
  /\ DriveWires

\* r_first+2 is computed in 32 bits: it does not wrap at FLEN.
Write ==
  /\ ~i_rst /\ i_wr /\ ~i_rd
  /\ Memory
  /\ r_first' = IF will_overflow THEN r_first ELSE nxt_first
  /\ will_overflow' = (r_first + 2 = r_last)
  /\ will_underflow' = FALSE
  /\ o_empty_n' = (r_first # r_last)
  /\ UNCHANGED r_last
  /\ DriveWires

Read ==
  /\ ~i_rst /\ ~i_wr /\ i_rd
  /\ Memory
  /\ r_last' = IF will_underflow THEN r_last ELSE nxt_last
  /\ will_overflow' = OverflowOnRead
  /\ will_underflow' = UnderflowOnRead
  /\ o_empty_n' = (r_first # nxt_last)
  /\ UNCHANGED r_first
  /\ DriveWires

ReadWrite ==
  /\ ~i_rst /\ i_wr /\ i_rd
  /\ Memory
  /\ r_first' = nxt_first
  /\ r_last' = nxt_last
  /\ will_overflow' = OverflowOnRead
  /\ UNCHANGED will_underflow
  /\ o_empty_n' = (r_first # nxt_last)
  /\ DriveWires

Idle ==
  /\ ~i_rst /\ ~i_wr /\ ~i_rd
  /\ Memory
  /\ will_overflow' = OverflowOnIdle
  /\ will_underflow' = Empty
  /\ o_empty_n' = (r_first # r_last)
  /\ UNCHANGED <<r_first, r_last>>
  /\ DriveWires

Next == Reset \/ Write \/ Read \/ ReadWrite \/ Idle

Spec == Init /\ [][Next]_vars
-----------------------------------------------------------------------------
TypeOK ==
  /\ i_rst \in BOOLEAN /\ i_wr \in BOOLEAN /\ i_rd \in BOOLEAN
  /\ i_data \in Data /\ o_data \in Data
  /\ fifo \in [Slot -> Data]
  /\ r_first \in Slot /\ r_last \in Slot
  /\ will_overflow \in BOOLEAN /\ will_underflow \in BOOLEAN
  /\ o_empty_n \in BOOLEAN

(***************************************************************************)
(* While o_empty_n is high the output register shows the oldest word, in   *)
(* spite of the clock the memory read takes: a word written into an empty  *)
(* FIFO, or left alone in it by a read of the same clock, is announced     *)
(* only when it has reached o_data.                                        *)
(***************************************************************************)
OutputIsHead == o_empty_n => ~Empty /\ o_data = fifo[r_last]

(***************************************************************************)
(* The reader never sees a read refused (wbufifo.v:106 computes r_last+1   *)
(* too wide, so the flag itself is late after the pointer wraps).          *)
(***************************************************************************)
ReadNeverRefused == i_rd => ~will_underflow

(***************************************************************************)
(* wbufifo.v:76, "Cowardly refuse to overflow": a write into a full FIFO   *)
(* that nothing is read from leaves the write pointer where it is.         *)
(***************************************************************************)
RefusesOverflow ==
  [][Full /\ i_wr /\ ~i_rd /\ ~i_rst => r_first' = r_first]_vars

(***************************************************************************)
(* The opposite mistake: a write there is room for is never dropped.       *)
(***************************************************************************)
StoresWhenRoom ==
  [][~Full /\ i_wr /\ ~i_rst => r_first' = nxt_first]_vars

(***************************************************************************)
(* The words stored, oldest first, and the queue they implement.           *)
(***************************************************************************)
Fill == IF r_first >= r_last THEN r_first - r_last ELSE r_first + FLEN - r_last

At(i) == LET p == r_last + i - 1 IN IF p >= FLEN THEN p - FLEN ELSE p

Contents == [i \in 1 .. Fill |-> fifo[At(i)]]

Queue == INSTANCE BoundedQueue WITH Capacity <- FLEN - 1, Word <- Data,
                                    queue <- Contents

\* The FIFO, under its users' wires, is a bounded queue.
ImplementsQueue == Queue!Spec
=============================================================================
