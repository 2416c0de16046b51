-------------------------------- MODULE Uart --------------------------------
(***************************************************************************)
(* The CPU's serial port and the bench's other end of it, clock by clock:  *)
(* rtl/txuart.v to UARTSIM's receiver, and UARTSIM's transmitter           *)
(* (bench/cpp/uartsim.cpp) to rtl/rxuart.v.  One direction at a time; both *)
(* ends have the same setup, and the line has been quiet before.           *)
(***************************************************************************)
EXTENDS Integers, Sequences, SequencesExt

CONSTANTS W,      \* data bits: 8
          B       \* clocks per baud

Bit == {0, 1}
Break == 16 * B

VARIABLES setup,                                   \* parity, stop bits
          dir,                                     \* "out" or "in"
          line,                                    \* the wire
          tx_state, tx_baud, tx_busy, tx_bits, tx_calc,         \* a transmitter
          rx_state, rx_baud, rx_bits, rx_change,                \* a receiver
          ck, rx_half, rx_zero, rx_sync, rx_calc, rx_pre,       \* rxuart's own
          o_parity_err, o_wr, o_data,              \* what the receiver gives
          due                                      \* characters under way

tx == <<tx_state, tx_baud, tx_busy, tx_bits, tx_calc>>
rx == <<rx_state, rx_baud, rx_bits, rx_change, ck, rx_half, rx_zero, rx_sync, rx_calc, rx_pre,
        o_parity_err, o_wr, o_data>>
vars == <<setup, dir, line, tx, rx, due>>

Xor(a, b) == (a + b) % 2
Parity(bits) == FoldSeq(Xor, 0, bits)
Char == [1 .. W -> Bit]
NoChar == << >>
If(b, s) == IF b THEN s ELSE << >>
Least(a, b) == IF a < b THEN a ELSE b

Init ==
  /\ setup \in [parity : BOOLEAN, fixed : BOOLEAN, even : Bit, stops : {1, 2}]
  /\ setup.fixed => setup.parity
  /\ dir \in {"out", "in"}
  /\ line = 1
  /\ tx_state = "idle" /\ tx_baud = 0 /\ tx_busy = FALSE /\ tx_bits = << >> /\ tx_calc = 0
  /\ rx_state = "idle" /\ rx_baud = 0 /\ rx_bits = << >> /\ rx_change = Break
  /\ ck = <<1, 1, 1>> /\ rx_half = FALSE /\ rx_zero = FALSE
  /\ rx_sync = TRUE /\ rx_calc = 0 /\ rx_pre = FALSE
  /\ o_parity_err = FALSE /\ o_wr = FALSE /\ o_data = NoChar
  /\ due = << >>

-----------------------------------------------------------------------------
(* txuart: an idle transmitter that is not busy takes a character at once. *)

TxTakes(c) == dir = "out" /\ tx_state = "idle" /\ tx_baud = 0 /\ ~tx_busy /\ c # NoChar

(* A mutant of the state below: two stop bits are sent as one. *)
AfterStopOnce == "idle"
AfterStop == IF setup.stops = 2 THEN "stop2" ELSE "idle"

(* At the end of a bit: the next bit goes out. *)
TxBit ==
  /\ tx_busy' = TRUE /\ tx_baud' = B - 1
  /\ CASE tx_state = "data" ->
            /\ line' = Head(tx_bits) /\ tx_bits' = Tail(tx_bits)
            /\ tx_calc' = IF setup.fixed THEN setup.even ELSE Xor(tx_calc, Head(tx_bits))
            /\ tx_state' = IF Len(tx_bits) > 1 THEN "data"
                           ELSE IF setup.parity THEN "parity" ELSE "stop"
       [] tx_state = "parity" -> /\ line' = tx_calc /\ tx_calc' = setup.even
                                 /\ tx_state' = "stop" /\ UNCHANGED tx_bits
       [] OTHER -> /\ line' = 1 /\ tx_state' = IF tx_state = "stop" THEN AfterStop ELSE "idle"
                   /\ tx_calc' = setup.even /\ UNCHANGED tx_bits

TxUart(c) ==
  \/ TxTakes(c) /\ tx_busy' = TRUE /\ tx_state' = "data" /\ tx_baud' = B - 1
     /\ line' = 0 /\ tx_bits' = c /\ tx_calc' = setup.even
  \/ tx_baud # 0 /\ tx_busy' = TRUE /\ tx_baud' = tx_baud - 1
     /\ UNCHANGED <<line, tx_state, tx_bits, tx_calc>>
  \/ tx_baud = 0 /\ tx_state # "idle" /\ TxBit
  \/ tx_baud = 0 /\ tx_state = "idle" /\ ~TxTakes(c)
     /\ tx_busy' = FALSE /\ line' = 1 /\ UNCHANGED <<tx_state, tx_baud, tx_bits, tx_calc>>

(* UARTSIM's transmitter: the whole frame at once, a bit per baud. *)
SimTakes(c) == dir = "in" /\ tx_state = "idle" /\ c # NoChar

Frame(c) == <<0>> \o c
  \o If(setup.parity, <<IF setup.fixed THEN setup.even ELSE Xor(Parity(c), setup.even)>>)
  \o [i \in 1 .. setup.stops |-> 1]

SimTx(c) ==
  /\ CASE SimTakes(c) ->
            tx_bits' = Frame(c) /\ tx_state' = "data" /\ tx_baud' = B - 1
       [] tx_state = "data" /\ tx_baud = 0 ->
            /\ tx_bits' = Tail(tx_bits)
            /\ IF Len(tx_bits) = 1 THEN tx_state' = "idle" /\ tx_baud' = 0
               ELSE tx_baud' = B - 1 /\ UNCHANGED tx_state
       [] OTHER -> /\ tx_baud' = IF tx_state = "data" THEN tx_baud - 1 ELSE 0
                   /\ UNCHANGED <<tx_bits, tx_state>>
  /\ line' = IF tx_bits' = << >> THEN 1 ELSE Head(tx_bits')
  /\ UNCHANGED <<tx_busy, tx_calc>>

-----------------------------------------------------------------------------
(* UARTSIM's receiver.  It is back in its idle state only in the middle of *)
(* what may be the next start bit, and counts from the edge of that bit.   *)

SimChange == IF line = 0 /\ ck[1] = 1 THEN 0 ELSE Least(rx_change + 1, Break)
SampleCount == W + (IF setup.parity THEN 1 ELSE 0) + setup.stops

ToFirstBit == B + B \div 2 - 1 - SimChange

SimRx ==
  /\ rx_change' = SimChange /\ ck' = <<line, 1, 1>>
  /\ CASE rx_state = "idle" /\ line = 0 ->
            rx_state' = "data" /\ rx_baud' = ToFirstBit /\ rx_bits' = << >> /\ o_wr' = FALSE
       [] rx_state = "data" /\ rx_baud <= 0 ->
            IF Len(rx_bits) = SampleCount
            THEN /\ rx_state' = "idle" /\ rx_baud' = 0 /\ rx_bits' = << >>
                 /\ o_wr' = TRUE
            ELSE /\ rx_bits' = Append(rx_bits, line) /\ rx_baud' = B - 1
                 /\ o_wr' = FALSE /\ UNCHANGED rx_state
       [] OTHER -> /\ rx_baud' = IF rx_state = "data" THEN rx_baud - 1 ELSE 0
                   /\ o_wr' = FALSE /\ UNCHANGED <<rx_state, rx_bits>>
  /\ o_data' = IF o_wr' THEN SubSeq(rx_bits, 1, W) ELSE o_data
  /\ UNCHANGED <<rx_half, rx_zero, rx_sync, rx_calc, rx_pre, o_parity_err>>

-----------------------------------------------------------------------------
(* rxuart.  The line is never low for as long as a break. *)

ck_uart == ck[3]
Quiet == rx_state \in {"idle", "reset"}

RxNext ==
  CASE rx_state = "reset" -> IF rx_sync THEN "idle" ELSE "reset"
    [] rx_state = "idle" -> IF ck_uart = 0 /\ rx_half THEN "data" ELSE "idle"
    [] ~Quiet /\ ~rx_zero -> rx_state
    [] rx_state = "data" /\ rx_zero -> IF Len(rx_bits) < W - 1 THEN "data"
                                       ELSE IF setup.parity THEN "parity" ELSE "stop"
    [] rx_state = "parity" /\ rx_zero -> "stop"
    [] OTHER -> IF ck_uart = 0 THEN "reset"
                ELSE IF rx_state = "stop" /\ setup.stops = 2 THEN "stop2" ELSE "idle"

ParityErr ==
  IF rx_zero /\ rx_state = "parity"
  THEN IF setup.fixed THEN ck_uart # setup.even
       ELSE (rx_calc # ck_uart) = (setup.even = 1)
  ELSE ~Quiet /\ o_parity_err

RxUart ==
  /\ ck' = <<line', ck[1], ck[2]>>
  /\ rx_change' = IF ck[2] # ck_uart THEN 0 ELSE Least(rx_change + 1, Break)
  /\ rx_half' = (ck_uart = 0 /\ rx_change >= B \div 2 - 1)
  /\ rx_sync' = (ck_uart = 1 /\ rx_change >= Break)
  /\ rx_state' = RxNext
  /\ rx_baud' = IF rx_zero \/ Quiet THEN B - 1 ELSE rx_baud - 1
  /\ rx_zero' = (rx_state # "idle" /\ rx_baud = 1)
  /\ rx_bits' = CASE rx_state = "data" /\ rx_zero -> Append(rx_bits, ck_uart)
                  [] rx_state = "idle" -> << >>
                  [] OTHER -> rx_bits
  /\ rx_calc' = IF rx_state = "idle" THEN 0
                ELSE IF rx_zero THEN Xor(rx_calc, ck_uart) ELSE rx_calc
  /\ o_parity_err' = ParityErr
  /\ rx_pre' = IF rx_zero /\ rx_state = "stop" THEN TRUE
               ELSE rx_pre /\ ~rx_zero /\ rx_state # "idle"
  /\ o_wr' = ((rx_zero \/ rx_state = "idle") /\ rx_pre)
  /\ o_data' = IF rx_zero /\ rx_state = "stop" THEN rx_bits ELSE o_data

-----------------------------------------------------------------------------
Clock(c) ==
  /\ IF dir = "out" THEN TxUart(c) /\ SimRx ELSE SimTx(c) /\ RxUart
  /\ due' = (IF o_wr THEN SubSeq(due, 2, Len(due)) ELSE due)
            \o If(TxTakes(c) \/ SimTakes(c), <<c>>)
  /\ UNCHANGED <<setup, dir>>

Next == \E c \in Char \cup {NoChar} :
  (c = NoChar \/ TxTakes(c) \/ SimTakes(c)) /\ Clock(c)

Spec == Init /\ [][Next]_vars

(* Every character comes out at the other end, as it went in, whatever the *)
(* parity and stop bits and however close the characters follow on each    *)
(* other; at most two are under way at a time.  Without parity, or with a  *)
(* fixed parity bit, no parity error is raised.                            *)
CharsArrive == /\ o_wr => due # << >> /\ o_data = Head(due)
               /\ Len(due) <= 2
               /\ setup.fixed \/ ~setup.parity => ~o_parity_err

=============================================================================
