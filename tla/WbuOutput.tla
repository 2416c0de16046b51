------------------------------ MODULE WbuOutput ------------------------------
(***************************************************************************)
(* The way of a codeword from the codeword FIFO to the serial port         *)
(* (rtl/wbuoutput.v): wbuidleint adds idle and interrupt codewords,        *)
(* wbucompress holds the word while it looks for a shorter one, wbudeword  *)
(* cuts it into six-bit digits and ends it with a newline,                 *)
(* wbucompactlines drops the newlines a line does not need, and wbusixchar *)
(* makes characters of what is left.                                       *)
(*                                                                         *)
(* One action is one clock of all five.  Each stage hands its word on by a *)
(* strobe and a busy wire of its own invention; what matters here is that  *)
(* nothing falls between two of them.  The codeword a compressed one       *)
(* replaces is left to WbuCompress: here a word keeps its length.          *)
(***************************************************************************)
EXTENDS Naturals, Sequences

CONSTANTS Word,       \* the codewords the FIFO carries
          Digits,     \* how many six-bit digits each has (1..6)
          FullAt,     \* a line longer than this is full (72)
          IdleMax,    \* clocks without a word before an idle codeword (2^35/43)
          FifoMax     \* bound: words in the codeword FIFO

ASSUME FullAtAssumption == FullAt \in Nat
ASSUME IdleAssumption == IdleMax \in Nat \ {0}
ASSUME DigitsAssumption == Digits \in [Word -> 1 .. 6]

\* Codewords wbuidleint makes: idle, idle with the bus busy, interrupt.
Made == {"idle", "busy", "int"}
ASSUME WordAssumption == Word \cap (Made \cup {"none"}) = {}

Codeword == Word \cup Made
Len6(w) == IF w \in Made THEN 1 ELSE Digits[w]

\* For the model checker: every codeword of the FIFO has two digits.
TwoDigits == [w \in Word |-> 2]

\* A digit [of, nth] knows its word and its place in it; NL is the newline.
NL == [of |-> "nl", nth |-> 0]

VARIABLES fifo,                                          \* codeword FIFO
          i_wb_cyc, i_int,                               \* the board
          int_request, int_sent, idle_counter, idle_state,
          cw_stb, cw_busy, cw_word,                      \* wbuidleint
          a_stb, a_word,                                 \* wbucompress
          dw_stb, dw_busy, dw_char, r_dly, r_len, r_word,    \* wbudeword
          ln_stb, ln_char, r_busy, last_out_nl, last_in_nl,
          linelen, full_line,                            \* wbucompactlines
          tx_stb, tx_char,                               \* wbusixchar
          i_tx_busy,                                     \* serial port
          owed         \* digits of the words taken, not yet in the port

idleint == <<int_request, int_sent, idle_counter, idle_state, cw_stb, cw_busy, cw_word>>
compress == <<a_stb, a_word>>
deword == <<dw_stb, dw_busy, dw_char, r_dly, r_len, r_word>>
compact == <<ln_stb, ln_char, r_busy, last_out_nl, last_in_nl, linelen, full_line>>
vars == <<fifo, i_wb_cyc, i_int, idleint, compress, deword, compact, tx_stb, tx_char,
          i_tx_busy, owed>>

DigitsFrom(w, n) == [i \in 1 .. Len6(w) - n + 1 |-> [of |-> w, nth |-> n + i - 1]]

fifo_rd == fifo # << >> /\ ~cw_busy
\* Mutant: busy until the word that was begun is complete.
LnBusyInWord == r_busy \/ ln_stb \/ ~last_in_nl

ln_busy == r_busy \/ ln_stb
cw_taken == cw_stb /\ ~a_stb
expired == idle_counter = IdleMax
-----------------------------------------------------------------------------
Init ==
  /\ fifo = << >> /\ i_wb_cyc = FALSE /\ i_int = FALSE
  /\ int_request = FALSE /\ int_sent = FALSE /\ idle_counter = 0 /\ idle_state = FALSE
  /\ cw_stb = FALSE /\ cw_busy = FALSE /\ cw_word = "idle"
  /\ a_stb = FALSE /\ a_word = "idle"
  /\ dw_stb = FALSE /\ dw_busy = FALSE /\ r_dly = FALSE /\ r_len = 0
  /\ r_word = "idle" /\ dw_char = [of |-> "idle", nth |-> 1]
  /\ ln_stb = FALSE /\ ln_char = NL /\ r_busy = FALSE
  /\ last_out_nl = TRUE /\ last_in_nl = TRUE /\ linelen = 0 /\ full_line = FALSE
  /\ tx_stb = FALSE /\ tx_char = NL
  /\ i_tx_busy = FALSE
  /\ owed = << >>

\* The stage is ready for another word.
Open == ~cw_stb /\ ~cw_busy

\* The codeword this clock brings, if any, in the order of their right of way.
Brought ==
  CASE Open /\ fifo_rd -> Head(fifo)
    [] Open /\ ~fifo_rd /\ int_request /\ ~int_sent -> "int"
    [] Open /\ ~fifo_rd /\ ~(int_request /\ ~int_sent) /\ expired /\ ~idle_state ->
         IF i_wb_cyc THEN "busy" ELSE "idle"
    [] OTHER -> "none"

IntRequest == IF cw_taken /\ cw_word = "int" THEN i_int ELSE int_request \/ i_int

\* Mutant: told, although the stage was not ready to tell it.
IntSentEarly == (int_request /\ ~fifo_rd) \/ (i_int /\ int_sent)

IntSent == (int_request /\ Open /\ ~fifo_rd) \/ (i_int /\ int_sent)

IdleInt(w) ==
  /\ int_request' = IntRequest
  /\ int_sent' = IntSent
  /\ idle_counter' = IF fifo_rd \/ cw_stb \/ w # "none" THEN 0
                     ELSE IF expired THEN idle_counter ELSE idle_counter + 1
  /\ idle_state' = \/ cw_taken /\ cw_word \in {"idle", "busy"}
                   \/ expired /\ idle_state
  /\ cw_stb' = IF cw_stb THEN a_stb ELSE Brought # "none"
  /\ cw_busy' = (cw_stb \/ Brought # "none")
  /\ cw_word' = IF Brought # "none" THEN Brought ELSE cw_word

\* Mutant: the next word is taken over one that waits.
CompressOverruns ==
  /\ a_stb' = (cw_stb \/ (a_stb /\ dw_busy))
  /\ a_word' = IF cw_stb THEN cw_word ELSE a_word

Compress ==
  /\ a_stb' = (cw_taken \/ (a_stb /\ dw_busy))
  /\ a_word' = IF cw_taken THEN cw_word ELSE a_word

\* Digits after the first.
Following(w) == Len6(w) - 1

\* All digits are out.
DewordDone == ~dw_stb /\ r_len = 0

Deword ==
  LET loads  == a_stb /\ ~dw_busy
      more   == ~loads /\ ~dw_stb /\ ~DewordDone
      breaks == ~loads /\ DewordDone /\ dw_char # NL
      rests  == ~loads /\ DewordDone /\ dw_char = NL
  IN /\ dw_stb' = (loads \/ (dw_stb /\ ln_busy) \/ more \/ breaks)
     /\ dw_char' = CASE loads  -> [of |-> a_word, nth |-> 1]
                     [] more   -> [of |-> r_word, nth |-> Len6(r_word) - r_len + 1]
                     [] breaks -> NL
                     [] OTHER  -> dw_char
     /\ dw_busy' = IF rests THEN r_dly ELSE (dw_busy \/ loads \/ breaks)
     /\ r_dly' = (~rests /\ (r_dly \/ loads \/ dw_stb \/ more \/ breaks))
     /\ r_len' = CASE loads -> Following(a_word) [] more -> r_len - 1 [] OTHER -> r_len
     /\ r_word' = IF loads THEN a_word ELSE r_word

\* With nothing to send, and the bus idle, the line is ended.
EndOfLine(busy) == ~tx_stb /\ ~busy /\ ~last_out_nl /\ last_in_nl

\* A newline is only kept at the end of a full line.
Kept(char) == full_line \/ char # NL

CompactLines(busy) ==
  LET takes == dw_stb /\ ~ln_busy
      sent  == ln_stb /\ ~tx_stb
  IN /\ last_out_nl' = IF sent THEN ln_char = NL ELSE last_out_nl
     /\ last_in_nl' = IF takes THEN dw_char = NL ELSE last_in_nl
     /\ linelen' = IF ~sent THEN linelen ELSE IF ln_char = NL THEN 0 ELSE linelen + 1
     /\ full_line' = (linelen > FullAt)
     /\ ln_stb' = CASE takes -> Kept(dw_char)
                    [] ~takes /\ ~ln_busy -> EndOfLine(busy)
                    [] OTHER -> ln_stb /\ tx_stb
     /\ ln_char' = IF takes THEN dw_char ELSE IF ~ln_busy THEN NL ELSE ln_char
     /\ r_busy' = ln_stb

\* wbusixchar, and the serial port: busy from when it takes a character
\* until it has sent it.
SixChar(done) ==
  /\ tx_stb' = IF tx_stb THEN i_tx_busy ELSE ln_stb
  /\ tx_char' = IF ln_stb /\ ~tx_stb THEN ln_char ELSE tx_char
  /\ i_tx_busy' = IF i_tx_busy THEN ~done ELSE tx_stb

\* wbuexec.v writes codewords to the FIFO; on reset it is emptied.
Fifo(w) ==
  LET left == IF fifo_rd THEN Tail(fifo) ELSE fifo IN
  /\ w # "none" => Len(fifo) < FifoMax
  /\ fifo' = IF w # "none" THEN Append(left, w) ELSE left

Owed ==
  LET sent == tx_stb /\ ~i_tx_busy /\ tx_char # NL
      left == IF sent THEN Tail(owed) ELSE owed
  IN owed' = IF Brought = "none" THEN left ELSE left \o DigitsFrom(Brought, 1)

\* bus_busy of wbucompactlines, with exec_stb as wbubus.v connects it.
BusBusy(w) == i_wb_cyc \/ w # "none" \/ fifo # << >> \/ cw_busy

Clock(w, done) ==
  /\ IdleInt(w)
  /\ Compress
  /\ Deword
  /\ CompactLines(BusBusy(w))
  /\ SixChar(done)
  /\ Fifo(w)
  /\ Owed
  /\ i_wb_cyc' \in BOOLEAN /\ i_int' \in BOOLEAN

\* w: the codeword wbuexec.v sends in this clock, if any.
Next == \E w \in Word \cup {"none"}, done \in BOOLEAN : (done => i_tx_busy) /\ Clock(w, done)

\* The port sends what it has taken.
Sends == []<>~i_tx_busy

Spec == Init /\ [][Next]_vars /\ WF_vars(Next) /\ Sends
-----------------------------------------------------------------------------

\* The digits the stages hold, the oldest first.
If(b, s) == IF b THEN s ELSE << >>
InPipe ==
  If(tx_stb /\ tx_char # NL, <<tx_char>>) \o If(ln_stb /\ ln_char # NL, <<ln_char>>)
  \o If(dw_stb /\ dw_char # NL, <<dw_char>>)
  \o DigitsFrom(r_word, Len6(r_word) - r_len + 1)
  \o If(a_stb, DigitsFrom(a_word, 1)) \o If(cw_stb, DigitsFrom(cw_word, 1))

(***************************************************************************)
(* No stage drops, repeats or overtakes a digit: what the stages hold is   *)
(* what was taken from the FIFO or made, less what was sent.               *)
(***************************************************************************)
NothingLost == InPipe = owed

(***************************************************************************)
(* An interrupt that is up, or was, while int_sent is down is told to the  *)
(* host (wbuidleint.v:60-65, 107-111), although the level may come and go  *)
(* while it waits, unless the words of the FIFO never leave a gap for it.  *)
(* int_sent goes down only in a clock in which the level is low and, if an *)
(* old request still stands, the stage is not idle (120-126): nothing is   *)
(* said here of a level that is still, or again, high before that.         *)
(***************************************************************************)
Told == cw_stb /\ cw_word = "int"

InterruptTold ==
  []<>(Open /\ ~fifo_rd) => ((i_int \/ int_request) /\ ~int_sent ~> Told)

(***************************************************************************)
(* wbuidleint.v:7-11: the stage inserts "words indicating an interrupt has *)
(* taken place".  So an interrupt that rises, from now on, and stays is    *)
(* told some time from now on.  It is not: if it rises before int_sent     *)
(* fell, it never is.                                                      *)
(***************************************************************************)
NewInterruptTold ==
  []<>(Open /\ ~fifo_rd) => [](~i_int /\ <>[]i_int => <>Told)

(***************************************************************************)
(* Every word taken is sent.                                               *)
(***************************************************************************)
EverythingSent == owed # << >> ~> (tx_stb /\ ~i_tx_busy)
=============================================================================
