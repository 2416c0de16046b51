------------------------------- MODULE WbuInput -------------------------------
(***************************************************************************)
(* The way of a command from the host to the command FIFO: sw/ttybus.cpp   *)
(* cuts it into six-bit digits, replacing a word it wrote before by its    *)
(* place in a table; rtl/wbutohex.v, wbureadcw.v and wbudecompress.v put   *)
(* the codeword together again.                                            *)
(*                                                                         *)
(* Each action is one clock of the three, in which a character may come in *)
(* from the serial port.  None of them can stall: the pipeline relies on   *)
(* the time a character takes (wbudecompress.v:130-132), here Gap.  The    *)
(* host may be started again between two lines, and forgets its table.     *)
(***************************************************************************)
EXTENDS Integers, Sequences

CONSTANTS Value,    \* the words the host writes
          T,        \* entries of the write table, two at least (256)
          Gap       \* clocks a character takes, at least; not 0

(***************************************************************************)
(* A command as the host means it, and as it is encoded: "short" is a      *)
(* write of an earlier word, arg its distance.  size is its digits.  Of    *)
(* the reads, that of eight words of one address is told from the others:  *)
(* arg is 8.                                                               *)
(***************************************************************************)
Command == [op : {"addr"}, arg : {0}] \cup [op : {"read"}, arg : {0, 8}]
             \cup [op : {"write"}, arg : Value]
Code(o, a, s) == [op |-> o, arg |-> a, size |-> s]
None == Code("none", 0, 0)
EOW == Code("eow", 0, 0)

\* Digit 0x2e is what wbureadcw makes of the newline after a burst, and what
\* readcmd makes of a read of eight words of one address.
Encoded(c) == IF c.op = "read" /\ c.arg = 8 THEN "eow" ELSE c.op

\* So this is what the board takes a command for.
TakenFor(c) == IF Encoded(c) = "eow" THEN EOW ELSE c

VARIABLES m_wraddr, m_wrloaded, m_writetbl,     \* the host
          line,                  \* digits of the command the host is sending
          bursting,              \* the last command sent was a write
          wait,                  \* clocks until the next character may come
          hx_stb, hx_digit,      \* wbutohex
          r_len, cw_len, lastcw, shiftreg, cw_stb, cw_word,    \* wbureadcw
          wr_addr, compression_tbl, r_word, cmd_addr, cword, r_stb, o_stb, o_word,
          due                    \* commands sent and not yet come out

host == <<m_wraddr, m_wrloaded, m_writetbl, line, bursting, wait>>
readcw == <<hx_stb, hx_digit, r_len, cw_len, lastcw, shiftreg, cw_stb, cw_word>>
decompress == <<wr_addr, compression_tbl, r_word, cmd_addr, cword, r_stb, o_stb, o_word>>
vars == <<host, readcw, decompress, due>>

Slot == 0 .. T - 1
NL == [of |-> None, nth |-> 0]
DigitsOf(c) == [n \in 1 .. c.size |-> [of |-> c, nth |-> n]]
-----------------------------------------------------------------------------
Zero == CHOOSE v \in Value : TRUE

Init ==
  /\ m_wraddr = 0 /\ m_wrloaded = FALSE /\ m_writetbl = [s \in Slot |-> Zero]
  /\ line = << >> /\ bursting = FALSE /\ wait = 0
  /\ hx_stb = FALSE /\ hx_digit = NL
  /\ r_len = 0 /\ cw_len = 0 /\ lastcw = "none" /\ shiftreg = [n \in 1 .. 6 |-> NL]
  /\ cw_stb = FALSE /\ cw_word = None
  /\ wr_addr = 0 /\ compression_tbl = [s \in Slot |-> Zero]
  /\ r_word = None /\ cmd_addr = 0 /\ cword = Zero
  /\ r_stb = <<FALSE, FALSE, FALSE>> /\ o_stb = FALSE /\ o_word = None
  /\ due = << >>

(***************************************************************************)
(* TTYBUS.                                                                 *)
(***************************************************************************)

\* The distances TTYBUS::writev looks at, in its order.
Searched == IF m_wrloaded THEN 1 .. T - 1 ELSE 1 .. m_wraddr

Found(v) == {d \in Searched : m_writetbl[(m_wraddr - d) % T] = v}

SendWrite(v) ==
  IF Found(v) # {}
  THEN /\ line' = DigitsOf(Code("short", CHOOSE d \in Found(v) : \A e \in Found(v) : d <= e, 2))
       /\ UNCHANGED <<m_wraddr, m_wrloaded, m_writetbl>>
  ELSE /\ line' = DigitsOf(Code("write", v, 6))
       /\ m_writetbl' = [m_writetbl EXCEPT ![m_wraddr] = v]
       /\ m_wraddr' = (m_wraddr + 1) % T
       /\ m_wrloaded' = (m_wrloaded \/ m_wraddr = T - 1)

Send(c) ==
  /\ bursting' = (c.op = "write")
  /\ \/ c.op = "write" /\ SendWrite(c.arg)
     \/ /\ c.op \in {"addr", "read"}
        /\ \E size \in CASE c.op = "addr" -> {3} [] c.arg = 8 -> {1} [] OTHER -> {1, 2} :
             line' = DigitsOf(Code(Encoded(c), 0, size))
        /\ UNCHANGED <<m_wraddr, m_wrloaded, m_writetbl>>

\* A newline ends a burst of writes.
EndLine ==
  /\ bursting' = FALSE
  /\ UNCHANGED <<line, m_wraddr, m_wrloaded, m_writetbl>>

Restart ==
  /\ ~bursting
  /\ m_wraddr' = 0 /\ m_wrloaded' = FALSE
  /\ m_writetbl' \in [Slot -> Value]
  /\ UNCHANGED <<line, bursting>>

HostIdle == UNCHANGED <<line, bursting, m_wraddr, m_wrloaded, m_writetbl>>

(***************************************************************************)
(* wbureadcw.v, and wbutohex.v in front of it.                             *)
(***************************************************************************)
newline == hx_stb /\ hx_digit = NL

\* Mutant: a newline after anything ends a burst.
EndsBurstAlways == newline

EndsBurst == newline /\ lastcw = "write"

Complete == r_len = cw_len /\ cw_len # 0

w_stb == Complete \/ EndsBurst

\* The length its first digit announces.
Announced(d) == IF d.nth = 1 THEN d.of.size ELSE 6

Starts == cw_len = 0 \/ w_stb

\* The codeword the digits held make up, if they do.
Gathered ==
  LET c == shiftreg[1].of IN
  IF \A n \in 1 .. c.size : shiftreg[n] = [of |-> c, nth |-> n] THEN c ELSE None

ReadCw ==
  /\ r_len' = CASE newline -> 0
                [] ~newline /\ w_stb -> IF hx_stb THEN 1 ELSE 0
                [] ~newline /\ ~w_stb /\ hx_stb -> r_len + 1
                [] OTHER -> r_len
  /\ shiftreg' = CASE w_stb -> [shiftreg EXCEPT ![1] = hx_digit]
                   [] ~w_stb /\ hx_stb /\ r_len < 6 ->
                        [shiftreg EXCEPT ![r_len + 1] = hx_digit]
                   [] OTHER -> shiftreg
  /\ lastcw' = IF cw_stb THEN IF cw_word.op = "short" THEN "write" ELSE cw_word.op
               ELSE lastcw
  /\ cw_word' = IF EndsBurst THEN EOW ELSE Gathered
  /\ cw_len' = CASE newline -> 0
                 [] ~newline /\ hx_stb /\ Starts -> Announced(hx_digit)
                 [] ~newline /\ ~(hx_stb /\ Starts) /\ w_stb -> 0
                 [] OTHER -> cw_len
  /\ cw_stb' = w_stb

(***************************************************************************)
(* wbudecompress.v: the strobe takes three clocks beside the table.        *)
(***************************************************************************)

WrAddr == IF cw_stb /\ cw_word.op = "write" THEN (wr_addr + 1) % T ELSE wr_addr

\* Only the data of a codeword that has some lands at its place in the word.
DataOf(c) == IF c.op = "write" THEN c.arg ELSE Zero

Decompress ==
  /\ wr_addr' = WrAddr
  /\ compression_tbl' = IF cw_stb
                        THEN [compression_tbl EXCEPT ![wr_addr] = DataOf(cw_word)]
                        ELSE compression_tbl
  /\ r_word' = IF cw_stb THEN cw_word ELSE r_word
  /\ cmd_addr' = IF r_word.op = "short" THEN (wr_addr - r_word.arg) % T ELSE wr_addr
  /\ cword' = compression_tbl[cmd_addr]
  /\ r_stb' = <<cw_stb, r_stb[1], r_stb[2]>>
  /\ o_stb' = r_stb[3]
  /\ o_word' = IF r_word.op = "short" THEN Code("write", cword, 0)
               ELSE [r_word EXCEPT !.size = 0]

\* The characters of a line, and what the host means by them.
Serial ==
  LET more(c) == due' = Append(IF o_stb THEN Tail(due) ELSE due, c)
      none == due' = IF o_stb THEN Tail(due) ELSE due
  IN
  \/ /\ line # << >> /\ wait = 0
     /\ hx_stb' = TRUE /\ hx_digit' = Head(line)
     /\ line' = Tail(line) /\ wait' = Gap - 1
     /\ UNCHANGED <<bursting, m_wraddr, m_wrloaded, m_writetbl>>
     /\ none
  \/ /\ line = << >> /\ wait = 0
     /\ hx_stb' = TRUE /\ hx_digit' = NL /\ wait' = Gap - 1
     /\ EndLine
     /\ IF bursting THEN more(EOW) ELSE none
  \/ /\ hx_stb' = FALSE /\ UNCHANGED hx_digit
     /\ wait' = IF wait = 0 THEN 0 ELSE wait - 1
     /\ \/ HostIdle /\ none
        \/ line = << >> /\ Restart /\ none
        \/ /\ line = << >> /\ Len(due) < 2
           /\ \E c \in Command : Send(c) /\ more(Code(c.op, c.arg, 0))

Next == ReadCw /\ Decompress /\ Serial

Spec == Init /\ [][Next]_vars
-----------------------------------------------------------------------------

(***************************************************************************)
(* The command FIFO gets the commands the host meant, in its order: no     *)
(* digit is taken for part of another codeword, no word is looked up that  *)
(* was overwritten or written by an earlier program, and a burst ends      *)
(* where the host ended it.  One command comes out as another: the read of *)
(* eight words of one address is an end of burst to the board.             *)
(***************************************************************************)
CommandsArrive == o_stb => due # << >> /\ o_word = TakenFor(Head(due))

(***************************************************************************)
(* devbus.h:95-98 says of readz, which reads from one address: "It is      *)
(* equivalent to: for(int i=0; i<len; i++) buf[i] = readio(a)".  So the    *)
(* board is given every command the host meant, that one included.         *)
(***************************************************************************)
EveryCommandArrives == o_stb => due # << >> /\ o_word = Head(due)
=============================================================================
