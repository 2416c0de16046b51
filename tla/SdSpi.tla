------------------------------- MODULE SdSpi -------------------------------
(***************************************************************************)
(* The SD card controller (rtl/sdspi.v with its serial port rtl/llsdspi.v) *)
(* talking to the simulated card.  One step exchanges one byte: the serial *)
(* port accepts ll_cmd_dat, r_cmd_state picks the byte after it, and the   *)
(* response machine looks at the byte received.  The host is the software  *)
(* of a Wishbone master: it writes the argument to the data register, the  *)
(* command to the command register, and waits for the busy flag to fall.   *)
(*                                                                         *)
(* Commands with an R1b answer and the clock and block length settings are *)
(* left out: no command the card knows needs them.                         *)
(***************************************************************************)
EXTENDS Integers, Sequences
-----------------------------------------------------------------------------
(***************************************************************************)
(* The SD card as bench/cpp/sdspisim.cpp simulates it, one step per byte   *)
(* of the serial line; the four bytes of an argument and the four of a     *)
(* response word are a step each, the response buffer of eight bytes is    *)
(* <<R1, word, FF>>, and the 60 bytes of delay before a block are Delay    *)
(* steps.  What the card sends during a step is m_dat_out as the step      *)
(* before left it.                                                         *)
(*                                                                         *)
(* A wire value is a pair: <<"FF", 0>> is the idle line, <<"cmd", n>> the  *)
(* first byte of command n, <<"arg", a>>, <<"crc", n, a>>, <<"token", 0>>  *)
(* the start of a block (0xfe), <<"data", d>>, <<"dcrc", s>> the checksum  *)
(* of the block s, <<"r1", v>>, and <<"resp", v>> a data response token.   *)
(***************************************************************************)
CONSTANTS Blocks,      \* the contents: block number -> sequence of words
          Delay,       \* steps before a block (m_blkdly)
          Lag          \* steps before a response (m_rspdly, 2 or 4)

ASSUME SdTimes == {Delay, Lag} \subseteq Nat

FF == <<"FF", 0>>

\* The checksum of a command, and of a block: both ends compute it.
CmdCrc(n, a) == <<"crc", n, a>>
BlockCrc(s) == <<"dcrc", s>>
BlockAddr == DOMAIN Blocks
BlockLen == Len(Blocks[CHOOSE b \in BlockAddr : TRUE])

CardInit ==
  [idx |-> 0, cmd |-> 0, arg |-> 0, alt |-> FALSE, reset |-> "POWERUP",
   power |-> "unasked", rsp |-> <<>>, dly |-> 0, blkdly |-> 0, blk |-> <<>>,
   reading |-> FALSE, token |-> FALSE, rx |-> <<>>, out |-> FF, failed |-> FALSE]

\* Chip select is high: the counters start again.  m_reading_data and m_rspdly
\* stay; the response and the block are set again by the next command.
CardDeselect(c) == [c EXCEPT !.idx = 0, !.out = FF, !.rsp = <<>>, !.blk = <<>>, !.blkdly = 0]

\* The answer to a command: R1 and a word; the block buffer is not sent.
Answer(c, r1, word, dly) ==
  [c EXCEPT !.rsp = <<<<"r1", r1>>, word, FF>>, !.dly = dly, !.blk = <<>>, !.blkdly = 0]
AnswerBlock(c, s) ==       \* m_rspdly is left as it was
  [Answer(c, 0, FF, c.dly) EXCEPT !.blk = <<<<"token", 0>>>> \o s \o <<BlockCrc(s)>>,
                                  !.blkdly = Delay]
Fail(c) == [c EXCEPT !.failed = TRUE]          \* an assert of the simulator
Require(c, ok, d) == IF ok THEN d ELSE Fail(c)

\* ACMD41, the only application command the drivers of this design send: the
\* first one starts the card, whose power-up takes until CardPowered.
AppCommand(c) ==
  LET d == [c EXCEPT !.alt = FALSE]
  IN IF c.cmd = 41
     THEN Require(c, c.reset \in {"CMD8", "ACMD41", "COMPLETE"},
            IF c.power = "up"
            THEN [Answer(d, 0, FF, Lag) EXCEPT !.reset = "COMPLETE"]
            ELSE [Answer(d, 1, FF, Lag) EXCEPT !.reset = "ACMD41", !.power = "busy"])
     ELSE Fail(c)

Command(c) ==
  CASE c.cmd = 0 -> [Answer(c, 1, FF, Lag) EXCEPT !.reset = "CMD0"]
    [] c.cmd = 1 -> Answer(c, 2, FF, Lag)
    [] c.cmd = 8 -> Require(c, c.reset \in {"CMD0", "CMD8"},
                      [Answer(c, 0, <<"echo", c.arg>>, Lag) EXCEPT !.reset = "CMD8"])
    [] c.cmd \in {9, 10} -> Require(c, c.reset = "OPERATION",
                                    AnswerBlock(c, <<<<"reg", c.cmd>>>>))
    [] c.cmd = 13 -> Require(c, c.reset = "OPERATION", Answer(c, 0, FF, Lag))
    [] c.cmd = 17 -> Require(c, c.reset = "OPERATION" /\ c.arg \in BlockAddr,
                             AnswerBlock(c, Blocks[c.arg]))
    [] c.cmd = 24 -> [Answer(c, 0, FF, c.dly)
                        EXCEPT !.rsp = <<FF, FF, FF>>, !.out = <<"r1", 0>>,
                               !.reading = TRUE, !.token = FALSE]
    [] c.cmd = 55 -> [Answer(c, 0, FF, Lag) EXCEPT !.alt = TRUE]
    [] c.cmd = 58 -> [Answer(c, 0, <<"ocr", c.power>>, Lag)
                        EXCEPT !.reset = IF @ = "COMPLETE" THEN "OPERATION" ELSE @]
    [] OTHER -> Fail(c)                         \* assert(0 && "Not Implemented")

\* The power-up of the card ends (m_powerup_busy counts to zero).
CardPowered(c) == [c EXCEPT !.power = "up"]

\* A byte of a block that is being written, after CMD24: the card waits for the
\* token, collects the block and its checksum, and answers 5.  It keeps nothing.
BlockByte(c, b) ==
  IF ~c.token
  THEN IF b = <<"token", 0>> THEN [c EXCEPT !.token = TRUE, !.rx = <<>>] ELSE c
  ELSE IF Len(c.rx) < BlockLen THEN [c EXCEPT !.rx = Append(@, b)]
  ELSE [Require(c, b = BlockCrc(c.rx), c)
          EXCEPT !.reading = FALSE, !.token = FALSE, !.out = <<"resp", 5>>]

\* The six bytes of a command.
CollectByte(c, b) ==
  CASE c.idx = 0 -> Require(c, b[1] = "cmd", [c EXCEPT !.idx = 1, !.cmd = b[2]])
    [] c.idx = 1 -> [c EXCEPT !.idx = 2, !.arg = b[2]]
    [] c.idx = 2 -> Require(c, b = CmdCrc(c.cmd, c.arg), [c EXCEPT !.idx = 3])

\* The steps after a command: the delay, the response, the delay of the block
\* and the block.  The host must send nothing but FF.
Respond(c, b) ==
  LET d == Require(c, b = FF, c)
  IN CASE c.dly > 0 -> [d EXCEPT !.dly = @ - 1]
       [] c.dly = 0 /\ c.rsp # <<>> -> [d EXCEPT !.out = Head(c.rsp), !.rsp = Tail(@)]
       [] c.dly = 0 /\ c.rsp = <<>> /\ c.blkdly > 0 -> [d EXCEPT !.blkdly = @ - 1]
       [] c.dly = 0 /\ c.rsp = <<>> /\ c.blkdly = 0 /\ c.blk # <<>> ->
            [d EXCEPT !.out = Head(c.blk), !.blk = Tail(@)]
       [] OTHER -> d

\* One step of the serial line with the card selected.
CardByte(card, b) ==
  LET c == [card EXCEPT !.out = FF]
  IN CASE c.failed -> c
       [] ~c.failed /\ c.reading -> BlockByte(c, b)
       [] ~c.failed /\ ~c.reading /\ c.idx < 3 -> CollectByte(c, b)
       [] ~c.failed /\ ~c.reading /\ c.idx = 3 ->
            LET d == [c EXCEPT !.idx = 4] IN IF c.alt THEN AppCommand(d) ELSE Command(d)
       [] OTHER -> Respond(c, b)
-----------------------------------------------------------------------------
CONSTANT WriteBlock     \* what the host writes to a block

ASSUME BlocksAssumption ==
  /\ BlockLen \in Nat \ {0}
  /\ \A s \in {WriteBlock} \cup {Blocks[b] : b \in BlockAddr} :
       s = [i \in 1 .. BlockLen |-> s[i]]

VARIABLES sd,           \* the controller's registers
          card          \* the card

SdInit ==
  /\ card = CardInit
  /\ sd = [busy |-> FALSE, stb |-> FALSE, state |-> "Cmd", rsp |-> "NONE",
           have |-> FALSE, useFifo |-> FALSE, fifoWr |-> FALSE, word |-> FALSE,
           n |-> 0, arg |-> 0, dat |-> FF, r1 |-> 255, data |-> FF,
           fifo |-> [i \in 1 .. BlockLen |-> FF], pos |-> 0, started |-> FALSE,
           full |-> FALSE, crcErr |-> FALSE, err |-> FALSE]

\* A write of the command register: taken only when no command is running.  A
\* command r has a number, an argument and the bits 8..11: expect a word, use
\* the FIFO, write from it.  The host sets bit 15, which clears the errors, and
\* has filled the FIFO before a command that writes from it.
WriteCommand(r) ==
  /\ UNCHANGED card
  /\ sd' = IF sd.busy THEN sd
           ELSE [sd EXCEPT !.busy = TRUE, !.stb = TRUE, !.state = "Cmd", !.rsp = "NONE",
                           !.have = FALSE, !.useFifo = r.useFifo, !.fifoWr = r.fifoWr,
                           !.word = r.word, !.n = r.n, !.arg = r.arg,
                           !.dat = <<"cmd", r.n>>, !.pos = 0, !.started = FALSE,
                           !.full = FALSE, !.crcErr = FALSE, !.err = FALSE,
                           !.fifo = IF r.fifoWr THEN WriteBlock ELSE @]

\* The serial port has accepted s.dat: the state moves on and picks the next.
Accepted(s) ==
  CASE s.state = "Cmd" -> [s EXCEPT !.state = "Arg", !.dat = <<"arg", s.arg>>]
    [] s.state = "Arg" -> [s EXCEPT !.state = "Crc", !.dat = CmdCrc(s.n, s.arg)]
    [] s.state = "Crc" -> [s EXCEPT !.state = "Wait", !.dat = FF]
    [] s.state = "Wait" /\ ~s.have -> [s EXCEPT !.dat = FF]
    [] s.state = "Wait" /\ s.have ->
         [s EXCEPT !.state = IF s.useFifo THEN "Fifo" ELSE "Done",
                   !.dat = IF s.useFifo /\ s.fifoWr THEN <<"token", 0>> ELSE FF]
    [] s.state = "Fifo" /\ s.fifoWr /\ s.pos < BlockLen ->
         [s EXCEPT !.dat = s.fifo[s.pos + 1], !.pos = @ + 1]
    [] s.state = "Fifo" /\ s.fifoWr /\ s.pos = BlockLen ->
         [s EXCEPT !.dat = BlockCrc(s.fifo), !.pos = @ + 1]
    [] s.state = "Fifo" /\ s.fifoWr /\ s.pos > BlockLen ->
         [s EXCEPT !.state = "Done", !.dat = FF]
    [] OTHER -> [s EXCEPT !.dat = FF]

\* A byte of the block that is read: after the token, words into the FIFO and
\* then the checksum.
StoreByte(s, rx) ==
  CASE ~s.started -> [s EXCEPT !.started = (rx = <<"token", 0>>)]
    [] s.started /\ ~s.full /\ s.pos < BlockLen ->
         [s EXCEPT !.fifo[s.pos + 1] = rx, !.pos = @ + 1]
    [] s.started /\ ~s.full /\ s.pos = BlockLen ->
         [s EXCEPT !.full = TRUE, !.crcErr = (rx # BlockCrc(s.fifo))]
    [] OTHER -> s

\* The response machine, which looks at a byte once the command is sent.
\* Mutant: the command ends with its answer, the block still to come.
ReceivedEarly(s, rx) ==
  IF s.state \in {"Cmd", "Arg", "Crc"} THEN s ELSE
  CASE s.rsp = "NONE" /\ rx[1] \in {"r1", "resp"} ->
         [s EXCEPT !.r1 = rx[2], !.rsp = IF s.word THEN "GETWORD" ELSE "WRITING",
                   !.have = ~s.word, !.stb = s.word]
    [] s.rsp = "GETWORD" -> [s EXCEPT !.data = rx, !.stb = FALSE, !.rsp = "RDCOMPLETE"]
    [] OTHER -> s
Received(s, rx) ==
  IF s.state \in {"Cmd", "Arg", "Crc"} THEN s ELSE
  CASE s.rsp = "NONE" /\ rx[1] \in {"r1", "resp"} ->
         [s EXCEPT !.r1 = rx[2],
                   !.rsp = IF s.word THEN "GETWORD"
                           ELSE IF s.useFifo /\ s.fifoWr THEN "GETTOKEN" ELSE "WRITING",
                   !.have = ~s.word,
                   !.stb = s.word \/ s.useFifo]
    [] s.rsp = "GETWORD" -> [s EXCEPT !.data = rx, !.stb = s.useFifo, !.rsp = "RDCOMPLETE"]
    [] s.rsp = "GETTOKEN" /\ rx[1] = "resp" -> [s EXCEPT !.data = rx, !.rsp = "BUSY"]
    [] s.rsp = "BUSY" -> [s EXCEPT !.rsp = "RDCOMPLETE"]      \* the line is never zero
    [] s.rsp = "RDCOMPLETE" -> [s EXCEPT !.stb = FALSE]
    [] s.rsp = "WRITING" -> IF s.full THEN [s EXCEPT !.stb = FALSE] ELSE StoreByte(s, rx)
    [] OTHER -> s

\* One byte is exchanged: the port is selected and has been granted the lines.
SdByte(granted) ==
  /\ sd.stb /\ granted
  /\ card' = CardByte(card, sd.dat)
  /\ sd' = Received(Accepted(sd), card.out)

\* The command is over and the serial port is idle: chip select rises.
SdFinish(granted) ==
  /\ sd.busy /\ ~sd.stb /\ granted
  /\ sd' = [sd EXCEPT !.busy = FALSE, !.state = "Cmd", !.rsp = "NONE", !.have = FALSE,
                      !.pos = 0, !.started = FALSE, !.full = FALSE, !.dat = FF]
  /\ card' = CardDeselect(card)

\* r_watchdog runs out: the command is given up as soon as the port is granted.
\* Before the grant is the only place where a command can wait without bound.
SdWatchdog(granted) ==
  /\ sd.stb /\ ~granted
  /\ sd' = [sd EXCEPT !.stb = FALSE, !.err = TRUE]
  /\ UNCHANGED card

PowerUp == card.power = "busy" /\ card' = CardPowered(card) /\ UNCHANGED sd
=============================================================================
