------------------------------- MODULE WbDma --------------------------------
(***************************************************************************)
(* The DMA controller, rtl/cpu/wbdmac.v, clock by clock, between a program *)
(* that follows the check list of the file's header and the bus that       *)
(* busmaster.v puts in front of the source and the destination: arbiters,  *)
(* the watchdog and the delay of cpu/busdelay.v with its two buffers.      *)
(* Word k of the source is the number k, and both addresses count from     *)
(* where the transfer starts.                                              *)
(***************************************************************************)
EXTENDS ZipBounds, Sequences

VARIABLES dma,    \* the registers
          pend,   \* the requests the bus took and has not answered, by address
          dly,    \* the delay: how many of them it still holds, its answer
          job,    \* the transfer the program wants, and its next write
          out     \* the words written since the start: address, word
vars == <<dma, pend, dly, job, out>>

NoJob == [len |-> 0, incs |-> FALSE, incd |-> FALSE, at |-> "on", stopped |-> TRUE]
Junk == MaxMove
Idle == [granted |-> FALSE, held |-> 0, o_wb_ack |-> FALSE, o_wb_err |-> FALSE]
Inc(x) == (x + 1) % DmaSpace

Init ==
  /\ dma = [dma_state |-> "IDLE", cfg_len |-> 0, cfg_raddr |-> 0, cfg_waddr |-> 0,
            cfg_blocklen_sub_one |-> Block - 1, cfg_incs |-> FALSE, cfg_incd |-> FALSE,
            cfg_on_dev_trigger |-> FALSE, cfg_err |-> FALSE,
            nread |-> 0, nracks |-> 0, nwritten |-> 0, nwacks |-> 0,
            last_read_request |-> FALSE, last_read_ack |-> FALSE,
            last_write_request |-> FALSE, last_write_ack |-> FALSE,
            trigger |-> FALSE, abort |-> FALSE, user_halt |-> FALSE,
            addr |-> 0, data |-> Junk, rdaddr |-> 0,
            dma_mem |-> [a \in 0 .. Block - 1 |-> Junk], o_interrupt |-> FALSE]
  /\ pend = << >> /\ dly = Idle /\ out = << >>
  /\ job = NoJob

cyc == dma.dma_state \in {"READ_REQ", "READ_ACK", "WRITE_REQ", "WRITE_ACK"}
stb == dma.dma_state \in {"READ_REQ", "WRITE_REQ"}
we == dma.dma_state \in {"PRE_WRITE", "WRITE_REQ", "WRITE_ACK"}
In(st) == dma.dma_state = st

\* The writes to the control register; only the first of them starts.
Control == {"go", "abort", "halt"}
-----------------------------------------------------------------------------
(* The registers.  w is the write on the control bus, b what the bus says. *)

Taken(b) == stb /\ ~b.stall

\* The end of a block: nothing left, or the next one.
BlockDone == IF dma.cfg_len <= 1 THEN "IDLE" ELSE "WAIT"

dma_state(w, b) ==
  LET stops == b.err \/ dma.abort
      turns == b.ack /\ dma.last_read_ack
  IN  CASE In("IDLE") -> IF w.op = "go" /\ dma.cfg_len # 0 THEN "WAIT" ELSE "IDLE"
        [] In("WAIT") -> IF dma.abort \/ dma.user_halt THEN "IDLE"
                         ELSE IF dma.trigger THEN "READ_REQ" ELSE "WAIT"
        [] In("READ_REQ") -> IF stops THEN "IDLE" ELSE IF turns THEN "PRE_WRITE"
                             ELSE IF ~b.stall /\ (dma.last_read_request \/ dma.user_halt)
                             THEN "READ_ACK" ELSE "READ_REQ"
        [] In("READ_ACK") -> IF stops \/ (b.ack /\ dma.user_halt) THEN "IDLE"
                             ELSE IF turns THEN "PRE_WRITE" ELSE "READ_ACK"
        [] In("PRE_WRITE") -> IF dma.abort THEN "IDLE" ELSE "WRITE_REQ"
        [] dma.dma_state \in {"WRITE_REQ", "WRITE_ACK"} ->
             IF stops THEN "IDLE" ELSE IF b.ack /\ dma.last_write_ack THEN BlockDone
             ELSE IF dma.cfg_len = 0 THEN "IDLE"
             ELSE IF In("WRITE_REQ") /\ ~b.stall /\ dma.last_write_request
             THEN "WRITE_ACK" ELSE dma.dma_state

addr(b) ==
  CASE dma.dma_state \in {"IDLE", "WAIT"} -> dma.cfg_raddr
    [] In("PRE_WRITE") -> dma.cfg_waddr
    [] Taken(b) /\ (IF we THEN dma.cfg_incd ELSE dma.cfg_incs) -> Inc(dma.addr)
    [] OTHER -> dma.addr

\* The source moves with the answers, the destination with the requests.
cfg_raddr(w, b) ==
  IF In("IDLE") /\ w.op = "src" THEN 0
  ELSE IF cyc /\ ~we /\ b.ack /\ ~dma.abort /\ dma.cfg_incs THEN Inc(dma.cfg_raddr)
  ELSE dma.cfg_raddr

cfg_waddr(w, b) ==
  IF In("IDLE") /\ w.op = "dst" THEN 0
  ELSE IF In("WRITE_REQ") /\ Taken(b) /\ dma.cfg_incd THEN Inc(dma.cfg_waddr)
  ELSE dma.cfg_waddr

cfg_len(w, b) ==
  IF In("IDLE") /\ w.op = "len" THEN w.len
  ELSE IF cyc /\ we /\ b.ack THEN (dma.cfg_len + DmaSpace - 1) % DmaSpace
  ELSE dma.cfg_len

\* A count that starts over while off.
Count(off, steps, n) == IF off THEN 0 ELSE IF steps THEN (n + 1) % (2 * Block) ELSE n

Between == dma.dma_state \in {"IDLE", "WAIT"}

last_read_request(b) ==
  LET n == IF In("READ_REQ") /\ ~b.stall THEN dma.nracks + 1 ELSE dma.nracks
  IN  /\ dma.dma_state \in {"WAIT", "READ_REQ"}
      /\ n = dma.cfg_blocklen_sub_one \/ n + 1 = dma.cfg_len

\* Whether the next answer is the last, as registered a clock ahead.
last_read_ack(b) ==
  LET n == IF b.ack /\ ~Taken(b) THEN dma.nread + 1 ELSE dma.nread
  IN  \/ In("READ_REQ") /\ n = dma.cfg_blocklen_sub_one
      \/ In("READ_ACK") /\ n + 1 = dma.nracks

last_write_request(b) ==
  \/ In("PRE_WRITE") /\ dma.nread <= 1
  \/ /\ In("WRITE_REQ")
     /\ LET ahead == IF b.stall THEN 1 ELSE 2
        IN  dma.nread >= ahead /\ dma.nwritten + ahead >= dma.nread

last_write_ack(b) ==
  /\ dma.dma_state \in {"WRITE_REQ", "WRITE_ACK"}
  /\ (IF b.ack /\ ~Taken(b) THEN dma.nwacks + 2 ELSE dma.nwacks + 1) = dma.nwritten

\* A mutant of the next: the buffer is read on although the bus stalls.
rdaddrStalled(b) ==
  IF dma.dma_state \in {"IDLE", "WAIT", "WRITE_ACK"} THEN 0
  ELSE IF we THEN (dma.rdaddr + 1) % Block ELSE dma.rdaddr

\* One ahead of the word on the bus.
rdaddr(b) ==
  IF dma.dma_state \in {"IDLE", "WAIT", "WRITE_ACK"} THEN 0
  ELSE IF In("PRE_WRITE") \/ (In("WRITE_REQ") /\ ~b.stall) THEN (dma.rdaddr + 1) % Block
  ELSE dma.rdaddr

dma_mem(b) ==
  IF cyc /\ ~we THEN [dma.dma_mem EXCEPT ![dma.nread % Block] =
                        IF b.ack THEN Head(pend) ELSE Junk]
  ELSE dma.dma_mem

Registers(w, b, dev) ==
  LET go == In("IDLE") /\ w.op \in Control IN
  dma' = [dma_state |-> dma_state(w, b), cfg_len |-> cfg_len(w, b),
          cfg_raddr |-> cfg_raddr(w, b), cfg_waddr |-> cfg_waddr(w, b),
          cfg_blocklen_sub_one |-> IF go THEN (w.blk + Block - 1) % Block
                                   ELSE dma.cfg_blocklen_sub_one,
          cfg_incs |-> IF go THEN w.incs ELSE dma.cfg_incs,
          cfg_incd |-> IF go THEN w.incd ELSE dma.cfg_incd,
          cfg_on_dev_trigger |-> IF go THEN w.dev ELSE dma.cfg_on_dev_trigger,
          cfg_err |-> IF In("IDLE") THEN dma.cfg_err /\ ~go
                      ELSE dma.cfg_err \/ (b.err /\ cyc) \/ dma.abort,
          nread |-> Count(Between, ~we /\ b.ack, dma.nread),
          nracks |-> Count(Between, ~we /\ Taken(b), dma.nracks),
          nwritten |-> Count(~cyc \/ ~we, Taken(b), dma.nwritten),
          nwacks |-> Count(~cyc \/ ~we, b.ack, dma.nwacks),
          last_read_request |-> last_read_request(b), last_read_ack |-> last_read_ack(b),
          last_write_request |-> last_write_request(b), last_write_ack |-> last_write_ack(b),
          trigger |-> In("WAIT") /\ (dma.cfg_on_dev_trigger => dev),
          abort |-> ~In("IDLE") /\ w.op = "abort",
          user_halt |-> ~In("IDLE") /\ (dma.user_halt \/ w.op = "halt"),
          addr |-> addr(b), rdaddr |-> rdaddr(b), dma_mem |-> dma_mem(b),
          data |-> IF In("WRITE_REQ") /\ b.stall THEN dma.data ELSE dma.dma_mem[dma.rdaddr],
          o_interrupt |-> \/ /\ In("WRITE_ACK") /\ b.ack
                             /\ dma.last_write_ack /\ dma.cfg_len = 1
                          \/ ~In("IDLE") /\ b.err]
-----------------------------------------------------------------------------
(* The bus.  The delay stalls when both its buffers are full, and before   *)
(* the arbiters have granted it; the devices behind stall, answer in order *)
(* a clock after they took a request or later, and refuse what they like.  *)

Owed == Len(pend) - dly.held - (IF dly.o_wb_ack THEN 1 ELSE 0)

Answers == [stall : BOOLEAN, ack : BOOLEAN, err : BOOLEAN]

Devices(v) ==
  /\ v.stall => dly.held > 0
  /\ v.ack => Owed > 0 /\ ~v.err
  /\ v.err => Owed + dly.held > 0

\* What the controller sees of it.  The watchdog only counts without a strobe.
Bus(grant, dog) == [stall |-> ~(dly.granted \/ grant) \/ dly.held = 2,
                    ack |-> dly.o_wb_ack, err |-> dly.o_wb_err \/ dog]

Delay(b, v, grant) ==
  LET kills == ~cyc \/ v.err \/ dly.o_wb_err
      kept == IF b.ack THEN Tail(pend) ELSE pend
      sent == IF dly.held > 0 /\ ~v.stall THEN 1 ELSE 0
      new == IF Taken(b) THEN 1 ELSE 0
  IN  /\ dly' = [granted |-> cyc /\ (dly.granted \/ grant),
                 held |-> IF kills THEN 0 ELSE (dly.held + new) - sent,
                 o_wb_ack |-> v.ack /\ ~kills, o_wb_err |-> cyc /\ v.err]
      /\ pend' = IF kills THEN << >> ELSE IF Taken(b) THEN Append(kept, dma.addr) ELSE kept

\* The program: length, source, destination and control, when it is idle.
\* A transfer is stopped once at most, when it may have ended already.
Starts == [op : {"go"}, blk : Blocks, incs : BOOLEAN, incd : BOOLEAN, dev : BOOLEAN]
Stops == { [op |-> "abort", blk |-> 0, incs |-> FALSE, incd |-> FALSE, dev |-> FALSE],
           [op |-> "halt", blk |-> 0, incs |-> FALSE, incd |-> TRUE, dev |-> FALSE] }

Offers ==
  CASE job.at \in {"src", "dst"} -> [op : {job.at}]
    [] job.at = "go" -> Starts
    [] job.at = "on" -> (IF In("IDLE") THEN [op : {"len"}, len : 0 .. MaxMove] ELSE {})
                        \cup (IF job.stopped THEN {} ELSE Stops)

Program(w) ==
  job' = CASE w.op = "none" -> job
           [] w.op = "len" -> [job EXCEPT !.len = w.len, !.at = "src"]
           [] w.op = "src" -> [job EXCEPT !.at = "dst"]
           [] w.op = "dst" -> [job EXCEPT !.at = "go"]
           [] w.op = "go" -> [len |-> job.len, incs |-> w.incs, incd |-> w.incd,
                              at |-> "on", stopped |-> FALSE]
           [] w.op \in {"abort", "halt"} -> [job EXCEPT !.stopped = TRUE]

Written(w, b) ==
  out' = IF w.op \in {"len", "go"} THEN << >>
         ELSE IF we /\ Taken(b) THEN Append(out, <<dma.addr, dma.data>>) ELSE out

Clock ==
  \E w \in Offers \cup [op : {"none"}], v \in Answers, grant, dog, dev \in BOOLEAN :
    LET b == Bus(grant, dog) IN
    /\ Devices(v) /\ (dev => dma.cfg_on_dev_trigger)
    /\ grant => stb /\ ~dly.granted
    /\ dog => dma.dma_state \in {"READ_ACK", "WRITE_ACK"}
    /\ Registers(w, b, dev) /\ Delay(b, v, grant) /\ Program(w) /\ Written(w, b)

\* The processor's reset.  The settings and the halt do not hear of it.
Reset ==
  /\ dma' = [dma EXCEPT !.dma_state = "IDLE", !.cfg_on_dev_trigger = FALSE,
               !.cfg_incs = FALSE, !.cfg_incd = FALSE, !.cfg_len = 0, !.cfg_err = FALSE,
               !.nread = 0, !.nracks = 0, !.nwritten = 0, !.nwacks = 0,
               !.last_read_request = FALSE, !.last_read_ack = FALSE,
               !.last_write_request = FALSE, !.last_write_ack = FALSE,
               !.trigger = FALSE, !.abort = FALSE, !.rdaddr = 0, !.data = 0,
               !.user_halt = dma.user_halt /\ ~In("IDLE"), !.o_interrupt = FALSE]
  /\ pend' = << >> /\ dly' = Idle /\ out' = << >>
  /\ job' = NoJob

Next == Clock \/ Reset

Spec == Init /\ [][Next]_vars
-----------------------------------------------------------------------------
(* wbdmac.v:9-18: what is written is the source's words, in order, each at *)
(* its place; the length register has counted no word that was not; and    *)
(* the interrupt that tells of the end comes after the last of them.       *)
Copies ==
  /\ \A i \in DOMAIN out :
       out[i] = <<IF job.incd THEN i - 1 ELSE 0, IF job.incs THEN i - 1 ELSE 0>>
  /\ job.at = "on" => Len(out) >= job.len - dma.cfg_len
  /\ dma.o_interrupt /\ ~dma.cfg_err => Len(out) = job.len
=============================================================================
