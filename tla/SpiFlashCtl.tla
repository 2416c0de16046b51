---------------------------- MODULE SpiFlashCtl ----------------------------
(***************************************************************************)
(* The flash controller (rtl/wbspiflash.v with its serial port             *)
(* rtl/lldspi.v), its Wishbone master and the flash chip.  A word is one   *)
(* step of the serial line: the four bytes are swapped on the way in and   *)
(* on the way out, and nothing here looks inside a word.                   *)
(*                                                                         *)
(* fl.send holds what the serial port has still to send with chip select   *)
(* low; a step of the controller that follows on spi_valid or ~spi_busy is *)
(* enabled when it is empty.  A request r has a target ("data" or a        *)
(* register), a direction, an address and data.                            *)
(***************************************************************************)
EXTENDS Integers, Sequences, FiniteSets
-----------------------------------------------------------------------------
(***************************************************************************)
(* The SPI flash as bench/cpp/qspiflashsim.cpp simulates it: a record and  *)
(* the operators that change it.  The simulator is called once per clock   *)
(* and acts on every eighth falling edge, so one step here is eight clocks *)
(* of the serial line.  The three address bytes, which the simulator only  *)
(* collects, are one step.  What it shifts out during a step is what it    *)
(* put in m_oreg at the end of the step before.  The quad commands (0x32,  *)
(* 0xeb), which nothing in this design sends, are left out.                *)
(*                                                                         *)
(* A byte of data is a set of bits, so that programming, a bitwise AND, is *)
(* an intersection and the erased byte is the set of all bits.  A wire     *)
(* value is a pair <<kind, value>>: a command, an address or a data byte.  *)
(***************************************************************************)
CONSTANTS Bits,         \* the bits of a byte
          MemBytes,     \* m_membytes
          PageBytes,    \* 256 in the simulator
          EraseBytes    \* what each erase command the chip knows erases: in the
                        \* simulator only SECTOR_ERASE (0xd8), 1<<16 bytes

ASSUME FlashSizes ==
  /\ {MemBytes, PageBytes} \cup {EraseBytes[c] : c \in DOMAIN EraseBytes} \subseteq Nat \ {0}
  /\ MemBytes % PageBytes = 0
  /\ \A c \in DOMAIN EraseBytes : MemBytes % EraseBytes[c] = 0

\* The names of the erase commands are those of no other command or state.
ASSUME EraseNames ==
  DOMAIN EraseBytes \cap {"IDLE", "RDSR", "RDCR", "WRSR", "CLSR", "RDID", "RELEASE", "FAST_READ",
                          "PP", "BULK_ERASE", "INVALID", "ABORT", "SLOW_READ", "WRDI", "WREN",
                          "DPD"} = {}

Byte == SUBSET Bits
Erased == Bits
Addr == 0 .. MemBytes - 1
PageOf(a) == a - (a % PageBytes)
\* A command the chip does not know erases nothing.
SameSector(c, a, b) == c \in DOMAIN EraseBytes /\ a \div EraseBytes[c] = b \div EraseBytes[c]

Cmd(c) == <<"cmd", c>>
AddrByte(a) == <<"addr", a>>
Data(d) == <<"data", d>>

FlashState == {"IDLE", "RDSR", "RDCR", "WRSR", "CLSR", "RDID", "RELEASE",
               "FAST_READ", "PP", "BULK_ERASE", "INVALID", "ABORT"} \cup DOMAIN EraseBytes

FlashInit(mem) ==
  [state |-> "IDLE", count |-> 0, addr |-> 0, mem |-> mem,
   pmem |-> [i \in 0 .. PageBytes - 1 |-> Erased],
   wip |-> FALSE, wel |-> FALSE, dpd |-> FALSE, out |-> Data(Erased)]

\* The timer m_write_count reaches zero: m_sreg &= 0x0fc, which clears the
\* deep-power-down bit (0x200) as well.  When it does so is a choice.
FlashDone(c) == [c EXCEPT !.wip = FALSE, !.wel = FALSE, !.dpd = FALSE]

\* m_sreg & 0x203 == 2: write enabled, nothing in progress, powered up.
MayWrite(c) == c.wel /\ ~c.wip /\ ~c.dpd

StartWrite(c, mem) ==
  [c EXCEPT !.wel = FALSE, !.wip = TRUE, !.mem = mem]

\* Chip select rises: the program, erase or register write starts now.  What the
\* simulator keeps of the command, its state, address and page, is set again by
\* the next one before it is used, unless a program or an erase ends before its
\* address: that one is marked INVALID here.
FlashDeselect(c) ==
  LET d == [c EXCEPT !.state = IF @ \in {"INVALID", "ABORT"} THEN @ ELSE "IDLE",
                     !.count = 0, !.out = Data(Erased), !.addr = 0,
                     !.pmem = [i \in 0 .. PageBytes - 1 |-> Erased]]
  IN CASE c.state \in {"PP"} \cup DOMAIN EraseBytes /\ c.count < 2 ->
            [d EXCEPT !.state = "INVALID"]
       [] c.state = "PP" /\ c.count >= 2 ->
            StartWrite(d, [a \in Addr |-> IF PageOf(a) = PageOf(c.addr)
                                          THEN c.mem[a] \cap c.pmem[a % PageBytes]
                                          ELSE c.mem[a]])
       [] c.state \in DOMAIN EraseBytes /\ c.count >= 2 ->
            StartWrite(d, [a \in Addr |-> IF SameSector(c.state, a, c.addr)
                                          THEN Erased ELSE c.mem[a]])
       [] c.state = "BULK_ERASE" -> StartWrite(d, [a \in Addr |-> Erased])
       [] c.state = "WRSR" -> StartWrite(d, c.mem)
       [] c.state = "CLSR" -> [d EXCEPT !.dpd = FALSE]
       [] OTHER -> d

StatusByte(c) == <<"status", c.wip>>

\* The first step after chip select: which command it is.
FlashCommand(c, cmd) ==
  LET go(s) == [c EXCEPT !.state = s, !.count = 1, !.out = Data({})]
      ifMayWrite(s) == go(IF MayWrite(c) THEN s ELSE "INVALID")
  IN CASE cmd \in {"PP", "WRSR", "BULK_ERASE"} \cup DOMAIN EraseBytes -> ifMayWrite(cmd)
       [] cmd \in {"FAST_READ", "CLSR", "RDCR", "RDID"} -> go(cmd)
       [] cmd = "RDSR" -> [go(cmd) EXCEPT !.out = StatusByte(c)]
       [] cmd = "SLOW_READ" -> go("INVALID")
       [] cmd = "WRDI" -> [go("IDLE") EXCEPT !.wel = FALSE]
       [] cmd = "WREN" -> [go("IDLE") EXCEPT !.wel = TRUE]
       [] cmd = "RELEASE" -> [go(cmd) EXCEPT !.dpd = FALSE]
       [] cmd = "DPD" -> IF c.wip THEN go("INVALID")
                         ELSE [go("IDLE") EXCEPT !.dpd = TRUE]
       [] OTHER -> go("ABORT")        \* assert(0 && "Unrecognized command\n")

\* The next byte of a read, if no write is in progress, and zero if one is.
ReadOut(c) ==
  IF c.wip THEN [c EXCEPT !.out = Data({})]
  ELSE [c EXCEPT !.out = Data(c.mem[c.addr]), !.addr = (c.addr + 1) % MemBytes]

\* A byte for the page buffer, which wraps inside its page.
PageByte(c, d) ==
  [c EXCEPT !.pmem[c.addr % PageBytes] = d,
            !.addr = PageOf(c.addr) + ((c.addr + 1) % PageBytes)]

HasAddress(c) == c.state \in {"FAST_READ", "PP"} \cup DOMAIN EraseBytes

\* The address of a command that has one; a program clears its page buffer.
TakeAddress(c, a) ==
  [c EXCEPT !.addr = a,
            !.pmem = IF c.state = "PP" THEN [i \in 0 .. PageBytes - 1 |-> Erased] ELSE @]

\* A further step of a command.
Counted(c) == [c EXCEPT !.count = IF @ < 3 THEN @ + 1 ELSE 3, !.out = Data({})]
FlashMore(c, b) ==
  LET d == Counted(c)
  IN CASE c.state = "RDSR" -> [d EXCEPT !.out = StatusByte(c)]
       [] c.state \in {"RDCR", "RDID", "RELEASE"} -> [d EXCEPT !.out = <<"id", c.state>>]
       [] c.state = "CLSR" \/ (c.state = "WRSR" /\ c.count = 3) ->
            [d EXCEPT !.state = "ABORT"]
       [] c.count = 1 /\ b[1] = "addr" /\ HasAddress(c) -> TakeAddress(d, b[2])
       [] c.count > 1 /\ c.state = "FAST_READ" -> ReadOut(d)
       [] c.count > 1 /\ c.state = "PP" -> PageByte(d, b[2])
       [] OTHER -> d

\* One step of the serial line with chip select low.
FlashByte(c, b) ==
  IF c.count = 0 THEN FlashCommand(c, IF b[1] = "cmd" THEN b[2] ELSE "unknown")
  ELSE FlashMore(c, b)
-----------------------------------------------------------------------------
CONSTANT PageWords      \* the controller's page (PW), in words
ASSUME PagesAgree == PageWords \in Nat \ {0} /\ PageBytes % PageWords = 0
\* Does the chip know the command the controller erases with, 0x20?  That of the
\* board does; the simulated one does not.
ChipErases == "SUBSECTOR_ERASE" \in DOMAIN EraseBytes

VARIABLES chip,         \* the flash
          fl,           \* the controller's registers and its serial port
          bus,          \* the master: cyc, stb (a request or None), answers awaited
          want,         \* ghost: what the accepted requests make of the memory
          misread       \* ghost: a read was answered with something else

flashVars == <<chip, fl, bus, want, misread>>

None == [to |-> "none"]
Nothing == <<"none">>

FlashCtlInit ==
  /\ chip = FlashInit([a \in Addr |-> Erased])
  /\ fl = [pc |-> "Idle", addr |-> 0, data |-> Erased, we |-> FALSE, to |-> "data",
           req |-> FALSE, wp |-> TRUE, wip |-> FALSE, send |-> <<>>, cs |-> FALSE,
           got |-> Nothing]
  /\ bus = [cyc |-> FALSE, stb |-> None, pend |-> 0]
  /\ want = chip.mem
  /\ misread = FALSE

Ready == fl.send = <<>>
Dummy == Data({})
Stb(to, we) == bus.cyc /\ bus.stb.to = to /\ bus.stb.we = we

\* A transaction starts: chip select falls and the bytes s are to be sent.
Start(f, pc, s) == [f EXCEPT !.pc = pc, !.send = s, !.cs = TRUE, !.got = Nothing]
\* The end of a transaction: chip select rises.
Raise == chip' = FlashDeselect(chip)
Raised(f, pc) == [f EXCEPT !.pc = pc, !.cs = FALSE, !.got = Nothing]
\* In WBSPI_IDLE the registers of the request follow the bus.
ToIdle(f) == [Raised(f, "Idle") EXCEPT !.addr = 0, !.data = Erased, !.we = FALSE,
                                       !.to = "data", !.req = FALSE]
Take(f) == [f EXCEPT !.addr = bus.stb.addr, !.data = bus.stb.data, !.we = bus.stb.we,
                     !.to = bus.stb.to, !.req = TRUE]

\* What the requests mean: a program clears bits, an erase sets a sector's.  An
\* erase that the controller answers and then drops (WriteEreg, WipDone) is left
\* out: EraseNotDropped is about that one.
Programmed(a, d) == [want EXCEPT ![a] = @ \cap d]
ErasedFrom(a) == [b \in Addr |-> IF SameSector("SUBSECTOR_ERASE", a, b) THEN Erased ELSE want[b]]

\* The request leaves the bus; an answer reaches the master if the cycle it
\* belongs to goes on.  A master that asked for a register ends its cycle with
\* the answer.
NoCycle == [cyc |-> FALSE, stb |-> None, pend |-> 0]
Accept == bus' = [bus EXCEPT !.stb = None, !.pend = @ + 1]
AcceptAndAnswer == bus' = IF bus.stb.to = "data" THEN [bus EXCEPT !.stb = None] ELSE NoCycle
AnswerIf(req) == bus' = IF ~req THEN bus
                        ELSE IF fl.to = "data" THEN [bus EXCEPT !.pend = @ - 1] ELSE NoCycle

(***************************************************************************)
(* WBSPI_IDLE: a request is taken.                                         *)
(***************************************************************************)
\* Mutant: a read does not wait for the program or erase under way.
AcceptReadAtOnce ==
  /\ fl.pc = "Idle" /\ Stb("data", FALSE)
  /\ Accept
  /\ fl' = Start(Take(fl), "Read", <<Cmd("FAST_READ"), AddrByte(bus.stb.addr), Dummy, Dummy>>)
  /\ UNCHANGED <<chip, want, misread>>
AcceptRead ==
  /\ fl.pc = "Idle" /\ Stb("data", FALSE)
  /\ Accept
  /\ fl' = IF fl.wip THEN [Take(fl) EXCEPT !.pc = "WaitWip"]
           ELSE Start(Take(fl), "Read", <<Cmd("FAST_READ"), AddrByte(bus.stb.addr), Dummy, Dummy>>)
  /\ UNCHANGED <<chip, want, misread>>

AcceptWrite ==
  /\ fl.pc = "Idle" /\ Stb("data", TRUE)
  /\ IF fl.wp
     THEN /\ AcceptAndAnswer
          /\ UNCHANGED <<fl, want>>
     ELSE /\ Accept
          /\ fl' = IF fl.wip THEN [Take(fl) EXCEPT !.pc = "WaitWip"]
                   ELSE Start(Take(fl), "Wen", <<Cmd("WREN")>>)
          /\ want' = Programmed(bus.stb.addr, bus.stb.data)
  /\ UNCHANGED <<chip, misread>>

\* The erase register.  Its bits: erase, and write protection off.  An erase
\* that finds a write in progress is answered, waits for it and is dropped
\* (265-269, 444-448); want does not count it.
WriteEreg ==
  LET r == bus.stb
      g == [fl EXCEPT !.wp = ~r.data.unprotect]
  IN /\ fl.pc = "Idle" /\ Stb("ereg", TRUE)
     /\ AcceptAndAnswer
     /\ IF r.data.erase /\ fl.wip
        THEN fl' = [g EXCEPT !.pc = "WaitWip", !.we = TRUE, !.to = "ereg"]
        ELSE IF r.data.erase /\ ~fl.wp
        THEN fl' = Start([g EXCEPT !.addr = r.addr, !.we = TRUE, !.to = "ereg", !.wip = TRUE],
                        "EraseCmd", <<Cmd("WREN")>>)
        ELSE fl' = g
     /\ want' = IF r.data.erase /\ ~fl.wip /\ ~fl.wp THEN ErasedFrom(r.addr) ELSE want
     /\ UNCHANGED <<chip, misread>>

\* Reading a register: the erase register asks the chip only while a write is
\* in progress, the status, configuration and identity registers always.
ReadRegister ==
  /\ fl.pc = "Idle" /\ bus.cyc /\ bus.stb.to \in {"ereg", "sreg", "creg", "idreg"}
  /\ ~bus.stb.we
  /\ LET f == [fl EXCEPT !.to = bus.stb.to, !.we = FALSE, !.req = TRUE]
     IN \/ /\ bus.stb.to = "ereg" /\ ~fl.wip
           /\ AcceptAndAnswer /\ UNCHANGED fl
        \/ /\ bus.stb.to = "sreg" \/ (bus.stb.to = "ereg" /\ fl.wip)
           /\ Accept /\ fl' = Start(f, "Status", <<Cmd("RDSR"), Dummy>>)
        \/ /\ bus.stb.to = "creg"
           /\ Accept /\ fl' = Start(f, "Config", <<Cmd("RDCR"), Dummy>>)
        \/ /\ bus.stb.to = "idreg"
           /\ Accept /\ fl' = Start(f, "ReadId", <<Cmd("RDID"), Dummy>>)
  /\ UNCHANGED <<chip, want, misread>>

\* Nobody uses the bus and a write is in progress: poll the chip.
PollWip ==
  /\ fl.pc = "Idle" /\ ~bus.cyc /\ fl.wip
  /\ fl' = Start(fl, "CheckIdle", <<Cmd("RDSR"), Dummy>>)
  /\ UNCHANGED <<chip, bus, want, misread>>

(***************************************************************************)
(* The serial port exchanges one step, when it is granted the lines.       *)
(***************************************************************************)
FlashStep(granted) ==
  /\ fl.send # <<>> /\ granted
  /\ chip' = FlashByte(chip, Head(fl.send))
  /\ fl' = [fl EXCEPT !.send = Tail(@), !.got = chip.out]
  /\ UNCHANGED <<bus, want, misread>>

Busy(f) == f.got = <<"status", TRUE>>

(***************************************************************************)
(* A request that waits for the end of a write: poll, end the poll, and    *)
(* start what was asked for.                                               *)
(***************************************************************************)
WaitWip ==
  /\ fl.pc = "WaitWip"
  /\ fl' = Start(fl, "CheckWip", <<Cmd("RDSR"), Dummy>>)
  /\ UNCHANGED <<chip, bus, want, misread>>

CheckWip ==
  /\ fl.pc = "CheckWip" /\ Ready
  /\ IF Busy(fl)
     THEN fl' = [fl EXCEPT !.send = <<Dummy>>] /\ UNCHANGED chip
     ELSE fl' = [Raised(fl, "WipDone") EXCEPT !.wip = FALSE] /\ Raise
  /\ UNCHANGED <<bus, want, misread>>

WipDone ==
  /\ fl.pc = "WipDone"
  /\ CASE fl.to = "data" /\ ~fl.we ->
            /\ fl' = Start(fl, "Read", <<Cmd("FAST_READ"), AddrByte(fl.addr), Dummy, Dummy>>)
            /\ UNCHANGED bus
       [] fl.to = "data" /\ fl.we ->
            fl' = Start(fl, "Wen", <<Cmd("WREN")>>) /\ UNCHANGED bus
       [] OTHER ->
            fl' = [fl EXCEPT !.pc = "WaitIdle"] /\ AnswerIf(fl.req)
  /\ UNCHANGED <<chip, want, misread>>

(***************************************************************************)
(* A program: write enable in a transaction of its own, then the command   *)
(* with the address, then words as long as the master writes the next one  *)
(* of the same page.  A word is answered when the serial port takes it.    *)
(***************************************************************************)
WriteEnabled ==
  /\ fl.pc = "Wen" /\ Ready /\ fl.cs
  /\ fl' = Raised(fl, "PP") /\ Raise
  /\ UNCHANGED <<bus, want, misread>>

StartProgram ==
  /\ fl.pc = "PP"
  /\ fl' = Start(fl, "WrData", <<Cmd("PP"), AddrByte(fl.addr)>>)
  /\ UNCHANGED <<chip, bus, want, misread>>

SendWord ==
  /\ fl.pc = "WrData" /\ Ready
  /\ fl' = [fl EXCEPT !.pc = "WrBus", !.send = <<Data(fl.data)>>, !.wip = TRUE]
  /\ AnswerIf(fl.req)
  /\ UNCHANGED <<chip, want, misread>>

\* Mutant: a program goes on across the end of the page.
NextInPageAny == bus.stb.addr = fl.addr + 1
NextInPage == bus.stb.addr = fl.addr + 1
              /\ bus.stb.addr \div PageWords = fl.addr \div PageWords

NextWord ==
  /\ fl.pc = "WrBus" /\ Stb("data", TRUE) /\ NextInPage
  /\ Accept
  /\ fl' = [Take(fl) EXCEPT !.pc = "WrData"]
  /\ want' = Programmed(bus.stb.addr, bus.stb.data)
  /\ UNCHANGED <<chip, misread>>

EndProgram ==
  /\ fl.pc = "WrBus"
  /\ ~bus.cyc \/ (bus.stb # None /\ ~(Stb("data", TRUE) /\ NextInPage))
  /\ fl' = [fl EXCEPT !.pc = "WaitIdle"]
  /\ UNCHANGED <<chip, bus, want, misread>>

(***************************************************************************)
(* A read: the first word, and the next while the master reads on.  When   *)
(* the bus cycle ends the word that is under way is forgotten.             *)
(***************************************************************************)
ReadWord ==
  /\ fl.pc = "Read" /\ Ready
  /\ misread' = (misread \/ (fl.req /\ fl.got # Data(want[fl.addr])))
  /\ IF Stb("data", FALSE) /\ bus.stb.addr = fl.addr + 1
     THEN /\ fl' = [Take(fl) EXCEPT !.send = <<Dummy>>]
          /\ bus' = [bus EXCEPT !.stb = None, !.pend = 1]    \* the answer leaves one
     ELSE /\ fl' = [fl EXCEPT !.pc = "WaitIdle", !.req = FALSE, !.got = Nothing]
          /\ AnswerIf(fl.req)
  /\ UNCHANGED <<chip, want>>

AbandonRead ==
  /\ fl.pc = "Read" /\ ~Ready /\ Len(fl.send) <= 1 /\ ~bus.cyc
  /\ fl' = [fl EXCEPT !.pc = "WaitIdle"]
  /\ UNCHANGED <<chip, bus, want, misread>>

(***************************************************************************)
(* The rest: registers, the erase, and the way back to WBSPI_IDLE.         *)
(***************************************************************************)
RegisterRead ==
  /\ fl.pc \in {"Status", "Config", "ReadId"} /\ Ready
  /\ fl' = [ToIdle(fl) EXCEPT !.wip = IF fl.pc = "Status" THEN Busy(fl) ELSE @]
  /\ AnswerIf(fl.req) /\ Raise
  /\ UNCHANGED <<want, misread>>

EraseEnabled ==
  /\ fl.pc = "EraseCmd" /\ Ready /\ fl.cs
  /\ fl' = Raised(fl, "Erase") /\ Raise
  /\ UNCHANGED <<bus, want, misread>>

SendErase ==
  /\ fl.pc = "Erase"
  /\ fl' = Start(fl, "EraseBlock", <<Cmd("SUBSECTOR_ERASE"), AddrByte(fl.addr)>>)
  /\ UNCHANGED <<chip, bus, want, misread>>

EraseSent ==      \* o_wb_ack <= spif_req: the second answer, if the cycle goes on
  /\ fl.pc = "EraseBlock" /\ Ready
  /\ fl' = ToIdle(fl)
  /\ AnswerIf(fl.req) /\ Raise
  /\ UNCHANGED <<want, misread>>

CheckIdle ==      \* WBSPI_IDLE_CHECK_WIP
  /\ fl.pc = "CheckIdle" /\ Ready
  /\ IF Busy(fl) /\ (~bus.cyc \/ bus.stb = None)
     THEN fl' = [fl EXCEPT !.send = <<Dummy>>] /\ UNCHANGED chip
     ELSE fl' = [ToIdle(fl) EXCEPT !.wip = Busy(fl)] /\ Raise
  /\ UNCHANGED <<bus, want, misread>>

WaitIdle ==
  /\ fl.pc = "WaitIdle" /\ Ready
  /\ fl' = ToIdle(fl)
  /\ IF fl.cs THEN Raise ELSE UNCHANGED chip
  /\ UNCHANGED <<bus, want, misread>>

\* The chip ends its program or erase (m_write_count counts to zero).
ChipDone ==
  /\ chip.wip
  /\ chip' = FlashDone(chip)
  /\ UNCHANGED <<fl, bus, want, misread>>

(***************************************************************************)
(* The master.  It may begin a cycle, ask for the next word while one is   *)
(* in flight, and end the cycle at any time, answered or not; it asks for  *)
(* a register alone and ends its cycle with the answer, as the debug bus   *)
(* master does, so a second answer finds nobody waiting (fl.req is kept    *)
(* only while the cycle lasts).  A request waits while o_wb_stall is high: *)
(* one that comes where the controller does not look is the same as one    *)
(* that comes when it looks again.                                         *)
(***************************************************************************)
Issue(r) ==
  /\ bus.stb = None /\ fl.pc \in {"Idle", "Read", "WrBus", "CheckIdle"}
  /\ ~bus.cyc \/ (r.to = "data" /\ fl.to = "data")
  /\ bus' = [bus EXCEPT !.cyc = TRUE, !.stb = r]
  /\ UNCHANGED <<chip, fl, want, misread>>

EndCycle ==
  /\ bus.cyc
  /\ bus' = NoCycle
  /\ fl' = [fl EXCEPT !.req = FALSE]
  /\ UNCHANGED <<chip, want, misread>>
=============================================================================
