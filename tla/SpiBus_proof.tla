---------------------------- MODULE SpiBus_proof ----------------------------
(***************************************************************************)
(* Proofs about the two SPI chips and their controllers on one set of      *)
(* lines, for every geometry of the flash, every set of requests and every *)
(* set of blocks of the card.  The invariant has two halves that only meet *)
(* in the arbiter: FlInv speaks of the flash controller and its chip,      *)
(* CdInv of the card, its controller and its driver.                       *)
(***************************************************************************)
EXTENDS SpiBus, SequenceTheorems, TLAPS

-----------------------------------------------------------------------------
(* The flash controller and its chip.                                      *)

\* Types of the chip and of the controller's registers, and that the chip knows the erase
\* of the controller.  Fields that are left open here are said by the phase.
FlShape(c) ==
  /\ c \in [state : {c.state}, count : {c.count}, addr : {c.addr}, mem : {c.mem}, pmem : {c.pmem},
            wip : BOOLEAN, wel : BOOLEAN, dpd : BOOLEAN, out : {c.out}]
  /\ ChipErases

FlChip ==
  FlShape(chip) /\ chip.mem \in [Addr -> Byte] /\ ~chip.dpd

FlTargets == {"data", "ereg", "sreg", "creg", "idreg"}
FlFields(f) ==
  f \in [pc : {f.pc}, addr : Addr, data : Byte, we : BOOLEAN, to : FlTargets, req : BOOLEAN,
         wp : BOOLEAN, wip : BOOLEAN, send : {f.send}, cs : BOOLEAN, got : {f.got}]

FlBus == bus \in [cyc : BOOLEAN, stb : Requests \cup {None}, pend : {bus.pend}]

\* Nothing is under way: the chip is not selected.
FlParked == chip.state = "IDLE" /\ chip.count = 0
FlFree == ~fl.cs /\ fl.send = <<>> /\ FlParked

\* What the memory is when the write that waits has been done.
FlOwed(m) == IF fl.to = "data" /\ fl.we THEN [m EXCEPT ![fl.addr] = @ \cap fl.data] ELSE m

\* What the memory is when the page that was sent has been programmed.
FlPage(c) == [a \in Addr |-> IF PageOf(a) = PageOf(c.addr)
                             THEN c.mem[a] \cap c.pmem[a % PageBytes] ELSE c.mem[a]]

\* Nothing was sent yet for the places of the page from k on.
FlFresh(c, k) ==
  /\ c.pmem \in [0 .. PageBytes - 1 -> Byte]
  /\ \A i \in 0 .. PageBytes - 1 : i >= k => c.pmem[i] = Erased

\* A bit that says no write is in progress tells the truth.
FlTells(b) == \E w \in BOOLEAN : b = <<"status", w>> /\ (chip.wip => w)

\* The status is polled; its answer is as old as the bit in it allows.
FlPolls ==
  /\ fl.cs
  /\ \/ fl.send = <<Cmd("RDSR"), Dummy>> /\ FlParked
     \/ /\ chip.state = "RDSR" /\ chip.count \in 1 .. 3 /\ FlTells(chip.out)
        /\ fl.send = <<Dummy>> \/ (fl.send = <<>> /\ FlTells(fl.got))

\* Another register is read.
FlAsks(c) ==
  /\ fl.cs
  /\ \/ fl.send = <<Cmd(c), Dummy>> /\ FlParked
     \/ /\ chip.state = c /\ chip.count \in 1 .. 3
        /\ fl.send \in {<<Dummy>>, <<>>}

\* A write enable is sent; with the last byte the latch is up.
FlEnables ==
  /\ fl.cs /\ ~chip.wip
  /\ \/ fl.send = <<Cmd("WREN")>> /\ FlParked
     \/ fl.send = <<>> /\ chip.state = "IDLE" /\ chip.count = 1 /\ chip.wel

FlEnabled == FlFree /\ chip.wel /\ ~chip.wip

\* The chip takes the data of command c.
FlSending(c) == fl.cs /\ chip.state = c /\ chip.count \in 2 .. 3 /\ chip.wel /\ ~chip.wip

\* A program: its command, its address, a word that was asked for and not sent.
FlProgramBegins ==
  /\ fl.cs /\ chip.wel /\ ~chip.wip /\ want = FlOwed(chip.mem)
  /\ \/ fl.send = <<Cmd("PP"), AddrByte(fl.addr)>> /\ FlParked
     \/ fl.send = <<AddrByte(fl.addr)>> /\ chip.state = "PP" /\ chip.count = 1
\* While the next word is in the controller: it is one behind, or was just sent.
FlProgramTakes ==
  /\ FlSending("PP")
  /\ \/ /\ fl.send = <<>> /\ chip.addr = fl.addr
        /\ FlFresh(chip, fl.addr % PageBytes) /\ want = FlOwed(FlPage(chip))
     \/ /\ chip.addr \in Addr /\ chip.addr + 1 = fl.addr /\ PageOf(chip.addr) = PageOf(fl.addr)
        /\ FlFresh(chip, chip.addr % PageBytes)
        /\ \E d \in Byte :
             /\ fl.send = <<Data(d)>>
             /\ want = FlOwed([FlPage(chip) EXCEPT ![chip.addr] = @ \cap d])
\* While none is: what was sent so far is what is asked for.
FlProgramSends ==
  /\ FlSending("PP")
  /\ \/ /\ fl.send = <<Data(fl.data)>> /\ chip.addr = fl.addr
        /\ FlFresh(chip, fl.addr % PageBytes) /\ want = FlOwed(FlPage(chip))
     \/ /\ fl.send = <<>> /\ chip.addr \in Int /\ PageOf(chip.addr) = PageOf(fl.addr)
        /\ PageOf(fl.addr + 1) = PageOf(fl.addr) => chip.addr = fl.addr + 1
        /\ FlFresh(chip, (fl.addr % PageBytes) + 1) /\ want = FlPage(chip)

FlWraps(a) == (a + 1) % MemBytes
\* A read: each byte of it still to be sent, and what the chip gives out meanwhile.
FlReads ==
  /\ fl.cs /\ ~chip.wip /\ ~fl.wip /\ want = chip.mem
  /\ \/ fl.send = <<Cmd("FAST_READ"), AddrByte(fl.addr), Dummy, Dummy>> /\ FlParked
     \/ /\ fl.send = <<AddrByte(fl.addr), Dummy, Dummy>>
        /\ chip.state = "FAST_READ" /\ chip.count = 1
     \/ /\ fl.send = <<Dummy, Dummy>>
        /\ chip.state = "FAST_READ" /\ chip.count \in 2 .. 3 /\ chip.addr = fl.addr
     \/ /\ fl.send = <<Dummy>>
        /\ chip.state = "FAST_READ" /\ chip.count \in 2 .. 3 /\ chip.addr = FlWraps(fl.addr)
        /\ chip.out = Data(chip.mem[fl.addr])
     \/ /\ fl.send = <<>> /\ fl.got = Data(chip.mem[fl.addr])
        /\ chip.state = "FAST_READ" /\ chip.count \in 2 .. 3
        /\ chip.addr = FlWraps(FlWraps(fl.addr))
        /\ chip.out = Data(chip.mem[FlWraps(fl.addr)])

FlErased(m) == [b \in Addr |-> IF SameSector("SUBSECTOR_ERASE", fl.addr, b) THEN Erased ELSE m[b]]
\* A sector is erased.
FlErases ==
  /\ fl.cs /\ chip.wel /\ ~chip.wip
  /\ \/ fl.send = <<Cmd("SUBSECTOR_ERASE"), AddrByte(fl.addr)>> /\ FlParked
     \/ /\ fl.send = <<AddrByte(fl.addr)>>
        /\ chip.state = "SUBSECTOR_ERASE" /\ chip.count = 1
     \/ /\ fl.send = <<>> /\ chip.addr = fl.addr
        /\ chip.state = "SUBSECTOR_ERASE" /\ chip.count \in 2 .. 3

FlKnows == ~fl.wip => ~chip.wip
FlLands == want = chip.mem
FlWrites == fl.to = "data" /\ fl.we

\* The phases, one to a state of the controller.  Each says what is on the line, what
\* the chip has of it, and how the memory differs from what is asked for.
FlIdle == fl.pc = "Idle" /\ FlFree /\ FlLands /\ FlKnows
FlWaitWip == fl.pc = "WaitWip" /\ FlFree /\ want = FlOwed(chip.mem)
FlCheckWip == fl.pc = "CheckWip" /\ FlPolls /\ want = FlOwed(chip.mem)
FlWipDone == fl.pc = "WipDone" /\ FlFree /\ ~fl.wip /\ ~chip.wip /\ want = FlOwed(chip.mem)
FlWen == fl.pc = "Wen" /\ FlWrites /\ FlEnables /\ want = FlOwed(chip.mem)
FlPP == fl.pc = "PP" /\ FlWrites /\ FlEnabled /\ want = FlOwed(chip.mem)
FlWrData == fl.pc = "WrData" /\ FlWrites /\ (FlProgramBegins \/ FlProgramTakes)
FlWrBus == fl.pc = "WrBus" /\ FlWrites /\ fl.wip /\ FlProgramSends
FlRead == fl.pc = "Read" /\ FlReads
FlStatus == fl.pc = "Status" /\ FlPolls /\ FlLands
FlRegister ==
  /\ \/ fl.pc = "Config" /\ FlAsks("RDCR")
     \/ fl.pc = "ReadId" /\ FlAsks("RDID")
  /\ FlLands /\ FlKnows
FlEraseCmd == fl.pc = "EraseCmd" /\ fl.wip /\ FlEnables /\ want = FlErased(chip.mem)
FlErase == fl.pc = "Erase" /\ fl.wip /\ FlEnabled /\ want = FlErased(chip.mem)
FlEraseBlock == fl.pc = "EraseBlock" /\ fl.wip /\ FlErases /\ want = FlErased(chip.mem)
FlCheckIdle == fl.pc = "CheckIdle" /\ FlPolls /\ FlLands
FlWaitIdle ==
  /\ fl.pc = "WaitIdle"
  /\ \/ FlFree /\ FlLands /\ FlKnows
     \/ /\ fl.cs /\ chip.state = "FAST_READ" /\ chip.count \in 2 .. 3
        /\ fl.send \in {<<Dummy>>, <<>>} /\ ~chip.wip /\ FlLands /\ FlKnows
     \/ FlWrites /\ fl.wip /\ FlProgramSends

FlPhase ==
  \/ FlIdle \/ FlWaitWip \/ FlCheckWip \/ FlWipDone \/ FlWen \/ FlPP \/ FlWrData \/ FlWrBus
  \/ FlRead \/ FlStatus \/ FlRegister \/ FlEraseCmd \/ FlErase \/ FlEraseBlock \/ FlCheckIdle
  \/ FlWaitIdle

\* The invariant of the flash side.
FlInv == FlChip /\ FlFields(fl) /\ FlBus /\ want \in [Addr -> Byte] /\ ~misread /\ FlPhase

-----------------------------------------------------------------------------
(* What the chip does with a byte, and at the end of a command.            *)

\* Heads and tails of what is still to be sent.
LEMMA FlTails ==
  ASSUME NEW a, NEW b, NEW c, NEW d
  PROVE  /\ Head(<<a>>) = a /\ Tail(<<a>>) = <<>>
         /\ Head(<<a, b>>) = a /\ Tail(<<a, b>>) = <<b>>
         /\ Head(<<a, b, c>>) = a /\ Tail(<<a, b, c>>) = <<b, c>>
         /\ Head(<<a, b, c, d>>) = a /\ Tail(<<a, b, c, d>>) = <<b, c, d>>
  OBVIOUS

\* What is still to be sent is not empty.
LEMMA FlLens ==
  ASSUME NEW a, NEW b, NEW c, NEW d
  PROVE  /\ <<a>> # <<>> /\ <<a, b>> # <<>> /\ <<a, b, c>> # <<>> /\ <<a, b, c, d>> # <<>>
         /\ Len(<<a, b>>) = 2 /\ Len(<<a, b, c>>) = 3 /\ Len(<<a, b, c, d>>) = 4
         /\ Len(<<a>>) = 1
  OBVIOUS

\* One field of the chip is set.
LEMMA FlSetsOut ==
  ASSUME NEW c, NEW x, FlShape(c)
  PROVE  LET e == [c EXCEPT !.out = x]
         IN /\ FlShape(e) /\ e.out = x
            /\ e.state = c.state /\ e.count = c.count /\ e.addr = c.addr /\ e.mem = c.mem
            /\ e.pmem = c.pmem /\ e.wip = c.wip /\ e.wel = c.wel /\ e.dpd = c.dpd
<1> DEFINE e == [c EXCEPT !.out = x]
<1>1. FlShape(e)  BY DEF FlShape
<1> QED  BY <1>1 DEF FlShape

\* The same for the address.
LEMMA FlSetsAddr ==
  ASSUME NEW c, NEW x, FlShape(c)
  PROVE  LET e == [c EXCEPT !.addr = x]
         IN /\ FlShape(e) /\ e.addr = x
            /\ e.state = c.state /\ e.count = c.count /\ e.mem = c.mem /\ e.pmem = c.pmem
            /\ e.wip = c.wip /\ e.wel = c.wel /\ e.dpd = c.dpd /\ e.out = c.out
<1> DEFINE e == [c EXCEPT !.addr = x]
<1>1. FlShape(e)  BY DEF FlShape
<1> QED  BY <1>1 DEF FlShape

\* The same for the page buffer.
LEMMA FlSetsPage ==
  ASSUME NEW c, NEW x, FlShape(c)
  PROVE  LET e == [c EXCEPT !.pmem = x]
         IN /\ FlShape(e) /\ e.pmem = x
            /\ e.state = c.state /\ e.count = c.count /\ e.addr = c.addr /\ e.mem = c.mem
            /\ e.wip = c.wip /\ e.wel = c.wel /\ e.dpd = c.dpd /\ e.out = c.out
<1> DEFINE e == [c EXCEPT !.pmem = x]
<1>1. FlShape(e)  BY DEF FlShape
<1> QED  BY <1>1 DEF FlShape

\* The same for the write enable latch.
LEMMA FlSetsEnable ==
  ASSUME NEW c, NEW x \in BOOLEAN, FlShape(c)
  PROVE  LET e == [c EXCEPT !.wel = x]
         IN /\ FlShape(e) /\ e.wel = x
            /\ e.state = c.state /\ e.count = c.count /\ e.addr = c.addr /\ e.mem = c.mem
            /\ e.pmem = c.pmem /\ e.wip = c.wip /\ e.dpd = c.dpd /\ e.out = c.out
<1> DEFINE e == [c EXCEPT !.wel = x]
<1>1. FlShape(e)  BY DEF FlShape
<1> QED  BY <1>1 DEF FlShape

\* A command that goes ahead.
LEMMA FlGoes ==
  ASSUME NEW c, NEW x, FlShape(c), c.count = 0,
         \/ x \in {"RDSR", "FAST_READ", "RDCR", "RDID", "WREN"}
         \/ x \in {"PP", "SUBSECTOR_ERASE"} /\ c.wel /\ ~c.wip /\ ~c.dpd
  PROVE  LET e == FlashByte(c, Cmd(x))
         IN /\ FlShape(e) /\ e.count = 1 /\ e.mem = c.mem /\ e.addr = c.addr
            /\ e.pmem = c.pmem /\ e.wip = c.wip /\ e.dpd = c.dpd
            /\ e.state = IF x = "WREN" THEN "IDLE" ELSE x
            /\ (x = "WREN" => e.wel) /\ (x # "WREN" => e.wel = c.wel)
            /\ x = "RDSR" => e.out = <<"status", c.wip>>
<1> DEFINE s == IF x = "WREN" THEN "IDLE" ELSE x
           o == Data({})
           d == [c EXCEPT !.state = s, !.count = 1, !.out = o]
<1> HIDE DEF s, o
<1>0. "SUBSECTOR_ERASE" \in DOMAIN EraseBytes  BY DEF FlShape, ChipErases
<1>1. /\ FlShape(d) /\ d.count = 1 /\ d.mem = c.mem /\ d.addr = c.addr /\ d.pmem = c.pmem
      /\ d.wip = c.wip /\ d.dpd = c.dpd /\ d.state = s /\ d.wel = c.wel
  BY DEF FlShape
<1> HIDE DEF d
<1>2. FlashByte(c, Cmd(x)) = FlashCommand(c, x)
  BY DEF FlashByte, Cmd
<1>3. CASE x \in {"PP", "SUBSECTOR_ERASE", "FAST_READ", "RDCR", "RDID"}
  <2>1. FlashCommand(c, x) = d
    BY <1>0, <1>3, EraseNames DEF FlashCommand, MayWrite, s, o, d
  <2> QED  BY <1>1, <1>2, <1>3, <2>1 DEF s
<1>4. CASE x = "RDSR"
  <2>1. FlashCommand(c, x) = [d EXCEPT !.out = <<"status", c.wip>>]
    BY <1>4, EraseNames DEF FlashCommand, StatusByte, s, o, d
  <2> DEFINE y == <<"status", c.wip>>  f == [d EXCEPT !.out = y]
  <2> HIDE DEF y
  <2>2. /\ FlShape(f) /\ f.count = 1 /\ f.mem = c.mem /\ f.addr = c.addr /\ f.pmem = c.pmem
         /\ f.wip = c.wip /\ f.dpd = c.dpd /\ f.state = s /\ f.wel = c.wel /\ f.out = y
    BY <1>1, FlSetsOut
  <2>3. FlashCommand(c, x) = f  BY <2>1 DEF y
  <2> HIDE DEF f
  <2> QED  BY <1>2, <1>4, <2>2, <2>3 DEF s, y
<1>5. CASE x = "WREN"
  <2>1. FlashCommand(c, x) = [d EXCEPT !.wel = TRUE]
    BY <1>5, EraseNames DEF FlashCommand, s, o, d
  <2> DEFINE f == [d EXCEPT !.wel = TRUE]
  <2>2. /\ FlShape(f) /\ f.count = 1 /\ f.mem = c.mem /\ f.addr = c.addr /\ f.pmem = c.pmem
         /\ f.wip = c.wip /\ f.dpd = c.dpd /\ f.state = s /\ f.wel
    BY <1>1, FlSetsEnable
  <2> HIDE DEF f
  <2>3. FlashCommand(c, x) = f  BY <2>1 DEF f
  <2> QED  BY <1>2, <1>5, <2>2, <2>3 DEF s
<1> QED  BY <1>3, <1>4, <1>5

\* A further byte of a command counts.
LEMMA FlCounts ==
  ASSUME NEW c, FlShape(c), c.count \in 1 .. 3
  PROVE  LET e == Counted(c)
         IN /\ FlShape(e) /\ e.count = (IF c.count < 3 THEN c.count + 1 ELSE 3) /\ e.mem = c.mem
            /\ e.wip = c.wip /\ e.dpd = c.dpd /\ e.state = c.state /\ e.wel = c.wel
            /\ e.addr = c.addr /\ e.pmem = c.pmem
<1> DEFINE n == IF c.count < 3 THEN c.count + 1 ELSE 3
           o == Data({})
           e == [c EXCEPT !.count = n, !.out = o]
<1>1. Counted(c) = e  BY DEF Counted
<1> HIDE DEF n, o
<1>2. /\ FlShape(e) /\ e.count = n /\ e.mem = c.mem
      /\ e.wip = c.wip /\ e.dpd = c.dpd /\ e.state = c.state /\ e.wel = c.wel
      /\ e.addr = c.addr /\ e.pmem = c.pmem
  BY DEF FlShape
<1> HIDE DEF e
<1> QED  BY <1>1, <1>2 DEF n

\* A byte after the command, of a register.
LEMMA FlAnswersMore ==
  ASSUME NEW c, FlShape(c), c.count \in 1 .. 3, c.state \in {"RDSR", "RDCR", "RDID"}
  PROVE  LET e == FlashByte(c, Dummy)
         IN /\ FlShape(e) /\ e.count \in 1 .. 3 /\ e.mem = c.mem
            /\ e.wip = c.wip /\ e.dpd = c.dpd /\ e.state = c.state /\ e.wel = c.wel
            /\ c.state = "RDSR" => e.out = <<"status", c.wip>>
<1> DEFINE d == Counted(c)
<1>1. FlShape(d) /\ d.count \in 1 .. 3 /\ d.mem = c.mem /\ d.wip = c.wip /\ d.dpd = c.dpd
      /\ d.state = c.state /\ d.wel = c.wel
  BY FlCounts
<1> HIDE DEF d
<1>2. FlashByte(c, Dummy) = FlashMore(c, Dummy)
  BY DEF FlashByte
<1>3. CASE c.state = "RDSR"
  <2>1. FlashMore(c, Dummy) = [d EXCEPT !.out = StatusByte(c)]
    BY <1>3 DEF d, FlashMore, Dummy, Data
  <2> DEFINE y == <<"status", c.wip>>  f == [d EXCEPT !.out = y]
  <2> HIDE DEF y
  <2>2. /\ FlShape(f) /\ f.count \in 1 .. 3 /\ f.mem = c.mem /\ f.wip = c.wip /\ f.dpd = c.dpd
         /\ f.state = c.state /\ f.wel = c.wel /\ f.out = y
    BY <1>1, FlSetsOut
  <2>3. FlashMore(c, Dummy) = f  BY <2>1 DEF y, StatusByte
  <2> HIDE DEF f
  <2> QED  BY <1>2, <1>3, <2>2, <2>3 DEF y
<1>4. CASE c.state \in {"RDCR", "RDID"}
  <2>1. FlashMore(c, Dummy) = [d EXCEPT !.out = <<"id", c.state>>]
    BY <1>4 DEF d, FlashMore, Dummy, Data
  <2> DEFINE y == <<"id", c.state>>  f == [d EXCEPT !.out = y]
  <2> HIDE DEF y
  <2>2. /\ FlShape(f) /\ f.count \in 1 .. 3 /\ f.mem = c.mem /\ f.wip = c.wip /\ f.dpd = c.dpd
         /\ f.state = c.state /\ f.wel = c.wel /\ f.out = y
    BY <1>1, FlSetsOut
  <2>3. FlashMore(c, Dummy) = f  BY <2>1 DEF y, StatusByte
  <2> HIDE DEF f
  <2> QED  BY <1>2, <1>4, <2>2, <2>3 DEF y
<1> QED  BY <1>3, <1>4

\* The address of a command, and a byte of a read or of a program.
LEMMA FlTakesAddress ==
  ASSUME NEW c, NEW a, FlShape(c), c.count = 1, c.state \in {"FAST_READ", "PP", "SUBSECTOR_ERASE"}
  PROVE  LET e == FlashByte(c, AddrByte(a))
         IN /\ FlShape(e) /\ e.count = 2 /\ e.mem = c.mem /\ e.addr = a
            /\ e.wip = c.wip /\ e.dpd = c.dpd /\ e.state = c.state /\ e.wel = c.wel
            /\ c.state = "PP" => e.pmem = [i \in 0 .. PageBytes - 1 |-> Erased]
<1> DEFINE d == Counted(c)
<1>0. "SUBSECTOR_ERASE" \in DOMAIN EraseBytes  BY DEF FlShape, ChipErases
<1>1. FlShape(d) /\ d.count = 2 /\ d.mem = c.mem /\ d.wip = c.wip /\ d.dpd = c.dpd
      /\ d.state = c.state /\ d.wel = c.wel
  BY FlCounts
<1> HIDE DEF d
<1>2. FlashByte(c, AddrByte(a)) = FlashMore(c, AddrByte(a))
  BY DEF FlashByte
<1>3. FlashMore(c, AddrByte(a)) = TakeAddress(d, a)
  BY <1>0, EraseNames DEF d, FlashMore, AddrByte, HasAddress
<1> DEFINE p == IF d.state = "PP" THEN [i \in 0 .. PageBytes - 1 |-> Erased] ELSE d.pmem
           f == [d EXCEPT !.addr = a]
           g == [f EXCEPT !.pmem = p]
<1>4. TakeAddress(d, a) = g  BY DEF TakeAddress
<1>5. c.state = "PP" => p = [i \in 0 .. PageBytes - 1 |-> Erased]  BY <1>1
<1> HIDE DEF p
<1>6. /\ FlShape(f) /\ f.count = 2 /\ f.mem = c.mem /\ f.wip = c.wip /\ f.dpd = c.dpd
      /\ f.state = c.state /\ f.wel = c.wel /\ f.addr = a
  BY <1>1, FlSetsAddr
<1> HIDE DEF f
<1>7. /\ FlShape(g) /\ g.count = 2 /\ g.mem = c.mem /\ g.wip = c.wip /\ g.dpd = c.dpd
      /\ g.state = c.state /\ g.wel = c.wel /\ g.addr = a /\ g.pmem = p
  BY <1>6, FlSetsPage
<1> QED  BY <1>2, <1>3, <1>4, <1>5, <1>7

\* A read gives out the word at the address and goes on to the next.
LEMMA FlReadsOut ==
  ASSUME NEW c, FlShape(c), c.count \in 2 .. 3, c.state = "FAST_READ", ~c.wip
  PROVE  LET e == FlashByte(c, Dummy)
         IN /\ FlShape(e) /\ e.count \in 2 .. 3 /\ e.mem = c.mem /\ e.addr = (c.addr + 1) % MemBytes
            /\ e.wip = c.wip /\ e.dpd = c.dpd /\ e.state = c.state /\ e.wel = c.wel
            /\ e.out = Data(c.mem[c.addr])
<1> DEFINE d == Counted(c)
<1>1. FlShape(d) /\ d.count \in 2 .. 3 /\ d.mem = c.mem /\ d.wip = c.wip /\ d.dpd = c.dpd
      /\ d.state = c.state /\ d.wel = c.wel /\ d.addr = c.addr
  BY FlCounts
<1> HIDE DEF d
<1>2. FlashByte(c, Dummy) = FlashMore(c, Dummy)
  BY DEF FlashByte
<1>3. FlashMore(c, Dummy) = ReadOut(d)
  BY DEF d, FlashMore
<1> DEFINE x == Data(d.mem[d.addr])  a == (d.addr + 1) % MemBytes
           f == [d EXCEPT !.out = x]
           g == [f EXCEPT !.addr = a]
<1>4. ReadOut(d) = g  BY <1>1 DEF ReadOut
<1>5. x = Data(c.mem[c.addr]) /\ a = (c.addr + 1) % MemBytes  BY <1>1
<1> HIDE DEF x, a
<1>6. /\ FlShape(f) /\ f.count \in 2 .. 3 /\ f.mem = c.mem /\ f.wip = c.wip /\ f.dpd = c.dpd
      /\ f.state = c.state /\ f.wel = c.wel /\ f.out = x
  BY <1>1, FlSetsOut
<1> HIDE DEF f
<1>7. /\ FlShape(g) /\ g.count \in 2 .. 3 /\ g.mem = c.mem /\ g.wip = c.wip /\ g.dpd = c.dpd
      /\ g.state = c.state /\ g.wel = c.wel /\ g.out = x /\ g.addr = a
  BY <1>6, FlSetsAddr
<1> HIDE DEF g
<1> QED  BY <1>2, <1>3, <1>4, <1>5, <1>7

\* A program puts the word into the page buffer, at the place of the address.
LEMMA FlTakesWord ==
  ASSUME NEW c, NEW w, FlShape(c), c.count \in 2 .. 3, c.state = "PP"
  PROVE  LET e == FlashByte(c, Data(w))
         IN /\ FlShape(e) /\ e.count \in 2 .. 3 /\ e.mem = c.mem
            /\ e.addr = PageOf(c.addr) + ((c.addr + 1) % PageBytes)
            /\ e.wip = c.wip /\ e.dpd = c.dpd /\ e.state = c.state /\ e.wel = c.wel
            /\ e.pmem = [c.pmem EXCEPT ![c.addr % PageBytes] = w]
<1> DEFINE d == Counted(c)
<1>1. FlShape(d) /\ d.count \in 2 .. 3 /\ d.mem = c.mem /\ d.wip = c.wip /\ d.dpd = c.dpd
      /\ d.state = c.state /\ d.wel = c.wel /\ d.addr = c.addr /\ d.pmem = c.pmem
  BY FlCounts
<1> HIDE DEF d
<1>2. FlashByte(c, Data(w)) = FlashMore(c, Data(w))
  BY DEF FlashByte
<1>3. FlashMore(c, Data(w)) = PageByte(d, w)
  BY DEF d, FlashMore, Data
<1> DEFINE p == [d.pmem EXCEPT ![d.addr % PageBytes] = w]
           a == PageOf(d.addr) + ((d.addr + 1) % PageBytes)
           f == [d EXCEPT !.pmem = p]
           g == [f EXCEPT !.addr = a]
<1>4. PageByte(d, w) = g  BY DEF PageByte
<1>5. p = [c.pmem EXCEPT ![c.addr % PageBytes] = w] /\ a = PageOf(c.addr) + ((c.addr + 1) % PageBytes)
  BY <1>1
<1> HIDE DEF p, a
<1>6. /\ FlShape(f) /\ f.count \in 2 .. 3 /\ f.mem = c.mem /\ f.wip = c.wip /\ f.dpd = c.dpd
      /\ f.state = c.state /\ f.wel = c.wel /\ f.pmem = p
  BY <1>1, FlSetsPage
<1> HIDE DEF f
<1>7. /\ FlShape(g) /\ g.count \in 2 .. 3 /\ g.mem = c.mem /\ g.wip = c.wip /\ g.dpd = c.dpd
      /\ g.state = c.state /\ g.wel = c.wel /\ g.pmem = p /\ g.addr = a
  BY <1>6, FlSetsAddr
<1> HIDE DEF g
<1> QED  BY <1>2, <1>3, <1>4, <1>5, <1>7

\* Chip select rises.
FlRaised(c) ==
  [c EXCEPT !.state = "IDLE", !.count = 0, !.out = Data(Erased), !.addr = 0,
            !.pmem = [i \in 0 .. PageBytes - 1 |-> Erased]]

\* Deselected, the chip is idle and counts from 0.
LEMMA FlRaises ==
  ASSUME NEW c, FlShape(c)
  PROVE  LET e == FlRaised(c)
         IN /\ FlShape(e) /\ e.count = 0 /\ e.state = "IDLE" /\ e.mem = c.mem
            /\ e.wip = c.wip /\ e.dpd = c.dpd /\ e.wel = c.wel
<1> DEFINE o == Data(Erased)  p == [i \in 0 .. PageBytes - 1 |-> Erased]
           e == [c EXCEPT !.state = "IDLE", !.count = 0, !.out = o, !.addr = 0, !.pmem = p]
<1> HIDE DEF o, p
<1>1. /\ FlShape(e) /\ e.count = 0 /\ e.state = "IDLE" /\ e.mem = c.mem
      /\ e.wip = c.wip /\ e.dpd = c.dpd /\ e.wel = c.wel
  BY DEF FlShape
<1>2. FlRaised(c) = e  BY DEF FlRaised, o, p
<1> HIDE DEF e
<1> QED  BY <1>1, <1>2

\* A command that writes nothing ends with nothing written.
LEMMA FlDeselects ==
  ASSUME NEW c, FlShape(c),
         c.state \in {"IDLE", "RDSR", "RDCR", "RDID", "FAST_READ"}
  PROVE  LET e == FlashDeselect(c)
         IN /\ FlShape(e) /\ e.count = 0 /\ e.state = "IDLE" /\ e.mem = c.mem
            /\ e.wip = c.wip /\ e.dpd = c.dpd /\ e.wel = c.wel
<1>1. FlashDeselect(c) = FlRaised(c)
  BY EraseNames DEF FlashDeselect, FlRaised
<1> QED  BY <1>1, FlRaises

\* A write that begins has its memory and keeps the chip busy.
LEMMA FlStartsWrite ==
  ASSUME NEW c, NEW m, FlShape(c)
  PROVE  LET e == StartWrite(FlRaised(c), m)
         IN /\ FlShape(e) /\ e.count = 0 /\ e.state = "IDLE" /\ e.mem = m
            /\ e.wip /\ e.dpd = c.dpd /\ ~e.wel
<1> DEFINE d == FlRaised(c)
<1>1. FlShape(d) /\ d.count = 0 /\ d.state = "IDLE" /\ d.dpd = c.dpd  BY FlRaises
<1> HIDE DEF d
<1> DEFINE e == StartWrite(d, m)
<1>2. e \in [state : {"IDLE"}, count : {0}, addr : {e.addr}, mem : {m}, pmem : {e.pmem},
             wip : {TRUE}, wel : {FALSE}, dpd : {c.dpd}, out : {e.out}]
  BY <1>1 DEF StartWrite, FlShape
<1>3. c.dpd \in BOOLEAN  BY DEF FlShape
<1> HIDE DEF e
<1> QED  BY <1>2, <1>3 DEF e, d, FlShape

\* The page is programmed when the chip is deselected.
LEMMA FlDeselectsProgram ==
  ASSUME NEW c, FlShape(c), c.state = "PP", c.count \in 2 .. 3
  PROVE  LET e == FlashDeselect(c)
         IN /\ FlShape(e) /\ e.count = 0 /\ e.state = "IDLE" /\ e.mem = FlPage(c)
            /\ e.wip /\ e.dpd = c.dpd /\ ~e.wel
<1>1. FlashDeselect(c) = StartWrite(FlRaised(c), FlPage(c))
  BY EraseNames DEF FlashDeselect, FlPage, FlRaised
<1> QED  BY <1>1, FlStartsWrite

\* The sector is erased when the chip is deselected.
LEMMA FlDeselectsErase ==
  ASSUME NEW c, FlShape(c), c.state = "SUBSECTOR_ERASE", c.count \in 2 .. 3
  PROVE  LET e == FlashDeselect(c)
         IN /\ FlShape(e) /\ e.count = 0 /\ e.state = "IDLE"
            /\ e.mem = [a \in Addr |-> IF SameSector("SUBSECTOR_ERASE", a, c.addr) THEN Erased ELSE c.mem[a]]
            /\ e.wip /\ e.dpd = c.dpd /\ ~e.wel
<1>0. "SUBSECTOR_ERASE" \in DOMAIN EraseBytes  BY DEF FlShape, ChipErases
<1>1. FlashDeselect(c) = StartWrite(FlRaised(c),
                                    [a \in Addr |-> IF SameSector("SUBSECTOR_ERASE", a, c.addr)
                                                    THEN Erased ELSE c.mem[a]])
  BY <1>0, EraseNames DEF FlashDeselect, FlRaised
<1> QED  BY <1>1, FlStartsWrite

-----------------------------------------------------------------------------
(* Pages.                                                                  *)

\* Quotient and remainder.
LEMMA FlDivides ==
  ASSUME NEW p \in Nat \ {0}, NEW a \in Nat
  PROVE  a = p * (a \div p) + (a % p) /\ a \div p \in Nat /\ a % p \in 0 .. p - 1
  OBVIOUS

\* There is only one of each.
LEMMA FlDivideOnce ==
  ASSUME NEW p \in Nat \ {0}, NEW q \in Nat, NEW r \in Nat,
         NEW j \in 0 .. p - 1, NEW k \in 0 .. p - 1, p * q + j = p * r + k
  PROVE  q = r /\ j = k
<1>1. CASE q < r
  <2>1. PICK d \in Nat : r = q + 1 + d
    <3>1. r - q - 1 \in Nat /\ r = q + 1 + (r - q - 1)  BY <1>1
    <3> QED  BY <3>1
  <2>2. p * r = p * q + p + p * d  BY <2>1
  <2>3. PICK x \in Nat, y \in Nat : x = p * q /\ y = p * d  OBVIOUS
  <2> QED  BY <2>2, <2>3
<1>2. CASE r < q
  <2>1. PICK d \in Nat : q = r + 1 + d
    <3>1. q - r - 1 \in Nat /\ q = r + 1 + (q - r - 1)  BY <1>2
    <3> QED  BY <3>1
  <2>2. p * q = p * r + p + p * d  BY <2>1
  <2>3. PICK x \in Nat, y \in Nat : x = p * r /\ y = p * d  OBVIOUS
  <2> QED  BY <2>2, <2>3
<1>3. CASE q = r
  <2>1. PICK x \in Nat : x = p * q  OBVIOUS
  <2> QED  BY <2>1, <1>3
<1> QED  BY <1>1, <1>2, <1>3

\* Quotient and remainder of what was put together from them.
LEMMA FlUnique ==
  ASSUME NEW p \in Nat \ {0}, NEW q \in Nat, NEW r \in 0 .. p - 1
  PROVE  /\ (p * q + r) % p = r /\ (p * q + r) \div p = q /\ p * q + r \in Nat
<1>1. p * q + r \in Nat  OBVIOUS
<1>2. PICK x \in Nat : x = p * q + r  BY <1>1
<1> QED  BY <1>1, <1>2, FlDivides, FlDivideOnce

\* An address is a page and a place in it.
LEMMA FlPages ==
  ASSUME NEW a \in Nat
  PROVE  /\ PageBytes \in Nat \ {0}
         /\ a % PageBytes \in 0 .. PageBytes - 1
         /\ PageOf(a) = PageBytes * (a \div PageBytes) /\ PageOf(a) \in Nat
         /\ \A r \in 0 .. PageBytes - 1 :
              /\ PageOf(PageOf(a) + r) = PageOf(a) /\ (PageOf(a) + r) % PageBytes = r
              /\ PageOf(a) + r \in Nat
  <1>1. PageBytes \in Nat \ {0}  BY FlashSizes
  <1>2. a % PageBytes \in 0 .. PageBytes - 1 /\ a \div PageBytes \in Nat
        /\ a = PageBytes * (a \div PageBytes) + (a % PageBytes)
    BY <1>1, FlDivides
  <1> DEFINE q == a \div PageBytes
  <1> HIDE DEF q
  <1>3. PageBytes * q \in Nat  BY <1>1, <1>2 DEF q
  <1>4. PageOf(a) = PageBytes * q  BY <1>1, <1>2, <1>3 DEF PageOf, q
  <1>5. ASSUME NEW r \in 0 .. PageBytes - 1
        PROVE  /\ PageOf(PageOf(a) + r) = PageOf(a) /\ (PageOf(a) + r) % PageBytes = r
               /\ PageOf(a) + r \in Nat
    <2>1. (PageBytes * q + r) % PageBytes = r  BY <1>1, <1>2, FlUnique DEF q
    <2> QED  BY <2>1, <1>1, <1>3, <1>4 DEF PageOf
  <1> QED  BY <1>1, <1>2, <1>3, <1>4, <1>5 DEF q

\* Two words of one of the controller's pages are in one page of the chip.
LEMMA FlNextInPage ==
  ASSUME NEW a \in Nat, (a + 1) \div PageWords = a \div PageWords
  PROVE  PageOf(a + 1) = PageOf(a)
  <1>1. PageWords \in Nat \ {0} /\ PageBytes \in Nat \ {0} /\ PageBytes % PageWords = 0
    BY PagesAgree, FlashSizes
  <1> DEFINE k == PageBytes \div PageWords  q == a \div PageBytes  r == a % PageBytes
  <1>2. k \in Nat /\ PageBytes = PageWords * k  BY <1>1, FlDivides
  <1>3. q \in Nat /\ r \in 0 .. PageBytes - 1 /\ a = PageBytes * q + r  BY <1>1, FlDivides
  <1> HIDE DEF k, q, r
  <1>4. r # PageBytes - 1
    <2> SUFFICES ASSUME r = PageBytes - 1 PROVE FALSE  OBVIOUS
    <2>1. a + 1 = PageBytes * (q + 1)  BY <1>1, <1>3
    <2>2. PageBytes * (q + 1) = PageWords * (k * (q + 1)) + 0  BY <1>1, <1>2, <1>3
    <2>3. PICK m \in Nat : m = k * (q + 1)  BY <1>2, <1>3
    <2>4. a + 1 = PageWords * m + 0 /\ 0 \in 0 .. PageWords - 1  BY <2>1, <2>2, <2>3, <1>1
    <2>5. (a + 1) \div PageWords = m  BY <2>4, <1>1, FlUnique
    <2>6. a % PageWords \in 0 .. PageWords - 1 /\ a = PageWords * m + (a % PageWords)
      BY <2>5, <1>1, FlDivides
    <2> QED  BY <2>4, <2>6, <1>1
  <1>5. a + 1 = PageBytes * q + (r + 1) /\ r + 1 \in 0 .. PageBytes - 1  BY <1>3, <1>4, <1>1
  <1>6. (a + 1) \div PageBytes = q  BY <1>5, <1>3, <1>1, FlUnique
  <1> QED  BY <1>6, FlPages DEF q
-----------------------------------------------------------------------------
(* What the steps of the controller do to its registers and to the bus.    *)

\* Start keeps the registers in their types.
LEMMA FlStarts ==
  ASSUME NEW f, FlFields(f), NEW p, NEW s
  PROVE  LET g == Start(f, p, s)
         IN /\ FlFields(g) /\ g.pc = p /\ g.send = s /\ g.cs
            /\ g.addr = f.addr /\ g.data = f.data /\ g.we = f.we /\ g.to = f.to
            /\ g.req = f.req /\ g.wp = f.wp /\ g.wip = f.wip
<1> DEFINE g == Start(f, p, s)
<1>1. g \in [pc : {p}, addr : {f.addr}, data : {f.data}, we : {f.we}, to : {f.to}, req : {f.req},
             wp : {f.wp}, wip : {f.wip}, send : {s}, cs : {TRUE}, got : {Nothing}]
  BY DEF FlFields, Start
<1>2. /\ f.addr \in Addr /\ f.data \in Byte /\ f.we \in BOOLEAN /\ f.to \in FlTargets
      /\ f.req \in BOOLEAN /\ f.wp \in BOOLEAN /\ f.wip \in BOOLEAN
  BY DEF FlFields, FlTargets
<1> HIDE DEF g
<1>3. FlFields(g)  BY <1>1, <1>2 DEF FlFields, FlTargets
<1> QED  BY <1>1, <1>3 DEF g

\* So does taking a request over from the bus.
LEMMA FlTakes ==
  ASSUME NEW f, FlFields(f), FlBus, bus.stb # None, bus.stb.to = "data"
  PROVE  LET g == Take(f)
         IN /\ FlFields(g) /\ g.pc = f.pc /\ g.send = f.send /\ g.cs = f.cs /\ g.got = f.got
            /\ g.addr = bus.stb.addr /\ g.data = bus.stb.data /\ g.we = bus.stb.we
            /\ g.to = "data" /\ g.req /\ g.wp = f.wp /\ g.wip = f.wip
<1> DEFINE g == Take(f)
<1>1. /\ bus.stb.addr \in Addr /\ bus.stb.data \in Byte /\ bus.stb.we \in BOOLEAN
  BY RequestsAssumption DEF FlBus
<1>2. g \in [pc : {f.pc}, addr : {bus.stb.addr}, data : {bus.stb.data}, we : {bus.stb.we},
             to : {"data"}, req : {TRUE},
             wp : {f.wp}, wip : {f.wip}, send : {f.send}, cs : {f.cs}, got : {f.got}]
  BY DEF FlFields, Take
<1>3. f.wp \in BOOLEAN /\ f.wip \in BOOLEAN /\ f.cs \in BOOLEAN
  BY DEF FlFields, FlTargets
<1> HIDE DEF g
<1>4. FlFields(g)  BY <1>1, <1>2, <1>3 DEF FlFields, FlTargets
<1> QED  BY <1>2, <1>4 DEF g

\* So does raising the chip select.
LEMMA FlLetsGo ==
  ASSUME NEW f, FlFields(f), NEW p
  PROVE  LET g == Raised(f, p)
         IN /\ FlFields(g) /\ g.pc = p /\ g.send = f.send /\ ~g.cs
            /\ g.addr = f.addr /\ g.data = f.data /\ g.we = f.we /\ g.to = f.to
            /\ g.req = f.req /\ g.wp = f.wp /\ g.wip = f.wip
<1> DEFINE g == Raised(f, p)
<1>1. g \in [pc : {p}, addr : {f.addr}, data : {f.data}, we : {f.we}, to : {f.to}, req : {f.req},
             wp : {f.wp}, wip : {f.wip}, send : {f.send}, cs : {FALSE}, got : {Nothing}]
  BY DEF FlFields, Raised
<1>2. /\ f.addr \in Addr /\ f.data \in Byte /\ f.we \in BOOLEAN /\ f.to \in FlTargets
      /\ f.req \in BOOLEAN /\ f.wp \in BOOLEAN /\ f.wip \in BOOLEAN
  BY DEF FlFields, FlTargets
<1> HIDE DEF g
<1>3. FlFields(g)  BY <1>1, <1>2 DEF FlFields, FlTargets
<1> QED  BY <1>1, <1>3 DEF g

\* So does going idle.
LEMMA FlGoesIdle ==
  ASSUME NEW f, FlFields(f)
  PROVE  LET g == ToIdle(f)
         IN FlFields(g) /\ g.pc = "Idle" /\ g.send = f.send /\ ~g.cs /\ g.wp = f.wp /\ g.wip = f.wip
<1> DEFINE h == Raised(f, "Idle")  g == ToIdle(f)
<1>1. FlFields(h) /\ h.pc = "Idle" /\ h.send = f.send /\ ~h.cs /\ h.wp = f.wp /\ h.wip = f.wip
  BY FlLetsGo
<1> HIDE DEF h
<1>2. 0 \in Addr /\ Erased \in Byte  BY FlashSizes DEF Addr, Byte, Erased
<1>3. g \in [pc : {"Idle"}, addr : {0}, data : {Erased}, we : {FALSE}, to : {"data"}, req : {FALSE},
             wp : {f.wp}, wip : {f.wip}, send : {f.send}, cs : {FALSE}, got : {g.got}]
  <2>1. g = [h EXCEPT !.addr = 0, !.data = Erased, !.we = FALSE, !.to = "data", !.req = FALSE]
    BY DEF ToIdle, h
  <2> QED  BY <1>1, <2>1 DEF FlFields, FlTargets
<1>4. f.wp \in BOOLEAN /\ f.wip \in BOOLEAN  BY DEF FlFields, FlTargets
<1> HIDE DEF g
<1>5. FlFields(g)  BY <1>2, <1>3, <1>4 DEF FlFields, FlTargets
<1> QED  BY <1>3, <1>5 DEF g

\* The bus stays in its type, however the request is answered.
LEMMA FlAccepts ==
  ASSUME FlBus, Accept \/ AcceptAndAnswer \/ (\E q \in BOOLEAN : AnswerIf(q)) \/ UNCHANGED bus
  PROVE  FlBus'
<1>1. CASE Accept  BY <1>1 DEF Accept, FlBus
<1>2. NoCycle \in [cyc : BOOLEAN, stb : Requests \cup {None}, pend : {NoCycle.pend}]
  BY DEF NoCycle
<1>3. CASE AcceptAndAnswer
  BY <1>3, <1>2 DEF AcceptAndAnswer, FlBus
<1>4. CASE \E q \in BOOLEAN : AnswerIf(q)
  BY <1>4, <1>2 DEF AnswerIf, FlBus
<1>5. CASE UNCHANGED bus  BY <1>5 DEF FlBus
<1> QED  BY <1>1, <1>3, <1>4, <1>5

\* The state of the controller says which phase it is.
LEMMA FlAt ==
  ASSUME FlPhase
  PROVE  /\ fl.pc = "Idle" => FlIdle
         /\ fl.pc = "WaitWip" => FlWaitWip
         /\ fl.pc = "CheckWip" => FlCheckWip
         /\ fl.pc = "WipDone" => FlWipDone
         /\ fl.pc = "Wen" => FlWen
         /\ fl.pc = "PP" => FlPP
         /\ fl.pc = "WrData" => FlWrData
         /\ fl.pc = "WrBus" => FlWrBus
         /\ fl.pc = "Read" => FlRead
         /\ fl.pc = "Status" => FlStatus
         /\ fl.pc \in {"Config", "ReadId"} => FlRegister
         /\ fl.pc = "EraseCmd" => FlEraseCmd
         /\ fl.pc = "Erase" => FlErase
         /\ fl.pc = "EraseBlock" => FlEraseBlock
         /\ fl.pc = "CheckIdle" => FlCheckIdle
         /\ fl.pc = "WaitIdle" => FlWaitIdle
  BY DEF FlPhase, FlIdle, FlWaitWip, FlCheckWip, FlWipDone, FlWen, FlPP, FlWrData, FlWrBus,
         FlRead, FlStatus, FlRegister, FlEraseCmd, FlErase, FlEraseBlock, FlCheckIdle, FlWaitIdle

\* One register is set.
LEMMA FlGoesTo ==
  ASSUME NEW f, FlFields(f), NEW p
  PROVE  LET g == [f EXCEPT !.pc = p]
         IN /\ FlFields(g) /\ g.pc = p /\ g.send = f.send /\ g.cs = f.cs /\ g.got = f.got
            /\ g.addr = f.addr /\ g.data = f.data /\ g.we = f.we /\ g.to = f.to
            /\ g.req = f.req /\ g.wp = f.wp /\ g.wip = f.wip
<1> DEFINE g == [f EXCEPT !.pc = p]
<1>1. FlFields(g)  BY DEF FlFields
<1> QED  BY <1>1 DEF FlFields

\* So does setting what is to be sent.
LEMMA FlSetsSend ==
  ASSUME NEW f, FlFields(f), NEW p
  PROVE  LET g == [f EXCEPT !.send = p]
         IN /\ FlFields(g) /\ g.pc = f.pc /\ g.send = p /\ g.cs = f.cs /\ g.got = f.got
            /\ g.addr = f.addr /\ g.data = f.data /\ g.we = f.we /\ g.to = f.to
            /\ g.req = f.req /\ g.wp = f.wp /\ g.wip = f.wip
<1> DEFINE g == [f EXCEPT !.send = p]
<1>1. FlFields(g)  BY DEF FlFields
<1> QED  BY <1>1 DEF FlFields

\* So does setting the bit of a write in progress.
LEMMA FlSetsWip ==
  ASSUME NEW f, FlFields(f), NEW p \in BOOLEAN
  PROVE  LET g == [f EXCEPT !.wip = p]
         IN /\ FlFields(g) /\ g.pc = f.pc /\ g.send = f.send /\ g.cs = f.cs /\ g.got = f.got
            /\ g.addr = f.addr /\ g.data = f.data /\ g.we = f.we /\ g.to = f.to
            /\ g.req = f.req /\ g.wp = f.wp /\ g.wip = p
<1> DEFINE g == [f EXCEPT !.wip = p]
<1>1. FlFields(g)  BY DEF FlFields
<1> QED  BY <1>1 DEF FlFields

\* Nothing that matters to the chip has changed.
FlUntouched ==
  /\ UNCHANGED <<chip, want>>
  /\ fl'.pc = fl.pc /\ fl'.send = fl.send /\ fl'.cs = fl.cs /\ fl'.got = fl.got
  /\ fl'.addr = fl.addr /\ fl'.data = fl.data /\ fl'.we = fl.we /\ fl'.to = fl.to
  /\ fl'.wip = fl.wip

\* A phase goes on as long as what it speaks of is untouched.
LEMMA FlKeeps ==
  ASSUME FlPhase, FlUntouched
  PROVE  FlPhase'
<1> USE DEF FlUntouched
<1>1. /\ FlParked' = FlParked /\ FlFree' = FlFree /\ FlLands' = FlLands /\ FlKnows' = FlKnows
      /\ FlWrites' = FlWrites
  BY DEF FlParked, FlFree, FlLands, FlKnows, FlWrites
<1>2. /\ (want = FlOwed(chip.mem))' <=> want = FlOwed(chip.mem)
      /\ (want = FlErased(chip.mem))' <=> want = FlErased(chip.mem)
  BY DEF FlOwed, FlErased
<1>3. FlPolls' = FlPolls
  BY <1>1 DEF FlPolls, FlTells
<1>4. CASE FlIdle  BY <1>1, <1>4 DEF FlIdle, FlPhase
<1>5. CASE FlWaitWip  BY <1>1, <1>2, <1>5 DEF FlWaitWip, FlPhase
<1>6. CASE FlCheckWip  BY <1>2, <1>3, <1>6 DEF FlCheckWip, FlPhase
<1>7. CASE FlWipDone  BY <1>1, <1>2, <1>7 DEF FlWipDone, FlPhase
<1>8. CASE FlWen  BY <1>1, <1>2, <1>8 DEF FlWen, FlPhase, FlEnables
<1>9. CASE FlPP  BY <1>1, <1>2, <1>9 DEF FlPP, FlPhase, FlEnabled
<1>10. CASE FlWrData
  <2>1. FlProgramBegins' = FlProgramBegins
    BY <1>1, <1>2 DEF FlProgramBegins
  <2>2. FlProgramTakes' = FlProgramTakes
    BY DEF FlProgramTakes, FlSending, FlFresh, FlOwed, FlPage
  <2> QED  BY <1>1, <2>1, <2>2, <1>10 DEF FlWrData, FlPhase
<1>11. FlProgramSends' = FlProgramSends
    BY DEF FlProgramSends, FlSending, FlFresh, FlOwed, FlPage
<1>12. CASE FlWrBus  BY <1>1, <1>11, <1>12 DEF FlWrBus, FlPhase
<1>13. CASE FlRead  BY <1>1, <1>13 DEF FlRead, FlReads, FlPhase
<1>14. CASE FlStatus  BY <1>1, <1>3, <1>14 DEF FlStatus, FlPhase
<1>15. CASE FlRegister  BY <1>1, <1>15 DEF FlRegister, FlAsks, FlPhase
<1>16. CASE FlEraseCmd  BY <1>1, <1>2, <1>16 DEF FlEraseCmd, FlEnables, FlPhase
<1>17. CASE FlErase  BY <1>1, <1>2, <1>17 DEF FlErase, FlEnabled, FlPhase
<1>18. CASE FlEraseBlock  BY <1>1, <1>2, <1>18 DEF FlEraseBlock, FlErases, FlPhase
<1>19. CASE FlCheckIdle  BY <1>1, <1>3, <1>19 DEF FlCheckIdle, FlPhase
<1>20. CASE FlWaitIdle  BY <1>1, <1>11, <1>20 DEF FlWaitIdle, FlPhase
<1> QED
  BY <1>4, <1>5, <1>6, <1>7, <1>8, <1>9, <1>10, <1>12, <1>13, <1>14, <1>15, <1>16, <1>17,
     <1>18, <1>19, <1>20 DEF FlPhase

-----------------------------------------------------------------------------
(* The steps, one by one.                                                  *)

\* The flash side begins in the invariant.
LEMMA FlInit ==
  ASSUME ChipErases, FlashCtlInit
  PROVE  FlInv
<1>1. FlShape(chip) /\ chip.mem \in [Addr -> Byte] /\ ~chip.dpd /\ ~chip.wip /\ FlParked
      /\ want = chip.mem
  BY DEF FlashCtlInit, FlashInit, FlShape, FlParked, Addr, Byte, Erased
<1>2. 0 \in Addr /\ Erased \in Byte  BY FlashSizes DEF Addr, Byte, Erased
<1>3. FlFields(fl)  BY <1>2 DEF FlashCtlInit, FlFields, FlTargets
<1>4. FlBus  BY DEF FlashCtlInit, FlBus
<1>5. FlIdle  BY <1>1 DEF FlashCtlInit, FlIdle, FlFree, FlLands, FlKnows
<1> QED  BY <1>1, <1>3, <1>4, <1>5 DEF FlInv, FlChip, FlPhase, FlashCtlInit

\* The steps of the flash controller, one by one.
LEMMA FlDoesAcceptRead ==
  ASSUME FlInv, AcceptRead
  PROVE  FlInv'
<1>1. fl.pc = "Idle" /\ bus.stb # None /\ bus.stb.to = "data" /\ bus.stb.we = FALSE
  BY DEF AcceptRead, Stb, None
<1>2. FlFree /\ FlLands /\ FlKnows  BY <1>1, FlAt DEF FlInv, FlIdle
<1> DEFINE f == Take(fl)
<1>3. /\ FlFields(f) /\ f.pc = fl.pc /\ f.send = fl.send /\ f.cs = fl.cs
      /\ f.addr = bus.stb.addr /\ f.we = FALSE /\ f.wip = fl.wip
  BY <1>1, FlTakes DEF FlInv
<1> HIDE DEF f
<1>4. FlBus' /\ UNCHANGED <<chip, want, misread>>
  BY FlAccepts DEF FlInv, AcceptRead
<1>5. CASE fl.wip
  <2>1. fl' = [f EXCEPT !.pc = "WaitWip"]  BY <1>5 DEF AcceptRead, f
  <2>2. FlFields(fl') /\ fl'.pc = "WaitWip" /\ fl'.send = fl.send /\ fl'.cs = fl.cs /\ fl'.we = FALSE
    BY <2>1, <1>3, FlGoesTo
  <2>3. FlWaitWip'
    BY <2>2, <1>2, <1>4 DEF FlWaitWip, FlFree, FlParked, FlOwed, FlLands
  <2> QED  BY <2>2, <2>3, <1>4 DEF FlInv, FlChip, FlPhase
<1>6. CASE ~fl.wip
  <2> DEFINE s == <<Cmd("FAST_READ"), AddrByte(bus.stb.addr), Dummy, Dummy>>
  <2>1. fl' = Start(f, "Read", s)  BY <1>6 DEF AcceptRead, f
  <2>2. /\ FlFields(fl') /\ fl'.pc = "Read" /\ fl'.send = s /\ fl'.cs /\ fl'.wip = fl.wip
        /\ fl'.addr = bus.stb.addr
    BY <2>1, <1>3, FlStarts
  <2>3. FlRead'
    BY <2>2, <1>2, <1>4, <1>6 DEF FlRead, FlReads, FlFree, FlParked, FlLands, FlKnows
  <2> QED  BY <2>2, <2>3, <1>4 DEF FlInv, FlChip, FlPhase
<1> QED  BY <1>5, <1>6 DEF FlInv, FlFields

LEMMA FlDoesAcceptWrite ==
  ASSUME FlInv, AcceptWrite
  PROVE  FlInv'
<1>1. fl.pc = "Idle" /\ bus.stb # None /\ bus.stb.to = "data" /\ bus.stb.we = TRUE
  BY DEF AcceptWrite, Stb, None
<1>2. FlFree /\ FlLands /\ FlKnows  BY <1>1, FlAt DEF FlInv, FlIdle
<1>3. FlBus' /\ UNCHANGED <<chip, misread>>
  BY FlAccepts DEF FlInv, AcceptWrite
<1>4. CASE fl.wp
  <2>1. UNCHANGED <<fl, want>>  BY <1>4 DEF AcceptWrite
  <2>2. FlPhase'  BY <2>1, <1>3, FlKeeps DEF FlInv, FlUntouched
  <2> QED  BY <2>1, <2>2, <1>3 DEF FlInv, FlChip
<1>5. CASE ~fl.wp
  <2> DEFINE f == Take(fl)
  <2>1. /\ FlFields(f) /\ f.pc = fl.pc /\ f.send = fl.send /\ f.cs = fl.cs
        /\ f.addr = bus.stb.addr /\ f.data = bus.stb.data /\ f.we /\ f.to = "data"
        /\ f.wip = fl.wip
    BY <1>1, FlTakes DEF FlInv
  <2>2. want' = [want EXCEPT ![f.addr] = @ \cap f.data]
    BY <1>5, <2>1 DEF AcceptWrite, Programmed
  <2>3. fl' = IF fl.wip THEN [f EXCEPT !.pc = "WaitWip"] ELSE Start(f, "Wen", <<Cmd("WREN")>>)
    BY <1>5 DEF AcceptWrite
  <2> HIDE DEF f
  <2>4. want' \in [Addr -> Byte]
    BY <2>1, <2>2 DEF FlInv, Byte, FlFields
  <2>5. CASE fl.wip
    <3>1. /\ FlFields(fl') /\ fl'.pc = "WaitWip" /\ fl'.send = fl.send /\ fl'.cs = fl.cs
          /\ fl'.we /\ fl'.to = "data" /\ fl'.addr = f.addr /\ fl'.data = f.data
      BY <2>5, <2>3, <2>1, FlGoesTo
    <3>2. (want = FlOwed(chip.mem))'
      BY <3>1, <2>2, <1>2, <1>3 DEF FlOwed, FlLands
    <3>3. FlWaitWip'
      BY <3>1, <3>2, <1>2, <1>3 DEF FlWaitWip, FlFree, FlParked
    <3> QED  BY <3>1, <3>3, <1>3, <2>4 DEF FlInv, FlChip, FlPhase
  <2>6. CASE ~fl.wip
    <3>1. /\ FlFields(fl') /\ fl'.pc = "Wen" /\ fl'.send = <<Cmd("WREN")>> /\ fl'.cs
          /\ fl'.we /\ fl'.to = "data" /\ fl'.addr = f.addr /\ fl'.data = f.data
      BY <2>6, <2>3, <2>1, FlStarts
    <3>2. (want = FlOwed(chip.mem))'
      BY <3>1, <2>2, <1>2, <1>3 DEF FlOwed, FlLands
    <3>3. FlWen'
      BY <3>1, <3>2, <1>2, <1>3, <2>6 DEF FlWen, FlWrites, FlEnables, FlFree, FlParked, FlKnows
    <3> QED  BY <3>1, <3>3, <1>3, <2>4 DEF FlInv, FlChip, FlPhase
  <2> QED  BY <2>5, <2>6 DEF FlInv, FlFields
<1> QED  BY <1>4, <1>5 DEF FlInv, FlFields

LEMMA FlDoesWriteEreg ==
  ASSUME FlInv, WriteEreg
  PROVE  FlInv'
<1> DEFINE r == bus.stb  g == [fl EXCEPT !.wp = ~r.data.unprotect]
<1>1. fl.pc = "Idle" /\ r # None /\ r.to = "ereg" /\ r.we = TRUE
  BY DEF WriteEreg, Stb, None
<1>2. FlFree /\ FlLands /\ FlKnows  BY <1>1, FlAt DEF FlInv, FlIdle
<1>3. FlBus' /\ UNCHANGED <<chip, misread>>
  BY FlAccepts DEF FlInv, WriteEreg
<1>4. r.addr \in Addr /\ r.data.erase \in BOOLEAN /\ r.data.unprotect \in BOOLEAN
  BY <1>1, RequestsAssumption DEF FlInv, FlBus
<1>5. /\ FlFields(g) /\ g.pc = fl.pc /\ g.send = fl.send /\ g.cs = fl.cs /\ g.got = fl.got
      /\ g.addr = fl.addr /\ g.data = fl.data /\ g.we = fl.we /\ g.to = fl.to /\ g.wip = fl.wip
  <2>1. (~r.data.unprotect) \in BOOLEAN  OBVIOUS
  <2> QED  BY <2>1 DEF FlInv, FlFields
<1>6. CASE r.data.erase /\ fl.wip
  <2>1. fl' = [g EXCEPT !.pc = "WaitWip", !.we = TRUE, !.to = "ereg"] /\ want' = want
    BY <1>6 DEF WriteEreg
  <2> HIDE DEF g
  <2>2. FlFields(fl') /\ fl'.pc = "WaitWip" /\ fl'.send = g.send /\ fl'.cs = g.cs /\ fl'.to = "ereg"
    BY <2>1, <1>5 DEF FlFields, FlTargets
  <2>3. FlWaitWip'
    BY <2>1, <2>2, <1>2, <1>3, <1>5 DEF FlWaitWip, FlFree, FlParked, FlOwed, FlLands
  <2> QED  BY <2>1, <2>2, <2>3, <1>3 DEF FlInv, FlChip, FlPhase
<1>7. CASE r.data.erase /\ ~fl.wip /\ ~fl.wp
  <2> DEFINE h == [g EXCEPT !.addr = r.addr, !.we = TRUE, !.to = "ereg", !.wip = TRUE]
  <2>1. fl' = Start(h, "EraseCmd", <<Cmd("WREN")>>) /\ want' = ErasedFrom(r.addr)
    BY <1>7 DEF WriteEreg
  <2> HIDE DEF g
  <2>2. h \in [pc : {g.pc}, addr : {r.addr}, data : Byte, we : {TRUE}, to : {"ereg"}, req : BOOLEAN,
               wp : BOOLEAN, wip : {TRUE}, send : {g.send}, cs : BOOLEAN, got : {g.got}]
    BY <1>5 DEF FlFields
  <2> HIDE DEF h
  <2>3. FlFields(h) /\ h.addr = r.addr /\ h.wip = TRUE
    BY <2>2, <1>4 DEF FlFields, FlTargets
  <2>4. /\ FlFields(fl') /\ fl'.pc = "EraseCmd" /\ fl'.send = <<Cmd("WREN")>> /\ fl'.cs
        /\ fl'.wip = TRUE /\ fl'.addr = r.addr
    BY <2>1, <2>3, FlStarts
  <2>5. want' \in [Addr -> Byte]
    BY <2>1 DEF ErasedFrom, FlInv, Byte, Erased
  <2>6. (want = FlErased(chip.mem))'
    BY <2>1, <2>4, <1>2, <1>3 DEF FlErased, ErasedFrom, FlLands
  <2>7. FlEraseCmd'
    BY <2>4, <2>6, <1>2, <1>3, <1>7 DEF FlEraseCmd, FlEnables, FlFree, FlParked, FlKnows
  <2> QED  BY <2>4, <2>5, <2>7, <1>3 DEF FlInv, FlChip, FlPhase
<1>8. CASE ~(r.data.erase /\ (fl.wip \/ ~fl.wp))
  <2>1. fl' = g /\ want' = want
    BY <1>8 DEF WriteEreg
  <2>2. FlPhase'
    BY <2>1, <1>3, <1>5, FlKeeps DEF FlInv, FlUntouched
  <2> QED  BY <2>1, <2>2, <1>3, <1>5 DEF FlInv, FlChip
<1> QED  BY <1>6, <1>7, <1>8

LEMMA FlDoesReadRegister ==
  ASSUME FlInv, ReadRegister
  PROVE  FlInv'
<1> DEFINE f == [fl EXCEPT !.to = bus.stb.to, !.we = FALSE, !.req = TRUE]
<1>1. fl.pc = "Idle" /\ bus.stb.to \in FlTargets  BY DEF ReadRegister, FlTargets
<1>2. FlFree /\ FlLands /\ FlKnows  BY <1>1, FlAt DEF FlInv, FlIdle
<1>3. FlBus' /\ UNCHANGED <<chip, misread, want>>
  BY FlAccepts DEF FlInv, ReadRegister
<1>4. FlFields(f) /\ f.wip = fl.wip
  BY <1>1 DEF FlInv, FlFields
<1>5. CASE UNCHANGED fl
  <2>1. FlPhase'  BY <1>5, <1>3, FlKeeps DEF FlInv, FlUntouched
  <2> QED  BY <1>5, <2>1, <1>3 DEF FlInv, FlChip
<1>6. CASE fl' = Start(f, "Status", <<Cmd("RDSR"), Dummy>>)
  <2> HIDE DEF f
  <2>1. FlFields(fl') /\ fl'.pc = "Status" /\ fl'.send = <<Cmd("RDSR"), Dummy>> /\ fl'.cs
    BY <1>4, <1>6, FlStarts
  <2>2. FlStatus'
    BY <2>1, <1>2, <1>3 DEF FlStatus, FlPolls, FlFree, FlParked, FlLands
  <2> QED  BY <2>1, <2>2, <1>3 DEF FlInv, FlChip, FlPhase
<1>7. CASE fl' = Start(f, "Config", <<Cmd("RDCR"), Dummy>>)
  <2> HIDE DEF f
  <2>1. /\ FlFields(fl') /\ fl'.pc = "Config" /\ fl'.send = <<Cmd("RDCR"), Dummy>> /\ fl'.cs
        /\ fl'.wip = fl.wip
    BY <1>4, <1>7, FlStarts
  <2>2. FlRegister'
    BY <2>1, <1>2, <1>3 DEF FlRegister, FlAsks, FlFree, FlParked, FlLands, FlKnows
  <2> QED  BY <2>1, <2>2, <1>3 DEF FlInv, FlChip, FlPhase
<1>8. CASE fl' = Start(f, "ReadId", <<Cmd("RDID"), Dummy>>)
  <2> HIDE DEF f
  <2>1. /\ FlFields(fl') /\ fl'.pc = "ReadId" /\ fl'.send = <<Cmd("RDID"), Dummy>> /\ fl'.cs
        /\ fl'.wip = fl.wip
    BY <1>4, <1>8, FlStarts
  <2>2. FlRegister'
    BY <2>1, <1>2, <1>3 DEF FlRegister, FlAsks, FlFree, FlParked, FlLands, FlKnows
  <2> QED  BY <2>1, <2>2, <1>3 DEF FlInv, FlChip, FlPhase
<1> QED  BY <1>5, <1>6, <1>7, <1>8 DEF ReadRegister

LEMMA FlDoesPollWip ==
  ASSUME FlInv, PollWip
  PROVE  FlInv'
<1>1. fl.pc = "Idle" /\ fl' = Start(fl, "CheckIdle", <<Cmd("RDSR"), Dummy>>)
      /\ UNCHANGED <<chip, bus, want, misread>>
  BY DEF PollWip
<1>2. FlFree /\ FlLands  BY <1>1, FlAt DEF FlInv, FlIdle
<1>3. FlFields(fl') /\ fl'.pc = "CheckIdle" /\ fl'.send = <<Cmd("RDSR"), Dummy>> /\ fl'.cs
  BY <1>1, FlStarts DEF FlInv
<1>4. FlCheckIdle'
  BY <1>1, <1>2, <1>3 DEF FlCheckIdle, FlPolls, FlFree, FlParked, FlLands
<1> QED  BY <1>1, <1>3, <1>4 DEF FlInv, FlChip, FlBus, FlPhase

LEMMA FlDoesWaitWip ==
  ASSUME FlInv, WaitWip
  PROVE  FlInv'
<1>1. fl.pc = "WaitWip" /\ fl' = Start(fl, "CheckWip", <<Cmd("RDSR"), Dummy>>)
      /\ UNCHANGED <<chip, bus, want, misread>>
  BY DEF WaitWip
<1>2. FlFree /\ want = FlOwed(chip.mem)  BY <1>1, FlAt DEF FlInv, FlWaitWip
<1>3. /\ FlFields(fl') /\ fl'.pc = "CheckWip" /\ fl'.send = <<Cmd("RDSR"), Dummy>> /\ fl'.cs
      /\ fl'.to = fl.to /\ fl'.we = fl.we /\ fl'.addr = fl.addr /\ fl'.data = fl.data
  BY <1>1, FlStarts DEF FlInv
<1>4. (want = FlOwed(chip.mem))'  BY <1>1, <1>2, <1>3 DEF FlOwed
<1>5. FlCheckWip'
  BY <1>1, <1>2, <1>3, <1>4 DEF FlCheckWip, FlPolls, FlFree, FlParked
<1> QED  BY <1>1, <1>3, <1>5 DEF FlInv, FlChip, FlBus, FlPhase

\* What a poll that is over says.
LEMMA FlPolled ==
  ASSUME FlPolls, Ready
  PROVE  /\ chip.state = "RDSR" /\ Busy(fl) \in BOOLEAN /\ (~Busy(fl) => ~chip.wip)
         /\ chip.count \in 1 .. 3 /\ FlTells(chip.out) /\ FlTells(fl.got)
<1>1. fl.send = <<>>  BY DEF Ready
<1>2. /\ chip.state = "RDSR" /\ chip.count \in 1 .. 3 /\ FlTells(chip.out) /\ FlTells(fl.got)
  BY <1>1, FlLens DEF FlPolls
<1>3. PICK w \in BOOLEAN : fl.got = <<"status", w>> /\ (chip.wip => w)  BY <1>2 DEF FlTells
<1>4. fl.got[2] = w  BY <1>3
<1>5. Busy(fl) => w = TRUE
  <2>1. ASSUME Busy(fl) PROVE fl.got[2] = TRUE
    <3>1. fl.got = <<"status", TRUE>>  BY <2>1 DEF Busy
    <3> QED  BY <3>1
  <2> QED  BY <2>1, <1>4
<1>6. w = TRUE => Busy(fl)  BY <1>3 DEF Busy
<1> QED  BY <1>2, <1>3, <1>5, <1>6 DEF Busy

LEMMA FlDoesCheckWip ==
  ASSUME FlInv, CheckWip
  PROVE  FlInv'
<1>1. fl.pc = "CheckWip" /\ Ready /\ UNCHANGED <<bus, want, misread>>
  BY DEF CheckWip
<1>2. FlPolls /\ want = FlOwed(chip.mem)  BY <1>1, FlAt DEF FlInv, FlCheckWip
<1>3. /\ chip.state = "RDSR" /\ (~Busy(fl) => ~chip.wip) /\ chip.count \in 1 .. 3
      /\ FlTells(chip.out) /\ FlTells(fl.got)
  BY <1>1, <1>2, FlPolled
<1>4. CASE Busy(fl)
  <2>1. fl' = [fl EXCEPT !.send = <<Dummy>>] /\ chip' = chip  BY <1>4 DEF CheckWip
  <2>2. /\ FlFields(fl') /\ fl'.pc = "CheckWip" /\ fl'.send = <<Dummy>> /\ fl'.cs = fl.cs
        /\ fl'.to = fl.to /\ fl'.we = fl.we /\ fl'.addr = fl.addr /\ fl'.data = fl.data
    BY <1>1, <2>1, FlSetsSend DEF FlInv
  <2>3. (want = FlOwed(chip.mem))'  BY <1>1, <1>2, <2>1, <2>2 DEF FlOwed
  <2>4. FlPolls'  BY <1>2, <1>3, <2>1, <2>2 DEF FlPolls, FlTells
  <2> QED  BY <1>1, <2>1, <2>2, <2>3, <2>4 DEF FlInv, FlChip, FlBus, FlPhase, FlCheckWip
<1>5. CASE ~Busy(fl)
  <2> DEFINE f == Raised(fl, "WipDone")
  <2>1. fl' = [f EXCEPT !.wip = FALSE] /\ chip' = FlashDeselect(chip)
    BY <1>5 DEF CheckWip, Raise
  <2>2. /\ FlFields(f) /\ f.pc = "WipDone" /\ f.send = fl.send /\ ~f.cs
        /\ f.to = fl.to /\ f.we = fl.we /\ f.addr = fl.addr /\ f.data = fl.data
    BY FlLetsGo DEF FlInv
  <2> HIDE DEF f
  <2>3. /\ FlFields(fl') /\ fl'.pc = "WipDone" /\ fl'.send = <<>> /\ ~fl'.cs /\ ~fl'.wip
        /\ fl'.to = fl.to /\ fl'.we = fl.we /\ fl'.addr = fl.addr /\ fl'.data = fl.data
    BY <1>1, <2>1, <2>2, FlSetsWip DEF Ready
  <2>4. /\ FlShape(chip') /\ chip'.count = 0 /\ chip'.state = "IDLE" /\ chip'.mem = chip.mem
        /\ chip'.wip = chip.wip /\ chip'.dpd = chip.dpd
    BY <1>3, <2>1, FlDeselects DEF FlInv, FlChip
  <2>5. (want = FlOwed(chip.mem))'  BY <1>1, <1>2, <2>3, <2>4 DEF FlOwed
  <2>6. FlWipDone'
    BY <2>3, <2>4, <2>5, <1>3, <1>5 DEF FlWipDone, FlFree, FlParked
  <2> QED  BY <1>1, <2>3, <2>4, <2>6 DEF FlInv, FlChip, FlBus, FlPhase
<1> QED  BY <1>4, <1>5

LEMMA FlDoesWipDone ==
  ASSUME FlInv, WipDone
  PROVE  FlInv'
<1>1. fl.pc = "WipDone" /\ UNCHANGED <<chip, want, misread>>
  BY DEF WipDone
<1>2. FlFree /\ ~fl.wip /\ ~chip.wip /\ want = FlOwed(chip.mem)
  BY <1>1, FlAt DEF FlInv, FlWipDone
<1>3. fl.req \in BOOLEAN /\ fl.we \in BOOLEAN  BY DEF FlInv, FlFields
<1>4. FlBus'
  BY FlAccepts, <1>3 DEF FlInv, WipDone
<1>5. CASE fl.to = "data" /\ ~fl.we
  <2> DEFINE s == <<Cmd("FAST_READ"), AddrByte(fl.addr), Dummy, Dummy>>
  <2>1. fl' = Start(fl, "Read", s)  BY <1>5 DEF WipDone
  <2>2. /\ FlFields(fl') /\ fl'.pc = "Read" /\ fl'.send = s /\ fl'.cs /\ fl'.wip = fl.wip
        /\ fl'.addr = fl.addr
    BY <2>1, FlStarts DEF FlInv
  <2>3. want = chip.mem  BY <1>2, <1>5 DEF FlOwed
  <2>4. FlRead'
    BY <2>2, <2>3, <1>1, <1>2 DEF FlRead, FlReads, FlFree, FlParked
  <2> QED  BY <2>2, <2>4, <1>1, <1>4 DEF FlInv, FlChip, FlPhase
<1>6. CASE fl.to = "data" /\ fl.we
  <2>1. fl' = Start(fl, "Wen", <<Cmd("WREN")>>)  BY <1>6 DEF WipDone
  <2>2. /\ FlFields(fl') /\ fl'.pc = "Wen" /\ fl'.send = <<Cmd("WREN")>> /\ fl'.cs
        /\ fl'.to = fl.to /\ fl'.we = fl.we /\ fl'.addr = fl.addr /\ fl'.data = fl.data
    BY <2>1, FlStarts DEF FlInv
  <2>3. (want = FlOwed(chip.mem))'  BY <1>1, <1>2, <2>2 DEF FlOwed
  <2>4. FlWen'
    BY <2>2, <2>3, <1>1, <1>2, <1>6 DEF FlWen, FlWrites, FlEnables, FlFree, FlParked
  <2> QED  BY <2>2, <2>4, <1>1, <1>4 DEF FlInv, FlChip, FlPhase
<1>7. CASE fl.to # "data"
  <2>1. fl' = [fl EXCEPT !.pc = "WaitIdle"]  BY <1>7 DEF WipDone
  <2>2. /\ FlFields(fl') /\ fl'.pc = "WaitIdle" /\ fl'.send = fl.send /\ fl'.cs = fl.cs
        /\ fl'.wip = fl.wip
    BY <2>1, FlGoesTo DEF FlInv
  <2>3. want = chip.mem  BY <1>2, <1>7 DEF FlOwed
  <2>4. FlWaitIdle'
    BY <2>2, <2>3, <1>1, <1>2 DEF FlWaitIdle, FlFree, FlParked, FlLands, FlKnows
  <2> QED  BY <2>2, <2>4, <1>1, <1>4 DEF FlInv, FlChip, FlPhase
<1> QED  BY <1>3, <1>5, <1>6, <1>7

LEMMA FlDoesWriteEnabled ==
  ASSUME FlInv, WriteEnabled
  PROVE  FlInv'
<1>1. fl.pc = "Wen" /\ Ready /\ UNCHANGED <<bus, want, misread>>
      /\ fl' = Raised(fl, "PP") /\ chip' = FlashDeselect(chip)
  BY DEF WriteEnabled, Raise
<1>2. FlWrites /\ FlEnables /\ want = FlOwed(chip.mem)  BY <1>1, FlAt DEF FlInv, FlWen
<1>3. chip.state = "IDLE" /\ chip.wel /\ ~chip.wip
  BY <1>1, <1>2, FlLens DEF FlEnables, Ready
<1>4. /\ FlFields(fl') /\ fl'.pc = "PP" /\ fl'.send = <<>> /\ ~fl'.cs
      /\ fl'.to = fl.to /\ fl'.we = fl.we /\ fl'.addr = fl.addr /\ fl'.data = fl.data
  BY <1>1, FlLetsGo DEF FlInv, Ready
<1>5. /\ FlShape(chip') /\ chip'.count = 0 /\ chip'.state = "IDLE" /\ chip'.mem = chip.mem
      /\ chip'.wip = chip.wip /\ chip'.dpd = chip.dpd /\ chip'.wel = chip.wel
  BY <1>1, <1>3, FlDeselects DEF FlInv, FlChip
<1>6. (want = FlOwed(chip.mem))'  BY <1>1, <1>2, <1>4, <1>5 DEF FlOwed
<1>7. FlPP'
  BY <1>2, <1>3, <1>4, <1>5, <1>6 DEF FlPP, FlWrites, FlEnabled, FlFree, FlParked
<1> QED  BY <1>1, <1>4, <1>5, <1>7 DEF FlInv, FlChip, FlBus, FlPhase

LEMMA FlDoesStartProgram ==
  ASSUME FlInv, StartProgram
  PROVE  FlInv'
<1> DEFINE s == <<Cmd("PP"), AddrByte(fl.addr)>>
<1>1. fl.pc = "PP" /\ UNCHANGED <<chip, bus, want, misread>> /\ fl' = Start(fl, "WrData", s)
  BY DEF StartProgram
<1>2. FlWrites /\ FlEnabled /\ want = FlOwed(chip.mem)  BY <1>1, FlAt DEF FlInv, FlPP
<1>3. /\ FlFields(fl') /\ fl'.pc = "WrData" /\ fl'.send = s /\ fl'.cs
      /\ fl'.to = fl.to /\ fl'.we = fl.we /\ fl'.addr = fl.addr /\ fl'.data = fl.data
  BY <1>1, FlStarts DEF FlInv
<1>4. (want = FlOwed(chip.mem))'  BY <1>1, <1>2, <1>3 DEF FlOwed
<1>5. FlProgramBegins'
  BY <1>1, <1>2, <1>3, <1>4 DEF FlProgramBegins, FlEnabled, FlFree, FlParked
<1>6. FlWrData'  BY <1>2, <1>3, <1>5 DEF FlWrData, FlWrites
<1> QED  BY <1>1, <1>3, <1>6 DEF FlInv, FlChip, FlBus, FlPhase

LEMMA FlDoesSendWord ==
  ASSUME FlInv, SendWord
  PROVE  FlInv'
<1>1. /\ fl.pc = "WrData" /\ Ready /\ UNCHANGED <<chip, want, misread>>
      /\ fl' = [fl EXCEPT !.pc = "WrBus", !.send = <<Data(fl.data)>>, !.wip = TRUE]
  BY DEF SendWord
<1>2. FlWrites /\ (FlProgramBegins \/ FlProgramTakes)  BY <1>1, FlAt DEF FlInv, FlWrData
<1>3. /\ FlSending("PP") /\ chip.addr = fl.addr
      /\ FlFresh(chip, fl.addr % PageBytes) /\ want = FlOwed(FlPage(chip))
  BY <1>1, <1>2, FlLens DEF FlProgramBegins, FlProgramTakes, Ready
<1>4. /\ FlFields(fl') /\ fl'.pc = "WrBus" /\ fl'.send = <<Data(fl.data)>> /\ fl'.cs = fl.cs
      /\ fl'.to = fl.to /\ fl'.we = fl.we /\ fl'.addr = fl.addr /\ fl'.data = fl.data /\ fl'.wip
  BY <1>1 DEF FlInv, FlFields
<1>5. FlBus'
  <2>1. fl.req \in BOOLEAN  BY DEF FlInv, FlFields
  <2> QED  BY <2>1, FlAccepts DEF FlInv, SendWord
<1>6. (want = FlOwed(FlPage(chip)))'  BY <1>1, <1>3, <1>4 DEF FlOwed, FlPage
<1>7. FlSending("PP")' /\ (chip.addr = fl.addr)' /\ FlFresh(chip, fl.addr % PageBytes)'
  BY <1>1, <1>3, <1>4 DEF FlSending, FlFresh
<1>8. FlWrBus'
  BY <1>2, <1>4, <1>6, <1>7 DEF FlWrBus, FlWrites, FlProgramSends
<1> QED  BY <1>1, <1>4, <1>5, <1>8 DEF FlInv, FlChip, FlPhase

\* The next place of a page, and a program that goes on there.
LEMMA FlNextPlace ==
  ASSUME NEW a \in Nat, PageOf(a + 1) = PageOf(a)
  PROVE  (a + 1) % PageBytes = (a % PageBytes) + 1
<1>1. /\ PageBytes \in Nat \ {0} /\ a % PageBytes \in 0 .. PageBytes - 1
      /\ (a + 1) % PageBytes \in 0 .. PageBytes - 1
  BY FlPages
<1>2. (a + 1) - ((a + 1) % PageBytes) = a - (a % PageBytes)  BY DEF PageOf
<1> QED  BY <1>1, <1>2

\* An address is a number below the size of the chip.
LEMMA FlAddrs ==
  ASSUME NEW a \in Addr
  PROVE  a \in Nat /\ MemBytes \in Nat \ {0} /\ a < MemBytes
  BY FlashSizes DEF Addr

LEMMA FlDoesNextWord ==
  ASSUME FlInv, NextWord
  PROVE  FlInv'
<1>1. /\ fl.pc = "WrBus" /\ bus.stb # None /\ bus.stb.to = "data" /\ bus.stb.we = TRUE
      /\ NextInPage /\ UNCHANGED <<chip, misread>>
  BY DEF NextWord, Stb, None
<1>2. FlWrites /\ FlProgramSends  BY <1>1, FlAt DEF FlInv, FlWrBus
<1> DEFINE f == Take(fl)
<1>3. /\ FlFields(f) /\ f.pc = fl.pc /\ f.send = fl.send /\ f.cs = fl.cs
      /\ f.addr = bus.stb.addr /\ f.data = bus.stb.data /\ f.we /\ f.to = "data"
  BY <1>1, FlTakes DEF FlInv
<1>4. fl' = [f EXCEPT !.pc = "WrData"]  BY DEF NextWord
<1> HIDE DEF f
<1>5. /\ FlFields(fl') /\ fl'.pc = "WrData" /\ fl'.send = fl.send /\ fl'.cs = fl.cs
      /\ fl'.addr = bus.stb.addr /\ fl'.data = bus.stb.data /\ fl'.we /\ fl'.to = "data"
  BY <1>3, <1>4, FlGoesTo
<1>6. fl'.addr \in Addr /\ fl'.data \in Byte /\ fl.addr \in Addr /\ fl.data \in Byte
  BY <1>5 DEF FlInv, FlFields
<1>7. fl'.addr = fl.addr + 1 /\ PageOf(fl'.addr) = PageOf(fl.addr)
  <2>1. fl'.addr = fl.addr + 1 /\ (fl.addr + 1) \div PageWords = fl.addr \div PageWords
    BY <1>1, <1>5 DEF NextInPage
  <2> QED  BY <2>1, <1>6, FlAddrs, FlNextInPage
<1>8. fl'.addr % PageBytes = (fl.addr % PageBytes) + 1
  BY <1>6, <1>7, FlAddrs, FlNextPlace
<1>9. want' = [want EXCEPT ![fl'.addr] = @ \cap fl'.data]
  BY <1>5 DEF NextWord, Programmed
<1>10. want' \in [Addr -> Byte]  BY <1>6, <1>9 DEF FlInv, Byte
<1>11. FlBus'  BY FlAccepts DEF FlInv, NextWord
<1>12. FlPage(chip)' = FlPage(chip)  BY <1>1 DEF FlPage
<1>13. FlSending("PP")'  BY <1>1, <1>2, <1>5 DEF FlProgramSends, FlSending
<1>14. FlProgramTakes'
  <2>1. CASE /\ fl.send = <<Data(fl.data)>> /\ chip.addr = fl.addr
             /\ FlFresh(chip, fl.addr % PageBytes) /\ want = FlOwed(FlPage(chip))
    <3>1. want = [FlPage(chip) EXCEPT ![chip.addr] = @ \cap fl.data]
      BY <2>1, <1>2 DEF FlOwed, FlWrites
    <3>2. PICK d : d = fl.data  OBVIOUS
    <3>3. want' = [[FlPage(chip') EXCEPT ![chip'.addr] = @ \cap d] EXCEPT ![fl'.addr] = @ \cap fl'.data]
      BY <1>1, <3>1, <3>2, <1>9
    <3>4. (want = FlOwed([FlPage(chip) EXCEPT ![chip.addr] = @ \cap d]))'
      BY <3>3, <1>5 DEF FlOwed
    <3>5. FlFresh(chip, chip.addr % PageBytes)'
      BY <2>1, <1>1 DEF FlFresh
    <3>6. (chip.addr \in Addr /\ chip.addr + 1 = fl.addr /\ PageOf(chip.addr) = PageOf(fl.addr))'
      BY <2>1, <1>1, <1>6, <1>7
    <3>7. fl'.send = <<Data(d)>> /\ d \in Byte  BY <2>1, <3>2, <1>5, <1>6
    <3> QED  BY <3>4, <3>5, <3>6, <3>7, <1>13 DEF FlProgramTakes
  <2>2. CASE /\ fl.send = <<>> /\ chip.addr \in Int /\ PageOf(chip.addr) = PageOf(fl.addr)
             /\ PageOf(fl.addr + 1) = PageOf(fl.addr) => chip.addr = fl.addr + 1
             /\ FlFresh(chip, (fl.addr % PageBytes) + 1) /\ want = FlPage(chip)
    <3>1. (chip.addr = fl.addr)'  BY <2>2, <1>1, <1>7
    <3>2. FlFresh(chip, fl.addr % PageBytes)'  BY <2>2, <1>1, <1>8 DEF FlFresh
    <3>3. (want = FlOwed(FlPage(chip)))'  BY <2>2, <1>5, <1>9, <1>12 DEF FlOwed
    <3> QED  BY <2>2, <3>1, <3>2, <3>3, <1>5, <1>13 DEF FlProgramTakes
  <2> QED  BY <2>1, <2>2, <1>2 DEF FlProgramSends
<1>15. FlWrData'  BY <1>5, <1>14 DEF FlWrData, FlWrites
<1> QED  BY <1>1, <1>5, <1>10, <1>11, <1>15 DEF FlInv, FlChip, FlPhase

LEMMA FlDoesEndProgram ==
  ASSUME FlInv, EndProgram
  PROVE  FlInv'
<1>1. /\ fl.pc = "WrBus" /\ fl' = [fl EXCEPT !.pc = "WaitIdle"]
      /\ UNCHANGED <<chip, bus, want, misread>>
  BY DEF EndProgram
<1>2. FlWrites /\ fl.wip /\ FlProgramSends  BY <1>1, FlAt DEF FlInv, FlWrBus
<1>3. /\ FlFields(fl') /\ fl'.pc = "WaitIdle" /\ fl'.send = fl.send /\ fl'.cs = fl.cs
      /\ fl'.addr = fl.addr /\ fl'.data = fl.data /\ fl'.we = fl.we /\ fl'.to = fl.to
      /\ fl'.wip = fl.wip
  BY <1>1, FlGoesTo DEF FlInv
<1>4. FlWrites'  BY <1>2, <1>3 DEF FlWrites
<1>5. FlProgramSends'
  <2>1. FlProgramSends' = FlProgramSends
    BY <1>1, <1>3 DEF FlProgramSends, FlSending, FlFresh, FlOwed, FlPage
  <2> QED  BY <2>1, <1>2
<1>6. FlWaitIdle'  BY <1>2, <1>3, <1>4, <1>5 DEF FlWaitIdle
<1> QED  BY <1>1, <1>3, <1>6 DEF FlInv, FlChip, FlBus, FlPhase

LEMMA FlDoesReadWord ==
  ASSUME FlInv, ReadWord
  PROVE  FlInv'
<1>1. fl.pc = "Read" /\ Ready /\ UNCHANGED <<chip, want>>  BY DEF ReadWord
<1>2. FlReads  BY <1>1, FlAt DEF FlInv, FlRead
<1>3. /\ fl.cs /\ ~chip.wip /\ ~fl.wip /\ want = chip.mem /\ fl.got = Data(chip.mem[fl.addr])
      /\ chip.state = "FAST_READ" /\ chip.count \in 2 .. 3
      /\ chip.addr = FlWraps(FlWraps(fl.addr)) /\ chip.out = Data(chip.mem[FlWraps(fl.addr)])
  BY <1>1, <1>2, FlLens DEF FlReads, Ready
<1>4. ~misread'  BY <1>3 DEF ReadWord, FlInv
<1>5. CASE Stb("data", FALSE) /\ bus.stb.addr = fl.addr + 1
  <2>1. bus.stb # None /\ bus.stb.to = "data"  BY <1>5 DEF Stb, None
  <2> DEFINE f == Take(fl)
  <2>2. FlFields(f) /\ f.pc = fl.pc /\ f.cs = fl.cs /\ f.addr = fl.addr + 1 /\ f.wip = fl.wip
    BY <2>1, <1>5, FlTakes DEF FlInv
  <2>3. fl' = [f EXCEPT !.send = <<Dummy>>] /\ bus' = [bus EXCEPT !.stb = None, !.pend = 1]
    BY <1>5 DEF ReadWord
  <2> HIDE DEF f
  <2>8. /\ FlFields(fl') /\ fl'.pc = f.pc /\ fl'.send = <<Dummy>> /\ fl'.cs = f.cs
         /\ fl'.addr = f.addr /\ fl'.wip = f.wip
    BY <2>2, <2>3, FlSetsSend
  <2>4. /\ FlFields(fl') /\ fl'.pc = "Read" /\ fl'.send = <<Dummy>> /\ fl'.cs
        /\ fl'.addr = fl.addr + 1 /\ ~fl'.wip
    BY <2>2, <2>8, <1>1, <1>3
  <2>5. FlBus'  BY <2>3 DEF FlInv, FlBus
  <2>6. FlWraps(fl.addr) = fl.addr + 1
    <3>1. fl.addr \in Addr /\ fl.addr + 1 \in Addr  BY <2>4 DEF FlInv, FlFields
    <3> QED  BY <3>1, FlAddrs DEF FlWraps
  <2>7. FlRead'
    BY <2>4, <2>6, <1>1, <1>3 DEF FlRead, FlReads
  <2> QED  BY <2>4, <2>5, <2>7, <1>1, <1>4 DEF FlInv, FlChip, FlPhase
<1>6. CASE ~(Stb("data", FALSE) /\ bus.stb.addr = fl.addr + 1)
  <2>1. fl' = [fl EXCEPT !.pc = "WaitIdle", !.req = FALSE, !.got = Nothing]  BY <1>6 DEF ReadWord
  <2>2. FlFields(fl') /\ fl'.pc = "WaitIdle" /\ fl'.send = fl.send /\ fl'.cs = fl.cs
    BY <2>1 DEF FlInv, FlFields
  <2>3. FlBus'
    <3>1. fl.req \in BOOLEAN  BY DEF FlInv, FlFields
    <3> QED  BY <3>1, <1>6, FlAccepts DEF FlInv, ReadWord
  <2>4. FlWaitIdle'
    BY <2>2, <1>1, <1>3 DEF FlWaitIdle, FlLands, FlKnows, Ready
  <2> QED  BY <2>2, <2>3, <2>4, <1>1, <1>4 DEF FlInv, FlChip, FlPhase
<1> QED  BY <1>5, <1>6

LEMMA FlDoesAbandonRead ==
  ASSUME FlInv, AbandonRead
  PROVE  FlInv'
<1>1. /\ fl.pc = "Read" /\ fl.send # <<>> /\ Len(fl.send) <= 1
      /\ fl' = [fl EXCEPT !.pc = "WaitIdle"] /\ UNCHANGED <<chip, bus, want, misread>>
  BY DEF AbandonRead, Ready
<1>2. FlReads  BY <1>1, FlAt DEF FlInv, FlRead
<1>3. /\ fl.cs /\ ~chip.wip /\ want = chip.mem /\ fl.send = <<Dummy>>
      /\ chip.state = "FAST_READ" /\ chip.count \in 2 .. 3
  <2>1. fl.send # <<Cmd("FAST_READ"), AddrByte(fl.addr), Dummy, Dummy>>
    BY <1>1, FlLens
  <2>2. fl.send # <<AddrByte(fl.addr), Dummy, Dummy>>  BY <1>1, FlLens
  <2>3. fl.send # <<Dummy, Dummy>>  BY <1>1, FlLens
  <2> QED  BY <1>1, <1>2, <2>1, <2>2, <2>3 DEF FlReads
<1>4. FlFields(fl') /\ fl'.pc = "WaitIdle" /\ fl'.send = fl.send /\ fl'.cs = fl.cs
  <2>1. fl' = [fl EXCEPT !.pc = "WaitIdle"]  BY <1>1
  <2>2. FlFields(fl)  BY DEF FlInv
  <2> QED  BY <2>1, <2>2, FlGoesTo
<1>5. FlWaitIdle'
  BY <1>1, <1>3, <1>4 DEF FlWaitIdle, FlLands, FlKnows
<1> QED  BY <1>1, <1>4, <1>5 DEF FlInv, FlChip, FlBus, FlPhase

LEMMA FlDoesRegisterRead ==
  ASSUME FlInv, RegisterRead
  PROVE  FlInv'
<1> DEFINE f == ToIdle(fl)  w == IF fl.pc = "Status" THEN Busy(fl) ELSE f.wip
<1>1. /\ fl.pc \in {"Status", "Config", "ReadId"} /\ Ready /\ UNCHANGED <<want, misread>>
      /\ chip' = FlashDeselect(chip) /\ fl' = [f EXCEPT !.wip = w]
  BY DEF RegisterRead, Raise
<1>2. FlFields(f) /\ f.pc = "Idle" /\ f.send = <<>> /\ ~f.cs /\ f.wip = fl.wip
  BY <1>1, FlGoesIdle DEF FlInv, Ready
<1>3. /\ chip.state \in {"RDSR", "RDCR", "RDID"} /\ w \in BOOLEAN /\ (~w => ~chip.wip)
      /\ want = chip.mem
  <2>1. CASE fl.pc = "Status"
    <3>1. FlPolls /\ FlLands  BY <2>1, FlAt DEF FlInv, FlStatus
    <3> QED  BY <2>1, <3>1, <1>1, FlPolled DEF FlLands
  <2>2. CASE fl.pc \in {"Config", "ReadId"}
    <3>1. FlRegister  BY <2>2, FlAt DEF FlInv
    <3>2. chip.state \in {"RDCR", "RDID"}
      BY <3>1, <1>1, FlLens DEF FlRegister, FlAsks, Ready
    <3>3. w = fl.wip  BY <2>2, <1>2
    <3> QED  BY <3>1, <3>2, <3>3 DEF FlRegister, FlLands, FlKnows, FlInv, FlFields
  <2> QED  BY <2>1, <2>2, <1>1
<1> HIDE DEF f, w
<1>4. FlFields(fl') /\ fl'.pc = "Idle" /\ fl'.send = <<>> /\ ~fl'.cs /\ fl'.wip = w
  BY <1>1, <1>2, <1>3, FlSetsWip
<1>5. /\ FlShape(chip') /\ chip'.count = 0 /\ chip'.state = "IDLE" /\ chip'.mem = chip.mem
      /\ chip'.wip = chip.wip /\ chip'.dpd = chip.dpd
  BY <1>1, <1>3, FlDeselects DEF FlInv, FlChip
<1>6. FlIdle'
  BY <1>1, <1>3, <1>4, <1>5 DEF FlIdle, FlFree, FlParked, FlLands, FlKnows
<1>7. FlBus'
  <2>1. fl.req \in BOOLEAN  BY DEF FlInv, FlFields
  <2> QED  BY <2>1, FlAccepts DEF FlInv, RegisterRead
<1> QED  BY <1>1, <1>4, <1>5, <1>6, <1>7 DEF FlInv, FlChip, FlPhase

LEMMA FlDoesEraseEnabled ==
  ASSUME FlInv, EraseEnabled
  PROVE  FlInv'
<1>1. fl.pc = "EraseCmd" /\ Ready /\ UNCHANGED <<bus, want, misread>>
      /\ fl' = Raised(fl, "Erase") /\ chip' = FlashDeselect(chip)
  BY DEF EraseEnabled, Raise
<1>2. fl.wip /\ FlEnables /\ want = FlErased(chip.mem)  BY <1>1, FlAt DEF FlInv, FlEraseCmd
<1>3. chip.state = "IDLE" /\ chip.wel /\ ~chip.wip
  BY <1>1, <1>2, FlLens DEF FlEnables, Ready
<1>4. /\ FlFields(fl') /\ fl'.pc = "Erase" /\ fl'.send = <<>> /\ ~fl'.cs
      /\ fl'.addr = fl.addr /\ fl'.wip = fl.wip
  BY <1>1, FlLetsGo DEF FlInv, Ready
<1>5. /\ FlShape(chip') /\ chip'.count = 0 /\ chip'.state = "IDLE" /\ chip'.mem = chip.mem
      /\ chip'.wip = chip.wip /\ chip'.dpd = chip.dpd /\ chip'.wel = chip.wel
  BY <1>1, <1>3, FlDeselects DEF FlInv, FlChip
<1>6. (want = FlErased(chip.mem))'  BY <1>1, <1>2, <1>4, <1>5 DEF FlErased
<1>7. FlErase'
  BY <1>2, <1>3, <1>4, <1>5, <1>6 DEF FlErase, FlEnabled, FlFree, FlParked
<1> QED  BY <1>1, <1>4, <1>5, <1>7 DEF FlInv, FlChip, FlBus, FlPhase

LEMMA FlDoesSendErase ==
  ASSUME FlInv, SendErase
  PROVE  FlInv'
<1> DEFINE s == <<Cmd("SUBSECTOR_ERASE"), AddrByte(fl.addr)>>
<1>1. fl.pc = "Erase" /\ UNCHANGED <<chip, bus, want, misread>> /\ fl' = Start(fl, "EraseBlock", s)
  BY DEF SendErase
<1>2. fl.wip /\ FlEnabled /\ want = FlErased(chip.mem)  BY <1>1, FlAt DEF FlInv, FlErase
<1>3. /\ FlFields(fl') /\ fl'.pc = "EraseBlock" /\ fl'.send = s /\ fl'.cs
      /\ fl'.addr = fl.addr /\ fl'.wip = fl.wip
  BY <1>1, FlStarts DEF FlInv
<1>4. (want = FlErased(chip.mem))'  BY <1>1, <1>2, <1>3 DEF FlErased
<1>5. FlEraseBlock'
  BY <1>1, <1>2, <1>3, <1>4 DEF FlEraseBlock, FlErases, FlEnabled, FlFree, FlParked
<1> QED  BY <1>1, <1>3, <1>5 DEF FlInv, FlChip, FlBus, FlPhase

LEMMA FlDoesEraseSent ==
  ASSUME FlInv, EraseSent
  PROVE  FlInv'
<1>1. fl.pc = "EraseBlock" /\ Ready /\ UNCHANGED <<want, misread>>
      /\ fl' = ToIdle(fl) /\ chip' = FlashDeselect(chip)
  BY DEF EraseSent, Raise
<1>2. fl.wip /\ FlErases /\ want = FlErased(chip.mem)  BY <1>1, FlAt DEF FlInv, FlEraseBlock
<1>3. chip.state = "SUBSECTOR_ERASE" /\ chip.count \in 2 .. 3 /\ chip.addr = fl.addr
  BY <1>1, <1>2, FlLens DEF FlErases, Ready
<1>4. FlFields(fl') /\ fl'.pc = "Idle" /\ fl'.send = <<>> /\ ~fl'.cs /\ fl'.wip = fl.wip
  BY <1>1, FlGoesIdle DEF FlInv, Ready
<1>5. /\ FlShape(chip') /\ chip'.count = 0 /\ chip'.state = "IDLE"
      /\ chip'.mem = [a \in Addr |-> IF SameSector("SUBSECTOR_ERASE", a, chip.addr)
                                     THEN Erased ELSE chip.mem[a]]
      /\ chip'.wip /\ chip'.dpd = chip.dpd
  BY <1>1, <1>3, FlDeselectsErase DEF FlInv, FlChip
<1>6. chip'.mem = FlErased(chip.mem)
  BY <1>3, <1>5 DEF FlErased, SameSector
<1>7. FlIdle'
  BY <1>1, <1>2, <1>4, <1>5, <1>6 DEF FlIdle, FlFree, FlParked, FlLands, FlKnows
<1>8. FlBus'
  <2>1. fl.req \in BOOLEAN  BY DEF FlInv, FlFields
  <2> QED  BY <2>1, FlAccepts DEF FlInv, EraseSent
<1> QED  BY <1>1, <1>2, <1>4, <1>5, <1>6, <1>7, <1>8 DEF FlInv, FlChip, FlPhase

LEMMA FlDoesCheckIdle ==
  ASSUME FlInv, CheckIdle
  PROVE  FlInv'
<1>1. fl.pc = "CheckIdle" /\ Ready /\ UNCHANGED <<bus, want, misread>>
  BY DEF CheckIdle
<1>2. FlPolls /\ FlLands  BY <1>1, FlAt DEF FlInv, FlCheckIdle
<1>3. /\ chip.state = "RDSR" /\ Busy(fl) \in BOOLEAN /\ (~Busy(fl) => ~chip.wip)
      /\ chip.count \in 1 .. 3 /\ FlTells(chip.out)
  BY <1>1, <1>2, FlPolled
<1>4. CASE Busy(fl) /\ (~bus.cyc \/ bus.stb = None)
  <2>1. fl' = [fl EXCEPT !.send = <<Dummy>>] /\ chip' = chip  BY <1>4 DEF CheckIdle
  <2>2. FlFields(fl') /\ fl'.pc = "CheckIdle" /\ fl'.send = <<Dummy>> /\ fl'.cs = fl.cs
    BY <1>1, <2>1, FlSetsSend DEF FlInv
  <2>3. FlPolls'  BY <1>2, <1>3, <2>1, <2>2 DEF FlPolls, FlTells
  <2> QED  BY <1>1, <1>2, <2>1, <2>2, <2>3 DEF FlInv, FlChip, FlBus, FlPhase, FlCheckIdle, FlLands
<1>5. CASE ~(Busy(fl) /\ (~bus.cyc \/ bus.stb = None))
  <2> DEFINE f == ToIdle(fl)
  <2>1. fl' = [f EXCEPT !.wip = Busy(fl)] /\ chip' = FlashDeselect(chip)
    BY <1>5 DEF CheckIdle, Raise
  <2>2. FlFields(f) /\ f.pc = "Idle" /\ f.send = <<>> /\ ~f.cs
    BY <1>1, FlGoesIdle DEF FlInv, Ready
  <2> HIDE DEF f
  <2>3. FlFields(fl') /\ fl'.pc = "Idle" /\ fl'.send = <<>> /\ ~fl'.cs /\ fl'.wip = Busy(fl)
    BY <2>1, <2>2, <1>3, FlSetsWip
  <2>4. /\ FlShape(chip') /\ chip'.count = 0 /\ chip'.state = "IDLE" /\ chip'.mem = chip.mem
        /\ chip'.wip = chip.wip /\ chip'.dpd = chip.dpd
    BY <1>3, <2>1, FlDeselects DEF FlInv, FlChip
  <2>5. FlIdle'
    BY <1>1, <1>2, <1>3, <2>3, <2>4 DEF FlIdle, FlFree, FlParked, FlLands, FlKnows
  <2> QED  BY <1>1, <2>3, <2>4, <2>5 DEF FlInv, FlChip, FlBus, FlPhase
<1> QED  BY <1>4, <1>5

LEMMA FlDoesWaitIdle ==
  ASSUME FlInv, WaitIdle
  PROVE  FlInv'
<1>1. /\ fl.pc = "WaitIdle" /\ Ready /\ UNCHANGED <<bus, want, misread>> /\ fl' = ToIdle(fl)
      /\ fl.cs => chip' = FlashDeselect(chip)
      /\ ~fl.cs => chip' = chip
  BY DEF WaitIdle, Raise
<1>2. FlFields(fl') /\ fl'.pc = "Idle" /\ fl'.send = <<>> /\ ~fl'.cs /\ fl'.wip = fl.wip
  BY <1>1, FlGoesIdle DEF FlInv, Ready
<1>3. FlWaitIdle  BY <1>1, FlAt DEF FlInv
<1>4. CASE FlFree /\ FlLands /\ FlKnows
  <2>1. chip' = chip  BY <1>1, <1>4 DEF FlFree
  <2>2. FlIdle'  BY <2>1, <1>1, <1>2, <1>4 DEF FlIdle, FlFree, FlParked, FlLands, FlKnows
  <2> QED  BY <1>1, <1>2, <2>1, <2>2 DEF FlInv, FlChip, FlBus, FlPhase
<1>5. CASE /\ fl.cs /\ chip.state = "FAST_READ" /\ chip.count \in 2 .. 3
           /\ FlLands /\ FlKnows
  <2>1. /\ FlShape(chip') /\ chip'.count = 0 /\ chip'.state = "IDLE" /\ chip'.mem = chip.mem
        /\ chip'.wip = chip.wip /\ chip'.dpd = chip.dpd
    BY <1>1, <1>5, FlDeselects DEF FlInv, FlChip
  <2>2. FlIdle'  BY <2>1, <1>1, <1>2, <1>5 DEF FlIdle, FlFree, FlParked, FlLands, FlKnows
  <2> QED  BY <1>1, <1>2, <2>1, <2>2 DEF FlInv, FlChip, FlBus, FlPhase
<1>6. CASE fl.wip /\ FlProgramSends
  <2>1. chip.state = "PP" /\ chip.count \in 2 .. 3 /\ fl.cs /\ want = FlPage(chip)
    BY <1>1, <1>6, FlLens DEF FlProgramSends, FlSending, Ready
  <2>2. /\ FlShape(chip') /\ chip'.count = 0 /\ chip'.state = "IDLE" /\ chip'.mem = FlPage(chip)
        /\ chip'.wip /\ chip'.dpd = chip.dpd
    BY <1>1, <2>1, FlDeselectsProgram DEF FlInv, FlChip
  <2>3. FlIdle'  BY <2>1, <2>2, <1>1, <1>2, <1>6 DEF FlIdle, FlFree, FlParked, FlLands, FlKnows
  <2> QED  BY <1>1, <1>2, <2>1, <2>2, <2>3 DEF FlInv, FlChip, FlBus, FlPhase
<1> QED  BY <1>3, <1>4, <1>5, <1>6 DEF FlWaitIdle

-----------------------------------------------------------------------------
(* A step of the serial line.                                              *)

\* A byte goes to the chip and one comes back.
FlSteps ==
  /\ FlFields(fl) /\ FlShape(chip) /\ chip.mem \in [Addr -> Byte] /\ ~chip.dpd
  /\ fl.send # <<>> /\ chip' = FlashByte(chip, Head(fl.send))
  /\ fl' = [fl EXCEPT !.send = Tail(@), !.got = chip.out]
  /\ UNCHANGED <<bus, want, misread>>

\* What holds of the chip whatever it is sent here.
FlSame ==
  /\ FlShape(chip') /\ chip'.mem = chip.mem /\ chip'.wip = chip.wip /\ chip'.dpd = chip.dpd

\* A byte that is exchanged changes what is to be sent and what was got.
LEMMA FlStepFields ==
  ASSUME FlSteps
  PROVE  /\ FlFields(fl') /\ fl'.send = Tail(fl.send) /\ fl'.got = chip.out
         /\ fl'.pc = fl.pc /\ fl'.cs = fl.cs /\ fl'.addr = fl.addr /\ fl'.data = fl.data
         /\ fl'.we = fl.we /\ fl'.to = fl.to /\ fl'.wip = fl.wip
<1> DEFINE t == Tail(fl.send)  o == chip.out
<1>1. fl' = [fl EXCEPT !.send = t, !.got = o] /\ FlFields(fl)  BY DEF FlSteps
<1> HIDE DEF t, o
<1>2. /\ FlFields(fl') /\ fl'.send = t /\ fl'.got = o
      /\ fl'.pc = fl.pc /\ fl'.cs = fl.cs /\ fl'.addr = fl.addr /\ fl'.data = fl.data
      /\ fl'.we = fl.we /\ fl'.to = fl.to /\ fl'.wip = fl.wip
  BY <1>1 DEF FlFields
<1> QED  BY <1>2 DEF t, o

\* The chip takes a command that it may take.
LEMMA FlStepCommand ==
  ASSUME FlSteps, FlParked, NEW x, Head(fl.send) = Cmd(x),
         \/ x \in {"RDSR", "FAST_READ", "RDCR", "RDID", "WREN"}
         \/ x \in {"PP", "SUBSECTOR_ERASE"} /\ chip.wel /\ ~chip.wip
  PROVE  /\ FlSame /\ chip'.count = 1 /\ chip'.state = IF x = "WREN" THEN "IDLE" ELSE x
         /\ (x = "WREN" => chip'.wel) /\ (x # "WREN" => chip'.wel = chip.wel)
         /\ x = "RDSR" => chip'.out = <<"status", chip.wip>>
<1>1. chip' = FlashByte(chip, Cmd(x)) /\ FlShape(chip) /\ chip.count = 0 /\ ~chip.dpd
  BY DEF FlSteps, FlParked
<1>2. \/ x \in {"RDSR", "FAST_READ", "RDCR", "RDID", "WREN"}
      \/ x \in {"PP", "SUBSECTOR_ERASE"} /\ chip.wel /\ ~chip.wip /\ ~chip.dpd
  BY <1>1
<1> QED  BY <1>1, <1>2, FlGoes DEF FlSame

\* A byte of a poll of the status.
LEMMA FlStepPolls ==
  ASSUME FlSteps, FlPolls
  PROVE  FlPolls' /\ FlSame
<1>1. /\ fl'.send = Tail(fl.send) /\ fl'.got = chip.out /\ fl'.cs = fl.cs
  BY FlStepFields
<1>2. CASE fl.send = <<Cmd("RDSR"), Dummy>> /\ FlParked
  <2>1. Head(fl.send) = Cmd("RDSR") /\ fl'.send = <<Dummy>>  BY <1>1, <1>2, FlTails
  <2>2. /\ FlSame /\ chip'.count = 1 /\ chip'.state = "RDSR" /\ chip'.out = <<"status", chip.wip>>
    BY <1>2, <2>1, FlStepCommand
  <2>3. FlTells(chip.out)'
    <3>1. chip.wip \in BOOLEAN  BY DEF FlSteps, FlShape
    <3> QED  BY <2>2, <3>1 DEF FlTells, FlSame
  <2>4. fl'.cs /\ chip'.count \in 1 .. 3  BY <1>1, <2>2 DEF FlPolls
  <2> QED  BY <2>1, <2>2, <2>3, <2>4 DEF FlPolls
<1>3. CASE /\ chip.state = "RDSR" /\ chip.count \in 1 .. 3 /\ FlTells(chip.out)
           /\ fl.send = <<Dummy>>
  <2>1. Head(fl.send) = Dummy /\ fl'.send = <<>>  BY <1>1, <1>3, FlTails
  <2>2. /\ FlSame /\ chip'.count \in 1 .. 3 /\ chip'.state = "RDSR" /\ chip'.out = <<"status", chip.wip>>
    BY <1>3, <2>1, FlAnswersMore DEF FlSteps, FlSame
  <2>3. FlTells(chip.out)'
    <3>1. chip.wip \in BOOLEAN  BY DEF FlSteps, FlShape
    <3> QED  BY <2>2, <3>1 DEF FlTells, FlSame
  <2>4. FlTells(fl.got)'  BY <1>1, <1>3, <2>2 DEF FlTells, FlSame
  <2> QED  BY <1>1, <2>1, <2>2, <2>3, <2>4 DEF FlPolls
<1> QED  BY <1>2, <1>3 DEF FlPolls, FlSteps

\* A byte of another register.
LEMMA FlStepAsks ==
  ASSUME NEW c \in {"RDCR", "RDID"}, FlSteps, FlAsks(c)
  PROVE  FlAsks(c)' /\ FlSame
<1>1. fl'.send = Tail(fl.send) /\ fl'.cs = fl.cs  BY FlStepFields
<1>2. CASE fl.send = <<Cmd(c), Dummy>> /\ FlParked
  <2>1. Head(fl.send) = Cmd(c) /\ fl'.send = <<Dummy>>  BY <1>1, <1>2, FlTails
  <2>2. FlSame /\ chip'.count = 1 /\ chip'.state = c
    BY <1>2, <2>1, FlStepCommand
  <2>3. fl'.cs /\ chip'.count \in 1 .. 3  BY <1>1, <2>2 DEF FlAsks
  <2> QED  BY <2>1, <2>2, <2>3 DEF FlAsks
<1>3. CASE chip.state = c /\ chip.count \in 1 .. 3 /\ fl.send = <<Dummy>>
  <2>1. Head(fl.send) = Dummy /\ fl'.send = <<>>  BY <1>1, <1>3, FlTails
  <2>2. FlSame /\ chip'.count \in 1 .. 3 /\ chip'.state = c
    BY <1>3, <2>1, FlAnswersMore DEF FlSteps, FlSame
  <2> QED  BY <1>1, <2>1, <2>2 DEF FlAsks
<1> QED  BY <1>2, <1>3 DEF FlAsks, FlSteps

\* The byte of a write enable.
LEMMA FlStepEnables ==
  ASSUME FlSteps, FlEnables
  PROVE  FlEnables' /\ FlSame
<1>1. fl'.send = Tail(fl.send) /\ fl'.cs = fl.cs  BY FlStepFields
<1>2. fl.send = <<Cmd("WREN")>> /\ FlParked  BY DEF FlEnables, FlSteps
<1>3. Head(fl.send) = Cmd("WREN") /\ fl'.send = <<>>  BY <1>1, <1>2, FlTails
<1>4. FlSame /\ chip'.count = 1 /\ chip'.state = "IDLE" /\ chip'.wel
  BY <1>2, <1>3, FlStepCommand
<1> QED  BY <1>1, <1>3, <1>4 DEF FlEnables, FlSame

\* A byte of an erase.
LEMMA FlStepErases ==
  ASSUME FlSteps, FlErases
  PROVE  FlErases' /\ FlSame
<1>1. fl'.send = Tail(fl.send) /\ fl'.cs = fl.cs /\ fl'.addr = fl.addr  BY FlStepFields
<1>2. CASE fl.send = <<Cmd("SUBSECTOR_ERASE"), AddrByte(fl.addr)>> /\ FlParked
  <2>1. Head(fl.send) = Cmd("SUBSECTOR_ERASE") /\ fl'.send = <<AddrByte(fl.addr)>>
    BY <1>1, <1>2, FlTails
  <2>2. FlSame /\ chip'.count = 1 /\ chip'.state = "SUBSECTOR_ERASE" /\ chip'.wel = chip.wel
    BY <1>2, <2>1, FlStepCommand DEF FlErases
  <2> QED  BY <1>1, <2>1, <2>2 DEF FlErases, FlSame
<1>3. CASE fl.send = <<AddrByte(fl.addr)>> /\ chip.state = "SUBSECTOR_ERASE" /\ chip.count = 1
  <2>1. Head(fl.send) = AddrByte(fl.addr) /\ fl'.send = <<>>
    BY <1>1, <1>3, FlTails
  <2>2. /\ FlSame /\ chip'.count = 2 /\ chip'.state = "SUBSECTOR_ERASE" /\ chip'.wel = chip.wel
        /\ chip'.addr = fl.addr
    BY <1>3, <2>1, FlTakesAddress DEF FlSteps, FlSame
  <2>3. fl'.cs /\ chip'.wel /\ ~chip'.wip /\ chip'.count \in 2 .. 3
    BY <1>1, <2>2 DEF FlErases, FlSame
  <2> QED  BY <1>1, <2>1, <2>2, <2>3 DEF FlErases
<1> QED  BY <1>2, <1>3 DEF FlErases, FlSteps

\* A byte of a read.
LEMMA FlStepReads ==
  ASSUME FlSteps, FlReads
  PROVE  FlReads' /\ FlSame
<1>1. /\ fl'.send = Tail(fl.send) /\ fl'.cs = fl.cs /\ fl'.addr = fl.addr /\ fl'.wip = fl.wip
      /\ fl'.got = chip.out /\ want' = want
  BY FlStepFields DEF FlSteps
<1>2. fl.cs /\ ~chip.wip /\ ~fl.wip /\ want = chip.mem  BY DEF FlReads
<1>3. CASE fl.send = <<Cmd("FAST_READ"), AddrByte(fl.addr), Dummy, Dummy>> /\ FlParked
  <2>1. Head(fl.send) = Cmd("FAST_READ") /\ fl'.send = <<AddrByte(fl.addr), Dummy, Dummy>>
    BY <1>1, <1>3, FlTails
  <2>2. FlSame /\ chip'.count = 1 /\ chip'.state = "FAST_READ"
    BY <1>3, <2>1, FlStepCommand
  <2> QED  BY <1>1, <1>2, <2>1, <2>2 DEF FlReads, FlSame
<1>4. CASE /\ fl.send = <<AddrByte(fl.addr), Dummy, Dummy>>
           /\ chip.state = "FAST_READ" /\ chip.count = 1
  <2>1. Head(fl.send) = AddrByte(fl.addr) /\ fl'.send = <<Dummy, Dummy>>
    BY <1>1, <1>4, FlTails
  <2>2. FlSame /\ chip'.count = 2 /\ chip'.state = "FAST_READ" /\ chip'.addr = fl.addr
    BY <1>4, <2>1, FlTakesAddress DEF FlSteps, FlSame
  <2>3. /\ fl'.cs /\ ~chip'.wip /\ ~fl'.wip /\ (want = chip.mem)' /\ chip'.count \in 2 .. 3
        /\ (chip.addr = fl.addr)'
    BY <1>1, <1>2, <2>2 DEF FlSame
  <2> QED  BY <2>1, <2>2, <2>3 DEF FlReads
<1>5. CASE /\ fl.send = <<Dummy, Dummy>>
           /\ chip.state = "FAST_READ" /\ chip.count \in 2 .. 3 /\ chip.addr = fl.addr
  <2>1. Head(fl.send) = Dummy /\ fl'.send = <<Dummy>>  BY <1>1, <1>5, FlTails
  <2>2. /\ FlSame /\ chip'.count \in 2 .. 3 /\ chip'.state = "FAST_READ"
        /\ chip'.addr = FlWraps(fl.addr) /\ chip'.out = Data(chip.mem[fl.addr])
    BY <1>2, <1>5, <2>1, FlReadsOut DEF FlSteps, FlSame, FlWraps
  <2> QED  BY <1>1, <1>2, <2>1, <2>2 DEF FlReads, FlSame
<1>6. CASE /\ fl.send = <<Dummy>>
           /\ chip.state = "FAST_READ" /\ chip.count \in 2 .. 3 /\ chip.addr = FlWraps(fl.addr)
           /\ chip.out = Data(chip.mem[fl.addr])
  <2>1. Head(fl.send) = Dummy /\ fl'.send = <<>>  BY <1>1, <1>6, FlTails
  <2>2. /\ FlSame /\ chip'.count \in 2 .. 3 /\ chip'.state = "FAST_READ"
        /\ chip'.addr = FlWraps(FlWraps(fl.addr)) /\ chip'.out = Data(chip.mem[FlWraps(fl.addr)])
    BY <1>2, <1>6, <2>1, FlReadsOut DEF FlSteps, FlSame, FlWraps
  <2>3. fl'.got = Data(chip.mem[fl.addr])  BY <1>1, <1>6
  <2> QED  BY <1>1, <1>2, <2>1, <2>2, <2>3 DEF FlReads, FlSame
<1> QED  BY <1>3, <1>4, <1>5, <1>6 DEF FlReads, FlSteps

\* Two addresses of one page at one place of it are the same.
LEMMA FlOnePlace ==
  ASSUME NEW a \in Nat, NEW b \in Nat, PageOf(a) = PageOf(b), a % PageBytes = b % PageBytes
  PROVE  a = b
<1>1. a % PageBytes \in Int /\ b % PageBytes \in Int  BY FlPages
<1>2. a - (a % PageBytes) = b - (b % PageBytes)  BY DEF PageOf
<1>3. PICK x \in Int : x = a % PageBytes  BY <1>1
<1>4. a - x = b - x  BY <1>2, <1>3
<1> QED  BY <1>3, <1>4

\* A word that the chip puts into its page.
LEMMA FlWordLands ==
  ASSUME FlSteps, FlSending("PP"), NEW d \in Byte, fl.send = <<Data(d)>>, chip.addr \in Addr,
         FlFresh(chip, chip.addr % PageBytes)
  PROVE  /\ FlSame /\ FlSending("PP")' /\ fl'.send = <<>>
         /\ chip'.addr \in Nat /\ PageOf(chip'.addr) = PageOf(chip.addr)
         /\ PageOf(chip.addr + 1) = PageOf(chip.addr) => chip'.addr = chip.addr + 1
         /\ FlFresh(chip', (chip.addr % PageBytes) + 1)
         /\ FlPage(chip') = [FlPage(chip) EXCEPT ![chip.addr] = @ \cap d]
<1> DEFINE a == chip.addr  k == a % PageBytes
<1>1. fl'.send = Tail(fl.send) /\ fl'.cs = fl.cs  BY FlStepFields
<1>2. Head(fl.send) = Data(d) /\ fl'.send = <<>>  BY <1>1, FlTails
<1>3. /\ FlSame /\ chip'.count \in 2 .. 3 /\ chip'.state = "PP" /\ chip'.wel = chip.wel
      /\ chip'.addr = PageOf(a) + ((a + 1) % PageBytes)
      /\ chip'.pmem = [chip.pmem EXCEPT ![k] = d]
  <2>1. /\ FlShape(chip) /\ chip.state = "PP" /\ chip.count \in 2 .. 3
        /\ chip' = FlashByte(chip, Data(d))
    BY <1>2 DEF FlSteps, FlSending
  <2> QED  BY <2>1, FlTakesWord DEF FlSame
<1>4. FlSending("PP")'  BY <1>1, <1>3 DEF FlSending, FlSame
<1>5. /\ a \in Nat /\ PageBytes \in Nat \ {0} /\ k \in 0 .. PageBytes - 1
      /\ (a + 1) % PageBytes \in 0 .. PageBytes - 1
  <2>1. a \in Nat /\ a + 1 \in Nat  BY FlAddrs
  <2>2. PageBytes \in Nat \ {0} /\ k \in 0 .. PageBytes - 1  BY <2>1, FlPages
  <2>3. (a + 1) % PageBytes \in 0 .. PageBytes - 1  BY <2>1, FlPages
  <2> QED  BY <2>1, <2>2, <2>3
<1>6. chip'.addr \in Nat /\ PageOf(chip'.addr) = PageOf(a)
  BY <1>3, <1>5, FlPages
<1>7. ASSUME PageOf(a + 1) = PageOf(a) PROVE chip'.addr = a + 1
  <2>1. (a + 1) % PageBytes = k + 1  BY <1>5, <1>7, FlNextPlace
  <2>2. PageOf(a) = a - k  BY DEF PageOf
  <2> QED  BY <1>3, <1>5, <2>1, <2>2
<1>8. chip.pmem \in [0 .. PageBytes - 1 -> Byte] /\ chip.pmem[k] = Erased
  BY <1>5 DEF FlFresh
<1>9. FlFresh(chip', k + 1)
  <2>1. chip'.pmem \in [0 .. PageBytes - 1 -> Byte]  BY <1>3, <1>8
  <2>2. ASSUME NEW i \in 0 .. PageBytes - 1, i >= k + 1 PROVE chip'.pmem[i] = Erased
    <3>1. i # k /\ i >= k  BY <1>5, <2>2
    <3>2. chip'.pmem[i] = chip.pmem[i]  BY <3>1, <1>3, <1>8
    <3> QED  BY <3>1, <3>2 DEF FlFresh
  <2> QED  BY <2>1, <2>2 DEF FlFresh
<1>10. FlPage(chip') = [FlPage(chip) EXCEPT ![a] = @ \cap d]
  <2>1. ASSUME NEW b \in Addr
        PROVE  FlPage(chip')[b] = IF b = a THEN FlPage(chip)[a] \cap d ELSE FlPage(chip)[b]
    <3>1. b \in Nat /\ b % PageBytes \in 0 .. PageBytes - 1  BY FlAddrs, FlPages
    <3>2. FlPage(chip')[b] = IF PageOf(b) = PageOf(a)
                             THEN chip.mem[b] \cap chip'.pmem[b % PageBytes] ELSE chip.mem[b]
      BY <1>3, <1>6 DEF FlPage, FlSame
    <3>3. CASE b = a
      <4>1. chip'.pmem[k] = d  BY <1>3, <1>5, <1>8
      <4>2. FlPage(chip)[a] = chip.mem[a] \cap Erased  BY <1>8 DEF FlPage
      <4>3. chip.mem[a] \in SUBSET Bits /\ d \in SUBSET Bits  BY DEF FlSteps, Byte
      <4>4. chip.mem[a] \cap d = (chip.mem[a] \cap Erased) \cap d  BY <4>3 DEF Erased
      <4> QED  BY <3>2, <3>3, <4>1, <4>2, <4>4
    <3>4. CASE b # a /\ PageOf(b) = PageOf(a)
      <4>1. b % PageBytes # k
        BY <3>1, <3>4, <1>5, FlOnePlace
      <4>2. chip'.pmem[b % PageBytes] = chip.pmem[b % PageBytes]  BY <4>1, <3>1, <1>3, <1>8
      <4> QED  BY <3>2, <3>4, <4>2 DEF FlPage
    <3>5. CASE PageOf(b) # PageOf(a)  BY <3>2, <3>5 DEF FlPage
    <3> QED  BY <3>3, <3>4, <3>5
  <2>2. FlPage(chip') = [b \in Addr |-> FlPage(chip')[b]]  BY DEF FlPage
  <2>3. [FlPage(chip) EXCEPT ![a] = @ \cap d]
          = [b \in Addr |-> IF b = a THEN FlPage(chip)[a] \cap d ELSE FlPage(chip)[b]]
    BY DEF FlPage
  <2> QED  BY <2>1, <2>2, <2>3
<1> QED  BY <1>2, <1>3, <1>4, <1>6, <1>7, <1>9, <1>10

\* The command of a program and its address.
LEMMA FlStepBegins ==
  ASSUME FlSteps, FlProgramBegins
  PROVE  (FlProgramBegins \/ FlProgramTakes)' /\ FlSame
<1>1. /\ fl'.send = Tail(fl.send) /\ fl'.cs = fl.cs /\ fl'.addr = fl.addr /\ fl'.data = fl.data
      /\ fl'.to = fl.to /\ fl'.we = fl.we /\ want' = want
  BY FlStepFields DEF FlSteps
<1>2. fl.cs /\ chip.wel /\ ~chip.wip /\ want = FlOwed(chip.mem)  BY DEF FlProgramBegins
<1>3. CASE fl.send = <<Cmd("PP"), AddrByte(fl.addr)>> /\ FlParked
  <2>1. Head(fl.send) = Cmd("PP") /\ fl'.send = <<AddrByte(fl.addr)>>  BY <1>1, <1>3, FlTails
  <2>2. FlSame /\ chip'.count = 1 /\ chip'.state = "PP" /\ chip'.wel = chip.wel
    BY <1>2, <1>3, <2>1, FlStepCommand
  <2>3. (want = FlOwed(chip.mem))'  BY <1>1, <1>2, <2>2 DEF FlOwed, FlSame
  <2> QED  BY <1>1, <1>2, <2>1, <2>2, <2>3 DEF FlProgramBegins, FlSame
<1>4. CASE fl.send = <<AddrByte(fl.addr)>> /\ chip.state = "PP" /\ chip.count = 1
  <2>1. Head(fl.send) = AddrByte(fl.addr) /\ fl'.send = <<>>  BY <1>1, <1>4, FlTails
  <2>2. /\ FlSame /\ chip'.count = 2 /\ chip'.state = "PP" /\ chip'.wel = chip.wel
        /\ chip'.addr = fl.addr /\ chip'.pmem = [i \in 0 .. PageBytes - 1 |-> Erased]
    <3>1. /\ FlShape(chip) /\ chip.state = "PP" /\ chip.count = 1
          /\ chip' = FlashByte(chip, AddrByte(fl.addr))
      BY <1>4, <2>1 DEF FlSteps
    <3>2. FlShape(chip) /\ chip.count = 1 /\ chip.state \in {"FAST_READ", "PP", "SUBSECTOR_ERASE"}
      BY <3>1
    <3> DEFINE e == FlashByte(chip, AddrByte(fl.addr))
    <3>3. /\ FlShape(e) /\ e.count = 2 /\ e.mem = chip.mem /\ e.addr = fl.addr
          /\ e.wip = chip.wip /\ e.dpd = chip.dpd /\ e.state = chip.state /\ e.wel = chip.wel
          /\ chip.state = "PP" => e.pmem = [i \in 0 .. PageBytes - 1 |-> Erased]
      BY <3>2, FlTakesAddress
    <3> HIDE DEF e
    <3>4. chip' = e  BY <3>1 DEF e
    <3> QED  BY <3>1, <3>3, <3>4 DEF FlSame
  <2>3. FlFresh(chip, fl.addr % PageBytes)'  BY <2>2 DEF FlFresh, Erased, Byte
  <2>4. FlPage(chip') = chip.mem
    <3>1. ASSUME NEW a \in Addr PROVE FlPage(chip')[a] = chip.mem[a]
      <4>1. a % PageBytes \in 0 .. PageBytes - 1  BY FlAddrs, FlPages
      <4>2. chip'.pmem[a % PageBytes] = Bits  BY <2>2, <4>1 DEF Erased
      <4>3. chip.mem[a] \cap Bits = chip.mem[a]
        <5>1. chip.mem[a] \in SUBSET Bits  BY DEF FlSteps, Byte
        <5> QED  BY <5>1
      <4> QED  BY <2>2, <4>2, <4>3 DEF FlPage, FlSame
    <3>2. FlPage(chip') = [a \in Addr |-> FlPage(chip')[a]]  BY DEF FlPage
    <3>3. chip.mem = [a \in Addr |-> chip.mem[a]]  BY DEF FlSteps
    <3> QED  BY <3>1, <3>2, <3>3
  <2>5. (want = FlOwed(FlPage(chip)))'  BY <1>1, <1>2, <2>4 DEF FlOwed
  <2>6. (chip.addr = fl.addr)'  BY <1>1, <2>2
  <2>7. FlSending("PP")'  BY <1>1, <1>2, <2>2 DEF FlSending, FlSame
  <2>8. FlFresh(chip, fl.addr % PageBytes)' /\ (fl.addr % PageBytes)' = fl.addr % PageBytes
    BY <1>1, <2>3 DEF FlFresh
  <2> QED  BY <2>1, <2>2, <2>5, <2>6, <2>7, <2>8 DEF FlProgramTakes
<1> QED  BY <1>3, <1>4 DEF FlProgramBegins, FlSteps

\* A word of a program while the next one is already known.
LEMMA FlStepTakes ==
  ASSUME FlSteps, FlProgramTakes
  PROVE  FlProgramTakes' /\ FlSame
<1>1. /\ fl'.addr = fl.addr /\ fl'.data = fl.data
      /\ fl'.to = fl.to /\ fl'.we = fl.we /\ want' = want
  BY FlStepFields DEF FlSteps
<1>2. PICK d \in Byte :
        /\ chip.addr \in Addr /\ chip.addr + 1 = fl.addr /\ PageOf(chip.addr) = PageOf(fl.addr)
        /\ FlFresh(chip, chip.addr % PageBytes) /\ fl.send = <<Data(d)>>
        /\ want = FlOwed([FlPage(chip) EXCEPT ![chip.addr] = @ \cap d])
  BY DEF FlProgramTakes, FlSteps
<1>3. FlSending("PP")  BY DEF FlProgramTakes
<1>4. /\ FlSame /\ FlSending("PP")' /\ fl'.send = <<>>
      /\ chip'.addr = chip.addr + 1 /\ FlFresh(chip', (chip.addr % PageBytes) + 1)
      /\ FlPage(chip') = [FlPage(chip) EXCEPT ![chip.addr] = @ \cap d]
  BY <1>2, <1>3, FlWordLands
<1>5. (want = FlOwed(FlPage(chip)))'  BY <1>1, <1>2, <1>4 DEF FlOwed
<1>6. fl.addr % PageBytes = (chip.addr % PageBytes) + 1
  BY <1>2, FlAddrs, FlNextPlace
<1>7. FlFresh(chip, fl.addr % PageBytes)'
  BY <1>1, <1>4, <1>6 DEF FlFresh
<1> QED  BY <1>1, <1>2, <1>4, <1>5, <1>7 DEF FlProgramTakes

\* A word of a program while none is known to follow.
LEMMA FlStepSends ==
  ASSUME FlSteps, FlProgramSends, FlWrites
  PROVE  FlProgramSends' /\ FlSame
<1>1. /\ fl'.addr = fl.addr /\ fl'.data = fl.data
      /\ fl'.to = fl.to /\ fl'.we = fl.we /\ want' = want
      /\ fl.addr \in Addr /\ fl.data \in Byte
  BY FlStepFields DEF FlSteps, FlFields
<1>2. /\ FlSending("PP") /\ fl.send = <<Data(fl.data)>> /\ chip.addr = fl.addr
      /\ FlFresh(chip, fl.addr % PageBytes) /\ want = FlOwed(FlPage(chip))
  BY DEF FlProgramSends, FlSteps
<1>3. /\ FlSame /\ FlSending("PP")' /\ fl'.send = <<>>
      /\ chip'.addr \in Nat /\ PageOf(chip'.addr) = PageOf(chip.addr)
      /\ PageOf(chip.addr + 1) = PageOf(chip.addr) => chip'.addr = chip.addr + 1
      /\ FlFresh(chip', (chip.addr % PageBytes) + 1)
      /\ FlPage(chip') = [FlPage(chip) EXCEPT ![chip.addr] = @ \cap fl.data]
  BY <1>1, <1>2, FlWordLands
<1>4. (want = FlPage(chip))'  BY <1>1, <1>2, <1>3 DEF FlOwed, FlWrites
<1>5. FlFresh(chip, (fl.addr % PageBytes) + 1)'
  BY <1>1, <1>2, <1>3 DEF FlFresh
<1>6. /\ (PageOf(chip.addr) = PageOf(fl.addr))'
      /\ (PageOf(fl.addr + 1) = PageOf(fl.addr) => chip.addr = fl.addr + 1)'
  BY <1>1, <1>2, <1>3
<1> QED  BY <1>3, <1>4, <1>5, <1>6 DEF FlProgramSends

\* A byte exchanged keeps the invariant, whatever is sent.
LEMMA FlDoesStep ==
  ASSUME FlInv, NEW g, FlashStep(g)
  PROVE  FlInv'
<1>1. FlSteps  BY DEF FlInv, FlChip, FlashStep, FlSteps
<1>2. /\ FlFields(fl') /\ fl'.pc = fl.pc /\ fl'.cs = fl.cs /\ fl'.addr = fl.addr /\ fl'.data = fl.data
      /\ fl'.we = fl.we /\ fl'.to = fl.to /\ fl'.wip = fl.wip
  BY <1>1, FlStepFields
<1>3. fl.send # <<>> /\ UNCHANGED <<bus, want, misread>> /\ FlBus'
  BY <1>1 DEF FlSteps, FlInv, FlBus
<1>4. FlWrites' = FlWrites  BY <1>2 DEF FlWrites
<1>5. ASSUME FlSame
      PROVE  /\ FlOwed(chip.mem)' = FlOwed(chip.mem) /\ FlErased(chip.mem)' = FlErased(chip.mem)
             /\ FlLands' = FlLands /\ FlKnows' = FlKnows
  BY <1>2, <1>3, <1>5 DEF FlSame, FlOwed, FlErased, FlLands, FlKnows
<1>6. SUFFICES FlSame /\ FlPhase'
  BY <1>2, <1>3 DEF FlInv, FlChip, FlSame
<1>7. CASE FlCheckWip
  BY <1>1, <1>2, <1>3, <1>5, <1>7, FlStepPolls DEF FlCheckWip, FlPhase
<1>8. CASE FlStatus
  BY <1>1, <1>2, <1>3, <1>5, <1>8, FlStepPolls DEF FlStatus, FlPhase
<1>9. CASE FlCheckIdle
  BY <1>1, <1>2, <1>3, <1>5, <1>9, FlStepPolls DEF FlCheckIdle, FlPhase
<1>10. CASE FlRegister
  <2>1. CASE fl.pc = "Config"
    BY <1>1, <1>2, <1>3, <1>5, <1>10, <2>1, FlStepAsks DEF FlRegister, FlPhase
  <2>2. CASE fl.pc = "ReadId"
    BY <1>1, <1>2, <1>3, <1>5, <1>10, <2>2, FlStepAsks DEF FlRegister, FlPhase
  <2> QED  BY <2>1, <2>2, <1>10 DEF FlRegister
<1>11. CASE FlWen
  BY <1>1, <1>2, <1>3, <1>4, <1>5, <1>11, FlStepEnables DEF FlWen, FlPhase
<1>12. CASE FlEraseCmd
  BY <1>1, <1>2, <1>3, <1>5, <1>12, FlStepEnables DEF FlEraseCmd, FlPhase
<1>13. CASE FlEraseBlock
  BY <1>1, <1>2, <1>3, <1>5, <1>13, FlStepErases DEF FlEraseBlock, FlPhase
<1>14. CASE FlRead
  BY <1>1, <1>2, <1>14, FlStepReads DEF FlRead, FlPhase
<1>15. CASE FlWrData
  <2>1. CASE FlProgramBegins
    BY <1>1, <1>2, <1>4, <1>15, <2>1, FlStepBegins DEF FlWrData, FlPhase
  <2>2. CASE FlProgramTakes
    BY <1>1, <1>2, <1>4, <1>15, <2>2, FlStepTakes DEF FlWrData, FlPhase
  <2> QED  BY <2>1, <2>2, <1>15 DEF FlWrData
<1>16. CASE FlWrBus
  BY <1>1, <1>2, <1>4, <1>16, FlStepSends DEF FlWrBus, FlPhase
<1>17. CASE FlWaitIdle
  <2>1. CASE FlWrites /\ fl.wip /\ FlProgramSends
    BY <1>1, <1>2, <1>4, <1>17, <2>1, FlStepSends DEF FlWaitIdle, FlPhase
  <2>2. CASE /\ fl.cs /\ chip.state = "FAST_READ" /\ chip.count \in 2 .. 3
             /\ fl.send \in {<<Dummy>>, <<>>} /\ ~chip.wip /\ FlLands /\ FlKnows
    <3>1. fl.send = <<Dummy>>  BY <2>2, <1>3
    <3>2. Head(fl.send) = Dummy /\ fl'.send = <<>>
      BY <3>1, <1>1, FlStepFields, FlTails
    <3>3. FlSame /\ chip'.count \in 2 .. 3 /\ chip'.state = "FAST_READ"
      BY <1>1, <2>2, <3>2, FlReadsOut DEF FlSteps, FlSame
    <3>4. fl'.cs /\ ~chip'.wip /\ FlLands' /\ FlKnows' /\ fl'.pc = "WaitIdle"
      BY <1>2, <1>5, <1>17, <2>2, <3>3 DEF FlSame, FlWaitIdle
    <3> QED  BY <3>2, <3>3, <3>4 DEF FlWaitIdle, FlPhase
  <2>3. CASE FlFree  BY <2>3, <1>3 DEF FlFree
  <2> QED  BY <2>1, <2>2, <2>3, <1>17 DEF FlWaitIdle
<1>18. CASE FlIdle \/ FlWaitWip \/ FlWipDone \/ FlPP \/ FlErase
  BY <1>3, <1>18 DEF FlIdle, FlWaitWip, FlWipDone, FlPP, FlErase, FlEnabled, FlFree
<1> QED
  BY <1>7, <1>8, <1>9, <1>10, <1>11, <1>12, <1>13, <1>14, <1>15, <1>16, <1>17, <1>18
     DEF FlInv, FlPhase

\* The chip ends its write: what the controller knows stays true.
LEMMA FlDoesDone ==
  ASSUME FlInv, ChipDone
  PROVE  FlInv'
<1>0. ChipErases  BY DEF FlInv, FlChip, FlShape
<1>1. chip.wip /\ chip' = FlashDone(chip) /\ UNCHANGED <<fl, bus, want, misread>>
  BY DEF ChipDone
<1>2. /\ FlShape(chip') /\ chip'.mem = chip.mem /\ ~chip'.wip /\ ~chip'.dpd
      /\ chip'.state = chip.state /\ chip'.count = chip.count /\ chip'.out = chip.out
  <2>1. chip' \in [state : {chip.state}, count : {chip.count}, addr : {chip.addr}, mem : {chip.mem},
                   pmem : {chip.pmem}, wip : {FALSE}, wel : {FALSE}, dpd : {FALSE},
                   out : {chip.out}]
    BY <1>1 DEF FlashDone, FlInv, FlChip, FlShape
  <2> QED  BY <2>1, <1>0 DEF FlShape
<1>3. FlFields(fl') /\ FlBus'  BY <1>1 DEF FlInv, FlFields, FlBus
<1>4. /\ FlOwed(chip.mem)' = FlOwed(chip.mem) /\ FlLands' = FlLands /\ FlKnows' /\ FlParked' = FlParked
  BY <1>1, <1>2 DEF FlOwed, FlLands, FlKnows, FlParked
<1>5. FlFree' = FlFree  BY <1>1, <1>4 DEF FlFree
<1>6. SUFFICES FlPhase'
  BY <1>1, <1>2, <1>3 DEF FlInv, FlChip
<1>7. ASSUME FlPolls PROVE FlPolls'
  BY <1>1, <1>2, <1>4, <1>7 DEF FlPolls, FlTells
<1>8. CASE FlIdle  BY <1>1, <1>4, <1>5, <1>8 DEF FlIdle, FlPhase
<1>9. CASE FlWaitWip  BY <1>1, <1>4, <1>5, <1>9 DEF FlWaitWip, FlPhase
<1>10. CASE FlCheckWip  BY <1>1, <1>4, <1>7, <1>10 DEF FlCheckWip, FlPhase
<1>11. CASE FlStatus  BY <1>1, <1>4, <1>7, <1>11 DEF FlStatus, FlPhase
<1>12. CASE FlCheckIdle  BY <1>1, <1>4, <1>7, <1>12 DEF FlCheckIdle, FlPhase
<1>13. CASE FlRegister
  <2>1. ASSUME NEW c, FlAsks(c) PROVE FlAsks(c)'
    BY <1>1, <1>2, <1>4, <2>1 DEF FlAsks
  <2> QED  BY <1>1, <1>4, <1>13, <2>1 DEF FlRegister, FlPhase
<1>14. CASE FlWaitIdle
  <2>1. CASE FlFree /\ FlLands /\ FlKnows
    BY <1>1, <1>4, <1>5, <1>14, <2>1 DEF FlWaitIdle, FlPhase
  <2> QED  BY <1>1, <1>14, <2>1 DEF FlWaitIdle, FlProgramSends, FlSending
<1>15. CASE FlWipDone \/ FlWen \/ FlPP \/ FlWrData \/ FlWrBus \/ FlRead \/ FlEraseCmd \/ FlErase \/ FlEraseBlock
  <2>1. ~chip.wip
    BY <1>15 DEF FlWipDone, FlWen, FlEnables, FlPP, FlEnabled, FlWrData, FlProgramBegins,
                 FlProgramTakes, FlWrBus, FlProgramSends, FlSending, FlRead, FlReads, FlEraseCmd,
                 FlErase, FlEraseBlock, FlErases
  <2> QED  BY <1>1, <2>1
<1> QED
  BY <1>8, <1>9, <1>10, <1>11, <1>12, <1>13, <1>14, <1>15 DEF FlInv, FlPhase

\* The master asks, or ends its cycle; or the flash side does nothing.
LEMMA FlDoesIssue ==
  ASSUME FlInv, NEW r \in Requests, Issue(r)
  PROVE  FlInv'
<1>1. bus' = [bus EXCEPT !.cyc = TRUE, !.stb = r] /\ UNCHANGED <<chip, fl, want, misread>>
  BY DEF Issue
<1>2. FlBus'  BY <1>1 DEF FlInv, FlBus
<1>3. FlPhase'  BY <1>1, FlKeeps DEF FlInv, FlUntouched
<1> QED  BY <1>1, <1>2, <1>3 DEF FlInv, FlChip, FlFields

\* The master ends its cycle.
LEMMA FlDoesEndCycle ==
  ASSUME FlInv, EndCycle
  PROVE  FlInv'
<1>1. bus' = NoCycle /\ fl' = [fl EXCEPT !.req = FALSE] /\ UNCHANGED <<chip, want, misread>>
  BY DEF EndCycle
<1>2. FlBus'  BY <1>1 DEF FlBus, NoCycle
<1>3. /\ FlFields(fl') /\ fl'.pc = fl.pc /\ fl'.send = fl.send /\ fl'.cs = fl.cs /\ fl'.got = fl.got
      /\ fl'.addr = fl.addr /\ fl'.data = fl.data /\ fl'.we = fl.we /\ fl'.to = fl.to
      /\ fl'.wip = fl.wip
  BY <1>1 DEF FlInv, FlFields
<1>4. FlPhase'  BY <1>1, <1>3, FlKeeps DEF FlInv, FlUntouched
<1> QED  BY <1>1, <1>2, <1>3, <1>4 DEF FlInv, FlChip

\* Nothing of the flash side changes.
LEMMA FlRests ==
  ASSUME FlInv, UNCHANGED flashVars
  PROVE  FlInv'
<1>1. UNCHANGED <<chip, fl, bus, want, misread>>  BY DEF flashVars
<1>2. FlPhase'  BY <1>1, FlKeeps DEF FlInv, FlUntouched
<1> QED  BY <1>1, <1>2 DEF FlInv, FlChip, FlFields, FlBus

\* While the flash is selected and has the lines, the arbiter stays where it is.
LEMMA FlDoesArbitrate ==
  ASSUME FlInv, Arbitrate
  PROVE  FlInv'
<1>1. ~(owner = "flash" /\ fl.cs)
  BY DEF Arbitrate, NextOwner
<1>2. UNCHANGED flashVars  BY <1>1 DEF Arbitrate, flashVars
<1> QED  BY <1>2, FlRests

\* Every step keeps the invariant of the flash side.
LEMMA FlNext ==
  ASSUME FlInv, [Next]_vars
  PROVE  FlInv'
<1>1. CASE Flash
  BY <1>1, FlDoesAcceptRead, FlDoesAcceptWrite, FlDoesWriteEreg, FlDoesReadRegister, FlDoesPollWip,
     FlDoesStep, FlDoesWaitWip, FlDoesCheckWip, FlDoesWipDone, FlDoesWriteEnabled,
     FlDoesStartProgram, FlDoesSendWord, FlDoesNextWord, FlDoesEndProgram, FlDoesReadWord,
     FlDoesAbandonRead, FlDoesRegisterRead, FlDoesEraseEnabled, FlDoesSendErase, FlDoesEraseSent,
     FlDoesCheckIdle, FlDoesWaitIdle
     DEF Flash, FlashCtlStep
<1>2. CASE FlashChipDone  BY <1>2, FlDoesDone DEF FlashChipDone
<1>3. CASE Master  BY <1>3, FlDoesIssue, FlDoesEndCycle DEF Master
<1>4. CASE Arbitrate  BY <1>4, FlDoesArbitrate
<1>5. CASE SdExchange \/ SdEnd \/ SdGiveUp \/ SdPowerUp \/ Drive \/ UNCHANGED vars
  <2>1. UNCHANGED flashVars
    BY <1>5 DEF SdExchange, SdEnd, SdGiveUp, SdPowerUp, Drive, vars
  <2> QED  BY <2>1, FlRests
<1> QED  BY <1>1, <1>2, <1>3, <1>4, <1>5 DEF Next

\* What it says of the flash: no read was wrong, what was asked for has landed, and
\* no command was refused.
LEMMA FlSays ==
  ASSUME FlInv
  PROVE  ReadsWhatWasWritten /\ WritesLand /\ chip.state \notin {"INVALID", "ABORT"}
<1>1. ReadsWhatWasWritten  BY DEF FlInv, ReadsWhatWasWritten
<1>2. WritesLand
  <2> SUFFICES ASSUME fl.pc = "Idle", ~fl.wip PROVE chip.mem = want /\ ~chip.wip
    BY DEF WritesLand
  <2>1. FlIdle  BY FlAt DEF FlInv
  <2> QED  BY <2>1 DEF FlIdle, FlLands, FlKnows
<1>3. chip.state \notin {"INVALID", "ABORT"}
  <2>1. chip.state \in {"IDLE", "RDSR", "RDCR", "RDID", "PP", "FAST_READ", "SUBSECTOR_ERASE"}
    BY DEF FlInv, FlPhase, FlIdle, FlWaitWip, FlCheckWip, FlWipDone, FlWen, FlPP, FlWrData, FlWrBus,
           FlRead, FlStatus, FlRegister, FlEraseCmd, FlErase, FlEraseBlock, FlCheckIdle, FlWaitIdle,
           FlFree, FlParked, FlPolls, FlAsks, FlEnables, FlEnabled, FlProgramBegins, FlProgramTakes,
           FlProgramSends, FlSending, FlReads, FlErases
  <2> QED  BY <2>1
<1> QED  BY <1>1, <1>2, <1>3

-----------------------------------------------------------------------------
(* The controller of the SD card and the card.                             *)

\* Types of the card and of the controller's registers.
CdShape(c) ==
  c \in [idx : {c.idx}, cmd : {c.cmd}, arg : {c.arg}, alt : BOOLEAN, reset : {c.reset},
         power : {c.power}, rsp : {c.rsp}, dly : {c.dly}, blkdly : {c.blkdly}, blk : {c.blk},
         reading : BOOLEAN, token : BOOLEAN, rx : {c.rx}, out : {c.out}, failed : BOOLEAN]
CdRegs(s) ==
  s \in [busy : BOOLEAN, stb : BOOLEAN, state : {s.state}, rsp : {s.rsp}, have : BOOLEAN,
         useFifo : BOOLEAN, fifoWr : BOOLEAN, word : BOOLEAN, n : {s.n}, arg : {s.arg},
         dat : {s.dat}, r1 : {s.r1}, data : {s.data}, fifo : {s.fifo}, pos : {s.pos},
         started : BOOLEAN, full : BOOLEAN, crcErr : BOOLEAN, err : BOOLEAN]

CdBlock(s) == s = [i \in 1 .. BlockLen |-> s[i]]
CdTypes ==
  /\ CdShape(card) /\ CdRegs(sd) /\ CdBlock(sd.fifo)
  /\ ~card.failed /\ owner \in {"flash", "sd"}

\* What the driver asks for.
CdRequest(r) ==
  /\ r.n \in {0, 8, 55, 41, 58, 17, 24}
  /\ r.word \in BOOLEAN /\ r.useFifo \in BOOLEAN /\ r.fifoWr \in BOOLEAN
  /\ r.word <=> r.n \in {8, 58}
  /\ r.useFifo <=> r.n \in {17, 24}
  /\ r.fifoWr <=> r.n = 24
  /\ r.n = 17 => r.arg \in BlockAddr

\* The command that runs, or ran last, is the driver's.
CdAsked == CdRequest(last) /\ CdRequest(sd) /\ last.n = sd.n /\ last.arg = sd.arg

\* What the card must have seen before command n, and has seen after it.
CdReady(c, n) ==
  /\ c.alt <=> n = 41
  /\ n = 8 => c.reset \in {"CMD0", "CMD8"}
  /\ n \in {55, 41} => c.reset \in {"CMD8", "ACMD41"}
  /\ n = 58 => c.reset = "COMPLETE"
  /\ n \in {17, 24} => c.reset = "OPERATION"
CdDone(c, n, r1) ==
  /\ c.alt <=> n = 55
  /\ n = 0 => c.reset = "CMD0"
  /\ n = 8 => c.reset = "CMD8"
  /\ n = 55 => c.reset \in {"CMD8", "ACMD41"}
  /\ n = 41 => c.reset = IF r1 = 1 THEN "ACMD41" ELSE "COMPLETE"
  /\ n \in {58, 17, 24} => c.reset = "OPERATION"

\* The card says nothing.
CdQuiet ==
  /\ card.idx = 0 /\ card.rsp = <<>> /\ card.blk = <<>> /\ card.blkdly = 0 /\ card.dly = 0
  /\ ~card.reading /\ card.out = FF

\* What the controller has when a command ended without error.
CdAnswers ==
  /\ sd.r1 \in {0, 1} /\ CdDone(card, sd.n, sd.r1)
  /\ sd.n = 17 => sd.fifo = Blocks[sd.arg] /\ ~sd.crcErr
  /\ sd.n = 24 => sd.data = <<"resp", 5>>

\* No command yet; between two; one that begins; one that the watchdog gave up; one
\* under way.
CdNew == last.n = -1 /\ ~sd.busy /\ ~sd.stb /\ ~sd.err /\ CdQuiet /\ ~card.alt
CdIdle ==
  /\ CdAsked /\ ~sd.busy /\ ~sd.stb /\ CdQuiet
  /\ \/ sd.err /\ CdReady(card, sd.n)
     \/ ~sd.err /\ CdAnswers

CdBegin ==
  /\ sd.rsp = "NONE" /\ ~sd.have /\ sd.pos = 0 /\ ~sd.started /\ ~sd.full /\ ~sd.crcErr
  /\ sd.n = 24 => sd.fifo = WriteBlock
CdStarts ==
  /\ CdAsked /\ sd.busy /\ sd.stb /\ ~sd.err /\ CdBegin /\ CdQuiet /\ CdReady(card, sd.n)
  /\ sd.state = "Cmd" /\ sd.dat = <<"cmd", sd.n>>
CdGivenUp == CdAsked /\ sd.busy /\ ~sd.stb /\ sd.err /\ CdQuiet /\ CdReady(card, sd.n)

CdRuns == CdAsked /\ sd.busy /\ sd.stb /\ ~sd.err /\ owner = "sd"

\* The command is on its way.
CdSends ==
  /\ CdRuns /\ CdBegin /\ CdReady(card, sd.n)
  /\ card.rsp = <<>> /\ card.blk = <<>> /\ card.blkdly = 0 /\ card.dly = 0
  /\ ~card.reading /\ card.out = FF /\ card.cmd = sd.n
  /\ \/ card.idx = 1 /\ sd.state = "Arg" /\ sd.dat = <<"arg", sd.arg>>
     \/ card.idx = 2 /\ sd.state = "Crc" /\ sd.dat = CmdCrc(sd.n, sd.arg) /\ card.arg = sd.arg
     \/ card.idx = 3 /\ sd.state = "Wait" /\ sd.dat = FF /\ card.arg = sd.arg

\* The card has it; its answer comes.
CdStream(s) == <<<<"token", 0>>>> \o s \o <<BlockCrc(s)>>
CdHas == CdRuns /\ card.idx = 4 /\ card.dly \in Nat /\ card.blkdly \in Nat
\* The answer has not come; its first byte may be on the line.
CdDelays ==
  /\ CdHas /\ CdBegin /\ sd.n # 24 /\ sd.state = "Wait" /\ sd.dat = FF /\ ~card.reading
  /\ \E v \in {0, 1} :
       /\ CdDone(card, sd.n, v) /\ (sd.n = 17 => v = 0)
       /\ \/ /\ card.out = FF /\ card.rsp = <<<<"r1", v>>, card.rsp[2], FF>>
             /\ ~sd.word => card.rsp[2] = FF
          \/ /\ card.out = <<"r1", v>> /\ card.dly = 0 /\ card.rsp = <<card.rsp[1], FF>>
             /\ ~sd.word => card.rsp[1] = FF
  /\ sd.n = 17 => card.blk = CdStream(Blocks[sd.arg])
\* Its first byte has come, a word follows.
CdWord ==
  /\ CdHas /\ sd.word /\ sd.state = "Wait" /\ ~sd.have /\ sd.dat = FF /\ sd.rsp = "GETWORD"
  /\ ~card.reading /\ card.dly = 0 /\ card.rsp = <<FF>>
  /\ sd.r1 \in {0, 1} /\ CdDone(card, sd.n, sd.r1)

\* A block that is read: j of the bytes of its stream have been sent.
CdReads ==
  /\ CdHas /\ sd.n = 17 /\ sd.have /\ sd.state \in {"Wait", "Fifo"} /\ sd.dat = FF
  /\ sd.rsp = "WRITING" /\ sd.r1 = 0 /\ CdDone(card, sd.n, 0)
  /\ ~card.reading /\ card.dly = 0 /\ ~sd.crcErr
  /\ LET s == Blocks[sd.arg]
     IN \/ /\ card.rsp \in {<<>>, <<FF>>} /\ card.out = FF
           /\ card.blk = CdStream(s) /\ ~sd.started /\ sd.pos = 0 /\ ~sd.full
        \/ /\ card.rsp = <<>> /\ card.blkdly = 0 /\ ~sd.full
           /\ \E j \in 1 .. BlockLen + 2 :
                /\ card.out = CdStream(s)[j] /\ card.blk = SubSeq(CdStream(s), j + 1, BlockLen + 2)
                /\ sd.started <=> j > 1
                /\ sd.pos = IF j > 1 THEN j - 2 ELSE 0
                /\ \A i \in 1 .. sd.pos : sd.fifo[i] = s[i]
        \/ /\ card.rsp = <<>> /\ card.blkdly = 0 /\ card.blk = <<>>
           /\ sd.started /\ sd.full /\ sd.pos = BlockLen /\ sd.fifo = s

\* A block that is written.
CdWrites ==
  /\ CdHas /\ sd.n = 24 /\ sd.fifo = WriteBlock /\ card.reading /\ CdDone(card, sd.n, 0)
  /\ card.dly = 0 /\ card.blkdly = 0 /\ card.blk = <<>>
  /\ \/ /\ sd.state = "Wait" /\ sd.dat = FF /\ CdBegin /\ ~card.token /\ card.out = <<"r1", 0>>
     \/ /\ sd.rsp = "GETTOKEN" /\ sd.have /\ sd.r1 = 0 /\ card.out = FF
        /\ \/ sd.state = "Wait" /\ sd.dat = FF /\ sd.pos = 0 /\ ~card.token
           \/ sd.state = "Fifo" /\ sd.dat = <<"token", 0>> /\ sd.pos = 0 /\ ~card.token
           \/ /\ sd.state = "Fifo" /\ sd.pos \in 1 .. BlockLen /\ sd.dat = WriteBlock[sd.pos]
              /\ card.token /\ card.rx = SubSeq(WriteBlock, 1, sd.pos - 1)
           \/ /\ sd.state = "Fifo" /\ sd.pos = BlockLen + 1 /\ sd.dat = BlockCrc(WriteBlock)
              /\ card.token /\ card.rx = WriteBlock
\* The card has the whole block: it says so, the controller has heard it.
CdWritten ==
  /\ CdHas /\ sd.n = 24 /\ ~card.reading /\ CdDone(card, sd.n, 0)
  /\ card.dly = 0 /\ card.blkdly = 0 /\ card.blk = <<>>
  /\ sd.state = "Done" /\ sd.dat = FF /\ sd.pos = BlockLen + 1 /\ sd.have /\ sd.r1 = 0
  /\ \/ sd.rsp = "GETTOKEN" /\ card.out = <<"resp", 5>>
     \/ sd.rsp \in {"BUSY", "RDCOMPLETE"} /\ sd.data = <<"resp", 5>>

\* The command has ended, the chip select still has to rise.
CdOver ==
  /\ CdAsked /\ sd.busy /\ ~sd.stb /\ ~sd.err /\ owner = "sd" /\ CdAnswers
  /\ ~card.reading /\ card.dly = 0

CdPhase ==
  \/ CdNew \/ CdIdle \/ CdStarts \/ CdGivenUp \/ CdSends \/ CdDelays \/ CdWord
  \/ CdReads \/ CdWrites \/ CdWritten \/ CdOver

\* The invariant of the card's side.
CdInv == CdTypes /\ CdPhase

\* The bytes on the wire are told apart by their kinds.
LEMMA CdKinds ==
  ASSUME NEW a, NEW b
  PROVE  /\ FF[1] = "FF" /\ FF # <<"token", a>> /\ <<"r1", a>>[1] = "r1" /\ <<"r1", a>>[2] = a
         /\ <<"resp", a>>[1] = "resp" /\ <<"resp", a>>[2] = a /\ <<"token", a>>[1] = "token"
         /\ <<"cmd", a>>[1] = "cmd" /\ <<"cmd", a>>[2] = a
         /\ <<"arg", a>>[1] = "arg" /\ <<"arg", a>>[2] = a
  BY DEF FF

\* A byte of the card: what each phase of a command makes of it.
LEMMA CdCollects ==
  ASSUME NEW c, CdShape(c), ~c.failed, ~c.reading, NEW b,
         \/ c.idx = 0 /\ b[1] = "cmd"
         \/ c.idx = 1
         \/ c.idx = 2 /\ b = CmdCrc(c.cmd, c.arg)
  PROVE  LET e == CardByte(c, b)
         IN /\ CdShape(e) /\ ~e.failed /\ ~e.reading /\ e.out = FF /\ e.idx = c.idx + 1
            /\ e.cmd = (IF c.idx = 0 THEN b[2] ELSE c.cmd)
            /\ e.arg = (IF c.idx = 1 THEN b[2] ELSE c.arg)
            /\ e.alt = c.alt /\ e.reset = c.reset /\ e.rsp = c.rsp /\ e.dly = c.dly
            /\ e.blkdly = c.blkdly /\ e.blk = c.blk
<1> DEFINE o == FF  d == [c EXCEPT !.out = o]
<1> HIDE DEF o
<1>1. /\ CdShape(d) /\ ~d.failed /\ ~d.reading /\ d.out = o /\ d.idx = c.idx /\ d.cmd = c.cmd
      /\ d.arg = c.arg /\ d.alt = c.alt /\ d.reset = c.reset /\ d.rsp = c.rsp /\ d.dly = c.dly
      /\ d.blkdly = c.blkdly /\ d.blk = c.blk
  BY DEF CdShape
<1>2. CardByte(c, b) = CollectByte(d, b)
  BY DEF CardByte, o
<1> HIDE DEF d
<1>3. CASE c.idx = 0
  <2> DEFINE x == b[2]  e == [d EXCEPT !.idx = 1, !.cmd = x]
  <2>1. CollectByte(d, b) = e  BY <1>1, <1>3 DEF CollectByte, Require
  <2> HIDE DEF x
  <2>2. /\ CdShape(e) /\ ~e.failed /\ ~e.reading /\ e.out = o /\ e.idx = 1 /\ e.cmd = x
        /\ e.arg = c.arg /\ e.alt = c.alt /\ e.reset = c.reset /\ e.rsp = c.rsp /\ e.dly = c.dly
        /\ e.blkdly = c.blkdly /\ e.blk = c.blk
    BY <1>1 DEF CdShape
  <2> HIDE DEF e
  <2> QED  BY <1>2, <1>3, <2>1, <2>2 DEF x, o
<1>4. CASE c.idx = 1
  <2> DEFINE x == b[2]  e == [d EXCEPT !.idx = 2, !.arg = x]
  <2>1. CollectByte(d, b) = e  BY <1>1, <1>4 DEF CollectByte, Require
  <2> HIDE DEF x
  <2>2. /\ CdShape(e) /\ ~e.failed /\ ~e.reading /\ e.out = o /\ e.idx = 2 /\ e.cmd = c.cmd
        /\ e.arg = x /\ e.alt = c.alt /\ e.reset = c.reset /\ e.rsp = c.rsp /\ e.dly = c.dly
        /\ e.blkdly = c.blkdly /\ e.blk = c.blk
    BY <1>1 DEF CdShape
  <2> HIDE DEF e
  <2> QED  BY <1>2, <1>4, <2>1, <2>2 DEF x, o
<1>5. CASE c.idx = 2
  <2> DEFINE e == [d EXCEPT !.idx = 3]
  <2>1. CollectByte(d, b) = e  BY <1>1, <1>5 DEF CollectByte, Require
  <2>2. /\ CdShape(e) /\ ~e.failed /\ ~e.reading /\ e.out = o /\ e.idx = 3 /\ e.cmd = c.cmd
        /\ e.arg = c.arg /\ e.alt = c.alt /\ e.reset = c.reset /\ e.rsp = c.rsp /\ e.dly = c.dly
        /\ e.blkdly = c.blkdly /\ e.blk = c.blk
    BY <1>1 DEF CdShape
  <2> HIDE DEF e
  <2> QED  BY <1>2, <1>5, <2>1, <2>2 DEF o
<1> QED  BY <1>3, <1>4, <1>5

\* The answer that a command puts into the buffers.
LEMMA CdAnswer ==
  ASSUME NEW c, CdShape(c), NEW r, NEW w, NEW n
  PROVE  LET e == Answer(c, r, w, n)
         IN /\ CdShape(e) /\ e.rsp = <<<<"r1", r>>, w, FF>> /\ e.dly = n /\ e.blk = <<>> /\ e.blkdly = 0
            /\ e.failed = c.failed /\ e.reading = c.reading /\ e.out = c.out /\ e.idx = c.idx
            /\ e.alt = c.alt /\ e.reset = c.reset
<1> DEFINE x == <<<<"r1", r>>, w, FF>>  y == <<>>
           e == [c EXCEPT !.rsp = x, !.dly = n, !.blk = y, !.blkdly = 0]
<1>1. Answer(c, r, w, n) = e  BY DEF Answer
<1> HIDE DEF x, y
<1>2. /\ CdShape(e) /\ e.rsp = x /\ e.dly = n /\ e.blk = y /\ e.blkdly = 0
      /\ e.failed = c.failed /\ e.reading = c.reading /\ e.out = c.out /\ e.idx = c.idx
      /\ e.alt = c.alt /\ e.reset = c.reset
  BY DEF CdShape
<1> HIDE DEF e
<1> QED  BY <1>1, <1>2 DEF x, y

\* The same for the place in the card's initialisation.
LEMMA CdSetsReset ==
  ASSUME NEW c, CdShape(c), NEW x
  PROVE  LET e == [c EXCEPT !.reset = x]
         IN /\ CdShape(e) /\ e.rsp = c.rsp /\ e.dly = c.dly /\ e.blk = c.blk /\ e.blkdly = c.blkdly
            /\ e.failed = c.failed /\ e.reading = c.reading /\ e.out = c.out /\ e.idx = c.idx
            /\ e.alt = c.alt /\ e.reset = x
<1> DEFINE e == [c EXCEPT !.reset = x]
<1>1. CdShape(e)  BY DEF CdShape
<1> QED  BY <1>1 DEF CdShape

\* The card has the whole of a command.
CdTold(e, v, w) ==
  /\ CdShape(e) /\ ~e.failed /\ ~e.reading /\ e.out = FF /\ e.idx = 4
  /\ e.rsp = <<<<"r1", v>>, w, FF>> /\ e.dly \in Nat /\ e.blkdly \in Nat

\* An answer of one byte and a word is told.
LEMMA CdSays ==
  ASSUME NEW c, CdShape(c), ~c.failed, ~c.reading, c.out = FF, c.idx = 4, NEW v, NEW w,
         NEW n \in Nat
  PROVE  LET e == Answer(c, v, w, n)
         IN CdTold(e, v, w) /\ e.reset = c.reset /\ (e.alt <=> c.alt)
<1> DEFINE d == Answer(c, v, w, n)
<1>1. /\ CdShape(d) /\ d.rsp = <<<<"r1", v>>, w, FF>> /\ d.dly = n /\ d.blkdly = 0
      /\ d.failed = c.failed /\ d.reading = c.reading /\ d.out = c.out /\ d.idx = c.idx
      /\ d.alt = c.alt /\ d.reset = c.reset
  BY CdAnswer
<1> HIDE DEF d
<1>2. CdTold(d, v, w) /\ d.reset = c.reset /\ (d.alt <=> c.alt)  BY <1>1 DEF CdTold
<1> QED  BY <1>2 DEF d

\* It stays told whatever the place in the initialisation.
LEMMA CdTells ==
  ASSUME NEW c, NEW v, NEW w, CdTold(c, v, w), NEW x
  PROVE  LET e == [c EXCEPT !.reset = x]
         IN CdTold(e, v, w) /\ e.reset = x /\ (e.alt <=> c.alt)
<1> DEFINE e == [c EXCEPT !.reset = x]
<1>1. /\ CdShape(e) /\ e.rsp = c.rsp /\ e.dly = c.dly /\ e.blkdly = c.blkdly
      /\ e.failed = c.failed /\ e.reading = c.reading /\ e.out = c.out /\ e.idx = c.idx
      /\ e.alt = c.alt /\ e.reset = x
  BY CdSetsReset DEF CdTold
<1> HIDE DEF e
<1> QED  BY <1>1 DEF CdTold, e

\* The step at which the card takes the command.
LEMMA CdTakes ==
  ASSUME NEW c, CdShape(c), ~c.failed, ~c.reading, c.idx = 3, NEW b
  PROVE  \E d : /\ CardByte(c, b) = IF c.alt THEN AppCommand(d) ELSE Command(d)
                /\ CdShape(d) /\ ~d.failed /\ ~d.reading /\ d.out = FF /\ d.idx = 4
                /\ d.cmd = c.cmd /\ d.arg = c.arg /\ d.alt = c.alt /\ d.reset = c.reset
                /\ d.dly = c.dly /\ d.rsp = c.rsp /\ d.blk = c.blk /\ d.blkdly = c.blkdly
<1> DEFINE o == FF  f == [c EXCEPT !.out = o]  d == [f EXCEPT !.idx = 4]
<1> HIDE DEF o
<1>1. /\ CdShape(f) /\ ~f.failed /\ ~f.reading /\ f.out = o /\ f.idx = 3 /\ f.cmd = c.cmd
      /\ f.arg = c.arg /\ f.alt = c.alt /\ f.reset = c.reset /\ f.dly = c.dly /\ f.rsp = c.rsp
      /\ f.blk = c.blk /\ f.blkdly = c.blkdly
  BY DEF CdShape
<1> HIDE DEF f
<1>2. /\ CdShape(d) /\ ~d.failed /\ ~d.reading /\ d.out = o /\ d.idx = 4 /\ d.cmd = f.cmd
      /\ d.arg = f.arg /\ d.alt = f.alt /\ d.reset = f.reset /\ d.dly = f.dly /\ d.rsp = f.rsp
      /\ d.blk = f.blk /\ d.blkdly = f.blkdly
  BY <1>1 DEF CdShape
<1>3. CardByte(c, b) = IF f.alt THEN AppCommand(d) ELSE Command(d)
  BY <1>1 DEF CardByte, f, o
<1> HIDE DEF d
<1>4. CardByte(c, b) = IF c.alt THEN AppCommand(d) ELSE Command(d)  BY <1>1, <1>3
<1> QED  BY <1>1, <1>2, <1>4 DEF o

\* A command without data is answered, and leaves the card where it should be.
LEMMA CdPlain ==
  ASSUME NEW c, CdShape(c), ~c.failed, ~c.reading, c.idx = 3, NEW b, CdReady(c, c.cmd),
         c.cmd \in {0, 8, 55, 41, 58}
  PROVE  \E v \in {0, 1} : \E w :
           /\ CdTold(CardByte(c, b), v, w) /\ CdDone(CardByte(c, b), c.cmd, v)
           /\ c.cmd \notin {8, 58} => w = FF
<1> DEFINE x == CardByte(c, b)
<1> HIDE DEF x
<1> SUFFICES \E v \in {0, 1} : \E w : CdTold(x, v, w) /\ CdDone(x, c.cmd, v) /\ (c.cmd \notin {8, 58} => w = FF)
  BY DEF x
<1>1. PICK d : /\ x = IF c.alt THEN AppCommand(d) ELSE Command(d)
               /\ CdShape(d) /\ ~d.failed /\ ~d.reading /\ d.out = FF /\ d.idx = 4
               /\ d.cmd = c.cmd /\ d.arg = c.arg /\ (d.alt <=> c.alt) /\ d.reset = c.reset
  BY CdTakes DEF x
<1>2. Lag \in Nat  BY SdTimes
<1>3. CASE c.cmd = 0
  <2> DEFINE g == Answer(d, 1, FF, Lag)  e == [g EXCEPT !.reset = "CMD0"]
  <2>1. x = e  BY <1>1, <1>3 DEF CdReady, Command
  <2>2. CdTold(g, 1, FF) /\ (g.alt <=> d.alt)  BY <1>1, <1>2, CdSays
  <2> HIDE DEF g
  <2>3. CdTold(e, 1, FF) /\ e.reset = "CMD0" /\ (e.alt <=> g.alt)  BY <2>2, CdTells
  <2> HIDE DEF e
  <2>4. CdDone(e, c.cmd, 1)  BY <1>1, <1>3, <2>2, <2>3 DEF CdReady, CdDone
  <2> QED  BY <1>3, <2>1, <2>3, <2>4
<1>4. CASE c.cmd = 8
  <2> DEFINE w == <<"echo", d.arg>>  g == Answer(d, 0, w, Lag)  e == [g EXCEPT !.reset = "CMD8"]
  <2>1. x = e  BY <1>1, <1>4 DEF CdReady, Command, Require
  <2> HIDE DEF w
  <2>2. CdTold(g, 0, w) /\ (g.alt <=> d.alt)  BY <1>1, <1>2, CdSays
  <2> HIDE DEF g
  <2>3. CdTold(e, 0, w) /\ e.reset = "CMD8" /\ (e.alt <=> g.alt)  BY <2>2, CdTells
  <2> HIDE DEF e
  <2>4. CdDone(e, c.cmd, 0)  BY <1>1, <1>4, <2>2, <2>3 DEF CdReady, CdDone
  <2> QED  BY <1>4, <2>1, <2>3, <2>4
<1>5. CASE c.cmd = 55
  <2> DEFINE f == Answer(d, 0, FF, Lag)  e == [f EXCEPT !.alt = TRUE]
  <2>1. x = e  BY <1>1, <1>5 DEF CdReady, Command
  <2>2. /\ CdShape(f) /\ f.rsp = <<<<"r1", 0>>, FF, FF>> /\ f.dly = Lag /\ f.blkdly = 0
        /\ f.failed = d.failed /\ f.reading = d.reading /\ f.out = d.out /\ f.idx = d.idx
        /\ f.reset = d.reset
    BY <1>1, CdAnswer
  <2> HIDE DEF f
  <2>3. /\ CdShape(e) /\ e.rsp = f.rsp /\ e.dly = Lag /\ e.blkdly = 0 /\ e.failed = f.failed
        /\ e.reading = f.reading /\ e.out = f.out /\ e.idx = f.idx /\ e.reset = f.reset /\ e.alt
    BY <2>2 DEF CdShape
  <2> HIDE DEF e
  <2>4. CdTold(e, 0, FF)  BY <1>1, <1>2, <2>2, <2>3 DEF CdTold
  <2>5. CdDone(e, c.cmd, 0)  BY <1>1, <1>5, <2>2, <2>3 DEF CdReady, CdDone
  <2> QED  BY <1>5, <2>1, <2>4, <2>5
<1>6. CASE c.cmd = 41
  <2> DEFINE f == [d EXCEPT !.alt = FALSE]
  <2>1. /\ CdShape(f) /\ ~f.failed /\ ~f.reading /\ f.out = FF /\ f.idx = 4 /\ ~f.alt
    BY <1>1 DEF CdShape
  <2>2. CASE d.power = "up"
    <3> DEFINE g == Answer(f, 0, FF, Lag)  e == [g EXCEPT !.reset = "COMPLETE"]
    <3>1. x = e  BY <1>1, <1>6, <2>2 DEF CdReady, AppCommand, Require
    <3> HIDE DEF f
    <3>2. CdTold(g, 0, FF) /\ ~g.alt  BY <1>2, <2>1, CdSays
    <3> HIDE DEF g
    <3>3. CdTold(e, 0, FF) /\ e.reset = "COMPLETE" /\ ~e.alt  BY <3>2, CdTells
    <3> HIDE DEF e
    <3>4. CdDone(e, c.cmd, 0)  BY <1>6, <3>3 DEF CdDone
    <3> QED  BY <1>6, <3>1, <3>3, <3>4
  <2>3. CASE d.power # "up"
    <3> DEFINE h == Answer(f, 1, FF, Lag)  g == [h EXCEPT !.reset = "ACMD41"]
               e == [g EXCEPT !.power = "busy"]
    <3>1. x = AppCommand(d)  BY <1>1, <1>6 DEF CdReady
    <3>2. d.cmd = 41 /\ d.reset \in {"CMD8", "ACMD41", "COMPLETE"}  BY <1>1, <1>6 DEF CdReady
    <3>3. AppCommand(d) = e  BY <2>3, <3>2 DEF AppCommand, Require
    <3> HIDE DEF f
    <3>4. CdTold(h, 1, FF) /\ ~h.alt  BY <1>2, <2>1, CdSays
    <3> HIDE DEF h
    <3>5. CdTold(g, 1, FF) /\ g.reset = "ACMD41" /\ ~g.alt  BY <3>4, CdTells
    <3> HIDE DEF g
    <3>6. /\ CdShape(e) /\ e.rsp = g.rsp /\ e.dly = g.dly /\ e.blkdly = g.blkdly /\ e.failed = g.failed
          /\ e.reading = g.reading /\ e.out = g.out /\ e.idx = g.idx /\ e.reset = g.reset /\ e.alt = g.alt
      BY <3>5 DEF CdTold, CdShape
    <3> HIDE DEF e
    <3>7. CdTold(e, 1, FF) /\ CdDone(e, c.cmd, 1)
      BY <1>6, <3>5, <3>6 DEF CdTold, CdDone
    <3> QED  BY <1>6, <3>1, <3>3, <3>7
  <2> QED  BY <2>2, <2>3
<1>7. CASE c.cmd = 58
  <2> DEFINE w == <<"ocr", d.power>>  g == Answer(d, 0, w, Lag)  e == [g EXCEPT !.reset = "OPERATION"]
  <2>1. g.reset = "COMPLETE"  BY <1>1, <1>7, CdAnswer DEF CdReady
  <2>2. x = [g EXCEPT !.reset = IF @ = "COMPLETE" THEN "OPERATION" ELSE @]
    BY <1>1, <1>7 DEF CdReady, Command
  <2> HIDE DEF w
  <2>3. CdTold(g, 0, w) /\ (g.alt <=> d.alt)  BY <1>1, <1>2, CdSays
  <2> HIDE DEF g
  <2>4. x = e  BY <2>1, <2>2
  <2>5. CdTold(e, 0, w) /\ e.reset = "OPERATION" /\ (e.alt <=> g.alt)  BY <2>3, CdTells
  <2> HIDE DEF e
  <2>6. CdDone(e, c.cmd, 0)  BY <1>1, <1>7, <2>3, <2>5 DEF CdReady, CdDone
  <2> QED  BY <1>7, <2>4, <2>5, <2>6
<1> QED  BY <1>3, <1>4, <1>5, <1>6, <1>7

\* A block that is asked for is given out after the answer.
LEMMA CdBlockRead ==
  ASSUME NEW c, CdShape(c), ~c.failed, ~c.reading, c.idx = 3, NEW b, CdReady(c, 17), c.cmd = 17,
         c.dly = 0, c.arg \in BlockAddr
  PROVE  LET e == CardByte(c, b)
         IN CdTold(e, 0, FF) /\ CdDone(e, 17, 0) /\ e.blk = CdStream(Blocks[c.arg])
<1>1. PICK d : /\ CardByte(c, b) = IF c.alt THEN AppCommand(d) ELSE Command(d)
               /\ CdShape(d) /\ ~d.failed /\ ~d.reading /\ d.out = FF /\ d.idx = 4
               /\ d.cmd = c.cmd /\ d.arg = c.arg /\ d.alt = c.alt /\ d.reset = c.reset /\ d.dly = c.dly
  BY CdTakes
<1> DEFINE s == CdStream(Blocks[c.arg])  g == Answer(d, 0, FF, d.dly)
           e == [g EXCEPT !.blk = s, !.blkdly = Delay]
<1>2. CardByte(c, b) = e
  BY <1>1 DEF CdReady, Command, Require, AnswerBlock, CdStream
<1>3. /\ CdShape(g) /\ g.rsp = <<<<"r1", 0>>, FF, FF>> /\ g.dly = 0
      /\ ~g.failed /\ ~g.reading /\ g.out = FF /\ g.idx = 4 /\ g.alt = c.alt /\ g.reset = c.reset
  BY <1>1, CdAnswer
<1> HIDE DEF g, s
<1>4. /\ CdShape(e) /\ e.rsp = g.rsp /\ e.dly = 0 /\ e.blk = s /\ e.blkdly = Delay
      /\ ~e.failed /\ ~e.reading /\ e.out = g.out /\ e.idx = 4 /\ e.alt = g.alt /\ e.reset = g.reset
  BY <1>3 DEF CdShape
<1> HIDE DEF e
<1>5. CdTold(e, 0, FF)  BY <1>3, <1>4, SdTimes DEF CdTold
<1>6. CdDone(e, 17, 0)  BY <1>3, <1>4 DEF CdDone, CdReady
<1> QED  BY <1>2, <1>4, <1>5, <1>6 DEF s

\* A block to be written is waited for.
LEMMA CdBlockWrite ==
  ASSUME NEW c, CdShape(c), ~c.failed, ~c.reading, c.idx = 3, NEW b, CdReady(c, 24), c.cmd = 24,
         c.dly = 0
  PROVE  LET e == CardByte(c, b)
         IN /\ CdShape(e) /\ ~e.failed /\ e.reading /\ ~e.token /\ e.out = <<"r1", 0>> /\ e.idx = 4
            /\ e.dly = 0 /\ e.blkdly = 0 /\ e.blk = <<>> /\ CdDone(e, 24, 0)
<1>1. PICK d : /\ CardByte(c, b) = IF c.alt THEN AppCommand(d) ELSE Command(d)
               /\ CdShape(d) /\ ~d.failed /\ ~d.reading /\ d.out = FF /\ d.idx = 4
               /\ d.cmd = c.cmd /\ d.arg = c.arg /\ d.alt = c.alt /\ d.reset = c.reset /\ d.dly = c.dly
  BY CdTakes
<1> DEFINE r == <<FF, FF, FF>>  o == <<"r1", 0>>  g == Answer(d, 0, FF, d.dly)
           e == [g EXCEPT !.rsp = r, !.out = o, !.reading = TRUE, !.token = FALSE]
<1>2. CardByte(c, b) = e
  BY <1>1 DEF CdReady, Command
<1>3. /\ CdShape(g) /\ g.dly = 0 /\ g.blk = <<>> /\ g.blkdly = 0
      /\ ~g.failed /\ g.idx = 4 /\ g.alt = c.alt /\ g.reset = c.reset
  BY <1>1, CdAnswer
<1> HIDE DEF g, r, o
<1>4. /\ CdShape(e) /\ e.dly = 0 /\ e.blk = g.blk /\ e.blkdly = 0
      /\ ~e.failed /\ e.reading /\ ~e.token /\ e.out = o /\ e.idx = 4 /\ e.alt = g.alt /\ e.reset = g.reset
  BY <1>3 DEF CdShape
<1> HIDE DEF e
<1>5. CdDone(e, 24, 0)  BY <1>3, <1>4 DEF CdDone, CdReady
<1> QED  BY <1>2, <1>3, <1>4, <1>5 DEF o

\* The card answers: the delay, the bytes of the answer, the delay before the
\* block and the bytes of the block.
CdGoesOn(c, e) ==
  /\ CdShape(e) /\ ~e.failed /\ ~e.reading /\ e.idx = 4 /\ (e.alt <=> c.alt) /\ e.reset = c.reset
  /\ e.dly \in Nat /\ e.blkdly \in Nat

\* A byte of the answer, of the wait behind it, or of the block.
LEMMA CdResponds ==
  ASSUME NEW c, CdShape(c), ~c.failed, ~c.reading, c.idx = 4, c.dly \in Nat, c.blkdly \in Nat
  PROVE  LET e == CardByte(c, FF)
         IN /\ CdGoesOn(c, e)
            /\ c.dly > 0 =>
                 e.out = FF /\ e.rsp = c.rsp /\ e.blk = c.blk /\ e.blkdly = c.blkdly
            /\ c.dly = 0 /\ c.rsp # <<>> =>
                 /\ e.out = Head(c.rsp) /\ e.rsp = Tail(c.rsp) /\ e.blk = c.blk
                 /\ e.dly = 0 /\ e.blkdly = c.blkdly
            /\ c.dly = 0 /\ c.rsp = <<>> /\ c.blkdly > 0 =>
                 e.out = FF /\ e.rsp = <<>> /\ e.blk = c.blk /\ e.dly = 0
            /\ c.dly = 0 /\ c.rsp = <<>> /\ c.blkdly = 0 /\ c.blk # <<>> =>
                 /\ e.out = Head(c.blk) /\ e.blk = Tail(c.blk) /\ e.rsp = <<>>
                 /\ e.dly = 0 /\ e.blkdly = 0
            /\ c.dly = 0 /\ c.rsp = <<>> /\ c.blkdly = 0 /\ c.blk = <<>> =>
                 e.out = FF /\ e.blk = <<>> /\ e.rsp = <<>> /\ e.dly = 0 /\ e.blkdly = 0
<1> DEFINE o == FF  d == [c EXCEPT !.out = o]  x == CardByte(c, FF)
<1> HIDE DEF o
<1>1. /\ CdShape(d) /\ ~d.failed /\ ~d.reading /\ d.out = o /\ d.idx = 4 /\ (d.alt <=> c.alt)
      /\ d.reset = c.reset /\ d.dly = c.dly /\ d.rsp = c.rsp /\ d.blk = c.blk /\ d.blkdly = c.blkdly
  BY DEF CdShape
<1>2. x = Respond(d, FF)  BY <1>1 DEF CardByte, o
<1> HIDE DEF d, x
<1>3. CASE c.dly > 0
  <2> DEFINE n == d.dly - 1  e == [d EXCEPT !.dly = n]
  <2>1. x = e  BY <1>1, <1>2, <1>3 DEF Respond, Require
  <2>2. n \in Nat  BY <1>1, <1>3
  <2> HIDE DEF n
  <2>3. /\ CdShape(e) /\ ~e.failed /\ ~e.reading /\ e.out = o /\ e.idx = 4 /\ (e.alt <=> d.alt)
        /\ e.reset = d.reset /\ e.dly = n /\ e.rsp = d.rsp /\ e.blk = d.blk /\ e.blkdly = d.blkdly
    BY <1>1 DEF CdShape
  <2> HIDE DEF e
  <2>4. CdGoesOn(c, e)  BY <1>1, <2>2, <2>3 DEF CdGoesOn
  <2> QED  BY <1>1, <1>3, <2>1, <2>3, <2>4 DEF x, o
<1>4. CASE c.dly = 0 /\ c.rsp # <<>>
  <2> DEFINE h == Head(d.rsp)  r == Tail(d.rsp)  e == [d EXCEPT !.out = h, !.rsp = r]
  <2> DEFINE y == Require(d, FF = FF, d)
  <2>0. y = d  BY DEF Require
  <2> HIDE DEF y
  <2>5. x = [y EXCEPT !.out = h, !.rsp = Tail(@)]  BY <1>1, <1>2, <1>4 DEF Respond, y
  <2>1. x = e  BY <2>0, <2>5
  <2> HIDE DEF h, r
  <2>3. /\ CdShape(e) /\ ~e.failed /\ ~e.reading /\ e.out = h /\ e.idx = 4 /\ (e.alt <=> d.alt)
        /\ e.reset = d.reset /\ e.dly = d.dly /\ e.rsp = r /\ e.blk = d.blk /\ e.blkdly = d.blkdly
    BY <1>1 DEF CdShape
  <2> HIDE DEF e
  <2>4. CdGoesOn(c, e)  BY <1>1, <2>3 DEF CdGoesOn
  <2> QED  BY <1>1, <1>4, <2>1, <2>3, <2>4 DEF x, h, r
<1>5. CASE c.dly = 0 /\ c.rsp = <<>> /\ c.blkdly > 0
  <2> DEFINE n == d.blkdly - 1  e == [d EXCEPT !.blkdly = n]
  <2>1. x = e  BY <1>1, <1>2, <1>5 DEF Respond, Require
  <2>2. n \in Nat  BY <1>1, <1>5
  <2> HIDE DEF n
  <2>3. /\ CdShape(e) /\ ~e.failed /\ ~e.reading /\ e.out = o /\ e.idx = 4 /\ (e.alt <=> d.alt)
        /\ e.reset = d.reset /\ e.dly = d.dly /\ e.rsp = d.rsp /\ e.blk = d.blk /\ e.blkdly = n
    BY <1>1 DEF CdShape
  <2> HIDE DEF e
  <2>4. CdGoesOn(c, e)  BY <1>1, <2>2, <2>3 DEF CdGoesOn
  <2> QED  BY <1>1, <1>5, <2>1, <2>3, <2>4 DEF x, o
<1>6. CASE c.dly = 0 /\ c.rsp = <<>> /\ c.blkdly = 0 /\ c.blk # <<>>
  <2> DEFINE h == Head(d.blk)  r == Tail(d.blk)  e == [d EXCEPT !.out = h, !.blk = r]
  <2> DEFINE y == Require(d, FF = FF, d)
  <2>0. y = d  BY DEF Require
  <2> HIDE DEF y
  <2>5. x = [y EXCEPT !.out = h, !.blk = Tail(@)]  BY <1>1, <1>2, <1>6 DEF Respond, y
  <2>1. x = e  BY <2>0, <2>5
  <2> HIDE DEF h, r
  <2>3. /\ CdShape(e) /\ ~e.failed /\ ~e.reading /\ e.out = h /\ e.idx = 4 /\ (e.alt <=> d.alt)
        /\ e.reset = d.reset /\ e.dly = d.dly /\ e.rsp = d.rsp /\ e.blk = r /\ e.blkdly = d.blkdly
    BY <1>1 DEF CdShape
  <2> HIDE DEF e
  <2>4. CdGoesOn(c, e)  BY <1>1, <2>3 DEF CdGoesOn
  <2> QED  BY <1>1, <1>6, <2>1, <2>3, <2>4 DEF x, h, r
<1>7. CASE c.dly = 0 /\ c.rsp = <<>> /\ c.blkdly = 0 /\ c.blk = <<>>
  <2>1. x = d  BY <1>1, <1>2, <1>7 DEF Respond, Require
  <2>2. CdGoesOn(c, d)  BY <1>1 DEF CdGoesOn
  <2> QED  BY <1>1, <1>7, <2>1, <2>2 DEF x, o
<1> QED  BY <1>3, <1>4, <1>5, <1>6, <1>7

\* The card takes the bytes of a block.
CdTakesBlock(c, e) ==
  /\ CdShape(e) /\ ~e.failed /\ e.idx = c.idx /\ (e.alt <=> c.alt) /\ e.reset = c.reset
  /\ e.dly = c.dly /\ e.blk = c.blk /\ e.blkdly = c.blkdly

\* A byte of a block that is written: before the token, the token, a word of it, its
\* checksum.
LEMMA CdBlockBytes ==
  ASSUME NEW c, CdShape(c), ~c.failed, c.reading, NEW b
  PROVE  LET e == CardByte(c, b)
         IN /\ ~c.token /\ b # <<"token", 0>> =>
                 CdTakesBlock(c, e) /\ e.reading /\ ~e.token /\ e.out = FF
            /\ ~c.token /\ b = <<"token", 0>> =>
                 CdTakesBlock(c, e) /\ e.reading /\ e.token /\ e.out = FF /\ e.rx = <<>>
            /\ c.token /\ Len(c.rx) < BlockLen =>
                 CdTakesBlock(c, e) /\ e.reading /\ e.token /\ e.out = FF /\ e.rx = Append(c.rx, b)
            /\ c.token /\ ~(Len(c.rx) < BlockLen) /\ b = BlockCrc(c.rx) =>
                 CdTakesBlock(c, e) /\ ~e.reading /\ ~e.token /\ e.out = <<"resp", 5>>
<1> DEFINE o == FF  d == [c EXCEPT !.out = o]  x == CardByte(c, b)
<1> HIDE DEF o
<1>1. /\ CdShape(d) /\ ~d.failed /\ d.reading /\ d.out = o /\ d.idx = c.idx /\ (d.alt <=> c.alt)
      /\ d.reset = c.reset /\ d.dly = c.dly /\ d.blk = c.blk /\ d.blkdly = c.blkdly /\ d.rx = c.rx
      /\ (d.token <=> c.token)
  BY DEF CdShape
<1>2. x = BlockByte(d, b)  BY <1>1 DEF CardByte, o
<1> HIDE DEF d, x
<1>3. CASE ~c.token /\ b # <<"token", 0>>
  <2>1. x = d  BY <1>1, <1>2, <1>3 DEF BlockByte
  <2>2. CdTakesBlock(c, d)  BY <1>1 DEF CdTakesBlock
  <2> QED  BY <1>1, <1>3, <2>1, <2>2 DEF x, o
<1>4. CASE ~c.token /\ b = <<"token", 0>>
  <2> DEFINE r == <<>>  e == [d EXCEPT !.token = TRUE, !.rx = r]
  <2>1. x = e  BY <1>1, <1>2, <1>4 DEF BlockByte
  <2> HIDE DEF r
  <2>2. /\ CdShape(e) /\ ~e.failed /\ e.reading /\ e.out = o /\ e.idx = d.idx /\ (e.alt <=> d.alt)
        /\ e.reset = d.reset /\ e.dly = d.dly /\ e.blk = d.blk /\ e.blkdly = d.blkdly /\ e.rx = r /\ e.token
    BY <1>1 DEF CdShape
  <2> HIDE DEF e
  <2>3. CdTakesBlock(c, e)  BY <1>1, <2>2 DEF CdTakesBlock
  <2> QED  BY <1>4, <2>1, <2>2, <2>3 DEF x, o, r
<1>5. CASE c.token /\ Len(c.rx) < BlockLen
  <2> DEFINE r == Append(d.rx, b)  e == [d EXCEPT !.rx = r]
  <2>1. x = e  BY <1>1, <1>2, <1>5 DEF BlockByte
  <2> HIDE DEF r
  <2>2. /\ CdShape(e) /\ ~e.failed /\ e.reading /\ e.out = o /\ e.idx = d.idx /\ (e.alt <=> d.alt)
        /\ e.reset = d.reset /\ e.dly = d.dly /\ e.blk = d.blk /\ e.blkdly = d.blkdly /\ e.rx = r /\ e.token
    BY <1>1, <1>5 DEF CdShape
  <2> HIDE DEF e
  <2>3. CdTakesBlock(c, e)  BY <1>1, <2>2 DEF CdTakesBlock
  <2>4. r = Append(c.rx, b)  BY <1>1 DEF r
  <2> QED  BY <1>5, <2>1, <2>2, <2>3, <2>4 DEF x, o
<1>6. CASE c.token /\ ~(Len(c.rx) < BlockLen) /\ b = BlockCrc(c.rx)
  <2> DEFINE p == <<"resp", 5>>  e == [d EXCEPT !.reading = FALSE, !.token = FALSE, !.out = p]
  <2>1. x = e  BY <1>1, <1>2, <1>6 DEF BlockByte, Require
  <2> HIDE DEF p
  <2>2. /\ CdShape(e) /\ ~e.failed /\ ~e.reading /\ e.out = p /\ e.idx = d.idx /\ (e.alt <=> d.alt)
        /\ e.reset = d.reset /\ e.dly = d.dly /\ e.blk = d.blk /\ e.blkdly = d.blkdly /\ ~e.token
    BY <1>1 DEF CdShape
  <2> HIDE DEF e
  <2>3. CdTakesBlock(c, e)  BY <1>1, <2>2 DEF CdTakesBlock
  <2> QED  BY <1>6, <2>1, <2>2, <2>3 DEF x, p
<1> QED  BY <1>3, <1>4, <1>5, <1>6

\* A byte of a block that is read.
LEMMA CdSendsBlock ==
  ASSUME NEW c, CdShape(c), ~c.failed, ~c.reading, c.idx = 4, c.dly = 0, c.rsp = <<>>,
         c.blkdly = 0, c.blk # <<>>, NEW e, e = CardByte(c, FF)
  PROVE  /\ CdGoesOn(c, e) /\ e.out = Head(c.blk) /\ e.blk = Tail(c.blk) /\ e.rsp = <<>>
         /\ e.dly = 0 /\ e.blkdly = 0
<1>1. c.dly \in Nat /\ c.blkdly \in Nat  OBVIOUS
<1>2. /\ CdGoesOn(c, e)
      /\ c.dly = 0 /\ c.rsp = <<>> /\ c.blkdly = 0 /\ c.blk # <<>> =>
                 /\ e.out = Head(c.blk) /\ e.blk = Tail(c.blk) /\ e.rsp = <<>>
                 /\ e.dly = 0 /\ e.blkdly = 0
  BY <1>1, CdResponds
<1> QED  BY <1>2

\* The serial port takes a byte: the state machine goes on to the next.
CdAccepted(s, t) ==
  /\ CdRegs(t)
  /\ (t.busy <=> s.busy) /\ (t.stb <=> s.stb) /\ t.rsp = s.rsp /\ (t.have <=> s.have)
  /\ (t.useFifo <=> s.useFifo) /\ (t.fifoWr <=> s.fifoWr) /\ (t.word <=> s.word) /\ t.n = s.n
  /\ t.arg = s.arg /\ t.r1 = s.r1 /\ t.data = s.data /\ t.fifo = s.fifo
  /\ (t.started <=> s.started) /\ (t.full <=> s.full) /\ (t.crcErr <=> s.crcErr) /\ (t.err <=> s.err)

\* The controller goes on by one byte when the line takes one.
LEMMA CdAccepts ==
  ASSUME NEW s, CdRegs(s), s.pos \in Nat, BlockLen \in Nat
  PROVE  LET t == Accepted(s)
         IN /\ CdAccepted(s, t)
            /\ s.state = "Cmd" => t.state = "Arg" /\ t.dat = <<"arg", s.arg>> /\ t.pos = s.pos
            /\ s.state = "Arg" => t.state = "Crc" /\ t.dat = CmdCrc(s.n, s.arg) /\ t.pos = s.pos
            /\ s.state = "Crc" => t.state = "Wait" /\ t.dat = FF /\ t.pos = s.pos
            /\ s.state = "Wait" /\ ~s.have => t.state = "Wait" /\ t.dat = FF /\ t.pos = s.pos
            /\ s.state = "Wait" /\ s.have /\ s.useFifo =>
                 /\ t.state = "Fifo" /\ t.pos = s.pos
                 /\ t.dat = IF s.fifoWr THEN <<"token", 0>> ELSE FF
            /\ s.state = "Fifo" /\ s.fifoWr /\ s.pos < BlockLen =>
                 t.state = "Fifo" /\ t.dat = s.fifo[s.pos + 1] /\ t.pos = s.pos + 1
            /\ s.state = "Fifo" /\ s.fifoWr /\ s.pos = BlockLen =>
                 t.state = "Fifo" /\ t.dat = BlockCrc(s.fifo) /\ t.pos = s.pos + 1
            /\ s.state = "Fifo" /\ s.fifoWr /\ s.pos > BlockLen =>
                 t.state = "Done" /\ t.dat = FF /\ t.pos = s.pos
            /\ s.state = "Fifo" /\ ~s.fifoWr => t.state = "Fifo" /\ t.dat = FF /\ t.pos = s.pos
            /\ s.state = "Done" => t.state = "Done" /\ t.dat = FF /\ t.pos = s.pos
<1> DEFINE t == Accepted(s)
<1>1. CASE s.state = "Cmd"
  <2> DEFINE y == <<"arg", s.arg>>
             e == [s EXCEPT !.state = "Arg", !.dat = y]
  <2>1. t = e  BY <1>1 DEF Accepted
  <2> HIDE DEF t, y
  <2>2. CdRegs(e) /\ e.state = "Arg" /\ e.dat = y /\ e.pos = s.pos  BY DEF CdRegs
  <2>3. CdAccepted(s, e)  BY <2>2 DEF CdRegs, CdAccepted
  <2> HIDE DEF e
  <2> QED  BY <1>1, <2>1, <2>2, <2>3 DEF t, y
<1>2. CASE s.state = "Arg"
  <2> DEFINE y == CmdCrc(s.n, s.arg)
             e == [s EXCEPT !.state = "Crc", !.dat = y]
  <2>1. t = e  BY <1>2 DEF Accepted
  <2> HIDE DEF t, y
  <2>2. CdRegs(e) /\ e.state = "Crc" /\ e.dat = y /\ e.pos = s.pos  BY DEF CdRegs
  <2>3. CdAccepted(s, e)  BY <2>2 DEF CdRegs, CdAccepted
  <2> HIDE DEF e
  <2> QED  BY <1>2, <2>1, <2>2, <2>3 DEF t, y
<1>3. CASE s.state = "Crc"
  <2> DEFINE y == FF
             e == [s EXCEPT !.state = "Wait", !.dat = y]
  <2>1. t = e  BY <1>3 DEF Accepted
  <2> HIDE DEF t, y
  <2>2. CdRegs(e) /\ e.state = "Wait" /\ e.dat = y /\ e.pos = s.pos  BY DEF CdRegs
  <2>3. CdAccepted(s, e)  BY <2>2 DEF CdRegs, CdAccepted
  <2> HIDE DEF e
  <2> QED  BY <1>3, <2>1, <2>2, <2>3 DEF t, y
<1>4. CASE s.state = "Wait" /\ s.have
  <2> DEFINE z == IF s.useFifo THEN "Fifo" ELSE "Done"
             y == IF s.useFifo /\ s.fifoWr THEN <<"token", 0>> ELSE FF
             e == [s EXCEPT !.state = z, !.dat = y]
  <2>1. t = e  BY <1>4 DEF Accepted
  <2> HIDE DEF t, y, z
  <2>2. CdRegs(e) /\ e.state = z /\ e.dat = y /\ e.pos = s.pos  BY DEF CdRegs
  <2>3. CdAccepted(s, e)  BY <2>2 DEF CdRegs, CdAccepted
  <2> HIDE DEF e
  <2> QED  BY <1>4, <2>1, <2>2, <2>3 DEF t, y, z
<1>5. CASE s.state = "Fifo" /\ s.fifoWr /\ s.pos < BlockLen
  <2> DEFINE y == s.fifo[s.pos + 1]  z == s.pos + 1
             e == [s EXCEPT !.dat = y, !.pos = z]
  <2>1. t = e  BY <1>5 DEF Accepted
  <2> HIDE DEF t, y, z
  <2>2. CdRegs(e) /\ e.state = s.state /\ e.dat = y /\ e.pos = z  BY DEF CdRegs
  <2>3. CdAccepted(s, e)  BY <2>2 DEF CdRegs, CdAccepted
  <2> HIDE DEF e
  <2> QED  BY <1>5, <2>1, <2>2, <2>3 DEF t, y, z
<1>6. CASE s.state = "Fifo" /\ s.fifoWr /\ s.pos = BlockLen
  <2> DEFINE y == BlockCrc(s.fifo)  z == s.pos + 1
             e == [s EXCEPT !.dat = y, !.pos = z]
  <2>1. t = e  BY <1>6 DEF Accepted
  <2> HIDE DEF t, y, z
  <2>2. CdRegs(e) /\ e.state = s.state /\ e.dat = y /\ e.pos = z  BY DEF CdRegs
  <2>3. CdAccepted(s, e)  BY <2>2 DEF CdRegs, CdAccepted
  <2> HIDE DEF e
  <2> QED  BY <1>6, <2>1, <2>2, <2>3 DEF t, y, z
<1>7. CASE s.state = "Fifo" /\ s.fifoWr /\ s.pos > BlockLen
  <2> DEFINE y == FF
             e == [s EXCEPT !.state = "Done", !.dat = y]
  <2>1. t = e  BY <1>7 DEF Accepted
  <2> HIDE DEF t, y
  <2>2. CdRegs(e) /\ e.state = "Done" /\ e.dat = y /\ e.pos = s.pos  BY DEF CdRegs
  <2>3. CdAccepted(s, e)  BY <2>2 DEF CdRegs, CdAccepted
  <2> HIDE DEF e
  <2> QED  BY <1>7, <2>1, <2>2, <2>3 DEF t, y
<1>8. CASE \/ s.state = "Wait" /\ ~s.have
           \/ s.state = "Fifo" /\ ~s.fifoWr
           \/ s.state \notin {"Cmd", "Arg", "Crc", "Wait", "Fifo"}
  <2> DEFINE y == FF
             e == [s EXCEPT !.dat = y]
  <2>1. t = e  BY <1>8 DEF Accepted
  <2> HIDE DEF t, y
  <2>2. CdRegs(e) /\ e.state = s.state /\ e.dat = y /\ e.pos = s.pos  BY DEF CdRegs
  <2>3. CdAccepted(s, e)  BY <2>2 DEF CdRegs, CdAccepted
  <2> HIDE DEF e
  <2> QED  BY <1>8, <2>1, <2>2, <2>3 DEF t, y
<1>9. \/ s.state \in {"Cmd", "Arg", "Crc"}
      \/ s.state = "Wait" /\ s.have
      \/ s.state = "Fifo" /\ s.fifoWr /\ s.pos < BlockLen
      \/ s.state = "Fifo" /\ s.fifoWr /\ s.pos = BlockLen
      \/ s.state = "Fifo" /\ s.fifoWr /\ s.pos > BlockLen
      \/ s.state = "Wait" /\ ~s.have
      \/ s.state = "Fifo" /\ ~s.fifoWr
      \/ s.state \notin {"Cmd", "Arg", "Crc", "Wait", "Fifo"}
  <2>1. s.pos < BlockLen \/ s.pos = BlockLen \/ s.pos > BlockLen  OBVIOUS
  <2> QED  BY <2>1
<1> QED  BY <1>1, <1>2, <1>3, <1>4, <1>5, <1>6, <1>7, <1>8, <1>9

\* The response machine looks at a byte.
CdHeard(s, t) ==
  /\ CdRegs(t)
  /\ (t.busy <=> s.busy) /\ t.state = s.state /\ t.dat = s.dat
  /\ (t.useFifo <=> s.useFifo) /\ (t.fifoWr <=> s.fifoWr) /\ (t.word <=> s.word) /\ t.n = s.n
  /\ t.arg = s.arg /\ (t.err <=> s.err)
CdNoData(s, t) ==
  /\ t.fifo = s.fifo /\ t.pos = s.pos
  /\ (t.started <=> s.started) /\ (t.full <=> s.full) /\ (t.crcErr <=> s.crcErr)

\* Bytes that the controller does not listen to.
LEMMA CdHearsNone ==
  ASSUME NEW s, CdRegs(s), NEW rx,
         \/ s.state \in {"Cmd", "Arg", "Crc"}
         \/ s.rsp = "NONE" /\ rx[1] \notin {"r1", "resp"}
         \/ s.rsp = "GETTOKEN" /\ rx[1] # "resp"
  PROVE  Received(s, rx) = s /\ CdHeard(s, s)
<1>1. Received(s, rx) = s  BY DEF Received
<1>2. CdHeard(s, s)  BY DEF CdHeard
<1> QED  BY <1>1, <1>2

\* The first byte of an answer.
LEMMA CdHearsAnswer ==
  ASSUME NEW s, CdRegs(s), s.state = "Wait", s.rsp = "NONE", NEW v
  PROVE  LET t == Received(s, <<"r1", v>>)
         IN /\ CdHeard(s, t) /\ CdNoData(s, t) /\ t.data = s.data /\ t.r1 = v
            /\ t.have <=> ~s.word
            /\ t.stb <=> s.word \/ s.useFifo
            /\ t.rsp = IF s.word THEN "GETWORD"
                       ELSE IF s.useFifo /\ s.fifoWr THEN "GETTOKEN" ELSE "WRITING"
<1> DEFINE b == <<"r1", v>>  t == Received(s, b)  x == b[2]
           q == IF s.word THEN "GETWORD"
                ELSE IF s.useFifo /\ s.fifoWr THEN "GETTOKEN" ELSE "WRITING"
           e == [s EXCEPT !.r1 = x, !.rsp = q, !.have = ~s.word, !.stb = s.word \/ s.useFifo]
<1>0. b[1] = "r1" /\ x = v  BY CdKinds
<1> HIDE DEF b, x
<1>1. t = e  BY <1>0 DEF Received, x
<1> HIDE DEF q, t
<1>2. /\ CdRegs(e) /\ e.r1 = x /\ e.rsp = q /\ (e.have <=> ~s.word) /\ (e.stb <=> s.word \/ s.useFifo)
      /\ e.data = s.data
  BY DEF CdRegs
<1>3. CdHeard(s, e)  BY <1>2 DEF CdRegs, CdHeard
<1>4. CdNoData(s, e)  BY DEF CdRegs, CdNoData
<1> HIDE DEF e
<1>5. CdHeard(s, t) /\ CdNoData(s, t) /\ t.data = s.data /\ t.r1 = v
  BY <1>0, <1>1, <1>2, <1>3, <1>4
<1>6. (t.have <=> ~s.word) /\ (t.stb <=> s.word \/ s.useFifo) /\ t.rsp = q
  BY <1>1, <1>2
<1> QED  BY <1>5, <1>6 DEF t, b, q

\* The bytes after it: a word, the acceptance of a block, the end of a wait.
LEMMA CdHearsMore ==
  ASSUME NEW s, CdRegs(s), s.state \notin {"Cmd", "Arg", "Crc"}, NEW rx
  PROVE  LET t == Received(s, rx)
         IN /\ s.rsp = "GETWORD" =>
                 /\ CdHeard(s, t) /\ CdNoData(s, t) /\ t.r1 = s.r1 /\ (t.stb <=> s.useFifo)
            /\ s.rsp = "GETTOKEN" /\ rx[1] = "resp" =>
                 /\ CdHeard(s, t) /\ CdNoData(s, t) /\ t.r1 = s.r1 /\ (t.stb <=> s.stb)
                 /\ t.data = rx /\ t.rsp = "BUSY" /\ (t.have <=> s.have)
            /\ s.rsp = "BUSY" =>
                 /\ CdHeard(s, t) /\ CdNoData(s, t) /\ t.r1 = s.r1 /\ (t.stb <=> s.stb)
                 /\ t.data = s.data /\ t.rsp = "RDCOMPLETE" /\ (t.have <=> s.have)
            /\ s.rsp = "RDCOMPLETE" \/ (s.rsp = "WRITING" /\ s.full) =>
                 /\ CdHeard(s, t) /\ CdNoData(s, t) /\ t.r1 = s.r1 /\ ~t.stb
                 /\ t.data = s.data
<1> DEFINE t == Received(s, rx)
<1>1. CASE s.rsp = "GETWORD"
  <2> DEFINE e == [s EXCEPT !.data = rx, !.stb = s.useFifo, !.rsp = "RDCOMPLETE"]
  <2>1. t = e  BY <1>1 DEF Received
  <2>2. CdRegs(e) /\ e.r1 = s.r1 /\ (e.stb <=> s.useFifo)  BY DEF CdRegs
  <2>3. CdHeard(s, e)  BY <2>2 DEF CdRegs, CdHeard
  <2>4. CdNoData(s, e)  BY DEF CdRegs, CdNoData
  <2> HIDE DEF t, e
  <2> QED  BY <1>1, <2>1, <2>2, <2>3, <2>4 DEF t
<1>2. CASE s.rsp = "GETTOKEN" /\ rx[1] = "resp"
  <2> DEFINE e == [s EXCEPT !.data = rx, !.rsp = "BUSY"]
  <2>1. t = e  BY <1>2 DEF Received
  <2>2. CdRegs(e) /\ e.r1 = s.r1 /\ (e.stb <=> s.stb) /\ e.data = rx /\ e.rsp = "BUSY" /\ (e.have <=> s.have)
    BY DEF CdRegs
  <2>3. CdHeard(s, e)  BY <2>2 DEF CdRegs, CdHeard
  <2>4. CdNoData(s, e)  BY DEF CdRegs, CdNoData
  <2> HIDE DEF t, e
  <2> QED  BY <1>2, <2>1, <2>2, <2>3, <2>4 DEF t
<1>3. CASE s.rsp = "BUSY"
  <2> DEFINE e == [s EXCEPT !.rsp = "RDCOMPLETE"]
  <2>1. t = e  BY <1>3 DEF Received
  <2>2. CdRegs(e) /\ e.r1 = s.r1 /\ (e.stb <=> s.stb) /\ e.data = s.data /\ e.rsp = "RDCOMPLETE" /\ (e.have <=> s.have)
    BY DEF CdRegs
  <2>3. CdHeard(s, e)  BY <2>2 DEF CdRegs, CdHeard
  <2>4. CdNoData(s, e)  BY DEF CdRegs, CdNoData
  <2> HIDE DEF t, e
  <2> QED  BY <1>3, <2>1, <2>2, <2>3, <2>4 DEF t
<1>4. CASE s.rsp = "RDCOMPLETE" \/ (s.rsp = "WRITING" /\ s.full)
  <2> DEFINE e == [s EXCEPT !.stb = FALSE]
  <2>1. t = e  BY <1>4 DEF Received
  <2>2. CdRegs(e) /\ e.r1 = s.r1 /\ ~e.stb /\ e.data = s.data  BY DEF CdRegs
  <2>3. CdHeard(s, e)  BY <2>2 DEF CdRegs, CdHeard
  <2>4. CdNoData(s, e)  BY DEF CdRegs, CdNoData
  <2> HIDE DEF t, e
  <2> QED  BY <1>4, <2>1, <2>2, <2>3, <2>4 DEF t
<1> QED  BY <1>1, <1>2, <1>3, <1>4

\* A byte of a block that is read.
CdStores(s, t) ==
  CdHeard(s, t) /\ t.rsp = s.rsp /\ t.r1 = s.r1 /\ (t.stb <=> s.stb) /\ (t.have <=> s.have)

\* A byte of a block goes into the FIFO, and the last is compared with its checksum.
LEMMA CdHearsBlock ==
  ASSUME NEW s, CdRegs(s), s.state \notin {"Cmd", "Arg", "Crc"}, s.rsp = "WRITING", ~s.full,
         s.pos \in Nat, BlockLen \in Nat, NEW rx
  PROVE  LET t == Received(s, rx)
         IN /\ ~s.started =>
                 /\ CdStores(s, t) /\ t.fifo = s.fifo /\ t.pos = s.pos /\ ~t.full
                 /\ (t.crcErr <=> s.crcErr) /\ (t.started <=> rx = <<"token", 0>>)
            /\ s.started /\ s.pos < BlockLen =>
                 /\ CdStores(s, t) /\ t.fifo = [s.fifo EXCEPT ![s.pos + 1] = rx]
                 /\ t.pos = s.pos + 1 /\ ~t.full /\ (t.crcErr <=> s.crcErr) /\ t.started
            /\ s.started /\ s.pos = BlockLen =>
                 /\ CdStores(s, t) /\ t.fifo = s.fifo
                 /\ t.pos = s.pos /\ t.full /\ (t.crcErr <=> rx # BlockCrc(s.fifo)) /\ t.started
<1> DEFINE t == Received(s, rx)
<1>0. t = StoreByte(s, rx)  BY DEF Received
<1>1. CASE ~s.started
  <2> DEFINE e == [s EXCEPT !.started = (rx = <<"token", 0>>)]
  <2>1. t = e  BY <1>0, <1>1 DEF StoreByte
  <2>2. /\ CdRegs(e) /\ e.r1 = s.r1 /\ (e.stb <=> s.stb) /\ e.rsp = s.rsp /\ (e.have <=> s.have)
        /\ e.fifo = s.fifo /\ e.pos = s.pos /\ ~e.full /\ (e.crcErr <=> s.crcErr)
        /\ (e.started <=> rx = <<"token", 0>>)
    BY DEF CdRegs
  <2>3. CdHeard(s, e)  BY <2>2 DEF CdRegs, CdHeard
  <2>4. CdStores(s, e)  BY <2>2, <2>3 DEF CdStores
  <2> HIDE DEF t, e
  <2> QED  BY <1>1, <2>1, <2>2, <2>4 DEF t
<1>2. CASE s.started /\ s.pos < BlockLen
  <2> DEFINE g == [s.fifo EXCEPT ![s.pos + 1] = rx]  p == s.pos + 1
             e == [s EXCEPT !.fifo = g, !.pos = p]
  <2>1. t = e  BY <1>0, <1>2 DEF StoreByte
  <2> HIDE DEF g, p
  <2>2. /\ CdRegs(e) /\ e.r1 = s.r1 /\ (e.stb <=> s.stb) /\ e.rsp = s.rsp /\ (e.have <=> s.have)
        /\ e.fifo = g /\ e.pos = p /\ ~e.full /\ (e.crcErr <=> s.crcErr) /\ e.started
    BY <1>2 DEF CdRegs
  <2>3. CdHeard(s, e)  BY <2>2 DEF CdRegs, CdHeard
  <2>4. CdStores(s, e)  BY <2>2, <2>3 DEF CdStores
  <2> HIDE DEF t, e
  <2> QED  BY <1>2, <2>1, <2>2, <2>4 DEF t, g, p
<1>3. CASE s.started /\ s.pos = BlockLen
  <2> DEFINE e == [s EXCEPT !.full = TRUE, !.crcErr = (rx # BlockCrc(s.fifo))]
  <2>1. t = e  BY <1>0, <1>3 DEF StoreByte
  <2>2. /\ CdRegs(e) /\ e.r1 = s.r1 /\ (e.stb <=> s.stb) /\ e.rsp = s.rsp /\ (e.have <=> s.have)
        /\ e.fifo = s.fifo /\ e.pos = s.pos /\ e.full /\ (e.crcErr <=> rx # BlockCrc(s.fifo))
        /\ e.started
    BY <1>3 DEF CdRegs
  <2>3. CdHeard(s, e)  BY <2>2 DEF CdRegs, CdHeard
  <2>4. CdStores(s, e)  BY <2>2, <2>3 DEF CdStores
  <2> HIDE DEF t, e
  <2> QED  BY <1>3, <2>1, <2>2, <2>4 DEF t
<1> QED  BY <1>1, <1>2, <1>3

\* A block is a sequence of BlockLen words.
LEMMA CdBlocks ==
  /\ BlockLen \in Nat /\ BlockLen > 0
  /\ \A s \in {WriteBlock} \cup {Blocks[b] : b \in BlockAddr} :
       CdBlock(s) /\ s \in Seq({s[i] : i \in 1 .. BlockLen}) /\ Len(s) = BlockLen
<1>1. /\ BlockLen \in Nat /\ BlockLen > 0
      /\ \A s \in {WriteBlock} \cup {Blocks[b] : b \in BlockAddr} : CdBlock(s)
  BY BlocksAssumption DEF CdBlock
<1>2. ASSUME NEW s, CdBlock(s)
      PROVE  s \in Seq({s[i] : i \in 1 .. BlockLen}) /\ Len(s) = BlockLen
  <2> DEFINE T == {s[i] : i \in 1 .. BlockLen}
  <2>1. \A i \in 1 .. BlockLen : s[i] \in T  OBVIOUS
  <2> HIDE DEF T
  <2>2. [i \in 1 .. BlockLen |-> s[i]] \in [1 .. BlockLen -> T]  BY <2>1
  <2>3. s \in [1 .. BlockLen -> T]  BY <1>2, <2>2 DEF CdBlock
  <2>4. s \in Seq(T) /\ Len(s) = BlockLen  BY <1>1, <2>3
  <2> QED  BY <2>4 DEF T
<1> QED  BY <1>1, <1>2

\* What is left of a sequence as it is sent.
LEMMA CdLeft ==
  ASSUME NEW S, NEW s \in Seq(S), NEW j \in 1 .. Len(s)
  PROVE  LET t == SubSeq(s, j, Len(s))
         IN t # <<>> /\ Head(t) = s[j] /\ Tail(t) = SubSeq(s, j + 1, Len(s))
<1> DEFINE n == Len(s)  t == SubSeq(s, j, n)
<1>1. n \in Nat /\ j \in Int /\ 1 <= j /\ j <= n  OBVIOUS
<1>2. \A i \in j .. n : s[i] \in S  BY <1>1
<1>3. t \in Seq(S) /\ Len(t) = n - j + 1
  BY <1>1, <1>2, SubSeqProperties
<1>4. t # <<>>  BY <1>1, <1>3
<1>5. Head(t) = s[j] /\ Tail(t) = SubSeq(s, j + 1, n)  BY <1>1, HeadTailOfSubSeq
<1> QED  BY <1>4, <1>5

\* What has been taken of a sequence that comes word by word.
LEMMA CdTaken ==
  ASSUME NEW S, NEW s \in Seq(S)
  PROVE  /\ SubSeq(s, 1, 0) = <<>> /\ SubSeq(s, 1, Len(s)) = s
         /\ \A k \in 1 .. Len(s) : /\ Len(SubSeq(s, 1, k - 1)) = k - 1
                                   /\ Append(SubSeq(s, 1, k - 1), s[k]) = SubSeq(s, 1, k)
<1>1. SubSeq(s, 1, 0) = <<>>  BY SubSeqProperties
<1>2. SubSeq(s, 1, Len(s)) = s  BY SubSeqFull
<1>3. ASSUME NEW k \in 1 .. Len(s)
      PROVE  /\ Len(SubSeq(s, 1, k - 1)) = k - 1
             /\ Append(SubSeq(s, 1, k - 1), s[k]) = SubSeq(s, 1, k)
  <2> DEFINE t == SubSeq(s, 1, k - 1)  u == SubSeq(s, 1, k)
  <2>1. t \in Seq(S) /\ Len(t) = k - 1 /\ \A i \in 1 .. k - 1 : t[i] = s[i]  BY SubSeqProperties
  <2>2. u \in Seq(S) /\ Len(u) = k /\ \A i \in 1 .. k : u[i] = s[i]  BY SubSeqProperties
  <2>3. s[k] \in S  OBVIOUS
  <2> HIDE DEF t, u
  <2> DEFINE a == Append(t, s[k])
  <2>4. a \in Seq(S) /\ Len(a) = k  BY <2>1, <2>3
  <2>5. \A i \in 1 .. k : a[i] = u[i]
    <3>1. \A i \in 1 .. k - 1 : a[i] = t[i]  BY <2>1
    <3>2. a[k] = s[k]  BY <2>1
    <3> HIDE DEF a
    <3> QED  BY <2>1, <2>2, <3>1, <3>2
  <2> HIDE DEF a
  <2>6. a = u  BY <2>2, <2>4, <2>5, SeqEqual
  <2> QED  BY <2>1, <2>6 DEF a, t, u
<1> QED  BY <1>1, <1>2, <1>3

\* A block with its token and its checksum.
LEMMA CdStreams ==
  ASSUME NEW T, NEW s \in Seq(T)
  PROVE  LET t == CdStream(s)  n == Len(s)
         IN /\ t \in Seq(T \cup {<<"token", 0>>, BlockCrc(s)}) /\ Len(t) = n + 2
            /\ t[1] = <<"token", 0>> /\ t[n + 2] = BlockCrc(s)
            /\ \A i \in 1 .. n : t[i + 1] = s[i]
<1> DEFINE a == <<"token", 0>>  z == BlockCrc(s)  n == Len(s)  S == T \cup {a, z}
           p == <<a>>  q == p \o s  r == <<z>>  t == q \o r
<1>1. t = CdStream(s)  BY DEF CdStream
<1> HIDE DEF a, z
<1>2. p \in Seq(S) /\ Len(p) = 1 /\ p[1] = a  OBVIOUS
<1>3. r \in Seq(S) /\ Len(r) = 1 /\ r[1] = z  OBVIOUS
<1>4. s \in Seq(S) /\ n \in Nat  OBVIOUS
<1> HIDE DEF p, r, S, n
<1>5. q \in Seq(S) /\ Len(q) = n + 1 /\ \A i \in 1 .. n + 1 : q[i] = IF i <= 1 THEN p[i] ELSE s[i - 1]
  <2>1. /\ q \in Seq(S) /\ Len(q) = Len(p) + Len(s)
        /\ \A i \in 1 .. Len(p) + Len(s) : q[i] = IF i <= Len(p) THEN p[i] ELSE s[i - Len(p)]
    BY <1>2, <1>4, ConcatProperties
  <2> HIDE DEF q
  <2>2. Len(s) = n  BY DEF n
  <2> QED  BY <1>2, <1>4, <2>1, <2>2
<1> HIDE DEF q
<1>6. t \in Seq(S) /\ Len(t) = n + 2 /\ \A i \in 1 .. n + 2 : t[i] = IF i <= n + 1 THEN q[i] ELSE r[i - (n + 1)]
  <2>1. /\ t \in Seq(S) /\ Len(t) = Len(q) + Len(r)
        /\ \A i \in 1 .. Len(q) + Len(r) : t[i] = IF i <= Len(q) THEN q[i] ELSE r[i - Len(q)]
    BY <1>3, <1>5, ConcatProperties
  <2> HIDE DEF t
  <2> QED  BY <1>3, <1>4, <1>5, <2>1
<1> HIDE DEF t
<1>7. t[1] = a  BY <1>2, <1>4, <1>5, <1>6
<1>8. t[n + 2] = z  BY <1>3, <1>4, <1>6
<1>9. \A i \in 1 .. n : t[i + 1] = s[i]  BY <1>4, <1>5, <1>6
<1> QED  BY <1>1, <1>6, <1>7, <1>8, <1>9 DEF a, z, n, S

\* A byte is exchanged: the command, and what was asked for, stay.
LEMMA CdExchanges ==
  ASSUME SdExchange
  PROVE  /\ sd.stb /\ owner = "sd" /\ owner' = "sd" /\ last' = last
         /\ sd' = Received(Accepted(sd), card.out) /\ card' = CardByte(card, sd.dat)
  BY DEF SdExchange, SdByte, SdGrant

\* What stays as it is while the command goes on.
LEMMA CdCarries ==
  ASSUME CdTypes, CdAsked, sd.busy, ~sd.err, NEW t, CdAccepted(sd, t), CdHeard(t, sd'), last' = last,
         owner' = "sd", CdShape(card'), ~card'.failed, CdBlock(sd'.fifo)
  PROVE  /\ CdTypes' /\ CdAsked' /\ sd'.busy /\ ~sd'.err /\ sd'.n = sd.n /\ sd'.arg = sd.arg
         /\ (sd'.stb => CdRuns')
         /\ (sd'.word <=> sd.n \in {8, 58}) /\ (sd'.useFifo <=> sd.n \in {17, 24})
         /\ (sd'.fifoWr <=> sd.n = 24)
<1>1. /\ (sd'.busy <=> sd.busy) /\ sd'.n = sd.n /\ sd'.arg = sd.arg /\ (sd'.err <=> sd.err)
      /\ (sd'.word <=> sd.word) /\ (sd'.useFifo <=> sd.useFifo) /\ (sd'.fifoWr <=> sd.fifoWr)
      /\ CdRegs(sd')
  BY DEF CdAccepted, CdHeard
<1>2. CdTypes'  BY <1>1 DEF CdTypes
<1>3. CdRequest(sd) /\ CdRequest(last) /\ last.n = sd.n /\ last.arg = sd.arg  BY DEF CdAsked
<1>4. /\ (sd'.word <=> sd.n \in {8, 58}) /\ (sd'.useFifo <=> sd.n \in {17, 24})
      /\ (sd'.fifoWr <=> sd.n = 24)
  BY <1>1, <1>3 DEF CdRequest
<1>5. CdRequest(sd')
  <2>1. sd'.word \in BOOLEAN /\ sd'.useFifo \in BOOLEAN /\ sd'.fifoWr \in BOOLEAN
    BY <1>1 DEF CdRegs
  <2>2. sd.n \in {0, 8, 55, 41, 58, 17, 24} /\ (sd.n = 17 => sd.arg \in BlockAddr)
    BY <1>3 DEF CdRequest
  <2> QED  BY <1>1, <1>4, <2>1, <2>2 DEF CdRequest
<1>6. CdAsked'  BY <1>1, <1>3, <1>5 DEF CdAsked
<1>7. sd'.stb => CdRuns'  BY <1>1, <1>6 DEF CdRuns
<1> QED  BY <1>1, <1>2, <1>4, <1>6, <1>7

\* The first byte of a command.
LEMMA CdStartsStep ==
  ASSUME CdTypes, CdStarts, SdExchange
  PROVE  CdInv'
<1> DEFINE t == Accepted(sd)
<1>1. /\ CdRegs(sd) /\ CdShape(card) /\ ~card.failed /\ CdBlock(sd.fifo) /\ BlockLen \in Nat
  BY CdBlocks DEF CdTypes
<1>2. /\ CdAsked /\ sd.busy /\ sd.stb /\ ~sd.err /\ CdBegin /\ CdQuiet /\ CdReady(card, sd.n)
      /\ sd.state = "Cmd" /\ sd.dat = <<"cmd", sd.n>> /\ sd.pos = 0
  BY DEF CdStarts, CdBegin
<1>3. CdAccepted(sd, t) /\ t.state = "Arg" /\ t.dat = <<"arg", sd.arg>> /\ t.pos = 0
  BY <1>1, <1>2, CdAccepts
<1> HIDE DEF t
<1>4. sd' = Received(t, card.out) /\ card' = CardByte(card, sd.dat) /\ owner' = "sd" /\ last' = last
  BY CdExchanges DEF t
<1>5. sd' = t /\ CdHeard(t, sd')
  BY <1>3, <1>4, CdHearsNone DEF CdAccepted
<1>6. /\ CdShape(card') /\ ~card'.failed /\ ~card'.reading /\ card'.out = FF /\ card'.idx = 1
      /\ card'.cmd = sd.n /\ card'.alt = card.alt /\ card'.reset = card.reset /\ card'.rsp = <<>>
      /\ card'.dly = 0 /\ card'.blkdly = 0 /\ card'.blk = <<>>
  <2>1. sd.dat[1] = "cmd" /\ sd.dat[2] = sd.n  BY <1>2, CdKinds
  <2>2. /\ ~card.reading /\ card.idx = 0 /\ card.rsp = <<>> /\ card.blk = <<>>
        /\ card.blkdly = 0 /\ card.dly = 0
    BY <1>2 DEF CdQuiet
  <2> QED  BY <1>1, <1>4, <2>1, <2>2, CdCollects
<1>7. /\ CdTypes' /\ sd'.n = sd.n /\ sd'.arg = sd.arg /\ CdRuns'
  <2>1. sd'.fifo = sd.fifo /\ sd'.stb  BY <1>2, <1>3, <1>5 DEF CdAccepted
  <2> QED  BY <1>1, <1>2, <1>3, <1>4, <1>5, <1>6, <2>1, CdCarries
<1>8. CdBegin'
  BY <1>2, <1>3, <1>5 DEF CdBegin, CdAccepted
<1>9. CdReady(card', sd'.n)  BY <1>2, <1>6, <1>7 DEF CdReady
<1>10. CdSends'  BY <1>3, <1>5, <1>6, <1>7, <1>8, <1>9 DEF CdSends
<1> QED  BY <1>7, <1>10 DEF CdInv, CdPhase

\* The argument and the checksum.
LEMMA CdSendsStep ==
  ASSUME CdTypes, CdSends, SdExchange, card.idx \in {1, 2}
  PROVE  CdInv'
<1> DEFINE t == Accepted(sd)
<1>1. /\ CdRegs(sd) /\ CdShape(card) /\ ~card.failed /\ CdBlock(sd.fifo) /\ BlockLen \in Nat
  BY CdBlocks DEF CdTypes
<1>2. /\ CdAsked /\ sd.busy /\ sd.stb /\ ~sd.err /\ CdBegin /\ CdReady(card, sd.n)
      /\ sd.pos = 0 /\ sd.rsp = "NONE" /\ ~card.reading
      /\ card.rsp = <<>> /\ card.blk = <<>> /\ card.blkdly = 0 /\ card.dly = 0 /\ card.cmd = sd.n
      /\ card.out = FF
      /\ card.idx = 1 => sd.state = "Arg" /\ sd.dat = <<"arg", sd.arg>>
      /\ card.idx = 2 => sd.state = "Crc" /\ sd.dat = CmdCrc(sd.n, sd.arg) /\ card.arg = sd.arg
  BY DEF CdSends, CdRuns, CdBegin
<1>3. /\ CdAccepted(sd, t) /\ t.pos = 0
      /\ card.idx = 1 => t.state = "Crc" /\ t.dat = CmdCrc(sd.n, sd.arg)
      /\ card.idx = 2 => t.state = "Wait" /\ t.dat = FF
  BY <1>1, <1>2, CdAccepts
<1> HIDE DEF t
<1>4. sd' = Received(t, card.out) /\ card' = CardByte(card, sd.dat) /\ owner' = "sd" /\ last' = last
  BY CdExchanges DEF t
<1>5. sd' = t /\ CdHeard(t, sd')
  <2>1. card.out[1] \notin {"r1", "resp"}  BY <1>2, CdKinds
  <2>2. CdRegs(t) /\ t.rsp = "NONE"  BY <1>2, <1>3 DEF CdAccepted
  <2> QED  BY <1>4, <2>1, <2>2, CdHearsNone
<1>6. /\ CdShape(card') /\ ~card'.failed /\ ~card'.reading /\ card'.out = FF /\ card'.idx = card.idx + 1
      /\ card'.cmd = sd.n /\ card'.alt = card.alt /\ card'.reset = card.reset /\ card'.rsp = <<>>
      /\ card'.dly = 0 /\ card'.blkdly = 0 /\ card'.blk = <<>> /\ card'.arg = sd.arg
  <2>1. card.idx = 1 => sd.dat[2] = sd.arg  BY <1>2, CdKinds
  <2>2. card.idx = 2 => sd.dat = CmdCrc(card.cmd, card.arg)  BY <1>2
  <2>3. /\ CdShape(card') /\ ~card'.failed /\ ~card'.reading /\ card'.out = FF /\ card'.idx = card.idx + 1
        /\ card'.cmd = card.cmd /\ card'.alt = card.alt /\ card'.reset = card.reset /\ card'.rsp = card.rsp
        /\ card'.dly = card.dly /\ card'.blkdly = card.blkdly /\ card'.blk = card.blk
        /\ card'.arg = IF card.idx = 1 THEN sd.dat[2] ELSE card.arg
    BY <1>1, <1>2, <1>4, <2>2, CdCollects
  <2> QED  BY <1>2, <2>1, <2>3
<1>7. /\ CdTypes' /\ sd'.n = sd.n /\ sd'.arg = sd.arg /\ CdRuns'
  <2>1. sd'.fifo = sd.fifo /\ sd'.stb  BY <1>2, <1>3, <1>5 DEF CdAccepted
  <2> QED  BY <1>1, <1>2, <1>3, <1>4, <1>5, <1>6, <2>1, CdCarries
<1>8. CdBegin'
  BY <1>2, <1>3, <1>5 DEF CdBegin, CdAccepted
<1>9. CdReady(card', sd'.n)  BY <1>2, <1>6, <1>7 DEF CdReady
<1>10. CdSends'
  <2>1. CASE card.idx = 1  BY <1>3, <1>5, <1>6, <1>7, <1>8, <1>9, <2>1 DEF CdSends
  <2>2. CASE card.idx = 2  BY <1>3, <1>5, <1>6, <1>7, <1>8, <1>9, <2>2 DEF CdSends
  <2> QED  BY <2>1, <2>2
<1> QED  BY <1>7, <1>10 DEF CdInv, CdPhase

\* The card takes the command.
LEMMA CdTakenStep ==
  ASSUME CdTypes, CdSends, SdExchange, card.idx = 3
  PROVE  CdInv'
<1> DEFINE t == Accepted(sd)
<1>1. /\ CdRegs(sd) /\ CdShape(card) /\ ~card.failed /\ CdBlock(sd.fifo) /\ BlockLen \in Nat
  BY CdBlocks DEF CdTypes
<1>2. /\ CdAsked /\ sd.busy /\ sd.stb /\ ~sd.err /\ CdBegin /\ CdReady(card, sd.n)
      /\ sd.pos = 0 /\ sd.rsp = "NONE" /\ ~sd.have /\ ~card.reading
      /\ card.dly = 0 /\ card.cmd = sd.n /\ card.arg = sd.arg
      /\ card.out = FF /\ sd.state = "Wait" /\ sd.dat = FF
  BY DEF CdSends, CdRuns, CdBegin
<1>3. CdAccepted(sd, t) /\ t.pos = 0 /\ t.state = "Wait" /\ t.dat = FF
  BY <1>1, <1>2, CdAccepts
<1> HIDE DEF t
<1>4. sd' = Received(t, card.out) /\ card' = CardByte(card, sd.dat) /\ owner' = "sd" /\ last' = last
  BY CdExchanges DEF t
<1>5. sd' = t /\ CdHeard(t, sd')
  <2>1. card.out[1] \notin {"r1", "resp"}  BY <1>2, CdKinds
  <2>2. CdRegs(t) /\ t.rsp = "NONE"  BY <1>2, <1>3 DEF CdAccepted
  <2> QED  BY <1>4, <2>1, <2>2, CdHearsNone
<1>6. sd'.fifo = sd.fifo /\ sd'.stb  BY <1>2, <1>3, <1>5 DEF CdAccepted
<1>7. CdBegin'
  BY <1>2, <1>3, <1>5 DEF CdBegin, CdAccepted
<1>8. sd.n \in {0, 8, 55, 41, 58, 17, 24} /\ (sd.n = 17 => sd.arg \in BlockAddr)
  BY <1>2 DEF CdAsked, CdRequest
<1>9. ASSUME NEW v \in {0, 1}, NEW w, CdTold(card', v, w), CdDone(card', sd.n, v), sd.n # 24,
             sd.n \notin {8, 58} => w = FF,
             sd.n = 17 => v = 0 /\ card'.blk = CdStream(Blocks[sd.arg])
      PROVE  CdInv'
  <2>1. /\ CdShape(card') /\ ~card'.failed /\ ~card'.reading /\ card'.out = FF /\ card'.idx = 4
        /\ card'.rsp = <<<<"r1", v>>, w, FF>> /\ card'.dly \in Nat /\ card'.blkdly \in Nat
    BY <1>9 DEF CdTold
  <2>2. CdTypes' /\ sd'.n = sd.n /\ sd'.arg = sd.arg /\ CdRuns' /\ (sd'.word <=> sd.n \in {8, 58})
    BY <1>1, <1>2, <1>3, <1>4, <1>5, <1>6, <2>1, CdCarries
  <2>3. CdHas'  BY <2>1, <2>2 DEF CdHas
  <2>4. card'.rsp = <<<<"r1", v>>, card'.rsp[2], FF>> /\ (~sd'.word => card'.rsp[2] = FF)
    BY <1>9, <2>1, <2>2
  <2>5. CdDone(card', sd'.n, v) /\ (sd'.n = 17 => v = 0)
        /\ (sd'.n = 17 => card'.blk = CdStream(Blocks[sd'.arg])) /\ sd'.n # 24
    BY <1>9, <2>2
  <2>6. CdDelays'
    BY <1>3, <1>5, <1>7, <2>1, <2>3, <2>4, <2>5 DEF CdDelays
  <2> QED  BY <2>2, <2>6 DEF CdInv, CdPhase
<1>10. CASE sd.n \in {0, 8, 55, 41, 58}
  <2>1. PICK v \in {0, 1} : \E w : /\ CdTold(card', v, w) /\ CdDone(card', card.cmd, v)
                                   /\ card.cmd \notin {8, 58} => w = FF
    BY <1>1, <1>2, <1>4, <1>10, CdPlain
  <2>2. PICK w : /\ CdTold(card', v, w) /\ CdDone(card', card.cmd, v)
                 /\ card.cmd \notin {8, 58} => w = FF
    BY <2>1
  <2> QED  BY <1>2, <1>9, <1>10, <2>2
<1>11. CASE sd.n = 17
  <2>1. /\ CdTold(card', 0, FF) /\ CdDone(card', 17, 0) /\ card'.blk = CdStream(Blocks[card.arg])
    BY <1>1, <1>2, <1>4, <1>8, <1>11, CdBlockRead
  <2> QED  BY <1>2, <1>9, <1>11, <2>1
<1>12. CASE sd.n = 24
  <2>1. /\ CdShape(card') /\ ~card'.failed /\ card'.reading /\ ~card'.token /\ card'.out = <<"r1", 0>>
        /\ card'.idx = 4 /\ card'.dly = 0 /\ card'.blkdly = 0 /\ card'.blk = <<>> /\ CdDone(card', 24, 0)
    BY <1>1, <1>2, <1>4, <1>12, CdBlockWrite
  <2>2. CdTypes' /\ sd'.n = sd.n /\ CdRuns'
    BY <1>1, <1>2, <1>3, <1>4, <1>5, <1>6, <2>1, CdCarries
  <2>3. CdHas'  BY <2>1, <2>2 DEF CdHas
  <2>4. sd'.fifo = WriteBlock  BY <1>2, <1>6, <1>12 DEF CdBegin
  <2>5. CdWrites'  BY <1>3, <1>5, <1>7, <1>12, <2>1, <2>2, <2>3, <2>4 DEF CdWrites
  <2> QED  BY <2>2, <2>5 DEF CdInv, CdPhase
<1> QED  BY <1>8, <1>10, <1>11, <1>12

\* The card's answer is awaited.
LEMMA CdDelaysStep ==
  ASSUME CdTypes, CdDelays, SdExchange, card.out = FF
  PROVE  CdInv'
<1> DEFINE t == Accepted(sd)
<1>1. /\ CdRegs(sd) /\ CdShape(card) /\ ~card.failed /\ CdBlock(sd.fifo) /\ BlockLen \in Nat
  BY CdBlocks DEF CdTypes
<1>2. /\ CdAsked /\ sd.busy /\ sd.stb /\ ~sd.err /\ CdBegin /\ sd.pos = 0 /\ sd.rsp = "NONE" /\ ~sd.have
      /\ sd.state = "Wait" /\ sd.dat = FF /\ sd.n # 24
      /\ card.idx = 4 /\ card.dly \in Nat /\ card.blkdly \in Nat /\ ~card.reading
      /\ sd.n = 17 => card.blk = CdStream(Blocks[sd.arg])
  BY DEF CdDelays, CdHas, CdRuns, CdBegin
<1>3. PICK v \in {0, 1} :
        /\ CdDone(card, sd.n, v) /\ (sd.n = 17 => v = 0)
        /\ card.rsp = <<<<"r1", v>>, card.rsp[2], FF>>
        /\ ~sd.word => card.rsp[2] = FF
  BY CdKinds DEF CdDelays
<1>4. CdAccepted(sd, t) /\ t.pos = 0 /\ t.state = "Wait" /\ t.dat = FF
  BY <1>1, <1>2, CdAccepts
<1> HIDE DEF t
<1>5. sd' = Received(t, card.out) /\ card' = CardByte(card, sd.dat) /\ owner' = "sd" /\ last' = last
  BY CdExchanges DEF t
<1>6. sd' = t /\ CdHeard(t, sd')
  <2>1. card.out[1] \notin {"r1", "resp"}  BY CdKinds
  <2>2. CdRegs(t) /\ t.rsp = "NONE"  BY <1>2, <1>4 DEF CdAccepted
  <2> QED  BY <1>5, <2>1, <2>2, CdHearsNone
<1>7. /\ sd'.fifo = sd.fifo /\ sd'.stb /\ (sd'.word <=> sd.word) /\ sd'.state = "Wait" /\ sd'.dat = FF
  BY <1>2, <1>4, <1>6 DEF CdAccepted
<1>8. CdBegin'
  BY <1>2, <1>4, <1>6 DEF CdBegin, CdAccepted
<1>9. /\ CdGoesOn(card, card') /\ card'.blk = card.blk
      /\ \/ card'.out = FF /\ card'.rsp = card.rsp
         \/ card'.out = Head(card.rsp) /\ card'.rsp = Tail(card.rsp) /\ card'.dly = 0
  <2>1. card.rsp # <<>>  BY <1>3
  <2>2. card.dly > 0 \/ card.dly = 0  BY <1>2
  <2> QED  BY <1>1, <1>2, <1>5, <2>1, <2>2, CdResponds
<1>10. /\ CdShape(card') /\ ~card'.failed /\ ~card'.reading /\ card'.idx = 4
       /\ (card'.alt <=> card.alt) /\ card'.reset = card.reset /\ card'.dly \in Nat /\ card'.blkdly \in Nat
  BY <1>9 DEF CdGoesOn
<1>11. CdTypes' /\ sd'.n = sd.n /\ sd'.arg = sd.arg /\ CdRuns'
  BY <1>1, <1>2, <1>4, <1>5, <1>6, <1>7, <1>10, CdCarries
<1>12. CdHas'  BY <1>10, <1>11 DEF CdHas
<1>13. CdDone(card', sd'.n, v)  BY <1>3, <1>10, <1>11 DEF CdDone
<1>14. \/ /\ card'.out = FF /\ card'.rsp = <<<<"r1", v>>, card'.rsp[2], FF>>
          /\ ~sd'.word => card'.rsp[2] = FF
       \/ /\ card'.out = <<"r1", v>> /\ card'.dly = 0 /\ card'.rsp = <<card'.rsp[1], FF>>
          /\ ~sd'.word => card'.rsp[1] = FF
  <2> DEFINE w == card.rsp[2]
  <2>1. card.rsp = <<<<"r1", v>>, w, FF>> /\ (~sd.word => w = FF)  BY <1>3
  <2> HIDE DEF w
  <2>2. CASE card'.out = FF /\ card'.rsp = card.rsp
    BY <1>7, <2>1, <2>2
  <2>3. CASE card'.out = Head(card.rsp) /\ card'.rsp = Tail(card.rsp) /\ card'.dly = 0
    <3>1. Head(card.rsp) = <<"r1", v>> /\ Tail(card.rsp) = <<w, FF>>  BY <2>1, FlTails
    <3> QED  BY <1>7, <2>1, <2>3, <3>1
  <2> QED  BY <1>9, <2>2, <2>3
<1>15. CdDelays'
  BY <1>2, <1>3, <1>7, <1>8, <1>9, <1>10, <1>11, <1>12, <1>13, <1>14 DEF CdDelays
<1> QED  BY <1>11, <1>15 DEF CdInv, CdPhase

\* The card's answer is here: the command is over, or a word or a block follows.
LEMMA CdAnswerStep ==
  ASSUME CdTypes, CdDelays, SdExchange, card.out # FF
  PROVE  CdInv'
<1> DEFINE t == Accepted(sd)
<1>1. /\ CdRegs(sd) /\ CdShape(card) /\ ~card.failed /\ CdBlock(sd.fifo) /\ BlockLen \in Nat
  BY CdBlocks DEF CdTypes
<1>2. /\ CdAsked /\ sd.busy /\ sd.stb /\ ~sd.err /\ CdBegin /\ sd.pos = 0 /\ sd.rsp = "NONE" /\ ~sd.have
      /\ sd.state = "Wait" /\ sd.dat = FF /\ sd.n # 24
      /\ card.idx = 4 /\ card.dly \in Nat /\ card.blkdly \in Nat /\ ~card.reading
      /\ sd.n = 17 => card.blk = CdStream(Blocks[sd.arg])
  BY DEF CdDelays, CdHas, CdRuns, CdBegin
<1>3. PICK v \in {0, 1} :
        /\ CdDone(card, sd.n, v) /\ (sd.n = 17 => v = 0)
        /\ card.out = <<"r1", v>> /\ card.dly = 0 /\ card.rsp = <<card.rsp[1], FF>>
        /\ ~sd.word => card.rsp[1] = FF
  BY DEF CdDelays
<1>4. CdAccepted(sd, t) /\ t.pos = 0 /\ t.state = "Wait" /\ t.dat = FF
  BY <1>1, <1>2, CdAccepts
<1> HIDE DEF t
<1>5. sd' = Received(t, card.out) /\ card' = CardByte(card, sd.dat) /\ owner' = "sd" /\ last' = last
  BY CdExchanges DEF t
<1>6. /\ (sd.word <=> sd.n \in {8, 58}) /\ (sd.useFifo <=> sd.n \in {17, 24})
      /\ (sd.fifoWr <=> sd.n = 24) /\ sd.n \in {0, 8, 55, 41, 58, 17, 24}
  BY <1>2 DEF CdAsked, CdRequest
<1>7. /\ CdHeard(t, sd') /\ CdNoData(t, sd') /\ sd'.r1 = v
      /\ (sd'.have <=> ~sd.word) /\ (sd'.stb <=> sd.word \/ sd.useFifo)
      /\ sd'.rsp = IF sd.word THEN "GETWORD" ELSE "WRITING"
  <2>1. CdRegs(t) /\ t.rsp = "NONE" /\ (t.word <=> sd.word) /\ (t.useFifo <=> sd.useFifo) /\ (t.fifoWr <=> sd.fifoWr)
    BY <1>2, <1>4 DEF CdAccepted
  <2>2. sd' = Received(t, <<"r1", v>>)  BY <1>3, <1>5
  <2>3. /\ CdHeard(t, sd') /\ CdNoData(t, sd') /\ sd'.r1 = v
        /\ (sd'.have <=> ~t.word) /\ (sd'.stb <=> t.word \/ t.useFifo)
        /\ sd'.rsp = IF t.word THEN "GETWORD"
                     ELSE IF t.useFifo /\ t.fifoWr THEN "GETTOKEN" ELSE "WRITING"
    BY <1>4, <2>1, <2>2, CdHearsAnswer
  <2> QED  BY <1>2, <1>6, <2>1, <2>3
<1>8. /\ sd'.state = "Wait" /\ sd'.dat = FF /\ sd'.pos = 0 /\ ~sd'.started /\ ~sd'.full /\ ~sd'.crcErr
      /\ sd'.fifo = sd.fifo
  BY <1>2, <1>4, <1>7 DEF CdBegin, CdAccepted, CdHeard, CdNoData
<1>9. /\ CdGoesOn(card, card') /\ card'.blk = card.blk /\ card'.out = card.rsp[1]
      /\ card'.rsp = <<FF>> /\ card'.dly = 0
  <2> DEFINE w == card.rsp[1]
  <2>1. card.rsp = <<w, FF>>  BY <1>3
  <2> HIDE DEF w
  <2>2. card.rsp # <<>> /\ Head(card.rsp) = w /\ Tail(card.rsp) = <<FF>>  BY <2>1, FlTails
  <2>3. /\ CdGoesOn(card, card') /\ card'.blk = card.blk /\ card'.dly = 0
        /\ card'.out = Head(card.rsp) /\ card'.rsp = Tail(card.rsp)
    BY <1>1, <1>2, <1>3, <1>5, <2>2, CdResponds
  <2> QED  BY <2>2, <2>3 DEF w
<1>10. /\ CdShape(card') /\ ~card'.failed /\ ~card'.reading /\ card'.idx = 4
       /\ (card'.alt <=> card.alt) /\ card'.reset = card.reset /\ card'.dly \in Nat /\ card'.blkdly \in Nat
  BY <1>9 DEF CdGoesOn
<1>11. /\ CdTypes' /\ CdAsked' /\ sd'.busy /\ ~sd'.err /\ sd'.n = sd.n /\ sd'.arg = sd.arg
       /\ (sd'.stb => CdRuns') /\ (sd'.word <=> sd.word)
  BY <1>1, <1>2, <1>4, <1>5, <1>6, <1>7, <1>8, <1>10, CdCarries
<1>12. CdDone(card', sd'.n, v)  BY <1>3, <1>10, <1>11 DEF CdDone
<1>13. CASE sd.word
  <2>1. sd'.stb /\ sd'.rsp = "GETWORD" /\ ~sd'.have  BY <1>7, <1>13
  <2>2. CdHas'  BY <1>10, <1>11, <2>1 DEF CdHas
  <2>3. CdWord'  BY <1>3, <1>7, <1>8, <1>9, <1>10, <1>11, <1>12, <1>13, <2>1, <2>2 DEF CdWord
  <2> QED  BY <1>11, <2>3 DEF CdInv, CdPhase
<1>14. CASE sd.n = 17
  <2>1. ~sd.word /\ sd.useFifo  BY <1>6, <1>14
  <2>2. sd'.stb /\ sd'.rsp = "WRITING" /\ sd'.have  BY <1>7, <2>1
  <2>3. CdHas'  BY <1>10, <1>11, <2>2 DEF CdHas
  <2>4. sd'.n = 17 /\ sd'.r1 = 0 /\ CdDone(card', sd'.n, 0)  BY <1>3, <1>7, <1>11, <1>12, <1>14
  <2>5. card'.out = FF  BY <1>3, <1>9, <2>1
  <2>6. card'.blk = CdStream(Blocks[sd'.arg])  BY <1>2, <1>9, <1>11, <1>14
  <2>7. CdReads'  BY <1>8, <1>9, <1>10, <2>2, <2>3, <2>4, <2>5, <2>6 DEF CdReads
  <2> QED  BY <1>11, <2>7 DEF CdInv, CdPhase
<1>15. CASE ~sd.word /\ sd.n # 17
  <2>1. ~sd'.stb  BY <1>2, <1>6, <1>7, <1>15
  <2>2. CdAnswers'  BY <1>2, <1>3, <1>7, <1>11, <1>12, <1>15 DEF CdAnswers
  <2>3. CdOver'  BY <1>5, <1>9, <1>10, <1>11, <2>1, <2>2 DEF CdOver
  <2> QED  BY <1>11, <2>3 DEF CdInv, CdPhase
<1> QED  BY <1>13, <1>14, <1>15

\* The word is here.
LEMMA CdWordStep ==
  ASSUME CdTypes, CdWord, SdExchange
  PROVE  CdInv'
<1> DEFINE t == Accepted(sd)
<1>1. /\ CdRegs(sd) /\ CdShape(card) /\ ~card.failed /\ CdBlock(sd.fifo)
  BY DEF CdTypes
<1>2. /\ CdAsked /\ sd.busy /\ sd.stb /\ ~sd.err /\ sd.word /\ sd.rsp = "GETWORD" /\ ~sd.have
      /\ sd.state = "Wait" /\ sd.dat = FF
      /\ card.idx = 4 /\ card.dly = 0 /\ card.blkdly \in Nat /\ ~card.reading /\ card.rsp = <<FF>>
      /\ sd.r1 \in {0, 1} /\ CdDone(card, sd.n, sd.r1)
  BY DEF CdWord, CdHas, CdRuns
<1>3. CdAccepted(sd, t) /\ t.state = "Wait" /\ t.fifo = sd.fifo /\ t.rsp = "GETWORD" /\ t.r1 = sd.r1
      /\ (t.useFifo <=> sd.useFifo)
  <2> DEFINE y == FF  e == [sd EXCEPT !.dat = y]
  <2>1. t = e  BY <1>2 DEF Accepted
  <2> HIDE DEF y, t
  <2>2. CdRegs(e)  BY <1>1 DEF CdRegs
  <2>3. CdAccepted(sd, e) /\ e.state = "Wait" BY <1>1, <1>2, <2>2 DEF CdRegs, CdAccepted
  <2> HIDE DEF e
  <2> QED  BY <1>2, <2>1, <2>3 DEF CdAccepted
<1> HIDE DEF t
<1>4. sd' = Received(t, card.out) /\ card' = CardByte(card, sd.dat) /\ owner' = "sd" /\ last' = last
  BY CdExchanges DEF t
<1>5. /\ CdHeard(t, sd') /\ CdNoData(t, sd') /\ sd'.r1 = sd.r1 /\ (sd'.stb <=> sd.useFifo)
  <2>1. CdRegs(t)  BY <1>3 DEF CdAccepted
  <2>2. CdHeard(t, sd') /\ CdNoData(t, sd') /\ sd'.r1 = t.r1 /\ (sd'.stb <=> t.useFifo)
    BY <1>3, <1>4, <2>1, CdHearsMore
  <2> QED  BY <1>3, <2>2
<1>6. /\ sd.n \in {8, 58} /\ ~sd.useFifo
  BY <1>2 DEF CdAsked, CdRequest
<1>7. CdGoesOn(card, card') /\ card'.dly = 0
  BY <1>1, <1>2, <1>4, CdResponds
<1>8. /\ CdShape(card') /\ ~card'.failed /\ ~card'.reading /\ (card'.alt <=> card.alt) /\ card'.reset = card.reset
  BY <1>7 DEF CdGoesOn
<1>9. sd'.fifo = sd.fifo  BY <1>3, <1>5 DEF CdNoData
<1>10. /\ CdTypes' /\ CdAsked' /\ sd'.busy /\ ~sd'.err /\ sd'.n = sd.n
  BY <1>1, <1>2, <1>3, <1>4, <1>5, <1>8, <1>9, CdCarries
<1>11. CdAnswers'
  <2>1. CdDone(card', sd'.n, sd'.r1)  BY <1>2, <1>5, <1>8, <1>10 DEF CdDone
  <2> QED  BY <1>2, <1>5, <1>6, <1>10, <2>1 DEF CdAnswers
<1>12. CdOver'  BY <1>4, <1>5, <1>6, <1>7, <1>8, <1>10, <1>11 DEF CdOver
<1> QED  BY <1>10, <1>12 DEF CdInv, CdPhase

\* A block is read: what every byte of it leaves.
LEMMA CdReadsKeep ==
  ASSUME CdTypes, CdReads, SdExchange
  PROVE  /\ sd.pos \in Nat
         /\ \E t : /\ CdAccepted(sd, t) /\ t.state = "Fifo" /\ t.dat = FF /\ t.pos = sd.pos
                   /\ sd' = Received(t, card.out)
         /\ card' = CardByte(card, FF) /\ owner' = "sd" /\ last' = last
         /\ sd.arg \in BlockAddr /\ sd.rsp = "WRITING" /\ sd.stb /\ sd.have
<1> DEFINE t == Accepted(sd)
<1>1. CdRegs(sd) /\ BlockLen \in Nat  BY CdBlocks DEF CdTypes
<1>2. /\ CdAsked /\ sd.stb /\ sd.n = 17 /\ sd.have /\ sd.state \in {"Wait", "Fifo"} /\ sd.dat = FF
      /\ sd.rsp = "WRITING"
  BY DEF CdReads, CdHas, CdRuns
<1>3. sd.useFifo /\ ~sd.fifoWr /\ sd.arg \in BlockAddr  BY <1>2 DEF CdAsked, CdRequest
<1>4. sd.pos \in Nat
  <2>1. CASE sd.pos = 0  BY <2>1
  <2>2. CASE sd.pos = BlockLen  BY <1>1, <2>2
  <2>3. CASE \E j \in 1 .. BlockLen + 2 : sd.pos = IF j > 1 THEN j - 2 ELSE 0  BY <1>1, <2>3
  <2>4. sd.pos = 0 \/ sd.pos = BlockLen \/ \E j \in 1 .. BlockLen + 2 : sd.pos = IF j > 1 THEN j - 2 ELSE 0
    BY DEF CdReads
  <2> QED  BY <2>1, <2>2, <2>3, <2>4
<1>5. CdAccepted(sd, t) /\ t.state = "Fifo" /\ t.dat = FF /\ t.pos = sd.pos
  <2>1. CASE sd.state = "Wait"  BY <1>1, <1>2, <1>3, <1>4, <2>1, CdAccepts
  <2>2. CASE sd.state = "Fifo"  BY <1>1, <1>2, <1>3, <1>4, <2>2, CdAccepts
  <2> QED  BY <1>2, <2>1, <2>2
<1>6. sd' = Received(t, card.out) /\ card' = CardByte(card, FF) /\ owner' = "sd" /\ last' = last
  BY <1>2, CdExchanges
<1> QED  BY <1>2, <1>3, <1>4, <1>5, <1>6

\* The block has not begun.
LEMMA CdReadsDelay ==
  ASSUME CdTypes, CdReads, SdExchange, card.rsp \in {<<>>, <<FF>>}, card.out = FF,
         card.blk = CdStream(Blocks[sd.arg]), ~sd.started, sd.pos = 0, ~sd.full
  PROVE  CdInv'
<1>1. /\ CdRegs(sd) /\ CdShape(card) /\ ~card.failed /\ CdBlock(sd.fifo) /\ BlockLen \in Nat /\ BlockLen > 0
  BY CdBlocks DEF CdTypes
<1>2. /\ CdAsked /\ sd.busy /\ ~sd.err /\ sd.n = 17 /\ sd.have /\ sd.r1 = 0 /\ CdDone(card, sd.n, 0)
      /\ card.idx = 4 /\ card.dly = 0 /\ card.blkdly \in Nat /\ ~card.reading /\ ~sd.crcErr
  BY DEF CdReads, CdHas, CdRuns
<1>3. /\ card' = CardByte(card, FF) /\ owner' = "sd" /\ last' = last
      /\ sd.arg \in BlockAddr /\ sd.rsp = "WRITING" /\ sd.stb
  BY CdReadsKeep
<1>4. PICK t : /\ CdAccepted(sd, t) /\ t.state = "Fifo" /\ t.dat = FF /\ t.pos = 0
               /\ sd' = Received(t, FF)
  BY CdReadsKeep
<1>5. /\ CdRegs(t) /\ t.rsp = "WRITING" /\ (t.have <=> sd.have) /\ (t.stb <=> sd.stb) /\ t.r1 = 0
      /\ t.fifo = sd.fifo /\ ~t.started /\ ~t.full /\ ~t.crcErr
  BY <1>2, <1>3, <1>4 DEF CdAccepted
<1>6. /\ CdStores(t, sd') /\ sd'.fifo = sd.fifo /\ sd'.pos = 0 /\ ~sd'.full /\ ~sd'.crcErr
      /\ ~sd'.started
  <2>1. FF # <<"token", 0>>  BY CdKinds
  <2>2. t.pos \in Nat /\ t.state \notin {"Cmd", "Arg", "Crc"}  BY <1>4
  <2>3. /\ CdStores(t, sd') /\ sd'.fifo = t.fifo /\ sd'.pos = t.pos /\ ~sd'.full
        /\ (sd'.crcErr <=> t.crcErr) /\ (sd'.started <=> FF = <<"token", 0>>)
    BY <1>1, <1>4, <1>5, <2>2, CdHearsBlock
  <2> QED  BY <1>4, <1>5, <2>1, <2>3
<1>7. /\ CdHeard(t, sd') /\ sd'.rsp = "WRITING" /\ sd'.r1 = 0 /\ sd'.stb /\ sd'.have
      /\ sd'.state = "Fifo" /\ sd'.dat = FF
  BY <1>2, <1>3, <1>4, <1>5, <1>6 DEF CdStores, CdHeard
<1> DEFINE s == Blocks[sd.arg]  u == CdStream(s)
<1>8. u # <<>> /\ Head(u) = u[1] /\ Tail(u) = SubSeq(u, 2, BlockLen + 2)
  <2> DEFINE T == {s[i] : i \in 1 .. BlockLen}  S == T \cup {<<"token", 0>>, BlockCrc(s)}
  <2>1. s \in Seq(T) /\ Len(s) = BlockLen  BY <1>3, CdBlocks
  <2> HIDE DEF T, s
  <2>2. u \in Seq(S) /\ Len(u) = BlockLen + 2  BY <2>1, CdStreams
  <2> HIDE DEF S, u
  <2>3. SubSeq(u, 1, BlockLen + 2) = u  BY <2>2, SubSeqFull
  <2>4. 1 \in 1 .. Len(u)  BY <1>1, <2>2
  <2>5. Head(SubSeq(u, 1, Len(u))) = u[1] /\ Tail(SubSeq(u, 1, Len(u))) = SubSeq(u, 1 + 1, Len(u))
        /\ SubSeq(u, 1, Len(u)) # <<>>
    BY <2>2, <2>4, CdLeft
  <2> QED  BY <2>2, <2>3, <2>5
<1> HIDE DEF u, s
<1>9. /\ CdGoesOn(card, card') /\ card'.dly = 0
      /\ \/ card'.rsp = <<>> /\ card'.out = FF /\ card'.blk = u
         \/ card'.rsp = <<>> /\ card'.blkdly = 0 /\ card'.out = u[1] /\ card'.blk = SubSeq(u, 2, BlockLen + 2)
  <2>0. card.blk = u  BY DEF u, s
  <2>1. CASE card.rsp = <<FF>>
    <3>1. card.rsp # <<>> /\ Head(card.rsp) = FF /\ Tail(card.rsp) = <<>>  BY <2>1, FlTails
    <3>2. /\ CdGoesOn(card, card') /\ card'.dly = 0 /\ card'.out = Head(card.rsp)
          /\ card'.rsp = Tail(card.rsp) /\ card'.blk = card.blk
      BY <1>1, <1>2, <1>3, <3>1, CdResponds
    <3> QED  BY <2>0, <3>1, <3>2
  <2>2. CASE card.rsp = <<>> /\ card.blkdly > 0
    BY <1>1, <1>2, <1>3, <2>0, <2>2, CdResponds
  <2>3. CASE card.rsp = <<>> /\ card.blkdly = 0
    <3>1. card.blk # <<>>  BY <1>8, <2>0
    <3>2. /\ CdGoesOn(card, card') /\ card'.dly = 0 /\ card'.out = Head(card.blk) /\ card'.blkdly = 0
          /\ card'.rsp = <<>> /\ card'.blk = Tail(card.blk)
      BY <1>1, <1>2, <1>3, <2>3, <3>1, CdSendsBlock
    <3> QED  BY <1>8, <2>0, <3>2
  <2>4. card.blkdly > 0 \/ card.blkdly = 0  BY <1>2
  <2> QED  BY <2>1, <2>2, <2>3, <2>4
<1>10. /\ CdShape(card') /\ ~card'.failed /\ ~card'.reading /\ card'.idx = 4
       /\ (card'.alt <=> card.alt) /\ card'.reset = card.reset /\ card'.dly \in Nat /\ card'.blkdly \in Nat
  BY <1>9 DEF CdGoesOn
<1>11. /\ CdTypes' /\ CdAsked' /\ sd'.n = 17 /\ sd'.arg = sd.arg /\ CdRuns'
  BY <1>1, <1>2, <1>3, <1>4, <1>6, <1>7, <1>10, CdCarries
<1>12. CdHas'  BY <1>10, <1>11 DEF CdHas
<1>13. CdDone(card', sd'.n, 0)  BY <1>2, <1>10, <1>11 DEF CdDone
<1>14. CdStream(Blocks[sd'.arg]) = u  BY <1>11 DEF u, s
<1>15. CdReads'
  <2>1. CASE card'.rsp = <<>> /\ card'.out = FF /\ card'.blk = u
    BY <1>6, <1>7, <1>9, <1>10, <1>11, <1>12, <1>13, <1>14, <2>1 DEF CdReads
  <2>2. CASE card'.rsp = <<>> /\ card'.blkdly = 0 /\ card'.out = u[1] /\ card'.blk = SubSeq(u, 2, BlockLen + 2)
    <3>1. \E j \in 1 .. BlockLen + 2 :
            /\ card'.out = u[j] /\ card'.blk = SubSeq(u, j + 1, BlockLen + 2)
            /\ sd'.started <=> j > 1
            /\ sd'.pos = IF j > 1 THEN j - 2 ELSE 0
            /\ \A i \in 1 .. sd'.pos : sd'.fifo[i] = Blocks[sd'.arg][i]
      <4> 1 \in 1 .. BlockLen + 2  BY <1>1
      <4> WITNESS 1 \in 1 .. BlockLen + 2
      <4> QED  BY <1>6, <2>2
    <3> QED  BY <1>6, <1>7, <1>9, <1>10, <1>11, <1>12, <1>13, <1>14, <2>2, <3>1 DEF CdReads
  <2> QED  BY <1>9, <2>1, <2>2
<1> QED  BY <1>11, <1>15 DEF CdInv, CdPhase

\* The bytes of the block come: the token, the words and the checksum.
LEMMA CdReadsByte ==
  ASSUME CdTypes, CdReads, SdExchange, card.rsp = <<>>, card.blkdly = 0, ~sd.full,
         NEW j \in 1 .. BlockLen + 2, card.out = CdStream(Blocks[sd.arg])[j],
         card.blk = SubSeq(CdStream(Blocks[sd.arg]), j + 1, BlockLen + 2),
         sd.started <=> j > 1, sd.pos = IF j > 1 THEN j - 2 ELSE 0,
         \A i \in 1 .. sd.pos : sd.fifo[i] = Blocks[sd.arg][i]
  PROVE  CdInv'
<1> DEFINE s == Blocks[sd.arg]  u == CdStream(s)  b == u[j]
<1>1. /\ CdRegs(sd) /\ CdShape(card) /\ ~card.failed /\ CdBlock(sd.fifo) /\ BlockLen \in Nat /\ BlockLen > 0
  BY CdBlocks DEF CdTypes
<1>2. /\ CdAsked /\ sd.busy /\ ~sd.err /\ sd.n = 17 /\ sd.have /\ sd.r1 = 0 /\ CdDone(card, sd.n, 0)
      /\ card.idx = 4 /\ card.dly = 0 /\ card.blkdly \in Nat /\ ~card.reading /\ ~sd.crcErr
  BY DEF CdReads, CdHas, CdRuns
<1>3. /\ card' = CardByte(card, FF) /\ owner' = "sd" /\ last' = last
      /\ sd.arg \in BlockAddr /\ sd.rsp = "WRITING" /\ sd.stb /\ sd.pos \in Nat
  BY CdReadsKeep
<1>4. PICK t : /\ CdAccepted(sd, t) /\ t.state = "Fifo" /\ t.dat = FF /\ t.pos = sd.pos
               /\ sd' = Received(t, b)
  BY CdReadsKeep
<1>5. /\ CdRegs(t) /\ t.rsp = "WRITING" /\ (t.have <=> sd.have) /\ (t.stb <=> sd.stb) /\ t.r1 = 0
      /\ t.fifo = sd.fifo /\ (t.started <=> sd.started) /\ ~t.full /\ ~t.crcErr
  BY <1>2, <1>3, <1>4 DEF CdAccepted
<1>6. CdBlock(s) /\ \E T : s \in Seq(T) /\ Len(s) = BlockLen
  BY <1>3, CdBlocks
<1>7. /\ u[1] = <<"token", 0>> /\ u[BlockLen + 2] = BlockCrc(s)
      /\ \A i \in 1 .. BlockLen : u[i + 1] = s[i]
      /\ \E S : u \in Seq(S) /\ Len(u) = BlockLen + 2
  <2> HIDE DEF s
  <2>1. PICK T : s \in Seq(T) /\ Len(s) = BlockLen  BY <1>6
  <2> DEFINE n == Len(s)
  <2>2. /\ u \in Seq(T \cup {<<"token", 0>>, BlockCrc(s)}) /\ Len(u) = n + 2
        /\ u[1] = <<"token", 0>> /\ u[n + 2] = BlockCrc(s)
        /\ \A i \in 1 .. n : u[i + 1] = s[i]
    BY <2>1, CdStreams
  <2>3. n = BlockLen  BY <2>1
  <2> HIDE DEF u, n
  <2> QED  BY <2>2, <2>3
<1>8. j < BlockLen + 2 => /\ card.blk # <<>> /\ Head(card.blk) = u[j + 1]
                          /\ Tail(card.blk) = SubSeq(u, j + 2, BlockLen + 2)
  <2> SUFFICES ASSUME j < BlockLen + 2
               PROVE  /\ card.blk # <<>> /\ Head(card.blk) = u[j + 1]
                      /\ Tail(card.blk) = SubSeq(u, j + 2, BlockLen + 2)
    OBVIOUS
  <2> DEFINE k == j + 1
  <2>1. card.blk = SubSeq(u, k, BlockLen + 2)  OBVIOUS
  <2> HIDE DEF u
  <2>2. PICK S : u \in Seq(S) /\ Len(u) = BlockLen + 2  BY <1>7
  <2>3. k \in 1 .. Len(u) /\ k + 1 = j + 2  BY <1>1, <2>2
  <2> HIDE DEF k
  <2>4. LET v == SubSeq(u, k, Len(u))
        IN v # <<>> /\ Head(v) = u[k] /\ Tail(v) = SubSeq(u, k + 1, Len(u))
    BY <2>2, <2>3, CdLeft
  <2>5. card.blk # <<>> /\ Head(card.blk) = u[k] /\ Tail(card.blk) = SubSeq(u, j + 2, BlockLen + 2)
    BY <2>1, <2>2, <2>3, <2>4
  <2> QED  BY <2>5 DEF k
<1>9. /\ CdGoesOn(card, card') /\ card'.dly = 0 /\ card'.rsp = <<>> /\ card'.blkdly = 0
      /\ j < BlockLen + 2 => /\ card'.out = u[j + 1]
                             /\ card'.blk = SubSeq(u, j + 2, BlockLen + 2)
      /\ j = BlockLen + 2 => card'.out = FF /\ card'.blk = <<>>
  <2>1. CASE j < BlockLen + 2
    <3> HIDE DEF u
    <3>1. card.blk # <<>>  BY <1>8, <2>1
    <3>2. Head(card.blk) = u[j + 1] /\ Tail(card.blk) = SubSeq(u, j + 2, BlockLen + 2)  BY <1>8, <2>1
    <3>3. /\ CdGoesOn(card, card') /\ card'.dly = 0 /\ card'.rsp = <<>> /\ card'.blkdly = 0
          /\ card'.out = Head(card.blk) /\ card'.blk = Tail(card.blk)
      BY <1>1, <1>2, <1>3, <3>1, CdSendsBlock
    <3>4. card'.out = u[j + 1] /\ card'.blk = SubSeq(u, j + 2, BlockLen + 2)  BY <3>2, <3>3
    <3>5. j # BlockLen + 2  BY <1>1, <2>1
    <3> QED  BY <3>3, <3>4, <3>5
  <2>2. CASE j = BlockLen + 2
    <3>1. card.blk = SubSeq(u, BlockLen + 3, BlockLen + 2)  BY <1>1, <2>2
    <3>2. card.blk = <<>>  BY <1>1, <3>1, SubSeqEmpty
    <3>3. /\ CdGoesOn(card, card') /\ card'.dly = 0 /\ card'.rsp = <<>> /\ card'.blkdly = 0
          /\ card'.out = FF /\ card'.blk = <<>>
      BY <1>1, <1>2, <1>3, <3>2, CdResponds
    <3> HIDE DEF u
    <3> QED  BY <1>1, <2>2, <3>3
  <2>3. j < BlockLen + 2 \/ j = BlockLen + 2  BY <1>1
  <2> QED  BY <2>1, <2>2, <2>3
<1>10. /\ CdShape(card') /\ ~card'.failed /\ ~card'.reading /\ card'.idx = 4
       /\ (card'.alt <=> card.alt) /\ card'.reset = card.reset /\ card'.dly \in Nat /\ card'.blkdly \in Nat
  BY <1>9 DEF CdGoesOn
\* What the controller makes of the byte.
<1>11. /\ CdStores(t, sd') /\ ~sd'.crcErr /\ CdBlock(sd'.fifo) /\ sd'.started
       /\ j < BlockLen + 2 => /\ ~sd'.full /\ sd'.pos = j - 1
                              /\ \A i \in 1 .. j - 1 : sd'.fifo[i] = s[i]
       /\ j = BlockLen + 2 => sd'.full /\ sd'.pos = BlockLen /\ sd'.fifo = s
  <2>0. t.pos \in Nat /\ t.state \notin {"Cmd", "Arg", "Crc"}  BY <1>3, <1>4
  <2> HIDE DEF u
  <2>1. CASE j = 1
    <3>1. b = <<"token", 0>> /\ ~t.started /\ t.pos = 0  BY <1>4, <1>5, <1>7, <2>1
    <3> HIDE DEF b, s
    <3>2. /\ CdStores(t, sd') /\ sd'.fifo = t.fifo /\ sd'.pos = t.pos /\ ~sd'.full
          /\ (sd'.crcErr <=> t.crcErr) /\ (sd'.started <=> b = <<"token", 0>>)
      BY <1>1, <1>4, <1>5, <2>0, <3>1, CdHearsBlock
    <3>3. j < BlockLen + 2 /\ j - 1 = 0  BY <1>1, <2>1
    <3> QED  BY <1>1, <1>5, <2>1, <3>1, <3>2, <3>3
  <2>2. CASE j > 1 /\ j < BlockLen + 2
    <3> DEFINE p == j - 1
    <3>1. t.started /\ t.pos + 1 = p /\ t.pos < BlockLen /\ p \in 1 .. BlockLen /\ p + 1 = j
          /\ sd.pos = p - 1
      BY <1>1, <1>3, <1>4, <1>5, <2>2
    <3>2. b = s[p]  BY <1>7, <3>1
    <3>3. \A i \in 1 .. p - 1 : sd.fifo[i] = s[i]  BY <3>1
    <3> HIDE DEF b, s, p
    <3>4. /\ CdStores(t, sd') /\ sd'.fifo = [t.fifo EXCEPT ![t.pos + 1] = b] /\ sd'.pos = t.pos + 1
          /\ ~sd'.full /\ (sd'.crcErr <=> t.crcErr) /\ sd'.started
      BY <1>1, <1>4, <1>5, <2>0, <3>1, CdHearsBlock
    <3>5. sd'.fifo = [sd.fifo EXCEPT ![p] = b] /\ sd'.pos = p  BY <1>5, <3>1, <3>4
    <3>6. sd.fifo \in [1 .. BlockLen -> {sd.fifo[i] : i \in 1 .. BlockLen}]
      <4> DEFINE f == sd.fifo
      <4>1. f = [i \in 1 .. BlockLen |-> f[i]]  BY <1>1 DEF CdBlock
      <4> HIDE DEF f
      <4>2. [i \in 1 .. BlockLen |-> f[i]] \in [1 .. BlockLen -> {f[i] : i \in 1 .. BlockLen}]  OBVIOUS
      <4>3. f \in [1 .. BlockLen -> {f[i] : i \in 1 .. BlockLen}]  BY <4>1, <4>2
      <4> QED  BY <4>3 DEF f
    <3>7. CdBlock(sd'.fifo)  BY <3>5, <3>6 DEF CdBlock
    <3>8. \A i \in 1 .. p : sd'.fifo[i] = s[i]
      <4>1. ASSUME NEW i \in 1 .. p PROVE sd'.fifo[i] = s[i]
        <5>1. i \in 1 .. BlockLen /\ (i = p \/ i \in 1 .. p - 1)  BY <1>1, <3>1, <4>1
        <5>2. sd'.fifo[i] = IF i = p THEN b ELSE sd.fifo[i]  BY <3>5, <3>6, <5>1
        <5> QED  BY <3>2, <3>3, <5>1, <5>2
      <4> QED  BY <4>1
    <3>9. p = j - 1 /\ j # BlockLen + 2  BY <2>2 DEF p
    <3> QED  BY <1>5, <2>2, <3>4, <3>5, <3>7, <3>8, <3>9
  <2>3. CASE j = BlockLen + 2
    <3>1. t.started /\ t.pos = BlockLen /\ sd.pos = BlockLen  BY <1>1, <1>3, <1>4, <1>5, <2>3
    <3>2. b = BlockCrc(s)  BY <1>7, <2>3
    <3>3. \A i \in 1 .. BlockLen : sd.fifo[i] = s[i]  BY <3>1
    <3> HIDE DEF b, s
    <3>4. sd.fifo = s
      <4> DEFINE f == sd.fifo
      <4>1. f = [i \in 1 .. BlockLen |-> f[i]] /\ \A i \in 1 .. BlockLen : f[i] = s[i]
        BY <1>1, <3>3 DEF CdBlock
      <4>2. s = [i \in 1 .. BlockLen |-> s[i]]  BY <1>6 DEF CdBlock
      <4> HIDE DEF f
      <4>3. [i \in 1 .. BlockLen |-> f[i]] = [i \in 1 .. BlockLen |-> s[i]]  BY <4>1
      <4>4. f = s  BY <4>1, <4>2, <4>3
      <4> QED  BY <4>4 DEF f
    <3>5. /\ CdStores(t, sd') /\ sd'.fifo = t.fifo /\ sd'.pos = t.pos /\ sd'.full
          /\ (sd'.crcErr <=> b # BlockCrc(t.fifo)) /\ sd'.started
      BY <1>1, <1>4, <1>5, <2>0, <3>1, CdHearsBlock
    <3>6. ~sd'.crcErr /\ sd'.fifo = s /\ sd'.pos = BlockLen  BY <1>5, <3>1, <3>2, <3>4, <3>5
    <3>7. CdBlock(sd'.fifo) /\ ~(j < BlockLen + 2)  BY <1>1, <1>6, <2>3, <3>6
    <3> QED  BY <2>3, <3>5, <3>6, <3>7
  <2>4. j = 1 \/ (j > 1 /\ j < BlockLen + 2) \/ j = BlockLen + 2  BY <1>1
  <2> QED  BY <2>1, <2>2, <2>3, <2>4
<1> HIDE DEF u, s, b
<1>12. /\ CdHeard(t, sd') /\ sd'.rsp = "WRITING" /\ sd'.r1 = 0 /\ sd'.stb /\ sd'.have
       /\ sd'.state = "Fifo" /\ sd'.dat = FF
  BY <1>2, <1>3, <1>4, <1>5, <1>11 DEF CdStores, CdHeard
<1>13. /\ CdTypes' /\ CdAsked' /\ sd'.n = 17 /\ sd'.arg = sd.arg /\ CdRuns'
  BY <1>1, <1>2, <1>3, <1>4, <1>10, <1>11, <1>12, CdCarries
<1>14. CdHas'  BY <1>10, <1>13 DEF CdHas
<1>15. CdDone(card', sd'.n, 0)  BY <1>2, <1>10, <1>13 DEF CdDone
<1>16. Blocks[sd'.arg] = s /\ CdStream(Blocks[sd'.arg]) = u  BY <1>13 DEF u, s
<1>17. CdReads'
  <2>1. CASE j < BlockLen + 2
    <3>1. \E k \in 1 .. BlockLen + 2 :
            /\ card'.out = u[k] /\ card'.blk = SubSeq(u, k + 1, BlockLen + 2)
            /\ sd'.started <=> k > 1
            /\ sd'.pos = IF k > 1 THEN k - 2 ELSE 0
            /\ \A i \in 1 .. sd'.pos : sd'.fifo[i] = s[i]
      <4>1. j + 1 \in 1 .. BlockLen + 2 /\ j + 1 > 1 /\ (j + 1) + 1 = j + 2 /\ (j + 1) - 2 = j - 1
        BY <1>1, <2>1
      <4> DEFINE k == j + 1
      <4>2. k \in 1 .. BlockLen + 2 /\ k > 1 /\ card'.out = u[k] /\ card'.blk = SubSeq(u, k + 1, BlockLen + 2)
            /\ sd'.pos = k - 2
        BY <1>9, <1>11, <2>1, <4>1
      <4>3. sd'.started /\ \A i \in 1 .. sd'.pos : sd'.fifo[i] = s[i]  BY <1>11, <2>1
      <4> HIDE DEF k
      <4> QED  BY <4>2, <4>3
    <3> QED  BY <1>9, <1>10, <1>11, <1>12, <1>13, <1>14, <1>15, <1>16, <2>1, <3>1 DEF CdReads
  <2>2. CASE j = BlockLen + 2
    BY <1>9, <1>10, <1>11, <1>12, <1>13, <1>14, <1>15, <1>16, <2>2 DEF CdReads
  <2>3. j < BlockLen + 2 \/ j = BlockLen + 2  BY <1>1
  <2> QED  BY <2>1, <2>2, <2>3
<1> QED  BY <1>13, <1>17 DEF CdInv, CdPhase

\* The block is whole: the command is over.
LEMMA CdReadsEnd ==
  ASSUME CdTypes, CdReads, SdExchange, card.rsp = <<>>, card.blkdly = 0, card.blk = <<>>,
         sd.full, sd.fifo = Blocks[sd.arg]
  PROVE  CdInv'
<1>1. /\ CdRegs(sd) /\ CdShape(card) /\ ~card.failed /\ CdBlock(sd.fifo)
  BY DEF CdTypes
<1>2. /\ CdAsked /\ sd.busy /\ ~sd.err /\ sd.n = 17 /\ sd.have /\ sd.r1 = 0 /\ CdDone(card, sd.n, 0)
      /\ card.idx = 4 /\ card.dly = 0 /\ card.blkdly \in Nat /\ ~card.reading /\ ~sd.crcErr
  BY DEF CdReads, CdHas, CdRuns
<1>3. /\ card' = CardByte(card, FF) /\ owner' = "sd" /\ last' = last
      /\ sd.rsp = "WRITING" /\ sd.stb
  BY CdReadsKeep
<1>4. PICK t : /\ CdAccepted(sd, t) /\ t.state = "Fifo"
               /\ sd' = Received(t, card.out)
  BY CdReadsKeep
<1>5. /\ CdRegs(t) /\ t.rsp = "WRITING" /\ t.r1 = 0 /\ t.fifo = sd.fifo /\ t.full /\ ~t.crcErr
  BY <1>2, <1>3, <1>4 DEF CdAccepted
<1>6. CdHeard(t, sd') /\ CdNoData(t, sd') /\ sd'.r1 = 0 /\ ~sd'.stb
  BY <1>4, <1>5, CdHearsMore
<1>7. sd'.fifo = sd.fifo /\ ~sd'.crcErr  BY <1>5, <1>6 DEF CdNoData
<1>8. CdGoesOn(card, card') /\ card'.dly = 0
  BY <1>1, <1>2, <1>3, CdResponds
<1>9. /\ CdShape(card') /\ ~card'.failed /\ ~card'.reading /\ (card'.alt <=> card.alt) /\ card'.reset = card.reset
  BY <1>8 DEF CdGoesOn
<1>10. /\ CdTypes' /\ CdAsked' /\ sd'.busy /\ ~sd'.err /\ sd'.n = 17 /\ sd'.arg = sd.arg
  BY <1>1, <1>2, <1>3, <1>4, <1>6, <1>7, <1>9, CdCarries
<1>11. CdAnswers'
  <2>1. CdDone(card', sd'.n, sd'.r1)  BY <1>2, <1>6, <1>9, <1>10 DEF CdDone
  <2> QED  BY <1>6, <1>7, <1>10, <2>1 DEF CdAnswers
<1>12. CdOver'  BY <1>3, <1>6, <1>8, <1>9, <1>10, <1>11 DEF CdOver
<1> QED  BY <1>10, <1>12 DEF CdInv, CdPhase

\* A byte while a block is read.
LEMMA CdReadsStep ==
  ASSUME CdTypes, CdReads, SdExchange
  PROVE  CdInv'
<1> DEFINE s == Blocks[sd.arg]
<1>1. \/ /\ card.rsp \in {<<>>, <<FF>>} /\ card.out = FF
         /\ card.blk = CdStream(s) /\ ~sd.started /\ sd.pos = 0 /\ ~sd.full
      \/ /\ card.rsp = <<>> /\ card.blkdly = 0 /\ ~sd.full
         /\ \E j \in 1 .. BlockLen + 2 :
              /\ card.out = CdStream(s)[j] /\ card.blk = SubSeq(CdStream(s), j + 1, BlockLen + 2)
              /\ sd.started <=> j > 1
              /\ sd.pos = IF j > 1 THEN j - 2 ELSE 0
              /\ \A i \in 1 .. sd.pos : sd.fifo[i] = s[i]
      \/ /\ card.rsp = <<>> /\ card.blkdly = 0 /\ card.blk = <<>>
         /\ sd.full /\ sd.fifo = s
  BY DEF CdReads
<1> QED  BY <1>1, CdReadsDelay, CdReadsByte, CdReadsEnd

\* A block is written: what every byte of it leaves.
LEMMA CdWritesKeep ==
  ASSUME CdTypes, CdWrites \/ CdWritten, SdExchange
  PROVE  /\ CdRegs(sd) /\ CdShape(card) /\ ~card.failed /\ CdBlock(sd.fifo)
         /\ CdAsked /\ sd.busy /\ ~sd.err /\ sd.stb /\ sd.n = 24 /\ sd.useFifo /\ sd.fifoWr /\ ~sd.word
         /\ card.idx = 4 /\ card.dly = 0 /\ card.blkdly = 0 /\ card.blk = <<>> /\ CdDone(card, 24, 0)
         /\ sd' = Received(Accepted(sd), card.out) /\ card' = CardByte(card, sd.dat)
         /\ owner' = "sd" /\ last' = last
<1>1. /\ CdRegs(sd) /\ CdShape(card) /\ ~card.failed /\ CdBlock(sd.fifo)  BY DEF CdTypes
<1>2. /\ CdAsked /\ sd.busy /\ ~sd.err /\ sd.stb /\ sd.n = 24
      /\ card.idx = 4 /\ card.dly = 0 /\ card.blkdly = 0 /\ card.blk = <<>> /\ CdDone(card, 24, 0)
  BY DEF CdWrites, CdWritten, CdHas, CdRuns
<1>3. sd.useFifo /\ sd.fifoWr /\ ~sd.word  BY <1>2 DEF CdAsked, CdRequest
<1> QED  BY <1>1, <1>2, <1>3, CdExchanges

\* What stays as it is while a block is written.
LEMMA CdWritesOn ==
  ASSUME CdTypes, CdWrites, SdExchange, NEW t, CdAccepted(sd, t), CdHeard(t, sd'),
         sd'.fifo = t.fifo, sd'.stb, CdTakesBlock(card, card')
  PROVE  /\ CdTypes' /\ CdHas' /\ sd'.n = 24 /\ sd'.fifo = WriteBlock /\ CdDone(card', sd'.n, 0)
         /\ card'.dly = 0 /\ card'.blkdly = 0 /\ card'.blk = <<>>
<1>1. /\ CdBlock(sd.fifo) /\ CdAsked /\ sd.busy /\ ~sd.err /\ sd.n = 24 /\ card.idx = 4 /\ card.dly = 0
      /\ card.blkdly = 0 /\ card.blk = <<>> /\ CdDone(card, 24, 0) /\ owner' = "sd" /\ last' = last
  BY CdWritesKeep
<1>2. sd.fifo = WriteBlock  BY DEF CdWrites
<1>3. /\ CdShape(card') /\ ~card'.failed /\ card'.idx = 4 /\ (card'.alt <=> card.alt)
      /\ card'.reset = card.reset /\ card'.dly = 0 /\ card'.blk = <<>> /\ card'.blkdly = 0
  BY <1>1 DEF CdTakesBlock
<1>4. sd'.fifo = WriteBlock /\ CdBlock(sd'.fifo)  BY <1>1, <1>2 DEF CdAccepted
<1>5. CdTypes' /\ CdRuns' /\ sd'.n = 24  BY <1>1, <1>3, <1>4, CdCarries
<1>6. CdHas'  BY <1>3, <1>5 DEF CdHas
<1>7. CdDone(card', sd'.n, 0)  BY <1>1, <1>3, <1>5 DEF CdDone
<1> QED  BY <1>3, <1>4, <1>5, <1>6, <1>7

\* The answer.
LEMMA CdWritesAnswer ==
  ASSUME CdTypes, CdWrites, SdExchange, sd.state = "Wait", sd.dat = FF, CdBegin, card.reading,
         ~card.token, card.out = <<"r1", 0>>
  PROVE  CdInv'
<1> DEFINE t == Accepted(sd)
<1>1. /\ CdRegs(sd) /\ CdShape(card) /\ ~card.failed /\ sd.stb /\ sd.useFifo /\ sd.fifoWr /\ ~sd.word
      /\ card' = CardByte(card, FF) /\ BlockLen \in Nat
  BY CdWritesKeep, CdBlocks
<1>2. sd.pos = 0 /\ sd.rsp = "NONE" /\ ~sd.have  BY DEF CdBegin
<1>3. CdAccepted(sd, t) /\ t.state = "Wait" /\ t.dat = FF /\ t.pos = 0
  BY <1>1, <1>2, CdAccepts
<1> HIDE DEF t
<1>4. sd' = Received(t, <<"r1", 0>>)  BY CdExchanges DEF t
<1>5. /\ CdRegs(t) /\ t.rsp = "NONE" /\ ~t.word /\ t.useFifo /\ t.fifoWr
  BY <1>1, <1>2, <1>3 DEF CdAccepted
<1>6. /\ CdHeard(t, sd') /\ CdNoData(t, sd') /\ sd'.r1 = 0 /\ sd'.have /\ sd'.stb /\ sd'.rsp = "GETTOKEN"
  BY <1>3, <1>4, <1>5, CdHearsAnswer
<1>7. sd'.fifo = t.fifo /\ sd'.pos = 0 /\ sd'.state = "Wait" /\ sd'.dat = FF
  BY <1>3, <1>6 DEF CdNoData, CdHeard
<1>8. CdTakesBlock(card, card') /\ card'.reading /\ ~card'.token /\ card'.out = FF
  <2>1. FF # <<"token", 0>>  BY CdKinds
  <2> QED  BY <1>1, <2>1, CdBlockBytes
<1>9. /\ CdTypes' /\ CdHas' /\ sd'.n = 24 /\ sd'.fifo = WriteBlock /\ CdDone(card', sd'.n, 0)
      /\ card'.dly = 0 /\ card'.blkdly = 0 /\ card'.blk = <<>>
  BY <1>3, <1>6, <1>7, <1>8, CdWritesOn
<1>10. CdWrites'  BY <1>6, <1>7, <1>8, <1>9 DEF CdWrites
<1> QED  BY <1>9, <1>10 DEF CdInv, CdPhase

\* Once it is answered, the bytes go out; the card is silent.
CdWritesData ==
  sd.rsp = "GETTOKEN" /\ sd.have /\ sd.r1 = 0 /\ card.out = FF /\ card.reading

\* While a block is written the card is silent.
LEMMA CdWritesSilent ==
  ASSUME CdTypes, CdWrites, SdExchange, CdWritesData, sd.pos \in Nat,
         sd.state \in {"Wait", "Fifo"}
  PROVE  LET t == Accepted(sd)
         IN /\ CdAccepted(sd, t) /\ sd' = t /\ CdHeard(t, sd') /\ sd'.fifo = t.fifo /\ sd'.stb
            /\ sd'.rsp = "GETTOKEN" /\ sd'.have /\ sd'.r1 = 0
<1> DEFINE t == Accepted(sd)
<1>1. /\ CdRegs(sd) /\ sd.stb /\ BlockLen \in Nat /\ sd' = Received(t, FF)
  BY CdWritesKeep, CdBlocks DEF CdWritesData
<1>2. CdAccepted(sd, t)  BY <1>1, CdAccepts
<1> HIDE DEF t
<1>3. /\ CdRegs(t) /\ t.rsp = "GETTOKEN" /\ t.have /\ t.stb /\ t.r1 = 0
  BY <1>1, <1>2 DEF CdAccepted, CdWritesData
<1>4. FF[1] # "resp"  BY CdKinds
<1>5. sd' = t /\ CdHeard(t, sd')  BY <1>1, <1>3, <1>4, CdHearsNone
<1> QED  BY <1>2, <1>3, <1>5 DEF t

\* The byte before the token, and the token.
LEMMA CdWritesToken ==
  ASSUME CdTypes, CdWrites, SdExchange, CdWritesData, sd.pos = 0, ~card.token,
         \/ sd.state = "Wait" /\ sd.dat = FF
         \/ sd.state = "Fifo" /\ sd.dat = <<"token", 0>>
  PROVE  CdInv'
<1> DEFINE t == Accepted(sd)
<1>1. /\ CdRegs(sd) /\ CdShape(card) /\ ~card.failed /\ sd.stb /\ sd.useFifo /\ sd.fifoWr
      /\ card' = CardByte(card, sd.dat) /\ BlockLen \in Nat /\ BlockLen > 0
      /\ card.reading /\ sd.have /\ sd.fifo = WriteBlock
  BY CdWritesKeep, CdBlocks DEF CdWritesData, CdWrites
<1>2. /\ sd.state = "Wait" => t.state = "Fifo" /\ t.dat = <<"token", 0>> /\ t.pos = 0
      /\ sd.state = "Fifo" => t.state = "Fifo" /\ t.dat = WriteBlock[1] /\ t.pos = 1
  BY <1>1, CdAccepts
<1>3. /\ CdAccepted(sd, t) /\ sd' = t /\ CdHeard(t, sd') /\ sd'.fifo = t.fifo /\ sd'.stb
      /\ sd'.rsp = "GETTOKEN" /\ sd'.have /\ sd'.r1 = 0
  BY CdWritesSilent
<1> HIDE DEF t
<1>4. /\ CdTakesBlock(card, card') /\ card'.reading /\ card'.out = FF
      /\ sd.state = "Wait" => ~card'.token
      /\ sd.state = "Fifo" => card'.token /\ card'.rx = <<>>
  <2>1. FF # <<"token", 0>>  BY CdKinds
  <2> QED  BY <1>1, <2>1, CdBlockBytes
<1>5. /\ CdTypes' /\ CdHas' /\ sd'.n = 24 /\ sd'.fifo = WriteBlock /\ CdDone(card', sd'.n, 0)
      /\ card'.dly = 0 /\ card'.blkdly = 0 /\ card'.blk = <<>>
  BY <1>3, <1>4, CdWritesOn
<1>6. CASE sd.state = "Wait"
  <2>1. CdWrites'  BY <1>2, <1>3, <1>4, <1>5, <1>6 DEF CdWrites
  <2> QED  BY <1>5, <2>1 DEF CdInv, CdPhase
<1>7. CASE sd.state = "Fifo"
  <2>1. SubSeq(WriteBlock, 1, 1 - 1) = <<>>
    BY SubSeqEmpty
  <2>2. 1 \in 1 .. BlockLen  BY <1>1
  <2>3. sd'.pos \in 1 .. BlockLen /\ sd'.dat = WriteBlock[sd'.pos] /\ card'.rx = SubSeq(WriteBlock, 1, sd'.pos - 1)
    BY <1>2, <1>3, <1>4, <1>7, <2>1, <2>2
  <2>4. CdWrites'  BY <1>2, <1>3, <1>4, <1>5, <1>7, <2>3 DEF CdWrites
  <2> QED  BY <1>5, <2>4 DEF CdInv, CdPhase
<1> QED  BY <1>6, <1>7

\* The words.
LEMMA CdWritesWord ==
  ASSUME CdTypes, CdWrites, SdExchange, CdWritesData, sd.state = "Fifo", card.token,
         NEW k \in 1 .. BlockLen, sd.pos = k, sd.dat = WriteBlock[k],
         card.rx = SubSeq(WriteBlock, 1, k - 1)
  PROVE  CdInv'
<1> DEFINE t == Accepted(sd)
<1>1. /\ CdRegs(sd) /\ CdShape(card) /\ ~card.failed /\ sd.stb /\ sd.useFifo /\ sd.fifoWr
      /\ card' = CardByte(card, sd.dat) /\ BlockLen \in Nat /\ BlockLen > 0
      /\ card.reading /\ sd.have /\ sd.fifo = WriteBlock
  BY CdWritesKeep, CdBlocks DEF CdWritesData, CdWrites
<1>2. /\ k < BlockLen => t.state = "Fifo" /\ t.dat = WriteBlock[k + 1] /\ t.pos = k + 1
      /\ k = BlockLen => t.state = "Fifo" /\ t.dat = BlockCrc(WriteBlock) /\ t.pos = BlockLen + 1
  BY <1>1, CdAccepts
<1>3. /\ CdAccepted(sd, t) /\ sd' = t /\ CdHeard(t, sd') /\ sd'.fifo = t.fifo /\ sd'.stb
      /\ sd'.rsp = "GETTOKEN" /\ sd'.have /\ sd'.r1 = 0
  BY <1>1, CdWritesSilent
<1> HIDE DEF t
<1>4. /\ Len(SubSeq(WriteBlock, 1, k - 1)) = k - 1
      /\ Append(SubSeq(WriteBlock, 1, k - 1), WriteBlock[k]) = SubSeq(WriteBlock, 1, k)
      /\ SubSeq(WriteBlock, 1, BlockLen) = WriteBlock
  <2>1. PICK T : WriteBlock \in Seq(T) /\ Len(WriteBlock) = BlockLen  BY CdBlocks
  <2> QED  BY <2>1, CdTaken
<1>5. CdTakesBlock(card, card') /\ card'.reading /\ card'.token /\ card'.out = FF
      /\ card'.rx = SubSeq(WriteBlock, 1, k)
  <2>1. Len(card.rx) < BlockLen  BY <1>1, <1>4
  <2>2. Append(card.rx, sd.dat) = SubSeq(WriteBlock, 1, k)  BY <1>4
  <2>3. /\ CdTakesBlock(card, card') /\ card'.reading /\ card'.token /\ card'.out = FF
        /\ card'.rx = Append(card.rx, sd.dat)
    BY <1>1, <2>1, CdBlockBytes
  <2> QED  BY <2>2, <2>3
<1>6. /\ CdTypes' /\ CdHas' /\ sd'.n = 24 /\ sd'.fifo = WriteBlock /\ CdDone(card', sd'.n, 0)
      /\ card'.dly = 0 /\ card'.blkdly = 0 /\ card'.blk = <<>>
  BY <1>3, <1>5, CdWritesOn
<1>7. CASE k < BlockLen
  <2>1. k + 1 \in 1 .. BlockLen /\ (k + 1) - 1 = k  BY <1>1, <1>7
  <2>2. sd'.pos \in 1 .. BlockLen /\ sd'.dat = WriteBlock[sd'.pos] /\ card'.rx = SubSeq(WriteBlock, 1, sd'.pos - 1)
    BY <1>2, <1>3, <1>5, <1>7, <2>1
  <2>3. CdWrites'  BY <1>2, <1>3, <1>5, <1>6, <1>7, <2>2 DEF CdWrites
  <2> QED  BY <1>6, <2>3 DEF CdInv, CdPhase
<1>8. CASE k = BlockLen
  <2>1. card'.rx = WriteBlock  BY <1>4, <1>5, <1>8
  <2>2. CdWrites'  BY <1>2, <1>3, <1>5, <1>6, <1>8, <2>1 DEF CdWrites
  <2> QED  BY <1>6, <2>2 DEF CdInv, CdPhase
<1> QED  BY <1>1, <1>7, <1>8

\* The checksum: the card accepts the block.
LEMMA CdWritesCrc ==
  ASSUME CdTypes, CdWrites, SdExchange, CdWritesData, sd.state = "Fifo", card.token,
         sd.pos = BlockLen + 1, sd.dat = BlockCrc(WriteBlock), card.rx = WriteBlock
  PROVE  CdInv'
<1> DEFINE t == Accepted(sd)
<1>1. /\ CdRegs(sd) /\ CdShape(card) /\ ~card.failed /\ sd.stb /\ sd.useFifo /\ sd.fifoWr
      /\ card' = CardByte(card, sd.dat) /\ BlockLen \in Nat /\ BlockLen > 0
      /\ card.reading /\ sd.have /\ Len(WriteBlock) = BlockLen
  BY CdWritesKeep, CdBlocks DEF CdWritesData, CdWrites
<1>2. t.state = "Done" /\ t.dat = FF /\ t.pos = BlockLen + 1
  BY <1>1, CdAccepts
<1>3. /\ CdAccepted(sd, t) /\ sd' = t /\ CdHeard(t, sd') /\ sd'.fifo = t.fifo /\ sd'.stb
      /\ sd'.rsp = "GETTOKEN" /\ sd'.have /\ sd'.r1 = 0
  BY <1>1, CdWritesSilent
<1> HIDE DEF t
<1>4. CdTakesBlock(card, card') /\ ~card'.reading /\ card'.out = <<"resp", 5>>
  <2>1. ~(Len(card.rx) < BlockLen) /\ sd.dat = BlockCrc(card.rx)  BY <1>1
  <2> QED  BY <1>1, <2>1, CdBlockBytes
<1>5. /\ CdTypes' /\ CdHas' /\ sd'.n = 24 /\ CdDone(card', sd'.n, 0)
      /\ card'.dly = 0 /\ card'.blkdly = 0 /\ card'.blk = <<>>
  BY <1>3, <1>4, CdWritesOn
<1>6. CdWritten'  BY <1>2, <1>3, <1>4, <1>5 DEF CdWritten
<1> QED  BY <1>5, <1>6 DEF CdInv, CdPhase

\* A byte while a block is written.
LEMMA CdWritesStep ==
  ASSUME CdTypes, CdWrites, SdExchange
  PROVE  CdInv'
<1>1. card.reading  BY DEF CdWrites
<1>2. \/ sd.state = "Wait" /\ sd.dat = FF /\ CdBegin /\ ~card.token /\ card.out = <<"r1", 0>>
      \/ CdWritesData /\ sd.pos = 0 /\ ~card.token
         /\ ((sd.state = "Wait" /\ sd.dat = FF) \/ (sd.state = "Fifo" /\ sd.dat = <<"token", 0>>))
      \/ CdWritesData /\ sd.state = "Fifo" /\ sd.pos \in 1 .. BlockLen /\ sd.dat = WriteBlock[sd.pos]
         /\ card.token /\ card.rx = SubSeq(WriteBlock, 1, sd.pos - 1)
      \/ CdWritesData /\ sd.state = "Fifo" /\ sd.pos = BlockLen + 1 /\ sd.dat = BlockCrc(WriteBlock)
         /\ card.token /\ card.rx = WriteBlock
  BY <1>1 DEF CdWrites, CdWritesData
<1> QED  BY <1>1, <1>2, CdWritesAnswer, CdWritesToken, CdWritesWord, CdWritesCrc

\* The card's data response, and the end.
LEMMA CdWrittenStep ==
  ASSUME CdTypes, CdWritten, SdExchange
  PROVE  CdInv'
<1> DEFINE t == Accepted(sd)
<1>1. /\ CdRegs(sd) /\ CdShape(card) /\ ~card.failed /\ CdBlock(sd.fifo)
      /\ CdAsked /\ sd.busy /\ ~sd.err /\ sd.stb /\ sd.n = 24
      /\ card.idx = 4 /\ card.dly = 0 /\ card.blkdly = 0 /\ card.blk = <<>> /\ CdDone(card, 24, 0)
      /\ card' = CardByte(card, sd.dat) /\ owner' = "sd" /\ last' = last
      /\ BlockLen \in Nat
  BY CdWritesKeep, CdBlocks
<1>2. /\ sd.state = "Done" /\ sd.dat = FF /\ sd.pos = BlockLen + 1 /\ sd.have /\ sd.r1 = 0 /\ ~card.reading
      /\ \/ sd.rsp = "GETTOKEN" /\ card.out = <<"resp", 5>>
         \/ sd.rsp \in {"BUSY", "RDCOMPLETE"} /\ sd.data = <<"resp", 5>>
  BY DEF CdWritten
<1>3. CdAccepted(sd, t) /\ t.state = "Done" /\ t.dat = FF /\ t.pos = BlockLen + 1
  BY <1>1, <1>2, CdAccepts
<1> HIDE DEF t
<1>4. sd' = Received(t, card.out)  BY CdExchanges DEF t
<1>5. /\ CdRegs(t) /\ t.rsp = sd.rsp /\ t.have /\ t.stb /\ t.r1 = 0 /\ t.data = sd.data /\ t.fifo = sd.fifo
      /\ t.state \notin {"Cmd", "Arg", "Crc"}
  BY <1>1, <1>2, <1>3 DEF CdAccepted
<1>6. /\ CdHeard(t, sd') /\ CdNoData(t, sd') /\ sd'.r1 = 0
      /\ \/ sd'.stb /\ sd'.have /\ sd'.rsp \in {"BUSY", "RDCOMPLETE"} /\ sd'.data = <<"resp", 5>>
         \/ ~sd'.stb /\ sd'.data = <<"resp", 5>>
  <2>1. CASE sd.rsp = "GETTOKEN" /\ card.out = <<"resp", 5>>
    <3>1. card.out[1] = "resp"  BY <2>1, CdKinds
    <3> QED  BY <1>4, <1>5, <2>1, <3>1, CdHearsMore
  <2>2. CASE sd.rsp = "BUSY" /\ sd.data = <<"resp", 5>>
    BY <1>4, <1>5, <2>2, CdHearsMore
  <2>3. CASE sd.rsp = "RDCOMPLETE" /\ sd.data = <<"resp", 5>>
    BY <1>4, <1>5, <2>3, CdHearsMore
  <2> QED  BY <1>2, <2>1, <2>2, <2>3
<1>7. sd'.fifo = sd.fifo /\ sd'.pos = BlockLen + 1 /\ sd'.state = "Done" /\ sd'.dat = FF
  BY <1>3, <1>5, <1>6 DEF CdNoData, CdHeard
<1>8. CdGoesOn(card, card') /\ card'.dly = 0 /\ card'.blkdly = 0 /\ card'.blk = <<>>
  <2>1. card' = CardByte(card, FF)  BY <1>1, <1>2
  <2>2. CASE card.rsp = <<>>  BY <1>1, <1>2, <2>1, <2>2, CdResponds
  <2>3. CASE card.rsp # <<>>  BY <1>1, <1>2, <2>1, <2>3, CdResponds
  <2> QED  BY <2>2, <2>3
<1>9. /\ CdShape(card') /\ ~card'.failed /\ ~card'.reading /\ card'.idx = 4
      /\ (card'.alt <=> card.alt) /\ card'.reset = card.reset /\ card'.dly \in Nat /\ card'.blkdly \in Nat
  BY <1>8 DEF CdGoesOn
<1>10. /\ CdTypes' /\ CdAsked' /\ sd'.busy /\ ~sd'.err /\ sd'.n = 24 /\ (sd'.stb => CdRuns')
  BY <1>1, <1>3, <1>6, <1>7, <1>9, CdCarries
<1>11. CdDone(card', sd'.n, 0)  BY <1>1, <1>9, <1>10 DEF CdDone
<1>12. CASE sd'.stb
  <2>1. CdHas'  BY <1>9, <1>10, <1>12 DEF CdHas
  <2>2. CdWritten'  BY <1>6, <1>7, <1>8, <1>9, <1>10, <1>11, <1>12, <2>1 DEF CdWritten
  <2> QED  BY <1>10, <2>2 DEF CdInv, CdPhase
<1>13. CASE ~sd'.stb
  <2>1. CdAnswers'  BY <1>6, <1>10, <1>11, <1>13 DEF CdAnswers
  <2>2. CdOver'  BY <1>1, <1>8, <1>9, <1>10, <1>13, <2>1 DEF CdOver
  <2> QED  BY <1>10, <2>2 DEF CdInv, CdPhase
<1> QED  BY <1>12, <1>13

\* A byte exchanged keeps the invariant, whatever phase it is.
LEMMA CdExchange ==
  ASSUME CdInv, SdExchange
  PROVE  CdInv'
<1>1. CdTypes /\ CdPhase /\ sd.stb  BY CdExchanges DEF CdInv
<1>2. CdStarts \/ CdSends \/ CdDelays \/ CdWord \/ CdReads \/ CdWrites \/ CdWritten
  BY <1>1 DEF CdPhase, CdNew, CdIdle, CdGivenUp, CdOver
<1>3. CASE CdSends
  <2>1. card.idx \in {1, 2} \/ card.idx = 3  BY <1>3 DEF CdSends
  <2> QED  BY <1>1, <1>3, <2>1, CdSendsStep, CdTakenStep
<1>4. CASE CdDelays  BY <1>1, <1>4, CdDelaysStep, CdAnswerStep
<1>5. CASE CdStarts  BY <1>1, <1>5, CdStartsStep
<1>6. CASE CdWord  BY <1>1, <1>6, CdWordStep
<1>7. CASE CdReads  BY <1>1, <1>7, CdReadsStep
<1>8. CASE CdWrites  BY <1>1, <1>8, CdWritesStep
<1>9. CASE CdWritten  BY <1>1, <1>9, CdWrittenStep
<1> QED  BY <1>2, <1>3, <1>4, <1>5, <1>6, <1>7, <1>8, <1>9

\* A command ends: the card is deselected.
LEMMA CdEnds ==
  ASSUME CdInv, SdEnd
  PROVE  CdInv'
<1>1. /\ CdRegs(sd) /\ CdShape(card) /\ ~card.failed /\ CdBlock(sd.fifo) /\ CdPhase
      /\ owner \in {"flash", "sd"}
  BY DEF CdInv, CdTypes
<1>2. /\ sd.busy /\ ~sd.stb /\ last' = last /\ card' = CardDeselect(card) /\ HandOver
      /\ sd' = [sd EXCEPT !.busy = FALSE, !.state = "Cmd", !.rsp = "NONE", !.have = FALSE,
                          !.pos = 0, !.started = FALSE, !.full = FALSE, !.dat = FF]
  BY DEF SdEnd, SdFinish
<1>3. /\ CdAsked /\ ~card.reading /\ card.dly = 0
      /\ \/ sd.err /\ CdReady(card, sd.n)
         \/ ~sd.err /\ CdAnswers
  BY <1>1, <1>2 DEF CdPhase, CdNew, CdIdle, CdStarts, CdGivenUp, CdSends, CdDelays, CdWord, CdReads,
                    CdWrites, CdWritten, CdOver, CdHas, CdRuns, CdQuiet
<1>4. /\ CdRegs(sd') /\ ~sd'.busy /\ ~sd'.stb /\ sd'.n = sd.n /\ sd'.arg = sd.arg /\ sd'.r1 = sd.r1
      /\ sd'.data = sd.data /\ sd'.fifo = sd.fifo /\ (sd'.crcErr <=> sd.crcErr) /\ (sd'.err <=> sd.err)
      /\ (sd'.word <=> sd.word) /\ (sd'.useFifo <=> sd.useFifo) /\ (sd'.fifoWr <=> sd.fifoWr)
  <2> DEFINE y == FF  e == [sd EXCEPT !.busy = FALSE, !.state = "Cmd", !.rsp = "NONE", !.have = FALSE,
                                      !.pos = 0, !.started = FALSE, !.full = FALSE, !.dat = y]
  <2> HIDE DEF y
  <2>1. CdRegs(e)  BY <1>1 DEF CdRegs
  <2>2. /\ ~e.busy /\ (e.stb <=> sd.stb) /\ e.n = sd.n /\ e.arg = sd.arg /\ e.r1 = sd.r1
        /\ e.data = sd.data /\ e.fifo = sd.fifo
    BY <1>1 DEF CdRegs
  <2>3. /\ (e.crcErr <=> sd.crcErr) /\ (e.err <=> sd.err)
        /\ (e.word <=> sd.word) /\ (e.useFifo <=> sd.useFifo) /\ (e.fifoWr <=> sd.fifoWr)
    BY <1>1 DEF CdRegs
  <2>4. sd' = e  BY <1>2 DEF y
  <2> HIDE DEF e
  <2> QED  BY <1>2, <2>1, <2>2, <2>3, <2>4
<1>5. /\ CdShape(card') /\ ~card'.failed /\ CdQuiet' /\ (card'.alt <=> card.alt) /\ card'.reset = card.reset
  <2> DEFINE y == FF  z == <<>>
             e == [card EXCEPT !.idx = 0, !.out = y, !.rsp = z, !.blk = z, !.blkdly = 0]
  <2>1. card' = e  BY <1>2 DEF CardDeselect
  <2> HIDE DEF y, z
  <2>2. /\ CdShape(e) /\ ~e.failed /\ e.idx = 0 /\ e.out = y /\ e.rsp = z /\ e.blk = z /\ e.blkdly = 0
        /\ e.dly = 0 /\ ~e.reading /\ (e.alt <=> card.alt) /\ e.reset = card.reset
    BY <1>1, <1>3 DEF CdShape
  <2> HIDE DEF e
  <2> QED  BY <2>1, <2>2 DEF CdQuiet, y, z
<1>6. CdAsked'
  <2>1. CdRequest(sd) /\ CdRequest(last) /\ last.n = sd.n /\ last.arg = sd.arg  BY <1>3 DEF CdAsked
  <2>2. CdRequest(sd')
    <3>1. sd'.word \in BOOLEAN /\ sd'.useFifo \in BOOLEAN /\ sd'.fifoWr \in BOOLEAN
      BY <1>4 DEF CdRegs
    <3> QED  BY <1>4, <2>1, <3>1 DEF CdRequest
  <2> QED  BY <1>2, <1>4, <2>1, <2>2 DEF CdAsked
<1>7. CdTypes'
  <2>1. NextOwner(fl'.cs, sd'.busy) \in {"flash", "sd"}  BY <1>1 DEF NextOwner
  <2>2. owner' \in {"flash", "sd"}  BY <1>1, <1>2, <2>1 DEF HandOver
  <2> QED  BY <1>1, <1>4, <1>5, <2>2 DEF CdTypes
<1>8. CASE sd.err /\ CdReady(card, sd.n)
  <2>1. sd'.err /\ CdReady(card', sd'.n)  BY <1>4, <1>5, <1>8 DEF CdReady
  <2>2. CdIdle'  BY <1>4, <1>5, <1>6, <2>1 DEF CdIdle
  <2> QED  BY <1>7, <2>2 DEF CdInv, CdPhase
<1>9. CASE ~sd.err /\ CdAnswers
  <2>1. CdDone(card', sd'.n, sd'.r1)  BY <1>4, <1>5, <1>9 DEF CdAnswers, CdDone
  <2>2. CdAnswers'  BY <1>4, <1>9, <2>1 DEF CdAnswers
  <2>3. CdIdle'  BY <1>4, <1>5, <1>6, <1>9, <2>2 DEF CdIdle
  <2> QED  BY <1>7, <2>3 DEF CdInv, CdPhase
<1> QED  BY <1>3, <1>8, <1>9

\* A command that does not get the lines is given up before the card sees it.
LEMMA CdGivesUp ==
  ASSUME CdInv, SdGiveUp
  PROVE  CdInv'
<1>1. /\ CdRegs(sd) /\ CdShape(card) /\ ~card.failed /\ CdBlock(sd.fifo) /\ CdPhase
      /\ owner \in {"flash", "sd"}
  BY DEF CdInv, CdTypes
<1>2. /\ sd.stb /\ owner # "sd" /\ last' = last /\ owner' = owner /\ card' = card
      /\ sd' = [sd EXCEPT !.stb = FALSE, !.err = TRUE]
  BY DEF SdGiveUp, SdWatchdog, SdGrant
<1>3. CdAsked /\ sd.busy /\ CdQuiet /\ CdReady(card, sd.n)
  BY <1>1, <1>2 DEF CdPhase, CdNew, CdIdle, CdStarts, CdGivenUp, CdSends, CdDelays, CdWord, CdReads,
                    CdWrites, CdWritten, CdOver, CdHas, CdRuns
<1>4. /\ CdRegs(sd') /\ sd'.busy /\ ~sd'.stb /\ sd'.err /\ sd'.n = sd.n /\ sd'.arg = sd.arg
      /\ sd'.fifo = sd.fifo
      /\ (sd'.word <=> sd.word) /\ (sd'.useFifo <=> sd.useFifo) /\ (sd'.fifoWr <=> sd.fifoWr)
  <2> DEFINE e == [sd EXCEPT !.stb = FALSE, !.err = TRUE]
  <2>1. /\ CdRegs(e) /\ (e.busy <=> sd.busy) /\ ~e.stb /\ e.err /\ e.n = sd.n /\ e.arg = sd.arg
        /\ e.fifo = sd.fifo
        /\ (e.word <=> sd.word) /\ (e.useFifo <=> sd.useFifo) /\ (e.fifoWr <=> sd.fifoWr)
    BY <1>1 DEF CdRegs
  <2>2. sd' = e  BY <1>2
  <2> HIDE DEF e
  <2> QED  BY <1>3, <2>1, <2>2
<1>5. CdAsked'
  <2>1. CdRequest(sd) /\ CdRequest(last) /\ last.n = sd.n /\ last.arg = sd.arg  BY <1>3 DEF CdAsked
  <2>2. CdRequest(sd')
    <3>1. sd'.word \in BOOLEAN /\ sd'.useFifo \in BOOLEAN /\ sd'.fifoWr \in BOOLEAN
      BY <1>4 DEF CdRegs
    <3> QED  BY <1>4, <2>1, <3>1 DEF CdRequest
  <2> QED  BY <1>2, <1>4, <2>1, <2>2 DEF CdAsked
<1>6. CdTypes'  BY <1>1, <1>2, <1>4 DEF CdTypes
<1>7. CdQuiet' /\ CdReady(card', sd'.n)  BY <1>2, <1>3, <1>4 DEF CdQuiet
<1>8. CdGivenUp'  BY <1>4, <1>5, <1>7 DEF CdGivenUp
<1> QED  BY <1>6, <1>8 DEF CdInv, CdPhase

\* The driver gives a command.
LEMMA CdAsks ==
  ASSUME CdTypes, CdQuiet, ~sd.busy, NEW r, CdRequest(r), CdReady(card, r.n), WriteCommand(r),
         last' = r, owner' = owner
  PROVE  CdInv'
<1>1. /\ CdRegs(sd) /\ CdShape(card) /\ ~card.failed /\ CdBlock(sd.fifo) /\ owner \in {"flash", "sd"}
      /\ CdBlock(WriteBlock) /\ BlockLen \in Nat
  BY CdBlocks DEF CdTypes
<1>2. card' = card  BY DEF WriteCommand
<1>3. r.word \in BOOLEAN /\ r.useFifo \in BOOLEAN /\ r.fifoWr \in BOOLEAN  BY DEF CdRequest
<1>4. /\ CdRegs(sd') /\ sd'.busy /\ sd'.stb /\ ~sd'.err /\ sd'.n = r.n /\ sd'.arg = r.arg
      /\ sd'.fifo = (IF r.fifoWr THEN WriteBlock ELSE sd.fifo)
      /\ (sd'.word <=> r.word) /\ (sd'.useFifo <=> r.useFifo) /\ (sd'.fifoWr <=> r.fifoWr)
      /\ sd'.state = "Cmd" /\ sd'.rsp = "NONE" /\ ~sd'.have /\ sd'.pos = 0 /\ ~sd'.started
      /\ ~sd'.full /\ ~sd'.crcErr /\ sd'.dat = <<"cmd", r.n>>
  <2> DEFINE u == r.useFifo  f == r.fifoWr  w == r.word  n == r.n  a == r.arg  d == <<"cmd", n>>
             b == IF f THEN WriteBlock ELSE sd.fifo
             e == [sd EXCEPT !.busy = TRUE, !.stb = TRUE, !.state = "Cmd", !.rsp = "NONE",
                             !.have = FALSE, !.useFifo = u, !.fifoWr = f,
                             !.word = w, !.n = n, !.arg = a,
                             !.dat = d, !.pos = 0, !.started = FALSE,
                             !.full = FALSE, !.crcErr = FALSE, !.err = FALSE,
                             !.fifo = b]
  <2>0. /\ u = r.useFifo /\ f = r.fifoWr /\ w = r.word /\ n = r.n /\ a = r.arg
        /\ d = <<"cmd", r.n>> /\ b = (IF r.fifoWr THEN WriteBlock ELSE sd.fifo)
        /\ u \in BOOLEAN /\ f \in BOOLEAN /\ w \in BOOLEAN
    BY <1>3
  <2>1. sd' = [sd EXCEPT !.busy = TRUE, !.stb = TRUE, !.state = "Cmd", !.rsp = "NONE",
                         !.have = FALSE, !.useFifo = r.useFifo, !.fifoWr = r.fifoWr,
                         !.word = r.word, !.n = r.n, !.arg = r.arg,
                         !.dat = <<"cmd", r.n>>, !.pos = 0, !.started = FALSE,
                         !.full = FALSE, !.crcErr = FALSE, !.err = FALSE,
                         !.fifo = IF r.fifoWr THEN WriteBlock ELSE @]
    BY DEF WriteCommand
  <2>2. sd' = e  BY <1>1, <2>1 DEF CdRegs
  <2> HIDE DEF u, f, w, n, a, d, b
  <2>9. u \in BOOLEAN /\ f \in BOOLEAN /\ w \in BOOLEAN  BY <2>0
  <2>10. CdRegs(e)  BY <1>1, <2>9 DEF CdRegs
  <2>11. e.busy /\ e.stb /\ ~e.err /\ e.n = n /\ e.arg = a /\ e.fifo = b
    BY <1>1 DEF CdRegs
  <2>3. /\ CdRegs(e) /\ e.busy /\ e.stb /\ ~e.err /\ e.n = n /\ e.arg = a /\ e.fifo = b
    BY <2>10, <2>11
  <2>4. e.word = w /\ e.useFifo = u /\ e.fifoWr = f
    BY <1>1 DEF CdRegs
  <2>5. /\ e.state = "Cmd" /\ e.rsp = "NONE" /\ ~e.have /\ e.pos = 0 /\ ~e.started
        /\ ~e.full /\ ~e.crcErr /\ e.dat = d
    BY <1>1 DEF CdRegs
  <2> HIDE DEF e
  <2>6. /\ CdRegs(sd') /\ sd'.busy /\ sd'.stb /\ ~sd'.err /\ sd'.n = r.n /\ sd'.arg = r.arg
        /\ sd'.fifo = (IF r.fifoWr THEN WriteBlock ELSE sd.fifo)
    BY <2>0, <2>2, <2>3
  <2>7. (sd'.word <=> r.word) /\ (sd'.useFifo <=> r.useFifo) /\ (sd'.fifoWr <=> r.fifoWr)
    BY <2>0, <2>2, <2>4
  <2>8. /\ sd'.state = "Cmd" /\ sd'.rsp = "NONE" /\ ~sd'.have /\ sd'.pos = 0 /\ ~sd'.started
        /\ ~sd'.full /\ ~sd'.crcErr /\ sd'.dat = <<"cmd", r.n>>
    BY <2>0, <2>2, <2>5
  <2> QED  BY <2>6, <2>7, <2>8
<1>5. CdTypes'
  <2>1. CdBlock(sd'.fifo)  BY <1>1, <1>4
  <2> QED  BY <1>1, <1>2, <1>4, <2>1 DEF CdTypes
<1>6. CdAsked'
  <2>1. sd'.word \in BOOLEAN /\ sd'.useFifo \in BOOLEAN /\ sd'.fifoWr \in BOOLEAN
    BY <1>4 DEF CdRegs
  <2>2. CdRequest(sd')  BY <1>4, <2>1 DEF CdRequest
  <2> QED  BY <1>4, <2>2 DEF CdAsked
<1>7. CdBegin'
  <2>1. sd'.n = 24 => sd'.fifo = WriteBlock  BY <1>4 DEF CdRequest
  <2> QED  BY <1>4, <2>1 DEF CdBegin
<1>8. CdQuiet'  BY <1>2 DEF CdQuiet
<1>9. CdReady(card', sd'.n)  BY <1>2, <1>4
<1>10. CdStarts'  BY <1>4, <1>6, <1>7, <1>8, <1>9 DEF CdStarts
<1> QED  BY <1>5, <1>10 DEF CdInv, CdPhase

\* A step that leaves the card's side alone, but for the card's power.
LEMMA CdFrames ==
  ASSUME CdInv, sd' = sd, last' = last, CdShape(card'), owner' \in {"flash", "sd"},
         owner = "sd" /\ sd.busy => owner' = "sd",
         /\ card'.idx = card.idx /\ card'.cmd = card.cmd /\ card'.arg = card.arg /\ card'.alt = card.alt
         /\ card'.reset = card.reset /\ card'.rsp = card.rsp /\ card'.dly = card.dly
         /\ card'.blkdly = card.blkdly /\ card'.blk = card.blk /\ card'.reading = card.reading
         /\ card'.token = card.token /\ card'.rx = card.rx /\ card'.out = card.out
         /\ card'.failed = card.failed
  PROVE  CdInv'
<1>1. CdTypes /\ CdPhase  BY DEF CdInv
<1>2. CdTypes'  BY <1>1 DEF CdTypes
<1>3. /\ CdAsked' <=> CdAsked
      /\ CdQuiet' <=> CdQuiet
      /\ CdBegin' <=> CdBegin
      /\ CdReady(card', sd'.n) <=> CdReady(card, sd.n)
      /\ \A v : CdDone(card', sd'.n, v) <=> CdDone(card, sd.n, v)
  BY DEF CdAsked, CdQuiet, CdBegin, CdReady, CdDone
<1>4. CdAnswers' <=> CdAnswers  BY <1>3 DEF CdAnswers
<1>5. CdRuns => CdRuns'  BY <1>3 DEF CdRuns
<1>6. CdHas => CdHas'  BY <1>5 DEF CdHas
<1>7. CASE CdNew
  <2>1. CdNew'  BY <1>3, <1>7 DEF CdNew
  <2> QED  BY <1>2, <2>1 DEF CdInv, CdPhase
<1>8. CASE CdIdle
  <2>1. CdIdle'  BY <1>3, <1>4, <1>8 DEF CdIdle
  <2> QED  BY <1>2, <2>1 DEF CdInv, CdPhase
<1>9. CASE CdStarts
  <2>1. CdStarts'  BY <1>3, <1>9 DEF CdStarts
  <2> QED  BY <1>2, <2>1 DEF CdInv, CdPhase
<1>10. CASE CdGivenUp
  <2>1. CdGivenUp'  BY <1>3, <1>10 DEF CdGivenUp
  <2> QED  BY <1>2, <2>1 DEF CdInv, CdPhase
<1>11. CASE CdSends
  <2>1. CdSends'  BY <1>3, <1>5, <1>11 DEF CdSends
  <2> QED  BY <1>2, <2>1 DEF CdInv, CdPhase
<1>12. CASE CdDelays
  <2>1. CdDelays'  BY <1>3, <1>6, <1>12 DEF CdDelays
  <2> QED  BY <1>2, <2>1 DEF CdInv, CdPhase
<1>13. CASE CdWord
  <2>1. CdWord'  BY <1>3, <1>6, <1>13 DEF CdWord
  <2> QED  BY <1>2, <2>1 DEF CdInv, CdPhase
<1>14. CASE CdReads
  <2>1. CdReads'  BY <1>3, <1>6, <1>14 DEF CdReads
  <2> QED  BY <1>2, <2>1 DEF CdInv, CdPhase
<1>15. CASE CdWrites
  <2>1. CdWrites'  BY <1>3, <1>6, <1>15 DEF CdWrites
  <2> QED  BY <1>2, <2>1 DEF CdInv, CdPhase
<1>16. CASE CdWritten
  <2>1. CdWritten'  BY <1>3, <1>6, <1>16 DEF CdWritten
  <2> QED  BY <1>2, <2>1 DEF CdInv, CdPhase
<1>17. CASE CdOver
  <2>1. CdOver'  BY <1>3, <1>4, <1>17 DEF CdOver
  <2> QED  BY <1>2, <2>1 DEF CdInv, CdPhase
<1> QED
  BY <1>1, <1>7, <1>8, <1>9, <1>10, <1>11, <1>12, <1>13, <1>14, <1>15, <1>16, <1>17 DEF CdPhase

\* The card's side does not move.
LEMMA CdSame ==
  ASSUME CdInv, sd' = sd, last' = last, card' = card, owner' \in {"flash", "sd"},
         owner = "sd" /\ sd.busy => owner' = "sd"
  PROVE  CdInv'
<1>1. CdShape(card)  BY DEF CdInv, CdTypes
<1> QED  BY <1>1, CdFrames

\* The card has power.
LEMMA CdPowers ==
  ASSUME CdInv, SdPowerUp
  PROVE  CdInv'
<1>1. /\ CdShape(card) /\ owner \in {"flash", "sd"}  BY DEF CdInv, CdTypes
<1>2. /\ card' = [card EXCEPT !.power = "up"] /\ sd' = sd /\ last' = last /\ owner' = owner
  BY DEF SdPowerUp, PowerUp, CardPowered
<1> DEFINE e == [card EXCEPT !.power = "up"]
<1>3. CdShape(e)  BY <1>1 DEF CdShape
<1>4. /\ e.idx = card.idx /\ e.cmd = card.cmd /\ e.arg = card.arg /\ e.alt = card.alt
      /\ e.reset = card.reset /\ e.rsp = card.rsp /\ e.dly = card.dly
      /\ e.blkdly = card.blkdly /\ e.blk = card.blk /\ e.reading = card.reading
      /\ e.token = card.token /\ e.rx = card.rx /\ e.out = card.out /\ e.failed = card.failed
  BY <1>1 DEF CdShape
<1>5. card' = e  BY <1>2
<1> HIDE DEF e
<1> QED  BY <1>1, <1>2, <1>3, <1>4, <1>5, CdFrames

\* The driver's next command fits what the card has seen.
LEMMA CdNextFits ==
  ASSUME CdTypes, CdAsked, ~sd.err, CdAnswers, NEW r \in NextCommands
  PROVE  CdRequest(r) /\ CdReady(card, r.n)
<1>1. /\ sd.r1 \in {0, 1} /\ CdDone(card, sd.n, sd.r1) /\ last.n = sd.n
      /\ sd.n \in {0, 8, 55, 41, 58, 17, 24}
  BY DEF CdAnswers, CdAsked, CdRequest
<1>2. CASE last.n = 0
  <2>1. r = [n |-> 8, arg |-> 0, word |-> TRUE, useFifo |-> FALSE, fifoWr |-> FALSE]
    BY <1>2 DEF NextCommands, Plain
  <2>2. CdRequest(r)  BY <2>1 DEF CdRequest
  <2> QED  BY <1>1, <1>2, <2>1, <2>2 DEF CdDone, CdReady
<1>3. CASE last.n = 8 \/ (last.n = 41 /\ sd.r1 = 1)
  <2> DEFINE p == Plain(55)
  <2>0. r = p
    <3>1. CASE last.n = 8  BY <3>1 DEF NextCommands
    <3>2. CASE last.n = 41 /\ sd.r1 = 1  BY <3>2 DEF NextCommands
    <3> QED  BY <1>3, <3>1, <3>2
  <2>1. r = [n |-> 55, arg |-> 0, word |-> FALSE, useFifo |-> FALSE, fifoWr |-> FALSE]
    BY <2>0 DEF Plain
  <2>2. CdRequest(r)  BY <2>1 DEF CdRequest
  <2> QED  BY <1>1, <1>3, <2>1, <2>2 DEF CdDone, CdReady
<1>4. CASE last.n = 55
  <2>1. r = [n |-> 41, arg |-> 0, word |-> FALSE, useFifo |-> FALSE, fifoWr |-> FALSE]
    BY <1>4 DEF NextCommands, Plain
  <2>2. CdRequest(r)  BY <2>1 DEF CdRequest
  <2> QED  BY <1>1, <1>4, <2>1, <2>2 DEF CdDone, CdReady
<1>5. CASE last.n = 41 /\ sd.r1 # 1
  <2>1. r = [n |-> 58, arg |-> 0, word |-> TRUE, useFifo |-> FALSE, fifoWr |-> FALSE]
    BY <1>5 DEF NextCommands, Plain
  <2>2. CdRequest(r)  BY <2>1 DEF CdRequest
  <2> QED  BY <1>1, <1>5, <2>1, <2>2 DEF CdDone, CdReady
<1>6. CASE last.n \in {58, 17, 24}
  <2>1. \/ \E b \in BlockAddr :
             r = [n |-> 17, arg |-> b, word |-> FALSE, useFifo |-> TRUE, fifoWr |-> FALSE]
        \/ r = [n |-> 24, arg |-> 0, word |-> FALSE, useFifo |-> TRUE, fifoWr |-> TRUE]
    <3>1. NextCommands = {[Plain(17) EXCEPT !.useFifo = TRUE, !.arg = b] : b \in BlockAddr}
                         \cup {[Plain(24) EXCEPT !.useFifo = TRUE, !.fifoWr = TRUE]}
      <4>1. /\ last.n # -1 /\ last.n # 0 /\ last.n # 8 /\ last.n # 55 /\ last.n # 41  BY <1>6
      <4> QED  BY <4>1, Zenon DEF NextCommands
    <3>2. CASE r \in {[Plain(17) EXCEPT !.useFifo = TRUE, !.arg = b] : b \in BlockAddr}
      BY <3>2 DEF Plain
    <3>3. CASE r = [Plain(24) EXCEPT !.useFifo = TRUE, !.fifoWr = TRUE]
      BY <3>3 DEF Plain
    <3> QED  BY <3>1, <3>2, <3>3
  <2>2. CdRequest(r) /\ r.n \in {17, 24}
    <3>1. CASE \E b \in BlockAddr :
                 r = [n |-> 17, arg |-> b, word |-> FALSE, useFifo |-> TRUE, fifoWr |-> FALSE]
      BY <3>1 DEF CdRequest
    <3>2. CASE r = [n |-> 24, arg |-> 0, word |-> FALSE, useFifo |-> TRUE, fifoWr |-> TRUE]
      BY <3>2 DEF CdRequest
    <3> QED  BY <2>1, <3>1, <3>2
  <2>3. card.reset = "OPERATION" /\ ~card.alt  BY <1>1, <1>6 DEF CdDone
  <2> QED  BY <2>2, <2>3 DEF CdReady
<1> QED  BY <1>1, <1>2, <1>3, <1>4, <1>5, <1>6

\* The driver asks for its next command, or once more for one that was given up.
LEMMA CdDrives ==
  ASSUME CdInv, Drive
  PROVE  CdInv'
<1>1. CdTypes /\ CdPhase /\ owner \in {"flash", "sd"} /\ CdShape(card)  BY DEF CdInv, CdTypes
<1>2. PICK r \in IF sd.err THEN {last} ELSE NextCommands :
        WriteCommand(r) /\ last' = IF sd.busy THEN last ELSE r
  BY DEF Drive
<1>3. owner' = owner  BY DEF Drive
<1>4. CASE sd.busy
  <2>1. sd' = sd /\ card' = card  BY <1>2, <1>4 DEF WriteCommand
  <2> QED  BY <1>1, <1>2, <1>3, <1>4, <2>1, CdSame
<1>5. CASE ~sd.busy
  <2>1. last' = r  BY <1>2, <1>5
  <2>2. CdNew \/ CdIdle
    BY <1>1, <1>5 DEF CdPhase, CdStarts, CdGivenUp, CdSends, CdDelays, CdWord, CdReads,
                      CdWrites, CdWritten, CdOver, CdHas, CdRuns
  <2>3. CdQuiet  BY <2>2 DEF CdNew, CdIdle
  <2>4. CdRequest(r) /\ CdReady(card, r.n)
    <3>1. CASE CdNew
      <4>1. r = [n |-> 0, arg |-> 0, word |-> FALSE, useFifo |-> FALSE, fifoWr |-> FALSE]
        BY <1>2, <3>1 DEF CdNew, NextCommands, Plain
      <4>2. CdRequest(r)  BY <4>1 DEF CdRequest
      <4> QED  BY <3>1, <4>1, <4>2 DEF CdNew, CdReady
    <3>2. CASE CdIdle /\ sd.err
      <4>1. r = last /\ CdRequest(last) /\ last.n = sd.n /\ CdReady(card, sd.n)
        BY <1>2, <3>2 DEF CdIdle, CdAsked
      <4> QED  BY <4>1
    <3>3. CASE CdIdle /\ ~sd.err
      <4>1. CdAsked /\ CdAnswers /\ r \in NextCommands  BY <1>2, <3>3 DEF CdIdle
      <4> QED  BY <1>1, <3>3, <4>1, CdNextFits
    <3> QED  BY <2>2, <3>1, <3>2, <3>3
  <2> QED  BY <1>1, <1>2, <1>3, <1>5, <2>1, <2>3, <2>4, CdAsks
<1> QED  BY <1>4, <1>5

\* The flash's side leaves the card alone, and its controller's lines while it
\* is selected.
LEMMA CdFlash ==
  ASSUME CdInv, UNCHANGED sdSide, owner' = owner \/ HandOver
  PROVE  CdInv'
<1>1. owner \in {"flash", "sd"} /\ sd' = sd /\ card' = card /\ last' = last
  BY DEF CdInv, CdTypes, sdSide
<1>2. CASE owner' = owner  BY <1>1, <1>2, CdSame
<1>3. CASE HandOver
  <2>1. owner' = owner \/ owner' = NextOwner(fl'.cs, sd.busy)  BY <1>1, <1>3 DEF HandOver
  <2>2. owner' = NextOwner(fl'.cs, sd.busy) => owner' \in {"flash", "sd"} /\ (owner = "sd" /\ sd.busy => owner' = "sd")
    BY <1>1 DEF NextOwner
  <2> QED  BY <1>1, <2>1, <2>2, CdSame
<1> QED  BY <1>2, <1>3

\* The arbiter never takes the lines from a command of the card.
LEMMA CdArbitrates ==
  ASSUME CdInv, Arbitrate
  PROVE  CdInv'
<1>1. owner \in {"flash", "sd"}  BY DEF CdInv, CdTypes
<1>2. /\ owner # NextOwner(fl.cs, sd.busy) /\ owner' = NextOwner(fl.cs, sd.busy)
      /\ sd' = sd /\ last' = last
  BY DEF Arbitrate
<1>3. ~(owner = "sd" /\ sd.busy) /\ owner' \in {"flash", "sd"}  BY <1>1, <1>2 DEF NextOwner
<1>4. card' = card  BY <1>3 DEF Arbitrate
<1> QED  BY <1>2, <1>3, <1>4, CdSame

\* Every step keeps the invariant of the card's side.
LEMMA CdNext ==
  ASSUME CdInv, [Next]_vars
  PROVE  CdInv'
<1>1. CASE Flash  BY <1>1, CdFlash DEF Flash
<1>2. CASE FlashChipDone  BY <1>2, CdFlash DEF FlashChipDone
<1>3. CASE Master  BY <1>3, CdFlash DEF Master
<1>4. CASE SdExchange  BY <1>4, CdExchange
<1>5. CASE SdEnd  BY <1>5, CdEnds
<1>6. CASE SdGiveUp  BY <1>6, CdGivesUp
<1>7. CASE SdPowerUp  BY <1>7, CdPowers
<1>8. CASE Drive  BY <1>8, CdDrives
<1>9. CASE Arbitrate  BY <1>9, CdArbitrates
<1>10. CASE UNCHANGED vars
  <2>1. UNCHANGED sdSide /\ owner' = owner  BY <1>10 DEF vars, sdSide
  <2> QED  BY <2>1, CdFlash
<1> QED
  BY <1>1, <1>2, <1>3, <1>4, <1>5, <1>6, <1>7, <1>8, <1>9, <1>10 DEF Next

\* The card's side begins in the invariant.
LEMMA CdInit ==
  ASSUME Init
  PROVE  CdInv
<1>1. CdShape(card) /\ ~card.failed /\ CdQuiet /\ ~card.alt
  BY DEF Init, SdInit, CardInit, CdShape, CdQuiet
<1>2. CdRegs(sd) /\ ~sd.busy /\ ~sd.stb /\ ~sd.err
  BY DEF Init, SdInit, CdRegs
<1>3. CdBlock(sd.fifo)
  <2>1. sd.fifo = [i \in 1 .. BlockLen |-> FF]  BY DEF Init, SdInit
  <2> QED  BY <2>1 DEF CdBlock
<1>4. owner = "flash" /\ last.n = -1  BY DEF Init, Plain
<1>5. CdNew  BY <1>1, <1>2, <1>4 DEF CdNew
<1>6. CdTypes  BY <1>1, <1>2, <1>3, <1>4 DEF CdTypes
<1> QED  BY <1>5, <1>6 DEF CdInv, CdPhase

\* What it says of the card: a command that ended without error has its answer, and no
\* assertion of the card failed.
LEMMA CdSaysIt ==
  ASSUME CdInv
  PROVE  SdAnswered /\ ~card.failed
<1>1. ~card.failed  BY DEF CdInv, CdTypes
<1>2. ASSUME ~sd.busy, last.n # -1, ~sd.err
      PROVE  CdAnswers
  BY <1>2 DEF CdInv, CdPhase, CdNew, CdIdle, CdStarts, CdGivenUp, CdSends, CdDelays, CdWord, CdReads,
              CdWrites, CdWritten, CdOver, CdHas, CdRuns
<1> QED  BY <1>1, <1>2 DEF SdAnswered, CdAnswers

-----------------------------------------------------------------------------
(* Both sides together.                                                    *)

\* The card's side alone.
LEMMA CdInvariant == Spec => []CdInv
<1>1. Init => CdInv  BY CdInit
<1>2. CdInv /\ [Next]_vars => CdInv'  BY CdNext
<1> QED  BY <1>1, <1>2, PTL DEF Spec

\* The flash's side, with a chip that knows the erase of its controller.
LEMMA FlInvariant ==
  ASSUME ChipErases
  PROVE  Spec => []FlInv
<1>1. Init => FlInv  BY FlInit DEF Init
<1>2. FlInv /\ [Next]_vars => FlInv'  BY FlNext
<1> QED  BY <1>1, <1>2, PTL DEF Spec

\* A word that is read from the flash is what the programs and erases that were
\* accepted before it left there, for every geometry of the chip, however they
\* are interleaved with the SD card's commands on the shared lines.  The chip
\* knows the erase of 4 kB, as that of the board does; an erase that was
\* answered while a write was in progress is dropped and is not counted.
THEOREM ReadsAreCurrent ==
  ASSUME ChipErases
  PROVE  Spec => []ReadsWhatWasWritten
<1>1. FlInv => ReadsWhatWasWritten  BY FlSays
<1> QED  BY <1>1, FlInvariant, PTL

\* Once the flash controller is idle and knows of no write in progress, the
\* chip's memory is what the programs it answered and the erases it began ask
\* for.  The chip knows the erase of 4 kB.  The erases that are answered and not
\* begun, those that find a write in progress, are not in this count: that they
\* are dropped is what a run shows (EraseNotDropped).
THEOREM WritesReachChip ==
  ASSUME ChipErases
  PROVE  Spec => []WritesLand
<1>1. FlInv => WritesLand  BY FlSays
<1> QED  BY <1>1, FlInvariant, PTL

\* A flash that knows the erase of 4 kB, as that of the board does, never gets
\* a command that it refuses, and no assertion of the simulated card fails:
\* every command comes after those that it needs, every checksum is the one of
\* what was sent, and the block that is read exists.
THEOREM ChipsAreServed ==
  ASSUME ChipErases
  PROVE  Spec => []NeverRefused
<1>1. FlInv /\ CdInv => NeverRefused  BY FlSays, CdSaysIt DEF NeverRefused
<1> QED  BY <1>1, FlInvariant, CdInvariant, PTL

\* A command of the SD card that ends without error has its answer: a read, the
\* whole block of the address it asked for, with its checksum; a write, the
\* card's acceptance.  A command that the watchdog gave up never has one.
THEOREM CardAnswers == Spec => []SdAnswered
<1>1. CdInv => SdAnswered  BY CdSaysIt
<1> QED  BY <1>1, CdInvariant, PTL
=============================================================================
