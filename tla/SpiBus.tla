------------------------------- MODULE SpiBus -------------------------------
(***************************************************************************)
(* Two controllers and two chips on one set of SPI lines: the flash        *)
(* controller is channel a of rtl/spiarbiter.v and the SD card controller  *)
(* channel b.  bench/cpp/busmaster_tb.cpp calls both chips at every clock  *)
(* with their own chip select and the shared lines.                        *)
(***************************************************************************)
EXTENDS SpiFlashCtl, SdSpi

CONSTANT Requests         \* what the flash's master may ask for

ASSUME RequestsAssumption ==
  \A r \in Requests :
    \/ r \in [to : {"data"}, we : BOOLEAN, addr : Addr, data : Byte]
    \/ r \in [to : {"ereg"}, we : {TRUE}, addr : Addr, data : [erase : BOOLEAN, unprotect : BOOLEAN]]
    \/ r \in [to : {"ereg", "sreg", "creg", "idreg"}, we : {FALSE}, addr : Addr, data : {{}}]

VARIABLES owner,          \* a_owner: "flash" or "sd"
          last            \* the driver of the SD card: its latest command

vars == <<flashVars, sd, card, owner, last>>

sdSide == <<sd, card, last>>

(***************************************************************************)
(* The arbiter: a chip select that is alone on the bus takes it, and both  *)
(* at once change nothing.                                                 *)
(***************************************************************************)
\* Mutant: the flash controller gets the lines back only when both are idle.
NextOwnerSticky(flashCs, sdCs) ==
  CASE ~flashCs /\ ~sdCs -> "flash"
    [] ~flashCs /\ sdCs -> "sd"
    [] OTHER -> owner
\* Mutant: the SD card takes the lines although the flash is selected.
NextOwnerSd(flashCs, sdCs) == IF sdCs THEN "sd" ELSE "flash"
NextOwner(flashCs, sdCs) ==
  CASE flashCs /\ sdCs -> owner
    [] ~flashCs /\ sdCs -> "sd"
    [] OTHER -> "flash"

\* A chip select that falls reaches the arbiter a clock later, and the other one
\* may fall in between.  One that rises is high for two clocks at least, so that
\* the arbiter moves before anything else of that controller does.  A chip sees
\* its select only while its controller owns the lines.
Arbitrate ==
  /\ owner # NextOwner(fl.cs, sd.busy)
  /\ owner' = NextOwner(fl.cs, sd.busy)
  /\ chip' = IF owner = "flash" /\ fl.cs THEN FlashDeselect(chip) ELSE chip
  /\ card' = IF owner = "sd" /\ sd.busy THEN CardDeselect(card) ELSE card
  /\ UNCHANGED <<fl, bus, want, misread, sd, last>>
HandOver ==
  owner' = IF (fl.cs /\ ~fl'.cs) \/ (sd.busy /\ ~sd'.busy)
           THEN NextOwner(fl'.cs, sd'.busy) ELSE owner

FlashGrant == owner = "flash"
SdGrant == owner = "sd"

(***************************************************************************)
(* The driver of the SD card brings the card up as its specification asks  *)
(* and then reads and writes blocks; a command that the watchdog ended is  *)
(* given again.  It may also write a command too early, which is ignored.  *)
(***************************************************************************)
Plain(n) == [n |-> n, arg |-> 0, word |-> FALSE, useFifo |-> FALSE, fifoWr |-> FALSE]
NextCommands ==
  CASE last.n = -1 -> {Plain(0)}
    [] last.n = 0 -> {[Plain(8) EXCEPT !.word = TRUE]}
    [] last.n = 8 \/ (last.n = 41 /\ sd.r1 = 1) -> {Plain(55)}
    [] last.n = 55 -> {Plain(41)}
    [] last.n = 41 /\ sd.r1 # 1 -> {[Plain(58) EXCEPT !.word = TRUE]}
    [] OTHER -> {[Plain(17) EXCEPT !.useFifo = TRUE, !.arg = b] : b \in BlockAddr}
           \cup {[Plain(24) EXCEPT !.useFifo = TRUE, !.fifoWr = TRUE]}

Drive ==
  /\ \E r \in IF sd.err THEN {last} ELSE NextCommands :
       /\ WriteCommand(r)
       /\ last' = IF sd.busy THEN last ELSE r
  /\ UNCHANGED <<flashVars, owner>>

-----------------------------------------------------------------------------
Init ==
  /\ FlashCtlInit
  /\ SdInit
  /\ owner = "flash"
  /\ last = Plain(-1)

FlashCtlStep ==
  \/ AcceptRead \/ AcceptWrite \/ WriteEreg \/ ReadRegister \/ PollWip
  \/ FlashStep(FlashGrant)
  \/ WaitWip \/ CheckWip \/ WipDone
  \/ WriteEnabled \/ StartProgram \/ SendWord \/ NextWord \/ EndProgram
  \/ ReadWord \/ AbandonRead \/ RegisterRead
  \/ EraseEnabled \/ SendErase \/ EraseSent \/ CheckIdle \/ WaitIdle

Flash == FlashCtlStep /\ UNCHANGED sdSide /\ HandOver
FlashChipDone == ChipDone /\ UNCHANGED <<sdSide, owner>>
Master == ((\E r \in Requests : Issue(r)) \/ EndCycle) /\ UNCHANGED <<sdSide, owner>>

SdExchange == SdByte(SdGrant) /\ UNCHANGED <<flashVars, last, owner>>
SdEnd == SdFinish(SdGrant) /\ UNCHANGED <<flashVars, last>> /\ HandOver
SdGiveUp == SdWatchdog(SdGrant) /\ fl.cs /\ UNCHANGED <<flashVars, last, owner>>
SdPowerUp == PowerUp /\ UNCHANGED <<flashVars, last, owner>>

Next == \/ Flash \/ FlashChipDone \/ Master
        \/ SdExchange \/ SdEnd \/ SdGiveUp \/ SdPowerUp \/ Drive \/ Arbitrate

\* A master that awaits nothing and asks for nothing ends its cycle.
LetGo == bus.pend = 0 /\ bus.stb = None /\ EndCycle /\ UNCHANGED <<sdSide, owner>>

\* Every clock of the hardware is a step of each machine, and the write cycle
\* of the flash ends.  A master may end its cycle while it waits, but need not.
Spec == /\ Init /\ [][Next]_vars
        /\ WF_vars(Flash) /\ WF_vars(FlashChipDone) /\ WF_vars(Arbitrate)
        /\ WF_vars(SdExchange) /\ WF_vars(SdEnd) /\ WF_vars(LetGo)
-----------------------------------------------------------------------------
TypeOK ==
  /\ chip.state \in FlashState /\ chip.mem \in [Addr -> Byte] /\ chip.addr \in Addr
  /\ fl.pc \in {"Idle", "WaitWip", "CheckWip", "WipDone", "Wen", "PP", "WrData", "WrBus",
                "Read", "Status", "Config", "ReadId", "EraseCmd", "Erase", "EraseBlock",
                "CheckIdle", "WaitIdle"}
  /\ bus.pend \in {0, 1}
  /\ want \in [Addr -> Byte]
  /\ owner \in {"flash", "sd"}

\* A word read from the flash is what the programs and erases accepted before
\* it left there, although a program is answered before it has begun and the
\* chip answers reads with zeros while one is under way.  An erase that was
\* answered while a write was in progress does not count: it is dropped.
ReadsWhatWasWritten == ~misread

\* When the controller is idle, and knows of no write in progress, the chip
\* holds what the programs and erases it began asked for: no program is lost,
\* cut short or sent to the wrong page, and no erase is undone, whoever had the
\* lines in between.  An erase that is answered while a write is in progress is
\* not begun and not counted here (EraseNotDropped).
WritesLand == fl.pc = "Idle" /\ ~fl.wip => chip.mem = want /\ ~chip.wip

\* wbspiflash.v:22: "W: (1'b1 to erase)".  With the protection off, an erase
\* that was answered is not given up.  One that was answered during a write is.
EraseNotDropped == fl.pc = "WaitIdle" /\ ~fl.wp => ~(fl.to = "ereg" /\ fl.we)

\* A flash that knows the 4 kB erase (ChipErases), as that of the board does,
\* never refuses a command: there is no program or erase without write enable
\* or during another.  No assertion of the simulated card fails.
NeverRefused == chip.state \notin {"INVALID", "ABORT"} /\ ~card.failed

\* qspiflashsim.cpp:348-351: the simulated flash gets no command it does not
\* know.  It knows the erase of a 64 kB sector (0xd8) and no other: the erase
\* the controller sends is the one it stops at.
KnownToSimulator == chip.state # "ABORT"

\* A command of the SD card that ends without error has its answer: the
\* acknowledgement, for a read the block that was asked for, and for a write
\* the card's data response.
SdAnswered ==
  ~sd.busy /\ sd.n # 0 /\ last.n # -1 /\ ~sd.err =>
    /\ sd.r1 \in {0, 1}
    /\ sd.n = 17 => sd.fifo = Blocks[sd.arg] /\ ~sd.crcErr
    /\ sd.n = 24 => sd.data = <<"resp", 5>>

\* A request of the flash's master is answered, or its cycle ends, however
\* long the other controller has the lines.
FlashAnswers == (bus.pend = 1) ~> (bus.pend = 0)
=============================================================================
