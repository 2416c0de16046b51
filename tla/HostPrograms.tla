------------------------------ MODULE HostPrograms ------------------------------
(***************************************************************************)
(* The programs of sw/ that work on the ZipCPU, run one after another:     *)
(* ziprun, zipdbg and zipstate. Between them, and between the accesses of  *)
(* each, the processor runs if it was let go.                              *)
(***************************************************************************)
EXTENDS ZipRun
-----------------------------------------------------------------------------
(***************************************************************************)
(* The debugger (sw/zipdbg.cpp): a screen of registers read over the debug *)
(* port, a cursor on one of them, keys that step, reset, or let go of the  *)
(* processor, and values typed into registers. Also sw/zipstate.cpp, which *)
(* reads the registers once.                                               *)
(***************************************************************************)
CONSTANTS Columns,      \* cells of a row of the screen, 4
          NShown,       \* cells of peripherals, 12
          FirstCounter  \* the first cell of the counters, 8: a row of them

ASSUME ScreenAssumption ==
  /\ {Columns, NShown} \subseteq Nat \ {0}
  /\ NShown % Columns = 0 /\ NCpu % Columns = 0
  /\ FirstCounter = NShown - Columns

VARIABLES m_cursor, m_show_users,  \* the cell of the cursor; which counters are shown
          screen,                  \* what is on the screen: "registers" or "stalled"
          m_state,                 \* the registers as they were read
          m_mem,                   \* the words at the program counter that were read
          typed                    \* the value last typed, and its cell and register

dbgvars == <<m_cursor, m_show_users, screen, m_state, m_mem, typed>>

Cells == NShown + NCpu

\* The register a cell shows: the user's counters lie past the master's.
ShownAt(c, users) ==
  IF c >= NShown THEN c - NShown
  ELSE IF users /\ c >= FirstCounter THEN NCpu + c + Columns
  ELSE NCpu + c

\* Mutant: the peripherals' addresses are not offset.
RegisterAtLow(c) == IF c >= NShown THEN c - NShown ELSE c

\* get_value: the register a value typed into a cell is written to.
RegisterAt(c) == IF c >= NShown THEN c - NShown ELSE c + NCpu

NotTyped == [r |-> 0, v |-> 0, shown |-> 0]
NoWindow == [at |-> 0, valid |-> FALSE, word |-> Old]

Blank == [r \in Followed |-> 0]

DbgInit ==
  /\ m_cursor = 0 /\ m_show_users = FALSE /\ screen = "stalled"
  /\ m_state = Blank /\ m_mem = NoWindow /\ typed = NotTyped

\* The program ends, and what it knew is gone.
Ends(how) ==
  /\ prog' = Shell(how)
  /\ m_cursor' = 0 /\ m_show_users' = FALSE /\ screen' = "stalled"
  /\ m_state' = Blank /\ m_mem' = NoWindow /\ typed' = NotTyped

At(at) == prog.who \in {"zipdbg", "zipstate"} /\ prog.at = at
DbgAt(at) == Running("zipdbg", at)

\* Nothing but the port, or nothing at all, changes.
Kept == UNCHANGED <<flashvars, runvars, faults>>

StartDbg(who) ==
  /\ prog.who = "none"
  /\ prog' = Program(who, IF who = "zipdbg" THEN "halt" ELSE "read")
  /\ image' = << >> /\ load' = NoLoad
  /\ UNCHANGED <<port, flashvars, faults, dbgvars>>

DbgHalt ==
  /\ DbgAt("halt")
  /\ WriteCtrl({"halt"}, 0)
  /\ Next_("settle")
  /\ UNCHANGED dbgvars /\ Kept

\* A few looks at the processor, after a key one: the registers are read if it
\* has halted, or a screen says that it has not; what was read before is of no
\* more use.
DbgSettle ==
  /\ DbgAt("settle")
  /\ prog' = [prog EXCEPT !.at = IF Stall THEN "read" ELSE "key", !.i = 0]
  /\ screen' = "stalled" /\ m_state' = Blank /\ m_mem' = NoWindow
  /\ UNCHANGED <<port, m_cursor, m_show_users, typed>> /\ Kept
-----------------------------------------------------------------------------
(***************************************************************************)
(* cmd_read and cmd_write: the register is selected with the halt bit set, *)
(* and the processor is waited for.                                        *)
(***************************************************************************)

\* Mutant: the register is selected without the halt.
ReadBitsNone == {}

ReadBits == {"halt"}

\* zipstate reads the processor's registers, zipdbg the peripherals as well.
Listed == IF prog.who = "zipstate" THEN CpuReg ELSE Followed

CmdSelect ==
  \/ /\ At("read")
     /\ \E r \in Listed :
          /\ NextReg(Listed, r)
          /\ WriteCtrl(ReadBits, r)
          /\ prog' = [prog EXCEPT !.at = "poll", !.i = r]
     /\ UNCHANGED dbgvars /\ Kept
  \/ /\ DbgAt("enter")
     /\ WriteCtrl(ReadBits, typed.r)
     /\ Next_("pollwrite")
     /\ UNCHANGED dbgvars /\ Kept

CmdPoll ==
  /\ At("poll") \/ At("pollwrite")
  /\ Stall
  /\ Next_(IF prog.at = "poll" THEN "strobe" ELSE "write")
  /\ UNCHANGED <<port, dbgvars>> /\ Kept

\* MAXERR looks found the processor at work.
CmdGiveUp ==
  /\ At("poll") \/ At("pollwrite")
  /\ ~Stall
  /\ Ends("gave up")
  /\ UNCHANGED port /\ Kept

\* An access fails: the program is left by its last handler.
DbgBusError ==
  /\ prog.who \in {"zipdbg", "zipstate"} /\ prog.at # "key"
  /\ faults < MaxFaults /\ faults' = faults + 1
  /\ Ends("bus error")
  /\ UNCHANGED <<port, flashvars, runvars>>

CmdStrobe ==
  /\ At("strobe")
  /\ StrobeData
  /\ Next_("answer")
  /\ UNCHANGED dbgvars /\ Kept

\* The clock of dbg_ack, in which the answer is taken, and the one after it.
CmdAnswer ==
  /\ \/ /\ At("answer")
        /\ m_state' = [m_state EXCEPT ![prog.i] = DbgData]
        /\ Next_("answered")
     \/ /\ At("answered")
        /\ prog' = [prog EXCEPT !.at = "read", !.i = @ + 1]
        /\ UNCHANGED m_state
  /\ ClockData
  /\ UNCHANGED <<m_cursor, m_show_users, screen, m_mem, typed>> /\ Kept

\* The instructions at the program counter that was read: an error reading
\* one is shown in its place. Then the screen is complete; zipstate has none.
DbgWindow ==
  /\ At("read") /\ PastAll(Listed)
  /\ IF prog.who = "zipstate"
     THEN Ends("told")
     ELSE LET pc == m_state[PC] IN
          /\ m_mem' = [at |-> pc, valid |-> pc \in Word,
                       word |-> IF pc \in Word THEN mem[pc] ELSE Old]
          /\ screen' = "registers" /\ prog' = Program("zipdbg", "key")
          /\ UNCHANGED <<m_cursor, m_show_users, m_state, typed>>
  /\ UNCHANGED port /\ Kept

CmdWrite ==
  /\ DbgAt("write")
  /\ WriteData(typed.v)
  /\ Next_("wrote")
  /\ UNCHANGED dbgvars /\ Kept

DbgWrote ==
  /\ DbgAt("wrote")
  /\ Next_("settle")
  /\ typed' = NotTyped
  /\ UNCHANGED <<port, m_cursor, m_show_users, screen, m_state, m_mem>> /\ Kept
-----------------------------------------------------------------------------
(***************************************************************************)
(* The keys.                                                               *)
(***************************************************************************)

\* Keys that write the control register; 'g' ends the program.
KeyCtrl ==
  /\ DbgAt("key")
  /\ \/ WriteCtrl({}, 0) /\ Ends("let go")
     \/ WriteCtrl({"step"}, 0) /\ Next_("settle") /\ UNCHANGED dbgvars
     \/ WriteCtrl({"halt", "reset"}, 0) /\ Next_("settle") /\ UNCHANGED dbgvars
  /\ Kept

KeyQuit ==
  /\ DbgAt("key")
  /\ Ends("quit")
  /\ UNCHANGED port /\ Kept

\* 'u' shows the user's counters, 'm' the master's, as does 'l', which falls
\* through to it.
KeyCounters ==
  /\ DbgAt("key")
  /\ m_show_users' \in BOOLEAN
  /\ Next_("settle")
  /\ UNCHANGED <<port, m_cursor, screen, m_state, m_mem, typed>> /\ Kept

Up(c) == IF c > Columns - 1 THEN c - Columns ELSE c
Down(c) == IF c < Cells - Columns THEN c + Columns ELSE c
Left(c) == IF c > 0 THEN c - 1 ELSE Cells - 1
Right(c) == IF c < Cells - 1 THEN c + 1 ELSE 0

KeyCursor ==
  /\ DbgAt("key")
  /\ m_cursor' \in {Up(m_cursor), Down(m_cursor), Left(m_cursor), Right(m_cursor)}
  /\ Next_("settle")
  /\ UNCHANGED <<port, m_show_users, screen, m_state, m_mem, typed>> /\ Kept

\* A value is typed into the cell of the cursor. Registers that are not
\* followed have no values to type.
KeyEnter ==
  LET r == RegisterAt(m_cursor) IN
  /\ DbgAt("key") /\ r \in Followed
  /\ \E v \in RegValue(r) :
       typed' = [r |-> r, v |-> v, shown |-> ShownAt(m_cursor, m_show_users)]
  /\ Next_("enter")
  /\ UNCHANGED <<port, m_cursor, m_show_users, screen, m_state, m_mem>> /\ Kept

ZipDbgStep ==
  \/ DbgHalt \/ DbgSettle \/ CmdSelect \/ CmdPoll \/ CmdGiveUp \/ CmdStrobe
  \/ CmdAnswer \/ DbgWindow \/ CmdWrite \/ DbgWrote

Key == KeyCtrl \/ KeyQuit \/ KeyCounters \/ KeyCursor \/ KeyEnter
-----------------------------------------------------------------------------
(* All the programs, one after another.                                    *)
CONSTANT Bitstream   \* bytes programmed at first: the FPGA's configuration below
                     \* RESET_ADDRESS, and what an earlier program left above it

vars == <<port, flashvars, runvars, prog, faults, dbgvars>>

Init == PortInit /\ FlashInit(Bitstream) /\ RunInit /\ DbgInit

Start ==
  \/ \E img \in Images : StartRun(img) /\ UNCHANGED dbgvars
  \/ \E who \in {"zipdbg", "zipstate"} : StartDbg(who)

Program_ ==
  \/ ZipRunStep /\ UNCHANGED dbgvars
  \/ ZipDbgStep

Fault ==
  \/ RunBusError /\ UNCHANGED dbgvars
  \/ DbgBusError

Processor == Cpu /\ UNCHANGED <<flashvars, runvars, prog, faults, dbgvars>>
Chip == FlashDone /\ UNCHANGED <<port, runvars, prog, faults, dbgvars>>

Next == Start \/ Program_ \/ Key \/ Fault \/ Processor \/ Chip

\* A program goes on until it waits for its user, a processor that was halted
\* ends its instruction, and the flash ends what it was told to do.
Fairness ==
  /\ WF_vars(Program_)
  /\ WF_vars(ComeToHalt /\ UNCHANGED <<flashvars, runvars, prog, faults, dbgvars>>)
  /\ WF_vars(Chip)

Spec == Init /\ [][Next]_vars /\ Fairness
-----------------------------------------------------------------------------
TypeOK ==
  /\ PortTypeOK
  /\ flash \subseteq 0 .. FlashBytes - 1 /\ wp \in BOOLEAN
  /\ faults \in 0 .. MaxFaults
  /\ m_cursor \in 0 .. Cells - 1
  /\ prog.who = "none" => cmd_addr \in Followed \union {0}

\* What ziprun calls loaded is in memory, byte for byte as in the file, with
\* the processor halted at the entry, its other registers 0. It relates the
\* host's byte order, the order of halt, load and clear, and what a processor
\* still at work when the program began may have written.
LoadedAsFile ==
  prog.at = "loaded" /\ cpu = "halted" =>
    /\ \A k \in DOMAIN image : image[k].mem # "flash" =>
         \A n \in 0 .. image[k].len - 1 :
           mem[FirstWord(image[k]) + (n \div WordB)][(n % WordB) + 1] = image[k].byte[n]
    /\ \A r \in CpuReg : reg[r] = IF r = PC THEN Entry ELSE 0

\* A processor that is loaded, and has not run since, has no old copy of an
\* instruction, though its prefetch went on while the memory was written.
NoOldCode ==
  prog.at = "loaded" /\ cpu = "halted" => \A w \in Word : icache[w] # "old"

\* While zipdbg shows registers, they are those the processor has: it has not
\* gone on since they were read, whatever was pressed or typed before.
RegistersShown ==
  Running("zipdbg", "key") /\ screen = "registers" =>
    /\ \A r \in CpuReg : m_state[r] = reg[r]
    /\ m_mem.valid => m_mem.at = reg[PC] /\ m_mem.word = mem[reg[PC]]

\* A value typed into a cell is in the register that the cell shows, unless
\* the cell shows a counter of the user's: it is then in the master's.
TypedLands ==
  Running("zipdbg", "wrote") =>
    /\ reg[typed.r] = typed.v
    /\ typed.r = typed.shown \/ (m_show_users /\ m_cursor \in FirstCounter .. NShown - 1)

\* The FPGA's configuration in the flash's first quarter is never touched, and
\* of the rest only blocks between RESET_ADDRESS and the program's end: so of
\* every erase and page write that is begun, whatever length the driver's
\* loop makes of its page.
BitstreamKept ==
  [][wip' # wip /\ wip'.busy =>
       \A x \in (flash \ wip'.after) \union (wip'.after \ flash) :
         x >= RESET_ADDRESS /\ SECTOROF(x) < load.startaddr + load.codelen]_vars

\* A load comes to its end, whether it succeeds or fails.
LoadEnds == prog.who = "ziprun" ~> prog.who = "none"
=============================================================================
