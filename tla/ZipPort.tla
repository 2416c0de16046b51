-------------------------------- MODULE ZipPort --------------------------------
(***************************************************************************)
(* The ZipCPU as the debug bus sees it: the control and data registers of  *)
(* its debug port (rtl/cpu/zipsystem.v), the halt and step lines, the      *)
(* registers and peripherals behind the port, and the memory and the       *)
(* instruction cache the processor works from.                             *)
(*                                                                         *)
(* One access of the bus is one step; the processor runs between them.     *)
(***************************************************************************)
EXTENDS Integers, Sequences, FiniteSets

CONSTANTS NCpu,         \* processor registers, 32: the peripherals lie above
          PC,           \* the supervisor's program counter, 15
          Followed,     \* addresses of the registers that are followed
          Value,        \* what a register holds; 0 among them
          NWord,        \* words of memory, of which the first is at RAMBASE
          StartHalted   \* START_HALTED of the build, 1 in busmaster.v:228

ASSUME PortAssumption ==
  /\ NCpu \in Nat /\ PC \in Followed /\ PC < NCpu /\ 0 \in Value
  /\ Followed \subseteq Nat /\ NWord \in Nat \ {0} /\ StartHalted \in BOOLEAN

VARIABLES cmd_halt, cmd_addr,   \* zipsystem's command registers
          cpu,                  \* "run", "halting", or "halted": o_dbg_stall low
          reg,                  \* registers and peripherals
          sys_idata, per_ack,   \* answer of a peripheral, and its acknowledgement
          mem, icache           \* memory, and the copy the cache has of a word

port == <<cmd_halt, cmd_addr, cpu, reg, sys_idata, per_ack, mem, icache>>

CpuReg == {r \in Followed : r < NCpu}

\* A program counter: a word of memory, or 0 for an address that does not answer.
Word == 1 .. NWord
RegValue(r) == IF r = PC THEN {0} \union Word ELSE Value
RamBase == 1

\* The bytes of a word, most significant first; Old is what was there before.
WordB == 4
Old == [b \in 1 .. WordB |-> 0]

\* The prefetch reads on from the program counter even while the processor
\* is halted; a word it has is not read again.
Fetched(c, pc) ==
  IF pc \in Word /\ c[pc] = "none" THEN [c EXCEPT ![pc] = "fresh"] ELSE c

Empty == [w \in Word |-> "none"]

\* A write of memory goes past the instruction cache.
Outdated(c, ws) == [w \in Word |-> IF w \in ws /\ c[w] # "none" THEN "old" ELSE c[w]]

PortTypeOK ==
  /\ cmd_halt \in BOOLEAN /\ per_ack \in BOOLEAN
  /\ cmd_addr \in Followed \union {0}
  /\ cpu \in {"run", "halting", "halted"}
  /\ \A r \in Followed : reg[r] \in RegValue(r)
  /\ sys_idata \in Value
  /\ icache \in [Word -> {"none", "fresh", "old"}]

PortInit ==
  /\ cmd_halt = StartHalted /\ cmd_addr = 0
  /\ cpu = IF StartHalted THEN "halted" ELSE "run"
  /\ reg = [r \in Followed |-> IF r = PC THEN RamBase ELSE 0]
  /\ sys_idata = 0 /\ per_ack = FALSE
  /\ mem = [w \in Word |-> Old] /\ icache = Fetched(Empty, RamBase)
-----------------------------------------------------------------------------
(***************************************************************************)
(* The debug port.                                                         *)
(***************************************************************************)

\* Bits of a write to the control register (sw/regdefs.h).
Bits == {"halt", "step", "reset", "clrcache"}

\* cmd_halt one clock after the write, by when a reset or a step has set it.
HaltAfter(bits) ==
  IF "reset" \in bits THEN StartHalted ELSE bits \intersect {"halt", "step"} # {}

\* A write of the control register. A step lets go of the halt for one clock,
\* in which one instruction starts. A reset empties pipeline and cache; the
\* cache is cleared by command only of a processor that has come to a halt.
WriteCtrl(bits, a) ==
  /\ cmd_addr' = a
  /\ cmd_halt' = HaltAfter(bits)
  /\ cpu' = IF ~HaltAfter(bits) THEN "run"
            ELSE IF "reset" \in bits THEN "halted"
            ELSE IF "step" \in bits \/ cpu = "run" THEN "halting"
            ELSE cpu
  /\ reg' = IF "reset" \in bits THEN [reg EXCEPT ![PC] = RamBase] ELSE reg
  /\ icache' = IF "reset" \in bits \/ ("clrcache" \in bits /\ cpu = "halted")
               THEN Fetched(Empty, reg'[PC]) ELSE icache
  /\ UNCHANGED <<sys_idata, per_ack, mem>>

\* CPU_STALL of the control register: set once the processor has halted.
Stall == cpu = "halted"

\* A processor register is not read or written before the halt.
DataReady == cmd_addr < NCpu => cpu = "halted"

WriteData(v) ==
  /\ DataReady
  /\ reg' = IF cmd_addr \in Followed THEN [reg EXCEPT ![cmd_addr] = v] ELSE reg
  /\ icache' = Fetched(icache, reg'[PC])
  /\ UNCHANGED <<cmd_halt, cmd_addr, cpu, sys_idata, per_ack, mem>>

\* A read of the data register: the strobe, taken a clock before the answer.
StrobeData ==
  /\ DataReady
  /\ per_ack' = (cmd_addr >= NCpu)
  /\ UNCHANGED <<cmd_halt, cmd_addr, cpu, reg, sys_idata, mem, icache>>

\* dbg_odata in the clock of dbg_ack.
DbgData == IF cmd_addr < NCpu THEN reg[cmd_addr] ELSE sys_idata

\* A clock: sys_idata takes the value of a peripheral that acknowledges, and
\* otherwise mmus_data, which is 0.
ClockData ==
  /\ sys_idata' = IF per_ack /\ cmd_addr \in Followed THEN reg[cmd_addr] ELSE 0
  /\ per_ack' = FALSE
  /\ UNCHANGED <<cmd_halt, cmd_addr, cpu, reg, mem, icache>>

\* The words ws written over the bus, each w with word[w].
WriteMem(ws, word) ==
  /\ mem' = [w \in Word |-> IF w \in ws THEN word[w] ELSE mem[w]]
  /\ icache' = Outdated(icache, ws)
  /\ UNCHANGED <<cmd_halt, cmd_addr, cpu, reg, sys_idata, per_ack>>
-----------------------------------------------------------------------------
(***************************************************************************)
(* The processor.                                                          *)
(***************************************************************************)

\* What an instruction may do: change a register, or memory, and go on at pc.
Executes(pc) ==
  \/ /\ \E r \in CpuReg \ {PC}, v \in Value : reg' = [reg EXCEPT ![r] = v, ![PC] = pc]
     /\ icache' = Fetched(icache, pc)
     /\ UNCHANGED mem
  \/ \E w \in Word :
       /\ mem' = [mem EXCEPT ![w] = Old]
       /\ icache' = Fetched(Outdated(icache, {w}), pc)
       /\ reg' = [reg EXCEPT ![PC] = pc]

Retire ==
  /\ cpu = "run"
  /\ \E pc \in {0} \union Word : Executes(pc)
  /\ UNCHANGED <<cmd_halt, cmd_addr, cpu, sys_idata, per_ack>>

\* A break instruction halts as the debugger does.
Break ==
  /\ cpu = "run"
  /\ cmd_halt' = TRUE /\ cpu' = "halting"
  /\ UNCHANGED <<cmd_addr, reg, sys_idata, per_ack, mem, icache>>

\* The instruction in the pipeline ends, and r_halted rises.
ComeToHalt ==
  /\ cpu = "halting"
  /\ cpu' = "halted"
  /\ \E pc \in {0} \union Word : Executes(pc)
  /\ UNCHANGED <<cmd_halt, cmd_addr, sys_idata, per_ack>>

Cpu == Retire \/ Break \/ ComeToHalt
=============================================================================
