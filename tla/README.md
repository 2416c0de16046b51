# XuLA2-LX25 SoC: TLA+ models, model checks and proofs

The repository is a system on a chip for the XuLA2-LX25 board: a ZipCPU, a
debug bus that a host drives through a serial (or JTAG) port, and the
peripherals both reach over one 32-bit pipelined Wishbone bus.  The programs
under `sw/` run on the host and speak the debug bus protocol; those under
`bench/` stand for the board in simulation.

This directory holds TLA+ modules translated from the Verilog and C++ source,
TLC configurations that check them on small instances, and TLAPS proofs for
every value of the constants.  Paths below are relative to `src/`.

- Check a run: `tlc -config MCBusPath.cfg BusPath` (section 4 pairs each cfg
  with its module).
- Check the proofs: `tlapm BusPath_proof.tla`.

Contents: 1 the parts; 2 how they interact; 3 modules and code; 4 the runs;
5 fairness; 6 the proofs; 7 what is only model-checked; 8 findings; 9 what is
not modelled, and the plan.

## 1. The system's parts

| part | source | state it keeps | operations | what makes it correct | module |
|---|---|---|---|---|---|
| debug bus input | `rtl/wbuinput.v`, `wbutohex.v`, `wbureadcw.v`, `wbudecompress.v` | digits of the codeword being assembled, its announced length, the last codeword's kind, a table of 256 written words | a character; a newline; a codeword into the table or out of it | every command the host encodes is decoded to the same command; a burst ends where the host ended it | `WbuInput`, `AddrCode` |
| debug bus FIFOs | `rtl/wbufifo.v` | memory, two pointers, two refusal flags, output register | write, read, both, neither, reset | a bounded queue: nothing lost, repeated or overwritten | `WbuFifo`, `BoundedQueue` |
| debug bus master | `rtl/wbuexec.v` | controller state, address, length left, answers due, registered look-ahead tests | address, read, burst of writes, end of burst, bus answer, bus error, reset | exactly the transactions asked for, one codeword per answer, the bus's rules for a request kept | `WbuExec`, `WbMaster` |
| debug bus watchdog | `rtl/wbubus.v` | 19-bit timer | reset of the master and of the FIFOs | a silent bus is always released | in `WbuExec` |
| debug bus output | `rtl/wbuoutput.v`, `wbuidleint.v`, `wbucompress.v`, `wbudeword.v`, `wbucompactlines.v`, `wbusixchar.v` | one word or digit per stage, interrupt pending and told, idle timer, a table of 1024 read words, line length | a codeword through five stages; idle and interrupt codewords | digits leave in order and complete; an interrupt is told; what the host decodes is what was read | `WbuOutput`, `WbuCompress` |
| host side | `sw/ttybus.cpp` | last address, tables of words read and written | `readv`, `writev`, `encode_address`, `readword`, `readidle` | agrees with the FPGA about address and tables | `DebugLink`, `AddrCode`, `WbuInput` |
| JTAG/USB link | `sw/usbi.cpp`, `sw/netusb.cpp`, `rtl/jtagser.v` | receive ring, packets in the device, requests that went unanswered, the client's socket | write a packet, ask for one, poll, forward, accept | characters keep their order and number in both directions; answers reach the client; a closed client is noticed | `NetUsb` |
| bus arbiter | `rtl/cpu/wbpriarbiter.v` | owner | hand over | one owner at a time, no answer to the wrong master | `BusPath` |
| bus delay | `rtl/cpu/busdelay.v` | two request buffers, answer registers | request, stall, answer, error, abort | requests in order, none lost or repeated | `BusDelay` |
| bus decoder | `rtl/busmaster.v` | error address | select, error of an unmapped address | exactly one device per mapped address | part in `BusPath` |
| SDRAM controller | `rtl/wbsdram.v`, chip in `bench/cpp/sdramsim.cpp` | state and row of each bank, refresh timers, pending request, answers due | startup, activate, precharge, read, write, refresh | each command is legal for its bank, refreshes are in time, answers match requests | `WbSdram` |
| SPI arbiter | `rtl/spiarbiter.v` | owner | hand over | the two chips never hear each other's traffic | `SpiBus` |
| flash controller | `rtl/wbspiflash.v`, `lldspi.v`, chip in `bench/cpp/qspiflashsim.cpp` | state, address, write in progress; the chip's array, latch and state | read, page write, erase, status, abandoned cycle | what is begun is written, once and in its page; reads see it | `SpiFlashCtl`, `SpiBus` |
| SD card controller | `rtl/sdspi.v`, `llsdspi.v`, card in `bench/cpp/sdspisim.cpp` | command and response states, FIFO, error flags; the card's states | command, block read, block write, watchdog | a command that ends without error has its answer | `SdSpi`, `SpiBus` |
| flash programmer | `sw/flashdrvr.cpp` | sector buffer, position | erase, program, verify, protect | only the program's own blocks change; the load ends | `ZipRun` |
| debug port and programs | `rtl/cpu/zipsystem.v` (its port), `sw/ziprun.cpp`, `zipdbg.cpp`, `zipstate.cpp`, `zipelf.cpp`, `byteswap.cpp` | selected register, halt; the program's place, screen and cursor | halt, step, reset, clear cache, read, write; load, show, type | a loaded program is the file's and runs no stale instruction; the debugger shows what is there | `ZipPort`, `ZipRun`, `HostPrograms` |
| UARTs | `rtl/txuart.v`, `rxuart.v`, `bench/cpp/uartsim.cpp` | shift registers, baud counters, parity | a character out, a character in | each character arrives once, as it was sent | `Uart` |
| simulated serial port | `bench/cpp/pipecmdr.h` | client, line buffer, busy counters | tick | nothing lost, doubled or overtaken | `PipeCmdr` |
| logic analyser and reader | `rtl/wbscope.v`, `sw/scopecls.cpp` | memory, write and read addresses, trigger, holdoff | arm, trigger, stop, read, print | the list shown is the recording, its trigger in its place | `Scope` |
| interrupt controllers | `rtl/cpu/icontrol.v`, twice in `zipsystem.v` | pending and enabled lines, the controller's own enable, the interrupt | a line rises; a write enables, disables, clears | an interrupt that came is pending until the program has read of it | `Interrupts` |
| timers | `rtl/cpu/ziptimer.v`, `zipjiffies.v` | value, reload value, copies of tests; a counter, the nearest alarm, a new one | tick, set, run out, reload | each rings when it was set to, and at no other time | `ZipTimers` |
| other counters and clocks | `rtl/cpu/zipcounter.v`, `wbwatchdog.v`, `rtl/ioslave.v`, `rtl/rtclight.v` | counts, times, alarms | count, set, clear | an event is counted once, a carry reaches the next digit | planned |
| DMA | `rtl/cpu/wbdmac.v` | addresses, lengths, counts of requests and answers, buffer of a block | start, read burst, write burst, halt, abort | the words written are the source's, in order and at their places; the length register counts no word that was not written | `WbDma` |
| instruction cache | `rtl/cpu/pfcache.v` | lines, tags, what is valid, the line being loaded, the line that answered with an error | look up, load, jump, clear, reset | what the decoder gets is the instruction at the address asked for, no older than the last clearing | `PfCache` |
| memory unit | `rtl/cpu/pipemem.v` | list of registers that wait, cycle and strobe on two buses, lock | issue, answer, error, lock | an answer goes to the register of its own load | `PipeMem` |
| units of other builds | `rtl/cpu/memops.v`, `dcache.v`, `prefetch.v`, `dblfetch.v`, `pipefetch.v` | outstanding requests, caches | load, store, fetch | as the two above | not in this SoC's build |
| ZipCPU and its system | `rtl/cpu/zipcpu.v`, `zipsystem.v`, `div.v`, ... | pipeline, registers | decode, execute, trap | instructions retire in order | planned |

PROJECT.json lists the same parts file by file, those that are not modelled
included, and the hazards of each at the line where they bite.

## 2. How the parts interact

```
 zipdbg, ziprun, zipstate, scope programs ...
   |  read, write
 sw/ttybus.cpp --chars--> netusb/usbi, or pipecmdr --chars--> wbutohex
      ^                        |                                 |
      |                        |                    wbureadcw -> wbudecompress -> FIFO
      +-------- chars ---------+                                                   |
                 |                                                              wbuexec
 wbusixchar <- wbucompactlines <- wbudeword          bit 24 of the address         |
      ^                                                  +-------------------------+
      |                                                  v                         v
 wbucompress <- wbuidleint <- FIFO <- wbuexec      debug port              wbpriarbiter <- ZipCPU
                                                   (zipsystem)                     |
                                                                               busdelay
                                                                                   |
              wbsdram - chip   wbspiflash \                         wbscope, uartdev, ...
                                           spiarbiter - flash, SD card
                                  sdspi   /
```

**A command.**  `TTYBUS` turns a read or write into codewords of one to six
digits, a digit per character: an address (absolute, or a difference from the
last one), a read of 1 to 520 words, a write of a word (in full, or by its
place in the table of words written).  The characters go through a socket to
`netusb` and the board, or to the simulated port.  The FPGA assembles them in
three stages that cannot stall and stores the codewords in the command FIFO,
from which `wbuexec` takes one whenever it is not busy.

**The bus.**  `wbuexec` runs the transaction.  Bit 24 of its address
(`rtl/busmaster.v:188`) selects the ZipCPU's debug port, which it owns alone,
or the bus it shares with the ZipCPU.  `wbpriarbiter` prefers the ZipCPU but
never takes a cycle away from its owner; `busdelay` adds a clock in each
direction and a second buffer, since the master sees a stall a clock late.

**An answer.**  Every acknowledgement becomes a codeword in the output FIFO.
`wbuidleint` adds interrupt and idle codewords when there is a gap,
`wbucompress` looks for the word among those sent before for as long as it
waits, and three more stages cut it into digits, lines and characters.  The
host decodes them with the table and address it keeps itself.

**The devices.**  The flash and the SD card share clock and data lines, which
`spiarbiter` gives to the controller that selects its chip alone; each
controller waits until it is the owner.  The flash answers a write before it
has begun and then refuses commands until its own timer ends.

**The ZipCPU's system.**  The processor fetches through `pfcache`, loads and stores
through `pipemem`, and shares the way to the bus with `wbdmac`.  `pipemem` has a
second bus to the peripherals inside `zipsystem.v`: the timers, the jiffies, the
DMA's registers and two interrupt controllers, of which one hears the counters
and is a source of the other.  All of them stand still while the debug port
holds the processor halted, the DMA and the controllers excepted.

**The programs.**  `ziprun` halts the processor, writes sections of an ELF file
into memory and flash, clears registers and cache, and leaves the entry point
in the program counter.  `zipdbg` and `zipstate` read the registers through one
address register, an access at a time, while the processor may run.

**What is hard here.**  Nothing in the hardware takes a lock; everything is a
register that is a clock or two behind what it speaks of, and a wire that says
"busy" a clock late.  The hard cases are those in which two things happen in one
clock, or a clock apart: an error with the last request, a stall with the last
but one, a read and a write of an empty FIFO, an abort with answers on their
way, a refresh due while banks are opening, an interrupt in the clock its
predecessor is told, a chip select raised while the other controller is being
given the lines.  Then there is what the two ends of a link remember of each
other across errors, resets, timeouts, and programs that come and go; and what a
sequence of separate accesses finds of a processor that runs between them.

## 3. The modules, and how they correspond to the code

In the Verilog modules one action is one clock.  A register is a variable of
the same name, an action's primed values are the `always` blocks' assignments,
and the wires from outside are either variables (where a property needs their
history) or parameters bound by `\E`.  In the C++ modules one action is one
system call, one transfer, or one access of the bus, with the code up to the
next.  Data are cut to what properties tell apart: a codeword is a record of its
kind and its fields, a data word a member of a small set.  Variables that only
record history (what is owed, asked for, told) are named as such where they are
declared.

| module | models | state and actions |
|---|---|---|
| `BoundedQueue` | what a FIFO promises: a queue of at most `Capacity` words, appended to, taken from, emptied | `queue`; abstract |
| `WbuFifo` | `wbufifo.v` | all registers; `Reset`, `Write`, `Read`, `ReadWrite`, `Idle` are the arms of the `case ({i_wr, i_rd})`; the look-aheads keep the code's un-wrapped comparisons (`r_first + 2 = r_last`, line 66; `r_last + 1 = r_first`, line 106) |
| `WbMaster` | the rules of the bus for a request of a master, `bench/formal/fwb_slave.v:199-229`; the rule before them, that an error ends the cycle (193-197), is `WbuExec!DropsCycleOnError` | wires and requests in flight; abstract |
| `LinkBounds`, `ZipBounds` | the sizes of the link and its addresses, and of the parts around the ZipCPU | constants and their assumptions, apart so that a module that instantiates several parts declares each once |
| `WbuExec` | `wbuexec.v`, and the watchdog of `wbubus.v` | `Idle`, `ReadRequest`, `WriteRequest`, `WaitAck`, `WaitOnNextWrite`, `Flush`, `Reset` are its states; `Counters` are the blocks at its foot, which step in every clock |
| `BusDelay` | `busdelay.v`, `DELAY_STALL = 1` as `busmaster.v` builds it | `Delay` is all its registers; `Master` and `Devices` the two sides |
| `BusPath` | `wbuexec`, bit 24, `wbpriarbiter.v` and `busdelay.v` in one clock, as wired in `busmaster.v` | extends `WbuExec`, whose free stall and answer become the wires of the path; instantiates `BusDelay`; `Cpu` is any master that keeps the rules |
| `WbuOutput` | `wbuidleint`, `wbucompress` (as a stage), `wbudeword`, `wbucompactlines`, `wbusixchar` | one operator per file; `Clock` is all of them |
| `WbuCompress` | the table and search of `wbucompress.v`, and the host's read table | `Hold`, `Table`, `Search` (its four pipeline stages), `HostTakes` |
| `WbuInput` | the encoding of `TTYBUS::writev` and `readcmd`, `wbutohex`, `wbureadcw`, `wbudecompress` | `Serial`, `ReadCw`, `Decompress`; `Encoded` is what the host makes of a command, the read that gets the code of an end of burst among them |
| `AddrCode` | `encode_address` and its decoding on the board | `EncodeAddress`, `Decode` as operators; digits of base `B` |
| `DebugLink` | `readv`, `writev`, `readword`, `readidle`, against the address and table of the board | extends `AddrCode`; one action per step of a call and per command the board takes; `Asked` is a read as it arrives, `EowLen` the length at which one of a single address does not; `up` and `down` are the link |
| `NetUsb` | class `USBI`, `netusb.cpp`, its clients over `llcomms.cpp`, and the board | `fifo` is the receive ring, `inq` the packets the device holds, `late` the requests nothing answered in time; `Collect` is the read transfer with `push_fifo`; `pc` is where the thread is, one action per call it makes; `Connect`, `Send`, `Receive`, `Shut`, `Die` a client |
| `WbSdram` | `wbsdram.v` and the chip of the bench | `Decision` is the `if` chain of lines 299-435 in its order; `Issue` its effects; `Maintain` and `StartUp` the startup; `ChipStartsUp` and `ChipOperates` the chip |
| `SpiFlashCtl` | `wbspiflash.v`, `lldspi.v`, and the chip of `qspiflashsim.cpp` | `chip` and the operators that change it are the chip, a byte of the line per step; `ChipErases` says whether it knows the controller's erase; `fl` is the controller (`fl.pc` its state, `fl.send` what the line still has to send), `bus` its Wishbone side, `want` what the programs and erases the controller began asked for |
| `SdSpi` | `sdspi.v`, `llsdspi.v`, and the card of `sdspisim.cpp` | `card` and its operators are the card, a byte per step; `sd`; `SdByte` is one byte of the line, `SdFinish` the end of a command, `SdWatchdog` its timer |
| `SpiBus` | `spiarbiter.v` and both controllers on their lines | extends `SpiFlashCtl` and `SdSpi`; `owner`; `Arbitrate`, `HandOver`; the host initialises the card and reads and writes blocks |
| `ZipPort` | the debug port of `zipsystem.v`; memory and instruction cache as far as the programs see them | `WriteCtrl`, `WriteData`, `StrobeData`, `ClockData` are the accesses; `Cpu` is the processor between two accesses |
| `ZipRun` | `ziprun.cpp`, `zipelf.cpp`, `byteswap.cpp`, `flashdrvr.cpp` | extends `ZipPort`; `prog.at` is the line the program is at, `drv.at` the place in `FLASHDRVR::write()`; the flash is the set of its programmed bytes, its write protection, and the erase or page write that goes on |
| `HostPrograms` | `zipdbg.cpp`, `zipstate.cpp`, and the programs one after another | `m_state`, `m_mem`, `m_cursor` are those of zipdbg's class, `Key` the user; `Start`, `Program_`, `Key`, `Fault`, `Processor`, `Chip` |
| `PipeCmdr` | `pipecmdr.h` | `Tick` is `tick()` in its order; `Client` the other end of the socket |
| `Uart` | `txuart.v` to `UARTSIM`'s receiver and `UARTSIM`'s transmitter to `rxuart.v` | `TxBit`, `SimRx`, `RxNext` and the parity registers; `dir` says which of the two |
| `Scope` | `wbscope.v` and its programs | records `d` (the recording clock's side), `b` (the bus side), `h` (the program); a sample is the clock it was taken in |
| `WbDma` | `wbdmac.v`, a program, the bus delay and any devices behind it | `dma` is the registers, one operator to a register; `Registers` is a clock of all; `job` the program that follows the check list of the header (lines 64-81); `Delay` and `Bus` are `busdelay.v` with its two buffers as the controller sees it, `Devices` when those behind it may stall, answer and refuse; `out` the words written since the start |
| `PfCache` | `pfcache.v` in the processor | `pf` is the registers; `Fetch` a clock of all; `Does` what the pipeline may do: take an instruction, wait, jump, clear the cache, reset; `code` the version of the memory, which is written at any time |
| `PipeMem` | `pipemem.v` between pipeline and buses | `mem` is the registers; `Issues` when `zipcpu.v:580-601` issues an operation; `owed` the operations not heard of |
| `ZipTimers` | `ziptimer.v`, `zipjiffies.v` | `Timer`, `Jif`: a clock of each; `left`, `again`, `alarm` what a program expects of them; `met` that an alarm was set in the clock in which another rang |
| `Interrupts` | `icontrol.v`, twice, as `zipsystem.v` chains them | `Controller` is `icontrol.v`; one action per step of a program that reads, clears and serves as the header asks; `todo` the events no service has begun after; `DebuggerReads` the debugger's screen, which reads the second controller, `looked` that it has |
| `WbuParts`, `BoardParts` | no code of their own | small parts, each alone in a common run, see section 4 |
| `*_proof` | theorems about `WbuParts` and the parts in it, `WbuOutput`, `BusPath` with `WbuExec` in it, `WbSdram`, `SpiBus`, `BoardParts`, `HostPrograms` | see section 6 |
| `MCSpiBus`, `MCHostPrograms` | the functions and records of their runs, which a cfg cannot write | |

How they compose: `BusPath` runs `WbuExec` inside the bus it lives on;
`DebugLink` builds on `AddrCode` and treats the codewords as whole; `WbuInput`,
`WbuOutput` and `WbuCompress` show that codewords do get across whole; `NetUsb`,
`PipeCmdr` and `Uart` show that the characters of a codeword get across, in
order, on each of the three ways they take.  `SpiBus` puts both controllers and
both chips on one set of lines.  `HostPrograms` puts the programs on one
processor, and takes what `DebugLink` and `BusPath` show (an access does what it
says, or ends in an error) for granted.  `WbuFifo` and `BusDelay` are shown to
implement `BoundedQueue`, and `WbuExec`'s wires to implement `WbMaster`.

An operator marked `Mutant` is a plausible bug in the operator that follows
it.  PROJECT.json names, for every property, the mutant that breaks it.

## 4. The runs

Passing runs keep the deadlock check on (but for `spi`), so they also show
that the model of the surroundings never contradicts the module.

| run | module, cfg | question | bounds |
|---|---|---|---|
| `path` | `BusPath`, `MCBusPath` | Does the debug master, behind arbiter and delay or at the debug port, and beside a free ZipCPU, ask for exactly the words asked for, report each answer once, hear its own answers, all of them and no others, close no cycle on an open request and keep the bus's rules for a request? | reads of 1 to 4 words: 1 and 2 have tests of their own, 3 is the first to use the general one, 4 repeats it; 4 addresses, so that they wrap, two of them behind bit 24 and one unmapped; 2 requests in the devices, and so never more than `MaxPend` in the path (part of `NothingLostInPath`).  192 000 states |
| `output` | `WbuOutput`, `MCWbuOutput` | Does a codeword reach the port digit by digit, in order, across line ends; is every word sent, and an interrupt told that `int_sent` does not hold back? | one word of 2 digits beside the made ones of 1; a line is full after 1 digit, so that full and not full lines both occur; FIFO of 1.  183 000 states |
| `spi` | `MCSpiBus`, `MCSpiBus` | With flash and card on one set of lines: is what the flash controller began written, once and in its page, and read back; does a command of the card end with its answer; does every request of the flash end; is no chip told what it must refuse, if the flash knows the 4 kB erase as that of the board does? | 4 words of flash in 2 pages of one sector (so that a page write ends at the page, at a gap, and by being abandoned); one bit to a word, programmed or not; one block of 2 words on the card, another written to it; the chip's own times 0 and 1 steps.  1.07 million states |
| `host` | `MCHostPrograms`, `MCHostPrograms` | `ziprun`, `zipdbg` and `zipstate` one after another: is what was loaded in memory and in the processor as the file says; does the debugger show what is there; is the configuration in the flash untouched; does every load end? | a file with a part of a word, one with flash, memory, an empty section and one behind it, one that would overwrite the configuration; 2 words of memory; a register, the program counter and two peripherals; 4 sectors of flash whose pages and blocks keep the proportions of `regdefs.h`; one bus error.  1.5 million states |
| `netusb` | `NetUsb`, `MCNetUsb` | Between clients and board: is nothing lost, doubled or overtaken, however packets are cut and whichever read collects which; is a client that leaves noticed? | packets of 4 and a ring of 8, so that a line of 5 takes two packets, an answer fills one, and the ring fills; two answers on their way; two clients, one after the other; one request that goes unanswered.  454 000 states |
| `parts` | `WbuParts`, `MCWbuParts` | the small parts of the debug bus and its links, each alone | see below |
| `board` | `BoardParts`, `MCBoardParts` | the debug link from end to end, and the parts of the board, each alone | see below.  3.45 million states |

`parts` explores eight independent parts in one run: `part` says which of them
moves, all the others stay as they begin, so the states are the sum of the
parts' and not their product.  In it:

- `ImplementsQueue`: the command FIFO is a `BoundedQueue`, although its flags are
  a clock late and its comparisons do not wrap.  4 slots, so that a comparison
  that does not wrap is right for some pointers and wrong for others; writes a
  clock apart, as a serial port spaces them.
- `NothingLost`, `DelayImplementsQueue`: the two buffers of the bus delay are a
  queue, through stalls, aborts and errors.  2 distinct requests.
- `HostReadsWord`: at any clock of the search, the host makes of the codeword on
  the wires the word it stands for.  A table of 4 (it wraps, and is longer than
  the match pipeline hides), distances below 3 (so some matches are too far).
- `CommandsArrive`: commands come out of the decompressor as the host meant them,
  whichever program was cut off before, but for the read of eight words of one
  address, which comes out as an end of burst (section 8).  A character every 4 clocks; the real
  line takes far more, and 4 is just what the three stages need.
- `PipeIntact`: the simulated port loses, doubles and reorders nothing between
  its client and the core.  A buffer of 3, 2 clients, at most 5 characters.
- `CharsArrive`: characters arrive through either pair of UARTs.  3 data bits, all
  setups of parity and stop bits, 6 clocks to a baud: the receivers' counts from
  the edge, and half bits, all differ.
- `ScopeShows`: the list a program prints is the recording, with the trigger where
  the program says it is, and every sample can be told from the printed lines.
  8 samples, the shortest memory the programs accept; holdoffs of 0, 3 and 9,
  before and past the wrap.

`board` does the same with seven larger ones:

- `ReadsRight`, `WritesLand` (`DebugLink`): host and board agree on address and
  table, so that words are read and written where the program meant; a read that
  was disturbed returns nothing rather than a word of a wrong address.
  `ReadsRight` is `AnswersRight`, `ReadEndsWhereExpected` and `WrongAddressNoticed`
  together.  Digits of base 2 and addresses below 5: whole addresses of 1 to 3 digits
  and, from 3 to 4, an offset, which is sent where it is the shorter; longer offsets are
  the subject of `addr_code_debug_port` and of the proof.  Calls of 1 and 2 words, written one at a
  time (so `writev` loops); one unmapped address; 3 codewords on the way.  A read of 2
  words of one address stands for that of 8 in the code: the board does not see it,
  and the host waits.
- `CommandsAccepted`, `RightWord`, `AnsweredInTime` (`WbSdram`): every command is
  legal for the chip, every word the right one; every request is answered once,
  every refresh in time, every stall bounded.  2 banks and 2 rows (own and next
  row differ, and wrap); the part of a row that looks ahead and one that does not;
  a refresh every 14 clocks (near the least there is, so requests, refreshes and aborts meet in every order), an idle bus used in the last 5; a startup of 3.
- `Copies` (`WbDma`): what was written is the source, word for word, in order and at
  its place; the length register counts nothing that was not written; the
  interrupt of a transfer without error comes after its last word.  A buffer of
  4 words, transfers of up to 3 in blocks of 2 and of 4, so that a transfer is
  a part of a block, a block, or more than one; both addresses step or stay; abort,
  halt, error and reset in any clock.  The devices stall, answer and refuse as they
  like; what the controller sees of it has come through the two buffers of
  `busdelay.v`, as on the board (`rtl/busmaster.v:304-308`).  That matters: with room
  for one request in front of the devices the property is violated (section 8).
- `HandsInstruction` (`PfCache`): the instruction handed to the decoder is that of
  the address the processor is at, not older than the last clearing, and illegal
  if and only if the bus refused its line.  2 lines of 4 words under 2 tags, so that
  lines replace each other; two lines that answer with an error, one in each
  place; jumps to the last word of a line and into the middle of another; at most 2
  answers due (a whole line would be enough to miss the tag, which
  is written with an answer that comes before the last request,
  `rtl/cpu/pfcache.v:380-382`).
- `LoadsReturn` (`PipeMem`): an answer comes with the register of its own load,
  nothing issued is forgotten or heard of twice, and a locked cycle is held.  A
  list of 4 that counts as full at 3, as 16 and 13 in the code; two operations.
- `RingsInTime` (`ZipTimers`): the timer rings when it runs out, and every period
  after if it reloads; the nearest alarm rings when the counter comes to it, once, and
  one set for the past at once.  Of the jiffies this is said until an alarm is set in
  the clock in which another rings, and then not before the next reset (section 8).
  3 values of the timer (`TimerMod`), 6 of the jiffies (`2 * JifHalf`): both signs of the difference, and the wrap.
- `NoEventLost` (`Interrupts`): an event is on its wire, pending, or known to the
  program, until its service has begun; of the counters' events until the debugger's
  screen has read the controllers (section 8).  A pulsed source, one that stays up, two counters
  behind the second controller.

Runs that find a disagreement (section 8): `exec_error_hang`
(`BugWaitsForAnswers`), `addr_code_debug_port` (`BugAddressArrives`), `link_read_back`
(`BugAnswersRight`), `netusb_answers` (`BugAnswersForwarded`), `eight_words`
(`BugEveryCommandArrives`).

The properties worth reading first: `WbuExec!ReadExact`, `AnswersReported` and
`NoAnswerAbandoned` (registered tests that are a clock old when used);
`BusPath!NothingLostInPath` (`pend = InFlight`, from end to end);
`WbuCompress!HostReadsWord` (any clock of a search that races its own table);
`DebugLink!AnswersRight` and `WritesLand` (two sides that only guess of each
other); `WbSdram!CommandsAccepted`, `RefreshInTime` and `StallBounded`;
`WbDma!Copies` (four counts and four tests a clock old); `PfCache!HandsInstruction`
(two look-ups a clock old, a load that outlives a jump); `Interrupts!NoEventLost`;
`SpiBus!WritesLand` (what was begun against what the chip holds, whoever had
the lines in between); `HostPrograms!LoadedAsFile` and `NoOldCode`;
`NetUsb!StreamsIntact`; `Scope!ScopeShows`.

Why the bounds are enough.  The code compares counters with 0, 1 and 2, with
each other and with their wrap; the bounds above let each comparison be true,
false, and a clock too early or late.  What is larger in the code (a FIFO of
1024, tables of 256 and 1024, 520 words, a refresh every 625 clocks, packets of
32 and a ring of 512 characters, sectors of 8 kB) is a CONSTANT with the
assumptions the module makes of it; what section 6 proves holds for all of its
values.

In `WbSdram`, `RefreshInTime` and `StallBounded` depend on times: `late <= 9`
and 30 clocks (`F_MAX_STALL`) are measured with the code's own waits (6 clocks
of refresh, 4 of a read), which are not scaled; only the idle period between two
refreshes is, and a longer one only adds clocks in which no refresh is due.

## 5. Fairness

Safety runs assume none.

- `WbuOutput` has `WF_vars(Next)`: the clock ticks.  And `Sends == []<>~i_tx_busy`:
  the port ends the character it sends, which a serial port does after a fixed
  number of clocks and `rtl/jtagser.v`, the one `toplevel.v` connects, for as long
  as the host clocks the chain.  Under these `EverythingSent` holds as it is.
  `InterruptTold` assumes gaps between the words of the FIFO (`[]<>(Open /\
  ~fifo_rd)`), because `wbuidleint.v` gives them the right of way: a host that
  reads for ever would never be told.  It speaks of an interrupt that is up, or asked
  for, while `int_sent` is down; one that rises again before `int_sent` fell is the
  subject of `NewInterruptTold`, which is violated under the same fairness (section 8).
- `SpiBus` has weak fairness of the flash controller, the SD card controller, the
  arbiter and the flash's own write: each is clocked hardware.  And of the master
  letting go of a cycle in which nothing is asked and nothing owed, as
  `fwb_slave.v` and every master here have it.  The card's host and new requests
  have none.  `FlashAnswers` follows.  The deadlock check is off: a run may end with
  nobody asking for anything.
- `HostPrograms` has weak fairness of the program's next access, of a halted
  processor coming to its halt, and of the flash's own write.  None of the user,
  of starting a program, or of the running processor.  `LoadEnds` follows.
- `NetUsb` has weak fairness of the thread and of the board (its answers and its
  messages), and none of the clients.  `CloseNoticed` follows, `AnswersForwarded`
  does not (section 8).

No fairness is assumed of the ZipCPU or of the devices in `BusPath`, so nothing
is claimed of how long the debug bus waits for the bus.  `StallBounded` and
`RefreshInTime` are bounded liveness, stated as invariants over counters: they
need no fairness.

## 6. What is proved

Every theorem starts from `Spec` and holds for every value of the constants
that meets the module's named ASSUMEs.  None is about a bounded instance.

**`WbuParts_proof`**: the parts of the run `parts`.

The bus delay, for every set of requests and any number in the devices:
`DelayConserves` (`NothingLost`) and `DelayQueues` (`DelayImplementsQueue`: every step of
the two buffers is a step of `BoundedQueue` or a stutter).  They rest on the invariant
`TypeOK /\ BuffersInOrder /\ NothingLost` of `BusDelay`: the second buffer is only used
when the first is full, and the first only in a cycle.  The lemma `DelayStep` reads the
registers' assignments as propositions, and the other steps rest on it; a step of any
other part is a stutter of the delay (`DelayAlone`).

The FIFO, for every depth `FLEN >= 4` and every set of words: `FifoTypeCorrect`; and,
when the writer leaves a clock between two writes (`SpacedWrites`): `HeadShown`, `ReadsServed`, `OverflowRefused`, `RoomIsUsed`, and
`FifoRefinement`: every clock is a step of `BoundedQueue` or a stutter
(`ImplementsQueue`).  The last rests on `ContentsType`, which says where in the
memory the words of the queue are, wrapped or not.  None of these is inductive: the
flags lag the pointers.  `FifoInv` adds what makes the lag harmless: `FlagsSound` (a raised flag is never wrong, and
a full FIFO that is written has its flag up) and `ReadGated` (both readers look at
`o_empty_n` first, `rtl/wbubus.v:88`, `rtl/wbuoutput.v:76`).  `SpacedWrites` is
what the command FIFO has: a codeword ends with a character, and a character
takes many clocks.  It is a hypothesis of the theorems and a constant of the
module, and without it `OverflowRefused` is false (section 8).  `FifoQueues` carries the
refinement over to the run.

`HostReadsRightWord` (`HostReadsWord`): for every size of the table and every set of words.
The FPGA searches its table, one place a clock through registers, while words are added to
it.  `CpSame`: the tables of host and FPGA are equal in every slot that may be referred to
(`CpValid`).  `CpSearch`: from which clock on what the search has read and compared is of the
word that waits, and that a match stays one until it is sent, since nothing is added
before (`CpFinds`). `PartBack`, `PartNext` and `PartStep` are the
arithmetic of a table that wraps.

`CommandsComeOut` (`CommandsArrive`): for every size of the table, every length of burst and
every gap of at least four clocks between two characters (`GapAssumption`; a character
is eight bit clocks or more).  Host and board are never in step while digits are on
the line, in the reader or in the decompressor.  `InTimes` says that time keeps these
stages apart: a code that is complete is gone before the next digit comes.  `InLine` and
`InHeld`: the digits on the line and in the reader are those of one code, in order.
`InBurst`: the reader is in a burst exactly if the host is, but for the end that is on
its way.  `InTables`: the host's table is what the board's will be when everything on its way has
arrived (`InWill`, `InAtLast`), not what it is.  `InDue`: the commands still due are the one at the
output, the one in the decompressor, the one in front of it and the one on the line, in
this order, each with the word it will have got by then (`InMeans`).  A clock moves each of them up
one place or keeps it (`InMovesUp`, `InOrder`).  TLC checked both invariants first, on the
instance of `parts` and on ones with other sizes of table and gap.

`ScopeIsShown` (`ScopeShows`): for analysers of any length from eight words on
(`ScopeAssumption`; `rawread` takes none of four or less), every holdoff and every time of
the trigger.  `AnFirstRound` and `AnLaterRounds` say of the memory which sample each word
holds, counted back from the place written next, before and after it was full once (the
word that is due to be written lags the clock by one: the trigger's clock wraps at twice
the length, the place at once the length).  `AnRecords` adds that the trigger lies as many
clocks back as the counter says, which stops one past the holdoff.  `AnAsks`: what the
program was told at its poll is still so when it reads, although an answer takes two clocks
and the recording may stop in between.  `AnReads`: the words asked for are those in the
buffer and on their way (`AnDue`), and each is the next one of the recording, if the read
pointer was at 0 at the poll; the look-ahead of the address is right from the
clock on in which the recording is seen stopped.  A program that is killed between two
words leaves no answer behind (`AnLeaves`), only the pointer.  `AnWhole` turns places into
times, `AnLines` is the printing.

`PipeKeepsAll` (`PipeIntact`): for every time a character takes, every length of the buffer and
any number of clients, each of which may come, write, hang up and be followed by the next.
`PcComing`: the characters in the socket and in the input buffer are those written and not
yet heard by the core.  `PcHeld`: the core is told of a busy line while the port
holds its character, so it raises the next only in a clock in which it is taken.
`PcBuffer` and `PcSplit`: the output buffer is what an earlier client was not sent of
its line, followed by the characters since this one came (`PcTold`).

`EveryCharacterArrives` (`CharsArrive`): for every number of data bits, with or without
parity, one stop bit or two, and from five clocks per baud on (`SerialAssumption`), in both
directions.  The invariant says which bit of which character is on the wire (`UtSends`: the
sender's state and what it has left agree with it), how many bits of it the receiver
has, and that the two counters stay a constant apart: UARTSIM samples in the middle of a bit
(`UtSimInStep`), `rxuart` three clocks later, since it sees the line through two registers
(`UtInStep`, `UtSynced`).  So a sample never falls on an edge, and the last one falls
before the frame ends.  UARTSIM goes on counting past that sample and may meet the next
start bit before it is idle again (`UtSimMeets`: then two characters are under way); it
counts from the edge it remembers, and that edge is never more than half a bit old
(`UtSimEdge`).  `rxuart` is idle again before the next edge can come
(`UtDone`), with one stop bit or two.  Below five clocks per baud this argument does not hold:
the half bit and the three clocks do not fit into one bit.  TLC finds the property
right down to two clocks, and wrong at one.

**`WbuOutput_proof`**: for every set of codewords of one to six digits, every length of
line and every time before an idle codeword.  `EveryDigitInOrder` (`NothingLost`): the
digits in the five stages are those taken and not yet sent.  Each
stage makes its busy wire in a way of its own; the invariant needs no more of them than `BusyWithWord`,
that `wbudeword` says it is busy while it has a digit left, since it is the only stage
that takes a word without looking whether it has one.  `FlowsIn`, `FlowsThrough` and
`FlowsOut` say of the front, the middle and the end of the way that what they held and
were given is what they gave on and hold; `Flows` puts the three one behind the other.
A newline is no digit: those the line needs come from two stages and may be dropped by a
third, which the property leaves open.

**`BusPath_proof`**.  First the master alone, for every set of read lengths up to 1023, every address
width, and every number of requests in flight up to 1023.  `Inductive`, then
`TypeCorrect`, `ReadsExactly`, `EachAnswerOnce`, `CountRight`,
`NothingAbandoned`, and `RequestRulesKept`: every step keeps the rules of `WbMaster`
(`KeepsRequestRules`; the lemma `RulesStep` takes the states one by one).  These are the
rules for a request, `fwb_slave.v:199-229`; that an error ends the cycle (193-197) is
not among them, and false (section 8).  `IInv` adds to the three invariants: `StateWires` (what each
state says of `CYC`, `STB` and `WE`), `LengthTests` (the two registered tests
are equivalent to one word left: the heart of it), `AckTests` (`last_ack` and
`zero_acks`, a clock old, still bound the requests in flight) and `Told`.
The lemma `ModSucc` (stepping a wrapped address) carries `ReadExact`'s address.
The theorems assume `HostWaits`: no command is taken in the clock after an error
in which the cycle is still open.  `rtl/wbubus.v:100-102` says the host waits
for its answers; without it, see section 8.

Then the path, for every number of requests the devices may hold.  What is
proved of the master alone holds of it behind arbiter and delay, since every step
of the path is one of its steps (`PathReadsExactly`, `PathAnswersReported`,
`PathAbandonsNothing`, `PathKeepsRequestRules`).  `AnswersGoHome` (`RightOwner`: an answer
reaches the master that asked) and `NothingIsLost` (`NothingLostInPath`: the master's
count of requests in flight is what is in the buffers, the devices and on the
answer wires, or its cycle was given up) rest on one inductive invariant,
`PathInv`, that TLC checked first on the instance of `path`:
`OneOwner` and `Side` say whose requests the delay and the devices hold,
`Apart` that those behind bit 24 and those on the shared bus are never in flight
together, `DelayOrder` which buffer is used when, `Counted` is the count itself
and `Emptied` says that a closed cycle leaves nothing behind.  Hypotheses: `HostWaits` as
above; `~Crosses`, no read steps across bit 24 (the hazard at
`rtl/busmaster.v:188`, without it both are false, section 8); and
for `NothingIsLost` `MaxPend > DevMax + 2`, the bound of the model must leave room
for what the devices, two buffers and the answer register hold, so that it
never stops the master.

**`BoardParts_proof`**: seven parts of `board`, for every value of their sizes.
`LoadsAnswered` (`LoadsReturn`): `Ring` says that the list of `pipemem.v`, read from
`rdaddr` and wrapped, is what was issued and not answered, `OnTheBus` that the
devices owe the same operations but the one still on the wires, `Answered` what
the answer register holds.  The lemma `Fill` is the arithmetic of the two pointers.
`InterruptsKept` (`NoEventLost`): the debugger's reads of the second controller are
steps like any other; the part of the invariant about that controller, and of the
property about its events, ends with the first of them (`looked`).
`TimersRing` (`RingsInTime`): the timer, and the jiffies until an alarm is set in the
clock in which another rings (`met`).  The jiffies' comparison of
differences is proved for every even number of values of the counter.

`CopiesWhatItShould` (`Copies`): for every size of the buffer, every length and block,
and every abort, halt, error and reset in between.  `Copies` speaks of the words
written; the invariant `MvInv` has to say where each of them is on its way.
`MvBuffer`: the first `nread` words of the block are in the buffer, and `cfg_raddr` and
`cfg_waddr` are where the length says.  `MvReads` and `MvWrites`: what the devices owe is the
difference of the two counts, each request in its place, and the four registered tests
(`last_read_request` to `last_write_ack`), a clock old, are right whenever they are
looked at.  `last_write_ack` is not: while requests still go out it is up whenever
every word taken so far is about to be answered.  It does no harm because of the two
buffers in front of the devices (`MvHeld`): as long as words are still to be taken one of
those taken is in a buffer, and an answer that arrives leaves two more due
(`y.o_wb_ack => Len(p) >= 3` in `MvWrites`).  No hypothesis is needed: the devices behind
the delay may stall and answer as they like.  The lemmas `MvReading` and `MvWriting`
are a clock of each kind, the lemmas `MvFrom...` take the states one by one.

`HandsTheInstruction` (`HandsInstruction`): for every number of lines, of tags and of
words in a line (three at least; the code's sizes are powers of two, which the proof
does not need), every set of lines that answer with an error, and every bus that takes
at most `Words - 2` requests before it answers (`PfAssumption`, see section 4).
What the decoder gets was read a clock ago, from a cache that may have changed
since; the invariant `PfInv` says why it is right all the same.  `PfKeeps`: a line that is
valid holds the words of the address its tag belongs to, none older than the last
clearing.  `PfAlone`: the line being loaded is not valid, so nothing that is valid is
written (`PfValidStays`).  `PfLoads`: of the line being loaded `n` words have come,
and the write address, the request address, `last_addr`, `last_ack` and the words the
bus still owes are each where `n` says; its tag is written by the first answer at the
latest; unless the cache was cleared meanwhile (`bus_abort`), what has come is no older
than the clearing.  `PfSaves` carries that over the clock between the last answer and
the valid bit.  `PfFresh`: the tag that was read is the tag of its line if the line is valid;
`PfHands`, of an instruction on offer, also keeps that its line has its tag, which
is why `tagvalipc`, which may have been read for another line, is good enough for the
next address of the same one.  `PfParts` to `PfSlots` are the arithmetic of line, index,
tag and slot.  The invariant was checked by TLC on the instance of `board` first.

`ReadsAreRight` (`ReadsRight`) and `WordsLandWhereMeant` (`WritesLand`): the debug link, for
every number of values of a digit, every size of the read table and the address
space, every length of a call and every error of the bus.  Host and board are never in
step while anything is on its way, so the invariant `DlInv` speaks of what each will
have learned when it has taken what is on its way to it.  `DlReads`: there is a sequence
`V` of what the host will know (address, words left, place in its table, the table) after
each codeword, from what it knows now (`DlKnows`) to what the board takes it to know
(`DlBoard`: the read is still to be taken, `DlWaits`; under way, `DlUnderWay`; all
answered, `DlAnswered`); `DlTook` says what one codeword does to it, and `DlSame` that the
entries of the two tables are equal as far back as the board may refer.  From an error on
the host is out of the call (`over`).  `DlGuided`, while no error was told: the commands on
their way lead from the address the board is at to the one the host counts on
(`DlLeadTo`), each word being meant for where the board then is.  It rests on
`AddressIsDecoded`, the round trip of `AddrCode` for every base.  Both have the
hypothesis `Top <= Span(4)`, addresses of at most four
digits: everything of the map but the ZipCPU's debug port is below 2^24 words, and with that
port they are false (section 8).  `ReadsAreRight` also has `~ReadsBack` and `~Catches`
(false otherwise, section 8).  `WordsLandWhereMeant` needs neither: `DlGuided` holds
until the first error, whatever programs read and whichever go on after it.
Any address may answer or not, the top one, from which both
sides go on at 0, too (`rtl/busmaster.v` decodes some bits only).  TLC checked the invariant on the instance of `board` and on one with
three entries in the table and blocks of two words.

`SdramAnswersInTime` (`AnsweredInTime`) carries the theorems of `WbSdram_proof` over
to the board, where the controller's steps are those of `WbSdram`.

**`WbSdram_proof`**: the SDRAM controller and its chip, for any number of rows, of
banks from 2 on (with one bank the one opened ahead would be the one in use), for
every startup and every time between refreshes from 12 clocks on (a
refresh takes 7, and a request behind it needs time to be taken before the next;
the code has 625).  `ChipAcceptsAll` (`CommandsAccepted`), `WordsAreRight` (`RightWord`),
`EachAnsweredOnce`, `RefreshesInTime` and `TakenInTime`.  None is inductive.  `SdramInv`
says, while the chip is set up (`Asleep`), how far the controller and the chip
have come, side by side, and after that (`Awake`): `Shadowed`, the chip is
where the controller was a clock ago and the command on the wires is what sets
them apart; `Sound`, that command was right for the chip when it was decided, and still is;
`Driven`, the halves of a word are on the data wires; `Remembered`, the
register `r_bank_valid`, a clock old, is right of a bank that is open;
`Answering`, two answers never fall into one clock.  For that a read must be answered 5 or
6 clocks after its command (`RDLY`; the code has 6): later, and a write that follows would answer
in the same clock.  `Due` bounds how late a refresh is by what has to end before it (a burst, an
opening, the closing of all banks).  `ToGo` is how many clocks a request still waits
if no refresh comes, the lemma `Nearer` that each clock takes one off it, and
`Served` bounds the wait through a refresh that is due, on the wires or under
way.  TLC checked these invariants on the instance of `board`, and with refreshes every
12 clocks, before they were proved.

**`SpiBus_proof`**: the two controllers and the two chips on their shared lines, for every
geometry of the flash in which a page of the chip is a whole number of the controller's
(`FlashSizes`, `PagesAgree`), every set of requests of the kinds a master can make
(`RequestsAssumption`), every set of blocks of one length on the card (`BlocksAssumption`)
and every wait of the card (`SdTimes`).  `ReadsAreCurrent` (`ReadsWhatWasWritten`),
`WritesReachChip` (`WritesLand`), `ChipsAreServed` (`NeverRefused`) and `CardAnswers`
(`SdAnswered`).  The first three are about a chip that knows the controller's erase, as
that of the board does (`ChipErases`; the simulated one does not, section 8), and count
the erases that are begun: one asked for during a write is not (section 8).  The properties speak of the moments at which a controller is idle or
answers; the invariant has to say for every byte on the lines between them what the chip
has made of it.  It has two halves, which meet in the arbiter only, as the chips do.
`FlInv` has a phase for each state of the flash controller: what is still to be sent,
what the chip has of the command, and how its memory differs from what was asked for
(`want`): not at all when idle (`FlLands`), by the write that waits (`FlOwed`), by
the page in its buffer (`FlPage`, with the rest of the buffer untouched, `FlFresh`), by
the sector being erased (`FlErased`).  `FlTells` is what makes polling sound: an answer
that says no write is in progress stays true, since only the controller starts one, and
`FlKnows` that the controller's own bit is never down while the chip is busy.  An
abandoned page write ends with the words sent so far, and `want` with it
(`FlProgramSends`).  `FlNextInPage` is where the controller's pages and the chip's
meet: the test of `rtl/wbspiflash.v:511-513` keeps the address below the place at which
the chip's buffer wraps.  `CdInv` has a phase for each part of a command of the card: what the driver
has asked for and why the card is ready for it (`CdReady`, `CdDone`), the
command on its way (`CdSends`), its answer (`CdDelays`, `CdWord`), the block that is read
(`CdReads`: as many of its bytes as the card has given out are in the FIFO, at
their places) or written (`CdWrites`), and the command given up, which leaves the card
quiet and its initialisation where it was.  TLC checked both halves on the instance of
`spi` (1.07 million states) before they were proved.

**`HostPrograms_proof`**: the programs on a processor that runs between any two of their
accesses, for every set of files, every number of registers and words, any bus
error, and any keys.  `ScreenIsTrue` (`RegistersShown`) and `ValueLandsWhereShown`
(`TypedLands`) rest on `DbgInv`: while zipdbg or zipstate reads, each register it has read
is the processor's, since the last write of the control register halted it and only
another lets it go; the instruction shown is the word at the program counter it read.
`FileIsLoaded` (`LoadedAsFile`) and `CacheIsFresh` (`NoOldCode`) rest on `RunInv`:
`RunHalted`, the processor stands from the reset on; `RunPlaced`, the sections loaded so
far are in memory word for word, and the byte order of the host and of the bus cancel
(`HpBytes`); `RunCleared`, the registers behind the loop are 0; `RunFresh`, nothing is
old in the cache from its clearing on, as memory is not written after it.  Hypotheses:
`StartHalted`, a reset halts the processor, as `rtl/busmaster.v:228` and 244 build it; and
for `FileIsLoaded` `Apart`, no two sections of a file share a word of memory: one would
be written over the other.

A theorem that needs such a hypothesis has it in its ASSUME, and the run that
checks the same property gives the constant the same value.

## 7. What is only model-checked

- Liveness (`InterruptTold`, `EverythingSent`, `FlashAnswers`, `LoadEnds`,
  `CloseNoticed`): out of TLAPS's reach.
- `BitstreamKept` of `host`: an action property of the flash driver's loops, next to be
  proved.
- `StreamsIntact` of `netusb`: what was said is the concatenation of the packets on
  their way, of any number, cut anywhere; the concatenation of a sequence of sequences is
  recursive too.
- What a recursive definition computes for all inputs: out of reach.  No
  module here needs one; the codes of `AddrCode` are arithmetic on a digit count.

## 8. Where the code and what it says of itself differ

Five have a run of their own, and an entry under "findings".

1. **An error with the last request leaves the master waiting**
   (`rtl/wbuexec.v:193`, run `exec_error_hang`).  In `WB_READ_REQUEST` the test
   for the last request (lines 191-196) comes after the one for an error
   (174-178) and overrides its state.  The controller enters `WB_ACK` with
   a count of answers that the error has already given; the watchdog ends it
   2^19 clocks later.
2. **A difference of four digits is sent under the code of three**
   (`sw/ttybus.cpp:370`, run `addr_code_debug_port`).  With this memory map it
   takes the step from the SDRAM up to the ZipCPU's debug port.
3. **A word read back after a write may be another word**
   (`sw/ttybus.cpp:421`, run `link_read_back`).  The host starts its read table
   over when a write sends an address; the board does not, and a read that
   continues where the write ended sends no address that would make it.
4. **An answer may stay in `netusb` until the client speaks again**
   (`sw/netusb.cpp:146`, run `netusb_answers`).  With a client connected the thread
   sleeps in `poll` on the client's socket alone; the board is asked once for each
   burst of commands, and what it answers later waits.
5. **The read of eight words of one address is an end of burst**
   (`sw/ttybus.cpp:434`, run `eight_words`).  `readcmd` encodes it as `0x2e`, the
   codeword `wbureadcw.v:103` makes of a newline after writes and `wbuexec.v:166`
   ignores: nothing is read and the host waits.  The other reads have codes of their
   own.

Six more are stated as properties of their modules.  TLC finds each violated in
that module, with the constants of the cfg named, when it is given as the INVARIANT or
PROPERTY:

- `WbuExec!DropsCycleOnError`, of an error (`MCBusPath`; `rtl/wbuexec.v:171`).
  `bench/formal/fwb_slave.v:193-197` wants `CYC` down in the clock after it;
  `WB_READ_REQUEST` sets it whatever the bus answers, and `WB_IDLE` takes it down a
  clock later.  A command taken in that clock starts inside the old cycle
  (`HostWaits = FALSE`).  The rules for a request (lines 199-229) hold:
  `KeepsRequestRules`.
- `WbuOutput!NewInterruptTold`, of an interrupt that rises again (`MCWbuOutput`;
  `rtl/wbuidleint.v:125`).  `int_sent` falls only in a clock in which the line is low, and
  no request stands in an idle stage.  The line is a level (`rtl/busmaster.v:600`): if it
  rises again before that, the host is not told however long it stays up.
  `InterruptTold` leaves this case out.
- `SpiBus!EraseNotDropped`, of an erase written while a page is programmed (`MCSpiBus`;
  `rtl/wbspiflash.v:444`).  It is acknowledged, kept until the chip is ready, and then
  falls into the default of a `case`.  `WritesLand` and `ReadsWhatWasWritten` do not count
  it.
- `SpiBus!KnownToSimulator`, of the erase command (`MCSpiBus` with `EraseBytes <- MCSimErase`;
  `rtl/wbspiflash.v:739`).  The controller sends `0x20`, a 4 kB erase (the `0xd8` of the
  line above is commented out); `bench/cpp/qspiflashsim.cpp:327-342` knows `0xc7` and
  `0xd8` only, and ends at `assert(0 && "Unrecognized command\n")` (351).  So no erase can
  be simulated.  The chip of the run `spi` is that of the board (`ChipErases`).
- `ZipTimers!AlarmRings`, of an alarm set in the clock in which another rings
  (`MCBoardParts`; `rtl/cpu/zipjiffies.v:152`).  It is compared with that one, and its time
  dropped; `int_set` stays, so the old alarm rings once more when the counter has gone
  round.  `RingsInTime` says nothing after this case.
- `ZipTimers!PastIgnored`, of an alarm for the past (`MCBoardParts`;
  `rtl/cpu/zipjiffies.v:142`).  It rings at once, where lines 28-29 say it is ignored.
  `RingsInTime` has it as the code does it.

Others turned up on the way.  Each is reached by changing one constant or
taking one condition away, and is not kept as a run:

- With writes on adjacent clocks, as the output FIFO gets them from a pipelined
  device, `rtl/wbufifo.v:66` does not see the wrap and a full FIFO takes a word
  (`SpacedWrites = FALSE` refutes `RefusesOverflow`).  It takes 1023 unread
  codewords.
- A read that steps across bit 24 hears the answers of the wrong side
  (`rtl/busmaster.v:188`; `Crosses = TRUE` refutes `NothingLostInPath`).
- `writev` leaves `m_lastaddr` where a whole write would, even if an error cut it
  short (`sw/ttybus.cpp:289`), and a program that catches the error of a read and
  reads on may be given words of the wrong address (`Catches = TRUE` refutes
  `WrongAddressNoticed`).  `~erred` in the properties of `DebugLink` marks where
  that starts.  Most programs of `sw/` end at the first error they are told of;
  `zipdbg` (`sw/zipdbg.cpp:128-177`) and `wbregs` (`sw/wbregs.cpp:252`) catch it.
- A read of the second interrupt controller writes it, with what is left on the
  data wires (`rtl/cpu/zipsystem.v:616` and 627 lack `sys_we`, which the first
  controller has at 699).  A program that serves it writes its settings again; the
  debugger's screen, which reads every peripheral (`sw/zipdbg.cpp:114-115`),
  may clear what is pending: `Interrupts!CountersKept`, which is the part of
  `NoEventLost` about the counters without `looked`, is violated.
- The DMA's `last_write_ack` (`rtl/cpu/wbdmac.v:478-485`) is up when every word taken so
  far is about to be answered, and line 324 takes the next answer for the last of the
  block.  If a device could answer a word before the next was taken, the block would end
  early and the next one write other words in the place of those left.  On the board
  the two buffers of the bus delay keep that away; with `dly.held >= 1` for
  `dly.held = 2` in `Bus`, TLC finds `Copies` violated.
- The header of `rtl/cpu/wbdmac.v` has the codes for halt and abort (lines 59-61)
  the other way round from lines 579 and 586, and another start code (74)
  than line 239.  `WbDma` follows the code.
- `10'h521` (`rtl/wbucompress.v:251`) is 1313 cut to 289: longer matches are found
  and thrown away.  It costs compression only.
- `assert(m_lastaddr == a+(inc)?...)` (`sw/ttybus.cpp:488`) groups as
  `(m_lastaddr == a+(inc)) ? ...`, which is not what it means to say.
- `rxuart` computes even and odd parity the other way round from both
  transmitters (`rtl/rxuart.v:361-365` against `rtl/txuart.v:322` and
  `bench/cpp/uartsim.cpp:228`), so it flags every such character.  The flag is down
  again in the clock in which `o_wr` rises, and `rtl/uartdev.v:120` shows it live,
  so no program sees it.  `CharsArrive` asks nothing of the flag with such a parity.

What the modules of the programs carry as the code has it, each a behaviour a
property had to step around or a module's comment names:

- `ziprun -r` ("Actually start the CPU as well", `sw/ziprun.cpp:71`) never starts
  it: what it writes, `CPU_GO|CPU_sPC` (359), holds the halt bit, which is part of
  `CPU_sPC` (`sw/regdefs.h:185`).  A section behind an
  empty one is not loaded (232, 265), which is why `LoadedAsFile` speaks of the
  sections kept in `image`.
- `flashdrvr.cpp`: the inner `len` is initialised with itself (234), so the length
  programmed is a choice in `Page`; `ln` may underflow (197); the second 4 kB of
  each 8 kB step are not erased; `verify_erase` looks at a part of the sector; a
  failed write leaves the protection off.
- `zipdbg`: a value typed into one of the user's counters goes to the master's
  (`sw/zipdbg.cpp:537-540`), the exception in `TypedLands`; `l` falls through to `m`.
- `usbi.cpp`: the `v` tested in `poll` (435-439) is never updated, so a call goes on
  until the ring is nearly full; `push_fifo` does not look for overflow (379),
  which `poll` keeps away; a request that went unanswered leaves all later answers a
  packet behind.
- `netusb.cpp`: `pv` is read uninitialised when no client is connected (213).
- The scopes' programs do not look at the bit that says the read address was zero,
  so one that was killed in the middle of a read leaves a rotated list to the next:
  `ScopeShows` asks for the order only where the bit says so.

Seen while reading, to be settled with the modules of section 9:

- the stopwatch's hours (`rtl/rtclight.v:310-311`), the hour's wrap
  (`rtl/rtclight.v:121`), and the clock set in the clock in which a second carries
  (`rtl/rtclight.v:136`);
- a cached word written while its line is replaced (`rtl/cpu/dcache.v:508`), in
  builds that have a data cache;
- two devices that answer in one clock (`rtl/busmaster.v:425`), which the comment at
  414-423 leaves to the masters;
- what an old client's half line in the simulated port becomes for the next one
  (`bench/cpp/pipecmdr.h:187`): `PipeCmdr` has it go to the next, as the code does;
- a precharge one clock after a write (`rtl/wbsdram.v:361`): the chip wants its
  recovery time, but neither the bench's chip nor any text here states it;
- the debug bus waits for as long as the ZipCPU keeps its cycle open
  (`rtl/cpu/wbpriarbiter.v:106`): nothing in the arbiter bounds it.

## 9. What is not modelled, and the plan

Inside the modelled parts:

- The 19-bit watchdog of `wbubus.v` is a step that may come in any clock in which
  the cycle is open and nothing is acknowledged: every time it could come.
- `wbureadcw`'s length decoding of counted reads is reduced to the digits
  announced and to the one length whose code is taken for another; a host killed inside a codeword is left out.
- `usleep`, `wait` and the loops of `readidle` are reduced to "an answer is seen,
  or not yet".
- `DebugLink` counts words: both sides go on at 0 after `BusSpace` of them.  The host
  keeps bytes in 32 bits, so its addresses go on at 2^30 words, the board's at 2^32;
  only after an error can either be up there.
- In `WbuOutput` the codeword a compressed one replaces keeps its length; the
  replacement is `WbuCompress`.
- Byte selects of the SDRAM go with the data.
- `BusPath` has one ZipCPU master with free requests; the select lines and the
  answers of several devices are left out.
- `SpiFlashCtl` leaves out the quad commands, which nothing here
  sends, deep sleep, and the contents of the configuration and identification
  registers.  `SdSpi` leaves out R1b answers and the settings of clock and block
  length.
- `ZipPort`'s processor is one that fetches, executes, writes memory or a register,
  and stops: what the programs can tell of it.  The pipeline is not in it.
- In `ZipRun` the driver works on the flash as a bus access finds it; that the controller
  makes it so is `SpiBus`'s.
- `jtagser.v` is the exchange of characters that `NetUsb` describes; its two
  clock domains are left out.  The traffic of `netusb` is too little to overflow the
  ring, so nothing is said of that.
- `PipeCmdr`'s client takes all that is sent: a `send()` that fails
  (`bench/cpp/pipecmdr.h:212-216`) or sends a part is left out.
- `Uart` starts from a quiet line and has both ends of one setup; breaks and the
  registers of `uartdev.v` are left out.
- `Scope` is the build with one clock, as `busmaster.v` has it.
- `WbDma` has one address space for source and destination, whose devices answer in order;
  which of 32 lines triggers a transfer is left out.
- `PfCache` has one write of the memory, at any time; `PipeMem` has no data, an
  operation stands for its own; neither has the pipeline behind it.
- `ZipTimers` has one timer of three; `Interrupts` starts when the program has set
  the controllers up.

Left out for good: `bench/cpp/busmaster_tb.cpp` beyond the wiring of its chips,
build files, the assembler's text handling, programs that are one loop of reads
and prints.  `PROJECT.json` gives each its reason.

Planned modules, most important first; next to each the properties aimed at:

1. `Clocks`: `ioslave`, `rtclight`, `zipcounter`, `wbwatchdog`: a carry reaches the
   next digit whatever is set in that clock, an alarm rings.
2. `ZipSys`: the processor's side of `zipsystem.v`: `Interrupts`, `ZipTimers`, `WbDma`
   and the arbiters on one bus, so that the DMA and the processor contend.
3. `CpuMem`: `memops` and `dcache` against the memory of `PipeMem`.
4. `CpuFetch`: `prefetch` and `dblfetch` against the promise of `PfCache`.
5. `ZipPipe`: stalls and hazards of the pipeline; `div` and `mpyop` against
   arithmetic.
6. `BusDecode`: select lines, several answers, error address.
7. `RtcClock`, `UartDev`, `Scopc`, `Pwm`, `Icape`.

To keep the number of runs and properties in hand, a new module takes the place
of one whose properties are contained in another's or proved, and parts that do
not interact share the runs `parts` and `board`.

Planned proofs: `BitstreamKept`; the parts of `StreamsIntact` that need no induction (order inside
one packet, for any size of packet and ring); and the central invariant of each planned
module.
