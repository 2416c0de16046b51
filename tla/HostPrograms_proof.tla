--------------------------- MODULE HostPrograms_proof ---------------------------
(***************************************************************************)
(* Proofs about the programs of the host that work on the ZipCPU, for any  *)
(* set of files, registers and words of memory, and whatever the processor *)
(* does between two accesses.                                              *)
(***************************************************************************)
EXTENDS HostPrograms, TLAPS

-----------------------------------------------------------------------------
(* The debug port and the processor behind it.                             *)

\* Registers, cache and memory have a value at every place.
PortShape ==
  /\ reg = [r \in Followed |-> reg[r]] /\ mem = [w \in Word |-> mem[w]]
  /\ icache \in [Word -> {"none", "fresh", "old"}]
  /\ cpu \in {"run", "halting", "halted"}

\* The program, its place and its counter; the cell of the cursor.
ProgShape ==
  /\ prog \in [who : {prog.who}, at : {prog.at}, i : Nat]
  /\ m_cursor \in 0 .. Cells - 1

\* No instruction in the cache is older than the memory.
NoneOld(c) == \A w \in Word : c[w] # "old"

\* A fetch brings in nothing that is old.
LEMMA HpFetched ==
  ASSUME NEW c \in [Word -> {"none", "fresh", "old"}], NEW pc
  PROVE  /\ Fetched(c, pc) \in [Word -> {"none", "fresh", "old"}]
         /\ NoneOld(c) => NoneOld(Fetched(c, pc))
BY DEF Fetched, NoneOld

\* An empty cache holds nothing.
LEMMA HpEmpty == Empty \in [Word -> {"none", "fresh", "old"}] /\ NoneOld(Empty)
BY DEF Empty, NoneOld

\* A write of memory leaves the cache in its type.
LEMMA HpOutdated ==
  ASSUME NEW c \in [Word -> {"none", "fresh", "old"}], NEW ws
  PROVE  Outdated(c, ws) \in [Word -> {"none", "fresh", "old"}]
BY DEF Outdated

\* A write of the control register with the halt bit: a processor that stands stays so,
\* with its registers.
LEMMA HpControls ==
  ASSUME PortShape, NEW bits, NEW a, WriteCtrl(bits, a)
  PROVE  /\ PortShape' /\ cmd_addr' = a /\ mem' = mem
         /\ "halt" \in bits /\ "reset" \notin bits /\ "step" \notin bits =>
              /\ reg' = reg
              /\ cpu = "halted" => cpu' = "halted"
              /\ "clrcache" \notin bits => icache' = icache
              /\ "clrcache" \in bits /\ cpu = "halted" => NoneOld(icache')
         /\ "reset" \in bits /\ StartHalted => cpu' = "halted"
<1> USE DEF WriteCtrl, PortShape
<1>1. reg' = [r \in Followed |-> reg'[r]]
  <2>1. CASE "reset" \in bits  BY <2>1
  <2>2. CASE "reset" \notin bits  BY <2>2
  <2> QED  BY <2>1, <2>2
<1>2. icache' \in [Word -> {"none", "fresh", "old"}]
  BY HpFetched, HpEmpty
<1>3. "clrcache" \in bits /\ cpu = "halted" => NoneOld(icache')
  BY HpFetched, HpEmpty
<1>4. cpu' \in {"run", "halting", "halted"}  OBVIOUS
<1>5. "halt" \in bits /\ "reset" \notin bits => HaltAfter(bits) = TRUE
  BY DEF HaltAfter
<1>6. "reset" \in bits /\ StartHalted => HaltAfter(bits) = TRUE
  BY PortAssumption DEF HaltAfter
<1> QED  BY <1>1, <1>2, <1>3, <1>4, <1>5, <1>6

\* A value written to a register of a processor that stands.
LEMMA HpWrites ==
  ASSUME PortShape, NEW v, WriteData(v)
  PROVE  /\ PortShape' /\ cmd_addr' = cmd_addr /\ mem' = mem /\ cpu' = cpu
         /\ cmd_addr \in Followed => reg' = [reg EXCEPT ![cmd_addr] = v]
         /\ NoneOld(icache) => NoneOld(icache')
<1> USE DEF WriteData, PortShape
<1>1. reg' = [r \in Followed |-> reg'[r]]
  <2>1. CASE cmd_addr \in Followed  BY <2>1
  <2>2. CASE cmd_addr \notin Followed  BY <2>2
  <2> QED  BY <2>1, <2>2
<1>2. /\ icache' \in [Word -> {"none", "fresh", "old"}]
      /\ NoneOld(icache) => NoneOld(icache')
  BY HpFetched
<1> QED  BY <1>1, <1>2

\* The other accesses leave registers and processor as they are.
LEMMA HpReads ==
  ASSUME PortShape, StrobeData \/ ClockData
  PROVE  PortShape' /\ cmd_addr' = cmd_addr /\ mem' = mem /\ cpu' = cpu /\ reg' = reg
BY DEF StrobeData, ClockData, PortShape

\* Words written to the memory.
LEMMA HpStores ==
  ASSUME PortShape, NEW ws, NEW word, WriteMem(ws, word)
  PROVE  /\ PortShape' /\ cmd_addr' = cmd_addr /\ cpu' = cpu /\ reg' = reg
         /\ \A w \in Word : mem'[w] = IF w \in ws THEN word[w] ELSE mem[w]
<1> USE DEF WriteMem, PortShape
<1>1. icache' \in [Word -> {"none", "fresh", "old"}]  BY HpOutdated
<1> QED  BY <1>1

\* A processor that stands does nothing; one that works keeps its shape.
LEMMA HpWorks ==
  ASSUME PortShape, Cpu
  PROVE  PortShape' /\ cpu # "halted" /\ cmd_addr' = cmd_addr
<1> USE DEF PortShape
<1>1. ASSUME NEW pc, Executes(pc)
      PROVE  /\ reg' = [r \in Followed |-> reg'[r]] /\ mem' = [w \in Word |-> mem'[w]]
             /\ icache' \in [Word -> {"none", "fresh", "old"}]
  <2>1. CASE /\ \E r \in CpuReg \ {PC}, v \in Value : reg' = [reg EXCEPT ![r] = v, ![PC] = pc]
             /\ icache' = Fetched(icache, pc)
             /\ UNCHANGED mem
    BY <2>1, HpFetched
  <2>2. CASE \E w \in Word :
               /\ mem' = [mem EXCEPT ![w] = Old]
               /\ icache' = Fetched(Outdated(icache, {w}), pc)
               /\ reg' = [reg EXCEPT ![PC] = pc]
    BY <2>2, HpFetched, HpOutdated
  <2> QED  BY <1>1, <2>1, <2>2 DEF Executes
<1>2. CASE Retire  BY <1>1, <1>2 DEF Retire
<1>3. CASE Break  BY <1>3 DEF Break
<1>4. CASE ComeToHalt  BY <1>1, <1>4 DEF ComeToHalt
<1> QED  BY <1>2, <1>3, <1>4 DEF Cpu, Retire, Break, ComeToHalt

-----------------------------------------------------------------------------
(* Files and sections.                                                     *)

\* The sections that ziprun loads are those of a file, or it has none yet.
FromFile == image = << >> \/ \E img \in Images : image = Leading(ElfRead(img.phdrs))

\* No two sections of a file have a word of memory in common.
Apart ==
  \A img \in Images : LET secs == Leading(ElfRead(img.phdrs)) IN
    \A j, k \in DOMAIN secs :
      j # k /\ secs[j].mem # "flash" /\ secs[k].mem # "flash"
        => WordsOf(secs[j]) \intersect WordsOf(secs[k]) = {}

\* A section has a place, and as many bytes as it is long.
LEMMA HpSection ==
  ASSUME FromFile, NEW k \in DOMAIN image
  PROVE  k \in Nat \ {0} /\ image[k].start \in Nat /\ image[k].len \in Nat
         /\ image[k].mem \in {"ram", "sdram", "flash"}
<1>1. CASE image = << >>  BY <1>1
<1>2. ASSUME NEW img \in Images, image = Leading(ElfRead(img.phdrs))
      PROVE  k \in Nat \ {0} /\ image[k].start \in Nat /\ image[k].len \in Nat
             /\ image[k].mem \in {"ram", "sdram", "flash"}
  <2> DEFINE h == img.phdrs
  <2>1. h \in Seq([mem : {"ram", "sdram", "flash"}, start : Nat, filesz : Nat, memsz : Nat,
                   ones : SUBSET Nat])
    BY RunAssumption
  <2>2. DOMAIN ElfRead(h) = DOMAIN h  BY DEF ElfRead
  <2>3. k \in DOMAIN h /\ image[k] = ElfRead(h)[k]  BY <1>2, <2>2 DEF Leading
  <2>4. k \in Nat \ {0} /\ h[k] \in [mem : {"ram", "sdram", "flash"}, start : Nat, filesz : Nat,
                               memsz : Nat, ones : SUBSET Nat]
    <3> DEFINE T == [mem : {"ram", "sdram", "flash"}, start : Nat, filesz : Nat, memsz : Nat,
                     ones : SUBSET Nat]
    <3>1. h \in Seq(T) /\ k \in DOMAIN h  BY <2>1, <2>3
    <3> HIDE DEF h, T
    <3>2. k \in Nat \ {0} /\ h[k] \in T  BY <3>1
    <3> QED  BY <3>2 DEF T
  <2>5. /\ image[k].start = h[k].start /\ image[k].len = h[k].filesz
        /\ image[k].mem = h[k].mem
    BY <2>3 DEF ElfRead
  <2> QED  BY <2>4, <2>5
<1> QED  BY <1>1, <1>2 DEF FromFile

\* The sections before one that is loaded are loaded.
LEMMA HpPrefix ==
  ASSUME FromFile, NEW k \in DOMAIN image, NEW j \in 1 .. k
  PROVE  j \in DOMAIN image
<1>1. CASE image = << >>  BY <1>1
<1>2. ASSUME NEW img \in Images, image = Leading(ElfRead(img.phdrs))
      PROVE  j \in DOMAIN image
  <2> DEFINE h == img.phdrs
             secs == ElfRead(h)
             n == Len(h)
  <2>1. h \in Seq([mem : {"ram", "sdram", "flash"}, start : Nat, filesz : Nat, memsz : Nat,
                   ones : SUBSET Nat])
    BY RunAssumption
  <2>2. DOMAIN h = 1 .. n /\ n \in Nat
    <3> HIDE DEF h
    <3> QED  BY <2>1
  <2>3. DOMAIN secs = 1 .. n  BY <2>2 DEF ElfRead
  <2> HIDE DEF h, secs, n
  <2>4. DOMAIN image = {m \in DOMAIN secs : \A l \in 1 .. m : secs[l].len > 0}
    BY <1>2 DEF Leading, secs, h
  <2>5. k \in 1 .. n /\ \A l \in 1 .. k : secs[l].len > 0  BY <2>3, <2>4
  <2>6. j \in 1 .. n /\ \A l \in 1 .. j : l \in 1 .. k  BY <2>2, <2>5
  <2> QED  BY <2>3, <2>4, <2>5, <2>6
<1> QED  BY <1>1, <1>2 DEF FromFile

\* The sections of the file that is loaded have no word in common.
LEMMA HpApart ==
  ASSUME Apart, FromFile, NEW j \in DOMAIN image, NEW k \in DOMAIN image, j # k,
         image[j].mem # "flash", image[k].mem # "flash"
  PROVE  WordsOf(image[j]) \intersect WordsOf(image[k]) = {}
<1>1. image # << >>  OBVIOUS
<1>2. PICK img \in Images : image = Leading(ElfRead(img.phdrs))  BY <1>1 DEF FromFile
<1> QED  BY <1>2 DEF Apart

\* A section that there is room for has its words in memory.
LEMMA HpInside ==
  ASSUME NEW s, s.start \in Nat, s.len \in Nat, Valid(s), s.mem # "flash"
  PROVE  WordsOf(s) \subseteq Word
<1> DEFINE f == s.start \div 4
           n == (s.len + 3) \div 4
<1>1. f \in Nat /\ n \in Nat  OBVIOUS
<1>2. RamWords \in Nat /\ NWord \in Nat /\ RamWords <= NWord
  BY RunAssumption, PortAssumption
<1>3. CASE s.mem = "ram"
  <2>1. s.start + s.len <= 4 * RamWords  BY <1>3 DEF Valid, WordB
  <2>2. f + n <= RamWords  BY <2>1, <1>2
  <2>3. WordsOf(s) = f + 1 .. f + 1 + n - 1  BY <1>3 DEF WordsOf, FirstWord, WordB
  <2> HIDE DEF f, n
  <2> QED  BY <1>1, <1>2, <2>2, <2>3 DEF Word
<1>4. CASE s.mem = "sdram"
  <2>1. s.start + s.len <= 4 * (NWord - RamWords)  BY <1>4 DEF Valid, WordB
  <2>2. f + n <= NWord - RamWords  BY <2>1, <1>2
  <2>3. WordsOf(s) = f + (RamWords + 1) .. f + (RamWords + 1) + n - 1
    BY <1>4 DEF WordsOf, FirstWord, WordB
  <2> HIDE DEF f, n
  <2> QED  BY <1>1, <1>2, <2>2, <2>3 DEF Word
<1> QED  BY <1>3, <1>4 DEF Valid

\* The host's words arrive with their bytes in the file's order.
LEMMA HpBusWord ==
  ASSUME NEW s, NEW w, NEW b \in 1 .. WordB
  PROVE  BusWord(s, w)[b] = ByteAt(s, WordB * (w - FirstWord(s)) + WordB - (WordB - b + 1))
<1> DEFINE h == HostWord(s, w)
<1>1. h = [c \in 1 .. WordB |-> ByteAt(s, WordB * (w - FirstWord(s)) + WordB - c)]
  BY DEF HostWord
<1>2. Len(h) = WordB
  <2>1. DOMAIN h = 1 .. WordB /\ WordB \in Nat  BY <1>1 DEF WordB
  <2> QED  BY <2>1
<1>3. BusWord(s, w)[b] = h[WordB - b + 1]
  <2> HIDE DEF h
  <2>1. Reverse(h)[b] = h[WordB - b + 1]  BY <1>2 DEF Reverse
  <2> QED  BY <2>1 DEF BusWord, byteswap, h
<1>4. WordB - b + 1 \in 1 .. WordB  BY DEF WordB
<1> QED  BY <1>1, <1>3, <1>4

LEMMA HpBytes ==
  ASSUME NEW s, s.start \in Nat, s.len \in Nat, NEW n \in 0 .. s.len - 1
  PROVE  /\ FirstWord(s) + (n \div WordB) \in WordsOf(s)
         /\ BusWord(s, FirstWord(s) + (n \div WordB))[(n % WordB) + 1] = s.byte[n]
<1> DEFINE q == n \div 4
           m == n % 4
           f == FirstWord(s)
<1>1. q \in Nat /\ m \in 0 .. 3 /\ n = 4 * q + m  OBVIOUS
<1>2. f \in Nat
  <2>1. RamWords \in Nat  BY RunAssumption, PortAssumption
  <2> QED  BY <2>1 DEF FirstWord, WordB
<1>3. q <= ((s.len + 3) \div 4) - 1  OBVIOUS
<1>4. f + q \in f .. f + ((s.len + 3) \div 4) - 1
  <2> HIDE DEF f, q
  <2> QED  BY <1>1, <1>2, <1>3
<1>5. WordsOf(s) = f .. f + ((s.len + 3) \div 4) - 1  BY DEF WordsOf, WordB
<1>6. BusWord(s, f + q)[m + 1] = ByteAt(s, 4 * ((f + q) - f) + 4 - (4 - (m + 1) + 1))
  <2>1. m + 1 \in 1 .. WordB  BY <1>1 DEF WordB
  <2>2. WordB = 4  BY DEF WordB
  <2> HIDE DEF q, m, f
  <2>3. BusWord(s, f + q)[m + 1]
          = ByteAt(s, WordB * ((f + q) - FirstWord(s)) + WordB - (WordB - (m + 1) + 1))
    <3> DEFINE b == m + 1
               w == f + q
    <3>1. b \in 1 .. WordB  BY <2>1
    <3> HIDE DEF b, w
    <3>2. BusWord(s, w)[b] = ByteAt(s, WordB * (w - FirstWord(s)) + WordB - (WordB - b + 1))
      BY <3>1, HpBusWord
    <3> QED  BY <3>2 DEF b, w
  <2>4. FirstWord(s) = f  BY DEF f
  <2> QED  BY <1>1, <1>2, <2>2, <2>3, <2>4
<1>7. 4 * ((f + q) - f) + 4 - (4 - (m + 1) + 1) = n
  <2> HIDE DEF f, q, m
  <2> QED  BY <1>1, <1>2
<1>8. ByteAt(s, n) = s.byte[n]  BY DEF ByteAt
<1> QED  BY <1>4, <1>5, <1>6, <1>7, <1>8 DEF WordB

-----------------------------------------------------------------------------
(* ziprun.                                                                 *)

\* ziprun has come to one of these places, or has told that all is loaded.
Come(S) == prog.who = "ziprun" /\ prog.at \in S
Stands == prog.at = "loaded"

\* Once it was told to, the processor stands as long as ziprun works, and then
\* until another program begins.
RunHalted ==
  /\ prog.who = "ziprun" /\ prog.at \notin {"version", "halt", "caught"} => cpu = "halted"
  /\ Stands => prog.who = "none" /\ cpu = "halted"

\* There is room for each section from the first, at 1, that is loaded.
RunValid ==
  Come({"load"}) => prog.i >= 1 /\ \A k \in DOMAIN image : Valid(image[k])

\* A section is in memory, word for word as it goes over the bus.
Placed(k) == image[k].mem # "flash" => \A w \in WordsOf(image[k]) : mem[w] = BusWord(image[k], w)

RunPlaced == Apart =>
  /\ Come({"load"}) => \A k \in DOMAIN image : k < prog.i => Placed(k)
  /\ Come({"check", "flash", "version2", "select", "zero", "selectpc", "setpc", "start", "status"})
       \/ Stands
     => \A k \in DOMAIN image : Placed(k)

\* The registers behind the loop are 0, and at its end all but the program
\* counter, which is then set.
RunCleared ==
  /\ Come({"select", "zero"}) => \A r \in CpuReg : r < prog.i => reg[r] = 0
  /\ Come({"zero"}) => cmd_addr = prog.i /\ prog.i \in CpuReg
  /\ Come({"selectpc", "setpc"}) => \A r \in CpuReg : reg[r] = 0
  /\ Come({"setpc"}) => cmd_addr = PC
  /\ Come({"start", "status"}) \/ Stands => \A r \in CpuReg : reg[r] = IF r = PC THEN Entry ELSE 0

\* The cache was emptied after the last write of memory.
RunFresh ==
  Come({"selectpc", "setpc", "start", "status"}) \/ Stands => NoneOld(icache)

RunInv ==
  /\ PortShape /\ ProgShape /\ FromFile
  /\ RunHalted /\ RunValid /\ RunPlaced /\ RunCleared /\ RunFresh

\* A program that is not ziprun, and has not just loaded a processor, leaves
\* nothing of the invariant but the shape of the port.
LEMMA HpElsewhere ==
  ASSUME RunInv, PortShape', ProgShape', FromFile', prog'.who # "ziprun", prog'.at # "loaded"
  PROVE  RunInv'
BY DEF RunInv, RunHalted, RunValid, RunPlaced, RunCleared, RunFresh, Come, Stands

\* Nothing of it is left either when ziprun starts or has caught an error.
LEMMA HpAgain ==
  ASSUME RunInv, PortShape', ProgShape', FromFile', prog'.at \in {"version", "halt", "caught"}
  PROVE  RunInv'
BY DEF RunInv, RunHalted, RunValid, RunPlaced, RunCleared, RunFresh, Come, Stands

\* The place of the program changes, and its counter perhaps.
LEMMA HpMoves ==
  ASSUME ProgShape, UNCHANGED m_cursor, NEW a, NEW n \in Nat,
         \/ prog' = [prog EXCEPT !.at = a]
         \/ prog' = [prog EXCEPT !.at = a, !.i = n]
  PROVE  /\ ProgShape' /\ prog'.who = prog.who /\ prog'.at = a
         /\ prog' = [prog EXCEPT !.at = a] => prog'.i = prog.i
         /\ prog' = [prog EXCEPT !.at = a, !.i = n] => prog'.i = n
BY DEF ProgShape

\* The program ends.
LEMMA HpShell ==
  ASSUME NEW how, prog' = Shell(how), m_cursor' \in 0 .. Cells - 1
  PROVE  ProgShape' /\ prog'.who = "none" /\ prog'.at = how /\ prog'.i = 0
BY DEF Shell, Program, ProgShape
-----------------------------------------------------------------------------
(* The steps of ziprun.                                                    *)

LEMMA HpRunLook ==
  ASSUME RunInv, RunLook, UNCHANGED dbgvars
  PROVE  RunInv'
<1>1. PortShape' /\ FromFile' /\ UNCHANGED <<cpu, reg, mem, icache, cmd_addr, image>>
  BY DEF RunInv, RunLook, port, runvars, PortShape, FromFile
<1>2. PICK l \in Looks : prog.at = l[1] /\ prog' = [prog EXCEPT !.at = l[2], !.i = 0]
  BY DEF RunLook
<1>3. ProgShape' /\ prog'.who = "ziprun" /\ prog'.at = l[2] /\ prog'.i = 0
  BY <1>2, HpMoves DEF RunInv, RunLook, dbgvars
<1>4. CASE l = <<"version", "halt">>  BY <1>1, <1>3, <1>4, HpAgain
<1>5. CASE l = <<"check", "flash">>
  BY <1>1, <1>2, <1>3, <1>5
     DEF RunLook, RunInv, RunHalted, RunValid, RunPlaced, Placed, RunCleared, RunFresh, Come, Stands
<1>6. CASE l = <<"version2", "select">>
  <2>1. \A r \in CpuReg : ~(r < prog'.i)  BY <1>3, PortAssumption DEF CpuReg
  <2> QED
    BY <1>1, <1>2, <1>3, <1>6, <2>1
       DEF RunLook, RunInv, RunHalted, RunValid, RunPlaced, Placed, RunCleared, RunFresh, Come, Stands
<1> QED  BY <1>4, <1>5, <1>6 DEF Looks

LEMMA HpRunHalt ==
  ASSUME RunInv, RunHalt, UNCHANGED dbgvars, StartHalted
  PROVE  RunInv'
<1>1. PortShape' /\ cpu' = "halted"
  BY HpControls DEF RunInv, RunHalt, HaltBits
<1>2. FromFile'  BY DEF RunInv, RunHalt, runvars, FromFile
<1>3. ProgShape' /\ prog'.who = "ziprun" /\ prog'.at = "validate"
  BY HpMoves DEF RunInv, RunHalt, dbgvars, Running, Next_
<1> QED
  BY <1>1, <1>2, <1>3
     DEF RunInv, RunHalted, RunValid, RunPlaced, RunCleared, RunFresh, Come, Stands

LEMMA HpRunValidate ==
  ASSUME RunInv, RunValidate, UNCHANGED dbgvars
  PROVE  RunInv'
<1>1. PortShape' /\ FromFile' /\ UNCHANGED <<cpu, reg, mem, icache, cmd_addr, image>>
  BY DEF RunInv, RunValidate, port, runvars, PortShape, FromFile
<1>2. CASE \A k \in DOMAIN image : Valid(image[k])
  <2>1. prog' = [prog EXCEPT !.at = "load", !.i = 1]  BY <1>2 DEF RunValidate
  <2>2. ProgShape' /\ prog'.who = "ziprun" /\ prog'.at = "load" /\ prog'.i = 1
    BY <2>1, HpMoves DEF RunInv, RunValidate, dbgvars, Running
  <2>3. \A k \in DOMAIN image : ~(k < 1)
    BY HpSection DEF RunInv
  <2>4. cpu = "halted"  BY DEF RunInv, RunHalted, RunValidate, Running
  <2> QED
    BY <1>1, <1>2, <2>2, <2>3, <2>4
       DEF RunInv, RunHalted, RunValid, RunPlaced, RunCleared, RunFresh, Come, Stands
<1>3. CASE ~\A k \in DOMAIN image : Valid(image[k])
  <2>1. prog' = Shell("no memory")  BY <1>3 DEF RunValidate
  <2>2. ProgShape' /\ prog'.who = "none" /\ prog'.at = "no memory"
    BY <2>1, HpShell DEF RunInv, ProgShape, dbgvars
  <2> QED  BY <1>1, <2>2, HpElsewhere
<1> QED  BY <1>2, <1>3

\* The words of a section are written, and those before it stay.
LEMMA HpRunLoadMem ==
  ASSUME RunInv, RunLoadMem, UNCHANGED dbgvars
  PROVE  RunInv'
<1> DEFINE ws == WordsOf(Section)
           word == [w \in ws |-> BusWord(Section, w)]
<1>1. /\ PortShape' /\ UNCHANGED <<cmd_addr, cpu, reg, image>>
      /\ \A w \in Word : mem'[w] = IF w \in ws THEN word[w] ELSE mem[w]
  <2>1. WriteMem(ws, word)  BY DEF RunLoadMem
  <2> HIDE DEF ws, word
  <2>2. PortShape' /\ UNCHANGED <<cmd_addr, cpu, reg>>
        /\ \A w \in Word : mem'[w] = IF w \in ws THEN word[w] ELSE mem[w]
    BY <2>1, HpStores DEF RunInv
  <2> QED  BY <2>2 DEF RunLoadMem, runvars
<1>2. prog.i \in Nat /\ prog.i + 1 \in Nat  BY DEF RunInv, ProgShape
<1>3. FromFile'  BY <1>1 DEF RunInv, FromFile
<1>4. prog' = [prog EXCEPT !.at = "load", !.i = prog.i + 1]
  BY DEF RunLoadMem, RunInv, ProgShape, Running
<1>5. ProgShape' /\ prog'.who = "ziprun" /\ prog'.at = "load" /\ prog'.i = prog.i + 1
  <2>1. ProgShape /\ UNCHANGED m_cursor /\ prog.who = "ziprun"
    BY DEF RunInv, RunLoadMem, dbgvars, Running
  <2> QED  BY <1>2, <1>4, <2>1 DEF ProgShape
<1>6. ASSUME Apart, NEW k \in DOMAIN image, k < prog.i + 1
      PROVE  Placed(k)'
  <2> SUFFICES ASSUME image[k].mem # "flash", NEW w \in WordsOf(image[k])
               PROVE  mem'[w] = BusWord(image[k], w)
    BY <1>1 DEF Placed
  <2>1. w \in Word
    <3>1. Valid(image[k])  BY DEF RunInv, RunValid, RunLoadMem, Running, Come
    <3> QED  BY <3>1, HpSection, HpInside DEF RunInv
  <2>2. CASE k = prog.i
    BY <1>1, <2>1, <2>2 DEF Section
  <2>3. CASE k # prog.i
    <3>1. k < prog.i  BY <1>2, <1>6, <2>3, HpSection DEF RunInv
    <3>2. mem[w] = BusWord(image[k], w)
      BY <1>6, <3>1 DEF RunInv, RunPlaced, Placed, RunLoadMem, Running, Come
    <3>3. w \notin ws
      <4>1. prog.i \in DOMAIN image /\ image[prog.i].mem # "flash"  BY DEF RunLoadMem, Section
      <4>2. FromFile  BY DEF RunInv
      <4>3. WordsOf(image[k]) \intersect WordsOf(image[prog.i]) = {}
        BY <1>6, <2>3, <4>1, <4>2, HpApart
      <4> QED  BY <4>3 DEF Section
    <3> QED  BY <1>1, <2>1, <3>2, <3>3
  <2> QED  BY <2>2, <2>3
<1>7. cpu = "halted" /\ prog.i + 1 >= 1 /\ \A k \in DOMAIN image : Valid(image[k])
  BY <1>2 DEF RunInv, RunHalted, RunValid, RunLoadMem, Running, Come
<1> HIDE DEF ws, word
<1>8. RunPlaced'  BY <1>1, <1>5, <1>6 DEF RunPlaced, Come, Stands
<1> QED
  BY <1>1, <1>3, <1>5, <1>7, <1>8
     DEF RunInv, RunHalted, RunValid, RunCleared, RunFresh, Come, Stands

LEMMA HpRunLoadFlash ==
  ASSUME RunInv, RunLoadFlash, UNCHANGED dbgvars
  PROVE  RunInv'
<1>1. PortShape' /\ FromFile' /\ UNCHANGED <<cpu, reg, mem, icache, cmd_addr, image>>
  BY DEF RunInv, RunLoadFlash, port, PortShape, FromFile
<1>2. prog.i \in Nat /\ prog.i + 1 \in Nat  BY DEF RunInv, ProgShape
<1>3. prog' = [prog EXCEPT !.at = "load", !.i = prog.i + 1]
  BY DEF RunLoadFlash, RunInv, ProgShape, Running
<1>4. ProgShape' /\ prog'.who = "ziprun" /\ prog'.at = "load" /\ prog'.i = prog.i + 1
  <2>1. ProgShape /\ UNCHANGED m_cursor /\ prog.who = "ziprun"
    BY DEF RunInv, RunLoadFlash, dbgvars, Running
  <2> QED  BY <1>2, <1>3, <2>1 DEF ProgShape
<1>5. ASSUME Apart, NEW k \in DOMAIN image, k < prog.i + 1
      PROVE  Placed(k)'
  <2>1. CASE k = prog.i  BY <1>1, <2>1 DEF RunLoadFlash, Section, Placed
  <2>2. CASE k # prog.i
    <3>1. k < prog.i  BY <1>2, <1>5, <2>2, HpSection DEF RunInv
    <3> QED  BY <1>1, <1>5, <3>1 DEF RunInv, RunPlaced, Placed, RunLoadFlash, Running, Come
  <2> QED  BY <2>1, <2>2
<1>6. cpu = "halted" /\ prog.i + 1 >= 1 /\ \A k \in DOMAIN image : Valid(image[k])
  BY <1>2 DEF RunInv, RunHalted, RunValid, RunLoadFlash, Running, Come
<1>7. RunPlaced'  BY <1>1, <1>4, <1>5 DEF RunPlaced, Come, Stands
<1> QED
  BY <1>1, <1>4, <1>6, <1>7
     DEF RunInv, RunHalted, RunValid, RunCleared, RunFresh, Come, Stands

LEMMA HpRunLoaded ==
  ASSUME RunInv, RunLoaded, UNCHANGED dbgvars
  PROVE  RunInv'
<1>1. PortShape' /\ FromFile' /\ UNCHANGED <<cpu, reg, mem, icache, cmd_addr, image>>
  BY DEF RunInv, RunLoaded, port, runvars, PortShape, FromFile
<1>2. ProgShape' /\ prog'.who = "ziprun" /\ prog'.at = "check" /\ prog'.i = prog.i
  BY HpMoves DEF RunInv, RunLoaded, dbgvars, Running, Next_, ProgShape
<1>3. Apart => \A k \in DOMAIN image : Placed(k)
  <2> SUFFICES ASSUME Apart, NEW k \in DOMAIN image PROVE Placed(k)  OBVIOUS
  <2>1. CASE k < prog.i  BY <2>1 DEF RunInv, RunPlaced, RunLoaded, Running, Come
  <2>2. CASE ~(k < prog.i)
    <3>1. prog.i \in 1 .. k
      <4>1. prog.i >= 1 /\ prog.i \in Nat
        BY DEF RunInv, ProgShape, RunValid, RunLoaded, Running, Come
      <4>2. k \in Nat  BY HpSection DEF RunInv
      <4> QED  BY <2>2, <4>1, <4>2
    <3>2. prog.i \in DOMAIN image  BY <3>1, HpPrefix DEF RunInv
    <3> QED  BY <3>2 DEF RunLoaded
  <2> QED  BY <2>1, <2>2
<1>4. Apart => \A k \in DOMAIN image : Placed(k)'
  BY <1>1, <1>3 DEF Placed
<1>5. cpu = "halted"  BY DEF RunInv, RunHalted, RunLoaded, Running
<1> QED
  BY <1>1, <1>2, <1>4, <1>5
     DEF RunInv, RunHalted, RunValid, RunPlaced, RunCleared, RunFresh, Come, Stands

LEMMA HpRunFlash ==
  ASSUME RunInv, RunFlash, UNCHANGED dbgvars
  PROVE  RunInv'
<1>1. PortShape' /\ FromFile' /\ UNCHANGED <<cpu, reg, mem, icache, cmd_addr, image>>
  BY DEF RunInv, RunFlash, port, runvars, PortShape, FromFile
<1>2. Running("ziprun", "flash")  BY DEF RunFlash
<1>3. CASE UNCHANGED prog
  BY <1>1, <1>3
     DEF dbgvars, RunInv, ProgShape, Cells, RunHalted, RunValid, RunPlaced, Placed, RunCleared,
         RunFresh, Come, Stands
<1>4. CASE Next_("version2")
  <2>1. ProgShape' /\ prog'.who = "ziprun" /\ prog'.at = "version2" /\ prog'.i = prog.i
    BY <1>2, <1>4, HpMoves DEF RunInv, dbgvars, Running, Next_, ProgShape
  <2> QED
    BY <1>1, <1>2, <2>1
       DEF Running, RunInv, RunHalted, RunValid, RunPlaced, Placed, RunCleared, RunFresh, Come, Stands
<1>5. CASE prog' = Shell("no flash")
  <2>1. ProgShape' /\ prog'.who = "none" /\ prog'.at = "no flash"
    BY <1>5, HpShell DEF RunInv, ProgShape, dbgvars
  <2> QED  BY <1>1, <2>1, HpElsewhere
<1> QED  BY <1>3, <1>4, <1>5 DEF RunFlash

\* A register is selected: the loop has found that those before it are 0.
LEMMA HpRunSelect ==
  ASSUME RunInv, RunSelect, UNCHANGED dbgvars
  PROVE  RunInv'
<1>1. PICK r \in CpuReg : /\ NextReg(CpuReg, r) /\ WriteCtrl(SelectBits, r)
                          /\ prog' = [prog EXCEPT !.at = "zero", !.i = r]
  BY DEF RunSelect
<1>2. cpu = "halted"  BY DEF RunInv, RunHalted, RunSelect, Running
<1>3. PortShape' /\ cpu' = "halted" /\ UNCHANGED <<reg, mem>> /\ cmd_addr' = r
  BY <1>1, <1>2, HpControls DEF RunInv, SelectBits
<1>4. FromFile' /\ UNCHANGED image  BY DEF RunInv, RunSelect, runvars, FromFile
<1>5. r \in Nat  BY PortAssumption DEF CpuReg
<1>6. ProgShape' /\ prog'.who = "ziprun" /\ prog'.at = "zero" /\ prog'.i = r
  <2>1. ProgShape /\ UNCHANGED m_cursor /\ prog.who = "ziprun"
    BY DEF RunInv, RunSelect, dbgvars, Running
  <2> QED  BY <1>1, <1>5, <2>1 DEF ProgShape
<1>7. \A q \in CpuReg : q < r => reg[q] = 0
  <2> SUFFICES ASSUME NEW q \in CpuReg, q < r PROVE reg[q] = 0  OBVIOUS
  <2>1. q \in Nat /\ prog.i \in Nat  BY PortAssumption DEF CpuReg, RunInv, ProgShape
  <2>2. ~(q >= prog.i)  BY <1>1, <1>5, <2>1 DEF NextReg
  <2> QED  BY <2>1, <2>2 DEF RunInv, RunCleared, RunSelect, Running, Come
<1>8. Apart => \A k \in DOMAIN image : Placed(k)'
  BY <1>3, <1>4 DEF RunInv, RunPlaced, Placed, RunSelect, Running, Come
<1> QED
  BY <1>3, <1>4, <1>6, <1>7, <1>8
     DEF RunInv, RunHalted, RunValid, RunPlaced, RunCleared, RunFresh, Come, Stands

LEMMA HpRunZero ==
  ASSUME RunInv, RunZero, UNCHANGED dbgvars
  PROVE  RunInv'
<1>1. /\ prog.i \in CpuReg /\ cmd_addr = prog.i /\ cpu = "halted"
      /\ \A r \in CpuReg : r < prog.i => reg[r] = 0
  BY DEF RunInv, RunHalted, RunCleared, RunZero, Running, Come
<1>2. PortShape' /\ UNCHANGED <<cmd_addr, mem, cpu>> /\ reg' = [reg EXCEPT ![prog.i] = 0]
  <2>1. cmd_addr \in Followed  BY <1>1 DEF CpuReg
  <2> QED  BY <1>1, <2>1, HpWrites DEF RunInv, RunZero
<1>3. FromFile' /\ UNCHANGED image  BY DEF RunInv, RunZero, runvars, FromFile
<1>4. prog.i \in Nat  BY DEF RunInv, ProgShape
<1>5. ProgShape' /\ prog'.who = "ziprun" /\ prog'.at = "select" /\ prog'.i = prog.i + 1
  <2>1. ProgShape /\ UNCHANGED m_cursor /\ prog.who = "ziprun"
        /\ prog' = [prog EXCEPT !.at = "select", !.i = @ + 1]
    BY DEF RunInv, RunZero, dbgvars, Running
  <2>2. prog' = [who |-> "ziprun", at |-> "select", i |-> prog.i + 1]
    BY <2>1 DEF ProgShape
  <2> QED  BY <1>4, <2>1, <2>2 DEF ProgShape
<1>6. \A q \in CpuReg : q < prog.i + 1 => reg'[q] = 0
  <2> SUFFICES ASSUME NEW q \in CpuReg, q < prog.i + 1 PROVE reg'[q] = 0  OBVIOUS
  <2>1. q \in Nat /\ q \in Followed  BY PortAssumption DEF CpuReg
  <2>2. CASE q = prog.i
    <3>1. prog.i \in DOMAIN reg  BY <2>1, <2>2 DEF RunInv, PortShape
    <3> QED  BY <1>2, <2>2, <3>1
  <2>3. CASE q # prog.i
    <3>1. q < prog.i  BY <1>4, <2>1, <2>3
    <3> QED  BY <1>1, <1>2, <2>1, <2>3, <3>1 DEF RunInv, PortShape
  <2> QED  BY <2>2, <2>3
<1>7. Apart => \A k \in DOMAIN image : Placed(k)'
  BY <1>2, <1>3 DEF RunInv, RunPlaced, Placed, RunZero, Running, Come
<1> QED
  BY <1>1, <1>2, <1>3, <1>5, <1>6, <1>7
     DEF RunInv, RunHalted, RunValid, RunPlaced, RunCleared, RunFresh, Come, Stands

LEMMA HpRunClearCache ==
  ASSUME RunInv, RunClearCache, UNCHANGED dbgvars
  PROVE  RunInv'
<1>1. cpu = "halted"  BY DEF RunInv, RunHalted, RunClearCache, Running
<1>2. PortShape' /\ cpu' = "halted" /\ UNCHANGED <<reg, mem>> /\ NoneOld(icache')
  BY <1>1, HpControls DEF RunInv, RunClearCache, CacheBits
<1>3. FromFile' /\ UNCHANGED image  BY DEF RunInv, RunClearCache, runvars, FromFile
<1>4. ProgShape' /\ prog'.who = "ziprun" /\ prog'.at = "selectpc"
  BY HpMoves DEF RunInv, RunClearCache, dbgvars, Running, Next_, ProgShape
<1>5. \A q \in CpuReg : reg[q] = 0
  BY DEF RunInv, RunCleared, RunClearCache, PastAll, Running, Come
<1>6. Apart => \A k \in DOMAIN image : Placed(k)'
  BY <1>2, <1>3 DEF RunInv, RunPlaced, Placed, RunClearCache, Running, Come
<1> QED
  BY <1>2, <1>3, <1>4, <1>5, <1>6
     DEF RunInv, RunHalted, RunValid, RunPlaced, RunCleared, RunFresh, Come, Stands

LEMMA HpRunSelectPC ==
  ASSUME RunInv, RunSelectPC, UNCHANGED dbgvars
  PROVE  RunInv'
<1>1. cpu = "halted"  BY DEF RunInv, RunHalted, RunSelectPC, Running
<1>2. PortShape' /\ cpu' = "halted" /\ UNCHANGED <<reg, mem, icache>> /\ cmd_addr' = PC
  BY <1>1, HpControls DEF RunInv, RunSelectPC
<1>3. FromFile' /\ UNCHANGED image  BY DEF RunInv, RunSelectPC, runvars, FromFile
<1>4. CASE Running("ziprun", "selectpc") /\ Next_("setpc")
  <2>1. ProgShape' /\ prog'.who = "ziprun" /\ prog'.at = "setpc"
    BY <1>4, HpMoves DEF RunInv, dbgvars, Running, Next_, ProgShape, RunSelectPC
  <2>2. Apart => \A k \in DOMAIN image : Placed(k)'
    BY <1>2, <1>3, <1>4 DEF RunInv, RunPlaced, Placed, Running, Come
  <2> QED
    BY <1>2, <1>3, <1>4, <2>1, <2>2
       DEF Running, RunInv, RunHalted, RunValid, RunPlaced, RunCleared, RunFresh, Come, Stands
<1>5. CASE Running("ziprun", "start") /\ Next_("status")
  <2>1. ProgShape' /\ prog'.who = "ziprun" /\ prog'.at = "status"
    BY <1>5, HpMoves DEF RunInv, dbgvars, Running, Next_, ProgShape, RunSelectPC
  <2>2. Apart => \A k \in DOMAIN image : Placed(k)'
    BY <1>2, <1>3, <1>5 DEF RunInv, RunPlaced, Placed, Running, Come
  <2> QED
    BY <1>2, <1>3, <1>5, <2>1, <2>2
       DEF Running, RunInv, RunHalted, RunValid, RunPlaced, RunCleared, RunFresh, Come, Stands
<1> QED  BY <1>4, <1>5 DEF RunSelectPC

LEMMA HpRunSetPC ==
  ASSUME RunInv, RunSetPC, UNCHANGED dbgvars
  PROVE  RunInv'
<1>1. /\ cmd_addr = PC /\ cpu = "halted" /\ NoneOld(icache)
      /\ \A r \in CpuReg : reg[r] = 0
  BY DEF RunInv, RunHalted, RunCleared, RunFresh, RunSetPC, Running, Come
<1>2. /\ PortShape' /\ UNCHANGED <<cmd_addr, mem, cpu>> /\ reg' = [reg EXCEPT ![PC] = Entry]
      /\ NoneOld(icache')
  <2>1. cmd_addr \in Followed  BY <1>1, PortAssumption
  <2> QED  BY <1>1, <2>1, HpWrites DEF RunInv, RunSetPC
<1>3. FromFile' /\ UNCHANGED image  BY DEF RunInv, RunSetPC, runvars, FromFile
<1>4. PICK a \in {"start", "status"} : prog' = [prog EXCEPT !.at = a]
  BY DEF RunSetPC, Next_
<1>5. ProgShape' /\ prog'.who = "ziprun" /\ prog'.at = a
  BY <1>4, HpMoves DEF RunInv, RunSetPC, dbgvars, Running, ProgShape
<1>6. \A r \in CpuReg : reg'[r] = IF r = PC THEN Entry ELSE 0
  BY <1>1, <1>2 DEF RunInv, PortShape, CpuReg
<1>7. Apart => \A k \in DOMAIN image : Placed(k)'
  BY <1>2, <1>3 DEF RunInv, RunPlaced, Placed, RunSetPC, Running, Come
<1> QED
  BY <1>1, <1>2, <1>3, <1>5, <1>6, <1>7
     DEF RunInv, RunHalted, RunValid, RunPlaced, RunCleared, RunFresh, Come, Stands

LEMMA HpRunStatus ==
  ASSUME RunInv, RunStatus, UNCHANGED dbgvars
  PROVE  RunInv'
<1>1. PortShape' /\ FromFile' /\ UNCHANGED <<cpu, reg, mem, icache, cmd_addr, image>>
  BY DEF RunInv, RunStatus, port, runvars, PortShape, FromFile
<1>2. ProgShape' /\ prog'.who = "none" /\ prog'.at = "loaded"
  BY HpShell DEF RunInv, RunStatus, ProgShape, dbgvars
<1> QED
  BY <1>1, <1>2
     DEF RunStatus, Running, RunInv, RunHalted, RunValid, RunPlaced, Placed, RunCleared, RunFresh,
         Come, Stands

LEMMA HpRunCaught ==
  ASSUME RunInv, RunCaught, UNCHANGED dbgvars
  PROVE  RunInv'
<1>1. PortShape'  BY HpControls DEF RunInv, RunCaught
<1>2. FromFile'  BY DEF RunInv, RunCaught, runvars, FromFile
<1>3. ProgShape' /\ prog'.who = "none" /\ prog'.at = "bus error"
  BY HpShell DEF RunInv, RunCaught, ProgShape, dbgvars
<1> QED  BY <1>1, <1>2, <1>3, HpElsewhere

\* An access of ziprun fails: what was placed is given up.
LEMMA HpRunBusError ==
  ASSUME RunInv, RunBusError, UNCHANGED dbgvars
  PROVE  RunInv'
<1>1. PortShape'
  <2>1. CASE UNCHANGED port  BY <2>1 DEF RunInv, port, PortShape
  <2>2. ASSUME NEW ws, NEW word, WriteMem(ws, word) PROVE PortShape'
    BY <2>2, HpStores DEF RunInv
  <2> QED  BY <2>1, <2>2 DEF RunBusError
<1>2. FromFile'  BY DEF RunInv, RunBusError, runvars, FromFile
<1>3. CASE prog' = Shell("no board")
  <2>1. ProgShape' /\ prog'.who = "none" /\ prog'.at = "no board"
    BY <1>3, HpShell DEF RunInv, ProgShape, dbgvars
  <2> QED  BY <1>1, <1>2, <2>1, HpElsewhere
<1>4. CASE prog' = [prog EXCEPT !.at = "caught"]
  <2>1. ProgShape' /\ prog'.at = "caught"
    BY <1>4, HpMoves DEF RunInv, dbgvars, ProgShape
  <2> QED  BY <1>1, <1>2, <2>1, HpAgain
<1> QED  BY <1>3, <1>4 DEF RunBusError

\* ziprun starts with another file.
LEMMA HpStartRun ==
  ASSUME RunInv, NEW img \in Images, StartRun(img), UNCHANGED dbgvars
  PROVE  RunInv'
<1>1. PortShape'  BY DEF RunInv, StartRun, port, PortShape
<1>2. FromFile'  BY DEF StartRun, FromFile
<1>3. ProgShape' /\ prog'.at = "version"
  BY DEF RunInv, StartRun, dbgvars, Program, ProgShape, Cells
<1> QED  BY <1>1, <1>2, <1>3, HpAgain

\* The processor works only if it does not stand.
LEMMA HpRunCpu ==
  ASSUME RunInv, Processor
  PROVE  RunInv'
<1>1. PortShape' /\ cpu # "halted"  BY HpWorks DEF RunInv, Processor
<1>2. FromFile' /\ ProgShape' /\ UNCHANGED <<prog, image>>
  BY DEF RunInv, Processor, runvars, dbgvars, FromFile, ProgShape, Cells
<1>3. prog.at # "loaded" /\ (prog.who # "ziprun" \/ prog.at \in {"version", "halt", "caught"})
  BY <1>1 DEF RunInv, RunHalted, Stands
<1>4. CASE prog.who # "ziprun"  BY <1>1, <1>2, <1>3, <1>4, HpElsewhere
<1>5. CASE prog.at \in {"version", "halt", "caught"}  BY <1>1, <1>2, <1>5, HpAgain
<1> QED  BY <1>3, <1>4, <1>5

\* The flash goes on by itself.
LEMMA HpRunKeeps ==
  ASSUME RunInv, UNCHANGED <<cpu, reg, mem, icache, cmd_addr, image, prog, m_cursor>>
  PROVE  RunInv'
BY DEF RunInv, PortShape, ProgShape, Cells, FromFile, RunHalted, RunValid, RunPlaced, Placed,
       RunCleared, RunFresh, Come, Stands
-----------------------------------------------------------------------------
(* The debugger, and zipstate.                                             *)

\* A register on the screen, or to be shown there, is the processor's.
Read(r) == m_state[r] = reg[r]

\* The register at the place of the loop is selected; those before it were read
\* from a processor that stands.
DbgReading ==
  /\ m_state = [r \in Followed |-> m_state[r]]
  /\ prog.who = "zipdbg" /\ prog.at \in {"read", "poll", "strobe", "answer", "answered"} =>
       /\ cpu = "halted"
       /\ \A r \in CpuReg : r < prog.i => Read(r)
  /\ prog.who = "zipdbg" /\ prog.at \in {"poll", "strobe", "answer", "answered"} =>
       prog.i \in Followed /\ cmd_addr = prog.i
       /\ \A r \in CpuReg : r < prog.i => Read(r)
  /\ prog.who = "zipdbg" /\ prog.at = "answered" =>
       (prog.i \in CpuReg => Read(prog.i))

\* The registers on the screen are the processor's, which stands; the window is
\* at the program counter.
DbgShown ==
  Running("zipdbg", "key") /\ screen = "registers" =>
    /\ cpu = "halted"
    /\ \A r \in CpuReg : Read(r)
    /\ m_mem.valid => m_mem.at = reg[PC] /\ m_mem.word = mem[reg[PC]]

\* A value was typed into the cell of the cursor, whose register is selected
\* and then written.
DbgTyped ==
  /\ prog.who = "zipdbg" /\ prog.at \in {"enter", "pollwrite", "write", "wrote"} =>
       /\ typed.r \in Followed
       /\ typed.r = RegisterAt(m_cursor) /\ typed.shown = ShownAt(m_cursor, m_show_users)
  /\ prog.who = "zipdbg" /\ prog.at \in {"pollwrite", "write"} => cmd_addr = typed.r
  /\ prog.who = "zipdbg" /\ prog.at \in {"write", "wrote"} => cpu = "halted"
  /\ prog.who = "zipdbg" /\ prog.at = "wrote" => reg[typed.r] = typed.v

DbgInv ==
  /\ PortShape /\ ProgShape
  /\ DbgReading /\ DbgShown /\ DbgTyped

\* A debugger that is not ziprun goes on, or has ended.
Elsewhere == PortShape /\ ProgShape /\ DbgInv /\ prog.who # "ziprun" /\ prog.at # "loaded"

\* What is typed or read concerns no program but zipdbg.
LEMMA HpNoDbg ==
  ASSUME DbgInv, PortShape', ProgShape', UNCHANGED m_state, prog'.who # "zipdbg"
  PROVE  DbgInv'
BY DEF DbgInv, DbgReading, DbgShown, DbgTyped, Running

\* A program that ends forgets what it knew.
LEMMA HpEnds ==
  ASSUME PortShape', NEW how, how # "loaded", Ends(how)
  PROVE  Elsewhere'
<1>1. m_cursor' \in 0 .. Cells - 1
  <2>1. Cells \in Nat \ {0}  BY ScreenAssumption, PortAssumption DEF Cells
  <2> QED  BY <2>1 DEF Ends
<1>2. ProgShape' /\ prog'.who = "none" /\ prog'.at = how
  BY <1>1, HpShell DEF Ends
<1>3. m_state' = [r \in Followed |-> m_state'[r]]  BY DEF Ends, Blank
<1> QED  BY <1>2, <1>3 DEF Elsewhere, DbgInv, DbgReading, DbgShown, DbgTyped, Running

\* A step of zipdbg or zipstate to a place at which nothing is asked of what
\* was read or typed.
LEMMA HpGoes ==
  ASSUME PortShape', ProgShape', m_state' = [r \in Followed |-> m_state'[r]],
         prog'.who \in {"zipdbg", "zipstate"}, prog'.at \in {"halt", "settle"}
  PROVE  Elsewhere'
BY DEF Elsewhere, DbgInv, DbgReading, DbgShown, DbgTyped, Running

LEMMA HpStartDbg ==
  ASSUME DbgInv, NEW who \in {"zipdbg", "zipstate"}, StartDbg(who)
  PROVE  Elsewhere'
<1>1. PortShape' /\ ProgShape' /\ UNCHANGED m_state
  BY DEF DbgInv, StartDbg, port, dbgvars, Program, PortShape, ProgShape, Cells
<1>2. prog'.who = who /\ prog'.at = IF who = "zipdbg" THEN "halt" ELSE "read"
  BY DEF StartDbg, Program
<1> QED
  BY <1>1, <1>2 DEF Elsewhere, DbgInv, DbgReading, DbgShown, DbgTyped, Running

LEMMA HpDbgHalt ==
  ASSUME DbgInv, DbgHalt
  PROVE  Elsewhere'
<1>1. PortShape'  BY HpControls DEF DbgInv, DbgHalt
<1>2. ProgShape' /\ prog'.who = "zipdbg" /\ prog'.at = "settle"
  BY HpMoves DEF DbgInv, DbgHalt, dbgvars, DbgAt, Running, Next_
<1>3. m_state' = [r \in Followed |-> m_state'[r]]
  BY DEF DbgInv, DbgReading, DbgHalt, dbgvars
<1> QED  BY <1>1, <1>2, <1>3, HpGoes

LEMMA HpDbgSettle ==
  ASSUME DbgInv, DbgSettle
  PROVE  Elsewhere'
<1>1. PortShape' /\ UNCHANGED cpu  BY DEF DbgInv, DbgSettle, port, PortShape
<1>2. PICK a \in {"read", "key"} : /\ prog' = [prog EXCEPT !.at = a, !.i = 0]
                                   /\ a = "read" => cpu = "halted"
  BY DEF DbgSettle, Stall
<1>3. ProgShape' /\ prog'.who = "zipdbg" /\ prog'.at = a /\ prog'.i = 0
  <2>1. ProgShape /\ UNCHANGED m_cursor /\ prog.who = "zipdbg"
    BY DEF DbgInv, DbgSettle, DbgAt, Running
  <2>2. prog' = [who |-> "zipdbg", at |-> a, i |-> 0]  BY <1>2, <2>1 DEF ProgShape
  <2> QED  BY <2>1, <2>2 DEF ProgShape, Cells
<1>4. m_state' = [r \in Followed |-> m_state'[r]]  BY DEF DbgSettle, Blank
<1>5. \A r \in CpuReg : ~(r < 0)  BY PortAssumption DEF CpuReg
<1> QED
  BY <1>1, <1>2, <1>3, <1>4, <1>5
     DEF DbgSettle, Elsewhere, DbgInv, DbgReading, DbgShown, DbgTyped, Running

LEMMA HpCmdSelect ==
  ASSUME DbgInv, CmdSelect
  PROVE  Elsewhere'
<1>1. UNCHANGED dbgvars  BY DEF CmdSelect
<1>2. ASSUME At("read"), NEW r \in Listed, NextReg(Listed, r), WriteCtrl(ReadBits, r),
             prog' = [prog EXCEPT !.at = "poll", !.i = r]
      PROVE  Elsewhere'
  <2>1. r \in Followed /\ r \in Nat  BY PortAssumption DEF Listed, CpuReg
  <2>2. PortShape' /\ UNCHANGED reg /\ cmd_addr' = r /\ (cpu = "halted" => cpu' = "halted")
    BY <1>2, HpControls DEF DbgInv, ReadBits
  <2>3. ProgShape' /\ prog'.who = prog.who /\ prog'.at = "poll" /\ prog'.i = r
    BY <1>1, <1>2, <2>1 DEF DbgInv, ProgShape, dbgvars, Cells
  <2>4. CASE prog.who = "zipdbg"
    <3>1. cpu = "halted" /\ \A q \in CpuReg : q < prog.i => Read(q)
      BY <1>2, <2>4 DEF DbgInv, DbgReading, At
    <3>2. \A q \in CpuReg : q < r => q < prog.i
      <4> SUFFICES ASSUME NEW q \in CpuReg, q < r PROVE q < prog.i  OBVIOUS
      <4>1. q \in Nat /\ prog.i \in Nat /\ q \in Followed
        BY PortAssumption DEF CpuReg, DbgInv, ProgShape
      <4>2. ~(q >= prog.i)  BY <1>2, <2>1, <2>4, <4>1 DEF NextReg, Listed
      <4> QED  BY <4>1, <4>2
    <3>3. \A q \in CpuReg : q < r => Read(q)'
      BY <1>1, <2>2, <3>1, <3>2 DEF Read, dbgvars
    <3> QED
      BY <1>1, <2>1, <2>2, <2>3, <2>4, <3>1, <3>3
         DEF Elsewhere, DbgInv, DbgReading, DbgShown, DbgTyped, Running, dbgvars
  <2>5. CASE prog.who = "zipstate"
    BY <1>1, <2>2, <2>3, <2>5
       DEF Elsewhere, DbgInv, DbgReading, DbgShown, DbgTyped, Running, dbgvars
  <2> QED  BY <1>2, <2>4, <2>5 DEF At
<1>3. CASE DbgAt("enter") /\ WriteCtrl(ReadBits, typed.r) /\ Next_("pollwrite")
  <2>1. PortShape' /\ cmd_addr' = typed.r
    BY <1>3, HpControls DEF DbgInv
  <2>2. ProgShape' /\ prog'.who = "zipdbg" /\ prog'.at = "pollwrite"
    BY <1>1, <1>3, HpMoves DEF DbgInv, dbgvars, DbgAt, Running, Next_
  <2> QED
    BY <1>1, <1>3, <2>1, <2>2
       DEF Elsewhere, DbgInv, DbgReading, DbgShown, DbgTyped, DbgAt, Running, dbgvars
<1> QED  BY <1>2, <1>3 DEF CmdSelect

LEMMA HpCmdPoll ==
  ASSUME DbgInv, CmdPoll
  PROVE  Elsewhere'
<1>1. PortShape' /\ UNCHANGED <<cpu, reg, cmd_addr, dbgvars>> /\ cpu = "halted"
  BY DEF DbgInv, CmdPoll, port, PortShape, Stall
<1>2. PICK a \in {"strobe", "write"} : /\ prog' = [prog EXCEPT !.at = a]
                                       /\ At(IF a = "strobe" THEN "poll" ELSE "pollwrite")
  <2>1. CASE At("poll")  BY <2>1 DEF CmdPoll, Next_, At
  <2>2. CASE At("pollwrite")  BY <2>2 DEF CmdPoll, Next_, At
  <2> QED  BY <2>1, <2>2 DEF CmdPoll
<1>3. ProgShape' /\ prog'.who = prog.who /\ prog'.at = a /\ prog'.i = prog.i
  BY <1>1, <1>2, HpMoves DEF DbgInv, dbgvars
<1> QED
  BY <1>1, <1>2, <1>3
     DEF Elsewhere, DbgInv, DbgReading, Read, DbgShown, DbgTyped, At, Running, dbgvars

LEMMA HpCmdGiveUp ==
  ASSUME DbgInv, CmdGiveUp
  PROVE  Elsewhere'
<1>1. PortShape'  BY DEF DbgInv, CmdGiveUp, port, PortShape
<1> QED  BY <1>1, HpEnds DEF CmdGiveUp

LEMMA HpDbgBusError ==
  ASSUME DbgInv, DbgBusError
  PROVE  Elsewhere'
<1>1. PortShape'  BY DEF DbgInv, DbgBusError, port, PortShape
<1> QED  BY <1>1, HpEnds DEF DbgBusError

LEMMA HpCmdStrobe ==
  ASSUME DbgInv, CmdStrobe
  PROVE  Elsewhere'
<1>1. PortShape' /\ UNCHANGED <<cpu, reg, cmd_addr, dbgvars>>
  BY HpReads DEF DbgInv, CmdStrobe
<1>2. ProgShape' /\ prog'.who = prog.who /\ prog'.at = "answer" /\ prog'.i = prog.i
  BY <1>1, HpMoves DEF DbgInv, dbgvars, CmdStrobe, Next_
<1> QED
  BY <1>1, <1>2
     DEF CmdStrobe, Elsewhere, DbgInv, DbgReading, Read, DbgShown, DbgTyped, At, Running, dbgvars

LEMMA HpCmdAnswer ==
  ASSUME DbgInv, CmdAnswer
  PROVE  Elsewhere'
<1>1. /\ PortShape' /\ UNCHANGED <<cpu, reg, cmd_addr>>
      /\ UNCHANGED <<m_cursor, m_show_users, screen, m_mem, typed>>
  BY HpReads DEF DbgInv, CmdAnswer
<1>2. CASE At("answer") /\ m_state' = [m_state EXCEPT ![prog.i] = DbgData] /\ Next_("answered")
  <2>1. ProgShape' /\ prog'.who = prog.who /\ prog'.at = "answered" /\ prog'.i = prog.i
    BY <1>1, <1>2, HpMoves DEF DbgInv, Next_
  <2>2. m_state' = [r \in Followed |-> m_state'[r]]
    BY <1>2 DEF DbgInv, DbgReading
  <2>3. CASE prog.who = "zipdbg"
    <3>1. /\ cpu = "halted" /\ prog.i \in Followed /\ cmd_addr = prog.i
          /\ \A r \in CpuReg : r < prog.i => Read(r)
      BY <1>2, <2>3 DEF DbgInv, DbgReading, At
    <3>2. \A r \in CpuReg : r < prog.i => Read(r)'
      <4> SUFFICES ASSUME NEW r \in CpuReg, r < prog.i PROVE Read(r)'  OBVIOUS
      <4>1. r \in Followed /\ r # prog.i /\ Read(r)
        BY <3>1, PortAssumption DEF CpuReg
      <4> QED  BY <1>1, <1>2, <4>1 DEF Read, DbgInv, DbgReading
    <3>3. prog.i \in CpuReg => Read(prog.i)'
      <4> SUFFICES ASSUME prog.i \in CpuReg PROVE Read(prog.i)'  OBVIOUS
      <4>1. DbgData = reg[prog.i]  BY <3>1 DEF DbgData, CpuReg
      <4>2. prog.i \in DOMAIN m_state  BY <3>1 DEF DbgInv, DbgReading
      <4>3. m_state'[prog.i] = reg'[prog.i]  BY <1>1, <1>2, <4>1, <4>2
      <4> QED  BY <2>1, <4>3 DEF Read
    <3> QED
      BY <1>1, <2>1, <2>2, <2>3, <3>1, <3>2, <3>3
         DEF Elsewhere, DbgInv, DbgReading, DbgShown, DbgTyped, Running
  <2>4. CASE prog.who = "zipstate"
    BY <1>1, <2>1, <2>2, <2>4
       DEF Elsewhere, DbgInv, DbgReading, DbgShown, DbgTyped, Running
  <2> QED  BY <1>2, <2>3, <2>4 DEF At
<1>3. CASE At("answered") /\ prog' = [prog EXCEPT !.at = "read", !.i = @ + 1] /\ UNCHANGED m_state
  <2>1. prog' = [who |-> prog.who, at |-> "read", i |-> prog.i + 1] /\ prog.i \in Nat
    BY <1>3 DEF DbgInv, ProgShape
  <2>2. ProgShape' /\ prog'.who = prog.who /\ prog'.at = "read" /\ prog'.i = prog.i + 1
    BY <1>1, <2>1 DEF DbgInv, ProgShape, Cells
  <2>3. CASE prog.who = "zipdbg"
    <3>1. /\ cpu = "halted" /\ \A r \in CpuReg : r < prog.i => Read(r)
          /\ prog.i \in CpuReg => Read(prog.i)
      BY <1>3, <2>3 DEF DbgInv, DbgReading, At
    <3>2. \A r \in CpuReg : r < prog.i + 1 => Read(r)'
      <4> SUFFICES ASSUME NEW r \in CpuReg, r < prog.i + 1 PROVE Read(r)'  OBVIOUS
      <4>1. r < prog.i \/ r = prog.i  BY <2>1, PortAssumption DEF CpuReg
      <4>2. Read(r)  BY <3>1, <4>1
      <4> QED  BY <1>1, <1>3, <4>2 DEF Read
    <3> QED
      BY <1>1, <1>3, <2>2, <2>3, <3>1, <3>2
         DEF Elsewhere, DbgInv, DbgReading, DbgShown, DbgTyped, Running
  <2>4. CASE prog.who = "zipstate"
    BY <1>1, <1>3, <2>2, <2>4
       DEF Elsewhere, DbgInv, DbgReading, DbgShown, DbgTyped, Running
  <2> QED  BY <1>3, <2>3, <2>4 DEF At
<1> QED  BY <1>2, <1>3 DEF CmdAnswer

\* All were read: the screen is complete.
LEMMA HpDbgWindow ==
  ASSUME DbgInv, DbgWindow
  PROVE  Elsewhere'
<1>1. PortShape' /\ UNCHANGED <<cpu, reg, mem, cmd_addr>>
  BY DEF DbgInv, DbgWindow, port, PortShape
<1>2. CASE prog.who = "zipstate"
  BY <1>1, <1>2, HpEnds DEF DbgWindow
<1>3. CASE prog.who = "zipdbg"
  <2>1. cpu = "halted" /\ \A r \in CpuReg : Read(r)
    BY <1>3 DEF DbgWindow, DbgInv, DbgReading, At, PastAll, Listed, CpuReg
  <2>2. m_state[PC] = reg[PC]  BY <2>1, PortAssumption DEF Read, CpuReg
  <2>3. prog' = Program("zipdbg", "key") /\ UNCHANGED <<m_cursor, m_state>>
        /\ m_mem' = [at |-> m_state[PC], valid |-> m_state[PC] \in Word,
                     word |-> IF m_state[PC] \in Word THEN mem[m_state[PC]] ELSE Old]
    BY <1>3 DEF DbgWindow
  <2>4. ProgShape' /\ prog'.who = "zipdbg" /\ prog'.at = "key"
    BY <2>3 DEF DbgInv, ProgShape, Program, Cells
  <2>5. m_mem'.valid => m_mem'.at = reg'[PC] /\ m_mem'.word = mem'[reg'[PC]]
    BY <1>1, <2>2, <2>3
  <2> QED
    BY <1>1, <2>1, <2>3, <2>4, <2>5
       DEF Elsewhere, DbgInv, DbgReading, Read, DbgShown, DbgTyped, Running
<1> QED  BY <1>2, <1>3 DEF DbgWindow, At

LEMMA HpCmdWrite ==
  ASSUME DbgInv, CmdWrite
  PROVE  Elsewhere'
<1>1. /\ typed.r \in Followed /\ cmd_addr = typed.r /\ cpu = "halted"
      /\ typed.r = RegisterAt(m_cursor) /\ typed.shown = ShownAt(m_cursor, m_show_users)
  BY DEF DbgInv, DbgTyped, CmdWrite, DbgAt, Running
<1>2. PortShape' /\ cpu' = "halted" /\ reg' = [reg EXCEPT ![typed.r] = typed.v]
      /\ UNCHANGED dbgvars
  BY <1>1, HpWrites DEF DbgInv, CmdWrite
<1>3. ProgShape' /\ prog'.who = "zipdbg" /\ prog'.at = "wrote"
  BY <1>2, HpMoves DEF DbgInv, CmdWrite, dbgvars, DbgAt, Running, Next_
<1>4. typed.r \in DOMAIN reg  BY <1>1 DEF DbgInv, PortShape
<1>5. reg'[typed.r] = typed.v  BY <1>2, <1>4
<1> QED
  BY <1>1, <1>2, <1>3, <1>5
     DEF Elsewhere, DbgInv, DbgReading, DbgShown, DbgTyped, Running, dbgvars

LEMMA HpDbgWrote ==
  ASSUME DbgInv, DbgWrote
  PROVE  Elsewhere'
<1>1. PortShape' /\ UNCHANGED <<m_cursor, m_state>>
  BY DEF DbgInv, DbgWrote, port, PortShape
<1>2. ProgShape' /\ prog'.who = "zipdbg" /\ prog'.at = "settle"
  BY <1>1, HpMoves DEF DbgInv, DbgWrote, DbgAt, Running, Next_
<1>3. m_state' = [r \in Followed |-> m_state'[r]]  BY <1>1 DEF DbgInv, DbgReading
<1> QED  BY <1>1, <1>2, <1>3, HpGoes

LEMMA HpKeyCtrl ==
  ASSUME DbgInv, KeyCtrl
  PROVE  Elsewhere'
<1>1. PortShape'  BY HpControls DEF DbgInv, KeyCtrl
<1>2. CASE Ends("let go")  BY <1>1, <1>2, HpEnds
<1>3. CASE Next_("settle") /\ UNCHANGED dbgvars
  <2>1. ProgShape' /\ prog'.who = "zipdbg" /\ prog'.at = "settle"
    BY <1>3, HpMoves DEF DbgInv, KeyCtrl, dbgvars, DbgAt, Running, Next_
  <2>2. m_state' = [r \in Followed |-> m_state'[r]]
    BY <1>3 DEF DbgInv, DbgReading, dbgvars
  <2> QED  BY <1>1, <2>1, <2>2, HpGoes
<1> QED  BY <1>2, <1>3 DEF KeyCtrl

\* The cursor goes to a cell of the screen.
LEMMA HpCursor ==
  ASSUME NEW c \in 0 .. Cells - 1
  PROVE  {Up(c), Down(c), Left(c), Right(c)} \subseteq 0 .. Cells - 1
<1> DEFINE n == Cells
<1>1. Columns \in Nat \ {0} /\ n \in Nat \ {0}
  BY ScreenAssumption, PortAssumption DEF Cells
<1> HIDE DEF n
<1>2. c \in 0 .. n - 1  BY DEF n
<1>3. Up(c) \in 0 .. n - 1  BY <1>1, <1>2 DEF Up
<1>4. Down(c) \in 0 .. n - 1  BY <1>1, <1>2 DEF Down, n
<1>5. Left(c) \in 0 .. n - 1  BY <1>1, <1>2 DEF Left, n
<1>6. Right(c) \in 0 .. n - 1  BY <1>1, <1>2 DEF Right, n
<1> QED  BY <1>3, <1>4, <1>5, <1>6 DEF n

\* Keys that leave the processor as it is.
LEMMA HpKeyOthers ==
  ASSUME DbgInv, KeyQuit \/ KeyCounters \/ KeyCursor
  PROVE  Elsewhere'
<1>1. PortShape'  BY DEF DbgInv, KeyQuit, KeyCounters, KeyCursor, port, PortShape
<1>2. CASE KeyQuit  BY <1>1, <1>2, HpEnds DEF KeyQuit
<1>3. CASE KeyCounters \/ KeyCursor
  <2>1. prog.who = "zipdbg" /\ prog' = [prog EXCEPT !.at = "settle"] /\ UNCHANGED m_state
    BY <1>3 DEF KeyCounters, KeyCursor, DbgAt, Running, Next_
  <2>2. m_cursor' \in 0 .. Cells - 1
    <3>1. CASE KeyCounters  BY <3>1 DEF KeyCounters, DbgInv, ProgShape
    <3>2. CASE KeyCursor  BY <3>2, HpCursor DEF KeyCursor, DbgInv, ProgShape
    <3> QED  BY <1>3, <3>1, <3>2
  <2>3. ProgShape' /\ prog'.who = "zipdbg" /\ prog'.at = "settle"
    <3> HIDE DEF Cells
    <3>1. prog' = [who |-> "zipdbg", at |-> "settle", i |-> prog.i] /\ prog.i \in Nat
      BY <2>1 DEF DbgInv, ProgShape
    <3> QED  BY <2>2, <3>1 DEF ProgShape
  <2>4. m_state' = [r \in Followed |-> m_state'[r]]  BY <2>1 DEF DbgInv, DbgReading
  <2> QED  BY <1>1, <2>3, <2>4, HpGoes
<1> QED  BY <1>2, <1>3

LEMMA HpKeyEnter ==
  ASSUME DbgInv, KeyEnter
  PROVE  Elsewhere'
<1>1. PortShape' /\ UNCHANGED <<m_cursor, m_show_users, m_state>>
  BY DEF DbgInv, KeyEnter, port, PortShape
<1>2. ProgShape' /\ prog'.who = "zipdbg" /\ prog'.at = "enter"
  BY <1>1, HpMoves DEF DbgInv, KeyEnter, DbgAt, Running, Next_
<1>3. /\ RegisterAt(m_cursor) \in Followed /\ typed'.r = RegisterAt(m_cursor)
      /\ typed'.shown = ShownAt(m_cursor, m_show_users)
  BY DEF KeyEnter
<1> QED
  BY <1>1, <1>2, <1>3
     DEF Elsewhere, DbgInv, DbgReading, DbgShown, DbgTyped, Running, RegisterAt, ShownAt

\* A step of zipdbg or zipstate, or a key.
LEMMA HpDbgSteps ==
  ASSUME DbgInv, ZipDbgStep \/ Key \/ DbgBusError
  PROVE  Elsewhere'
BY HpDbgHalt, HpDbgSettle, HpCmdSelect, HpCmdPoll, HpCmdGiveUp, HpCmdStrobe, HpCmdAnswer,
   HpDbgWindow, HpCmdWrite, HpDbgWrote, HpKeyCtrl, HpKeyOthers, HpKeyEnter, HpDbgBusError
   DEF ZipDbgStep, Key

\* They leave the sections that were loaded.
LEMMA HpDbgKeeps ==
  ASSUME FromFile, ZipDbgStep \/ Key \/ DbgBusError
  PROVE  FromFile'
<1>1. UNCHANGED image
  BY DEF ZipDbgStep, Key, DbgBusError, Kept, runvars, DbgHalt, DbgSettle, CmdSelect, CmdPoll,
         CmdGiveUp, CmdStrobe, CmdAnswer, DbgWindow, CmdWrite, DbgWrote, KeyCtrl, KeyQuit,
         KeyCounters, KeyCursor, KeyEnter
<1> QED  BY <1>1 DEF FromFile

\* A processor that stands stays under the debugger's eye; one that works is
\* not looked at.
LEMMA HpDbgCpu ==
  ASSUME DbgInv, Processor
  PROVE  DbgInv'
<1>1. PortShape' /\ cpu # "halted" /\ cmd_addr' = cmd_addr  BY HpWorks DEF DbgInv, Processor
<1>2. ProgShape' /\ UNCHANGED <<prog, dbgvars>>
  BY DEF DbgInv, Processor, dbgvars, ProgShape, Cells
<1> QED
  BY <1>1, <1>2 DEF DbgInv, DbgReading, DbgShown, DbgTyped, Running, dbgvars, RegisterAt, ShownAt

\* The flash goes on.
LEMMA HpDbgKept ==
  ASSUME DbgInv, UNCHANGED <<port, prog, dbgvars>>
  PROVE  DbgInv'
BY DEF DbgInv, DbgReading, Read, DbgShown, DbgTyped, Running, port, dbgvars, PortShape, ProgShape,
       RegisterAt, ShownAt, Cells

-----------------------------------------------------------------------------
(* All programs.                                                           *)

\* A step of ziprun, whichever it is.
LEMMA HpRunSteps ==
  ASSUME RunInv, StartHalted, ZipRunStep \/ RunBusError, UNCHANGED dbgvars
  PROVE  RunInv'
BY HpRunLook, HpRunHalt, HpRunValidate, HpRunLoadMem, HpRunLoadFlash, HpRunLoaded, HpRunFlash,
   HpRunSelect, HpRunZero, HpRunClearCache, HpRunSelectPC, HpRunSetPC, HpRunStatus, HpRunCaught,
   HpRunBusError
   DEF ZipRunStep

\* None of them is the debugger, and the port keeps its shape.
LEMMA HpRunSide ==
  ASSUME PortShape, ProgShape, UNCHANGED dbgvars,
         ZipRunStep \/ RunBusError \/ \E img \in Images : StartRun(img)
  PROVE  PortShape' /\ ProgShape' /\ prog'.who # "zipdbg"
<1>1. PortShape'
  <2>1. CASE UNCHANGED port  BY <2>1 DEF port, PortShape
  <2>2. CASE RunHalt \/ RunSelect \/ RunClearCache \/ RunSelectPC \/ RunCaught
    BY <2>2, HpControls DEF RunHalt, RunSelect, RunClearCache, RunSelectPC, RunCaught
  <2>3. CASE RunZero \/ RunSetPC  BY <2>3, HpWrites DEF RunZero, RunSetPC
  <2>4. ASSUME NEW ws, NEW word, WriteMem(ws, word) PROVE PortShape'  BY <2>4, HpStores
  <2>5. CASE RunLoadMem  BY <2>4, <2>5 DEF RunLoadMem
  <2>6. CASE RunBusError  BY <2>1, <2>4, <2>6 DEF RunBusError
  <2>7. CASE RunLook \/ RunValidate \/ RunLoadFlash \/ RunLoaded \/ RunFlash \/ RunStatus
    BY <2>1, <2>7 DEF RunLook, RunValidate, RunLoadFlash, RunLoaded, RunFlash, RunStatus
  <2>8. CASE \E img \in Images : StartRun(img)  BY <2>1, <2>8 DEF StartRun
  <2> QED  BY <2>2, <2>3, <2>5, <2>6, <2>7, <2>8 DEF ZipRunStep
<1>2. m_cursor' \in 0 .. Cells - 1  BY DEF dbgvars, ProgShape, Cells
<1>3. ASSUME NEW how, prog' = Shell(how) PROVE ProgShape' /\ prog'.who = "none"
  BY <1>2, <1>3, HpShell
<1>4. ASSUME NEW a, prog.who = "ziprun", prog' = [prog EXCEPT !.at = a]
      PROVE  ProgShape' /\ prog'.who = "ziprun"
  BY <1>4, HpMoves DEF dbgvars
<1>5. ASSUME NEW a, NEW n \in Nat, prog.who = "ziprun", prog' = [prog EXCEPT !.at = a, !.i = n]
      PROVE  ProgShape' /\ prog'.who = "ziprun"
  <2>1. prog' = [who |-> "ziprun", at |-> a, i |-> n]  BY <1>5 DEF ProgShape
  <2> QED  BY <1>2, <2>1 DEF ProgShape
<1>6. prog.i \in Nat /\ prog = [who |-> prog.who, at |-> prog.at, i |-> prog.i]  BY DEF ProgShape
<1>7. ASSUME prog' = prog, prog.who = "ziprun" PROVE ProgShape' /\ prog'.who = "ziprun"
  BY <1>2, <1>7 DEF ProgShape
<1>8. ASSUME ZipRunStep PROVE ProgShape' /\ prog'.who # "zipdbg"
  <2>1. CASE RunLook  BY <1>5, <2>1 DEF RunLook
  <2>2. CASE RunHalt \/ RunLoaded \/ RunClearCache \/ RunSelectPC \/ RunSetPC
    BY <1>4, <2>2 DEF RunHalt, RunLoaded, RunClearCache, RunSelectPC, RunSetPC, Running, Next_
  <2>3. CASE RunValidate
    <3>1. \/ prog' = [prog EXCEPT !.at = "load", !.i = 1]
          \/ prog' = Shell("no memory")
      BY <2>3 DEF RunValidate
    <3>2. prog.who = "ziprun"  BY <2>3 DEF RunValidate, Running
    <3> QED  BY <1>3, <1>5, <3>1, <3>2
  <2>4. CASE RunLoadMem \/ RunLoadFlash
    <3>1. prog' = [who |-> "ziprun", at |-> "load", i |-> prog.i + 1]
      BY <1>6, <2>4 DEF RunLoadMem, RunLoadFlash, Running
    <3> QED  BY <1>2, <1>6, <3>1 DEF ProgShape
  <2>5. CASE RunFlash
    <3>1. prog.who = "ziprun"  BY <2>5 DEF RunFlash, Running
    <3>2. UNCHANGED prog \/ Next_("version2") \/ prog' = Shell("no flash")
      BY <2>5 DEF RunFlash
    <3> QED  BY <1>3, <1>4, <1>7, <3>1, <3>2 DEF Next_
  <2>6. CASE RunSelect
    <3>1. PICK r \in CpuReg : prog' = [prog EXCEPT !.at = "zero", !.i = r]
      BY <2>6 DEF RunSelect
    <3>2. r \in Nat  BY PortAssumption DEF CpuReg
    <3> QED  BY <1>5, <2>6, <3>1, <3>2 DEF RunSelect, Running
  <2>7. CASE RunZero
    <3>1. prog' = [who |-> "ziprun", at |-> "select", i |-> prog.i + 1]
      BY <1>6, <2>7 DEF RunZero, Running
    <3> QED  BY <1>2, <1>6, <3>1 DEF ProgShape
  <2>8. CASE RunStatus \/ RunCaught  BY <1>3, <2>8 DEF RunStatus, RunCaught
  <2> QED  BY <1>8, <2>1, <2>2, <2>3, <2>4, <2>5, <2>6, <2>7, <2>8 DEF ZipRunStep
<1>9. ASSUME RunBusError PROVE ProgShape' /\ prog'.who # "zipdbg"
  BY <1>3, <1>4, <1>9 DEF RunBusError
<1>10. ASSUME NEW img \in Images, StartRun(img) PROVE ProgShape' /\ prog'.who = "ziprun"
  BY <1>2, <1>10 DEF StartRun, Program, ProgShape
<1> QED  BY <1>1, <1>8, <1>9, <1>10

\* Whatever the programs do, the debugger shows and writes what it says.
LEMMA HpDbgNext ==
  ASSUME DbgInv, [Next]_vars
  PROVE  DbgInv'
<1>1. CASE \E img \in Images : StartRun(img) /\ UNCHANGED dbgvars
  <2>1. PortShape' /\ ProgShape' /\ prog'.who # "zipdbg"  BY <1>1, HpRunSide DEF DbgInv
  <2> QED  BY <1>1, <2>1, HpNoDbg DEF dbgvars
<1>2. CASE \E who \in {"zipdbg", "zipstate"} : StartDbg(who)
  BY <1>2, HpStartDbg DEF Elsewhere
<1>3. CASE (ZipRunStep \/ RunBusError) /\ UNCHANGED dbgvars
  <2>1. PortShape' /\ ProgShape' /\ prog'.who # "zipdbg"  BY <1>3, HpRunSide DEF DbgInv
  <2> QED  BY <1>3, <2>1, HpNoDbg DEF dbgvars
<1>4. CASE ZipDbgStep \/ Key \/ DbgBusError  BY <1>4, HpDbgSteps DEF Elsewhere
<1>5. CASE Processor  BY <1>5, HpDbgCpu
<1>6. CASE Chip \/ UNCHANGED vars  BY <1>6, HpDbgKept DEF Chip, vars
<1> QED  BY <1>1, <1>2, <1>3, <1>4, <1>5, <1>6 DEF Next, Start, Program_, Fault

\* And a load goes as it should, if the processor is built to start halted.
LEMMA HpRunNext ==
  ASSUME StartHalted, RunInv, DbgInv, [Next]_vars
  PROVE  RunInv'
<1>1. CASE \E img \in Images : StartRun(img) /\ UNCHANGED dbgvars
  BY <1>1, HpStartRun
<1>2. CASE \E who \in {"zipdbg", "zipstate"} : StartDbg(who)
  <2>1. Elsewhere'  BY <1>2, HpStartDbg
  <2>2. FromFile'  BY <1>2 DEF StartDbg, FromFile
  <2> QED  BY <2>1, <2>2, HpElsewhere DEF Elsewhere
<1>3. CASE (ZipRunStep \/ RunBusError) /\ UNCHANGED dbgvars  BY <1>3, HpRunSteps
<1>4. CASE ZipDbgStep \/ Key \/ DbgBusError
  <2>1. Elsewhere'  BY <1>4, HpDbgSteps
  <2>2. FromFile'  BY <1>4, HpDbgKeeps DEF RunInv
  <2> QED  BY <2>1, <2>2, HpElsewhere DEF Elsewhere
<1>5. CASE Processor  BY <1>5, HpRunCpu
<1>6. CASE Chip \/ UNCHANGED vars
  <2>1. UNCHANGED <<cpu, reg, mem, icache, cmd_addr, image, prog, m_cursor>>
    BY <1>6 DEF Chip, vars, port, runvars, dbgvars
  <2> QED  BY <2>1, HpRunKeeps
<1> QED  BY <1>1, <1>2, <1>3, <1>4, <1>5, <1>6 DEF Next, Start, Program_, Fault

LEMMA HpInit ==
  ASSUME Init
  PROVE  RunInv /\ DbgInv
<1>1. PortShape
  <2>1. Fetched(Empty, RamBase) \in [Word -> {"none", "fresh", "old"}]
    BY HpEmpty, HpFetched
  <2> QED  BY <2>1 DEF Init, PortInit, PortShape
<1>2. prog = [who |-> "none", at |-> "ready", i |-> 0]  BY DEF Init, RunInit, Shell, Program
<1>3. ProgShape
  <2>1. Cells \in Nat \ {0}  BY ScreenAssumption, PortAssumption DEF Cells
  <2> HIDE DEF Cells
  <2> QED  BY <1>2, <2>1 DEF Init, DbgInit, ProgShape
<1>4. FromFile  BY DEF Init, RunInit, FromFile
<1>5. m_state = [r \in Followed |-> m_state[r]]  BY DEF Init, DbgInit, Blank
<1> QED
  BY <1>1, <1>2, <1>3, <1>4, <1>5
     DEF RunInv, RunHalted, RunValid, RunPlaced, RunCleared, RunFresh, Come, Stands,
         DbgInv, DbgReading, DbgShown, DbgTyped, Running
-----------------------------------------------------------------------------
\* What the debugger shows as registers is what the processor has, whatever
\* was pressed before, and with any processor (sw/zipdbg.cpp).
THEOREM ScreenIsTrue == Spec => []RegistersShown
<1>1. Init => DbgInv  BY HpInit
<1>2. DbgInv /\ [Next]_vars => DbgInv'  BY HpDbgNext
<1>3. DbgInv => RegistersShown  BY DEF DbgInv, DbgShown, Read, RegistersShown
<1> QED  BY <1>1, <1>2, <1>3, PTL DEF Spec

\* A value typed into a cell is in the register that the cell shows, but for
\* the cells of the user's counters (sw/zipdbg.cpp).
THEOREM ValueLandsWhereShown == Spec => []TypedLands
<1>1. Init => DbgInv  BY HpInit
<1>2. DbgInv /\ [Next]_vars => DbgInv'  BY HpDbgNext
<1>3. ASSUME DbgInv PROVE TypedLands
  <2> SUFFICES ASSUME Running("zipdbg", "wrote")
               PROVE  /\ reg[typed.r] = typed.v
                      /\ \/ typed.r = typed.shown
                         \/ m_show_users /\ m_cursor \in FirstCounter .. NShown - 1
    BY DEF TypedLands
  <2>1. /\ reg[typed.r] = typed.v
        /\ typed.r = RegisterAt(m_cursor) /\ typed.shown = ShownAt(m_cursor, m_show_users)
    BY <1>3 DEF DbgInv, DbgTyped, Running
  <2>2. /\ m_cursor \in Int /\ NCpu \in Int /\ NShown \in Int
        /\ FirstCounter \in Int /\ FirstCounter = NShown - Columns
    <3>1. NCpu \in Int /\ NShown \in Int /\ Columns \in Int /\ FirstCounter = NShown - Columns
      BY ScreenAssumption, PortAssumption
    <3>2. m_cursor \in Int  BY <1>3, <3>1 DEF DbgInv, ProgShape, Cells
    <3> QED  BY <3>1, <3>2
  <2>3. CASE m_cursor >= NShown  BY <2>1, <2>3 DEF RegisterAt, ShownAt
  <2>4. CASE m_show_users /\ m_cursor >= FirstCounter /\ m_cursor < NShown
    <3>1. m_cursor \in FirstCounter .. NShown - 1  BY <2>2, <2>4
    <3> QED  BY <2>1, <2>4, <3>1, Zenon
  <2>5. CASE m_cursor < NShown /\ ~(m_show_users /\ m_cursor >= FirstCounter)
    BY <2>1, <2>2, <2>5 DEF RegisterAt, ShownAt
  <2> QED  BY <2>2, <2>3, <2>4, <2>5
<1> QED  BY <1>1, <1>2, <1>3, PTL DEF Spec

\* A file that is loaded is in memory byte for byte, the processor ready at
\* its entry, if no two sections have a word in common (sw/ziprun.cpp).
THEOREM FileIsLoaded ==
  ASSUME StartHalted, Apart
  PROVE  Spec => []LoadedAsFile
<1>1. Init => RunInv /\ DbgInv  BY HpInit
<1>2. RunInv /\ DbgInv /\ [Next]_vars => (RunInv /\ DbgInv)'  BY HpRunNext, HpDbgNext
<1>3. ASSUME RunInv PROVE LoadedAsFile
  <2> SUFFICES ASSUME prog.at = "loaded", cpu = "halted" PROVE LoadedAsFile
    BY DEF LoadedAsFile
  <2>1. \A r \in CpuReg : reg[r] = IF r = PC THEN Entry ELSE 0
    BY <1>3 DEF RunInv, RunCleared, Stands
  <2>2. ASSUME NEW k \in DOMAIN image, image[k].mem # "flash", NEW n \in 0 .. image[k].len - 1
        PROVE  mem[FirstWord(image[k]) + (n \div WordB)][(n % WordB) + 1] = image[k].byte[n]
    <3> DEFINE s == image[k]
               w == FirstWord(s) + (n \div WordB)
    <3>1. s.start \in Nat /\ s.len \in Nat  BY <1>3, HpSection DEF RunInv
    <3> HIDE DEF s
    <3>2. w \in WordsOf(s) /\ BusWord(s, w)[(n % WordB) + 1] = s.byte[n]
      BY <2>2, <3>1, HpBytes DEF s
    <3>3. mem[w] = BusWord(s, w)
      BY <1>3, <2>2, <3>2 DEF RunInv, RunPlaced, Stands, Placed, s
    <3> QED  BY <3>2, <3>3 DEF s
  <2> QED  BY <2>1, <2>2 DEF LoadedAsFile
<1> QED  BY <1>1, <1>2, <1>3, PTL DEF Spec

\* No old copy of an instruction is left in the cache of a processor that was
\* loaded: it is cleared when it cannot be filled again from old memory
\* (sw/ziprun.cpp).
THEOREM CacheIsFresh ==
  ASSUME StartHalted
  PROVE  Spec => []NoOldCode
<1>1. Init => RunInv /\ DbgInv  BY HpInit
<1>2. RunInv /\ DbgInv /\ [Next]_vars => (RunInv /\ DbgInv)'  BY HpRunNext, HpDbgNext
<1>3. RunInv => NoOldCode  BY DEF RunInv, RunFresh, Stands, NoneOld, NoOldCode
<1> QED  BY <1>1, <1>2, <1>3, PTL DEF Spec
=============================================================================
