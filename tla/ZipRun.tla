--------------------------------- MODULE ZipRun ---------------------------------
(***************************************************************************)
(* Loading a program (sw/ziprun.cpp): the sections of an ELF file          *)
(* (sw/zipelf.cpp) go to block RAM, SDRAM and flash, and the ZipCPU is     *)
(* left ready at the entry point. Any access may end in a bus error.       *)
(***************************************************************************)
EXTENDS ZipPort, FiniteSetsExt, SequencesExt
-----------------------------------------------------------------------------
(***************************************************************************)
(* Writing a program into the flash from the host (sw/flashdrvr.cpp),      *)
(* access by access, and the flash as these accesses find it: a set of     *)
(* programmed bytes, write protection, and an erase or a page write that   *)
(* goes on after its command.                                              *)
(*                                                                         *)
(* A byte is either 0xff, erased, or programmed. The sizes keep the        *)
(* proportions of sw/regdefs.h: SECTORSZB, the step of write(), is two     *)
(* erase blocks, and verify_erase's stride is a page's length in words.    *)
(***************************************************************************)
CONSTANTS FlashBytes,   \* bytes of the flash, 1 MB
          PageB,        \* PGLENB, 256
          NPages,       \* NPAGES, 32
          EraseB        \* what the chip erases at a time and SECTOROF keeps, 4096

FlashWordB == 4

ASSUME FlashAssumption ==
  /\ {FlashBytes, PageB, NPages, EraseB} \subseteq Nat \ {0}
  /\ PageB % FlashWordB = 0 /\ EraseB % PageB = 0
  /\ NPages * PageB = 2 * EraseB /\ FlashBytes % (NPages * PageB) = 0

VARIABLES flash,    \* programmed bytes
          wp,       \* write protection
          wip,      \* the bytes an erase or a page write in progress leaves programmed
          drv       \* the driver's call

flashvars == <<flash, wp, wip, drv>>

SECTORSZB == NPages * PageB
SZPAGEW == PageB \div FlashWordB

SECTOROF(a) == a - (a % EraseB)
PAGEOF(a) == a - (a % PageB)
WordOf(n) == n - (n % FlashWordB)
Span(a, b) == {x \in 0 .. FlashBytes - 1 : a <= x /\ x < b}

NoCall == [at |-> "none", addr |-> 0, len |-> 0, s |-> 0, newv |-> 0, p |-> 0, n |-> 0]
Quiet == [busy |-> FALSE, after |-> {}]

FlashInit(old) == flash = old /\ wp = TRUE /\ wip = Quiet /\ drv = NoCall

\* write(addr, len): the data are the programmed bytes of the caller's buffer.
CallWrite(a, n) ==
  drv' = [NoCall EXCEPT !.at = "sector", !.addr = a, !.len = n, !.s = SECTOROF(a)]

End == drv.addr + drv.len
Goto(l) == drv' = [drv EXCEPT !.at = l]

\* The sector that was to be read is already right, or is done.
NextSector == drv' = [drv EXCEPT !.at = "sector", !.s = @ + SECTORSZB]

\* A sector of the program is read, once the flash is done with what an
\* earlier program left it at, and compared. Only whole words are read: the
\* bytes after them are whatever the new buffer held. Past the end of the
\* program the length wraps, and the read runs over the buffer.
ReadSector(data) ==
  LET base == IF drv.addr > drv.s THEN drv.addr ELSE drv.s
      end == IF End > drv.s + SECTORSZB THEN drv.s + SECTORSZB ELSE End
      read == base + WordOf(end - base)
      want == data \intersect Span(base, end)
  IN /\ drv.at = "sector" /\ ~wip.busy
     /\ IF drv.s >= SECTOROF(End + SECTORSZB - 1) THEN Goto("protect")
        ELSE IF end < base THEN Goto("crashed")
        ELSE \E left \in SUBSET Span(read, end) :
               LET have == (flash \intersect Span(base, read)) \union left
                   missing == want \ have
               IN IF have \ want # {}
                  THEN drv' = [drv EXCEPT !.at = "unprotect", !.newv = base]
                  ELSE IF missing = {} THEN NextSector
                  ELSE drv' = [drv EXCEPT !.at = "page",
                                          !.p = base + WordOf(Min(missing) - base)]
     /\ UNCHANGED <<flash, wp, wip>>

\* erase_sector: protection off, then the command, which turns it on again.
EraseUnprotect ==
  drv.at = "unprotect" /\ wp' = FALSE /\ Goto("erase") /\ UNCHANGED <<flash, wip>>

EraseCommand ==
  /\ drv.at = "erase"
  /\ wip' = IF wp THEN wip
            ELSE [busy |-> TRUE,
                  after |-> flash \ Span(SECTOROF(drv.s), SECTOROF(drv.s) + EraseB)]
  /\ wp' = TRUE
  /\ Goto("erasing") /\ UNCHANGED flash

\* The chip gets done.
FlashDone == wip.busy /\ flash' = wip.after /\ wip' = Quiet /\ UNCHANGED <<wp, drv>>

\* flwait: polls until the flag is clear.
FlWait ==
  /\ drv.at \in {"erasing", "programming"} /\ ~wip.busy
  /\ Goto(IF drv.at = "erasing" THEN "erased" ELSE "verify")
  /\ UNCHANGED <<flash, wp, wip>>

\* verify_erase: as many pages as the sector has, half a page's words apart.
VerifyErase ==
  /\ drv.at = "erased"
  /\ IF flash \intersect Span(drv.s, drv.s + (NPages - 1) * SZPAGEW + PageB) # {}
     THEN Goto("false")
     ELSE drv' = [drv EXCEPT !.at = "page", !.p = drv.newv]
  /\ UNCHANGED <<flash, wp, wip>>

\* Mutant: the place in the sector does not move to the next page.
NextPageSame(p) == PAGEOF(p)

NextPage(p) == PAGEOF(p + PageB)

\* One page of the sector. len is declared anew with itself in its value: it
\* comes out as anything up to the page's end, and 0 fails an assertion. A
\* page of which all words are 0xff is not written.
Page(data) ==
  /\ drv.at = "page"
  /\ IF drv.p >= drv.s + SECTORSZB \/ drv.p >= End THEN NextSector
     ELSE \E n \in 0 .. PAGEOF(drv.p + PageB) - drv.p :
            /\ n = 0 => drv.p # PAGEOF(drv.p)
            /\ drv' = [drv EXCEPT !.n = n, !.at =
                 IF n = 0 THEN "crashed"
                 ELSE IF data \intersect Span(drv.p, drv.p + WordOf(n + FlashWordB - 1)) = {}
                 THEN "verify" ELSE "pageunprotect"]
  /\ UNCHANGED <<flash, wp, wip>>

PageUnprotect ==
  drv.at = "pageunprotect" /\ wp' = FALSE /\ Goto("program") /\ UNCHANGED <<flash, wip>>

\* The whole words of the page are what is written, and what is compared.
PageSpan == Span(drv.p, drv.p + WordOf(drv.n))

PageProgram(data) ==
  /\ drv.at = "program"
  /\ wip' = IF wp \/ PageSpan = {} THEN wip
            ELSE [busy |-> TRUE, after |-> flash \union (data \intersect PageSpan)]
  /\ Goto("programming") /\ UNCHANGED <<flash, wp>>

PageVerify(data) ==
  /\ drv.at = "verify"
  /\ IF flash \intersect PageSpan # data \intersect PageSpan THEN Goto("false")
     ELSE drv' = [drv EXCEPT !.at = "page", !.p = NextPage(drv.p), !.n = 0]
  /\ UNCHANGED <<flash, wp, wip>>

Protect == drv.at = "protect" /\ wp' = TRUE /\ Goto("true") /\ UNCHANGED <<flash, wip>>

Write(data) ==
  \/ ReadSector(data) \/ EraseUnprotect \/ EraseCommand \/ FlWait \/ VerifyErase
  \/ Page(data) \/ PageUnprotect \/ PageProgram(data) \/ PageVerify(data) \/ Protect
-----------------------------------------------------------------------------
CONSTANTS Images,       \* ELF files
          RamWords,     \* words of block RAM: the others are SDRAM
          RESET_ADDRESS,\* a quarter into the flash: what is below is the FPGA's
          MaxFaults     \* bound: accesses that fail

ASSUME RunAssumption ==
  /\ RESET_ADDRESS \in Nat /\ RESET_ADDRESS % EraseB = 0 /\ RESET_ADDRESS < FlashBytes
  /\ RamWords \in 1 .. NWord
  /\ \A img \in Images :
       img.phdrs \in Seq([mem : {"ram", "sdram", "flash"}, start : Nat, filesz : Nat, memsz : Nat,
                          ones : SUBSET Nat])

VARIABLES prog,     \* the program that runs, where it is, and its loop counter
          image,    \* ziprun: the sections it loads
          load,     \* ziprun: startaddr, codelen and the bytes fbuf has programmed
          faults

runvars == <<image, load>>

Program(who, at) == [who |-> who, at |-> at, i |-> 0]
Shell(how) == Program("none", how)
NoLoad == [startaddr |-> RESET_ADDRESS, codelen |-> 0, fbuf |-> {}]

Running(who, at) == prog.who = who /\ prog.at = at
Next_(at) == prog' = [prog EXCEPT !.at = at]

RunInit == prog = Shell("ready") /\ image = << >> /\ load = NoLoad /\ faults = 0
-----------------------------------------------------------------------------
\* elfread: a section as long as the file has bytes for it; a header that
\* claims more than the memory size has nothing read for it.
ElfRead(phdrs) ==
  [k \in DOMAIN phdrs |->
     LET h == phdrs[k] IN
     [mem |-> h.mem, start |-> h.start, len |-> h.filesz,
      byte |-> [b \in 0 .. h.filesz - 1 |-> IF h.filesz > h.memsz THEN 0 ELSE 16 * k + b],
      ones |-> h.ones]]

\* The loops over the sections end at the first without bytes.
Leading(secs) ==
  [k \in {k \in DOMAIN secs : \A j \in 1 .. k : secs[j].len > 0} |-> secs[k]]

\* Mutant: as the loop that loads, and not from RESET_ADDRESS.
ValidAnyFlash(s) ==
  \/ s.mem = "ram" /\ s.start + s.len <= WordB * RamWords
  \/ s.mem = "sdram" /\ s.start + s.len <= WordB * (NWord - RamWords)
  \/ s.mem = "flash" /\ s.start + s.len <= FlashBytes

Valid(s) ==
  \/ s.mem = "ram" /\ s.start + s.len <= WordB * RamWords
  \/ s.mem = "sdram" /\ s.start + s.len <= WordB * (NWord - RamWords)
  \/ s.mem = "flash" /\ s.start >= RESET_ADDRESS /\ s.start + s.len <= FlashBytes

\* A section's words, as a little endian host has them in its buffer -- first
\* byte least significant -- and what lies past the section's end.
Past == 999
FirstWord(s) == (s.start \div WordB) + (IF s.mem = "ram" THEN 1 ELSE RamWords + 1)
WordsOf(s) == FirstWord(s) .. FirstWord(s) + ((s.len + WordB - 1) \div WordB) - 1
ByteAt(s, n) == IF n < s.len THEN s.byte[n] ELSE Past
HostWord(s, w) ==
  [b \in 1 .. WordB |-> ByteAt(s, WordB * (w - FirstWord(s)) + WordB - b)]

\* Mutant: words are sent as the host has them.
byteswapNot(w) == w

byteswap(w) == Reverse(w)

\* The section's words on the bus.
BusWord(s, w) == byteswap(HostWord(s, w))
-----------------------------------------------------------------------------
StartRun(img) ==
  /\ prog.who = "none"
  /\ prog' = Program("ziprun", "version")
  /\ image' = Leading(ElfRead(img.phdrs)) /\ load' = NoLoad /\ drv' = NoCall
  /\ UNCHANGED <<port, flash, wp, wip, faults>>

Entry == RamBase + 1

\* An access of ziprun that leaves the board as it is, and the next.
Looks == {<<"version", "halt">>, <<"check", "flash">>, <<"version2", "select">>}

RunLook ==
  /\ prog.who = "ziprun"
  /\ \E l \in Looks : prog.at = l[1] /\ prog' = [prog EXCEPT !.at = l[2], !.i = 0]
  /\ UNCHANGED <<port, flashvars, runvars, faults>>

HaltBits == {"halt", "reset"}

RunHalt ==
  /\ Running("ziprun", "halt")
  /\ WriteCtrl(HaltBits, 0)
  /\ Next_("validate")
  /\ UNCHANGED <<flashvars, runvars, faults>>

\* Nothing is loaded unless there is room for all of it.
RunValidate ==
  /\ Running("ziprun", "validate")
  /\ prog' = IF \A k \in DOMAIN image : Valid(image[k])
             THEN [prog EXCEPT !.at = "load", !.i = 1] ELSE Shell("no memory")
  /\ UNCHANGED <<port, flashvars, runvars, faults>>

Section == image[prog.i]

RunLoadMem ==
  /\ Running("ziprun", "load") /\ prog.i \in DOMAIN image
  /\ Section.mem \in {"ram", "sdram"}
  /\ WriteMem(WordsOf(Section), [w \in WordsOf(Section) |-> BusWord(Section, w)])
  /\ prog' = [prog EXCEPT !.i = @ + 1]
  /\ UNCHANGED <<flashvars, runvars, faults>>

\* A section for the flash is put in fbuf, and the span to write grows by it.
RunLoadFlash ==
  LET a == Section.start
      start == Min({load.startaddr, a})
      len == load.codelen + load.startaddr - start
      here == Span(a, a + Section.len)
  IN /\ Running("ziprun", "load") /\ prog.i \in DOMAIN image /\ Section.mem = "flash"
     /\ load' = [startaddr |-> start, codelen |-> Max({len, a + Section.len - start}),
                 fbuf |-> (load.fbuf \ here)
                          \union {x \in here : x - a \notin Section.ones}]
     /\ prog' = [prog EXCEPT !.i = @ + 1]
     /\ UNCHANGED <<port, flashvars, image, faults>>

RunLoaded ==
  /\ Running("ziprun", "load") /\ prog.i \notin DOMAIN image
  /\ Next_("check")
  /\ UNCHANGED <<port, flashvars, runvars, faults>>

RunFlash ==
  /\ Running("ziprun", "flash")
  /\ \/ /\ drv.at = "none" /\ load.codelen = 0
        /\ Next_("version2") /\ UNCHANGED flashvars
     \/ /\ drv.at = "none" /\ load.codelen > 0
        /\ CallWrite(load.startaddr, load.codelen) /\ UNCHANGED <<prog, flash, wp, wip>>
     \/ Write(load.fbuf) /\ UNCHANGED prog
     \/ /\ drv.at = "true" /\ drv' = NoCall
        /\ Next_("version2") /\ UNCHANGED <<flash, wp, wip>>
     \/ /\ drv.at \in {"false", "crashed"} /\ drv' = NoCall
        /\ prog' = Shell("no flash") /\ UNCHANGED <<flash, wp, wip>>
  /\ UNCHANGED <<port, runvars, faults>>
-----------------------------------------------------------------------------
(***************************************************************************)
(* Making the processor ready: each of its registers is set to 0, the      *)
(* cache is cleared, the program counter set.                              *)
(***************************************************************************)

\* A loop over the addresses of the registers s, at prog.i: r is the next that
\* is followed.  Those that are not are the same.
NextReg(s, r) == r \in s /\ r >= prog.i /\ \A q \in s : q >= prog.i => r <= q
PastAll(s) == \A q \in s : q < prog.i

SelectBits == {"halt"}

RunSelect ==
  /\ Running("ziprun", "select")
  /\ \E r \in CpuReg :
       /\ NextReg(CpuReg, r)
       /\ WriteCtrl(SelectBits, r)
       /\ prog' = [prog EXCEPT !.at = "zero", !.i = r]
  /\ UNCHANGED <<flashvars, runvars, faults>>

RunZero ==
  /\ Running("ziprun", "zero")
  /\ WriteData(0)
  /\ prog' = [prog EXCEPT !.at = "select", !.i = @ + 1]
  /\ UNCHANGED <<flashvars, runvars, faults>>

\* Mutant: the cache is left as it is.
CacheBitsHalt == {"halt"}

CacheBits == {"halt", "clrcache"}

RunClearCache ==
  /\ Running("ziprun", "select") /\ PastAll(CpuReg)
  /\ WriteCtrl(CacheBits, 0)
  /\ Next_("selectpc")
  /\ UNCHANGED <<flashvars, runvars, faults>>

\* CPU_sPC holds the halt bit, and so does CPU_GO|CPU_sPC, the last write of
\* all with -r.
RunSelectPC ==
  /\ \/ Running("ziprun", "selectpc") /\ Next_("setpc")
     \/ Running("ziprun", "start") /\ Next_("status")
  /\ WriteCtrl({"halt"}, PC)
  /\ UNCHANGED <<flashvars, runvars, faults>>

RunSetPC ==
  /\ Running("ziprun", "setpc")
  /\ WriteData(Entry)
  /\ \E r \in BOOLEAN : Next_(IF r THEN "start" ELSE "status")
  /\ UNCHANGED <<flashvars, runvars, faults>>

RunStatus ==
  /\ Running("ziprun", "status")
  /\ prog' = Shell("loaded")
  /\ UNCHANGED <<port, flashvars, runvars, faults>>

\* An access fails, having written some of the words it was to write.
RunBusError ==
  /\ prog.who = "ziprun" /\ prog.at \notin {"validate", "caught"}
  /\ faults < MaxFaults /\ faults' = faults + 1
  /\ IF Running("ziprun", "load") /\ prog.i \in DOMAIN image
     THEN /\ Section.mem # "flash"
          /\ \E ws \in {{w \in WordsOf(Section) : w < n} : n \in WordsOf(Section)} :
               WriteMem(ws, [w \in ws |-> BusWord(Section, w)])
     ELSE UNCHANGED port
  /\ prog' = IF prog.at \in {"version", "halt"} THEN Shell("no board")
             ELSE [prog EXCEPT !.at = "caught"]
  /\ drv' = NoCall
  /\ UNCHANGED <<flash, wp, wip, runvars>>

\* The handler leaves the processor in reset and halted.
RunCaught ==
  /\ Running("ziprun", "caught")
  /\ WriteCtrl({"halt", "reset", "clrcache"}, 0)
  /\ prog' = Shell("bus error")
  /\ UNCHANGED <<flashvars, runvars, faults>>

ZipRunStep ==
  \/ RunLook \/ RunHalt \/ RunValidate \/ RunLoadMem \/ RunLoadFlash \/ RunLoaded
  \/ RunFlash \/ RunSelect \/ RunZero \/ RunClearCache \/ RunSelectPC \/ RunSetPC
  \/ RunStatus \/ RunCaught
=============================================================================
