------------------------------ MODULE PfCache -------------------------------
(***************************************************************************)
(* The instruction cache, rtl/cpu/pfcache.v, clock by clock, between the   *)
(* decoder of the ZipCPU and the bus.  Addresses are those of words.  The  *)
(* memory is written once, by anyone and at any time; a word is its        *)
(* address and the version of the memory it was read from.                 *)
(***************************************************************************)
EXTENDS ZipBounds, Sequences

VARIABLES pf,      \* the registers
          bus,     \* the words asked for and not answered
          cpu,     \* the processor: its pf_pc, the instruction it waits for
          code     \* the memory's version, and that of the last clearing
vars == <<pf, bus, cpu, code>>

Space == Words * Lines * Tags
Line(a) == a \div Words
Index(a) == Line(a) % Lines
Tag(a) == Line(a) \div Lines
LineStart(a) == Words * Line(a)
\* A word's place in the cache: its line there, and its place in the line.
Slot(a) == Words * Index(a) + (a % Words)
Junk == [addr |-> Space, ver |-> 0]

Init ==
  /\ pf = [isrc |-> FALSE, r_pc |-> 0, r_lastpc |-> 0, r_pc_cache |-> Junk,
           r_last_cache |-> Junk, tagvalipc |-> 0, tagvallst |-> 0, lastpc |-> 0,
           rvsrc |-> FALSE, delay |-> 3, r_v_from_pc |-> FALSE, r_v_from_last |-> FALSE,
           needload |-> FALSE, last_addr |-> FALSE, last_ack |-> FALSE, bus_abort |-> FALSE,
           cyc |-> FALSE, stb |-> FALSE, addr |-> 0, wraddr |-> 0, svmask |-> FALSE, saddr |-> 0,
           cache_tags |-> [i \in 0 .. Lines - 1 |-> 0],
           valid_mask |-> [i \in 0 .. Lines - 1 |-> FALSE],
           cache |-> [s \in 0 .. Words * Lines - 1 |-> Junk],
           illegal_valid |-> FALSE, illegal_cache |-> 0, o_illegal |-> FALSE]
  /\ bus = << >>
  /\ cpu = [st |-> "clear", pf_pc |-> 0, want |-> 0]
  /\ code = [ver |-> 0, cleared |-> 0]
-----------------------------------------------------------------------------
(* What the decoder sees. *)

r_v == IF pf.rvsrc THEN pf.r_v_from_pc ELSE pf.r_v_from_last
valid == r_v \/ (pf.o_illegal /\ ~pf.cyc)
o_pc == IF pf.isrc THEN pf.r_pc ELSE pf.r_lastpc
o_insn == IF pf.isrc THEN pf.r_pc_cache ELSE pf.r_last_cache

(* The wires.  c is what the processor does in this clock: it jumps,       *)
(* clears the cache or resets; takes is its i_stall_n.                     *)

i_pc(c) == IF c.op = "jump" THEN c.to ELSE cpu.pf_pc
Clears(c) == c.op \in {"clear", "reset"}
Moves(c) == (r_v /\ c.takes) \/ c.op = "jump"

w_v_from_pc(c) ==
  /\ Line(i_pc(c)) = Line(pf.lastpc)
  /\ pf.tagvalipc = Tag(i_pc(c)) /\ pf.valid_mask[Index(i_pc(c))]

w_v_from_last ==
  /\ (IF pf.isrc THEN pf.tagvalipc ELSE pf.tagvallst) = Tag(pf.lastpc)
  /\ pf.valid_mask[Index(pf.lastpc)]

\* Two clocks to look before a miss is believed, and again after each load.
delay(c) ==
  IF Clears(c) \/ Moves(c) THEN 2
  ELSE IF r_v THEN pf.delay
  ELSE IF pf.cyc THEN 2
  ELSE IF pf.delay = 0 THEN 0 ELSE pf.delay - 1

rvsrc(c) == Clears(c) \/ Moves(c) \/ (r_v /\ pf.rvsrc)

needload ==
  /\ ~r_v /\ pf.delay = 0 /\ ~w_v_from_last
  /\ ~(pf.illegal_valid /\ Line(pf.lastpc) = pf.illegal_cache)
-----------------------------------------------------------------------------
(* The load of a line.  b is what the bus says. *)

LastPair(a) == a % Words >= Words - 2
Last(a) == a % Words = Words - 1

Ends(b) == (b.ack /\ pf.last_ack) \/ b.err

last_addr(b) ==
  pf.cyc /\ (pf.last_addr \/ (LastPair(pf.addr) /\ (~b.stall \/ Last(pf.addr))))

last_ack(b) == pf.cyc /\ LastPair(pf.wraddr) /\ (Last(pf.wraddr) \/ b.ack)

addr(b) ==
  IF pf.stb /\ ~b.stall /\ ~pf.last_addr
  THEN LineStart(pf.addr) + ((pf.addr + 1) % Words)
  ELSE IF ~pf.cyc THEN LineStart(pf.lastpc) ELSE pf.addr

wraddr(b) ==
  IF pf.cyc THEN (IF b.ack THEN (pf.wraddr + 1) % (Words * Lines) ELSE pf.wraddr)
  ELSE Slot(LineStart(pf.lastpc))

cache(b) ==
  IF pf.cyc THEN [pf.cache EXCEPT ![pf.wraddr] = IF b.ack THEN Head(bus) ELSE Junk]
  ELSE pf.cache

cache_tags(b) ==
  IF pf.cyc /\ ~pf.last_addr /\ b.ack
  THEN [pf.cache_tags EXCEPT ![Index(pf.addr)] = Tag(pf.addr)] ELSE pf.cache_tags

\* A mutant of the next: a line being loaded outlives the clearing.
valid_maskKept(c) ==
  IF Clears(c) THEN [i \in DOMAIN pf.valid_mask |-> FALSE]
  ELSE [i \in DOMAIN pf.valid_mask |->
          IF ~pf.cyc /\ pf.needload /\ i = Index(pf.lastpc) THEN FALSE
          ELSE (pf.svmask /\ i = pf.saddr) \/ pf.valid_mask[i]]

valid_mask(c) ==
  IF Clears(c) THEN [i \in DOMAIN pf.valid_mask |-> FALSE]
  ELSE [i \in DOMAIN pf.valid_mask |->
          IF ~pf.cyc /\ pf.needload /\ i = Index(pf.lastpc) THEN FALSE
          ELSE IF pf.svmask /\ i = pf.saddr THEN ~pf.bus_abort
          ELSE pf.valid_mask[i]]

Fetch(c, b) ==
  LET quiet == Clears(c) \/ c.op = "jump" IN
  pf' = [isrc |-> Moves(c), r_pc |-> i_pc(c), r_lastpc |-> pf.lastpc,
         r_pc_cache |-> pf.cache[Slot(i_pc(c))], r_last_cache |-> pf.cache[Slot(pf.lastpc)],
         tagvalipc |-> pf.cache_tags[Index(i_pc(c))],
         tagvallst |-> pf.cache_tags[Index(pf.lastpc)],
         lastpc |-> IF Moves(c) THEN i_pc(c) ELSE pf.lastpc,
         rvsrc |-> rvsrc(c), delay |-> delay(c),
         r_v_from_pc |-> w_v_from_pc(c) /\ ~quiet, r_v_from_last |-> w_v_from_last /\ ~quiet,
         needload |-> needload, last_addr |-> last_addr(b), last_ack |-> last_ack(b),
         bus_abort |-> pf.cyc /\ (pf.bus_abort \/ c.op = "clear"),
         cyc |-> c.op # "reset" /\ (IF pf.cyc THEN ~Ends(b) ELSE pf.needload),
         stb |-> c.op # "reset" /\ (IF pf.cyc THEN /\ pf.stb /\ ~Ends(b)
                                                  /\ ~(~b.stall /\ pf.last_addr)
                                    ELSE pf.needload),
         addr |-> addr(b), wraddr |-> wraddr(b), cache |-> cache(b),
         cache_tags |-> cache_tags(b), valid_mask |-> valid_mask(c),
         svmask |-> ~Clears(c) /\ pf.cyc /\ b.ack /\ pf.last_ack,
         saddr |-> IF pf.cyc /\ b.ack THEN Index(pf.wraddr) ELSE pf.saddr,
         illegal_valid |-> ~Clears(c) /\ (pf.illegal_valid \/ (pf.cyc /\ b.err)),
         illegal_cache |-> IF Clears(c) THEN 0
                           ELSE IF pf.cyc /\ b.err THEN Line(pf.addr) ELSE pf.illegal_cache,
         o_illegal |-> /\ ~quiet /\ ~pf.cyc /\ pf.illegal_valid
                       /\ pf.illegal_cache = Line(pf.lastpc)]
-----------------------------------------------------------------------------
(* The bus answers in order, a clock after the request at the earliest,    *)
(* with the word as it was when the bus took the request.                  *)

Answers(b) ==
  /\ b.stall => pf.stb
  /\ pf.stb /\ Len(bus) = PfPend => b.stall \/ b.ack
  /\ b.ack => bus # << >> /\ Line(Head(bus).addr) \notin BadLines
  /\ b.err => bus # << >> /\ Line(Head(bus).addr) \in BadLines

Devices(c, b) ==
  LET kept == IF b.ack THEN Tail(bus) ELSE bus
      asks == pf.stb /\ ~b.stall
  IN  bus' = IF c.op = "reset" \/ ~pf.cyc \/ Ends(b) THEN << >>
             ELSE IF asks THEN Append(kept, [addr |-> pf.addr, ver |-> code.ver]) ELSE kept

\* The memory is written, and the cache is cleared.
Memory(c, writes) ==
  code' = [ver |-> IF writes THEN 1 ELSE code.ver,
           cleared |-> IF Clears(c) THEN code.ver ELSE code.cleared]

(* The processor: pf_pc steps with every instruction it takes, a cleared   *)
(* cache is followed by a jump, and an illegal instruction stops it.       *)

Processor(c) ==
  cpu' = IF Clears(c) THEN [cpu EXCEPT !.st = "clear"]
         ELSE IF c.op = "jump"
         THEN [st |-> "run", pf_pc |-> (c.to + 1) % Space, want |-> c.to]
         ELSE IF valid /\ c.takes
         THEN [st |-> IF pf.o_illegal THEN "stopped" ELSE cpu.st,
               pf_pc |-> (cpu.pf_pc + 1) % Space, want |-> (cpu.want + 1) % Space]
         ELSE cpu

\* i_stall_n is only looked at when there is an instruction.
Takes == IF valid THEN BOOLEAN ELSE {FALSE}

Does ==
  [op : {"jump"}, to : Targets, takes : Takes] \cup
  [op : IF cpu.st = "clear" THEN {"reset"} ELSE {"none", "clear", "reset"}, takes : Takes]

Next ==
  \E b \in [stall : BOOLEAN, ack : BOOLEAN, err : BOOLEAN] :
    /\ Answers(b)
    /\ \E c \in Does, writes \in BOOLEAN :
         /\ writes => code.ver = 0
         /\ Fetch(c, b) /\ Devices(c, b) /\ Memory(c, writes) /\ Processor(c)

Spec == Init /\ [][Next]_vars
-----------------------------------------------------------------------------
(* pfcache.v: what the decoder is handed is the instruction at the address *)
(* the processor has come to, no older than the last clearing of the       *)
(* cache; it is marked illegal if and only if the bus refused its line.    *)
HandsInstruction ==
  cpu.st = "run" /\ valid =>
    /\ o_pc = cpu.want
    /\ pf.o_illegal = (Line(o_pc) \in BadLines)
    /\ ~pf.o_illegal => o_insn.addr = o_pc /\ o_insn.ver >= code.cleared
=============================================================================
