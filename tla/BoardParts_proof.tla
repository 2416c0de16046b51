-------------------------- MODULE BoardParts_proof ---------------------------
(***************************************************************************)
(* Proofs about parts of the board.  While a part runs, BoardSpec's steps  *)
(* are its own and those of the others leave it alone, so what is proved   *)
(* here of a part holds of it whatever the others do.                      *)
(***************************************************************************)
EXTENDS BoardParts, WbSdram_proof, SequenceTheorems, TLAPS

-----------------------------------------------------------------------------
(***************************************************************************)
(* The interrupt controllers and the program that serves them.  Nothing    *)
(* is known of what the program is not in the middle of; the enable lines  *)
(* of pic are all up, those of ctri but for the time between its read,     *)
(* which may write it, and the write that follows.                         *)
(***************************************************************************)
Steps == {"wait", "clear", "serve", "clearctri", "counters"}

Reading ==
  /\ h \in [at : Steps, seen : SUBSET Ints!Sources, alts : SUBSET Counters]
  /\ h.at = "wait" => h.seen = {}
  /\ h.at \notin {"clearctri", "counters"} => h.alts = {}

Enabled ==
  /\ pic.int_enable = Ints!Sources
  /\ h.at = "wait" => pic.gie
  /\ ctri.int_enable \subseteq Counters
  /\ ~looked /\ h.at # "clearctri" => ctri.gie /\ ctri.int_enable = Counters

PendingTypes ==
  /\ brd \subseteq Ints!Sources /\ pic.int_state \subseteq Ints!Sources
  /\ alt \subseteq Counters /\ ctri.int_state \subseteq Counters
  /\ todo \subseteq Pulses \cup Levels \cup Counters

Known ==
  /\ todo \ Counters \subseteq brd \cup pic.int_state \cup h.seen
  /\ ~looked => todo \cap Counters \subseteq alt \cup ctri.int_state \cup h.alts

IntsInv == part = "interrupts" => Reading /\ Enabled /\ PendingTypes /\ Known

\* Neither controller is written, or one of them.
LEMMA Unwritten ==
  ASSUME NEW w, Ints!Writes(Ints!NoWrite, w), PendingTypes
  PROVE  /\ pic.int_state \cup brd \subseteq pic'.int_state /\ pic'.int_state \subseteq Ints!Sources
         /\ pic'.int_enable = pic.int_enable /\ pic'.gie = pic.gie
  BY DEF PendingTypes, Ints!Writes, Ints!Controller, Ints!NoWrite, Ints!State, Ints!Sources

LEMMA CtriUnwritten ==
  ASSUME NEW w, Ints!Writes(w, Ints!NoWrite), PendingTypes
  PROVE  /\ ctri.int_state \cup alt \subseteq ctri'.int_state /\ ctri'.int_state \subseteq Counters
         /\ ctri'.int_enable = ctri.int_enable /\ ctri'.gie = ctri.gie
  BY DEF PendingTypes, Ints!Writes, Ints!Controller, Ints!NoWrite, Ints!State

(***************************************************************************)
(* A clock after which what was up, pending or read of is pending or read  *)
(* of, if it was not served, leaves nothing unknown.                       *)
(***************************************************************************)
Keeps ==
  /\ \A s \in brd \cup pic.int_state \cup h.seen :
       s \in pic'.int_state \cup h'.seen \/ Ints!Serves(s)
  /\ ~looked' => ~looked /\ \A a \in alt \cup ctri.int_state \cup h.alts :
       a \in ctri'.int_state \cup h'.alts \/ Ints!ServesCounter(a)

LEMMA KeepsKnown ==
  ASSUME PendingTypes, Known, Keeps, Ints!Rises, pic'.int_state \subseteq Ints!Sources,
         ctri'.int_state \subseteq Counters
  PROVE  Known' /\ PendingTypes'
<1>2. PICK rise \in {{}} \cup {{s} : s \in (Pulses \cup Levels \cup Counters) \ brd} :
        /\ brd' = {s \in brd \cap Levels : ~Ints!Serves(s)} \cup (rise \cap (Pulses \cup Levels))
        /\ alt' = rise \cap Counters
        /\ todo' = (todo \ ({s \in Pulses \cup Levels : Ints!Serves(s)}
                            \cup {a \in Counters : Ints!ServesCounter(a)})) \cup rise
  BY DEF Ints!Rises
<1>3. rise \subseteq Pulses \cup Levels \cup Counters
  BY <1>2
<1>4. /\ brd' \subseteq Ints!Sources /\ alt' \subseteq Counters
      /\ todo' \subseteq Pulses \cup Levels \cup Counters
  BY <1>2, <1>3 DEF PendingTypes, Ints!Sources
<1>5. todo' \ Counters \subseteq brd' \cup pic'.int_state \cup h'.seen
  BY <1>2, <1>3 DEF Known, Keeps, PendingTypes
<1>6. ~looked' => todo' \cap Counters \subseteq alt' \cup ctri'.int_state \cup h'.alts
  BY <1>2, <1>3 DEF Known, Keeps, PendingTypes
<1> QED
  BY <1>4, <1>5, <1>6 DEF Known, PendingTypes

LEMMA IntsStep ==
  ASSUME part = "interrupts", IntsInv, Ints!Next, part' = part
  PROVE  IntsInv'
<1> USE DEF Ints!At
<1>1. Reading /\ Enabled /\ Known /\ PendingTypes /\ Ints!Rises
  BY DEF IntsInv, Ints!Next
<1>0. Ints!DebuggerReads \/ looked' = looked
  BY DEF Ints!Next
<1>2. Ints!Sources' = Ints!Sources
  BY DEF Ints!Sources
<1> DEFINE Good == /\ Keeps /\ Reading' /\ Enabled' 
                   /\ pic'.int_state \subseteq Ints!Sources /\ ctri'.int_state \subseteq Counters
<1> SUFFICES Good
  BY <1>1, KeepsKnown DEF IntsInv
<1>12. CASE Ints!DebuggerReads
  <2>1. PICK w \in Ints!Left(Counters) :
          h' = h /\ looked' = TRUE /\ Ints!Writes(Ints!NoWrite, w)
    BY <1>12 DEF Ints!DebuggerReads
  <2>2. ctri'.int_state \subseteq Counters /\ ctri'.int_enable \subseteq Counters
    BY <1>1, <2>1 DEF Ints!Writes, Ints!Controller, Ints!Left, Ints!State, PendingTypes, Enabled
  <2>3. Reading'
    BY <1>1, <1>2, <2>1 DEF Reading, Steps, PendingTypes
  <2>4. Enabled'
    BY <1>1, <1>2, <2>1, <2>2, Unwritten DEF Enabled, Reading
  <2>5. Keeps
    BY <1>1, <2>1, <2>2, Unwritten DEF Keeps, Reading, Ints!Serves, Ints!ServesCounter
  <2> QED
    BY <1>1, <2>1, <2>3, <2>4, <2>5, <2>2, Unwritten DEF Good
<1> SUFFICES ASSUME looked' = looked PROVE Good
  BY <1>0, <1>12
<1>3. CASE Ints!Idle
  <2>1. h' = h /\ Ints!Writes(Ints!NoWrite, Ints!NoWrite)
    BY <1>3 DEF Ints!Idle
  <2>2. /\ pic.int_state \cup brd \subseteq pic'.int_state /\ pic'.int_state \subseteq Ints!Sources
        /\ pic'.int_enable = pic.int_enable /\ pic'.gie = pic.gie
        /\ ctri.int_state \cup alt \subseteq ctri'.int_state /\ ctri'.int_state \subseteq Counters
        /\ ctri'.int_enable = ctri.int_enable /\ ctri'.gie = ctri.gie
    BY <1>1, <2>1, Unwritten, CtriUnwritten
  <2>3. Reading'
    BY <1>1, <1>2, <2>1 DEF Reading, Steps, PendingTypes
  <2>4. Enabled'
    BY <1>1, <1>2, <2>1, <2>2 DEF Enabled, Reading
  <2>5. Keeps
    BY <1>1, <2>1, <2>2 DEF Keeps, Reading, Ints!Serves, Ints!ServesCounter
  <2> QED
    BY <1>1, <2>1, <2>3, <2>4, <2>5, <2>2 DEF Good
<1>4. CASE Ints!ReadPic
  <2>1. /\ h.at = "wait" /\ h' = [h EXCEPT !.at = "clear", !.seen = pic.int_state]
        /\ Ints!Writes(Ints!NoWrite, Ints!NoWrite)
    BY <1>4 DEF Ints!ReadPic
  <2>2. /\ pic.int_state \cup brd \subseteq pic'.int_state /\ pic'.int_state \subseteq Ints!Sources
        /\ pic'.int_enable = pic.int_enable /\ pic'.gie = pic.gie
        /\ ctri.int_state \cup alt \subseteq ctri'.int_state /\ ctri'.int_state \subseteq Counters
        /\ ctri'.int_enable = ctri.int_enable /\ ctri'.gie = ctri.gie
    BY <1>1, <2>1, Unwritten, CtriUnwritten
  <2>3. Reading'
    BY <1>1, <1>2, <2>1 DEF Reading, Steps, PendingTypes
  <2>4. Enabled'
    BY <1>1, <1>2, <2>1, <2>2 DEF Enabled, Reading
  <2>5. Keeps
    BY <1>1, <2>1, <2>2 DEF Keeps, Reading, Ints!Serves, Ints!ServesCounter
  <2> QED
    BY <1>1, <2>1, <2>3, <2>4, <2>5, <2>2 DEF Good
<1>5. CASE Ints!ClearPic
  <2>1. /\ h.at = "clear" /\ h' = [h EXCEPT !.at = "serve"]
        /\ Ints!Writes(Ints!Write(FALSE, {}, h.seen), Ints!NoWrite)
    BY <1>5 DEF Ints!ClearPic
  <2>2. /\ brd \cup (pic.int_state \ h.seen) \subseteq pic'.int_state
        /\ pic'.int_state \subseteq Ints!Sources
        /\ pic'.int_enable = pic.int_enable
    BY <1>1, <2>1 DEF Ints!Writes, Ints!Controller, Ints!Write, Ints!State, PendingTypes, Ints!Sources
  <2>3. Reading'
    BY <1>1, <1>2, <2>1 DEF Reading, Steps, PendingTypes
  <2>4. Enabled'
    BY <1>1, <1>2, <2>1, <2>2, CtriUnwritten DEF Enabled, Reading
  <2>5. Keeps
    BY <1>1, <2>1, <2>2, CtriUnwritten DEF Keeps, Reading, Ints!Serves, Ints!ServesCounter
  <2> QED
    BY <1>1, <2>1, <2>3, <2>4, <2>5, <2>2, CtriUnwritten DEF Good
<1>6. ASSUME NEW s \in Ints!Sources, Ints!Serve(s) PROVE Good
  <2>1. /\ h.at = "serve" /\ s \in h.seen /\ s # "ctri"
        /\ h' = [h EXCEPT !.seen = h.seen \ {s}]
        /\ Ints!Writes(Ints!NoWrite, Ints!NoWrite)
    BY <1>6 DEF Ints!Serve
  <2>2. /\ pic.int_state \cup brd \subseteq pic'.int_state /\ pic'.int_state \subseteq Ints!Sources
        /\ pic'.int_enable = pic.int_enable /\ pic'.gie = pic.gie
        /\ ctri.int_state \cup alt \subseteq ctri'.int_state /\ ctri'.int_state \subseteq Counters
        /\ ctri'.int_enable = ctri.int_enable /\ ctri'.gie = ctri.gie
    BY <1>1, <2>1, Unwritten, CtriUnwritten
  <2>3. Reading'
    BY <1>1, <1>2, <2>1 DEF Reading, Steps, PendingTypes
  <2>4. Enabled'
    BY <1>1, <1>2, <2>1, <2>2 DEF Enabled, Reading
  <2>5. Keeps
    BY <1>1, <2>1, <2>2 DEF Keeps, Reading, Ints!Serves, Ints!ServesCounter
  <2> QED
    BY <1>1, <2>1, <2>3, <2>4, <2>5, <2>2 DEF Good
<1>7. CASE Ints!ReadCtri
  <2>1. PICK w \in Ints!Left(Counters) :
          /\ h.at = "serve" /\ "ctri" \in h.seen
          /\ h' = [h EXCEPT !.at = "clearctri", !.seen = h.seen \ {"ctri"},
                            !.alts = ctri.int_state]
          /\ Ints!Writes(Ints!NoWrite, w)
    BY <1>7 DEF Ints!ReadCtri
  <2>2. ctri'.int_state \subseteq Counters /\ alt \subseteq ctri'.int_state
        /\ ctri'.int_enable \subseteq Counters
    BY <1>1, <2>1 DEF Ints!Writes, Ints!Controller, Ints!Left, Ints!State, PendingTypes, Enabled
  <2>3. Reading'
    BY <1>1, <1>2, <2>1 DEF Reading, Steps, PendingTypes
  <2>4. Enabled'
    BY <1>1, <1>2, <2>1, <2>2, Unwritten DEF Enabled, Reading
  <2>5. Keeps
    BY <1>1, <2>1, <2>2, Unwritten DEF Keeps, Reading, Ints!Serves, Ints!ServesCounter
  <2> QED
    BY <1>1, <2>1, <2>3, <2>4, <2>5, <2>2, Unwritten DEF Good
<1>8. CASE Ints!ClearCtri
  <2>1. /\ h.at = "clearctri" /\ h' = [h EXCEPT !.at = "counters"]
        /\ Ints!Writes(Ints!NoWrite, Ints!Write(TRUE, Counters, h.alts))
    BY <1>8 DEF Ints!ClearCtri
  <2>2. /\ alt \cup (ctri.int_state \ h.alts) \subseteq ctri'.int_state
        /\ ctri'.int_state \subseteq Counters
        /\ ctri'.int_enable = Counters /\ ctri'.gie
    BY <1>1, <2>1 DEF Ints!Writes, Ints!Controller, Ints!Write, Ints!State, PendingTypes, Enabled
  <2>3. Reading'
    BY <1>1, <1>2, <2>1 DEF Reading, Steps, PendingTypes
  <2>4. Enabled'
    BY <1>1, <1>2, <2>1, <2>2, Unwritten DEF Enabled, Reading
  <2>5. Keeps
    BY <1>1, <2>1, <2>2, Unwritten DEF Keeps, Reading, Ints!Serves, Ints!ServesCounter
  <2> QED
    BY <1>1, <2>1, <2>3, <2>4, <2>5, <2>2, Unwritten DEF Good
<1>9. ASSUME NEW a \in Counters, Ints!ServeCounter(a) PROVE Good
  <2>1. /\ h.at = "counters" /\ a \in h.alts /\ h' = [h EXCEPT !.alts = h.alts \ {a}]
        /\ Ints!Writes(Ints!NoWrite, Ints!NoWrite)
    BY <1>9 DEF Ints!ServeCounter
  <2>2. /\ pic.int_state \cup brd \subseteq pic'.int_state /\ pic'.int_state \subseteq Ints!Sources
        /\ pic'.int_enable = pic.int_enable /\ pic'.gie = pic.gie
        /\ ctri.int_state \cup alt \subseteq ctri'.int_state /\ ctri'.int_state \subseteq Counters
        /\ ctri'.int_enable = ctri.int_enable /\ ctri'.gie = ctri.gie
    BY <1>1, <2>1, Unwritten, CtriUnwritten
  <2>3. Reading'
    BY <1>1, <1>2, <2>1 DEF Reading, Steps, PendingTypes
  <2>4. Enabled'
    BY <1>1, <1>2, <2>1, <2>2 DEF Enabled, Reading
  <2>5. Keeps
    BY <1>1, <2>1, <2>2 DEF Keeps, Reading, Ints!Serves, Ints!ServesCounter
  <2> QED
    BY <1>1, <2>1, <2>3, <2>4, <2>5, <2>2 DEF Good
<1>10. CASE Ints!Through
  <2>1. /\ h.at = "counters" /\ h.alts = {} /\ h' = [h EXCEPT !.at = "serve"]
        /\ Ints!Writes(Ints!NoWrite, Ints!NoWrite)
    BY <1>10 DEF Ints!Through
  <2>2. /\ pic.int_state \cup brd \subseteq pic'.int_state /\ pic'.int_state \subseteq Ints!Sources
        /\ pic'.int_enable = pic.int_enable /\ pic'.gie = pic.gie
        /\ ctri.int_state \cup alt \subseteq ctri'.int_state /\ ctri'.int_state \subseteq Counters
        /\ ctri'.int_enable = ctri.int_enable /\ ctri'.gie = ctri.gie
    BY <1>1, <2>1, Unwritten, CtriUnwritten
  <2>3. Reading'
    BY <1>1, <1>2, <2>1 DEF Reading, Steps, PendingTypes
  <2>4. Enabled'
    BY <1>1, <1>2, <2>1, <2>2 DEF Enabled, Reading
  <2>5. Keeps
    BY <1>1, <2>1, <2>2 DEF Keeps, Reading, Ints!Serves, Ints!ServesCounter
  <2> QED
    BY <1>1, <2>1, <2>3, <2>4, <2>5, <2>2 DEF Good
<1>11. CASE Ints!Return
  <2>1. /\ h.at = "serve" /\ h.seen = {}
        /\ h' = [at |-> "wait", seen |-> {}, alts |-> {}]
        /\ Ints!Writes(Ints!Write(TRUE, {}, {}), Ints!NoWrite)
    BY <1>11 DEF Ints!Return, Ints!Waiting
  <2>2. /\ brd \cup pic.int_state \subseteq pic'.int_state
        /\ pic'.int_state \subseteq Ints!Sources
        /\ pic'.int_enable = pic.int_enable /\ pic'.gie
    BY <1>1, <2>1 DEF Ints!Writes, Ints!Controller, Ints!Write, Ints!State, PendingTypes, Ints!Sources
  <2>3. Reading'
    BY <1>1, <1>2, <2>1 DEF Reading, Steps, PendingTypes
  <2>4. Enabled'
    BY <1>1, <1>2, <2>1, <2>2, CtriUnwritten DEF Enabled, Reading
  <2>5. Keeps
    BY <1>1, <2>1, <2>2, CtriUnwritten DEF Keeps, Reading, Ints!Serves, Ints!ServesCounter
  <2> QED
    BY <1>1, <2>1, <2>3, <2>4, <2>5, <2>2, CtriUnwritten DEF Good
<1> QED
  BY <1>3, <1>4, <1>5, <1>6, <1>7, <1>8, <1>9, <1>10, <1>11, <1>12 DEF Ints!Next

(***************************************************************************)
(* An interrupt that came stays pending until the program has read of it   *)
(* (icontrol.v); that of a counter, until a debugger looks at the          *)
(* peripherals (zipdbg.cpp).                                               *)
(***************************************************************************)
THEOREM InterruptsKept == BoardSpec => []NoEventLost
<1>1. BoardInit => IntsInv
  <2> SUFFICES ASSUME Ints!Init PROVE Reading /\ Enabled /\ PendingTypes /\ Known
    BY DEF BoardInit, IntsInv
  <2>1. /\ h = [at |-> "wait", seen |-> {}, alts |-> {}] /\ brd = {} /\ alt = {} /\ todo = {}
        /\ looked = FALSE
    BY DEF Ints!Init, Ints!Waiting
  <2>2. /\ pic.int_state = {} /\ pic.int_enable = Ints!Sources /\ pic.gie
        /\ ctri.int_state = {} /\ ctri.int_enable = Counters /\ ctri.gie
    BY DEF Ints!Init, Ints!Armed, Ints!Off
  <2> QED
    BY <2>1, <2>2 DEF Reading, Enabled, Known, PendingTypes, Steps
<1>2. IntsInv /\ [BoardNext]_boardvars => IntsInv'
  <2> SUFFICES ASSUME IntsInv, [BoardNext]_boardvars, part = "interrupts" PROVE IntsInv'
    BY DEF BoardNext, boardvars, IntsInv
  <2>1. CASE IntsRun /\ part' = part
    BY <2>1, IntsStep DEF IntsRun
  <2>2. CASE UNCHANGED boardvars
    BY <2>2 DEF boardvars, intsvars, IntsInv, Reading, Enabled, PendingTypes, Known, Ints!Sources
  <2> QED
    BY <2>1, <2>2 DEF BoardNext, LinkRuns, SdramRuns, MoverRuns, FetchRuns, LoadsRun, TimersRun
<1>3. IntsInv => NoEventLost
  BY DEF IntsInv, Reading, Enabled, Known, NoEventLost, Ints!NoEventLost, Ints!CountersKept, Ints!At
<1> QED
  BY <1>1, <1>2, <1>3, PTL DEF BoardSpec

-----------------------------------------------------------------------------
(***************************************************************************)
(* The memory unit.  The list of registers is a ring that holds an entry   *)
(* for each operation issued and not answered; it never fills up, because  *)
(* fifo_full, though a clock late, is never late to say so.  A cycle is    *)
(* open if and only if something is owed, all of it in one direction.      *)
(***************************************************************************)
Wrap(i) == IF i < Entries THEN i ELSE i - Entries

LoadsTypes ==
  /\ mem.cyc \in BOOLEAN /\ mem.stb \in BOOLEAN /\ mem.we \in BOOLEAN /\ mem.lcl \in BOOLEAN
  /\ mem.rdaddr \in 0 .. Entries - 1 /\ mem.wraddr \in 0 .. Entries - 1
  /\ mem.fifo_oreg \in [0 .. Entries - 1 -> Ids \cup {"none"}]
  /\ issued \in Seq(Loads!Op \ {Loads!NoOp}) /\ devs \in Seq(Loads!Op)

Ring ==
  /\ Len(issued) <= OPT_MAXDEPTH
  /\ Len(issued) = OPT_MAXDEPTH => mem.fifo_full
  /\ mem.wraddr = Wrap(mem.rdaddr + Len(issued))
  /\ \A i \in 1 .. Len(issued) : mem.fifo_oreg[Wrap(mem.rdaddr + i - 1)] = issued[i].id

OnTheBus ==
  /\ mem.cyc <=> issued # << >>
  /\ \A i \in 1 .. Len(issued) : issued[i].we = mem.we /\ issued[i].lcl = mem.lcl
  /\ IF mem.stb THEN issued = Append(devs, mem.req) ELSE issued = devs

Answered ==
  /\ mem.o_valid <=> due # Loads!NoOp /\ ~due.we
  /\ mem.o_valid => mem.o_wreg = due.id /\ mem.o_result = due.id
  /\ mem.o_valid \in BOOLEAN
  /\ \A l \in lock.held : Loads!CycOf(l)

LoadsInv == part = "loads" => LoadsTypes /\ Ring /\ OnTheBus /\ Answered

(***************************************************************************)
(* Places in the ring.                                                     *)
(***************************************************************************)
LEMMA Wraps ==
  ASSUME NEW x \in Nat, x < 2 * Entries PROVE x % Entries = Wrap(x)
<1>1. Entries \in Nat \ {0}
  BY DepthAssumption
<1>2. CASE x < Entries
  BY <1>1, <1>2, SMT DEF Wrap
<1>3. CASE Entries <= x
  <2>1. x % Entries = x - Entries
    BY <1>1, <1>3, SMT
  <2> QED
    BY <2>1, <1>1, <1>3 DEF Wrap
<1> QED
  BY <1>1, <1>2, <1>3

LEMMA Fill ==
  ASSUME LoadsTypes, Ring
  PROVE  /\ Loads!fifo_fill = Len(issued)
         /\ (mem.rdaddr + 1) % Entries = Wrap(mem.rdaddr + 1)
         /\ (mem.wraddr + 1) % Entries = Wrap(mem.wraddr + 1)
<1>1. /\ Entries \in Nat \ {0} /\ Len(issued) \in 0 .. Entries - 1 /\ mem.rdaddr \in 0 .. Entries - 1
      /\ mem.wraddr \in 0 .. Entries - 1
  BY DepthAssumption DEF LoadsTypes, Ring
<1>2. PICK x \in Nat : x = mem.wraddr + Entries - mem.rdaddr /\ x < 2 * Entries
  BY <1>1
<1>3. Wrap(x) = Len(issued)
  BY <1>1, <1>2, SMTT(30) DEF Wrap, Ring
<1>4. x % Entries = Len(issued)
  BY <1>2, <1>3, Wraps
<1>5. Loads!fifo_fill = Len(issued)
  BY <1>2, <1>4 DEF Loads!fifo_fill, Loads!N
<1>6. /\ mem.rdaddr + 1 \in Nat /\ mem.rdaddr + 1 < 2 * Entries
      /\ mem.wraddr + 1 \in Nat /\ mem.wraddr + 1 < 2 * Entries
  BY <1>1
<1> QED
  BY <1>5, <1>6, Wraps

LEMMA RingMoves ==
  ASSUME LoadsTypes, Ring
  PROVE  LET n == Len(issued) IN
         /\ Wrap(mem.rdaddr + 1) = mem.wraddr <=> n = 1
         /\ \A k \in 1 .. n : Wrap(mem.rdaddr + k - 1) # mem.wraddr
         /\ \A a \in {0, 1} : a <= n =>
              /\ mem.wraddr = Wrap(Wrap(mem.rdaddr + a) + (n - a))
              /\ Wrap(mem.wraddr + 1) = Wrap(Wrap(mem.rdaddr + a) + (n - a + 1))
         /\ \A a \in {0, 1}, k \in 1 .. Entries : k + a <= Entries =>
              /\ Wrap(Wrap(mem.rdaddr + a) + k - 1) = Wrap(mem.rdaddr + (k + a) - 1)
              /\ Wrap(mem.rdaddr + (k + a) - 1) \in 0 .. Entries - 1
<1>1. PICK rd \in 0 .. Entries - 1, wr \in 0 .. Entries - 1, n \in 0 .. Entries - 1 :
        rd = mem.rdaddr /\ wr = mem.wraddr /\ n = Len(issued) /\ wr = Wrap(rd + n)
  BY DepthAssumption DEF LoadsTypes, Ring
<1>2. Entries \in Nat /\ Entries >= 2 /\ wr = Wrap(rd + n)
  BY <1>1, DepthAssumption
<1>3. Wrap(rd + 1) = wr <=> n = 1
  BY <1>2 DEF Wrap
<1>4. \A k \in 1 .. n : Wrap(rd + k - 1) # wr
  BY <1>2 DEF Wrap
<1>5. ASSUME NEW a \in {0, 1}, a <= n
      PROVE  wr = Wrap(Wrap(rd + a) + (n - a))
  BY <1>2, <1>5 DEF Wrap
<1>6. ASSUME NEW a \in {0, 1}, a <= n
      PROVE  Wrap(wr + 1) = Wrap(Wrap(rd + a) + (n - a + 1))
  BY <1>2, <1>6 DEF Wrap
<1>7. ASSUME NEW a \in {0, 1}, NEW k \in 1 .. Entries, k + a <= Entries
      PROVE  /\ Wrap(Wrap(rd + a) + k - 1) = Wrap(rd + (k + a) - 1)
             /\ Wrap(rd + (k + a) - 1) \in 0 .. Entries - 1
  BY <1>2, <1>7 DEF Wrap
<1> QED
  BY <1>1, <1>3, <1>4, <1>5, <1>6, <1>7

LEMMA LoadsClock ==
  ASSUME LoadsTypes, Ring, OnTheBus,
         NEW op \in Loads!Op \cup {Loads!NoOp},
         NEW b \in [stall : BOOLEAN, ack : BOOLEAN, err : BOOLEAN], NEW i_lock \in BOOLEAN,
         Answered, Loads!Bus(b), Loads!Issues(op, b), Loads!Registers(op, b, i_lock),
         Loads!Devices(b), Loads!Owed(op, b), Loads!Locked(b, i_lock)
  PROVE  LoadsTypes' /\ Ring' /\ OnTheBus' /\ Answered'
<1> DEFINE n == Len(issued)
           a == IF b.ack THEN 1 ELSE 0
           rest == IF b.ack THEN Tail(issued) ELSE issued
<1>1. /\ Entries \in Nat /\ OPT_MAXDEPTH \in 1 .. Entries - 1
      /\ n \in 0 .. Entries - 1 /\ n <= OPT_MAXDEPTH
      /\ issued \in Seq(Loads!Op \ {Loads!NoOp}) /\ devs \in Seq(Loads!Op)
      /\ mem.rdaddr \in 0 .. Entries - 1 /\ mem.wraddr \in 0 .. Entries - 1
      /\ b.ack \in BOOLEAN /\ b.err \in BOOLEAN /\ b.stall \in BOOLEAN
      /\ a \in {0, 1}
  BY DepthAssumption DEF LoadsTypes, Ring
<1>2. b.ack \/ b.err => devs # << >> /\ n > 0 /\ mem.cyc
  BY <1>1 DEF Loads!Bus, OnTheBus
<1>3. Loads!LastAnswer(op, b) <=> b.ack /\ n = 1 /\ op = Loads!NoOp
  <2>1. Wrap(mem.rdaddr + 1) = mem.wraddr <=> n = 1
    BY RingMoves
  <2> QED
    BY <2>1, Fill DEF Loads!LastAnswer, Loads!N
<1>4. Loads!Failed(b) <=> b.err
  BY <1>2 DEF Loads!Failed
<1>5. op # Loads!NoOp /\ mem.cyc => /\ ~mem.fifo_full /\ ~b.stall /\ mem.stb
                                    /\ op.we = mem.we /\ op.lcl = mem.lcl
  BY DEF Loads!Issues, Loads!o_pipe_stalled
<1>6. /\ mem'.cyc <=> IF mem.cyc THEN ~(b.ack /\ n = 1 /\ op = Loads!NoOp) /\ ~b.err
                      ELSE op # Loads!NoOp
      /\ mem'.cyc \in BOOLEAN
  BY <1>3, ZenonT(30) DEF Loads!Registers
<1>7. /\ mem'.stb <=> IF mem.cyc THEN /\ mem.stb /\ ~b.err
                                      /\ ~(b.ack /\ n = 1 /\ op = Loads!NoOp)
                                      /\ b.stall \/ op # Loads!NoOp
                      ELSE op # Loads!NoOp
      /\ mem'.stb \in BOOLEAN
  BY <1>3, ZenonT(30) DEF Loads!Registers
<1>8. /\ mem'.we = IF ~mem.cyc /\ op # Loads!NoOp THEN op.we ELSE mem.we
      /\ mem'.lcl = IF ~mem.cyc /\ op # Loads!NoOp THEN op.lcl ELSE mem.lcl
      /\ mem'.req = IF ~mem.cyc \/ ~b.stall THEN op ELSE mem.req
      /\ mem'.fifo_oreg = [mem.fifo_oreg EXCEPT ![mem.wraddr] = op.id]
      /\ mem'.o_wreg = mem.fifo_oreg[mem.rdaddr]
      /\ mem'.o_result = IF b.ack THEN Head(devs).id ELSE Loads!NoOp.id
      /\ mem'.rdaddr = Loads!rdaddr(b) /\ mem'.wraddr = Loads!wraddr(op, b)
  BY DEF Loads!Registers
<1>9. /\ mem'.fifo_full <=> ~b.err /\ n >= (IF op # Loads!NoOp THEN OPT_MAXDEPTH - 1
                                                                ELSE OPT_MAXDEPTH)
      /\ mem'.o_valid <=> mem.cyc /\ b.ack /\ ~mem.we
      /\ mem'.o_valid \in BOOLEAN
  BY <1>4, Fill, ZenonT(30) DEF Loads!Registers
<1>10. issued' = IF b.err THEN << >> ELSE IF op = Loads!NoOp THEN rest ELSE Append(rest, op)
  <2>1. rest \in Seq(Loads!Op \ {Loads!NoOp})
    BY <1>1, <1>2
  <2>2. rest \o << >> = rest /\ rest \o <<op>> = Append(rest, op)
    BY <2>1
  <2> QED
    BY <2>2 DEF Loads!Owed
<1>11. Answered'
  <2>1. b.ack => Head(issued) = issued[1] /\ issued[1] # Loads!NoOp /\ issued[1].we = mem.we
                 /\ Head(devs) = issued[1]
    BY <1>1, <1>2, SMTT(30) DEF OnTheBus
  <2>2. b.ack => mem.fifo_oreg[mem.rdaddr] = issued[1].id
    <3>1. Wrap(mem.rdaddr + 1 - 1) = mem.rdaddr
      BY <1>1 DEF Wrap
    <3> QED
      BY <1>1, <1>2, <3>1 DEF Ring
  <2>3. due' = IF b.ack THEN issued[1] ELSE Loads!NoOp
    BY <2>1 DEF Loads!Owed
  <2>4. \A l \in lock'.held : Loads!CycOf(l)'
    <3>1. lock'.held = IF b.err \/ ~i_lock THEN {} ELSE {l \in BOOLEAN : Loads!CycOf(l)}
      BY <1>4 DEF Loads!Locked
    <3>2. ASSUME NEW l \in BOOLEAN, ~b.err, i_lock, Loads!CycOf(l) PROVE Loads!CycOf(l)'
      <4>1. /\ mem'.lock_gbl = (~Loads!Failed(b) /\ i_lock /\ ((mem.cyc /\ mem.lcl = FALSE) \/ mem.lock_gbl))
            /\ mem'.lock_lcl = (~Loads!Failed(b) /\ i_lock /\ ((mem.cyc /\ mem.lcl = TRUE) \/ mem.lock_lcl))
        BY DEF Loads!Registers
      <4>2. CASE l = TRUE
        BY <1>4, <3>2, <4>1, <4>2, ZenonT(30) DEF Loads!CycOf
      <4>3. CASE l = FALSE
        BY <1>4, <3>2, <4>1, <4>3, ZenonT(30) DEF Loads!CycOf
      <4> QED
        BY <4>2, <4>3
    <3> QED
      BY <3>1, <3>2
  <2> QED
    BY <1>2, <1>8, <1>9, <2>1, <2>2, <2>3, <2>4 DEF Answered
<1>12. CASE b.err
  <2>1. /\ issued' = << >> /\ devs' = << >> /\ ~mem'.cyc /\ ~mem'.stb
        /\ mem'.rdaddr = 0 /\ mem'.wraddr = 0
    BY <1>2, <1>4, <1>6, <1>7, <1>8, <1>10, <1>12 DEF Loads!Devices, Loads!rdaddr, Loads!wraddr
  <2>2. LoadsTypes'
    BY <1>1, <1>2, <1>6, <1>7, <1>8, <2>1 DEF LoadsTypes, Loads!Op, Loads!NoOp
  <2>3. Ring'
    BY <1>1, <2>1 DEF Ring, Wrap
  <2>4. OnTheBus'
    BY <2>1 DEF OnTheBus
  <2> QED
    BY <1>11, <2>2, <2>3, <2>4
<1>13. CASE ~b.err
  <2>1. rest \in Seq(Loads!Op \ {Loads!NoOp}) /\ Len(rest) = n - a
        /\ \A i \in 1 .. n - a : rest[i] = issued[i + a]
    BY <1>1, <1>2
  <2>2. /\ issued' \in Seq(Loads!Op \ {Loads!NoOp})
        /\ Len(issued') = IF op = Loads!NoOp THEN n - a ELSE n - a + 1
        /\ \A i \in 1 .. n - a : issued'[i] = issued[i + a]
        /\ op # Loads!NoOp => issued'[n - a + 1] = op
    <3>1. PICK r \in Seq(Loads!Op \ {Loads!NoOp}) : r = rest /\ Len(r) = n - a
      BY <2>1
    <3>2. issued' = IF op = Loads!NoOp THEN r ELSE Append(r, op)
      BY <1>10, <1>13, <3>1, ZenonT(30)
    <3>3. \A i \in 1 .. Len(r) : r[i] = issued[i + a]
      BY <2>1, <3>1
    <3>4. op # Loads!NoOp => op \in Loads!Op \ {Loads!NoOp}
      OBVIOUS
    <3> HIDE DEF n, a, rest
    <3>5. CASE op = Loads!NoOp
      BY <3>1, <3>2, <3>3, <3>5
    <3>6. CASE op # Loads!NoOp
      BY <3>1, <3>2, <3>3, <3>4, <3>6
    <3> QED
      BY <3>5, <3>6
  <2>3. /\ mem'.rdaddr = Wrap(mem.rdaddr + a) 
        /\ mem'.wraddr = IF op # Loads!NoOp THEN Wrap(mem.wraddr + 1) ELSE mem.wraddr
    BY <1>1, <1>2, <1>4, <1>8, <1>13, Fill, SMTT(30) DEF Loads!rdaddr, Loads!wraddr, Loads!N, Wrap
  <2>4. Ring'
    <3>1. op # Loads!NoOp /\ mem.cyc => n < OPT_MAXDEPTH
      BY <1>1, <1>5 DEF Ring
    <3>2. ~mem.cyc => n = 0 /\ a = 0
      BY <1>1, <1>2 DEF OnTheBus
    <3>3. Len(issued') <= OPT_MAXDEPTH /\ (Len(issued') = OPT_MAXDEPTH => mem'.fifo_full)
      BY <1>1, <1>2, <1>9, <1>13, <2>2, <3>1, <3>2
    <3>4. mem'.wraddr = Wrap(mem'.rdaddr + Len(issued'))
      <4>1. /\ mem.wraddr = Wrap(mem'.rdaddr + (n - a))
            /\ Wrap(mem.wraddr + 1) = Wrap(mem'.rdaddr + (n - a + 1))
        <5>1. a <= n
          BY <1>1, <1>2
        <5> QED
          BY <1>1, <2>3, <5>1, RingMoves
      <4> QED
        BY <2>2, <2>3, <4>1
    <3>5. ASSUME NEW i \in 1 .. Len(issued')
          PROVE  mem'.fifo_oreg[Wrap(mem'.rdaddr + i - 1)] = issued'[i].id
      <4>1. Wrap(mem'.rdaddr + i - 1) = Wrap(mem.rdaddr + (i + a) - 1)
            /\ Wrap(mem.rdaddr + (i + a) - 1) \in 0 .. Entries - 1
        <5>1. i + a <= Entries /\ i \in 1 .. Entries
          BY <1>1, <1>2, <2>2, <3>1, <3>2, SMTT(30)
        <5>2. a \in {0, 1}
          BY <1>1
        <5>3. \A x \in {0, 1}, k \in 1 .. Entries : k + x <= Entries =>
                 /\ Wrap(Wrap(mem.rdaddr + x) + k - 1) = Wrap(mem.rdaddr + (k + x) - 1)
                 /\ Wrap(mem.rdaddr + (k + x) - 1) \in 0 .. Entries - 1
          BY RingMoves
        <5>4. /\ Wrap(Wrap(mem.rdaddr + a) + i - 1) = Wrap(mem.rdaddr + (i + a) - 1)
              /\ Wrap(mem.rdaddr + (i + a) - 1) \in 0 .. Entries - 1
          BY <5>1, <5>2, <5>3, ZenonT(30)
        <5> QED
          BY <2>3, <5>4, ZenonT(30)
      <4>2. CASE i <= n - a
        <5>1. i + a \in 1 .. n
          BY <1>1, <4>2
        <5>3. mem.fifo_oreg[Wrap(mem.rdaddr + (i + a) - 1)] = issued[i + a].id
          BY <5>1 DEF Ring
        <5>2. Wrap(mem.rdaddr + (i + a) - 1) # mem.wraddr
          BY <5>1, RingMoves, SMTT(30)
        <5> QED
          BY <1>8, <2>2, <4>1, <4>2, <5>2, <5>3, SMTT(30) DEF LoadsTypes
      <4>3. CASE op # Loads!NoOp /\ i = n - a + 1
        <5>1. Wrap(mem.rdaddr + (i + a) - 1) = mem.wraddr
          BY <1>1, <4>3 DEF Ring
        <5> QED
          BY <1>1, <1>8, <2>2, <4>1, <4>3, <5>1, SMTT(30) DEF LoadsTypes
      <4> QED
        BY <1>1, <2>2, <4>2, <4>3
    <3> QED
      BY <3>3, <3>4, <3>5 DEF Ring
  <2>5. OnTheBus'
    <3>1. mem'.cyc <=> issued' # << >>
      <4>1. mem.cyc <=> n > 0
        BY <1>1 DEF OnTheBus
      <4>2. issued' # << >> <=> Len(issued') > 0
        BY <2>2
      <4>3. Len(issued') > 0 <=> n - a > 0 \/ op # Loads!NoOp
        BY <1>1, <1>2, <2>2
      <4> QED
        <5>1. mem.cyc => n > 0
          BY <4>1
        <5>2. CASE mem.cyc
          <6>1. n - a > 0 <=> ~(b.ack /\ n = 1)
            <7>1. n \in Nat /\ n > 0
              BY <1>1, <5>1, <5>2
            <7>2. CASE b.ack
              <8>1. ASSUME NEW k \in Nat, k > 0 PROVE k - 1 > 0 <=> k # 1
                BY <8>1
              <8>2. a = 1
                BY <7>2
              <8> HIDE DEF n, a
              <8> QED
                BY <7>1, <7>2, <8>1, <8>2
            <7>3. CASE ~b.ack
              BY <7>1, <7>3
            <7> QED
              BY <7>2, <7>3
          <6>2. mem'.cyc <=> ~(b.ack /\ n = 1 /\ op = Loads!NoOp)
            BY <1>6, <1>13, <5>2
          <6> HIDE DEF a, n
          <6> QED
            BY <4>2, <4>3, <6>1, <6>2
        <5>3. CASE ~mem.cyc
          BY <1>1, <1>2, <1>6, <4>1, <4>2, <4>3, <5>3
        <5> QED
          BY <5>2, <5>3
    <3>2. ASSUME NEW i \in 1 .. Len(issued')
          PROVE  issued'[i].we = mem'.we /\ issued'[i].lcl = mem'.lcl
      <4>1. ~mem.cyc => n = 0 /\ a = 0
        BY <1>1, <1>2 DEF OnTheBus
      <4>2. CASE i <= n - a
        <5>1. i + a \in 1 .. n /\ mem.cyc
          BY <1>1, <4>1, <4>2
        <5> QED
          BY <1>8, <2>2, <4>2, <5>1 DEF OnTheBus
      <4>3. CASE op # Loads!NoOp /\ i = n - a + 1
        BY <1>5, <1>8, <2>2, <4>3
      <4> QED
        BY <1>1, <2>2, <4>2, <4>3
    <3>3. devs' = IF mem.stb /\ ~b.stall THEN Append(IF b.ack THEN Tail(devs) ELSE devs, mem.req)
                  ELSE IF b.ack THEN Tail(devs) ELSE devs
      BY <1>13 DEF Loads!Devices
    <3>4. IF mem'.stb THEN issued' = Append(devs', mem'.req) ELSE issued' = devs'
      <4>1. CASE ~mem.cyc
        BY <1>1, <1>2, <1>7, <1>8, <1>10, <1>13, <3>3, <4>1 DEF OnTheBus
      <4>2. CASE mem.cyc /\ ~mem.stb
        BY <1>1, <1>2, <1>5, <1>7, <1>8, <1>10, <1>13, <3>3, <4>2 DEF OnTheBus
      <4>3. CASE mem.cyc /\ mem.stb
        <5>1. /\ issued = Append(devs, mem.req) /\ (b.ack => n > 1)
              /\ rest = Append(IF b.ack THEN Tail(devs) ELSE devs, mem.req)
          <6>1. issued = Append(devs, mem.req)
            BY <4>3 DEF OnTheBus
          <6>2. b.ack => /\ Len(devs) > 0 /\ n = Len(devs) + 1
                         /\ Tail(Append(devs, mem.req)) = Append(Tail(devs), mem.req)
            BY <1>1, <1>2, <6>1
          <6> QED
            BY <1>1, <6>1, <6>2
        <5> QED
          <6>1. CASE b.stall
            BY <1>1, <1>5, <1>7, <1>8, <1>10, <1>13, <3>3, <4>3, <5>1, <6>1
          <6>2. CASE ~b.stall
            <7>1. devs' = rest
              BY <3>3, <4>3, <5>1, <6>2
            <7>2. mem'.req = op /\ (mem'.stb <=> op # Loads!NoOp)
              BY <1>1, <1>7, <1>8, <1>13, <4>3, <5>1, <6>2
            <7> QED
              BY <1>10, <1>13, <7>1, <7>2
          <6> QED
            BY <1>1, <6>1, <6>2
      <4> QED
        BY <4>1, <4>2, <4>3
    <3> QED
      BY <3>1, <3>2, <3>4 DEF OnTheBus
  <2>6. LoadsTypes'
    <3>1. devs' \in Seq(Loads!Op)
      <4>1. mem.stb => mem.req \in Loads!Op
        <5>1. mem.stb => Len(issued) > 0 /\ mem.req = issued[Len(issued)]
          BY <1>1 DEF OnTheBus
        <5> QED
          BY <1>1, <5>1
      <4>2. (IF b.ack THEN Tail(devs) ELSE devs) \in Seq(Loads!Op)
        BY <1>1, <1>2
      <4> QED
        BY <1>13, <4>1, <4>2 DEF Loads!Devices
    <3>2. mem'.rdaddr \in 0 .. Entries - 1 /\ mem'.wraddr \in 0 .. Entries - 1
      BY <1>1, <2>3, SMTT(30) DEF Wrap
    <3>3. mem'.we \in BOOLEAN /\ mem'.lcl \in BOOLEAN /\ op.id \in Ids \cup {"none"}
      BY <1>8 DEF LoadsTypes, Loads!Op, Loads!NoOp
    <3>4. mem'.fifo_oreg \in [0 .. Entries - 1 -> Ids \cup {"none"}]
      BY <1>8, <3>3 DEF LoadsTypes
    <3> QED
      BY <1>6, <1>7, <2>2, <3>1, <3>2, <3>3, <3>4 DEF LoadsTypes
  <2> QED
    BY <1>11, <2>4, <2>5, <2>6
<1> QED
  BY <1>12, <1>13

LEMMA LoadsStep ==
  ASSUME LoadsTypes, Ring, OnTheBus, Answered, Loads!Next
  PROVE  LoadsTypes' /\ Ring' /\ OnTheBus' /\ Answered'
<1>1. CASE Loads!Clock
  BY <1>1, LoadsClock DEF Loads!Clock
<1>2. CASE Loads!Reset
  <2>1. /\ issued' = << >> /\ devs' = << >> /\ due' = Loads!NoOp /\ lock'.held = {}
        /\ mem' = [mem EXCEPT !.cyc = FALSE, !.stb = FALSE, !.rdaddr = 0, !.wraddr = 0,
                     !.fifo_full = FALSE, !.o_valid = FALSE, !.o_err = FALSE,
                     !.lock_gbl = FALSE, !.lock_lcl = FALSE]
    BY <1>2 DEF Loads!Reset
  <2>3. /\ mem'.cyc = FALSE /\ mem'.stb = FALSE /\ mem'.rdaddr = 0 /\ mem'.wraddr = 0
        /\ mem'.o_valid = FALSE /\ mem'.we = mem.we /\ mem'.lcl = mem.lcl
        /\ mem'.fifo_oreg = mem.fifo_oreg
    BY <2>1 DEF LoadsTypes
  <2> QED
    BY <2>1, <2>3, DepthAssumption DEF LoadsTypes, Ring, Wrap, OnTheBus, Answered
<1> QED
  BY <1>1, <1>2 DEF Loads!Next

(***************************************************************************)
(* A load returns its word to its own register, and nothing that was       *)
(* issued is lost or answered twice (pipemem.v).                           *)
(***************************************************************************)
THEOREM LoadsAnswered == BoardSpec => []LoadsReturn
<1>1. BoardInit => LoadsInv
  <2> SUFFICES ASSUME Loads!Init PROVE LoadsTypes /\ Ring /\ OnTheBus /\ Answered
    BY DEF BoardInit, LoadsInv
  <2>1. /\ issued = << >> /\ devs = << >> /\ due = Loads!NoOp /\ lock.held = {}
        /\ mem.cyc = FALSE /\ mem.stb = FALSE /\ mem.we = FALSE /\ mem.lcl = FALSE
        /\ mem.rdaddr = 0 /\ mem.wraddr = 0 /\ mem.o_valid = FALSE
        /\ mem.fifo_oreg = [i \in 0 .. Entries - 1 |-> "none"]
    BY DEF Loads!Init, Loads!NoOp, Loads!N
  <2>2. LoadsTypes
    <3>1. mem.cyc \in BOOLEAN /\ mem.stb \in BOOLEAN /\ mem.we \in BOOLEAN /\ mem.lcl \in BOOLEAN
      BY <2>1
    <3>2. mem.rdaddr \in 0 .. Entries - 1 /\ mem.wraddr \in 0 .. Entries - 1
      BY <2>1, DepthAssumption
    <3>3. mem.fifo_oreg \in [0 .. Entries - 1 -> Ids \cup {"none"}]
      BY <2>1
    <3>4. issued \in Seq(Loads!Op \ {Loads!NoOp}) /\ devs \in Seq(Loads!Op)
      BY <2>1
    <3> QED
      BY <3>1, <3>2, <3>3, <3>4 DEF LoadsTypes
  <2>3. Len(issued) = 0
    BY <2>1
  <2>4. Ring
    <3>1. 0 < OPT_MAXDEPTH /\ 0 < Entries
      BY DepthAssumption
    <3>2. Wrap(mem.rdaddr + Len(issued)) = 0
      BY <2>1, <2>3, <3>1 DEF Wrap
    <3>3. OPT_MAXDEPTH \in Nat /\ Len(issued) # OPT_MAXDEPTH /\ Len(issued) <= OPT_MAXDEPTH
      BY <2>3, <3>1, DepthAssumption
    <3>4. \A i \in 1 .. Len(issued) : mem.fifo_oreg[Wrap(mem.rdaddr + i - 1)] = issued[i].id
      BY <2>3
    <3>5. mem.wraddr = Wrap(mem.rdaddr + Len(issued))
      BY <2>1, <3>2
    <3> QED
      BY <3>3, <3>4, <3>5 DEF Ring
  <2>5. OnTheBus
    <3>1. mem.cyc <=> issued # << >>
      BY <2>1
    <3>2. \A i \in 1 .. Len(issued) : issued[i].we = mem.we /\ issued[i].lcl = mem.lcl
      BY <2>3
    <3> QED
      BY <2>1, <3>1, <3>2 DEF OnTheBus
  <2>6. Answered
    BY <2>1 DEF Answered
  <2> QED
    BY <2>2, <2>4, <2>5, <2>6
<1>2. LoadsInv /\ [BoardNext]_boardvars => LoadsInv'
  <2> SUFFICES ASSUME LoadsInv, [BoardNext]_boardvars, part = "loads" PROVE LoadsInv'
    BY DEF BoardNext, boardvars, LoadsInv
  <2>1. CASE LoadsRun
    BY <2>1, LoadsStep DEF LoadsRun, LoadsInv
  <2>2. CASE UNCHANGED boardvars
    BY <2>2 DEF boardvars, loadsvars, LoadsInv, LoadsTypes, Ring, OnTheBus, Answered, Loads!CycOf
  <2> QED
    BY <2>1, <2>2 DEF BoardNext, LinkRuns, SdramRuns, MoverRuns, FetchRuns, TimersRun, IntsRun
<1>3. LoadsInv => LoadsReturn
  <2> SUFFICES ASSUME LoadsTypes, Ring, OnTheBus, Answered PROVE Loads!LoadsReturn
    BY DEF LoadsInv, LoadsReturn
  <2>1. Loads!Listed = [i \in DOMAIN issued |-> issued[i].id]
    <3>1. Loads!Listed = [i \in 1 .. Len(issued) |-> mem.fifo_oreg[(mem.rdaddr + i - 1) % Entries]]
      BY Fill DEF Loads!Listed, Loads!N
    <3>2. ASSUME NEW i \in 1 .. Len(issued)
          PROVE  mem.fifo_oreg[(mem.rdaddr + i - 1) % Entries] = issued[i].id
      <4>1. mem.rdaddr + i - 1 \in Nat /\ mem.rdaddr + i - 1 < 2 * Entries
        BY DepthAssumption DEF LoadsTypes, Ring
      <4> QED
        BY <4>1, Wraps DEF Ring
    <3>3. DOMAIN issued = 1 .. Len(issued)
      BY DEF LoadsTypes
    <3> QED
      BY <3>1, <3>2, <3>3
  <2>2. devs \o (IF mem.stb THEN <<mem.req>> ELSE << >>) = issued
    <3>1. devs \in Seq(Loads!Op) /\ (IF mem.stb THEN issued = Append(devs, mem.req) ELSE issued = devs)
      BY DEF OnTheBus, LoadsTypes
    <3>2. PICK r : r = mem.req
      OBVIOUS
    <3>3. devs \o << >> = devs /\ devs \o <<r>> = Append(devs, r)
      BY <3>1
    <3>4. CASE mem.stb
      BY <3>1, <3>2, <3>3, <3>4
    <3>5. CASE ~mem.stb
      BY <3>1, <3>3, <3>5
    <3> QED
      BY <3>4, <3>5
  <2>3. mem.o_valid = (due # Loads!NoOp /\ ~due.we)
    BY ZenonT(30) DEF Answered
  <2> QED
    BY <2>1, <2>2, <2>3 DEF Loads!LoadsReturn, Answered
<1> QED
  BY <1>1, <1>2, <1>3, PTL DEF BoardSpec

-----------------------------------------------------------------------------
(***************************************************************************)
(* The timer and the jiffies.  The timer is down to what is left, but for  *)
(* the tick after it rang, in which one that reloads itself stands at 0;   *)
(* the alarm that is set is the one the program waits for.                 *)
(***************************************************************************)
TimerCounts ==
  /\ tm.r_value \in Timers!Values /\ tm.r_reload_value \in Timers!Values
  /\ tm.r_zero <=> tm.r_value = 0
  /\ tm.r_value # 0 \/ tm.r_auto_reload => tm.r_running
  /\ tm.r_auto_reload => tm.r_reload_value # 0
  /\ left = IF tm.r_auto_reload /\ tm.r_value = 0 THEN tm.r_reload_value + 1 ELSE tm.r_value
  /\ again = IF tm.r_auto_reload THEN tm.r_reload_value + 1 ELSE 0

AlarmKept ==
  /\ jif.r_counter \in Timers!Jiffies /\ jif.new_when \in Timers!Jiffies
  /\ jif.int_when \in Timers!Jiffies
  /\ ~met => alarm = IF jif.int_set THEN jif.int_when ELSE Timers!NoAlarm

Rung ==
  /\ tm.o_int \in BOOLEAN /\ jif.o_int \in BOOLEAN
  /\ tm.o_int <=> "timer" \in rings
  /\ ~met => (jif.o_int <=> "jiffies" \in rings)

TimersInv == part = "timers" => TimerCounts /\ AlarmKept /\ Rung

LEMMA TickDown ==
  ASSUME NEW v \in Timers!Values, v # 0
  PROVE  (v + TimerMod - 1) % TimerMod = v - 1
<1>1. PICK u \in Nat : u = v - 1 /\ u < TimerMod
  BY TimerAssumption DEF Timers!Values
<1>2. (u + TimerMod) % TimerMod = u
  <2>1. \A x \in Nat : TimerMod <= x /\ x < 2 * TimerMod => x % TimerMod = x - TimerMod
    BY TimerAssumption, SMT
  <2> QED
    BY <1>1, <2>1, TimerAssumption
<1> QED
  BY <1>1, <1>2, TimerAssumption DEF Timers!Values

LEMMA TillInt == ASSUME AlarmKept, NEW w \in Timers!Jiffies PROVE Timers!Till(w) \in Int
<1>1. PICK J \in Nat \ {0} : J = Timers!JifMod
  BY TimerAssumption DEF Timers!JifMod
<1>2. PICK d \in Int : d = (w - jif.r_counter + J) % J
  BY <1>1 DEF AlarmKept, Timers!Jiffies
<1> QED
  BY <1>1, <1>2 DEF Timers!Till

LEMMA TimerClock ==
  ASSUME TimerCounts, NEW w \in Timers!Writes \cup {Timers!NoWrite}, NEW ce \in BOOLEAN,
         Timers!Timer(w, ce), Timers!Expects(w, ce)
  PROVE  TimerCounts' /\ tm'.o_int \in BOOLEAN /\ (tm'.o_int <=> "timer" \in rings')
<1> DEFINE ringing == w.to # "timer" /\ ce /\ left = 1
<1>1. "timer" \in rings' <=> ringing
  BY DEF Timers!Expects
<1>2. /\ left' = IF w.to = "timer" THEN w.val
                 ELSE IF ringing THEN again ELSE IF ce /\ left > 0 THEN left - 1 ELSE left
      /\ again' = IF w.to # "timer" THEN again
                  ELSE IF w.auto /\ w.val # 0 THEN w.val + 1 ELSE 0
  BY DEF Timers!Expects
<1>3. left = 1 <=> tm.r_value = 1
  BY DEF TimerCounts, Timers!Values
<1>4. CASE w.to = "timer"
  <2>1. w.val \in Timers!Values
    BY <1>4 DEF Timers!Writes, Timers!NoWrite
  <2>2. /\ tm'.r_running <=> w.val # 0
        /\ tm'.r_auto_reload <=> w.auto /\ w.val # 0
        /\ tm'.r_zero <=> w.val = 0
        /\ tm'.o_int = FALSE
    BY <1>4, ZenonT(30) DEF Timers!Timer
  <2>3. tm'.r_reload_value = w.val /\ tm'.r_value = w.val
    BY <1>4 DEF Timers!Timer
  <2> QED
    BY <1>1, <1>2, <1>4, <2>1, <2>2, <2>3 DEF TimerCounts, Timers!Values
<1>5. CASE w.to # "timer"
  <2> DEFINE runs == tm.r_running /\ ~(tm.r_zero /\ ~tm.r_auto_reload)
             rang == ce /\ tm.r_value = 1
  <2>1. /\ tm'.r_running <=> runs
        /\ tm'.r_auto_reload <=> tm.r_auto_reload
        /\ tm'.r_zero <=> Timers!r_zero(ce)
        /\ tm'.o_int <=> rang
        /\ tm'.o_int \in BOOLEAN
    <3>1. tm' = [tm EXCEPT !.r_running = runs, !.r_value = Timers!r_value(ce),
                           !.r_zero = Timers!r_zero(ce), !.o_int = rang]
      BY <1>5 DEF Timers!Timer
    <3>2. rang \in BOOLEAN
      OBVIOUS
    <3> HIDE DEF runs, rang
    <3> QED
      BY <3>1, <3>2
  <2>2. tm'.r_reload_value = tm.r_reload_value /\ tm'.r_value = Timers!r_value(ce)
    BY <1>5 DEF Timers!Timer
  <2>3. tm'.r_value = IF ~(ce /\ tm.r_running) THEN tm.r_value
                      ELSE IF tm.r_value # 0 THEN tm.r_value - 1
                      ELSE IF tm.r_auto_reload THEN tm.r_reload_value ELSE 0
    BY <2>2, TickDown DEF TimerCounts, Timers!r_value
  <2>4. tm'.r_zero <=> tm'.r_value = 0
    BY <2>1, <2>3 DEF TimerCounts, Timers!r_zero, Timers!Values
  <2>5. tm'.r_value \in Timers!Values
    BY <2>3, TimerAssumption DEF TimerCounts, Timers!Values
  <2>6. /\ tm'.r_value # 0 \/ tm'.r_auto_reload => tm'.r_running
        /\ tm'.r_auto_reload => tm'.r_reload_value # 0
    BY <2>1, <2>2, <2>3 DEF TimerCounts
  <2>7. /\ left' = IF tm'.r_auto_reload /\ tm'.r_value = 0 THEN tm'.r_reload_value + 1
                   ELSE tm'.r_value
        /\ again' = IF tm'.r_auto_reload THEN tm'.r_reload_value + 1 ELSE 0
    BY <1>2, <1>5, <2>1, <2>2, <2>3 DEF TimerCounts, Timers!Values
  <2> QED
    BY <1>1, <1>3, <1>5, <2>1, <2>2, <2>4, <2>5, <2>6, <2>7 DEF TimerCounts
<1> QED
  BY <1>4, <1>5

LEMMA JifClock ==
  ASSUME AlarmKept,
         NEW w \in Timers!Writes \cup {Timers!NoWrite}, NEW ce \in BOOLEAN,
         Timers!Jif(w, ce), Timers!Expects(w, ce)
  PROVE  AlarmKept' /\ jif'.o_int \in BOOLEAN /\ (~met' => (jif'.o_int <=> "jiffies" \in rings'))
<1> DEFINE asks == jif.new_set /\ Timers!Till(jif.new_when) > 0
           reached == ce /\ alarm = jif.r_counter
           kept == IF reached THEN Timers!NoAlarm ELSE alarm
           nearer == asks /\ (kept = Timers!NoAlarm \/ Timers!Till(jif.new_when) < Timers!Till(kept))
<1>1. /\ alarm' = IF nearer THEN jif.new_when ELSE kept
      /\ "jiffies" \in rings' <=> reached \/ (jif.new_set /\ ~asks)
      /\ ~met' => ~met /\ ~(asks /\ reached)
  BY DEF Timers!Expects
<1>2. ~met => (reached <=> Timers!Meets(ce) /\ jif.int_set)
  BY DEF AlarmKept, Timers!Meets, Timers!NoAlarm, Timers!Jiffies
<1>3. jif.new_set => (~asks <=> Timers!Till(jif.new_when) <= 0)
  BY TillInt DEF AlarmKept
<1>4. ~met' => ~met /\ ~(asks /\ reached)
  BY <1>1
<1>5. /\ jif'.int_set <=> asks \/ (jif.int_set /\ ~Timers!Meets(ce))
      /\ jif'.o_int <=> (Timers!Meets(ce) /\ jif.int_set)
                        \/ (jif.new_set /\ Timers!Till(jif.new_when) <= 0)
      /\ jif'.o_int \in BOOLEAN
  BY ZenonT(30) DEF Timers!Jif
<1>6. /\ jif'.int_when = IF asks /\ (~jif.int_set \/ Timers!Till(jif.new_when) < Timers!Till(jif.int_when))
                         THEN jif.new_when ELSE jif.int_when
      /\ jif'.r_counter = IF ce THEN (jif.r_counter + 1) % Timers!JifMod ELSE jif.r_counter
      /\ jif'.new_when = IF w.to = "jiffies" THEN w.val ELSE 0
  BY DEF Timers!Jif
<1>7. ASSUME ~met' PROVE alarm' = IF jif'.int_set THEN jif'.int_when ELSE Timers!NoAlarm
  <2> USE <1>4, <1>7
  <2>1. alarm = Timers!NoAlarm <=> ~jif.int_set
    BY DEF AlarmKept, Timers!NoAlarm, Timers!Jiffies
  <2>2. CASE reached
    BY <1>1, <1>2, <1>4, <1>5, <1>6, <2>1, <2>2 DEF AlarmKept
  <2>3. CASE ~reached
    BY <1>1, <1>2, <1>5, <1>6, <2>1, <2>3 DEF AlarmKept
  <2> QED
    BY <2>2, <2>3
<1>8. jif'.r_counter \in Timers!Jiffies /\ jif'.new_when \in Timers!Jiffies
      /\ jif'.int_when \in Timers!Jiffies
  <2>1. PICK J \in Nat \ {0} : J = Timers!JifMod
    BY TimerAssumption DEF Timers!JifMod
  <2>2. \A x \in Nat : x % J \in 0 .. J - 1
    BY <2>1, SMT
  <2>3. w.to = "jiffies" => w.val \in Timers!Jiffies
    BY DEF Timers!Writes, Timers!NoWrite
  <2> QED
    BY <1>6, <2>1, <2>2, <2>3 DEF AlarmKept, Timers!Jiffies
<1> QED
  BY <1>1, <1>2, <1>3, <1>4, <1>5, <1>7, <1>8 DEF AlarmKept

(***************************************************************************)
(* A timer rings when it should and only then, and so do the jiffies       *)
(* (ziptimer.v, zipjiffies.v) until an alarm is set in the clock in which  *)
(* another rings.                                                          *)
(***************************************************************************)
THEOREM TimersRing == BoardSpec => []RingsInTime
<1>1. BoardInit => TimersInv
  <2> SUFFICES ASSUME Timers!Init PROVE TimerCounts /\ AlarmKept /\ Rung
    BY DEF BoardInit, TimersInv
  <2>1. /\ tm.r_running = FALSE /\ tm.r_auto_reload = FALSE /\ tm.r_reload_value = 0
        /\ tm.r_value = 0 /\ tm.r_zero = TRUE /\ tm.o_int = FALSE
        /\ left = 0 /\ again = 0 /\ alarm = Timers!NoAlarm /\ rings = {} /\ met = FALSE
        /\ jif.r_counter = 0 /\ jif.new_when = 0 /\ jif.int_when = 0 /\ jif.int_set = FALSE
        /\ jif.o_int = FALSE
    BY DEF Timers!Init
  <2>2. 0 \in Timers!Values /\ 0 \in Timers!Jiffies
    BY TimerAssumption DEF Timers!Values, Timers!Jiffies, Timers!JifMod
  <2>3. TimerCounts
    BY <2>1, <2>2 DEF TimerCounts
  <2>4. AlarmKept
    BY <2>1, <2>2 DEF AlarmKept
  <2>5. Rung
    BY <2>1 DEF Rung
  <2> QED
    BY <2>3, <2>4, <2>5
<1>2. TimersInv /\ [BoardNext]_boardvars => TimersInv'
  <2> SUFFICES ASSUME TimersInv, [BoardNext]_boardvars, part = "timers" PROVE TimersInv'
    BY DEF BoardNext, boardvars, TimersInv
  <2>1. TimerCounts /\ AlarmKept /\ Rung
    BY DEF TimersInv
  <2>2. ASSUME TimersRun, Timers!Clock PROVE TimersInv'
    <3>1. PICK w \in Timers!Writes \cup {Timers!NoWrite}, ce \in BOOLEAN :
            Timers!Timer(w, ce) /\ Timers!Jif(w, ce) /\ Timers!Expects(w, ce)
      BY <2>2 DEF Timers!Clock
    <3>2. TimerCounts' /\ tm'.o_int \in BOOLEAN /\ (tm'.o_int <=> "timer" \in rings')
      BY <2>1, <3>1, TimerClock
    <3>3. AlarmKept' /\ jif'.o_int \in BOOLEAN /\ (~met' => (jif'.o_int <=> "jiffies" \in rings'))
      BY <2>1, <3>1, JifClock
    <3> QED
      BY <3>2, <3>3 DEF TimersInv, Rung
  <2>3. ASSUME TimersRun, Timers!Reset PROVE TimersInv'
    <3>1. /\ tm'.r_running = FALSE /\ tm'.r_auto_reload = FALSE
          /\ tm'.r_reload_value = tm.r_reload_value
          /\ tm'.r_value = 0 /\ tm'.r_zero = TRUE /\ tm'.o_int = FALSE
          /\ left' = 0 /\ again' = 0 /\ alarm' = Timers!NoAlarm /\ rings' = {} /\ met' = FALSE
          /\ jif'.r_counter = 0 /\ jif'.new_when = 0 /\ jif'.int_when = jif.int_when
          /\ jif'.int_set = FALSE /\ jif'.o_int = FALSE
      BY <2>3 DEF Timers!Reset
    <3>2. TimerCounts'
      BY <2>1, <3>1, TimerAssumption DEF TimerCounts, Timers!Values
    <3>3. AlarmKept'
      BY <2>1, <3>1, TimerAssumption DEF AlarmKept, Timers!Jiffies, Timers!JifMod
    <3> QED
      BY <3>1, <3>2, <3>3 DEF TimersInv, Rung
  <2>4. CASE UNCHANGED boardvars
    BY <2>1, <2>4 DEF boardvars, timervars, TimersInv, TimerCounts, AlarmKept, Rung
  <2> QED
    BY <2>2, <2>3, <2>4 DEF BoardNext, LinkRuns, SdramRuns, MoverRuns, FetchRuns, LoadsRun,
      TimersRun, IntsRun, Timers!Next
<1>3. TimersInv => RingsInTime
  <2> SUFFICES ASSUME Rung PROVE Timers!RingsInTime
    BY DEF TimersInv, RingsInTime
  <2>1. ASSUME NEW o \in BOOLEAN, NEW P \in BOOLEAN, o <=> P PROVE o = P
    BY <2>1
  <2>2. ("timer" \in rings) \in BOOLEAN /\ ("jiffies" \in rings) \in BOOLEAN
    OBVIOUS
  <2> QED
    BY <2>1, <2>2 DEF Rung, Timers!RingsInTime
<1> QED
  BY <1>1, <1>2, <1>3, PTL DEF BoardSpec

-----------------------------------------------------------------------------
(***************************************************************************)
(* AnsweredInTime: on the board, too, the SDRAM answers each request once, *)
(* refreshes in time and lets no request wait longer than F_MAX_STALL.     *)
(***************************************************************************)
THEOREM SdramAnswersInTime == BoardSpec => []AnsweredInTime
<1>1. BoardInit => Init
  BY DEF BoardInit
<1>2. [BoardNext]_boardvars => [Next]_vars
  <2> SUFFICES ASSUME [BoardNext]_boardvars PROVE [Next]_vars
    OBVIOUS
  <2> QED
    BY DEF BoardNext, boardvars, sdramvars, LinkRuns, SdramRuns, MoverRuns, FetchRuns, LoadsRun,
           TimersRun, IntsRun
<1>3. BoardSpec => Spec
  BY <1>1, <1>2, PTL DEF BoardSpec, Spec
<1>4. OneAnswerEach /\ RefreshInTime /\ StallBounded => AnsweredInTime
  BY DEF AnsweredInTime
<1> QED
  BY <1>3, <1>4, EachAnsweredOnce, RefreshesInTime, TakenInTime, PTL

-----------------------------------------------------------------------------
(***************************************************************************)
(* The DMA controller.  d are its registers, p what the devices owe it, j  *)
(* the transfer and o what was written.  Word k of a transfer is read at   *)
(* MvSrc and written at MvDst.                                             *)
(***************************************************************************)
MvSrc(j, k) == IF j.incs THEN k ELSE 0
MvDst(j, k) == IF j.incd THEN k ELSE 0

MvTypes(d, p, y, j, o) ==
  /\ d.dma_state \in {"IDLE", "WAIT", "READ_REQ", "READ_ACK", "PRE_WRITE", "WRITE_REQ", "WRITE_ACK"}
  /\ d.cfg_len \in 0 .. MaxMove /\ d.cfg_blocklen_sub_one \in 0 .. Block - 1
  /\ d.nread \in 0 .. 2 * Block - 1 /\ d.nracks \in 0 .. 2 * Block - 1
  /\ d.nwritten \in 0 .. 2 * Block - 1 /\ d.nwacks \in 0 .. 2 * Block - 1
  /\ d.rdaddr \in 0 .. Block - 1 /\ d.cfg_raddr \in Nat /\ d.cfg_waddr \in Nat /\ d.addr \in Nat
  /\ d.dma_mem \in [0 .. Block - 1 -> Nat]
  /\ d.cfg_incs \in BOOLEAN /\ d.cfg_incd \in BOOLEAN
  /\ d.last_read_request \in BOOLEAN /\ d.last_read_ack \in BOOLEAN
  /\ d.last_write_request \in BOOLEAN /\ d.last_write_ack \in BOOLEAN
  /\ d.trigger \in BOOLEAN /\ d.o_interrupt \in BOOLEAN /\ d.cfg_err \in BOOLEAN
  /\ p \in Seq(Nat) /\ o \in Seq(Nat \X Nat)
  /\ j.at \in {"src", "dst", "go", "on"} /\ j.len \in 0 .. MaxMove
  /\ j.incs \in BOOLEAN /\ j.incd \in BOOLEAN

\* What the delay holds is the youngest of what is owed, its answer is to the
\* oldest; an error leaves nothing owed, and nothing is left between two cycles.
MvHeld(p, y) ==
  /\ y.granted \in BOOLEAN /\ y.o_wb_ack \in BOOLEAN /\ y.o_wb_err \in BOOLEAN
  /\ y.held \in 0 .. 2
  /\ Len(p) >= y.held + (IF y.o_wb_ack THEN 1 ELSE 0)
  /\ y.o_wb_err => p = << >>
  /\ p # << >> => y.granted

MvDelay(d, p, y) ==
  /\ MvHeld(p, y)
  /\ d.dma_state \in {"WAIT", "PRE_WRITE"} => p = << >> /\ ~y.o_wb_err

\* What the program has set so far, and what was written.
MvJob(d, p, y, j, o) ==
  /\ j.at # "on" => d.dma_state = "IDLE" /\ o = << >> /\ d.cfg_len = j.len
  /\ j.at \in {"dst", "go"} => d.cfg_raddr = 0
  /\ j.at = "go" => d.cfg_waddr = 0
  /\ d.dma_state # "IDLE" => d.cfg_incs = j.incs /\ d.cfg_incd = j.incd
  /\ \A i \in 1 .. Len(o) : o[i] = <<MvDst(j, i - 1), MvSrc(j, i - 1)>>
  /\ j.at = "on" => Len(o) + d.cfg_len >= j.len
  /\ d.o_interrupt /\ ~d.cfg_err => Len(o) = j.len

MvWaits(d, p, y, j, o) ==
  d.dma_state = "WAIT" =>
    /\ Len(o) + d.cfg_len = j.len /\ d.cfg_len >= 1
    /\ d.cfg_raddr = MvSrc(j, Len(o)) /\ d.cfg_waddr = MvDst(j, Len(o))
    /\ d.trigger => d.nread = 0 /\ d.nracks = 0 /\ d.rdaddr = 0

\* A block that is read: k words of it are in the buffer.
MvBuffer(d, j, o) ==
  /\ Len(o) + d.cfg_len = j.len /\ d.rdaddr = 0
  /\ d.cfg_raddr = MvSrc(j, Len(o) + d.nread) /\ d.cfg_waddr = MvDst(j, Len(o))
  /\ \A i \in 0 .. d.nread - 1 : d.dma_mem[i] = MvSrc(j, Len(o) + i)

MvReads(d, p, y, j, o) ==
  d.dma_state \in {"READ_REQ", "READ_ACK"} =>
    /\ MvBuffer(d, j, o)
    /\ d.nread <= d.nracks
    /\ d.nracks <= d.cfg_blocklen_sub_one + 1 /\ d.nracks <= d.cfg_len
    /\ ~y.o_wb_err => /\ Len(p) = d.nracks - d.nread
                      /\ \A i \in 1 .. Len(p) : p[i] = MvSrc(j, Len(o) + d.nread + i - 1)
    /\ d.dma_state = "READ_REQ" =>
         /\ d.nracks <= d.cfg_blocklen_sub_one /\ d.nracks + 1 <= d.cfg_len
         /\ ~d.last_read_request => /\ d.nracks < d.cfg_blocklen_sub_one
                                    /\ d.nracks + 1 < d.cfg_len
         /\ d.last_read_ack => d.nread >= d.cfg_blocklen_sub_one
         /\ d.addr = MvSrc(j, Len(o) + d.nracks)
    /\ d.dma_state = "READ_ACK" =>
         /\ d.nread < d.nracks
         /\ d.last_read_ack => d.nread + 1 = d.nracks
         /\ d.nread + 1 = d.nracks => d.last_read_ack \/ y.held >= 1 \/ y.o_wb_err

MvTurns(d, p, y, j, o) ==
  d.dma_state = "PRE_WRITE" =>
    MvBuffer(d, j, o) /\ d.nread >= 1 /\ d.nread <= Block /\ d.nread <= d.cfg_len

MvWrites(d, p, y, j, o) ==
  d.dma_state \in {"WRITE_REQ", "WRITE_ACK"} =>
    /\ Len(o) + d.cfg_len + d.nwacks = j.len + d.nwritten
    /\ Len(o) <= j.len /\ d.nread <= Block
    /\ d.nwacks <= d.nwritten
    /\ ~y.o_wb_err => Len(p) = d.nwritten - d.nwacks
    /\ d.nwritten <= d.nread /\ d.nwritten <= Len(o)
    /\ d.cfg_raddr = MvSrc(j, Len(o) - d.nwritten + d.nread)
    /\ d.cfg_waddr = MvDst(j, Len(o))
    /\ d.dma_state = "WRITE_REQ" =>
         /\ d.nwritten < d.nread /\ d.nread <= d.cfg_len + d.nwacks
         /\ d.last_write_request <=> d.nwritten + 1 = d.nread
         /\ d.addr = MvDst(j, Len(o)) /\ d.data = MvSrc(j, Len(o))
         /\ d.nwritten + 1 < Block => d.rdaddr = d.nwritten + 1
         /\ \A i \in 0 .. d.nread - 1 : d.dma_mem[i] = MvSrc(j, Len(o) - d.nwritten + i)
         /\ p # << >> => y.held >= 1
         /\ y.o_wb_ack => Len(p) >= 3
         /\ d.last_write_ack => d.nwritten - d.nwacks <= 2
    /\ d.dma_state = "WRITE_ACK" =>
         /\ d.nwritten = d.nread
         /\ d.last_write_ack => \/ d.nwacks + 1 = d.nwritten
                                \/ d.nwacks + 2 = d.nwritten /\ ~y.o_wb_ack

MvInv(d, p, y, j, o) ==
  /\ MvTypes(d, p, y, j, o) /\ MvJob(d, p, y, j, o)
  /\ MvDelay(d, p, y)
  /\ MvWaits(d, p, y, j, o) /\ MvReads(d, p, y, j, o) /\ MvTurns(d, p, y, j, o) /\ MvWrites(d, p, y, j, o)

\* A clock of the controller, as in Clock of WbDma.
MvTick(w, b, dev) ==
  \E v \in Mover!Answers, grant, dog \in BOOLEAN :
    /\ w \in Mover!Offers \cup [op : {"none"}] /\ dev \in BOOLEAN
    /\ b = Mover!Bus(grant, dog) /\ Mover!Devices(v) /\ (grant => Mover!stb)
    /\ dog => dma.dma_state \in {"READ_ACK", "WRITE_ACK"}
    /\ Mover!Registers(w, b, dev) /\ Mover!Delay(b, v, grant)
    /\ Mover!Program(w) /\ Mover!Written(w, b)

LEMMA SmallMod ==
  ASSUME NEW m \in Nat \ {0}, NEW x \in 0 .. m - 1 PROVE x % m = x
OBVIOUS

LEMMA ModRange ==
  ASSUME NEW m \in Nat \ {0}, NEW x \in Nat PROVE x % m \in 0 .. m - 1
OBVIOUS

LEMMA OverMod ==
  ASSUME NEW m \in Nat \ {0}, NEW x \in m .. 2 * m - 1 PROVE x % m = x - m
OBVIOUS

\* No counter of the controller wraps.
LEMMA MvSteps ==
  /\ \A x \in 0 .. MaxMove - 1 : Mover!Inc(x) = x + 1
  /\ \A x \in 1 .. MaxMove : (x + DmaSpace - 1) % DmaSpace = x - 1
  /\ \A x \in 0 .. Block : (x + 1) % (2 * Block) = x + 1
  /\ \A x \in 0 .. Block - 1 : x % Block = x
  /\ \A x \in 0 .. Block - 2 : (x + 1) % Block = x + 1
<1>1. DmaSpace \in Nat \ {0} /\ MaxMove \in 0 .. DmaSpace - 1 /\ Block \in Nat \ {0, 1}
  BY DmaAssumption
<1>2. ASSUME NEW x \in 0 .. MaxMove - 1 PROVE Mover!Inc(x) = x + 1
  BY <1>1, SmallMod DEF Mover!Inc
<1>3. ASSUME NEW x \in 1 .. MaxMove PROVE (x + DmaSpace - 1) % DmaSpace = x - 1
  <2>1. x + DmaSpace - 1 \in DmaSpace .. 2 * DmaSpace - 1
    BY <1>1
  <2>2. (x + DmaSpace - 1) % DmaSpace = (x + DmaSpace - 1) - DmaSpace
    BY <1>1, <2>1, OverMod
  <2> QED
    BY <1>1, <2>2
<1>4. ASSUME NEW x \in 0 .. Block PROVE (x + 1) % (2 * Block) = x + 1
  <2>1. PICK m \in Nat \ {0} : m = 2 * Block /\ x + 1 \in 0 .. m - 1
    BY <1>1
  <2> QED
    BY <2>1, SmallMod
<1>5. ASSUME NEW x \in 0 .. Block - 1 PROVE x % Block = x
  BY <1>1, SmallMod
<1>6. ASSUME NEW x \in 0 .. Block - 2 PROVE (x + 1) % Block = x + 1
  BY <1>1, SmallMod
<1> QED
  BY <1>2, <1>3, <1>4, <1>5, <1>6

LEMMA MvOffers ==
  ASSUME NEW w \in Mover!Offers \cup [op : {"none"}], job.at \in {"src", "dst", "go", "on"},
         job.at # "on" => dma.dma_state = "IDLE"
  PROVE  /\ w.op \in {"none", "len", "src", "dst", "go", "abort", "halt"}
         /\ w.op = "len" => dma.dma_state = "IDLE" /\ job.at = "on" /\ w.len \in 0 .. MaxMove
         /\ w.op = "src" => job.at = "src" /\ dma.dma_state = "IDLE"
         /\ w.op = "dst" => job.at = "dst" /\ dma.dma_state = "IDLE"
         /\ w.op = "go" => /\ job.at = "go" /\ dma.dma_state = "IDLE" /\ w.blk \in Blocks
                           /\ w.incs \in BOOLEAN /\ w.incd \in BOOLEAN
         /\ w.op \in {"abort", "halt"} => /\ job.at = "on" /\ w.blk = 0
                                          /\ w.incs \in BOOLEAN /\ w.incd \in BOOLEAN
<1>1. CASE w \in [op : {"none"}]
  BY <1>1
<1>2. CASE job.at \in {"src", "dst"} /\ w \in Mover!Offers
  BY <1>2 DEF Mover!Offers
<1>3. CASE job.at = "go" /\ w \in Mover!Offers
  BY <1>3 DEF Mover!Offers, Mover!Starts
<1>4. CASE job.at = "on" /\ w \in Mover!Offers
  <2>1. w \in Mover!Stops \/ (dma.dma_state = "IDLE" /\ w \in [op : {"len"}, len : 0 .. MaxMove])
    BY <1>4, ZenonT(30) DEF Mover!Offers, Mover!In
  <2>2. w \in Mover!Stops => /\ w.op \in {"abort", "halt"} /\ w.blk = 0
                             /\ w.incs \in BOOLEAN /\ w.incd \in BOOLEAN
    <3>1. w \in Mover!Stops => w.op \in {"abort", "halt"} /\ w.blk = 0
      BY DEF Mover!Stops
    <3>2. w \in Mover!Stops => w.incs \in BOOLEAN /\ w.incd \in BOOLEAN
      <4>1. ASSUME w \in Mover!Stops PROVE w.incs \in BOOLEAN /\ w.incd \in BOOLEAN
        <5>1. CASE w = [op |-> "abort", blk |-> 0, incs |-> FALSE, incd |-> FALSE, dev |-> FALSE]
          BY <5>1
        <5>2. CASE w = [op |-> "halt", blk |-> 0, incs |-> FALSE, incd |-> TRUE, dev |-> FALSE]
          BY <5>2
        <5> QED
          BY <4>1, <5>1, <5>2 DEF Mover!Stops
      <4> QED
        BY <4>1
    <3> QED
      BY <3>1, <3>2
  <2> QED
    BY <1>4, <2>1, <2>2
<1> QED
  BY <1>1, <1>2, <1>3, <1>4

\* While a transfer runs, its settings stay.
LEMMA MvJobStays ==
  ASSUME MvTypes(dma, pend, dly, job, out), MvJob(dma, pend, dly, job, out), dma.dma_state # "IDLE",
         NEW w \in Mover!Offers \cup [op : {"none"}], Mover!Program(w)
  PROVE  /\ w.op \in {"none", "abort", "halt"}
         /\ job.at = "on" /\ job'.at = "on" /\ job'.len = job.len
         /\ job'.incs = job.incs /\ job'.incd = job.incd
<1>1. w.op \in {"none", "abort", "halt"} /\ job.at = "on"
  BY MvOffers DEF MvTypes, MvJob
<1>2. CASE w.op = "none"
  BY <1>1, <1>2 DEF Mover!Program
<1>3. CASE w.op # "none"
  <2>1. job' = [job EXCEPT !.stopped = TRUE]
    BY <1>1, <1>3 DEF Mover!Program
  <2> QED
    BY <1>1, <2>1
<1> QED
  BY <1>1, <1>2, <1>3

\* What the controller sees of the bus.
LEMMA MvSees ==
  ASSUME NEW w, NEW b, NEW dev, MvTick(w, b, dev), MvDelay(dma, pend, dly),
         pend \in Seq(Nat)
  PROVE  /\ w \in Mover!Offers \cup [op : {"none"}] /\ dev \in BOOLEAN
         /\ Mover!Registers(w, b, dev) /\ Mover!Program(w) /\ Mover!Written(w, b)
         /\ b \in [stall : BOOLEAN, ack : BOOLEAN, err : BOOLEAN]
         /\ b.ack = dly.o_wb_ack /\ (dly.o_wb_err => b.err)
         /\ b.ack => Len(pend) >= 1 /\ Head(pend) = pend[1] /\ pend[1] \in Nat /\ ~dly.o_wb_err
         /\ dma.dma_state \in {"WAIT", "PRE_WRITE"} => ~b.ack /\ ~b.err
         /\ b.stall /\ Len(pend) >= 1 => dly.held = 2
         /\ ~b.stall => dly.held <= 1
<1>1. PICK v \in Mover!Answers, grant \in BOOLEAN, dog \in BOOLEAN :
        /\ w \in Mover!Offers \cup [op : {"none"}] /\ dev \in BOOLEAN
        /\ b = Mover!Bus(grant, dog)
        /\ dog => dma.dma_state \in {"READ_ACK", "WRITE_ACK"}
        /\ Mover!Registers(w, b, dev) /\ Mover!Program(w) /\ Mover!Written(w, b)
  BY DEF MvTick
<1>2. /\ dly.granted \in BOOLEAN /\ dly.o_wb_ack \in BOOLEAN /\ dly.o_wb_err \in BOOLEAN
      /\ dly.held \in 0 .. 2 /\ Len(pend) >= dly.held + (IF dly.o_wb_ack THEN 1 ELSE 0)
      /\ dly.o_wb_err => pend = << >>
      /\ pend # << >> => dly.granted
      /\ dma.dma_state \in {"WAIT", "PRE_WRITE"} => pend = << >> /\ ~dly.o_wb_err
  BY DEF MvDelay, MvHeld
<1>3. /\ b.stall = (~(dly.granted \/ grant) \/ dly.held = 2)
      /\ b.ack = dly.o_wb_ack /\ b.err = (dly.o_wb_err \/ dog)
      /\ b = [stall |-> b.stall, ack |-> b.ack, err |-> b.err]
  BY <1>1 DEF Mover!Bus
<1>4. b.stall \in BOOLEAN /\ b.ack \in BOOLEAN /\ b.err \in BOOLEAN
  BY <1>2, <1>3, ZenonT(30)
<1>5. b \in [stall : BOOLEAN, ack : BOOLEAN, err : BOOLEAN]
  BY <1>3, <1>4
<1>6. Len(pend) \in Nat /\ (pend = << >> <=> Len(pend) = 0)
  OBVIOUS
<1>7. b.ack => Len(pend) >= 1 /\ Head(pend) = pend[1] /\ pend[1] \in Nat /\ ~dly.o_wb_err
  <2>1. b.ack => Len(pend) >= 1
    BY <1>2, <1>3, <1>6
  <2>2. Len(pend) >= 1 => Head(pend) = pend[1] /\ pend[1] \in Nat
    OBVIOUS
  <2>3. Len(pend) >= 1 => ~dly.o_wb_err
    BY <1>2, <1>6
  <2> QED
    BY <2>1, <2>2, <2>3
<1>8. dma.dma_state \in {"WAIT", "PRE_WRITE"} => ~b.ack /\ ~b.err
  <2>1. dma.dma_state \in {"WAIT", "PRE_WRITE"} => ~dly.o_wb_err /\ ~dog /\ ~b.ack
    BY <1>1, <1>2, <1>6, <1>7
  <2> QED
    BY <1>3, <2>1
<1>9. b.stall /\ Len(pend) >= 1 => dly.held = 2
  BY <1>2, <1>3, <1>6
<1>10. ~b.stall => dly.held <= 1
  BY <1>2, <1>3
<1> QED
  BY <1>1, <1>3, <1>5, <1>7, <1>8, <1>9, <1>10

\* What is owed: what was, without what is answered, and with the request that is
\* taken; nothing, if an error or the end of the cycle puts an end to it.
LEMMA MvOwed ==
  ASSUME NEW w, NEW b, NEW dev, MvTick(w, b, dev), MvDelay(dma, pend, dly),
         pend \in Seq(Nat), dma.addr \in Nat
  PROVE  LET a == IF b.ack THEN 1 ELSE 0
             t == IF Mover!Taken(b) THEN 1 ELSE 0
             n == Len(pend)
         IN  /\ pend' \in Seq(Nat) /\ MvHeld(pend', dly')
             /\ ~Mover!cyc => pend' = << >> /\ ~dly'.o_wb_err
             /\ dly'.o_wb_ack => n >= dly.held + a + 1
             /\ n = a /\ ~Mover!Taken(b) => pend' = << >> /\ ~dly'.o_wb_err
             /\ Mover!cyc /\ ~dly.o_wb_err /\ ~dly'.o_wb_err =>
                  /\ Len(pend') = n - a + t
                  /\ \A i \in 1 .. n - a : pend'[i] = pend[i + a]
                  /\ Mover!Taken(b) => pend'[n - a + 1] = dma.addr
                  /\ dly'.held + 1 >= dly.held + t
                  /\ dly.held = 0 => dly'.held = t
<1> DEFINE a == IF b.ack THEN 1 ELSE 0
           t == IF Mover!Taken(b) THEN 1 ELSE 0
           n == Len(pend)
           kept == IF b.ack THEN Tail(pend) ELSE pend
           all == IF Mover!Taken(b) THEN Append(kept, dma.addr) ELSE kept
<1>1. PICK v \in Mover!Answers, grant \in BOOLEAN, dog \in BOOLEAN :
        /\ b = Mover!Bus(grant, dog) /\ Mover!Devices(v) /\ (grant => Mover!stb)
        /\ Mover!Delay(b, v, grant)
  BY DEF MvTick
<1>2. /\ b \in [stall : BOOLEAN, ack : BOOLEAN, err : BOOLEAN]
      /\ b.ack = dly.o_wb_ack /\ (b.ack => n >= 1 /\ ~dly.o_wb_err)
      /\ ~b.stall => dly.held <= 1
  BY MvSees
<1>3. /\ dly.granted \in BOOLEAN /\ dly.o_wb_ack \in BOOLEAN /\ dly.o_wb_err \in BOOLEAN
      /\ dly.held \in 0 .. 2 /\ n >= dly.held + a /\ n \in Nat /\ a \in {0, 1} /\ t \in {0, 1}
      /\ dly.o_wb_err => n = 0
      /\ n # 0 => dly.granted
  <2>1. n >= dly.held + (IF dly.o_wb_ack THEN 1 ELSE 0)
    BY DEF MvDelay, MvHeld
  <2>2. n \in Nat /\ (n = 0 <=> pend = << >>)
    OBVIOUS
  <2> QED
    BY <1>2, <2>1, <2>2 DEF MvDelay, MvHeld
<1>4. PICK kills \in BOOLEAN : kills <=> ~Mover!cyc \/ v.err \/ dly.o_wb_err
  OBVIOUS
<1>5. PICK s \in {0, 1} : s = IF dly.held > 0 /\ ~v.stall THEN 1 ELSE 0
  OBVIOUS
<1>6. /\ dly'.granted = (Mover!cyc /\ (dly.granted \/ grant))
      /\ dly'.held = IF kills THEN 0 ELSE (dly.held + t) - s
      /\ dly'.o_wb_ack = (v.ack /\ ~kills) /\ dly'.o_wb_err = (Mover!cyc /\ v.err)
      /\ pend' = IF kills THEN << >> ELSE all
  BY <1>1, <1>4, <1>5 DEF Mover!Delay
<1>7. v.stall \in BOOLEAN /\ v.ack \in BOOLEAN /\ v.err \in BOOLEAN /\ Mover!cyc \in BOOLEAN
  BY DEF Mover!Answers, Mover!cyc
<1>8. /\ v.ack => n - dly.held - a > 0 /\ ~v.err
      /\ v.err => (n - dly.held - a) + dly.held > 0
  BY <1>1, <1>2 DEF Mover!Devices, Mover!Owed
<1>9. /\ kept \in Seq(Nat) /\ Len(kept) = n - a /\ \A i \in 1 .. n - a : kept[i] = pend[i + a]
  BY <1>2
<1>10. /\ all \in Seq(Nat) /\ Len(all) = n - a + t
       /\ \A i \in 1 .. n - a : all[i] = kept[i]
       /\ Mover!Taken(b) => all[n - a + 1] = dma.addr
  <2>1. PICK k \in Seq(Nat) : k = kept /\ Len(k) = n - a
    BY <1>9
  <2> HIDE DEF kept, a, n
  <2> QED
    BY <1>3, <2>1
<1>11. t = 1 => dly.held <= 1 /\ Mover!cyc /\ (dly.granted \/ grant)
  <2>1. t = 1 => ~b.stall /\ Mover!stb
    BY DEF Mover!Taken
  <2>2. Mover!stb => Mover!cyc
    BY DEF Mover!stb, Mover!cyc
  <2>3. ~b.stall => dly.granted \/ grant
    BY <1>1 DEF Mover!Bus
  <2> QED
    BY <1>2, <2>1, <2>2, <2>3
<1> HIDE DEF a, t, n, kept, all
<1>12. CASE kills
  <2>1. pend' = << >> /\ dly'.held = 0 /\ ~dly'.o_wb_ack
    BY <1>6, <1>12
  <2>2. Len(pend') = 0
    BY <2>1
  <2>3. MvHeld(pend', dly')
    <3>1. /\ dly'.granted \in BOOLEAN /\ dly'.o_wb_ack \in BOOLEAN /\ dly'.o_wb_err \in BOOLEAN
      BY <1>3, <1>6, <1>7, ZenonT(30)
    <3> QED
      BY <2>1, <2>2, <3>1 DEF MvHeld
  <2>4. ~Mover!cyc => ~dly'.o_wb_err
    BY <1>6
  <2>5. n = a => ~dly'.o_wb_err
    <3>1. dly'.o_wb_err => v.err
      BY <1>6
    <3>2. PICK hd \in 0 .. 2 : hd = dly.held
      BY <1>3
    <3>3. n = a => ~((n - hd - a) + hd > 0)
      BY <1>3
    <3> QED
      BY <1>8, <3>1, <3>2, <3>3
  <2>6. Mover!cyc /\ ~dly.o_wb_err /\ ~dly'.o_wb_err => FALSE
    BY <1>4, <1>6, <1>12
  <2> QED
    BY <2>1, <2>3, <2>4, <2>5, <2>6 DEF a, n, t
<1>13. CASE ~kills
  <2>1. pend' = all /\ dly'.held = (dly.held + t) - s /\ dly'.o_wb_ack = v.ack /\ Mover!cyc
        /\ ~v.err /\ ~dly.o_wb_err /\ ~dly'.o_wb_err
    BY <1>4, <1>6, <1>7, <1>13
  <2>2. Len(pend') = n - a + t /\ pend' \in Seq(Nat)
    BY <1>10, <2>1
  <2>3. dly'.held \in 0 .. 2 /\ (s = 1 => dly.held >= 1)
    BY <1>3, <1>5, <1>11, <2>1
  <2>4. Len(pend') >= dly'.held + (IF dly'.o_wb_ack THEN 1 ELSE 0)
    <3>1. PICK hd \in 0 .. 2 : hd = dly.held
      BY <1>3
    <3>2. v.ack => n - hd - a > 0
      BY <1>8, <3>1
    <3>3. PICK x \in {0, 1} : x = (IF v.ack THEN 1 ELSE 0) /\ (x = 1 => v.ack)
      OBVIOUS
    <3>4. n - a + t >= ((hd + t) - s) + x
      BY <1>3, <3>1, <3>2, <3>3
    <3> QED
      BY <2>1, <2>2, <3>1, <3>3, <3>4
  <2>5. pend' # << >> => dly'.granted
    <3>1. pend' # << >> => n - a + t # 0
      BY <2>2
    <3>2. n - a + t # 0 => n # 0 \/ t = 1
      BY <1>3
    <3>3. n # 0 \/ t = 1 => dly.granted \/ grant
      BY <1>3, <1>11
    <3> QED
      BY <1>6, <2>1, <3>1, <3>2, <3>3
  <2>6. dly'.granted \in BOOLEAN /\ dly'.o_wb_ack \in BOOLEAN /\ dly'.o_wb_err \in BOOLEAN
    BY <1>3, <1>6, <1>7, ZenonT(30)
  <2>7. MvHeld(pend', dly')
    BY <2>1, <2>3, <2>4, <2>5, <2>6 DEF MvHeld
  <2>8. dly'.o_wb_ack => n >= dly.held + a + 1
    BY <1>3, <1>8, <2>1
  <2>9. n = a /\ ~Mover!Taken(b) => pend' = << >>
    <3>1. ~Mover!Taken(b) => t = 0
      BY DEF t
    <3>2. n = a /\ t = 0 => Len(pend') = 0
      BY <1>3, <2>2
    <3> QED
      BY <2>2, <3>1, <3>2
  <2>10. /\ \A i \in 1 .. n - a : pend'[i] = pend[i + a]
         /\ Mover!Taken(b) => pend'[n - a + 1] = dma.addr
    BY <1>9, <1>10, <2>1
  <2>11. dly'.held + 1 >= dly.held + t /\ (dly.held = 0 => dly'.held = t)
    BY <1>3, <1>5, <2>1
  <2> QED
    BY <2>1, <2>2, <2>7, <2>8, <2>9, <2>10, <2>11 DEF a, n, t
<1> QED
  BY <1>12, <1>13

\* The registers stay in range, and no flag is anything but a bit.
LEMMA MvFlags ==
  ASSUME MvTypes(dma, pend, dly, job, out), NEW w \in Mover!Offers \cup [op : {"none"}],
         NEW b \in [stall : BOOLEAN, ack : BOOLEAN, err : BOOLEAN], NEW dev \in BOOLEAN,
         MvJob(dma, pend, dly, job, out), Mover!Registers(w, b, dev)
  PROVE  /\ dma'.cfg_incs \in BOOLEAN /\ dma'.cfg_incd \in BOOLEAN
         /\ dma'.last_read_request \in BOOLEAN /\ dma'.last_read_ack \in BOOLEAN
         /\ dma'.last_write_request \in BOOLEAN /\ dma'.last_write_ack \in BOOLEAN
         /\ dma'.trigger \in BOOLEAN /\ dma'.o_interrupt \in BOOLEAN /\ dma'.cfg_err \in BOOLEAN
<1>1. /\ dma.cfg_incs \in BOOLEAN /\ dma.cfg_incd \in BOOLEAN
      /\ w.op = "go" => dma.dma_state = "IDLE" /\ w.incs \in BOOLEAN /\ w.incd \in BOOLEAN
      /\ dma.dma_state = "IDLE" /\ w.op \in Mover!Control => w.op = "go" \/ w.op \in {"abort", "halt"}
  BY MvOffers DEF MvTypes, MvJob, Mover!Control
<1>2. w.op \in {"abort", "halt"} => w.incs \in BOOLEAN /\ w.incd \in BOOLEAN
  BY MvOffers DEF MvTypes, MvJob
<1>3. /\ dma'.cfg_incs = IF dma.dma_state = "IDLE" /\ w.op \in Mover!Control THEN w.incs ELSE dma.cfg_incs
      /\ dma'.cfg_incd = IF dma.dma_state = "IDLE" /\ w.op \in Mover!Control THEN w.incd ELSE dma.cfg_incd
  BY DEF Mover!Registers, Mover!In
<1>4. dma'.cfg_incs \in BOOLEAN /\ dma'.cfg_incd \in BOOLEAN
  <2>1. CASE dma.dma_state = "IDLE" /\ w.op \in Mover!Control
    BY <1>1, <1>2, <1>3, <2>1
  <2>2. CASE ~(dma.dma_state = "IDLE" /\ w.op \in Mover!Control)
    BY <1>1, <1>3, <2>2
  <2> QED
    BY <2>1, <2>2
<1>5. dma'.last_read_request \in BOOLEAN /\ dma'.last_read_ack \in BOOLEAN
  BY ZenonT(30) DEF Mover!Registers, Mover!last_read_request, Mover!last_read_ack
<1>6. dma'.last_write_request \in BOOLEAN /\ dma'.last_write_ack \in BOOLEAN
  BY ZenonT(30) DEF Mover!Registers, Mover!last_write_request, Mover!last_write_ack
<1>7. dma'.trigger \in BOOLEAN /\ dma'.o_interrupt \in BOOLEAN
  BY ZenonT(30) DEF Mover!Registers
<1>8. dma'.cfg_err \in BOOLEAN
  BY ZenonT(30) DEF Mover!Registers
<1> QED
  BY <1>4, <1>5, <1>6, <1>7, <1>8

LEMMA MvRanges ==
  ASSUME MvTypes(dma, pend, dly, job, out), MvJob(dma, pend, dly, job, out),
         NEW w \in Mover!Offers \cup [op : {"none"}],
         NEW b \in [stall : BOOLEAN, ack : BOOLEAN, err : BOOLEAN], NEW dev \in BOOLEAN,
         Mover!Registers(w, b, dev), b.ack => Head(pend) \in Nat
  PROVE  /\ dma'.cfg_blocklen_sub_one \in 0 .. Block - 1
         /\ dma'.nread \in 0 .. 2 * Block - 1 /\ dma'.nracks \in 0 .. 2 * Block - 1
         /\ dma'.nwritten \in 0 .. 2 * Block - 1 /\ dma'.nwacks \in 0 .. 2 * Block - 1
         /\ dma'.rdaddr \in 0 .. Block - 1
         /\ dma'.cfg_raddr \in Nat /\ dma'.cfg_waddr \in Nat /\ dma'.addr \in Nat
         /\ dma'.dma_mem \in [0 .. Block - 1 -> Nat]
<1>1. Block \in Nat \ {0, 1} /\ DmaSpace \in Nat \ {0, 1} /\ MaxMove \in Nat /\ Blocks \subseteq Nat
  BY DmaAssumption
<1>2. \A x \in Nat : x % Block \in 0 .. Block - 1 /\ x % (2 * Block) \in 0 .. 2 * Block - 1
                     /\ Mover!Inc(x) \in Nat
  BY <1>1 DEF Mover!Inc
<1>3. dma'.cfg_blocklen_sub_one \in 0 .. Block - 1
  <2>1. w.op \in {"abort", "halt"} => w.blk = 0
    BY MvOffers DEF MvTypes, MvJob
  <2>2. w.op = "go" => w.blk \in Blocks
    BY MvOffers DEF MvTypes, MvJob
  <2>3. CASE dma.dma_state = "IDLE" /\ w.op \in Mover!Control
    <3>1. PICK x \in Nat : x = w.blk
      BY <1>1, <2>1, <2>2, <2>3 DEF Mover!Control
    <3>2. dma'.cfg_blocklen_sub_one = (x + Block - 1) % Block /\ x + Block - 1 \in Nat
      BY <1>1, <2>3, <3>1 DEF Mover!Registers, Mover!In
    <3> QED
      BY <1>2, <3>2
  <2>4. CASE ~(dma.dma_state = "IDLE" /\ w.op \in Mover!Control)
    BY <2>4 DEF Mover!Registers, Mover!In, MvTypes
  <2> QED
    BY <2>3, <2>4
<1>5. /\ dma'.nread \in 0 .. 2 * Block - 1 /\ dma'.nracks \in 0 .. 2 * Block - 1
      /\ dma'.nwritten \in 0 .. 2 * Block - 1 /\ dma'.nwacks \in 0 .. 2 * Block - 1
  <2>1. PICK m \in Nat \ {0} : m = 2 * Block
    BY <1>1
  <2>2. \A n \in 0 .. m - 1 : {0, (n + 1) % m, n} \subseteq 0 .. m - 1
    BY <2>1, ModRange
  <2>3. /\ dma.nread \in 0 .. m - 1 /\ dma.nracks \in 0 .. m - 1
        /\ dma.nwritten \in 0 .. m - 1 /\ dma.nwacks \in 0 .. m - 1
    BY <2>1 DEF MvTypes
  <2>4. /\ dma'.nread \in {0, (dma.nread + 1) % m, dma.nread}
        /\ dma'.nracks \in {0, (dma.nracks + 1) % m, dma.nracks}
        /\ dma'.nwritten \in {0, (dma.nwritten + 1) % m, dma.nwritten}
        /\ dma'.nwacks \in {0, (dma.nwacks + 1) % m, dma.nwacks}
    BY <2>1 DEF Mover!Registers, Mover!Count
  <2>5. /\ dma'.nread \in 0 .. m - 1 /\ dma'.nracks \in 0 .. m - 1
        /\ dma'.nwritten \in 0 .. m - 1 /\ dma'.nwacks \in 0 .. m - 1
    BY <2>2, <2>3, <2>4, ZenonT(30)
  <2> QED
    BY <2>1, <2>5
<1>6. dma'.rdaddr \in 0 .. Block - 1
  <2>1. dma'.rdaddr \in {0, (dma.rdaddr + 1) % Block, dma.rdaddr}
    BY DEF Mover!Registers, Mover!rdaddr
  <2>2. PICK x \in 0 .. Block - 1 : x = dma.rdaddr
    BY DEF MvTypes
  <2>3. {0, (x + 1) % Block, x} \subseteq 0 .. Block - 1
    BY <1>1, ModRange
  <2> QED
    BY <2>1, <2>2, <2>3
<1>7. dma'.cfg_raddr \in Nat /\ dma'.cfg_waddr \in Nat /\ dma'.addr \in Nat
  <2>1. dma.cfg_raddr \in Nat /\ dma.cfg_waddr \in Nat /\ dma.addr \in Nat
    BY DEF MvTypes
  <2>2. dma'.cfg_raddr \in {0, Mover!Inc(dma.cfg_raddr), dma.cfg_raddr}
    BY DEF Mover!Registers, Mover!cfg_raddr
  <2>3. dma'.cfg_waddr \in {0, Mover!Inc(dma.cfg_waddr), dma.cfg_waddr}
    BY DEF Mover!Registers, Mover!cfg_waddr
  <2>4. dma'.addr \in {dma.cfg_raddr, dma.cfg_waddr, Mover!Inc(dma.addr), dma.addr}
    <3>1. dma'.addr = Mover!addr(b)
      BY DEF Mover!Registers
    <3>2. CASE dma.dma_state \in {"IDLE", "WAIT"}
      BY <3>1, <3>2 DEF Mover!addr, Mover!In
    <3>3. CASE dma.dma_state = "PRE_WRITE"
      BY <3>1, <3>3 DEF Mover!addr, Mover!In
    <3>4. CASE dma.dma_state \notin {"IDLE", "WAIT", "PRE_WRITE"}
      BY <3>1, <3>4 DEF Mover!addr, Mover!In
    <3> QED
      BY <3>2, <3>3, <3>4
  <2> QED
    BY <1>2, <2>1, <2>2, <2>3, <2>4
<1>8. dma'.dma_mem \in [0 .. Block - 1 -> Nat]
  <2>1. dma'.dma_mem = Mover!dma_mem(b)
    BY DEF Mover!Registers
  <2>2. PICK v \in Nat : v = IF b.ack THEN Head(pend) ELSE Mover!Junk
    BY <1>1 DEF Mover!Junk
  <2>3. PICK m \in [0 .. Block - 1 -> Nat] : m = dma.dma_mem
    BY DEF MvTypes
  <2>4. dma'.dma_mem \in {m, [m EXCEPT ![dma.nread % Block] = v]}
    BY <2>1, <2>2, <2>3 DEF Mover!dma_mem
  <2> QED
    BY <2>3, <2>4
<1> QED
  BY <1>3, <1>5, <1>6, <1>7, <1>8

\* What holds after a clock whatever the state it started in.
MvKeeps(d, p, y) ==
  /\ d.cfg_blocklen_sub_one \in 0 .. Block - 1
  /\ d.nread \in 0 .. 2 * Block - 1 /\ d.nracks \in 0 .. 2 * Block - 1
  /\ d.nwritten \in 0 .. 2 * Block - 1 /\ d.nwacks \in 0 .. 2 * Block - 1
  /\ d.rdaddr \in 0 .. Block - 1
  /\ d.cfg_raddr \in Nat /\ d.cfg_waddr \in Nat /\ d.addr \in Nat
  /\ d.dma_mem \in [0 .. Block - 1 -> Nat]
  /\ d.cfg_incs \in BOOLEAN /\ d.cfg_incd \in BOOLEAN
  /\ d.last_read_request \in BOOLEAN /\ d.last_read_ack \in BOOLEAN
  /\ d.last_write_request \in BOOLEAN /\ d.last_write_ack \in BOOLEAN
  /\ d.trigger \in BOOLEAN /\ d.o_interrupt \in BOOLEAN /\ d.cfg_err \in BOOLEAN
  /\ p \in Seq(Nat) /\ MvHeld(p, y)

LEMMA MvKept ==
  ASSUME NEW w, NEW b, NEW dev, MvInv(dma, pend, dly, job, out), MvTick(w, b, dev)
  PROVE  MvKeeps(dma', pend', dly')
<1>1. MvTypes(dma, pend, dly, job, out) /\ MvJob(dma, pend, dly, job, out) /\ MvDelay(dma, pend, dly)
  BY DEF MvInv
<1>2. pend \in Seq(Nat) /\ dma.addr \in Nat
  BY <1>1 DEF MvTypes
<1>3. /\ w \in Mover!Offers \cup [op : {"none"}] /\ dev \in BOOLEAN /\ Mover!Registers(w, b, dev)
      /\ b \in [stall : BOOLEAN, ack : BOOLEAN, err : BOOLEAN]
      /\ b.ack => Head(pend) \in Nat
  BY <1>1, <1>2, MvSees
<1>4. pend' \in Seq(Nat) /\ MvHeld(pend', dly')
  BY <1>1, <1>2, MvOwed
<1> QED
  BY <1>1, <1>3, <1>4, MvFlags, MvRanges DEF MvKeeps

\* The wires of the registers that hold no flag.
LEMMA MvWires ==
  ASSUME NEW w, NEW b, NEW dev, Mover!Registers(w, b, dev)
  PROVE  /\ dma'.dma_state = Mover!dma_state(w, b) /\ dma'.cfg_len = Mover!cfg_len(w, b)
         /\ dma'.cfg_raddr = Mover!cfg_raddr(w, b) /\ dma'.cfg_waddr = Mover!cfg_waddr(w, b)
         /\ dma'.nread = Mover!Count(Mover!Between, ~Mover!we /\ b.ack, dma.nread)
         /\ dma'.nracks = Mover!Count(Mover!Between, ~Mover!we /\ Mover!Taken(b), dma.nracks)
         /\ dma'.nwritten = Mover!Count(~Mover!cyc \/ ~Mover!we, Mover!Taken(b), dma.nwritten)
         /\ dma'.nwacks = Mover!Count(~Mover!cyc \/ ~Mover!we, b.ack, dma.nwacks)
         /\ dma'.addr = Mover!addr(b) /\ dma'.rdaddr = Mover!rdaddr(b)
         /\ dma'.dma_mem = Mover!dma_mem(b)
         /\ dma'.data = IF Mover!In("WRITE_REQ") /\ b.stall THEN dma.data ELSE dma.dma_mem[dma.rdaddr]
         /\ ~Mover!In("IDLE") => /\ dma'.cfg_incs = dma.cfg_incs /\ dma'.cfg_incd = dma.cfg_incd
                                 /\ dma'.cfg_blocklen_sub_one = dma.cfg_blocklen_sub_one
         /\ Mover!In("IDLE") /\ w.op \in Mover!Control => dma'.cfg_incs = w.incs /\ dma'.cfg_incd = w.incd
  BY DEF Mover!Registers

LEMMA MvFromIdle ==
  ASSUME NEW w, NEW b, NEW dev, MvInv(dma, pend, dly, job, out), MvTick(w, b, dev),
         dma.dma_state = "IDLE"
  PROVE  MvInv(dma', pend', dly', job', out')
<1>1. /\ w \in Mover!Offers \cup [op : {"none"}]
      /\ Mover!Registers(w, b, dev) /\ Mover!Program(w) /\ Mover!Written(w, b)
  BY MvSees DEF MvInv, MvTypes
<1>2. MvTypes(dma, pend, dly, job, out) /\ MvJob(dma, pend, dly, job, out)
  BY DEF MvInv
<1>3. PICK d1, p1, y1, j1, o1 : d1 = dma' /\ p1 = pend' /\ y1 = dly' /\ j1 = job' /\ o1 = out'
  OBVIOUS
<1>4. MvKeeps(d1, p1, y1)
  BY <1>3, MvKept
<1>5. /\ w.op \in {"none", "len", "src", "dst", "go", "abort", "halt"}
      /\ w.op = "len" => job.at = "on" /\ w.len \in 0 .. MaxMove
      /\ w.op = "src" => job.at = "src"
      /\ w.op = "dst" => job.at = "dst"
      /\ w.op = "go" => job.at = "go" /\ w.incs \in BOOLEAN /\ w.incd \in BOOLEAN
      /\ w.op \in {"abort", "halt"} => job.at = "on"
  BY <1>1, <1>2, MvOffers DEF MvTypes, MvJob
<1>6. p1 = << >> /\ ~y1.o_wb_err
  BY <1>3, MvOwed DEF MvInv, MvTypes, Mover!cyc
<1>7. /\ d1.dma_state = IF w.op = "go" /\ dma.cfg_len # 0 THEN "WAIT" ELSE "IDLE"
      /\ d1.cfg_len = IF w.op = "len" THEN w.len ELSE dma.cfg_len
      /\ d1.cfg_raddr = IF w.op = "src" THEN 0 ELSE dma.cfg_raddr
      /\ d1.cfg_waddr = IF w.op = "dst" THEN 0 ELSE dma.cfg_waddr
      /\ w.op = "go" => d1.cfg_incs = w.incs /\ d1.cfg_incd = w.incd
  BY <1>1, <1>3, MvWires DEF Mover!In, Mover!Control, Mover!dma_state, Mover!cfg_len,
     Mover!cfg_raddr, Mover!cfg_waddr, Mover!cyc
<1>8. ~d1.o_interrupt /\ ~d1.trigger
  BY <1>1, <1>3, ZenonT(30) DEF Mover!Registers, Mover!In
<1>9. o1 = IF w.op \in {"len", "go"} THEN << >> ELSE out
  BY <1>1, <1>3 DEF Mover!Written, Mover!we
<1>10. << >> \in Seq(Nat \X Nat) /\ out \in Seq(Nat \X Nat) /\ dma.cfg_len \in 0 .. MaxMove
       /\ MaxMove \in Nat
  BY <1>2, DmaAssumption DEF MvTypes
<1>11. MvTypes(d1, p1, y1, j1, o1) /\ MvJob(d1, p1, y1, j1, o1) /\ MvWaits(d1, p1, y1, j1, o1)
  <2>1. CASE w.op = "none"
    <3>1. j1 = job /\ o1 = out /\ d1.dma_state = "IDLE" /\ d1.cfg_len = dma.cfg_len
          /\ d1.cfg_raddr = dma.cfg_raddr /\ d1.cfg_waddr = dma.cfg_waddr
      BY <1>1, <1>3, <1>7, <1>9, <2>1 DEF Mover!Program
    <3> QED
      BY <1>2, <1>4, <1>8, <3>1 DEF MvTypes, MvJob, MvWaits, MvKeeps
  <2>2. CASE w.op \in {"abort", "halt"}
    <3>1. o1 = out /\ d1.dma_state = "IDLE" /\ d1.cfg_len = dma.cfg_len
          /\ d1.cfg_raddr = dma.cfg_raddr /\ d1.cfg_waddr = dma.cfg_waddr
      BY <1>1, <1>3, <1>7, <1>9, <2>2
    <3>2. j1 = [job EXCEPT !.stopped = TRUE]
      BY <1>1, <1>3, <2>2 DEF Mover!Program
    <3>3. j1.at = job.at /\ j1.len = job.len /\ j1.incs = job.incs /\ j1.incd = job.incd
      BY <3>2
    <3> QED
      BY <1>2, <1>4, <1>8, <3>1, <3>3 DEF MvTypes, MvJob, MvWaits, MvKeeps, MvSrc, MvDst
  <2>3. CASE w.op = "len"
    <3>1. o1 = << >> /\ d1.dma_state = "IDLE" /\ d1.cfg_len = w.len
      BY <1>1, <1>3, <1>7, <1>9, <2>3
    <3>2. j1 = [job EXCEPT !.len = w.len, !.at = "src"]
      BY <1>1, <1>3, <2>3 DEF Mover!Program
    <3>3. j1.at = "src" /\ j1.len = w.len /\ j1.incs = job.incs /\ j1.incd = job.incd
      BY <3>2
    <3> QED
      BY <1>2, <1>4, <1>5, <1>8, <1>10, <2>3, <3>1, <3>3 DEF MvTypes, MvJob, MvWaits, MvKeeps
  <2>4. CASE w.op = "src"
    <3>1. o1 = out /\ d1.dma_state = "IDLE" /\ d1.cfg_len = dma.cfg_len /\ d1.cfg_raddr = 0
          /\ d1.cfg_waddr = dma.cfg_waddr
      BY <1>1, <1>3, <1>7, <1>9, <2>4
    <3>2. j1 = [job EXCEPT !.at = "dst"]
      BY <1>1, <1>3, <2>4 DEF Mover!Program
    <3>3. j1.at = "dst" /\ j1.len = job.len /\ j1.incs = job.incs /\ j1.incd = job.incd
      BY <3>2
    <3> QED
      <4>1. MvTypes(d1, p1, y1, j1, o1)
        BY <1>2, <1>4, <1>5, <1>10, <2>4, <3>1, <3>3 DEF MvTypes, MvKeeps
      <4>2. MvJob(d1, p1, y1, j1, o1)
        BY <1>2, <1>5, <1>8, <2>4, <3>1, <3>3 DEF MvJob
      <4> QED
        BY <3>1, <4>1, <4>2 DEF MvWaits
  <2>5. CASE w.op = "dst"
    <3>1. o1 = out /\ d1.dma_state = "IDLE" /\ d1.cfg_len = dma.cfg_len /\ d1.cfg_waddr = 0
          /\ d1.cfg_raddr = dma.cfg_raddr
      BY <1>1, <1>3, <1>7, <1>9, <2>5
    <3>2. j1 = [job EXCEPT !.at = "go"]
      BY <1>1, <1>3, <2>5 DEF Mover!Program
    <3>3. j1.at = "go" /\ j1.len = job.len /\ j1.incs = job.incs /\ j1.incd = job.incd
      BY <3>2
    <3> QED
      <4>1. MvTypes(d1, p1, y1, j1, o1)
        BY <1>2, <1>4, <1>5, <1>10, <2>5, <3>1, <3>3 DEF MvTypes, MvKeeps
      <4>2. MvJob(d1, p1, y1, j1, o1)
        BY <1>2, <1>5, <1>8, <2>5, <3>1, <3>3 DEF MvJob
      <4> QED
        BY <3>1, <4>1, <4>2 DEF MvWaits
  <2>6. CASE w.op = "go"
    <3>1. o1 = << >> /\ d1.cfg_len = dma.cfg_len /\ d1.cfg_raddr = 0 /\ d1.cfg_waddr = 0
          /\ d1.dma_state = (IF dma.cfg_len # 0 THEN "WAIT" ELSE "IDLE")
          /\ d1.cfg_incs = w.incs /\ d1.cfg_incd = w.incd
      BY <1>1, <1>2, <1>3, <1>5, <1>7, <1>9, <2>6 DEF MvJob
    <3>2. j1 = [len |-> job.len, incs |-> w.incs, incd |-> w.incd, at |-> "on", stopped |-> FALSE]
      BY <1>1, <1>3, <2>6 DEF Mover!Program
    <3>3. j1.at = "on" /\ j1.len = job.len /\ j1.incs = w.incs /\ j1.incd = w.incd
      BY <3>2
    <3>4. job.len = dma.cfg_len
      BY <1>2, <1>5, <2>6 DEF MvJob
    <3>5. MvTypes(d1, p1, y1, j1, o1)
      BY <1>2, <1>4, <1>5, <1>10, <2>6, <3>1, <3>3 DEF MvTypes, MvKeeps
    <3>6. MvJob(d1, p1, y1, j1, o1)
      BY <1>8, <1>10, <3>1, <3>3, <3>4 DEF MvJob
    <3>7. MvWaits(d1, p1, y1, j1, o1)
      BY <1>8, <1>10, <3>1, <3>3, <3>4 DEF MvWaits, MvSrc, MvDst
    <3> QED
      BY <3>5, <3>6, <3>7
  <2> QED
    BY <1>5, <2>1, <2>2, <2>3, <2>4, <2>5, <2>6
<1>12. MvReads(d1, p1, y1, j1, o1) /\ MvTurns(d1, p1, y1, j1, o1) /\ MvWrites(d1, p1, y1, j1, o1)
  BY <1>7 DEF MvReads, MvTurns, MvWrites
<1>13. MvDelay(d1, p1, y1)
  BY <1>4, <1>6 DEF MvDelay, MvKeeps
<1> QED
  BY <1>3, <1>11, <1>12, <1>13 DEF MvInv

\* A clock in which a transfer runs.
LEMMA MvRuns ==
  ASSUME NEW w, NEW b, NEW dev, MvInv(dma, pend, dly, job, out), MvTick(w, b, dev),
         dma.dma_state # "IDLE"
  PROVE  /\ MvKeeps(dma', pend', dly')
         /\ b.stall \in BOOLEAN /\ b.ack \in BOOLEAN /\ b.err \in BOOLEAN
         /\ job.at = "on" /\ job'.at = "on" /\ job'.len = job.len
         /\ job'.incs = job.incs /\ job'.incd = job.incd
         /\ dma.cfg_incs = job.incs /\ dma.cfg_incd = job.incd
         /\ dma'.cfg_incs = job.incs /\ dma'.cfg_incd = job.incd
         /\ dma'.cfg_blocklen_sub_one = dma.cfg_blocklen_sub_one
         /\ dma'.dma_state = Mover!dma_state(w, b)
         /\ dma'.cfg_len = IF Mover!cyc /\ Mover!we /\ b.ack
                           THEN (dma.cfg_len + DmaSpace - 1) % DmaSpace ELSE dma.cfg_len
         /\ out' = IF Mover!we /\ Mover!Taken(b) THEN Append(out, <<dma.addr, dma.data>>) ELSE out
         /\ dma'.o_interrupt /\ ~dma'.cfg_err =>
              dma.dma_state = "WRITE_ACK" /\ b.ack /\ dma.last_write_ack /\ dma.cfg_len = 1
<1>1. /\ w \in Mover!Offers \cup [op : {"none"}]
      /\ b \in [stall : BOOLEAN, ack : BOOLEAN, err : BOOLEAN]
      /\ Mover!Registers(w, b, dev) /\ Mover!Program(w) /\ Mover!Written(w, b)
      /\ dma.dma_state \in {"WAIT", "PRE_WRITE"} => ~b.ack /\ ~b.err
  BY MvSees DEF MvInv, MvTypes
<1>2. MvTypes(dma, pend, dly, job, out) /\ MvJob(dma, pend, dly, job, out)
  BY DEF MvInv
<1>3. /\ w.op \in {"none", "abort", "halt"}
      /\ job.at = "on" /\ job'.at = "on" /\ job'.len = job.len
      /\ job'.incs = job.incs /\ job'.incd = job.incd
  BY <1>1, <1>2, MvJobStays
<1>4. dma.cfg_incs = job.incs /\ dma.cfg_incd = job.incd
  BY <1>2 DEF MvJob
<1>5. dma'.cfg_incs = dma.cfg_incs /\ dma'.cfg_incd = dma.cfg_incd
      /\ dma'.cfg_blocklen_sub_one = dma.cfg_blocklen_sub_one
      /\ dma'.dma_state = Mover!dma_state(w, b) /\ dma'.cfg_len = Mover!cfg_len(w, b)
  BY <1>1, MvWires DEF Mover!In
<1>6. dma'.cfg_len = IF Mover!cyc /\ Mover!we /\ b.ack
                     THEN (dma.cfg_len + DmaSpace - 1) % DmaSpace ELSE dma.cfg_len
  BY <1>5 DEF Mover!cfg_len, Mover!In
<1>7. out' = IF Mover!we /\ Mover!Taken(b) THEN Append(out, <<dma.addr, dma.data>>) ELSE out
  BY <1>1, <1>3 DEF Mover!Written
<1>8. dma'.o_interrupt /\ ~dma'.cfg_err =>
        dma.dma_state = "WRITE_ACK" /\ b.ack /\ dma.last_write_ack /\ dma.cfg_len = 1
  <2>1. b.err => Mover!cyc
    BY <1>1, <1>2 DEF MvTypes, Mover!cyc
  <2>2. /\ dma'.o_interrupt =>
             \/ Mover!In("WRITE_ACK") /\ b.ack /\ dma.last_write_ack /\ dma.cfg_len = 1
             \/ b.err
        /\ dma.dma_state # "IDLE" /\ b.err /\ Mover!cyc => dma'.cfg_err
    BY <1>1, ZenonT(30) DEF Mover!Registers, Mover!In
  <2> QED
    BY <2>1, <2>2, ZenonT(30) DEF Mover!In
<1>9. b.stall \in BOOLEAN /\ b.ack \in BOOLEAN /\ b.err \in BOOLEAN
  BY <1>1
<1> QED
  BY <1>1, <1>3, <1>4, <1>5, <1>6, <1>7, <1>8, <1>9, MvKept

LEMMA MvFromWait ==
  ASSUME NEW w, NEW b, NEW dev, MvInv(dma, pend, dly, job, out), MvTick(w, b, dev),
         dma.dma_state = "WAIT"
  PROVE  MvInv(dma', pend', dly', job', out')
<1>1. Mover!Registers(w, b, dev)
  BY MvSees DEF MvInv, MvTypes
<1>2. MvTypes(dma, pend, dly, job, out) /\ MvJob(dma, pend, dly, job, out) /\ MvWaits(dma, pend, dly, job, out)
      /\ pend = << >> /\ ~dly.o_wb_err /\ MvDelay(dma, pend, dly) /\ pend \in Seq(Nat)
      /\ dma.addr \in Nat
  BY DEF MvInv, MvDelay, MvTypes
<1>3. PICK d1, p1, y1, j1, o1 : d1 = dma' /\ p1 = pend' /\ y1 = dly' /\ j1 = job' /\ o1 = out'
  OBVIOUS
<1>4. /\ MvKeeps(d1, p1, y1) /\ j1.at = "on" /\ job.at = "on" /\ j1.len = job.len
      /\ j1.incs = job.incs /\ j1.incd = job.incd
      /\ d1.cfg_incs = job.incs /\ d1.cfg_incd = job.incd
      /\ d1.cfg_blocklen_sub_one = dma.cfg_blocklen_sub_one
      /\ d1.cfg_len = dma.cfg_len /\ o1 = out /\ ~(d1.o_interrupt /\ ~d1.cfg_err)
  BY <1>3, MvRuns DEF Mover!cyc, Mover!we
<1>5. ~b.ack /\ ~b.err /\ ~Mover!Taken(b)
  BY <1>2, MvSees DEF Mover!Taken, Mover!stb
<1>6. /\ d1.cfg_raddr = dma.cfg_raddr /\ d1.cfg_waddr = dma.cfg_waddr
      /\ d1.addr = dma.cfg_raddr /\ d1.nread = 0 /\ d1.nracks = 0 /\ d1.rdaddr = 0
  BY <1>1, <1>3, <1>5, MvWires DEF Mover!In, Mover!cfg_raddr, Mover!cfg_waddr, Mover!cyc, Mover!addr,
     Mover!Count, Mover!Between, Mover!rdaddr
<1>7. /\ d1.dma_state \in {"IDLE", "WAIT", "READ_REQ"}
      /\ d1.dma_state = "READ_REQ" => dma.trigger
  BY <1>1, <1>3, MvWires DEF Mover!In, Mover!dma_state
<1>8. d1.last_read_request <=> \/ dma.nracks = dma.cfg_blocklen_sub_one
                               \/ dma.nracks + 1 = dma.cfg_len
  <2>1. dma'.last_read_request <=> Mover!last_read_request(b)
    BY <1>1, ZenonT(30) DEF Mover!Registers
  <2>2. Mover!last_read_request(b) <=> \/ dma.nracks = dma.cfg_blocklen_sub_one
                                       \/ dma.nracks + 1 = dma.cfg_len
    BY DEF Mover!last_read_request, Mover!In
  <2> QED
    BY <1>3, <2>1, <2>2, ZenonT(30)
<1>9. ~d1.last_read_ack
  <2>1. dma'.last_read_ack <=> Mover!last_read_ack(b)
    BY <1>1, ZenonT(30) DEF Mover!Registers
  <2>2. ~Mover!last_read_ack(b)
    BY DEF Mover!last_read_ack, Mover!In
  <2> QED
    BY <1>3, <2>1, <2>2, ZenonT(30)
<1>10. p1 = << >> /\ ~y1.o_wb_err
  BY <1>2, <1>3, MvOwed DEF Mover!cyc
<1>11. MvTypes(d1, p1, y1, j1, o1)
  BY <1>2, <1>4, <1>7 DEF MvTypes, MvKeeps
<1>12. MvJob(d1, p1, y1, j1, o1)
  BY <1>2, <1>4 DEF MvJob, MvSrc, MvDst
<1>13. MvWaits(d1, p1, y1, j1, o1)
  BY <1>2, <1>4, <1>6 DEF MvWaits, MvSrc, MvDst
<1>14. MvReads(d1, p1, y1, j1, o1)
  <2> SUFFICES ASSUME d1.dma_state = "READ_REQ" PROVE MvReads(d1, p1, y1, j1, o1)
    BY <1>7 DEF MvReads
  <2>1. dma.nracks = 0 /\ dma.cfg_len >= 1 /\ dma.cfg_len \in Nat
        /\ dma.cfg_blocklen_sub_one \in Nat /\ Len(out) \in Nat
        /\ Len(out) + dma.cfg_len = job.len /\ job.len \in Nat
        /\ dma.cfg_raddr = MvSrc(job, Len(out)) /\ dma.cfg_waddr = MvDst(job, Len(out))
    BY <1>2, <1>7, DmaAssumption DEF MvWaits, MvTypes
  <2>2. MvBuffer(d1, j1, o1)
    BY <1>4, <1>6, <2>1 DEF MvBuffer, MvSrc, MvDst
  <2>3. ~d1.last_read_request => dma.cfg_blocklen_sub_one > 0 /\ dma.cfg_len > 1
    BY <1>8, <2>1
  <2>4. d1.addr = MvSrc(j1, Len(o1) + d1.nracks)
    BY <1>4, <1>6, <2>1 DEF MvSrc
  <2> QED
    BY <1>4, <1>6, <1>9, <1>10, <2>1, <2>2, <2>3, <2>4 DEF MvReads
<1>15. MvTurns(d1, p1, y1, j1, o1) /\ MvWrites(d1, p1, y1, j1, o1)
  BY <1>7 DEF MvTurns, MvWrites
<1>16. MvDelay(d1, p1, y1)
  BY <1>4, <1>10 DEF MvDelay, MvKeeps
<1> QED
  BY <1>3, <1>11, <1>12, <1>13, <1>14, <1>15, <1>16 DEF MvInv

LEMMA MvFromTurn ==
  ASSUME NEW w, NEW b, NEW dev, MvInv(dma, pend, dly, job, out), MvTick(w, b, dev),
         dma.dma_state = "PRE_WRITE"
  PROVE  MvInv(dma', pend', dly', job', out')
<1>1. Mover!Registers(w, b, dev)
  BY MvSees DEF MvInv, MvTypes
<1>2. MvTypes(dma, pend, dly, job, out) /\ MvJob(dma, pend, dly, job, out) /\ MvTurns(dma, pend, dly, job, out)
      /\ pend = << >> /\ ~dly.o_wb_err /\ MvDelay(dma, pend, dly) /\ pend \in Seq(Nat)
      /\ dma.addr \in Nat
  BY DEF MvInv, MvDelay, MvTypes
<1>3. PICK d1, p1, y1, j1, o1 : d1 = dma' /\ p1 = pend' /\ y1 = dly' /\ j1 = job' /\ o1 = out'
  OBVIOUS
<1>5. ~b.ack /\ ~b.err /\ ~Mover!Taken(b)
  BY <1>2, MvSees DEF Mover!Taken, Mover!stb
<1>4. /\ MvKeeps(d1, p1, y1) /\ j1.at = "on" /\ job.at = "on" /\ j1.len = job.len
      /\ j1.incs = job.incs /\ j1.incd = job.incd
      /\ d1.cfg_incs = job.incs /\ d1.cfg_incd = job.incd
      /\ d1.cfg_len = dma.cfg_len /\ o1 = out /\ ~(d1.o_interrupt /\ ~d1.cfg_err)
  BY <1>3, <1>5, MvRuns
<1>6. /\ d1.cfg_raddr = dma.cfg_raddr /\ d1.cfg_waddr = dma.cfg_waddr /\ d1.addr = dma.cfg_waddr
      /\ d1.nread = dma.nread /\ d1.nwritten = 0 /\ d1.nwacks = 0
      /\ d1.dma_mem = dma.dma_mem /\ d1.data = dma.dma_mem[dma.rdaddr]
      /\ d1.rdaddr = (dma.rdaddr + 1) % Block
  BY <1>1, <1>3, <1>5, MvWires DEF Mover!In, Mover!cfg_raddr, Mover!cfg_waddr, Mover!cyc, Mover!addr,
     Mover!Count, Mover!Between, Mover!rdaddr, Mover!dma_mem, Mover!we
<1>7. d1.dma_state \in {"IDLE", "WRITE_REQ"}
  BY <1>1, <1>3, MvWires DEF Mover!In, Mover!dma_state
<1>8. d1.last_write_request <=> dma.nread <= 1
  <2>1. dma'.last_write_request <=> Mover!last_write_request(b)
    BY <1>1, ZenonT(30) DEF Mover!Registers
  <2>2. Mover!last_write_request(b) <=> dma.nread <= 1
    BY DEF Mover!last_write_request, Mover!In
  <2> QED
    BY <1>3, <2>1, <2>2, ZenonT(30)
<1>9. ~d1.last_write_ack
  <2>1. dma'.last_write_ack <=> Mover!last_write_ack(b)
    BY <1>1, ZenonT(30) DEF Mover!Registers
  <2>2. ~Mover!last_write_ack(b)
    BY DEF Mover!last_write_ack, Mover!In
  <2> QED
    BY <1>3, <2>1, <2>2, ZenonT(30)
<1>10. p1 = << >> /\ ~y1.o_wb_err /\ ~y1.o_wb_ack
  <2>1. p1 = << >> /\ ~y1.o_wb_err
    BY <1>2, <1>3, MvOwed DEF Mover!cyc
  <2>2. /\ Len(p1) >= y1.held + (IF y1.o_wb_ack THEN 1 ELSE 0)
        /\ y1.held \in 0 .. 2 /\ y1.o_wb_ack \in BOOLEAN
    BY <1>4 DEF MvKeeps, MvHeld
  <2>3. Len(p1) = 0
    BY <2>1
  <2> QED
    BY <2>1, <2>2, <2>3
<1>20. /\ Block \in Nat /\ Block >= 2 /\ Len(out) \in Nat /\ job.len \in Nat /\ dma.cfg_len \in Nat
       /\ MvBuffer(dma, job, out) /\ dma.nread \in 1 .. Block /\ dma.nread <= dma.cfg_len
  <2>1. Block \in Nat /\ Block >= 2 /\ MaxMove \in Nat
    BY DmaAssumption
  <2>2. Len(out) \in Nat /\ job.len \in 0 .. MaxMove /\ dma.cfg_len \in 0 .. MaxMove
        /\ dma.nread \in 0 .. 2 * Block - 1
    BY <1>2 DEF MvTypes
  <2>3. MvBuffer(dma, job, out) /\ dma.nread >= 1 /\ dma.nread <= Block /\ dma.nread <= dma.cfg_len
    BY <1>2 DEF MvTurns
  <2> QED
    BY <2>1, <2>2, <2>3
<1>11. MvTypes(d1, p1, y1, j1, o1)
  BY <1>2, <1>4, <1>7 DEF MvTypes, MvKeeps
<1>12. MvJob(d1, p1, y1, j1, o1)
  BY <1>2, <1>4 DEF MvJob, MvSrc, MvDst
<1>13. MvWaits(d1, p1, y1, j1, o1) /\ MvTurns(d1, p1, y1, j1, o1) /\ MvReads(d1, p1, y1, j1, o1)
  BY <1>7 DEF MvWaits, MvTurns, MvReads
<1>14. MvWrites(d1, p1, y1, j1, o1)
  <2>1. d1.rdaddr = 1 /\ d1.data = MvSrc(job, Len(out))
    <3>1. dma.rdaddr = 0 /\ \A i \in 0 .. dma.nread - 1 : dma.dma_mem[i] = MvSrc(job, Len(out) + i)
      BY <1>20 DEF MvBuffer
    <3>2. (0 + 1) % Block = 1
      BY <1>20, SmallMod
    <3>3. dma.dma_mem[0] = MvSrc(job, Len(out) + 0) /\ Len(out) + 0 = Len(out)
      BY <1>20, <3>1
    <3> QED
      BY <1>6, <3>1, <3>2, <3>3
  <2>2. \A i \in 0 .. d1.nread - 1 : d1.dma_mem[i] = MvSrc(j1, Len(o1) - d1.nwritten + i)
    <3>1. \A i \in 0 .. dma.nread - 1 : dma.dma_mem[i] = MvSrc(job, Len(out) + i)
      BY <1>20 DEF MvBuffer
    <3>2. \A i \in 0 .. dma.nread - 1 : Len(out) - 0 + i = Len(out) + i
      BY <1>20
    <3> QED
      BY <1>4, <1>6, <3>1, <3>2 DEF MvSrc
  <2>3. Len(o1) - d1.nwritten + d1.nread = Len(out) + dma.nread
    BY <1>4, <1>6, <1>20
  <2>4. d1.cfg_raddr = MvSrc(j1, Len(o1) - d1.nwritten + d1.nread)
        /\ d1.cfg_waddr = MvDst(j1, Len(o1)) /\ d1.addr = MvDst(j1, Len(o1))
    BY <1>4, <1>6, <1>20, <2>3 DEF MvBuffer, MvSrc, MvDst
  <2>5. Len(o1) + d1.cfg_len + d1.nwacks = j1.len + d1.nwritten /\ Len(o1) <= j1.len
    BY <1>4, <1>6, <1>20 DEF MvBuffer
  <2>6. d1.last_write_request <=> d1.nwritten + 1 = d1.nread
    BY <1>6, <1>8, <1>20
  <2>7. d1.data = MvSrc(j1, Len(o1))
    BY <1>4, <2>1 DEF MvSrc
  <2> QED
    BY <1>4, <1>6, <1>7, <1>9, <1>10, <1>20, <2>1, <2>2, <2>4, <2>5, <2>6, <2>7 DEF MvWrites
<1>15. MvDelay(d1, p1, y1)
  BY <1>4, <1>10 DEF MvDelay, MvKeeps
<1> QED
  BY <1>3, <1>11, <1>12, <1>13, <1>14, <1>15 DEF MvInv

\* A clock in which a block is read: the buffer takes the next word, and the
\* next request joins those that are owed.
LEMMA MvReading ==
  ASSUME NEW w, NEW b, NEW dev, MvInv(dma, pend, dly, job, out), MvTick(w, b, dev),
         dma.dma_state \in {"READ_REQ", "READ_ACK"}
  PROVE  LET a == IF b.ack THEN 1 ELSE 0
             t == IF Mover!Taken(b) THEN 1 ELSE 0
         IN  /\ b.ack => dma.nread < dma.nracks /\ Len(pend) = dma.nracks - dma.nread
             /\ Mover!Taken(b) <=> dma.dma_state = "READ_REQ" /\ ~b.stall
             /\ dma'.nread = dma.nread + a /\ dma'.nracks = dma.nracks + t
             /\ dma'.cfg_len = dma.cfg_len /\ out' = out
             /\ dma'.addr = MvSrc(job, Len(out) + dma'.nracks) \/ dma.dma_state = "READ_ACK"
             /\ dma'.dma_state # "IDLE" => MvBuffer(dma', job', out')
             /\ dma'.dma_state \in {"READ_REQ", "READ_ACK"} /\ ~dly'.o_wb_err =>
                  /\ Len(pend') = dma'.nracks - dma'.nread
                  /\ \A i \in 1 .. Len(pend') :
                       pend'[i] = MvSrc(job, Len(out) + dma'.nread + i - 1)
                  /\ Mover!Taken(b) /\ Len(pend') = 1 => dly'.held = 1
             /\ b.ack /\ dma.nread + 1 = dma.nracks /\ ~Mover!Taken(b) =>
                  pend' = << >> /\ ~dly'.o_wb_err
<1>0. PICK a \in 0 .. 1, t \in 0 .. 1 :
        a = (IF b.ack THEN 1 ELSE 0) /\ t = (IF Mover!Taken(b) THEN 1 ELSE 0)
  OBVIOUS
<1>1. /\ Mover!Registers(w, b, dev) /\ b \in [stall : BOOLEAN, ack : BOOLEAN, err : BOOLEAN]
      /\ MvDelay(dma, pend, dly) /\ (b.ack => ~dly.o_wb_err) /\ (dly.o_wb_err => b.err)
  BY MvSees DEF MvInv, MvTypes
<1>2. MvTypes(dma, pend, dly, job, out) /\ MvReads(dma, pend, dly, job, out) /\ MvBuffer(dma, job, out)
  BY DEF MvInv, MvReads
<1>3. PICK L \in Nat, nr \in Nat, na \in Nat, n \in Nat :
        L = Len(out) /\ nr = dma.nread /\ na = dma.nracks /\ n = Len(pend)
  <2>1. Len(out) \in Nat
    BY <1>2 DEF MvTypes
  <2>2. Len(pend) \in Nat
    BY <1>2 DEF MvTypes
  <2>3. dma.nread \in Nat /\ dma.nracks \in Nat
    <3>1. dma.nread \in 0 .. 2 * Block - 1 /\ dma.nracks \in 0 .. 2 * Block - 1
      BY <1>2 DEF MvTypes
    <3> QED
      BY <3>1
  <2> QED
    BY <2>1, <2>2, <2>3
<1>4. /\ nr <= na /\ (~dly.o_wb_err => n = na - nr) /\ na <= Block /\ nr <= Block - 1 /\ na <= dma.cfg_len
      /\ dma.dma_state = "READ_REQ" => na <= Block - 1 /\ na + 1 <= dma.cfg_len
      /\ L + dma.cfg_len = job.len /\ job.len \in 0 .. MaxMove /\ dma.cfg_len \in 0 .. MaxMove
      /\ MaxMove \in Nat /\ Block \in Nat /\ Block >= 2
  <2>1. dma.cfg_blocklen_sub_one \in 0 .. Block - 1 /\ job.len \in 0 .. MaxMove
        /\ dma.cfg_len \in 0 .. MaxMove
    BY <1>2 DEF MvTypes
  <2>2. Block \in Nat /\ Block >= 2 /\ MaxMove \in Nat
    BY DmaAssumption
  <2>4. L + dma.cfg_len = job.len
    BY <1>2, <1>3 DEF MvBuffer
  <2>5. PICK bl \in 0 .. Block - 1, cl \in 0 .. MaxMove :
          bl = dma.cfg_blocklen_sub_one /\ cl = dma.cfg_len
    BY <2>1
  <2>6. /\ nr <= na /\ (~dly.o_wb_err => n = na - nr) /\ na <= bl + 1 /\ na <= cl
        /\ dma.dma_state = "READ_REQ" => na <= bl /\ na + 1 <= cl
        /\ dma.dma_state = "READ_ACK" => nr < na
    BY <1>2, <1>3, <2>5 DEF MvReads
  <2>9. PICK k \in Nat : k = Block /\ bl <= k - 1
    BY <2>2, <2>5
  <2>10. bl \in Nat /\ cl \in Nat
    BY <2>2, <2>5
  <2>7. na <= k /\ (dma.dma_state = "READ_REQ" => na <= k - 1 /\ na + 1 <= cl)
    <3>1. na <= bl + 1 => na <= k
      BY <2>9, <2>10
    <3>2. na <= bl => na <= k - 1
      BY <2>9, <2>10
    <3> QED
      BY <2>6, <3>1, <3>2
  <2>8. nr <= k - 1
    <3>1. nr <= na /\ na <= k - 1 => nr <= k - 1
      BY <2>9
    <3>2. nr < na /\ na <= k => nr <= k - 1
      BY <2>9
    <3> QED
      BY <2>6, <2>7, <3>1, <3>2
  <2> QED
    BY <2>1, <2>2, <2>4, <2>5, <2>6, <2>7, <2>8, <2>9
\* After an error the controller is idle.
<1>17. dma'.dma_state # "IDLE" => ~dly.o_wb_err
  BY <1>1, MvWires DEF Mover!In, Mover!dma_state
<1>18. Mover!cyc
  BY DEF Mover!cyc
<1>5. /\ b.ack => n >= 1 /\ Head(pend) = pend[1]
      /\ dma'.dma_state \in {"READ_REQ", "READ_ACK"} /\ ~dly'.o_wb_err =>
           /\ Len(pend') = n - a + t
           /\ \A i \in 1 .. n - a : pend'[i] = pend[i + a]
           /\ Mover!Taken(b) => pend'[n - a + 1] = dma.addr
           /\ dly'.held + 1 >= dly.held + t
           /\ dly.held = 0 => dly'.held = t
      /\ n = a /\ ~Mover!Taken(b) => pend' = << >> /\ ~dly'.o_wb_err
  <2>1. pend \in Seq(Nat) /\ dma.addr \in Nat
    BY <1>2 DEF MvTypes
  <2>2. b.ack => n >= 1 /\ Head(pend) = pend[1]
    BY <1>1, <1>3, <2>1, MvSees
  <2>3. /\ Mover!cyc /\ ~dly.o_wb_err /\ ~dly'.o_wb_err =>
             /\ Len(pend') = Len(pend) - a + t
             /\ \A i \in 1 .. Len(pend) - a : pend'[i] = pend[i + a]
             /\ Mover!Taken(b) => pend'[Len(pend) - a + 1] = dma.addr
             /\ dly'.held + 1 >= dly.held + t
             /\ dly.held = 0 => dly'.held = t
        /\ Len(pend) = a /\ ~Mover!Taken(b) => pend' = << >> /\ ~dly'.o_wb_err
    BY <1>0, <1>1, <2>1, MvOwed
  <2>4. dma'.dma_state \in {"READ_REQ", "READ_ACK"} => dma'.dma_state # "IDLE"
    OBVIOUS
  <2> QED
    BY <1>3, <1>17, <1>18, <2>2, <2>3, <2>4
<1>16. nr <= na /\ (~dly.o_wb_err => n = na - nr) /\ (b.ack => n >= 1 /\ n = na - nr)
  BY <1>1, <1>4, <1>5
<1>6. Mover!Taken(b) <=> dma.dma_state = "READ_REQ" /\ ~b.stall
  BY DEF Mover!Taken, Mover!stb
<1>7. /\ job'.incs = job.incs /\ job'.incd = job.incd /\ job'.len = job.len
      /\ dma.cfg_incs = job.incs /\ dma.cfg_incd = job.incd
      /\ dma'.cfg_len = dma.cfg_len /\ out' = out
  BY MvRuns DEF Mover!cyc, Mover!we
<1>8. dma'.nread = nr + a /\ dma'.nracks = na + t
  <2>1. /\ dma'.nread = IF b.ack THEN (nr + 1) % (2 * Block) ELSE nr
        /\ dma'.nracks = IF Mover!Taken(b) THEN (na + 1) % (2 * Block) ELSE na
    BY <1>1, <1>3, MvWires DEF Mover!Count, Mover!Between, Mover!we
  <2>2. (nr + 1) % (2 * Block) = nr + 1 /\ (na + 1) % (2 * Block) = na + 1
    BY <1>4, MvSteps
  <2> QED
    BY <1>0, <2>1, <2>2
<1>9. /\ dma'.cfg_waddr = dma.cfg_waddr /\ dma'.rdaddr = dma.rdaddr
      /\ dma'.cfg_raddr = IF b.ack /\ ~dma.abort /\ job.incs THEN Mover!Inc(dma.cfg_raddr)
                          ELSE dma.cfg_raddr
      /\ dma'.addr = IF Mover!Taken(b) /\ job.incs THEN Mover!Inc(dma.addr) ELSE dma.addr
      /\ dma'.dma_mem = [dma.dma_mem EXCEPT ![nr % Block] =
                           IF b.ack THEN Head(pend) ELSE Mover!Junk]
  BY <1>1, <1>3, <1>7, MvWires DEF Mover!In, Mover!cfg_raddr, Mover!cfg_waddr, Mover!cyc, Mover!addr,
     Mover!rdaddr, Mover!dma_mem, Mover!we
<1>10. dma.abort => dma'.dma_state = "IDLE"
  BY <1>1, MvWires DEF Mover!In, Mover!dma_state
<1>11. dma'.addr = MvSrc(job, Len(out) + dma'.nracks) \/ dma.dma_state = "READ_ACK"
  <2> SUFFICES ASSUME dma.dma_state = "READ_REQ" PROVE dma'.addr = MvSrc(job, L + dma'.nracks)
    BY <1>2, <1>3
  <2>1. dma.addr = MvSrc(job, L + na)
    BY <1>2, <1>3 DEF MvReads
  <2>2. job.incs => Mover!Inc(L + na) = L + na + 1
    BY <1>4, MvSteps
  <2>3. L + (na + 1) = L + na + 1
    BY <1>4
  <2>4. CASE Mover!Taken(b)
    BY <1>0, <1>8, <1>9, <2>1, <2>2, <2>3, <2>4 DEF MvSrc
  <2>5. CASE ~Mover!Taken(b)
    BY <1>0, <1>3, <1>8, <1>9, <2>1, <2>5 DEF MvSrc
  <2> QED
    BY <2>4, <2>5
<1>12. b.ack => Head(pend) = MvSrc(job, L + nr)
  <2>1. b.ack => \A i \in 1 .. n : pend[i] = MvSrc(job, L + nr + i - 1)
    BY <1>1, <1>2, <1>3 DEF MvReads
  <2>2. L + nr + 1 - 1 = L + nr
    BY <1>3
  <2> QED
    BY <1>5, <2>1, <2>2
<1>13. ASSUME dma'.dma_state # "IDLE" PROVE MvBuffer(dma', job', out')
  <2>1. dma'.cfg_raddr = MvSrc(job, L + (nr + a))
    <3>1. dma.cfg_raddr = MvSrc(job, L + nr)
      BY <1>2, <1>3 DEF MvBuffer
    <3>2. b.ack => Mover!Inc(L + nr) = L + (nr + 1)
      <4>1. PICK x \in Nat, cl \in Nat, jl \in Nat :
              /\ x = L + nr /\ cl = dma.cfg_len /\ jl = job.len /\ L + cl = jl /\ na <= cl
              /\ jl <= MaxMove /\ MaxMove \in Nat
        BY <1>4
      <4>2. b.ack => x \in 0 .. MaxMove - 1
        BY <1>16, <4>1
      <4>3. x + 1 = L + (nr + 1)
        BY <4>1
      <4> QED
        BY <4>1, <4>2, <4>3, MvSteps
    <3>3. CASE b.ack
      BY <1>0, <1>9, <1>10, <1>13, <3>1, <3>2, <3>3 DEF MvSrc
    <3>4. CASE ~b.ack
      BY <1>0, <1>3, <1>9, <3>1, <3>4 DEF MvSrc
    <3> QED
      BY <3>3, <3>4
  <2>2. ASSUME NEW i \in 0 .. nr + a - 1
        PROVE  dma'.dma_mem[i] = MvSrc(job, L + i)
    <3>1. nr % Block = nr /\ nr \in 0 .. Block - 1 /\ i \in 0 .. Block - 1
      <4>1. nr \in 0 .. Block - 1 /\ i \in 0 .. nr
        BY <1>0, <1>3, <1>4
      <4>2. nr % Block = nr
        BY <4>1, MvSteps
      <4> QED
        BY <1>4, <4>1, <4>2
    <3>2. dma.dma_mem \in [0 .. Block - 1 -> Nat]
      BY <1>2 DEF MvTypes
    <3>3. CASE i = nr /\ b.ack
      BY <1>9, <1>12, <3>1, <3>2, <3>3
    <3>4. CASE i < nr
      <4>1. dma.dma_mem[i] = MvSrc(job, L + i)
        <5>1. i \in 0 .. dma.nread - 1
          BY <1>3, <3>4
        <5> QED
          BY <1>2, <1>3, <5>1 DEF MvBuffer
      <4> QED
        BY <1>9, <3>1, <3>2, <3>4, <4>1
    <3> QED
      BY <1>0, <1>3, <3>3, <3>4
  <2>3. dma.rdaddr = 0 /\ dma.cfg_waddr = MvDst(job, L) /\ L + dma.cfg_len = job.len
    BY <1>2, <1>3 DEF MvBuffer
  <2>4. PICK k \in Nat : k = dma'.nread /\ k = nr + a
    BY <1>3, <1>8
  <2> QED
    BY <1>3, <1>7, <1>9, <2>1, <2>2, <2>3, <2>4 DEF MvBuffer, MvSrc, MvDst
<1>14. ASSUME dma'.dma_state \in {"READ_REQ", "READ_ACK"}, ~dly'.o_wb_err
       PROVE  /\ Len(pend') = dma'.nracks - dma'.nread
              /\ \A i \in 1 .. Len(pend') : pend'[i] = MvSrc(job, L + dma'.nread + i - 1)
              /\ Mover!Taken(b) /\ Len(pend') = 1 => dly'.held = 1
  <2>1. a <= n /\ n = na - nr
    <3>1. n = na - nr
      BY <1>14, <1>16, <1>17
    <3> QED
      BY <1>0, <1>3, <1>5, <3>1
  <2>2. PICK m \in Nat : m = n - a + t /\ m = (na + t) - (nr + a)
    BY <1>16, <2>1
  <2>3. Len(pend') = m
    BY <1>5, <1>14, <2>2
  <2>4. ASSUME NEW i \in 1 .. m
        PROVE  pend'[i] = MvSrc(job, L + (nr + a) + i - 1)
    <3>1. CASE i \in 1 .. n - a
      <4>1. i + a \in 1 .. n /\ L + nr + (i + a) - 1 = L + (nr + a) + i - 1
        BY <2>1, <3>1
      <4>3. ~dly.o_wb_err
        BY <1>14, <1>17
      <4>2. pend[i + a] = MvSrc(job, L + nr + (i + a) - 1)
        BY <1>2, <1>3, <4>1, <4>3 DEF MvReads
      <4> QED
        BY <1>5, <1>14, <3>1, <4>1, <4>2
    <3>2. CASE t = 1 /\ i = n - a + 1
      <4>1. L + na = L + (nr + a) + i - 1
        BY <1>16, <2>1, <3>2
      <4>2. dma.addr = MvSrc(job, L + na)
        BY <1>0, <1>2, <1>3, <1>6, <3>2 DEF MvReads
      <4>3. pend'[n - a + 1] = dma.addr
        BY <1>0, <1>5, <1>14, <3>2
      <4> QED
        BY <3>2, <4>1, <4>2, <4>3
    <3>3. i \in 1 .. n - a \/ (t = 1 /\ i = n - a + 1)
      BY <2>1, <2>2
    <3> QED
      BY <3>1, <3>2, <3>3
  <2>5. Mover!Taken(b) /\ m = 1 => dly'.held = 1
    <3>1. dly.held \in 0 .. 2 /\ n >= dly.held + (IF dly.o_wb_ack THEN 1 ELSE 0)
      BY <1>1, <1>3 DEF MvDelay, MvHeld
    <3>2. dly.o_wb_ack = b.ack
      BY <1>1, <1>2, MvSees DEF MvTypes
    <3>3. Mover!Taken(b) /\ m = 1 => t = 1 /\ n = a
      BY <1>0, <2>1, <2>2
    <3>4. n = a => dly.held = 0
      BY <1>0, <3>1, <3>2
    <3> QED
      BY <1>5, <1>14, <3>3, <3>4
  <2> QED
    BY <1>8, <2>2, <2>3, <2>4, <2>5
<1>15. b.ack => dma.nread < dma.nracks /\ Len(pend) = dma.nracks - dma.nread
  BY <1>3, <1>16
<1>19. b.ack /\ dma.nread + 1 = dma.nracks /\ ~Mover!Taken(b) => pend' = << >> /\ ~dly'.o_wb_err
  <2>1. b.ack /\ dma.nread + 1 = dma.nracks => n = a
    BY <1>0, <1>3, <1>16
  <2> QED
    BY <1>5, <2>1
<1> QED
  BY <1>19, <1>0, <1>3, <1>5, <1>6, <1>7, <1>8, <1>11, <1>13, <1>14, <1>15

LEMMA MvFromRead ==
  ASSUME NEW w, NEW b, NEW dev, MvInv(dma, pend, dly, job, out), MvTick(w, b, dev),
         dma.dma_state \in {"READ_REQ", "READ_ACK"}
  PROVE  MvInv(dma', pend', dly', job', out')
<1>1. /\ Mover!Registers(w, b, dev) /\ MvDelay(dma, pend, dly)
      /\ b.ack = dly.o_wb_ack /\ (b.ack => ~dly.o_wb_err) /\ (dly.o_wb_err => b.err)
  BY MvSees DEF MvInv, MvTypes
<1>2. MvTypes(dma, pend, dly, job, out) /\ MvJob(dma, pend, dly, job, out) /\ MvReads(dma, pend, dly, job, out)
  BY DEF MvInv
<1>3. PICK d1, p1, y1, j1, o1 : d1 = dma' /\ p1 = pend' /\ y1 = dly' /\ j1 = job' /\ o1 = out'
  OBVIOUS
<1>4. /\ MvKeeps(d1, p1, y1) /\ j1.at = "on" /\ job.at = "on" /\ j1.len = job.len
      /\ j1.incs = job.incs /\ j1.incd = job.incd
      /\ d1.cfg_incs = job.incs /\ d1.cfg_incd = job.incd
      /\ d1.cfg_blocklen_sub_one = dma.cfg_blocklen_sub_one
      /\ ~(d1.o_interrupt /\ ~d1.cfg_err)
      /\ b.stall \in BOOLEAN /\ b.ack \in BOOLEAN
  BY <1>3, MvRuns
<1>5. PICK a \in 0 .. 1, t \in 0 .. 1 :
        a = (IF b.ack THEN 1 ELSE 0) /\ t = (IF Mover!Taken(b) THEN 1 ELSE 0)
  OBVIOUS
<1>6. /\ b.ack => dma.nread < dma.nracks /\ Len(pend) = dma.nracks - dma.nread
      /\ Mover!Taken(b) <=> dma.dma_state = "READ_REQ" /\ ~b.stall
      /\ d1.nread = dma.nread + a /\ d1.nracks = dma.nracks + t
      /\ d1.cfg_len = dma.cfg_len /\ o1 = out
      /\ d1.addr = MvSrc(job, Len(out) + d1.nracks) \/ dma.dma_state = "READ_ACK"
      /\ d1.dma_state # "IDLE" => MvBuffer(d1, j1, o1)
      /\ d1.dma_state \in {"READ_REQ", "READ_ACK"} /\ ~y1.o_wb_err =>
           /\ Len(p1) = d1.nracks - d1.nread
           /\ \A i \in 1 .. Len(p1) : p1[i] = MvSrc(job, Len(out) + d1.nread + i - 1)
           /\ Mover!Taken(b) /\ Len(p1) = 1 => y1.held = 1
      /\ b.ack /\ dma.nread + 1 = dma.nracks /\ ~Mover!Taken(b) => p1 = << >> /\ ~y1.o_wb_err
  BY <1>3, <1>5, MvReading
<1>7. PICK nr \in Nat, na \in Nat, bl \in Nat, cl \in Nat :
        /\ nr = dma.nread /\ na = dma.nracks /\ bl = dma.cfg_blocklen_sub_one /\ cl = dma.cfg_len
        /\ bl <= Block - 1 /\ Block \in Nat
  <2>1. /\ dma.nread \in 0 .. 2 * Block - 1 /\ dma.nracks \in 0 .. 2 * Block - 1
        /\ dma.cfg_blocklen_sub_one \in 0 .. Block - 1 /\ dma.cfg_len \in 0 .. MaxMove
    BY <1>2 DEF MvTypes
  <2>2. Block \in Nat /\ MaxMove \in Nat
    BY DmaAssumption
  <2>3. dma.cfg_blocklen_sub_one <= Block - 1
    BY <2>1, <2>2
  <2> QED
    BY <2>1, <2>2, <2>3
<1>8. /\ nr <= na /\ na <= bl + 1 /\ na <= cl
      /\ dma.dma_state = "READ_REQ" =>
           /\ na <= bl /\ na + 1 <= cl
           /\ ~dma.last_read_request => na < bl /\ na + 1 < cl
           /\ dma.last_read_ack => nr >= bl
      /\ dma.dma_state = "READ_ACK" =>
           /\ nr < na
           /\ dma.last_read_ack => nr + 1 = na
           /\ nr + 1 = na => dma.last_read_ack \/ dly.held >= 1 \/ dly.o_wb_err
  BY <1>2, <1>7 DEF MvReads
<1>9. /\ d1.dma_state \in {"IDLE", "READ_REQ", "READ_ACK", "PRE_WRITE"}
      /\ d1.dma_state = "PRE_WRITE" => b.ack /\ dma.last_read_ack
      /\ d1.dma_state = "READ_REQ" => /\ dma.dma_state = "READ_REQ"
                                      /\ b.stall \/ ~dma.last_read_request
      /\ d1.dma_state = "READ_ACK" => /\ dma.dma_state = "READ_REQ" => ~b.stall
                                      /\ ~(b.ack /\ dma.last_read_ack)
  BY <1>1, <1>3, MvWires DEF Mover!In, Mover!dma_state
<1>10. dma.dma_state = "READ_REQ" =>
         /\ d1.last_read_request <=> na + t = bl \/ na + t + 1 = cl
         /\ d1.last_read_ack => (IF t = 0 THEN nr + a ELSE nr) = bl
  <2> SUFFICES ASSUME dma.dma_state = "READ_REQ"
               PROVE  /\ d1.last_read_request <=> na + t = bl \/ na + t + 1 = cl
                      /\ d1.last_read_ack => (IF t = 0 THEN nr + a ELSE nr) = bl
    OBVIOUS
  <2>1. /\ dma'.last_read_request <=> Mover!last_read_request(b)
        /\ dma'.last_read_ack <=> Mover!last_read_ack(b)
    BY <1>1, ZenonT(30) DEF Mover!Registers
  <2>2. Mover!last_read_request(b) <=> na + t = bl \/ na + t + 1 = cl
    BY <1>5, <1>6, <1>7 DEF Mover!last_read_request, Mover!In
  <2>3. Mover!last_read_ack(b) => (IF t = 0 THEN nr + a ELSE nr) = bl
    BY <1>5, <1>6, <1>7 DEF Mover!last_read_ack, Mover!In
  <2> QED
    BY <1>3, <2>1, <2>2, <2>3, ZenonT(30)
<1>11. dma.dma_state = "READ_ACK" => (d1.last_read_ack <=> nr + a + 1 = na)
  <2> SUFFICES ASSUME dma.dma_state = "READ_ACK" PROVE d1.last_read_ack <=> nr + a + 1 = na
    OBVIOUS
  <2>1. dma'.last_read_ack <=> Mover!last_read_ack(b)
    BY <1>1, ZenonT(30) DEF Mover!Registers
  <2>2. Mover!last_read_ack(b) <=> nr + a + 1 = na
    BY <1>5, <1>6, <1>7 DEF Mover!last_read_ack, Mover!In
  <2> QED
    BY <1>3, <2>1, <2>2, ZenonT(30)
<1>12. MvTypes(d1, p1, y1, j1, o1)
  BY <1>2, <1>4, <1>6, <1>9 DEF MvTypes, MvKeeps
<1>13. MvJob(d1, p1, y1, j1, o1)
  BY <1>2, <1>4, <1>6 DEF MvJob, MvSrc, MvDst
<1>14. PICK nr1 \in Nat, na1 \in Nat :
         nr1 = d1.nread /\ na1 = d1.nracks /\ nr1 = nr + a /\ na1 = na + t
  <2>1. nr + a \in Nat /\ na + t \in Nat
    OBVIOUS
  <2>2. d1.nread = nr + a /\ d1.nracks = na + t
    BY <1>6, <1>7
  <2> QED
    BY <2>1, <2>2
<1>15. (b.ack <=> a = 1) /\ (a = 1 => nr < na)
       /\ (t = 1 <=> dma.dma_state = "READ_REQ" /\ ~b.stall)
  BY <1>4, <1>5, <1>6, <1>7
<1>16. ASSUME d1.dma_state = "READ_REQ" PROVE MvReads(d1, p1, y1, j1, o1)
  <2>1. dma.dma_state = "READ_REQ" /\ (t = 1 => ~dma.last_read_request)
    BY <1>9, <1>15, <1>16
  <2>2. na1 <= bl /\ na1 + 1 <= cl /\ nr1 <= na1
    BY <1>8, <1>14, <1>15, <2>1
  <2>3. ~d1.last_read_request => na1 < bl /\ na1 + 1 < cl
    <3>1. ~d1.last_read_request => na1 # bl /\ na1 + 1 # cl
      BY <1>10, <1>14, <2>1
    <3> QED
      BY <2>2, <3>1
  <2>4. d1.last_read_ack => nr1 >= bl
    <3>1. d1.last_read_ack => (IF t = 0 THEN nr + a ELSE nr) = bl
      BY <1>10, <2>1
    <3> QED
      BY <1>14, <3>1
  <2>5. d1.addr = MvSrc(j1, Len(o1) + d1.nracks)
    BY <1>4, <1>6, <2>1 DEF MvSrc
  <2>6. /\ MvBuffer(d1, j1, o1)
        /\ ~y1.o_wb_err =>
             /\ Len(p1) = d1.nracks - d1.nread
             /\ \A i \in 1 .. Len(p1) : p1[i] = MvSrc(j1, Len(o1) + d1.nread + i - 1)
    BY <1>4, <1>6, <1>14, <1>16 DEF MvSrc
  <2>7. d1.cfg_len = cl /\ d1.cfg_blocklen_sub_one = bl
    BY <1>4, <1>6, <1>7
  <2>9. /\ d1.nread <= d1.nracks /\ d1.nracks <= d1.cfg_blocklen_sub_one
        /\ d1.nracks <= d1.cfg_blocklen_sub_one + 1
        /\ d1.nracks + 1 <= d1.cfg_len /\ d1.nracks <= d1.cfg_len
        /\ ~d1.last_read_request => /\ d1.nracks < d1.cfg_blocklen_sub_one
                                    /\ d1.nracks + 1 < d1.cfg_len
        /\ d1.last_read_ack => d1.nread >= d1.cfg_blocklen_sub_one
    <3>1. na1 <= bl + 1 /\ na1 <= cl
      BY <1>7, <1>14, <2>2
    <3> QED
      BY <1>14, <2>2, <2>3, <2>4, <2>7, <3>1
  <2> QED
    BY <1>16, <2>5, <2>6, <2>9, ZenonT(30) DEF MvReads
<1>17. ASSUME d1.dma_state = "READ_ACK" PROVE MvReads(d1, p1, y1, j1, o1)
  <2>1. /\ MvBuffer(d1, j1, o1)
        /\ ~y1.o_wb_err =>
             /\ Len(p1) = d1.nracks - d1.nread
             /\ \A i \in 1 .. Len(p1) : p1[i] = MvSrc(j1, Len(o1) + d1.nread + i - 1)
    BY <1>4, <1>6, <1>14, <1>17 DEF MvSrc
  <2>2. /\ na1 <= bl + 1 /\ na1 <= cl /\ nr1 < na1
        /\ d1.last_read_ack => nr1 + 1 = na1
        /\ nr1 + 1 = na1 => d1.last_read_ack \/ y1.held >= 1 \/ y1.o_wb_err
    <3>1. CASE dma.dma_state = "READ_REQ"
      <4>1. t = 1 /\ na <= bl /\ na + 1 <= cl
        BY <1>8, <1>9, <1>15, <1>17, <3>1
      <4>2. d1.last_read_ack => nr = bl
        BY <1>10, <3>1, <4>1
      <4>3. na1 <= bl + 1 /\ na1 <= cl /\ nr1 < na1
        BY <1>8, <1>14, <1>15, <4>1
      <4>4. d1.last_read_ack => nr1 + 1 = na1
        BY <1>8, <1>14, <1>15, <4>1, <4>2
      <4>5. nr1 + 1 = na1 /\ ~y1.o_wb_err => Len(p1) = 1
        <5>1. nr1 + 1 = na1 => na1 - nr1 = 1
          OBVIOUS
        <5>2. ~y1.o_wb_err => Len(p1) = na1 - nr1
          BY <1>14, <2>1
        <5> QED
          BY <5>1, <5>2
      <4>6. Len(p1) = 1 /\ ~y1.o_wb_err => y1.held = 1
        BY <1>5, <1>6, <1>17, <4>1
      <4> QED
        BY <4>3, <4>4, <4>5, <4>6
    <3>2. CASE dma.dma_state = "READ_ACK"
      <4>1. t = 0 /\ nr < na /\ na <= bl + 1 /\ na <= cl
        BY <1>8, <1>15, <3>2
      <4>2. a = 1 => nr + 1 # na
        <5>1. b.ack => ~dma.last_read_ack
          BY <1>9, <1>17
        <5>2. b.ack /\ nr + 1 = na => Len(pend) = 1
          <6>1. nr + 1 = na => na - nr = 1
            OBVIOUS
          <6>2. b.ack => Len(pend) = na - nr
            BY <1>6, <1>7
          <6> QED
            BY <6>1, <6>2
        <5>3. b.ack /\ Len(pend) = 1 => ~(dly.held >= 1)
          <6>1. Len(pend) >= dly.held + (IF dly.o_wb_ack THEN 1 ELSE 0) /\ dly.held \in 0 .. 2
            BY <1>1 DEF MvDelay, MvHeld
          <6> QED
            BY <1>1, <6>1
        <5> QED
          BY <1>1, <1>8, <1>15, <3>2, <5>1, <5>2, <5>3
      <4>3. d1.last_read_ack <=> nr1 + 1 = na1
        BY <1>11, <1>14, <3>2, <4>1
      <4> QED
        BY <1>14, <1>15, <4>1, <4>2, <4>3
    <3> QED
      BY <3>1, <3>2
  <2>3. d1.cfg_len = cl /\ d1.cfg_blocklen_sub_one = bl
    BY <1>4, <1>6, <1>7
  <2>5. /\ d1.nread <= d1.nracks /\ d1.nread < d1.nracks
        /\ d1.nracks <= d1.cfg_blocklen_sub_one + 1 /\ d1.nracks <= d1.cfg_len
        /\ d1.last_read_ack => d1.nread + 1 = d1.nracks
        /\ d1.nread + 1 = d1.nracks => d1.last_read_ack \/ y1.held >= 1 \/ y1.o_wb_err
    <3>1. nr1 <= na1
      BY <1>14, <2>2
    <3> QED
      BY <1>14, <2>2, <2>3, <3>1
  <2>6. ~(d1.dma_state = "READ_REQ")
    BY <1>17
  <2> QED
    BY <1>17, <2>1, <2>5, <2>6, ZenonT(30) DEF MvReads
<1>18. MvReads(d1, p1, y1, j1, o1)
  BY <1>9, <1>16, <1>17 DEF MvReads
<1>19. MvTurns(d1, p1, y1, j1, o1)
  <2> SUFFICES ASSUME d1.dma_state = "PRE_WRITE" PROVE MvTurns(d1, p1, y1, j1, o1)
    BY DEF MvTurns
  <2>1. MvBuffer(d1, j1, o1) /\ a = 1
    BY <1>6, <1>9, <1>15
  <2>2. nr1 >= 1 /\ nr1 <= Block /\ nr1 <= cl
    BY <1>7, <1>8, <1>14, <1>15, <2>1
  <2> QED
    BY <1>6, <1>7, <1>14, <2>1, <2>2 DEF MvTurns
<1>20. MvWaits(d1, p1, y1, j1, o1) /\ MvWrites(d1, p1, y1, j1, o1)
  BY <1>9 DEF MvWaits, MvWrites
<1>21. MvDelay(d1, p1, y1)
  <2>1. d1.dma_state = "PRE_WRITE" => p1 = << >> /\ ~y1.o_wb_err
    <3> SUFFICES ASSUME d1.dma_state = "PRE_WRITE" PROVE p1 = << >> /\ ~y1.o_wb_err
      OBVIOUS
    <3>1. b.ack /\ dma.last_read_ack /\ nr < na
      BY <1>9, <1>15
    <3>2. nr + 1 = na /\ dma.dma_state = "READ_ACK"
      BY <1>8, <3>1
    <3> QED
      BY <1>6, <1>7, <3>1, <3>2
  <2>2. d1.dma_state # "WAIT"
    BY <1>9
  <2> QED
    BY <1>4, <2>1, <2>2 DEF MvDelay, MvKeeps
<1> QED
  BY <1>3, <1>12, <1>13, <1>18, <1>19, <1>20, <1>21 DEF MvInv

\* A clock in which a block is written: the request that is taken writes the next
\* word at its place, and the answer counts one off.
LEMMA MvWriting ==
  ASSUME NEW w, NEW b, NEW dev, MvInv(dma, pend, dly, job, out), MvTick(w, b, dev),
         dma.dma_state \in {"WRITE_REQ", "WRITE_ACK"}
  PROVE  LET a == IF b.ack THEN 1 ELSE 0
             t == IF Mover!Taken(b) THEN 1 ELSE 0
         IN  /\ b.ack => dma.nwacks < dma.nwritten /\ Len(pend) = dma.nwritten - dma.nwacks
             /\ Mover!Taken(b) <=> dma.dma_state = "WRITE_REQ" /\ ~b.stall
             /\ dma'.nread = dma.nread /\ dma'.nwritten = dma.nwritten + t
             /\ dma'.nwacks = dma.nwacks + a /\ dma'.cfg_len = dma.cfg_len - a
             /\ Len(out') = Len(out) + t /\ out' \in Seq(Nat \X Nat) /\ Len(out') <= job.len
             /\ \A i \in 1 .. Len(out') : out'[i] = <<MvDst(job, i - 1), MvSrc(job, i - 1)>>
             /\ dma'.cfg_raddr = dma.cfg_raddr /\ dma'.cfg_waddr = MvDst(job, Len(out'))
             /\ dma'.dma_mem = dma.dma_mem
             /\ dma'.dma_state # "IDLE" => Len(pend) = dma.nwritten - dma.nwacks
             /\ dma'.dma_state # "IDLE" /\ ~dly'.o_wb_err =>
                  /\ Len(pend') = dma'.nwritten - dma'.nwacks
                  /\ dly'.held + 1 >= dly.held + t
                  /\ dly.held = 0 => dly'.held = t
             /\ dly'.o_wb_ack => Len(pend) >= dly.held + a + 1
             /\ Len(pend) = a /\ ~Mover!Taken(b) => pend' = << >> /\ ~dly'.o_wb_err
<1>0. PICK a \in 0 .. 1, t \in 0 .. 1 :
        a = (IF b.ack THEN 1 ELSE 0) /\ t = (IF Mover!Taken(b) THEN 1 ELSE 0)
  OBVIOUS
<1>1. /\ Mover!Registers(w, b, dev) /\ b \in [stall : BOOLEAN, ack : BOOLEAN, err : BOOLEAN]
      /\ MvDelay(dma, pend, dly) /\ (b.ack => ~dly.o_wb_err) /\ (dly.o_wb_err => b.err)
      /\ pend \in Seq(Nat) /\ dma.addr \in Nat /\ (b.ack => Len(pend) >= 1)
  BY MvSees DEF MvInv, MvTypes
<1>2. MvTypes(dma, pend, dly, job, out) /\ MvJob(dma, pend, dly, job, out) /\ MvWrites(dma, pend, dly, job, out)
  BY DEF MvInv
<1>3. PICK L \in Nat, nr \in Nat, nw \in Nat, na \in Nat, n \in Nat, cl \in Nat, jl \in Nat :
        /\ L = Len(out) /\ nr = dma.nread /\ nw = dma.nwritten /\ na = dma.nwacks /\ n = Len(pend)
        /\ cl = dma.cfg_len /\ jl = job.len /\ cl <= MaxMove /\ jl <= MaxMove
  <2>1. /\ dma.nread \in 0 .. 2 * Block - 1 /\ dma.nwritten \in 0 .. 2 * Block - 1
        /\ dma.nwacks \in 0 .. 2 * Block - 1 /\ dma.cfg_len \in 0 .. MaxMove
        /\ job.len \in 0 .. MaxMove /\ Len(out) \in Nat /\ Len(pend) \in Nat
    BY <1>2 DEF MvTypes
  <2>2. PICK m \in Nat, k \in Nat : m = 2 * Block - 1 /\ k = MaxMove
    BY DmaAssumption
  <2>3. \A x \in 0 .. k : x \in Nat /\ x <= MaxMove
    BY <2>2
  <2>4. \A x \in 0 .. m : x \in Nat
    BY <2>2
  <2>5. /\ dma.nread \in Nat /\ dma.nwritten \in Nat /\ dma.nwacks \in Nat
        /\ dma.cfg_len \in Nat /\ dma.cfg_len <= MaxMove
        /\ job.len \in Nat /\ job.len <= MaxMove
    BY <2>1, <2>2, <2>3, <2>4
  <2> QED
    BY <2>1, <2>5
<1>4. /\ L + cl + na = jl + nw /\ L <= jl /\ nr <= Block /\ na <= nw /\ nw <= nr
      /\ (~dly.o_wb_err => n = nw - na)
      /\ nw <= L
  BY <1>2, <1>3 DEF MvWrites
<1>15. dma.dma_state = "WRITE_REQ" => nw < nr /\ nr <= cl + na
  BY <1>2, <1>3 DEF MvWrites
\* After an error the controller is idle.
<1>16. dma'.dma_state # "IDLE" => ~dly.o_wb_err
  BY <1>1, MvWires DEF Mover!In, Mover!dma_state
<1>17. Mover!cyc
  BY DEF Mover!cyc
<1>5. /\ b.ack => n >= 1 /\ n = nw - na
      /\ dma'.dma_state # "IDLE" => n = nw - na
      /\ dma'.dma_state # "IDLE" /\ ~dly'.o_wb_err =>
           /\ Len(pend') = n - a + t
           /\ dly'.held + 1 >= dly.held + t
           /\ dly.held = 0 => dly'.held = t
      /\ dly'.o_wb_ack => n >= dly.held + a + 1
      /\ n = a /\ ~Mover!Taken(b) => pend' = << >> /\ ~dly'.o_wb_err
  <2>1. /\ Mover!cyc /\ ~dly.o_wb_err /\ ~dly'.o_wb_err =>
             /\ Len(pend') = Len(pend) - a + t
             /\ dly'.held + 1 >= dly.held + t
             /\ dly.held = 0 => dly'.held = t
        /\ dly'.o_wb_ack => Len(pend) >= dly.held + a + 1
        /\ Len(pend) = a /\ ~Mover!Taken(b) => pend' = << >> /\ ~dly'.o_wb_err
    BY <1>0, <1>1, MvOwed
  <2> QED
    BY <1>1, <1>3, <1>4, <1>16, <1>17, <2>1
<1>6. Mover!Taken(b) <=> dma.dma_state = "WRITE_REQ" /\ ~b.stall
  BY DEF Mover!Taken, Mover!stb
<1>7. /\ job.incd = dma.cfg_incd
      /\ dma'.cfg_len = IF b.ack THEN (cl + DmaSpace - 1) % DmaSpace ELSE cl
      /\ out' = IF Mover!Taken(b) THEN Append(out, <<dma.addr, dma.data>>) ELSE out
  BY <1>3, MvRuns DEF Mover!cyc, Mover!we
<1>8. /\ b.ack => na < nw /\ cl \in 1 .. MaxMove
      /\ t = 1 => nw < nr /\ L + 1 <= jl /\ L \in 0 .. MaxMove - 1
      /\ nw \in 0 .. Block /\ na \in 0 .. Block
  <2>1. MaxMove \in Nat /\ Block \in Nat
    BY DmaAssumption
  <2>2. b.ack => na < nw
    BY <1>4, <1>5
  <2>3. na < nw => cl \in 1 .. MaxMove
    <3>1. PICK k \in Nat : k = MaxMove /\ cl <= k
      BY <1>3, <2>1
    <3>2. na < nw => cl >= 1
      BY <1>4
    <3>3. cl >= 1 => cl \in 1 .. k
      BY <3>1
    <3> QED
      BY <3>1, <3>2, <3>3
  <2>4. t = 1 => nw < nr /\ nr <= cl + na
    BY <1>0, <1>6, <1>15
  <2>5. nw < nr /\ nr <= cl + na => L + 1 <= jl /\ L \in 0 .. MaxMove - 1
    <3>1. PICK k \in Nat : k = MaxMove /\ jl <= k
      BY <1>3, <2>1
    <3>2. nw < nr /\ nr <= cl + na => L + 1 <= jl
      BY <1>4
    <3>3. L + 1 <= jl => L \in 0 .. k - 1
      BY <3>1
    <3> QED
      BY <3>1, <3>2, <3>3
  <2>6. nw \in 0 .. Block /\ na \in 0 .. Block
    BY <1>4, <2>1
  <2> QED
    BY <2>2, <2>3, <2>4, <2>5, <2>6
<1>9. /\ dma'.nread = nr /\ dma'.nwritten = nw + t /\ dma'.nwacks = na + a
      /\ dma'.cfg_len = cl - a
  <2>1. /\ dma'.nread = nr
        /\ dma'.nwritten = IF Mover!Taken(b) THEN (nw + 1) % (2 * Block) ELSE nw
        /\ dma'.nwacks = IF b.ack THEN (na + 1) % (2 * Block) ELSE na
    BY <1>1, <1>3, MvWires DEF Mover!Count, Mover!Between, Mover!we, Mover!cyc
  <2>2. (nw + 1) % (2 * Block) = nw + 1 /\ (na + 1) % (2 * Block) = na + 1
    BY <1>8, MvSteps
  <2>3. b.ack => (cl + DmaSpace - 1) % DmaSpace = cl - 1
    BY <1>8, MvSteps
  <2>4. CASE b.ack
    BY <1>0, <1>3, <1>7, <2>1, <2>2, <2>3, <2>4
  <2>5. CASE ~b.ack
    <3>1. cl - 0 = cl /\ na + 0 = na
      OBVIOUS
    <3> QED
      BY <1>0, <1>3, <1>7, <2>1, <2>2, <2>5, <3>1
  <2> QED
    BY <2>4, <2>5
<1>10. /\ Len(out') = L + t /\ out' \in Seq(Nat \X Nat) /\ Len(out') <= job.len
       /\ \A i \in 1 .. Len(out') : out'[i] = <<MvDst(job, i - 1), MvSrc(job, i - 1)>>
  <2>1. out \in Seq(Nat \X Nat)
        /\ \A i \in 1 .. L : out[i] = <<MvDst(job, i - 1), MvSrc(job, i - 1)>>
    BY <1>2, <1>3 DEF MvTypes, MvJob
  <2>2. CASE Mover!Taken(b)
    <3>1. dma.addr = MvDst(job, L) /\ dma.data = MvSrc(job, L)
      BY <1>2, <1>3, <1>6, <2>2 DEF MvWrites
    <3>2. PICK e \in Nat \X Nat : e = <<dma.addr, dma.data>>
      <4>1. MvDst(job, L) \in Nat /\ MvSrc(job, L) \in Nat
        BY DEF MvDst, MvSrc
      <4> QED
        BY <3>1, <4>1
    <3>3. out' = Append(out, e)
      BY <1>7, <2>2, <3>2
    <3>4. Len(out') = L + 1 /\ out' \in Seq(Nat \X Nat)
      BY <1>3, <2>1, <3>3
    <3>5. ASSUME NEW i \in 1 .. L + 1 PROVE out'[i] = <<MvDst(job, i - 1), MvSrc(job, i - 1)>>
      <4>1. CASE i \in 1 .. L
        BY <1>3, <2>1, <3>3, <4>1
      <4>2. CASE i = L + 1
        <5>1. i - 1 = L
          BY <4>2
        <5>2. out'[i] = e
          BY <1>3, <2>1, <3>3, <4>2
        <5> QED
          BY <3>1, <3>2, <5>1, <5>2
      <4> QED
        BY <4>1, <4>2
    <3> QED
      BY <1>0, <1>3, <1>8, <2>2, <3>4, <3>5
  <2>3. CASE ~Mover!Taken(b)
    <3>1. out' = out /\ t = 0
      BY <1>0, <1>7, <2>3
    <3>2. L + t = L /\ L <= job.len
      BY <1>3, <1>4, <3>1
    <3> QED
      BY <1>3, <2>1, <3>1, <3>2
  <2> QED
    BY <2>2, <2>3
<1>11. /\ dma'.cfg_raddr = dma.cfg_raddr /\ dma'.dma_mem = dma.dma_mem
       /\ dma'.cfg_waddr = IF Mover!Taken(b) /\ job.incd THEN Mover!Inc(dma.cfg_waddr)
                           ELSE dma.cfg_waddr
  BY <1>1, <1>6, <1>7, MvWires DEF Mover!In, Mover!cfg_raddr, Mover!cfg_waddr, Mover!cyc,
     Mover!dma_mem, Mover!we
<1>12. dma'.cfg_waddr = MvDst(job, L + t)
  <2>1. dma.cfg_waddr = MvDst(job, L)
    BY <1>2, <1>3 DEF MvWrites
  <2>2. t = 1 => Mover!Inc(L) = L + 1
    BY <1>8, MvSteps
  <2>3. CASE t = 1
    BY <1>0, <1>11, <2>1, <2>2, <2>3 DEF MvDst
  <2>4. CASE t = 0
    BY <1>0, <1>3, <1>11, <2>1, <2>4 DEF MvDst
  <2> QED
    BY <2>3, <2>4
<1>13. b.ack => dma.nwacks < dma.nwritten /\ Len(pend) = dma.nwritten - dma.nwacks
  BY <1>3, <1>5, <1>8
<1>14. ASSUME dma'.dma_state # "IDLE", ~dly'.o_wb_err
       PROVE  Len(pend') = dma'.nwritten - dma'.nwacks
  <2>1. n - a + t = (nw + t) - (na + a)
    BY <1>5, <1>14
  <2>2. dma'.nwritten - dma'.nwacks = (nw + t) - (na + a)
    BY <1>9
  <2> QED
    BY <1>5, <1>14, <2>1, <2>2
<1> QED
  BY <1>0, <1>3, <1>5, <1>6, <1>9, <1>10, <1>11, <1>12, <1>13, <1>14

LEMMA MvFromWrite ==
  ASSUME NEW w, NEW b, NEW dev, MvInv(dma, pend, dly, job, out), MvTick(w, b, dev),
         dma.dma_state \in {"WRITE_REQ", "WRITE_ACK"}
  PROVE  MvInv(dma', pend', dly', job', out')
<1>1. /\ Mover!Registers(w, b, dev) /\ MvDelay(dma, pend, dly) /\ b.ack = dly.o_wb_ack
      /\ b.stall /\ Len(pend) >= 1 => dly.held = 2
  BY MvSees DEF MvInv, MvTypes
<1>2. MvTypes(dma, pend, dly, job, out) /\ MvJob(dma, pend, dly, job, out) /\ MvWrites(dma, pend, dly, job, out)
  BY DEF MvInv
<1>3. PICK d1, p1, y1, j1, o1 : d1 = dma' /\ p1 = pend' /\ y1 = dly' /\ j1 = job' /\ o1 = out'
  OBVIOUS
<1>4. /\ MvKeeps(d1, p1, y1) /\ j1.at = "on" /\ job.at = "on" /\ j1.len = job.len
      /\ j1.incs = job.incs /\ j1.incd = job.incd
      /\ d1.cfg_incs = job.incs /\ d1.cfg_incd = job.incd
      /\ b.stall \in BOOLEAN /\ b.ack \in BOOLEAN
      /\ d1.o_interrupt /\ ~d1.cfg_err =>
           dma.dma_state = "WRITE_ACK" /\ b.ack /\ dma.last_write_ack /\ dma.cfg_len = 1
  BY <1>3, MvRuns
<1>5. PICK a \in 0 .. 1, t \in 0 .. 1 :
        a = (IF b.ack THEN 1 ELSE 0) /\ t = (IF Mover!Taken(b) THEN 1 ELSE 0)
  OBVIOUS
<1>6. /\ b.ack => dma.nwacks < dma.nwritten /\ Len(pend) = dma.nwritten - dma.nwacks
      /\ Mover!Taken(b) <=> dma.dma_state = "WRITE_REQ" /\ ~b.stall
      /\ d1.nread = dma.nread /\ d1.nwritten = dma.nwritten + t /\ d1.nwacks = dma.nwacks + a
      /\ d1.cfg_len = dma.cfg_len - a
      /\ Len(o1) = Len(out) + t /\ o1 \in Seq(Nat \X Nat) /\ Len(o1) <= job.len
      /\ \A i \in 1 .. Len(o1) : o1[i] = <<MvDst(job, i - 1), MvSrc(job, i - 1)>>
      /\ d1.cfg_raddr = dma.cfg_raddr /\ d1.cfg_waddr = MvDst(job, Len(o1))
      /\ d1.dma_mem = dma.dma_mem
      /\ d1.dma_state # "IDLE" => Len(pend) = dma.nwritten - dma.nwacks
      /\ d1.dma_state # "IDLE" /\ ~y1.o_wb_err =>
           /\ Len(p1) = d1.nwritten - d1.nwacks
           /\ y1.held + 1 >= dly.held + t
           /\ dly.held = 0 => y1.held = t
      /\ y1.o_wb_ack => Len(pend) >= dly.held + a + 1
      /\ Len(pend) = a /\ ~Mover!Taken(b) => p1 = << >> /\ ~y1.o_wb_err
  BY <1>3, <1>5, MvWriting
<1>7. PICK L \in Nat, nr \in Nat, nw \in Nat, na \in Nat, n \in Nat, cl \in Nat, jl \in Nat :
        /\ L = Len(out) /\ nr = dma.nread /\ nw = dma.nwritten /\ na = dma.nwacks /\ n = Len(pend)
        /\ cl = dma.cfg_len /\ jl = job.len /\ cl <= MaxMove
  <2>1. /\ dma.nread \in 0 .. 2 * Block - 1 /\ dma.nwritten \in 0 .. 2 * Block - 1
        /\ dma.nwacks \in 0 .. 2 * Block - 1 /\ dma.cfg_len \in 0 .. MaxMove
        /\ job.len \in 0 .. MaxMove
    BY <1>2 DEF MvTypes
  <2>6. Len(out) \in Nat
    BY <1>2 DEF MvTypes
  <2>7. Len(pend) \in Nat
    BY <1>2 DEF MvTypes
  <2>2. PICK m \in Nat, k \in Nat : m = 2 * Block - 1 /\ k = MaxMove
    BY DmaAssumption
  <2>3. \A x \in 0 .. k : x \in Nat /\ x <= MaxMove
    BY <2>2
  <2>4. \A x \in 0 .. m : x \in Nat
    BY <2>2
  <2>5. /\ dma.nread \in Nat /\ dma.nwritten \in Nat /\ dma.nwacks \in Nat
        /\ dma.cfg_len \in Nat /\ dma.cfg_len <= MaxMove /\ job.len \in Nat
    BY <2>1, <2>2, <2>3, <2>4
  <2> QED
    BY <2>5, <2>6, <2>7
<1>8. /\ L + cl + na = jl + nw /\ L <= jl /\ nr <= Block /\ na <= nw /\ nw <= nr
      /\ nw <= L
  BY <1>2, <1>7 DEF MvWrites
<1>9. dma.dma_state = "WRITE_REQ" =>
        /\ nw < nr /\ nr <= cl + na
        /\ dma.last_write_request <=> nw + 1 = nr
        /\ dma.addr = MvDst(job, L) /\ dma.data = MvSrc(job, L)
        /\ nw + 1 < Block => dma.rdaddr = nw + 1
        /\ \A i \in 0 .. nr - 1 : dma.dma_mem[i] = MvSrc(job, L - nw + i)
        /\ pend # << >> => dly.held >= 1
        /\ dly.o_wb_ack => n >= 3
        /\ dma.last_write_ack => nw - na <= 2
  BY <1>2, <1>7 DEF MvWrites
<1>10. dma.dma_state = "WRITE_ACK" =>
         /\ nw = nr
         /\ dma.last_write_ack => na + 1 = nw \/ (na + 2 = nw /\ ~dly.o_wb_ack)
  BY <1>2, <1>7 DEF MvWrites
<1>11. (b.ack <=> a = 1) /\ (a = 1 => na < nw /\ cl >= 1)
       /\ (t = 1 <=> dma.dma_state = "WRITE_REQ" /\ ~b.stall)
  <2>1. na < nw => cl >= 1
    BY <1>8
  <2>2. (b.ack <=> a = 1) /\ (t = 1 <=> Mover!Taken(b))
    BY <1>4, <1>5
  <2>3. b.ack => na < nw
    BY <1>6, <1>7
  <2> QED
    BY <1>6, <2>1, <2>2, <2>3
\* The answer that the register calls the last cannot come early: the delay has
\* taken the next two requests before the first is answered.
<1>12. b.ack /\ dma.last_write_ack => dma.dma_state = "WRITE_ACK" /\ na + 1 = nw
  <2> SUFFICES ASSUME b.ack, dma.last_write_ack
               PROVE  dma.dma_state = "WRITE_ACK" /\ na + 1 = nw
    OBVIOUS
  <2>1. dly.o_wb_ack /\ n = nw - na
    BY <1>1, <1>6, <1>7
  <2>2. dma.dma_state # "WRITE_REQ"
    BY <1>9, <2>1
  <2> QED
    BY <1>10, <2>1, <2>2
<1>13. /\ d1.dma_state \in {"IDLE", "WAIT", "WRITE_REQ", "WRITE_ACK"}
       /\ d1.dma_state = "WAIT" => b.ack /\ dma.last_write_ack /\ ~(dma.cfg_len <= 1)
       /\ d1.dma_state = "WRITE_REQ" => /\ dma.dma_state = "WRITE_REQ"
                                        /\ b.stall \/ ~dma.last_write_request
       /\ d1.dma_state = "WRITE_ACK" /\ dma.dma_state = "WRITE_REQ" =>
            ~b.stall /\ dma.last_write_request
  BY <1>1, <1>3, MvWires DEF Mover!In, Mover!dma_state, Mover!BlockDone
<1>14. /\ dly.held \in 0 .. 2 /\ (n = 0 <=> pend = << >>)
       /\ y1.held \in 0 .. 2 /\ (y1.o_wb_err => p1 = << >>)
       /\ y1.o_wb_ack => p1 # << >>
  <2>1. dly.held \in 0 .. 2 /\ pend \in Seq(Nat)
    BY <1>1, <1>2 DEF MvDelay, MvHeld, MvTypes
  <2>2. /\ p1 \in Seq(Nat) /\ y1.held \in 0 .. 2 /\ (y1.o_wb_err => p1 = << >>)
        /\ Len(p1) >= y1.held + (IF y1.o_wb_ack THEN 1 ELSE 0)
    BY <1>4 DEF MvKeeps, MvHeld
  <2>3. y1.o_wb_ack => Len(p1) >= 1
    BY <2>2
  <2> QED
    BY <1>7, <2>1, <2>2, <2>3
<1>15. /\ dma.dma_state = "WRITE_REQ" =>
            (d1.last_write_request <=> LET ahead == IF b.stall THEN 1 ELSE 2
                                       IN  nr >= ahead /\ nw + ahead >= nr)
       /\ d1.last_write_ack <=> (IF a = 1 /\ t = 0 THEN na + 2 ELSE na + 1) = nw
  <2>1. /\ dma'.last_write_request <=> Mover!last_write_request(b)
        /\ dma'.last_write_ack <=> Mover!last_write_ack(b)
    BY <1>1, ZenonT(30) DEF Mover!Registers
  <2>2. dma.dma_state = "WRITE_REQ" =>
          (Mover!last_write_request(b) <=> LET ahead == IF b.stall THEN 1 ELSE 2
                                           IN  nr >= ahead /\ nw + ahead >= nr)
    BY <1>7 DEF Mover!last_write_request, Mover!In
  <2>3. Mover!last_write_ack(b) <=> (IF a = 1 /\ t = 0 THEN na + 2 ELSE na + 1) = nw
    BY <1>5, <1>7, <1>11 DEF Mover!last_write_ack
  <2> QED
    BY <1>3, <2>1, <2>2, <2>3, ZenonT(30)
<1>16. PICK L1 \in Nat, nw1 \in Nat, na1 \in Nat, cl1 \in Nat :
         /\ L1 = Len(o1) /\ nw1 = d1.nwritten /\ na1 = d1.nwacks /\ cl1 = d1.cfg_len
         /\ L1 = L + t /\ nw1 = nw + t /\ na1 = na + a /\ cl1 = cl - a
         /\ d1.nread = nr /\ L1 <= jl
  <2>1. L + t \in Nat /\ nw + t \in Nat /\ na + a \in Nat /\ cl - a \in Nat
    BY <1>11
  <2>2. /\ Len(o1) = L + t /\ d1.nwritten = nw + t /\ d1.nwacks = na + a
        /\ d1.cfg_len = cl - a /\ d1.nread = nr /\ Len(o1) <= jl
    BY <1>6, <1>7
  <2> QED
    BY <2>1, <2>2
<1>17. /\ L1 + cl1 + na1 = jl + nw1 /\ na1 <= nw1 /\ nw1 <= L1
       /\ L1 - nw1 = L - nw /\ L1 + cl1 >= jl /\ cl1 <= cl
  <2>1. L1 + cl1 + na1 = jl + nw1 /\ nw1 <= L1 /\ L1 - nw1 = L - nw /\ cl1 <= cl
    BY <1>8, <1>16
  <2>2. na1 <= nw1
    BY <1>8, <1>11, <1>16
  <2> QED
    BY <2>1, <2>2
<1>18. MvTypes(d1, p1, y1, j1, o1)
  <2>1. d1.cfg_len \in 0 .. MaxMove
    <3>1. PICK k \in Nat : k = MaxMove /\ cl <= k
      BY <1>7, DmaAssumption
    <3>2. cl1 \in 0 .. k
      BY <1>16, <1>17, <3>1
    <3> QED
      BY <1>16, <3>1, <3>2
  <2> QED
    BY <1>2, <1>4, <1>6, <1>13, <2>1 DEF MvTypes, MvKeeps
<1>19. MvJob(d1, p1, y1, j1, o1)
  <2>1. Len(o1) + d1.cfg_len >= j1.len
    BY <1>4, <1>7, <1>16, <1>17
  <2>2. d1.o_interrupt /\ ~d1.cfg_err => Len(o1) = j1.len
    <3> SUFFICES ASSUME d1.o_interrupt, ~d1.cfg_err PROVE L1 = jl
      BY <1>4, <1>7, <1>16
    <3>1. cl = 1 /\ b.ack /\ na + 1 = nw /\ dma.dma_state = "WRITE_ACK"
      BY <1>4, <1>7, <1>12
    <3>2. a = 1 /\ t = 0
      BY <1>11, <3>1
    <3> QED
      BY <1>8, <1>16, <3>1, <3>2
  <2>3. \A i \in 1 .. Len(o1) : o1[i] = <<MvDst(j1, i - 1), MvSrc(j1, i - 1)>>
    BY <1>4, <1>6 DEF MvDst, MvSrc
  <2> QED
    BY <1>4, <2>1, <2>2, <2>3 DEF MvJob
<1>20. d1.cfg_waddr = MvDst(j1, Len(o1)) /\ d1.cfg_raddr = MvSrc(j1, L - nw + nr)
  <2>1. dma.cfg_raddr = MvSrc(job, L - nw + nr)
    BY <1>2, <1>7 DEF MvWrites
  <2> QED
    BY <1>4, <1>6, <2>1 DEF MvDst, MvSrc
<1>21. ASSUME d1.dma_state = "WAIT" PROVE MvWaits(d1, p1, y1, j1, o1)
  <2>1. b.ack /\ ~(cl <= 1) /\ dma.dma_state = "WRITE_ACK" /\ na + 1 = nw
    BY <1>7, <1>12, <1>13, <1>21
  <2>2. a = 1 /\ t = 0 /\ nw = nr
    BY <1>10, <1>11, <2>1
  <2>3. L1 + cl1 = jl /\ cl1 >= 1 /\ L - nw + nr = L1
    BY <1>8, <1>16, <2>1, <2>2
  <2>4. ~d1.trigger
    <3>1. dma'.trigger <=> Mover!In("WAIT") /\ (dma.cfg_on_dev_trigger => dev)
      BY <1>1, ZenonT(30) DEF Mover!Registers
    <3> QED
      BY <1>3, <2>1, <3>1 DEF Mover!In
  <2> QED
    BY <1>4, <1>7, <1>16, <1>20, <2>3, <2>4 DEF MvWaits
\* While the block is written, the word on the bus is the next of it.
<1>22. ASSUME d1.dma_state = "WRITE_REQ"
       PROVE  /\ nw1 < nr /\ nr <= cl1 + na1
              /\ d1.last_write_request <=> nw1 + 1 = nr
              /\ d1.addr = MvDst(j1, L1) /\ d1.data = MvSrc(j1, L1)
              /\ nw1 + 1 < Block => d1.rdaddr = nw1 + 1
              /\ \A i \in 0 .. nr - 1 : d1.dma_mem[i] = MvSrc(j1, L1 - nw1 + i)
  <2>1. dma.dma_state = "WRITE_REQ" /\ (t = 1 <=> ~b.stall) /\ (t = 1 => ~dma.last_write_request)
    BY <1>11, <1>13, <1>22
  <2>2. nw < nr /\ nr <= cl + na /\ (t = 1 => nw + 1 # nr)
    BY <1>9, <2>1
  <2>3. nw1 < nr /\ nr <= cl1 + na1
    BY <1>16, <2>2
  <2>4. d1.last_write_request <=> nw1 + 1 = nr
    <3>1. CASE t = 1
      <4>1. d1.last_write_request <=> nr >= 2 /\ nw + 2 >= nr
        BY <1>15, <2>1, <3>1
      <4> QED
        BY <1>16, <2>2, <3>1, <4>1
    <3>2. CASE t = 0
      <4>1. d1.last_write_request <=> nr >= 1 /\ nw + 1 >= nr
        BY <1>15, <2>1, <3>2
      <4> QED
        BY <1>16, <2>2, <3>2, <4>1
    <3> QED
      BY <3>1, <3>2
  <2>5. \A i \in 0 .. nr - 1 : d1.dma_mem[i] = MvSrc(j1, L1 - nw1 + i)
    BY <1>4, <1>6, <1>9, <1>17, <2>1 DEF MvSrc
  <2>6. d1.addr = MvDst(j1, L1)
    <3>1. dma.addr = MvDst(job, L)
      BY <1>9, <2>1
    <3>2. dma'.addr = IF Mover!Taken(b) /\ dma.cfg_incd THEN Mover!Inc(dma.addr) ELSE dma.addr
      BY <1>1, <2>1, MvWires DEF Mover!addr, Mover!In, Mover!we
    <3>3. dma.cfg_incd = job.incd
      BY <2>1, MvRuns
    <3>4. t = 1 => Mover!Inc(L) = L + 1
      <4>1. PICK k \in Nat : k = MaxMove /\ jl <= k
        BY <1>2, <1>7, DmaAssumption DEF MvTypes
      <4>2. t = 1 => L \in 0 .. k - 1
        BY <1>16, <4>1
      <4> QED
        BY <4>1, <4>2, MvSteps
    <3>5. CASE t = 1
      BY <1>3, <1>4, <1>5, <1>16, <3>1, <3>2, <3>3, <3>4, <3>5 DEF MvDst
    <3>6. CASE t = 0
      <4>1. L1 = L
        BY <1>16, <3>6
      <4> QED
        BY <1>3, <1>4, <1>5, <3>1, <3>2, <3>6, <4>1 DEF MvDst
    <3> QED
      BY <3>5, <3>6
  <2>7. /\ dma'.rdaddr = IF b.stall THEN dma.rdaddr ELSE (dma.rdaddr + 1) % Block
        /\ dma'.data = IF b.stall THEN dma.data ELSE dma.dma_mem[dma.rdaddr]
    BY <1>1, <2>1, MvWires DEF Mover!rdaddr, Mover!In
  <2>8. CASE t = 1
    <3>1. ~b.stall /\ nw + 1 < nr /\ nw + 1 < Block /\ nw1 = nw + 1 /\ L1 = L + 1
      BY <1>8, <1>16, <2>1, <2>2, <2>8, DmaAssumption
    <3>2. dma.rdaddr = nw + 1
      BY <1>9, <2>1, <3>1
    <3>3. nw + 1 \in 0 .. nr - 1 /\ L - nw + (nw + 1) = L1
      BY <3>1
    <3>4. d1.data = MvSrc(j1, L1)
      <4>1. dma.dma_mem[nw + 1] = MvSrc(job, L - nw + (nw + 1))
        BY <1>9, <2>1, <3>3
      <4> QED
        BY <1>3, <1>4, <2>7, <3>1, <3>2, <3>3, <4>1 DEF MvSrc
    <3>5. nw1 + 1 < Block => d1.rdaddr = nw1 + 1
      <4>1. nw1 + 1 < Block => nw + 1 \in 0 .. Block - 2
        BY <3>1, DmaAssumption
      <4>2. nw1 + 1 < Block => (nw + 1 + 1) % Block = nw + 1 + 1
        BY <4>1, MvSteps
      <4> QED
        BY <1>3, <2>7, <3>1, <3>2, <4>2
    <3> QED
      BY <2>3, <2>4, <2>5, <2>6, <3>4, <3>5
  <2>9. CASE t = 0
    <3>1. b.stall /\ nw1 = nw /\ L1 = L
      BY <1>4, <1>16, <2>1, <2>9
    <3>2. d1.data = MvSrc(j1, L1) /\ (nw1 + 1 < Block => d1.rdaddr = nw1 + 1)
      BY <1>3, <1>4, <1>9, <2>1, <2>7, <3>1 DEF MvSrc
    <3> QED
      BY <2>3, <2>4, <2>5, <2>6, <3>2
  <2> QED
    BY <2>8, <2>9
\* While it asks, the delay holds a request: the answer to one leaves two owed.
<1>23. ASSUME d1.dma_state \in {"WRITE_REQ", "WRITE_ACK"}, dma.dma_state = "WRITE_REQ"
       PROVE  /\ p1 # << >> => y1.held >= 1
              /\ y1.o_wb_ack => Len(p1) >= 3
              /\ d1.last_write_ack => nw1 - na1 <= 2
              /\ d1.last_write_ack /\ t = 1 => na1 + 2 = nw1 /\ ~y1.o_wb_ack
  <2>1. /\ n = nw - na /\ (y1.o_wb_ack => n >= dly.held + a + 1)
        /\ ~y1.o_wb_err => /\ Len(p1) = nw1 - na1 /\ y1.held + 1 >= dly.held + t
                           /\ dly.held = 0 => y1.held = t
        /\ a = 1 => n >= 3
        /\ n >= 1 => dly.held >= 1
    <3>1. n >= 1 => dly.held >= 1
      BY <1>9, <1>14, <1>23
    <3>2. a = 1 => n >= 3
      BY <1>1, <1>9, <1>11, <1>23
    <3> QED
      BY <1>6, <1>7, <1>16, <1>23, <3>1, <3>2
  <2>2. t = 0 => (n >= 1 => dly.held = 2) /\ (n = 0 => p1 = << >>)
    <3>1. t = 0 => b.stall /\ ~Mover!Taken(b)
      BY <1>4, <1>5, <1>11, <1>23
    <3>2. b.stall /\ n >= 1 => dly.held = 2
      BY <1>1, <1>7
    <3>3. n = 0 => a = 0
      BY <1>11, <2>1
    <3>4. ~Mover!Taken(b) /\ n = 0 => p1 = << >>
      BY <1>6, <1>7, <3>3
    <3> QED
      BY <3>1, <3>2, <3>4
  <2>3. p1 # << >> => y1.held >= 1
    <3> SUFFICES ASSUME p1 # << >> PROVE y1.held >= 1
      OBVIOUS
    <3>1. /\ y1.held + 1 >= dly.held + t /\ (dly.held = 0 => y1.held = t)
          /\ y1.held \in 0 .. 2 /\ dly.held \in 0 .. 2
      BY <1>14, <2>1
    <3>2. t = 0 => dly.held = 2
      <4>1. t = 0 => n # 0
        BY <2>2
      <4> QED
        BY <2>2, <4>1
    <3> QED
      BY <3>1, <3>2
  <2>4. y1.o_wb_ack => Len(p1) >= 3
    <3> SUFFICES ASSUME y1.o_wb_ack PROVE Len(p1) >= 3
      OBVIOUS
    <3>1. PICK hd \in 0 .. 2 : hd = dly.held
      BY <1>14
    <3>2. n >= hd + a + 1 /\ n = nw - na /\ (n >= 1 => hd >= 1) /\ (t = 0 => (n >= 1 => hd = 2))
      BY <2>1, <2>2, <3>1
    <3>3. Len(p1) = nw1 - na1
      BY <1>14, <2>1
    <3>4. n >= 1
      BY <3>2
    <3>5. n - a + t >= 3
      <4>1. CASE t = 0
        BY <3>2, <3>4, <4>1
      <4>2. CASE t = 1
        BY <3>2, <3>4, <4>2
      <4> QED
        BY <4>1, <4>2
    <3>6. nw1 - na1 = n - a + t
      BY <1>16, <3>2
    <3> QED
      BY <3>3, <3>5, <3>6
  <2>5. d1.last_write_ack /\ t = 1 => na1 + 2 = nw1 /\ ~y1.o_wb_ack
    <3> SUFFICES ASSUME d1.last_write_ack, t = 1 PROVE na1 + 2 = nw1 /\ ~y1.o_wb_ack
      OBVIOUS
    <3>1. na + 1 = nw
      BY <1>15
    <3>2. n = 1
      BY <2>1, <3>1
    <3>3. a = 0
      BY <2>1, <3>2
    <3>4. ~(1 >= dly.held + 0 + 1)
      BY <1>14, <2>1, <3>2
    <3> QED
      BY <1>16, <2>1, <3>1, <3>2, <3>3, <3>4
  <2>6. d1.last_write_ack => nw1 - na1 <= 2
    <3>1. CASE t = 1
      BY <2>5, <3>1
    <3>2. CASE t = 0
      <4>1. d1.last_write_ack => (IF a = 1 THEN na + 2 ELSE na + 1) = nw
        BY <1>15, <3>2
      <4> QED
        BY <1>16, <3>2, <4>1
    <3> QED
      BY <3>1, <3>2
  <2> QED
    BY <2>3, <2>4, <2>5, <2>6
<1>24. ASSUME d1.dma_state \in {"WRITE_REQ", "WRITE_ACK"} PROVE MvWrites(d1, p1, y1, j1, o1)
  <2>1. /\ Len(o1) + d1.cfg_len + d1.nwacks = j1.len + d1.nwritten
        /\ Len(o1) <= j1.len /\ d1.nread <= Block
        /\ d1.nwacks <= d1.nwritten /\ d1.nwritten <= Len(o1)
    BY <1>4, <1>7, <1>8, <1>16, <1>17
  <2>2. ~y1.o_wb_err => Len(p1) = d1.nwritten - d1.nwacks
    BY <1>6, <1>24
  <2>3. d1.cfg_raddr = MvSrc(j1, Len(o1) - d1.nwritten + d1.nread)
    BY <1>16, <1>17, <1>20
  <2>4. CASE d1.dma_state = "WRITE_REQ"
    <3>1. dma.dma_state = "WRITE_REQ"
      BY <1>13, <2>4
    <3>2. /\ p1 # << >> => y1.held >= 1
          /\ y1.o_wb_ack => Len(p1) >= 3
          /\ d1.last_write_ack => d1.nwritten - d1.nwacks <= 2
      BY <1>16, <1>23, <2>4, <3>1
    <3>3. d1.nwritten <= d1.nread
      BY <1>16, <1>22, <2>4
    <3> QED
      BY <1>16, <1>20, <1>22, <2>1, <2>2, <2>3, <2>4, <3>2, <3>3, ZenonT(30) DEF MvWrites
  <2>5. CASE d1.dma_state = "WRITE_ACK"
    <3>1. nw1 = nr
      <4>1. CASE dma.dma_state = "WRITE_REQ"
        BY <1>9, <1>11, <1>13, <1>16, <2>5, <4>1
      <4>2. CASE dma.dma_state = "WRITE_ACK"
        BY <1>10, <1>11, <1>16, <4>2
      <4> QED
        BY <4>1, <4>2
    <3>2. d1.last_write_ack => na1 + 1 = nw1 \/ (na1 + 2 = nw1 /\ ~y1.o_wb_ack)
      <4>1. CASE dma.dma_state = "WRITE_REQ"
        <5>1. t = 1
          BY <1>11, <1>13, <2>5, <4>1
        <5> QED
          BY <1>23, <2>5, <4>1, <5>1
      <4>2. CASE dma.dma_state = "WRITE_ACK"
        <5>1. t = 0
          BY <1>11, <4>2
        <5> QED
          BY <1>15, <1>16, <5>1
      <4> QED
        BY <4>1, <4>2
    <3>3. d1.nwritten <= d1.nread /\ d1.nwritten = d1.nread
      BY <1>16, <3>1
    <3> QED
      BY <1>16, <1>20, <2>1, <2>2, <2>3, <2>5, <3>2, <3>3, ZenonT(30) DEF MvWrites
  <2> QED
    BY <1>24, <2>4, <2>5
<1>25. MvWaits(d1, p1, y1, j1, o1) /\ MvWrites(d1, p1, y1, j1, o1)
  BY <1>21, <1>24 DEF MvWaits, MvWrites
<1>26. MvReads(d1, p1, y1, j1, o1) /\ MvTurns(d1, p1, y1, j1, o1)
  BY <1>13 DEF MvReads, MvTurns
<1>27. MvDelay(d1, p1, y1)
  <2>1. d1.dma_state = "WAIT" => p1 = << >> /\ ~y1.o_wb_err
    <3> SUFFICES ASSUME d1.dma_state = "WAIT" PROVE p1 = << >> /\ ~y1.o_wb_err
      OBVIOUS
    <3>1. b.ack /\ dma.dma_state = "WRITE_ACK" /\ na + 1 = nw
      BY <1>12, <1>13
    <3>2. n = nw - na /\ ~Mover!Taken(b) /\ a = 1
      BY <1>5, <1>6, <1>7, <3>1
    <3>3. n = a
      BY <3>1, <3>2
    <3> QED
      BY <1>6, <1>7, <3>2, <3>3
  <2>2. d1.dma_state # "PRE_WRITE"
    BY <1>13
  <2> QED
    BY <1>4, <2>1, <2>2 DEF MvDelay, MvKeeps
<1> QED
  BY <1>3, <1>18, <1>19, <1>25, <1>26, <1>27 DEF MvInv

\* Nothing is owed while the delay is idle.
LEMMA MvQuiet ==
  ASSUME NEW d, NEW p, NEW y, p = << >>, y = Mover!Idle PROVE MvDelay(d, p, y)
<1>1. y.granted = FALSE /\ y.o_wb_ack = FALSE /\ y.o_wb_err = FALSE /\ y.held = 0
  BY DEF Mover!Idle
<1>2. y.granted \in BOOLEAN /\ y.o_wb_ack \in BOOLEAN /\ y.o_wb_err \in BOOLEAN
  BY <1>1
<1>3. y.held \in 0 .. 2
  BY <1>1
<1>4. Len(p) >= y.held + (IF y.o_wb_ack THEN 1 ELSE 0)
  <2>1. Len(p) = 0
    OBVIOUS
  <2> QED
    BY <1>1, <2>1
<1>5. ~y.o_wb_err
  BY <1>1
<1> QED
  BY <1>2, <1>3, <1>4, <1>5, Zenon DEF MvDelay, MvHeld

LEMMA MvReset ==
  ASSUME MvInv(dma, pend, dly, job, out), Mover!Reset
  PROVE  MvInv(dma', pend', dly', job', out')
<1>1. PICK d1, p1, y1, j1, o1 : d1 = dma' /\ p1 = pend' /\ y1 = dly' /\ j1 = job' /\ o1 = out'
  OBVIOUS
<1>2. MvTypes(dma, pend, dly, job, out)
  BY DEF MvInv
<1>3. p1 = << >> /\ o1 = << >> /\ j1 = Mover!NoJob /\ y1 = Mover!Idle
  BY <1>1 DEF Mover!Reset
<1>4. j1.at = "on" /\ j1.len = 0 /\ j1.incs = FALSE /\ j1.incd = FALSE
  BY <1>3 DEF Mover!NoJob
<1>5. /\ d1.dma_state = "IDLE" /\ d1.cfg_len = 0
      /\ d1.cfg_blocklen_sub_one = dma.cfg_blocklen_sub_one
      /\ d1.nread = 0 /\ d1.nracks = 0 /\ d1.nwritten = 0 /\ d1.nwacks = 0 /\ d1.rdaddr = 0
      /\ d1.cfg_raddr = dma.cfg_raddr /\ d1.cfg_waddr = dma.cfg_waddr /\ d1.addr = dma.addr
      /\ d1.dma_mem = dma.dma_mem
  BY <1>1, <1>2 DEF Mover!Reset, MvTypes
<1>6. /\ d1.cfg_incs = FALSE /\ d1.cfg_incd = FALSE /\ d1.trigger = FALSE
      /\ d1.last_read_request = FALSE /\ d1.last_read_ack = FALSE
      /\ d1.last_write_request = FALSE /\ d1.last_write_ack = FALSE
      /\ d1.cfg_err = FALSE /\ d1.o_interrupt = FALSE
  BY <1>1, <1>2 DEF Mover!Reset, MvTypes
<1>7. Block \in Nat \ {0, 1} /\ MaxMove \in Nat
  BY DmaAssumption
<1>8. MvTypes(d1, p1, y1, j1, o1)
  <2>1. 0 \in 0 .. MaxMove /\ 0 \in 0 .. 2 * Block - 1 /\ 0 \in 0 .. Block - 1
    BY <1>7
  <2>2. /\ d1.cfg_blocklen_sub_one \in 0 .. Block - 1 /\ d1.dma_mem \in [0 .. Block - 1 -> Nat]
        /\ d1.cfg_raddr \in Nat /\ d1.cfg_waddr \in Nat /\ d1.addr \in Nat
    BY <1>2, <1>5 DEF MvTypes
  <2>3. p1 \in Seq(Nat) /\ o1 \in Seq(Nat \X Nat)
    BY <1>3
  <2>4. /\ d1.cfg_len \in 0 .. MaxMove
        /\ d1.nread \in 0 .. 2 * Block - 1 /\ d1.nracks \in 0 .. 2 * Block - 1
        /\ d1.nwritten \in 0 .. 2 * Block - 1 /\ d1.nwacks \in 0 .. 2 * Block - 1
        /\ d1.rdaddr \in 0 .. Block - 1 /\ j1.len \in 0 .. MaxMove
    BY <1>4, <1>5, <2>1
  <2> QED
    BY <1>4, <1>5, <1>6, <2>2, <2>3, <2>4 DEF MvTypes
<1>9. MvJob(d1, p1, y1, j1, o1)
  BY <1>3, <1>4, <1>5, <1>6 DEF MvJob
<1>10. /\ MvWaits(d1, p1, y1, j1, o1) /\ MvReads(d1, p1, y1, j1, o1) /\ MvTurns(d1, p1, y1, j1, o1)
       /\ MvWrites(d1, p1, y1, j1, o1)
  BY <1>5 DEF MvWaits, MvReads, MvTurns, MvWrites
<1>11. MvDelay(d1, p1, y1)
  BY <1>3, MvQuiet
<1> QED
  BY <1>1, <1>8, <1>9, <1>10, <1>11 DEF MvInv

\* The invariant: what was written is right, and what is left is counted right.
MoverInv == part = "dma" => MvInv(dma, pend, dly, job, out)

(***************************************************************************)
(* A transfer writes the source's words in order, each at its place; the   *)
(* length counts off no word that was not written, and the interrupt comes *)
(* after the last (wbdmac.v:9-18), behind the delay of busdelay.v and      *)
(* whatever the devices behind it do: the register that calls an answer    *)
(* the last is two clocks old, and the delay's two buffers make up for it. *)
(***************************************************************************)
THEOREM CopiesWhatItShould == BoardSpec => []Copies
<1>1. BoardInit => MoverInv
  <2> SUFFICES ASSUME Mover!Init PROVE MvInv(dma, pend, dly, job, out)
    BY DEF BoardInit, MoverInv
  <2>1. /\ dma.dma_state = "IDLE" /\ dma.cfg_len = 0
        /\ dma.cfg_blocklen_sub_one = Block - 1
        /\ dma.nread = 0 /\ dma.nracks = 0 /\ dma.nwritten = 0 /\ dma.nwacks = 0
        /\ dma.rdaddr = 0 /\ dma.cfg_raddr = 0 /\ dma.cfg_waddr = 0 /\ dma.addr = 0
        /\ dma.dma_mem = [a \in 0 .. Block - 1 |-> MaxMove]
    BY DEF Mover!Init, Mover!Junk
  <2>2. /\ dma.cfg_incs = FALSE /\ dma.cfg_incd = FALSE /\ dma.trigger = FALSE
        /\ dma.last_read_request = FALSE /\ dma.last_read_ack = FALSE
        /\ dma.last_write_request = FALSE /\ dma.last_write_ack = FALSE
        /\ dma.cfg_err = FALSE /\ dma.o_interrupt = FALSE
    BY DEF Mover!Init
  <2>3. /\ pend = << >> /\ out = << >> /\ dly = Mover!Idle
        /\ job.at = "on" /\ job.len = 0 /\ job.incs = FALSE /\ job.incd = FALSE
    BY DEF Mover!Init, Mover!NoJob
  <2>4. MvTypes(dma, pend, dly, job, out)
    <3>1. Block \in Nat \ {0, 1} /\ MaxMove \in Nat
      BY DmaAssumption
    <3>2. 0 \in 0 .. MaxMove /\ 0 \in 0 .. 2 * Block - 1 /\ 0 \in 0 .. Block - 1
          /\ Block - 1 \in 0 .. Block - 1
      BY <3>1
    <3>3. [a \in 0 .. Block - 1 |-> MaxMove] \in [0 .. Block - 1 -> Nat]
      BY <3>1
    <3> QED
      BY <2>1, <2>2, <2>3, <3>2, <3>3 DEF MvTypes
  <2>5. MvJob(dma, pend, dly, job, out)
    BY <2>1, <2>2, <2>3 DEF MvJob
  <2>6. /\ MvWaits(dma, pend, dly, job, out) /\ MvReads(dma, pend, dly, job, out)
        /\ MvTurns(dma, pend, dly, job, out) /\ MvWrites(dma, pend, dly, job, out)
    BY <2>1 DEF MvWaits, MvReads, MvTurns, MvWrites
  <2>7. MvDelay(dma, pend, dly)
    BY <2>3, MvQuiet
  <2> QED
    BY <2>4, <2>5, <2>6, <2>7 DEF MvInv
<1>2. MoverInv /\ [BoardNext]_boardvars => MoverInv'
  <2> SUFFICES ASSUME MoverInv, [BoardNext]_boardvars, part = "dma" PROVE MoverInv'
    BY DEF BoardNext, boardvars, MoverInv
  <2>1. MvInv(dma, pend, dly, job, out)
    BY DEF MoverInv
  <2>2. ASSUME Mover!Clock PROVE MvInv(dma', pend', dly', job', out')
    <3>1. PICK w \in Mover!Offers \cup [op : {"none"}], v \in Mover!Answers,
               grant \in BOOLEAN, dog \in BOOLEAN, dev \in BOOLEAN :
            /\ Mover!Devices(v) /\ (grant => Mover!stb)
            /\ dog => dma.dma_state \in {"READ_ACK", "WRITE_ACK"}
            /\ Mover!Registers(w, Mover!Bus(grant, dog), dev)
            /\ Mover!Delay(Mover!Bus(grant, dog), v, grant)
            /\ Mover!Program(w) /\ Mover!Written(w, Mover!Bus(grant, dog))
      BY <2>2 DEF Mover!Clock
    <3>2. PICK b : b = Mover!Bus(grant, dog) /\ MvTick(w, b, dev)
      BY <3>1 DEF MvTick
    <3>3. dma.dma_state \in {"IDLE", "WAIT", "READ_REQ", "READ_ACK", "PRE_WRITE", "WRITE_REQ",
                             "WRITE_ACK"}
      BY <2>1 DEF MvInv, MvTypes
    <3> QED
      BY <2>1, <3>2, <3>3, MvFromIdle, MvFromWait, MvFromTurn, MvFromRead, MvFromWrite
  <2>3. ASSUME Mover!Reset PROVE MvInv(dma', pend', dly', job', out')
    BY <2>1, <2>3, MvReset
  <2>4. CASE UNCHANGED boardvars
    <3>1. dma' = dma /\ pend' = pend /\ dly' = dly /\ job' = job /\ out' = out
      BY <2>4 DEF boardvars, movervars
    <3> QED
      BY <2>1, <3>1 DEF MoverInv
  <2> QED
    BY <2>2, <2>3, <2>4 DEF MoverInv, BoardNext, LinkRuns, SdramRuns, MoverRuns, FetchRuns,
      LoadsRun, TimersRun, IntsRun, Mover!Next
<1>3. MoverInv => Copies
  <2> SUFFICES ASSUME MvInv(dma, pend, dly, job, out) PROVE Mover!Copies
    BY DEF MoverInv, Copies
  <2>1. MvTypes(dma, pend, dly, job, out) /\ MvJob(dma, pend, dly, job, out)
    BY DEF MvInv
  <2>2. DOMAIN out = 1 .. Len(out)
    BY <2>1 DEF MvTypes
  <2>3. \A i \in DOMAIN out :
          out[i] = <<IF job.incd THEN i - 1 ELSE 0, IF job.incs THEN i - 1 ELSE 0>>
    BY <2>1, <2>2 DEF MvJob, MvSrc, MvDst
  <2>4. job.at = "on" => Len(out) >= job.len - dma.cfg_len
    <3>1. Len(out) \in Nat /\ dma.cfg_len \in 0 .. MaxMove /\ job.len \in 0 .. MaxMove
          /\ MaxMove \in Nat
      BY <2>1, DmaAssumption DEF MvTypes
    <3>2. job.at = "on" => Len(out) + dma.cfg_len >= job.len
      BY <2>1 DEF MvJob
    <3> QED
      BY <3>1, <3>2
  <2> QED
    BY <2>1, <2>3, <2>4 DEF MvJob, Mover!Copies
<1> QED
  BY <1>1, <1>2, <1>3, PTL DEF BoardSpec

-----------------------------------------------------------------------------
(***************************************************************************)
(* The instruction cache.  p are its registers, b what the bus owes it, c  *)
(* the processor and k the memory.  First its addresses.                   *)
(***************************************************************************)
Places == 0 .. Fetch!Space - 1

\* Quotient and remainder: there are such, only one of each, and of what they are.
LEMMA DivOf ==
  ASSUME NEW m \in Nat \ {0}, NEW x \in Nat
  PROVE  x = m * (x \div m) + (x % m) /\ x \div m \in Nat /\ x % m \in 0 .. m - 1
OBVIOUS

LEMMA DivOnly ==
  ASSUME NEW m \in Nat \ {0}, NEW q \in Nat, NEW r \in Nat,
         NEW j \in 0 .. m - 1, NEW k \in 0 .. m - 1,
         m * q + j = m * r + k
  PROVE  q = r /\ j = k
<1>1. CASE q < r
  <2>1. PICK d \in Nat : r = q + 1 + d
    <3>1. r - q - 1 \in Nat /\ r = q + 1 + (r - q - 1)
      BY <1>1
    <3> QED BY <3>1
  <2>2. m * r = m * q + m + m * d
    BY <2>1
  <2>3. PICK x \in Nat, y \in Nat : x = m * q /\ y = m * d
    OBVIOUS
  <2> QED BY <2>2, <2>3
<1>2. CASE r < q
  <2>1. PICK d \in Nat : q = r + 1 + d
    <3>1. q - r - 1 \in Nat /\ q = r + 1 + (q - r - 1)
      BY <1>2
    <3> QED BY <3>1
  <2>2. m * q = m * r + m + m * d
    BY <2>1
  <2>3. PICK x \in Nat, y \in Nat : x = m * r /\ y = m * d
    OBVIOUS
  <2> QED BY <2>2, <2>3
<1>3. CASE q = r
  <2>1. PICK x \in Nat : x = m * q
    OBVIOUS
  <2> QED BY <2>1, <1>3
<1> QED BY <1>1, <1>2, <1>3

LEMMA DivBy ==
  ASSUME NEW m \in Nat \ {0}, NEW q \in Nat, NEW k \in 0 .. m - 1
  PROVE  (m * q + k) \div m = q /\ (m * q + k) % m = k
<1>1. m * q + k \in Nat
  OBVIOUS
<1>2. PICK x \in Nat : x = m * q + k
  BY <1>1
<1> QED
  BY <1>2, DivOf, DivOnly

LEMMA DivLess ==
  ASSUME NEW m \in Nat \ {0}, NEW n \in Nat \ {0}, NEW x \in 0 .. m * n - 1
  PROVE  x \div m \in 0 .. n - 1
OBVIOUS

LEMMA MulLess ==
  ASSUME NEW m \in Nat \ {0}, NEW n \in Nat \ {0}, NEW q \in 0 .. n - 1, NEW k \in 0 .. m - 1
  PROVE  m * q + k \in 0 .. m * n - 1
OBVIOUS

\* The parts of an address.
LEMMA PfParts ==
  ASSUME NEW a \in Places
  PROVE  /\ Fetch!Line(a) \in 0 .. Lines * Tags - 1
         /\ Fetch!Index(a) \in 0 .. Lines - 1 /\ Fetch!Tag(a) \in Nat
         /\ a % Words \in 0 .. Words - 1 /\ a \in Nat
         /\ Fetch!LineStart(a) \in Nat /\ a = Fetch!LineStart(a) + (a % Words)
         /\ Fetch!Line(a) = Lines * Fetch!Tag(a) + Fetch!Index(a)
<1>1. Words \in Nat \ {0} /\ Lines \in Nat \ {0} /\ Tags \in Nat \ {0}
  BY PfAssumption
<1>2. PICK lt \in Nat \ {0} : lt = Lines * Tags
  BY <1>1
<1>3. Fetch!Space = Words * lt
  BY <1>1, <1>2 DEF Fetch!Space
<1>4. a \in 0 .. Words * lt - 1 /\ a \in Nat
  BY <1>1, <1>2, <1>3 DEF Places
<1>5. a \div Words \in 0 .. lt - 1
  BY <1>1, <1>2, <1>4, DivLess
<1>6. /\ a = Words * (a \div Words) + (a % Words)
      /\ a \div Words \in Nat /\ a % Words \in 0 .. Words - 1
  BY <1>1, <1>4, DivOf
<1>7. PICK l \in Nat : l = a \div Words
  BY <1>6
<1>8. /\ l = Lines * (l \div Lines) + (l % Lines)
      /\ l \div Lines \in Nat /\ l % Lines \in 0 .. Lines - 1
  BY <1>1, <1>7, DivOf
<1>9. Words * l \in Nat
  BY <1>1, <1>7
<1> QED
  BY <1>2, <1>4, <1>5, <1>6, <1>7, <1>8, <1>9
    DEF Fetch!Line, Fetch!Index, Fetch!Tag, Fetch!LineStart

\* The words of the line of a.
LEMMA PfInLine ==
  ASSUME NEW a \in Places, NEW i \in 0 .. Words - 1
  PROVE  /\ Fetch!LineStart(a) + i \in Places
         /\ Fetch!Line(Fetch!LineStart(a) + i) = Fetch!Line(a)
         /\ (Fetch!LineStart(a) + i) % Words = i
<1>1. Words \in Nat \ {0} /\ Lines \in Nat \ {0} /\ Tags \in Nat \ {0}
  BY PfAssumption
<1>2. PICK lt \in Nat \ {0} : lt = Lines * Tags
  BY <1>1
<1>3. Fetch!Space = Words * lt
  BY <1>1, <1>2 DEF Fetch!Space
<1>4. PICK l \in 0 .. lt - 1 : l = Fetch!Line(a)
  BY <1>2, PfParts
<1>5. Fetch!LineStart(a) = Words * l
  BY <1>4 DEF Fetch!LineStart
<1>6. Words * l + i \in 0 .. Words * lt - 1
  BY <1>1, <1>2, <1>4, MulLess
<1>7. (Words * l + i) \div Words = l /\ (Words * l + i) % Words = i
  <2>1. l \in Nat
    BY <1>2, <1>4
  <2> QED
    BY <1>1, <2>1, DivBy
<1> QED
  BY <1>3, <1>4, <1>5, <1>6, <1>7 DEF Places, Fetch!Line

\* Line and place tell addresses apart, index and tag lines, and slots places.
LEMMA PfSame ==
  ASSUME NEW a \in Places, NEW e \in Places
  PROVE  /\ Fetch!Line(a) = Fetch!Line(e) =>
              /\ Fetch!Index(a) = Fetch!Index(e) /\ Fetch!Tag(a) = Fetch!Tag(e)
              /\ Fetch!LineStart(a) = Fetch!LineStart(e)
         /\ Fetch!Index(a) = Fetch!Index(e) /\ Fetch!Tag(a) = Fetch!Tag(e)
              => Fetch!Line(a) = Fetch!Line(e)
         /\ Fetch!Slot(a) = Fetch!Slot(e) =>
              Fetch!Index(a) = Fetch!Index(e) /\ a % Words = e % Words
<1>1. Fetch!Line(a) = Fetch!Line(e) =>
              /\ Fetch!Index(a) = Fetch!Index(e) /\ Fetch!Tag(a) = Fetch!Tag(e)
              /\ Fetch!LineStart(a) = Fetch!LineStart(e)
  BY DEF Fetch!Index, Fetch!Tag, Fetch!LineStart
<1>2. ASSUME Fetch!Index(a) = Fetch!Index(e), Fetch!Tag(a) = Fetch!Tag(e)
      PROVE  Fetch!Line(a) = Fetch!Line(e)
  BY <1>2, PfParts
<1>3. ASSUME Fetch!Slot(a) = Fetch!Slot(e)
      PROVE  Fetch!Index(a) = Fetch!Index(e) /\ a % Words = e % Words
  <2>1. PICK q \in Nat, r \in Nat, i \in 0 .. Words - 1, j \in 0 .. Words - 1 :
          q = Fetch!Index(a) /\ r = Fetch!Index(e) /\ i = a % Words /\ j = e % Words
    <3>1. /\ Fetch!Index(a) \in Nat /\ a % Words \in 0 .. Words - 1
          /\ Fetch!Index(e) \in Nat /\ e % Words \in 0 .. Words - 1
      BY PfParts
    <3> QED
      BY <3>1
  <2>2. Words * q + i = Words * r + j
    BY <1>3, <2>1 DEF Fetch!Slot
  <2>3. Words \in Nat \ {0}
    BY PfAssumption
  <2>4. q = r /\ i = j
    BY <2>2, <2>3, DivOnly
  <2> QED
    BY <2>1, <2>4
<1> QED
  BY <1>1, <1>2, <1>3

\* The slots of a line follow one another.
LEMMA PfSlots ==
  ASSUME NEW a \in Places
  PROVE  /\ Fetch!Slot(a) \in 0 .. Words * Lines - 1
         /\ Fetch!Slot(a) % Words = a % Words /\ Fetch!Index(Fetch!Slot(a)) = Fetch!Index(a)
         /\ a % Words <= Words - 2 => (Fetch!Slot(a) + 1) % (Words * Lines) = Fetch!Slot(a) + 1
<1>1. Words \in Nat \ {0} /\ Lines \in Nat \ {0}
  BY PfAssumption
<1>2. PICK q \in 0 .. Lines - 1, i \in 0 .. Words - 1 : q = Fetch!Index(a) /\ i = a % Words
  BY PfParts
<1>3. Fetch!Slot(a) = Words * q + i
  BY <1>2 DEF Fetch!Slot
<1>4. Words * q + i \in 0 .. Words * Lines - 1
  BY <1>1, <1>2, MulLess
<1>5. (Words * q + i) \div Words = q /\ (Words * q + i) % Words = i
  <2>1. q \in Nat
    BY <1>1, <1>2
  <2> QED
    BY <1>1, <2>1, DivBy
<1>6. Fetch!Index(Fetch!Slot(a)) = q
  <2>1. q % Lines = q
    BY <1>1, <1>2
  <2> QED
    BY <1>3, <1>5, <2>1 DEF Fetch!Index, Fetch!Line
<1>7. ASSUME i <= Words - 2
      PROVE  (Words * q + i + 1) % (Words * Lines) = Words * q + i + 1
  <2>1. i + 1 \in 0 .. Words - 1
    BY <1>1, <1>2, <1>7
  <2>2. Words * q + (i + 1) \in 0 .. Words * Lines - 1
    BY <1>1, <1>2, <2>1, MulLess
  <2>3. Words * Lines \in Nat \ {0} /\ Words * q \in Nat
    BY <1>1, <1>2
  <2>4. PICK m \in Nat \ {0}, x \in Nat : m = Words * Lines /\ x = Words * q
    BY <2>3
  <2> QED
    BY <1>1, <1>2, <2>2, <2>4
<1> QED
  BY <1>2, <1>3, <1>4, <1>5, <1>6, <1>7

PfWords == [addr : Nat, ver : Nat]
PfSees(p) == IF p.rvsrc THEN p.r_v_from_pc ELSE p.r_v_from_last
PfPc(p)   == IF p.isrc THEN p.r_pc ELSE p.r_lastpc
PfInsn(p) == IF p.isrc THEN p.r_pc_cache ELSE p.r_last_cache
PfTag(p)  == IF p.isrc THEN p.tagvalipc ELSE p.tagvallst

\* The word at a is in its slot, none older than the last clearing; its line
\* is the one that has the tag.
PfRight(p, k, a) == p.cache[Fetch!Slot(a)].addr = a /\ p.cache[Fetch!Slot(a)].ver >= k.cleared
PfHeld(p, a) == p.cache_tags[Fetch!Index(a)] = Fetch!Tag(a)
PfGood(p, k, a) == PfRight(p, k, a) /\ Fetch!Line(a) \notin BadLines

PfTypes(p, b, c, k) ==
  /\ p.lastpc \in Places /\ p.r_pc \in Places /\ p.r_lastpc \in Places /\ p.addr \in Places
  /\ p.wraddr \in 0 .. Words * Lines - 1 /\ p.saddr \in 0 .. Lines - 1
  /\ p.cache \in [0 .. Words * Lines - 1 -> PfWords] /\ p.cache_tags \in [0 .. Lines - 1 -> Nat]
  /\ p.valid_mask \in [0 .. Lines - 1 -> BOOLEAN]
  /\ p.isrc \in BOOLEAN /\ p.rvsrc \in BOOLEAN
  /\ p.r_v_from_pc \in BOOLEAN /\ p.r_v_from_last \in BOOLEAN
  /\ p.needload \in BOOLEAN /\ p.last_addr \in BOOLEAN /\ p.last_ack \in BOOLEAN
  /\ p.bus_abort \in BOOLEAN /\ p.cyc \in BOOLEAN /\ p.stb \in BOOLEAN /\ p.svmask \in BOOLEAN
  /\ p.illegal_valid \in BOOLEAN /\ p.o_illegal \in BOOLEAN
  /\ b \in Seq(PfWords)
  /\ c \in [st : {"clear", "run", "stopped"}, pf_pc : Places, want : Places]
  /\ k.ver \in Nat /\ k.cleared \in Nat /\ k.cleared <= k.ver

PfPlaced(p, c) ==
  /\ PfPc(p) = p.lastpc
  /\ c.st = "run" => p.lastpc = c.want /\ c.pf_pc = (c.want + 1) % Fetch!Space

\* The tag that was read is that of a valid line.
PfFresh(p) ==
  p.valid_mask[Fetch!Index(p.lastpc)] => PfTag(p) = p.cache_tags[Fetch!Index(p.lastpc)]

PfKeeps(p, k) ==
  \A a \in Places : p.valid_mask[Fetch!Index(a)] /\ PfHeld(p, a) => PfGood(p, k, a)

\* What is being loaded is not valid.
PfAlone(p, b) ==
  /\ p.cyc => ~p.valid_mask[Fetch!Index(p.addr)]
  /\ p.svmask => ~p.cyc
  /\ p.stb => p.cyc
  /\ ~p.cyc => b = << >>

\* A load of which n words have come.
PfLoading(p, b, k, n) ==
  /\ p.wraddr = Fetch!Slot(Fetch!LineStart(p.addr) + n)
  /\ p.last_ack <=> n = Words - 1
  /\ ~p.last_addr => /\ p.stb /\ p.addr % Words <= Words - 2
                     /\ n + Len(b) = p.addr % Words
  /\ p.last_addr => /\ p.addr % Words = Words - 1 /\ n >= 1
                    /\ n + Len(b) = IF p.stb THEN Words - 1 ELSE Words
  /\ Len(b) <= PfPend
  /\ \A i \in 1 .. Len(b) : b[i].addr = Fetch!LineStart(p.addr) + (n + i - 1)
  /\ n >= 1 => PfHeld(p, p.addr) /\ Fetch!Line(p.addr) \notin BadLines
  /\ ~p.bus_abort =>
       /\ \A i \in 1 .. Len(b) : b[i].ver >= k.cleared
       /\ \A i \in 0 .. n - 1 : PfRight(p, k, Fetch!LineStart(p.addr) + i)

PfLoads(p, b, k) == p.cyc => \E n \in 0 .. Words - 1 : PfLoading(p, b, k, n)

\* A line that was loaded, before it is marked as valid.
PfSaves(p, k) ==
  p.svmask /\ ~p.bus_abort =>
    \A a \in Places : Fetch!Index(a) = p.saddr /\ PfHeld(p, a) => PfGood(p, k, a)

PfRefuses(p) ==
  /\ p.illegal_valid => p.illegal_cache \in BadLines
  /\ p.o_illegal => Fetch!Line(p.lastpc) \in BadLines

PfHands(p, k) ==
  PfSees(p) => /\ PfInsn(p).addr = p.lastpc /\ PfInsn(p).ver >= k.cleared
               /\ Fetch!Line(p.lastpc) \notin BadLines /\ PfHeld(p, p.lastpc)

PfInv(p, b, c, k) ==
  /\ PfTypes(p, b, c, k) /\ PfPlaced(p, c) /\ PfFresh(p) /\ PfKeeps(p, k)
  /\ PfAlone(p, b) /\ PfLoads(p, b, k) /\ PfSaves(p, k) /\ PfRefuses(p) /\ PfHands(p, k)

\* A clock of the cache.
PfTick(c, x) ==
  /\ c \in Fetch!Does /\ x \in [stall : BOOLEAN, ack : BOOLEAN, err : BOOLEAN]
  /\ Fetch!Answers(x) /\ Fetch!Fetch(c, x) /\ Fetch!Devices(c, x)
  /\ \E writes \in BOOLEAN : (writes => code.ver = 0) /\ Fetch!Memory(c, writes)
  /\ Fetch!Processor(c)

\* What the processor does.
LEMMA PfCommands ==
  ASSUME NEW c, NEW x, PfTypes(pf, bus, cpu, code), PfTick(c, x)
  PROVE  /\ c.op \in {"jump", "none", "clear", "reset"}
         /\ Fetch!Clears(c) <=> c.op \in {"clear", "reset"}
         /\ c.op = "jump" => c.to \in Places
         /\ Fetch!i_pc(c) \in Places
         /\ Fetch!Moves(c) <=> (Fetch!r_v /\ c.takes) \/ c.op = "jump"
         /\ Fetch!r_v <=> PfSees(pf)
         /\ x.ack \in BOOLEAN /\ x.err \in BOOLEAN /\ x.stall \in BOOLEAN
<1>1. c \in Fetch!Does
  BY DEF PfTick
<1>2. c \in [op : {"jump"}, to : Targets, takes : Fetch!Takes]
        \/ c.op \in {"none", "clear", "reset"}
  BY <1>1 DEF Fetch!Does
<1>3. c.op = "jump" => c.to \in Targets
  BY <1>2
<1>4. Targets \subseteq Places
  BY PfAssumption DEF Places, Fetch!Space
<1> QED
  BY <1>2, <1>3, <1>4 DEF PfTypes, PfTick, Fetch!Clears, Fetch!Moves, Fetch!i_pc, Fetch!r_v, PfSees

\* What the registers are after a clock, first those that are no flags.
LEMMA PfWires ==
  ASSUME NEW c, NEW x, Fetch!Fetch(c, x)
  PROVE  /\ pf'.r_pc = Fetch!i_pc(c) /\ pf'.r_lastpc = pf.lastpc
         /\ pf'.r_pc_cache = pf.cache[Fetch!Slot(Fetch!i_pc(c))]
         /\ pf'.r_last_cache = pf.cache[Fetch!Slot(pf.lastpc)]
         /\ pf'.tagvalipc = pf.cache_tags[Fetch!Index(Fetch!i_pc(c))]
         /\ pf'.tagvallst = pf.cache_tags[Fetch!Index(pf.lastpc)]
         /\ pf'.lastpc = IF Fetch!Moves(c) THEN Fetch!i_pc(c) ELSE pf.lastpc
         /\ pf'.addr = Fetch!addr(x) /\ pf'.wraddr = Fetch!wraddr(x)
         /\ pf'.cache = Fetch!cache(x) /\ pf'.cache_tags = Fetch!cache_tags(x)
         /\ pf'.valid_mask = Fetch!valid_mask(c)
         /\ pf'.saddr = IF pf.cyc /\ x.ack THEN Fetch!Index(pf.wraddr) ELSE pf.saddr
         /\ pf'.illegal_cache = IF Fetch!Clears(c) THEN 0
                                ELSE IF pf.cyc /\ x.err THEN Fetch!Line(pf.addr)
                                ELSE pf.illegal_cache
  BY DEF Fetch!Fetch

LEMMA PfFlags ==
  ASSUME NEW c, NEW x, Fetch!Fetch(c, x)
  PROVE  /\ (pf'.isrc <=> Fetch!Moves(c)) /\ (pf'.rvsrc <=> Fetch!rvsrc(c))
         /\ pf'.r_v_from_pc <=> Fetch!w_v_from_pc(c) /\ ~(Fetch!Clears(c) \/ c.op = "jump")
         /\ pf'.r_v_from_last <=> Fetch!w_v_from_last /\ ~(Fetch!Clears(c) \/ c.op = "jump")
         /\ (pf'.last_addr <=> Fetch!last_addr(x)) /\ (pf'.last_ack <=> Fetch!last_ack(x))
         /\ pf'.bus_abort <=> pf.cyc /\ (pf.bus_abort \/ c.op = "clear")
         /\ pf'.cyc <=> c.op # "reset" /\ (IF pf.cyc THEN ~Fetch!Ends(x) ELSE pf.needload)
         /\ pf'.stb <=> c.op # "reset" /\ (IF pf.cyc THEN /\ pf.stb /\ ~Fetch!Ends(x)
                                                         /\ ~(~x.stall /\ pf.last_addr)
                                           ELSE pf.needload)
         /\ pf'.svmask <=> ~Fetch!Clears(c) /\ pf.cyc /\ x.ack /\ pf.last_ack
         /\ pf'.illegal_valid <=> ~Fetch!Clears(c) /\ (pf.illegal_valid \/ (pf.cyc /\ x.err))
         /\ pf'.o_illegal <=> /\ ~(Fetch!Clears(c) \/ c.op = "jump") /\ ~pf.cyc
                              /\ pf.illegal_valid /\ pf.illegal_cache = Fetch!Line(pf.lastpc)
  BY ZenonT(30) DEF Fetch!Fetch

LEMMA PfBooleans ==
  ASSUME NEW c, NEW x, Fetch!Fetch(c, x)
  PROVE  /\ pf'.isrc \in BOOLEAN /\ pf'.rvsrc \in BOOLEAN
         /\ pf'.r_v_from_pc \in BOOLEAN /\ pf'.r_v_from_last \in BOOLEAN
         /\ pf'.needload \in BOOLEAN /\ pf'.last_addr \in BOOLEAN /\ pf'.last_ack \in BOOLEAN
         /\ pf'.bus_abort \in BOOLEAN /\ pf'.cyc \in BOOLEAN /\ pf'.stb \in BOOLEAN
         /\ pf'.svmask \in BOOLEAN /\ pf'.illegal_valid \in BOOLEAN /\ pf'.o_illegal \in BOOLEAN
  BY ZenonT(30) DEF Fetch!Fetch, Fetch!Moves, Fetch!rvsrc, Fetch!Clears, Fetch!needload,
    Fetch!last_addr, Fetch!last_ack

\* What a clock leaves valid, and what it does not touch.
LEMMA PfValid ==
  ASSUME NEW c, NEW x, PfInv(pf, bus, cpu, code), PfTick(c, x), NEW i \in 0 .. Lines - 1
  PROVE  /\ pf'.valid_mask[i] <=> /\ ~Fetch!Clears(c)
                                  /\ ~(~pf.cyc /\ pf.needload /\ i = Fetch!Index(pf.lastpc))
                                  /\ IF pf.svmask /\ i = pf.saddr THEN ~pf.bus_abort
                                     ELSE pf.valid_mask[i]
         /\ pf'.valid_mask \in [0 .. Lines - 1 -> BOOLEAN]
<1>1. DOMAIN pf.valid_mask = 0 .. Lines - 1 /\ pf.valid_mask[i] \in BOOLEAN
      /\ \A l \in 0 .. Lines - 1 : pf.valid_mask[l] \in BOOLEAN
  BY DEF PfInv, PfTypes
<1>2. pf'.valid_mask = Fetch!valid_mask(c)
  BY PfWires DEF PfTick
<1>3. CASE Fetch!Clears(c)
  <2>1. pf'.valid_mask = [l \in 0 .. Lines - 1 |-> FALSE]
    BY <1>1, <1>2, <1>3 DEF Fetch!valid_mask
  <2> QED
    BY <1>3, <2>1
<1>4. CASE ~Fetch!Clears(c)
  <2>1. pf'.valid_mask = [l \in 0 .. Lines - 1 |->
                            IF ~pf.cyc /\ pf.needload /\ l = Fetch!Index(pf.lastpc) THEN FALSE
                            ELSE IF pf.svmask /\ l = pf.saddr THEN ~pf.bus_abort
                            ELSE pf.valid_mask[l]]
    BY <1>1, <1>2, <1>4, Zenon DEF Fetch!valid_mask
  <2> QED
    BY <1>1, <1>4, <2>1, ZenonT(30)
<1> QED
  BY <1>3, <1>4

\* Where a load is.
LEMMA PfAtWork ==
  ASSUME PfInv(pf, bus, cpu, code), pf.cyc
  PROVE  \E n \in 0 .. Words - 1 :
           /\ PfLoading(pf, bus, code, n)
           /\ pf.wraddr % Words = n /\ Fetch!Index(pf.wraddr) = Fetch!Index(pf.addr)
<1>1. PICK n \in 0 .. Words - 1 : PfLoading(pf, bus, code, n)
  BY DEF PfInv, PfLoads
<1>2. pf.addr \in Places /\ pf.wraddr = Fetch!Slot(Fetch!LineStart(pf.addr) + n)
  BY <1>1 DEF PfInv, PfTypes, PfLoading
<1>3. PICK e \in Places : /\ e = Fetch!LineStart(pf.addr) + n
                          /\ e % Words = n /\ Fetch!Line(e) = Fetch!Line(pf.addr)
  BY <1>2, PfInLine
<1>4. Fetch!Index(e) = Fetch!Index(pf.addr)
  BY <1>2, <1>3, PfSame
<1>5. pf.wraddr % Words = n /\ Fetch!Index(pf.wraddr) = Fetch!Index(e)
  BY <1>2, <1>3, PfSlots
<1> QED
  BY <1>1, <1>4, <1>5

\* Nothing but the line being loaded is touched.
LEMMA PfUntouched ==
  ASSUME NEW c, NEW x, PfInv(pf, bus, cpu, code), PfTick(c, x), NEW a \in Places,
         pf.cyc => Fetch!Index(a) # Fetch!Index(pf.addr)
  PROVE  /\ pf'.cache_tags[Fetch!Index(a)] = pf.cache_tags[Fetch!Index(a)]
         /\ pf'.cache[Fetch!Slot(a)] = pf.cache[Fetch!Slot(a)]
<1>1. pf'.cache = Fetch!cache(x) /\ pf'.cache_tags = Fetch!cache_tags(x)
  BY PfWires DEF PfTick
<1>2. Fetch!Index(a) \in 0 .. Lines - 1 /\ Fetch!Slot(a) \in 0 .. Words * Lines - 1
      /\ Fetch!Index(Fetch!Slot(a)) = Fetch!Index(a)
  BY PfParts, PfSlots
<1>3. DOMAIN pf.cache = 0 .. Words * Lines - 1 /\ DOMAIN pf.cache_tags = 0 .. Lines - 1
  BY DEF PfInv, PfTypes
<1>4. CASE ~pf.cyc
  BY <1>1, <1>4 DEF Fetch!cache, Fetch!cache_tags
<1>5. CASE pf.cyc
  <2>1. Fetch!Index(pf.wraddr) = Fetch!Index(pf.addr)
    BY <1>5, PfAtWork
  <2>2. Fetch!Slot(a) # pf.wraddr /\ Fetch!Index(a) # Fetch!Index(pf.addr)
    BY <1>2, <1>5, <2>1
  <2>3. pf'.cache[Fetch!Slot(a)] = pf.cache[Fetch!Slot(a)]
    BY <1>1, <1>2, <1>3, <1>5, <2>2 DEF Fetch!cache
  <2>4. pf'.cache_tags[Fetch!Index(a)] = pf.cache_tags[Fetch!Index(a)]
    BY <1>1, <1>2, <1>3, <1>5, <2>2 DEF Fetch!cache_tags
  <2> QED
    BY <2>3, <2>4
<1> QED
  BY <1>4, <1>5

\* A word of a valid line is not touched.
LEMMA PfValidStays ==
  ASSUME NEW c, NEW x, PfInv(pf, bus, cpu, code), PfTick(c, x), NEW a \in Places,
         pf.valid_mask[Fetch!Index(a)] \/ pf'.valid_mask[Fetch!Index(a)]
  PROVE  /\ pf'.cache_tags[Fetch!Index(a)] = pf.cache_tags[Fetch!Index(a)]
         /\ pf'.cache[Fetch!Slot(a)] = pf.cache[Fetch!Slot(a)]
<1>1. Fetch!Index(a) \in 0 .. Lines - 1
  BY PfParts
<1>2. PfAlone(pf, bus)
  BY DEF PfInv
<1>3. ASSUME pf.cyc PROVE Fetch!Index(a) # Fetch!Index(pf.addr)
  BY <1>1, <1>2, <1>3, PfValid DEF PfAlone
<1> QED
  BY <1>3, PfUntouched

\* The memory is not older than what is in use, and the clearing is remembered.
LEMMA PfMemory ==
  ASSUME NEW c, NEW x, PfInv(pf, bus, cpu, code), PfTick(c, x)
  PROVE  /\ code'.ver \in Nat /\ code'.cleared \in Nat /\ code'.cleared <= code'.ver
         /\ code.ver \in Nat /\ code.cleared \in Nat /\ code.cleared <= code.ver
         /\ code'.ver >= code.ver
         /\ ~Fetch!Clears(c) => code'.cleared = code.cleared
<1>1. PICK writes \in BOOLEAN : (writes => code.ver = 0) /\ Fetch!Memory(c, writes)
  BY DEF PfTick
<1>2. code.ver \in Nat /\ code.cleared \in Nat /\ code.cleared <= code.ver
  BY DEF PfInv, PfTypes
<1>3. /\ code'.ver = IF writes THEN 1 ELSE code.ver
      /\ code'.cleared = IF Fetch!Clears(c) THEN code.ver ELSE code.cleared
  BY <1>1 DEF Fetch!Memory
<1> QED
  BY <1>1, <1>2, <1>3

\* What the bus owes the cache after the clock.
LEMMA PfQueue ==
  ASSUME NEW c, NEW x, PfInv(pf, bus, cpu, code), PfTick(c, x)
  PROVE  /\ bus' \in Seq(PfWords)
         /\ ~pf'.cyc => bus' = << >>
         /\ ~pf.cyc => bus' = << >>
         /\ pf.cyc /\ pf'.cyc =>
              \E a \in 0 .. 1, s \in 0 .. 1 :
                /\ (a = 1 <=> x.ack) /\ (s = 1 <=> pf.stb /\ ~x.stall)
                /\ a <= Len(bus) /\ Len(bus') = Len(bus) - a + s
                /\ \A i \in 1 .. Len(bus) - a : bus'[i] = bus[i + a]
                /\ s = 1 => bus'[Len(bus')] = [addr |-> pf.addr, ver |-> code.ver]
<1>1. bus \in Seq(PfWords) /\ pf.addr \in Nat /\ code.ver \in Nat
  BY PfParts DEF PfInv, PfTypes
<1>2. x.ack => bus # << >>
  BY DEF PfTick, Fetch!Answers
<1>3. PICK kept : kept = IF x.ack THEN Tail(bus) ELSE bus
  OBVIOUS
<1>4. PICK w \in PfWords : w = [addr |-> pf.addr, ver |-> code.ver]
  BY <1>1 DEF PfWords
<1>5. bus' = IF c.op = "reset" \/ ~pf.cyc \/ Fetch!Ends(x) THEN << >>
             ELSE IF pf.stb /\ ~x.stall THEN Append(kept, w) ELSE kept
  BY <1>3, <1>4 DEF PfTick, Fetch!Devices
<1>6. pf'.cyc <=> c.op # "reset" /\ (IF pf.cyc THEN ~Fetch!Ends(x) ELSE pf.needload)
  BY PfFlags DEF PfTick
<1>7. PICK a \in 0 .. 1, s \in 0 .. 1 : (a = 1 <=> x.ack) /\ (s = 1 <=> pf.stb /\ ~x.stall)
  <2>1. 0 \in 0 .. 1 /\ 1 \in 0 .. 1 /\ 0 # 1
    OBVIOUS
  <2> QED
    BY <2>1, Zenon
<1>8. /\ kept \in Seq(PfWords) /\ Len(kept) = Len(bus) - a /\ a <= Len(bus)
      /\ \A i \in 1 .. Len(bus) - a : kept[i] = bus[i + a]
  <2>1. CASE x.ack
    <3>1. a = 1 /\ kept = Tail(bus) /\ bus # << >>
      BY <1>2, <1>3, <1>7, <2>1
    <3> HIDE DEF PfWords
    <3>2. kept \in Seq(PfWords) /\ Len(kept) = Len(bus) - 1 /\ Len(bus) >= 1
          /\ \A i \in 1 .. Len(bus) - 1 : kept[i] = bus[i + 1]
      BY <1>1, <3>1
    <3> QED
      BY <3>1, <3>2
  <2>2. CASE ~x.ack
    <3>1. a = 0 /\ kept = bus
      BY <1>3, <1>7, <2>2
    <3> QED
      BY <1>1, <3>1
  <2> QED
    BY <2>1, <2>2
<1>9. /\ Append(kept, w) \in Seq(PfWords) /\ Len(Append(kept, w)) = Len(bus) - a + 1
      /\ \A i \in 1 .. Len(bus) - a : Append(kept, w)[i] = bus[i + a]
      /\ Append(kept, w)[Len(bus) - a + 1] = w
  <2>1. Append(kept, w) \in Seq(PfWords) /\ Len(Append(kept, w)) = Len(kept) + 1
        /\ (\A i \in 1 .. Len(kept) : Append(kept, w)[i] = kept[i])
        /\ Append(kept, w)[Len(kept) + 1] = w
    BY <1>4, <1>8
  <2> QED
    BY <1>8, <2>1
<1>10. << >> \in Seq(PfWords)
  OBVIOUS
<1>11. bus' \in Seq(PfWords)
  BY <1>5, <1>8, <1>9, <1>10
<1>12. ASSUME pf.cyc, pf'.cyc
       PROVE  /\ a <= Len(bus) /\ Len(bus') = Len(bus) - a + s
              /\ \A i \in 1 .. Len(bus) - a : bus'[i] = bus[i + a]
              /\ s = 1 => bus'[Len(bus')] = w
  <2>1. bus' = IF pf.stb /\ ~x.stall THEN Append(kept, w) ELSE kept
    BY <1>5, <1>6, <1>12
  <2>2. CASE s = 1
    <3>1. bus' = Append(kept, w)
      BY <1>7, <2>1, <2>2
    <3> QED
      BY <1>8, <1>9, <2>2, <3>1
  <2>3. CASE s = 0
    <3>1. bus' = kept
      BY <1>7, <2>1, <2>3
    <3> QED
      BY <1>1, <1>8, <2>3, <3>1
  <2> QED
    BY <2>2, <2>3
<1>13. (~pf'.cyc => bus' = << >>) /\ (~pf.cyc => bus' = << >>)
  <2>1. CASE pf.cyc
    BY <1>5, <1>6, <2>1
  <2>2. CASE ~pf.cyc
    BY <1>5, <2>2
  <2> QED
    BY <2>1, <2>2
<1> QED
  BY <1>4, <1>7, <1>11, <1>12, <1>13

\* The registers and the processor stay what they are.
LEMMA PfKinds ==
  ASSUME NEW c, NEW x, PfInv(pf, bus, cpu, code), PfTick(c, x)
  PROVE  PfTypes(pf', bus', cpu', code')
<1>1. PfTypes(pf, bus, cpu, code)
  BY DEF PfInv
<1>2. /\ c.op \in {"jump", "none", "clear", "reset"}
      /\ c.op = "jump" => c.to \in Places
      /\ Fetch!i_pc(c) \in Places /\ x.ack \in BOOLEAN
  BY <1>1, PfCommands
<1>3. \A a \in Places : /\ Fetch!LineStart(a) \in Places /\ Fetch!Slot(a) \in 0 .. Words * Lines - 1
                        /\ Fetch!Index(a) \in 0 .. Lines - 1 /\ Fetch!Tag(a) \in Nat
  <2> SUFFICES ASSUME NEW a \in Places
               PROVE  /\ Fetch!LineStart(a) \in Places /\ Fetch!Slot(a) \in 0 .. Words * Lines - 1
                      /\ Fetch!Index(a) \in 0 .. Lines - 1 /\ Fetch!Tag(a) \in Nat
    OBVIOUS
  <2>1. 0 \in 0 .. Words - 1
    BY PfAssumption
  <2>2. Fetch!LineStart(a) + 0 \in Places /\ Fetch!LineStart(a) \in Nat
    BY <2>1, PfInLine, PfParts
  <2> QED
    BY <2>2, PfSlots, PfParts
<1>4. pf.lastpc \in Places /\ pf.addr \in Places /\ pf.wraddr \in 0 .. Words * Lines - 1
      /\ pf.cache \in [0 .. Words * Lines - 1 -> PfWords]
      /\ pf.cache_tags \in [0 .. Lines - 1 -> Nat]
      /\ bus \in Seq(PfWords)
  BY <1>1 DEF PfTypes
<1>5. pf'.lastpc \in Places /\ pf'.r_pc \in Places /\ pf'.r_lastpc \in Places
  BY <1>2, <1>4, PfWires DEF PfTick
<1>6. pf'.addr \in Places
  <2>1. (pf.addr + 1) % Words \in 0 .. Words - 1
    <3>1. PICK e \in Nat, m \in Nat \ {0} : e = pf.addr /\ m = Words
      BY <1>4, PfAssumption DEF Places
    <3> QED
      BY <3>1
  <2>2. Fetch!LineStart(pf.addr) + ((pf.addr + 1) % Words) \in Places
    BY <1>4, <2>1, PfInLine
  <2> QED
    BY <1>3, <1>4, <2>2, PfWires DEF PfTick, Fetch!addr
<1>7. pf'.wraddr \in 0 .. Words * Lines - 1
  <2>1. PICK m \in Nat \ {0} : m = Words * Lines
    BY PfAssumption
  <2>2. (pf.wraddr + 1) % m \in 0 .. m - 1
    BY <1>4, <2>1
  <2>3. Fetch!Slot(Fetch!LineStart(pf.lastpc)) \in 0 .. Words * Lines - 1
    BY <1>3, <1>4
  <2> QED
    BY <1>4, <2>1, <2>2, <2>3, PfWires DEF PfTick, Fetch!wraddr
<1>8. pf'.saddr \in 0 .. Lines - 1
  <2>1. pf.cyc => Fetch!Index(pf.wraddr) \in 0 .. Lines - 1
    BY <1>3, <1>4, PfAtWork
  <2> QED
    BY <1>1, <2>1, PfWires DEF PfTick, PfTypes
<1>9. pf'.cache \in [0 .. Words * Lines - 1 -> PfWords]
  <2>1. x.ack => Head(bus) \in PfWords
    BY <1>4 DEF PfTick, Fetch!Answers
  <2>2. Fetch!Junk \in PfWords
    BY PfAssumption DEF Fetch!Junk, PfWords, Fetch!Space
  <2>3. PICK w \in PfWords : w = IF x.ack THEN Head(bus) ELSE Fetch!Junk
    BY <2>1, <2>2
  <2>4. pf'.cache = IF pf.cyc THEN [pf.cache EXCEPT ![pf.wraddr] = w] ELSE pf.cache
    BY <2>3, PfWires DEF PfTick, Fetch!cache
  <2> HIDE DEF PfWords
  <2> QED
    BY <1>4, <2>4
<1>10. pf'.cache_tags \in [0 .. Lines - 1 -> Nat]
  BY <1>3, <1>4, PfWires DEF PfTick, Fetch!cache_tags
<1>11. pf'.valid_mask \in [0 .. Lines - 1 -> BOOLEAN]
  <2>1. 0 \in 0 .. Lines - 1
    BY PfAssumption
  <2> QED
    BY <2>1, PfValid
<1>12. cpu' \in [st : {"clear", "run", "stopped"}, pf_pc : Places, want : Places]
  <2>1. \A e \in Nat : (e + 1) % Fetch!Space \in Places
    <3>1. Fetch!Space \in Nat \ {0}
      BY PfAssumption DEF Fetch!Space
    <3>2. PICK m \in Nat \ {0} : m = Fetch!Space
      BY <3>1
    <3> QED
      BY <3>2 DEF Places
  <2>2. cpu \in [st : {"clear", "run", "stopped"}, pf_pc : Places, want : Places]
        /\ cpu.pf_pc \in Places /\ cpu.want \in Places /\ cpu.st \in {"clear", "run", "stopped"}
        /\ cpu.pf_pc \in Nat /\ cpu.want \in Nat /\ (c.op = "jump" => c.to \in Nat)
    BY <1>1, <1>2, PfParts DEF PfTypes
  <2>3. CASE Fetch!Clears(c)
    <3>1. cpu' = [cpu EXCEPT !.st = "clear"]
      BY <2>3 DEF PfTick, Fetch!Processor
    <3> QED
      BY <2>2, <3>1
  <2>4. CASE ~Fetch!Clears(c) /\ c.op = "jump"
    <3>1. cpu' = [st |-> "run", pf_pc |-> (c.to + 1) % Fetch!Space, want |-> c.to]
      BY <2>4 DEF PfTick, Fetch!Processor
    <3> QED
      BY <1>2, <2>1, <2>2, <2>4, <3>1
  <2>5. CASE ~Fetch!Clears(c) /\ c.op # "jump"
    <3>1. cpu' = IF Fetch!valid /\ c.takes
                 THEN [st |-> IF pf.o_illegal THEN "stopped" ELSE cpu.st,
                       pf_pc |-> (cpu.pf_pc + 1) % Fetch!Space,
                       want |-> (cpu.want + 1) % Fetch!Space]
                 ELSE cpu
      BY <2>5 DEF PfTick, Fetch!Processor
    <3> QED
      BY <2>1, <2>2, <3>1
  <2> QED
    BY <2>3, <2>4, <2>5
<1>13. /\ bus' \in Seq(PfWords)
       /\ code'.ver \in Nat /\ code'.cleared \in Nat /\ code'.cleared <= code'.ver
  BY PfQueue, PfMemory
<1>14. PICK p1, b1, c1, k1 : p1 = pf' /\ b1 = bus' /\ c1 = cpu' /\ k1 = code'
  OBVIOUS
<1>15. /\ p1.isrc \in BOOLEAN /\ p1.rvsrc \in BOOLEAN
       /\ p1.r_v_from_pc \in BOOLEAN /\ p1.r_v_from_last \in BOOLEAN
       /\ p1.needload \in BOOLEAN /\ p1.last_addr \in BOOLEAN /\ p1.last_ack \in BOOLEAN
       /\ p1.bus_abort \in BOOLEAN /\ p1.cyc \in BOOLEAN /\ p1.stb \in BOOLEAN
       /\ p1.svmask \in BOOLEAN /\ p1.illegal_valid \in BOOLEAN /\ p1.o_illegal \in BOOLEAN
  BY <1>14, PfBooleans DEF PfTick
<1>16. PfTypes(p1, b1, c1, k1)
  BY <1>5, <1>6, <1>7, <1>8, <1>9, <1>10, <1>11, <1>12, <1>13, <1>14, <1>15, Zenon DEF PfTypes
<1> QED
  BY <1>14, <1>16

\* A load that goes on: the line stays, the address moves within it.
LEMMA PfAddress ==
  ASSUME NEW c, NEW x, PfInv(pf, bus, cpu, code), PfTick(c, x)
  PROVE  /\ ~pf.cyc => pf'.addr = Fetch!LineStart(pf.lastpc)
         /\ pf.cyc => /\ Fetch!Line(pf'.addr) = Fetch!Line(pf.addr)
                      /\ pf'.addr % Words =
                           IF pf.stb /\ ~x.stall /\ ~pf.last_addr THEN (pf.addr % Words) + 1
                           ELSE pf.addr % Words
<1>1. pf'.addr = Fetch!addr(x)
  BY PfWires DEF PfTick
<1>2. pf.addr \in Places
  BY DEF PfInv, PfTypes
<1>3. ASSUME ~pf.cyc PROVE pf'.addr = Fetch!LineStart(pf.lastpc)
  <2>1. ~pf.stb
    BY <1>3 DEF PfInv, PfAlone
  <2> QED
    BY <1>1, <1>3, <2>1 DEF Fetch!addr
<1>4. ASSUME pf.cyc, pf.stb, ~x.stall, ~pf.last_addr
      PROVE  /\ Fetch!Line(pf'.addr) = Fetch!Line(pf.addr)
             /\ pf'.addr % Words = (pf.addr % Words) + 1
  <2>1. pf.addr % Words <= Words - 2
    BY <1>4, PfAtWork DEF PfLoading
  <2>2. PICK o \in 0 .. Words - 1, l \in Nat, m \in Nat \ {0}, e \in Nat :
          o = pf.addr % Words /\ l = Fetch!LineStart(pf.addr) /\ m = Words /\ e = pf.addr
    <3>1. /\ pf.addr % Words \in 0 .. Words - 1 /\ Fetch!LineStart(pf.addr) \in Nat
          /\ Words \in Nat \ {0} /\ pf.addr \in Nat
      BY <1>2, PfParts, PfAssumption
    <3> QED
      BY <3>1
  <2>3. e = l + o /\ l = Words * Fetch!Line(pf.addr)
    BY <1>2, <2>2, PfParts DEF Fetch!LineStart
  <2>4. o + 1 \in 0 .. Words - 1 /\ o \in Nat
    BY <2>1, <2>2
  <2>5. Fetch!LineStart(pf.addr) + (o + 1) \in Places
        /\ Fetch!Line(Fetch!LineStart(pf.addr) + (o + 1)) = Fetch!Line(pf.addr)
        /\ (Fetch!LineStart(pf.addr) + (o + 1)) % Words = o + 1
    BY <1>2, <2>4, PfInLine
  <2>6. e + 1 = l + (o + 1)
    BY <2>2, <2>3, <2>4
  <2>7. (pf.addr + 1) % Words = o + 1
    BY <2>2, <2>5, <2>6
  <2>8. pf'.addr = Fetch!LineStart(pf.addr) + (o + 1)
    BY <1>1, <1>4, <2>7 DEF Fetch!addr
  <2> QED
    BY <2>2, <2>5, <2>8
<1>5. ASSUME pf.cyc, ~(pf.stb /\ ~x.stall /\ ~pf.last_addr) PROVE pf'.addr = pf.addr
  BY <1>1, <1>5 DEF Fetch!addr
<1> QED
  BY <1>3, <1>4, <1>5

\* The line being loaded stays out of the valid ones.
LEMMA PfStaysAlone ==
  ASSUME NEW c, NEW x, PfInv(pf, bus, cpu, code), PfTick(c, x)
  PROVE  PfAlone(pf', bus')
<1>1. PICK p1, b1 : p1 = pf' /\ b1 = bus'
  OBVIOUS
<1>2. PfTypes(pf, bus, cpu, code) /\ PfTypes(p1, b1, cpu', code') /\ PfAlone(pf, bus)
  BY <1>1, PfKinds DEF PfInv
<1>3. /\ p1.cyc <=> c.op # "reset" /\ (IF pf.cyc THEN ~Fetch!Ends(x) ELSE pf.needload)
      /\ p1.stb <=> c.op # "reset" /\ (IF pf.cyc THEN /\ pf.stb /\ ~Fetch!Ends(x)
                                                      /\ ~(~x.stall /\ pf.last_addr)
                                       ELSE pf.needload)
      /\ p1.svmask <=> ~Fetch!Clears(c) /\ pf.cyc /\ x.ack /\ pf.last_ack
  BY <1>1, PfFlags DEF PfTick
<1>4. p1.stb => p1.cyc
  BY <1>3
<1>5. p1.svmask => ~p1.cyc
  BY <1>3 DEF Fetch!Ends
<1>6. ASSUME p1.cyc PROVE ~p1.valid_mask[Fetch!Index(p1.addr)]
  <2>1. p1.addr \in Places /\ pf.addr \in Places /\ pf.lastpc \in Places
    BY <1>2 DEF PfTypes
  <2>2. Fetch!Index(p1.addr) = Fetch!Index(IF pf.cyc THEN pf.addr ELSE pf.lastpc)
    <3>1. CASE pf.cyc
      BY <1>1, <2>1, <3>1, PfAddress, PfSame
    <3>2. CASE ~pf.cyc
      <4>1. p1.addr = Fetch!LineStart(pf.lastpc)
        BY <1>1, <3>2, PfAddress
      <4>2. 0 \in 0 .. Words - 1 /\ Fetch!LineStart(pf.lastpc) \in Nat
        BY <2>1, PfParts, PfAssumption
      <4>3. Fetch!Line(Fetch!LineStart(pf.lastpc) + 0) = Fetch!Line(pf.lastpc)
        BY <2>1, <4>2, PfInLine
      <4>4. Fetch!Line(p1.addr) = Fetch!Line(pf.lastpc)
        BY <4>1, <4>2, <4>3
      <4> QED
        BY <2>1, <3>2, <4>4, PfSame
    <3> QED
      BY <3>1, <3>2
  <2>3. Fetch!Index(p1.addr) \in 0 .. Lines - 1
    BY <2>1, PfParts
  <2>4. CASE pf.cyc
    <3>1. ~pf.svmask /\ ~pf.valid_mask[Fetch!Index(p1.addr)]
      BY <1>2, <2>2, <2>4 DEF PfAlone
    <3> QED
      BY <1>1, <2>3, <3>1, PfValid
  <2>5. CASE ~pf.cyc
    <3>1. pf.needload
      BY <1>3, <1>6, <2>5
    <3> QED
      BY <1>1, <2>2, <2>3, <2>5, <3>1, PfValid
  <2> QED
    BY <2>4, <2>5
<1>7. ~p1.cyc => b1 = << >>
  BY <1>1, PfQueue
<1>8. PfAlone(p1, b1)
  BY <1>4, <1>5, <1>6, <1>7 DEF PfAlone
<1> QED
  BY <1>1, <1>8

\* The slot after that of word i is that of the next word.
LEMMA PfNext ==
  ASSUME NEW a \in Places, NEW i \in 0 .. Words - 2
  PROVE  (Fetch!Slot(Fetch!LineStart(a) + i) + 1) % (Words * Lines)
           = Fetch!Slot(Fetch!LineStart(a) + (i + 1))
<1>1. i \in 0 .. Words - 1 /\ i + 1 \in 0 .. Words - 1 /\ i <= Words - 2
  BY PfAssumption
<1>2. PICK e \in Places, g \in Places :
        /\ e = Fetch!LineStart(a) + i /\ g = Fetch!LineStart(a) + (i + 1)
        /\ e % Words = i /\ g % Words = i + 1
        /\ Fetch!Line(e) = Fetch!Line(a) /\ Fetch!Line(g) = Fetch!Line(a)
  BY <1>1, PfInLine
<1>3. (Fetch!Slot(e) + 1) % (Words * Lines) = Fetch!Slot(e) + 1
  BY <1>1, <1>2, PfSlots
<1>4. PICK q \in Nat : q = Words * Fetch!Index(e)
  BY PfParts, PfAssumption
<1>5. Words * Fetch!Index(g) = q
  BY <1>2, <1>4, PfSame
<1>6. Fetch!Slot(e) = q + i /\ Fetch!Slot(g) = q + (i + 1)
  BY <1>2, <1>4, <1>5 DEF Fetch!Slot
<1> QED
  BY <1>1, <1>2, <1>3, <1>6

\* A load that begins.
LEMMA PfLoadStarts ==
  ASSUME NEW c, NEW x, PfInv(pf, bus, cpu, code), PfTick(c, x), ~pf.cyc, pf'.cyc
  PROVE  PfLoading(pf', bus', code', 0)
<1>1. PICK p1, b1, k1 : p1 = pf' /\ b1 = bus' /\ k1 = code'
  OBVIOUS
<1>2. pf.lastpc \in Places /\ p1.addr \in Places
  BY <1>1, PfKinds DEF PfInv, PfTypes
<1>3. 0 \in 0 .. Words - 1 /\ 0 # Words - 1 /\ 0 <= Words - 2 /\ PfPend \in Nat
  BY PfAssumption
<1>4. p1.addr = Fetch!LineStart(pf.lastpc)
  BY <1>1, PfAddress
<1>5. p1.addr = p1.addr + 0 /\ p1.addr \in Nat
  BY <1>2, PfParts
<1>6. Fetch!Line(p1.addr) = Fetch!Line(pf.lastpc) /\ p1.addr % Words = 0
  BY <1>2, <1>3, <1>4, <1>5, PfInLine
<1>7. Fetch!LineStart(p1.addr) + 0 = p1.addr
  BY <1>2, <1>4, <1>5, <1>6, PfSame
<1>8. p1.wraddr = Fetch!Slot(p1.addr)
  BY <1>1, <1>4, PfWires DEF PfTick, Fetch!wraddr
<1>9. ~p1.last_ack /\ ~p1.last_addr /\ p1.stb
  BY <1>1, PfFlags DEF PfTick, Fetch!last_ack, Fetch!last_addr
<1>10. b1 = << >>
  BY <1>1, PfQueue
<1>11. Len(b1) = 0 /\ 0 + Len(b1) = 0 /\ 1 .. Len(b1) = {} /\ 0 .. 0 - 1 = {} /\ ~(0 >= 1)
  BY <1>10
<1>12. PfLoading(p1, b1, k1, 0)
  BY <1>3, <1>6, <1>7, <1>8, <1>9, <1>11 DEF PfLoading
<1> QED
  BY <1>1, <1>12

\* In a load of which n words have come a are answered and s asked for.
PfMoves(x, n, a, s) ==
  /\ PfLoading(pf, bus, code, n) /\ pf.wraddr % Words = n
  /\ a = 1 <=> x.ack
  /\ s = 1 <=> pf.stb /\ ~x.stall
  /\ a <= Len(bus) /\ Len(bus') = Len(bus) - a + s

\* The counts of a load that goes on.
LEMMA PfCounts ==
  ASSUME NEW c, NEW x, PfInv(pf, bus, cpu, code), PfTick(c, x), pf.cyc, pf'.cyc,
         NEW n \in 0 .. Words - 1, NEW a \in 0 .. 1, NEW s \in 0 .. 1, PfMoves(x, n, a, s)
  PROVE  /\ n + a \in 0 .. Words - 1
         /\ pf'.wraddr = Fetch!Slot(Fetch!LineStart(pf.addr) + (n + a))
         /\ pf'.last_ack <=> n + a = Words - 1
         /\ ~pf'.last_addr => /\ pf'.stb /\ pf'.addr % Words <= Words - 2
                              /\ (n + a) + Len(bus') = pf'.addr % Words
         /\ pf'.last_addr => /\ pf'.addr % Words = Words - 1 /\ n + a >= 1
                             /\ (n + a) + Len(bus') = IF pf'.stb THEN Words - 1 ELSE Words
         /\ Len(bus') <= PfPend
         /\ s = 1 => pf.addr = Fetch!LineStart(pf.addr) + (n + Len(bus))
<1>1. /\ pf.addr \in Places /\ pf'.addr \in Places /\ bus \in Seq(PfWords) /\ bus' \in Seq(PfWords)
  BY PfKinds DEF PfInv, PfTypes
<1>2. PICK w \in Nat, o \in Nat, t \in Nat, t1 \in Nat, o1 \in Nat :
        w = Words /\ o = pf.addr % Words /\ t = Len(bus) /\ t1 = Len(bus') /\ o1 = pf'.addr % Words
  <2>1. Words \in Nat /\ Len(bus) \in Nat /\ Len(bus') \in Nat
    BY <1>1, PfAssumption
  <2>2. pf.addr % Words \in 0 .. Words - 1 /\ pf'.addr % Words \in 0 .. Words - 1
    BY <1>1, PfParts
  <2>3. pf.addr % Words \in Nat /\ pf'.addr % Words \in Nat
    BY <2>1, <2>2
  <2> QED
    BY <2>1, <2>3
<1>3. w >= 3 /\ PfPend \in 1 .. w - 2 /\ o <= w - 1
  <2>1. w >= 3 /\ PfPend \in 1 .. w - 2
    BY <1>2, PfAssumption
  <2>2. o \in 0 .. w - 1
    BY <1>1, <1>2, PfParts
  <2> QED
    BY <2>1, <2>2
<1>4. ~(x.ack /\ pf.last_ack) /\ ~x.err
  BY PfFlags DEF PfTick, Fetch!Ends
<1>5. /\ pf.last_ack <=> n = w - 1
      /\ ~pf.last_addr => pf.stb /\ o <= w - 2 /\ n + t = o
      /\ pf.last_addr => o = w - 1 /\ n >= 1 /\ n + t = IF pf.stb THEN w - 1 ELSE w
      /\ t <= PfPend
  BY <1>2 DEF PfLoading, PfMoves
<1>6. a = 1 => n <= w - 2
  BY <1>2, <1>4, <1>5 DEF PfMoves
<1>7. n + a \in 0 .. w - 1 /\ n \in 0 .. w - 1
  BY <1>2, <1>6
<1>8. pf'.wraddr = Fetch!Slot(Fetch!LineStart(pf.addr) + (n + a))
  <2>1. pf.wraddr = Fetch!Slot(Fetch!LineStart(pf.addr) + n)
    BY DEF PfLoading, PfMoves
  <2>2. CASE a = 1
    <3>1. pf'.wraddr = (pf.wraddr + 1) % (Words * Lines)
      BY <2>2, PfWires DEF PfMoves, PfTick, Fetch!wraddr
    <3>2. n \in 0 .. Words - 2
      BY <1>2, <1>6, <1>7, <2>2
    <3> QED
      BY <1>1, <2>1, <2>2, <3>1, <3>2, PfNext
  <2>3. CASE a = 0
    <3>1. pf'.wraddr = pf.wraddr /\ n + a = n
      BY <2>3, PfWires DEF PfMoves, PfTick, Fetch!wraddr
    <3> QED
      BY <2>1, <3>1
  <2> QED
    BY <2>2, <2>3
<1>9. pf'.last_ack <=> n + a = w - 1
  <2>1. pf'.last_ack <=> n >= w - 2 /\ (n = w - 1 \/ x.ack)
    BY <1>2, PfFlags DEF PfTick, PfMoves, Fetch!last_ack, Fetch!LastPair, Fetch!Last
  <2>2. x.ack <=> a = 1
    BY DEF PfMoves
  <2> QED
    BY <1>3, <1>6, <1>7, <2>1, <2>2
<1>10. /\ pf'.last_addr <=> pf.last_addr \/ (o >= w - 2 /\ (~x.stall \/ o = w - 1))
       /\ pf'.stb <=> pf.stb /\ ~(~x.stall /\ pf.last_addr)
  <2>1. pf'.stb <=> pf.stb /\ ~(~x.stall /\ pf.last_addr)
    BY <1>4, PfFlags DEF PfTick
  <2>2. pf'.last_addr <=> pf.last_addr \/ (o >= w - 2 /\ (~x.stall \/ o = w - 1))
    BY <1>2, PfFlags DEF PfTick, Fetch!last_addr, Fetch!LastPair, Fetch!Last
  <2> QED
    BY <2>1, <2>2
<1>11. o1 = IF pf.stb /\ ~x.stall /\ ~pf.last_addr THEN o + 1 ELSE o
  BY <1>2, PfAddress
<1>12. pf.stb /\ t = PfPend => x.stall \/ x.ack
  BY <1>2 DEF PfTick, Fetch!Answers
<1>13. t1 = t - a + s /\ a <= t /\ (s = 1 <=> pf.stb /\ ~x.stall) /\ (a = 1 <=> x.ack)
  BY <1>2 DEF PfMoves
<1>14. t1 <= PfPend
  <2>1. s = 1 /\ t = PfPend => a = 1
    BY <1>12, <1>13
  <2> QED
    BY <1>3, <1>5, <1>13, <2>1
<1>15. ~pf'.last_addr => pf'.stb /\ o1 <= w - 2 /\ (n + a) + t1 = o1
  <2>1. SUFFICES ASSUME ~pf'.last_addr PROVE pf'.stb /\ o1 <= w - 2 /\ (n + a) + t1 = o1
    OBVIOUS
  <2>2. ~pf.last_addr /\ pf.stb /\ o <= w - 2 /\ n + t = o /\ (~x.stall => o < w - 2)
    BY <1>5, <1>10, <2>1
  <2>3. pf'.stb /\ o1 = o + s
    BY <1>10, <1>11, <1>13, <2>2
  <2> QED
    BY <1>7, <1>13, <2>2, <2>3
<1>16. pf'.last_addr => /\ o1 = w - 1 /\ n + a >= 1
                        /\ (n + a) + t1 = IF pf'.stb THEN w - 1 ELSE w
  <2>1. SUFFICES ASSUME pf'.last_addr
                 PROVE  /\ o1 = w - 1 /\ n + a >= 1
                        /\ (n + a) + t1 = IF pf'.stb THEN w - 1 ELSE w
    OBVIOUS
  <2>2. CASE pf.last_addr
    <3>1. o1 = o /\ o = w - 1 /\ n >= 1 /\ n + t = IF pf.stb THEN w - 1 ELSE w
      BY <1>5, <1>11, <2>2
    <3>2. pf'.stb <=> pf.stb /\ s = 0
      BY <1>10, <1>13, <2>2
    <3>3. s = 1 => pf.stb
      BY <1>13
    <3> QED
      BY <1>7, <1>13, <3>1, <3>2, <3>3
  <2>3. CASE ~pf.last_addr
    <3>1. pf.stb /\ o <= w - 2 /\ n + t = o /\ o >= w - 2 /\ ~x.stall
      BY <1>3, <1>5, <1>10, <2>1, <2>3
    <3>2. s = 1 /\ o1 = o + 1 /\ pf'.stb
      BY <1>10, <1>11, <1>13, <2>3, <3>1
    <3>3. t = PfPend => a = 1
      BY <1>12, <1>13, <3>1
    <3> QED
      BY <1>3, <1>5, <1>7, <1>13, <3>1, <3>2, <3>3
  <2> QED
    BY <2>2, <2>3
<1>17. s = 1 => pf.addr = Fetch!LineStart(pf.addr) + (n + t)
  <2>1. SUFFICES ASSUME s = 1 PROVE pf.addr = Fetch!LineStart(pf.addr) + (n + t)
    OBVIOUS
  <2>2. n + t = o
    BY <1>5, <1>13, <2>1
  <2> QED
    BY <1>1, <1>2, <2>2, PfParts
<1> QED
  BY <1>2, <1>7, <1>8, <1>9, <1>14, <1>15, <1>16, <1>17

\* A load that goes on.
LEMMA PfLoadGoesOn ==
  ASSUME NEW c, NEW x, PfInv(pf, bus, cpu, code), PfTick(c, x), pf.cyc, pf'.cyc
  PROVE  \E n \in 0 .. Words - 1 : PfLoading(pf', bus', code', n)
<1>1. PICK n \in 0 .. Words - 1 :
        /\ PfLoading(pf, bus, code, n)
        /\ pf.wraddr % Words = n /\ Fetch!Index(pf.wraddr) = Fetch!Index(pf.addr)
  BY PfAtWork
<1>2. PICK a \in 0 .. 1, s \in 0 .. 1 :
        /\ (a = 1 <=> x.ack) /\ (s = 1 <=> pf.stb /\ ~x.stall)
        /\ a <= Len(bus) /\ Len(bus') = Len(bus) - a + s
        /\ \A i \in 1 .. Len(bus) - a : bus'[i] = bus[i + a]
        /\ s = 1 => bus'[Len(bus')] = [addr |-> pf.addr, ver |-> code.ver]
  BY PfQueue
<1>3. PICK p1, b1, k1 : p1 = pf' /\ b1 = bus' /\ k1 = code'
  OBVIOUS
<1>4. PICK m \in Nat : m = n + a
  BY <1>1, <1>2, PfAssumption
<1>5. /\ m \in 0 .. Words - 1
      /\ p1.wraddr = Fetch!Slot(Fetch!LineStart(pf.addr) + m)
      /\ p1.last_ack <=> m = Words - 1
      /\ ~p1.last_addr => /\ p1.stb /\ p1.addr % Words <= Words - 2
                          /\ m + Len(b1) = p1.addr % Words
      /\ p1.last_addr => /\ p1.addr % Words = Words - 1 /\ m >= 1
                         /\ m + Len(b1) = IF p1.stb THEN Words - 1 ELSE Words
      /\ Len(b1) <= PfPend
      /\ s = 1 => pf.addr = Fetch!LineStart(pf.addr) + (n + Len(bus))
  <2>1. PfMoves(x, n, a, s)
    BY <1>1, <1>2 DEF PfMoves
  <2>2. /\ n + a \in 0 .. Words - 1
        /\ pf'.wraddr = Fetch!Slot(Fetch!LineStart(pf.addr) + (n + a))
        /\ pf'.last_ack <=> n + a = Words - 1
        /\ ~pf'.last_addr => /\ pf'.stb /\ pf'.addr % Words <= Words - 2
                             /\ (n + a) + Len(bus') = pf'.addr % Words
        /\ pf'.last_addr => /\ pf'.addr % Words = Words - 1 /\ n + a >= 1
                            /\ (n + a) + Len(bus') = IF pf'.stb THEN Words - 1 ELSE Words
        /\ Len(bus') <= PfPend
        /\ s = 1 => pf.addr = Fetch!LineStart(pf.addr) + (n + Len(bus))
    BY <2>1, PfCounts
  <2> QED
    BY <1>3, <1>4, <2>2, Zenon
<1>6. pf.addr \in Places /\ p1.addr \in Places /\ Fetch!Line(p1.addr) = Fetch!Line(pf.addr)
  BY <1>3, PfAddress, PfKinds DEF PfInv, PfTypes
<1>7. PICK l \in Nat : l = Fetch!LineStart(pf.addr) /\ l = Fetch!LineStart(p1.addr)
  <2>1. Fetch!LineStart(pf.addr) \in Nat
    BY <1>6, PfParts
  <2>2. Fetch!LineStart(pf.addr) = Fetch!LineStart(p1.addr)
    BY <1>6, PfSame
  <2> QED
    BY <2>1, <2>2
<1>8. bus \in Seq(PfWords) /\ b1 \in Seq(PfWords) /\ Len(bus) \in Nat /\ Len(b1) \in Nat
  BY <1>3, PfKinds DEF PfInv, PfTypes
<1>9. PICK t \in Nat, t1 \in Nat : t = Len(bus) /\ t1 = Len(b1)
  BY <1>8
<1>10. /\ t1 = t - a + s /\ a <= t
       /\ \A i \in 1 .. t - a : b1[i] = bus[i + a]
       /\ s = 1 => b1[t1] = [addr |-> pf.addr, ver |-> code.ver]
       /\ \A i \in 1 .. t : bus[i].addr = l + (n + i - 1)
       /\ s = 1 => pf.addr = l + (n + t)
  BY <1>1, <1>2, <1>3, <1>5, <1>7, <1>9 DEF PfLoading
<1>11. ASSUME NEW i \in 1 .. t1 PROVE b1[i].addr = l + (m + i - 1)
  <2>1. CASE i \in 1 .. t - a
    <3>1. i + a \in 1 .. t
      BY <1>2, <1>9, <2>1
    <3>2. b1[i].addr = l + (n + (i + a) - 1)
      BY <1>10, <2>1, <3>1
    <3> QED
      BY <1>1, <1>2, <1>4, <1>7, <3>2
  <2>2. CASE i \notin 1 .. t - a
    <3>1. s = 1 /\ i = t1 /\ t1 = t - a + 1
      BY <1>2, <1>9, <1>10, <1>11, <2>2
    <3>2. b1[i].addr = l + (n + t)
      BY <1>10, <3>1
    <3> QED
      BY <1>1, <1>2, <1>4, <1>7, <1>9, <3>1, <3>2
  <2> QED
    BY <2>1, <2>2
<1>12. ASSUME m >= 1
       PROVE  PfHeld(p1, p1.addr) /\ Fetch!Line(p1.addr) \notin BadLines
  <2>1. /\ Fetch!Index(p1.addr) = Fetch!Index(pf.addr) /\ Fetch!Tag(p1.addr) = Fetch!Tag(pf.addr)
        /\ Fetch!Index(pf.addr) \in 0 .. Lines - 1
    BY <1>6, PfSame, PfParts
  <2>2. p1.cache_tags = Fetch!cache_tags(x) /\ DOMAIN pf.cache_tags = 0 .. Lines - 1
    BY <1>3, PfWires DEF PfTick, PfInv, PfTypes
  <2>3. CASE n >= 1
    <3>1. PfHeld(pf, pf.addr) /\ Fetch!Line(pf.addr) \notin BadLines
      BY <1>1, <2>3 DEF PfLoading
    <3> QED
      BY <1>6, <2>1, <2>2, <3>1 DEF PfHeld, Fetch!cache_tags
  <2>4. CASE ~(n >= 1)
    <3>1. n = 0 /\ a = 1 /\ n \in Nat
      BY <1>1, <1>2, <1>4, <1>12, <2>4, PfAssumption
    <3>2. ~pf.last_addr
      BY <1>1, <2>4 DEF PfLoading
    <3>3. PfHeld(p1, p1.addr)
      BY <1>2, <2>1, <2>2, <3>1, <3>2 DEF PfHeld, Fetch!cache_tags
    <3>4. Head(bus) = bus[1] /\ Fetch!Line(Head(bus).addr) \notin BadLines
      BY <1>2, <1>8, <3>1 DEF PfTick, Fetch!Answers
    <3>5. 1 \in 1 .. t
      BY <1>10, <3>1, <1>9
    <3>6. bus[1].addr = l + (n + 1 - 1)
      BY <1>10, <3>5
    <3>7. bus[1].addr = l + 0
      BY <1>7, <3>1, <3>6
    <3>8. Fetch!Line(l + 0) = Fetch!Line(pf.addr)
      BY <1>5, <1>6, <1>7, PfInLine, PfAssumption
    <3> QED
      BY <1>6, <3>3, <3>4, <3>7, <3>8
  <2> QED
    BY <2>3, <2>4
<1>13. ASSUME ~p1.bus_abort
       PROVE  /\ k1.cleared = code.cleared /\ ~pf.bus_abort
              /\ code.ver \in Nat /\ code.cleared \in Nat /\ code.cleared <= code.ver
              /\ \A i \in 1 .. t : bus[i].ver >= code.cleared
              /\ \A i \in 0 .. n - 1 : PfRight(pf, code, l + i)
  <2>1. ~pf.bus_abort /\ c.op # "clear" /\ c.op # "reset"
    BY <1>3, <1>13, PfFlags DEF PfTick
  <2>2. ~Fetch!Clears(c)
    BY <2>1 DEF Fetch!Clears
  <2>3. k1.cleared = code.cleared /\ code.ver \in Nat /\ code.cleared \in Nat
        /\ code.cleared <= code.ver
    BY <1>3, <2>2, PfMemory
  <2> QED
    BY <1>1, <1>7, <1>9, <2>1, <2>3 DEF PfLoading
<1>14. ASSUME ~p1.bus_abort, NEW i \in 1 .. t1 PROVE b1[i].ver >= k1.cleared
  <2>1. CASE i \in 1 .. t - a
    <3>1. i + a \in 1 .. t
      BY <1>2, <1>9, <2>1
    <3> QED
      BY <1>10, <1>13, <1>14, <2>1, <3>1
  <2>2. CASE i \notin 1 .. t - a
    <3>1. s = 1 /\ i = t1
      BY <1>2, <1>9, <1>10, <1>14, <2>2
    <3> QED
      BY <1>10, <1>13, <1>14, <3>1
  <2> QED
    BY <2>1, <2>2
<1>15. ASSUME ~p1.bus_abort, NEW i \in 0 .. m - 1 PROVE PfRight(p1, k1, l + i)
  <2>1. i \in 0 .. Words - 1 /\ i \in Nat
    BY <1>4, <1>5, PfAssumption
  <2>2. PICK e \in Places : e = l + i /\ e % Words = i
    BY <1>6, <1>7, <2>1, PfInLine
  <2>3. PICK g \in Places : g = l + n /\ g % Words = n
    BY <1>1, <1>6, <1>7, PfInLine
  <2>4. pf.wraddr = Fetch!Slot(g) /\ Fetch!Slot(e) \in 0 .. Words * Lines - 1
    BY <1>1, <1>7, <2>2, <2>3, PfSlots DEF PfLoading
  <2>5. p1.cache = [pf.cache EXCEPT ![pf.wraddr] = IF x.ack THEN Head(bus) ELSE Fetch!Junk]
        /\ DOMAIN pf.cache = 0 .. Words * Lines - 1
    BY <1>3, PfWires DEF PfTick, Fetch!cache, PfInv, PfTypes
  <2>6. CASE i \in 0 .. n - 1
    <3>1. i # n
      BY <1>1, <2>1, <2>6, PfAssumption
    <3>2. Fetch!Slot(e) # pf.wraddr
      BY <2>2, <2>3, <2>4, <3>1, PfSame
    <3>3. p1.cache[Fetch!Slot(e)] = pf.cache[Fetch!Slot(e)]
      BY <2>4, <2>5, <3>2
    <3> QED
      BY <1>13, <1>15, <2>2, <2>6, <3>3 DEF PfRight
  <2>7. CASE i \notin 0 .. n - 1
    <3>1. i = n /\ a = 1
      BY <1>1, <1>2, <1>4, <2>1, <2>7, <1>15, PfAssumption
    <3>2. e = g /\ x.ack
      BY <1>2, <2>2, <2>3, <3>1
    <3>3. p1.cache[Fetch!Slot(e)] = Head(bus)
      BY <2>4, <2>5, <3>2
    <3>4. Head(bus) = bus[1] /\ 1 \in 1 .. t
      BY <1>8, <1>9, <1>10, <3>1, <3>2 DEF PfTick, Fetch!Answers
    <3>5. bus[1].addr = l + (n + 1 - 1) /\ bus[1].ver >= code.cleared
      BY <1>10, <1>13, <1>15, <3>4
    <3>6. bus[1].addr = e
      BY <1>1, <1>7, <2>3, <3>2, <3>5, PfAssumption
    <3> QED
      BY <1>13, <1>15, <2>2, <3>3, <3>4, <3>5, <3>6 DEF PfRight
  <2> QED
    BY <2>6, <2>7
<1>16. PfLoading(p1, b1, k1, m)
  BY <1>5, <1>7, <1>9, <1>11, <1>12, <1>14, <1>15 DEF PfLoading
<1> QED
  BY <1>3, <1>5, <1>16

\* Each clock keeps every part of the invariant.
LEMMA PfLoadsStep ==
  ASSUME NEW c, NEW x, PfInv(pf, bus, cpu, code), PfTick(c, x)
  PROVE  PfLoads(pf', bus', code')
<1>1. 0 \in 0 .. Words - 1
  BY PfAssumption
<1> QED
  BY <1>1, PfLoadStarts, PfLoadGoesOn DEF PfLoads

LEMMA PfKeepsStep ==
  ASSUME NEW c, NEW x, PfInv(pf, bus, cpu, code), PfTick(c, x)
  PROVE  PfKeeps(pf', code')
<1>1. PICK p1, k1 : p1 = pf' /\ k1 = code'
  OBVIOUS
<1>2. SUFFICES ASSUME NEW a \in Places, p1.valid_mask[Fetch!Index(a)], PfHeld(p1, a)
               PROVE  PfGood(p1, k1, a)
  BY <1>1 DEF PfKeeps
<1>3. /\ p1.cache_tags[Fetch!Index(a)] = pf.cache_tags[Fetch!Index(a)]
      /\ p1.cache[Fetch!Slot(a)] = pf.cache[Fetch!Slot(a)]
  BY <1>1, <1>2, PfValidStays
<1>4. PfHeld(pf, a)
  BY <1>2, <1>3 DEF PfHeld
<1>5. /\ ~Fetch!Clears(c)
      /\ IF pf.svmask /\ Fetch!Index(a) = pf.saddr THEN ~pf.bus_abort
         ELSE pf.valid_mask[Fetch!Index(a)]
  BY <1>1, <1>2, PfParts, PfValid
<1>6. PfGood(pf, code, a)
  <2>1. PfKeeps(pf, code) /\ PfSaves(pf, code)
    BY DEF PfInv
  <2> QED
    BY <1>4, <1>5, <2>1 DEF PfKeeps, PfSaves
<1>7. k1.cleared = code.cleared
  BY <1>1, <1>5, PfMemory
<1> QED
  BY <1>3, <1>6, <1>7 DEF PfGood, PfRight

LEMMA PfSavesStep ==
  ASSUME NEW c, NEW x, PfInv(pf, bus, cpu, code), PfTick(c, x)
  PROVE  PfSaves(pf', code')
<1>1. PICK p1, k1 : p1 = pf' /\ k1 = code'
  OBVIOUS
<1>2. SUFFICES ASSUME p1.svmask, ~p1.bus_abort,
                      NEW a \in Places, Fetch!Index(a) = p1.saddr, PfHeld(p1, a)
               PROVE  PfGood(p1, k1, a)
  BY <1>1 DEF PfSaves
<1>3. pf.cyc /\ x.ack /\ pf.last_ack /\ ~Fetch!Clears(c) /\ ~pf.bus_abort
  BY <1>1, <1>2, PfFlags DEF PfTick
<1>4. PICK n \in 0 .. Words - 1 :
        /\ PfLoading(pf, bus, code, n)
        /\ pf.wraddr % Words = n /\ Fetch!Index(pf.wraddr) = Fetch!Index(pf.addr)
  BY <1>3, PfAtWork
<1>5. PICK w \in Nat : w = Words /\ n = w - 1 /\ w >= 3
  BY <1>3, <1>4, PfAssumption DEF PfLoading
<1>6. k1.cleared = code.cleared
  BY <1>1, <1>3, PfMemory
<1>7. /\ pf.addr \in Places /\ bus \in Seq(PfWords)
      /\ DOMAIN pf.cache = 0 .. Words * Lines - 1 /\ DOMAIN pf.cache_tags = 0 .. Lines - 1
  BY DEF PfInv, PfTypes
<1>8. Fetch!Index(a) = Fetch!Index(pf.addr)
  BY <1>1, <1>2, <1>3, <1>4, PfWires DEF PfTick
<1>9. n >= 1
  BY <1>5
<1>10. PfHeld(pf, pf.addr) /\ Fetch!Line(pf.addr) \notin BadLines
  BY <1>4, <1>9 DEF PfLoading
<1>11. PfHeld(p1, pf.addr)
  <2>1. p1.cache_tags = Fetch!cache_tags(x) /\ Fetch!Index(pf.addr) \in 0 .. Lines - 1
    BY <1>1, <1>7, PfWires, PfParts DEF PfTick
  <2> QED
    BY <1>7, <1>10, <2>1 DEF PfHeld, Fetch!cache_tags
<1>12. Fetch!Line(a) = Fetch!Line(pf.addr) /\ Fetch!LineStart(a) = Fetch!LineStart(pf.addr)
  <2>1. Fetch!Tag(a) = Fetch!Tag(pf.addr)
    BY <1>2, <1>8, <1>11 DEF PfHeld
  <2> QED
    BY <1>7, <1>8, <2>1, PfSame
<1>13. PICK i \in 0 .. w - 1, l \in Nat : /\ i = a % Words /\ l = Fetch!LineStart(pf.addr)
                                         /\ a = l + i
  <2>1. a % Words \in 0 .. w - 1 /\ Fetch!LineStart(a) \in Nat
        /\ a = Fetch!LineStart(a) + (a % Words)
    BY <1>5, PfParts
  <2> QED
    BY <1>12, <2>1
<1>14. PICK g \in Places : g = l + n /\ g % Words = n
  BY <1>4, <1>7, <1>13, PfInLine
<1>15. pf.wraddr = Fetch!Slot(g) /\ Fetch!Slot(a) \in 0 .. Words * Lines - 1
  BY <1>4, <1>13, <1>14, PfSlots DEF PfLoading
<1>16. p1.cache = [pf.cache EXCEPT ![pf.wraddr] = Head(bus)]
  BY <1>1, <1>3, PfWires DEF PfTick, Fetch!cache
<1>17. PfRight(p1, k1, a)
  <2>1. CASE i = n
    <3>1. a = g
      BY <1>13, <1>14, <2>1
    <3>2. p1.cache[Fetch!Slot(a)] = Head(bus)
      BY <1>7, <1>15, <1>16, <3>1
    <3>3. bus # << >>
      BY <1>3 DEF PfTick, Fetch!Answers
    <3>4. Head(bus) = bus[1] /\ 1 \in 1 .. Len(bus)
      BY <1>7, <3>3
    <3>5. bus[1].addr = l + (n + 1 - 1) /\ bus[1].ver >= code.cleared
      BY <1>3, <1>4, <1>13, <3>4 DEF PfLoading
    <3>6. n + 1 - 1 = n
      BY <1>5
    <3>7. bus[1].addr = a
      BY <1>14, <3>1, <3>5, <3>6
    <3>8. p1.cache[Fetch!Slot(a)] = bus[1]
      BY <3>2, <3>4
    <3>9. p1.cache[Fetch!Slot(a)].addr = a
      BY <3>7, <3>8, Zenon
    <3>10. p1.cache[Fetch!Slot(a)].ver >= k1.cleared
      BY <1>6, <3>5, <3>8, Zenon
    <3> QED
      BY <3>9, <3>10, Zenon DEF PfRight
  <2>2. CASE i # n
    <3>1. i \in 0 .. n - 1
      <4>1. i \in 0 .. w - 1 /\ n = w - 1 /\ i # n
        BY <1>5, <1>13, <2>2, Zenon
      <4> QED
        BY <4>1
    <3>2. PfRight(pf, code, a)
      BY <1>3, <1>4, <1>13, <3>1 DEF PfLoading
    <3>3. Fetch!Slot(a) # pf.wraddr
      BY <1>13, <1>14, <1>15, <2>2, PfSame
    <3>4. p1.cache[Fetch!Slot(a)] = pf.cache[Fetch!Slot(a)]
      BY <1>7, <1>15, <1>16, <3>3
    <3> QED
      BY <1>6, <3>2, <3>4 DEF PfRight
  <2> QED
    BY <2>1, <2>2
<1> QED
  BY <1>10, <1>12, <1>17 DEF PfGood

LEMMA PfFreshStep ==
  ASSUME NEW c, NEW x, PfInv(pf, bus, cpu, code), PfTick(c, x)
  PROVE  PfFresh(pf')
<1>1. PICK p1 : p1 = pf'
  OBVIOUS
<1>2. p1.lastpc \in Places
  BY <1>1, PfKinds DEF PfTypes
<1>3. PfTag(p1) = pf.cache_tags[Fetch!Index(p1.lastpc)]
  BY <1>1, PfWires, PfFlags DEF PfTick, PfTag
<1> QED
  BY <1>1, <1>2, <1>3, PfValidStays DEF PfFresh

LEMMA PfRefusesStep ==
  ASSUME NEW c, NEW x, PfInv(pf, bus, cpu, code), PfTick(c, x)
  PROVE  PfRefuses(pf')
<1>1. PICK p1 : p1 = pf'
  OBVIOUS
<1>2. PfRefuses(pf) /\ PfHands(pf, code) /\ PfTypes(pf, bus, cpu, code)
  BY DEF PfInv
<1>3. ASSUME p1.illegal_valid PROVE p1.illegal_cache \in BadLines
  <2>1. ~Fetch!Clears(c) /\ (pf.illegal_valid \/ (pf.cyc /\ x.err))
    BY <1>1, <1>3, PfFlags DEF PfTick
  <2>2. p1.illegal_cache = IF pf.cyc /\ x.err THEN Fetch!Line(pf.addr) ELSE pf.illegal_cache
    BY <1>1, <2>1, PfWires DEF PfTick
  <2>3. CASE pf.cyc /\ x.err
    <3>1. bus # << >> /\ Fetch!Line(Head(bus).addr) \in BadLines
      BY <2>3 DEF PfTick, Fetch!Answers
    <3>2. PICK n \in 0 .. Words - 1 : PfLoading(pf, bus, code, n)
      BY <2>3, PfAtWork
    <3>3. Head(bus) = bus[1] /\ 1 \in 1 .. Len(bus)
      BY <1>2, <3>1 DEF PfTypes
    <3>4. bus[1].addr = Fetch!LineStart(pf.addr) + (n + 1 - 1)
      BY <3>2, <3>3 DEF PfLoading
    <3>5. n + 1 - 1 = n
      BY <3>2, PfAssumption
    <3>6. Fetch!Line(Fetch!LineStart(pf.addr) + n) = Fetch!Line(pf.addr)
      BY <1>2, <3>2, PfInLine DEF PfTypes
    <3> QED
      BY <2>2, <2>3, <3>1, <3>3, <3>4, <3>5, <3>6
  <2>4. CASE ~(pf.cyc /\ x.err)
    BY <1>2, <2>1, <2>2, <2>4 DEF PfRefuses
  <2> QED
    BY <2>3, <2>4
<1>4. ASSUME p1.o_illegal PROVE Fetch!Line(p1.lastpc) \in BadLines
  <2>1. c.op # "jump" /\ pf.illegal_valid /\ pf.illegal_cache = Fetch!Line(pf.lastpc)
    BY <1>1, <1>4, PfFlags DEF PfTick
  <2>2. Fetch!Line(pf.lastpc) \in BadLines
    BY <1>2, <2>1 DEF PfRefuses
  <2>3. ~PfSees(pf)
    BY <1>2, <2>2 DEF PfHands
  <2>4. ~Fetch!Moves(c)
    BY <1>2, <2>1, <2>3, PfCommands
  <2> QED
    BY <1>1, <2>2, <2>4, PfWires DEF PfTick
<1> QED
  BY <1>1, <1>3, <1>4 DEF PfRefuses

LEMMA PfPlacedStep ==
  ASSUME NEW c, NEW x, PfInv(pf, bus, cpu, code), PfTick(c, x)
  PROVE  PfPlaced(pf', cpu')
<1>1. PICK p1, c1 : p1 = pf' /\ c1 = cpu'
  OBVIOUS
<1>2. PfTypes(pf, bus, cpu, code) /\ PfPlaced(pf, cpu)
  BY DEF PfInv
<1>3. PfPc(p1) = p1.lastpc
  BY <1>1, PfWires, PfFlags DEF PfTick, PfPc
<1>4. p1.lastpc = IF Fetch!Moves(c) THEN Fetch!i_pc(c) ELSE pf.lastpc
  BY <1>1, PfWires DEF PfTick
<1>5. (Fetch!Moves(c) <=> (Fetch!r_v /\ c.takes) \/ c.op = "jump")
  BY <1>2, PfCommands
<1>6. ASSUME c1.st = "run"
      PROVE  p1.lastpc = c1.want /\ c1.pf_pc = (c1.want + 1) % Fetch!Space
  <2>1. ~Fetch!Clears(c)
    <3>1. ASSUME Fetch!Clears(c) PROVE FALSE
      <4>1. c1 = [cpu EXCEPT !.st = "clear"]
        BY <1>1, <3>1 DEF PfTick, Fetch!Processor
      <4> QED
        BY <1>2, <1>6, <4>1 DEF PfTypes
    <3> QED
      BY <3>1
  <2>2. CASE c.op = "jump"
    <3>1. c1 = [st |-> "run", pf_pc |-> (c.to + 1) % Fetch!Space, want |-> c.to]
      BY <1>1, <2>1, <2>2 DEF PfTick, Fetch!Processor
    <3>2. c1.pf_pc = (c.to + 1) % Fetch!Space /\ c1.want = c.to
      BY <3>1
    <3> QED
      BY <1>4, <1>5, <2>2, <3>2 DEF Fetch!i_pc
  <2>3. CASE c.op # "jump" /\ Fetch!valid /\ c.takes
    <3>1. c1 = [st |-> IF pf.o_illegal THEN "stopped" ELSE cpu.st,
                pf_pc |-> (cpu.pf_pc + 1) % Fetch!Space, want |-> (cpu.want + 1) % Fetch!Space]
      BY <1>1, <2>1, <2>3 DEF PfTick, Fetch!Processor
    <3>2. /\ c1.st = IF pf.o_illegal THEN "stopped" ELSE cpu.st
          /\ c1.pf_pc = (cpu.pf_pc + 1) % Fetch!Space
          /\ c1.want = (cpu.want + 1) % Fetch!Space
      BY <3>1
    <3>3. ~pf.o_illegal /\ cpu.st = "run"
      BY <1>6, <3>2
    <3>4. Fetch!r_v
      BY <2>3, <3>3 DEF Fetch!valid
    <3>5. cpu.pf_pc = (cpu.want + 1) % Fetch!Space
      BY <1>2, <3>3 DEF PfPlaced
    <3> QED
      BY <1>4, <1>5, <2>3, <3>2, <3>4, <3>5, Zenon DEF Fetch!i_pc
  <2>4. CASE c.op # "jump" /\ ~(Fetch!valid /\ c.takes)
    <3>1. c1 = cpu
      BY <1>1, <2>1, <2>4 DEF PfTick, Fetch!Processor
    <3>2. ~Fetch!Moves(c)
      BY <1>5, <2>4 DEF Fetch!valid
    <3> QED
      BY <1>2, <1>4, <1>6, <3>1, <3>2 DEF PfPlaced
  <2> QED
    BY <2>2, <2>3, <2>4
<1> QED
  BY <1>1, <1>3, <1>6 DEF PfPlaced

LEMMA PfHandsStep ==
  ASSUME NEW c, NEW x, PfInv(pf, bus, cpu, code), PfTick(c, x)
  PROVE  PfHands(pf', code')
<1>1. PICK p1, k1 : p1 = pf' /\ k1 = code'
  OBVIOUS
<1>2. SUFFICES ASSUME PfSees(p1)
               PROVE  /\ PfInsn(p1).addr = p1.lastpc /\ PfInsn(p1).ver >= k1.cleared
                      /\ Fetch!Line(p1.lastpc) \notin BadLines /\ PfHeld(p1, p1.lastpc)
  BY <1>1 DEF PfHands
<1>3. /\ PfTypes(pf, bus, cpu, code) /\ PfFresh(pf) /\ PfKeeps(pf, code) /\ PfHands(pf, code)
      /\ PfTypes(p1, bus', cpu', k1)
  BY <1>1, PfKinds DEF PfInv
<1>4. /\ (p1.isrc <=> Fetch!Moves(c)) /\ (p1.rvsrc <=> Fetch!rvsrc(c))
      /\ p1.r_v_from_pc <=> Fetch!w_v_from_pc(c) /\ ~(Fetch!Clears(c) \/ c.op = "jump")
      /\ p1.r_v_from_last <=> Fetch!w_v_from_last /\ ~(Fetch!Clears(c) \/ c.op = "jump")
  BY <1>1, PfFlags DEF PfTick
<1>5. ~Fetch!Clears(c) /\ c.op # "jump"
  BY <1>2, <1>4 DEF PfSees
<1>6. k1.cleared = code.cleared
  BY <1>1, <1>5, PfMemory
<1>7. (Fetch!Moves(c) <=> Fetch!r_v /\ c.takes) /\ (Fetch!r_v <=> PfSees(pf))
  BY <1>3, <1>5, PfCommands
<1>8. /\ p1.lastpc = IF Fetch!Moves(c) THEN Fetch!i_pc(c) ELSE pf.lastpc
      /\ p1.lastpc \in Places /\ pf.lastpc \in Places
  BY <1>1, <1>3, PfWires DEF PfTick, PfTypes
<1>9. PfInsn(p1) = pf.cache[Fetch!Slot(p1.lastpc)]
  BY <1>1, <1>4, <1>8, PfWires DEF PfTick, PfInsn
<1>10. pf.valid_mask[Fetch!Index(p1.lastpc)] /\ PfHeld(pf, p1.lastpc)
  <2>1. CASE p1.rvsrc
    <3>1. PfSees(pf)
      BY <1>4, <1>5, <1>7, <2>1 DEF Fetch!rvsrc
    <3>2. Fetch!w_v_from_pc(c)
      BY <1>2, <1>4, <2>1 DEF PfSees
    <3>3. Fetch!Line(Fetch!i_pc(c)) = Fetch!Line(pf.lastpc)
          /\ pf.valid_mask[Fetch!Index(Fetch!i_pc(c))]
      BY <3>2 DEF Fetch!w_v_from_pc
    <3>4. PfHeld(pf, pf.lastpc)
      BY <1>3, <3>1 DEF PfHands
    <3>5. Fetch!i_pc(c) \in Places
      BY <1>3, PfCommands
    <3>6. Fetch!Index(Fetch!i_pc(c)) = Fetch!Index(pf.lastpc)
          /\ Fetch!Tag(Fetch!i_pc(c)) = Fetch!Tag(pf.lastpc)
      BY <1>8, <3>3, <3>5, PfSame
    <3> QED
      BY <1>8, <3>3, <3>4, <3>6 DEF PfHeld
  <2>2. CASE ~p1.rvsrc
    <3>1. ~Fetch!Moves(c)
      BY <1>4, <2>2 DEF Fetch!rvsrc
    <3>2. PfTag(pf) = Fetch!Tag(pf.lastpc) /\ pf.valid_mask[Fetch!Index(pf.lastpc)]
      BY <1>2, <1>4, <2>2 DEF PfSees, PfTag, Fetch!w_v_from_last
    <3> QED
      BY <1>3, <1>8, <3>1, <3>2 DEF PfFresh, PfHeld
  <2> QED
    BY <2>1, <2>2
<1>11. PfGood(pf, code, p1.lastpc)
  BY <1>3, <1>8, <1>10 DEF PfKeeps
<1>12. PfHeld(p1, p1.lastpc)
  BY <1>1, <1>8, <1>10, PfValidStays DEF PfHeld
<1> QED
  BY <1>6, <1>9, <1>11, <1>12 DEF PfGood, PfRight

LEMMA PfStep ==
  ASSUME NEW c, NEW x, PfInv(pf, bus, cpu, code), PfTick(c, x)
  PROVE  PfInv(pf', bus', cpu', code')
<1>1. PICK p1, b1, c1, k1 : p1 = pf' /\ b1 = bus' /\ c1 = cpu' /\ k1 = code'
  OBVIOUS
<1>2. /\ PfTypes(p1, b1, c1, k1) /\ PfPlaced(p1, c1) /\ PfFresh(p1) /\ PfKeeps(p1, k1)
      /\ PfAlone(p1, b1) /\ PfLoads(p1, b1, k1) /\ PfSaves(p1, k1) /\ PfRefuses(p1)
      /\ PfHands(p1, k1)
  BY <1>1, PfKinds, PfPlacedStep, PfFreshStep, PfKeepsStep, PfStaysAlone, PfLoadsStep,
    PfSavesStep, PfRefusesStep, PfHandsStep
<1> QED
  BY <1>1, <1>2 DEF PfInv

\* The invariant: what is valid is right, and a load is where it should be.
FetchInv == part = "fetch" => PfInv(pf, bus, cpu, code)

(***************************************************************************)
(* The instruction handed to the decoder is the one at the address the     *)
(* processor has come to, no older than the last clearing of the cache,    *)
(* and marked illegal if and only if the bus refused its line              *)
(* (pfcache.v:222-330), for any number of lines, of words in a line and of *)
(* requests the bus takes before it answers, short of a whole line.        *)
(***************************************************************************)
THEOREM HandsTheInstruction == BoardSpec => []HandsInstruction
<1>1. BoardInit => FetchInv
  <2> SUFFICES ASSUME Fetch!Init PROVE PfInv(pf, bus, cpu, code)
    BY DEF BoardInit, FetchInv
  <2>1. /\ pf.lastpc = 0 /\ pf.r_pc = 0 /\ pf.r_lastpc = 0 /\ pf.addr = 0 /\ pf.wraddr = 0
        /\ pf.saddr = 0 /\ pf.tagvalipc = 0 /\ pf.tagvallst = 0
        /\ pf.cache = [s \in 0 .. Words * Lines - 1 |-> Fetch!Junk]
        /\ pf.cache_tags = [i \in 0 .. Lines - 1 |-> 0]
        /\ pf.valid_mask = [i \in 0 .. Lines - 1 |-> FALSE]
    BY DEF Fetch!Init
  <2>2. /\ pf.isrc = FALSE /\ pf.rvsrc = FALSE
        /\ pf.r_v_from_pc = FALSE /\ pf.r_v_from_last = FALSE
        /\ pf.needload = FALSE /\ pf.last_addr = FALSE /\ pf.last_ack = FALSE
        /\ pf.bus_abort = FALSE /\ pf.cyc = FALSE /\ pf.stb = FALSE /\ pf.svmask = FALSE
        /\ pf.illegal_valid = FALSE /\ pf.o_illegal = FALSE
    BY DEF Fetch!Init
  <2>3. /\ bus = << >> /\ cpu = [st |-> "clear", pf_pc |-> 0, want |-> 0]
        /\ code = [ver |-> 0, cleared |-> 0]
    BY DEF Fetch!Init
  <2>4. /\ 0 \in Places /\ 0 \in 0 .. Words * Lines - 1 /\ 0 \in 0 .. Lines - 1
        /\ Fetch!Junk \in PfWords
    BY PfAssumption DEF Places, Fetch!Space, Fetch!Junk, PfWords
  <2>5. /\ pf.cache \in [0 .. Words * Lines - 1 -> PfWords]
        /\ pf.cache_tags \in [0 .. Lines - 1 -> Nat]
        /\ pf.valid_mask \in [0 .. Lines - 1 -> BOOLEAN]
        /\ bus \in Seq(PfWords)
    <3> HIDE DEF PfWords
    <3> QED
      BY <2>1, <2>3, <2>4
  <2>6. /\ cpu \in [st : {"clear", "run", "stopped"}, pf_pc : Places, want : Places]
        /\ cpu.st = "clear" /\ code.ver = 0 /\ code.cleared = 0
    BY <2>3, <2>4
  <2>7. PfTypes(pf, bus, cpu, code)
    <3>1. /\ pf.isrc \in BOOLEAN /\ pf.rvsrc \in BOOLEAN
          /\ pf.r_v_from_pc \in BOOLEAN /\ pf.r_v_from_last \in BOOLEAN
          /\ pf.needload \in BOOLEAN /\ pf.last_addr \in BOOLEAN /\ pf.last_ack \in BOOLEAN
          /\ pf.bus_abort \in BOOLEAN /\ pf.cyc \in BOOLEAN /\ pf.stb \in BOOLEAN
          /\ pf.svmask \in BOOLEAN /\ pf.illegal_valid \in BOOLEAN /\ pf.o_illegal \in BOOLEAN
      BY <2>2
    <3>2. code.ver \in Nat /\ code.cleared \in Nat /\ code.cleared <= code.ver
      BY <2>6
    <3>3. /\ pf.lastpc \in Places /\ pf.r_pc \in Places /\ pf.r_lastpc \in Places
          /\ pf.addr \in Places /\ pf.wraddr \in 0 .. Words * Lines - 1
          /\ pf.saddr \in 0 .. Lines - 1
      BY <2>1, <2>4
    <3> QED
      BY <2>5, <2>6, <3>1, <3>2, <3>3, Zenon DEF PfTypes
  <2>8. \A a \in Places : ~pf.valid_mask[Fetch!Index(a)]
    <3> SUFFICES ASSUME NEW a \in Places PROVE ~pf.valid_mask[Fetch!Index(a)]
      OBVIOUS
    <3>1. Fetch!Index(a) \in 0 .. Lines - 1
      BY PfParts
    <3> QED
      BY <2>1, <3>1
  <2>9. PfPlaced(pf, cpu) /\ PfFresh(pf) /\ PfKeeps(pf, code) /\ PfAlone(pf, bus)
    BY <2>1, <2>2, <2>3, <2>4, <2>6, <2>8 DEF PfPlaced, PfPc, PfFresh, PfKeeps, PfAlone
  <2>10. PfLoads(pf, bus, code) /\ PfSaves(pf, code) /\ PfRefuses(pf) /\ PfHands(pf, code)
    BY <2>2 DEF PfLoads, PfSaves, PfRefuses, PfHands, PfSees
  <2> QED
    BY <2>7, <2>9, <2>10 DEF PfInv
<1>2. FetchInv /\ [BoardNext]_boardvars => FetchInv'
  <2> SUFFICES ASSUME FetchInv, [BoardNext]_boardvars, part = "fetch" PROVE FetchInv'
    BY DEF BoardNext, boardvars, FetchInv
  <2>1. PfInv(pf, bus, cpu, code)
    BY DEF FetchInv
  <2>2. ASSUME Fetch!Next PROVE PfInv(pf', bus', cpu', code')
    <3>1. PICK x \in [stall : BOOLEAN, ack : BOOLEAN, err : BOOLEAN], c \in Fetch!Does,
               writes \in BOOLEAN :
            /\ Fetch!Answers(x) /\ (writes => code.ver = 0)
            /\ Fetch!Fetch(c, x) /\ Fetch!Devices(c, x) /\ Fetch!Memory(c, writes)
            /\ Fetch!Processor(c)
      BY <2>2, Zenon DEF Fetch!Next
    <3>2. PfTick(c, x)
      BY <3>1 DEF PfTick
    <3> QED
      BY <2>1, <3>2, PfStep
  <2>3. CASE UNCHANGED boardvars
    <3>1. pf' = pf /\ bus' = bus /\ cpu' = cpu /\ code' = code
      BY <2>3 DEF boardvars, fetchvars
    <3> QED
      BY <2>1, <3>1 DEF FetchInv
  <2> QED
    BY <2>2, <2>3 DEF FetchInv, BoardNext, LinkRuns, SdramRuns, MoverRuns, FetchRuns,
      LoadsRun, TimersRun, IntsRun
<1>3. FetchInv => HandsInstruction
  <2> SUFFICES ASSUME PfInv(pf, bus, cpu, code), cpu.st = "run", Fetch!valid
               PROVE  /\ Fetch!o_pc = cpu.want
                      /\ pf.o_illegal = (Fetch!Line(Fetch!o_pc) \in BadLines)
                      /\ ~pf.o_illegal => /\ Fetch!o_insn.addr = Fetch!o_pc
                                          /\ Fetch!o_insn.ver >= code.cleared
    BY DEF FetchInv, HandsInstruction, Fetch!HandsInstruction
  <2>1. PfPlaced(pf, cpu) /\ PfRefuses(pf) /\ PfHands(pf, code) /\ pf.o_illegal \in BOOLEAN
    BY DEF PfInv, PfTypes
  <2>2. Fetch!o_pc = pf.lastpc /\ Fetch!o_pc = cpu.want
    BY <2>1 DEF PfPlaced, PfPc, Fetch!o_pc
  <2>3. PfSees(pf) \/ pf.o_illegal
    BY DEF Fetch!valid, Fetch!r_v, PfSees
  <2>4. pf.o_illegal <=> Fetch!Line(pf.lastpc) \in BadLines
    BY <2>1, <2>3 DEF PfRefuses, PfHands
  <2>5. ~pf.o_illegal => /\ Fetch!o_insn.addr = Fetch!o_pc
                         /\ Fetch!o_insn.ver >= code.cleared
    BY <2>1, <2>2, <2>3 DEF PfHands, PfInsn, Fetch!o_insn
  <2>6. pf.o_illegal = (Fetch!Line(pf.lastpc) \in BadLines)
    <3>1. CASE pf.o_illegal
      <4>1. pf.o_illegal = TRUE
        BY <2>1, <3>1
      <4>2. (Fetch!Line(pf.lastpc) \in BadLines) = TRUE
        BY <2>4, <3>1
      <4> QED
        BY <4>1, <4>2
    <3>2. CASE ~pf.o_illegal
      <4>1. pf.o_illegal = FALSE
        BY <2>1, <3>2
      <4>2. (Fetch!Line(pf.lastpc) \in BadLines) = FALSE
        BY <2>4, <3>2
      <4> QED
        BY <4>1, <4>2
    <3> QED
      BY <3>1, <3>2
  <2> QED
    BY <2>2, <2>5, <2>6
<1> QED
  BY <1>1, <1>2, <1>3, PTL DEF BoardSpec
-----------------------------------------------------------------------------
(***************************************************************************)
(* The debug link.  What the host will know after it has taken the first i *)
(* codewords on their way is V[i], from what it knows now, V[0], to what   *)
(* the board takes it to know, the last; from an error on it is no longer  *)
(* in the call.  The address the board will be at after it has executed    *)
(* the first j commands is E[j], and the last of these is the one that the *)
(* host counts on.                                                         *)
(***************************************************************************)
DlErrors == {"err", "reset"}
DlWords == {"raw", "tbl"}
DlOps == {"idle", "ended", "read", "write", "readidle"}
DlSlot == 0 .. T - 1
IsSeq(s) == \E S : s \in Seq(S)

\* What the host knows: where it takes the board to be, where its next word
\* is from and how many are to come, whether all came from where they should,
\* its table; over when it is not in the call any longer.
DlKnows(v) ==
  /\ ~v.over /\ v.last = m_lastaddr /\ v.at = call.at /\ v.left = call.left
  /\ v.ok <=> call.ok
  /\ v.rd = m_rdaddr /\ v.tbl = m_readtbl

\* v becomes w by codeword c.
DlAck(v, c, w) == c.kind = "ack" => w = v

DlAddr(v, c, w, er) ==
  c.kind = "addr" =>
    /\ v.ok /\ w.ok /\ (~er => c.at = v.at)
    /\ w.last = c.at /\ w.at = v.at /\ w.left = v.left /\ w.rd = v.rd /\ w.tbl = v.tbl

DlWordAt(v, c, w, inc, er) ==
  c.kind \in DlWords =>
    /\ c.at \in 0 .. BusSpace - 1 /\ c.at = v.last /\ c.inc = inc /\ (~er => c.at = v.at)
    /\ w.last = (c.at + inc) % BusSpace /\ w.at = v.at + inc /\ w.left = v.left - 1
    /\ w.ok <=> v.ok /\ c.at = v.at

DlRaw(v, c, w) ==
  c.kind = "raw" =>
    c.sent = c.val /\ w.rd = (v.rd + 1) % T /\ w.tbl = [v.tbl EXCEPT ![v.rd] = c.sent]

DlTbl(v, c, w) ==
  c.kind = "tbl" =>
    /\ c.sent \in 1 .. T - 1 /\ w.rd = v.rd /\ w.tbl = v.tbl
    /\ ReadsBack \/ v.tbl[(v.rd - c.sent) % T] = c.val

DlTook(v, c, w, inc, er) ==
  /\ v.over => w.over
  /\ ~v.over => v.left >= 1 /\ v.left \in Nat /\ v.at \in Nat
  /\ ~v.over /\ c.kind \in DlErrors => w.over
  /\ ~v.over /\ c.kind \notin DlErrors =>
       /\ ~w.over /\ c.kind \in {"ack", "addr"} \cup DlWords
       /\ DlAck(v, c, w) /\ DlAddr(v, c, w, er) /\ DlWordAt(v, c, w, inc, er)
       /\ DlRaw(v, c, w) /\ DlTbl(v, c, w)

DlPath(V, u, inc, er) == \A i \in 1 .. Len(u) : DlTook(V[i - 1], u[i], V[i], inc, er)

\* No entry of the board's table that it may send the place of is another one
\* at the host, as long as no program reads where its last write left off.
DlAgree(rd, tbl) ==
  /\ rd = tbl_addr
  /\ \A d \in 1 .. T - 1 :
       Link!Valid(d) => tbl[(tbl_addr - d) % T] = compression_tbl[(tbl_addr - d) % T]

\* The board is where the host takes it to be.
DlSame(last, rd, tbl) ==
  last = o_wb_addr /\ DOMAIN tbl = DlSlot /\ (ReadsBack \/ DlAgree(rd, tbl))

DlInStep(v) == ~r_new_addr /\ DlSame(v.last, v.rd, v.tbl)

\* The read is the last of the commands; the address it begins at comes just
\* before it, or was told, or is the one the last access ended at.
DlWaits(v) ==
  /\ \A i \in 1 .. Len(up) : up[i].kind \in {"ack"} \cup DlErrors
  /\ down # << >> /\ v.ok /\ v.at = call.at /\ v.at \in Nat /\ v.left \in Nat \ {0} /\ DOMAIN v.tbl = DlSlot
  /\ LET c == down[Len(down)] IN c.op = "read" /\ c.inc = call.inc /\ c.len = v.left
  /\ \A j \in 1 .. Len(down) - 1 : down[j].op # "read"
  /\ wb_state # "reading" /\ v.at + call.inc * v.left <= Top
  /\ \/ v.rd = 0 /\ Len(down) = 1 /\ r_new_addr
     \/ v.rd = 0 /\ Len(down) > 1 /\ down[Len(down) - 1].op = "addr"
     \/ Len(down) = 1 /\ wb_state = "idle" /\ DlInStep(v)
     \/ ReadsBack /\ v.last = v.at

\* The read is under way.
DlUnderWay(v) ==
  /\ down = << >> /\ wb_state = "reading" /\ r_inc = call.inc /\ r_len = v.left
  /\ v.at \in Nat /\ v.left \in Nat \ {0} /\ DlInStep(v) /\ (~erred => v.last = v.at)
  /\ v.at + call.inc * v.left <= Top

\* All of it is answered.
DlAnswered(v) ==
  /\ down = << >> /\ wb_state = "idle" /\ v.left = 0
  /\ v.at \in Nat /\ DlInStep(v) /\ (~erred => v.last = v.at)

DlBoard(v) == DlWaits(v) \/ DlUnderWay(v) \/ DlAnswered(v)

DlReads(V) ==
  /\ DlKnows(V[0]) /\ DlPath(V, up, call.inc, erred)
  /\ \E v : v = V[Len(up)] /\ (v.over \/ DlBoard(v))
  /\ call.ok \/ m_lastaddr # call.at

\* No word of a read is on its way, and none is asked for.
DlQuiet ==
  /\ wb_state # "reading"
  /\ \A i \in 1 .. Len(up) : up[i].kind \in {"ack"} \cup DlErrors
  /\ \A j \in 1 .. Len(down) : down[j].op # "read"

\* Writes are on their way, or were the last to be.
DlWrites == wrote /\ DlQuiet

\* The host waits for a read that the board took for the end of a burst.
DlLost == DlQuiet /\ call.left >= 1 /\ call.ok

\* Nothing is on its way, and the host knows of no address or the right one.
DlRests ==
  /\ ~wrote /\ down = << >> /\ up = << >> /\ wb_state # "reading"
  /\ m_addr_set => /\ ~r_new_addr /\ wb_state = "idle"
                   /\ DlSame(m_lastaddr, m_rdaddr, m_readtbl)

DlPhases ==
  /\ call.op = "read" => DlLost \/ \E V : DlReads(V)
  /\ call.op \in {"write", "readidle"} => DlWrites
  /\ call.op = "idle" => DlWrites \/ DlRests

DlTypes ==
  /\ IsSeq(up) /\ IsSeq(down)
  /\ call \in [op : DlOps, at : Nat, inc : {0, 1}, left : Nat, ok : BOOLEAN]
  /\ m_rdaddr \in DlSlot /\ DOMAIN m_readtbl = DlSlot
  /\ tbl_addr \in DlSlot /\ DOMAIN compression_tbl = DlSlot
  /\ wrote \in BOOLEAN /\ erred \in BOOLEAN /\ r_new_addr \in BOOLEAN /\ m_addr_set \in BOOLEAN
  /\ tbl_filled \in BOOLEAN /\ (call.op = "read" => ~wrote)
  /\ ~erred => \A i \in 1 .. Len(up) : up[i].kind \notin DlErrors

\* A sequence loses its first element, gets one more.
DlPopped(s, t) ==
  /\ IsSeq(t) /\ Len(s) \in Nat \ {0} /\ Len(t) = Len(s) - 1 /\ Len(t) \in Nat
  /\ \A i \in 1 .. Len(t) : t[i] = s[i + 1]

DlPushed(s, t, x) ==
  /\ IsSeq(t) /\ Len(s) \in Nat /\ Len(t) = Len(s) + 1 /\ t[Len(t)] = x
  /\ \A i \in 1 .. Len(s) : t[i] = s[i]

LEMMA DlLength ==
  ASSUME NEW s, IsSeq(s) PROVE Len(s) \in Nat /\ (Len(s) = 0 <=> s = << >>)
<1>1. PICK S : s \in Seq(S)
  BY DEF IsSeq
<1> QED
  BY <1>1, EmptySeq

LEMMA DlPop ==
  ASSUME NEW s, IsSeq(s), s # << >> PROVE DlPopped(s, Tail(s)) /\ Head(s) = s[1]
<1>1. PICK S : s \in Seq(S)
  BY DEF IsSeq
<1>2. Tail(s) \in Seq(S) /\ Len(Tail(s)) = Len(s) - 1 /\ Len(s) \in Nat \ {0} /\ Head(s) = s[1]
  BY <1>1
<1>3. \A i \in 1 .. Len(s) - 1 : Tail(s)[i] = s[i + 1]
  BY <1>1, <1>2
<1> QED
  BY <1>2, <1>3 DEF DlPopped, IsSeq

LEMMA DlPush ==
  ASSUME NEW s, IsSeq(s), NEW x PROVE DlPushed(s, Append(s, x), x)
<1>1. PICK S : s \in Seq(S)
  BY DEF IsSeq
<1>2. s \in Seq(S \cup {x})
  BY <1>1, SeqMonotonic
<1>3. Append(s, x) \in Seq(S \cup {x}) /\ Len(Append(s, x)) = Len(s) + 1 /\ Len(s) \in Nat
  BY <1>2
<1>4. \A i \in 1 .. Len(s) : Append(s, x)[i] = s[i]
  BY <1>2
<1>5. Append(s, x)[Len(s) + 1] = x
  BY <1>2
<1> QED
  BY <1>3, <1>4, <1>5 DEF DlPushed, IsSeq

LEMMA DlPushTwo ==
  ASSUME NEW s, IsSeq(s), NEW x, NEW y PROVE s \o <<x, y>> = Append(Append(s, x), y)
<1>1. PICK S : s \in Seq(S)
  BY DEF IsSeq
<1>2. s \in Seq(S \cup {x, y}) /\ x \in S \cup {x, y} /\ y \in S \cup {x, y}
  BY <1>1, SeqMonotonic
<1> HIDE <1>1
<1> QED
  BY <1>2

\* The host takes a codeword, the board sends one, an error is told.
LEMMA DlPathPops ==
  ASSUME NEW V, NEW u, NEW t, NEW inc, NEW er, DlPopped(u, t), DlPath(V, u, inc, er)
  PROVE  /\ DlTook(V[0], u[1], V[1], inc, er)
         /\ \E W : DlPath(W, t, inc, er) /\ W[0] = V[1] /\ W[Len(t)] = V[Len(u)]
<1> DEFINE W == [i \in Nat |-> V[i + 1]]
<1>1. Len(u) \in Nat \ {0} /\ Len(t) = Len(u) - 1 /\ Len(t) \in Nat
  BY DEF DlPopped
<1>2. DlTook(V[0], u[1], V[1], inc, er)
  <2>1. DlTook(V[1 - 1], u[1], V[1], inc, er)
    BY <1>1 DEF DlPath
  <2> QED
    BY <2>1
<1>3. ASSUME NEW i \in 1 .. Len(t) PROVE DlTook(W[i - 1], t[i], W[i], inc, er)
  <2>1. i + 1 \in 1 .. Len(u) /\ t[i] = u[i + 1]
    BY <1>1 DEF DlPopped
  <2>2. W[i] = V[i + 1]
    OBVIOUS
  <2>3. i - 1 \in Nat /\ (i - 1) + 1 = i /\ (i + 1) - 1 = i
    BY <1>1
  <2>4. W[i - 1] = V[(i - 1) + 1]
    BY <2>3
  <2>5. DlTook(V[(i + 1) - 1], u[i + 1], V[i + 1], inc, er)
    BY <2>1 DEF DlPath
  <2> QED
    BY <2>1, <2>2, <2>3, <2>4, <2>5
<1>4. W[0] = V[1] /\ W[Len(t)] = V[Len(u)]
  BY <1>1
<1> QED
  BY <1>2, <1>3, <1>4 DEF DlPath

DlSends(V, u, t, c, w, inc, er) ==
  DlPushed(u, t, c) /\ DlPath(V, u, inc, er) /\ DlTook(V[Len(u)], c, w, inc, er)

LEMMA DlPathPushes ==
  ASSUME NEW V, NEW u, NEW t, NEW c, NEW w, NEW inc, NEW er, DlSends(V, u, t, c, w, inc, er)
  PROVE  \E W : DlPath(W, t, inc, er) /\ W[0] = V[0] /\ W[Len(t)] = w
<1> DEFINE W == [i \in Nat |-> IF i <= Len(u) THEN V[i] ELSE w]
<1>1. Len(u) \in Nat /\ Len(t) = Len(u) + 1 /\ t[Len(t)] = c
  BY DEF DlPushed, DlSends
<1>2. ASSUME NEW i \in 1 .. Len(t) PROVE DlTook(W[i - 1], t[i], W[i], inc, er)
  <2>1. CASE i = Len(t)
    <3>1. W[i - 1] = V[Len(u)] /\ W[i] = w /\ t[i] = c
      BY <1>1, <2>1
    <3> QED
      BY <3>1 DEF DlSends
  <2>2. CASE i # Len(t)
    <3>1. i \in 1 .. Len(u) /\ W[i - 1] = V[i - 1] /\ W[i] = V[i] /\ t[i] = u[i]
      BY <1>1, <2>2 DEF DlPushed, DlSends
    <3> QED
      BY <3>1 DEF DlPath, DlSends
  <2> QED
    BY <2>1, <2>2
<1>3. W[0] = V[0] /\ W[Len(t)] = w
  BY <1>1
<1> QED
  BY <1>2, <1>3 DEF DlPath

LEMMA DlPathStays ==
  ASSUME NEW V, NEW u, NEW inc, NEW er, NEW er2, er => er2, DlPath(V, u, inc, er)
  PROVE  DlPath(V, u, inc, er2)
BY DEF DlPath, DlTook, DlAddr, DlWordAt

\* A clock of the program that tells of an error tells erred.
DlTells ==
  /\ erred' \in BOOLEAN /\ (erred => erred')
  /\ ~erred' => \A i \in 1 .. Len(up') : up'[i].kind \notin DlErrors

DlHostStays ==
  /\ m_addr_set' = m_addr_set /\ m_lastaddr' = m_lastaddr /\ m_rdaddr' = m_rdaddr
  /\ m_readtbl' = m_readtbl /\ call' = call /\ wrote' = wrote

LEMMA DlTableStays ==
  ASSUME tbl_addr' = tbl_addr, tbl_filled' = tbl_filled, compression_tbl' = compression_tbl,
         o_wb_addr' = o_wb_addr, NEW last, NEW rd, NEW tbl, DlSame(last, rd, tbl)
  PROVE  DlSame(last, rd, tbl)'
BY DEF DlSame, DlAgree, Link!Valid

\* What the board sends, the host will take.
DlMaySend(V, u, t, c, v, inc, er) ==
  /\ DlPushed(u, t, c) /\ DlPath(V, u, inc, er) /\ v = V[Len(u)]
  /\ v.over \/ (v.left >= 1 /\ v.left \in Nat /\ v.at \in Nat)

LEMMA DlSendsAck ==
  ASSUME NEW V, NEW u, NEW t, NEW c, NEW v, NEW inc, NEW er, c.kind = "ack",
         DlMaySend(V, u, t, c, v, inc, er)
  PROVE  \E W : DlPath(W, t, inc, er) /\ W[0] = V[0] /\ W[Len(t)] = v
<1>1. DlSends(V, u, t, c, v, inc, er)
  BY DEF DlSends, DlMaySend, DlTook, DlErrors, DlWords, DlAck, DlAddr, DlWordAt, DlRaw, DlTbl
<1> QED
  BY <1>1, DlPathPushes

LEMMA DlSendsError ==
  ASSUME NEW V, NEW u, NEW t, NEW c, NEW v, NEW inc, NEW er, c.kind \in DlErrors,
         DlMaySend(V, u, t, c, v, inc, er)
  PROVE  \E W : DlPath(W, t, inc, er) /\ W[0] = V[0] /\ W[Len(t)].over
<1> DEFINE w == [over |-> TRUE]
<1>1. DlSends(V, u, t, c, w, inc, er)
  BY DEF DlSends, DlMaySend, DlTook, DlErrors, DlWords
<1>2. PICK W : DlPath(W, t, inc, er) /\ W[0] = V[0] /\ W[Len(t)] = w
  BY <1>1, DlPathPushes
<1> QED
  BY <1>2

LEMMA DlSendsOver ==
  ASSUME NEW V, NEW u, NEW t, NEW c, NEW inc, NEW er, DlPushed(u, t, c), DlPath(V, u, inc, er),
         V[Len(u)].over
  PROVE  \E W : DlPath(W, t, inc, er) /\ W[0] = V[0] /\ W[Len(t)].over
<1> DEFINE w == V[Len(u)]
<1>1. DlSends(V, u, t, c, w, inc, er)
  BY DEF DlSends, DlTook
<1>2. PICK W : DlPath(W, t, inc, er) /\ W[0] = V[0] /\ W[Len(t)] = w
  BY <1>1, DlPathPushes
<1> QED
  BY <1>2

LEMMA DlReadsOn ==
  ASSUME NEW V, DlReads(V), DlHostStays, DlTells, NEW W, DlPath(W, up', call.inc, erred),
         W[0] = V[0], NEW v, v = W[Len(up')], v.over \/ DlBoard(v)'
  PROVE  (\E U : DlReads(U))'
<1>1. DlPath(W, up', call'.inc, erred')
  BY DlPathStays DEF DlTells, DlHostStays
<1>2. DlKnows(W[0])'
  BY DEF DlReads, DlKnows, DlHostStays
<1>3. call'.ok \/ m_lastaddr' # call'.at
  BY DEF DlReads, DlHostStays
<1>5. DlReads(W)'
  BY <1>1, <1>2, <1>3 DEF DlReads
<1> QED
  BY <1>5

\* A command other than the read is taken.
LEMMA DlWaitsOn ==
  ASSUME NEW v, DlWaits(v), DlPopped(down, down'), down[1].op # "read", wb_state' # "reading",
         DlHostStays, down[1].op = "addr" => r_new_addr',
         \A i \in 1 .. Len(up') : up'[i].kind \in {"ack"} \cup DlErrors
  PROVE  DlWaits(v)'
<1>1. Len(down) \in Nat /\ Len(down') = Len(down) - 1 /\ Len(down) # 0
      /\ \A i \in 1 .. Len(down') : down'[i] = down[i + 1]
  BY DEF DlPopped
<1>2. Len(down) # 1
  BY <1>1 DEF DlWaits
<1>3. down'[Len(down')] = down[Len(down)] /\ Len(down') \in Nat \ {0}
  <2>1. Len(down') \in 1 .. Len(down') /\ Len(down') + 1 = Len(down)
    BY <1>1, <1>2
  <2> QED
    BY <1>1, <2>1
<1>4. down' # << >>
  BY <1>3, EmptySeq
<1>5. ASSUME NEW j \in 1 .. Len(down') - 1 PROVE down'[j].op # "read"
  <2>1. j \in 1 .. Len(down') /\ j + 1 \in 1 .. Len(down) - 1
    BY <1>1, <1>3
  <2>2. down'[j] = down[j + 1]
    BY <1>1, <2>1
  <2> QED
    BY <2>1, <2>2 DEF DlWaits
<1>6. CASE ReadsBack /\ v.last = v.at
  BY <1>3, <1>4, <1>5, <1>6 DEF DlWaits, DlHostStays
<1> SUFFICES ASSUME ~(ReadsBack /\ v.last = v.at) PROVE DlWaits(v)'
  BY <1>6
<1>7. v.rd = 0 /\ down[Len(down) - 1].op = "addr"
  BY <1>2 DEF DlWaits
<1>8. CASE Len(down) = 2
  <2>1. r_new_addr' /\ Len(down') = 1
    BY <1>1, <1>7, <1>8
  <2> QED
    BY <1>3, <1>4, <1>5, <1>7, <2>1 DEF DlWaits, DlHostStays
<1>9. CASE Len(down) # 2
  <2>1. Len(down') - 1 \in 1 .. Len(down') /\ (Len(down') - 1) + 1 = Len(down) - 1 /\ Len(down') > 1
    BY <1>1, <1>2, <1>9
  <2>2. down'[Len(down') - 1] = down[Len(down) - 1]
    BY <1>1, <2>1
  <2> QED
    BY <1>3, <1>4, <1>5, <1>7, <2>1, <2>2 DEF DlWaits, DlHostStays
<1> QED
  BY <1>8, <1>9

LEMMA DlTakesCommand ==
  ASSUME DlTypes, NEW op, Link!Command(op)
  PROVE  DlPopped(down, down') /\ down[1].op = op /\ down # << >>
BY DlPop DEF DlTypes, Link!Command

\* What the board sends, one codeword or two.
LEMMA DlSendsOne ==
  ASSUME DlTypes, NEW c, up' = Append(up, c)
  PROVE  DlPushed(up, up', c)
BY DlPush DEF DlTypes

LEMMA DlSendsTwo ==
  ASSUME DlTypes, NEW c, NEW b, up' = up \o <<c, b>>
  PROVE  DlPushed(up, Append(up, c), c) /\ DlPushed(Append(up, c), up', b)
<1>1. DlPushed(up, Append(up, c), c)
  BY DlPush DEF DlTypes
<1>2. IsSeq(Append(up, c))
  BY <1>1 DEF DlPushed
<1>3. up' = Append(Append(up, c), b)
  BY DlPushTwo DEF DlTypes
<1> QED
  BY <1>1, <1>2, <1>3, DlPush

\* A command that is not answered; a write that is.
LEMMA DlReadsQuiet ==
  ASSUME DlTypes, NEW V, DlReads(V), DlHostStays, DlTells, up' = up, NEW op, Link!Command(op),
         op # "read", wb_state' # "reading", op = "addr" => r_new_addr'
  PROVE  (\E U : DlReads(U))'
<1>1. DlPopped(down, down') /\ down[1].op = op /\ down # << >>
  BY DlTakesCommand
<1>2. PICK v : v = V[Len(up)] /\ (v.over \/ DlBoard(v))
  BY DEF DlReads
<1>3. v.over \/ DlWaits(v)
  BY <1>1, <1>2 DEF DlBoard, DlUnderWay, DlAnswered
<1>4. v.over \/ DlWaits(v)'
  <2>1. ASSUME DlWaits(v) PROVE \A i \in 1 .. Len(up') : up'[i].kind \in {"ack"} \cup DlErrors
    BY <2>1 DEF DlWaits
  <2> QED
    BY <1>1, <1>3, <2>1, DlWaitsOn
<1>5. DlPath(V, up', call.inc, erred) /\ v = V[Len(up')]
  BY <1>2 DEF DlReads
<1>6. v.over \/ DlBoard(v)'
  BY <1>4 DEF DlBoard
<1> QED
  BY <1>5, <1>6, DlReadsOn

LEMMA DlReadsAck ==
  ASSUME DlTypes, NEW V, DlReads(V), DlHostStays, DlTells, NEW c, c.kind = "ack",
         up' = Append(up, c), Link!Command("write"), wb_state' # "reading"
  PROVE  (\E U : DlReads(U))'
<1>1. DlPopped(down, down') /\ down[1].op = "write" /\ down # << >>
  BY DlTakesCommand
<1>2. PICK v : v = V[Len(up)] /\ (v.over \/ DlBoard(v))
  BY DEF DlReads
<1>3. v.over \/ DlWaits(v)
  BY <1>1, <1>2 DEF DlBoard, DlUnderWay, DlAnswered
<1>4. DlPushed(up, up', c)
  BY DlSendsOne
<1>5. v.over \/ DlWaits(v)'
  <2>1. ASSUME DlWaits(v) PROVE \A i \in 1 .. Len(up') : up'[i].kind \in {"ack"} \cup DlErrors
    BY <1>4, <2>1 DEF DlWaits, DlPushed
  <2> QED
    BY <1>1, <1>3, <2>1, DlWaitsOn
<1>6. v.over \/ (v.left >= 1 /\ v.left \in Nat /\ v.at \in Nat)
  BY <1>3 DEF DlWaits
<1>7. DlPath(V, up, call.inc, erred)
  BY DEF DlReads
<1>8. PICK W : DlPath(W, up', call.inc, erred) /\ W[0] = V[0] /\ W[Len(up')] = v
  <2>1. PICK t : t = up'
    OBVIOUS
  <2>2. DlMaySend(V, up, t, c, v, call.inc, erred)
    BY <1>2, <1>4, <1>6, <1>7, <2>1 DEF DlMaySend
  <2>3. PICK W : DlPath(W, t, call.inc, erred) /\ W[0] = V[0] /\ W[Len(t)] = v
    BY <2>2, DlSendsAck
  <2> QED
    BY <2>1, <2>3
<1>9. v.over \/ DlBoard(v)'
  BY <1>5 DEF DlBoard
<1> QED
  BY <1>8, <1>9, DlReadsOn

\* An error ends the call once it has been read.
LEMMA DlReadsFail ==
  ASSUME DlTypes, NEW V, DlReads(V), DlHostStays, DlTells, NEW c, NEW b,
         down # << >> \/ wb_state = "reading",
         \/ up' = Append(up, c) /\ c.kind \in DlErrors
         \/ up' = up \o <<c, b>> /\ c.kind \in {"ack"} \cup DlErrors /\ b.kind \in DlErrors
  PROVE  (\E U : DlReads(U))'
<1>1. PICK v : v = V[Len(up)] /\ (v.over \/ DlBoard(v))
  BY DEF DlReads
<1>2. v.over \/ (v.left >= 1 /\ v.left \in Nat /\ v.at \in Nat)
  BY <1>1 DEF DlBoard, DlWaits, DlUnderWay, DlAnswered
<1>3. DlPath(V, up, call.inc, erred)
  BY DEF DlReads
<1>4. \E W : DlPath(W, up', call.inc, erred) /\ W[0] = V[0] /\ W[Len(up')].over
  <2>1. CASE up' = Append(up, c) /\ c.kind \in DlErrors
    <3>1. DlMaySend(V, up, up', c, v, call.inc, erred)
      BY <1>1, <1>2, <1>3, <2>1, DlSendsOne DEF DlMaySend
    <3> QED
      BY <2>1, <3>1, DlSendsError
  <2>2. CASE up' = up \o <<c, b>> /\ c.kind \in {"ack"} \cup DlErrors /\ b.kind \in DlErrors
    <3> DEFINE t == Append(up, c)
    <3>1. DlPushed(up, t, c) /\ DlPushed(t, up', b)
      BY <2>2, DlSendsTwo
    <3> HIDE DEF t
    <3>2. PICK W : DlPath(W, t, call.inc, erred) /\ W[0] = V[0] /\ (W[Len(t)].over \/ W[Len(t)] = v)
      <4> DlMaySend(V, up, t, c, v, call.inc, erred)
        BY <1>1, <1>2, <1>3, <3>1 DEF DlMaySend
      <4>1. CASE c.kind = "ack"
        BY <4>1, DlSendsAck
      <4>2. CASE c.kind \in DlErrors
        BY <4>2, DlSendsError
      <4> QED
        BY <2>2, <4>1, <4>2
    <3>3. PICK w : w = W[Len(t)]
      OBVIOUS
    <3>4. w.over \/ (w.left >= 1 /\ w.left \in Nat /\ w.at \in Nat)
      BY <1>2, <3>2, <3>3
    <3>5. PICK U : DlPath(U, up', call.inc, erred) /\ U[0] = W[0] /\ U[Len(up')].over
      <4>1. DlMaySend(W, t, up', b, w, call.inc, erred)
        BY <3>1, <3>2, <3>3, <3>4 DEF DlMaySend
      <4> QED
        BY <2>2, <4>1, DlSendsError
    <3> QED
      BY <3>2, <3>5
  <2> QED
    BY <2>1, <2>2
<1>5. PICK W : DlPath(W, up', call.inc, erred) /\ W[0] = V[0] /\ W[Len(up')].over
  BY <1>4
<1>6. PICK w : w = W[Len(up')]
  OBVIOUS
<1>7. w.over
  BY <1>5, <1>6
<1>8. w.over \/ DlBoard(w)'
  BY <1>7
<1> QED
  BY <1>5, <1>6, <1>8, DlReadsOn

\* After an error whatever is sent is not for this call.
LEMMA DlOverSends ==
  ASSUME DlTypes, NEW V, DlReads(V), DlHostStays, DlTells, V[Len(up)].over, NEW c,
         up' = Append(up, c)
  PROVE  (\E U : DlReads(U))'
<1>1. DlPushed(up, up', c)
  BY DlSendsOne
<1>2. PICK t : t = up'
  OBVIOUS
<1>3. DlPath(V, up, call.inc, erred)
  BY DEF DlReads
<1>4. PICK W : DlPath(W, t, call.inc, erred) /\ W[0] = V[0] /\ W[Len(t)].over
  BY <1>1, <1>2, <1>3, DlSendsOver
<1>5. PICK w : w = W[Len(t)]
  OBVIOUS
<1>6. DlPath(W, up', call.inc, erred) /\ w = W[Len(up')] /\ (w.over \/ DlBoard(w)')
  BY <1>2, <1>4, <1>5
<1> QED
  BY <1>4, <1>6, DlReadsOn

\* When the first command is a read and only the last can be one, it is alone.
LEMMA DlOnlyOne ==
  ASSUME NEW s, NEW n \in Nat \ {0}, s[1].op = "read",
         \A j \in 1 .. n - 1 : s[j].op # "read"
  PROVE  n = 1
  OBVIOUS

\* The read begins, at the address it was told or where the last one ended.
LEMMA DlReadsBegin ==
  ASSUME DlTypes, NEW V, DlReads(V), DlTells, Link!ExecRead, ~erred => o_wb_addr = call.at,
         ~(ReadsBack /\ erred)
  PROVE  (\E U : DlReads(U))'
<1>1. /\ DlHostStays /\ Link!Command("read") /\ wb_state' = "reading" /\ wb_state = "idle"
      /\ r_inc' = Head(down).inc /\ r_len' = Head(down).len /\ r_new_addr' = FALSE
      /\ o_wb_addr' = o_wb_addr /\ compression_tbl' = compression_tbl
  BY DEF Link!ExecRead, DlHostStays, Link!host
<1>2. DlPopped(down, down') /\ down[1].op = "read" /\ down # << >> /\ Head(down) = down[1]
  BY <1>1, DlTakesCommand, DlPop DEF DlTypes
<1>3. PICK v : v = V[Len(up)] /\ (v.over \/ DlBoard(v))
  BY DEF DlReads
<1>4. DlPath(V, up, call.inc, erred)
  BY DEF DlReads
<1>5. CASE ~v.over
  <2>1. DlWaits(v)
    BY <1>2, <1>3, <1>5 DEF DlBoard, DlUnderWay, DlAnswered
  <2>2. Len(down) = 1
    <3>1. Len(down) \in Nat \ {0}
      BY <1>2 DEF DlPopped
    <3>2. \A j \in 1 .. Len(down) - 1 : down[j].op # "read"
      BY <2>1 DEF DlWaits
    <3> QED
      BY <1>2, <3>1, <3>2, DlOnlyOne
  <2>3. down' = << >>
    BY <1>2, <2>2, DlLength DEF DlPopped
  <2>4. r_inc' = call'.inc /\ r_len' = v.left /\ v.left \in Nat \ {0} /\ v.at = call.at
        /\ v.at \in Nat /\ v.ok /\ DOMAIN v.tbl = DlSlot /\ v.at + call'.inc * v.left <= Top
    BY <1>1, <1>2, <2>1, <2>2 DEF DlWaits, DlHostStays
  <2>5. CASE r_new_addr
    <3>0. PICK w, c :
             /\ w = [last |-> o_wb_addr, at |-> v.at, left |-> v.left, ok |-> TRUE,
                     rd |-> v.rd, tbl |-> v.tbl, over |-> FALSE]
             /\ c = [kind |-> "addr", at |-> o_wb_addr, val |-> 0, inc |-> 0, sent |-> 0]
      OBVIOUS
    <3>1. up' = Append(up, c) /\ tbl_addr' = 0 /\ tbl_filled' = FALSE
      BY <2>5, <3>0 DEF Link!ExecRead, Link!Told
    <3>2. ReadsBack \/ v.rd = 0
      BY <2>1, <2>5 DEF DlWaits, DlInStep
    <3>3. DlTook(v, c, w, call.inc, erred)
      BY <1>5, <2>4, <3>0 DEF DlTook, DlErrors, DlWords, DlAck, DlAddr, DlWordAt, DlRaw, DlTbl
    <3>4. w.over = FALSE /\ w.last = o_wb_addr /\ (ReadsBack \/ w.rd = 0) /\ w.left = v.left /\ w.at = v.at
          /\ w.tbl = v.tbl
      BY <3>0, <3>2
    <3>5. DlPushed(up, up', c)
      BY <3>1, DlSendsOne
    <3>6. PICK t : t = up'
      OBVIOUS
    <3>7. DlSends(V, up, t, c, w, call.inc, erred)
      BY <1>3, <1>4, <3>3, <3>5, <3>6 DEF DlSends
    <3>8. PICK W : DlPath(W, t, call.inc, erred) /\ W[0] = V[0] /\ W[Len(t)] = w
      BY <3>7, DlPathPushes
    <3>9. DlSame(w.last, w.rd, w.tbl)'
      BY <1>1, <2>4, <3>1, <3>4 DEF DlSame, DlAgree, Link!Valid, DlTypes, DlSlot
    <3>10. ~erred' => w.last = w.at
      BY <2>4, <3>4 DEF DlTells
    <3>11. DlUnderWay(w)'
      BY <1>1, <2>3, <2>4, <3>4, <3>9, <3>10 DEF DlUnderWay, DlInStep
    <3>12. w.over \/ DlBoard(w)'
      BY <3>11 DEF DlBoard
    <3>13. DlPath(W, up', call.inc, erred) /\ w = W[Len(up')]
      BY <3>6, <3>8
    <3> QED
      BY <1>1, <3>8, <3>12, <3>13, DlReadsOn
  <2>6. CASE ~r_new_addr
    <3>1. up' = up /\ tbl_addr' = tbl_addr /\ tbl_filled' = tbl_filled
      BY <2>6 DEF Link!ExecRead
    <3>2. DlInStep(v)
      <4>1. CASE ReadsBack /\ v.last = v.at
        BY <2>4, <2>6, <4>1 DEF DlInStep, DlSame
      <4> QED
        BY <2>1, <2>2, <2>6, <4>1 DEF DlWaits
    <3>3. DlSame(v.last, v.rd, v.tbl)'
      BY <1>1, <3>1, <3>2, DlTableStays DEF DlInStep
    <3>4. ~erred' => v.last = v.at
      BY <2>4, <3>2 DEF DlInStep, DlSame, DlTells
    <3>5. DlUnderWay(v)'
      BY <1>1, <2>3, <2>4, <3>3, <3>4 DEF DlUnderWay, DlInStep
    <3>6. v.over \/ DlBoard(v)'
      BY <3>5 DEF DlBoard
    <3>7. DlPath(V, up', call.inc, erred) /\ v = V[Len(up')]
      BY <1>3, <1>4, <3>1
    <3> QED
      BY <1>1, <3>6, <3>7, DlReadsOn
  <2> QED
    BY <2>5, <2>6
<1>6. CASE v.over
  <2>1. CASE up' = up
    <3>1. DlPath(V, up', call.inc, erred) /\ v = V[Len(up')]
      BY <1>3, <1>4, <2>1
    <3>2. v.over \/ DlBoard(v)'
      BY <1>6
    <3> QED
      BY <1>1, <3>1, <3>2, DlReadsOn
  <2>2. CASE up' # up
    <3>1. PICK c : up' = Append(up, c)
      BY <2>2 DEF Link!ExecRead
    <3> QED
      BY <1>1, <1>3, <1>4, <1>6, <3>1, DlOverSends
  <2> QED
    BY <2>1, <2>2
<1> QED
  BY <1>5, <1>6

LEMMA DlBack ==
  ASSUME NEW a \in DlSlot, NEW k \in 1 .. T - 1
  PROVE  (a - k) % T = (IF k <= a THEN a - k ELSE a - k + T) /\ (a - k) % T \in DlSlot
<1>1. T \in Nat /\ T > 1
  BY TAssumption
<1>2. CASE k <= a
  <2>1. a - k \in 0 .. T - 1
    BY <1>1, <1>2 DEF DlSlot
  <2> QED
    BY <1>1, <1>2, <2>1, SmallMod DEF DlSlot
<1>3. CASE ~(k <= a)
  <2>1. PICK x \in Int : x = a - k
    BY <1>1 DEF DlSlot
  <2>2. x \in -T .. -1 /\ x + T \in 0 .. T - 1
    BY <1>1, <1>3, <2>1 DEF DlSlot
  <2>3. x % T = x + T
    BY <1>1, <2>2
  <2> QED
    BY <1>3, <2>1, <2>2, <2>3 DEF DlSlot
<1> QED
  BY <1>2, <1>3

\* A word enters both tables at the same place.
LEMMA DlTableGrows ==
  ASSUME DlTypes, NEW v, DlSame(v.last, v.rd, v.tbl), NEW x, NEW last, o_wb_addr' = last,
         compression_tbl' = [compression_tbl EXCEPT ![tbl_addr] = x],
         tbl_addr' = (tbl_addr + 1) % T, tbl_filled' <=> (tbl_filled \/ tbl_addr = T - 1)
  PROVE  DlSame(last, (v.rd + 1) % T, [v.tbl EXCEPT ![v.rd] = x])'
<1>0. CASE ReadsBack
  BY <1>0 DEF DlSame
<1> SUFFICES ASSUME ~ReadsBack
             PROVE  DlSame(last, (v.rd + 1) % T, [v.tbl EXCEPT ![v.rd] = x])'
  BY <1>0
<1>1. T \in Nat /\ T > 1 /\ tbl_addr \in DlSlot /\ v.rd = tbl_addr
  BY TAssumption DEF DlTypes, DlSame, DlAgree
<1>2. PICK a \in Nat : a = tbl_addr'
  <2>1. tbl_addr + 1 \in Nat
    BY <1>1 DEF DlSlot
  <2> QED
    BY <1>1, <2>1
<1>3. a = IF tbl_addr = T - 1 THEN 0 ELSE tbl_addr + 1
  <2>1. CASE tbl_addr = T - 1
    <3>1. tbl_addr + 1 = T /\ T % T = 0
      BY <1>1, <2>1
    <3> QED
      BY <1>2, <2>1, <3>1
  <2>2. CASE tbl_addr # T - 1
    <3>1. tbl_addr + 1 \in 0 .. T - 1
      BY <1>1, <2>2 DEF DlSlot
    <3> QED
      BY <1>1, <1>2, <2>2, <3>1, SmallMod
  <2> QED
    BY <2>1, <2>2
<1>4. a \in DlSlot
  BY <1>1, <1>3 DEF DlSlot
<1>5. DOMAIN v.tbl = DlSlot /\ DOMAIN compression_tbl = DlSlot
  BY DEF DlSame, DlTypes
<1> DEFINE tbl == [v.tbl EXCEPT ![v.rd] = x]
<1>6. ASSUME NEW k \in 1 .. T - 1, Link!Valid(k)'
      PROVE  tbl[(a - k) % T] = compression_tbl'[(a - k) % T]
  <2>1. PICK s \in DlSlot : s = (a - k) % T
    BY <1>4, DlBack
  <2>2. s = (IF k <= a THEN a - k ELSE a - k + T)
    BY <1>4, <2>1, DlBack
  <2>3. CASE s = tbl_addr
    BY <1>1, <1>5, <2>1, <2>3
  <2>4. CASE s # tbl_addr
    <3>1. k - 1 \in 1 .. T - 1
      BY <1>1, <1>3, <2>2, <2>4 DEF DlSlot
    <3>2. PICK m \in 1 .. T - 1 : m = k - 1
      BY <3>1
    <3>3. (tbl_addr - m) % T = (IF m <= tbl_addr THEN tbl_addr - m ELSE tbl_addr - m + T)
      BY <1>1, DlBack
    <3>4. s = (tbl_addr - m) % T
      BY <1>1, <1>3, <2>2, <3>2, <3>3 DEF DlSlot
    <3>5. tbl_filled \/ m <= tbl_addr
      <4>1. tbl_filled \/ tbl_addr = T - 1 \/ k <= a
        BY <1>2, <1>6 DEF Link!Valid
      <4> QED
        BY <1>1, <1>3, <3>2, <4>1 DEF DlSlot
    <3>6. v.tbl[s] = compression_tbl[s]
      BY <3>4, <3>5 DEF DlSame, DlAgree, Link!Valid
    <3>7. tbl[s] = v.tbl[s] /\ compression_tbl'[s] = compression_tbl[s]
      BY <1>1, <1>5, <2>4
    <3> QED
      BY <2>1, <3>6, <3>7
  <2> QED
    BY <2>3, <2>4
<1>7. DOMAIN tbl = DlSlot
  BY <1>5
<1>8. last = o_wb_addr' /\ (v.rd + 1) % T = tbl_addr'
  BY <1>1
<1>9. \A k \in 1 .. T - 1 : Link!Valid(k)' => tbl[(tbl_addr' - k) % T] = compression_tbl'[(tbl_addr' - k) % T]
  BY <1>2, <1>6
<1> QED
  BY <1>7, <1>8, <1>9 DEF DlSame, DlAgree, DlSlot

\* The first of m strides leaves room for the others.
LEMMA DlStride ==
  ASSUME NEW x \in Nat, NEW z \in {0, 1}, NEW m \in Nat, NEW t \in Int, m >= 1, x + z * m <= t
  PROVE  x + z <= t /\ (x + z) + z * (m - 1) <= t
<1>1. CASE z = 0
  <2>1. 0 * m = 0 /\ 0 * (m - 1) = 0
    OBVIOUS
  <2> QED
    BY <1>1, <2>1
<1>2. CASE z = 1
  <2>1. 1 * m = m /\ 1 * (m - 1) = m - 1
    OBVIOUS
  <2> QED
    BY <1>2, <2>1
<1> QED
  BY <1>1, <1>2

\* A word of the read is sent, whole or by its place.
LEMMA DlReadsWord ==
  ASSUME DlTypes, NEW V, DlReads(V), DlTells, Link!ReadStep
  PROVE  (\E U : DlReads(U))'
<1>1. /\ DlHostStays /\ wb_state = "reading" /\ down' = down /\ o_wb_addr \in Mapped
      /\ o_wb_addr' = (o_wb_addr + r_inc) % BusSpace /\ r_inc' = r_inc /\ r_len' = r_len - 1
      /\ wb_state' = (IF r_len = 1 THEN "idle" ELSE "reading") /\ r_new_addr' = r_new_addr
  BY DEF Link!ReadStep, DlHostStays, Link!host
<1>2. PICK x \in Word : Link!WordRead(x)
  BY DEF Link!ReadStep
<1>3. PICK v : v = V[Len(up)] /\ (v.over \/ DlBoard(v))
  BY DEF DlReads
<1>4. DlPath(V, up, call.inc, erred)
  BY DEF DlReads
<1>5. CASE v.over
  <2>1. PICK c : up' = Append(up, c)
    BY <1>2 DEF Link!WordRead
  <2> QED
    BY <1>1, <1>3, <1>5, <2>1, DlOverSends
<1>6. CASE ~v.over
  <2>1. DlUnderWay(v)
    BY <1>1, <1>3, <1>6 DEF DlBoard, DlWaits, DlAnswered
  <2>2. PICK o \in Nat, inc \in {0, 1}, n \in Nat, a \in Nat :
           o = o_wb_addr /\ inc = call.inc /\ n = v.left /\ a = v.at
    <3>1. call.inc \in {0, 1} /\ v.left \in Nat /\ v.at \in Nat
      BY <2>1 DEF DlTypes, DlUnderWay
    <3>2. o_wb_addr \in Nat
      BY <1>1, TopAssumption, MappedAssumption
    <3> QED
      BY <3>1, <3>2
  <2>3. /\ n >= 1 /\ r_len = n /\ r_inc = inc /\ ~r_new_addr /\ DlSame(v.last, v.rd, v.tbl)
        /\ down = << >> /\ (~erred => v.last = v.at) /\ v.last = o
        /\ a + inc * n <= Top
    BY <2>1, <2>2 DEF DlUnderWay, DlInStep, DlSame
  <2>4. o_wb_addr' = (o + inc) % BusSpace /\ o \in 0 .. BusSpace - 1
    BY <1>1, <2>2, <2>3, MappedAssumption
  <2> DEFINE next == (o + inc) % BusSpace
  <2>5. a + inc <= Top /\ (a + inc) + inc * (n - 1) <= Top
    <3>1. Top \in Int
      BY TopAssumption
    <3> QED
      BY <2>2, <2>3, <3>1, DlStride
  <2>6. o = a => next = a + inc
    <3>1. Top \in Nat /\ BusSpace \in Nat \ {0} /\ BusSpace > Top
      BY TopAssumption
    <3>2. a + inc \in 0 .. BusSpace - 1
      BY <2>2, <2>5, <3>1
    <3> QED
      BY <3>1, <3>2, SmallMod
  <2> HIDE DEF next
  <2>7. PICK ok \in BOOLEAN : ok <=> v.ok /\ o = v.at
    OBVIOUS
  <2>8. ASSUME NEW w, NEW c, up' = Append(up, c), DlTook(v, c, w, call.inc, erred), ~w.over,
               w.last = next, w.left = n - 1, w.at = a + inc, DlSame(w.last, w.rd, w.tbl)'
        PROVE  (\E U : DlReads(U))'
    <3>1. DlPushed(up, up', c)
      BY <2>8, DlSendsOne
    <3>2. PICK t : t = up'
      OBVIOUS
    <3>3. DlSends(V, up, t, c, w, call.inc, erred)
      BY <1>3, <1>4, <2>8, <3>1, <3>2 DEF DlSends
    <3>4. PICK W : DlPath(W, t, call.inc, erred) /\ W[0] = V[0] /\ W[Len(t)] = w
      BY <3>3, DlPathPushes
    <3>5. w.last = next /\ w.left = n - 1 /\ w.at = a + inc /\ n >= 1 /\ r_len = n
          /\ w.at + inc * w.left <= Top
      BY <2>3, <2>8, <2>5
    <3>6. w.at \in Nat /\ w.left \in Nat /\ (~erred' => w.last = w.at)
      <4>1. a + inc \in Nat /\ n - 1 \in Nat
        BY <3>5
      <4>2. ~erred => next = a + inc
        BY <2>2, <2>3, <2>6
      <4>3. ~erred' => ~erred
        BY DEF DlTells
      <4> QED
        BY <3>5, <4>1, <4>2, <4>3
    <3>7. r_len' = n - 1 /\ r_inc' = call'.inc /\ r_new_addr' = r_new_addr /\ down' = << >>
      BY <1>1, <2>2, <2>3 DEF DlHostStays
    <3>8. DlInStep(w)'
      BY <2>3, <2>8, <3>7 DEF DlInStep
    <3>9. CASE n = 1
      <4>1. w.left = 0 /\ wb_state' = "idle"
        BY <1>1, <3>5, <3>9
      <4>2. DlAnswered(w)'
        BY <3>6, <3>7, <3>8, <4>1 DEF DlAnswered
      <4>3. w.over \/ DlBoard(w)'
        BY <4>2 DEF DlBoard
      <4>4. DlPath(W, up', call.inc, erred) /\ w = W[Len(up')]
        BY <3>2, <3>4
      <4> QED
        BY <1>1, <3>4, <4>3, <4>4, DlReadsOn
    <3>10. CASE n # 1
      <4>1. r_len' = w.left
        BY <3>5, <3>7
      <4>2. w.left \in Nat \ {0} /\ wb_state' = "reading"
        BY <1>1, <3>5, <3>10
      <4>3. w.at + call'.inc * w.left <= Top
        BY <1>1, <2>2, <3>5 DEF DlHostStays
      <4>4. DlUnderWay(w)'
        BY <3>6, <3>7, <3>8, <4>1, <4>2, <4>3 DEF DlUnderWay
      <4>5. w.over \/ DlBoard(w)'
        BY <4>4 DEF DlBoard
      <4>6. DlPath(W, up', call.inc, erred) /\ w = W[Len(up')]
        BY <3>2, <3>4
      <4> QED
        BY <1>1, <3>4, <4>5, <4>6, DlReadsOn
    <3> QED
      BY <3>9, <3>10
  <2>9. CASE /\ up' = Append(up, [kind |-> "raw", at |-> o_wb_addr, val |-> x, inc |-> r_inc, sent |-> x])
             /\ compression_tbl' = [compression_tbl EXCEPT ![tbl_addr] = x]
             /\ tbl_addr' = (tbl_addr + 1) % T
             /\ tbl_filled' = (tbl_filled \/ tbl_addr = T - 1)
    <3>1. PICK w, c :
             /\ w = [last |-> next, at |-> a + inc, left |-> n - 1, ok |-> ok,
                     rd |-> (v.rd + 1) % T, tbl |-> [v.tbl EXCEPT ![v.rd] = x], over |-> FALSE]
             /\ c = [kind |-> "raw", at |-> o, val |-> x, inc |-> inc, sent |-> x]
      OBVIOUS
    <3>2. DlTook(v, c, w, call.inc, erred)
      BY <1>6, <2>2, <2>3, <2>4, <2>7, <3>1
      DEF next, DlTook, DlErrors, DlWords, DlAck, DlAddr, DlWordAt, DlRaw, DlTbl
    <3>3. tbl_filled' <=> (tbl_filled \/ tbl_addr = T - 1)
      BY <2>9
    <3>4. DlSame(next, (v.rd + 1) % T, [v.tbl EXCEPT ![v.rd] = x])'
      BY <2>3, <2>4, <2>9, <3>3, DlTableGrows DEF next
    <3>5. ~w.over /\ w.last = next /\ w.left = n - 1 /\ w.at = a + inc
          /\ w.rd = (v.rd + 1) % T /\ w.tbl = [v.tbl EXCEPT ![v.rd] = x]
      BY <3>1
    <3>6. DlSame(w.last, w.rd, w.tbl)'
      BY <3>4, <3>5
    <3>7. up' = Append(up, c)
      BY <2>2, <2>3, <2>9, <3>1
    <3> QED
      BY <2>8, <3>2, <3>5, <3>6, <3>7
  <2>10. CASE \E k \in 1 .. T - 1 :
              /\ Link!Valid(k) /\ compression_tbl[(tbl_addr - k) % T] = x
              /\ up' = Append(up, [kind |-> "tbl", at |-> o_wb_addr, val |-> x, inc |-> r_inc, sent |-> k])
              /\ tbl_addr' = tbl_addr /\ tbl_filled' = tbl_filled /\ compression_tbl' = compression_tbl
    <3>1. PICK k \in 1 .. T - 1 :
              /\ Link!Valid(k) /\ compression_tbl[(tbl_addr - k) % T] = x
              /\ up' = Append(up, [kind |-> "tbl", at |-> o_wb_addr, val |-> x, inc |-> r_inc, sent |-> k])
      BY <2>10
    <3>2. PICK w, c :
             /\ w = [last |-> next, at |-> a + inc, left |-> n - 1, ok |-> ok,
                     rd |-> v.rd, tbl |-> v.tbl, over |-> FALSE]
             /\ c = [kind |-> "tbl", at |-> o, val |-> x, inc |-> inc, sent |-> k]
      OBVIOUS
    <3>3. ReadsBack \/ v.tbl[(v.rd - k) % T] = x
      BY <2>3, <3>1 DEF DlSame, DlAgree
    <3>4. DlTook(v, c, w, call.inc, erred)
      BY <1>6, <2>2, <2>3, <2>4, <2>7, <3>2, <3>3
      DEF next, DlTook, DlErrors, DlWords, DlAck, DlAddr, DlWordAt, DlRaw, DlTbl
    <3>5. ~w.over /\ w.last = next /\ w.left = n - 1 /\ w.at = a + inc
          /\ w.rd = v.rd /\ w.tbl = v.tbl
      BY <3>2
    <3>6. DlSame(w.last, w.rd, w.tbl)'
      BY <2>3, <2>4, <2>10, <3>5 DEF next, DlSame, DlAgree, Link!Valid
    <3>7. up' = Append(up, c)
      BY <2>2, <2>3, <3>1, <3>2
    <3> QED
      BY <2>8, <3>4, <3>5, <3>6, <3>7
  <2> QED
    BY <1>2, <2>9, <2>10 DEF Link!WordRead, Link!table
<1> QED
  BY <1>5, <1>6

LEMMA DlBoardTypes ==
  ASSUME DlTypes, Link!Board, DlTells
  PROVE  DlTypes'
<1>1. DlHostStays
  BY DEF Link!Board, Link!ExecAddr, Link!ExecWrite, Link!Flush, Link!ExecEow, Link!ExecRead,
     Link!ReadStep, Link!ReadError, Link!OutOfStep, Link!host, DlHostStays
<1>2. IsSeq(up')
  <2>1. \/ up' = up
        \/ \E c : up' = Append(up, c)
        \/ \E c, b : up' = up \o <<c, b>>
    BY DEF Link!Board, Link!ExecAddr, Link!ExecWrite, Link!Flush, Link!ExecEow, Link!ExecRead,
       Link!ReadStep, Link!WordRead, Link!ReadError, Link!OutOfStep
  <2>2. CASE up' = up
    BY <2>2 DEF DlTypes
  <2>3. ASSUME NEW c, up' = Append(up, c) PROVE IsSeq(up')
    BY <2>3, DlSendsOne DEF DlPushed
  <2>4. ASSUME NEW c, NEW b, up' = up \o <<c, b>> PROVE IsSeq(up')
    BY <2>4, DlSendsTwo DEF DlPushed
  <2> QED
    BY <2>1, <2>2, <2>3, <2>4
<1>3. IsSeq(down')
  <2>1. \/ down' = down
        \/ down # << >> /\ down' = Tail(down)
        \/ \E k \in 0 .. Len(down) : down' = SubSeq(down, k + 1, Len(down))
    BY DEF Link!Board, Link!ExecAddr, Link!ExecWrite, Link!Flush, Link!ExecEow, Link!ExecRead,
       Link!ReadStep, Link!ReadError, Link!OutOfStep, Link!Command
  <2>2. CASE down' = down
    BY <2>2 DEF DlTypes
  <2>3. CASE down # << >> /\ down' = Tail(down)
    BY <2>3, DlPop DEF DlTypes, DlPopped
  <2>4. ASSUME NEW k \in 0 .. Len(down), down' = SubSeq(down, k + 1, Len(down)) PROVE IsSeq(down')
    <3>1. PICK S : down \in Seq(S)
      BY DEF DlTypes, IsSeq
    <3>2. Len(down) \in Nat
      BY <3>1
    <3>3. down' \in Seq(S)
      BY <2>4, <3>1, <3>2
    <3> QED
      BY <3>3 DEF IsSeq
  <2> QED
    BY <2>1, <2>2, <2>3, <2>4
<1>4. tbl_addr' \in DlSlot /\ DOMAIN compression_tbl' = DlSlot /\ tbl_filled' \in BOOLEAN
  <2>1. CASE Link!ReadStep
    <3>1. PICK x \in Word : Link!WordRead(x)
      BY <2>1 DEF Link!ReadStep
    <3>2. CASE tbl_addr' = tbl_addr /\ tbl_filled' = tbl_filled /\ compression_tbl' = compression_tbl
      BY <3>2 DEF DlTypes
    <3>3. CASE /\ compression_tbl' = [compression_tbl EXCEPT ![tbl_addr] = x]
               /\ tbl_addr' = (tbl_addr + 1) % T
               /\ tbl_filled' = (tbl_filled \/ tbl_addr = T - 1)
      <4>1. PICK n \in Nat : n = tbl_addr
        BY DEF DlTypes, DlSlot
      <4>2. (n + 1) % T \in 0 .. T - 1
        BY <4>1, TAssumption
      <4>3. tbl_filled' \in BOOLEAN
        BY <3>3, ZenonT(30) DEF DlTypes
      <4> QED
        BY <3>3, <4>1, <4>2, <4>3 DEF DlTypes, DlSlot
    <3> QED
      BY <3>1, <3>2, <3>3 DEF Link!WordRead, Link!table
  <2>2. CASE Link!ExecRead
    <3>1. 0 \in DlSlot
      BY TAssumption DEF DlSlot
    <3> QED
      BY <2>2, <3>1 DEF Link!ExecRead, DlTypes
  <2>3. CASE ~Link!ReadStep /\ ~Link!ExecRead
    BY <2>3 DEF Link!Board, Link!ExecAddr, Link!ExecWrite, Link!Flush, Link!ExecEow,
       Link!ReadError, Link!OutOfStep, Link!table, DlTypes
  <2> QED
    BY <2>1, <2>2, <2>3
<1>5. r_new_addr' \in BOOLEAN
  <2>1. CASE Link!OutOfStep
    BY <2>1, ZenonT(30) DEF Link!OutOfStep, DlTypes
  <2>2. CASE ~Link!OutOfStep
    BY <2>2 DEF Link!Board, Link!ExecAddr, Link!ExecWrite, Link!Flush, Link!ExecEow, Link!ExecRead,
       Link!ReadStep, Link!ReadError, DlTypes
  <2> QED
    BY <2>1, <2>2
<1> QED
  BY <1>1, <1>2, <1>3, <1>4, <1>5 DEF DlTypes, DlTells, DlHostStays

\* While no read is asked for, the board acknowledges or fails.
LEMMA DlBoardQuiet ==
  ASSUME DlTypes, DlQuiet, Link!Board
  PROVE  DlQuiet'
<1>1. ~Link!ExecRead /\ ~Link!ReadStep /\ ~Link!ReadError
  <2>1. ~Link!ReadStep /\ ~Link!ReadError
    BY DEF DlQuiet, Link!ReadStep, Link!ReadError
  <2>2. ASSUME Link!Command("read") PROVE FALSE
    <3>1. DlPopped(down, down') /\ down[1].op = "read"
      BY <2>2, DlTakesCommand
    <3>2. 1 \in 1 .. Len(down)
      BY <3>1 DEF DlPopped
    <3> QED
      BY <3>1, <3>2 DEF DlQuiet
  <2> QED
    BY <2>1, <2>2 DEF Link!ExecRead
<1>2. wb_state' # "reading"
  BY <1>1 DEF Link!Board, Link!ExecAddr, Link!ExecWrite, Link!Flush, Link!ExecEow, Link!OutOfStep,
     DlQuiet
<1>3. \A j \in 1 .. Len(down') : down'[j].op # "read"
  <2>1. PICK op : Link!Command(op)
    BY <1>1 DEF Link!Board, Link!ExecAddr, Link!ExecWrite, Link!Flush, Link!ExecEow, Link!OutOfStep
  <2>2. DlPopped(down, down')
    BY <2>1, DlTakesCommand
  <2>3. ASSUME NEW j \in 1 .. Len(down') PROVE down'[j].op # "read"
    <3>1. j + 1 \in 1 .. Len(down) /\ down'[j] = down[j + 1]
      BY <2>2 DEF DlPopped
    <3> QED
      BY <3>1 DEF DlQuiet
  <2> QED
    BY <2>3
<1>4. \A i \in 1 .. Len(up') : up'[i].kind \in {"ack"} \cup DlErrors
  <2>1. \/ up' = up
        \/ \E c : up' = Append(up, c) /\ c.kind \in {"ack"} \cup DlErrors
        \/ \E c, b : up' = up \o <<c, b>> /\ {c.kind, b.kind} \subseteq {"ack"} \cup DlErrors
    <3>1. Link!Told("ack").kind \in {"ack"} \cup DlErrors /\ Link!Told("err").kind \in {"ack"} \cup DlErrors
      BY DEF Link!Told, DlErrors
    <3>2. CASE up' = up \o <<Link!Told("ack"), Link!Told("err")>>
      BY <3>1, <3>2
    <3>3. CASE up' # up \o <<Link!Told("ack"), Link!Told("err")>>
      BY <1>1, <3>1, <3>3 DEF Link!Board, Link!ExecAddr, Link!ExecWrite, Link!Flush, Link!ExecEow,
         Link!OutOfStep
    <3> QED
      BY <3>2, <3>3
  <2>2. CASE up' = up
    BY <2>2 DEF DlQuiet
  <2>3. ASSUME NEW c, up' = Append(up, c), c.kind \in {"ack"} \cup DlErrors,
               NEW i \in 1 .. Len(up')
        PROVE  up'[i].kind \in {"ack"} \cup DlErrors
    <3>1. DlPushed(up, up', c)
      BY <2>3, DlSendsOne
    <3>2. i = Len(up') \/ i \in 1 .. Len(up)
      BY <3>1 DEF DlPushed
    <3> QED
      BY <2>3, <3>1, <3>2 DEF DlPushed, DlQuiet
  <2>4. ASSUME NEW c, NEW b, up' = up \o <<c, b>>, {c.kind, b.kind} \subseteq {"ack"} \cup DlErrors,
               NEW i \in 1 .. Len(up')
        PROVE  up'[i].kind \in {"ack"} \cup DlErrors
    <3>1. PICK t : DlPushed(up, t, c) /\ DlPushed(t, up', b)
      BY <2>4, DlSendsTwo
    <3>2. i = Len(up') \/ i = Len(t) \/ i \in 1 .. Len(up)
      BY <3>1 DEF DlPushed
    <3>3. i # Len(up') => i \in 1 .. Len(t) /\ up'[i] = t[i]
      BY <3>1, <3>2 DEF DlPushed
    <3>4. i \in 1 .. Len(up) => i \in 1 .. Len(t) /\ t[i] = up[i] /\ i # Len(up')
      BY <3>1 DEF DlPushed
    <3> QED
      BY <2>4, <3>1, <3>2, <3>3, <3>4 DEF DlPushed, DlQuiet
  <2> QED
    BY <2>1, <2>2, <2>3, <2>4
<1> QED
  BY <1>2, <1>3, <1>4 DEF DlQuiet

LEMMA DlBoardReads ==
  ASSUME DlTypes, NEW V, DlReads(V), Link!Board, DlTells, ~(ReadsBack /\ erred),
         ~erred /\ down # << >> /\ Head(down).op = "read" => o_wb_addr = call.at
  PROVE  (\E U : DlReads(U))'
<1>1. DlHostStays
  BY DEF Link!Board, Link!ExecAddr, Link!ExecWrite, Link!Flush, Link!ExecEow, Link!ExecRead,
     Link!ReadStep, Link!ReadError, Link!OutOfStep, Link!host, DlHostStays
<1>2. CASE Link!ExecAddr
  <2>1. up' = up /\ Link!Command("addr") /\ wb_state' # "reading" /\ r_new_addr'
    BY <1>2 DEF Link!ExecAddr
  <2> QED
    BY <1>1, <2>1, DlReadsQuiet
<1>3. CASE Link!Flush
  <2>1. up' = up /\ Link!Command("write") /\ wb_state' # "reading"
    BY <1>3 DEF Link!Flush
  <2> QED
    BY <1>1, <2>1, DlReadsQuiet
<1>4. CASE Link!ExecEow
  <2>1. up' = up /\ Link!Command("eow") /\ wb_state' # "reading"
    BY <1>4 DEF Link!ExecEow
  <2> QED
    BY <1>1, <2>1, DlReadsQuiet
<1>5. CASE Link!ExecWrite
  <2>1. PICK c, b : c = Link!Told("ack") /\ b = Link!Told("err")
    OBVIOUS
  <2>2. c.kind = "ack" /\ b.kind \in DlErrors
    BY <2>1 DEF Link!Told, DlErrors
  <2>3. /\ Link!Command("write") /\ wb_state' # "reading" /\ down # << >>
        /\ up' = Append(up, c) \/ up' = up \o <<c, b>>
    BY <1>5, <2>1 DEF Link!ExecWrite, Link!Command
  <2>4. CASE up' = Append(up, c)
    BY <1>1, <2>2, <2>3, <2>4, DlReadsAck
  <2>5. CASE up' = up \o <<c, b>>
    BY <1>1, <2>2, <2>3, <2>5, DlReadsFail
  <2> QED
    BY <2>3, <2>4, <2>5
<1>6. CASE Link!ExecRead
  <2>1. down # << >> /\ Head(down).op = "read"
    BY <1>6 DEF Link!ExecRead, Link!Command
  <2> QED
    BY <1>6, <2>1, DlReadsBegin
<1>7. CASE Link!ReadStep
  BY <1>7, DlReadsWord
<1>8. CASE Link!ReadError
  <2>1. PICK c, b : c = Link!Told("err") /\ b = Link!Told("reset")
    OBVIOUS
  <2>2. c.kind \in DlErrors /\ b.kind \in DlErrors
    BY <2>1 DEF Link!Told, DlErrors
  <2>3. wb_state = "reading" /\ (up' = Append(up, c) \/ up' = up \o <<c, b>>)
    BY <1>8, <2>1 DEF Link!ReadError
  <2> QED
    BY <1>1, <2>2, <2>3, DlReadsFail
<1>9. CASE Link!OutOfStep
  <2>1. PICK c : c = Link!Told("err")
    OBVIOUS
  <2>2. c.kind \in DlErrors
    BY <2>1 DEF Link!Told, DlErrors
  <2>3. down # << >> /\ up' = Append(up, c)
    BY <1>9, <2>1 DEF Link!OutOfStep, Link!Command
  <2> QED
    BY <1>1, <2>2, <2>3, DlReadsFail
<1> QED
  BY <1>2, <1>3, <1>4, <1>5, <1>6, <1>7, <1>8, <1>9 DEF Link!Board

LEMMA DlBoardPhases ==
  ASSUME DlTypes, DlPhases, Link!Board, DlTells, ~(ReadsBack /\ erred),
         ~erred /\ call.op = "read" /\ down # << >> /\ Head(down).op = "read" => o_wb_addr = call.at
  PROVE  DlPhases'
<1>1. call' = call /\ wrote' = wrote
  BY DEF Link!Board, Link!ExecAddr, Link!ExecWrite, Link!Flush, Link!ExecEow, Link!ExecRead,
     Link!ReadStep, Link!ReadError, Link!OutOfStep, Link!host
<1>2. ~DlRests
  BY DEF DlRests, Link!Board, Link!ExecAddr, Link!ExecWrite, Link!Flush, Link!ExecEow,
     Link!ExecRead, Link!ReadStep, Link!ReadError, Link!OutOfStep, Link!Command
<1>3. (DlWrites => DlWrites') /\ (DlLost => DlLost')
  BY <1>1, DlBoardQuiet DEF DlWrites, DlLost
<1>4. call.op = "read" => (DlLost \/ \E V : DlReads(V))'
  <2>1. ASSUME call.op = "read", ~DlLost PROVE (\E V : DlReads(V))'
    <3>1. PICK V : DlReads(V)
      BY <2>1 DEF DlPhases
    <3> QED
      BY <2>1, <3>1, DlBoardReads
  <2> QED
    BY <1>3, <2>1
<1> QED
  BY <1>1, <1>2, <1>3, <1>4 DEF DlPhases

LEMMA DlConcat ==
  ASSUME NEW s, IsSeq(s), NEW t, IsSeq(t)
  PROVE  /\ IsSeq(s \o t) /\ Len(s \o t) = Len(s) + Len(t) /\ Len(s) \in Nat /\ Len(t) \in Nat
         /\ \A i \in 1 .. Len(s) : (s \o t)[i] = s[i]
         /\ \A i \in 1 .. Len(t) : (s \o t)[Len(s) + i] = t[i]
<1>1. PICK S : s \in Seq(S)
  BY DEF IsSeq
<1>2. PICK U : t \in Seq(U)
  BY DEF IsSeq
<1>3. s \in Seq(S \cup U) /\ t \in Seq(S \cup U)
  BY <1>1, <1>2, SeqMonotonic
<1> HIDE <1>1, <1>2
<1>4. s \o t \in Seq(S \cup U) /\ Len(s \o t) = Len(s) + Len(t) /\ Len(s) \in Nat /\ Len(t) \in Nat
  BY <1>3
<1>5. \A i \in 1 .. Len(s \o t) : (s \o t)[i] = IF i <= Len(s) THEN s[i] ELSE t[i - Len(s)]
  BY <1>3, ConcatProperties
<1>6. \A i \in 1 .. Len(s) : (s \o t)[i] = s[i]
  BY <1>4, <1>5
<1>7. ASSUME NEW i \in 1 .. Len(t) PROVE (s \o t)[Len(s) + i] = t[i]
  <2>1. PICK k : k = Len(s) + i
    OBVIOUS
  <2>2. k \in 1 .. Len(s \o t) /\ ~(k <= Len(s)) /\ k - Len(s) = i
    BY <1>4, <2>1
  <2> QED
    BY <1>5, <2>1, <2>2
<1> QED
  BY <1>4, <1>6, <1>7 DEF IsSeq

DlJoined(s, t, u) ==
  /\ IsSeq(u) /\ Len(u) = Len(s) + Len(t) /\ Len(s) \in Nat /\ Len(t) \in Nat
  /\ \A i \in 1 .. Len(s) : u[i] = s[i]
  /\ \A i \in 1 .. Len(t) : u[Len(s) + i] = t[i]

LEMMA DlJoin ==
  ASSUME NEW s, IsSeq(s), NEW t, IsSeq(t), NEW u, u = s \o t PROVE DlJoined(s, t, u)
BY DlConcat DEF DlJoined

\* A read is asked for, after its address unless the board is there.
LEMMA DlAsks ==
  ASSUME DlTypes, NEW a, NEW inc, NEW len, Link!ReadV(a, inc, len)
  PROVE  \E c :
           /\ c = Link!Asked(inc, len)
           /\ IsSeq(down') /\ down' # << >> /\ Len(down) \in Nat /\ Len(down') \in Nat
           /\ down'[Len(down')] = c /\ \A j \in 1 .. Len(down) : down'[j] = down[j]
           /\ \/ /\ Len(down') = Len(down) + 1 /\ m_rdaddr' = m_rdaddr
                 /\ m_addr_set /\ a = m_lastaddr /\ (ReadsBack \/ ~wrote)
              \/ /\ Len(down') = Len(down) + 2 /\ m_rdaddr' = 0
                 /\ down'[Len(down') - 1].op = "addr"
<1> DEFINE c == Link!Asked(inc, len)
           x == [op |-> "addr", code |-> Link!EncodeAddress(m_addr_set, m_lastaddr, a)]
<1>1. PICK S : down \in Seq(S)
  BY DEF DlTypes, IsSeq
<1>2. down \in Seq(S \cup {c, x})
  BY <1>1, SeqMonotonic
<1>3. PICK C, X : C = c /\ X = x
  OBVIOUS
<1>4. C = Link!Asked(inc, len) /\ X.op = "addr"
  BY <1>3
<1>5. <<c>> # << >> /\ <<x>> # << >>
  OBVIOUS
<1>6. CASE m_addr_set /\ a = m_lastaddr
  <2>1. Link!AddressSent(a) = << >>
    BY <1>6 DEF Link!AddressSent
  <2>2. down' = down \o << >> \o <<C>> /\ m_rdaddr' = m_rdaddr /\ (ReadsBack \/ ~wrote)
    BY <1>3, <2>1 DEF Link!ReadV, Link!RdAddr
  <2>3. down' = Append(down, C)
    <3>1. PICK U : down \in Seq(U) /\ C \in U
      BY <1>2, <1>3
    <3> HIDE <1>1, <1>2, <1>3
    <3>2. down \o << >> = down
      BY <3>1
    <3> QED
      BY <2>2, <3>1, <3>2, AppendIsConcat
  <2>4. DlPushed(down, down', C)
    BY <2>3, DlPush DEF DlTypes
  <2>5. down' # << >> /\ Len(down') \in Nat
    BY <2>4, EmptySeq DEF DlPushed
  <2> QED
    BY <1>4, <1>6, <2>2, <2>4, <2>5 DEF DlPushed
<1>7. CASE ~(m_addr_set /\ a = m_lastaddr)
  <2>1. Link!AddressSent(a) = <<x>>
    BY <1>7 DEF Link!AddressSent
  <2>2. down' = down \o <<X>> \o <<C>> /\ m_rdaddr' = 0
    BY <1>3, <1>5, <2>1 DEF Link!ReadV, Link!RdAddr
  <2>3. down' = Append(Append(down, X), C)
    <3>1. PICK U : down \in Seq(U) /\ C \in U /\ X \in U
      BY <1>2, <1>3
    <3> HIDE <1>1, <1>2, <1>3
    <3>2. down \o <<X>> = Append(down, X) /\ Append(down, X) \in Seq(U)
      BY <3>1, AppendIsConcat
    <3> QED
      BY <2>2, <3>1, <3>2, AppendIsConcat
  <2>4. DlPushed(down, Append(down, X), X)
    BY DlPush DEF DlTypes
  <2>5. PICK d : d = Append(down, X)
    OBVIOUS
  <2>6. DlPushed(down, d, X) /\ DlPushed(d, down', C)
    BY <2>3, <2>4, <2>5, DlPush DEF DlPushed
  <2>7. down' # << >> /\ Len(down') \in Nat
    BY <2>6, EmptySeq DEF DlPushed
  <2>8. Len(down') = Len(down) + 2 /\ Len(down') - 1 = Len(d) /\ Len(d) \in 1 .. Len(d)
    BY <2>6 DEF DlPushed
  <2>9. down'[Len(down') - 1].op = "addr"
    BY <1>4, <2>6, <2>8 DEF DlPushed
  <2>10. ASSUME NEW j \in 1 .. Len(down) PROVE down'[j] = down[j]
    <3>1. j \in 1 .. Len(d) /\ d[j] = down[j]
      BY <2>6 DEF DlPushed
    <3> QED
      BY <2>6, <3>1 DEF DlPushed
  <2> QED
    BY <1>4, <2>2, <2>6, <2>7, <2>8, <2>9, <2>10 DEF DlPushed
<1> QED
  BY <1>6, <1>7

\* When the host is in no read, none is on its way.
LEMMA DlNoReads ==
  ASSUME DlTypes, DlPhases, call.op # "read", call.op # "ended"
  PROVE  DlQuiet
<1>1. call.op \in DlOps
  BY DEF DlTypes
<1>2. DlWrites \/ DlRests
  BY <1>1 DEF DlPhases, DlOps
<1>3. CASE DlWrites
  BY <1>3 DEF DlWrites
<1>4. CASE DlRests
  <2>1. Len(up) = 0 /\ Len(down) = 0
    BY <1>4, DlLength DEF DlRests, DlTypes
  <2> QED
    BY <1>4, <2>1 DEF DlRests, DlQuiet
<1> QED
  BY <1>2, <1>3, <1>4

\* A read that the board will take for the end of a burst.
LEMMA DlStartsLost ==
  ASSUME DlTypes, DlPhases, call.op = "idle", NEW a, NEW inc, NEW len \in 1 .. MaxLen,
         Link!ReadV(a, inc, len), Link!Asked(inc, len).op # "read"
  PROVE  DlPhases'
<1>1. /\ call' = [op |-> "read", at |-> a, inc |-> inc, left |-> len, ok |-> TRUE]
      /\ up' = up /\ wb_state' = wb_state
  BY DEF Link!ReadV, Link!Call, Link!exec
<1>2. DlQuiet
  BY DlNoReads
<1>3. PICK c :
           /\ c = Link!Asked(inc, len)
           /\ IsSeq(down') /\ down' # << >> /\ Len(down) \in Nat /\ Len(down') \in Nat
           /\ down'[Len(down')] = c /\ \A j \in 1 .. Len(down) : down'[j] = down[j]
           /\ \/ /\ Len(down') = Len(down) + 1 /\ m_rdaddr' = m_rdaddr
                 /\ m_addr_set /\ a = m_lastaddr /\ (ReadsBack \/ ~wrote)
              \/ /\ Len(down') = Len(down) + 2 /\ m_rdaddr' = 0
                 /\ down'[Len(down') - 1].op = "addr"
  BY DlAsks
<1>4. ASSUME NEW j \in 1 .. Len(down') PROVE down'[j].op # "read"
  <2>1. \/ j \in 1 .. Len(down)
        \/ j = Len(down')
        \/ j = Len(down') - 1 /\ Len(down') = Len(down) + 2
    BY <1>3
  <2>2. Len(down') = Len(down) + 2 => down'[Len(down') - 1].op = "addr"
    BY <1>3
  <2> QED
    BY <1>2, <1>3, <2>1, <2>2 DEF DlQuiet
<1>5. DlQuiet'
  BY <1>1, <1>2, <1>4 DEF DlQuiet
<1>6. call'.left >= 1 /\ call'.ok /\ call'.op = "read"
  BY <1>1
<1> QED
  BY <1>5, <1>6 DEF DlLost, DlPhases

\* While codewords of writes are on their way, a read is asked for.
LEMMA DlStartsRead ==
  ASSUME DlTypes, DlTypes', DlPhases, DlTells, call.op = "idle", NEW a \in Link!Addr,
         NEW inc \in {0, 1}, NEW len \in 1 .. MaxLen, a + inc * len <= Top, Link!ReadV(a, inc, len),
         Link!Asked(inc, len).op = "read"
  PROVE  DlPhases'
<1>1. /\ call' = [op |-> "read", at |-> a, inc |-> inc, left |-> len, ok |-> TRUE]
      /\ up' = up /\ m_lastaddr' = m_lastaddr /\ m_readtbl' = m_readtbl /\ wb_state' = wb_state
      /\ r_new_addr' = r_new_addr /\ tbl_addr' = tbl_addr /\ tbl_filled' = tbl_filled
      /\ compression_tbl' = compression_tbl /\ o_wb_addr' = o_wb_addr
  BY DEF Link!ReadV, Link!Call, Link!exec, Link!table
<1>2. /\ wb_state # "reading" /\ \A i \in 1 .. Len(up) : up[i].kind \in {"ack"} \cup DlErrors
      /\ \A j \in 1 .. Len(down) : down[j].op # "read"
  BY DlNoReads DEF DlQuiet
<1>3. PICK c :
           /\ c = Link!Asked(inc, len)
           /\ IsSeq(down') /\ down' # << >> /\ Len(down) \in Nat /\ Len(down') \in Nat
           /\ down'[Len(down')] = c /\ \A j \in 1 .. Len(down) : down'[j] = down[j]
           /\ \/ /\ Len(down') = Len(down) + 1 /\ m_rdaddr' = m_rdaddr
                 /\ m_addr_set /\ a = m_lastaddr /\ (ReadsBack \/ ~wrote)
              \/ /\ Len(down') = Len(down) + 2 /\ m_rdaddr' = 0
                 /\ down'[Len(down') - 1].op = "addr"
  BY DlAsks
<1>0. c.op = "read" /\ c.inc = inc /\ c.len = len
  BY <1>3 DEF Link!Asked
<1>4. a \in Nat /\ len \in Nat \ {0}
  BY TopAssumption, MaxLenAssumption DEF Link!Addr
<1>5. PICK q :
        q = [last |-> m_lastaddr, at |-> a, left |-> len, ok |-> TRUE, rd |-> m_rdaddr',
             tbl |-> m_readtbl, over |-> FALSE]
  OBVIOUS
<1>6. /\ q.last = m_lastaddr /\ q.at = a /\ q.left = len /\ q.ok = TRUE /\ q.rd = m_rdaddr'
      /\ q.tbl = m_readtbl /\ q.over = FALSE
  BY <1>5
<1> DEFINE gone(i) == \E k \in 1 .. i : up[k].kind \in DlErrors
           V == [i \in Nat |-> IF gone(i) THEN [over |-> TRUE] ELSE q]
<1>7. Len(up) \in Nat
  BY DlLength DEF DlTypes
<1>8. V[0] = q
  <2>1. ~gone(0)
    OBVIOUS
  <2> QED
    BY <2>1
<1>9. ASSUME NEW i \in 1 .. Len(up) PROVE DlTook(V[i - 1], up[i], V[i], inc, erred')
  <2>1. i \in Nat /\ i - 1 \in Nat /\ i \in 1 .. i
    BY <1>7
  <2>2. gone(i) <=> gone(i - 1) \/ up[i].kind \in DlErrors
    <3>1. \A k \in 1 .. i : k \in 1 .. i - 1 \/ k = i
      BY <2>1
    <3>2. \A k \in 1 .. i - 1 : k \in 1 .. i
      BY <2>1
    <3> QED
      BY <2>1, <3>1, <3>2
  <2>3. /\ gone(i) => V[i].over
        /\ ~gone(i) => V[i] = q
        /\ gone(i - 1) => V[i - 1].over
        /\ ~gone(i - 1) => V[i - 1] = q
    BY <2>1
  <2>4. PICK g1, g2, v, w : g1 = gone(i - 1) /\ g2 = gone(i) /\ v = V[i - 1] /\ w = V[i]
    OBVIOUS
  <2>5. CASE gone(i - 1)
    <3>1. V[i - 1].over /\ V[i].over
      BY <2>2, <2>3, <2>5
    <3> QED
      BY <3>1 DEF DlTook
  <2>6. CASE ~gone(i - 1) /\ up[i].kind \in DlErrors
    <3>1. V[i - 1] = q /\ V[i].over
      BY <2>2, <2>3, <2>6
    <3> HIDE DEF V
    <3> QED
      BY <1>4, <1>6, <2>6, <3>1 DEF DlTook
  <2>7. CASE ~gone(i - 1) /\ up[i].kind \notin DlErrors
    <3>1. V[i - 1] = q /\ V[i] = q /\ up[i].kind = "ack"
      BY <1>2, <2>2, <2>3, <2>7
    <3> HIDE DEF V
    <3> QED
      BY <1>4, <1>6, <2>7, <3>1 DEF DlTook, DlWords, DlAck, DlAddr, DlWordAt, DlRaw, DlTbl
  <2> QED
    BY <2>5, <2>6, <2>7
<1>10. V[Len(up)].over \/ V[Len(up)] = q
  <2>1. CASE gone(Len(up))
    BY <1>7, <2>1
  <2>2. CASE ~gone(Len(up))
    BY <1>7, <2>2
  <2> QED
    BY <2>1, <2>2
<1>11. PICK W : W = V
  OBVIOUS
<1> HIDE DEF V
<1>12. W[0] = q /\ DlPath(W, up', call'.inc, erred')
  BY <1>1, <1>8, <1>9, <1>11 DEF DlPath
<1>13. DlWaits(q)'
  <2>1. /\ \A i \in 1 .. Len(up') : up'[i].kind \in {"ack"} \cup DlErrors
        /\ down' # << >> /\ q.ok /\ q.at = call'.at /\ q.at \in Nat /\ q.left \in Nat \ {0}
        /\ DOMAIN q.tbl = DlSlot /\ wb_state' # "reading" /\ q.at + call'.inc * q.left <= Top
    BY <1>1, <1>2, <1>3, <1>4, <1>6 DEF DlTypes
  <2>2. down'[Len(down')].op = "read" /\ down'[Len(down')].inc = call'.inc /\ down'[Len(down')].len = q.left
    BY <1>0, <1>1, <1>3, <1>6
  <2>3. CASE Len(down') = Len(down) + 2
    <3>1. ASSUME NEW j \in 1 .. Len(down') - 1 PROVE down'[j].op # "read"
      <4>1. j \in 1 .. Len(down) \/ j = Len(down') - 1
        BY <1>3, <2>3
      <4> QED
        BY <1>2, <1>3, <2>3, <4>1
    <3>2. Len(down') > 1 /\ q.rd = 0 /\ down'[Len(down') - 1].op = "addr"
      BY <1>3, <1>6, <2>3
    <3> QED
      BY <2>1, <2>2, <3>1, <3>2 DEF DlWaits
  <2>4. CASE Len(down') # Len(down) + 2
    <3>0. /\ Len(down') = Len(down) + 1 /\ m_rdaddr' = m_rdaddr /\ m_addr_set /\ a = m_lastaddr
          /\ (ReadsBack \/ ~wrote)
      BY <1>3, <2>4
    <3>9. CASE ReadsBack
      <4>1. ASSUME NEW j \in 1 .. Len(down') - 1 PROVE down'[j].op # "read"
        <5>1. j \in 1 .. Len(down)
          BY <1>3, <3>0
        <5> QED
          BY <1>2, <1>3, <5>1
      <4>2. q.last = q.at
        BY <1>6, <3>0
      <4> QED
        BY <2>1, <2>2, <3>9, <4>1, <4>2 DEF DlWaits
    <3> SUFFICES ASSUME ~ReadsBack PROVE DlWaits(q)'
      BY <3>9
    <3>1. Len(down') = Len(down) + 1 /\ m_rdaddr' = m_rdaddr /\ m_addr_set /\ ~wrote
      BY <3>0
    <3>2. DlRests
      BY <3>1 DEF DlPhases, DlWrites
    <3>3. Len(down) = 0
      BY <3>2, DlLength DEF DlRests, DlTypes
    <3>4. Len(down') = 1 /\ 1 .. Len(down') - 1 = {}
      BY <3>1, <3>3
    <3>5. DlSame(m_lastaddr, m_rdaddr, m_readtbl) /\ ~r_new_addr /\ wb_state = "idle"
      BY <3>1, <3>2 DEF DlRests
    <3>6. DlSame(q.last, q.rd, q.tbl)
      BY <1>6, <3>1, <3>5
    <3>7. DlSame(q.last, q.rd, q.tbl)'
      BY <1>1, <3>6, DlTableStays
    <3>8. DlInStep(q)'
      BY <1>1, <3>5, <3>7 DEF DlInStep
    <3> QED
      BY <1>1, <2>1, <2>2, <3>4, <3>5, <3>8 DEF DlWaits
  <2> QED
    BY <2>3, <2>4
<1>14. PICK v : v = W[Len(up)]
  OBVIOUS
<1>15. v.over \/ DlBoard(v)'
  BY <1>10, <1>11, <1>13, <1>14 DEF DlBoard
<1>16. DlKnows(q)'
  BY <1>1, <1>6 DEF DlKnows
<1>17. DlReads(W)'
  BY <1>1, <1>12, <1>14, <1>15, <1>16 DEF DlReads
<1> QED
  BY <1>1, <1>17 DEF DlPhases

LEMMA DlStartsWrite ==
  ASSUME DlTypes, DlPhases, call.op = "idle", NEW a, NEW inc, NEW len, Link!WriteV(a, inc, len)
  PROVE  DlPhases' /\ IsSeq(down')
<1>1. /\ call' = [op |-> "write", at |-> a, inc |-> inc, left |-> len, ok |-> TRUE]
      /\ up' = up /\ wb_state' = wb_state /\ wrote' = TRUE /\ down' = down \o Link!AddressSent(a)
  BY DEF Link!WriteV, Link!Call, Link!exec
<1>2. /\ wb_state # "reading" /\ \A i \in 1 .. Len(up) : up[i].kind \in {"ack"} \cup DlErrors
      /\ \A j \in 1 .. Len(down) : down[j].op # "read"
  BY DlNoReads DEF DlQuiet
<1>3. PICK t : t = Link!AddressSent(a)
  OBVIOUS
<1>4. IsSeq(t) /\ \A i \in 1 .. Len(t) : t[i].op # "read"
  <2>1. PICK x : x = [op |-> "addr", code |-> Link!EncodeAddress(m_addr_set, m_lastaddr, a)]
    OBVIOUS
  <2>2. t = << >> \/ t = <<x>>
    BY <1>3, <2>1 DEF Link!AddressSent
  <2>3. t \in Seq({x}) /\ \A i \in 1 .. Len(t) : t[i] = x
    <3>1. CASE t = << >>
      BY <3>1
    <3>2. CASE t = <<x>>
      BY <3>2
    <3> QED
      BY <2>2, <3>1, <3>2
  <2>4. x.op # "read"
    BY <2>1
  <2> QED
    BY <2>3, <2>4 DEF IsSeq
<1>5. IsSeq(down') /\ \A j \in 1 .. Len(down') : down'[j].op # "read"
  <2>1. DlJoined(down, t, down \o t)
    <3>1. IsSeq(down) /\ IsSeq(t)
      BY <1>4 DEF DlTypes
    <3> QED
      BY <3>1, DlJoin
  <2>2. ASSUME NEW j \in 1 .. Len(down \o t) PROVE (down \o t)[j].op # "read"
    <3>1. CASE j \in 1 .. Len(down)
      BY <1>2, <2>1, <3>1 DEF DlJoined
    <3>2. CASE j \notin 1 .. Len(down)
      <4>1. PICK i \in 1 .. Len(t) : j = Len(down) + i
        <5>1. j - Len(down) \in 1 .. Len(t) /\ j = Len(down) + (j - Len(down))
          BY <2>1, <3>2 DEF DlJoined
        <5> QED
          BY <5>1
      <4> QED
        BY <1>4, <2>1, <4>1 DEF DlJoined
    <3> QED
      BY <3>1, <3>2
  <2> QED
    BY <1>1, <1>3, <2>1, <2>2 DEF DlJoined
<1> QED
  BY <1>1, <1>2, <1>5 DEF DlPhases, DlWrites, DlQuiet

\* What a block of words adds to the commands.
LEMMA DlBlock ==
  ASSUME DlTypes, Link!WriteBlock
  PROVE  \E n \in 1 .. call.left :
           /\ call.op = "write" /\ call.left \in Nat /\ n \in Nat
           /\ m_lastaddr' = m_lastaddr + n * call.inc
           /\ call' = [call EXCEPT !.op = "readidle", !.left = call.left - n, !.at = call.at + n * call.inc]
           /\ IsSeq(down') /\ Len(down) \in Nat
           /\ Len(down') = Len(down) + n \/ Len(down') = Len(down) + n + 1
           /\ \A i \in 1 .. Len(down) : down'[i] = down[i]
           /\ \A i \in 1 .. n : down'[Len(down) + i]
                = [op |-> "write", inc |-> call.inc, meant |-> call.at + call.inc * (i - 1)]
           /\ Len(down') = Len(down) + n + 1 => down'[Len(down')] = [op |-> "eow"]
<1>1. call.left \in Nat /\ MaxWr \in Nat \ {0} /\ call.op = "write" /\ call.left > 0
  BY MaxLenAssumption DEF DlTypes, Link!WriteBlock
<1>2. PICK n : n = IF call.left > MaxWr THEN MaxWr ELSE call.left
  OBVIOUS
<1>3. n \in 1 .. call.left /\ n \in Nat
  BY <1>1, <1>2
<1> DEFINE word(i) == [op |-> "write", inc |-> call.inc, meant |-> call.at + call.inc * (i - 1)]
<1>4. PICK b : b = [i \in 1 .. n |-> word(i)]
  OBVIOUS
<1>5. PICK e : e = (IF n = call.left THEN <<[op |-> "eow"]>> ELSE << >>)
  OBVIOUS
<1>6. /\ down' = down \o b \o e
      /\ m_lastaddr' = m_lastaddr + n * call.inc
      /\ call' = [call EXCEPT !.op = "readidle", !.left = call.left - n, !.at = call.at + n * call.inc]
  BY <1>2, <1>4, <1>5 DEF Link!WriteBlock, Link!Advanced
<1>7. IsSeq(b) /\ Len(b) = n /\ \A i \in 1 .. n : b[i] = word(i)
  <2>1. PICK S : S = {word(i) : i \in 1 .. n}
    OBVIOUS
  <2>2. \A i \in 1 .. n : word(i) \in S
    BY <2>1
  <2> HIDE DEF word
  <2>3. b \in Seq(S) /\ Len(b) = n /\ \A i \in 1 .. n : b[i] = word(i)
    BY <1>3, <1>4, <2>2
  <2> QED
    BY <2>3 DEF IsSeq
<1>8. PICK z : z = [op |-> "eow"]
  OBVIOUS
<1>9. IsSeq(e) /\ (Len(e) = 0 \/ (Len(e) = 1 /\ e[1] = z))
  <2>1. CASE e = << >>
    <3>1. e \in Seq({z}) /\ Len(e) = 0
      BY <2>1
    <3> QED
      BY <3>1 DEF IsSeq
  <2>2. CASE e = <<z>>
    <3>1. e \in Seq({z}) /\ Len(e) = 1 /\ e[1] = z
      BY <2>2
    <3> QED
      BY <3>1 DEF IsSeq
  <2> QED
    BY <1>5, <1>8, <2>1, <2>2
<1>10. PICK d : d = down \o b
  OBVIOUS
<1>11. IsSeq(down)
  BY DEF DlTypes
<1> HIDE DEF word
<1>12. DlJoined(down, b, d)
  BY <1>7, <1>10, <1>11, DlJoin
<1>13. DlJoined(d, e, down')
  <2>1. IsSeq(d)
    BY <1>12 DEF DlJoined
  <2> QED
    BY <1>6, <1>9, <1>10, <2>1, DlJoin
<1>14. PICK m \in Nat, l \in {0, 1} :
          /\ m = Len(down) /\ l = Len(e) /\ Len(b) = n
          /\ Len(d) = m + n /\ Len(down') = m + n + l
  <2>1. Len(down) \in Nat /\ Len(e) \in {0, 1} /\ Len(d) = Len(down) + n
        /\ Len(down') = Len(down) + n + Len(e)
    BY <1>7, <1>9, <1>12, <1>13 DEF DlJoined
  <2> QED
    BY <1>7, <2>1
<1>15. \A i \in 1 .. Len(down) : down'[i] = down[i]
  <2>1. \A i \in 1 .. m : i \in 1 .. m + n
    BY <1>3, <1>14
  <2> QED
    BY <1>12, <1>13, <1>14, <2>1 DEF DlJoined
<1>16. \A i \in 1 .. n : down'[Len(down) + i] = word(i)
  <2>1. \A i \in 1 .. n : m + i \in 1 .. m + n
    BY <1>3, <1>14
  <2>2. \A i \in 1 .. n : d[m + i] = word(i)
    BY <1>7, <1>12, <1>14 DEF DlJoined
  <2> QED
    BY <1>13, <1>14, <2>1, <2>2 DEF DlJoined
<1>17. l = 1 => down'[Len(down')] = z
  <2>1. 1 \in 1 .. 1
    OBVIOUS
  <2>2. ASSUME l = 1 PROVE down'[Len(down')] = z
    <3>1. e[1] = z /\ down'[(m + n) + 1] = e[1]
      BY <1>9, <1>13, <1>14, <2>1, <2>2 DEF DlJoined
    <3> QED
      BY <1>14, <2>2, <3>1
  <2> QED
    BY <2>2
<1>18. /\ Len(down') = Len(down) + n \/ Len(down') = Len(down) + n + 1
       /\ Len(down') = Len(down) + n + 1 => down'[Len(down')] = [op |-> "eow"]
  <2>1. m + n # m + n + 1
    BY <1>3, <1>14
  <2>2. CASE l = 0
    BY <1>3, <1>14, <2>1, <2>2
  <2>3. CASE l = 1
    BY <1>8, <1>14, <1>17, <2>3
  <2> QED
    BY <1>14, <2>2, <2>3
<1>19. IsSeq(down') /\ Len(down) \in Nat
  BY <1>13, <1>14 DEF DlJoined
<1> QED
  BY <1>1, <1>3, <1>6, <1>15, <1>16, <1>18, <1>19 DEF word

LEMMA DlSendsBlock ==
  ASSUME DlTypes, DlPhases, Link!WriteBlock
  PROVE  DlPhases'
<1>1. PICK n \in 1 .. call.left :
           /\ call.op = "write" /\ call.left \in Nat /\ n \in Nat
           /\ m_lastaddr' = m_lastaddr + n * call.inc
           /\ call' = [call EXCEPT !.op = "readidle", !.left = call.left - n, !.at = call.at + n * call.inc]
           /\ IsSeq(down') /\ Len(down) \in Nat
           /\ Len(down') = Len(down) + n \/ Len(down') = Len(down) + n + 1
           /\ \A i \in 1 .. Len(down) : down'[i] = down[i]
           /\ \A i \in 1 .. n : down'[Len(down) + i]
                = [op |-> "write", inc |-> call.inc, meant |-> call.at + call.inc * (i - 1)]
           /\ Len(down') = Len(down) + n + 1 => down'[Len(down')] = [op |-> "eow"]
  BY DlBlock
<1>2. DlWrites
  BY <1>1 DEF DlPhases
<1>3. call'.op = "readidle"
  BY <1>1 DEF DlTypes
<1>4. ASSUME NEW j \in 1 .. Len(down') PROVE down'[j].op # "read"
  <2>1. j \in 1 .. Len(down) \/ j - Len(down) \in 1 .. n
        \/ (j = Len(down') /\ Len(down') = Len(down) + n + 1)
    BY <1>1
  <2>2. CASE j \in 1 .. Len(down)
    BY <1>1, <1>2, <2>2 DEF DlWrites, DlQuiet
  <2>3. CASE j - Len(down) \in 1 .. n
    <3>1. PICK i \in 1 .. n : i = j - Len(down) /\ j = Len(down) + i
      BY <1>1, <2>3
    <3>2. down'[Len(down) + i]
            = [op |-> "write", inc |-> call.inc, meant |-> call.at + call.inc * (i - 1)]
      BY <1>1
    <3>3. down'[Len(down) + i].op = "write"
      BY <3>2
    <3> QED
      BY <3>1, <3>3
  <2>4. CASE j = Len(down') /\ Len(down') = Len(down) + n + 1
    <3>1. down'[j].op = "eow"
      BY <1>1, <2>4
    <3> QED
      BY <3>1
  <2> QED
    BY <2>1, <2>2, <2>3, <2>4
<1>5. up' = up /\ wrote' = wrote /\ wb_state' = wb_state
  BY DEF Link!WriteBlock, Link!exec
<1> QED
  BY <1>2, <1>3, <1>4, <1>5 DEF DlPhases, DlWrites, DlQuiet

\* An address that is not where it should be does not get there by a step, the
\* one past the end of the space included.
LEMMA DlWraps ==
  ASSUME NEW x \in 0 .. BusSpace - 1, NEW y \in Nat, NEW z \in {0, 1}, x # y
  PROVE  (x + z) % BusSpace # y + z
<1>1. BusSpace \in Nat \ {0}
  BY TopAssumption
<1>2. CASE x + z = BusSpace
  <2>1. z = 1 /\ (x + z) % BusSpace = 0
    BY <1>1, <1>2
  <2> QED
    BY <2>1
<1>3. CASE x + z # BusSpace
  <2>1. x + z \in 0 .. BusSpace - 1
    BY <1>1, <1>3
  <2>2. (x + z) % BusSpace = x + z
    BY <1>1, <2>1, SmallMod
  <2> QED
    BY <2>2
<1> QED
  BY <1>2, <1>3

\* readword takes a codeword: an acknowledgement or an error when the board
\* will not answer.
LEMMA DlLostTakes ==
  ASSUME DlTypes, DlPhases, ~(Catches /\ erred), DlLost, Link!ReadWord
  PROVE  DlPhases'
<1>1. /\ call.op = "read" /\ call.left > 0 /\ up # << >> /\ up' = Tail(up)
      /\ wb_state' = wb_state /\ down' = down
  BY DEF Link!ReadWord, Link!exec
<1>2. DlPopped(up, up') /\ Head(up) = up[1]
  BY <1>1, DlPop DEF DlTypes
<1>3. 1 \in 1 .. Len(up) /\ \A i \in 1 .. Len(up') : i + 1 \in 1 .. Len(up) /\ up'[i] = up[i + 1]
  BY <1>2 DEF DlPopped
<1>4. DlQuiet'
  BY <1>1, <1>3 DEF DlQuiet, DlLost
<1>5. CASE up[1].kind \in DlErrors
  <2>1. ~Catches
    BY <1>3, <1>5 DEF DlTypes
  <2>2. call' = Link!Ended
    BY <1>2, <1>5, <2>1 DEF Link!ReadWord, Link!Thrown, DlErrors
  <2>3. call'.op = "ended"
    BY <2>2 DEF Link!Ended, Link!Call
  <2> QED
    BY <2>3 DEF DlPhases
<1>6. CASE up[1].kind = "ack"
  <2>1. call' = call
    BY <1>2, <1>6 DEF Link!ReadWord
  <2> QED
    BY <1>1, <1>4, <2>1 DEF DlPhases, DlLost
<1> QED
  BY <1>3, <1>5, <1>6 DEF DlLost, DlQuiet

\* It takes one of the answer's.
LEMMA DlReadsCodeword ==
  ASSUME DlTypes, DlPhases, DlTells, ~(Catches /\ erred), ~DlLost, Link!ReadWord
  PROVE  DlPhases'
<1>1. /\ call.op = "read" /\ call.left > 0 /\ up # << >> /\ up' = Tail(up) /\ wrote' = wrote
      /\ wb_state' = wb_state /\ o_wb_addr' = o_wb_addr /\ r_new_addr' = r_new_addr
      /\ r_inc' = r_inc /\ r_len' = r_len /\ tbl_addr' = tbl_addr /\ tbl_filled' = tbl_filled
      /\ compression_tbl' = compression_tbl /\ down' = down
  BY DEF Link!ReadWord, Link!exec, Link!table
<1>2. PICK V : DlReads(V)
  BY <1>1 DEF DlPhases
<1>3. DlPopped(up, up') /\ Head(up) = up[1]
  BY <1>1, DlPop DEF DlTypes
<1>4. DlKnows(V[0]) /\ DlPath(V, up, call.inc, erred) /\ (call.ok \/ m_lastaddr # call.at)
  BY <1>2 DEF DlReads
<1>5. PICK k : k = call.inc
  OBVIOUS
<1>6. DlTook(V[0], up[1], V[1], k, erred)
  BY <1>3, <1>4, <1>5, DlPathPops
<1>7. PICK W : DlPath(W, up', k, erred) /\ W[0] = V[1] /\ W[Len(up')] = V[Len(up)]
  BY <1>3, <1>4, <1>5, DlPathPops
<1>8. PICK c, v, w : c = up[1] /\ v = V[0] /\ w = V[1]
  OBVIOUS
<1>9. DlTook(v, c, w, k, erred) /\ DlKnows(v) /\ W[0] = w
  BY <1>4, <1>6, <1>7, <1>8
<1>10. CASE c.kind \in DlErrors
  <2>0. 1 \in 1 .. Len(up)
    BY <1>3 DEF DlPopped
  <2>1. call' = Link!Ended
    BY <1>3, <1>8, <1>10, <2>0 DEF Link!ReadWord, Link!Thrown, DlErrors, DlTypes
  <2>2. call'.op = "ended"
    BY <2>1 DEF Link!Ended, Link!Call
  <2> QED
    BY <2>2 DEF DlPhases
<1>11. CASE c.kind \notin DlErrors
  <2>1. PICK q : q = V[Len(up)] /\ (q.over \/ DlBoard(q))
    BY <1>2 DEF DlReads
  <2>2. ~v.over /\ ~w.over /\ c.kind \in {"ack", "addr"} \cup DlWords
    BY <1>9, <1>11 DEF DlKnows, DlTook
  <2>3. CASE c.kind \in {"ack", "addr"}
    <3>1. call' = call /\ m_rdaddr' = m_rdaddr /\ m_readtbl' = m_readtbl
          /\ m_lastaddr' = IF c.kind = "addr" THEN c.at ELSE m_lastaddr
      BY <1>3, <1>8, <2>3 DEF Link!ReadWord, Link!AddrTold
    <3>2. DlKnows(w)' /\ (call'.ok \/ m_lastaddr' # call'.at)
      <4>1. CASE c.kind = "ack"
        BY <1>4, <1>9, <1>11, <2>2, <3>1, <4>1 DEF DlTook, DlAck, DlKnows
      <4>2. CASE c.kind = "addr"
        <5>1. /\ v.ok /\ w.ok /\ w.last = c.at /\ w.at = v.at /\ w.left = v.left
              /\ w.rd = v.rd /\ w.tbl = v.tbl
          BY <1>9, <1>11, <2>2, <4>2 DEF DlTook, DlAddr
        <5>2. call.ok
          BY <1>9, <5>1 DEF DlKnows
        <5> QED
          BY <1>9, <2>2, <3>1, <4>2, <5>1, <5>2 DEF DlKnows
      <4> QED
        BY <2>3, <4>1, <4>2
    <3>3. q.over \/ DlBoard(q)'
      <4>1. CASE DlWaits(q)
        <5>1. \A i \in 1 .. Len(up') : up'[i].kind \in {"ack"} \cup DlErrors
          <6>1. \A i \in 1 .. Len(up') : i + 1 \in 1 .. Len(up) /\ up'[i] = up[i + 1]
            BY <1>3 DEF DlPopped
          <6> QED
            BY <4>1, <6>1 DEF DlWaits
        <5>2. DlInStep(q) => DlInStep(q)'
          BY <1>1, DlTableStays DEF DlInStep
        <5>3. DlWaits(q)'
          BY <1>1, <3>1, <4>1, <5>1, <5>2 DEF DlWaits
        <5> QED
          BY <5>3 DEF DlBoard
      <4>2. CASE DlUnderWay(q) \/ DlAnswered(q)
        <5>1. DlInStep(q) => DlInStep(q)'
          BY <1>1, DlTableStays DEF DlInStep
        <5>2. DlUnderWay(q)' \/ DlAnswered(q)'
          BY <1>1, <3>1, <4>2, <5>1 DEF DlUnderWay, DlAnswered, DlTells
        <5> QED
          BY <5>2 DEF DlBoard
      <4> QED
        BY <2>1, <4>1, <4>2 DEF DlBoard
    <3>4. DlPath(W, up', call'.inc, erred')
      BY <1>5, <1>7, <3>1, DlPathStays DEF DlTells
    <3>5. q = W[Len(up')]
      BY <1>7, <2>1
    <3>6. DlReads(W)'
      BY <1>9, <3>2, <3>3, <3>4, <3>5 DEF DlReads
    <3> QED
      BY <1>1, <3>1, <3>6 DEF DlPhases
  <2>4. CASE c.kind \in DlWords
    <3>1. /\ c.at \in 0 .. BusSpace - 1 /\ c.at = v.last /\ c.inc = k
          /\ w.last = (c.at + k) % BusSpace /\ w.at = v.at + k /\ w.left = v.left - 1
          /\ (w.ok <=> v.ok /\ c.at = v.at) /\ v.at \in Nat
      BY <1>9, <1>11, <2>2, <2>4 DEF DlTook, DlWordAt
    <3>2. /\ v.last = m_lastaddr /\ v.at = call.at /\ v.left = call.left /\ (v.ok <=> call.ok)
          /\ v.rd = m_rdaddr /\ v.tbl = m_readtbl
      BY <1>9 DEF DlKnows
    <3>3. PICK ok \in BOOLEAN : ok = (call.ok /\ c.at = call.at)
      OBVIOUS
    <3>4. call' = [call EXCEPT !.left = call.left - 1, !.at = call.at + call.inc, !.ok = ok]
          /\ m_lastaddr' = (m_lastaddr + c.inc) % BusSpace
      BY <1>3, <1>8, <2>4, <3>3 DEF Link!ReadWord, Link!AddrAfter, DlWords
    <3>5. /\ call'.op = "read" /\ call'.inc = k /\ call'.left = w.left /\ call'.at = w.at
          /\ (call'.ok <=> w.ok) /\ m_lastaddr' = w.last
      BY <1>1, <1>5, <3>1, <3>2, <3>3, <3>4 DEF DlTypes
    <3>6. m_rdaddr' = w.rd /\ m_readtbl' = w.tbl
      <4>1. CASE c.kind = "raw"
        BY <1>3, <1>8, <1>9, <1>11, <2>2, <3>2, <4>1 DEF Link!ReadWord, Link!NextPlace, DlTook, DlRaw
      <4>2. CASE c.kind = "tbl"
        BY <1>3, <1>8, <1>9, <1>11, <2>2, <3>2, <4>2 DEF Link!ReadWord, DlTook, DlTbl
      <4> QED
        BY <2>4, <4>1, <4>2 DEF DlWords
    <3>7. DlKnows(w)'
      BY <2>2, <3>5, <3>6 DEF DlKnows
    <3>8. call'.ok \/ m_lastaddr' # call'.at
      <4>1. PICK x \in 0 .. BusSpace - 1, y \in Nat, z \in {0, 1} : x = c.at /\ y = v.at /\ z = k
        BY <1>5, <3>1 DEF DlTypes
      <4>2. w.ok \/ x # y
        BY <1>4, <3>1, <3>2, <4>1
      <4>3. x # y => (x + z) % BusSpace # y + z
        BY DlWraps
      <4> QED
        BY <3>1, <3>5, <4>1, <4>2, <4>3
    <3>9. ~DlWaits(q)
      <4>1. 1 \in 1 .. Len(up)
        BY <1>3 DEF DlPopped
      <4> QED
        BY <1>8, <2>4, <4>1 DEF DlWaits, DlWords, DlErrors
    <3>10. q.over \/ DlBoard(q)'
      <4>1. CASE DlUnderWay(q) \/ DlAnswered(q)
        <5>1. DlInStep(q) => DlInStep(q)'
          BY <1>1, DlTableStays DEF DlInStep
        <5>2. DlUnderWay(q)' \/ DlAnswered(q)'
          BY <1>1, <1>5, <3>5, <4>1, <5>1 DEF DlUnderWay, DlAnswered, DlTells
        <5> QED
          BY <5>2 DEF DlBoard
      <4> QED
        BY <2>1, <3>9, <4>1 DEF DlBoard
    <3>11. DlPath(W, up', call'.inc, erred')
      BY <1>7, <3>5, DlPathStays DEF DlTells
    <3>12. q = W[Len(up')]
      BY <1>7, <2>1
    <3>13. DlReads(W)'
      BY <1>9, <3>7, <3>8, <3>10, <3>11, <3>12 DEF DlReads
    <3> QED
      BY <3>5, <3>13 DEF DlPhases
  <2> QED
    BY <2>2, <2>3, <2>4
<1> QED
  BY <1>10, <1>11

\* What the host knows when it has taken all of a read.
LEMMA DlAllRead ==
  ASSUME DlTypes, DlPhases, call.op = "read", call.left = 0
  PROVE  /\ up = << >> /\ down = << >> /\ wb_state = "idle" /\ ~r_new_addr
         /\ DlSame(m_lastaddr, m_rdaddr, m_readtbl)
         /\ (~erred => m_lastaddr = call.at)
         /\ (call.ok \/ m_lastaddr # call.at)
<1>1. PICK V : DlReads(V)
  BY DEF DlPhases, DlLost
<1>2. Len(up) \in Nat /\ (Len(up) = 0 <=> up = << >>)
  BY DlLength DEF DlTypes
<1>3. PICK v, k : v = V[0] /\ k = call.inc
  OBVIOUS
<1>4. DlKnows(v) /\ DlPath(V, up, k, erred)
  BY <1>1, <1>3 DEF DlReads
<1>5. Len(up) = 0
  <2>1. ASSUME Len(up) # 0 PROVE FALSE
    <3>1. 1 \in 1 .. Len(up) /\ 1 - 1 = 0
      BY <1>2, <2>1
    <3>2. DlTook(V[1 - 1], up[1], V[1], k, erred)
      BY <1>4, <3>1 DEF DlPath
    <3>3. DlTook(v, up[1], V[1], k, erred)
      BY <1>3, <3>1, <3>2
    <3>4. v.left = 0 /\ ~v.over
      BY <1>4 DEF DlKnows
    <3> QED
      BY <3>3, <3>4 DEF DlTook
  <2> QED
    BY <2>1
<1>6. PICK w : w = V[Len(up)] /\ (w.over \/ DlBoard(w))
  BY <1>1 DEF DlReads
<1>7. w = v
  BY <1>3, <1>5, <1>6
<1>8. DlBoard(v) /\ v.left = 0
  BY <1>4, <1>6, <1>7 DEF DlKnows
<1>9. DlAnswered(v)
  BY <1>8 DEF DlBoard, DlWaits, DlUnderWay
<1>10. DlSame(v.last, v.rd, v.tbl)
  BY <1>9 DEF DlAnswered, DlInStep
<1>11. v.last = m_lastaddr /\ v.at = call.at /\ v.rd = m_rdaddr /\ v.tbl = m_readtbl
  BY <1>4 DEF DlKnows
<1>12. DlSame(m_lastaddr, m_rdaddr, m_readtbl)
  BY <1>10, <1>11
<1> QED
  BY <1>1, <1>2, <1>5, <1>9, <1>11, <1>12 DEF DlAnswered, DlInStep, DlReads

LEMMA DlEndsRead ==
  ASSUME DlTypes, DlPhases, Link!ReadDone
  PROVE  DlPhases'
<1>1. /\ call.op = "read" /\ call.left = 0 /\ up' = up /\ down' = down /\ wrote' = wrote
      /\ wb_state' = wb_state /\ o_wb_addr' = o_wb_addr /\ r_new_addr' = r_new_addr
      /\ tbl_addr' = tbl_addr /\ tbl_filled' = tbl_filled /\ compression_tbl' = compression_tbl
      /\ m_addr_set' = m_addr_set /\ m_lastaddr' = m_lastaddr /\ m_rdaddr' = m_rdaddr
      /\ m_readtbl' = m_readtbl
  BY DEF Link!ReadDone, Link!AllRead, Link!exec, Link!table
<1>2. call'.op \in {"idle", "ended"}
  BY DEF Link!ReadDone, Link!Idle, Link!Ended, Link!Call
<1>3. DlSame(m_lastaddr, m_rdaddr, m_readtbl) /\ up = << >> /\ down = << >> /\ wb_state = "idle"
      /\ ~r_new_addr
  BY <1>1, DlAllRead
<1>4. DlSame(m_lastaddr, m_rdaddr, m_readtbl)'
  <2>1. PICK last, rd, tbl : last = m_lastaddr /\ rd = m_rdaddr /\ tbl = m_readtbl
    OBVIOUS
  <2>2. DlSame(last, rd, tbl)'
    BY <1>1, <1>3, <2>1, DlTableStays
  <2> QED
    BY <1>1, <2>1, <2>2
<1>5. DlRests'
  BY <1>1, <1>3, <1>4 DEF DlRests, DlTypes
<1> QED
  BY <1>2, <1>5 DEF DlPhases

\* readidle, when codewords of writes are all that comes.
LEMMA DlLooks ==
  ASSUME DlTypes, DlPhases, Link!ReadIdle
  PROVE  DlPhases' /\ IsSeq(up') /\ (call' = call \/ call' = Link!Ended \/ call' = Link!Idle
                                     \/ call' = [call EXCEPT !.op = "write"])
         /\ \A i \in 1 .. Len(up') : \E j \in 1 .. Len(up) : up'[i] = up[j]
<1>1. /\ call.op = "readidle" /\ wrote' = wrote /\ wb_state' = wb_state /\ down' = down
  BY DEF Link!ReadIdle, Link!exec
<1>2. DlWrites
  BY <1>1 DEF DlPhases
<1>3. IsSeq(up) /\ Len(up) \in Nat /\ (Len(up) = 0 <=> up = << >>)
  BY DlLength DEF DlTypes
<1>4. /\ up' = up \/ (Len(up) >= 1 /\ up' = Tail(up)) \/ (Len(up) >= 2 /\ up' = Tail(Tail(up)))
  BY DEF Link!ReadIdle
<1>5. call' = call \/ call' = Link!Ended \/ call' = Link!Idle \/ call' = [call EXCEPT !.op = "write"]
  BY DEF Link!ReadIdle, Link!Thrown
<1>6. IsSeq(up') /\ \A i \in 1 .. Len(up') : \E j \in 1 .. Len(up) : up'[i] = up[j]
  <2>1. CASE up' = up
    BY <1>3, <2>1
  <2>2. CASE Len(up) >= 1 /\ up' = Tail(up)
    <3>1. DlPopped(up, up')
      BY <1>3, <2>2, DlPop
    <3>2. \A i \in 1 .. Len(up') : i + 1 \in 1 .. Len(up)
      BY <3>1 DEF DlPopped
    <3> QED
      BY <3>1, <3>2 DEF DlPopped
  <2>3. CASE Len(up) >= 2 /\ up' = Tail(Tail(up))
    <3>1. PICK t : t = Tail(up)
      OBVIOUS
    <3>2. DlPopped(up, t)
      BY <1>3, <2>3, <3>1, DlPop
    <3>3. IsSeq(t) /\ Len(t) >= 1 /\ Len(t) \in Nat
      BY <2>3, <3>2 DEF DlPopped
    <3>4. DlPopped(t, up')
      <4>1. t # << >>
        BY <3>3
      <4> QED
        BY <2>3, <3>1, <3>3, <4>1, DlPop
    <3>5. ASSUME NEW i \in 1 .. Len(up') PROVE \E j \in 1 .. Len(up) : up'[i] = up[j]
      <4>1. i + 1 \in 1 .. Len(t) /\ (i + 1) + 1 \in 1 .. Len(up)
        BY <3>2, <3>4 DEF DlPopped
      <4>2. up'[i] = t[i + 1]
        BY <3>4 DEF DlPopped
      <4>3. t[i + 1] = up[(i + 1) + 1]
        BY <3>2, <4>1 DEF DlPopped
      <4> QED
        BY <4>1, <4>2, <4>3
    <3> QED
      BY <3>4, <3>5 DEF DlPopped
  <2> QED
    BY <1>4, <2>1, <2>2, <2>3
<1>7. DlWrites'
  BY <1>1, <1>2, <1>6 DEF DlWrites, DlQuiet
<1>8. call'.op \in DlOps \ {"read"}
  <2>1. CASE call' = call
    BY <1>1, <2>1 DEF DlOps
  <2>2. CASE call' = Link!Ended \/ call' = Link!Idle
    BY <2>2 DEF DlOps, Link!Ended, Link!Idle, Link!Call
  <2>3. CASE call' = [call EXCEPT !.op = "write"]
    <3>1. call'.op = "write"
      BY <2>3 DEF DlTypes
    <3> QED
      BY <3>1 DEF DlOps
  <2> QED
    BY <1>5, <2>1, <2>2, <2>3
<1> QED
  BY <1>5, <1>6, <1>7, <1>8 DEF DlPhases

LEMMA DlDrops ==
  ASSUME Link!Discard PROVE DlPhases'
<1>1. call' = Link!Ended
  BY DEF Link!Discard, Link!host
<1> QED
  BY <1>1 DEF DlPhases, Link!Ended, Link!Call

LEMMA DlStartsAnew ==
  ASSUME Link!Restart PROVE DlPhases'
<1>1. /\ call' = Link!Idle /\ up' = << >> /\ down' = << >> /\ wb_state' # "reading" /\ wrote' = FALSE
      /\ m_addr_set' = FALSE
  BY DEF Link!Restart, Link!exec
<1>2. call'.op = "idle"
  BY <1>1 DEF Link!Idle, Link!Call
<1>3. DlRests'
  BY <1>1 DEF DlRests
<1> QED
  BY <1>2, <1>3 DEF DlPhases

\* What a step of the host leaves typed.
DlHostTyped ==
  /\ IsSeq(up') /\ IsSeq(down')
  /\ call' \in [op : DlOps, at : Nat, inc : {0, 1}, left : Nat, ok : BOOLEAN]
  /\ m_rdaddr' \in DlSlot /\ DOMAIN m_readtbl' = DlSlot
  /\ wrote' \in BOOLEAN /\ m_addr_set' \in BOOLEAN /\ (call'.op = "read" => ~wrote')

LEMMA DlConstantCalls ==
  /\ Link!Idle \in [op : DlOps, at : Nat, inc : {0, 1}, left : Nat, ok : BOOLEAN]
  /\ Link!Ended \in [op : DlOps, at : Nat, inc : {0, 1}, left : Nat, ok : BOOLEAN]
  /\ Link!Idle.op = "idle" /\ Link!Ended.op = "ended"
BY DEF Link!Idle, Link!Ended, Link!Call, DlOps

LEMMA DlReadVTypes ==
  ASSUME DlTypes, NEW a \in Link!Addr, NEW inc \in {0, 1}, NEW len \in 1 .. MaxLen,
         Link!ReadV(a, inc, len)
  PROVE  DlHostTyped
<1>1. PICK c :
           /\ c = Link!Asked(inc, len)
           /\ IsSeq(down') /\ down' # << >> /\ Len(down) \in Nat /\ Len(down') \in Nat
           /\ down'[Len(down')] = c /\ \A j \in 1 .. Len(down) : down'[j] = down[j]
           /\ \/ /\ Len(down') = Len(down) + 1 /\ m_rdaddr' = m_rdaddr
                 /\ m_addr_set /\ a = m_lastaddr /\ (ReadsBack \/ ~wrote)
              \/ /\ Len(down') = Len(down) + 2 /\ m_rdaddr' = 0
                 /\ down'[Len(down') - 1].op = "addr"
  BY DlAsks
<1>2. 0 \in DlSlot /\ a \in Nat /\ len \in Nat
  BY TAssumption, TopAssumption, MaxLenAssumption DEF DlSlot, Link!Addr
<1>3. m_rdaddr' \in DlSlot
  BY <1>1, <1>2 DEF DlTypes
<1>4. call' = [op |-> "read", at |-> a, inc |-> inc, left |-> len, ok |-> TRUE]
      /\ wrote' = FALSE /\ up' = up /\ m_addr_set' = m_addr_set /\ m_readtbl' = m_readtbl
  BY DEF Link!ReadV, Link!Call
<1> QED
  BY <1>1, <1>2, <1>3, <1>4 DEF DlTypes, DlHostTyped, DlOps

LEMMA DlWriteVTypes ==
  ASSUME DlTypes, DlPhases, call.op = "idle", NEW a \in Link!Addr, NEW inc \in {0, 1},
         NEW len \in 1 .. MaxLen, Link!WriteV(a, inc, len)
  PROVE  DlHostTyped
<1>1. IsSeq(down')
  BY DlStartsWrite
<1>2. 0 \in DlSlot /\ a \in Nat /\ len \in Nat
  BY TAssumption, TopAssumption, MaxLenAssumption DEF DlSlot, Link!Addr
<1>3. m_rdaddr' \in DlSlot
  BY <1>2 DEF DlTypes, Link!WriteV, Link!RdAddr
<1>4. call' = [op |-> "write", at |-> a, inc |-> inc, left |-> len, ok |-> TRUE]
      /\ wrote' = TRUE /\ up' = up /\ m_addr_set' = TRUE /\ m_readtbl' = m_readtbl
  BY DEF Link!WriteV, Link!Call
<1> QED
  BY <1>1, <1>2, <1>3, <1>4 DEF DlTypes, DlHostTyped, DlOps

LEMMA DlBlockTypes ==
  ASSUME DlTypes, Link!WriteBlock
  PROVE  DlHostTyped
<1>1. PICK n \in 1 .. call.left :
           /\ call.op = "write" /\ call.left \in Nat /\ n \in Nat
           /\ m_lastaddr' = m_lastaddr + n * call.inc
           /\ call' = [call EXCEPT !.op = "readidle", !.left = call.left - n, !.at = call.at + n * call.inc]
           /\ IsSeq(down') /\ Len(down) \in Nat
           /\ Len(down') = Len(down) + n \/ Len(down') = Len(down) + n + 1
           /\ \A i \in 1 .. Len(down) : down'[i] = down[i]
           /\ \A i \in 1 .. n : down'[Len(down) + i]
                = [op |-> "write", inc |-> call.inc, meant |-> call.at + call.inc * (i - 1)]
           /\ Len(down') = Len(down) + n + 1 => down'[Len(down')] = [op |-> "eow"]
  BY DlBlock
<1>2. call.left - n \in Nat /\ n * call.inc \in Nat /\ call.at \in Nat /\ call.inc \in {0, 1}
  <2>1. call.left - n \in Nat /\ call.inc \in {0, 1} /\ call.at \in Nat
    BY <1>1 DEF DlTypes
  <2>2. CASE call.inc = 0
    BY <1>1, <2>1, <2>2
  <2>3. CASE call.inc = 1
    BY <1>1, <2>1, <2>3
  <2> QED
    BY <2>1, <2>2, <2>3
<1>3. PICK l \in Nat, x \in Nat : l = call.left - n /\ x = call.at + n * call.inc
  <2>1. call.at + n * call.inc \in Nat
    BY <1>2
  <2> QED
    BY <1>2, <2>1
<1>4. call' = [call EXCEPT !.op = "readidle", !.left = l, !.at = x]
  BY <1>1, <1>3
<1>5. call' \in [op : DlOps, at : Nat, inc : {0, 1}, left : Nat, ok : BOOLEAN] /\ call'.op = "readidle"
  BY <1>4 DEF DlTypes, DlOps
<1>6. up' = up /\ m_addr_set' = m_addr_set /\ m_rdaddr' = m_rdaddr /\ m_readtbl' = m_readtbl
      /\ wrote' = wrote
  BY DEF Link!WriteBlock
<1> QED
  BY <1>1, <1>5, <1>6 DEF DlTypes, DlHostTyped

\* The codewords a read takes.
LEMMA DlHeads ==
  ASSUME DlTypes, DlPhases, call.op = "read", up # << >>
  PROVE  /\ Head(up) = up[1] /\ up[1].kind \in {"ack", "addr"} \cup DlErrors \cup DlWords
         /\ \E v, w : DlKnows(v) /\ DlTook(v, up[1], w, call.inc, erred)
<1>2. DlPopped(up, Tail(up)) /\ Head(up) = up[1]
  BY DlPop DEF DlTypes
<1>0. CASE DlLost
  <2>1. 1 \in 1 .. Len(up)
    BY <1>2 DEF DlPopped
  <2>2. up[1].kind \in {"ack"} \cup DlErrors /\ call.left >= 1 /\ call.left \in Nat /\ call.at \in Nat
    BY <1>0, <2>1 DEF DlLost, DlQuiet, DlTypes
  <2>3. PICK v, w :
          /\ v = [over |-> FALSE, last |-> m_lastaddr, at |-> call.at, left |-> call.left,
                  ok |-> call.ok, rd |-> m_rdaddr, tbl |-> m_readtbl]
          /\ w = IF up[1].kind = "ack" THEN v ELSE [over |-> TRUE]
    OBVIOUS
  <2>4. DlKnows(v)
    BY <2>3 DEF DlKnows
  <2>5. DlTook(v, up[1], w, call.inc, erred)
    BY <2>2, <2>3 DEF DlTook, DlErrors, DlWords, DlAck, DlAddr, DlWordAt, DlRaw, DlTbl
  <2> QED
    BY <1>2, <2>2, <2>4, <2>5
<1> SUFFICES ASSUME ~DlLost
             PROVE  /\ Head(up) = up[1] /\ up[1].kind \in {"ack", "addr"} \cup DlErrors \cup DlWords
                    /\ \E v, w : DlKnows(v) /\ DlTook(v, up[1], w, call.inc, erred)
  BY <1>0
<1>1. PICK V : DlReads(V)
  BY DEF DlPhases
<1>3. PICK v, w, k : v = V[0] /\ w = V[1] /\ k = call.inc
  OBVIOUS
<1>4. DlKnows(v) /\ DlPath(V, up, k, erred)
  BY <1>1, <1>3 DEF DlReads
<1>5. DlTook(v, up[1], w, k, erred)
  BY <1>2, <1>3, <1>4, DlPathPops
<1>6. ~v.over
  BY <1>4 DEF DlKnows
<1>7. up[1].kind \in {"ack", "addr"} \cup DlErrors \cup DlWords
  BY <1>5, <1>6 DEF DlTook
<1> QED
  BY <1>2, <1>3, <1>4, <1>5, <1>7

LEMMA DlReadWordTypes ==
  ASSUME DlTypes, DlPhases, Link!ReadWord
  PROVE  DlHostTyped
<1>1. /\ call.op = "read" /\ call.left > 0 /\ up # << >> /\ up' = Tail(up) /\ wrote' = wrote
      /\ down' = down
  BY DEF Link!ReadWord
<1>2. PICK c : c = Head(up) /\ c.kind \in {"ack", "addr", "err", "reset", "raw", "tbl"}
  BY <1>1, DlHeads DEF DlErrors, DlWords
<1>3. IsSeq(up')
  BY <1>1, DlPop DEF DlTypes, DlPopped
<1>4. PICK ok \in BOOLEAN : ok = (call.ok /\ c.at = call.at)
  OBVIOUS
<1>5. call.left - 1 \in Nat /\ call.at + call.inc \in Nat
  BY <1>1 DEF DlTypes
<1>6. \/ call' = call
      \/ call' = Link!Ended \/ call' = Link!Idle
      \/ call' = [call EXCEPT !.left = call.left - 1, !.at = call.at + call.inc, !.ok = ok]
  BY <1>2, <1>4 DEF Link!ReadWord, Link!Thrown
<1>7. call' \in [op : DlOps, at : Nat, inc : {0, 1}, left : Nat, ok : BOOLEAN]
  <2>1. CASE call' = [call EXCEPT !.left = call.left - 1, !.at = call.at + call.inc, !.ok = ok]
    BY <1>4, <1>5, <2>1 DEF DlTypes
  <2> QED
    BY <1>6, <2>1, DlConstantCalls DEF DlTypes
<1>8. m_addr_set' \in BOOLEAN
  BY <1>2 DEF Link!ReadWord, DlTypes
<1>9. DOMAIN m_readtbl' = DlSlot
  <2>1. m_readtbl' = m_readtbl \/ \E x : m_readtbl' = [m_readtbl EXCEPT ![m_rdaddr] = x]
    BY <1>2 DEF Link!ReadWord
  <2> QED
    BY <2>1 DEF DlTypes
<1>10. m_rdaddr' \in DlSlot
  <2>1. m_rdaddr' = m_rdaddr \/ m_rdaddr' = (m_rdaddr + 1) % T
    BY <1>2 DEF Link!ReadWord, Link!NextPlace
  <2>2. PICK n \in Nat : n = m_rdaddr
    BY DEF DlTypes, DlSlot
  <2>3. (n + 1) % T \in 0 .. T - 1
    BY <2>2, TAssumption
  <2> QED
    BY <2>1, <2>2, <2>3 DEF DlTypes, DlSlot
<1> QED
  BY <1>1, <1>3, <1>7, <1>8, <1>9, <1>10 DEF DlTypes, DlHostTyped

LEMMA DlOtherTypes ==
  ASSUME DlTypes, DlPhases, Link!ReadDone \/ Link!ReadIdle \/ Link!Discard \/ Link!Restart
  PROVE  DlHostTyped
<1>1. CASE Link!ReadDone
  <2>1. /\ up' = up /\ down' = down /\ wrote' = wrote /\ m_addr_set' = m_addr_set
        /\ m_rdaddr' = m_rdaddr /\ m_readtbl' = m_readtbl /\ (call' = Link!Idle \/ call' = Link!Ended)
    BY <1>1 DEF Link!ReadDone
  <2> QED
    BY <2>1, DlConstantCalls DEF DlTypes, DlHostTyped
<1>2. CASE Link!ReadIdle
  <2>1. /\ down' = down /\ wrote' = wrote /\ m_addr_set' = m_addr_set
        /\ m_rdaddr' = m_rdaddr /\ m_readtbl' = m_readtbl /\ call.op = "readidle"
    BY <1>2 DEF Link!ReadIdle
  <2>2. IsSeq(up') /\ (call' = call \/ call' = Link!Ended \/ call' = Link!Idle
                                     \/ call' = [call EXCEPT !.op = "write"])
    BY <1>2, DlLooks
  <2>3. CASE call' = [call EXCEPT !.op = "write"]
    <3>1. call' \in [op : DlOps, at : Nat, inc : {0, 1}, left : Nat, ok : BOOLEAN] /\ call'.op = "write"
      BY <2>3 DEF DlTypes, DlOps
    <3> QED
      BY <2>1, <2>2, <3>1 DEF DlTypes, DlHostTyped
  <2>4. CASE call' = call \/ call' = Link!Ended \/ call' = Link!Idle
    BY <2>1, <2>2, <2>4, DlConstantCalls DEF DlTypes, DlHostTyped
  <2> QED
    BY <2>2, <2>3, <2>4
<1>3. CASE Link!Discard
  <2>1. /\ down' = down /\ wrote' = wrote /\ m_addr_set' = m_addr_set /\ m_rdaddr' = m_rdaddr
        /\ m_readtbl' = m_readtbl /\ up' = << >> /\ call' = call
    BY <1>3 DEF Link!Discard, Link!host
  <2> QED
    BY <2>1 DEF DlTypes, DlHostTyped, IsSeq
<1>4. CASE Link!Restart
  <2>1. /\ down' = down /\ wrote' = FALSE /\ m_addr_set' = FALSE /\ m_rdaddr' = 0
        /\ m_readtbl' \in [DlSlot -> Word] /\ up' = << >> /\ call' = Link!Idle
    BY <1>4 DEF Link!Restart, Link!Slot, DlSlot
  <2>2. 0 \in DlSlot
    BY TAssumption DEF DlSlot
  <2>3. << >> \in Seq({})
    OBVIOUS
  <2> QED
    BY <2>1, <2>2, <2>3, DlConstantCalls DEF DlTypes, DlHostTyped, IsSeq
<1> QED
  BY <1>1, <1>2, <1>3, <1>4

\* A step of the host.
LEMMA DlHostKeeps ==
  ASSUME DlTypes, DlPhases, DlTells, ~(Catches /\ erred), Link!Host
  PROVE  DlTypes' /\ DlPhases'
<1>1. /\ tbl_addr' = tbl_addr /\ tbl_filled' = tbl_filled /\ compression_tbl' = compression_tbl
      /\ r_new_addr' = r_new_addr
  BY DEF Link!Host, Link!ReadV, Link!WriteV, Link!WriteBlock, Link!ReadWord, Link!ReadDone,
     Link!ReadIdle, Link!Discard, Link!Restart, Link!exec, Link!table
<1>2. ASSUME DlHostTyped PROVE DlTypes'
  BY <1>1, <1>2 DEF DlTypes, DlHostTyped, DlTells
<1>3. ASSUME NEW a \in Link!Addr, NEW inc \in {0, 1}, NEW len \in 1 .. MaxLen, call = Link!Idle,
             a + inc * len <= Top, Link!ReadV(a, inc, len)
      PROVE  DlTypes' /\ DlPhases'
  <2>1. call.op = "idle"
    BY <1>3, DlConstantCalls
  <2>2. DlTypes'
    BY <1>2, <1>3, DlReadVTypes
  <2> QED
    BY <1>3, <2>1, <2>2, DlStartsRead, DlStartsLost
<1>4. ASSUME NEW a \in Link!Addr, NEW inc \in {0, 1}, NEW len \in 1 .. MaxLen, call = Link!Idle,
             Link!WriteV(a, inc, len)
      PROVE  DlTypes' /\ DlPhases'
  <2>1. call.op = "idle"
    BY <1>4, DlConstantCalls
  <2>2. DlTypes'
    BY <1>2, <1>4, <2>1, DlWriteVTypes
  <2> QED
    BY <1>4, <2>1, <2>2, DlStartsWrite
<1>5. CASE Link!WriteBlock
  BY <1>2, <1>5, DlBlockTypes, DlSendsBlock
<1>6. CASE Link!ReadWord
  BY <1>2, <1>6, DlReadWordTypes, DlReadsCodeword, DlLostTakes
<1>7. CASE Link!ReadDone
  BY <1>2, <1>7, DlOtherTypes, DlEndsRead
<1>8. CASE Link!ReadIdle
  BY <1>2, <1>8, DlOtherTypes, DlLooks
<1>9. CASE Link!Discard
  BY <1>2, <1>9, DlOtherTypes, DlDrops
<1>10. CASE Link!Restart
  BY <1>2, <1>10, DlOtherTypes, DlStartsAnew
<1> QED
  BY <1>3, <1>4, <1>5, <1>6, <1>7, <1>8, <1>9, <1>10 DEF Link!Host

\* An error is told when its codeword is sent.
LEMMA DlErredTells ==
  ASSUME DlTypes, Link!Next, IsSeq(up') PROVE DlTells
<1>1. erred' <=> (erred \/ \E i \in DOMAIN up' : up'[i].kind \in DlErrors)
  BY ZenonT(30) DEF Link!Next, Link!Errors, DlErrors
<1>2. erred' \in BOOLEAN
  BY ZenonT(30) DEF Link!Next
<1>3. DOMAIN up' = 1 .. Len(up')
  BY DEF IsSeq
<1> QED
  BY <1>1, <1>2, <1>3 DEF DlTells

\* Each digit more is at least twice as many values.
LEMMA DlSpans ==
  \E p1 \in Nat, p2 \in Nat, p3 \in Nat, p4 \in Nat, p5 \in Nat :
    /\ Link!Span(0) = 1 /\ Link!Span(1) = p1 /\ Link!Span(2) = p2 /\ Link!Span(3) = p3 /\ Link!Span(4) = p4 /\ Link!Span(5) = p5
    /\ 2 <= p1 /\ 2 * p1 <= p2 /\ 2 * p2 <= p3 /\ 2 * p3 <= p4 /\ 2 * p4 <= p5
<1>1. B \in Nat /\ B >= 2
  BY BAssumption
<1>2. ASSUME NEW x \in Nat PROVE x * B \in Nat /\ 2 * x <= x * B
  <2>1. PICK c \in Nat : B = c + 2
    <3>1. B - 2 \in Nat /\ B = (B - 2) + 2
      BY <1>1
    <3> QED
      BY <3>1
  <2>2. x * c \in Nat /\ x * (c + 2) = x * c + 2 * x
    OBVIOUS
  <2> QED
    BY <2>1, <2>2
<1>3. PICK p1 \in Nat : p1 = B
  BY <1>1
<1>4. PICK p2 \in Nat : p2 = p1 * B /\ 2 * p1 <= p2
  BY <1>2
<1>5. PICK p3 \in Nat : p3 = p2 * B /\ 2 * p2 <= p3
  BY <1>2
<1>6. PICK p4 \in Nat : p4 = p3 * B /\ 2 * p3 <= p4
  BY <1>2
<1>7. PICK p5 \in Nat : p5 = p4 * B /\ 2 * p4 <= p5
  BY <1>2
<1>8. Link!Span(0) = 1 /\ Link!Span(1) = B /\ Link!Span(2) = B * B /\ Link!Span(3) = B * B * B
      /\ Link!Span(4) = B * B * B * B /\ Link!Span(5) = B * B * B * B * B
  BY DEF Link!Span
<1>9. Link!Span(1) = p1 /\ Link!Span(2) = p2 /\ Link!Span(3) = p3 /\ Link!Span(4) = p4 /\ Link!Span(5) = p5
  BY <1>3, <1>4, <1>5, <1>6, <1>7, <1>8
<1>10. 2 <= p1
  BY <1>1, <1>3
<1> QED
  BY <1>4, <1>5, <1>6, <1>7, <1>8, <1>9, <1>10

\* An address of the host has one number of digits that is its.
LEMMA DlAbsDigits ==
  ASSUME NEW a \in Nat, a < Link!Span(4)
  PROVE  Link!AbsDigits(a) \in 1 .. 4
<1>1. PICK p1 \in Nat, p2 \in Nat, p3 \in Nat, p4 \in Nat, p5 \in Nat :
    /\ Link!Span(0) = 1 /\ Link!Span(1) = p1 /\ Link!Span(2) = p2 /\ Link!Span(3) = p3 /\ Link!Span(4) = p4 /\ Link!Span(5) = p5
    /\ 2 <= p1 /\ 2 * p1 <= p2 /\ 2 * p2 <= p3 /\ 2 * p3 <= p4 /\ 2 * p4 <= p5
  BY DlSpans
<1> DEFINE fits(n) == a < Link!Span(n) /\ (n > 1 => a >= Link!Span(n - 1))
<1>2. ~fits(5)
  <2>1. 5 - 1 = 4 /\ 5 > 1
    OBVIOUS
  <2> QED
    BY <1>1, <2>1
<1>3. \E n \in 1 .. 5 : fits(n)
  <2>1. 2 - 1 = 1 /\ 3 - 1 = 2 /\ 4 - 1 = 3 /\ ~(1 > 1)
    OBVIOUS
  <2>2. fits(1) \/ fits(2) \/ fits(3) \/ fits(4)
    BY <1>1, <2>1
  <2>3. 1 \in 1 .. 5 /\ 2 \in 1 .. 5 /\ 3 \in 1 .. 5 /\ 4 \in 1 .. 5
    OBVIOUS
  <2> HIDE DEF fits
  <2> QED
    BY <2>2, <2>3
<1>4. Link!AbsDigits(a) = CHOOSE n \in 1 .. 5 : fits(n)
  BY DEF Link!AbsDigits
<1> HIDE DEF fits
<1>5. Link!AbsDigits(a) \in 1 .. 5 /\ fits(Link!AbsDigits(a))
  BY <1>3, <1>4
<1>6. Link!AbsDigits(a) # 5
  BY <1>2, <1>5
<1> QED
  BY <1>5, <1>6

\* The form of a step is chosen only where it is one of at most three digits
\* forward.
LEMMA DlSteps ==
  ASSUME NEW a \in Nat, NEW last \in Nat, a < Top, last <= Top, Top <= Link!Span(4),
         Link!DiffDigits(Link!Difference(last, a)) # 0
  PROVE  /\ last <= a /\ Link!Difference(last, a) = a - last
         /\ Link!DiffDigits(a - last) \in 1 .. 4
         /\ 2 * (a - last) < Link!Span(Link!DiffDigits(a - last))
<1>1. PICK p1 \in Nat, p2 \in Nat, p3 \in Nat, p4 \in Nat, p5 \in Nat :
    /\ Link!Span(0) = 1 /\ Link!Span(1) = p1 /\ Link!Span(2) = p2 /\ Link!Span(3) = p3 /\ Link!Span(4) = p4 /\ Link!Span(5) = p5
    /\ 2 <= p1 /\ 2 * p1 <= p2 /\ 2 * p2 <= p3 /\ 2 * p3 <= p4 /\ 2 * p4 <= p5
  BY DlSpans
<1>2. PICK t \in Nat : t = Top /\ t <= p4
  BY <1>1, TopAssumption
<1>3. PICK x \in Int : x = a - last
  OBVIOUS
<1>4. -t <= x /\ x < t
  BY <1>2, <1>3
<1>5. Link!Difference(last, a) = x % p5
  BY <1>1, <1>3 DEF Link!Difference, Link!HostSpace
<1>6. CASE x < 0
  <2>1. x + p5 \in 0 .. p5 - 1
    BY <1>1, <1>2, <1>4, <1>6
  <2>2. x % p5 = x + p5
    BY <2>1
  <2>3. PICK d \in Nat : d = x + p5
    BY <2>1
  <2>4. 2 * d >= p1 /\ 2 * d >= p2 /\ 2 * d >= p3 /\ 2 * d >= p4
    BY <1>1, <1>2, <1>4, <2>3
  <2>5. Link!DiffDigits(d) = 0
    BY <1>1, <2>4 DEF Link!DiffDigits
  <2> QED
    BY <1>5, <2>2, <2>3, <2>5
<1>7. CASE x >= 0
  <2>1. PICK d \in Nat : d = x
    BY <1>7
  <2>2. d \in 0 .. p5 - 1
    BY <1>1, <1>2, <1>4, <2>1
  <2>3. d % p5 = d
    BY <2>2
  <2>4. Link!DiffDigits(d) # 0
    BY <1>5, <2>1, <2>3
  <2>5. Link!DiffDigits(d) \in 1 .. 4 /\ 2 * d < Link!Span(Link!DiffDigits(d))
    <3>1. CASE 2 * d < p1
      BY <1>1, <3>1 DEF Link!DiffDigits
    <3>2. CASE 2 * d >= p1 /\ 2 * d < p2
      BY <1>1, <3>2 DEF Link!DiffDigits
    <3>3. CASE 2 * d >= p2 /\ 2 * d < p3
      BY <1>1, <3>3 DEF Link!DiffDigits
    <3>4. CASE 2 * d >= p3 /\ 2 * d < p4
      BY <1>1, <3>4 DEF Link!DiffDigits
    <3>5. CASE 2 * d >= p4
      <4>1. Link!DiffDigits(d) = 0
        BY <1>1, <3>5 DEF Link!DiffDigits
      <4> QED
        BY <2>4, <4>1
    <3> QED
      BY <3>1, <3>2, <3>3, <3>4, <3>5
  <2> QED
    BY <1>3, <1>5, <1>7, <2>1, <2>3, <2>5
<1> QED
  BY <1>6, <1>7

(***************************************************************************)
(* Whatever address the host encodes, as a step from the one it takes the  *)
(* board to be at or as it is, the board decodes (ttybus.cpp,              *)
(* encode_address; wbudecompress.v; wbuexec.v), as long as no address has  *)
(* more than four digits.                                                  *)
(***************************************************************************)
THEOREM AddressIsDecoded ==
  ASSUME NEW a \in Link!Addr, NEW last \in 0 .. Top, Top <= Link!Span(4), NEW set \in BOOLEAN,
         NEW x, set => x = last
  PROVE  Link!Decode(x, Link!EncodeAddress(set, last, a)) = a
<1>1. PICK p1 \in Nat, p2 \in Nat, p3 \in Nat, p4 \in Nat, p5 \in Nat :
    /\ Link!Span(0) = 1 /\ Link!Span(1) = p1 /\ Link!Span(2) = p2 /\ Link!Span(3) = p3 /\ Link!Span(4) = p4 /\ Link!Span(5) = p5
    /\ 2 <= p1 /\ 2 * p1 <= p2 /\ 2 * p2 <= p3 /\ 2 * p3 <= p4 /\ 2 * p4 <= p5
  BY DlSpans
<1>2. Top \in Nat /\ BusSpace \in Nat /\ BusSpace > Top /\ Top <= p4
  <2>1. Top \in 1 .. p5 /\ BusSpace \in Nat /\ BusSpace > Top
    BY <1>1, TopAssumption
  <2> QED
    BY <1>1, <2>1
<1>3. a \in Nat /\ last \in Nat /\ a < Top /\ last <= Top
  BY <1>2 DEF Link!Addr
<1>4. PICK n, m : n = (IF set THEN Link!DiffDigits(Link!Difference(last, a)) ELSE 0)
                  /\ m = Link!AbsDigits(a)
  OBVIOUS
<1>5. m \in 1 .. 4
  BY <1>1, <1>2, <1>3, <1>4, DlAbsDigits
<1>6. CASE n = 0 \/ (m <= n /\ m < 5)
  <2>1. Link!EncodeAddress(set, last, a) = [rel |-> FALSE, named |-> m, digits |-> m, val |-> a]
    BY <1>4, <1>6 DEF Link!EncodeAddress, Link!Code
  <2>2. Link!Decode(x, Link!EncodeAddress(set, last, a)) = a \div Link!Span(m - m)
    <3>1. PICK c : c = [rel |-> FALSE, named |-> m, digits |-> m, val |-> a]
      OBVIOUS
    <3>2. Link!Decode(x, c) = Link!TakenValue(c)
      <4>1. ~c.rel
        BY <3>1
      <4> QED
        BY <4>1 DEF Link!Decode
    <3>3. Link!TakenValue(c) = a \div Link!Span(m - m)
      BY <3>1 DEF Link!TakenValue
    <3> QED
      BY <2>1, <3>1, <3>2, <3>3
  <2>3. m - m = 0 /\ a \div 1 = a
    BY <1>3, <1>5
  <2> QED
    BY <1>1, <2>2, <2>3
<1>7. CASE ~(n = 0 \/ (m <= n /\ m < 5))
  <2>1. set /\ n = Link!DiffDigits(Link!Difference(last, a)) /\ n # 0
    BY <1>4, <1>7
  <2>2. last <= a /\ Link!Difference(last, a) = a - last /\ Link!DiffDigits(a - last) \in 1 .. 4
        /\ 2 * (a - last) < Link!Span(Link!DiffDigits(a - last))
    BY <1>1, <1>2, <1>3, <2>1, DlSteps
  <2>3. PICK d \in Nat : d = a - last
    BY <1>3, <2>2
  <2>4. n \in 1 .. 4 /\ 2 * d < Link!Span(n)
    BY <2>1, <2>2, <2>3
  <2>5. n \in 1 .. 3
    BY <1>5, <1>7, <2>4
  <2>6. PICK s \in Nat : s = Link!Span(n) /\ s > 0 /\ 2 * d < s
    BY <1>1, <2>4, <2>5
  <2>7. d % s = d
    BY <2>6
  <2>8. Link!EncodeAddress(set, last, a) = [rel |-> TRUE, named |-> n, digits |-> n, val |-> d]
    <3>1. Link!DiffNamed(n) = n
      BY <2>5 DEF Link!DiffNamed
    <3> QED
      BY <1>4, <1>7, <2>1, <2>2, <2>3, <2>6, <2>7, <3>1 DEF Link!EncodeAddress, Link!Code
  <2>9. n - n = 0 /\ d \div 1 = d
    BY <2>5
  <2>10. Link!TakenValue([rel |-> TRUE, named |-> n, digits |-> n, val |-> d]) = d
    BY <1>1, <2>9 DEF Link!TakenValue
  <2>11. Link!Extend(d, n) = d
    BY <2>6 DEF Link!Extend
  <2>12. Link!Decode(x, Link!EncodeAddress(set, last, a)) = (x + d) % BusSpace
    BY <2>8, <2>10, <2>11 DEF Link!Decode
  <2>13. x + d = a /\ a % BusSpace = a
    BY <1>2, <1>3, <2>1, <2>2, <2>3
  <2> QED
    BY <2>12, <2>13
<1> QED
  BY <1>6, <1>7

\* A command takes the board from address x to y; a word is meant for where
\* the board is.
DlMoves(c, x, y) ==
  /\ c.op \in {"addr", "write", "read", "eow"}
  /\ c.op = "addr" => y = Link!Decode(x, c.code)
  /\ c.op = "write" => /\ c.meant = x /\ x \in Nat /\ c.inc \in {0, 1}
                       /\ y = x + c.inc /\ y <= Top
  /\ c.op \in {"read", "eow"} => y = x

DlLeadTo(s, x, y) ==
  \E E : /\ E[0] = x /\ E[Len(s)] = y
         /\ \A j \in 1 .. Len(s) : DlMoves(s[j], E[j - 1], E[j])

\* While no error was told, the commands on their way lead to the address the
\* host counts on, and the call stays below Top.
DlGuided ==
  /\ \E y : /\ DlLeadTo(down, o_wb_addr, y)
            /\ (call.op # "read" /\ m_addr_set => y = m_lastaddr)
            /\ (call.op = "read" /\ down # << >> => y = call.at)
  /\ call.op # "ended" /\ wb_state # "flush" /\ m_lastaddr \in 0 .. Top
  /\ call.op # "idle" => call.at + call.inc * call.left <= Top
  /\ call.op \in {"write", "readidle"} => m_addr_set /\ m_lastaddr = call.at
  /\ wb_state = "reading" => down = << >>
  /\ call.op = "read" => /\ \A j \in 1 .. Len(down) - 1 : down[j].op # "read"
                         /\ down # << >> => \A i \in 1 .. Len(up) : up[i].kind \notin DlWords

LEMMA DlLeadPops ==
  ASSUME NEW s, NEW t, NEW x, NEW y, DlPopped(s, t), DlLeadTo(s, x, y)
  PROVE  \E z : DlMoves(s[1], x, z) /\ DlLeadTo(t, z, y)
<1>1. PICK E : /\ E[0] = x /\ E[Len(s)] = y
               /\ \A j \in 1 .. Len(s) : DlMoves(s[j], E[j - 1], E[j])
  BY DEF DlLeadTo
<1> DEFINE F == [i \in Nat |-> E[i + 1]]
<1>2. Len(s) \in Nat \ {0} /\ Len(t) = Len(s) - 1 /\ Len(t) \in Nat
  BY DEF DlPopped
<1>3. DlMoves(s[1], x, E[1])
  <2>1. 1 \in 1 .. Len(s) /\ 1 - 1 = 0
    BY <1>2
  <2>2. DlMoves(s[1], E[1 - 1], E[1])
    BY <1>1, <2>1
  <2> QED
    BY <1>1, <2>1, <2>2
<1>4. ASSUME NEW i \in 1 .. Len(t) PROVE DlMoves(t[i], F[i - 1], F[i])
  <2>1. i + 1 \in 1 .. Len(s) /\ t[i] = s[i + 1]
    BY <1>2 DEF DlPopped
  <2>2. F[i] = E[i + 1]
    OBVIOUS
  <2>3. i - 1 \in Nat /\ (i - 1) + 1 = i /\ (i + 1) - 1 = i
    BY <1>2
  <2>4. F[i - 1] = E[(i - 1) + 1]
    BY <2>3
  <2>5. DlMoves(s[i + 1], E[(i + 1) - 1], E[i + 1])
    BY <1>1, <2>1
  <2> QED
    BY <2>1, <2>2, <2>3, <2>4, <2>5
<1>5. F[0] = E[1] /\ F[Len(t)] = y
  BY <1>1, <1>2
<1> HIDE DEF F
<1> QED
  BY <1>3, <1>4, <1>5 DEF DlLeadTo

LEMMA DlLeadPushes ==
  ASSUME NEW s, NEW t, NEW c, NEW x, NEW y, NEW z, DlPushed(s, t, c), DlLeadTo(s, x, y),
         DlMoves(c, y, z)
  PROVE  DlLeadTo(t, x, z)
<1>1. PICK E : /\ E[0] = x /\ E[Len(s)] = y
               /\ \A j \in 1 .. Len(s) : DlMoves(s[j], E[j - 1], E[j])
  BY DEF DlLeadTo
<1> DEFINE F == [i \in Nat |-> IF i <= Len(s) THEN E[i] ELSE z]
<1>2. Len(s) \in Nat /\ Len(t) = Len(s) + 1 /\ t[Len(t)] = c
  BY DEF DlPushed
<1>3. ASSUME NEW i \in 1 .. Len(t) PROVE DlMoves(t[i], F[i - 1], F[i])
  <2>1. CASE i = Len(t)
    <3>1. F[i - 1] = y /\ F[i] = z /\ t[i] = c
      BY <1>1, <1>2, <2>1
    <3> QED
      BY <3>1
  <2>2. CASE i # Len(t)
    <3>1. i \in 1 .. Len(s) /\ F[i - 1] = E[i - 1] /\ F[i] = E[i] /\ t[i] = s[i]
      BY <1>2, <2>2 DEF DlPushed
    <3>2. DlMoves(s[i], E[i - 1], E[i])
      BY <1>1, <3>1
    <3> QED
      BY <3>1, <3>2
  <2> QED
    BY <2>1, <2>2
<1>4. F[0] = x /\ F[Len(t)] = z
  BY <1>1, <1>2
<1> HIDE DEF F
<1> QED
  BY <1>3, <1>4 DEF DlLeadTo

\* A block of n words from address e on, and the end of the burst.
LEMMA DlLeadBlock ==
  ASSUME NEW s, NEW t, NEW x, NEW e \in Nat, NEW inc \in {0, 1}, NEW n \in Nat, DlLeadTo(s, x, e),
         Len(s) \in Nat, Len(t) = Len(s) + n \/ Len(t) = Len(s) + n + 1,
         \A i \in 1 .. Len(s) : t[i] = s[i],
         \A i \in 1 .. n : t[Len(s) + i] = [op |-> "write", inc |-> inc, meant |-> e + inc * (i - 1)],
         Len(t) = Len(s) + n + 1 => t[Len(t)] = [op |-> "eow"],
         e + n * inc <= Top
  PROVE  DlLeadTo(t, x, e + n * inc)
<1>1. PICK E : /\ E[0] = x /\ E[Len(s)] = e
               /\ \A j \in 1 .. Len(s) : DlMoves(s[j], E[j - 1], E[j])
  BY DEF DlLeadTo
<1>2. PICK m \in Nat, l \in Nat : m = Len(s) /\ l = Len(t) /\ (l = m + n \/ l = m + n + 1)
  OBVIOUS
<1>3. PICK top \in Nat : top = Top
  BY TopAssumption
<1> DEFINE after(k) == IF inc = 0 THEN e ELSE e + k
           F == [i \in Nat |-> IF i <= m THEN E[i] ELSE IF i <= m + n THEN after(i - m) ELSE after(n)]
<1>4. after(n) = e + n * inc /\ after(n) \in Nat /\ after(n) <= top
  <2>1. CASE inc = 0
    <3>1. n * 0 = 0
      OBVIOUS
    <3> QED
      BY <1>3, <2>1, <3>1
  <2>2. CASE inc = 1
    <3>1. n * 1 = n
      OBVIOUS
    <3> QED
      BY <1>3, <2>2, <3>1
  <2> QED
    BY <2>1, <2>2
<1>5. ASSUME NEW i \in 1 .. l PROVE DlMoves(t[i], F[i - 1], F[i])
  <2>1. CASE i <= m
    <3>1. i \in 1 .. m /\ i - 1 \in Nat /\ i \in Nat /\ i - 1 <= m
      BY <1>2, <2>1
    <3>2. F[i - 1] = E[i - 1] /\ F[i] = E[i] /\ t[i] = s[i]
      BY <1>2, <3>1
    <3>3. DlMoves(s[i], E[i - 1], E[i])
      BY <1>1, <1>2, <3>1
    <3> QED
      BY <3>2, <3>3
  <2>2. CASE i > m /\ i <= m + n
    <3>1. PICK k \in 1 .. n : k = i - m /\ i = m + k
      BY <1>2, <2>2
    <3>2. t[i] = [op |-> "write", inc |-> inc, meant |-> e + inc * (k - 1)]
      BY <1>2, <3>1
    <3>3. F[i] = after(k)
      BY <1>2, <2>2, <3>1
    <3>4. F[i - 1] = after(k - 1)
      <4>1. CASE k = 1
        <5>1. i - 1 = m /\ m \in Nat /\ F[m] = E[m]
          BY <1>2, <3>1, <4>1
        <5>2. after(k - 1) = e
          BY <4>1
        <5> QED
          BY <1>1, <1>2, <5>1, <5>2
      <4>2. CASE k # 1
        <5>1. i - 1 \in Nat /\ ~(i - 1 <= m) /\ i - 1 <= m + n /\ (i - 1) - m = k - 1
          BY <1>2, <3>1, <4>2
        <5> QED
          BY <5>1
      <4> QED
        BY <4>1, <4>2
    <3>5. e + inc * (k - 1) = after(k - 1) /\ after(k - 1) \in Nat /\ after(k) = after(k - 1) + inc
          /\ after(k) <= top
      <4>1. CASE inc = 0
        <5>1. 0 * (k - 1) = 0
          OBVIOUS
        <5> QED
          BY <1>4, <4>1, <5>1
      <4>2. CASE inc = 1
        <5>1. 1 * (k - 1) = k - 1 /\ k <= n /\ k \in Nat /\ k >= 1
          OBVIOUS
        <5> QED
          BY <1>4, <4>2, <5>1
      <4> QED
        BY <4>1, <4>2
    <3> HIDE DEF F, after
    <3>6. t[i].op = "write" /\ t[i].inc = inc /\ t[i].meant = F[i - 1]
      BY <3>2, <3>4, <3>5
    <3> QED
      BY <1>3, <3>3, <3>4, <3>5, <3>6 DEF DlMoves
  <2>3. CASE i > m + n
    <3>1. i = l /\ l = m + n + 1 /\ i - 1 = m + n /\ i - 1 \in Nat /\ i \in Nat
      BY <1>2, <2>3
    <3>2. t[i].op = "eow"
      BY <1>2, <3>1
    <3>3. F[i] = after(n)
      BY <1>2, <3>1
    <3>4. F[i - 1] = after(n)
      <4>1. CASE n = 0
        <5>1. i - 1 = m /\ F[m] = E[m] /\ after(n) = e
          BY <1>2, <3>1, <4>1
        <5> QED
          BY <1>1, <1>2, <5>1
      <4>2. CASE n # 0
        <5>1. ~(i - 1 <= m) /\ i - 1 <= m + n /\ (i - 1) - m = n
          BY <3>1, <4>2
        <5> QED
          BY <3>1, <5>1
      <4> QED
        BY <4>1, <4>2
    <3> HIDE DEF F, after
    <3> QED
      BY <3>2, <3>3, <3>4 DEF DlMoves
  <2> QED
    BY <1>2, <2>1, <2>2, <2>3
<1>6. F[0] = x
  BY <1>1, <1>2
<1>7. F[l] = e + n * inc
  <2>1. CASE n = 0 /\ l = m
    <3>1. F[l] = E[m] /\ n * inc = 0
      BY <2>1
    <3> QED
      BY <1>1, <1>2, <3>1
  <2>2. CASE n # 0 /\ l = m + n
    <3>1. ~(l <= m) /\ l <= m + n /\ l - m = n
      BY <2>2
    <3> QED
      BY <1>4, <3>1
  <2>3. CASE l = m + n + 1
    <3>1. ~(l <= m) /\ ~(l <= m + n)
      BY <2>3
    <3> QED
      BY <1>4, <3>1
  <2> QED
    BY <1>2, <2>1, <2>2, <2>3
<1> HIDE DEF F, after
<1> QED
  BY <1>2, <1>5, <1>6, <1>7 DEF DlLeadTo

\* The commands, and the address if one has to be sent, lead to it.
LEMMA DlAddresses ==
  ASSUME DlTypes, NEW a \in Link!Addr, NEW y, DlLeadTo(down, o_wb_addr, y),
         m_addr_set => y = m_lastaddr, m_lastaddr \in 0 .. Top, Top <= Link!Span(4),
         NEW d, d = down \o Link!AddressSent(a)
  PROVE  /\ IsSeq(d) /\ DlLeadTo(d, o_wb_addr, a) /\ Len(d) \in Nat
         /\ \A j \in 1 .. Len(d) : (j \in 1 .. Len(down) /\ d[j] = down[j]) \/ d[j].op = "addr"
<1>1. PICK S : down \in Seq(S)
  BY DEF DlTypes, IsSeq
<1>2. CASE m_addr_set /\ a = m_lastaddr
  <2>1. Link!AddressSent(a) = << >>
    BY <1>2 DEF Link!AddressSent
  <2>2. down \o << >> = down /\ Len(down) \in Nat
    BY <1>1
  <2>3. d = down
    BY <2>1, <2>2
  <2> QED
    BY <1>2, <2>2, <2>3 DEF DlTypes
<1>3. CASE ~(m_addr_set /\ a = m_lastaddr)
  <2>1. PICK c : c = Link!EncodeAddress(m_addr_set, m_lastaddr, a)
    OBVIOUS
  <2>2. PICK x : x = [op |-> "addr", code |-> c]
    OBVIOUS
  <2>3. Link!AddressSent(a) = <<x>>
    BY <1>3, <2>1, <2>2 DEF Link!AddressSent
  <2>4. d = Append(down, x)
    <3>1. down \in Seq(S \cup {x}) /\ x \in S \cup {x}
      BY <1>1, SeqMonotonic
    <3> HIDE <1>1
    <3>2. down \o <<x>> = Append(down, x)
      BY <3>1, AppendIsConcat
    <3> QED
      BY <2>3, <3>2
  <2>5. DlPushed(down, d, x)
    BY <2>4, DlPush DEF DlTypes
  <2>6. DlMoves(x, y, a)
    <3>1. m_addr_set \in BOOLEAN
      BY DEF DlTypes
    <3>2. Link!Decode(y, c) = a
      BY <2>1, <3>1, AddressIsDecoded
    <3>3. x.op = "addr" /\ x.code = c
      BY <2>2
    <3> QED
      BY <3>2, <3>3 DEF DlMoves
  <2>7. DlLeadTo(d, o_wb_addr, a)
    BY <2>5, <2>6, DlLeadPushes
  <2>8. ASSUME NEW j \in 1 .. Len(d)
        PROVE  (j \in 1 .. Len(down) /\ d[j] = down[j]) \/ d[j].op = "addr"
    <3>1. j \in 1 .. Len(down) \/ j = Len(d)
      BY <2>5 DEF DlPushed
    <3> QED
      BY <2>2, <2>5, <3>1 DEF DlPushed
  <2>9. IsSeq(d) /\ Len(d) \in Nat
    BY <2>5 DEF DlPushed
  <2> QED
    BY <2>7, <2>8, <2>9
<1> QED
  BY <1>2, <1>3

LEMMA DlGuidesReadV ==
  ASSUME DlTypes, DlPhases, DlGuided, Top <= Link!Span(4), call.op = "idle", NEW a \in Link!Addr,
         NEW inc \in {0, 1}, NEW len \in 1 .. MaxLen, a + inc * len <= Top, Link!ReadV(a, inc, len)
  PROVE  DlGuided'
<1>1. PICK y : /\ DlLeadTo(down, o_wb_addr, y)
               /\ (call.op # "read" /\ m_addr_set => y = m_lastaddr)
  BY DEF DlGuided
<1>2. PICK d : d = down \o Link!AddressSent(a)
  OBVIOUS
<1>3. /\ IsSeq(d) /\ DlLeadTo(d, o_wb_addr, a) /\ Len(d) \in Nat
      /\ \A j \in 1 .. Len(d) : (j \in 1 .. Len(down) /\ d[j] = down[j]) \/ d[j].op = "addr"
  <2>1. m_lastaddr \in 0 .. Top
    BY DEF DlGuided
  <2> QED
    BY <1>1, <1>2, <2>1, DlAddresses
<1>4. PICK c : c = Link!Asked(inc, len) /\ c.op \in {"read", "eow"}
  <2>1. Link!Asked(inc, len).op \in {"read", "eow"}
    BY DEF Link!Asked
  <2> QED
    BY <2>1
<1>5. DlPushed(d, down', c)
  <2>1. down' = d \o <<c>>
    BY <1>2, <1>4 DEF Link!ReadV
  <2>2. PICK S : d \in Seq(S)
    BY <1>3 DEF IsSeq
  <2>3. d \in Seq(S \cup {c}) /\ c \in S \cup {c}
    BY <2>2, SeqMonotonic
  <2> HIDE <2>2
  <2>4. d \o <<c>> = Append(d, c)
    BY <2>3, AppendIsConcat
  <2> QED
    BY <1>3, <2>1, <2>4, DlPush
<1>6. DlLeadTo(down', o_wb_addr, a)
  <2>1. DlMoves(c, a, a)
    BY <1>4 DEF DlMoves
  <2>2. PICK t : t = down'
    OBVIOUS
  <2>3. DlLeadTo(t, o_wb_addr, a)
    BY <1>3, <1>5, <2>1, <2>2, DlLeadPushes
  <2> QED
    BY <2>2, <2>3
<1>7. /\ call' = [op |-> "read", at |-> a, inc |-> inc, left |-> len, ok |-> TRUE]
      /\ up' = up /\ m_lastaddr' = m_lastaddr /\ wb_state' = wb_state /\ o_wb_addr' = o_wb_addr
  BY DEF Link!ReadV, Link!Call, Link!exec
<1>8. /\ wb_state # "reading" /\ \A j \in 1 .. Len(down) : down[j].op # "read"
      /\ \A i \in 1 .. Len(up) : up[i].kind \in {"ack"} \cup DlErrors
  BY DlNoReads DEF DlQuiet
<1>9. \A j \in 1 .. Len(down') - 1 : down'[j].op # "read"
  <2>1. \A j \in 1 .. Len(down') - 1 : j \in 1 .. Len(d) /\ down'[j] = d[j]
    BY <1>5 DEF DlPushed
  <2> QED
    BY <1>3, <1>8, <2>1
<1>10. \A i \in 1 .. Len(up') : up'[i].kind \notin DlWords
  BY <1>7, <1>8 DEF DlErrors, DlWords
<1>11. call'.op = "read" /\ call'.at = a /\ call'.inc = inc /\ call'.left = len
  BY <1>7
<1>12. \E u : /\ DlLeadTo(down', o_wb_addr', u)
              /\ (call'.op # "read" /\ m_addr_set' => u = m_lastaddr')
              /\ (call'.op = "read" /\ down' # << >> => u = call'.at)
  BY <1>6, <1>7, <1>11
<1>13. wb_state # "flush" /\ m_lastaddr \in 0 .. Top
  BY DEF DlGuided
<1> QED
  BY <1>7, <1>8, <1>9, <1>10, <1>11, <1>12, <1>13 DEF DlGuided

LEMMA DlGuidesWriteV ==
  ASSUME DlTypes, DlPhases, DlGuided, Top <= Link!Span(4), call.op = "idle", NEW a \in Link!Addr,
         NEW inc \in {0, 1}, NEW len \in 1 .. MaxLen, a + inc * len <= Top, Link!WriteV(a, inc, len)
  PROVE  DlGuided'
<1>1. PICK y : /\ DlLeadTo(down, o_wb_addr, y)
               /\ (call.op # "read" /\ m_addr_set => y = m_lastaddr)
  BY DEF DlGuided
<1>2. PICK d : d = down \o Link!AddressSent(a)
  OBVIOUS
<1>3. DlLeadTo(d, o_wb_addr, a)
  <2>1. m_lastaddr \in 0 .. Top
    BY DEF DlGuided
  <2> QED
    BY <1>1, <1>2, <2>1, DlAddresses
<1>4. /\ call' = [op |-> "write", at |-> a, inc |-> inc, left |-> len, ok |-> TRUE] /\ down' = d
      /\ m_lastaddr' = a /\ m_addr_set' = TRUE /\ wb_state' = wb_state /\ o_wb_addr' = o_wb_addr
  BY <1>2 DEF Link!WriteV, Link!Call, Link!exec
<1>5. call'.op = "write" /\ call'.at = a /\ call'.inc = inc /\ call'.left = len
  BY <1>4
<1>6. wb_state # "reading" /\ wb_state # "flush"
  BY DlNoReads DEF DlGuided, DlQuiet
<1>7. a \in 0 .. Top
  BY TopAssumption DEF Link!Addr
<1>8. \E u : /\ DlLeadTo(down', o_wb_addr', u)
             /\ (call'.op # "read" /\ m_addr_set' => u = m_lastaddr')
             /\ (call'.op = "read" /\ down' # << >> => u = call'.at)
  BY <1>3, <1>4, <1>5
<1> QED
  BY <1>4, <1>5, <1>6, <1>7, <1>8 DEF DlGuided

LEMMA DlGuidesBlock ==
  ASSUME DlTypes, DlPhases, DlGuided, Link!WriteBlock
  PROVE  DlGuided'
<1>1. PICK n \in 1 .. call.left :
           /\ call.op = "write" /\ call.left \in Nat /\ n \in Nat
           /\ m_lastaddr' = m_lastaddr + n * call.inc
           /\ call' = [call EXCEPT !.op = "readidle", !.left = call.left - n, !.at = call.at + n * call.inc]
           /\ IsSeq(down') /\ Len(down) \in Nat
           /\ Len(down') = Len(down) + n \/ Len(down') = Len(down) + n + 1
           /\ \A i \in 1 .. Len(down) : down'[i] = down[i]
           /\ \A i \in 1 .. n : down'[Len(down) + i]
                = [op |-> "write", inc |-> call.inc, meant |-> call.at + call.inc * (i - 1)]
           /\ Len(down') = Len(down) + n + 1 => down'[Len(down')] = [op |-> "eow"]
  BY DlBlock
<1>2. PICK inc \in {0, 1}, e \in Nat, k \in Nat, top \in Nat :
        inc = call.inc /\ e = call.at /\ k = call.left /\ top = Top
  BY TopAssumption DEF DlTypes
<1>3. /\ DlLeadTo(down, o_wb_addr, e) /\ m_lastaddr = e /\ m_addr_set /\ e + inc * k <= top
      /\ wb_state # "flush"
  BY <1>1, <1>2 DEF DlGuided
<1>4. e + n * inc \in Nat /\ e + n * inc <= top /\ (e + n * inc) + inc * (k - n) <= top
  <2>1. n \in Nat /\ n <= k
    BY <1>1, <1>2
  <2>2. CASE inc = 0
    <3>1. n * 0 = 0 /\ 0 * (k - n) = 0 /\ 0 * k = 0
      BY <2>1
    <3> QED
      BY <1>3, <2>2, <3>1
  <2>3. CASE inc = 1
    <3>1. n * 1 = n /\ 1 * (k - n) = k - n /\ 1 * k = k
      BY <2>1
    <3> QED
      BY <1>3, <2>1, <2>3, <3>1
  <2> QED
    BY <2>2, <2>3
<1>5. PICK t : t = down'
  OBVIOUS
<1>6. DlLeadTo(t, o_wb_addr, e + n * inc)
  BY <1>1, <1>2, <1>3, <1>4, <1>5, DlLeadBlock
<1>7. PICK x \in Nat : x = e + n * inc
  BY <1>4
<1> DEFINE l == k - n
<1>8. call' = [call EXCEPT !.op = "readidle", !.left = l, !.at = x] /\ m_lastaddr' = x
  BY <1>1, <1>2, <1>3, <1>7
<1>9. call'.op = "readidle" /\ call'.at = x /\ call'.left = l /\ call'.inc = inc
  BY <1>2, <1>8 DEF DlTypes
<1>10. wb_state' = wb_state /\ o_wb_addr' = o_wb_addr /\ m_addr_set' = m_addr_set
  BY DEF Link!WriteBlock, Link!exec
<1>11. wb_state # "reading"
  BY <1>1, DlNoReads DEF DlQuiet
<1>12. \E u : /\ DlLeadTo(down', o_wb_addr', u)
              /\ (call'.op # "read" /\ m_addr_set' => u = m_lastaddr')
              /\ (call'.op = "read" /\ down' # << >> => u = call'.at)
  BY <1>5, <1>6, <1>7, <1>8, <1>9, <1>10
<1>13. m_lastaddr' \in 0 .. Top /\ call'.at + call'.inc * call'.left <= Top
  BY <1>2, <1>4, <1>7, <1>8, <1>9
<1> QED
  BY <1>3, <1>8, <1>9, <1>10, <1>11, <1>12, <1>13 DEF DlGuided

LEMMA DlGuidesReadWord ==
  ASSUME DlTypes, DlPhases, DlGuided, ~erred, Link!ReadWord
  PROVE  DlGuided'
<1>1. /\ call.op = "read" /\ call.left > 0 /\ up # << >> /\ up' = Tail(up) /\ down' = down
      /\ wb_state' = wb_state /\ o_wb_addr' = o_wb_addr
  BY DEF Link!ReadWord, Link!exec
<1>2. PICK c : c = Head(up) /\ c = up[1] /\ c.kind \in {"ack", "addr", "raw", "tbl"}
  <2>1. Head(up) = up[1] /\ up[1].kind \in {"ack", "addr"} \cup DlErrors \cup DlWords
    BY <1>1, DlHeads
  <2>2. 1 \in 1 .. Len(up)
    BY <1>1, DlPop DEF DlTypes, DlPopped
  <2>3. up[1].kind \notin DlErrors
    BY <2>2 DEF DlTypes
  <2> QED
    BY <2>1, <2>3 DEF DlWords
<1>3. PICK v, w : DlKnows(v) /\ DlTook(v, c, w, call.inc, erred)
  BY <1>1, <1>2, DlHeads
<1>4. DlPopped(up, up')
  BY <1>1, DlPop DEF DlTypes
<1>5. \A i \in 1 .. Len(up') : \E j \in 1 .. Len(up) : up'[i] = up[j]
  <2>1. \A i \in 1 .. Len(up') : i + 1 \in 1 .. Len(up) /\ up'[i] = up[i + 1]
    BY <1>4 DEF DlPopped
  <2> QED
    BY <2>1
<1>6. PICK inc \in {0, 1}, e \in Nat, k \in Nat, top \in Nat :
        inc = call.inc /\ e = call.at /\ k = call.left /\ top = Top
  BY TopAssumption DEF DlTypes
<1>7. /\ e + inc * k <= top /\ wb_state # "flush" /\ (wb_state = "reading" => down = << >>)
      /\ \A j \in 1 .. Len(down) - 1 : down[j].op # "read"
      /\ down # << >> => \A i \in 1 .. Len(up) : up[i].kind \notin DlWords
      /\ m_lastaddr \in 0 .. Top
  BY <1>1, <1>6 DEF DlGuided
<1>8. e <= top /\ (k > 0 => e + inc <= top /\ (e + inc) + inc * (k - 1) <= top)
  <2>1. CASE inc = 0
    <3>1. 0 * k = 0 /\ 0 * (k - 1) = 0
      OBVIOUS
    <3> QED
      BY <1>7, <2>1, <3>1
  <2>2. CASE inc = 1
    <3>1. 1 * k = k /\ 1 * (k - 1) = k - 1
      OBVIOUS
    <3> QED
      BY <1>7, <2>2, <3>1
  <2> QED
    BY <2>1, <2>2
<1>9. PICK y : DlLeadTo(down, o_wb_addr, y) /\ (down # << >> => y = call.at)
  BY <1>1 DEF DlGuided
<1>10. ASSUME call'.op = "read", down # << >> => call'.at = call.at, m_lastaddr' \in 0 .. Top,
             call'.at + call'.inc * call'.left <= Top
       PROVE  DlGuided'
  <2>1. \E z : /\ DlLeadTo(down', o_wb_addr', z)
               /\ (call'.op # "read" /\ m_addr_set' => z = m_lastaddr')
               /\ (call'.op = "read" /\ down' # << >> => z = call'.at)
    BY <1>1, <1>9, <1>10
  <2>2. down' # << >> => \A i \in 1 .. Len(up') : up'[i].kind \notin DlWords
    BY <1>1, <1>5, <1>7
  <2> QED
    BY <1>1, <1>7, <1>10, <2>1, <2>2 DEF DlGuided
<1>11. CASE c.kind = "ack"
  <2>1. call' = call /\ m_lastaddr' = m_lastaddr
    BY <1>2, <1>11 DEF Link!ReadWord
  <2> QED
    BY <1>1, <1>6, <1>7, <1>10, <2>1
<1>12. CASE c.kind = "addr"
  <2>1. call' = call /\ m_lastaddr' = c.at
    BY <1>2, <1>12 DEF Link!ReadWord, Link!AddrTold
  <2>2. c.at = call.at
    BY <1>3, <1>12 DEF DlTook, DlAddr, DlKnows, DlErrors
  <2>3. m_lastaddr' \in 0 .. Top
    BY <1>6, <1>8, <2>1, <2>2
  <2> QED
    BY <1>1, <1>6, <1>7, <1>10, <2>1, <2>3
<1>13. CASE c.kind \in DlWords
  <2>1. PICK ok : ok = (call.ok /\ c.at = call.at)
    OBVIOUS
  <2>2. call' = [call EXCEPT !.left = call.left - 1, !.at = call.at + call.inc, !.ok = ok]
        /\ m_lastaddr' = (m_lastaddr + c.inc) % BusSpace
    BY <1>2, <1>13, <2>1 DEF Link!ReadWord, Link!AddrAfter, DlWords
  <2>3. c.inc = inc /\ m_lastaddr = e
    BY <1>3, <1>6, <1>13 DEF DlTook, DlWordAt, DlKnows, DlErrors, DlWords
  <2>4. call'.op = "read" /\ call'.at = e + inc /\ call'.inc = inc /\ call'.left = k - 1
    BY <1>1, <1>6, <2>2 DEF DlTypes
  <2>5. down = << >>
    <3>1. 1 \in 1 .. Len(up)
      BY <1>4 DEF DlPopped
    <3> QED
      BY <1>2, <1>7, <1>13, <3>1
  <2>6. k > 0
    BY <1>1, <1>6
  <2>7. m_lastaddr' \in 0 .. Top
    <3>1. Top \in Nat /\ BusSpace \in Nat \ {0} /\ BusSpace > Top
      BY TopAssumption
    <3>2. e + inc \in 0 .. BusSpace - 1
      BY <1>6, <1>8, <2>6, <3>1
    <3>3. m_lastaddr' = e + inc
      BY <2>2, <2>3, <3>1, <3>2, SmallMod
    <3> QED
      BY <1>6, <1>8, <2>6, <3>3
  <2> QED
    BY <1>6, <1>8, <1>10, <2>4, <2>5, <2>6, <2>7
<1> QED
  BY <1>2, <1>11, <1>12, <1>13 DEF DlWords

LEMMA DlGuidesRest ==
  ASSUME DlTypes, DlPhases, DlGuided, ~erred,
         Link!ReadDone \/ Link!ReadIdle \/ Link!Discard \/ Link!Restart
  PROVE  DlGuided'
<1>1. PICK y : /\ DlLeadTo(down, o_wb_addr, y)
               /\ (call.op # "read" /\ m_addr_set => y = m_lastaddr)
  BY DEF DlGuided
<1>2. /\ down' = down /\ wb_state' = wb_state /\ o_wb_addr' = o_wb_addr
  BY DEF Link!ReadDone, Link!ReadIdle, Link!Discard, Link!Restart, Link!exec
<1>3. call # Link!Ended
  BY DlConstantCalls DEF DlGuided
<1>4. CASE Link!ReadDone
  <2>1. call.op = "read" /\ call.left = 0 /\ m_lastaddr' = m_lastaddr
        /\ call' = IF m_lastaddr = call.at THEN Link!Idle ELSE Link!Ended
    BY <1>4 DEF Link!ReadDone, Link!AllRead
  <2>2. down = << >> /\ m_lastaddr = call.at /\ DlSame(m_lastaddr, m_rdaddr, m_readtbl)
        /\ wb_state = "idle"
    BY <2>1, DlAllRead
  <2>3. call'.op = "idle"
    BY <2>1, <2>2, DlConstantCalls
  <2>4. m_lastaddr = o_wb_addr
    BY <2>2 DEF DlSame
  <2>5. DlLeadTo(<< >>, o_wb_addr, o_wb_addr)
    <3>1. PICK E : E = [i \in {0} |-> o_wb_addr]
      OBVIOUS
    <3>2. Len(<< >>) = 0 /\ E[0] = o_wb_addr /\ 1 .. 0 = {}
      BY <3>1
    <3> QED
      BY <3>2 DEF DlLeadTo
  <2>6. \E z : /\ DlLeadTo(down', o_wb_addr', z)
               /\ (call'.op # "read" /\ m_addr_set' => z = m_lastaddr')
               /\ (call'.op = "read" /\ down' # << >> => z = call'.at)
    BY <1>2, <2>1, <2>2, <2>3, <2>4, <2>5
  <2> QED
    BY <1>2, <2>1, <2>2, <2>3, <2>6 DEF DlGuided
<1>5. CASE Link!ReadIdle
  <2>1. /\ call.op = "readidle" /\ m_lastaddr' = m_lastaddr /\ m_addr_set' = m_addr_set
    BY <1>5 DEF Link!ReadIdle
  <2>2. call' = call \/ call' = Link!Idle \/ call' = [call EXCEPT !.op = "write"]
    <3>1. ASSUME Len(up) >= 2 PROVE up[2].kind \notin DlErrors
      <4>1. Len(up) \in Nat
        BY DlLength DEF DlTypes
      <4>2. 2 \in 1 .. Len(up)
        BY <3>1, <4>1
      <4> QED
        BY <4>2 DEF DlTypes
    <3> QED
      BY <1>5, <3>1 DEF Link!ReadIdle, Link!Short, DlErrors
  <2>3. /\ m_addr_set /\ m_lastaddr = call.at /\ call.at + call.inc * call.left <= Top
        /\ wb_state # "flush" /\ m_lastaddr \in 0 .. Top
    BY <2>1 DEF DlGuided
  <2>4. wb_state # "reading"
    BY <2>1, DlNoReads DEF DlQuiet
  <2>5. y = m_lastaddr
    BY <1>1, <2>1, <2>3
  <2>6. CASE call' = Link!Idle
    <3>1. call'.op = "idle"
      BY <2>6, DlConstantCalls
    <3>2. \E z : /\ DlLeadTo(down', o_wb_addr', z)
                 /\ (call'.op # "read" /\ m_addr_set' => z = m_lastaddr')
                 /\ (call'.op = "read" /\ down' # << >> => z = call'.at)
      BY <1>1, <1>2, <2>1, <2>5, <3>1
    <3> QED
      BY <1>2, <2>1, <2>3, <2>4, <3>1, <3>2 DEF DlGuided
  <2>7. CASE call' = call \/ call' = [call EXCEPT !.op = "write"]
    <3>1. call'.op \in {"readidle", "write"} /\ call'.at = call.at /\ call'.inc = call.inc
          /\ call'.left = call.left
      BY <2>1, <2>7 DEF DlTypes
    <3>2. \E z : /\ DlLeadTo(down', o_wb_addr', z)
                 /\ (call'.op # "read" /\ m_addr_set' => z = m_lastaddr')
                 /\ (call'.op = "read" /\ down' # << >> => z = call'.at)
      BY <1>1, <1>2, <2>1, <2>5, <3>1
    <3> QED
      BY <1>2, <2>1, <2>3, <2>4, <3>1, <3>2 DEF DlGuided
  <2> QED
    BY <2>2, <2>6, <2>7
<1>6. CASE Link!Discard
  BY <1>3, <1>6 DEF Link!Discard
<1>7. CASE Link!Restart
  <2>1. call' = Link!Idle /\ m_addr_set' = FALSE /\ m_lastaddr' \in 0 .. Top /\ wb_state # "reading"
    BY <1>7 DEF Link!Restart
  <2>2. call'.op = "idle"
    BY <2>1, DlConstantCalls
  <2>3. \E z : /\ DlLeadTo(down', o_wb_addr', z)
               /\ (call'.op # "read" /\ m_addr_set' => z = m_lastaddr')
               /\ (call'.op = "read" /\ down' # << >> => z = call'.at)
    BY <1>1, <1>2, <2>1, <2>2
  <2>4. wb_state # "flush"
    BY DEF DlGuided
  <2> QED
    BY <1>2, <2>1, <2>2, <2>3, <2>4 DEF DlGuided
<1> QED
  BY <1>4, <1>5, <1>6, <1>7

LEMMA DlHostGuides ==
  ASSUME DlTypes, DlPhases, DlGuided, ~erred, Top <= Link!Span(4), Link!Host
  PROVE  DlGuided'
<1>1. ASSUME NEW a \in Link!Addr, NEW inc \in {0, 1}, NEW len \in 1 .. MaxLen, call = Link!Idle,
             a + inc * len <= Top, Link!ReadV(a, inc, len)
      PROVE  DlGuided'
  <2>1. call.op = "idle"
    BY <1>1, DlConstantCalls
  <2> QED
    BY <1>1, <2>1, DlGuidesReadV
<1>2. ASSUME NEW a \in Link!Addr, NEW inc \in {0, 1}, NEW len \in 1 .. MaxLen, call = Link!Idle,
             a + inc * len <= Top, Link!WriteV(a, inc, len)
      PROVE  DlGuided'
  <2>1. call.op = "idle"
    BY <1>2, DlConstantCalls
  <2> QED
    BY <1>2, <2>1, DlGuidesWriteV
<1>3. CASE Link!WriteBlock
  BY <1>3, DlGuidesBlock
<1>4. CASE Link!ReadWord
  BY <1>4, DlGuidesReadWord
<1> QED
  BY <1>1, <1>2, <1>3, <1>4, DlGuidesRest DEF Link!Host

\* A command is taken, what is sent is no error.
LEMMA DlGuidesCommand ==
  ASSUME DlTypes, DlGuided, DlHostStays, down # << >>, down' = Tail(down), wb_state' # "flush",
         wb_state' = "reading" => down' = << >>,
         \A z : DlMoves(down[1], o_wb_addr, z) => z = o_wb_addr',
         down' # << >> => \A i \in 1 .. Len(up') :
           up'[i].kind = "ack" \/ (i \in 1 .. Len(up) /\ up'[i] = up[i])
  PROVE  DlGuided'
<1>1. PICK y : /\ DlLeadTo(down, o_wb_addr, y)
               /\ (call.op # "read" /\ m_addr_set => y = m_lastaddr)
               /\ (call.op = "read" /\ down # << >> => y = call.at)
  BY DEF DlGuided
<1>2. PICK t : t = down'
  OBVIOUS
<1>3. DlPopped(down, t)
  BY <1>2, DlPop DEF DlTypes
<1>4. PICK z : DlMoves(down[1], o_wb_addr, z) /\ DlLeadTo(t, z, y)
  BY <1>1, <1>3, DlLeadPops
<1>5. \E u : /\ DlLeadTo(down', o_wb_addr', u)
             /\ (call'.op # "read" /\ m_addr_set' => u = m_lastaddr')
             /\ (call'.op = "read" /\ down' # << >> => u = call'.at)
  BY <1>1, <1>2, <1>4 DEF DlHostStays
<1>6. /\ call'.op # "ended" /\ m_lastaddr' \in 0 .. Top
      /\ call'.op # "idle" => call'.at + call'.inc * call'.left <= Top
      /\ call'.op \in {"write", "readidle"} => m_addr_set' /\ m_lastaddr' = call'.at
  BY DEF DlGuided, DlHostStays
<1>7. ASSUME call'.op = "read", NEW j \in 1 .. Len(down') - 1 PROVE down'[j].op # "read"
  <2>1. j \in 1 .. Len(t) /\ j + 1 \in 1 .. Len(down) - 1
    BY <1>2, <1>3 DEF DlPopped
  <2>2. down'[j] = down[j + 1]
    BY <1>2, <1>3, <2>1 DEF DlPopped
  <2>3. call.op = "read"
    BY <1>7 DEF DlHostStays
  <2> QED
    BY <2>1, <2>2, <2>3 DEF DlGuided
<1>8. ASSUME call'.op = "read", down' # << >>, NEW i \in 1 .. Len(up') PROVE up'[i].kind \notin DlWords
  <2>1. call.op = "read"
    BY <1>8 DEF DlHostStays
  <2>2. \A k \in 1 .. Len(up) : up[k].kind \notin DlWords
    BY <2>1 DEF DlGuided
  <2> QED
    BY <1>8, <2>2 DEF DlWords
<1> QED
  BY <1>5, <1>6, <1>7, <1>8 DEF DlGuided

\* What the board sends while no error is told is none.
LEMMA DlNoError ==
  ASSUME DlTypes, DlTells, ~erred', NEW c, NEW b, up' = Append(up, c) \/ up' = up \o <<c, b>>
  PROVE  c.kind \notin DlErrors /\ (up' = up \o <<c, b>> => b.kind \notin DlErrors)
<1>1. CASE up' = up \o <<c, b>>
  <2>1. PICK s : s = Append(up, c)
    OBVIOUS
  <2>2. DlPushed(up, s, c) /\ DlPushed(s, up', b)
    BY <1>1, <2>1, DlSendsTwo
  <2>3. /\ Len(s) \in 1 .. Len(s) /\ Len(s) \in 1 .. Len(up') /\ Len(up') \in 1 .. Len(up')
        /\ s[Len(s)] = c /\ up'[Len(up')] = b /\ up'[Len(s)] = s[Len(s)]
    BY <2>2 DEF DlPushed
  <2> QED
    BY <2>3 DEF DlTells
<1>2. CASE up' # up \o <<c, b>>
  <2>1. DlPushed(up, up', c)
    BY <1>2, DlSendsOne
  <2>2. Len(up') \in 1 .. Len(up') /\ up'[Len(up')] = c
    BY <2>1 DEF DlPushed
  <2> QED
    BY <1>2, <2>2 DEF DlTells
<1> QED
  BY <1>1, <1>2

\* The step of the board.
LEMMA DlBoardGuides ==
  ASSUME DlTypes, DlPhases, DlTells, DlGuided, ~erred', Link!Board
  PROVE  DlGuided'
<1>1. DlHostStays /\ ~erred
  BY DEF Link!Board, Link!ExecAddr, Link!ExecWrite, Link!Flush, Link!ExecEow, Link!ExecRead,
     Link!ReadStep, Link!ReadError, Link!OutOfStep, Link!host, DlHostStays, DlTells
<1>2. /\ call.op # "ended" /\ wb_state # "flush" /\ (wb_state = "reading" => down = << >>)
      /\ (call.op = "read" => \A j \in 1 .. Len(down) - 1 : down[j].op # "read")
  BY DEF DlGuided
<1>3. \A op : Link!Command(op) =>
        down # << >> /\ down' = Tail(down) /\ down[1].op = op /\ DlPopped(down, down')
        /\ Head(down) = down[1]
  BY DlTakesCommand, DlPop DEF DlTypes, Link!Command
<1>4. CASE Link!ExecAddr
  <2>1. /\ Link!Command("addr") /\ o_wb_addr' = Link!Decode(o_wb_addr, Head(down).code)
        /\ wb_state' = "idle" /\ up' = up
    BY <1>4 DEF Link!ExecAddr
  <2>2. \A z : DlMoves(down[1], o_wb_addr, z) => z = o_wb_addr'
    BY <1>3, <2>1 DEF DlMoves
  <2> QED
    BY <1>1, <1>3, <2>1, <2>2, DlGuidesCommand
<1>5. CASE Link!ExecWrite
  <2>1. /\ Link!Command("write") /\ o_wb_addr' = (o_wb_addr + Head(down).inc) % BusSpace
    BY <1>5 DEF Link!ExecWrite
  <2>2. o_wb_addr \in Mapped /\ wb_state' = "writing" /\ up' = Append(up, Link!Told("ack"))
    <3>1. ASSUME up' = up \o <<Link!Told("ack"), Link!Told("err")>> PROVE FALSE
      <4>1. PICK c, b : c = Link!Told("ack") /\ b = Link!Told("err")
        OBVIOUS
      <4>2. b.kind \notin DlErrors
        BY <3>1, <4>1, DlNoError
      <4> QED
        BY <4>1, <4>2 DEF Link!Told, DlErrors
    <3> QED
      BY <1>5, <3>1 DEF Link!ExecWrite
  <2>3. \A z : DlMoves(down[1], o_wb_addr, z) => z = o_wb_addr'
    <3>1. ASSUME NEW z, DlMoves(down[1], o_wb_addr, z) PROVE z = o_wb_addr'
      <4>1. PICK x \in Nat, inc \in {0, 1}, top \in Nat, sp \in Nat :
              x = o_wb_addr /\ inc = down[1].inc /\ top = Top /\ sp = BusSpace
        BY <1>3, <2>1, <3>1, TopAssumption DEF DlMoves
      <4>2. z = x + inc /\ x + inc <= top /\ top < sp
        BY <1>3, <2>1, <3>1, <4>1, TopAssumption DEF DlMoves
      <4>3. (x + inc) % sp = x + inc
        BY <4>2
      <4> QED
        BY <1>3, <2>1, <4>1, <4>2, <4>3
    <3> QED
      BY <3>1
  <2>4. ASSUME NEW i \in 1 .. Len(up')
        PROVE  up'[i].kind = "ack" \/ (i \in 1 .. Len(up) /\ up'[i] = up[i])
    <3>1. PICK c : c = Link!Told("ack")
      OBVIOUS
    <3>2. DlPushed(up, up', c) /\ c.kind = "ack"
      BY <2>2, <3>1, DlSendsOne DEF Link!Told
    <3>3. i \in 1 .. Len(up) \/ i = Len(up')
      BY <3>2 DEF DlPushed
    <3> QED
      BY <3>2, <3>3 DEF DlPushed
  <2> QED
    BY <1>1, <1>3, <2>1, <2>2, <2>3, <2>4, DlGuidesCommand
<1>6. CASE Link!Flush
  BY <1>2, <1>6 DEF Link!Flush
<1>7. CASE Link!ExecEow
  <2>1. Link!Command("eow") /\ o_wb_addr' = o_wb_addr /\ wb_state' = "idle" /\ up' = up
    BY <1>7 DEF Link!ExecEow
  <2>2. \A z : DlMoves(down[1], o_wb_addr, z) => z = o_wb_addr'
    BY <1>3, <2>1 DEF DlMoves
  <2> QED
    BY <1>1, <1>3, <2>1, <2>2, DlGuidesCommand
<1>8. CASE Link!ExecRead
  <2>1. Link!Command("read") /\ o_wb_addr' = o_wb_addr /\ wb_state' = "reading"
    BY <1>8 DEF Link!ExecRead
  <2>2. \A z : DlMoves(down[1], o_wb_addr, z) => z = o_wb_addr'
    BY <1>3, <2>1 DEF DlMoves
  <2>3. down' = << >>
    <3>1. DlPopped(down, down') /\ down[1].op = "read"
      BY <1>3, <2>1
    <3>2. call.op = "read"
      <4>1. 1 \in 1 .. Len(down)
        BY <3>1 DEF DlPopped
      <4> QED
        BY <1>2, <3>1, <4>1, DlNoReads DEF DlQuiet
    <3>3. Len(down) = 1
      <4>1. ASSUME Len(down) # 1 PROVE FALSE
        <5>1. 1 \in 1 .. Len(down) - 1
          BY <3>1, <4>1 DEF DlPopped
        <5> QED
          BY <1>2, <3>1, <3>2, <5>1
      <4> QED
        BY <4>1
    <3>4. Len(down') = 0 /\ IsSeq(down')
      BY <3>1, <3>3 DEF DlPopped
    <3> QED
      BY <3>4, DlLength
  <2> QED
    BY <1>1, <1>3, <2>1, <2>2, <2>3, DlGuidesCommand
<1>9. CASE Link!ReadStep
  <2>1. down = << >> /\ down' = down /\ wb_state = "reading"
    BY <1>2, <1>9 DEF Link!ReadStep
  <2>2. call.op = "read"
    BY <1>2, <2>1, DlNoReads DEF DlQuiet
  <2>3. \E u : DlLeadTo(down', o_wb_addr', u)
    <3>1. PICK x : x = o_wb_addr'
      OBVIOUS
    <3>2. PICK E : E = [i \in {0} |-> x]
      OBVIOUS
    <3>3. Len(<< >>) = 0 /\ E[0] = x /\ 1 .. 0 = {}
      BY <3>2
    <3>4. DlLeadTo(<< >>, x, x)
      BY <3>3 DEF DlLeadTo
    <3> QED
      BY <2>1, <3>1, <3>4
  <2>4. \E u : /\ DlLeadTo(down', o_wb_addr', u)
               /\ (call'.op # "read" /\ m_addr_set' => u = m_lastaddr')
               /\ (call'.op = "read" /\ down' # << >> => u = call'.at)
    BY <1>1, <2>1, <2>2, <2>3 DEF DlHostStays
  <2>5. wb_state' # "flush"
    BY <1>9 DEF Link!ReadStep
  <2>6. 1 .. Len(down') - 1 = {}
    BY <2>1
  <2> QED
    BY <1>1, <2>1, <2>2, <2>4, <2>5, <2>6 DEF DlGuided, DlHostStays
<1>10. CASE Link!ReadError
  <2>1. PICK c, b : c = Link!Told("err") /\ b = Link!Told("reset")
    OBVIOUS
  <2>2. up' = Append(up, c) \/ up' = up \o <<c, b>>
    BY <1>10, <2>1 DEF Link!ReadError
  <2>3. c.kind \notin DlErrors
    BY <2>2, DlNoError
  <2> QED
    BY <2>1, <2>3 DEF Link!Told, DlErrors
<1>11. CASE Link!OutOfStep
  <2>1. PICK c : c = Link!Told("err")
    OBVIOUS
  <2>2. up' = Append(up, c)
    BY <1>11, <2>1 DEF Link!OutOfStep
  <2>3. c.kind \notin DlErrors
    BY <2>2, DlNoError
  <2> QED
    BY <2>1, <2>3 DEF Link!Told, DlErrors
<1> QED
  BY <1>4, <1>5, <1>6, <1>7, <1>8, <1>9, <1>10, <1>11 DEF Link!Board

\* Codewords stay a sequence.
LEMMA DlSeqStays ==
  ASSUME DlTypes, DlPhases, Link!Next
  PROVE  IsSeq(up')
<1>1. CASE Link!Board
  <2>1. \/ up' = up
        \/ \E c : up' = Append(up, c)
        \/ \E c, b : up' = up \o <<c, b>>
    BY <1>1 DEF Link!Board, Link!ExecAddr, Link!ExecWrite, Link!Flush, Link!ExecEow, Link!ExecRead,
       Link!ReadStep, Link!WordRead, Link!ReadError, Link!OutOfStep
  <2>2. CASE up' = up
    BY <2>2 DEF DlTypes
  <2>3. ASSUME NEW c, up' = Append(up, c) PROVE IsSeq(up')
    BY <2>3, DlSendsOne DEF DlPushed
  <2>4. ASSUME NEW c, NEW b, up' = up \o <<c, b>> PROVE IsSeq(up')
    BY <2>4, DlSendsTwo DEF DlPushed
  <2> QED
    BY <2>1, <2>2, <2>3, <2>4
<1>2. CASE Link!Host
  <2>1. \/ up' = up
        \/ up' = << >>
        \/ up # << >> /\ up' = Tail(up)
        \/ Link!ReadIdle
    BY <1>2 DEF Link!Host, Link!ReadV, Link!WriteV, Link!WriteBlock, Link!ReadWord, Link!ReadDone,
       Link!Discard, Link!Restart
  <2>2. CASE up' = up
    BY <2>2 DEF DlTypes
  <2>3. CASE up' = << >>
    <3>1. << >> \in Seq({})
      OBVIOUS
    <3> QED
      BY <2>3, <3>1 DEF IsSeq
  <2>4. CASE up # << >> /\ up' = Tail(up)
    BY <2>4, DlPop DEF DlTypes, DlPopped
  <2>5. CASE Link!ReadIdle
    BY <2>5, DlLooks
  <2> QED
    BY <2>1, <2>2, <2>3, <2>4, <2>5
<1> QED
  BY <1>1, <1>2 DEF Link!Next

\* Of a program that reads where its last write left off, or goes on after an
\* error, only until the first error.
DlInv == ~(erred /\ (ReadsBack \/ Catches)) => DlTypes /\ DlPhases /\ (~erred => DlGuided)

LEMMA DlInvInit ==
  ASSUME Link!Init PROVE DlInv
<1>1. /\ down = << >> /\ up = << >> /\ erred = FALSE /\ call = Link!Idle /\ wrote = FALSE
      /\ m_addr_set = FALSE /\ m_lastaddr = 0 /\ m_rdaddr = 0 /\ wb_state = "idle"
      /\ r_new_addr = TRUE /\ tbl_addr = 0 /\ tbl_filled = FALSE
      /\ DOMAIN m_readtbl = DlSlot /\ DOMAIN compression_tbl = DlSlot
  BY DEF Link!Init, Link!CodeInit, Link!Slot, DlSlot
<1>2. call.op = "idle"
  BY <1>1, DlConstantCalls
<1>3. << >> \in Seq({}) /\ Len(<< >>) = 0 /\ 1 .. 0 = {} /\ 0 \in DlSlot
  BY TAssumption DEF DlSlot
<1>4. IsSeq(up) /\ IsSeq(down)
  BY <1>1, <1>3 DEF IsSeq
<1>5. DlTypes
  BY <1>1, <1>2, <1>3, <1>4, DlConstantCalls DEF DlTypes
<1>6. DlPhases
  BY <1>1, <1>2 DEF DlPhases, DlRests
<1>7. DlGuided
  <2>1. DlLeadTo(<< >>, o_wb_addr, o_wb_addr)
    <3>1. PICK E : E = [i \in {0} |-> o_wb_addr]
      OBVIOUS
    <3>2. E[0] = o_wb_addr
      BY <3>1
    <3> QED
      BY <1>3, <3>2 DEF DlLeadTo
  <2>2. 0 \in 0 .. Top
    BY TopAssumption
  <2> QED
    BY <1>1, <1>2, <2>1, <2>2 DEF DlGuided
<1> QED
  BY <1>5, <1>6, <1>7 DEF DlInv

LEMMA DlInvStep ==
  ASSUME Top <= Span(4), DlInv, Link!Next
  PROVE  DlInv'
<1>0. SUFFICES ASSUME ~(erred' /\ (ReadsBack \/ Catches)) PROVE DlInv'
  BY DEF DlInv
<1> (ReadsBack \/ Catches) => ~erred
  BY <1>0, ZenonT(30) DEF Link!Next
<1>1. DlTypes /\ DlPhases /\ (~erred => DlGuided)
  BY DEF DlInv
<1>2. DlTells
  BY <1>1, DlSeqStays, DlErredTells
<1>3. Top <= Link!Span(4)
  BY DEF Span, Link!Span
<1>4. CASE Link!Host
  <2>1. DlTypes' /\ DlPhases'
    BY <1>1, <1>2, <1>4, DlHostKeeps
  <2>2. ~erred' => DlGuided'
    BY <1>1, <1>2, <1>3, <1>4, DlHostGuides DEF DlTells
  <2> QED
    BY <2>1, <2>2 DEF DlInv
<1>5. CASE Link!Board
  <2>1. ASSUME ~erred, call.op = "read", down # << >>, Head(down).op = "read"
        PROVE  o_wb_addr = call.at
    <3>1. DlPopped(down, Tail(down)) /\ Head(down) = down[1]
      BY <1>1, <2>1, DlPop DEF DlTypes
    <3>2. /\ \A j \in 1 .. Len(down) - 1 : down[j].op # "read"
          /\ \E y : DlLeadTo(down, o_wb_addr, y) /\ y = call.at
      BY <1>1, <2>1 DEF DlGuided
    <3>3. Len(down) = 1
      <4>1. ASSUME Len(down) # 1 PROVE FALSE
        <5>1. 1 \in 1 .. Len(down) - 1
          BY <3>1, <4>1 DEF DlPopped
        <5> QED
          BY <2>1, <3>1, <3>2, <5>1
      <4> QED
        BY <4>1
    <3>4. PICK E : /\ E[0] = o_wb_addr /\ E[1] = call.at
                   /\ \A j \in 1 .. 1 : DlMoves(down[j], E[j - 1], E[j])
      BY <3>2, <3>3 DEF DlLeadTo
    <3>5. 1 \in 1 .. 1 /\ 1 - 1 = 0
      OBVIOUS
    <3>6. DlMoves(down[1], E[0], E[1])
      BY <3>4, <3>5
    <3> QED
      BY <2>1, <3>1, <3>4, <3>6 DEF DlMoves
  <2>2. DlPhases'
    BY <1>1, <1>2, <1>5, <2>1, DlBoardPhases
  <2>3. DlTypes'
    BY <1>1, <1>2, <1>5, DlBoardTypes
  <2>4. ~erred' => DlGuided'
    BY <1>1, <1>2, <1>5, DlBoardGuides DEF DlTells
  <2> QED
    BY <2>2, <2>3, <2>4 DEF DlInv
<1> QED
  BY <1>4, <1>5 DEF Link!Next

\* What the host is given, and where a read ends.
LEMMA DlGivesWords ==
  ASSUME DlInv, ~ReadsBack, ~Catches PROVE Link!AnswersRight /\ Link!ReadEndsWhereExpected /\ Link!WrongAddressNoticed
<1>1. DlTypes /\ DlPhases
  BY DEF DlInv
<1>2. ASSUME ~erred, call.op = "read", call.left > 0, up # << >>, Head(up).kind \in {"raw", "tbl"}
      PROVE  Head(up).at = call.at /\ Link!HostValue(Head(up)) = Head(up).val
  <2>1. PICK v, w : DlKnows(v) /\ DlTook(v, up[1], w, call.inc, erred)
    BY <1>1, <1>2, DlHeads
  <2>2. PICK c : c = Head(up) /\ c = up[1]
    BY <1>1, <1>2, DlHeads
  <2>3. /\ c.kind \in DlWords /\ c.kind \notin DlErrors /\ ~v.over
        /\ DlTook(v, c, w, call.inc, erred)
    BY <1>2, <2>1, <2>2 DEF DlWords, DlErrors, DlKnows
  <2>4. c.at = v.at /\ v.at = call.at
    BY <1>2, <2>1, <2>3 DEF DlTook, DlWordAt, DlKnows
  <2>5. v.rd = m_rdaddr /\ v.tbl = m_readtbl
    BY <2>1 DEF DlKnows
  <2>6. Link!HostValue(c) = c.val
    <3>1. CASE c.kind = "raw"
      BY <2>3, <3>1 DEF DlTook, DlRaw, Link!HostValue
    <3>2. CASE c.kind = "tbl"
      BY <2>3, <2>5, <3>2 DEF DlTook, DlTbl, Link!HostValue
    <3> QED
      BY <2>3, <3>1, <3>2 DEF DlWords
  <2> QED
    BY <2>2, <2>4, <2>6
<1>3. Link!AnswersRight
  BY <1>2 DEF Link!AnswersRight
<1>4. Link!ReadEndsWhereExpected /\ Link!WrongAddressNoticed
  BY <1>1, DlAllRead DEF Link!ReadEndsWhereExpected, Link!WrongAddressNoticed
<1> QED
  BY <1>3, <1>4

LEMMA DlWordsLand ==
  ASSUME DlInv PROVE Link!WritesLand
<1>1. ASSUME ~erred, down # << >>, Head(down).op = "write" PROVE o_wb_addr = Head(down).meant
  <2>1. DlPopped(down, Tail(down)) /\ Head(down) = down[1]
    BY <1>1, DlPop DEF DlTypes, DlInv
  <2>2. PICK y : DlLeadTo(down, o_wb_addr, y)
    BY <1>1 DEF DlInv, DlGuided
  <2>3. PICK z : DlMoves(down[1], o_wb_addr, z)
    BY <2>1, <2>2, DlLeadPops
  <2> QED
    BY <1>1, <2>1, <2>3 DEF DlMoves
<1> QED
  BY <1>1 DEF Link!WritesLand

(***************************************************************************)
(* The link, through the steps of the other parts, too.                    *)
(***************************************************************************)
LinkInv == part = "link" => DlInv

LEMMA LinkInvBegins ==
  ASSUME BoardInit PROVE LinkInv
BY DlInvInit DEF BoardInit, LinkInv

LEMMA LinkInvKept ==
  ASSUME Top <= Span(4), LinkInv, [BoardNext]_boardvars
  PROVE  LinkInv'
<1>1. ASSUME UNCHANGED linkvars, DlInv PROVE DlInv'
  <2>1. DlTypes' <=> DlTypes
    BY <1>1 DEF linkvars, DlTypes
  <2>2. DlPhases' <=> DlPhases
    BY <1>1 DEF linkvars, DlPhases, DlReads, DlKnows, DlBoard, DlWaits, DlUnderWay, DlAnswered,
       DlInStep, DlSame, DlAgree, DlQuiet, DlWrites, DlLost, DlRests, Link!Valid
  <2>3. (DlGuided' <=> DlGuided) /\ erred' = erred
    BY <1>1 DEF linkvars, DlGuided
  <2> QED
    BY <1>1, <2>1, <2>2, <2>3 DEF DlInv
<1>2. CASE LinkRuns
  BY <1>2, DlInvStep DEF LinkRuns, LinkInv, BoardNext
<1>3. part' = part
  BY DEF BoardNext, boardvars
<1>4. CASE ~LinkRuns
  <2>1. UNCHANGED linkvars
    BY <1>4 DEF BoardNext, boardvars, SdramRuns, MoverRuns, FetchRuns, LoadsRun, TimersRun, IntsRun
  <2> QED
    BY <1>1, <1>3, <2>1 DEF LinkInv
<1> QED
  BY <1>2, <1>3, <1>4 DEF LinkInv

(***************************************************************************)
(* The words a program reads are those of the addresses it asked for,      *)
(* whole or by their place in the table, a read ends where readv expects   *)
(* it to, and after an error it returns no word of another address         *)
(* (ttybus.cpp, wbuexec.v, wbucompress.v); for every table, word, and      *)
(* length of a call, as long as no program reads where its last write left *)
(* off or goes on after an error, and addresses have at most four digits.  *)
(***************************************************************************)
THEOREM ReadsAreRight ==
  ASSUME ~ReadsBack, ~Catches, Top <= Span(4)
  PROVE  BoardSpec => []ReadsRight
<1>1. BoardInit => LinkInv
  BY LinkInvBegins
<1>2. LinkInv /\ [BoardNext]_boardvars => LinkInv'
  BY LinkInvKept
<1>3. LinkInv => ReadsRight
  BY DlGivesWords DEF LinkInv, ReadsRight
<1> QED
  BY <1>1, <1>2, <1>3, PTL DEF BoardSpec

(***************************************************************************)
(* A word that is written is written where the program meant it            *)
(* (ttybus.cpp, writev; wbuexec.v), until an error is told and whatever    *)
(* the program reads: however the address came about, as long as addresses *)
(* have at most four digits.                                               *)
(***************************************************************************)
THEOREM WordsLandWhereMeant ==
  ASSUME Top <= Span(4)
  PROVE  BoardSpec => []WritesLand
<1>1. BoardInit => LinkInv
  BY LinkInvBegins
<1>2. LinkInv /\ [BoardNext]_boardvars => LinkInv'
  BY LinkInvKept
<1>3. LinkInv => WritesLand
  BY DlWordsLand DEF LinkInv, WritesLand
<1> QED
  BY <1>1, <1>2, <1>3, PTL DEF BoardSpec
=============================================================================
