------------------------------ MODULE BoardParts -----------------------------
(***************************************************************************)
(* The debug link from end to end, and the parts of the board that are     *)
(* explored on their own, one after the other in a single run: part says   *)
(* which of them runs, all the others stay as they begin.                  *)
(***************************************************************************)
EXTENDS WbSdram, LinkBounds, ZipBounds

CONSTANTS Word,                                  \* DebugLink
          Ids,                                   \* PipeMem
          Pulses, Levels, Counters               \* Interrupts

VARIABLES
  part,
  m_addr_set, m_lastaddr, m_rdaddr, m_readtbl, call, wrote, down, up, erred, stray, wb_state,
  o_wb_addr, r_new_addr, r_inc, r_len, tbl_addr, tbl_filled, compression_tbl,
  dma, pend, dly, job, out,
  pf, bus, cpu, code,
  mem, devs, issued, due, lock,
  tm, jif, left, again, alarm, rings, met,
  pic, ctri, brd, alt, h, todo, looked

Link   == INSTANCE DebugLink WITH Value <- Word
Mover  == INSTANCE WbDma
Fetch  == INSTANCE PfCache
Loads  == INSTANCE PipeMem WITH owed <- issued
Timers == INSTANCE ZipTimers
Ints   == INSTANCE Interrupts

sdramvars == vars
linkvars  == <<m_addr_set, m_lastaddr, m_rdaddr, m_readtbl, call, wrote, down, up, erred, stray,
               wb_state, o_wb_addr, r_new_addr, r_inc, r_len, tbl_addr, tbl_filled,
               compression_tbl>>
movervars == <<dma, pend, dly, job, out>>
fetchvars == <<pf, bus, cpu, code>>
loadsvars == <<mem, devs, issued, due, lock>>
timervars == <<tm, jif, left, again, alarm, rings, met>>
intsvars  == <<pic, ctri, brd, alt, h, todo, looked>>
-----------------------------------------------------------------------------
\* A part that does not run: the SDRAM waits as it begins, of the others there
\* is nothing.
Off == "off"
LinkOff ==
  /\ m_addr_set = Off /\ m_lastaddr = Off /\ m_rdaddr = Off /\ m_readtbl = Off /\ call = Off
  /\ wrote = Off /\ down = Off /\ up = Off /\ erred = Off /\ stray = Off /\ wb_state = Off
  /\ o_wb_addr = Off /\ r_new_addr = Off /\ r_inc = Off /\ r_len = Off /\ tbl_addr = Off
  /\ tbl_filled = Off /\ compression_tbl = Off
MoverOff == dma = Off /\ pend = Off /\ dly = Off /\ job = Off /\ out = Off
FetchOff == pf = Off /\ bus = Off /\ cpu = Off /\ code = Off
LoadsOff == mem = Off /\ devs = Off /\ issued = Off /\ due = Off /\ lock = Off
TimersOff ==
  tm = Off /\ jif = Off /\ left = Off /\ again = Off /\ alarm = Off /\ rings = Off /\ met = Off
IntsOff ==
  /\ pic = Off /\ ctri = Off /\ brd = Off /\ alt = Off /\ h = Off /\ todo = Off
  /\ looked = Off

BoardInit ==
  /\ part \in {"link", "sdram", "dma", "fetch", "loads", "timers", "interrupts"}
  /\ Init
  /\ IF part = "link" THEN Link!Init ELSE LinkOff
  /\ IF part = "dma" THEN Mover!Init ELSE MoverOff
  /\ IF part = "fetch" THEN Fetch!Init ELSE FetchOff
  /\ IF part = "loads" THEN Loads!Init ELSE LoadsOff
  /\ IF part = "timers" THEN Timers!Init ELSE TimersOff
  /\ IF part = "interrupts" THEN Ints!Init ELSE IntsOff

LinkRuns ==
  /\ part = "link" /\ Link!Next
  /\ UNCHANGED <<sdramvars, movervars, fetchvars, loadsvars, timervars, intsvars>>

SdramRuns ==
  /\ part = "sdram" /\ Next
  /\ UNCHANGED <<linkvars, movervars, fetchvars, loadsvars, timervars, intsvars>>

MoverRuns ==
  /\ part = "dma" /\ Mover!Next
  /\ UNCHANGED <<linkvars, sdramvars, fetchvars, loadsvars, timervars, intsvars>>

FetchRuns ==
  /\ part = "fetch" /\ Fetch!Next
  /\ UNCHANGED <<linkvars, sdramvars, movervars, loadsvars, timervars, intsvars>>

LoadsRun ==
  /\ part = "loads" /\ Loads!Next
  /\ UNCHANGED <<linkvars, sdramvars, movervars, fetchvars, timervars, intsvars>>

TimersRun ==
  /\ part = "timers" /\ Timers!Next
  /\ UNCHANGED <<linkvars, sdramvars, movervars, fetchvars, loadsvars, intsvars>>

IntsRun ==
  /\ part = "interrupts" /\ Ints!Next
  /\ UNCHANGED <<linkvars, sdramvars, movervars, fetchvars, loadsvars, timervars>>

BoardNext ==
  /\ \/ LinkRuns \/ SdramRuns \/ MoverRuns \/ FetchRuns \/ LoadsRun \/ TimersRun \/ IntsRun
  /\ UNCHANGED part

boardvars == <<part, linkvars, sdramvars, movervars, fetchvars, loadsvars, timervars,
               intsvars>>

BoardSpec == BoardInit /\ [][BoardNext]_boardvars
-----------------------------------------------------------------------------
(* What each part is there for, as its own module states it.               *)
(* CommandsAccepted and RightWord are those of WbSdram.                    *)

(* ttybus.cpp: the words of a read are those at the addresses it is for,   *)
(* whether they were sent whole or by their place in a table, and it ends  *)
(* where it expects to; or it returns nothing.                             *)
ReadsRight ==
  part = "link" => Link!AnswersRight /\ Link!ReadEndsWhereExpected /\ Link!WrongAddressNoticed

(* ttybus.cpp: a word that is written lands where the program meant it. *)
WritesLand == part = "link" => Link!WritesLand

(* wbsdram.v: each request is answered once, neither it nor a refresh      *)
(* waits too long.                                                         *)
AnsweredInTime == OneAnswerEach /\ RefreshInTime /\ StallBounded

(* wbdmac.v: what is written is the source, word by word, and the length   *)
(* register and the interrupt do not run ahead of it.                      *)
Copies == part = "dma" => Mover!Copies

(* pfcache.v: the decoder is handed the instruction it wants. *)
HandsInstruction == part = "fetch" => Fetch!HandsInstruction

(* pipemem.v: a load returns its word to its register, and nothing that    *)
(* was issued is lost.                                                     *)
LoadsReturn == part = "loads" => Loads!LoadsReturn

(* ziptimer.v, zipjiffies.v: they ring when they should, and only then;    *)
(* the jiffies until an alarm is set in the clock in which another rings.  *)
RingsInTime == part = "timers" => Timers!RingsInTime

(* icontrol.v: an interrupt stays pending until the program has read it,   *)
(* of the counters' until a debugger has looked at the peripherals.        *)
NoEventLost == part = "interrupts" => Ints!NoEventLost
=============================================================================
