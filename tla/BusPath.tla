------------------------------- MODULE BusPath -------------------------------
(***************************************************************************)
(* The path from the debug bus master to the devices, as busmaster.v wires *)
(* it: WbuExec, the select of the CPU's debug port by address bit 24       *)
(* (wbu_zip_sel), the priority arbiter it shares with the ZipCPU           *)
(* (rtl/cpu/wbpriarbiter.v) and the bus delay (BusDelay).                  *)
(*                                                                         *)
(* One action is one clock of all of them together.  WbuExec's free        *)
(* choices of stall and answer are here the wires of the path behind it,   *)
(* so a run of this module also shows that what WbuExec takes for granted  *)
(* of the bus is so.                                                       *)
(***************************************************************************)
EXTENDS WbuExec, Sequences

CONSTANTS ZipPort,     \* addresses with bit 24 set
          Unmapped,    \* addresses no device answers
          Crosses,     \* may an access step across bit 24
          DevMax       \* bound: requests the devices, or the debug port, hold

ASSUME PortAssumption == ZipPort \subseteq Addr /\ Unmapped \subseteq Addr /\ Crosses \in BOOLEAN
ASSUME DevMaxAssumption == DevMax \in Nat \ {0}

VARIABLES a_cyc, a_stb, a_ok,                \* the ZipCPU's side
          r_a_owner,                         \* the arbiter
          o_dly_cyc, o_dly_stb, o_dly_req, r_stb, r_req, o_wb_ack, o_wb_err,
          dev,           \* who asked for what the devices hold, oldest first
          answered,      \* who asked for what o_wb_ack or o_wb_err answers
          zip_pend       \* requests the CPU's debug port holds

cpu   == <<a_cyc, a_stb, a_ok>>
delay == <<o_dly_cyc, o_dly_stb, o_dly_req, r_stb, r_req, o_wb_ack, o_wb_err>>
pathvars == <<vars, cpu, r_a_owner, delay, dev, answered, zip_pend>>

Owners == {"CPU", "DBG"}
Request == [by : Owners, ok : BOOLEAN]     \* ok: some device answers

wbu_zip_sel == o_wb_cyc /\ o_wb_addr \in ZipPort

\* The debug master as the arbiter sees it.
b_cyc == o_wb_cyc /\ ~wbu_zip_sel
b_stb == o_wb_stb /\ ~wbu_zip_sel

\* The shared bus behind the arbiter.
bus_cyc == IF r_a_owner THEN a_cyc ELSE b_cyc
bus_stb == IF r_a_owner THEN a_stb ELSE b_stb
bus_req == IF r_a_owner THEN [by |-> "CPU", ok |-> a_ok]
                        ELSE [by |-> "DBG", ok |-> o_wb_addr \notin Unmapped]

Dly == INSTANCE BusDelay
         WITH i_wb_cyc <- bus_cyc, i_wb_stb <- bus_stb, i_wb_req <- bus_req,
              up <- 0, down <- 0

\* Mutant: the grant does not wait for the ZipCPU to let go of the bus.
OwnerImpatient == ~b_cyc \/ (r_a_owner /\ ~b_stb)

\* Does the ZipCPU own the bus at the next clock?
Owner == ~b_cyc \/ (r_a_owner /\ ~(b_stb /\ ~a_cyc))

\* Mutant: the master that does not own the bus is not stalled.
DebugStallUnowned(zstall) == IF wbu_zip_sel THEN zstall ELSE r_stb

\* What the debug master sees, given the debug port's stall and answer.
DebugStall(zstall) == IF wbu_zip_sel THEN zstall ELSE r_a_owner \/ r_stb

DebugAnswer(zack) ==
  LET err == ~r_a_owner /\ o_wb_err
      ack == IF wbu_zip_sel THEN zack ELSE ~r_a_owner /\ o_wb_ack
  IN CASE o_wb_cyc /\ err -> "err"
       [] o_wb_cyc /\ ~err /\ ack -> "ack"
       [] OTHER -> "none"
-----------------------------------------------------------------------------
PathInit ==
  /\ Init
  /\ a_cyc = FALSE /\ a_stb = FALSE /\ a_ok = FALSE
  /\ r_a_owner = TRUE
  /\ o_dly_cyc = FALSE /\ o_dly_stb = FALSE /\ r_stb = FALSE
  /\ o_dly_req = [by |-> "CPU", ok |-> FALSE] /\ r_req = o_dly_req
  /\ o_wb_ack = FALSE /\ o_wb_err = FALSE
  /\ dev = << >> /\ answered = "CPU" /\ zip_pend = 0

\* A request for an address nothing answers is refused in the clock it is
\* made (none_sel); it does not stall.
NoneSel == o_dly_stb /\ ~o_dly_req.ok

Devices(stall, ack) ==
  /\ ack => o_dly_cyc /\ dev # << >>
  /\ Len(dev) = DevMax /\ o_dly_stb /\ ~NoneSel => stall
  /\ NoneSel => ~stall
  /\ LET taken == o_dly_stb /\ o_dly_req.ok /\ ~stall
         left  == IF ack THEN Tail(dev) ELSE dev
     IN dev' = IF ~o_dly_cyc \/ NoneSel THEN << >>
               ELSE IF taken THEN Append(left, o_dly_req.by) ELSE left
  /\ answered' = IF NoneSel THEN o_dly_req.by
                 ELSE IF ack THEN Head(dev) ELSE answered

\* The ZipCPU's debug port (rtl/cpu/zipsystem.v) answers what it takes, a
\* clock later at the earliest; it forgets with the cycle.
DebugPort(zstall, zack) ==
  /\ zack => zip_pend > 0
  /\ zip_pend = DevMax /\ wbu_zip_sel => zstall
  /\ zip_pend' = IF ~o_wb_cyc THEN 0
                 ELSE zip_pend + (IF o_wb_stb /\ wbu_zip_sel /\ ~zstall THEN 1 ELSE 0)
                               - (IF zack THEN 1 ELSE 0)

\* Any of the CPU's bus masters: it keeps the bus's rules, ends its cycle
\* on an error, and may abort it in any clock.
Cpu ==
  /\ a_cyc' \in BOOLEAN /\ a_stb' \in BOOLEAN /\ a_ok' \in BOOLEAN
  /\ a_stb' => a_cyc'
  /\ a_ok' => a_stb'
  /\ a_stb /\ (~r_a_owner \/ r_stb) /\ a_cyc' => a_stb' /\ a_ok' = a_ok
  /\ r_a_owner /\ o_wb_err => ~a_cyc'

PathClock(cmd, stall, ack, zstall, zack) ==
  /\ Clock(cmd, DebugStall(zstall), DebugAnswer(zack))
  /\ Dly!Delay(stall, ack, NoneSel)
  /\ r_a_owner' = Owner
  /\ Devices(stall, ack)
  /\ DebugPort(zstall, zack)
  /\ Cpu

\* No address of the access, nor the one it leaves behind, is across bit 24;
\* in a burst the first write's inc holds for all.
OneSide(cmd) ==
  LET inc == IF wb_state = "WAIT" THEN r_inc ELSE cmd.inc
  IN \A k \in 0 .. (IF cmd.op = "write" THEN 1 ELSE cmd.len) :
       (o_wb_addr + k * inc) % AddrMod \in ZipPort <=> o_wb_addr \in ZipPort

\* The wires the next clock looks at; the others make no difference.
Codewords == {NoCmd} \cup IF o_busy \/ i_rst THEN {} ELSE {cmd \in Cmd : Crosses \/ OneSide(cmd)}
Choice(b) == IF b THEN BOOLEAN ELSE {FALSE}

PathNext == \E cmd \in Codewords, stall \in Choice(o_dly_stb), ack \in Choice(dev # << >>),
               zstall \in Choice(wbu_zip_sel), zack \in Choice(zip_pend > 0) :
              PathClock(cmd, stall, ack, zstall, zack)

PathSpec == PathInit /\ [][PathNext]_pathvars
-----------------------------------------------------------------------------

(***************************************************************************)
(* The master that owns the bus hears only answers to its own requests,    *)
(* although ownership can change while answers are in flight, and the      *)
(* debug master hears none that it does not await.                         *)
(***************************************************************************)
RightOwner ==
  /\ o_wb_ack \/ o_wb_err => (answered = "CPU") = r_a_owner
  /\ DebugAnswer(FALSE) # "none" => pend > 0

\* The debug master's requests in the path, their answer on the wires included.
InFlight ==
  LET is(b) == IF b THEN 1 ELSE 0 IN
  is(r_stb /\ r_req.by = "DBG") + is(o_dly_stb /\ o_dly_req.by = "DBG")
  + is(o_wb_ack /\ ~r_a_owner)
  + (IF o_dly_cyc THEN Cardinality({i \in DOMAIN dev : dev[i] = "DBG"}) ELSE 0)
  + zip_pend

(***************************************************************************)
(* While the debug master waits, everything it waits for is still in the   *)
(* path behind it, through every abort and error of the other master       *)
(* (the path from end to end: busdelay.v's f_expected ==                   *)
(* f_wb_outstanding); it is never more than WbuExec is modelled with.      *)
(***************************************************************************)
NothingLostInPath ==
  /\ o_wb_cyc /\ ~failed /\ DebugAnswer(FALSE) # "err" => pend = InFlight
  /\ pend < MaxPend
=============================================================================
