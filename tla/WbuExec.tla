------------------------------- MODULE WbuExec -------------------------------
(***************************************************************************)
(* rtl/wbuexec.v: the debug bus's Wishbone master.  It takes decoded       *)
(* codewords from the command FIFO, runs the bus transactions they ask     *)
(* for, and turns every answer of the bus into a codeword for the host.    *)
(*                                                                         *)
(* Each action is one clock in one state of the controller.  Its           *)
(* parameters are the wires sampled at that clock: the codeword waiting    *)
(* in the FIFO (NoCmd: none) and the bus's stall and answer.  The counters *)
(* at the foot of wbuexec.v step in every clock beside it.                 *)
(*                                                                         *)
(* The bus is what the master can see of it: it accepts a request in any   *)
(* clock it does not stall, and answers the accepted ones in order, at     *)
(* least a clock later (busdelay.v registers the answers).  An error       *)
(* answers for everything accepted so far (busdelay.v aborts the cycle).   *)
(***************************************************************************)
EXTENDS Integers, FiniteSets

CONSTANTS Lengths,    \* the read lengths the host asks for (1..520)
          AddrMod,    \* number of bus addresses (2^32)
          MaxPend,    \* bound: requests the bus takes before it stalls
          HostWaits   \* does the host wait for a read's answers before it
                      \* sends the next command?  (wbubus.v:100-102)

ASSUME LengthsAssumption == Lengths \subseteq 1 .. 1023
ASSUME AddrAssumption == AddrMod \in Nat \ {0}
ASSUME PendAssumption == MaxPend \in 1 .. 1023
ASSUME WaitsAssumption == HostWaits \in BOOLEAN

VARIABLES i_rst,           \* r_wdt_reset of wbubus.v
          wb_state,
          o_wb_cyc, o_wb_stb, o_wb_we, o_wb_addr,   \* the bus
          out,             \* kind of codeword sent by this clock, or "none"
          r_inc, r_new_addr,
          r_len, single_read_request, last_read_request,
          r_acks_needed, last_ack, zero_acks,
          pend,            \* requests the bus accepted and has not answered
          asked, base, issued, told, failed     \* see below

fsm   == <<wb_state, o_wb_cyc, o_wb_stb, o_wb_we, o_wb_addr, out, r_inc>>
count == <<r_new_addr, r_len, single_read_request, last_read_request,
           r_acks_needed, last_ack, zero_acks>>
\* Kept only to state properties, of the current command: the length and
\* first address of the read, the requests accepted, the data words sent,
\* and whether the bus reported an error.
job   == <<asked, base, issued, told, failed>>
vars  == <<i_rst, fsm, count, pend, job>>

Addr == 0 .. AddrMod - 1
State == {"IDLE", "READ", "WRITE", "ACK", "WAIT", "FLUSH"}

(***************************************************************************)
(* Codewords in.  "addr" sets the address, "rel" moves it, "eow" ends a    *)
(* burst of writes.  inc is the bit that steps the address.  The fields a  *)
(* codeword does not have are don't-cares in the code; here they are 0.    *)
(***************************************************************************)
Word(o, a, l, i) == [op |-> o, addr |-> a, len |-> l, inc |-> i]
NoCmd == Word("none", 0, 0, 0)
EOW   == Word("eow", 0, 0, 0)
Cmd == {Word(o, a, 0, 0) : o \in {"addr", "rel"}, a \in Addr}
       \cup {Word("write", 0, 0, i) : i \in {0, 1}}
       \cup {Word("read", 0, l, i) : l \in Lengths, i \in {0, 1}}
       \cup {EOW}

Out == {"none", "addr", "data", "wack", "err", "reset"}

Answer == {"none", "ack", "err"}

\* Mutant: the address moves on although the request was stalled.
NextAddrStalled(stall) == IF r_inc = 1 THEN (o_wb_addr + 1) % AddrMod ELSE o_wb_addr

NextAddr(stall) == IF r_inc = 1 /\ ~stall THEN (o_wb_addr + 1) % AddrMod
                                      ELSE o_wb_addr

\* Mutant: the stall of this clock is not looked at.
LastReadIgnoresStall(stall) == o_wb_stb /\ r_len \in {0, 1, 2}

\* The next request accepted will be the last one.
LastRead(stall) == o_wb_stb /\ (r_len \in {0, 1} \/ (r_len = 2 /\ ~stall))

\* The strobes still to be accepted, this one included.
LenLeft(stall) == IF ~stall /\ r_len # 0 THEN r_len - 1 ELSE r_len

\* A request and an answer in one clock cancel.
AcksNeeded(stall, ans) ==
  IF ~o_wb_cyc THEN 0
  ELSE IF o_wb_stb /\ ~stall /\ ans # "ack" THEN (r_acks_needed + 1) % 1024
  ELSE IF ~(o_wb_stb /\ ~stall) /\ ans = "ack" THEN (r_acks_needed - 1) % 1024
  ELSE r_acks_needed

\* Mutant: the test of the strobe is swapped.
LastAckSwapped == r_acks_needed = IF o_wb_stb THEN 1 ELSE 0

\* At the next clock, the answer awaited will be the only one.
LastAck == r_acks_needed = IF o_wb_stb THEN 0 ELSE 1

\* At the next clock, none will be awaited.
ZeroAcks == ~o_wb_stb /\ r_acks_needed = 0

\* Mutant: a word is reported although the bus only took the request.
ReadWordOnAccept(stall, ans) ==
  CASE ans = "err" -> "err" [] ~stall -> "data" [] OTHER -> "none"

\* The codeword for an answer to a read.
ReadWord(stall, ans) ==
  CASE ans = "err" -> "err" [] ans = "ack" -> "data" [] OTHER -> "none"
-----------------------------------------------------------------------------
Init ==
  /\ i_rst = FALSE
  /\ wb_state = "IDLE" /\ out = "none"
  /\ o_wb_cyc = FALSE /\ o_wb_stb = FALSE /\ o_wb_we = FALSE
  /\ o_wb_addr = 0 /\ r_inc = 0
  /\ r_new_addr = TRUE
  /\ r_len = 0 /\ single_read_request = FALSE /\ last_read_request = FALSE
  /\ r_acks_needed = 0 /\ last_ack = FALSE /\ zero_acks = FALSE
  /\ pend = 0 /\ asked = 0 /\ base = 0 /\ issued = 0 /\ told = 0 /\ failed = FALSE

o_busy == wb_state \in {"READ", "WRITE", "ACK"}

\* Every clock.
Counters(cmd, stall, ans) ==
  /\ r_new_addr' =
       \/ i_rst
       \/ ~o_wb_cyc /\ cmd.op \in {"addr", "rel", "write"}
       \/ ~o_wb_cyc /\ r_new_addr
  /\ r_acks_needed' = AcksNeeded(stall, ans)
  /\ last_ack' = LastAck
  /\ zero_acks' = ZeroAcks
  /\ r_len' = IF ~o_wb_stb THEN cmd.len ELSE LenLeft(stall)
  /\ single_read_request' = (~o_wb_cyc /\ cmd.len = 1)
  /\ last_read_request' = LastRead(stall)

\* r_wdt_reset with the count left open: one clock of reset, some clock
\* in which the cycle was open and no request was acknowledged.
Watchdog(ans) == i_rst' => o_wb_cyc /\ ans # "ack" /\ ~i_rst

\* What the bus may do, and what becomes of the requests it holds.
Bus(stall, ans) ==
  /\ ans # "none" => o_wb_cyc /\ pend > 0
  /\ pend = MaxPend => stall
  /\ i_rst' \in BOOLEAN /\ Watchdog(ans)
  /\ pend' = IF ~o_wb_cyc \/ ans = "err" THEN 0
             ELSE pend + (IF o_wb_stb /\ ~stall THEN 1 ELSE 0)
                       - (IF ans = "ack" THEN 1 ELSE 0)

\* The bookkeeping of a clock that starts no command.
Track(stall, ans) ==
  /\ issued' = IF o_wb_stb /\ ~o_wb_we /\ ~stall /\ ~failed THEN issued + 1 ELSE issued
  /\ told' = IF out' = "data" THEN told + 1 ELSE told
  /\ failed' = (failed \/ ans = "err")
  /\ UNCHANGED <<asked, base>>
-----------------------------------------------------------------------------
\* Codewords other than these four are ignored.
Idle(cmd, stall, ans) ==
  /\ ~i_rst /\ wb_state = "IDLE"
  /\ HostWaits /\ o_wb_cyc => cmd = NoCmd
  /\ Bus(stall, ans)
  /\ Counters(cmd, stall, ans)
  /\ LET starts == cmd.op = "read" \/ cmd.op = "write" IN
     /\ wb_state' = CASE cmd.op = "read"  -> "READ"
                      [] cmd.op = "write" -> "WRITE"
                      [] OTHER            -> "IDLE"
     /\ o_wb_cyc' = starts /\ o_wb_stb' = starts
     /\ o_wb_we' = (cmd.op # "read")
     /\ r_inc' = cmd.inc
     /\ o_wb_addr' = CASE cmd.op = "addr" -> cmd.addr
                       [] cmd.op = "rel"  -> (o_wb_addr + cmd.addr) % AddrMod
                       [] OTHER           -> o_wb_addr
     /\ out' = IF cmd.op = "read" /\ r_new_addr THEN "addr" ELSE "none"
  /\ asked' = cmd.len /\ base' = o_wb_addr
  /\ issued' = 0 /\ told' = 0 /\ failed' = FALSE

\* The test for the last request (line 191) overrides the one for an error
\* (line 174).
ReadRequest(stall, ans) ==
  /\ ~i_rst /\ wb_state = "READ"
  /\ Bus(stall, ans)
  /\ Counters(NoCmd, stall, ans)
  /\ LET last == ~stall /\ (single_read_request \/ last_read_request) IN
     /\ wb_state' = IF last THEN "ACK" ELSE IF ans = "err" THEN "IDLE" ELSE "READ"
     /\ o_wb_stb' = ~last
  /\ out' = ReadWord(stall, ans)
  /\ o_wb_addr' = NextAddr(stall)
  /\ UNCHANGED <<o_wb_cyc, o_wb_we, r_inc>>
  /\ Track(stall, ans)

\* A write is acknowledged to the host once accepted.
WriteRequest(stall, ans) ==
  /\ ~i_rst /\ wb_state = "WRITE"
  /\ Bus(stall, ans)
  /\ Counters(NoCmd, stall, ans)
  /\ wb_state' = IF ans = "err" THEN "FLUSH" ELSE IF stall THEN "WRITE" ELSE "WAIT"
  /\ o_wb_cyc' = (ans # "err")
  /\ o_wb_stb' = (ans # "err" /\ stall)
  /\ out' = IF ans = "err" THEN "err" ELSE IF stall THEN "none" ELSE "wack"
  /\ o_wb_addr' = NextAddr(stall)
  /\ UNCHANGED <<o_wb_we, r_inc>>
  /\ Track(stall, ans)

\* Wait for the answers still due.
WaitAck(stall, ans) ==
  /\ ~i_rst /\ wb_state = "ACK"
  /\ Bus(stall, ans)
  /\ Counters(NoCmd, stall, ans)
  /\ LET done == (last_ack /\ ans = "ack") \/ zero_acks \/ ans = "err" IN
     /\ wb_state' = IF done THEN "IDLE" ELSE "ACK"
     /\ o_wb_cyc' = ~done
  /\ out' = CASE ans = "err" -> "err"
              [] ans = "ack" /\ ~o_wb_we -> "data"
              [] OTHER -> "none"
  /\ UNCHANGED <<o_wb_stb, o_wb_we, o_wb_addr, r_inc>>
  /\ Track(stall, ans)

\* Anything but a write or the end of the burst breaks the protocol.
IsNewErr(cmd) == cmd.op \notin {"none", "write", "eow"}

\* Between two writes of a burst the cycle stays open.
WaitOnNextWrite(cmd, stall, ans) ==
  /\ ~i_rst /\ wb_state = "WAIT"
  /\ Bus(stall, ans)
  /\ Counters(cmd, stall, ans)
  /\ wb_state' = CASE IsNewErr(cmd)      -> "IDLE"
                   [] ~IsNewErr(cmd) /\ ans = "err" -> "FLUSH"
                   [] cmd.op = "write" /\ ans # "err" -> "WRITE"
                   [] cmd.op = "eow" /\ ans # "err" -> "ACK"
                   [] OTHER -> "WAIT"
  /\ o_wb_cyc' = (~IsNewErr(cmd) /\ ans # "err")
  /\ o_wb_stb' = (cmd.op = "write" /\ ans # "err")
  /\ out' = IF ans = "err" \/ IsNewErr(cmd) THEN "err" ELSE "none"
  /\ UNCHANGED <<o_wb_we, o_wb_addr, r_inc>>
  /\ Track(stall, ans)

\* Drop the rest of a burst that failed.
Flush(cmd, stall, ans) ==
  /\ ~i_rst /\ wb_state = "FLUSH"
  /\ Bus(stall, ans)
  /\ Counters(cmd, stall, ans)
  /\ wb_state' = IF IsNewErr(cmd) \/ cmd.op = "eow" THEN "IDLE" ELSE "FLUSH"
  /\ o_wb_cyc' = FALSE /\ o_wb_stb' = FALSE
  /\ out' = IF IsNewErr(cmd) THEN "err" ELSE "none"
  /\ UNCHANGED <<o_wb_we, o_wb_addr, r_inc>>
  /\ Track(stall, ans)

\* The command FIFO is being cleared too.
Reset(stall, ans) ==
  /\ i_rst
  /\ Bus(stall, ans)
  /\ Counters(NoCmd, stall, ans)
  /\ wb_state' = "IDLE"
  /\ o_wb_cyc' = FALSE /\ o_wb_stb' = FALSE
  /\ out' = "reset"
  /\ UNCHANGED <<o_wb_we, o_wb_addr, r_inc>>
  /\ asked' = 0 /\ base' = 0 /\ issued' = 0 /\ told' = 0 /\ failed' = FALSE

\* One clock of wbuexec.v on the wires given.
Clock(cmd, stall, ans) ==
  \/ ReadRequest(stall, ans)
  \/ WriteRequest(stall, ans)
  \/ WaitAck(stall, ans)
  \/ Reset(stall, ans)
  \/ Idle(cmd, stall, ans)
  \/ WaitOnNextWrite(cmd, stall, ans)
  \/ Flush(cmd, stall, ans)

Next == \E cmd \in Cmd \cup {NoCmd}, stall \in BOOLEAN, ans \in Answer :
          Clock(cmd, stall, ans)

Spec == Init /\ [][Next]_vars
-----------------------------------------------------------------------------
TypeOK ==
  /\ i_rst \in BOOLEAN
  /\ wb_state \in State /\ out \in Out
  /\ o_wb_cyc \in BOOLEAN /\ o_wb_stb \in BOOLEAN /\ o_wb_we \in BOOLEAN
  /\ o_wb_addr \in Addr
  /\ r_inc \in {0, 1} /\ r_new_addr \in BOOLEAN
  /\ r_len \in 0 .. 1023 /\ r_acks_needed \in 0 .. 1023
  /\ single_read_request \in BOOLEAN /\ last_read_request \in BOOLEAN
  /\ last_ack \in BOOLEAN /\ zero_acks \in BOOLEAN
  /\ pend \in 0 .. MaxPend
  /\ asked \in 0 .. 1023 /\ base \in Addr
  /\ issued \in 0 .. 1024 /\ told \in 0 .. 1024
  /\ failed \in BOOLEAN

(***************************************************************************)
(* The controller asks for exactly the words the host asked for: under any *)
(* pattern of stalls the registered length tests (wbuexec.v:345-353) stop  *)
(* it neither early nor late, and each request goes to its own address.    *)
(***************************************************************************)
ReadExact ==
  /\ wb_state = "READ" =>
       /\ issued < asked
       /\ ~failed => o_wb_addr = (base + IF r_inc = 1 THEN issued ELSE 0) % AddrMod
  /\ wb_state = "ACK" /\ ~o_wb_we /\ ~failed => issued = asked

(***************************************************************************)
(* Every answer to a read becomes one codeword, and only answers do.       *)
(***************************************************************************)
AnswersReported ==
  o_wb_cyc /\ ~o_wb_we /\ ~failed => issued = told + pend

(***************************************************************************)
(* The controller's own count of answers due (wbuexec.v:324) is right      *)
(* while the bus has reported no error.                                    *)
(***************************************************************************)
AcksCounted == o_wb_cyc /\ ~failed => r_acks_needed = pend

(***************************************************************************)
(* The registered tests last_ack and zero_acks (wbuexec.v:332-337) are a   *)
(* clock old when they are used, and yet the cycle is never closed on a    *)
(* request in flight, unless the host is told of an error or a reset.      *)
(***************************************************************************)
NoAnswerAbandoned ==
  [][o_wb_cyc /\ ~o_wb_cyc' => pend' = 0 \/ out' \in {"err", "reset"} \/ failed]_vars

(***************************************************************************)
(* The wires keep the bus's rules for a request: that of fwb_slave.v:      *)
(* 199-229 about a strobe, a stalled request and the direction.  The rule  *)
(* before them, that CYC falls after an error, is DropsCycleOnError.       *)
(***************************************************************************)
Master == INSTANCE WbMaster
            WITH cyc <- o_wb_cyc, stb <- o_wb_stb, pend <- pend,
                 req <- [we |-> o_wb_we, addr |-> o_wb_addr],
                 Request <- [we : BOOLEAN, addr : Addr]

KeepsRequestRules == Master!Spec

(***************************************************************************)
(* fwb_slave.v:193-197: "Following any bus error, the CYC line should be   *)
(* dropped to abort the transaction", in the next clock.  The state that   *)
(* asks for the words of a read keeps it up all the same (wbuexec.v:171).  *)
(***************************************************************************)
DropsCycleOnError == [][o_wb_cyc /\ ~failed /\ failed' => ~o_wb_cyc']_vars

(***************************************************************************)
(* wbuexec.v:233-235, of the state that waits for acknowledgements: "We    *)
(* only need to finish processing the last one(s)".  So there are some, or *)
(* the counter has seen that there are none.                               *)
(***************************************************************************)
WaitsForAnswers == wb_state = "ACK" /\ r_acks_needed > 0 => pend > 0
=============================================================================
