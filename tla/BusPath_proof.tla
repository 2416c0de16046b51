---------------------------- MODULE BusPath_proof ----------------------------
(***************************************************************************)
(* Proofs about the debug bus master, for every read length, every address *)
(* width and every number of requests the bus holds, and about its way to  *)
(* the devices, with the ZipCPU on the same bus, for every set of          *)
(* addresses and any number of requests in the devices; if the host waits  *)
(* for a read's answers before its next command (wbubus.v:100-102) and no  *)
(* access steps across bit 24 of the address.                              *)
(***************************************************************************)
EXTENDS BusPath, FiniteSetTheorems, TLAPS

-----------------------------------------------------------------------------
(* The debug bus master, alone with any bus.                               *)

(***************************************************************************)
(* What each state of the controller says of the bus wires.  Only a read   *)
(* that met an error can be in WB_IDLE with the cycle open.                *)
(***************************************************************************)
StateWires ==
  /\ o_wb_stb => o_wb_cyc
  /\ wb_state = "IDLE"  => (o_wb_cyc => failed)
  /\ wb_state = "READ"  => o_wb_cyc /\ o_wb_stb /\ ~o_wb_we /\ ~failed
  /\ wb_state = "WRITE" => o_wb_cyc /\ o_wb_stb /\ o_wb_we /\ ~failed
  /\ wb_state = "WAIT"  => o_wb_cyc /\ ~o_wb_stb /\ o_wb_we /\ ~failed
  /\ wb_state = "ACK"   => o_wb_cyc /\ ~o_wb_stb /\ (failed => pend = 0)
  /\ wb_state = "FLUSH" => ~o_wb_cyc /\ ~o_wb_stb

\* The registered length tests agree with the requests left.
LengthTests ==
  wb_state = "READ" =>
    /\ r_len = asked - issued /\ r_len >= 1
    /\ (single_read_request \/ last_read_request) <=> r_len = 1

\* The registered acknowledgement tests are a clock old and still safe.
AckTests ==
  wb_state = "ACK" /\ ~failed =>
    (last_ack => pend <= 1) /\ (zero_acks => pend = 0)

Told == told <= issued /\ issued <= asked

IInv == StateWires /\ LengthTests /\ AckTests /\ Told
        /\ AcksCounted /\ AnswersReported /\ ReadExact

(***************************************************************************)
(* Stepping a wrapped address wraps its distance from the base.            *)
(***************************************************************************)
LEMMA ModSucc == ASSUME NEW M \in Nat \ {0}, NEW a \in Nat
                 PROVE  ((a % M) + 1) % M = (a + 1) % M
<1>1. PICK q \in Int, r \in 0 .. M - 1 : a = M * q + r /\ r = a % M
  <2>1. a = M * (a \div M) + (a % M) /\ a % M \in 0 .. M - 1 /\ a \div M \in Int
    BY SMT
  <2> QED
    BY <2>1
<1>2. CASE r = M - 1
  <2>1. PICK p \in Int : p = q + 1
    OBVIOUS
  <2>2. a + 1 = M * p + 0
    BY <1>1, <1>2, <2>1, SMT
  <2>3. (a + 1) % M = 0
    BY <2>2, SMTT(30)
  <2>4. M % M = 0
    BY SMTT(30)
  <2> QED
    BY <1>1, <1>2, <2>3, <2>4
<1>3. CASE r # M - 1
  <2>1. PICK s \in 0 .. M - 1 : s = r + 1
    BY <1>3
  <2>2. PICK b \in Nat : b = a + 1
    OBVIOUS
  <2>3. b = M * q + s
    <3>1. a + 1 = M * q + (r + 1)
      BY <1>1, SMT
    <3> QED
      BY <2>1, <2>2, <3>1
  <2>4. b % M = s
    BY <2>3, SMTT(30)
  <2>5. s % M = s
    BY SMTT(30)
  <2> QED
    BY <1>1, <2>1, <2>2, <2>4, <2>5
<1> QED
  BY <1>2, <1>3

\* The initial state.
LEMMA InitInv == Init => TypeOK /\ IInv
  <1> SUFFICES ASSUME Init PROVE TypeOK /\ IInv
    OBVIOUS
  <1>1. 0 \in Addr /\ 0 \in 0 .. MaxPend /\ 0 \in 0 .. 1023 /\ 0 \in 0 .. 1024
    BY AddrAssumption, PendAssumption DEF Addr
  <1>2. TypeOK
    BY <1>1, ZenonT(60) DEF Init, TypeOK, State, Out
  <1>3. ~o_wb_cyc /\ ~o_wb_stb /\ wb_state = "IDLE" /\ asked = 0 /\ issued = 0 /\ told = 0
    BY ZenonT(60) DEF Init
  <1>4. StateWires /\ LengthTests /\ AckTests /\ AcksCounted /\ AnswersReported /\ ReadExact
    BY <1>3 DEF StateWires, LengthTests, AckTests, AcksCounted, AnswersReported, ReadExact
  <1>5. Told
    BY <1>3 DEF Told
  <1> QED
    BY <1>2, <1>4, <1>5, ZenonT(60) DEF IInv

\* The part of TypeOK that every clock assigns alike.
CountTypes ==
  /\ r_new_addr \in BOOLEAN /\ i_rst \in BOOLEAN
  /\ r_len \in 0 .. 1023 /\ r_acks_needed \in 0 .. 1023
  /\ single_read_request \in BOOLEAN /\ last_read_request \in BOOLEAN
  /\ last_ack \in BOOLEAN /\ zero_acks \in BOOLEAN
  /\ pend \in 0 .. MaxPend

(***************************************************************************)
(* The counters at the foot of wbuexec.v, in a clock whose codeword is w.  *)
(***************************************************************************)
LEMMA CountersStep ==
  ASSUME TypeOK, AcksCounted, StateWires,
         NEW w \in Cmd \cup {NoCmd}, NEW stall \in BOOLEAN, NEW ans \in Answer,
         Bus(stall, ans), Counters(w, stall, ans)
  PROVE  /\ CountTypes'
         /\ ~o_wb_cyc => r_acks_needed' = 0 /\ pend' = 0
         /\ ~failed /\ ans # "err" => r_acks_needed' = pend'
  <1>1. w.len \in 0 .. 1023
    BY LengthsAssumption DEF Cmd, NoCmd, EOW, Word
  <1>2. /\ r_new_addr' \in BOOLEAN /\ i_rst' \in BOOLEAN
        /\ single_read_request' \in BOOLEAN /\ last_read_request' \in BOOLEAN
        /\ last_ack' \in BOOLEAN /\ zero_acks' \in BOOLEAN
    BY ZenonT(60) DEF Counters, Bus, TypeOK, LastRead, LastAck, ZeroAcks
  <1>3. r_len' \in 0 .. 1023
    BY <1>1 DEF Counters, TypeOK, LenLeft
  <1>4. pend' \in 0 .. MaxPend /\ (~o_wb_cyc => pend' = 0)
    BY PendAssumption DEF Bus, TypeOK, Answer
  <1>5. r_acks_needed' \in 0 .. 1023 /\ (~o_wb_cyc => r_acks_needed' = 0)
    BY DEF Counters, AcksNeeded, TypeOK
  <1>6. ASSUME o_wb_cyc, ~failed, ans # "err" PROVE r_acks_needed' = pend'
    <2>1. r_acks_needed = pend
      BY <1>6 DEF AcksCounted
    <2>2. CASE ans = "ack"
      <3>1. pend \in 1 .. 1023
        BY <2>2, PendAssumption DEF Bus, TypeOK
      <3> QED
        BY <1>6, <2>1, <2>2, <3>1, SMTT(30) DEF Bus, Counters, AcksNeeded, TypeOK
    <2>3. CASE ans = "none"
      <3>1. CASE o_wb_stb /\ ~stall
        <4>1. pend \in 0 .. MaxPend - 1
          <5>1. pend # MaxPend
            BY <3>1, ZenonT(60) DEF Bus
          <5> QED
            BY <5>1, PendAssumption DEF TypeOK
        <4>2. r_acks_needed' = (r_acks_needed + 1) % 1024 /\ pend' = pend + 1 - 0
          BY <1>6, <2>3, <3>1, ZenonT(60) DEF Bus, Counters, AcksNeeded
        <4> QED
          BY <2>1, <4>1, <4>2, PendAssumption
      <3>2. CASE ~(o_wb_stb /\ ~stall)
        <4>1. r_acks_needed' = r_acks_needed /\ pend' = pend + 0 - 0
          BY <1>6, <2>3, <3>2, ZenonT(60) DEF Bus, Counters, AcksNeeded
        <4> QED
          BY <2>1, <4>1 DEF TypeOK
      <3> QED
        BY <3>1, <3>2
    <2> QED
      BY <1>6, <2>2, <2>3 DEF Answer
  <1> QED
    BY <1>2, <1>3, <1>4, <1>5, <1>6, ZenonT(60) DEF CountTypes

(***************************************************************************)
(* The bookkeeping of a clock that starts no command.                      *)
(***************************************************************************)
LEMMA TrackStep ==
  ASSUME TypeOK, Told, NEW stall \in BOOLEAN, NEW ans \in Answer, Track(stall, ans)
  PROVE  issued' \in 0 .. 1024 /\ told' \in 0 .. 1024 /\ failed' \in BOOLEAN
  <1>1. issued + 1 \in 0 .. 1024 /\ told + 1 \in 0 .. 1024
    BY SMTT(30) DEF TypeOK, Told
  <1>2. issued \in 0 .. 1024 /\ told \in 0 .. 1024 /\ failed \in BOOLEAN
    BY DEF TypeOK
  <1>3. /\ issued' = IF o_wb_stb /\ ~o_wb_we /\ ~stall /\ ~failed
                      THEN issued + 1 ELSE issued
        /\ told' = IF out' = "data" THEN told + 1 ELSE told
        /\ failed' \in BOOLEAN
    BY <1>2, ZenonT(60) DEF Track
  <1>4. issued' \in 0 .. 1024
    BY <1>1, <1>2, <1>3, ZenonT(60)
  <1>5. told' \in 0 .. 1024
    BY <1>1, <1>2, <1>3, ZenonT(60)
  <1> QED
    BY <1>3, <1>4, <1>5, ZenonT(60)

(***************************************************************************)
(* A clock of WB_IDLE: a read starts with its length loaded and nothing    *)
(* in flight, because a command is only taken with the cycle closed.       *)
(***************************************************************************)
LEMMA IdleInv ==
  ASSUME HostWaits, TypeOK, IInv, NEW w \in Cmd \cup {NoCmd},
         NEW stall \in BOOLEAN, NEW ans \in Answer, Idle(w, stall, ans)
  PROVE  TypeOK' /\ IInv'
  <1> DEFINE starts == w.op = "read" \/ w.op = "write"
  <1>1. /\ w.op \in {"none", "addr", "rel", "write", "read", "eow"}
        /\ w.addr \in Addr /\ w.len \in 0 .. 1023 /\ w.inc \in {0, 1}
        /\ w.op = "read" => w.len >= 1
    <2>1. w.op \in {"none", "addr", "rel", "write", "read", "eow"}
      BY DEF Cmd, NoCmd, EOW, Word
    <2>2. w.addr \in Addr
      BY AddrAssumption DEF Cmd, NoCmd, EOW, Word, Addr
    <2>3. w.len \in 0 .. 1023 /\ (w.op = "read" => w.len >= 1)
      BY LengthsAssumption DEF Cmd, NoCmd, EOW, Word
    <2>4. w.inc \in {0, 1}
      BY DEF Cmd, NoCmd, EOW, Word
    <2> QED
      BY <2>1, <2>2, <2>3, <2>4
  <1>2. /\ Bus(stall, ans) /\ Counters(w, stall, ans)
        /\ AcksCounted /\ StateWires /\ wb_state = "IDLE"
    BY ZenonT(60) DEF Idle, IInv
  <1>3. /\ wb_state' = CASE w.op = "read"  -> "READ"
                         [] w.op = "write" -> "WRITE"
                         [] OTHER          -> "IDLE"
        /\ o_wb_addr' = CASE w.op = "addr" -> w.addr
                          [] w.op = "rel"  -> (o_wb_addr + w.addr) % AddrMod
                          [] OTHER         -> o_wb_addr
        /\ o_wb_cyc' <=> starts
        /\ o_wb_stb' <=> starts
        /\ o_wb_we' <=> (w.op # "read")
        /\ ~failed' /\ failed' \in BOOLEAN
    BY ZenonT(60) DEF Idle
  <1>4. /\ o_wb_cyc' \in BOOLEAN /\ o_wb_stb' \in BOOLEAN /\ o_wb_we' \in BOOLEAN
         /\ r_inc' \in {0, 1} /\ out' \in Out
    BY <1>1, ZenonT(60) DEF Idle, Out
  <1>5. asked' = w.len /\ base' = o_wb_addr /\ issued' = 0 /\ told' = 0
    BY ZenonT(60) DEF Idle
  <1>6. starts => ~o_wb_cyc /\ ~o_wb_stb
    <2>1. o_wb_cyc => w = NoCmd
      BY ZenonT(60) DEF Idle
    <2> QED
      BY <1>2, <2>1 DEF StateWires, NoCmd, Word
  <1>7. o_wb_addr' \in Addr
    BY <1>1, <1>3, AddrAssumption DEF TypeOK, Addr
  <1>8. TypeOK'
    <2>1. wb_state' \in State
      BY <1>3, ZenonT(60) DEF State
    <2>2. base' \in Addr /\ asked' \in 0 .. 1023 /\ issued' \in 0 .. 1024 /\ told' \in 0 .. 1024
      BY <1>1, <1>5 DEF TypeOK
    <2>3. CountTypes'
      BY <1>2, CountersStep
    <2> QED
      BY <1>3, <1>4, <1>7, <2>1, <2>2, <2>3 DEF TypeOK, CountTypes
  <1>9. StateWires'
    BY <1>1, <1>3 DEF StateWires
  <1>10. LengthTests'
    <2> SUFFICES ASSUME w.op = "read"
                 PROVE  /\ r_len' = asked' - issued' /\ r_len' >= 1
                        /\ (single_read_request' \/ last_read_request') <=> r_len' = 1
      BY <1>3, ZenonT(60) DEF LengthTests
    <2>1. /\ single_read_request' <=> (~o_wb_cyc /\ w.len = 1)
          /\ last_read_request' <=> LastRead(stall)
      BY <1>2, ZenonT(60) DEF Counters
    <2>2. r_len' = w.len
      BY <1>2, <1>6, ZenonT(60) DEF Counters
    <2>3. ~LastRead(stall) /\ ~o_wb_cyc
      BY <1>6, ZenonT(60) DEF LastRead
    <2>4. single_read_request' \/ last_read_request' <=> w.len = 1
      BY <2>1, <2>3, ZenonT(60)
    <2> QED
      BY <1>1, <1>5, <2>2, <2>4
  <1>11. AckTests' /\ Told'
    BY <1>1, <1>3, <1>5 DEF AckTests, Told
  <1>12. AcksCounted' /\ AnswersReported'
    BY <1>2, <1>3, <1>5, <1>6, CountersStep DEF AcksCounted, AnswersReported
  <1>13. ReadExact'
    <2> SUFFICES ASSUME w.op = "read"
                 PROVE  /\ issued' < asked'
                        /\ o_wb_addr' = (base' + IF r_inc' = 1 THEN issued' ELSE 0) % AddrMod
      BY <1>1, <1>3 DEF ReadExact
    <2>1. o_wb_addr \in Addr /\ o_wb_addr' = o_wb_addr
      BY <1>3 DEF TypeOK
    <2>2. o_wb_addr % AddrMod = o_wb_addr
      BY <2>1, AddrAssumption DEF Addr
    <2>3. base' + (IF r_inc' = 1 THEN issued' ELSE 0) = o_wb_addr
      BY <1>5, <2>1, AddrAssumption DEF Addr
    <2> QED
      BY <1>1, <1>5, <2>1, <2>2, <2>3
  <1> QED
    BY <1>8, <1>9, <1>10, <1>11, <1>12, <1>13, ZenonT(60) DEF IInv

(***************************************************************************)
(* A clock of a read request.                                              *)
(***************************************************************************)
LEMMA ReadInv ==
  ASSUME TypeOK, IInv, NEW stall \in BOOLEAN, NEW ans \in Answer,
         ReadRequest(stall, ans)
  PROVE  TypeOK' /\ IInv'
  <1> DEFINE last == ~stall /\ (single_read_request \/ last_read_request)
  <1>1. /\ Bus(stall, ans) /\ Counters(NoCmd, stall, ans) /\ Track(stall, ans)
        /\ AcksCounted /\ AnswersReported /\ StateWires /\ LengthTests
        /\ Told /\ ReadExact /\ wb_state = "READ"
        /\ NoCmd \in Cmd \cup {NoCmd}
    BY ZenonT(60) DEF ReadRequest, IInv
  <1>2. o_wb_cyc /\ o_wb_stb /\ ~o_wb_we /\ ~failed
    BY <1>1 DEF StateWires
  <1>3. /\ wb_state' = IF last THEN "ACK" ELSE IF ans = "err" THEN "IDLE" ELSE "READ"
        /\ o_wb_stb' <=> ~last
        /\ o_wb_stb' \in BOOLEAN
        /\ o_wb_cyc' = o_wb_cyc /\ o_wb_we' = o_wb_we
        /\ out' = ReadWord(stall, ans)
        /\ r_inc' = r_inc /\ o_wb_addr' = NextAddr(stall)
    BY ZenonT(60) DEF ReadRequest
  <1>4. /\ CountTypes'
        /\ ans # "err" => r_acks_needed' = pend'
    BY <1>1, <1>2, CountersStep
  <1>5. /\ asked' = asked /\ base' = base
        /\ issued' = IF ~stall THEN issued + 1 ELSE issued
        /\ told' = IF out' = "data" THEN told + 1 ELSE told
        /\ failed' <=> ans = "err"
    BY <1>1, <1>2, ZenonT(60) DEF Track
  <1>6. out' = "data" <=> ans = "ack"
    BY <1>3 DEF ReadWord, Answer
  <1>7. /\ ans = "err" => pend' = 0
        /\ ans = "ack" => pend > 0 /\ pend' = IF stall THEN pend - 1 ELSE pend
        /\ ans = "none" => pend' = IF stall THEN pend ELSE pend + 1
    BY <1>1, <1>2 DEF Bus, TypeOK
  <1>8. TypeOK'
    <2>1. o_wb_addr' \in Addr
      BY <1>3, AddrAssumption DEF NextAddr, TypeOK, Addr
    <2>2. wb_state' \in State /\ out' \in Out /\ r_inc' \in {0, 1}
      BY <1>3 DEF State, Out, ReadWord, TypeOK
    <2>3. issued' \in 0 .. 1024 /\ told' \in 0 .. 1024 /\ failed' \in BOOLEAN
      BY <1>1, TrackStep
    <2> QED
      BY <1>3, <1>4, <1>5, <2>1, <2>2, <2>3 DEF TypeOK, CountTypes
  <1>9. StateWires'
    BY <1>2, <1>3, <1>5, <1>7 DEF StateWires
  <1>10. r_len = asked - issued /\ r_len >= 1
         /\ ((single_read_request \/ last_read_request) <=> r_len = 1)
    BY <1>1 DEF LengthTests
  <1>11. LengthTests'
    <2> SUFFICES ASSUME ~last
                 PROVE  /\ r_len' = asked' - issued' /\ r_len' >= 1
                        /\ (single_read_request' \/ last_read_request') <=> r_len' = 1
      BY <1>3, ZenonT(60) DEF LengthTests
    <2>1. /\ single_read_request' <=> FALSE
          /\ last_read_request' <=> LastRead(stall)
      BY <1>1, <1>2, ZenonT(60) DEF Counters
    <2>2. r_len' = LenLeft(stall)
      BY <1>1, <1>2, ZenonT(60) DEF Counters
    <2>3. r_len' = IF ~stall THEN r_len - 1 ELSE r_len
      BY <1>10, <2>2 DEF LenLeft
    <2>4. LastRead(stall) <=> (r_len = 1 \/ (r_len = 2 /\ ~stall))
      BY <1>2, <1>10 DEF LastRead
    <2>5. ~stall => r_len # 1
      BY <1>10
    <2>6. LastRead(stall) <=> r_len' = 1
      BY <1>10, <2>3, <2>4, <2>5 DEF TypeOK
    <2>7. r_len' = asked' - issued' /\ r_len' >= 1
      BY <1>5, <1>10, <2>3, <2>5 DEF TypeOK
    <2> QED
      BY <2>1, <2>6, <2>7, ZenonT(60)
  <1>12. AckTests'
    <2>1. last_ack' <=> LastAck
      BY <1>1, ZenonT(60) DEF Counters
    <2>2. ~zero_acks'
      BY <1>1, <1>2, ZenonT(60) DEF Counters, ZeroAcks
    <2>3. LastAck => pend = 0
      BY <1>1, <1>2 DEF LastAck, AcksCounted
    <2>4. ~failed' /\ LastAck => pend' <= 1
      BY <1>5, <1>7, <2>3 DEF Answer
    <2> QED
      BY <2>1, <2>2, <2>4, ZenonT(60) DEF AckTests
  <1>13. AcksCounted'
    BY <1>4, <1>5 DEF AcksCounted
  <1>14. issued = told + pend
    BY <1>1, <1>2 DEF AnswersReported
  <1>15. AnswersReported'
    BY <1>5, <1>6, <1>7, <1>14 DEF AnswersReported, Answer, TypeOK
  <1>16. Told'
    BY <1>5, <1>6, <1>7, <1>10, <1>14 DEF Told, Answer, TypeOK
  <1>17. ReadExact'
    <2>1. wb_state' = "READ" => issued' < asked'
      BY <1>3, <1>5, <1>10 DEF TypeOK
    <2>2. wb_state' = "ACK" => issued' = asked'
      BY <1>3, <1>5, <1>10 DEF TypeOK
    <2>3. o_wb_addr = (base + IF r_inc = 1 THEN issued ELSE 0) % AddrMod
      BY <1>1, <1>2, ZenonT(60) DEF ReadExact
    <2>4. o_wb_addr' = (base' + IF r_inc' = 1 THEN issued' ELSE 0) % AddrMod
      <3>1. CASE stall \/ r_inc # 1
        BY <1>3, <1>5, <2>3, <3>1 DEF NextAddr
      <3>2. CASE ~stall /\ r_inc = 1
        <4>1. PICK a \in Nat : a = base + issued
          BY AddrAssumption DEF TypeOK, Addr
        <4>2. o_wb_addr' = ((a % AddrMod) + 1) % AddrMod
          BY <1>3, <2>3, <3>2, <4>1 DEF NextAddr
        <4>3. o_wb_addr' = (a + 1) % AddrMod
          BY <4>2, ModSucc, AddrAssumption
        <4>4. base' + issued' = a + 1
          BY <1>5, <3>2, <4>1, AddrAssumption DEF TypeOK, Addr
        <4> QED
          BY <1>3, <3>2, <4>3, <4>4
      <3> QED
        BY <3>1, <3>2
    <2> QED
      BY <2>1, <2>2, <2>4, ZenonT(60) DEF ReadExact
  <1> QED
    BY <1>8, <1>9, <1>11, <1>12, <1>13, <1>15, <1>16, <1>17, ZenonT(60) DEF IInv

(***************************************************************************)
(* A clock of a write request.  The length and the words told stay zero    *)
(* to the end of the burst, so only the count of answers moves.            *)
(***************************************************************************)
LEMMA WriteInv ==
  ASSUME TypeOK, IInv, NEW stall \in BOOLEAN, NEW ans \in Answer,
         WriteRequest(stall, ans)
  PROVE  TypeOK' /\ IInv'
  <1>1. /\ Bus(stall, ans) /\ Counters(NoCmd, stall, ans) /\ Track(stall, ans)
        /\ AcksCounted /\ StateWires /\ Told /\ wb_state = "WRITE"
        /\ NoCmd \in Cmd \cup {NoCmd}
    BY ZenonT(60) DEF WriteRequest, IInv
  <1>2. o_wb_cyc /\ o_wb_stb /\ o_wb_we /\ ~failed
    BY <1>1 DEF StateWires
  <1>3. /\ wb_state' = IF ans = "err" THEN "FLUSH" ELSE IF stall THEN "WRITE" ELSE "WAIT"
        /\ o_wb_cyc' <=> (ans # "err")
        /\ o_wb_stb' <=> (ans # "err" /\ stall)
        /\ out' = IF ans = "err" THEN "err" ELSE IF stall THEN "none" ELSE "wack"
        /\ o_wb_we' = o_wb_we /\ r_inc' = r_inc
        /\ o_wb_addr' = NextAddr(stall)
    BY ZenonT(60) DEF WriteRequest
  <1>4. /\ CountTypes'
        /\ ans # "err" => r_acks_needed' = pend'
    BY <1>1, <1>2, CountersStep
  <1>5. /\ asked' = asked /\ base' = base /\ issued' = issued
        /\ told' = IF out' = "data" THEN told + 1 ELSE told
        /\ failed' <=> ans = "err"
    BY <1>1, <1>2, ZenonT(60) DEF Track
  <1>6. told' = told
    BY <1>3, <1>5
  <1>7. TypeOK'
    <2>1. o_wb_addr' \in Addr
      BY <1>3, AddrAssumption DEF NextAddr, TypeOK, Addr
    <2>2. wb_state' \in State /\ out' \in Out /\ r_inc' \in {0, 1} /\ o_wb_we' \in BOOLEAN
      BY <1>3 DEF State, Out, TypeOK
    <2>3. o_wb_cyc' \in BOOLEAN /\ o_wb_stb' \in BOOLEAN
      BY ZenonT(60) DEF WriteRequest
    <2>4. failed' \in BOOLEAN
      BY <1>1, TrackStep
    <2> QED
      BY <1>4, <1>5, <1>6, <2>1, <2>2, <2>3, <2>4 DEF TypeOK, CountTypes
  <1>8. StateWires'
    BY <1>2, <1>3, <1>5 DEF StateWires
  <1>9. LengthTests' /\ AckTests' /\ ReadExact'
    BY <1>3 DEF LengthTests, AckTests, ReadExact
  <1>10. AcksCounted' /\ AnswersReported'
    BY <1>2, <1>3, <1>4, <1>5 DEF AcksCounted, AnswersReported
  <1>11. Told'
    BY <1>1, <1>5, <1>6 DEF Told
  <1> QED
    BY <1>7, <1>8, <1>9, <1>10, <1>11, ZenonT(60) DEF IInv

(***************************************************************************)
(* A clock of waiting for acknowledgements.                                *)
(***************************************************************************)
LEMMA AckInv ==
  ASSUME TypeOK, IInv, NEW stall \in BOOLEAN, NEW ans \in Answer,
         WaitAck(stall, ans)
  PROVE  TypeOK' /\ IInv'
  <1> DEFINE done == (last_ack /\ ans = "ack") \/ zero_acks \/ ans = "err"
  <1>1. /\ Bus(stall, ans) /\ Counters(NoCmd, stall, ans) /\ Track(stall, ans)
        /\ AcksCounted /\ AnswersReported /\ StateWires /\ AckTests
        /\ Told /\ ReadExact /\ wb_state = "ACK"
        /\ NoCmd \in Cmd \cup {NoCmd}
    BY ZenonT(60) DEF WaitAck, IInv
  <1>2. o_wb_cyc /\ ~o_wb_stb /\ (failed => pend = 0)
    BY <1>1 DEF StateWires
  <1>3. /\ wb_state' = IF done THEN "IDLE" ELSE "ACK"
        /\ o_wb_cyc' <=> ~done
        /\ o_wb_stb' = o_wb_stb /\ o_wb_we' = o_wb_we
        /\ r_inc' = r_inc /\ o_wb_addr' = o_wb_addr
        /\ out' = CASE ans = "err" -> "err"
                    [] ans = "ack" /\ ~o_wb_we -> "data"
                    [] OTHER -> "none"
    BY ZenonT(60) DEF WaitAck
  <1>4. /\ CountTypes'
        /\ ~failed /\ ans # "err" => r_acks_needed' = pend'
    BY <1>1, CountersStep
  <1>5. /\ asked' = asked /\ base' = base /\ issued' = issued
        /\ told' = IF out' = "data" THEN told + 1 ELSE told
        /\ failed' <=> failed \/ ans = "err"
    BY <1>1, <1>2, ZenonT(60) DEF Track
  <1>6. out' = "data" <=> ans = "ack" /\ ~o_wb_we
    BY <1>3 DEF Answer
  <1>7. /\ ans = "err" => pend' = 0 /\ ~failed
        /\ ans = "ack" => pend > 0 /\ pend' = pend - 1 /\ ~failed
        /\ ans = "none" => pend' = pend
    BY <1>1, <1>2 DEF Bus, TypeOK
  <1>8. TypeOK'
    <2>1. wb_state' \in State /\ out' \in Out /\ r_inc' \in {0, 1} /\ o_wb_we' \in BOOLEAN
          /\ o_wb_stb' \in BOOLEAN /\ o_wb_addr' \in Addr
      BY <1>3 DEF State, Out, TypeOK
    <2>2. o_wb_cyc' \in BOOLEAN
      BY ZenonT(60) DEF WaitAck
    <2>3. issued' \in 0 .. 1024 /\ told' \in 0 .. 1024 /\ failed' \in BOOLEAN
      BY <1>1, TrackStep
    <2> QED
      BY <1>4, <1>5, <2>1, <2>2, <2>3 DEF TypeOK, CountTypes
  <1>9. StateWires'
    <2>1. ans \in {"none", "ack", "err"}
      BY DEF Answer
    <2>2. wb_state' = "IDLE" => ~o_wb_cyc'
      BY <1>3
    <2>3. failed' => pend' = 0
      BY <1>2, <1>5, <1>7, <2>1
    <2> QED
      BY <1>2, <1>3, <2>2, <2>3 DEF StateWires
  <1>10. LengthTests'
    BY <1>3 DEF LengthTests
  <1>11. AckTests'
    <2> SUFFICES ASSUME ~failed', ans # "err"
                 PROVE  (last_ack' => pend' <= 1) /\ (zero_acks' => pend' = 0)
      BY <1>5, ZenonT(60) DEF AckTests
    <2>1. /\ last_ack' <=> LastAck
          /\ zero_acks' <=> ZeroAcks
      BY <1>1, ZenonT(60) DEF Counters
    <2>2. r_acks_needed = pend
      BY <1>1, <1>2, <1>5 DEF AcksCounted
    <2>3. LastAck => pend = 1
      BY <1>2, <2>2 DEF LastAck
    <2>4. ZeroAcks => pend = 0
      BY <1>2, <2>2 DEF ZeroAcks
    <2> QED
      BY <1>7, <2>1, <2>3, <2>4 DEF Answer, TypeOK
  <1>12. AcksCounted'
    BY <1>4, <1>5 DEF AcksCounted
  <1>13. AnswersReported'
    BY <1>1, <1>2, <1>3, <1>5, <1>6, <1>7, SMTT(30) DEF AnswersReported, Answer, TypeOK
  <1>14. Told'
    <2>1. out' = "data" => issued = told + pend
      BY <1>1, <1>2, <1>6, <1>7 DEF AnswersReported
    <2> QED
      BY <1>1, <1>5, <1>6, <1>7, <2>1 DEF Told, TypeOK
  <1>15. ReadExact'
    BY <1>1, <1>3, <1>5 DEF ReadExact
  <1> QED
    BY <1>8, <1>9, <1>10, <1>11, <1>12, <1>13, <1>14, <1>15, ZenonT(60) DEF IInv

(***************************************************************************)
(* A clock between two writes of a burst.                                  *)
(***************************************************************************)
LEMMA WaitInv ==
  ASSUME TypeOK, IInv, NEW w \in Cmd \cup {NoCmd},
         NEW stall \in BOOLEAN, NEW ans \in Answer,
         WaitOnNextWrite(w, stall, ans)
  PROVE  TypeOK' /\ IInv'
  <1>1. /\ Bus(stall, ans) /\ Counters(w, stall, ans) /\ Track(stall, ans)
        /\ AcksCounted /\ StateWires /\ Told /\ wb_state = "WAIT"
    BY ZenonT(60) DEF WaitOnNextWrite, IInv
  <1>2. o_wb_cyc /\ ~o_wb_stb /\ o_wb_we /\ ~failed
    BY <1>1 DEF StateWires
  <1>3. /\ wb_state' = CASE IsNewErr(w)      -> "IDLE"
                         [] ~IsNewErr(w) /\ ans = "err" -> "FLUSH"
                         [] w.op = "write" /\ ans # "err" -> "WRITE"
                         [] w.op = "eow" /\ ans # "err" -> "ACK"
                         [] OTHER -> "WAIT"
        /\ o_wb_cyc' <=> (~IsNewErr(w) /\ ans # "err")
        /\ o_wb_stb' <=> (w.op = "write" /\ ans # "err")
        /\ out' = IF ans = "err" \/ IsNewErr(w) THEN "err" ELSE "none"
        /\ o_wb_we' = o_wb_we /\ r_inc' = r_inc /\ o_wb_addr' = o_wb_addr
    BY ZenonT(60) DEF WaitOnNextWrite
  <1>4. /\ CountTypes'
        /\ ans # "err" => r_acks_needed' = pend'
    BY <1>1, <1>2, CountersStep
  <1>5. /\ asked' = asked /\ base' = base /\ issued' = issued
        /\ told' = IF out' = "data" THEN told + 1 ELSE told
        /\ failed' <=> ans = "err"
    BY <1>1, <1>2, ZenonT(60) DEF Track
  <1>6. told' = told
    BY <1>3, <1>5
  <1>7. wb_state' \in {"IDLE", "FLUSH", "WRITE", "ACK", "WAIT"}
        /\ (wb_state' # "FLUSH" /\ wb_state' # "IDLE" => ans # "err" /\ ~IsNewErr(w))
        /\ (wb_state' = "FLUSH" => ans = "err") /\ (wb_state' = "IDLE" => IsNewErr(w))
        /\ (wb_state' = "WRITE" <=> w.op = "write" /\ ans # "err")
    BY <1>3 DEF IsNewErr
  <1>8. TypeOK'
    <2>1. wb_state' \in State /\ out' \in Out /\ r_inc' \in {0, 1} /\ o_wb_we' \in BOOLEAN
          /\ o_wb_addr' \in Addr
      BY <1>3, <1>7 DEF State, Out, TypeOK
    <2>2. o_wb_cyc' \in BOOLEAN /\ o_wb_stb' \in BOOLEAN
      BY ZenonT(60) DEF WaitOnNextWrite
    <2>3. failed' \in BOOLEAN
      BY <1>1, TrackStep
    <2> QED
      BY <1>4, <1>5, <1>6, <2>1, <2>2, <2>3 DEF TypeOK, CountTypes
  <1>9. StateWires'
    <2>1. IsNewErr(w) => w.op # "write"
      BY DEF IsNewErr
    <2> QED
      BY <1>2, <1>3, <1>5, <1>7, <2>1 DEF StateWires
  <1>10. LengthTests' /\ ReadExact'
    BY <1>2, <1>3, <1>7 DEF LengthTests, ReadExact
  <1>11. AckTests'
    <2>1. /\ last_ack' <=> LastAck
          /\ zero_acks' <=> ZeroAcks
      BY <1>1, ZenonT(60) DEF Counters
    <2>2. r_acks_needed = pend /\ (ans # "err" => pend' <= pend)
      BY <1>1, <1>2 DEF AcksCounted, Bus, TypeOK
    <2>3. LastAck => pend = 1
      BY <1>2, <2>2 DEF LastAck
    <2>4. ZeroAcks => pend = 0
      BY <1>2, <2>2 DEF ZeroAcks
    <2>5. pend' \in Nat
      BY <1>8 DEF TypeOK
    <2> QED
      BY <1>5, <2>1, <2>2, <2>3, <2>4, <2>5 DEF AckTests, TypeOK
  <1>12. AcksCounted' /\ AnswersReported'
    BY <1>2, <1>3, <1>4, <1>5 DEF AcksCounted, AnswersReported
  <1>13. Told'
    BY <1>1, <1>5, <1>6 DEF Told
  <1> QED
    BY <1>8, <1>9, <1>10, <1>11, <1>12, <1>13, ZenonT(60) DEF IInv

(***************************************************************************)
(* A clock of flushing a failed burst.                                     *)
(***************************************************************************)
LEMMA FlushInv ==
  ASSUME TypeOK, IInv, NEW w \in Cmd \cup {NoCmd},
         NEW stall \in BOOLEAN, NEW ans \in Answer, Flush(w, stall, ans)
  PROVE  TypeOK' /\ IInv'
  <1>1. /\ Bus(stall, ans) /\ Counters(w, stall, ans) /\ Track(stall, ans)
        /\ AcksCounted /\ StateWires /\ Told /\ wb_state = "FLUSH"
    BY ZenonT(60) DEF Flush, IInv
  <1>2. ~o_wb_stb
    BY <1>1 DEF StateWires
  <1>3. /\ wb_state' \in {"IDLE", "FLUSH"}
        /\ out' \in {"err", "none"}
        /\ o_wb_we' = o_wb_we /\ r_inc' = r_inc /\ o_wb_addr' = o_wb_addr
    BY ZenonT(60) DEF Flush
  <1>4. ~o_wb_cyc' /\ ~o_wb_stb' /\ o_wb_cyc' \in BOOLEAN /\ o_wb_stb' \in BOOLEAN
    BY ZenonT(60) DEF Flush
  <1>5. CountTypes'
    BY <1>1, CountersStep
  <1>6. /\ asked' = asked /\ base' = base /\ issued' = issued
        /\ told' = IF out' = "data" THEN told + 1 ELSE told
    BY <1>1, <1>2, ZenonT(60) DEF Track
  <1>7. told' = told
    BY <1>3, <1>6
  <1>8. TypeOK'
    <2>1. wb_state' \in State /\ out' \in Out /\ r_inc' \in {0, 1} /\ o_wb_we' \in BOOLEAN
          /\ o_wb_addr' \in Addr
      BY <1>3 DEF State, Out, TypeOK
    <2>2. failed' \in BOOLEAN
      BY <1>1, TrackStep
    <2> QED
      BY <1>4, <1>5, <1>6, <1>7, <2>1, <2>2 DEF TypeOK, CountTypes
  <1>9. StateWires' /\ LengthTests' /\ AckTests' /\ ReadExact' /\ AcksCounted' /\ AnswersReported'
    BY <1>3, <1>4
    DEF StateWires, LengthTests, AckTests, ReadExact, AcksCounted, AnswersReported
  <1>10. Told'
    BY <1>1, <1>6, <1>7 DEF Told
  <1> QED
    BY <1>8, <1>9, <1>10, ZenonT(60) DEF IInv

(***************************************************************************)
(* A clock of the watchdog's reset.                                        *)
(***************************************************************************)
LEMMA ResetInv ==
  ASSUME TypeOK, IInv, NEW stall \in BOOLEAN, NEW ans \in Answer, Reset(stall, ans)
  PROVE  TypeOK' /\ IInv'
  <1>1. /\ Bus(stall, ans) /\ Counters(NoCmd, stall, ans)
        /\ AcksCounted /\ StateWires
        /\ NoCmd \in Cmd \cup {NoCmd}
    BY ZenonT(60) DEF Reset, IInv
  <1>2. /\ wb_state' = "IDLE" /\ out' = "reset"
        /\ o_wb_we' = o_wb_we /\ r_inc' = r_inc /\ o_wb_addr' = o_wb_addr
        /\ asked' = 0 /\ base' = 0 /\ issued' = 0 /\ told' = 0
    BY ZenonT(60) DEF Reset
  <1>3. /\ ~o_wb_cyc' /\ ~o_wb_stb' /\ o_wb_cyc' \in BOOLEAN /\ o_wb_stb' \in BOOLEAN
        /\ failed' \in BOOLEAN
    BY ZenonT(60) DEF Reset
  <1>4. CountTypes'
    BY <1>1, CountersStep
  <1>5. TypeOK'
    BY <1>2, <1>3, <1>4, AddrAssumption DEF TypeOK, CountTypes, State, Out, Addr
  <1>6. StateWires' /\ LengthTests' /\ AckTests' /\ ReadExact' /\ AcksCounted' /\ AnswersReported'
    BY <1>2, <1>3
    DEF StateWires, LengthTests, AckTests, ReadExact, AcksCounted, AnswersReported
  <1>7. Told'
    BY <1>2 DEF Told
  <1> QED
    BY <1>5, <1>6, <1>7, ZenonT(60) DEF IInv

(***************************************************************************)
(* The controller's registers keep their types, and the strengthened       *)
(* invariant holds, when the host waits (wbubus.v:100-102).                *)
(***************************************************************************)
THEOREM Inductive == ASSUME HostWaits PROVE Spec => [](TypeOK /\ IInv)
<1>1. TypeOK /\ IInv /\ [Next]_vars => TypeOK' /\ IInv'
  <2> SUFFICES ASSUME TypeOK, IInv, [Next]_vars PROVE TypeOK' /\ IInv'
    OBVIOUS
  <2>1. CASE UNCHANGED vars
    <3>1. TypeOK'
      BY <2>1 DEF vars, fsm, count, job, TypeOK
    <3>2. IInv'
      BY <2>1, ZenonT(60) DEF vars, fsm, count, job, IInv, StateWires, LengthTests,
         AckTests, Told, AcksCounted, AnswersReported, ReadExact
    <3> QED
      BY <3>1, <3>2
  <2>2. CASE Next
    <3> PICK cmd \in Cmd \cup {NoCmd}, stall \in BOOLEAN, ans \in Answer : Clock(cmd, stall, ans)
      BY <2>2, ZenonT(60) DEF Next
    <3> QED
      BY ReadInv, WriteInv, AckInv, ResetInv, IdleInv, WaitInv, FlushInv, ZenonT(60) DEF Clock
  <2> QED
    BY <2>1, <2>2
<1> QED
  BY <1>1, InitInv, PTL DEF Spec

(***************************************************************************)
(* The controller's registers keep their types (wbuexec.v:93-353).         *)
(***************************************************************************)
THEOREM TypeCorrect == ASSUME HostWaits PROVE Spec => []TypeOK
  BY Inductive, PTL

(***************************************************************************)
(* A read of any length asks for exactly its words, each at its own        *)
(* address, under every pattern of stalls (wbuexec.v:170-196, 339-353).    *)
(***************************************************************************)
THEOREM ReadsExactly == ASSUME HostWaits PROVE Spec => []ReadExact
<1>1. IInv => ReadExact
  BY ZenonT(60) DEF IInv
<1> QED
  BY <1>1, Inductive, PTL

(***************************************************************************)
(* Every answer of a read becomes one codeword (wbuexec.v:177-183, 243).   *)
(***************************************************************************)
THEOREM EachAnswerOnce == ASSUME HostWaits PROVE Spec => []AnswersReported
<1>1. IInv => AnswersReported
  BY ZenonT(60) DEF IInv
<1> QED
  BY <1>1, Inductive, PTL

(***************************************************************************)
(* The controller's count of answers due is right (wbuexec.v:324-330).     *)
(***************************************************************************)
THEOREM CountRight == ASSUME HostWaits PROVE Spec => []AcksCounted
<1>1. IInv => AcksCounted
  BY ZenonT(60) DEF IInv
<1> QED
  BY <1>1, Inductive, PTL

(***************************************************************************)
(* No cycle is closed on a request in flight without an error or a reset   *)
(* being reported, although the tests it is closed on are a clock old      *)
(* (wbuexec.v:332-337).                                                    *)
(***************************************************************************)
THEOREM NothingAbandoned == ASSUME HostWaits PROVE Spec => NoAnswerAbandoned
<1> DEFINE Safe == o_wb_cyc /\ ~o_wb_cyc' =>
                     pend' = 0 \/ out' \in {"err", "reset"} \/ failed
<1>1. TypeOK /\ IInv /\ [Next]_vars => [Safe]_vars
  <2> SUFFICES ASSUME TypeOK, IInv, Next, o_wb_cyc, ~o_wb_cyc', ~failed
               PROVE  pend' = 0 \/ out' \in {"err", "reset"}
    BY ZenonT(60)
  <2> PICK cmd \in Cmd \cup {NoCmd}, stall \in BOOLEAN, ans \in Answer : Clock(cmd, stall, ans)
    BY ZenonT(60) DEF Next
  <2>1. StateWires /\ AckTests
    BY ZenonT(60) DEF IInv
  <2>2. CASE ReadRequest(stall, ans)
    BY <2>2, ZenonT(60) DEF ReadRequest
  <2>3. CASE WriteRequest(stall, ans)
    <3>1. ans = "err"
      BY <2>3, ZenonT(60) DEF WriteRequest
    <3> QED
      BY <2>3, <3>1, ZenonT(60) DEF WriteRequest
  <2>4. CASE WaitAck(stall, ans)
    <3>1. /\ (last_ack /\ ans = "ack") \/ zero_acks \/ ans = "err"
          /\ wb_state = "ACK" /\ Bus(stall, ans)
          /\ ans = "err" => out' = "err"
      BY <2>4, ZenonT(60) DEF WaitAck
    <3>2. (last_ack => pend <= 1) /\ (zero_acks => pend = 0) /\ ~o_wb_stb
      BY <2>1, <3>1 DEF AckTests, StateWires
    <3>3. ans = "ack" => pend > 0 /\ pend' = pend - 1
      BY <3>1, <3>2 DEF Bus, TypeOK
    <3>4. ans = "none" => pend' = pend
      BY <3>1, <3>2 DEF Bus, TypeOK
    <3> QED
      BY <3>1, <3>2, <3>3, <3>4 DEF Answer, TypeOK
  <2>5. CASE Reset(stall, ans)
    BY <2>5, ZenonT(60) DEF Reset
  <2>6. ~Idle(cmd, stall, ans)
    BY <2>1, ZenonT(60) DEF Idle, StateWires
  <2>7. CASE WaitOnNextWrite(cmd, stall, ans)
    <3>1. IsNewErr(cmd) \/ ans = "err"
      BY <2>7, ZenonT(60) DEF WaitOnNextWrite
    <3> QED
      BY <2>7, <3>1, ZenonT(60) DEF WaitOnNextWrite
  <2>8. ~Flush(cmd, stall, ans)
    BY <2>1, ZenonT(60) DEF Flush, StateWires
  <2> QED
    BY <2>2, <2>3, <2>4, <2>5, <2>6, <2>7, <2>8, ZenonT(60) DEF Clock
<1> QED
  BY <1>1, Inductive, PTL DEF Spec, NoAnswerAbandoned

\* A step of the controller is a step of a master that keeps the rules.
LEMMA RulesStep ==
  ASSUME HostWaits, TypeOK, IInv, TypeOK', IInv',
         NEW cmd \in Cmd \cup {NoCmd}, NEW stall \in BOOLEAN, NEW ans \in Answer,
         Clock(cmd, stall, ans)
  PROVE  Master!Next
<1> DEFINE req == [we |-> o_wb_we, addr |-> o_wb_addr]
<1>1. StateWires /\ (o_wb_stb' => o_wb_cyc')
  <2>1. StateWires /\ StateWires'
    BY ZenonT(60) DEF IInv
  <2> QED
    BY <2>1 DEF StateWires
<1>2. Master!Bus(stall, ans)
  <2>1. Bus(stall, ans)
    BY ZenonT(60) DEF Clock, Idle, ReadRequest, WriteRequest, WaitAck, WaitOnNextWrite, Flush, Reset
  <2> QED
    BY <2>1, ZenonT(30) DEF Bus, Master!Bus
<1>3. o_wb_cyc /\ o_wb_cyc' => o_wb_we' = o_wb_we
  <2>1. CASE Idle(cmd, stall, ans)
    <3>1. o_wb_cyc => cmd = NoCmd
      BY <2>1 DEF Idle
    <3>2. o_wb_cyc' <=> cmd.op = "read" \/ cmd.op = "write"
      BY <2>1, ZenonT(60) DEF Idle
    <3> QED
      BY <3>1, <3>2 DEF NoCmd, Word
  <2>2. CASE ~Idle(cmd, stall, ans)
    <3>1. o_wb_we' = o_wb_we
      BY <2>2, ZenonT(60) DEF Clock, ReadRequest, WriteRequest, WaitAck, WaitOnNextWrite, Flush, Reset
    <3> QED
      BY <3>1
  <2> QED
    BY <2>1, <2>2
<1>4. ~o_wb_cyc => ~o_wb_stb /\ pend' = 0
  BY <1>1, <1>2 DEF StateWires, Master!Bus
<1>5. o_wb_stb /\ stall /\ o_wb_cyc' => (o_wb_stb' <=> TRUE) /\ o_wb_we' = o_wb_we /\ o_wb_addr' = o_wb_addr
  <2>1. CASE Idle(cmd, stall, ans)
    <3>1. o_wb_cyc => cmd = NoCmd
      BY <2>1 DEF Idle
    <3>2. o_wb_cyc' <=> cmd.op = "read" \/ cmd.op = "write"
      BY <2>1, ZenonT(60) DEF Idle
    <3> QED
      BY <1>1, <3>1, <3>2 DEF NoCmd, Word, StateWires
  <2>2. CASE ReadRequest(stall, ans)
    <3>1. stall => (o_wb_stb' <=> TRUE)
      BY <2>2, ZenonT(60) DEF ReadRequest
    <3>2. o_wb_addr' = NextAddr(stall) /\ o_wb_we' = o_wb_we
      BY <2>2, ZenonT(60) DEF ReadRequest
    <3> QED
      BY <3>1, <3>2 DEF NextAddr
  <2>3. CASE WriteRequest(stall, ans)
    <3>1. /\ o_wb_stb' <=> (ans # "err" /\ stall)
          /\ o_wb_cyc' <=> ans # "err"
      BY <2>3, ZenonT(60) DEF WriteRequest
    <3>2. o_wb_addr' = NextAddr(stall) /\ o_wb_we' = o_wb_we
      BY <2>3, ZenonT(60) DEF WriteRequest
    <3> QED
      BY <3>1, <3>2 DEF NextAddr
  <2>4. CASE WaitAck(stall, ans)
    BY <1>1, <2>4 DEF WaitAck, StateWires
  <2>5. CASE WaitOnNextWrite(cmd, stall, ans)
    BY <1>1, <2>5 DEF WaitOnNextWrite, StateWires
  <2>6. CASE Flush(cmd, stall, ans)
    BY <1>1, <2>6 DEF Flush, StateWires
  <2>7. CASE Reset(stall, ans)
    BY <2>7, ZenonT(60) DEF Reset
  <2> QED
    BY <2>1, <2>2, <2>3, <2>4, <2>5, <2>6, <2>7 DEF Clock
<1>6. req' \in [we : BOOLEAN, addr : Addr]
  BY DEF TypeOK
<1>7. Master!Held(stall)
  BY <1>5 DEF Master!Held
<1>8. Master!Direction
  BY <1>3, <1>4 DEF Master!Direction
<1>9. Master!StrobeInCycle
  BY <1>1 DEF Master!StrobeInCycle
<1> QED
  BY <1>2, <1>6, <1>7, <1>8, <1>9 DEF Master!Next, Answer

(***************************************************************************)
(* The wires keep the bus's rules for a request (fwb_slave.v:199-229): a   *)
(* stalled request is held and the direction turns only when nothing is in *)
(* flight.  That an error ends the cycle (193-197) is not among them.      *)
(***************************************************************************)
THEOREM RequestRulesKept == ASSUME HostWaits PROVE Spec => KeepsRequestRules
<1>1. Init => Master!Init
  BY ZenonT(30) DEF Init, Master!Init
<1>2. TypeOK /\ IInv /\ TypeOK' /\ IInv' /\ [Next]_vars => [Master!Next]_(Master!bus)
  <2> SUFFICES ASSUME TypeOK, IInv, TypeOK', IInv', [Next]_vars
               PROVE  [Master!Next]_(Master!bus)
    OBVIOUS
  <2>1. CASE UNCHANGED vars
    BY <2>1 DEF vars, fsm, count, job, Master!bus
  <2>2. CASE Next
    BY <2>2, RulesStep DEF Next
  <2> QED
    BY <2>1, <2>2
<1>3. Spec => [](TypeOK /\ IInv)
  BY Inductive
<1> QED
  BY <1>1, <1>2, <1>3, PTL DEF Spec, KeepsRequestRules, Master!Spec

-----------------------------------------------------------------------------
(* The path drives the debug bus master as WbuExec lets the bus do it.     *)

LEMMA PathRunsExec == PathSpec => Spec
<1>1. PathInit => Init
  BY ZenonT(30) DEF PathInit
<1>2. [PathNext]_pathvars => [Next]_vars
  <2> SUFFICES ASSUME [PathNext]_pathvars PROVE [Next]_vars
    OBVIOUS
  <2>1. CASE UNCHANGED pathvars
    BY <2>1 DEF pathvars
  <2>2. CASE PathNext
    <3>1. PICK cmd \in Codewords, stall \in Choice(o_dly_stb), ack \in Choice(dev # << >>),
               zstall \in Choice(wbu_zip_sel), zack \in Choice(zip_pend > 0) :
            PathClock(cmd, stall, ack, zstall, zack)
      BY <2>2 DEF PathNext
    <3>2. cmd \in Cmd \cup {NoCmd}
      BY DEF Codewords
    <3>3. DebugStall(zstall) \in BOOLEAN /\ DebugAnswer(zack) \in Answer
      BY ZenonT(30) DEF DebugStall, DebugAnswer, Choice, Answer
    <3> QED
      BY <3>1, <3>2, <3>3 DEF PathClock, Next
  <2> QED
    BY <2>1, <2>2
<1> QED
  BY <1>1, <1>2, PTL DEF PathSpec, Spec

(***************************************************************************)
(* A read asks for exactly its words, on the bus as it is wired.           *)
(***************************************************************************)
THEOREM PathReadsExactly == ASSUME HostWaits PROVE PathSpec => []ReadExact
  BY PathRunsExec, ReadsExactly, PTL

(***************************************************************************)
(* Every answer to a read becomes one codeword, on the bus as it is wired. *)
(***************************************************************************)
THEOREM PathAnswersReported == ASSUME HostWaits PROVE PathSpec => []AnswersReported
  BY PathRunsExec, EachAnswerOnce, PTL

(***************************************************************************)
(* No request is abandoned without a word to the host.                     *)
(***************************************************************************)
THEOREM PathAbandonsNothing == ASSUME HostWaits PROVE PathSpec => NoAnswerAbandoned
  BY PathRunsExec, NothingAbandoned, PTL

(***************************************************************************)
(* The debug master keeps the bus's rules for a request (fwb_slave.v:      *)
(* 199-229) on the bus as it is wired.  That an error ends the cycle       *)
(* (193-197) is not among them.                                            *)
(***************************************************************************)
THEOREM PathKeepsRequestRules == ASSUME HostWaits PROVE PathSpec => KeepsRequestRules
  BY PathRunsExec, RequestRulesKept, PTL

-----------------------------------------------------------------------------
(* An access stays on its side of bit 24, as the codewords it comes from.  *)

Side ==
  /\ wb_state = "READ" =>
       \A k \in 0 .. asked :
         (base + IF r_inc = 1 THEN k ELSE 0) % AddrMod \in ZipPort <=> base \in ZipPort
  /\ wb_state = "WRITE" => ((o_wb_addr + r_inc) % AddrMod \in ZipPort <=> o_wb_addr \in ZipPort)

(***************************************************************************)
(* What a clock of the debug bus master does to the path: while the cycle  *)
(* is open its address stays on one side, and an error is remembered.      *)
(***************************************************************************)
Onward(ans) ==
  /\ o_wb_cyc /\ o_wb_cyc' => /\ o_wb_addr' \in ZipPort <=> o_wb_addr \in ZipPort
                              /\ failed' <=> failed \/ ans = "err"
                              /\ failed => ~o_wb_stb
  /\ ~o_wb_cyc /\ o_wb_cyc' => ~failed'

LEMMA OneSideIs ==
  ASSUME TypeOK, NEW cmd \in Cmd, OneSide(cmd)
  PROVE  LET inc == IF wb_state = "WAIT" THEN r_inc ELSE cmd.inc IN
         /\ cmd.op = "read" => \A k \in 0 .. cmd.len :
              (o_wb_addr + IF inc = 1 THEN k ELSE 0) % AddrMod \in ZipPort <=> o_wb_addr \in ZipPort
         /\ cmd.op = "write" => 
              ((o_wb_addr + inc) % AddrMod \in ZipPort <=> o_wb_addr \in ZipPort)
<1> DEFINE inc == IF wb_state = "WAIT" THEN r_inc ELSE cmd.inc
           K == 0 .. (IF cmd.op = "write" THEN 1 ELSE cmd.len)
<1>1. inc \in {0, 1}
  <2>1. cmd.inc \in {0, 1}
    BY DEF Cmd, EOW, Word
  <2> QED
    BY <2>1 DEF TypeOK
<1>2. cmd.len \in Nat
  BY LengthsAssumption DEF Cmd, EOW, Word
<1>3. \A k \in K : (o_wb_addr + k * inc) % AddrMod \in ZipPort <=> o_wb_addr \in ZipPort
  BY DEF OneSide
<1>4. \A k \in Nat : k * inc = IF inc = 1 THEN k ELSE 0
  <2> HIDE DEF inc
  <2>1. CASE inc = 0
    BY <2>1
  <2>2. CASE inc = 1
    BY <2>2
  <2> QED
    BY <1>1, <2>1, <2>2
<1>5. \A k \in K : (o_wb_addr + IF inc = 1 THEN k ELSE 0) % AddrMod \in ZipPort
                   <=> o_wb_addr \in ZipPort
  <2>1. K \subseteq Nat
    BY <1>2
  <2> HIDE DEF inc, K
  <2> QED
    BY <1>3, <1>4, <2>1
<1>6. cmd.op = "read" => K = 0 .. cmd.len
  OBVIOUS
<1>7. cmd.op = "write" => 1 \in K
  OBVIOUS
<1>8. (IF inc = 1 THEN 1 ELSE 0) = inc
  BY <1>1
<1> HIDE DEF inc, K
<1>9. cmd.op = "write" => ((o_wb_addr + inc) % AddrMod \in ZipPort <=> o_wb_addr \in ZipPort)
  BY <1>5, <1>7, <1>8
<1>10. cmd.op = "read" => \A k \in 0 .. cmd.len :
         (o_wb_addr + IF inc = 1 THEN k ELSE 0) % AddrMod \in ZipPort <=> o_wb_addr \in ZipPort
  BY <1>5, <1>6
<1> QED
  BY <1>9, <1>10 DEF inc

LEMMA SideStep ==
  ASSUME HostWaits, ~Crosses, TypeOK, IInv, Side,
         NEW cmd \in Codewords, NEW stall \in BOOLEAN, NEW ans \in Answer,
         Clock(cmd, stall, ans)
  PROVE  Side' /\ Onward(ans)
<1>1. StateWires /\ ReadExact
  BY ZenonT(60) DEF IInv
<1>2. cmd = NoCmd \/ (cmd \in Cmd /\ OneSide(cmd))
  BY DEF Codewords
<1>3. CASE Idle(cmd, stall, ans)
  <2>1. /\ wb_state' = CASE cmd.op = "read"  -> "READ"
                         [] cmd.op = "write" -> "WRITE"
                         [] OTHER          -> "IDLE"
        /\ cmd.op \in {"read", "write"} => o_wb_addr' = o_wb_addr /\ cmd \in Cmd /\ OneSide(cmd)
        /\ o_wb_cyc' <=> cmd.op = "read" \/ cmd.op = "write"
        /\ ~failed' /\ asked' = cmd.len /\ base' = o_wb_addr /\ r_inc' = cmd.inc
        /\ o_wb_cyc => cmd = NoCmd
        /\ wb_state = "IDLE"
    <3>1. NoCmd.op = "none"
      BY DEF NoCmd, Word
    <3>2. o_wb_cyc' <=> cmd.op = "read" \/ cmd.op = "write"
      BY <1>3, ZenonT(60) DEF Idle
    <3> QED
      BY <1>2, <1>3, <3>1, <3>2 DEF Idle
  <2>2. ~(o_wb_cyc /\ o_wb_cyc')
    BY <2>1 DEF NoCmd, Word
  <2>3. Onward(ans)
    BY <2>1, <2>2 DEF Onward
  <2>4. Side'
    BY <2>1, OneSideIs DEF Side
  <2> QED
    BY <2>3, <2>4
<1>4. CASE ReadRequest(stall, ans)
  <2>1. /\ wb_state' \in {"READ", "ACK", "IDLE"}
        /\ o_wb_addr' = NextAddr(stall) /\ asked' = asked /\ base' = base /\ r_inc' = r_inc
        /\ wb_state = "READ"
    BY <1>4, ZenonT(60) DEF ReadRequest, Track
  <2>2. failed' <=> failed \/ ans = "err"
    BY <1>4, ZenonT(60) DEF ReadRequest, Track
  <2>3. o_wb_cyc /\ ~failed /\ issued < asked
        /\ o_wb_addr = (base + IF r_inc = 1 THEN issued ELSE 0) % AddrMod
    BY <1>1, <2>1 DEF StateWires, ReadExact
  <2>4. o_wb_addr \in ZipPort <=> base \in ZipPort
    BY <2>1, <2>3, SMTT(30) DEF Side, TypeOK
  <2>5. o_wb_addr' \in ZipPort <=> base \in ZipPort
    <3>1. CASE r_inc = 1 /\ ~stall
      <4>1. base + issued \in Nat /\ issued + 1 \in 0 .. asked
        BY <2>3, AddrAssumption DEF TypeOK, Addr
      <4>2. o_wb_addr' = (base + issued + 1) % AddrMod
        BY <2>1, <2>3, <3>1, <4>1, ModSucc, AddrAssumption DEF NextAddr
      <4>3. base + issued + 1 = base + (issued + 1)
        BY <2>3, AddrAssumption DEF TypeOK, Addr
      <4> QED
        BY <2>1, <3>1, <4>1, <4>2, <4>3 DEF Side
    <3>2. CASE ~(r_inc = 1 /\ ~stall)
      BY <2>1, <2>4, <3>2 DEF NextAddr
    <3> QED
      BY <3>1, <3>2
  <2>6. Side'
    BY <2>1 DEF Side
  <2> QED
    BY <2>2, <2>3, <2>4, <2>5, <2>6 DEF Onward
<1>5. CASE WriteRequest(stall, ans)
  <2>1. /\ wb_state' = IF ans = "err" THEN "FLUSH" ELSE IF stall THEN "WRITE" ELSE "WAIT"
        /\ o_wb_addr' = NextAddr(stall) /\ r_inc' = r_inc /\ wb_state = "WRITE"
    BY <1>5, ZenonT(60) DEF WriteRequest
  <2>2. failed' <=> failed \/ ans = "err"
    BY <1>5, ZenonT(60) DEF WriteRequest, Track
  <2>3. o_wb_addr' \in ZipPort <=> o_wb_addr \in ZipPort
    BY <2>1 DEF Side, NextAddr
  <2>4. Side'
    BY <2>1 DEF Side, NextAddr
  <2>5. o_wb_cyc /\ ~failed
    BY <1>1, <2>1 DEF StateWires
  <2> QED
    BY <2>2, <2>3, <2>4, <2>5 DEF Onward
<1>6. CASE WaitAck(stall, ans)
  <2>1. /\ wb_state' \in {"ACK", "IDLE"} /\ o_wb_addr' = o_wb_addr /\ wb_state = "ACK"
    BY <1>6, ZenonT(60) DEF WaitAck
  <2>2. failed' <=> failed \/ ans = "err"
    BY <1>6, ZenonT(60) DEF WaitAck, Track
  <2> QED
    BY <1>1, <2>1, <2>2 DEF Side, Onward, StateWires
<1>7. CASE WaitOnNextWrite(cmd, stall, ans)
  <2>1. /\ wb_state' \in {"IDLE", "FLUSH", "WRITE", "ACK", "WAIT"}
        /\ wb_state' = "WRITE" => cmd.op = "write"
        /\ o_wb_addr' = o_wb_addr /\ r_inc' = r_inc /\ wb_state = "WAIT"
    BY <1>7, ZenonT(60) DEF WaitOnNextWrite
  <2>2. failed' <=> failed \/ ans = "err"
    BY <1>7, ZenonT(60) DEF WaitOnNextWrite, Track
  <2>3. o_wb_cyc /\ ~failed
    BY <1>1, <2>1 DEF StateWires
  <2>4. cmd.op = "write" => cmd \in Cmd /\ OneSide(cmd)
    BY <1>2 DEF NoCmd, Word
  <2>5. Side'
    BY <2>1, <2>4, OneSideIs DEF Side
  <2> QED
    BY <2>1, <2>2, <2>3, <2>5 DEF Onward
<1>8. CASE Flush(cmd, stall, ans)
  <2>1. wb_state' \in {"IDLE", "FLUSH"} /\ ~o_wb_cyc'
    BY <1>8, ZenonT(60) DEF Flush
  <2> QED
    BY <2>1 DEF Side, Onward
<1>9. CASE Reset(stall, ans)
  <2>1. wb_state' = "IDLE" /\ ~o_wb_cyc'
    BY <1>9, ZenonT(60) DEF Reset
  <2> QED
    BY <2>1 DEF Side, Onward
<1> QED
  BY <1>3, <1>4, <1>5, <1>6, <1>7, <1>8, <1>9 DEF Clock


-----------------------------------------------------------------------------
(* What the path holds belongs to the master that owns the bus: ownership  *)
(* changes only in a clock whose cycle is closed, and that clock drops it  *)
(* all.                                                                    *)

Who == IF r_a_owner THEN "CPU" ELSE "DBG"
Bit(b) == IF b THEN 1 ELSE 0

PathTypes ==
  /\ r_a_owner \in BOOLEAN /\ a_cyc \in BOOLEAN /\ a_stb \in BOOLEAN /\ a_ok \in BOOLEAN
  /\ o_dly_cyc \in BOOLEAN /\ o_dly_stb \in BOOLEAN /\ r_stb \in BOOLEAN
  /\ o_wb_ack \in BOOLEAN /\ o_wb_err \in BOOLEAN
  /\ o_dly_req \in Request /\ r_req \in Request
  /\ dev \in Seq(Owners) /\ Len(dev) <= DevMax
  /\ zip_pend \in 0 .. DevMax

DelayOrder == (r_stb => o_dly_stb) /\ (o_dly_stb => o_dly_cyc) /\ (o_wb_err => ~o_dly_cyc)

OneOwner ==
  /\ o_dly_stb => o_dly_req.by = Who
  /\ r_stb => r_req.by = Who
  /\ o_dly_cyc => \A i \in 1 .. Len(dev) : dev[i] = Who
  /\ o_wb_ack \/ o_wb_err => answered = Who

\* The debug port is only spoken to by a master that does not have the bus.
Apart ==
  /\ o_wb_cyc /\ wbu_zip_sel => r_a_owner
  /\ o_wb_cyc /\ ~wbu_zip_sel => zip_pend = 0

\* The debug master's requests between it and the devices.
Held == Bit(r_stb) + Bit(o_dly_stb) + Bit(o_wb_ack) + IF o_dly_cyc THEN Len(dev) ELSE 0

Counted ==
  o_wb_cyc /\ ~failed =>
    IF wbu_zip_sel THEN pend = zip_pend
    ELSE IF r_a_owner THEN pend = 0
    ELSE IF o_wb_err THEN pend > 0
    ELSE pend = Held

\* After an error the master is owed nothing, and nothing is on its way.
Emptied == o_wb_cyc /\ failed => pend = 0 /\ ~r_a_owner /\ ~o_wb_err /\ Held = 0

PathInv == PathTypes /\ DelayOrder /\ OneOwner /\ Side /\ Apart /\ Counted /\ Emptied
           /\ pend <= DevMax + 2

(***************************************************************************)
(* The delay's registers after a clock, read as propositions.              *)
(***************************************************************************)
Dropped == ~bus_cyc \/ NoneSel \/ o_wb_err
Flows(stall) == ~stall \/ ~o_dly_stb

LEMMA DelayWires ==
  ASSUME PathTypes, DelayOrder, NEW stall \in BOOLEAN, NEW ack \in BOOLEAN,
         Dly!Delay(stall, ack, NoneSel)
  PROVE  /\ o_dly_cyc' <=> ~Dropped
         /\ o_dly_stb' <=> ~Dropped /\ IF Flows(stall) THEN r_stb \/ bus_stb ELSE o_dly_stb
         /\ r_stb' <=> ~Dropped /\ ~Flows(stall) /\ (r_stb \/ bus_stb)
         /\ o_wb_ack' <=> ~Dropped /\ ack /\ o_dly_cyc
         /\ o_wb_err' <=> bus_cyc /\ NoneSel
         /\ o_dly_cyc' \in BOOLEAN /\ o_dly_stb' \in BOOLEAN /\ r_stb' \in BOOLEAN
         /\ o_wb_ack' \in BOOLEAN /\ o_wb_err' \in BOOLEAN
         /\ o_dly_req' = IF Flows(stall) THEN IF r_stb THEN r_req ELSE bus_req ELSE o_dly_req
         /\ r_req' = IF Flows(stall) \/ ~r_stb THEN bus_req ELSE r_req
<1>1. /\ o_dly_cyc' <=> (bus_cyc /\ ~o_wb_err /\ ~(NoneSel /\ o_dly_cyc))
      /\ r_stb' <=> (~Dly!Kills(NoneSel) /\ ~Dly!Flows(stall) /\ (r_stb \/ bus_stb))
      /\ o_wb_ack' <=> Dly!AckRegistered(ack, NoneSel)
      /\ o_wb_err' <=> (bus_cyc /\ NoneSel /\ o_dly_cyc)
  BY ZenonT(60) DEF Dly!Delay
<1>2. o_dly_stb' <=> (~Dly!Kills(NoneSel) /\ IF Dly!Flows(stall) THEN r_stb \/ bus_stb ELSE o_dly_stb)
  BY ZenonT(60) DEF Dly!Delay
<1>3. /\ o_dly_cyc' \in BOOLEAN /\ o_dly_stb' \in BOOLEAN /\ r_stb' \in BOOLEAN
      /\ o_wb_ack' \in BOOLEAN /\ o_wb_err' \in BOOLEAN
  BY ZenonT(60) DEF Dly!Delay, Dly!AckRegistered
<1>4. /\ o_dly_req' = IF Dly!Flows(stall) THEN Dly!NextRequest ELSE o_dly_req
      /\ r_req' = IF Dly!Flows(stall) \/ ~r_stb THEN bus_req ELSE r_req
  BY ZenonT(60) DEF Dly!Delay
<1>5. NoneSel => o_dly_cyc
  BY DEF NoneSel, DelayOrder
<1>6. Dly!Flows(stall) <=> Flows(stall)
  BY DEF Dly!Flows, Flows
<1>7. Dly!Kills(NoneSel) <=> Dropped
  BY <1>5 DEF Dly!Kills, Dropped
<1>8. Dly!AckRegistered(ack, NoneSel) <=> ~Dropped /\ ack /\ o_dly_cyc
  BY <1>5 DEF Dly!AckRegistered, Dropped
<1> HIDE DEF Flows, Dropped
<1>9. /\ o_dly_cyc' <=> ~Dropped
      /\ o_wb_err' <=> bus_cyc /\ NoneSel
  BY <1>1, <1>5 DEF Dropped
<1>10. Dly!NextRequest = IF r_stb THEN r_req ELSE bus_req
  BY DEF Dly!NextRequest
<1>11. /\ o_dly_req' = IF Flows(stall) THEN IF r_stb THEN r_req ELSE bus_req ELSE o_dly_req
       /\ r_req' = IF Flows(stall) \/ ~r_stb THEN bus_req ELSE r_req
  BY <1>4, <1>6, <1>10
<1>12. /\ o_dly_stb' <=> ~Dropped /\ IF Flows(stall) THEN r_stb \/ bus_stb ELSE o_dly_stb
       /\ r_stb' <=> ~Dropped /\ ~Flows(stall) /\ (r_stb \/ bus_stb)
       /\ o_wb_ack' <=> ~Dropped /\ ack /\ o_dly_cyc
  BY <1>1, <1>2, <1>6, <1>7, <1>8
<1> QED
  BY <1>3, <1>9, <1>11, <1>12

(***************************************************************************)
(* The bus changes hands only in a clock without a cycle.                  *)
(***************************************************************************)
LEMMA HandOver ==
  ASSUME TypeOK, StateWires, PathTypes, r_a_owner' = Owner
  PROVE  /\ r_a_owner' \in BOOLEAN
         /\ bus_cyc => (r_a_owner' <=> r_a_owner)
         /\ bus_cyc \in BOOLEAN /\ bus_stb \in BOOLEAN
         /\ bus_req \in Request /\ bus_req.by = Who
         /\ ~b_cyc => r_a_owner'
         /\ b_cyc /\ ~r_a_owner => ~r_a_owner'
<1>1. Owner \in BOOLEAN
  BY ZenonT(30) DEF Owner
<1>2. b_cyc \in BOOLEAN /\ b_stb \in BOOLEAN /\ (b_stb => b_cyc)
  <2>1. b_cyc \in BOOLEAN /\ b_stb \in BOOLEAN
    BY ZenonT(30) DEF b_cyc, b_stb
  <2> QED
    BY <2>1 DEF b_cyc, b_stb, TypeOK, StateWires
<1>3. r_a_owner' <=> ~b_cyc \/ (r_a_owner /\ ~(b_stb /\ ~a_cyc))
  BY ZenonT(30) DEF Owner
<1>4. bus_cyc \in BOOLEAN /\ bus_stb \in BOOLEAN
  BY <1>2 DEF bus_cyc, bus_stb, PathTypes
<1>5. bus_req \in Request /\ bus_req.by = Who
  <2>1. (o_wb_addr \notin Unmapped) \in BOOLEAN
    BY Zenon
  <2> QED
    BY <2>1 DEF bus_req, PathTypes, Request, Owners, Who
<1>6. bus_cyc => (r_a_owner' <=> r_a_owner)
  BY <1>2, <1>3 DEF bus_cyc, PathTypes
<1> QED
  BY <1>1, <1>2, <1>3, <1>4, <1>5, <1>6

(***************************************************************************)
(* Everything the path holds after a clock belongs to the bus's owner.     *)
(***************************************************************************)
LEMMA PathKeepsOwner ==
  ASSUME TypeOK, StateWires, PathTypes, DelayOrder, OneOwner,
         NEW stall \in BOOLEAN, NEW ack \in BOOLEAN,
         NEW zstall \in BOOLEAN, NEW zack \in BOOLEAN,
         Dly!Delay(stall, ack, NoneSel), r_a_owner' = Owner,
         Devices(stall, ack), DebugPort(zstall, zack), Cpu
  PROVE  PathTypes' /\ DelayOrder' /\ OneOwner'
<1>1. /\ o_dly_cyc' <=> ~Dropped
      /\ o_dly_stb' <=> ~Dropped /\ IF Flows(stall) THEN r_stb \/ bus_stb ELSE o_dly_stb
      /\ r_stb' <=> ~Dropped /\ ~Flows(stall) /\ (r_stb \/ bus_stb)
      /\ o_wb_ack' <=> ~Dropped /\ ack /\ o_dly_cyc
      /\ o_wb_err' <=> bus_cyc /\ NoneSel
      /\ o_dly_cyc' \in BOOLEAN /\ o_dly_stb' \in BOOLEAN /\ r_stb' \in BOOLEAN
      /\ o_wb_ack' \in BOOLEAN /\ o_wb_err' \in BOOLEAN
      /\ o_dly_req' = IF Flows(stall) THEN IF r_stb THEN r_req ELSE bus_req ELSE o_dly_req
      /\ r_req' = IF Flows(stall) \/ ~r_stb THEN bus_req ELSE r_req
  BY DelayWires
<1>2. /\ r_a_owner' \in BOOLEAN
      /\ bus_cyc => (r_a_owner' <=> r_a_owner)
      /\ bus_req \in Request /\ bus_req.by = Who
  BY HandOver
<1>3. /\ o_dly_req' \in Request /\ r_req' \in Request
  BY <1>1, <1>2 DEF PathTypes
<1> DEFINE taken == o_dly_stb /\ o_dly_req.ok /\ ~stall
           left  == IF ack THEN Tail(dev) ELSE dev
<1>4. /\ left \in Seq(Owners) /\ Len(left) <= DevMax
      /\ ack => Len(left) = Len(dev) - 1 /\ \A i \in 1 .. Len(left) : left[i] = dev[i + 1]
      /\ ack => dev # << >> /\ o_dly_cyc /\ Len(dev) > 0 /\ Head(dev) = dev[1]
  <2>1. ack => dev # << >> /\ o_dly_cyc
    BY DEF Devices
  <2>2. CASE ack
    BY <2>1, <2>2, DevMaxAssumption DEF PathTypes
  <2>3. CASE ~ack
    BY <2>3 DEF PathTypes
  <2> QED
    BY <2>2, <2>3
<1>5. dev' = IF ~o_dly_cyc \/ NoneSel THEN << >>
             ELSE IF taken THEN Append(left, o_dly_req.by) ELSE left
  BY ZenonT(30) DEF Devices
<1>6. o_dly_stb => o_dly_req.by \in Owners
  BY DEF PathTypes, Request
<1>7. taken /\ ~NoneSel => Len(left) < DevMax
  BY <1>4, DevMaxAssumption DEF Devices, PathTypes, NoneSel
<1>8. dev' \in Seq(Owners) /\ Len(dev') <= DevMax
  <2> HIDE DEF left
  <2>1. CASE ~o_dly_cyc \/ NoneSel
    BY <1>5, <2>1, DevMaxAssumption
  <2>2. CASE ~(~o_dly_cyc \/ NoneSel) /\ taken
    <3>1. dev' = Append(left, o_dly_req.by)
      BY <1>5, <2>2
    <3> HIDE DEF taken
    <3> QED
      BY <1>4, <1>6, <1>7, <2>2, <3>1, DevMaxAssumption DEF taken
  <2>3. CASE ~(~o_dly_cyc \/ NoneSel) /\ ~taken
    BY <1>4, <1>5, <2>3
  <2> QED
    BY <2>1, <2>2, <2>3
<1>9. zip_pend' \in 0 .. DevMax
  BY DevMaxAssumption DEF DebugPort, PathTypes
<1>10. PathTypes'
  <2>1. a_cyc' \in BOOLEAN /\ a_stb' \in BOOLEAN /\ a_ok' \in BOOLEAN
    BY ZenonT(30) DEF Cpu
  <2> QED
    BY <1>1, <1>2, <1>3, <1>8, <1>9, <2>1 DEF PathTypes
<1>11. DelayOrder'
  <2>1. r_stb' => o_dly_stb'
    BY <1>1 DEF Flows
  <2>2. o_dly_stb' => o_dly_cyc'
    BY <1>1
  <2>3. o_wb_err' => ~o_dly_cyc'
    BY <1>1 DEF Dropped
  <2> QED
    BY <2>1, <2>2, <2>3 DEF DelayOrder
<1>12. OneOwner'
  <2>1. CASE Dropped /\ ~(bus_cyc /\ NoneSel)
    BY <1>1, <2>1 DEF OneOwner
  <2>2. CASE bus_cyc /\ NoneSel
    <3>1. Who' = Who /\ ~o_dly_cyc' /\ ~o_dly_stb' /\ ~r_stb'
      BY <1>1, <1>2, <2>2 DEF Dropped, Who
    <3>2. answered' = o_dly_req.by
      BY <2>2 DEF Devices
    <3> QED
      BY <2>2, <3>1, <3>2 DEF OneOwner, NoneSel
  <2>3. CASE ~Dropped
    <3>1. Who' = Who /\ ~NoneSel /\ ~o_wb_err'
      BY <1>1, <1>2, <2>3 DEF Dropped, Who
    <3>2. o_dly_stb' => o_dly_req'.by = Who
      BY <1>1, <1>2 DEF OneOwner, Flows
    <3>3. r_stb' => r_req'.by = Who
      BY <1>1, <1>2 DEF OneOwner, Flows
    <3>4. o_wb_ack' => answered' = Who
      <4>1. o_wb_ack' => ack /\ answered' = Head(dev) /\ o_dly_cyc
        BY <1>1, <3>1 DEF Devices
      <4> QED
        BY <1>4, <4>1, 1 \in 1 .. Len(dev) <=> Len(dev) > 0 DEF OneOwner, PathTypes
    <3>5. ASSUME NEW i \in 1 .. Len(dev') PROVE dev'[i] = Who
      <4>1. o_dly_cyc
        BY <1>5, <3>5
      <4>2. \A j \in 1 .. Len(left) : left[j] = Who
        BY <1>4, <4>1 DEF OneOwner, PathTypes
      <4> HIDE DEF left
      <4>3. CASE taken
        <5>1. dev' = Append(left, o_dly_req.by) /\ o_dly_req.by = Who
          BY <1>5, <3>1, <4>1, <4>3 DEF OneOwner
        <5> HIDE DEF taken
        <5> QED
          BY <1>4, <1>6, <3>5, <4>2, <5>1
      <4>4. CASE ~taken
        BY <1>5, <3>1, <3>5, <4>1, <4>2, <4>4
      <4> QED
        BY <4>3, <4>4
    <3> QED
      BY <3>1, <3>2, <3>3, <3>4, <3>5 DEF OneOwner
  <2> QED
    BY <2>1, <2>2, <2>3
<1> QED
  BY <1>10, <1>11, <1>12

(***************************************************************************)
(* What the debug master hears in a clock, and what it is owed after it.   *)
(***************************************************************************)
LEMMA Heard ==
  ASSUME TypeOK, PathTypes, NEW cmd \in Codewords, NEW zstall \in BOOLEAN, NEW zack \in BOOLEAN,
         Clock(cmd, DebugStall(zstall), DebugAnswer(zack))
  PROVE  /\ DebugAnswer(zack) \in Answer /\ DebugStall(zstall) \in BOOLEAN
         /\ DebugAnswer(zack) = "err" <=> o_wb_cyc /\ ~r_a_owner /\ o_wb_err
         /\ DebugAnswer(zack) = "ack" <=> /\ o_wb_cyc /\ ~(~r_a_owner /\ o_wb_err)
                                          /\ IF wbu_zip_sel THEN zack ELSE ~r_a_owner /\ o_wb_ack
         /\ DebugStall(zstall) <=> IF wbu_zip_sel THEN zstall ELSE r_a_owner \/ r_stb
         /\ pend' = IF ~o_wb_cyc \/ DebugAnswer(zack) = "err" THEN 0
                    ELSE pend + (IF o_wb_stb /\ ~DebugStall(zstall) THEN 1 ELSE 0)
                              - (IF DebugAnswer(zack) = "ack" THEN 1 ELSE 0)
<1>1. DebugAnswer(zack) \in Answer /\ DebugStall(zstall) \in BOOLEAN
  BY ZenonT(30) DEF DebugStall, DebugAnswer, Answer
<1>2. Bus(DebugStall(zstall), DebugAnswer(zack))
  BY ZenonT(60) DEF Clock, Idle, ReadRequest, WriteRequest, WaitAck, WaitOnNextWrite, Flush, Reset
<1>3. DebugStall(zstall) <=> IF wbu_zip_sel THEN zstall ELSE r_a_owner \/ r_stb
  BY ZenonT(30) DEF DebugStall
<1>4. /\ DebugAnswer(zack) = "err" <=> o_wb_cyc /\ ~r_a_owner /\ o_wb_err
      /\ DebugAnswer(zack) = "ack" <=> /\ o_wb_cyc /\ ~(~r_a_owner /\ o_wb_err)
                                       /\ IF wbu_zip_sel THEN zack ELSE ~r_a_owner /\ o_wb_ack
  <2>1. PICK ack \in BOOLEAN : ack <=> IF wbu_zip_sel THEN zack ELSE ~r_a_owner /\ o_wb_ack
    OBVIOUS
  <2>2. DebugAnswer(zack) = CASE o_wb_cyc /\ ~r_a_owner /\ o_wb_err -> "err"
                              [] o_wb_cyc /\ ~(~r_a_owner /\ o_wb_err) /\ ack -> "ack"
                              [] OTHER -> "none"
    <3>1. CASE wbu_zip_sel
      BY <2>1, <3>1 DEF DebugAnswer, TypeOK, PathTypes
    <3>2. CASE ~wbu_zip_sel
      BY <2>1, <3>2 DEF DebugAnswer, TypeOK, PathTypes
    <3> QED
      BY <3>1, <3>2
  <2>3. CASE o_wb_cyc /\ ~r_a_owner /\ o_wb_err
    BY <2>2, <2>3
  <2>4. CASE o_wb_cyc /\ ~(~r_a_owner /\ o_wb_err) /\ ack
    BY <2>1, <2>2, <2>4
  <2>5. CASE ~(o_wb_cyc /\ ~r_a_owner /\ o_wb_err) /\ ~(o_wb_cyc /\ ~(~r_a_owner /\ o_wb_err) /\ ack)
    BY <2>1, <2>2, <2>5
  <2> QED
    BY <2>3, <2>4, <2>5
<1> QED
  BY <1>1, <1>2, <1>3, <1>4 DEF Bus

LEMMA PathKeepsCount ==
  ASSUME TypeOK, StateWires, PathInv, NEW cmd \in Codewords,
         NEW stall \in BOOLEAN, NEW ack \in BOOLEAN,
         NEW zstall \in BOOLEAN, NEW zack \in BOOLEAN,
         PathClock(cmd, stall, ack, zstall, zack),
         Onward(DebugAnswer(zack)), TypeOK', PathTypes'
  PROVE  Apart' /\ Counted' /\ Emptied' /\ pend' <= DevMax + 2
<1> USE DEF PathInv
<1>1. /\ DebugAnswer(zack) \in Answer /\ DebugStall(zstall) \in BOOLEAN
      /\ DebugAnswer(zack) = "err" <=> o_wb_cyc /\ ~r_a_owner /\ o_wb_err
      /\ DebugAnswer(zack) = "ack" <=> /\ o_wb_cyc /\ ~(~r_a_owner /\ o_wb_err)
                                       /\ IF wbu_zip_sel THEN zack ELSE ~r_a_owner /\ o_wb_ack
      /\ DebugStall(zstall) <=> IF wbu_zip_sel THEN zstall ELSE r_a_owner \/ r_stb
      /\ pend' = IF ~o_wb_cyc \/ DebugAnswer(zack) = "err" THEN 0
                 ELSE pend + (IF o_wb_stb /\ ~DebugStall(zstall) THEN 1 ELSE 0)
                           - (IF DebugAnswer(zack) = "ack" THEN 1 ELSE 0)
  BY Heard DEF PathClock
<1>2. /\ o_dly_cyc' <=> ~Dropped
      /\ o_dly_stb' <=> ~Dropped /\ IF Flows(stall) THEN r_stb \/ bus_stb ELSE o_dly_stb
      /\ r_stb' <=> ~Dropped /\ ~Flows(stall) /\ (r_stb \/ bus_stb)
      /\ o_wb_ack' <=> ~Dropped /\ ack /\ o_dly_cyc
      /\ o_wb_err' <=> bus_cyc /\ NoneSel
  BY DelayWires DEF PathClock
<1>3. /\ bus_cyc => (r_a_owner' <=> r_a_owner)
      /\ ~b_cyc => r_a_owner'
      /\ b_cyc /\ ~r_a_owner => ~r_a_owner'
  BY HandOver DEF PathClock
<1>4. zip_pend' = IF ~o_wb_cyc THEN 0
                  ELSE zip_pend + (IF o_wb_stb /\ wbu_zip_sel /\ ~zstall THEN 1 ELSE 0)
                                - (IF zack THEN 1 ELSE 0)
  BY DEF PathClock, DebugPort
<1>5. zack => zip_pend > 0
  BY DEF PathClock, DebugPort
<1>6. o_wb_cyc /\ o_wb_cyc' => (wbu_zip_sel' <=> wbu_zip_sel)
                               /\ (failed' <=> failed \/ DebugAnswer(zack) = "err")
                               /\ (failed => ~o_wb_stb)
  BY DEF Onward, wbu_zip_sel
<1>7. ~o_wb_cyc /\ o_wb_cyc' => ~failed'
  BY DEF Onward
<1>8. Dropped => (o_dly_cyc' <=> FALSE) /\ Held' = Bit(FALSE) + Bit(FALSE) + Bit(FALSE)
  BY <1>2 DEF Held, Bit
<1>9. CASE ~o_wb_cyc
  <2>1. pend' = 0 /\ zip_pend' = 0 /\ r_a_owner'
    BY <1>1, <1>3, <1>4, <1>9 DEF b_cyc
  <2> QED
    BY <1>7, <1>9, <2>1, DevMaxAssumption DEF Apart, Counted, Emptied
<1>10. CASE o_wb_cyc /\ wbu_zip_sel
  <2>1. r_a_owner /\ r_a_owner' /\ ~failed /\ pend = zip_pend
    BY <1>3, <1>10 DEF b_cyc, Apart, Counted, Emptied
  <2>2. DebugAnswer(zack) # "err" /\ (DebugAnswer(zack) = "ack" <=> zack)
        /\ (DebugStall(zstall) <=> zstall)
    BY <1>1, <1>10, <2>1
  <2>3. pend' = zip_pend'
    BY <1>1, <1>4, <1>10, <2>1, <2>2 DEF PathTypes
  <2>4. o_wb_cyc' => wbu_zip_sel' /\ ~failed'
    BY <1>6, <1>10, <2>1, <2>2 DEF TypeOK
  <2>5. pend' <= DevMax + 2
    BY <2>3, DevMaxAssumption DEF PathTypes
  <2> QED
    BY <2>1, <2>3, <2>4, <2>5 DEF Apart, Counted, Emptied
<1>11. CASE o_wb_cyc /\ ~wbu_zip_sel /\ r_a_owner
  <2>1. ~failed /\ pend = 0 /\ zip_pend = 0
    BY <1>11 DEF Apart, Counted, Emptied
  <2>2. DebugAnswer(zack) # "err" /\ DebugAnswer(zack) # "ack" /\ DebugStall(zstall)
    BY <1>1, <1>11
  <2>3. pend' = 0 /\ zip_pend' = 0
    BY <1>1, <1>4, <1>5, <1>11, <2>1, <2>2
  <2>4. o_wb_cyc' => ~wbu_zip_sel' /\ ~failed'
    BY <1>6, <1>11, <2>1, <2>2 DEF TypeOK
  <2>5. ~r_a_owner' => ~bus_cyc
    BY <1>3, <1>11
  <2>6. ~r_a_owner' => Held' = 0 /\ ~o_wb_err'
    BY <1>2, <1>8, <2>5 DEF Dropped, Bit
  <2> QED
    BY <2>3, <2>4, <2>6, DevMaxAssumption DEF Apart, Counted, Emptied
<1>12. CASE o_wb_cyc /\ ~wbu_zip_sel /\ ~r_a_owner
  <2>1. ~r_a_owner' /\ bus_cyc /\ (bus_stb <=> o_wb_stb)
    BY <1>3, <1>12 DEF b_cyc, b_stb, bus_cyc, bus_stb
  <2>2. zip_pend = 0 /\ zip_pend' = 0
    BY <1>4, <1>5, <1>12 DEF Apart
  <2>3. o_wb_cyc' => ~wbu_zip_sel'
    BY <1>6, <1>12
  <2>4. Apart'
    BY <2>1, <2>2, <2>3 DEF Apart
  <2>5. Dropped <=> NoneSel \/ o_wb_err
    BY <2>1 DEF Dropped
  <2>6. Len(dev) \in Nat /\ Len(dev) <= DevMax /\ pend \in Nat
    BY DEF PathTypes, TypeOK
  <2>11. PICK held \in 0 .. DevMax : held = IF o_dly_cyc THEN Len(dev) ELSE 0
    BY <2>6, DevMaxAssumption
  <2>12. Held = Bit(r_stb) + Bit(o_dly_stb) + Bit(o_wb_ack) + held
    BY <2>11 DEF Held
  <2>7. /\ ack => o_dly_cyc /\ dev # << >>
        /\ ~o_dly_cyc \/ NoneSel => dev' = << >>
        /\ o_dly_cyc /\ ~NoneSel =>
             Len(dev') = Len(dev) - Bit(ack) + Bit(o_dly_stb /\ ~stall)
    <3>1. ack => o_dly_cyc /\ dev # << >>
      BY DEF PathClock, Devices
    <3>2. dev' = IF ~o_dly_cyc \/ NoneSel THEN << >>
                 ELSE IF o_dly_stb /\ o_dly_req.ok /\ ~stall
                      THEN Append(IF ack THEN Tail(dev) ELSE dev, o_dly_req.by)
                      ELSE IF ack THEN Tail(dev) ELSE dev
      BY ZenonT(30) DEF PathClock, Devices
    <3>3. o_dly_req.by \in Owners
      BY DEF PathTypes, Request
    <3>4. PICK left \in Seq(Owners) :
            left = (IF ack THEN Tail(dev) ELSE dev) /\ Len(left) = Len(dev) - Bit(ack)
      <4>1. CASE ack
        <5>1. Len(dev) > 0
          BY <3>1, <4>1 DEF PathTypes
        <5>2. Tail(dev) \in Seq(Owners) /\ Len(Tail(dev)) = Len(dev) - 1
          BY <3>1, <4>1, <5>1 DEF PathTypes
        <5> QED
          BY <4>1, <5>2 DEF Bit
      <4>2. CASE ~ack
        BY <4>2, Len(dev) = Len(dev) - 0 DEF PathTypes, Bit
      <4> QED
        BY <4>1, <4>2
    <3>5. Len(Append(left, o_dly_req.by)) = Len(left) + 1
      BY <3>3
    <3>6. ~NoneSel /\ o_dly_stb => o_dly_req.ok
      BY DEF NoneSel
    <3>7. o_dly_cyc /\ ~NoneSel =>
            dev' = IF o_dly_stb /\ ~stall THEN Append(left, o_dly_req.by) ELSE left
      BY <3>2, <3>4, <3>6
    <3>8. o_dly_cyc /\ ~NoneSel => Len(dev') = Len(left) + Bit(o_dly_stb /\ ~stall)
      <4>1. Len(left) \in Nat
        BY <3>4
      <4> QED
        BY <3>5, <3>7, <4>1 DEF Bit
    <3> QED
      BY <3>1, <3>2, <3>4, <3>8
  <2>8. CASE failed
    <3>1. pend = 0 /\ ~o_wb_err /\ Held = 0
      BY <1>12, <2>8 DEF Emptied
    <3>2. ~r_stb /\ ~o_dly_stb /\ ~o_wb_ack /\ (o_dly_cyc => Len(dev) = 0)
      <4>1. Bit(r_stb) = 0 /\ Bit(o_dly_stb) = 0 /\ Bit(o_wb_ack) = 0 /\ held = 0
        BY <2>12, <3>1, DevMaxAssumption DEF Bit
      <4> QED
        BY <2>11, <4>1 DEF Bit
    <3>3. DebugAnswer(zack) # "err" /\ DebugAnswer(zack) # "ack"
      BY <1>1, <1>12, <3>1, <3>2
    <3>4. pend' <= DevMax + 2
      BY <1>1, <1>12, <3>1, <3>3, DevMaxAssumption
    <3>5. ~NoneSel /\ ~Dropped /\ ~o_wb_err'
      BY <1>2, <2>5, <3>1, <3>2 DEF NoneSel
    <3>6. Len(dev') = 0 /\ ~ack /\ ~o_wb_ack'
      BY <1>2, <2>6, <2>7, <3>2, <3>5 DEF Bit, PathTypes
    <3>7. CASE ~o_wb_cyc'
      BY <2>4, <3>4, <3>7 DEF Counted, Emptied
    <3>8. CASE o_wb_cyc'
      <4>1. failed' /\ ~o_wb_stb
        BY <1>6, <1>12, <2>8, <3>8
      <4>2. pend' = 0
        BY <1>1, <1>12, <3>1, <3>3, <4>1
      <4>3. ~o_dly_stb' /\ ~r_stb'
        BY <1>2, <2>1, <3>2, <4>1
      <4>4. Held' = 0
        BY <3>6, <4>3 DEF Held, Bit
      <4> QED
        BY <2>1, <2>4, <3>4, <3>5, <4>1, <4>2, <4>4 DEF Counted, Emptied
    <3> QED
      BY <3>7, <3>8
  <2>9. CASE ~failed /\ o_wb_err
    <3>1. DebugAnswer(zack) = "err" /\ pend' = 0
      BY <1>1, <1>12, <2>9
    <3>2. o_wb_cyc' => failed'
      BY <1>6, <1>12, <3>1
    <3>3. Held' = 0
      BY <1>8, <2>5, <2>9 DEF Bit
    <3>4. ~o_wb_err'
      BY <1>2, <2>9 DEF NoneSel, DelayOrder
    <3> QED
      BY <2>1, <2>4, <3>1, <3>2, <3>3, <3>4, DevMaxAssumption DEF Counted, Emptied
  <2>10. CASE ~failed /\ ~o_wb_err
    <3>1. pend = Held
      BY <1>12, <2>10 DEF Counted
    <3>2. DebugAnswer(zack) # "err" /\ (DebugAnswer(zack) = "ack" <=> o_wb_ack)
          /\ (DebugStall(zstall) <=> r_stb)
      BY <1>1, <1>12, <2>10
    <3>3. pend' = Held + Bit(o_wb_stb /\ ~r_stb) - Bit(o_wb_ack)
      BY <1>1, <1>12, <3>1, <3>2 DEF Bit
    <3>4. pend' = Bit(r_stb) + Bit(o_dly_stb) + held + Bit(o_wb_stb /\ ~r_stb)
      BY <2>12, <3>3, DevMaxAssumption DEF Bit
    <3>5. pend' <= DevMax + 2
      BY <3>4, DevMaxAssumption DEF Bit
    <3>6. o_wb_cyc' => ~failed'
      BY <1>6, <1>12, <2>10, <3>2 DEF TypeOK
    <3>7. CASE NoneSel
      <4>1. o_wb_err' /\ pend' > 0
        BY <1>2, <2>1, <3>4, <3>7, DevMaxAssumption DEF NoneSel, Bit
      <4> QED
        BY <2>1, <2>3, <2>4, <3>5, <3>6, <4>1 DEF Counted, Emptied
    <3>8. CASE ~NoneSel
      <4>1. ~Dropped /\ ~o_wb_err' /\ o_dly_cyc'
        BY <1>2, <2>5, <2>10, <3>8
      <4>2. /\ o_dly_stb' <=> IF Flows(stall) THEN r_stb \/ o_wb_stb ELSE o_dly_stb
            /\ r_stb' <=> ~Flows(stall) /\ (r_stb \/ o_wb_stb)
            /\ o_wb_ack' <=> ack /\ o_dly_cyc
        BY <1>2, <2>1, <4>1
      <4>3. Held' = Bit(r_stb') + Bit(o_dly_stb') + Bit(o_wb_ack') + Len(dev')
        BY <4>1 DEF Held
      <4>4. CASE ~o_dly_cyc
        <5>1. ~o_dly_stb /\ ~r_stb /\ ~ack /\ Len(dev') = 0
          BY <2>7, <4>4 DEF DelayOrder
        <5>2. ~r_stb' /\ (o_dly_stb' <=> o_wb_stb) /\ ~o_wb_ack'
          BY <4>2, <5>1 DEF Flows
        <5> QED
          BY <2>1, <2>3, <2>4, <2>11, <3>4, <3>5, <3>6, <4>1, <4>3, <4>4, <5>1, <5>2
             DEF Counted, Emptied, Bit
      <4>5. CASE o_dly_cyc
        <5>1. Len(dev') = Len(dev) - Bit(ack) + Bit(o_dly_stb /\ ~stall)
              /\ (o_wb_ack' <=> ack)
          BY <2>7, <3>8, <4>2, <4>5
        <5>2. Bit(r_stb') + Bit(o_dly_stb') + Bit(o_dly_stb /\ ~stall)
              = Bit(r_stb) + Bit(o_dly_stb) + Bit(o_wb_stb /\ ~r_stb)
          BY <4>2 DEF Flows, Bit, DelayOrder
        <5>3. Held' = pend'
          <6>1. held = Len(dev)
            BY <2>11, <4>5
          <6>2. Bit(o_wb_ack') = Bit(ack)
            BY <5>1 DEF Bit
          <6>3. \A b : Bit(b) \in {0, 1}
            BY DEF Bit
          <6> QED
            BY <3>4, <4>3, <5>1, <5>2, <6>1, <6>2, <6>3, SMTT(30)
        <5> QED
          BY <2>1, <2>3, <2>4, <3>5, <3>6, <4>1, <5>3 DEF Counted, Emptied
      <4> QED
        BY <4>4, <4>5
    <3> QED
      BY <3>7, <3>8
  <2> QED
    BY <2>8, <2>9, <2>10 DEF TypeOK
<1> QED
  BY <1>9, <1>10, <1>11, <1>12 DEF TypeOK

(***************************************************************************)
(* PathInv is inductive beside the invariant of the debug bus master.      *)
(***************************************************************************)
LEMMA PathInitInv ==
  ASSUME PathInit PROVE PathInv
<1>1. /\ ~o_wb_cyc /\ pend = 0 /\ wb_state = "IDLE" /\ ~o_dly_cyc /\ ~o_dly_stb /\ ~r_stb
      /\ ~o_wb_ack /\ ~o_wb_err /\ dev = << >> /\ zip_pend = 0
      /\ o_dly_req = [by |-> "CPU", ok |-> FALSE] /\ r_req = o_dly_req
  BY ZenonT(60) DEF PathInit, Init
<1>2. /\ r_a_owner \in BOOLEAN /\ a_cyc \in BOOLEAN /\ a_stb \in BOOLEAN /\ a_ok \in BOOLEAN
      /\ o_dly_cyc \in BOOLEAN /\ o_dly_stb \in BOOLEAN /\ r_stb \in BOOLEAN
      /\ o_wb_ack \in BOOLEAN /\ o_wb_err \in BOOLEAN
  BY ZenonT(60) DEF PathInit
<1>3. PathTypes
  BY <1>1, <1>2, DevMaxAssumption DEF PathTypes, Request, Owners
<1> QED
  BY <1>1, <1>3, DevMaxAssumption
     DEF PathInv, DelayOrder, OneOwner, Side, Apart, Counted, Emptied

LEMMA PathStep ==
  ASSUME HostWaits, ~Crosses, TypeOK, IInv, TypeOK', PathInv, [PathNext]_pathvars
  PROVE  PathInv'
<1>1. CASE UNCHANGED pathvars
  BY <1>1 DEF pathvars, vars, fsm, count, job, cpu, delay, PathInv, PathTypes, DelayOrder,
              OneOwner, Side, Apart, Counted, Emptied, Who, Held, wbu_zip_sel
<1>2. CASE PathNext
  <2>1. PICK cmd \in Codewords, stall \in Choice(o_dly_stb), ack \in Choice(dev # << >>),
             zstall \in Choice(wbu_zip_sel), zack \in Choice(zip_pend > 0) :
          PathClock(cmd, stall, ack, zstall, zack)
    BY <1>2 DEF PathNext
  <2>2. stall \in BOOLEAN /\ ack \in BOOLEAN /\ zstall \in BOOLEAN /\ zack \in BOOLEAN
    BY DEF Choice
  <2>3. StateWires /\ ReadExact
    BY ZenonT(60) DEF IInv
  <2>4. PathTypes' /\ DelayOrder' /\ OneOwner'
    BY <2>1, <2>2, <2>3, PathKeepsOwner DEF PathClock, PathInv
  <2>5. DebugAnswer(zack) \in Answer /\ DebugStall(zstall) \in BOOLEAN
    BY <2>2, ZenonT(30) DEF DebugStall, DebugAnswer, Answer
  <2>6. Side' /\ Onward(DebugAnswer(zack))
    BY <2>1, <2>5, SideStep DEF PathClock, PathInv
  <2>7. Apart' /\ Counted' /\ Emptied' /\ pend' <= DevMax + 2
    BY <2>1, <2>2, <2>3, <2>4, <2>6, PathKeepsCount
  <2> QED
    BY <2>4, <2>6, <2>7 DEF PathInv
<1> QED
  BY <1>1, <1>2

LEMMA PathInductive ==
  ASSUME HostWaits, ~Crosses PROVE PathSpec => [](TypeOK /\ PathInv)
<1>1. PathInit => PathInv
  BY PathInitInv
<1>2. TypeOK /\ IInv /\ TypeOK' /\ PathInv /\ [PathNext]_pathvars => PathInv'
  BY PathStep
<1>3. PathSpec => [](TypeOK /\ IInv)
  BY PathRunsExec, Inductive, PTL
<1> QED
  BY <1>1, <1>2, <1>3, PTL DEF PathSpec

(***************************************************************************)
(* The owner of the bus hears only answers to its own requests, and the    *)
(* debug master none that it does not await (busmaster.v's arbiter and     *)
(* bus delay together), if no access steps across bit 24.                  *)
(***************************************************************************)
THEOREM AnswersGoHome ==
  ASSUME HostWaits, ~Crosses PROVE PathSpec => []RightOwner
<1>1. ASSUME TypeOK, PathInv PROVE RightOwner
  <2>1. o_wb_ack \/ o_wb_err => (answered = "CPU") = r_a_owner
    BY <1>1 DEF PathInv, PathTypes, OneOwner, Who
  <2>2. ASSUME DebugAnswer(FALSE) # "none" PROVE pend > 0
    <3>1. o_wb_cyc /\ ~r_a_owner /\ ~wbu_zip_sel /\ (o_wb_err \/ o_wb_ack)
      BY <1>1, <2>2 DEF DebugAnswer, PathInv, Apart, TypeOK
    <3>4. o_wb_ack => Held > 0
      <4>1. PICK held \in Nat : held = IF o_dly_cyc THEN Len(dev) ELSE 0
        BY <1>1 DEF PathInv, PathTypes
      <4>2. Held = Bit(r_stb) + Bit(o_dly_stb) + Bit(o_wb_ack) + held
        BY <4>1 DEF Held
      <4> QED
        BY <4>2 DEF Bit
    <3>2. CASE failed
      BY <1>1, <3>1, <3>2, <3>4 DEF PathInv, Emptied
    <3>3. CASE ~failed
      BY <1>1, <3>1, <3>3, <3>4 DEF PathInv, Counted
    <3> QED
      BY <3>2, <3>3
  <2> QED
    BY <2>1, <2>2 DEF RightOwner
<1> QED
  BY <1>1, PathInductive, PTL

\* The devices hold the requests of one master only.
LEMMA OneMastersRequests ==
  ASSUME NEW s \in Seq(Owners), NEW w \in Owners, \A i \in 1 .. Len(s) : s[i] = w
  PROVE  Cardinality({i \in DOMAIN s : s[i] = "DBG"}) = IF w = "DBG" THEN Len(s) ELSE 0
<1>1. DOMAIN s = 1 .. Len(s) /\ Len(s) \in Nat
  OBVIOUS
<1>2. CASE w = "DBG"
  <2>1. {i \in DOMAIN s : s[i] = "DBG"} = 1 .. Len(s)
    BY <1>1, <1>2
  <2>2. Cardinality(1 .. Len(s)) = Len(s)
    <3>1. 1 \in Int /\ Len(s) \in Int
      BY <1>1
    <3>2. Cardinality(1 .. Len(s)) = IF 1 > Len(s) THEN 0 ELSE Len(s) - 1 + 1
      BY <3>1, FS_Interval
    <3> QED
      BY <1>1, <3>2
  <2> QED
    BY <1>2, <2>1, <2>2
<1>3. CASE w # "DBG"
  <2>1. {i \in DOMAIN s : s[i] = "DBG"} = {}
    BY <1>1, <1>3
  <2> QED
    BY <1>3, <2>1, FS_EmptySet
<1> QED
  BY <1>2, <1>3

(***************************************************************************)
(* While the debug master waits, everything it waits for is in the path    *)
(* behind it, through every abort and error of the ZipCPU; and it never    *)
(* waits for more than the delay's three and the devices' own.             *)
(***************************************************************************)
THEOREM NothingIsLost ==
  ASSUME HostWaits, ~Crosses, MaxPend > DevMax + 2 PROVE PathSpec => []NothingLostInPath
<1>1. ASSUME TypeOK, PathInv PROVE NothingLostInPath
  <2>1. pend < MaxPend
    BY <1>1, PendAssumption, DevMaxAssumption DEF TypeOK, PathInv
  <2>2. ASSUME o_wb_cyc, ~failed, DebugAnswer(FALSE) # "err" PROVE pend = InFlight
    <3>1. DebugAnswer(FALSE) = "err" <=> ~r_a_owner /\ o_wb_err
      BY <1>1, <2>2 DEF DebugAnswer, PathInv, PathTypes, TypeOK
    <3>2. o_dly_cyc => Cardinality({i \in DOMAIN dev : dev[i] = "DBG"})
                       = IF Who = "DBG" THEN Len(dev) ELSE 0
      BY <1>1, OneMastersRequests DEF PathInv, PathTypes, OneOwner, Who, Owners
    <3>3. /\ r_stb /\ r_req.by = "DBG" <=> r_stb /\ ~r_a_owner
          /\ o_dly_stb /\ o_dly_req.by = "DBG" <=> o_dly_stb /\ ~r_a_owner
      BY <1>1 DEF PathInv, OneOwner, Who
    <3>4. Who = "DBG" <=> ~r_a_owner
      BY DEF Who
    <3>5. InFlight = Bit(r_stb /\ r_req.by = "DBG") + Bit(o_dly_stb /\ o_dly_req.by = "DBG")
                     + Bit(o_wb_ack /\ ~r_a_owner)
                     + (IF o_dly_cyc THEN Cardinality({i \in DOMAIN dev : dev[i] = "DBG"}) ELSE 0)
                     + zip_pend
      BY DEF InFlight, Bit
    <3>6. InFlight = Bit(r_stb /\ ~r_a_owner) + Bit(o_dly_stb /\ ~r_a_owner)
                     + Bit(o_wb_ack /\ ~r_a_owner)
                     + (IF o_dly_cyc THEN IF ~r_a_owner THEN Len(dev) ELSE 0 ELSE 0) + zip_pend
      BY <3>2, <3>3, <3>4, <3>5 DEF Bit
    <3>7. zip_pend \in Nat /\ Len(dev) \in Nat
      BY <1>1, DevMaxAssumption DEF PathInv, PathTypes
    <3>8. CASE r_a_owner
      <4>1. InFlight = zip_pend
        BY <3>6, <3>7, <3>8 DEF Bit
      <4>2. pend = zip_pend
        BY <1>1, <2>2, <3>8 DEF PathInv, Counted, Apart
      <4> QED
        BY <4>1, <4>2
    <3>9. CASE ~r_a_owner
      <4>1. ~wbu_zip_sel /\ zip_pend = 0 /\ pend = Held
        BY <1>1, <2>2, <3>1, <3>9 DEF PathInv, Counted, Apart
      <4>2. PICK held \in Nat : held = IF o_dly_cyc THEN Len(dev) ELSE 0
        BY <3>7
      <4>3. InFlight = Bit(r_stb) + Bit(o_dly_stb) + Bit(o_wb_ack) + held + 0
        BY <3>6, <3>9, <4>1, <4>2 DEF Bit
      <4> QED
        BY <4>1, <4>2, <4>3 DEF Held, Bit
    <3> QED
      BY <3>8, <3>9
  <2> QED
    BY <2>1, <2>2 DEF NothingLostInPath
<1> QED
  BY <1>1, PathInductive, PTL
=============================================================================
