---------------------------- MODULE WbuParts_proof ----------------------------
(***************************************************************************)
(* What is proved of the small parts.  A part goes on among the others as  *)
(* it does alone: the step of any other part is a stutter of this one.     *)
(***************************************************************************)
EXTENDS WbuParts, SequenceTheorems, FiniteSetTheorems, TLAPS

-----------------------------------------------------------------------------
(***************************************************************************)
(* The FIFO, for every depth FLEN >= 4 and every set of words.             *)
(***************************************************************************)
(***************************************************************************)
(* The two refusal flags lag the pointers by up to a clock.  What makes    *)
(* the lag harmless is the wires: the read is gated by o_empty_n, and when *)
(* writes are spaced the clock after the write that filled the FIFO cannot *)
(* write again.                                                            *)
(***************************************************************************)
FlagsSound ==
  /\ will_overflow => Full
  /\ will_underflow => Empty
  /\ SpacedWrites /\ Full /\ i_wr => will_overflow

ReadGated == i_rd => o_empty_n

(***************************************************************************)
(* The inductive invariant, for writers that space their writes.           *)
(***************************************************************************)
FifoInv ==
  /\ TypeOK
  /\ ReadGated
  /\ FlagsSound
  /\ OutputIsHead

(***************************************************************************)
(* Incrementing a pointer stays in range and moves it.                     *)
(***************************************************************************)
LEMMA IncType == ASSUME NEW p \in Slot PROVE Inc(p) \in Slot /\ Inc(p) # p
  BY FlenAssumption DEF Slot, Inc

(***************************************************************************)
(* The registers and wires keep their types (wbufifo.v, all always blocks) *)
(***************************************************************************)
THEOREM FifoTypeCorrect == Spec => []TypeOK
<1>1. Init => TypeOK
  <2>1. 0 \in Slot
    BY FlenAssumption DEF Slot
  <2> QED
    BY <2>1, ZenonT(60) DEF Init, TypeOK
<1>2. TypeOK /\ [Next]_vars => TypeOK'
  <2> SUFFICES ASSUME TypeOK, [Next]_vars PROVE TypeOK'
    OBVIOUS
  <2>1. /\ r_first \in Slot /\ r_last \in Slot
        /\ nxt_first \in Slot /\ nxt_last \in Slot /\ 0 \in Slot
    BY IncType, FlenAssumption DEF TypeOK, nxt_first, nxt_last, Slot
  <2>2. ASSUME Memory PROVE fifo' \in [Slot -> Data] /\ o_data' \in Data
    BY <2>1, <2>2 DEF Memory, TypeOK
  <2>3. ASSUME DriveWires
        PROVE  i_rst' \in BOOLEAN /\ i_wr' \in BOOLEAN /\ i_rd' \in BOOLEAN /\ i_data' \in Data
    BY <2>3 DEF DriveWires
  <2>4. CASE Reset
    BY <2>1, <2>2, <2>3, <2>4, ZenonT(60) DEF Reset, TypeOK
  <2>5. CASE Write
    BY <2>1, <2>2, <2>3, <2>5, ZenonT(60) DEF Write, TypeOK
  <2>6. CASE Read
    BY <2>1, <2>2, <2>3, <2>6, ZenonT(60) DEF Read, TypeOK, OverflowOnRead, UnderflowOnRead
  <2>7. CASE ReadWrite
    BY <2>1, <2>2, <2>3, <2>7, ZenonT(60) DEF ReadWrite, TypeOK, OverflowOnRead
  <2>8. CASE Idle
    BY <2>1, <2>2, <2>3, <2>8, ZenonT(60) DEF Idle, TypeOK, Full, Empty, OverflowOnIdle
  <2>9. CASE UNCHANGED vars
    BY <2>9, ZenonT(60) DEF vars, TypeOK
  <2> QED
    BY <2>4, <2>5, <2>6, <2>7, <2>8, <2>9 DEF Next
<1> QED
  BY <1>1, <1>2, PTL DEF Spec

(***************************************************************************)
(* The strengthened invariant holds when writes are spaced, as the serial  *)
(* port in front of the command FIFO spaces them.                          *)
(***************************************************************************)
LEMMA FifoInductive == ASSUME SpacedWrites PROVE Spec => []FifoInv
<1>1. Init => ReadGated /\ FlagsSound /\ OutputIsHead
  <2> SUFFICES ASSUME Init PROVE ReadGated /\ FlagsSound /\ OutputIsHead
    OBVIOUS
  <2>1. ~i_rd /\ ~will_overflow /\ ~will_underflow /\ ~o_empty_n
    BY ZenonT(60) DEF Init
  <2>2. ~Full
    BY FlenAssumption DEF Init, Full, nxt_first, Inc
  <2> QED
    BY <2>1, <2>2, ZenonT(60) DEF ReadGated, FlagsSound, OutputIsHead
<1>2. TypeOK /\ TypeOK' /\ FifoInv /\ [Next]_vars => FifoInv'
  <2> SUFFICES ASSUME TypeOK, TypeOK', FifoInv, [Next]_vars
               PROVE  ReadGated' /\ FlagsSound' /\ OutputIsHead'
    BY DEF FifoInv
  <2>0. ReadGated /\ FlagsSound /\ OutputIsHead
    BY DEF FifoInv
  <2>1. /\ r_first \in Slot /\ r_last \in Slot
        /\ nxt_first \in Slot /\ nxt_last \in Slot
        /\ nxt_first # r_first /\ nxt_last # r_last
        /\ (nxt_first = nxt_last) <=> (r_first = r_last)
    BY IncType, FlenAssumption DEF TypeOK, nxt_first, nxt_last, Inc, Slot
  <2>2. i_rd => ~Empty /\ ~will_underflow
    BY <2>0 DEF ReadGated, OutputIsHead, FlagsSound
  <2>3. ASSUME DriveWires PROVE ReadGated' /\ (i_wr => ~i_wr')
    BY <2>3, ZenonT(60) DEF DriveWires, ReadGated
  <2>4. CASE Reset
    <3>1. ~will_overflow' /\ ~will_underflow' /\ ~o_empty_n' /\ DriveWires
      BY <2>4, ZenonT(60) DEF Reset
    <3>2. ~Full'
      BY <2>4, FlenAssumption DEF Reset, Full, nxt_first, Inc
    <3> QED
      BY <2>3, <3>1, <3>2, ZenonT(60) DEF FlagsSound, OutputIsHead
  <2>5. CASE Write
    <3>1. /\ will_overflow' <=> (r_first + 2 = r_last)
          /\ ~will_underflow' /\ DriveWires /\ i_wr
          /\ o_empty_n' <=> ~Empty
      BY <2>5, ZenonT(60) DEF Write, Empty
    <3>2. r_last' = r_last /\ (r_first' = r_first \/ r_first' = nxt_first)
      BY <2>5 DEF Write
    <3>3. r_first' = r_first => will_overflow /\ Full
      BY <2>0, <2>1, <2>5 DEF Write, FlagsSound
    <3>4. will_overflow' => Full'
      BY <2>1, <3>1, <3>2, <3>3, FlenAssumption
      DEF Full, nxt_first, Inc, Slot
    <3>5. r_first # r_last => r_first' # r_last'
      BY <2>0, <2>1, <2>5, <3>1, <3>2, <3>3
      DEF Write, FlagsSound, Full
    <3>6. r_first # r_last => o_data' = fifo'[r_last]
      BY <2>1, <2>5 DEF Write, Memory, TypeOK
    <3>7. OutputIsHead'
      BY <3>1, <3>2, <3>5, <3>6 DEF OutputIsHead, Empty
    <3> QED
      BY <2>3, <3>1, <3>4, <3>7, ZenonT(60) DEF FlagsSound
  <2>6. CASE Read
    <3>1. /\ will_underflow' <=> (r_last + 1 = r_first)
          /\ ~will_overflow' /\ DriveWires
          /\ o_empty_n' <=> (r_first # nxt_last)
          /\ ~Empty /\ ~will_underflow
      BY <2>2, <2>6, ZenonT(60) DEF Read, OverflowOnRead, UnderflowOnRead
    <3>2. r_first' = r_first /\ r_last' = nxt_last /\ o_data' = fifo[nxt_last]
          /\ fifo' = fifo
      BY <2>6, <3>1 DEF Read, Memory
    <3>3. ~Full'
      BY <2>1, <3>1, <3>2, FlenAssumption
      DEF Full, Empty, nxt_first, nxt_last, Inc, Slot
    <3>4. will_underflow' => Empty'
      BY <2>1, <3>1, <3>2 DEF Empty, nxt_last, Inc, Slot
    <3>5. OutputIsHead'
      BY <3>1, <3>2 DEF OutputIsHead, Empty
    <3> QED
      BY <2>3, <3>1, <3>3, <3>4, <3>5, ZenonT(60) DEF FlagsSound
  <2>7. CASE ReadWrite
    <3>1. /\ will_overflow' <=> will_overflow
          /\ ~will_underflow' /\ DriveWires /\ i_wr
          /\ o_empty_n' <=> (r_first # nxt_last)
          /\ ~Empty
      BY <2>2, <2>7, ZenonT(60) DEF ReadWrite, OverflowOnRead
    <3>2. /\ r_first' = nxt_first /\ r_last' = nxt_last /\ o_data' = fifo[nxt_last]
          /\ fifo' = [fifo EXCEPT ![r_first] = i_data]
      BY <2>7 DEF ReadWrite, Memory
    <3>3. Full' <=> Full
      BY <2>1, <3>2, FlenAssumption DEF Full, nxt_first, nxt_last, Inc, Slot
    <3>4. OutputIsHead'
      BY <2>1, <3>1, <3>2 DEF OutputIsHead, Empty, TypeOK
    <3> QED
      BY <2>0, <2>3, <3>1, <3>3, <3>4, ZenonT(60) DEF FlagsSound
  <2>8. CASE Idle
    <3>1. /\ will_overflow' <=> (will_overflow \/ Full)
          /\ will_underflow' <=> Empty
          /\ o_empty_n' <=> ~Empty
          /\ DriveWires
      BY <2>8, ZenonT(60) DEF Idle, Empty, OverflowOnIdle
    <3>2. /\ r_first' = r_first /\ r_last' = r_last /\ o_data' = fifo[r_last]
          /\ fifo' = fifo
      BY <2>8 DEF Idle, Memory
    <3>3. (Full' <=> Full) /\ (Empty' <=> Empty)
      BY <3>2 DEF Full, Empty, nxt_first
    <3>4. OutputIsHead'
      BY <3>1, <3>2, <3>3 DEF OutputIsHead
    <3> QED
      BY <2>0, <2>3, <3>1, <3>3, <3>4, ZenonT(60) DEF FlagsSound
  <2>9. CASE UNCHANGED vars
    BY <2>0, <2>9 DEF vars, ReadGated, FlagsSound, OutputIsHead, Full, Empty, nxt_first
  <2> QED
    BY <2>4, <2>5, <2>6, <2>7, <2>8, <2>9 DEF Next
<1> QED
  BY <1>1, <1>2, FifoTypeCorrect, PTL DEF Spec, FifoInv

(***************************************************************************)
(* What the reader sees on o_data while o_empty_n is high is the oldest    *)
(* word stored, for every depth (wbufifo.v:123 and :134).                  *)
(***************************************************************************)
THEOREM HeadShown == ASSUME SpacedWrites PROVE Spec => []OutputIsHead
<1>1. FifoInv => OutputIsHead
  BY DEF FifoInv
<1> QED
  BY <1>1, FifoInductive, PTL

(***************************************************************************)
(* No read the users make is refused (wbufifo.v:115).                      *)
(***************************************************************************)
THEOREM ReadsServed == ASSUME SpacedWrites PROVE Spec => []ReadNeverRefused
<1>1. FifoInv => ReadNeverRefused
  BY DEF FifoInv, ReadGated, OutputIsHead, FlagsSound, ReadNeverRefused
<1> QED
  BY <1>1, FifoInductive, PTL

(***************************************************************************)
(* With spaced writes the FIFO does refuse to overflow, at every depth,    *)
(* although the flag that refuses is computed from r_first+2 without wrap  *)
(* (wbufifo.v:66 and :77).                                                 *)
(***************************************************************************)
THEOREM OverflowRefused == ASSUME SpacedWrites PROVE Spec => RefusesOverflow
<1>1. FifoInv /\ [Next]_vars
        => [Full /\ i_wr /\ ~i_rd /\ ~i_rst => r_first' = r_first]_vars
  BY DEF FifoInv, FlagsSound, Next, Reset, Write, Read, ReadWrite, Idle
<1> QED
  BY <1>1, FifoInductive, PTL DEF Spec, RefusesOverflow

(***************************************************************************)
(* And it never drops a word it has room for.                              *)
(***************************************************************************)
THEOREM RoomIsUsed == ASSUME SpacedWrites PROVE Spec => StoresWhenRoom
<1>1. FifoInv /\ [Next]_vars
        => [~Full /\ i_wr /\ ~i_rst => r_first' = nxt_first]_vars
  BY DEF FifoInv, FlagsSound, Next, Reset, Write, Read, ReadWrite, Idle
<1> QED
  BY <1>1, FifoInductive, PTL DEF Spec, StoresWhenRoom

(***************************************************************************)
(* The words stored, as a sequence: how many there are, and where.  The    *)
(* slot the next word goes to is none of theirs.                           *)
(***************************************************************************)
ContentsSound ==
  /\ Fill \in 0 .. FLEN - 1 /\ (Fill = 0 <=> Empty) /\ (Fill = FLEN - 1 <=> Full)
  /\ \A i \in 1 .. Fill : At(i) \in Slot /\ At(i) # r_first
  /\ Contents \in Seq(Data) /\ Len(Contents) = Fill
  /\ \A i \in 1 .. Fill : Contents[i] = fifo[At(i)]

LEMMA ContentsType == TypeOK => ContentsSound
<1> SUFFICES ASSUME TypeOK PROVE ContentsSound
  OBVIOUS
<1>1. r_first \in 0 .. FLEN - 1 /\ r_last \in 0 .. FLEN - 1 /\ fifo \in [Slot -> Data]
  BY DEF TypeOK, Slot
<1>2. Fill \in 0 .. FLEN - 1 /\ (Fill = 0 <=> Empty) /\ (Fill = FLEN - 1 <=> Full)
  BY <1>1, FlenAssumption DEF Fill, Empty, Full, nxt_first, Inc
<1>3. \A i \in 1 .. Fill : At(i) \in Slot /\ At(i) # r_first
  BY <1>1, FlenAssumption DEF Fill, At, Slot
<1>4. Contents \in [1 .. Fill -> Data]
  BY <1>1, <1>3 DEF Contents
<1>5. Contents \in Seq(Data) /\ Len(Contents) = Fill
  BY <1>2, <1>4, IsASeq, LenProperties
<1>6. \A i \in 1 .. Fill : Contents[i] = fifo[At(i)]
  BY DEF Contents
<1> QED
  BY <1>2, <1>3, <1>5, <1>6 DEF ContentsSound

(***************************************************************************)
(* A clock of the FIFO is a step of the queue, or leaves it as it is.      *)
(***************************************************************************)
LEMMA QueueStep == ASSUME SpacedWrites, TypeOK, TypeOK', FifoInv, [Next]_vars
                   PROVE  Queue!Next \/ Contents' = Contents
<1>1. ContentsSound /\ ContentsSound'
  <2>1. (TypeOK => ContentsSound)'
    BY ContentsType, PTL
  <2> QED
    BY <2>1, ContentsType
<1>2. /\ r_first \in 0 .. FLEN - 1 /\ r_last \in 0 .. FLEN - 1 /\ i_data \in Data
      /\ fifo \in [Slot -> Data]
  BY DEF TypeOK, Slot
<1>3. /\ will_overflow => Full
      /\ Full /\ i_wr => will_overflow
      /\ i_rd => ~Empty /\ ~will_underflow
  BY DEF FifoInv, FlagsSound, ReadGated, OutputIsHead
<1>4. CASE Reset
  <2>1. Fill' = 0
    BY <1>4, FlenAssumption DEF Reset, Fill
  <2>2. Contents' = << >>
    BY <1>1, <2>1, EmptySeq DEF ContentsSound
  <2> QED
    BY <2>2 DEF Queue!Next, Queue!Clear
<1>5. CASE Write
  <2>1. r_last' = r_last /\ fifo' = [fifo EXCEPT ![r_first] = i_data]
    BY <1>5 DEF Write, Memory
  <2>2. CASE Full
    <3>1. r_first' = r_first
      BY <1>3, <1>5, <2>2 DEF Write
    <3>2. Contents' = Contents
      BY <1>1, <1>2, <2>1, <3>1 DEF Contents, Fill, At, ContentsSound
    <3> QED
      BY <3>2
  <2>3. CASE ~Full
    <3>1. r_first' = nxt_first
      BY <1>3, <1>5, <2>3 DEF Write
    <3>2. Fill' = Fill + 1 /\ At(Fill + 1) = r_first /\ \A i \in 1 .. Fill + 1 : At(i)' = At(i)
      BY <1>2, <2>1, <2>3, <3>1, FlenAssumption DEF Fill, At, Full, nxt_first, Inc
    <3>3. Contents' = Append(Contents, i_data)
      BY <1>1, <1>2, <2>1, <3>2, AppendProperties, SeqEqual DEF ContentsSound
    <3>4. Len(Contents) < FLEN - 1
      BY <1>1, <2>3, FlenAssumption DEF ContentsSound
    <3> QED
      BY <1>2, <3>3, <3>4 DEF Queue!Next, Queue!Offer
  <2> QED
    BY <2>2, <2>3
<1>6. CASE Read
  <2>1. r_first' = r_first /\ r_last' = nxt_last /\ fifo' = fifo /\ ~Empty
    BY <1>3, <1>6 DEF Read, Memory
  <2>2. Fill' = Fill - 1 /\ \A i \in 1 .. Fill - 1 : At(i)' = At(i + 1)
    BY <1>2, <2>1, FlenAssumption DEF Fill, At, Empty, nxt_last, Inc
  <2>3. Contents # << >>
    BY <1>1, <2>1, EmptySeq DEF ContentsSound
  <2>4. Contents' = Tail(Contents)
    BY <1>1, <2>1, <2>2, <2>3, HeadTailProperties, SeqEqual DEF ContentsSound
  <2> QED
    BY <2>3, <2>4 DEF Queue!Next, Queue!Take
<1>7. CASE ReadWrite
  <2>1. /\ r_first' = nxt_first /\ r_last' = nxt_last /\ ~Empty
        /\ fifo' = [fifo EXCEPT ![r_first] = i_data]
    BY <1>3, <1>7 DEF ReadWrite, Memory
  <2>2. Fill' = Fill /\ At(Fill)' = r_first /\ \A i \in 1 .. Fill - 1 : At(i)' = At(i + 1)
    BY <1>2, <2>1, FlenAssumption DEF Fill, At, Empty, nxt_first, nxt_last, Inc
  <2>3. Contents # << >>
    BY <1>1, <2>1, EmptySeq DEF ContentsSound
  <2>4. Contents' = Append(Tail(Contents), i_data)
    BY <1>1, <1>2, <2>1, <2>2, <2>3, HeadTailProperties, AppendProperties, SeqEqual
    DEF ContentsSound
  <2> QED
    BY <1>2, <2>3, <2>4 DEF Queue!Next, Queue!Exchange
<1>8. CASE Idle
  <2>1. r_first' = r_first /\ r_last' = r_last /\ fifo' = fifo
    BY <1>8 DEF Idle, Memory
  <2> QED
    BY <2>1 DEF Contents, Fill, At
<1>9. CASE UNCHANGED vars
  BY <1>9 DEF vars, Contents, Fill, At
<1> QED
  BY <1>4, <1>5, <1>6, <1>7, <1>8, <1>9 DEF Next

(***************************************************************************)
(* The FIFO implements the bounded queue, at every depth (wbufifo.v).      *)
(***************************************************************************)
THEOREM FifoRefinement == ASSUME SpacedWrites PROVE Spec => ImplementsQueue
<1>1. Init => Queue!Init
  <2> SUFFICES ASSUME Init PROVE Contents = << >>
    BY DEF Queue!Init
  <2>1. Fill = 0
    BY FlenAssumption DEF Init, Fill
  <2> QED
    BY <2>1, ContentsType, EmptySeq DEF Contents
<1>2. TypeOK /\ TypeOK' /\ FifoInv /\ [Next]_vars => [Queue!Next]_Contents
  BY QueueStep
<1> QED
  BY <1>1, <1>2, FifoTypeCorrect, FifoInductive, PTL DEF Spec, ImplementsQueue, Queue!Spec

\* The FIFO among the other parts goes on as it does alone.
LEMMA FifoAlone == PartsSpec => Spec
<1>1. PartsInit => Init
  BY DEF PartsInit
<1>2. [PartsNext]_partsvars => [Next]_vars
  BY ZenonT(60) DEF PartsNext, partsvars, FifoRuns, DelayRuns, CompressRuns, InputRuns, PipeRuns, SerialRuns,
    AnalyserRuns, fifovars
<1> QED
  BY <1>1, <1>2, PTL DEF PartsSpec, Spec

(***************************************************************************)
(* In the common run, too, the FIFO implements the queue (wbufifo.v).      *)
(***************************************************************************)
THEOREM FifoQueues == ASSUME SpacedWrites PROVE PartsSpec => ImplementsQueue
BY FifoAlone, FifoRefinement, PTL

-----------------------------------------------------------------------------
\* The bus delay.
DelayInv == Delay!TypeOK /\ Delay!BuffersInOrder /\ Delay!NothingLost

(***************************************************************************)
(* The registers, read as propositions.                                    *)
(***************************************************************************)
LEMMA DelayStep ==
  ASSUME Delay!TypeOK, Delay!BuffersInOrder,
         NEW stall \in BOOLEAN, NEW ack \in BOOLEAN, NEW err \in BOOLEAN,
         Delay!Delay(stall, ack, err)
  PROVE  /\ o_dly_cyc' <=> (i_wb_cyc /\ ~o_wb_err /\ ~(err /\ o_dly_cyc))
         /\ o_dly_stb' <=> (~Delay!Kills(err) /\ IF Delay!Flows(stall) THEN r_stb \/ i_wb_stb ELSE o_dly_stb)
         /\ r_stb' <=> (~Delay!Kills(err) /\ ~Delay!Flows(stall) /\ (r_stb \/ i_wb_stb))
         /\ o_wb_ack' <=> Delay!AckRegistered(ack, err)
         /\ o_wb_err' <=> (i_wb_cyc /\ err /\ o_dly_cyc)
         /\ o_dly_cyc' \in BOOLEAN /\ o_dly_stb' \in BOOLEAN /\ r_stb' \in BOOLEAN
         /\ o_wb_ack' \in BOOLEAN /\ o_wb_err' \in BOOLEAN
  <1>1. /\ o_dly_cyc' <=> (i_wb_cyc /\ ~o_wb_err /\ ~(err /\ o_dly_cyc))
        /\ r_stb' <=> (~Delay!Kills(err) /\ ~Delay!Flows(stall) /\ (r_stb \/ i_wb_stb))
        /\ o_wb_ack' <=> Delay!AckRegistered(ack, err)
        /\ o_wb_err' <=> (i_wb_cyc /\ err /\ o_dly_cyc)
    BY ZenonT(60) DEF Delay!Delay
  <1>2. /\ o_dly_stb' <=> (~Delay!Kills(err) /\ IF Delay!Flows(stall) THEN r_stb \/ i_wb_stb ELSE o_dly_stb)
    BY ZenonT(60) DEF Delay!Delay
  <1>3. /\ o_dly_cyc' \in BOOLEAN /\ o_dly_stb' \in BOOLEAN /\ r_stb' \in BOOLEAN
        /\ o_wb_ack' \in BOOLEAN /\ o_wb_err' \in BOOLEAN
    BY ZenonT(60) DEF Delay!Delay, Delay!AckRegistered
  <1> QED
    BY <1>1, <1>2, <1>3

LEMMA DelayKeeps ==
  Delay!TypeOK /\ Delay!BuffersInOrder /\ Delay!NothingLost /\ [Delay!Next]_(Delay!vars)
    => Delay!TypeOK' /\ Delay!BuffersInOrder' /\ Delay!NothingLost'
<1> SUFFICES ASSUME Delay!TypeOK, Delay!BuffersInOrder, Delay!NothingLost, [Delay!Next]_(Delay!vars)
             PROVE  Delay!TypeOK' /\ Delay!BuffersInOrder' /\ Delay!NothingLost'
  OBVIOUS
<1>1. CASE UNCHANGED Delay!vars
  BY <1>1 DEF Delay!vars, Delay!master, Delay!delay, Delay!TypeOK, Delay!BuffersInOrder, Delay!NothingLost, Delay!One
<1>2. CASE Delay!Next
  <2> PICK stall \in BOOLEAN, ack \in BOOLEAN, err \in BOOLEAN :
             Delay!Delay(stall, ack, err) /\ Delay!Taken /\ Delay!Devices(stall, ack, err) /\ Delay!Master
    BY <1>2 DEF Delay!Next
  <2>1. /\ o_dly_cyc' <=> (i_wb_cyc /\ ~o_wb_err /\ ~(err /\ o_dly_cyc))
        /\ o_dly_stb' <=> (~Delay!Kills(err) /\ IF Delay!Flows(stall) THEN r_stb \/ i_wb_stb ELSE o_dly_stb)
        /\ r_stb' <=> (~Delay!Kills(err) /\ ~Delay!Flows(stall) /\ (r_stb \/ i_wb_stb))
        /\ o_wb_ack' <=> Delay!AckRegistered(ack, err)
        /\ o_wb_err' <=> (i_wb_cyc /\ err /\ o_dly_cyc)
        /\ o_dly_cyc' \in BOOLEAN /\ o_dly_stb' \in BOOLEAN /\ r_stb' \in BOOLEAN
        /\ o_wb_ack' \in BOOLEAN /\ o_wb_err' \in BOOLEAN
    BY DelayStep
  <2>2. /\ i_wb_cyc' \in BOOLEAN /\ i_wb_stb' \in BOOLEAN /\ i_wb_req' \in Request
        /\ i_wb_stb' => i_wb_cyc'
    BY DEF Delay!Master
  <2>3. down' \in 0 .. MaxPend
    BY MaxPendAssumption DEF Delay!Devices, Delay!TypeOK
  <2>4. up' \in Nat
    <3>1. o_wb_ack /\ i_wb_cyc /\ ~o_wb_err => up >= 1
      BY MaxPendAssumption DEF Delay!NothingLost, Delay!TypeOK, Delay!One
    <3> QED
      BY <3>1 DEF Delay!Taken, Delay!TypeOK, Delay!o_wb_stall
  <2>5. o_dly_req' \in Request /\ r_req' \in Request
    BY DEF Delay!Delay, Delay!TypeOK, Delay!NextRequest
  <2>6. Delay!TypeOK'
    BY <2>1, <2>2, <2>3, <2>4, <2>5 DEF Delay!TypeOK
  <2>7. Delay!BuffersInOrder'
    BY <2>1 DEF Delay!BuffersInOrder, Delay!Kills, Delay!Flows, Delay!TypeOK
  <2>8. Delay!NothingLost'
    <3> SUFFICES ASSUME i_wb_cyc', ~o_wb_err'
                 PROVE  up' = Delay!One(r_stb') + Delay!One(o_dly_stb') + Delay!One(o_wb_ack')
                              + (IF o_dly_cyc' THEN down' ELSE 0)
      BY ZenonT(60) DEF Delay!NothingLost, Delay!One
    <3>1. CASE ~i_wb_cyc \/ o_wb_err
      <4>1. ~r_stb' /\ ~o_dly_stb' /\ ~o_wb_ack' /\ ~o_dly_cyc'
        BY <2>1, <3>1 DEF Delay!Kills, Delay!AckRegistered
      <4>2. up' = 0
        BY <3>1 DEF Delay!Taken
      <4> QED
        BY <4>1, <4>2 DEF Delay!One
    <3>2. CASE i_wb_cyc /\ ~o_wb_err
      <4>1. o_dly_cyc' /\ ~Delay!Kills(err) /\ ~(err /\ o_dly_cyc)
        BY <2>1, <3>2 DEF Delay!Kills
      <4>2. /\ up = Delay!One(r_stb) + Delay!One(o_dly_stb) + Delay!One(o_wb_ack)
                    + (IF o_dly_cyc THEN down ELSE 0)
            /\ up' = up + (IF i_wb_stb /\ ~r_stb THEN 1 ELSE 0)
                        - (IF o_wb_ack THEN 1 ELSE 0)
        BY <3>2 DEF Delay!NothingLost, Delay!Taken, Delay!o_wb_stall
      <4>3. CASE ~o_dly_cyc
        <5>1. ~o_dly_stb /\ ~r_stb /\ ~o_wb_ack' /\ down' = 0
          BY <2>1, <4>3 DEF Delay!BuffersInOrder, Delay!AckRegistered, Delay!Devices
        <5>2. ~r_stb' /\ (o_dly_stb' <=> i_wb_stb)
          BY <2>1, <4>1, <5>1 DEF Delay!Flows
        <5> QED
          BY <4>1, <4>2, <4>3, <5>1, <5>2 DEF Delay!One, Delay!TypeOK
      <4>4. CASE o_dly_cyc
        <5>1. /\ o_wb_ack' <=> ack
              /\ down' = down + (IF o_dly_stb /\ ~stall THEN 1 ELSE 0) - (IF ack THEN 1 ELSE 0)
          BY <2>1, <3>2, <4>1, <4>4 DEF Delay!AckRegistered, Delay!Devices
        <5>2. CASE Delay!Flows(stall)
          <6>1. ~r_stb' /\ (o_dly_stb' <=> r_stb \/ i_wb_stb)
            BY <2>1, <4>1, <5>2
          <6> QED
            BY <4>1, <4>2, <4>4, <5>1, <5>2, <6>1 DEF Delay!One, Delay!TypeOK, Delay!Flows, Delay!BuffersInOrder
        <5>3. CASE ~Delay!Flows(stall)
          <6>1. o_dly_stb' /\ o_dly_stb /\ stall /\ (r_stb' <=> r_stb \/ i_wb_stb)
            BY <2>1, <4>1, <5>3 DEF Delay!Flows
          <6> QED
            BY <4>1, <4>2, <4>4, <5>1, <6>1 DEF Delay!One, Delay!TypeOK
        <5> QED
          BY <5>2, <5>3
      <4> QED
        BY <4>3, <4>4
    <3> QED
      BY <3>1, <3>2
  <2> QED
    BY <2>6, <2>7, <2>8
<1> QED
  BY <1>1, <1>2

LEMMA DelayInductive == Delay!Spec => []DelayInv
<1>1. Delay!Init => DelayInv
  <2> SUFFICES ASSUME Delay!Init PROVE DelayInv
    OBVIOUS
  <2>1. 0 \in Nat /\ 0 \in 0 .. MaxPend
    BY MaxPendAssumption
  <2>2. Delay!TypeOK
    BY <2>1, ZenonT(60) DEF Delay!Init, Delay!TypeOK
  <2>3. ~i_wb_cyc /\ ~r_stb /\ ~o_dly_stb
    BY ZenonT(60) DEF Delay!Init
  <2> QED
    BY <2>2, <2>3 DEF DelayInv, Delay!BuffersInOrder, Delay!NothingLost
<1>2. DelayInv /\ [Delay!Next]_(Delay!vars) => DelayInv'
  BY DelayKeeps, ZenonT(60) DEF DelayInv
<1> QED
  BY <1>1, <1>2, PTL DEF Delay!Spec

(***************************************************************************)
(* Whatever cycles the master aborts and whatever errors the devices give, *)
(* the delay loses no request and answers none twice.                      *)
(***************************************************************************)
LEMMA DelayLosesNothing == Delay!Spec => []Delay!NothingLost
<1>1. DelayInv => Delay!NothingLost
  BY ZenonT(60) DEF DelayInv
<1> QED
  BY <1>1, DelayInductive, PTL

(***************************************************************************)
(* The two request buffers implement the bounded queue.                    *)
(***************************************************************************)
LEMMA DelayIsQueue == Delay!Spec => Delay!DelayImplementsQueue
<1>1. Delay!Init => Delay!Buffers!Init
  BY DEF Delay!Init, Delay!Buffers!Init, Delay!Held
<1>2. DelayInv /\ [Delay!Next]_(Delay!vars) => [Delay!Buffers!Next]_(Delay!Held)
  <2> SUFFICES ASSUME DelayInv, [Delay!Next]_(Delay!vars) PROVE Delay!Buffers!Next \/ Delay!Held' = Delay!Held
    BY ZenonT(60)
  <2>1. Delay!TypeOK /\ Delay!BuffersInOrder
    BY ZenonT(60) DEF DelayInv
  <2>2. CASE UNCHANGED Delay!vars
    BY <2>2 DEF Delay!vars, Delay!master, Delay!delay, Delay!Held
  <2>3. CASE Delay!Next
    <3> PICK stall \in BOOLEAN, ack \in BOOLEAN, err \in BOOLEAN :
             Delay!Delay(stall, ack, err) /\ Delay!Taken /\ Delay!Devices(stall, ack, err) /\ Delay!Master
      BY <2>3 DEF Delay!Next
    <3>1. /\ o_dly_stb' <=> (~Delay!Kills(err) /\ IF Delay!Flows(stall) THEN r_stb \/ i_wb_stb ELSE o_dly_stb)
          /\ r_stb' <=> (~Delay!Kills(err) /\ ~Delay!Flows(stall) /\ (r_stb \/ i_wb_stb))
      BY <2>1, DelayStep
    <3>2. /\ o_dly_req' = IF Delay!Flows(stall) THEN Delay!NextRequest ELSE o_dly_req
          /\ r_req' = IF Delay!Flows(stall) \/ ~r_stb THEN i_wb_req ELSE r_req
      BY ZenonT(60) DEF Delay!Delay
    <3>3. CASE Delay!Kills(err)
      <4>1. Delay!Held' = << >>
        BY <3>1, <3>3 DEF Delay!Held
      <4> QED
        BY <4>1 DEF Delay!Buffers!Next, Delay!Buffers!Clear
    <3>4. CASE ~Delay!Kills(err) /\ ~Delay!Flows(stall)
      <4>1. o_dly_stb /\ o_dly_stb' /\ o_dly_req' = o_dly_req /\ (r_stb' <=> r_stb \/ i_wb_stb)
        BY <3>1, <3>2, <3>4 DEF Delay!Flows
      <4>2. CASE r_stb \/ ~i_wb_stb
        BY <3>2, <3>4, <4>1, <4>2 DEF Delay!Held
      <4>3. CASE ~r_stb /\ i_wb_stb
        <5>1. Delay!Held = <<o_dly_req>> /\ Delay!Held' = <<o_dly_req, i_wb_req>>
          BY <3>2, <3>4, <4>1, <4>3 DEF Delay!Held
        <5> QED
          BY <2>1, <5>1 DEF Delay!Buffers!Next, Delay!Buffers!Offer, Delay!TypeOK
      <4> QED
        BY <4>2, <4>3
    <3>5. CASE ~Delay!Kills(err) /\ Delay!Flows(stall)
      <4>1. ~r_stb' /\ (o_dly_stb' <=> r_stb \/ i_wb_stb) /\ o_dly_req' = Delay!NextRequest
        BY <3>1, <3>2, <3>5
      <4>2. CASE r_stb
        <5>1. Delay!Held = <<o_dly_req, r_req>> /\ Delay!Held' = <<r_req>>
          BY <4>1, <4>2 DEF Delay!Held, Delay!NextRequest
        <5> QED
          BY <2>1, <5>1 DEF Delay!Buffers!Next, Delay!Buffers!Take, Delay!TypeOK
      <4>3. CASE ~r_stb /\ o_dly_stb /\ i_wb_stb
        <5>1. Delay!Held = <<o_dly_req>> /\ Delay!Held' = <<i_wb_req>>
          BY <4>1, <4>3 DEF Delay!Held, Delay!NextRequest
        <5> QED
          BY <2>1, <5>1 DEF Delay!Buffers!Next, Delay!Buffers!Exchange, Delay!TypeOK
      <4>4. CASE ~r_stb /\ o_dly_stb /\ ~i_wb_stb
        <5>1. Delay!Held = <<o_dly_req>> /\ Delay!Held' = << >>
          BY <4>1, <4>4 DEF Delay!Held
        <5> QED
          BY <5>1 DEF Delay!Buffers!Next, Delay!Buffers!Take
      <4>5. CASE ~r_stb /\ ~o_dly_stb /\ i_wb_stb
        <5>1. Delay!Held = << >> /\ Delay!Held' = <<i_wb_req>>
          BY <4>1, <4>5 DEF Delay!Held, Delay!NextRequest
        <5> QED
          BY <2>1, <5>1 DEF Delay!Buffers!Next, Delay!Buffers!Offer, Delay!TypeOK
      <4>6. CASE ~r_stb /\ ~o_dly_stb /\ ~i_wb_stb
        BY <4>1, <4>6 DEF Delay!Held
      <4> QED
        BY <4>2, <4>3, <4>4, <4>5, <4>6
    <3> QED
      BY <3>3, <3>4, <3>5
  <2> QED
    BY <2>2, <2>3
<1> QED
  BY <1>1, <1>2, DelayInductive, PTL DEF Delay!Spec, Delay!DelayImplementsQueue, Delay!Buffers!Spec

LEMMA DelayAlone == PartsSpec => Delay!Spec
<1>1. PartsInit => Delay!Init
  BY ZenonT(60) DEF PartsInit
<1>2. [PartsNext]_partsvars => [Delay!Next]_(Delay!vars)
  <2>1. DelayRuns => Delay!Next
    BY DEF DelayRuns
  <2>2. UNCHANGED delayvars => UNCHANGED (Delay!vars)
    BY DEF delayvars, Delay!vars, Delay!master, Delay!delay
  <2>3. \/ FifoRuns \/ CompressRuns \/ InputRuns \/ PipeRuns \/ SerialRuns \/ AnalyserRuns
        => UNCHANGED delayvars
    BY DEF FifoRuns, CompressRuns, InputRuns, PipeRuns, SerialRuns, AnalyserRuns
  <2>4. UNCHANGED partsvars => UNCHANGED delayvars
    BY DEF partsvars
  <2> QED
    BY <2>1, <2>2, <2>3, <2>4, ZenonT(60) DEF PartsNext
<1> QED
  BY <1>1, <1>2, PTL DEF PartsSpec, Delay!Spec

(***************************************************************************)
(* The bus delay loses no request and answers none twice (busdelay.v).     *)
(***************************************************************************)
THEOREM DelayConserves == PartsSpec => []NothingLost
<1>1. Delay!NothingLost <=> NothingLost
  BY ZenonT(60) DEF NothingLost
<1> QED
  BY <1>1, DelayLosesNothing, DelayAlone, PTL

(***************************************************************************)
(* The bus delay implements the bounded queue (busdelay.v).                *)
(***************************************************************************)
THEOREM DelayQueues == PartsSpec => DelayImplementsQueue
BY DelayIsQueue, DelayAlone, PTL DEF DelayImplementsQueue
-----------------------------------------------------------------------------
\* Places in a table that is written round and round, and its least.
LEMMA PartSmallMod ==
  ASSUME NEW m \in Nat \ {0}, NEW x \in 0 .. m - 1 PROVE x % m = x
OBVIOUS

LEMMA PartBack ==
  ASSUME NEW m \in Nat \ {0}, NEW a \in 0 .. m - 1, NEW k \in 0 .. m
  PROVE  (a - k) % m = (IF k <= a THEN a - k ELSE a - k + m) /\ (a - k) % m \in 0 .. m - 1
<1>1. CASE k <= a
  <2>1. a - k \in 0 .. m - 1
    BY <1>1
  <2> QED
    BY <1>1, <2>1, PartSmallMod
<1>2. CASE ~(k <= a)
  <2>1. PICK x \in Int : x = a - k
    OBVIOUS
  <2>2. x \in -m .. -1 /\ x + m \in 0 .. m - 1
    BY <1>2, <2>1
  <2>3. x % m = x + m
    BY <2>2
  <2> QED
    BY <1>2, <2>1, <2>2, <2>3
<1> QED
  BY <1>1, <1>2

LEMMA PartNext ==
  ASSUME NEW m \in Nat \ {0}, NEW a \in 0 .. m - 1
  PROVE  (a + 1) % m = (IF a = m - 1 THEN 0 ELSE a + 1)
<1>1. CASE a = m - 1
  <2>1. a + 1 = m /\ m % m = 0
    BY <1>1
  <2> QED
    BY <1>1, <2>1
<1>2. CASE a # m - 1
  <2>1. a + 1 \in 0 .. m - 1
    BY <1>2
  <2> QED
    BY <1>2, <2>1, PartSmallMod
<1> QED
  BY <1>1, <1>2

\* A set of naturals that is not empty has a least element: the least of the
\* intervals below its elements.
LEMMA PartLeast ==
  ASSUME NEW D, D \subseteq Nat, D # {} PROVE \E x \in D : \A y \in D : x <= y
<1> DEFINE F == FiniteSubsetsOf(Nat)
           Q == StrictSubsetOrdering(Nat)
           U == {0 .. n : n \in D}
<1>1. IsWellFoundedOn(Q, F)
  BY FS_StrictSubsetOrderingWellFounded
<1>2. U \subseteq F /\ U # {}
  <2>1. ASSUME NEW n \in D PROVE 0 .. n \in F
    <3>1. IsFiniteSet(0 .. n)
      BY FS_Interval
    <3> QED
      BY <3>1 DEF FiniteSubsetsOf
  <2> QED
    BY <2>1
<1> HIDE DEF F, Q
<1>3. \E X \in U : \A Y \in U : ~(<<Y, X>> \in Q)
  <2> HIDE DEF U
  <2> QED
    BY <1>1, <1>2, WFMin
<1>4. PICK x \in D : \A y \in D : ~(<<0 .. y, 0 .. x>> \in Q)
  BY <1>3
<1>5. ASSUME NEW y \in D PROVE x <= y
  <2>1. CASE y < x
    <3>1. 0 .. y \subseteq 0 .. x /\ x \in 0 .. x /\ x \notin 0 .. y /\ 0 .. y \subseteq Nat /\ 0 .. x \subseteq Nat
      BY <2>1
    <3>2. <<0 .. y, 0 .. x>> \in Q
      BY <3>1 DEF Q, StrictSubsetOrdering
    <3> QED
      BY <1>4, <3>2
  <2> QED
    BY <2>1
<1> QED
  BY <1>5

-----------------------------------------------------------------------------
(***************************************************************************)
(* The compression of words that are read (wbucompress.v).                 *)
(***************************************************************************)
CpSlot == 0 .. T - 1

\* The entry was written since the last address, and is not being written.
CpValid(s) == (tbl_filled \/ s < tbl_addr) /\ s # tbl_addr

\* The entry m places back is the word that waits.
CpFinds(m) ==
  /\ m \in 1 .. T - 1 /\ CpValid((tbl_addr - m) % T)
  /\ compression_tbl[(tbl_addr - m) % T] = a_addrword.val

CpTypes ==
  /\ tbl_addr \in CpSlot /\ rd_addr \in CpSlot /\ nxt_rd_addr \in CpSlot /\ caddr \in CpSlot
  /\ DOMAIN compression_tbl = CpSlot /\ DOMAIN m_readtbl = CpSlot
  /\ pmatch \in 0 .. 2 /\ a_stb \in BOOLEAN /\ idle_stb \in BOOLEAN /\ tbl_filled \in BOOLEAN
  /\ dmatch \in BOOLEAN /\ vaddr \in BOOLEAN /\ match \in BOOLEAN
  /\ a_addrword.kind # "tbl" /\ i_codword.kind # "tbl"

\* Host and board have the same entries, as far back as may be referred to.
CpSame ==
  /\ m_rdaddr = tbl_addr
  /\ \A s \in CpSlot : CpValid(s) => compression_tbl[s] = m_readtbl[s]

\* pmatch counts the clocks the search has been at the word that waits: from
\* the first the word read is that of its place, from the second what was
\* compared is the word that waits, and stays so.
CpSearch ==
  /\ pmatch >= 1 => a_stb /\ (caddr # tbl_addr => cword = compression_tbl[caddr])
  /\ pmatch = 2 /\ vaddr /\ dmatch => CpFinds(maddr)
  /\ match => a_stb /\ a_addrword.kind = "data" /\ CpFinds(matchaddr)
  /\ a_stb /\ idle_stb =>
       \/ r_cword = a_addrword
       \/ r_cword.kind = "tbl" /\ a_addrword.kind = "data" /\ CpFinds(r_cword.val)

CpInv == CpTypes /\ CpSame /\ CpSearch

LEMMA CpBegins ==
  ASSUME Compress!Init PROVE CpInv
<1>1. T \in Nat /\ T > 1
  BY TAssumption
<1>2. 0 \in CpSlot
  BY <1>1 DEF CpSlot
<1>3. Compress!Blank.kind = "other"
  BY DEF Compress!Blank
<1>4. CpTypes
  <2>1. a_addrword.kind # "tbl" /\ i_codword.kind # "tbl"
    BY <1>3 DEF Compress!Init
  <2>2. DOMAIN compression_tbl = CpSlot /\ DOMAIN m_readtbl = CpSlot
    BY DEF Compress!Init, Compress!Slot, CpSlot
  <2>3. /\ a_stb \in BOOLEAN /\ idle_stb \in BOOLEAN /\ tbl_filled \in BOOLEAN
        /\ dmatch \in BOOLEAN /\ vaddr \in BOOLEAN /\ match \in BOOLEAN
    BY DEF Compress!Init
  <2>4. tbl_addr = 0 /\ rd_addr = 0 /\ nxt_rd_addr = 0 /\ caddr = 0 /\ pmatch = 0
    BY DEF Compress!Init
  <2>5. pmatch \in 0 .. 2
    BY <2>4
  <2> QED
    BY <1>2, <2>1, <2>2, <2>3, <2>4, <2>5 DEF CpTypes
<1>5. CpSame /\ CpSearch
  BY <1>1 DEF Compress!Init, CpSame, CpSearch, CpValid, CpSlot
<1> QED
  BY <1>4, <1>5 DEF CpInv

\* What does not depend on whether the search goes on.
LEMMA CpTypesKept ==
  ASSUME CpTypes, NEW busy \in BOOLEAN, Compress!Clock(busy) PROVE CpTypes'
<1>1. T \in Nat \ {0} /\ T > 1
  BY TAssumption
<1>2. tbl_addr' \in CpSlot
  <2>1. (tbl_addr + 1) % T \in 0 .. T - 1
    BY <1>1, PartNext DEF CpTypes, CpSlot
  <2> QED
    BY <1>1, <2>1 DEF Compress!Clock, Compress!Table, Compress!TblAddr, CpTypes, CpSlot
<1>3. rd_addr' \in CpSlot /\ nxt_rd_addr' \in CpSlot /\ caddr' \in CpSlot
  <2>1. \A a \in CpSlot : (a - 1) % T \in CpSlot /\ (a - 2) % T \in CpSlot
    <3>1. ASSUME NEW a \in CpSlot PROVE (a - 1) % T \in CpSlot /\ (a - 2) % T \in CpSlot
      <4>1. 1 \in 0 .. T /\ 2 \in 0 .. T
        BY <1>1
      <4> QED
        BY <1>1, <4>1, PartBack DEF CpSlot
    <3> QED
      BY <3>1
  <2> QED
    BY <2>1 DEF Compress!Clock, Compress!Search, CpTypes
<1>4. DOMAIN compression_tbl' = CpSlot /\ DOMAIN m_readtbl' = CpSlot
  BY DEF Compress!Clock, Compress!Table, Compress!HostTakes, CpTypes
<1>5. pmatch' \in 0 .. 2
  BY DEF Compress!Clock, Compress!Search, CpTypes
<1>6. a_stb' \in BOOLEAN /\ idle_stb' \in BOOLEAN
  BY DEF Compress!Clock, Compress!Hold, CpTypes
<1>7. tbl_filled' \in BOOLEAN
  BY DEF Compress!Clock, Compress!Table, Compress!Filled, CpTypes
<1>8. dmatch' \in BOOLEAN /\ vaddr' \in BOOLEAN /\ match' \in BOOLEAN
  BY DEF Compress!Clock, Compress!Search, Compress!VAddr, CpTypes
<1>9. a_addrword'.kind # "tbl" /\ i_codword'.kind # "tbl"
  BY DEF Compress!Clock, Compress!Source, Compress!Hold, Compress!Codeword, CpTypes
<1> QED
  BY <1>2, <1>3, <1>4, <1>5, <1>6, <1>7, <1>8, <1>9 DEF CpTypes

LEMMA CpBack ==
  ASSUME NEW a \in CpSlot, NEW k \in 1 .. T - 1 PROVE (a - k) % T \in CpSlot
<1>1. T \in Nat \ {0} /\ k \in 0 .. T
  BY TAssumption
<1> QED
  BY <1>1, PartBack DEF CpSlot

LEMMA CpAway ==
  ASSUME NEW a \in CpSlot, NEW c \in CpSlot, c # a
  PROVE  \E k \in 1 .. T - 1 : k = (a - c) % T /\ (a - k) % T = c
<1>1. T \in Nat \ {0} /\ c \in 0 .. T /\ a \in 0 .. T - 1
  BY TAssumption DEF CpSlot
<1>2. PICK k \in 0 .. T - 1 : k = (a - c) % T /\ k = (IF c <= a THEN a - c ELSE a - c + T)
  BY <1>1, PartBack
<1>3. k \in 1 .. T - 1 /\ k \in 0 .. T
  BY <1>1, <1>2 DEF CpSlot
<1>4. (a - k) % T = (IF k <= a THEN a - k ELSE a - k + T)
  BY <1>1, <1>3, PartBack
<1>5. (a - k) % T = c
  BY <1>1, <1>2, <1>4 DEF CpSlot
<1> QED
  BY <1>2, <1>3, <1>5

\* The word that waits is not taken yet, and the search goes on.
LEMMA CpGoesOn ==
  ASSUME CpInv, CpTypes', NEW busy \in BOOLEAN, Compress!Clock(busy), ~Compress!Restarts(busy)
  PROVE  CpSame' /\ CpSearch'
<1>1. /\ a_stb /\ busy /\ a_stb' /\ a_addrword' = a_addrword /\ idle_stb'
      /\ ~Compress!w_accepted(busy)
  BY DEF Compress!Clock, Compress!Restarts, Compress!w_accepted, Compress!Hold, CpInv, CpTypes
<1>2. /\ tbl_addr' = tbl_addr /\ m_rdaddr' = m_rdaddr /\ m_readtbl' = m_readtbl
      /\ tbl_filled' <=> (tbl_addr = T - 1 \/ tbl_filled)
      /\ compression_tbl' = [compression_tbl EXCEPT ![tbl_addr] = a_addrword.val]
  BY <1>1 DEF Compress!Clock, Compress!Table, Compress!TblAddr, Compress!Filled, Compress!HostTakes, CpTypes, CpInv
<1>3. \A s \in CpSlot : CpValid(s)' <=> CpValid(s)
  BY <1>2, TAssumption DEF CpValid, CpInv, CpTypes, CpSlot
<1>4. \A s \in CpSlot : s # tbl_addr => compression_tbl'[s] = compression_tbl[s]
  BY <1>2 DEF CpInv, CpTypes
<1>5. CpSame'
  BY <1>2, <1>3, <1>4 DEF CpSame, CpInv, CpValid
<1>6. \A m : CpFinds(m) => CpFinds(m)'
  <2>1. ASSUME NEW m, CpFinds(m) PROVE CpFinds(m)'
    <3>1. PICK s \in CpSlot : s = (tbl_addr - m) % T
      BY <2>1, CpBack DEF CpInv, CpTypes, CpFinds
    <3>2. s = (tbl_addr' - m) % T
      BY <1>2, <3>1
    <3> QED
      BY <1>1, <1>3, <1>4, <2>1, <3>1, <3>2 DEF CpFinds, CpValid
  <2> QED
    BY <2>1
<1>7. /\ cword' = compression_tbl[rd_addr] /\ caddr' = rd_addr
      /\ dmatch' <=> cword = a_addrword.val
      /\ maddr' = (tbl_addr - caddr) % T
      /\ vaddr' <=> CpValid(caddr)
      /\ pmatch' = (IF pmatch < 2 THEN pmatch + 1 ELSE 2)
      /\ match' => idle_stb /\ (match \/ Compress!Matches)
      /\ match => matchaddr' = matchaddr
      /\ ~match => matchaddr' = maddr
      /\ r_cword' = a_addrword \/ (match /\ r_cword' = [kind |-> "tbl", val |-> matchaddr])
  BY DEF Compress!Clock, Compress!Search, Compress!VAddr, CpValid
<1>8. caddr' # tbl_addr' => cword' = compression_tbl'[caddr']
  BY <1>2, <1>4, <1>7 DEF CpInv, CpTypes
<1>9. ASSUME pmatch' = 2, vaddr', dmatch', NEW m, m = maddr' PROVE CpFinds(m)'
  <2>1. pmatch >= 1 /\ CpValid(caddr) /\ cword = a_addrword.val
    BY <1>7, <1>9 DEF CpInv, CpTypes
  <2>2. compression_tbl[caddr] = a_addrword.val /\ caddr # tbl_addr
    BY <2>1 DEF CpInv, CpSearch, CpValid
  <2>3. PICK k \in 1 .. T - 1 : k = (tbl_addr - caddr) % T /\ (tbl_addr - k) % T = caddr
    BY <2>2, CpAway DEF CpInv, CpTypes
  <2>4. CpFinds(k)
    BY <2>1, <2>2, <2>3 DEF CpFinds
  <2>5. m = k
    BY <1>7, <1>9, <2>3
  <2> QED
    BY <1>6, <2>4, <2>5
<1>10. ASSUME match', NEW m, m = matchaddr' PROVE a_addrword'.kind = "data" /\ CpFinds(m)'
  <2>1. CASE match
    BY <1>1, <1>6, <1>7, <1>10, <2>1 DEF CpInv, CpSearch
  <2>2. CASE ~match
    BY <1>1, <1>6, <1>7, <1>10, <2>2 DEF CpInv, CpSearch, Compress!Matches
  <2> QED
    BY <2>1, <2>2
<1>11. \/ r_cword' = a_addrword'
       \/ /\ r_cword'.kind = "tbl" /\ a_addrword'.kind = "data"
          /\ \E m : m = r_cword'.val /\ CpFinds(m)'
  BY <1>1, <1>6, <1>7 DEF CpInv, CpSearch
<1>12. PICK m1, m2 : m1 = maddr' /\ m2 = matchaddr'
  OBVIOUS
<1>13. (pmatch' = 2 /\ vaddr' /\ dmatch' => CpFinds(m1)')
       /\ (match' => a_addrword'.kind = "data" /\ CpFinds(m2)')
  BY <1>9, <1>10, <1>12
<1> QED
  BY <1>1, <1>5, <1>8, <1>11, <1>12, <1>13 DEF CpSearch, CpFinds

\* The word is taken, or none waits.
LEMMA CpStartsOver ==
  ASSUME CpInv, CpTypes', NEW busy \in BOOLEAN, Compress!Clock(busy), Compress!Restarts(busy)
  PROVE  CpSame' /\ CpSearch'
<1>1. ~match' /\ pmatch' = 0 /\ ~(a_stb' /\ idle_stb')
  BY DEF Compress!Clock, Compress!Search, Compress!Hold, Compress!Restarts, Compress!w_accepted, CpInv, CpTypes
<1>2. CpSearch'
  BY <1>1 DEF CpSearch
<1>3. /\ compression_tbl' = [compression_tbl EXCEPT ![tbl_addr] = a_addrword.val]
      /\ tbl_addr' = Compress!TblAddr(busy) /\ (tbl_filled' <=> Compress!Filled(busy))
      /\ Compress!HostTakes(busy)
  BY DEF Compress!Clock, Compress!Table
<1>4. PICK c : c = Compress!o_cword
  OBVIOUS
<1>5. T \in Nat \ {0} /\ T > 1 /\ tbl_addr \in CpSlot /\ m_rdaddr = tbl_addr
      /\ DOMAIN compression_tbl = CpSlot /\ DOMAIN m_readtbl = CpSlot
  BY TAssumption DEF CpInv, CpTypes, CpSame
<1>6. \A s \in CpSlot : CpValid(s) => compression_tbl[s] = m_readtbl[s]
  BY DEF CpInv, CpSame
<1>7. CASE Compress!w_accepted(busy) /\ c.kind = "data"
  <2>1. c = a_addrword
    BY <1>4, <1>7 DEF Compress!o_cword, Compress!w_accepted, CpInv, CpSearch
  <2>2. /\ tbl_addr' = (tbl_addr + 1) % T /\ m_rdaddr' = (m_rdaddr + 1) % T
        /\ m_readtbl' = [m_readtbl EXCEPT ![m_rdaddr] = a_addrword.val]
        /\ tbl_filled' <=> (tbl_addr = T - 1 \/ tbl_filled)
    BY <1>3, <1>4, <1>7, <2>1 DEF Compress!TblAddr, Compress!Filled, Compress!HostTakes, CpInv, CpTypes
  <2>3. tbl_addr' = (IF tbl_addr = T - 1 THEN 0 ELSE tbl_addr + 1)
    BY <1>5, <2>2, PartNext DEF CpSlot
  <2>4. ASSUME NEW s \in CpSlot, CpValid(s)' PROVE compression_tbl'[s] = m_readtbl'[s]
    <3>1. CASE s = tbl_addr
      BY <1>3, <1>5, <2>2, <3>1
    <3>2. CASE s # tbl_addr
      <4>1. CpValid(s)
        BY <1>5, <2>2, <2>3, <2>4, <3>2 DEF CpValid, CpSlot
      <4> QED
        BY <1>3, <1>5, <1>6, <2>2, <3>2, <4>1
    <3> QED
      BY <3>1, <3>2
  <2>5. m_rdaddr' = tbl_addr'
    BY <1>5, <2>2
  <2>6. CpSame'
    BY <2>4, <2>5 DEF CpSame
  <2> QED
    BY <1>2, <2>6
<1>8. CASE Compress!w_accepted(busy) /\ c.kind = "addr"
  <2>1. tbl_addr' = 0 /\ m_rdaddr' = 0 /\ ~tbl_filled'
    BY <1>3, <1>4, <1>8 DEF Compress!TblAddr, Compress!Filled, Compress!HostTakes
  <2>2. \A s \in CpSlot : ~CpValid(s)'
    BY <2>1 DEF CpValid, CpSlot
  <2> QED
    BY <1>2, <2>1, <2>2 DEF CpSame
<1>9. CASE ~Compress!w_accepted(busy) \/ c.kind \notin {"data", "addr"}
  <2>1. /\ tbl_addr' = tbl_addr /\ m_rdaddr' = m_rdaddr /\ m_readtbl' = m_readtbl
        /\ tbl_filled' <=> (tbl_addr = T - 1 \/ tbl_filled)
    BY <1>3, <1>4, <1>9 DEF Compress!TblAddr, Compress!Filled, Compress!HostTakes, CpInv, CpTypes
  <2>2. \A s \in CpSlot : CpValid(s)' => CpValid(s) /\ compression_tbl'[s] = compression_tbl[s]
    BY <1>3, <1>5, <2>1 DEF CpValid, CpSlot
  <2>3. CpSame'
    BY <1>5, <1>6, <2>1, <2>2 DEF CpSame
  <2> QED
    BY <1>2, <2>3
<1> QED
  BY <1>7, <1>8, <1>9

LEMMA CpKept ==
  ASSUME CpInv, Compress!Next PROVE CpInv'
<1>1. PICK busy \in BOOLEAN : Compress!Clock(busy)
  BY DEF Compress!Next
<1>2. CpTypes'
  BY <1>1, CpTypesKept DEF CpInv
<1>3. CpSame' /\ CpSearch'
  BY <1>1, <1>2, CpGoesOn, CpStartsOver
<1> QED
  BY <1>2, <1>3 DEF CpInv

LEMMA CpReads ==
  ASSUME CpInv PROVE Compress!HostReadsWord
<1>1. ASSUME a_stb PROVE Compress!HostValue(Compress!o_cword) = a_addrword.val
  <2>1. CASE Compress!o_cword = a_addrword
    BY <2>1 DEF Compress!HostValue, CpInv, CpTypes
  <2>2. CASE Compress!o_cword # a_addrword
    <3>1. PICK c : c = r_cword /\ c = Compress!o_cword /\ c.kind = "tbl" /\ CpFinds(c.val)
      BY <1>1, <2>2 DEF Compress!o_cword, CpInv, CpSearch, CpTypes
    <3>2. PICK s \in CpSlot : s = (tbl_addr - c.val) % T
      BY <3>1, CpBack DEF CpInv, CpTypes, CpFinds
    <3>3. m_readtbl[s] = a_addrword.val /\ s = (m_rdaddr - c.val) % T
      BY <3>1, <3>2 DEF CpInv, CpSame, CpFinds
    <3> QED
      BY <3>1, <3>3 DEF Compress!HostValue
  <2> QED
    BY <2>1, <2>2
<1> QED
  BY <1>1 DEF Compress!HostReadsWord

LEMMA CpAlone ==
  ASSUME CpInv, [PartsNext]_partsvars PROVE CpInv'
<1>1. CASE CompressRuns
  BY <1>1, CpKept DEF CompressRuns
<1>2. CASE ~CompressRuns
  <2>1. UNCHANGED compvars
    BY <1>2 DEF PartsNext, partsvars, FifoRuns, DelayRuns, InputRuns, PipeRuns, SerialRuns, AnalyserRuns
  <2> QED
    BY <2>1 DEF compvars, CpInv, CpTypes, CpSame, CpSearch, CpValid, CpFinds
<1> QED
  BY <1>1, <1>2

(***************************************************************************)
(* From the codeword that is taken, whole or a place in the table, the     *)
(* host reads the word it stands for (wbucompress.v, ttybus.cpp), whenever *)
(* the serial port takes it and for every size of the table.               *)
(***************************************************************************)
THEOREM HostReadsRightWord == PartsSpec => []HostReadsWord
<1>1. PartsInit => CpInv
  BY CpBegins DEF PartsInit
<1>2. CpInv => HostReadsWord
  BY CpReads DEF HostReadsWord
<1> QED
  BY <1>1, <1>2, CpAlone, PTL DEF PartsSpec

-----------------------------------------------------------------------------
(***************************************************************************)
(* The way of the commands (wbutohex.v, wbureadcw.v, wbudecompress.v).  A  *)
(* code is on the line, with the reader or just read (the front), in the   *)
(* decompressor or out; the time a character takes keeps them apart.       *)
(***************************************************************************)
InSlot == 0 .. T - 1
InWrites(op) == op \in {"write", "short"}

\* Codes there are digits of.
InCode(c) ==
  /\ c = Input!Code(c.op, c.arg, c.size) /\ c.size \in 1 .. 6
  /\ c.op \in {"addr", "read", "eow", "write", "short"}
  /\ c.op \in {"addr", "read", "eow"} => c.arg = 0
  /\ c.op = "write" => c.arg \in Value
  /\ c.op = "short" => c.arg \in 1 .. T - 1

\* The digits of the reader's code that it has, or is being given.
InDigit == hx_stb /\ hx_digit # Input!NL
InReader == r_len > 0 \/ InDigit
InRead == IF r_len > 0 THEN shiftreg[1].of ELSE hx_digit.of
InGot == r_len + (IF InDigit THEN 1 ELSE 0)

InFresh == line # << >> /\ line[1].nth = 1

\* Only so long after a character is anything under way.
InTimes ==
  /\ wait \in 0 .. Gap - 1
  /\ hx_stb => wait = Gap - 1
  /\ Input!Complete => wait = Gap - 2
  /\ cw_stb => wait \in {Gap - 2, Gap - 3} /\ r_len = 0 /\ cw_len = 0
  /\ in_stb[1] => wait \in {Gap - 3, Gap - 4} /\ ~cw_stb
  /\ in_stb[2] => ~in_stb[1] /\ ~cw_stb
  /\ in_stb[3] => ~in_stb[1] /\ ~in_stb[2]

\* What is left of a code on the line.
InLine ==
  line # << >> =>
    \E c \in {line[1].of}, k \in {line[1].nth} :
      /\ InCode(c) /\ k \in 1 .. c.size
      /\ line = [i \in 1 .. c.size - k + 1 |-> [of |-> c, nth |-> k + i - 1]]
      /\ k > 1 => InReader /\ InRead = c /\ InGot = k - 1

\* What the reader has of one.
InHeld ==
  /\ r_len \in 0 .. 6 /\ (r_len = 0 => cw_len = 0)
  /\ InReader =>
       /\ InCode(InRead) /\ InGot <= InRead.size
       /\ line = << >> \/ InFresh => InGot = InRead.size
  /\ r_len > 0 => cw_len = InRead.size
  /\ \A n \in 1 .. r_len : shiftreg[n] = [of |-> InRead, nth |-> n]
  /\ InDigit => hx_digit = [of |-> InRead, nth |-> r_len + 1]
  /\ Input!newline => r_len = 0
  /\ cw_stb => cw_word = Input!EOW \/ InCode(cw_word)

\* Whether the last of the commands sent was a write.
InBurst ==
  bursting <=>
    IF line # << >> THEN InWrites(line[1].of.op)
    ELSE IF InReader THEN InWrites(InRead.op)
    ELSE IF Input!newline THEN FALSE
    ELSE IF cw_stb THEN InWrites(cw_word.op)
    ELSE lastcw = "write"

\* The word written k writes ago, as it is in the board's table now, as it
\* will be there after the front, and after the code on the line.
InHas(k) == in_tbl[(wr_addr - k) % T]

InFront ==
  IF cw_stb THEN <<cw_word>> ELSE IF InReader THEN <<InRead>>
  ELSE IF Input!EndsBurst THEN <<Input!EOW>> ELSE << >>

InGets(s, x, k, y) ==
  IF s # << >> /\ s[1].op = "write" THEN IF k = 1 THEN s[1].arg ELSE x ELSE y

InWill(k) == InGets(InFront, InHas(k - 1), k, InHas(k))

InLast == IF InFresh THEN <<line[1].of>> ELSE << >>

InAtLast(k) == InGets(InLast, InWill(k - 1), k, InWill(k))

\* Commands the codes stand for, v being the word a short one refers to.
InMeans(c, v) == IF c.op = "short" THEN Input!Code("write", v, 0) ELSE [c EXCEPT !.size = 0]

InOut == IF o_stb THEN <<o_word>> ELSE << >>
InMiddle ==
  IF in_stb[1] THEN <<InMeans(r_word, InHas(r_word.arg))>>
  ELSE IF in_stb[2] THEN <<InMeans(r_word, in_tbl[cmd_addr])>>
  ELSE IF in_stb[3] THEN <<InMeans(r_word, in_cword)>>
  ELSE << >>
InNext == IF InFront = << >> THEN << >> ELSE <<InMeans(InFront[1], InHas(InFront[1].arg))>>
InFinal == IF InLast = << >> THEN << >> ELSE <<InMeans(InLast[1], InWill(InLast[1].arg))>>

\* The commands due, as the board takes them.
InAs(cs) == [i \in 1 .. Len(cs) |-> Input!TakenFor(cs[i])]
InCame == InAs(due)
InDues == {Input!EOW} \cup {Input!Code(c.op, c.arg, 0) : c \in Input!Command}
InWaits == due \in Seq(InDues)

InDue == InCame = InOut \o (InMiddle \o (InNext \o InFinal))

\* The words the host may refer to are the same on the board.
InTables ==
  /\ m_wraddr \in InSlot /\ wr_addr \in InSlot
  /\ DOMAIN m_writetbl = InSlot /\ DOMAIN in_tbl = InSlot
  /\ \A k \in 1 .. T - 1 : k \in Input!Searched => m_writetbl[(m_wraddr - k) % T] = InAtLast(k)

InTypes ==
  /\ DOMAIN shiftreg = 1 .. 6 /\ Len(in_stb) = 3
  /\ {hx_stb, cw_stb, o_stb, in_stb[1], in_stb[2], in_stb[3], bursting, m_wrloaded} \subseteq BOOLEAN

InInv ==
  InTypes /\ InTimes /\ InLine /\ InHeld /\ InBurst /\ InDue /\ InTables /\ InWaits

\* One clock of the reader: it takes a digit, ends a burst or not at a newline,
\* has a codeword, hands it on, or waits.
InTakes ==
  /\ InDigit /\ ~Input!Complete /\ ~cw_stb /\ r_len < 6
  /\ r_len' = r_len + 1 /\ cw_len' = InRead.size
  /\ shiftreg' = [shiftreg EXCEPT ![r_len + 1] = hx_digit]
  /\ ~cw_stb' /\ lastcw' = lastcw

InEnds ==
  /\ Input!newline /\ ~Input!Complete /\ ~cw_stb /\ r_len = 0 /\ r_len' = 0 /\ cw_len' = 0
  /\ cw_stb' <=> lastcw = "write"
  /\ lastcw = "write" => cw_word' = Input!EOW
  /\ lastcw' = lastcw

InCompletes ==
  /\ Input!Complete /\ ~hx_stb /\ ~cw_stb /\ r_len > 0
  /\ r_len' = 0 /\ cw_len' = 0 /\ cw_stb' /\ cw_word' = InRead /\ lastcw' = lastcw

InGives ==
  /\ cw_stb /\ ~hx_stb /\ ~Input!Complete /\ r_len = 0 /\ cw_len = 0
  /\ r_len' = 0 /\ cw_len' = 0 /\ ~cw_stb'
  /\ lastcw' = (IF cw_word.op = "short" THEN "write" ELSE cw_word.op)

InRests ==
  /\ ~hx_stb /\ ~Input!Complete /\ ~cw_stb
  /\ r_len' = r_len /\ cw_len' = cw_len /\ shiftreg' = shiftreg /\ ~cw_stb' /\ lastcw' = lastcw

InReading == InTakes \/ InEnds \/ InCompletes \/ InGives \/ InRests

\* One clock of the line.
InHostSame == UNCHANGED <<m_wraddr, m_wrloaded, m_writetbl>>

InLeft == IF o_stb THEN Tail(InCame) ELSE InCame

InSends ==
  /\ line # << >> /\ wait = 0 /\ InRests
  /\ hx_stb' /\ hx_digit' = Head(line) /\ line' = Tail(line) /\ wait' = Gap - 1
  /\ bursting' = bursting /\ InHostSame /\ InCame' = InLeft

InReturns ==
  /\ line = << >> /\ wait = 0 /\ InRests
  /\ hx_stb' /\ hx_digit' = Input!NL /\ line' = << >> /\ wait' = Gap - 1
  /\ ~bursting' /\ InHostSame /\ InCame' = (IF bursting THEN Append(InLeft, Input!EOW) ELSE InLeft)

InPasses ==
  /\ ~hx_stb' /\ hx_digit' = hx_digit /\ wait' = (IF wait = 0 THEN 0 ELSE wait - 1)
  /\ InReading

InIdles == InPasses /\ line' = line /\ bursting' = bursting /\ InHostSame /\ InCame' = InLeft

InRestarts ==
  /\ InPasses /\ line = << >> /\ line' = << >> /\ bursting' = bursting /\ InCame' = InLeft
  /\ m_wraddr' = 0 /\ ~m_wrloaded' /\ m_writetbl' \in [InSlot -> Value]

InSpeaks(c) ==
  /\ InPasses /\ line = << >> /\ c \in Input!Command
  /\ Input!Send(c) /\ InCame' = Append(InLeft, Input!TakenFor(Input!Code(c.op, c.arg, 0)))

InClock == InSends \/ InReturns \/ InIdles \/ InRestarts \/ (\E c \in Input!Command : InSpeaks(c))

LEMMA InConstants == T \in Nat \ {0} /\ T > 1 /\ Gap \in Nat /\ Gap >= 4
BY TAssumption, GapAssumption

\* What cannot be in the same clock.
LEMMA InApart ==
  ASSUME InInv
  PROVE  /\ hx_stb => ~Input!Complete /\ ~cw_stb
         /\ Input!Complete => ~cw_stb
         /\ wait = 0 => ~hx_stb /\ ~Input!Complete /\ ~cw_stb
         /\ Input!Complete => InReader /\ InGot = InRead.size /\ InGot > 0 /\ r_len > 0
         /\ InDigit => r_len < 6 /\ InRead.size \in 1 .. 6 /\ (r_len = 0 => cw_len = 0)
BY InConstants DEF InInv, InTimes, InHeld, InCode, InReader, InGot, InDigit, Input!Complete

\* The codeword the digits make up is the one they are digits of.
LEMMA InGathered ==
  ASSUME InInv, Input!Complete PROVE Input!Gathered = InRead
<1>1. r_len > 0 /\ r_len = InRead.size /\ ~InDigit
  BY InApart DEF InGot, InDigit, InInv, InHeld
<1>2. \A n \in 1 .. r_len : shiftreg[n] = [of |-> InRead, nth |-> n]
  BY DEF InInv, InHeld
<1>3. shiftreg[1].of = InRead
  BY <1>1 DEF InRead
<1> QED
  BY <1>1, <1>2, <1>3 DEF Input!Gathered

LEMMA InReads ==
  ASSUME InInv, Input!ReadCw PROVE InReading
<1> USE DEF Input!newline
<1>1. InTypes /\ InTimes /\ InHeld
  BY DEF InInv
<1>2. cw_stb' <=> Input!Complete \/ Input!EndsBurst
  BY ZenonT(30) DEF Input!ReadCw, Input!w_stb
<1>3. /\ Input!w_stb <=> Input!Complete \/ Input!EndsBurst
      /\ Input!EndsBurst <=> hx_stb /\ hx_digit = Input!NL /\ lastcw = "write"
  BY DEF Input!w_stb, Input!EndsBurst
<1>4. /\ lastcw' = IF cw_stb THEN IF cw_word.op = "short" THEN "write" ELSE cw_word.op
                   ELSE lastcw
      /\ cw_word' = IF Input!EndsBurst THEN Input!EOW ELSE Input!Gathered
  BY DEF Input!ReadCw
<1>5. CASE InDigit
  <2>1. hx_stb /\ hx_digit # Input!NL /\ ~Input!Complete /\ ~cw_stb /\ ~Input!w_stb /\ ~cw_stb' /\ r_len < 6
    BY <1>2, <1>3, <1>5, InApart DEF InDigit
  <2>2. r_len \in 0 .. 6 /\ r_len' = r_len + 1 /\ shiftreg' = [shiftreg EXCEPT ![r_len + 1] = hx_digit]
    BY <1>1, <2>1 DEF Input!ReadCw, InHeld
  <2>3. cw_len' = InRead.size
    <3>1. CASE r_len = 0
      <4>1. cw_len = 0 /\ hx_digit = [of |-> InRead, nth |-> 1] /\ Input!Starts
        BY <1>1, <1>5, <3>1 DEF InHeld, Input!Starts
      <4>2. Input!Announced(hx_digit) = InRead.size
        BY <4>1 DEF Input!Announced
      <4>3. cw_len' = Input!Announced(hx_digit)
        BY <2>1, <4>1 DEF Input!ReadCw
      <4> QED
        BY <4>2, <4>3
    <3>2. CASE r_len > 0
      <4>1. cw_len = InRead.size /\ ~Input!Starts
        BY <1>1, <1>5, <2>1, <3>2, InApart DEF InHeld, Input!Starts
      <4>2. cw_len' = cw_len
        BY <2>1, <4>1 DEF Input!ReadCw
      <4> QED
        BY <4>1, <4>2
    <3> QED
      BY <2>2, <3>1, <3>2
  <2> QED
    BY <1>4, <1>5, <2>1, <2>2, <2>3 DEF InReading, InTakes
<1>6. CASE Input!newline
  <2>1. ~Input!Complete /\ ~cw_stb /\ r_len = 0
    BY <1>1, <1>6, InApart DEF InHeld
  <2>2. r_len' = 0 /\ cw_len' = 0
    BY <1>6 DEF Input!ReadCw
  <2>3. cw_stb' <=> lastcw = "write"
    BY <1>2, <1>3, <1>6, <2>1
  <2>4. lastcw = "write" => cw_word' = Input!EOW
    BY <1>3, <1>4, <1>6
  <2> QED
    BY <1>4, <1>6, <2>1, <2>2, <2>3, <2>4 DEF InReading, InEnds
<1>7. CASE Input!Complete
  <2>1. ~hx_stb /\ ~cw_stb /\ r_len > 0 /\ Input!w_stb /\ cw_stb' /\ ~Input!EndsBurst
    BY <1>2, <1>3, <1>7, InApart
  <2>2. r_len' = 0 /\ cw_len' = 0
    BY <2>1 DEF Input!ReadCw
  <2> QED
    BY <1>4, <1>7, <2>1, <2>2, InGathered DEF InReading, InCompletes
<1>8. CASE ~hx_stb /\ ~Input!Complete
  <2>1. ~Input!w_stb /\ ~cw_stb'
    BY <1>2, <1>3, <1>8
  <2>2. r_len' = r_len /\ cw_len' = cw_len /\ shiftreg' = shiftreg
    BY <1>8, <2>1 DEF Input!ReadCw
  <2>3. cw_stb => r_len = 0 /\ cw_len = 0
    BY <1>1 DEF InTimes
  <2> QED
    BY <1>4, <1>8, <2>1, <2>2, <2>3 DEF InReading, InGives, InRests
<1> QED
  BY <1>5, <1>6, <1>7, <1>8 DEF InDigit

\* Between two codes the reader is empty when the next character may come.
LEMMA InEmpty ==
  ASSUME InInv, wait = 0, line = << >> \/ InFresh PROVE ~InReader /\ r_len = 0 /\ cw_len = 0
<1>1. ~hx_stb /\ ~Input!Complete
  BY InApart
<1>2. r_len \in 0 .. 6 /\ (r_len = 0 => cw_len = 0)
  BY DEF InInv, InHeld
<1>3. ASSUME InReader PROVE FALSE
  <2>1. r_len > 0 /\ r_len = InRead.size /\ cw_len = InRead.size
    BY <1>1, <1>2, <1>3 DEF InInv, InHeld, InReader, InGot, InDigit
  <2> QED
    BY <1>1, <2>1 DEF Input!Complete
<1> QED
  BY <1>2, <1>3 DEF InReader

LEMMA InTypesKept ==
  ASSUME InInv, Input!Next PROVE InTypes'
<1>0. FALSE \in BOOLEAN /\ TRUE \in BOOLEAN
  OBVIOUS
<1>1. DOMAIN shiftreg' = 1 .. 6
  BY DEF Input!Next, Input!ReadCw, InInv, InTypes
<1>2. in_stb' = <<cw_stb, in_stb[1], in_stb[2]>> /\ o_stb' = in_stb[3]
  BY DEF Input!Next, Input!Decompress
<1>3. hx_stb' \in BOOLEAN
  BY <1>0 DEF Input!Next, Input!Serial
<1>4. cw_stb' \in BOOLEAN
  BY ZenonT(30) DEF Input!Next, Input!ReadCw, Input!w_stb, Input!Complete, Input!EndsBurst
<1>5. bursting \in BOOLEAN /\ m_wrloaded \in BOOLEAN
  BY DEF InInv, InTypes
<1>6. bursting' \in BOOLEAN
  <2>1. ASSUME NEW c, Input!Send(c) PROVE bursting' \in BOOLEAN
    BY <2>1, ZenonT(30) DEF Input!Send
  <2> QED
    BY <1>0, <1>5, <2>1 DEF Input!Next, Input!Serial, Input!EndLine, Input!HostIdle, Input!Restart
<1>7. m_wrloaded' \in BOOLEAN
  <2>1. ASSUME NEW c, Input!Send(c) PROVE m_wrloaded' \in BOOLEAN
    <3>1. UNCHANGED m_wrloaded \/ m_wrloaded' = (m_wrloaded \/ m_wraddr = T - 1)
      BY <2>1 DEF Input!Send, Input!SendWrite
    <3> QED
      BY <1>5, <3>1, ZenonT(30)
  <2> QED
    BY <1>0, <1>5, <2>1 DEF Input!Next, Input!Serial, Input!EndLine, Input!HostIdle, Input!Restart
<1> QED
  BY <1>1, <1>2, <1>3, <1>4, <1>6, <1>7 DEF InTypes, InInv

LEMMA InTimesKept ==
  ASSUME InInv, InClock, Input!Decompress PROVE InTimes'
<1>1. InTimes /\ InTypes /\ Gap \in Nat /\ Gap >= 4
  BY InConstants DEF InInv
<1>2. \/ wait = 0 /\ InRests /\ hx_stb' /\ wait' = Gap - 1
      \/ InPasses
  BY DEF InClock, InSends, InReturns, InIdles, InRestarts, InSpeaks
<1>3. in_stb' = <<cw_stb, in_stb[1], in_stb[2]>>
  BY DEF Input!Decompress
<1>4. in_stb'[1] = cw_stb /\ in_stb'[2] = in_stb[1] /\ in_stb'[3] = in_stb[2]
  BY <1>3
<1>5. CASE wait = 0 /\ InRests /\ hx_stb' /\ wait' = Gap - 1
  BY <1>1, <1>4, <1>5 DEF InRests, InTimes, Input!Complete
<1>6. CASE InPasses
  <2>1. ~hx_stb' /\ wait' = (IF wait = 0 THEN 0 ELSE wait - 1) /\ InReading
    BY <1>6 DEF InPasses
  <2>2. CASE InTakes
    BY <1>1, <1>4, <2>1, <2>2 DEF InTakes, InDigit, InTimes, Input!Complete
  <2>3. CASE InEnds
    BY <1>1, <1>4, <2>1, <2>3 DEF InEnds, Input!newline, InTimes, Input!Complete
  <2>4. CASE InCompletes
    BY <1>1, <1>4, <2>1, <2>4 DEF InCompletes, InTimes, Input!Complete
  <2>5. CASE InGives
    BY <1>1, <1>4, <2>1, <2>5 DEF InGives, InTimes, Input!Complete
  <2>6. CASE InRests
    BY <1>1, <1>4, <2>1, <2>6 DEF InRests, InTimes, Input!Complete
  <2> QED
    BY <2>1, <2>2, <2>3, <2>4, <2>5, <2>6 DEF InReading
<1> QED
  BY <1>2, <1>5, <1>6

\* A code stays with the reader until it has it whole.
LEMMA InStays ==
  ASSUME InInv, InTakes \/ InRests, ~hx_stb'
  PROVE  /\ InReader' <=> InReader
         /\ InReader => InRead' = InRead /\ InGot' = InGot
         /\ ~InDigit' /\ ~Input!newline'
<1>1. r_len \in 0 .. 6 /\ DOMAIN shiftreg = 1 .. 6
  BY DEF InInv, InHeld, InTypes
<1>2. ~InDigit' /\ ~Input!newline'
  BY DEF InDigit, Input!newline
<1>3. CASE InTakes
  <2>1. r_len' = r_len + 1 /\ r_len' > 0 /\ InDigit
    BY <1>1, <1>3 DEF InTakes
  <2>2. shiftreg'[1] = (IF r_len = 0 THEN hx_digit ELSE shiftreg[1])
    BY <1>1, <1>3 DEF InTakes
  <2> QED
    BY <1>1, <1>2, <2>1, <2>2 DEF InReader, InRead, InGot
<1>4. CASE InRests
  BY <1>1, <1>2, <1>4 DEF InRests, InReader, InRead, InGot, InDigit
<1> QED
  BY <1>3, <1>4

\* It is gone with its last digit, and a newline is gone after a clock.
LEMMA InLeaves ==
  ASSUME InInv, InEnds \/ InCompletes \/ InGives, ~hx_stb'
  PROVE  ~InReader' /\ ~InDigit' /\ ~Input!newline' /\ r_len' = 0 /\ cw_len' = 0
BY DEF InReader, InDigit, Input!newline, InEnds, InCompletes, InGives

\* The digit that comes from the line is the reader's next.
LEMMA InComes ==
  ASSUME InInv, InSends
  PROVE  \E c \in {line[1].of}, k \in {line[1].nth} :
           /\ InCode(c) /\ k \in 1 .. c.size
           /\ hx_digit' = [of |-> c, nth |-> k] /\ r_len' = k - 1 /\ r_len = k - 1 /\ cw_len' = cw_len
           /\ InDigit' /\ InReader' /\ InRead' = c /\ InGot' = k
           /\ k > 1 => InReader /\ InRead = c
           /\ line' = << >> <=> k = c.size
           /\ line' = [i \in 1 .. c.size - k |-> [of |-> c, nth |-> k + i]]
           /\ shiftreg' = shiftreg
<1>1. PICK c \in {line[1].of}, k \in {line[1].nth} :
        /\ InCode(c) /\ k \in 1 .. c.size
        /\ line = [i \in 1 .. c.size - k + 1 |-> [of |-> c, nth |-> k + i - 1]]
        /\ k > 1 => InReader /\ InRead = c /\ InGot = k - 1
  BY DEF InSends, InInv, InLine
<1>2. c.size \in 1 .. 6 /\ InRests /\ r_len \in 0 .. 6 /\ line # << >>
  BY <1>1 DEF InCode, InSends, InInv, InHeld
<1>3. hx_digit' = [of |-> c, nth |-> k]
  <2>1. 1 \in 1 .. c.size - k + 1
    BY <1>1, <1>2
  <2>2. line[1] = [of |-> c, nth |-> k]
    BY <1>1, <2>1
  <2> QED
    BY <2>2 DEF InSends
<1>4. r_len = k - 1
  <2>1. CASE k = 1
    BY <1>1, <2>1, InEmpty DEF InSends, InFresh
  <2>2. CASE k > 1
    BY <1>1, <1>2, <2>2 DEF InGot, InDigit, InRests
  <2> QED
    BY <1>1, <1>2, <2>1, <2>2
<1>5. InDigit'
  BY <1>1, <1>3 DEF InDigit, InSends, Input!NL
<1>6. InReader' /\ InRead' = c /\ InGot' = k
  BY <1>1, <1>2, <1>3, <1>4, <1>5 DEF InReader, InRead, InGot, InRests
<1>7. PICK n \in Nat : n = c.size - k + 1 /\ n >= 1
  BY <1>1, <1>2
<1>0. c.size \in 1 .. 6 /\ k \in 1 .. c.size
  BY <1>1, <1>2
<1>8. PICK S : line \in Seq(S)
  <2>1. line = [i \in 1 .. n |-> [of |-> c, nth |-> k + i - 1]]
    BY <1>1, <1>7
  <2> DEFINE S == {[of |-> c, nth |-> k + i - 1] : i \in 1 .. n}
  <2>2. line \in [1 .. n -> S]
    BY <2>1
  <2> HIDE DEF S
  <2> QED
    BY <1>7, <2>2, SeqDef
<1>9. Len(line) = n
  BY <1>1, <1>7, <1>8
<1>10. PICK t \in Seq(S) : t = line' /\ Len(t) = n - 1 /\ \A i \in 1 .. n - 1 : t[i] = line[i + 1]
  <2>1. line' = Tail(line)
    BY DEF InSends
  <2>2. /\ Tail(line) \in Seq(S) /\ Len(Tail(line)) = Len(line) - 1
        /\ \A i \in 1 .. Len(Tail(line)) : Tail(line)[i] = line[i + 1]
    BY <1>2, <1>8, HeadTailProperties
  <2> QED
    BY <1>9, <2>1, <2>2
<1>11. line' = [i \in 1 .. c.size - k |-> [of |-> c, nth |-> k + i]]
  <2>1. \A i \in 1 .. c.size - k : t[i] = [of |-> c, nth |-> k + i]
    <3>1. ASSUME NEW i \in 1 .. c.size - k PROVE t[i] = [of |-> c, nth |-> k + i]
      <4>1. i \in 1 .. n - 1 /\ i + 1 \in 1 .. c.size - k + 1 /\ k + (i + 1) - 1 = k + i
        BY <1>0, <1>7, <3>1
      <4>2. line[i + 1] = [of |-> c, nth |-> k + (i + 1) - 1]
        BY <1>1, <4>1
      <4>3. t[i] = line[i + 1]
        BY <1>10, <4>1
      <4> QED
        BY <4>1, <4>2, <4>3
    <3> QED
      BY <3>1
  <2>2. t = [i \in 1 .. c.size - k |-> t[i]]
    <3>1. n - 1 = c.size - k
      BY <1>0, <1>7
    <3>2. DOMAIN t = 1 .. c.size - k /\ t \in [1 .. c.size - k -> S]
      BY <1>10, <3>1, LenProperties
    <3> QED
      BY <3>2
  <2> QED
    BY <1>10, <2>1, <2>2
<1>12. line' = << >> <=> k = c.size
  <2>1. t = << >> <=> n = 1
    BY <1>7, <1>10, EmptySeq
  <2> QED
    BY <1>0, <1>7, <1>10, <2>1
<1> QED
  BY <1>1, <1>2, <1>3, <1>4, <1>5, <1>6, <1>11, <1>12 DEF InRests

\* What the host puts on the line for a command: a write of a word it finds in
\* its table becomes a reference to it.
InRefers(c, x) ==
  /\ c.op = "write" /\ x = Input!Code("short", x.arg, 2) /\ x.arg \in Input!Searched
  /\ x.arg \in 1 .. T - 1
  /\ m_writetbl[(m_wraddr - x.arg) % T] = c.arg /\ InHostSame

InSpells(c, x) ==
  /\ c.op = "write" /\ x = Input!Code("write", c.arg, 6)
  /\ m_writetbl' = [m_writetbl EXCEPT ![m_wraddr] = c.arg]
  /\ m_wraddr' = (m_wraddr + 1) % T
  /\ m_wrloaded' <=> m_wrloaded \/ m_wraddr = T - 1

InAsks(c, x) == c.op # "write" /\ x = Input!Code(Input!Encoded(c), 0, x.size) /\ InHostSame

LEMMA InSaid ==
  ASSUME InInv, NEW c, InSpeaks(c)
  PROVE  \E x : /\ InCode(x) /\ x.size \in 1 .. 6
                /\ line' = Input!DigitsOf(x)
                /\ (InWrites(x.op) <=> c.op = "write") /\ (bursting' <=> c.op = "write")
                /\ InRefers(c, x) \/ InSpells(c, x) \/ InAsks(c, x)
<1>1. /\ c.op \in {"addr", "read", "write"}
      /\ c.op = "write" => c.arg \in Value
  BY DEF InSpeaks, Input!Command
<1>2. Input!Send(c)
  BY DEF InSpeaks
<1>3. bursting' <=> c.op = "write"
  BY <1>2, ZenonT(30) DEF Input!Send
<1>4. Input!Searched \subseteq 1 .. T - 1
  BY InConstants DEF Input!Searched, InInv, InTables, InSlot
<1>5. CASE c.op = "write" /\ Input!Found(c.arg) # {}
  <2>1. PICK x : /\ x = Input!Code("short", CHOOSE e \in Input!Found(c.arg) : \A f \in Input!Found(c.arg) : e <= f, 2)
                 /\ line' = Input!DigitsOf(x) /\ InHostSame
    BY <1>2, <1>5 DEF Input!Send, Input!SendWrite, InHostSame
  <2>2. Input!Found(c.arg) \subseteq Nat
    <3>1. Input!Found(c.arg) \subseteq Input!Searched
      BY DEF Input!Found
    <3>2. 1 .. T - 1 \subseteq Nat
      BY InConstants
    <3> QED
      BY <1>4, <3>1, <3>2, ZenonT(30)
  <2>3. \E e \in Input!Found(c.arg) : \A f \in Input!Found(c.arg) : e <= f
    BY <1>5, <2>2, PartLeast
  <2>4. x.arg \in Input!Found(c.arg) /\ x = Input!Code("short", x.arg, 2)
    BY <2>1, <2>3 DEF Input!Code
  <2>5. x.arg \in Input!Searched /\ m_writetbl[(m_wraddr - x.arg) % T] = c.arg
    BY <2>4 DEF Input!Found
  <2>6. x.op = "short" /\ x.size = 2 /\ x.arg \in 1 .. T - 1
    BY <1>4, <2>4, <2>5 DEF Input!Code
  <2>7. InCode(x) /\ InRefers(c, x)
    BY <1>5, <2>1, <2>4, <2>5, <2>6 DEF InCode, InRefers
  <2>8. line' = Input!DigitsOf(x) /\ x.size \in 1 .. 6
    BY <2>1, <2>6
  <2> QED
    BY <1>3, <1>5, <2>6, <2>7, <2>8 DEF InWrites
<1>6. CASE c.op = "write" /\ Input!Found(c.arg) = {}
  <2>1. PICK x : x = Input!Code("write", c.arg, 6)
    OBVIOUS
  <2>2. /\ line' = Input!DigitsOf(x)
        /\ m_writetbl' = [m_writetbl EXCEPT ![m_wraddr] = c.arg]
        /\ m_wraddr' = (m_wraddr + 1) % T
    BY <1>2, <1>6, <2>1 DEF Input!Send, Input!SendWrite
  <2>3. m_wrloaded' <=> m_wrloaded \/ m_wraddr = T - 1
    <3>1. Input!SendWrite(c.arg)
      BY <1>2, <1>6 DEF Input!Send
    <3> QED
      BY <1>6, <3>1, ZenonT(30) DEF Input!SendWrite
  <2>4. x.op = "write" /\ x.arg = c.arg /\ x.size = 6
    BY <2>1 DEF Input!Code
  <2>5. InCode(x) /\ InSpells(c, x)
    BY <1>1, <1>6, <2>1, <2>2, <2>3, <2>4 DEF InCode, InSpells
  <2> QED
    BY <1>3, <1>6, <2>2, <2>4, <2>5 DEF InWrites
<1>7. CASE c.op # "write"
  <2>1. PICK s \in 1 .. 3 : line' = Input!DigitsOf(Input!Code(Input!Encoded(c), 0, s)) /\ InHostSame
    <3>1. \E s \in CASE c.op = "addr" -> {3} [] c.arg = 8 -> {1} [] OTHER -> {1, 2} :
            line' = Input!DigitsOf(Input!Code(Input!Encoded(c), 0, s)) /\ InHostSame
      BY <1>2, <1>7 DEF Input!Send, InHostSame
    <3>2. (CASE c.op = "addr" -> {3} [] c.arg = 8 -> {1} [] OTHER -> {1, 2}) \subseteq 1 .. 3
      OBVIOUS
    <3> QED
      BY <3>1, <3>2, ZenonT(30)
  <2>2. PICK x : x = Input!Code(Input!Encoded(c), 0, s)
    OBVIOUS
  <2>3. x.op = Input!Encoded(c) /\ x.arg = 0 /\ x.size = s /\ x.op \in {"addr", "read", "eow"}
    BY <1>1, <1>7, <2>2 DEF Input!Code, Input!Encoded
  <2>4. InCode(x) /\ InAsks(c, x)
    BY <1>1, <1>7, <2>1, <2>2, <2>3 DEF InCode, InAsks
  <2> QED
    BY <1>1, <1>3, <1>7, <2>1, <2>2, <2>3, <2>4 DEF InWrites
<1> QED
  BY <1>5, <1>6, <1>7

\* What is on the line after it is said.
LEMMA InSaidLine ==
  ASSUME NEW x, InCode(x), x.size \in 1 .. 6, NEW l,
         l = Input!DigitsOf(x)
  PROVE  l # << >> /\ l[1] = [of |-> x, nth |-> 1] /\ l[1].of = x /\ l[1].nth = 1
<1>1. 1 \in 1 .. x.size
  OBVIOUS
<1> QED
  BY <1>1 DEF Input!DigitsOf

LEMMA InLineKept ==
  ASSUME InInv, InClock PROVE InLine'
<1>1. CASE InSends
  <2>1. PICK c \in {line[1].of}, k \in {line[1].nth} :
           /\ InCode(c) /\ k \in 1 .. c.size
           /\ InReader' /\ InRead' = c /\ InGot' = k
           /\ line' = << >> <=> k = c.size
           /\ line' = [i \in 1 .. c.size - k |-> [of |-> c, nth |-> k + i]]
    BY <1>1, InComes
  <2>2. c.size \in 1 .. 6
    BY <2>1 DEF InCode
  <2>3. ASSUME line' # << >>
        PROVE  /\ line'[1].of = c /\ line'[1].nth = k + 1 /\ k + 1 \in 1 .. c.size /\ (k + 1) - 1 = k
               /\ line' = [i \in 1 .. c.size - (k + 1) + 1 |-> [of |-> c, nth |-> (k + 1) + i - 1]]
    <3>1. k \in 1 .. c.size - 1 /\ 1 \in 1 .. c.size - k /\ c.size - k = c.size - (k + 1) + 1
          /\ k + 1 \in 1 .. c.size /\ (k + 1) - 1 = k
      BY <2>1, <2>2, <2>3
    <3>2. \A i \in 1 .. c.size - k : k + i = (k + 1) + i - 1
      BY <2>1, <2>2
    <3> QED
      BY <2>1, <3>1, <3>2
  <2> QED
    BY <2>1, <2>3 DEF InLine, InCode
<1>2. CASE InReturns \/ InRestarts
  BY <1>2 DEF InReturns, InRestarts, InLine
<1>3. CASE \E c \in Input!Command : InSpeaks(c)
  <2>1. PICK x : /\ InCode(x) /\ x.size \in 1 .. 6
                 /\ line' = Input!DigitsOf(x)
    BY <1>3, InSaid
  <2>2. line'[1].of = x /\ line'[1].nth = 1
    BY <2>1, InSaidLine
  <2>3. 1 \in 1 .. x.size /\ x.size - 1 + 1 = x.size /\ \A i \in 1 .. x.size : 1 + i - 1 = i
    BY <2>1
  <2> QED
    BY <2>1, <2>2, <2>3 DEF InLine, InCode, Input!DigitsOf
<1>4. CASE InIdles
  <2>1. line' = line
    BY <1>4 DEF InIdles
  <2>2. ASSUME line # << >>, line[1].nth > 1 PROVE InReader' /\ InRead' = InRead /\ InGot' = InGot
    <3>1. InReader /\ InGot # InRead.size
      BY <2>2 DEF InInv, InLine, InCode
    <3>2. ~InEnds /\ ~InCompletes /\ ~InGives
      BY <3>1, InApart DEF InEnds, InCompletes, InGives, InReader, InDigit, Input!newline
    <3> QED
      BY <1>4, <3>1, <3>2, InStays DEF InIdles, InPasses, InReading
  <2> QED
    BY <2>1, <2>2 DEF InInv, InLine, InCode
<1> QED
  BY <1>1, <1>2, <1>3, <1>4 DEF InClock

\* After a clock without a character the reader holds what it should, if the
\* line has not gone on with a code.
LEMMA InHeldPasses ==
  ASSUME InInv, InPasses, DOMAIN shiftreg' = 1 .. 6,
         line' = << >> \/ InFresh' => line = << >> \/ InFresh
  PROVE  InHeld'
<1>1. InHeld /\ ~hx_stb' /\ InReading /\ DOMAIN shiftreg = 1 .. 6
  BY DEF InInv, InPasses, InTypes
<1>2. CASE InTakes \/ InRests
  <2>1. /\ InReader' <=> InReader
        /\ InReader => InRead' = InRead /\ InGot' = InGot
        /\ ~InDigit' /\ ~Input!newline' /\ ~cw_stb'
    BY <1>1, <1>2, InStays DEF InTakes, InRests
  <2>2. r_len' \in 0 .. 6 /\ (r_len' = 0 => cw_len' = 0) /\ (r_len' > 0 => InReader /\ cw_len' = InRead.size)
    BY <1>1, <1>2 DEF InHeld, InTakes, InRests, InReader
  <2>3. InReader => InCode(InRead) /\ InGot <= InRead.size
                    /\ (line = << >> \/ InFresh => InGot = InRead.size)
    BY <1>1 DEF InHeld
  <2>4. PICK e : e = InRead' /\ (InReader => e = InRead)
    BY <2>1
  <2>5. \A n \in 1 .. r_len' : shiftreg'[n] = [of |-> e, nth |-> n]
    <3>1. ASSUME NEW n \in 1 .. r_len' PROVE shiftreg'[n] = [of |-> e, nth |-> n]
      <4>1. InReader /\ n \in 1 .. 6
        BY <2>2, <3>1
      <4>2. CASE InRests
        BY <1>1, <2>4, <3>1, <4>1, <4>2 DEF InRests, InHeld
      <4>3. CASE InTakes /\ n = r_len + 1
        BY <1>1, <2>4, <3>1, <4>1, <4>3 DEF InTakes, InHeld
      <4>4. CASE InTakes /\ n # r_len + 1
        <5>1. n \in 1 .. r_len /\ shiftreg'[n] = shiftreg[n]
          BY <1>1, <3>1, <4>1, <4>4 DEF InTakes, InHeld
        <5> QED
          BY <1>1, <2>4, <4>1, <5>1 DEF InHeld
      <4> QED
        BY <1>2, <4>2, <4>3, <4>4
    <3> QED
      BY <3>1
  <2>6. InReader' => /\ InCode(e) /\ InGot' <= e.size
                     /\ line' = << >> \/ InFresh' => InGot' = e.size
    BY <2>1, <2>3, <2>4
  <2>7. r_len' > 0 => cw_len' = e.size
    BY <2>2, <2>4
  <2> QED
    BY <2>1, <2>2, <2>4, <2>5, <2>6, <2>7 DEF InHeld, InCode
<1>3. CASE InEnds \/ InCompletes \/ InGives
  <2>1. ~InReader' /\ ~InDigit' /\ ~Input!newline' /\ r_len' = 0 /\ cw_len' = 0
    BY <1>1, <1>3, InLeaves
  <2>2. cw_stb' => \E w : w = cw_word' /\ (w = Input!EOW \/ InCode(w))
    <3>1. InCompletes => InCode(InRead)
      BY <1>1, InApart DEF InCompletes, InHeld
    <3> QED
      BY <1>3, <3>1 DEF InEnds, InCompletes, InGives
  <2> QED
    BY <2>1, <2>2 DEF InHeld, InCode
<1> QED
  BY <1>1, <1>2, <1>3 DEF InReading

LEMMA InHeldKept ==
  ASSUME InInv, InClock, InTypes' PROVE InHeld'
<1>1. CASE InSends
  <2>1. PICK c \in {line[1].of}, k \in {line[1].nth} :
           /\ InCode(c) /\ k \in 1 .. c.size
           /\ hx_digit' = [of |-> c, nth |-> k] /\ r_len' = k - 1 /\ r_len = k - 1 /\ cw_len' = cw_len
           /\ InDigit' /\ InReader' /\ InRead' = c /\ InGot' = k
           /\ k > 1 => InReader /\ InRead = c
           /\ line' = << >> <=> k = c.size
           /\ line' = [i \in 1 .. c.size - k |-> [of |-> c, nth |-> k + i]]
           /\ shiftreg' = shiftreg
    BY <1>1, InComes
  <2>2. c.size \in 1 .. 6 /\ k \in 1 .. 6 /\ k <= c.size
    BY <2>1 DEF InCode
  <2>3. ~InFresh'
    <3>1. ASSUME line' # << >> PROVE line'[1].nth # 1
      <4>1. 1 \in 1 .. c.size - k /\ k + 1 # 1
        BY <2>1, <2>2, <3>1
      <4> QED
        BY <2>1, <4>1
    <3> QED
      BY <3>1 DEF InFresh
  <2>4. ~cw_stb' /\ ~Input!newline'
    BY <1>1, <2>1 DEF InSends, InRests, InDigit, Input!newline
  <2>5. InHeld
    BY DEF InInv
  <2>6. r_len' \in 0 .. 6 /\ (r_len' = 0 => cw_len' = 0) /\ (r_len' > 0 => cw_len' = c.size)
    BY <2>1, <2>2, <2>5 DEF InHeld
  <2>7. \A n \in 1 .. r_len' : shiftreg'[n] = [of |-> c, nth |-> n]
    BY <2>1, <2>2, <2>5 DEF InHeld
  <2>8. hx_digit' = [of |-> c, nth |-> r_len' + 1]
    BY <2>1, <2>2
  <2>9. InCode(c) /\ InGot' <= c.size /\ (line' = << >> \/ InFresh' => InGot' = c.size)
    BY <2>1, <2>2, <2>3
  <2> QED
    BY <2>1, <2>4, <2>6, <2>7, <2>8, <2>9 DEF InHeld, InCode
<1>2. CASE InReturns
  <2>1. ~InReader /\ r_len = 0 /\ cw_len = 0
    BY <1>2, InEmpty DEF InReturns
  <2>2. r_len' = 0 /\ cw_len' = 0 /\ ~cw_stb' /\ ~InDigit'
    BY <1>2, <2>1 DEF InReturns, InRests, InDigit
  <2> QED
    BY <2>2 DEF InHeld, InReader, InCode
<1>3. CASE InIdles
  <2>1. line' = << >> \/ InFresh' => line = << >> \/ InFresh
    BY <1>3 DEF InIdles, InFresh
  <2> QED
    BY <1>3, <2>1, InHeldPasses DEF InIdles, InTypes
<1>4. CASE InRestarts \/ \E c \in Input!Command : InSpeaks(c)
  BY <1>4, InHeldPasses DEF InRestarts, InSpeaks, InTypes
<1> QED
  BY <1>1, <1>2, <1>3, <1>4 DEF InClock

LEMMA InBurstKept ==
  ASSUME InInv, InClock, InTypes' PROVE InBurst'
<1>0. InBurst /\ bursting \in BOOLEAN /\ bursting' \in BOOLEAN
  BY DEF InInv, InTypes
<1>1. CASE InSends
  <2>1. PICK c \in {line[1].of}, k \in {line[1].nth} :
           /\ InCode(c) /\ k \in 1 .. c.size
           /\ InReader' /\ InRead' = c
           /\ line' = << >> <=> k = c.size
           /\ line' = [i \in 1 .. c.size - k |-> [of |-> c, nth |-> k + i]]
    BY <1>1, InComes
  <2>2. c.size \in 1 .. 6
    BY <2>1 DEF InCode
  <2>3. line' # << >> => line'[1].of = c
    <3>1. ASSUME line' # << >> PROVE line'[1].of = c
      <4>1. 1 \in 1 .. c.size - k
        BY <2>1, <2>2, <3>1
      <4> QED
        BY <2>1, <4>1
    <3> QED
      BY <3>1
  <2>4. bursting' = bursting /\ (bursting <=> InWrites(c.op))
    BY <1>0, <1>1, <2>1 DEF InBurst, InSends
  <2> QED
    BY <1>0, <2>1, <2>3, <2>4 DEF InBurst, InWrites
<1>2. CASE InReturns
  <2>1. ~bursting' /\ line' = << >> /\ ~InReader'
    BY <1>2, InEmpty DEF InReturns, InRests, InReader, InDigit
  <2>2. Input!newline'
    BY <1>2 DEF InReturns, Input!newline
  <2> QED
    BY <2>1, <2>2 DEF InBurst
<1>3. CASE \E c \in Input!Command : InSpeaks(c)
  <2>0. PICK c \in Input!Command : InSpeaks(c)
    BY <1>3
  <2>1. PICK x :
          /\ InCode(x) /\ x.size \in 1 .. 6 /\ line' = Input!DigitsOf(x)
          /\ (InWrites(x.op) <=> c.op = "write") /\ (bursting' <=> c.op = "write")
    BY <2>0, InSaid
  <2>2. line' # << >> /\ line'[1].of = x
    BY <2>1, InSaidLine
  <2> QED
    BY <2>1, <2>2 DEF InBurst, InWrites
<1>4. CASE InIdles \/ InRestarts
  <2>1. line' = line /\ bursting' = bursting /\ InPasses /\ InReading /\ ~hx_stb'
    BY <1>4 DEF InIdles, InRestarts, InPasses
  <2>2. CASE line # << >>
    BY <1>0, <2>1, <2>2 DEF InBurst, InWrites
  <2>3. CASE line = << >> /\ (InTakes \/ InRests)
    <3>1. /\ InReader' <=> InReader
          /\ InReader => InRead' = InRead
          /\ ~Input!newline' /\ ~cw_stb' /\ ~cw_stb /\ lastcw' = lastcw
      BY <2>1, <2>3, InStays DEF InTakes, InRests
    <3>2. Input!newline => InReader
      BY <2>3 DEF InTakes, InRests, InDigit, Input!newline
    <3> QED
      BY <1>0, <2>1, <2>3, <3>1, <3>2 DEF InBurst, InWrites
  <2>4. CASE line = << >> /\ (InEnds \/ InCompletes \/ InGives)
    <3>1. ~InReader' /\ ~Input!newline'
      BY <2>1, <2>4, InLeaves
    <3>2. CASE InEnds
      <4>1. ~InReader /\ Input!newline /\ (cw_stb' <=> lastcw = "write") /\ lastcw' = lastcw
            /\ (cw_stb' => cw_word'.op = "eow")
        BY <3>2 DEF InEnds, InReader, InDigit, Input!newline, Input!EOW, Input!Code
      <4> QED
        BY <1>0, <2>1, <2>4, <3>1, <4>1 DEF InBurst, InWrites
    <3>3. CASE InCompletes
      <4>1. InReader /\ cw_stb' /\ cw_word' = InRead
        BY <3>3 DEF InCompletes, InReader
      <4> QED
        BY <1>0, <2>1, <2>4, <3>1, <4>1 DEF InBurst, InWrites
    <3>4. CASE InGives
      <4>1. /\ ~InReader /\ ~Input!newline /\ cw_stb /\ ~cw_stb'
            /\ lastcw' = (IF cw_word.op = "short" THEN "write" ELSE cw_word.op)
        BY <3>4 DEF InGives, InReader, InDigit, Input!newline
      <4> QED
        BY <1>0, <2>1, <2>4, <3>1, <4>1 DEF InBurst, InWrites
    <3> QED
      BY <2>4, <3>2, <3>3, <3>4
  <2> QED
    BY <2>1, <2>2, <2>3, <2>4 DEF InReading
<1> QED
  BY <1>1, <1>2, <1>3, <1>4 DEF InClock

-----------------------------------------------------------------------------
\* A table a word is added to, counted back from its end.
LEMMA PartStep ==
  ASSUME NEW m, m \in Nat \ {0, 1}, NEW a \in 0 .. m - 1, NEW k \in 1 .. m - 1
  PROVE  \E i \in 0 .. m - 1, j \in 0 .. m - 1 :
           /\ i = (a - (k - 1)) % m /\ j = (a - k) % m
           /\ i = (((a + 1) % m) - k) % m /\ j # a /\ (i = a <=> k = 1)
<1>1. m \in Nat \ {0} /\ k \in 0 .. m /\ k - 1 \in 0 .. m
  OBVIOUS
<1>2. PICK a1 \in 0 .. m - 1 : a1 = (a + 1) % m /\ a1 = (IF a = m - 1 THEN 0 ELSE a + 1)
  BY <1>1, PartNext
<1>3. (a1 - k) % m = (IF k <= a1 THEN a1 - k ELSE a1 - k + m)
  BY <1>1, PartBack
<1>4. PICK x \in 0 .. m - 1 : x = (a - (k - 1)) % m
        /\ x = (IF k - 1 <= a THEN a - (k - 1) ELSE a - (k - 1) + m)
  BY <1>1, PartBack
<1>5. PICK y \in 0 .. m - 1 : y = (a - k) % m /\ y = (IF k <= a THEN a - k ELSE a - k + m)
  BY <1>1, PartBack
<1>6. (IF k <= a1 THEN a1 - k ELSE a1 - k + m) = x /\ y # a /\ (x = a <=> k = 1)
  BY <1>2, <1>4, <1>5
<1> QED
  BY <1>2, <1>3, <1>4, <1>5, <1>6

LEMMA InPlaces ==
  ASSUME NEW a \in 0 .. T - 1, NEW k \in 1 .. T - 1
  PROVE  \E i \in 0 .. T - 1, j \in 0 .. T - 1 :
           /\ i = (a - (k - 1)) % T /\ j = (a - k) % T
           /\ i = (((a + 1) % T) - k) % T /\ j # a /\ (i = a <=> k = 1)
BY TAssumption, PartStep

\* The board's table, of which what cw_word adds or leaves is the news.
LEMMA InHasStep ==
  ASSUME InInv, Input!Decompress
  PROVE  /\ wr_addr' \in InSlot /\ DOMAIN in_tbl' = InSlot
         /\ ~cw_stb => in_tbl' = in_tbl /\ wr_addr' = wr_addr
         /\ \A k \in 1 .. T - 1 :
              InHas(k)' = InGets(IF cw_stb THEN <<cw_word>> ELSE << >>, InHas(k - 1), k, InHas(k))
<1>1. T \in Nat \ {0, 1} /\ wr_addr \in 0 .. T - 1 /\ DOMAIN in_tbl = InSlot
  BY InConstants DEF InInv, InTables, InSlot
<1>2. /\ wr_addr' = (IF cw_stb /\ cw_word.op = "write" THEN (wr_addr + 1) % T ELSE wr_addr)
      /\ in_tbl' = (IF cw_stb THEN [in_tbl EXCEPT ![wr_addr] = Input!DataOf(cw_word)] ELSE in_tbl)
  BY DEF Input!Decompress, Input!WrAddr
<1>3. (wr_addr + 1) % T \in 0 .. T - 1
  BY <1>1, PartNext
<1>4. wr_addr' \in InSlot /\ DOMAIN in_tbl' = InSlot /\ (~cw_stb => in_tbl' = in_tbl /\ wr_addr' = wr_addr)
  BY <1>1, <1>2, <1>3 DEF InSlot
<1>5. ASSUME NEW k \in 1 .. T - 1
      PROVE  InHas(k)' = InGets(IF cw_stb THEN <<cw_word>> ELSE << >>, InHas(k - 1), k, InHas(k))
  <2>0. PICK a \in 0 .. T - 1 : a = wr_addr
    BY <1>1
  <2>1. PICK i \in 0 .. T - 1, j \in 0 .. T - 1 :
          /\ i = (wr_addr - (k - 1)) % T /\ j = (wr_addr - k) % T
          /\ i = (((wr_addr + 1) % T) - k) % T /\ j # wr_addr /\ (i = wr_addr <=> k = 1)
    BY <2>0, InPlaces
  <2>2. InHas(k) = in_tbl[j] /\ InHas(k - 1) = in_tbl[i] /\ InHas(k)' = in_tbl'[(wr_addr' - k) % T]
    BY <2>1 DEF InHas
  <2>3. CASE cw_stb /\ cw_word.op = "write"
    <3>1. <<cw_word>> # << >> /\ <<cw_word>>[1] = cw_word
      OBVIOUS
    <3>2. InHas(k)' = in_tbl'[i] /\ Input!DataOf(cw_word) = cw_word.arg
      BY <1>2, <2>1, <2>2, <2>3 DEF Input!DataOf
    <3>3. in_tbl'[i] = (IF k = 1 THEN cw_word.arg ELSE in_tbl[i])
      BY <1>1, <1>2, <2>1, <2>3, <3>2 DEF InSlot
    <3> QED
      BY <2>2, <2>3, <3>1, <3>2, <3>3 DEF InGets
  <2>4. CASE ~(cw_stb /\ cw_word.op = "write")
    <3>1. <<cw_word>>[1] = cw_word
      OBVIOUS
    <3>2. InHas(k)' = in_tbl'[j] /\ in_tbl'[j] = in_tbl[j]
      BY <1>1, <1>2, <2>1, <2>2, <2>4 DEF InSlot
    <3> QED
      BY <2>2, <2>4, <3>1, <3>2 DEF InGets
  <2> QED
    BY <2>3, <2>4
<1> QED
  BY <1>4, <1>5

LEMMA InFrontPasses ==
  ASSUME InInv, InPasses
  PROVE  /\ cw_stb => InFront = <<cw_word>> /\ InFront' = << >>
         /\ ~cw_stb => InFront' = InFront
<1>1. ~hx_stb' /\ InReading /\ ~Input!EndsBurst'
  BY DEF InPasses, Input!EndsBurst, Input!newline
<1>2. CASE InTakes \/ InRests
  BY <1>1, <1>2, InStays DEF InTakes, InRests, InFront, Input!EndsBurst, Input!newline, InDigit, InReader
<1>3. CASE InEnds
  <2>1. ~InReader /\ ~InReader' /\ ~cw_stb /\ (Input!EndsBurst <=> lastcw = "write")
    BY <1>1, <1>3, InLeaves DEF InEnds, InReader, InDigit, Input!newline, Input!EndsBurst
  <2> QED
    BY <1>1, <1>3, <2>1 DEF InEnds, InFront
<1>4. CASE InCompletes
  BY <1>4 DEF InCompletes, InFront, InReader
<1>5. CASE InGives
  <2>1. ~InReader' /\ ~cw_stb'
    BY <1>1, <1>5, InLeaves DEF InGives
  <2> QED
    BY <1>1, <1>5, <2>1 DEF InGives, InFront
<1> QED
  BY <1>1, <1>2, <1>3, <1>4, <1>5 DEF InReading

LEMMA InFrontSends ==
  ASSUME InInv, InSends
  PROVE  /\ ~cw_stb /\ InLast' = << >>
         /\ InFresh => InFront = << >> /\ InFront' = InLast
         /\ ~InFresh => InFront' = InFront /\ InLast = << >>
<1>1. PICK c \in {line[1].of}, k \in {line[1].nth} :
           /\ InCode(c) /\ k \in 1 .. c.size
           /\ InReader' /\ InRead' = c
           /\ k > 1 => InReader /\ InRead = c
           /\ line' = [i \in 1 .. c.size - k |-> [of |-> c, nth |-> k + i]]
           /\ line' = << >> <=> k = c.size
  BY InComes
<1>2. ~cw_stb /\ ~cw_stb' /\ ~hx_stb /\ line # << >> /\ wait = 0
  BY DEF InSends, InRests
<1>3. InFront' = <<c>>
  BY <1>1, <1>2 DEF InFront
<1>4. InLast' = << >>
  <2>1. ASSUME line' # << >> PROVE line'[1].nth # 1
    <3>1. c.size \in 1 .. 6
      BY <1>1 DEF InCode
    <3>2. 1 \in 1 .. c.size - k /\ k + 1 # 1
      BY <1>1, <2>1, <3>1
    <3> QED
      BY <1>1, <3>2
  <2> QED
    BY <2>1 DEF InLast, InFresh
<1>5. CASE InFresh
  <2>1. ~InReader
    BY <1>2, <1>5, InEmpty
  <2> QED
    BY <1>1, <1>2, <1>3, <1>4, <1>5, <2>1 DEF InFront, InLast, Input!EndsBurst, Input!newline
<1>6. CASE ~InFresh
  <2>1. k > 1
    <3>1. c.size \in 1 .. 6
      BY <1>1 DEF InCode
    <3> QED
      BY <1>1, <1>2, <1>6, <3>1 DEF InFresh
  <2> QED
    BY <1>1, <1>2, <1>3, <1>4, <1>6, <2>1 DEF InFront, InLast
<1> QED
  BY <1>5, <1>6

LEMMA InFrontReturns ==
  ASSUME InInv, InReturns
  PROVE  /\ ~cw_stb /\ InFront = << >> /\ InLast = << >> /\ InLast' = << >>
         /\ InFront' = (IF bursting THEN <<Input!EOW>> ELSE << >>)
<1>1. ~InReader /\ ~cw_stb /\ ~hx_stb /\ line = << >> /\ line' = << >>
  BY InEmpty DEF InReturns, InRests
<1>2. bursting <=> lastcw = "write"
  BY <1>1 DEF InInv, InBurst, Input!newline
<1>3. ~InReader' /\ ~cw_stb' /\ (Input!EndsBurst' <=> lastcw = "write")
  BY <1>1 DEF InReturns, InRests, InReader, InDigit, Input!EndsBurst, Input!newline
<1> QED
  BY <1>1, <1>2, <1>3 DEF InFront, InLast, InFresh, Input!EndsBurst, Input!newline

\* What the codes on the way will have put into the board's table.
LEMMA InGetsFirst ==
  ASSUME NEW s, NEW x, NEW y, NEW k, NEW v, k = 1 \/ x = v
  PROVE  InGets(s, x, k, y) = InGets(s, v, k, y)
BY DEF InGets

LEMMA InGetsNone ==
  ASSUME NEW x, NEW y, NEW k
  PROVE  InGets(<< >>, x, k, y) = y /\ InGets(<<Input!EOW>>, x, k, y) = y
<1>1. <<Input!EOW>>[1] = Input!EOW /\ Input!EOW.op = "eow"
  BY DEF Input!EOW, Input!Code
<1> QED
  BY <1>1 DEF InGets

LEMMA InWillPasses ==
  ASSUME InInv, InPasses, Input!Decompress, NEW k \in 1 .. T - 1
  PROVE  InWill(k)' = InWill(k)
<1>1. InWill(k) = InGets(InFront, InHas(k - 1), k, InHas(k))
      /\ InWill(k)' = InGets(InFront', InHas(k - 1)', k, InHas(k)')
  BY DEF InWill
<1>2. CASE cw_stb
  <2>1. InHas(k)' = InGets(<<cw_word>>, InHas(k - 1), k, InHas(k))
    BY <1>2, InHasStep
  <2> QED
    BY <1>1, <1>2, <2>1, InFrontPasses, InGetsNone
<1>3. CASE ~cw_stb
  <2>1. InHas(k - 1)' = InHas(k - 1) /\ InHas(k)' = InHas(k)
    BY <1>3, InHasStep DEF InHas
  <2> QED
    BY <1>1, <1>3, <2>1, InFrontPasses
<1> QED
  BY <1>2, <1>3

LEMMA InWillComes ==
  ASSUME InInv, InSends \/ InReturns, Input!Decompress, NEW k \in 1 .. T - 1
  PROVE  InWill(k)' = InAtLast(k) /\ InAtLast(k)' = InAtLast(k)
<1>1. ~cw_stb
  BY InFrontSends, InFrontReturns
<1>2. InHas(k - 1)' = InHas(k - 1) /\ InHas(k)' = InHas(k)
  BY <1>1, InHasStep DEF InHas
<1>3. InWill(k) = InGets(InFront, InHas(k - 1), k, InHas(k))
      /\ InWill(k)' = InGets(InFront', InHas(k - 1)', k, InHas(k)')
      /\ InWill(k - 1) = InGets(InFront, InHas((k - 1) - 1), k - 1, InHas(k - 1))
  BY DEF InWill
<1>4. InAtLast(k) = InGets(InLast, InWill(k - 1), k, InWill(k))
      /\ InAtLast(k)' = InGets(InLast', InWill(k - 1)', k, InWill(k)')
  BY DEF InAtLast
<1>5. InLast' = << >>
  BY InFrontSends, InFrontReturns
<1>6. CASE InSends /\ InFresh
  <2>1. InFront = << >> /\ InFront' = InLast
    BY <1>6, InFrontSends
  <2>2. InWill(k) = InHas(k) /\ InWill(k - 1) = InHas(k - 1)
    BY <1>3, <2>1, InGetsNone
  <2> QED
    BY <1>2, <1>3, <1>4, <1>5, <2>1, <2>2, InGetsNone
<1>7. CASE InSends /\ ~InFresh
  <2>1. InFront' = InFront /\ InLast = << >>
    BY <1>7, InFrontSends
  <2> QED
    BY <1>2, <1>3, <1>4, <1>5, <2>1, InGetsNone
<1>8. CASE InReturns
  <2>1. InFront = << >> /\ InLast = << >> /\ (InFront' = << >> \/ InFront' = <<Input!EOW>>)
    BY <1>8, InFrontReturns
  <2>2. InWill(k) = InHas(k) /\ InWill(k)' = InHas(k)
    BY <1>2, <1>3, <2>1, InGetsNone
  <2> QED
    BY <1>4, <1>5, <2>1, <2>2, InGetsNone
<1> QED
  BY <1>6, <1>7, <1>8

LEMMA InTablesKept ==
  ASSUME InInv, InClock, InTypes', Input!Decompress PROVE InTables'
<1>1. T \in Nat \ {0, 1} /\ m_wraddr \in 0 .. T - 1 /\ DOMAIN m_writetbl = 0 .. T - 1
  BY InConstants DEF InInv, InTables, InSlot
<1>2. wr_addr' \in InSlot /\ DOMAIN in_tbl' = InSlot
  BY InHasStep
<1>3. \A k \in 1 .. T - 1 : k \in Input!Searched => m_writetbl[(m_wraddr - k) % T] = InAtLast(k)
  BY DEF InInv, InTables
<1>4. CASE InSends \/ InReturns
  <2>1. InHostSame
    BY <1>4 DEF InSends, InReturns
  <2>2. \A k \in 1 .. T - 1 : InAtLast(k)' = InAtLast(k)
    BY <1>4, InWillComes
  <2> QED
    BY <1>1, <1>2, <1>3, <2>1, <2>2 DEF InTables, InSlot, InHostSame, Input!Searched
<1>5. CASE InIdles
  <2>1. InHostSame /\ InPasses /\ InLast' = InLast
    BY <1>5 DEF InIdles, InLast, InFresh
  <2>2. ASSUME NEW k \in 1 .. T - 1 PROVE InAtLast(k)' = InAtLast(k)
    <3>1. InWill(k)' = InWill(k)
      BY <2>1, InWillPasses
    <3>2. k = 1 \/ InWill(k - 1)' = InWill(k - 1)
      <4>1. CASE k # 1
        <5>1. PICK j \in 1 .. T - 1 : j = k - 1
          BY <1>1, <4>1
        <5>2. InWill(j)' = InWill(j)
          BY <2>1, InWillPasses
        <5> QED
          BY <5>1, <5>2
      <4> QED
        BY <4>1
    <3>3. InAtLast(k) = InGets(InLast, InWill(k - 1), k, InWill(k))
          /\ InAtLast(k)' = InGets(InLast', InWill(k - 1)', k, InWill(k)')
      BY DEF InAtLast
    <3> QED
      BY <2>1, <3>1, <3>2, <3>3, InGetsFirst
  <2> QED
    BY <1>1, <1>2, <1>3, <2>1, <2>2 DEF InTables, InSlot, InHostSame, Input!Searched
<1>6. CASE InRestarts
  <2>1. m_wraddr' = 0 /\ ~m_wrloaded' /\ DOMAIN m_writetbl' = InSlot /\ 0 \in InSlot
    BY <1>1, <1>6 DEF InRestarts, InSlot
  <2>2. \A k \in 1 .. T - 1 : ~(k \in Input!Searched')
    BY <1>1, <2>1 DEF Input!Searched
  <2> QED
    BY <1>2, <2>1, <2>2 DEF InTables
<1>7. CASE \E c \in Input!Command : InSpeaks(c)
  <2>0. PICK c \in Input!Command : InSpeaks(c)
    BY <1>7
  <2>1. PICK x :
          /\ InSpeaks(c) /\ InCode(x) /\ x.size \in 1 .. 6 /\ line' = Input!DigitsOf(x)
          /\ (InWrites(x.op) <=> c.op = "write")
          /\ InRefers(c, x) \/ InSpells(c, x) \/ InAsks(c, x)
    BY <2>0, InSaid
  <2>2. InPasses /\ line = << >> /\ InLast = << >>
    BY <2>1 DEF InSpeaks, InLast, InFresh
  <2>3. InLast' = <<x>> /\ <<x>> # << >> /\ <<x>>[1] = x
    BY <2>1, InSaidLine DEF InLast, InFresh
  <2>4. \A k \in 1 .. T - 1 : InAtLast(k) = InWill(k) /\ InWill(k)' = InWill(k)
    BY <2>2, InWillPasses, InGetsNone DEF InAtLast
  <2>5. \A k \in 1 .. T - 1 : InAtLast(k)' = InGets(<<x>>, InWill(k - 1)', k, InWill(k))
    BY <2>3, <2>4 DEF InAtLast
  <2>6. CASE InRefers(c, x) \/ InAsks(c, x)
    <3>1. InHostSame /\ x.op # "write"
      BY <2>1, <2>6 DEF InRefers, InAsks, InWrites, Input!Code
    <3>2. \A k \in 1 .. T - 1 : InAtLast(k)' = InAtLast(k)
      BY <2>3, <2>4, <2>5, <3>1 DEF InGets
    <3> QED
      BY <1>1, <1>2, <1>3, <3>1, <3>2 DEF InTables, InSlot, InHostSame, Input!Searched
  <2>7. CASE InSpells(c, x)
    <3>1. x.op = "write" /\ x.arg = c.arg
      BY <2>7 DEF InSpells, Input!Code
    <3>2. /\ m_writetbl' = [m_writetbl EXCEPT ![m_wraddr] = c.arg]
          /\ m_wraddr' = (m_wraddr + 1) % T
          /\ m_wrloaded' <=> m_wrloaded \/ m_wraddr = T - 1
      BY <2>7 DEF InSpells
    <3>3. m_wraddr' = (IF m_wraddr = T - 1 THEN 0 ELSE m_wraddr + 1)
      BY <1>1, <3>2, PartNext
    <3>4. ASSUME NEW k \in 1 .. T - 1, k \in Input!Searched'
          PROVE  m_writetbl'[(m_wraddr' - k) % T] = InAtLast(k)'
      <4>0. PICK a \in 0 .. T - 1 : a = m_wraddr
        BY <1>1
      <4>1. PICK i \in 0 .. T - 1 : /\ i = (a - (k - 1)) % T /\ i = (((a + 1) % T) - k) % T
                                    /\ i = a <=> k = 1
        BY InPlaces
      <4>2. (m_wraddr' - k) % T = i
        BY <3>2, <4>0, <4>1
      <4>3. CASE k = 1
        <5>1. m_writetbl'[i] = c.arg
          BY <1>1, <3>2, <4>0, <4>1, <4>3
        <5>2. InAtLast(k)' = c.arg
          BY <2>3, <2>5, <3>1, <4>3 DEF InGets
        <5> QED
          BY <4>2, <5>1, <5>2
      <4>4. CASE k # 1
        <5>1. PICK j \in 1 .. T - 1 : j = k - 1
          BY <1>1, <4>4
        <5>2. j \in Input!Searched
          BY <1>1, <3>2, <3>3, <3>4, <4>4, <5>1 DEF Input!Searched
        <5>3. m_writetbl[(m_wraddr - j) % T] = InAtLast(j) /\ InAtLast(j) = InWill(j) /\ InWill(j)' = InWill(j)
          BY <1>3, <2>4, <5>2
        <5>4. m_writetbl'[i] = m_writetbl[i]
          BY <1>1, <3>2, <4>0, <4>1, <4>4
        <5>5. InAtLast(k)' = InWill(j)'
          BY <2>3, <2>5, <3>1, <4>4, <5>1 DEF InGets
        <5> QED
          BY <4>0, <4>1, <4>2, <5>1, <5>3, <5>4, <5>5
      <4> QED
        BY <4>3, <4>4
    <3>5. m_wraddr' \in InSlot /\ DOMAIN m_writetbl' = InSlot
      BY <1>1, <3>2, <3>3 DEF InSlot
    <3> QED
      BY <1>2, <3>4, <3>5 DEF InTables
  <2> QED
    BY <2>1, <2>6, <2>7
<1> QED
  BY <1>4, <1>5, <1>6, <1>7 DEF InClock

-----------------------------------------------------------------------------
LEMMA InMeansSame ==
  ASSUME NEW c, NEW v, NEW w, c.op = "short" => v = w PROVE InMeans(c, v) = InMeans(c, w)
BY DEF InMeans

InTaken == IF cw_stb THEN <<InMeans(cw_word, InHas(cw_word.arg))>> ELSE << >>

\* What is read from the table on the way is what stood there when it was looked up.
LEMMA InMiddleStep ==
  ASSUME InInv, Input!Decompress
  PROVE  \/ InOut' = InMiddle /\ InMiddle' = InTaken
         \/ InOut' = << >> /\ InMiddle' = InMiddle /\ InTaken = << >>
         \/ InOut' = << >> /\ InMiddle = << >> /\ InMiddle' = InTaken
<1>1. /\ in_stb' = <<cw_stb, in_stb[1], in_stb[2]>> /\ o_stb' = in_stb[3]
      /\ r_word' = (IF cw_stb THEN cw_word ELSE r_word)
      /\ cmd_addr' = (IF r_word.op = "short" THEN (wr_addr - r_word.arg) % T ELSE wr_addr)
      /\ in_cword' = in_tbl[cmd_addr]
      /\ o_word' = InMeans(r_word, in_cword)
  BY DEF Input!Decompress, InMeans
<1>2. in_stb'[1] = cw_stb /\ in_stb'[2] = in_stb[1] /\ in_stb'[3] = in_stb[2]
  BY <1>1
<1>3. InTimes /\ (~cw_stb => in_tbl' = in_tbl /\ wr_addr' = wr_addr)
  BY InHasStep DEF InInv
<1>4. CASE cw_stb
  <2>1. ~in_stb[1] /\ ~in_stb[2]
    BY <1>3, <1>4 DEF InTimes
  <2>2. InMeans(cw_word, in_tbl'[(wr_addr' - cw_word.arg) % T]) = InMeans(cw_word, InHas(cw_word.arg))
    <3>1. CASE cw_word.op = "short"
      <4>1. PICK n \in 1 .. T - 1 : n = cw_word.arg
        BY <1>4, <3>1 DEF InInv, InHeld, InCode, Input!EOW, Input!Code
      <4>2. InHas(n)' = InGets(<<cw_word>>, InHas(n - 1), n, InHas(n))
        BY <1>4, InHasStep
      <4>3. <<cw_word>>[1].op # "write"
        BY <3>1
      <4>4. InHas(n)' = InHas(n)
        BY <4>2, <4>3 DEF InGets
      <4> QED
        BY <4>1, <4>4 DEF InHas
    <3>2. CASE cw_word.op # "short"
      BY <3>2 DEF InMeans
    <3> QED
      BY <3>1, <3>2
  <2>3. InMiddle' = InTaken
    <3>1. InMiddle' = <<InMeans(r_word', in_tbl'[(wr_addr' - r_word'.arg) % T])>>
      BY <1>2, <1>4 DEF InMiddle, InHas, InMeans
    <3>2. r_word' = cw_word
      BY <1>1, <1>4
    <3> QED
      BY <1>4, <2>2, <3>1, <3>2 DEF InTaken, InHas
  <2> QED
    BY <1>1, <2>1, <2>3 DEF InOut, InMiddle
<1>5. CASE ~cw_stb
  <2>1. InTaken = << >> /\ r_word' = r_word /\ in_tbl' = in_tbl /\ wr_addr' = wr_addr
    BY <1>1, <1>3, <1>5 DEF InTaken
  <2>2. CASE in_stb[1]
    <3>1. ~in_stb[2] /\ ~in_stb[3]
      BY <1>3, <2>2 DEF InTimes
    <3>2. InMiddle' = <<InMeans(r_word, in_tbl[cmd_addr'])>> /\ InOut' = << >>
      BY <1>1, <1>2, <1>5, <2>1, <2>2, <3>1 DEF InMiddle, InOut, InMeans
    <3>3. InMeans(r_word, in_tbl[cmd_addr']) = InMeans(r_word, InHas(r_word.arg))
      BY <1>1 DEF InMeans, InHas
    <3> QED
      BY <2>1, <2>2, <3>2, <3>3 DEF InMiddle
  <2>3. CASE in_stb[2]
    <3>1. ~in_stb[1] /\ ~in_stb[3]
      BY <1>3, <2>3 DEF InTimes
    <3>2. InMiddle' = <<InMeans(r_word, in_tbl[cmd_addr])>> /\ InOut' = << >>
      BY <1>1, <1>2, <1>5, <2>1, <2>3, <3>1 DEF InMiddle, InOut, InMeans
    <3> QED
      BY <2>1, <2>3, <3>1, <3>2 DEF InMiddle
  <2>4. CASE ~in_stb[1] /\ ~in_stb[2]
    <3>1. InMiddle' = << >>
      BY <1>2, <1>5, <2>4 DEF InMiddle
    <3> QED
      BY <1>1, <2>1, <2>4, <3>1 DEF InMiddle, InOut
  <2> QED
    BY <2>2, <2>3, <2>4
<1> QED
  BY <1>4, <1>5

\* What the host sends in this clock.
InNewDue(e) == InCame' = InLeft \o e

\* How the codes move up in a clock, e being what the host sends.
InMoves(e) ==
  \/ InNext = InTaken /\ InNext' = << >> /\ InFinal = << >> /\ InFinal' = e
  \/ InNext = InTaken /\ InNext' = << >> /\ InFinal' = InFinal /\ e = << >>
  \/ InTaken = << >> /\ InNext' = InNext /\ InFinal = << >> /\ InFinal' = e
  \/ InTaken = << >> /\ InNext' = InNext /\ InFinal' = InFinal /\ e = << >>
  \/ InTaken = << >> /\ InNext = << >> /\ InNext' = InFinal /\ InFinal' = << >> /\ e = << >>
  \/ InTaken = << >> /\ InNext = << >> /\ InFinal = << >> /\ InNext' = e /\ InFinal' = << >>

LEMMA InNextPasses ==
  ASSUME InInv, InPasses, Input!Decompress
  PROVE  \/ InNext = InTaken /\ InNext' = << >>
         \/ InTaken = << >> /\ InNext' = InNext
<1>1. CASE cw_stb
  <2>1. InFront = <<cw_word>> /\ InFront' = << >> /\ <<cw_word>> # << >> /\ <<cw_word>>[1] = cw_word
    BY <1>1, InFrontPasses
  <2> QED
    BY <1>1, <2>1 DEF InNext, InTaken
<1>2. CASE ~cw_stb
  <2>1. InFront' = InFront /\ in_tbl' = in_tbl /\ wr_addr' = wr_addr
    BY <1>2, InFrontPasses, InHasStep
  <2> QED
    BY <1>2, <2>1 DEF InNext, InTaken, InHas, InMeans
<1> QED
  BY <1>1, <1>2

LEMMA InFinalIdles ==
  ASSUME InInv, InPasses, Input!Decompress, line' = line PROVE InFinal' = InFinal
<1>1. InLast' = InLast
  BY DEF InLast, InFresh
<1>2. ASSUME NEW c, InLast # << >>, c = InLast[1]
      PROVE  InMeans(c, InWill(c.arg)') = InMeans(c, InWill(c.arg))
  <2>1. InCode(c)
    BY <1>2 DEF InLast, InFresh, InInv, InLine
  <2>2. c.op = "short" => \E k \in 1 .. T - 1 : k = c.arg /\ InWill(k)' = InWill(k)
    BY <2>1, InWillPasses DEF InCode
  <2>3. c.op = "short" => InWill(c.arg)' = InWill(c.arg)
    BY <2>2 DEF InWill, InHas
  <2> QED
    BY <2>3, InMeansSame
<1>3. CASE InLast = << >>
  BY <1>1, <1>3 DEF InFinal
<1>4. CASE InLast # << >>
  <2>1. PICK c : c = InLast[1]
    OBVIOUS
  <2>2. InFinal = <<InMeans(c, InWill(c.arg))>>
    BY <1>4, <2>1 DEF InFinal
  <2>3. InFinal' = <<InMeans(c, InWill(c.arg)')>>
    BY <1>1, <1>4, <2>1 DEF InFinal, InWill, InHas
  <2> QED
    BY <1>2, <1>4, <2>1, <2>2, <2>3
<1> QED
  BY <1>3, <1>4

LEMMA InFinalSaid ==
  ASSUME InInv, Input!Decompress, NEW c \in Input!Command, InSpeaks(c)
  PROVE  InFinal = << >> /\ InFinal' = <<Input!TakenFor(Input!Code(c.op, c.arg, 0))>>
<1>1. PICK x :
        /\ InSpeaks(c) /\ InCode(x) /\ x.size \in 1 .. 6 /\ line' = Input!DigitsOf(x)
        /\ (InWrites(x.op) <=> c.op = "write")
        /\ InRefers(c, x) \/ InSpells(c, x) \/ InAsks(c, x)
  BY InSaid
<1>2. InPasses /\ line = << >> /\ InLast = << >>
  BY <1>1 DEF InSpeaks, InLast, InFresh
<1>3. InLast' = <<x>> /\ <<x>> # << >> /\ <<x>>[1] = x
  BY <1>1, InSaidLine DEF InLast, InFresh
<1>4. InFinal = << >> /\ InFinal' = <<InMeans(x, InWill(x.arg)')>>
  BY <1>2, <1>3 DEF InFinal
<1>0. /\ c.op = "write" => Input!TakenFor(Input!Code(c.op, c.arg, 0)) = Input!Code("write", c.arg, 0)
      /\ c.op # "write" => Input!TakenFor(Input!Code(c.op, c.arg, 0)) = Input!Code(Input!Encoded(c), 0, 0)
  BY DEF Input!TakenFor, Input!Encoded, Input!Code, Input!EOW, Input!Command
<1>5. InMeans(x, InWill(x.arg)') = Input!TakenFor(Input!Code(c.op, c.arg, 0))
  <2>1. CASE InRefers(c, x)
    <3>1. PICK k \in 1 .. T - 1 : /\ k = x.arg /\ k \in Input!Searched
                                  /\ m_writetbl[(m_wraddr - k) % T] = c.arg
      BY <2>1 DEF InRefers
    <3>2. InAtLast(k) = c.arg
      BY <3>1 DEF InInv, InTables
    <3>3. InWill(k)' = c.arg
      BY <1>2, <3>2, InWillPasses, InGetsNone DEF InAtLast
    <3>4. x.op = "short" /\ c.op = "write" /\ InWill(x.arg)' = c.arg
      BY <2>1, <3>1, <3>3 DEF InRefers, Input!Code
    <3> QED
      BY <1>0, <3>4 DEF InMeans
  <2>2. CASE InSpells(c, x)
    BY <1>0, <2>2 DEF InSpells, InMeans, Input!Code
  <2>3. CASE InAsks(c, x)
    <3>1. Input!Encoded(c) # "short"
      BY DEF Input!Encoded, Input!Command
    <3> QED
      BY <1>0, <2>3, <3>1 DEF InAsks, InMeans, Input!Code
  <2> QED
    BY <1>1, <2>1, <2>2, <2>3
<1> QED
  BY <1>4, <1>5

LEMMA InNextComes ==
  ASSUME InInv, Input!Decompress, InSends \/ InReturns
  PROVE  \E e : /\ e = << >> \/ e = <<Input!EOW>>
                /\ InMoves(e) /\ InCame' = (IF e = << >> THEN InLeft ELSE Append(InLeft, e[1]))
<1>1. ~cw_stb /\ in_tbl' = in_tbl /\ wr_addr' = wr_addr /\ InTaken = << >>
  BY InFrontSends, InFrontReturns, InHasStep DEF InTaken
<1>2. CASE InSends /\ ~InFresh
  <2>1. InFront' = InFront /\ InLast = << >> /\ InLast' = << >> /\ InCame' = InLeft
    BY <1>2, InFrontSends DEF InSends
  <2> QED
    BY <1>1, <2>1 DEF InMoves, InNext, InFinal, InHas, InMeans
<1>3. CASE InSends /\ InFresh
  <2>1. InFront = << >> /\ InFront' = InLast /\ InLast' = << >> /\ InCame' = InLeft
    BY <1>3, InFrontSends DEF InSends
  <2>2. PICK c : InCode(c) /\ InLast = <<c>> /\ <<c>> # << >> /\ <<c>>[1] = c
    BY <1>3 DEF InLast, InFresh, InInv, InLine
  <2>3. InNext = << >> /\ InFinal' = << >>
    BY <2>1 DEF InNext, InFinal
  <2>4. InNext' = <<InMeans(c, InHas(c.arg))>> /\ InFinal = <<InMeans(c, InWill(c.arg))>>
    BY <1>1, <2>1, <2>2 DEF InNext, InFinal, InHas, InMeans
  <2>5. InWill(c.arg) = InHas(c.arg)
    BY <2>1, InGetsNone DEF InWill
  <2> QED
    BY <1>1, <2>1, <2>3, <2>4, <2>5 DEF InMoves
<1>4. CASE InReturns
  <2>1. PICK e : e = (IF bursting THEN <<Input!EOW>> ELSE << >>)
    OBVIOUS
  <2>2. InFront = << >> /\ InLast = << >> /\ InLast' = << >> /\ InFront' = e
    BY <1>4, <2>1, InFrontReturns
  <2>3. InNext = << >> /\ InFinal = << >> /\ InFinal' = << >>
    BY <2>2 DEF InNext, InFinal
  <2>4. <<Input!EOW>> # << >> /\ <<Input!EOW>>[1] = Input!EOW
    OBVIOUS
  <2>5. InNext' = e
    <3>1. \A v : InMeans(Input!EOW, v) = Input!EOW
      BY DEF InMeans, Input!EOW, Input!Code
    <3> QED
      BY <2>1, <2>2, <2>4, <3>1 DEF InNext
  <2>6. InCame' = (IF e = << >> THEN InLeft ELSE Append(InLeft, e[1]))
    BY <1>4, <2>1, <2>4 DEF InReturns
  <2> QED
    BY <1>1, <2>1, <2>3, <2>5, <2>6 DEF InMoves
<1> QED
  BY <1>2, <1>3, <1>4

InShort(s) == s = << >> \/ \E x : s = <<x>>

LEMMA InShorts ==
  ASSUME NEW p, NEW q, NEW r, NEW s, InShort(p), InShort(q), InShort(r), InShort(s)
  PROVE  \E S : p \in Seq(S) /\ q \in Seq(S) /\ r \in Seq(S) /\ s \in Seq(S)
<1>1. PICK x1, x2, x3, x4 :
        /\ p = << >> \/ p = <<x1>>
        /\ q = << >> \/ q = <<x2>>
        /\ r = << >> \/ r = <<x3>>
        /\ s = << >> \/ s = <<x4>>
  BY DEF InShort
<1>2. PICK S : S = {x1, x2, x3, x4}
  OBVIOUS
<1>3. x1 \in S /\ x2 \in S /\ x3 \in S /\ x4 \in S
  BY <1>2
<1>4. \A x \in S : <<x>> \in Seq(S) /\ << >> \in Seq(S)
  OBVIOUS
<1>5. p \in Seq(S)
  BY <1>1, <1>3, <1>4
<1>6. q \in Seq(S)
  BY <1>1, <1>3, <1>4
<1>7. r \in Seq(S)
  BY <1>1, <1>3, <1>4
<1>8. s \in Seq(S)
  BY <1>1, <1>3, <1>4
<1> QED
  BY <1>5, <1>6, <1>7, <1>8

LEMMA InWays ==
  InShort(InOut) /\ InShort(InMiddle) /\ InShort(InNext) /\ InShort(InFinal) /\ InShort(InTaken)
<1>1. InShort(<< >>) /\ \A x : InShort(<<x>>)
  BY DEF InShort
<1> HIDE DEF InShort
<1> QED
  BY <1>1 DEF InOut, InMiddle, InNext, InFinal, InTaken

LEMMA InJoin ==
  ASSUME NEW S, NEW x, NEW y, NEW z, x \in Seq(S), y \in Seq(S), z \in Seq(S)
  PROVE  (x \o y) \o z = x \o (y \o z) /\ x \o y \in Seq(S)
BY ConcatAssociative, ConcatProperties

\* Everything moves up one place, or keeps it.
InUp(o, m, n, f, t, e, o1, m1, n1, f1) ==
  /\ InShort(m) /\ InShort(n) /\ InShort(f) /\ InShort(t) /\ InShort(e)
  /\ \/ o1 = m /\ m1 = t
     \/ o1 = << >> /\ m1 = m /\ t = << >>
     \/ o1 = << >> /\ m = << >> /\ m1 = t
  /\ \/ n = t /\ n1 = << >> /\ f = << >> /\ f1 = e
     \/ n = t /\ n1 = << >> /\ f1 = f /\ e = << >>
     \/ t = << >> /\ n1 = n /\ f = << >> /\ f1 = e
     \/ t = << >> /\ n1 = n /\ f1 = f /\ e = << >>
     \/ t = << >> /\ n = << >> /\ n1 = f /\ f1 = << >> /\ e = << >>
     \/ t = << >> /\ n = << >> /\ f = << >> /\ n1 = e /\ f1 = << >>

\* What stood in the three places is, with what came behind it, what went out of
\* the first and what stands in the three places now.
InJoined(m, n, f, e, o1, m1, n1, f1) == o1 \o (m1 \o (n1 \o f1)) = (m \o (n \o f)) \o e

\* The order stays.
LEMMA InOrder ==
  ASSUME NEW o, NEW m, NEW n, NEW f, NEW t, NEW e, NEW o1, NEW m1, NEW n1, NEW f1,
         InUp(o, m, n, f, t, e, o1, m1, n1, f1)
  PROVE  InJoined(m, n, f, e, o1, m1, n1, f1)
<1>1. PICK S : m \in Seq(S) /\ n \in Seq(S) /\ f \in Seq(S) /\ e \in Seq(S)
  BY InShorts DEF InUp
<1>2. t \in Seq(S) /\ o1 \in Seq(S) /\ m1 \in Seq(S) /\ n1 \in Seq(S) /\ f1 \in Seq(S) /\ << >> \in Seq(S)
  <2>1. << >> \in Seq(S)
    OBVIOUS
  <2> QED
    BY <1>1, <2>1 DEF InUp
<1>3. \A x \in Seq(S) : << >> \o x = x /\ x \o << >> = x
  BY ConcatEmptySeq
<1>4. o1 \o m1 = m \o t
  BY <1>1, <1>2, <1>3 DEF InUp
<1>5. PICK u \in Seq(S) : u = n1 \o f1
  BY <1>2, InJoin
<1>6. PICK v \in Seq(S) : v = n \o f
  BY <1>1, InJoin
<1>7. t \o u = v \o e
  <2>1. v \o e = n \o (f \o e)
    BY <1>1, <1>6, InJoin
  <2>2. t \o u = t \o (n1 \o f1)
    BY <1>5
  <2>3. v \o e \in Seq(S) /\ f \o e \in Seq(S)
    BY <1>1, <1>6, InJoin
  <2>4. CASE n = t /\ n1 = << >> /\ f = << >> /\ f1 = e
    BY <1>1, <1>3, <1>5, <2>1, <2>4
  <2>5. CASE n = t /\ n1 = << >> /\ f1 = f /\ e = << >>
    BY <1>1, <1>3, <1>5, <2>1, <2>5
  <2>6. CASE t = << >> /\ n1 = n /\ f = << >> /\ f1 = e
    BY <1>1, <1>3, <1>5, <2>1, <2>3, <2>6
  <2>7. CASE t = << >> /\ n1 = n /\ f1 = f /\ e = << >>
    BY <1>1, <1>3, <1>5, <2>1, <2>3, <2>7
  <2>8. CASE t = << >> /\ n = << >> /\ n1 = f /\ f1 = << >> /\ e = << >>
    BY <1>1, <1>3, <1>5, <2>1, <2>3, <2>8
  <2>9. CASE t = << >> /\ n = << >> /\ f = << >> /\ n1 = e /\ f1 = << >>
    BY <1>1, <1>3, <1>5, <2>1, <2>3, <2>9
  <2> QED
    BY <2>4, <2>5, <2>6, <2>7, <2>8, <2>9 DEF InUp
<1>8. (o1 \o m1) \o u = o1 \o (m1 \o u)
  <2>1. o1 \in Seq(S) /\ m1 \in Seq(S) /\ u \in Seq(S)
    BY <1>2
  <2> QED
    BY <2>1, InJoin
<1>9. (m \o t) \o u = m \o (t \o u)
  <2>1. m \in Seq(S) /\ t \in Seq(S) /\ u \in Seq(S)
    BY <1>1, <1>2
  <2> QED
    BY <2>1, InJoin
<1>10. (m \o v) \o e = m \o (v \o e)
  <2>1. m \in Seq(S) /\ v \in Seq(S) /\ e \in Seq(S)
    BY <1>1
  <2> QED
    BY <2>1, InJoin
<1> QED
  BY <1>4, <1>5, <1>6, <1>7, <1>8, <1>9, <1>10 DEF InJoined

LEMMA InMovesUp ==
  ASSUME InInv, InClock, Input!Decompress
  PROVE  \E e : InShort(e) /\ InMoves(e) /\ InCame' = (IF e = << >> THEN InLeft ELSE Append(InLeft, e[1]))
<1>1. InShort(<< >>) /\ \A x : InShort(<<x>>)
  BY DEF InShort
<1>2. CASE InSends \/ InReturns
  BY <1>1, <1>2, InNextComes
<1>3. CASE InIdles \/ InRestarts
  <2>1. InPasses /\ line' = line /\ InCame' = InLeft
    BY <1>3 DEF InIdles, InRestarts
  <2> QED
    BY <1>1, <2>1, InNextPasses, InFinalIdles DEF InMoves
<1>4. CASE \E c \in Input!Command : InSpeaks(c)
  <2>1. PICK c \in Input!Command : InSpeaks(c)
    BY <1>4
  <2>2. PICK x : x = Input!TakenFor(Input!Code(c.op, c.arg, 0))
    OBVIOUS
  <2>3. InCame' = Append(InLeft, x) /\ InPasses
    BY <2>1, <2>2 DEF InSpeaks
  <2>4. InFinal = << >> /\ InFinal' = <<x>> /\ <<x>> # << >> /\ <<x>>[1] = x
    BY <2>1, <2>2, InFinalSaid
  <2>5. InMoves(<<x>>)
    BY <2>3, <2>4, InNextPasses DEF InMoves
  <2> QED
    BY <1>1, <2>3, <2>4, <2>5
<1> QED
  BY <1>2, <1>3, <1>4 DEF InClock

LEMMA InDueKept ==
  ASSUME InInv, InClock, Input!Decompress PROVE InDue'
<1>1. PICK e : InShort(e) /\ InMoves(e) /\ InCame' = (IF e = << >> THEN InLeft ELSE Append(InLeft, e[1]))
  BY InMovesUp
<1>2. PICK o, m, n, f, t : o = InOut /\ m = InMiddle /\ n = InNext /\ f = InFinal /\ t = InTaken
  OBVIOUS
<1>3. PICK o1, m1, n1, f1 : o1 = InOut' /\ m1 = InMiddle' /\ n1 = InNext' /\ f1 = InFinal'
  OBVIOUS
<1>4. InShort(o) /\ InShort(m) /\ InShort(n) /\ InShort(f) /\ InShort(t)
  BY <1>2, InWays
<1>5. InCame = o \o (m \o (n \o f))
  BY <1>2 DEF InInv, InDue
<1>6. o1 \o (m1 \o (n1 \o f1)) = (m \o (n \o f)) \o e
  <2>1. \/ o1 = m /\ m1 = t
        \/ o1 = << >> /\ m1 = m /\ t = << >>
        \/ o1 = << >> /\ m = << >> /\ m1 = t
    BY <1>2, <1>3, InMiddleStep
  <2>2. \/ n = t /\ n1 = << >> /\ f = << >> /\ f1 = e
        \/ n = t /\ n1 = << >> /\ f1 = f /\ e = << >>
        \/ t = << >> /\ n1 = n /\ f = << >> /\ f1 = e
        \/ t = << >> /\ n1 = n /\ f1 = f /\ e = << >>
        \/ t = << >> /\ n = << >> /\ n1 = f /\ f1 = << >> /\ e = << >>
        \/ t = << >> /\ n = << >> /\ f = << >> /\ n1 = e /\ f1 = << >>
    BY <1>1, <1>2, <1>3 DEF InMoves
  <2>3. InUp(o, m, n, f, t, e, o1, m1, n1, f1)
    BY <1>1, <1>4, <2>1, <2>2 DEF InUp
  <2>4. InJoined(m, n, f, e, o1, m1, n1, f1)
    BY <2>3, InOrder
  <2> QED
    BY <2>4 DEF InJoined
<1>7. PICK S : o \in Seq(S) /\ m \in Seq(S) /\ n \in Seq(S) /\ f \in Seq(S)
  BY <1>4, InShorts
<1>8. m \o (n \o f) \in Seq(S)
  <2>1. n \o f \in Seq(S)
    BY <1>7
  <2> QED
    BY <1>7, <2>1
<1>9. InLeft = m \o (n \o f)
  <2>1. CASE o_stb
    <3>1. o = <<o_word>>
      BY <1>2, <2>1 DEF InOut
    <3>2. PICK u \in Seq(S) : u = m \o (n \o f)
      BY <1>8
    <3>3. Tail(<<o_word>> \o u) = u
      BY <1>7, <3>1, <3>2
    <3> QED
      BY <1>5, <2>1, <3>1, <3>2, <3>3 DEF InLeft
  <2>2. CASE ~o_stb
    <3>1. o = << >>
      BY <1>2, <2>2 DEF InOut
    <3> QED
      BY <1>5, <1>8, <2>2, <3>1, ConcatEmptySeq DEF InLeft
  <2> QED
    BY <2>1, <2>2
<1>10. InCame' = (m \o (n \o f)) \o e
  <2>1. CASE e = << >>
    BY <1>1, <1>8, <1>9, <2>1, ConcatEmptySeq
  <2>2. CASE e # << >>
    <3>1. PICK x : e = <<x>> /\ <<x>>[1] = x
      BY <1>1, <2>2 DEF InShort
    <3>2. PICK u \in Seq(S \cup {x}) : u = m \o (n \o f) /\ x \in S \cup {x}
      BY <1>8, SeqMonotonic
    <3>3. Append(u, x) = u \o <<x>>
      BY <3>2, AppendIsConcat
    <3> QED
      BY <1>1, <1>9, <2>2, <3>1, <3>2, <3>3
  <2> QED
    BY <2>1, <2>2
<1> QED
  BY <1>3, <1>6, <1>10 DEF InDue


\* The commands that wait, as the board takes them: one leaves, one comes.
LEMMA InAsTail ==
  ASSUME NEW S, NEW q \in Seq(S), q # << >> PROVE InAs(Tail(q)) = Tail(InAs(q))
BY DEF InAs

LEMMA InAsAppend ==
  ASSUME NEW S, NEW q \in Seq(S), NEW x \in S
  PROVE  InAs(Append(q, x)) = Append(InAs(q), Input!TakenFor(x))
BY DEF InAs

\* What comes out is the command that has waited longest.
LEMMA InArrives ==
  ASSUME InInv PROVE Input!CommandsArrive
<1>1. ASSUME o_stb PROVE due # << >> /\ o_word = Input!TakenFor(Head(due))
  <2>1. PICK m, n, f : m = InMiddle /\ n = InNext /\ f = InFinal
    OBVIOUS
  <2>2. PICK o : o = InOut
    OBVIOUS
  <2>3. o = <<o_word>> /\ InCame = o \o (m \o (n \o f))
    BY <1>1, <2>1, <2>2 DEF InInv, InDue, InOut
  <2>4. PICK S : o \in Seq(S) /\ m \in Seq(S) /\ n \in Seq(S) /\ f \in Seq(S)
    BY <2>1, <2>2, InWays, InShorts
  <2>5. PICK u \in Seq(S) : u = m \o (n \o f)
    <3>1. PICK v \in Seq(S) : v = n \o f
      BY <2>4, InJoin
    <3> QED
      BY <2>4, <3>1, InJoin
  <2>6. Len(<<o_word>> \o u) > 0 /\ (<<o_word>> \o u)[1] = o_word
    BY <2>3, <2>4, <2>5
  <2>7. Len(InCame) > 0 /\ InCame[1] = o_word
    BY <2>3, <2>5, <2>6
  <2>8. due \in Seq(InDues)
    BY DEF InInv, InWaits
  <2>9. Len(InCame) = Len(due) /\ Len(due) > 0 /\ InCame[1] = Input!TakenFor(due[1])
    BY <2>7, <2>8 DEF InCame, InAs
  <2> QED
    BY <2>7, <2>8, <2>9
<1> QED
  BY <1>1 DEF Input!CommandsArrive

\* What is left when a command has come out.
InRest == IF o_stb THEN Tail(due) ELSE due

LEMMA InLeaving ==
  ASSUME InInv PROVE InRest \in Seq(InDues) /\ InAs(InRest) = InLeft
<1>1. due \in Seq(InDues) /\ (o_stb => due # << >>)
  BY InArrives DEF InInv, InWaits, Input!CommandsArrive
<1>2. CASE o_stb
  <2>1. Tail(due) \in Seq(InDues)
    BY <1>1, <1>2
  <2> QED
    BY <1>1, <1>2, <2>1, InAsTail DEF InRest, InLeft, InCame
<1>3. CASE ~o_stb
  BY <1>1, <1>3 DEF InRest, InLeft, InCame
<1> QED
  BY <1>2, <1>3

LEMMA InCameStays ==
  ASSUME InInv, due' = InRest PROVE InCame' = InLeft /\ InWaits'
BY InLeaving DEF InCame, InAs, InWaits

LEMMA InCameGrows ==
  ASSUME InInv, NEW x \in InDues, due' = Append(InRest, x)
  PROVE  InCame' = Append(InLeft, Input!TakenFor(x)) /\ InWaits'
<1>1. PICK q \in Seq(InDues) : q = InRest /\ InAs(q) = InLeft
  BY InLeaving
<1>2. due' = Append(q, x) /\ Append(q, x) \in Seq(InDues)
  BY <1>1
<1>3. InAs(Append(q, x)) = Append(InLeft, Input!TakenFor(x))
  BY <1>1, InAsAppend
<1> QED
  BY <1>2, <1>3 DEF InCame, InAs, InWaits


LEMMA InClocks ==
  ASSUME InInv, Input!Next PROVE InClock /\ InWaits'
<1>1. InReading
  BY InReads DEF Input!Next
<1>2. wait = 0 => InRests
  BY <1>1, InApart DEF InReading, InTakes, InEnds, InCompletes, InGives, InDigit, Input!newline
<1>3. Input!Serial
  BY DEF Input!Next
<1> HIDE DEF InRests, InReading
<1>4. ASSUME line # << >>, wait = 0,
             hx_stb' = TRUE, hx_digit' = Head(line), line' = Tail(line), wait' = Gap - 1,
             UNCHANGED <<bursting, m_wraddr, m_wrloaded, m_writetbl>>, InCame' = InLeft
      PROVE  InSends
  BY <1>2, <1>4 DEF InSends, InHostSame
<1>5. ASSUME line = << >>, wait = 0, hx_stb' = TRUE, hx_digit' = Input!NL, wait' = Gap - 1,
             Input!EndLine, InCame' = (IF bursting THEN Append(InLeft, Input!EOW) ELSE InLeft)
      PROVE  InReturns
  BY <1>2, <1>5 DEF InReturns, InHostSame, Input!EndLine
<1>6. ASSUME hx_stb' = FALSE, UNCHANGED hx_digit, wait' = (IF wait = 0 THEN 0 ELSE wait - 1)
      PROVE  InPasses
  BY <1>1, <1>6 DEF InPasses
<1>7. ASSUME InPasses, Input!HostIdle, InCame' = InLeft PROVE InIdles
  BY <1>7 DEF InIdles, Input!HostIdle, InHostSame
<1>8. ASSUME InPasses, line = << >>, Input!Restart, InCame' = InLeft PROVE InRestarts
  <2>1. ~m_wrloaded'
    BY <1>8 DEF Input!Restart
  <2> QED
    BY <1>8, <2>1 DEF InRestarts, Input!Restart, Input!Slot, InSlot
<1>9. ASSUME InPasses, line = << >>, NEW c \in Input!Command, Input!Send(c),
             InCame' = Append(InLeft, Input!TakenFor(Input!Code(c.op, c.arg, 0)))
      PROVE  InSpeaks(c)
  BY <1>9 DEF InSpeaks
<1>0. /\ Input!EOW \in InDues /\ Input!TakenFor(Input!EOW) = Input!EOW
      /\ \A c \in Input!Command : Input!Code(c.op, c.arg, 0) \in InDues
  BY DEF InDues, Input!TakenFor, Input!Encoded, Input!EOW, Input!Code
<1>10. CASE hx_stb' = TRUE /\ line # << >> /\ wait = 0
  <2>1. /\ hx_digit' = Head(line) /\ line' = Tail(line) /\ wait' = Gap - 1
        /\ UNCHANGED <<bursting, m_wraddr, m_wrloaded, m_writetbl>> /\ due' = InRest
    BY <1>3, <1>10 DEF Input!Serial, InRest
  <2>2. InCame' = InLeft /\ InWaits'
    BY <2>1, InCameStays
  <2> QED
    BY <1>4, <1>10, <2>1, <2>2 DEF InClock
<1>11. CASE hx_stb' = TRUE /\ line = << >> /\ wait = 0
  <2>1. hx_digit' = Input!NL /\ wait' = Gap - 1 /\ Input!EndLine
        /\ IF bursting THEN due' = Append(InRest, Input!EOW) ELSE due' = InRest
    BY <1>3, <1>11 DEF Input!Serial, InRest
  <2>2. InCame' = (IF bursting THEN Append(InLeft, Input!EOW) ELSE InLeft) /\ InWaits'
    <3>1. CASE bursting
      <4>1. due' = Append(InRest, Input!EOW)
        BY <2>1, <3>1
      <4>2. InCame' = Append(InLeft, Input!TakenFor(Input!EOW)) /\ InWaits'
        BY <1>0, <4>1, InCameGrows
      <4> QED
        BY <1>0, <3>1, <4>2
    <3>2. CASE ~bursting
      BY <2>1, <3>2, InCameStays
    <3> QED
      BY <3>1, <3>2
  <2> QED
    BY <1>5, <1>11, <2>1, <2>2 DEF InClock
<1>12. CASE hx_stb' = FALSE
  <2>1. /\ UNCHANGED hx_digit /\ wait' = (IF wait = 0 THEN 0 ELSE wait - 1)
        /\ \/ Input!HostIdle /\ due' = InRest
           \/ line = << >> /\ Input!Restart /\ due' = InRest
           \/ /\ line = << >>
              /\ \E c \in Input!Command :
                   Input!Send(c) /\ due' = Append(InRest, Input!Code(c.op, c.arg, 0))
    BY <1>3, <1>12 DEF Input!Serial, InRest
  <2>2. CASE due' = InRest /\ (Input!HostIdle \/ (line = << >> /\ Input!Restart))
    <3>1. InCame' = InLeft /\ InWaits'
      BY <2>2, InCameStays
    <3> QED
      BY <1>6, <1>7, <1>8, <1>12, <2>1, <2>2, <3>1 DEF InClock
  <2>3. CASE line = << >> /\ \E c \in Input!Command :
                Input!Send(c) /\ due' = Append(InRest, Input!Code(c.op, c.arg, 0))
    <3>1. PICK c \in Input!Command : Input!Send(c) /\ due' = Append(InRest, Input!Code(c.op, c.arg, 0))
      BY <2>3
    <3>2. InCame' = Append(InLeft, Input!TakenFor(Input!Code(c.op, c.arg, 0))) /\ InWaits'
      BY <1>0, <3>1, InCameGrows
    <3> QED
      BY <1>6, <1>9, <1>12, <2>1, <2>3, <3>1, <3>2 DEF InClock
  <2> QED
    BY <2>1, <2>2, <2>3
<1>13. \/ hx_stb' = TRUE /\ wait = 0
       \/ hx_stb' = FALSE
  BY <1>3 DEF Input!Serial
<1> QED
  BY <1>10, <1>11, <1>12, <1>13

LEMMA InKept ==
  ASSUME InInv, Input!Next PROVE InInv'
<1>1. Input!Decompress /\ InClock /\ InTypes' /\ InWaits'
  BY InClocks, InTypesKept DEF Input!Next
<1> QED
  BY <1>1, InTimesKept, InLineKept, InHeldKept, InBurstKept, InDueKept, InTablesKept DEF InInv

LEMMA InBegins ==
  ASSUME Input!Init PROVE InInv
<1>1. T \in Nat \ {0} /\ T > 1 /\ Gap \in Nat /\ Gap >= 4 /\ 0 \in InSlot
  BY InConstants DEF InSlot
<1>2. InTypes
  <2>1. in_stb = <<FALSE, FALSE, FALSE>> /\ DOMAIN shiftreg = 1 .. 6
    BY DEF Input!Init
  <2>2. Len(in_stb) = 3 /\ in_stb[1] = FALSE /\ in_stb[2] = FALSE /\ in_stb[3] = FALSE
    BY <2>1
  <2>3. FALSE \in BOOLEAN
    OBVIOUS
  <2>4. hx_stb = FALSE /\ cw_stb = FALSE /\ o_stb = FALSE /\ bursting = FALSE /\ m_wrloaded = FALSE
    BY DEF Input!Init
  <2> QED
    BY <2>1, <2>2, <2>3, <2>4 DEF InTypes
<1>3. in_stb[1] = FALSE /\ in_stb[2] = FALSE /\ in_stb[3] = FALSE /\ ~hx_stb /\ ~cw_stb /\ ~o_stb
      /\ line = << >> /\ r_len = 0 /\ cw_len = 0 /\ lastcw = "none" /\ ~bursting /\ wait = 0 /\ due = << >>
  BY DEF Input!Init
<1>4. InTimes /\ InLine
  BY <1>1, <1>3 DEF InTimes, InLine, Input!Complete
<1>5. ~InReader /\ ~InDigit /\ ~Input!newline /\ InFront = << >> /\ InLast = << >>
  BY <1>3 DEF InReader, InDigit, Input!newline, InFront, Input!EndsBurst, InLast, InFresh
<1>6. InHeld /\ InBurst
  BY <1>3, <1>5 DEF InHeld, InBurst
<1>7. InDue
  <2>1. InOut = << >> /\ InMiddle = << >> /\ InNext = << >> /\ InFinal = << >>
    BY <1>3, <1>5 DEF InOut, InMiddle, InNext, InFinal
  <2>2. << >> \o (<< >> \o (<< >> \o << >>)) = << >>
    OBVIOUS
  <2>3. InCame = << >>
    BY <1>3 DEF InCame, InAs
  <2> QED
    BY <2>1, <2>2, <2>3 DEF InDue
<1>8. InTables
  <2>1. m_wraddr = 0 /\ wr_addr = 0 /\ DOMAIN m_writetbl = InSlot /\ DOMAIN in_tbl = InSlot
    BY DEF Input!Init, Input!Slot, InSlot
  <2>2. \A k \in 1 .. T - 1 : ~(k \in Input!Searched)
    BY <1>1, <2>1 DEF Input!Searched, Input!Init
  <2> QED
    BY <1>1, <2>1, <2>2 DEF InTables
<1> QED
  BY <1>2, <1>3, <1>4, <1>6, <1>7, <1>8 DEF InInv, InWaits

LEMMA InAlone ==
  ASSUME InInv, [PartsNext]_partsvars PROVE InInv'
<1>1. CASE InputRuns
  BY <1>1, InKept DEF InputRuns
<1>2. CASE ~InputRuns
  <2>1. UNCHANGED inputvars
    BY <1>2 DEF PartsNext, partsvars, FifoRuns, DelayRuns, CompressRuns, PipeRuns, SerialRuns, AnalyserRuns
  <2>2. UNCHANGED <<m_wraddr, m_wrloaded, m_writetbl, line, bursting, wait, hx_stb, hx_digit>>
        /\ UNCHANGED <<r_len, cw_len, lastcw, shiftreg, cw_stb, cw_word, wr_addr, in_tbl, r_word>>
        /\ UNCHANGED <<cmd_addr, in_cword, in_stb, o_stb, o_word, due>>
    BY <2>1 DEF inputvars
  <2>3. InTypes' /\ InTimes'
    BY <2>2 DEF InInv, InTypes, InTimes, Input!Complete
  <2>4. InReader' = InReader /\ InDigit' = InDigit /\ InRead' = InRead /\ InGot' = InGot
        /\ InFresh' = InFresh /\ Input!newline' = Input!newline /\ Input!EndsBurst' = Input!EndsBurst
    BY <2>2 DEF InReader, InDigit, InRead, InGot, InFresh, Input!newline, Input!EndsBurst
  <2>5. InLine' /\ InHeld' /\ InBurst'
    BY <2>2, <2>4 DEF InInv, InLine, InHeld, InBurst, InCode
  <2>6. InFront' = InFront /\ InLast' = InLast /\ Input!Searched' = Input!Searched
    BY <2>2, <2>4 DEF InFront, InLast, Input!Searched
  <2>7. \A k : InHas(k)' = InHas(k) /\ InWill(k)' = InWill(k) /\ InAtLast(k)' = InAtLast(k)
    BY <2>2, <2>6 DEF InHas, InWill, InAtLast
  <2>8. InTables'
    BY <2>2, <2>6, <2>7 DEF InInv, InTables
  <2>9. InDue' /\ InWaits'
    BY <2>2, <2>6 DEF InInv, InWaits, InCame, InAs, InDue, InOut, InMiddle, InNext, InFinal, InHas, InWill
  <2> QED
    BY <2>3, <2>5, <2>8, <2>9 DEF InInv
<1> QED
  BY <1>1, <1>2

(***************************************************************************)
(* The commands the host sends come out, each the one that was meant and   *)
(* in order (ttybus.cpp, wbutohex.v, wbureadcw.v, wbudecompress.v): for    *)
(* every size of the table and every pace of at least four clocks a        *)
(* character, whatever is said when, and when the host starts again.  All  *)
(* but one: the read of eight words of one address, for which an end of    *)
(* burst comes out.                                                        *)
(***************************************************************************)
THEOREM CommandsComeOut == PartsSpec => []CommandsArrive
<1>1. PartsInit => InInv
  BY InBegins DEF PartsInit
<1>2. InInv => CommandsArrive
  BY InArrives DEF CommandsArrive
<1> QED
  BY <1>1, <1>2, InAlone, PTL DEF PartsSpec

\* Remainders: one read off, and a sum that is reduced twice.
LEMMA PartRest ==
  ASSUME NEW m \in Nat \ {0}, NEW q \in Int, NEW s \in 0 .. m - 1, NEW e \in Int, e = m * q + s
  PROVE  e % m = s
BY SMTT(30)

LEMMA PartShift ==
  ASSUME NEW m \in Nat \ {0}, NEW x \in Int, NEW k \in -m .. m
  PROVE  ((x % m) + k) % m = (x + k) % m
<1>1. PICK q \in Int, r \in 0 .. m - 1 : x = m * q + r /\ r = x % m
  <2>1. x = m * (x \div m) + (x % m) /\ x % m \in 0 .. m - 1 /\ x \div m \in Int
    BY SMT
  <2> QED
    BY <2>1
<1>2. PICK z \in Int, y \in Int : z = r + k /\ y = x + k
  OBVIOUS
<1>3. z \in -m .. 2 * m - 1
  BY <1>2
<1>4. PICK s \in 0 .. m - 1 : s = z \/ s = z + m \/ s = z - m
  <2>1. CASE z < 0
    <3>1. z + m \in 0 .. m - 1
      BY <1>3, <2>1
    <3> QED
      BY <3>1
  <2>2. CASE z >= m
    <3>1. z - m \in 0 .. m - 1
      BY <1>3, <2>2
    <3> QED
      BY <3>1
  <2>3. CASE z \in 0 .. m - 1
    BY <2>3
  <2> QED
    BY <1>3, <2>1, <2>2, <2>3
<1>5. PICK p, o :
        /\ p = (IF s = z THEN q ELSE IF s = z + m THEN q - 1 ELSE q + 1)
        /\ o = (IF s = z THEN 0 ELSE IF s = z + m THEN -1 ELSE 1)
  OBVIOUS
<1>6. p \in Int /\ o \in Int
  BY <1>5
<1>7. PICK g : g = m * q
  OBVIOUS
<1>8. g \in Int
  BY <1>7
<1>9. y = g + z
  <2>1. x = g + r
    BY <1>1, <1>7
  <2> QED
    BY <1>2, <1>8, <2>1
<1>10. z = m * o + s /\ y = m * p + s
  <2>1. m * (q - 1) = m * q - m /\ m * (q + 1) = m * q + m /\ m * 0 = 0 /\ m * (-1) = -m /\ m * 1 = m
    OBVIOUS
  <2> QED
    BY <1>4, <1>5, <1>7, <1>8, <1>9, <2>1
<1>11. z % m = s /\ y % m = s
  BY <1>6, <1>10, PartRest
<1> QED
  BY <1>1, <1>2, <1>11

-----------------------------------------------------------------------------
(***************************************************************************)
(* The logic analyser and its reader (wbscope.v, scopecls.cpp).            *)
(***************************************************************************)
AnM == 2 * LEN
AnSlot == 0 .. LEN - 1

\* The sample taken k clocks ago, and the word k places back.
AnAgo(k) == (d.now - k) % AnM
AnBack(k) == d.mem[(d.waddr - k) % LEN]

AnTypes ==
  /\ d \in [armed : BOOLEAN, manual : BOOLEAN, disable : BOOLEAN, holdoff : Nat,
            triggered : BOOLEAN, primed : BOOLEAN, counter : Nat, stopped : BOOLEAN,
            waddr : AnSlot, mem : [AnSlot -> Int], pipe : Int, now : 0 .. AnM - 1, trig : Int]
  /\ b \in [raddr : AnSlot, this_addr : AnSlot, nxt_mem : Int, read_address : BOOLEAN,
            pre_ack : BOOLEAN, ack : BOOLEAN,
            out : [ready : BOOLEAN, zero : BOOLEAN, hold : Nat, word : Int]]
  /\ h \in [st : {"idle", "armed", "asked", "read", "full"}, vec : BOOLEAN, asked : 0 .. LEN,
            buf : Seq(Int), hold : Nat, zero : BOOLEAN]

\* What was recorded before the memory was full once, and after.
AnFirstRound ==
  /\ d.now = d.waddr /\ d.pipe = d.now - 1
  /\ \A a \in 0 .. d.waddr - 1 : d.mem[a] = a - 1
AnLaterRounds ==
  /\ d.now \in {d.waddr, d.waddr + LEN} /\ d.pipe = AnAgo(1)
  /\ \A k \in 1 .. LEN - 1 : AnBack(k) = AnAgo(k + 1)

\* The recording, its trigger, and its end so many clocks after it.
AnRecords ==
  /\ IF d.primed THEN AnLaterRounds ELSE AnFirstRound
  /\ IF d.triggered THEN /\ d.primed /\ d.mem[d.waddr] = AnAgo(LEN + 1)
                         /\ d.trig \in Nat /\ d.now = (d.trig + 1 + d.counter) % AnM
                    ELSE d.counter = 0
  /\ IF d.stopped THEN d.triggered /\ d.counter = d.holdoff + 1
                  ELSE d.triggered => d.counter <= d.holdoff

\* What the look-ahead of the bus reads next.
AnNext(k) == d.mem[(d.waddr + k) % LEN]
AnAhead == d.armed /\ d.stopped /\ b.this_addr = (b.raddr + d.waddr) % LEN

\* The answers that are due.
AnDue == (IF b.pre_ack THEN 1 ELSE 0) + (IF b.ack THEN 1 ELSE 0)

\* Nothing is under way for an idle program; one that asked is told of a
\* recording that has stopped.
AnAsks ==
  /\ ~d.armed => h.st \in {"idle", "armed"}
  /\ h.st \in {"idle", "armed", "asked"} => h.asked = 0 /\ h.buf = << >>
  /\ h.st = "idle" => AnDue = 0
  /\ h.st \in {"armed", "asked"} => AnDue = 1
  /\ h.st = "asked" => ~b.read_address
  /\ h.st = "asked" /\ b.ack /\ b.out.ready =>
       AnAhead /\ b.out.hold = d.holdoff /\ (b.out.zero => b.raddr = 0)

\* While it reads, each answer on its way is the next word of the recording.
AnReads ==
  h.st \in {"read", "full"} =>
    /\ AnAhead /\ h.hold = d.holdoff
    /\ b.read_address = b.pre_ack /\ h.asked = Len(h.buf) + AnDue
    /\ h.st = "full" => Len(h.buf) = LEN
    /\ h.zero =>
         /\ b.raddr = (IF h.asked = LEN THEN 0 ELSE h.asked)
         /\ \A i \in 1 .. Len(h.buf) : h.buf[i] = AnNext(i - 1)
         /\ b.ack => b.out.word = AnNext(Len(h.buf))
         /\ b.pre_ack => b.nxt_mem = AnNext(h.asked - 1)

AnInv == AnTypes /\ (d.armed => AnRecords) /\ AnAsks /\ AnReads

LEMMA AnLength ==
  /\ LEN \in Nat \ {0, 1} /\ LEN >= 8 /\ AnM \in Nat \ {0, 1} /\ AnM = 2 * LEN
  /\ 0 \in AnSlot /\ AnSlot \subseteq Nat /\ Analyser!M = AnM
BY ScopeAssumption DEF AnM, AnSlot, Analyser!M

\* A clock of the recording, register by register.
LEMMA AnClocked ==
  ASSUME AnTypes, NEW i_trigger \in BOOLEAN, NEW r, r = Analyser!Record(i_trigger)
  PROVE  /\ r.armed = TRUE
         /\ r.holdoff = d.holdoff /\ r.manual = d.manual /\ r.disable = d.disable
         /\ ~d.armed => /\ ~r.triggered /\ ~r.stopped /\ ~r.primed /\ r.counter = 0
                        /\ r.waddr = 0 /\ r.mem \in [AnSlot -> Int] /\ r.pipe = -1 /\ r.now = 0
                        /\ r.trig = -1
         /\ d.armed =>
              /\ (r.triggered <=> d.triggered \/ Analyser!Trigger(i_trigger))
              /\ (r.stopped <=> d.triggered /\ d.counter >= d.holdoff)
              /\ r.trig = (IF ~d.triggered /\ Analyser!Trigger(i_trigger) THEN d.now ELSE d.trig)
         /\ d.armed /\ d.stopped =>
              /\ r.counter = d.counter /\ r.primed = d.primed /\ r.waddr = d.waddr
              /\ r.mem = d.mem /\ r.pipe = d.pipe /\ r.now = d.now
         /\ d.armed /\ ~d.stopped =>
              /\ r.counter = (IF d.triggered THEN d.counter + 1 ELSE d.counter)
              /\ r.primed = (d.primed \/ d.waddr = LEN - 1) /\ r.waddr = (d.waddr + 1) % LEN
              /\ r.mem = [d.mem EXCEPT ![d.waddr] = d.pipe] /\ r.pipe = d.now
              /\ r.now = (d.now + 1) % AnM
<1>1. /\ r.armed = TRUE
      /\ r.holdoff = d.holdoff /\ r.manual = d.manual /\ r.disable = d.disable
  BY DEF AnTypes, Analyser!Record
<1>2. ASSUME ~d.armed
      PROVE  /\ ~r.triggered /\ ~r.stopped /\ ~r.primed /\ r.counter = 0
             /\ r.waddr = 0 /\ r.mem \in [AnSlot -> Int] /\ r.pipe = -1 /\ r.now = 0
             /\ r.trig = -1
  BY <1>2 DEF AnTypes, Analyser!Record, Analyser!Stale, Analyser!Old, AnSlot
<1>3. ASSUME d.armed
      PROVE  /\ (r.triggered <=> d.triggered \/ Analyser!Trigger(i_trigger))
             /\ (r.stopped <=> d.triggered /\ d.counter >= d.holdoff)
             /\ r.trig = (IF ~d.triggered /\ Analyser!Trigger(i_trigger) THEN d.now ELSE d.trig)
  BY <1>3 DEF AnTypes, Analyser!Record, Analyser!Stops, Analyser!Trigger
<1>4. ASSUME d.armed, d.stopped
      PROVE  /\ r.counter = d.counter /\ r.primed = d.primed /\ r.waddr = d.waddr
             /\ r.mem = d.mem /\ r.pipe = d.pipe /\ r.now = d.now
  BY <1>4 DEF AnTypes, Analyser!Record
<1>5. ASSUME d.armed, ~d.stopped
      PROVE  /\ r.counter = (IF d.triggered THEN d.counter + 1 ELSE d.counter)
             /\ r.primed = (d.primed \/ d.waddr = LEN - 1) /\ r.waddr = (d.waddr + 1) % LEN
             /\ r.mem = [d.mem EXCEPT ![d.waddr] = d.pipe] /\ r.pipe = d.now
             /\ r.now = (d.now + 1) % AnM
  BY <1>5, AnLength DEF AnTypes, Analyser!Record
<1> QED
  BY <1>1, <1>2, <1>3, <1>4, <1>5

\* The record of it.
AnRecordings ==
  [armed : BOOLEAN, manual : BOOLEAN, disable : BOOLEAN, holdoff : Nat,
   triggered : BOOLEAN, primed : BOOLEAN, counter : Nat, stopped : BOOLEAN,
   waddr : AnSlot, mem : [AnSlot -> Int], pipe : Int, now : 0 .. AnM - 1, trig : Int]

LEMMA AnRecording ==
  ASSUME AnTypes, NEW i_trigger \in BOOLEAN PROVE Analyser!Record(i_trigger) \in AnRecordings
<1>1. d \in AnRecordings
  BY DEF AnTypes, AnRecordings
<1>2. (d.waddr + 1) % LEN \in AnSlot /\ (d.now + 1) % AnM \in 0 .. AnM - 1 /\ 0 \in 0 .. AnM - 1
  <2>1. PICK x \in AnSlot, y \in 0 .. AnM - 1 : x = d.waddr /\ y = d.now
    BY <1>1 DEF AnRecordings
  <2>2. (x + 1) % LEN \in 0 .. LEN - 1 /\ (y + 1) % AnM \in 0 .. AnM - 1
    BY AnLength, PartNext DEF AnSlot
  <2> QED
    BY <2>1, <2>2, AnLength DEF AnSlot
<1>3. PICK r : r = Analyser!Record(i_trigger)
  OBVIOUS
<1>4. r = [d EXCEPT !.armed = r.armed, !.triggered = r.triggered, !.trig = r.trig,
                    !.counter = r.counter, !.stopped = r.stopped, !.primed = r.primed,
                    !.waddr = r.waddr, !.mem = r.mem, !.pipe = r.pipe, !.now = r.now]
  BY <1>1, <1>3 DEF Analyser!Record, AnRecordings
<1>5. [d.mem EXCEPT ![d.waddr] = d.pipe] \in [AnSlot -> Int] /\ d.mem \in [AnSlot -> Int]
  BY <1>1 DEF AnRecordings
<1>6. Analyser!Trigger(i_trigger) \in BOOLEAN
  BY DEF Analyser!Trigger
<1>7. r.counter \in Nat /\ r.waddr \in AnSlot /\ r.pipe \in Int /\ r.now \in 0 .. AnM - 1 /\ r.trig \in Int
  <2>1. d.counter \in Nat /\ d.waddr \in AnSlot /\ d.pipe \in Int /\ d.now \in 0 .. AnM - 1 /\ d.trig \in Int
    BY <1>1 DEF AnRecordings
  <2>2. d.now \in Int /\ d.counter + 1 \in Nat /\ -1 \in Int
    BY <2>1
  <2>3. CASE ~d.armed
    BY <1>2, <1>3, <2>2, <2>3, AnClocked, AnLength
  <2>4. CASE d.armed /\ d.stopped
    BY <1>3, <2>1, <2>2, <2>4, AnClocked
  <2>5. CASE d.armed /\ ~d.stopped
    <3>1. /\ r.counter = (IF d.triggered THEN d.counter + 1 ELSE d.counter)
          /\ r.waddr = (d.waddr + 1) % LEN /\ r.pipe = d.now /\ r.now = (d.now + 1) % AnM
      BY <1>3, <2>5, AnClocked
    <3>2. r.trig = (IF ~d.triggered /\ Analyser!Trigger(i_trigger) THEN d.now ELSE d.trig)
      BY <1>3, <2>5, AnClocked
    <3>3. r.waddr \in AnSlot /\ r.now \in 0 .. AnM - 1
      BY <1>2, <3>1
    <3>4. r.counter \in Nat /\ r.pipe \in Int /\ r.trig \in Int
      BY <2>1, <2>2, <3>1, <3>2
    <3> QED
      BY <3>3, <3>4
  <2> QED
    BY <2>3, <2>4, <2>5
<1>8. r.mem \in [AnSlot -> Int]
  BY <1>3, <1>5, AnClocked
<1>9. r.armed \in BOOLEAN /\ r.triggered \in BOOLEAN /\ r.stopped \in BOOLEAN /\ r.primed \in BOOLEAN
  BY <1>1, <1>3 DEF Analyser!Record, Analyser!Stops, Analyser!Trigger, AnRecordings
<1>10. PICK v1, v2, v3, v4, v5, v6, v7, v8, v9, v10 :
         /\ v1 = r.armed /\ v2 = r.triggered /\ v3 = r.trig /\ v4 = r.counter /\ v5 = r.stopped
         /\ v6 = r.primed /\ v7 = r.waddr /\ v8 = r.mem /\ v9 = r.pipe /\ v10 = r.now
  OBVIOUS
<1>11. r = [d EXCEPT !.armed = v1, !.triggered = v2, !.trig = v3, !.counter = v4, !.stopped = v5,
                     !.primed = v6, !.waddr = v7, !.mem = v8, !.pipe = v9, !.now = v10]
  BY <1>4, <1>10
<1>12. /\ v1 \in BOOLEAN /\ v2 \in BOOLEAN /\ v3 \in Int /\ v4 \in Nat /\ v5 \in BOOLEAN
       /\ v6 \in BOOLEAN /\ v7 \in AnSlot /\ v8 \in [AnSlot -> Int] /\ v9 \in Int
       /\ v10 \in 0 .. AnM - 1
  BY <1>7, <1>8, <1>9, <1>10
<1>13. [d EXCEPT !.armed = v1, !.triggered = v2, !.trig = v3, !.counter = v4, !.stopped = v5,
                 !.primed = v6, !.waddr = v7, !.mem = v8, !.pipe = v9, !.now = v10] \in AnRecordings
  BY <1>1, <1>12 DEF AnRecordings
<1> QED
  BY <1>3, <1>11, <1>13

\* The place k back and the one after it, by PartStep.
AnStepped(m, a, k) ==
  \E i \in 0 .. m - 1, j \in 0 .. m - 1 :
     /\ i = (a - (k - 1)) % m /\ j = (a - k) % m
     /\ i = (((a + 1) % m) - k) % m /\ j # a /\ (i = a <=> k = 1)

LEMMA AnSteps ==
  ASSUME NEW m, m \in Nat \ {0, 1}, NEW a \in 0 .. m - 1, NEW k \in 1 .. m - 1 PROVE AnStepped(m, a, k)
BY PartStep DEF AnStepped

LEMMA AnPlaces ==
  ASSUME NEW a \in 0 .. LEN - 1, NEW k \in 1 .. LEN - 1 PROVE AnStepped(LEN, a, k)
BY AnLength, AnSteps

LEMMA AnTimes ==
  ASSUME NEW n \in 0 .. AnM - 1, NEW k \in 0 .. LEN
  PROVE  \E i \in 0 .. AnM - 1 : i = (n - k) % AnM /\ i = (((n + 1) % AnM) - (k + 1)) % AnM
<1>1. PICK l \in 1 .. AnM - 1 : l = k + 1 /\ l - 1 = k
  BY AnLength
<1>2. PICK i \in 0 .. AnM - 1, j \in 0 .. AnM - 1 :
        /\ i = (n - (l - 1)) % AnM /\ j = (n - l) % AnM
        /\ i = (((n + 1) % AnM) - l) % AnM /\ j # n /\ (i = n <=> l = 1)
  <2>1. AnM \in Nat \ {0, 1}
    BY AnLength
  <2>2. AnStepped(AnM, n, l)
    BY <2>1, AnSteps
  <2> QED
    BY <2>2 DEF AnStepped
<1> QED
  BY <1>1, <1>2

LEMMA AnTogether ==
  ASSUME NEW w \in 0 .. LEN - 1, NEW n \in 0 .. AnM - 1
  PROVE  \E w1 \in 0 .. LEN - 1, n1 \in 0 .. AnM - 1 :
           /\ w1 = (w + 1) % LEN /\ n1 = (n + 1) % AnM
           /\ n \in {w, w + LEN} => n1 \in {w1, w1 + LEN}
           /\ w1 = (IF w = LEN - 1 THEN 0 ELSE w + 1) /\ n1 = (IF n = AnM - 1 THEN 0 ELSE n + 1)
           /\ w1 # w /\ w1 = (w - (LEN - 1)) % LEN
<1>1. LEN \in Nat \ {0} /\ AnM \in Nat \ {0} /\ AnM = 2 * LEN /\ LEN >= 8
  BY AnLength
<1>2. PICK w1 : w1 = (w + 1) % LEN /\ w1 = (IF w = LEN - 1 THEN 0 ELSE w + 1)
  BY <1>1, PartNext
<1>3. PICK n1 : n1 = (n + 1) % AnM /\ n1 = (IF n = AnM - 1 THEN 0 ELSE n + 1)
  BY <1>1, PartNext
<1>4. PICK l \in 0 .. LEN : l = LEN - 1
  BY <1>1
<1>5. (w - l) % LEN = (IF l <= w THEN w - l ELSE w - l + LEN)
  BY <1>1, PartBack
<1>6. (IF l <= w THEN w - l ELSE w - l + LEN) = (IF w = LEN - 1 THEN 0 ELSE w + 1)
  BY <1>1, <1>4
<1>7. /\ w1 \in 0 .. LEN - 1 /\ n1 \in 0 .. AnM - 1 /\ w1 # w
      /\ n \in {w, w + LEN} => n1 \in {w1, w1 + LEN}
  <2>1. PICK p : p = LEN /\ p \in Nat /\ p >= 8 /\ AnM = 2 * p
    BY <1>1
  <2>2. w1 = (IF w = p - 1 THEN 0 ELSE w + 1) /\ n1 = (IF n = 2 * p - 1 THEN 0 ELSE n + 1)
    BY <1>2, <1>3, <2>1
  <2>3. w \in 0 .. p - 1 /\ n \in 0 .. 2 * p - 1
    BY <2>1
  <2>4. w1 \in 0 .. p - 1 /\ n1 \in 0 .. 2 * p - 1 /\ w1 # w /\ (n \in {w, w + p} => n1 \in {w1, w1 + p})
    BY <2>1, <2>2, <2>3
  <2> QED
    BY <2>1, <2>4
<1> QED
  BY <1>2, <1>3, <1>4, <1>5, <1>6, <1>7

\* What a clock stores, and the memory before and after it.
AnStores(w, n, m, word, w1, n1, m1) ==
  /\ w \in AnSlot /\ n \in 0 .. AnM - 1 /\ m \in [AnSlot -> Int]
  /\ w1 = (w + 1) % LEN /\ n1 = (n + 1) % AnM /\ m1 = [m EXCEPT ![w] = word]
AnFull(w, n, m) ==
  n \in {w, w + LEN} /\ \A k \in 1 .. LEN - 1 : m[(w - k) % LEN] = (n - (k + 1)) % AnM
AnFilling(w, m) == \A a \in 0 .. w - 1 : m[a] = a - 1

\* One more sample, once the memory was full.
LEMMA AnLaterStep ==
  ASSUME NEW w, NEW n, NEW m, NEW word, NEW w1, NEW n1, NEW m1,
         AnStores(w, n, m, word, w1, n1, m1), AnFull(w, n, m), word = (n - 1) % AnM
  PROVE  AnFull(w1, n1, m1) /\ n = (n1 - 1) % AnM /\ m1[w1] = (n1 - (LEN + 1)) % AnM
<1>0. /\ w \in AnSlot /\ n \in 0 .. AnM - 1 /\ m \in [AnSlot -> Int]
      /\ w1 = (w + 1) % LEN /\ n1 = (n + 1) % AnM /\ m1 = [m EXCEPT ![w] = (n - 1) % AnM]
      /\ n \in {w, w + LEN} /\ \A k \in 1 .. LEN - 1 : m[(w - k) % LEN] = (n - (k + 1)) % AnM
  BY DEF AnStores, AnFull
<1>1. w \in 0 .. LEN - 1 /\ LEN \in Nat \ {0, 1} /\ AnM \in Nat \ {0, 1} /\ AnM = 2 * LEN /\ LEN >= 8
  BY <1>0, AnLength DEF AnSlot
<1>2. n1 \in {w1, w1 + LEN} /\ w1 # w /\ w1 = (w - (LEN - 1)) % LEN /\ w1 \in AnSlot
  <2>1. PICK x \in 0 .. LEN - 1, y \in 0 .. AnM - 1 :
           /\ x = (w + 1) % LEN /\ y = (n + 1) % AnM
           /\ n \in {w, w + LEN} => y \in {x, x + LEN}
           /\ x = (IF w = LEN - 1 THEN 0 ELSE w + 1) /\ y = (IF n = AnM - 1 THEN 0 ELSE n + 1)
           /\ x # w /\ x = (w - (LEN - 1)) % LEN
    BY <1>0, <1>1, AnTogether
  <2>2. x = w1 /\ y = n1
    BY <1>0, <2>1
  <2> QED
    BY <1>0, <2>1, <2>2 DEF AnSlot
<1>4. n = (n1 - 1) % AnM
  <2>1. 0 \in 0 .. LEN /\ n - 0 = n /\ n % AnM = n /\ 0 + 1 = 1
    <3>1. n % AnM = n
      BY <1>0, <1>1, PartSmallMod
    <3> QED
      BY <1>0, <1>1, <3>1
  <2>2. PICK i : i = (n - 0) % AnM /\ i = (((n + 1) % AnM) - (0 + 1)) % AnM
    BY <1>0, <2>1, AnTimes
  <2> QED
    BY <1>0, <2>1, <2>2
<1>5. ASSUME NEW k \in 1 .. LEN PROVE (n - k) % AnM = (n1 - (k + 1)) % AnM
  <2>1. k \in 0 .. LEN
    BY <1>1
  <2>2. PICK i : i = (n - k) % AnM /\ i = (((n + 1) % AnM) - (k + 1)) % AnM
    BY <1>0, <2>1, AnTimes
  <2> QED
    BY <1>0, <2>2
<1>6. ASSUME NEW k \in 1 .. LEN - 1 PROVE m1[(w1 - k) % LEN] = (n1 - (k + 1)) % AnM
  <2>1. PICK i \in 0 .. LEN - 1, j \in 0 .. LEN - 1 :
          /\ i = (w - (k - 1)) % LEN /\ j = (w - k) % LEN
          /\ i = (((w + 1) % LEN) - k) % LEN /\ j # w /\ (i = w <=> k = 1)
    BY <1>0, <1>1, AnPlaces DEF AnStepped
  <2>2. i \in AnSlot /\ w \in AnSlot
    BY <1>0, <2>1 DEF AnSlot
  <2>3. m1[i] = (IF i = w THEN (n - 1) % AnM ELSE m[i])
    BY <1>0, <2>2
  <2>4. k \in 1 .. LEN
    BY <1>1
  <2>5. (n - k) % AnM = (n1 - (k + 1)) % AnM
    BY <1>5, <2>4
  <2>6. CASE k = 1
    BY <1>0, <2>1, <2>3, <2>5, <2>6
  <2>7. CASE k # 1
    <3>1. PICK l \in 1 .. LEN - 1 : l = k - 1 /\ l + 1 = k
      BY <1>1, <2>7
    <3>2. m[(w - l) % LEN] = (n - (l + 1)) % AnM
      BY <1>0
    <3> QED
      BY <1>0, <2>1, <2>3, <2>5, <2>7, <3>1, <3>2
  <2> QED
    BY <2>6, <2>7
<1>7. m1[w1] = (n1 - (LEN + 1)) % AnM
  <2>1. PICK l \in 1 .. LEN - 1 : l = LEN - 1 /\ l + 1 = LEN
    BY <1>1
  <2>2. m1[w1] = m[w1]
    BY <1>0, <1>2
  <2>3. m[(w - l) % LEN] = (n - (l + 1)) % AnM
    BY <1>0
  <2>4. LEN \in 1 .. LEN
    BY <1>1
  <2>5. (n - LEN) % AnM = (n1 - (LEN + 1)) % AnM
    BY <1>5, <2>4
  <2> QED
    BY <1>2, <2>1, <2>2, <2>3, <2>5
<1> QED
  BY <1>2, <1>4, <1>6, <1>7 DEF AnFull

\* One more, before it is full, and the one that fills it.
LEMMA AnFirstStep ==
  ASSUME NEW w, NEW m, NEW w1, NEW n1, NEW m1,
         AnStores(w, w, m, w - 1, w1, n1, m1), AnFilling(w, m)
  PROVE  IF w = LEN - 1 THEN AnFull(w1, n1, m1) /\ w = (n1 - 1) % AnM
                        ELSE n1 = w1 /\ w = n1 - 1 /\ AnFilling(w1, m1)
<1>0. /\ w \in AnSlot /\ m \in [AnSlot -> Int]
      /\ w1 = (w + 1) % LEN /\ n1 = (w + 1) % AnM /\ m1 = [m EXCEPT ![w] = w - 1]
      /\ \A a \in 0 .. w - 1 : m[a] = a - 1
  BY DEF AnStores, AnFilling
<1>1. w \in 0 .. LEN - 1 /\ LEN \in Nat \ {0, 1} /\ AnM \in Nat \ {0, 1} /\ AnM = 2 * LEN /\ LEN >= 8
  BY <1>0, AnLength DEF AnSlot
<1>2. w \in 0 .. AnM - 1 /\ w # AnM - 1
  BY <1>1
<1>3. w1 = (IF w = LEN - 1 THEN 0 ELSE w + 1) /\ n1 = w + 1
  BY <1>0, <1>1, <1>2, PartNext
<1>4. ASSUME NEW a \in 0 .. w PROVE m1[a] = a - 1
  <2>1. a \in AnSlot /\ (a = w \/ a \in 0 .. w - 1)
    BY <1>1 DEF AnSlot
  <2> QED
    BY <1>0, <2>1
<1>5. CASE w = LEN - 1
  <2>1. n1 \in {w1, w1 + LEN} /\ w1 = 0 /\ n1 = LEN
    BY <1>1, <1>3, <1>5
  <2>2. w = (n1 - 1) % AnM
    <3>1. w % AnM = w /\ n1 - 1 = w
      BY <1>1, <1>2, <1>3, PartSmallMod
    <3> QED
      BY <3>1
  <2>3. ASSUME NEW k \in 1 .. LEN - 1 PROVE m1[(w1 - k) % LEN] = (n1 - (k + 1)) % AnM
    <3>1. 0 \in 0 .. LEN - 1 /\ k \in 0 .. LEN
      BY <1>1
    <3>2. (0 - k) % LEN = (IF k <= 0 THEN 0 - k ELSE 0 - k + LEN)
      BY <1>1, <3>1, PartBack
    <3>3. PICK a \in 0 .. w : a = LEN - k /\ a = (w1 - k) % LEN
      BY <1>1, <1>5, <2>1, <3>2
    <3>4. PICK x \in 0 .. AnM - 1 : x = a - 1 /\ x = n1 - (k + 1)
      BY <1>1, <2>1, <3>3
    <3>5. x % AnM = x
      BY <1>1, PartSmallMod
    <3> QED
      BY <1>4, <3>3, <3>4, <3>5
  <2> QED
    BY <1>5, <2>1, <2>2, <2>3 DEF AnFull
<1>6. CASE w # LEN - 1
  BY <1>1, <1>3, <1>4, <1>6 DEF AnFilling
<1> QED
  BY <1>5, <1>6

\* The recording, clock by clock.
LEMMA AnRecordsGo ==
  ASSUME AnTypes, d.armed, ~d.stopped, d.primed, AnRecords, NEW i_trigger \in BOOLEAN,
         d' = Analyser!Record(i_trigger)
  PROVE  AnRecords'
<1>1. PICK w, n, m : w = d.waddr /\ n = d.now /\ m = d.mem
  OBVIOUS
<1>2. PICK w1, n1, m1 : w1 = d'.waddr /\ n1 = d'.now /\ m1 = d'.mem
  OBVIOUS
<1>3. w \in AnSlot /\ n \in 0 .. AnM - 1 /\ m \in [AnSlot -> Int]
  BY <1>1 DEF AnTypes
<1>4. PICK r : r = d'
  OBVIOUS
<1>5. /\ (r.triggered <=> d.triggered \/ Analyser!Trigger(i_trigger))
      /\ (r.stopped <=> d.triggered /\ d.counter >= d.holdoff)
      /\ r.trig = (IF ~d.triggered /\ Analyser!Trigger(i_trigger) THEN d.now ELSE d.trig)
      /\ r.counter = (IF d.triggered THEN d.counter + 1 ELSE d.counter)
      /\ r.primed /\ r.waddr = (d.waddr + 1) % LEN
      /\ r.mem = [d.mem EXCEPT ![d.waddr] = d.pipe] /\ r.pipe = d.now
      /\ r.now = (d.now + 1) % AnM /\ r.holdoff = d.holdoff
  BY <1>4, AnClocked
<1>6. /\ w1 = (w + 1) % LEN /\ n1 = (n + 1) % AnM /\ m1 = [m EXCEPT ![w] = (n - 1) % AnM]
      /\ \E word : word = (n - 1) % AnM /\ AnStores(w, n, m, word, w1, n1, m1)
  <2>1. w1 = (w + 1) % LEN /\ n1 = (n + 1) % AnM /\ m1 = [m EXCEPT ![w] = (n - 1) % AnM]
    BY <1>1, <1>2, <1>4, <1>5 DEF AnRecords, AnLaterRounds, AnAgo
  <2> QED
    BY <1>3, <2>1 DEF AnStores
<1>7. AnFull(w, n, m)
  BY <1>1 DEF AnRecords, AnLaterRounds, AnAgo, AnBack, AnFull
<1>8. AnFull(w1, n1, m1) /\ n = (n1 - 1) % AnM /\ m1[w1] = (n1 - (LEN + 1)) % AnM
  <2>1. PICK word : word = (n - 1) % AnM /\ AnStores(w, n, m, word, w1, n1, m1)
    BY <1>6
  <2> QED
    BY <1>7, <2>1, AnLaterStep
<1>9. AnLaterRounds' /\ d'.mem[d'.waddr] = AnAgo(LEN + 1)'
  <2>1. d'.pipe = n
    BY <1>1, <1>4, <1>5
  <2> QED
    BY <1>2, <1>8, <2>1 DEF AnLaterRounds, AnAgo, AnBack, AnFull
<1>10. d.counter \in Nat /\ d.holdoff \in Nat /\ d.triggered \in BOOLEAN
  BY DEF AnTypes
<1>11. r.triggered => r.trig \in Nat /\ r.now = (r.trig + 1 + r.counter) % AnM
  <2>1. AnM \in Nat \ {0} /\ 1 \in -AnM .. AnM
    BY AnLength
  <2>2. CASE d.triggered
    <3>1. PICK x \in Int, z \in Int, g \in Nat : x = d.trig + 1 + d.counter /\ z = d.trig /\ g = d.counter
      BY <1>10, <2>2 DEF AnRecords
    <3>2. n = x % AnM /\ n1 = (n + 1) % AnM
      BY <1>1, <1>6, <2>2, <3>1 DEF AnRecords
    <3>3. n1 = (x + 1) % AnM
      BY <2>1, <3>2, PartShift
    <3>4. x + 1 = z + 1 + (g + 1)
      BY <2>2, <3>1 DEF AnRecords
    <3>5. r.trig = z /\ r.counter = g + 1 /\ r.now = n1 /\ z \in Nat
      BY <1>2, <1>4, <1>5, <2>2, <3>1 DEF AnRecords
    <3> QED
      BY <3>3, <3>4, <3>5
  <2>3. CASE ~d.triggered /\ r.triggered
    <3>1. r.trig = n /\ r.counter = 0 /\ r.now = (n + 1) % AnM
      BY <1>1, <1>5, <2>3 DEF AnRecords
    <3>2. n \in Nat /\ n + 1 = n + 1 + 0
      BY <1>3, AnLength
    <3> QED
      BY <3>1, <3>2
  <2> QED
    BY <2>2, <2>3
<1>12. ~r.triggered => r.counter = 0
  BY <1>5 DEF AnRecords
<1>13. IF r.stopped THEN r.triggered /\ r.counter = r.holdoff + 1 ELSE r.triggered => r.counter <= r.holdoff
  <2>1. /\ (r.triggered <=> d.triggered \/ Analyser!Trigger(i_trigger)) /\ r.holdoff = d.holdoff
        /\ (r.stopped <=> d.triggered /\ d.counter >= d.holdoff)
        /\ r.counter = (IF d.triggered THEN d.counter + 1 ELSE d.counter)
    BY <1>5
  <2>2. IF d.triggered THEN d.counter <= d.holdoff ELSE d.counter = 0
    BY DEF AnRecords
  <2>3. CASE d.triggered
    <3>1. d.counter <= d.holdoff /\ r.counter = d.counter + 1 /\ r.triggered
      BY <2>1, <2>2, <2>3
    <3>2. r.stopped <=> d.counter >= d.holdoff
      BY <2>1, <2>3
    <3>3. r.stopped => r.counter = r.holdoff + 1
      BY <1>10, <2>1, <3>1, <3>2
    <3>4. ~r.stopped => r.counter <= r.holdoff
      BY <1>10, <2>1, <3>1, <3>2
    <3> QED
      BY <3>1, <3>3, <3>4
  <2>4. CASE ~d.triggered
    BY <1>10, <2>1, <2>2, <2>4
  <2> QED
    BY <2>3, <2>4
<1> QED
  BY <1>4, <1>5, <1>9, <1>11, <1>12, <1>13 DEF AnRecords

LEMMA AnRecordsBegin ==
  ASSUME AnTypes, d.armed, ~d.stopped, ~d.primed, AnRecords, NEW i_trigger \in BOOLEAN,
         d' = Analyser!Record(i_trigger)
  PROVE  AnRecords'
<1>1. PICK w, m : w = d.waddr /\ m = d.mem
  OBVIOUS
<1>2. PICK w1, n1, m1 : w1 = d'.waddr /\ n1 = d'.now /\ m1 = d'.mem
  OBVIOUS
<1>3. w \in AnSlot /\ m \in [AnSlot -> Int] /\ w \in Nat
  BY <1>1, AnLength DEF AnTypes
<1>4. PICK r : r = d'
  OBVIOUS
<1>5. d.now = w /\ d.pipe = w - 1 /\ d.counter = 0 /\ ~d.triggered /\ (\A a \in 0 .. w - 1 : m[a] = a - 1)
  BY <1>1 DEF AnRecords, AnFirstRound
<1>6. /\ ~r.triggered /\ ~r.stopped /\ r.counter = 0
      /\ r.primed = (d.waddr = LEN - 1) /\ r.waddr = (d.waddr + 1) % LEN
      /\ r.mem = [d.mem EXCEPT ![d.waddr] = d.pipe] /\ r.pipe = d.now
      /\ r.now = (d.now + 1) % AnM
  <2>1. /\ r.triggered <=> d.triggered \/ Analyser!Trigger(i_trigger)
        /\ r.stopped <=> d.triggered /\ d.counter >= d.holdoff
    BY <1>4, AnClocked
  <2>2. /\ r.counter = IF d.triggered THEN d.counter + 1 ELSE d.counter
        /\ r.primed = (d.primed \/ d.waddr = LEN - 1) /\ r.waddr = (d.waddr + 1) % LEN
        /\ r.mem = [d.mem EXCEPT ![d.waddr] = d.pipe] /\ r.pipe = d.now
        /\ r.now = (d.now + 1) % AnM
    BY <1>4, AnClocked
  <2>3. ~Analyser!Trigger(i_trigger)
    BY DEF Analyser!Trigger
  <2>4. r.primed = (d.waddr = LEN - 1)
    BY <2>2
  <2> QED
    BY <1>5, <2>1, <2>2, <2>3, <2>4
<1>7. AnStores(w, w, m, w - 1, w1, n1, m1) /\ AnFilling(w, m)
  <2>1. w1 = (w + 1) % LEN /\ n1 = (w + 1) % AnM /\ m1 = [m EXCEPT ![w] = w - 1]
    BY <1>1, <1>2, <1>4, <1>5, <1>6
  <2>2. w \in 0 .. AnM - 1
    BY <1>3, AnLength DEF AnSlot
  <2> QED
    BY <1>3, <1>5, <2>1, <2>2 DEF AnStores, AnFilling
<1>8. IF w = LEN - 1 THEN AnFull(w1, n1, m1) /\ w = (n1 - 1) % AnM
                     ELSE n1 = w1 /\ w = n1 - 1 /\ AnFilling(w1, m1)
  BY <1>7, AnFirstStep
<1>9. d'.pipe = w /\ (d'.primed <=> w = LEN - 1)
  BY <1>1, <1>4, <1>5, <1>6
<1>10. IF d'.primed THEN AnLaterRounds' ELSE AnFirstRound'
  BY <1>2, <1>8, <1>9 DEF AnLaterRounds, AnFirstRound, AnAgo, AnBack, AnFull, AnFilling
<1> QED
  BY <1>4, <1>6, <1>10 DEF AnRecords

LEMMA AnRecordsKept ==
  ASSUME AnTypes, d.armed => AnRecords, NEW i_trigger \in BOOLEAN, d' = Analyser!Record(i_trigger)
  PROVE  AnRecords'
<1>1. PICK r : r = d'
  OBVIOUS
<1>2. CASE ~d.armed
  <2>1. /\ ~r.triggered /\ ~r.stopped /\ ~r.primed /\ r.counter = 0
        /\ r.waddr = 0 /\ r.pipe = -1 /\ r.now = 0
    BY <1>1, <1>2, AnClocked
  <2>2. AnFirstRound'
    BY <1>1, <2>1 DEF AnFirstRound
  <2> QED
    BY <1>1, <2>1, <2>2 DEF AnRecords
<1>3. CASE d.armed /\ d.stopped
  <2>1. /\ r.counter = d.counter /\ r.primed = d.primed /\ r.waddr = d.waddr
        /\ r.mem = d.mem /\ r.pipe = d.pipe /\ r.now = d.now /\ r.holdoff = d.holdoff
    BY <1>1, <1>3, AnClocked
  <2>2. /\ d.triggered /\ d.counter = d.holdoff + 1 /\ d.primed /\ AnLaterRounds /\ d.trig \in Nat
        /\ d.mem[d.waddr] = AnAgo(LEN + 1) /\ d.now = (d.trig + 1 + d.counter) % AnM
        /\ d.counter >= d.holdoff
    <3>1. d.holdoff \in Nat
      BY DEF AnTypes
    <3> QED
      BY <1>3, <3>1 DEF AnRecords
  <2>3. r.triggered /\ r.stopped /\ r.trig = d.trig
    BY <1>1, <1>3, <2>2, AnClocked
  <2>4. AnLaterRounds' /\ AnAgo(LEN + 1)' = AnAgo(LEN + 1)
    BY <1>1, <2>1, <2>2 DEF AnLaterRounds, AnAgo, AnBack
  <2> QED
    BY <1>1, <2>1, <2>2, <2>3, <2>4 DEF AnRecords
<1>4. CASE d.armed /\ ~d.stopped /\ d.primed
  BY <1>4, AnRecordsGo
<1>5. CASE d.armed /\ ~d.stopped /\ ~d.primed
  BY <1>5, AnRecordsBegin
<1> QED
  BY <1>2, <1>3, <1>4, <1>5

\* What has stopped stays as it is.
LEMMA AnStopped ==
  ASSUME AnTypes, d.armed, d.stopped, AnRecords, NEW i_trigger \in BOOLEAN, d' = Analyser!Record(i_trigger)
  PROVE  d'.armed /\ d'.stopped /\ d'.waddr = d.waddr /\ d'.mem = d.mem /\ d'.holdoff = d.holdoff
<1>1. PICK r : r = d'
  OBVIOUS
<1>2. d.triggered /\ d.counter >= d.holdoff
  <2>1. d.holdoff \in Nat
    BY DEF AnTypes
  <2>2. d.triggered /\ d.counter = d.holdoff + 1
    BY DEF AnRecords
  <2> QED
    BY <2>1, <2>2
<1>3. /\ r.armed = TRUE /\ r.holdoff = d.holdoff
      /\ r.stopped <=> d.triggered /\ d.counter >= d.holdoff
      /\ r.waddr = d.waddr /\ r.mem = d.mem
  BY <1>1, AnClocked
<1> QED
  BY <1>1, <1>2, <1>3

AnOps == {"none", "arm", "poll", "data"}

\* A clock of the bus.
LEMMA AnBusClocked ==
  ASSUME NEW op \in AnOps, NEW o, o = Analyser!Bus(op)
  PROVE  /\ o.raddr = (IF ~d.armed \/ op = "arm" THEN 0
                       ELSE IF op = "data" /\ d.stopped THEN (b.raddr + 1) % LEN ELSE b.raddr)
         /\ o.this_addr = (b.raddr + d.waddr + (IF op = "data" THEN 1 ELSE 0)) % LEN
         /\ o.nxt_mem = d.mem[b.this_addr]
         /\ (o.read_address <=> op = "data") /\ (o.pre_ack <=> op # "none")
         /\ o.ack = b.pre_ack
         /\ ~b.read_address => /\ o.out.ready <=> d.stopped /\ d.triggered
                               /\ o.out.zero <=> b.raddr = 0
                               /\ o.out.hold = d.holdoff
         /\ b.read_address /\ d.stopped => o.out.word = b.nxt_mem
BY DEF Analyser!Bus, Analyser!Reads, Analyser!Ahead

AnBuses ==
  [raddr : AnSlot, this_addr : AnSlot, nxt_mem : Int, read_address : BOOLEAN,
   pre_ack : BOOLEAN, ack : BOOLEAN,
   out : [ready : BOOLEAN, zero : BOOLEAN, hold : Nat, word : Int]]

LEMMA AnBusTypes ==
  ASSUME AnTypes, NEW op \in AnOps PROVE Analyser!Bus(op) \in AnBuses
<1>1. PICK x \in AnSlot, y \in AnSlot, z \in AnSlot : x = b.raddr /\ y = d.waddr /\ z = b.this_addr
  BY DEF AnTypes
<1>2. (x + 1) % LEN \in AnSlot /\ (x + y + 1) % LEN \in AnSlot /\ (x + y + 0) % LEN \in AnSlot
  BY AnLength DEF AnSlot
<1>3. PICK v1, v2, v3, v4 :
        /\ v1 = (IF ~d.armed \/ op = "arm" THEN 0
                 ELSE IF Analyser!Reads(op) /\ d.stopped THEN (b.raddr + 1) % LEN ELSE b.raddr)
        /\ v2 = Analyser!Ahead(op) /\ v3 = d.mem[b.this_addr]
        /\ v4 = (IF ~b.read_address
                 THEN [ready |-> d.stopped /\ d.triggered, zero |-> b.raddr = 0, hold |-> d.holdoff,
                       word |-> 0]
                 ELSE [ready |-> FALSE, zero |-> FALSE, hold |-> 0,
                       word |-> IF d.stopped THEN b.nxt_mem ELSE d.now])
  OBVIOUS
<1>4. v1 \in AnSlot
  BY <1>1, <1>2, <1>3, AnLength
<1>5. v2 \in AnSlot
  BY <1>1, <1>2, <1>3 DEF Analyser!Ahead
<1>6. v3 \in Int
  BY <1>1, <1>3 DEF AnTypes
<1>7. v4 \in [ready : BOOLEAN, zero : BOOLEAN, hold : Nat, word : Int]
  <2>1. d.holdoff \in Nat /\ b.nxt_mem \in Int /\ d.now \in Int /\ 0 \in Nat /\ 0 \in Int
    BY AnLength DEF AnTypes
  <2>2. (d.stopped /\ d.triggered) \in BOOLEAN /\ (b.raddr = 0) \in BOOLEAN /\ FALSE \in BOOLEAN
    OBVIOUS
  <2> QED
    BY <1>3, <2>1, <2>2
<1>8. Analyser!Reads(op) \in BOOLEAN /\ (op # "none") \in BOOLEAN /\ b.pre_ack \in BOOLEAN
  BY DEF Analyser!Reads, AnTypes
<1>9. Analyser!Bus(op) = [raddr |-> v1, this_addr |-> v2, nxt_mem |-> v3,
                          read_address |-> Analyser!Reads(op), pre_ack |-> op # "none",
                          ack |-> b.pre_ack, out |-> v4]
  BY <1>3 DEF Analyser!Bus
<1> QED
  BY <1>4, <1>5, <1>6, <1>7, <1>8, <1>9 DEF AnBuses

AnPrograms ==
  [st : {"idle", "armed", "asked", "read", "full"}, vec : BOOLEAN, asked : 0 .. LEN,
   buf : Seq(Int), hold : Nat, zero : BOOLEAN]

\* A clock in which the analyser is not armed anew.
AnRuns(op, i_trigger) ==
  /\ op \in {"none", "poll", "data"} /\ i_trigger \in BOOLEAN
  /\ d' = Analyser!Record(i_trigger) /\ b' = Analyser!Bus(op)

LEMMA AnRun ==
  ASSUME AnTypes, d.armed => AnRecords, NEW op, NEW i_trigger, AnRuns(op, i_trigger)
  PROVE  /\ d'.armed /\ AnRecords'
         /\ (b'.pre_ack <=> op # "none") /\ b'.ack = b.pre_ack /\ (b'.read_address <=> op = "data")
         /\ h' \in AnPrograms => AnTypes'
<1>1. PICK r, o : r = d' /\ o = b'
  OBVIOUS
<1>2. /\ op \in AnOps /\ i_trigger \in BOOLEAN /\ op # "arm"
      /\ d' = Analyser!Record(i_trigger) /\ o = Analyser!Bus(op)
  BY <1>1 DEF AnRuns, AnOps
<1>3. AnRecords' /\ d' \in AnRecordings /\ b' \in AnBuses
  BY <1>1, <1>2, AnRecordsKept, AnRecording, AnBusTypes
<1>4. r.armed
  BY <1>1, <1>2, AnClocked
<1>5. (o.pre_ack <=> op # "none") /\ o.ack = b.pre_ack /\ (o.read_address <=> op = "data")
  BY <1>2, AnBusClocked
<1>6. h' \in AnPrograms => AnTypes'
  BY <1>3 DEF AnTypes, AnRecordings, AnBuses, AnPrograms
<1> QED
  BY <1>1, <1>3, <1>4, <1>5, <1>6

\* The answers that are due after it.
LEMMA AnDueAfter ==
  ASSUME AnTypes, d.armed => AnRecords, NEW op, NEW i_trigger, AnRuns(op, i_trigger)
  PROVE  AnDue' = (IF op # "none" THEN 1 ELSE 0) + (IF b.pre_ack THEN 1 ELSE 0)
BY AnRun DEF AnDue

\* The look-ahead, once the recording has stopped.
LEMMA AnAheadKept ==
  ASSUME AnTypes, d.armed, d.stopped, AnRecords, NEW op, NEW i_trigger, AnRuns(op, i_trigger)
  PROVE  /\ AnAhead' /\ d'.holdoff = d.holdoff
         /\ \A k : AnNext(k)' = AnNext(k)
         /\ b'.raddr = (IF op = "data" THEN (b.raddr + 1) % LEN ELSE b.raddr)
         /\ b'.nxt_mem = d.mem[b.this_addr]
<1>1. PICK r, o : r = d' /\ o = b'
  OBVIOUS
<1>2. /\ op \in AnOps /\ i_trigger \in BOOLEAN /\ op # "arm"
      /\ d' = Analyser!Record(i_trigger) /\ o = Analyser!Bus(op)
  BY <1>1 DEF AnRuns, AnOps
<1>3. r.armed /\ r.stopped /\ r.waddr = d.waddr /\ r.mem = d.mem /\ r.holdoff = d.holdoff
  BY <1>1, <1>2, AnStopped
<1>4. /\ o.raddr = (IF op = "data" THEN (b.raddr + 1) % LEN ELSE b.raddr)
      /\ o.this_addr = (b.raddr + d.waddr + (IF op = "data" THEN 1 ELSE 0)) % LEN
      /\ o.nxt_mem = d.mem[b.this_addr]
  BY <1>2, AnBusClocked
<1>5. o.this_addr = (o.raddr + r.waddr) % LEN
  <2>1. PICK x \in Int, y \in Int : x = b.raddr /\ y = d.waddr /\ y \in -LEN .. LEN
    BY AnLength DEF AnTypes, AnSlot
  <2>2. PICK z \in Int : z = x + 1
    BY <2>1
  <2>3. (((x + 1) % LEN) + y) % LEN = ((x + 1) + y) % LEN
    <3>1. LEN \in Nat \ {0}
      BY AnLength
    <3>2. y \in -LEN .. LEN
      BY <2>1
    <3>3. ((z % LEN) + y) % LEN = (z + y) % LEN
      BY <3>1, <3>2, PartShift
    <3> QED
      BY <2>2, <3>3
  <2>4. (x + 1) + y = x + y + 1 /\ x + y + 0 = x + y
    BY <2>1
  <2>5. CASE op = "data"
    BY <1>3, <1>4, <2>1, <2>3, <2>4, <2>5
  <2>6. CASE op # "data"
    BY <1>3, <1>4, <2>1, <2>4, <2>6
  <2> QED
    BY <2>5, <2>6
<1> QED
  BY <1>1, <1>3, <1>4, <1>5 DEF AnAhead, AnNext

\* The program's part, by where it is.
LEMMA AnIdleClock ==
  ASSUME AnInv, h.st = "idle", NEW op, NEW i_trigger, NEW vec, AnRuns(op, i_trigger),
         Analyser!May(op), h' = Analyser!Host(op, vec)
  PROVE  AnInv'
<1>1. AnTypes /\ (d.armed => AnRecords) /\ AnDue = 0 /\ h.asked = 0 /\ h.buf = << >>
  BY DEF AnInv, AnAsks
<1>2. op \in {"none", "poll"}
  BY DEF AnRuns, Analyser!May
<1>3. h' = (IF op = "poll" THEN [h EXCEPT !.st = "asked"] ELSE h)
  BY <1>2 DEF Analyser!Host
<1>4. h \in AnPrograms
  BY <1>1 DEF AnTypes, AnPrograms
<1>5. h' \in AnPrograms
  BY <1>3, <1>4 DEF AnPrograms
<1>6. ~b.pre_ack /\ ~b.ack
  BY <1>1 DEF AnDue
<1>7. PICK r, o, p : r = d' /\ o = b' /\ p = h'
  OBVIOUS
<1>8. r.armed /\ AnRecords' /\ (o.read_address <=> op = "data") /\ o.ack = b.pre_ack /\ AnTypes'
  BY <1>1, <1>5, <1>7, AnRun
<1>9. AnDue' = (IF op # "none" THEN 1 ELSE 0)
  BY <1>1, <1>6, AnDueAfter
<1>10. p.st = (IF op = "poll" THEN "asked" ELSE "idle") /\ p.asked = 0 /\ p.buf = << >>
  BY <1>1, <1>3, <1>4, <1>7 DEF AnPrograms
<1>11. AnAsks'
  BY <1>2, <1>6, <1>7, <1>8, <1>9, <1>10 DEF AnAsks
<1>12. AnReads'
  BY <1>7, <1>10 DEF AnReads
<1> QED
  BY <1>7, <1>8, <1>11, <1>12 DEF AnInv

LEMMA AnArmedClock ==
  ASSUME AnInv, h.st = "armed", NEW op, NEW i_trigger, NEW vec, AnRuns(op, i_trigger),
         Analyser!May(op), h' = Analyser!Host(op, vec)
  PROVE  AnInv'
<1>1. AnTypes /\ (d.armed => AnRecords) /\ AnDue = 1 /\ h.asked = 0 /\ h.buf = << >>
  BY DEF AnInv, AnAsks
<1>2. op = "none"
  BY DEF AnRuns, Analyser!May
<1>3. h' = (IF b.ack THEN Analyser!Idle ELSE h)
  BY <1>2 DEF Analyser!Host
<1>4. h \in AnPrograms /\ b.ack \in BOOLEAN /\ b.pre_ack \in BOOLEAN
  BY <1>1 DEF AnTypes, AnPrograms
<1>5. Analyser!Idle \in AnPrograms
  <2>1. << >> \in Seq(Int) /\ 0 \in 0 .. LEN /\ FALSE \in BOOLEAN
    BY AnLength
  <2> QED
    BY <2>1 DEF Analyser!Idle, AnPrograms
<1>6. h' \in AnPrograms
  BY <1>3, <1>4, <1>5
<1>7. PICK r, o, p : r = d' /\ o = b' /\ p = h'
  OBVIOUS
<1>8. r.armed /\ AnRecords' /\ (o.read_address <=> op = "data") /\ o.ack = b.pre_ack /\ AnTypes'
  BY <1>1, <1>6, <1>7, AnRun
<1>9. AnDue' = (IF b.pre_ack THEN 1 ELSE 0) /\ (b.pre_ack <=> ~b.ack)
  <2>1. AnDue' = 0 + (IF b.pre_ack THEN 1 ELSE 0)
    BY <1>1, <1>2, AnDueAfter
  <2> QED
    BY <1>1, <2>1 DEF AnDue
<1>10. p.st = (IF b.ack THEN "idle" ELSE "armed") /\ p.asked = 0 /\ p.buf = << >>
  BY <1>1, <1>3, <1>4, <1>7 DEF AnPrograms, Analyser!Idle
<1>11. AnAsks'
  BY <1>7, <1>8, <1>9, <1>10 DEF AnAsks
<1>12. AnReads'
  BY <1>7, <1>10 DEF AnReads
<1> QED
  BY <1>7, <1>8, <1>11, <1>12 DEF AnInv

LEMMA AnAskedClock ==
  ASSUME AnInv, h.st = "asked", NEW op, NEW i_trigger, NEW vec \in BOOLEAN, AnRuns(op, i_trigger),
         Analyser!May(op), h' = Analyser!Host(op, vec)
  PROVE  AnInv'
<1>1. /\ AnTypes /\ (d.armed => AnRecords) /\ d.armed /\ AnDue = 1 /\ h.asked = 0 /\ h.buf = << >>
      /\ ~b.read_address
      /\ b.ack /\ b.out.ready => AnAhead /\ b.out.hold = d.holdoff /\ (b.out.zero => b.raddr = 0)
  BY DEF AnInv, AnAsks
<1>2. op = "none"
  BY DEF AnRuns, Analyser!May
<1>3. h' = (IF b.ack THEN Analyser!Polled(vec) ELSE h)
  BY <1>2 DEF Analyser!Host
<1>4. h \in AnPrograms /\ b.ack \in BOOLEAN /\ b.pre_ack \in BOOLEAN /\ b.out.hold \in Nat /\ b.out.zero \in BOOLEAN
  BY <1>1 DEF AnTypes, AnPrograms
<1>5. Analyser!Idle \in AnPrograms
  <2>1. << >> \in Seq(Int) /\ 0 \in 0 .. LEN /\ FALSE \in BOOLEAN
    BY AnLength
  <2> QED
    BY <2>1 DEF Analyser!Idle, AnPrograms
<1>6. h' \in AnPrograms
  BY <1>3, <1>4, <1>5 DEF Analyser!Polled, AnPrograms
<1>7. PICK r, o, p : r = d' /\ o = b' /\ p = h'
  OBVIOUS
<1>8. /\ r.armed /\ AnRecords' /\ ~o.read_address /\ ~o.pre_ack /\ o.ack = b.pre_ack /\ AnTypes'
  BY <1>1, <1>2, <1>6, <1>7, AnRun
<1>9. AnDue' = (IF b.pre_ack THEN 1 ELSE 0) /\ (b.pre_ack <=> ~b.ack)
  <2>1. AnDue' = 0 + (IF b.pre_ack THEN 1 ELSE 0)
    BY <1>1, <1>2, AnDueAfter
  <2> QED
    BY <1>1, <2>1 DEF AnDue
<1>10. IF b.ack THEN IF b.out.ready THEN /\ p.st = "read" /\ p.hold = b.out.hold /\ (p.zero <=> b.out.zero)
                                         /\ p.asked = 0 /\ p.buf = << >>
                                    ELSE p.st = "idle" /\ p.asked = 0 /\ p.buf = << >>
       ELSE p.st = "asked" /\ p.asked = 0 /\ p.buf = << >>
  BY <1>1, <1>3, <1>4, <1>7 DEF AnPrograms, Analyser!Idle, Analyser!Polled
<1>11. d.stopped => /\ AnAhead' /\ r.holdoff = d.holdoff /\ o.raddr = b.raddr
  BY <1>1, <1>2, <1>7, AnAheadKept
<1>12. o.out.ready => d.stopped
  BY <1>1, <1>2, <1>7, AnBusClocked DEF AnRuns, AnOps
<1>13. o.out.ready => o.out.hold = d.holdoff /\ (o.out.zero => b.raddr = 0)
  BY <1>1, <1>2, <1>7, AnBusClocked DEF AnRuns, AnOps
<1>14. AnAsks'
  BY <1>7, <1>8, <1>9, <1>10, <1>11, <1>12, <1>13 DEF AnAsks
<1>15. AnReads'
  <2>1. CASE b.ack /\ b.out.ready
    <3>1. d.stopped /\ b.out.hold = d.holdoff /\ (b.out.zero => b.raddr = 0)
      BY <1>1, <2>1 DEF AnAhead
    <3>2. /\ AnAhead' /\ r.holdoff = d.holdoff /\ o.raddr = b.raddr
      BY <1>11, <3>1
    <3>3. p.st = "read" /\ p.hold = r.holdoff /\ p.asked = 0 /\ p.buf = << >> /\ (p.zero => o.raddr = 0)
      BY <1>10, <2>1, <3>1, <3>2
    <3>4. AnDue' = 0 /\ ~o.ack /\ ~o.pre_ack /\ ~o.read_address /\ o.read_address = o.pre_ack
      <4>1. AnDue' = 0 /\ ~o.ack /\ ~o.pre_ack /\ ~o.read_address
        BY <1>8, <1>9, <2>1
      <4>2. o.read_address \in BOOLEAN /\ o.pre_ack \in BOOLEAN
        BY <1>7, <1>8 DEF AnTypes
      <4> QED
        BY <4>1, <4>2
    <3>5. Len(<< >>) = 0 /\ 0 # LEN
      BY AnLength
    <3> QED
      BY <1>7, <3>2, <3>3, <3>4, <3>5 DEF AnReads
  <2>2. CASE ~(b.ack /\ b.out.ready)
    <3>1. p.st \in {"idle", "asked"}
      BY <1>10, <2>2
    <3> QED
      BY <1>7, <3>1 DEF AnReads
  <2> QED
    BY <2>1, <2>2
<1> QED
  BY <1>7, <1>8, <1>14, <1>15 DEF AnInv

LEMMA AnReadClock ==
  ASSUME AnInv, h.st = "read", NEW op, NEW i_trigger, NEW vec \in BOOLEAN, AnRuns(op, i_trigger),
         Analyser!May(op), h' = Analyser!Host(op, vec)
  PROVE  AnInv'
<1>1. /\ AnTypes /\ AnRecords /\ d.armed /\ d.stopped /\ b.this_addr = (b.raddr + d.waddr) % LEN
      /\ h.hold = d.holdoff /\ b.read_address = b.pre_ack /\ h.asked = Len(h.buf) + AnDue
  BY DEF AnInv, AnReads, AnAhead
<1>2. h.zero => /\ b.raddr = (IF h.asked = LEN THEN 0 ELSE h.asked)
                /\ \A i \in 1 .. Len(h.buf) : h.buf[i] = AnNext(i - 1)
                /\ b.ack => b.out.word = AnNext(Len(h.buf))
                /\ b.pre_ack => b.nxt_mem = AnNext(h.asked - 1)
  BY DEF AnInv, AnReads
<1>3. op \in {"none", "data"} /\ (op = "data" => h.asked < LEN)
  BY DEF AnRuns, Analyser!May
<1>4. h' = Analyser!ReadOn(op)
  BY <1>3 DEF Analyser!Host
<1>5. PICK u, s : u = h.buf /\ s = (IF b.ack THEN Append(h.buf, b.out.word) ELSE h.buf)
  OBVIOUS
<1>6. /\ h \in AnPrograms /\ b.ack \in BOOLEAN /\ b.pre_ack \in BOOLEAN /\ b.out.word \in Int
      /\ b.read_address \in BOOLEAN
  BY <1>1 DEF AnTypes, AnPrograms
<1>7. u \in Seq(Int) /\ h.asked \in 0 .. LEN /\ Len(u) \in Nat
  BY <1>5, <1>6 DEF AnPrograms
<1>20. PICK a, e, g : /\ a = (IF b.ack THEN 1 ELSE 0) /\ e = (IF b.pre_ack THEN 1 ELSE 0)
                      /\ g = (IF op = "data" THEN 1 ELSE 0)
  OBVIOUS
<1>21. /\ a \in {0, 1} /\ e \in {0, 1} /\ g \in {0, 1} /\ (a = 1 <=> b.ack) /\ (e = 1 <=> b.pre_ack)
       /\ (g = 1 <=> op = "data")
  BY <1>20
<1>8. s \in Seq(Int) /\ Len(s) = Len(u) + a
  <2>1. CASE b.ack
    <3>1. s = Append(u, b.out.word) /\ a = 1
      BY <1>5, <1>20, <2>1
    <3> QED
      BY <1>6, <1>7, <3>1
  <2>2. CASE ~b.ack
    BY <1>5, <1>7, <1>20, <2>2
  <2> QED
    BY <2>1, <2>2
<1>9. PICK r, o, p : r = d' /\ o = b' /\ p = h'
  OBVIOUS
<1>10. /\ p.buf = s /\ p.asked = h.asked + g /\ p.zero = h.zero
       /\ p.hold = h.hold /\ p.st = (IF Len(s) = LEN THEN "full" ELSE "read") /\ p \in AnPrograms
  <2>1. p = [h EXCEPT !.buf = s, !.asked = @ + g,
                      !.st = IF Len(s) = LEN THEN "full" ELSE "read"]
    BY <1>4, <1>5, <1>9, <1>20 DEF Analyser!ReadOn
  <2>2. h.asked + g \in 0 .. LEN
    BY <1>3, <1>7, <1>21, AnLength
  <2> QED
    BY <1>6, <1>8, <2>1, <2>2 DEF AnPrograms
<1>11. /\ r.armed /\ AnRecords' /\ (o.read_address <=> op = "data") /\ (o.pre_ack <=> op # "none")
       /\ o.ack = b.pre_ack /\ AnTypes'
  BY <1>1, <1>9, <1>10, AnRun
<1>12. AnDue' = g + e
  <2>1. AnDue' = (IF op # "none" THEN 1 ELSE 0) + (IF b.pre_ack THEN 1 ELSE 0)
    BY <1>1, AnDueAfter
  <2> QED
    BY <1>3, <1>20, <2>1
<1>13. /\ AnAhead' /\ r.holdoff = d.holdoff /\ \A k : AnNext(k)' = AnNext(k)
       /\ o.raddr = (IF op = "data" THEN (b.raddr + 1) % LEN ELSE b.raddr)
       /\ o.nxt_mem = d.mem[b.this_addr]
  BY <1>1, <1>9, AnAheadKept
<1>14. h.asked = Len(u) + (e + a)
  BY <1>1, <1>5, <1>20 DEF AnDue
<1>15. p.asked = Len(s) + AnDue'
  BY <1>7, <1>8, <1>10, <1>12, <1>14, <1>21
<1>16. AnAsks'
  <2>1. p.st \in {"read", "full"} /\ (p.st = "full" => AnDue' = 0)
    <3>1. p.asked \in 0 .. LEN
      BY <1>10 DEF AnPrograms
    <3> QED
      BY <1>8, <1>10, <1>12, <1>15, <1>21, <3>1
  <2> QED
    BY <1>9, <1>11, <2>1 DEF AnAsks
<1>17. (o.read_address <=> o.pre_ack) /\ o.read_address \in BOOLEAN /\ o.pre_ack \in BOOLEAN
  <2>1. o.read_address \in BOOLEAN /\ o.pre_ack \in BOOLEAN
    BY <1>9, <1>11 DEF AnTypes
  <2> QED
    BY <1>3, <1>11, <2>1
<1>18. ASSUME p.zero
       PROVE  /\ o.raddr = (IF p.asked = LEN THEN 0 ELSE p.asked)
              /\ \A i \in 1 .. Len(s) : s[i] = AnNext(i - 1)'
              /\ o.ack => o.out.word = AnNext(Len(s))'
              /\ o.pre_ack => o.nxt_mem = AnNext(p.asked - 1)'
  <2>1. /\ b.raddr = (IF h.asked = LEN THEN 0 ELSE h.asked)
        /\ \A i \in 1 .. Len(u) : u[i] = AnNext(i - 1)
        /\ b.ack => b.out.word = AnNext(Len(u))
        /\ b.pre_ack => b.nxt_mem = AnNext(h.asked - 1)
    BY <1>2, <1>5, <1>10, <1>18
  <2>2. o.raddr = (IF p.asked = LEN THEN 0 ELSE p.asked)
    <3>1. CASE op = "data"
      <4>1. PICK x \in 0 .. LEN - 1 : x = h.asked /\ x = b.raddr
        BY <1>3, <1>7, <2>1, <3>1, AnLength
      <4>2. (x + 1) % LEN = (IF x = LEN - 1 THEN 0 ELSE x + 1)
        BY AnLength, PartNext
      <4> QED
        BY <1>10, <1>13, <1>21, <3>1, <4>1, <4>2, AnLength
    <3>2. CASE op # "data"
      BY <1>7, <1>10, <1>13, <1>21, <2>1, <3>2
    <3> QED
      BY <3>1, <3>2
  <2>3. ASSUME NEW i \in 1 .. Len(s) PROVE s[i] = AnNext(i - 1)'
    <3>1. AnNext(i - 1)' = AnNext(i - 1)
      BY <1>13
    <3>2. CASE i \in 1 .. Len(u)
      <4>1. s[i] = u[i]
        BY <1>5, <1>6, <1>7, <3>2
      <4> QED
        BY <2>1, <3>1, <3>2, <4>1
    <3>3. CASE i \notin 1 .. Len(u)
      <4>1. b.ack /\ i = Len(u) + 1
        BY <1>7, <1>8, <1>21, <3>3
      <4>2. s[i] = b.out.word /\ i - 1 = Len(u)
        BY <1>5, <1>6, <1>7, <4>1
      <4> QED
        BY <2>1, <3>1, <4>1, <4>2
    <3> QED
      BY <3>2, <3>3
  <2>4. ASSUME o.ack PROVE o.out.word = AnNext(Len(s))'
    <3>1. b.pre_ack /\ b.read_address /\ b.nxt_mem = AnNext(h.asked - 1)
      BY <1>1, <1>11, <2>1, <2>4
    <3>2. o.out.word = b.nxt_mem
      BY <1>1, <1>9, <3>1, AnBusClocked DEF AnRuns, AnOps
    <3>3. h.asked - 1 = Len(s)
      BY <1>7, <1>8, <1>14, <1>21, <3>1
    <3> QED
      BY <1>13, <3>1, <3>2, <3>3
  <2>5. ASSUME o.pre_ack PROVE o.nxt_mem = AnNext(p.asked - 1)'
    <3>1. op = "data" /\ h.asked < LEN /\ b.raddr = h.asked /\ p.asked - 1 = h.asked
      BY <1>3, <1>7, <1>10, <1>11, <1>21, <2>1, <2>5
    <3>2. (b.raddr + d.waddr) % LEN = (d.waddr + h.asked) % LEN
      <4>1. d.waddr \in Int /\ h.asked \in Int
        <5>1. d.waddr \in AnSlot
          BY <1>1 DEF AnTypes
        <5>2. d.waddr \in Nat
          BY <5>1, AnLength
        <5>3. h.asked \in Nat
          BY <1>7, AnLength
        <5> QED
          BY <5>2, <5>3
      <4>2. h.asked + d.waddr = d.waddr + h.asked
        BY <4>1
      <4> QED
        BY <3>1, <4>2
    <3>3. o.nxt_mem = AnNext(h.asked)
      BY <1>1, <1>13, <3>2 DEF AnNext
    <3> QED
      BY <1>13, <3>1, <3>3
  <2> QED
    BY <2>2, <2>3, <2>4, <2>5
<1>19. AnReads'
  BY <1>1, <1>9, <1>10, <1>13, <1>15, <1>17, <1>18 DEF AnReads
<1> QED
  BY <1>9, <1>11, <1>16, <1>19 DEF AnInv

\* Before the first recording.
LEMMA AnBegins ==
  ASSUME Analyser!Init PROVE AnInv
<1>1. /\ d = [armed |-> FALSE, manual |-> FALSE, disable |-> FALSE, holdoff |-> LEN \div 2 - 4,
              triggered |-> FALSE, primed |-> FALSE, counter |-> 0, stopped |-> FALSE,
              waddr |-> 0, mem |-> Analyser!Stale, pipe |-> -1, now |-> 0, trig |-> -1]
      /\ b = [raddr |-> 0, this_addr |-> 0, nxt_mem |-> -1, read_address |-> FALSE,
              pre_ack |-> FALSE, ack |-> FALSE,
              out |-> [ready |-> FALSE, zero |-> FALSE, hold |-> 0, word |-> 0]]
      /\ h = [st |-> "idle", vec |-> FALSE, asked |-> 0, buf |-> << >>, hold |-> 0, zero |-> FALSE]
  BY DEF Analyser!Init, Analyser!Old, Analyser!Idle
<1>2. /\ 0 \in AnSlot /\ 0 \in 0 .. AnM - 1 /\ 0 \in 0 .. LEN /\ << >> \in Seq(Int)
      /\ LEN \div 2 - 4 \in Nat
  BY AnLength
<1>3. Analyser!Stale \in [AnSlot -> Int]
  BY DEF Analyser!Stale, Analyser!Old, AnSlot
<1>4. AnTypes
  <2>1. d \in AnRecordings
    BY <1>1, <1>2, <1>3 DEF AnRecordings
  <2>2. b \in AnBuses
    BY <1>1, <1>2 DEF AnBuses
  <2>3. h \in AnPrograms
    BY <1>1, <1>2 DEF AnPrograms
  <2> QED
    BY <2>1, <2>2, <2>3 DEF AnTypes, AnRecordings, AnBuses, AnPrograms
<1>5. AnAsks
  BY <1>1 DEF AnAsks, AnDue
<1>6. ~d.armed /\ AnReads
  BY <1>1 DEF AnReads
<1> QED
  BY <1>4, <1>5, <1>6 DEF AnInv

\* A clock, wherever the program is.
LEMMA AnClock ==
  ASSUME AnInv, NEW op \in {"none", "poll", "data"}, NEW i_trigger \in BOOLEAN, NEW vec \in BOOLEAN,
         Analyser!Clock(op, i_trigger, vec)
  PROVE  AnInv'
<1>1. AnRuns(op, i_trigger) /\ Analyser!May(op) /\ h' = Analyser!Host(op, vec) /\ h.st # "full"
  BY DEF Analyser!Clock, AnRuns
<1>2. h.st \in {"idle", "armed", "asked", "read", "full"}
  BY DEF AnInv, AnTypes
<1>3. CASE h.st = "idle"
  BY <1>1, <1>3, AnIdleClock
<1>4. CASE h.st = "armed"
  BY <1>1, <1>4, AnArmedClock
<1>5. CASE h.st = "asked"
  BY <1>1, <1>5, AnAskedClock
<1>6. CASE h.st = "read"
  BY <1>1, <1>6, AnReadClock
<1> QED
  BY <1>1, <1>2, <1>3, <1>4, <1>5, <1>6

\* The write of the control register, with which the next recording begins.
LEMMA AnArm ==
  ASSUME AnInv, NEW i_trigger \in BOOLEAN, NEW hold \in Holdoffs, NEW man \in BOOLEAN,
         NEW dis \in BOOLEAN, Analyser!Arm(i_trigger, hold, man, dis)
  PROVE  AnInv'
<1>1. AnTypes /\ h.st = "idle" /\ AnDue = 0 /\ h.asked = 0 /\ h.buf = << >>
  BY DEF AnInv, AnAsks, Analyser!Arm, Analyser!May
<1>2. PICK q : q = Analyser!Record(i_trigger)
  OBVIOUS
<1>3. q \in AnRecordings
  BY <1>1, <1>2, AnRecording
<1>4. PICK r, o, p : r = d' /\ o = b' /\ p = h'
  OBVIOUS
<1>5. hold \in Nat
  BY ScopeAssumption
<1>6. r = [q EXCEPT !.armed = FALSE, !.holdoff = hold, !.manual = man, !.disable = dis]
  BY <1>2, <1>4 DEF Analyser!Arm
<1>7. r \in AnRecordings /\ ~r.armed
  BY <1>3, <1>5, <1>6 DEF AnRecordings
<1>8. "arm" \in AnOps /\ o = Analyser!Bus("arm")
  BY <1>4 DEF AnOps, Analyser!Arm
<1>9. o \in AnBuses /\ o.pre_ack /\ (o.ack <=> b.pre_ack)
  BY <1>1, <1>8, AnBusTypes, AnBusClocked
<1>10. p = [h EXCEPT !.st = "armed"]
  <2>1. h' = Analyser!Host("arm", FALSE)
    BY DEF Analyser!Arm
  <2>2. Analyser!Host("arm", FALSE) = [h EXCEPT !.st = "armed"]
    BY <1>1 DEF Analyser!Host
  <2> QED
    BY <1>4, <2>1, <2>2
<1>11. h \in AnPrograms
  BY <1>1 DEF AnTypes, AnPrograms
<1>12. p \in AnPrograms /\ p.st = "armed" /\ p.asked = 0 /\ p.buf = << >>
  BY <1>1, <1>10, <1>11 DEF AnPrograms
<1>13. AnTypes'
  BY <1>4, <1>7, <1>9, <1>12 DEF AnTypes, AnRecordings, AnBuses, AnPrograms
<1>14. ~b.pre_ack
  BY <1>1 DEF AnDue
<1>15. AnDue' = 1
  BY <1>4, <1>9, <1>14 DEF AnDue
<1>16. AnAsks'
  BY <1>4, <1>12, <1>15 DEF AnAsks
<1>17. AnReads'
  BY <1>4, <1>12 DEF AnReads
<1> QED
  BY <1>4, <1>7, <1>13, <1>16, <1>17 DEF AnInv

\* A program that is killed or ends leaves no answer on its way.
LEMMA AnLeaves ==
  ASSUME AnInv, Analyser!Killed \/ Analyser!Ends
  PROVE  AnInv'
<1>1. AnTypes /\ (d.armed => AnRecords) /\ d.armed /\ h.asked = Len(h.buf) + AnDue
      /\ (h.st = "full" => Len(h.buf) = LEN)
  BY DEF AnInv, AnReads, AnAhead, Analyser!Killed, Analyser!Ends
<1>2. d' = d /\ b' = b /\ h' = Analyser!Idle
  BY DEF Analyser!Killed, Analyser!Ends
<1>3. PICK p : p = h'
  OBVIOUS
<1>4. p = [st |-> "idle", vec |-> FALSE, asked |-> 0, buf |-> << >>, hold |-> 0, zero |-> FALSE]
  BY <1>2, <1>3 DEF Analyser!Idle
<1>5. p \in AnPrograms /\ p.st = "idle" /\ p.asked = 0 /\ p.buf = << >>
  <2>1. << >> \in Seq(Int) /\ 0 \in 0 .. LEN
    BY AnLength
  <2> QED
    BY <1>4, <2>1 DEF AnPrograms
<1>6. AnDue = 0
  <2>1. h.buf \in Seq(Int) /\ h.asked \in 0 .. LEN
    BY <1>1 DEF AnTypes
  <2>2. AnDue \in {0, 1, 2} /\ Len(h.buf) \in Nat /\ h.asked \in Nat /\ h.asked <= LEN
    BY <2>1, AnLength DEF AnDue
  <2>3. h.asked <= Len(h.buf)
    <3>1. CASE Analyser!Killed
      BY <2>2, <3>1 DEF Analyser!Killed, Analyser!Outstanding
    <3>2. CASE Analyser!Ends
      BY <1>1, <2>2, <3>2 DEF Analyser!Ends
    <3> QED
      BY <3>1, <3>2
  <2> QED
    BY <1>1, <2>2, <2>3
<1>7. AnTypes'
  BY <1>1, <1>2, <1>3, <1>5 DEF AnTypes, AnPrograms
<1>8. AnDue' = 0
  BY <1>2, <1>6 DEF AnDue
<1>9. AnAsks'
  BY <1>2, <1>3, <1>5, <1>8, <1>1 DEF AnAsks
<1>10. AnReads'
  BY <1>3, <1>5 DEF AnReads
<1>11. AnRecords'
  BY <1>1, <1>2 DEF AnRecords, AnFirstRound, AnLaterRounds, AnAgo, AnBack
<1> QED
  BY <1>7, <1>9, <1>10, <1>11 DEF AnInv

\* Every step of the analyser and its program keeps it.
LEMMA AnKept ==
  ASSUME AnInv, Analyser!Next PROVE AnInv'
<1>1. CASE \E i_trigger \in BOOLEAN, op \in {"none", "poll", "data"}, vec \in BOOLEAN :
             Analyser!Clock(op, i_trigger, vec)
  BY <1>1, AnClock
<1>2. CASE \E i_trigger \in BOOLEAN, hold \in Holdoffs, man \in BOOLEAN, dis \in BOOLEAN :
             Analyser!Arm(i_trigger, hold, man, dis)
  BY <1>2, AnArm
<1>3. CASE Analyser!Killed \/ Analyser!Ends
  BY <1>3, AnLeaves
<1> QED
  BY <1>1, <1>2, <1>3 DEF Analyser!Next

\* And the other parts leave them alone.
LEMMA AnAlone ==
  ASSUME AnInv, [PartsNext]_partsvars PROVE AnInv'
<1>1. CASE AnalyserRuns
  BY <1>1, AnKept DEF AnalyserRuns
<1>2. CASE ~AnalyserRuns
  <2>1. d' = d /\ b' = b /\ h' = h
    BY <1>2 DEF PartsNext, partsvars, FifoRuns, DelayRuns, CompressRuns, InputRuns, PipeRuns, SerialRuns,
                scopevars
  <2> QED
    BY <2>1 DEF AnInv, AnTypes, AnRecords, AnFirstRound, AnLaterRounds, AnAgo, AnBack, AnAsks, AnReads,
                AnNext, AnAhead, AnDue
<1> QED
  BY <1>1, <1>2

\* A set of numbers with a bound has a greatest, which CHOOSE finds.
LEMMA PartGreatest ==
  ASSUME NEW m \in Nat, NEW D, D \subseteq 0 .. m, D # {}
  PROVE  Analyser!Max(D) \in D /\ \A y \in D : y <= Analyser!Max(D)
<1>1. PICK F : F = {m - y : y \in D}
  OBVIOUS
<1>2. F \subseteq Nat /\ F # {}
  <2>1. ASSUME NEW y \in D PROVE m - y \in Nat /\ m - y \in F
    <3>1. y \in 0 .. m /\ m - y \in F
      BY <1>1
    <3> QED
      BY <3>1
  <2> QED
    BY <1>1, <2>1
<1>3. PICK f \in F : \A g \in F : f <= g
  BY <1>2, PartLeast
<1>4. PICK x \in D : f = m - x
  BY <1>1, <1>3
<1>5. ASSUME NEW y \in D PROVE y <= x
  <2>1. m - y \in F /\ y \in Int /\ x \in Int
    BY <1>1
  <2>2. m - x <= m - y
    BY <1>3, <1>4, <2>1
  <2> QED
    BY <2>1, <2>2
<1>6. \E z \in D : \A y \in D : z >= y
  BY <1>5
<1> QED
  BY <1>6 DEF Analyser!Max

\* The items between the last one printed and item i equal the one before.
LEMMA AnLines ==
  ASSUME NEW same \in SUBSET (1 .. LEN - 1), NEW i \in 0 .. LEN - 1, NEW lines \in SUBSET (0 .. LEN - 1),
         \A j \in 0 .. LEN - 1 : j \notin same => j \in lines
  PROVE  (Analyser!Max({ j \in lines : j <= i }) + 1) .. i \subseteq same
<1>1. PICK D, x : D = { j \in lines : j <= i } /\ x = Analyser!Max(D)
  OBVIOUS
<1>2. i \in Nat /\ i \in Int /\ LEN \in Nat
  BY AnLength
<1>3. D \subseteq 0 .. i
  <2>1. ASSUME NEW j \in D PROVE j \in 0 .. i
    <3>1. j \in 0 .. LEN - 1 /\ j <= i
      BY <1>1
    <3> QED
      BY <1>2, <3>1
  <2> QED
    BY <2>1
<1>4. 0 \in D
  <2>1. 0 \in 0 .. LEN - 1 /\ 0 \notin same /\ 0 <= i
    BY AnLength
  <2> QED
    BY <1>1, <2>1
<1>5. x \in D /\ \A y \in D : y <= x
  BY <1>1, <1>2, <1>3, <1>4, PartGreatest
<1>6. x \in Nat
  BY <1>2, <1>3, <1>5
<1>7. ASSUME NEW j \in (x + 1) .. i PROVE j \in same
  <2>1. j \in 0 .. LEN - 1 /\ j <= i /\ ~(j <= x)
    BY <1>2, <1>6
  <2>2. j \notin D
    BY <1>5, <2>1
  <2> QED
    BY <1>1, <2>1, <2>2
<1> QED
  BY <1>1, <1>7

\* The whole recording, from the word its memory would have stored next.
LEMMA AnWhole ==
  ASSUME AnTypes, AnRecords, d.stopped, NEW i \in 0 .. LEN - 1
  PROVE  AnNext(i) = (d.trig + i - (LEN - d.holdoff - 1)) % AnM
<1>1. /\ d.primed /\ d.triggered /\ AnLaterRounds /\ d.mem[d.waddr] = AnAgo(LEN + 1) /\ d.trig \in Nat
      /\ d.now = (d.trig + 1 + d.counter) % AnM /\ d.counter = d.holdoff + 1
  BY DEF AnRecords
<1>2. LEN \in Nat \ {0} /\ AnM \in Nat \ {0} /\ AnM = 2 * LEN /\ LEN \in Int
  BY AnLength
<1>3. PICK w \in 0 .. LEN - 1, t \in Nat, p \in Nat : w = d.waddr /\ t = d.trig /\ p = d.holdoff
  BY <1>1 DEF AnTypes, AnSlot
<1>4. d.now = (t + 1 + (p + 1)) % AnM
  BY <1>1, <1>3
<1>5. AnNext(i) = AnAgo(LEN + 1 - i)
  <2>1. CASE i = 0
    <3>1. w + 0 = w /\ w % LEN = w
      BY <1>2, PartSmallMod
    <3>2. LEN + 1 - 0 = LEN + 1
      BY <1>2
    <3> QED
      BY <1>1, <1>3, <2>1, <3>1, <3>2 DEF AnNext
  <2>2. CASE i # 0
    <3>1. PICK k \in 1 .. LEN - 1 : k = LEN - i
      BY <1>2, <2>2
    <3>2. AnBack(k) = AnAgo(k + 1)
      BY <1>1 DEF AnLaterRounds
    <3>3. k + 1 = LEN + 1 - i
      BY <1>2, <3>1
    <3>4. (w + i) % LEN = (w - k) % LEN
      <4>1. PICK x, g \in -LEN .. LEN : x = w - k /\ g = LEN
        BY <1>2
      <4>2. x \in Int /\ x + g = w + i
        BY <1>2, <3>1, <4>1
      <4>3. ((x % LEN) + g) % LEN = (x + g) % LEN
        BY <1>2, <4>2, PartShift
      <4>4. PICK r \in 0 .. LEN - 1 : r = x % LEN
        BY <1>2, <4>2
      <4>5. (r + LEN) % LEN = r
        <5>1. r + LEN = LEN * 1 + r /\ r + LEN \in Int
          BY <1>2
        <5> QED
          BY <1>2, <5>1, PartRest
      <4> QED
        BY <4>1, <4>2, <4>3, <4>4, <4>5
    <3> QED
      BY <1>3, <3>2, <3>3, <3>4 DEF AnNext, AnBack
  <2> QED
    BY <2>1, <2>2
<1>6. PICK k \in -AnM .. AnM : k = -(LEN + 1 - i)
  BY <1>2, AnLength
<1>7. PICK x \in Int : x = t + 1 + (p + 1)
  OBVIOUS
<1>8. ((x % AnM) + k) % AnM = (x + k) % AnM
  BY <1>2, PartShift
<1>9. x + k = t + i - (LEN - p - 1)
  BY <1>2, <1>6, <1>7
<1>10. d.now - (LEN + 1 - i) = (x % AnM) + k
  <2>1. d.now \in Int
    BY AnLength DEF AnTypes
  <2> QED
    BY <1>2, <1>4, <1>6, <1>7, <2>1
<1> QED
  BY <1>3, <1>5, <1>8, <1>9, <1>10 DEF AnAgo

\* A full buffer of the recording, and what is printed of it.
LEMMA AnShows ==
  ASSUME AnInv PROVE ScopeShows
<1>1. SUFFICES ASSUME h.st = "full"
      PROVE  /\ h.zero => \A i \in 0 .. LEN - 1 : h.buf[i + 1] = (d.trig + i - Analyser!Offset) % AnM
             /\ \A same \in SUBSET (1 .. LEN - 1), i \in 0 .. LEN - 1 :
                  \A lines \in {Analyser!PrintedFirst(same), Analyser!PrintedEnds(same)} :
                    (Analyser!Max({ j \in lines : j <= i }) + 1) .. i \subseteq same
  BY AnLength DEF ScopeShows, Analyser!ScopeShows
<1>2. /\ AnTypes /\ AnRecords /\ d.stopped /\ h.hold = d.holdoff /\ Len(h.buf) = LEN
      /\ h.zero => \A i \in 1 .. Len(h.buf) : h.buf[i] = AnNext(i - 1)
  BY <1>1 DEF AnInv, AnReads, AnAhead
<1>3. ASSUME h.zero, NEW i \in 0 .. LEN - 1
      PROVE  h.buf[i + 1] = (d.trig + i - Analyser!Offset) % AnM
  <2>1. i + 1 \in 1 .. LEN /\ (i + 1) - 1 = i
    BY AnLength
  <2>2. h.buf[i + 1] = AnNext(i)
    BY <1>2, <1>3, <2>1
  <2> QED
    BY <1>2, <2>2, AnWhole DEF Analyser!Offset
<1>4. ASSUME NEW same \in SUBSET (1 .. LEN - 1), NEW i \in 0 .. LEN - 1,
             NEW lines \in {Analyser!PrintedFirst(same), Analyser!PrintedEnds(same)}
      PROVE  (Analyser!Max({ j \in lines : j <= i }) + 1) .. i \subseteq same
  <2>1. \A j \in 0 .. LEN - 1 : j \notin same => j \in lines
    BY <1>4 DEF Analyser!PrintedFirst, Analyser!PrintedEnds
  <2>2. lines \in SUBSET (0 .. LEN - 1)
    <3>1. 0 .. LEN - 2 \subseteq 0 .. LEN - 1
      BY AnLength
    <3> QED
      BY <1>4, <3>1 DEF Analyser!PrintedFirst, Analyser!PrintedEnds
  <2> QED
    BY <2>1, <2>2, AnLines
<1> QED
  BY <1>3, <1>4

(***************************************************************************)
(* What a program reads from a logic analyser is the recording, oldest     *)
(* sample first, with the trigger's sample where the program looks for it, *)
(* and what it prints shows every sample (wbscope.v, scopecls.cpp): for    *)
(* scopes of every length, every holdoff and every time of the trigger.    *)
(***************************************************************************)
THEOREM ScopeIsShown == PartsSpec => []ScopeShows
<1>1. PartsInit => AnInv
  BY AnBegins DEF PartsInit
<1> QED
  BY <1>1, AnShows, AnAlone, PTL DEF PartsSpec

-----------------------------------------------------------------------------
(***************************************************************************)
(* The simulated serial port (pipecmdr.h).                                 *)
(***************************************************************************)
PcTypes ==
  /\ knocked \in Seq(Nat) /\ m_rx \in Seq(Nat) /\ m_txbuf \in Seq(Nat)
  /\ sent \in Nat /\ got \in Nat /\ heard \in Nat /\ since \in Nat /\ made \in Nat /\ taken \in Nat
  /\ m_con \in BOOLEAN /\ m_tx_busy \in Nat /\ i_tx_busy \in BOOLEAN /\ o_tx_stb \in BOOLEAN

\* The characters on their way to the core, those in the socket behind the others.
PcComing ==
  /\ sent = got + Len(m_rx) + Len(knocked)
  /\ \A i \in 1 .. Len(m_rx) : m_rx[i] = got + i
  /\ \A i \in 1 .. Len(knocked) : knocked[i] = got + Len(m_rx) + i

\* A busy line is told to the core, which holds its character meanwhile.
PcHeld ==
  /\ i_tx_busy <=> m_tx_busy # 0
  /\ m_tx_busy # 0 => o_tx_stb
  /\ taken = made

\* A buffer x holds what was taken since the last character that was heard, hd, up to n.
PcBuffer(x, hd, s, n) ==
  /\ hd <= n /\ s <= n
  /\ \A i \in 1 .. Len(x) : hd < x[i] /\ x[i] <= n

\* The rest of an earlier client's line, and the characters since this one came.
PcTold(hd, s) == IF hd > s THEN hd ELSE s
PcSplit(x, hd, s, n) ==
  \E left \in 0 .. Len(x) :
     /\ \A i \in 1 .. left : x[i] <= s
     /\ \A i \in left + 1 .. Len(x) : x[i] = PcTold(hd, s) + (i - left)
     /\ PcTold(hd, s) + (Len(x) - left) = n

PcInv ==
  /\ PcTypes /\ PcComing /\ PcHeld
  /\ PcBuffer(m_txbuf, heard, since, taken)
  /\ m_con => PcSplit(m_txbuf, heard, since, taken)

\* Before the first client.
LEMMA PcBegins ==
  ASSUME Pipe!Init PROVE PcInv
<1>1. /\ knocked = << >> /\ m_rx = << >> /\ m_txbuf = << >> /\ sent = 0 /\ got = 0 /\ heard = 0
      /\ since = 0 /\ made = 0 /\ taken = 0 /\ m_con = FALSE /\ m_tx_busy = 0 /\ i_tx_busy = FALSE
      /\ o_tx_stb = FALSE
  BY DEF Pipe!Init
<1>2. PcTypes
  <2>1. << >> \in Seq(Nat)
    OBVIOUS
  <2> QED
    BY <1>1, <2>1 DEF PcTypes
<1>3. PcComing /\ PcHeld /\ PcBuffer(m_txbuf, heard, since, taken)
  BY <1>1 DEF PcComing, PcHeld, PcBuffer
<1> QED
  BY <1>1, <1>2, <1>3 DEF PcInv

\* The client's steps touch only what it sends.
LEMMA PcClient ==
  ASSUME PcInv, Pipe!Client PROVE PcInv'
<1>1. PcTypes /\ PcComing
  BY DEF PcInv
<1>2. /\ m_con' = m_con /\ m_rx' = m_rx /\ m_txbuf' = m_txbuf /\ got' = got /\ heard' = heard
      /\ since' = since /\ made' = made /\ taken' = taken /\ m_tx_busy' = m_tx_busy
      /\ i_tx_busy' = i_tx_busy /\ o_tx_stb' = o_tx_stb
  BY DEF Pipe!Client
<1>3. PcTypes' /\ PcComing'
  <2>1. CASE knocked' = knocked /\ sent' = sent
    BY <1>1, <1>2, <2>1 DEF PcTypes, PcComing
  <2>2. CASE knocked' = Append(knocked, sent + 1) /\ sent' = sent + 1
    <3>1. PICK k : k = Append(knocked, sent + 1)
      OBVIOUS
    <3>2. knocked \in Seq(Nat) /\ sent + 1 \in Nat /\ m_rx \in Seq(Nat) /\ got \in Nat
      BY <1>1 DEF PcTypes
    <3>3. /\ k \in Seq(Nat) /\ Len(k) = Len(knocked) + 1 /\ k[Len(knocked) + 1] = sent + 1
          /\ \A i \in 1 .. Len(knocked) : k[i] = knocked[i]
      BY <3>1, <3>2
    <3>4. Len(knocked) \in Nat /\ Len(m_rx) \in Nat
      BY <3>2
    <3>5. PcTypes'
      BY <1>1, <1>2, <2>2, <3>1, <3>2, <3>3 DEF PcTypes
    <3>6. \A i \in 1 .. Len(k) : k[i] = got + Len(m_rx) + i
      <4>1. ASSUME NEW i \in 1 .. Len(k) PROVE k[i] = got + Len(m_rx) + i
        <5>1. CASE i \in 1 .. Len(knocked)
          BY <1>1, <3>3, <5>1 DEF PcComing
        <5>2. CASE i \notin 1 .. Len(knocked)
          <6>1. i = Len(knocked) + 1
            BY <3>3, <3>4, <5>2
          <6>2. k[i] = got + Len(m_rx) + Len(knocked) + 1
            BY <1>1, <3>3, <6>1 DEF PcComing
          <6> QED
            BY <3>2, <3>4, <6>1, <6>2
        <5> QED
          BY <5>1, <5>2
      <4> QED
        BY <4>1
    <3>7. sent + 1 = got + Len(m_rx) + Len(k)
      BY <1>1, <3>2, <3>3, <3>4 DEF PcComing
    <3> QED
      BY <1>1, <1>2, <2>2, <3>1, <3>5, <3>6, <3>7 DEF PcComing
  <2> QED
    BY <2>1, <2>2 DEF Pipe!Client
<1> QED
  BY <1>2, <1>3 DEF PcInv, PcHeld, PcBuffer, PcSplit

\* One more character for the core, the next one.
LEMMA PcReceives ==
  ASSUME PcTypes, PcComing, Pipe!CoreReceives, sent' = sent
  PROVE  PcComing' /\ knocked' \in Seq(Nat) /\ m_rx' \in Seq(Nat) /\ got' \in Nat /\ sent' \in Nat
<1>1. knocked \in Seq(Nat) /\ m_rx \in Seq(Nat) /\ got \in Nat /\ sent \in Nat
  BY DEF PcTypes
<1>2. PICK x, k : x = Pipe!Arrived /\ k = (IF Pipe!Receives THEN << >> ELSE knocked)
  OBVIOUS
<1>3. x \in Seq(Nat) /\ k \in Seq(Nat)
  BY <1>1, <1>2 DEF Pipe!Arrived
<1>4. /\ sent = got + Len(x) + Len(k)
      /\ \A i \in 1 .. Len(x) : x[i] = got + i
      /\ \A i \in 1 .. Len(k) : k[i] = got + Len(x) + i
  <2>1. CASE Pipe!Receives
    <3>1. x = knocked /\ k = << >> /\ Len(m_rx) = 0
      BY <1>2, <2>1 DEF Pipe!Arrived, Pipe!Receives
    <3>2. Len(knocked) \in Nat
      BY <1>1
    <3>3. sent = got + 0 + Len(x) /\ \A i \in 1 .. Len(x) : x[i] = got + 0 + i
      BY <3>1 DEF PcComing
    <3> QED
      BY <1>1, <3>1, <3>2, <3>3
  <2>2. CASE ~Pipe!Receives
    BY <1>2, <2>2 DEF Pipe!Arrived, PcComing
  <2> QED
    BY <2>1, <2>2
<1>5. knocked' = k
  BY <1>2 DEF Pipe!CoreReceives
<1>6. CASE Pipe!Hands
  <2>1. x # << >>
    BY <1>2, <1>6 DEF Pipe!Hands
  <2>2. Len(x) >= 1 /\ Len(x) \in Nat /\ Len(k) \in Nat
    BY <1>3, <2>1
  <2>3. Head(x) = got + 1
    <3>1. Head(x) = x[1]
      BY <1>3, <2>1
    <3> QED
      BY <1>4, <2>2, <3>1
  <2>4. got' = got + 1 /\ m_rx' = Tail(x)
    BY <1>2, <1>6, <2>3 DEF Pipe!CoreReceives
  <2>5. PICK y : y = Tail(x)
    OBVIOUS
  <2>6. y \in Seq(Nat) /\ Len(y) = Len(x) - 1 /\ \A i \in 1 .. Len(y) : y[i] = x[i + 1]
    BY <1>3, <2>1, <2>5
  <2>7. \A i \in 1 .. Len(y) : y[i] = (got + 1) + i
    <3>1. ASSUME NEW i \in 1 .. Len(y) PROVE y[i] = (got + 1) + i
      <4>1. i + 1 \in 1 .. Len(x) /\ i \in Nat
        BY <2>2, <2>6
      <4>2. x[i + 1] = got + (i + 1)
        BY <1>4, <4>1
      <4> QED
        BY <1>1, <2>6, <4>1, <4>2
    <3> QED
      BY <3>1
  <2>8. \A i \in 1 .. Len(k) : k[i] = (got + 1) + Len(y) + i
    BY <1>1, <1>4, <2>2, <2>6
  <2>9. sent = (got + 1) + Len(y) + Len(k)
    BY <1>1, <1>4, <2>2, <2>6
  <2>10. got + 1 \in Nat
    BY <1>1
  <2> QED
    BY <1>1, <1>3, <1>5, <2>4, <2>5, <2>6, <2>7, <2>8, <2>9, <2>10 DEF PcComing
<1>7. CASE ~Pipe!Hands
  <2>1. got' = got /\ m_rx' = m_rx
    BY <1>7 DEF Pipe!CoreReceives
  <2>2. CASE x = m_rx
    BY <1>1, <1>3, <1>4, <1>5, <2>1, <2>2 DEF PcComing
  <2>3. CASE Pipe!Receives
    <3>1. x = << >> /\ m_rx = << >>
      BY <1>2, <1>7, <2>3 DEF Pipe!Hands, Pipe!Receives
    <3> QED
      BY <2>2, <3>1
  <2>4. CASE ~Pipe!Receives
    BY <1>2, <2>2, <2>4 DEF Pipe!Arrived
  <2> QED
    BY <2>3, <2>4
<1> QED
  BY <1>6, <1>7

\* The line of a client, one character longer, and what is heard when it ends.
LEMMA PcLonger ==
  ASSUME NEW x \in Seq(Nat), NEW hd \in Nat, NEW s \in Nat, NEW n \in Nat,
         PcBuffer(x, hd, s, n), PcSplit(x, hd, s, n)
  PROVE  PcBuffer(Append(x, n + 1), hd, s, n + 1) /\ PcSplit(Append(x, n + 1), hd, s, n + 1)
<1>1. PICK y, len, t : y = Append(x, n + 1) /\ len = Len(x) /\ t = PcTold(hd, s)
  OBVIOUS
<1>2. /\ y \in Seq(Nat) /\ len \in Nat /\ Len(y) = len + 1 /\ y[len + 1] = n + 1 /\ t \in Nat
      /\ \A i \in 1 .. len : y[i] = x[i]
  BY <1>1 DEF PcTold
<1>3. PICK left \in 0 .. len :
        /\ \A i \in 1 .. left : x[i] <= s
        /\ \A i \in left + 1 .. len : x[i] = t + (i - left)
        /\ t + (len - left) = n
  BY <1>1 DEF PcSplit
<1>4. hd <= n /\ s <= n /\ \A i \in 1 .. len : hd < x[i] /\ x[i] <= n /\ x[i] \in Nat
  BY <1>1 DEF PcBuffer
<1>5. \A i \in 1 .. len + 1 : hd < y[i] /\ y[i] <= n + 1
  <2>1. ASSUME NEW i \in 1 .. len + 1 PROVE hd < y[i] /\ y[i] <= n + 1
    <3>1. CASE i \in 1 .. len
      <4>1. y[i] = x[i]
        BY <1>2, <3>1
      <4>2. hd < x[i] /\ x[i] <= n /\ x[i] \in Nat
        BY <1>4, <3>1
      <4> QED
        BY <4>1, <4>2
    <3>2. CASE i = len + 1
      BY <1>2, <1>4, <3>2
    <3> QED
      BY <1>2, <3>1, <3>2
  <2> QED
    BY <2>1
<1>6. left \in 0 .. len + 1 /\ \A i \in 1 .. left : y[i] <= s
  <2>1. \A i \in 1 .. left : i \in 1 .. len
    BY <1>2
  <2> QED
    BY <1>2, <1>3, <2>1
<1>7. \A i \in left + 1 .. len + 1 : y[i] = t + (i - left)
  <2>1. ASSUME NEW i \in left + 1 .. len + 1 PROVE y[i] = t + (i - left)
    <3>1. CASE i = len + 1
      BY <1>2, <1>3, <3>1
    <3>2. CASE i # len + 1
      <4>1. i \in left + 1 .. len /\ i \in 1 .. len
        BY <1>2, <3>2
      <4> QED
        BY <1>2, <1>3, <4>1
    <3> QED
      BY <3>1, <3>2
  <2> QED
    BY <2>1
<1>8. t + (Len(y) - left) = n + 1
  BY <1>2, <1>3
<1>9. PcBuffer(y, hd, s, n + 1)
  BY <1>2, <1>4, <1>5 DEF PcBuffer
<1>10. PcSplit(y, hd, s, n + 1)
  BY <1>1, <1>2, <1>6, <1>7, <1>8 DEF PcSplit
<1> QED
  BY <1>1, <1>9, <1>10

\* What is heard at the end of a line is the last that was taken.
LEMMA PcEnded ==
  ASSUME NEW x \in Seq(Nat), NEW hd \in Nat, NEW s \in Nat, NEW n \in Nat, NEW last,
         PcBuffer(x, hd, s, n), PcSplit(x, hd, s, n), last = (IF x # << >> THEN x[Len(x)] ELSE hd)
  PROVE  last \in Nat /\ last <= n /\ PcTold(last, s) = n
<1>1. PICK len, t : len = Len(x) /\ t = PcTold(hd, s)
  OBVIOUS
<1>2. len \in Nat /\ t \in Nat /\ (x = << >> <=> len = 0)
  BY <1>1 DEF PcTold
<1>3. PICK left \in 0 .. len :
        /\ \A i \in 1 .. left : x[i] <= s
        /\ \A i \in left + 1 .. len : x[i] = t + (i - left)
        /\ t + (len - left) = n
  BY <1>1 DEF PcSplit
<1>4. hd <= n /\ s <= n /\ \A i \in 1 .. len : hd < x[i] /\ x[i] <= n /\ x[i] \in Nat
  BY <1>1 DEF PcBuffer
<1>5. CASE len = 0
  BY <1>1, <1>2, <1>3, <1>4, <1>5
<1>6. CASE len # 0
  <2>1. len \in 1 .. len /\ last = x[len]
    BY <1>1, <1>2, <1>6
  <2>2. last \in Nat /\ hd < last /\ last <= n
    BY <1>4, <2>1
  <2>3. CASE left < len
    <3>1. last = n
      <4>1. len \in left + 1 .. len
        BY <1>2, <2>3
      <4> QED
        BY <1>2, <1>3, <2>1, <4>1
    <3> QED
      BY <1>4, <2>2, <3>1 DEF PcTold
  <2>4. CASE left = len
    <3>1. last <= s /\ t = n
      <4>1. len \in 1 .. left
        BY <1>2, <2>1, <2>4
      <4> QED
        BY <1>2, <1>3, <2>1, <2>4, <4>1
    <3> QED
      BY <1>1, <1>4, <2>2, <3>1 DEF PcTold
  <2> QED
    BY <1>2, <2>2, <2>3, <2>4
<1> QED
  BY <1>5, <1>6

\* Once all are told, a line begins.
LEMMA PcCleared ==
  ASSUME NEW hd \in Nat, NEW s \in Nat, NEW n \in Nat, hd <= n, s <= n, PcTold(hd, s) = n
  PROVE  PcBuffer(<< >>, hd, s, n) /\ PcSplit(<< >>, hd, s, n)
<1>1. Len(<< >>) = 0 /\ 0 \in 0 .. 0
  OBVIOUS
<1>2. PcBuffer(<< >>, hd, s, n)
  BY <1>1 DEF PcBuffer
<1>3. PcSplit(<< >>, hd, s, n)
  BY <1>1 DEF PcSplit
<1> QED
  BY <1>2, <1>3

\* The core and the line.
LEMMA PcSends ==
  ASSUME PcTypes, PcHeld, NEW stb \in BOOLEAN, NEW ch \in Nat, Pipe!CoreSends(stb, ch),
         Pipe!Collects(stb, ch), o_tx_stb' = stb
  PROVE  /\ PcHeld' /\ made' \in Nat /\ taken' \in Nat /\ m_tx_busy' \in Nat /\ i_tx_busy' \in BOOLEAN
         /\ taken' = (IF Pipe!Takes(stb) /\ ch # 0 THEN taken + 1 ELSE taken)
         /\ Pipe!Takes(stb) => ch \in {0, taken + 1}
<1>1. made \in Nat /\ m_tx_busy \in Nat /\ i_tx_busy \in BOOLEAN /\ o_tx_stb \in BOOLEAN /\ UARTLEN \in Nat
  BY PipeAssumption DEF PcTypes
<1>2. (i_tx_busy <=> m_tx_busy # 0) /\ (m_tx_busy # 0 => o_tx_stb) /\ taken = made
  BY DEF PcHeld
<1>3. /\ m_tx_busy' = (IF stb /\ ~i_tx_busy THEN UARTLEN ELSE IF m_tx_busy > 0 THEN m_tx_busy - 1 ELSE 0)
      /\ (i_tx_busy' <=> m_tx_busy' # 0) /\ i_tx_busy' \in BOOLEAN
      /\ taken' = (IF Pipe!Takes(stb) /\ ch # 0 THEN ch ELSE taken)
  BY DEF Pipe!Collects, Pipe!NL
<1>4. CASE m_tx_busy # 0
  <2>1. o_tx_stb /\ i_tx_busy /\ ~Pipe!Takes(stb)
    BY <1>2, <1>4 DEF Pipe!Takes
  <2>2. stb /\ made' = made
    BY <2>1 DEF Pipe!CoreSends
  <2>3. m_tx_busy' = m_tx_busy - 1 /\ taken' = taken /\ m_tx_busy' \in Nat
    BY <1>1, <1>3, <1>4, <2>1
  <2> QED
    BY <1>1, <1>2, <1>3, <2>1, <2>2, <2>3 DEF PcHeld
<1>5. CASE m_tx_busy = 0
  <2>1. ~i_tx_busy /\ (Pipe!Takes(stb) <=> stb)
    BY <1>2, <1>5 DEF Pipe!Takes
  <2>2. /\ stb => ch \in {made + 1, 0}
        /\ made' = (IF ch # 0 /\ stb THEN made + 1 ELSE made)
    BY <2>1 DEF Pipe!CoreSends, Pipe!NL
  <2>3. m_tx_busy' = (IF stb THEN UARTLEN ELSE 0) /\ m_tx_busy' \in Nat
    BY <1>1, <1>3, <1>5, <2>1
  <2>4. taken' = made' /\ (m_tx_busy' # 0 => stb)
    BY <1>1, <1>2, <1>3, <2>1, <2>2, <2>3
  <2>5. PcHeld'
    BY <1>3, <2>4 DEF PcHeld
  <2> QED
    BY <1>1, <1>2, <1>3, <2>1, <2>2, <2>3, <2>4, <2>5
<1> QED
  BY <1>4, <1>5

\* A character for the client: it is kept, or ends the line.
PcCollected(x, hd, n, ch, x1, hd1, n1) ==
  \E ends \in BOOLEAN :
     /\ ch = 0 => ends
     /\ ch \in {0, n + 1} /\ n1 = (IF ch = 0 THEN n ELSE n + 1)
     /\ x1 = (IF ends THEN << >> ELSE Append(x, ch))
     /\ hd1 = (IF ~ends THEN hd ELSE IF ch # 0 THEN ch ELSE IF x # << >> THEN x[Len(x)] ELSE hd)

LEMMA PcTaken ==
  ASSUME NEW x \in Seq(Nat), NEW hd \in Nat, NEW s \in Nat, NEW n \in Nat, NEW ch, NEW x1, NEW hd1, NEW n1,
         PcBuffer(x, hd, s, n), PcSplit(x, hd, s, n), PcCollected(x, hd, n, ch, x1, hd1, n1)
  PROVE  x1 \in Seq(Nat) /\ hd1 \in Nat /\ PcBuffer(x1, hd1, s, n1) /\ PcSplit(x1, hd1, s, n1)
<1>0. PICK ends \in BOOLEAN :
        /\ ch = 0 => ends
        /\ ch \in {0, n + 1} /\ n1 = (IF ch = 0 THEN n ELSE n + 1)
        /\ x1 = (IF ends THEN << >> ELSE Append(x, ch))
        /\ hd1 = (IF ~ends THEN hd ELSE IF ch # 0 THEN ch ELSE IF x # << >> THEN x[Len(x)] ELSE hd)
  BY DEF PcCollected
<1>1. CASE ~ends
  <2>1. ch = n + 1 /\ n1 = n + 1 /\ x1 = Append(x, n + 1) /\ hd1 = hd
    BY <1>0, <1>1
  <2>2. Append(x, n + 1) \in Seq(Nat)
    OBVIOUS
  <2> QED
    BY <2>1, <2>2, PcLonger
<1>2. CASE ends
  <2>1. x1 = << >> /\ << >> \in Seq(Nat) /\ n1 \in Nat
    BY <1>0, <1>2
  <2>2. s <= n /\ hd <= n
    BY DEF PcBuffer
  <2>3. hd1 \in Nat /\ hd1 <= n1 /\ s <= n1 /\ PcTold(hd1, s) = n1
    <3>1. CASE ch = 0
      <4>1. hd1 = (IF x # << >> THEN x[Len(x)] ELSE hd) /\ n1 = n
        BY <1>0, <1>2, <3>1
      <4> QED
        BY <2>2, <4>1, PcEnded
    <3>2. CASE ch # 0
      <4>1. hd1 = n + 1 /\ n1 = n + 1
        BY <1>0, <1>2, <3>2
      <4> QED
        BY <2>2, <4>1 DEF PcTold
    <3> QED
      BY <3>1, <3>2
  <2> QED
    BY <2>1, <2>3, PcCleared
<1> QED
  BY <1>1, <1>2

\* One clock of the port and the core.
LEMMA PcTick ==
  ASSUME PcInv, NEW stb \in BOOLEAN, NEW ch \in 0 .. MaxChar, Pipe!Tick(stb, ch) PROVE PcInv'
<1>1. /\ PcTypes /\ PcComing /\ PcHeld /\ PcBuffer(m_txbuf, heard, since, taken)
      /\ m_con => PcSplit(m_txbuf, heard, since, taken)
  BY DEF PcInv
<1>2. /\ m_txbuf \in Seq(Nat) /\ heard \in Nat /\ since \in Nat /\ taken \in Nat /\ ch \in Nat
      /\ m_con \in BOOLEAN
  BY <1>1, PipeAssumption DEF PcTypes
<1>3. /\ Pipe!CoreReceives /\ Pipe!CoreSends(stb, ch) /\ Pipe!Collects(stb, ch) /\ o_tx_stb' = stb
      /\ sent' = sent /\ m_con' = Pipe!Connected /\ since' = (IF Pipe!Accepts THEN taken ELSE since)
  BY DEF Pipe!Tick
<1>4. /\ PcComing' /\ knocked' \in Seq(Nat) /\ m_rx' \in Seq(Nat) /\ got' \in Nat /\ sent' \in Nat
  BY <1>1, <1>3, PcReceives
<1>5. /\ PcHeld' /\ made' \in Nat /\ taken' \in Nat /\ m_tx_busy' \in Nat /\ i_tx_busy' \in BOOLEAN
      /\ taken' = (IF Pipe!Takes(stb) /\ ch # 0 THEN taken + 1 ELSE taken)
      /\ Pipe!Takes(stb) => ch \in {0, taken + 1}
  BY <1>1, <1>2, <1>3, PcSends
<1>6. PICK s : s = since'
  OBVIOUS
<1>7. s \in Nat /\ PcBuffer(m_txbuf, heard, s, taken)
  BY <1>1, <1>2, <1>3, <1>6 DEF PcBuffer
<1>8. ASSUME Pipe!Connected PROVE PcSplit(m_txbuf, heard, s, taken)
  <2>1. CASE Pipe!Accepts
    <3>1. s = taken /\ Len(m_txbuf) \in 0 .. Len(m_txbuf) /\ Len(m_txbuf) \in Nat
      BY <1>2, <1>3, <1>6, <2>1
    <3>2. heard <= taken /\ \A i \in 1 .. Len(m_txbuf) : m_txbuf[i] <= taken
      BY <1>1 DEF PcBuffer
    <3>3. PcTold(heard, s) = taken
      BY <1>2, <3>1, <3>2 DEF PcTold
    <3>4. \A i \in Len(m_txbuf) + 1 .. Len(m_txbuf) : FALSE
      BY <3>1
    <3> QED
      BY <1>2, <3>1, <3>2, <3>3, <3>4 DEF PcSplit
  <2>2. CASE ~Pipe!Accepts
    BY <1>1, <1>3, <1>6, <1>8, <2>2 DEF Pipe!Connected
  <2> QED
    BY <2>1, <2>2
<1>9. CASE Pipe!Takes(stb) /\ Pipe!Connected
  <2>1. PICK ends \in BOOLEAN : ends <=> (ch = 0 \/ Len(Append(m_txbuf, ch)) >= BufLen)
    OBVIOUS
  <2>2. /\ m_txbuf' = (IF ends THEN << >> ELSE Append(m_txbuf, ch))
        /\ heard' = (IF ~ends THEN heard ELSE IF ch # 0 THEN ch
                     ELSE IF m_txbuf # << >> THEN m_txbuf[Len(m_txbuf)] ELSE heard)
    BY <1>3, <1>9, <2>1 DEF Pipe!Collects, Pipe!NL
  <2>3. taken' = (IF ch = 0 THEN taken ELSE taken + 1) /\ ch \in {0, taken + 1}
    BY <1>5, <1>9
  <2>4. PICK x1, hd1, n1 : x1 = m_txbuf' /\ hd1 = heard' /\ n1 = taken'
    OBVIOUS
  <2>5. x1 \in Seq(Nat) /\ hd1 \in Nat /\ PcBuffer(x1, hd1, s, n1) /\ PcSplit(x1, hd1, s, n1)
    <3>1. /\ x1 = (IF ends THEN << >> ELSE Append(m_txbuf, ch))
          /\ hd1 = (IF ~ends THEN heard ELSE IF ch # 0 THEN ch
                   ELSE IF m_txbuf # << >> THEN m_txbuf[Len(m_txbuf)] ELSE heard)
          /\ n1 = (IF ch = 0 THEN taken ELSE taken + 1) /\ (ch = 0 => ends)
      BY <2>1, <2>2, <2>3, <2>4
    <3>2. m_txbuf \in Seq(Nat) /\ heard \in Nat /\ taken \in Nat /\ ch \in {0, taken + 1}
      BY <1>2, <2>3
    <3>3. PcCollected(m_txbuf, heard, taken, ch, x1, hd1, n1)
      BY <3>1, <3>2 DEF PcCollected
    <3> QED
      BY <1>7, <1>8, <1>9, <3>2, <3>3, PcTaken
  <2> QED
    BY <1>2, <1>3, <1>4, <1>5, <1>6, <1>7, <1>9, <2>4, <2>5 DEF PcInv, PcTypes
<1>10. CASE ~(Pipe!Takes(stb) /\ Pipe!Connected)
  <2>1. m_txbuf' = m_txbuf /\ heard' = heard
    BY <1>3, <1>10 DEF Pipe!Collects
  <2>2. taken' \in {taken, taken + 1} /\ (Pipe!Connected => taken' = taken)
    BY <1>5, <1>10
  <2>3. PICK n1 : n1 = taken'
    OBVIOUS
  <2>4. PcBuffer(m_txbuf, heard, s, n1)
    <3>1. n1 \in Nat /\ taken <= n1
      BY <1>2, <2>2, <2>3
    <3>2. \A i \in 1 .. Len(m_txbuf) : m_txbuf[i] \in Nat
      BY <1>2
    <3> QED
      BY <1>2, <1>7, <3>1, <3>2 DEF PcBuffer
  <2>5. Pipe!Connected => PcSplit(m_txbuf, heard, s, n1)
    BY <1>8, <2>2, <2>3
  <2>6. PcTypes'
    BY <1>2, <1>3, <1>4, <1>5, <1>6, <1>7, <2>1 DEF PcTypes, Pipe!Connected
  <2> QED
    BY <1>3, <1>4, <1>5, <1>6, <2>1, <2>3, <2>4, <2>5, <2>6 DEF PcInv
<1> QED
  BY <1>9, <1>10

\* Every step keeps the invariant, and the other parts leave it alone.
LEMMA PcKept ==
  ASSUME PcInv, Pipe!Next PROVE PcInv'
BY PcClient, PcTick DEF Pipe!Next

LEMMA PcAlone ==
  ASSUME PcInv, [PartsNext]_partsvars PROVE PcInv'
<1>1. CASE PipeRuns
  BY <1>1, PcKept DEF PipeRuns
<1>2. CASE ~PipeRuns
  <2>1. UNCHANGED pipevars
    BY <1>2 DEF PartsNext, partsvars, FifoRuns, DelayRuns, CompressRuns, InputRuns, SerialRuns, AnalyserRuns
  <2> QED
    BY <2>1 DEF pipevars, PcInv, PcTypes, PcComing, PcHeld, PcBuffer, PcSplit, PcTold
<1> QED
  BY <1>1, <1>2

\* It says where every character is.
LEMMA PcArrives ==
  ASSUME PcInv PROVE PipeIntact
<1>1. /\ PcTypes /\ PcComing /\ PcHeld /\ (m_con => PcSplit(m_txbuf, heard, since, taken))
  BY DEF PcInv
<1>2. PcTold(heard, since) = Pipe!Told
  BY DEF PcTold, Pipe!Told
<1>3. Pipe!LinesIntact
  BY <1>1, <1>2 DEF Pipe!LinesIntact, PcHeld, PcSplit
<1>4. Pipe!CommandsReachCore
  <2>1. PICK x, y, z : x = m_rx /\ y = knocked /\ z = x \o y
    OBVIOUS
  <2>2. x \in Seq(Nat) /\ y \in Seq(Nat) /\ got \in Nat
    BY <1>1, <2>1 DEF PcTypes
  <2>3. /\ Len(x) \in Nat /\ Len(y) \in Nat /\ Len(z) = Len(x) + Len(y)
        /\ \A i \in 1 .. Len(x) + Len(y) : z[i] = (IF i <= Len(x) THEN x[i] ELSE y[i - Len(x)])
    BY <2>1, <2>2
  <2>4. got + Len(z) = sent
    BY <1>1, <2>1, <2>2, <2>3 DEF PcComing
  <2>5. ASSUME NEW i \in 1 .. Len(z) PROVE z[i] = got + i
    <3>1. CASE i <= Len(x)
      <4>1. i \in 1 .. Len(x)
        BY <2>3, <3>1
      <4> QED
        BY <1>1, <2>1, <2>3, <3>1, <4>1 DEF PcComing
    <3>2. CASE ~(i <= Len(x))
      <4>1. PICK j \in 1 .. Len(y) : j = i - Len(x)
        BY <2>3, <3>2
      <4>2. z[i] = y[j] /\ i = Len(x) + j
        BY <2>3, <3>2, <4>1
      <4>3. y[j] = got + Len(x) + j
        BY <1>1, <2>1 DEF PcComing
      <4> QED
        BY <2>2, <2>3, <4>1, <4>2, <4>3
    <3> QED
      BY <3>1, <3>2
  <2> QED
    BY <2>1, <2>4, <2>5 DEF Pipe!CommandsReachCore
<1> QED
  BY <1>3, <1>4 DEF PipeIntact, Pipe!PipeIntact

(***************************************************************************)
(* No character is lost, doubled or overtaken between a client and the     *)
(* simulated core, in either direction (pipecmdr.h), for every time a      *)
(* character takes, every length of the buffer and any number of clients.  *)
(***************************************************************************)
THEOREM PipeKeepsAll == PartsSpec => []PipeIntact
<1>1. PartsInit => PcInv
  BY PcBegins DEF PartsInit
<1> QED
  BY <1>1, PcArrives, PcAlone, PTL DEF PartsSpec
-----------------------------------------------------------------------------
(***************************************************************************)
(* The serial line, for every number of data bits and every setup.  Both   *)
(* ends count clocks.  The invariant says which bit of which character is  *)
(* on the wire, and that the two counters stay a constant apart: UARTSIM   *)
(* samples in the middle of a bit, rxuart three clocks later, because it   *)
(* sees the line through two registers and acts on a third.                *)
(***************************************************************************)
\* A bit in the middle, the bits behind the start bit, and what may be a bit.
UtHalf == B \div 2
UtMore == IF setup.parity THEN 1 ELSE 0
UtSize == W + UtMore + setup.stops
UtBits == Serial!Bit \cup {Serial!Xor(Serial!Parity(c), setup.even) : c \in Serial!Char}

\* What is due: nothing, one character, or two, behind the one just given.
UtNone == chars = IF o_wr THEN <<rx_data>> ELSE << >>
UtOne(c) == chars = IF o_wr THEN <<rx_data, c>> ELSE <<c>>
UtTwo(g, c) == ~o_wr /\ chars = <<g, c>>

\* No character is being sent.
UtRest ==
  /\ tx_state = "idle" /\ tx_baud = 0 /\ uart_line = 1
  /\ dir = "out" => ~tx_busy
  /\ dir = "in" => tx_bits = << >>

\* Bit k of c and its frame is on the line, as the line has it,
UtLine(c, k) ==
  /\ k = 1 => uart_line = 0
  /\ k \in 2 .. W + 1 => uart_line = c[k - 1]
  /\ k = W + 2 /\ setup.parity /\ setup.fixed /\ dir = "in" => uart_line = setup.even
  /\ k > W + 1 + UtMore => uart_line = 1

\* as txuart counts them,
UtTxAt(c, k) ==
  /\ tx_busy
  /\ k <= W => /\ tx_state = "data" /\ tx_bits \in Seq(Serial!Bit) /\ Len(tx_bits) = W + 1 - k
               /\ \A i \in 1 .. W + 1 - k : tx_bits[i] = c[k - 1 + i]
  /\ k = W + 1 /\ setup.parity => tx_state = "parity"
  /\ k = W + 1 + UtMore => tx_state = "stop"
  /\ k = W + 2 + UtMore /\ setup.stops = 2 => tx_state = "stop2"
  /\ k = UtSize + 1 => tx_state = "idle"

\* and as UARTSIM does.
UtSimAt(c, k) ==
  /\ tx_state = "data" /\ tx_bits \in Seq(UtBits) /\ Len(tx_bits) = UtSize + 2 - k
  /\ uart_line = tx_bits[1]
  /\ \A i \in 1 .. UtSize + 2 - k : tx_bits[i] = Serial!Frame(c)[k - 1 + i]

UtSends(c, k) ==
  /\ c \in Serial!Char /\ k \in 1 .. UtSize + 1 /\ tx_baud \in 0 .. B - 1
  /\ UtLine(c, k)
  /\ dir = "out" => UtTxAt(c, k)
  /\ dir = "in" => UtSimAt(c, k)

\* Clocks since the start bit began.
UtAge == B - 1 - tx_baud

-----------------------------------------------------------------------------
\* UARTSIM has n bits of g.
UtSimHas(g, n) ==
  /\ g \in Serial!Char /\ n \in 0 .. UtSize
  /\ rx_state = "data" /\ rx_baud \in Nat /\ rx_bits \in Seq(UtBits) /\ Len(rx_bits) = n
  /\ \A i \in 1 .. n : i <= W => rx_bits[i] = g[i]

\* It samples in the middle of a bit.
UtSimInStep(n, k) ==
  \/ k = n + 1 /\ rx_baud = tx_baud + UtHalf + 1
  \/ k = n + 2 /\ rx_baud = tx_baud + UtHalf + 1 - B

UtSimQuiet == rx_state = "idle" /\ UtRest /\ UtNone
UtSimEdge(c) ==
  rx_state = "idle" /\ UtSends(c, 1) /\ UtAge <= UtHalf /\ Serial!SimChange = UtAge /\ UtOne(c)
UtSimHears(g, n, k) ==
  UtSimHas(g, n) /\ UtSends(g, k) /\ UtSimInStep(n, k) /\ ~o_wr /\ UtOne(g)
\* All bits are there, and the line is quiet, or the next character has begun.
UtSimEnds(g) ==
  UtSimHas(g, UtSize) /\ UtRest /\ rx_baud <= UtHalf /\ ~o_wr /\ UtOne(g)
UtSimMeets(g, c) ==
  /\ UtSimHas(g, UtSize) /\ UtSends(c, 1) /\ Serial!SimChange = UtAge
  /\ UtAge + rx_baud < UtHalf /\ UtTwo(g, c)

UtOut ==
  \/ UtSimQuiet
  \/ \E c \in Serial!Char : UtSimEdge(c)
  \/ \E g \in Serial!Char : \E n \in 0 .. UtSize : \E k \in 1 .. UtSize + 1 : UtSimHears(g, n, k)
  \/ \E g \in Serial!Char : UtSimEnds(g)
  \/ \E g \in Serial!Char : \E c \in Serial!Char : UtSimMeets(g, c)

-----------------------------------------------------------------------------
\* rxuart has n bits of g.
UtHas(g, n) ==
  /\ g \in Serial!Char /\ n \in 0 .. UtSize - 1
  /\ n < W => rx_state = "data" /\ Len(rx_bits) = n
  /\ n >= W => Len(rx_bits) = W
  /\ n = W /\ setup.parity => rx_state = "parity"
  /\ n = W + UtMore => rx_state = "stop"
  /\ n = W + UtMore + 1 => rx_state = "stop2"
  /\ rx_bits \in Seq(Serial!Bit) /\ \A i \in 1 .. Len(rx_bits) : rx_bits[i] = g[i]
  /\ rx_baud \in 0 .. B - 1 /\ (rx_zero <=> rx_baud = 0)
  /\ rx_pre <=> n = W + UtMore + 1
  /\ rx_pre => rx_data = g

\* It sees the line two clocks late.
UtInStep(n, k) ==
  \/ k = n + 1 /\ rx_baud = tx_baud + UtHalf + 3
  \/ k = n + 2 /\ rx_baud = tx_baud + UtHalf + 3 - B
UtSynced ==
  /\ ck[1] = uart_line
  /\ UtAge >= 1 => ck[2] = uart_line
  /\ UtAge >= 2 => ck[3] = uart_line

UtRested == rx_state = "idle" /\ ~rx_zero
UtEdge(c) ==
  /\ UtRested /\ ~rx_pre /\ UtSends(c, 1) /\ UtAge <= UtHalf + 2 /\ UtOne(c) /\ UtSynced
  /\ UtAge < 2 => ck[3] = 1
  /\ UtAge < 1 => ck[2] = 1
  /\ UtAge >= 2 => rx_change = UtAge - 2 /\ (rx_half <=> UtAge = UtHalf + 2)
UtHears(g, n, k) ==
  UtHas(g, n) /\ UtSends(g, k) /\ UtInStep(n, k) /\ UtSynced /\ UtOne(g)
UtDone ==
  /\ UtRested /\ ck = <<1, 1, 1>>
  /\ UtRest \/ \E g \in Serial!Char : UtSends(g, UtSize + 1)
  /\ rx_pre => ~o_wr /\ rx_data \in Serial!Char /\ UtOne(rx_data)
  /\ ~rx_pre => UtNone

UtIn ==
  \/ \E c \in Serial!Char : UtEdge(c)
  \/ \E g \in Serial!Char : \E n \in 0 .. UtSize - 1 : \E k \in 1 .. UtSize + 1 : UtHears(g, n, k)
  \/ UtDone

-----------------------------------------------------------------------------
UtSetup ==
  /\ setup \in [parity : BOOLEAN, fixed : BOOLEAN, even : Serial!Bit, stops : {1, 2}]
  /\ dir \in {"out", "in"}
  /\ uart_line \in UtBits /\ tx_calc \in Serial!Bit
  /\ tx_busy \in BOOLEAN /\ o_wr \in BOOLEAN /\ rx_pre \in BOOLEAN /\ o_parity_err \in BOOLEAN

UtInv ==
  /\ UtSetup
  /\ setup.fixed \/ ~setup.parity => ~o_parity_err
  /\ IF dir = "out" THEN UtOut ELSE UtIn

UtMoves(x) == IF dir = "out" THEN Serial!TxUart(x) ELSE Serial!SimTx(x)
UtTakes(x) == Serial!TxTakes(x) \/ Serial!SimTakes(x)

\* The numbers that are compared.
LEMMA UtNumbers ==
  /\ W \in Nat /\ W >= 1 /\ B \in Nat /\ B >= 5
  /\ UtHalf \in Nat /\ UtHalf >= 2 /\ 2 * UtHalf <= B /\ B <= 2 * UtHalf + 1
  /\ Serial!Break \in Nat /\ Serial!Break >= B
BY SerialAssumption DEF UtHalf, Serial!Break

LEMMA UtSizes ==
  ASSUME UtSetup
  PROVE  /\ UtMore \in {0, 1} /\ (UtMore = 1 <=> setup.parity) /\ setup.stops \in {1, 2}
         /\ UtSize = W + UtMore + setup.stops /\ UtSize \in Nat /\ UtSize >= W + 1
              /\ UtSize = Serial!SampleCount
BY UtNumbers DEF UtSetup, UtMore, UtSize, Serial!SampleCount

LEMMA UtCharSeq ==
  ASSUME NEW c \in Serial!Char
  PROVE  c \in Seq(Serial!Bit) /\ Len(c) = W /\ (\A i \in 1 .. W : c[i] \in Serial!Bit)
      /\ c # Serial!NoChar
<1>1. c \in [1 .. W -> Serial!Bit] /\ W \in Nat /\ W >= 1
  BY UtNumbers DEF Serial!Char
<1>2. c \in Seq(Serial!Bit) /\ Len(c) = W /\ \A i \in 1 .. W : c[i] \in Serial!Bit
  BY <1>1
<1> QED
  BY <1>1, <1>2 DEF Serial!NoChar

\* A frame is the start bit, the character, a parity bit if there is one, and the stop bits.
UtFramed(f, c) ==
  /\ f \in Seq(UtBits) /\ Len(f) = UtSize + 1 /\ f[1] = 0
  /\ \A i \in 2 .. W + 1 : f[i] = c[i - 1]
  /\ setup.parity /\ setup.fixed => f[W + 2] = setup.even
  /\ \A i \in W + UtMore + 2 .. UtSize + 1 : f[i] = 1

UtJoined(s, t, u) ==
  /\ u \in Seq(UtBits) /\ Len(u) = Len(s) + Len(t)
  /\ (\A i \in 1 .. Len(s) : u[i] = s[i]) /\ (\A i \in 1 .. Len(t) : u[Len(s) + i] = t[i])
LEMMA UtJoin ==
  ASSUME NEW s \in Seq(UtBits), NEW t \in Seq(UtBits), NEW u, u = s \o t PROVE UtJoined(s, t, u)
<1>1. /\ u \in Seq(UtBits) /\ Len(u) = Len(s) + Len(t)
      /\ \A i \in 1 .. Len(s) + Len(t) : u[i] = IF i <= Len(s) THEN s[i] ELSE t[i - Len(s)]
  BY ConcatProperties
<1>2. Len(s) \in Nat /\ Len(t) \in Nat
  OBVIOUS
<1> QED
  BY <1>1, <1>2 DEF UtJoined

LEMMA UtFrame ==
  ASSUME UtSetup, NEW c \in Serial!Char PROVE UtFramed(Serial!Frame(c), c)
<1>1. PICK p : p = IF setup.fixed THEN setup.even ELSE Serial!Xor(Serial!Parity(c), setup.even)
  OBVIOUS
<1>2. p \in UtBits /\ 0 \in UtBits /\ 1 \in UtBits
  BY <1>1 DEF UtSetup, UtBits, Serial!Bit
<1>3. PICK s, q, m : s = <<0>> /\ q = Serial!If(setup.parity, <<p>>)
     /\ m = [i \in 1 .. setup.stops |-> 1]
  OBVIOUS
<1>4. s \in Seq(UtBits) /\ Len(s) = 1 /\ s[1] = 0
  BY <1>2, <1>3
<1>5. c \in Seq(UtBits) /\ Len(c) = W
  BY UtCharSeq DEF UtBits
<1>6. q \in Seq(UtBits) /\ Len(q) = UtMore /\ (setup.parity => q[1] = p)
  <2>1. CASE setup.parity
    <3>1. q = <<p>> /\ UtMore = 1
      BY <1>3, <2>1 DEF Serial!If, UtMore
    <3> QED
      BY <1>2, <3>1
  <2>2. CASE ~setup.parity
    <3>1. q = << >> /\ UtMore = 0
      BY <1>3, <2>2 DEF Serial!If, UtMore
    <3> QED
      BY <2>2, <3>1, EmptySeq
  <2> QED
    BY <2>1, <2>2
<1>7. m \in Seq(UtBits) /\ Len(m) = setup.stops /\ \A i \in 1 .. setup.stops : m[i] = 1
  BY <1>2, <1>3, UtSizes
<1>8. PICK a, v, f : a = s \o c /\ v = a \o q /\ f = v \o m
  OBVIOUS
<1>9. UtJoined(s, c, a)
  BY <1>4, <1>5, <1>8, UtJoin
<1>10. /\ a \in Seq(UtBits) /\ Len(a) = 1 + W /\ a[1] = 0 /\ UtJoined(a, q, v)
       /\ \A i \in 2 .. W + 1 : a[i] = c[i - 1]
  <2>1. a \in Seq(UtBits) /\ Len(a) = 1 + W /\ a[1] = 0 /\ \A i \in 1 .. W : a[1 + i] = c[i]
    BY <1>4, <1>5, <1>9, UtNumbers DEF UtJoined
  <2>2. \A i \in 2 .. W + 1 : i - 1 \in 1 .. W /\ 1 + (i - 1) = i
    BY UtNumbers
  <2>3. UtJoined(a, q, v)
    BY <1>6, <1>8, <2>1, UtJoin
  <2> QED
    BY <2>1, <2>2, <2>3
<1>11. /\ v \in Seq(UtBits) /\ Len(v) = 1 + W + UtMore /\ (setup.parity => v[W + 2] = p)
       /\ (\A i \in 1 .. 1 + W : v[i] = a[i]) /\ UtJoined(v, m, f)
  <2>1. v \in Seq(UtBits) /\ Len(v) = 1 + W + UtMore /\ \A i \in 1 .. 1 + W : v[i] = a[i]
    BY <1>6, <1>10 DEF UtJoined
  <2>2. setup.parity => v[W + 2] = p
    <3>1. setup.parity => 1 \in 1 .. UtMore /\ (1 + W) + 1 = W + 2
      BY UtSizes, UtNumbers
    <3> QED
      BY <1>6, <1>10, <3>1 DEF UtJoined
  <2>3. UtJoined(v, m, f)
    BY <1>7, <1>8, <2>1, UtJoin
  <2> QED
    BY <2>1, <2>2, <2>3
<1>16. /\ f \in Seq(UtBits) /\ Len(f) = 1 + W + UtMore + setup.stops
       /\ \A i \in 1 .. 1 + W + UtMore : f[i] = v[i]
       /\ \A i \in 1 + W + UtMore + 1 .. 1 + W + UtMore + setup.stops : f[i] = 1
  <2>1. /\ f \in Seq(UtBits) /\ Len(f) = 1 + W + UtMore + setup.stops
        /\ \A i \in 1 .. 1 + W + UtMore : f[i] = v[i]
        /\ \A i \in 1 .. setup.stops : f[1 + W + UtMore + i] = 1
    BY <1>7, <1>11 DEF UtJoined
  <2>2. \A i \in 1 + W + UtMore + 1 .. 1 + W + UtMore + setup.stops :
           i - (1 + W + UtMore) \in 1 .. setup.stops /\ 1 + W + UtMore + (i - (1 + W + UtMore)) = i
    BY UtNumbers, UtSizes
  <2> QED
    BY <2>1, <2>2
<1>12. f = Serial!Frame(c)
  <2>1. f = ((s \o c) \o q) \o m
    BY <1>8
  <2>2. Serial!Frame(c) = ((<<0>> \o c) \o Serial!If(setup.parity, <<p>>))
                         \o [i \in 1 .. setup.stops |-> 1]
    BY <1>1, Zenon DEF Serial!Frame
  <2> QED
    BY <1>3, <2>1, <2>2, Zenon
<1>13. f[1] = 0 /\ \A i \in 2 .. W + 1 : f[i] = c[i - 1]
  BY <1>10, <1>11, <1>16, UtNumbers, UtSizes
<1>14. setup.parity /\ setup.fixed => f[W + 2] = setup.even
  BY <1>1, <1>11, <1>16, UtNumbers, UtSizes
<1>15. \A i \in W + UtMore + 2 .. UtSize + 1 : f[i] = 1
  BY <1>16, UtNumbers, UtSizes
<1> QED
  BY <1>12, <1>16, <1>13, <1>14, <1>15, UtNumbers, UtSizes DEF UtFramed

\* The bit of the frame that is first is the one on the line.
UtFirstIsLine == \A c \in Serial!Char : \A k \in 1 .. UtSize + 1 : uart_line = Serial!Frame(c)[k]
    => UtLine(c, k)
LEMMA UtFrameLine == UtSetup => UtFirstIsLine
<1> SUFFICES ASSUME UtSetup, NEW c \in Serial!Char, NEW k \in 1 .. UtSize + 1,
     uart_line = Serial!Frame(c)[k] PROVE UtLine(c, k)
  BY DEF UtFirstIsLine
<1>1. UtFramed(Serial!Frame(c), c)
  BY UtFrame
<1>2. PICK f : f = Serial!Frame(c)
  OBVIOUS
<1>3. UtFramed(f, c) /\ uart_line = f[k]
  BY <1>1, <1>2
<1>4. k = 1 => uart_line = 0
  BY <1>3 DEF UtFramed
<1>5. k \in 2 .. W + 1 => uart_line = c[k - 1]
  BY <1>3 DEF UtFramed
<1>6. k = W + 2 /\ setup.parity /\ setup.fixed /\ dir = "in" => uart_line = setup.even
  BY <1>3 DEF UtFramed
<1>7. k > W + 1 + UtMore => uart_line = 1
  BY <1>3, UtSizes, UtNumbers DEF UtFramed
<1> QED
  BY <1>4, <1>5, <1>6, <1>7 DEF UtLine

LEMMA UtFrameLineNext ==
  ASSUME UtSetup', UtSize' = UtSize, NEW c \in Serial!Char, NEW k \in 1 .. UtSize + 1,
      uart_line' = Serial!Frame(c)'[k]
  PROVE  UtLine(c, k)'
<1>1. UtSetup' => UtFirstIsLine'
  BY UtFrameLine, PTL
<1> QED
  BY <1>1 DEF UtFirstIsLine

-----------------------------------------------------------------------------
(***************************************************************************)
(* The two transmitters: bit after bit, each for B clocks, and then none.  *)
(***************************************************************************)
UtSame == setup' = setup /\ dir' = dir

LEMMA UtSameSize ==
  ASSUME UtSame PROVE UtSize' = UtSize /\ UtMore' = UtMore
      /\ \A c : Serial!Frame(c)' = Serial!Frame(c)
BY DEF UtSame, UtSize, UtMore, Serial!Frame

\* What a clock does to bit k of c: it stays, or the next one follows, or the frame ends.
UtNextBit(c, k) ==
  /\ tx_baud # 0 => UtSends(c, k)' /\ tx_baud' = tx_baud - 1 /\ uart_line' = uart_line
  /\ tx_baud = 0 /\ k <= UtSize => UtSends(c, k + 1)' /\ tx_baud' = B - 1
  /\ tx_baud = 0 /\ k = UtSize + 1 => UtRest'

LEMMA UtTxNext ==
  ASSUME UtSetup, UtSame, dir = "out", NEW c \in Serial!Char, NEW k \in 1 .. UtSize + 1,
      UtSends(c, k),
         NEW x, Serial!TxUart(x)
  PROVE  UtNextBit(c, k)
<1>1. /\ tx_baud \in 0 .. B - 1 /\ UtLine(c, k) /\ UtTxAt(c, k) /\ ~Serial!TxTakes(x)
      /\ setup' = setup /\ dir' = dir /\ dir' = "out" /\ UtSize' = UtSize /\ UtMore' = UtMore
  BY UtSameSize DEF UtSends, UtTxAt, Serial!TxTakes, UtSame
<1>2. CASE tx_baud # 0
  <2>1. tx_busy' = TRUE /\ tx_baud' = tx_baud - 1 /\ uart_line' = uart_line
       /\ tx_state' = tx_state /\ tx_bits' = tx_bits
    BY <1>1, <1>2 DEF Serial!TxUart
  <2>2. UtLine(c, k)' /\ UtTxAt(c, k)'
    BY <1>1, <2>1 DEF UtLine, UtTxAt
  <2>3. tx_baud' \in 0 .. B - 1
    BY <1>1, <1>2, <2>1, UtNumbers
  <2> QED
    BY <1>1, <1>2, <2>1, <2>2, <2>3 DEF UtNextBit, UtSends
<1>3. CASE tx_baud = 0 /\ k <= W
  <2>1. tx_state = "data" /\ tx_bits \in Seq(Serial!Bit) /\ Len(tx_bits) = W + 1 - k
        /\ \A i \in 1 .. W + 1 - k : tx_bits[i] = c[k - 1 + i]
    BY <1>1, <1>3 DEF UtTxAt
  <2>2. Serial!TxBit
    BY <1>1, <1>3, <2>1 DEF Serial!TxUart
  <2>3. /\ tx_busy' = TRUE /\ tx_baud' = B - 1 /\ uart_line' = Head(tx_bits)
             /\ tx_bits' = Tail(tx_bits)
        /\ tx_state' = IF Len(tx_bits) > 1 THEN "data" ELSE IF setup.parity THEN "parity"
             ELSE "stop"
    BY <2>1, <2>2 DEF Serial!TxBit
  <2>4. PICK v, e : v = tx_bits /\ e = tx_bits'
    OBVIOUS
  <2>5. v \in Seq(Serial!Bit) /\ Len(v) = W + 1 - k /\ v # << >> /\ v[1] = c[k] /\ Head(v) = v[1]
    <3>1. 1 \in 1 .. W + 1 - k /\ k - 1 + 1 = k
      BY <1>3, UtNumbers
    <3>2. v \in Seq(Serial!Bit) /\ Len(v) = W + 1 - k /\ v[1] = c[k]
      BY <2>1, <2>4, <3>1
    <3> QED
      BY <3>1, <3>2
  <2>6. e \in Seq(Serial!Bit) /\ Len(e) = W - k /\ \A i \in 1 .. W - k : e[i] = c[k + i]
    <3>1. e = Tail(v)
      BY <2>3, <2>4
    <3>2. e \in Seq(Serial!Bit) /\ Len(e) = W - k /\ \A i \in 1 .. W - k : e[i] = v[i + 1]
      BY <1>3, <2>5, <3>1, UtNumbers, HeadTailProperties
    <3>3. \A i \in 1 .. W - k : i + 1 \in 1 .. W + 1 - k /\ k - 1 + (i + 1) = k + i
      BY <1>3, UtNumbers
    <3>4. \A i \in 1 .. W + 1 - k : v[i] = c[k - 1 + i]
      BY <2>1, <2>4
    <3>5. \A i \in 1 .. W - k : v[i + 1] = c[k + i]
      <4>1. ASSUME NEW i \in 1 .. W - k PROVE v[i + 1] = c[k + i]
        <5>1. v[i + 1] = c[k - 1 + (i + 1)]
          BY <3>3, <3>4
        <5> QED
          BY <3>3, <5>1
      <4> QED
        BY <4>1
    <3> QED
      BY <3>2, <3>5
  <2>7. uart_line' = c[k]
    BY <2>3, <2>4, <2>5
  <2>8. UtLine(c, k + 1)'
    BY <1>1, <1>3, <2>7, UtNumbers, UtSizes DEF UtLine
  <2>9. UtTxAt(c, k + 1)'
    <3>1. k + 1 <= W => /\ tx_state' = "data" /\ tx_bits' \in Seq(Serial!Bit)
                             /\ Len(tx_bits') = W + 1 - (k + 1)
                        /\ \A i \in 1 .. W + 1 - (k + 1) : tx_bits'[i] = c[(k + 1) - 1 + i]
      <4>1. ASSUME k + 1 <= W PROVE Len(tx_bits) > 1 /\ W + 1 - (k + 1) = W - k /\ (k + 1) - 1 = k
        <5>1. Len(tx_bits) = W + 1 - k
          BY <2>1
        <5> QED
          BY <1>3, <4>1, <5>1, UtNumbers
      <4>2. tx_bits' \in Seq(Serial!Bit) /\ Len(tx_bits') = W - k
           /\ \A i \in 1 .. W - k : tx_bits'[i] = c[k + i]
        BY <2>4, <2>6
      <4> QED
        BY <2>3, <4>1, <4>2
    <3>2. k + 1 = W + 1 => tx_state' = IF setup.parity THEN "parity" ELSE "stop"
      BY <1>3, <2>1, <2>3, UtNumbers
    <3>3. /\ k + 1 <= W \/ k + 1 = W + 1
          /\ k + 1 = W + 1 + UtMore => k + 1 = W + 1 /\ ~setup.parity
          /\ k + 1 # W + 2 + UtMore /\ k + 1 # UtSize + 1
      BY <1>3, UtNumbers, UtSizes
    <3> QED
      BY <1>1, <2>3, <3>1, <3>2, <3>3 DEF UtTxAt
  <2>10. k + 1 \in 1 .. UtSize + 1 /\ B - 1 \in 0 .. B - 1 /\ k <= UtSize
    BY <1>3, UtNumbers, UtSizes
  <2> QED
    BY <1>1, <1>3, <2>3, <2>8, <2>9, <2>10 DEF UtNextBit, UtSends
<1>4. CASE tx_baud = 0 /\ k > W /\ k <= UtSize
  <2>1. /\ k = W + 1 /\ setup.parity => tx_state = "parity"
        /\ k = W + 1 + UtMore => tx_state = "stop"
        /\ k = W + 2 + UtMore /\ setup.stops = 2 => tx_state = "stop2"
    BY <1>1 DEF UtTxAt
  <2>2. tx_state \in {"parity", "stop", "stop2"}
    BY <1>4, <2>1, UtNumbers, UtSizes
  <2>3. Serial!TxBit
    BY <1>1, <1>4, <2>2 DEF Serial!TxUart
  <2>4. /\ tx_busy' = TRUE /\ tx_baud' = B - 1
        /\ tx_state = "parity" => tx_state' = "stop"
        /\ tx_state = "stop" => tx_state' = Serial!AfterStop
        /\ tx_state = "stop2" => tx_state' = "idle"
        /\ tx_state # "parity" => uart_line' = 1
        /\ tx_state = "parity" => uart_line' = tx_calc
    BY <2>2, <2>3 DEF Serial!TxBit
  <2>5. k + 1 \in 1 .. UtSize + 1 /\ B - 1 \in 0 .. B - 1
    BY <1>4, UtNumbers, UtSizes
  <2>6. UtTxAt(c, k + 1)'
    BY <1>1, <1>4, <2>1, <2>2, <2>4, UtNumbers, UtSizes DEF UtTxAt, Serial!AfterStop
  <2>7. UtLine(c, k + 1)'
    BY <1>1, <1>4, <2>1, <2>2, <2>4, UtNumbers, UtSizes DEF UtLine
  <2> QED
    BY <1>1, <1>4, <2>4, <2>5, <2>6, <2>7 DEF UtNextBit, UtSends
<1>5. CASE tx_baud = 0 /\ k = UtSize + 1
  <2>1. tx_state = "idle"
    BY <1>1, <1>5 DEF UtTxAt
  <2>2. tx_busy' = FALSE /\ uart_line' = 1 /\ tx_state' = "idle" /\ tx_baud' = 0
    BY <1>1, <1>5, <2>1 DEF Serial!TxUart
  <2>3. UtRest'
    BY <1>1, <2>2 DEF UtRest
  <2> QED
    BY <1>5, <2>3, UtSizes DEF UtNextBit
<1> QED
  BY <1>2, <1>3, <1>4, <1>5, UtSizes, UtNumbers

LEMMA UtSimNext ==
  ASSUME UtSetup, UtSame, dir = "in", NEW c \in Serial!Char, NEW k \in 1 .. UtSize + 1,
      UtSends(c, k),
         NEW x, Serial!SimTx(x), UtSetup'
  PROVE  UtNextBit(c, k)
<1>1. /\ tx_baud \in 0 .. B - 1 /\ UtLine(c, k) /\ UtSimAt(c, k) /\ ~Serial!SimTakes(x)
      /\ setup' = setup /\ dir' = dir /\ dir' = "in" /\ UtSize' = UtSize /\ UtMore' = UtMore
      /\ tx_state = "data" /\ UtBits' = UtBits
  BY UtSameSize DEF UtSends, UtSimAt, Serial!SimTakes, UtSame, UtBits
<1>2. PICK f : f = Serial!Frame(c) /\ f = Serial!Frame(c)'
  BY UtSameSize
<1>3. PICK v, e : v = tx_bits /\ e = tx_bits'
  OBVIOUS
<1>4. /\ v \in Seq(UtBits) /\ Len(v) = UtSize + 2 - k
      /\ \A i \in 1 .. UtSize + 2 - k : v[i] = f[k - 1 + i]
  BY <1>1, <1>2, <1>3 DEF UtSimAt
<1>5. uart_line' = IF e = << >> THEN 1 ELSE Head(e)
  BY <1>3 DEF Serial!SimTx
<1>6. CASE tx_baud # 0
  <2>1. tx_baud' = tx_baud - 1 /\ e = v /\ tx_state' = "data"
    BY <1>1, <1>3, <1>6 DEF Serial!SimTx
  <2>2. v # << >> /\ v[1] = f[k] /\ Head(v) = v[1]
    <3>1. 1 \in 1 .. UtSize + 2 - k /\ k - 1 + 1 = k /\ Len(v) >= 1
      BY <1>4, UtSizes, UtNumbers
    <3> QED
      BY <1>4, <3>1
  <2>3. uart_line' = Serial!Frame(c)'[k] /\ uart_line' = e[1] /\ uart_line' = uart_line
    <3>1. uart_line = v[1]
      BY <1>1, <1>3 DEF UtSimAt
    <3> QED
      BY <1>2, <1>5, <2>1, <2>2, <3>1
  <2>4. UtLine(c, k)'
    BY <1>1, <2>3, UtFrameLineNext
  <2>5. UtSimAt(c, k)'
    BY <1>1, <1>2, <1>3, <1>4, <2>1, <2>3 DEF UtSimAt
  <2>6. tx_baud' \in 0 .. B - 1
    BY <1>1, <1>6, <2>1, UtNumbers
  <2> QED
    BY <1>1, <1>6, <2>1, <2>3, <2>4, <2>5, <2>6 DEF UtNextBit, UtSends
<1>7. CASE tx_baud = 0 /\ k <= UtSize
  <2>1. e = Tail(v) /\ tx_baud' = B - 1 /\ tx_state' = "data"
    <3>1. Len(tx_bits) # 1
      BY <1>3, <1>4, <1>7, UtSizes
    <3> QED
      BY <1>1, <1>3, <1>7, <3>1 DEF Serial!SimTx
  <2>2. /\ e \in Seq(UtBits) /\ Len(e) = UtSize + 2 - (k + 1) /\ Len(e) >= 1
        /\ \A i \in 1 .. UtSize + 2 - (k + 1) : e[i] = f[(k + 1) - 1 + i]
    <3>1. Len(v) >= 2 /\ v # << >> /\ Len(v) - 1 = UtSize + 2 - (k + 1) /\ UtSize + 2 - (k + 1) >= 1
      BY <1>4, <1>7, UtSizes, EmptySeq
    <3>2. e \in Seq(UtBits) /\ Len(e) = Len(v) - 1 /\ \A i \in 1 .. Len(v) - 1 : e[i] = v[i + 1]
      BY <1>4, <2>1, <3>1, HeadTailProperties
    <3>3. \A i \in 1 .. UtSize + 2 - (k + 1) : i + 1 \in 1 .. UtSize + 2 - k
         /\ k - 1 + (i + 1) = (k + 1) - 1 + i
      BY <1>7, UtSizes
    <3>4. ASSUME NEW i \in 1 .. UtSize + 2 - (k + 1) PROVE e[i] = f[(k + 1) - 1 + i]
      <4>1. e[i] = v[i + 1]
        BY <3>1, <3>2
      <4>2. v[i + 1] = f[k - 1 + (i + 1)]
        BY <1>4, <3>3
      <4> QED
        BY <3>3, <4>1, <4>2
    <3> QED
      BY <3>1, <3>2, <3>4
  <2>3. uart_line' = Serial!Frame(c)'[k + 1] /\ uart_line' = e[1]
    <3>1. 1 \in 1 .. UtSize + 2 - (k + 1) /\ (k + 1) - 1 + 1 = k + 1 /\ e # << >> /\ Head(e) = e[1]
      BY <1>7, <2>2, UtSizes, EmptySeq
    <3> QED
      BY <1>2, <1>5, <2>2, <3>1
  <2>4. k + 1 \in 1 .. UtSize + 1 /\ B - 1 \in 0 .. B - 1
    BY <1>7, UtNumbers, UtSizes
  <2>5. UtLine(c, k + 1)'
    BY <1>1, <2>3, <2>4, UtFrameLineNext
  <2>6. UtSimAt(c, k + 1)'
    BY <1>1, <1>2, <1>3, <2>1, <2>2, <2>3 DEF UtSimAt
  <2> QED
    BY <1>1, <1>7, <2>1, <2>4, <2>5, <2>6, UtSizes DEF UtNextBit, UtSends
<1>8. CASE tx_baud = 0 /\ k = UtSize + 1
  <2>1. Len(v) = 1 /\ v # << >>
    BY <1>4, <1>8, UtSizes, EmptySeq
  <2>2. e = Tail(v) /\ tx_state' = "idle" /\ tx_baud' = 0
    BY <1>1, <1>3, <1>8, <2>1 DEF Serial!SimTx
  <2>3. e = << >>
    <3>1. e \in Seq(UtBits) /\ Len(e) = 0
      BY <1>4, <2>1, <2>2, HeadTailProperties
    <3> QED
      BY <3>1, EmptySeq
  <2>4. UtRest'
    BY <1>1, <1>3, <1>5, <2>2, <2>3 DEF UtRest
  <2> QED
    BY <1>8, <2>4, UtSizes DEF UtNextBit
<1> QED
  BY <1>1, <1>6, <1>7, <1>8, UtSizes, UtNumbers

LEMMA UtGoesOn ==
  ASSUME UtSetup, UtSame, UtSetup', NEW c \in Serial!Char, NEW k \in 1 .. UtSize + 1, UtSends(c, k),
         NEW x, UtMoves(x)
  PROVE  UtNextBit(c, k) /\ ~UtTakes(x)
<1>1. dir \in {"out", "in"}
  BY DEF UtSetup
<1>2. ~UtTakes(x)
  <2>1. dir = "out" => tx_busy
    BY DEF UtSends, UtTxAt
  <2>2. dir = "in" => tx_state = "data"
    BY DEF UtSends, UtSimAt
  <2> QED
    BY <1>1, <2>1, <2>2 DEF UtTakes, Serial!TxTakes, Serial!SimTakes
<1>3. CASE dir = "out"
  BY <1>2, <1>3, UtTxNext DEF UtMoves
<1>4. CASE dir = "in"
  BY <1>2, <1>4, UtSimNext DEF UtMoves
<1> QED
  BY <1>1, <1>3, <1>4

\* A transmitter at rest begins, or rests on.
LEMMA UtBegins ==
  ASSUME UtSetup, UtSame, UtSetup', UtRest, NEW c \in Serial!Char \cup {Serial!NoChar}, UtMoves(c)
  PROVE  /\ UtTakes(c) => c \in Serial!Char /\ UtSends(c, 1)' /\ tx_baud' = B - 1 /\ uart_line' = 0
         /\ ~UtTakes(c) => UtRest'
<1>1. dir \in {"out", "in"} /\ setup' = setup /\ dir' = dir /\ UtSize' = UtSize /\ UtMore' = UtMore
      /\ UtBits' = UtBits
  BY UtSameSize DEF UtSetup, UtSame, UtBits
<1>2. UtTakes(c) => c \in Serial!Char
  BY DEF UtTakes, Serial!TxTakes, Serial!SimTakes
<1>3. 1 \in 1 .. UtSize + 1 /\ B - 1 \in 0 .. B - 1 /\ W >= 1 /\ UtSize >= W + 1
     /\ UtMore \in {0, 1}
  BY UtSizes, UtNumbers
<1>4. CASE dir = "out"
  <2>1. tx_state = "idle" /\ tx_baud = 0 /\ uart_line = 1 /\ ~tx_busy
       /\ (UtTakes(c) <=> Serial!TxTakes(c)) /\ Serial!TxUart(c)
    BY <1>4 DEF UtRest, UtTakes, Serial!SimTakes, UtMoves
  <2>2. CASE Serial!TxTakes(c)
    <3>1. tx_busy' = TRUE /\ tx_state' = "data" /\ tx_baud' = B - 1 /\ uart_line' = 0
         /\ tx_bits' = c /\ c \in Serial!Char
      BY <1>2, <2>1, <2>2 DEF Serial!TxUart
    <3>2. c \in Seq(Serial!Bit) /\ Len(c) = W
      BY <3>1, UtCharSeq
    <3>3. UtLine(c, 1)'
      BY <1>1, <1>3, <3>1, UtNumbers DEF UtLine
    <3>4. UtTxAt(c, 1)'
      <4>1. W + 1 - 1 = W /\ \A i \in 1 .. W : 1 - 1 + i = i
        BY UtNumbers
      <4>2. Len(c) = W + 1 - 1 /\ \A i \in 1 .. W + 1 - 1 : c[i] = c[1 - 1 + i]
        BY <3>2, <4>1
      <4>3. tx_busy' /\ tx_state' = "data" /\ tx_bits' = c
        BY <3>1
      <4>4. 1 # W + 1 /\ 1 # W + 1 + UtMore /\ 1 # W + 2 + UtMore /\ 1 # UtSize + 1
        BY <1>3, UtNumbers, UtSizes
      <4> QED
        BY <1>1, <3>2, <4>2, <4>3, <4>4 DEF UtTxAt
    <3> QED
      BY <1>1, <1>3, <1>4, <2>1, <2>2, <3>1, <3>3, <3>4 DEF UtSends
  <2>3. CASE ~Serial!TxTakes(c)
    <3>1. tx_busy' = FALSE /\ uart_line' = 1 /\ tx_state' = "idle" /\ tx_baud' = 0
      BY <2>1, <2>3 DEF Serial!TxUart
    <3> QED
      BY <1>1, <1>4, <2>1, <2>3, <3>1 DEF UtRest
  <2> QED
    BY <2>2, <2>3
<1>5. CASE dir = "in"
  <2>1. tx_state = "idle" /\ tx_baud = 0 /\ tx_bits = << >> /\ (UtTakes(c) <=> Serial!SimTakes(c))
       /\ Serial!SimTx(c)
    BY <1>5 DEF UtRest, UtTakes, Serial!TxTakes, UtMoves
  <2>2. CASE Serial!SimTakes(c)
    <3>1. tx_bits' = Serial!Frame(c) /\ tx_state' = "data" /\ tx_baud' = B - 1 /\ c \in Serial!Char
          /\ uart_line' = IF tx_bits' = << >> THEN 1 ELSE Head(tx_bits')
      BY <1>2, <2>1, <2>2 DEF Serial!SimTx
    <3>2. UtFramed(Serial!Frame(c), c)
      BY <3>1, UtFrame
    <3>3. PICK f : f = Serial!Frame(c) /\ f = Serial!Frame(c)'
      BY UtSameSize
    <3>4. f \in Seq(UtBits) /\ Len(f) = UtSize + 1 /\ f # << >> /\ Head(f) = f[1] /\ f[1] = 0
      BY <1>3, <3>2, <3>3, UtNumbers, EmptySeq DEF UtFramed
    <3>5. uart_line' = 0 /\ uart_line' = Serial!Frame(c)'[1] /\ uart_line' = f[1]
      BY <3>1, <3>3, <3>4
    <3>6. UtLine(c, 1)'
      BY <1>1, <1>3, <3>1, <3>5, UtFrameLineNext
    <3>7. UtSimAt(c, 1)'
      <4>1. UtSize + 2 - 1 = UtSize + 1 /\ \A i \in 1 .. UtSize + 1 : 1 - 1 + i = i
        BY UtSizes
      <4>2. tx_bits' = f /\ tx_state' = "data"
        BY <3>1, <3>3
      <4>3. Len(f) = UtSize + 2 - 1 /\ \A i \in 1 .. UtSize + 2 - 1 : f[i] = f[1 - 1 + i]
        BY <3>4, <4>1
      <4> QED
        BY <1>1, <3>3, <3>4, <3>5, <4>2, <4>3 DEF UtSimAt
    <3> QED
      BY <1>1, <1>3, <1>5, <2>1, <2>2, <3>1, <3>5, <3>6, <3>7 DEF UtSends
  <2>3. CASE ~Serial!SimTakes(c)
    <3>1. tx_bits' = << >> /\ tx_state' = "idle" /\ tx_baud' = 0 /\ uart_line' = 1
      BY <2>1, <2>3 DEF Serial!SimTx
    <3> QED
      BY <1>1, <1>5, <2>1, <2>3, <3>1 DEF UtRest
  <2> QED
    BY <2>2, <2>3
<1> QED
  BY <1>1, <1>4, <1>5
-----------------------------------------------------------------------------
(***************************************************************************)
(* What is due, and UARTSIM's receiver.                                    *)
(***************************************************************************)
UtDueMoves(x) ==
  chars' = (IF o_wr THEN SubSeq(chars, 2, Len(chars)) ELSE chars) \o Serial!If(UtTakes(x), <<x>>)

LEMMA UtDueKept ==
  ASSUME UtSetup, NEW x, UtDueMoves(x)
  PROVE  /\ UtNone => chars' = IF UtTakes(x) THEN <<x>> ELSE << >>
         /\ \A c : UtOne(c) => chars' = IF UtTakes(x) THEN <<c, x>> ELSE <<c>>
         /\ \A c, g : UtTwo(g, c) /\ ~UtTakes(x) => chars' = <<g, c>>
<1>1. PICK r : r = IF o_wr THEN SubSeq(chars, 2, Len(chars)) ELSE chars
  OBVIOUS
<1>2. chars' = r \o (IF UtTakes(x) THEN <<x>> ELSE << >>)
  BY <1>1 DEF UtDueMoves, Serial!If
<1>3. ASSUME UtNone PROVE chars' = IF UtTakes(x) THEN <<x>> ELSE << >>
  <2>1. r = << >>
    <3>1. CASE o_wr
      <4>1. chars = <<rx_data>> /\ Len(chars) = 1 /\ r = SubSeq(chars, 2, 1)
        BY <1>1, <1>3, <3>1 DEF UtNone
      <4> QED
        BY <4>1
    <3>2. CASE ~o_wr
      BY <1>1, <1>3, <3>2 DEF UtNone
    <3> QED
      BY <3>1, <3>2
  <2> QED
    BY <1>2, <2>1
<1>4. ASSUME NEW c, UtOne(c) PROVE chars' = IF UtTakes(x) THEN <<c, x>> ELSE <<c>>
  <2>1. r = <<c>>
    <3>1. CASE o_wr
      <4>1. PICK q : q = <<rx_data, c>>
        OBVIOUS
      <4>2. q \in Seq({rx_data, c}) /\ Len(q) = 2 /\ q[2] = c /\ r = SubSeq(q, 2, 2)
        <5>1. Len(q) = 2 /\ chars = q
          BY <1>4, <3>1, <4>1 DEF UtOne
        <5> QED
          BY <1>1, <3>1, <4>1, <5>1
      <4>3. r \in Seq({rx_data, c}) /\ Len(r) = 1 /\ r[1] = c
        BY <4>2, SubSeqProperties
      <4> QED
        BY <4>3
    <3>2. CASE ~o_wr
      BY <1>1, <1>4, <3>2 DEF UtOne
    <3> QED
      BY <3>1, <3>2
  <2> QED
    BY <1>2, <2>1
<1>5. ASSUME NEW c, NEW g, UtTwo(g, c), ~UtTakes(x) PROVE chars' = <<g, c>>
  <2>1. r = <<g, c>>
    BY <1>1, <1>5 DEF UtTwo
  <2> QED
    BY <1>2, <1>5, <2>1
<1> QED
  BY <1>3, <1>4, <1>5

\* What kind of values the line and the receivers' flags have.
UtSending == UtRest \/ \E c \in Serial!Char : \E k \in 1 .. UtSize + 1 : UtSends(c, k)

LEMMA UtTypes ==
  ASSUME UtSetup, UtSame, UtSending, Serial!SimRx \/ Serial!RxUart,
      NEW x \in Serial!Char \cup {Serial!NoChar}, UtMoves(x)
  PROVE  UtSetup'
<1>1. /\ setup' = setup /\ dir' = dir /\ UtBits' = UtBits /\ dir \in {"out", "in"}
      /\ setup.even \in Serial!Bit /\ tx_calc \in Serial!Bit /\ uart_line \in UtBits
           /\ 0 \in Serial!Bit /\ 1 \in Serial!Bit
      /\ \A v \in Serial!Bit : v \in UtBits
  BY DEF UtSame, UtSetup, UtBits, Serial!Bit
<1>2. \A a, v \in Serial!Bit : Serial!Xor(a, v) \in Serial!Bit
  BY DEF Serial!Xor, Serial!Bit
<1>3. uart_line' \in UtBits /\ tx_calc' \in Serial!Bit /\ tx_busy' \in BOOLEAN
  <2>1. CASE dir = "out"
    <3>1. Serial!TxUart(x)
      BY <2>1 DEF UtMoves
    <3>2. CASE Serial!TxTakes(x) /\ tx_busy' = TRUE /\ uart_line' = 0 /\ tx_calc' = setup.even
      BY <1>1, <3>2
    <3>3. CASE tx_busy' = TRUE /\ UNCHANGED <<uart_line, tx_calc>>
      BY <1>1, <3>3
    <3>4. CASE tx_baud = 0 /\ tx_state # "idle" /\ Serial!TxBit
      <4>1. tx_state = "data" => tx_bits \in Seq(Serial!Bit) /\ tx_bits # << >>
        <5>1. ~UtRest
          BY <3>4 DEF UtRest
        <5>2. PICK c \in Serial!Char, k \in 1 .. UtSize + 1 : UtSends(c, k)
          BY <5>1 DEF UtSending
        <5>3. UtTxAt(c, k)
          BY <2>1, <5>2 DEF UtSends
        <5>4. tx_state = "data" => k <= W
          BY <5>3, UtSizes, UtNumbers DEF UtTxAt
        <5>5. k <= W => tx_bits \in Seq(Serial!Bit) /\ Len(tx_bits) >= 1
          BY <5>3, UtNumbers DEF UtTxAt
        <5> QED
          BY <5>4, <5>5, EmptySeq
      <4>2. tx_state = "data" => Head(tx_bits) \in Serial!Bit
        <5>1. PICK v : v = tx_bits
          OBVIOUS
        <5>2. v \in Seq(Serial!Bit) /\ v # << >> => Head(v) \in Serial!Bit
          BY HeadTailProperties
        <5> QED
          BY <4>1, <5>1, <5>2
      <4> QED
        BY <1>1, <1>2, <3>4, <4>2 DEF Serial!TxBit
    <3>5. CASE tx_busy' = FALSE /\ uart_line' = 1 /\ UNCHANGED tx_calc
      BY <1>1, <3>5
    <3> QED
      BY <3>1, <3>2, <3>3, <3>4, <3>5 DEF Serial!TxUart
  <2>2. CASE dir = "in"
    <3>1. Serial!SimTx(x) /\ UNCHANGED <<tx_busy, tx_calc>>
      BY <2>2 DEF UtMoves, Serial!SimTx
    <3>2. PICK v, e : v = tx_bits /\ e = tx_bits'
      OBVIOUS
    <3>3. v \in Seq(UtBits) /\ (v = << >> => tx_state = "idle")
      <4>1. CASE UtRest
        BY <2>2, <3>2, <4>1, EmptySeq DEF UtRest
      <4>2. CASE ~UtRest
        <5>1. PICK c \in Serial!Char, k \in 1 .. UtSize + 1 : UtSends(c, k)
          BY <4>2 DEF UtSending
        <5>2. v \in Seq(UtBits) /\ Len(v) = UtSize + 2 - k
          BY <2>2, <3>2, <5>1 DEF UtSends, UtSimAt
        <5> QED
          BY <5>2, UtSizes, EmptySeq
      <4> QED
        BY <4>1, <4>2
    <3>4. e \in Seq(UtBits)
      <4>1. CASE Serial!SimTakes(x)
        <5>1. x \in Serial!Char /\ tx_bits' = Serial!Frame(x)
          BY <3>1, <4>1 DEF Serial!SimTx, Serial!SimTakes
        <5>2. UtFramed(Serial!Frame(x), x)
          BY <5>1, UtFrame
        <5> QED
          BY <3>2, <5>1, <5>2 DEF UtFramed
      <4>2. CASE e = v
        BY <3>3, <4>2
      <4>3. CASE e = Tail(v) /\ tx_state = "data"
        <5>1. v # << >>
          BY <3>3, <4>3
        <5> QED
          BY <3>3, <4>3, <5>1, HeadTailProperties
      <4> QED
        BY <3>1, <3>2, <4>1, <4>2, <4>3 DEF Serial!SimTx
    <3>5. uart_line' = IF e = << >> THEN 1 ELSE Head(e)
      BY <3>1, <3>2 DEF Serial!SimTx
    <3>6. e # << >> => Head(e) \in UtBits
      BY <3>4, HeadTailProperties
    <3>7. tx_busy \in BOOLEAN
      BY DEF UtSetup
    <3> QED
      BY <1>1, <3>1, <3>5, <3>6, <3>7
  <2> QED
    BY <1>1, <2>1, <2>2
<1>4. o_wr' \in BOOLEAN /\ rx_pre' \in BOOLEAN /\ o_parity_err' \in BOOLEAN
  <2>1. rx_pre \in BOOLEAN /\ o_parity_err \in BOOLEAN
    BY DEF UtSetup
  <2>2. CASE Serial!SimRx
    BY <2>1, <2>2 DEF Serial!SimRx
  <2>3. CASE Serial!RxUart
    <3>1. o_wr' = ((rx_zero \/ rx_state = "idle") /\ rx_pre) /\ o_parity_err' = Serial!ParityErr
      BY <2>3 DEF Serial!RxUart
    <3>2. Serial!ParityErr \in BOOLEAN
      <4>1. (~Serial!Quiet /\ o_parity_err) \in BOOLEAN
        BY Zenon, <2>1
      <4>2. (Serial!ck_uart # setup.even) \in BOOLEAN
        BY Zenon
      <4>3. ((rx_calc # Serial!ck_uart) = (setup.even = 1)) \in BOOLEAN
        BY Zenon
      <4> QED
        BY Zenon, <4>1, <4>2, <4>3 DEF Serial!ParityErr
    <3>3. ((rx_zero \/ rx_state = "idle") /\ rx_pre) \in BOOLEAN
      BY Zenon
    <3>4. rx_pre' \in BOOLEAN
      <4>1. rx_pre' = IF rx_zero /\ rx_state = "stop" THEN TRUE
                      ELSE rx_pre /\ ~rx_zero /\ rx_state # "idle"
        BY <2>3 DEF Serial!RxUart
      <4>2. (rx_pre /\ ~rx_zero /\ rx_state # "idle") \in BOOLEAN
        BY Zenon
      <4> QED
        BY Zenon, <4>1, <4>2
    <3> QED
      BY Zenon, <3>1, <3>2, <3>3, <3>4
  <2> QED
    BY <2>2, <2>3
<1>5. /\ setup' \in [parity : BOOLEAN, fixed : BOOLEAN, even : Serial!Bit, stops : {1, 2}]
      /\ dir' \in {"out", "in"}
  BY <1>1 DEF UtSetup
<1> QED
  BY <1>1, <1>3, <1>4, <1>5 DEF UtSetup

\* A clock of UARTSIM's receiver: the clocks since the edge, and what comes out.
UtSimClock(x) ==
  /\ UtSetup /\ UtSetup' /\ UtSame /\ dir = "out" /\ Serial!SimRx /\ UtDueMoves(x)
  /\ x \in Serial!Char \cup {Serial!NoChar} /\ UtMoves(x)

LEMMA UtEdgeSeen ==
  ASSUME NEW x, UtSimClock(x)
  PROVE  /\ (Serial!SimChange)' = IF uart_line' = 0 /\ uart_line = 1 THEN 0
              ELSE Serial!Least(Serial!SimChange + 1, Serial!Break)
         /\ UtSize' = UtSize /\ UtMore' = UtMore /\ UtHalf' = UtHalf /\ UtBits' = UtBits
              /\ dir' = "out"
<1>1. PICK s : s = Serial!SimChange
  OBVIOUS
<1>2. rx_change' = s /\ ck' = <<uart_line, 1, 1>>
  BY <1>1 DEF Serial!SimRx, UtSimClock
<1>3. ck'[1] = uart_line
  BY <1>2
<1> QED
  BY <1>1, <1>2, <1>3, UtSameSize DEF Serial!SimChange, UtSimClock, UtSame, UtBits, UtHalf

LEMMA UtAgeNext ==
  ASSUME tx_baud \in 1 .. B - 1, tx_baud' = tx_baud - 1
  PROVE  UtAge' = UtAge + 1 /\ UtAge \in 0 .. B - 2
BY UtNumbers DEF UtAge

\* The character that goes out once all of it is there.
LEMMA UtGives ==
  ASSUME NEW g, UtSimHas(g, UtSize), UtSetup
  PROVE  SubSeq(rx_bits, 1, W) = g
<1>1. PICK r : r = rx_bits
  OBVIOUS
<1>2. r \in Seq(UtBits) /\ Len(r) = UtSize /\ (\A i \in 1 .. UtSize : i <= W => r[i] = g[i])
     /\ g \in Serial!Char
  BY <1>1 DEF UtSimHas
<1>3. W \in Nat /\ W >= 1 /\ UtSize >= W + 1 /\ UtSize \in Nat /\ g \in Seq(Serial!Bit)
     /\ Len(g) = W
  BY <1>2, UtNumbers, UtSizes, UtCharSeq
<1>4. PICK s : s = SubSeq(r, 1, W)
  OBVIOUS
<1>5. s \in Seq(UtBits) /\ Len(s) = W /\ \A i \in 1 .. W : s[i] = r[1 + i - 1]
  BY <1>2, <1>3, <1>4, SubSeqProperties
<1>6. \A i \in 1 .. W : s[i] = g[i]
  <2>1. \A i \in 1 .. W : 1 + i - 1 = i /\ i \in 1 .. UtSize /\ i <= W
    BY <1>3
  <2> QED
    BY <1>2, <1>5, <2>1
<1>7. s = [i \in 1 .. W |-> s[i]] /\ g = [i \in 1 .. W |-> g[i]]
  BY <1>2, <1>3, <1>5 DEF Serial!Char
<1> QED
  BY <1>1, <1>4, <1>6, <1>7

LEMMA UtFromQuiet ==
  ASSUME NEW x, UtSimClock(x), UtSimQuiet
  PROVE  UtOut'
<1>1. /\ rx_state = "idle" /\ UtRest /\ uart_line = 1 /\ UtSetup /\ UtSetup' /\ UtSame /\ UtMoves(x)
      /\ x \in Serial!Char \cup {Serial!NoChar}
  BY DEF UtSimQuiet, UtRest, UtSimClock
<1>2. rx_state' = "idle" /\ ~o_wr'
  BY <1>1 DEF Serial!SimRx, UtSimClock
<1>3. chars' = IF UtTakes(x) THEN <<x>> ELSE << >>
  BY UtDueKept DEF UtSimQuiet, UtSimClock
<1>4. CASE UtTakes(x)
  <2>1. x \in Serial!Char /\ UtSends(x, 1)' /\ tx_baud' = B - 1 /\ uart_line' = 0
    BY <1>1, <1>4, UtBegins
  <2>2. (Serial!SimChange)' = 0 /\ UtAge' = 0 /\ 0 <= UtHalf'
    BY <1>1, <2>1, UtEdgeSeen, UtNumbers DEF UtAge
  <2>3. UtOne(x)'
    BY <1>2, <1>3, <1>4 DEF UtOne
  <2>4. UtSimEdge(x)'
    BY <1>2, <2>1, <2>2, <2>3 DEF UtSimEdge
  <2> QED
    BY <2>1, <2>4 DEF UtOut
<1>5. CASE ~UtTakes(x)
  <2>1. UtRest' /\ UtNone'
    BY <1>1, <1>2, <1>3, <1>5, UtBegins DEF UtNone
  <2> QED
    BY <1>2, <2>1 DEF UtOut, UtSimQuiet
<1> QED
  BY <1>4, <1>5

\* The start bit is seen in its first half.
LEMMA UtFromEdge ==
  ASSUME NEW x, UtSimClock(x), NEW c \in Serial!Char, UtSimEdge(c)
  PROVE  UtOut'
<1>1. /\ rx_state = "idle" /\ UtSends(c, 1) /\ uart_line = 0 /\ UtSetup /\ UtSetup' /\ UtSame
           /\ UtMoves(x)
      /\ UtAge <= UtHalf /\ Serial!SimChange = UtAge /\ tx_baud \in 0 .. B - 1
  BY DEF UtSimEdge, UtSends, UtLine, UtSimClock
<1>2. tx_baud # 0 /\ 1 \in 1 .. UtSize + 1
  BY <1>1, UtNumbers, UtSizes DEF UtAge
<1>3. UtSends(c, 1)' /\ tx_baud' = tx_baud - 1 /\ ~UtTakes(x)
  BY <1>1, <1>2, UtGoesOn DEF UtNextBit
<1>4. rx_state' = "data" /\ rx_baud' = Serial!ToFirstBit /\ rx_bits' = << >> /\ ~o_wr'
  BY <1>1 DEF Serial!SimRx, UtSimClock
<1>5. rx_baud' = B + UtHalf - 1 - UtAge
  BY <1>1, <1>4 DEF Serial!ToFirstBit, UtHalf
<1>6. rx_baud' = tx_baud' + UtHalf + 1 /\ rx_baud' \in Nat
  BY <1>1, <1>2, <1>3, <1>5, UtNumbers DEF UtAge
<1>7. UtSimHas(c, 0)'
  <2>1. rx_bits' \in Seq(UtBits') /\ Len(rx_bits') = 0
    BY <1>4, EmptySeq
  <2>2. 0 \in 0 .. UtSize'
    BY UtEdgeSeen, UtSizes DEF UtSimClock
  <2> QED
    BY <1>4, <1>6, <2>1, <2>2 DEF UtSimHas
<1>8. UtOne(c)'
  <2>1. chars' = <<c>>
    BY <1>3, UtDueKept DEF UtSimEdge, UtSimClock
  <2> QED
    BY <1>4, <2>1 DEF UtOne
<1>9. UtSimInStep(0, 1)'
  BY <1>6 DEF UtSimInStep, UtHalf
<1>10. UtSimHears(c, 0, 1)'
  BY <1>3, <1>4, <1>7, <1>8, <1>9 DEF UtSimHears
<1>11. 0 \in 0 .. UtSize' /\ 1 \in 1 .. UtSize' + 1
  BY UtEdgeSeen, UtSizes DEF UtSimClock
<1> QED
  BY <1>10, <1>11 DEF UtOut

\* A sample, in the middle of bit n + 1.
LEMMA UtSamples ==
  ASSUME NEW x, UtSimClock(x), NEW g \in Serial!Char, NEW n \in 0 .. UtSize,
      NEW k \in 1 .. UtSize + 1,
         UtSimHears(g, n, k), rx_baud = 0
  PROVE  n < UtSize /\ k = n + 2 /\ rx_baud' = B - 1 /\ tx_baud = B - UtHalf - 1
      /\ UtSimHas(g, n + 1)' /\ ~o_wr'
<1>1. /\ UtSimHas(g, n) /\ UtSends(g, k) /\ UtSimInStep(n, k) /\ tx_baud \in 0 .. B - 1
           /\ UtLine(g, k)
      /\ UtSetup
  BY DEF UtSimHears, UtSends, UtSimClock
<1>2. k = n + 2 /\ tx_baud = B - UtHalf - 1 /\ n < UtSize
  BY <1>1, UtNumbers, UtSizes DEF UtSimInStep
<1>3. PICK r, s : r = rx_bits /\ s = rx_bits'
  OBVIOUS
<1>4. r \in Seq(UtBits) /\ Len(r) = n /\ (\A i \in 1 .. n : i <= W => r[i] = g[i])
     /\ rx_state = "data"
  BY <1>1, <1>3 DEF UtSimHas
<1>5. s = Append(r, uart_line) /\ rx_baud' = B - 1 /\ ~o_wr' /\ rx_state' = "data"
  <2>1. Len(rx_bits) # Serial!SampleCount
    BY <1>1, <1>2, <1>3, <1>4, UtSizes
  <2>2. rx_bits' = Append(rx_bits, uart_line) /\ rx_baud' = B - 1 /\ o_wr' = FALSE
       /\ rx_state' = rx_state
    BY <1>4, <2>1 DEF Serial!SimRx, UtSimClock
  <2> QED
    BY <1>3, <1>4, <2>2
<1>6. uart_line \in UtBits
  BY <1>1 DEF UtSetup
<1>7. s \in Seq(UtBits) /\ Len(s) = n + 1 /\ s[n + 1] = uart_line /\ \A i \in 1 .. n : s[i] = r[i]
  BY <1>4, <1>5, <1>6, AppendProperties
<1>8. n + 1 <= W => uart_line = g[n + 1]
  BY <1>1, <1>2, UtNumbers DEF UtLine
<1>9. \A i \in 1 .. n + 1 : i <= W => s[i] = g[i]
  <2>1. \A i \in 1 .. n + 1 : i \in 1 .. n \/ i = n + 1
    OBVIOUS
  <2> QED
    BY <1>4, <1>7, <1>8, <2>1
<1>10. n + 1 \in 0 .. UtSize' /\ B - 1 \in Nat
  BY <1>1, <1>2, UtEdgeSeen, UtSizes, UtNumbers
<1>11. UtSimHas(g, n + 1)'
  BY <1>3, <1>5, <1>7, <1>9, <1>10, UtEdgeSeen DEF UtSimHas
<1> QED
  BY <1>2, <1>5, <1>11

\* Otherwise it waits.
LEMMA UtWaits ==
  ASSUME NEW x, UtSimClock(x), NEW g, NEW n, UtSimHas(g, n), rx_baud # 0
  PROVE  rx_baud' = rx_baud - 1 /\ UtSimHas(g, n)' /\ ~o_wr'
<1>1. rx_state = "data" /\ rx_baud \in Nat /\ rx_baud > 0
  BY DEF UtSimHas
<1>2. rx_baud' = rx_baud - 1 /\ ~o_wr' /\ rx_state' = rx_state /\ rx_bits' = rx_bits
  BY <1>1 DEF Serial!SimRx, UtSimClock
<1> QED
  BY <1>1, <1>2, UtEdgeSeen DEF UtSimHas

LEMMA UtFromHears ==
  ASSUME NEW x, UtSimClock(x), NEW g \in Serial!Char, NEW n \in 0 .. UtSize,
      NEW k \in 1 .. UtSize + 1,
         UtSimHears(g, n, k)
  PROVE  UtOut'
<1>1. /\ UtSimHas(g, n) /\ UtSends(g, k) /\ UtSimInStep(n, k) /\ tx_baud \in 0 .. B - 1
      /\ UtSetup /\ UtSetup' /\ UtSame /\ UtMoves(x) /\ rx_baud \in Nat
  BY DEF UtSimHears, UtSends, UtSimClock, UtSimHas
<1>2. UtNextBit(g, k) /\ ~UtTakes(x)
  BY <1>1, UtGoesOn
<1>3. chars' = <<g>>
  BY <1>2, UtDueKept DEF UtSimHears, UtSimClock
<1>4. UtSize' = UtSize /\ UtHalf' = UtHalf /\ UtSize \in Nat
  BY <1>1, UtEdgeSeen, UtSizes
<1>5. ASSUME NEW m \in 0 .. UtSize, NEW j \in 1 .. UtSize + 1, UtSimHas(g, m)', UtSends(g, j)',
     ~o_wr',
             \/ j = m + 1 /\ rx_baud' = tx_baud' + UtHalf + 1
             \/ j = m + 2 /\ rx_baud' = tx_baud' + UtHalf + 1 - B
      PROVE  UtOut'
  <2>1. UtOne(g)'
    BY <1>3, <1>5 DEF UtOne
  <2>2. UtSimInStep(m, j)'
    BY <1>4, <1>5 DEF UtSimInStep
  <2>3. UtSimHears(g, m, j)'
    BY <1>5, <2>1, <2>2 DEF UtSimHears
  <2>4. m \in 0 .. UtSize' /\ j \in 1 .. UtSize' + 1
    BY <1>4
  <2> QED
    BY <2>3, <2>4 DEF UtOut
<1>6. CASE rx_baud = 0
  <2>1. /\ n < UtSize /\ k = n + 2 /\ rx_baud' = B - 1 /\ tx_baud = B - UtHalf - 1
        /\ UtSimHas(g, n + 1)' /\ ~o_wr'
    BY <1>6, UtSamples
  <2>2. tx_baud # 0
    BY <2>1, UtNumbers
  <2>3. UtSends(g, k)' /\ tx_baud' = tx_baud - 1
    BY <1>2, <2>2 DEF UtNextBit
  <2>4. n + 1 \in 0 .. UtSize /\ k = (n + 1) + 1 /\ rx_baud' = tx_baud' + UtHalf + 1
    BY <1>4, <2>1, <2>3, UtNumbers
  <2> QED
    BY <1>5, <2>1, <2>3, <2>4
<1>7. CASE rx_baud # 0
  <2>1. rx_baud' = rx_baud - 1 /\ UtSimHas(g, n)' /\ ~o_wr'
    BY <1>1, <1>7, UtWaits
  <2>2. CASE tx_baud # 0
    <3>1. UtSends(g, k)' /\ tx_baud' = tx_baud - 1
      BY <1>2, <2>2 DEF UtNextBit
    <3>2. \/ k = n + 1 /\ rx_baud' = tx_baud' + UtHalf + 1
          \/ k = n + 2 /\ rx_baud' = tx_baud' + UtHalf + 1 - B
      BY <1>1, <2>1, <3>1, UtNumbers DEF UtSimInStep
    <3> QED
      BY <1>5, <2>1, <3>1, <3>2
  <2>3. CASE tx_baud = 0 /\ k <= UtSize
    <3>1. UtSends(g, k + 1)' /\ tx_baud' = B - 1
      BY <1>2, <2>3 DEF UtNextBit
    <3>2. k + 1 = n + 2 /\ rx_baud' = tx_baud' + UtHalf + 1 - B
      BY <1>1, <2>1, <2>3, <3>1, UtNumbers DEF UtSimInStep
    <3>3. k + 1 \in 1 .. UtSize + 1
      BY <2>3, <1>4
    <3> QED
      BY <1>5, <2>1, <3>1, <3>2, <3>3
  <2>4. CASE tx_baud = 0 /\ k = UtSize + 1
    <3>1. UtRest'
      BY <1>2, <2>4 DEF UtNextBit
    <3>2. n = UtSize /\ rx_baud' <= UtHalf
      BY <1>1, <1>4, <2>1, <2>4, UtNumbers DEF UtSimInStep
    <3>3. UtOne(g)'
      BY <1>3, <2>1 DEF UtOne
    <3>4. UtSimEnds(g)'
      BY <1>4, <2>1, <3>1, <3>2, <3>3 DEF UtSimEnds
    <3> QED
      BY <3>4 DEF UtOut
  <2> QED
    BY <1>4, <2>2, <2>3, <2>4
<1> QED
  BY <1>6, <1>7

\* The last sample: the frame has ended, and UARTSIM is idle again.
LEMMA UtFrameEnds ==
  ASSUME NEW x, UtSimClock(x), NEW g, UtSimHas(g, UtSize), rx_baud = 0
  PROVE  rx_state' = "idle" /\ o_wr' /\ rx_data' = g
<1>1. rx_state = "data" /\ Len(rx_bits) = Serial!SampleCount /\ UtSetup /\ SubSeq(rx_bits, 1, W) = g
  BY UtSizes, UtGives DEF UtSimHas, UtSimClock
<1> QED
  BY <1>1 DEF Serial!SimRx, UtSimClock

LEMMA UtFromEnds ==
  ASSUME NEW x, UtSimClock(x), NEW g \in Serial!Char, UtSimEnds(g)
  PROVE  UtOut'
<1>1. /\ UtSimHas(g, UtSize) /\ UtRest /\ rx_baud <= UtHalf /\ UtOne(g) /\ ~o_wr /\ uart_line = 1
      /\ UtSetup /\ UtSetup' /\ UtSame /\ UtMoves(x) /\ x \in Serial!Char \cup {Serial!NoChar}
           /\ rx_baud \in Nat
  BY DEF UtSimEnds, UtRest, UtSimClock, UtSimHas
<1>2. chars' = IF UtTakes(x) THEN <<g, x>> ELSE <<g>>
  BY <1>1, UtDueKept DEF UtSimClock
<1>3. UtTakes(x) => /\ x \in Serial!Char /\ UtSends(x, 1)' /\ tx_baud' = B - 1 /\ uart_line' = 0
                    /\ (Serial!SimChange)' = 0 /\ UtAge' = 0
  <2>1. UtTakes(x) => x \in Serial!Char /\ UtSends(x, 1)' /\ tx_baud' = B - 1 /\ uart_line' = 0
    BY <1>1, UtBegins
  <2> QED
    BY <1>1, <2>1, UtEdgeSeen, UtNumbers DEF UtAge
<1>4. ~UtTakes(x) => UtRest'
  BY <1>1, UtBegins
<1>5. UtSize' = UtSize /\ UtHalf' = UtHalf /\ 0 <= UtHalf
  BY UtEdgeSeen, UtNumbers
<1>6. CASE rx_baud = 0
  <2>1. rx_state' = "idle" /\ o_wr' /\ rx_data' = g
    BY <1>1, <1>6, UtFrameEnds
  <2>2. CASE UtTakes(x)
    <3>1. UtOne(x)'
      BY <1>2, <2>1, <2>2 DEF UtOne
    <3>2. UtSimEdge(x)'
      BY <1>3, <1>5, <2>1, <2>2, <3>1 DEF UtSimEdge
    <3> QED
      BY <1>3, <2>2, <3>2 DEF UtOut
  <2>3. CASE ~UtTakes(x)
    <3>1. UtNone'
      BY <1>2, <2>1, <2>3 DEF UtNone
    <3> QED
      BY <1>4, <2>1, <2>3, <3>1 DEF UtOut, UtSimQuiet
  <2> QED
    BY <2>2, <2>3
<1>7. CASE rx_baud # 0
  <2>1. rx_baud' = rx_baud - 1 /\ UtSimHas(g, UtSize)' /\ ~o_wr'
    <3>1. PICK n : n = UtSize
      OBVIOUS
    <3>2. UtSimHas(g, n)
      BY <1>1, <3>1
    <3>3. rx_baud' = rx_baud - 1 /\ UtSimHas(g, n)' /\ ~o_wr'
      BY <1>7, <3>2, UtWaits
    <3>4. UtSize' = n
      BY <3>1, UtEdgeSeen
    <3> QED
      BY <3>3, <3>4
  <2>2. CASE UtTakes(x)
    <3>1. UtTwo(g, x)'
      BY <1>2, <2>1, <2>2 DEF UtTwo
    <3>2. UtAge' + rx_baud' < UtHalf'
      BY <1>1, <1>3, <1>5, <2>1, <2>2, UtNumbers
    <3>3. UtSimMeets(g, x)'
      BY <1>3, <1>5, <2>1, <2>2, <3>1, <3>2 DEF UtSimMeets
    <3> QED
      BY <1>3, <2>2, <3>3 DEF UtOut
  <2>3. CASE ~UtTakes(x)
    <3>1. UtOne(g)'
      BY <1>2, <2>1, <2>3 DEF UtOne
    <3>2. rx_baud' <= UtHalf'
      BY <1>1, <1>5, <2>1, UtNumbers
    <3>3. UtSimEnds(g)'
      BY <1>4, <1>5, <2>1, <2>3, <3>1, <3>2 DEF UtSimEnds
    <3> QED
      BY <3>3 DEF UtOut
  <2> QED
    BY <2>2, <2>3
<1> QED
  BY <1>6, <1>7

\* The next start bit has begun before UARTSIM is idle.
LEMMA UtFromMeets ==
  ASSUME NEW x, UtSimClock(x), NEW g \in Serial!Char, NEW c \in Serial!Char, UtSimMeets(g, c)
  PROVE  UtOut'
<1>1. /\ UtSimHas(g, UtSize) /\ UtSends(c, 1) /\ Serial!SimChange = UtAge
           /\ UtAge + rx_baud < UtHalf
      /\ UtTwo(g, c) /\ uart_line = 0 /\ tx_baud \in 0 .. B - 1 /\ rx_baud \in Nat
      /\ UtSetup /\ UtSetup' /\ UtSame /\ UtMoves(x)
  BY DEF UtSimMeets, UtSends, UtLine, UtSimClock, UtSimHas
<1>2. tx_baud # 0 /\ 1 \in 1 .. UtSize + 1
  BY <1>1, UtNumbers, UtSizes DEF UtAge
<1>3. UtSends(c, 1)' /\ tx_baud' = tx_baud - 1 /\ ~UtTakes(x)
  BY <1>1, <1>2, UtGoesOn DEF UtNextBit
<1>4. UtAge' = UtAge + 1 /\ UtAge \in 0 .. B - 2
  BY <1>1, <1>2, <1>3, UtAgeNext
<1>5. (Serial!SimChange)' = UtAge'
  <2>1. (Serial!SimChange)' = Serial!Least(UtAge + 1, Serial!Break)
    BY <1>1, UtEdgeSeen
  <2>2. UtAge + 1 < Serial!Break
    BY <1>4, UtNumbers
  <2> QED
    BY <1>4, <2>1, <2>2 DEF Serial!Least
<1>6. chars' = <<g, c>>
  BY <1>1, <1>3, UtDueKept DEF UtSimClock
<1>7. UtSize' = UtSize /\ UtHalf' = UtHalf
  BY UtEdgeSeen
<1>8. CASE rx_baud = 0
  <2>1. rx_state' = "idle" /\ o_wr' /\ rx_data' = g
    BY <1>1, <1>8, UtFrameEnds
  <2>2. UtOne(c)'
    BY <1>6, <2>1 DEF UtOne
  <2>3. UtAge' <= UtHalf'
    BY <1>1, <1>4, <1>7, <1>8, UtNumbers
  <2>4. UtSimEdge(c)'
    BY <1>3, <1>5, <2>1, <2>2, <2>3 DEF UtSimEdge
  <2> QED
    BY <2>4 DEF UtOut
<1>9. CASE rx_baud # 0
  <2>1. rx_baud' = rx_baud - 1 /\ UtSimHas(g, UtSize)' /\ ~o_wr'
    <3>1. PICK n : n = UtSize
      OBVIOUS
    <3>2. UtSimHas(g, n)
      BY <1>1, <3>1
    <3>3. rx_baud' = rx_baud - 1 /\ UtSimHas(g, n)' /\ ~o_wr'
      BY <1>9, <3>2, UtWaits
    <3>4. UtSize' = n
      BY <3>1, UtEdgeSeen
    <3> QED
      BY <3>3, <3>4
  <2>2. UtTwo(g, c)'
    BY <1>6, <2>1 DEF UtTwo
  <2>3. UtAge' + rx_baud' < UtHalf'
    BY <1>1, <1>4, <1>7, <2>1, UtNumbers
  <2>4. UtSimMeets(g, c)'
    BY <1>3, <1>5, <1>7, <2>1, <2>2, <2>3 DEF UtSimMeets
  <2> QED
    BY <2>4 DEF UtOut
<1> QED
  BY <1>8, <1>9

LEMMA UtOutKept ==
  ASSUME NEW x, UtSimClock(x), UtOut PROVE UtOut'
<1>1. CASE UtSimQuiet
  BY <1>1, UtFromQuiet
<1>2. CASE \E c \in Serial!Char : UtSimEdge(c)
  BY <1>2, UtFromEdge
<1>3. CASE \E g \in Serial!Char : \E n \in 0 .. UtSize : \E k \in 1 .. UtSize + 1 :
             UtSimHears(g, n, k)
  BY <1>3, UtFromHears
<1>4. CASE \E g \in Serial!Char : UtSimEnds(g)
  BY <1>4, UtFromEnds
<1>5. CASE \E g \in Serial!Char : \E c \in Serial!Char : UtSimMeets(g, c)
  BY <1>5, UtFromMeets
<1> QED
  BY <1>1, <1>2, <1>3, <1>4, <1>5 DEF UtOut

-----------------------------------------------------------------------------
(***************************************************************************)
(* rxuart: the edge of the start bit, the bits, and the end of the frame.  *)
(***************************************************************************)
UtRxClock(x) ==
  /\ UtSetup /\ UtSetup' /\ UtSame /\ dir = "in" /\ Serial!RxUart /\ UtDueMoves(x)
  /\ x \in Serial!Char \cup {Serial!NoChar} /\ UtMoves(x)

LEMMA UtRxSame ==
  ASSUME NEW x, UtRxClock(x)
  PROVE  /\ UtSize' = UtSize /\ UtMore' = UtMore /\ UtHalf' = UtHalf /\ UtHalf = B \div 2
         /\ setup' = setup /\ dir' = "in"
         /\ ck'[1] = uart_line' /\ ck'[2] = ck[1] /\ ck'[3] = ck[2] /\ Serial!ck_uart = ck[3]
         /\ ck' = <<uart_line', ck[1], ck[2]>>
BY UtSameSize DEF UtRxClock, UtSame, UtHalf, Serial!RxUart, Serial!ck_uart

\* What an idle rxuart does.
LEMMA UtRxIdle ==
  ASSUME NEW x, UtRxClock(x), UtRested
  PROVE  /\ ~rx_zero' /\ ~rx_pre' /\ (o_wr' <=> rx_pre) /\ rx_data' = rx_data
         /\ rx_state' = IF Serial!ck_uart = 0 /\ rx_half THEN "data" ELSE "idle"
         /\ rx_baud' = B - 1 /\ rx_bits' = << >>
<1>1. rx_state = "idle" /\ ~rx_zero /\ Serial!RxUart
  BY DEF UtRested, UtRxClock
<1>2. Serial!Quiet
  BY <1>1 DEF Serial!Quiet
<1>3. rx_state' = IF Serial!ck_uart = 0 /\ rx_half THEN "data" ELSE "idle"
  <2>1. rx_state' = Serial!RxNext
    BY <1>1 DEF Serial!RxUart
  <2>2. Serial!RxNext = IF Serial!ck_uart = 0 /\ rx_half THEN "data" ELSE "idle"
    BY <1>1, <1>2 DEF Serial!RxNext
  <2> QED
    BY <2>1, <2>2
<1>4. rx_baud' = B - 1 /\ rx_bits' = << >> /\ rx_data' = rx_data
  BY <1>1, <1>2 DEF Serial!RxUart
<1>5. (rx_zero' <=> rx_state # "idle" /\ rx_baud = 1)
     /\ (o_wr' <=> (rx_zero \/ rx_state = "idle") /\ rx_pre)
  BY <1>1, Zenon DEF Serial!RxUart
<1>6. ~rx_pre'
  <2>1. rx_pre' = IF rx_zero /\ rx_state = "stop" THEN TRUE
                  ELSE rx_pre /\ ~rx_zero /\ rx_state # "idle"
    BY <1>1 DEF Serial!RxUart
  <2> QED
    BY <1>1, <2>1
<1> QED
  BY <1>1, <1>3, <1>4, <1>5, <1>6

LEMMA UtFromDone ==
  ASSUME NEW x, UtRxClock(x), UtDone
  PROVE  UtIn'
<1>1. /\ UtRested /\ ck = <<1, 1, 1>> /\ UtSetup /\ UtSetup' /\ UtSame /\ UtMoves(x)
      /\ x \in Serial!Char \cup {Serial!NoChar}
  BY DEF UtDone, UtRxClock
<1>2. Serial!ck_uart = 1 /\ ck[1] = 1 /\ ck[2] = 1
  BY <1>1 DEF Serial!ck_uart
<1>3. /\ UtRested' /\ ~rx_pre' /\ (o_wr' <=> rx_pre) /\ rx_data' = rx_data
      /\ ck'[1] = uart_line' /\ ck'[2] = 1 /\ ck'[3] = 1 /\ ck' = <<uart_line', 1, 1>>
  BY <1>1, <1>2, UtRxIdle, UtRxSame DEF UtRested
<1>4. chars' = IF UtTakes(x) THEN (IF o_wr' THEN <<rx_data', x>> ELSE <<x>>)
             ELSE (IF o_wr' THEN <<rx_data'>> ELSE << >>)
  <2>1. CASE rx_pre
    <3>1. UtOne(rx_data)
      BY <2>1 DEF UtDone
    <3>2. chars' = IF UtTakes(x) THEN <<rx_data, x>> ELSE <<rx_data>>
      BY <3>1, UtDueKept DEF UtRxClock
    <3> QED
      BY <1>3, <2>1, <3>2
  <2>2. CASE ~rx_pre
    <3>1. chars' = IF UtTakes(x) THEN <<x>> ELSE << >>
      BY <2>2, UtDueKept DEF UtDone, UtRxClock
    <3> QED
      BY <1>3, <2>2, <3>1
  <2> QED
    BY <2>1, <2>2
<1>5. CASE UtTakes(x)
  <2>1. UtRest
    <3>1. ASSUME NEW g \in Serial!Char, UtSends(g, UtSize + 1) PROVE FALSE
      <4>1. UtSize + 1 \in 1 .. UtSize + 1
        BY <1>1, UtSizes
      <4> QED
        BY <1>1, <1>5, <3>1, <4>1, UtGoesOn
    <3> QED
      BY <3>1 DEF UtDone
  <2>2. x \in Serial!Char /\ UtSends(x, 1)' /\ tx_baud' = B - 1 /\ uart_line' = 0
    BY <1>1, <1>5, <2>1, UtBegins
  <2>3. UtAge' = 0
    BY <2>2, UtNumbers DEF UtAge
  <2>4. UtOne(x)'
    BY <1>4, <1>5 DEF UtOne
  <2>5. UtSynced'
    BY <1>3, <2>3 DEF UtSynced
  <2>6. UtEdge(x)'
    BY <1>3, <2>2, <2>3, <2>4, <2>5, UtRxSame, UtNumbers DEF UtEdge
  <2> QED
    BY <2>2, <2>6 DEF UtIn
<1>6. CASE ~UtTakes(x)
  <2>1. uart_line' = 1 /\ (UtRest' \/ \E g \in Serial!Char : UtSends(g, UtSize + 1)')
    <3>1. CASE UtRest
      BY <1>1, <1>6, <3>1, UtBegins DEF UtRest
    <3>2. ASSUME NEW g \in Serial!Char, UtSends(g, UtSize + 1)
          PROVE  uart_line' = 1 /\ (UtRest' \/ \E c \in Serial!Char : UtSends(c, UtSize + 1)')
      <4>1. PICK k : k = UtSize + 1
        OBVIOUS
      <4>2. k \in 1 .. UtSize + 1 /\ k > W + 1 + UtMore /\ UtSends(g, k) /\ tx_baud \in 0 .. B - 1
        BY <1>1, <3>2, <4>1, UtSizes, UtNumbers DEF UtSends
      <4>3. UtNextBit(g, k)
        BY <1>1, <4>2, UtGoesOn
      <4>4. uart_line = 1
        BY <4>2 DEF UtSends, UtLine
      <4>5. CASE tx_baud # 0
        <5>1. uart_line' = 1 /\ UtSends(g, k)' /\ UtSize' + 1 = k
          BY <4>1, <4>3, <4>4, <4>5, UtRxSame DEF UtNextBit
        <5> QED
          BY <5>1
      <4>6. CASE tx_baud = 0
        BY <4>1, <4>3, <4>6 DEF UtNextBit, UtRest
      <4> QED
        BY <4>5, <4>6
    <3> QED
      BY <3>1, <3>2 DEF UtDone
  <2>2. UtNone'
    BY <1>4, <1>6 DEF UtNone
  <2>3. UtDone'
    BY <1>3, <2>1, <2>2 DEF UtDone
  <2> QED
    BY <2>3 DEF UtIn
<1> QED
  BY <1>5, <1>6

\* rxuart keeps seeing the line two clocks late.
LEMMA UtSyncKept ==
  ASSUME NEW x, UtRxClock(x), UtSynced, tx_baud \in 0 .. B - 1,
         (tx_baud # 0 /\ tx_baud' = tx_baud - 1 /\ uart_line' = uart_line) \/ tx_baud' = B - 1
  PROVE  UtSynced'
<1>1. ck'[1] = uart_line' /\ ck'[2] = ck[1] /\ ck'[3] = ck[2] /\ ck[1] = uart_line
  BY UtRxSame DEF UtSynced
<1>2. CASE tx_baud # 0 /\ tx_baud' = tx_baud - 1 /\ uart_line' = uart_line
  <2>1. UtAge' = UtAge + 1 /\ (UtAge' >= 2 => UtAge >= 1)
    BY <1>2, UtAgeNext, UtNumbers
  <2>2. UtAge' >= 2 => ck[2] = uart_line
    BY <2>1 DEF UtSynced
  <2> QED
    BY <1>1, <1>2, <2>2 DEF UtSynced
<1>3. CASE tx_baud' = B - 1
  <2>1. UtAge' = 0
    BY <1>3, UtNumbers DEF UtAge
  <2> QED
    BY <1>1, <2>1 DEF UtSynced
<1> QED
  BY <1>2, <1>3

LEMMA UtFromStart ==
  ASSUME NEW x, UtRxClock(x), NEW c \in Serial!Char, UtEdge(c)
  PROVE  UtIn'
<1>1. /\ UtRested /\ ~rx_pre /\ UtSends(c, 1) /\ UtAge <= UtHalf + 2 /\ UtOne(c) /\ UtSynced
           /\ uart_line = 0
      /\ UtSetup /\ UtSetup' /\ UtSame /\ UtMoves(x) /\ tx_baud \in 0 .. B - 1
  BY DEF UtEdge, UtRxClock, UtSends, UtLine
<1>2. 1 \in 1 .. UtSize + 1 /\ 1 <= UtSize
  BY <1>1, UtSizes, UtNumbers
<1>3. UtNextBit(c, 1) /\ ~UtTakes(x)
  BY <1>1, <1>2, UtGoesOn
<1>4. /\ ~rx_zero' /\ ~rx_pre' /\ ~o_wr' /\ rx_baud' = B - 1 /\ rx_bits' = << >>
      /\ rx_state' = IF Serial!ck_uart = 0 /\ rx_half THEN "data" ELSE "idle"
  BY <1>1, UtRxIdle
<1>5. UtOne(c)'
  <2>1. chars' = <<c>>
    BY <1>1, <1>3, UtDueKept DEF UtRxClock
  <2> QED
    BY <1>4, <2>1 DEF UtOne
<1>6. UtSynced'
  BY <1>1, <1>2, <1>3, UtSyncKept DEF UtNextBit
<1>7. CASE UtAge = UtHalf + 2
  <2>1. rx_half /\ Serial!ck_uart = 0
    BY <1>1, <1>7, UtNumbers, UtRxSame DEF UtEdge, UtSynced
  <2>2. rx_state' = "data"
    BY <1>4, <2>1
  <2>3. UtHas(c, 0)'
    <3>1. rx_bits' \in Seq(Serial!Bit) /\ Len(rx_bits') = 0
      BY <1>4, EmptySeq
    <3>2. 0 \in 0 .. UtSize' - 1 /\ 0 < W /\ UtMore' \in {0, 1} /\ B - 1 \in 0 .. B - 1 /\ B - 1 # 0
      BY <1>1, UtRxSame, UtSizes, UtNumbers
    <3>3. 0 # W /\ ~(0 >= W) /\ 0 # W + UtMore' /\ 0 # W + UtMore' + 1
      <4>1. PICK m : m = UtMore'
        OBVIOUS
      <4>2. W \in Nat /\ W >= 1 /\ m \in {0, 1}
        BY <3>2, <4>1, UtNumbers
      <4>3. 0 # W /\ ~(0 >= W) /\ 0 # W + m /\ 0 # W + m + 1
        BY <4>2
      <4> QED
        BY <4>1, <4>3
    <3>4. \A i \in 1 .. Len(rx_bits') : rx_bits'[i] = c[i]
      BY <3>1
    <3> QED
      BY <1>4, <2>2, <3>1, <3>2, <3>3, <3>4 DEF UtHas
  <2>4. CASE tx_baud # 0
    <3>1. UtSends(c, 1)' /\ tx_baud' = tx_baud - 1
      BY <1>3, <2>4 DEF UtNextBit
    <3>2. UtInStep(0, 1)'
      BY <1>1, <1>4, <1>7, <3>1, UtNumbers, UtRxSame DEF UtInStep, UtAge
    <3>3. UtHears(c, 0, 1)'
      BY <1>5, <1>6, <2>3, <3>1, <3>2 DEF UtHears
    <3>4. 0 \in 0 .. UtSize' - 1 /\ 1 \in 1 .. UtSize' + 1
      BY <1>1, UtRxSame, UtSizes, UtNumbers
    <3> QED
      BY <3>3, <3>4 DEF UtIn
  <2>5. CASE tx_baud = 0
    <3>1. UtSends(c, 2)' /\ tx_baud' = B - 1
      BY <1>2, <1>3, <2>5 DEF UtNextBit
    <3>2. UtInStep(0, 2)'
      BY <1>1, <1>4, <1>7, <2>5, <3>1, UtNumbers, UtRxSame DEF UtInStep, UtAge
    <3>3. UtHears(c, 0, 2)'
      BY <1>5, <1>6, <2>3, <3>1, <3>2 DEF UtHears
    <3>4. 0 \in 0 .. UtSize' - 1 /\ 2 \in 1 .. UtSize' + 1
      BY <1>1, UtRxSame, UtSizes, UtNumbers
    <3> QED
      BY <3>3, <3>4 DEF UtIn
  <2> QED
    BY <2>4, <2>5
<1>8. CASE UtAge # UtHalf + 2
  <2>1. tx_baud # 0
    BY <1>1, <1>8, UtNumbers DEF UtAge
  <2>2. UtSends(c, 1)' /\ tx_baud' = tx_baud - 1 /\ uart_line' = 0
    BY <1>1, <1>3, <2>1 DEF UtNextBit
  <2>3. /\ UtAge' = UtAge + 1 /\ UtAge \in 0 .. B - 2 /\ UtAge' <= UtHalf + 2
        /\ UtHalf' = UtHalf /\ UtHalf \in Nat /\ UtHalf >= 2 /\ UtHalf = B \div 2
    BY <1>1, <1>8, <2>1, <2>2, UtAgeNext, UtNumbers, UtRxSame
  <2>4. /\ ck'[3] = ck[2] /\ ck'[2] = ck[1] /\ ck[1] = 0
        /\ UtAge >= 1 => ck[2] = 0
        /\ UtAge < 1 => ck[2] = 1
        /\ UtAge >= 2 => Serial!ck_uart = 0 /\ rx_change = UtAge - 2 /\ ~rx_half
        /\ UtAge < 2 => Serial!ck_uart = 1
    BY <1>1, <1>8, UtRxSame DEF UtEdge, UtSynced
  <2>5. UtRested'
    <3>1. ~(Serial!ck_uart = 0 /\ rx_half)
      BY <2>3, <2>4
    <3> QED
      BY <1>4, <3>1 DEF UtRested
  <2>6. UtAge' < 2 => ck'[3] = 1
    BY <2>3, <2>4
  <2>7. UtAge' >= 2 => rx_change' = UtAge' - 2 /\ (rx_half' <=> UtAge' = UtHalf' + 2)
    <3>1. /\ rx_change' = IF ck[2] # Serial!ck_uart THEN 0
               ELSE Serial!Least(rx_change + 1, Serial!Break)
          /\ rx_half' <=> Serial!ck_uart = 0 /\ rx_change >= B \div 2 - 1
      BY Zenon DEF UtRxClock, Serial!RxUart
    <3>2. CASE UtAge = 1
      BY <2>3, <2>4, <3>1, <3>2
    <3>3. CASE UtAge >= 2
      <4>1. rx_change + 1 = UtAge - 1 /\ UtAge - 1 < Serial!Break
        BY <2>3, <2>4, <3>3, UtNumbers
      <4>2. Serial!Least(rx_change + 1, Serial!Break) = UtAge - 1
        BY <4>1 DEF Serial!Least
      <4>3. rx_change' = UtAge' - 2
        BY <2>3, <2>4, <3>1, <3>3, <4>2
      <4>4. rx_half' <=> UtAge - 2 >= UtHalf - 1
        BY <2>3, <2>4, <3>1, <3>3
      <4> QED
        BY <2>3, <3>3, <4>3, <4>4
    <3>4. UtAge' >= 2 => UtAge = 1 \/ UtAge >= 2
      BY <2>3
    <3> QED
      BY <3>2, <3>3, <3>4
  <2>8. ~(UtAge' < 1)
    BY <2>3
  <2>9. UtEdge(c)'
    BY <1>4, <1>5, <1>6, <2>2, <2>3, <2>5, <2>6, <2>7, <2>8 DEF UtEdge
  <2> QED
    BY <2>9 DEF UtIn
<1> QED
  BY <1>7, <1>8

\* What rxuart does with bit n + 1 of g: it waits for it, or takes it.
LEMMA UtRxBusy ==
  ASSUME NEW x, UtRxClock(x), NEW g, NEW n, UtHas(g, n)
  PROVE  /\ ~Serial!Quiet /\ rx_state # "idle"
         /\ rx_state \in {"data", "parity", "stop", "stop2"}
         /\ rx_state = "data" <=> n < W
         /\ rx_state = "parity" <=> n = W /\ setup.parity
         /\ rx_state = "stop" <=> n = W + UtMore
         /\ rx_state = "stop2" <=> n = W + UtMore + 1
<1>1. /\ n \in 0 .. UtSize - 1 /\ UtMore \in {0, 1} /\ (UtMore = 1 <=> setup.parity)
      /\ UtSize = W + UtMore + setup.stops /\ setup.stops \in {1, 2} /\ W \in Nat
  BY UtSizes, UtNumbers DEF UtHas, UtRxClock
<1>2. n < W \/ (n = W /\ setup.parity) \/ n = W + UtMore \/ n = W + UtMore + 1
  <2>1. PICK m, s, z : m = UtMore /\ s = setup.stops /\ z = UtSize
    OBVIOUS
  <2>2. n \in 0 .. z - 1 /\ m \in {0, 1} /\ s \in {1, 2} /\ z = W + m + s /\ W \in Nat
    BY <1>1, <2>1
  <2>3. n < W \/ (n = W /\ m = 1) \/ n = W + m \/ n = W + m + 1
    BY <2>2
  <2> QED
    BY <1>1, <2>1, <2>3
<1>3. /\ n < W => rx_state = "data"
      /\ n = W /\ setup.parity => rx_state = "parity"
      /\ n = W + UtMore => rx_state = "stop"
      /\ n = W + UtMore + 1 => rx_state = "stop2"
  BY DEF UtHas
<1> QED
  BY <1>1, <1>2, <1>3 DEF Serial!Quiet

LEMMA UtRxWaits ==
  ASSUME NEW x, UtRxClock(x), NEW g, NEW n, UtHas(g, n), ~rx_zero
  PROVE  UtHas(g, n)' /\ ~o_wr' /\ rx_baud' = rx_baud - 1
<1>1. ~Serial!Quiet /\ rx_state # "idle" /\ rx_state \in {"data", "parity", "stop", "stop2"}
  BY UtRxBusy
<1>2. rx_state' = rx_state
  <2>1. rx_state' = Serial!RxNext
    BY DEF UtRxClock, Serial!RxUart
  <2>2. Serial!RxNext = rx_state
    BY <1>1 DEF Serial!RxNext
  <2> QED
    BY <2>1, <2>2
<1>3. rx_baud' = rx_baud - 1 /\ rx_bits' = rx_bits /\ rx_data' = rx_data
  BY <1>1 DEF UtRxClock, Serial!RxUart
<1>4. /\ o_wr' <=> (rx_zero \/ rx_state = "idle") /\ rx_pre
      /\ rx_zero' <=> rx_state # "idle" /\ rx_baud = 1
  BY Zenon DEF UtRxClock, Serial!RxUart
<1>5. rx_pre' <=> rx_pre
  <2>1. rx_pre' = IF rx_zero /\ rx_state = "stop" THEN TRUE
                  ELSE rx_pre /\ ~rx_zero /\ rx_state # "idle"
    BY DEF UtRxClock, Serial!RxUart
  <2> QED
    BY <1>1, <2>1
<1>6. rx_baud \in 0 .. B - 1 /\ rx_baud # 0
  BY DEF UtHas
<1>7. rx_baud' \in 0 .. B - 1 /\ (rx_zero' <=> rx_baud' = 0)
  BY <1>1, <1>3, <1>4, <1>6, UtNumbers
<1>8. UtSize' = UtSize /\ UtMore' = UtMore /\ setup' = setup
  BY UtRxSame
<1>9. UtHas(g, n)'
  BY <1>2, <1>3, <1>5, <1>7, <1>8 DEF UtHas
<1> QED
  BY <1>1, <1>3, <1>4, <1>9

\* The clock of a sample.
LEMMA UtRxSample ==
  ASSUME NEW x, UtRxClock(x), NEW g, NEW n, UtHas(g, n), rx_zero
  PROVE  /\ rx_baud' = B - 1 /\ ~rx_zero' /\ (o_wr' <=> rx_pre)
         /\ rx_pre' <=> rx_state = "stop"
         /\ rx_bits' = IF rx_state = "data" THEN Append(rx_bits, Serial!ck_uart) ELSE rx_bits
         /\ rx_data' = IF rx_state = "stop" THEN rx_bits ELSE rx_data
         /\ rx_state' = Serial!RxNext
<1>1. ~Serial!Quiet /\ rx_state # "idle" /\ rx_baud = 0
  BY UtRxBusy DEF UtHas
<1>2. rx_baud' = B - 1 /\ rx_data' = (IF rx_state = "stop" THEN rx_bits ELSE rx_data)
     /\ rx_state' = Serial!RxNext
  BY DEF UtRxClock, Serial!RxUart
<1>3. rx_bits' = IF rx_state = "data" THEN Append(rx_bits, Serial!ck_uart) ELSE rx_bits
  BY <1>1 DEF UtRxClock, Serial!RxUart
<1>4. /\ o_wr' <=> (rx_zero \/ rx_state = "idle") /\ rx_pre
      /\ rx_zero' <=> rx_state # "idle" /\ rx_baud = 1
  BY Zenon DEF UtRxClock, Serial!RxUart
<1>5. rx_pre' <=> rx_state = "stop"
  <2>1. rx_pre' = IF rx_zero /\ rx_state = "stop" THEN TRUE
                  ELSE rx_pre /\ ~rx_zero /\ rx_state # "idle"
    BY DEF UtRxClock, Serial!RxUart
  <2> QED
    BY <2>1
<1> QED
  BY <1>1, <1>2, <1>3, <1>4, <1>5

\* All the bits of g, in order, are g.
LEMMA UtWhole ==
  ASSUME NEW g \in Serial!Char, NEW r \in Seq(Serial!Bit), Len(r) = W,
      \A i \in 1 .. Len(r) : r[i] = g[i]
  PROVE  r = g
<1>1. W \in Nat /\ r = [i \in 1 .. W |-> r[i]] /\ g = [i \in 1 .. W |-> g[i]]
  BY UtNumbers DEF Serial!Char
<1> QED
  BY <1>1

\* A sample before the last one: rxuart has one bit more.
LEMMA UtRxTakes ==
  ASSUME NEW x, UtRxClock(x), NEW g, NEW n, UtHas(g, n), rx_zero, n < UtSize - 1,
         n < W => Serial!ck_uart = g[n + 1], n >= W + UtMore => Serial!ck_uart = 1
  PROVE  UtHas(g, n + 1)' /\ ~o_wr'
<1>1. /\ rx_baud' = B - 1 /\ ~rx_zero' /\ (o_wr' <=> rx_pre)
      /\ rx_pre' <=> rx_state = "stop"
      /\ rx_bits' = IF rx_state = "data" THEN Append(rx_bits, Serial!ck_uart) ELSE rx_bits
      /\ rx_data' = IF rx_state = "stop" THEN rx_bits ELSE rx_data
      /\ rx_state' = Serial!RxNext
  BY UtRxSample
<1>2. /\ rx_state \in {"data", "parity", "stop", "stop2"} /\ ~Serial!Quiet
      /\ rx_state = "data" <=> n < W
      /\ rx_state = "parity" <=> n = W /\ setup.parity
      /\ rx_state = "stop" <=> n = W + UtMore
      /\ rx_state = "stop2" <=> n = W + UtMore + 1
  BY UtRxBusy
<1>3. /\ g \in Serial!Char /\ n \in 0 .. UtSize - 1 /\ UtSize = W + UtMore + setup.stops
           /\ setup.stops \in {1, 2}
      /\ UtMore \in {0, 1} /\ (UtMore = 1 <=> setup.parity) /\ W \in Nat /\ W >= 1 /\ UtSize \in Nat
  BY UtSizes, UtNumbers DEF UtHas, UtRxClock
<1>4. n # W + UtMore + 1 /\ ~rx_pre
  BY <1>3 DEF UtHas
<1>5. PICK r, s : r = rx_bits /\ s = rx_bits'
  OBVIOUS
<1>6. /\ r \in Seq(Serial!Bit) /\ (\A i \in 1 .. Len(r) : r[i] = g[i])
      /\ n < W => Len(r) = n
      /\ n >= W => Len(r) = W
  BY <1>5 DEF UtHas
<1>7. UtSize' = UtSize /\ UtMore' = UtMore /\ setup' = setup
  BY UtRxSame
<1>8. B - 1 \in 0 .. B - 1 /\ B - 1 # 0
  BY UtNumbers
<1>9. n + 1 \in 0 .. UtSize' - 1 /\ (n >= W <=> ~(n < W)) /\ (n + 1 <= W <=> n < W)
  BY <1>3, <1>7
<1>10. CASE n < W
  <2>1. g[n + 1] \in Serial!Bit /\ s = Append(r, g[n + 1]) /\ Len(r) = n
    <3>1. n + 1 \in 1 .. W
      BY <1>3, <1>10
    <3>2. g[n + 1] \in Serial!Bit
      BY <1>3, <3>1, UtCharSeq
    <3> QED
      BY <1>1, <1>2, <1>5, <1>6, <1>10, <3>2
  <2>2. s \in Seq(Serial!Bit) /\ Len(s) = n + 1 /\ s[n + 1] = g[n + 1]
       /\ \A i \in 1 .. n : s[i] = r[i]
    BY <1>6, <2>1, AppendProperties
  <2>3. \A i \in 1 .. Len(s) : s[i] = g[i]
    <3>1. \A i \in 1 .. n + 1 : i \in 1 .. n \/ i = n + 1
      BY <1>3
    <3> QED
      BY <1>6, <2>1, <2>2, <3>1
  <2>4. rx_state' = IF n + 1 < W THEN "data" ELSE IF setup.parity THEN "parity" ELSE "stop"
    <3>1. rx_state = "data" /\ Len(rx_bits) = n /\ (n < W - 1 <=> n + 1 < W)
      BY <1>2, <1>3, <1>5, <1>10, <2>1
    <3>2. Serial!RxNext = IF Len(rx_bits) < W - 1 THEN "data" ELSE IF setup.parity THEN "parity"
         ELSE "stop"
      BY <1>2, <3>1 DEF Serial!RxNext
    <3> QED
      BY <1>1, <3>1, <3>2
  <2>5. n + 1 # W + UtMore' + 1 /\ ~rx_pre'
    BY <1>1, <1>2, <1>3, <1>7, <1>10
  <2>6. /\ n + 1 < W => rx_state' = "data" /\ Len(s) = n + 1
        /\ n + 1 >= W => Len(s) = W
        /\ n + 1 = W /\ setup'.parity => rx_state' = "parity"
        /\ n + 1 = W + UtMore' => rx_state' = "stop"
    BY <1>3, <1>7, <1>10, <2>2, <2>4
  <2>7. UtHas(g, n + 1)'
    BY <1>1, <1>3, <1>5, <1>8, <1>9, <2>2, <2>3, <2>5, <2>6 DEF UtHas
  <2> QED
    BY <1>1, <1>4, <2>7
<1>11. CASE n >= W
  <2>1. s = r /\ Len(r) = W
    BY <1>1, <1>2, <1>5, <1>6, <1>9, <1>11
  <2>2. CASE rx_state = "parity"
    <3>1. rx_state' = "stop" /\ ~rx_pre'
      <4>1. Serial!RxNext = "stop"
        BY <1>2, <2>2 DEF Serial!RxNext
      <4> QED
        BY <1>1, <2>2, <4>1
    <3>2. n = W /\ UtMore' = 1 /\ n + 1 # W /\ ~(n + 1 < W) /\ n + 1 # W + UtMore' + 1 /\ n + 1 >= W
      BY <1>2, <1>3, <1>7, <2>2
    <3>3. UtHas(g, n + 1)'
      BY <1>1, <1>3, <1>5, <1>6, <1>8, <1>9, <2>1, <3>1, <3>2 DEF UtHas
    <3> QED
      BY <1>1, <1>4, <3>3
  <2>3. CASE rx_state = "stop"
    <3>1. n = W + UtMore /\ setup.stops = 2 /\ Serial!ck_uart = 1
      BY <1>2, <1>3, <2>3
    <3>2. rx_state' = "stop2" /\ rx_pre' /\ rx_data' = r
      <4>1. Serial!RxNext = "stop2"
        BY <1>2, <2>3, <3>1 DEF Serial!RxNext
      <4> QED
        BY <1>1, <1>5, <2>3, <4>1
    <3>3. r = g
      BY <1>3, <1>6, <2>1, UtWhole
    <3>4. n + 1 = W + UtMore' + 1 /\ n + 1 # W /\ ~(n + 1 < W) /\ n + 1 # W + UtMore' /\ n + 1 >= W
      BY <1>3, <1>7, <3>1
    <3>5. UtHas(g, n + 1)'
      BY <1>1, <1>3, <1>5, <1>6, <1>8, <1>9, <2>1, <3>2, <3>3, <3>4 DEF UtHas
    <3> QED
      BY <1>1, <1>4, <3>5
  <2> QED
    BY <1>2, <1>4, <1>9, <1>11, <2>2, <2>3
<1> QED
  BY <1>3, <1>10, <1>11

\* The last sample: rxuart is idle, and has given g, or is about to.
LEMMA UtRxEnds ==
  ASSUME NEW x, UtRxClock(x), NEW g, NEW n, UtHas(g, n), rx_zero, n = UtSize - 1, Serial!ck_uart = 1
  PROVE  UtRested' /\ rx_data' = g /\ (o_wr' <=> ~rx_pre') /\ g \in Serial!Char
<1>1. /\ ~rx_zero' /\ (o_wr' <=> rx_pre)
      /\ rx_pre' <=> rx_state = "stop"
      /\ rx_data' = IF rx_state = "stop" THEN rx_bits ELSE rx_data
      /\ rx_state' = Serial!RxNext
  BY UtRxSample
<1>2. /\ ~Serial!Quiet
      /\ rx_state = "stop" <=> n = W + UtMore
      /\ rx_state = "stop2" <=> n = W + UtMore + 1
  BY UtRxBusy
<1>3. /\ UtSize = W + UtMore + setup.stops /\ setup.stops \in {1, 2} /\ g \in Serial!Char
      /\ UtMore \in {0, 1} /\ W \in Nat /\ W >= 1
  BY UtSizes, UtNumbers DEF UtHas, UtRxClock
<1>4. rx_pre <=> n = W + UtMore + 1
  BY DEF UtHas
<1>5. CASE setup.stops = 1
  <2>1. n = W + UtMore /\ n >= W /\ n # W + UtMore + 1
    BY <1>3, <1>5
  <2>2. rx_state = "stop" /\ setup.stops # 2
    BY <1>2, <1>5, <2>1
  <2>3. Serial!RxNext = "idle"
    BY <1>2, <2>2 DEF Serial!RxNext
  <2>4. rx_bits = g
    <3>1. PICK r : r = rx_bits
      OBVIOUS
    <3>2. r \in Seq(Serial!Bit) /\ Len(r) = W /\ \A i \in 1 .. Len(r) : r[i] = g[i]
      BY <2>1, <3>1 DEF UtHas
    <3> QED
      BY <1>3, <3>1, <3>2, UtWhole
  <2> QED
    BY <1>1, <1>3, <1>4, <2>1, <2>2, <2>3, <2>4 DEF UtRested
<1>6. CASE setup.stops = 2
  <2>1. n = W + UtMore + 1 /\ n # W + UtMore
    BY <1>3, <1>6
  <2>2. rx_state = "stop2"
    BY <1>2, <2>1
  <2>3. Serial!RxNext = "idle"
    BY <1>2, <2>2 DEF Serial!RxNext
  <2>4. rx_pre /\ rx_data = g
    BY <1>4, <2>1 DEF UtHas
  <2> QED
    BY <1>1, <1>3, <2>2, <2>3, <2>4 DEF UtRested
<1> QED
  BY <1>3, <1>5, <1>6

LEMMA UtFromBits ==
  ASSUME NEW x, UtRxClock(x), NEW g \in Serial!Char, NEW n \in 0 .. UtSize - 1,
      NEW k \in 1 .. UtSize + 1,
         UtHears(g, n, k)
  PROVE  UtIn'
<1>1. /\ UtHas(g, n) /\ UtSends(g, k) /\ UtInStep(n, k) /\ UtSynced /\ UtOne(g)
           /\ tx_baud \in 0 .. B - 1
      /\ UtSetup /\ UtSetup' /\ UtSame /\ UtMoves(x)
      /\ rx_baud \in 0 .. B - 1 /\ (rx_zero <=> rx_baud = 0) /\ UtLine(g, k)
  BY DEF UtHears, UtSends, UtRxClock, UtHas
<1>2. UtNextBit(g, k) /\ ~UtTakes(x)
  BY <1>1, UtGoesOn
<1>3. chars' = <<g>>
  BY <1>1, <1>2, UtDueKept DEF UtRxClock
<1>4. UtSize' = UtSize /\ UtHalf' = UtHalf /\ UtSize \in Nat /\ UtMore \in {0, 1}
     /\ UtSize >= W + UtMore + 1
  BY <1>1, UtRxSame, UtSizes, UtNumbers
<1>5. ASSUME NEW m \in 0 .. UtSize - 1, NEW j \in 1 .. UtSize + 1, UtHas(g, m)', UtSends(g, j)',
     ~o_wr',
             \/ j = m + 1 /\ rx_baud' = tx_baud' + UtHalf + 3
             \/ j = m + 2 /\ rx_baud' = tx_baud' + UtHalf + 3 - B,
             (tx_baud # 0 /\ tx_baud' = tx_baud - 1 /\ uart_line' = uart_line) \/ tx_baud' = B - 1
      PROVE  UtIn'
  <2>1. UtOne(g)'
    BY <1>3, <1>5 DEF UtOne
  <2>2. UtInStep(m, j)'
    BY <1>4, <1>5 DEF UtInStep
  <2>3. UtSynced'
    BY <1>1, <1>5, UtSyncKept
  <2>4. UtHears(g, m, j)'
    BY <1>5, <2>1, <2>2, <2>3 DEF UtHears
  <2>5. m \in 0 .. UtSize' - 1 /\ j \in 1 .. UtSize' + 1
    BY <1>4
  <2> QED
    BY <2>4, <2>5 DEF UtIn
<1>6. CASE ~rx_zero
  <2>1. UtHas(g, n)' /\ ~o_wr' /\ rx_baud' = rx_baud - 1
    BY <1>1, <1>6, UtRxWaits
  <2>2. CASE tx_baud # 0
    <3>1. UtSends(g, k)' /\ tx_baud' = tx_baud - 1 /\ uart_line' = uart_line
      BY <1>2, <2>2 DEF UtNextBit
    <3>2. \/ k = n + 1 /\ rx_baud' = tx_baud' + UtHalf + 3
          \/ k = n + 2 /\ rx_baud' = tx_baud' + UtHalf + 3 - B
      BY <1>1, <2>1, <3>1, UtNumbers DEF UtInStep
    <3> QED
      BY <1>5, <2>1, <2>2, <3>1, <3>2
  <2>3. CASE tx_baud = 0
    <3>1. k = n + 1 /\ k <= UtSize /\ rx_baud = UtHalf + 3
      BY <1>1, <1>4, <1>6, <2>3, UtNumbers DEF UtInStep
    <3>2. UtSends(g, k + 1)' /\ tx_baud' = B - 1
      BY <1>2, <2>3, <3>1 DEF UtNextBit
    <3>3. k + 1 = n + 2 /\ rx_baud' = tx_baud' + UtHalf + 3 - B /\ k + 1 \in 1 .. UtSize + 1
      BY <1>4, <2>1, <3>1, <3>2, UtNumbers
    <3> QED
      BY <1>5, <2>1, <3>2, <3>3
  <2> QED
    BY <2>2, <2>3
<1>7. CASE rx_zero
  <2>1. k = n + 2 /\ tx_baud = B - UtHalf - 3 /\ UtAge = UtHalf + 2
    BY <1>1, <1>7, UtNumbers DEF UtInStep, UtAge
  <2>2. ck[1] = uart_line /\ ck[2] = uart_line /\ ck[3] = uart_line /\ Serial!ck_uart = uart_line
    BY <2>1, UtNumbers, <1>1 DEF UtSynced, Serial!ck_uart
  <2>3. (n < W => Serial!ck_uart = g[n + 1]) /\ (n >= W + UtMore => Serial!ck_uart = 1)
    <3>1. n < W => k \in 2 .. W + 1 /\ k - 1 = n + 1
      BY <2>1, UtNumbers
    <3>2. n >= W + UtMore => k > W + 1 + UtMore
      BY <1>4, <2>1, UtNumbers
    <3> QED
      BY <1>1, <2>2, <3>1, <3>2 DEF UtLine
  <2>4. CASE n < UtSize - 1
    <3>1. UtHas(g, n + 1)' /\ ~o_wr' /\ rx_baud' = B - 1
      BY <1>1, <1>7, <2>3, <2>4, UtRxTakes, UtRxSample
    <3>2. n + 1 \in 0 .. UtSize - 1 /\ k <= UtSize /\ k = (n + 1) + 1
      BY <1>4, <2>1, <2>4
    <3>3. CASE tx_baud # 0
      <4>1. UtSends(g, k)' /\ tx_baud' = tx_baud - 1 /\ uart_line' = uart_line
        BY <1>2, <3>3 DEF UtNextBit
      <4>2. rx_baud' = tx_baud' + UtHalf + 3
        BY <2>1, <3>1, <4>1, UtNumbers
      <4> QED
        BY <1>5, <3>1, <3>2, <3>3, <4>1, <4>2
    <3>4. CASE tx_baud = 0
      <4>1. UtSends(g, k + 1)' /\ tx_baud' = B - 1
        BY <1>2, <3>2, <3>4 DEF UtNextBit
      <4>2. rx_baud' = tx_baud' + UtHalf + 3 - B /\ k + 1 = (n + 1) + 2 /\ k + 1 \in 1 .. UtSize + 1
        BY <1>4, <2>1, <3>1, <3>2, <3>4, <4>1, UtNumbers
      <4> QED
        BY <1>5, <3>1, <3>2, <4>1, <4>2
    <3> QED
      BY <3>3, <3>4
  <2>5. CASE n = UtSize - 1
    <3>1. n >= W + UtMore /\ k = UtSize + 1 /\ uart_line = 1 /\ Serial!ck_uart = 1
      <4>1. n >= W + UtMore /\ k = UtSize + 1
        BY <1>4, <2>1, <2>5, UtNumbers
      <4> QED
        BY <2>2, <2>3, <4>1
    <3>2. UtRested' /\ rx_data' = g /\ (o_wr' <=> ~rx_pre')
      BY <1>1, <1>7, <2>5, <3>1, UtRxEnds
    <3>3. uart_line' = 1 /\ (UtRest' \/ \E c \in Serial!Char : UtSends(c, UtSize + 1)')
      <4>1. CASE tx_baud # 0
        <5>1. uart_line' = 1 /\ UtSends(g, k)' /\ UtSize' + 1 = k
          BY <1>2, <1>4, <3>1, <4>1 DEF UtNextBit
        <5> QED
          BY <5>1
      <4>2. CASE tx_baud = 0
        BY <1>2, <3>1, <4>2 DEF UtNextBit, UtRest
      <4> QED
        BY <4>1, <4>2
    <3>4. ck' = <<1, 1, 1>>
      BY <2>2, <3>1, <3>3, UtRxSame
    <3>5. /\ rx_pre' => ~o_wr' /\ rx_data' \in Serial!Char /\ UtOne(rx_data)'
          /\ ~rx_pre' => UtNone'
      BY <1>3, <3>2 DEF UtOne, UtNone
    <3>6. UtDone'
      BY <3>2, <3>3, <3>4, <3>5 DEF UtDone
    <3> QED
      BY <3>6 DEF UtIn
  <2> QED
    BY <1>4, <2>4, <2>5
<1> QED
  BY <1>6, <1>7

LEMMA UtInKept ==
  ASSUME NEW x, UtRxClock(x), UtIn PROVE UtIn'
<1>1. CASE \E c \in Serial!Char : UtEdge(c)
  BY <1>1, UtFromStart
<1>2. CASE \E g \in Serial!Char : \E n \in 0 .. UtSize - 1 : \E k \in 1 .. UtSize + 1 :
             UtHears(g, n, k)
  BY <1>2, UtFromBits
<1>3. CASE UtDone
  BY <1>3, UtFromDone
<1> QED
  BY <1>1, <1>2, <1>3 DEF UtIn

\* No parity error without parity, or with a fixed parity bit.
LEMMA UtNoError ==
  ASSUME UtSetup, UtIn, dir = "in", setup.fixed \/ ~setup.parity, ~o_parity_err
  PROVE  ~Serial!ParityErr
<1>1. CASE ~(rx_zero /\ rx_state = "parity")
  BY <1>1 DEF Serial!ParityErr
<1>2. CASE rx_zero /\ rx_state = "parity"
  <2>1. PICK g \in Serial!Char :
             \E n \in 0 .. UtSize - 1 : \E k \in 1 .. UtSize + 1 : UtHears(g, n, k)
    BY <1>2 DEF UtIn, UtEdge, UtDone, UtRested
  <2>2. PICK n \in 0 .. UtSize - 1 : \E k \in 1 .. UtSize + 1 : UtHears(g, n, k)
    BY <2>1
  <2>3. PICK k \in 1 .. UtSize + 1 : UtHears(g, n, k)
    BY <2>2
  <2>4. /\ UtHas(g, n) /\ UtInStep(n, k) /\ UtSynced /\ UtLine(g, k) /\ tx_baud \in 0 .. B - 1
        /\ rx_baud = 0
    BY <1>2, <2>3 DEF UtHears, UtSends, UtHas
  <2>5. n = W /\ setup.parity
    <3>1. /\ UtMore \in {0, 1} /\ (UtMore = 1 <=> setup.parity) /\ setup.stops \in {1, 2}
          /\ UtSize = W + UtMore + setup.stops /\ W \in Nat
      BY UtSizes, UtNumbers
    <3>2. n >= W /\ n # W + UtMore /\ n # W + UtMore + 1
      BY <1>2, <2>4, <3>1 DEF UtHas
    <3>3. n = W /\ UtMore = 1
      BY <3>1, <3>2
    <3> QED
      BY <3>1, <3>3
  <2>6. k = n + 2 /\ UtAge = UtHalf + 2
    BY <2>4, UtNumbers DEF UtInStep, UtAge
  <2>7. Serial!ck_uart = setup.even
    <3>1. Serial!ck_uart = uart_line
      BY <2>4, <2>6, UtNumbers DEF UtSynced, Serial!ck_uart
    <3> QED
      BY <2>4, <2>5, <2>6, <3>1 DEF UtLine
  <2> QED
    BY <1>2, <2>5, <2>7 DEF Serial!ParityErr
<1> QED
  BY <1>1, <1>2

LEMMA UtStarts == Serial!Init => UtInv
<1> SUFFICES ASSUME Serial!Init PROVE UtInv
  OBVIOUS
<1>1. UtSetup
  BY DEF Serial!Init, UtSetup, UtBits, Serial!Bit
<1>2. UtRest /\ UtNone
  BY DEF Serial!Init, UtRest, UtNone
<1>3. UtOut
  BY <1>2 DEF Serial!Init, UtOut, UtSimQuiet
<1>4. UtIn
  BY <1>2 DEF Serial!Init, UtIn, UtDone, UtRested
<1> QED
  BY <1>1, <1>3, <1>4 DEF UtInv, Serial!Init

LEMMA UtKept == UtInv /\ [Serial!Next]_uartvars => UtInv'
<1> SUFFICES ASSUME UtInv, [Serial!Next]_uartvars PROVE UtInv'
  OBVIOUS
<1>1. /\ UtSetup /\ dir \in {"out", "in"}
      /\ setup.fixed \/ ~setup.parity => ~o_parity_err
  BY DEF UtInv, UtSetup
<1>2. CASE Serial!Next
  <2>1. PICK x \in Serial!Char \cup {Serial!NoChar} : Serial!Clock(x)
    BY <1>2 DEF Serial!Next
  <2>2. UtSame /\ UtDueMoves(x) /\ setup' = setup /\ dir' = dir
    BY <2>1 DEF Serial!Clock, UtSame, UtDueMoves, UtTakes
  <2>3. CASE dir = "out"
    <3>1. Serial!SimRx /\ UtMoves(x) /\ UtOut
      BY <2>1, <2>3 DEF Serial!Clock, UtMoves, UtInv
    <3>2. UtSending
      <4>1. ASSUME NEW c \in Serial!Char, UtSimEdge(c) PROVE UtSending
        <5>1. 1 \in 1 .. UtSize + 1
          BY <1>1, UtSizes
        <5> QED
          BY <4>1, <5>1 DEF UtSending, UtSimEdge
      <4>2. ASSUME NEW c \in Serial!Char, NEW g \in Serial!Char, UtSimMeets(g, c) PROVE UtSending
        <5>1. 1 \in 1 .. UtSize + 1
          BY <1>1, UtSizes
        <5> QED
          BY <4>2, <5>1 DEF UtSending, UtSimMeets
      <4> QED
        BY <3>1, <4>1, <4>2 DEF UtOut, UtSending, UtSimQuiet, UtSimHears, UtSimEnds
    <3>3. UtSetup'
      BY <1>1, <2>2, <3>1, <3>2, UtTypes
    <3>4. UtOut'
      BY <1>1, <2>2, <2>3, <3>1, <3>3, UtOutKept DEF UtSimClock
    <3>5. o_parity_err' = o_parity_err
      BY <3>1 DEF Serial!SimRx
    <3> QED
      BY <1>1, <2>2, <2>3, <3>3, <3>4, <3>5 DEF UtInv
  <2>4. CASE dir = "in"
    <3>1. Serial!RxUart /\ UtMoves(x) /\ UtIn
      BY <2>1, <2>4 DEF Serial!Clock, UtMoves, UtInv
    <3>2. UtSending
      <4>1. 1 \in 1 .. UtSize + 1 /\ UtSize + 1 \in 1 .. UtSize + 1
        BY <1>1, UtSizes
      <4>2. ASSUME NEW c \in Serial!Char, UtEdge(c) PROVE UtSending
        BY <4>1, <4>2 DEF UtSending, UtEdge
      <4>3. ASSUME UtDone PROVE UtSending
        BY <4>1, <4>3 DEF UtSending, UtDone
      <4> QED
        BY <3>1, <4>2, <4>3 DEF UtIn, UtSending, UtHears
    <3>3. UtSetup'
      BY <1>1, <2>2, <3>1, <3>2, UtTypes
    <3>4. UtIn'
      BY <1>1, <2>2, <2>4, <3>1, <3>3, UtInKept DEF UtRxClock
    <3>5. setup'.fixed \/ ~setup'.parity => ~o_parity_err'
      <4>1. o_parity_err' <=> Serial!ParityErr
        BY <3>1, Zenon DEF Serial!RxUart
      <4>2. setup.fixed \/ ~setup.parity => ~Serial!ParityErr
        BY <1>1, <2>4, <3>1, UtNoError
      <4> QED
        BY <2>2, <4>1, <4>2
    <3> QED
      BY <2>2, <2>4, <3>3, <3>4, <3>5 DEF UtInv
  <2> QED
    BY <1>1, <2>3, <2>4
<1>3. CASE UNCHANGED uartvars
  <2> USE <1>3 DEF uartvars
  <2>1. /\ UtSize' = UtSize /\ UtMore' = UtMore /\ UtHalf' = UtHalf /\ UtBits' = UtBits
             /\ UtAge' = UtAge
        /\ (Serial!SimChange)' = Serial!SimChange
    BY DEF UtSize, UtMore, UtHalf, UtBits, UtAge, Serial!SimChange
  <2>2. /\ UtRest' <=> UtRest
        /\ UtNone' <=> UtNone
        /\ UtSynced' <=> UtSynced
        /\ UtRested' <=> UtRested
    BY <2>1 DEF UtRest, UtNone, UtSynced, UtRested
  <2>3. \A c, k : UtSends(c, k)' <=> UtSends(c, k)
    BY <2>1 DEF UtSends, UtLine, UtTxAt, UtSimAt, Serial!Frame
  <2>4. /\ \A c : UtOne(c)' <=> UtOne(c)
        /\ \A c, g : UtTwo(g, c)' <=> UtTwo(g, c)
        /\ \A g, n : UtSimHas(g, n)' <=> UtSimHas(g, n)
        /\ \A g, n : UtHas(g, n)' <=> UtHas(g, n)
        /\ \A n, k : UtSimInStep(n, k)' <=> UtSimInStep(n, k)
        /\ \A n, k : UtInStep(n, k)' <=> UtInStep(n, k)
    BY <2>1 DEF UtOne, UtTwo, UtSimHas, UtHas, UtSimInStep, UtInStep
  <2>5. UtOut' <=> UtOut
    BY <2>1, <2>2, <2>3, <2>4 DEF UtOut, UtSimQuiet, UtSimEdge, UtSimHears, UtSimEnds, UtSimMeets
  <2>6. UtIn' <=> UtIn
    BY <2>1, <2>2, <2>3, <2>4 DEF UtIn, UtEdge, UtHears, UtDone
  <2>7. UtSetup' <=> UtSetup
    BY <2>1 DEF UtSetup
  <2> QED
    BY <2>5, <2>6, <2>7 DEF UtInv
<1> QED
  BY <1>2, <1>3

\* The other parts leave the line alone.
LEMMA UtAlone ==
  ASSUME UtInv, [PartsNext]_partsvars PROVE UtInv'
<1>1. CASE SerialRuns
  BY <1>1, UtKept DEF SerialRuns
<1>2. CASE ~SerialRuns
  <2>1. UNCHANGED uartvars
    BY <1>2 DEF PartsNext, partsvars, FifoRuns, DelayRuns, CompressRuns, InputRuns, PipeRuns,
      AnalyserRuns
  <2> QED
    BY <2>1, UtKept
<1> QED
  BY <1>1, <1>2

\* What comes out is the first character that is due.
LEMMA UtArrives == UtInv => CharsArrive
<1> SUFFICES ASSUME UtInv PROVE CharsArrive
  OBVIOUS
<1> DEFINE Right == Len(chars) <= 2 /\ (o_wr => chars # << >> /\ rx_data = Head(chars))
<1>1. o_wr \in BOOLEAN /\ dir \in {"out", "in"}
  BY DEF UtInv, UtSetup
<1>2. ASSUME UtNone PROVE Right
  BY <1>2 DEF UtNone
<1>3. ASSUME NEW c, UtOne(c) PROVE Right
  BY <1>3 DEF UtOne
<1>4. ASSUME NEW c, NEW g, UtTwo(g, c) PROVE Right
  BY <1>4 DEF UtTwo
<1>5. UtNone \/ (\E c : UtOne(c)) \/ \E c, g : UtTwo(g, c)
  <2>1. CASE dir = "out"
    <3>1. UtOut
      BY <2>1 DEF UtInv
    <3> QED
      BY <3>1 DEF UtOut, UtSimQuiet, UtSimEdge, UtSimHears, UtSimEnds, UtSimMeets
  <2>2. CASE dir = "in"
    <3>1. UtIn
      BY <2>2 DEF UtInv
    <3> QED
      BY <3>1 DEF UtIn, UtEdge, UtHears, UtDone
  <2> QED
    BY <1>1, <2>1, <2>2
<1>6. Right
  BY <1>2, <1>3, <1>4, <1>5
<1>7. setup.fixed \/ ~setup.parity => ~o_parity_err
  BY DEF UtInv
<1> QED
  BY <1>6, <1>7 DEF CharsArrive, Serial!CharsArrive

(***************************************************************************)
(* Every character that is put on the serial line comes out at its other   *)
(* end, in order and unharmed, between txuart.v and UARTSIM's receiver and *)
(* between UARTSIM's transmitter and rxuart.v (uartsim.cpp), for every     *)
(* number of data bits, every parity and number of stop bits and every     *)
(* baud rate of at least five clocks to the bit.                           *)
(***************************************************************************)
THEOREM EveryCharacterArrives == PartsSpec => []CharsArrive
<1>1. PartsInit => UtInv
  BY UtStarts DEF PartsInit
<1> QED
  BY <1>1, UtAlone, UtArrives, PTL DEF PartsSpec
==============================================================================
