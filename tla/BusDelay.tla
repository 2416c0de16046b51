------------------------------ MODULE BusDelay ------------------------------
(***************************************************************************)
(* rtl/cpu/busdelay.v with DELAY_STALL = 1, as busmaster.v builds it: a    *)
(* clock of delay between the arbiter and the devices.  Requests and       *)
(* answers are registered; the stall is registered too, so a second        *)
(* request buffer (r_stb, r_req) takes the request that arrives before     *)
(* the master can see that the devices stalled.                            *)
(*                                                                         *)
(* Each action is one clock.  The master in front keeps the bus's rules    *)
(* (WbMaster) and may abort its cycle in any clock; the devices behind     *)
(* stall and answer as they like, in order.                                *)
(***************************************************************************)
EXTENDS Naturals, Sequences

CONSTANTS Request,    \* what a request carries
          MaxPend     \* bound: requests the devices take before they stall

VARIABLES i_wb_cyc, i_wb_stb, i_wb_req,      \* the master's registers
          o_dly_cyc, o_dly_stb, o_dly_req,   \* the delayed bus
          r_stb, r_req,                      \* the second buffer
          o_wb_ack, o_wb_err,                \* the delayed answers
          up,          \* requests taken from the master, not answered
          down         \* requests taken by the devices, not answered

master == <<i_wb_cyc, i_wb_stb, i_wb_req>>
delay  == <<o_dly_cyc, o_dly_stb, o_dly_req, r_stb, r_req, o_wb_ack, o_wb_err>>
vars   == <<master, delay, up, down>>

o_wb_stall == r_stb

\* Mutant: a full second buffer pushes the stalled request out.
FlowsOnStall(stall) == ~o_dly_stb \/ ~stall \/ r_stb

\* The delayed request may be replaced.
Flows(stall) == ~stall \/ ~o_dly_stb

\* Every request held is dropped.
Kills(err) == ~i_wb_cyc \/ (err /\ o_dly_cyc) \/ o_wb_err

\* Mutant: the older request of the two is overtaken.
NextRequestOvertaken == i_wb_req

NextRequest == IF r_stb THEN r_req ELSE i_wb_req

AckRegistered(ack, err) == i_wb_cyc /\ ~o_wb_err /\ ack /\ o_dly_cyc /\ ~err
-----------------------------------------------------------------------------
Init ==
  /\ i_wb_cyc = FALSE /\ i_wb_stb = FALSE /\ i_wb_req \in Request
  /\ o_dly_cyc = FALSE /\ o_dly_stb = FALSE /\ o_dly_req \in Request
  /\ r_stb = FALSE /\ r_req \in Request
  /\ o_wb_ack = FALSE /\ o_wb_err = FALSE
  /\ up = 0 /\ down = 0

\* The registers of busdelay.v.
Delay(stall, ack, err) ==
  /\ o_dly_cyc' = (i_wb_cyc /\ ~o_wb_err /\ ~(err /\ o_dly_cyc))
  /\ o_dly_stb' = (~Kills(err) /\ IF Flows(stall) THEN r_stb \/ i_wb_stb ELSE o_dly_stb)
  /\ r_stb' = (~Kills(err) /\ ~Flows(stall) /\ (r_stb \/ i_wb_stb))
  /\ o_dly_req' = IF Flows(stall) THEN NextRequest ELSE o_dly_req
  /\ r_req' = IF Flows(stall) \/ ~r_stb THEN i_wb_req ELSE r_req
  /\ o_wb_ack' = AckRegistered(ack, err)
  /\ o_wb_err' = (i_wb_cyc /\ err /\ o_dly_cyc)

\* What is owed to the master.
Taken ==
  up' = IF ~i_wb_cyc \/ o_wb_err THEN 0
        ELSE up + (IF i_wb_stb /\ ~o_wb_stall THEN 1 ELSE 0)
                - (IF o_wb_ack THEN 1 ELSE 0)

\* The devices behind.  An error answers all they hold.
Devices(stall, ack, err) ==
  /\ ack => o_dly_cyc /\ down > 0
  /\ err => o_dly_cyc /\ (o_dly_stb \/ down > 0)
  /\ down = MaxPend => stall
  /\ down' = IF ~o_dly_cyc \/ err THEN 0
             ELSE down + (IF o_dly_stb /\ ~stall THEN 1 ELSE 0)
                       - (IF ack THEN 1 ELSE 0)

\* The master in front: a stalled request is held, whatever else happens,
\* unless the cycle is given up.  After an error it may take its time.
Master ==
  /\ i_wb_cyc' \in BOOLEAN /\ i_wb_stb' \in BOOLEAN /\ i_wb_req' \in Request
  /\ i_wb_stb' => i_wb_cyc'
  /\ i_wb_stb /\ o_wb_stall /\ i_wb_cyc' => i_wb_stb' /\ i_wb_req' = i_wb_req

Next == \E stall, ack, err \in BOOLEAN :
  /\ Delay(stall, ack, err)
  /\ Taken
  /\ Devices(stall, ack, err)
  /\ Master

Spec == Init /\ [][Next]_vars
-----------------------------------------------------------------------------
TypeOK ==
  /\ i_wb_cyc \in BOOLEAN /\ i_wb_stb \in BOOLEAN /\ i_wb_req \in Request
  /\ o_dly_cyc \in BOOLEAN /\ o_dly_stb \in BOOLEAN /\ o_dly_req \in Request
  /\ r_stb \in BOOLEAN /\ r_req \in Request
  /\ o_wb_ack \in BOOLEAN /\ o_wb_err \in BOOLEAN
  /\ up \in Nat /\ down \in 0 .. MaxPend

One(b) == IF b THEN 1 ELSE 0

(***************************************************************************)
(* The master is owed exactly what is in the two buffers, what the devices *)
(* hold, and the answer on its wires: nothing it asked for is lost or      *)
(* answered twice, whatever cycles were aborted before                     *)
(* (busdelay.v's f_expected == f_wb_outstanding).                          *)
(***************************************************************************)
NothingLost ==
  i_wb_cyc /\ ~o_wb_err =>
    up = One(r_stb) + One(o_dly_stb) + One(o_wb_ack)
         + (IF o_dly_cyc THEN down ELSE 0)

(***************************************************************************)
(* The second buffer is only used when the first is full, and the first    *)
(* only inside a cycle: the devices never see a strobe alone               *)
(* (fwb_slave.v:199-202).                                                  *)
(***************************************************************************)
BuffersInOrder == (r_stb => o_dly_stb) /\ (o_dly_stb => o_dly_cyc)

(***************************************************************************)
(* The buffers are a queue of two requests that an abort or an error       *)
(* empties.                                                                *)
(***************************************************************************)
Held == CASE r_stb -> <<o_dly_req, r_req>>
          [] o_dly_stb /\ ~r_stb -> <<o_dly_req>>
          [] OTHER -> << >>

Buffers == INSTANCE BoundedQueue WITH queue <- Held, Capacity <- 2, Word <- Request

DelayImplementsQueue == Buffers!Spec
=============================================================================
