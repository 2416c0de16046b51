------------------------------ MODULE PipeMem -------------------------------
(***************************************************************************)
(* The memory unit of the ZipCPU, rtl/cpu/pipemem.v, clock by clock,       *)
(* between the pipeline (zipcpu.v) and the two buses: a load or a store    *)
(* may follow another before that is answered, and a list remembers what   *)
(* to do with the answers.                                                 *)
(*                                                                         *)
(* An operation stands for its address and data on the bus and for its     *)
(* register and the part of the word it wants in the list: an answer is    *)
(* right if the two are of the same operation.                             *)
(***************************************************************************)
EXTENDS ZipBounds, Sequences

CONSTANT Ids  \* operations, but for their direction and bus

VARIABLES mem,   \* the registers
          devs,  \* what the devices have taken and not answered
          owed,  \* what the pipeline has issued and not heard of
          due,   \* the operation of the last answer
          lock   \* i_lock; since when a cycle has been open under it
vars == <<mem, devs, owed, due, lock>>

N == Entries
NoOp == [id |-> "none", we |-> FALSE, lcl |-> FALSE]
Op == [id : Ids, we : BOOLEAN, lcl : BOOLEAN]

Init ==
  /\ mem = [cyc |-> FALSE, stb |-> FALSE, we |-> FALSE, lcl |-> FALSE, req |-> NoOp,
            rdaddr |-> 0, wraddr |-> 0, fifo_full |-> FALSE,
            fifo_oreg |-> [i \in 0 .. N - 1 |-> NoOp.id],
            o_valid |-> FALSE, o_err |-> FALSE, o_wreg |-> NoOp.id, o_result |-> NoOp.id,
            lock_gbl |-> FALSE, lock_lcl |-> FALSE]
  /\ devs = << >> /\ owed = << >> /\ due = NoOp
  /\ lock = [i_lock |-> FALSE, held |-> {}]

fifo_fill == (mem.wraddr + N - mem.rdaddr) % N

\* The cycle lines of the two buses.
CycOf(lcl) == (mem.cyc /\ mem.lcl = lcl) \/ (IF lcl THEN mem.lock_lcl ELSE mem.lock_gbl)
-----------------------------------------------------------------------------
(* op is what the pipeline issues in this clock, b what the bus says. *)

o_pipe_stalled(b) == mem.cyc /\ (mem.fifo_full \/ b.stall \/ ~mem.stb)

\* Within a cycle only an operation that goes on from the last one.
Issues(op, b) ==
  op # NoOp => /\ ~o_pipe_stalled(b) /\ ~mem.o_err
               /\ mem.cyc => op.we = mem.we /\ op.lcl = mem.lcl

Failed(b) == b.err /\ mem.cyc

LastAnswer(op, b) == b.ack /\ (mem.rdaddr + 1) % N = mem.wraddr /\ op = NoOp

wraddr(op, b) ==
  IF Failed(b) THEN 0 ELSE IF op # NoOp THEN (mem.wraddr + 1) % N ELSE mem.wraddr

\* A mutant of the next: an error leaves the answers' side of the list.
rdaddrKept(b) == IF b.ack /\ mem.cyc THEN (mem.rdaddr + 1) % N ELSE mem.rdaddr

rdaddr(b) ==
  IF Failed(b) THEN 0 ELSE IF b.ack /\ mem.cyc THEN (mem.rdaddr + 1) % N ELSE mem.rdaddr

Registers(op, b, i_lock) ==
  LET grabs == ~mem.cyc /\ op # NoOp
      locks(side, was) == ~Failed(b) /\ i_lock /\ ((mem.cyc /\ mem.lcl = side) \/ was)
  IN
  mem' = [cyc |-> IF mem.cyc THEN ~LastAnswer(op, b) /\ ~b.err ELSE op # NoOp,
          stb |-> IF mem.cyc THEN /\ mem.stb /\ ~b.err /\ ~LastAnswer(op, b)
                                  /\ b.stall \/ op # NoOp
                  ELSE op # NoOp,
          we |-> IF grabs THEN op.we ELSE mem.we,
          lcl |-> IF grabs THEN op.lcl ELSE mem.lcl,
          req |-> IF ~mem.cyc \/ ~b.stall THEN op ELSE mem.req,
          rdaddr |-> rdaddr(b), wraddr |-> wraddr(op, b),
          fifo_full |-> /\ ~Failed(b)
                        /\ fifo_fill >= (IF op # NoOp THEN OPT_MAXDEPTH - 1 ELSE OPT_MAXDEPTH),
          fifo_oreg |-> [mem.fifo_oreg EXCEPT ![mem.wraddr] = op.id],
          o_valid |-> mem.cyc /\ b.ack /\ ~mem.we,
          o_err |-> Failed(b),
          o_wreg |-> mem.fifo_oreg[mem.rdaddr],
          o_result |-> IF b.ack THEN Head(devs).id ELSE NoOp.id,
          lock_gbl |-> locks(FALSE, mem.lock_gbl), lock_lcl |-> locks(TRUE, mem.lock_lcl)]

\* The devices answer in order, a clock later or more, and forget a cycle
\* that is closed.
Bus(b) ==
  /\ b.stall => mem.stb
  /\ b.ack \/ b.err => devs # << >>
  /\ ~(b.ack /\ b.err)

Devices(b) ==
  LET kept == IF b.ack THEN Tail(devs) ELSE devs
  IN  devs' = IF b.err THEN << >>
              ELSE IF mem.stb /\ ~b.stall THEN Append(kept, mem.req) ELSE kept

Owed(op, b) ==
  /\ owed' = IF b.err THEN << >>
             ELSE (IF b.ack THEN Tail(owed) ELSE owed) \o (IF op = NoOp THEN << >> ELSE <<op>>)
  /\ due' = IF b.ack THEN Head(owed) ELSE NoOp

Locked(b, i_lock) ==
  lock' = [i_lock |-> i_lock,
           held |-> IF Failed(b) \/ ~i_lock THEN {} ELSE {l \in BOOLEAN : CycOf(l)}]

Clock ==
  \E op \in Op \cup {NoOp}, b \in [stall : BOOLEAN, ack : BOOLEAN, err : BOOLEAN],
     i_lock \in BOOLEAN :
    /\ Bus(b) /\ Issues(op, b)
    /\ Registers(op, b, i_lock) /\ Devices(b) /\ Owed(op, b) /\ Locked(b, i_lock)

Reset ==
  /\ mem' = [mem EXCEPT !.cyc = FALSE, !.stb = FALSE, !.rdaddr = 0, !.wraddr = 0,
               !.fifo_full = FALSE, !.o_valid = FALSE, !.o_err = FALSE,
               !.lock_gbl = FALSE, !.lock_lcl = FALSE]
  /\ devs' = << >> /\ owed' = << >> /\ due' = NoOp
  /\ lock' = [i_lock |-> FALSE, held |-> {}]

Next == Clock \/ Reset

Spec == Init /\ [][Next]_vars
-----------------------------------------------------------------------------
(* pipemem.v: a load's word comes with the register and the part of that   *)
(* load; every operation that was issued is on the wires, with the devices *)
(* or answered, in order, and none of those an error or a reset took; a    *)
(* cycle that is open under a lock stays open.                             *)
Listed == [i \in 1 .. fifo_fill |-> mem.fifo_oreg[(mem.rdaddr + i - 1) % N]]

LoadsReturn ==
  /\ Listed = [i \in DOMAIN owed |-> owed[i].id]
  /\ devs \o (IF mem.stb THEN <<mem.req>> ELSE << >>) = owed
  /\ mem.o_valid = (due # NoOp /\ ~due.we)
  /\ mem.o_valid => mem.o_wreg = due.id /\ mem.o_result = due.id
  /\ \A l \in lock.held : CycOf(l)
=============================================================================
