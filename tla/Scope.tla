-------------------------------- MODULE Scope --------------------------------
(***************************************************************************)
(* A logic analyser, rtl/wbscope.v with SYNCHRONOUS set and i_ce high, as  *)
(* busmaster.v ties it, and a program that arms, polls, reads and prints   *)
(* it (sw/scopecls.cpp and the programs with a copy of it), clock by clock.*)
(* A sample is the clock it was taken in, counted from the reset, modulo   *)
(* 2 * LEN; all samples of earlier recordings are Old.                     *)
(***************************************************************************)
EXTENDS Integers, Sequences, FiniteSetsExt

CONSTANTS LEN,        \* 1 << LGMEM; rawread takes no scope of 4 words or less
          Holdoffs    \* what br_holdoff is set to

VARIABLES d,          \* the recording side
          b,          \* the bus side
          h           \* the program
vars == <<d, b, h>>

M == 2 * LEN
Old == -1
Stale == [a \in 0 .. LEN - 1 |-> Old]
Idle == [st |-> "idle", vec |-> FALSE, asked |-> 0, buf |-> << >>, hold |-> 0, zero |-> FALSE]

Init ==
  /\ d = [armed |-> FALSE, manual |-> FALSE, disable |-> FALSE, holdoff |-> LEN \div 2 - 4,
          triggered |-> FALSE, primed |-> FALSE, counter |-> 0, stopped |-> FALSE,
          waddr |-> 0, mem |-> Stale, pipe |-> Old, now |-> 0, trig |-> Old]
  /\ b = [raddr |-> 0, this_addr |-> 0, nxt_mem |-> Old, read_address |-> FALSE,
          pre_ack |-> FALSE, ack |-> FALSE,
          out |-> [ready |-> FALSE, zero |-> FALSE, hold |-> 0, word |-> 0]]
  /\ h = Idle

-----------------------------------------------------------------------------
(* The recording.  The write to the control register takes effect in the   *)
(* next clock, which is the one of the reset.                              *)

Trigger(i_trigger) == d.primed /\ ((i_trigger /\ ~d.disable) \/ d.manual)

Stops == d.triggered /\ d.counter >= d.holdoff

Record(i_trigger) ==
  LET trig == Trigger(i_trigger)
      on == d.armed /\ ~d.stopped
  IN  [d EXCEPT
        !.armed = TRUE,
        !.triggered = d.armed /\ (d.triggered \/ trig),
        !.trig = IF ~d.armed THEN Old ELSE IF ~d.triggered /\ trig THEN d.now ELSE @,
        !.counter = IF ~d.armed THEN 0 ELSE IF d.triggered /\ on THEN @ + 1 ELSE @,
        !.stopped = d.armed /\ Stops,
        !.primed = d.armed /\ (@ \/ (on /\ d.waddr = LEN - 1)),
        !.waddr = IF ~d.armed THEN 0 ELSE IF on THEN (@ + 1) % LEN ELSE @,
        !.mem = IF ~d.armed THEN Stale ELSE IF on THEN [@ EXCEPT ![d.waddr] = d.pipe] ELSE @,
        !.pipe = IF ~d.armed THEN Old ELSE IF d.stopped THEN @ ELSE d.now,
        !.now = IF ~d.armed THEN 0 ELSE IF d.stopped THEN @ ELSE (@ + 1) % M]

-----------------------------------------------------------------------------
(* The bus: an answer comes two clocks after the request. *)

Reads(op) == op = "data"

(* A mutant of the address below: the look-ahead forgets the read. *)
AheadLate(op) == (b.raddr + d.waddr) % LEN
Ahead(op) == (b.raddr + d.waddr + (IF Reads(op) THEN 1 ELSE 0)) % LEN

Bus(op) ==
  [raddr |-> IF ~d.armed \/ op = "arm" THEN 0
             ELSE IF Reads(op) /\ d.stopped THEN (b.raddr + 1) % LEN ELSE b.raddr,
   this_addr |-> Ahead(op),
   nxt_mem |-> d.mem[b.this_addr],
   read_address |-> Reads(op),
   pre_ack |-> op # "none",
   ack |-> b.pre_ack,
   out |-> IF ~b.read_address
           THEN [ready |-> d.stopped /\ d.triggered, zero |-> b.raddr = 0, hold |-> d.holdoff,
                 word |-> 0]
           ELSE [ready |-> FALSE, zero |-> FALSE, hold |-> 0,
                 word |-> IF d.stopped THEN b.nxt_mem ELSE d.now]]

-----------------------------------------------------------------------------
(* The program: arm, ask whether it is ready, read LEN words one by one or *)
(* as a vector, print.  One that reads word by word may be killed.         *)

Outstanding == h.asked > Len(h.buf)

May(op) ==
  CASE op = "none" -> TRUE
    [] op \in {"arm", "poll"} -> h.st = "idle"
    [] op = "data" -> h.st = "read" /\ h.asked < LEN /\ (h.vec \/ ~Outstanding)

(* ready(): STOPPED and TRIGGERED are up; the holdoff comes with them.      *)
Polled(vec) ==
  IF b.out.ready
  THEN [h EXCEPT !.st = "read", !.vec = vec, !.hold = b.out.hold, !.zero = b.out.zero]
  ELSE Idle

(* rawread(): LEN words, counted as they are asked for and as they come.    *)
ReadOn(op) ==
  LET got == IF b.ack THEN Append(h.buf, b.out.word) ELSE h.buf
  IN  [h EXCEPT !.buf = got, !.asked = @ + (IF op = "data" THEN 1 ELSE 0),
                !.st = IF Len(got) = LEN THEN "full" ELSE "read"]

Host(op, vec) ==
  CASE op = "arm" -> [h EXCEPT !.st = "armed"]
    [] op = "poll" -> [h EXCEPT !.st = "asked"]
    [] h.st = "armed" /\ b.ack -> Idle
    [] h.st = "asked" /\ b.ack -> Polled(vec)
    [] h.st = "read" -> ReadOn(op)
    [] OTHER -> h

Clock(op, i_trigger, vec) ==
  /\ May(op) /\ h.st # "full"
  /\ d' = Record(i_trigger) /\ b' = Bus(op) /\ h' = Host(op, vec)

(* The write of the control register: holdoff, manual trigger, disable. *)
Arm(i_trigger, hold, man, dis) ==
  /\ May("arm")
  /\ d' = [Record(i_trigger) EXCEPT !.armed = FALSE, !.holdoff = hold,
                                    !.manual = man, !.disable = dis]
  /\ b' = Bus("arm") /\ h' = Host("arm", FALSE)

Killed == /\ h.st = "read" /\ ~h.vec /\ ~Outstanding /\ h' = Idle /\ UNCHANGED <<d, b>>

(* same are the items that equal the one before; the last item of all is    *)
(* always printed.  print() of the class, uartscope and sdcardscop print    *)
(* the first of equal items, ramscope and cfgscope the last of them too.    *)
PrintedFirst(same) == { i \in 0 .. LEN - 1 : i \notin same \/ i = LEN - 1 }
PrintedEnds(same) == PrintedFirst(same) \cup { i \in 0 .. LEN - 2 : (i + 1) \notin same }

(* The program prints and ends. *)
Ends == h.st = "full" /\ h' = Idle /\ UNCHANGED <<d, b>>

Next ==
  \/ \E i_trigger \in BOOLEAN :
       \/ \E op \in {"none", "poll", "data"}, vec \in BOOLEAN : Clock(op, i_trigger, vec)
       \/ \E hold \in Holdoffs, man \in BOOLEAN, dis \in BOOLEAN : Arm(i_trigger, hold, man, dis)
  \/ Killed \/ Ends

Spec == Init /\ [][Next]_vars

-----------------------------------------------------------------------------
(* writevcd and print: "offset = alen - m_holdoff - 1". *)
Offset == LEN - h.hold - 1

(* What is read is the recording, oldest sample first, with the sample of  *)
(* the trigger where the program looks for it -- unless an earlier program *)
(* was killed halfway, which the word it polled says (bit 25).  And every  *)
(* sample can be told from the lines that are printed.                     *)
ScopeShows ==
  h.st = "full" =>
    /\ h.zero => \A i \in 0 .. LEN - 1 : h.buf[i + 1] = (d.trig + i - Offset) % M
    /\ \A same \in SUBSET (1 .. LEN - 1), i \in 0 .. LEN - 1 :
         \A lines \in {PrintedFirst(same), PrintedEnds(same)} :
           (Max({ j \in lines : j <= i }) + 1) .. i \subseteq same
==============================================================================
