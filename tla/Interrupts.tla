----------------------------- MODULE Interrupts -----------------------------
(***************************************************************************)
(* The two interrupt controllers of the ZipCPU's system, rtl/cpu/          *)
(* icontrol.v as zipsystem.v connects it: ctri hears the counters, and its *)
(* interrupt is one of the sources of pic, which interrupts the processor. *)
(* Clock by clock, with a program that serves them as icontrol.v's header  *)
(* asks for: it reads what is pending, clears that and serves it, with the *)
(* controller's own enable down until it is through.                       *)
(***************************************************************************)
EXTENDS Naturals, FiniteSets

CONSTANTS Pulses,     \* sources of pic that are up for a clock: timers, DMA
          Levels,     \* sources of pic that stay up until they are served
          Counters    \* sources of ctri, up for a clock

VARIABLES pic, ctri,   \* the controllers
          brd, alt,    \* the sources that are up
          h,           \* the program: where it is, what it has read
          todo,        \* events that no service has begun after
          looked       \* a debugger has looked at the peripherals
vars == <<pic, ctri, brd, alt, h, todo, looked>>

Sources == Pulses \cup Levels \cup {"ctri"}

Off == [int_state |-> {}, int_enable |-> {}, gie |-> FALSE, o_interrupt |-> FALSE]
Armed(srcs) == [Off EXCEPT !.int_enable = srcs, !.gie = TRUE]
Waiting == [at |-> "wait", seen |-> {}, alts |-> {}]

\* The program has set the two up.
Init ==
  /\ pic = Armed(Sources) /\ ctri = Armed(Counters)
  /\ brd = {} /\ alt = {} /\ h = Waiting /\ todo = {} /\ looked = FALSE
-----------------------------------------------------------------------------
(* icontrol.v.  A write has bit 31, the enable lines and the lines to      *)
(* clear.                                                                  *)

Write(set, en, clr) == [wr |-> TRUE, set |-> set, en |-> en, clr |-> clr]
NoWrite == [wr |-> FALSE, set |-> FALSE, en |-> {}, clr |-> {}]

\* A mutant of the next: a line that rises while it is cleared is lost.
StateLost(c, w, up) == IF w.wr THEN (c.int_state \cup up) \ w.clr ELSE c.int_state \cup up

State(c, w, up) == IF w.wr THEN up \cup (c.int_state \ w.clr) ELSE c.int_state \cup up

Controller(c, w, up) ==
  [int_state |-> State(c, w, up),
   int_enable |-> IF ~w.wr THEN c.int_enable
                  ELSE IF w.set THEN c.int_enable \cup w.en ELSE c.int_enable \ w.en,
   gie |-> IF w.wr THEN w.set ELSE c.gie,
   o_interrupt |-> c.gie /\ c.int_state \cap c.int_enable # {}]

(* What is on the bus.  An access to ctri writes it, be it a read or not   *)
(* (zipsystem.v:627): then the data is what is left on the wires.          *)
Left(srcs) == [wr : {TRUE}, set : BOOLEAN, en : SUBSET srcs, clr : SUBSET srcs]
-----------------------------------------------------------------------------
(* The program, with the writes it makes.  What it reads is the register   *)
(* as it was a clock before.                                               *)

At(step) == h.at = step

Writes(w, wc) ==
  /\ pic' = Controller(pic, w, brd \cup (IF ctri.o_interrupt THEN {"ctri"} ELSE {}))
  /\ ctri' = Controller(ctri, wc, alt)

Idle ==
  /\ UNCHANGED h
  /\ Writes(NoWrite, NoWrite)

\* zipdbg.cpp:114-115 reads every peripheral for its screen.
DebuggerReads ==
  /\ UNCHANGED h /\ looked' = TRUE
  /\ \E w \in Left(Counters) : Writes(NoWrite, w)

ReadPic ==
  /\ At("wait") /\ pic.o_interrupt
  /\ h' = [h EXCEPT !.at = "clear", !.seen = pic.int_state]
  /\ Writes(NoWrite, NoWrite)

ClearPic ==
  /\ At("clear") /\ h' = [h EXCEPT !.at = "serve"]
  /\ Writes(Write(FALSE, {}, h.seen), NoWrite)

Serve(s) ==
  /\ At("serve") /\ s \in h.seen \ {"ctri"}
  /\ h' = [h EXCEPT !.seen = @ \ {s}]
  /\ Writes(NoWrite, NoWrite)

ReadCtri ==
  /\ At("serve") /\ "ctri" \in h.seen
  /\ h' = [h EXCEPT !.at = "clearctri", !.seen = @ \ {"ctri"}, !.alts = ctri.int_state]
  /\ \E w \in Left(Counters) : Writes(NoWrite, w)

ClearCtri ==
  /\ At("clearctri") /\ h' = [h EXCEPT !.at = "counters"]
  /\ Writes(NoWrite, Write(TRUE, Counters, h.alts))

ServeCounter(a) ==
  /\ At("counters") /\ a \in h.alts
  /\ h' = [h EXCEPT !.alts = @ \ {a}]
  /\ Writes(NoWrite, NoWrite)

Through ==
  /\ At("counters") /\ h.alts = {} /\ h' = [h EXCEPT !.at = "serve"]
  /\ Writes(NoWrite, NoWrite)

Return ==
  /\ At("serve") /\ h.seen = {} /\ h' = Waiting
  /\ Writes(Write(TRUE, {}, {}), NoWrite)

Serves(s) == At("serve") /\ h'.seen = h.seen \ {s} /\ s \in h.seen
ServesCounter(a) == At("counters") /\ a \in h.alts /\ a \notin h'.alts

(* The sources: one more may rise in a clock, a level falls when served.   *)
Rises ==
  \E up \in {{}} \cup {{s} : s \in (Pulses \cup Levels \cup Counters) \ brd} :
    LET kept == {s \in brd \cap Levels : ~Serves(s)}
        served == {s \in Pulses \cup Levels : Serves(s)}
                  \cup {a \in Counters : ServesCounter(a)}
    IN  /\ brd' = kept \cup (up \cap (Pulses \cup Levels))
        /\ alt' = up \cap Counters
        /\ todo' = (todo \ served) \cup up

Next ==
  /\ \/ DebuggerReads
     \/ /\ \/ Idle \/ ReadPic \/ ClearPic \/ \E s \in Sources : Serve(s)
           \/ ReadCtri \/ ClearCtri \/ \E a \in Counters : ServeCounter(a)
           \/ Through \/ Return
        /\ UNCHANGED looked
  /\ Rises

Spec == Init /\ [][Next]_vars
-----------------------------------------------------------------------------
(* icontrol.v:39-42: "To clear any of these bits, write a '1' to the       *)
(* corresponding bit"; the program does so after it has read of the event, *)
(* and to read does not clear.  A counter's event is not lost.             *)
CountersKept == todo \cap Counters \subseteq alt \cup ctri.int_state \cup h.alts

(* icontrol.v:23-27: an interrupt that came is pending until the program   *)
(* has read of it, whatever it clears in that clock.  An event is on its   *)
(* wire, or pending, or the program has read of it and not yet served it;  *)
(* and while the program waits, what is pending will interrupt it.  Of the *)
(* counters that is so until a debugger has looked at the peripherals:     *)
(* what it reads of ctri it writes (zipsystem.v:627), and CountersKept     *)
(* fails.                                                                  *)
NoEventLost ==
  /\ todo \ Counters \subseteq brd \cup pic.int_state \cup h.seen
  /\ At("wait") => pic.gie /\ pic.int_enable = Sources
  /\ ~looked => /\ CountersKept
                /\ At("wait") => ctri.gie /\ ctri.int_enable = Counters
=============================================================================
