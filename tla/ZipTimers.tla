----------------------------- MODULE ZipTimers ------------------------------
(***************************************************************************)
(* A timer and the jiffies of the ZipCPU's system, rtl/cpu/ziptimer.v and  *)
(* zipjiffies.v, clock by clock.  They share i_ce (the processor is not    *)
(* halted), the reset and the bus, which writes to one of them at a time.  *)
(***************************************************************************)
EXTENDS ZipBounds, Integers

VARIABLES tm,     \* the timer
          jif,    \* the jiffies
          left,   \* ticks until the timer has to ring, or 0
          again,  \* and those from then on, or 0
          alarm,  \* the alarm the program waits for, or NoAlarm
          rings,  \* who has to ring now
          met     \* an alarm was set in the clock in which another rang
vars == <<tm, jif, left, again, alarm, rings, met>>

JifMod == 2 * JifHalf
Values == 0 .. TimerMod - 1
Jiffies == 0 .. JifMod - 1
NoAlarm == -1

\* The signed result of an unsigned subtraction.
Till(when) ==
  LET d == (when - jif.r_counter + JifMod) % JifMod
  IN  IF d >= JifHalf THEN d - JifMod ELSE d

NoWrite == [to |-> "none"]
Writes == [to : {"timer"}, val : Values, auto : BOOLEAN] \cup [to : {"jiffies"}, val : Jiffies]

Init ==
  /\ tm = [r_running |-> FALSE, r_auto_reload |-> FALSE, r_reload_value |-> 0,
           r_value |-> 0, r_zero |-> TRUE, o_int |-> FALSE]
  /\ jif = [r_counter |-> 0, new_set |-> FALSE, new_when |-> 0,
            int_set |-> FALSE, int_when |-> 0, o_int |-> FALSE]
  /\ left = 0 /\ again = 0 /\ alarm = NoAlarm /\ rings = {} /\ met = FALSE
-----------------------------------------------------------------------------
\* A mutant of the next: the copy of a zero outlives a reload.
ZeroStays(ce) == tm.r_zero \/ (tm.r_running /\ ce /\ tm.r_value = 1)

r_zero(ce) ==
  IF tm.r_running /\ ce
  THEN tm.r_value = 1 \/ (tm.r_zero /\ ~tm.r_auto_reload) ELSE tm.r_zero

r_value(ce) ==
  IF ~(ce /\ tm.r_running) THEN tm.r_value
  ELSE IF ~tm.r_zero THEN (tm.r_value + TimerMod - 1) % TimerMod
  ELSE IF tm.r_auto_reload THEN tm.r_reload_value ELSE tm.r_value

Timer(w, ce) ==
  tm' = IF w.to = "timer"
        THEN [r_running |-> w.val # 0, r_auto_reload |-> w.auto /\ w.val # 0,
              r_reload_value |-> w.val, r_value |-> w.val, r_zero |-> w.val = 0,
              o_int |-> FALSE]
        ELSE [tm EXCEPT !.r_running = @ /\ ~(tm.r_zero /\ ~tm.r_auto_reload),
                        !.r_value = r_value(ce), !.r_zero = r_zero(ce),
                        !.o_int = ce /\ tm.r_value = 1]

(* An alarm is looked at a clock after it is written. *)
Meets(ce) == ce /\ jif.r_counter = jif.int_when

Jif(w, ce) ==
  LET later == jif.new_set /\ Till(jif.new_when) > 0
      past == jif.new_set /\ Till(jif.new_when) <= 0
  IN
  jif' = [r_counter |-> IF ce THEN (jif.r_counter + 1) % JifMod ELSE jif.r_counter,
          new_set |-> w.to = "jiffies",
          new_when |-> IF w.to = "jiffies" THEN w.val ELSE 0,
          int_set |-> later \/ (jif.int_set /\ ~Meets(ce)),
          int_when |-> IF later /\ (~jif.int_set \/ Till(jif.new_when) < Till(jif.int_when))
                       THEN jif.new_when ELSE jif.int_when,
          o_int |-> (Meets(ce) /\ jif.int_set) \/ past]
-----------------------------------------------------------------------------
(* What the program expects of them. *)

Expects(w, ce) ==
  LET ringing == w.to # "timer" /\ ce /\ left = 1
      reached == ce /\ alarm = jif.r_counter
      kept == IF reached THEN NoAlarm ELSE alarm
      asks == jif.new_set /\ Till(jif.new_when) > 0
  IN
  /\ left' = IF w.to = "timer" THEN w.val
             ELSE IF ringing THEN again ELSE IF ce /\ left > 0 THEN left - 1 ELSE left
  /\ again' = IF w.to # "timer" THEN again
              ELSE IF w.auto /\ w.val # 0 THEN w.val + 1 ELSE 0
  /\ alarm' = IF asks /\ (kept = NoAlarm \/ Till(jif.new_when) < Till(kept))
              THEN jif.new_when ELSE kept
  /\ rings' = (IF ringing THEN {"timer"} ELSE {})
              \cup (IF reached \/ (jif.new_set /\ ~asks) THEN {"jiffies"} ELSE {})
  /\ met' = (met \/ (asks /\ reached))

Clock ==
  \E w \in Writes \cup {NoWrite}, ce \in BOOLEAN :
    Timer(w, ce) /\ Jif(w, ce) /\ Expects(w, ce)

Reset ==
  /\ tm' = [tm EXCEPT !.r_running = FALSE, !.r_auto_reload = FALSE, !.r_value = 0,
                      !.r_zero = TRUE, !.o_int = FALSE]
  /\ jif' = [jif EXCEPT !.r_counter = 0, !.new_set = FALSE, !.new_when = 0,
                        !.int_set = FALSE, !.o_int = FALSE]
  /\ left' = 0 /\ again' = 0 /\ alarm' = NoAlarm /\ rings' = {} /\ met' = FALSE

Next == Clock \/ Reset

Spec == Init /\ [][Next]_vars
-----------------------------------------------------------------------------
(* ziptimer.v:20-22, 28-31: a timer that is set to n rings n ticks later   *)
(* and, if it reloads itself, every n + 1 ticks after that, and never      *)
(* otherwise.  zipjiffies.v:137-154: the nearest of the alarms that were   *)
(* set rings when its time comes, once, and one that is set for the past   *)
(* rings at once; nothing else rings.  For the jiffies that is so until an *)
(* alarm is set in the very clock in which another rings: AlarmRings fails *)
(* then, and until the next reset nothing is said of them.  That an alarm  *)
(* for the past rings is what the code does; PastIgnored is what the       *)
(* file's own comment says of it.                                          *)
RingsInTime ==
  /\ tm.o_int = ("timer" \in rings)
  /\ ~met => jif.o_int = ("jiffies" \in rings)

(* zipjiffies.v:29-31: the timer "interrupts when it's value equals that   *)
(* time" and several writes "select the nearest possible interrupt"; an    *)
(* alarm that was set is not lost.  One that is set in the clock in which  *)
(* another rings is.                                                       *)
AlarmRings == "jiffies" \in rings => jif.o_int

(* zipjiffies.v:28-29: "Writes of values that occurred in the last 2^(N-1) *)
(* ticks will be ignored."  A write whose time had gone by when it was     *)
(* written, a clock ago, makes nothing ring by itself.  It does.           *)
PastIgnored ==
  [][jif.new_set /\ Till(jif.new_when) < -1 /\ alarm # jif.r_counter => ~jif.o_int']_vars
=============================================================================
