------------------------------ MODULE WbMaster ------------------------------
(***************************************************************************)
(* The rules of the pipelined Wishbone bus for a master's requests, as the *)
(* repository states them in bench/formal/fwb_slave.v:199-229, seen        *)
(* through the master's wires and the number of its requests still         *)
(* unanswered.  Left out is the rule of lines 193-197, that an error ends  *)
(* the cycle: the debug bus master breaks it (WbuExec.DropsCycleOnError).  *)
(***************************************************************************)
EXTENDS Naturals

CONSTANT Request    \* what a request carries: direction and address

VARIABLES cyc, stb, req, pend

bus == <<cyc, stb, req, pend>>

Init == ~cyc /\ ~stb /\ pend = 0

\* The bus takes the request unless it stalls, and answers no more requests
\* than it took; an error answers them all.
Bus(stall, ans) ==
  /\ ans # "none" => cyc /\ pend > 0
  /\ pend' = IF ~cyc \/ ans = "err" THEN 0
             ELSE pend + (IF stb /\ ~stall THEN 1 ELSE 0)
                       - (IF ans = "ack" THEN 1 ELSE 0)

\* STB can only be true if CYC is also true.
StrobeInCycle == stb' => cyc'

\* A request that was stalled must not change.
Held(stall) == stb /\ stall /\ cyc' => stb' /\ req' = req

\* The direction turns only when nothing is in flight.
Direction == \/ ~cyc'
             \/ ~(stb /\ stb') /\ pend' = 0
             \/ req'.we = req.we

Next == \E stall \in BOOLEAN, ans \in {"none", "ack", "err"} :
           /\ Bus(stall, ans)
           /\ req' \in Request
           /\ StrobeInCycle
           /\ Held(stall)
           /\ Direction

Spec == Init /\ [][Next]_bus
=============================================================================
