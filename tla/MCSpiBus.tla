------------------------------ MODULE MCSpiBus ------------------------------
(* Four words of flash in two pages and one sector, one bit to a word, and  *)
(* one block of two words on the card.                                      *)
EXTENDS SpiBus, TLC
CONSTANTS d1, d2, w1
MCBlocks == 0 :> <<<<"data", d1>>, <<"data", d2>>>>
MCWriteBlock == <<<<"data", w1>>, <<"data", d1>>>>
\* The chip of the board, and that of the simulator.
MCErase == "SUBSECTOR_ERASE" :> 4 @@ "SECTOR_ERASE" :> 4
MCSimErase == "SECTOR_ERASE" :> 4
Req(to, we, a, d) == [to |-> to, we |-> we, addr |-> a, data |-> d]
MCRequests ==
  {Req("data", FALSE, a, {}) : a \in {0, 1}} \cup {Req("data", TRUE, a, {}) : a \in {0, 1, 2}}
  \cup {Req("ereg", TRUE, 0, [erase |-> e, unprotect |-> ~e]) : e \in BOOLEAN}
  \cup {Req(to, FALSE, 0, {}) : to \in {"ereg", "sreg", "creg", "idreg"}}
\* The host leaves the write protection off.
MCUnprotected ==
  {Req("data", TRUE, 0, {})}
  \cup {Req("ereg", TRUE, 0, [erase |-> e, unprotect |-> TRUE]) : e \in BOOLEAN}
=============================================================================
