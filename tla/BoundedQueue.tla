---------------------------- MODULE BoundedQueue ----------------------------
(***************************************************************************)
(* What a synchronous first-in first-out buffer promises its two users.    *)
(* In one clock the writer may offer a word and the reader may take the    *)
(* oldest one.  A word offered to a full buffer is refused and nothing     *)
(* that was stored is disturbed, unless the same clock takes a word out.   *)
(***************************************************************************)
EXTENDS Naturals, Sequences

CONSTANTS Capacity,  \* the most words the buffer holds
          Word       \* the set of words

VARIABLE queue

Init == queue = << >>

\* A reset empties the buffer whatever else is requested.
Clear == queue' = << >>

Offer == \E w \in Word :
            queue' = IF Len(queue) < Capacity THEN Append(queue, w) ELSE queue

Take == /\ queue # << >>
        /\ queue' = Tail(queue)

\* The word taken makes room for the word offered, even in a full buffer.
Exchange == /\ queue # << >>
            /\ \E w \in Word : queue' = Append(Tail(queue), w)

Next == Clear \/ Offer \/ Take \/ Exchange

Spec == Init /\ [][Next]_queue
=============================================================================
