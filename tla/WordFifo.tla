------------------------------ MODULE WordFifo ------------------------------
(***************************************************************************)
(* What one direction of an MT7697 SPI queue promises its two ends: a      *)
(* bounded first-in first-out queue.  Words become visible to the receiver *)
(* at the end of the queue, one or several at a time and never more than   *)
(* fit; it takes them from the front, one at a time; nothing else happens  *)
(* to what it can see.                                                     *)
(***************************************************************************)
EXTENDS Naturals, Sequences

CONSTANT Cap    \* the most words the queue holds

VARIABLE q      \* the words the receiver can take, oldest first

FifoInit == q = << >>

Put ==
    /\ Len(q) < Len(q') /\ Len(q') <= Cap
    /\ SubSeq(q', 1, Len(q)) = q

Take ==
    /\ q # << >>
    /\ q' = Tail(q)

FifoSpec == FifoInit /\ [][Put \/ Take]_q
=============================================================================
