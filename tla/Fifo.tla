-------------------------------- MODULE Fifo --------------------------------
(***************************************************************************)
(* What the rest of nxcomp expects of a queue: an unbounded first-in       *)
(* first-out list.                                                         *)
(***************************************************************************)
EXTENDS Sequences

CONSTANT Entry

VARIABLE fifo

Init == fifo = << >>

Push(e) == fifo' = Append(fifo, e)

Pop == fifo # << >> /\ fifo' = Tail(fifo)

Next == (\E e \in Entry : Push(e)) \/ Pop

Spec == Init /\ [][Next]_fifo

=============================================================================
