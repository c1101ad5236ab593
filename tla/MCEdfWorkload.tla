---------------------------- MODULE MCEdfWorkload ----------------------------
(* The task set of the program, in ticks of 0.1 milliseconds.              *)
EXTENDS EdfWorkload

Periods == [A |-> 500, B |-> 700]
Works   == [A |-> 210, B |-> 295]
Reservations == [A |-> 212, B |-> 297]
Counts  == [A |-> 14, B |-> 10]

\* What the contrast rests on: the task set fits, and each task starves the other.
ASSUME TaskSetContrasts == Fits /\ Starves("A", "B") /\ Starves("B", "A")

=============================================================================
