------------------------ MODULE MCStandingMessages ------------------------
(* A small instance of StandingMessages for TLC: one message aimed at a    *)
(* thread and due twice, with an instant between in which it is not.       *)
EXTENDS StandingMessages

CONSTANTS m1, t1

OneSchedule == [m \in {m1} |-> {1, 3}]
InTheThread == [m \in {m1} |-> t1]
=============================================================================
