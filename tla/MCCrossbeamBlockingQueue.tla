----------------------- MODULE MCCrossbeamBlockingQueue -----------------------
(* Instances of CrossbeamBlockingQueue for TLC. *)
EXTENDS CrossbeamBlockingQueue

CONSTANTS p1, c1, a1, e1, e2

\* p1 only enqueues, c1 only dequeues, and a1 makes every kind of call in turn.
ProducerAndAny == {p1, a1}
ConsumerAndAny == {c1, a1}
OnlyAny        == {a1}
TwoElements    == {e1, e2}

MaxFinite == {"max", "finite"}
===============================================================================
