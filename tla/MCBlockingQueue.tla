--------------------------- MODULE MCBlockingQueue ----------------------------
(* Instances of BlockingQueue for TLC. *)
EXTENDS BlockingQueue, TLC

CONSTANTS p1, p2, c1, c2, w1, e1, e2

TwoProducers == {p1, p2}
TwoConsumers == {c1, c2}
OneWatcher   == {w1}
OneElement   == {e1}
TwoElements  == {e1, e2}

MaxOnly   == {"max"}
MaxFinite == {"max", "finite"}

Symmetry == Permutations(TwoProducers) \cup Permutations(TwoConsumers)
            \cup Permutations(TwoElements)
===============================================================================
