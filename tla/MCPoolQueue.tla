------------------------------ MODULE MCPoolQueue ------------------------------
(* Instances of PoolQueue for TLC. *)
EXTENDS PoolQueue

CONSTANTS p1, p2, c1, c2, w1, e1, e2

TwoClients  == {p1, p2}
TwoWorkers  == {c1, c2}
OneOwner    == {w1}
OneElement  == {e1}
TwoElements == {e1, e2}

MaxOnly   == {"max"}
MaxFinite == {"max", "finite"}
===============================================================================
