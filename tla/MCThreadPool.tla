----------------------------- MODULE MCThreadPool -----------------------------
(* Instances of ThreadPool for TLC. *)
EXTENDS ThreadPool, TLC

CONSTANTS m1, m2, j1, j2, j3, r1, r2

OneClient  == {m1}
TwoClients == {m1, m2}
OneJob     == {j1}
TwoJobs    == {j1, j2}
ThreeJobs  == {j1, j2, j3}
NoRounds   == {}
OneRound   == {r1}
TwoRounds  == {r1, r2}

NoFailures  == {}
OnlyErr     == {"err"}
AllFailures == {"err", "panic"}

Symmetry == Permutations(Clients) \cup Permutations(Jobs)
===============================================================================
