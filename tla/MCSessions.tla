----------------------------- MODULE MCSessions -----------------------------
(***************************************************************************)
(* An instance of Sessions: two processes, one ticket, and a clock that    *)
(* lets tokens and sessions expire and be renewed.                         *)
(***************************************************************************)
EXTENDS Sessions, TLC

CONSTANTS w1, w2, t1

TwoWorkers == {w1, w2}
OneTicket == {t1}

Symmetry == Permutations(TwoWorkers)
=============================================================================
