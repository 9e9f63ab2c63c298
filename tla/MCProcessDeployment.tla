------------------------ MODULE MCProcessDeployment ------------------------
(***************************************************************************)
(* Finite instances of ProcessDeployment and its history.                  *)
(***************************************************************************)
EXTENDS DeploymentHistory, TLC

CONSTANTS w1, w2, alice, bob, app, app2, p1, p2, r1, r2, r3, r4

OneWorker == {w1}
TwoWorkers == {w1, w2}
OneUser == {alice}
TwoUsers == {alice, bob}
OneName == {app}
TwoNames == {app, app2}
OnePipeline == {p1}
TwoPipelines == {p1, p2}
TwoRows == {r1, r2}
FourRows == {r1, r2, r3, r4}

MCFairSpec == HistorySpec /\ Fairness

\* Workers, members, names, pipelines and rows are only compared for equality.
Symmetry ==
  Permutations(Workers) \cup Permutations(Users) \cup Permutations(Names)
    \cup Permutations(Pipelines) \cup Permutations(Rows)
=============================================================================
