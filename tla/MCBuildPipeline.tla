--------------------------- MODULE MCBuildPipeline ---------------------------
(***************************************************************************)
(* Finite instances of BuildPipeline and its history.                      *)
(***************************************************************************)
EXTENDS BuildHistory, FiniteSets

CONSTANTS w1, w2, alice, app, app2, b1, j1, j2

TwoWorkers == {w1, w2}
OneUser == {alice}
TwoNames == {app, app2}
OneBuild == {b1}
TwoJobs == {j1, j2}

SameName == [b \in Builds |-> app]

MCFairSpec == HistorySpec /\ Fairness

\* Bounds: one webhook call about an ending on its way at a time, besides one that
\* says the pipeline runs; and jobs that are decided have failed, since no step
\* of a build reads more than whether its job is still accepted.
FewHooks == Cardinality({h \in hooks : h[2] \in Endings}) <= 1

FewOutcomes == \A j \in Jobs : outcome[j] # "successful"
=============================================================================
