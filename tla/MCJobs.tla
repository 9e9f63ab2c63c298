------------------------------- MODULE MCJobs -------------------------------
(***************************************************************************)
(* Instances of Jobs.  Two workers and three ids: a job and two cancels of *)
(* it, or two jobs and a cancel.                                           *)
(***************************************************************************)
EXTENDS Jobs, TLC

CONSTANTS w1, w2, m1, m2, j1, j2, j3

OneWorker == {w1}
TwoWorkers == {w1, w2}

OneMember == {m1}
TwoMembers == {m1, m2}

TwoJobs == {j1, j2}
ThreeJobs == {j1, j2, j3}
=============================================================================
