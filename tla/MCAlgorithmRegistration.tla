----------------------- MODULE MCAlgorithmRegistration -----------------------
(***************************************************************************)
(* Instances of AlgorithmRegistration.  Two registrations of two           *)
(* algorithms, one of which the branch holds already, are what can mix.    *)
(***************************************************************************)
EXTENDS AlgorithmRegistration, TLC

CONSTANTS w1, w2, w3, r1, r2, r3, c0, c1, a, b

TwoWorkers == {w1, w2}
ThreeWorkers == {w1, w2, w3}

OneRequest == {r1}
TwoRequests == {r1, r2}
ThreeRequests == {r1, r2, r3}

OneOther == {c0}
TwoOthers == {c0, c1}

OneAlgorithm == {a}
TwoAlgorithms == {a, b}

\* The first commit registers what the second request registers again.
Names == [c \in Commits |-> IF c \in {r1, c1} THEN a ELSE b]
OneName == [c \in Commits |-> a]

\* Three workers that neither die nor are refused.
NextUndisturbed ==
  \/ \E w \in Workers, r \in Requests : Register(w, r)
  \/ \E w \in Workers : Continue(w)
  \/ \E c \in Commits : StartPipeline(c)
  \/ \E c \in Others : OthersPush(c)

SpecUndisturbed == Init /\ [][NextUndisturbed]_vars

Alike == Permutations(Workers) \cup Permutations(Requests)

\* What RegistrationEnds rests on, for any number of workers: a registration
\* that cannot go on waits for a pipeline that will start, or for none.
OnlyTheWaitStops ==
  \A w \in Workers : ~At(w, "idle") /\ ~ENABLED Continue(w) =>
    /\ At(w, "poll")
    /\ pipeline[worker[w].hash] = "due" \/ Swallowed(worker[w].hash)
=============================================================================
