----------------------------- MODULE MCJobQueues -----------------------------
(***************************************************************************)
(* Instances of JobQueues.  Two workers that settle two queues are the     *)
(* races of the default; one organization is enough for the assignments.   *)
(***************************************************************************)
EXTENDS JobQueues

CONSTANTS w1, w2, w3, q1, q2, q3, o1

OneWorker  == {w1}
TwoWorkers == {w1, w2}
ThreeWorkers == {w1, w2, w3}

NoGuests == {FALSE}

TwoQueues == {q1, q2}
ThreeQueues == {q1, q2, q3}

OneOrg == {o1}
\* Workers that only create and update queues, and do not die.
NextUpdates ==
  \E w \in Workers :
    \/ \E q \in Queues, wants \in BOOLEAN :
         CreateQueue(w, q, wants, FALSE, {}) \/ PutRead(w, q, wants, {})
    \/ Continue(w)

FairSpecUpdates == Init /\ [][NextUpdates]_vars /\ \A w \in Workers : WF_vars(Continue(w))
=============================================================================
