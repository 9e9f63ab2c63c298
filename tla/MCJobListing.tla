---------------------------- MODULE MCJobListing ----------------------------
(***************************************************************************)
(* An instance of JobListing: two jobs, three points in time, and each     *)
(* kind of filter: every interval, open or not, a date that cannot be      *)
(* parsed, durations, every status, and all of them at once.               *)
(***************************************************************************)
EXTENDS JobListing, TLC

CONSTANTS j1, j2

TwoJobs == {j1, j2}

ThreeTimes == 0 .. 2

Dated == {[NoFilter EXCEPT !.dated = TRUE, !.from = f, !.to = t] :
            f \in ThreeTimes \cup {Nil}, t \in ThreeTimes \cup {Nil}}

Forward == {f \in Dated : ~Backward(f)}

Lasting == {[NoFilter EXCEPT !.min = f, !.max = t] : f \in {0, 1, Nil}, t \in {1, Nil}}

ByStatus == {[NoFilter EXCEPT !.status = s] : s \in OgcStatuses}

SomeFilters ==
  Forward \cup Lasting \cup ByStatus \cup
    {[NoFilter EXCEPT !.status = "successful", !.dated = TRUE, !.from = 1, !.min = 1, !.max = 1]}

Symmetry == Permutations(TwoJobs)

\* Bound: nothing follows an answer.  No property looks past it, and the next
\* request starts as the first one does, whatever was answered before.
Unanswered == request.pc # "idle" \/ request = NoListing
=============================================================================
