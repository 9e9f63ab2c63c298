--------------------------- MODULE MCOrganizations ---------------------------
(***************************************************************************)
(* Instances of Organizations: a root and two organizations that can be    *)
(* moved below each other.                                                 *)
(***************************************************************************)
EXTENDS Organizations, TLC

CONSTANTS w1, w2, o1, o2, o3, m1

TwoWorkers == {w1, w2}
ThreeOrgs  == {o1, o2, o3}
OneGranted == {o2}
OneMisplaced == {o3}
OneMember  == {m1}

\* A payload names a member twice or not at all; a join brings one row.
NoneOrTwice == {NoMembers, [m \in Members |-> 2]}

Swap       == Permutations(TwoWorkers)

\* Bound: one organization has members at a time, as no step looks at those of two.
OneHasMembers ==
  Cardinality({o \in Orgs : \E m \in Members : members[<<o, m>>] > 0}) <= 1
=============================================================================
