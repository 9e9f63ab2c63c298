----------------------------- MODULE MCMembers -----------------------------
(***************************************************************************)
(* An instance of Members: two workers, two members, two emails of one     *)
(* domain, of which both or only one have a single character before the @. *)
(***************************************************************************)
EXTENDS Members, TLC

CONSTANTS w1, w2, u1, u2, e1, e2, d1, a1, a2, t1

TwoWorkers == {w1, w2}
TwoUsernames == {u1, u2}
TwoEmails == {e1, e2}
OneDomain == {d1}
InOneDomain == [e \in TwoEmails |-> d1]
OneShortEmail == {e1}
Entries == {d1}
TwoAccounts == {a1, a2}
OneToken == {t1}

Symmetry ==
  Permutations(TwoWorkers) \cup Permutations(TwoUsernames) \cup Permutations(TwoAccounts)
    \cup Permutations(TwoEmails)

\* What follows once an email has gone from one member to another is left out:
\* no property says anything of it.
NotHandedOn == ~HandedOn
=============================================================================
