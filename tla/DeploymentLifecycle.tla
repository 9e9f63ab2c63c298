------------------------ MODULE DeploymentLifecycle ------------------------
(***************************************************************************)
(* What the deployment API promises its clients, with no handlers, no      *)
(* pipelines and no interleavings: a job is submitted for a key (the id,   *)
(* version and deployer of a process), is decided once, and what is on     *)
(* offer under a key was put there by successful jobs of that key.         *)
(* ProcessDeployment implements it as long as GitLab does not restart      *)
(* pipelines that have ended.                                              *)
(***************************************************************************)
CONSTANTS
  Jobs,        \* deployment jobs
  Keys,        \* what they deploy: id, version and deployer
  Nothing      \* the key of a job not submitted yet

VARIABLES
  outcome,     \* what is known of each job
  key,         \* what it deploys
  offers       \* the jobs whose result is on offer under each key

lifecycleVars == <<outcome, key, offers>>

LifecycleInit ==
  /\ outcome = [j \in Jobs |-> "absent"]
  /\ key = [j \in Jobs |-> Nothing]
  /\ offers = [k \in Keys |-> {}]

Submit(j, k) ==
  /\ outcome[j] = "absent"
  /\ outcome' = [outcome EXCEPT ![j] = "accepted"]
  /\ key' = [key EXCEPT ![j] = k]
  /\ UNCHANGED offers

Decide(j, verdict) ==
  /\ outcome[j] = "accepted"
  /\ outcome' = [outcome EXCEPT ![j] = verdict]
  /\ UNCHANGED <<key, offers>>

\* A successful job is put on offer, beside what is there or in place of one of it.
Offer(j) ==
  /\ outcome[j] = "successful"
  /\ \E old \in SUBSET offers[key[j]] :
       /\ \A a, b \in old : a = b
       /\ offers' = [offers EXCEPT ![key[j]] = (@ \ old) \cup {j}]
  /\ UNCHANGED <<outcome, key>>

Withdraw(k) ==
  /\ \E j \in offers[k] : offers' = [offers EXCEPT ![k] = @ \ {j}]
  /\ UNCHANGED <<outcome, key>>

LifecycleNext ==
  \/ \E j \in Jobs, k \in Keys : Submit(j, k)
  \/ \E j \in Jobs, verdict \in {"failed", "successful"} : Decide(j, verdict)
  \/ \E j \in Jobs : Offer(j)
  \/ \E k \in Keys : Withdraw(k)

LifecycleSpec == LifecycleInit /\ [][LifecycleNext]_lifecycleVars
=============================================================================
