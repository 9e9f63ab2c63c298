------------------------- MODULE DeploymentHistory -------------------------
(***************************************************************************)
(* ProcessDeployment with a history of what several properties are         *)
(* conditional on: a registration that was cut short, and two workers at   *)
(* the same thing.  The history follows the steps and never guards one.    *)
(***************************************************************************)
EXTENDS ProcessDeployment

VARIABLES
  cut,   \* the deployments whose registration was cut short by a crash
  raced  \* whether two workers were ever at the same deployment, or registering two of one process

historyVars == <<vars, cut, raced>>

\* Two workers are at the status of one deployment.
Racing ==
  \E v \in Workers : \E w \in Workers \ {v} :
    /\ worker[v].op = "status" /\ worker[w].op = "status"
    /\ \/ worker[v].pipe = worker[w].pipe
       \/ /\ worker[v].pc \in RegisterSteps /\ worker[w].pc \in RegisterSteps
          /\ Key(deployment[worker[v].pipe]) = Key(deployment[worker[w].pipe])

HistoryInit == Init /\ cut = {} /\ raced = FALSE

\* No worker is at p's registration any more, because the last one died.
CutShort(p) ==
  /\ Registering(p) /\ ~Registering(p)'
  /\ \E w \in Workers : worker[w].pipe = p /\ Crash(w) /\ ~RequeryProcess(w)

HistoryNext ==
  /\ Next
  /\ cut' = cut \cup {p \in Pipelines : CutShort(p)}
  /\ raced' = (raced \/ Racing')

HistorySpec == HistoryInit /\ [][HistoryNext]_historyVars

-----------------------------------------------------------------------------
(***************************************************************************)
(* Properties.                                                             *)
(***************************************************************************)

\* A row stands for p, and p's link is missing only where that row was undeployed.
Registered(p) ==
  \E k \in Rows :
    /\ StandsFor(k, p)
    /\ deployment[p].process = None => process[k].status = "undeployed"

\* "If the pipeline was successful, add the process to the table" (ogc.py:157):
\* once no handler is at it any more, a successful deployment whose registration
\* no crash cut short has a process row, and its link is missing only where that
\* process was undeployed before the handler read it back.
UncutIsRegistered ==
  \A p \in Pipelines \ cut : Succeeded(p) /\ ~Registering(p) => Registered(p)

\* The id, version and deployer of a process name one deployed row at most: POST
\* refuses duplicates and a later success updates the row it finds
\* (ogc.py:201-216); only two registrations side by side break it, a crash never.
UniqueUnlessRaced == ~raced => UniqueDeployed

-----------------------------------------------------------------------------
(***************************************************************************)
(* What makes these two inductive.                                         *)
(***************************************************************************)

\* Only a poll or a webhook registers; the last UPDATE it sends may be the one of
\* the process only once the link is written.
RegistersByStatus ==
  \A w \in Workers :
    /\ worker[w].pc \in {"ask", "setStatus"} \cup RegisterSteps => worker[w].op = "status"
    /\ At(w, "overwrite") => deployment[worker[w].pipe].process # None

\* As long as nobody raced, a handler about to insert a row is about to insert
\* the only one.
SoleRegistrant ==
  ~raced =>
    /\ ~Racing
    /\ \A w \in Workers : At(w, "insertProcess") => Targets(w) = {}

HistoryInv == RegistersByStatus /\ UncutIsRegistered /\ SoleRegistrant /\ UniqueUnlessRaced
=============================================================================
