---------------------------- MODULE BuildHistory ----------------------------
(***************************************************************************)
(* BuildPipeline with a history of whether two workers were ever at the    *)
(* status of one build, which one property excludes.  The history follows  *)
(* the steps and never guards one.                                         *)
(***************************************************************************)
EXTENDS BuildPipeline

VARIABLE raced   \* whether two workers were ever at the status of one build

historyVars == <<vars, raced>>

Racing ==
  \E v \in Workers : \E w \in Workers \ {v} :
    /\ worker[v].op \in {"hook", "poll"} /\ worker[w].op \in {"hook", "poll"}
    /\ worker[v].build = worker[w].build

HistoryInit == Init /\ raced = FALSE

HistoryNext == Next /\ raced' = (raced \/ Racing')

HistorySpec == HistoryInit /\ [][HistoryNext]_historyVars

\* A build is deployed once: a webhook delivered again, or after the pipeline was
\* run again, finds it finished (build.py:351), unless two workers handle calls
\* about it at once.
DeploysOnceUnlessRaced ==
  [][\A w \in Workers :
       ~raced /\ At(w, "deploy") /\ worker'[w].pc \in {"requery", "record"} =>
         build[worker[w].build].link = None /\ ~build[worker[w].build].error]_historyVars

-----------------------------------------------------------------------------
(***************************************************************************)
(* What makes it inductive.                                                *)
(***************************************************************************)

\* Only a webhook or a poll is at the status of a build.
ReportsOnly ==
  \A w \in Workers :
    worker[w].pc \notin {"idle", "insert"} => worker[w].op \in {"hook", "poll"}

\* The first deployment of b is still to be recorded.
Unrecorded(b) == build[b].link = None /\ ~build[b].error

\* As long as nobody raced, a row that has a link or an error is final, and a
\* handler works on one that has neither.
DeploysFirst ==
  ~raced =>
    /\ ~Racing
    /\ \A b \in Builds :
         build[b] # None /\ ~Unrecorded(b) => build[b].status = "successful"
    /\ \A w \in Workers :
         /\ worker[w].pc \notin {"idle", "insert"} => Unrecorded(worker[w].build)
         /\ worker[w].pc \in {"deploy", "requery", "record"} =>
              build[worker[w].build].status = "successful"

HistoryInv == ReportsOnly /\ DeploysFirst
=============================================================================
