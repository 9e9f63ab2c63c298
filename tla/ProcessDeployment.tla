------------------------- MODULE ProcessDeployment -------------------------
(***************************************************************************)
(* Deployment of OGC processes: the process and deployment tables, the     *)
(* GitLab pipelines that build them, and the HTTP handlers that POST, PUT  *)
(* and DELETE processes, poll a deployment and receive GitLab's webhooks   *)
(* (api/endpoints/ogc.py, api/utils/ogc_process_util.py).                  *)
(*                                                                         *)
(* A worker is one gunicorn process serving one request at a time.  The    *)
(* engine runs in AUTOCOMMIT, so every statement of a handler takes effect *)
(* alone: a handler is a sequence of actions, one per database statement   *)
(* or GitLab call, and worker[w] is its stack frame between two of them.   *)
(* Requests rejected before any effect (bad payload, unknown user, CWL     *)
(* that cannot be fetched) change nothing and are not actions.             *)
(***************************************************************************)
EXTENDS FiniteSets, Naturals

CONSTANTS
  Workers,        \* gunicorn worker processes
  Users,          \* members, identified by username
  Names,          \* (id, version) pairs found in CWL documents
  Pipelines,      \* ids GitLab may give to a pipeline
  Rows,           \* primary keys of the process table
  None,           \* SQL NULL, or a row that does not exist
  Retryable,      \* whether an ended GitLab pipeline may be started again
  MayCrash        \* whether a worker may die, or its database call fail

ASSUME NoneAssumption ==
  /\ None \notin Users \cup Names \cup Pipelines \cup Rows
  /\ None \notin {"running", "success", "failed", "canceled"}
  /\ None \notin {"post", "put", "delete", "status"}
ASSUME SwitchAssumption == Retryable \in BOOLEAN /\ MayCrash \in BOOLEAN

VARIABLES
  pipeline,       \* GitLab: the status of each pipeline, None before it exists
  hooks,          \* GitLab: webhook calls on their way, <<pipeline, status>>
  deployment,     \* deployment table, one row per pipeline that was recorded
  process,        \* process table
  worker          \* the request each worker is serving

vars == <<pipeline, hooks, deployment, process, worker>>

-----------------------------------------------------------------------------
(***************************************************************************)
(* Tables.                                                                 *)
(***************************************************************************)

\* "running" stands for every status of a pipeline that has not ended.
GitLabStatus == {"running", "success", "failed", "canceled"}

\* GitLab's name translated to OGC's; a name the table lacks passes through,
\* so a canceled pipeline never finishes its deployment.
OgcStatus(s) == IF s = "success" THEN "successful" ELSE s

\* The finished statuses, if one were forgotten.
FinishedWithoutFailed == {"successful", "dismissed", "deduped"}

Finished == {"successful", "failed", "dismissed", "deduped"}

DeploymentRow ==
  [name: Names, deployer: Users, status: {"accepted"} \cup Finished,
   process: Rows \cup {None}]

\* source: the deployment that last wrote the row (its cwl link, title, ...).
ProcessRow ==
  [name: Names, deployer: Users, status: {"deployed", "undeployed"},
   source: Pipelines]

\* NULL is not a row.
ASSUME RowAssumption == None \notin DeploymentRow \cup ProcessRow

\* Deployed rows of a name and, narrower, of a name and its deployer.
DeployedNamed(n) ==
  {k \in Rows : process[k] # None /\ process[k].name = n /\ process[k].status = "deployed"}

DeployedBy(n, u) == {k \in DeployedNamed(n) : process[k].deployer = u}

-----------------------------------------------------------------------------
(***************************************************************************)
(* Workers.  pc names the next effect of the handler; the other fields are *)
(* its locals, None where the handler has no such local yet.               *)
(***************************************************************************)

RegisterSteps ==
  {"findProcess", "insertProcess", "requeryProcess", "update", "overwrite", "link"}

Steps ==
  {"idle", "trigger", "insert", "requery", "respond", "undeploy", "ask", "setStatus"}
     \cup RegisterSteps

Frame ==
  [pc: Steps, op: {None, "post", "put", "delete", "status"},
   user: Users \cup {None}, name: Names \cup {None},
   pipe: Pipelines \cup {None}, row: Rows \cup {None},
   got: GitLabStatus \cup {None}, job: Pipelines \cup {None}]

Idle ==
  [pc |-> "idle", op |-> None, user |-> None, name |-> None,
   pipe |-> None, row |-> None, got |-> None, job |-> None]

At(w, step) == worker[w].pc = step

\* The worker goes on with frame f.
Enter(w, f) == worker' = [worker EXCEPT ![w] = f]

Return(w) == Enter(w, Idle)

TypeOK ==
  /\ pipeline \in [Pipelines -> GitLabStatus \cup {None}]
  /\ hooks \subseteq Pipelines \X GitLabStatus
  /\ deployment \in [Pipelines -> DeploymentRow \cup {None}]
  /\ process \in [Rows -> ProcessRow \cup {None}]
  /\ worker \in [Workers -> Frame]

Init ==
  /\ pipeline = [p \in Pipelines |-> None]
  /\ hooks = {}
  /\ deployment = [p \in Pipelines |-> None]
  /\ process = [k \in Rows |-> None]
  /\ worker = [w \in Workers |-> Idle]

-----------------------------------------------------------------------------
(***************************************************************************)
(* POST /processes and PUT /processes/{id}.                                *)
(***************************************************************************)

\* The duplicate check looks at the first deployed process of that name,
\* whoever deployed it, and refuses only if that one is the caller's.
PostCheck(w, u, n) ==
  /\ At(w, "idle")
  /\ \/ DeployedNamed(n) = {}
     \/ \E k \in DeployedNamed(n) : process[k].deployer # u
  /\ Enter(w, [Idle EXCEPT !.pc = "trigger", !.op = "post", !.user = u, !.name = n])
  /\ UNCHANGED <<pipeline, hooks, deployment, process>>

\* A PUT names a deployed process of the caller, and must keep its id and version.
PutCheck(w, k) ==
  /\ At(w, "idle")
  /\ process[k] # None
  /\ process[k].status = "deployed"
  /\ Enter(w, [Idle EXCEPT !.pc = "trigger", !.op = "put",
                           !.user = process[k].deployer, !.name = process[k].name])
  /\ UNCHANGED <<pipeline, hooks, deployment, process>>

\* trigger_gitlab_pipeline: GitLab creates the pipeline and starts it.
Trigger(w, p) ==
  /\ At(w, "trigger")
  /\ pipeline[p] = None
  /\ pipeline' = [pipeline EXCEPT ![p] = "running"]
  /\ Enter(w, [worker[w] EXCEPT !.pc = "insert", !.pipe = p])
  /\ UNCHANGED <<hooks, deployment, process>>

\* GitLab refuses or is down: RuntimeError, answered with a 500.
TriggerFails(w) ==
  /\ At(w, "trigger")
  /\ Return(w)
  /\ UNCHANGED <<pipeline, hooks, deployment, process>>

\* The new row, if it took the pipeline's status for its own.
NewDeploymentRunning(f) == [name |-> f.name, deployer |-> f.user, status |-> "running", process |-> None]

\* The row of a pipeline just triggered by a handler with frame f.
NewDeployment(f) == [name |-> f.name, deployer |-> f.user, status |-> "accepted", process |-> None]

\* create_and_commit_deployment.  The row is visible to other workers only now,
\* although the pipeline already runs.
InsertDeployment(w) ==
  LET f == worker[w] IN
  /\ At(w, "insert")
  /\ deployment' = [deployment EXCEPT ![f.pipe] = NewDeployment(f)]
  /\ Enter(w, [worker[w] EXCEPT !.pc = "requery"])
  /\ UNCHANGED <<pipeline, hooks, process>>

\* The re-query without its filter on id and version.
AcceptedAnyName(n) == {q \in Pipelines : deployment[q] # None /\ deployment[q].status = "accepted"}

\* Accepted deployments of a name, whoever requested them.
Accepted(n) ==
  {q \in Pipelines : /\ deployment[q] # None
                     /\ deployment[q].name = n
                     /\ deployment[q].status = "accepted"}

\* The job id a POST answers with is that of the first accepted deployment of
\* the name; if there is none left the request fails with a 500.
PostRequery(w) ==
  LET f == worker[w] IN
  /\ At(w, "requery") /\ f.op = "post"
  /\ \/ \E q \in Accepted(f.name) :
          Enter(w, [worker[w] EXCEPT !.pc = "respond", !.job = q])
     \/ Accepted(f.name) = {} /\ Return(w)
  /\ UNCHANGED <<pipeline, hooks, deployment, process>>

\* A PUT looks its deployment up by pipeline id.
PutRequery(w) ==
  /\ At(w, "requery") /\ worker[w].op = "put"
  /\ Enter(w, [worker[w] EXCEPT !.pc = "respond", !.job = worker[w].pipe])
  /\ UNCHANGED <<pipeline, hooks, deployment, process>>

\* 202 with a link to job.
Respond(w) ==
  /\ At(w, "respond")
  /\ Return(w)
  /\ UNCHANGED <<pipeline, hooks, deployment, process>>

-----------------------------------------------------------------------------
(***************************************************************************)
(* DELETE /processes/{id}: the row is kept and marked undeployed.          *)
(***************************************************************************)

DeleteCheck(w, k) ==
  /\ At(w, "idle")
  /\ process[k] # None
  /\ process[k].status = "deployed"
  /\ Enter(w, [Idle EXCEPT !.pc = "undeploy", !.op = "delete", !.row = k])
  /\ UNCHANGED <<pipeline, hooks, deployment, process>>

Undeploy(w) ==
  /\ At(w, "undeploy")
  /\ process' = [process EXCEPT ![worker[w].row].status = "undeployed"]
  /\ Return(w)
  /\ UNCHANGED <<pipeline, hooks, deployment>>

-----------------------------------------------------------------------------
(***************************************************************************)
(* update_status_post_process_if_applicable, called by the webhook (which  *)
(* brings the status) and by the poll (which asks GitLab for it).  Calls   *)
(* about a deployment that is already finished only read.                  *)
(***************************************************************************)

\* The lookup without the check that the deployment is unfinished.
PendingAlways(p) == deployment[p] # None

Pending(p) == deployment[p] # None /\ deployment[p].status \notin Finished

\* POST /deploymentJobs.  A call about a pipeline with no row yet gets a 404
\* and, GitLab not repeating it, is lost; so is one for a finished deployment,
\* and one whose status is not a finished one changes nothing.
ReceiveHook(w, p, s) ==
  /\ At(w, "idle")
  /\ <<p, s>> \in hooks
  /\ hooks' = hooks \ {<<p, s>>}
  /\ \/ /\ Pending(p) /\ OgcStatus(s) \in Finished
        /\ Enter(w, [Idle EXCEPT !.pc = "setStatus", !.op = "status", !.pipe = p, !.got = s])
     \/ ~(Pending(p) /\ OgcStatus(s) \in Finished) /\ UNCHANGED worker
  /\ UNCHANGED <<pipeline, deployment, process>>

\* GET /deploymentJobs/{id}: read the row, then ask GitLab.
PollLookup(w, p) ==
  /\ At(w, "idle")
  /\ Pending(p)
  /\ Enter(w, [Idle EXCEPT !.pc = "ask", !.op = "status", !.pipe = p])
  /\ UNCHANGED <<pipeline, hooks, deployment, process>>

PollAsk(w) ==
  LET f == worker[w] IN
  /\ At(w, "ask")
  /\ \/ /\ OgcStatus(pipeline[f.pipe]) \in Finished
        /\ Enter(w, [worker[w] EXCEPT !.pc = "setStatus", !.got = pipeline[f.pipe]])
     \/ OgcStatus(pipeline[f.pipe]) \notin Finished /\ Return(w)
  /\ UNCHANGED <<pipeline, hooks, deployment, process>>

\* GitLab cannot be asked: the handler falls back on the status it read.
PollFallback(w) ==
  /\ At(w, "ask")
  /\ Return(w)
  /\ UNCHANGED <<pipeline, hooks, deployment, process>>

\* Registering whenever the deployment is finished.
RegistersAnyFinished(s) == s \in Finished

\* The statuses after which the process is put in the table.
Registers(s) == s = "successful"

\* The finished status is committed on its own, whatever the row holds by now.
SetStatus(w) ==
  LET f == worker[w] IN
  /\ At(w, "setStatus")
  /\ deployment' = [deployment EXCEPT ![f.pipe].status = OgcStatus(f.got)]
  /\ \/ Registers(OgcStatus(f.got)) /\ Enter(w, [worker[w] EXCEPT !.pc = "findProcess"])
     \/ ~Registers(OgcStatus(f.got)) /\ Return(w)
  /\ UNCHANGED <<pipeline, hooks, process>>

\* Registering without looking for an existing process.
TargetsNone(w) == {}

\* The lookup without its filter on the deployer.
TargetsAnyDeployer(w) == DeployedNamed(deployment[worker[w].pipe].name)

\* The deployed rows of the deployment's id, version and deployer.
Targets(w) ==
  LET d == deployment[worker[w].pipe] IN DeployedBy(d.name, d.deployer)

\* An existing process is overwritten in memory, to be flushed with the link.
FindProcess(w) ==
  /\ At(w, "findProcess")
  /\ \/ \E k \in Targets(w) :
          Enter(w, [worker[w] EXCEPT !.pc = "update", !.row = k])
     \/ Targets(w) = {} /\ Enter(w, [worker[w] EXCEPT !.pc = "insertProcess"])
  /\ UNCHANGED <<pipeline, hooks, deployment, process>>

InsertProcess(w, k) ==
  LET p == worker[w].pipe IN
  /\ At(w, "insertProcess")
  /\ process[k] = None
  /\ process' = [process EXCEPT ![k] =
                   [name |-> deployment[p].name, deployer |-> deployment[p].deployer,
                    status |-> "deployed", source |-> p]]
  /\ Enter(w, [worker[w] EXCEPT !.pc = "requeryProcess"])
  /\ UNCHANGED <<pipeline, hooks, deployment>>

\* The id of the inserted row is read back by name and deployer.  No such row
\* (it was undeployed meanwhile) raises AttributeError.
RequeryProcess(w) ==
  /\ At(w, "requeryProcess")
  /\ \/ \E k \in Targets(w) :
          Enter(w, [worker[w] EXCEPT !.pc = "link", !.row = k])
     \/ Targets(w) = {} /\ Return(w)
  /\ UNCHANGED <<pipeline, hooks, deployment, process>>

\* A row overwritten by deployment p, if the handler also wrote its status.
UpdatedRedeploys(row, p) == [row EXCEPT !.source = p, !.status = "deployed"]

\* A row overwritten by deployment p: the handler does not write its status.
Updated(row, p) == [row EXCEPT !.source = p]

\* The last commit sends an UPDATE of the deployment and, on the update path,
\* one of the process row, each effective alone and in either order ("update"
\* has both to send).
Overwrite(w) ==
  LET f == worker[w] IN
  /\ f.pc \in {"update", "overwrite"}
  /\ process' = [process EXCEPT ![f.row] = Updated(@, f.pipe)]
  /\ \/ f.pc = "update" /\ Enter(w, [worker[w] EXCEPT !.pc = "link"])
     \/ f.pc = "overwrite" /\ Return(w)
  /\ UNCHANGED <<pipeline, hooks, deployment>>

Link(w) ==
  LET f == worker[w] IN
  /\ f.pc \in {"update", "link"}
  /\ deployment' = [deployment EXCEPT ![f.pipe].process = f.row]
  /\ \/ f.pc = "update" /\ Enter(w, [worker[w] EXCEPT !.pc = "overwrite"])
     \/ f.pc = "link" /\ Return(w)
  /\ UNCHANGED <<pipeline, hooks, process>>

\* The worker is killed (gunicorn's timeout, a restart), or the database call
\* it is about to make raises: what was committed stays.
Crash(w) ==
  /\ MayCrash
  /\ ~At(w, "idle")
  /\ Return(w)
  /\ UNCHANGED <<pipeline, hooks, deployment, process>>

-----------------------------------------------------------------------------
(***************************************************************************)
(* GitLab (external): a pipeline ends, and a webhook call says so that may *)
(* be late, overtaken or lost.  Calls about a pipeline that has not ended  *)
(* change nothing in the handler and are left out.                         *)
(***************************************************************************)

PipelineEnds(p) ==
  /\ pipeline[p] = "running"
  /\ \E s \in {"success", "failed", "canceled"} :
       /\ pipeline' = [pipeline EXCEPT ![p] = s]
       /\ hooks' = hooks \cup {<<p, s>>}
  /\ UNCHANGED <<deployment, process, worker>>

PipelineRetried(p) ==
  /\ Retryable
  /\ pipeline[p] \in {"failed", "canceled"}
  /\ pipeline' = [pipeline EXCEPT ![p] = "running"]
  /\ UNCHANGED <<hooks, deployment, process, worker>>

LoseHook(h) ==
  /\ h \in hooks
  /\ hooks' = hooks \ {h}
  /\ UNCHANGED <<pipeline, deployment, process, worker>>

-----------------------------------------------------------------------------

Request(w) ==
  \/ \E u \in Users, n \in Names : PostCheck(w, u, n)
  \/ \E k \in Rows : PutCheck(w, k) \/ DeleteCheck(w, k)
  \/ \E p \in Pipelines : PollLookup(w, p)
  \/ \E p \in Pipelines, s \in GitLabStatus : ReceiveHook(w, p, s)

\* The handler a worker is in the middle of takes its next step.
Continue(w) ==
  \/ \E p \in Pipelines : Trigger(w, p)
  \/ TriggerFails(w)
  \/ InsertDeployment(w)
  \/ PostRequery(w)
  \/ PutRequery(w)
  \/ Respond(w)
  \/ Undeploy(w)
  \/ PollAsk(w)
  \/ PollFallback(w)
  \/ SetStatus(w)
  \/ FindProcess(w)
  \/ \E k \in Rows : InsertProcess(w, k)
  \/ RequeryProcess(w)
  \/ Overwrite(w)
  \/ Link(w)

GitLab ==
  \/ \E p \in Pipelines : PipelineEnds(p) \/ PipelineRetried(p)
  \/ \E h \in hooks : LoseHook(h)

Next ==
  \/ \E w \in Workers : Request(w) \/ Continue(w) \/ Crash(w)
  \/ GitLab

Spec == Init /\ [][Next]_vars

\* Handlers run to completion, a client that waits for a deployment keeps polling
\* it, and GitLab answers some of these polls.
Fairness ==
  /\ \A w \in Workers : WF_vars(Continue(w))
  /\ \A p \in Pipelines : SF_vars(\E w \in Workers : worker[w].pipe = p /\ PollAsk(w))
  /\ \A p \in Pipelines : SF_vars(\E w \in Workers : PollLookup(w, p))

FairSpec == Spec /\ Fairness

-----------------------------------------------------------------------------
(***************************************************************************)
(* Safety.                                                                 *)
(***************************************************************************)

\* Some worker has committed p's success and still registers its process.
Registering(p) == \E w \in Workers : worker[w].pipe = p /\ worker[w].pc \in RegisterSteps

\* A row that stands for deployment p: same id, version and deployer.
StandsFor(k, p) ==
  /\ process[k] # None /\ deployment[p] # None
  /\ process[k].name = deployment[p].name
  /\ process[k].deployer = deployment[p].deployer

Succeeded(p) == deployment[p] # None /\ deployment[p].status = "successful"

\* A deployment is linked only to a process of its own id, version and deployer,
\* however many workers register it and whatever becomes of the rows meanwhile.
LinkIsOwn ==
  \A p \in Pipelines :
    deployment[p] # None /\ deployment[p].process # None =>
      StandsFor(deployment[p].process, p)

\* What a process offers (cwl, title, ...) was always built: its last writer is a
\* deployment of the same key whose GitLab pipeline succeeded.
OffersOnlyBuilt ==
  \A k \in Rows :
    process[k] # None =>
      pipeline[process[k].source] = "success" /\ StandsFor(k, process[k].source)

\* The id, version and deployer of a process name one deployed row at most: POST
\* refuses duplicates and a later success updates the row it finds.  It relies
\* on no two workers registering at once.
UniqueDeployed ==
  \A n \in Names, u \in Users : \A j, k \in DeployedBy(n, u) : j = k

\* A member who has deployed a process is refused a second POST of the same id
\* and version (ogc_process_util.py:306-319, test_ogc.py:254).
RefusesDuplicatePost ==
  [][\A w \in Workers :
       worker[w].pc = "idle" /\ worker'[w].op = "post" =>
         DeployedBy(worker'[w].name, worker'[w].user) = {}]_vars

\* The deployment whose job id a POST or PUT hands out ("Re-query to get the
\* auto-incremented job_id", ogc_process_util.py:330) is the one it created.
AnswersOwnJob ==
  \A w \in Workers : At(w, "respond") => worker[w].job = worker[w].pipe

\* Whatever job it hands out, it is one of the id and version asked for, and the
\* request's own deployment is recorded by then.
AnswersSameName ==
  \A w \in Workers :
    At(w, "respond") =>
      /\ deployment[worker[w].pipe] # None /\ deployment[worker[w].job] # None
      /\ deployment[worker[w].job].name = deployment[worker[w].pipe].name

\* Undeploying is for good and a row keeps its identity, even when a deployment
\* finishing at the same time writes it.
UndeployedForGood ==
  [][\A k \in Rows :
       process[k] # None =>
         /\ process'[k] # None
         /\ process'[k].name = process[k].name
         /\ process'[k].deployer = process[k].deployer
         /\ process[k].status = "undeployed" => process'[k].status = "undeployed"]_vars

-----------------------------------------------------------------------------
(***************************************************************************)
(* Liveness.                                                               *)
(***************************************************************************)

\* A deployment whose pipeline has succeeded or failed gets its final status,
\* also when every webhook call about it was lost (the poll asks GitLab,
\* ogc.py:170-181), unless somebody starts its pipeline again.
EndedIsFinished ==
  \A p \in Pipelines :
    deployment[p] # None /\ pipeline[p] \in {"success", "failed"} ~>
      \/ deployment[p] # None /\ deployment[p].status \in Finished
      \/ pipeline[p] \notin {"success", "failed"}

\* A successful deployment ends up linked, or its process was undeployed.
SuccessGetsLinked ==
  \A p \in Pipelines :
    Succeeded(p) ~>
      \/ deployment[p] # None /\ deployment[p].process # None
      \/ \E k \in Rows : StandsFor(k, p) /\ process[k].status = "undeployed"

-----------------------------------------------------------------------------
(***************************************************************************)
(* The inductive invariant behind the safety properties: what each frame   *)
(* knows of the tables at its step.                                        *)
(***************************************************************************)

\* Two handlers never insert a row for the same pipeline.
SoleInserter ==
  \A v, w \in Workers :
    At(v, "insert") /\ At(w, "insert") /\ worker[v].pipe = worker[w].pipe => v = w

\* The locals each step needs, and what they say of the tables: a handler that
\* knows of a success speaks of a pipeline that has succeeded.
Agrees(f) ==
  /\ f.pc \in {"trigger", "insert"} =>
       f.user \in Users /\ f.name \in Names /\ f.op \in {"post", "put"}
  /\ f.pc = "insert" =>
       f.pipe \in Pipelines /\ pipeline[f.pipe] # None /\ deployment[f.pipe] = None
  /\ f.pc \notin {"idle", "trigger", "undeploy", "insert"} =>
       f.pipe \in Pipelines /\ deployment[f.pipe] # None
  /\ f.pc \in {"requery", "respond"} =>
       f.op \in {"post", "put"} /\ f.name = deployment[f.pipe].name
  /\ f.pc = "respond" =>
       f.job \in Pipelines /\ deployment[f.job] # None /\ deployment[f.job].name = f.name
  /\ f.pc = "setStatus" => f.got \in {"success", "failed"}
  /\ f.pc \in RegisterSteps => f.got = "success"
  /\ f.pc \in {"setStatus"} \cup RegisterSteps /\ f.got = "success" =>
       pipeline[f.pipe] = "success"
  /\ f.pc = "undeploy" => f.row \in Rows /\ process[f.row] # None
  /\ f.pc \in {"update", "overwrite", "link"} => f.row \in Rows /\ StandsFor(f.row, f.pipe)
  /\ f.pc = "requeryProcess" => \E k \in Rows : StandsFor(k, f.pipe)

FramesAgree == \A w \in Workers : Agrees(worker[w])

TablesAgree ==
  \A p \in Pipelines :
    /\ deployment[p] # None => pipeline[p] # None
    /\ <<p, "success">> \in hooks => pipeline[p] = "success"

IInv ==
  /\ TypeOK
  /\ SoleInserter
  /\ FramesAgree
  /\ TablesAgree
  /\ LinkIsOwn
  /\ OffersOnlyBuilt

-----------------------------------------------------------------------------
(***************************************************************************)
(* Refinement: the tables, read as jobs decided once and offers.           *)
(***************************************************************************)

Key(d) == <<d.name, d.deployer>>

outcomeOf == [p \in Pipelines |-> IF deployment[p] = None THEN "absent" ELSE deployment[p].status]

keyOf == [p \in Pipelines |-> IF deployment[p] = None THEN None ELSE Key(deployment[p])]

offered == [x \in Names \X Users |-> {process[k].source : k \in DeployedBy(x[1], x[2])}]

Lifecycle == INSTANCE DeploymentLifecycle
               WITH Jobs <- Pipelines, Keys <- Names \X Users, Nothing <- None,
                    outcome <- outcomeOf, key <- keyOf, offers <- offered

\* Seen through the mapping every step is one of the lifecycle or a stutter:
\* jobs are decided once, and only a successful one is ever put on offer.
ImplementsLifecycle == Lifecycle!LifecycleSpec
=============================================================================
