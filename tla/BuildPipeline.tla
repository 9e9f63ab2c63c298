---------------------------- MODULE BuildPipeline ----------------------------
(***************************************************************************)
(* Builds (api/endpoints/build.py): a POST starts a GitLab pipeline that   *)
(* turns a repository into a CWL file, webhooks and polls bring its status *)
(* to the build table, and a success deploys the file as an OGC process.   *)
(*                                                                         *)
(* Deployments are those of DeploymentLifecycle, which ProcessDeployment   *)
(* implements: a build's deployment is one of its Submit steps, and jobs   *)
(* are decided, offered and withdrawn, or submitted by members directly,   *)
(* at any time.  Workers are as in ProcessDeployment.                      *)
(***************************************************************************)
EXTENDS Naturals

CONSTANTS
  Workers,     \* gunicorn worker processes
  Users,       \* members
  Builds,      \* build ids; each names the one pipeline it triggers
  Jobs,        \* deployment jobs
  Names,       \* (id, version) of a process
  NameOf,      \* the process in the CWL file that a build publishes
  None,
  Retryable,   \* whether an ended pipeline may be started again
  MayPoll,     \* whether builds are polled, or only webhooks report
  MayCrash,    \* whether a worker may die, or its database call fail
  MayRaise     \* whether a deployment may raise what its handler does not expect

ASSUME NameAssumption == NameOf \in [Builds -> Names]
ASSUME BuildNoneAssumption ==
  /\ None \notin Users \cup Jobs \cup Builds
  /\ None \notin {"accepted", "running", "success", "failed", "canceled", "skipped"}
  /\ None \notin {"post", "hook", "poll"}

VARIABLES
  pipeline,    \* GitLab: the status of each build's pipeline
  hooks,       \* GitLab: webhook calls on their way, <<build, status>>
  build,       \* build table
  worker,      \* the request each worker is serving
  outcome, key, offers     \* the deployments: see DeploymentLifecycle

Deployments == INSTANCE DeploymentLifecycle WITH Keys <- Names \X Users, Nothing <- None

deployments == <<outcome, key, offers>>

vars == <<pipeline, hooks, build, worker, outcome, key, offers>>

-----------------------------------------------------------------------------

Endings == {"success", "failed", "canceled", "skipped"}

GitLabStatus == {"running"} \cup Endings

\* GitLab's own names.
Untranslated(s) == s

\* Statuses the table lacks pass through.
Mapped(s) ==
  CASE s = "success" -> "successful"
    [] s = "skipped" -> "dismissed"
    [] OTHER -> s

\* The finished statuses, if one were forgotten.
FinishedWithoutCanceled == {"successful", "failed", "dismissed"}

Finished == {"successful", "failed", "dismissed", "canceled"}

\* link: the job of deployment_link.  error: whether deployment_error is set.
BuildRow ==
  [requester: Users, status: {"accepted", "running"} \cup Finished,
   link: Jobs \cup {None}, error: BOOLEAN]

ASSUME BuildRowAssumption == None \notin BuildRow

\* read: the status of the row the handler holds.  job: the job create_process_deployment
\* returned, None once it has failed.
Frame ==
  [pc: {"idle", "insert", "ask", "setStatus", "deploy", "requery", "record"},
   op: {None, "post", "hook", "poll"}, user: Users \cup {None}, build: Builds \cup {None},
   read: {None, "accepted", "running"}, got: GitLabStatus \cup {None}, job: Jobs \cup {None}]

Idle ==
  [pc |-> "idle", op |-> None, user |-> None, build |-> None,
   read |-> None, got |-> None, job |-> None]

At(w, step) == worker[w].pc = step

Enter(w, f) == worker' = [worker EXCEPT ![w] = f]

Return(w) == Enter(w, Idle)

TypeOK ==
  /\ pipeline \in [Builds -> GitLabStatus \cup {None}]
  /\ hooks \subseteq Builds \X GitLabStatus
  /\ build \in [Builds -> BuildRow \cup {None}]
  /\ worker \in [Workers -> Frame]
  /\ outcome \in [Jobs -> {"absent", "accepted", "failed", "successful"}]
  /\ key \in [Jobs -> (Names \X Users) \cup {None}]
  /\ offers \in [Names \X Users -> SUBSET Jobs]

Init ==
  /\ pipeline = [b \in Builds |-> None]
  /\ hooks = {}
  /\ build = [b \in Builds |-> None]
  /\ worker = [w \in Workers |-> Idle]
  /\ Deployments!LifecycleInit

-----------------------------------------------------------------------------
(***************************************************************************)
(* POST /build.                                                            *)
(***************************************************************************)

\* The payload is valid and GitLab accepts the pipeline; otherwise nothing changes.
Trigger(w, u, b) ==
  /\ At(w, "idle")
  /\ pipeline[b] = None
  /\ pipeline' = [pipeline EXCEPT ![b] = "running"]
  /\ hooks' = hooks \cup {<<b, "running">>}
  /\ Enter(w, [Idle EXCEPT !.pc = "insert", !.op = "post", !.user = u, !.build = b])
  /\ UNCHANGED <<build, deployments>>

\* _create_and_commit_build, and the 202.
InsertBuild(w) ==
  LET f == worker[w] IN
  /\ At(w, "insert")
  /\ build' = [build EXCEPT ![f.build] =
                 [requester |-> f.user, status |-> "accepted", link |-> None, error |-> FALSE]]
  /\ Return(w)
  /\ UNCHANGED <<pipeline, hooks, deployments>>

-----------------------------------------------------------------------------
(***************************************************************************)
(* _update_build_status, called by the webhook and by the poll.            *)
(***************************************************************************)

\* Updating whatever the row's status.
PendingAlways(b) == build[b] # None

Pending(b) == build[b] # None /\ build[b].status \notin Finished

\* Whether status s from GitLab differs from that of the row the handler holds.
News(s, status) == Mapped(s) # status

\* POST /build/webhook.  Calls about a build with no row yet get a 404 and are
\* lost; one call may be delivered more than once.
ReceiveHook(w, b, s) ==
  /\ At(w, "idle")
  /\ <<b, s>> \in hooks
  /\ hooks' \in {hooks, hooks \ {<<b, s>>}}
  /\ \/ /\ Pending(b) /\ News(s, build[b].status)
        /\ Enter(w, [Idle EXCEPT !.pc = "setStatus", !.op = "hook", !.build = b,
                                 !.read = build[b].status, !.got = s])
     \/ ~(Pending(b) /\ News(s, build[b].status)) /\ UNCHANGED worker
  /\ UNCHANGED <<pipeline, build, deployments>>

\* GET /build/{id}, by its requester (role_id, a number, is compared with the
\* name of the admin role, so administrators are refused like anybody else).
PollLookup(w, b) ==
  /\ MayPoll
  /\ At(w, "idle")
  /\ Pending(b)
  /\ Enter(w, [Idle EXCEPT !.pc = "ask", !.op = "poll", !.build = b, !.read = build[b].status])
  /\ UNCHANGED <<pipeline, hooks, build, deployments>>

PollAsk(w) ==
  LET f == worker[w]
      s == pipeline[f.build]
  IN
  /\ At(w, "ask")
  /\ \/ News(s, f.read) /\ Enter(w, [worker[w] EXCEPT !.pc = "setStatus", !.got = s])
     \/ ~News(s, f.read) /\ Return(w)
  /\ UNCHANGED <<pipeline, hooks, build, deployments>>

\* GitLab cannot be asked: the status read stands, and nothing is written.
PollFallback(w) ==
  /\ At(w, "ask")
  /\ Return(w)
  /\ UNCHANGED <<pipeline, hooks, build, deployments>>

\* Deploying after any final status.
DeploysAnyFinished(f) == f.op = "hook" /\ Mapped(f.got) \in Finished

\* Only a webhook's payload has the URL of the CWL file.  A poll that brings the
\* success raises TypeError there, after the commit.
Deploys(f) == f.op = "hook" /\ Mapped(f.got) = "successful"

\* The status is committed, final or not, whatever the row holds by now.
SetStatus(w) ==
  LET f == worker[w] IN
  /\ At(w, "setStatus")
  /\ build' = [build EXCEPT ![f.build].status = Mapped(f.got)]
  /\ \/ Deploys(f) /\ Enter(w, [worker[w] EXCEPT !.pc = "deploy"])
     \/ ~Deploys(f) /\ Return(w)
  /\ UNCHANGED <<pipeline, hooks, deployments>>

-----------------------------------------------------------------------------
(***************************************************************************)
(* _deploy_ogc_process_for_build: create_process_deployment, without its   *)
(* duplicate check, for the requester.                                     *)
(***************************************************************************)

\* The CWL is fetched, its pipeline triggered and the deployment row inserted.
Deploy(w, j) ==
  /\ At(w, "deploy")
  /\ LET b == worker[w].build IN Deployments!Submit(j, <<NameOf[b], build[b].requester>>)
  /\ Enter(w, [worker[w] EXCEPT !.pc = "requery"])
  /\ UNCHANGED <<pipeline, hooks, build>>

\* No URL in the payload, no valid CWL behind it, or GitLab refuses: a ValueError or a
\* RuntimeError, which the handler stores.
DeployFails(w) ==
  /\ At(w, "deploy")
  /\ Enter(w, [worker[w] EXCEPT !.pc = "record"])
  /\ UNCHANGED <<pipeline, hooks, build, deployments>>

\* Anything else that is raised, by a CWL that parses and is not as expected or by a
\* payload whose variables are null, is logged or answered and leaves the row alone.
DeployRaises(w) ==
  /\ MayRaise
  /\ At(w, "deploy")
  /\ Return(w)
  /\ UNCHANGED <<pipeline, hooks, build, deployments>>

\* The re-query without its filter on id and version.
AcceptedAnyName(n) == {q \in Jobs : outcome[q] = "accepted"}

\* Accepted jobs of a name, whoever deploys it.
Accepted(n) == {q \in Jobs : outcome[q] = "accepted" /\ key[q][1] = n}

\* create_process_deployment's re-query; with no accepted job left it raises,
\* although the deployment exists.
Requery(w) ==
  LET n == NameOf[worker[w].build] IN
  /\ At(w, "requery")
  /\ \/ \E q \in Accepted(n) : Enter(w, [worker[w] EXCEPT !.pc = "record", !.job = q])
     \/ Accepted(n) = {} /\ Enter(w, [worker[w] EXCEPT !.pc = "record"])
  /\ UNCHANGED <<pipeline, hooks, build, deployments>>

\* A failure that is only logged.
RecordedLinkOnly(row, job) == IF job = None THEN row ELSE [row EXCEPT !.link = job]

\* The link is stored and the error cleared, or the error is stored.
Recorded(row, job) ==
  IF job = None THEN [row EXCEPT !.error = TRUE]
                ELSE [row EXCEPT !.link = job, !.error = FALSE]

Record(w) ==
  LET f == worker[w] IN
  /\ At(w, "record")
  /\ build' = [build EXCEPT ![f.build] = Recorded(@, f.job)]
  /\ Return(w)
  /\ UNCHANGED <<pipeline, hooks, deployments>>

Crash(w) ==
  /\ MayCrash
  /\ ~At(w, "idle")
  /\ Return(w)
  /\ UNCHANGED <<pipeline, hooks, build, deployments>>

-----------------------------------------------------------------------------
(***************************************************************************)
(* GitLab (external), and what happens to deployments meanwhile.           *)
(***************************************************************************)

PipelineEnds(b) ==
  /\ pipeline[b] = "running"
  /\ \E s \in Endings :
       /\ pipeline' = [pipeline EXCEPT ![b] = s]
       /\ hooks' = hooks \cup {<<b, s>>}
  /\ UNCHANGED <<build, worker, deployments>>

PipelineRetried(b) ==
  /\ Retryable
  /\ pipeline[b] \in {"failed", "canceled"}
  /\ pipeline' = [pipeline EXCEPT ![b] = "running"]
  /\ hooks' = hooks \cup {<<b, "running">>}
  /\ UNCHANGED <<build, worker, deployments>>

LoseHook(h) ==
  /\ h \in hooks
  /\ hooks' = hooks \ {h}
  /\ UNCHANGED <<pipeline, build, worker, deployments>>

OtherDeployments ==
  /\ Deployments!LifecycleNext
  /\ UNCHANGED <<pipeline, hooks, build, worker>>

-----------------------------------------------------------------------------

Request(w) ==
  \/ \E u \in Users, b \in Builds : Trigger(w, u, b)
  \/ \E b \in Builds, s \in GitLabStatus : ReceiveHook(w, b, s)
  \/ \E b \in Builds : PollLookup(w, b)

Continue(w) ==
  \/ InsertBuild(w)
  \/ PollAsk(w)
  \/ PollFallback(w)
  \/ SetStatus(w)
  \/ \E j \in Jobs : Deploy(w, j)
  \/ DeployFails(w)
  \/ DeployRaises(w)
  \/ Requery(w)
  \/ Record(w)

GitLab ==
  \/ \E b \in Builds : PipelineEnds(b) \/ PipelineRetried(b)
  \/ \E h \in hooks : LoseHook(h)

Next ==
  \/ \E w \in Workers : Request(w) \/ Continue(w) \/ Crash(w)
  \/ GitLab
  \/ OtherDeployments

Spec == Init /\ [][Next]_vars

\* As in ProcessDeployment: handlers go on, the requester keeps polling a build
\* it waits for, GitLab answers some of these polls, and not every one of them
\* is cut short just before it writes.
Fairness ==
  /\ \A w \in Workers : WF_vars(Continue(w))
  /\ \A b \in Builds : SF_vars(\E w \in Workers : PollLookup(w, b))
  /\ \A b \in Builds : SF_vars(\E w \in Workers : worker[w].build = b /\ PollAsk(w))
  /\ \A b \in Builds : SF_vars(\E w \in Workers : worker[w].build = b /\ SetStatus(w))

-----------------------------------------------------------------------------
(***************************************************************************)
(* Properties.                                                             *)
(***************************************************************************)

Deploying(b) ==
  \E w \in Workers : worker[w].build = b /\ worker[w].pc \in {"deploy", "requery", "record"}

\* "Deploy OGC process if build was successful" (build.py:403): once no handler is
\* at it, a successful build has a deployment or an error says why it has not.
SuccessIsDeployed ==
  \A b \in Builds :
    build[b] # None /\ build[b].status = "successful" /\ ~Deploying(b) =>
      build[b].link # None \/ build[b].error

\* Nothing is deployed for a build whose pipeline did not succeed: a job under
\* way or linked for it follows a success GitLab really reported.
OnlyBuiltIsDeployed ==
  \A b \in Builds :
    Deploying(b) \/ (build[b] # None /\ (build[b].link # None \/ build[b].error)) =>
      pipeline[b] = "success"

\* A build's link names a deployment that exists, of the process that was built.
LinkIsOfBuiltProcess ==
  \A b \in Builds :
    build[b] # None /\ build[b].link # None =>
      /\ outcome[build[b].link] # "absent"
      /\ key[build[b].link][1] = NameOf[b]

\* A build that has ended in GitLab gets a final status, also when every webhook
\* is lost, workers die, and a late call has written an older status over the
\* final one (the poll asks GitLab, build.py:355-363), unless its pipeline is
\* started again.
EndedBuildIsFinished ==
  \A b \in Builds :
    build[b] # None /\ pipeline[b] \in Endings ~>
      \/ build[b] # None /\ build[b].status \in Finished
      \/ pipeline[b] = "running"

-----------------------------------------------------------------------------
(***************************************************************************)
(* The inductive invariant behind the safety properties: what each frame   *)
(* knows of the tables at its step.                                        *)
(***************************************************************************)

\* Two handlers never insert a row for the same build.
SoleInserter ==
  \A v, w \in Workers :
    At(v, "insert") /\ At(w, "insert") /\ worker[v].build = worker[w].build => v = w

\* Job j is a deployment of the process that build b publishes.
DeploysProcessOf(j, b) == outcome[j] # "absent" /\ key[j][1] = NameOf[b]

\* The locals each step needs; who brings a success brings one GitLab reported.
Agrees(f) ==
  /\ f.pc = "insert" =>
       /\ f.user \in Users /\ f.build \in Builds
       /\ pipeline[f.build] # None /\ build[f.build] = None
  /\ f.pc \notin {"idle", "insert"} => f.build \in Builds /\ build[f.build] # None
  /\ f.pc = "setStatus" =>
       /\ f.got \in GitLabStatus
       /\ f.got = "success" => pipeline[f.build] = "success"
  /\ f.pc # "record" => f.job = None
  /\ f.pc = "record" /\ f.job # None => DeploysProcessOf(f.job, f.build)

TablesAgree ==
  /\ \A b \in Builds :
       /\ build[b] # None => pipeline[b] # None
       /\ <<b, "success">> \in hooks => pipeline[b] = "success"
  /\ \A j \in Jobs : outcome[j] # "absent" => key[j] \in Names \X Users

IInv ==
  /\ TypeOK
  /\ SoleInserter
  /\ \A w \in Workers : Agrees(worker[w])
  /\ TablesAgree
  /\ OnlyBuiltIsDeployed
  /\ LinkIsOfBuiltProcess
=============================================================================
