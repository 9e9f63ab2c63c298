# TLA+ models of the MAAP API

The MAAP API (`api/`) is a Flask application. Members use it to register
algorithms and OGC processes, to run jobs on HySDS, and to manage job queues,
organizations and access tokens. This directory models the parts of it that
keep state, checks them with TLC on small instances, and proves with TLAPS what
matters most about them for instances of any size.

## 1. The system

### How requests run

Three facts about the deployment shape every model here.

* `docker/docker-compose.yml:17` starts gunicorn with 4 worker processes, each
  serving one request at a time. Requests of different workers interleave.
* `api/maapapp.py:45` opens the database with `isolation_level: AUTOCOMMIT`.
  Each statement takes effect alone. A handler that sends two UPDATEs can stop
  between them, and `rollback()` undoes nothing that was already sent.
* Nothing takes locks or compares versions. A handler that read a row acts on
  what it read, whatever the row holds by then, until a commit expires the
  session's objects.

A handler is therefore a *sequence of actions*, one per database statement or
per call of another service, and the state of a worker between two of them is a
record, its stack frame. `.first()` on a query with no ORDER BY is a
nondeterministic choice.

### Components

| component | state it keeps | operations | interacts with |
|---|---|---|---|
| OGC process deployment (`ogc.py`, `ogc_process_util.py`) | tables `deployment`, `process` | POST/PUT/DELETE processes, poll a deployment job, GitLab webhook | GitLab pipelines; called by builds |
| OGC jobs (`ogc.py`) | table `member_job`; HySDS | execute, status, results, cancel, list, metrics | HySDS Mozart, job queues |
| Builds (`build.py`) | table `build` | POST a build, poll it, GitLab webhook | GitLab; on success deploys a process |
| Job queues (`job_queue.py`, `admin.py`) | tables `job_queue`, `organization_job_queue` | create, update, delete, choose a queue for a job | organizations, jobs |
| Organizations (`organization.py`, `organizations.py`) | `organization`, `organization_membership` | create, update, delete, join, leave, grant queues | job queues, S3 access |
| S3 access, pre-approved emails (`s3_access.py`, `admin.py`) | `organization_s3_access`, `pre_approved` | create, delete, list | organizations |
| DPS jobs (`job.py`, `hysds_util.py`) | `member_job`; HySDS | submit, stop, status | HySDS |
| Personal access tokens (`gateway.py`) | `personal_access_token` | create, list, revoke | security |
| Authentication (`security.py`, `cas_auth.py`) | `member_session`, a per-process token cache | validate a ticket, token or JWT, start a session | CAS, Keycloak |
| Members (`members.py`) | `member`, `member_secret` | sign up, change status, keys, secrets | GitLab, email |
| Algorithm registration (`algorithm.py`, `github_util.py`) | one clone of a git repository | register, publish | GitLab |
| Translations (`ogc_translate.py`) | none | status names, XML documents | all job components |
| CMR, WMTS, WMS, tiles, environments, email, schemas, settings | none | forward and reformat | external services |

### What is hard about it

Webhooks arrive before the row they speak of, late, or not at all; polling
races with them; a row is read before a call of another service and written
after it; a worker may be killed between the statements of a handler; "look
for a row, insert it if there is none" has no constraint behind it. The hazards
of `PROJECT.json` list these at the lines where they bite.

### What makes each component correct

* **Process deployment**: a deployment is decided once; a success is registered;
  a process offers only what was built; links point to the deployer's own
  process; one deployed row per id, version and deployer; undeployed is for
  good; the job a client is given is its own.
* **Builds**: a finished build stays finished; a successful build deploys its
  process once, or says why not.
* **Job queues**: one default queue; an assignment names a queue and an
  organization that exist; a job runs on a queue its member may use.
* **Organizations**: creating or deleting one leaves no half of it behind; a
  member's rows in it are bounded, and an update leaves the ones it names.
* **Jobs**: every job DPS accepted is on record; a dismissal that was waited for is
  one; what has ended keeps its status; every request ends. A list holds exactly
  the jobs asked for.
* **Members and tokens**: the GitLab account follows the status and is the
  member's own; a token is for its maker.
* **Sessions**: a request skips the broker only for a token that lasts.
* **Algorithm registration**: what is pushed for a member is that member's, whole,
  and nothing of others is lost.

## 2. Plan

Modules in order; all are done.

1. `ProcessDeployment` - the deployment of OGC processes, the core: it owns the
   two tables every other part reads, and has the most interleavings.
2. `DeploymentLifecycle` - what it promises, abstractly; refinement.
3. `BuildPipeline` - builds, their webhook and poll, the deployment a success
   starts, composed with `DeploymentLifecycle`.
4. `JobQueues` - queues, the default queue, assignments, the choice of a queue.
5. `Organizations` - organizations, their hierarchy, memberships, deletion.
6. `AlgorithmRegistration` - the clone all workers share.
7. `Jobs` - submission, its record, cancellation, against HySDS.
8. `JobListing` - the list of jobs and its filters.
9. `Members` - members, their GitLab accounts, access tokens, approved emails.
10. `Sessions` - tickets, JWTs, the Earthdata Login token and its memory.

Every safety property of a passing run is a theorem (section 6); liveness is left to TLC.

There is one passing run per component, and a second one where safety and liveness
need different bounds: history variables (`crashed`, `overlapped`, `raced`, `cut`,
`suspect`) let a run with crashes and two workers also check what holds only
without them.

What is worth doing next: the composition of `JobQueues` with `Organizations`, which meet
in `OrganizationDeleted` and `Grant` only; and what of the lifecycle is left when GitLab
restarts pipelines, where a job can be decided again.

## 3. Modules

### ProcessDeployment

| variable | code |
|---|---|
| `pipeline` | the status of each GitLab pipeline (external); `"running"` stands for every status before the end |
| `hooks` | webhook calls GitLab has sent and nobody has received (external) |
| `deployment` | table `deployment`, one row per recorded pipeline, with `id`+`version` as one `name` |
| `process` | table `process`; `source` stands for the columns copied from a deployment (`cwl_link`, `title`, `github_url`, ...): the deployment they came from |
| `worker` | for each gunicorn process the frame of its handler: `pc`, the next effect; `op`, which handler; its locals |

| action | code |
|---|---|
| `PostCheck` | `create_process_deployment` up to the duplicate check |
| `PutCheck` | `Describe.put` up to the comparison of id and version |
| `Trigger`, `TriggerFails` | `trigger_gitlab_pipeline` |
| `InsertDeployment` | `create_and_commit_deployment` |
| `PostRequery`, `PutRequery` | reading the row back, by name or by pipeline |
| `Respond` | the 202 |
| `DeleteCheck`, `Undeploy` | `Describe.delete` |
| `ReceiveHook` | `Deployment.post` and the start of `update_status_post_process_if_applicable` |
| `PollLookup`, `PollAsk`, `PollFallback` | `Deployment.get` and the call of GitLab |
| `SetStatus` | the first commit |
| `FindProcess`, `InsertProcess`, `RequeryProcess` | the process lookup, insert and re-query |
| `Overwrite`, `Link` | the two UPDATEs of the last commit |
| `Crash` | a worker is killed, or a database call raises |
| `PipelineEnds`, `PipelineRetried`, `LoseHook` | GitLab (external) |

Abstracted: the CWL and its metadata (only which deployment they come from is
kept), parsing, response bodies, and requests rejected before any effect. The
columns `job_id` and `pipeline_id` both identify a deployment, so one id stands
for both. Webhook calls about a pipeline that has not ended change nothing in
the handler and are left out.

### DeploymentLifecycle

Jobs are submitted for a key (id, version, deployer), decided once, and what is
on offer under a key was put there by successful jobs of that key. No handlers,
no GitLab. `ProcessDeployment` implements it under the mapping of its last
section (`outcome` is the status column, `offers` the sources of the deployed
rows of a key), provided GitLab restarts no pipeline.

### DeploymentHistory, BuildHistory

They extend `ProcessDeployment` and `BuildPipeline` with a history of what some properties
are conditional on: `cut`, the deployments whose registration a crash cut short, and
`raced`, whether two workers were ever at the same deployment or build, or registering two
deployments of one key. The history follows the steps of `Next` and guards none; the runs
of the two components and the theorems about these properties are about `HistorySpec`.

### BuildPipeline

A build is a row of table `build`; `pipeline` and `hooks` are GitLab's, as above.
The deployments are those of `DeploymentLifecycle`, of which it has an INSTANCE:
a build's deployment is one of its `Submit` steps, and `OtherDeployments` lets
jobs be decided, offered, withdrawn or submitted by members at any time.

| action | code |
|---|---|
| `Trigger`, `InsertBuild` | `BuildList.post`: the pipeline, then the row |
| `ReceiveHook` | `BuildWebhook.post` up to the comparison of statuses |
| `PollLookup`, `PollAsk`, `PollFallback` | `BuildStatus.get` and the call of GitLab |
| `SetStatus` | the commit of the status in `_update_build_status` |
| `Deploy`, `DeployFails`, `Requery` | `_deploy_ogc_process_for_build` calling `create_process_deployment`; a `ValueError` or `RuntimeError` is stored with the build |
| `DeployRaises` | any other exception (a CWL that is not as expected, null variables in the payload): it is logged, and the row keeps neither link nor error |
| `Record` | the commit of link or error |
| `Crash`, `PipelineEnds`, `PipelineRetried`, `LoseHook` | as above |

### JobQueues

| variable | code |
|---|---|
| `queue` | table `job_queue`; ids are never given twice, so a row is not inserted yet, there, or deleted |
| `assigned` | table `organization_job_queue`, as the number of rows per queue and organization |
| `worker` | the frames; `wants` and `orgs` are of the payload, `loaded` is what the handler read; a local nothing reads any more is reset |
| `crashed` | history: whether a handler has died half way |

| action | code |
|---|---|
| `CreateQueue` | `create_queue`, the INSERT |
| `PutRead`, `PutSave` | `JobQueueCls.put`; the UPDATE has the attributes that differ from the row read |
| `CheckDefault`, `Reset` | reading the row again, `_reset_queue_default` |
| `Clear`, `Assign` | the assignments of the queue |
| `DeleteClear`, `DeleteRow` | `delete_queue` |
| `AddCheck`, `Remove` | POST and DELETE of an organization's queue |
| `OrganizationDeleted` | the part of `delete_organization` that touches assignments |
| `Fail` | a row that is gone, a foreign key |

`UserQueues` and `ChosenQueues` are `get_user_queues` and
`validate_or_get_queue`. A queue is identified with its name (nothing keeps names
unique; the admin API finds queues by id), and a payload names an organization
once. The guest flag of a queue is read only by the choice of a
queue; `GuestTiers` bounds the values it is given.

### Organizations

| variable | code |
|---|---|
| `org` | table `organization`: not inserted yet, its parent, or deleted |
| `members` | table `organization_membership`, as the number of rows per organization and member: nothing makes a membership unique |
| `held` | which of the tables `organization_job_queue` and `organization_s3_access` have rows of the organization |
| `worker` | the frames; `wants` and `adds` are of the payload, `adds` as the number of times its list of members names each |
| `overlapped` | history: whether two requests have ever run at once |
| `misplaced` | history: whether an update has asked for a parent that makes no hierarchy |

| action | code |
|---|---|
| `Create`, `AddMembers` | POST of an organization: the row, then one INSERT with a row for each entry of the payload's members, so a member named twice gets two |
| `PutRead`, `PutSave` | `Organization.put`; the UPDATE has the parent only when it differs from the one read |
| `ClearMembers` | the first deletion of `update_organization` and of `delete_organization` |
| `DeleteRead`, `ClearQueues`, `ClearAccess`, `DeleteRow` | `Organization.delete` and `delete_organization` |
| `JoinCheck`, `Leave` | POST and DELETE of a membership |
| `Grant` | queues and S3 access of the organization given and taken by other components |
| `Fail` | a row that is gone, a foreign key |

`Ancestors` and `Listed` are the recursive view `org_tree`, as a closure: what is
above an organization is what every set closed under taking parents has to hold.
`Repeats` bounds how often a payload names a member, which the code does not.
Names and the job limits, which nothing enforces, are left out, and so is who may
ask: callers are maintainers or administrators.

### AlgorithmRegistration

| variable | code |
|---|---|
| `commit` | every commit made, here or elsewhere: its files and what it descends from |
| `branch`, `pipeline` | GitLab: the head of the branch, and the pipelines due or started (external) |
| `clone` | the directory `REPO_PATH/REPO_NAME` that all workers of a host share: head, index and files |
| `answer` | what each registration was answered |
| `worker` | the frames |
| `overlapped` | history: whether two workers have ever been registering at once |

| action | code |
|---|---|
| `Register`, `RemoveClone`, `Clone` | `Register.post` up to `git_clone`: the directory is removed, then cloned |
| `ChooseQueue`, `Refuse` | the checks of the payload in the middle of the handler |
| `CleanUp` | `clean_up_git_repo`: the specs of earlier registrations leave the index and the directory |
| `WriteHysdsIo`, `WriteJobSpec`, `WriteConfig`, `WriteSubmission` | the files of the request |
| `Add`, `Commit`, `Push`, `ReadHead` | `update_git_repo` |
| `PollAnswers`, `PollRaises` | `get_git_pipeline_status`, a loop without a bound |
| `Raise`, `Crash` | a step that finds the directory changed under it, or loses a file to a worker that removes or clones it meanwhile (`Disturbed`); a worker that dies |
| `StartPipeline`, `OthersPush` | GitLab, and other committers (external) |

A file's body is identified with the request that wrote it. The templates and the
validation of the request are left out.

### Jobs

| variable | code |
|---|---|
| `job` | HySDS: the jobs Mozart accepted; `"unseen"` before its index shows them, `"purged"` after a purge (external) |
| `member_job` | the table of that name |
| `worker` | the frames; the last answer of a worker stays until its next request |
| `asked` | history: the jobs somebody asked to cancel before they ended |

| action | code |
|---|---|
| `Submit`, `SubmitJob`, `SubmitRefused`, `SubmitFails` | `Submit.post`, `ExecuteJob.post`, `mozart_submit_job` |
| `RecordJob`, `RecordFails` | `_log_job_submission` |
| `Cancel`, `ReadStatus`, `SubmitCancel`, `CancelFails` | `StopJobs.post` and `Status.delete`: the status decides between purge and revoke |
| `Poll` | `poll_for_completion` |
| `Ask`, `CheckExists`, `ReadRecord`, `ReadResult`, `ReadMetrics`, `ReadDetails` | the requests that read a job: OGC in two calls (`"read"`), DPS in one (`"readDps"`); of a job without a record OGC says that it is missing, and DPS raises (`RecordReplies`) |
| `CallFails`, `Crash` | Mozart cannot be reached; a worker dies |
| `Index`, `Start`, `EndJob`, `EndCancel` | HySDS (external): a cancel job removes or stops its job when it runs |

### JobListing

`request` is the one list that is being made, `record` what HySDS has of each job.
`ListJobs` is the page Mozart gives, `ReadInfo` one call of `get_jobs_info`, `AnswerList`
the filters of `ogc_process_util.py`; jobs are queued, start, end and are removed
between any two of them, and `Tick` lets time pass. `HysdsStatus` and `OgcStatus` are
the tables of `ogc_translate.py`, `Intersects` is `job_intersects_datetime_range`,
`Listed` the whole of the filters. `ListsWhatWasAsked` compares `Listed` with what the
filters mean (`MeetsFilters`: some moment of the job's run is one the filter asks for).
Formats are left out, up to what comes of parsing them. Of the filter's dates that is both
ends, either, or none for text that is no date. Of a job's own times it is `readable`:
`Jobs.get` gives `strptime` a format with a fraction of a second, so times such as
`2023-01-01T12:01:00Z`, the form of `test_ogc.py`, raise, and the job is left out of every
list with a filter by time. An interval that ends before it starts is not looked at.

### Members

| variable | code |
|---|---|
| `member` | table `member`: email, status, and the GitLab account recorded |
| `approved` | table `pre_approved`; a domain stands for `*@domain` |
| `gitlab` | GitLab's accounts (external) |
| `token` | table `personal_access_token` |
| `worker` | the frames |
| `owners`, `synced` | history: who ever had an email; the members whose last change of status came to its end alone |

| action | code |
|---|---|
| `Approve`, `Disapprove` | pre-approved emails of `admin.py` |
| `SignUp`, `CheckEmail`, `CheckApproved`, `Insert` | `Member.post` |
| `FirstLogin` | the row that a first login makes |
| `ChangeEmail`, `Update` | `Member.put` |
| `ChangeStatus`, `CommitStatus` | `MemberStatus.post`: the commit, before GitLab is told |
| `FindAccount`, `CreateAccount`, `Unblock`, `Block`, `CreateToken`, `RecordAccount` | `sync_gitlab_account` and its calls; `Unblock` and `Block` may be refused without a word |
| `AskToken`, `CreatePat`, `Deactivate` | the tokens of `gateway.py` |
| `Abort` | a request is cut short anywhere |

`Authenticates` is the look-up of a token's member by its email in `security.py`.

### Sessions

The sessions of one member: `exists` and `urs` are the member's row and its token,
`session` the table of that name, `cache` what each process remembers
(`_edl_token_expiration_cache`), `broker` the token Keycloak has. A token stands for the
time at which it expires.

| action | code |
|---|---|
| `Jwt`, `CreateMember`, `ReadCreated` | a request with a JWT, whose member may be made on the way |
| `CheckCache`, `Fetch`, `FetchFails`, `FetchRaises` | `refresh_urs_token` up to the broker's answer, which may be lost, name no expiration (the memory stays as it is), or name one that is no time and raises |
| `StoreToken`, `StoreFails` | the commit of the token; when it fails, the log line reads the member again and may raise |
| `InsertJwt` | the INSERT of the JWT's session, after and apart from the token |
| `Cas`, `Validate`, `ReadMember`, `StoreMember`, `InsertSession` | a request with a ticket: `validate`, `start_member_session` |
| `Restart` | a process is replaced by one that remembers nothing |
| `Fail`, `Tick`, `Login` | an exception; time; the member logs in anew at Keycloak |

`suspect` (history) are the processes whose memory is not known to be about the token of
the row. An `expires_in` is taken to count from the broker's reply; the code counts from
shortly before the call. For ESA's users CAS's token is replaced by the one of a system
account, which may have expired (`CasTokens`).

## 4. Runs

Each `MC` module gives the constants their values, each `.cfg` chooses: `MCProcessDeployment`
with `PD*`, `MCBuildPipeline` with `BP*`, `MCJobQueues` with `JQ*`, `MCOrganizations` with
`Org*`, `MCAlgorithmRegistration` with `AR*`, `MCJobs` with `Jobs*`, `MCJobListing` with
`JL*`, `MCMembers` with `MB*`, `MCSessions` with `SE*`.

| run | instance | what it shows |
|---|---|---|
| `pd_safe` | 2 workers, 2 members, 1 name, 2 pipelines, 4 rows, crashes | `ImplementsLifecycle`; links are the deployer's own; only what was built is offered; a success whose registration no crash cut short is registered; one deployed row per key unless two workers raced; undeployed for good; the inductive invariant |
| `pd_liveness` | 2 workers, 1 pipeline that may be run again, fairness | lost webhooks keep no deployment from its end, nor a success from its process |
| `bp_safe` | 2 workers, 1 build, 2 jobs, 2 names, polls, crashes, restarted pipelines, fairness | only what was built is deployed; links name a deployment of the built process; an ended build gets a final status; unless two workers raced it is deployed once; the inductive invariant |
| `bp_poll_loses_deployment` | 2 workers, polls, no crash, nothing raised by the deployment itself | violation: a poll that brings the success loses the deployment |
| `jq_safe` | 2 workers, 2 queues, 1 organization, crashes, fairness | two defaults do not outlive the handlers that made them and, once updates stop, become one, unless a handler dies; the inductive invariant |
| `org_safe` | 2 workers, 3 organizations, 1 member that a payload may name twice, crashes | sensible moves, one at a time, keep every organization listed; deletions fail only for children; racing joins leave at most one payload's rows per worker; the inductive invariant |
| `ar_safe` | 2 workers, 2 requests, 2 other commits, 2 algorithms, crashes, fairness | without overlap what is pushed is whole and what is answered is the caller's; with it, nothing leaves the branch, and every registration ends but one that waits for a commit another's push took along; the inductive invariant |
| `jobs_safe` | 2 workers, 1 member, 2 job ids, crashes, fairness | a dismissal that was waited for is one; what ended is kept; every request ends; the inductive invariant |
| `jobs_poll` | 1 worker, 1 member, 2 job ids | violation: the wait for a cancel ends before the cancel job is in the index |
| `jl_safe` | 2 jobs, 3 points in time, 31 filters | a list has exactly the jobs of its page that ran as asked and, for a filter by time, have times that parse, with the status asked for or a later one |
| `mb_safe` | 2 workers, members, emails and accounts, 1 token | accounts are the member's own and follow the status; tokens are their maker's |
| `se_safe` | 2 processes, 1 ticket, 4 points in time | the broker is skipped only for a token that lasts, by a process whose memory is of the row's token; the inductive invariant |

Bounds. Two workers give every interleaving of two handlers; four are deployed. The safety
properties do not depend on the number: the theorems of section 6 are for any. The liveness
properties may, and two of them did: with three workers a registration can wait for ever, and
updates can keep two queues default. `RegistrationEnds` and `DefaultsSettle` say so, and
`ARThreeWorkers.cfg` (1.9 million states, without refusals and deaths; liveness as the
invariant `OnlyTheWaitStops`: a worker that cannot go on waits for a pipeline that is due, or
for one that never will be) and `JQThreeWorkers.cfg` (0.3 million states) check them with
three; they are no runs, as the first comes near the time a run has. Two pipelines let two deployments of one process meet, of one member or of
two. A deployment inserts at most one row per handler that registers it, so four rows for
two pipelines never run out. For builds, one build and two jobs are enough for a build's
deployment to meet another of the same process or of another. `FewHooks` keeps one call
about an ending on its way at a time, besides one that says the pipeline runs: a call may
still be late (in a worker), repeated, or overtaken by the other; `FewOutcomes` lets jobs
that are decided fail, as no step of a build reads how a job was decided. Two queues are
the least that can both be default. Three organizations are the least with a root and two
that can be moved below each other; a payload names a member twice or not at all (`Repeats`; a join brings one row), and
one organization has members at a time (`OneHasMembers`), as no step looks at those of two; `Granted` bounds which of them get queues and S3
access, and `Misplaced` which of them an update may give a parent that makes no hierarchy.
Two registrations of two algorithms, one of which the branch already holds, can mix in
every way two can. Two job ids are a job and the cancel of it, while the second worker
reads or cancels the job as well. Three points in time give a job
and an interval every relative position, ends equal included, as `jl_safe` takes every
interval over them, open or not; `Unanswered` stops at an answer, past which no property looks
and after which the next request starts as the first one. In `mb_safe` `NotHandedOn` stops where an email has gone
from one member to another, since each property but the invariant is about before. Four
points in time let a token (lifetime 2, buffer 1) and a session (2) lapse and be renewed.
Everything but time is compared for equality only, so runs without liveness use symmetry
where it pays.

`CHECK_DEADLOCK FALSE`: builds, jobs, requests to register, and the ids of queues and
organizations are finite, and the service really rests when all are finished and no
request comes.

Fairness. A handler that has started goes on (weak fairness of `Continue` in every
specification that has fairness: a worker is a running process). A client that waits for
a deployment or a build polls it again and again, and some poll gets an answer from GitLab
(strong fairness of `PollLookup` and `PollAsk` for each: the answer to the POST tells the
client to monitor that link). Where workers die (`bp_safe`), not every handler dies just
before it writes (strong fairness of `SetStatus`). GitLab starts the pipelines that are
due, and HySDS goes on with the jobs it accepted (weak fairness of `StartPipeline` and
`HySDS`): both are services whose work does not wait for the API. Nothing is assumed of
webhooks.

## 5. Findings

Each violation run checks one sentence that a comment, docstring or test says of
the program, and TLC finds a behaviour of the code that does otherwise.
`PROJECT.json` quotes each.

* `bp_poll_loses_deployment`: a poll has no request payload; when it brings the
  success, the deployment raises after the status was committed, and the webhook that
  comes later finds the build finished.
* `jobs_poll`: a job that Mozart accepted has no status until the index shows it, and the
  loop that waits for the end of a cancel job takes that for its end.

The modules state more that the code does not keep, each with a configuration in which TLC
finds it violated within a minute (`tlc -config PDForeignJob.cfg MCProcessDeployment.tla`):

| configuration | property | what happens |
|---|---|---|
| `PDDuplicatePost.cfg` | `RefusesDuplicatePost` | the duplicate check looks at the first deployed process of an id and version, whoever deployed it, so a member's second POST passes when another member's row comes first (`test_ogc.py:255` expects a 409) |
| `PDForeignJob.cfg` | `AnswersOwnJob` | a POST reads its deployment back by id, version and status, and may answer with the job of another accepted deployment |
| `JQUnnamedQueue.cfg` | `UnnamedGetsDefault` | with a job type and no queue name, a queue object is looked for among names (`job_queue.py:248` promises the default queue) |
| `ARSharedClone.cfg` | `PushedIsWholeAlways` | two registrations at once mix their files in the directory they share |
| `ARWaitsForEver.cfg` | `NoneWaitsForEver` | with three workers in the directory, one reads as its own the commit of the second, and the third pushes it below its own: GitLab knows the commit and starts no pipeline for it, so `github_util.py:70` loops for ever |
| `ARSubmission.cfg` | `SubmissionIsPushed` | `job-submission.json` is written for the CI and never added to the commit |
| `JQUpdatesGoOn.cfg` | `DefaultsSettleAnyway` | with three workers and queues, an update that unsets a default makes the worker that owes the reset pass it by, and the next sets the default again: two defaults stay as long as updates go on |
| `JLWholeSecond.cfg` | `ListsAllThatMatch` | a job whose times end in `Z` without a fraction is left out of every list with a filter by time, however it ran |
| `MBWildcard.cfg` | `WildcardApproves` | the entry `*@domain` approves only emails with one character before the `@` |
| `SERevalidate.cfg` | `ValidatedIsSaved` | a ticket whose session has lapsed is validated, and its new session has the key of the old one: the INSERT fails |
| `SERefresh.cfg` | `RefreshesInTime` | a process remembers when a token expires that the row no longer holds, and leaves one that is about to expire |

## 6. Proofs

### Process deployment

`ProcessDeploymentProofs` proves, from the assumptions on the constants alone
(`NoneAssumption`, `SwitchAssumption`, `RowAssumption`), with crashes and
restarted pipelines allowed:

* `Invariance`: `Spec => []IInv`
* `TypeCorrect`, `LinksAreOwn`, `OffersAreBuilt`, `AnswersAreOfTheName`: the
  type invariant, `LinkIsOwn`, `OffersOnlyBuilt` and `AnswersSameName`;
* `UndeployedStays`: the action property `UndeployedForGood`;
* `UncutIsSafe`, `UniqueIsSafe`: `UncutIsRegistered` and `UniqueUnlessRaced`, of
  `HistorySpec`;
* `Implements`: `Retryable = FALSE` implies that `Spec` implements `DeploymentLifecycle`.

None of these is inductive alone. A handler acts on locals it read several
steps earlier, so `IInv` adds what each frame knows: a worker about to insert a
deployment is the only one with that pipeline (`SoleInserter`); a worker that
registers a success speaks of a pipeline that has succeeded, and the row it is
about to overwrite or link stands for its deployment (`Agrees`); a webhook that
says "success" is true (`TablesAgree`). The steps rest on one monotonicity fact,
`TablesGrow`: rows never lose their key, and a pipeline that has succeeded is
not restarted. One lemma per action shows that the frame it moves still agrees
with the tables; `AgreesStable` shows it of the others.

`HistoryInv` makes the two properties of the history inductive. A success is registered by
whoever is at it, so `UncutIsRegistered` needs that only a poll or a webhook is at a
registration and that its second UPDATE comes after the link is written
(`RegistersByStatus`); and a key has one deployed row because a handler about to insert a row
would insert the only one (`SoleRegistrant`), which another handler could spoil only by
racing. `StatusMoves` lists how a worker can get to a step of a registration, so that each part
of the invariant has a case per row of that list rather than one per action.

The refinement needs one more invariant, `Settled`: a finished row, a webhook under way and
what a handler has read of an ended pipeline all say what the pipeline says, for good. It
is where `Retryable = FALSE` enters: after a restart a failed deployment may succeed, which
`DeploymentLifecycle` does not allow, and the code does. One lemma per step that is not a
stutter gives the abstract step: `SubmitStep`, `DecideStep`, `InsertOffers`,
`OverwriteOffers`, `UndeployWithdraws`; `LinkHides` shows that the link is not seen.

### Builds

`BuildPipelineProofs` proves, with polls, crashes and restarted pipelines allowed:

* `Invariance`: `Spec => []IInv`, and from it `TypeCorrect`, `DeployedIsBuilt`
  (`OnlyBuiltIsDeployed`) and `LinksAreOfBuiltProcess` (`LinkIsOfBuiltProcess`);
* `HistoryInvariance` and `DeployedOnce` (`DeploysOnceUnlessRaced`), of `HistorySpec`;
* `HooksDeploy`: with `MayPoll`, `MayCrash` and `MayRaise` false, `SuccessIsDeployed`, the
  property that `bp_poll_loses_deployment` finds violated. Without polls all who report have
  the payload (`ByHook`), and who commits a success goes on until a link or an error is
  stored. Each of the three assumptions is needed: the poll has no payload, a worker may die
  after the commit, and of what a deployment raises only `ValueError` and `RuntimeError` are
  stored (`build.py:128`), the rest is logged (`build.py:416`).

`IInv` adds what each frame knows (`Agrees`): who brings a success to a row brings one that
GitLab reported, and the job it is about to record is of the build's process; a success is
never taken back, as only pipelines that ended otherwise are run again (`TablesGrow`). A job's
key stays what it was submitted for, which is all that is used of the deployments, so the
theorems hold for whatever implements `DeploymentLifecycle`.

`DeployedOnce` rests on `DeploysFirst`: as long as nobody raced, a row that has a link or an
error is `successful`, hence final, and a handler works on a row that has neither.
`ReportMoves` lists how a handler can get to a step, `Writers` who changes a row; together
they show that the only writer of the row is the handler that is at it (`SoleWriter`).

### Job queues

`JobQueuesProofs` proves `Invariance: Spec => []IInv`, `TypeCorrect` and
`OneDefault: Spec => []AtMostOneDefault`, with crashes (what is claimed of
defaults is claimed as long as `crashed` is false), from
`QueueNoneAssumption`, `InputAssumption` and `QueueRowAssumption`. The number of
defaults is not inductive: a handler makes its queue default first and resets the
others later. `DefaultsAreSettled` is: of any two defaults, some worker is still
settling one. A step makes at most one queue default and its worker then settles
that one (`OneNewDefault`); a worker stops settling a queue when it finds that it
is no default or gone, or after a reset, which leaves no second default.

### Organizations

`OrganizationsProofs` proves, with crashes, from `OrgAssumption` (among it that
there are finitely many workers), `OrgRowAssumption` and `NoOpAssumption`:

* `Invariance`, `TypeCorrect`;
* `RowsBounded: Spec => []MembershipsBounded`;
* `DeletionFailsForChildren: Spec => []OnlyChildrenKeep`;
* `UpdateLeavesItsMembers: Spec => UpdateIsExact`, an update that runs alone leaves as many
  rows of each member as its payload names it times;
* `HierarchyInvariance: Spec => []HierarchyInv` and
  `EveryOrganizationIsListed: Spec => []HierarchyIsListed`.

The rows of a membership alone are not inductive: two workers may both be about
to insert some. `RowsAndPending` bounds the rows, together with `Repeats` for each pending
insert, by `Repeats` for each worker. A worker becomes pending only while there is no row,
or makes sure there is none, and then nothing but the workers themselves bounds the sum; an
insert turns a pending one into the rows of its payload; every other step lets neither grow
(`RowsStay`). `Repeats` is any number, so the bound is about the workers and not about
payloads. The other two need `StaysCleared`, what each frame knows to be
deleted, which in turn needs `Alone`: without overlap only the worker that moves
is not idle (`OneMoves`).

That every organization is listed follows from `Rooted`: the root is above every
organization. `Ancestors` is defined by closed sets, so the proof needs no
induction along the hierarchy. From a set that is closed after a step one makes a
set that was closed before it and so holds the root: without the new organization
(`CreateRooted`), cut down to what is above the new parent (`MoveRooted`), or as
it is (`DeleteRooted`). The move a handler is about to make must still be sensible
when it makes it (`MoveIsSensible`), which overlapping requests would break.

### Algorithm registration

`AlgorithmRegistrationProofs` proves `Invariance`, `PushedWhole`, `AnswersOwn` and
`NothingLost`, with workers that die, are refused or overlap (what is claimed of a
registration alone is claimed while `overlapped` is false). `IInv` says how far the
directory is for the one worker that uses it (`Progress`): between two of its steps
nobody else touches it, so after `CleanUp` the index holds no other spec, and after the
writes it holds its own. `HistoryOK` says that what a commit descends from is closed under
descent, which is why a push that GitLab accepts takes nothing off the branch, and why a
push that it rejects leaves a commit the poll gets a 404 for.

### Jobs

`JobsProofs` proves `Invariance`, `DismissalIsDone`, `Kept`, and `Recorded`
(`AnsweredIsRecorded`: who is told that DPS accepted a job is on record as its submitter).
`CancelsOK`: a cancel job is always about a job that somebody asked to cancel before it
ended, so it cannot touch one that had ended by then; and a cancel job that completed
leaves its job ended or removed. `FrameOK` keeps for each request what it has read: a status only moves
forward, so what was read bounds what is.

### Listing

`JobsProofs` also proves `ListingInvariance`, `Exact` and `AsAsked` of `JobListing`, for times and intervals of
any size. `Exact` is about the jobs whose times parse: of the others it says that a filter by
time leaves them out. Each job of the page has the status it was listed for or a later one
(`StillAsked`), and a record has a start not after its end (`RowOK`), which the four
comparisons of `Intersects` rely on.

### Members

`MembersProofs` proves `Invariance`, `AccountsAreOwn`, `AccountsFollow` and
`TokensAreTheMakers`. No property is inductive alone. `OneAccount` and `Owned` give each
account to one username while no email is handed on; `FrameOK` and `AloneOK` say what a
handler knows of the account it works on, and that it is as the status says once it has
been told; `Apart` keeps two handlers that are each alone about different members;
`SyncedOK` ties the recorded account to the status.

### Sessions

`SessionsProofs` proves `Invariance` and `SkippingIsSound` (`SkipsOnlyFresh`), for any
durations and any number of processes. `CacheOK`: a process that is not suspect remembers an
expiration not after that of the row's token, or of the token it is about to store; what a
request has read of the row is not after it either. That a refresh does no harm to the
request it is part of is not a theorem and not true: an expiration that is no time, the log
line of a failed commit and the INSERT of the session can each raise.

### Only model-checked

Liveness: `EndedIsFinished`, `SuccessGetsLinked`, `EndedBuildIsFinished`, `DefaultsSettle`,
`RegistrationEnds` and `RequestsEnd`, which TLAPS cannot prove under fairness. All other
properties of the passing runs are theorems.

## 7. Not modelled

See `PROJECT.json` "components" for the reason of each. Proxies and formatters
keep no state. Left out of modelled parts: secrets, SSH keys and the profile of members,
the publication and deletion of algorithms, the access paths of S3, and the credentials of
Earthdata's buckets, single statements or calls that no other step reads. CAS, Keycloak,
HySDS, GitLab and AWS are external: they appear only as what the code sees of them.
