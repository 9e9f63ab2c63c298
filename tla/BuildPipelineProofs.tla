------------------------ MODULE BuildPipelineProofs ------------------------
(***************************************************************************)
(* Proofs about BuildPipeline and its history, for any number of workers,  *)
(* members, builds, processes and deployment jobs, whatever becomes of the *)
(* jobs meanwhile, with or without polls, retries and crashes.             *)
(***************************************************************************)
EXTENDS BuildHistory, TLAPS

-----------------------------------------------------------------------------
(***************************************************************************)
(* How the tables evolve: pipelines and rows stay known, a success is      *)
(* final, and a job keeps the key it was submitted for.                    *)
(***************************************************************************)

TablesGrow ==
  /\ \A b \in Builds :
       /\ pipeline[b] # None => pipeline'[b] # None
       /\ pipeline[b] = "success" => pipeline'[b] = "success"
       /\ build[b] # None => build'[b] # None
  /\ \A j \in Jobs : outcome[j] # "absent" => outcome'[j] # "absent" /\ key'[j] = key[j]

\* OnlyBuiltIsDeployed and LinkIsOfBuiltProcess, of the rows alone.
RowsOK ==
  \A b \in Builds :
    build[b] # None =>
      /\ build[b].link # None \/ build[b].error => pipeline[b] = "success"
      /\ build[b].link # None => DeploysProcessOf(build[b].link, b)

LEMMA IsRowsOK ==
  ASSUME OnlyBuiltIsDeployed, LinkIsOfBuiltProcess
  PROVE  RowsOK
BY DEF OnlyBuiltIsDeployed, LinkIsOfBuiltProcess, RowsOK, DeploysProcessOf

LEMMA RowsStayOK ==
  ASSUME IInv, TablesGrow, UNCHANGED build
  PROVE  RowsOK'
<1>1. RowsOK
  BY IsRowsOK DEF IInv
<1>2. ASSUME NEW b \in Builds, build[b] # None, build[b].link # None
      PROVE  build[b].link \in Jobs
  BY <1>2 DEF IInv, TypeOK, BuildRow
<1> QED BY <1>1, <1>2 DEF RowsOK, TablesGrow, DeploysProcessOf

\* What a waiting frame says of the tables stays true while they grow.
LEMMA AgreesStable ==
  ASSUME TablesGrow, NEW f \in Frame, Agrees(f), f.pc = "insert" => build'[f.build] = None
  PROVE  Agrees(f)'
<1>1. f.pc = "insert" =>
        /\ f.user \in Users /\ f.build \in Builds
        /\ pipeline'[f.build] # None /\ build'[f.build] = None
  BY DEF Agrees, TablesGrow
<1>2. f.pc \notin {"idle", "insert"} => f.build \in Builds /\ build'[f.build] # None
  BY DEF Agrees, TablesGrow
<1>3. f.pc = "setStatus" =>
        f.got \in GitLabStatus /\ (f.got = "success" => pipeline'[f.build] = "success")
  BY DEF Agrees, TablesGrow
<1>4. f.pc = "record" /\ f.job # None => DeploysProcessOf(f.job, f.build)'
  BY DEF Agrees, TablesGrow, Frame, DeploysProcessOf
<1> QED BY <1>1, <1>2, <1>3, <1>4 DEF Agrees

LEMMA IdleFrame == Idle \in Frame /\ Idle.pc = "idle" /\ Idle.job = None
BY DEF Idle, Frame

LEMMA EnterEffect ==
  ASSUME TypeOK, NEW w \in Workers, NEW f \in Frame, Enter(w, f)
  PROVE  /\ worker' \in [Workers -> Frame] /\ worker'[w] = f
         /\ \A v \in Workers : v # w => worker'[v] = worker[v]
BY DEF TypeOK, Enter

\* A worker's step keeps the invariant if its new frame agrees with the tables it
\* leaves, and is the only one to insert a row.
LEMMA FrameStep ==
  ASSUME IInv, NEW w \in Workers, NEW f \in Frame, Enter(w, f),
         TypeOK', TablesGrow, TablesAgree', RowsOK', Agrees(f)',
         \A v \in Workers \ {w} : At(v, "insert") => build'[worker[v].build] = None,
         f.pc = "insert" => \A v \in Workers \ {w} : At(v, "insert") => worker[v].build # f.build,
         f.pc \in {"deploy", "requery", "record"} => pipeline'[f.build] = "success"
  PROVE  IInv'
<1>1. worker'[w] = f /\ \A v \in Workers \ {w} : worker'[v] = worker[v]
  BY EnterEffect DEF IInv
<1>2. SoleInserter'
  BY <1>1 DEF IInv, SoleInserter, At
<1>3. ASSUME NEW v \in Workers PROVE Agrees(worker[v])'
  <2>1. CASE v = w
    BY <1>1, <2>1 DEF Agrees, DeploysProcessOf
  <2>2. CASE v # w
    <3>1. PICK g \in Frame : g = worker[v]
      BY DEF IInv, TypeOK
    <3>2. Agrees(g) /\ (g.pc = "insert" => build'[g.build] = None)
      BY <2>2, <3>1 DEF IInv, At
    <3>3. Agrees(g)'
      BY <3>2, AgreesStable
    <3> QED BY <1>1, <2>2, <3>1, <3>3 DEF Agrees, DeploysProcessOf
  <2> QED BY <2>1, <2>2
<1>4. ASSUME NEW b \in Builds, Deploying(b)' PROVE pipeline'[b] = "success"
  <2>1. PICK v \in Workers : worker'[v].build = b /\ worker'[v].pc \in {"deploy", "requery", "record"}
    BY <1>4 DEF Deploying
  <2>2. CASE v = w
    BY <1>1, <2>1, <2>2
  <2>3. CASE v # w
    <3>1. Deploying(b)
      BY <1>1, <2>1, <2>3 DEF Deploying
    <3> QED BY <3>1 DEF IInv, OnlyBuiltIsDeployed, TablesGrow
  <2> QED BY <2>2, <2>3
<1>5. OnlyBuiltIsDeployed' /\ LinkIsOfBuiltProcess'
  BY <1>4 DEF OnlyBuiltIsDeployed, LinkIsOfBuiltProcess, RowsOK, DeploysProcessOf
<1> QED BY <1>2, <1>3, <1>5 DEF IInv

\* Steps of GitLab and of the deployments: no frame moves, no row is written.
LEMMA OutsideStep ==
  ASSUME IInv, UNCHANGED <<worker, build>>, TypeOK', TablesGrow, TablesAgree'
  PROVE  IInv'
<1>1. SoleInserter'
  BY DEF IInv, SoleInserter, At
<1>2. ASSUME NEW v \in Workers PROVE Agrees(worker[v])'
  <2>1. PICK g \in Frame : g = worker[v]
    BY DEF IInv, TypeOK
  <2>2. Agrees(g) /\ (g.pc = "insert" => build'[g.build] = None)
    BY <2>1 DEF IInv, Agrees
  <2>3. Agrees(g)'
    BY <2>2, AgreesStable
  <2> QED BY <2>1, <2>3 DEF Agrees, DeploysProcessOf
<1>3. ASSUME NEW b \in Builds, Deploying(b)' PROVE pipeline'[b] = "success"
  <2>1. Deploying(b)
    BY <1>3 DEF Deploying
  <2> QED BY <2>1 DEF IInv, OnlyBuiltIsDeployed, TablesGrow
<1>4. RowsOK'
  BY RowsStayOK
<1>5. OnlyBuiltIsDeployed' /\ LinkIsOfBuiltProcess'
  BY <1>3, <1>4 DEF OnlyBuiltIsDeployed, LinkIsOfBuiltProcess, RowsOK, DeploysProcessOf
<1> QED BY <1>1, <1>2, <1>5 DEF IInv

\* A worker's step that writes nothing, but for the webhook it takes.
LEMMA ReadStep ==
  ASSUME IInv, NEW w \in Workers, NEW f \in Frame, Enter(w, f),
         UNCHANGED <<pipeline, build, outcome, key, offers>>, hooks' \subseteq hooks,
         Agrees(f), f.pc # "insert",
         f.pc \in {"deploy", "requery", "record"} => pipeline[f.build] = "success"
  PROVE  IInv'
<1>1. TypeOK' /\ TablesGrow /\ TablesAgree'
  BY EnterEffect DEF IInv, TypeOK, TablesGrow, TablesAgree
<1>2. RowsOK'
  BY <1>1, RowsStayOK
<1>3. Agrees(f)'
  BY <1>1, AgreesStable
<1>4. \A v \in Workers : At(v, "insert") => build'[worker[v].build] = None
  BY DEF IInv, Agrees, At
<1> QED BY <1>1, <1>2, <1>3, <1>4, FrameStep

LEMMA ReturnStep ==
  ASSUME IInv, NEW w \in Workers, Return(w),
         UNCHANGED <<pipeline, build, outcome, key, offers>>, hooks' \subseteq hooks
  PROVE  IInv'
BY IdleFrame, ReadStep DEF Return, Agrees

-----------------------------------------------------------------------------
(***************************************************************************)
(* One lemma per action.                                                   *)
(***************************************************************************)

LEMMA TriggerStep ==
  ASSUME IInv, NEW w \in Workers, NEW u \in Users, NEW b \in Builds, Trigger(w, u, b)
  PROVE  IInv'
<1> DEFINE f == [Idle EXCEPT !.pc = "insert", !.op = "post", !.user = u, !.build = b]
<1>1. /\ pipeline[b] = None /\ pipeline' = [pipeline EXCEPT ![b] = "running"]
      /\ hooks' = hooks \cup {<<b, "running">>} /\ Enter(w, f)
      /\ UNCHANGED <<build, outcome, key, offers>>
  BY DEF Trigger, deployments
<1>2. f \in Frame /\ f.pc = "insert" /\ f.user = u /\ f.build = b /\ f.job = None
  BY DEF Idle, Frame
<1> HIDE DEF f
<1>3. build[b] = None
  BY <1>1 DEF IInv, TablesAgree
<1>4. TypeOK'
  BY <1>1, <1>2, EnterEffect DEF IInv, TypeOK, GitLabStatus
<1>5. TablesGrow
  BY <1>1, BuildNoneAssumption DEF IInv, TypeOK, TablesGrow
<1>6. TablesAgree'
  BY <1>1, BuildNoneAssumption DEF IInv, TypeOK, TablesAgree
<1>7. RowsOK'
  BY <1>1, <1>5, RowsStayOK
<1>8. Agrees(f)'
  BY <1>1, <1>2, <1>3, BuildNoneAssumption DEF Agrees, IInv, TypeOK
<1>9. \A v \in Workers : At(v, "insert") => build'[worker[v].build] = None /\ worker[v].build # b
  BY <1>1 DEF IInv, Agrees, At
<1> QED BY <1>1, <1>2, <1>4, <1>5, <1>6, <1>7, <1>8, <1>9, FrameStep

LEMMA InsertBuildStep ==
  ASSUME IInv, NEW w \in Workers, InsertBuild(w)
  PROVE  IInv'
<1> PICK f : f = worker[w]
  OBVIOUS
<1> PICK row : row = [requester |-> f.user, status |-> "accepted", link |-> None, error |-> FALSE]
  OBVIOUS
<1>1. /\ f \in Frame /\ f.pc = "insert" /\ build' = [build EXCEPT ![f.build] = row]
      /\ Enter(w, Idle) /\ UNCHANGED <<pipeline, hooks, outcome, key, offers>>
  BY DEF IInv, TypeOK, InsertBuild, At, Return, deployments
<1>2. f.user \in Users /\ f.build \in Builds /\ pipeline[f.build] # None /\ build[f.build] = None
  BY <1>1 DEF IInv, Agrees
<1>3. row \in BuildRow /\ row.link = None /\ ~row.error
  BY <1>2 DEF BuildRow
<1>4. row # None
  BY <1>3, BuildRowAssumption
<1>5. build'[f.build] = row /\ \A b \in Builds \ {f.build} : build'[b] = build[b]
  BY <1>1, <1>2 DEF IInv, TypeOK
<1>6. TypeOK'
  BY <1>1, <1>2, <1>3, IdleFrame, EnterEffect DEF IInv, TypeOK
<1>7. TablesGrow
  BY <1>1, <1>4, <1>5 DEF TablesGrow
<1>8. TablesAgree'
  BY <1>1, <1>2, <1>5 DEF IInv, TablesAgree
<1>9. RowsOK'
  BY <1>1, <1>3, <1>5, IsRowsOK DEF IInv, RowsOK, DeploysProcessOf
<1>10. \A v \in Workers \ {w} : At(v, "insert") => build'[worker[v].build] = None
  BY <1>1, <1>5 DEF IInv, SoleInserter, Agrees, At
<1>11. Agrees(Idle)'
  BY IdleFrame DEF Agrees
<1> QED BY <1>1, <1>6, <1>7, <1>8, <1>9, <1>10, <1>11, IdleFrame, FrameStep

LEMMA ReceiveHookStep ==
  ASSUME IInv, NEW w \in Workers, NEW b \in Builds, NEW s \in GitLabStatus, ReceiveHook(w, b, s)
  PROVE  IInv'
<1>1. /\ <<b, s>> \in hooks /\ hooks' \subseteq hooks
      /\ UNCHANGED <<pipeline, build, outcome, key, offers>>
  BY DEF ReceiveHook, deployments
<1>2. CASE UNCHANGED worker
  <2>1. TypeOK' /\ TablesGrow /\ TablesAgree'
    BY <1>1, <1>2 DEF IInv, TypeOK, TablesGrow, TablesAgree
  <2> QED BY <1>1, <1>2, <2>1, OutsideStep
<1>3. CASE ~UNCHANGED worker
  <2> PICK f : f = [Idle EXCEPT !.pc = "setStatus", !.op = "hook", !.build = b,
                                !.read = build[b].status, !.got = s]
    OBVIOUS
  <2>1. build[b] # None /\ build[b].status \notin Finished /\ Enter(w, f)
    BY <1>3 DEF ReceiveHook, Pending
  <2>2. build[b].status \in {"accepted", "running"}
    BY <2>1 DEF IInv, TypeOK, BuildRow
  <2>3. f \in Frame /\ f.pc = "setStatus" /\ f.build = b /\ f.got = s /\ f.job = None
    BY <2>2 DEF Idle, Frame
  <2>4. s = "success" => pipeline[b] = "success"
    BY <1>1 DEF IInv, TablesAgree
  <2>5. Agrees(f)
    BY <2>1, <2>3, <2>4 DEF Agrees
  <2> QED BY <1>1, <2>1, <2>3, <2>5, ReadStep
<1> QED BY <1>2, <1>3

LEMMA PollStep ==
  ASSUME IInv, NEW w \in Workers,
         (\E b \in Builds : PollLookup(w, b)) \/ PollAsk(w) \/ PollFallback(w)
  PROVE  IInv'
<1>1. ASSUME NEW b \in Builds, PollLookup(w, b) PROVE IInv'
  <2> PICK f : f = [Idle EXCEPT !.pc = "ask", !.op = "poll", !.build = b, !.read = build[b].status]
    OBVIOUS
  <2>1. /\ build[b] # None /\ build[b].status \notin Finished /\ Enter(w, f)
        /\ UNCHANGED <<pipeline, hooks, build, outcome, key, offers>>
    BY <1>1 DEF PollLookup, Pending, deployments
  <2>2. build[b].status \in {"accepted", "running"}
    BY <2>1 DEF IInv, TypeOK, BuildRow
  <2>3. f \in Frame /\ f.pc = "ask" /\ f.build = b /\ f.job = None
    BY <2>2 DEF Idle, Frame
  <2>4. Agrees(f)
    BY <2>1, <2>3 DEF Agrees
  <2> QED BY <2>1, <2>3, <2>4, ReadStep
<1>2. CASE PollFallback(w)
  BY <1>2, ReturnStep DEF PollFallback, deployments
<1>3. CASE PollAsk(w)
  <2> PICK g : g = worker[w]
    OBVIOUS
  <2> PICK f : f = [g EXCEPT !.pc = "setStatus", !.got = pipeline[g.build]]
    OBVIOUS
  <2>1. g \in Frame /\ g.pc = "ask" /\ UNCHANGED <<pipeline, hooks, build, outcome, key, offers>>
    BY <1>3 DEF PollAsk, At, IInv, TypeOK, deployments
  <2>2. g.build \in Builds /\ build[g.build] # None /\ pipeline[g.build] \in GitLabStatus
    <3>1. g.build \in Builds /\ build[g.build] # None
      BY <2>1 DEF IInv, Agrees
    <3>2. pipeline[g.build] # None
      BY <3>1 DEF IInv, TablesAgree
    <3> QED BY <3>1, <3>2 DEF IInv, TypeOK
  <2>3. /\ f \in Frame /\ f.pc = "setStatus" /\ f.build = g.build
        /\ f.got = pipeline[g.build] /\ f.job = None
    <3>1. g.job = None
      BY <2>1 DEF IInv, Agrees
    <3>2. PICK s \in GitLabStatus : s = pipeline[g.build]
      BY <2>2
    <3>3. f = [g EXCEPT !.pc = "setStatus", !.got = s]
      BY <3>2
    <3> QED BY <2>1, <3>1, <3>2, <3>3 DEF Frame
  <2>4. Agrees(f)
    BY <2>2, <2>3 DEF Agrees
  <2>5. CASE Return(w)
    BY <2>1, <2>5, ReturnStep
  <2>6. CASE Enter(w, f)
    BY <2>1, <2>3, <2>4, <2>6, ReadStep
  <2> QED BY <1>3, <2>5, <2>6 DEF PollAsk
<1> QED BY <1>1, <1>2, <1>3

\* A row written over by one of the same identity.
LEMMA WriteRowStep ==
  ASSUME IInv, NEW w \in Workers, NEW f \in Frame, Enter(w, f), NEW b \in Builds, NEW row \in BuildRow,
         build[b] # None, build' = [build EXCEPT ![b] = row],
         UNCHANGED <<pipeline, hooks, outcome, key, offers>>,
         row.link # None \/ row.error => pipeline[b] = "success",
         row.link # None => DeploysProcessOf(row.link, b),
         Agrees(f), f.pc # "insert",
         f.pc \in {"deploy", "requery", "record"} => pipeline[f.build] = "success"
  PROVE  IInv'
<1>1. row # None
  BY BuildRowAssumption
<1>2. build'[b] = row /\ \A c \in Builds \ {b} : build'[c] = build[c]
  BY DEF IInv, TypeOK
<1>3. TypeOK' /\ TablesGrow /\ TablesAgree'
  BY <1>1, <1>2, EnterEffect DEF IInv, TypeOK, TablesGrow, TablesAgree
<1>4. RowsOK'
  BY <1>2, IsRowsOK DEF IInv, RowsOK, DeploysProcessOf
<1>5. Agrees(f)'
  BY <1>3, AgreesStable
<1>6. \A v \in Workers : At(v, "insert") => build'[worker[v].build] = None
  BY <1>2 DEF IInv, Agrees, At
<1> QED BY <1>3, <1>4, <1>5, <1>6, FrameStep

LEMMA MappedStatus ==
  \A s \in GitLabStatus :
    /\ Mapped(s) \in {"running"} \cup Finished
    /\ Mapped(s) = "successful" => s = "success"
BY DEF Mapped, GitLabStatus, Endings, Finished

LEMMA SetStatusStep ==
  ASSUME IInv, NEW w \in Workers, SetStatus(w)
  PROVE  IInv'
<1> PICK g : g = worker[w]
  OBVIOUS
<1> PICK b : b = g.build
  OBVIOUS
<1> PICK row : row = [build[b] EXCEPT !.status = Mapped(g.got)]
  OBVIOUS
<1> PICK f : f = [g EXCEPT !.pc = "deploy"]
  OBVIOUS
<1>1. /\ g \in Frame /\ g.pc = "setStatus" /\ UNCHANGED <<pipeline, hooks, outcome, key, offers>>
      /\ Enter(w, Idle) \/ (Enter(w, f) /\ Deploys(g))
  BY DEF SetStatus, At, IInv, TypeOK, Return, deployments
<1>2. /\ b \in Builds /\ build[b] # None /\ build[b] \in BuildRow /\ g.got \in GitLabStatus
      /\ g.got = "success" => pipeline[b] = "success"
  BY <1>1 DEF IInv, TypeOK, Agrees
<1>3. build' = [build EXCEPT ![b] = row]
  BY <1>2 DEF SetStatus, IInv, TypeOK
<1>4. row \in BuildRow /\ row.link = build[b].link /\ row.error = build[b].error
  BY <1>2, MappedStatus DEF BuildRow
<1>5. /\ row.link # None \/ row.error => pipeline[b] = "success"
      /\ row.link # None => DeploysProcessOf(row.link, b)
  BY <1>2, <1>4, IsRowsOK DEF IInv, RowsOK
<1>6. CASE Enter(w, Idle)
  BY <1>1, <1>2, <1>3, <1>4, <1>5, <1>6, IdleFrame, WriteRowStep DEF Agrees
<1>7. CASE Enter(w, f) /\ Deploys(g)
  <2>0. g.job = None
    BY <1>1 DEF IInv, Agrees
  <2>1. f \in Frame /\ f.pc = "deploy" /\ f.build = b /\ f.job = None
    BY <1>1, <2>0 DEF Frame
  <2>2. pipeline[b] = "success"
    BY <1>2, <1>7, MappedStatus DEF Deploys
  <2>3. Agrees(f)
    BY <1>2, <2>1 DEF Agrees
  <2> QED BY <1>1, <1>2, <1>3, <1>4, <1>5, <1>7, <2>1, <2>2, <2>3, WriteRowStep
<1> QED BY <1>1, <1>6, <1>7

LEMMA RecordStep ==
  ASSUME IInv, NEW w \in Workers, Record(w)
  PROVE  IInv'
<1> PICK g : g = worker[w]
  OBVIOUS
<1> PICK b : b = g.build
  OBVIOUS
<1> PICK row : row = Recorded(build[b], g.job)
  OBVIOUS
<1>1. /\ g \in Frame /\ g.pc = "record" /\ UNCHANGED <<pipeline, hooks, outcome, key, offers>>
      /\ Enter(w, Idle)
  BY DEF Record, At, IInv, TypeOK, Return, deployments
<1>2. /\ b \in Builds /\ build[b] # None /\ build[b] \in BuildRow /\ g.job \in Jobs \cup {None}
      /\ g.job # None => DeploysProcessOf(g.job, b)
  BY <1>1 DEF IInv, TypeOK, Agrees, Frame
<1>3. build' = [build EXCEPT ![b] = row]
  BY <1>2 DEF Record, IInv, TypeOK
<1>4. pipeline[b] = "success"
  BY <1>1, <1>2 DEF IInv, OnlyBuiltIsDeployed, Deploying
<1>5. row \in BuildRow /\ row.link \in {build[b].link, g.job}
  BY <1>2 DEF Recorded, BuildRow
<1>6. row.link # None => DeploysProcessOf(row.link, b)
  BY <1>2, <1>5, IsRowsOK DEF IInv, RowsOK
<1>7. Agrees(Idle)
  BY IdleFrame DEF Agrees
<1> QED BY <1>1, <1>2, <1>3, <1>4, <1>5, <1>6, <1>7, IdleFrame, WriteRowStep

\* A job submitted is new, and of the key it is submitted for.
LEMMA SubmitIsNew ==
  ASSUME IInv, NEW j \in Jobs, NEW k \in Names \X Users, Deployments!Submit(j, k)
  PROVE  /\ outcome' \in [Jobs -> {"absent", "accepted", "failed", "successful"}]
         /\ key' \in [Jobs -> (Names \X Users) \cup {None}]
         /\ UNCHANGED offers
         /\ \A i \in Jobs : outcome[i] # "absent" => outcome'[i] # "absent" /\ key'[i] = key[i]
         /\ \A i \in Jobs : outcome'[i] # "absent" => key'[i] \in Names \X Users
BY DEF Deployments!Submit, IInv, TypeOK, TablesAgree

LEMMA DeployStep ==
  ASSUME IInv, NEW w \in Workers, NEW j \in Jobs, Deploy(w, j)
  PROVE  IInv'
<1> PICK g : g = worker[w]
  OBVIOUS
<1> PICK b : b = g.build
  OBVIOUS
<1> PICK k : k = <<NameOf[b], build[b].requester>>
  OBVIOUS
<1> PICK f : f = [g EXCEPT !.pc = "requery"]
  OBVIOUS
<1>1. /\ g \in Frame /\ g.pc = "deploy" /\ Deployments!Submit(j, k) /\ Enter(w, f)
      /\ UNCHANGED <<pipeline, hooks, build>>
  BY DEF Deploy, At, IInv, TypeOK
<1>2. b \in Builds /\ build[b] # None /\ build[b] \in BuildRow
  BY <1>1 DEF IInv, TypeOK, Agrees
<1>3. k \in Names \X Users
  BY <1>2, NameAssumption DEF BuildRow
<1>4. f \in Frame /\ f.pc = "requery" /\ f.build = b /\ f.job = None
  <2>1. g.job = None
    BY <1>1 DEF IInv, Agrees
  <2> QED BY <1>1, <2>1 DEF Frame
<1>5. TypeOK'
  BY <1>1, <1>3, <1>4, EnterEffect, SubmitIsNew DEF IInv, TypeOK
<1>6. TablesGrow /\ TablesAgree'
  BY <1>1, <1>3, SubmitIsNew DEF TablesGrow, TablesAgree, IInv
<1>7. RowsOK'
  BY <1>1, <1>6, RowsStayOK
<1>8. Agrees(f)'
  BY <1>1, <1>2, <1>4 DEF Agrees
<1>9. pipeline'[f.build] = "success"
  BY <1>1, <1>2, <1>4 DEF IInv, OnlyBuiltIsDeployed, Deploying
<1>10. \A v \in Workers : At(v, "insert") => build'[worker[v].build] = None
  BY <1>1 DEF IInv, Agrees, At
<1> QED BY <1>1, <1>4, <1>5, <1>6, <1>7, <1>8, <1>9, <1>10, FrameStep

LEMMA RequeryStep ==
  ASSUME IInv, NEW w \in Workers, DeployFails(w) \/ Requery(w)
  PROVE  IInv'
<1> PICK g : g = worker[w]
  OBVIOUS
<1> PICK f : f = [g EXCEPT !.pc = "record"]
  OBVIOUS
<1>1. /\ g \in Frame /\ g.pc \in {"deploy", "requery"}
      /\ UNCHANGED <<pipeline, hooks, build, outcome, key, offers>>
  BY DEF DeployFails, Requery, At, IInv, TypeOK, deployments
<1>2. g.build \in Builds /\ build[g.build] # None
  BY <1>1 DEF IInv, Agrees
<1>3. pipeline[g.build] = "success"
  BY <1>1, <1>2 DEF IInv, OnlyBuiltIsDeployed, Deploying
<1>4. ASSUME NEW q \in Accepted(NameOf[g.build]), Enter(w, [g EXCEPT !.pc = "record", !.job = q])
      PROVE  IInv'
  <2> PICK h : h = [g EXCEPT !.pc = "record", !.job = q]
    OBVIOUS
  <2>1. q \in Jobs /\ DeploysProcessOf(q, g.build)
    BY DEF Accepted, DeploysProcessOf
  <2>2. h \in Frame /\ h.pc = "record" /\ h.build = g.build /\ h.job = q
    BY <1>1, <2>1 DEF Frame
  <2>3. Agrees(h)
    BY <1>2, <2>1, <2>2 DEF Agrees
  <2> QED BY <1>1, <1>3, <1>4, <2>2, <2>3, ReadStep
<1>5. f.job = None
  <2>1. g.job = None
    BY <1>1 DEF IInv, Agrees
  <2> QED BY <1>1, <2>1 DEF Frame
<1>6. ASSUME Enter(w, f) PROVE IInv'
  <2>1. f \in Frame /\ f.pc = "record" /\ f.build = g.build
    BY <1>1 DEF Frame
  <2>2. Agrees(f)
    BY <1>2, <1>5, <2>1 DEF Agrees
  <2> QED BY <1>1, <1>3, <1>6, <2>1, <2>2, ReadStep
<1> QED BY <1>4, <1>6 DEF DeployFails, Requery

LEMMA GitLabStep ==
  ASSUME IInv, GitLab
  PROVE  IInv'
<1>1. ASSUME NEW b \in Builds, PipelineEnds(b) PROVE TypeOK' /\ TablesGrow /\ TablesAgree'
  <2> PICK s \in Endings : /\ pipeline[b] = "running"
                           /\ pipeline' = [pipeline EXCEPT ![b] = s] /\ hooks' = hooks \cup {<<b, s>>}
    BY <1>1 DEF PipelineEnds
  <2>1. UNCHANGED <<build, worker, outcome, key, offers>>
    BY <1>1 DEF PipelineEnds, deployments
  <2>2. s \in GitLabStatus /\ s # None
    BY BuildNoneAssumption DEF GitLabStatus, Endings
  <2> QED BY <2>1, <2>2 DEF IInv, TypeOK, TablesGrow, TablesAgree
<1>2. ASSUME NEW b \in Builds, PipelineRetried(b) PROVE TypeOK' /\ TablesGrow /\ TablesAgree'
  BY <1>2, BuildNoneAssumption
     DEF PipelineRetried, deployments, IInv, TypeOK, TablesGrow, TablesAgree, GitLabStatus
<1>3. ASSUME NEW h \in hooks, LoseHook(h) PROVE TypeOK' /\ TablesGrow /\ TablesAgree'
  BY <1>3 DEF LoseHook, deployments, IInv, TypeOK, TablesGrow, TablesAgree
<1>4. UNCHANGED <<worker, build>>
  BY DEF GitLab, PipelineEnds, PipelineRetried, LoseHook
<1> QED BY <1>1, <1>2, <1>3, <1>4, OutsideStep DEF GitLab

\* Jobs decided, offered, withdrawn or submitted by members directly.
LEMMA OtherDeploymentsStep ==
  ASSUME IInv, OtherDeployments
  PROVE  IInv'
<1>1. Deployments!LifecycleNext /\ UNCHANGED <<pipeline, hooks, build, worker>>
  BY DEF OtherDeployments
<1> DEFINE Fine ==
      /\ outcome' \in [Jobs -> {"absent", "accepted", "failed", "successful"}]
      /\ key' \in [Jobs -> (Names \X Users) \cup {None}]
      /\ offers' \in [Names \X Users -> SUBSET Jobs]
      /\ \A i \in Jobs : outcome[i] # "absent" => outcome'[i] # "absent" /\ key'[i] = key[i]
      /\ \A i \in Jobs : outcome'[i] # "absent" => key'[i] \in Names \X Users
<1>2. ASSUME NEW j \in Jobs, NEW k \in Names \X Users, Deployments!Submit(j, k) PROVE Fine
  BY <1>2, SubmitIsNew DEF IInv, TypeOK
<1>3. ASSUME NEW j \in Jobs, NEW v \in {"failed", "successful"}, Deployments!Decide(j, v) PROVE Fine
  BY <1>3 DEF Deployments!Decide, IInv, TypeOK, TablesAgree
<1>4. ASSUME NEW j \in Jobs, Deployments!Offer(j) PROVE Fine
  <2>1. key[j] \in Names \X Users /\ UNCHANGED <<outcome, key>>
    BY <1>4 DEF Deployments!Offer, IInv, TypeOK, TablesAgree
  <2> PICK k \in Names \X Users : k = key[j]
    BY <2>1
  <2> PICK old \in SUBSET offers[k] : offers' = [offers EXCEPT ![k] = (@ \ old) \cup {j}]
    BY <1>4 DEF Deployments!Offer
  <2>2. offers' \in [Names \X Users -> SUBSET Jobs]
    BY DEF IInv, TypeOK
  <2> QED BY <2>1, <2>2 DEF IInv, TypeOK, TablesAgree
<1>5. ASSUME NEW k \in Names \X Users, Deployments!Withdraw(k) PROVE Fine
  BY <1>5 DEF Deployments!Withdraw, IInv, TypeOK, TablesAgree
<1>6. Fine
  BY <1>1, <1>2, <1>3, <1>4, <1>5 DEF Deployments!LifecycleNext
<1>7. TypeOK' /\ TablesGrow /\ TablesAgree'
  BY <1>1, <1>6 DEF IInv, TypeOK, TablesGrow, TablesAgree
<1> QED BY <1>1, <1>7, OutsideStep

-----------------------------------------------------------------------------

LEMMA InitIInv == Init => IInv
<1> SUFFICES ASSUME Init PROVE IInv
  OBVIOUS
<1>1. /\ pipeline = [b \in Builds |-> None] /\ hooks = {} /\ build = [b \in Builds |-> None]
      /\ worker = [w \in Workers |-> Idle]
      /\ outcome = [j \in Jobs |-> "absent"] /\ key = [j \in Jobs |-> None]
      /\ offers = [k \in Names \X Users |-> {}]
  BY DEF Init, Deployments!LifecycleInit
<1>2. \A w \in Workers : worker[w] \in Frame /\ worker[w].pc = "idle" /\ worker[w].job = None
  BY <1>1, IdleFrame
<1>3. TypeOK
  BY <1>1, <1>2 DEF TypeOK
<1>4. SoleInserter /\ \A w \in Workers : Agrees(worker[w])
  BY <1>2 DEF SoleInserter, At, Agrees
<1>5. TablesAgree /\ OnlyBuiltIsDeployed /\ LinkIsOfBuiltProcess
  BY <1>1, <1>2 DEF TablesAgree, OnlyBuiltIsDeployed, LinkIsOfBuiltProcess, Deploying
<1> QED BY <1>3, <1>4, <1>5 DEF IInv

LEMMA StepIInv == IInv /\ [Next]_vars => IInv'
<1> SUFFICES ASSUME IInv, [Next]_vars PROVE IInv'
  OBVIOUS
<1>1. ASSUME NEW w \in Workers, Request(w) PROVE IInv'
  BY <1>1, TriggerStep, ReceiveHookStep, PollStep DEF Request
<1>2. ASSUME NEW w \in Workers, Continue(w) PROVE IInv'
  <2>1. CASE DeployRaises(w)
    BY <2>1, ReturnStep DEF DeployRaises, deployments
  <2> QED BY <1>2, <2>1, InsertBuildStep, PollStep, SetStatusStep, DeployStep, RequeryStep,
             RecordStep
          DEF Continue
<1>3. ASSUME NEW w \in Workers, Crash(w) PROVE IInv'
  BY <1>3, ReturnStep DEF Crash, deployments
<1>4. CASE UNCHANGED vars
  <2>1. TypeOK' /\ TablesGrow /\ TablesAgree' /\ UNCHANGED <<worker, build>>
    BY <1>4 DEF vars, IInv, TypeOK, TablesGrow, TablesAgree
  <2> QED BY <2>1, OutsideStep
<1> QED BY <1>1, <1>2, <1>3, <1>4, GitLabStep, OtherDeploymentsStep DEF Next

\* Frames, rows, pipelines and jobs agree in every reachable state, whatever
\* webhooks and polls meet, GitLab retries and crashes cut short
\* (build.py:330-426).
THEOREM Invariance == Spec => []IInv
BY InitIInv, StepIInv, PTL DEF Spec

\* Frames, rows and jobs stay well typed.
THEOREM TypeCorrect == Spec => []TypeOK
BY Invariance, PTL DEF IInv

\* What is deployed, linked or blamed for a failed deployment was built: its
\* pipeline succeeded, and no retry undoes that (build.py:404-421).
THEOREM DeployedIsBuilt == Spec => []OnlyBuiltIsDeployed
BY Invariance, PTL DEF IInv

\* The job stored with a build exists and is of the process the build published,
\* though it is found again by name alone (build.py:117).
THEOREM LinksAreOfBuiltProcess == Spec => []LinkIsOfBuiltProcess
BY Invariance, PTL DEF IInv

-----------------------------------------------------------------------------
(***************************************************************************)
(* The history: a build is deployed once, unless two workers are at it.    *)
(***************************************************************************)

\* A worker moves by a step of its own.
LEMMA OwnStep ==
  ASSUME Next, NEW v \in Workers, worker'[v] # worker[v], TypeOK
  PROVE  Request(v) \/ Continue(v) \/ Crash(v)
<1>1. ASSUME NEW w \in Workers, w # v, Request(w) \/ Continue(w) \/ Crash(w)
      PROVE  FALSE
  <2>1. ASSUME NEW f, Enter(w, f) PROVE FALSE
    BY <1>1, <2>1 DEF Enter, TypeOK
  <2>2. UNCHANGED worker \/ \E f : Enter(w, f)
    BY <1>1 DEF Request, Continue, Crash, Trigger, ReceiveHook, PollLookup, InsertBuild, PollAsk,
                PollFallback, SetStatus, Deploy, DeployFails, DeployRaises, Requery, Record, Return
  <2> QED BY <2>1, <2>2
<1>2. CASE GitLab \/ OtherDeployments
  BY <1>2 DEF GitLab, PipelineEnds, PipelineRetried, LoseHook, OtherDeployments
<1> QED BY <1>1, <1>2 DEF Next

LEMMA SetStatusWrites ==
  ASSUME IInv, NEW w \in Workers, SetStatus(w)
  PROVE  LET b == worker[w].build IN
           /\ b \in Builds /\ build[b] # None
           /\ build'[b].status = Mapped(worker[w].got)
           /\ build'[b].link = build[b].link /\ build'[b].error = build[b].error
           /\ \A c \in Builds \ {b} : build'[c] = build[c]
<1> PICK b : b = worker[w].build
  OBVIOUS
<1> PICK row : row = [build[b] EXCEPT !.status = Mapped(worker[w].got)]
  OBVIOUS
<1>1. b \in Builds /\ build[b] # None /\ build[b] \in BuildRow
  BY DEF SetStatus, At, IInv, Agrees, TypeOK
<1>2. /\ row.status = Mapped(worker[w].got) /\ row.link = build[b].link
      /\ row.error = build[b].error
  BY <1>1 DEF BuildRow
<1>3. build'[b] = row /\ \A c \in Builds \ {b} : build'[c] = build[c]
  BY <1>1 DEF SetStatus, IInv, TypeOK
<1> QED BY <1>1, <1>2, <1>3

LEMMA RecordWrites ==
  ASSUME IInv, NEW w \in Workers, Record(w)
  PROVE  LET b == worker[w].build IN
           /\ b \in Builds /\ build[b] # None
           /\ build'[b].status = build[b].status
           /\ worker'[w].pc = "idle"
           /\ \A c \in Builds \ {b} : build'[c] = build[c]
<1> PICK b : b = worker[w].build
  OBVIOUS
<1> PICK row : row = Recorded(build[b], worker[w].job)
  OBVIOUS
<1>1. b \in Builds /\ build[b] # None /\ build[b] \in BuildRow
  BY DEF Record, At, IInv, Agrees, TypeOK
<1>2. row.status = build[b].status
  BY <1>1 DEF Recorded, BuildRow
<1>3. build'[b] = row /\ \A c \in Builds \ {b} : build'[c] = build[c]
  BY <1>1 DEF Record, IInv, TypeOK
<1>4. worker'[w].pc = "idle"
  BY IdleFrame, EnterEffect DEF Record, Return, IInv
<1> QED BY <1>1, <1>2, <1>3, <1>4

\* A row there is, is written by the commit of a status or of a deployment.
LEMMA Writers ==
  ASSUME IInv, Next, NEW b \in Builds, build'[b] # build[b]
  PROVE  \E w \in Workers :
           /\ worker[w].build = b
           /\ \/ InsertBuild(w) /\ build[b] = None /\ Unrecorded(b)'
              \/ SetStatus(w)
              \/ Record(w)
<1>1. PICK w \in Workers : InsertBuild(w) \/ SetStatus(w) \/ Record(w)
  BY DEF Next, GitLab, PipelineEnds, PipelineRetried, LoseHook, OtherDeployments, Crash, Request,
         Trigger, ReceiveHook, PollLookup, Continue, PollAsk, PollFallback, Deploy, DeployFails,
         DeployRaises, Requery
<1>2. CASE SetStatus(w)
  BY <1>2, SetStatusWrites
<1>3. CASE Record(w)
  BY <1>3, RecordWrites
<1>4. CASE InsertBuild(w)
  <2> PICK row : row = [requester |-> worker[w].user, status |-> "accepted", link |-> None, error |-> FALSE]
    OBVIOUS
  <2>1. row.link = None /\ ~row.error
    OBVIOUS
  <2>2. worker[w].build \in Builds /\ build[worker[w].build] = None
    BY <1>4 DEF InsertBuild, At, IInv, Agrees
  <2>3. build' = [build EXCEPT ![worker[w].build] = row]
    BY <1>4 DEF InsertBuild
  <2>4. worker[w].build = b /\ build'[b] = row
    BY <2>2, <2>3 DEF IInv, TypeOK
  <2> QED BY <1>4, <2>1, <2>2, <2>4 DEF Unrecorded
<1> QED BY <1>1, <1>2, <1>3, <1>4

\* How a worker comes to be at the status of a build, or goes on with it.
LEMMA ReportMoves ==
  ASSUME IInv, Next, NEW v \in Workers, worker'[v] # worker[v],
         worker'[v].pc \notin {"idle", "insert"}
  PROVE  \/ /\ Request(v)
            /\ worker'[v].pc \in {"setStatus", "ask"} /\ worker'[v].op \in {"hook", "poll"}
            /\ worker'[v].build \in Builds /\ Pending(worker'[v].build) /\ UNCHANGED build
         \/ /\ worker[v].pc \notin {"idle", "insert"}
            /\ worker'[v].op = worker[v].op /\ worker'[v].build = worker[v].build
            /\ \/ UNCHANGED build /\ worker[v].pc = "ask" /\ worker'[v].pc = "setStatus"
               \/ SetStatus(v) /\ Deploys(worker[v]) /\ worker'[v].pc = "deploy"
               \/ UNCHANGED build /\ worker[v].pc \in {"deploy", "requery"}
<1>1. worker[v] \in Frame /\ worker \in [Workers -> Frame]
  BY DEF IInv, TypeOK
<1>2. ASSUME NEW f, Enter(v, f) PROVE worker'[v] = f
  BY <1>1, <1>2 DEF Enter
<1>3. ~Return(v)
  BY <1>2, IdleFrame DEF Return
<1>4. CASE Request(v)
  <2>1. ASSUME NEW u \in Users, NEW b \in Builds, Trigger(v, u, b) PROVE FALSE
    BY <1>2, <2>1 DEF Trigger, Idle
  <2>2. ASSUME NEW b \in Builds, NEW s \in GitLabStatus, ReceiveHook(v, b, s)
        PROVE  /\ worker'[v].pc = "setStatus" /\ worker'[v].op = "hook"
               /\ worker'[v].build = b /\ Pending(b) /\ UNCHANGED build
    BY <1>2, <2>2 DEF ReceiveHook, Idle
  <2>3. ASSUME NEW b \in Builds, PollLookup(v, b)
        PROVE  /\ worker'[v].pc = "ask" /\ worker'[v].op = "poll"
               /\ worker'[v].build = b /\ Pending(b) /\ UNCHANGED build
    BY <1>2, <2>3 DEF PollLookup, Idle
  <2> QED BY <1>4, <2>1, <2>2, <2>3 DEF Request
<1>5. CASE Continue(v)
  <2>1. CASE PollAsk(v)
    <3> PICK f : f = [worker[v] EXCEPT !.pc = "setStatus", !.got = pipeline[worker[v].build]]
      OBVIOUS
    <3>1. worker'[v] = f /\ worker[v].pc = "ask" /\ UNCHANGED build
      BY <1>2, <1>3, <2>1 DEF PollAsk, At
    <3>2. f.pc = "setStatus" /\ f.op = worker[v].op /\ f.build = worker[v].build
      BY <1>1 DEF Frame
    <3> QED BY <3>1, <3>2
  <2>2. CASE SetStatus(v)
    <3> PICK f : f = [worker[v] EXCEPT !.pc = "deploy"]
      OBVIOUS
    <3>1. worker'[v] = f /\ worker[v].pc = "setStatus" /\ Deploys(worker[v])
      BY <1>2, <1>3, <2>2 DEF SetStatus, At
    <3>2. f.pc = "deploy" /\ f.op = worker[v].op /\ f.build = worker[v].build
      BY <1>1 DEF Frame
    <3> QED BY <2>2, <3>1, <3>2
  <2>3. ASSUME NEW j \in Jobs, Deploy(v, j)
        PROVE  /\ UNCHANGED build /\ worker[v].pc = "deploy"
               /\ worker'[v].op = worker[v].op /\ worker'[v].build = worker[v].build
    <3> PICK f : f = [worker[v] EXCEPT !.pc = "requery"]
      OBVIOUS
    <3>1. worker'[v] = f /\ worker[v].pc = "deploy" /\ UNCHANGED build
      BY <1>2, <2>3 DEF Deploy, At
    <3>2. f.pc = "requery" /\ f.op = worker[v].op /\ f.build = worker[v].build
      BY <1>1 DEF Frame
    <3> QED BY <3>1, <3>2
  <2>4. CASE DeployFails(v) \/ Requery(v)
    <3>1. /\ worker[v].pc \in {"deploy", "requery"} /\ UNCHANGED build
          /\ \/ worker'[v] = [worker[v] EXCEPT !.pc = "record"]
             \/ \E q : worker'[v] = [worker[v] EXCEPT !.pc = "record", !.job = q]
      BY <1>2, <2>4 DEF DeployFails, Requery, At
    <3>2. /\ worker'[v].pc = "record"
          /\ worker'[v].op = worker[v].op /\ worker'[v].build = worker[v].build
      BY <1>1, <3>1 DEF Frame
    <3> QED BY <3>1, <3>2
  <2>5. ~InsertBuild(v) /\ ~PollFallback(v) /\ ~Record(v) /\ ~DeployRaises(v)
    BY <1>3 DEF InsertBuild, PollFallback, Record, DeployRaises
  <2> QED BY <1>5, <2>1, <2>2, <2>3, <2>4, <2>5 DEF Continue
<1>6. ~Crash(v)
  BY <1>3 DEF Crash
<1> QED BY <1>4, <1>5, <1>6, OwnStep DEF IInv

LEMMA ReportsOnlyStep ==
  ASSUME IInv, ReportsOnly, Next
  PROVE  ReportsOnly'
<1> SUFFICES ASSUME NEW v \in Workers, worker'[v].pc \notin {"idle", "insert"}
             PROVE  worker'[v].op \in {"hook", "poll"}
  BY DEF ReportsOnly
<1> QED BY ReportMoves DEF ReportsOnly

\* While nobody races, only the handler that is at a build's status writes its row.
LEMMA SoleWriter ==
  ASSUME IInv, ReportsOnly, ~Racing, Next, NEW v \in Workers, NEW b \in Builds,
         worker[v].pc \notin {"idle", "insert"}, worker[v].build = b, build'[b] # build[b]
  PROVE  SetStatus(v) \/ Record(v)
<1>1. build[b] # None
  BY DEF IInv, Agrees
<1>2. PICK w \in Workers : worker[w].build = b /\ (SetStatus(w) \/ Record(w))
  BY <1>1, Writers
<1>3. worker[w].pc \notin {"idle", "insert"}
  BY <1>2 DEF SetStatus, Record, At
<1>4. w = v
  BY <1>2, <1>3 DEF ReportsOnly, Racing
<1> QED BY <1>2, <1>4

LEMMA DeploysFirstStep ==
  ASSUME IInv, IInv', ReportsOnly, DeploysFirst, HistoryNext
  PROVE  DeploysFirst'
<1> SUFFICES ASSUME ~raced' PROVE DeploysFirst'
  BY DEF DeploysFirst
<1>1. Next /\ ~raced /\ ~Racing' /\ ~Racing
  BY DEF HistoryNext, DeploysFirst
<1>2. /\ \A b \in Builds : build[b] # None /\ ~Unrecorded(b) => build[b].status = "successful"
      /\ \A w \in Workers :
           /\ worker[w].pc \notin {"idle", "insert"} => Unrecorded(worker[w].build)
           /\ worker[w].pc \in {"deploy", "requery", "record"} =>
                build[worker[w].build].status = "successful"
  BY <1>1 DEF DeploysFirst
<1>3. ASSUME NEW w \in Workers, SetStatus(w)
      PROVE  \E b \in Builds : /\ b = worker[w].build /\ Unrecorded(b)'
                              /\ build'[b].status = Mapped(worker[w].got)
  <2>1. Unrecorded(worker[w].build)
    BY <1>2, <1>3 DEF SetStatus, At
  <2>2. PICK b \in Builds : /\ b = worker[w].build /\ build'[b].status = Mapped(worker[w].got)
                            /\ build'[b].link = build[b].link /\ build'[b].error = build[b].error
    BY <1>3, SetStatusWrites
  <2>3. Unrecorded(b)'
    BY <2>1, <2>2 DEF Unrecorded
  <2> QED BY <2>2, <2>3
<1>4. ASSUME NEW b \in Builds, build'[b] # None, ~Unrecorded(b)'
      PROVE  build'[b].status = "successful"
  <2>1. CASE build'[b] = build[b]
    BY <1>2, <1>4, <2>1 DEF Unrecorded
  <2>2. CASE build'[b] # build[b]
    <3>1. PICK w \in Workers : worker[w].build = b /\ (SetStatus(w) \/ Record(w))
      BY <1>1, <1>4, <2>2, Writers
    <3>2. ~SetStatus(w)
      BY <1>3, <1>4, <3>1
    <3>3. build[b].status = "successful"
      BY <1>2, <3>1, <3>2 DEF Record, At
    <3> QED BY <3>1, <3>2, <3>3, RecordWrites
  <2> QED BY <2>1, <2>2
<1>5. ASSUME NEW v \in Workers, worker'[v].pc \notin {"idle", "insert"}
      PROVE  \E b \in Builds :
               /\ b = worker'[v].build /\ Unrecorded(b)'
               /\ worker'[v].pc \in {"deploy", "requery", "record"} =>
                    build'[b].status = "successful"
  <2> PICK b : b = worker'[v].build
    OBVIOUS
  <2>1. b \in Builds
    BY <1>5 DEF IInv, Agrees
  <2>2. CASE worker'[v] = worker[v]
    <3>1. worker[v].build = b /\ worker[v].pc \notin {"idle", "insert"}
      BY <1>5, <2>2
    <3>2. ~SetStatus(v) /\ ~Record(v)
      <4>1. ~Record(v)
        BY <1>5, RecordWrites
      <4>2. ASSUME SetStatus(v) PROVE FALSE
        <5>1. worker[v].pc = "setStatus" /\ worker[v] \in Frame
          BY <4>2 DEF SetStatus, At, IInv, TypeOK
        <5>2. worker'[v].pc \in {"idle", "deploy"}
          <6> PICK f : f = [worker[v] EXCEPT !.pc = "deploy"]
            OBVIOUS
          <6>1. f.pc = "deploy"
            BY <5>1 DEF Frame
          <6>2. worker'[v] \in {f, Idle}
            BY <4>2 DEF SetStatus, Enter, Return, IInv, TypeOK
          <6> QED BY <6>1, <6>2, IdleFrame
        <5> QED BY <2>2, <5>1, <5>2
      <4> QED BY <4>1, <4>2
    <3>3. build'[b] = build[b]
      BY <1>1, <2>1, <3>1, <3>2, SoleWriter
    <3> QED BY <1>2, <2>1, <2>2, <3>1, <3>3 DEF Unrecorded
  <2>3. CASE worker'[v] # worker[v] /\ Pending(b) /\ UNCHANGED build
             /\ worker'[v].pc \in {"setStatus", "ask"}
    <3>1. Unrecorded(b)
      BY <1>2, <2>1, <2>3 DEF Pending, Finished
    <3> QED BY <2>1, <2>3, <3>1 DEF Unrecorded
  <2>4. CASE /\ worker[v].pc \notin {"idle", "insert"} /\ worker[v].build = b
             /\ SetStatus(v) /\ Deploys(worker[v])
    BY <1>3, <2>4 DEF Deploys
  <2>5. CASE /\ worker[v].pc \notin {"idle", "insert"} /\ worker[v].build = b /\ UNCHANGED build
             /\ \/ worker'[v].pc = "setStatus"
                \/ worker[v].pc \in {"deploy", "requery"}
    BY <1>2, <2>1, <2>5 DEF Unrecorded
  <2>6. CASE worker'[v] # worker[v]
    BY <1>1, <1>5, <2>3, <2>4, <2>5, <2>6, ReportMoves
  <2> QED BY <2>2, <2>6
<1>6. ASSUME NEW v \in Workers, worker'[v].pc \notin {"idle", "insert"}
      PROVE  /\ build'[worker'[v].build].link = None
             /\ ~build'[worker'[v].build].error
             /\ worker'[v].pc \in {"deploy", "requery", "record"} =>
                  build'[worker'[v].build].status = "successful"
  BY <1>5, <1>6 DEF Unrecorded
<1> QED BY <1>1, <1>4, <1>6 DEF DeploysFirst, Unrecorded

LEMMA HistoryStep ==
  ASSUME IInv, IInv', HistoryInv, [HistoryNext]_historyVars
  PROVE  HistoryInv'
<1>1. CASE HistoryNext
  BY <1>1, ReportsOnlyStep, DeploysFirstStep DEF HistoryInv, HistoryNext
<1>2. CASE UNCHANGED historyVars
  BY <1>2 DEF historyVars, vars, HistoryInv, ReportsOnly, DeploysFirst, Racing, Unrecorded
<1> QED BY <1>1, <1>2

\* With its history the specification still does what it did.
LEMMA HistoryHides == HistorySpec => Spec
<1>1. HistoryInit => Init
  BY DEF HistoryInit
<1>2. [HistoryNext]_historyVars => [Next]_vars
  BY DEF HistoryNext, historyVars
<1> QED BY <1>1, <1>2, PTL DEF HistorySpec, Spec

\* Until two workers are at one build, a row that has a link or an error is final,
\* and a handler works on one that has neither.
THEOREM HistoryInvariance == HistorySpec => []HistoryInv
<1>1. HistoryInit => HistoryInv
  <2> SUFFICES ASSUME HistoryInit PROVE HistoryInv
    OBVIOUS
  <2>1. \A w \in Workers : worker[w].pc = "idle" /\ worker[w].op = None
    BY DEF HistoryInit, Init, Idle
  <2>2. \A b \in Builds : build[b] = None
    BY DEF HistoryInit, Init
  <2> QED BY <2>1, <2>2, BuildNoneAssumption DEF HistoryInv, ReportsOnly, DeploysFirst, Racing
<1>2. HistorySpec => []IInv
  BY HistoryHides, Invariance, PTL
<1> QED BY <1>1, <1>2, HistoryStep, PTL DEF HistorySpec

\* A build is deployed once, for any number of webhooks delivered twice or late, of
\* polls and of pipelines run again, unless two workers are at it (build.py:351).
THEOREM DeployedOnce == HistorySpec => DeploysOnceUnlessRaced
<1>1. HistoryInv => (\A w \in Workers : ~raced /\ At(w, "deploy") => Unrecorded(worker[w].build))
  BY DEF HistoryInv, DeploysFirst, At
<1>2. HistoryInv /\ [HistoryNext]_historyVars =>
        [\A w \in Workers :
           ~raced /\ At(w, "deploy") /\ worker'[w].pc \in {"requery", "record"} =>
             build[worker[w].build].link = None /\ ~build[worker[w].build].error]_historyVars
  BY <1>1 DEF Unrecorded
<1> QED BY <1>2, HistoryInvariance, PTL DEF HistorySpec, DeploysOnceUnlessRaced

-----------------------------------------------------------------------------
(***************************************************************************)
(* What it takes for a success to be deployed: that webhooks bring it.     *)
(***************************************************************************)

\* Without polls, whoever is at the status of a build has the payload of a webhook.
ByHook ==
  \A w \in Workers : worker[w].pc \notin {"idle", "insert"} => worker[w].op = "hook"

LEMMA ByHookStep ==
  ASSUME MayPoll = FALSE, IInv, ByHook, Next
  PROVE  ByHook'
<1> SUFFICES ASSUME NEW v \in Workers, worker'[v].pc \notin {"idle", "insert"}
             PROVE  worker'[v].op = "hook"
  BY DEF ByHook
<1>1. CASE worker'[v] = worker[v]
  BY <1>1 DEF ByHook
<1>2. CASE worker[v].pc \notin {"idle", "insert"} /\ worker'[v].op = worker[v].op
  BY <1>2 DEF ByHook
<1>3. CASE Request(v)
  <2>1. ASSUME NEW f, Enter(v, f) PROVE worker'[v] = f
    BY <2>1 DEF Enter, IInv, TypeOK
  <2>2. ASSUME NEW u \in Users, NEW b \in Builds, Trigger(v, u, b) PROVE FALSE
    BY <2>1, <2>2 DEF Trigger, Idle
  <2>3. ASSUME NEW b \in Builds, NEW s \in GitLabStatus, ReceiveHook(v, b, s)
        PROVE  worker'[v].op = "hook"
    BY <1>1, <2>1, <2>3 DEF ReceiveHook, Idle
  <2> QED BY <1>3, <2>2, <2>3 DEF Request, PollLookup
<1> QED BY <1>1, <1>2, <1>3, ReportMoves

\* A success is committed by a handler that goes on to deploy it, and it goes until
\* it has stored a link or an error.
LEMMA SuccessStep ==
  ASSUME MayCrash = FALSE, MayRaise = FALSE, IInv, IInv', ByHook, SuccessIsDeployed, Next
  PROVE  SuccessIsDeployed'
<1> SUFFICES ASSUME NEW b \in Builds, build'[b] # None, build'[b].status = "successful",
                    build'[b].link = None, ~build'[b].error
             PROVE  Deploying(b)'
  BY DEF SuccessIsDeployed
<1>1. worker \in [Workers -> Frame]
  BY DEF IInv, TypeOK
<1>2. ASSUME NEW w \in Workers, worker'[w].build = b, worker'[w].pc \in {"deploy", "requery", "record"}
      PROVE  Deploying(b)'
  BY <1>2 DEF Deploying
<1>3. ASSUME NEW w \in Workers, SetStatus(w), worker[w].build = b
      PROVE  Deploying(b)'
  <2>1. worker[w].op = "hook" /\ Mapped(worker[w].got) = "successful"
    BY <1>3, SetStatusWrites DEF ByHook, SetStatus, At
  <2>2. Enter(w, [worker[w] EXCEPT !.pc = "deploy"])
    BY <1>3, <2>1 DEF SetStatus, Deploys
  <2>3. worker'[w].pc = "deploy" /\ worker'[w].build = b
    BY <1>1, <1>3, <2>2 DEF Enter, Frame
  <2> QED BY <1>2, <2>3
<1>4. ASSUME NEW w \in Workers, Record(w), worker[w].build = b
      PROVE  FALSE
  <2>1. b \in Builds /\ build[b] \in BuildRow /\ worker[w].job \in Jobs \cup {None}
    BY <1>1, <1>4, RecordWrites DEF IInv, TypeOK, Frame
  <2>2. build'[b] = Recorded(build[b], worker[w].job)
    BY <1>4, <2>1 DEF Record, IInv, TypeOK
  <2>3. CASE worker[w].job = None
    <3>1. build'[b] = [build[b] EXCEPT !.error = TRUE]
      BY <2>2, <2>3 DEF Recorded
    <3>2. build'[b].error
      BY <2>1, <3>1 DEF BuildRow
    <3> QED BY <3>2
  <2>4. CASE worker[w].job # None
    <3>1. build'[b] = [build[b] EXCEPT !.link = worker[w].job, !.error = FALSE]
      BY <2>2, <2>4 DEF Recorded
    <3>2. build'[b].link = worker[w].job
      BY <2>1, <3>1 DEF BuildRow
    <3> QED BY <2>4, <3>2
  <2> QED BY <2>3, <2>4
<1>5. CASE build'[b] = build[b]
  <2>1. PICK w \in Workers : worker[w].build = b /\ worker[w].pc \in {"deploy", "requery", "record"}
    BY <1>5 DEF SuccessIsDeployed, Deploying
  <2>2. CASE worker'[w] = worker[w]
    BY <1>2, <2>1, <2>2
  <2>3. CASE worker'[w] # worker[w]
    <3>1. ~Record(w)
      BY <1>4, <2>1
    <3>2. (\E j \in Jobs : Deploy(w, j)) \/ DeployFails(w) \/ Requery(w)
      <4>1. Request(w) \/ Continue(w)
        BY <2>3, OwnStep DEF Crash, IInv
      <4>2. ~Request(w)
        BY <2>1 DEF Request, Trigger, ReceiveHook, PollLookup, At
      <4> QED BY <2>1, <3>1, <4>1, <4>2
              DEF Continue, InsertBuild, PollAsk, PollFallback, SetStatus, DeployRaises, At
    <3>3. \/ \E x \in {"requery", "record"} : worker'[w] = [worker[w] EXCEPT !.pc = x]
          \/ \E q : worker'[w] = [worker[w] EXCEPT !.pc = "record", !.job = q]
      BY <1>1, <3>2 DEF Deploy, DeployFails, Requery, Enter
    <3>4. CASE \E x \in {"requery", "record"} : worker'[w] = [worker[w] EXCEPT !.pc = x]
      <4> PICK x \in {"requery", "record"} : worker'[w] = [worker[w] EXCEPT !.pc = x]
        BY <3>4
      <4>1. worker'[w].pc = x /\ worker'[w].build = b
        BY <1>1, <2>1 DEF Frame
      <4> QED BY <1>2, <4>1
    <3>5. CASE \E q : worker'[w] = [worker[w] EXCEPT !.pc = "record", !.job = q]
      <4> PICK q : worker'[w] = [worker[w] EXCEPT !.pc = "record", !.job = q]
        BY <3>5
      <4>1. worker'[w].pc = "record" /\ worker'[w].build = b
        BY <1>1, <2>1 DEF Frame
      <4> QED BY <1>2, <4>1
    <3> QED BY <3>3, <3>4, <3>5
  <2> QED BY <2>2, <2>3
<1>6. CASE build'[b] # build[b]
  <2>1. PICK w \in Workers :
          /\ worker[w].build = b
          /\ \/ InsertBuild(w) /\ build[b] = None
             \/ SetStatus(w)
             \/ Record(w)
    BY <1>6, Writers
  <2>2. CASE InsertBuild(w) /\ build[b] = None
    <3> PICK row : row = [requester |-> worker[w].user, status |-> "accepted", link |-> None, error |-> FALSE]
      OBVIOUS
    <3>1. row.status = "accepted"
      OBVIOUS
    <3>2. build'[b] = row
      BY <2>1, <2>2 DEF InsertBuild, IInv, TypeOK
    <3> QED BY <3>1, <3>2
  <2> QED BY <1>3, <1>4, <2>1, <2>2
<1> QED BY <1>5, <1>6

\* The comment above the deployment, "Deploy OGC process if build was successful"
\* (build.py:403), is true of a service whose builds nobody polls, whose workers do not
\* die, and whose deployments fail with a ValueError or a RuntimeError if at all
\* (build.py:128), however many webhooks come twice, late or side by side.  What breaks
\* it otherwise is one of the three: the poll that brings the success, a worker that
\* ends before it has stored the link, and any other exception (build.py:416).
THEOREM HooksDeploy ==
  ASSUME MayPoll = FALSE, MayCrash = FALSE, MayRaise = FALSE
  PROVE  Spec => []SuccessIsDeployed
<1>1. Init => ByHook /\ SuccessIsDeployed
  BY DEF Init, ByHook, SuccessIsDeployed, Idle
<1>2. IInv /\ IInv' /\ ByHook /\ SuccessIsDeployed /\ [Next]_vars => (ByHook /\ SuccessIsDeployed)'
  <2>1. CASE Next
    BY <2>1, ByHookStep, SuccessStep
  <2>2. CASE UNCHANGED vars
    BY <2>2 DEF vars, ByHook, SuccessIsDeployed, Deploying
  <2> QED BY <2>1, <2>2
<1> QED BY <1>1, <1>2, Invariance, PTL DEF Spec
=============================================================================
