---------------------- MODULE ProcessDeploymentProofs ----------------------
(***************************************************************************)
(* Proofs about ProcessDeployment, for any number of workers, members,     *)
(* names, pipelines and rows, with or without retries and crashes.         *)
(***************************************************************************)
EXTENDS DeploymentHistory, TLAPS

-----------------------------------------------------------------------------
(***************************************************************************)
(* How the tables evolve: pipelines stay known and a success is final,     *)
(* rows stay and keep their identity.                                      *)
(***************************************************************************)

TablesGrow ==
  /\ \A p \in Pipelines :
       /\ pipeline[p] # None => pipeline'[p] # None
       /\ pipeline[p] = "success" => pipeline'[p] = "success"
       /\ deployment[p] # None =>
            /\ deployment'[p] # None
            /\ deployment'[p].name = deployment[p].name
            /\ deployment'[p].deployer = deployment[p].deployer
  /\ \A k \in Rows :
       process[k] # None =>
         /\ process'[k] # None
         /\ process'[k].name = process[k].name
         /\ process'[k].deployer = process[k].deployer

LEMMA GrowUnchanged ==
  ASSUME UNCHANGED <<pipeline, deployment, process>>
  PROVE  TablesGrow
BY DEF TablesGrow

LEMMA StandsForStable ==
  ASSUME TablesGrow, NEW k \in Rows, NEW p \in Pipelines, StandsFor(k, p)
  PROVE  StandsFor(k, p)'
BY DEF TablesGrow, StandsFor

\* What a waiting frame says of the tables stays true while they grow.
LEMMA AgreesStable ==
  ASSUME TypeOK, TablesGrow, NEW v \in Workers, Agrees(worker[v]),
         worker'[v] = worker[v],
         At(v, "insert") => deployment'[worker[v].pipe] = None
  PROVE  Agrees(worker[v])'
<1> DEFINE f == worker[v]
<1>1. f \in Frame
  BY DEF TypeOK
<1>2. f.pc \notin {"idle", "trigger", "undeploy", "insert"} =>
        /\ f.pipe \in Pipelines /\ deployment'[f.pipe] # None
        /\ deployment'[f.pipe].name = deployment[f.pipe].name
  BY DEF Agrees, TablesGrow
<1>3. f.pc = "insert" =>
        f.pipe \in Pipelines /\ pipeline'[f.pipe] # None /\ deployment'[f.pipe] = None
  BY DEF Agrees, TablesGrow, At
<1>4. f.pc = "respond" =>
        f.job \in Pipelines /\ deployment'[f.job] # None /\ deployment'[f.job].name = f.name
  BY DEF Agrees, TablesGrow
<1>5. f.pc \in {"setStatus"} \cup RegisterSteps /\ f.got = "success" =>
        pipeline'[f.pipe] = "success"
  BY DEF Agrees, TablesGrow, RegisterSteps
<1>6. f.pc = "undeploy" => f.row \in Rows /\ process'[f.row] # None
  BY DEF Agrees, TablesGrow
<1>7. f.pc \in {"update", "overwrite", "link"} => f.row \in Rows /\ StandsFor(f.row, f.pipe)'
  BY <1>2, StandsForStable DEF Agrees
<1>8. f.pc = "requeryProcess" => \E k \in Rows : StandsFor(k, f.pipe)'
  BY <1>2, StandsForStable DEF Agrees
<1>9. QED
  BY <1>2, <1>3, <1>4, <1>5, <1>6, <1>7, <1>8 DEF Agrees

-----------------------------------------------------------------------------
(***************************************************************************)
(* Steps that only move one frame.                                         *)
(***************************************************************************)

LEMMA IdleFrame == Idle \in Frame
BY DEF Idle, Frame, Steps

LEMMA EnterEffect ==
  ASSUME TypeOK, NEW w \in Workers, NEW f \in Frame, Enter(w, f)
  PROVE  /\ worker' \in [Workers -> Frame]
         /\ worker'[w] = f
         /\ \A v \in Workers : v # w => worker'[v] = worker[v]
BY DEF TypeOK, Enter

\* A step that changes one frame and at most delivers or loses a webhook keeps
\* the invariant if the new frame agrees with the tables and is not an inserter.
LEMMA FrameStep ==
  ASSUME IInv, NEW w \in Workers, NEW f \in Frame, Enter(w, f),
         UNCHANGED <<pipeline, deployment, process>>, hooks' \subseteq hooks,
         Agrees(worker[w])', f.pc # "insert"
  PROVE  IInv'
<1>1. /\ worker' \in [Workers -> Frame]
      /\ worker'[w] = f
      /\ \A v \in Workers : v # w => worker'[v] = worker[v]
  BY EnterEffect DEF IInv
<1>2. TypeOK'
  BY <1>1 DEF IInv, TypeOK
<1>3. SoleInserter'
  BY <1>1 DEF IInv, SoleInserter, At
<1>4. FramesAgree'
  <2> SUFFICES ASSUME NEW v \in Workers, v # w PROVE Agrees(worker[v])'
    BY DEF FramesAgree
  <2>1. At(v, "insert") => deployment'[worker[v].pipe] = None
    BY DEF IInv, FramesAgree, Agrees, At
  <2> QED
    BY <1>1, <2>1, AgreesStable, GrowUnchanged DEF IInv, FramesAgree
<1>5. TablesAgree'
  BY DEF IInv, TablesAgree
<1>6. LinkIsOwn' /\ OffersOnlyBuilt'
  BY DEF IInv, LinkIsOwn, OffersOnlyBuilt, StandsFor
<1>7. QED
  BY <1>2, <1>3, <1>4, <1>5, <1>6 DEF IInv

LEMMA ReturnStep ==
  ASSUME IInv, NEW w \in Workers, Return(w),
         UNCHANGED <<pipeline, deployment, process>>, hooks' \subseteq hooks
  PROVE  IInv'
<1>1. worker'[w] = Idle
  BY IdleFrame, EnterEffect DEF IInv, Return
<1>2. Agrees(worker[w])'
  BY <1>1, NoneAssumption DEF Agrees, Idle, RegisterSteps
<1>3. QED
  BY <1>2, IdleFrame, FrameStep DEF Return, Idle

LEMMA RequestStep ==
  ASSUME IInv, NEW w \in Workers, Request(w)
  PROVE  IInv'
<1> USE DEF Idle, Steps, RegisterSteps
<1>1. ASSUME NEW u \in Users, NEW n \in Names, PostCheck(w, u, n) PROVE IInv'
  <2> DEFINE f == [Idle EXCEPT !.pc = "trigger", !.op = "post", !.user = u, !.name = n]
  <2>1. f \in Frame
    BY DEF Frame
  <2>2. Enter(w, f) /\ UNCHANGED <<pipeline, hooks, deployment, process>>
    BY <1>1 DEF PostCheck
  <2>3. worker'[w] = f
    BY <2>1, <2>2, EnterEffect DEF IInv
  <2>4. Agrees(worker[w])'
    BY <2>3, NoneAssumption DEF Agrees
  <2>5. QED
    BY <2>1, <2>2, <2>4, FrameStep
<1>2. ASSUME NEW k \in Rows, PutCheck(w, k) PROVE IInv'
  <2> DEFINE u == process[k].deployer
             n == process[k].name
             f == [Idle EXCEPT !.pc = "trigger", !.op = "put", !.user = u, !.name = n]
  <2>1. u \in Users /\ n \in Names
    BY <1>2 DEF PutCheck, IInv, TypeOK, ProcessRow
  <2>2. f \in Frame
    BY <2>1 DEF Frame
  <2>3. Enter(w, f) /\ UNCHANGED <<pipeline, hooks, deployment, process>>
    BY <1>2 DEF PutCheck
  <2>4. worker'[w] = f
    BY <2>2, <2>3, EnterEffect DEF IInv
  <2>5. Agrees(worker[w])'
    BY <2>1, <2>4, NoneAssumption DEF Agrees
  <2>6. QED
    BY <2>2, <2>3, <2>5, FrameStep
<1>3. ASSUME NEW k \in Rows, DeleteCheck(w, k) PROVE IInv'
  <2> DEFINE f == [Idle EXCEPT !.pc = "undeploy", !.op = "delete", !.row = k]
  <2>1. f \in Frame
    BY DEF Frame
  <2>2. Enter(w, f) /\ UNCHANGED <<pipeline, hooks, deployment, process>> /\ process[k] # None
    BY <1>3 DEF DeleteCheck
  <2>3. worker'[w] = f
    BY <2>1, <2>2, EnterEffect DEF IInv
  <2>4. Agrees(worker[w])'
    BY <2>2, <2>3, NoneAssumption DEF Agrees
  <2>5. QED
    BY <2>1, <2>2, <2>4, FrameStep
<1>4. ASSUME NEW p \in Pipelines, PollLookup(w, p) PROVE IInv'
  <2> DEFINE f == [Idle EXCEPT !.pc = "ask", !.op = "status", !.pipe = p]
  <2>1. f \in Frame
    BY DEF Frame
  <2>2. Enter(w, f) /\ UNCHANGED <<pipeline, hooks, deployment, process>> /\ deployment[p] # None
    BY <1>4 DEF PollLookup, Pending
  <2>3. worker'[w] = f
    BY <2>1, <2>2, EnterEffect DEF IInv
  <2>4. Agrees(worker[w])'
    BY <2>2, <2>3, NoneAssumption DEF Agrees
  <2>5. QED
    BY <2>1, <2>2, <2>4, FrameStep
<1>5. ASSUME NEW p \in Pipelines, NEW s \in GitLabStatus, ReceiveHook(w, p, s) PROVE IInv'
  <2>1. CASE UNCHANGED worker
    <3>1. UNCHANGED <<pipeline, deployment, process, worker>> /\ hooks' \subseteq hooks
      BY <1>5, <2>1 DEF ReceiveHook
    <3>2. QED
      BY <3>1 DEF IInv, TypeOK, SoleInserter, FramesAgree, Agrees, TablesAgree,
                  LinkIsOwn, OffersOnlyBuilt, StandsFor, At
  <2>2. CASE ~UNCHANGED worker
    <3> DEFINE f == [Idle EXCEPT !.pc = "setStatus", !.op = "status", !.pipe = p, !.got = s]
    <3>1. f \in Frame
      BY DEF Frame
    <3>2. /\ Enter(w, f) /\ UNCHANGED <<pipeline, deployment, process>>
          /\ hooks' \subseteq hooks /\ <<p, s>> \in hooks
          /\ deployment[p] # None /\ OgcStatus(s) \in Finished
      BY <1>5, <2>2 DEF ReceiveHook, Pending
    <3>3. worker'[w] = f
      BY <3>1, <3>2, EnterEffect DEF IInv
    <3>4. s \in {"success", "failed"}
      BY <3>2 DEF OgcStatus, Finished, GitLabStatus
    <3>5. s = "success" => pipeline[p] = "success"
      BY <3>2 DEF IInv, TablesAgree
    <3>6. Agrees(worker[w])'
      BY <3>2, <3>3, <3>4, <3>5, NoneAssumption DEF Agrees
    <3>7. QED
      BY <3>1, <3>2, <3>6, FrameStep
  <2>3. QED
    BY <2>1, <2>2
<1>6. QED
  BY <1>1, <1>2, <1>3, <1>4, <1>5 DEF Request

-----------------------------------------------------------------------------
(***************************************************************************)
(* Steps of a handler in the middle of its work.                           *)
(***************************************************************************)

\* When the tables grow the waiting frames still agree, if no inserter loses the
\* place of its row.
LEMMA FramesAgreeStable ==
  ASSUME IInv, NEW w \in Workers, NEW f \in Frame, Enter(w, f), TablesGrow,
         Agrees(worker[w])',
         \A v \in Workers :
           v # w /\ At(v, "insert") => deployment'[worker[v].pipe] = None
  PROVE  FramesAgree'
<1> SUFFICES ASSUME NEW v \in Workers, v # w PROVE Agrees(worker[v])'
  BY DEF FramesAgree
<1>1. worker'[v] = worker[v]
  BY EnterEffect DEF IInv
<1>2. QED
  BY <1>1, AgreesStable DEF IInv, FramesAgree

LEMMA SoleInserterStable ==
  ASSUME SoleInserter, NEW w \in Workers, ~At(w, "insert")',
         \A v \in Workers : v # w => worker'[v] = worker[v]
  PROVE  SoleInserter'
BY DEF SoleInserter, At

LEMMA LinkIsOwnStable ==
  ASSUME IInv, TablesGrow, UNCHANGED deployment
  PROVE  LinkIsOwn'
<1> SUFFICES ASSUME NEW q \in Pipelines, deployment[q] # None, deployment[q].process # None
             PROVE  StandsFor(deployment[q].process, q)'
  BY DEF LinkIsOwn
<1>1. deployment[q].process \in Rows /\ StandsFor(deployment[q].process, q)
  BY DEF IInv, LinkIsOwn, TypeOK, DeploymentRow
<1>2. QED
  BY <1>1, StandsForStable

LEMMA TriggerStep ==
  ASSUME IInv, NEW w \in Workers, NEW p \in Pipelines, Trigger(w, p)
  PROVE  IInv'
<1> DEFINE f == [worker[w] EXCEPT !.pc = "insert", !.pipe = p]
<1>1. Agrees(worker[w]) /\ worker[w] \in Frame /\ worker[w].pc = "trigger"
  BY DEF IInv, FramesAgree, TypeOK, Trigger, At
<1>2. /\ f \in Frame
      /\ f.pc = "insert" /\ f.pipe = p /\ f.user = worker[w].user
      /\ f.name = worker[w].name /\ f.op = worker[w].op /\ f.got = worker[w].got
  BY <1>1 DEF Frame, Steps
<1>3. /\ Enter(w, f) /\ pipeline[p] = None /\ UNCHANGED <<hooks, deployment, process>>
      /\ pipeline' = [pipeline EXCEPT ![p] = "running"]
  BY DEF Trigger
<1>4. /\ worker' \in [Workers -> Frame] /\ worker'[w] = f
      /\ \A v \in Workers : v # w => worker'[v] = worker[v]
  BY <1>2, <1>3, EnterEffect DEF IInv
<1>5. deployment[p] = None
  BY <1>3 DEF IInv, TablesAgree
<1>6. TablesGrow
  BY <1>3, NoneAssumption DEF TablesGrow, IInv, TypeOK
<1>7. TypeOK'
  BY <1>3, <1>4 DEF IInv, TypeOK, GitLabStatus
<1>8. SoleInserter'
  <2>1. \A v \in Workers : At(v, "insert") => worker[v].pipe # p
    BY <1>3 DEF IInv, FramesAgree, Agrees, At
  <2> SUFFICES ASSUME NEW u \in Workers, NEW v \in Workers, u # v,
                      At(u, "insert")', At(v, "insert")', worker'[u].pipe = worker'[v].pipe
               PROVE  FALSE
    BY DEF SoleInserter
  <2>2. worker'[w].pipe = p
    BY <1>2, <1>4
  <2>3. \A x \in Workers : x # w /\ At(x, "insert")' => At(x, "insert") /\ worker[x].pipe = worker'[x].pipe
    BY <1>4 DEF At
  <2>4. u # w /\ v # w
    BY <2>1, <2>2, <2>3
  <2>5. QED
    BY <2>3, <2>4 DEF IInv, SoleInserter
<1>9. FramesAgree'
  <2>1. pipeline'[p] = "running"
    BY <1>3 DEF IInv, TypeOK
  <2>3. Agrees(worker[w])'
    BY <1>1, <1>2, <1>3, <1>4, <1>5, <2>1, NoneAssumption DEF Agrees, RegisterSteps
  <2>4. \A v \in Workers : At(v, "insert") => deployment'[worker[v].pipe] = None
    BY <1>3 DEF IInv, FramesAgree, Agrees, At
  <2>5. QED
    BY <1>2, <1>3, <1>6, <2>3, <2>4, FramesAgreeStable
<1>10. TablesAgree'
  BY <1>3, NoneAssumption DEF IInv, TablesAgree, TypeOK
<1>11. LinkIsOwn' /\ OffersOnlyBuilt'
  <2>1. \A k \in Rows : process[k] # None => process[k].source # p
    BY <1>3, NoneAssumption DEF IInv, OffersOnlyBuilt
  <2>2. QED
    BY <1>3, <2>1 DEF IInv, TypeOK, ProcessRow, LinkIsOwn, OffersOnlyBuilt, StandsFor
<1>12. QED
  BY <1>7, <1>8, <1>9, <1>10, <1>11 DEF IInv

LEMMA InsertDeploymentStep ==
  ASSUME IInv, NEW w \in Workers, InsertDeployment(w)
  PROVE  IInv'
<1> DEFINE p == worker[w].pipe
           f == [worker[w] EXCEPT !.pc = "requery"]
           row == [name |-> worker[w].name, deployer |-> worker[w].user,
                   status |-> "accepted", process |-> None]
<1>1. Agrees(worker[w]) /\ worker[w] \in Frame /\ worker[w].pc = "insert"
  BY DEF IInv, FramesAgree, TypeOK, InsertDeployment, At
<1>2. /\ f \in Frame
      /\ f.pc = "requery" /\ f.pipe = p /\ f.name = worker[w].name /\ f.op = worker[w].op
  BY <1>1 DEF Frame, Steps
<1>3. /\ Enter(w, f) /\ UNCHANGED <<pipeline, hooks, process>>
      /\ deployment' = [deployment EXCEPT ![p] = row]
  BY DEF InsertDeployment, NewDeployment
<1>4. /\ worker' \in [Workers -> Frame] /\ worker'[w] = f
      /\ \A v \in Workers : v # w => worker'[v] = worker[v]
  BY <1>2, <1>3, EnterEffect DEF IInv
<1>5. p \in Pipelines /\ pipeline[p] # None /\ deployment[p] = None /\ row \in DeploymentRow
  BY <1>1 DEF Agrees, DeploymentRow
<1>6. /\ deployment'[p] = row /\ row # None
      /\ \A q \in Pipelines : q # p => deployment'[q] = deployment[q]
  <2>1. deployment'[p] = row /\ \A q \in Pipelines : q # p => deployment'[q] = deployment[q]
    BY <1>3, <1>5 DEF IInv, TypeOK
  <2>2. row # None
    BY <1>5, RowAssumption
  <2>3. QED
    BY <2>1, <2>2
<1>7. TablesGrow
  BY <1>3, <1>5, <1>6 DEF TablesGrow
<1>8. TypeOK'
  BY <1>3, <1>4, <1>5 DEF IInv, TypeOK
<1>9. SoleInserter'
  <2>1. ~At(w, "insert")'
    BY <1>2, <1>4 DEF At
  <2>2. QED
    BY <1>4, <2>1, SoleInserterStable DEF IInv
<1>10. FramesAgree'
  <2>1. Agrees(worker[w])'
    BY <1>1, <1>2, <1>4, <1>5, <1>6 DEF Agrees, RegisterSteps
  <2>2. \A v \in Workers : v # w /\ At(v, "insert") => deployment'[worker[v].pipe] = None
    BY <1>1, <1>6 DEF IInv, SoleInserter, FramesAgree, Agrees, At
  <2>3. QED
    BY <1>2, <1>3, <1>7, <2>1, <2>2, FramesAgreeStable
<1>11. TablesAgree'
  BY <1>3, <1>5, <1>6 DEF IInv, TablesAgree
<1>12. LinkIsOwn' /\ OffersOnlyBuilt'
  <2>1. LinkIsOwn'
    BY <1>3, <1>5, <1>6 DEF IInv, LinkIsOwn, StandsFor
  <2>2. OffersOnlyBuilt'
    <3>1. \A k \in Rows : process[k] # None => process[k].source \in Pipelines
      BY DEF IInv, TypeOK, ProcessRow
    <3>2. QED
      BY <1>3, <1>5, <1>6, <3>1 DEF IInv, OffersOnlyBuilt, StandsFor
  <2>3. QED
    BY <2>1, <2>2
<1>13. QED
  BY <1>8, <1>9, <1>10, <1>11, <1>12 DEF IInv

LEMMA RequeryStep ==
  ASSUME IInv, NEW w \in Workers, PostRequery(w) \/ PutRequery(w)
  PROVE  IInv'
<1> USE DEF Steps, RegisterSteps
<1>1. /\ Agrees(worker[w]) /\ worker[w] \in Frame /\ worker[w].pc = "requery"
      /\ UNCHANGED <<pipeline, hooks, deployment, process>>
  BY DEF IInv, FramesAgree, TypeOK, PostRequery, PutRequery, At
<1>2. CASE Return(w)
  BY <1>1, <1>2, ReturnStep
<1>3. ASSUME NEW q \in Pipelines, deployment[q] # None,
             deployment[q].name = worker[w].name,
             Enter(w, [worker[w] EXCEPT !.pc = "respond", !.job = q])
      PROVE  IInv'
  <2> DEFINE f == [worker[w] EXCEPT !.pc = "respond", !.job = q]
  <2>1. /\ f \in Frame
        /\ f.pc = "respond" /\ f.job = q /\ f.pipe = worker[w].pipe
        /\ f.name = worker[w].name /\ f.op = worker[w].op
    BY <1>1 DEF Frame
  <2>2. worker'[w] = f
    BY <1>3, <2>1, EnterEffect DEF IInv
  <2>3. Agrees(worker[w])'
    BY <1>1, <1>3, <2>1, <2>2 DEF Agrees
  <2>4. QED
    BY <1>1, <1>3, <2>1, <2>3, FrameStep
<1>4. CASE PostRequery(w) /\ ~Return(w)
  BY <1>3, <1>4 DEF PostRequery, Accepted
<1>5. CASE PutRequery(w)
  <2>1. /\ worker[w].pipe \in Pipelines /\ deployment[worker[w].pipe] # None
        /\ deployment[worker[w].pipe].name = worker[w].name
    BY <1>1 DEF Agrees
  <2>2. QED
    BY <1>3, <1>5, <2>1 DEF PutRequery
<1>6. QED
  BY <1>2, <1>4, <1>5

LEMMA PollAskStep ==
  ASSUME IInv, NEW w \in Workers, PollAsk(w)
  PROVE  IInv'
<1> DEFINE p == worker[w].pipe
           f == [worker[w] EXCEPT !.pc = "setStatus", !.got = pipeline[p]]
<1> USE DEF Steps, RegisterSteps
<1>1. /\ Agrees(worker[w]) /\ worker[w] \in Frame /\ worker[w].pc = "ask"
      /\ UNCHANGED <<pipeline, hooks, deployment, process>>
  BY DEF IInv, FramesAgree, TypeOK, PollAsk, At
<1>2. CASE Return(w)
  BY <1>1, <1>2, ReturnStep
<1>3. CASE ~Return(w)
  <2>1. Enter(w, f) /\ OgcStatus(pipeline[p]) \in Finished
    BY <1>3 DEF PollAsk
  <2>2. p \in Pipelines /\ deployment[p] # None /\ pipeline[p] \in GitLabStatus
    BY <1>1 DEF Agrees, IInv, TablesAgree, TypeOK
  <2>3. pipeline[p] \in {"success", "failed"}
    BY <2>1, <2>2 DEF OgcStatus, Finished, GitLabStatus
  <2>4. f \in Frame /\ f.pc = "setStatus" /\ f.got = pipeline[p] /\ f.pipe = p
    BY <1>1, <2>2 DEF Frame
  <2>5. worker'[w] = f
    BY <2>1, <2>4, EnterEffect DEF IInv
  <2>6. Agrees(worker[w])'
    BY <1>1, <2>2, <2>3, <2>4, <2>5 DEF Agrees
  <2>7. QED
    BY <1>1, <2>1, <2>4, <2>6, FrameStep
<1>4. QED
  BY <1>2, <1>3

\* The steps that read the process table and go on with what they found.
LEMMA FindStep ==
  ASSUME IInv, NEW w \in Workers, FindProcess(w) \/ RequeryProcess(w)
  PROVE  IInv'
<1> DEFINE p == worker[w].pipe
<1> USE DEF Steps, RegisterSteps
<1>1. /\ Agrees(worker[w]) /\ worker[w] \in Frame
      /\ worker[w].pc \in {"findProcess", "requeryProcess"}
      /\ UNCHANGED <<pipeline, hooks, deployment, process>>
  BY DEF IInv, FramesAgree, TypeOK, FindProcess, RequeryProcess, At
<1>2. p \in Pipelines /\ deployment[p] # None /\ worker[w].got = "success" /\ pipeline[p] = "success"
  BY <1>1 DEF Agrees
<1>3. CASE Return(w)
  BY <1>1, <1>3, ReturnStep
<1>4. ASSUME NEW k \in Targets(w), NEW step \in {"update", "link"},
             Enter(w, [worker[w] EXCEPT !.pc = step, !.row = k])
      PROVE  IInv'
  <2> DEFINE f == [worker[w] EXCEPT !.pc = step, !.row = k]
  <2>1. k \in Rows /\ StandsFor(k, p)
    BY <1>2 DEF Targets, DeployedBy, DeployedNamed, StandsFor
  <2>2. /\ f \in Frame
        /\ f.pc = step /\ f.row = k /\ f.pipe = p /\ f.got = worker[w].got
    BY <1>1, <2>1 DEF Frame
  <2>3. worker'[w] = f
    BY <1>4, <2>2, EnterEffect DEF IInv
  <2>4. StandsFor(k, p)'
    BY <1>1, <2>1, <2>2, <2>3 DEF StandsFor
  <2>5. Agrees(worker[w])'
    BY <1>1, <1>2, <2>1, <2>2, <2>3, <2>4 DEF Agrees
  <2>6. QED
    BY <1>1, <1>4, <2>2, <2>5, FrameStep
<1>5. CASE Enter(w, [worker[w] EXCEPT !.pc = "insertProcess"])
  <2> DEFINE f == [worker[w] EXCEPT !.pc = "insertProcess"]
  <2>1. f \in Frame /\ f.pc = "insertProcess" /\ f.pipe = p /\ f.got = worker[w].got
    BY <1>1 DEF Frame
  <2>2. worker'[w] = f
    BY <1>5, <2>1, EnterEffect DEF IInv
  <2>3. Agrees(worker[w])'
    BY <1>1, <1>2, <2>1, <2>2 DEF Agrees
  <2>4. QED
    BY <1>1, <1>5, <2>1, <2>3, FrameStep
<1>6. QED
  BY <1>3, <1>4, <1>5 DEF FindProcess, RequeryProcess

LEMMA SetStatusStep ==
  ASSUME IInv, NEW w \in Workers, SetStatus(w)
  PROVE  IInv'
<1> DEFINE p == worker[w].pipe
           s == OgcStatus(worker[w].got)
           d == [deployment[p] EXCEPT !.status = s]
<1>1. Agrees(worker[w]) /\ worker[w] \in Frame /\ worker[w].pc = "setStatus"
  BY DEF IInv, FramesAgree, TypeOK, SetStatus, At
<1>2. /\ p \in Pipelines /\ deployment[p] # None /\ deployment[p] \in DeploymentRow
      /\ worker[w].got \in {"success", "failed"}
      /\ worker[w].got = "success" => pipeline[p] = "success"
  BY <1>1 DEF Agrees, IInv, TypeOK
<1>3. /\ d \in DeploymentRow /\ d # None
      /\ d.name = deployment[p].name /\ d.deployer = deployment[p].deployer
      /\ d.process = deployment[p].process
  BY <1>2, RowAssumption DEF DeploymentRow, OgcStatus, Finished
<1>4. deployment' = [deployment EXCEPT ![p] = d] /\ UNCHANGED <<pipeline, hooks, process>>
  BY DEF SetStatus, Registers
<1>5. deployment'[p] = d /\ \A q \in Pipelines : q # p => deployment'[q] = deployment[q]
  BY <1>2, <1>4 DEF IInv, TypeOK
<1> HIDE DEF d
<1>6. TablesGrow
  BY <1>3, <1>4, <1>5 DEF TablesGrow
<1>7. PICK f \in Frame :
        /\ Enter(w, f) /\ f.pc \in {"idle", "findProcess"}
        /\ f = Idle \/ (/\ worker[w].got = "success"
                       /\ f.pipe = p /\ f.got = "success" /\ f.pc = "findProcess")
  <2>1. CASE Return(w)
    BY <2>1, IdleFrame DEF Return, Idle
  <2>2. CASE s = "successful" /\ Enter(w, [worker[w] EXCEPT !.pc = "findProcess"])
    <3> DEFINE g == [worker[w] EXCEPT !.pc = "findProcess"]
    <3>1. g \in Frame /\ g.pc = "findProcess" /\ g.pipe = p /\ g.got = worker[w].got
      BY <1>1 DEF Frame, Steps, RegisterSteps
    <3>2. worker[w].got = "success"
      BY <1>2, <2>2 DEF OgcStatus
    <3>3. QED
      BY <2>2, <3>1, <3>2
  <2>3. QED
    BY <2>1, <2>2 DEF SetStatus, Registers
<1>8. /\ worker' \in [Workers -> Frame] /\ worker'[w] = f
      /\ \A v \in Workers : v # w => worker'[v] = worker[v]
  BY <1>7, EnterEffect DEF IInv
<1>9. TypeOK'
  BY <1>2, <1>3, <1>4, <1>8 DEF IInv, TypeOK
<1>10. SoleInserter'
  <2>1. ~At(w, "insert")'
    BY <1>7, <1>8 DEF At
  <2>2. QED
    BY <1>8, <2>1, SoleInserterStable DEF IInv
<1>11. FramesAgree'
  <2>1. Agrees(worker[w])'
    <3>1. CASE f = Idle
      BY <1>8, <3>1, NoneAssumption DEF Agrees, Idle, RegisterSteps
    <3>2. CASE f # Idle
      <4>1. worker'[w].pc = "findProcess" /\ worker'[w].got = "success" /\ worker'[w].pipe = p
        BY <1>7, <1>8, <3>2
      <4>2. f.got \in {"success", "failed"} /\ p \in Pipelines /\ deployment'[p] # None /\ pipeline'[p] = "success"
        BY <1>2, <1>3, <1>4, <1>5, <1>7, <3>2
      <4>3. QED
        BY <4>1, <4>2 DEF Agrees, RegisterSteps
    <3>3. QED
      BY <3>1, <3>2
  <2>2. \A v \in Workers : At(v, "insert") => deployment'[worker[v].pipe] = None
    BY <1>2, <1>5 DEF IInv, FramesAgree, Agrees, At
  <2>3. QED
    BY <1>6, <1>7, <2>1, <2>2, FramesAgreeStable
<1>12. TablesAgree'
  BY <1>2, <1>4, <1>5 DEF IInv, TablesAgree
<1>13. LinkIsOwn' /\ OffersOnlyBuilt'
  <2>1. \A k \in Rows : process[k] # None => process[k].source \in Pipelines
    BY DEF IInv, TypeOK, ProcessRow
  <2>2. QED
    BY <1>2, <1>3, <1>4, <1>5, <2>1 DEF IInv, LinkIsOwn, OffersOnlyBuilt, StandsFor
<1>14. QED
  BY <1>9, <1>10, <1>11, <1>12, <1>13 DEF IInv

LEMMA InsertProcessStep ==
  ASSUME IInv, NEW w \in Workers, NEW k \in Rows, InsertProcess(w, k)
  PROVE  IInv'
<1> DEFINE p == worker[w].pipe
           f == [worker[w] EXCEPT !.pc = "requeryProcess"]
           row == [name |-> deployment[p].name, deployer |-> deployment[p].deployer,
                   status |-> "deployed", source |-> p]
<1>1. Agrees(worker[w]) /\ worker[w] \in Frame /\ worker[w].pc = "insertProcess"
  BY DEF IInv, FramesAgree, TypeOK, InsertProcess, At
<1>2. /\ p \in Pipelines /\ deployment[p] # None /\ deployment[p] \in DeploymentRow
      /\ worker[w].got = "success" /\ pipeline[p] = "success"
  BY <1>1 DEF Agrees, IInv, TypeOK, RegisterSteps
<1>3. row \in ProcessRow /\ row # None
  BY <1>2, RowAssumption DEF ProcessRow, DeploymentRow
<1>4. /\ Enter(w, f) /\ UNCHANGED <<pipeline, hooks, deployment>>
      /\ process[k] = None /\ process' = [process EXCEPT ![k] = row]
  BY DEF InsertProcess
<1>5. process'[k] = row /\ \A j \in Rows : j # k => process'[j] = process[j]
  BY <1>4 DEF IInv, TypeOK
<1>6. f \in Frame /\ f.pc = "requeryProcess" /\ f.pipe = p /\ f.got = worker[w].got
  BY <1>1 DEF Frame, Steps, RegisterSteps
<1>7. /\ worker' \in [Workers -> Frame] /\ worker'[w] = f
      /\ \A v \in Workers : v # w => worker'[v] = worker[v]
  BY <1>4, <1>6, EnterEffect DEF IInv
<1>8. TablesGrow
  BY <1>4, <1>5 DEF TablesGrow
<1>9. TypeOK'
  BY <1>3, <1>4, <1>7 DEF IInv, TypeOK
<1>10. SoleInserter'
  <2>1. ~At(w, "insert")'
    BY <1>6, <1>7 DEF At
  <2>2. QED
    BY <1>7, <2>1, SoleInserterStable DEF IInv
<1>11. worker'[w].pipe = p /\ \A q \in Pipelines : q = p => StandsFor(k, q)'
  BY <1>2, <1>3, <1>4, <1>5, <1>6, <1>7 DEF StandsFor
<1>12. FramesAgree'
  <2>1. Agrees(worker[w])'
    BY <1>2, <1>4, <1>6, <1>7, <1>11 DEF Agrees, RegisterSteps
  <2>2. \A v \in Workers : At(v, "insert") => deployment'[worker[v].pipe] = None
    BY <1>4 DEF IInv, FramesAgree, Agrees, At
  <2>3. QED
    BY <1>4, <1>6, <1>8, <2>1, <2>2, FramesAgreeStable
<1>13. TablesAgree'
  BY <1>4 DEF IInv, TablesAgree
<1>14. LinkIsOwn' /\ OffersOnlyBuilt'
  <2>1. LinkIsOwn'
    BY <1>4, <1>8, LinkIsOwnStable
  <2>2. OffersOnlyBuilt'
    <3> SUFFICES ASSUME NEW j \in Rows, process'[j] # None
                 PROVE  pipeline'[process'[j].source] = "success" /\ StandsFor(j, process[j].source)'
      BY DEF OffersOnlyBuilt
    <3>1. CASE j = k
      BY <1>2, <1>4, <1>5, <1>11, <3>1
    <3>2. CASE j # k
      BY <1>4, <1>5, <3>2 DEF IInv, OffersOnlyBuilt, StandsFor
    <3>3. QED
      BY <3>1, <3>2
  <2>3. QED
    BY <2>1, <2>2
<1>15. QED
  BY <1>9, <1>10, <1>12, <1>13, <1>14 DEF IInv

LEMMA UndeployStep ==
  ASSUME IInv, NEW w \in Workers, Undeploy(w)
  PROVE  IInv'
<1> DEFINE k == worker[w].row
           row == [process[k] EXCEPT !.status = "undeployed"]
<1>1. Agrees(worker[w]) /\ worker[w] \in Frame /\ worker[w].pc = "undeploy"
  BY DEF IInv, FramesAgree, TypeOK, Undeploy, At
<1>2. k \in Rows /\ process[k] # None /\ process[k] \in ProcessRow
  BY <1>1 DEF Agrees, IInv, TypeOK
<1>3. /\ row \in ProcessRow /\ row # None
      /\ row.name = process[k].name /\ row.deployer = process[k].deployer
      /\ row.source = process[k].source
  BY <1>2, RowAssumption DEF ProcessRow
<1>4. /\ Return(w) /\ UNCHANGED <<pipeline, hooks, deployment>>
      /\ process' = [process EXCEPT ![k] = row]
  BY DEF Undeploy
<1>5. process'[k] = row /\ \A j \in Rows : j # k => process'[j] = process[j]
  BY <1>2, <1>4 DEF IInv, TypeOK
<1> HIDE DEF row
<1>6. TablesGrow
  BY <1>3, <1>4, <1>5 DEF TablesGrow
<1>7. /\ worker' \in [Workers -> Frame] /\ worker'[w] = Idle
      /\ \A v \in Workers : v # w => worker'[v] = worker[v]
  BY <1>4, IdleFrame, EnterEffect DEF IInv, Return
<1>8. TypeOK'
  BY <1>3, <1>4, <1>7 DEF IInv, TypeOK
<1>9. SoleInserter'
  <2>1. ~At(w, "insert")'
    BY <1>7 DEF At, Idle
  <2>2. QED
    BY <1>7, <2>1, SoleInserterStable DEF IInv
<1>10. FramesAgree'
  <2>1. Agrees(worker[w])'
    BY <1>7, NoneAssumption DEF Agrees, Idle, RegisterSteps
  <2>2. \A v \in Workers : At(v, "insert") => deployment'[worker[v].pipe] = None
    BY <1>4 DEF IInv, FramesAgree, Agrees, At
  <2>3. QED
    BY <1>4, <1>6, <2>1, <2>2, IdleFrame, FramesAgreeStable DEF Return
<1>11. TablesAgree'
  BY <1>4 DEF IInv, TablesAgree
<1>12. LinkIsOwn'
  BY <1>4, <1>6, LinkIsOwnStable
<1>13. OffersOnlyBuilt'
  <2> SUFFICES ASSUME NEW j \in Rows, process'[j] # None
               PROVE  pipeline'[process'[j].source] = "success" /\ StandsFor(j, process[j].source)'
    BY DEF OffersOnlyBuilt
  <2>1. process[j] # None /\ process'[j].source = process[j].source
    BY <1>2, <1>3, <1>5
  <2>2. /\ process[j].source \in Pipelines /\ StandsFor(j, process[j].source)
        /\ pipeline[process[j].source] = "success"
    BY <2>1 DEF IInv, OffersOnlyBuilt, TypeOK, ProcessRow
  <2>3. QED
    BY <1>4, <1>6, <2>1, <2>2, StandsForStable
<1>14. QED
  BY <1>8, <1>9, <1>10, <1>11, <1>12, <1>13 DEF IInv

\* Either UPDATE of the last commit.
LEMMA FlushStep ==
  ASSUME IInv, NEW w \in Workers, Overwrite(w) \/ Link(w),
         NEW p \in Pipelines, p = worker[w].pipe, NEW k \in Rows, k = worker[w].row
  PROVE  IInv'
<1> DEFINE d == [deployment[p] EXCEPT !.process = k]
           row == [process[k] EXCEPT !.source = p]
<1>1. /\ Agrees(worker[w]) /\ worker[w] \in Frame
      /\ worker[w].pc \in {"update", "overwrite", "link"}
  BY DEF IInv, FramesAgree, TypeOK, Link, Overwrite
<1>2. /\ deployment[p] # None /\ deployment[p] \in DeploymentRow
      /\ pipeline[p] = "success" /\ worker[w].got = "success"
      /\ process[k] # None /\ process[k] \in ProcessRow
      /\ process[k].name = deployment[p].name /\ process[k].deployer = deployment[p].deployer
  BY <1>1 DEF Agrees, IInv, TypeOK, RegisterSteps, StandsFor
<1>3. /\ d \in DeploymentRow /\ d # None /\ d.process = k
      /\ d.name = deployment[p].name /\ d.deployer = deployment[p].deployer
  BY <1>2, RowAssumption DEF DeploymentRow
<1>4. /\ row \in ProcessRow /\ row # None /\ row.source = p
      /\ row.name = process[k].name /\ row.deployer = process[k].deployer
  BY <1>2, RowAssumption DEF ProcessRow
<1>5. /\ UNCHANGED <<pipeline, hooks>>
      /\ deployment' = [deployment EXCEPT ![p] = d] \/ deployment' = deployment
      /\ process' = [process EXCEPT ![k] = row] \/ process' = process
  BY DEF Link, Overwrite, Updated
<1>6. PICK g \in Frame :
        /\ Enter(w, g)
        /\ \/ g = Idle
           \/ g.pc \in {"link", "overwrite"} /\ g.pipe = p /\ g.row = k /\ g.got = "success"
  <2>1. ASSUME NEW step \in {"link", "overwrite"}
        PROVE  LET g == [worker[w] EXCEPT !.pc = step]
               IN  /\ g \in Frame /\ g.pc = step
                   /\ g.pipe = p /\ g.row = k /\ g.got = "success"
    BY <1>1, <1>2 DEF Frame, Steps, RegisterSteps
  <2>2. CASE Return(w)
    BY <2>2, IdleFrame DEF Return
  <2>3. CASE Enter(w, [worker[w] EXCEPT !.pc = "link"])
    BY <2>1, <2>3
  <2>4. CASE Enter(w, [worker[w] EXCEPT !.pc = "overwrite"])
    BY <2>1, <2>4
  <2>5. QED
    BY <2>2, <2>3, <2>4 DEF Link, Overwrite
<1> HIDE DEF d, row
<1>7. /\ deployment'[p] \in {d, deployment[p]}
      /\ \A q \in Pipelines : q # p => deployment'[q] = deployment[q]
      /\ process'[k] \in {row, process[k]}
      /\ \A j \in Rows : j # k => process'[j] = process[j]
  BY <1>5 DEF IInv, TypeOK
<1>8. TablesGrow
  BY <1>2, <1>3, <1>4, <1>5, <1>7 DEF TablesGrow
<1>9. /\ worker' \in [Workers -> Frame] /\ worker'[w] = g
      /\ \A v \in Workers : v # w => worker'[v] = worker[v]
  BY <1>6, EnterEffect DEF IInv
<1>10. TypeOK'
  BY <1>3, <1>4, <1>5, <1>9 DEF IInv, TypeOK
<1>11. SoleInserter'
  <2>1. ~At(w, "insert")'
    BY <1>6, <1>9 DEF At, Idle
  <2>2. QED
    BY <1>9, <2>1, SoleInserterStable DEF IInv
<1>12. FramesAgree'
  <2>1. StandsFor(k, p)'
    BY <1>2, <1>8, StandsForStable DEF StandsFor
  <2>2. Agrees(worker[w])'
    <3>1. CASE g = Idle
      BY <1>9, <3>1, NoneAssumption DEF Agrees, Idle, RegisterSteps
    <3>2. CASE /\ g.pc \in {"link", "overwrite"} /\ g.pipe = p
               /\ g.row = k /\ g.got = "success"
      <4>1. deployment'[p] # None /\ pipeline'[p] = "success"
        BY <1>2, <1>3, <1>5, <1>7
      <4>2. StandsFor(g.row, g.pipe)'
        BY <2>1, <3>2 DEF StandsFor
      <4>3. QED
        BY <1>9, <3>2, <4>1, <4>2 DEF Agrees, RegisterSteps, StandsFor
    <3>3. QED
      BY <1>6, <3>1, <3>2
  <2>3. \A v \in Workers : At(v, "insert") => deployment'[worker[v].pipe] = None
    BY <1>2, <1>7 DEF IInv, FramesAgree, Agrees, At
  <2>4. QED
    BY <1>6, <1>8, <2>2, <2>3, FramesAgreeStable
<1>13. TablesAgree'
  BY <1>2, <1>5, <1>7 DEF IInv, TablesAgree
<1>14. \A q \in Pipelines : q = p => StandsFor(k, q)'
  BY <1>2, <1>8, StandsForStable DEF StandsFor
<1>15. LinkIsOwn'
  <2> SUFFICES ASSUME NEW q \in Pipelines, deployment'[q] # None, deployment'[q].process # None
               PROVE  StandsFor(deployment[q].process, q)'
    BY DEF LinkIsOwn
  <2>1. CASE q = p /\ deployment'[q] = d
    BY <1>3, <1>14, <2>1
  <2>2. CASE deployment'[q] = deployment[q]
    <3>1. deployment[q].process \in Rows /\ StandsFor(deployment[q].process, q)
      BY <2>2 DEF IInv, LinkIsOwn, TypeOK, DeploymentRow
    <3>2. QED
      BY <1>8, <2>2, <3>1, StandsForStable
  <2>3. QED
    BY <1>7, <2>1, <2>2
<1>16. OffersOnlyBuilt'
  <2> SUFFICES ASSUME NEW j \in Rows, process'[j] # None
               PROVE  pipeline'[process'[j].source] = "success" /\ StandsFor(j, process[j].source)'
    BY DEF OffersOnlyBuilt
  <2>1. CASE j = k /\ process'[k] = row
    BY <1>2, <1>4, <1>5, <1>14, <2>1
  <2>2. CASE process'[j] = process[j]
    <3>1. /\ process[j].source \in Pipelines /\ StandsFor(j, process[j].source)
          /\ pipeline[process[j].source] = "success"
      BY <2>2 DEF IInv, OffersOnlyBuilt, TypeOK, ProcessRow
    <3>2. QED
      BY <1>5, <1>8, <2>2, <3>1, StandsForStable
  <2>3. QED
    BY <1>7, <2>1, <2>2
<1>17. QED
  BY <1>10, <1>11, <1>12, <1>13, <1>15, <1>16 DEF IInv

-----------------------------------------------------------------------------
(***************************************************************************)
(* The invariant, and what follows from it.                                *)
(***************************************************************************)

LEMMA ContinueStep ==
  ASSUME IInv, NEW w \in Workers, Continue(w)
  PROVE  IInv'
<1>1. CASE TriggerFails(w) \/ PollFallback(w) \/ Respond(w)
  BY <1>1, ReturnStep DEF TriggerFails, PollFallback, Respond
<1>2. CASE Overwrite(w) \/ Link(w)
  <2>1. worker[w].pipe \in Pipelines /\ worker[w].row \in Rows
    BY <1>2 DEF Overwrite, Link, IInv, FramesAgree, Agrees
  <2>2. QED
    BY <1>2, <2>1, FlushStep
<1>3. QED
  BY <1>1, <1>2, TriggerStep, InsertDeploymentStep, RequeryStep, UndeployStep,
     PollAskStep, SetStatusStep, FindStep, InsertProcessStep DEF Continue

LEMMA GitLabStep ==
  ASSUME IInv, GitLab
  PROVE  IInv'
<1>1. CASE \E h \in hooks : LoseHook(h)
  BY <1>1 DEF LoseHook, IInv, TypeOK, SoleInserter, FramesAgree, Agrees, TablesAgree,
              LinkIsOwn, OffersOnlyBuilt, StandsFor, At
<1>2. ASSUME NEW p \in Pipelines, PipelineEnds(p) \/ PipelineRetried(p)
      PROVE  IInv'
  <2>1. PICK s \in GitLabStatus :
          /\ pipeline' = [pipeline EXCEPT ![p] = s]
          /\ hooks' = hooks \/ hooks' = hooks \cup {<<p, s>>}
    BY <1>2 DEF PipelineEnds, PipelineRetried, GitLabStatus
  <2>2. /\ pipeline[p] \in {"running", "failed", "canceled"}
        /\ UNCHANGED <<deployment, process, worker>>
    BY <1>2 DEF PipelineEnds, PipelineRetried
  <2>3. pipeline'[p] = s /\ \A q \in Pipelines : q # p => pipeline'[q] = pipeline[q]
    BY <2>1 DEF IInv, TypeOK
  <2>4. TablesGrow
    BY <2>2, <2>3, NoneAssumption DEF TablesGrow, GitLabStatus
  <2>5. TypeOK'
    BY <2>1, <2>2 DEF IInv, TypeOK
  <2>6. SoleInserter'
    BY <2>2 DEF IInv, SoleInserter, At
  <2>7. FramesAgree'
    <3> SUFFICES ASSUME NEW v \in Workers PROVE Agrees(worker[v])'
      BY DEF FramesAgree
    <3>1. At(v, "insert") => deployment'[worker[v].pipe] = None
      BY <2>2 DEF IInv, FramesAgree, Agrees, At
    <3>2. QED
      BY <2>2, <2>4, <3>1, AgreesStable DEF IInv, FramesAgree
  <2>8. TablesAgree'
    <3> SUFFICES ASSUME NEW q \in Pipelines
                 PROVE  /\ deployment'[q] # None => pipeline'[q] # None
                        /\ <<q, "success">> \in hooks' => pipeline'[q] = "success"
      BY DEF TablesAgree
    <3>1. deployment'[q] # None => pipeline'[q] # None
      BY <2>2, <2>4 DEF IInv, TablesAgree, TablesGrow
    <3>2. ASSUME <<q, "success">> \in hooks' PROVE pipeline'[q] = "success"
      <4>1. CASE <<q, "success">> \in hooks
        BY <2>4, <4>1 DEF IInv, TablesAgree, TablesGrow
      <4>2. CASE <<q, "success">> = <<p, s>>
        BY <2>3, <4>2
      <4>3. QED
        BY <2>1, <3>2, <4>1, <4>2
    <3>3. QED
      BY <3>1, <3>2
  <2>9. LinkIsOwn'
    BY <2>2, <2>4, LinkIsOwnStable
  <2>10. OffersOnlyBuilt'
    <3>1. \A k \in Rows : process[k] # None => process[k].source \in Pipelines
      BY DEF IInv, TypeOK, ProcessRow
    <3>2. QED
      BY <2>2, <2>3, <3>1 DEF IInv, OffersOnlyBuilt, StandsFor
  <2>11. QED
    BY <2>5, <2>6, <2>7, <2>8, <2>9, <2>10 DEF IInv
<1>3. QED
  BY <1>1, <1>2 DEF GitLab

LEMMA InitIInv == Init => IInv
<1> SUFFICES ASSUME Init PROVE IInv
  OBVIOUS
<1>1. TypeOK
  BY IdleFrame DEF Init, TypeOK
<1>2. SoleInserter /\ TablesAgree /\ LinkIsOwn /\ OffersOnlyBuilt
  BY DEF Init, Idle, SoleInserter, At, TablesAgree, LinkIsOwn, OffersOnlyBuilt
<1>3. FramesAgree
  BY NoneAssumption DEF Init, Idle, FramesAgree, Agrees, RegisterSteps
<1>4. QED
  BY <1>1, <1>2, <1>3 DEF IInv

LEMMA StepIInv == IInv /\ [Next]_vars => IInv'
<1> SUFFICES ASSUME IInv, [Next]_vars PROVE IInv'
  OBVIOUS
<1>1. ASSUME NEW w \in Workers, Crash(w) PROVE IInv'
  BY <1>1, ReturnStep DEF Crash
<1>2. CASE UNCHANGED vars
  BY <1>2 DEF vars, IInv, TypeOK, SoleInserter, FramesAgree, Agrees, TablesAgree,
              LinkIsOwn, OffersOnlyBuilt, StandsFor, At
<1>3. QED
  BY <1>1, <1>2, RequestStep, ContinueStep, GitLabStep DEF Next

\* The inductive invariant holds in every behaviour: retries, crashes and lost
\* webhooks included.
THEOREM Invariance == Spec => []IInv
BY InitIInv, StepIInv, PTL DEF Spec

\* The tables and the handlers' frames are always well formed.
THEOREM TypeCorrect == Spec => []TypeOK
BY Invariance, PTL DEF IInv

\* A deployment is only ever linked to a process of its own id, version and
\* deployer (ogc.py:203-252).
THEOREM LinksAreOwn == Spec => []LinkIsOwn
BY Invariance, PTL DEF IInv

\* A process only ever offers what a deployment of its own key built with a
\* successful pipeline (ogc.py:191-236).
THEOREM OffersAreBuilt == Spec => []OffersOnlyBuilt
BY Invariance, PTL DEF IInv

\* The job a POST or PUT answers with is a recorded one of the id and version
\* asked for (ogc_process_util.py:327-335).
THEOREM AnswersAreOfTheName == Spec => []AnswersSameName
<1>1. IInv => AnswersSameName
  BY DEF IInv, FramesAgree, Agrees, AnswersSameName, At
<1>2. QED
  BY <1>1, Invariance, PTL

-----------------------------------------------------------------------------
(***************************************************************************)
(* What any step does to the rows.                                         *)
(***************************************************************************)

\* Rows keep their identity and are undeployed for good.
RowsStay ==
  \A k \in Rows :
    process[k] # None =>
      /\ process'[k] # None
      /\ process'[k].name = process[k].name
      /\ process'[k].deployer = process[k].deployer
      /\ process[k].status = "undeployed" => process'[k].status = "undeployed"

NoNewRow == \A k \in Rows : process[k] = None => process'[k] = None

\* Deployments keep their key, and their link once they have one.
DeploymentsStay ==
  \A p \in Pipelines :
    deployment[p] # None =>
      /\ deployment'[p] # None
      /\ deployment'[p].name = deployment[p].name
      /\ deployment'[p].deployer = deployment[p].deployer
      /\ deployment[p].process # None => deployment'[p].process # None

\* Steps that write neither table.
LEMMA Writers ==
  ASSUME Next
  PROVE  \/ UNCHANGED <<deployment, process>>
         \/ \E w \in Workers :
              \/ InsertDeployment(w) \/ SetStatus(w) \/ Undeploy(w) \/ Overwrite(w) \/ Link(w)
              \/ \E k \in Rows : InsertProcess(w, k)
<1>1. ASSUME NEW w \in Workers, Request(w) PROVE UNCHANGED <<deployment, process>>
  BY <1>1 DEF Request, PostCheck, PutCheck, DeleteCheck, PollLookup, ReceiveHook
<1>2. ASSUME NEW w \in Workers, Crash(w) PROVE UNCHANGED <<deployment, process>>
  BY <1>2 DEF Crash
<1>3. CASE GitLab
  BY <1>3 DEF GitLab, PipelineEnds, PipelineRetried, LoseHook
<1>4. ASSUME NEW w \in Workers, Continue(w)
      PROVE  \/ UNCHANGED <<deployment, process>>
             \/ InsertDeployment(w) \/ SetStatus(w) \/ Undeploy(w) \/ Overwrite(w) \/ Link(w)
             \/ \E k \in Rows : InsertProcess(w, k)
  BY <1>4 DEF Continue, Trigger, TriggerFails, PostRequery, PutRequery, Respond, PollAsk,
              PollFallback, FindProcess, RequeryProcess
<1> QED BY <1>1, <1>2, <1>3, <1>4 DEF Next

LEMMA SetStatusWrites ==
  ASSUME IInv, NEW w \in Workers, SetStatus(w)
  PROVE  /\ UNCHANGED process /\ worker[w].pipe \in Pipelines
         /\ deployment[worker[w].pipe] # None
         /\ LET p == worker[w].pipe IN
              /\ deployment' = [deployment EXCEPT ![p] = deployment'[p]]
              /\ deployment'[p] # None
              /\ deployment'[p] = [deployment[p] EXCEPT !.status = OgcStatus(worker[w].got)]
              /\ deployment'[p].name = deployment[p].name
              /\ deployment'[p].deployer = deployment[p].deployer
              /\ deployment'[p].process = deployment[p].process
              /\ deployment'[p].status = OgcStatus(worker[w].got)
<1> DEFINE p == worker[w].pipe
           d == [deployment[p] EXCEPT !.status = OgcStatus(worker[w].got)]
<1>1. /\ p \in Pipelines /\ deployment[p] # None /\ deployment[p] \in DeploymentRow
      /\ worker[w].got \in {"success", "failed"}
  BY DEF SetStatus, At, IInv, FramesAgree, Agrees, TypeOK
<1>2. /\ d \in DeploymentRow
      /\ d.name = deployment[p].name /\ d.deployer = deployment[p].deployer
      /\ d.process = deployment[p].process /\ d.status = OgcStatus(worker[w].got)
  BY <1>1 DEF DeploymentRow, OgcStatus, Finished
<1>3. d # None
  BY <1>2, RowAssumption
<1>4. deployment' = [deployment EXCEPT ![p] = d] /\ UNCHANGED process
  BY DEF SetStatus
<1>5. deployment'[p] = d
  BY <1>1, <1>4 DEF IInv, TypeOK
<1> QED BY <1>1, <1>2, <1>3, <1>4, <1>5

LEMMA LinkWrites ==
  ASSUME IInv, NEW w \in Workers, Link(w)
  PROVE  /\ UNCHANGED process /\ worker[w].pipe \in Pipelines /\ worker[w].row \in Rows
         /\ deployment[worker[w].pipe] # None
         /\ LET p == worker[w].pipe IN
              /\ deployment' = [deployment EXCEPT ![p] = deployment'[p]]
              /\ deployment'[p] # None
              /\ deployment'[p].name = deployment[p].name
              /\ deployment'[p].deployer = deployment[p].deployer
              /\ deployment'[p].status = deployment[p].status
              /\ deployment'[p].process = worker[w].row
<1> DEFINE p == worker[w].pipe
           d == [deployment[p] EXCEPT !.process = worker[w].row]
<1>1. /\ p \in Pipelines /\ deployment[p] # None /\ deployment[p] \in DeploymentRow
      /\ worker[w].row \in Rows
  BY DEF Link, IInv, FramesAgree, Agrees, TypeOK
<1>2. /\ d \in DeploymentRow
      /\ d.name = deployment[p].name /\ d.deployer = deployment[p].deployer
      /\ d.status = deployment[p].status /\ d.process = worker[w].row
  BY <1>1 DEF DeploymentRow
<1>3. d # None
  BY <1>2, RowAssumption
<1>4. deployment' = [deployment EXCEPT ![p] = d] /\ UNCHANGED process
  BY DEF Link
<1>5. deployment'[p] = d
  BY <1>1, <1>4 DEF IInv, TypeOK
<1> QED BY <1>1, <1>2, <1>3, <1>4, <1>5

LEMMA InsertDeploymentWrites ==
  ASSUME IInv, NEW w \in Workers, InsertDeployment(w)
  PROVE  /\ UNCHANGED process /\ worker[w].pipe \in Pipelines
         /\ worker[w].name \in Names /\ worker[w].user \in Users
         /\ deployment[worker[w].pipe] = None
         /\ deployment' = [deployment EXCEPT ![worker[w].pipe] = NewDeployment(worker[w])]
         /\ NewDeployment(worker[w]) # None
<1>1. /\ worker[w].pipe \in Pipelines /\ deployment[worker[w].pipe] = None
      /\ worker[w].name \in Names /\ worker[w].user \in Users
  BY DEF InsertDeployment, At, IInv, FramesAgree, Agrees
<1>2. NewDeployment(worker[w]) \in DeploymentRow
  BY <1>1 DEF NewDeployment, DeploymentRow
<1>3. NewDeployment(worker[w]) # None
  BY <1>2, RowAssumption
<1> QED BY <1>1, <1>3 DEF InsertDeployment

LEMMA InsertProcessWrites ==
  ASSUME IInv, NEW w \in Workers, NEW k \in Rows, InsertProcess(w, k)
  PROVE  /\ UNCHANGED deployment /\ worker[w].pipe \in Pipelines
         /\ deployment[worker[w].pipe] # None /\ process[k] = None
         /\ LET p == worker[w].pipe IN
              /\ process' = [process EXCEPT ![k] = process'[k]]
              /\ process'[k] # None
              /\ process'[k].name = deployment[p].name
              /\ process'[k].deployer = deployment[p].deployer
              /\ process'[k].status = "deployed" /\ process'[k].source = p
<1> DEFINE p == worker[w].pipe
           row == [name |-> deployment[p].name, deployer |-> deployment[p].deployer,
                   status |-> "deployed", source |-> p]
<1>1. p \in Pipelines /\ deployment[p] # None /\ deployment[p] \in DeploymentRow
  BY DEF InsertProcess, At, IInv, FramesAgree, Agrees, TypeOK
<1>2. row \in ProcessRow
  BY <1>1 DEF ProcessRow, DeploymentRow
<1>3. row # None
  BY <1>2, RowAssumption
<1>4. process' = [process EXCEPT ![k] = row] /\ process[k] = None /\ UNCHANGED deployment
  BY DEF InsertProcess
<1>5. process'[k] = row
  BY <1>4 DEF IInv, TypeOK
<1>6. /\ row.name = deployment[p].name /\ row.deployer = deployment[p].deployer
      /\ row.status = "deployed" /\ row.source = p
  OBVIOUS
<1> HIDE DEF row
<1> QED BY <1>1, <1>3, <1>4, <1>5, <1>6

LEMMA UndeployWrites ==
  ASSUME IInv, NEW w \in Workers, Undeploy(w)
  PROVE  /\ UNCHANGED deployment /\ worker[w].row \in Rows /\ process[worker[w].row] # None
         /\ LET k == worker[w].row IN
              /\ process' = [process EXCEPT ![k] = process'[k]]
              /\ process'[k] # None
              /\ process'[k].name = process[k].name
              /\ process'[k].deployer = process[k].deployer
              /\ process'[k].status = "undeployed" /\ process'[k].source = process[k].source
<1> DEFINE k == worker[w].row
           row == [process[k] EXCEPT !.status = "undeployed"]
<1>1. k \in Rows /\ process[k] # None /\ process[k] \in ProcessRow
  BY DEF Undeploy, At, IInv, FramesAgree, Agrees, TypeOK
<1>2. /\ row \in ProcessRow
      /\ row.name = process[k].name /\ row.deployer = process[k].deployer
      /\ row.source = process[k].source /\ row.status = "undeployed"
  BY <1>1 DEF ProcessRow
<1>3. row # None
  BY <1>2, RowAssumption
<1>4. process' = [process EXCEPT ![k] = row] /\ UNCHANGED deployment
  BY DEF Undeploy
<1>5. process'[k] = row
  BY <1>1, <1>4 DEF IInv, TypeOK
<1> QED BY <1>1, <1>2, <1>3, <1>4, <1>5

LEMMA OverwriteWrites ==
  ASSUME IInv, NEW w \in Workers, Overwrite(w)
  PROVE  /\ UNCHANGED deployment /\ worker[w].row \in Rows /\ worker[w].pipe \in Pipelines
         /\ StandsFor(worker[w].row, worker[w].pipe)
         /\ LET k == worker[w].row IN
              /\ process' = [process EXCEPT ![k] = process'[k]]
              /\ process'[k] # None
              /\ process'[k].name = process[k].name
              /\ process'[k].deployer = process[k].deployer
              /\ process'[k].status = process[k].status /\ process'[k].source = worker[w].pipe
<1> DEFINE k == worker[w].row
           row == [process[k] EXCEPT !.source = worker[w].pipe]
<1>1. /\ k \in Rows /\ process[k] # None /\ process[k] \in ProcessRow
      /\ worker[w].pipe \in Pipelines /\ StandsFor(k, worker[w].pipe)
  BY DEF Overwrite, IInv, FramesAgree, Agrees, TypeOK, StandsFor
<1>2. /\ row \in ProcessRow
      /\ row.name = process[k].name /\ row.deployer = process[k].deployer
      /\ row.source = worker[w].pipe /\ row.status = process[k].status
  BY <1>1 DEF ProcessRow
<1>3. row # None
  BY <1>2, RowAssumption
<1>4. process' = [process EXCEPT ![k] = row] /\ UNCHANGED deployment
  BY DEF Overwrite, Updated
<1>5. process'[k] = row
  BY <1>1, <1>4 DEF IInv, TypeOK
<1> QED BY <1>1, <1>2, <1>3, <1>4, <1>5

LEMMA StepStays ==
  ASSUME IInv, [Next]_vars
  PROVE  /\ RowsStay /\ DeploymentsStay
         /\ NoNewRow \/ \E w \in Workers : \E k \in Rows : InsertProcess(w, k)
<1> USE DEF RowsStay, DeploymentsStay, NoNewRow
<1>1. CASE UNCHANGED <<deployment, process>>
  BY <1>1
<1>2. ASSUME NEW w \in Workers, InsertDeployment(w)
      PROVE  RowsStay /\ DeploymentsStay /\ NoNewRow
  BY <1>2, InsertDeploymentWrites DEF IInv, TypeOK
<1>3. ASSUME NEW w \in Workers, SetStatus(w)
      PROVE  RowsStay /\ DeploymentsStay /\ NoNewRow
  BY <1>3, SetStatusWrites DEF IInv, TypeOK
<1>4. ASSUME NEW w \in Workers, Link(w)
      PROVE  RowsStay /\ DeploymentsStay /\ NoNewRow
  BY <1>4, LinkWrites, NoneAssumption DEF IInv, TypeOK
<1>5. ASSUME NEW w \in Workers, Undeploy(w)
      PROVE  RowsStay /\ DeploymentsStay /\ NoNewRow
  BY <1>5, UndeployWrites DEF IInv, TypeOK
<1>6. ASSUME NEW w \in Workers, Overwrite(w)
      PROVE  RowsStay /\ DeploymentsStay /\ NoNewRow
  BY <1>6, OverwriteWrites DEF IInv, TypeOK, StandsFor
<1>7. ASSUME NEW w \in Workers, NEW k \in Rows, InsertProcess(w, k)
      PROVE  RowsStay /\ DeploymentsStay
  BY <1>7, InsertProcessWrites DEF IInv, TypeOK
<1> QED BY <1>1, <1>2, <1>3, <1>4, <1>5, <1>6, <1>7, Writers DEF vars

\* Undeploying is for good and a row keeps its identity, whatever deployment
\* finishes at the same time (ogc.py:484, ogc.py:203-216).
THEOREM UndeployedStays == Spec => UndeployedForGood
<1>1. IInv /\ [Next]_vars => RowsStay
  BY StepStays
<1> QED BY <1>1, Invariance, PTL DEF Spec, UndeployedForGood, RowsStay

-----------------------------------------------------------------------------
(***************************************************************************)
(* The history: what only a crash or a race can break.                     *)
(***************************************************************************)

\* A worker moves by a step of its own.
LEMMA OwnStep ==
  ASSUME Next, NEW v \in Workers, worker'[v] # worker[v], TypeOK
  PROVE  Request(v) \/ Continue(v) \/ Crash(v)
<1>1. ASSUME NEW w \in Workers, w # v, Request(w) \/ Continue(w) \/ Crash(w)
      PROVE  FALSE
  <2>1. ASSUME NEW f, Enter(w, f) PROVE FALSE
    BY <1>1, <2>1 DEF Enter, TypeOK
  <2>2. UNCHANGED worker \/ \E f : Enter(w, f)
    <3>1. CASE Request(w)
      BY <3>1 DEF Request, PostCheck, PutCheck, DeleteCheck, PollLookup, ReceiveHook
    <3>2. CASE Crash(w)
      BY <3>2 DEF Crash, Return
    <3>3. CASE Continue(w)
      BY <3>3 DEF Continue, Trigger, TriggerFails, InsertDeployment, PostRequery, PutRequery,
                  Respond, Undeploy, PollAsk, PollFallback, SetStatus, FindProcess,
                  InsertProcess, RequeryProcess, Overwrite, Link, Return
    <3> QED BY <1>1, <3>1, <3>2, <3>3
  <2> QED BY <2>1, <2>2
<1>2. CASE GitLab
  BY <1>2 DEF GitLab, PipelineEnds, PipelineRetried, LoseHook
<1> QED BY <1>1, <1>2 DEF Next

\* Where a worker may be after its step, if it is at a deployment's status then.
LEMMA StatusMoves ==
  ASSUME IInv, Next, NEW v \in Workers, worker'[v] # worker[v],
         worker'[v].pc \in {"ask", "setStatus"} \cup RegisterSteps
  PROVE  \/ /\ worker'[v].pc \in {"ask", "setStatus"} /\ worker'[v].op = "status"
            /\ worker'[v].pc = "setStatus" => <<worker'[v].pipe, worker'[v].got>> \in hooks
         \/ /\ worker[v].pc = "ask" /\ worker'[v].pc = "setStatus"
            /\ worker'[v].op = worker[v].op /\ worker'[v].pipe = worker[v].pipe
            /\ worker'[v].got = pipeline[worker[v].pipe]
         \/ /\ worker[v].pc \in {"setStatus"} \cup RegisterSteps
            /\ worker'[v].pc \in RegisterSteps
            /\ worker'[v].op = worker[v].op /\ worker'[v].pipe = worker[v].pipe
            /\ worker'[v].got = worker[v].got
            /\ worker[v].pc = "setStatus" => SetStatus(v) /\ OgcStatus(worker[v].got) = "successful"
            /\ worker'[v].pc = "insertProcess" => FindProcess(v) /\ Targets(v) = {}
            /\ worker'[v].pc = "overwrite" => Link(v)
<1>1. worker[v] \in Frame /\ worker \in [Workers -> Frame]
  BY DEF IInv, TypeOK
<1>2. ASSUME NEW f, Enter(v, f) PROVE worker'[v] = f
  BY <1>1, <1>2 DEF Enter
<1>3. ~Return(v)
  BY <1>2 DEF Return, Idle, RegisterSteps
<1>4. ASSUME NEW step, NEW x
      PROVE  /\ LET g == [worker[v] EXCEPT !.pc = step] IN
                   g.pc = step /\ g.op = worker[v].op /\ g.pipe = worker[v].pipe /\ g.got = worker[v].got
             /\ LET g == [worker[v] EXCEPT !.pc = step, !.row = x] IN
                   g.pc = step /\ g.op = worker[v].op /\ g.pipe = worker[v].pipe /\ g.got = worker[v].got
             /\ LET g == [worker[v] EXCEPT !.pc = step, !.got = x] IN
                   g.pc = step /\ g.op = worker[v].op /\ g.pipe = worker[v].pipe /\ g.got = x
             /\ LET g == [worker[v] EXCEPT !.pc = step, !.pipe = x] IN g.pc = step
             /\ LET g == [worker[v] EXCEPT !.pc = step, !.job = x] IN g.pc = step
  BY <1>1 DEF Frame
<1> USE DEF RegisterSteps
<1>5. CASE Request(v)
  <2>1. ASSUME NEW u \in Users, NEW n \in Names, PostCheck(v, u, n) PROVE FALSE
    BY <1>2, <2>1 DEF PostCheck, Idle
  <2>2. ASSUME NEW k \in Rows, PutCheck(v, k) \/ DeleteCheck(v, k) PROVE FALSE
    BY <1>2, <2>2 DEF PutCheck, DeleteCheck, Idle
  <2>3. ASSUME NEW p \in Pipelines, PollLookup(v, p)
        PROVE  worker'[v].pc = "ask" /\ worker'[v].op = "status"
    BY <1>2, <2>3 DEF PollLookup, Idle
  <2>4. ASSUME NEW p \in Pipelines, NEW s \in GitLabStatus, ReceiveHook(v, p, s)
        PROVE  /\ worker'[v].pc = "setStatus" /\ worker'[v].op = "status"
               /\ <<worker'[v].pipe, worker'[v].got>> \in hooks
    BY <1>2, <2>4 DEF ReceiveHook, Idle
  <2> QED BY <1>5, <2>1, <2>2, <2>3, <2>4 DEF Request
<1>6. CASE Continue(v)
  <2>1. ASSUME NEW p \in Pipelines, Trigger(v, p) PROVE FALSE
    <3>1. worker'[v] = [worker[v] EXCEPT !.pc = "insert", !.pipe = p]
      BY <1>2, <2>1 DEF Trigger
    <3>2. worker'[v].pc = "insert"
      BY <1>4, <3>1
    <3> QED BY <3>2
  <2>2. ASSUME InsertDeployment(v) \/ PostRequery(v) \/ PutRequery(v) PROVE FALSE
    <3>1. CASE InsertDeployment(v)
      <4>1. worker'[v] = [worker[v] EXCEPT !.pc = "requery"]
        BY <1>2, <3>1 DEF InsertDeployment
      <4>2. worker'[v].pc = "requery"
        BY <1>4, <4>1
      <4> QED BY <4>2
    <3>2. CASE PostRequery(v) \/ PutRequery(v)
      <4>1. \E x : worker'[v] = [worker[v] EXCEPT !.pc = "respond", !.job = x]
        BY <1>2, <1>3, <3>2 DEF PostRequery, PutRequery
      <4>2. worker'[v].pc = "respond"
        BY <1>4, <4>1
      <4> QED BY <4>2
    <3> QED BY <2>2, <3>1, <3>2
  <2>3. ASSUME TriggerFails(v) \/ Respond(v) \/ Undeploy(v) \/ PollFallback(v) PROVE FALSE
    BY <1>3, <2>3 DEF TriggerFails, Respond, Undeploy, PollFallback
  <2>4. CASE PollAsk(v)
    <3>1. /\ worker[v].pc = "ask"
          /\ worker'[v] = [worker[v] EXCEPT !.pc = "setStatus", !.got = pipeline[worker[v].pipe]]
      BY <1>2, <1>3, <2>4 DEF PollAsk, At
    <3> QED BY <1>4, <3>1
  <2>5. CASE SetStatus(v)
    <3>1. /\ worker[v].pc = "setStatus" /\ worker'[v] = [worker[v] EXCEPT !.pc = "findProcess"]
          /\ OgcStatus(worker[v].got) = "successful"
      BY <1>2, <1>3, <2>5 DEF SetStatus, Registers, At
    <3>2. /\ worker'[v].pc = "findProcess" /\ worker'[v].op = worker[v].op
          /\ worker'[v].pipe = worker[v].pipe /\ worker'[v].got = worker[v].got
      BY <1>4, <3>1
    <3> QED BY <2>5, <3>1, <3>2
  <2>6. CASE FindProcess(v)
    <3>1. /\ worker[v].pc = "findProcess"
          /\ \/ \E k \in Targets(v) : worker'[v] = [worker[v] EXCEPT !.pc = "update", !.row = k]
             \/ Targets(v) = {} /\ worker'[v] = [worker[v] EXCEPT !.pc = "insertProcess"]
      BY <1>2, <2>6 DEF FindProcess, At
    <3>2. CASE \E k \in Targets(v) : worker'[v] = [worker[v] EXCEPT !.pc = "update", !.row = k]
      <4>1. /\ worker'[v].pc = "update" /\ worker'[v].op = worker[v].op
            /\ worker'[v].pipe = worker[v].pipe /\ worker'[v].got = worker[v].got
        BY <1>4, <3>2
      <4> QED BY <3>1, <4>1
    <3>3. CASE Targets(v) = {} /\ worker'[v] = [worker[v] EXCEPT !.pc = "insertProcess"]
      <4>1. /\ worker'[v].pc = "insertProcess" /\ worker'[v].op = worker[v].op
            /\ worker'[v].pipe = worker[v].pipe /\ worker'[v].got = worker[v].got
        BY <1>4, <3>3
      <4> QED BY <2>6, <3>1, <3>3, <4>1
    <3> QED BY <3>1, <3>2, <3>3
  <2>7. CASE \E k \in Rows : InsertProcess(v, k)
    <3>1. /\ worker[v].pc = "insertProcess"
          /\ worker'[v] = [worker[v] EXCEPT !.pc = "requeryProcess"]
      BY <1>2, <2>7 DEF InsertProcess, At
    <3> QED BY <1>4, <3>1
  <2>8. CASE RequeryProcess(v)
    <3>1. /\ worker[v].pc = "requeryProcess"
          /\ \E k \in Targets(v) : worker'[v] = [worker[v] EXCEPT !.pc = "link", !.row = k]
      BY <1>2, <1>3, <2>8 DEF RequeryProcess, At
    <3> QED BY <1>4, <3>1
  <2>9. CASE Overwrite(v)
    <3>1. /\ worker[v].pc = "update"
          /\ worker'[v] = [worker[v] EXCEPT !.pc = "link"]
      BY <1>2, <1>3, <2>9 DEF Overwrite
    <3> QED BY <1>4, <3>1
  <2>10. CASE Link(v)
    <3>1. /\ worker[v].pc = "update"
          /\ worker'[v] = [worker[v] EXCEPT !.pc = "overwrite"]
      BY <1>2, <1>3, <2>10 DEF Link
    <3> QED BY <1>4, <2>10, <3>1
  <2> QED BY <1>6, <2>1, <2>2, <2>3, <2>4, <2>5, <2>6, <2>7, <2>8, <2>9, <2>10 DEF Continue
<1>7. CASE Crash(v)
  BY <1>3, <1>7 DEF Crash
<1> QED BY <1>5, <1>6, <1>7, OwnStep DEF IInv

LEMMA RegistersStep ==
  ASSUME IInv, Next, RegistersByStatus
  PROVE  RegistersByStatus'
<1> SUFFICES ASSUME NEW v \in Workers
             PROVE  /\ worker'[v].pc \in {"ask", "setStatus"} \cup RegisterSteps =>
                          worker'[v].op = "status"
                    /\ worker'[v].pc = "overwrite" => deployment'[worker'[v].pipe].process # None
  BY DEF RegistersByStatus, At
<1>1. CASE worker'[v] = worker[v]
  <2>1. worker[v].pc = "overwrite" =>
          worker[v].pipe \in Pipelines /\ deployment[worker[v].pipe] # None
    BY DEF IInv, FramesAgree, Agrees
  <2> QED BY <1>1, <2>1, StepStays DEF RegistersByStatus, At, DeploymentsStay
<1>2. CASE worker'[v] # worker[v]
  <2>1. ASSUME worker'[v].pc = "overwrite" PROVE deployment'[worker'[v].pipe].process # None
    <3>1. Link(v) /\ worker'[v].pipe = worker[v].pipe
      BY <1>2, <2>1, StatusMoves DEF RegisterSteps
    <3> QED BY <3>1, LinkWrites, NoneAssumption
  <2> QED BY <1>2, <2>1, StatusMoves DEF RegistersByStatus
<1> QED BY <1>1, <1>2

\* A deployment with a link is registered, and one that is registered stays so.
LEMMA LinkedIsRegistered ==
  ASSUME IInv', NEW p \in Pipelines, deployment'[p] # None, deployment'[p].process # None
  PROVE  Registered(p)'
BY DEF IInv, TypeOK, DeploymentRow, LinkIsOwn, Registered

LEMMA RegisteredStays ==
  ASSUME IInv, [Next]_vars, NEW p \in Pipelines, Registered(p)
  PROVE  Registered(p)'
<1>1. PICK k \in Rows : /\ StandsFor(k, p)
                        /\ deployment[p].process = None => process[k].status = "undeployed"
  BY DEF Registered
<1>2. RowsStay /\ DeploymentsStay
  BY StepStays
<1>3. StandsFor(k, p)'
  BY <1>1, <1>2 DEF StandsFor, RowsStay, DeploymentsStay
<1>4. deployment'[p].process = None => process'[k].status = "undeployed"
  BY <1>1, <1>2 DEF StandsFor, RowsStay, DeploymentsStay
<1> QED BY <1>3, <1>4 DEF Registered

\* Whoever records a success goes on to register it.
LEMMA NewSuccessRegisters ==
  ASSUME IInv, Next, NEW p \in Pipelines, Succeeded(p)', ~Succeeded(p)
  PROVE  Registering(p)'
<1>1. \/ \E w \in Workers : InsertDeployment(w) \/ SetStatus(w) \/ Link(w)
      \/ UNCHANGED deployment
  BY Writers DEF Undeploy, Overwrite, InsertProcess
<1>2. ASSUME NEW w \in Workers, InsertDeployment(w) PROVE FALSE
  <2>1. NewDeployment(worker[w]).status = "accepted"
    BY DEF NewDeployment
  <2>2. \A q \in Pipelines : deployment'[q] = deployment[q] \/ deployment'[q].status = "accepted"
    BY <1>2, <2>1, InsertDeploymentWrites DEF IInv, TypeOK
  <2> QED BY <2>2 DEF Succeeded
<1>3. ASSUME NEW w \in Workers, Link(w) PROVE FALSE
  BY <1>3, LinkWrites DEF Succeeded, IInv, TypeOK
<1>4. ASSUME NEW w \in Workers, SetStatus(w) PROVE Registering(p)'
  <2>1. worker[w].pipe = p /\ OgcStatus(worker[w].got) = "successful"
    BY <1>4, SetStatusWrites DEF Succeeded, IInv, TypeOK
  <2>2. worker'[w] = [worker[w] EXCEPT !.pc = "findProcess"]
    BY <1>4, <2>1 DEF SetStatus, Registers, Enter, IInv, TypeOK
  <2>3. worker'[w].pc = "findProcess" /\ worker'[w].pipe = p
    BY <2>1, <2>2 DEF IInv, TypeOK, Frame
  <2> QED BY <2>3 DEF Registering, RegisterSteps
<1>5. CASE UNCHANGED deployment
  BY <1>5 DEF Succeeded
<1> QED BY <1>1, <1>2, <1>3, <1>4, <1>5

\* A registration that ends without being cut short leaves the process registered.
LEMMA EndOfRegistration ==
  ASSUME IInv, IInv', RegistersByStatus, Next, NEW p \in Pipelines,
         Registering(p), ~Registering(p)', ~CutShort(p), Succeeded(p)'
  PROVE  Registered(p)'
<1>1. PICK w \in Workers : worker[w].pipe = p /\ worker[w].pc \in RegisterSteps
  BY DEF Registering
<1>2. worker[w] \in Frame /\ Agrees(worker[w]) /\ deployment[p] # None
  BY <1>1 DEF IInv, TypeOK, FramesAgree, Agrees, RegisterSteps
<1>3. ~(worker'[w].pc \in RegisterSteps /\ worker'[w].pipe = p)
  BY DEF Registering
<1>4. ASSUME NEW f, Enter(w, f) PROVE worker'[w] = f
  BY <1>4 DEF Enter, IInv, TypeOK
<1>5. ASSUME NEW step \in RegisterSteps, NEW x,
             \/ Enter(w, [worker[w] EXCEPT !.pc = step])
             \/ Enter(w, [worker[w] EXCEPT !.pc = step, !.row = x])
      PROVE  FALSE
  <2>1. \/ worker'[w] = [worker[w] EXCEPT !.pc = step]
        \/ worker'[w] = [worker[w] EXCEPT !.pc = step, !.row = x]
    BY <1>4, <1>5
  <2>2. worker'[w].pc = step /\ worker'[w].pipe = p
    BY <1>1, <1>2, <2>1 DEF Frame
  <2> QED BY <1>3, <2>2
<1>6. Continue(w) \/ Crash(w)
  <2>1. worker'[w] # worker[w]
    BY <1>1, <1>3
  <2>2. ~Request(w)
    BY <1>1 DEF Request, PostCheck, PutCheck, DeleteCheck, PollLookup, ReceiveHook, At, RegisterSteps
  <2> QED BY <2>1, <2>2, OwnStep DEF IInv
<1>7. CASE RequeryProcess(w)
  <2>1. Targets(w) = {} /\ UNCHANGED <<deployment, process>> /\ worker[w].pc = "requeryProcess"
    BY <1>5, <1>7 DEF RequeryProcess, RegisterSteps, At
  <2>2. PICK k \in Rows : StandsFor(k, p)
    BY <1>1, <1>2, <2>1 DEF Agrees
  <2>3. process[k].status = "undeployed"
    BY <1>1, <2>1, <2>2 DEF Targets, DeployedBy, DeployedNamed, StandsFor, IInv, TypeOK, ProcessRow
  <2> QED BY <2>1, <2>2, <2>3 DEF Registered, StandsFor
<1>8. CASE Overwrite(w)
  <2>1. worker[w].pc = "overwrite" /\ UNCHANGED deployment
    BY <1>5, <1>8 DEF Overwrite, RegisterSteps
  <2>2. deployment'[p] # None /\ deployment'[p].process # None
    BY <1>1, <1>2, <2>1 DEF RegistersByStatus, At
  <2> QED BY <2>2, LinkedIsRegistered
<1>9. CASE Link(w)
  <2>1. deployment'[p] # None /\ deployment'[p].process # None
    BY <1>1, <1>9, LinkWrites, NoneAssumption
  <2> QED BY <2>1, LinkedIsRegistered
<1>10. CASE Crash(w) /\ ~RequeryProcess(w)
  BY <1>1, <1>10 DEF CutShort
<1>11. ASSUME Continue(w), ~RequeryProcess(w), ~Overwrite(w), ~Link(w) PROVE FALSE
  <2>1. FindProcess(w) \/ \E k \in Rows : InsertProcess(w, k)
    BY <1>1, <1>11 DEF Continue, Trigger, TriggerFails, InsertDeployment, PostRequery, PutRequery,
                       Respond, Undeploy, PollAsk, PollFallback, SetStatus, At, RegisterSteps
  <2> QED BY <1>5, <2>1 DEF FindProcess, InsertProcess, RegisterSteps
<1> QED BY <1>6, <1>7, <1>8, <1>9, <1>10, <1>11

LEMMA UncutStep ==
  ASSUME IInv, IInv', RegistersByStatus, UncutIsRegistered, HistoryNext
  PROVE  UncutIsRegistered'
<1> SUFFICES ASSUME NEW p \in Pipelines, p \notin cut', Succeeded(p)', ~Registering(p)'
             PROVE  Registered(p)'
  BY DEF UncutIsRegistered
<1>1. Next /\ p \notin cut /\ ~CutShort(p)
  BY DEF HistoryNext
<1>2. CASE Registering(p)
  BY <1>1, <1>2, EndOfRegistration
<1>3. CASE ~Registering(p)
  <2>1. Succeeded(p)
    BY <1>1, NewSuccessRegisters
  <2>2. Registered(p)
    BY <1>1, <1>3, <2>1 DEF UncutIsRegistered
  <2> QED BY <1>1, <2>2, RegisteredStays
<1> QED BY <1>2, <1>3

\* The deployed rows of a key only grow by an insertion for that key.
LEMMA DeployedShrinks ==
  ASSUME IInv, Next, ~\E w \in Workers : \E k \in Rows : InsertProcess(w, k),
         NEW n, NEW u
  PROVE  DeployedBy(n, u)' \subseteq DeployedBy(n, u)
<1>1. RowsStay /\ NoNewRow
  BY StepStays
<1> QED BY <1>1 DEF RowsStay, NoNewRow, DeployedBy, DeployedNamed, IInv, TypeOK, ProcessRow

LEMMA DeployedGrows ==
  ASSUME IInv, NEW w \in Workers, NEW k \in Rows, InsertProcess(w, k), NEW n, NEW u
  PROVE  /\ DeployedBy(n, u)' \subseteq DeployedBy(n, u) \cup {k}
         /\ k \in DeployedBy(n, u)' => <<n, u>> = Key(deployment[worker[w].pipe])
<1>1. \A j \in Rows : j # k => process'[j] = process[j]
  BY InsertProcessWrites DEF IInv, TypeOK
<1> QED BY <1>1, InsertProcessWrites DEF DeployedBy, DeployedNamed, Key

LEMMA SoleStep ==
  ASSUME IInv, RegistersByStatus, SoleRegistrant, UniqueUnlessRaced, HistoryNext
  PROVE  (SoleRegistrant /\ UniqueUnlessRaced)'
<1> SUFFICES ASSUME ~raced' PROVE (SoleRegistrant /\ UniqueUnlessRaced)'
  BY DEF SoleRegistrant, UniqueUnlessRaced
<1>1. Next /\ ~raced /\ ~Racing' /\ ~Racing /\ UniqueDeployed
  BY DEF HistoryNext, SoleRegistrant, UniqueUnlessRaced
<1>2. \A v \in Workers : At(v, "insertProcess") => Targets(v) = {}
  BY <1>1 DEF SoleRegistrant
<1>3. ASSUME NEW v \in Workers, At(v, "insertProcess")'
      PROVE  /\ worker'[v].pipe = worker[v].pipe /\ worker[v].pipe \in Pipelines
             /\ deployment[worker[v].pipe] # None
             /\ worker[v].pc \in RegisterSteps /\ Targets(v) = {}
  <2>1. CASE worker'[v] = worker[v]
    <3>1. worker[v].pc = "insertProcess"
      BY <1>3, <2>1 DEF At
    <3> QED BY <1>2, <2>1, <3>1 DEF At, IInv, FramesAgree, Agrees, RegisterSteps
  <2>2. CASE worker'[v] # worker[v]
    <3>1. worker'[v].pipe = worker[v].pipe /\ FindProcess(v) /\ Targets(v) = {}
      BY <1>1, <1>3, <2>2, StatusMoves DEF At, RegisterSteps
    <3> QED BY <3>1 DEF FindProcess, At, IInv, FramesAgree, Agrees, RegisterSteps
  <2> QED BY <2>1, <2>2
<1>4. ASSUME NEW v \in Workers, At(v, "insertProcess")'
      PROVE  \E n, u : /\ <<n, u>> = Key(deployment[worker[v].pipe])
                       /\ Targets(v) = DeployedBy(n, u) /\ Targets(v)' = DeployedBy(n, u)'
  <2>1. DeploymentsStay
    BY <1>1, StepStays
  <2>2. PICK n, u : n = deployment[worker[v].pipe].name /\ u = deployment[worker[v].pipe].deployer
    OBVIOUS
  <2>3. n = deployment'[worker'[v].pipe].name /\ u = deployment'[worker'[v].pipe].deployer
    BY <1>3, <1>4, <2>1, <2>2 DEF DeploymentsStay
  <2>4. Targets(v) = DeployedBy(n, u)
    BY <2>2 DEF Targets
  <2>5. Targets(v)' = DeployedBy(n, u)'
    BY <2>3 DEF Targets, DeployedBy, DeployedNamed
  <2> QED BY <2>2, <2>4, <2>5 DEF Key
<1>5. CASE ~\E w \in Workers : \E k \in Rows : InsertProcess(w, k)
  <2>1. UniqueDeployed'
    BY <1>1, <1>5, DeployedShrinks DEF UniqueDeployed
  <2>2. \A v \in Workers : At(v, "insertProcess")' => Targets(v)' = {}
    <3> SUFFICES ASSUME NEW v \in Workers, At(v, "insertProcess")' PROVE Targets(v)' = {}
      OBVIOUS
    <3>1. PICK n, u : Targets(v) = DeployedBy(n, u) /\ Targets(v)' = DeployedBy(n, u)'
      BY <1>4
    <3>2. DeployedBy(n, u)' \subseteq DeployedBy(n, u)
      BY <1>1, <1>5, DeployedShrinks
    <3> QED BY <1>3, <3>1, <3>2
  <2> QED BY <1>1, <2>1, <2>2 DEF SoleRegistrant, UniqueUnlessRaced
<1>6. ASSUME NEW w \in Workers, NEW k \in Rows, InsertProcess(w, k)
      PROVE  (SoleRegistrant /\ UniqueUnlessRaced)'
  <2> DEFINE d == deployment[worker[w].pipe]
  <2>1. worker[w].pc = "insertProcess" /\ worker[w].op = "status"
    BY <1>6 DEF InsertProcess, At, RegistersByStatus, RegisterSteps
  <2>2. DeployedBy(d.name, d.deployer) = {}
    BY <1>2, <2>1 DEF At, Targets
  <2>3. UniqueDeployed'
    <3> SUFFICES ASSUME NEW n \in Names, NEW u \in Users,
                        NEW i \in DeployedBy(n, u)', NEW j \in DeployedBy(n, u)'
                 PROVE  i = j
      BY DEF UniqueDeployed
    <3>1. CASE <<n, u>> = Key(d)
      <4>1. n = d.name /\ u = d.deployer
        BY <3>1 DEF Key
      <4>2. DeployedBy(n, u)' \subseteq {k}
        BY <1>6, <2>2, <4>1, DeployedGrows
      <4> QED BY <4>2
    <3>2. CASE <<n, u>> # Key(d)
      <4>1. DeployedBy(n, u)' \subseteq DeployedBy(n, u)
        BY <1>6, <3>2, DeployedGrows
      <4> QED BY <1>1, <4>1 DEF UniqueDeployed
    <3> QED BY <3>1, <3>2
  <2>4. ASSUME NEW v \in Workers, At(v, "insertProcess")' PROVE Targets(v)' = {}
    <3>1. v # w
      BY <1>6, <2>4 DEF InsertProcess, Enter, At, IInv, TypeOK, Frame
    <3>2. worker[v].pc \in RegisterSteps /\ worker[v].op = "status" /\ Targets(v) = {}
      BY <1>3, <2>4 DEF RegistersByStatus
    <3>3. PICK n, u : /\ <<n, u>> = Key(deployment[worker[v].pipe])
                      /\ Targets(v) = DeployedBy(n, u) /\ Targets(v)' = DeployedBy(n, u)'
      BY <1>4, <2>4
    <3>4. <<n, u>> # Key(d)
      BY <1>1, <2>1, <3>1, <3>2, <3>3 DEF Racing, RegisterSteps
    <3>5. DeployedBy(n, u)' \subseteq DeployedBy(n, u)
      BY <1>6, <3>4, DeployedGrows
    <3> QED BY <3>2, <3>3, <3>5
  <2> QED BY <1>1, <2>3, <2>4 DEF SoleRegistrant, UniqueUnlessRaced
<1> QED BY <1>5, <1>6

LEMMA HistoryStep ==
  ASSUME IInv, IInv', HistoryInv, [HistoryNext]_historyVars
  PROVE  HistoryInv'
<1>1. CASE HistoryNext
  <2>1. Next
    BY <1>1 DEF HistoryNext
  <2> QED BY <1>1, <2>1, RegistersStep, UncutStep, SoleStep DEF HistoryInv
<1>2. CASE UNCHANGED historyVars
  BY <1>2 DEF historyVars, vars, HistoryInv, RegistersByStatus, UncutIsRegistered, Succeeded,
              Registering, Registered, StandsFor, SoleRegistrant, Racing, Key, At, Targets,
              DeployedBy, DeployedNamed, UniqueUnlessRaced, UniqueDeployed
<1> QED BY <1>1, <1>2

\* With its history the specification still does what it did.
LEMMA HistoryHides == HistorySpec => Spec
<1>1. HistoryInit => Init
  BY DEF HistoryInit
<1>2. [HistoryNext]_historyVars => [Next]_vars
  BY DEF HistoryNext, historyVars
<1> QED BY <1>1, <1>2, PTL DEF HistorySpec, Spec

LEMMA HistoryInvariance == HistorySpec => []HistoryInv
<1>1. HistoryInit => HistoryInv
  <2> SUFFICES ASSUME HistoryInit PROVE HistoryInv
    OBVIOUS
  <2>1. \A w \in Workers : worker[w].pc = "idle" /\ worker[w].op = None
    BY DEF HistoryInit, Init, Idle
  <2>2. ~Racing /\ RegistersByStatus
    BY <2>1, NoneAssumption DEF Racing, RegistersByStatus, RegisterSteps, At, HistoryInit, Init, Idle
  <2>3. UncutIsRegistered
    BY DEF HistoryInit, Init, UncutIsRegistered, Succeeded
  <2>4. UniqueDeployed
    BY DEF HistoryInit, Init, UniqueDeployed, DeployedBy, DeployedNamed
  <2> QED BY <2>1, <2>2, <2>3, <2>4 DEF HistoryInv, SoleRegistrant, UniqueUnlessRaced, At
<1>2. HistorySpec => []IInv
  BY HistoryHides, Invariance, PTL
<1> QED BY <1>1, <1>2, HistoryStep, PTL DEF HistorySpec

\* A successful deployment that no crash cut short has its process row, whatever
\* polls, webhooks and DELETEs meet it (ogc.py:200-251).
THEOREM UncutIsSafe == HistorySpec => []UncutIsRegistered
BY HistoryInvariance, PTL DEF HistoryInv

\* Unless two workers register deployments of one key side by side, or one
\* deployment twice, a key has one deployed row (ogc.py:201-216).
THEOREM UniqueIsSafe == HistorySpec => []UniqueUnlessRaced
BY HistoryInvariance, PTL DEF HistoryInv

-----------------------------------------------------------------------------
(***************************************************************************)
(* Refinement: as long as GitLab starts no pipeline again, the tables are  *)
(* a DeploymentLifecycle.                                                  *)
(***************************************************************************)

\* What is said of the end of a pipeline is true of it for good.
Settled ==
  /\ \A p \in Pipelines :
       /\ deployment[p] # None =>
            /\ deployment[p].status \in {"accepted", "successful", "failed"}
            /\ deployment[p].status = "successful" => pipeline[p] = "success"
            /\ deployment[p].status = "failed" => pipeline[p] = "failed"
       /\ \A s \in {"success", "failed"} : <<p, s>> \in hooks => pipeline[p] = s
  /\ \A w \in Workers :
       /\ worker[w].pc \in {"setStatus"} \cup RegisterSteps => pipeline[worker[w].pipe] = worker[w].got
       /\ worker[w].pc \in RegisterSteps => deployment[worker[w].pipe].status = "successful"

LEMMA EndsForGood ==
  ASSUME Retryable = FALSE, IInv, [Next]_vars
  PROVE  \A p \in Pipelines :
           /\ pipeline[p] \in {"success", "failed"} => pipeline'[p] = pipeline[p]
           /\ \A s \in GitLabStatus :
                <<p, s>> \in hooks' => <<p, s>> \in hooks \/ pipeline'[p] = s
<1>1. CASE UNCHANGED vars
  BY <1>1 DEF vars
<1>2. ASSUME NEW w \in Workers, Request(w) \/ Crash(w)
      PROVE  UNCHANGED pipeline /\ hooks' \subseteq hooks
  BY <1>2 DEF Request, Crash, PostCheck, PutCheck, DeleteCheck, PollLookup, ReceiveHook
<1>3. ASSUME NEW w \in Workers, Continue(w), ~\E p \in Pipelines : Trigger(w, p)
      PROVE  UNCHANGED <<pipeline, hooks>>
  BY <1>3 DEF Continue, TriggerFails, InsertDeployment, PostRequery, PutRequery, Respond,
              Undeploy, PollAsk, PollFallback, SetStatus, FindProcess, InsertProcess,
              RequeryProcess, Overwrite, Link
<1>4. ASSUME NEW w \in Workers, NEW q \in Pipelines, Trigger(w, q)
      PROVE  /\ UNCHANGED hooks
             /\ \A p \in Pipelines : pipeline[p] # None => pipeline'[p] = pipeline[p]
  BY <1>4 DEF Trigger, IInv, TypeOK
<1>5. ASSUME NEW q \in Pipelines, PipelineEnds(q)
      PROVE  \A p \in Pipelines :
               /\ pipeline[p] \in {"success", "failed"} => pipeline'[p] = pipeline[p]
               /\ \A s \in GitLabStatus :
                    <<p, s>> \in hooks' => <<p, s>> \in hooks \/ pipeline'[p] = s
  BY <1>5 DEF PipelineEnds, IInv, TypeOK
<1>6. ASSUME NEW h \in hooks, LoseHook(h) PROVE UNCHANGED pipeline /\ hooks' \subseteq hooks
  BY <1>6 DEF LoseHook
<1>7. ASSUME NEW q \in Pipelines, PipelineRetried(q) PROVE FALSE
  BY <1>7 DEF PipelineRetried
<1> QED BY <1>1, <1>2, <1>3, <1>4, <1>5, <1>6, <1>7, NoneAssumption DEF Next, GitLab

LEMMA SettledStep ==
  ASSUME Retryable = FALSE, IInv, IInv', Settled, [Next]_vars
  PROVE  Settled'
<1>1. CASE UNCHANGED vars
  BY <1>1 DEF vars, Settled
<1>2. ASSUME NEW p \in Pipelines, pipeline[p] \in {"success", "failed"}
      PROVE  pipeline'[p] = pipeline[p]
  BY <1>2, EndsForGood
<1>3. ASSUME NEW p \in Pipelines, NEW s \in {"success", "failed"}, <<p, s>> \in hooks'
      PROVE  pipeline'[p] = s
  <2>1. <<p, s>> \in hooks \/ pipeline'[p] = s
    BY <1>3, EndsForGood DEF GitLabStatus
  <2>2. CASE <<p, s>> \in hooks
    BY <1>2, <2>2 DEF Settled
  <2> QED BY <2>1, <2>2
<1>4. ASSUME NEW w \in Workers, SetStatus(w)
      PROVE  LET p == worker[w].pipe IN
               /\ p \in Pipelines /\ worker[w].got \in {"success", "failed"}
               /\ pipeline[p] = worker[w].got
               /\ deployment'[p].status = OgcStatus(worker[w].got)
               /\ \A q \in Pipelines : q # p => deployment'[q] = deployment[q]
  <2> DEFINE p == worker[w].pipe
  <2>1. worker[w].pc = "setStatus"
    BY <1>4 DEF SetStatus, At
  <2>2. p \in Pipelines /\ worker[w].got \in {"success", "failed"}
    BY <2>1 DEF IInv, FramesAgree, Agrees
  <2>3. pipeline[p] = worker[w].got
    BY <2>1 DEF Settled
  <2>4. /\ deployment' = [deployment EXCEPT ![p] = deployment'[p]]
        /\ deployment'[p].status = OgcStatus(worker[w].got)
    BY <1>4, SetStatusWrites
  <2>5. \A q \in Pipelines : q # p => deployment'[q] = deployment[q]
    BY <2>4 DEF IInv, TypeOK
  <2> QED BY <2>2, <2>3, <2>4, <2>5
<1>5. ASSUME NEW p \in Pipelines, deployment'[p] # None
      PROVE  \/ deployment[p] # None /\ deployment'[p].status = deployment[p].status
             \/ deployment[p] = None /\ deployment'[p].status = "accepted"
             \/ \E w \in Workers : SetStatus(w) /\ worker[w].pipe = p
  <2>1. CASE deployment'[p] = deployment[p]
    BY <1>5, <2>1
  <2>2. ASSUME NEW w \in Workers, InsertDeployment(w), deployment'[p] # deployment[p]
        PROVE  deployment[p] = None /\ deployment'[p].status = "accepted"
    <3>1. NewDeployment(worker[w]).status = "accepted"
      BY DEF NewDeployment
    <3>2. /\ deployment' = [deployment EXCEPT ![worker[w].pipe] = NewDeployment(worker[w])]
          /\ deployment[worker[w].pipe] = None
      BY <2>2, InsertDeploymentWrites
    <3> QED BY <2>2, <3>1, <3>2 DEF IInv, TypeOK
  <2>3. ASSUME NEW w \in Workers, Link(w), deployment'[p] # deployment[p]
        PROVE  deployment[p] # None /\ deployment'[p].status = deployment[p].status
    BY <2>3, LinkWrites DEF IInv, TypeOK
  <2>4. ASSUME NEW w \in Workers, SetStatus(w), deployment'[p] # deployment[p]
        PROVE  worker[w].pipe = p
    BY <1>4, <2>4
  <2>5. \/ \E w \in Workers : InsertDeployment(w) \/ SetStatus(w) \/ Link(w)
        \/ UNCHANGED deployment
    BY Writers DEF Undeploy, Overwrite, InsertProcess, vars
  <2> QED BY <2>1, <2>2, <2>3, <2>4, <2>5
<1>6. ASSUME NEW p \in Pipelines, deployment'[p] # None
      PROVE  /\ deployment'[p].status \in {"accepted", "successful", "failed"}
             /\ deployment'[p].status = "successful" => pipeline'[p] = "success"
             /\ deployment'[p].status = "failed" => pipeline'[p] = "failed"
  <2>1. CASE deployment[p] # None /\ deployment'[p].status = deployment[p].status
    BY <1>2, <2>1 DEF Settled
  <2>2. ASSUME NEW w \in Workers, SetStatus(w), worker[w].pipe = p
        PROVE  /\ deployment'[p].status \in {"successful", "failed"}
               /\ deployment'[p].status = "successful" => pipeline'[p] = "success"
               /\ deployment'[p].status = "failed" => pipeline'[p] = "failed"
    BY <1>2, <1>4, <2>2 DEF OgcStatus
  <2> QED BY <1>5, <1>6, <2>1, <2>2
<1>7. ASSUME Next, NEW v \in Workers, worker'[v].pc \in {"setStatus"} \cup RegisterSteps
      PROVE  /\ pipeline'[worker'[v].pipe] = worker'[v].got
             /\ worker'[v].pc \in RegisterSteps => deployment'[worker'[v].pipe].status = "successful"
  <2> DEFINE q == worker'[v].pipe
  <2>1. q \in Pipelines /\ worker'[v].got \in {"success", "failed"} /\ deployment'[q] # None
    BY <1>7 DEF IInv, FramesAgree, Agrees, RegisterSteps
  <2>4. pipeline'[q] = worker'[v].got
    <3>1. CASE worker'[v] = worker[v]
      <4>1. pipeline[q] = worker'[v].got
        BY <1>7, <3>1 DEF Settled
      <4> QED BY <1>2, <2>1, <4>1
    <3>2. CASE <<q, worker'[v].got>> \in hooks
      <4>1. pipeline[q] = worker'[v].got
        BY <2>1, <3>2 DEF Settled
      <4> QED BY <1>2, <2>1, <4>1
    <3>3. CASE worker[v].pipe = q /\ worker'[v].got = pipeline[q]
      BY <1>2, <2>1, <3>3
    <3>4. CASE /\ worker[v].pc \in {"setStatus"} \cup RegisterSteps
               /\ worker[v].pipe = q /\ worker'[v].got = worker[v].got
      <4>1. pipeline[q] = worker'[v].got
        BY <3>4 DEF Settled
      <4> QED BY <1>2, <2>1, <4>1
    <3>5. CASE worker'[v] # worker[v]
      <4>1. worker'[v].pc \in {"ask", "setStatus"} \cup RegisterSteps /\ worker'[v].pc # "ask"
        BY <1>7 DEF RegisterSteps
      <4> QED BY <1>7, <3>2, <3>3, <3>4, <3>5, <4>1, StatusMoves
    <3> QED BY <3>1, <3>5
  <2>5. ASSUME worker'[v].pc \in RegisterSteps PROVE deployment'[q].status = "successful"
    <3>1. /\ worker[v].pipe = q
          /\ \/ worker[v].pc \in RegisterSteps
             \/ SetStatus(v) /\ OgcStatus(worker[v].got) = "successful"
      <4>1. CASE worker'[v] = worker[v]
        BY <2>5, <4>1
      <4>2. CASE worker'[v] # worker[v]
        <5>1. worker'[v].pc \notin {"ask", "setStatus"}
          BY <2>5 DEF RegisterSteps
        <5> QED BY <1>7, <2>5, <4>2, <5>1, StatusMoves
      <4> QED BY <4>1, <4>2
    <3>2. CASE worker[v].pc \in RegisterSteps
      <4>1. /\ deployment[q] # None /\ deployment[q].status = "successful" 
            /\ pipeline[q] = "success"
        BY <2>1, <3>1, <3>2 DEF Settled, IInv, FramesAgree, Agrees, RegisterSteps
      <4>2. ASSUME NEW w \in Workers, SetStatus(w), worker[w].pipe = q
            PROVE  deployment'[q].status = "successful"
        BY <1>4, <4>1, <4>2 DEF OgcStatus
      <4>3. CASE ~\E w \in Workers : SetStatus(w) /\ worker[w].pipe = q
        BY <1>5, <2>1, <4>1, <4>3
      <4> QED BY <4>2, <4>3
    <3>3. CASE worker[v].pc \notin RegisterSteps
      BY <1>4, <3>1, <3>3
    <3> QED BY <3>2, <3>3
  <2> QED BY <2>4, <2>5
<1>8. CASE Next
  BY <1>3, <1>6, <1>7, <1>8 DEF Settled
<1> QED BY <1>1, <1>8

LEMMA SettledInvariance ==
  ASSUME Retryable = FALSE
  PROVE  Spec => []Settled
<1>1. Init => Settled
  BY DEF Init, Settled, Idle, RegisterSteps
<1>2. IInv /\ IInv' /\ Settled /\ [Next]_vars => Settled'
  BY SettledStep
<1> QED BY <1>1, <1>2, Invariance, PTL DEF Spec

\* The three views, row by row.
LEMMA OutcomeIs ==
  /\ \A p \in Pipelines :
       outcomeOf[p] = IF deployment[p] = None THEN "absent" ELSE deployment[p].status
  /\ \A p \in Pipelines : keyOf[p] = IF deployment[p] = None THEN None ELSE Key(deployment[p])
BY DEF outcomeOf, keyOf

\* The deployments that deployed rows of a key were last written by.
Sources(n, u) == {process[k].source : k \in DeployedBy(n, u)}

LEMMA OfferedIs == \A n \in Names, u \in Users : offered[<<n, u>>] = Sources(n, u)
BY DEF offered, Sources

\* A view that is the old one at all keys but one.
LEMMA OfferedAtOneKey ==
  ASSUME NEW n \in Names, NEW u \in Users, NEW S, Sources(n, u)' = S,
         \A m \in Names, v \in Users : <<m, v>> # <<n, u>> => Sources(m, v)' = Sources(m, v)
  PROVE  offered' = [offered EXCEPT ![<<n, u>>] = S]
<1> DEFINE here == [x \in Names \X Users |-> Sources(x[1], x[2])]
           next == [x \in Names \X Users |-> Sources(x[1], x[2])']
<1>1. offered = here /\ offered' = next
  BY DEF offered, Sources
<1>2. ASSUME NEW x \in Names \X Users
      PROVE  next[x] = IF x = <<n, u>> THEN S ELSE here[x]
  <2>1. PICK m \in Names, v \in Users : x = <<m, v>>
    OBVIOUS
  <2>2. next[x] = Sources(m, v)' /\ here[x] = Sources(m, v)
    BY <2>1
  <2> QED BY <2>1, <2>2
<1>3. next = [here EXCEPT ![<<n, u>>] = S]
  BY <1>2
<1> QED BY <1>1, <1>3

LEMMA OfferedStays ==
  ASSUME \A n \in Names, u \in Users : Sources(n, u)' = Sources(n, u)
  PROVE  UNCHANGED offered
<1> DEFINE here == [x \in Names \X Users |-> Sources(x[1], x[2])]
           next == [x \in Names \X Users |-> Sources(x[1], x[2])']
<1>1. offered = here /\ offered' = next
  BY DEF offered, Sources
<1>2. ASSUME NEW x \in Names \X Users PROVE next[x] = here[x]
  <2>1. PICK m \in Names, v \in Users : x = <<m, v>>
    OBVIOUS
  <2>2. next[x] = Sources(m, v)' /\ here[x] = Sources(m, v)
    BY <2>1
  <2> QED BY <2>1, <2>2
<1> QED BY <1>1, <1>2

\* The row of a new deployment is a job submitted.
LEMMA SubmitStep ==
  ASSUME IInv, NEW w \in Workers, InsertDeployment(w)
  PROVE  Lifecycle!Submit(worker[w].pipe, <<worker[w].name, worker[w].user>>)
<1> DEFINE p == worker[w].pipe
<1>0. PICK d : d = NewDeployment(worker[w])
  OBVIOUS
<1>1. /\ p \in Pipelines /\ deployment[p] = None /\ UNCHANGED process
      /\ deployment' = [deployment EXCEPT ![p] = d] /\ d # None
  BY <1>0, InsertDeploymentWrites
<1>2. d.status = "accepted" /\ Key(d) = <<worker[w].name, worker[w].user>>
  BY <1>0 DEF NewDeployment, Key
<1>3. deployment'[p] = d /\ \A q \in Pipelines : q # p => deployment'[q] = deployment[q]
  BY <1>1 DEF IInv, TypeOK
<1>4. outcomeOf[p] = "absent"
  BY <1>1, OutcomeIs
<1>5. deployment'[p].status = "accepted" /\ deployment'[p] # None
  BY <1>1, <1>2, <1>3
<1>6. Key(deployment'[p]) = <<worker[w].name, worker[w].user>>
  BY <1>2, <1>3
<1>7. p \in Pipelines /\ UNCHANGED process
  BY <1>1
<1>8. outcomeOf' = [outcomeOf EXCEPT ![p] = "accepted"]
  BY <1>3, <1>5, <1>7 DEF outcomeOf
<1>9. keyOf' = [keyOf EXCEPT ![p] = <<worker[w].name, worker[w].user>>]
  BY <1>3, <1>5, <1>6, <1>7 DEF keyOf, Key
<1>10. UNCHANGED offered
  BY <1>1 DEF offered, DeployedBy, DeployedNamed
<1> QED BY <1>4, <1>8, <1>9, <1>10 DEF Lifecycle!Submit

\* A status is committed once for good: the second commit writes the same again.
LEMMA DecideStep ==
  ASSUME IInv, Settled, NEW w \in Workers, SetStatus(w)
  PROVE  \/ \E verdict \in {"failed", "successful"} : Lifecycle!Decide(worker[w].pipe, verdict)
         \/ UNCHANGED <<outcomeOf, keyOf, offered>>
<1> DEFINE p == worker[w].pipe
           verdict == OgcStatus(worker[w].got)
<1>1. /\ p \in Pipelines /\ deployment[p] # None /\ UNCHANGED process
      /\ deployment' = [deployment EXCEPT ![p] = deployment'[p]] /\ deployment'[p] # None
      /\ deployment'[p].name = deployment[p].name
      /\ deployment'[p].deployer = deployment[p].deployer
      /\ deployment'[p].status = verdict
  BY SetStatusWrites
<1>2. \A q \in Pipelines : q # p => deployment'[q] = deployment[q]
  BY <1>1 DEF IInv, TypeOK
<1>3. /\ worker[w].got \in {"success", "failed"} /\ pipeline[p] = worker[w].got
      /\ verdict \in {"failed", "successful"}
  BY DEF SetStatus, At, IInv, FramesAgree, Agrees, Settled, OgcStatus
<1>4. deployment[p].status \in {"accepted", verdict}
  BY <1>1, <1>3 DEF Settled, OgcStatus
<1> HIDE DEF verdict
<1>5. outcomeOf' = [outcomeOf EXCEPT ![p] = verdict]
  BY <1>1, <1>2 DEF outcomeOf
<1>6. UNCHANGED keyOf
  BY <1>1, <1>2 DEF keyOf, Key
<1>7. UNCHANGED offered
  BY <1>1 DEF offered, DeployedBy, DeployedNamed
<1>8. outcomeOf[p] = deployment[p].status
  BY <1>1, OutcomeIs
<1>9. CASE deployment[p].status = "accepted"
  BY <1>3, <1>5, <1>6, <1>7, <1>8, <1>9 DEF Lifecycle!Decide
<1>10. CASE deployment[p].status = verdict
  <2>1. outcomeOf' = outcomeOf
    BY <1>5, <1>8, <1>10 DEF outcomeOf
  <2> QED BY <1>6, <1>7, <2>1
<1> QED BY <1>4, <1>9, <1>10

\* The link is no part of what clients are promised.
LEMMA LinkHides ==
  ASSUME IInv, NEW w \in Workers, Link(w)
  PROVE  UNCHANGED <<outcomeOf, keyOf, offered>>
<1> DEFINE p == worker[w].pipe
<1>1. /\ p \in Pipelines /\ deployment[p] # None /\ UNCHANGED process
      /\ deployment' = [deployment EXCEPT ![p] = deployment'[p]] /\ deployment'[p] # None
      /\ deployment'[p].name = deployment[p].name
      /\ deployment'[p].deployer = deployment[p].deployer
      /\ deployment'[p].status = deployment[p].status
  BY LinkWrites
<1>2. \A q \in Pipelines : q # p => deployment'[q] = deployment[q]
  BY <1>1 DEF IInv, TypeOK
<1>3. UNCHANGED outcomeOf
  BY <1>1, <1>2 DEF outcomeOf
<1>4. UNCHANGED keyOf
  BY <1>1, <1>2 DEF keyOf, Key
<1>5. UNCHANGED offered
  BY <1>1 DEF offered, DeployedBy, DeployedNamed
<1> QED BY <1>3, <1>4, <1>5

\* What the key of a deployment that has succeeded is to the lifecycle.
LEMMA OfferKey ==
  ASSUME IInv, Settled, NEW w \in Workers, worker[w].pc \in RegisterSteps
  PROVE  LET p == worker[w].pipe IN
           /\ p \in Pipelines /\ outcomeOf[p] = "successful"
           /\ deployment[p] # None
           /\ deployment[p].name \in Names /\ deployment[p].deployer \in Users
           /\ keyOf[p] = <<deployment[p].name, deployment[p].deployer>>
<1> DEFINE p == worker[w].pipe
<1>1. p \in Pipelines /\ deployment[p] # None /\ deployment[p] \in DeploymentRow
  BY DEF IInv, TypeOK, FramesAgree, Agrees, RegisterSteps
<1>2. deployment[p].status = "successful"
  BY DEF Settled
<1>3. deployment[p].name \in Names /\ deployment[p].deployer \in Users
  BY <1>1 DEF DeploymentRow
<1> QED BY <1>1, <1>2, <1>3, OutcomeIs DEF Key

\* A row inserted is an offer beside those there are.
LEMMA InsertOffers ==
  ASSUME IInv, Settled, NEW w \in Workers, NEW k \in Rows, InsertProcess(w, k)
  PROVE  Lifecycle!Offer(worker[w].pipe)
<1> DEFINE p == worker[w].pipe
<1>1. PICK n \in Names, u \in Users :
        n = deployment[p].name /\ u = deployment[p].deployer /\ keyOf[p] = <<n, u>>
  BY OfferKey DEF InsertProcess, At, RegisterSteps
<1>2. p \in Pipelines /\ outcomeOf[p] = "successful"
  BY OfferKey DEF InsertProcess, At, RegisterSteps
<1>3. /\ UNCHANGED deployment /\ process[k] = None /\ process'[k] # None
      /\ process'[k].name = n /\ process'[k].deployer = u
      /\ process'[k].status = "deployed" /\ process'[k].source = p
      /\ \A j \in Rows : j # k => process'[j] = process[j]
  BY <1>1, InsertProcessWrites DEF IInv, TypeOK
<1>4. UNCHANGED <<outcomeOf, keyOf>>
  BY <1>3 DEF outcomeOf, keyOf, Key
<1>5. DeployedBy(n, u)' = DeployedBy(n, u) \cup {k} /\ k \notin DeployedBy(n, u)
  BY <1>3 DEF DeployedBy, DeployedNamed
<1>6. Sources(n, u)' = Sources(n, u) \cup {p}
  <2>1. \A j \in DeployedBy(n, u) : process'[j] = process[j]
    BY <1>3, <1>5 DEF DeployedBy, DeployedNamed
  <2> QED BY <1>3, <1>5, <2>1 DEF Sources
<1>7. ASSUME NEW m \in Names, NEW v \in Users, <<m, v>> # <<n, u>>
      PROVE  Sources(m, v)' = Sources(m, v)
  <2>1. DeployedBy(m, v)' = DeployedBy(m, v) /\ k \notin DeployedBy(m, v)
    BY <1>3, <1>7 DEF DeployedBy, DeployedNamed
  <2>2. \A j \in DeployedBy(m, v) : process'[j] = process[j]
    BY <1>3, <2>1 DEF DeployedBy, DeployedNamed
  <2> QED BY <2>1, <2>2 DEF Sources
<1>8. offered' = [offered EXCEPT ![<<n, u>>] = offered[<<n, u>>] \cup {p}]
  <2>1. PICK S : S = offered[<<n, u>>] \cup {p}
    OBVIOUS
  <2>2. Sources(n, u)' = S
    BY <1>6, <2>1, OfferedIs
  <2> QED BY <1>7, <2>1, <2>2, OfferedAtOneKey
<1>9. \E old \in SUBSET offered[keyOf[p]] :
        /\ \A a, b \in old : a = b
        /\ offered' = [offered EXCEPT ![keyOf[p]] = (offered[keyOf[p]] \ old) \cup {p}]
  <2>1. (offered[keyOf[p]] \ {}) \cup {p} = offered[keyOf[p]] \cup {p}
    OBVIOUS
  <2>2. offered' = [offered EXCEPT ![keyOf[p]] = (offered[keyOf[p]] \ {}) \cup {p}]
    BY <1>1, <1>8, <2>1
  <2>3. {} \in SUBSET offered[keyOf[p]] /\ \A a, b \in {} : a = b
    OBVIOUS
  <2> QED BY <2>2, <2>3
<1> QED BY <1>2, <1>4, <1>9 DEF Lifecycle!Offer

\* A row overwritten is an offer in place of what its last writer offered, unless
\* another row offers that too; nobody is offered an undeployed one.
LEMMA OverwriteOffers ==
  ASSUME IInv, Settled, NEW w \in Workers, Overwrite(w)
  PROVE  Lifecycle!Offer(worker[w].pipe) \/ UNCHANGED <<outcomeOf, keyOf, offered>>
<1> DEFINE p == worker[w].pipe
           k == worker[w].row
<1>1. PICK n \in Names, u \in Users :
        n = deployment[p].name /\ u = deployment[p].deployer /\ keyOf[p] = <<n, u>>
  BY OfferKey DEF Overwrite, RegisterSteps
<1>2. p \in Pipelines /\ outcomeOf[p] = "successful"
  BY OfferKey DEF Overwrite, RegisterSteps
<1>3. process[k].name = n /\ process[k].deployer = u
  BY <1>1 DEF Overwrite, IInv, FramesAgree, Agrees, StandsFor
<1>4. /\ UNCHANGED deployment /\ k \in Rows /\ process[k] # None /\ process'[k] # None
      /\ process'[k].name = n /\ process'[k].deployer = u
      /\ process'[k].status = process[k].status /\ process'[k].source = p
      /\ \A j \in Rows : j # k => process'[j] = process[j]
  <2>1. /\ UNCHANGED deployment /\ k \in Rows /\ StandsFor(k, p)
        /\ process' = [process EXCEPT ![k] = process'[k]] /\ process'[k] # None
        /\ process'[k].name = process[k].name /\ process'[k].deployer = process[k].deployer
        /\ process'[k].status = process[k].status /\ process'[k].source = p
    BY OverwriteWrites
  <2>2. \A j \in Rows : j # k => process'[j] = process[j]
    BY <2>1 DEF IInv, TypeOK
  <2> QED BY <1>3, <2>1, <2>2 DEF StandsFor
<1>5. UNCHANGED <<outcomeOf, keyOf>>
  BY <1>4 DEF outcomeOf, keyOf, Key
<1>6. \A m \in Names, v \in Users : DeployedBy(m, v)' = DeployedBy(m, v)
  BY <1>3, <1>4 DEF DeployedBy, DeployedNamed
<1>7. ASSUME NEW m \in Names, NEW v \in Users, k \notin DeployedBy(m, v)
      PROVE  Sources(m, v)' = Sources(m, v)
  <2>1. DeployedBy(m, v)' = DeployedBy(m, v)
    BY <1>6
  <2>2. \A j \in DeployedBy(m, v) : process'[j] = process[j]
    BY <1>4, <1>7 DEF DeployedBy, DeployedNamed
  <2> QED BY <2>1, <2>2 DEF Sources
<1>8. CASE k \notin DeployedBy(n, u)
  <2>1. \A m \in Names, v \in Users : k \notin DeployedBy(m, v)
    BY <1>3, <1>8 DEF DeployedBy, DeployedNamed
  <2> QED BY <1>5, <1>7, <2>1, OfferedStays
<1>9. CASE k \in DeployedBy(n, u)
  <2> DEFINE rest == {process[j].source : j \in DeployedBy(n, u) \ {k}}
             old == {process[k].source} \ rest
  <2>1. Sources(n, u) = rest \cup {process[k].source}
    BY <1>9 DEF Sources
  <2>2. Sources(n, u)' = rest \cup {p}
    <3>1. DeployedBy(n, u)' = DeployedBy(n, u)
      BY <1>6
    <3>2. \A j \in DeployedBy(n, u) \ {k} : process'[j] = process[j]
      BY <1>4 DEF DeployedBy, DeployedNamed
    <3> QED BY <1>4, <1>9, <3>1, <3>2 DEF Sources
  <2>3. PICK S : S = (Sources(n, u) \ old) \cup {p}
    OBVIOUS
  <2>4. Sources(n, u)' = S
    BY <2>1, <2>2, <2>3
  <2>5. \A m \in Names, v \in Users : <<m, v>> # <<n, u>> => Sources(m, v)' = Sources(m, v)
    <3> SUFFICES ASSUME NEW m \in Names, NEW v \in Users, <<m, v>> # <<n, u>>
                 PROVE  k \notin DeployedBy(m, v)
      BY <1>7
    <3> QED BY <1>3 DEF DeployedBy, DeployedNamed
  <2>6. offered' = [offered EXCEPT ![<<n, u>>] = S]
    BY <2>4, <2>5, OfferedAtOneKey
  <2>7. offered[keyOf[p]] = Sources(n, u)
    BY <1>1, OfferedIs
  <2>8. old \in SUBSET offered[keyOf[p]] /\ \A a, b \in old : a = b
    BY <2>1, <2>7
  <2>9. offered' = [offered EXCEPT ![keyOf[p]] = (offered[keyOf[p]] \ old) \cup {p}]
    BY <1>1, <2>3, <2>6, <2>7
  <2> HIDE DEF old
  <2> QED BY <1>2, <1>5, <2>8, <2>9 DEF Lifecycle!Offer
<1> QED BY <1>8, <1>9

\* A row undeployed is an offer withdrawn, unless another row offers that too.
LEMMA UndeployWithdraws ==
  ASSUME IInv, NEW w \in Workers, Undeploy(w)
  PROVE  \/ \E x \in Names \X Users : Lifecycle!Withdraw(x)
         \/ UNCHANGED <<outcomeOf, keyOf, offered>>
<1> DEFINE k == worker[w].row
<1>1. /\ UNCHANGED deployment /\ k \in Rows /\ process[k] # None /\ process'[k] # None
      /\ process'[k].status = "undeployed"
      /\ \A j \in Rows : j # k => process'[j] = process[j]
  BY UndeployWrites DEF IInv, TypeOK
<1>2. PICK n \in Names, u \in Users : n = process[k].name /\ u = process[k].deployer
  BY <1>1 DEF IInv, TypeOK, ProcessRow
<1>3. UNCHANGED <<outcomeOf, keyOf>>
  BY <1>1 DEF outcomeOf, keyOf, Key
<1>4. \A m \in Names, v \in Users : DeployedBy(m, v)' = DeployedBy(m, v) \ {k}
  BY <1>1 DEF DeployedBy, DeployedNamed
<1>5. ASSUME NEW m \in Names, NEW v \in Users
      PROVE  Sources(m, v)' = {process[j].source : j \in DeployedBy(m, v) \ {k}}
  <2>1. DeployedBy(m, v)' = DeployedBy(m, v) \ {k}
    BY <1>4
  <2>2. \A j \in DeployedBy(m, v) \ {k} : process'[j] = process[j]
    BY <1>1 DEF DeployedBy, DeployedNamed
  <2> QED BY <2>1, <2>2 DEF Sources
<1>6. ASSUME NEW m \in Names, NEW v \in Users, k \notin DeployedBy(m, v)
      PROVE  Sources(m, v)' = Sources(m, v)
  <2>1. DeployedBy(m, v) \ {k} = DeployedBy(m, v)
    BY <1>6
  <2> QED BY <1>5, <2>1 DEF Sources
<1>7. \A m \in Names, v \in Users : <<m, v>> # <<n, u>> => Sources(m, v)' = Sources(m, v)
  <2> SUFFICES ASSUME NEW m \in Names, NEW v \in Users, <<m, v>> # <<n, u>>
               PROVE  k \notin DeployedBy(m, v)
    BY <1>6
  <2> QED BY <1>2 DEF DeployedBy, DeployedNamed
<1>8. CASE Sources(n, u)' = Sources(n, u)
  <2>1. \A m \in Names, v \in Users : Sources(m, v)' = Sources(m, v)
    BY <1>7, <1>8
  <2> QED BY <1>3, <2>1, OfferedStays
<1>9. CASE Sources(n, u)' # Sources(n, u)
  <2>1. PICK p : p = process[k].source
    OBVIOUS
  <2>2. Sources(n, u)' = Sources(n, u) \ {p} /\ p \in Sources(n, u)
    <3> DEFINE rest == {process[j].source : j \in DeployedBy(n, u) \ {k}}
    <3>1. k \in DeployedBy(n, u)
      BY <1>6, <1>9
    <3>2. Sources(n, u) = rest \cup {p}
      BY <2>1, <3>1 DEF Sources
    <3>3. Sources(n, u)' = rest
      BY <1>5
    <3> HIDE DEF rest
    <3> QED BY <1>9, <3>2, <3>3
  <2>3. PICK S : S = Sources(n, u) \ {p}
    OBVIOUS
  <2>4. Sources(n, u)' = S
    BY <2>2, <2>3
  <2>5. offered' = [offered EXCEPT ![<<n, u>>] = S]
    BY <1>7, <2>4, OfferedAtOneKey
  <2>6. PICK x \in Names \X Users : x = <<n, u>>
    OBVIOUS
  <2>7. offered[x] = Sources(n, u)
    BY <2>6, OfferedIs
  <2>8. p \in offered[x] /\ offered' = [offered EXCEPT ![x] = offered[x] \ {p}]
    BY <2>2, <2>3, <2>5, <2>6, <2>7
  <2> QED BY <1>3, <2>8 DEF Lifecycle!Withdraw
<1> QED BY <1>8, <1>9

LEMMA LifecycleStep ==
  ASSUME IInv, Settled, [Next]_vars
  PROVE  [Lifecycle!LifecycleNext]_(Lifecycle!lifecycleVars)
<1>1. CASE UNCHANGED <<deployment, process>>
  <2>1. UNCHANGED <<outcomeOf, keyOf>>
    BY <1>1 DEF outcomeOf, keyOf, Key
  <2>2. UNCHANGED offered
    BY <1>1 DEF offered, DeployedBy, DeployedNamed
  <2> QED BY <2>1, <2>2 DEF Lifecycle!lifecycleVars
<1>2. ASSUME NEW w \in Workers, InsertDeployment(w) PROVE Lifecycle!LifecycleNext
  BY <1>2, SubmitStep, InsertDeploymentWrites DEF Lifecycle!LifecycleNext
<1>3. ASSUME NEW w \in Workers, SetStatus(w)
      PROVE  Lifecycle!LifecycleNext \/ UNCHANGED <<outcomeOf, keyOf, offered>>
  BY <1>3, DecideStep, SetStatusWrites DEF Lifecycle!LifecycleNext
<1>4. ASSUME NEW w \in Workers, NEW k \in Rows, InsertProcess(w, k) PROVE Lifecycle!LifecycleNext
  BY <1>4, InsertOffers, InsertProcessWrites DEF Lifecycle!LifecycleNext
<1>5. ASSUME NEW w \in Workers, Overwrite(w)
      PROVE  Lifecycle!LifecycleNext \/ UNCHANGED <<outcomeOf, keyOf, offered>>
  BY <1>5, OverwriteOffers, OfferKey DEF Lifecycle!LifecycleNext, Overwrite, RegisterSteps
<1>6. ASSUME NEW w \in Workers, Undeploy(w)
      PROVE  Lifecycle!LifecycleNext \/ UNCHANGED <<outcomeOf, keyOf, offered>>
  BY <1>6, UndeployWithdraws DEF Lifecycle!LifecycleNext
<1>7. ASSUME NEW w \in Workers, Link(w) PROVE UNCHANGED <<outcomeOf, keyOf, offered>>
  BY <1>7, LinkHides
<1> QED BY <1>1, <1>2, <1>3, <1>4, <1>5, <1>6, <1>7, Writers DEF vars, Lifecycle!lifecycleVars

\* The tables, whatever handlers, polls, webhooks and crashes interleave on them,
\* are a DeploymentLifecycle as long as GitLab starts no ended pipeline again: a
\* job is decided once, and only a successful one is ever put on offer, under the
\* key it was submitted for (ogc.py:141-253).
THEOREM Implements ==
  ASSUME Retryable = FALSE
  PROVE  Spec => ImplementsLifecycle
<1>1. Init => Lifecycle!LifecycleInit
  <2> SUFFICES ASSUME Init PROVE Lifecycle!LifecycleInit
    OBVIOUS
  <2>1. outcomeOf = [p \in Pipelines |-> "absent"] /\ keyOf = [p \in Pipelines |-> None]
    BY DEF Init, outcomeOf, keyOf
  <2>2. offered = [x \in Names \X Users |-> {}]
    BY DEF Init, offered, DeployedBy, DeployedNamed
  <2> QED BY <2>1, <2>2 DEF Lifecycle!LifecycleInit
<1>2. IInv /\ Settled /\ [Next]_vars => [Lifecycle!LifecycleNext]_(Lifecycle!lifecycleVars)
  BY LifecycleStep
<1>3. Spec => []IInv /\ []Settled
  BY Invariance, SettledInvariance, PTL
<1> QED BY <1>1, <1>2, <1>3, PTL DEF Spec, ImplementsLifecycle, Lifecycle!LifecycleSpec
=============================================================================
