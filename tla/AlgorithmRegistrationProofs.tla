--------------------- MODULE AlgorithmRegistrationProofs ---------------------
(***************************************************************************)
(* What a host pushes is whole and what it answers is its own, as long as  *)
(* its workers did not register two algorithms at once; and whatever they  *)
(* do, a push takes nothing off the branch: for any number of workers,     *)
(* requests, commits and algorithms.                                       *)
(*                                                                         *)
(* The shared directory is described by how far the one busy worker has    *)
(* come (Progress); the branch by the commits being closed under descent   *)
(* (HistoryOK), so that a head that descends from the old one keeps all    *)
(* that it had.                                                            *)
(***************************************************************************)
EXTENDS AlgorithmRegistration, TLAPS

Before == Steps \ {"idle", "push", "head", "poll"}

LEMMA EnterEffect ==
  ASSUME worker \in [Workers -> Frame], NEW w \in Workers, NEW f \in Frame, Enter(w, f)
  PROVE  /\ worker' \in [Workers -> Frame]
         /\ worker'[w] = f
         /\ \A v \in Workers \ {w} : worker'[v] = worker[v]
BY DEF Enter

LEMMA GoToEffect ==
  ASSUME worker \in [Workers -> Frame], NEW w \in Workers, NEW step \in Steps, GoTo(w, step)
  PROVE  /\ worker' \in [Workers -> Frame]
         /\ worker'[w].pc = step
         /\ worker'[w].req = worker[w].req
         /\ worker'[w].hash = worker[w].hash
         /\ \A v \in Workers \ {w} : worker'[v] = worker[v]
<1> DEFINE f == [worker[w] EXCEPT !.pc = step]
<1>1. f \in Frame /\ f.pc = step /\ f.req = worker[w].req /\ f.hash = worker[w].hash
  BY DEF Frame
<1> HIDE DEF f
<1> QED BY <1>1, EnterEffect DEF GoTo, f

LEMMA IdleIsFrame == Idle \in Frame /\ Idle.pc = "idle" /\ Idle.req = None
BY DEF Idle, Frame, Steps

\* The worker that answers is idle afterwards.
LEMMA AnswerEffect ==
  ASSUME TypeOK, FramesOK, NEW w \in Workers, ~At(w, "idle"),
         NEW a \in Commits \cup {"error"}, Answer(w, a)
  PROVE  /\ worker' \in [Workers -> Frame]
         /\ worker'[w].pc = "idle"
         /\ \A v \in Workers \ {w} : worker'[v] = worker[v]
         /\ answer' \in [Requests -> Commits \cup {"error", None}]
         /\ answer'[worker[w].req] = a
         /\ \A r \in Requests \ {worker[w].req} : answer'[r] = answer[r]
<1>1. worker[w].req \in Requests
  BY DEF FramesOK
<1>2. /\ answer' \in [Requests -> Commits \cup {"error", None}]
      /\ answer'[worker[w].req] = a
      /\ \A r \in Requests \ {worker[w].req} : answer'[r] = answer[r]
  BY <1>1 DEF Answer, TypeOK
<1>3. Enter(w, Idle)
  BY DEF Answer
<1> QED BY <1>2, <1>3, EnterEffect, IdleIsFrame DEF TypeOK

\* A step of w within its request, or out of it, that makes no commit.
LEMMA FramesStay ==
  ASSUME FramesOK, NEW w \in Workers, ~At(w, "idle"), commit' = commit,
         \A v \in Workers \ {w} : worker'[v] = worker[v],
         \/ worker'[w].pc = "idle" /\ worker'[w].req = None
         \/ /\ worker'[w].req = worker[w].req
            /\ worker'[w].pc \in Before => worker[w].pc \in Before
            /\ worker'[w].pc = "poll" => worker'[w].hash \in Commits
  PROVE  FramesOK'
<1>1. \A v \in Workers : (~At(v, "idle"))' => ~At(v, "idle") /\ worker'[v].req = worker[v].req
  BY DEF At
<1>2. (\A v \in Workers : ~At(v, "idle") => worker[v].req \in Requests)'
  BY <1>1 DEF FramesOK
<1>3. (\A v, u \in Workers : v # u /\ ~At(v, "idle") => worker[v].req # worker[u].req)'
  <2> SUFFICES ASSUME NEW v \in Workers, NEW u \in Workers, v # u, (~At(v, "idle"))'
               PROVE  worker'[v].req # worker'[u].req
    OBVIOUS
  <2>1. worker'[v].req = worker[v].req /\ worker[v].req \in Requests /\ worker[v].req # worker[u].req
    BY <1>1 DEF FramesOK
  <2>2. worker'[u].req \in {worker[u].req, None}
    OBVIOUS
  <2> QED BY <2>1, <2>2, NoneAssumption DEF Commits
<1>4. (\A v \in Workers : worker[v].pc \in Before => commit[worker[v].req] = None)'
  BY DEF FramesOK, Before
<1>5. (\A v \in Workers : At(v, "poll") => worker[v].hash \in Commits)'
  BY DEF FramesOK, At
<1> QED BY <1>2, <1>3, <1>4, <1>5 DEF FramesOK, Before

\* A worker that was alone stays alone, and only its own progress matters.
LEMMA StaysAlone ==
  ASSUME Exclusive, NEW w \in Workers, ~At(w, "idle"),
         \A v \in Workers \ {w} : worker'[v] = worker[v],
         Progress(w)'
  PROVE  Exclusive' /\ \A v \in Workers : Progress(v)'
<1>1. \A v \in Workers \ {w} : worker'[v].pc = "idle"
  BY DEF Exclusive, At
<1>2. Exclusive'
  BY <1>1 DEF Exclusive, At
<1>3. \A v \in Workers \ {w} : Progress(v)'
  <2> SUFFICES ASSUME NEW v \in Workers \ {w} PROVE Progress(v)'
    OBVIOUS
  <2>1. worker'[v].pc = "idle"
    BY <1>1
  <2> QED BY <2>1 DEF Progress
<1> QED BY <1>2, <1>3

\* The same when the step neither commits nor pushes nor answers.
LEMMA AloneStays ==
  ASSUME ~overlapped => AloneOK, NEW w \in Workers, ~At(w, "idle"),
         UNCHANGED <<commit, branch, answer, overlapped>>,
         \A v \in Workers \ {w} : worker'[v] = worker[v],
         ~overlapped => Progress(w)'
  PROVE  (~overlapped => AloneOK)'
<1> SUFFICES ASSUME ~overlapped PROVE AloneOK'
  OBVIOUS
<1>1. Exclusive' /\ \A v \in Workers : Progress(v)'
  BY StaysAlone DEF AloneOK
<1>2. CommitsAreWhole' /\ AnswersOwnCommit'
  BY DEF AloneOK, CommitsAreWhole, AnswersOwnCommit, OnBranch
<1> QED BY <1>1, <1>2 DEF AloneOK

\* Steps that leave the commits, the branch and the repository alone keep the history.
LEMMA HistoryStays ==
  ASSUME HistoryOK, UNCHANGED <<commit, branch>>,
         IsRepository' => commit[clone'.head] # None
  PROVE  HistoryOK'
BY DEF HistoryOK

LEMMA InitOK == Init => IInv
<1> SUFFICES ASSUME Init PROVE IInv
  OBVIOUS
<1>1. \A w \in Workers : worker[w] = Idle
  BY DEF Init
<1>2. \A c \in Commits : c # First => commit[c] = None
  BY DEF Init
<1>3. First \in Others /\ First \in Commits /\ First \notin Requests
  BY CommitAssumption DEF Commits
<1>4. commit[First] \in CommitRow /\ commit[First].past = {}
  BY <1>3 DEF Init, CommitRow, Tree
<1>5. TypeOK
  BY <1>2, <1>3, <1>4, IdleIsFrame DEF Init, TypeOK
<1>6. FramesOK
  BY <1>1, IdleIsFrame DEF FramesOK, At
<1>7. HistoryOK
  BY <1>2, <1>3, <1>4, RowAssumption DEF Init, HistoryOK, IsRepository
<1>8. AloneOK
  <2>1. Exclusive
    BY <1>1, IdleIsFrame DEF Exclusive, At
  <2>2. CommitsAreWhole
    BY <1>2, <1>3 DEF CommitsAreWhole, Commits
  <2>3. AnswersOwnCommit
    BY NoneAssumption DEF Init, AnswersOwnCommit
  <2>4. \A w \in Workers : Progress(w)
    <3> SUFFICES ASSUME NEW w \in Workers PROVE Progress(w)
      OBVIOUS
    <3>1. worker[w].pc = "idle"
      BY <1>1, IdleIsFrame
    <3> QED BY <3>1 DEF Progress
  <2> QED BY <2>1, <2>2, <2>3, <2>4 DEF AloneOK
<1> QED BY <1>5, <1>6, <1>7, <1>8 DEF IInv

-----------------------------------------------------------------------------
(***************************************************************************)
(* The steps of a registration.                                            *)
(***************************************************************************)

LEMMA RegisterStep ==
  ASSUME IInv, NEW w \in Workers, NEW r \in Requests, Register(w, r)
  PROVE  IInv'
<1> DEFINE f == [Idle EXCEPT !.pc = "remove", !.req = r]
<1>1. f \in Frame /\ f.pc = "remove" /\ f.req = r
  BY DEF Idle, Frame, Steps
<1> HIDE DEF f
<1>2. /\ worker' \in [Workers -> Frame]
      /\ worker'[w] = f
      /\ \A v \in Workers \ {w} : worker'[v] = worker[v]
  BY <1>1, EnterEffect DEF Register, f, IInv, TypeOK
<1>3. UNCHANGED <<commit, branch, pipeline, clone, answer>>
  BY DEF Register, gitlab
<1>4. TypeOK'
  <2>1. overlapped' \in BOOLEAN
    BY DEF Register
  <2> QED BY <1>2, <1>3, <2>1 DEF IInv, TypeOK
<1>5. FramesOK'
  <2>1. \A v \in Workers : worker[v].req # r
    BY DEF Register, Serving
  <2> QED BY <1>1, <1>2, <1>3, <2>1 DEF Register, IInv, FramesOK, At
<1>6. HistoryOK'
  BY <1>3, HistoryStays DEF IInv, HistoryOK, IsRepository
<1>7. ASSUME ~overlapped' PROVE AloneOK'
  <2>1. ~overlapped /\ \A v \in Workers : At(v, "idle")
    BY <1>7 DEF Register
  <2>2. Exclusive'
    BY <1>2, <2>1 DEF Exclusive, At
  <2>3. CommitsAreWhole' /\ AnswersOwnCommit'
    BY <1>3, <2>1 DEF IInv, AloneOK, CommitsAreWhole, AnswersOwnCommit, OnBranch
  <2>4. \A v \in Workers : Progress(v)'
    <3> SUFFICES ASSUME NEW v \in Workers PROVE Progress(v)'
      OBVIOUS
    <3>1. worker'[v].pc \in {"idle", "remove"}
      BY <1>1, <1>2, <2>1 DEF At
    <3> QED BY <3>1 DEF Progress
  <2> QED BY <2>2, <2>3, <2>4 DEF AloneOK
<1> QED BY <1>4, <1>5, <1>6, <1>7 DEF IInv

\* A step that goes on within the request before its commit, and leaves a
\* directory that has the same repository or none.
LEMMA DirectoryStep ==
  ASSUME IInv, NEW w \in Workers, NEW step \in Before, worker[w].pc \in Before,
         GoTo(w, step),
         UNCHANGED <<commit, branch, pipeline, answer, overlapped>>,
         clone' \in Folder \cup {None},
         IsRepository' => commit[clone'.head] # None,
         ~overlapped => Progress(w)'
  PROVE  IInv'
<1>1. step \in Steps /\ step \notin {"idle", "poll"} /\ ~At(w, "idle")
  BY DEF Before, At
<1>2. /\ worker' \in [Workers -> Frame]
      /\ worker'[w].pc = step
      /\ worker'[w].req = worker[w].req
      /\ \A v \in Workers \ {w} : worker'[v] = worker[v]
  BY <1>1, GoToEffect DEF IInv, TypeOK
<1>3. TypeOK'
  BY <1>2 DEF IInv, TypeOK
<1>4. FramesOK'
  BY <1>1, <1>2, FramesStay DEF IInv
<1>5. HistoryOK'
  BY HistoryStays DEF IInv
<1>6. (~overlapped => AloneOK)'
  BY <1>1, <1>2, AloneStays DEF IInv
<1> QED BY <1>3, <1>4, <1>5, <1>6 DEF IInv

LEMMA RemoveStep ==
  ASSUME IInv, NEW w \in Workers, RemoveClone(w)
  PROVE  IInv'
<1>1. worker'[w].pc = "clone"
  BY GoToEffect DEF RemoveClone, IInv, TypeOK, Steps
<1>2. Progress(w)'
  BY <1>1 DEF Progress
<1> QED BY <1>2, DirectoryStep DEF RemoveClone, gitlab, At, Before, Steps, IsRepository

LEMMA CloneStep ==
  ASSUME IInv, NEW w \in Workers, Clone(w)
  PROVE  IInv'
<1>1. worker'[w].pc = "choose"
  BY GoToEffect DEF Clone, IInv, TypeOK, Steps
<1>2. Progress(w)'
  BY <1>1 DEF Progress
<1>3. commit[branch] \in CommitRow
  BY DEF IInv, TypeOK, HistoryOK
<1>4. clone' \in Folder /\ clone'.head = branch
  BY <1>3 DEF Clone, Folder, CommitRow, IInv, TypeOK
<1>5. commit[clone'.head] # None
  BY <1>4 DEF IInv, HistoryOK
<1> QED BY <1>2, <1>4, <1>5, DirectoryStep DEF Clone, gitlab, At, Before, Steps

LEMMA ChooseStep ==
  ASSUME IInv, NEW w \in Workers, ChooseQueue(w)
  PROVE  IInv'
<1>1. worker'[w].pc = "cleanUp"
  BY GoToEffect DEF ChooseQueue, IInv, TypeOK, Steps
<1>2. Progress(w)'
  BY <1>1 DEF Progress
<1>3. IsRepository' => commit[clone'.head] # None
  BY DEF ChooseQueue, IInv, HistoryOK, IsRepository
<1>4. clone' \in Folder \cup {None}
  BY DEF ChooseQueue, IInv, TypeOK
<1> QED BY <1>2, <1>3, <1>4, DirectoryStep DEF ChooseQueue, gitlab, At, Before, Steps

LEMMA CleanUpStep ==
  ASSUME IInv, NEW w \in Workers, CleanUp(w)
  PROVE  IInv'
<1>1. worker'[w].pc = "writeIo"
  BY GoToEffect DEF CleanUp, IInv, TypeOK, Steps
<1>2. clone \in Folder /\ clone.head # None
  BY DEF CleanUp, CanCleanUp, IsRepository, IInv, TypeOK
<1>3. PICK h \in Commits, i \in Tree, t \in Tree : clone = [head |-> h, index |-> i, files |-> t]
  BY <1>2 DEF Folder
<1>4. clone' = [head |-> h, index |-> [p \in Paths |-> IF p \in Specs THEN None ELSE i[p]],
                files |-> [p \in Paths |-> IF p \in Specs THEN None ELSE t[p]]]
  BY <1>3 DEF CleanUp, Cleaned
<1>5. clone' \in Folder
  BY <1>4 DEF Folder, Tree
<1>6. clone' # None /\ clone'.head = h /\ \A p \in Specs : clone'.index[p] = None
  BY <1>4, <1>5, RowAssumption DEF Paths
<1>7. Progress(w)'
  BY <1>1, <1>6, NoneAssumption DEF Progress, IsRepository
<1>8. commit[clone'.head] # None
  BY <1>2, <1>3, <1>6, RowAssumption DEF IInv, HistoryOK, IsRepository
<1> QED BY <1>5, <1>7, <1>8, DirectoryStep DEF CleanUp, gitlab, At, Before, Steps

\* What write_file leaves in the directory.
LEMMA WriteEffect ==
  ASSUME TypeOK, FramesOK, NEW w \in Workers, ~At(w, "idle"), NEW path \in Paths, NEW next, Write(w, path, next)
  PROVE  /\ clone' \in Folder
         /\ clone'.files[path] = worker[w].req
         /\ \A p \in Paths \ {path} : clone # None => clone'.files[p] = clone.files[p]
         /\ clone # None => clone'.head = clone.head /\ clone'.index = clone.index
         /\ clone = None => clone'.head = None
<1> DEFINE dir == IF clone = None THEN Bare ELSE clone
<1>1. dir \in Folder /\ (clone # None => dir = clone) /\ (clone = None => dir.head = None)
  BY DEF TypeOK, Bare, Folder, Empty, Tree
<1>2. clone' = [dir EXCEPT !.files[path] = worker[w].req]
  BY DEF Write
<1> HIDE DEF dir
<1>3. worker[w].req \in Commits
  BY DEF FramesOK, Commits
<1>4. PICK h \in Commits \cup {None}, i \in Tree, t \in Tree :
        dir = [head |-> h, index |-> i, files |-> t]
  BY <1>1 DEF Folder
<1>5. clone' = [head |-> h, index |-> i, files |-> [t EXCEPT ![path] = worker[w].req]]
  BY <1>2, <1>4
<1>6. [t EXCEPT ![path] = worker[w].req] \in Tree
  BY <1>3 DEF Tree
<1>7. clone' \in Folder
  BY <1>5, <1>6 DEF Folder
<1>8. /\ clone'.files[path] = worker[w].req
      /\ \A p \in Paths \ {path} : clone'.files[p] = t[p]
      /\ clone'.head = h /\ clone'.index = i
  BY <1>5 DEF Tree
<1> QED BY <1>1, <1>4, <1>7, <1>8

\* The four files differ, and are files.
LEMMA PathsDiffer ==
  ASSUME NEW a \in Algorithms
  PROVE  /\ <<"hysds-io", a>> \in Specs /\ <<"job-spec", a>> \in Specs
         /\ Specs \subseteq Paths /\ Config \in Paths /\ Submission \in Paths
         /\ <<"hysds-io", a>> # <<"job-spec", a>>
         /\ <<"hysds-io", a>> # Config /\ <<"job-spec", a>> # Config
         /\ <<"hysds-io", a>> # Submission /\ <<"job-spec", a>> # Submission
         /\ Config # Submission /\ Config \notin Specs
<1>1. Config[1] = "config.txt" /\ Submission[1] = "job-submission.json"
  BY DEF Config, Submission
<1>2. \A p \in Specs : p[1] \in {"hysds-io", "job-spec"}
  BY DEF Specs
<1>3. <<"hysds-io", a>> \in Specs /\ <<"job-spec", a>> \in Specs
  BY DEF Specs
<1> QED BY <1>1, <1>2, <1>3 DEF Paths

\* One of the four writes: the files written before are still there.
LEMMA WriteStep ==
  ASSUME IInv, NEW w \in Workers, worker[w].pc \in Before, NEW path \in Paths,
         NEW step \in Before, Write(w, path, step),
         ~overlapped => Progress(w)'
  PROVE  IInv'
<1>1. ~At(w, "idle")
  BY DEF At, Before
<1>2. clone' \in Folder /\ (IsRepository' => commit[clone'.head] # None)
  BY <1>1, WriteEffect DEF IInv, HistoryOK, IsRepository
<1> QED BY <1>2, DirectoryStep DEF Write, gitlab

LEMMA WriteHysdsIoStep ==
  ASSUME IInv, NEW w \in Workers, WriteHysdsIo(w)
  PROVE  IInv'
<1> DEFINE r == worker[w].req
           path == <<"hysds-io", AlgorithmOf[r]>>
<1>1. worker[w].pc = "writeIo" /\ ~At(w, "idle") /\ r \in Requests
  BY DEF WriteHysdsIo, At, IInv, FramesOK
<1>2. AlgorithmOf[r] \in Algorithms
  BY <1>1, AlgorithmAssumption DEF Commits
<1>3. path \in Paths /\ Write(w, path, "writeSpec")
  BY <1>2, PathsDiffer DEF WriteHysdsIo
<1>4. worker'[w].pc = "writeSpec" /\ worker'[w].req = r
  BY <1>3, GoToEffect DEF Write, IInv, TypeOK, Steps
<1>5. ASSUME ~overlapped PROVE Progress(w)'
  <2>1. IsRepository /\ \A p \in Specs : clone.index[p] = None
    BY <1>1, <1>5 DEF IInv, AloneOK, Progress
  <2>2. clone' \in Folder /\ clone'.files[path] = r /\ clone'.head = clone.head /\ clone'.index = clone.index
    BY <1>1, <1>3, <2>1, WriteEffect DEF IInv, IsRepository
  <2>3. IsRepository' /\ \A p \in Specs : clone'.index[p] = None
    BY <2>1, <2>2, RowAssumption DEF IsRepository
  <2> QED BY <1>4, <2>2, <2>3 DEF Progress
<1> QED BY <1>1, <1>3, <1>5, WriteStep DEF Before, Steps

LEMMA WriteJobSpecStep ==
  ASSUME IInv, NEW w \in Workers, WriteJobSpec(w)
  PROVE  IInv'
<1> DEFINE r == worker[w].req
           io == <<"hysds-io", AlgorithmOf[r]>>
           path == <<"job-spec", AlgorithmOf[r]>>
<1>1. worker[w].pc = "writeSpec" /\ ~At(w, "idle") /\ r \in Requests
  BY DEF WriteJobSpec, At, IInv, FramesOK
<1>2. AlgorithmOf[r] \in Algorithms
  BY <1>1, AlgorithmAssumption DEF Commits
<1>3. path \in Paths /\ io \in Paths \ {path} /\ Write(w, path, "writeConfig")
  BY <1>2, PathsDiffer DEF WriteJobSpec
<1>4. worker'[w].pc = "writeConfig" /\ worker'[w].req = r
  BY <1>3, GoToEffect DEF Write, IInv, TypeOK, Steps
<1>5. ASSUME ~overlapped PROVE Progress(w)'
  <2>1. IsRepository /\ (\A p \in Specs : clone.index[p] = None) /\ clone.files[io] = r
    BY <1>1, <1>5 DEF IInv, AloneOK, Progress
  <2>2. /\ clone' \in Folder /\ clone'.files[path] = r /\ clone'.files[io] = r
        /\ clone'.head = clone.head /\ clone'.index = clone.index
    BY <1>1, <1>3, <2>1, WriteEffect DEF IInv, IsRepository
  <2>3. IsRepository' /\ \A p \in Specs : clone'.index[p] = None
    BY <2>1, <2>2, RowAssumption DEF IsRepository
  <2> QED BY <1>4, <2>2, <2>3 DEF Progress
<1> QED BY <1>1, <1>3, <1>5, WriteStep DEF Before, Steps

LEMMA WriteConfigStep ==
  ASSUME IInv, NEW w \in Workers, WriteConfig(w)
  PROVE  IInv'
<1> DEFINE r == worker[w].req
           io == <<"hysds-io", AlgorithmOf[r]>>
           sp == <<"job-spec", AlgorithmOf[r]>>
<1>1. worker[w].pc = "writeConfig" /\ ~At(w, "idle") /\ r \in Requests
  BY DEF WriteConfig, At, IInv, FramesOK
<1>2. AlgorithmOf[r] \in Algorithms
  BY <1>1, AlgorithmAssumption DEF Commits
<1>3. Config \in Paths /\ {io, sp} \subseteq Paths \ {Config} /\ Write(w, Config, "writeSubmission")
  BY <1>2, PathsDiffer DEF WriteConfig
<1>4. worker'[w].pc = "writeSubmission" /\ worker'[w].req = r
  BY <1>3, GoToEffect DEF Write, IInv, TypeOK, Steps
<1>5. ASSUME ~overlapped PROVE Progress(w)'
  <2>1. IsRepository /\ (\A p \in Specs : clone.index[p] = None) /\ clone.files[io] = r /\ clone.files[sp] = r
    BY <1>1, <1>5 DEF IInv, AloneOK, Progress
  <2>2. /\ clone' \in Folder /\ clone'.files[sp] = r /\ clone'.files[io] = r /\ clone'.files[Config] = r
        /\ clone'.head = clone.head /\ clone'.index = clone.index
    BY <1>1, <1>3, <2>1, WriteEffect DEF IInv, IsRepository
  <2>3. IsRepository' /\ \A p \in Specs : clone'.index[p] = None
    BY <2>1, <2>2, RowAssumption DEF IsRepository
  <2> QED BY <1>4, <2>2, <2>3 DEF Progress
<1> QED BY <1>1, <1>3, <1>5, WriteStep DEF Before, Steps

LEMMA WriteSubmissionStep ==
  ASSUME IInv, NEW w \in Workers, WriteSubmission(w)
  PROVE  IInv'
<1> DEFINE r == worker[w].req
           io == <<"hysds-io", AlgorithmOf[r]>>
           sp == <<"job-spec", AlgorithmOf[r]>>
<1>1. worker[w].pc = "writeSubmission" /\ ~At(w, "idle") /\ r \in Requests
  BY DEF WriteSubmission, At, IInv, FramesOK
<1>2. AlgorithmOf[r] \in Algorithms
  BY <1>1, AlgorithmAssumption DEF Commits
<1>3. Submission \in Paths /\ {io, sp, Config} \subseteq Paths \ {Submission} /\ Write(w, Submission, "add")
  BY <1>2, PathsDiffer DEF WriteSubmission
<1>4. worker'[w].pc = "add" /\ worker'[w].req = r
  BY <1>3, GoToEffect DEF Write, IInv, TypeOK, Steps
<1>5. ASSUME ~overlapped PROVE Progress(w)'
  <2>1. /\ IsRepository /\ (\A p \in Specs : clone.index[p] = None)
        /\ clone.files[io] = r /\ clone.files[sp] = r /\ clone.files[Config] = r
    BY <1>1, <1>5 DEF IInv, AloneOK, Progress
  <2>2. /\ clone' \in Folder /\ clone'.files[sp] = r /\ clone'.files[io] = r /\ clone'.files[Config] = r
        /\ clone'.head = clone.head /\ clone'.index = clone.index
    BY <1>1, <1>3, <2>1, WriteEffect DEF IInv, IsRepository
  <2>3. IsRepository' /\ \A p \in Specs : clone'.index[p] = None
    BY <2>1, <2>2, RowAssumption DEF IsRepository
  <2> QED BY <1>4, <2>2, <2>3 DEF Progress
<1> QED BY <1>1, <1>3, <1>5, WriteStep DEF Before, Steps

LEMMA AddStep ==
  ASSUME IInv, NEW w \in Workers, Add(w)
  PROVE  IInv'
<1> DEFINE r == worker[w].req
           io == <<"hysds-io", AlgorithmOf[r]>>
           sp == <<"job-spec", AlgorithmOf[r]>>
<1>1. worker[w].pc = "add" /\ ~At(w, "idle") /\ r \in Requests
  BY DEF Add, At, IInv, FramesOK
<1>2. AlgorithmOf[r] \in Algorithms
  BY <1>1, AlgorithmAssumption DEF Commits
<1>3. /\ FileList(r) \subseteq Paths /\ SpecsOf(r) = {io, sp} /\ FileList(r) = {io, sp, Config}
      /\ Specs \subseteq Paths /\ Config \notin Specs
  <2>1. SpecsOf(r) = {io, sp}
    BY DEF SpecsOf
  <2> QED BY <1>2, <2>1, PathsDiffer DEF FileList
<1>4. clone \in Folder /\ clone.head # None
  BY DEF Add, CanAdd, IsRepository, IInv, TypeOK
<1>5. PICK h \in Commits, i \in Tree, t \in Tree : clone = [head |-> h, index |-> i, files |-> t]
  BY <1>4 DEF Folder
<1> DEFINE j == [p \in Paths |-> IF p \in FileList(r) THEN t[p] ELSE i[p]]
<1>6. clone' = [head |-> h, index |-> j, files |-> t]
  BY <1>5 DEF Add
<1>7. j \in Tree
  BY DEF Tree
<1>8. clone' \in Folder /\ clone' # None /\ clone'.head = h /\ clone'.index = j
  <2> HIDE DEF j
  <2>1. clone' \in Folder /\ clone'.head = h /\ clone'.index = j
    BY <1>6, <1>7 DEF Folder
  <2> QED BY <2>1, RowAssumption
<1>9. worker'[w].pc = "commit" /\ worker'[w].req = r
  BY GoToEffect DEF Add, IInv, TypeOK, Steps
<1>10. ASSUME ~overlapped PROVE Progress(w)'
  <2>1. /\ \A p \in Specs : i[p] = None
        /\ t[io] = r /\ t[sp] = r /\ t[Config] = r
    BY <1>1, <1>5, <1>10 DEF IInv, AloneOK, Progress
  <2>2. \A p \in SpecsOf(r) \cup {Config} : j[p] = r
    BY <1>3, <2>1
  <2>3. \A p \in Specs \ SpecsOf(r) : j[p] = None
    BY <1>3, <2>1
  <2>4. Whole(r, clone'.index) /\ IsRepository'
    BY <1>8, <2>2, <2>3, NoneAssumption DEF Whole, IsRepository
  <2>5. Whole(r, clone.index)'
    BY <1>9, <2>4 DEF Whole, SpecsOf
  <2> QED BY <1>9, <2>4, <2>5 DEF Progress
<1>11. commit[clone'.head] # None
  BY <1>4, <1>5, <1>8, RowAssumption DEF IInv, HistoryOK, IsRepository
<1> QED BY <1>1, <1>8, <1>10, <1>11, DirectoryStep DEF Add, gitlab, Before, Steps

\* The one step that makes a commit of this host.
LEMMA CommitStep ==
  ASSUME IInv, NEW w \in Workers, Commit(w)
  PROVE  IInv'
<1> DEFINE r == worker[w].req
           h == clone.head
           row == [tree |-> clone.index, past |-> commit[h].past \cup {h}]
<1>1. worker[w].pc = "commit" /\ ~At(w, "idle") /\ r \in Requests /\ r \in Commits /\ commit[r] = None
  BY DEF Commit, At, IInv, FramesOK, Steps, Commits
<1>2. clone \in Folder /\ h \in Commits /\ commit[h] # None /\ commit[h] \in CommitRow
  <2>1. IsRepository /\ clone \in Folder
    BY DEF Commit, IsRepository, IInv, TypeOK
  <2>2. h \in Commits /\ commit[h] # None
    BY <2>1 DEF IsRepository, Folder, IInv, HistoryOK
  <2> QED BY <2>1, <2>2 DEF IInv, TypeOK
<1>3. row \in CommitRow /\ row.tree = clone.index /\ row.past = commit[h].past \cup {h}
  BY <1>2 DEF CommitRow, Folder
<1>4. commit' = [commit EXCEPT ![r] = row]
  BY DEF Commit
<1> HIDE DEF row
<1>5. /\ commit' \in [Commits -> CommitRow \cup {None}] /\ commit'[r] = row /\ row # None
      /\ \A c \in Commits \ {r} : commit'[c] = commit[c]
  BY <1>1, <1>3, <1>4, RowAssumption DEF IInv, TypeOK
<1>6. PICK i \in Tree, t \in Tree : clone = [head |-> h, index |-> i, files |-> t]
  BY <1>2 DEF Folder
<1>7. clone' \in Folder /\ clone' # None /\ clone'.head = r
  <2>1. clone' = [head |-> r, index |-> i, files |-> t]
    BY <1>6 DEF Commit
  <2> QED BY <1>1, <2>1, RowAssumption DEF Folder
<1>8. /\ worker' \in [Workers -> Frame] /\ worker'[w].pc = "push" /\ worker'[w].req = r
      /\ \A v \in Workers \ {w} : worker'[v] = worker[v]
  BY GoToEffect DEF Commit, IInv, TypeOK, Steps
<1>9. UNCHANGED <<branch, pipeline, answer, overlapped>>
  BY DEF Commit, gitlab
<1>10. TypeOK'
  BY <1>5, <1>7, <1>8, <1>9 DEF IInv, TypeOK
<1>11. FramesOK'
  <2>1. \A v \in Workers \ {w} : ~At(v, "idle") => worker[v].req # r /\ worker[v].req \in Requests
    BY <1>1 DEF IInv, FramesOK
  <2>2. (\A v \in Workers : ~At(v, "idle") => worker[v].req \in Requests)'
    BY <1>1, <1>8, <2>1 DEF At
  <2>3. (\A v, u \in Workers : v # u /\ ~At(v, "idle") => worker[v].req # worker[u].req)'
    BY <1>1, <1>8 DEF IInv, FramesOK, At
  <2>4. (\A v \in Workers : worker[v].pc \in Before => commit[worker[v].req] = None)'
    <3> SUFFICES ASSUME NEW v \in Workers, worker'[v].pc \in Before PROVE commit'[worker'[v].req] = None
      OBVIOUS
    <3>1. v # w /\ worker'[v] = worker[v] /\ ~At(v, "idle")
      BY <1>8 DEF Before, Steps, At
    <3>2. worker[v].req \in Commits \ {r} /\ commit[worker[v].req] = None
      BY <2>1, <3>1 DEF IInv, FramesOK, Before, Commits
    <3> QED BY <1>5, <3>1, <3>2
  <2>5. (\A v \in Workers : At(v, "poll") => worker[v].hash \in Commits)'
    BY <1>8 DEF IInv, FramesOK, At
  <2> QED BY <2>2, <2>3, <2>4, <2>5 DEF FramesOK, Before
<1>12. HistoryOK'
  <2>1. \A c \in Commits : commit[c] # None => commit'[c] = commit[c]
    BY <1>1, <1>5
  <2>2. commit'[branch'] # None
    BY <1>9, <2>1 DEF IInv, HistoryOK, TypeOK
  <2>3. \A c \in Commits : commit[c] # None =>
          \A d \in commit[c].past : d \in Commits /\ commit[d] # None /\ commit[d].past \subseteq commit[c].past
    BY DEF IInv, HistoryOK, TypeOK, CommitRow
  <2>4. \A d \in row.past : d \in Commits /\ commit[d] # None /\ commit[d].past \subseteq row.past
    BY <1>2, <1>3, <2>3
  <2>5. \A c \in Commits : commit'[c] # None =>
          \A d \in commit'[c].past : commit'[d] # None /\ commit'[d].past \subseteq commit'[c].past
    <3> SUFFICES ASSUME NEW c \in Commits, commit'[c] # None, NEW d \in commit'[c].past
                 PROVE  commit'[d] # None /\ commit'[d].past \subseteq commit'[c].past
      OBVIOUS
    <3>1. d \in Commits /\ commit[d] # None /\ commit[d].past \subseteq commit'[c].past
      <4>1. CASE c = r
        BY <1>5, <2>4, <4>1
      <4>2. CASE c # r
        BY <1>5, <2>3, <4>2
      <4> QED BY <4>1, <4>2
    <3> QED BY <2>1, <3>1
  <2> QED BY <1>5, <1>7, <2>2, <2>5 DEF HistoryOK
<1>13. ASSUME ~overlapped PROVE AloneOK'
  <2>1. Whole(r, clone.index)
    BY <1>1, <1>13 DEF IInv, AloneOK, Progress
  <2>2. CommitsAreWhole'
    <3> SUFFICES ASSUME NEW c \in Requests, commit'[c] # None PROVE Whole(c, commit'[c].tree)
      BY DEF CommitsAreWhole, Whole, SpecsOf
    <3>1. CASE c = r
      BY <1>3, <1>5, <2>1, <3>1
    <3>2. CASE c # r
      BY <1>5, <1>13, <3>2 DEF IInv, AloneOK, CommitsAreWhole, Commits
    <3> QED BY <3>1, <3>2
  <2>3. OnBranch' = OnBranch
    BY <1>1, <1>5, <1>9 DEF OnBranch, IInv, HistoryOK, TypeOK
  <2>4. AnswersOwnCommit'
    BY <1>9, <1>13, <2>3 DEF IInv, AloneOK, AnswersOwnCommit
  <2>5. Progress(w)'
    BY <1>7, <1>8, <1>1, NoneAssumption DEF Progress, IsRepository
  <2>6. Exclusive' /\ \A v \in Workers : Progress(v)'
    BY <1>1, <1>8, <1>13, <2>5, StaysAlone DEF IInv, AloneOK
  <2> QED BY <2>2, <2>4, <2>6 DEF AloneOK
<1> QED BY <1>9, <1>10, <1>11, <1>12, <1>13 DEF IInv

-----------------------------------------------------------------------------
(***************************************************************************)
(* Pushes: the branch only gains commits.                                  *)
(***************************************************************************)

LEMMA BranchGrows ==
  ASSUME TypeOK, HistoryOK, NEW c \in Commits, commit[c] # None, branch \in {c} \cup commit[c].past
  PROVE  OnBranch \subseteq {c} \cup commit[c].past
BY DEF OnBranch, HistoryOK

LEMMA PushEffect ==
  ASSUME IInv, NEW w \in Workers, Push(w)
  PROVE  /\ branch' \in Commits /\ commit[branch'] # None
         /\ pipeline' \in [Commits -> {"due", "started", None}]
         /\ OnBranch \subseteq OnBranch'
<1>1. clone.head \in Commits /\ commit[clone.head] # None
  BY DEF Push, IsRepository, IInv, TypeOK, HistoryOK, Folder
<1>2. UNCHANGED commit
  BY DEF Push
<1>3. CASE Accepts(clone.head) /\ branch' = clone.head
           /\ pipeline' = [pipeline EXCEPT ![clone.head] = IF @ = None THEN "due" ELSE @]
  <2>1. OnBranch \subseteq {clone.head} \cup commit[clone.head].past
    BY <1>1, <1>3, BranchGrows DEF Accepts, IInv
  <2>2. OnBranch \subseteq OnBranch'
    BY <1>2, <1>3, <2>1 DEF OnBranch
  <2> QED BY <1>1, <1>3, <2>2 DEF IInv, TypeOK
<1>4. CASE UNCHANGED gitlab
  BY <1>2, <1>4 DEF gitlab, OnBranch, IInv, TypeOK, HistoryOK
<1> QED BY <1>3, <1>4 DEF Push

LEMMA PushStep ==
  ASSUME IInv, NEW w \in Workers, Push(w)
  PROVE  IInv'
<1>1. worker[w].pc = "push" /\ ~At(w, "idle")
  BY DEF Push, At
<1>2. /\ worker' \in [Workers -> Frame] /\ worker'[w].pc = "head" /\ worker'[w].req = worker[w].req
      /\ \A v \in Workers \ {w} : worker'[v] = worker[v]
  BY GoToEffect DEF Push, IInv, TypeOK, Steps
<1>3. UNCHANGED <<commit, clone, answer, overlapped>>
  BY DEF Push
<1>4. TypeOK'
  BY <1>2, <1>3, PushEffect DEF IInv, TypeOK
<1>5. FramesOK'
  BY <1>1, <1>2, <1>3, FramesStay DEF IInv, Before, Steps
<1>6. HistoryOK'
  BY <1>3, PushEffect DEF IInv, HistoryOK, IsRepository
<1>7. ASSUME ~overlapped PROVE AloneOK'
  <2>1. Progress(w)'
    BY <1>1, <1>2, <1>3, <1>7 DEF IInv, AloneOK, Progress, IsRepository
  <2>2. Exclusive' /\ \A v \in Workers : Progress(v)'
    BY <1>1, <1>2, <1>7, <2>1, StaysAlone DEF IInv, AloneOK
  <2>3. CommitsAreWhole'
    BY <1>3, <1>7 DEF IInv, AloneOK, CommitsAreWhole
  <2>4. AnswersOwnCommit'
    BY <1>3, <1>7, PushEffect DEF IInv, AloneOK, AnswersOwnCommit
  <2> QED BY <2>2, <2>3, <2>4 DEF AloneOK
<1> QED BY <1>3, <1>4, <1>5, <1>6, <1>7 DEF IInv

LEMMA OthersPushEffect ==
  ASSUME IInv, NEW c \in Others, OthersPush(c)
  PROVE  /\ c \in Commits
         /\ commit' \in [Commits -> CommitRow \cup {None}]
         /\ commit'[c] # None /\ commit'[c].past = OnBranch
         /\ \A d \in Commits \ {c} : commit'[d] = commit[d]
         /\ OnBranch \subseteq OnBranch'
<1> DEFINE row == [tree |-> OthersTree(c, commit[branch].tree), past |-> OnBranch]
<1>1. c \in Commits
  BY DEF Commits
<1>2. commit[branch] \in CommitRow
  BY DEF IInv, TypeOK, HistoryOK
<1>3. OthersTree(c, commit[branch].tree) \in Tree
  BY <1>1, <1>2 DEF OthersTree, CommitRow, Tree
<1>4. OnBranch \subseteq Commits
  BY <1>2 DEF OnBranch, CommitRow, IInv, TypeOK
<1>5. row \in CommitRow /\ row.past = OnBranch
  BY <1>3, <1>4 DEF CommitRow
<1>6. commit' = [commit EXCEPT ![c] = row] /\ branch' = c
  BY DEF OthersPush
<1> HIDE DEF row
<1>7. /\ commit' \in [Commits -> CommitRow \cup {None}]
      /\ commit'[c] = row /\ row # None
      /\ \A d \in Commits \ {c} : commit'[d] = commit[d]
  BY <1>1, <1>5, <1>6, RowAssumption DEF IInv, TypeOK
<1>8. OnBranch' = {c} \cup OnBranch
  BY <1>5, <1>6, <1>7 DEF OnBranch
<1> QED BY <1>1, <1>5, <1>7, <1>8

LEMMA OthersPushStep ==
  ASSUME IInv, NEW c \in Others, OthersPush(c)
  PROVE  IInv'
<1>1. /\ commit[c] = None /\ branch' = c
      /\ pipeline' \in [Commits -> {"due", "started", None}]
      /\ UNCHANGED <<clone, answer, worker, overlapped>>
  BY OthersPushEffect DEF OthersPush, IInv, TypeOK
<1>2. c \notin Requests
  BY CommitAssumption
<1>3. TypeOK'
  BY <1>1, OthersPushEffect DEF IInv, TypeOK
<1>4. FramesOK'
  <2>1. \A v \in Workers : worker[v].pc \in Before => worker[v].req \in Requests
    BY DEF IInv, FramesOK, At, Before
  <2>2. (\A v \in Workers : worker[v].pc \in Before => commit[worker[v].req] = None)'
    BY <1>1, <1>2, <2>1, OthersPushEffect DEF IInv, FramesOK, Before, Commits
  <2>3. UNCHANGED worker
    BY <1>1
  <2> QED BY <2>2, <2>3 DEF IInv, FramesOK, At, Before
<1>5. HistoryOK'
  <2>1. \A d \in Commits : commit[d] # None => commit'[d] = commit[d]
    BY <1>1, OthersPushEffect
  <2>2. \A e \in Commits : commit[e] # None =>
          \A d \in commit[e].past : d \in Commits /\ commit[d] # None /\ commit[d].past \subseteq commit[e].past
    BY DEF IInv, HistoryOK, TypeOK, CommitRow
  <2>3. \A d \in OnBranch : d \in Commits /\ commit[d] # None /\ commit[d].past \subseteq OnBranch
    BY <2>2 DEF OnBranch, IInv, HistoryOK, TypeOK
  <2>4. \A e \in Commits : commit'[e] # None =>
          \A d \in commit'[e].past : commit'[d] # None /\ commit'[d].past \subseteq commit'[e].past
    <3> SUFFICES ASSUME NEW e \in Commits, commit'[e] # None, NEW d \in commit'[e].past
                 PROVE  commit'[d] # None /\ commit'[d].past \subseteq commit'[e].past
      OBVIOUS
    <3>1. d \in Commits /\ commit[d] # None /\ commit[d].past \subseteq commit'[e].past
      BY <2>2, <2>3, OthersPushEffect
    <3> QED BY <2>1, <3>1
  <2>5. IsRepository' => commit'[clone'.head] # None
    BY <1>1, <2>1 DEF IInv, HistoryOK, IsRepository, TypeOK, Folder
  <2> QED BY <1>1, <2>4, <2>5, OthersPushEffect DEF HistoryOK
<1>6. ASSUME ~overlapped PROVE AloneOK'
  <2>1. Exclusive' /\ \A v \in Workers : Progress(v)'
    <3>1. UNCHANGED <<worker, clone>>
      BY <1>1
    <3> QED BY <1>6, <3>1 DEF IInv, AloneOK, Exclusive, Progress, At, IsRepository, Whole, SpecsOf
  <2>2. CommitsAreWhole'
    BY <1>2, <1>6, OthersPushEffect DEF IInv, AloneOK, CommitsAreWhole, Commits, Whole, SpecsOf
  <2>3. AnswersOwnCommit'
    BY <1>1, <1>6, OthersPushEffect DEF IInv, AloneOK, AnswersOwnCommit
  <2> QED BY <2>1, <2>2, <2>3 DEF AloneOK
<1> QED BY <1>1, <1>3, <1>4, <1>5, <1>6 DEF IInv

-----------------------------------------------------------------------------
(***************************************************************************)
(* Answers, failures and GitLab.                                           *)
(***************************************************************************)

LEMMA ReadHeadStep ==
  ASSUME IInv, NEW w \in Workers, ReadHead(w)
  PROVE  IInv'
<1> DEFINE h == clone.head
           f == [worker[w] EXCEPT !.pc = "poll", !.hash = h]
<1>1. worker[w].pc = "head" /\ ~At(w, "idle") /\ h \in Commits
  BY DEF ReadHead, At, IsRepository, IInv, TypeOK, Folder
<1>2. f \in Frame /\ f.pc = "poll" /\ f.hash = h /\ f.req = worker[w].req
  BY <1>1 DEF Frame, Steps, IInv, TypeOK
<1> HIDE DEF f
<1>3. /\ worker' \in [Workers -> Frame] /\ worker'[w] = f
      /\ \A v \in Workers \ {w} : worker'[v] = worker[v]
  BY <1>2, EnterEffect DEF ReadHead, HeadCommit, f, IInv, TypeOK
<1>4. UNCHANGED <<commit, branch, pipeline, clone, answer, overlapped>>
  BY DEF ReadHead, gitlab
<1>5. TypeOK'
  BY <1>3, <1>4 DEF IInv, TypeOK
<1>6. FramesOK'
  BY <1>1, <1>2, <1>3, <1>4, FramesStay DEF IInv, Before, Steps
<1>7. HistoryOK'
  BY <1>4 DEF IInv, HistoryOK, IsRepository
<1>8. (~overlapped => AloneOK)'
  <2>1. ~overlapped => Progress(w)'
    BY <1>1, <1>2, <1>3 DEF IInv, AloneOK, Progress
  <2> QED BY <1>1, <1>3, <1>4, <2>1, AloneStays DEF IInv
<1> QED BY <1>5, <1>6, <1>7, <1>8 DEF IInv

LEMMA ErrorIsNoCommit == "error" \notin Commits
BY ErrorAssumption

\* A worker that answers, rightly if it was alone, or leaves without an answer.
LEMMA EndStep ==
  ASSUME IInv, NEW w \in Workers, ~At(w, "idle"), worker' \in [Workers -> Frame],
         worker'[w] = Idle,
         \A v \in Workers \ {w} : worker'[v] = worker[v],
         UNCHANGED <<commit, branch, pipeline, overlapped>>,
         clone' \in {clone, Bare},
         answer' \in [Requests -> Commits \cup {"error", None}],
         \A r \in Requests : answer'[r] = answer[r] \/ answer'[r] = "error"
                             \/ (~overlapped => answer'[r] = r /\ r \in OnBranch)
  PROVE  IInv'
<1>1. Bare \in Folder /\ Bare.head = None
  BY DEF Bare, Folder, Empty, Tree
<1>2. TypeOK'
  BY <1>1 DEF IInv, TypeOK
<1>3. FramesOK'
  BY IdleIsFrame, FramesStay DEF IInv
<1>4. HistoryOK'
  BY <1>1 DEF IInv, HistoryOK, IsRepository
<1>5. ASSUME ~overlapped PROVE AloneOK'
  <2>1. Progress(w)'
    <3>1. worker'[w].pc = "idle"
      BY IdleIsFrame
    <3> QED BY <3>1 DEF Progress
  <2>2. Exclusive' /\ \A v \in Workers : Progress(v)'
    BY <1>5, <2>1, StaysAlone DEF IInv, AloneOK
  <2>3. CommitsAreWhole' /\ OnBranch' = OnBranch
    BY <1>5 DEF IInv, AloneOK, CommitsAreWhole, OnBranch
  <2>4. AnswersOwnCommit'
    <3> SUFFICES ASSUME NEW r \in Requests, answer'[r] \in Commits
                 PROVE  answer'[r] = r /\ r \in OnBranch
      BY <2>3 DEF AnswersOwnCommit
    <3>1. CASE answer'[r] = answer[r]
      BY <1>5, <3>1 DEF IInv, AloneOK, AnswersOwnCommit
    <3>2. CASE answer'[r] = "error"
      BY <3>2, ErrorIsNoCommit
    <3> QED BY <1>5, <3>1, <3>2
  <2> QED BY <2>2, <2>3, <2>4 DEF AloneOK
<1> QED BY <1>2, <1>3, <1>4, <1>5 DEF IInv

LEMMA PollAnswersStep ==
  ASSUME IInv, NEW w \in Workers, PollAnswers(w)
  PROVE  IInv'
<1> DEFINE c == worker[w].hash
<1>1. worker[w].pc = "poll" /\ ~At(w, "idle") /\ c \in Commits /\ c \in OnBranch
  BY DEF PollAnswers, At, IInv, FramesOK
<1>2. ~overlapped => c = worker[w].req
  BY <1>1 DEF IInv, AloneOK, Progress
<1>3. /\ answer' \in [Requests -> Commits \cup {"error", None}]
      /\ answer'[worker[w].req] = c
      /\ \A r \in Requests \ {worker[w].req} : answer'[r] = answer[r]
  BY <1>1, AnswerEffect DEF PollAnswers, IInv
<1>4. /\ worker' \in [Workers -> Frame] /\ worker'[w] = Idle
      /\ \A v \in Workers \ {w} : worker'[v] = worker[v]
  BY IdleIsFrame, EnterEffect DEF PollAnswers, Answer, IInv, TypeOK
<1> QED BY <1>1, <1>2, <1>3, <1>4, EndStep DEF PollAnswers, gitlab

LEMMA ErrorStep ==
  ASSUME IInv, NEW w \in Workers, ~At(w, "idle"), Answer(w, "error"),
         clone' \in {clone, Bare},
         UNCHANGED <<commit, branch, pipeline, overlapped>>
  PROVE  IInv'
<1>1. /\ answer' \in [Requests -> Commits \cup {"error", None}]
      /\ answer'[worker[w].req] = "error"
      /\ \A r \in Requests \ {worker[w].req} : answer'[r] = answer[r]
  BY AnswerEffect DEF IInv
<1>2. /\ worker' \in [Workers -> Frame] /\ worker'[w] = Idle
      /\ \A v \in Workers \ {w} : worker'[v] = worker[v]
  BY IdleIsFrame, EnterEffect DEF Answer, IInv, TypeOK
<1> QED BY <1>1, <1>2, EndStep

LEMMA FailureStep ==
  ASSUME IInv, NEW w \in Workers, PollRaises(w) \/ Raise(w) \/ Refuse(w)
  PROVE  IInv'
<1>1. ~At(w, "idle") /\ Answer(w, "error") /\ UNCHANGED <<commit, branch, pipeline, overlapped>>
  BY DEF PollRaises, Raise, Refuse, At, gitlab, Steps
<1>2. clone' \in {clone, Bare}
  BY DEF PollRaises, Raise, Refuse, CutShort
<1> QED BY <1>1, <1>2, ErrorStep

LEMMA CrashStep ==
  ASSUME IInv, NEW w \in Workers, Crash(w)
  PROVE  IInv'
<1>1. /\ worker' \in [Workers -> Frame] /\ worker'[w] = Idle
      /\ \A v \in Workers \ {w} : worker'[v] = worker[v]
  BY IdleIsFrame, EnterEffect DEF Crash, IInv, TypeOK
<1>2. clone' \in {clone, Bare}
  BY DEF Crash, CutShort
<1> QED BY <1>1, <1>2, EndStep DEF Crash, gitlab, IInv, TypeOK

LEMMA StartPipelineStep ==
  ASSUME IInv, NEW c \in Commits, StartPipeline(c)
  PROVE  IInv'
<1>1. UNCHANGED <<commit, branch, clone, answer, worker, overlapped>>
  BY DEF StartPipeline
<1>2. TypeOK'
  BY <1>1 DEF StartPipeline, IInv, TypeOK
<1> QED BY <1>1, <1>2 DEF IInv, FramesOK, HistoryOK, AloneOK, Exclusive, CommitsAreWhole,
                          AnswersOwnCommit, OnBranch, Progress, At, IsRepository, Whole, SpecsOf

LEMMA StutterStep ==
  ASSUME IInv, UNCHANGED vars
  PROVE  IInv'
BY DEF vars, IInv, TypeOK, FramesOK, HistoryOK, AloneOK, Exclusive, CommitsAreWhole,
       AnswersOwnCommit, OnBranch, Progress, At, IsRepository, Whole, SpecsOf

LEMMA NextStep == IInv /\ [Next]_vars => IInv'
<1> SUFFICES ASSUME IInv, [Next]_vars PROVE IInv'
  OBVIOUS
<1>1. CASE \E w \in Workers, r \in Requests : Register(w, r)
  BY <1>1, RegisterStep
<1>2. CASE \E w \in Workers : Continue(w)
  BY <1>2, RemoveStep, CloneStep, ChooseStep, CleanUpStep, WriteHysdsIoStep, WriteJobSpecStep,
     WriteConfigStep, WriteSubmissionStep, AddStep, CommitStep, PushStep, ReadHeadStep,
     PollAnswersStep, FailureStep DEF Continue
<1>3. CASE \E w \in Workers : Refuse(w) \/ Crash(w)
  BY <1>3, FailureStep, CrashStep
<1>4. CASE \E c \in Commits : StartPipeline(c)
  BY <1>4, StartPipelineStep
<1>5. CASE \E c \in Others : OthersPush(c)
  BY <1>5, OthersPushStep
<1>6. CASE UNCHANGED vars
  BY <1>6, StutterStep
<1> QED BY <1>1, <1>2, <1>3, <1>4, <1>5, <1>6 DEF Next

-----------------------------------------------------------------------------
(***************************************************************************)
(* The theorems.                                                           *)
(***************************************************************************)

\* Of the code's registration handler: the shared directory is as far as the one
\* worker that uses it has come, in every reachable state.
THEOREM Invariance == Spec => []IInv
<1>1. Init => IInv
  BY InitOK
<1>2. IInv /\ [Next]_vars => IInv'
  BY NextStep
<1> QED BY <1>1, <1>2, PTL DEF Spec

\* A commit of this host that reached the branch holds the specs of its
\* algorithm, written by its own request, and no others.
THEOREM PushedWhole == Spec => []PushedIsWhole
<1>1. IInv => PushedIsWhole
  <2> SUFFICES ASSUME IInv, ~overlapped, NEW r \in Requests \cap OnBranch
               PROVE  Whole(r, commit[r].tree)
    BY DEF PushedIsWhole
  <2>1. commit[r] # None
    BY DEF IInv, HistoryOK, OnBranch, TypeOK
  <2> QED BY <2>1 DEF IInv, AloneOK, CommitsAreWhole
<1> QED BY <1>1, Invariance, PTL

\* An answer with a pipeline is about the caller's own commit, which is on the branch.
THEOREM AnswersOwn == Spec => []AnswersOwnCommit
<1>1. IInv => AnswersOwnCommit
  BY DEF IInv, AloneOK, AnswersOwnCommit
<1> QED BY <1>1, Invariance, PTL

\* No step, of workers that share the directory or of others, takes a commit off
\* the branch.
THEOREM NothingLost == Spec => NothingIsLost
<1>1. IInv /\ [Next]_vars => [OnBranch \subseteq OnBranch']_vars
  <2> SUFFICES ASSUME IInv, Next PROVE OnBranch \subseteq OnBranch'
    OBVIOUS
  <2>1. CASE \E w \in Workers, r \in Requests : Register(w, r)
    BY <2>1 DEF Register, OnBranch, gitlab
  <2>2. ASSUME NEW w \in Workers, Commit(w) PROVE OnBranch \subseteq OnBranch'
    <3> DEFINE r == worker[w].req
    <3>1. r \in Commits /\ commit[r] = None
      BY <2>2 DEF Commit, At, IInv, FramesOK, Commits, Steps
    <3>2. branch' = branch /\ commit'[branch] = commit[branch]
      BY <2>2, <3>1 DEF Commit, gitlab, IInv, TypeOK, HistoryOK
    <3> QED BY <3>2 DEF OnBranch
  <2>3. CASE \E w \in Workers : Push(w)
    BY <2>3, PushEffect
  <2>4. CASE \E w \in Workers : Refuse(w) \/ Crash(w)
    BY <2>4 DEF Refuse, Crash, OnBranch, gitlab
  <2>5. CASE \E c \in Commits : StartPipeline(c)
    BY <2>5 DEF StartPipeline, OnBranch
  <2>6. CASE \E c \in Others : OthersPush(c)
    BY <2>6, OthersPushEffect
  <2>7. ASSUME NEW w \in Workers, Continue(w), ~Commit(w), ~Push(w)
        PROVE  OnBranch \subseteq OnBranch'
    <3>1. UNCHANGED <<commit, branch>>
      BY <2>7 DEF Continue, RemoveClone, Clone, ChooseQueue, CleanUp, WriteHysdsIo, WriteJobSpec,
         WriteConfig, WriteSubmission, Write, Add, ReadHead, PollAnswers, PollRaises, Raise, gitlab
    <3> QED BY <3>1 DEF OnBranch
  <2> QED BY <2>1, <2>2, <2>3, <2>4, <2>5, <2>6, <2>7 DEF Next
<1> QED BY <1>1, Invariance, PTL DEF Spec, NothingIsLost
=============================================================================
