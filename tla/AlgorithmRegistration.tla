------------------------ MODULE AlgorithmRegistration ------------------------
(***************************************************************************)
(* Registration of an algorithm (api/endpoints/algorithm.py, Register, and *)
(* api/utils/github_util.py): the API clones the register-job repository   *)
(* into one directory that all its workers share, replaces the spec files  *)
(* there with those of the request, commits, pushes, and waits for the     *)
(* pipeline GitLab starts for the commit.                                  *)
(*                                                                         *)
(* The body of a file and a commit are identified with the request that    *)
(* wrote them: a request makes at most one commit.  The repository has     *)
(* other committers (its maintainers, other hosts of the API).             *)
(***************************************************************************)
EXTENDS FiniteSets, Naturals

CONSTANTS
  Workers,      \* gunicorn worker processes of one host
  Requests,     \* registrations asked of this host
  Others,       \* commits made elsewhere
  First,        \* the commit the branch starts with
  Algorithms,   \* algorithm names, stripped of white space
  AlgorithmOf,  \* the algorithm each commit registers
  None

Commits == Requests \cup Others

ASSUME CommitAssumption == First \in Others /\ Requests \cap Others = {}
ASSUME AlgorithmAssumption == AlgorithmOf \in [Commits -> Algorithms]

Specs == {"hysds-io", "job-spec"} \X Algorithms

Config == <<"config.txt", None>>

Submission == <<"job-submission.json", None>>

Paths == Specs \cup {Config, Submission}

\* Which request wrote the body of each file, None where there is no such file.
Tree == [Paths -> Commits \cup {None}]

Empty == [p \in Paths |-> None]

SpecsOf(c) == {"hysds-io", "job-spec"} \X {AlgorithmOf[c]}

\* What a commit should hold: the specs of its algorithm and no other.
Whole(c, tree) ==
  /\ \A p \in SpecsOf(c) \cup {Config} : tree[p] = c
  /\ \A p \in Specs \ SpecsOf(c) : tree[p] = None

ASSUME NoneAssumption == None \notin Commits \cup {"error"}
ASSUME ErrorAssumption == "error" \notin Commits

\* past: the commits it descends from.
CommitRow == [tree: Tree, past: SUBSET Commits]

\* head is None when the directory is no repository: a clone that was cut
\* short, or files written after the directory had gone.
Folder == [head: Commits \cup {None}, index: Tree, files: Tree]

Bare == [head |-> None, index |-> Empty, files |-> Empty]

ASSUME RowAssumption == None \notin CommitRow \cup Folder

VARIABLES
  commit,       \* every commit made, here or elsewhere
  branch,       \* GitLab: the head of the branch
  pipeline,     \* GitLab: the commits whose pipeline is "due" or "started"
  clone,        \* the clone in the directory all workers share
  answer,       \* what each request was answered: a commit, or "error"
  worker,       \* the registration each worker is serving
  overlapped    \* history: whether two workers have ever been serving one at once

vars == <<commit, branch, pipeline, clone, answer, worker, overlapped>>

gitlab == <<branch, pipeline>>

-----------------------------------------------------------------------------

Steps ==
  {"idle", "remove", "clone", "choose", "cleanUp", "writeIo", "writeSpec", "writeConfig",
   "writeSubmission", "add", "commit", "push", "head", "poll"}

Frame == [pc: Steps, req: Requests \cup {None}, hash: Commits \cup {None}]

Idle == [pc |-> "idle", req |-> None, hash |-> None]

At(w, step) == worker[w].pc = step

Enter(w, f) == worker' = [worker EXCEPT ![w] = f]

GoTo(w, step) == Enter(w, [worker[w] EXCEPT !.pc = step])

\* The worker answers its request and is free.
Answer(w, a) ==
  /\ answer' = [answer EXCEPT ![worker[w].req] = a]
  /\ Enter(w, Idle)

Serving(r) == \E w \in Workers : worker[w].req = r

IsRepository == clone # None /\ clone.head # None

\* The commits of the branch, the ones GitLab knows.
OnBranch == {branch} \cup commit[branch].past

TypeOK ==
  /\ commit \in [Commits -> CommitRow \cup {None}]
  /\ branch \in Commits
  /\ pipeline \in [Commits -> {"due", "started", None}]
  /\ clone \in Folder \cup {None}
  /\ answer \in [Requests -> Commits \cup {"error", None}]
  /\ worker \in [Workers -> Frame]
  /\ overlapped \in BOOLEAN

\* The tree of a commit made elsewhere, on top of one it keeps the submission file of.
OthersTree(c, base) ==
  [p \in Paths |-> IF p \in SpecsOf(c) \cup {Config} THEN c ELSE base[p]]

Init ==
  /\ commit = [c \in Commits |-> IF c = First
                 THEN [tree |-> [p \in Paths |-> IF p \in SpecsOf(First) \cup {Config, Submission}
                                                   THEN First ELSE None],
                       past |-> {}]
                 ELSE None]
  /\ branch = First
  /\ pipeline = [c \in Commits |-> IF c = First THEN "started" ELSE None]
  /\ clone = None
  /\ answer = [r \in Requests |-> None]
  /\ worker = [w \in Workers |-> Idle]
  /\ overlapped = FALSE

-----------------------------------------------------------------------------
(***************************************************************************)
(* The steps of a registration.                                            *)
(***************************************************************************)

\* A client may ask again when its worker died before the commit.
Register(w, r) ==
  /\ At(w, "idle")
  /\ answer[r] = None /\ ~Serving(r) /\ commit[r] = None
  /\ Enter(w, [Idle EXCEPT !.pc = "remove", !.req = r])
  /\ overlapped' = (overlapped \/ \E v \in Workers : ~At(v, "idle"))
  /\ UNCHANGED <<commit, gitlab, clone, answer>>

\* The directory is removed if it exists, whatever it holds.
RemoveClone(w) ==
  /\ At(w, "remove")
  /\ clone' = None
  /\ GoTo(w, "clone")
  /\ UNCHANGED <<commit, gitlab, answer, overlapped>>

Clone(w) ==
  /\ At(w, "clone")
  /\ clone = None
  /\ clone' = [head |-> branch, index |-> commit[branch].tree, files |-> commit[branch].tree]
  /\ GoTo(w, "choose")
  /\ UNCHANGED <<commit, gitlab, answer, overlapped>>

\* The parameters parse and the queue is the default one, or one of the member.
ChooseQueue(w) ==
  /\ At(w, "choose")
  /\ GoTo(w, "cleanUp")
  /\ UNCHANGED <<commit, gitlab, clone, answer, overlapped>>

\* Removing the files and leaving the index as it is.
CleanedFilesOnly(dir) ==
  [dir EXCEPT !.files = [p \in Paths |-> IF p \in Specs THEN None ELSE dir.files[p]]]

\* Every file of docker/ but the Dockerfile goes, from the directory and the index.
Cleaned(dir) ==
  [dir EXCEPT !.files = [p \in Paths |-> IF p \in Specs THEN None ELSE dir.files[p]],
              !.index = [p \in Paths |-> IF p \in Specs THEN None ELSE dir.index[p]]]

\* A file the index does not have cannot be removed from it.
CanCleanUp ==
  IsRepository /\ \A p \in Specs : clone.files[p] # None => clone.index[p] # None

CleanUp(w) ==
  /\ At(w, "cleanUp")
  /\ CanCleanUp
  /\ clone' = Cleaned(clone)
  /\ GoTo(w, "writeIo")
  /\ UNCHANGED <<commit, gitlab, answer, overlapped>>

\* write_file makes the directory when it has gone.
Write(w, path, next) ==
  /\ clone' = [(IF clone = None THEN Bare ELSE clone) EXCEPT !.files[path] = worker[w].req]
  /\ GoTo(w, next)
  /\ UNCHANGED <<commit, gitlab, answer, overlapped>>

WriteHysdsIo(w) ==
  At(w, "writeIo") /\ Write(w, <<"hysds-io", AlgorithmOf[worker[w].req]>>, "writeSpec")

WriteJobSpec(w) ==
  At(w, "writeSpec") /\ Write(w, <<"job-spec", AlgorithmOf[worker[w].req]>>, "writeConfig")

WriteConfig(w) == At(w, "writeConfig") /\ Write(w, Config, "writeSubmission")

WriteSubmission(w) == At(w, "writeSubmission") /\ Write(w, Submission, "add")

FileList(r) == SpecsOf(r) \cup {Config}

CanAdd(r) == IsRepository /\ \A p \in FileList(r) : clone.files[p] # None

Add(w) ==
  LET r == worker[w].req IN
  /\ At(w, "add")
  /\ CanAdd(r)
  /\ clone' = [clone EXCEPT !.index =
                 [p \in Paths |-> IF p \in FileList(r) THEN clone.files[p] ELSE @[p]]]
  /\ GoTo(w, "commit")
  /\ UNCHANGED <<commit, gitlab, answer, overlapped>>

Commit(w) ==
  LET r == worker[w].req IN
  /\ At(w, "commit")
  /\ IsRepository
  /\ commit' = [commit EXCEPT ![r] = [tree |-> clone.index,
                                      past |-> commit[clone.head].past \cup {clone.head}]]
  /\ clone' = [clone EXCEPT !.head = r]
  /\ GoTo(w, "push")
  /\ UNCHANGED <<gitlab, answer, overlapped>>

\* Pushing by force.
AcceptsAlways(c) == TRUE

\* GitLab takes only what descends from the head of the branch.
Accepts(c) == branch \in {c} \cup commit[c].past

\* A rejected push is a return value of origin.push(), which nobody reads.
Push(w) ==
  LET c == clone.head IN
  /\ At(w, "push")
  /\ IsRepository
  /\ \/ /\ Accepts(c) /\ c # branch
        /\ branch' = c
        /\ pipeline' = [pipeline EXCEPT ![c] = IF @ = None THEN "due" ELSE @]
     \/ (~Accepts(c) \/ c = branch) /\ UNCHANGED gitlab
  /\ GoTo(w, "head")
  /\ UNCHANGED <<commit, clone, answer, overlapped>>

\* Asking GitLab for the head of the branch.
HeadOfBranch == branch

HeadCommit == clone.head

ReadHead(w) ==
  /\ At(w, "head")
  /\ IsRepository
  /\ Enter(w, [worker[w] EXCEPT !.pc = "poll", !.hash = HeadCommit])
  /\ UNCHANGED <<commit, gitlab, clone, answer, overlapped>>

\* The loop on last_pipeline ends with the first pipeline GitLab reports.
PollAnswers(w) ==
  LET c == worker[w].hash IN
  /\ At(w, "poll")
  /\ c \in OnBranch /\ pipeline[c] = "started"
  /\ Answer(w, c)
  /\ UNCHANGED <<commit, gitlab, clone, overlapped>>

\* A status of GitLab's answer that is not looked at.
NeverRaises(c) == FALSE

\* GitLab answers 404 for a commit it does not have.
RaisesForStatus(c) == c \notin OnBranch

PollRaises(w) ==
  /\ At(w, "poll")
  /\ RaisesForStatus(worker[w].hash)
  /\ Answer(w, "error")
  /\ UNCHANGED <<commit, gitlab, clone, overlapped>>

\* Another worker is replacing the directory or, for a removal, at work in it.
Disturbed(w) ==
  \E v \in Workers \ {w} :
    \/ worker[v].pc \in {"remove", "clone"}
    \/ At(w, "remove") /\ worker[v].pc \notin {"idle", "poll"}

\* What a removal or a clone that does not get to its end leaves.
CutShort(w) == IF worker[w].pc \in {"remove", "clone"} THEN {clone, Bare} ELSE {clone}

\* The step finds the directory in a state it cannot work with, or loses it
\* to another worker on the way.
Raise(w) ==
  LET f == worker[w] IN
  /\ \/ /\ \/ f.pc = "clone" /\ clone # None
           \/ f.pc = "cleanUp" /\ ~CanCleanUp
           \/ f.pc = "add" /\ ~CanAdd(f.req)
           \/ f.pc \in {"commit", "push", "head"} /\ ~IsRepository
        /\ UNCHANGED clone
     \/ /\ f.pc \notin {"idle", "choose", "poll"} /\ Disturbed(w)
        /\ clone' \in CutShort(w)
  /\ Answer(w, "error")
  /\ UNCHANGED <<commit, gitlab, overlapped>>

\* Bad parameters, a queue the member may not use, no repository url, an input
\* of unknown type, or GitLab out of reach: the files stay as they are.
Refuse(w) ==
  /\ worker[w].pc \in Steps \ {"idle", "remove", "writeSubmission", "add", "head"}
  /\ Answer(w, "error")
  /\ UNCHANGED <<commit, gitlab, clone, overlapped>>

\* The worker is killed, also in the middle of removing or cloning.
Crash(w) ==
  /\ ~At(w, "idle")
  /\ clone' \in CutShort(w)
  /\ Enter(w, Idle)
  /\ UNCHANGED <<commit, gitlab, answer, overlapped>>

-----------------------------------------------------------------------------
(***************************************************************************)
(* GitLab and the other committers of the repository.                      *)
(***************************************************************************)

StartPipeline(c) ==
  /\ pipeline[c] = "due"
  /\ pipeline' = [pipeline EXCEPT ![c] = "started"]
  /\ UNCHANGED <<commit, branch, clone, answer, worker, overlapped>>

OthersPush(c) ==
  /\ commit[c] = None
  /\ commit' = [commit EXCEPT ![c] = [tree |-> OthersTree(c, commit[branch].tree), past |-> OnBranch]]
  /\ branch' = c
  /\ pipeline' = [pipeline EXCEPT ![c] = "due"]
  /\ UNCHANGED <<clone, answer, worker, overlapped>>

-----------------------------------------------------------------------------

Continue(w) ==
  \/ RemoveClone(w)
  \/ Clone(w)
  \/ ChooseQueue(w)
  \/ CleanUp(w)
  \/ WriteHysdsIo(w)
  \/ WriteJobSpec(w)
  \/ WriteConfig(w)
  \/ WriteSubmission(w)
  \/ Add(w)
  \/ Commit(w)
  \/ Push(w)
  \/ ReadHead(w)
  \/ PollAnswers(w)
  \/ PollRaises(w)
  \/ Raise(w)

Next ==
  \/ \E w \in Workers, r \in Requests : Register(w, r)
  \/ \E w \in Workers : Continue(w) \/ Refuse(w) \/ Crash(w)
  \/ \E c \in Commits : StartPipeline(c)
  \/ \E c \in Others : OthersPush(c)

Spec == Init /\ [][Next]_vars

\* A worker goes on with the request it serves, and GitLab starts a pipeline for
\* what was pushed.  Nothing makes a worker fail or die.
FairSpec ==
  /\ Spec
  /\ \A w \in Workers : WF_vars(Continue(w))
  /\ \A c \in Commits : WF_vars(StartPipeline(c))

-----------------------------------------------------------------------------
(***************************************************************************)
(* Properties.                                                             *)
(***************************************************************************)

\* "clean up any old specs from the repo" (algorithm.py:274): as long as no two
\* workers registered at once, what reaches the branch holds the specs of its
\* algorithm, all of them written by its request, and those of no other, also
\* after workers died or were refused with the directory half written.
PushedIsWhole ==
  ~overlapped => \A r \in Requests \cap OnBranch : Whole(r, commit[r].tree)

\* A registration that is answered with a pipeline has its own commit on the
\* branch: a push that GitLab rejected, which push() does not raise, is never
\* answered as a success, whatever others push meanwhile.
AnswersOwnCommit ==
  ~overlapped =>
    \A r \in Requests : answer[r] \in Commits => answer[r] = r /\ r \in OnBranch

\* However workers interleave in the shared directory, a push never takes a
\* commit, here or of others, off the branch.
NothingIsLost == [][OnBranch \subseteq OnBranch']_vars

\* A commit that reached the branch as part of what another worker pushed:
\* GitLab knows it, and never starts a pipeline for it.
Swallowed(c) == c \in OnBranch /\ pipeline[c] = None

\* The wait for a pipeline has no bound (github_util.py:70), and every
\* registration ends but for one case: GitLab starts a pipeline for each head
\* it was pushed and answers 404 for a commit it does not have, so only a
\* worker that waits for a commit another worker's push took along waits on.
RegistrationEnds ==
  \A r \in Requests :
    Serving(r) ~> \/ ~Serving(r)
                  \/ \E w \in Workers :
                       At(w, "poll") /\ worker[w].req = r /\ Swallowed(worker[w].hash)

\* The same without the exception, which three workers in the directory refute
\* (docker-compose.yml:17 starts four).
NoneWaitsForEver == \A w \in Workers : At(w, "poll") => ~Swallowed(worker[w].hash)

\* "push the algorithm specs of the one being registered" (algorithm.py:203):
\* PushedIsWhole for workers that share the directory.
PushedIsWholeAlways == \A r \in Requests \cap OnBranch : Whole(r, commit[r].tree)

\* "creating file whose contents are returned on ci build success"
\* (algorithm.py:314): the file is part of what the CI checks out.
SubmissionIsPushed ==
  \A r \in Requests \cap OnBranch : commit[r].tree[Submission] = r

-----------------------------------------------------------------------------
(***************************************************************************)
(* The inductive invariant.                                                *)
(***************************************************************************)

\* Every commit is whole, on the branch or not.
CommitsAreWhole == \A r \in Requests : commit[r] # None => Whole(r, commit[r].tree)

Exclusive == \A v, w \in Workers : v # w => At(v, "idle") \/ At(w, "idle")

\* How far a worker that is alone has brought the directory.
Progress(w) ==
  LET f == worker[w]
      r == f.req
  IN
  /\ f.pc \in {"writeIo", "writeSpec", "writeConfig", "writeSubmission", "add"} =>
       IsRepository /\ \A p \in Specs : clone.index[p] = None
  /\ f.pc \in {"writeSpec", "writeConfig", "writeSubmission", "add"} =>
       clone.files[<<"hysds-io", AlgorithmOf[r]>>] = r
  /\ f.pc \in {"writeConfig", "writeSubmission", "add"} =>
       clone.files[<<"job-spec", AlgorithmOf[r]>>] = r
  /\ f.pc \in {"writeSubmission", "add"} => clone.files[Config] = r
  /\ f.pc = "commit" => IsRepository /\ Whole(r, clone.index)
  /\ f.pc \in {"push", "head"} => IsRepository /\ clone.head = r
  /\ f.pc = "poll" => f.hash = r

\* A worker serves a request of its own, which has no commit before it makes one.
FramesOK ==
  /\ \A w \in Workers : ~At(w, "idle") => worker[w].req \in Requests
  /\ \A v, w \in Workers : v # w /\ ~At(v, "idle") => worker[v].req # worker[w].req
  /\ \A w \in Workers :
       worker[w].pc \in Steps \ {"idle", "push", "head", "poll"} => commit[worker[w].req] = None
  /\ \A w \in Workers : At(w, "poll") => worker[w].hash \in Commits

\* Commits descend from commits, and from all those they descend from.
HistoryOK ==
  /\ commit[branch] # None
  /\ IsRepository => commit[clone.head] # None
  /\ \A c \in Commits : commit[c] # None =>
       \A d \in commit[c].past : commit[d] # None /\ commit[d].past \subseteq commit[c].past

AloneOK == Exclusive /\ CommitsAreWhole /\ AnswersOwnCommit /\ \A w \in Workers : Progress(w)

IInv == TypeOK /\ FramesOK /\ HistoryOK /\ (~overlapped => AloneOK)
=============================================================================
