----------------------------- MODULE JobsProofs -----------------------------
(***************************************************************************)
(* What a member is told of a job is so: accepted means recorded, and      *)
(* dismissed after waiting means over; a job that ended before anybody     *)
(* asked to cancel it is kept.  For any number of workers, members and     *)
(* jobs.                                                                   *)
(*                                                                         *)
(* Jobs only move on (Grows), so what a worker has read of one in the past *)
(* is still good enough: that it was shown, that it is over, which job a   *)
(* cancel is about.                                                        *)
(*                                                                         *)
(* The last part is about JobListing: a list has what was asked for.       *)
(***************************************************************************)
EXTENDS Jobs, JobListing, TLAPS

Grows ==
  /\ asked \subseteq asked' /\ member_job \subseteq member_job'
  /\ \A j \in JobIds : job[j] # None =>
       /\ job'[j] # None /\ job'[j].kind = job[j].kind /\ job'[j].of = job[j].of
       /\ job[j].status # "unseen" => job'[j].status # "unseen"
       /\ job[j].status \in Ended \cup {"purged"} => job'[j].status \in Ended \cup {"purged"}

LEMMA EnterEffect ==
  ASSUME worker \in [Workers -> Frame], NEW w \in Workers, NEW f \in Frame, Enter(w, f)
  PROVE  /\ worker' \in [Workers -> Frame]
         /\ worker'[w] = f
         /\ \A v \in Workers \ {w} : worker'[v] = worker[v]
BY DEF Enter

LEMMA IdleIsFrame == Idle \in Frame /\ Idle.pc = "idle" /\ Idle.reply = None /\ Idle.wait = FALSE
                     /\ Idle.call = None
BY DEF Idle, Frame, Steps

\* What an answer leaves with the worker.
LEMMA AnsweredEffect ==
  ASSUME NEW f \in Frame, NEW r \in Replies, NEW g, g = Answered(f, r)
  PROVE  /\ g \in Frame /\ g.pc = "idle"
         /\ \/ g.reply = None
            \/ /\ g.reply = r /\ g.call = f.call /\ g.member = f.member /\ g.job = f.job
               /\ g.wait = f.wait /\ r \in {"accepted", "dismissed"}
<1>1. CASE (f.call = "submit" /\ r = "accepted") \/ (f.wait /\ r = "dismissed")
  <2>1. g = [f EXCEPT !.pc = "idle", !.kind = None, !.cancel = None, !.reply = r]
    BY <1>1 DEF Answered
  <2> QED BY <2>1, <1>1 DEF Frame, Steps
<1>2. CASE ~((f.call = "submit" /\ r = "accepted") \/ (f.wait /\ r = "dismissed"))
  <2>1. g = Idle
    BY <1>2 DEF Answered
  <2> QED BY <2>1, IdleIsFrame
<1> QED BY <1>1, <1>2

\* A worker that does nothing stays right while the jobs move on.
LEMMA OthersOK ==
  ASSUME NEW v \in Workers, TypeOK, FrameOK(v), Grows, worker'[v] = worker[v]
  PROVE  FrameOK(v)'
<1> DEFINE f == worker[v]
<1>1. f \in Frame /\ asked \subseteq JobIds
  BY DEF TypeOK
<1>2. \A j \in JobIds : /\ Gone(j) => Gone(j)'
                        /\ Shown(j) => Shown(j)'
                        /\ CancelJob(j) => CancelJob(j)' /\ job'[j].of = job[j].of
  BY DEF Grows, Gone, Shown, CancelJob
<1>3. f.pc = "poll" /\ f.cancel # None => f.cancel \in JobIds
  BY <1>1 DEF Frame
<1>4. f.pc = "readStatus" /\ f.call = "cancel" => f.job \in asked' \/ Gone(f.job)'
  BY <1>1, <1>2 DEF FrameOK, Grows
<1>5. f.pc = "cancel" => f.kind # None /\ f.job \in asked' /\ Shown(f.job)'
  BY <1>1, <1>2 DEF FrameOK, Grows
<1>6. f.pc = "poll" /\ f.cancel # None => CancelJob(f.cancel)' /\ job'[f.cancel].of = f.job
  BY <1>2, <1>3 DEF FrameOK
<1>7. f.wait /\ f.reply = "dismissed" => f.job \in JobIds /\ Gone(f.job)'
  BY <1>2 DEF FrameOK
<1>8. f.call = "submit" /\ f.reply = "accepted" => <<f.member, f.job>> \in member_job'
  BY DEF FrameOK, Grows
<1> QED BY <1>4, <1>5, <1>6, <1>7, <1>8 DEF FrameOK, Gone, Shown, CancelJob

LEMMA InitOK == Init => IInv
<1> SUFFICES ASSUME Init PROVE IInv
  OBVIOUS
<1>1. \A w \in Workers : worker[w] = Idle
  BY DEF Init
<1>2. TypeOK
  BY IdleIsFrame DEF Init, TypeOK
<1>3. CancelsOK
  BY DEF Init, CancelsOK, CancelJob
<1>4. ASSUME NEW w \in Workers PROVE FrameOK(w)
  BY <1>1, IdleIsFrame, WordAssumption DEF FrameOK, Replies
<1> QED BY <1>2, <1>3, <1>4 DEF IInv

\* Nothing happens to the jobs.
LEMMA QuietGrows ==
  ASSUME job' = job, asked \subseteq asked', member_job \subseteq member_job'
  PROVE  Grows
BY DEF Grows

LEMMA QuietCancels ==
  ASSUME CancelsOK, job' = job, asked \subseteq asked'
  PROVE  CancelsOK'
BY DEF CancelsOK, CancelJob, Shown, Gone

\* CancelsOK after a step, from the job each cancel is about.
LEMMA CancelsNext ==
  ASSUME \A c \in JobIds : CancelJob(c)' =>
           \E i \in asked' : /\ job'[c].of = i /\ i # c /\ Shown(i)'
                             /\ job'[c].status = "completed" => Gone(i)'
  PROVE  CancelsOK'
BY DEF CancelsOK, CancelJob, Shown, Gone

\* A new job: one of a member, or a cancel of a job that was asked for.
LEMMA NewJob ==
  ASSUME TypeOK, CancelsOK, NEW j \in Unused, NEW kind \in {"run", "purge", "revoke"},
         NEW of \in JobIds \cup {None}, kind # "run" => of \in asked /\ Shown(of),
         job' = [job EXCEPT ![j] = Accepted(kind, of)],
         asked' = asked, member_job' = member_job
  PROVE  /\ job' \in [JobIds -> JobRow \cup {None}] /\ Grows /\ CancelsOK'
         /\ job'[j] # None /\ job'[j].kind = kind /\ job'[j].of = of
<1> DEFINE row == Accepted(kind, of)
<1>1. j \in JobIds /\ job[j] = None
  BY DEF Unused
<1>2. row \in JobRow /\ row.kind = kind /\ row.of = of /\ row.status = "unseen"
  BY DEF Accepted, JobRow, Statuses
<1> HIDE DEF row
<1>3. job'[j] = row /\ \A i \in JobIds \ {j} : job'[i] = job[i]
  BY <1>1 DEF TypeOK, row
<1>4. job' \in [JobIds -> JobRow \cup {None}]
  BY <1>1, <1>2 DEF TypeOK, row
<1>5. row # None
  BY <1>2, RowAssumption
<1>6. Grows
  BY <1>1, <1>3 DEF Grows
<1>7. CancelsOK'
  <2> SUFFICES ASSUME NEW c \in JobIds, CancelJob(c)'
               PROVE  \E i \in asked' : /\ job'[c].of = i /\ i # c /\ Shown(i)'
                                        /\ job'[c].status = "completed" => Gone(i)'
    BY CancelsNext
  <2>1. \A i \in JobIds : Shown(i) => i # j /\ Shown(i)'
    BY <1>1, <1>3 DEF Shown
  <2>2. \A i \in JobIds : Gone(i) => Gone(i)'
    BY <1>1, <1>3 DEF Gone
  <2>3. CASE c = j
    <3>1. of \in asked /\ Shown(of) /\ of \in JobIds
      BY <2>3, <1>2, <1>3 DEF CancelJob, TypeOK
    <3> QED BY <3>1, <2>1, <2>3, <1>2, <1>3
  <2>4. CASE c # j
    <3>1. CancelJob(c) /\ job'[c] = job[c]
      BY <2>4, <1>3 DEF CancelJob
    <3>2. job[c].of \in asked /\ job[c].of \in JobIds
      BY <3>1 DEF CancelsOK, TypeOK
    <3> QED BY <3>1, <3>2, <2>1, <2>2 DEF CancelsOK
  <2> QED BY <2>3, <2>4
<1> QED BY <1>2, <1>3, <1>4, <1>5, <1>6, <1>7

\* HySDS moves one job on.
LEMMA MovedJob ==
  ASSUME TypeOK, CancelsOK, NEW j \in JobIds, NEW s \in Statuses \ {"unseen"}, job[j] # None,
         SetStatus(j, s), UNCHANGED <<asked, member_job>>,
         job[j].status \in Ended \cup {"purged"} => s \in Ended \cup {"purged"},
         s = "completed" => job[j].kind = "run"
  PROVE  job' \in [JobIds -> JobRow \cup {None}] /\ Grows /\ CancelsOK'
<1> DEFINE row == [job[j] EXCEPT !.status = s]
<1>1. job[j] \in JobRow
  BY DEF TypeOK
<1>2. row \in JobRow /\ row.kind = job[j].kind /\ row.of = job[j].of /\ row.status = s
  BY <1>1 DEF JobRow
<1>3. job'[j] = row /\ \A i \in JobIds \ {j} : job'[i] = job[i]
  BY DEF TypeOK, SetStatus
<1>4. job' \in [JobIds -> JobRow \cup {None}]
  BY <1>2 DEF TypeOK, SetStatus
<1> HIDE DEF row
<1>5. row # None
  BY <1>2, RowAssumption
<1>6. Grows
  BY <1>2, <1>3, <1>5 DEF Grows
<1>7. CancelsOK'
  <2> SUFFICES ASSUME NEW c \in JobIds, CancelJob(c)'
               PROVE  \E i \in asked' : /\ job'[c].of = i /\ i # c /\ Shown(i)'
                                        /\ job'[c].status = "completed" => Gone(i)'
    BY CancelsNext
  <2>1. CancelJob(c) /\ job'[c].of = job[c].of
    BY <1>2, <1>3 DEF CancelJob
  <2>2. job'[c].status = "completed" => job[c].status = "completed"
    BY <1>2, <1>3, <2>1 DEF CancelJob
  <2>3. job[c].of \in asked /\ job[c].of \in JobIds
    BY <2>1 DEF CancelsOK, TypeOK
  <2>4. \A i \in JobIds : (Shown(i) => Shown(i)') /\ (Gone(i) => Gone(i)')
    BY <1>6 DEF Grows, Shown, Gone
  <2> QED BY <2>1, <2>2, <2>3, <2>4 DEF CancelsOK
<1> QED BY <1>4, <1>6, <1>7

\* The worker that answers is right when what it leaves is.
LEMMA AnswerOK ==
  ASSUME TypeOK, NEW w \in Workers, NEW f \in Frame, NEW r \in Replies,
         Enter(w, Answered(f, r)),
         r = "accepted" /\ f.call = "submit" => <<f.member, f.job>> \in member_job',
         r = "dismissed" /\ f.wait => f.job \in JobIds /\ Gone(f.job)'
  PROVE  /\ worker' \in [Workers -> Frame] /\ FrameOK(w)'
         /\ \A v \in Workers \ {w} : worker'[v] = worker[v]
<1> DEFINE g == Answered(f, r)
<1>1. /\ g \in Frame /\ g.pc = "idle"
      /\ \/ g.reply = None
         \/ /\ g.reply = r /\ g.call = f.call /\ g.member = f.member /\ g.job = f.job
            /\ g.wait = f.wait
  BY AnsweredEffect
<1>2. Enter(w, g)
  OBVIOUS
<1> HIDE DEF g
<1>3. /\ worker' \in [Workers -> Frame] /\ worker'[w] = g
      /\ \A v \in Workers \ {w} : worker'[v] = worker[v]
  BY <1>1, <1>2, EnterEffect DEF TypeOK
<1>4. None \notin {"dismissed", "accepted"}
  BY WordAssumption DEF Replies
<1>5. g.wait /\ g.reply = "dismissed" => g.job \in JobIds /\ Gone(g.job)'
  BY <1>1, <1>4
<1>6. g.call = "submit" /\ g.reply = "accepted" => <<g.member, g.job>> \in member_job'
  BY <1>1, <1>4
<1> QED BY <1>1, <1>3, <1>5, <1>6 DEF FrameOK, Gone

\* The same for the frame of the worker as it was.
LEMMA RepliedOK ==
  ASSUME TypeOK, NEW w \in Workers, NEW f, f = worker[w],
         NEW r \in Replies, Answer(w, r),
         r = "accepted" /\ f.call = "submit" => <<f.member, f.job>> \in member_job',
         r = "dismissed" /\ f.wait => f.job \in JobIds /\ Gone(f.job)'
  PROVE  /\ worker' \in [Workers -> Frame] /\ FrameOK(w)'
         /\ \A v \in Workers \ {w} : worker'[v] = worker[v]
<1>1. f \in Frame /\ Enter(w, Answered(f, r))
  BY DEF TypeOK, Answer
<1> QED BY <1>1, AnswerOK

\* A worker that goes on to a step needs of its frame what that step uses.
LEMMA EnterOK ==
  ASSUME TypeOK, NEW w \in Workers, NEW f \in Frame, Enter(w, f), f.reply = None,
         f.pc \in {"submit", "record"} => f.member \in Members,
         f.pc = "record" => f.job \in JobIds,
         f.pc \in {"readStatus", "readInfo"} => f.job \in JobIds,
         f.pc = "readStatus" /\ f.call = "cancel" => f.job \in asked' \/ Gone(f.job)',
         f.pc = "cancel" => f.kind # None /\ f.job \in asked' /\ Shown(f.job)',
         f.pc = "poll" => f.job \in JobIds,
         f.pc = "poll" /\ f.cancel # None => CancelJob(f.cancel)' /\ job'[f.cancel].of = f.job
  PROVE  /\ worker' \in [Workers -> Frame] /\ FrameOK(w)'
         /\ \A v \in Workers \ {w} : worker'[v] = worker[v]
<1>1. /\ worker' \in [Workers -> Frame] /\ worker'[w] = f
      /\ \A v \in Workers \ {w} : worker'[v] = worker[v]
  BY EnterEffect DEF TypeOK
<1>2. f.reply \notin {"dismissed", "accepted"}
  BY WordAssumption DEF Replies
<1>3. worker'[w] = f
  BY <1>1
<1>4. f.pc = "readStatus" /\ f.call = "cancel" => f.job \in asked' \/ Gone(f.job)'
  OBVIOUS
<1>5. f.pc = "poll" /\ f.cancel # None => CancelJob(f.cancel)' /\ job'[f.cancel].of = f.job
  OBVIOUS
<1>6. FrameOK(w)'
  BY <1>2, <1>3, <1>4, <1>5 DEF FrameOK, Gone, Shown, CancelJob
<1> QED BY <1>1, <1>6

\* A step of w that brings the jobs on and leaves w right keeps the invariant.
LEMMA StepOK ==
  ASSUME IInv, NEW w \in Workers, Grows, CancelsOK',
         job' \in [JobIds -> JobRow \cup {None}],
         member_job' \subseteq Members \X JobIds, asked' \subseteq JobIds,
         worker' \in [Workers -> Frame], FrameOK(w)',
         \A v \in Workers \ {w} : worker'[v] = worker[v]
  PROVE  IInv'
<1>1. TypeOK'
  BY DEF TypeOK
<1>2. ASSUME NEW v \in Workers PROVE FrameOK(v)'
  <2>1. CASE v = w
    BY <2>1
  <2>2. CASE v # w
    BY <2>2, OthersOK DEF IInv
  <2> QED BY <2>1, <2>2
<1> QED BY <1>1, <1>2 DEF IInv

\* The same when the step leaves the jobs alone.
LEMMA QuietStepOK ==
  ASSUME IInv, NEW w \in Workers, UNCHANGED <<job, member_job, asked>>,
         worker' \in [Workers -> Frame], FrameOK(w)',
         \A v \in Workers \ {w} : worker'[v] = worker[v]
  PROVE  IInv'
<1>1. Grows /\ CancelsOK'
  BY QuietGrows, QuietCancels DEF IInv
<1> QED BY <1>1, StepOK DEF IInv, TypeOK

\* A step of HySDS.
LEMMA HySDSOK ==
  ASSUME IInv, Grows, CancelsOK', job' \in [JobIds -> JobRow \cup {None}],
         UNCHANGED <<member_job, asked, worker>>
  PROVE  IInv'
<1>1. TypeOK'
  BY DEF TypeOK, IInv
<1>2. ASSUME NEW v \in Workers PROVE FrameOK(v)'
  BY OthersOK DEF IInv
<1> QED BY <1>1, <1>2 DEF IInv

LEMMA StatusFacts ==
  ASSUME TypeOK, NEW j \in JobIds
  PROVE  /\ Status(j) \in Active => job[j] # None /\ job[j].status = Status(j)
         /\ Status(j) \in Ended => job[j] # None /\ job[j].status = Status(j)
         /\ job[j] # None /\ job[j].status \in Active \cup Ended => Status(j) = job[j].status
         /\ Status(j) = None \/ (job[j] # None /\ job[j].status = Status(j))
<1>1. None \notin Active \cup Ended \cup {"unseen", "purged"} /\ j # None
  BY WordAssumption, NoneAssumption DEF Statuses
<1> QED BY <1>1 DEF Status, Active, Ended

-----------------------------------------------------------------------------

LEMMA SubmitOK ==
  ASSUME IInv, NEW w \in Workers, NEW call \in Calls, NEW m \in Members, Submit(w, call, m)
  PROVE  IInv'
<1> DEFINE f == [Idle EXCEPT !.pc = "submit", !.call = call, !.member = m]
<1>1. f \in Frame /\ f.pc = "submit" /\ f.reply = None /\ f.member = m
  BY DEF Frame, Steps, Idle
<1>2. Enter(w, f) /\ UNCHANGED <<job, member_job, asked>>
  BY DEF Submit
<1> HIDE DEF f
<1> QED BY <1>1, <1>2, EnterOK, QuietStepOK DEF IInv

LEMMA AskOK ==
  ASSUME IInv, NEW w \in Workers, NEW j \in JobIds, NEW call \in Calls, Ask(w, j, call)
  PROVE  IInv'
<1> PICK step \in {"readStatus", "readInfo"} :
      /\ call \in {"read", "readDps"}
      /\ Enter(w, [Idle EXCEPT !.pc = step, !.call = call, !.job = j])
  BY DEF Ask
<1> DEFINE f == [Idle EXCEPT !.pc = step, !.call = call, !.job = j]
<1>1. /\ f \in Frame /\ f.pc = step /\ f.reply = None /\ f.job = j /\ f.call # "cancel"
  BY DEF Frame, Steps, Idle, Calls
<1>2. Enter(w, f) /\ UNCHANGED <<job, member_job, asked>>
  BY DEF Ask
<1> HIDE DEF f
<1> QED BY <1>1, <1>2, EnterOK, QuietStepOK DEF IInv

LEMMA CancelOK ==
  ASSUME IInv, NEW w \in Workers, NEW j \in JobIds, NEW wait \in BOOLEAN, Cancel(w, j, wait)
  PROVE  IInv'
<1> DEFINE f == [Idle EXCEPT !.pc = "readStatus", !.call = "cancel", !.job = j, !.wait = wait]
<1>1. f \in Frame /\ f.pc = "readStatus" /\ f.reply = None /\ f.job = j
  BY DEF Frame, Steps, Idle, Calls
<1>2. Enter(w, f) /\ UNCHANGED <<job, member_job>> /\ job[j] # None
  BY DEF Cancel
<1> HIDE DEF f
<1>3. asked' \subseteq JobIds /\ asked \subseteq asked'
  BY DEF Cancel, IInv, TypeOK
<1>4. j \in asked' \/ Gone(j)'
  BY <1>2 DEF Cancel, Gone
<1>5. Grows /\ CancelsOK'
  BY <1>2, <1>3, QuietGrows, QuietCancels DEF IInv
<1>6. /\ worker' \in [Workers -> Frame] /\ FrameOK(w)'
      /\ \A v \in Workers \ {w} : worker'[v] = worker[v]
  BY <1>1, <1>2, <1>4, EnterOK DEF IInv
<1> QED BY <1>2, <1>3, <1>5, <1>6, StepOK DEF IInv, TypeOK

\* Mozart takes a job of a member: the jobs move on.
LEMMA AcceptsOK ==
  ASSUME IInv, NEW j \in JobIds, MozartAccepts(j), UNCHANGED <<member_job, asked>>
  PROVE  job' \in [JobIds -> JobRow \cup {None}] /\ Grows /\ CancelsOK'
<1>1. CASE j \in Unused /\ job' = [job EXCEPT ![j] = Accepted("run", None)]
  BY <1>1, NewJob DEF IInv
<1>2. CASE UNCHANGED job
  BY <1>2, QuietGrows, QuietCancels DEF IInv, TypeOK
<1> QED BY <1>1, <1>2 DEF MozartAccepts

LEMMA SubmitJobOK ==
  ASSUME IInv, NEW w \in Workers, NEW j \in JobIds, SubmitJob(w, j)
  PROVE  IInv'
<1> DEFINE f == [worker[w] EXCEPT !.job = j]
<1>1. worker[w] \in Frame /\ worker[w].pc = "submit" /\ FrameOK(w)
  BY DEF IInv, TypeOK, SubmitJob, At
<1>2. worker[w].reply = None /\ worker[w].member \in Members
  BY <1>1 DEF FrameOK
<1>3. /\ f \in Frame /\ f.job = j /\ f.reply = None /\ f.member \in Members
  BY <1>1, <1>2 DEF Frame
<1>4. Enter(w, IF f.call = "submit" THEN [f EXCEPT !.pc = "record"] ELSE Answered(f, "accepted"))
  BY DEF SubmitJob
<1>5. MozartAccepts(j) /\ UNCHANGED <<member_job, asked>>
  BY DEF SubmitJob
<1> HIDE DEF f
<1>6. CASE f.call = "submit"
  <2> DEFINE g == [f EXCEPT !.pc = "record"]
  <2>1. g \in Frame /\ g.pc = "record" /\ g.job = j /\ g.reply = None /\ g.member \in Members
    BY <1>3 DEF Frame, Steps
  <2>2. Enter(w, g)
    BY <1>4, <1>6
  <2> HIDE DEF g
  <2>3. /\ worker' \in [Workers -> Frame] /\ FrameOK(w)'
        /\ \A v \in Workers \ {w} : worker'[v] = worker[v]
    BY <2>1, <2>2, EnterOK DEF IInv
  <2> QED BY <2>3, <1>5, AcceptsOK, StepOK DEF IInv, TypeOK
<1>7. CASE f.call # "submit"
  <2>1. Enter(w, Answered(f, "accepted"))
    BY <1>4, <1>7
  <2>2. /\ worker' \in [Workers -> Frame] /\ FrameOK(w)'
        /\ \A v \in Workers \ {w} : worker'[v] = worker[v]
    BY <2>1, <1>3, <1>7, AnswerOK DEF IInv, Replies
  <2> QED BY <2>2, <1>5, AcceptsOK, StepOK DEF IInv, TypeOK
<1> QED BY <1>6, <1>7

\* An answer that accepts and dismisses nothing, and leaves the jobs alone.
LEMMA QuietAnswerOK ==
  ASSUME IInv, NEW w \in Workers, NEW r \in Replies \ {"accepted", "dismissed"},
         Answer(w, r), UNCHANGED <<job, member_job, asked>>
  PROVE  IInv'
<1> PICK f : f = worker[w]
  OBVIOUS
<1>1. /\ worker' \in [Workers -> Frame] /\ FrameOK(w)'
      /\ \A v \in Workers \ {w} : worker'[v] = worker[v]
  BY RepliedOK DEF IInv
<1> QED BY <1>1, QuietStepOK

\* A call that fails, where the job it would have made may be there nevertheless.
LEMMA LostCallOK ==
  ASSUME IInv, NEW w \in Workers, NEW kind \in {"run", "purge", "revoke"},
         NEW of \in JobIds \cup {None}, kind # "run" => of \in asked /\ Shown(of),
         \/ \E j \in Unused : job' = [job EXCEPT ![j] = Accepted(kind, of)]
         \/ UNCHANGED job,
         Answer(w, "unreachable"), UNCHANGED <<member_job, asked>>
  PROVE  IInv'
<1>1. "unreachable" \in Replies \ {"accepted", "dismissed"}
  BY DEF Replies
<1>2. CASE UNCHANGED job
  BY <1>1, <1>2, QuietAnswerOK
<1>3. ASSUME NEW j \in Unused, job' = [job EXCEPT ![j] = Accepted(kind, of)] PROVE IInv'
  <2>1. job' \in [JobIds -> JobRow \cup {None}] /\ Grows /\ CancelsOK'
    BY <1>3, NewJob DEF IInv
  <2> PICK f : f = worker[w]
    OBVIOUS
  <2>2. /\ worker' \in [Workers -> Frame] /\ FrameOK(w)'
        /\ \A v \in Workers \ {w} : worker'[v] = worker[v]
    BY <1>1, RepliedOK DEF IInv
  <2> QED BY <2>1, <2>2, StepOK DEF IInv, TypeOK
<1> QED BY <1>2, <1>3

LEMMA RecordJobOK ==
  ASSUME IInv, NEW w \in Workers, RecordJob(w)
  PROVE  IInv'
<1> PICK f : f = worker[w]
  OBVIOUS
<1>1. f \in Frame /\ f.pc = "record" /\ FrameOK(w)
  BY DEF IInv, TypeOK, RecordJob, At
<1>2. f.member \in Members /\ f.job \in JobIds
  BY <1>1 DEF FrameOK
<1>3. member_job' = member_job \cup {<<f.member, f.job>>} /\ UNCHANGED <<job, asked>>
  BY DEF RecordJob
<1>4. "accepted" \in Replies /\ Answer(w, "accepted")
  BY DEF Replies, RecordJob
<1>5. /\ worker' \in [Workers -> Frame] /\ FrameOK(w)'
      /\ \A v \in Workers \ {w} : worker'[v] = worker[v]
  BY <1>3, <1>4, RepliedOK DEF IInv
<1>6. member_job' \subseteq Members \X JobIds /\ member_job \subseteq member_job'
  BY <1>2, <1>3 DEF IInv, TypeOK
<1>7. Grows /\ CancelsOK'
  BY <1>3, <1>6, QuietGrows, QuietCancels DEF IInv
<1> QED BY <1>3, <1>5, <1>6, <1>7, StepOK DEF IInv, TypeOK

LEMMA ReadStatusOK ==
  ASSUME IInv, NEW w \in Workers, ReadStatus(w)
  PROVE  IInv'
<1> PICK f : f = worker[w]
  OBVIOUS
<1> DEFINE status == Status(f.job)
           kind == CancelKind(status)
<1>1. f \in Frame /\ f.pc = "readStatus" /\ f.call = "cancel" /\ FrameOK(w)
  BY DEF IInv, TypeOK, ReadStatus, At
<1>2. f.job \in JobIds /\ f.reply = None /\ (f.job \in asked \/ Gone(f.job))
  BY <1>1 DEF FrameOK
<1>3. UNCHANGED <<job, member_job, asked>>
  BY DEF ReadStatus
<1>4. {"missing", "refused"} \subseteq Replies \ {"accepted", "dismissed"}
  BY DEF Replies
<1>5. \/ Answer(w, "missing") \/ Answer(w, "refused")
      \/ status # None /\ kind # None /\ Enter(w, [f EXCEPT !.pc = "cancel", !.kind = kind])
  BY DEF ReadStatus
<1>6. CASE Answer(w, "missing") \/ Answer(w, "refused")
  BY <1>3, <1>4, <1>6, QuietAnswerOK
<1>7. CASE status # None /\ kind # None /\ Enter(w, [f EXCEPT !.pc = "cancel", !.kind = kind])
  <2>1. status \in Active /\ kind \in {"purge", "revoke"}
    BY <1>7 DEF CancelKind, Active
  <2>2. job[f.job] # None /\ job[f.job].status \in Active
    BY <2>1, <1>2, StatusFacts DEF IInv
  <2>3. f.job \in asked /\ Shown(f.job)
    BY <2>2, <1>2 DEF Gone, Shown, Active, Ended
  <2> HIDE DEF kind
  <2> PICK g : g = [f EXCEPT !.pc = "cancel", !.kind = kind]
    OBVIOUS
  <2>4. g \in Frame /\ g.pc = "cancel" /\ g.kind # None /\ g.job = f.job /\ g.reply = None
    BY <1>1, <1>2, <1>7, <2>1 DEF Frame, Steps
  <2>5. Enter(w, g)
    BY <1>7
  <2>6. g.job \in asked' /\ Shown(g.job)'
    BY <1>3, <2>3, <2>4 DEF Shown
  <2>7. /\ worker' \in [Workers -> Frame] /\ FrameOK(w)'
        /\ \A v \in Workers \ {w} : worker'[v] = worker[v]
    BY <2>4, <2>5, <2>6, EnterOK DEF IInv
  <2> QED BY <1>3, <2>7, QuietStepOK
<1> QED BY <1>5, <1>6, <1>7

LEMMA SubmitCancelOK ==
  ASSUME IInv, NEW w \in Workers, NEW c \in JobIds \cup {None}, SubmitCancel(w, c)
  PROVE  IInv'
<1> PICK f : f = worker[w]
  OBVIOUS
<1>1. f \in Frame /\ f.pc = "cancel" /\ FrameOK(w)
  BY DEF IInv, TypeOK, SubmitCancel, At
<1>2. /\ f.reply = None /\ f.kind \in {"purge", "revoke"} /\ f.job \in asked /\ Shown(f.job)
      /\ f.job \in JobIds
  BY <1>1 DEF FrameOK, Frame, IInv, TypeOK
<1>3. /\ \/ c \in Unused /\ job' = [job EXCEPT ![c] = Accepted(f.kind, f.job)]
         \/ c = None /\ UNCHANGED job
      /\ Enter(w, IF f.wait THEN [f EXCEPT !.pc = "poll", !.cancel = c] ELSE Answered(f, "dismissed"))
      /\ UNCHANGED <<member_job, asked>>
  BY DEF SubmitCancel
<1>4. /\ job' \in [JobIds -> JobRow \cup {None}] /\ Grows /\ CancelsOK'
      /\ c # None => job'[c] # None /\ job'[c].kind = f.kind /\ job'[c].of = f.job
  <2>1. CASE c \in Unused /\ job' = [job EXCEPT ![c] = Accepted(f.kind, f.job)]
    <3>1. f.kind \in {"run", "purge", "revoke"} /\ f.job \in JobIds \cup {None}
      BY <1>2
    <3> QED BY <2>1, <1>2, <1>3, <3>1, NewJob DEF IInv
  <2>2. CASE c = None /\ UNCHANGED job
    BY <2>2, <1>3, QuietGrows, QuietCancels DEF IInv, TypeOK
  <2> QED BY <1>3, <2>1, <2>2
<1>5. CASE f.wait
  <2> DEFINE g == [f EXCEPT !.pc = "poll", !.cancel = c]
  <2>1. g \in Frame /\ g.pc = "poll" /\ g.cancel = c /\ g.job = f.job /\ g.reply = None
    BY <1>1, <1>2 DEF Frame, Steps
  <2>2. Enter(w, g)
    BY <1>3, <1>5
  <2> HIDE DEF g
  <2>3. g.cancel # None => CancelJob(g.cancel)' /\ job'[g.cancel].of = g.job
    BY <2>1, <1>2, <1>4 DEF CancelJob
  <2>4. /\ worker' \in [Workers -> Frame] /\ FrameOK(w)'
        /\ \A v \in Workers \ {w} : worker'[v] = worker[v]
    BY <1>2, <2>1, <2>2, <2>3, EnterOK DEF IInv
  <2> QED BY <1>3, <1>4, <2>4, StepOK DEF IInv, TypeOK
<1>6. CASE ~f.wait
  <2>1. Enter(w, Answered(f, "dismissed"))
    BY <1>3, <1>6
  <2>2. /\ worker' \in [Workers -> Frame] /\ FrameOK(w)'
        /\ \A v \in Workers \ {w} : worker'[v] = worker[v]
    BY <2>1, <1>1, <1>6, AnswerOK DEF IInv, Replies
  <2> QED BY <1>3, <1>4, <2>2, StepOK DEF IInv, TypeOK
<1> QED BY <1>5, <1>6

LEMMA PollOK ==
  ASSUME IInv, NEW w \in Workers, Poll(w)
  PROVE  IInv'
<1> PICK f : f = worker[w]
  OBVIOUS
<1> DEFINE status == Status(f.cancel)
<1>1. f \in Frame /\ f.pc = "poll" /\ FrameOK(w) /\ f.cancel \in JobIds \cup {None}
  BY DEF IInv, TypeOK, Poll, At, Frame
<1>2. /\ f.job \in JobIds
      /\ f.cancel # None => CancelJob(f.cancel) /\ job[f.cancel].of = f.job
  BY <1>1 DEF FrameOK
<1>3. UNCHANGED <<job, member_job, asked>> /\ Answer(w, PollReply(status))
  BY DEF Poll
<1>4. CASE status # "completed"
  <2>1. PollReply(status) = "error"
    BY <1>4 DEF PollReply
  <2> QED BY <1>3, <2>1, QuietAnswerOK DEF Replies
<1>5. CASE status = "completed"
  <2>1. PollReply(status) = "dismissed"
    BY <1>5 DEF PollReply
  <2>2. f.cancel # None
    BY <1>5, WordAssumption DEF Status, Statuses, Ended
  <2>3. job[f.cancel].status = "completed" /\ f.cancel \in JobIds
    BY <1>1, <1>5, <2>2, StatusFacts DEF IInv, Ended
  <2>4. Gone(f.job)'
    BY <1>2, <1>3, <2>2, <2>3 DEF IInv, CancelsOK, Gone
  <2>5. /\ worker' \in [Workers -> Frame] /\ FrameOK(w)'
        /\ \A v \in Workers \ {w} : worker'[v] = worker[v]
    BY <1>2, <1>3, <2>1, <2>4, RepliedOK DEF IInv, Replies
  <2> QED BY <1>3, <2>5, QuietStepOK
<1> QED BY <1>4, <1>5

LEMMA ReadsOK ==
  ASSUME IInv, NEW w \in Workers, CheckExists(w) \/ ReadRecord(w) \/ ReadDetails(w)
  PROVE  IInv'
<1> PICK f : f = worker[w]
  OBVIOUS
<1>1. f \in Frame /\ f.pc \in {"readStatus", "readInfo"} /\ FrameOK(w)
  BY DEF IInv, TypeOK, CheckExists, ReadRecord, ReadDetails, At
<1>2. f.job \in JobIds /\ f.reply = None
  BY <1>1 DEF FrameOK
<1>3. UNCHANGED <<job, member_job, asked>>
  BY DEF CheckExists, ReadRecord, ReadDetails
<1>4. \/ \E r \in {"missing", "found", "raised"} : Answer(w, r)
      \/ Enter(w, [f EXCEPT !.pc = "readInfo"])
  BY DEF CheckExists, ReadRecord, ReadDetails, RecordReplies
<1>5. CASE \E r \in {"missing", "found", "raised"} : Answer(w, r)
  BY <1>3, <1>5, QuietAnswerOK DEF Replies
<1>6. CASE Enter(w, [f EXCEPT !.pc = "readInfo"])
  <2> DEFINE g == [f EXCEPT !.pc = "readInfo"]
  <2>1. g \in Frame /\ g.pc = "readInfo" /\ g.job \in JobIds /\ g.reply = None
    BY <1>1, <1>2 DEF Frame, Steps
  <2>2. Enter(w, g)
    BY <1>6
  <2> HIDE DEF g
  <2>3. /\ worker' \in [Workers -> Frame] /\ FrameOK(w)'
        /\ \A v \in Workers \ {w} : worker'[v] = worker[v]
    BY <2>1, <2>2, EnterOK DEF IInv
  <2> QED BY <1>3, <2>3, QuietStepOK
<1> QED BY <1>4, <1>5, <1>6

LEMMA FailOK ==
  ASSUME IInv, NEW w \in Workers, Fail(w) \/ SubmitRefused(w)
  PROVE  IInv'
<1>1. {"error", "unreachable"} \subseteq Replies \ {"accepted", "dismissed"}
  BY DEF Replies
<1>2. CASE SubmitFails(w)
  BY <1>2, LostCallOK DEF SubmitFails
<1>3. CASE RecordFails(w) \/ CallFails(w) \/ SubmitRefused(w)
  BY <1>1, <1>3, QuietAnswerOK DEF RecordFails, RecordFailedReply, CallFails, SubmitRefused
<1>4. CASE CancelFails(w)
  <2> PICK f : f = worker[w]
    OBVIOUS
  <2>1. f \in Frame /\ f.pc = "cancel" /\ FrameOK(w)
    BY <1>4 DEF IInv, TypeOK, CancelFails, At
  <2>2. f.kind \in {"purge", "revoke"} /\ f.job \in asked /\ Shown(f.job) /\ f.job \in JobIds
    BY <2>1 DEF FrameOK, Frame, IInv, TypeOK
  <2>3. /\ \/ \E j \in Unused : job' = [job EXCEPT ![j] = Accepted(f.kind, f.job)]
           \/ UNCHANGED job
        /\ Answer(w, "unreachable") /\ UNCHANGED <<member_job, asked>>
    BY <1>4 DEF CancelFails
  <2> QED BY <2>2, <2>3, LostCallOK
<1>5. CASE Crash(w)
  <2>1. Enter(w, Idle) /\ UNCHANGED <<job, member_job, asked>>
    BY <1>5 DEF Crash
  <2>2. /\ worker' \in [Workers -> Frame] /\ FrameOK(w)'
        /\ \A v \in Workers \ {w} : worker'[v] = worker[v]
    BY <2>1, IdleIsFrame, EnterOK DEF IInv
  <2> QED BY <2>1, <2>2, QuietStepOK
<1> QED BY <1>2, <1>3, <1>4, <1>5 DEF Fail

LEMMA IndexStartOK ==
  ASSUME IInv, NEW j \in JobIds, Index(j) \/ Start(j)
  PROVE  IInv'
<1> PICK s \in {"queued", "started"} :
      SetStatus(j, s) /\ UNCHANGED <<member_job, asked, worker>>
  BY DEF Index, Start
<1>1. job[j] # None /\ job[j].status \notin Ended \cup {"purged"}
  BY StatusFacts DEF IInv, Index, Start, Ended, Active
<1>2. s \in Statuses \ {"unseen"} /\ s # "completed"
  BY DEF Statuses, Active
<1>3. job' \in [JobIds -> JobRow \cup {None}] /\ Grows /\ CancelsOK'
  BY <1>1, <1>2, MovedJob DEF IInv
<1> QED BY <1>3, HySDSOK

LEMMA EndJobOK ==
  ASSUME IInv, NEW j \in JobIds, NEW s \in Ended, EndJob(j, s)
  PROVE  IInv'
<1>1. job[j] # None /\ job[j].kind = "run"
  BY StatusFacts DEF IInv, EndJob
<1>2. s \in Statuses \ {"unseen"} /\ SetStatus(j, s) /\ UNCHANGED <<member_job, asked, worker>>
  BY DEF Statuses, Ended, EndJob
<1>3. job' \in [JobIds -> JobRow \cup {None}] /\ Grows /\ CancelsOK'
  BY <1>1, <1>2, MovedJob DEF IInv
<1> QED BY <1>2, <1>3, HySDSOK

\* A cancel job that completes ends the other one in the same step.
LEMMA EndBoth ==
  ASSUME TypeOK, CancelsOK, NEW c \in JobIds, CancelJob(c), NEW j \in JobIds, j = job[c].of,
         NEW s \in Ended \cup {"purged"}, s = "completed" => job[j].status = "completed",
         job' = [job EXCEPT ![c].status = "completed", ![j].status = s],
         UNCHANGED <<asked, member_job>>
  PROVE  job' \in [JobIds -> JobRow \cup {None}] /\ Grows /\ CancelsOK'
<1>1. j # c /\ Shown(j) /\ j \in asked
  BY DEF CancelsOK
<1> PICK rc : rc = [job[c] EXCEPT !.status = "completed"]
  OBVIOUS
<1> PICK rj : rj = [job[j] EXCEPT !.status = s]
  OBVIOUS
<1>2. job[c] \in JobRow /\ job[j] \in JobRow
  BY <1>1 DEF TypeOK, CancelJob, Shown
<1>3. /\ rc \in JobRow /\ rc.kind = job[c].kind /\ rc.of = job[c].of /\ rc.status = "completed"
      /\ rj \in JobRow /\ rj.kind = job[j].kind /\ rj.of = job[j].of /\ rj.status = s
  BY <1>2 DEF JobRow, Statuses, Ended
<1>4. job' = [job EXCEPT ![c] = rc, ![j] = rj]
  BY <1>1 DEF TypeOK
<1>5. /\ job'[c] = rc /\ job'[j] = rj
      /\ \A i \in JobIds \ {c, j} : job'[i] = job[i]
  BY <1>1, <1>4 DEF TypeOK
<1>6. job' \in [JobIds -> JobRow \cup {None}]
  BY <1>3, <1>4 DEF TypeOK
<1>7. rc # None /\ rj # None
  BY <1>3, RowAssumption
<1>8. Grows
  BY <1>3, <1>5, <1>7 DEF Grows, Ended
<1>9. CancelsOK'
  <2> SUFFICES ASSUME NEW d \in JobIds, CancelJob(d)'
               PROVE  \E i \in asked' : /\ job'[d].of = i /\ i # d /\ Shown(i)'
                                        /\ job'[d].status = "completed" => Gone(i)'
    BY CancelsNext
  <2>1. CancelJob(d) /\ job'[d].of = job[d].of
    BY <1>1, <1>2, <1>3, <1>5 DEF CancelJob, Shown
  <2>2. job[d].of \in asked /\ job[d].of \in JobIds /\ job[d].of # d
    BY <2>1 DEF CancelsOK, TypeOK
  <2>3. \A i \in JobIds : (Shown(i) => Shown(i)') /\ (Gone(i) => Gone(i)')
    BY <1>8 DEF Grows, Shown, Gone
  <2>4. Gone(j)'
    BY <1>3, <1>5, <1>7 DEF Gone
  <2>5. job'[d].status = "completed" => Gone(job[d].of) \/ job[d].of = j
    <3>1. CASE d = c
      BY <3>1
    <3>2. CASE d = j
      BY <3>2, <1>3, <1>5, <2>1 DEF CancelsOK
    <3>3. CASE d \notin {c, j}
      BY <3>3, <1>5, <2>1 DEF CancelsOK
    <3> QED BY <3>1, <3>2, <3>3
  <2> QED BY <2>1, <2>2, <2>3, <2>4, <2>5 DEF CancelsOK
<1> QED BY <1>6, <1>8, <1>9

LEMMA EndCancelOK ==
  ASSUME IInv, NEW c \in JobIds, EndCancel(c)
  PROVE  IInv'
<1>1. CancelJob(c) /\ job[c].status = "started"
  BY StatusFacts DEF IInv, EndCancel, CancelJob, Active
<1> PICK j \in JobIds : j = job[c].of
  BY <1>1 DEF IInv, TypeOK, CancelsOK
<1>2. job[j] \in JobRow /\ Shown(j) /\ job[j].status # "unseen"
  BY <1>1 DEF IInv, TypeOK, CancelsOK, Shown
<1>3. UNCHANGED <<member_job, asked, worker>>
  BY DEF EndCancel
<1>4. \/ job' = [job EXCEPT ![c].status = "failed"]
      \/ job' = [job EXCEPT ![c].status = "completed", ![j].status = "purged"]
      \/ job' = [job EXCEPT ![c].status = "completed",
                            ![j].status = IF @ \in Active THEN "revoked" ELSE @]
  BY DEF EndCancel
<1>5. CASE job' = [job EXCEPT ![c].status = "failed"]
  <2>1. SetStatus(c, "failed") /\ "failed" \in Statuses \ {"unseen"} /\ job[c] # None
    BY <1>1, <1>5 DEF SetStatus, Statuses, Ended, CancelJob
  <2>2. job' \in [JobIds -> JobRow \cup {None}] /\ Grows /\ CancelsOK'
    BY <1>1, <1>3, <2>1, MovedJob DEF IInv, Ended
  <2> QED BY <1>3, <2>2, HySDSOK
<1>6. CASE job' = [job EXCEPT ![c].status = "completed", ![j].status = "purged"]
  <2>1. job' \in [JobIds -> JobRow \cup {None}] /\ Grows /\ CancelsOK'
    BY <1>1, <1>3, <1>6, EndBoth DEF IInv
  <2> QED BY <1>3, <2>1, HySDSOK
<1>7. CASE job' = [job EXCEPT ![c].status = "completed",
                              ![j].status = IF @ \in Active THEN "revoked" ELSE @]
  <2> PICK s : s = IF job[j].status \in Active THEN "revoked" ELSE job[j].status
    OBVIOUS
  <2>1. s \in Ended \cup {"purged"} /\ (s = "completed" => job[j].status = "completed")
    BY <1>2 DEF JobRow, Statuses, Ended, Active
  <2>2. j # c
    BY <1>1 DEF IInv, CancelsOK
  <2>3. job' = [job EXCEPT ![c].status = "completed", ![j].status = s]
    BY <1>7, <2>2 DEF IInv, TypeOK
  <2>4. job' \in [JobIds -> JobRow \cup {None}] /\ Grows /\ CancelsOK'
    BY <1>1, <1>3, <2>1, <2>3, EndBoth DEF IInv
  <2> QED BY <1>3, <2>4, HySDSOK
<1> QED BY <1>4, <1>5, <1>6, <1>7

LEMMA NextOK == IInv /\ [Next]_vars => IInv'
<1> SUFFICES ASSUME IInv, [Next]_vars PROVE IInv'
  OBVIOUS
<1>1. CASE UNCHANGED vars
  <2>1. UNCHANGED <<job, member_job, asked, worker>>
    BY <1>1 DEF vars
  <2>2. Grows /\ CancelsOK'
    BY <2>1, QuietGrows, QuietCancels DEF IInv
  <2> QED BY <2>1, <2>2, HySDSOK DEF IInv, TypeOK
<1>2. ASSUME NEW w \in Workers, Request(w) PROVE IInv'
  BY <1>2, SubmitOK, AskOK, CancelOK DEF Request
<1>3. ASSUME NEW w \in Workers, Continue(w) PROVE IInv'
  BY <1>3, SubmitJobOK, FailOK, RecordJobOK, ReadStatusOK, SubmitCancelOK, PollOK, ReadsOK
     DEF Continue, ReadResult, ReadMetrics
<1>4. ASSUME NEW w \in Workers, Fail(w) PROVE IInv'
  BY <1>4, FailOK
<1>5. ASSUME NEW j \in JobIds, HySDS(j) PROVE IInv'
  BY <1>5, IndexStartOK, EndJobOK, EndCancelOK DEF HySDS
<1> QED BY <1>1, <1>2, <1>3, <1>4, <1>5 DEF Next

\* What each request has read of its job, and what a cancel job is about, stays
\* true while HySDS and the other workers go on (ogc.py:528, job.py:35).
THEOREM Invariance == Spec => []IInv
BY InitOK, NextOK, PTL DEF Spec

\* A member told that DPS accepted a job is on record as its submitter
\* (_log_job_submission, job.py:115).
THEOREM Recorded == Spec => []AnsweredIsRecorded
<1>1. IInv => AnsweredIsRecorded
  BY DEF IInv, FrameOK, AnsweredIsRecorded
<1> QED BY <1>1, Invariance, PTL

\* A waited-for "dismissed" (ogc.py:874) is about a job that is over for good.
THEOREM DismissalIsDone == Spec => []WaitedDismissalIsDone
<1>1. ASSUME IInv, NEW w \in Workers, worker[w].wait, worker[w].reply = "dismissed"
      PROVE  Status(worker[w].job) \notin Active
  <2>1. worker[w].job \in JobIds /\ Gone(worker[w].job)
    BY <1>1 DEF IInv, FrameOK
  <2> QED BY <2>1, StatusFacts, <1>1 DEF Gone, Ended, Active, IInv
<1>2. IInv => WaitedDismissalIsDone
  BY <1>1 DEF WaitedDismissalIsDone
<1> QED BY <1>2, Invariance, PTL

\* "For all other statuses, we cannot cancel" (ogc.py:859): nothing but a cancel
\* asked for in time takes a status away from a job that has ended.
THEOREM Kept == Spec => EndedIsKept
<1>1. ASSUME IInv, [Next]_vars, NEW j \in JobIds \ asked, Status(j) \in Ended
      PROVE  job'[j] = job[j]
  <2>1. job[j] # None /\ job[j].status \in Ended
    BY <1>1, StatusFacts DEF IInv
  <2>2. ASSUME NEW w \in Workers, Request(w) \/ Continue(w) \/ Fail(w) PROVE job'[j] = job[j]
    <3>1. \/ UNCHANGED job
          \/ \E i \in Unused, row \in JobRow \cup {job[j]} : job' = [job EXCEPT ![i] = row]
          \/ \E i \in Unused, kind \in {"run", "purge", "revoke", None}, of \in JobIds \cup {None} :
               job' = [job EXCEPT ![i] = Accepted(kind, of)]
      <4>1. worker[w] \in Frame
        BY <1>1 DEF IInv, TypeOK
      <4>2. /\ worker[w].kind \in {"run", "purge", "revoke", None}
            /\ worker[w].job \in JobIds \cup {None}
        BY <4>1 DEF Frame
      <4> QED BY <2>2, <4>2
          DEF Request, Submit, Ask, Cancel, Continue, SubmitJob, MozartAccepts, SubmitRefused,
              RecordJob, ReadStatus, SubmitCancel, Poll, CheckExists, ReadResult, ReadMetrics, ReadRecord,
              ReadDetails, Fail, SubmitFails,
              RecordFails, CallFails, CancelFails, Crash
    <3>2. j \notin Unused
      BY <2>1 DEF Unused
    <3> QED BY <3>1, <3>2, <1>1 DEF IInv, TypeOK
  <2>3. ASSUME NEW c \in JobIds, HySDS(c) PROVE job'[j] = job[j]
    <3>1. CASE Index(c) \/ Start(c) \/ \E s \in Ended : EndJob(c, s)
      <4>1. c # j
        BY <3>1, <2>1, <1>1 DEF Index, Start, EndJob, Active, Ended
      <4> QED BY <3>1, <4>1, <1>1 DEF Index, Start, EndJob, SetStatus, IInv, TypeOK
    <3>2. CASE EndCancel(c)
      <4>1. CancelJob(c) /\ job[c].status = "started"
        BY <3>2, <1>1, StatusFacts DEF IInv, EndCancel, CancelJob, Active
      <4>2. c # j /\ job[c].of # j
        BY <4>1, <2>1, <1>1 DEF IInv, CancelsOK, Ended
      <4> QED BY <3>2, <4>2, <1>1 DEF EndCancel, IInv, TypeOK
    <3> QED BY <2>3, <3>1, <3>2 DEF HySDS
  <2>4. CASE UNCHANGED vars
    BY <2>4 DEF vars
  <2> QED BY <1>1, <2>2, <2>3, <2>4 DEF Next
<1>2. ASSUME IInv, [Next]_vars PROVE \A j \in JobIds \ asked :
        Status(j) \in Ended => Status(j)' = Status(j)
  BY <1>1, <1>2, NoneAssumption DEF Status
<1> QED BY <1>2, Invariance, PTL DEF Spec, EndedIsKept

-----------------------------------------------------------------------------
(***************************************************************************)
(* JobListing: a list of jobs holds what was asked for: by date and        *)
(* duration, where the four comparisons of job_intersects_datetime_range   *)
(* are shown to be the overlap of two intervals of any length, and by      *)
(* status, though jobs move on while their records are read.               *)
(***************************************************************************)

\* The ends of an interval are points in time of their own, so the later of the
\* two starts is where two intervals meet when they do.
LEMMA Overlap ==
  ASSUME NEW start \in Times, NEW end \in Times, start <= end,
         NEW from \in Times \cup {Nil}, NEW to \in Times \cup {Nil},
         from # Nil \/ to # Nil,
         ~(from # Nil /\ to # Nil /\ from > to)
  PROVE  Intersects(start, end, from, to) <=>
           \E t \in Times : /\ start <= t /\ t <= end
                            /\ from = Nil \/ from <= t
                            /\ to = Nil \/ t <= to
<1>1. start \in Int /\ end \in Int /\ (from # Nil => from \in Int) /\ (to # Nil => to \in Int)
  BY TimeAssumption
<1>2. \A t \in Times : t \in Int
  BY TimeAssumption
<1>3. CASE from = Nil
  <2>1. Intersects(start, end, from, to) <=> start <= to
    BY <1>3 DEF Intersects
  <2> QED BY <2>1, <1>1, <1>2, <1>3
<1>4. CASE from # Nil /\ to = Nil
  <2>1. Intersects(start, end, from, to) <=> from <= end
    BY <1>4 DEF Intersects
  <2>2. CASE start <= from
    BY <2>1, <2>2, <1>1, <1>2, <1>4
  <2>3. CASE from < start
    BY <2>1, <2>3, <1>1, <1>2, <1>4
  <2> QED BY <2>2, <2>3, <1>1, <1>4
<1>5. CASE from # Nil /\ to # Nil
  <2>1. from <= to /\ from \in Times /\ to \in Times
    BY <1>1, <1>5
  <2>2. Intersects(start, end, from, to) <=> from <= end /\ start <= to
    <3>1. CASE from = to
      BY <3>1, <1>1, <1>5 DEF Intersects
    <3>2. CASE from # to
      BY <3>2, <1>5 DEF Intersects
    <3> QED BY <3>1, <3>2
  <2>3. CASE start <= from
    BY <2>1, <2>2, <2>3, <1>1, <1>2, <1>5
  <2>4. CASE from < start
    BY <2>1, <2>2, <2>4, <1>1, <1>2, <1>5
  <2> QED BY <2>3, <2>4, <1>1, <1>5
<1> QED BY <1>3, <1>4, <1>5

\* A record whose times can be read passes the filters if and only if it is as
\* asked, and no other record passes any.
LEMMA FiltersExact ==
  ASSUME NEW f \in Filter, NEW r \in Row, RowOK(r), ~Backward(f)
  PROVE  Listed(f, r) <=> r # Nil /\ MeetsFilters(f, r) /\ (HasFilters(f) => r.readable)
<1> USE DEF MeetsFilters, Backward
<1>1. r # Nil /\ r.start \in Times \cup {Nil} /\ r.end \in Times \cup {Nil}
      /\ r.readable \in BOOLEAN
  BY RecordAssumption DEF Row
<1>2. /\ f.from \in Times \cup {Nil} /\ f.to \in Times \cup {Nil} /\ f.dated \in BOOLEAN
      /\ f.min \in Nat \cup {Nil} /\ f.max \in Nat \cup {Nil}
  BY DEF Filter
<1>3. CASE ~HasFilters(f)
  BY <1>1, <1>3 DEF Listed, HasFilters
<1>4. CASE HasFilters(f) /\ (r.start = Nil \/ r.end = Nil \/ ~r.readable)
  BY <1>1, <1>4 DEF Listed, PassesFilters
<1>5. CASE HasFilters(f) /\ r.start # Nil /\ r.end # Nil /\ r.readable
  <2>1. r.start \in Times /\ r.end \in Times /\ r.start <= r.end /\ r.start \in Int /\ r.end \in Int
    BY <1>1, <1>5, TimeAssumption DEF RowOK
  <2>2. f.dated => (InRange(f, r.start, r.end) <=>
                      (f.from # Nil \/ f.to # Nil) /\ RanWithin(f, r))
    <3>1. CASE f.from = Nil /\ f.to = Nil
      BY <3>1 DEF InRange
    <3>2. CASE f.from # Nil \/ f.to # Nil
      <4>1. Intersects(r.start, r.end, f.from, f.to) <=> RanWithin(f, r)
        BY <3>2, <2>1, <1>2, Overlap DEF RanWithin
      <4> QED BY <3>2, <4>1 DEF InRange
    <3> QED BY <3>1, <3>2
  <2> DEFINE length == r.end - r.start
  <2>3. length \in Nat
    BY <2>1
  <2>4. f.min # Nil => (f.min <= length <=> \E d \in 0 .. length : d = f.min)
    BY <2>3, <1>2
  <2>5. f.max # Nil => (length <= f.max <=> \A d \in 0 .. length : d <= f.max)
    BY <2>3, <1>2
  <2>6. PassesFilters(f, r) <=>
          /\ f.min = Nil \/ f.min <= length
          /\ f.max = Nil \/ length <= f.max
          /\ ~f.dated \/ InRange(f, r.start, r.end)
    BY <1>5 DEF PassesFilters
  <2> QED BY <2>2, <2>4, <2>5, <2>6, <1>1, <1>2, <1>5 DEF Listed
<1> QED BY <1>3, <1>4, <1>5

\* The two translations are one another's inverse.
LEMMA Inverse ==
  ASSUME NEW s \in OgcStatuses, HysdsStatus(s) # Nil
  PROVE  OgcStatus(HysdsStatus(s)) = s
BY DEF OgcStatuses, OgcStatus, HysdsStatus

LEMMA LaterStays ==
  ASSUME NEW s \in OgcStatuses, NEW h \in HysdsStatuses, NEW i \in HysdsStatuses,
         OgcStatus(h) \in Later(s),
         \/ h = "job-queued"
         \/ h = "job-started" /\ i \in {"job-completed", "job-failed", "job-revoked", "job-offline"}
  PROVE  OgcStatus(i) \in Later(s)
<1>1. OgcStatus(i) \in {"accepted", "running", "successful", "failed", "dismissed", "deduped", "offline"}
  BY DEF OgcStatus, HysdsStatuses
<1>2. CASE h = "job-queued"
  <2>1. s = "accepted"
    BY <1>2 DEF OgcStatus, Later, OgcStatuses
  <2> QED BY <1>1, <2>1 DEF Later
<1>3. CASE h = "job-started" /\ i \in {"job-completed", "job-failed", "job-revoked", "job-offline"}
  <2>1. s \in {"accepted", "running"}
    BY <1>3 DEF OgcStatus, Later, OgcStatuses
  <2>2. OgcStatus(i) \in {"successful", "failed", "dismissed", "offline"}
    BY <1>3 DEF OgcStatus
  <2> QED BY <2>1, <2>2 DEF Later
<1> QED BY <1>2, <1>3

LEMMA NoListingOK ==
  /\ NoListing \in Listing /\ NoListing.pc = "idle" /\ NoListing.page = {} /\ NoListing.due = {} /\ NoListing.found = {}
  /\ \A j \in MemberJobs : NoListing.info[j] = Nil
BY DEF NoListing, Listing, NoFilter, Filter

LEMMA ListingInitOK == ListingInit => ListingInv
<1> SUFFICES ASSUME ListingInit PROVE ListingInv
  OBVIOUS
<1>1. ListingTypeOK
  BY NoListingOK DEF ListingInit, ListingTypeOK
<1>2. \A j \in MemberJobs : RowOK(record[j]) /\ RowOK(request.info[j])
  BY NoListingOK DEF ListingInit, RowOK
<1>3. request.pc = "idle" /\ request.page = {} /\ request.due = {} /\ request.found = {}
  BY NoListingOK DEF ListingInit
<1>4. RequestOK
  BY <1>3 DEF RequestOK
<1> QED BY <1>1, <1>2, <1>3, <1>4 DEF ListingInv

\* A request that lists nothing.
LEMMA EmptyOK ==
  ASSUME ListingInv, NEW g \in Listing, request' = g, UNCHANGED <<record, purged, now>>,
         g.page = {}, g.due = {}, g.found = {}, \A j \in MemberJobs : g.info[j] = Nil,
         g.pc = "list" /\ g.filter.status # Nil => HysdsStatus(g.filter.status) # Nil
  PROVE  ListingInv'
<1>1. ListingTypeOK'
  BY DEF ListingInv, ListingTypeOK
<1>2. (\A j \in MemberJobs : RowOK(record[j]) /\ RowOK(request.info[j]))'
  BY DEF ListingInv, RowOK
<1>3. RequestOK'
  BY DEF RequestOK
<1> QED BY <1>1, <1>2, <1>3 DEF ListingInv

LEMMA AskListOK == ASSUME ListingInv, NEW f \in Filters, AskList(f) PROVE ListingInv'
<1>0. f \in Filter
  BY FilterAssumption
<1> PICK g : g = [NoListing EXCEPT !.pc = "list", !.filter = f]
  OBVIOUS
<1> PICK h : h = [NoListing EXCEPT !.filter = f]
  OBVIOUS
<1>1. /\ g \in Listing /\ g.page = {} /\ g.due = {} /\ g.found = {} /\ \A j \in MemberJobs : g.info[j] = Nil
      /\ g.filter = f
  BY <1>0 DEF NoListing, Listing
<1>2. /\ h \in Listing /\ h.page = {} /\ h.due = {} /\ h.found = {} /\ \A j \in MemberJobs : h.info[j] = Nil
      /\ h.pc = "idle"
  BY <1>0 DEF NoListing, Listing
<1>3. CASE request' = g /\ (f.status # Nil => HysdsStatus(f.status) # Nil)
  BY <1>1, <1>3, EmptyOK DEF AskList
<1>4. CASE request' = h
  BY <1>2, <1>4, EmptyOK DEF AskList
<1> QED BY <1>3, <1>4 DEF AskList

LEMMA ListOK == ASSUME ListingInv, NEW page \in SUBSET MemberJobs, ListJobs(page) PROVE ListingInv'
<1> PICK f : f = request
  OBVIOUS
<1> PICK g : g = [f EXCEPT !.pc = "info", !.page = page, !.due = page]
  OBVIOUS
<1>1. f \in Listing /\ f.pc = "list" /\ request' = g /\ UNCHANGED <<record, purged, now>>
  BY DEF ListingInv, ListingTypeOK, ListJobs
<1>2. /\ g \in Listing /\ g.pc = "info" /\ g.page = page /\ g.due = page
      /\ g.filter = f.filter /\ g.info = f.info
  BY <1>1 DEF Listing
<1>3. ListingTypeOK'
  BY <1>1, <1>2 DEF ListingInv, ListingTypeOK
<1>4. (\A j \in MemberJobs : RowOK(record[j]) /\ RowOK(request.info[j]))'
  BY <1>1, <1>2 DEF ListingInv, RowOK
<1>5. RequestOK'
  <2>1. \A j \in page : record[j] # Nil
    BY DEF ListJobs, Matching
  <2> QED BY <2>1, <1>1, <1>2 DEF RequestOK
<1>6. ASSUME NEW j \in page PROVE StillAsked(j)'
  <2>1. SUFFICES ASSUME record[j] # Nil, f.filter.status # Nil
                 PROVE  OgcStatus(record[j].status) \in Later(f.filter.status)
    BY <1>1, <1>2 DEF StillAsked
  <2>2. record[j].status = HysdsStatus(f.filter.status)
    BY <2>1 DEF ListJobs, Matching
  <2>3. f.filter.status \in OgcStatuses /\ HysdsStatus(f.filter.status) # Nil
    BY <1>1, <2>1 DEF ListingInv, RequestOK, Listing, Filter
  <2> QED BY <2>2, <2>3, Inverse DEF Later
<1> QED BY <1>1, <1>2, <1>3, <1>4, <1>5, <1>6 DEF ListingInv

LEMMA ReadOK == ASSUME ListingInv, NEW j \in MemberJobs, ReadInfo(j) PROVE ListingInv'
<1> PICK f : f = request
  OBVIOUS
<1> PICK row : row = record[j]
  OBVIOUS
<1> PICK g : g = [f EXCEPT !.due = @ \ {j}, !.info[j] = row]
  OBVIOUS
<1>1. f \in Listing /\ f.pc = "info" /\ j \in f.due /\ request' = g /\ UNCHANGED <<record, purged, now>>
  BY DEF ListingInv, ListingTypeOK, ReadInfo
<1>2. row \in Row \cup {Nil}
  BY DEF ListingInv, ListingTypeOK
<1>3. /\ g \in Listing /\ g.pc = "info" /\ g.page = f.page /\ g.filter = f.filter
      /\ g.due = f.due \ {j} /\ g.info[j] = row
      /\ \A i \in MemberJobs \ {j} : g.info[i] = f.info[i]
  BY <1>1, <1>2 DEF Listing
<1>4. ListingTypeOK'
  BY <1>1, <1>3 DEF ListingInv, ListingTypeOK
<1>5. ASSUME NEW i \in MemberJobs PROVE (RowOK(record[i]) /\ RowOK(request.info[i]))'
  <2>1. g.info[i] \in {f.info[i], record[i]}
    BY <1>3
  <2> QED BY <2>1, <1>1 DEF ListingInv, RowOK
<1>6. RequestOK'
  BY <1>1, <1>3 DEF ListingInv, RequestOK
<1>7. ASSUME NEW i \in f.page PROVE StillAsked(i)'
  <2>1. StillAsked(i) /\ i \in MemberJobs
    BY <1>1 DEF ListingInv, Listing
  <2>2. (IF i \in g.due THEN record[i] ELSE g.info[i]) = (IF i \in f.due THEN record[i] ELSE f.info[i])
    BY <1>1, <1>3, <2>1
  <2> QED BY <2>1, <2>2, <1>1, <1>3 DEF StillAsked
<1> QED BY <1>1, <1>3, <1>4, <1>5, <1>6, <1>7 DEF ListingInv

LEMMA AnswerListOK == ASSUME ListingInv, AnswerList PROVE ListingInv'
<1> PICK f : f = request
  OBVIOUS
<1> PICK found : found = {j \in f.page : Listed(f.filter, f.info[j])}
  OBVIOUS
<1> PICK g : g = [f EXCEPT !.pc = "idle", !.found = found]
  OBVIOUS
<1>1. f \in Listing /\ f.pc = "info" /\ f.due = {} /\ request' = g /\ UNCHANGED <<record, purged, now>>
  BY DEF ListingInv, ListingTypeOK, AnswerList
<1>2. found \subseteq MemberJobs
  BY <1>1 DEF Listing
<1>3. /\ g \in Listing /\ g.pc = "idle" /\ g.page = f.page /\ g.filter = f.filter
      /\ g.due = f.due /\ g.info = f.info /\ g.found = found
  BY <1>1, <1>2 DEF Listing
<1>4. ListingTypeOK'
  BY <1>1, <1>3 DEF ListingInv, ListingTypeOK
<1>5. (\A j \in MemberJobs : RowOK(record[j]) /\ RowOK(request.info[j]))'
  BY <1>1, <1>3 DEF ListingInv, RowOK
<1>6. RequestOK'
  BY <1>1, <1>3 DEF ListingInv, RequestOK
<1>7. (\A j \in request.page : StillAsked(j))'
  BY <1>1, <1>3 DEF ListingInv, StillAsked
<1> QED BY <1>4, <1>5, <1>6, <1>7 DEF ListingInv

LEMMA ListFailsOK == ASSUME ListingInv, ListFails PROVE ListingInv'
BY NoListingOK, EmptyOK DEF ListFails

\* HySDS moves on the record of a job to a later one, or removes it.
LEMMA RecordOK ==
  ASSUME ListingInv, NEW j \in MemberJobs, NEW row \in Row \cup {Nil}, record' = [record EXCEPT ![j] = row],
         purged' \subseteq MemberJobs, now' = now, request' = request, RowOK(row),
         row # Nil => record[j] # Nil \/ j \notin purged,
         row # Nil /\ record[j] # Nil =>
           \/ record[j].status = "job-queued"
           \/ /\ record[j].status = "job-started"
              /\ row.status \in {"job-completed", "job-failed", "job-revoked", "job-offline"},
         \A i \in request.page : record'[i] # Nil \/ i \in purged'
  PROVE  ListingInv'
<1>1. record'[j] = row /\ \A i \in MemberJobs \ {j} : record'[i] = record[i]
  BY DEF ListingInv, ListingTypeOK
<1>2. ListingTypeOK'
  BY DEF ListingInv, ListingTypeOK
<1>3. ASSUME NEW i \in MemberJobs PROVE (RowOK(record[i]) /\ RowOK(request.info[i]))'
  BY <1>1 DEF ListingInv, RowOK
<1>4. RequestOK'
  BY DEF ListingInv, RequestOK
<1>5. ASSUME NEW i \in request.page PROVE StillAsked(i)'
  <2>1. StillAsked(i) /\ i \in MemberJobs /\ request.filter.status \in OgcStatuses \cup {Nil}
    BY DEF ListingInv, ListingTypeOK, Listing, Filter
  <2>2. CASE i # j \/ i \notin request.due \/ row = Nil
    BY <2>1, <2>2, <1>1 DEF StillAsked
  <2>3. CASE i = j /\ i \in request.due /\ row # Nil
    <3>1. record[j] # Nil /\ record[j] \in Row /\ row \in Row
      BY <2>3 DEF ListingInv, ListingTypeOK, RequestOK
    <3>2. record[j].status \in HysdsStatuses /\ row.status \in HysdsStatuses
      BY <3>1 DEF Row
    <3>3. request.filter.status # Nil => OgcStatus(record[j].status) \in Later(request.filter.status)
      BY <2>1, <2>3, <3>1 DEF StillAsked
    <3>5. \/ record[j].status = "job-queued"
          \/ /\ record[j].status = "job-started"
             /\ row.status \in {"job-completed", "job-failed", "job-revoked", "job-offline"}
      BY <2>3, <3>1
    <3>4. ASSUME request.filter.status # Nil
          PROVE  OgcStatus(row.status) \in Later(request.filter.status)
      <4> PICK s \in OgcStatuses : s = request.filter.status
        BY <2>1, <3>4
      <4> QED BY <3>2, <3>3, <3>4, <3>5, LaterStays
    <3> QED BY <3>4, <2>3, <1>1 DEF StillAsked
  <2> QED BY <2>2, <2>3
<1> QED BY <1>2, <1>3, <1>4, <1>5 DEF ListingInv

LEMMA QueueOK == ASSUME ListingInv, NEW j \in MemberJobs, Queue(j) PROVE ListingInv'
<1> PICK row : row = [status |-> "job-queued", start |-> Nil, end |-> Nil, readable |-> TRUE]
  OBVIOUS
<1>1. row \in Row /\ RowOK(row)
  BY DEF Row, RowOK, HysdsStatuses
<1>2. record[j] = Nil /\ j \notin purged /\ record' = [record EXCEPT ![j] = row]
  BY DEF Queue
<1>3. row # Nil
  BY <1>1, RecordAssumption
<1>4. \A i \in request.page : record'[i] # Nil \/ i \in purged'
  BY <1>2, <1>3 DEF ListingInv, ListingTypeOK, Listing, RequestOK, Queue
<1> QED BY <1>1, <1>2, <1>4, RecordOK DEF Queue, ListingInv, ListingTypeOK

\* What RecordOK asks of the page when the job has a record before and after.
LEMMA PageKept ==
  ASSUME ListingInv, NEW j \in MemberJobs, NEW row \in Row, record' = [record EXCEPT ![j] = row], purged' = purged
  PROVE  \A i \in request.page : record'[i] # Nil \/ i \in purged'
BY RecordAssumption DEF ListingInv, ListingTypeOK, Listing, RequestOK

LEMMA StartJobOK == ASSUME ListingInv, NEW j \in MemberJobs, StartJob(j) PROVE ListingInv'
<1> PICK row : row = [status |-> "job-started", start |-> now, end |-> Nil, readable |-> TRUE]
  OBVIOUS
<1>1. now \in Times /\ now \in Int /\ now # Nil
  BY TimeAssumption DEF ListingInv, ListingTypeOK
<1>2. row \in Row /\ RowOK(row)
  BY <1>1 DEF Row, RowOK, HysdsStatuses
<1>3. /\ record[j] # Nil /\ record[j].status = "job-queued" /\ record' = [record EXCEPT ![j] = row]
      /\ UNCHANGED <<purged, now, request>>
  BY DEF StartJob
<1>4. \A i \in request.page : record'[i] # Nil \/ i \in purged'
  BY <1>2, <1>3, PageKept
<1> QED BY <1>2, <1>3, <1>4, RecordOK DEF ListingInv, ListingTypeOK

LEMMA EndOK == ASSUME ListingInv, NEW j \in MemberJobs, NEW s \in HysdsStatuses, End(j, s) PROVE ListingInv'
<1>1. now \in Times /\ now \in Int /\ now # Nil
  BY TimeAssumption DEF ListingInv, ListingTypeOK
<1>2. record[j] # Nil /\ record[j] \in Row /\ RowOK(record[j])
  BY DEF End, ListingInv, ListingTypeOK
<1>3. UNCHANGED <<purged, now, request>>
  BY DEF End
<1>4. ASSUME record[j].status = "job-started",
             s \in {"job-completed", "job-failed", "job-revoked", "job-offline"},
             NEW b \in BOOLEAN,
             record' = [record EXCEPT ![j] = [@ EXCEPT !.status = s, !.end = now, !.readable = b]]
      PROVE  ListingInv'
  <2> PICK row : row = [record[j] EXCEPT !.status = s, !.end = now, !.readable = b]
    OBVIOUS
  <2>1. /\ row \in Row /\ row.status = s /\ row.start = record[j].start /\ row.end = now
    BY <1>1, <1>2 DEF Row
  <2>2. RowOK(row)
    BY <2>1, <1>1, <1>2, <1>4 DEF RowOK
  <2>3. record' = [record EXCEPT ![j] = row]
    BY <1>4 DEF ListingInv, ListingTypeOK
  <2>4. \A i \in request.page : record'[i] # Nil \/ i \in purged'
    BY <1>3, <2>1, <2>3, PageKept
  <2> QED BY <1>2, <1>3, <1>4, <2>1, <2>2, <2>3, <2>4, RecordOK DEF ListingInv, ListingTypeOK
<1>5. CASE /\ \/ record[j].status = "job-queued" /\ s \in {"job-revoked", "job-deduped", "job-offline"}
              \/ record[j].status = "job-started" /\ s = "job-offline"
           /\ record' = [record EXCEPT ![j].status = s]
  <2> PICK row : row = [record[j] EXCEPT !.status = s]
    OBVIOUS
  <2>1. row \in Row /\ row.status = s /\ row.start = record[j].start /\ row.end = record[j].end
    BY <1>2 DEF Row
  <2>2. RowOK(row)
    BY <2>1, <1>2, <1>5 DEF RowOK
  <2>3. record' = [record EXCEPT ![j] = row]
    BY <1>5 DEF ListingInv, ListingTypeOK
  <2>4. \A i \in request.page : record'[i] # Nil \/ i \in purged'
    BY <1>3, <2>1, <2>3, PageKept
  <2> QED BY <1>2, <1>3, <1>5, <2>1, <2>2, <2>3, <2>4, RecordOK DEF ListingInv, ListingTypeOK
<1> QED BY <1>4, <1>5 DEF End

LEMMA PurgeOK == ASSUME ListingInv, NEW j \in MemberJobs, Purge(j) PROVE ListingInv'
<1>1. /\ record' = [record EXCEPT ![j] = Nil] /\ purged' = purged \cup {j} /\ UNCHANGED <<now, request>>
  BY DEF Purge
<1>2. \A i \in request.page : record'[i] # Nil \/ i \in purged'
  BY <1>1 DEF ListingInv, ListingTypeOK, Listing, RequestOK
<1>3. RowOK(Nil) /\ purged' \subseteq MemberJobs
  BY <1>1 DEF RowOK, ListingInv, ListingTypeOK
<1> QED BY <1>1, <1>2, <1>3, RecordOK DEF ListingInv

LEMMA TickOK == ASSUME ListingInv, NEW t \in Times, Tick(t) PROVE ListingInv'
<1>1. t \in Int /\ now \in Int /\ t > now /\ now' = t /\ UNCHANGED <<record, purged, request>>
  BY TimeAssumption DEF Tick, ListingInv, ListingTypeOK
<1>2. \A s \in Times : s <= now => s <= now'
  BY <1>1, TimeAssumption
<1>3. ASSUME NEW r \in Row \cup {Nil}, RowOK(r) PROVE RowOK(r)'
  <2>1. r # Nil => r.start \in Times \cup {Nil}
    BY DEF Row
  <2> QED BY <2>1, <1>2, <1>3 DEF RowOK
<1>4. ASSUME NEW j \in MemberJobs PROVE (RowOK(record[j]) /\ RowOK(request.info[j]))'
  <2>1. /\ record[j] \in Row \cup {Nil} /\ RowOK(record[j])
        /\ request.info[j] \in Row \cup {Nil} /\ RowOK(request.info[j])
    BY DEF ListingInv, ListingTypeOK, Listing
  <2> PICK r : r = record[j]
    OBVIOUS
  <2> PICK q : q = request.info[j]
    OBVIOUS
  <2>2. RowOK(r)' /\ RowOK(q)'
    BY <2>1, <1>3
  <2> QED BY <2>2, <1>1 DEF RowOK
<1>5. ListingTypeOK' /\ RequestOK' /\ (\A j \in request.page : StillAsked(j))'
  BY <1>1 DEF ListingInv, ListingTypeOK, RequestOK, StillAsked
<1> QED BY <1>4, <1>5 DEF ListingInv

LEMMA ListingNextOK == ListingInv /\ [ListingNext]_listingVars => ListingInv'
<1> SUFFICES ASSUME ListingInv, [ListingNext]_listingVars PROVE ListingInv'
  OBVIOUS
<1>1. ASSUME NEW f \in Filters, AskList(f) PROVE ListingInv'
  BY <1>1, AskListOK
<1>2. ASSUME NEW page \in SUBSET MemberJobs, ListJobs(page) PROVE ListingInv'
  BY <1>2, ListOK
<1>3. ASSUME NEW j \in MemberJobs, ReadInfo(j) PROVE ListingInv'
  BY <1>3, ReadOK
<1>4. CASE AnswerList
  BY <1>4, AnswerListOK
<1>5. CASE ListFails
  BY <1>5, ListFailsOK
<1>6. ASSUME NEW j \in MemberJobs, Queue(j) \/ StartJob(j) \/ Purge(j) PROVE ListingInv'
  BY <1>6, QueueOK, StartJobOK, PurgeOK
<1>7. ASSUME NEW j \in MemberJobs, NEW s \in HysdsStatuses, End(j, s) PROVE ListingInv'
  BY <1>7, EndOK
<1>8. ASSUME NEW t \in Times, Tick(t) PROVE ListingInv'
  BY <1>8, TickOK
<1>9. CASE UNCHANGED listingVars
  BY <1>9 DEF listingVars, ListingInv, ListingTypeOK, RowOK, RequestOK, StillAsked
<1> QED BY <1>1, <1>2, <1>3, <1>4, <1>5, <1>6, <1>7, <1>8, <1>9 DEF ListingNext, HySDSMoves

\* The records of the jobs and of the request are those HySDS makes, and the jobs
\* of a page have the status they were listed for or a later one, whatever their
\* number, the times and the filters (get_jobs_info, hysds_util.py:751).
THEOREM ListingInvariance == ListingSpec => []ListingInv
<1>1. ListingInit => ListingInv
  BY ListingInitOK
<1>2. ListingInv /\ [ListingNext]_listingVars => ListingInv'
  BY ListingNextOK
<1> QED BY <1>1, <1>2, PTL DEF ListingSpec

\* Of the jobs of the page whose times can be parsed exactly those that ran when
\* and for as long as was asked are answered, and with a filter none of the
\* others, for intervals and times of any size (ogc.py:970-995).
THEOREM Exact == ListingSpec => []ListsWhatWasAsked
<1>1. ListingInv => ListsWhatWasAsked
  <2> SUFFICES ASSUME ListingInv, request.pc = "idle", ~Backward(request.filter),
                      NEW j \in request.page
               PROVE  j \in request.found <=>
                        LET f == request.filter
                            r == request.info[j]
                        IN
                        r # Nil /\ MeetsFilters(f, r) /\ (HasFilters(f) => r.readable)
    BY DEF ListsWhatWasAsked
  <2> PICK f : f = request.filter
    OBVIOUS
  <2> PICK r : r = request.info[j]
    OBVIOUS
  <2>1. j \in MemberJobs /\ f \in Filter /\ r \in Row \cup {Nil} /\ RowOK(r)
    BY DEF ListingInv, ListingTypeOK, Listing
  <2>2. j \in request.found <=> Listed(f, r)
    BY DEF ListingInv, RequestOK
  <2>3. CASE r = Nil
    BY <2>2, <2>3 DEF Listed
  <2>4. CASE r # Nil
    BY <2>1, <2>2, <2>4, FiltersExact
  <2> QED BY <2>3, <2>4
<1> QED BY <1>1, ListingInvariance, PTL

\* A list by status answers that status or what has become of it, for every
\* number of jobs and however they move on while the list is made.
THEOREM AsAsked == ListingSpec => []AnswersAskedStatus
<1>1. ListingInv => AnswersAskedStatus
  <2> SUFFICES ASSUME ListingInv, request.pc = "idle", request.filter.status # Nil,
                      NEW j \in request.found
               PROVE  OgcStatus(request.info[j].status) \in Later(request.filter.status)
    BY DEF AnswersAskedStatus
  <2>1. j \in request.page /\ request.info[j] # Nil /\ request.due = {}
    BY DEF ListingInv, RequestOK, Listed
  <2>2. StillAsked(j)
    BY <2>1 DEF ListingInv
  <2> QED BY <2>1, <2>2 DEF StillAsked
<1> QED BY <1>1, ListingInvariance, PTL
=============================================================================
