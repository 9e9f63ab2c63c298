-------------------------------- MODULE Jobs --------------------------------
(***************************************************************************)
(* Jobs at the two interfaces of the API (api/endpoints/ogc.py, ExecuteJob,*)
(* Result, Status; api/endpoints/job.py, Submit, Result, Status, StopJobs) *)
(* and their client of HySDS (api/utils/hysds_util.py).  The API keeps no  *)
(* state of a job but the row member_job of who submitted it: it asks      *)
(* Mozart, which accepts a job before its index shows it, and cancels a    *)
(* job by submitting another one, of type purge or revoke, that removes or *)
(* stops the first when it runs.                                           *)
(***************************************************************************)
EXTENDS FiniteSets, Naturals

CONSTANTS
  Workers,   \* gunicorn worker processes
  Members,   \* members who submit and cancel
  JobIds,    \* the ids Mozart gives out
  None

ASSUME NoneAssumption == None \notin JobIds \cup Members

\* DPS submits and keeps member_job, OGC executes and does not.  Both cancel, in
\* the same way; OGC reads a job in two steps and DPS ("readDps") in one.
Calls == {"submit", "execute", "cancel", "read", "readDps"}

\* "unseen": accepted, and not yet in the index that answers for the status.
Active == {"queued", "started"}
Ended == {"completed", "failed", "revoked"}   \* deduped and offline are as failed
Statuses == Active \cup Ended \cup {"unseen", "purged"}

\* kind: a job of a member, or a lightweight job that cancels the job "of".
JobRow == [kind: {"run", "purge", "revoke"}, of: JobIds \cup {None}, status: Statuses]

ASSUME RowAssumption == None \notin JobRow

VARIABLES
  job,         \* HySDS: the jobs Mozart accepted
  member_job,  \* the table of that name: who submitted which job
  asked,       \* history: the jobs somebody asked to cancel before they ended
  worker       \* the request each worker serves, or the one it answered last

vars == <<job, member_job, asked, worker>>

-----------------------------------------------------------------------------

Steps == {"idle", "submit", "record", "readStatus", "cancel", "poll", "readInfo"}

\* "error": the handler gives up, "raised": an exception in it, "unreachable": a
\* call of Mozart fails.  All three are answered as 500.
Replies ==
  {"accepted", "found", "dismissed", "refused", "missing", "error", "raised", "unreachable"}

ASSUME WordAssumption == None \notin Statuses \cup Replies

Frame == [pc: Steps, call: Calls \cup {None}, member: Members \cup {None}, job: JobIds \cup {None},
          wait: BOOLEAN, kind: {"purge", "revoke", None}, cancel: JobIds \cup {None},
          reply: Replies \cup {None}]

Idle == [pc |-> "idle", call |-> None, member |-> None, job |-> None, wait |-> FALSE,
         kind |-> None, cancel |-> None, reply |-> None]

At(w, step) == worker[w].pc = step

Enter(w, f) == worker' = [worker EXCEPT ![w] = f]

\* What DPS accepted stays with the worker until its next request, and what a
\* cancel that was waited for dismissed; other answers leave no trace.
Answered(f, r) ==
  CASE (f.call = "submit" /\ r = "accepted") \/ (f.wait /\ r = "dismissed") ->
         [f EXCEPT !.pc = "idle", !.kind = None, !.cancel = None, !.reply = r]
    [] OTHER -> Idle

Answer(w, r) == Enter(w, Answered(worker[w], r))

\* What mozart_job_status() gives: no status before the index has the job.
Status(j) ==
  IF j = None \/ job[j] = None THEN None
  ELSE IF job[j].status \in {"unseen", "purged"} THEN None ELSE job[j].status

Unused == {j \in JobIds : job[j] = None}

Accepted(kind, of) == [kind |-> kind, of |-> of, status |-> "unseen"]

TypeOK ==
  /\ job \in [JobIds -> JobRow \cup {None}]
  /\ member_job \subseteq Members \X JobIds
  /\ asked \subseteq JobIds
  /\ worker \in [Workers -> Frame]

Init ==
  /\ job = [j \in JobIds |-> None]
  /\ member_job = {}
  /\ asked = {}
  /\ worker = [w \in Workers |-> Idle]

-----------------------------------------------------------------------------
(***************************************************************************)
(* Submitting a job.                                                       *)
(***************************************************************************)

\* The process exists, its inputs fit the spec and the member may use the queue.
Submit(w, call, m) ==
  /\ At(w, "idle")
  /\ call \in {"submit", "execute"}
  /\ Enter(w, [Idle EXCEPT !.pc = "submit", !.call = call, !.member = m])
  /\ UNCHANGED <<job, member_job, asked>>

\* Mozart makes a job, or gives the id of one with the same payload that it knows.
MozartAccepts(j) ==
  \/ j \in Unused /\ job' = [job EXCEPT ![j] = Accepted("run", None)]
  \/ /\ job[j] # None /\ job[j].kind = "run" /\ Status(j) \in Active \cup {"completed"}
     /\ UNCHANGED job

\* DPS goes on to keep who submitted the job, OGC answers.
SubmitJob(w, j) ==
  LET f == [worker[w] EXCEPT !.job = j] IN
  /\ At(w, "submit")
  /\ MozartAccepts(j)
  /\ Enter(w, IF f.call = "submit" THEN [f EXCEPT !.pc = "record"] ELSE Answered(f, "accepted"))
  /\ UNCHANGED <<member_job, asked>>

\* Mozart's answer has a message and no job.
SubmitRefused(w) ==
  /\ At(w, "submit")
  /\ Answer(w, "error")
  /\ UNCHANGED <<job, member_job, asked>>

\* The job is accepted and the answer is lost, or the request is.
SubmitFails(w) ==
  /\ At(w, "submit")
  /\ \/ \E j \in Unused : job' = [job EXCEPT ![j] = Accepted("run", None)]
     \/ UNCHANGED job
  /\ Answer(w, "unreachable")
  /\ UNCHANGED <<member_job, asked>>

RecordJob(w) ==
  /\ At(w, "record")
  /\ member_job' = member_job \cup {<<worker[w].member, worker[w].job>>}
  /\ Answer(w, "accepted")
  /\ UNCHANGED <<job, asked>>

\* The failure is logged and not raised.
SwallowedReply == "accepted"

\* The row cannot be inserted: rolled back, logged and raised.
RecordFailedReply == "error"

RecordFails(w) ==
  /\ At(w, "record")
  /\ Answer(w, RecordFailedReply)
  /\ UNCHANGED <<job, member_job, asked>>

-----------------------------------------------------------------------------
(***************************************************************************)
(* Cancelling a job.                                                       *)
(***************************************************************************)

Cancel(w, j, wait) ==
  /\ At(w, "idle")
  /\ job[j] # None
  /\ asked' = IF job[j].status \in Ended THEN asked ELSE asked \cup {j}
  /\ Enter(w, [Idle EXCEPT !.pc = "readStatus", !.call = "cancel", !.job = j, !.wait = wait])
  /\ UNCHANGED <<job, member_job>>

\* Whatever is not running is purged.
PurgesTheRest(status) == IF status = "started" THEN "revoke" ELSE "purge"

\* A started job is revoked, a queued one purged; no other can be cancelled.
CancelKind(status) ==
  CASE status = "started" -> "revoke"
    [] status = "queued" -> "purge"
    [] OTHER -> None

\* A job that is not found is a 404 in OGC and a 500 in DPS.
ReadStatus(w) ==
  LET f == worker[w]
      status == Status(f.job)
      kind == CancelKind(status)
  IN
  /\ At(w, "readStatus") /\ f.call = "cancel"
  /\ \/ status = None /\ Answer(w, "missing")
     \/ status # None /\ kind = None /\ Answer(w, "refused")
     \/ status # None /\ kind # None /\ Enter(w, [f EXCEPT !.pc = "cancel", !.kind = kind])
  /\ UNCHANGED <<job, member_job, asked>>

\* The job is submitted and waited for, or not; Mozart may also give no id for it.
SubmitCancel(w, c) ==
  LET f == worker[w] IN
  /\ At(w, "cancel")
  /\ \/ c \in Unused /\ job' = [job EXCEPT ![c] = Accepted(f.kind, f.job)]
     \/ c = None /\ UNCHANGED job
  /\ Enter(w, IF f.wait THEN [f EXCEPT !.pc = "poll", !.cancel = c] ELSE Answered(f, "dismissed"))
  /\ UNCHANGED <<member_job, asked>>

\* Waiting for the cancel to succeed.
PollsUntilCompleted(status) == status # "completed"

PollsOn(status) == status \in Active

\* Any end of the cancel job counts.
DismissedIfEnded(status) == IF status \in Ended THEN "dismissed" ELSE "error"

PollReply(status) == IF status = "completed" THEN "dismissed" ELSE "error"

\* poll_for_completion goes on as long as it reads an active status.
Poll(w) ==
  LET status == Status(worker[w].cancel) IN
  /\ At(w, "poll")
  /\ ~PollsOn(status)
  /\ Answer(w, PollReply(status))
  /\ UNCHANGED <<job, member_job, asked>>

-----------------------------------------------------------------------------
(***************************************************************************)
(* The status, the results and the metrics of a job.  In OGC all three     *)
(* read its status to see that it exists, and then its record; DPS reads   *)
(* the record alone.                                                       *)
(***************************************************************************)

Ask(w, j, call) ==
  /\ At(w, "idle")
  /\ \/ call = "read" /\ Enter(w, [Idle EXCEPT !.pc = "readStatus", !.call = call, !.job = j])
     \/ call = "readDps" /\ Enter(w, [Idle EXCEPT !.pc = "readInfo", !.call = call, !.job = j])
  /\ UNCHANGED <<job, member_job, asked>>

CheckExists(w) ==
  LET f == worker[w] IN
  /\ At(w, "readStatus") /\ f.call = "read"
  /\ \/ Status(f.job) = None /\ Answer(w, "missing")
     \/ Status(f.job) # None /\ Enter(w, [f EXCEPT !.pc = "readInfo"])
  /\ UNCHANGED <<job, member_job, asked>>

\* A job that has not ended has a record without metrics, which raises.  Where
\* there is no record any more, OGC says so and DPS raises.
RecordReplies(f) ==
  CASE Status(f.job) # None -> {"found", "raised"}
    [] f.call = "read" -> {"missing"}
    [] OTHER -> {"raised"}

ReadRecord(w) ==
  /\ At(w, "readInfo")
  /\ \E r \in RecordReplies(worker[w]) : Answer(w, r)
  /\ UNCHANGED <<job, member_job, asked>>

ReadResult(w) == ReadRecord(w)

ReadMetrics(w) == ReadRecord(w)

\* Each detail that cannot be taken from the record is left out, the status is
\* the one that was read first.
ReadDetails(w) ==
  /\ At(w, "readInfo") /\ worker[w].call = "read"
  /\ Answer(w, "found")
  /\ UNCHANGED <<job, member_job, asked>>

\* HySDS is out of reach, or its answer cannot be read.
CallFails(w) ==
  /\ worker[w].pc \in {"readStatus", "poll", "readInfo"}
  /\ Answer(w, "unreachable")
  /\ UNCHANGED <<job, member_job, asked>>

\* The cancel job is accepted and the answer is lost, or it is not accepted.
CancelFails(w) ==
  LET f == worker[w] IN
  /\ At(w, "cancel")
  /\ \/ \E c \in Unused : job' = [job EXCEPT ![c] = Accepted(f.kind, f.job)]
     \/ UNCHANGED job
  /\ Answer(w, "unreachable")
  /\ UNCHANGED <<member_job, asked>>

\* gunicorn kills a worker, also one that has been polling for too long.
Crash(w) ==
  /\ ~At(w, "idle")
  /\ Enter(w, Idle)
  /\ UNCHANGED <<job, member_job, asked>>

-----------------------------------------------------------------------------
(***************************************************************************)
(* HySDS.                                                                  *)
(***************************************************************************)

SetStatus(j, s) == job' = [job EXCEPT ![j].status = s]

Index(j) ==
  /\ job[j] # None /\ job[j].status = "unseen"
  /\ SetStatus(j, "queued")
  /\ UNCHANGED <<member_job, asked, worker>>

Start(j) ==
  /\ Status(j) = "queued"
  /\ SetStatus(j, "started")
  /\ UNCHANGED <<member_job, asked, worker>>

EndJob(j, s) ==
  /\ Status(j) \in Active /\ job[j].kind = "run"
  /\ s \in {"completed", "failed"}
  /\ SetStatus(j, s)
  /\ UNCHANGED <<member_job, asked, worker>>

\* The query of a cancel job names the job and asks for no status: a purge
\* removes the record, a revoke stops what is active, and either may fail.
EndCancel(c) ==
  LET j == job[c].of IN
  /\ Status(c) = "started" /\ job[c].kind # "run"
  /\ \/ job' = [job EXCEPT ![c].status = "failed"]
     \/ /\ job[c].kind = "purge"
        /\ job' = [job EXCEPT ![c].status = "completed", ![j].status = "purged"]
     \/ /\ job[c].kind = "revoke"
        /\ job' = [job EXCEPT ![c].status = "completed",
                              ![j].status = IF @ \in Active THEN "revoked" ELSE @]
  /\ UNCHANGED <<member_job, asked, worker>>

-----------------------------------------------------------------------------

Continue(w) ==
  \/ \E j \in JobIds : SubmitJob(w, j)
  \/ SubmitRefused(w)
  \/ RecordJob(w)
  \/ ReadStatus(w)
  \/ \E c \in JobIds \cup {None} : SubmitCancel(w, c)
  \/ Poll(w)
  \/ CheckExists(w)
  \/ ReadResult(w)
  \/ ReadMetrics(w)
  \/ ReadDetails(w)

Fail(w) == SubmitFails(w) \/ RecordFails(w) \/ CallFails(w) \/ CancelFails(w) \/ Crash(w)

Request(w) ==
  \/ \E call \in Calls, m \in Members : Submit(w, call, m)
  \/ \E j \in JobIds : (\E call \in Calls : Ask(w, j, call)) \/ \E wait \in BOOLEAN : Cancel(w, j, wait)

HySDS(j) == Index(j) \/ Start(j) \/ EndCancel(j) \/ \E s \in Ended : EndJob(j, s)

Next ==
  \/ \E w \in Workers : Request(w) \/ Continue(w) \/ Fail(w)
  \/ \E j \in JobIds : HySDS(j)

Spec == Init /\ [][Next]_vars

\* Workers go on and HySDS runs what it accepted; nothing makes a call fail.
FairSpec ==
  /\ Spec
  /\ \A w \in Workers : WF_vars(Continue(w))
  /\ \A j \in JobIds : WF_vars(HySDS(j))

-----------------------------------------------------------------------------
(***************************************************************************)
(* Properties.                                                             *)
(***************************************************************************)

\* A member who is told that DPS accepted a job is on record as its submitter
\* (_log_job_submission, job.py:115), also when Mozart gave the id of a job that
\* another member had submitted.
AnsweredIsRecorded ==
  \A w \in Workers :
    worker[w].call = "submit" /\ worker[w].reply = "accepted" =>
      <<worker[w].member, worker[w].job>> \in member_job

\* Who waited for a cancel and is told "dismissed" finds the job neither queued
\* nor running, then and ever after.
WaitedDismissalIsDone ==
  \A w \in Workers :
    worker[w].wait /\ worker[w].reply = "dismissed" => Status(worker[w].job) \notin Active

\* "For all other statuses, we cannot cancel" (ogc.py:859, job.py:613): a job
\* that had ended before anybody asked to cancel it keeps its status for good,
\* whatever cancel jobs are under way.
EndedIsKept ==
  [][\A j \in JobIds \ asked :
       Status(j) \in Ended => Status(j)' = Status(j)]_vars

\* The loop of poll_for_completion has no bound (hysds_util.py:106), and yet it
\* ends with the cancel job, whichever way that ends, and every request with it.
RequestsEnd == \A w \in Workers : ~At(w, "idle") ~> At(w, "idle")

\* "keep polling mozart until the purge job is finished" (hysds_util.py:809, 833):
\* a cancel that was waited for is answered when the cancel job has ended.
WaitsForTheEnd ==
  [][\A w \in Workers :
       Poll(w) /\ worker[w].cancel # None => job[worker[w].cancel].status \in Ended]_vars

-----------------------------------------------------------------------------
(***************************************************************************)
(* The inductive invariant.                                                *)
(***************************************************************************)

Gone(j) == job[j] # None /\ job[j].status \in Ended \cup {"purged"}

Shown(j) == job[j] # None /\ job[j].status # "unseen"

CancelJob(c) == job[c] # None /\ job[c].kind # "run"

\* A cancel job is about another one, which was in the index when somebody asked
\* to cancel it, and which is over when the cancel job has completed.
CancelsOK ==
  \A c \in JobIds : CancelJob(c) =>
    /\ job[c].of \in asked /\ job[c].of # c /\ Shown(job[c].of)
    /\ job[c].status = "completed" => Gone(job[c].of)

FrameOK(w) ==
  LET f == worker[w] IN
  /\ f.pc # "idle" => f.reply = None
  /\ f.pc \in {"submit", "record"} => f.member \in Members
  /\ f.pc = "record" => f.job \in JobIds
  /\ f.pc \in {"readStatus", "readInfo"} => f.job \in JobIds
  /\ f.pc = "readStatus" /\ f.call = "cancel" => f.job \in asked \/ Gone(f.job)
  /\ f.pc = "cancel" => f.kind # None /\ f.job \in asked /\ Shown(f.job)
  /\ f.pc = "poll" => f.job \in JobIds
  /\ f.pc = "poll" /\ f.cancel # None => CancelJob(f.cancel) /\ job[f.cancel].of = f.job
  /\ f.wait /\ f.reply = "dismissed" => f.job \in JobIds /\ Gone(f.job)
  /\ f.call = "submit" /\ f.reply = "accepted" => <<f.member, f.job>> \in member_job

IInv == TypeOK /\ CancelsOK /\ \A w \in Workers : FrameOK(w)
=============================================================================
