----------------------------- MODULE JobListing -----------------------------
(***************************************************************************)
(* The list of a member's jobs (api/endpoints/ogc.py, Jobs): a page of ids *)
(* from Mozart, chosen by status, then the record of each id, one call at  *)
(* a time (hysds_util.get_jobs_info), and then the filters that HySDS does *)
(* not know, by date and by duration.  The jobs go on meanwhile.           *)
(***************************************************************************)
EXTENDS FiniteSets, Integers

CONSTANTS
  MemberJobs, \* the jobs of the member
  Times,      \* points in time
  Filters,    \* the filters asked for
  PageSize,   \* how many jobs a page has at most
  Nil         \* no value (JSON's null), or no record

ASSUME TimeAssumption == Times \subseteq Int /\ Nil \notin Times

\* OGC_TO_HYSDS_JOB_STATUS_MAP: "deleted" stands for no status of HySDS.
OgcStatuses ==
  {"accepted", "running", "successful", "failed", "dismissed", "deduped", "deleted", "offline"}

HysdsStatuses ==
  {"job-queued", "job-started", "job-completed", "job-failed", "job-revoked", "job-deduped",
   "job-offline"}

\* A cancelled job taken for a failed one.
RevokedAsFailed(s) ==
  CASE s = "accepted" -> "job-queued"
    [] s = "running" -> "job-started"
    [] s = "successful" -> "job-completed"
    [] s = "failed" -> "job-revoked"
    [] s = "dismissed" -> "job-failed"
    [] s = "deduped" -> "job-deduped"
    [] s = "offline" -> "job-offline"
    [] s = "deleted" -> Nil

HysdsStatus(s) ==
  CASE s = "accepted" -> "job-queued"
    [] s = "running" -> "job-started"
    [] s = "successful" -> "job-completed"
    [] s = "failed" -> "job-failed"
    [] s = "dismissed" -> "job-revoked"
    [] s = "deduped" -> "job-deduped"
    [] s = "offline" -> "job-offline"
    [] s = "deleted" -> Nil

\* What the answer calls the status of a record.
OgcStatus(h) ==
  CASE h = "job-queued" -> "accepted"
    [] h = "job-started" -> "running"
    [] h = "job-completed" -> "successful"
    [] h = "job-failed" -> "failed"
    [] h = "job-revoked" -> "dismissed"
    [] h = "job-deduped" -> "deduped"
    [] h = "job-offline" -> "offline"

\* status: asked for, or None.  from, to: what parse_datetime_parameter gives,
\* both None for text that is no date; dated: whether a date was asked for.
\* min, max: durations.
Filter ==
  [status: OgcStatuses \cup {Nil}, dated: BOOLEAN, from: Times \cup {Nil}, to: Times \cup {Nil},
   min: Nat \cup {Nil}, max: Nat \cup {Nil}]

NoFilter ==
  [status |-> Nil, dated |-> FALSE, from |-> Nil, to |-> Nil, min |-> Nil, max |-> Nil]

ASSUME FilterAssumption ==
  /\ Filters \subseteq Filter
  /\ Nil \notin Nat \cup OgcStatuses \cup HysdsStatuses

\* readable: FALSE when it ended with a time of a form that Jobs.get does not
\* parse, as one that ends in "Z" and has no fraction of a second.
Row ==
  [status: HysdsStatuses, start: Times \cup {Nil}, end: Times \cup {Nil}, readable: BOOLEAN]

ASSUME RecordAssumption == Nil \notin Row

VARIABLES
  record,   \* HySDS: the record of each job, Nil before and after it has one
  purged,   \* HySDS: the jobs whose record was removed
  now,
  request   \* the listing that is served, or that was answered last

listingVars == <<record, purged, now, request>>

-----------------------------------------------------------------------------

\* page: the ids Mozart gave; due: those whose record is still to be read;
\* info: the records that were read; found: the jobs that are answered.
Listing ==
  [pc: {"idle", "list", "info"}, filter: Filter, page: SUBSET MemberJobs, due: SUBSET MemberJobs,
   info: [MemberJobs -> Row \cup {Nil}], found: SUBSET MemberJobs]

NoListing ==
  [pc |-> "idle", filter |-> NoFilter, page |-> {}, due |-> {},
   info |-> [j \in MemberJobs |-> Nil], found |-> {}]

ListingTypeOK ==
  /\ record \in [MemberJobs -> Row \cup {Nil}]
  /\ purged \subseteq MemberJobs
  /\ now \in Times
  /\ request \in Listing

ListingInit ==
  /\ record = [j \in MemberJobs |-> Nil]
  /\ purged = {}
  /\ now \in Times
  /\ request = NoListing

-----------------------------------------------------------------------------
(***************************************************************************)
(* The filters.                                                            *)
(***************************************************************************)

\* Comparing the ends only.
EndsInRange(start, end, from, to) ==
  CASE from = Nil -> end <= to
    [] to = Nil -> from <= end
    [] from = to -> start <= from /\ from <= end
    [] OTHER -> from <= end /\ end <= to

\* job_intersects_datetime_range: from and to are not both None.
Intersects(start, end, from, to) ==
  CASE from = Nil -> start <= to
    [] to = Nil -> from <= end
    [] from = to -> start <= from /\ from <= end
    [] OTHER -> from <= end /\ start <= to

\* determineDatetimeInRange: nothing is in a range that cannot be parsed.
InRange(f, start, end) ==
  (f.from # Nil \/ f.to # Nil) /\ Intersects(start, end, f.from, f.to)

\* Only a job that has both times can pass, and only if both can be parsed: the
\* exception that says they cannot is printed and passed over.
PassesFilters(f, r) ==
  /\ r.start # Nil /\ r.end # Nil /\ r.readable
  /\ f.min = Nil \/ f.min <= r.end - r.start
  /\ f.max = Nil \/ r.end - r.start <= f.max
  /\ ~f.dated \/ InRange(f, r.start, r.end)

HasFilters(f) == f.dated \/ f.min # Nil \/ f.max # Nil

\* A job whose record could not be read has no status, and is left out.
Listed(f, r) == r # Nil /\ (HasFilters(f) => PassesFilters(f, r))

-----------------------------------------------------------------------------
(***************************************************************************)
(* The request.                                                            *)
(***************************************************************************)

\* A process that is not deployed has no jobs, and a status that HySDS does not
\* know, or a duration that is no number, is an error: nothing is listed.
AskList(f) ==
  /\ request.pc = "idle"
  /\ \/ /\ f.status # Nil => HysdsStatus(f.status) # Nil
        /\ request' = [NoListing EXCEPT !.pc = "list", !.filter = f]
     \/ request' = [NoListing EXCEPT !.filter = f]
  /\ UNCHANGED <<record, purged, now>>

Matching(f) ==
  {j \in MemberJobs : record[j] # Nil /\ (f.status # Nil => record[j].status = HysdsStatus(f.status))}

\* Mozart's page: what matches, as far as it has room.
ListJobs(page) ==
  /\ request.pc = "list"
  /\ page \subseteq Matching(request.filter)
  /\ page # Matching(request.filter) => Cardinality(page) = PageSize
  /\ Cardinality(page) <= PageSize
  /\ request' = [request EXCEPT !.pc = "info", !.page = page, !.due = page]
  /\ UNCHANGED <<record, purged, now>>

ReadInfo(j) ==
  /\ request.pc = "info"
  /\ j \in request.due
  /\ request' = [request EXCEPT !.due = @ \ {j}, !.info[j] = record[j]]
  /\ UNCHANGED <<record, purged, now>>

AnswerList ==
  /\ request.pc = "info"
  /\ request.due = {}
  /\ request' = [request EXCEPT !.pc = "idle",
                   !.found = {j \in request.page : Listed(request.filter, request.info[j])}]
  /\ UNCHANGED <<record, purged, now>>

\* HySDS cannot be reached: the request is an error as a whole.
ListFails ==
  /\ request.pc # "idle"
  /\ request' = NoListing
  /\ UNCHANGED <<record, purged, now>>

-----------------------------------------------------------------------------
(***************************************************************************)
(* HySDS.                                                                  *)
(***************************************************************************)

Queue(j) ==
  /\ record[j] = Nil /\ j \notin purged
  /\ record' = [record EXCEPT ![j] = [status |-> "job-queued", start |-> Nil, end |-> Nil,
                                           readable |-> TRUE]]
  /\ UNCHANGED <<purged, now, request>>

StartJob(j) ==
  /\ record[j] # Nil /\ record[j].status = "job-queued"
  /\ record' = [record EXCEPT ![j] = [status |-> "job-started", start |-> now, end |-> Nil,
                                      readable |-> TRUE]]
  /\ UNCHANGED <<purged, now, request>>

\* A job that runs ends with both times, unless its worker was lost; one that
\* was queued ends without any.
End(j, s) ==
  /\ record[j] # Nil
  /\ \/ /\ record[j].status = "job-started"
        /\ s \in {"job-completed", "job-failed", "job-revoked", "job-offline"}
        /\ \/ \E b \in BOOLEAN :
                record' = [record EXCEPT ![j] = [@ EXCEPT !.status = s, !.end = now, !.readable = b]]
           \/ s = "job-offline" /\ record' = [record EXCEPT ![j].status = s]
     \/ /\ record[j].status = "job-queued" /\ s \in {"job-revoked", "job-deduped", "job-offline"}
        /\ record' = [record EXCEPT ![j].status = s]
  /\ UNCHANGED <<purged, now, request>>

Purge(j) ==
  /\ record[j] # Nil
  /\ record' = [record EXCEPT ![j] = Nil]
  /\ purged' = purged \cup {j}
  /\ UNCHANGED <<now, request>>

Tick(t) ==
  /\ t > now
  /\ now' = t
  /\ UNCHANGED <<record, purged, request>>

-----------------------------------------------------------------------------

HySDSMoves ==
  \/ \E j \in MemberJobs : Queue(j) \/ StartJob(j) \/ Purge(j) \/ \E s \in HysdsStatuses : End(j, s)
  \/ \E t \in Times : Tick(t)

ListingNext ==
  \/ \E f \in Filters : AskList(f)
  \/ \E page \in SUBSET MemberJobs : ListJobs(page)
  \/ \E j \in MemberJobs : ReadInfo(j)
  \/ AnswerList
  \/ ListFails
  \/ HySDSMoves

ListingSpec == ListingInit /\ [][ListingNext]_listingVars

-----------------------------------------------------------------------------
(***************************************************************************)
(* Properties.                                                             *)
(***************************************************************************)

\* The job ran at some time that the filter asks for.
RanWithin(f, r) ==
  \E t \in Times :
    /\ r.start <= t /\ t <= r.end
    /\ f.from = Nil \/ f.from <= t
    /\ f.to = Nil \/ t <= f.to

\* The job has the times that a filter is about, and they are as asked.
MeetsFilters(f, r) ==
  /\ HasFilters(f) => r.start # Nil /\ r.end # Nil
  /\ f.dated => (f.from # Nil \/ f.to # Nil) /\ RanWithin(f, r)
  /\ f.min # Nil => \E d \in 0 .. (r.end - r.start) : d = f.min
  /\ f.max # Nil => \A d \in 0 .. (r.end - r.start) : d <= f.max

\* An interval that ends before it starts is not asked for.
Backward(f) == f.from # Nil /\ f.to # Nil /\ f.from > f.to

\* "Either a date-time or an interval, half-bounded or bounded" (ogc.py:905): a
\* job of the page is listed if and only if its record was still there when it
\* was read, ran for as long and at a time as asked, and, where there is a
\* filter by time, has its own times in a form that can be parsed (ogc.py:976-985):
\* a job whose times cannot be parsed is left out however it ran.
ListsWhatWasAsked ==
  request.pc = "idle" /\ ~Backward(request.filter) =>
    \A j \in request.page :
      LET f == request.filter
          r == request.info[j]
      IN
      j \in request.found <=> r # Nil /\ MeetsFilters(f, r) /\ (HasFilters(f) => r.readable)

\* The same of every job: "List of jobs for a given user that matches query
\* params provided" (ogc.py:915).
ListsAllThatMatch ==
  request.pc = "idle" /\ ~Backward(request.filter) =>
    \A j \in request.page :
      request.info[j] # Nil /\ MeetsFilters(request.filter, request.info[j]) => j \in request.found

\* What may become of the status a job was listed for before its record is read.
Later(s) ==
  {s} \cup CASE s = "accepted" -> {"running", "successful", "failed", "dismissed", "deduped", "offline"}
             [] s = "running" -> {"successful", "failed", "dismissed", "offline"}
             [] OTHER -> {}

\* Jobs listed by status (ogc.py:904) are answered with that status, or with what
\* has become of it since Mozart made the page: the two tables of ogc_translate
\* are one another's inverse.
AnswersAskedStatus ==
  request.pc = "idle" /\ request.filter.status # Nil =>
    \A j \in request.found : OgcStatus(request.info[j].status) \in Later(request.filter.status)

-----------------------------------------------------------------------------
(***************************************************************************)
(* The inductive invariant.                                                *)
(***************************************************************************)

\* Times are recorded in order, and never ahead of the clock.
RowOK(r) ==
  r # Nil =>
    /\ r.status = "job-queued" => r.start = Nil
    /\ r.status = "job-started" => r.start # Nil
    /\ r.status \in {"job-queued", "job-started"} => r.end = Nil
    /\ r.start # Nil => r.start <= now
    /\ r.end # Nil => r.start # Nil /\ r.start <= r.end

\* A job of the page has the status it was listed for, or a later one.
StillAsked(j) ==
  LET r == IF j \in request.due THEN record[j] ELSE request.info[j] IN
  r # Nil /\ request.filter.status # Nil => OgcStatus(r.status) \in Later(request.filter.status)

RequestOK ==
  /\ \A j \in request.page : record[j] # Nil \/ j \in purged
  /\ request.pc = "list" => request.page = {}
  /\ request.pc = "list" /\ request.filter.status # Nil => HysdsStatus(request.filter.status) # Nil
  /\ request.pc = "idle" =>
       /\ request.due = {}
       /\ request.found = {j \in request.page : Listed(request.filter, request.info[j])}

ListingInv ==
  /\ ListingTypeOK
  /\ \A j \in MemberJobs : RowOK(record[j]) /\ RowOK(request.info[j])
  /\ RequestOK
  /\ \A j \in request.page : StillAsked(j)
=============================================================================
