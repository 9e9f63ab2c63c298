------------------------------ MODULE JobQueues ------------------------------
(***************************************************************************)
(* Job queues and the organizations they are assigned to: the job_queue    *)
(* and organization_job_queue tables, the admin handlers that create,      *)
(* update and delete queues (api/endpoints/admin.py, api/utils/            *)
(* job_queue.py), the organization handlers that add one or take it away   *)
(* (api/endpoints/organizations.py), and the choice of a queue for a job.  *)
(*                                                                         *)
(* Workers are as in ProcessDeployment: in AUTOCOMMIT every statement is   *)
(* its own transaction.  A queue is identified with its name.  A payload   *)
(* names an organization once.                                             *)
(***************************************************************************)
EXTENDS FiniteSets, Naturals

CONSTANTS
  Workers,     \* gunicorn worker processes
  Queues,      \* primary keys of job_queue, never given twice
  Orgs,        \* organizations
  Memberships, \* the organizations of the member who submits a job
  None,        \* a row not inserted yet, or a value not supplied
  Deleted,     \* a row that is gone
  GuestTiers   \* the values payloads give to guest_tier

ASSUME QueueNoneAssumption == None \notin Queues \cup BOOLEAN
ASSUME InputAssumption == Memberships \subseteq Orgs /\ GuestTiers \subseteq BOOLEAN

VARIABLES
  queue,       \* job_queue table
  assigned,    \* organization_job_queue table: how many rows a queue and organization have
  worker,      \* the request each worker is serving
  crashed      \* history: whether a worker has ever died within a request

vars == <<queue, assigned, worker, crashed>>

-----------------------------------------------------------------------------

QueueRow == [default: BOOLEAN, guest: BOOLEAN]

ASSUME QueueRowAssumption == {None, Deleted} \cap QueueRow = {}

\* wants, orgs: is_default and orgs of the payload.  loaded: is_default of the
\* row the handler has read.  Locals that are not read again are dropped.
Frame ==
  [pc: {"idle", "save", "checkDefault", "reset", "clear", "assign", "deleteRow"},
   op: {None, "post", "put"}, queue: Queues \cup {None},
   wants: BOOLEAN \cup {None}, loaded: BOOLEAN \cup {None}, orgs: SUBSET Orgs]

Idle ==
  [pc |-> "idle", op |-> None, queue |-> None, wants |-> None, loaded |-> None, orgs |-> {}]

At(w, step) == worker[w].pc = step

Enter(w, f) == worker' = [worker EXCEPT ![w] = f]

GoTo(w, step) == Enter(w, [worker[w] EXCEPT !.pc = step])

Return(w) == Enter(w, Idle)

Exists(q) == queue[q] \notin {None, Deleted}

Defaults == {q \in Queues : Exists(q) /\ queue[q].default}

TypeOK ==
  /\ queue \in [Queues -> QueueRow \cup {None, Deleted}]
  /\ assigned \in [Queues \X Orgs -> Nat]
  /\ worker \in [Workers -> Frame]
  /\ crashed \in BOOLEAN

Init ==
  /\ queue = [q \in Queues |-> None]
  /\ assigned = [a \in Queues \X Orgs |-> 0]
  /\ worker = [w \in Workers |-> Idle]
  /\ crashed = FALSE

-----------------------------------------------------------------------------
(***************************************************************************)
(* POST /admin/job-queues: create_queue.                                   *)
(***************************************************************************)

CreateQueue(w, q, wants, guest, orgs) ==
  /\ At(w, "idle")
  /\ queue[q] = None
  /\ queue' = [queue EXCEPT ![q] = [default |-> wants, guest |-> guest]]
  /\ Enter(w, [Idle EXCEPT !.pc = IF wants THEN "checkDefault" ELSE "assign", !.op = "post",
                           !.queue = q, !.orgs = orgs])
  /\ UNCHANGED <<assigned, crashed>>

\* _reset_queue_default, whether or not the queue is still there.
Reset(w) ==
  LET f == worker[w] IN
  /\ At(w, "reset")
  /\ queue' = [q \in Queues |-> IF Exists(q) /\ q # f.queue
                                  THEN [queue[q] EXCEPT !.default = FALSE]
                                  ELSE queue[q]]
  /\ GoTo(w, IF f.op = "post" THEN "assign" ELSE "clear")
  /\ UNCHANGED <<assigned, crashed>>

\* One INSERT for all of them; its foreign key wants the queue to exist.
Assign(w) ==
  LET f == worker[w] IN
  /\ At(w, "assign")
  /\ Exists(f.queue)
  /\ assigned' = [a \in Queues \X Orgs |->
                    IF a[1] = f.queue /\ a[2] \in f.orgs THEN assigned[a] + 1 ELSE assigned[a]]
  /\ Return(w)
  /\ UNCHANGED <<queue, crashed>>

-----------------------------------------------------------------------------
(***************************************************************************)
(* PUT /admin/job-queues/{id}: JobQueueCls.put and update_queue.           *)
(***************************************************************************)

\* Without orgs in the payload there are none to add.
PutRead(w, q, wants, orgs) ==
  /\ At(w, "idle")
  /\ Exists(q)
  /\ Enter(w, [Idle EXCEPT !.pc = "save", !.op = "put", !.queue = q, !.wants = wants,
                           !.loaded = queue[q].default, !.orgs = orgs])
  /\ UNCHANGED <<queue, assigned, crashed>>

\* Storing is_default as sent, NULL when it is not.
SavedDefaultAsSent(f, current) == f.wants

\* The UPDATE has the attributes whose value differs from the one read.
SavedDefault(f, current) == IF f.wants \in {None, f.loaded} THEN current ELSE f.wants

PutSave(w, guest) ==
  LET f == worker[w] IN
  /\ At(w, "save")
  /\ Exists(f.queue)
  /\ queue' = [queue EXCEPT ![f.queue] =
                 [default |-> SavedDefault(f, @.default), guest |-> guest]]
  /\ Enter(w, [f EXCEPT !.pc = "checkDefault", !.wants = None, !.loaded = None])
  /\ UNCHANGED <<assigned, crashed>>

\* Going straight on to the assignments.
\* Resetting the other queues for a new one only.
AfterCheckOnlyNew(f, row) == IF f.op = "post" THEN "reset" ELSE "clear"

AfterCheck(f, row) == IF f.op = "post" \/ row.default THEN "reset" ELSE "clear"

\* The commit has expired the row, so it is read again: a PUT looks at its
\* is_default, a POST only needs its id and trusts the payload.
CheckDefault(w) ==
  LET q == worker[w].queue IN
  /\ At(w, "checkDefault")
  /\ Exists(q)
  /\ GoTo(w, AfterCheck(worker[w], queue[q]))
  /\ UNCHANGED <<queue, assigned, crashed>>

Without(q) == [a \in Queues \X Orgs |-> IF a[1] = q THEN 0 ELSE assigned[a]]

\* The assignments are deleted, also when the payload has none.
Clear(w) ==
  LET q == worker[w].queue IN
  /\ At(w, "clear")
  /\ Exists(q)
  /\ assigned' = Without(q)
  /\ GoTo(w, "assign")
  /\ UNCHANGED <<queue, crashed>>

-----------------------------------------------------------------------------
(***************************************************************************)
(* DELETE /admin/job-queues/{id}: delete_queue.                            *)
(***************************************************************************)

DeleteClear(w, q) ==
  /\ At(w, "idle")
  /\ Exists(q)
  /\ assigned' = Without(q)
  /\ Enter(w, [Idle EXCEPT !.pc = "deleteRow", !.queue = q])
  /\ UNCHANGED <<queue, crashed>>

\* The foreign key keeps a queue that has been assigned again meanwhile.
DeleteRow(w) ==
  LET q == worker[w].queue IN
  /\ At(w, "deleteRow")
  /\ \A o \in Orgs : assigned[<<q, o>>] = 0
  /\ queue' = [queue EXCEPT ![q] = Deleted]
  /\ Return(w)
  /\ UNCHANGED <<assigned, crashed>>

-----------------------------------------------------------------------------
(***************************************************************************)
(* POST and DELETE /organizations/{id}/job_queues/{name}.                  *)
(***************************************************************************)

MayAdd(q, o) == Exists(q) /\ assigned[<<q, o>>] = 0

\* The look for an assignment; the INSERT is Assign.
AddCheck(w, q, o) ==
  /\ At(w, "idle")
  /\ MayAdd(q, o)
  /\ Enter(w, [Idle EXCEPT !.pc = "assign", !.queue = q, !.orgs = {o}])
  /\ UNCHANGED <<queue, assigned, crashed>>

Remove(w, q, o) ==
  /\ At(w, "idle")
  /\ assigned[<<q, o>>] > 0
  /\ assigned' = [assigned EXCEPT ![<<q, o>>] = 0]
  /\ UNCHANGED <<queue, worker, crashed>>

\* delete_organization takes the assignments of the organization away.
OrganizationDeleted(o) ==
  /\ \E q \in Queues : assigned[<<q, o>>] > 0
  /\ assigned' = [a \in Queues \X Orgs |-> IF a[2] = o THEN 0 ELSE assigned[a]]
  /\ UNCHANGED <<queue, worker, crashed>>

-----------------------------------------------------------------------------

\* A statement fails, and with it the request: the row of the queue is gone,
\* the queue has assignments, or an organization of the payload does not exist.
Fail(w) ==
  LET f == worker[w] IN
  /\ \/ f.pc \in {"save", "checkDefault", "clear"} /\ ~Exists(f.queue)
     \/ f.pc = "assign" /\ (~Exists(f.queue) \/ f.orgs # {})
     \/ f.pc = "deleteRow" /\ \E o \in Orgs : assigned[f.queue, o] > 0
  /\ Return(w)
  /\ UNCHANGED <<queue, assigned, crashed>>

\* The worker is killed, or its database call raises.
Crash(w) ==
  /\ ~At(w, "idle")
  /\ Return(w)
  /\ crashed' = TRUE
  /\ UNCHANGED <<queue, assigned>>

Request(w) ==
  \/ \E q \in Queues, wants \in BOOLEAN, guest \in GuestTiers, orgs \in SUBSET Orgs :
       CreateQueue(w, q, wants, guest, orgs)
  \/ \E q \in Queues, wants \in BOOLEAN \cup {None}, orgs \in SUBSET Orgs :
       PutRead(w, q, wants, orgs)
  \/ \E q \in Queues : DeleteClear(w, q)
  \/ \E q \in Queues, o \in Orgs : AddCheck(w, q, o) \/ Remove(w, q, o)

Continue(w) ==
  \/ Reset(w)
  \/ Assign(w)
  \/ \E guest \in GuestTiers : PutSave(w, guest)
  \/ CheckDefault(w)
  \/ Clear(w)
  \/ DeleteRow(w)
  \/ Fail(w)

Next ==
  \/ \E w \in Workers : Request(w) \/ Continue(w) \/ Crash(w)
  \/ \E o \in Orgs : OrganizationDeleted(o)

Spec == Init /\ [][Next]_vars

\* A worker goes on with the request it serves.
FairSpec == Spec /\ \A w \in Workers : WF_vars(Continue(w))

-----------------------------------------------------------------------------
(***************************************************************************)
(* The queue of a job.                                                     *)
(***************************************************************************)

\* get_user_queues: those of the member's organizations, and the guest tier.
UserQueues ==
  {q \in Queues : Exists(q) /\ (queue[q].guest \/ \E o \in Memberships : assigned[<<q, o>>] > 0)}

\* validate_or_get_queue: what it may return, nothing when it raises.  named: the
\* queue of the request, None when it is missing or empty.  typed: whether a job
\* type is given; the queue recommended for it is then looked up as an object and
\* that object, which is not a name, is looked for among the names.
ChosenQueues(named, typed) ==
  IF named # None THEN {named} \cap UserQueues
  ELSE IF typed THEN {} ELSE UserQueues \cap Defaults

-----------------------------------------------------------------------------
(***************************************************************************)
(* Properties.                                                             *)
(***************************************************************************)

\* A worker that will still look at is_default of q, or reset that of the others.
Settling(q) == \E w \in Workers : worker[w].queue = q /\ worker[w].pc \in {"checkDefault", "reset"}

\* "Whether the queue is used as a default when no queues are specified"
\* (models/job_queue.py:12): there is one such queue at most, however creations,
\* updates and deletions interleave, once the handlers that made one default are
\* done, unless one of them has died between its two UPDATEs.
AtMostOneDefault ==
  ~crashed /\ (\A q \in Queues : ~Settling(q)) => Cardinality(Defaults) <= 1

\* The same in the form that is inductive: of two defaults one is being settled.
DefaultsAreSettled ==
  crashed \/ \A p, q \in Defaults : p # q => Settling(p) \/ Settling(q)

\* A frame names the queue it works on.
FramesNameQueues ==
  \A w \in Workers : ~At(w, "idle") => worker[w].queue \in Queues

IInv == TypeOK /\ FramesNameQueues /\ DefaultsAreSettled

\* A worker takes up the creation or the update of a queue.
TakesUp == \E w \in Workers : At(w, "idle") /\ ~At(w, "idle")' /\ worker'[w].op # None

\* Two defaults do not last: when creations and updates of queues stop, those
\* under way leave one at most, unless a handler has died.  As long as others
\* keep coming, each can put off the reset that another owes.
DefaultsSettle ==
  <>[][~TakesUp]_vars => <>[](Cardinality(Defaults) <= 1 \/ crashed)

\* The same without the condition: three workers and three queues refute it.
DefaultsSettleAnyway == Cardinality(Defaults) > 1 ~> Cardinality(Defaults) <= 1 \/ crashed

\* A member who may use the default queue and names none gets it, "If no queue
\* name is provided, it will default to the default job queue" (job_queue.py:248).
UnnamedGetsDefault ==
  \A typed \in BOOLEAN : UserQueues \cap Defaults # {} => ChosenQueues(None, typed) # {}
=============================================================================
