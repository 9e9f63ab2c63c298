---------------------------- MODULE Organizations ----------------------------
(***************************************************************************)
(* Organizations, their hierarchy and their members: the organization and  *)
(* organization_membership tables, and the handlers that create, update    *)
(* and delete organizations and let members join and leave                 *)
(* (api/utils/organization.py, api/endpoints/organizations.py).  Job       *)
(* queues (see JobQueues) and S3 access refer to organizations; only       *)
(* whether an organization has such rows matters here.                     *)
(*                                                                         *)
(* Workers are as in ProcessDeployment: in AUTOCOMMIT every statement is   *)
(* its own transaction.  Callers are allowed to do what they ask for.      *)
(***************************************************************************)
EXTENDS FiniteSets, Naturals

CONSTANTS
  Workers,     \* gunicorn worker processes
  Orgs,        \* primary keys of organization, never given twice
  Root,        \* the organization that is there from the start
  Granted,     \* the organizations that are given queues and S3 access
  Misplaced,   \* the organizations an update may give any parent, sensible or not
  Members,     \* members
  Payloads,    \* the members a payload may name, and how often it names each
  Repeats,     \* how often a payload names a member at most (a bound of the model)
  None,        \* SQL NULL, a row not inserted yet, or a value not supplied
  Deleted,     \* a row that is gone
  Same         \* a parent left as the handler has read it

ASSUME OrgAssumption ==
  /\ Root \in Orgs /\ Granted \subseteq Orgs /\ Misplaced \subseteq Orgs
  /\ None \notin Orgs /\ Same \notin Orgs \cup {None} /\ Deleted # None
  /\ IsFiniteSet(Workers) /\ Repeats \in Nat \ {0}

VARIABLES
  org,         \* organization table
  members,     \* organization_membership: how many rows an organization and member have
  held,        \* the tables with rows of each organization: its queues, its S3 access
  worker,      \* the request each worker is serving
  overlapped,  \* history: whether two requests have ever run at once
  misplaced    \* history: whether an update has named a parent that makes no hierarchy

vars == <<org, members, held, worker, overlapped, misplaced>>

-----------------------------------------------------------------------------

OrgRow == [parent: Orgs \cup {None}]

ASSUME OrgRowAssumption == {None, Deleted} \cap OrgRow = {}

ASSUME NoOpAssumption == None # "put"

Tables == {"job_queue", "s3_access"}

Exists(o) == o \in Orgs /\ org[o] \notin {None, Deleted}

\* How often a payload names each member: it is a list, and nothing refuses one that
\* names a member twice.
Tallies == [Members -> 0..Repeats]

ASSUME PayloadAssumption == Payloads \subseteq Tallies

NoMembers == [m \in Members |-> 0]

\* adds: the members of the payload.  wants: the parent the handler has set, Same
\* when that is the one it has read.
Frame ==
  [pc: {"idle", "save", "clearMembers", "addMembers", "clearQueues", "clearAccess", "deleteRow"},
   op: {None, "put", "delete"}, org: Orgs \cup {None}, adds: Tallies,
   wants: Orgs \cup {None, Same}]

Idle ==
  [pc |-> "idle", op |-> None, org |-> None, adds |-> NoMembers, wants |-> None]

At(w, step) == worker[w].pc = step

Enter(w, f) == worker' = [worker EXCEPT ![w] = f]

GoTo(w, step) == Enter(w, [worker[w] EXCEPT !.pc = step])

Return(w) == Enter(w, Idle)

\* A request starts, beside those that other workers serve.
Begin(w) ==
  /\ At(w, "idle")
  /\ overlapped' = (overlapped \/ \E v \in Workers : ~At(v, "idle"))

TypeOK ==
  /\ org \in [Orgs -> OrgRow \cup {None, Deleted}]
  /\ members \in [Orgs \X Members -> Nat]
  /\ held \in [Orgs -> SUBSET Tables]
  /\ worker \in [Workers -> Frame]
  /\ overlapped \in BOOLEAN
  /\ misplaced \in BOOLEAN

Init ==
  /\ org = [o \in Orgs |-> IF o = Root THEN [parent |-> None] ELSE None]
  /\ members = [a \in Orgs \X Members |-> 0]
  /\ held = [o \in Orgs |-> {}]
  /\ worker = [w \in Workers |-> Idle]
  /\ overlapped = FALSE
  /\ misplaced = FALSE

-----------------------------------------------------------------------------
(***************************************************************************)
(* The hierarchy, as the view org_tree shows it.                           *)
(***************************************************************************)

There == {x \in Orgs : Exists(x)}

Closed(S) == \A x \in S : Exists(org[x].parent) => org[x].parent \in S

\* o and what is above it: what every set has that holds o and the parents of its members.
Ancestors(o) == {p \in There : \A S \in SUBSET There : o \in S /\ Closed(S) => p \in S}

\* The view starts from the organizations without a parent, and leaves these out.
Listed(o) == org[o].parent # None /\ \E p \in Ancestors(o) : org[p].parent = None

\* The table without the foreign key on parent_org_id.
ChildrenUnchecked(o) == {}

Children(o) == {c \in Orgs : Exists(c) /\ org[c].parent = o}

-----------------------------------------------------------------------------
(***************************************************************************)
(* POST /organizations.                                                    *)
(***************************************************************************)

\* The parent is the one asked for, or a root; without any root the handler raises.
Create(w, o, p, adds) ==
  /\ Begin(w)
  /\ org[o] = None
  /\ \E r \in Orgs : Exists(r) /\ org[r].parent = None
  /\ Exists(p)
  /\ org' = [org EXCEPT ![o] = [parent |-> p]]
  /\ \/ adds = NoMembers /\ UNCHANGED worker
     \/ adds # NoMembers /\ Enter(w, [Idle EXCEPT !.pc = "addMembers", !.org = o, !.adds = adds])
  /\ UNCHANGED <<members, held, misplaced>>

\* One transaction with a row for every entry of the payload; the foreign key wants the
\* organization to exist, and no constraint refuses a second row.
AddMembers(w) ==
  LET f == worker[w] IN
  /\ At(w, "addMembers")
  /\ Exists(f.org)
  /\ members' = [a \in Orgs \X Members |->
                   members[a] + IF a[1] = f.org THEN f.adds[a[2]] ELSE 0]
  /\ Return(w)
  /\ UNCHANGED <<org, held, overlapped, misplaced>>

-----------------------------------------------------------------------------
(***************************************************************************)
(* PUT /organizations/{id}.                                                *)
(***************************************************************************)

\* A sensible parent is there, and is not the organization itself or below it.
Sensible(o, wants) ==
  \/ wants = org[o].parent
  \/ wants # None /\ o # Root /\ o \notin Ancestors(wants)

PutRead(w, o, wants, adds) ==
  /\ Begin(w)
  /\ Exists(o)
  /\ wants = None \/ Exists(wants)
  /\ Sensible(o, wants) \/ o \in Misplaced
  /\ misplaced' = (misplaced \/ ~Sensible(o, wants))
  /\ Enter(w, [Idle EXCEPT !.pc = "save", !.op = "put", !.org = o, !.adds = adds,
                           !.wants = IF wants = org[o].parent THEN Same ELSE wants])
  /\ UNCHANGED <<org, members, held>>

\* The UPDATE has the attributes whose value differs from the one read.
SavedParent(f) ==
  IF f.wants = Same THEN org[f.org].parent ELSE f.wants

\* Its foreign key wants the new parent to exist.
PutSave(w) ==
  LET f == worker[w] IN
  /\ At(w, "save")
  /\ Exists(f.org)
  /\ SavedParent(f) = None \/ Exists(SavedParent(f))
  /\ org' = [org EXCEPT ![f.org].parent = SavedParent(f)]
  /\ Enter(w, [f EXCEPT !.pc = "clearMembers", !.wants = None])
  /\ UNCHANGED <<members, held, overlapped, misplaced>>

ClearedMembers(o) == [a \in Orgs \X Members |-> IF a[1] = o THEN 0 ELSE members[a]]

\* Shared by PUT, which reads the row again for its id, and DELETE.
ClearMembers(w) ==
  LET f == worker[w] IN
  /\ At(w, "clearMembers")
  /\ f.op = "put" => Exists(f.org)
  /\ members' = ClearedMembers(f.org)
  /\ \/ f.op = "put" /\ f.adds = NoMembers /\ Return(w)
     \/ f.op = "put" /\ f.adds # NoMembers /\ GoTo(w, "addMembers")
     \/ f.op = "delete" /\ GoTo(w, "clearQueues")
  /\ UNCHANGED <<org, held, overlapped, misplaced>>

-----------------------------------------------------------------------------
(***************************************************************************)
(* DELETE /organizations/{id}: delete_organization.                        *)
(***************************************************************************)

DeleteRead(w, o) ==
  /\ Begin(w)
  /\ Exists(o)
  /\ Enter(w, [Idle EXCEPT !.pc = "clearMembers", !.op = "delete", !.org = o])
  /\ UNCHANGED <<org, members, held, misplaced>>

\* Deleting as before there was S3 access.
WithoutQueuesOnly(o, t) == IF t = "job_queue" THEN held[o] \ {t} ELSE held[o]

Without(o, t) == held[o] \ {t}

ClearTable(w, step, t, next) ==
  LET o == worker[w].org IN
  /\ At(w, step)
  /\ held' = [held EXCEPT ![o] = Without(o, t)]
  /\ GoTo(w, next)
  /\ UNCHANGED <<org, members, overlapped, misplaced>>

ClearQueues(w) == ClearTable(w, "clearQueues", "job_queue", "clearAccess")

ClearAccess(w) == ClearTable(w, "clearAccess", "s3_access", "deleteRow")

\* Foreign keys keep an organization that any row refers to.
Referenced(o) == Children(o) # {} \/ held[o] # {} \/ \E m \in Members : members[<<o, m>>] > 0

DeleteRow(w) ==
  LET o == worker[w].org IN
  /\ At(w, "deleteRow")
  /\ ~Referenced(o)
  /\ org' = [org EXCEPT ![o] = Deleted]
  /\ Return(w)
  /\ UNCHANGED <<members, held, overlapped, misplaced>>

-----------------------------------------------------------------------------
(***************************************************************************)
(* POST and DELETE /organizations/{id}/membership/{username}, and the      *)
(* tables of other components.                                             *)
(***************************************************************************)

\* Looking only for the member.
MayJoinAlways(o, m) == Exists(o)

MayJoin(o, m) == Exists(o) /\ members[<<o, m>>] = 0

\* The look for a membership; the INSERT is AddMembers.
JoinCheck(w, o, m) ==
  /\ Begin(w)
  /\ MayJoin(o, m)
  /\ Enter(w, [Idle EXCEPT !.pc = "addMembers", !.org = o, !.adds[m] = 1])
  /\ UNCHANGED <<org, members, held, misplaced>>

Leave(w, o, m) ==
  /\ Begin(w)
  /\ members[<<o, m>>] > 0
  /\ members' = [members EXCEPT ![<<o, m>>] = 0]
  /\ UNCHANGED <<org, held, worker, misplaced>>

\* A queue or S3 access is given to the organization, or taken from it.
Grant(w, o, t) ==
  /\ Begin(w)
  /\ Exists(o) /\ o \in Granted
  /\ held' \in {[held EXCEPT ![o] = @ \cup {t}], [held EXCEPT ![o] = @ \ {t}]}
  /\ UNCHANGED <<org, members, worker, misplaced>>

-----------------------------------------------------------------------------

\* A statement fails, and with it the request: the organization is gone, its new
\* parent or a member of the payload does not exist, or rows refer to it.
Fail(w) ==
  LET f == worker[w] IN
  /\ \/ f.pc = "save" /\ (~Exists(f.org) \/ (f.wants \in Orgs /\ ~Exists(f.wants)))
     \/ f.pc = "clearMembers" /\ f.op = "put" /\ ~Exists(f.org)
     \/ f.pc = "addMembers"
     \/ f.pc = "deleteRow" /\ Referenced(f.org)
  /\ Return(w)
  /\ UNCHANGED <<org, members, held, overlapped, misplaced>>

\* The worker is killed, or its database call raises.
Crash(w) ==
  /\ ~At(w, "idle")
  /\ Return(w)
  /\ UNCHANGED <<org, members, held, overlapped, misplaced>>

Request(w) ==
  \/ \E o, p \in Orgs, adds \in Payloads : Create(w, o, p, adds)
  \/ \E o \in Orgs, wants \in Orgs \cup {None}, adds \in Payloads :
       PutRead(w, o, wants, adds)
  \/ \E o \in Orgs : DeleteRead(w, o)
  \/ \E o \in Orgs, m \in Members : JoinCheck(w, o, m) \/ Leave(w, o, m)
  \/ \E o \in Orgs, t \in Tables : Grant(w, o, t)

Continue(w) ==
  \/ AddMembers(w)
  \/ PutSave(w)
  \/ ClearMembers(w)
  \/ ClearQueues(w)
  \/ ClearAccess(w)
  \/ DeleteRow(w)
  \/ Fail(w)

Next == \E w \in Workers : Request(w) \/ Continue(w) \/ Crash(w)

Spec == Init /\ [][Next]_vars

-----------------------------------------------------------------------------
(***************************************************************************)
(* Properties.                                                             *)
(***************************************************************************)

\* "Lists the hierarchy of organizations using MAAP" (organizations.py:36): every
\* organization but a root is listed.  It relies on callers naming sensible parents
\* and on no two requests at once: of two organizations moved below each other at
\* the same time neither is listed again.
HierarchyIsListed ==
  ~overlapped /\ ~misplaced => \A o \in Orgs : Exists(o) /\ o # Root => Listed(o)

\* "Member {} already exists in org {}" (organizations.py:204): the look for a
\* membership, or its deletion, lets each worker bring in one payload's rows at most.
\* Joins that race, and a payload that names a member twice, leave several rows.
MembershipsBounded ==
  \A o \in Orgs, m \in Members : members[<<o, m>>] <= Repeats * Cardinality(Workers)

\* An update leaves exactly the rows its payload names, as often as it names them, when
\* no other request runs.
UpdateIsExact ==
  [][\A w \in Workers :
       ~overlapped' /\ worker[w].op = "put" /\ At(w, "addMembers") /\ members' # members =>
         \A m \in Members : members'[<<worker[w].org, m>>] = worker[w].adds[m]]_vars

\* A deletion takes away all that would keep the organization but its children:
\* when no other request runs, it fails only for them.
OnlyChildrenKeep ==
  ~overlapped =>
    \A w \in Workers :
      At(w, "deleteRow") /\ Referenced(worker[w].org) => Children(worker[w].org) # {}

-----------------------------------------------------------------------------
(***************************************************************************)
(* What every step preserves.                                              *)
(***************************************************************************)

\* The workers about to insert a membership of m in o.
Pending(o, m) ==
  {w \in Workers : At(w, "addMembers") /\ worker[w].org = o /\ worker[w].adds[m] > 0}

\* Rows were inserted by workers that have not come back to insert more since the
\* organization last was without the member.
RowsAndPending ==
  \A o \in Orgs, m \in Members :
    members[<<o, m>>] + Repeats * Cardinality(Pending(o, m)) <= Repeats * Cardinality(Workers)

\* Nobody is a member of an organization before it is there.
NoRowsBefore == \A o \in Orgs, m \in Members : org[o] = None => members[<<o, m>>] = 0

FramesNameOrgs == \A w \in Workers : ~At(w, "idle") => worker[w].org \in Orgs

Alone == ~overlapped => \A v, w \in Workers : v = w \/ At(v, "idle") \/ At(w, "idle")

\* What the handler that w is in has deleted so far.
Cleared(w) ==
  LET f == worker[w] IN
  /\ f.pc \in {"clearQueues", "clearAccess", "deleteRow"} \/ (f.pc = "addMembers" /\ f.op = "put") =>
       \A m \in Members : members[<<f.org, m>>] = 0
  /\ f.pc \in {"clearAccess", "deleteRow"} => "job_queue" \notin held[f.org]
  /\ f.pc = "deleteRow" => "s3_access" \notin held[f.org]

StaysCleared == ~overlapped => \A w \in Workers : Cleared(w)

\* The inductive invariant of the proofs: what has been deleted stays so when no two
\* requests overlap, and inserted and pending memberships together are bounded.
IInv ==
  /\ TypeOK
  /\ FramesNameOrgs
  /\ NoRowsBefore
  /\ RowsAndPending
  /\ Alone
  /\ StaysCleared

\* Every organization is below the root.
Rooted ==
  /\ Exists(Root) => org[Root].parent = None
  /\ \A o \in There \ {Root} : Exists(org[o].parent)
  /\ \A o \in There : Root \in Ancestors(o)

\* The move a handler is about to make is still one to a sensible parent.
MoveIsSensible(w) ==
  LET f == worker[w] IN
  f.pc = "save" => f.wants = Same \/ (Exists(f.wants) /\ f.org # Root /\ f.org \notin Ancestors(f.wants))

\* The inductive invariant of the hierarchy, beside IInv.
HierarchyInv ==
  ~overlapped /\ ~misplaced => Rooted /\ \A w \in Workers : MoveIsSensible(w)
=============================================================================
