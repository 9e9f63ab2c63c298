------------------------- MODULE OrganizationsProofs -------------------------
(***************************************************************************)
(* For any number of workers, organizations and members: racing joins and  *)
(* updates leave at most one payload's rows per worker, and when no two    *)
(* requests overlap an update leaves exactly the rows its payload names    *)
(* and a deletion fails only for children.                                 *)
(*                                                                         *)
(* The rows of a membership alone are not inductive: what is bounded is    *)
(* the rows there are together with the workers about to insert one        *)
(* (RowsAndPending), since a worker gets there only while there is none.   *)
(* That a deletion finds what it has deleted still deleted (StaysCleared)  *)
(* needs that only one worker is not idle (Alone).                         *)
(***************************************************************************)
EXTENDS Organizations, FiniteSetTheorems, TLAPS

\* The step of w takes it to frame f and leaves the other workers alone.
LEMMA EnterEffect ==
  ASSUME worker \in [Workers -> Frame], NEW w \in Workers, NEW f \in Frame, Enter(w, f)
  PROVE  /\ worker' \in [Workers -> Frame]
         /\ worker'[w] = f
         /\ \A v \in Workers \ {w} : worker'[v] = worker[v]
BY DEF Enter

\* A frame that only moves on to another step is a frame.
LEMMA GoToEffect ==
  ASSUME worker \in [Workers -> Frame], NEW w \in Workers,
         NEW step \in {"idle", "save", "clearMembers", "addMembers", "clearQueues",
                       "clearAccess", "deleteRow"},
         GoTo(w, step)
  PROVE  /\ worker' \in [Workers -> Frame]
         /\ worker'[w].pc = step
         /\ worker'[w].org = worker[w].org
         /\ worker'[w].op = worker[w].op
         /\ \A v \in Workers \ {w} : worker'[v] = worker[v]
<1> DEFINE f == [worker[w] EXCEPT !.pc = step]
<1>1. f \in Frame
  BY DEF Frame
<1>2. f.pc = step /\ f.org = worker[w].org /\ f.op = worker[w].op
  BY DEF Frame
<1> HIDE DEF f
<1> QED BY <1>1, <1>2, EnterEffect DEF GoTo, f

LEMMA IdleIsFrame == Idle \in Frame /\ Idle.pc = "idle" /\ NoMembers \in Tallies
<1>1. NoMembers \in Tallies
  BY OrgAssumption DEF NoMembers, Tallies
<1> QED BY <1>1 DEF Idle, Frame

LEMMA ReturnEffect ==
  ASSUME worker \in [Workers -> Frame], NEW w \in Workers, Return(w)
  PROVE  /\ worker' \in [Workers -> Frame]
         /\ worker'[w].pc = "idle"
         /\ \A v \in Workers \ {w} : worker'[v] = worker[v]
BY EnterEffect, IdleIsFrame DEF Return

-----------------------------------------------------------------------------
(***************************************************************************)
(* The workers about to insert a membership.                               *)
(***************************************************************************)

LEMMA PendingCounted ==
  ASSUME NEW o, NEW m
  PROVE  /\ IsFiniteSet(Pending(o, m))
         /\ Cardinality(Pending(o, m)) \in Nat
         /\ Cardinality(Pending(o, m)) <= Cardinality(Workers)
         /\ Cardinality(Workers) \in Nat
<1>1. Pending(o, m) \in SUBSET Workers
  BY DEF Pending
<1>2. IsFiniteSet(Workers)
  BY OrgAssumption
<1> QED BY <1>1, <1>2, FS_Subset, FS_CardinalityType

\* The same of the next state.
LEMMA PendingCountedNext ==
  ASSUME NEW o, NEW m
  PROVE  /\ Cardinality(Pending(o, m)') \in Nat
         /\ Cardinality(Pending(o, m)') <= Cardinality(Workers)
<1>1. Pending(o, m)' \in SUBSET Workers
  BY DEF Pending
<1>2. IsFiniteSet(Workers)
  BY OrgAssumption
<1> QED BY <1>1, <1>2, FS_Subset, FS_CardinalityType

\* What the workers about to insert can bring in.
LEMMA RepeatsTimes ==
  ASSUME NEW a \in Nat, NEW b \in Nat, a <= b
  PROVE  /\ Repeats * a \in Nat /\ Repeats * b \in Nat
         /\ Repeats * a <= Repeats * b
         /\ a < b => Repeats * a + Repeats <= Repeats * b
<1>1. PICK d \in Nat : b = a + d
  <2>1. b - a \in Nat /\ b = a + (b - a)
    OBVIOUS
  <2> QED BY <2>1
<1>2. Repeats \in Nat \ {0}
  BY OrgAssumption
<1>3. Repeats * b = Repeats * a + Repeats * d
  BY <1>1, <1>2
<1>4. Repeats * a \in Nat /\ Repeats * b \in Nat /\ Repeats * d \in Nat
  BY <1>2
<1>5. d > 0 => Repeats * d >= Repeats
  BY <1>2
<1> QED BY <1>1, <1>2, <1>3, <1>4, <1>5

\* A step of w after which w is not about to insert m in o lets nobody else be.
LEMMA NotMorePending ==
  ASSUME NEW o, NEW m, NEW w \in Workers, \A v \in Workers \ {w} : worker'[v] = worker[v],
         w \notin Pending(o, m)'
  PROVE  Cardinality(Pending(o, m)') <= Cardinality(Pending(o, m))
<1>1. Pending(o, m)' \in SUBSET Pending(o, m)
  BY DEF Pending, At
<1> QED BY <1>1, PendingCounted, FS_Subset

\* When w was, there is one less.
LEMMA OneLessPending ==
  ASSUME NEW o, NEW m, NEW w \in Workers, \A v \in Workers \ {w} : worker'[v] = worker[v],
         w \in Pending(o, m), w \notin Pending(o, m)'
  PROVE  Cardinality(Pending(o, m)') = Cardinality(Pending(o, m)) - 1
<1>1. Pending(o, m)' = Pending(o, m) \ {w}
  BY DEF Pending, At
<1> QED BY <1>1, PendingCounted, FS_RemoveElement

\* A step leaves each membership without rows, or keeps its rows and makes nobody
\* insert one.
LEMMA RowsStay ==
  ASSUME TypeOK, TypeOK', RowsAndPending, NEW w \in Workers,
         \A v \in Workers \ {w} : worker'[v] = worker[v],
         \A o \in Orgs, m \in Members :
           \/ members'[<<o, m>>] = 0
           \/ members'[<<o, m>>] = members[<<o, m>>] /\ w \notin Pending(o, m)'
  PROVE  RowsAndPending'
<1> SUFFICES ASSUME NEW o \in Orgs, NEW m \in Members
             PROVE  members'[<<o, m>>] + Repeats * Cardinality(Pending(o, m)')
                      <= Repeats * Cardinality(Workers)
  BY DEF RowsAndPending
<1>1. members[<<o, m>>] \in Nat /\ members'[<<o, m>>] \in Nat
  BY DEF TypeOK
<1>2. /\ Cardinality(Pending(o, m)) \in Nat /\ Cardinality(Workers) \in Nat
      /\ Cardinality(Pending(o, m)') \in Nat
      /\ Cardinality(Pending(o, m)') <= Cardinality(Workers)
  BY PendingCounted, PendingCountedNext
<1>3. /\ Repeats * Cardinality(Pending(o, m)') <= Repeats * Cardinality(Workers)
      /\ Repeats * Cardinality(Pending(o, m)) \in Nat
      /\ Repeats * Cardinality(Pending(o, m)') \in Nat /\ Repeats * Cardinality(Workers) \in Nat
  BY <1>2, PendingCounted, RepeatsTimes
<1>4. CASE members'[<<o, m>>] = 0
  BY <1>3, <1>4
<1>5. CASE members'[<<o, m>>] = members[<<o, m>>] /\ w \notin Pending(o, m)'
  <2>1. members[<<o, m>>] + Repeats * Cardinality(Pending(o, m)) <= Repeats * Cardinality(Workers)
    BY DEF RowsAndPending
  <2>2. Cardinality(Pending(o, m)') <= Cardinality(Pending(o, m))
    BY <1>5, NotMorePending
  <2>3. Repeats * Cardinality(Pending(o, m)') <= Repeats * Cardinality(Pending(o, m))
    BY <1>2, <2>2, RepeatsTimes
  <2> QED BY <1>1, <1>3, <1>5, <2>1, <2>3
<1> QED BY <1>4, <1>5

-----------------------------------------------------------------------------
(***************************************************************************)
(* The workers that are not idle.                                          *)
(***************************************************************************)

\* An idle worker has deleted nothing.
LEMMA IdleIsCleared == ASSUME NEW w, worker[w].pc = "idle" PROVE Cleared(w)
BY DEF Cleared

\* When w moves, and starts or goes on, only it has to be looked at.
LEMMA OneMoves ==
  ASSUME Alone, NEW w \in Workers, \A v \in Workers \ {w} : worker'[v] = worker[v],
         Begin(w) \/ (~At(w, "idle") /\ overlapped' = overlapped),
         ~overlapped' => Cleared(w)'
  PROVE  Alone' /\ StaysCleared'
<1>1. ~overlapped' => \A v \in Workers \ {w} : worker'[v].pc = "idle"
  BY DEF Alone, Begin, At
<1>2. Alone'
  BY <1>1 DEF Alone, At
<1>3. \A v \in Workers : worker'[v].pc = "idle" => Cleared(v)'
  BY DEF Cleared
<1>4. StaysCleared'
  BY <1>1, <1>3 DEF StaysCleared
<1> QED BY <1>2, <1>4

LEMMA FramesStay ==
  ASSUME NEW w \in Workers, FramesNameOrgs,
         \A v \in Workers \ {w} : worker'[v] = worker[v],
         worker'[w].pc # "idle" => worker'[w].org \in Orgs
  PROVE  FramesNameOrgs'
BY DEF FramesNameOrgs, At

LEMMA InitOK == Init => IInv
<1> SUFFICES ASSUME Init PROVE IInv
  OBVIOUS
<1>1. TypeOK
  <2>1. org \in [Orgs -> OrgRow \cup {None, Deleted}]
    BY DEF Init, OrgRow
  <2> QED BY <2>1, IdleIsFrame DEF Init, TypeOK
<1>2. \A w \in Workers : worker[w].pc = "idle"
  BY IdleIsFrame DEF Init
<1>3. FramesNameOrgs /\ Alone /\ StaysCleared
  BY <1>2, IdleIsCleared DEF FramesNameOrgs, Alone, StaysCleared, At
<1>4. NoRowsBefore
  BY DEF Init, NoRowsBefore
<1>5. RowsAndPending
  <2> SUFFICES ASSUME NEW o \in Orgs, NEW m \in Members
               PROVE  members[<<o, m>>] + Repeats * Cardinality(Pending(o, m))
                        <= Repeats * Cardinality(Workers)
    BY DEF RowsAndPending
  <2>1. members[<<o, m>>] = 0
    BY DEF Init
  <2>2. Repeats * Cardinality(Pending(o, m)) \in Nat
        /\ Repeats * Cardinality(Pending(o, m)) <= Repeats * Cardinality(Workers)
    BY PendingCounted, RepeatsTimes
  <2> QED BY <2>1, <2>2
<1> QED BY <1>1, <1>3, <1>4, <1>5 DEF IInv

\* What remains to be shown of a step of w.
LEMMA StepOK ==
  ASSUME IInv, NEW w \in Workers, TypeOK', NoRowsBefore', RowsAndPending',
         \A v \in Workers \ {w} : worker'[v] = worker[v],
         worker'[w].pc # "idle" => worker'[w].org \in Orgs,
         Begin(w) \/ (~At(w, "idle") /\ overlapped' = overlapped),
         ~overlapped' => Cleared(w)'
  PROVE  IInv'
<1>1. Alone' /\ StaysCleared'
  BY OneMoves DEF IInv
<1>2. FramesNameOrgs'
  BY FramesStay DEF IInv
<1> QED BY <1>1, <1>2 DEF IInv

\* What remains of a step that leaves the memberships alone.
LEMMA MembersStay ==
  ASSUME IInv, NEW w \in Workers, TypeOK', members' = members,
         \A v \in Workers \ {w} : worker'[v] = worker[v],
         \A o \in Orgs : org'[o] = None => org[o] = None,
         worker'[w].pc # "idle" => worker'[w].org \in Orgs,
         worker'[w].pc # "addMembers",
         Begin(w) \/ (~At(w, "idle") /\ overlapped' = overlapped),
         ~overlapped' => Cleared(w)'
  PROVE  IInv'
<1>1. NoRowsBefore'
  BY DEF NoRowsBefore, IInv
<1>2. RowsAndPending'
  <2>1. \A o \in Orgs, m \in Members : w \notin Pending(o, m)'
    BY DEF Pending, At
  <2> QED BY <2>1, RowsStay DEF IInv
<1> QED BY <1>1, <1>2, StepOK

-----------------------------------------------------------------------------
(***************************************************************************)
(* The handlers.                                                           *)
(***************************************************************************)

LEMMA BeginType == ASSUME NEW w, TypeOK, Begin(w) PROVE overlapped' \in BOOLEAN
BY DEF Begin, TypeOK

LEMMA CreateStep ==
  ASSUME IInv, NEW w \in Workers, NEW o \in Orgs, NEW p \in Orgs, NEW adds \in Payloads,
         Create(w, o, p, adds)
  PROVE  IInv'
<1> DEFINE f == [Idle EXCEPT !.pc = "addMembers", !.org = o, !.adds = adds]
           row == [parent |-> p]
<1>1. f \in Frame /\ f.pc = "addMembers" /\ f.org = o /\ f.op = None
  BY PayloadAssumption, IdleIsFrame DEF Idle, Frame
<1>2. row \in OrgRow /\ row # None
  BY OrgRowAssumption DEF OrgRow
<1>3. /\ Begin(w) /\ org[o] = None /\ org' = [org EXCEPT ![o] = row]
      /\ worker' = worker \/ Enter(w, f)
      /\ UNCHANGED <<members, held, misplaced>>
  BY DEF Create
<1> HIDE DEF f, row
<1>4. /\ worker' \in [Workers -> Frame] /\ worker'[w] \in {worker[w], f}
      /\ \A v \in Workers \ {w} : worker'[v] = worker[v]
  BY <1>1, <1>3, EnterEffect DEF IInv, TypeOK
<1>5. worker[w].pc = "idle"
  BY <1>3 DEF Begin, At
<1>6. TypeOK'
  BY <1>2, <1>3, <1>4, BeginType DEF IInv, TypeOK
<1>7. NoRowsBefore'
  BY <1>2, <1>3 DEF NoRowsBefore, IInv, TypeOK
<1>8. RowsAndPending'
  <2>1. \A m \in Members : members'[<<o, m>>] = 0
    BY <1>3 DEF NoRowsBefore, IInv
  <2>2. \A q \in Orgs \ {o}, m \in Members : w \notin Pending(q, m)'
    BY <1>1, <1>4, <1>5 DEF Pending, At
  <2> QED BY <1>3, <1>4, <1>6, <2>1, <2>2, RowsStay DEF IInv
<1>9. Cleared(w)'
  <2>1. None # "put"
    BY NoOpAssumption
  <2> QED BY <1>1, <1>4, <1>5, <2>1 DEF Cleared
<1> QED BY <1>1, <1>3, <1>4, <1>5, <1>6, <1>7, <1>8, <1>9, StepOK

LEMMA AddMembersStep ==
  ASSUME IInv, NEW w \in Workers, AddMembers(w)
  PROVE  IInv'
<1>1. /\ worker' \in [Workers -> Frame] /\ worker'[w].pc = "idle"
      /\ \A v \in Workers \ {w} : worker'[v] = worker[v]
  BY ReturnEffect DEF AddMembers, IInv, TypeOK
<1>2. /\ members' = [a \in Orgs \X Members |->
                      members[a] + IF a[1] = worker[w].org THEN worker[w].adds[a[2]] ELSE 0]
      /\ Exists(worker[w].org) /\ worker[w].pc = "addMembers"
      /\ UNCHANGED <<org, held, overlapped, misplaced>>
  BY DEF AddMembers, At
<1>3. worker[w].adds \in Tallies
  BY DEF IInv, TypeOK, Frame
<1>4. \A m \in Members : worker[w].adds[m] \in 0..Repeats /\ Repeats \in Nat
  BY <1>3, OrgAssumption DEF Tallies
<1>5. members' \in [Orgs \X Members -> Nat]
  <2> SUFFICES ASSUME NEW a \in Orgs \X Members
               PROVE  members[a] + (IF a[1] = worker[w].org THEN worker[w].adds[a[2]] ELSE 0) \in Nat
    BY <1>2
  <2>1. members[a] \in Nat /\ worker[w].adds[a[2]] \in Nat
    BY <1>4 DEF IInv, TypeOK
  <2> QED BY <2>1
<1>6. TypeOK'
  BY <1>1, <1>2, <1>5 DEF TypeOK, IInv
<1>7. NoRowsBefore'
  <2> SUFFICES ASSUME NEW o \in Orgs, NEW m \in Members, org[o] = None
               PROVE  members'[<<o, m>>] = 0
    BY <1>2 DEF NoRowsBefore
  <2>1. o # worker[w].org /\ members[<<o, m>>] = 0
    BY <1>2 DEF NoRowsBefore, IInv, Exists
  <2> QED BY <1>2, <2>1
<1>8. RowsAndPending'
  <2> SUFFICES ASSUME NEW o \in Orgs, NEW m \in Members
               PROVE  members'[<<o, m>>] + Repeats * Cardinality(Pending(o, m)')
                        <= Repeats * Cardinality(Workers)
    BY DEF RowsAndPending
  <2>1. members[<<o, m>>] + Repeats * Cardinality(Pending(o, m)) <= Repeats * Cardinality(Workers)
    BY DEF RowsAndPending, IInv
  <2>2. /\ Cardinality(Pending(o, m)) \in Nat /\ Cardinality(Workers) \in Nat
        /\ Cardinality(Pending(o, m)') \in Nat
        /\ Cardinality(Pending(o, m)) <= Cardinality(Workers)
    BY PendingCounted, PendingCountedNext
  <2>3. w \notin Pending(o, m)'
    BY <1>1 DEF Pending, At
  <2>4. members[<<o, m>>] \in Nat /\ Repeats * Cardinality(Pending(o, m)) \in Nat
        /\ Repeats * Cardinality(Workers) \in Nat /\ Repeats * Cardinality(Pending(o, m)') \in Nat
    BY <2>2, RepeatsTimes DEF TypeOK, IInv
  <2>5. CASE w \in Pending(o, m)
    <3>1. members'[<<o, m>>] = members[<<o, m>>] + worker[w].adds[m]
      BY <1>2, <2>5 DEF Pending
    <3>2. Cardinality(Pending(o, m)') = Cardinality(Pending(o, m)) - 1
      BY <1>1, <2>3, <2>5, OneLessPending
    <3>3. Repeats * Cardinality(Pending(o, m)') + Repeats <= Repeats * Cardinality(Pending(o, m))
      BY <2>2, <3>2, RepeatsTimes
    <3> QED BY <1>4, <2>1, <2>4, <3>1, <3>3
  <2>6. CASE w \notin Pending(o, m)
    <3>1. o # worker[w].org \/ worker[w].adds[m] = 0
      BY <1>2, <1>4, <2>6 DEF Pending, At
    <3>2. members'[<<o, m>>] = members[<<o, m>>]
      BY <1>2, <2>4, <3>1
    <3>3. Cardinality(Pending(o, m)') <= Cardinality(Pending(o, m))
      BY <1>1, <2>3, NotMorePending
    <3>4. Repeats * Cardinality(Pending(o, m)') <= Repeats * Cardinality(Pending(o, m))
      BY <2>2, <3>3, RepeatsTimes
    <3> QED BY <2>1, <2>4, <3>2, <3>4
  <2> QED BY <2>5, <2>6
<1>9. Cleared(w)'
  BY <1>1 DEF Cleared
<1> QED BY <1>1, <1>2, <1>6, <1>7, <1>8, <1>9, StepOK DEF At

LEMMA PutReadStep ==
  ASSUME IInv, NEW w \in Workers, NEW o \in Orgs, NEW wants \in Orgs \cup {None},
         NEW adds \in Payloads, PutRead(w, o, wants, adds)
  PROVE  IInv'
<1> DEFINE to == IF wants = org[o].parent THEN Same ELSE wants
           f == [Idle EXCEPT !.pc = "save", !.op = "put", !.org = o, !.adds = adds, !.wants = to]
<1>1. to \in Orgs \cup {None, Same}
  OBVIOUS
<1>2. Enter(w, f)
  BY DEF PutRead
<1> HIDE DEF to
<1>3. f \in Frame /\ f.pc = "save" /\ f.org = o
  BY <1>1, PayloadAssumption DEF Idle, Frame
<1> HIDE DEF f
<1>4. /\ worker' \in [Workers -> Frame] /\ worker'[w] = f
      /\ \A v \in Workers \ {w} : worker'[v] = worker[v]
  BY <1>2, <1>3, EnterEffect DEF IInv, TypeOK
<1>5. Begin(w) /\ UNCHANGED <<org, members, held>> /\ misplaced' \in BOOLEAN
  BY DEF PutRead, IInv, TypeOK
<1>6. TypeOK'
  BY <1>4, <1>5, BeginType DEF IInv, TypeOK
<1>7. Cleared(w)'
  BY <1>3, <1>4 DEF Cleared
<1> QED BY <1>3, <1>4, <1>5, <1>6, <1>7, MembersStay

LEMMA PutSaveStep ==
  ASSUME IInv, NEW w \in Workers, PutSave(w)
  PROVE  IInv'
<1> DEFINE o == worker[w].org
           p == SavedParent(worker[w])
           row == [org[o] EXCEPT !.parent = p]
           f == [worker[w] EXCEPT !.pc = "clearMembers", !.wants = None]
<1>1. worker[w] \in Frame /\ worker[w].pc = "save" /\ o \in Orgs /\ org[o] \in OrgRow
  BY DEF PutSave, At, Exists, IInv, TypeOK
<1>2. p \in Orgs \cup {None}
  BY DEF PutSave, Exists
<1>3. org' = [org EXCEPT ![o] = row] /\ Enter(w, f)
      /\ UNCHANGED <<members, held, overlapped, misplaced>>
  BY DEF PutSave
<1>4. f \in Frame /\ f.pc = "clearMembers" /\ f.org = o
  BY <1>1 DEF Frame
<1> HIDE DEF f, p
<1>5. row \in OrgRow /\ row # None
  BY <1>1, <1>2, OrgRowAssumption DEF OrgRow
<1> HIDE DEF row
<1>6. /\ worker' \in [Workers -> Frame] /\ worker'[w] = f
      /\ \A v \in Workers \ {w} : worker'[v] = worker[v]
  BY <1>3, <1>4, EnterEffect DEF IInv, TypeOK
<1>7. TypeOK' /\ \A q \in Orgs : org'[q] = None => org[q] = None
  BY <1>1, <1>3, <1>5, <1>6 DEF IInv, TypeOK
<1>8. Cleared(w)'
  BY <1>4, <1>6 DEF Cleared
<1> QED BY <1>1, <1>3, <1>4, <1>6, <1>7, <1>8, MembersStay DEF At

LEMMA ClearMembersStep ==
  ASSUME IInv, NEW w \in Workers, ClearMembers(w)
  PROVE  IInv'
<1> DEFINE o == worker[w].org
<1>1. /\ worker[w].pc = "clearMembers" /\ o \in Orgs
      /\ members' = [a \in Orgs \X Members |-> IF a[1] = o THEN 0 ELSE members[a]]
      /\ UNCHANGED <<org, held, overlapped, misplaced>>
  BY DEF ClearMembers, ClearedMembers, At, IInv, FramesNameOrgs
<1>2. /\ worker' \in [Workers -> Frame]
      /\ worker'[w].pc = "idle" \/ (worker'[w].pc = "addMembers" /\ worker'[w].org = o)
           \/ (worker'[w].pc = "clearQueues" /\ worker'[w].org = o)
      /\ \A v \in Workers \ {w} : worker'[v] = worker[v]
  <2>1. CASE Return(w)
    BY <2>1, ReturnEffect DEF IInv, TypeOK
  <2>2. CASE GoTo(w, "addMembers")
    BY <2>2, GoToEffect DEF IInv, TypeOK
  <2>3. CASE GoTo(w, "clearQueues")
    BY <2>3, GoToEffect DEF IInv, TypeOK
  <2> QED BY <2>1, <2>2, <2>3 DEF ClearMembers
<1> HIDE DEF o
<1>3. TypeOK' /\ \A m \in Members : members'[<<o, m>>] = 0
  BY <1>1, <1>2 DEF IInv, TypeOK
<1>4. NoRowsBefore'
  BY <1>1 DEF NoRowsBefore, IInv
<1>5. RowsAndPending'
  <2>1. \A q \in Orgs \ {o}, m \in Members : w \notin Pending(q, m)'
    BY <1>2 DEF Pending, At
  <2>2. \A q \in Orgs \ {o}, m \in Members : members'[<<q, m>>] = members[<<q, m>>]
    BY <1>1
  <2> QED BY <1>2, <1>3, <2>1, <2>2, RowsStay DEF IInv
<1>6. Cleared(w)'
  BY <1>2, <1>3 DEF Cleared
<1> QED BY <1>1, <1>2, <1>3, <1>4, <1>5, <1>6, StepOK DEF At

LEMMA DeleteReadStep ==
  ASSUME IInv, NEW w \in Workers, NEW o \in Orgs, DeleteRead(w, o)
  PROVE  IInv'
<1> DEFINE f == [Idle EXCEPT !.pc = "clearMembers", !.op = "delete", !.org = o]
<1>1. f \in Frame /\ f.pc = "clearMembers" /\ f.org = o
  BY IdleIsFrame DEF Idle, Frame
<1>2. Enter(w, f) /\ Begin(w) /\ UNCHANGED <<org, members, held, misplaced>>
  BY DEF DeleteRead
<1> HIDE DEF f
<1>3. /\ worker' \in [Workers -> Frame] /\ worker'[w] = f
      /\ \A v \in Workers \ {w} : worker'[v] = worker[v]
  BY <1>1, <1>2, EnterEffect DEF IInv, TypeOK
<1>4. TypeOK'
  BY <1>2, <1>3, BeginType DEF IInv, TypeOK
<1>5. Cleared(w)'
  BY <1>1, <1>3 DEF Cleared
<1> QED BY <1>1, <1>2, <1>3, <1>4, <1>5, MembersStay

\* The two clearings that follow the one of the memberships.
LEMMA ClearTableStep ==
  ASSUME IInv, NEW w \in Workers, ClearQueues(w) \/ ClearAccess(w)
  PROVE  IInv'
<1> DEFINE o == worker[w].org
           queues == worker[w].pc = "clearQueues"
           t == IF queues THEN "job_queue" ELSE "s3_access"
           next == IF queues THEN "clearAccess" ELSE "deleteRow"
<1>1. /\ worker[w].pc \in {"clearQueues", "clearAccess"} /\ o \in Orgs
      /\ held' = [held EXCEPT ![o] = held[o] \ {t}]
      /\ GoTo(w, next)
      /\ UNCHANGED <<org, members, overlapped, misplaced>>
  BY DEF ClearQueues, ClearAccess, ClearTable, Without, At, IInv, FramesNameOrgs
<1>2. next \in {"clearAccess", "deleteRow"}
  OBVIOUS
<1> HIDE DEF next
<1>3. /\ worker' \in [Workers -> Frame] /\ worker'[w].pc = next /\ worker'[w].org = o
      /\ \A v \in Workers \ {w} : worker'[v] = worker[v]
  BY <1>1, <1>2, GoToEffect DEF IInv, TypeOK
<1>4. TypeOK'
  BY <1>1, <1>3 DEF IInv, TypeOK
<1>5. ~overlapped' => Cleared(w)'
  <2> SUFFICES ASSUME ~overlapped PROVE Cleared(w)'
    BY <1>1
  <2>1. Cleared(w)
    BY DEF IInv, StaysCleared
  <2>2. held'[o] = held[o] \ {t}
    BY <1>1 DEF IInv, TypeOK
  <2>3. \A m \in Members : members[<<o, m>>] = 0
    BY <1>1, <2>1 DEF Cleared
  <2>4. worker[w].pc = "clearAccess" => "job_queue" \notin held[o]
    BY <2>1 DEF Cleared
  <2>5. next = IF queues THEN "clearAccess" ELSE "deleteRow"
    BY DEF next
  <2> QED BY <1>1, <1>3, <2>2, <2>3, <2>4, <2>5 DEF Cleared
<1> QED BY <1>1, <1>2, <1>3, <1>4, <1>5, MembersStay DEF At

LEMMA DeleteRowStep ==
  ASSUME IInv, NEW w \in Workers, DeleteRow(w)
  PROVE  IInv'
<1>1. /\ worker' \in [Workers -> Frame] /\ worker'[w].pc = "idle"
      /\ \A v \in Workers \ {w} : worker'[v] = worker[v]
  BY ReturnEffect DEF DeleteRow, IInv, TypeOK
<1>2. TypeOK' /\ \A q \in Orgs : org'[q] = None => org[q] = None
  BY <1>1, OrgAssumption DEF DeleteRow, IInv, TypeOK
<1>3. Cleared(w)'
  BY <1>1 DEF Cleared
<1> QED BY <1>1, <1>2, <1>3, MembersStay DEF DeleteRow, At

LEMMA JoinCheckStep ==
  ASSUME IInv, NEW w \in Workers, NEW o \in Orgs, NEW m \in Members, JoinCheck(w, o, m)
  PROVE  IInv'
<1> DEFINE one == [NoMembers EXCEPT ![m] = 1]
           f == [Idle EXCEPT !.pc = "addMembers", !.org = o, !.adds = one]
<1>a. one \in Tallies /\ \A n \in Members \ {m} : one[n] = 0
  BY OrgAssumption DEF NoMembers, Tallies
<1>b. [Idle EXCEPT !.pc = "addMembers", !.org = o, !.adds[m] = 1] = f
  BY DEF Idle
<1> HIDE DEF one
<1>1. f \in Frame /\ f.pc = "addMembers" /\ f.org = o /\ f.adds = one /\ f.op = None
  BY <1>a DEF Idle, Frame
<1>2. /\ Enter(w, f) /\ Begin(w) /\ members[<<o, m>>] = 0
      /\ UNCHANGED <<org, members, held, misplaced>>
  BY <1>b DEF JoinCheck, MayJoin
<1> HIDE DEF f
<1>3. /\ worker' \in [Workers -> Frame] /\ worker'[w] = f
      /\ \A v \in Workers \ {w} : worker'[v] = worker[v]
  BY <1>1, <1>2, EnterEffect DEF IInv, TypeOK
<1>4. TypeOK'
  BY <1>2, <1>3, BeginType DEF IInv, TypeOK
<1>5. NoRowsBefore'
  BY <1>2 DEF NoRowsBefore, IInv
<1>6. RowsAndPending'
  <2>1. \A q \in Orgs, n \in Members : (q = o /\ n = m) \/ w \notin Pending(q, n)'
    BY <1>a, <1>1, <1>3 DEF Pending
  <2> QED BY <1>2, <1>3, <1>4, <2>1, RowsStay DEF IInv
<1>7. Cleared(w)'
  BY <1>1, <1>3, NoOpAssumption DEF Cleared
<1> QED BY <1>1, <1>2, <1>3, <1>4, <1>5, <1>6, <1>7, StepOK

LEMMA LeaveStep ==
  ASSUME IInv, NEW w \in Workers, NEW o \in Orgs, NEW m \in Members, Leave(w, o, m)
  PROVE  IInv'
<1>1. /\ Begin(w) /\ members' = [members EXCEPT ![<<o, m>>] = 0]
      /\ UNCHANGED <<org, held, worker, misplaced>>
  BY DEF Leave
<1>2. TypeOK'
  BY <1>1, BeginType DEF IInv, TypeOK
<1>3. NoRowsBefore'
  BY <1>1 DEF NoRowsBefore, IInv, TypeOK
<1>4. worker[w].pc = "idle"
  BY <1>1 DEF Begin, At
<1>5. RowsAndPending'
  <2>1. \A q \in Orgs, n \in Members : w \notin Pending(q, n)'
    BY <1>1, <1>4 DEF Pending, At
  <2>2. \A q \in Orgs, n \in Members : members'[<<q, n>>] \in {0, members[<<q, n>>]}
    BY <1>1 DEF IInv, TypeOK
  <2> QED BY <1>1, <1>2, <2>1, <2>2, RowsStay DEF IInv
<1>6. Cleared(w)'
  BY <1>1, <1>4 DEF Cleared
<1> QED BY <1>1, <1>2, <1>3, <1>4, <1>5, <1>6, StepOK

LEMMA GrantStep ==
  ASSUME IInv, NEW w \in Workers, NEW o \in Orgs, NEW t \in Tables, Grant(w, o, t)
  PROVE  IInv'
<1>1. /\ Begin(w) /\ held' \in [Orgs -> SUBSET Tables]
      /\ UNCHANGED <<org, members, worker, misplaced>>
  BY DEF Grant, IInv, TypeOK
<1>2. TypeOK'
  BY <1>1, BeginType DEF IInv, TypeOK
<1>3. worker[w].pc = "idle"
  BY <1>1 DEF Begin, At
<1>4. Cleared(w)'
  BY <1>1, <1>3 DEF Cleared
<1> QED BY <1>1, <1>2, <1>3, <1>4, MembersStay

\* A request that fails or is cut off leaves the tables as they are.
LEMMA EndStep ==
  ASSUME IInv, NEW w \in Workers, Fail(w) \/ Crash(w)
  PROVE  IInv'
<1>1. Return(w) /\ UNCHANGED <<org, members, held, overlapped, misplaced>> /\ ~At(w, "idle")
  BY DEF Fail, Crash, At
<1>2. /\ worker' \in [Workers -> Frame] /\ worker'[w].pc = "idle"
      /\ \A v \in Workers \ {w} : worker'[v] = worker[v]
  BY <1>1, ReturnEffect DEF IInv, TypeOK
<1>3. TypeOK'
  BY <1>1, <1>2 DEF IInv, TypeOK
<1>4. Cleared(w)'
  BY <1>2 DEF Cleared
<1> QED BY <1>1, <1>2, <1>3, <1>4, MembersStay

LEMMA StutterOK == IInv /\ UNCHANGED vars => IInv'
<1> SUFFICES ASSUME IInv, UNCHANGED vars PROVE IInv'
  OBVIOUS
<1>1. TypeOK' /\ FramesNameOrgs' /\ NoRowsBefore' /\ Alone' /\ StaysCleared'
  BY DEF vars, IInv, TypeOK, FramesNameOrgs, NoRowsBefore, Alone, StaysCleared, Cleared, At
<1>2. RowsAndPending'
  <2>1. \A o, m : Pending(o, m)' = Pending(o, m)
    BY DEF vars, Pending, At
  <2> QED BY <2>1 DEF vars, IInv, RowsAndPending
<1> QED BY <1>1, <1>2 DEF IInv

LEMMA NextOK == IInv /\ [Next]_vars => IInv'
<1> SUFFICES ASSUME IInv, NEW w \in Workers, Request(w) \/ Continue(w) \/ Crash(w)
             PROVE  IInv'
  BY StutterOK DEF Next
<1>1. CASE Request(w)
  BY <1>1, CreateStep, PutReadStep, DeleteReadStep, JoinCheckStep, LeaveStep, GrantStep
  DEF Request
<1>2. CASE Continue(w)
  BY <1>2, AddMembersStep, PutSaveStep, ClearMembersStep, ClearTableStep, DeleteRowStep, EndStep
  DEF Continue
<1>3. CASE Crash(w)
  BY <1>3, EndStep
<1> QED BY <1>1, <1>2, <1>3

-----------------------------------------------------------------------------
(***************************************************************************)
(* The theorems.                                                           *)
(***************************************************************************)

\* In every reachable state the rows of a membership and those about to be inserted are
\* bounded, and what a handler has deleted stays so when no requests overlap.
THEOREM Invariance == Spec => []IInv
BY InitOK, NextOK, PTL DEF Spec

\* Every reachable state is well typed: the tables and the frames of the handlers.
THEOREM TypeCorrect == Spec => []TypeOK
<1>1. IInv => TypeOK
  BY DEF IInv
<1> QED BY <1>1, Invariance, PTL

\* The look for a membership and its INSERT (organizations.py:200-218) are two statements,
\* and the rows of a payload are not compared (organization.py:163-174): joins that race
\* and updates leave at most one payload's rows per worker.
THEOREM RowsBounded == Spec => []MembershipsBounded
<1>1. IInv => MembershipsBounded
  <2> SUFFICES ASSUME IInv, NEW o \in Orgs, NEW m \in Members
               PROVE  members[<<o, m>>] <= Repeats * Cardinality(Workers)
    BY DEF MembershipsBounded
  <2>1. members[<<o, m>>] + Repeats * Cardinality(Pending(o, m)) <= Repeats * Cardinality(Workers)
    BY DEF IInv, RowsAndPending
  <2>2. members[<<o, m>>] \in Nat
    BY DEF IInv, TypeOK
  <2>3. Repeats * Cardinality(Pending(o, m)) \in Nat /\ Repeats * Cardinality(Workers) \in Nat
    BY PendingCounted, RepeatsTimes
  <2> QED BY <2>1, <2>2, <2>3
<1> QED BY <1>1, Invariance, PTL

\* delete_organization (organization.py:186-231) clears all tables but its own: when no
\* other request runs, the foreign keys fail it only for children.
THEOREM DeletionFailsForChildren == Spec => []OnlyChildrenKeep
<1>1. IInv => OnlyChildrenKeep
  <2> SUFFICES ASSUME IInv, ~overlapped, NEW w \in Workers, At(w, "deleteRow"),
                      Referenced(worker[w].org)
               PROVE  Children(worker[w].org) # {}
    BY DEF OnlyChildrenKeep
  <2>1. Cleared(w) /\ worker[w].org \in Orgs
    BY DEF IInv, StaysCleared, FramesNameOrgs, At
  <2>2. held[worker[w].org] = {}
    BY <2>1 DEF Cleared, At, IInv, TypeOK, Tables
  <2>3. \A m \in Members : members[<<worker[w].org, m>>] = 0
    BY <2>1 DEF Cleared, At
  <2>4. ~(0 > 0)
    OBVIOUS
  <2>5. ~\E m \in Members : members[<<worker[w].org, m>>] > 0
    BY <2>3, <2>4, Zenon
  <2> QED BY <2>2, <2>5 DEF Referenced
<1> QED BY <1>1, Invariance, PTL

\* update_organization (organization.py:141-184) leaves exactly the rows its payload names,
\* a member named twice with two of them, when no other request runs.
THEOREM UpdateLeavesItsMembers == Spec => UpdateIsExact
<1> DEFINE Exact ==
      \A w \in Workers :
        ~overlapped' /\ worker[w].op = "put" /\ At(w, "addMembers") /\ members' # members =>
          \A m \in Members : members'[<<worker[w].org, m>>] = worker[w].adds[m]
<1>1. IInv /\ [Next]_vars => [Exact]_vars
  <2> SUFFICES ASSUME IInv, NEW v \in Workers, Request(v) \/ Continue(v) \/ Crash(v),
                      NEW w \in Workers, ~overlapped', worker[w].op = "put",
                      At(w, "addMembers"), members' # members, NEW m \in Members
               PROVE  members'[<<worker[w].org, m>>] = worker[w].adds[m]
    BY DEF Next
  <2>1. AddMembers(v) \/ ClearMembers(v) \/ \E o \in Orgs, n \in Members : Leave(v, o, n)
    BY DEF Request, Continue, Create, PutRead, PutSave, DeleteRead, ClearQueues, ClearAccess,
           ClearTable, DeleteRow, JoinCheck, Grant, Fail, Crash
  <2>2. ~overlapped /\ ~(\E o \in Orgs, n \in Members : Leave(v, o, n))
    <3>1. ASSUME NEW o \in Orgs, NEW n \in Members, Leave(v, o, n) PROVE FALSE
      <4>1. Begin(v)
        BY <3>1 DEF Leave
      <4> QED BY <4>1 DEF Begin, At
    <3>2. overlapped' = overlapped
      BY <2>1, <3>1 DEF AddMembers, ClearMembers
    <3> QED BY <3>1, <3>2
  <2>3. v = w
    BY <2>1, <2>2 DEF AddMembers, ClearMembers, At, IInv, Alone
  <2>4. AddMembers(w)
    BY <2>1, <2>2, <2>3 DEF ClearMembers, At
  <2>5. worker[w].org \in Orgs /\ members[<<worker[w].org, m>>] = 0
    BY <2>2 DEF IInv, StaysCleared, Cleared, FramesNameOrgs, At
  <2>6. worker[w].adds \in [Members -> 0..Repeats] /\ Repeats \in Nat
    BY OrgAssumption DEF IInv, TypeOK, Frame, Tallies
  <2>7. members'[<<worker[w].org, m>>] = 0 + worker[w].adds[m]
    BY <2>4, <2>5 DEF AddMembers
  <2> QED BY <2>6, <2>7
<1> QED BY <1>1, Invariance, PTL DEF Spec, UpdateIsExact

-----------------------------------------------------------------------------
(***************************************************************************)
(* The hierarchy.  What is above an organization is defined by closed sets, *)
(* so no induction is needed: a set closed after a step gives one closed    *)
(* before it, which holds the root.                                         *)
(***************************************************************************)

LEMMA SameHierarchy ==
  ASSUME org' = org
  PROVE  /\ Rooted' <=> Rooted
         /\ \A o \in Orgs : Exists(o)' <=> Exists(o)
         /\ \A o : Ancestors(o)' = Ancestors(o)
BY DEF Rooted, There, Exists, Ancestors, Closed

LEMMA AncestorsAreClosed ==
  ASSUME NEW o \in There
  PROVE  o \in Ancestors(o) /\ Closed(Ancestors(o)) /\ Ancestors(o) \subseteq There
<1>1. o \in Ancestors(o) /\ Ancestors(o) \subseteq There
  BY DEF Ancestors
<1>2. ASSUME NEW x \in Ancestors(o), Exists(org[x].parent) PROVE org[x].parent \in Ancestors(o)
  <2>1. org[x].parent \in There
    BY <1>2 DEF There, Exists
  <2>2. ASSUME NEW S \in SUBSET There, o \in S, Closed(S) PROVE org[x].parent \in S
    <3>1. x \in S
      BY <2>2 DEF Ancestors
    <3> QED BY <1>2, <2>2, <3>1 DEF Closed
  <2> QED BY <2>1, <2>2 DEF Ancestors
<1> QED BY <1>1, <1>2 DEF Closed

\* A new organization below one that is there.
LEMMA CreateRooted ==
  ASSUME TypeOK, Rooted, NEW o \in Orgs, NEW p \in Orgs, org[o] = None, Exists(p),
         org' = [org EXCEPT ![o] = [parent |-> p]]
  PROVE  Rooted'
<1> DEFINE row == [parent |-> p]
<1>1. row \notin {None, Deleted} /\ row.parent = p
  BY OrgRowAssumption DEF OrgRow
<1>2. org' = [org EXCEPT ![o] = row]
  OBVIOUS
<1> HIDE DEF row
<1>3. o \notin There /\ There' = There \cup {o} /\ org'[o] = row
      /\ \A x \in There : org'[x] = org[x]
  BY <1>1, <1>2 DEF There, Exists, TypeOK
<1>4. p \in There /\ Root \in There /\ Root # o
  BY <1>3 DEF There, Rooted, Ancestors
<1>5. ASSUME NEW x \in There', NEW S \in SUBSET There', x \in S, Closed(S)' PROVE Root \in S
  <2> DEFINE T == S \ {o}
  <2>1. T \in SUBSET There
    BY <1>3
  <2>2. Closed(T)
    <3> SUFFICES ASSUME NEW y \in T, Exists(org[y].parent) PROVE org[y].parent \in T
      BY DEF Closed
    <3>1. org'[y] = org[y] /\ org[y].parent \in There
      BY <1>3, <2>1 DEF There, Exists
    <3>2. Exists(org[y].parent)'
      BY <1>3, <3>1 DEF There
    <3> QED BY <1>3, <1>5, <3>1, <3>2 DEF Closed
  <2>3. PICK y \in T : TRUE
    <3>1. CASE x = o
      <4>1. Exists(org[o].parent)'
        BY <1>1, <1>3, <1>4 DEF There
      <4>2. p \in S /\ p # o
        BY <1>1, <1>3, <1>4, <1>5, <3>1, <4>1 DEF Closed
      <4> QED BY <4>2
    <3>2. CASE x # o
      BY <1>5, <3>2
    <3> QED BY <3>1, <3>2
  <2>4. y \in There /\ Root \in Ancestors(y)
    BY <2>1, <2>3 DEF Rooted
  <2> QED BY <2>1, <2>2, <2>3, <2>4 DEF Ancestors
<1>6. \A x \in There' : Root \in Ancestors(x)'
  BY <1>3, <1>4, <1>5 DEF Ancestors
<1>7. Exists(Root)' => org'[Root].parent = None
  BY <1>3, <1>4 DEF Rooted, There
<1>8. \A x \in There' \ {Root} : Exists(org[x].parent)'
  <2>1. \A q : q \in There => Exists(q)'
    BY <1>3 DEF There
  <2>2. Exists(org[o].parent)'
    BY <1>1, <1>3, <1>4, <2>1
  <2>3. \A x \in There \ {Root} : Exists(org[x].parent)'
    BY <1>3, <2>1 DEF Rooted, There, Exists
  <2> QED BY <1>3, <2>2, <2>3
<1> QED BY <1>6, <1>7, <1>8 DEF Rooted

\* A move below an organization that is not below the one moved.
LEMMA MoveRooted ==
  ASSUME TypeOK, Rooted, NEW o \in There, o # Root, NEW b \in There, o \notin Ancestors(b),
         org' = [org EXCEPT ![o].parent = b]
  PROVE  Rooted'
<1> DEFINE row == [org[o] EXCEPT !.parent = b]
<1>1. row \notin {None, Deleted} /\ row.parent = b
  BY OrgRowAssumption DEF OrgRow, TypeOK, There, Exists
<1>2. org' = [org EXCEPT ![o] = row]
  OBVIOUS
<1> HIDE DEF row
<1>3. There' = There /\ org'[o] = row /\ \A x \in There \ {o} : org'[x] = org[x]
  BY <1>1, <1>2 DEF There, Exists, TypeOK
<1>4. \A x \in Orgs : Exists(x)' <=> Exists(x)
  BY <1>3 DEF There
<1>5. ASSUME NEW x \in There, NEW S \in SUBSET There, x \in S, Closed(S)' PROVE Root \in S
  <2>1. CASE o \notin S
    <3>1. Closed(S)
      BY <1>3, <1>4, <1>5, <2>1 DEF Closed, Exists
    <3> QED BY <1>5, <3>1 DEF Rooted, Ancestors
  <2>2. CASE o \in S
    <3> DEFINE T == S \cap Ancestors(b)
    <3>1. b \in Ancestors(b) /\ Closed(Ancestors(b))
      BY AncestorsAreClosed
    <3>2. b \in S
      <4>1. Exists(org[o].parent)'
        BY <1>1, <1>3, <1>4 DEF There
      <4> QED BY <1>1, <1>3, <1>5, <2>2, <4>1 DEF Closed
    <3>3. Closed(T)
      <4> SUFFICES ASSUME NEW y \in T, Exists(org[y].parent) PROVE org[y].parent \in T
        BY DEF Closed
      <4>1. org'[y] = org[y]
        BY <1>3
      <4>2. Exists(org[y].parent)'
        BY <1>4, <4>1 DEF Exists
      <4> QED BY <1>5, <3>1, <4>1, <4>2 DEF Closed
    <3>4. T \in SUBSET There /\ Root \in Ancestors(b)
      BY DEF Rooted
    <3> QED BY <3>1, <3>2, <3>3, <3>4 DEF Ancestors
  <2> QED BY <2>1, <2>2
<1>6. \A x \in There' : Root \in Ancestors(x)'
  BY <1>3, <1>5 DEF Rooted, Ancestors
<1>7. Exists(Root)' => org'[Root].parent = None
  BY <1>3, <1>4 DEF Rooted, There, Exists
<1>8. \A x \in There' \ {Root} : Exists(org[x].parent)'
  BY <1>1, <1>3, <1>4 DEF Rooted, There, Exists
<1> QED BY <1>6, <1>7, <1>8 DEF Rooted

\* The end of an organization that nothing is below.
LEMMA DeleteRooted ==
  ASSUME TypeOK, Rooted, NEW o \in Orgs, Children(o) = {}, org' = [org EXCEPT ![o] = Deleted]
  PROVE  Rooted'
<1>1. There' = There \ {o} /\ \A x \in There' : org'[x] = org[x] /\ org[x].parent # o
  BY DEF There, Exists, TypeOK, Children
<1>2. \A S \in SUBSET There' : Closed(S)' <=> Closed(S)
  BY <1>1 DEF Closed, There, Exists
<1>3. \A x \in There' : Root \in There'
  <2> SUFFICES ASSUME NEW x \in There' PROVE Root \in There'
    OBVIOUS
  <2>1. Closed(There')
    BY <1>1 DEF Closed, There, Exists
  <2>2. Root \in Ancestors(x)
    BY <1>1 DEF Rooted
  <2> QED BY <1>1, <2>1, <2>2 DEF Ancestors
<1>4. \A x \in There' : Root \in Ancestors(x)'
  BY <1>1, <1>2, <1>3 DEF Rooted, Ancestors
<1>5. Exists(Root)' => org'[Root].parent = None
  BY <1>1 DEF Rooted, There, Exists
<1>6. \A x \in There' \ {Root} : Exists(org[x].parent)'
  BY <1>1 DEF Rooted, There, Exists
<1> QED BY <1>4, <1>5, <1>6 DEF Rooted

\* What remains to be shown of a step of w while requests do not overlap and moves
\* are sensible.
LEMMA HierarchyStep ==
  ASSUME IInv, HierarchyInv, NEW w \in Workers, \A v \in Workers \ {w} : worker'[v] = worker[v],
         Begin(w) \/ (~At(w, "idle") /\ overlapped' = overlapped), misplaced => misplaced',
         ~overlapped /\ ~misplaced' /\ Rooted /\ MoveIsSensible(w) => Rooted' /\ MoveIsSensible(w)'
  PROVE  HierarchyInv'
<1> SUFFICES ASSUME ~overlapped', ~misplaced' PROVE Rooted' /\ \A v \in Workers : MoveIsSensible(v)'
  BY DEF HierarchyInv
<1>1. ~overlapped /\ ~misplaced
  <2>1. ~misplaced
    OBVIOUS
  <2>2. ~overlapped
    BY DEF Begin, IInv, TypeOK
  <2> QED BY <2>1, <2>2
<1>2. Rooted' /\ MoveIsSensible(w)'
  BY <1>1 DEF HierarchyInv
<1>3. \A v \in Workers \ {w} : worker'[v].pc = "idle"
  BY DEF IInv, Alone, Begin, At
<1>4. \A v \in Workers \ {w} : MoveIsSensible(v)'
  BY <1>3 DEF MoveIsSensible
<1> QED BY <1>2, <1>4

\* The steps that move no organization and ask for no move.
LEMMA NoMoveStep ==
  ASSUME IInv, HierarchyInv, NEW w \in Workers, org' = org, misplaced' = misplaced,
         \A v \in Workers \ {w} : worker'[v] = worker[v],
         Begin(w) \/ (~At(w, "idle") /\ overlapped' = overlapped),
         worker'[w].pc # "save"
  PROVE  HierarchyInv'
<1>1. MoveIsSensible(w)'
  BY DEF MoveIsSensible
<1> QED BY <1>1, SameHierarchy, HierarchyStep

LEMMA HierarchyCreate ==
  ASSUME IInv, HierarchyInv, NEW w \in Workers, NEW o \in Orgs, NEW p \in Orgs,
         NEW adds \in Payloads, Create(w, o, p, adds)
  PROVE  HierarchyInv'
<1> DEFINE f == [Idle EXCEPT !.pc = "addMembers", !.org = o, !.adds = adds]
<1>1. f \in Frame /\ f.pc = "addMembers"
  BY PayloadAssumption, IdleIsFrame DEF Idle, Frame
<1>2. /\ Begin(w) /\ org[o] = None /\ Exists(p) /\ org' = [org EXCEPT ![o] = [parent |-> p]]
      /\ worker' = worker \/ Enter(w, f)
      /\ UNCHANGED misplaced
  BY DEF Create
<1> HIDE DEF f
<1>3. \A v \in Workers \ {w} : worker'[v] = worker[v]
  BY <1>1, <1>2, EnterEffect DEF IInv, TypeOK
<1>4. worker'[w].pc \in {"idle", "addMembers"}
  BY <1>1, <1>2, EnterEffect DEF IInv, TypeOK, Begin, At
<1>5. MoveIsSensible(w)'
  BY <1>4 DEF MoveIsSensible
<1>6. Rooted => Rooted'
  BY <1>2, CreateRooted DEF IInv
<1> QED BY <1>2, <1>3, <1>5, <1>6, HierarchyStep

LEMMA HierarchyPutRead ==
  ASSUME IInv, HierarchyInv, NEW w \in Workers, NEW o \in Orgs, NEW wants \in Orgs \cup {None},
         NEW adds \in Payloads, PutRead(w, o, wants, adds)
  PROVE  HierarchyInv'
<1>1. PICK to \in Orgs \cup {None, Same} : to = IF wants = org[o].parent THEN Same ELSE wants
  OBVIOUS
<1> DEFINE f == [Idle EXCEPT !.pc = "save", !.op = "put", !.org = o, !.adds = adds, !.wants = to]
<1>2. /\ Enter(w, f) /\ Begin(w) /\ org' = org
      /\ wants = None \/ Exists(wants)
      /\ misplaced' = (misplaced \/ ~Sensible(o, wants))
  BY <1>1 DEF PutRead
<1>3. ~misplaced' => to = Same \/ (Exists(to) /\ o # Root /\ o \notin Ancestors(to))
  BY <1>1, <1>2 DEF Sensible
<1>4. f \in Frame /\ f.org = o /\ f.wants = to
  BY PayloadAssumption, IdleIsFrame DEF Idle, Frame
<1> HIDE DEF f
<1>5. worker'[w] = f /\ \A v \in Workers \ {w} : worker'[v] = worker[v]
  BY <1>2, <1>4, EnterEffect DEF IInv, TypeOK
<1>6. ~misplaced' => MoveIsSensible(w)'
  <2>1. Exists(to)' <=> Exists(to)
    BY <1>2 DEF Exists
  <2>2. Ancestors(to)' = Ancestors(to)
    BY <1>2, SameHierarchy
  <2> QED BY <1>3, <1>4, <1>5, <2>1, <2>2 DEF MoveIsSensible
<1>7. misplaced => misplaced'
  BY <1>2
<1> QED BY <1>2, <1>5, <1>6, <1>7, SameHierarchy, HierarchyStep

LEMMA HierarchyPutSave ==
  ASSUME IInv, HierarchyInv, NEW w \in Workers, PutSave(w)
  PROVE  HierarchyInv'
<1> DEFINE f == [worker[w] EXCEPT !.pc = "clearMembers", !.wants = None]
           o == worker[w].org
           b == worker[w].wants
<1>1. /\ worker[w].pc = "save" /\ Exists(o) /\ Enter(w, f)
      /\ org' = [org EXCEPT ![o].parent = SavedParent(worker[w])]
      /\ UNCHANGED <<overlapped, misplaced>>
  BY DEF PutSave, At
<1>2. f \in Frame /\ f.pc = "clearMembers"
  BY DEF IInv, TypeOK, Frame
<1> HIDE DEF f
<1>3. worker'[w] = f /\ \A v \in Workers \ {w} : worker'[v] = worker[v]
  BY <1>1, <1>2, EnterEffect DEF IInv, TypeOK
<1>4. MoveIsSensible(w)'
  BY <1>2, <1>3 DEF MoveIsSensible
<1>5. ASSUME Rooted, MoveIsSensible(w) PROVE Rooted'
  <2>1. CASE b = Same
    <3>1. org[o] \in OrgRow
      BY <1>1 DEF Exists, IInv, TypeOK
    <3>2. PICK p \in Orgs \cup {None} : org[o] = [parent |-> p]
      BY <3>1 DEF OrgRow
    <3>3. SavedParent(worker[w]) = p
      BY <2>1, <3>2 DEF SavedParent
    <3>4. org'[o] = org[o] /\ \A x \in Orgs \ {o} : org'[x] = org[x]
      BY <1>1, <3>2, <3>3 DEF IInv, TypeOK, Exists
    <3>5. org' \in [Orgs -> OrgRow \cup {None, Deleted}] /\ org \in [Orgs -> OrgRow \cup {None, Deleted}]
      BY <1>1, <3>1, <3>4 DEF IInv, TypeOK
    <3>6. org' = org
      BY <3>4, <3>5
    <3> QED BY <1>5, <3>6, SameHierarchy
  <2>2. CASE b # Same
    <3>1. b \in There /\ o \in There /\ o # Root /\ o \notin Ancestors(b)
      BY <1>1, <1>5, <2>2 DEF MoveIsSensible, There, Exists
    <3>2. org' = [org EXCEPT ![o].parent = b]
      BY <1>1, <2>2 DEF SavedParent
    <3> QED BY <1>5, <3>1, <3>2, MoveRooted DEF IInv
  <2> QED BY <2>1, <2>2
<1> QED BY <1>1, <1>3, <1>4, <1>5, HierarchyStep DEF At

LEMMA HierarchyDeleteRow ==
  ASSUME IInv, HierarchyInv, NEW w \in Workers, DeleteRow(w)
  PROVE  HierarchyInv'
<1>1. worker'[w].pc = "idle" /\ \A v \in Workers \ {w} : worker'[v] = worker[v]
  BY ReturnEffect DEF DeleteRow, IInv, TypeOK
<1>2. /\ worker[w].pc = "deleteRow" /\ Children(worker[w].org) = {}
      /\ org' = [org EXCEPT ![worker[w].org] = Deleted]
      /\ UNCHANGED <<overlapped, misplaced>>
  BY DEF DeleteRow, Referenced, At
<1>3. worker[w].org \in Orgs
  BY <1>2 DEF IInv, FramesNameOrgs, At
<1>4. MoveIsSensible(w)'
  BY <1>1 DEF MoveIsSensible
<1>5. Rooted => Rooted'
  BY <1>2, <1>3, DeleteRooted DEF IInv
<1> QED BY <1>1, <1>2, <1>4, <1>5, HierarchyStep DEF At

\* The handlers that leave the table of organizations alone.
LEMMA HierarchyOthers ==
  ASSUME IInv, HierarchyInv, NEW w \in Workers,
         \/ AddMembers(w) \/ ClearMembers(w) \/ ClearQueues(w) \/ ClearAccess(w)
         \/ Fail(w) \/ Crash(w)
         \/ \E o \in Orgs : DeleteRead(w, o)
         \/ \E o \in Orgs, m \in Members : JoinCheck(w, o, m) \/ Leave(w, o, m)
         \/ \E o \in Orgs, t \in Tables : Grant(w, o, t)
  PROVE  HierarchyInv'
<1>1. worker \in [Workers -> Frame]
  BY DEF IInv, TypeOK
<1>2. CASE AddMembers(w) \/ Fail(w) \/ Crash(w)
  <2>1. Return(w) /\ ~At(w, "idle") /\ UNCHANGED <<org, overlapped, misplaced>>
    BY <1>2 DEF AddMembers, Fail, Crash, At
  <2> QED BY <1>1, <2>1, ReturnEffect, NoMoveStep
<1>3. CASE ClearMembers(w)
  <2>1. /\ Return(w) \/ GoTo(w, "addMembers") \/ GoTo(w, "clearQueues")
        /\ ~At(w, "idle") /\ UNCHANGED <<org, overlapped, misplaced>>
    BY <1>3 DEF ClearMembers, At
  <2>2. worker'[w].pc # "save" /\ \A v \in Workers \ {w} : worker'[v] = worker[v]
    BY <1>1, <2>1, ReturnEffect, GoToEffect
  <2> QED BY <2>1, <2>2, NoMoveStep
<1>4. CASE ClearQueues(w) \/ ClearAccess(w)
  <2>1. /\ GoTo(w, "clearAccess") \/ GoTo(w, "deleteRow")
        /\ ~At(w, "idle") /\ UNCHANGED <<org, overlapped, misplaced>>
    BY <1>4 DEF ClearQueues, ClearAccess, ClearTable, At
  <2>2. worker'[w].pc # "save" /\ \A v \in Workers \ {w} : worker'[v] = worker[v]
    BY <1>1, <2>1, GoToEffect
  <2> QED BY <2>1, <2>2, NoMoveStep
<1>5. ASSUME NEW o \in Orgs, DeleteRead(w, o) PROVE HierarchyInv'
  <2> DEFINE f == [Idle EXCEPT !.pc = "clearMembers", !.op = "delete", !.org = o]
  <2>1. f \in Frame /\ f.pc = "clearMembers"
    BY IdleIsFrame DEF Idle, Frame
  <2>2. Enter(w, f) /\ Begin(w) /\ UNCHANGED <<org, misplaced>>
    BY <1>5 DEF DeleteRead
  <2> HIDE DEF f
  <2> QED BY <1>1, <2>1, <2>2, EnterEffect, NoMoveStep
<1>6. ASSUME NEW o \in Orgs, NEW m \in Members, JoinCheck(w, o, m) PROVE HierarchyInv'
  <2> DEFINE one == [NoMembers EXCEPT ![m] = 1]
             f == [Idle EXCEPT !.pc = "addMembers", !.org = o, !.adds[m] = 1]
  <2>1. one \in Tallies /\ f = [Idle EXCEPT !.pc = "addMembers", !.org = o, !.adds = one]
    BY OrgAssumption DEF Idle, NoMembers, Tallies
  <2> HIDE DEF one
  <2>2. f \in Frame /\ f.pc = "addMembers"
    BY <2>1 DEF Idle, Frame
  <2>3. Enter(w, f) /\ Begin(w) /\ UNCHANGED <<org, misplaced>>
    BY <1>6 DEF JoinCheck
  <2> HIDE DEF f
  <2> QED BY <1>1, <2>2, <2>3, EnterEffect, NoMoveStep
<1>7. CASE \/ \E o \in Orgs, m \in Members : Leave(w, o, m)
           \/ \E o \in Orgs, t \in Tables : Grant(w, o, t)
  <2>1. Begin(w) /\ UNCHANGED <<org, worker, misplaced>>
    BY <1>7 DEF Leave, Grant
  <2>2. worker'[w].pc # "save"
    BY <2>1 DEF Begin, At
  <2> QED BY <2>1, <2>2, NoMoveStep
<1> QED BY <1>2, <1>3, <1>4, <1>5, <1>6, <1>7

\* As long as requests do not overlap and callers name sensible parents, every
\* organization is below the root.
THEOREM HierarchyInvariance == Spec => []HierarchyInv
<1>1. Init => HierarchyInv
  <2> SUFFICES ASSUME Init PROVE HierarchyInv
    OBVIOUS
  <2>1. There = {Root} /\ org[Root].parent = None
    BY OrgAssumption, OrgRowAssumption DEF Init, There, Exists, OrgRow
  <2>2. Root \in Ancestors(Root)
    BY <2>1 DEF Ancestors
  <2>3. \A w \in Workers : MoveIsSensible(w)
    BY IdleIsFrame DEF Init, MoveIsSensible
  <2> QED BY <2>1, <2>2, <2>3 DEF HierarchyInv, Rooted
<1>2. IInv /\ HierarchyInv /\ [Next]_vars => HierarchyInv'
  <2> SUFFICES ASSUME IInv, HierarchyInv, [Next]_vars PROVE HierarchyInv'
    OBVIOUS
  <2>1. ASSUME NEW w \in Workers, Request(w) PROVE HierarchyInv'
    BY <2>1, HierarchyCreate, HierarchyPutRead, HierarchyOthers DEF Request
  <2>2. ASSUME NEW w \in Workers, Continue(w) \/ Crash(w) PROVE HierarchyInv'
    BY <2>2, HierarchyPutSave, HierarchyDeleteRow, HierarchyOthers DEF Continue
  <2>3. ASSUME UNCHANGED vars PROVE HierarchyInv'
    <3>1. \A w \in Workers : MoveIsSensible(w)' <=> MoveIsSensible(w)
      BY <2>3 DEF vars, MoveIsSensible, Exists, Ancestors, There, Closed
    <3> QED BY <2>3, <3>1, SameHierarchy DEF vars, HierarchyInv
  <2> QED BY <2>1, <2>2, <2>3 DEF Next
<1> QED BY <1>1, <1>2, Invariance, PTL DEF Spec

\* The view org_tree lists every organization but the root (organizations.py:36), as
\* long as moves are sensible when they are asked for and requests do not overlap.
THEOREM EveryOrganizationIsListed == Spec => []HierarchyIsListed
<1>1. HierarchyInv => HierarchyIsListed
  <2> SUFFICES ASSUME Rooted, NEW o \in Orgs, Exists(o), o # Root PROVE Listed(o)
    BY DEF HierarchyInv, HierarchyIsListed
  <2>1. Exists(org[o].parent) /\ Root \in Ancestors(o)
    BY DEF Rooted, There
  <2>2. org[o].parent # None
    BY <2>1, OrgAssumption DEF Exists
  <2>3. org[Root].parent = None
    BY <2>1 DEF Rooted, Ancestors, There
  <2> QED BY <2>1, <2>2, <2>3 DEF Listed
<1> QED BY <1>1, HierarchyInvariance, PTL
=============================================================================
