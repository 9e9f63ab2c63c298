--------------------------- MODULE JobQueuesProofs ---------------------------
(***************************************************************************)
(* As long as no handler has died half way, there is at most one default   *)
(* queue once nobody is settling it: for any number of workers, queues and *)
(* organizations.                                                          *)
(*                                                                         *)
(* The number of defaults alone is not inductive, since a handler makes a  *)
(* queue default in one statement and resets the others in a later one.    *)
(* What each step preserves is that of any two defaults one is still being *)
(* settled by some worker (DefaultsAreSettled): a step makes at most one   *)
(* queue default, and its worker then settles it; a worker stops settling  *)
(* a queue only when it is no default, is gone, or is the only default.    *)
(***************************************************************************)
EXTENDS JobQueues, FiniteSetTheorems, TLAPS

\* The step of w takes it to frame f and leaves the other workers alone.
LEMMA EnterEffect ==
  ASSUME worker \in [Workers -> Frame], NEW w \in Workers, NEW f \in Frame, Enter(w, f)
  PROVE  /\ worker' \in [Workers -> Frame]
         /\ worker'[w] = f
         /\ \A v \in Workers \ {w} : worker'[v] = worker[v]
BY DEF Enter

\* A frame that only moves on to another step is a frame.
LEMMA GoToEffect ==
  ASSUME worker \in [Workers -> Frame], NEW w \in Workers,
         NEW step \in {"idle", "save", "checkDefault", "reset", "clear", "assign", "deleteRow"},
         GoTo(w, step)
  PROVE  /\ worker' \in [Workers -> Frame]
         /\ worker'[w].pc = step
         /\ worker'[w].queue = worker[w].queue
         /\ \A v \in Workers \ {w} : worker'[v] = worker[v]
<1> DEFINE f == [worker[w] EXCEPT !.pc = step]
<1>1. f \in Frame
  BY DEF Frame
<1>2. f.pc = step /\ f.queue = worker[w].queue
  BY DEF Frame
<1> HIDE DEF f
<1> QED BY <1>1, <1>2, EnterEffect DEF GoTo, f

LEMMA IdleIsFrame == Idle \in Frame /\ Idle.pc = "idle"
BY DEF Idle, Frame

LEMMA ReturnEffect ==
  ASSUME worker \in [Workers -> Frame], NEW w \in Workers, Return(w)
  PROVE  /\ worker' \in [Workers -> Frame]
         /\ worker'[w].pc = "idle"
         /\ \A v \in Workers \ {w} : worker'[v] = worker[v]
BY EnterEffect, IdleIsFrame DEF Return

\* A queue settled by another worker than the one that moves stays so.
LEMMA OthersSettle ==
  ASSUME NEW w \in Workers, \A v \in Workers \ {w} : worker'[v] = worker[v],
         NEW q, Settling(q), ~(worker[w].queue = q /\ worker[w].pc \in {"checkDefault", "reset"})
  PROVE  Settling(q)'
BY DEF Settling

\* A worker that settles q after its step makes it settled.
LEMMA WorkerSettles ==
  ASSUME NEW w \in Workers, NEW q, worker'[w].queue = q,
         worker'[w].pc \in {"checkDefault", "reset"}
  PROVE  Settling(q)'
BY DEF Settling

\* A step that makes no queue default, by a worker that is settling none, keeps the invariant.
LEMMA NoNewDefault ==
  ASSUME NEW w \in Workers, DefaultsAreSettled, crashed' = crashed,
         \A v \in Workers \ {w} : worker'[v] = worker[v],
         worker[w].pc \notin {"checkDefault", "reset"},
         Defaults' \subseteq Defaults
  PROVE  DefaultsAreSettled'
BY OthersSettle DEF DefaultsAreSettled

\* The same of a step that may make the queue default that w settles afterwards.
LEMMA OneNewDefault ==
  ASSUME NEW w \in Workers, DefaultsAreSettled, crashed' = crashed,
         \A v \in Workers \ {w} : worker'[v] = worker[v],
         worker[w].pc \notin {"checkDefault", "reset"},
         worker'[w].pc \in {"checkDefault", "reset"},
         Defaults' \subseteq Defaults \cup {worker'[w].queue}
  PROVE  DefaultsAreSettled'
<1> SUFFICES ASSUME ~crashed, NEW p \in Defaults', NEW q \in Defaults', p # q
             PROVE  Settling(p)' \/ Settling(q)'
  BY DEF DefaultsAreSettled
<1>1. CASE worker'[w].queue \in {p, q}
  BY <1>1, WorkerSettles
<1>2. CASE worker'[w].queue \notin {p, q}
  <2>1. Settling(p) \/ Settling(q)
    BY <1>2 DEF DefaultsAreSettled
  <2> QED BY <2>1, OthersSettle
<1> QED BY <1>1, <1>2

LEMMA FramesStay ==
  ASSUME NEW w \in Workers, FramesNameQueues,
         \A v \in Workers \ {w} : worker'[v] = worker[v],
         worker'[w].pc # "idle" => worker'[w].queue \in Queues
  PROVE  FramesNameQueues'
BY DEF FramesNameQueues, At

LEMMA InitOK == Init => IInv
<1> SUFFICES ASSUME Init PROVE IInv
  OBVIOUS
<1>1. TypeOK
  BY IdleIsFrame DEF Init, TypeOK
<1>2. FramesNameQueues
  BY IdleIsFrame DEF Init, FramesNameQueues, At
<1>3. DefaultsAreSettled
  BY DEF Init, DefaultsAreSettled, Defaults, Exists
<1> QED BY <1>1, <1>2, <1>3 DEF IInv

-----------------------------------------------------------------------------
(***************************************************************************)
(* The handlers.                                                           *)
(***************************************************************************)

LEMMA CreateQueueStep ==
  ASSUME IInv, NEW w \in Workers, NEW q \in Queues, NEW wants \in BOOLEAN,
         NEW guest \in GuestTiers, NEW orgs \in SUBSET Orgs, CreateQueue(w, q, wants, guest, orgs)
  PROVE  IInv'
<1> DEFINE row == [default |-> wants, guest |-> guest]
           f == [Idle EXCEPT !.pc = IF wants THEN "checkDefault" ELSE "assign", !.op = "post",
                             !.queue = q, !.orgs = orgs]
<1>1. row \in QueueRow /\ row.default = wants
  BY InputAssumption DEF QueueRow
<1>2. f \in Frame /\ f.queue = q /\ f.pc = IF wants THEN "checkDefault" ELSE "assign"
  BY DEF Idle, Frame
<1>3. queue' = [queue EXCEPT ![q] = row] /\ Enter(w, f) /\ UNCHANGED <<assigned, crashed>>
  BY DEF CreateQueue
<1> HIDE DEF row, f
<1>4. /\ worker' \in [Workers -> Frame] /\ worker'[w] = f
      /\ \A v \in Workers \ {w} : worker'[v] = worker[v]
  BY <1>2, <1>3, EnterEffect DEF IInv, TypeOK
<1>5. TypeOK'
  BY <1>1, <1>3, <1>4 DEF IInv, TypeOK
<1>6. FramesNameQueues'
  BY <1>2, <1>4, FramesStay DEF IInv
<1>7. worker[w].pc = "idle"
  BY DEF CreateQueue, At
<1>8. Defaults' \subseteq IF wants THEN Defaults \cup {q} ELSE Defaults
  BY <1>1, <1>3 DEF Defaults, Exists, IInv, TypeOK
<1>9. DefaultsAreSettled'
  <2>1. CASE wants
    BY <2>1, <1>2, <1>3, <1>4, <1>7, <1>8, OneNewDefault DEF IInv
  <2>2. CASE ~wants
    BY <2>2, <1>3, <1>4, <1>7, <1>8, NoNewDefault DEF IInv
  <2> QED BY <2>1, <2>2
<1> QED BY <1>5, <1>6, <1>9 DEF IInv

LEMMA PutReadStep ==
  ASSUME IInv, NEW w \in Workers, NEW q \in Queues, NEW wants \in BOOLEAN \cup {None},
         NEW orgs \in SUBSET Orgs, PutRead(w, q, wants, orgs)
  PROVE  IInv'
<1> DEFINE f == [Idle EXCEPT !.pc = "save", !.op = "put", !.queue = q, !.wants = wants,
                             !.loaded = queue[q].default, !.orgs = orgs]
<1>1. queue[q] \in QueueRow
  BY DEF PutRead, Exists, IInv, TypeOK
<1>2. f \in Frame /\ f.queue = q /\ f.pc = "save"
  BY <1>1 DEF Idle, Frame, QueueRow
<1>3. Enter(w, f) /\ UNCHANGED <<queue, assigned, crashed>> /\ worker[w].pc = "idle"
  BY DEF PutRead, At
<1> HIDE DEF f
<1>4. /\ worker' \in [Workers -> Frame] /\ worker'[w] = f
      /\ \A v \in Workers \ {w} : worker'[v] = worker[v]
  BY <1>2, <1>3, EnterEffect DEF IInv, TypeOK
<1>5. TypeOK' /\ Defaults' = Defaults
  BY <1>3, <1>4 DEF IInv, TypeOK, Defaults, Exists
<1>6. FramesNameQueues'
  BY <1>2, <1>4, FramesStay DEF IInv
<1>7. DefaultsAreSettled'
  BY <1>3, <1>4, <1>5, NoNewDefault DEF IInv
<1> QED BY <1>5, <1>6, <1>7 DEF IInv

LEMMA PutSaveStep ==
  ASSUME IInv, NEW w \in Workers, NEW guest \in GuestTiers, PutSave(w, guest)
  PROVE  IInv'
<1> DEFINE q == worker[w].queue
           row == [default |-> SavedDefault(worker[w], queue[q].default), guest |-> guest]
           f == [worker[w] EXCEPT !.pc = "checkDefault", !.wants = None, !.loaded = None]
<1>1. worker[w].pc = "save" /\ q \in Queues /\ queue[q] \in QueueRow
  BY DEF PutSave, At, Exists, IInv, TypeOK, FramesNameQueues
<1>2. row \in QueueRow
  BY <1>1, InputAssumption DEF QueueRow, SavedDefault, IInv, TypeOK, Frame
<1>3. queue' = [queue EXCEPT ![q] = row] /\ Enter(w, f) /\ UNCHANGED <<assigned, crashed>>
  BY <1>1 DEF PutSave, IInv, TypeOK
<1>4. f \in Frame /\ f.pc = "checkDefault" /\ f.queue = q
  BY DEF IInv, TypeOK, Frame
<1> HIDE DEF row, f
<1>5. /\ worker' \in [Workers -> Frame]
      /\ worker'[w].pc = "checkDefault" /\ worker'[w].queue = q
      /\ \A v \in Workers \ {w} : worker'[v] = worker[v]
  BY <1>3, <1>4, EnterEffect DEF IInv, TypeOK
<1> HIDE DEF q
<1>6. TypeOK' /\ Defaults' \subseteq Defaults \cup {q}
  BY <1>1, <1>2, <1>3, <1>5 DEF IInv, TypeOK, Defaults, Exists
<1>7. FramesNameQueues'
  BY <1>1, <1>5, FramesStay DEF IInv
<1>8. DefaultsAreSettled'
  BY <1>1, <1>3, <1>5, <1>6, OneNewDefault DEF IInv
<1> QED BY <1>6, <1>7, <1>8 DEF IInv

\* The worker goes on settling the queue unless it read that the queue is no default.
LEMMA CheckDefaultStep ==
  ASSUME IInv, NEW w \in Workers, CheckDefault(w)
  PROVE  IInv'
<1> DEFINE q == worker[w].queue
           step == AfterCheck(worker[w], queue[q])
<1>1. worker[w].pc = "checkDefault" /\ q \in Queues /\ queue[q] \in QueueRow
  BY DEF CheckDefault, At, Exists, IInv, TypeOK, FramesNameQueues
<1>2. step \in {"reset", "clear"} /\ (queue[q].default => step = "reset")
  BY DEF AfterCheck
<1>3. GoTo(w, step) /\ UNCHANGED <<queue, assigned, crashed>>
  BY DEF CheckDefault
<1> HIDE DEF step
<1>4. /\ worker' \in [Workers -> Frame]
      /\ worker'[w].pc = step /\ worker'[w].queue = q
      /\ \A v \in Workers \ {w} : worker'[v] = worker[v]
  BY <1>2, <1>3, GoToEffect DEF IInv, TypeOK
<1> HIDE DEF q
<1>5. TypeOK' /\ Defaults' = Defaults
  BY <1>3, <1>4 DEF IInv, TypeOK, Defaults, Exists
<1>6. FramesNameQueues'
  BY <1>1, <1>4, FramesStay DEF IInv
<1>7. DefaultsAreSettled'
  <2> SUFFICES ASSUME ~crashed, NEW p \in Defaults, NEW r \in Defaults, p # r
               PROVE  Settling(p)' \/ Settling(r)'
    BY <1>3, <1>5 DEF DefaultsAreSettled
  <2>1. CASE q \in {p, r}
    BY <2>1, <1>2, <1>4, WorkerSettles DEF Defaults
  <2>2. CASE q \notin {p, r}
    <3>1. Settling(p) \/ Settling(r)
      BY DEF DefaultsAreSettled, IInv
    <3> QED BY <3>1, <2>2, <1>4, OthersSettle DEF q
  <2> QED BY <2>1, <2>2
<1> QED BY <1>5, <1>6, <1>7 DEF IInv

\* A reset leaves at most its own queue default.
LEMMA ResetStep ==
  ASSUME IInv, NEW w \in Workers, Reset(w)
  PROVE  IInv'
<1> DEFINE q == worker[w].queue
           step == IF worker[w].op = "post" THEN "assign" ELSE "clear"
<1>1. worker[w].pc = "reset" /\ q \in Queues
  BY DEF Reset, At, IInv, FramesNameQueues
<1>2. GoTo(w, step) /\ UNCHANGED <<assigned, crashed>>
  BY DEF Reset
<1>3. step \in {"assign", "clear"}
  OBVIOUS
<1> HIDE DEF step
<1>4. /\ worker' \in [Workers -> Frame] /\ worker'[w].queue = q
      /\ \A v \in Workers \ {w} : worker'[v] = worker[v]
  BY <1>2, <1>3, GoToEffect DEF IInv, TypeOK
<1>5. queue' = [p \in Queues |-> IF Exists(p) /\ p # q
                                   THEN [queue[p] EXCEPT !.default = FALSE]
                                   ELSE queue[p]]
  BY DEF Reset
<1>6. \A p \in Queues : Exists(p) => [queue[p] EXCEPT !.default = FALSE] \in QueueRow
  BY DEF Exists, QueueRow, IInv, TypeOK
<1> HIDE DEF q
<1>7. TypeOK'
  BY <1>2, <1>4, <1>5, <1>6 DEF IInv, TypeOK
<1>8. Defaults' \subseteq {q}
  <2> SUFFICES ASSUME NEW p \in Queues, p # q, Exists(p)', queue'[p].default PROVE FALSE
    BY DEF Defaults
  <2>1. CASE Exists(p)
    BY <2>1, <1>5, <1>6 DEF QueueRow, Exists, IInv, TypeOK
  <2>2. CASE ~Exists(p)
    BY <2>2, <1>5 DEF Exists
  <2> QED BY <2>1, <2>2
<1>9. DefaultsAreSettled'
  BY <1>8 DEF DefaultsAreSettled
<1>10. FramesNameQueues'
  BY <1>1, <1>4, FramesStay DEF IInv
<1> QED BY <1>7, <1>9, <1>10 DEF IInv

\* Steps that touch no queue, taken by a worker that settles none.
LEMMA AssignmentStep ==
  ASSUME IInv, NEW w \in Workers, TypeOK', UNCHANGED <<queue, crashed>>,
         \A v \in Workers \ {w} : worker'[v] = worker[v],
         worker[w].pc \notin {"checkDefault", "reset"},
         worker'[w].pc # "idle" => worker'[w].queue \in Queues
  PROVE  IInv'
<1>1. Defaults' = Defaults
  BY DEF Defaults, Exists
<1>2. DefaultsAreSettled'
  BY <1>1, NoNewDefault DEF IInv
<1>3. FramesNameQueues'
  BY FramesStay DEF IInv
<1> QED BY <1>2, <1>3 DEF IInv

LEMMA AssignStep ==
  ASSUME IInv, NEW w \in Workers, Assign(w)
  PROVE  IInv'
<1>1. /\ worker' \in [Workers -> Frame] /\ worker'[w].pc = "idle"
      /\ \A v \in Workers \ {w} : worker'[v] = worker[v]
  BY ReturnEffect DEF Assign, IInv, TypeOK
<1>2. assigned' \in [Queues \X Orgs -> Nat]
  BY DEF Assign, IInv, TypeOK
<1>3. TypeOK'
  BY <1>1, <1>2 DEF TypeOK, IInv, Assign
<1> QED BY <1>1, <1>3, AssignmentStep DEF Assign, At

LEMMA ClearStep ==
  ASSUME IInv, NEW w \in Workers, Clear(w)
  PROVE  IInv'
<1>1. /\ worker' \in [Workers -> Frame] /\ worker'[w].queue = worker[w].queue
      /\ \A v \in Workers \ {w} : worker'[v] = worker[v]
  BY GoToEffect DEF Clear, IInv, TypeOK
<1>2. TypeOK'
  BY <1>1 DEF TypeOK, IInv, Clear, Without
<1>3. worker[w].queue \in Queues
  BY DEF Clear, At, IInv, FramesNameQueues
<1> QED BY <1>1, <1>2, <1>3, AssignmentStep DEF Clear, At

LEMMA DeleteClearStep ==
  ASSUME IInv, NEW w \in Workers, NEW q \in Queues, DeleteClear(w, q)
  PROVE  IInv'
<1> DEFINE f == [Idle EXCEPT !.pc = "deleteRow", !.queue = q]
<1>1. f \in Frame /\ f.queue = q
  BY DEF Idle, Frame
<1>2. Enter(w, f)
  BY DEF DeleteClear
<1> HIDE DEF f
<1>3. /\ worker' \in [Workers -> Frame] /\ worker'[w].queue = q
      /\ \A v \in Workers \ {w} : worker'[v] = worker[v]
  BY <1>1, <1>2, EnterEffect DEF IInv, TypeOK
<1>4. TypeOK'
  BY <1>3 DEF TypeOK, IInv, DeleteClear, Without
<1> QED BY <1>3, <1>4, AssignmentStep DEF DeleteClear, At

LEMMA DeleteRowStep ==
  ASSUME IInv, NEW w \in Workers, DeleteRow(w)
  PROVE  IInv'
<1>1. /\ worker' \in [Workers -> Frame] /\ worker'[w].pc = "idle"
      /\ \A v \in Workers \ {w} : worker'[v] = worker[v]
  BY ReturnEffect DEF DeleteRow, IInv, TypeOK
<1>2. TypeOK'
  BY <1>1 DEF TypeOK, IInv, DeleteRow
<1>3. Defaults' \subseteq Defaults
  BY DEF DeleteRow, Defaults, Exists, IInv, TypeOK
<1>4. worker[w].pc = "deleteRow" /\ crashed' = crashed
  BY DEF DeleteRow, At
<1>5. DefaultsAreSettled'
  BY <1>1, <1>3, <1>4, NoNewDefault DEF IInv
<1>6. FramesNameQueues'
  BY <1>1, FramesStay DEF IInv
<1> QED BY <1>2, <1>5, <1>6 DEF IInv

LEMMA AddCheckStep ==
  ASSUME IInv, NEW w \in Workers, NEW q \in Queues, NEW o \in Orgs, AddCheck(w, q, o)
  PROVE  IInv'
<1> DEFINE f == [Idle EXCEPT !.pc = "assign", !.queue = q, !.orgs = {o}]
<1>1. f \in Frame /\ f.queue = q
  BY DEF Idle, Frame
<1>2. Enter(w, f)
  BY DEF AddCheck
<1> HIDE DEF f
<1>3. /\ worker' \in [Workers -> Frame] /\ worker'[w].queue = q
      /\ \A v \in Workers \ {w} : worker'[v] = worker[v]
  BY <1>1, <1>2, EnterEffect DEF IInv, TypeOK
<1>4. TypeOK'
  BY <1>3 DEF TypeOK, IInv, AddCheck
<1> QED BY <1>3, <1>4, AssignmentStep DEF AddCheck, At

\* A request that fails while it settles a queue does so because the queue is gone.
LEMMA FailStep ==
  ASSUME IInv, NEW w \in Workers, Fail(w)
  PROVE  IInv'
<1>1. /\ worker' \in [Workers -> Frame] /\ worker'[w].pc = "idle"
      /\ \A v \in Workers \ {w} : worker'[v] = worker[v]
  BY ReturnEffect DEF Fail, IInv, TypeOK
<1>2. TypeOK' /\ Defaults' = Defaults
  BY <1>1 DEF TypeOK, IInv, Fail, Defaults, Exists
<1>3. worker[w].pc # "reset" /\ (worker[w].pc = "checkDefault" => worker[w].queue \notin Defaults)
  BY DEF Fail, Defaults
<1>4. DefaultsAreSettled'
  <2> SUFFICES ASSUME ~crashed, NEW p \in Defaults, NEW r \in Defaults, p # r
               PROVE  Settling(p)' \/ Settling(r)'
    BY <1>2 DEF DefaultsAreSettled, Fail
  <2>1. Settling(p) \/ Settling(r)
    BY DEF DefaultsAreSettled, IInv
  <2> QED BY <2>1, <1>1, <1>3, OthersSettle
<1>5. FramesNameQueues'
  BY <1>1, FramesStay DEF IInv
<1> QED BY <1>2, <1>4, <1>5 DEF IInv

\* Steps that only touch the assignments.
LEMMA OutsideStep ==
  ASSUME IInv, TypeOK', UNCHANGED <<queue, worker, crashed>>
  PROVE  IInv'
<1>1. Defaults' = Defaults /\ \A q : Settling(q)' <=> Settling(q)
  BY DEF Defaults, Exists, Settling
<1> QED BY <1>1 DEF IInv, DefaultsAreSettled, FramesNameQueues, At

\* After a crash only the types and the frames are claimed.
LEMMA CrashStep ==
  ASSUME IInv, NEW w \in Workers, Crash(w)
  PROVE  IInv'
<1>1. /\ worker' \in [Workers -> Frame] /\ worker'[w].pc = "idle"
      /\ \A v \in Workers \ {w} : worker'[v] = worker[v]
  BY ReturnEffect DEF Crash, IInv, TypeOK
<1>2. TypeOK' /\ DefaultsAreSettled'
  BY <1>1 DEF TypeOK, IInv, Crash, DefaultsAreSettled
<1> QED BY <1>1, <1>2, FramesStay DEF IInv

LEMMA NextOK == IInv /\ [Next]_vars => IInv'
<1> SUFFICES ASSUME IInv, [Next]_vars PROVE IInv'
  OBVIOUS
<1>1. ASSUME NEW w \in Workers, Request(w) PROVE IInv'
  <2>1. ASSUME NEW q \in Queues, NEW o \in Orgs, Remove(w, q, o) PROVE IInv'
    <3>1. TypeOK'
      BY <2>1 DEF Remove, IInv, TypeOK
    <3> QED BY <2>1, <3>1, OutsideStep DEF Remove
  <2> QED BY <1>1, <2>1, CreateQueueStep, PutReadStep, DeleteClearStep, AddCheckStep DEF Request
<1>2. ASSUME NEW w \in Workers, Continue(w) PROVE IInv'
  BY <1>2, ResetStep, AssignStep, PutSaveStep, CheckDefaultStep, ClearStep, DeleteRowStep,
     FailStep DEF Continue
<1>3. ASSUME NEW o \in Orgs, OrganizationDeleted(o) PROVE IInv'
  <2>1. TypeOK'
    BY <1>3 DEF OrganizationDeleted, IInv, TypeOK
  <2> QED BY <1>3, <2>1, OutsideStep DEF OrganizationDeleted
<1>4. ASSUME UNCHANGED vars PROVE IInv'
  <2>1. TypeOK'
    BY <1>4 DEF vars, IInv, TypeOK
  <2> QED BY <1>4, <2>1, OutsideStep DEF vars
<1> QED BY <1>1, <1>2, <1>3, <1>4, CrashStep DEF Next

\* Of two queues that are default at once one is being settled (job_queue.py:128-129,
\* 162-163), as long as no worker has died; types hold in any case.
THEOREM Invariance == Spec => []IInv
BY InitOK, NextOK, PTL DEF Spec

\* Rows, assignments and frames are well typed.
THEOREM TypeCorrect == Spec => []TypeOK
<1>1. IInv => TypeOK
  BY DEF IInv
<1> QED BY <1>1, Invariance, PTL

\* Two defaults never outlive the handlers that made them: what job_queue.is_default
\* is read for has one answer, whatever the interleaving of creations, updates and deletions.
THEOREM OneDefault == Spec => []AtMostOneDefault
<1>1. ASSUME IInv PROVE AtMostOneDefault
  <2> SUFFICES ASSUME ~crashed, \A q \in Queues : ~Settling(q)
               PROVE  Cardinality(Defaults) <= 1
    BY DEF AtMostOneDefault
  <2>1. \A p, q \in Defaults : p = q
    BY <1>1 DEF IInv, DefaultsAreSettled, Defaults
  <2>2. CASE Defaults = {}
    BY <2>2, FS_EmptySet
  <2>3. CASE Defaults # {}
    <3>1. PICK q \in Defaults : TRUE
      BY <2>3
    <3>2. Defaults = {q}
      BY <2>1, <3>1
    <3>3. Cardinality({q}) = 1
      BY FS_Singleton
    <3> QED BY <3>2, <3>3
  <2> QED BY <2>2, <2>3
<1> QED BY <1>1, Invariance, PTL
=============================================================================
