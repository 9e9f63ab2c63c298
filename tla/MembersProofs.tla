--------------------------- MODULE MembersProofs ---------------------------
(***************************************************************************)
(* GitLab accounts and personal access tokens stay with the member they     *)
(* are of for as long as no email goes from one member to another, for any *)
(* number of workers, members, accounts and tokens.                        *)
(***************************************************************************)
EXTENDS Members, TLAPS

LEMMA IdleIsFrame ==
  /\ Idle \in Frame /\ Idle.pc = "idle" /\ Idle.key = None /\ Idle.alone = FALSE
BY DEF Idle, Frame, SyncSteps

LEMMA NoneIsNone ==
  /\ None \notin Row /\ None \notin Account /\ None \notin Token
  /\ None \notin Usernames /\ None \notin Emails /\ None \notin Accounts
  /\ None # "active" /\ None # "suspended"
BY NoneAssumption

\* An email that was handed on stays so.
LEMMA HandedOnStays ==
  ASSUME \A e \in Emails : owners[e] \subseteq owners'[e], HandedOn
  PROVE  HandedOn'
BY DEF HandedOn

LEMMA InitOK == Init => IInv
<1> SUFFICES ASSUME Init PROVE IInv
  OBVIOUS
<1>1. TypeOK
  BY IdleIsFrame DEF Init, TypeOK
<1>2. Owned /\ OneAccount /\ MembersOK
  BY DEF Init, Owned, OneAccount, MembersOK
<1>3. \A w \in Workers : FrameOK(worker[w]) /\ AloneOK(worker[w])
  BY IdleIsFrame DEF Init, FrameOK, AloneOK, SyncSteps
<1>4. Apart
  BY IdleIsFrame DEF Init, Apart
<1>5. SyncedOK /\ AccountFollowsStatus
  BY DEF Init, SyncedOK, AccountFollowsStatus
<1> QED BY <1>1, <1>2, <1>3, <1>4, <1>5 DEF IInv

\* A frame that is not at a step of GitLab's has no account to answer for.
LEMMA StartOK ==
  ASSUME NEW f \in Frame, f.pc \in {"email", "approve", "insert", "check", "update", "commit"},
         f.key # None, f.pc # "commit" => f.email # None,
         f.pc \in {"insert", "commit"} => f.status # None,
         f.pc \in {"update", "check", "commit"} => member[f.key] # None
  PROVE  FrameOK(f) /\ AloneOK(f) /\ f.pc \notin SyncSteps
BY DEF FrameOK, AloneOK, SyncSteps

LEMMA IdleOK == FrameOK(Idle) /\ AloneOK(Idle) /\ Idle.pc \notin SyncSteps
BY IdleIsFrame DEF FrameOK, AloneOK, SyncSteps

\* A step of w that changes the frame of w alone.
LEMMA QuietOK ==
  ASSUME IInv, NEW w \in Workers, NEW g \in Frame, worker' = [worker EXCEPT ![w] = g],
         UNCHANGED <<member, approved, gitlab, token, owners, synced>>,
         FrameOK(g), AloneOK(g),
         g.pc \in SyncSteps =>
           worker[w].pc \in SyncSteps /\ g.key = worker[w].key /\ (g.alone => worker[w].alone)
  PROVE  IInv'
<1>1. /\ worker' \in [Workers -> Frame] /\ worker'[w] = g
      /\ \A x \in Workers \ {w} : worker'[x] = worker[x]
  BY DEF IInv, TypeOK
<1>2. TypeOK'
  BY <1>1 DEF IInv, TypeOK
<1>3. Owned' /\ OneAccount' /\ MembersOK'
  BY DEF IInv, Owned, OneAccount, MembersOK, AccountOf, HandedOn
<1>4. ASSUME NEW x \in Workers PROVE (FrameOK(worker[x]) /\ AloneOK(worker[x]))'
  <2> PICK f \in Frame : f = worker'[x] /\ FrameOK(f) /\ AloneOK(f)
    BY <1>1 DEF IInv, TypeOK
  <2>1. FrameOK(f)' /\ AloneOK(f)'
    BY DEF FrameOK, AloneOK, AccountOf, HandedOn
  <2> QED BY <2>1
<1>5. \A x \in Workers : \A u \in Usernames : Syncing(x, u)' => Syncing(x, u)
  BY <1>1 DEF Syncing
<1>6. Apart'
  <2> SUFFICES ASSUME NEW x \in Workers, worker'[x].alone, worker'[x].pc \in SyncSteps,
                      NEW y \in Workers \ {x}, Syncing(y, worker[x].key)'
               PROVE  FALSE
    BY DEF Apart
  <2>1. worker[x].alone /\ worker[x].pc \in SyncSteps /\ worker[x].key = worker'[x].key
    BY <1>1
  <2>2. Syncing(y, worker[x].key)
    BY <1>1, <2>1 DEF Syncing
  <2> QED BY <2>1, <2>2 DEF IInv, Apart
<1>7. SyncedOK' /\ AccountFollowsStatus'
  <2>1. synced \subseteq Usernames
    BY DEF IInv, TypeOK
  <2> QED BY <1>5, <2>1 DEF IInv, SyncedOK, AccountFollowsStatus, HandedOn
<1> QED BY <1>2, <1>3, <1>4, <1>6, <1>7 DEF IInv

\* The requests up to the first statement that writes.
LEMMA StartsOK ==
  ASSUME IInv, NEW w \in Workers, NEW u \in Usernames, NEW e \in Emails,
         NEW s \in {"active", "suspended"},
         SignUp(w, u, e) \/ ChangeEmail(w, u, e) \/ ChangeStatus(w, u, s) \/ FirstLogin(w, u, e, s)
  PROVE  IInv'
<1> PICK g : g = [Idle EXCEPT !.pc = "email", !.key = u, !.email = e]
  OBVIOUS
<1> PICK h : h = [Idle EXCEPT !.pc = "check", !.key = u, !.email = e]
  OBVIOUS
<1> PICK i : i = [Idle EXCEPT !.pc = "commit", !.key = u, !.status = s]
  OBVIOUS
<1> PICK j : j = [Idle EXCEPT !.pc = "insert", !.key = u, !.email = e, !.status = s]
  OBVIOUS
<1>1. UNCHANGED <<member, approved, gitlab, token, owners, synced>>
  BY DEF SignUp, ChangeEmail, ChangeStatus, FirstLogin
<1>2. CASE SignUp(w, u, e)
  <2>1. g \in Frame /\ g.pc = "email" /\ g.key = u /\ g.email = e
    BY IdleIsFrame DEF Idle, Frame
  <2>2. FrameOK(g) /\ AloneOK(g) /\ g.pc \notin SyncSteps
    BY <2>1, NoneIsNone, StartOK
  <2> QED BY <1>1, <1>2, <2>1, <2>2, QuietOK DEF SignUp, GoTo
<1>3. CASE ChangeEmail(w, u, e)
  <2>1. h \in Frame /\ h.pc = "check" /\ h.key = u /\ h.email = e
    BY IdleIsFrame DEF Idle, Frame
  <2>2. FrameOK(h) /\ AloneOK(h) /\ h.pc \notin SyncSteps
    BY <1>3, <2>1, NoneIsNone, StartOK DEF ChangeEmail
  <2> QED BY <1>1, <1>3, <2>1, <2>2, QuietOK DEF ChangeEmail, GoTo
<1>4. CASE ChangeStatus(w, u, s)
  <2>1. i \in Frame /\ i.pc = "commit" /\ i.key = u /\ i.status = s
    BY IdleIsFrame DEF Idle, Frame
  <2>2. FrameOK(i) /\ AloneOK(i) /\ i.pc \notin SyncSteps
    BY <1>4, <2>1, NoneIsNone, StartOK DEF ChangeStatus
  <2> QED BY <1>1, <1>4, <2>1, <2>2, QuietOK DEF ChangeStatus, GoTo
<1>5. CASE FirstLogin(w, u, e, s)
  <2>1. j \in Frame /\ j.pc = "insert" /\ j.key = u /\ j.email = e /\ j.status = s
    BY IdleIsFrame DEF Idle, Frame
  <2>2. FrameOK(j) /\ AloneOK(j) /\ j.pc \notin SyncSteps
    BY <2>1, NoneIsNone, StartOK
  <2> QED BY <1>1, <1>5, <2>1, <2>2, QuietOK DEF FirstLogin, GoTo
<1> QED BY <1>2, <1>3, <1>4, <1>5

\* A request that gives up, or is cut short.
LEMMA GivesUpOK ==
  ASSUME IInv, NEW w \in Workers, GoTo(w, Idle),
         UNCHANGED <<member, approved, gitlab, token, owners, synced>>
  PROVE  IInv'
<1> PICK g : g = Idle
  OBVIOUS
<1>1. g \in Frame /\ FrameOK(g) /\ AloneOK(g) /\ g.pc \notin SyncSteps
  BY IdleIsFrame, IdleOK
<1> QED BY <1>1, QuietOK DEF GoTo

LEMMA CheckEmailOK == ASSUME IInv, NEW w \in Workers, CheckEmail(w) PROVE IInv'
<1> PICK f \in Frame : f = worker[w] /\ FrameOK(f)
  BY DEF IInv, TypeOK
<1> PICK g : g = [f EXCEPT !.pc = IF @ = "email" THEN "approve" ELSE "update"]
  OBVIOUS
<1>1. /\ f.pc \in {"email", "check"}
      /\ UNCHANGED <<member, approved, gitlab, token, owners, synced>>
      /\ GoTo(w, Idle) \/ GoTo(w, g)
  BY DEF CheckEmail
<1>2. /\ g \in Frame /\ g.pc \in {"approve", "update"} /\ g.key = f.key /\ g.email = f.email
      /\ g.pc = "update" => f.pc = "check"
  BY <1>1 DEF Frame
<1>3. FrameOK(g) /\ AloneOK(g) /\ g.pc \notin SyncSteps
  <2>1. g.key # None /\ g.email # None /\ (g.pc = "update" => member[g.key] # None)
    BY <1>1, <1>2 DEF FrameOK
  <2> QED BY <1>2, <2>1, StartOK
<1>4. CASE GoTo(w, Idle)
  BY <1>1, <1>4, GivesUpOK
<1>5. CASE GoTo(w, g)
  BY <1>1, <1>2, <1>3, <1>5, QuietOK DEF GoTo
<1> QED BY <1>1, <1>4, <1>5

LEMMA CheckApprovedOK == ASSUME IInv, NEW w \in Workers, CheckApproved(w) PROVE IInv'
<1> PICK f \in Frame : f = worker[w] /\ FrameOK(f)
  BY DEF IInv, TypeOK
<1> PICK s \in {"active", "suspended"} :
      s = IF \E entry \in approved : Approves(entry, f.email) THEN "active" ELSE "suspended"
  OBVIOUS
<1> PICK g : g = [f EXCEPT !.pc = "insert", !.status = s]
  OBVIOUS
<1>1. f.pc = "approve" /\ UNCHANGED <<member, approved, gitlab, token, owners, synced>> /\ GoTo(w, g)
  BY DEF CheckApproved, At
<1>2. g \in Frame /\ g.pc = "insert" /\ g.key = f.key /\ g.email = f.email /\ g.status = s
  BY DEF Frame
<1>3. g.key # None /\ g.email # None
  BY <1>1, <1>2 DEF FrameOK
<1>4. FrameOK(g) /\ AloneOK(g) /\ g.pc \notin SyncSteps
  BY <1>2, <1>3, NoneIsNone, StartOK
<1> QED BY <1>1, <1>2, <1>4, QuietOK DEF GoTo

LEMMA AskTokenOK ==
  ASSUME IInv, NEW w \in Workers, NEW u \in Usernames \cup {None}, NEW e \in Emails, AskToken(w, u, e)
  PROVE  IInv'
<1> PICK g : g = [Idle EXCEPT !.pc = "mint", !.key = u, !.email = e]
  OBVIOUS
<1>1. g \in Frame /\ g.pc = "mint" /\ g.key = u /\ g.email = e
  BY IdleIsFrame DEF Idle, Frame
<1>2. u # None => u \in owners[e]
  BY DEF AskToken, IInv, Owned
<1>3. FrameOK(g) /\ AloneOK(g) /\ g.pc \notin SyncSteps
  BY <1>1, <1>2, NoneIsNone DEF FrameOK, AloneOK, SyncSteps
<1> QED BY <1>1, <1>3, QuietOK DEF AskToken, GoTo

LEMMA CreateTokenOK == ASSUME IInv, NEW w \in Workers, CreateToken(w) PROVE IInv'
<1> PICK f \in Frame : f = worker[w] /\ FrameOK(f) /\ AloneOK(f)
  BY DEF IInv, TypeOK
<1> PICK g : g = [f EXCEPT !.pc = "record"]
  OBVIOUS
<1>1. /\ f.pc = "token" /\ GoTo(w, g)
      /\ UNCHANGED <<member, approved, gitlab, token, owners, synced>>
  BY DEF CreateToken, At
<1>2. /\ g \in Frame /\ g.pc = "record" /\ g.key = f.key /\ g.status = f.status
      /\ g.account = f.account /\ g.alone = f.alone
  BY DEF Frame, SyncSteps
<1>3. FrameOK(g) /\ AloneOK(g)
  BY <1>1, <1>2 DEF FrameOK, AloneOK, SyncSteps
<1>4. f.pc \in SyncSteps
  BY <1>1 DEF SyncSteps
<1> QED BY <1>1, <1>2, <1>3, <1>4, QuietOK DEF GoTo

-----------------------------------------------------------------------------

\* What a request holds on to stays: rows and accounts are never removed, and an
\* account keeps its username.
Grows ==
  /\ \A e \in Emails : owners[e] \subseteq owners'[e]
  /\ \A u \in Usernames : member[u] # None => member'[u] # None
  /\ \A a \in Accounts :
       gitlab[a] # None => gitlab'[a] # None /\ gitlab'[a].username = gitlab[a].username

LEMMA FrameStays ==
  ASSUME Grows, NEW f \in Frame, FrameOK(f)
  PROVE  FrameOK(f)'
<1>1. HandedOn => HandedOn'
  BY HandedOnStays DEF Grows
<1>2. ASSUME f.pc \in {"unblock", "block", "token", "record"}
      PROVE  f.account # None /\ AccountOf(f.account, f.key)'
  <2>1. f.account \in Accounts /\ AccountOf(f.account, f.key)
    BY <1>2 DEF Frame, FrameOK
  <2> QED BY <1>1, <1>2, <2>1, NoneIsNone DEF AccountOf, Grows
<1>3. f.pc \in {"update", "check", "commit"} \cup SyncSteps => member'[f.key] # None
  BY DEF FrameOK, Frame, Grows, SyncSteps
<1>4. f.pc \in {"create", "mint"} /\ f.key # None => f.key \in owners'[f.email]
  BY DEF FrameOK, Frame, Grows
<1> QED BY <1>2, <1>3, <1>4 DEF FrameOK

LEMMA AccountStays ==
  ASSUME Grows, NEW a \in Accounts, NEW u \in Usernames, AccountOf(a, u)
  PROVE  AccountOf(a, u)'
BY HandedOnStays DEF AccountOf, Grows

LEMMA AloneStays ==
  ASSUME NEW f \in Frame, AloneOK(f), HandedOn => HandedOn',
         f.pc \in SyncSteps =>
           /\ f.key \notin synced'
           /\ f.alone => member'[f.key].status = member[f.key].status
           /\ f.alone /\ f.pc \in {"token", "record"} /\ ~HandedOn =>
                gitlab'[f.account].blocked \in {gitlab[f.account].blocked, FALSE}
  PROVE  AloneOK(f)'
BY DEF AloneOK

\* No step but the commit of a status begins a change of status.
LEMMA ApartStays ==
  ASSUME IInv, NEW w \in Workers, NEW g \in Frame, worker' = [worker EXCEPT ![w] = g],
         g.pc \in SyncSteps =>
           worker[w].pc \in SyncSteps /\ g.key = worker[w].key /\ (g.alone => worker[w].alone)
  PROVE  /\ Apart'
         /\ \A x \in Workers : \A u \in Usernames : Syncing(x, u)' => Syncing(x, u)
         /\ worker' \in [Workers -> Frame] /\ worker'[w] = g
         /\ \A x \in Workers \ {w} : worker'[x] = worker[x]
<1>1. /\ worker' \in [Workers -> Frame] /\ worker'[w] = g
      /\ \A x \in Workers \ {w} : worker'[x] = worker[x]
  BY DEF IInv, TypeOK
<1>2. \A x \in Workers : \A u \in Usernames : Syncing(x, u)' => Syncing(x, u)
  BY <1>1 DEF Syncing
<1>3. Apart'
  <2> SUFFICES ASSUME NEW x \in Workers, worker'[x].alone, worker'[x].pc \in SyncSteps,
                      NEW y \in Workers \ {x}, Syncing(y, worker[x].key)'
               PROVE  FALSE
    BY DEF Apart
  <2>1. worker[x].alone /\ worker[x].pc \in SyncSteps /\ worker[x].key = worker'[x].key
    BY <1>1
  <2>2. Syncing(y, worker[x].key)
    BY <1>1, <2>1 DEF Syncing
  <2> QED BY <2>1, <2>2 DEF IInv, Apart
<1> QED BY <1>1, <1>2, <1>3

\* A step of w that writes: what is left to show is about the tables.
LEMMA WriteOK ==
  ASSUME IInv, NEW w \in Workers, NEW g \in Frame, worker' = [worker EXCEPT ![w] = g],
         g.pc \in SyncSteps =>
           worker[w].pc \in SyncSteps /\ g.key = worker[w].key /\ (g.alone => worker[w].alone),
         Grows, FrameOK(g)', AloneOK(g)',
         member' \in [Usernames -> Row \cup {None}], approved' \subseteq Approvable,
         gitlab' \in [Accounts -> Account \cup {None}], token' \in [Tokens -> Token \cup {None}],
         owners' \in [Emails -> SUBSET Usernames], synced' \subseteq Usernames,
         Owned', OneAccount', MembersOK', SyncedOK', AccountFollowsStatus',
         \A x \in Workers \ {w} : AloneOK(worker[x])'
  PROVE  IInv'
<1>1. /\ Apart'
      /\ worker' \in [Workers -> Frame] /\ worker'[w] = g
      /\ \A x \in Workers \ {w} : worker'[x] = worker[x]
  BY ApartStays
<1>2. TypeOK'
  BY <1>1 DEF TypeOK
<1>3. ASSUME NEW x \in Workers PROVE (FrameOK(worker[x]) /\ AloneOK(worker[x]))'
  <2>1. CASE x = w
    <3> PICK f : f = worker'[x]
      OBVIOUS
    <3>1. f = g
      BY <1>1, <2>1
    <3> QED BY <3>1
  <2>2. CASE x # w
    <3> PICK f \in Frame : f = worker[x] /\ FrameOK(f)
      BY DEF IInv, TypeOK
    <3>1. f = worker'[x]
      BY <1>1, <2>2
    <3>2. FrameOK(f)'
      BY FrameStays
    <3>3. AloneOK(worker[x])'
      BY <2>2
    <3> QED BY <3>1, <3>2, <3>3
  <2> QED BY <2>1, <2>2
<1> QED BY <1>1, <1>2, <1>3 DEF IInv

\* A table no frame is about.
LEMMA TablesOK ==
  ASSUME IInv, UNCHANGED <<member, gitlab, worker, owners, synced>>, approved' \subseteq Approvable,
         token' \in [Tokens -> Token \cup {None}],
         \A t \in Tokens :
           token'[t] # None /\ token'[t].maker # None => token'[t].maker \in owners[token'[t].email]
  PROVE  IInv'
<1>1. TypeOK'
  BY DEF IInv, TypeOK
<1>2. Owned' /\ OneAccount' /\ MembersOK'
  BY DEF IInv, Owned, OneAccount, MembersOK, AccountOf, HandedOn
<1>3. ASSUME NEW x \in Workers PROVE (FrameOK(worker[x]) /\ AloneOK(worker[x]))'
  <2> PICK f \in Frame : f = worker'[x] /\ FrameOK(f) /\ AloneOK(f)
    BY DEF IInv, TypeOK
  <2>1. FrameOK(f)' /\ AloneOK(f)'
    BY DEF FrameOK, AloneOK, AccountOf, HandedOn
  <2> QED BY <2>1
<1>4. Apart' /\ SyncedOK' /\ AccountFollowsStatus'
  BY DEF IInv, Apart, SyncedOK, Syncing, AccountFollowsStatus, HandedOn
<1> QED BY <1>1, <1>2, <1>3, <1>4 DEF IInv

LEMMA ApprovalOK ==
  ASSUME IInv, NEW entry \in Approvable, Approve(entry) \/ Disapprove(entry)
  PROVE  IInv'
<1>1. UNCHANGED <<member, gitlab, token, worker, owners, synced>> /\ approved' \subseteq Approvable
  BY DEF Approve, Disapprove, IInv, TypeOK
<1> QED BY <1>1, TablesOK DEF IInv, TypeOK, Owned

LEMMA DeactivateOK == ASSUME IInv, NEW t \in Tokens, Deactivate(t) PROVE IInv'
<1> PICK r : r = [token[t] EXCEPT !.active = FALSE]
  OBVIOUS
<1>1. /\ UNCHANGED <<member, approved, gitlab, worker, owners, synced>>
      /\ token' = [token EXCEPT ![t] = r] /\ token[t] # None
  BY DEF Deactivate
<1>2. r \in Token /\ r.maker = token[t].maker /\ r.email = token[t].email
  BY <1>1 DEF IInv, TypeOK, Token
<1>3. token' \in [Tokens -> Token \cup {None}]
  BY <1>1, <1>2 DEF IInv, TypeOK
<1>4. \A x \in Tokens :
        token'[x] # None /\ token'[x].maker # None => token'[x].maker \in owners[token'[x].email]
  BY <1>1, <1>2 DEF IInv, TypeOK, Owned
<1> QED BY <1>1, <1>3, <1>4, TablesOK DEF IInv, TypeOK

LEMMA AloneUnchanged ==
  ASSUME IInv, UNCHANGED <<gitlab, synced>>, HandedOn => HandedOn',
         \A u \in Usernames : member[u] # None => member'[u].status = member[u].status
  PROVE  \A x \in Workers : worker'[x] = worker[x] => AloneOK(worker[x])'
<1> SUFFICES ASSUME NEW x \in Workers, worker'[x] = worker[x] PROVE AloneOK(worker[x])'
  OBVIOUS
<1> PICK f \in Frame : f = worker[x] /\ FrameOK(f) /\ AloneOK(f)
  BY DEF IInv, TypeOK
<1>1. f.pc \in SyncSteps => f.key \in Usernames /\ member[f.key] # None /\ f.key \notin synced
  BY DEF FrameOK, AloneOK, Frame, SyncSteps
<1>2. AloneOK(f)'
  BY <1>1, AloneStays
<1> QED BY <1>2

LEMMA CreatePatOK == ASSUME IInv, NEW w \in Workers, NEW t \in Tokens, CreatePat(w, t) PROVE IInv'
<1> PICK f \in Frame : f = worker[w] /\ FrameOK(f)
  BY DEF IInv, TypeOK
<1> PICK g : g = Idle
  OBVIOUS
<1> PICK r : r = [email |-> f.email, maker |-> f.key, active |-> TRUE]
  OBVIOUS
<1>1. /\ f.pc = "mint" /\ token' = [token EXCEPT ![t] = r] /\ worker' = [worker EXCEPT ![w] = g]
      /\ UNCHANGED <<member, approved, gitlab, owners, synced>>
  BY DEF CreatePat, GoTo, At
<1>2. /\ g \in Frame /\ g.pc \notin SyncSteps
      /\ r \in Token /\ r.email = f.email /\ r.maker = f.key
      /\ r.maker # None => r.maker \in owners[r.email]
  BY <1>1, IdleIsFrame, IdleOK DEF FrameOK, Frame, Token
<1>3. Grows /\ HandedOn' = HandedOn
  BY <1>1 DEF Grows, HandedOn
<1>4. FrameOK(g)' /\ AloneOK(g)'
  BY IdleIsFrame DEF FrameOK, AloneOK, SyncSteps
<1>5. token' \in [Tokens -> Token \cup {None}]
  BY <1>1, <1>2 DEF IInv, TypeOK
<1>6. Owned'
  BY <1>1, <1>2 DEF IInv, TypeOK, Owned
<1>7. OneAccount' /\ MembersOK' /\ AccountFollowsStatus'
  BY <1>1, <1>3 DEF IInv, OneAccount, MembersOK, AccountOf, AccountFollowsStatus
<1>8. SyncedOK'
  <2>1. \A x \in Workers : \A u \in Usernames : Syncing(x, u)' => Syncing(x, u)
    BY <1>1, <1>2, ApartStays
  <2> QED BY <1>1, <2>1 DEF IInv, TypeOK, SyncedOK
<1>9. \A x \in Workers \ {w} : AloneOK(worker[x])'
  BY <1>1, <1>3, AloneUnchanged DEF IInv, TypeOK
<1> QED BY <1>1, <1>2, <1>3, <1>4, <1>5, <1>6, <1>7, <1>8, <1>9, WriteOK DEF IInv, TypeOK

LEMMA InsertOK == ASSUME IInv, NEW w \in Workers, Insert(w) PROVE IInv'
<1> PICK f \in Frame : f = worker[w] /\ FrameOK(f)
  BY DEF IInv, TypeOK
<1>1. CASE UNCHANGED <<member, owners>>
  BY <1>1, GivesUpOK DEF Insert
<1>2. CASE /\ member[f.key] = None
           /\ member' = [member EXCEPT ![f.key] =
                           [email |-> f.email, status |-> f.status, gitlab |-> None]]
           /\ Own(f.key, f.email)
  <2> PICK g : g = Idle
    OBVIOUS
  <2> PICK r : r = [email |-> f.email, status |-> f.status, gitlab |-> None]
    OBVIOUS
  <2>1. /\ f.pc = "insert" /\ worker' = [worker EXCEPT ![w] = g]
        /\ member' = [member EXCEPT ![f.key] = r] /\ member[f.key] = None
        /\ UNCHANGED <<approved, gitlab, token, synced>>
    BY <1>2 DEF Insert, GoTo, At
  <2>2. f.key \in Usernames /\ f.email \in Emails /\ f.status \in {"active", "suspended"}
    BY <2>1 DEF FrameOK, Frame
  <2>3. /\ g \in Frame /\ g.pc \notin SyncSteps
        /\ r \in Row /\ r.email = f.email /\ r.gitlab = None /\ r # None
    BY <2>2, IdleIsFrame, IdleOK, NoneIsNone DEF Row
  <2>4. member' \in [Usernames -> Row \cup {None}] /\ member'[f.key] = r
        /\ \A u \in Usernames \ {f.key} : member'[u] = member[u]
    BY <2>1, <2>2, <2>3 DEF IInv, TypeOK
  <2>5. /\ owners' \in [Emails -> SUBSET Usernames] /\ f.key \in owners'[f.email]
        /\ \A e \in Emails : owners[e] \subseteq owners'[e]
    BY <1>2, <2>2 DEF Own, IInv, TypeOK
  <2>6. Grows /\ (HandedOn => HandedOn')
    BY <2>1, <2>3, <2>4, <2>5, HandedOnStays DEF Grows
  <2>7. FrameOK(g)' /\ AloneOK(g)'
    BY IdleIsFrame DEF FrameOK, AloneOK, SyncSteps
  <2>8. Owned'
    <3>1. \A u \in Usernames : member'[u] # None => u \in owners'[member'[u].email]
      BY <2>2, <2>3, <2>4, <2>5 DEF IInv, TypeOK, Owned, Row
    <3>2. \A a \in Accounts : gitlab'[a] # None => gitlab'[a].username \in owners'[gitlab'[a].email]
      BY <2>1, <2>5 DEF IInv, TypeOK, Owned, Account
    <3>3. \A t \in Tokens :
            token'[t] # None /\ token'[t].maker # None => token'[t].maker \in owners'[token'[t].email]
      BY <2>1, <2>5 DEF IInv, TypeOK, Owned, Token
    <3> QED BY <3>1, <3>2, <3>3 DEF Owned
  <2>9. OneAccount'
    BY <2>1 DEF IInv, OneAccount
  <2>10. MembersOK'
    <3> SUFFICES ASSUME NEW u \in Usernames, member'[u] # None, member'[u].gitlab # None
                 PROVE  AccountOf(member[u].gitlab, u)'
      BY DEF MembersOK
    <3>1. u # f.key /\ member'[u] = member[u]
      BY <2>3, <2>4
    <3> PICK a : a = member[u].gitlab
      OBVIOUS
    <3>2. a \in Accounts /\ AccountOf(a, u) /\ a = member'[u].gitlab
      BY <3>1 DEF IInv, TypeOK, MembersOK, Row
    <3>3. AccountOf(a, u)'
      BY <2>6, <3>2, AccountStays
    <3> QED BY <3>2, <3>3
  <2>11. SyncedOK'
    <3>1. \A x \in Workers : \A u \in Usernames : Syncing(x, u)' => Syncing(x, u)
      BY <2>1, <2>3, ApartStays
    <3> QED BY <2>1, <2>4, <2>3, <3>1 DEF IInv, TypeOK, SyncedOK
  <2>12. AccountFollowsStatus'
    <3>1. \A u \in synced : u \in Usernames /\ member'[u] = member[u]
      BY <2>1, <2>4 DEF IInv, TypeOK, SyncedOK
    <3> QED BY <2>1, <2>6, <3>1 DEF IInv, AccountFollowsStatus
  <2>13. \A x \in Workers \ {w} : AloneOK(worker[x])'
    <3>1. \A u \in Usernames : member[u] # None => member'[u].status = member[u].status
      BY <2>1, <2>4
    <3> QED BY <2>1, <2>6, <3>1, AloneUnchanged DEF IInv, TypeOK
  <2> QED BY <2>1, <2>3, <2>4, <2>5, <2>6, <2>7, <2>8, <2>9, <2>10, <2>11, <2>12, <2>13, WriteOK
          DEF IInv, TypeOK
<1>3. \/ UNCHANGED <<member, owners>>
      \/ /\ member[f.key] = None
         /\ member' = [member EXCEPT ![f.key] = [email |-> f.email, status |-> f.status, gitlab |-> None]]
         /\ Own(f.key, f.email)
  BY DEF Insert
<1> QED BY <1>1, <1>2, <1>3

LEMMA UpdateOK == ASSUME IInv, NEW w \in Workers, Update(w) PROVE IInv'
<1> PICK f \in Frame : f = worker[w] /\ FrameOK(f)
  BY DEF IInv, TypeOK
<1>1. CASE UNCHANGED <<member, owners>>
  BY <1>1, GivesUpOK DEF Update
<1>2. CASE member' = [member EXCEPT ![f.key].email = f.email] /\ Own(f.key, f.email)
  <2> PICK g : g = Idle
    OBVIOUS
  <2> PICK r : r = [member[f.key] EXCEPT !.email = f.email]
    OBVIOUS
  <2>1. /\ f.pc = "update" /\ worker' = [worker EXCEPT ![w] = g]
        /\ member' = [member EXCEPT ![f.key] = r]
        /\ UNCHANGED <<approved, gitlab, token, synced>>
    BY <1>2 DEF Update, GoTo, At
  <2>2. f.key \in Usernames /\ f.email \in Emails /\ member[f.key] \in Row
    BY <2>1 DEF FrameOK, Frame, IInv, TypeOK
  <2>3. /\ g \in Frame /\ g.pc \notin SyncSteps
        /\ r \in Row /\ r.email = f.email /\ r.gitlab = member[f.key].gitlab
        /\ r.status = member[f.key].status /\ r # None /\ member[f.key] # None
    BY <2>2, IdleIsFrame, IdleOK, NoneIsNone DEF Row
  <2>4. member' \in [Usernames -> Row \cup {None}] /\ member'[f.key] = r
        /\ \A u \in Usernames \ {f.key} : member'[u] = member[u]
    BY <2>1, <2>2, <2>3 DEF IInv, TypeOK
  <2>5. /\ owners' \in [Emails -> SUBSET Usernames] /\ f.key \in owners'[f.email]
        /\ \A e \in Emails : owners[e] \subseteq owners'[e]
    BY <1>2, <2>2 DEF Own, IInv, TypeOK
  <2>6. Grows /\ (HandedOn => HandedOn')
    BY <2>1, <2>3, <2>4, <2>5, HandedOnStays DEF Grows
  <2>7. FrameOK(g)' /\ AloneOK(g)'
    BY IdleIsFrame DEF FrameOK, AloneOK, SyncSteps
  <2>8. Owned'
    <3>1. \A u \in Usernames : member'[u] # None => u \in owners'[member'[u].email]
      BY <2>2, <2>3, <2>4, <2>5 DEF IInv, TypeOK, Owned, Row
    <3>2. \A a \in Accounts : gitlab'[a] # None => gitlab'[a].username \in owners'[gitlab'[a].email]
      BY <2>1, <2>5 DEF IInv, TypeOK, Owned, Account
    <3>3. \A t \in Tokens :
            token'[t] # None /\ token'[t].maker # None => token'[t].maker \in owners'[token'[t].email]
      BY <2>1, <2>5 DEF IInv, TypeOK, Owned, Token
    <3> QED BY <3>1, <3>2, <3>3 DEF Owned
  <2>9. OneAccount'
    BY <2>1 DEF IInv, OneAccount
  <2>10. \A u \in Usernames : member'[u] # None => member[u] # None
           /\ member'[u].gitlab = member[u].gitlab /\ member'[u].status = member[u].status
    BY <2>3, <2>4
  <2>11. MembersOK'
    <3> SUFFICES ASSUME NEW u \in Usernames, member'[u] # None, member'[u].gitlab # None
                 PROVE  AccountOf(member[u].gitlab, u)'
      BY DEF MembersOK
    <3> PICK a : a = member[u].gitlab
      OBVIOUS
    <3>1. a \in Accounts /\ AccountOf(a, u) /\ a = member'[u].gitlab
      BY <2>10 DEF IInv, TypeOK, MembersOK, Row
    <3>2. AccountOf(a, u)'
      BY <2>6, <3>1, AccountStays
    <3> QED BY <3>1, <3>2
  <2>12. SyncedOK'
    <3>1. \A x \in Workers : \A u \in Usernames : Syncing(x, u)' => Syncing(x, u)
      BY <2>1, <2>3, ApartStays
    <3> QED BY <2>1, <2>6, <3>1 DEF IInv, TypeOK, SyncedOK, Grows
  <2>13. AccountFollowsStatus'
    <3>1. \A u \in synced : u \in Usernames /\ member'[u].gitlab = member[u].gitlab
                              /\ member'[u].status = member[u].status
      BY <2>4, <2>3 DEF IInv, TypeOK
    <3> QED BY <2>1, <2>6, <3>1 DEF IInv, AccountFollowsStatus
  <2>14. \A x \in Workers \ {w} : AloneOK(worker[x])'
    <3>1. \A u \in Usernames : member[u] # None => member'[u].status = member[u].status
      BY <2>3, <2>4
    <3> QED BY <2>1, <2>6, <3>1, AloneUnchanged DEF IInv, TypeOK
  <2> QED BY <2>1, <2>3, <2>4, <2>5, <2>6, <2>7, <2>8, <2>9, <2>11, <2>12, <2>13, <2>14, WriteOK
          DEF IInv, TypeOK
<1> QED BY <1>1, <1>2 DEF Update

-----------------------------------------------------------------------------

\* What get_gitlab_user finds is the member's own, unless an email was handed on.
LEMMA FoundIsOwn ==
  ASSUME IInv, NEW u \in Usernames, member[u] # None, NEW a \in GitlabUser(u, member[u].email)
  PROVE  a \in Accounts /\ AccountOf(a, u)
<1>1. a \in Accounts /\ gitlab[a] # None
  BY DEF GitlabUser
<1>2. gitlab[a].username = u \/ gitlab[a].email = member[u].email
  BY DEF GitlabUser
<1>3. u \in owners[member[u].email] /\ gitlab[a].username \in owners[gitlab[a].email]
  BY <1>1 DEF IInv, Owned
<1>4. gitlab[a].email \in Emails
  BY <1>1 DEF IInv, TypeOK, Account
<1> QED BY <1>1, <1>2, <1>3, <1>4 DEF AccountOf, HandedOn

\* The member w is about has a change of status that came to its end.
LEMMA DoneOK ==
  ASSUME IInv, NEW w \in Workers, NEW f \in Frame, f = worker[w], f.pc \in SyncSteps, Done(w)
  PROVE  /\ worker' = [worker EXCEPT ![w] = Idle]
         /\ synced' \subseteq Usernames
         /\ f.key \in Usernames /\ member[f.key] # None /\ FrameOK(f) /\ AloneOK(f)
         /\ \A u \in synced' : u \in synced \/ (u = f.key /\ f.alone)
         /\ \A u \in synced' : \A x \in Workers : ~Syncing(x, u)'
         /\ \A x \in Workers \ {w} : worker[x].pc \in SyncSteps => worker[x].key \notin synced'
         /\ FrameOK(Idle)' /\ AloneOK(Idle)'
<1>1. worker' = [worker EXCEPT ![w] = Idle]
  BY DEF Done, GoTo
<1>2. f.key \in Usernames /\ member[f.key] # None /\ FrameOK(f) /\ AloneOK(f)
  BY DEF IInv, FrameOK, Frame, SyncSteps
<1>3. synced' = IF f.alone THEN synced \cup {f.key} ELSE synced
  BY DEF Done
<1>4. synced' \subseteq Usernames /\ \A u \in synced' : u \in synced \/ (u = f.key /\ f.alone)
  BY <1>2, <1>3 DEF IInv, TypeOK
<1>5. ASSUME NEW u \in synced', NEW x \in Workers \ {w} PROVE ~Syncing(x, u)
  BY <1>4, <1>5 DEF IInv, SyncedOK, Apart
<1>6. \A x \in Workers \ {w} : worker'[x] = worker[x]
  BY <1>1 DEF IInv, TypeOK
<1>7. ~(worker'[w].pc \in SyncSteps)
  BY <1>1, IdleOK DEF IInv, TypeOK
<1>8. \A u \in synced' : \A x \in Workers : ~Syncing(x, u)'
  BY <1>5, <1>6, <1>7 DEF Syncing
<1>9. \A x \in Workers \ {w} : worker[x].pc \in SyncSteps => worker[x].key \notin synced'
  BY <1>5 DEF Syncing
<1>10. FrameOK(Idle)' /\ AloneOK(Idle)'
  <2> PICK g : g = Idle
    OBVIOUS
  <2>1. FrameOK(g)' /\ AloneOK(g)'
    BY IdleIsFrame DEF FrameOK, AloneOK, SyncSteps
  <2> QED BY <2>1 DEF Idle
<1> QED BY <1>1, <1>2, <1>4, <1>8, <1>9, <1>10

LEMMA FindAccountOK == ASSUME IInv, NEW w \in Workers, FindAccount(w) PROVE IInv'
<1> PICK f \in Frame : f = worker[w] /\ FrameOK(f) /\ AloneOK(f)
  BY DEF IInv, TypeOK
<1> PICK u : u = f.key
  OBVIOUS
<1> PICK e : e = member[u].email
  OBVIOUS
<1>1. f.pc = "find" /\ UNCHANGED <<member, approved, gitlab, token, owners>>
  BY DEF FindAccount, At
<1>2. /\ f.pc \in SyncSteps /\ u \in Usernames /\ member[u] # None
      /\ f.status \in {"active", "suspended"} /\ e \in Emails /\ u \in owners[e]
  <2>1. f.pc \in SyncSteps
    BY <1>1 DEF SyncSteps
  <2>2. u \in Usernames /\ member[u] # None /\ f.status \in {"active", "suspended"}
    BY <2>1 DEF FrameOK, Frame, SyncSteps
  <2>3. e \in Emails
    BY <2>2 DEF IInv, TypeOK, Row
  <2>4. u \in owners[e]
    BY <2>2 DEF IInv, Owned
  <2> QED BY <2>1, <2>2, <2>3, <2>4
<1>3. CASE f.status = "active" /\ synced' = synced /\ GoTo(w, [f EXCEPT !.pc = "create", !.email = e])
  <2> PICK g : g = [f EXCEPT !.pc = "create", !.email = e]
    OBVIOUS
  <2>1. /\ g \in Frame /\ g.pc = "create" /\ g.key = u /\ g.email = e /\ g.status = "active"
        /\ g.alone = f.alone
    BY <1>2, <1>3 DEF Frame, SyncSteps
  <2>2. FrameOK(g) /\ AloneOK(g)
    BY <1>2, <1>3, <2>1, NoneIsNone DEF FrameOK, AloneOK, SyncSteps
  <2> QED BY <1>1, <1>2, <1>3, <2>1, <2>2, QuietOK DEF GoTo
<1>4. CASE GitlabUser(u, e) = {} /\ f.status = "suspended" /\ Done(w)
  <2> PICK g : g = Idle
    OBVIOUS
  <2>1. /\ worker' = [worker EXCEPT ![w] = g] /\ g \in Frame /\ g.pc \notin SyncSteps
        /\ synced' \subseteq Usernames
        /\ \A v \in synced' : v \in synced \/ (v = u /\ f.alone)
        /\ \A v \in synced' : \A x \in Workers : ~Syncing(x, v)'
        /\ \A x \in Workers \ {w} : worker[x].pc \in SyncSteps => worker[x].key \notin synced'
    BY <1>2, <1>4, DoneOK, IdleIsFrame, IdleOK
  <2>2. FrameOK(g)' /\ AloneOK(g)'
    BY IdleIsFrame DEF FrameOK, AloneOK, SyncSteps
  <2>3. Grows /\ HandedOn' = HandedOn
    BY <1>1 DEF Grows, HandedOn
  <2>4. Owned' /\ OneAccount' /\ MembersOK'
    BY <1>1, <2>3 DEF IInv, Owned, OneAccount, MembersOK, AccountOf
  <2>5. SyncedOK'
    BY <1>1, <1>2, <2>1 DEF IInv, SyncedOK
  <2>6. AccountFollowsStatus'
    <3>1. \A a \in Accounts : gitlab[a] # None => gitlab[a].username # u
      BY <1>4 DEF GitlabUser
    <3>2. f.alone => member[u].status = "suspended"
      BY <1>2, <1>4 DEF AloneOK
    <3> QED BY <1>1, <2>1, <2>3, <3>1, <3>2 DEF IInv, AccountFollowsStatus
  <2>7. \A x \in Workers \ {w} : AloneOK(worker[x])'
    <3> SUFFICES ASSUME NEW x \in Workers \ {w} PROVE AloneOK(worker[x])'
      OBVIOUS
    <3> PICK h \in Frame : h = worker[x] /\ AloneOK(h)
      BY DEF IInv, TypeOK
    <3>1. h = worker'[x]
      BY <2>1 DEF IInv, TypeOK
    <3>2. AloneOK(h)'
      BY <1>1, <2>1, <2>3, AloneStays
    <3> QED BY <3>1, <3>2
  <2> QED BY <1>1, <2>1, <2>2, <2>3, <2>4, <2>5, <2>6, <2>7, WriteOK DEF IInv, TypeOK
<1>5. CASE /\ \E a \in GitlabUser(u, e) :
                GoTo(w, [f EXCEPT !.pc = IF f.status = "active" THEN "unblock" ELSE "block", !.account = a])
           /\ synced' = synced
  <2> PICK a \in GitlabUser(u, e) :
        GoTo(w, [f EXCEPT !.pc = IF f.status = "active" THEN "unblock" ELSE "block", !.account = a])
    BY <1>5
  <2> PICK g : g = [f EXCEPT !.pc = IF f.status = "active" THEN "unblock" ELSE "block", !.account = a]
    OBVIOUS
  <2>1. a \in Accounts /\ AccountOf(a, u)
    BY <1>2, FoundIsOwn
  <2>2. /\ g \in Frame /\ g.pc = (IF f.status = "active" THEN "unblock" ELSE "block")
        /\ g.key = u /\ g.account = a /\ g.status = f.status /\ g.alone = f.alone
    BY <2>1 DEF Frame, SyncSteps
  <2>3. FrameOK(g) /\ AloneOK(g)
    BY <1>2, <2>1, <2>2, NoneIsNone DEF FrameOK, AloneOK, SyncSteps
  <2>4. worker' = [worker EXCEPT ![w] = g]
    BY DEF GoTo
  <2> QED BY <1>1, <1>2, <1>5, <2>2, <2>3, <2>4, QuietOK
<1> QED BY <1>2, <1>3, <1>4, <1>5 DEF FindAccount

LEMMA CommitStatusOK == ASSUME IInv, NEW w \in Workers, CommitStatus(w) PROVE IInv'
<1> PICK f \in Frame : f = worker[w] /\ FrameOK(f)
  BY DEF IInv, TypeOK
<1> PICK u : u = f.key
  OBVIOUS
<1> PICK others : others = {x \in Workers \ {w} : Syncing(x, u)}
  OBVIOUS
<1> PICK g : g = [f EXCEPT !.pc = "find", !.alone = (others = {})]
  OBVIOUS
<1> PICK r : r = [member[u] EXCEPT !.status = f.status]
  OBVIOUS
<1>1. /\ f.pc = "commit" /\ member' = [member EXCEPT ![u] = r] /\ synced' = synced \ {u}
      /\ UNCHANGED <<approved, gitlab, token, owners>>
  BY DEF CommitStatus, At
<1>w. worker' = [x \in Workers |->
           CASE x = w -> g
             [] x \in others -> [worker[x] EXCEPT !.alone = FALSE]
             [] OTHER -> worker[x]]
  BY DEF CommitStatus
<1>2. u \in Usernames /\ member[u] \in Row /\ f.status \in {"active", "suspended"}
  BY <1>1 DEF FrameOK, Frame, IInv, TypeOK
<1>3. /\ r \in Row /\ r # None /\ r.email = member[u].email /\ r.gitlab = member[u].gitlab
      /\ r.status = f.status /\ member[u] # None
  BY <1>2, NoneIsNone DEF Row
<1>4. /\ member' \in [Usernames -> Row \cup {None}] /\ member'[u] = r
      /\ \A v \in Usernames \ {u} : member'[v] = member[v]
  BY <1>1, <1>2, <1>3 DEF IInv, TypeOK
<1>5. Grows /\ (HandedOn <=> HandedOn')
  <2>1. Grows
    BY <1>1, <1>3, <1>4 DEF Grows
  <2>2. HandedOn <=> HandedOn'
    BY <1>1 DEF HandedOn
  <2> QED BY <2>1, <2>2
<1>6. /\ g \in Frame /\ g.pc = "find" /\ g.key = u /\ g.status = f.status
      /\ g.alone = (others = {})
  BY DEF Frame, SyncSteps
<1>7. worker'[w] = g
  BY <1>w
<1>8. ASSUME NEW x \in Workers \ {w}
      PROVE  \E h \in Frame : /\ worker'[x] = h /\ h.pc = worker[x].pc /\ h.key = worker[x].key
                              /\ h.email = worker[x].email /\ h.status = worker[x].status
                              /\ h.account = worker[x].account
                              /\ h.alone => worker[x].alone /\ x \notin others
                              /\ FrameOK(h)'
  <2> PICK k \in Frame : k = worker[x] /\ FrameOK(k)
    BY DEF IInv, TypeOK
  <2> PICK h : h = IF x \in others THEN [k EXCEPT !.alone = FALSE] ELSE k
    OBVIOUS
  <2>1. /\ h \in Frame /\ h.pc = k.pc /\ h.key = k.key /\ h.email = k.email
        /\ h.status = k.status /\ h.account = k.account /\ (h.alone => k.alone /\ x \notin others)
    <3>1. CASE x \in others
      <4>1. h = [k EXCEPT !.alone = FALSE]
        BY <3>1
      <4> QED BY <4>1 DEF Frame
    <3>2. CASE x \notin others
      <4>1. h = k
        BY <3>2
      <4> QED BY <3>2, <4>1
    <3> QED BY <3>1, <3>2
  <2>2. worker'[x] = h
    BY <1>w, <1>8
  <2>3. FrameOK(h)
    BY <2>1 DEF FrameOK
  <2>4. FrameOK(h)'
    BY <1>5, <2>1, <2>3, FrameStays
  <2> QED BY <2>1, <2>2, <2>4
<1>k. worker'[w].key = u
  BY <1>6, <1>7
<1>s. \A x \in Workers \ {w} :
        /\ worker'[x].pc = worker[x].pc /\ worker'[x].key = worker[x].key
        /\ worker'[x].alone => worker[x].alone /\ x \notin others
  BY <1>8
<1>9. TypeOK'
  <2>1. worker' \in [Workers -> Frame]
    <3>1. \A x \in Workers : worker'[x] \in Frame
      BY <1>6, <1>7, <1>8
    <3>2. worker' = [x \in Workers |-> worker'[x]]
      BY <1>w
    <3> QED BY <3>1, <3>2
  <2> QED BY <1>1, <1>4, <2>1 DEF IInv, TypeOK
<1>10. Owned' /\ OneAccount'
  BY <1>1, <1>3, <1>4 DEF IInv, Owned, OneAccount
<1>11. MembersOK'
  <2>1. \A v \in Usernames : member'[v] # None => member[v] # None /\ member'[v].gitlab = member[v].gitlab
    BY <1>3, <1>4
  <2> QED BY <1>1, <1>5, <2>1 DEF IInv, MembersOK, AccountOf
<1>12. ASSUME NEW x \in Workers PROVE (FrameOK(worker[x]) /\ AloneOK(worker[x]))'
  <2>1. CASE x = w
    <3>1. FrameOK(g)'
      BY <1>2, <1>3, <1>4, <1>6, NoneIsNone DEF FrameOK, SyncSteps
    <3>2. AloneOK(g)'
      BY <1>1, <1>3, <1>4, <1>6 DEF AloneOK
    <3> QED BY <1>7, <2>1, <3>1, <3>2
  <2>2. CASE x # w
    <3> PICK k \in Frame : k = worker[x] /\ FrameOK(k) /\ AloneOK(k)
      BY DEF IInv, TypeOK
    <3> PICK h \in Frame :
          /\ worker'[x] = h /\ h.pc = k.pc /\ h.key = k.key
          /\ h.status = k.status /\ h.account = k.account
          /\ h.alone => k.alone /\ x \notin others
          /\ FrameOK(h)'
      BY <1>8, <2>2
    <3>1. h.pc \in SyncSteps => h.key \notin synced' /\ h.key \in Usernames
      BY <1>1 DEF AloneOK, FrameOK, Frame, SyncSteps
    <3>2. h.pc \in SyncSteps /\ h.alone => h.key # u
      BY <2>2 DEF Syncing
    <3>3. h.pc \in SyncSteps /\ h.alone => member'[h.key].status = h.status
      BY <1>4, <3>1, <3>2 DEF AloneOK
    <3>4. AloneOK(h)'
      BY <1>1, <1>5, <3>1, <3>3 DEF AloneOK
    <3> QED BY <3>4
  <2> QED BY <2>1, <2>2
<1>13. Apart'
  <2> SUFFICES ASSUME NEW x \in Workers, worker'[x].alone, worker'[x].pc \in SyncSteps,
                      NEW y \in Workers \ {x}, Syncing(y, worker[x].key)'
               PROVE  FALSE
    BY DEF Apart
  <2>1. worker'[y].key = worker'[x].key /\ worker'[y].pc \in SyncSteps
    BY DEF Syncing
  <2>2. CASE x = w
    <3>1. worker[y].key = u /\ worker[y].pc \in SyncSteps
      BY <1>6, <1>7, <1>s, <2>1, <2>2
    <3>2. y \in others
      BY <2>2, <3>1 DEF Syncing
    <3> QED BY <1>6, <1>7, <2>2, <3>2
  <2>3. CASE x # w
    <3>1. worker[x].alone /\ worker[x].pc \in SyncSteps /\ x \notin others /\ worker[x].key = worker'[x].key
      BY <1>s, <2>3
    <3>2. worker[x].key # u
      BY <2>3, <3>1 DEF Syncing
    <3>3. y # w
      BY <1>k, <2>1, <3>1, <3>2
    <3>4. Syncing(y, worker[x].key)
      BY <1>s, <2>1, <3>1, <3>3 DEF Syncing
    <3> QED BY <3>1, <3>4 DEF IInv, Apart
  <2> QED BY <2>2, <2>3
<1>14. SyncedOK'
  <2> SUFFICES ASSUME NEW v \in synced' PROVE (member[v] # None)' /\ \A x \in Workers : ~Syncing(x, v)'
    BY DEF SyncedOK
  <2>1. v \in synced /\ v # u /\ v \in Usernames
    BY <1>1 DEF IInv, TypeOK
  <2>2. member'[v] # None
    BY <1>4, <2>1 DEF IInv, SyncedOK
  <2>3. \A x \in Workers : worker'[x].key = v /\ worker'[x].pc \in SyncSteps => Syncing(x, v)
    BY <1>k, <1>s, <2>1 DEF Syncing
  <2>4. \A x \in Workers : ~Syncing(x, v)'
    BY <2>1, <2>3 DEF IInv, SyncedOK, Syncing
  <2> QED BY <2>2, <2>4
<1>15. AccountFollowsStatus'
  <2>1. \A v \in synced' : v \in synced /\ v \in Usernames /\ member'[v] = member[v]
    BY <1>1, <1>4 DEF IInv, TypeOK
  <2> QED BY <1>1, <1>5, <2>1 DEF IInv, AccountFollowsStatus
<1> QED BY <1>9, <1>10, <1>11, <1>12, <1>13, <1>14, <1>15 DEF IInv

-----------------------------------------------------------------------------

LEMMA CreateAccountOK == ASSUME IInv, NEW w \in Workers, NEW a \in Accounts, CreateAccount(w, a) PROVE IInv'
<1> PICK f \in Frame : f = worker[w] /\ FrameOK(f) /\ AloneOK(f)
  BY DEF IInv, TypeOK
<1> PICK g : g = [f EXCEPT !.pc = "token", !.account = a]
  OBVIOUS
<1> PICK r : r = [username |-> f.key, email |-> f.email, blocked |-> FALSE]
  OBVIOUS
<1>1. /\ f.pc = "create" /\ gitlab[a] = None
      /\ \A b \in Accounts :
           gitlab[b] # None => gitlab[b].username # f.key /\ gitlab[b].email # f.email
      /\ gitlab' = [gitlab EXCEPT ![a] = r] /\ worker' = [worker EXCEPT ![w] = g]
      /\ UNCHANGED <<member, approved, token, owners, synced>>
  BY DEF CreateAccount, GoTo, At
<1>2. /\ f.pc \in SyncSteps /\ f.key \in Usernames /\ f.email \in Emails /\ f.key \notin synced
      /\ member[f.key] # None /\ f.status = "active" /\ f.key \in owners[f.email]
      /\ f.alone => member[f.key].status = f.status
  BY <1>1 DEF FrameOK, AloneOK, Frame, SyncSteps
<1>3. /\ r \in Account /\ r.username = f.key /\ r.email = f.email /\ r.blocked = FALSE /\ r # None
  <2>1. r \in Account /\ r.username = f.key /\ r.email = f.email
    BY <1>2 DEF Account
  <2>2. r.blocked = FALSE
    OBVIOUS
  <2> QED BY <2>1, <2>2, NoneIsNone
<1>4. /\ gitlab' \in [Accounts -> Account \cup {None}] /\ gitlab'[a] = r
      /\ \A b \in Accounts \ {a} : gitlab'[b] = gitlab[b]
  BY <1>1, <1>3 DEF IInv, TypeOK
<1>5. Grows
  BY <1>1, <1>4 DEF Grows
<1>6. HandedOn <=> HandedOn'
  BY <1>1 DEF HandedOn
<1>7. /\ g \in Frame /\ g.pc = "token" /\ g.key = f.key /\ g.status = f.status
      /\ g.account = a /\ g.alone = f.alone
  BY DEF Frame, SyncSteps
<1>8. FrameOK(g)'
  BY <1>1, <1>2, <1>3, <1>4, <1>7, NoneIsNone DEF FrameOK, AccountOf, SyncSteps
<1>9. AloneOK(g)'
  BY <1>1, <1>2, <1>3, <1>4, <1>7 DEF AloneOK
<1>10. Owned'
  BY <1>1, <1>2, <1>3, <1>4 DEF IInv, Owned
<1>11. OneAccount'
  BY <1>1, <1>3, <1>4 DEF IInv, OneAccount
<1>12. MembersOK'
  <2> SUFFICES ASSUME NEW u \in Usernames, member[u] # None, member[u].gitlab # None
               PROVE  AccountOf(member[u].gitlab, u)'
    BY <1>1 DEF MembersOK
  <2> PICK b \in Accounts : b = member[u].gitlab /\ AccountOf(b, u)
    BY DEF IInv, TypeOK, MembersOK, Row
  <2>1. AccountOf(b, u)' /\ b = member'[u].gitlab
    BY <1>1, <1>5, AccountStays
  <2> QED BY <2>1
<1>13. SyncedOK'
  <2>1. \A x \in Workers : \A u \in Usernames : Syncing(x, u)' => Syncing(x, u)
    BY <1>1, <1>2, <1>7, ApartStays
  <2> QED BY <1>1, <2>1 DEF IInv, TypeOK, SyncedOK
<1>14. AccountFollowsStatus'
  <2> SUFFICES ASSUME ~HandedOn, NEW u \in synced
               PROVE  (/\ member[u].status = "active" =>
                            member[u].gitlab # None /\ ~gitlab[member[u].gitlab].blocked
                       /\ member[u].status = "suspended" =>
                            \A b \in Accounts : gitlab[b] # None /\ gitlab[b].username = u => gitlab[b].blocked)'
    BY <1>1, <1>6 DEF AccountFollowsStatus
  <2>1. u \in Usernames /\ u # f.key /\ member[u] # None /\ member'[u] = member[u]
    BY <1>1, <1>2 DEF IInv, TypeOK, SyncedOK
  <2>2. member[u].gitlab # None => member[u].gitlab \in Accounts /\ gitlab[member[u].gitlab] # None
    BY <2>1 DEF IInv, TypeOK, Row, MembersOK, AccountOf
  <2> QED BY <1>1, <1>3, <1>4, <2>1, <2>2 DEF IInv, AccountFollowsStatus
<1>15. \A x \in Workers \ {w} : AloneOK(worker[x])'
  <2> SUFFICES ASSUME NEW x \in Workers \ {w} PROVE AloneOK(worker[x])'
    OBVIOUS
  <2> PICK h \in Frame : h = worker[x] /\ FrameOK(h) /\ AloneOK(h)
    BY DEF IInv, TypeOK
  <2>1. h = worker'[x]
    BY <1>1 DEF IInv, TypeOK
  <2>2. h.pc \in {"token", "record"} => h.account \in Accounts /\ h.account # a
    BY <1>1 DEF FrameOK, Frame, AccountOf
  <2>3. AloneOK(h)'
    BY <1>1, <1>4, <1>6, <2>2 DEF AloneOK
  <2> QED BY <2>1, <2>3
<1>16. /\ member' \in [Usernames -> Row \cup {None}] /\ approved' \subseteq Approvable
       /\ token' \in [Tokens -> Token \cup {None}]
       /\ owners' \in [Emails -> SUBSET Usernames] /\ synced' \subseteq Usernames
  BY <1>1 DEF IInv, TypeOK
<1> QED BY <1>1, <1>2, <1>4, <1>5, <1>7, <1>8, <1>9, <1>10, <1>11, <1>12, <1>13, <1>14, <1>15, <1>16, WriteOK

\* A step of w that blocks or unblocks an account, or leaves it.
LEMMA BlockingOK ==
  ASSUME IInv, NEW a \in Accounts, NEW b \in BOOLEAN, gitlab[a] # None,
         gitlab' = [gitlab EXCEPT ![a].blocked = b],
         UNCHANGED <<member, approved, token, owners>>
  PROVE  /\ gitlab' \in [Accounts -> Account \cup {None}]
         /\ \A c \in Accounts : gitlab[c] # None <=> gitlab'[c] # None
         /\ \A c \in Accounts : gitlab[c] # None => gitlab'[c].username = gitlab[c].username
         /\ gitlab'[a].blocked = b
         /\ \A c \in Accounts \ {a} : gitlab'[c] = gitlab[c]
         /\ Grows /\ (HandedOn <=> HandedOn')
         /\ Owned' /\ OneAccount' /\ MembersOK'
<1> PICK r : r = [gitlab[a] EXCEPT !.blocked = b]
  OBVIOUS
<1>1. gitlab[a] \in Account
  BY DEF IInv, TypeOK
<1>2. /\ r \in Account /\ r # None /\ r.username = gitlab[a].username /\ r.email = gitlab[a].email
      /\ r.blocked = b
  BY <1>1, NoneIsNone DEF Account
<1>3. /\ gitlab' \in [Accounts -> Account \cup {None}] /\ gitlab'[a] = r
      /\ \A c \in Accounts \ {a} : gitlab'[c] = gitlab[c]
  BY <1>2 DEF IInv, TypeOK
<1>4. \A c \in Accounts : /\ gitlab[c] # None <=> gitlab'[c] # None
                         /\ gitlab'[c].username = gitlab[c].username /\ gitlab'[c].email = gitlab[c].email
  BY <1>2, <1>3
<1>5. Grows
  BY <1>4 DEF Grows
<1>6. HandedOn <=> HandedOn'
  BY DEF HandedOn
<1>7. Owned' /\ OneAccount'
  BY <1>4 DEF IInv, Owned, OneAccount
<1>8. MembersOK'
  <2> SUFFICES ASSUME NEW u \in Usernames, member[u] # None, member[u].gitlab # None
               PROVE  AccountOf(member[u].gitlab, u)'
    BY DEF MembersOK
  <2> PICK c \in Accounts : c = member[u].gitlab /\ AccountOf(c, u)
    BY DEF IInv, TypeOK, MembersOK, Row
  <2>1. AccountOf(c, u)' /\ c = member'[u].gitlab
    BY <1>5, AccountStays
  <2> QED BY <2>1
<1> QED BY <1>2, <1>3, <1>4, <1>5, <1>6, <1>7, <1>8

LEMMA UnblockOK ==
  ASSUME IInv, NEW w \in Workers, NEW refused \in BOOLEAN, Unblock(w, refused)
  PROVE  IInv'
<1> PICK f \in Frame : f = worker[w] /\ FrameOK(f) /\ AloneOK(f)
  BY DEF IInv, TypeOK
<1> PICK a : a = f.account
  OBVIOUS
<1> PICK g : g = [f EXCEPT !.pc = "token", !.alone = @ /\ ~refused]
  OBVIOUS
<1>1. /\ f.pc = "unblock" /\ worker' = [worker EXCEPT ![w] = g]
      /\ UNCHANGED <<member, approved, token, owners, synced>>
  BY DEF Unblock, GoTo, At
<1>2. /\ f.pc \in SyncSteps /\ f.key \in Usernames /\ f.key \notin synced /\ f.status = "active"
      /\ member[f.key] # None /\ a # None /\ a \in Accounts /\ AccountOf(a, f.key)
  BY <1>1 DEF FrameOK, AloneOK, Frame, SyncSteps
<1>3. /\ g \in Frame /\ g.pc = "token" /\ g.key = f.key /\ g.status = f.status /\ g.account = a
      /\ g.alone => f.alone /\ ~refused
  <2>1. f.alone \in BOOLEAN
    BY DEF Frame
  <2>2. (f.alone /\ ~refused) \in BOOLEAN
    OBVIOUS
  <2> QED BY <2>1, <2>2 DEF Frame, SyncSteps
<1>4. CASE refused
  <2>1. ~g.alone /\ gitlab' = gitlab
    BY <1>3, <1>4 DEF Unblock
  <2>2. FrameOK(g)
    BY <1>1, <1>2, <1>3 DEF FrameOK, SyncSteps
  <2>3. AloneOK(g)
    BY <1>2, <1>3, <2>1 DEF AloneOK
  <2> QED BY <1>1, <1>2, <1>3, <2>1, <2>2, <2>3, QuietOK
<1>5. CASE ~refused
  <2>1. gitlab' = [gitlab EXCEPT ![a].blocked = FALSE] /\ gitlab[a] # None
    BY <1>2, <1>5 DEF Unblock, AccountOf
  <2>2. /\ gitlab' \in [Accounts -> Account \cup {None}]
        /\ \A c \in Accounts : gitlab[c] # None <=> gitlab'[c] # None
        /\ \A c \in Accounts : gitlab[c] # None => gitlab'[c].username = gitlab[c].username
        /\ gitlab'[a].blocked = FALSE
        /\ \A c \in Accounts \ {a} : gitlab'[c] = gitlab[c]
        /\ Grows /\ (HandedOn <=> HandedOn')
        /\ Owned' /\ OneAccount' /\ MembersOK'
    <3> PICK b \in BOOLEAN : b = FALSE
      OBVIOUS
    <3>1. gitlab' = [gitlab EXCEPT ![a].blocked = b]
      BY <2>1
    <3> QED BY <1>1, <1>2, <2>1, <3>1, BlockingOK
  <2>3. FrameOK(g)
    BY <1>1, <1>2, <1>3 DEF FrameOK, SyncSteps
  <2>4. FrameOK(g)'
    BY <1>3, <2>2, <2>3, FrameStays
  <2>5. AloneOK(g)'
    <3>1. g.key \notin synced' /\ (g.alone => member'[g.key].status = g.status)
      BY <1>1, <1>2, <1>3 DEF AloneOK
    <3>2. ~gitlab'[g.account].blocked
      BY <1>3, <2>2
    <3> QED BY <3>1, <3>2 DEF AloneOK
  <2>6. SyncedOK'
    <3>1. \A x \in Workers : \A u \in Usernames : Syncing(x, u)' => Syncing(x, u)
      BY <1>1, <1>2, <1>3, ApartStays
    <3> QED BY <1>1, <3>1 DEF IInv, TypeOK, SyncedOK
  <2>7. AccountFollowsStatus'
    <3> SUFFICES ASSUME ~HandedOn, NEW u \in synced
                 PROVE  (/\ member[u].status = "active" =>
                              member[u].gitlab # None /\ ~gitlab[member[u].gitlab].blocked
                         /\ member[u].status = "suspended" =>
                              \A b \in Accounts : gitlab[b] # None /\ gitlab[b].username = u => gitlab[b].blocked)'
      BY <1>1, <2>2 DEF AccountFollowsStatus
    <3>1. u # f.key /\ u \in Usernames /\ member[u] # None /\ gitlab[a].username # u
      BY <1>2 DEF AccountOf, IInv, TypeOK, SyncedOK
    <3>2. \A b \in Accounts : gitlab'[b] # None /\ gitlab'[b].username = u => b # a
      BY <1>2, <2>1, <2>2, <3>1
    <3>3. /\ member[u].status = "active" =>
               member[u].gitlab # None /\ ~gitlab[member[u].gitlab].blocked
          /\ member[u].status = "suspended" =>
               \A b \in Accounts : gitlab[b] # None /\ gitlab[b].username = u => gitlab[b].blocked
      BY DEF IInv, AccountFollowsStatus
    <3>4. member[u].gitlab # None => member[u].gitlab \in Accounts
      BY <3>1 DEF IInv, TypeOK, Row
    <3>5. member[u].status = "active" => ~gitlab'[member[u].gitlab].blocked
      BY <2>2, <3>3, <3>4
    <3> QED BY <1>1, <2>2, <3>2, <3>3, <3>5
  <2>8. \A x \in Workers \ {w} : AloneOK(worker[x])'
    <3> SUFFICES ASSUME NEW x \in Workers \ {w} PROVE AloneOK(worker[x])'
      OBVIOUS
    <3> PICK h \in Frame : h = worker[x] /\ FrameOK(h) /\ AloneOK(h)
      BY DEF IInv, TypeOK
    <3>1. h = worker'[x]
      BY <1>1 DEF IInv, TypeOK
    <3>2. h.pc \in {"token", "record"} => h.account \in Accounts
      BY DEF FrameOK, Frame
    <3>3. h.pc \in {"token", "record"} => gitlab'[h.account].blocked \in {gitlab[h.account].blocked, FALSE}
      BY <2>2, <3>2
    <3>4. AloneOK(h)'
      BY <1>1, <2>2, <3>3 DEF AloneOK
    <3> QED BY <3>1, <3>4
  <2>9. /\ member' \in [Usernames -> Row \cup {None}] /\ approved' \subseteq Approvable
        /\ token' \in [Tokens -> Token \cup {None}]
        /\ owners' \in [Emails -> SUBSET Usernames] /\ synced' \subseteq Usernames
    BY <1>1 DEF IInv, TypeOK
  <2> QED BY <1>1, <1>2, <1>3, <2>2, <2>4, <2>5, <2>6, <2>7, <2>8, <2>9, WriteOK
<1> QED BY <1>4, <1>5

LEMMA BlockOK ==
  ASSUME IInv, NEW w \in Workers, NEW refused \in BOOLEAN, Block(w, refused)
  PROVE  IInv'
<1> PICK f \in Frame : f = worker[w] /\ FrameOK(f) /\ AloneOK(f)
  BY DEF IInv, TypeOK
<1> PICK a : a = f.account
  OBVIOUS
<1>1. f.pc = "block" /\ UNCHANGED <<member, approved, token, owners>>
  BY DEF Block, At
<1>2. /\ f.pc \in SyncSteps /\ f.key \in Usernames /\ f.key \notin synced /\ f.status = "suspended"
      /\ member[f.key] # None /\ a # None /\ a \in Accounts /\ AccountOf(a, f.key)
  BY <1>1 DEF FrameOK, AloneOK, Frame, SyncSteps
<1>3. CASE refused
  BY <1>1, <1>3, GivesUpOK DEF Block
<1>4. CASE ~refused
  <2> PICK g : g = Idle
    OBVIOUS
  <2>1. gitlab' = [gitlab EXCEPT ![a].blocked = TRUE] /\ gitlab[a] # None /\ Done(w)
    BY <1>2, <1>4 DEF Block, AccountOf
  <2>2. /\ gitlab' \in [Accounts -> Account \cup {None}]
        /\ \A c \in Accounts : gitlab[c] # None <=> gitlab'[c] # None
        /\ \A c \in Accounts : gitlab[c] # None => gitlab'[c].username = gitlab[c].username
        /\ gitlab'[a].blocked = TRUE
        /\ \A c \in Accounts \ {a} : gitlab'[c] = gitlab[c]
        /\ Grows /\ (HandedOn <=> HandedOn')
        /\ Owned' /\ OneAccount' /\ MembersOK'
    <3> PICK b \in BOOLEAN : b = TRUE
      OBVIOUS
    <3>1. gitlab' = [gitlab EXCEPT ![a].blocked = b]
      BY <2>1
    <3> QED BY <1>1, <1>2, <2>1, <3>1, BlockingOK
  <2>3. /\ worker' = [worker EXCEPT ![w] = g] /\ g \in Frame /\ g.pc \notin SyncSteps
        /\ synced' \subseteq Usernames
        /\ \A v \in synced' : v \in synced \/ (v = f.key /\ f.alone)
        /\ \A v \in synced' : \A x \in Workers : ~Syncing(x, v)'
        /\ \A x \in Workers \ {w} : worker[x].pc \in SyncSteps => worker[x].key \notin synced'
    BY <1>2, <2>1, DoneOK, IdleIsFrame, IdleOK
  <2>4. FrameOK(g)' /\ AloneOK(g)'
    BY IdleIsFrame DEF FrameOK, AloneOK, SyncSteps
  <2>5. SyncedOK'
    BY <1>1, <1>2, <2>3 DEF IInv, SyncedOK
  <2>6. AccountFollowsStatus'
    <3> SUFFICES ASSUME ~HandedOn, NEW u \in synced'
                 PROVE  (/\ member[u].status = "active" =>
                              member[u].gitlab # None /\ ~gitlab[member[u].gitlab].blocked
                         /\ member[u].status = "suspended" =>
                              \A b \in Accounts : gitlab[b] # None /\ gitlab[b].username = u => gitlab[b].blocked)'
      BY <2>2 DEF AccountFollowsStatus
    <3>1. gitlab[a].username = f.key
      BY <1>2 DEF AccountOf
    <3>2. CASE u = f.key /\ f.alone
      <4>1. member[u].status = "suspended"
        BY <1>2, <3>2 DEF AloneOK
      <4>2. \A b \in Accounts : gitlab'[b] # None /\ gitlab'[b].username = u => b = a
        BY <1>2, <2>1, <2>2, <3>1, <3>2 DEF IInv, OneAccount
      <4> QED BY <1>1, <2>2, <4>1, <4>2
    <3>3. CASE u \in synced
      <4>1. /\ member[u].status = "active" =>
                 member[u].gitlab # None /\ ~gitlab[member[u].gitlab].blocked
            /\ member[u].status = "suspended" =>
                 \A b \in Accounts : gitlab[b] # None /\ gitlab[b].username = u => gitlab[b].blocked
        BY <3>3 DEF IInv, AccountFollowsStatus
      <4>2. u # f.key /\ u \in Usernames /\ member[u] # None
        BY <1>2, <3>3 DEF IInv, TypeOK, SyncedOK
      <4>3. member[u].gitlab # None =>
              member[u].gitlab \in Accounts /\ gitlab[member[u].gitlab].username = u
        BY <4>2 DEF IInv, TypeOK, Row, MembersOK, AccountOf
      <4>4. member[u].gitlab # a
        BY <1>2, <3>1, <4>2, <4>3
      <4>5. member[u].status = "active" => ~gitlab'[member[u].gitlab].blocked
        BY <2>2, <4>1, <4>3, <4>4
      <4>6. member[u].status = "suspended" =>
              \A b \in Accounts : gitlab'[b] # None /\ gitlab'[b].username = u => gitlab'[b].blocked
        BY <2>2, <4>1
      <4> QED BY <1>1, <4>1, <4>5, <4>6
    <3> QED BY <2>3, <3>2, <3>3
  <2>7. \A x \in Workers \ {w} : AloneOK(worker[x])'
    <3> SUFFICES ASSUME NEW x \in Workers \ {w} PROVE AloneOK(worker[x])'
      OBVIOUS
    <3> PICK h \in Frame : h = worker[x] /\ FrameOK(h) /\ AloneOK(h)
      BY DEF IInv, TypeOK
    <3>1. h = worker'[x]
      BY <2>3 DEF IInv, TypeOK
    <3>2. ASSUME h.alone, h.pc \in {"token", "record"}, ~HandedOn PROVE h.account # a
      <4>1. gitlab[h.account].username = h.key /\ gitlab[a].username = f.key
        BY <1>2, <3>2 DEF FrameOK, AccountOf
      <4>2. h.pc \in SyncSteps
        BY <3>2 DEF SyncSteps
      <4>3. ~Syncing(w, h.key)
        BY <3>2, <4>2 DEF IInv, Apart
      <4>4. f.key # h.key
        BY <1>2, <4>3 DEF Syncing
      <4> QED BY <4>1, <4>4
    <3>3. h.pc \in {"token", "record"} => h.account \in Accounts
      BY DEF FrameOK, Frame
    <3>4. h.alone /\ h.pc \in {"token", "record"} /\ ~HandedOn => ~gitlab'[h.account].blocked
      <4> SUFFICES ASSUME h.alone, h.pc \in {"token", "record"}, ~HandedOn PROVE ~gitlab'[h.account].blocked
        OBVIOUS
      <4>1. h.pc \in SyncSteps
        BY DEF SyncSteps
      <4>2. ~gitlab[h.account].blocked
        BY <4>1 DEF AloneOK
      <4> QED BY <2>2, <3>2, <3>3, <4>2
    <3>5. h.pc \in SyncSteps => h.key \notin synced' /\ (h.alone => member'[h.key].status = h.status)
      BY <1>1, <2>3 DEF AloneOK
    <3>6. AloneOK(h)'
      BY <2>2, <3>4, <3>5 DEF AloneOK
    <3> QED BY <3>1, <3>6
  <2>8. /\ member' \in [Usernames -> Row \cup {None}] /\ approved' \subseteq Approvable
        /\ token' \in [Tokens -> Token \cup {None}] /\ owners' \in [Emails -> SUBSET Usernames]
    BY <1>1 DEF IInv, TypeOK
  <2> QED BY <2>2, <2>3, <2>4, <2>5, <2>6, <2>7, <2>8, WriteOK
<1> QED BY <1>3, <1>4

LEMMA RecordAccountOK == ASSUME IInv, NEW w \in Workers, RecordAccount(w) PROVE IInv'
<1> PICK f \in Frame : f = worker[w] /\ FrameOK(f) /\ AloneOK(f)
  BY DEF IInv, TypeOK
<1> PICK a : a = f.account
  OBVIOUS
<1> PICK g : g = Idle
  OBVIOUS
<1> PICK r : r = [member[f.key] EXCEPT !.gitlab = a]
  OBVIOUS
<1>1. /\ f.pc = "record" /\ member' = [member EXCEPT ![f.key] = r] /\ Done(w)
      /\ UNCHANGED <<approved, gitlab, token, owners>>
  BY DEF RecordAccount, At
<1>2. /\ f.pc \in SyncSteps /\ f.key \in Usernames /\ f.key \notin synced /\ f.status = "active"
      /\ member[f.key] # None /\ a # None /\ a \in Accounts /\ AccountOf(a, f.key)
  BY <1>1 DEF FrameOK, AloneOK, Frame, SyncSteps
<1>3. /\ r \in Row /\ r.email = member[f.key].email /\ r.status = member[f.key].status
      /\ r.gitlab = a /\ r # None
  <2>1. member[f.key] \in Row
    BY <1>2 DEF IInv, TypeOK
  <2> QED BY <1>2, <2>1, NoneIsNone DEF Row
<1>4. /\ member' \in [Usernames -> Row \cup {None}] /\ member'[f.key] = r
      /\ \A u \in Usernames \ {f.key} : member'[u] = member[u]
  BY <1>1, <1>2, <1>3 DEF IInv, TypeOK
<1>5. /\ worker' = [worker EXCEPT ![w] = g] /\ g \in Frame /\ g.pc \notin SyncSteps
      /\ synced' \subseteq Usernames
      /\ \A v \in synced' : v \in synced \/ (v = f.key /\ f.alone)
      /\ \A v \in synced' : \A x \in Workers : ~Syncing(x, v)'
      /\ \A x \in Workers \ {w} : worker[x].pc \in SyncSteps => worker[x].key \notin synced'
  BY <1>1, <1>2, DoneOK, IdleIsFrame, IdleOK
<1>6. FrameOK(g)' /\ AloneOK(g)'
  BY IdleIsFrame DEF FrameOK, AloneOK, SyncSteps
<1>7. Grows
  BY <1>1, <1>3, <1>4 DEF Grows
<1>8. HandedOn <=> HandedOn'
  BY <1>1 DEF HandedOn
<1>9. Owned' /\ OneAccount'
  BY <1>1, <1>2, <1>3, <1>4 DEF IInv, Owned, OneAccount
<1>10. MembersOK'
  <2> SUFFICES ASSUME NEW u \in Usernames, member'[u] # None, member'[u].gitlab # None
               PROVE  AccountOf(member[u].gitlab, u)'
    BY DEF MembersOK
  <2>1. CASE u = f.key
    <3>1. AccountOf(a, u)' /\ a = member'[u].gitlab
      BY <1>2, <1>3, <1>4, <1>7, <2>1, AccountStays
    <3> QED BY <3>1
  <2>2. CASE u # f.key
    <3>1. member'[u] = member[u]
      BY <1>4, <2>2
    <3> PICK c \in Accounts : c = member[u].gitlab /\ AccountOf(c, u)
      BY <3>1 DEF IInv, TypeOK, MembersOK, Row
    <3>2. AccountOf(c, u)' /\ c = member'[u].gitlab
      BY <1>7, <3>1, AccountStays
    <3> QED BY <3>2
  <2> QED BY <2>1, <2>2
<1>11. SyncedOK'
  <2>1. \A u \in synced' : member'[u] # None
    BY <1>2, <1>4, <1>5, <1>3 DEF IInv, TypeOK, SyncedOK
  <2> QED BY <1>5, <2>1 DEF SyncedOK
<1>12. AccountFollowsStatus'
  <2> SUFFICES ASSUME ~HandedOn, NEW u \in synced'
               PROVE  (/\ member[u].status = "active" =>
                            member[u].gitlab # None /\ ~gitlab[member[u].gitlab].blocked
                       /\ member[u].status = "suspended" =>
                            \A b \in Accounts : gitlab[b] # None /\ gitlab[b].username = u => gitlab[b].blocked)'
    BY <1>8 DEF AccountFollowsStatus
  <2>1. CASE u = f.key /\ f.alone
    <3>1. member'[u].status = "active" /\ ~gitlab[a].blocked
      BY <1>1, <1>2, <1>3, <1>4, <2>1 DEF AloneOK
    <3> QED BY <1>1, <1>2, <1>3, <1>4, <2>1, <3>1
  <2>2. CASE u \in synced
    <3>1. u # f.key /\ member'[u] = member[u]
      BY <1>2, <1>4, <2>2 DEF IInv, TypeOK
    <3> QED BY <1>1, <2>2, <3>1 DEF IInv, AccountFollowsStatus
  <2> QED BY <1>5, <2>1, <2>2
<1>13. \A x \in Workers \ {w} : AloneOK(worker[x])'
  <2> SUFFICES ASSUME NEW x \in Workers \ {w} PROVE AloneOK(worker[x])'
    OBVIOUS
  <2> PICK h \in Frame : h = worker[x] /\ FrameOK(h) /\ AloneOK(h)
    BY DEF IInv, TypeOK
  <2>1. h = worker'[x]
    BY <1>5 DEF IInv, TypeOK
  <2>2. h.pc \in SyncSteps => member'[h.key].status = member[h.key].status
    BY <1>2, <1>3, <1>4 DEF FrameOK, Frame, SyncSteps
  <2>3. AloneOK(h)'
    BY <1>1, <1>5, <1>8, <2>2, AloneStays
  <2> QED BY <2>1, <2>3
<1>14. /\ gitlab' \in [Accounts -> Account \cup {None}] /\ approved' \subseteq Approvable
       /\ token' \in [Tokens -> Token \cup {None}] /\ owners' \in [Emails -> SUBSET Usernames]
  BY <1>1 DEF IInv, TypeOK
<1> QED BY <1>4, <1>5, <1>6, <1>7, <1>9, <1>10, <1>11, <1>12, <1>13, <1>14, WriteOK

-----------------------------------------------------------------------------

LEMMA NextOK == IInv /\ [Next]_vars => IInv'
<1> SUFFICES ASSUME IInv, [Next]_vars PROVE IInv'
  OBVIOUS
<1>1. ASSUME NEW w \in Workers, Step(w) PROVE IInv'
  <2>1. ASSUME NEW u \in Usernames, NEW e \in Emails, SignUp(w, u, e) \/ ChangeEmail(w, u, e) PROVE IInv'
    <3> PICK s \in {"active", "suspended"} : TRUE
      OBVIOUS
    <3> QED BY <2>1, StartsOK
  <2>2. ASSUME NEW u \in Usernames, NEW s \in {"active", "suspended"}, ChangeStatus(w, u, s) PROVE IInv'
    <3>1. member[u] # None
      BY <2>2 DEF ChangeStatus
    <3>2. member[u].email \in Emails
      BY <3>1 DEF IInv, TypeOK, Row
    <3> QED BY <2>2, <3>2, StartsOK
  <2>3. ASSUME NEW u \in Usernames, NEW s \in {"active", "suspended"}, NEW e \in Emails,
               FirstLogin(w, u, e, s)
        PROVE  IInv'
    BY <2>3, StartsOK
  <2>4. CASE CheckEmail(w) \/ CheckApproved(w) \/ Insert(w) \/ Update(w)
    BY <2>4, CheckEmailOK, CheckApprovedOK, InsertOK, UpdateOK
  <2>5. CASE CommitStatus(w) \/ FindAccount(w) \/ CreateToken(w) \/ RecordAccount(w)
    BY <2>5, CommitStatusOK, FindAccountOK, CreateTokenOK, RecordAccountOK
  <2>6. ASSUME NEW a \in Accounts, CreateAccount(w, a) PROVE IInv'
    BY <2>6, CreateAccountOK
  <2>7. ASSUME NEW refused \in BOOLEAN, Unblock(w, refused) \/ Block(w, refused) PROVE IInv'
    BY <2>7, UnblockOK, BlockOK
  <2>8. ASSUME NEW u \in Usernames \cup {None}, NEW e \in Emails, AskToken(w, u, e) PROVE IInv'
    BY <2>8, AskTokenOK
  <2>9. ASSUME NEW t \in Tokens, CreatePat(w, t) PROVE IInv'
    BY <2>9, CreatePatOK
  <2>10. CASE Abort(w)
    BY <2>10, GivesUpOK DEF Abort
  <2> QED BY <1>1, <2>1, <2>2, <2>3, <2>4, <2>5, <2>6, <2>7, <2>8, <2>9, <2>10 DEF Step
<1>2. ASSUME NEW entry \in Approvable, Approve(entry) \/ Disapprove(entry) PROVE IInv'
  BY <1>2, ApprovalOK
<1>3. ASSUME NEW t \in Tokens, Deactivate(t) PROVE IInv'
  BY <1>3, DeactivateOK
<1>4. CASE UNCHANGED vars
  <2>1. UNCHANGED <<member, approved, gitlab, token, worker, owners, synced>>
    BY <1>4 DEF vars
  <2> QED BY <2>1, TablesOK DEF IInv, TypeOK, Owned
<1> QED BY <1>1, <1>2, <1>3, <1>4 DEF Next

\* Emails, accounts and tokens stay with whom they are of, and the changes of status
\* nothing interferes with reach GitLab (members.py:333).
THEOREM Invariance == Spec => []IInv
<1>1. Init => IInv
  BY InitOK
<1>2. IInv /\ [Next]_vars => IInv'
  BY NextOK
<1> QED BY <1>1, <1>2, PTL DEF Spec

\* Two members do not come to share a GitLab account and its token while no email is
\* handed on (get_gitlab_user, github_util.py:171).
THEOREM AccountsAreOwn == Spec => []OwnAccount
<1>1. IInv => OwnAccount
  BY DEF IInv, MembersOK, AccountOf, OwnAccount
<1> QED BY <1>1, Invariance, PTL

\* After a change of status that came to its end alone, the account is in line with
\* the status, whatever earlier ones did (sync_gitlab_account, github_util.py:88).
THEOREM AccountsFollow == Spec => []AccountFollowsStatus
<1>1. IInv => AccountFollowsStatus
  BY DEF IInv
<1> QED BY <1>1, Invariance, PTL

\* A personal access token is for who made it while no email is handed on
\* (validate_personal_access_token, security.py:89).
THEOREM TokensAreTheMakers == Spec => []TokenActsForMaker
<1>1. IInv => TokenActsForMaker
  <2> SUFFICES ASSUME IInv, ~HandedOn, NEW t \in Tokens, NEW u \in Usernames, Authenticates(t, u)
               PROVE  token[t].maker \in {u, None}
    BY DEF TokenActsForMaker
  <2>1. token[t] # None /\ token[t] \in Token /\ member[u] # None /\ member[u].email = token[t].email
    BY DEF Authenticates, IInv, TypeOK
  <2>2. u \in owners[token[t].email] /\ token[t].email \in Emails
    BY <2>1 DEF IInv, Owned, Token
  <2>3. token[t].maker # None => token[t].maker \in owners[token[t].email]
    BY <2>1 DEF IInv, Owned
  <2> QED BY <2>2, <2>3 DEF HandedOn
<1> QED BY <1>1, Invariance, PTL
=============================================================================
