------------------------------ MODULE Members ------------------------------
(***************************************************************************)
(* Members (api/endpoints/members.py): sign-up, which activates those whose *)
(* email an admin approved beforehand, changes of the profile and of the   *)
(* status, and the GitLab account that follows the status                  *)
(* (utils/github_util.sync_gitlab_account).  A worker serves one request,  *)
(* one statement or call at a time; a request may be cut short anywhere.   *)
(* Personal access tokens (api/endpoints/gateway.py) name a member by the  *)
(* email.                                                                  *)
(***************************************************************************)
EXTENDS FiniteSets, Integers

CONSTANTS
  Workers,      \* processes of gunicorn
  Usernames,
  Emails,
  Domains,
  DomainOf,     \* the domain of each email
  OneCharacter, \* the emails with one character before the @
  Approvable,   \* the entries an admin may approve
  Accounts,     \* ids of GitLab accounts
  Tokens,       \* ids of personal access tokens
  None

ASSUME EmailAssumption ==
  /\ DomainOf \in [Emails -> Domains]
  /\ OneCharacter \subseteq Emails
  /\ Approvable \subseteq Emails \cup Domains

\* The row of a member; gitlab: the account whose id and token are recorded.
Row == [email: Emails, status: {"active", "suspended"}, gitlab: Accounts \cup {None}]

Account == [username: Usernames, email: Emails, blocked: BOOLEAN]

\* maker: who made it, None for one a partner platform made for an email.
Token == [email: Emails, maker: Usernames \cup {None}, active: BOOLEAN]

ASSUME NoneAssumption ==
  None \notin Row \cup Account \cup Token \cup Usernames \cup Emails \cup Accounts \cup {"active", "suspended"}

VARIABLES
  member,    \* database: the row of each username
  approved,  \* database: the emails approved beforehand, a domain for *@domain
  gitlab,    \* GitLab: its accounts
  token,     \* database: the personal access tokens
  worker,    \* the request each worker serves
  owners,    \* history: who ever had an email
  synced     \* history: the members whose last change of status came to its end

vars == <<member, approved, gitlab, token, worker, owners, synced>>

-----------------------------------------------------------------------------

SyncSteps == {"find", "create", "token", "unblock", "block", "record"}

\* key: the username the request is about; account: the GitLab account it works
\* on; alone: nothing went wrong in its change of status, and no other of the
\* same member was under way.
Frame ==
  [pc: {"idle", "email", "approve", "insert", "check", "update", "commit", "mint"} \cup SyncSteps,
   key: Usernames \cup {None}, email: Emails \cup {None},
   status: {"active", "suspended", None}, account: Accounts \cup {None}, alone: BOOLEAN]

Idle == [pc |-> "idle", key |-> None, email |-> None, status |-> None, account |-> None,
         alone |-> FALSE]

TypeOK ==
  /\ member \in [Usernames -> Row \cup {None}]
  /\ approved \subseteq Approvable
  /\ gitlab \in [Accounts -> Account \cup {None}]
  /\ token \in [Tokens -> Token \cup {None}]
  /\ worker \in [Workers -> Frame]
  /\ owners \in [Emails -> SUBSET Usernames]
  /\ synced \subseteq Usernames

Init ==
  /\ member = [u \in Usernames |-> None]
  /\ approved = {}
  /\ gitlab = [a \in Accounts |-> None]
  /\ token = [t \in Tokens |-> None]
  /\ worker = [w \in Workers |-> Idle]
  /\ owners = [e \in Emails |-> {}]
  /\ synced = {}

At(w, pc) == worker[w].pc = pc

GoTo(w, frame) == worker' = [worker EXCEPT ![w] = frame]

EmailTaken(e) == \E u \in Usernames : member[u] # None /\ member[u].email = e

Own(u, e) == owners' = [owners EXCEPT ![e] = @ \cup {u}]

-----------------------------------------------------------------------------
(***************************************************************************)
(* Pre-approved emails, and sign-up.                                       *)
(***************************************************************************)

\* The email is unique, a second INSERT fails like the check before it.
Approve(entry) ==
  /\ entry \notin approved
  /\ approved' = approved \cup {entry}
  /\ UNCHANGED <<member, gitlab, token, worker, owners, synced>>

Disapprove(entry) ==
  /\ entry \in approved
  /\ approved' = approved \ {entry}
  /\ UNCHANGED <<member, gitlab, token, worker, owners, synced>>

\* The entry *@domain LIKE % and the email without its first character: what
\* follows that character must be the end of the entry.
Approves(entry, e) == entry = e \/ (e \in OneCharacter /\ entry = DomainOf[e])

SignUp(w, u, e) ==
  /\ At(w, "idle")
  /\ member[u] = None
  /\ GoTo(w, [Idle EXCEPT !.pc = "email", !.key = u, !.email = e])
  /\ UNCHANGED <<member, approved, gitlab, token, owners, synced>>

\* A sign-up, or a change of the profile, asks for an email nobody has.
CheckEmail(w) ==
  /\ worker[w].pc \in {"email", "check"}
  /\ GoTo(w, IF EmailTaken(worker[w].email) THEN Idle
             ELSE [worker[w] EXCEPT !.pc = IF @ = "email" THEN "approve" ELSE "update"])
  /\ UNCHANGED <<member, approved, gitlab, token, owners, synced>>

CheckApproved(w) ==
  /\ At(w, "approve")
  /\ GoTo(w, [worker[w] EXCEPT !.pc = "insert",
                !.status = IF \E entry \in approved : Approves(entry, worker[w].email)
                           THEN "active" ELSE "suspended"])
  /\ UNCHANGED <<member, approved, gitlab, token, owners, synced>>

\* The first login of a user without a row makes one, active when a JWT has a
\* compute role and suspended when CAS vouches for the user.
FirstLogin(w, u, e, s) ==
  /\ At(w, "idle")
  /\ member[u] = None
  /\ GoTo(w, [Idle EXCEPT !.pc = "insert", !.key = u, !.email = e, !.status = s])
  /\ UNCHANGED <<member, approved, gitlab, token, owners, synced>>

\* Usernames and emails are unique: the slower of two sign-ups is an error.
Insert(w) ==
  LET f == worker[w] IN
  /\ At(w, "insert")
  /\ IF member[f.key] = None /\ ~EmailTaken(f.email)
     THEN /\ member' = [member EXCEPT ![f.key] =
                          [email |-> f.email, status |-> f.status, gitlab |-> None]]
          /\ Own(f.key, f.email)
     ELSE UNCHANGED <<member, owners>>
  /\ GoTo(w, Idle)
  /\ UNCHANGED <<approved, gitlab, token, synced>>
-----------------------------------------------------------------------------
(***************************************************************************)
(* The profile.  A change that leaves the email alone changes nothing here.*)
(***************************************************************************)

ChangeEmail(w, u, e) ==
  /\ At(w, "idle")
  /\ member[u] # None /\ member[u].email # e
  /\ GoTo(w, [Idle EXCEPT !.pc = "check", !.key = u, !.email = e])
  /\ UNCHANGED <<member, approved, gitlab, token, owners, synced>>

Update(w) ==
  LET f == worker[w] IN
  /\ At(w, "update")
  /\ IF EmailTaken(f.email)
     THEN UNCHANGED <<member, owners>>
     ELSE /\ member' = [member EXCEPT ![f.key].email = f.email]
          /\ Own(f.key, f.email)
  /\ GoTo(w, Idle)
  /\ UNCHANGED <<approved, gitlab, token, synced>>

-----------------------------------------------------------------------------
(***************************************************************************)
(* The status, and the GitLab account that follows it.                     *)
(***************************************************************************)

\* A status the member has already is answered and changes nothing, whatever
\* became of the GitLab account.
ChangeStatus(w, u, s) ==
  /\ At(w, "idle")
  /\ member[u] # None /\ member[u].status # s
  /\ GoTo(w, [Idle EXCEPT !.pc = "commit", !.key = u, !.status = s])
  /\ UNCHANGED <<member, approved, gitlab, token, owners, synced>>

Syncing(w, u) == worker[w].key = u /\ worker[w].pc \in SyncSteps

CommitStatus(w) ==
  LET u == worker[w].key
      others == {x \in Workers \ {w} : Syncing(x, u)}
  IN
  /\ At(w, "commit")
  /\ member' = [member EXCEPT ![u].status = worker[w].status]
  /\ worker' = [x \in Workers |->
       CASE x = w -> [worker[w] EXCEPT !.pc = "find", !.alone = (others = {})]
         [] x \in others -> [worker[x] EXCEPT !.alone = FALSE]
         [] OTHER -> worker[x]]
  /\ synced' = synced \ {u}
  /\ UNCHANGED <<approved, gitlab, token, owners>>

\* The account looked for by its email, which a member may change.
ByEmail(u, e) == {a \in Accounts : gitlab[a] # None /\ gitlab[a].email = e}

\* Any account, when the search forgets what it searches for.
AnyAccount(u, e) ==
  LET named == {a \in Accounts : gitlab[a] # None /\ gitlab[a].username = u}
  IN IF named # {} THEN named ELSE {a \in Accounts : gitlab[a] # None}

\* get_gitlab_user: the account of that username, or else one of that email.
GitlabUser(u, e) ==
  LET named == {a \in Accounts : gitlab[a] # None /\ gitlab[a].username = u}
  IN IF named # {} THEN named ELSE {a \in Accounts : gitlab[a] # None /\ gitlab[a].email = e}

Done(w) ==
  /\ GoTo(w, Idle)
  /\ synced' = IF worker[w].alone THEN synced \cup {worker[w].key} ELSE synced

\* The row is read again after the commit.
FindAccount(w) ==
  LET u == worker[w].key
      e == member[u].email
      found == GitlabUser(u, e)
      active == worker[w].status = "active"
  IN
  /\ At(w, "find")
  /\ \/ /\ found = {} /\ active
        /\ GoTo(w, [worker[w] EXCEPT !.pc = "create", !.email = e])
        /\ UNCHANGED synced
     \/ /\ found = {} /\ ~active
        /\ Done(w)
     \/ /\ \E a \in found :
             GoTo(w, [worker[w] EXCEPT !.pc = IF active THEN "unblock" ELSE "block", !.account = a])
        /\ UNCHANGED synced
  /\ UNCHANGED <<member, approved, gitlab, token, owners>>

\* GitLab has one account for a username and one for an email.
CreateAccount(w, a) ==
  LET f == worker[w] IN
  /\ At(w, "create")
  /\ gitlab[a] = None
  /\ \A b \in Accounts :
       gitlab[b] # None => gitlab[b].username # f.key /\ gitlab[b].email # f.email
  /\ gitlab' = [gitlab EXCEPT ![a] = [username |-> f.key, email |-> f.email, blocked |-> FALSE]]
  /\ GoTo(w, [f EXCEPT !.pc = "token", !.account = a])
  /\ UNCHANGED <<member, approved, token, owners, synced>>

\* The answer is not looked at: a call that GitLab refuses goes unnoticed.
Unblock(w, refused) ==
  LET f == worker[w] IN
  /\ At(w, "unblock")
  /\ IF refused THEN UNCHANGED gitlab
     ELSE gitlab' = [gitlab EXCEPT ![f.account].blocked = FALSE]
  /\ GoTo(w, [f EXCEPT !.pc = "token", !.alone = @ /\ ~refused])
  /\ UNCHANGED <<member, approved, token, owners, synced>>

Block(w, refused) ==
  LET f == worker[w] IN
  /\ At(w, "block")
  /\ IF refused
     THEN /\ GoTo(w, Idle)
          /\ UNCHANGED <<gitlab, synced>>
     ELSE /\ gitlab' = [gitlab EXCEPT ![f.account].blocked = TRUE]
          /\ Done(w)
  /\ UNCHANGED <<member, approved, token, owners>>

CreateToken(w) ==
  /\ At(w, "token")
  /\ GoTo(w, [worker[w] EXCEPT !.pc = "record"])
  /\ UNCHANGED <<member, approved, gitlab, token, owners, synced>>

RecordAccount(w) ==
  /\ At(w, "record")
  /\ member' = [member EXCEPT ![worker[w].key].gitlab = worker[w].account]
  /\ Done(w)
  /\ UNCHANGED <<approved, gitlab, token, owners>>

\* A call or a commit fails, or the worker is killed: what was done stays done.
Abort(w) ==
  /\ ~At(w, "idle")
  /\ GoTo(w, Idle)
  /\ UNCHANGED <<member, approved, gitlab, token, owners, synced>>

-----------------------------------------------------------------------------
(***************************************************************************)
(* Personal access tokens.                                                 *)
(***************************************************************************)

\* A member asks for a token, for the email of the moment, or a partner platform
\* asks for one for the email it names.
AskToken(w, u, e) ==
  /\ At(w, "idle")
  /\ u # None => member[u] # None /\ member[u].email = e
  /\ GoTo(w, [Idle EXCEPT !.pc = "mint", !.key = u, !.email = e])
  /\ UNCHANGED <<member, approved, gitlab, token, owners, synced>>

CreatePat(w, t) ==
  /\ At(w, "mint")
  /\ token[t] = None
  /\ token' = [token EXCEPT ![t] =
       [email |-> worker[w].email, maker |-> worker[w].key, active |-> TRUE]]
  /\ GoTo(w, Idle)
  /\ UNCHANGED <<member, approved, gitlab, owners, synced>>

\* The token is revoked, by a request for its email, or expires.
Deactivate(t) ==
  /\ token[t] # None /\ token[t].active
  /\ token' = [token EXCEPT ![t].active = FALSE]
  /\ UNCHANGED <<member, approved, gitlab, worker, owners, synced>>

\* Any active member, when the lookup forgets the email.
AuthenticatesAnyone(t, u) ==
  /\ token[t] # None /\ token[t].active
  /\ member[u] # None /\ member[u].status = "active"

\* validate_personal_access_token: the member a request with the token is for.
Authenticates(t, u) ==
  /\ token[t] # None /\ token[t].active
  /\ member[u] # None /\ member[u].status = "active" /\ member[u].email = token[t].email

-----------------------------------------------------------------------------

Step(w) ==
  \/ \E u \in Usernames, e \in Emails : SignUp(w, u, e) \/ ChangeEmail(w, u, e)
  \/ \E u \in Usernames, s \in {"active", "suspended"} :
       ChangeStatus(w, u, s) \/ \E e \in Emails : FirstLogin(w, u, e, s)
  \/ CheckEmail(w) \/ CheckApproved(w) \/ Insert(w) \/ Update(w)
  \/ CommitStatus(w) \/ FindAccount(w) \/ CreateToken(w) \/ RecordAccount(w)
  \/ \E a \in Accounts : CreateAccount(w, a)
  \/ \E refused \in BOOLEAN : Unblock(w, refused) \/ Block(w, refused)
  \/ \E u \in Usernames \cup {None}, e \in Emails : AskToken(w, u, e)
  \/ \E t \in Tokens : CreatePat(w, t)
  \/ Abort(w)

Next ==
  \/ \E entry \in Approvable : Approve(entry) \/ Disapprove(entry)
  \/ \E t \in Tokens : Deactivate(t)
  \/ \E w \in Workers : Step(w)

Spec == Init /\ [][Next]_vars

-----------------------------------------------------------------------------
(***************************************************************************)
(* Properties.                                                             *)
(***************************************************************************)

\* An email went from one member to another.
HandedOn == \E e \in Emails : \E u, v \in owners[e] : u # v

\* The account whose token a member has (members.py:343-347) is the member's own,
\* though get_gitlab_user also looks for the email alone (github_util.py:181): as
\* long as no email went from one member to another, no two members share one.
OwnAccount ==
  ~HandedOn =>
    \A u \in Usernames :
      member[u] # None /\ member[u].gitlab # None => gitlab[member[u].gitlab].username = u

\* "Updates a Gitlab user account" (github_util.py:90): when a change of status came
\* to its end, with no other of the same member at the time, an active member has
\* an account that is not blocked, and a suspended one has none but blocked ones,
\* whatever earlier changes were cut short, refused or mixed with others.
AccountFollowsStatus ==
  ~HandedOn =>
    \A u \in synced :
      /\ member[u].status = "active" =>
           member[u].gitlab # None /\ ~gitlab[member[u].gitlab].blocked
      /\ member[u].status = "suspended" =>
           \A a \in Accounts : gitlab[a] # None /\ gitlab[a].username = u => gitlab[a].blocked

\* A token names a member by the email alone, and the email may have changed since,
\* or between the read of it and the INSERT (security.py:110): as long as no email
\* went from one member to another, a request with a token is for its maker.
TokenActsForMaker ==
  ~HandedOn =>
    \A t \in Tokens : \A u \in Usernames :
      Authenticates(t, u) => token[t].maker \in {u, None}

\* "Any email ending in "@maap-project.org" is pre-approved" by the entry
\* *@maap-project.org (admin.py:144): such a sign-up is active.
WildcardApproves ==
  [][\A w \in Workers :
       At(w, "approve") /\ At(w, "insert")' /\ DomainOf[worker[w].email] \in approved =>
         worker'[w].status = "active"]_vars

-----------------------------------------------------------------------------
(***************************************************************************)
(* The inductive invariant.                                                *)
(***************************************************************************)

\* Who is on record with an email has had it.
Owned ==
  /\ \A u \in Usernames : member[u] # None => u \in owners[member[u].email]
  /\ \A a \in Accounts : gitlab[a] # None => gitlab[a].username \in owners[gitlab[a].email]
  /\ \A t \in Tokens :
       token[t] # None /\ token[t].maker # None => token[t].maker \in owners[token[t].email]

\* GitLab has one account for a username.
OneAccount ==
  \A a, b \in Accounts :
    gitlab[a] # None /\ gitlab[b] # None /\ gitlab[a].username = gitlab[b].username => a = b

\* The account a is one of GitLab's, and u's own unless an email was handed on.
AccountOf(a, u) == gitlab[a] # None /\ (~HandedOn => gitlab[a].username = u)

MembersOK == \A u \in Usernames :
  member[u] # None /\ member[u].gitlab # None => AccountOf(member[u].gitlab, u)

\* What a request with the frame f holds on to, by the step it is at.
FrameOK(f) ==
  /\ f.pc \notin {"idle", "mint"} => f.key # None
  /\ f.pc \in {"email", "approve", "insert", "check", "update", "create", "mint"} => f.email # None
  /\ f.pc = "insert" => f.status # None
  /\ f.pc \in {"update", "check", "commit"} \cup SyncSteps => member[f.key] # None
  /\ f.pc \in {"commit"} \cup SyncSteps => f.status # None
  /\ f.pc \in {"create", "token", "record", "unblock"} => f.status = "active"
  /\ f.pc = "block" => f.status = "suspended"
  /\ f.pc \in {"unblock", "block", "token", "record"} =>
       f.account # None /\ AccountOf(f.account, f.key)
  /\ f.pc \in {"create", "mint"} /\ f.key # None => f.key \in owners[f.email]

\* A change of status nothing interferes with: the row has the status, and once
\* unblocked the account stays so.
AloneOK(f) ==
  f.pc \in SyncSteps =>
    /\ f.key \notin synced
    /\ f.alone => member[f.key].status = f.status
    /\ f.alone /\ f.pc \in {"token", "record"} /\ ~HandedOn => ~gitlab[f.account].blocked

\* No other change of status of the same member is under way.
Apart ==
  \A w \in Workers : worker[w].alone /\ worker[w].pc \in SyncSteps =>
    \A x \in Workers \ {w} : ~Syncing(x, worker[w].key)

SyncedOK == \A u \in synced : member[u] # None /\ \A w \in Workers : ~Syncing(w, u)

IInv ==
  /\ TypeOK
  /\ Owned
  /\ OneAccount
  /\ MembersOK
  /\ \A w \in Workers : FrameOK(worker[w]) /\ AloneOK(worker[w])
  /\ Apart
  /\ SyncedOK
  /\ AccountFollowsStatus
=============================================================================
