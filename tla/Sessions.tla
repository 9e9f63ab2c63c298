------------------------------ MODULE Sessions ------------------------------
(***************************************************************************)
(* The sessions of one member (api/auth/cas_auth.py).  A request proves     *)
(* who it is for by a ticket of CAS, which is validated there and then     *)
(* remembered as a session, or by a JWT.  Either leaves the member's        *)
(* Earthdata Login token in the member's row: CAS sends one along, and for *)
(* a JWT the token is fetched from Keycloak's broker when the one at hand  *)
(* nears its end.  When that is, each process remembers for itself.        *)
(*                                                                         *)
(* A token of Earthdata Login stands for the time it expires, 0 for none.  *)
(***************************************************************************)
EXTENDS FiniteSets, Integers

CONSTANTS
  Workers,     \* processes of gunicorn, each serving one request at a time
  Tickets,     \* proxy-granting tickets of CAS
  MaxTime,     \* bound of the clock
  SessionAge,  \* pgt_token_duration_in_days
  Lifetime,    \* of a token of Earthdata Login
  Buffer,      \* EDL_TOKEN_REFRESH_BUFFER
  None

ASSUME TimeAssumption ==
  /\ MaxTime \in Nat /\ SessionAge \in Nat \ {0} /\ Lifetime \in Nat \ {0} /\ Buffer \in Nat
  /\ None \notin Int \cup {"served", "failed"}

Times == 0 .. MaxTime

Expirations == 0 .. (MaxTime + Lifetime)

VARIABLES
  now,
  broker,   \* Keycloak: the token of the member's last login
  exists,   \* database: whether the member has a row
  urs,      \* database: member.urs_token
  session,  \* database: when the session of each ticket was created
  cache,    \* _edl_token_expiration_cache of each process
  worker,   \* the request each process serves
  suspect   \* history: the processes whose cache may not be about the row's token

vars == <<now, broker, exists, urs, session, cache, worker, suspect>>

-----------------------------------------------------------------------------

\* token: the one to store; loaded: the row's token when the request read it.  What
\* nothing reads any more is reset.
Frame ==
  [pc: {"idle", "refresh", "fetch", "store", "insertJwt", "create", "created", "validate", "start",
        "createCas", "update", "insert"},
   ticket: Tickets \cup {None}, token: Expirations, loaded: Expirations,
   reply: {"served", "failed", None}]

Idle ==
  [pc |-> "idle", ticket |-> None, token |-> 0, loaded |-> 0, reply |-> None]

TypeOK ==
  /\ now \in Times
  /\ broker \in Expirations
  /\ exists \in BOOLEAN
  /\ urs \in Expirations
  /\ session \in [Tickets -> Times \cup {None}]
  /\ cache \in [Workers -> Expirations]
  /\ worker \in [Workers -> Frame]
  /\ suspect \subseteq Workers

Init ==
  /\ now = 0
  /\ broker = 0
  /\ exists = FALSE
  /\ urs = 0
  /\ session = [t \in Tickets |-> None]
  /\ cache = [w \in Workers |-> 0]
  /\ worker = [w \in Workers |-> Idle]
  /\ suspect = {}

At(w, pc) == worker[w].pc = pc

GoTo(w, frame) == worker' = [worker EXCEPT ![w] = frame]

Answer(w, reply) == GoTo(w, [Idle EXCEPT !.reply = reply])

-----------------------------------------------------------------------------
(***************************************************************************)
(* A request with a JWT.                                                   *)
(***************************************************************************)

\* auto: the JWT has a compute role.
Jwt(w, auto) ==
  /\ At(w, "idle")
  /\ \/ /\ exists
        /\ GoTo(w, [Idle EXCEPT !.pc = "refresh", !.loaded = urs])
     \/ /\ ~exists
        /\ GoTo(w, IF auto THEN [Idle EXCEPT !.pc = "create"]
                   ELSE [Idle EXCEPT !.reply = "failed"])
  /\ UNCHANGED <<now, broker, exists, urs, session, cache, suspect>>

\* The username is unique: the slower of two is an error.
CreateMember(w) ==
  /\ At(w, "create")
  /\ \/ /\ ~exists
        /\ exists' = TRUE
        /\ GoTo(w, [worker[w] EXCEPT !.pc = "created"])
     \/ /\ exists
        /\ Answer(w, "failed")
        /\ UNCHANGED exists
  /\ UNCHANGED <<now, broker, urs, session, cache, suspect>>

\* The commit expires what SQLAlchemy knows of the row, which is read again.
ReadCreated(w) ==
  /\ At(w, "created")
  /\ GoTo(w, [worker[w] EXCEPT !.pc = "refresh", !.loaded = urs])
  /\ UNCHANGED <<now, broker, exists, urs, session, cache, suspect>>

\* Skipping until the token has expired, and not a while before.
SkipsTooLong(w) == worker[w].loaded # 0 /\ cache[w] # 0 /\ now < cache[w] + Buffer

\* The token at hand is taken to last.
Skips(w) == worker[w].loaded # 0 /\ cache[w] # 0 /\ now < cache[w] - Buffer

\* The request is done with the token.
Leave(w) == GoTo(w, [Idle EXCEPT !.pc = "insertJwt"])

CheckCache(w) ==
  /\ At(w, "refresh")
  /\ IF Skips(w) THEN Leave(w) ELSE GoTo(w, [worker[w] EXCEPT !.pc = "fetch"])
  /\ UNCHANGED <<now, broker, exists, urs, session, cache, suspect>>

\* The broker keeps the token of the last login, and gets another when it expired.
BrokerToken == IF broker > now THEN broker ELSE now + Lifetime

\* A token that is not stored when the row has one.
FetchKeepsToken(w) ==
  /\ At(w, "fetch")
  /\ broker' = BrokerToken
  /\ cache' \in {cache, [cache EXCEPT ![w] = BrokerToken]}
  /\ IF worker[w].loaded # 0 THEN Leave(w)
     ELSE GoTo(w, [Idle EXCEPT !.pc = "store", !.token = BrokerToken])
  /\ UNCHANGED <<now, exists, urs, session, suspect>>

\* When a token expires is remembered, if the broker says so, before the token is
\* stored, which is left out when it is the one the request has read.
Fetch(w) ==
  /\ At(w, "fetch")
  /\ broker' = BrokerToken
  /\ cache' \in {cache, [cache EXCEPT ![w] = BrokerToken]}
  /\ IF BrokerToken = worker[w].loaded THEN Leave(w)
     ELSE GoTo(w, [Idle EXCEPT !.pc = "store", !.token = BrokerToken])
  /\ UNCHANGED <<now, exists, urs, session, suspect>>

\* The broker's answer is lost, an error, or has no token: the request goes on.
FetchFails(w) ==
  /\ At(w, "fetch")
  /\ broker' \in {broker, BrokerToken}
  /\ Leave(w)
  /\ UNCHANGED <<now, exists, urs, session, cache, suspect>>

\* What it says of the expiration is no time, and raises.
FetchRaises(w) ==
  /\ At(w, "fetch")
  /\ broker' = BrokerToken
  /\ Answer(w, "failed")
  /\ UNCHANGED <<now, exists, urs, session, cache, suspect>>

\* Without an expiration in the answer, what the process remembers is of a token before.
StoreToken(w) ==
  LET token == worker[w].token
      fits == IF cache[w] <= token THEN {w} ELSE {}
  IN
  /\ At(w, "store")
  /\ urs' = token
  /\ suspect' = (IF token < urs THEN Workers ELSE suspect) \ fits
  /\ Leave(w)
  /\ UNCHANGED <<now, broker, exists, session, cache>>

\* A commit that fails is rolled back and logged with the member's name, which is read
\* again for that; when it cannot be, the request fails too.
StoreFails(w) ==
  /\ At(w, "store")
  /\ suspect' = suspect \cup {w}
  /\ Leave(w) \/ Answer(w, "failed")
  /\ UNCHANGED <<now, broker, exists, urs, session, cache>>

\* The session of the JWT itself, once: no ticket asks for it.
InsertJwt(w) ==
  /\ At(w, "insertJwt")
  /\ Answer(w, "served")
  /\ UNCHANGED <<now, broker, exists, urs, session, cache, suspect>>

-----------------------------------------------------------------------------
(***************************************************************************)
(* A request with a ticket of CAS.                                         *)
(***************************************************************************)

Cas(w, t) ==
  /\ At(w, "idle")
  /\ IF session[t] # None /\ session[t] + SessionAge > now
     THEN GoTo(w, [Idle EXCEPT !.reply = "served"])
     ELSE GoTo(w, [Idle EXCEPT !.pc = "validate", !.ticket = t])
  /\ UNCHANGED <<now, broker, exists, urs, session, cache, suspect>>

\* CAS is asked twice, and tells who the ticket is for, with a token or without.
Validate(w, valid, token) ==
  /\ At(w, "validate")
  /\ IF valid THEN GoTo(w, [worker[w] EXCEPT !.pc = "start", !.token = token])
     ELSE Answer(w, "failed")
  /\ UNCHANGED <<now, broker, exists, urs, session, cache, suspect>>

\* auto: a member without a row gets one, as it is at a login.
ReadMember(w, auto) ==
  /\ At(w, "start")
  /\ \/ /\ exists
        /\ GoTo(w, [worker[w] EXCEPT !.pc = "update"])
     \/ /\ ~exists
        /\ IF auto THEN GoTo(w, [worker[w] EXCEPT !.pc = "createCas"])
           ELSE Answer(w, "failed")
  /\ UNCHANGED <<now, broker, exists, urs, session, cache, suspect>>

\* Whatever token CAS sent takes the place of the one at hand.
StoreMember(w) ==
  /\ worker[w].pc \in {"createCas", "update"}
  /\ IF At(w, "createCas") /\ exists
     THEN /\ Answer(w, "failed")
          /\ UNCHANGED <<exists, urs, suspect>>
     ELSE /\ exists' = TRUE
          /\ urs' = worker[w].token
          /\ suspect' = Workers
          /\ GoTo(w, [worker[w] EXCEPT !.pc = "insert", !.token = 0])
  /\ UNCHANGED <<now, broker, session, cache>>

\* The ticket is unique among the sessions, an old one of it included.
InsertSession(w) ==
  LET t == worker[w].ticket IN
  /\ At(w, "insert")
  /\ IF session[t] = None
     THEN /\ session' = [session EXCEPT ![t] = now]
          /\ Answer(w, "served")
     ELSE /\ Answer(w, "failed")
          /\ UNCHANGED session
  /\ UNCHANGED <<now, broker, exists, urs, cache, suspect>>

-----------------------------------------------------------------------------

\* A statement or a call to CAS fails.
Fail(w) ==
  /\ worker[w].pc \in {"create", "created", "insertJwt", "validate", "createCas", "update", "insert"}
  /\ Answer(w, "failed")
  /\ UNCHANGED <<now, broker, exists, urs, session, cache, suspect>>

\* A process is killed, and another takes its place.
Restart(w) ==
  /\ GoTo(w, Idle)
  /\ cache' = [cache EXCEPT ![w] = 0]
  /\ suspect' = suspect \ {w}
  /\ UNCHANGED <<now, broker, exists, urs, session>>

Tick ==
  /\ now < MaxTime
  /\ now' = now + 1
  /\ UNCHANGED <<broker, exists, urs, session, cache, worker, suspect>>

\* The member logs in to Earthdata anew.
Login ==
  /\ broker < now + Lifetime
  /\ broker' = now + Lifetime
  /\ UNCHANGED <<now, exists, urs, session, cache, worker, suspect>>

\* CAS sends none or one that lasts for a while; for ESA's users it is the one in the
\* row of a system account, which may have expired.
CasTokens == 0 .. (now + Lifetime)

Step(w) ==
  \/ \E auto \in BOOLEAN : Jwt(w, auto) \/ ReadMember(w, auto)
  \/ \E t \in Tickets : Cas(w, t)
  \/ CreateMember(w) \/ ReadCreated(w)
  \/ CheckCache(w) \/ Fetch(w) \/ FetchFails(w) \/ FetchRaises(w)
  \/ StoreToken(w) \/ StoreFails(w) \/ InsertJwt(w)
  \/ \E valid \in BOOLEAN, token \in CasTokens : Validate(w, valid, token)
  \/ StoreMember(w) \/ InsertSession(w)
  \/ Fail(w) \/ Restart(w)

Next == (\E w \in Workers : Step(w)) \/ Tick \/ Login

Spec == Init /\ [][Next]_vars

-----------------------------------------------------------------------------
(***************************************************************************)
(* Properties.                                                             *)
(***************************************************************************)

\* "Refresh member.urs_token from the Keycloak EDL broker endpoint when it is missing
\* or close to expiring" (cas_auth.py:347): a request that leaves the token alone,
\* for what its process remembers, leaves one that lasts.
RefreshesInTime ==
  [][\A w \in Workers :
       At(w, "refresh") /\ At(w, "insertJwt")' => urs > now + Buffer]_vars

\* The same, as far as the memory of a process is about the token of the row: until
\* CAS sends another, the process fails to store one, or an older one overtakes.
SkipsOnlyFresh ==
  [][\A w \in Workers \ suspect :
       At(w, "refresh") /\ At(w, "insertJwt")' => urs > now + Buffer]_vars

\* "If validation is successful, then a Member object is returned and the validated
\* proxy ticket is saved in the session db table" (cas_auth.py:109): a ticket that
\* CAS found valid, and whose member is stored, gets its session.
ValidatedIsSaved ==
  [][\A w \in Workers :
       At(w, "insert") /\ worker'[w].reply = "failed" => session[worker[w].ticket] # None
          /\ session[worker[w].ticket] + SessionAge > now]_vars

-----------------------------------------------------------------------------
(***************************************************************************)
(* The inductive invariant.                                                *)
(***************************************************************************)

\* What a process remembers is about the row's token or an earlier one, unless it is of
\* one about to be stored, and a row that is being looked at only gets later ones.
CacheOK ==
  \A w \in Workers \ suspect :
    /\ cache[w] <= urs \/ (At(w, "store") /\ cache[w] = worker[w].token)
    /\ worker[w].pc \in {"refresh", "fetch"} => worker[w].loaded <= urs

IInv == TypeOK /\ CacheOK
=============================================================================
