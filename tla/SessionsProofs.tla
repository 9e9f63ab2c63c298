--------------------------- MODULE SessionsProofs ---------------------------
(***************************************************************************)
(* A process whose memory is about the token of the member's row skips the *)
(* broker only while that token lasts, for any number of processes and     *)
(* tickets and all durations.                                              *)
(***************************************************************************)
EXTENDS Sessions, TLAPS

\* What arithmetic needs to know of the clock.
LEMMA TimesAreNumbers ==
  /\ Times \subseteq Nat /\ Expirations \subseteq Nat /\ Times \subseteq Expirations
  /\ 0 \in Times /\ 0 \in Expirations /\ None \notin Expirations
  /\ \A t \in Times : t + Lifetime \in Expirations /\ CasTokens \subseteq Int
BY TimeAssumption DEF Times, Expirations, CasTokens

LEMMA IdleIsFrame ==
  /\ Idle \in Frame /\ Idle.pc = "idle"
  /\ \A r \in {"served", "failed", None} :
       [Idle EXCEPT !.reply = r] \in Frame /\ [Idle EXCEPT !.reply = r].pc = "idle"
BY TimesAreNumbers DEF Idle, Frame

LEMMA InitOK == Init => IInv
<1> SUFFICES ASSUME Init PROVE IInv
  OBVIOUS
<1>1. TypeOK
  BY TimesAreNumbers, IdleIsFrame DEF Init, TypeOK
<1>2. CacheOK
  BY IdleIsFrame DEF Init, CacheOK, At
<1> QED BY <1>1, <1>2 DEF IInv

\* A step of w that leaves the row's token and the caches alone.
LEMMA QuietOK ==
  ASSUME IInv, NEW w \in Workers, NEW g \in Frame, worker' = [worker EXCEPT ![w] = g],
         UNCHANGED <<urs, cache>>, suspect' = suspect, now' \in Times, broker' \in Expirations,
         exists' \in BOOLEAN, session' \in [Tickets -> Times \cup {None}],
         ~At(w, "store"), g.pc # "store",
         g.pc \in {"refresh", "fetch"} => g.loaded <= urs \/ w \in suspect
  PROVE  IInv'
<1>1. worker' \in [Workers -> Frame] /\ worker'[w] = g /\ \A x \in Workers \ {w} : worker'[x] = worker[x]
  BY DEF IInv, TypeOK
<1>2. TypeOK'
  BY <1>1 DEF IInv, TypeOK
<1>3. CacheOK'
  BY <1>1 DEF IInv, CacheOK, At
<1> QED BY <1>2, <1>3 DEF IInv

LEMMA QuietAnswerOK ==
  ASSUME IInv, NEW w \in Workers, NEW r \in {"served", "failed", None}, Answer(w, r),
         UNCHANGED <<urs, cache>>, suspect' = suspect, now' \in Times, broker' \in Expirations,
         exists' \in BOOLEAN, session' \in [Tickets -> Times \cup {None}], ~At(w, "store")
  PROVE  IInv'
<1> PICK g : g = [Idle EXCEPT !.reply = r]
  OBVIOUS
<1>1. g \in Frame /\ g.pc = "idle" /\ worker' = [worker EXCEPT ![w] = g]
  BY IdleIsFrame DEF Answer, GoTo
<1> QED BY <1>1, QuietOK

\* A step of w after which it is done with the row's token.
LEMMA LeaveEffect ==
  ASSUME IInv, NEW w \in Workers, Leave(w)
  PROVE  \E g \in Frame : g.pc = "insertJwt" /\ worker' = [worker EXCEPT ![w] = g]
<1> PICK g : g = [Idle EXCEPT !.pc = "insertJwt"]
  OBVIOUS
<1>1. g \in Frame /\ g.pc = "insertJwt"
  BY IdleIsFrame DEF Frame, Idle
<1> QED BY <1>1 DEF Leave, GoTo

LEMMA QuietLeaveOK ==
  ASSUME IInv, NEW w \in Workers, Leave(w), UNCHANGED <<now, exists, urs, session, cache, suspect>>,
         broker' \in Expirations, ~At(w, "store")
  PROVE  IInv'
<1> PICK g \in Frame : g.pc = "insertJwt" /\ worker' = [worker EXCEPT ![w] = g]
  BY LeaveEffect
<1> QED BY QuietOK DEF IInv, TypeOK

LEMMA JwtOK == ASSUME IInv, NEW w \in Workers, NEW auto \in BOOLEAN, Jwt(w, auto) PROVE IInv'
<1> USE TimesAreNumbers DEF IInv, TypeOK
<1> PICK g : g = [Idle EXCEPT !.pc = "refresh", !.loaded = urs]
  OBVIOUS
<1> PICK h : h = [Idle EXCEPT !.pc = "create"]
  OBVIOUS
<1>1. g \in Frame /\ g.pc = "refresh" /\ g.loaded = urs /\ h \in Frame /\ h.pc = "create" /\ h.loaded = 0
  BY IdleIsFrame DEF Idle, Frame
<1>2. At(w, "idle") /\ UNCHANGED <<now, broker, exists, urs, session, cache, suspect>>
  BY DEF Jwt
<1>3. ~At(w, "store") /\ urs <= urs /\ 0 <= urs
  BY <1>2 DEF At
<1>4. CASE GoTo(w, g)
  BY <1>1, <1>2, <1>3, <1>4, QuietOK DEF GoTo
<1>5. CASE GoTo(w, h)
  BY <1>1, <1>2, <1>3, <1>5, QuietOK DEF GoTo
<1>6. CASE GoTo(w, [Idle EXCEPT !.reply = "failed"])
  <2>1. Answer(w, "failed")
    BY <1>6 DEF Answer
  <2> QED BY <2>1, <1>2, <1>3, QuietAnswerOK
<1> QED BY <1>4, <1>5, <1>6 DEF Jwt

LEMMA CreateMemberOK == ASSUME IInv, NEW w \in Workers, CreateMember(w) PROVE IInv'
<1> USE TimesAreNumbers DEF IInv, TypeOK
<1>1. At(w, "create") /\ ~At(w, "store") /\ UNCHANGED <<now, broker, urs, session, cache, suspect>>
  BY DEF CreateMember, At
<1>2. CASE exists' = TRUE /\ GoTo(w, [worker[w] EXCEPT !.pc = "created"])
  <2> PICK g : g = [worker[w] EXCEPT !.pc = "created"]
    OBVIOUS
  <2>1. g \in Frame /\ g.pc = "created"
    BY DEF Frame
  <2> QED BY <2>1, <1>1, <1>2, QuietOK DEF GoTo
<1>3. CASE Answer(w, "failed") /\ exists' = exists
  BY <1>1, <1>3, QuietAnswerOK
<1> QED BY <1>2, <1>3 DEF CreateMember

LEMMA ReadCreatedOK == ASSUME IInv, NEW w \in Workers, ReadCreated(w) PROVE IInv'
<1> USE TimesAreNumbers DEF IInv, TypeOK
<1> PICK g : g = [worker[w] EXCEPT !.pc = "refresh", !.loaded = urs]
  OBVIOUS
<1>1. g \in Frame /\ g.pc = "refresh" /\ g.loaded = urs
  BY DEF Frame
<1>2. ~At(w, "store") /\ GoTo(w, g) /\ UNCHANGED <<now, broker, exists, urs, session, cache, suspect>>
  BY DEF ReadCreated, At
<1>3. urs <= urs
  OBVIOUS
<1> QED BY <1>1, <1>2, <1>3, QuietOK DEF GoTo

LEMMA CheckCacheOK == ASSUME IInv, NEW w \in Workers, CheckCache(w) PROVE IInv'
<1> USE TimesAreNumbers DEF IInv, TypeOK
<1>1. At(w, "refresh") /\ ~At(w, "store") /\ UNCHANGED <<now, broker, exists, urs, session, cache, suspect>>
  BY DEF CheckCache, At
<1>2. CASE Leave(w)
  BY <1>1, <1>2, QuietLeaveOK
<1>3. CASE GoTo(w, [worker[w] EXCEPT !.pc = "fetch"])
  <2> PICK g : g = [worker[w] EXCEPT !.pc = "fetch"]
    OBVIOUS
  <2>1. g \in Frame /\ g.pc = "fetch" /\ g.loaded = worker[w].loaded
    BY DEF Frame
  <2>2. w \notin suspect => worker[w].loaded <= urs
    BY <1>1 DEF CacheOK, At
  <2> QED BY <2>1, <2>2, <1>1, <1>3, QuietOK DEF GoTo
<1> QED BY <1>2, <1>3 DEF CheckCache

\* A step of w that may set its cache, and leaves the row's token alone.
LEMMA CacheSetOK ==
  ASSUME IInv, NEW w \in Workers, NEW g \in Frame, NEW e \in Expirations,
         worker' = [worker EXCEPT ![w] = g], cache' = [cache EXCEPT ![w] = e],
         urs' = urs, suspect' \subseteq Workers, \A x \in Workers \ {w} : x \in suspect => x \in suspect',
         now' = now, broker' \in Expirations, exists' = exists, session' = session,
         g.pc \in {"idle", "store", "insertJwt"},
         w \in suspect' \/ e <= urs \/ (g.pc = "store" /\ g.token = e)
  PROVE  IInv'
<1>1. /\ worker' \in [Workers -> Frame] /\ worker'[w] = g
      /\ \A x \in Workers \ {w} : worker'[x] = worker[x]
      /\ cache' \in [Workers -> Expirations] /\ cache'[w] = e
      /\ \A x \in Workers \ {w} : cache'[x] = cache[x]
  BY DEF IInv, TypeOK
<1>2. TypeOK'
  BY <1>1 DEF IInv, TypeOK
<1>3. ASSUME NEW x \in Workers
      PROVE  (x \notin suspect =>
                /\ cache[x] <= urs \/ (At(x, "store") /\ cache[x] = worker[x].token)
                /\ worker[x].pc \in {"refresh", "fetch"} => worker[x].loaded <= urs)'
  <2>1. CASE x = w
    BY <2>1, <1>1 DEF At
  <2>2. CASE x # w
    BY <2>2, <1>1 DEF IInv, CacheOK, At
  <2> QED BY <2>1, <2>2
<1> QED BY <1>2, <1>3 DEF IInv, CacheOK

LEMMA BrokerTokenIsOne == IInv => BrokerToken \in Expirations
BY TimesAreNumbers DEF BrokerToken, IInv, TypeOK

LEMMA FetchOK == ASSUME IInv, NEW w \in Workers, Fetch(w) PROVE IInv'
<1> PICK b : b = BrokerToken
  OBVIOUS
<1>1. /\ b \in Expirations /\ broker' = b /\ At(w, "fetch")
      /\ cache' = cache \/ cache' = [cache EXCEPT ![w] = b]
      /\ UNCHANGED <<now, exists, urs, session, suspect>>
      /\ (b = worker[w].loaded /\ Leave(w)) \/ GoTo(w, [Idle EXCEPT !.pc = "store", !.token = b])
  BY BrokerTokenIsOne DEF Fetch
<1>2. PICK e \in Expirations : cache' = [cache EXCEPT ![w] = e] /\ e \in {cache[w], b}
  BY <1>1 DEF IInv, TypeOK
<1>3. w \in suspect' \/ cache[w] <= urs
  BY <1>1 DEF IInv, CacheOK, At
<1>4. suspect' \subseteq Workers
  BY <1>1 DEF IInv, TypeOK
<1>5. CASE b = worker[w].loaded /\ Leave(w)
  <2> PICK g \in Frame : g.pc = "insertJwt" /\ worker' = [worker EXCEPT ![w] = g]
    BY <1>5, LeaveEffect
  <2>1. w \in suspect' \/ b <= urs
    BY <1>1, <1>5 DEF IInv, CacheOK, At
  <2> QED BY <1>1, <1>2, <1>3, <1>4, <2>1, CacheSetOK
<1>6. CASE GoTo(w, [Idle EXCEPT !.pc = "store", !.token = b])
  <2> PICK g : g = [Idle EXCEPT !.pc = "store", !.token = b]
    OBVIOUS
  <2>1. g \in Frame /\ g.pc = "store" /\ g.token = b
    BY <1>1, IdleIsFrame DEF Frame, Idle
  <2>2. worker' = [worker EXCEPT ![w] = g]
    BY <1>6 DEF GoTo
  <2>3. w \in suspect' \/ e <= urs \/ (g.pc = "store" /\ g.token = e)
    BY <1>2, <1>3, <2>1
  <2> QED BY <1>1, <1>2, <1>4, <2>1, <2>2, <2>3, CacheSetOK
<1> QED BY <1>1, <1>5, <1>6

LEMMA RestartOK == ASSUME IInv, NEW w \in Workers, Restart(w) PROVE IInv'
<1> PICK g : g = Idle
  OBVIOUS
<1>1. g \in Frame /\ g.pc = "idle"
  BY IdleIsFrame
<1>2. /\ worker' = [worker EXCEPT ![w] = g] /\ cache' = [cache EXCEPT ![w] = 0]
      /\ suspect' = suspect \ {w} /\ UNCHANGED <<now, broker, exists, urs, session>>
  BY DEF Restart, GoTo
<1>3. 0 <= urs /\ broker' \in Expirations /\ suspect' \subseteq Workers
  BY <1>2, TimesAreNumbers DEF IInv, TypeOK
<1> QED BY <1>1, <1>2, <1>3, TimesAreNumbers, CacheSetOK

LEMMA StoreFailsOK == ASSUME IInv, NEW w \in Workers, StoreFails(w) PROVE IInv'
<1>1. PICK g \in Frame : g.pc \in {"idle", "insertJwt"} /\ worker' = [worker EXCEPT ![w] = g]
  <2>1. CASE Leave(w)
    BY <2>1, LeaveEffect
  <2>2. CASE Answer(w, "failed")
    <3> PICK g : g = [Idle EXCEPT !.reply = "failed"]
      OBVIOUS
    <3>1. g \in Frame /\ g.pc = "idle"
      BY IdleIsFrame
    <3> QED BY <2>2, <3>1 DEF Answer, GoTo
  <2> QED BY <2>1, <2>2 DEF StoreFails
<1>2. suspect' = suspect \cup {w} /\ UNCHANGED <<now, broker, exists, urs, session, cache>>
  BY DEF StoreFails
<1>3. cache' = [cache EXCEPT ![w] = cache[w]] /\ cache[w] \in Expirations /\ broker' \in Expirations
  BY <1>2 DEF IInv, TypeOK
<1>4. suspect' \subseteq Workers /\ w \in suspect'
  BY <1>2 DEF IInv, TypeOK
<1> QED BY <1>1, <1>2, <1>3, <1>4, CacheSetOK

\* A row's token that is written by w: the processes that may remember a later one
\* are suspect from then on.
LEMMA RowSetOK ==
  ASSUME IInv, NEW w \in Workers, NEW g \in Frame, NEW e \in Expirations,
         worker' = [worker EXCEPT ![w] = g], urs' = e, suspect' \subseteq Workers,
         UNCHANGED <<now, broker, session, cache>>, exists' \in BOOLEAN,
         g.pc \in {"insertJwt", "insert"},
         w \in suspect' \/ cache[w] <= e,
         \A x \in Workers \ {w} : x \in suspect' \/ (x \notin suspect /\ urs <= e)
  PROVE  IInv'
<1>1. /\ worker' \in [Workers -> Frame] /\ worker'[w] = g
      /\ \A x \in Workers \ {w} : worker'[x] = worker[x]
  BY DEF IInv, TypeOK
<1>2. TypeOK'
  BY <1>1 DEF IInv, TypeOK
<1>3. ASSUME NEW x \in Workers
      PROVE  (x \notin suspect =>
                /\ cache[x] <= urs \/ (At(x, "store") /\ cache[x] = worker[x].token)
                /\ worker[x].pc \in {"refresh", "fetch"} => worker[x].loaded <= urs)'
  <2>1. CASE x = w
    BY <2>1, <1>1 DEF At
  <2>2. CASE x # w
    <3>1. cache[x] \in Nat /\ worker[x].loaded \in Nat /\ urs \in Nat /\ e \in Nat
      BY TimesAreNumbers DEF IInv, TypeOK, Frame
    <3> QED BY <3>1, <2>2, <1>1 DEF IInv, CacheOK, At
  <2> QED BY <2>1, <2>2
<1> QED BY <1>2, <1>3 DEF IInv, CacheOK

LEMMA StoreTokenOK == ASSUME IInv, NEW w \in Workers, StoreToken(w) PROVE IInv'
<1> PICK e : e = worker[w].token
  OBVIOUS
<1> PICK g \in Frame : g.pc = "insertJwt" /\ worker' = [worker EXCEPT ![w] = g]
  BY LeaveEffect DEF StoreToken
<1> PICK fits : fits = IF cache[w] <= e THEN {w} ELSE {}
  OBVIOUS
<1>1. e \in Expirations
  BY DEF IInv, TypeOK, Frame
<1>2. /\ At(w, "store") /\ urs' = e
      /\ suspect' = (IF e < urs THEN Workers ELSE suspect) \ fits
      /\ UNCHANGED <<now, broker, exists, session, cache>>
  BY DEF StoreToken
<1>3. e \in Nat /\ urs \in Nat /\ cache[w] \in Nat /\ suspect \subseteq Workers
  BY <1>1, TimesAreNumbers DEF IInv, TypeOK
<1>4. \A x \in Workers \ {w} : x \in suspect' \/ (x \notin suspect /\ urs <= e)
  BY <1>2, <1>3
<1>5. w \in suspect' \/ cache[w] <= e
  <2>1. SUFFICES ASSUME ~(cache[w] <= e) PROVE w \in suspect'
    OBVIOUS
  <2>2. w \notin fits
    BY <2>1
  <2>3. e < urs \/ w \in suspect
    BY <1>2, <1>3, <2>1 DEF IInv, CacheOK, At
  <2> QED BY <1>2, <2>2, <2>3
<1>6. suspect' \subseteq Workers
  BY <1>2, <1>3
<1>7. exists' \in BOOLEAN
  BY <1>2 DEF IInv, TypeOK
<1> QED BY <1>1, <1>2, <1>4, <1>5, <1>6, <1>7, RowSetOK

LEMMA CasOK == ASSUME IInv, NEW w \in Workers, NEW t \in Tickets, Cas(w, t) PROVE IInv'
<1> USE DEF IInv, TypeOK
<1> PICK g : g = [Idle EXCEPT !.pc = "validate", !.ticket = t]
  OBVIOUS
<1>1. g \in Frame /\ g.pc = "validate"
  BY IdleIsFrame DEF Idle, Frame
<1>2. ~At(w, "store") /\ UNCHANGED <<now, broker, exists, urs, session, cache, suspect>>
  BY DEF Cas, At
<1>3. CASE GoTo(w, [Idle EXCEPT !.reply = "served"])
  <2>1. Answer(w, "served")
    BY <1>3 DEF Answer
  <2> QED BY <2>1, <1>2, QuietAnswerOK
<1>4. CASE GoTo(w, g)
  BY <1>1, <1>2, <1>4, QuietOK DEF GoTo
<1> QED BY <1>3, <1>4 DEF Cas

LEMMA ValidateOK ==
  ASSUME IInv, NEW w \in Workers, NEW valid \in BOOLEAN, NEW token \in CasTokens,
         Validate(w, valid, token)
  PROVE  IInv'
<1> USE DEF IInv, TypeOK
<1> PICK g : g = [worker[w] EXCEPT !.pc = "start", !.token = token]
  OBVIOUS
<1>1. token \in Expirations
  BY TimeAssumption DEF CasTokens, Expirations, Times
<1>2. g \in Frame /\ g.pc = "start"
  BY <1>1 DEF Frame
<1>3. ~At(w, "store") /\ UNCHANGED <<now, broker, exists, urs, session, cache, suspect>>
  BY DEF Validate, At
<1>4. CASE Answer(w, "failed")
  BY <1>3, <1>4, QuietAnswerOK
<1>5. CASE GoTo(w, g)
  BY <1>2, <1>3, <1>5, QuietOK DEF GoTo
<1> QED BY <1>4, <1>5 DEF Validate

LEMMA ReadMemberOK == ASSUME IInv, NEW w \in Workers, NEW auto \in BOOLEAN, ReadMember(w, auto) PROVE IInv'
<1> USE DEF IInv, TypeOK
<1> PICK g : g = [worker[w] EXCEPT !.pc = "update"]
  OBVIOUS
<1> PICK h : h = [worker[w] EXCEPT !.pc = "createCas"]
  OBVIOUS
<1>1. g \in Frame /\ g.pc = "update" /\ h \in Frame /\ h.pc = "createCas"
  BY DEF Frame
<1>2. ~At(w, "store") /\ UNCHANGED <<now, broker, exists, urs, session, cache, suspect>>
  BY DEF ReadMember, At
<1>3. CASE GoTo(w, g)
  BY <1>1, <1>2, <1>3, QuietOK DEF GoTo
<1>4. CASE GoTo(w, h)
  BY <1>1, <1>2, <1>4, QuietOK DEF GoTo
<1>5. CASE Answer(w, "failed")
  BY <1>2, <1>5, QuietAnswerOK
<1> QED BY <1>3, <1>4, <1>5 DEF ReadMember

LEMMA StoreMemberOK == ASSUME IInv, NEW w \in Workers, StoreMember(w) PROVE IInv'
<1>1. ~At(w, "store") /\ UNCHANGED <<now, broker, session, cache>>
  BY DEF StoreMember, At
<1>2. CASE Answer(w, "failed") /\ UNCHANGED <<exists, urs, suspect>>
  BY <1>1, <1>2, QuietAnswerOK DEF IInv, TypeOK
<1>3. CASE /\ exists' = TRUE /\ urs' = worker[w].token /\ suspect' = Workers
           /\ GoTo(w, [worker[w] EXCEPT !.pc = "insert", !.token = 0])
  <2> PICK g : g = [worker[w] EXCEPT !.pc = "insert", !.token = 0]
    OBVIOUS
  <2>1. g \in Frame /\ g.pc = "insert" /\ worker[w].token \in Expirations
    BY IdleIsFrame DEF IInv, TypeOK, Frame, Idle
  <2>2. worker' = [worker EXCEPT ![w] = g]
    BY <1>3 DEF GoTo
  <2> QED BY <2>1, <2>2, <1>1, <1>3, RowSetOK
<1> QED BY <1>2, <1>3 DEF StoreMember

LEMMA InsertSessionOK == ASSUME IInv, NEW w \in Workers, InsertSession(w) PROVE IInv'
<1>1. ~At(w, "store") /\ UNCHANGED <<now, broker, exists, urs, cache, suspect>>
  BY DEF InsertSession, At
<1>2. session' \in [Tickets -> Times \cup {None}]
  BY DEF InsertSession, IInv, TypeOK
<1>3. Answer(w, "served") \/ Answer(w, "failed")
  BY DEF InsertSession
<1> QED BY <1>1, <1>2, <1>3, QuietAnswerOK DEF IInv, TypeOK

LEMMA FailOK ==
  ASSUME IInv, NEW w \in Workers, Fail(w) \/ FetchFails(w) \/ FetchRaises(w) \/ InsertJwt(w)
  PROVE  IInv'
<1>1. /\ ~At(w, "store") /\ UNCHANGED <<now, exists, urs, session, cache, suspect>>
      /\ broker' \in {broker, BrokerToken}
      /\ Answer(w, "served") \/ Answer(w, "failed") \/ Leave(w)
  BY DEF Fail, FetchFails, FetchRaises, InsertJwt, At
<1>2. broker' \in Expirations
  BY <1>1, BrokerTokenIsOne DEF IInv, TypeOK
<1> QED BY <1>1, <1>2, QuietAnswerOK, QuietLeaveOK DEF IInv, TypeOK

LEMMA NextOK == IInv /\ [Next]_vars => IInv'
<1> SUFFICES ASSUME IInv, [Next]_vars PROVE IInv'
  OBVIOUS
<1>1. ASSUME NEW w \in Workers, Step(w) PROVE IInv'
  <2>1. ASSUME NEW auto \in BOOLEAN, Jwt(w, auto) \/ ReadMember(w, auto) PROVE IInv'
    BY <2>1, JwtOK, ReadMemberOK
  <2>2. ASSUME NEW t \in Tickets, Cas(w, t) PROVE IInv'
    BY <2>2, CasOK
  <2>3. ASSUME NEW valid \in BOOLEAN, NEW token \in CasTokens, Validate(w, valid, token) PROVE IInv'
    BY <2>3, ValidateOK
  <2>4. CASE CreateMember(w) \/ ReadCreated(w) \/ CheckCache(w) \/ Fetch(w)
    BY <2>4, CreateMemberOK, ReadCreatedOK, CheckCacheOK, FetchOK
  <2>5. CASE StoreToken(w) \/ StoreFails(w) \/ StoreMember(w) \/ InsertSession(w)
    BY <2>5, StoreTokenOK, StoreFailsOK, StoreMemberOK, InsertSessionOK
  <2>6. CASE Fail(w) \/ FetchFails(w) \/ FetchRaises(w) \/ InsertJwt(w) \/ Restart(w)
    BY <2>6, FailOK, RestartOK
  <2> QED BY <1>1, <2>1, <2>2, <2>3, <2>4, <2>5, <2>6 DEF Step
<1>2. CASE Tick \/ Login
  <2>1. now' \in Times /\ broker' \in Expirations
    BY <1>2, TimeAssumption DEF Tick, Login, IInv, TypeOK, Times, Expirations
  <2>2. UNCHANGED <<exists, urs, session, cache, worker, suspect>>
    BY <1>2 DEF Tick, Login
  <2> QED BY <2>1, <2>2 DEF IInv, TypeOK, CacheOK, At
<1>3. CASE UNCHANGED vars
  BY <1>3 DEF vars, IInv, TypeOK, CacheOK, At
<1> QED BY <1>1, <1>2, <1>3 DEF Next

\* What a process remembers is about the token in the member's row or an earlier
\* one, unless a login, a failed commit or an older token came in between
\* (refresh_urs_token, cas_auth.py:346).
THEOREM Invariance == Spec => []IInv
<1>1. Init => IInv
  BY InitOK
<1>2. IInv /\ [Next]_vars => IInv'
  BY NextOK
<1> QED BY <1>1, <1>2, PTL DEF Spec

\* A step of w touches the frame of w alone, so that what a step of the service does
\* to the frame of a worker is that worker's own step.
LEMMA OwnStep ==
  ASSUME IInv, [Next]_vars, NEW w \in Workers, worker'[w] # worker[w]
  PROVE  Step(w)
<1>1. CASE \E x \in Workers : Step(x)
  <2> PICK x \in Workers : Step(x)
    BY <1>1
  <2>1. ASSUME x # w PROVE FALSE
    <3>1. \A g : GoTo(x, g) => worker'[w] = worker[w]
      BY <2>1 DEF GoTo, IInv, TypeOK
    <3>2. /\ \A r : Answer(x, r) => worker'[w] = worker[w]
          /\ Leave(x) => worker'[w] = worker[w]
      BY <3>1 DEF Answer, Leave
    <3>3. CASE \E auto \in BOOLEAN : Jwt(x, auto) \/ ReadMember(x, auto)
      BY <3>1, <3>2, <3>3 DEF Jwt, ReadMember
    <3>4. CASE \E t \in Tickets : Cas(x, t)
      BY <3>1, <3>2, <3>4 DEF Cas
    <3>5. CASE \E valid \in BOOLEAN, token \in CasTokens : Validate(x, valid, token)
      BY <3>1, <3>2, <3>5 DEF Validate
    <3>6. CASE CreateMember(x) \/ ReadCreated(x) \/ CheckCache(x) \/ Fetch(x)
                \/ FetchFails(x) \/ FetchRaises(x) \/ InsertJwt(x)
      BY <3>1, <3>2, <3>6 DEF CreateMember, ReadCreated, CheckCache, Fetch, FetchFails, FetchRaises,
                              InsertJwt
    <3>7. CASE StoreToken(x) \/ StoreFails(x) \/ StoreMember(x) \/ InsertSession(x)
      BY <3>1, <3>2, <3>7 DEF StoreToken, StoreFails, StoreMember, InsertSession
    <3>8. CASE Fail(x) \/ Restart(x)
      BY <3>1, <3>2, <3>8 DEF Fail, Restart
    <3> QED BY <3>3, <3>4, <3>5, <3>6, <3>7, <3>8 DEF Step
  <2> QED BY <2>1
<1>2. CASE Tick \/ Login
  BY <1>2 DEF Tick, Login
<1>3. CASE UNCHANGED vars
  BY <1>3 DEF vars
<1> QED BY <1>1, <1>2, <1>3 DEF Next

\* A request that finds the token fresh enough, from a process whose memory is about
\* the member's row, leaves a token that lasts (refresh_urs_token, cas_auth.py:355).
THEOREM SkippingIsSound == Spec => SkipsOnlyFresh
<1>1. IInv /\ [Next]_vars =>
        [\A w \in Workers \ suspect :
           At(w, "refresh") /\ At(w, "insertJwt")' => urs > now + Buffer]_vars
  <2> SUFFICES ASSUME IInv, [Next]_vars, NEW w \in Workers \ suspect,
                      At(w, "refresh"), At(w, "insertJwt")'
               PROVE  urs > now + Buffer
    OBVIOUS
  <2>1. Step(w)
    BY OwnStep DEF At
  <2>2. ~Restart(w)
    BY DEF Restart, GoTo, Idle, IInv, TypeOK, At
  <2>3. CheckCache(w)
    BY <2>1, <2>2 DEF Step, Jwt, ReadMember, Cas, CreateMember, ReadCreated, CheckCache, Fetch,
       FetchFails, FetchRaises, StoreToken, StoreFails, InsertJwt, Validate, StoreMember,
       InsertSession, Fail, At
  <2>4. Skips(w)
    <3> SUFFICES ASSUME ~Skips(w) PROVE FALSE
      OBVIOUS
    <3> PICK g : g = [worker[w] EXCEPT !.pc = "fetch"]
      OBVIOUS
    <3>1. g.pc = "fetch" /\ worker'[w] = g
      BY <2>3 DEF CheckCache, GoTo, IInv, TypeOK, Frame
    <3> QED BY <3>1 DEF At
  <2>5. cache[w] <= urs
    BY DEF IInv, CacheOK, At
  <2>6. cache[w] \in Int /\ urs \in Int /\ now \in Int
    <3>1. cache[w] \in Expirations /\ urs \in Expirations /\ now \in Times
      BY DEF IInv, TypeOK
    <3> QED BY <3>1, TimeAssumption DEF Expirations, Times
  <2>7. Buffer \in Int
    BY TimeAssumption
  <2>8. now < cache[w] - Buffer
    BY <2>4 DEF Skips
  <2> QED BY <2>5, <2>6, <2>7, <2>8
<1> QED BY <1>1, Invariance, PTL DEF Spec, SkipsOnlyFresh
=============================================================================
