---------------------------- MODULE AdminPagesProofs ----------------------------
(***************************************************************************)
(* Proofs about the session and the pages of the administration: what the   *)
(* one automatic retry of withCsrf may do, and which prefix a save replaces *)
(* (AdminPages).                                                           *)
(***************************************************************************)
EXTENDS AdminPages, FiniteSetTheorems, TLAPS

-----------------------------------------------------------------------------
(* Operators. *)

OpFields == {"id", "name", "arg", "base", "saw", "stage", "load", "token", "again", "since", "served",
             "applied", "reply", "mounted"}

QueryFields == {"data", "error", "stale", "asked", "reply", "failures"}

\* The fields of mutations and queries.
LEMMA Fields == DOMAIN Operation0 = OpFields /\ DOMAIN Idle = QueryFields
BY DEF Operation0, OpFields, Idle, QueryFields

\* A new load has an id that no load has: there are more numbers than loads.
LEMMA NewLoadIsNew ==
  ASSUME IsFiniteSet(loads)
  PROVE  NewLoad \in Nat /\ \A l \in loads : l.id # NewLoad
<1>1. PICK L : L = loads
  OBVIOUS
<1>2. PICK n \in Nat : n = Cardinality(L) /\ IsFiniteSet(L)
  BY <1>1, FS_CardinalityType
<1>3. \E i \in 1..(n + 1) : \A l \in L : l.id # i
  <2> SUFFICES ASSUME \A i \in 1..(n + 1) : \E l \in L : l.id = i PROVE FALSE
    OBVIOUS
  <2>1. PICK f \in [1..(n + 1) -> L] : \A i \in 1..(n + 1) : f[i].id = i
    <3>1. \A i \in 1..(n + 1) : (CHOOSE l \in L : l.id = i) \in L /\ (CHOOSE l \in L : l.id = i).id = i
      OBVIOUS
    <3>2. WITNESS [i \in 1..(n + 1) |-> CHOOSE l \in L : l.id = i] \in [1..(n + 1) -> L]
    <3> QED BY <3>1
  <2>2. IsFiniteSet(1..(n + 1)) /\ Cardinality(1..(n + 1)) = n + 1
    BY FS_Interval
  <2>3. n < n + 1
    OBVIOUS
  <2>4. PICK x \in 1..(n + 1), y \in 1..(n + 1) : x # y /\ f[x] = f[y]
    BY <1>2, <2>2, <2>3, FS_PigeonHole
  <2> QED BY <2>1, <2>4
<1>4. NewLoad = CHOOSE i \in 1..(n + 1) : \A l \in L : l.id # i
  BY <1>1, <1>2 DEF NewLoad
<1>5. NewLoad \in 1..(n + 1) /\ \A l \in L : l.id # NewLoad
  BY <1>3, <1>4
<1> QED BY <1>1, <1>5

\* The readers keep the status of a response and add no code of their own.
LEMMA ReaderFacts ==
  ASSUME NEW name \in Mutations, NEW s, NEW code, NEW form, NEW located, NEW value, NEW r,
         r = Reader(Client[name].reader, Response(s, code, form, located, value))
  PROVE  r.status = s /\ r.code \in {code, "none"}
<1>1. PICK reader \in {"json", "void", "multipart"} : reader = Client[name].reader
  BY ReadersAssumption
<1>2. PICK w : w = Response(s, code, form, located, value)
  OBVIOUS
<1>3. w.status = s /\ w.code = code
  BY <1>2 DEF Response
<1>4. contractError(w).status = s /\ contractError(w).code = "none"
  BY <1>3 DEF contractError, Outcome
<1>5. throwProblem(w).status = s /\ throwProblem(w).code \in {code, "none"}
  BY <1>3, <1>4 DEF throwProblem, Outcome
<1>6. \A v : Outcome("ok", w.status, "none", v).status = s /\ Outcome("ok", w.status, "none", v).code = "none"
  BY <1>3 DEF Outcome
<1>7. requestJson(w).status = s /\ requestJson(w).code \in {code, "none"}
  BY <1>4, <1>5, <1>6 DEF requestJson
<1>8. requestVoid(w).status = s /\ requestVoid(w).code \in {code, "none"}
  BY <1>4, <1>5, <1>6 DEF requestVoid
<1>9. requestMultipart(w).status = s /\ requestMultipart(w).code \in {code, "none"}
  BY <1>4, <1>5, <1>6 DEF requestMultipart
<1>10. r = Reader(reader, w)
  BY <1>1, <1>2
<1> QED BY <1>7, <1>8, <1>9, <1>10 DEF Reader

\* What the server answers is never a rejected token.
LEMMA AnswerFacts ==
  ASSUME NEW o, o.name \in Mutations
  PROVE  \E s \in Nat : \E code, form, located, value :
            Answer(o) = Response(s, code, form, located, value) /\ code # "CSRF_REJECTED"
<1>1. \A s \in {200, 201} : \A v : \E located :
        Ok(s, v) = Response(s, "none", "json", located, v)
  BY DEF Ok
<1>2. Done = Response(204, "none", "none", FALSE, NoData)
  BY DEF Done
<1>3. \A s, code : Problem(s, code) = Response(s, code, "problem", FALSE, NoData)
  BY DEF Problem
<1> DEFINE Fine(a) == \E s \in Nat : \E code, form, located, value :
                          a = Response(s, code, form, located, value) /\ code # "CSRF_REJECTED"
<1>0. \A s \in Nat : \A code, form, located, value :
        code # "CSRF_REJECTED" => Fine(Response(s, code, form, located, value))
  OBVIOUS
<1> HIDE DEF Fine
<1>4. \A s \in {200, 201} : \A v : Fine(Ok(s, v))
  BY <1>0, <1>1
<1>5. Fine(Done)
  BY <1>0, <1>2
<1>6. \A s \in Nat : \A code : code # "CSRF_REJECTED" => Fine(Problem(s, code))
  BY <1>0, <1>3
<1>7. Fine(LoginAnswer(o))
  BY <1>4, <1>6 DEF LoginAnswer
<1>8. Fine(PasswordAnswer(o))
  BY <1>5, <1>6 DEF PasswordAnswer
<1>9. Fine(Refusal)
  BY <1>6 DEF Refusal
<1>10. Fine(UserAnswer(o))
  BY <1>4, <1>6 DEF UserAnswer
<1>11. Fine(PrefixAnswer(o))
  BY <1>4, <1>6 DEF PrefixAnswer
<1>12. Fine(Answer(o))
  BY <1>5, <1>7, <1>8, <1>9, <1>10, <1>11 DEF Answer, Mutations, UserMutations
<1> QED BY <1>12 DEF Fine

-----------------------------------------------------------------------------
(* Mutations that a step leaves alone, and mutations that it changes. *)

\* Containers only grow in number, and the loads of a step are old ones, or
\* new and unserved, or just served by the container there is.
Grows ==
    /\ container' \in Nat /\ container <= container'
    /\ \A l \in loads' : l \in loads \/ l.token = 0 \/ l.token = container

\* A mutation that stays as it is.
LEMMA OpStays ==
  ASSUME TokensOK, Grows, NEW o, OpOK(o)
  PROVE  OpOK(o)'
<1>1. container \in Nat /\ o.since \in Nat /\ o.since <= container /\ o.token \in Nat /\ o.token <= container
  BY DEF TokensOK, OpOK
<1>2. o.token \in 0..container' /\ o.since \in 0..container'
  BY <1>1 DEF Grows
<1>3. o.again /\ o.stage = "token" =>
         \A l \in loads' : l.id = o.load /\ l.token # 0 => o.since <= l.token
  BY <1>1 DEF Grows, OpOK
<1> QED BY <1>2, <1>3 DEF OpOK

\* What OpOK says of the fields.
LEMMA OpFacts ==
  ASSUME NEW o, OpOK(o)
  PROVE  o = [f \in OpFields |-> o[f]]
BY Fields DEF OpOK, Shaped

\* A mutation whose page goes.
LEMMA OpUnmounts ==
  ASSUME NEW o, OpOK(o)', NEW m, NEW p, p = [o EXCEPT !.mounted = m]
  PROVE  OpOK(p)'
<1>1. o = [f \in OpFields |-> o[f]]
  BY Fields DEF OpOK, Shaped
<1>2. /\ p = [f \in OpFields |-> p[f]]
      /\ p.name = o.name /\ p.base = o.base /\ p.saw = o.saw /\ p.stage = o.stage /\ p.load = o.load
      /\ p.token = o.token /\ p.again = o.again /\ p.since = o.since /\ p.served = o.served
      /\ p.applied = o.applied /\ p.reply = o.reply
  BY <1>1 DEF OpFields
<1> QED BY <1>2, Fields DEF OpOK, Shaped

\* Mutations that stay, lose their page or go.
LEMMA OpsStay ==
  ASSUME TokensOK, Grows, \A o \in ops : OpOK(o),
         \A p \in ops' : p \in ops \/ \E o \in ops : \E m : p = [o EXCEPT !.mounted = m]
  PROVE  \A p \in ops' : OpOK(p)'
<1> SUFFICES ASSUME NEW p \in ops' PROVE OpOK(p)'
  OBVIOUS
<1>1. CASE p \in ops
  BY <1>1, OpStays
<1>2. CASE \E o \in ops : \E m : p = [o EXCEPT !.mounted = m]
  <2>1. PICK o, m : o \in ops /\ p = [o EXCEPT !.mounted = m]
    BY <1>2
  <2>2. OpOK(o)'
    BY <2>1, OpStays
  <2> QED BY <2>1, <2>2, OpUnmounts
<1> QED BY <1>1, <1>2

\* A mutation before it has a token.
Fresh(o) ==
    /\ Shaped(o, Operation0) /\ o.name \in Mutations
    /\ o.token \in 0..container /\ o.since \in 0..container
    /\ o.reply.code # "CSRF_REJECTED" /\ ~o.applied
    /\ o.name = "updateLanguageSetting" => o.saw = o.base

\* loadCsrfToken: a second try always waits for a load of its own.
LEMMA LoadTokenKeeps ==
  ASSUME TokensOK, NEW o, Fresh(o), NEW others, \A p \in others : OpOK(p),
         NEW c, c.token \in 0..container, o.again => c.token = 0 /\ c.request = 0,
         loadCsrfToken(o, others, c), container' = container
  PROVE  TokensOK' /\ \A p \in ops' : OpOK(p)'
<1>0. container \in Nat /\ o = [f \in OpFields |-> o[f]] /\ o.token \in Nat /\ o.since \in Nat
  BY Fields DEF TokensOK, Fresh, Shaped
<1>1. CASE c.token # 0
  <2>1. PICK p : p = [o EXCEPT !.stage = "sent", !.token = c.token]
    OBVIOUS
  <2>2. ops' = others \cup {p} /\ csrfToken' = c.token /\ UNCHANGED loads
    BY <1>1, <2>1 DEF loadCsrfToken
  <2>3. /\ p = [f \in OpFields |-> p[f]] /\ p.stage = "sent" /\ p.token = c.token
        /\ p.name = o.name /\ p.base = o.base /\ p.saw = o.saw /\ p.load = o.load
        /\ p.again = o.again /\ p.since = o.since /\ p.served = o.served
        /\ p.applied = o.applied /\ p.reply = o.reply
    BY <1>0, <2>1 DEF OpFields
  <2>4. TokensOK'
    BY <2>2 DEF TokensOK
  <2>5. Grows
    BY <1>0, <2>2 DEF Grows
  <2>6. OpOK(p)'
    BY <1>1, <2>3, Fields DEF OpOK, Fresh, Shaped
  <2>7. \A q \in others : OpOK(q)'
    BY <2>5, OpStays
  <2> QED BY <2>2, <2>4, <2>6, <2>7
<1>2. CASE c.token = 0
  <2>1. PICK id : id = IF c.request = 0 THEN NewLoad ELSE c.request
    OBVIOUS
  <2>2. PICK p : p = [o EXCEPT !.stage = "token", !.load = id]
    OBVIOUS
  <2>3. PICK n : n = [id |-> id, served |-> FALSE, token |-> 0]
    OBVIOUS
  <2>4. /\ ops' = others \cup {p} /\ csrfToken' = 0
        /\ loads' = IF c.request # 0 THEN loads ELSE loads \cup {n}
    BY <1>2, <2>1, <2>2, <2>3 DEF loadCsrfToken
  <2>5. NewLoad \in Nat /\ \A l \in loads : l.id # NewLoad
    BY NewLoadIsNew DEF TokensOK
  <2>6. c.request = 0 => n \in [id : Nat, served : BOOLEAN, token : Nat] /\ n.token = 0 /\ n.id = id /\ id \in Nat
    BY <2>1, <2>3, <2>5
  <2>7. Grows
    BY <1>0, <2>4, <2>6 DEF Grows
  <2>8. TokensOK'
    <3>1. IsFiniteSet(loads')
      BY <2>4, FS_AddElement DEF TokensOK
    <3>2. loads' \subseteq [id : Nat, served : BOOLEAN, token : Nat] /\ \A l \in loads' : l.token <= container
      BY <1>0, <2>4, <2>6 DEF TokensOK
    <3>3. csrfToken' \in 0..container'
      BY <1>0, <2>4
    <3> QED BY <3>1, <3>2, <3>3 DEF TokensOK
  <2>9. /\ p = [f \in OpFields |-> p[f]] /\ p.stage = "token" /\ p.token = o.token
        /\ p.name = o.name /\ p.base = o.base /\ p.saw = o.saw /\ p.load = id
        /\ p.again = o.again /\ p.since = o.since /\ p.served = o.served
        /\ p.applied = o.applied /\ p.reply = o.reply
    BY <1>0, <2>2 DEF OpFields
  <2>10. o.again => \A l \in loads' : l.id = id => l.token = 0
    BY <2>1, <2>4, <2>5, <2>6
  <2>11. OpOK(p)'
    BY <2>9, <2>10, Fields DEF OpOK, Fresh, Shaped
  <2>12. \A q \in others : OpOK(q)'
    BY <2>7, OpStays
  <2> QED BY <2>4, <2>8, <2>11, <2>12
<1> QED BY <1>1, <1>2

\* The client's token and loads while containers come.
LEMMA TokensStay ==
  ASSUME TokensOK, container' \in Nat, container <= container', UNCHANGED csrfVars
  PROVE  TokensOK' /\ Grows
<1>1. \A l \in loads : l.token \in Nat /\ l.token <= container'
  BY DEF TokensOK
<1> QED BY <1>1 DEF TokensOK, Grows, csrfVars

-----------------------------------------------------------------------------
(* Tokens and mutations, step by step. *)

ClientOK == TokensOK /\ \A o \in ops : OpOK(o)

\* A load is served with the token of the container, or lost.
LEMMA ServeLoadKeeps ==
  ASSUME ClientOK, ServeLoad
  PROVE  ClientOK'
<1>1. PICK l \in loads, lost \in BOOLEAN :
        loads' = (loads \ {l}) \cup {[l EXCEPT !.served = TRUE, !.token = IF lost THEN 0 ELSE container]}
  BY DEF ServeLoad
<1>2. UNCHANGED <<serverVars, csrfToken, csrfRequest, ops>>
  BY DEF ServeLoad
<1>3. PICK t \in 0..container : t = IF lost THEN 0 ELSE container
  BY DEF ClientOK, TokensOK
<1>4. PICK n : n = [l EXCEPT !.served = TRUE, !.token = t]
  OBVIOUS
<1>5. loads' = (loads \ {l}) \cup {n}
  BY <1>1, <1>3, <1>4
<1>6. n \in [id : Nat, served : BOOLEAN, token : Nat] /\ n.token = t
  <2>1. l \in [id : Nat, served : BOOLEAN, token : Nat] /\ t \in Nat
    BY DEF ClientOK, TokensOK
  <2> QED BY <1>4, <2>1
<1>7. container' = container /\ container \in Nat
  BY <1>2 DEF serverVars, gatewayVars, ClientOK, TokensOK
<1>8. TokensOK'
  <2>1. IsFiniteSet(loads')
    BY <1>5, FS_AddElement, FS_RemoveElement DEF ClientOK, TokensOK
  <2>2. loads' \subseteq [id : Nat, served : BOOLEAN, token : Nat] /\ \A k \in loads' : k.token <= container
    BY <1>3, <1>5, <1>6, <1>7 DEF ClientOK, TokensOK
  <2> QED BY <1>2, <1>7, <2>1, <2>2 DEF ClientOK, TokensOK
<1>9. Grows
  BY <1>3, <1>5, <1>6, <1>7 DEF Grows
<1>10. \A p \in ops' : OpOK(p)'
  BY <1>2, <1>9, OpStays DEF ClientOK
<1> QED BY <1>8, <1>10 DEF ClientOK

\* The load ends and the mutations that wait for it are sent or fail.
LEMMA HearLoadKeeps ==
  ASSUME ClientOK, HearLoad
  PROVE  ClientOK'
<1> DEFINE waiting(l) == {o \in ops : o.stage = "token" /\ o.load = l.id}
<1>1. PICK l \in loads :
        /\ l.served
        /\ loads' = loads \ {l} /\ csrfRequest' = 0
        /\ csrfToken' = IF l.token = 0 THEN csrfToken ELSE l.token
        /\ ops' = (ops \ waiting(l)) \cup
              (IF l.token = 0
               THEN {[o EXCEPT !.stage = "done", !.load = 0, !.reply = Lost] :
                        o \in {w \in waiting(l) : w.mounted = "page"}}
               ELSE {[o EXCEPT !.stage = "sent", !.load = 0, !.token = l.token] : o \in waiting(l)})
  BY DEF HearLoad
<1>a. loads' = loads \ {l} /\ csrfToken' \in {csrfToken, l.token}
  BY <1>1
<1>2. container' = container /\ container \in Nat
  BY DEF HearLoad, serverVars, gatewayVars, ClientOK, TokensOK
<1>3. l.token \in Nat /\ l.token <= container
  BY DEF ClientOK, TokensOK
<1>4. TokensOK'
  <2>1. IsFiniteSet(loads')
    BY <1>a, FS_RemoveElement DEF ClientOK, TokensOK
  <2> QED BY <1>a, <1>2, <1>3, <2>1 DEF ClientOK, TokensOK
<1>5. Grows
  BY <1>a, <1>2 DEF Grows
<1>6. ASSUME NEW p \in ops' PROVE OpOK(p)'
  <2>1. CASE p \in ops
    BY <2>1, <1>5, OpStays DEF ClientOK
  <2>2. CASE p \notin ops
    <3>1. PICK o \in ops :
            /\ o.stage = "token" /\ o.load = l.id
            /\ \/ p = [o EXCEPT !.stage = "done", !.load = 0, !.reply = Lost]
               \/ l.token # 0 /\ p = [o EXCEPT !.stage = "sent", !.load = 0, !.token = l.token]
      BY <1>1, <2>2
    <3>2. OpOK(o)' /\ OpOK(o)
      BY <1>5, OpStays DEF ClientOK
    <3>3. o = [f \in OpFields |-> o[f]]
      BY <3>2, OpFacts
    <3>4. o.reply.code # "CSRF_REJECTED" /\ ~o.applied
      BY <3>1, <3>2 DEF OpOK
    <3>5. CASE p = [o EXCEPT !.stage = "done", !.load = 0, !.reply = Lost]
      <4>1. /\ p = [f \in OpFields |-> p[f]] /\ p.stage = "done" /\ p.token = o.token
            /\ p.name = o.name /\ p.base = o.base /\ p.saw = o.saw
            /\ p.again = o.again /\ p.since = o.since /\ p.served = o.served
            /\ p.applied = o.applied /\ p.reply = Lost
        BY <3>3, <3>5 DEF OpFields
      <4>2. Lost.code = "none"
        BY DEF Lost, Failed, Outcome
      <4> QED BY <3>2, <3>4, <4>1, <4>2, Fields DEF OpOK, Shaped
    <3>6. CASE l.token # 0 /\ p = [o EXCEPT !.stage = "sent", !.load = 0, !.token = l.token]
      <4>1. /\ p = [f \in OpFields |-> p[f]] /\ p.stage = "sent" /\ p.token = l.token
            /\ p.name = o.name /\ p.base = o.base /\ p.saw = o.saw
            /\ p.again = o.again /\ p.since = o.since /\ p.served = o.served
            /\ p.applied = o.applied /\ p.reply = o.reply
        BY <3>3, <3>6 DEF OpFields
      <4>2. o.again => o.since <= l.token
        BY <3>1, <3>2, <3>6 DEF OpOK
      <4>3. p.token \in 0..container'
        BY <1>2, <1>3, <4>1
      <4> QED BY <3>2, <3>4, <4>1, <4>2, <4>3, Fields DEF OpOK, Shaped
    <3> QED BY <3>1, <3>5, <3>6
  <2> QED BY <2>1, <2>2
<1> QED BY <1>4, <1>6 DEF ClientOK

\* What the server does to the container.
LEMMA ContainerGrows ==
  ASSUME TokensOK, NEW o, o.name \in Mutations,
         Effect(o) \/ Unavailable(o) \/ Noticed \/ Invalidate \/ UNCHANGED gatewayVars
  PROVE  container' \in Nat /\ container <= container'
<1>0. container \in Nat
  BY DEF TokensOK
<1>1. Noticed \/ Invalidate \/ UNCHANGED gatewayVars => container' \in {container, container + 1}
  BY DEF Noticed, Invalidate, gatewayVars
<1>2. LoginEffect(o) \/ LogoutEffect \/ PasswordEffect(o) => container' \in {container, container + 1}
  BY DEF LoginEffect, LogoutEffect, PasswordEffect, Noticed, Invalidate, gatewayVars
<1>3. Unavailable(o) => container' \in {container, container + 1}
  BY <1>1, <1>2 DEF Unavailable
<1>4. Effect(o) => container' \in {container, container + 1}
  BY <1>1, <1>2 DEF Effect, Mutations, UserMutations
<1> QED BY <1>0, <1>1, <1>3, <1>4

\* A mutation is served: rejected with an old token, or carried out or not.
LEMMA ServeOpKeeps ==
  ASSUME ClientOK, ServeOp
  PROVE  ClientOK'
<1>1. PICK o \in ops, how \in {"answered", "lost", "unavailable"} :
        /\ o.stage = "sent"
        /\ IF Rejected(o)
           THEN /\ how = "answered" /\ UNCHANGED serverVars
                /\ ops' = (ops \ {o}) \cup Served(o, Read(o, Problem(403, "CSRF_REJECTED")), FALSE)
           ELSE IF how = "unavailable"
           THEN /\ Unavailable(o)
                /\ ops' = (ops \ {o}) \cup Served(o, Read(o, Problem(503, "UNAVAILABLE")), FALSE)
           ELSE /\ Effect(o)
                /\ ops' = (ops \ {o}) \cup
                          Served(o, IF how = "lost" THEN Lost ELSE Read(o, Answer(o)), IsOk(Answer(o)))
  BY DEF ServeOp
<1>2. UNCHANGED csrfVars
  BY DEF ServeOp
<1>3. OpOK(o) /\ o.name \in Mutations /\ o = [f \in OpFields |-> o[f]] /\ ~o.applied
  BY <1>1, OpFacts DEF ClientOK, OpOK
<1>4. \E reply, done :
         /\ ops' = (ops \ {o}) \cup Served(o, reply, done)
         /\ reply.code = "CSRF_REJECTED" => Rejected(o) /\ done = FALSE
         /\ done = FALSE \/ (done \in BOOLEAN /\ reply.status \notin 400..499)
  <2>1. CASE Rejected(o)
    <3>1. PICK reply : reply = Read(o, Problem(403, "CSRF_REJECTED"))
      OBVIOUS
    <3>2. ops' = (ops \ {o}) \cup Served(o, reply, FALSE)
      BY <1>1, <2>1, <3>1
    <3> QED BY <2>1, <3>2
  <2>2. CASE ~Rejected(o) /\ how = "unavailable"
    <3>1. PICK reply : reply = Read(o, Problem(503, "UNAVAILABLE"))
      OBVIOUS
    <3>2. ops' = (ops \ {o}) \cup Served(o, reply, FALSE)
      BY <1>1, <2>2, <3>1
    <3>3. Problem(503, "UNAVAILABLE") = Response(503, "UNAVAILABLE", "problem", FALSE, NoData)
      BY DEF Problem
    <3>5. PICK s, code, form, located, value :
            s = 503 /\ code = "UNAVAILABLE" /\ form = "problem" /\ located = FALSE /\ value = NoData
      OBVIOUS
    <3>6. reply = Reader(Client[o.name].reader, Response(s, code, form, located, value))
      BY <3>1, <3>3, <3>5 DEF Read
    <3>7. reply.code \in {code, "none"}
      BY <1>3, <3>6, ReaderFacts
    <3>4. reply.code \in {"UNAVAILABLE", "none"}
      BY <3>5, <3>7
    <3> QED BY <3>2, <3>4
  <2>3. CASE ~Rejected(o) /\ how # "unavailable"
    <3>1. PICK reply : reply = IF how = "lost" THEN Lost ELSE Read(o, Answer(o))
      OBVIOUS
    <3>2. ops' = (ops \ {o}) \cup Served(o, reply, IsOk(Answer(o)))
      BY <1>1, <2>3, <3>1
    <3>3. PICK s, code, form, located, value :
            s \in Nat /\ Answer(o) = Response(s, code, form, located, value) /\ code # "CSRF_REJECTED"
      BY <1>3, AnswerFacts
    <3>4. Lost.code = "none" /\ Lost.status = 0
      BY DEF Lost, Failed, Outcome
    <3>5. how # "lost" => reply.status = s /\ reply.code \in {code, "none"}
      BY <1>3, <3>1, <3>3, ReaderFacts DEF Read
    <3>6. reply.code # "CSRF_REJECTED"
      BY <3>1, <3>3, <3>4, <3>5
    <3>7. Answer(o).status = s
      BY <3>3 DEF Response
    <3>8. IsOk(Answer(o)) => reply.status \notin 400..499
      BY <3>1, <3>4, <3>5, <3>7 DEF IsOk
    <3>9. IsOk(Answer(o)) \in BOOLEAN
      BY DEF IsOk
    <3> QED BY <3>2, <3>6, <3>8, <3>9
  <2> QED BY <2>1, <2>2, <2>3
<1>5. PICK reply, done :
         /\ ops' = (ops \ {o}) \cup Served(o, reply, done)
         /\ reply.code = "CSRF_REJECTED" => Rejected(o) /\ done = FALSE
         /\ done = FALSE \/ (done \in BOOLEAN /\ reply.status \notin 400..499)
  BY <1>4
<1>6. Effect(o) \/ Unavailable(o) \/ UNCHANGED gatewayVars
  BY <1>1 DEF serverVars
<1>7. container' \in Nat /\ container <= container'
  BY <1>3, <1>6, ContainerGrows DEF ClientOK
<1>8. TokensOK' /\ Grows
  BY <1>2, <1>7, TokensStay DEF ClientOK
<1>9. ASSUME NEW p \in ops' PROVE OpOK(p)'
  <2>1. CASE p \in ops
    BY <2>1, <1>8, OpStays DEF ClientOK
  <2>2. CASE p \notin ops
    <3>1. PICK done2 \in BOOLEAN : done2 = (o.applied \/ done)
      OBVIOUS
    <3>2. p = [o EXCEPT !.stage = "answered", !.reply = reply, !.served = container, !.applied = done2]
      BY <1>5, <2>2, <3>1 DEF Served
    <3>3. /\ p = [f \in OpFields |-> p[f]] /\ p.stage = "answered" /\ p.token = o.token
          /\ p.name = o.name /\ p.base = o.base /\ p.saw = o.saw
          /\ p.again = o.again /\ p.since = o.since /\ p.served = container
          /\ p.applied = done2 /\ p.reply = reply
      BY <1>3, <3>2 DEF OpFields
    <3>4. OpOK(o)'
      BY <1>3, <1>8, OpStays DEF ClientOK
    <3>5. reply.code = "CSRF_REJECTED" /\ o.again => o.since # container
      <4>1. o.again => o.since <= o.token /\ o.token \in Nat /\ o.since \in Nat /\ container \in Nat /\ o.token <= container
        BY <1>1, <1>3 DEF OpOK, ClientOK, TokensOK
      <4> QED BY <1>5, <4>1 DEF Rejected
    <3>6. done2 => reply.status \notin 400..499 /\ reply.code # "CSRF_REJECTED"
      BY <1>3, <1>5, <3>1
    <3> QED BY <3>3, <3>4, <3>5, <3>6, Fields DEF OpOK, Shaped
  <2> QED BY <2>1, <2>2
<1> QED BY <1>8, <1>9 DEF ClientOK

\* A mutation that is heard: it goes, or its failure is shown.
LEMMA RemainsKeeps ==
  ASSUME ClientOK, NEW o \in ops, o.stage = "answered", ~withCsrfRetries(o), ops' = Remains(o),
         container' = container, loads' = loads, csrfToken' \in {csrfToken, 0}
  PROVE  ClientOK'
<1>0. container \in Nat
  BY DEF ClientOK, TokensOK
<1>1. TokensOK' /\ Grows
  BY <1>0 DEF ClientOK, TokensOK, Grows
<1>2. ASSUME NEW p \in ops' PROVE OpOK(p)'
  <2>1. CASE p \in ops
    BY <2>1, <1>1, OpStays DEF ClientOK
  <2>2. CASE p \notin ops
    <3>1. p = [o EXCEPT !.stage = "done"]
      BY <2>2 DEF Remains
    <3>2. OpOK(o) /\ OpOK(o)' /\ o = [f \in OpFields |-> o[f]]
      BY <1>1, OpStays, OpFacts DEF ClientOK
    <3>3. /\ p = [f \in OpFields |-> p[f]] /\ p.stage = "done" /\ p.token = o.token
          /\ p.name = o.name /\ p.base = o.base /\ p.saw = o.saw
          /\ p.again = o.again /\ p.since = o.since /\ p.served = o.served
          /\ p.applied = o.applied /\ p.reply = o.reply
      BY <3>1, <3>2 DEF OpFields
    <3>4. o.reply.code = "CSRF_REJECTED" => o.again
      BY DEF withCsrfRetries
    <3> QED BY <3>2, <3>3, <3>4, Fields DEF OpOK, Shaped
  <2> QED BY <2>1, <2>2
<1> QED BY <1>1, <1>2 DEF ClientOK

\* The document is loaded anew: what was sent goes on without it.
LEMMA ReloadKeeps ==
  ASSUME ClientOK, NEW S, S \subseteq ops, ops' = Orphans(S),
         container' = container, loads' = {}, csrfToken' = 0
  PROVE  ClientOK'
<1>0. container \in Nat
  BY DEF ClientOK, TokensOK
<1>1. IsFiniteSet({})
  BY FS_EmptySet
<1>2. TokensOK' /\ Grows
  BY <1>0, <1>1 DEF ClientOK, TokensOK, Grows
<1>3. \A p \in ops' : \E o \in ops : \E m : p = [o EXCEPT !.mounted = m]
  BY DEF Orphans
<1> QED BY <1>2, <1>3, OpsStay DEF ClientOK

\* The second try.
LEMMA AgainKeeps ==
  ASSUME ClientOK, NEW o \in ops, withCsrfRetries(o), Again(o), container' = container
  PROVE  ClientOK'
<1>1. PICK p : p = [o EXCEPT !.again = TRUE, !.since = container, !.reply = NoReply]
  OBVIOUS
<1>2. PICK c : c = clearCsrfToken
  OBVIOUS
<1>3. PICK others : others = ops \ {o}
  OBVIOUS
<1>4. loadCsrfToken(p, others, c)
  BY <1>1, <1>2, <1>3 DEF Again
<1>5. c.token = 0 /\ c.request = 0
  BY <1>2 DEF clearCsrfToken
<1>6. OpOK(o) /\ o = [f \in OpFields |-> o[f]]
  BY OpFacts DEF ClientOK
<1>7. /\ p = [f \in OpFields |-> p[f]] /\ p.token = o.token /\ p.name = o.name /\ p.base = o.base
      /\ p.saw = o.saw /\ p.since = container /\ p.applied = o.applied /\ p.reply = NoReply
  BY <1>1, <1>6 DEF OpFields
<1>8. NoReply.code = "none"
  BY DEF NoReply, Outcome
<1>9. container \in Nat
  BY DEF ClientOK, TokensOK
<1>10. Fresh(p)
  BY <1>6, <1>7, <1>8, <1>9, Fields DEF Fresh, OpOK, Shaped, withCsrfRetries
<1>11. \A q \in others : OpOK(q)
  BY <1>3 DEF ClientOK
<1>12. c.token \in 0..container
  BY <1>5, <1>9
<1> QED BY <1>4, <1>5, <1>10, <1>11, <1>12, LoadTokenKeeps DEF ClientOK

\* An answer of a mutation is heard.
LEMMA HearOpKeeps ==
  ASSUME ClientOK, HearOp
  PROVE  ClientOK'
<1>1. PICK o \in ops :
        /\ o.stage = "answered"
        /\ \/ withCsrfRetries(o) /\ Again(o)
           \/ /\ ~withCsrfRetries(o)
              /\ \/ o.name = "login" /\ LoginHeard(o)
                 \/ o.name = "logout" /\ LogoutHeard(o)
                 \/ o.name = "changePassword" /\ PasswordHeard(o)
                 \/ o.name \in UserMutations /\ UsersHeard(o)
                 \/ o.name = "updateLanguageSetting" /\ PrefixHeard(o)
  BY DEF HearOp
<1>2. container' = container
  BY DEF HearOp, serverVars, gatewayVars
<1>3. CASE withCsrfRetries(o) /\ Again(o)
  BY <1>2, <1>3, AgainKeeps
<1>4. ASSUME ~withCsrfRetries(o), LoginHeard(o) \/ LogoutHeard(o) PROVE ClientOK'
  <2>1. CASE ops' = Remains(o) /\ UNCHANGED csrfVars
    BY <1>1, <1>2, <1>4, <2>1, RemainsKeeps DEF csrfVars
  <2>2. CASE ~(ops' = Remains(o) /\ UNCHANGED csrfVars)
    <3>1. ops' = Orphans(ops \ {o}) /\ csrfToken' = 0 /\ loads' = {}
      BY <1>4, <2>2 DEF LoginHeard, LogoutHeard, Reload
    <3>2. ops \ {o} \subseteq ops
      OBVIOUS
    <3> QED BY <1>2, <3>1, <3>2, ReloadKeeps
  <2> QED BY <2>1, <2>2
<1>5. ASSUME ~withCsrfRetries(o), PasswordHeard(o) PROVE ClientOK'
  <2>1. ops' = Remains(o) /\ loads' = loads /\ csrfToken' \in {csrfToken, 0}
    BY <1>5 DEF PasswordHeard, Cleared, clearCsrfToken, csrfVars
  <2> QED BY <1>1, <1>2, <1>5, <2>1, RemainsKeeps
<1>6. ASSUME ~withCsrfRetries(o), UsersHeard(o) \/ PrefixHeard(o) PROVE ClientOK'
  <2>1. ops' = Remains(o) /\ loads' = loads /\ csrfToken' \in {csrfToken, 0}
    BY <1>6 DEF UsersHeard, PrefixHeard, csrfVars
  <2> QED BY <1>1, <1>2, <1>6, <2>1, RemainsKeeps
<1> QED BY <1>1, <1>3, <1>4, <1>5, <1>6

\* The user sends something.
LEMMA MutateKeeps ==
  ASSUME ClientOK, NEW name \in Mutations, NEW arg, NEW base, NEW saw, mutate(name, arg, base, saw),
         name = "updateLanguageSetting" => saw = base, container' = container
  PROVE  ClientOK'
<1>1. PICK p : p = [Operation0 EXCEPT !.id = acts + 1, !.name = name, !.arg = arg, !.base = base, !.saw = saw]
  OBVIOUS
<1>2. PICK c : c = csrf
  OBVIOUS
<1>3. PICK others : others = ops \ Ended(name)
  OBVIOUS
<1>4. loadCsrfToken(p, others, c)
  BY <1>1, <1>2, <1>3 DEF mutate
<1>5. c.token = csrfToken
  BY <1>2 DEF csrf
<1>6. /\ p = [f \in OpFields |-> p[f]] /\ p.token = 0 /\ p.name = name /\ p.base = base
      /\ p.saw = saw /\ p.since = 0 /\ p.applied = FALSE /\ p.reply = NoReply /\ p.again = FALSE
  <2>1. PICK z : z = Operation0
    OBVIOUS
  <2>2. /\ z = [f \in OpFields |-> z[f]] /\ z.token = 0 /\ z.since = 0 /\ z.applied = FALSE
        /\ z.reply = NoReply /\ z.again = FALSE
    BY <2>1 DEF Operation0, OpFields
  <2> QED BY <1>1, <2>1, <2>2 DEF OpFields
<1>7. NoReply.code = "none"
  BY DEF NoReply, Outcome
<1>8. container \in Nat /\ csrfToken \in 0..container
  BY DEF ClientOK, TokensOK
<1>9. Fresh(p)
  BY <1>6, <1>7, <1>8, Fields DEF Fresh, Shaped
<1>10. \A q \in others : OpOK(q)
  BY <1>3 DEF ClientOK
<1>11. ~p.again
  BY <1>6
<1> QED BY <1>4, <1>5, <1>8, <1>9, <1>10, <1>11, LoadTokenKeeps DEF ClientOK

\* The mutations of components that go.
LEMMA UnmountedFacts ==
  ASSUME NEW names, NEW p \in Unmounted(ops, names)
  PROVE  \E o \in ops : \E m : p = [o EXCEPT !.mounted = m]
<1>1. PICK o \in ops : p = [o EXCEPT !.mounted = IF o.mounted = "page" /\ o.name \in names THEN "app" ELSE o.mounted]
  BY DEF Unmounted
<1>2. PICK m : m = IF o.mounted = "page" /\ o.name \in names THEN "app" ELSE o.mounted
  OBVIOUS
<1>3. p = [o EXCEPT !.mounted = m]
  BY <1>1, <1>2
<1> QED BY <1>3

\* A step of the pages: no new loads, and mutations only stay or go.
LEMMA PagesKeep ==
  ASSUME ClientOK, container' \in Nat, container <= container', loads' = loads,
         csrfToken' \in {csrfToken, 0},
         \A p \in ops' : p \in ops \/ \E o \in ops : \E m : p = [o EXCEPT !.mounted = m]
  PROVE  ClientOK'
<1>0. container \in Nat /\ \A l \in loads : l.token \in Nat
  BY DEF ClientOK, TokensOK
<1>1. TokensOK' /\ Grows
  BY <1>0 DEF ClientOK, TokensOK, Grows
<1> QED BY <1>1, OpsStay DEF ClientOK

\* Queries and what others do.
LEMMA OutsideKeeps ==
  ASSUME ClientOK,
         (\E q \in Queries : ServeQuery(q) \/ HearQuery(q)) \/ OtherTab \/ Revoke \/ OtherAdmin
  PROVE  ClientOK'
<1> USE DEF serverVars, gatewayVars, csrfVars
<1>0. container \in Nat
  BY DEF ClientOK, TokensOK
<1>1. ASSUME NEW q \in Queries, ServeQuery(q) PROVE ClientOK'
  <2>1. UNCHANGED <<csrfToken, loads, ops>>
    BY <1>1 DEF ServeQuery
  <2>2. container' \in {container, container + 1}
    BY <1>1 DEF ServeQuery, Noticed, Invalidate
  <2> QED BY <1>0, <2>1, <2>2, PagesKeep
<1>2. ASSUME NEW q \in Queries, HearQuery(q) PROVE ClientOK'
  <2>1. container' = container /\ loads' = loads /\ csrfToken' \in {csrfToken, 0}
    BY <1>2 DEF HearQuery, Cleared, clearCsrfToken
  <2>2. ops' = ops \/ \E names : ops' = Unmounted(ops, names)
    <3>1. \A h : EditorAfter(h) => ops' = ops \/ ops' = Unmounted(ops, {"updateLanguageSetting"})
      BY DEF EditorAfter
    <3> QED BY <1>2, <3>1 DEF HearQuery
  <2>3. \A p \in ops' : p \in ops \/ \E o \in ops : \E m : p = [o EXCEPT !.mounted = m]
    BY <2>2, UnmountedFacts
  <2> QED BY <1>0, <2>1, <2>3, PagesKeep
<1>3. CASE OtherTab \/ Revoke \/ OtherAdmin
  <2>1. UNCHANGED <<csrfToken, loads, ops>> /\ container' \in {container, container + 1}
    BY <1>3 DEF OtherTab, Invalidate, Revoke, OtherAdmin
  <2> QED BY <1>0, <2>1, PagesKeep
<1> QED BY <1>1, <1>2, <1>3

\* The router, and what the user does without sending anything.
LEMMA RouteKeeps ==
  ASSUME ClientOK,
         \/ Arrive \/ Navigate \/ Refetch \/ \E q \in {"users", "language", "login", "password"} : Open(q)
         \/ EditPrefix \/ Revert \/ Discard \/ TemporaryPasswordDialog
  PROVE  ClientOK'
<1> USE DEF serverVars, gatewayVars, csrfVars
<1>0. container \in Nat
  BY DEF ClientOK, TokensOK
<1>1. CASE Arrive
  <2>1. UNCHANGED <<container, loads, csrfToken>>
    BY <1>1 DEF Arrive
  <2>2. ops' = ops \/ \E names : ops' = Unmounted(ops, names)
    BY <1>1 DEF Arrive
  <2>3. \A p \in ops' : p \in ops \/ \E o \in ops : \E m : p = [o EXCEPT !.mounted = m]
    BY <2>2, UnmountedFacts
  <2> QED BY <1>0, <2>1, <2>3, PagesKeep
<1>2. ASSUME NEW q, Open(q) PROVE ClientOK'
  <2>1. ops' = Orphans(ops) /\ container' = container /\ loads' = {} /\ csrfToken' = 0
    BY <1>2 DEF Open, Reload
  <2> QED BY <2>1, ReloadKeeps
<1>3. CASE Navigate \/ Refetch \/ Revert \/ TemporaryPasswordDialog
  <2>1. UNCHANGED <<container, loads, csrfToken, ops>>
    BY <1>3 DEF Navigate, Refetch, Revert, TemporaryPasswordDialog
  <2> QED BY <1>0, <2>1, PagesKeep
<1>4. CASE EditPrefix \/ Discard
  <2>1. UNCHANGED <<container, loads, csrfToken>> /\ ops' \subseteq ops
    BY <1>4 DEF EditPrefix, Discard
  <2>2. \A p \in ops' : p \in ops \/ \E o \in ops : \E m : p = [o EXCEPT !.mounted = m]
    BY <2>1
  <2> QED BY <1>0, <2>1, <2>2, PagesKeep
<1> QED BY <1>1, <1>2, <1>3, <1>4

\* What the shells offer.
LEMMA ShellOffers ==
  ASSUME NEW p
  PROVE  /\ AdminAppShell(p) \subseteq {"admin", "languages", "users", "password", "logout", "home", "retry", "login"}
         /\ SiteAppShell \cup HomePage \cup ForbiddenPage \subseteq
                {"admin", "problems", "password", "logout", "home", "retry", "login"}
<1>1. \A b \in BOOLEAN : AccountMenu(b) \subseteq {"admin", "password", "logout", "home", "retry", "login"}
  BY DEF AccountMenu, AccountMenuView
<1>2. AdminBreadcrumbs(p) \subseteq {"admin", "languages", "users"}
  BY DEF AdminBreadcrumbs, adminBreadcrumbsFor, adminNavigationEntries
<1> QED BY <1>1, <1>2 DEF AdminAppShell, AdminNavigation, adminNavigationEntries, SiteAppShell,
                          siteNavigationItems, HomePage, ForbiddenPage

\* Only the editor of a prefix offers to edit and to save.
LEMMA EditorOffers ==
  ASSUME NEW a \in {"edit", "save"}, a \in Offered
  PROVE  page = "language" /\ LanguagesState = "shown" /\ (a = "save" => canSave)
<1>1. a \notin AdminAppShell(page) /\ a \notin SiteAppShell \cup HomePage \cup ForbiddenPage
  BY ShellOffers
<1>2. a \notin AdminUsersPage
  BY DEF AdminUsersPage, CreateUserDialog, UserRowActions
<1>3. a \notin AdminLanguageListPage
  BY DEF AdminLanguageListPage
<1>4. page = "language" /\ a \in AdminLanguageEditPage
  BY <1>1, <1>2, <1>3 DEF Offered
<1>5. LanguagesState = "shown" /\ a \in PrefixEditor
  BY <1>4 DEF AdminLanguageEditPage
<1>6. a = "save" => canSave
  BY <1>5 DEF PrefixEditor
<1> QED BY <1>4, <1>5, <1>6

\* The user sends something; a save is made of what the editor holds.
LEMMA SendKeeps ==
  ASSUME ClientOK, EditorOK,
         \/ SubmitLogin \/ SubmitPassword \/ ClickLogout
         \/ SubmitCreateUser \/ toggleStatus \/ resetPassword \/ SavePrefix
  PROVE  ClientOK'
<1>0. {"login", "changePassword", "logout", "createUser", "updateUserStatus", "resetUserPassword",
       "updateLanguageSetting"} \subseteq Mutations
  BY DEF Mutations, UserMutations
<1>1. container' = container
  BY DEF SubmitLogin, SubmitPassword, ClickLogout, SubmitCreateUser, toggleStatus, resetPassword, SavePrefix,
         LeaveAll, serverVars, gatewayVars
<1>2. CASE SavePrefix
  <2>1. PICK name \in Mutations : name = "updateLanguageSetting"
    BY <1>0
  <2>2. mutate(name, draft.text, languages.data.version, draft.base)
    BY <1>2, <2>1 DEF SavePrefix
  <2>3. canSave
    BY <1>2, EditorOffers DEF SavePrefix
  <2>4. draft.base = languages.data.version
    BY <2>3 DEF canSave, dirty, EditorOK
  <2> QED BY <1>1, <2>2, <2>4, MutateKeeps
<1>3. CASE ~SavePrefix
  <2>1. PICK name, arg, base, saw :
            /\ name \in Mutations /\ name # "updateLanguageSetting"
            /\ mutate(name, arg, base, saw)
    BY <1>0, <1>3 DEF SubmitLogin, SubmitPassword, ClickLogout, SubmitCreateUser, toggleStatus, resetPassword
  <2> QED BY <1>1, <2>1, MutateKeeps
<1> QED BY <1>2, <1>3

-----------------------------------------------------------------------------
(* The queries and the editor. *)

IsQuery(r) == r = [f \in QueryFields |-> r[f]]
IsCache(c) == c = [q \in Queries |-> c[q]] /\ \A q \in Queries : IsQuery(c[q])

\* EditorOK in these terms.
LEMMA EditorFacts ==
  /\ EditorOK <=> /\ IsCache(cache)
                  /\ draft # NoDraft => /\ page = "language" /\ cache["languages"].error = 0
                                        /\ cache["languages"].data # NoData
                                        /\ draft.base = cache["languages"].data.version
  /\ EditorOK' <=> /\ IsCache(cache')
                   /\ draft' # NoDraft => /\ page' = "language" /\ cache'["languages"].error = 0
                                          /\ cache'["languages"].data # NoData
                                          /\ draft'.base = cache'["languages"].data.version
<1>1. DOMAIN [q \in Queries |-> Idle] = Queries
  OBVIOUS
<1> QED BY <1>1, Fields DEF EditorOK, Shaped, IsCache, IsQuery, languages

\* A query that is asked, dropped or heard.
LEMMA QueryFacts ==
  ASSUME NEW q, IsQuery(q)
  PROVE  /\ IsQuery(Asking(q)) /\ Asking(q).data = q.data
         /\ q.data # NoData => Asking(q).error = q.error
         /\ IsQuery(Cancelled(q)) /\ Cancelled(q).data = q.data
         /\ \A outcome : IsQuery(Heard(q, outcome))
<1>1. IsQuery(Asking(q)) /\ Asking(q).data = q.data /\ (q.data # NoData => Asking(q).error = q.error)
  <2>1. PICK e : e = IF q.data = NoData THEN 0 ELSE q.error
    OBVIOUS
  <2>2. Asking(q) = [q EXCEPT !.asked = "sent", !.reply = NoReply, !.failures = 0, !.error = e]
    BY <2>1 DEF Asking
  <2> QED BY <2>1, <2>2 DEF IsQuery, QueryFields
<1>2. IsQuery(Cancelled(q)) /\ Cancelled(q).data = q.data
  BY DEF Cancelled, IsQuery, QueryFields
<1>3. ASSUME NEW outcome PROVE IsQuery(Heard(q, outcome))
  <2>1. PICK k : k = Cancelled(q)
    OBVIOUS
  <2>2. IsQuery(k)
    BY <1>2, <2>1
  <2>3. IsQuery([k EXCEPT !.data = outcome.value, !.error = 0, !.stale = FALSE])
    BY <2>2 DEF IsQuery, QueryFields
  <2>4. IsQuery([k EXCEPT !.error = ErrorOf(outcome)])
    BY <2>2 DEF IsQuery, QueryFields
  <2>5. PICK n : n = q.failures + 1
    OBVIOUS
  <2>6. IsQuery([q EXCEPT !.asked = "sent", !.reply = NoReply, !.failures = n])
    BY DEF IsQuery, QueryFields
  <2> QED BY <2>1, <2>3, <2>4, <2>5, <2>6 DEF Heard
<1> QED BY <1>1, <1>2, <1>3

\* One query of the cache is replaced.
LEMMA CacheWith ==
  ASSUME NEW c, IsCache(c), NEW q \in Queries, NEW r, IsQuery(r), NEW d, d = [c EXCEPT ![q] = r]
  PROVE  IsCache(d) /\ d[q] = r /\ \A k \in Queries : k # q => d[k] = c[k]
BY DEF IsCache

\* What the way to the login leaves of the languages.
LEMMA ToLoginFacts ==
  ASSUME NEW c, IsCache(c), NEW returnTo, ToLogin(c, returnTo)
  PROVE  IsCache(cache') /\ cache'["languages"] = c["languages"]
<1>1. PICK r : r = [c["session"] EXCEPT !.data = Anonymous, !.error = 0]
  OBVIOUS
<1>2. IsQuery(r) /\ "session" \in Queries /\ "languages" \in Queries
  BY <1>1 DEF IsCache, IsQuery, QueryFields, Queries
<1>3. cache' = [c EXCEPT !["session"] = r]
  BY <1>1, <1>2 DEF ToLogin, IsCache, IsQuery, QueryFields
<1>4. PICK q \in Queries : q = "session"
  BY <1>2
<1>5. cache' = [c EXCEPT ![q] = r] /\ "languages" # q
  BY <1>3, <1>4
<1> QED BY <1>2, <1>5 DEF IsCache

\* The editor stays as it is, or is gone.
LEMMA EditorStays ==
  ASSUME EditorOK, IsCache(cache'),
         \/ draft' = NoDraft
         \/ /\ draft' = draft /\ page' = page
            /\ cache'["languages"].data = cache["languages"].data
            /\ cache["languages"].data # NoData => cache'["languages"].error = cache["languages"].error
  PROVE  EditorOK'
BY EditorFacts

\* invalidateQueries keeps the data.
LEMMA InvalidateFacts ==
  ASSUME IsCache(cache), NEW name \in Queries
  PROVE  IsCache(invalidateQueries(name)) /\ \A k \in Queries : k # name => invalidateQueries(name)[k] = cache[k]
<1>1. PICK a : a = Asking(cache[name])
  OBVIOUS
<1>2. IsQuery(a) /\ IsQuery(cache[name])
  BY <1>1, QueryFacts DEF IsCache
<1>3. PICK r : r = [a EXCEPT !.stale = TRUE]
  OBVIOUS
<1>4. PICK t : t = [cache[name] EXCEPT !.stale = TRUE]
  OBVIOUS
<1>5. IsQuery(r) /\ IsQuery(t)
  BY <1>2, <1>3, <1>4 DEF IsQuery, QueryFields
<1>6. PICK d : d = invalidateQueries(name)
  OBVIOUS
<1>7. d = [cache EXCEPT ![name] = r] \/ d = [cache EXCEPT ![name] = t]
  BY <1>1, <1>3, <1>4, <1>6 DEF invalidateQueries
<1>8. IsCache(d) /\ \A k \in Queries : k # name => d[k] = cache[k]
  BY <1>5, <1>7, CacheWith
<1> QED BY <1>6, <1>8

\* Page p's queries after it is entered.
LEMMA MountedFacts ==
  ASSUME IsCache(cache), NEW p, NEW old
  PROVE  IsCache(Mounted(p, old))
<1>1. ASSUME NEW q \in Queries PROVE IsQuery(Mounted(p, old)[q])
  <2>1. IsQuery(cache[q])
    BY DEF IsCache
  <2> QED BY <2>1, QueryFacts DEF Mounted
<1> QED BY <1>1 DEF IsCache, Mounted

\* The cache of a new document.
LEMMA ReloadFacts ==
  ASSUME NEW p, NEW returnTo, Reload(p, returnTo)
  PROVE  IsCache(cache') /\ draft' = NoDraft
<1>1. IsQuery(Idle)
  BY DEF IsQuery, Idle, QueryFields
<1>2. IsQuery(Asking(Idle))
  BY <1>1, QueryFacts
<1> QED BY <1>1, <1>2 DEF Reload, IsCache

\* Queries.
LEMMA QueriesKeepEditor ==
  ASSUME EditorOK, NEW q \in Queries, ServeQuery(q) \/ HearQuery(q)
  PROVE  EditorOK'
<1>0. IsCache(cache) /\ IsQuery(cache[q]) /\ "languages" \in Queries
  BY EditorFacts DEF IsCache, Queries
<1>1. CASE ServeQuery(q)
  <2>1. PICK reply :
          cache' = [cache EXCEPT ![q].asked = "answered", ![q].reply = reply]
    BY <1>1 DEF ServeQuery
  <2>2. PICK r : r = [cache[q] EXCEPT !.asked = "answered", !.reply = reply]
    OBVIOUS
  <2>3. IsQuery(r) /\ r.data = cache[q].data /\ r.error = cache[q].error
    BY <1>0, <2>2 DEF IsQuery, QueryFields
  <2>4. cache' = [cache EXCEPT ![q] = r]
    BY <1>0, <2>1, <2>2 DEF IsCache, IsQuery, QueryFields
  <2>5. IsCache(cache') /\ cache'[q] = r /\ \A k \in Queries : k # q => cache'[k] = cache[k]
    BY <1>0, <2>3, <2>4 DEF IsCache
  <2>6. draft' = draft /\ page' = page
    BY <1>1 DEF ServeQuery, pageVars, routeVars
  <2> QED BY <1>0, <2>3, <2>5, <2>6, EditorStays
<1>2. CASE HearQuery(q)
  <2>1. PICK h :
          /\ h = Heard(cache[q], IF q = "session" THEN getSession(cache[q].reply) ELSE cache[q].reply)
          /\ \/ ToLogin([cache EXCEPT ![q] = h], page)
             \/ cache' = [cache EXCEPT ![q] = h]
          /\ IF q = "languages" THEN EditorAfter(h) ELSE UNCHANGED <<draft, ops>>
    BY <1>2 DEF HearQuery
  <2>2. IsQuery(h)
    BY <1>0, <2>1, QueryFacts
  <2>3. PICK c : c = [cache EXCEPT ![q] = h]
    OBVIOUS
  <2>4. IsCache(c) /\ c[q] = h /\ \A k \in Queries : k # q => c[k] = cache[k]
    BY <1>0, <2>2, <2>3 DEF IsCache
  <2>5. IsCache(cache') /\ cache'["languages"] = c["languages"]
    BY <2>1, <2>3, <2>4, ToLoginFacts
  <2>6. page' = page
    BY <1>2 DEF HearQuery
  <2>7. CASE q = "languages"
    <3>1. draft' = NoDraft \/ (draft' = draft /\ (page # "language" \/ SameEditor(languages, h)))
      BY <2>1, <2>7 DEF EditorAfter
    <3>2. CASE draft' = draft /\ page # "language"
      BY <2>5, <2>6, <3>2, EditorFacts
    <3>3. CASE draft' = draft /\ SameEditor(languages, h)
      <4>1. cache'["languages"].data = cache["languages"].data /\ cache'["languages"].error = 0
        BY <2>4, <2>5, <2>7, <3>3 DEF SameEditor, languages
      <4> QED BY <2>5, <2>6, <3>3, <4>1, EditorFacts
    <3>4. CASE draft' = NoDraft
      BY <2>5, <3>4, EditorStays
    <3> QED BY <3>1, <3>2, <3>3, <3>4
  <2>8. CASE q # "languages"
    BY <1>0, <2>1, <2>4, <2>5, <2>6, <2>8, EditorStays
  <2> QED BY <2>7, <2>8
<1> QED BY <1>1, <1>2

\* The router and the user.
LEMMA RouteKeepsEditor ==
  ASSUME EditorOK,
         \/ Arrive \/ Navigate \/ Refetch \/ \E q \in {"users", "language", "login", "password"} : Open(q)
         \/ EditPrefix \/ Revert \/ Discard
  PROVE  EditorOK'
<1>0. IsCache(cache) /\ "languages" \in Queries /\ "session" \in Queries
  BY EditorFacts DEF Queries
<1>1. CASE Arrive
  <2>1. CASE UNCHANGED <<cache, page, draft>>
    BY <1>0, <2>1, EditorStays
  <2>2. CASE ~UNCHANGED <<cache, page, draft>>
    <3>1. draft' = NoDraft /\ (cache' = cache \/ \E old \in BOOLEAN :
                 ToLogin(Mounted(going, old), going) \/ cache' = Mounted(going, old))
      BY <1>1, <2>2 DEF Arrive
    <3>2. \A old : IsCache(Mounted(going, old))
      BY <1>0, MountedFacts
    <3>3. IsCache(cache')
      BY <1>0, <3>1, <3>2, ToLoginFacts
    <3> QED BY <3>1, <3>3, EditorStays
  <2> QED BY <2>1, <2>2
<1>2. ASSUME NEW q, Open(q) PROVE EditorOK'
  <2>1. IsCache(cache') /\ draft' = NoDraft
    BY <1>2, ReloadFacts DEF Open
  <2> QED BY <2>1, EditorStays
<1>3. CASE Navigate
  <2>1. draft' = draft /\ page' = page
    BY <1>3 DEF Navigate, Goes, pageVars
  <2>2. PICK q \in Queries : q = "session"
    BY <1>0
  <2>3. PICK r : r = Asking(cache[q])
    OBVIOUS
  <2>4. IsQuery(r)
    BY <1>0, <2>3, QueryFacts DEF IsCache
  <2>5. cache' = cache \/ cache' = [cache EXCEPT ![q] = r]
    BY <1>3, <2>2, <2>3 DEF Navigate, ensureQueryData
  <2>6. IsCache(cache') /\ cache'["languages"] = cache["languages"]
    <3>1. CASE cache' = cache
      BY <1>0, <3>1
    <3>2. CASE cache' = [cache EXCEPT ![q] = r]
      BY <1>0, <2>2, <2>4, <3>2 DEF IsCache
    <3> QED BY <2>5, <3>1, <3>2
  <2> QED BY <2>1, <2>6, EditorStays
<1>4. CASE Refetch
  <2>1. draft' = draft /\ page' = page
    BY <1>4 DEF Refetch, pageVars, routeVars
  <2>2. PICK q \in Observed(page) : cache' = [cache EXCEPT ![q] = Asking(cache[q])]
    BY <1>4 DEF Refetch
  <2>3. q \in Queries
    BY DEF Observed, Queries
  <2>4. PICK r : r = Asking(cache[q])
    OBVIOUS
  <2>5. IsQuery(r) /\ r.data = cache[q].data /\ (cache[q].data # NoData => r.error = cache[q].error)
    BY <1>0, <2>3, <2>4, QueryFacts DEF IsCache
  <2>6. IsCache(cache') /\ cache'[q] = r /\ \A k \in Queries : k # q => cache'[k] = cache[k]
    BY <1>0, <2>2, <2>3, <2>4, <2>5 DEF IsCache
  <2> QED BY <1>0, <2>1, <2>5, <2>6, EditorStays
<1>5. CASE EditPrefix
  <2>1. cache' = cache /\ page' = page
    BY <1>5 DEF EditPrefix, routeVars
  <2>2. page = "language" /\ LanguagesState = "shown"
    BY <1>5, EditorOffers DEF EditPrefix
  <2>3. cache["languages"].error = 0 /\ cache["languages"].data # NoData
    BY <2>2 DEF LanguagesState, languages
  <2>4. PICK t : draft' = IF t = languages.data.text THEN NoDraft
                          ELSE [base |-> IF dirty THEN draft.base ELSE languages.data.version, text |-> t]
    BY <1>5 DEF EditPrefix
  <2>5. draft' = NoDraft \/ draft'.base = cache["languages"].data.version
    <3>1. dirty => draft.base = cache["languages"].data.version
      BY EditorFacts DEF dirty
    <3> QED BY <2>4, <3>1 DEF languages
  <2> QED BY <1>0, <2>1, <2>2, <2>3, <2>5, EditorFacts
<1>6. CASE Revert
  BY <1>0, <1>6, EditorStays DEF Revert
<1>7. CASE Discard
  <2>1. draft' = NoDraft /\ cache' = invalidateQueries("languages")
    BY <1>7 DEF Discard
  <2>2. IsCache(cache')
    BY <1>0, <2>1, InvalidateFacts
  <2> QED BY <2>1, <2>2, EditorStays
<1> QED BY <1>1, <1>2, <1>3, <1>4, <1>5, <1>6, <1>7

\* Answers of mutations.
LEMMA HearOpKeepsEditor ==
  ASSUME EditorOK, HearOp
  PROVE  EditorOK'
<1>0. IsCache(cache) /\ "languages" \in Queries /\ "users" \in Queries
  BY EditorFacts DEF Queries
<1>1. PICK o \in ops :
        \/ Again(o)
        \/ LoginHeard(o)
        \/ LogoutHeard(o)
        \/ PasswordHeard(o)
        \/ UsersHeard(o)
        \/ PrefixHeard(o)
  BY DEF HearOp
<1>2. CASE UNCHANGED <<cache, page, draft>>
  BY <1>0, <1>2, EditorStays
<1>3. CASE \E p, returnTo : Reload(p, returnTo)
  <2>1. PICK p, returnTo : Reload(p, returnTo)
    BY <1>3
  <2>2. IsCache(cache') /\ draft' = NoDraft
    BY <2>1, ReloadFacts
  <2> QED BY <2>2, EditorStays
<1>4. CASE Again(o)
  BY <1>2, <1>4 DEF Again, routeVars, pageVars
<1>5. CASE LoginHeard(o) \/ LogoutHeard(o)
  BY <1>2, <1>3, <1>5 DEF LoginHeard, LogoutHeard, routeVars, pageVars
<1>6. CASE PasswordHeard(o)
  <2>1. draft' = draft /\ page' = page
    BY <1>6 DEF PasswordHeard, pageVars
  <2>2. cache' = cache \/ \E returnTo : ToLogin(cache, returnTo)
    BY <1>6 DEF PasswordHeard
  <2>3. IsCache(cache') /\ cache'["languages"] = cache["languages"]
    BY <1>0, <2>2, ToLoginFacts
  <2> QED BY <2>1, <2>3, EditorStays
<1>7. CASE UsersHeard(o)
  <2>1. draft' = draft /\ page' = page
    BY <1>7 DEF UsersHeard
  <2>2. cache' = cache \/ cache' = invalidateQueries("users") \/ \E returnTo : ToLogin(cache, returnTo)
    BY <1>7 DEF UsersHeard
  <2>3. PICK u \in Queries : u = "users"
    BY <1>0
  <2>4. IsCache(invalidateQueries(u)) /\ invalidateQueries(u)["languages"] = cache["languages"]
    BY <1>0, <2>3, InvalidateFacts
  <2>5. IsCache(cache') /\ cache'["languages"] = cache["languages"]
    BY <1>0, <2>2, <2>3, <2>4, ToLoginFacts
  <2> QED BY <2>1, <2>5, EditorStays
<1>8. CASE PrefixHeard(o)
  <2>1. page' = page
    BY <1>8 DEF PrefixHeard, routeVars
  <2>2. CASE o.reply.kind = "ok" /\ languages.data # NoData
    <3>1. PICK r : r = setQueryData("languages", o.reply.value)["languages"]
      OBVIOUS
    <3>2. cache' = [cache EXCEPT !["languages"] = r] /\ (draft' = NoDraft \/ (draft' = draft /\ SameEditor(languages, r)))
      BY <1>8, <2>2, <3>1 DEF PrefixHeard
    <3>3. PICK v : v = o.reply.value
      OBVIOUS
    <3>4. r = [cache["languages"] EXCEPT !.data = v, !.error = 0, !.stale = FALSE]
      BY <1>0, <3>1, <3>3 DEF setQueryData, IsCache, IsQuery, QueryFields
    <3>5. IsQuery(r)
      BY <1>0, <3>4 DEF IsCache, IsQuery, QueryFields
    <3>6. PICK l \in Queries : l = "languages"
      BY <1>0
    <3>7. IsCache(cache') /\ cache'[l] = r
      BY <1>0, <3>2, <3>5, <3>6 DEF IsCache
    <3>8. CASE draft' = NoDraft
      BY <3>7, <3>8, EditorStays
    <3>9. CASE draft' = draft /\ SameEditor(languages, r)
      <4>1. cache'["languages"].data = cache["languages"].data /\ cache'["languages"].error = 0
        BY <3>6, <3>7, <3>9 DEF SameEditor, languages
      <4> QED BY <2>1, <3>7, <3>9, <4>1, EditorFacts
    <3> QED BY <3>2, <3>8, <3>9
  <2>3. CASE ~(o.reply.kind = "ok" /\ languages.data # NoData)
    BY <1>2, <1>8, <2>1, <2>3 DEF PrefixHeard
  <2> QED BY <2>2, <2>3
<1> QED BY <1>1, <1>4, <1>5, <1>6, <1>7, <1>8

-----------------------------------------------------------------------------
(* The theorems. *)

\* Every step keeps the inductive invariant.
LEMMA AdminStep ==
  ASSUME AdminIInv, [Next]_vars
  PROVE  AdminIInv'
<1>1. ClientOK /\ EditorOK
  BY DEF AdminIInv, ClientOK
<1>2. IsCache(cache)
  BY <1>1, EditorFacts
<1>3. ASSUME ClientOK', UNCHANGED <<cache, draft, page>> PROVE AdminIInv'
  BY <1>1, <1>2, <1>3, EditorStays DEF AdminIInv, ClientOK
<1>4. CASE ServeLoad
  BY <1>1, <1>3, <1>4, ServeLoadKeeps DEF ServeLoad, routeVars, pageVars
<1>5. CASE ServeOp
  BY <1>1, <1>3, <1>5, ServeOpKeeps DEF ServeOp, routeVars, pageVars
<1>6. CASE HearLoad
  BY <1>1, <1>3, <1>6, HearLoadKeeps DEF HearLoad, routeVars, pageVars
<1>7. CASE HearOp
  BY <1>1, <1>7, HearOpKeeps, HearOpKeepsEditor DEF AdminIInv, ClientOK
<1>8. CASE \E q \in Queries : ServeQuery(q) \/ HearQuery(q)
  BY <1>1, <1>8, OutsideKeeps, QueriesKeepEditor DEF AdminIInv, ClientOK
<1>9. CASE \/ Arrive \/ Navigate \/ Refetch \/ \E q \in {"users", "language", "login", "password"} : Open(q)
           \/ EditPrefix \/ Revert \/ Discard
  BY <1>1, <1>9, RouteKeeps, RouteKeepsEditor DEF AdminIInv, ClientOK
<1>10. CASE TemporaryPasswordDialog
  <2>1. UNCHANGED <<cache, draft, page>>
    BY <1>10 DEF TemporaryPasswordDialog, routeVars
  <2> QED BY <1>1, <1>3, <1>10, <2>1, RouteKeeps
<1>11. CASE \/ SubmitLogin \/ SubmitPassword \/ ClickLogout
            \/ SubmitCreateUser \/ toggleStatus \/ resetPassword \/ SavePrefix
  <2>1. UNCHANGED <<cache, draft, page>>
    BY <1>11 DEF SubmitLogin, SubmitPassword, ClickLogout, SubmitCreateUser, toggleStatus, resetPassword,
                 SavePrefix, LeaveAll, routeVars, pageVars
  <2> QED BY <1>1, <1>3, <1>11, <2>1, SendKeeps
<1>12. CASE OtherTab \/ Revoke \/ OtherAdmin
  <2>1. UNCHANGED <<cache, draft, page>>
    BY <1>12 DEF OtherTab, Revoke, OtherAdmin, routeVars, pageVars
  <2> QED BY <1>1, <1>3, <1>12, <2>1, OutsideKeeps
<1>13. CASE UNCHANGED vars
  <2>1. ClientOK'
    BY <1>1, <1>13 DEF vars, serverVars, gatewayVars, csrfVars, ClientOK, TokensOK, OpOK
  <2> QED BY <1>3, <1>13, <2>1 DEF vars, routeVars, pageVars
<1> QED BY <1>4, <1>5, <1>6, <1>7, <1>8, <1>9, <1>10, <1>11, <1>12, <1>13 DEF Next, Serve, Hear, User

\* The initial states.
LEMMA AdminInit ==
  ASSUME Init
  PROVE  AdminIInv
<1>1. IsFiniteSet({})
  BY FS_EmptySet
<1>2. TokensOK
  BY <1>1 DEF Init, TokensOK
<1>3. IsQuery(Idle)
  BY DEF IsQuery, Idle, QueryFields
<1>4. IsQuery(Asking(Idle))
  BY <1>3, QueryFacts
<1>5. IsCache(cache) /\ draft = NoDraft
  BY <1>3, <1>4 DEF Init, IsCache
<1>6. EditorOK
  BY <1>5, EditorFacts
<1> QED BY <1>2, <1>6 DEF Init, AdminIInv

\* withCsrf: when a request ends with a rejected token, its second token was
\* loaded after the first rejection and the session was replaced again since
\* (RetryIsFresh), for any number of requests, faults and accounts.
THEOREM RetriesAreFresh == Spec => []RetryIsFresh
<1>1. ASSUME AdminIInv PROVE RetryIsFresh
  BY <1>1 DEF AdminIInv, OpOK, RetryIsFresh, Over, withCsrfRetries
<1> QED BY AdminInit, AdminStep, <1>1, PTL DEF Spec

\* A mutation the client reports as refused was not carried out: the retry
\* never repeats what took effect (RefusedIsNotApplied).
THEOREM RefusalsAreNotApplied == Spec => []RefusedIsNotApplied
<1>1. ASSUME AdminIInv PROVE RefusedIsNotApplied
  BY <1>1 DEF AdminIInv, OpOK, RefusedIsNotApplied
<1> QED BY AdminInit, AdminStep, <1>1, PTL DEF Spec

\* A prefix that is saved replaces the version its editor was opened with,
\* whatever refetches, saves and other administrators did since
\* (NeverOverwritesUnseenPrefix).
THEOREM SavesReplaceWhatWasSeen == Spec => []NeverOverwritesUnseenPrefix
<1>1. ASSUME AdminIInv PROVE NeverOverwritesUnseenPrefix
  BY <1>1 DEF AdminIInv, OpOK, NeverOverwritesUnseenPrefix
<1> QED BY AdminInit, AdminStep, <1>1, PTL DEF Spec
=============================================================================
