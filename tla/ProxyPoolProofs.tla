--------------------------- MODULE ProxyPoolProofs ---------------------------
(***************************************************************************)
(* Proofs about ProxyPool, for any number of proxies, endpoints and        *)
(* requests, any thresholds and any bound on the faults.                   *)
(***************************************************************************)
EXTENDS ProxyPool, TLAPS

LEMMA NullIsNothing == NULL \notin Endpoints /\ NULL \notin Proxies
BY PoolConstants

-----------------------------------------------------------------------------
(* Rows. *)
LEMMA RowFields ==
    ASSUME NEW r \in Row
    PROVE  /\ r.state \in {"unused", "present", "deleted"} /\ r.at \in Endpoints \cup {NULL}
           /\ r.ref \in BOOLEAN /\ r.status \in Statuses
           /\ r.failures \in Failures /\ r.successes \in Successes
           /\ r.failures \in Nat /\ r.successes \in Nat
BY Thresholds DEF Row, Failures, Successes

\* The rows that are made from nothing.
LEMMA NoRowType == NoRow \in Row /\ 0 \in Failures /\ 0 \in Successes
<1>1. 0 \in Failures /\ 0 \in Successes
  BY Thresholds DEF Failures, Successes
<1> QED  BY <1>1 DEF NoRow, Row, Statuses

LEMMA StateRow ==
    ASSUME NEW st \in {"unused", "present", "deleted"}, NEW q, q = [NoRow EXCEPT !.state = st]
    PROVE  /\ q \in Row /\ q.state = st /\ q.ref = FALSE /\ q.status = "unknown"
           /\ q.failures = 0 /\ q.successes = 0
<1>1. q = [state |-> st, at |-> NULL, ref |-> FALSE, status |-> "unknown",
           failures |-> 0, successes |-> 0]
  BY DEF NoRow
<1> QED  BY <1>1, NoRowType DEF Row, Statuses

LEMMA FreshRow ==
    ASSUME NEW e \in Endpoints, NEW q,
           q = [state |-> "present", at |-> e, ref |-> FALSE, status |-> "unknown",
                failures |-> 0, successes |-> 0]
    PROVE  /\ q \in Row /\ q.state = "present" /\ q.ref = FALSE /\ q.status = "unknown"
           /\ q.failures = 0 /\ q.successes = 0
BY NoRowType DEF Row, Statuses

LEMMA CreatedRow ==
    ASSUME NEW e \in Endpoints, NEW q, q = [NoRow EXCEPT !.state = "present", !.at = e]
    PROVE  /\ q \in Row /\ q.state = "present" /\ q.ref = FALSE /\ q.status = "unknown"
           /\ q.failures = 0 /\ q.successes = 0
<1>1. q = [state |-> "present", at |-> e, ref |-> FALSE, status |-> "unknown",
           failures |-> 0, successes |-> 0]
  BY DEF NoRow
<1> QED  BY <1>1, FreshRow

\* What the writes of the handlers and the monitor make of a row.
LEMMA RefRow ==
    ASSUME NEW r \in Row, NEW q, q = [r EXCEPT !.ref = TRUE]
    PROVE  /\ q \in Row /\ q.state = r.state /\ q.ref /\ q.status = r.status
           /\ q.failures = r.failures /\ q.successes = r.successes
BY DEF Row

LEMMA VouchRow ==
    ASSUME NEW r \in Row, NEW q, q = [r EXCEPT !.status = "healthy", !.failures = 0, !.successes = 0]
    PROVE  /\ q \in Row /\ q.state = r.state /\ q.ref = r.ref /\ q.status = "healthy"
           /\ q.failures = 0 /\ q.successes = 0
<1>1. 0 \in Failures /\ 0 \in Successes
  BY Thresholds DEF Failures, Successes
<1>2. q = [state |-> r.state, at |-> r.at, ref |-> r.ref, status |-> "healthy",
           failures |-> 0, successes |-> 0]
  BY DEF Row
<1> QED  BY <1>1, <1>2, RowFields DEF Row, Statuses

LEMMA MoveRow ==
    ASSUME NEW r \in Row, NEW e \in Endpoints \cup {NULL}, NEW q, q = [r EXCEPT !.at = e]
    PROVE  q \in Row /\ q.state = r.state /\ q.ref = r.ref
BY DEF Row

LEMMA TestRow ==
    ASSUME NEW r \in Row, NEW q, q = [r EXCEPT !.status = "healthy", !.failures = 0]
    PROVE  /\ q \in Row /\ q.state = r.state /\ q.ref = r.ref /\ q.status = "healthy"
           /\ q.failures = 0 /\ q.successes = r.successes
<1>1. 0 \in Failures
  BY Thresholds DEF Failures
<1>2. q = [state |-> r.state, at |-> r.at, ref |-> r.ref, status |-> "healthy",
           failures |-> 0, successes |-> r.successes]
  BY DEF Row
<1> QED  BY <1>1, <1>2, RowFields DEF Row, Statuses

\* Counting up to a limit.
LEMMA IncBounds ==
    ASSUME NEW limit \in Nat \ {0}, NEW m \in 0..limit, NEW n \in 0..limit, m <= n
    PROVE  /\ Inc(m, limit) \in 0..limit /\ Inc(n, limit) \in 0..limit
           /\ Inc(m, limit) <= Inc(n, limit)
BY DEF Inc

\* The verdict on a row.
LEMMA ApplyFields ==
    ASSUME NEW r \in Row, NEW ok \in BOOLEAN
    PROVE  LET v == Apply(r, ok)
               s == Inc(r.successes, RecoveryThreshold)
               f == Inc(r.failures, FailureThreshold)
           IN  /\ v.status \in Statuses /\ v.failures \in Failures /\ v.successes \in Successes
               /\ ok => /\ v.failures = 0 /\ v.successes = s /\ v.status # "down"
                        /\ v.status = "healthy" => s >= RecoveryThreshold
               /\ ~ok => /\ v.failures = f /\ v.successes = 0 /\ v.status # "healthy"
                         /\ v.status = "down" => f >= FailureThreshold
<1> DEFINE v == Apply(r, ok)
           s == Inc(r.successes, RecoveryThreshold)
           f == Inc(r.failures, FailureThreshold)
<1>1. 0 \in Failures /\ 0 \in Successes /\ s \in Successes /\ f \in Failures
  BY Thresholds, RowFields, IncBounds DEF Failures, Successes
<1> HIDE DEF s, f
<1>2. CASE ok
  <2>1. v = [r EXCEPT !.failures = 0, !.successes = s,
                      !.status = IF s >= RecoveryThreshold THEN "healthy" ELSE "degraded"]
    BY <1>2 DEF Apply, s
  <2>2. /\ v.failures = 0 /\ v.successes = s
        /\ v.status = IF s >= RecoveryThreshold THEN "healthy" ELSE "degraded"
    BY <2>1 DEF Row
  <2> QED  BY <1>1, <1>2, <2>2 DEF Statuses, s, f
<1>3. CASE ~ok
  <2>1. v = [r EXCEPT !.failures = f, !.successes = 0,
                      !.status = IF f >= FailureThreshold THEN "down" ELSE "degraded"]
    BY <1>3 DEF Apply, f
  <2>2. /\ v.failures = f /\ v.successes = 0
        /\ v.status = IF f >= FailureThreshold THEN "down" ELSE "degraded"
    BY <2>1 DEF Row
  <2> QED  BY <1>1, <1>3, <2>2 DEF Statuses, s, f
<1> QED  BY <1>2, <1>3

\* An UPDATE by id, and a DELETE.
LEMMA UpdateFields ==
    ASSUME proxy \in [Proxies -> Row], NEW p \in Proxies, NEW r \in Row, Update(p, r)
    PROVE  /\ proxy' \in [Proxies -> Row]
           /\ Present(p) => proxy'[p] = r
           /\ ~Present(p) => proxy'[p] = proxy[p]
           /\ \A q \in Proxies \ {p} : proxy'[q] = proxy[q]
BY DEF Update

LEMMA DeleteFields ==
    ASSUME proxy \in [Proxies -> Row], password \in [Proxies -> Endpoints \cup {NULL}],
           NEW p \in Proxies, Delete(p)
    PROVE  /\ proxy' \in [Proxies -> Row] /\ password' \in [Proxies -> Endpoints \cup {NULL}]
           /\ \/ proxy'[p] = proxy[p] /\ password'[p] = password[p]
              \/ /\ proxy'[p] = [NoRow EXCEPT !.state = "deleted"]
                 /\ password'[p] = NULL /\ p \notin assigned /\ Present(p)
           /\ \A q \in Proxies \ {p} : proxy'[q] = proxy[q] /\ password'[q] = password[q]
<1> DEFINE d == [NoRow EXCEPT !.state = "deleted"]
<1>1. d \in Row
  BY StateRow
<1> HIDE DEF d
<1>2. CASE p \in assigned \/ ~Present(p)
  BY <1>2 DEF Delete
<1>3. CASE ~(p \in assigned \/ ~Present(p))
  <2>1. proxy' = [proxy EXCEPT ![p] = d] /\ password' = [password EXCEPT ![p] = NULL]
    BY <1>3 DEF Delete, d
  <2>2. /\ proxy' \in [Proxies -> Row] /\ proxy'[p] = d
        /\ password' \in [Proxies -> Endpoints \cup {NULL}] /\ password'[p] = NULL
        /\ \A q \in Proxies \ {p} : proxy'[q] = proxy[q] /\ password'[q] = password[q]
    BY <2>1, <1>1
  <2> QED  BY <1>3, <2>2 DEF d
<1> QED  BY <1>2, <1>3

-----------------------------------------------------------------------------
(* Requests. *)
LEMMA IdleRequestType == IdleRequest \in Request
BY DEF IdleRequest, Request, RequestPcs

LEMMA GotoFields ==
    ASSUME request \in [Handlers -> Request], NEW h \in Handlers, NEW pc \in RequestPcs, Goto(h, pc)
    PROVE  /\ request' \in [Handlers -> Request]
           /\ request'[h].pc = pc /\ request'[h].proxy = request[h].proxy
           /\ request'[h].password = request[h].password
           /\ \A g \in Handlers \ {h} : request'[g] = request[g]
BY DEF Goto, Request

LEMMA EndsFields ==
    ASSUME request \in [Handlers -> Request], NEW h \in Handlers, Ends(h)
    PROVE  /\ request' \in [Handlers -> Request]
           /\ request'[h].pc = "idle"
           /\ \A g \in Handlers \ {h} : request'[g] = request[g]
<1>1. IdleRequest.pc = "idle"
  BY DEF IdleRequest
<1> QED  BY <1>1, IdleRequestType DEF Ends

LEMMA BeginFields ==
    ASSUME request \in [Handlers -> Request], requests \in 0..MaxRequests,
           NEW h \in Handlers, NEW req \in Request, Begin(h, req)
    PROVE  /\ request' \in [Handlers -> Request] /\ request'[h] = req
           /\ \A g \in Handlers \ {h} : request'[g] = request[g]
           /\ requests' \in 0..MaxRequests
BY PoolConstants DEF Begin

LEMMA FaultType ==
    ASSUME faults \in 0..MaxFaults
    PROVE  Fault \/ NoFault => faults' \in 0..MaxFaults
BY PoolConstants DEF Fault, NoFault

-----------------------------------------------------------------------------
(* What a step does to a proxy, its password and the history.  Every step of a *)
(* handler, and the end of an assignment, is one of these for some proxy.      *)
Nothing == UNCHANGED <<proxy, password, vouched, torn>> /\ assigned' \subseteq assigned
Assigns(p) ==
    /\ Present(p) /\ assigned' = assigned \cup {p}
    /\ UNCHANGED <<proxy, password, vouched, torn>>
Stores(p) ==
    /\ Present(p) /\ \E w \in Endpoints : password' = [password EXCEPT ![p] = w]
    /\ UNCHANGED <<proxy, assigned, vouched, torn>>
Drops(p) ==
    /\ password' = [password EXCEPT ![p] = NULL] /\ torn' = torn \cup {p}
    /\ UNCHANGED <<proxy, assigned, vouched>>
Deletes(p) == Delete(p) /\ UNCHANGED <<assigned, vouched, torn>>
Creates(p) ==
    /\ proxy[p].state = "unused"
    /\ \E e \in Endpoints : proxy' = [proxy EXCEPT ![p] = [NoRow EXCEPT !.state = "present", !.at = e]]
    /\ UNCHANGED <<password, assigned, vouched, torn>>
Refers(p) ==
    /\ p \notin torn /\ Present(p) => password[p] # NULL
    /\ Update(p, [proxy[p] EXCEPT !.ref = TRUE])
    /\ UNCHANGED <<password, assigned, vouched, torn>>
Vouches(p) ==
    /\ \E r \in Row : /\ Update(p, r) /\ r.state = proxy[p].state /\ r.ref = proxy[p].ref
                      /\ r.status = "healthy" /\ r.failures = 0
                      /\ r.successes \in {0, proxy[p].successes}
    /\ vouched' = vouched \cup {p}
    /\ UNCHANGED <<password, assigned, torn>>
Effect(p) == \/ Nothing \/ Assigns(p) \/ Stores(p) \/ Drops(p)
             \/ Deletes(p) \/ Creates(p) \/ Refers(p) \/ Vouches(p)

\* The tables of the model keep their types under every effect.
TablesOK ==
    /\ proxy \in [Proxies -> Row]
    /\ password \in [Proxies -> Endpoints \cup {NULL}]
    /\ assigned \in SUBSET Proxies
    /\ vouched \in SUBSET Proxies /\ torn \in SUBSET Proxies
    /\ \A p \in Proxies : proxy[p].state # "present" =>
          /\ proxy[p] = [NoRow EXCEPT !.state = proxy[p].state]
          /\ password[p] = NULL /\ p \notin assigned

\* The row of a proxy under each effect.
LEMMA EffectRow ==
    ASSUME TablesOK, NEW p \in Proxies, Effect(p), NEW q \in Proxies
    PROVE  /\ proxy' \in [Proxies -> Row]
           /\ password' \in [Proxies -> Endpoints \cup {NULL}]
           /\ vouched \subseteq vouched' /\ torn \subseteq torn'
           /\ vouched' \in SUBSET Proxies /\ torn' \in SUBSET Proxies
           \* the row
           /\ \/ proxy'[q] = proxy[q]
              \/ /\ proxy'[q] = [NoRow EXCEPT !.state = "deleted"] /\ proxy'[q].state = "deleted"
                 /\ password'[q] = NULL /\ q \notin assigned' /\ Present(q)
                 /\ proxy'[q].status = "unknown" /\ proxy'[q].failures = 0 /\ proxy'[q].successes = 0
              \/ /\ proxy[q].state = "unused" /\ proxy'[q].state = "present" /\ proxy'[q].ref = FALSE
                 /\ proxy'[q].status = "unknown" /\ proxy'[q].failures = 0 /\ proxy'[q].successes = 0
                 /\ password'[q] = password[q]
              \/ /\ q \notin torn => password[q] # NULL
                 /\ Present(q) /\ proxy'[q].state = "present" /\ password'[q] = password[q]
                 /\ proxy'[q].status = proxy[q].status /\ proxy'[q].failures = proxy[q].failures
                 /\ proxy'[q].successes = proxy[q].successes
              \/ /\ Present(q) /\ proxy'[q].state = "present" /\ proxy'[q].ref = proxy[q].ref
                 /\ proxy'[q].status = "healthy" /\ q \in vouched' /\ proxy'[q].failures = 0
                 /\ proxy'[q].successes \in {0, proxy[q].successes} /\ password'[q] = password[q]
           \* the password
           /\ \/ password'[q] = password[q]
              \/ password'[q] # NULL /\ Present(q) /\ proxy'[q] = proxy[q]
              \/ password'[q] = NULL /\ (q \in torn' \/ proxy'[q].state = "deleted")
           \* the assignment
           /\ q \in assigned' => q \in assigned \/ (Present(q) /\ proxy'[q] = proxy[q])
<1>t. /\ proxy \in [Proxies -> Row] /\ password \in [Proxies -> Endpoints \cup {NULL}]
      /\ assigned \in SUBSET Proxies /\ vouched \in SUBSET Proxies /\ torn \in SUBSET Proxies
  BY DEF TablesOK
<1>1. CASE Nothing
  BY <1>1, <1>t DEF Nothing
<1>2. CASE Assigns(p)
  BY <1>2, <1>t DEF Assigns
<1>3. CASE Stores(p)
  <2>1. PICK w \in Endpoints : password' = [password EXCEPT ![p] = w]
    BY <1>3 DEF Stores
  <2>2. w # NULL
    BY NullIsNothing
  <2> QED  BY <1>3, <1>t, <2>1, <2>2 DEF Stores
<1>4. CASE Drops(p)
  BY <1>4, <1>t DEF Drops
<1>5. CASE Deletes(p)
  <2>1. Delete(p)
    BY <1>5 DEF Deletes
  <2>2. /\ proxy' \in [Proxies -> Row] /\ password' \in [Proxies -> Endpoints \cup {NULL}]
        /\ \/ proxy'[q] = proxy[q] /\ password'[q] = password[q]
           \/ /\ proxy'[q] = [NoRow EXCEPT !.state = "deleted"]
              /\ password'[q] = NULL /\ q \notin assigned /\ Present(q)
    BY <1>t, <2>1, DeleteFields
  <2>3. CASE proxy'[q] = proxy[q] /\ password'[q] = password[q]
    BY <1>5, <1>t, <2>2, <2>3 DEF Deletes
  <2>4. CASE /\ proxy'[q] = [NoRow EXCEPT !.state = "deleted"]
             /\ password'[q] = NULL /\ q \notin assigned /\ Present(q)
    <3>1. /\ proxy'[q].state = "deleted" /\ proxy'[q].status = "unknown"
          /\ proxy'[q].failures = 0 /\ proxy'[q].successes = 0
      BY <2>4, StateRow
    <3> QED  BY <1>5, <1>t, <2>2, <2>4, <3>1 DEF Deletes
  <2> QED  BY <2>2, <2>3, <2>4
<1>6. CASE Creates(p)
  <2>1. PICK r \in Row : /\ proxy' = [proxy EXCEPT ![p] = r] /\ r.state = "present" /\ r.ref = FALSE
                         /\ r.status = "unknown" /\ r.failures = 0 /\ r.successes = 0
    <3>1. PICK e \in Endpoints :
             proxy' = [proxy EXCEPT ![p] = [NoRow EXCEPT !.state = "present", !.at = e]]
      BY <1>6 DEF Creates
    <3>2. PICK r : r = [NoRow EXCEPT !.state = "present", !.at = e]
      OBVIOUS
    <3>3. proxy' = [proxy EXCEPT ![p] = r]
      BY <3>1, <3>2
    <3> QED  BY <3>2, <3>3, CreatedRow
  <2> QED  BY <1>6, <1>t, <2>1 DEF Creates
<1>7. CASE Refers(p)
  <2>1. PICK r \in Row : /\ Update(p, r) /\ r.state = proxy[p].state /\ r.status = proxy[p].status
                         /\ r.failures = proxy[p].failures /\ r.successes = proxy[p].successes
    BY <1>7, <1>t, RefRow DEF Refers
  <2>2. /\ proxy' \in [Proxies -> Row]
        /\ proxy'[q] = proxy[q] \/ (q = p /\ Present(p) /\ proxy'[q] = r)
    BY <1>t, <2>1, UpdateFields
  <2> QED  BY <1>7, <1>t, <2>1, <2>2 DEF Refers, Present
<1>8. CASE Vouches(p)
  <2>1. PICK r \in Row : /\ Update(p, r) /\ r.state = proxy[p].state /\ r.ref = proxy[p].ref
                         /\ r.status = "healthy" /\ r.failures = 0
                         /\ r.successes \in {0, proxy[p].successes}
    BY <1>8 DEF Vouches
  <2>2. /\ proxy' \in [Proxies -> Row]
        /\ proxy'[q] = proxy[q] \/ (q = p /\ Present(p) /\ proxy'[q] = r)
    BY <1>t, <2>1, UpdateFields
  <2> QED  BY <1>8, <1>t, <2>1, <2>2 DEF Vouches, Present
<1> QED  BY <1>1, <1>2, <1>3, <1>4, <1>5, <1>6, <1>7, <1>8 DEF Effect

\* The tables are the part of the types that the effects are about.
LEMMA TypeParts ==
    /\ PoolTypeOK <=> /\ TablesOK /\ up \in SUBSET Endpoints
                      /\ request \in [Handlers -> Request] /\ monitor \in Monitor
                      /\ streak \in [Proxies -> [passed : Successes, failed : Failures]]
                      /\ requests \in 0..MaxRequests /\ faults \in 0..MaxFaults
    /\ PoolTypeOK' <=> /\ TablesOK' /\ up' \in SUBSET Endpoints
                       /\ request' \in [Handlers -> Request] /\ monitor' \in Monitor
                       /\ streak' \in [Proxies -> [passed : Successes, failed : Failures]]
                       /\ requests' \in 0..MaxRequests /\ faults' \in 0..MaxFaults
BY Zenon DEF PoolTypeOK, TablesOK

\* What a step leaves of the request of h.
RequestOf(h) ==
    /\ request' \in [Handlers -> Request]
    /\ \A g \in Handlers \ {h} : request'[g] = request[g]
    /\ request'[h].pc # "idle" => request'[h].proxy \in Proxies
    /\ request'[h].pc \in {"put", "putAgain"} => request'[h].password # NULL
    /\ request'[h].pc \in {"ref", "refAgain"} =>
          /\ proxy'[request'[h].proxy].state # "unused"
          /\ password'[request'[h].proxy] # NULL
OneStep(h) ==
    /\ \E p \in Proxies : Effect(p)
    /\ RequestOf(h)
    /\ UNCHANGED <<streak, monitor, up>>
    /\ requests' \in 0..MaxRequests /\ faults' \in 0..MaxFaults

\* A new request changes nothing but its own record, except that createProxy inserts
\* the row at once.
LEMMA NewRequestStep ==
    ASSUME PoolTypeOK, RequestInv, NEW h \in Handlers, NewRequest(h)
    PROVE  OneStep(h)
<1>t. /\ TablesOK /\ request \in [Handlers -> Request]
      /\ requests \in 0..MaxRequests /\ faults \in 0..MaxFaults
      /\ password \in [Proxies -> Endpoints \cup {NULL}]
  BY TypeParts DEF TablesOK
<1>b. ASSUME NEW req \in Request, Begin(h, req), req.proxy \in Proxies,
             req.pc \notin {"ref", "refAgain"},
             req.pc \in {"put", "putAgain"} => req.password # NULL
      PROVE  RequestOf(h) /\ requests' \in 0..MaxRequests
  BY <1>t, <1>b, BeginFields DEF RequestOf
<1>1. ASSUME NEW e \in Endpoints, CreateProxy(h, e) PROVE OneStep(h)
  <2> DEFINE req(p) == [pc |-> IF e \in Open THEN "healthy" ELSE "put", proxy |-> p, at |-> e,
                        password |-> IF e \in Open THEN NULL ELSE e]
  <2>1. PICK p \in Proxies :
           /\ proxy[p].state = "unused" /\ Begin(h, req(p))
           /\ proxy' = [proxy EXCEPT ![p] = [NoRow EXCEPT !.state = "present", !.at = e]]
    BY <1>1 DEF CreateProxy
  <2>2. req(p) \in Request
    BY DEF Request, RequestPcs
  <2>3. /\ req(p).proxy \in Proxies /\ req(p).pc \notin {"ref", "refAgain"}
        /\ req(p).pc \in {"put", "putAgain"} => req(p).password # NULL
    BY NullIsNothing
  <2> HIDE DEF req
  <2>4. RequestOf(h) /\ requests' \in 0..MaxRequests
    BY <1>b, <2>1, <2>2, <2>3
  <2>5. Creates(p)
    BY <1>1, <2>1 DEF CreateProxy, Creates, history
  <2> QED  BY <1>1, <1>t, <2>4, <2>5 DEF CreateProxy, OneStep, Effect, history
<1>2. ASSUME NEW p \in Proxies, NEW e \in Endpoints, NEW w \in Endpoints \cup {NULL},
             UpdateProxy(h, p, e, w)
      PROVE  OneStep(h)
  <2> DEFINE used == IF w = NULL THEN password[p] ELSE w
             req == [pc |-> "commit", proxy |-> p, at |-> e, password |-> used]
  <2>1. used \in Endpoints \cup {NULL} /\ Begin(h, req)
    BY <1>2, <1>t DEF UpdateProxy
  <2> HIDE DEF used
  <2>2. req \in Request
    BY <2>1 DEF Request, RequestPcs
  <2>3. req.proxy \in Proxies /\ req.pc = "commit"
    OBVIOUS
  <2> HIDE DEF req
  <2>4. RequestOf(h) /\ requests' \in 0..MaxRequests
    BY <1>b, <2>1, <2>2, <2>3
  <2>5. Nothing
    BY <1>2 DEF UpdateProxy, Nothing, history
  <2> QED  BY <1>2, <1>t, <2>4, <2>5 DEF UpdateProxy, OneStep, Effect, history
<1>3. ASSUME NEW p \in Proxies, TestProxy(h, p) \/ AssignProxy(h, p) \/ DeleteProxy(h, p)
      PROVE  OneStep(h)
  <2>1. PICK pc \in {"tested", "assign", "delete"} :
           Begin(h, [IdleRequest EXCEPT !.pc = pc, !.proxy = p])
    BY <1>3 DEF TestProxy, AssignProxy, DeleteProxy
  <2>2. pc \in RequestPcs
    BY <2>1 DEF RequestPcs
  <2>3. PICK req : req = [IdleRequest EXCEPT !.pc = pc, !.proxy = p]
    OBVIOUS
  <2>4. Begin(h, req)
    BY <2>1, <2>3
  <2>5. req \in Request /\ req.pc = pc /\ req.proxy = p
    <3>1. req = [pc |-> pc, proxy |-> p, at |-> NULL, password |-> NULL]
      BY <2>3 DEF IdleRequest
    <3>2. [pc |-> pc, proxy |-> p, at |-> NULL, password |-> NULL] \in Request
      BY <2>2 DEF Request
    <3> QED  BY <3>1, <3>2
  <2>6. RequestOf(h) /\ requests' \in 0..MaxRequests
    BY <1>b, <2>1, <2>4, <2>5
  <2>7. Nothing /\ UNCHANGED <<streak, monitor, up, faults>>
    BY <1>3 DEF TestProxy, AssignProxy, DeleteProxy, Nothing, history
  <2> QED  BY <1>t, <2>6, <2>7 DEF OneStep, Effect
<1> QED  BY <1>1, <1>2, <1>3 DEF NewRequest

\* The rest of a request.
LEMMA HandlerStepOne ==
    ASSUME PoolTypeOK, RequestInv, SecretInv, NEW h \in Handlers, HandlerStep(h) \/ Abort(h)
    PROVE  OneStep(h)
<1>t. /\ TablesOK /\ request \in [Handlers -> Request]
      /\ requests \in 0..MaxRequests /\ faults \in 0..MaxFaults
      /\ password \in [Proxies -> Endpoints \cup {NULL}] /\ proxy \in [Proxies -> Row]
      /\ assigned \in SUBSET Proxies
  BY TypeParts DEF TablesOK
<1>f. Fault \/ NoFault => faults' \in 0..MaxFaults
  BY <1>t, FaultType
<1>i. request[h].pc # "idle"
  BY DEF HandlerStep, Abort, PutSecret, SetRef, MarkHealthy, CleanUp, CommitUpdate, PutAgain, RefAgain,
         StoreTest, StoreAssignment, DeleteRow
<1>p. PICK p \in Proxies : p = request[h].proxy
  BY <1>i DEF RequestInv
<1>w. request[h].password \in Endpoints \cup {NULL} /\ request[h].at \in Endpoints \cup {NULL}
  BY <1>t DEF Request
<1>r. proxy[p] \in Row
  BY <1>t
\* How the request may go on.
<1>e. Ends(h) => RequestOf(h)
  BY <1>t, EndsFields DEF RequestOf
<1>g. \A pc \in {"healthy", "cleanup"} : Goto(h, pc) => RequestOf(h)
  BY <1>t, <1>p, GotoFields DEF RequestOf, RequestPcs
<1>c. Goto(h, "putAgain") /\ request[h].password # NULL => RequestOf(h)
  BY <1>t, <1>p, GotoFields DEF RequestOf, RequestPcs
<1>s. ASSUME NEW pc \in {"ref", "refAgain"}, Goto(h, pc), Present(p), request[h].password # NULL,
             password' = [password EXCEPT ![p] = request[h].password], UNCHANGED proxy
      PROVE  RequestOf(h)
  <2>1. pc \in RequestPcs
    BY <1>s DEF RequestPcs
  <2>2. /\ request' \in [Handlers -> Request]
        /\ request'[h].pc = pc /\ request'[h].proxy = p
        /\ \A g \in Handlers \ {h} : request'[g] = request[g]
    BY <1>t, <1>p, <1>s, <2>1, GotoFields
  <2>3. password'[p] # NULL /\ proxy'[p].state # "unused"
    BY <1>t, <1>s DEF Present
  <2> QED  BY <1>s, <2>2, <2>3 DEF RequestOf
<1>x. ASSUME DropSecret(h), UNCHANGED <<proxy, assigned, vouched>>
      PROVE  Drops(p) /\ RequestOf(h) /\ faults' \in 0..MaxFaults
  BY <1>x, <1>f, <1>g, <1>p DEF DropSecret, Drops
<1>o. ASSUME Effect(p), RequestOf(h), UNCHANGED <<streak, monitor, up, requests>>,
             faults' \in 0..MaxFaults
      PROVE  OneStep(h)
  BY <1>o, <1>t DEF OneStep
<1>1. CASE PutSecret(h)
  <2>0. UNCHANGED <<streak, monitor, up, requests>> /\ request[h].password # NULL
    BY <1>1 DEF PutSecret, history, RequestInv
  <2>1. CASE /\ Present(p) /\ password' = [password EXCEPT ![p] = request[h].password]
             /\ Goto(h, "ref") /\ UNCHANGED proxy /\ NoFault
    <3>1. Stores(p)
      BY <1>1, <1>w, <2>0, <2>1 DEF PutSecret, Stores, history
    <3> QED  BY <1>f, <1>o, <1>s, <2>0, <2>1, <3>1 DEF Effect
  <2>2. CASE Ends(h) /\ UNCHANGED <<proxy, password>> /\ NoFault
    <3>1. Nothing
      BY <1>1, <2>2 DEF PutSecret, Nothing, history
    <3> QED  BY <1>e, <1>f, <1>o, <2>0, <2>2, <3>1 DEF Effect
  <2>3. CASE Delete(p) /\ Ends(h) /\ Fault
    <3>1. Deletes(p)
      BY <1>1, <2>3 DEF PutSecret, Deletes, history
    <3> QED  BY <1>e, <1>f, <1>o, <2>0, <2>3, <3>1 DEF Effect
  <2> QED  BY <1>1, <1>p, <2>1, <2>2, <2>3 DEF PutSecret
<1>2. CASE SetRef(h)
  <2>0. UNCHANGED <<streak, monitor, up, requests, assigned, vouched>>
    BY <1>2 DEF SetRef, history
  <2>1. CASE Update(p, [proxy[p] EXCEPT !.ref = TRUE]) /\ Goto(h, "healthy")
             /\ UNCHANGED <<password, torn, faults>>
    <3>1. Refers(p)
      BY <1>2, <1>p, <2>0, <2>1 DEF SetRef, Refers, SecretInv
    <3> QED  BY <1>g, <1>o, <1>t, <2>0, <2>1, <3>1 DEF Effect
  <2>2. CASE DropSecret(h) /\ UNCHANGED proxy
    BY <1>o, <1>x, <2>0, <2>2 DEF Effect
  <2> QED  BY <1>2, <1>p, <2>1, <2>2 DEF SetRef
<1>3. CASE MarkHealthy(h)
  <2>0. UNCHANGED <<streak, monitor, up, requests, assigned>>
    BY <1>3 DEF MarkHealthy
  <2>1. CASE Vouch(p, proxy[p]) /\ Ends(h) /\ UNCHANGED <<password, torn, faults>>
    <3>1. PICK q : q = [proxy[p] EXCEPT !.status = "healthy", !.failures = 0, !.successes = 0]
      OBVIOUS
    <3>2. Update(p, q)
      BY <2>1, <3>1 DEF Vouch
    <3>3. Vouches(p)
      BY <1>r, <2>0, <2>1, <3>1, <3>2, VouchRow DEF Vouch, Vouches
    <3> QED  BY <1>e, <1>o, <1>t, <2>0, <2>1, <3>3 DEF Effect
  <2>2. CASE DropSecret(h) /\ UNCHANGED <<proxy, vouched>>
    BY <1>o, <1>x, <2>0, <2>2 DEF Effect
  <2> QED  BY <1>3, <1>p, <2>1, <2>2 DEF MarkHealthy
<1>4. CASE CleanUp(h) \/ DeleteRow(h)
  <2>1. Deletes(p) /\ Ends(h) /\ UNCHANGED <<streak, monitor, up, requests, faults>>
    BY <1>4, <1>p DEF CleanUp, DeleteRow, Deletes, history, bounds
  <2> QED  BY <1>e, <1>o, <1>t, <2>1 DEF Effect
<1>5. CASE CommitUpdate(h)
  <2>0. UNCHANGED <<streak, monitor, up, requests, assigned, password, torn>>
    BY <1>5 DEF CommitUpdate
  <2>1. CASE /\ Present(p) /\ Vouch(p, [proxy[p] EXCEPT !.at = request[h].at]) /\ NoFault
             /\ IF request[h].password = NULL THEN Ends(h) ELSE Goto(h, "putAgain")
    <3>1. PICK m : m = [proxy[p] EXCEPT !.at = request[h].at]
      OBVIOUS
    <3>2. m \in Row /\ m.state = proxy[p].state /\ m.ref = proxy[p].ref
      BY <1>r, <1>w, <3>1, MoveRow
    <3>3. PICK q : q = [m EXCEPT !.status = "healthy", !.failures = 0, !.successes = 0]
      OBVIOUS
    <3>4. Update(p, q) /\ vouched' = vouched \cup {p}
      BY <2>1, <3>1, <3>3 DEF Vouch
    <3>5. Vouches(p)
      <4>1. /\ q \in Row /\ q.state = m.state /\ q.ref = m.ref
            /\ q.status = "healthy" /\ q.failures = 0 /\ q.successes = 0
        BY <3>2, <3>3, VouchRow, Zenon
      <4> QED  BY <2>0, <3>2, <3>4, <4>1 DEF Vouches
    <3>6. RequestOf(h)
      BY <1>c, <1>e, <2>1
    <3> QED  BY <1>f, <1>o, <2>0, <2>1, <3>5, <3>6 DEF Effect
  <2>2. CASE Ends(h) /\ UNCHANGED <<proxy, vouched>> /\ (Fault \/ UNCHANGED faults)
    <3>1. Nothing /\ (Fault \/ NoFault)
      BY <2>0, <2>2 DEF Nothing, NoFault
    <3> QED  BY <1>e, <1>f, <1>o, <2>0, <2>2, <3>1 DEF Effect
  <2> QED  BY <1>5, <1>p, <2>1, <2>2 DEF CommitUpdate
<1>6. CASE PutAgain(h)
  <2>0. /\ UNCHANGED <<streak, monitor, up, requests, proxy, assigned, vouched, torn>>
        /\ request[h].password # NULL
    BY <1>6 DEF PutAgain, history, RequestInv
  <2>1. CASE /\ Present(p) /\ password' = [password EXCEPT ![p] = request[h].password]
             /\ Goto(h, "refAgain") /\ NoFault
    <3>1. Stores(p)
      BY <1>w, <2>0, <2>1 DEF Stores
    <3> QED  BY <1>f, <1>o, <1>s, <2>0, <2>1, <3>1 DEF Effect
  <2>2. CASE Ends(h) /\ UNCHANGED password /\ (Fault \/ NoFault)
    <3>1. Nothing
      BY <2>0, <2>2 DEF Nothing
    <3> QED  BY <1>e, <1>f, <1>o, <2>0, <2>2, <3>1 DEF Effect
  <2> QED  BY <1>6, <1>p, <2>1, <2>2 DEF PutAgain
<1>7. CASE RefAgain(h)
  <2>0. UNCHANGED <<streak, monitor, up, requests, password, assigned, vouched, torn>> /\ Ends(h)
    BY <1>7 DEF RefAgain, history
  <2>1. CASE Update(p, [proxy[p] EXCEPT !.ref = TRUE]) /\ NoFault
    <3>1. Refers(p)
      BY <1>7, <1>p, <2>0, <2>1 DEF RefAgain, Refers, SecretInv
    <3> QED  BY <1>e, <1>f, <1>o, <2>0, <2>1, <3>1 DEF Effect
  <2>2. CASE UNCHANGED proxy /\ Fault
    <3>1. Nothing
      BY <2>0, <2>2 DEF Nothing
    <3> QED  BY <1>e, <1>f, <1>o, <2>0, <2>2, <3>1 DEF Effect
  <2> QED  BY <1>7, <1>p, <2>1, <2>2 DEF RefAgain
<1>8. CASE StoreTest(h)
  <2>0. UNCHANGED <<streak, monitor, up, requests, password, assigned, torn>> /\ Ends(h)
    BY <1>8 DEF StoreTest
  <2>1. CASE /\ Update(p, [proxy[p] EXCEPT !.status = "healthy", !.failures = 0])
             /\ vouched' = vouched \cup {p} /\ NoFault
    <3>1. PICK q : q = [proxy[p] EXCEPT !.status = "healthy", !.failures = 0]
      OBVIOUS
    <3>2. Update(p, q)
      BY <2>1, <3>1
    <3>3. Vouches(p)
      <4>1. /\ q \in Row /\ q.state = proxy[p].state /\ q.ref = proxy[p].ref
            /\ q.status = "healthy" /\ q.failures = 0 /\ q.successes = proxy[p].successes
        BY <1>r, <3>1, TestRow, Zenon
      <4> QED  BY <2>0, <2>1, <3>2, <4>1 DEF Vouches
    <3> QED  BY <1>e, <1>f, <1>o, <2>0, <2>1, <3>3 DEF Effect
  <2>2. CASE UNCHANGED <<proxy, vouched>> /\ Fault
    <3>1. Nothing
      BY <2>0, <2>2 DEF Nothing
    <3> QED  BY <1>e, <1>f, <1>o, <2>0, <2>2, <3>1 DEF Effect
  <2> QED  BY <1>8, <1>p, <2>1, <2>2 DEF StoreTest
<1>9. CASE StoreAssignment(h)
  <2>1. Nothing \/ Assigns(p)
    BY <1>9, <1>p DEF StoreAssignment, Nothing, Assigns, history
  <2>2. Ends(h) /\ UNCHANGED <<streak, monitor, up, requests, faults>>
    BY <1>9 DEF StoreAssignment, history, bounds
  <2> QED  BY <1>e, <1>o, <1>t, <2>1, <2>2 DEF Effect
<1>10. CASE Abort(h)
  <2>1. Nothing /\ Ends(h) /\ Fault /\ UNCHANGED <<streak, monitor, up, requests>>
    BY <1>10 DEF Abort, Nothing, history
  <2> QED  BY <1>e, <1>f, <1>o, <2>1 DEF Effect
<1> QED  BY <1>1, <1>2, <1>3, <1>4, <1>5, <1>6, <1>7, <1>8, <1>9, <1>10 DEF HandlerStep

-----------------------------------------------------------------------------
(* What the effects keep. *)
LEMMA EffectTables ==
    ASSUME TablesOK, NEW p \in Proxies, Effect(p)
    PROVE  TablesOK'
<1>1. /\ proxy' \in [Proxies -> Row] /\ password' \in [Proxies -> Endpoints \cup {NULL}]
      /\ vouched' \in SUBSET Proxies /\ torn' \in SUBSET Proxies
  BY EffectRow
<1>2. assigned' \in SUBSET Proxies
  BY DEF TablesOK, Effect, Nothing, Assigns, Stores, Drops, Deletes, Creates, Refers, Vouches
<1>3. ASSUME NEW q \in Proxies, proxy'[q].state # "present"
      PROVE  /\ proxy'[q] = [NoRow EXCEPT !.state = proxy'[q].state]
             /\ password'[q] = NULL /\ q \notin assigned'
  <2>1. \/ proxy'[q] = proxy[q]
        \/ /\ proxy'[q] = [NoRow EXCEPT !.state = "deleted"] /\ proxy'[q].state = "deleted"
           /\ password'[q] = NULL /\ q \notin assigned'
    BY <1>3, EffectRow
  <2>2. CASE proxy'[q] = proxy[q]
    <3>1. /\ proxy[q] = [NoRow EXCEPT !.state = proxy[q].state]
          /\ password[q] = NULL /\ q \notin assigned /\ ~Present(q)
      BY <1>3, <2>2 DEF TablesOK, Present
    <3>2. password'[q] = NULL
      BY <3>1, EffectRow
    <3>3. q \notin assigned'
      BY <3>1, EffectRow
    <3> QED  BY <2>2, <3>1, <3>2, <3>3
  <2>3. CASE /\ proxy'[q] = [NoRow EXCEPT !.state = "deleted"] /\ proxy'[q].state = "deleted"
             /\ password'[q] = NULL /\ q \notin assigned'
    BY <2>3
  <2> QED  BY <2>1, <2>2, <2>3
<1> QED  BY <1>1, <1>2, <1>3 DEF TablesOK

\* The counters and the verdict of a proxy that no check is stored for.
LEMMA EffectVerdict ==
    ASSUME PoolTypeOK, CounterInv, VerdictIsEarned, NEW p \in Proxies, Effect(p),
           UNCHANGED <<streak, monitor>>
    PROVE  CounterInv' /\ VerdictIsEarned'
<1>t. TablesOK
  BY TypeParts
<1>1. ASSUME NEW q \in Proxies
      PROVE  /\ proxy'[q].failures \in {0, proxy[q].failures}
             /\ proxy'[q].successes \in {0, proxy[q].successes}
             /\ q \in vouched => q \in vouched'
             /\ \/ proxy'[q].status = proxy[q].status /\ (Present(q)' => Present(q))
                \/ proxy'[q].status = "unknown"
                \/ proxy'[q].status = "healthy" /\ q \in vouched'
  BY <1>t, EffectRow DEF Present
<1>2. \A q \in Proxies : streak[q].passed \in Nat /\ streak[q].failed \in Nat
  BY Thresholds DEF PoolTypeOK, Failures, Successes
<1>3. CounterInv'
  BY <1>1, <1>2 DEF CounterInv
<1>4. VerdictIsEarned'
  BY <1>1 DEF VerdictIsEarned
<1> QED  BY <1>3, <1>4

\* A password is there for every reference, and for whoever is about to store one.
LEMMA EffectSecret ==
    ASSUME PoolTypeOK, RefHasSecret, SecretInv, RequestInv, NEW h \in Handlers, OneStep(h)
    PROVE  RefHasSecret' /\ SecretInv' /\ RequestInv'
<1>t. TablesOK
  BY TypeParts
<1>0. PICK p \in Proxies : Effect(p)
  BY DEF OneStep
<1>r. RequestOf(h)
  BY DEF OneStep
<1>1. ASSUME NEW q \in Proxies
      PROVE  /\ proxy'[q].ref /\ Present(q)' /\ q \notin torn' => password'[q] # NULL
             /\ proxy[q].state # "unused" =>
                  /\ proxy'[q].state # "unused"
                  /\ (q \notin torn /\ Present(q) => password[q] # NULL) =>
                     (q \notin torn' /\ Present(q)' => password'[q] # NULL)
  <2>1. /\ torn \subseteq torn'
        /\ q \notin torn /\ Present(q) /\ proxy[q].ref => password[q] # NULL
    BY <1>0, <1>t, EffectRow DEF RefHasSecret
  <2>2. \/ proxy'[q] = proxy[q]
        \/ proxy'[q].state = "deleted"
        \/ proxy[q].state = "unused" /\ proxy'[q].state = "present" /\ proxy'[q].ref = FALSE
        \/ /\ q \notin torn => password[q] # NULL
           /\ Present(q) /\ proxy'[q].state = "present"
        \/ Present(q) /\ proxy'[q].state = "present" /\ proxy'[q].ref = proxy[q].ref
    BY <1>0, <1>t, EffectRow
  <2>3. \/ password'[q] = password[q]
        \/ password'[q] # NULL
        \/ q \in torn' \/ proxy'[q].state = "deleted"
    BY <1>0, <1>t, EffectRow
  <2> QED  BY <2>1, <2>2, <2>3 DEF Present
<1>2. RefHasSecret'
  BY <1>1 DEF RefHasSecret
<1>3. RequestInv'
  BY <1>r DEF RequestOf, RequestInv
<1>4. SecretInv'
  <2> SUFFICES ASSUME NEW g \in Handlers, request'[g].pc \in {"ref", "refAgain"}
               PROVE  /\ proxy'[request'[g].proxy].state # "unused"
                      /\ request'[g].proxy \notin torn' /\ Present(request[g].proxy)'
                           => password'[request'[g].proxy] # NULL
    BY DEF SecretInv
  <2>1. CASE g = h
    BY <1>r, <2>1 DEF RequestOf
  <2>2. CASE g # h
    <3>1. request'[g] = request[g]
      BY <1>r, <2>2 DEF RequestOf
    <3>2. PICK q \in Proxies : q = request[g].proxy /\ q = request'[g].proxy
      BY <3>1 DEF RequestInv
    <3>3. /\ proxy[q].state # "unused"
          /\ q \notin torn /\ Present(q) => password[q] # NULL
      BY <3>1, <3>2 DEF SecretInv
    <3>4. /\ proxy'[q].state # "unused"
          /\ q \notin torn' /\ Present(q)' => password'[q] # NULL
      BY <1>1, <3>3
    <3> QED  BY <3>2, <3>4 DEF Present
  <2> QED  BY <2>1, <2>2
<1> QED  BY <1>2, <1>3, <1>4

-----------------------------------------------------------------------------
(* The monitor. *)
LEMMA IdleMonitorType ==
    /\ IdleMonitor \in Monitor /\ IdleMonitor.pc = "idle"
    /\ IdleMonitor.item = [p \in Proxies |-> NoRow]
<1>1. [p \in Proxies |-> NoRow] \in [Proxies -> Row]
  BY NoRowType
<1> QED  BY <1>1 DEF IdleMonitor, Monitor

LEMMA MonitorFields ==
    ASSUME monitor \in Monitor
    PROVE  /\ monitor.item \in [Proxies -> Row] /\ monitor.todo \in SUBSET Proxies
           /\ monitor.ok \in BOOLEAN /\ monitor.cur \in Proxies \cup {NULL}
BY DEF Monitor

\* The list is what the rows say now.
LEMMA ListFields ==
    ASSUME proxy \in [Proxies -> Row], ListProxies
    PROVE  /\ monitor' \in Monitor /\ monitor'.pc = "list"
           /\ \A q \in Proxies : monitor'.item[q] \in {proxy[q], NoRow}
<1> DEFINE todo == {p \in Proxies : Present(p)}
           item == [p \in Proxies |-> IF Present(p) THEN proxy[p] ELSE NoRow]
<1>1. monitor' = [pc |-> "list", todo |-> todo, item |-> item, cur |-> NULL, ok |-> FALSE]
  BY DEF ListProxies, IdleMonitor
<1>2. item \in [Proxies -> Row] /\ \A q \in Proxies : item[q] \in {proxy[q], NoRow}
  BY NoRowType
<1>3. todo \in SUBSET Proxies
  OBVIOUS
<1> HIDE DEF todo, item
<1>4. monitor' \in Monitor
  BY <1>1, <1>2, <1>3 DEF Monitor
<1> QED  BY <1>1, <1>2, <1>4

LEMMA CheckFields ==
    ASSUME monitor \in Monitor, NEW p \in Proxies, Check(p)
    PROVE  monitor' \in Monitor /\ monitor'.cur = p /\ monitor'.item = monitor.item
<1> DEFINE ok == /\ monitor.item[p].ref => password[p] # NULL
                 /\ CheckProxy(monitor.item[p].at, PasswordOf(p, monitor.item[p]))
<1>1. ok \in BOOLEAN
  BY DEF CheckProxy, Works
<1> HIDE DEF ok
<1>2. monitor' = [monitor EXCEPT !.pc = "save", !.todo = monitor.todo \ {p}, !.cur = p, !.ok = ok]
  BY DEF Check, ok
<1>3. monitor' = [pc |-> "save", todo |-> monitor.todo \ {p}, item |-> monitor.item,
                  cur |-> p, ok |-> ok]
  BY <1>2 DEF Monitor
<1> QED  BY <1>1, <1>3, MonitorFields DEF Monitor

\* After a verdict the listed row is gone.
LEMMA SaveMonitor ==
    ASSUME monitor \in Monitor, SaveHealth
    PROVE  /\ monitor' \in Monitor /\ monitor'.pc # "save"
           /\ \A q \in Proxies : \/ monitor'.item[q] = NoRow
                                 \/ q # monitor.cur /\ monitor'.item[q] = monitor.item[q]
<1>1. CASE monitor.todo = {}
  <2>1. monitor' = IdleMonitor
    BY <1>1 DEF SaveHealth
  <2> QED  BY <2>1, IdleMonitorType
<1>2. CASE monitor.todo # {}
  <2> DEFINE item == [monitor.item EXCEPT ![monitor.cur] = NoRow]
  <2>1. monitor' = [monitor EXCEPT !.pc = "list", !.cur = NULL, !.ok = FALSE, !.item[monitor.cur] = NoRow]
    BY <1>2 DEF SaveHealth
  <2>2. monitor' = [pc |-> "list", todo |-> monitor.todo, item |-> item, cur |-> NULL, ok |-> FALSE]
    BY <2>1 DEF Monitor
  <2>3. item \in [Proxies -> Row] /\ \A q \in Proxies : \/ item[q] = NoRow
                                                        \/ q # monitor.cur /\ item[q] = monitor.item[q]
    BY MonitorFields, NoRowType
  <2> HIDE DEF item
  <2> QED  BY <2>2, <2>3, MonitorFields DEF Monitor
<1> QED  BY <1>1, <1>2

\* The stored check keeps every conjunct: the counters follow the streak.
LEMMA SaveStep ==
    ASSUME PoolInv, SaveHealth
    PROVE  PoolInv'
<1>t. /\ TablesOK /\ monitor \in Monitor /\ request \in [Handlers -> Request] /\ up \in SUBSET Endpoints
      /\ streak \in [Proxies -> [passed : Successes, failed : Failures]]
      /\ requests \in 0..MaxRequests /\ faults \in 0..MaxFaults
  BY TypeParts DEF PoolInv
<1>u. /\ proxy \in [Proxies -> Row] /\ password \in [Proxies -> Endpoints \cup {NULL}]
      /\ assigned \in SUBSET Proxies /\ vouched \in SUBSET Proxies /\ torn \in SUBSET Proxies
      /\ \A q \in Proxies : ~Present(q) =>
            /\ proxy[q] = [NoRow EXCEPT !.state = proxy[q].state]
            /\ password[q] = NULL /\ q \notin assigned
  BY <1>t DEF TablesOK, Present
<1>0. /\ UNCHANGED <<password, assigned, up, request, torn, requests>>
      /\ faults' \in 0..MaxFaults /\ monitor.pc = "save"
  BY <1>t, FaultType DEF SaveHealth, NoFault
<1>m. /\ monitor' \in Monitor /\ CheckInv'
      /\ \A q \in Proxies : \/ monitor'.item[q] = NoRow
                            \/ q # monitor.cur /\ monitor'.item[q] = monitor.item[q]
  BY <1>t, SaveMonitor DEF CheckInv
<1>n. NoRow.failures = 0 /\ NoRow.successes = 0
  BY DEF NoRow
<1>k. \A q \in Proxies : /\ streak[q].passed \in Successes /\ streak[q].failed \in Failures
                         /\ streak[q].passed \in Nat /\ streak[q].failed \in Nat
  BY <1>t, Thresholds DEF Failures, Successes
\* It is enough to know the row, the streak and the vouching of every proxy.
<1>q. ASSUME /\ proxy' \in [Proxies -> Row]
             /\ streak' \in [Proxies -> [passed : Successes, failed : Failures]]
             /\ vouched' \in SUBSET Proxies,
             \A q \in Proxies : ~Present(q) => proxy'[q] = proxy[q],
             \A q \in Proxies : proxy'[q].state = proxy[q].state /\ proxy'[q].ref = proxy[q].ref,
             CounterInv', VerdictIsEarned'
      PROVE  PoolInv'
  <2>1. TablesOK'
    <3>1. ASSUME NEW q \in Proxies, proxy'[q].state # "present"
          PROVE  /\ proxy'[q] = [NoRow EXCEPT !.state = proxy'[q].state]
                 /\ password'[q] = NULL /\ q \notin assigned'
      BY <1>0, <1>q, <1>u, <3>1 DEF Present
    <3> QED  BY <1>0, <1>q, <1>u, <3>1 DEF TablesOK
  <2>2. PoolTypeOK'
    BY <1>0, <1>m, <1>q, <1>t, <2>1, TypeParts
  <2>3. RequestInv'
    BY <1>0 DEF PoolInv, RequestInv
  <2>4. RefHasSecret'
    BY <1>0, <1>q DEF PoolInv, RefHasSecret, Present
  <2>5. SecretInv'
    <3>1. \A g \in Handlers : request[g].pc \in {"ref", "refAgain"} => request[g].proxy \in Proxies
      BY DEF PoolInv, RequestInv
    <3> QED  BY <1>0, <1>q, <3>1 DEF PoolInv, SecretInv, Present
  <2> QED  BY <1>m, <1>q, <2>2, <2>3, <2>4, <2>5 DEF PoolInv
<1>1. CASE UNCHANGED <<proxy, history>>
  <2>1. UNCHANGED <<proxy, streak, vouched>>
    BY <1>1 DEF history
  <2>2. CounterInv'
    BY <1>k, <1>m, <1>n, <2>1 DEF PoolInv, CounterInv
  <2>3. VerdictIsEarned'
    BY <2>1 DEF PoolInv, VerdictIsEarned, Present
  <2> QED  BY <1>q, <1>t, <1>u, <2>1, <2>2, <2>3
<1>2. CASE ~UNCHANGED <<proxy, history>>
  <2>p. PICK p \in Proxies : p = monitor.cur
    BY <1>0 DEF PoolInv, CheckInv
  <2>r. PICK r \in Row : r = monitor.item[p]
    BY <1>t, MonitorFields
  <2>o. PICK ok \in BOOLEAN : ok = monitor.ok
    BY <1>t, MonitorFields
  <2>v. PICK v : v = Apply(r, ok)
    OBVIOUS
  <2>1. /\ Update(p, [proxy[p] EXCEPT !.status = v.status, !.failures = v.failures,
                                      !.successes = v.successes])
        /\ vouched' = vouched \ {p}
        /\ streak' = [streak EXCEPT ![p] =
              IF ok THEN [passed |-> Inc(streak[p].passed, RecoveryThreshold), failed |-> 0]
              ELSE [passed |-> 0, failed |-> Inc(streak[p].failed, FailureThreshold)]]
    BY <1>2, <2>p, <2>r, <2>o, <2>v DEF SaveHealth, Save
  <2> DEFINE s == Inc(r.successes, RecoveryThreshold)
             f == Inc(r.failures, FailureThreshold)
             S == Inc(streak[p].passed, RecoveryThreshold)
             F == Inc(streak[p].failed, FailureThreshold)
  <2>2. /\ v.status \in Statuses /\ v.failures \in Failures /\ v.successes \in Successes
        /\ ok => /\ v.failures = 0 /\ v.successes = s /\ v.status # "down"
                 /\ v.status = "healthy" => s >= RecoveryThreshold
        /\ ~ok => /\ v.failures = f /\ v.successes = 0 /\ v.status # "healthy"
                  /\ v.status = "down" => f >= FailureThreshold
    BY <2>v, ApplyFields
  <2>3. /\ s \in Successes /\ S \in Successes /\ s <= S
        /\ f \in Failures /\ F \in Failures /\ f <= F
    <3>1. r.successes <= streak[p].passed /\ r.failures <= streak[p].failed
      BY <2>r DEF PoolInv, CounterInv
    <3>2. r.successes \in 0..RecoveryThreshold /\ r.failures \in 0..FailureThreshold
      BY RowFields DEF Failures, Successes
    <3>3. streak[p].passed \in 0..RecoveryThreshold /\ streak[p].failed \in 0..FailureThreshold
      BY <1>k DEF Failures, Successes
    <3> QED  BY <3>1, <3>2, <3>3, Thresholds, IncBounds DEF Failures, Successes
  <2>4. Successes \subseteq Nat /\ Failures \subseteq Nat /\ 0 \in Successes /\ 0 \in Failures
    BY Thresholds DEF Failures, Successes
  <2> HIDE DEF s, f, S, F
  <2>5. /\ streak' \in [Proxies -> [passed : Successes, failed : Failures]]
        /\ streak'[p] = IF ok THEN [passed |-> S, failed |-> 0] ELSE [passed |-> 0, failed |-> F]
        /\ \A q \in Proxies \ {p} : streak'[q] = streak[q]
    <3>1. PICK k \in [passed : Successes, failed : Failures] :
             k = IF ok THEN [passed |-> S, failed |-> 0] ELSE [passed |-> 0, failed |-> F]
      BY <2>3, <2>4
    <3>2. streak' = [streak EXCEPT ![p] = k]
      BY <2>1, <3>1 DEF S, F
    <3> QED  BY <1>t, <3>1, <3>2
  <2>6. /\ streak'[p].passed = (IF ok THEN S ELSE 0) /\ streak'[p].failed = (IF ok THEN 0 ELSE F)
    BY <2>5
  <2>7. PICK n : n = [proxy[p] EXCEPT !.status = v.status, !.failures = v.failures,
                                      !.successes = v.successes]
    OBVIOUS
  <2>8. /\ n \in Row /\ n.state = proxy[p].state /\ n.ref = proxy[p].ref
        /\ n.status = v.status /\ n.failures = v.failures /\ n.successes = v.successes
    <3>1. proxy[p] \in Row
      BY <1>u
    <3>2. PICK x \in Statuses, y \in Failures, z \in Successes :
             x = v.status /\ y = v.failures /\ z = v.successes
      BY <2>2
    <3>3. n = [proxy[p] EXCEPT !.status = x, !.failures = y, !.successes = z]
      BY <2>7, <3>2
    <3>4. /\ n \in Row /\ n.state = proxy[p].state /\ n.ref = proxy[p].ref
          /\ n.status = x /\ n.failures = y /\ n.successes = z
      <4>1. n = [state |-> proxy[p].state, at |-> proxy[p].at, ref |-> proxy[p].ref, status |-> x,
                 failures |-> y, successes |-> z]
        BY <3>1, <3>3 DEF Row
      <4> QED  BY <3>1, <3>2, <4>1, RowFields DEF Row
    <3> QED  BY <3>2, <3>4
  <2>9. Update(p, n)
    BY <2>1, <2>7
  <2>10. /\ proxy' \in [Proxies -> Row]
         /\ Present(p) => proxy'[p] = n
         /\ ~Present(p) => proxy'[p] = proxy[p]
         /\ \A q \in Proxies \ {p} : proxy'[q] = proxy[q]
    BY <1>u, <2>8, <2>9, UpdateFields
  <2>11. ~Present(p) => /\ proxy'[p].failures = 0 /\ proxy'[p].successes = 0
                        /\ proxy'[p].state # "present"
    <3>1. ~Present(p) => proxy[p].failures = 0 /\ proxy[p].successes = 0
      BY <1>u, RowFields, StateRow DEF Present
    <3> QED  BY <2>10, <3>1 DEF Present
  <2>12. CounterInv'
    <3>1. ASSUME NEW q \in Proxies \ {p}
          PROVE  /\ proxy'[q].failures <= streak'[q].failed
                 /\ proxy'[q].successes <= streak'[q].passed
                 /\ monitor'.item[q].failures <= streak'[q].failed
                 /\ monitor'.item[q].successes <= streak'[q].passed
      BY <1>k, <1>m, <1>n, <2>5, <2>10 DEF PoolInv, CounterInv
    <3>2. /\ proxy'[p].failures <= streak'[p].failed
          /\ proxy'[p].successes <= streak'[p].passed
      BY <2>2, <2>3, <2>4, <2>6, <2>8, <2>10, <2>11
    <3>3. /\ monitor'.item[p].failures <= streak'[p].failed
          /\ monitor'.item[p].successes <= streak'[p].passed
      <4>1. monitor'.item[p] = NoRow
        BY <1>m, <2>p
      <4>2. streak'[p].failed \in Nat /\ streak'[p].passed \in Nat
        BY <2>3, <2>4, <2>6
      <4> QED  BY <1>n, <4>1, <4>2
    <3> QED  BY <3>1, <3>2, <3>3 DEF CounterInv
  <2>13. VerdictIsEarned'
    <3>1. ASSUME NEW q \in Proxies \ {p}, Present(q)'
          PROVE  /\ proxy'[q].status = "down" => streak'[q].failed >= FailureThreshold
                 /\ proxy'[q].status = "healthy" =>
                       q \in vouched' \/ streak'[q].passed >= RecoveryThreshold
      BY <2>1, <2>5, <2>10, <3>1 DEF PoolInv, VerdictIsEarned, Present
    <3>2. ASSUME Present(p)'
          PROVE  /\ proxy'[p].status = "down" => streak'[p].failed >= FailureThreshold
                 /\ proxy'[p].status = "healthy" => streak'[p].passed >= RecoveryThreshold
      BY <2>2, <2>3, <2>4, <2>6, <2>8, <2>10, <2>11, <3>2, Thresholds DEF Present
    <3> QED  BY <3>1, <3>2 DEF VerdictIsEarned
  <2>14. \A q \in Proxies : ~Present(q) => proxy'[q] = proxy[q]
    BY <2>10
  <2>15. \A q \in Proxies : proxy'[q].state = proxy[q].state /\ proxy'[q].ref = proxy[q].ref
    BY <2>8, <2>10
  <2>16. vouched' \in SUBSET Proxies
    BY <1>u, <2>1
  <2> QED  BY <1>q, <2>5, <2>10, <2>12, <2>13, <2>14, <2>15, <2>16
<1> QED  BY <1>1, <1>2

-----------------------------------------------------------------------------
LEMMA InvInit == PoolInit => PoolInv
<1> SUFFICES ASSUME PoolInit PROVE PoolInv
  OBVIOUS
<1>1. ASSUME NEW p \in Proxies
      PROVE  /\ proxy[p] \in Row /\ proxy[p].failures = 0 /\ proxy[p].successes = 0
             /\ proxy[p].ref = FALSE
             /\ proxy[p].status = "unknown" \/ (proxy[p].status = "healthy" /\ p \in Initial)
             /\ proxy[p].state # "present" => proxy[p] = [NoRow EXCEPT !.state = proxy[p].state]
  <2>1. CASE p \notin Initial
    <3>1. proxy[p] = NoRow /\ NoRow.state = "unused"
      BY <2>1 DEF PoolInit, NoRow
    <3>2. PICK q : q = [NoRow EXCEPT !.state = "unused"]
      OBVIOUS
    <3>3. q = NoRow
      BY <3>2 DEF NoRow
    <3>4. /\ NoRow.failures = 0 /\ NoRow.successes = 0 /\ NoRow.ref = FALSE
          /\ NoRow.status = "unknown"
      BY DEF NoRow
    <3> QED  BY <3>1, <3>2, <3>3, <3>4, NoRowType, Zenon
  <2>2. CASE p \in Initial
    <3>1. proxy[p] = [state |-> "present", at |-> Home[p], ref |-> FALSE, status |-> "healthy",
                      failures |-> 0, successes |-> 0]
      BY <2>2 DEF PoolInit, NoRow
    <3>2. Home[p] \in Endpoints \cup {NULL}
      BY <2>2, PoolConstants
    <3>3. proxy[p] \in Row
      BY <3>1, <3>2, NoRowType DEF Row, Statuses
    <3> QED  BY <2>2, <3>1, <3>3
  <2> QED  BY <2>1, <2>2
<1>2. /\ proxy \in [Proxies -> Row] /\ password \in [Proxies -> Endpoints \cup {NULL}]
      /\ assigned = {} /\ torn = {} /\ vouched = Initial /\ up = Endpoints
      /\ requests = 0 /\ faults = 0 /\ \A p \in Proxies : password[p] = NULL
  <2>1. proxy = [p \in Proxies |-> proxy[p]]
    BY DEF PoolInit
  <2> QED  BY <1>1, <2>1 DEF PoolInit
<1>3. TablesOK
  BY <1>1, <1>2, PoolConstants DEF TablesOK
<1>4. request \in [Handlers -> Request] /\ \A h \in Handlers : request[h].pc = "idle"
  <2>1. IdleRequest.pc = "idle"
    BY DEF IdleRequest
  <2> QED  BY <2>1, IdleRequestType DEF PoolInit
<1>5. monitor = IdleMonitor /\ monitor \in Monitor
  BY IdleMonitorType DEF PoolInit
<1>6. /\ streak \in [Proxies -> [passed : Successes, failed : Failures]]
      /\ \A p \in Proxies : streak[p].passed = 0 /\ streak[p].failed = 0
  BY NoRowType DEF PoolInit
<1>7. PoolTypeOK
  BY <1>2, <1>3, <1>4, <1>5, <1>6, TypeParts, PoolConstants
<1>8. CounterInv
  <2>1. \A p \in Proxies : monitor.item[p] = NoRow
    BY <1>5, IdleMonitorType
  <2>2. NoRow.failures = 0 /\ NoRow.successes = 0
    BY DEF NoRow
  <2>3. 0 <= 0
    OBVIOUS
  <2> QED  BY <1>1, <1>6, <2>1, <2>2, <2>3, Zenon DEF CounterInv
<1>9. VerdictIsEarned
  BY <1>1, <1>2 DEF VerdictIsEarned
<1>10. RequestInv /\ SecretInv
  BY <1>4 DEF RequestInv, SecretInv
<1>11. RefHasSecret
  BY <1>1 DEF RefHasSecret
<1>12. CheckInv
  BY <1>5, IdleMonitorType DEF CheckInv
<1> QED  BY <1>7, <1>8, <1>9, <1>10, <1>11, <1>12 DEF PoolInv

LEMMA InvStep == PoolInv /\ [PoolNext]_poolVars => PoolInv'
<1> SUFFICES ASSUME PoolInv, [PoolNext]_poolVars PROVE PoolInv'
  OBVIOUS
<1>t. /\ TablesOK /\ monitor \in Monitor /\ request \in [Handlers -> Request] /\ up \in SUBSET Endpoints
      /\ streak \in [Proxies -> [passed : Successes, failed : Failures]]
      /\ requests \in 0..MaxRequests /\ faults \in 0..MaxFaults
      /\ proxy \in [Proxies -> Row]
  BY TypeParts DEF PoolInv, TablesOK
<1>1. ASSUME NEW h \in Handlers, NewRequest(h) \/ HandlerStep(h) \/ Abort(h) PROVE PoolInv'
  <2>1. OneStep(h)
    BY <1>1, NewRequestStep, HandlerStepOne DEF PoolInv
  <2>2. PICK p \in Proxies : Effect(p)
    BY <2>1 DEF OneStep
  <2>3. PoolTypeOK'
    BY <1>t, <2>1, <2>2, EffectTables, TypeParts DEF OneStep, RequestOf
  <2>4. CounterInv' /\ VerdictIsEarned'
    BY <2>1, <2>2, EffectVerdict DEF PoolInv, OneStep
  <2>5. RefHasSecret' /\ SecretInv' /\ RequestInv'
    BY <2>1, EffectSecret DEF PoolInv
  <2>6. CheckInv'
    BY <2>1 DEF PoolInv, CheckInv, OneStep
  <2> QED  BY <2>3, <2>4, <2>5, <2>6 DEF PoolInv
\* A step that leaves the tables but for the assignments, the requests and the history.
<1>q. ASSUME UNCHANGED <<proxy, password, request, streak, vouched, torn, requests, faults>>,
             assigned' \subseteq assigned, up' \in SUBSET Endpoints, monitor' \in Monitor, CheckInv',
             \A q \in Proxies : monitor'.item[q] \in {proxy[q], NoRow, monitor.item[q]}
      PROVE  PoolInv'
  <2>1. TablesOK'
    BY <1>q, <1>t DEF TablesOK
  <2>2. PoolTypeOK'
    BY <1>q, <1>t, <2>1, TypeParts
  <2>3. CounterInv'
    <3>1. NoRow.failures = 0 /\ NoRow.successes = 0
      BY DEF NoRow
    <3>2. \A q \in Proxies : streak[q].passed \in Nat /\ streak[q].failed \in Nat
      BY <1>t, Thresholds DEF Failures, Successes
    <3> QED  BY <1>q, <3>1, <3>2 DEF PoolInv, CounterInv
  <2>4. VerdictIsEarned' /\ RefHasSecret'
    BY <1>q DEF PoolInv, VerdictIsEarned, RefHasSecret, Present
  <2>5. RequestInv' /\ SecretInv'
    BY <1>q DEF PoolInv, RequestInv, SecretInv, Present
  <2> QED  BY <1>q, <2>2, <2>3, <2>4, <2>5 DEF PoolInv
<1>2. ASSUME NEW p \in Proxies, Unassign(p) PROVE PoolInv'
  BY <1>2, <1>q, <1>t DEF Unassign, history, bounds, PoolInv, CheckInv
<1>3. ASSUME NEW e \in Endpoints, EndpointChanges(e) PROVE PoolInv'
  BY <1>3, <1>q, <1>t DEF EndpointChanges, history, bounds, PoolInv, CheckInv
<1>4. CASE ListProxies
  <2>1. /\ monitor' \in Monitor /\ monitor'.pc = "list"
        /\ \A q \in Proxies : monitor'.item[q] \in {proxy[q], NoRow}
    BY <1>4, <1>t, ListFields
  <2>2. CheckInv'
    BY <2>1 DEF CheckInv
  <2> QED  BY <1>4, <1>q, <1>t, <2>1, <2>2 DEF ListProxies, history, bounds
<1>5. ASSUME NEW p \in monitor.todo, Check(p) PROVE PoolInv'
  <2>1. p \in Proxies
    BY <1>t, MonitorFields
  <2>2. monitor' \in Monitor /\ monitor'.cur = p /\ monitor'.item = monitor.item
    BY <1>5, <1>t, <2>1, CheckFields
  <2>3. CheckInv'
    BY <2>1, <2>2 DEF CheckInv
  <2> QED  BY <1>5, <1>q, <1>t, <2>2, <2>3 DEF Check, history, bounds
<1>6. CASE SaveHealth
  BY <1>6, SaveStep
<1>7. CASE UNCHANGED poolVars
  BY <1>7, <1>q, <1>t DEF poolVars, PoolInv, CheckInv
<1> QED  BY <1>1, <1>2, <1>3, <1>4, <1>5, <1>6, <1>7 DEF PoolNext, MonitorStep

LEMMA PoolInvariant == PoolSpec => []PoolInv
BY InvInit, InvStep, PTL DEF PoolSpec

\* The tables keep their types and foreign keys, whichever requests overlap: nothing
\* is kept of a deleted proxy, and no deleted proxy is assigned.
THEOREM PoolTypes == PoolSpec => []PoolTypeOK
<1>1. PoolInv => PoolTypeOK
  BY DEF PoolInv
<1> QED  BY <1>1, PoolInvariant, PTL

\* The verdict the monitor stores is earned by checks that were stored one after the
\* other: the counters it computes from, however old, never run ahead of them.
THEOREM VerdictsAreEarned == PoolSpec => []VerdictIsEarned
<1>1. PoolInv => VerdictIsEarned
  BY DEF PoolInv
<1> QED  BY <1>1, PoolInvariant, PTL

\* createProxy and updateProxy store the password before the reference to it, and
\* only a clean-up that begins with the password takes it away from under one.
THEOREM ReferencesResolve == PoolSpec => []RefHasSecret
<1>1. PoolInv => RefHasSecret
  BY DEF PoolInv
<1> QED  BY <1>1, PoolInvariant, PTL
=============================================================================
