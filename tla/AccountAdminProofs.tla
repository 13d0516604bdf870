-------------------------- MODULE AccountAdminProofs --------------------------
(***************************************************************************)
(* Proofs about AccountAdmin, for any number of accounts, token owners and  *)
(* concurrent requests, and any bound on requests and faults.               *)
(***************************************************************************)
EXTENDS AccountAdmin, TLAPS

-----------------------------------------------------------------------------
(* Records. *)
PresentAccount == [state : {"present"}, external : Owners, profile : BOOLEAN,
                   schedule : BOOLEAN, login : BOOLEAN, rotation : BOOLEAN]

LEMMA EmptyFields ==
    ASSUME NEW s
    PROVE  /\ Empty(s).state = s /\ Empty(s).schedule = FALSE
           /\ Empty(s).login = FALSE /\ Empty(s).rotation = FALSE
BY DEF Empty

LEMMA AccountKinds ==
    ASSUME NEW a \in Account
    PROVE  /\ a.state \in {"unused", "deleted", "present"}
           /\ a.state = "present" => a \in PresentAccount
           /\ a.state # "present" => ~a.schedule /\ ~a.login /\ ~a.rotation
<1>1. CASE a \in {Empty("unused"), Empty("deleted")}
  <2>1. PICK s \in {"unused", "deleted"} : a = Empty(s)
    BY <1>1
  <2>2. a.state = s /\ a.schedule = FALSE /\ a.login = FALSE /\ a.rotation = FALSE
    BY <2>1, EmptyFields
  <2>3. s # "present"
    OBVIOUS
  <2> QED  BY <2>2, <2>3
<1>2. CASE a \in PresentAccount
  BY <1>2 DEF PresentAccount
<1> QED  BY <1>1, <1>2 DEF Account, PresentAccount

LEMMA PresentIsAccount ==
    ASSUME NEW a \in PresentAccount
    PROVE  a \in Account /\ a.state = "present"
BY DEF PresentAccount, Account

LEMMA UnusedIsAccount ==
    /\ Empty("unused") \in Account /\ Empty("unused").state # "present"
    /\ Empty("unused").login = FALSE /\ Empty("unused").rotation = FALSE
BY EmptyFields DEF Account

LEMMA DeletedIsAccount ==
    /\ Empty("deleted") \in Account /\ Empty("deleted").state # "present"
    /\ Empty("deleted").login = FALSE /\ Empty("deleted").rotation = FALSE
BY EmptyFields DEF Account

\* A row as createAccount inserts it.
LEMMA CreatedRow ==
    ASSUME NEW o \in Owners, NEW q, q = [Empty("present") EXCEPT !.external = o]
    PROVE  q \in PresentAccount /\ q.login = FALSE /\ q.rotation = FALSE
<1>1. q = [state |-> "present", external |-> o, profile |-> FALSE, schedule |-> FALSE,
           login |-> FALSE, rotation |-> FALSE]
  BY DEF Empty
<1>2. ASSUME NEW x, x = [state |-> "present", external |-> o, profile |-> FALSE, schedule |-> FALSE,
                         login |-> FALSE, rotation |-> FALSE]
      PROVE  x \in PresentAccount /\ x.login = FALSE /\ x.rotation = FALSE
  BY <1>2 DEF PresentAccount
<1> QED  BY <1>1, <1>2, Zenon

\* What the UPDATE statements make of a row.
LEMMA RowWrites ==
    ASSUME NEW a \in PresentAccount, NEW q
    PROVE  /\ q = [a EXCEPT !.profile = TRUE] =>
                q \in PresentAccount /\ q.login = a.login /\ q.rotation = a.rotation
           /\ q = [a EXCEPT !.schedule = TRUE] =>
                q \in PresentAccount /\ q.login = a.login /\ q.rotation = a.rotation
           /\ q = [a EXCEPT !.rotation = TRUE] => q \in PresentAccount
<1>1. ASSUME q = [a EXCEPT !.profile = TRUE] \/ q = [a EXCEPT !.schedule = TRUE]
      PROVE  q \in PresentAccount /\ q.login = a.login /\ q.rotation = a.rotation
  BY <1>1 DEF PresentAccount
<1>2. ASSUME q = [a EXCEPT !.rotation = TRUE] PROVE q \in PresentAccount
  BY <1>2 DEF PresentAccount
<1> QED  BY <1>1, <1>2

LEMMA LoginRow ==
    ASSUME NEW a \in PresentAccount, NEW q, q = [a EXCEPT !.login = TRUE, !.rotation = TRUE]
    PROVE  q \in PresentAccount
<1>1. q = [state |-> a.state, external |-> a.external, profile |-> a.profile,
           schedule |-> a.schedule, login |-> TRUE, rotation |-> TRUE]
  BY DEF PresentAccount
<1> QED  BY <1>1 DEF PresentAccount

LEMMA CommittedRow ==
    ASSUME NEW a \in PresentAccount, NEW o \in Owners, NEW q,
           q = [a EXCEPT !.profile = TRUE, !.schedule = TRUE, !.external = o]
    PROVE  q \in PresentAccount /\ q.login = a.login /\ q.rotation = a.rotation
<1>1. q = [state |-> a.state, external |-> o, profile |-> TRUE,
           schedule |-> TRUE, login |-> a.login, rotation |-> a.rotation]
  BY DEF PresentAccount
<1> QED  BY <1>1 DEF PresentAccount

LEMMA RequestFields ==
    ASSUME NEW q \in Request
    PROVE  /\ q.pc \in Pcs /\ q.row \in Rows \cup {NULL} /\ q.owner \in Owners \cup {NULL}
           /\ q.login \in BOOLEAN /\ q.creates \in BOOLEAN
BY DEF Request

LEMMA IdleFields ==
    /\ IdleRequest \in Request /\ IdleRequest.pc = "idle" /\ IdleRequest.creates = FALSE
BY DEF IdleRequest, Request, Pcs

-----------------------------------------------------------------------------
(* A step of handler h, and what it leaves to the others. *)
BringsToken(q) == q.creates /\ q.pc \in {"prefs", "login", "password", "token"}

Requests(h) ==
    /\ refresh' = refresh /\ request' \in [Handlers -> Request]
    /\ \A g \in Handlers \ {h} : request'[g] = request[g]
\* The request of h is in order, and what it owed to its account it still owes,
\* has paid, or has recorded as not paid.
HandlerPart(h) ==
    /\ Requests(h) /\ Sensible(request[h])'
    /\ BringsToken(request[h]) =>
          \/ BringsToken(request'[h]) /\ request'[h].row = request[h].row
          \/ secret'[request[h].row].token # NULL \/ request[h].row \in halfDone'
          \/ account'[request[h].row].state # "present"
    /\ request[h].pc = "password" =>
          secret'[request[h].row].password \/ request[h].row \in halfDone'
    /\ request'[h].pc \in {"saveLogin", "pending"} =>
          PasswordSafe(request'[h].row) \/ secret'[request'[h].row].password

\* Secrets and half-done accounts are only added to.
SecretPart ==
    /\ secret' \in [Rows -> Secret] /\ halfDone' \in SUBSET Rows /\ halfDone \subseteq halfDone'
    /\ \A r \in Rows : /\ secret[r].token # NULL => secret'[r].token # NULL
                       /\ secret[r].password => secret'[r].password
Counters == requests' \in 0..MaxRequests /\ faults' \in 0..MaxFaults

AccountPart ==
    /\ account' \in [Rows -> Account]
    /\ kept' \in [Rows -> SUBSET {"snapshot", "droplet"}]
    /\ builds' \in [Rows -> SUBSET {"scheduled", "manual"}]
    /\ \A r \in Rows :
          /\ kept[r] \subseteq kept'[r]
          /\ Present(r) /\ account'[r].state # "present" => kept[r] = {}
          /\ kept'[r] \cup builds'[r] # {} => kept[r] \cup builds[r] # {} \/ secret[r].token # NULL
          /\ "scheduled" \in builds'[r] =>
                \/ "scheduled" \in builds[r]
                \/ account'[r].state = "present" /\ "snapshot" \in kept'[r]
\* Where a row, and a reference to a password, come from.
Origin(r) ==
    /\ account'[r].state = "present" =>
          \/ Present(r)
          \/ \E h \in Handlers : request'[h].row = r /\ BringsToken(request'[h])
    /\ account'[r].login \/ account'[r].rotation =>
          \/ account[r].login \/ account[r].rotation \/ PasswordSafe(r)
          \/ \E h \in Handlers : request'[h].row = r /\ request'[h].pc = "password"
OriginPart == \A r \in Rows : Origin(r)

LEMMA TypeParts ==
    ASSUME AdminTypeOK
    PROVE  /\ account \in [Rows -> Account] /\ secret \in [Rows -> Secret]
           /\ kept \in [Rows -> SUBSET {"snapshot", "droplet"}]
           /\ builds \in [Rows -> SUBSET {"scheduled", "manual"}]
           /\ request \in [Handlers -> Request] /\ refresh \in Request
           /\ halfDone \in SUBSET Rows
           /\ \A h \in Handlers : request[h] \in Request
           /\ \A r \in Rows : account[r] \in Account /\ secret[r] \in Secret
BY DEF AdminTypeOK

LEMMA CountersKept ==
    ASSUME AdminTypeOK
    PROVE  /\ UNCHANGED requests \/ (requests < MaxRequests /\ requests' = requests + 1) =>
                requests' \in 0..MaxRequests
           /\ UNCHANGED faults \/ Fault => faults' \in 0..MaxFaults
<1>1. /\ requests \in 0..MaxRequests /\ faults \in 0..MaxFaults
      /\ MaxRequests \in Nat /\ MaxFaults \in Nat
  BY AdminConstants DEF AdminTypeOK
<1> QED  BY <1>1 DEF Fault

LEMMA SecretsKept ==
    ASSUME AdminTypeOK, UNCHANGED secret,
           UNCHANGED halfDone \/ \E r \in Rows : StopsHalfWay(r)
    PROVE  SecretPart
BY TypeParts DEF SecretPart, StopsHalfWay

LEMMA AccountsKept ==
    ASSUME AdminTypeOK, UNCHANGED <<account, kept, builds>>
    PROVE  AccountPart /\ OriginPart
BY TypeParts DEF AccountPart, OriginPart, Origin, Present

\* DELETE FROM accounts.
LEMMA DeleteEffect ==
    ASSUME AdminTypeOK, NEW r \in Rows, Delete(r), UNCHANGED kept
    PROVE  /\ AccountPart /\ OriginPart
           /\ account'[r].state # "present" \/ kept[r] # {}
<1>1. CASE kept[r] # {} \/ ~Present(r)
  BY <1>1, AccountsKept DEF Delete, Present
<1>2. CASE kept[r] = {} /\ Present(r)
  <2>1. /\ account' = [account EXCEPT ![r] = Empty("deleted")]
        /\ builds' = [builds EXCEPT ![r] = {}]
    BY <1>2 DEF Delete
  <2>2. /\ account' \in [Rows -> Account] /\ account'[r] = Empty("deleted")
        /\ \A q \in Rows \ {r} : account'[q] = account[q]
    BY <2>1, TypeParts, DeletedIsAccount
  <2>3. /\ builds' \in [Rows -> SUBSET {"scheduled", "manual"}] /\ builds'[r] = {}
        /\ \A q \in Rows \ {r} : builds'[q] = builds[q]
    BY <2>1, TypeParts
  <2>4. /\ account'[r].state # "present" /\ account'[r].login = FALSE
        /\ account'[r].rotation = FALSE
    BY <2>2, DeletedIsAccount
  <2>5. AccountPart
    BY <1>2, <2>2, <2>3, <2>4, TypeParts DEF AccountPart, Present
  <2>6. OriginPart
    BY <2>2, <2>4 DEF OriginPart, Origin, Present
  <2> QED  BY <2>4, <2>5, <2>6
<1> QED  BY <1>1, <1>2

\* UPDATE accounts.
LEMMA UpdateEffect ==
    ASSUME AdminTypeOK, NEW r \in Rows, NEW a, Update(r, a), UNCHANGED <<kept, builds>>,
           Present(r) => a \in PresentAccount,
           Present(r) /\ (a.login \/ a.rotation) =>
               \/ account[r].login \/ account[r].rotation \/ PasswordSafe(r)
               \/ \E h \in Handlers : request'[h].row = r /\ request'[h].pc = "password"
    PROVE  AccountPart /\ OriginPart
<1>1. CASE ~Present(r)
  BY <1>1, AccountsKept DEF Update
<1>2. CASE Present(r)
  <2>1. /\ account' \in [Rows -> Account] /\ account'[r] = a
        /\ \A q \in Rows \ {r} : account'[q] = account[q]
    BY <1>2, TypeParts, PresentIsAccount DEF Update
  <2>2. a.state = "present"
    BY <1>2, PresentIsAccount
  <2>3. AccountPart
    BY <2>1, <2>2, TypeParts DEF AccountPart, Present
  <2>4. OriginPart
    BY <1>2, <2>1 DEF OriginPart, Origin, Present
  <2> QED  BY <2>3, <2>4
<1> QED  BY <1>1, <1>2

LEMMA PresentRow ==
    ASSUME AdminTypeOK, NEW r \in Rows, Present(r)
    PROVE  account[r] \in PresentAccount
BY TypeParts, AccountKinds DEF Present

\* The end of a request, and its next statement.
LEMMA EndsEffect ==
    ASSUME AdminTypeOK, NEW h \in Handlers, Ends(h), UNCHANGED refresh
    PROVE  /\ Requests(h) /\ request'[h].pc = "idle" /\ Sensible(request[h])'
BY TypeParts, IdleFields DEF Ends, Requests, Sensible

LEMMA GotoEffect ==
    ASSUME AdminTypeOK, NEW h \in Handlers, NEW pc \in Pcs, Goto(h, pc), UNCHANGED refresh
    PROVE  /\ Requests(h) /\ request'[h].pc = pc /\ request'[h].row = request[h].row
           /\ request'[h].owner = request[h].owner /\ request'[h].creates = request[h].creates
           /\ request'[h].login = request[h].login
<1>1. request'[h] = [request[h] EXCEPT !.pc = pc]
  BY TypeParts DEF Goto
<1>2. request'[h] \in Request
  BY <1>1, TypeParts DEF Request
<1>3. /\ request' = [g \in Handlers |-> request'[g]]
      /\ \A g \in Handlers \ {h} : request'[g] = request[g]
  BY TypeParts DEF Goto
<1>4. Requests(h)
  BY <1>2, <1>3, TypeParts DEF Requests
<1> QED  BY <1>1, <1>4, TypeParts DEF Request

LEMMA BeginEffect ==
    ASSUME AdminTypeOK, NEW h \in Handlers, NEW q \in Request, Begin(h, q), UNCHANGED refresh
    PROVE  Requests(h) /\ request'[h] = q /\ request[h].pc = "idle"
BY TypeParts DEF Begin, Requests

-----------------------------------------------------------------------------
(* The invariant after a step, from its effects. *)
LEMMA SafeKept ==
    ASSUME SecretPart, NEW h \in Handlers, HandlerPart(h), NEW r \in Rows
    PROVE  /\ PasswordSafe(r) => PasswordSafe(r)'
           /\ TokenSafe(r) /\ account'[r].state = "present" => TokenSafe(r)'
<1>1. ASSUME PasswordSafe(r) PROVE PasswordSafe(r)'
  <2>1. CASE r \in halfDone \/ secret[r].password
    BY <2>1 DEF SecretPart, PasswordSafe
  <2>2. ASSUME NEW g \in Handlers, request[g].row = r, request[g].pc = "password"
        PROVE  PasswordSafe(r)'
    <3>1. CASE g = h
      BY <2>2, <3>1 DEF HandlerPart, PasswordSafe
    <3>2. CASE g # h
      BY <2>2, <3>2 DEF HandlerPart, Requests, PasswordSafe
    <3> QED  BY <3>1, <3>2
  <2> QED  BY <1>1, <2>1, <2>2 DEF PasswordSafe
<1>2. ASSUME TokenSafe(r), account'[r].state = "present" PROVE TokenSafe(r)'
  <2>1. CASE r \in halfDone \/ secret[r].token # NULL
    BY <2>1 DEF SecretPart, TokenSafe
  <2>2. ASSUME NEW g \in Handlers, request[g].row = r, BringsToken(request[g])
        PROVE  TokenSafe(r)'
    <3>1. CASE g = h
      BY <1>2, <2>2, <3>1 DEF HandlerPart, TokenSafe, BringsToken
    <3>2. CASE g # h
      BY <2>2, <3>2 DEF HandlerPart, Requests, TokenSafe, BringsToken
    <3> QED  BY <3>1, <3>2
  <2> QED  BY <1>2, <2>1, <2>2 DEF TokenSafe, BringsToken
<1> QED  BY <1>1, <1>2

LEMMA SensibleKept ==
    ASSUME SecretPart, NEW q, Sensible(q)
    PROVE  /\ q.pc # "idle" => q.row \in Rows
           /\ q.pc = "prefs" => q.creates
           /\ q.creates \/ q.pc \in {"token", "identity", "snapshot"} => q.owner \in Owners
           /\ q.pc \in {"identity", "snapshot"} => secret'[q.row].token # NULL
BY DEF SecretPart, Sensible

LEMMA UseKept ==
    ASSUME UseInv, SecretPart, AccountPart
    PROVE  UseInv'
<1> SUFFICES ASSUME NEW r \in Rows
             PROVE  /\ kept'[r] \cup builds'[r] # {} => secret'[r].token # NULL
                    /\ "scheduled" \in builds'[r] =>
                          account'[r].state = "present" /\ "snapshot" \in kept'[r]
  BY DEF UseInv, Present
<1>1. kept'[r] \cup builds'[r] # {} => secret'[r].token # NULL
  BY DEF UseInv, SecretPart, AccountPart
<1>2. "scheduled" \in builds'[r] => account'[r].state = "present" /\ "snapshot" \in kept'[r]
  BY DEF UseInv, AccountPart
<1> QED  BY <1>1, <1>2

LEMMA HandlerKeepsInv ==
    ASSUME AdminInv, NEW h \in Handlers, HandlerPart(h), SecretPart, AccountPart, OriginPart, Counters
    PROVE  AdminInv'
<1>1. AdminTypeOK'
  BY TypeParts DEF AdminInv, AdminTypeOK, HandlerPart, Requests, SecretPart, AccountPart, Counters
<1>2. RequestInv'
  <2>1. Sensible(refresh)'
    BY SensibleKept DEF AdminInv, RequestInv, HandlerPart, Requests, Sensible
  <2>2. ASSUME NEW g \in Handlers PROVE Sensible(request[g])'
    <3>1. CASE g = h
      BY <3>1 DEF HandlerPart
    <3>2. CASE g # h
      <4>1. request'[g] = request[g] /\ Sensible(request[g])
        BY <3>2 DEF HandlerPart, Requests, AdminInv, RequestInv
      <4> QED  BY <4>1, SensibleKept DEF Sensible
    <3> QED  BY <3>1, <3>2
  <2> QED  BY <2>1, <2>2 DEF RequestInv
<1>3. UseInv'
  BY UseKept DEF AdminInv
<1>4. TokenInv'
  <2> SUFFICES ASSUME NEW r \in Rows, account'[r].state = "present" PROVE TokenSafe(r)'
    BY DEF TokenInv, Present
  <2>1. CASE Present(r)
    BY <2>1, SafeKept DEF AdminInv, TokenInv
  <2>2. CASE \E g \in Handlers : request'[g].row = r /\ BringsToken(request'[g])
    BY <2>2 DEF TokenSafe, BringsToken
  <2> QED  BY <2>1, <2>2 DEF OriginPart, Origin
<1>5. PasswordInv'
  <2>1. ASSUME NEW r \in Rows, account'[r].login \/ account'[r].rotation PROVE PasswordSafe(r)'
    <3>1. CASE PasswordSafe(r)
      BY <3>1, SafeKept
    <3>2. CASE \E g \in Handlers : request'[g].row = r /\ request'[g].pc = "password"
      BY <3>2 DEF PasswordSafe
    <3> QED  BY <2>1, <3>1, <3>2 DEF OriginPart, Origin, AdminInv, PasswordInv
  <2>2. ASSUME NEW g \in Handlers, request'[g].pc \in {"saveLogin", "pending"}
        PROVE  PasswordSafe(request[g].row)'
    <3>1. PICK r \in Rows : r = request'[g].row
      BY <1>2, <2>2 DEF RequestInv, Sensible
    <3>2. CASE g = h
      <4>1. PasswordSafe(r) \/ secret'[r].password
        BY <2>2, <3>1, <3>2 DEF HandlerPart
      <4>2. PasswordSafe(r)'
        BY <4>1, SafeKept DEF PasswordSafe
      <4> QED  BY <3>1, <4>2
    <3>3. CASE g # h
      <4>1. request'[g] = request[g]
        BY <3>3 DEF HandlerPart, Requests
      <4>2. PasswordSafe(r)
        BY <2>2, <3>1, <4>1 DEF AdminInv, PasswordInv
      <4>3. PasswordSafe(r)'
        BY <4>2, SafeKept
      <4> QED  BY <3>1, <4>3
    <3> QED  BY <3>2, <3>3
  <2> QED  BY <2>1, <2>2 DEF PasswordInv
<1> QED  BY <1>1, <1>2, <1>3, <1>4, <1>5 DEF AdminInv

\* A step of no handler: the accounts and secrets stay as they are but for what is
\* only added, or an identity that is stored.
LEMMA OtherKeepsInv ==
    ASSUME AdminInv, UNCHANGED request, refresh' \in Request, Sensible(refresh)',
           SecretPart, AccountPart, OriginPart, Counters
    PROVE  AdminInv'
<1>1. AdminTypeOK'
  BY TypeParts DEF AdminInv, AdminTypeOK, SecretPart, AccountPart, Counters
<1>2. RequestInv'
  BY SensibleKept DEF AdminInv, RequestInv, Sensible
<1>3. UseInv'
  BY UseKept DEF AdminInv
<1>4. ASSUME NEW r \in Rows
      PROVE  /\ PasswordSafe(r) => PasswordSafe(r)'
             /\ TokenSafe(r) => TokenSafe(r)'
  BY <1>4 DEF PasswordSafe, TokenSafe, SecretPart
<1>5. TokenInv'
  <2> SUFFICES ASSUME NEW r \in Rows, account'[r].state = "present" PROVE TokenSafe(r)'
    BY DEF TokenInv, Present
  <2>1. CASE Present(r)
    BY <1>4, <2>1 DEF AdminInv, TokenInv
  <2>2. CASE \E g \in Handlers : request'[g].row = r /\ BringsToken(request'[g])
    BY <2>2 DEF TokenSafe, BringsToken
  <2> QED  BY <2>1, <2>2 DEF OriginPart, Origin
<1>6. PasswordInv'
  <2>1. ASSUME NEW r \in Rows, account'[r].login \/ account'[r].rotation PROVE PasswordSafe(r)'
    <3>1. CASE PasswordSafe(r)
      BY <1>4, <3>1
    <3>2. CASE \E g \in Handlers : request'[g].row = r /\ request'[g].pc = "password"
      BY <3>2 DEF PasswordSafe
    <3> QED  BY <2>1, <3>1, <3>2 DEF OriginPart, Origin, AdminInv, PasswordInv
  <2>2. ASSUME NEW g \in Handlers, request'[g].pc \in {"saveLogin", "pending"}
        PROVE  PasswordSafe(request[g].row)'
    <3>1. PICK r \in Rows : r = request[g].row
      BY <2>2 DEF AdminInv, RequestInv, Sensible
    <3>2. PasswordSafe(r)
      BY <2>2, <3>1 DEF AdminInv, PasswordInv
    <3>3. PasswordSafe(r)'
      BY <1>4, <3>2
    <3>4. r = request'[g].row
      BY <3>1
    <3> QED  BY <3>3, <3>4
  <2> QED  BY <2>1, <2>2 DEF PasswordInv
<1> QED  BY <1>1, <1>2, <1>3, <1>5, <1>6 DEF AdminInv

-----------------------------------------------------------------------------
(* The requests that begin. *)
Effect(h) == HandlerPart(h) /\ SecretPart /\ AccountPart /\ OriginPart /\ Counters

\* A request that has written nothing yet.
LEMMA BeginsQuietly ==
    ASSUME AdminInv, NEW h \in Handlers, NEW q \in Request, Begin(h, q),
           UNCHANGED <<tables, refresh, halfDone, faults>>, Sensible(q),
           q.pc \in {"saveLogin", "pending"} => PasswordSafe(q.row)
    PROVE  Effect(h)
<1>t. AdminTypeOK
  BY DEF AdminInv
<1>1. Requests(h) /\ request'[h] = q /\ request[h].pc = "idle"
  BY <1>t, BeginEffect
<1>2. SecretPart
  BY <1>t, SecretsKept DEF tables
<1>3. AccountPart /\ OriginPart
  BY <1>t, AccountsKept DEF tables
<1>4. Counters
  BY <1>t, CountersKept DEF Begin, Counters
<1>5. Sensible(request[h])'
  BY <1>1, <1>2, SensibleKept DEF Sensible
<1>6. HandlerPart(h)
  BY <1>1, <1>5 DEF HandlerPart, BringsToken
<1> QED  BY <1>2, <1>3, <1>4, <1>6 DEF Effect

\* The requests that are IdleRequest but for some fields.
LEMMA SimpleRequest ==
    ASSUME NEW pc \in Pcs, NEW r \in Rows, NEW o \in Owners \cup {NULL}, NEW q,
           q = [pc |-> pc, row |-> r, owner |-> o, login |-> FALSE, creates |-> FALSE]
    PROVE  q \in Request /\ q.pc = pc /\ q.row = r /\ q.owner = o /\ q.creates = FALSE
BY DEF Request

LEMMA TokenOwner ==
    ASSUME AdminTypeOK, NEW r \in Rows, HasRuntime(r)
    PROVE  secret[r].token \in Owners /\ Present(r)
BY TypeParts DEF HasRuntime, Secret

LEMMA NewRequestEffect ==
    ASSUME AdminInv, NEW h \in Handlers, NewRequest(h)
    PROVE  Effect(h)
<1>t. AdminTypeOK
  BY DEF AdminInv
<1>1. ASSUME NEW o \in Owners, NEW login \in BOOLEAN, CreateAccount(h, o, login) PROVE Effect(h)
  <2>1. PICK r \in Rows :
           /\ HeldBy(r, o) \/ account[r].state = "unused"
           /\ Begin(h, [pc |-> "prefs", row |-> r, owner |-> o, login |-> login, creates |-> TRUE])
           /\ account' = IF Present(r) THEN account
                         ELSE [account EXCEPT ![r] = [Empty("present") EXCEPT !.external = o]]
    BY <1>1 DEF CreateAccount
  <2>2. PICK q : q = [pc |-> "prefs", row |-> r, owner |-> o, login |-> login, creates |-> TRUE]
    OBVIOUS
  <2>3. /\ q \in Request /\ q.pc = "prefs" /\ q.row = r /\ q.owner = o /\ q.creates = TRUE
    BY <2>2 DEF Request, Pcs
  <2>4. Requests(h) /\ request'[h] = q /\ request[h].pc = "idle"
    BY <1>1, <1>t, <2>1, <2>2, <2>3, BeginEffect DEF CreateAccount
  <2>5. HandlerPart(h)
    BY <2>3, <2>4 DEF HandlerPart, BringsToken, Sensible
  <2>6. SecretPart
    BY <1>1, <1>t, SecretsKept DEF CreateAccount
  <2>7. Counters
    BY <1>1, <1>t, <2>1, CountersKept DEF CreateAccount, Begin, Counters
  <2>8. AccountPart /\ OriginPart
    <3>1. CASE Present(r)
      BY <1>1, <1>t, <2>1, <3>1, AccountsKept DEF CreateAccount
    <3>2. CASE ~Present(r)
      <4>1. PICK a : a = [Empty("present") EXCEPT !.external = o]
        OBVIOUS
      <4>2. a \in PresentAccount /\ a.login = FALSE /\ a.rotation = FALSE
        BY <4>1, CreatedRow
      <4>3. a \in Account /\ a.state = "present"
        BY <4>2, PresentIsAccount
      <4>4. account' = [account EXCEPT ![r] = a]
        BY <2>1, <3>2, <4>1
      <4>5. /\ account' \in [Rows -> Account] /\ account'[r] = a
            /\ \A x \in Rows \ {r} : account'[x] = account[x]
        BY <1>t, <4>3, <4>4, TypeParts
      <4>6. AccountPart
        BY <1>1, <1>t, <4>3, <4>5, TypeParts DEF CreateAccount, AccountPart, Present
      <4>7. Origin(r)
        BY <2>3, <2>4, <4>2, <4>5 DEF Origin, BringsToken
      <4>8. ASSUME NEW x \in Rows, x # r PROVE Origin(x)
        BY <4>5, <4>8 DEF Origin, Present
      <4> QED  BY <4>6, <4>7, <4>8 DEF OriginPart
    <3> QED  BY <3>1, <3>2
  <2> QED  BY <2>5, <2>6, <2>7, <2>8 DEF Effect
<1>2. ASSUME NEW r \in Rows, NEW o \in Owners \cup {NULL}, NEW login \in BOOLEAN,
             UpdateAccount(h, r, o, login)
      PROVE  Effect(h)
  <2>1. PICK q : q = [pc |-> "commit", row |-> r, owner |-> o, login |-> login, creates |-> FALSE]
    OBVIOUS
  <2>2. q \in Request /\ q.pc = "commit" /\ q.row = r /\ q.creates = FALSE
    BY <2>1 DEF Request, Pcs
  <2>3. Sensible(q)
    BY <2>2 DEF Sensible
  <2>4. Begin(h, q) /\ UNCHANGED <<tables, refresh, halfDone, faults>>
    BY <1>2, <2>1 DEF UpdateAccount
  <2> QED  BY <2>2, <2>3, <2>4, BeginsQuietly
<1>3. ASSUME NEW r \in Rows, NEW pc \in Pcs \ {"idle", "prefs", "token", "identity", "snapshot"},
             Begin(h, [IdleRequest EXCEPT !.pc = pc, !.row = r]),
             UNCHANGED <<tables, refresh, halfDone, faults>>,
             pc \in {"saveLogin", "pending"} => account[r].login
      PROVE  Effect(h)
  <2>1. PICK q : q = [IdleRequest EXCEPT !.pc = pc, !.row = r]
    OBVIOUS
  <2>2. q \in Request /\ q.pc = pc /\ q.row = r /\ q.creates = FALSE
    <3>1. q = [pc |-> pc, row |-> r, owner |-> NULL, login |-> FALSE, creates |-> FALSE]
      BY <2>1 DEF IdleRequest
    <3>2. pc \in Pcs /\ NULL \in Owners \cup {NULL}
      OBVIOUS
    <3> QED  BY <3>1, <3>2, SimpleRequest
  <2>3. Sensible(q)
    BY <1>3, <2>2 DEF Sensible
  <2>4. q.pc \in {"saveLogin", "pending"} => PasswordSafe(q.row)
    BY <1>3, <2>2 DEF AdminInv, PasswordInv
  <2>5. Begin(h, q)
    BY <1>3, <2>1
  <2> QED  BY <1>3, <2>2, <2>3, <2>4, <2>5, BeginsQuietly
<1>4. ASSUME NEW r \in Rows, NEW password \in BOOLEAN, UpdateLoginCredentials(h, r, password)
      PROVE  Effect(h)
  <2>1. CASE password
    BY <1>3, <1>4, <2>1 DEF UpdateLoginCredentials, Pcs
  <2>2. CASE ~password
    BY <1>3, <1>4, <2>2 DEF UpdateLoginCredentials, Pcs
  <2> QED  BY <2>1, <2>2
<1>5. ASSUME NEW r \in Rows, RequestPasswordRotation(h, r) PROVE Effect(h)
  BY <1>3, <1>5 DEF RequestPasswordRotation, Pcs
<1>6. ASSUME NEW r \in Rows, DeleteAccount(h, r) PROVE Effect(h)
  BY <1>3, <1>6 DEF DeleteAccount, Pcs
<1>7. ASSUME NEW r \in Rows, NEW pc \in {"identity", "snapshot"}, ReadIdentity(h, r, pc)
      PROVE  Effect(h)
  <2>1. PICK o \in Owners : o = secret[r].token
    BY <1>7, <1>t, TokenOwner DEF ReadIdentity
  <2>2. PICK q : q = [IdleRequest EXCEPT !.pc = pc, !.row = r, !.owner = o]
    OBVIOUS
  <2>3. q \in Request /\ q.pc = pc /\ q.row = r /\ q.owner = o /\ q.creates = FALSE
    <3>1. q = [pc |-> pc, row |-> r, owner |-> o, login |-> FALSE, creates |-> FALSE]
      BY <2>2 DEF IdleRequest
    <3>2. pc \in Pcs
      BY DEF Pcs
    <3> QED  BY <3>1, <3>2, SimpleRequest
  <2>4. Sensible(q)
    BY <1>7, <2>3 DEF Sensible, ReadIdentity, HasRuntime
  <2>5. Begin(h, q) /\ UNCHANGED <<tables, refresh, halfDone, faults>>
    BY <1>7, <2>1, <2>2 DEF ReadIdentity
  <2> QED  BY <2>3, <2>4, <2>5, BeginsQuietly
<1> QED  BY <1>1, <1>2, <1>4, <1>5, <1>6, <1>7
         DEF NewRequest, PreviewedTokens, ReplacementTokens

-----------------------------------------------------------------------------
(* The requests under way. *)
\* A request that ends, its debts paid or recorded.
LEMMA EndsPart ==
    ASSUME AdminTypeOK, NEW h \in Handlers, Ends(h), UNCHANGED refresh,
           BringsToken(request[h]) =>
               \/ secret'[request[h].row].token # NULL \/ request[h].row \in halfDone'
               \/ account'[request[h].row].state # "present",
           request[h].pc = "password" =>
               secret'[request[h].row].password \/ request[h].row \in halfDone'
    PROVE  HandlerPart(h)
BY EndsEffect DEF HandlerPart

\* A request of createAccount or updateAccount goes on to its next statement.
LEMMA GotoPart ==
    ASSUME AdminInv, NEW h \in Handlers,
           NEW pc \in Pcs \ {"prefs", "saveLogin", "pending", "identity", "snapshot", "idle"},
           Goto(h, pc), UNCHANGED refresh,
           request[h].pc # "idle",
           pc = "token" => request[h].owner \in Owners,
           BringsToken(request[h]) =>
               pc \in {"login", "password", "token"} \/ secret'[request[h].row].token # NULL,
           request[h].pc = "password" => secret'[request[h].row].password
    PROVE  /\ HandlerPart(h) /\ request'[h].pc = pc /\ request'[h].row = request[h].row
<1>1. /\ Requests(h) /\ request'[h].pc = pc /\ request'[h].row = request[h].row
      /\ request'[h].owner = request[h].owner /\ request'[h].creates = request[h].creates
  <2>1. AdminTypeOK /\ pc \in Pcs
    BY DEF AdminInv
  <2> QED  BY <2>1, GotoEffect
<1>2. Sensible(request[h])
  BY DEF AdminInv, RequestInv
<1>3. Sensible(request[h])'
  BY <1>1, <1>2 DEF Sensible
<1>4. BringsToken(request[h]) => \/ BringsToken(request'[h])
                                \/ secret'[request[h].row].token # NULL
  BY <1>1 DEF BringsToken
<1> QED  BY <1>1, <1>3, <1>4 DEF HandlerPart

\* The clean-up of createAccount: the account is gone, or what keeps it came into
\* being with a token.
LEMMA CleanUpEffect ==
    ASSUME AdminInv, NEW h \in Handlers, CleanUp(h), request[h].pc \notin {"idle", "password"},
           UNCHANGED <<secret, kept, refresh, halfDone, requests>>
    PROVE  Effect(h)
<1>t. AdminTypeOK
  BY DEF AdminInv
<1>1. PICK r \in Rows : r = request[h].row
  BY DEF AdminInv, RequestInv, Sensible
<1>2. AccountPart /\ OriginPart /\ (account'[r].state # "present" \/ kept[r] # {})
  BY <1>t, <1>1, DeleteEffect DEF CleanUp
<1>3. kept[r] # {} => secret'[r].token # NULL
  BY DEF AdminInv, UseInv
<1>4. HandlerPart(h)
  BY <1>t, <1>1, <1>2, <1>3, EndsPart DEF CleanUp
<1>5. SecretPart
  BY <1>t, SecretsKept
<1>6. Counters
  BY <1>t, CountersKept DEF CleanUp, Counters
<1> QED  BY <1>2, <1>4, <1>5, <1>6 DEF Effect

\* external_id, and the snapshot that was taken with it.
LEMMA StoreIdentityEffect ==
    ASSUME AdminTypeOK, NEW r \in Rows, NEW o \in Owners, StoreIdentity(r, o), UNCHANGED builds,
           \/ UNCHANGED kept
           \/ Present(r) /\ secret[r].token # NULL /\ kept' = [kept EXCEPT ![r] = @ \cup {"snapshot"}]
    PROVE  AccountPart /\ OriginPart
<1>1. /\ account' \in [Rows -> Account]
      /\ \A x \in Rows : /\ account'[x].state = account[x].state
                         /\ account'[x].login = account[x].login
                         /\ account'[x].rotation = account[x].rotation
  <2>1. CASE account' = account
    BY <2>1, TypeParts
  <2>2. CASE Present(r) /\ account' = [account EXCEPT ![r].external = o]
    <3>1. account[r] \in PresentAccount
      BY <2>2, PresentRow
    <3>2. account'[r] = [account[r] EXCEPT !.external = o]
      BY <2>2, TypeParts
    <3>3. /\ account'[r] \in PresentAccount /\ account'[r].state = account[r].state
          /\ account'[r].login = account[r].login /\ account'[r].rotation = account[r].rotation
      BY <3>1, <3>2 DEF PresentAccount
    <3>4. account'[r] \in Account
      BY <3>3, PresentIsAccount
    <3>5. /\ account' = [x \in Rows |-> account'[x]]
          /\ \A x \in Rows \ {r} : account'[x] = account[x]
      BY <2>2, TypeParts
    <3> QED  BY <3>3, <3>4, <3>5, TypeParts
  <2> QED  BY <2>1, <2>2 DEF StoreIdentity
<1>2. OriginPart
  BY <1>1 DEF OriginPart, Origin, Present
<1>3. /\ kept' \in [Rows -> SUBSET {"snapshot", "droplet"}]
      /\ \A x \in Rows : kept[x] \subseteq kept'[x]
      /\ \A x \in Rows : kept'[x] = kept[x] \/ secret[x].token # NULL
  BY TypeParts
<1>4. AccountPart
  BY <1>1, <1>3, TypeParts DEF AccountPart, Present
<1> QED  BY <1>2, <1>4

LEMMA HandlerStepEffect ==
    ASSUME AdminInv, NEW h \in Handlers, HandlerStep(h) \/ Abort(h)
    PROVE  Effect(h)
<1>t. AdminTypeOK /\ Sensible(request[h]) /\ request[h] \in Request
  BY TypeParts DEF AdminInv, RequestInv
<1>i. request[h].pc # "idle"
  BY DEF HandlerStep, Abort, StorePreferences, StoreProfile, SyncAutomation, CommitUpdate,
         StoreLogin, PutPassword, PutToken, KeepPassword, SaveLogin, StorePending, DeleteRow,
         WriteIdentity
<1>r. PICK r \in Rows : r = request[h].row
  BY <1>t, <1>i DEF Sensible
<1>n. NULL \notin Owners
  BY AdminConstants
<1>f. request[h].owner \in Owners \cup {NULL} /\ request[h].creates \in BOOLEAN
  BY <1>t, RequestFields
<1>p. Present(r) => account[r] \in PresentAccount
  BY <1>t, PresentRow
\* The statements that leave the secrets alone.
<1>q. ASSUME UNCHANGED secret, UNCHANGED halfDone \/ StopsHalfWay(r) PROVE SecretPart
  BY <1>t, <1>q, SecretsKept
<1>c. ASSUME UNCHANGED requests, UNCHANGED faults \/ Fault PROVE Counters
  BY <1>t, <1>c, CountersKept DEF Counters
<1>e. ASSUME UNCHANGED <<account, kept, builds>> PROVE AccountPart /\ OriginPart
  BY <1>t, <1>e, AccountsKept
\* A request without debts ends, or one that is recorded as half-done.
<1>d. ASSUME Ends(h), UNCHANGED refresh,
             StopsHalfWay(r) \/ request[h].pc \notin {"prefs", "login", "password", "token"}
      PROVE  HandlerPart(h)
  BY <1>t, <1>r, <1>d, EndsPart DEF BringsToken, StopsHalfWay
<1>1. CASE StorePreferences(h)
  <2>1. CASE CleanUp(h)
    BY <1>1, <2>1, CleanUpEffect DEF StorePreferences
  <2>2. CASE Goto(h, AfterRow(request[h])) /\ UNCHANGED <<account, builds, faults>>
    <3>1. request[h].owner \in Owners
      BY <1>1, <1>t DEF StorePreferences, Sensible
    <3>2. PICK pc \in {"login", "token"} : pc = AfterRow(request[h])
      BY <1>n, <3>1 DEF AfterRow
    <3>3. pc \in Pcs \ {"prefs", "saveLogin", "pending", "identity", "snapshot", "idle"}
      BY DEF Pcs
    <3>4. HandlerPart(h)
      BY <1>1, <1>i, <2>2, <3>1, <3>2, <3>3, GotoPart DEF StorePreferences
    <3>5. SecretPart /\ Counters /\ AccountPart /\ OriginPart
      BY <1>1, <1>q, <1>c, <1>e, <2>2 DEF StorePreferences
    <3> QED  BY <3>4, <3>5 DEF Effect
  <2> QED  BY <1>1, <2>1, <2>2 DEF StorePreferences
<1>2. CASE StoreProfile(h)
  <2>1. CASE CleanUp(h)
    BY <1>2, <2>1, CleanUpEffect DEF StoreProfile
  <2>2. CASE Ends(h) /\ UNCHANGED <<account, builds, faults>>
    BY <1>2, <1>q, <1>c, <1>e, <1>d, <2>2 DEF StoreProfile, Effect
  <2>3. CASE /\ Present(r) /\ Update(r, [account[r] EXCEPT !.profile = TRUE])
             /\ Goto(h, "sync") /\ UNCHANGED <<builds, faults>>
    <3>1. PICK a : a = [account[r] EXCEPT !.profile = TRUE]
      OBVIOUS
    <3>2. /\ a \in PresentAccount /\ a.login = account[r].login
          /\ a.rotation = account[r].rotation
      BY <1>p, <2>3, <3>1 DEF PresentAccount
    <3>3. AccountPart /\ OriginPart
      BY <1>2, <1>t, <2>3, <3>1, <3>2, UpdateEffect DEF StoreProfile
    <3>4. "sync" \in Pcs \ {"prefs", "saveLogin", "pending", "identity", "snapshot", "idle"}
      BY DEF Pcs
    <3>5. ~BringsToken(request[h]) /\ request[h].pc = "network"
      BY <1>2 DEF BringsToken, StoreProfile
    <3>6. HandlerPart(h)
      BY <1>2, <2>3, <3>4, <3>5, GotoPart DEF StoreProfile
    <3> QED  BY <1>2, <1>q, <1>c, <2>3, <3>3, <3>6 DEF StoreProfile, Effect
  <2> QED  BY <1>2, <1>r, <2>1, <2>2, <2>3 DEF StoreProfile
<1>3. CASE SyncAutomation(h)
  <2>1. AccountPart /\ OriginPart
    <3>1. CASE UNCHANGED account
      BY <1>3, <1>e, <3>1 DEF SyncAutomation
    <3>2. CASE Update(r, [account[r] EXCEPT !.schedule = TRUE])
      <4>1. PICK a : a = [account[r] EXCEPT !.schedule = TRUE]
        OBVIOUS
      <4>2. Present(r) => /\ a \in PresentAccount /\ a.login = account[r].login
                          /\ a.rotation = account[r].rotation
        BY <1>p, <4>1 DEF PresentAccount
      <4> QED  BY <1>3, <1>t, <3>2, <4>1, <4>2, UpdateEffect DEF SyncAutomation
    <3> QED  BY <1>3, <1>r, <3>1, <3>2 DEF SyncAutomation
  <2> QED  BY <1>3, <1>q, <1>c, <1>d, <2>1 DEF SyncAutomation, NoFault, Effect
<1>4. CASE CommitUpdate(h)
  <2>1. CASE Ends(h) /\ UNCHANGED account
    BY <1>4, <1>q, <1>c, <1>e, <1>d, <2>1 DEF CommitUpdate, bounds, Effect
  <2>2. CASE /\ Present(r)
             /\ Update(r, [account[r] EXCEPT !.profile = TRUE, !.schedule = TRUE,
                              !.external = IF request[h].owner = NULL THEN @ ELSE request[h].owner])
             /\ Continue(h, AfterRow(request[h]))
    <3>1. PICK o \in Owners : o = IF request[h].owner = NULL THEN account[r].external
                                  ELSE request[h].owner
      BY <1>f, <1>p, <2>2 DEF PresentAccount
    <3>2. PICK a : a = [account[r] EXCEPT !.profile = TRUE, !.schedule = TRUE, !.external = o]
      OBVIOUS
    <3>3. /\ a \in PresentAccount /\ a.login = account[r].login
          /\ a.rotation = account[r].rotation
      BY <1>p, <2>2, <3>2, CommittedRow
    <3>4. Update(r, a)
      BY <2>2, <3>1, <3>2
    <3>5. AccountPart /\ OriginPart
      BY <1>4, <1>t, <3>3, <3>4, UpdateEffect DEF CommitUpdate
    <3>6. HandlerPart(h)
      <4>0. ~BringsToken(request[h]) /\ request[h].pc = "commit"
        BY <1>4 DEF BringsToken, CommitUpdate
      <4>1. CASE AfterRow(request[h]) = "idle"
        BY <1>4, <1>d, <2>2, <4>1 DEF CommitUpdate, Continue
      <4>2. CASE AfterRow(request[h]) # "idle"
        <5>1. PICK pc \in {"login", "token"} : pc = AfterRow(request[h])
          BY <4>2 DEF AfterRow
        <5>2. pc \in Pcs \ {"prefs", "saveLogin", "pending", "identity", "snapshot", "idle"}
          BY DEF Pcs
        <5>3. pc = "token" => request[h].owner \in Owners
          BY <1>f, <5>1 DEF AfterRow
        <5>4. Goto(h, pc)
          BY <2>2, <4>2, <5>1 DEF Continue
        <5> QED  BY <1>4, <4>0, <5>2, <5>3, <5>4, GotoPart DEF CommitUpdate
      <4> QED  BY <4>1, <4>2
    <3> QED  BY <1>4, <1>q, <1>c, <3>5, <3>6 DEF CommitUpdate, bounds, Effect
  <2> QED  BY <1>4, <1>r, <2>1, <2>2 DEF CommitUpdate
<1>5. CASE StoreLogin(h)
  <2>1. CASE UNCHANGED account /\ Ends(h) /\ StopsHalfWay(r) /\ Fault
    BY <1>5, <1>q, <1>c, <1>e, <1>d, <2>1 DEF StoreLogin, Effect
  <2>2. CASE /\ Update(r, [account[r] EXCEPT !.login = TRUE, !.rotation = TRUE])
             /\ Goto(h, "password") /\ UNCHANGED <<halfDone, faults>>
    <3>1. "password" \in Pcs \ {"prefs", "saveLogin", "pending", "identity", "snapshot", "idle"}
      BY DEF Pcs
    <3>2. HandlerPart(h) /\ request'[h].pc = "password" /\ request'[h].row = r
      BY <1>5, <1>r, <2>2, <3>1, GotoPart DEF StoreLogin
    <3>3. PICK a : a = [account[r] EXCEPT !.login = TRUE, !.rotation = TRUE]
      OBVIOUS
    <3>4. Present(r) => a \in PresentAccount
      BY <1>p, <3>3, LoginRow
    <3>5. AccountPart /\ OriginPart
      BY <1>5, <1>t, <2>2, <3>2, <3>3, <3>4, UpdateEffect DEF StoreLogin
    <3> QED  BY <1>5, <1>q, <1>c, <2>2, <3>2, <3>5 DEF StoreLogin, Effect
  <2> QED  BY <1>5, <1>r, <2>1, <2>2 DEF StoreLogin
<1>s. ASSUME secret' = [secret EXCEPT ![r].password = TRUE], UNCHANGED halfDone
      PROVE  SecretPart /\ secret'[r].password
  <2>1. secret'[r] = [secret[r] EXCEPT !.password = TRUE]
    BY <1>t, <1>s, TypeParts
  <2>2. /\ secret'[r] \in Secret /\ secret'[r].password = TRUE
        /\ secret'[r].token = secret[r].token
    BY <1>t, <2>1, TypeParts DEF Secret
  <2>3. secret' = [x \in Rows |-> secret'[x]] /\ \A x \in Rows \ {r} : secret'[x] = secret[x]
    BY <1>t, <1>s, TypeParts
  <2> QED  BY <1>t, <1>s, <2>2, <2>3, TypeParts DEF SecretPart
<1>6. CASE PutPassword(h)
  <2>1. CASE UNCHANGED secret /\ Ends(h) /\ StopsHalfWay(r) /\ Fault
    BY <1>6, <1>q, <1>c, <1>e, <1>d, <2>1 DEF PutPassword, Effect
  <2>2. CASE /\ secret' = [secret EXCEPT ![r].password = TRUE]
             /\ Continue(h, IF request[h].owner # NULL THEN "token" ELSE "idle")
             /\ UNCHANGED <<halfDone, faults>>
    <3>1. SecretPart /\ secret'[r].password
      BY <1>s, <2>2
    <3>2. HandlerPart(h)
      <4>1. CASE request[h].owner = NULL
        <5>1. Ends(h) /\ ~BringsToken(request[h])
          BY <1>n, <1>t, <2>2, <4>1 DEF Continue, BringsToken, Sensible
        <5> QED  BY <1>6, <1>r, <1>t, <3>1, <5>1, EndsPart DEF PutPassword
      <4>2. CASE request[h].owner # NULL
        <5>1. Goto(h, "token") /\ request[h].owner \in Owners
          BY <1>f, <2>2, <4>2 DEF Continue
        <5>2. "token" \in Pcs \ {"prefs", "saveLogin", "pending", "identity", "snapshot", "idle"}
          BY DEF Pcs
        <5> QED  BY <1>6, <1>i, <1>r, <3>1, <5>1, <5>2, GotoPart DEF PutPassword
      <4> QED  BY <4>1, <4>2
    <3> QED  BY <1>6, <1>c, <1>e, <2>2, <3>1, <3>2 DEF PutPassword, Effect
  <2> QED  BY <1>6, <1>r, <2>1, <2>2 DEF PutPassword
<1>7. CASE PutToken(h)
  <2>1. CASE CleanUp(h) /\ UNCHANGED <<secret, halfDone>>
    BY <1>7, <2>1, CleanUpEffect DEF PutToken
  <2>2. CASE /\ ~request[h].creates /\ Ends(h) /\ StopsHalfWay(r) /\ Fault
             /\ UNCHANGED <<account, builds, secret>>
    BY <1>7, <1>q, <1>c, <1>e, <1>d, <2>2 DEF PutToken, Effect
  <2>3. CASE /\ secret' = [secret EXCEPT ![r].token = request[h].owner]
             /\ IF request[h].creates THEN Goto(h, "network") ELSE Ends(h)
             /\ UNCHANGED <<account, builds, halfDone, faults>>
    <3>1. request[h].owner \in Owners
      BY <1>7, <1>t DEF PutToken, Sensible
    <3>2. SecretPart /\ secret'[r].token # NULL
      <4>1. secret'[r] = [secret[r] EXCEPT !.token = request[h].owner]
        BY <1>t, <2>3, TypeParts
      <4>2. /\ secret'[r] \in Secret /\ secret'[r].token = request[h].owner
            /\ secret'[r].password = secret[r].password
        BY <1>t, <3>1, <4>1, TypeParts DEF Secret
      <4>3. secret' = [x \in Rows |-> secret'[x]] /\ \A x \in Rows \ {r} : secret'[x] = secret[x]
        BY <1>t, <2>3, TypeParts
      <4> QED  BY <1>n, <1>t, <2>3, <3>1, <4>2, <4>3, TypeParts DEF SecretPart
    <3>3. HandlerPart(h)
      <4>1. CASE request[h].creates
        <5>1. "network" \in Pcs \ {"prefs", "saveLogin", "pending", "identity", "snapshot", "idle"}
          BY DEF Pcs
        <5> QED  BY <1>7, <1>r, <2>3, <3>2, <4>1, <5>1, GotoPart DEF PutToken
      <4>2. CASE ~request[h].creates
        BY <1>7, <1>r, <1>t, <2>3, <3>2, <4>2, EndsPart DEF PutToken
      <4> QED  BY <4>1, <4>2
    <3> QED  BY <1>7, <1>c, <1>e, <2>3, <3>2, <3>3 DEF PutToken, Effect
  <2> QED  BY <1>7, <1>r, <2>1, <2>2, <2>3 DEF PutToken
<1>8. CASE KeepPassword(h)
  <2>1. CASE UNCHANGED secret /\ Ends(h) /\ Fault
    BY <1>8, <1>q, <1>c, <1>e, <1>d, <2>1 DEF KeepPassword, Effect
  <2>2. CASE secret' = [secret EXCEPT ![r].password = TRUE] /\ Goto(h, "saveLogin") /\ NoFault
    <3>1. SecretPart /\ secret'[r].password
      BY <1>8, <1>s, <2>2 DEF KeepPassword
    <3>2. /\ Requests(h) /\ request'[h].pc = "saveLogin" /\ request'[h].row = r
          /\ request'[h].owner = request[h].owner /\ request'[h].creates = request[h].creates
      <4>1. "saveLogin" \in Pcs
        BY DEF Pcs
      <4> QED  BY <1>8, <1>r, <1>t, <2>2, <4>1, GotoEffect DEF KeepPassword
    <3>3. Sensible(request[h])'
      BY <1>t, <3>2 DEF Sensible
    <3>4. HandlerPart(h)
      BY <1>8, <3>1, <3>2, <3>3 DEF HandlerPart, KeepPassword, BringsToken
    <3> QED  BY <1>8, <1>c, <1>e, <2>2, <3>1, <3>4 DEF KeepPassword, NoFault, Effect
  <2> QED  BY <1>8, <1>r, <2>1, <2>2 DEF KeepPassword
\* The two statements that rely on a password seen earlier.
<1>w. ASSUME request[h].pc \in {"saveLogin", "pending"}, NEW a, Update(r, a),
             Present(r) => a \in PresentAccount, UNCHANGED <<kept, builds>>
      PROVE  AccountPart /\ OriginPart
  <2>1. PasswordSafe(r)
    BY <1>r, <1>w DEF AdminInv, PasswordInv
  <2> QED  BY <1>t, <1>w, <2>1, UpdateEffect
<1>9. CASE SaveLogin(h)
  <2>1. AccountPart /\ OriginPart
    <3>1. CASE UNCHANGED account
      BY <1>9, <1>e, <3>1 DEF SaveLogin
    <3>2. CASE Update(r, [account[r] EXCEPT !.login = TRUE, !.rotation = TRUE])
      <4>1. PICK a : a = [account[r] EXCEPT !.login = TRUE, !.rotation = TRUE]
        OBVIOUS
      <4>2. Present(r) => a \in PresentAccount
        BY <1>p, <4>1, LoginRow
      <4> QED  BY <1>9, <1>w, <3>2, <4>1, <4>2 DEF SaveLogin
    <3> QED  BY <1>9, <1>r, <3>1, <3>2 DEF SaveLogin
  <2> QED  BY <1>9, <1>q, <1>c, <1>d, <2>1 DEF SaveLogin, NoFault, Effect
<1>10. CASE StorePending(h)
  <2>1. AccountPart /\ OriginPart
    <3>1. CASE UNCHANGED account
      BY <1>10, <1>e, <3>1 DEF StorePending
    <3>2. CASE Update(r, [account[r] EXCEPT !.rotation = TRUE])
      <4>1. PICK a : a = [account[r] EXCEPT !.rotation = TRUE]
        OBVIOUS
      <4>2. Present(r) => a \in PresentAccount
        BY <1>p, <4>1 DEF PresentAccount
      <4> QED  BY <1>10, <1>w, <3>2, <4>1, <4>2 DEF StorePending
    <3> QED  BY <1>10, <1>r, <3>1, <3>2 DEF StorePending
  <2> QED  BY <1>10, <1>q, <1>c, <1>d, <2>1 DEF StorePending, NoFault, Effect
<1>11. CASE DeleteRow(h)
  <2>1. AccountPart /\ OriginPart
    BY <1>11, <1>r, <1>t, DeleteEffect DEF DeleteRow
  <2> QED  BY <1>11, <1>q, <1>c, <1>d, <2>1 DEF DeleteRow, bounds, Effect
<1>12. CASE WriteIdentity(h)
  <2>1. request[h].owner \in Owners /\ secret[r].token # NULL
    BY <1>12, <1>r, <1>t DEF WriteIdentity, Sensible
  <2>2. AccountPart /\ OriginPart
    BY <1>12, <1>r, <1>t, <2>1, StoreIdentityEffect DEF WriteIdentity
  <2> QED  BY <1>12, <1>q, <1>c, <1>d, <2>2 DEF WriteIdentity, bounds, Effect
<1>13. CASE Abort(h)
  <2>1. AccountPart /\ OriginPart /\ SecretPart
    BY <1>13, <1>r, <1>q, <1>e DEF Abort, tables
  <2> QED  BY <1>13, <1>r, <1>c, <1>d, <2>1 DEF Abort, Effect
<1> QED  BY <1>1, <1>2, <1>3, <1>4, <1>5, <1>6, <1>7, <1>8, <1>9, <1>10, <1>11, <1>12, <1>13
         DEF HandlerStep

-----------------------------------------------------------------------------
(* The refresh loop, the scheduler and the deployments. *)
OtherEffect ==
    /\ UNCHANGED request /\ refresh' \in Request /\ Sensible(refresh)'
    /\ SecretPart /\ AccountPart /\ OriginPart /\ Counters
OtherStep ==
    \/ \E r \in Rows : \/ RefreshReads(r) \/ StartScheduled(r)
                       \/ StartManual(r) \/ EndBuild(r)
    \/ RefreshStores

LEMMA OtherStepEffect ==
    ASSUME AdminInv, OtherStep
    PROVE  OtherEffect
<1>t. AdminTypeOK /\ refresh \in Request /\ Sensible(refresh)
  BY TypeParts DEF AdminInv, RequestInv
<1>q. ASSUME UNCHANGED <<secret, halfDone>> PROVE SecretPart
  BY <1>t, <1>q, SecretsKept
<1>c. ASSUME UNCHANGED <<requests, faults>> PROVE Counters
  BY <1>t, <1>c, CountersKept DEF Counters
<1>s. ASSUME UNCHANGED <<refresh, secret>> PROVE refresh' \in Request /\ Sensible(refresh)'
  BY <1>t, <1>s DEF Sensible
<1>o. ASSUME UNCHANGED account PROVE OriginPart
  BY <1>o DEF OriginPart, Origin, Present
<1>1. ASSUME NEW r \in Rows, RefreshReads(r) PROVE OtherEffect
  <2>1. PICK o \in Owners : o = secret[r].token
    BY <1>1, <1>t, TokenOwner DEF RefreshReads
  <2>2. refresh' = [pc |-> "snapshot", row |-> r, owner |-> o, login |-> FALSE, creates |-> FALSE]
    BY <1>1, <2>1 DEF RefreshReads, IdleRequest
  <2>3. "snapshot" \in Pcs /\ o \in Owners \cup {NULL}
    BY DEF Pcs
  <2>4. /\ refresh' \in Request /\ refresh'.pc = "snapshot" /\ refresh'.row = r
        /\ refresh'.owner = o /\ refresh'.creates = FALSE
    BY <2>2, <2>3, SimpleRequest
  <2>5. Sensible(refresh)'
    BY <1>1, <2>4 DEF Sensible, RefreshReads, HasRuntime, tables
  <2>6. AccountPart /\ OriginPart
    BY <1>1, <1>t, AccountsKept DEF RefreshReads, tables
  <2> QED  BY <1>1, <1>q, <1>c, <2>4, <2>5, <2>6 DEF RefreshReads, tables, bounds, OtherEffect
<1>2. ASSUME NEW r \in Rows, NEW who \in {"scheduled", "manual"}, HasRuntime(r),
             who = "scheduled" => "snapshot" \in kept[r],
             builds' = [builds EXCEPT ![r] = {who}],
             UNCHANGED <<account, secret, kept, request, refresh, halfDone, bounds>>
      PROVE  OtherEffect
  <2>1. /\ builds' \in [Rows -> SUBSET {"scheduled", "manual"}] /\ builds'[r] = {who}
        /\ \A x \in Rows \ {r} : builds'[x] = builds[x]
    BY <1>2, <1>t, TypeParts
  <2>2. Present(r) /\ secret[r].token # NULL
    BY <1>2 DEF HasRuntime
  <2>3. AccountPart
    BY <1>2, <1>t, <2>1, <2>2, TypeParts DEF AccountPart, Present
  <2> QED  BY <1>2, <1>q, <1>c, <1>s, <1>o, <2>3 DEF bounds, OtherEffect
<1>3. ASSUME NEW r \in Rows, StartScheduled(r) PROVE OtherEffect
  BY <1>2, <1>3 DEF StartScheduled
<1>4. ASSUME NEW r \in Rows, StartManual(r) PROVE OtherEffect
  BY <1>2, <1>4 DEF StartManual
<1>5. ASSUME NEW r \in Rows, EndBuild(r) PROVE OtherEffect
  <2>1. /\ builds' \in [Rows -> SUBSET {"scheduled", "manual"}]
        /\ \A x \in Rows : builds'[x] \subseteq builds[x]
    BY <1>5, <1>t, TypeParts DEF EndBuild
  <2>2. /\ kept' \in [Rows -> SUBSET {"snapshot", "droplet"}]
        /\ \A x \in Rows : kept[x] \subseteq kept'[x]
        /\ \A x \in Rows \ {r} : kept'[x] = kept[x]
    BY <1>5, <1>t, TypeParts DEF EndBuild
  <2>3. builds[r] # {}
    BY <1>5 DEF EndBuild
  <2>4. ASSUME NEW x \in Rows
        PROVE  /\ kept'[x] \cup builds'[x] # {} => kept[x] \cup builds[x] # {}
               /\ "scheduled" \in builds'[x] => "scheduled" \in builds[x]
    BY <2>1, <2>2, <2>3
  <2>5. AccountPart
    BY <1>5, <1>t, <2>1, <2>2, <2>4, TypeParts DEF AccountPart, EndBuild, Present
  <2> QED  BY <1>5, <1>q, <1>c, <1>s, <1>o, <2>5 DEF EndBuild, bounds, OtherEffect
<1>6. CASE RefreshStores
  <2>1. PICK r \in Rows : r = refresh.row
    BY <1>6, <1>t DEF RefreshStores, Sensible
  <2>2. refresh.owner \in Owners /\ secret[r].token # NULL
    BY <1>6, <1>t, <2>1 DEF RefreshStores, Sensible
  <2>3. AccountPart /\ OriginPart
    BY <1>6, <1>t, <2>1, <2>2, StoreIdentityEffect DEF RefreshStores
  <2>4. refresh' \in Request /\ Sensible(refresh)'
    BY <1>6, IdleFields DEF RefreshStores, Sensible
  <2> QED  BY <1>6, <1>q, <1>c, <2>3, <2>4 DEF RefreshStores, bounds, OtherEffect
<1> QED  BY <1>1, <1>3, <1>4, <1>5, <1>6 DEF OtherStep

-----------------------------------------------------------------------------
LEMMA AdminInvInit == AdminInit => AdminInv
<1> SUFFICES ASSUME AdminInit PROVE AdminInv
  OBVIOUS
<1>1. ASSUME NEW r \in Rows
      PROVE  /\ account[r] \in Account /\ account[r].login = FALSE /\ account[r].rotation = FALSE
             /\ account[r].state = "present" => Initial[r] # NULL
  <2>1. CASE Initial[r] = NULL
    <3>1. account[r] = Empty("unused")
      BY <2>1 DEF AdminInit
    <3> QED  BY <3>1, UnusedIsAccount
  <2>2. CASE Initial[r] # NULL
    <3>1. PICK o \in Owners : o = Initial[r]
      BY <2>2, AdminConstants
    <3>2. PICK a : a = [Empty("present") EXCEPT !.external = o, !.profile = TRUE, !.schedule = TRUE]
      OBVIOUS
    <3>3. a = [state |-> "present", external |-> o, profile |-> TRUE, schedule |-> TRUE,
               login |-> FALSE, rotation |-> FALSE]
      BY <3>2 DEF Empty
    <3>4. ASSUME NEW x, x = [state |-> "present", external |-> o, profile |-> TRUE,
                             schedule |-> TRUE, login |-> FALSE, rotation |-> FALSE]
          PROVE  x \in PresentAccount /\ x.login = FALSE /\ x.rotation = FALSE
      BY <3>4 DEF PresentAccount
    <3>5. a \in PresentAccount /\ a.login = FALSE /\ a.rotation = FALSE
      BY <3>3, <3>4, Zenon
    <3>6. account[r] = a
      BY <2>2, <3>1, <3>2 DEF AdminInit
    <3> QED  BY <2>2, <3>5, <3>6, PresentIsAccount
  <2> QED  BY <2>1, <2>2
<1>2. account \in [Rows -> Account]
  BY <1>1 DEF AdminInit
<1>3. /\ secret \in [Rows -> Secret]
      /\ \A r \in Rows : secret[r].token = Initial[r]
  BY AdminConstants DEF AdminInit, Secret
<1>4. /\ kept \in [Rows -> SUBSET {"snapshot", "droplet"}] /\ halfDone \in SUBSET Rows
      /\ builds \in [Rows -> SUBSET {"scheduled", "manual"}]
      /\ \A r \in Rows : kept[r] = {} /\ builds[r] = {}
      /\ requests \in 0..MaxRequests /\ faults \in 0..MaxFaults
  <2>1. requests \in 0..MaxRequests /\ faults \in 0..MaxFaults
    <3>1. requests = 0 /\ faults = 0 /\ MaxRequests \in Nat /\ MaxFaults \in Nat
      BY AdminConstants DEF AdminInit
    <3> QED  BY <3>1
  <2>2. /\ kept \in [Rows -> SUBSET {"snapshot", "droplet"}] /\ halfDone \in SUBSET Rows
        /\ builds \in [Rows -> SUBSET {"scheduled", "manual"}]
    BY DEF AdminInit
  <2>3. \A r \in Rows : kept[r] = {} /\ builds[r] = {}
    BY DEF AdminInit
  <2> QED  BY <2>1, <2>2, <2>3
<1>5. /\ request \in [Handlers -> Request] /\ refresh \in Request
      /\ \A h \in Handlers : request[h].pc = "idle" /\ request[h].creates = FALSE
      /\ refresh.pc = "idle" /\ refresh.creates = FALSE
  BY IdleFields DEF AdminInit
<1>6. AdminTypeOK
  BY <1>2, <1>3, <1>4, <1>5 DEF AdminTypeOK
<1>7. RequestInv /\ UseInv
  BY <1>4, <1>5 DEF RequestInv, Sensible, UseInv
<1>8. TokenInv
  BY <1>1, <1>3 DEF TokenInv, TokenSafe, Present
<1>9. PasswordInv
  BY <1>1, <1>5 DEF PasswordInv
<1> QED  BY <1>6, <1>7, <1>8, <1>9 DEF AdminInv

LEMMA StepEffects ==
    ASSUME AdminInv, AdminNext
    PROVE  OtherEffect \/ \E h \in Handlers : Effect(h)
BY NewRequestEffect, HandlerStepEffect, OtherStepEffect DEF AdminNext, OtherStep

LEMMA AdminInvStep ==
    ASSUME AdminInv, [AdminNext]_adminVars
    PROVE  AdminInv'
<1>1. CASE AdminNext
  <2>1. CASE OtherEffect
    BY <2>1, OtherKeepsInv DEF OtherEffect
  <2>2. ASSUME NEW h \in Handlers, Effect(h) PROVE AdminInv'
    BY <2>2, HandlerKeepsInv DEF Effect
  <2> QED  BY <1>1, <2>1, <2>2, StepEffects
<1>2. CASE UNCHANGED adminVars
  BY <1>2 DEF adminVars, AdminInv, AdminTypeOK, RequestInv, Sensible, UseInv, TokenInv, TokenSafe,
              PasswordInv, PasswordSafe, Present
<1> QED  BY <1>1, <1>2

LEMMA AdminInvHolds == AdminSpec => []AdminInv
<1>1. AdminInv /\ [AdminNext]_adminVars => AdminInv'
  BY AdminInvStep
<1> QED  BY <1>1, AdminInvInit, PTL DEF AdminSpec

(***************************************************************************)
(* Every account row is unused, deleted or complete with the external_id of *)
(* an owner, whatever statements of createAccount, updateAccount, their     *)
(* clean-ups and the refresh loop run into each other: in particular no     *)
(* UPDATE brings back a deleted row, and no identity is stored that was not *)
(* read with a token.                                                      *)
(***************************************************************************)
THEOREM AdminTypes == AdminSpec => []AdminTypeOK
<1>1. AdminInv => AdminTypeOK
  BY DEF AdminInv
<1> QED  BY <1>1, AdminInvHolds, PTL

(***************************************************************************)
(* An account with an account-auto schedule has a token, unless its create  *)
(* is under way or a request on it stopped half-way: for any number of      *)
(* overlapping creates and updates.                                        *)
(***************************************************************************)
THEOREM ScheduledAccountsHaveTokens == AdminSpec => []AutomationHasToken
<1>1. ASSUME AdminInv PROVE AutomationHasToken
  <2> SUFFICES ASSUME NEW r \in Rows \ halfDone, account[r].schedule
               PROVE  \/ secret[r].token # NULL
                      \/ \E h \in Handlers : /\ request[h].row = r /\ request[h].creates
                                             /\ request[h].pc \in {"prefs", "login", "password", "token"}
    BY DEF AutomationHasToken
  <2>1. account[r] \in Account
    BY <1>1, TypeParts DEF AdminInv
  <2>2. Present(r)
    BY <2>1, AccountKinds DEF Present
  <2>3. TokenSafe(r)
    BY <1>1, <2>2 DEF AdminInv, TokenInv
  <2> QED  BY <2>3 DEF TokenSafe
<1> QED  BY <1>1, AdminInvHolds, PTL

(***************************************************************************)
(* A pending password rotation has a password, unless the next statement of *)
(* a request stores it or a request on the account stopped half-way: the    *)
(* reference updateLoginCredentials and requestPasswordRotation read before *)
(* their write is never ahead of the secret.                               *)
(***************************************************************************)
THEOREM RotationsHavePasswords == AdminSpec => []PendingRotationHasPassword
<1>1. ASSUME AdminInv PROVE PendingRotationHasPassword
  BY <1>1 DEF AdminInv, PasswordInv, PasswordSafe, PendingRotationHasPassword
<1> QED  BY <1>1, AdminInvHolds, PTL

(***************************************************************************)
(* No step of any request deletes an account under a deployment that the    *)
(* scheduler started.                                                      *)
(***************************************************************************)
THEOREM ScheduledWorkIsSafe == AdminSpec => ScheduledWorkSurvives
<1> DEFINE Survives == \A r \in Rows : "scheduled" \in builds[r] => account'[r].state = "present"
<1>1. ASSUME AdminInv, [AdminNext]_adminVars PROVE [Survives]_adminVars
  <2> SUFFICES ASSUME AdminNext, NEW r \in Rows, "scheduled" \in builds[r]
               PROVE  account'[r].state = "present"
    BY <1>1
  <2>1. AccountPart
    BY <1>1, StepEffects DEF Effect, OtherEffect
  <2>2. Present(r) /\ kept[r] # {}
    BY <1>1 DEF AdminInv, UseInv
  <2> QED  BY <2>1, <2>2 DEF AccountPart
<1> QED  BY <1>1, AdminInvHolds, PTL DEF AdminSpec, ScheduledWorkSurvives
=============================================================================
