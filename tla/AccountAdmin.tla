---------------------------- MODULE AccountAdmin ----------------------------
(***************************************************************************)
(* The account handlers of the admin API: an account is a row of accounts, *)
(* a token and a login password in the table secrets, a network profile    *)
(* and an account-auto schedule, written by separate statements.  Beside   *)
(* them the refresh loop, the scheduler and createDeployment use the same  *)
(* accounts.                                                               *)
(*                                                                         *)
(* A token is represented by the DigitalOcean account that owns it, the    *)
(* UUID GetAccount returns for it; the panel sends createAccount the        *)
(* external_id that accountPreview read with the same token.  Which proxy a *)
(* profile names is the matter of module NetworkIdentity: here a profile    *)
(* exists or not, and a proxy that is not usable refuses the request.       *)
(***************************************************************************)
EXTENDS Naturals, FiniteSets

CONSTANTS
    Rows,          \* ids of accounts rows; an id is never used twice
    Owners,        \* DigitalOcean accounts
    Initial,       \* Initial[r]: the owner of a complete account, or NULL
    Handlers,      \* requests that may be in progress at once
    NULL,
    MaxRequests,   \* bound on the requests ever made
    MaxFaults      \* bound on failed statements and aborted requests

ASSUME AdminConstants ==
    /\ Initial \in [Rows -> Owners \cup {NULL}]
    /\ NULL \notin Owners \cup Rows
    /\ \A r, q \in Rows : Initial[r] = Initial[q] => r = q \/ Initial[r] = NULL
    /\ MaxRequests \in Nat /\ MaxFaults \in Nat

VARIABLES
    account,    \* accounts, network_profiles and schedules
    secret,     \* secrets of an account id: no foreign key ties them to a row
    kept,       \* what refers to the account without ON DELETE CASCADE
    builds,     \* unfinished deployments, by who started them
    request,    \* the requests in progress
    refresh,    \* the refresh loop
    halfDone,   \* accounts on which a request stopped half-way (history)
    requests, faults

adminVars == <<account, secret, kept, builds, request, refresh, halfDone, requests, faults>>
tables == <<account, secret, kept, builds>>
bounds == <<requests, faults>>

Empty(state) == [state |-> state, external |-> NULL, profile |-> FALSE, schedule |-> FALSE,
                 login |-> FALSE, rotation |-> FALSE]
Account == {Empty("unused"), Empty("deleted")} \cup
           [state : {"present"}, external : Owners, profile : BOOLEAN,
            schedule : BOOLEAN, login : BOOLEAN, rotation : BOOLEAN]
Secret == [token : Owners \cup {NULL}, password : BOOLEAN]
Pcs == {"idle", "prefs", "commit", "login", "password", "token", "network", "sync",
        "delete", "keepPassword", "saveLogin", "pending",
        "identity", "snapshot"}
\* owner: of the token sent or read (NULL: none was sent); creates: by createAccount.
Request == [pc : Pcs, row : Rows \cup {NULL}, owner : Owners \cup {NULL},
            login : BOOLEAN, creates : BOOLEAN]

AdminTypeOK ==
    /\ account \in [Rows -> Account]
    /\ secret \in [Rows -> Secret]
    /\ kept \in [Rows -> SUBSET {"snapshot", "droplet"}]
    /\ builds \in [Rows -> SUBSET {"scheduled", "manual"}]
    /\ request \in [Handlers -> Request]
    /\ refresh \in Request
    /\ halfDone \in SUBSET Rows
    /\ requests \in 0..MaxRequests /\ faults \in 0..MaxFaults

IdleRequest == [pc |-> "idle", row |-> NULL, owner |-> NULL, login |-> FALSE, creates |-> FALSE]

AdminInit ==
    /\ account = [r \in Rows |->
          IF Initial[r] = NULL THEN Empty("unused")
          ELSE [Empty("present") EXCEPT !.external = Initial[r], !.profile = TRUE,
                                        !.schedule = TRUE]]
    /\ secret = [r \in Rows |-> [token |-> Initial[r], password |-> FALSE]]
    /\ kept = [r \in Rows |-> {}] /\ builds = [r \in Rows |-> {}]
    /\ request = [h \in Handlers |-> IdleRequest] /\ refresh = IdleRequest
    /\ halfDone = {} /\ requests = 0 /\ faults = 0
-----------------------------------------------------------------------------
Fault == faults < MaxFaults /\ faults' = faults + 1
NoFault == UNCHANGED faults
Present(r) == account[r].state = "present"
HeldBy(r, o) == Present(r) /\ account[r].external = o

\* A new request r of handler h, the next statement of h, and its end.
Begin(h, req) ==
    /\ request[h].pc = "idle" /\ requests < MaxRequests
    /\ requests' = requests + 1
    /\ request' = [request EXCEPT ![h] = req]
Goto(h, pc) == request' = [request EXCEPT ![h].pc = pc]
Ends(h) == request' = [request EXCEPT ![h] = IdleRequest]
\* The statement after the row of createAccount and updateAccount is written.
AfterRow(req) == IF req.login THEN "login" ELSE IF req.owner # NULL THEN "token" ELSE "idle"
Continue(h, pc) == IF pc = "idle" THEN Ends(h) ELSE Goto(h, pc)
StopsHalfWay(r) == halfDone' = halfDone \cup {r}

\* UPDATE accounts ... WHERE id: no error if the row is gone.
Update(r, a) == account' = IF Present(r) THEN [account EXCEPT ![r] = a] ELSE account
\* DELETE FROM accounts: refused while a snapshot or droplet row refers to it;
\* profile, schedule and deployments go with it, secrets stay.
Delete(r) ==
    IF kept[r] # {} \/ ~Present(r) THEN UNCHANGED <<account, builds>>
    ELSE /\ account' = [account EXCEPT ![r] = Empty("deleted")]
         /\ builds' = [builds EXCEPT ![r] = {}]
-----------------------------------------------------------------------------
(* createAccount *)
\* What accountPreview lets the panel send: a token DigitalOcean answered for, and
\* the external_id of its owner.
PreviewedTokens == Owners
\* INSERT ... ON CONFLICT (provider, external_id) DO UPDATE.
CreateAccount(h, o, login) ==
    LET known == {r \in Rows : HeldBy(r, o)}
        fresh == {r \in Rows : account[r].state = "unused"} IN
    /\ \E r \in IF known # {} THEN known ELSE fresh :
          /\ Begin(h, [pc |-> "prefs", row |-> r, owner |-> o, login |-> login, creates |-> TRUE])
          /\ account' = IF Present(r) THEN account
                        ELSE [account EXCEPT ![r] = [Empty("present") EXCEPT !.external = o]]
    /\ UNCHANGED <<secret, kept, builds, refresh, halfDone, faults>>

\* A failing statement deletes the account, one that was there before as well.
CleanUp(h) == Delete(request[h].row) /\ Ends(h) /\ Fault
StorePreferences(h) ==
    /\ request[h].pc = "prefs"
    /\ \/ Goto(h, AfterRow(request[h])) /\ UNCHANGED <<account, builds, faults>>
       \/ CleanUp(h)
    /\ UNCHANGED <<secret, kept, refresh, halfDone, requests>>

\* The collision check, which leaves the account without a profile, and the profile.
StoreProfile(h) ==
    LET r == request[h].row IN
    /\ request[h].pc = "network"
    /\ \/ Ends(h) /\ UNCHANGED <<account, builds, faults>>
       \/ /\ Present(r) /\ Update(r, [account[r] EXCEPT !.profile = TRUE])
          /\ Goto(h, "sync") /\ UNCHANGED <<builds, faults>>
       \/ ~Present(r) /\ Ends(h) /\ UNCHANGED <<account, builds, faults>>
       \/ CleanUp(h)
    /\ UNCHANGED <<secret, kept, refresh, halfDone, requests>>
\* syncAccountAutomation.
SyncAutomation(h) ==
    LET r == request[h].row IN
    /\ request[h].pc = "sync"
    /\ \/ Update(r, [account[r] EXCEPT !.schedule = TRUE]) /\ NoFault
       \/ UNCHANGED account /\ Fault
    /\ Ends(h)
    /\ UNCHANGED <<secret, kept, builds, refresh, halfDone, requests>>
-----------------------------------------------------------------------------
(* updateAccount *)
\* No token, or one that validateReplacementToken got an account for.
ReplacementTokens == Owners \cup {NULL}
\* A replacement token is tried out first: its owner is known from then on.
UpdateAccount(h, r, o, login) ==
    /\ Begin(h, [pc |-> "commit", row |-> r, owner |-> o, login |-> login, creates |-> FALSE])
    /\ UNCHANGED <<tables, refresh, halfDone, faults>>

\* Mutant of CommitUpdate: external_id is written without a token, too.
CommitUpdateAlways(h) ==
    LET r == request[h].row
        o == request[h].owner IN
    /\ request[h].pc = "commit"
    /\ \/ Ends(h) /\ UNCHANGED account
       \/ /\ Present(r) /\ \A q \in Rows \ {r} : ~HeldBy(q, o)
          /\ Update(r, [account[r] EXCEPT !.profile = TRUE, !.schedule = TRUE, !.external = o])
          /\ Continue(h, AfterRow(request[h]))
    /\ UNCHANGED <<secret, kept, builds, refresh, halfDone, bounds>>

\* One transaction: preferences, profile, schedule and external_id.  It is rolled
\* back if the proxy is unusable or collides, the row is gone, or another row has
\* the external_id.
CommitUpdate(h) ==
    LET r == request[h].row
        o == request[h].owner IN
    /\ request[h].pc = "commit"
    /\ \/ Ends(h) /\ UNCHANGED account
       \/ /\ Present(r) /\ (o = NULL \/ \A q \in Rows \ {r} : ~HeldBy(q, o))
          /\ Update(r, [account[r] EXCEPT !.profile = TRUE, !.schedule = TRUE,
                                          !.external = IF o = NULL THEN @ ELSE o])
          /\ Continue(h, AfterRow(request[h]))
    /\ UNCHANGED <<secret, kept, builds, refresh, halfDone, bounds>>
-----------------------------------------------------------------------------
(* The statements both have in common: login reference, password, token. *)
StoreLogin(h) ==
    LET r == request[h].row IN
    /\ request[h].pc = "login"
    /\ \/ /\ Update(r, [account[r] EXCEPT !.login = TRUE, !.rotation = TRUE])
          /\ Goto(h, "password") /\ UNCHANGED <<halfDone, faults>>
       \/ UNCHANGED account /\ Ends(h) /\ StopsHalfWay(r) /\ Fault
    /\ UNCHANGED <<secret, kept, builds, refresh, requests>>
PutPassword(h) ==
    LET r == request[h].row IN
    /\ request[h].pc = "password"
    /\ \/ /\ secret' = [secret EXCEPT ![r].password = TRUE]
          /\ Continue(h, IF request[h].owner # NULL THEN "token" ELSE "idle")
          /\ UNCHANGED <<halfDone, faults>>
       \/ UNCHANGED secret /\ Ends(h) /\ StopsHalfWay(r) /\ Fault
    /\ UNCHANGED <<account, kept, builds, refresh, requests>>

\* Mutant of PutToken: createAccount goes on although the token was not stored.
PutTokenIgnored(h) ==
    LET r == request[h].row IN
    /\ request[h].pc = "token"
    /\ \/ secret' = [secret EXCEPT ![r].token = request[h].owner] /\ NoFault
       \/ UNCHANGED secret /\ Fault
    /\ IF request[h].creates THEN Goto(h, "network") ELSE Ends(h)
    /\ UNCHANGED <<account, kept, builds, refresh, halfDone, requests>>

PutToken(h) ==
    LET r == request[h].row IN
    /\ request[h].pc = "token"
    /\ \/ /\ secret' = [secret EXCEPT ![r].token = request[h].owner]
          /\ IF request[h].creates THEN Goto(h, "network") ELSE Ends(h)
          /\ UNCHANGED <<account, builds, halfDone, faults>>
       \/ request[h].creates /\ CleanUp(h) /\ UNCHANGED <<secret, halfDone>>
       \/ /\ ~request[h].creates /\ Ends(h) /\ StopsHalfWay(r) /\ Fault
          /\ UNCHANGED <<account, builds, secret>>
    /\ UNCHANGED <<kept, refresh, requests>>
-----------------------------------------------------------------------------
(* updateLoginCredentials, requestPasswordRotation *)
\* Mutant of UpdateLoginCredentials: no reference is asked for.
UpdateLoginUnchecked(h, r, withPassword) ==
    /\ Present(r)
    /\ Begin(h, [IdleRequest EXCEPT !.pc = IF withPassword THEN "keepPassword" ELSE "saveLogin",
                                    !.row = r])
    /\ UNCHANGED <<tables, refresh, halfDone, faults>>

\* Without a password, the reference the account has is kept; it must have one.
UpdateLoginCredentials(h, r, withPassword) ==
    /\ Present(r) /\ (withPassword \/ account[r].login)
    /\ Begin(h, [IdleRequest EXCEPT !.pc = IF withPassword THEN "keepPassword" ELSE "saveLogin",
                                    !.row = r])
    /\ UNCHANGED <<tables, refresh, halfDone, faults>>
\* The secret first, the reference after it.
KeepPassword(h) ==
    /\ request[h].pc = "keepPassword"
    /\ \/ /\ secret' = [secret EXCEPT ![request[h].row].password = TRUE]
          /\ Goto(h, "saveLogin") /\ NoFault
       \/ UNCHANGED secret /\ Ends(h) /\ Fault
    /\ UNCHANGED <<account, kept, builds, refresh, halfDone, requests>>

SaveLogin(h) ==
    LET r == request[h].row IN
    /\ request[h].pc = "saveLogin"
    /\ \/ Update(r, [account[r] EXCEPT !.login = TRUE, !.rotation = TRUE]) /\ NoFault
       \/ UNCHANGED account /\ Fault
    /\ Ends(h)
    /\ UNCHANGED <<secret, kept, builds, refresh, halfDone, requests>>
\* Only for an account with credentials; the reference is read before the write.
RequestPasswordRotation(h, r) ==
    /\ Present(r) /\ account[r].login
    /\ Begin(h, [IdleRequest EXCEPT !.pc = "pending", !.row = r])
    /\ UNCHANGED <<tables, refresh, halfDone, faults>>
StorePending(h) ==
    LET r == request[h].row IN
    /\ request[h].pc = "pending"
    /\ \/ Update(r, [account[r] EXCEPT !.rotation = TRUE]) /\ NoFault
       \/ UNCHANGED account /\ Fault
    /\ Ends(h)
    /\ UNCHANGED <<secret, kept, builds, refresh, halfDone, requests>>
-----------------------------------------------------------------------------
(* deleteAccount *)
\* Deployments that have not failed and droplets that are not DELETED are counted.
DeleteAccount(h, r) ==
    /\ builds[r] = {}
    /\ Begin(h, [IdleRequest EXCEPT !.pc = "delete", !.row = r])
    /\ UNCHANGED <<tables, refresh, halfDone, faults>>
DeleteRow(h) ==
    /\ request[h].pc = "delete"
    /\ Delete(request[h].row) /\ Ends(h)
    /\ UNCHANGED <<secret, kept, refresh, halfDone, bounds>>

\* The client goes away or the process stops: r.Context() ends with the request,
\* and with it every statement that would follow, a clean-up too.
Abort(h) ==
    /\ request[h].pc # "idle" /\ Fault
    /\ Ends(h) /\ StopsHalfWay(request[h].row)
    /\ UNCHANGED <<tables, refresh, requests>>
-----------------------------------------------------------------------------
(* accountIdentity and accountPreflight, accountDiscovery, and the refresh loop *)
(* read the identity of the token, and store it later.                           *)
HasRuntime(r) == Present(r) /\ account[r].profile /\ secret[r].token # NULL
ReadIdentity(h, r, pc) ==
    /\ HasRuntime(r) /\ pc \in {"identity", "snapshot"}
    /\ Begin(h, [IdleRequest EXCEPT !.pc = pc, !.row = r, !.owner = secret[r].token])
    /\ UNCHANGED <<tables, refresh, halfDone, faults>>

\* external_id, unless another row has it already: that error is not looked at.
StoreIdentity(r, o) ==
    account' = IF Present(r) /\ (\A q \in Rows \ {r} : ~HeldBy(q, o))
               THEN [account EXCEPT ![r].external = o] ELSE account
WriteIdentity(h) ==
    LET r == request[h].row IN
    /\ request[h].pc \in {"identity", "snapshot"}
    /\ IF request[h].pc = "snapshot" /\ Present(r)
       THEN kept' = [kept EXCEPT ![r] = @ \cup {"snapshot"}] ELSE UNCHANGED kept
    /\ StoreIdentity(r, request[h].owner)
    /\ Ends(h)
    /\ UNCHANGED <<secret, builds, refresh, halfDone, bounds>>

\* Mutant of RefreshReads: an account with a snapshot is not asked again.
RefreshReadsOnce(r) ==
    /\ refresh.pc = "idle" /\ HasRuntime(r) /\ kept[r] = {}
    /\ refresh' = [IdleRequest EXCEPT !.pc = "snapshot", !.row = r, !.owner = secret[r].token]
    /\ UNCHANGED <<tables, request, halfDone, bounds>>

RefreshReads(r) ==
    /\ refresh.pc = "idle" /\ HasRuntime(r)
    /\ refresh' = [IdleRequest EXCEPT !.pc = "snapshot", !.row = r, !.owner = secret[r].token]
    /\ UNCHANGED <<tables, request, halfDone, bounds>>
RefreshStores ==
    LET r == refresh.row IN
    /\ refresh.pc = "snapshot" /\ refresh' = IdleRequest
    /\ IF Present(r) THEN kept' = [kept EXCEPT ![r] = @ \cup {"snapshot"}] ELSE UNCHANGED kept
    /\ StoreIdentity(r, refresh.owner)
    /\ UNCHANGED <<secret, builds, request, halfDone, bounds>>
-----------------------------------------------------------------------------
(* The users of an account. *)
\* Mutant of StartScheduled: capacity is not taken from a snapshot.
StartScheduledBlind(r) ==
    /\ HasRuntime(r) /\ account[r].schedule /\ builds[r] = {}
    /\ builds' = [builds EXCEPT ![r] = {"scheduled"}]
    /\ UNCHANGED <<account, secret, kept, request, refresh, halfDone, bounds>>

\* The scheduler decides from a provider snapshot (module FleetScheduler).
StartScheduled(r) ==
    /\ HasRuntime(r) /\ account[r].schedule /\ builds[r] = {} /\ "snapshot" \in kept[r]
    /\ builds' = [builds EXCEPT ![r] = {"scheduled"}]
    /\ UNCHANGED <<account, secret, kept, request, refresh, halfDone, bounds>>
StartManual(r) ==
    /\ HasRuntime(r) /\ account[r].schedule /\ builds[r] = {}
    /\ builds' = [builds EXCEPT ![r] = {"manual"}]
    /\ UNCHANGED <<account, secret, kept, request, refresh, halfDone, bounds>>
\* A deployment ends: with a row in droplets, which stays, or frozen without one.
EndBuild(r) ==
    /\ builds[r] # {}
    /\ builds' = [builds EXCEPT ![r] = {}]
    /\ kept' \in {kept, [kept EXCEPT ![r] = @ \cup {"droplet"}]}
    /\ UNCHANGED <<account, secret, request, refresh, halfDone, bounds>>
-----------------------------------------------------------------------------
HandlerStep(h) ==
    \/ StorePreferences(h) \/ StoreProfile(h) \/ SyncAutomation(h) \/ CommitUpdate(h)
    \/ StoreLogin(h) \/ PutPassword(h) \/ PutToken(h) \/ KeepPassword(h) \/ SaveLogin(h)
    \/ StorePending(h) \/ DeleteRow(h) \/ WriteIdentity(h)
NewRequest(h) ==
    \/ \E o \in PreviewedTokens, login \in BOOLEAN : CreateAccount(h, o, login)
    \/ \E r \in Rows :
          \/ \E o \in ReplacementTokens, login \in BOOLEAN : UpdateAccount(h, r, o, login)
          \/ \E password \in BOOLEAN : UpdateLoginCredentials(h, r, password)
          \/ RequestPasswordRotation(h, r) \/ DeleteAccount(h, r)
          \/ \E pc \in {"identity", "snapshot"} : ReadIdentity(h, r, pc)

AdminNext ==
    \/ \E h \in Handlers : NewRequest(h) \/ HandlerStep(h) \/ Abort(h)
    \/ \E r \in Rows : \/ RefreshReads(r) \/ StartScheduled(r)
                       \/ StartManual(r) \/ EndBuild(r)
    \/ RefreshStores

AdminSpec == AdminInit /\ [][AdminNext]_adminVars
\* Requests end, and the refresh loop's ticker never stops: it comes to every
\* account again and again.
AdminFairness ==
    /\ \A h \in Handlers : WF_adminVars(HandlerStep(h))
    /\ WF_adminVars(RefreshStores)
    /\ \A r \in Rows : SF_adminVars(RefreshReads(r))
AdminFairSpec == AdminSpec /\ AdminFairness
-----------------------------------------------------------------------------
(***************************************************************************)
(* Properties.                                                             *)
(***************************************************************************)
\* An account is never deleted under a deployment the scheduler started, by
\* deleteAccount between its count and its DELETE or by the clean-up of a create
\* that met an existing account: the snapshot the scheduler needed keeps the row.
ScheduledWorkSurvives ==
    [][\A r \in Rows : "scheduled" \in builds[r] => account'[r].state = "present"]_adminVars

\* An account the scheduler works for has a token, or the create that brings it is
\* under way, or a request on the account stopped half-way.
AutomationHasToken ==
    \A r \in Rows \ halfDone : account[r].schedule =>
        \/ secret[r].token # NULL
        \/ \E h \in Handlers : /\ request[h].row = r /\ request[h].creates
                               /\ request[h].pc \in {"prefs", "login", "password", "token"}

\* A password rotation that is pending has a password to rotate, or it is about to
\* be stored, or a request on the account stopped half-way.
PendingRotationHasPassword ==
    \A r \in Rows \ halfDone : account[r].rotation =>
        \/ secret[r].password
        \/ \E h \in Handlers : request[h].row = r /\ request[h].pc = "password"

\* However requests overlapped and failed, an account ends up under the identity
\* its token really has, unless another account goes by that identity.
IdentityConverges ==
    <>[](\A h \in Handlers : request[h].pc = "idle") =>
        <>[](\A r \in Rows : HasRuntime(r) =>
                \E q \in Rows : HeldBy(q, secret[r].token))
-----------------------------------------------------------------------------
(***************************************************************************)
(* The inductive invariant behind the safety properties.                   *)
(***************************************************************************)
\* What a request under way has made sure of; an identity was read with a token
\* that is stored, and a stored token is only ever replaced.
Sensible(q) ==
    /\ q.pc # "idle" => q.row \in Rows
    /\ q.pc = "prefs" => q.creates
    /\ q.creates \/ q.pc \in {"token", "identity", "snapshot"} => q.owner \in Owners
    /\ q.pc \in {"identity", "snapshot"} => secret[q.row].token # NULL
RequestInv == Sensible(refresh) /\ \A h \in Handlers : Sensible(request[h])

\* What refers to an account came into being with a token; the row a scheduled
\* deployment works for is kept by the snapshot the scheduler decided from.
UseInv ==
    \A r \in Rows :
        /\ kept[r] \cup builds[r] # {} => secret[r].token # NULL
        /\ "scheduled" \in builds[r] => Present(r) /\ "snapshot" \in kept[r]

\* The token of r is stored, or a createAccount will store it.
TokenSafe(r) ==
    \/ r \in halfDone \/ secret[r].token # NULL
    \/ \E h \in Handlers : /\ request[h].row = r /\ request[h].creates
                           /\ request[h].pc \in {"prefs", "login", "password", "token"}
TokenInv == \A r \in Rows : Present(r) => TokenSafe(r)

\* The password of r is stored, or the next statement of a request stores it.
PasswordSafe(r) ==
    \/ r \in halfDone \/ secret[r].password
    \/ \E h \in Handlers : request[h].row = r /\ request[h].pc = "password"
PasswordInv ==
    /\ \A r \in Rows : account[r].login \/ account[r].rotation => PasswordSafe(r)
    /\ \A h \in Handlers :
          request[h].pc \in {"saveLogin", "pending"} => PasswordSafe(request[h].row)

AdminInv == AdminTypeOK /\ RequestInv /\ UseInv /\ TokenInv /\ PasswordInv
=============================================================================
