----------------------------- MODULE ProxyPool -----------------------------
(***************************************************************************)
(* The proxies: the monitor that lists them, probes each and stores the    *)
(* verdict of HealthState.Apply, and the admin handlers that create,       *)
(* change, test, assign and delete them meanwhile.                         *)
(*                                                                         *)
(* Host, port, type and user are an endpoint; a password is represented by *)
(* the endpoint it is right for.  A probe through an endpoint succeeds if  *)
(* the endpoint is up (and fast enough) and the password is the right one, *)
(* or none is needed.  Which account uses a proxy matters here only for    *)
(* the foreign key of network_profiles.                                    *)
(***************************************************************************)
EXTENDS Naturals, FiniteSets

CONSTANTS
    Proxies,            \* ids of proxies rows; an id is never used twice
    Endpoints,
    Open,               \* endpoints that need no password
    Initial,            \* the proxies there are at the beginning
    Home,               \* Home[p]: the endpoint of an initial proxy
    Handlers,           \* requests that may be in progress at once
    FailureThreshold, RecoveryThreshold,
    NULL,
    MaxRequests,        \* bound on the requests ever made
    MaxFaults           \* bound on failed statements and aborted requests

ASSUME PoolConstants ==
    /\ Open \subseteq Endpoints /\ Initial \subseteq Proxies
    /\ Home \in [Initial -> Open]
    /\ NULL \notin Endpoints \cup Proxies
    /\ MaxRequests \in Nat /\ MaxFaults \in Nat
ASSUME Thresholds == FailureThreshold \in Nat \ {0} /\ RecoveryThreshold \in Nat \ {0}

VARIABLES
    proxy,      \* proxies
    password,   \* secrets with id proxy-password, by proxy
    assigned,   \* the proxies some network profile names
    up,         \* the endpoints that answer at the moment
    request,    \* the requests in progress
    monitor,    \* Monitor.runOnce
    streak,     \* stored checks in a row that passed or failed (history)
    vouched,    \* proxies whose status an operator's probe set last (history)
    torn,       \* proxies a failed clean-up left behind (history)
    requests, faults

poolVars == <<proxy, password, assigned, up, request, monitor, streak, vouched,
              torn, requests, faults>>
history == <<streak, vouched>>
bounds == <<requests, faults>>

Statuses == {"unknown", "healthy", "degraded", "down"}
\* Counters stand for their value up to the threshold they are compared with.
Failures == 0..FailureThreshold
Successes == 0..RecoveryThreshold
Row == [state : {"unused", "present", "deleted"}, at : Endpoints \cup {NULL}, ref : BOOLEAN,
        status : Statuses, failures : Failures, successes : Successes]
RequestPcs == {"idle", "put", "ref", "healthy", "cleanup", "commit", "putAgain",
               "refAgain", "tested", "assign", "delete"}
Request == [pc : RequestPcs, proxy : Proxies \cup {NULL}, at : Endpoints \cup {NULL},
            password : Endpoints \cup {NULL}]
Monitor == [pc : {"idle", "list", "save"}, todo : SUBSET Proxies, item : [Proxies -> Row],
            cur : Proxies \cup {NULL}, ok : BOOLEAN]

NoRow == [state |-> "unused", at |-> NULL, ref |-> FALSE, status |-> "unknown",
          failures |-> 0, successes |-> 0]

PoolTypeOK ==
    /\ proxy \in [Proxies -> Row]
    /\ password \in [Proxies -> Endpoints \cup {NULL}]
    /\ assigned \in SUBSET Proxies /\ up \in SUBSET Endpoints
    /\ request \in [Handlers -> Request]
    /\ monitor \in Monitor
    /\ streak \in [Proxies -> [passed : Successes, failed : Failures]]
    /\ vouched \in SUBSET Proxies /\ torn \in SUBSET Proxies
    /\ requests \in 0..MaxRequests /\ faults \in 0..MaxFaults
    \* The foreign keys: nothing is kept of, or refers to, a row that is not there.
    /\ \A p \in Proxies : proxy[p].state # "present" =>
          /\ proxy[p] = [NoRow EXCEPT !.state = proxy[p].state]
          /\ password[p] = NULL /\ p \notin assigned

IdleRequest == [pc |-> "idle", proxy |-> NULL, at |-> NULL, password |-> NULL]
IdleMonitor == [pc |-> "idle", todo |-> {}, item |-> [p \in Proxies |-> NoRow],
                cur |-> NULL, ok |-> FALSE]

PoolInit ==
    /\ proxy = [p \in Proxies |->
          IF p \in Initial
          THEN [NoRow EXCEPT !.state = "present", !.at = Home[p], !.status = "healthy"]
          ELSE NoRow]
    /\ password = [p \in Proxies |-> NULL]
    /\ assigned = {} /\ up = Endpoints
    /\ request = [h \in Handlers |-> IdleRequest] /\ monitor = IdleMonitor
    /\ streak = [p \in Proxies |-> [passed |-> 0, failed |-> 0]]
    /\ vouched = Initial /\ torn = {}
    /\ requests = 0 /\ faults = 0
-----------------------------------------------------------------------------
Fault == faults < MaxFaults /\ faults' = faults + 1
NoFault == UNCHANGED faults
Present(p) == proxy[p].state = "present"
Inc(n, limit) == IF n < limit THEN n + 1 ELSE n

\* A request through the gateway that NewProxyGateway makes for endpoint e and
\* password w comes through.
Works(e, w) == e \in up /\ (e \in Open \/ w = e)
\* The type detectProxy finds is one that works: there is one, or an error.
DetectProxy(e, w) == Works(e, w)
\* The password that goes with a listed row: none without a reference.
PasswordOf(p, row) == IF row.ref THEN password[p] ELSE NULL

Begin(h, req) ==
    /\ request[h].pc = "idle" /\ requests < MaxRequests
    /\ requests' = requests + 1
    /\ request' = [request EXCEPT ![h] = req]
Goto(h, pc) == request' = [request EXCEPT ![h].pc = pc]
Ends(h) == request' = [request EXCEPT ![h] = IdleRequest]
\* UPDATE proxies ... WHERE id.
Update(p, row) == proxy' = IF Present(p) THEN [proxy EXCEPT ![p] = row] ELSE proxy
\* DELETE FROM proxies: refused for an assigned one; its secret goes with it.
Delete(p) ==
    IF p \in assigned \/ ~Present(p) THEN UNCHANGED <<proxy, password>>
    ELSE /\ proxy' = [proxy EXCEPT ![p] = [NoRow EXCEPT !.state = "deleted"]]
         /\ password' = [password EXCEPT ![p] = NULL]
\* Status healthy and fresh counters, after a probe by an operator.
Vouch(p, row) ==
    /\ Update(p, [row EXCEPT !.status = "healthy", !.failures = 0, !.successes = 0])
    /\ vouched' = vouched \cup {p}
-----------------------------------------------------------------------------
(* createProxy *)
\* The endpoint is probed (resolveProxyType), then the row inserted as unknown.
CreateProxy(h, e) ==
    /\ \E p \in Proxies :
          /\ proxy[p].state = "unused" /\ DetectProxy(e, e)
          /\ Begin(h, [pc |-> IF e \in Open THEN "healthy" ELSE "put", proxy |-> p, at |-> e,
                       password |-> IF e \in Open THEN NULL ELSE e])
          /\ proxy' = [proxy EXCEPT ![p] = [NoRow EXCEPT !.state = "present", !.at = e]]
    /\ UNCHANGED <<password, assigned, up, monitor, history, torn, faults>>

\* Mutant of PutSecret: the reference is stored first.
PutSecretLast(h) ==
    LET p == request[h].proxy IN
    /\ request[h].pc = "put"
    /\ \/ /\ Update(p, [proxy[p] EXCEPT !.ref = TRUE]) /\ UNCHANGED password
          /\ Goto(h, "ref") /\ NoFault
       \/ Delete(p) /\ Ends(h) /\ Fault
    /\ UNCHANGED <<assigned, up, monitor, history, torn, requests>>

\* PutProxy; a proxy deleted meanwhile makes it fail.
PutSecret(h) ==
    LET p == request[h].proxy IN
    /\ request[h].pc = "put"
    /\ \/ /\ Present(p) /\ password' = [password EXCEPT ![p] = request[h].password]
          /\ Goto(h, "ref") /\ UNCHANGED proxy /\ NoFault
       \/ ~Present(p) /\ Ends(h) /\ UNCHANGED <<proxy, password>> /\ NoFault
       \/ Delete(p) /\ Ends(h) /\ Fault
    /\ UNCHANGED <<assigned, up, monitor, history, torn, requests>>
\* A failure from here on deletes the secret and then, in a statement of its own,
\* the row.
DropSecret(h) ==
    /\ password' = [password EXCEPT ![request[h].proxy] = NULL]
    /\ Goto(h, "cleanup") /\ Fault
    /\ torn' = torn \cup {request[h].proxy}
SetRef(h) ==
    LET p == request[h].proxy IN
    /\ request[h].pc = "ref"
    /\ \/ /\ Update(p, [proxy[p] EXCEPT !.ref = TRUE])
          /\ Goto(h, "healthy") /\ UNCHANGED <<password, torn, faults>>
       \/ DropSecret(h) /\ UNCHANGED proxy
    /\ UNCHANGED <<assigned, up, monitor, history, requests>>
MarkHealthy(h) ==
    LET p == request[h].proxy IN
    /\ request[h].pc = "healthy"
    /\ \/ Vouch(p, proxy[p]) /\ Ends(h) /\ UNCHANGED <<password, torn, faults>>
       \/ DropSecret(h) /\ UNCHANGED <<proxy, vouched>>
    /\ UNCHANGED <<assigned, up, monitor, streak, requests>>
CleanUp(h) ==
    /\ request[h].pc = "cleanup"
    /\ Delete(request[h].proxy) /\ Ends(h)
    /\ UNCHANGED <<assigned, up, monitor, history, torn, bounds>>
-----------------------------------------------------------------------------
(* updateProxy *)
\* Without a password in the request the stored one is used, and stored again.
UpdateProxy(h, p, e, w) ==
    LET used == IF w = NULL THEN password[p] ELSE w IN
    /\ w \in {NULL, e} /\ DetectProxy(e, used)
    /\ Begin(h, [pc |-> "commit", proxy |-> p, at |-> e, password |-> used])
    /\ UNCHANGED <<proxy, password, assigned, up, monitor, history, torn, faults>>
CommitUpdate(h) ==
    LET p == request[h].proxy IN
    /\ request[h].pc = "commit"
    /\ \/ /\ Present(p) /\ Vouch(p, [proxy[p] EXCEPT !.at = request[h].at]) /\ NoFault
          /\ IF request[h].password = NULL THEN Ends(h) ELSE Goto(h, "putAgain")
       \/ ~Present(p) /\ Ends(h) /\ UNCHANGED <<proxy, vouched, faults>>
       \/ Ends(h) /\ Fault /\ UNCHANGED <<proxy, vouched>>
    /\ UNCHANGED <<password, assigned, up, monitor, streak, torn, requests>>
PutAgain(h) ==
    LET p == request[h].proxy IN
    /\ request[h].pc = "putAgain"
    /\ \/ /\ Present(p) /\ password' = [password EXCEPT ![p] = request[h].password]
          /\ Goto(h, "refAgain") /\ NoFault
       \/ ~Present(p) /\ Ends(h) /\ UNCHANGED password /\ NoFault
       \/ Ends(h) /\ UNCHANGED password /\ Fault
    /\ UNCHANGED <<proxy, assigned, up, monitor, history, torn, requests>>
RefAgain(h) ==
    LET p == request[h].proxy IN
    /\ request[h].pc = "refAgain" /\ Ends(h)
    /\ \/ Update(p, [proxy[p] EXCEPT !.ref = TRUE]) /\ NoFault
       \/ UNCHANGED proxy /\ Fault
    /\ UNCHANGED <<password, assigned, up, monitor, history, torn, requests>>
-----------------------------------------------------------------------------
(* testProxy, assignProxy, deleteProxy *)
TestProxy(h, p) ==
    /\ Present(p) /\ DetectProxy(proxy[p].at, password[p])
    /\ Begin(h, [IdleRequest EXCEPT !.pc = "tested", !.proxy = p])
    /\ UNCHANGED <<proxy, password, assigned, up, monitor, history, torn, faults>>
\* The counter of successes is left as it is.
StoreTest(h) ==
    LET p == request[h].proxy IN
    /\ request[h].pc = "tested" /\ Ends(h)
    /\ \/ /\ Update(p, [proxy[p] EXCEPT !.status = "healthy", !.failures = 0])
          /\ vouched' = vouched \cup {p} /\ NoFault
       \/ UNCHANGED <<proxy, vouched>> /\ Fault
    /\ UNCHANGED <<password, assigned, up, monitor, streak, torn, requests>>
AssignProxy(h, p) ==
    /\ Present(p) /\ proxy[p].status = "healthy"
    /\ Begin(h, [IdleRequest EXCEPT !.pc = "assign", !.proxy = p])
    /\ UNCHANGED <<proxy, password, assigned, up, monitor, history, torn, faults>>
StoreAssignment(h) ==
    LET p == request[h].proxy IN
    /\ request[h].pc = "assign" /\ Ends(h)
    /\ assigned' = IF Present(p) THEN assigned \cup {p} ELSE assigned
    /\ UNCHANGED <<proxy, password, up, monitor, history, torn, bounds>>
\* The account goes back to direct, to another proxy, or is deleted.
Unassign(p) ==
    /\ p \in assigned /\ assigned' = assigned \ {p}
    /\ UNCHANGED <<proxy, password, up, request, monitor, history, torn, bounds>>
DeleteProxy(h, p) ==
    /\ p \notin assigned
    /\ Begin(h, [IdleRequest EXCEPT !.pc = "delete", !.proxy = p])
    /\ UNCHANGED <<proxy, password, assigned, up, monitor, history, torn, faults>>
DeleteRow(h) ==
    /\ request[h].pc = "delete" /\ Delete(request[h].proxy) /\ Ends(h)
    /\ UNCHANGED <<assigned, up, monitor, history, torn, bounds>>
\* The client goes away or the process stops.
Abort(h) ==
    /\ request[h].pc # "idle" /\ Fault /\ Ends(h)
    /\ UNCHANGED <<proxy, password, assigned, up, monitor, history, torn, requests>>
-----------------------------------------------------------------------------
(* Monitor.runOnce *)
\* The one request of a check: any error in it makes the result down.
CheckProxy(e, w) == Works(e, w)
ListProxies ==
    /\ monitor.pc = "idle" /\ \E p \in Proxies : Present(p)
    /\ monitor' = [IdleMonitor EXCEPT !.pc = "list", !.todo = {p \in Proxies : Present(p)},
                      !.item = [p \in Proxies |-> IF Present(p) THEN proxy[p] ELSE NoRow]]
    /\ UNCHANGED <<proxy, password, assigned, up, request, history, torn, bounds>>
\* The password is read now, everything else was read with the list.  A password
\* that is missing is a failure, too (markFailure).
Check(p) ==
    LET row == monitor.item[p] IN
    /\ monitor.pc = "list" /\ p \in monitor.todo
    /\ monitor' = [monitor EXCEPT !.pc = "save", !.todo = @ \ {p}, !.cur = p,
                      !.ok = /\ row.ref => password[p] # NULL
                             /\ CheckProxy(row.at, PasswordOf(p, row))]
    /\ UNCHANGED <<proxy, password, assigned, up, request, history, torn, bounds>>

\* Mutant of Apply: failures and successes are counted over all checks.
ApplyKeepsFailures(row, ok) ==
    IF ok THEN LET n == Inc(row.successes, RecoveryThreshold) IN
        [row EXCEPT !.successes = n,
                    !.status = IF n >= RecoveryThreshold THEN "healthy" ELSE "degraded"]
    ELSE LET n == Inc(row.failures, FailureThreshold) IN
        [row EXCEPT !.failures = n, !.successes = 0,
                    !.status = IF n >= FailureThreshold THEN "down" ELSE "degraded"]

\* Mutant of Apply: a single success of a proxy that was down heals nothing.
ApplyNeverHeals(row, ok) ==
    IF ok THEN LET n == Inc(row.successes, RecoveryThreshold) IN
        [row EXCEPT !.failures = 0, !.successes = IF row.status = "degraded" THEN 0 ELSE n,
                    !.status = IF n >= RecoveryThreshold THEN "healthy" ELSE "degraded"]
    ELSE LET n == Inc(row.failures, FailureThreshold) IN
        [row EXCEPT !.failures = n, !.successes = 0,
                    !.status = IF n >= FailureThreshold THEN "down" ELSE "degraded"]

\* HealthState.Apply.
Apply(row, ok) ==
    IF ok THEN LET n == Inc(row.successes, RecoveryThreshold) IN
        [row EXCEPT !.failures = 0, !.successes = n,
                    !.status = IF n >= RecoveryThreshold THEN "healthy" ELSE "degraded"]
    ELSE LET n == Inc(row.failures, FailureThreshold) IN
        [row EXCEPT !.failures = n, !.successes = 0,
                    !.status = IF n >= FailureThreshold THEN "down" ELSE "degraded"]

\* SQLHealthStore.Save: status and counters, of a row that is still there.
Save(p, state) ==
    Update(p, [proxy[p] EXCEPT !.status = state.status, !.failures = state.failures,
                               !.successes = state.successes])

\* Mutant of SaveHealth: an upsert, which brings a deleted proxy back.
SaveHealthUpserts ==
    LET p == monitor.cur
        verdict == Apply(monitor.item[p], monitor.ok) IN
    /\ monitor.pc = "save" /\ NoFault
    /\ proxy' = [proxy EXCEPT ![p].status = verdict.status,
                    ![p].failures = verdict.failures, ![p].successes = verdict.successes]
    /\ monitor' = IF monitor.todo = {} THEN IdleMonitor
                  ELSE [monitor EXCEPT !.pc = "list", !.cur = NULL, !.ok = FALSE,
                                       !.item[p] = NoRow]
    /\ UNCHANGED <<password, assigned, up, request, history, torn, requests>>

\* The end of HealthScheduler.Check: the new state follows from the listed one.
SaveHealth ==
    LET p == monitor.cur
        verdict == Apply(monitor.item[p], monitor.ok) IN
    /\ monitor.pc = "save"
    /\ \/ /\ Save(p, verdict)
          /\ streak' = [streak EXCEPT ![p] =
                IF monitor.ok THEN [passed |-> Inc(@.passed, RecoveryThreshold), failed |-> 0]
                ELSE [passed |-> 0, failed |-> Inc(@.failed, FailureThreshold)]]
          /\ vouched' = vouched \ {p} /\ NoFault
       \/ UNCHANGED <<proxy, history>> /\ Fault
    /\ monitor' = IF monitor.todo = {} THEN IdleMonitor
                  ELSE [monitor EXCEPT !.pc = "list", !.cur = NULL, !.ok = FALSE,
                                       !.item[p] = NoRow]
    /\ UNCHANGED <<password, assigned, up, request, torn, requests>>

\* The proxies' provider.
EndpointChanges(e) ==
    /\ up' = IF e \in up THEN up \ {e} ELSE up \cup {e}
    /\ UNCHANGED <<proxy, password, assigned, request, monitor, history, torn, bounds>>
-----------------------------------------------------------------------------
HandlerStep(h) ==
    \/ PutSecret(h) \/ SetRef(h) \/ MarkHealthy(h) \/ CleanUp(h)
    \/ CommitUpdate(h) \/ PutAgain(h) \/ RefAgain(h)
    \/ StoreTest(h) \/ StoreAssignment(h) \/ DeleteRow(h)
NewRequest(h) ==
    \/ \E e \in Endpoints : CreateProxy(h, e)
    \/ \E p \in Proxies :
          \/ \E e \in Endpoints, w \in Endpoints \cup {NULL} : UpdateProxy(h, p, e, w)
          \/ TestProxy(h, p) \/ AssignProxy(h, p) \/ DeleteProxy(h, p)
MonitorStep == ListProxies \/ (\E p \in monitor.todo : Check(p)) \/ SaveHealth

PoolNext ==
    \/ \E h \in Handlers : NewRequest(h) \/ HandlerStep(h) \/ Abort(h)
    \/ \E p \in Proxies : Unassign(p)
    \/ \E e \in Endpoints : EndpointChanges(e)
    \/ MonitorStep

PoolSpec == PoolInit /\ [][PoolNext]_poolVars
\* The monitor's ticker never stops and every probe has a timeout; requests end.
PoolFairness == WF_poolVars(MonitorStep) /\ \A h \in Handlers : WF_poolVars(HandlerStep(h))
PoolFairSpec == PoolSpec /\ PoolFairness
-----------------------------------------------------------------------------
(***************************************************************************)
(* Properties.                                                             *)
(***************************************************************************)
\* A proxy is down only after as many failed checks in a row as the threshold, and
\* healthy only after as many good ones or on an operator's probe, although the
\* monitor computes from counters it read before others wrote them.
VerdictIsEarned ==
    \A p \in Proxies : Present(p) =>
        /\ proxy[p].status = "down" => streak[p].failed >= FailureThreshold
        /\ proxy[p].status = "healthy" =>
              p \in vouched \/ streak[p].passed >= RecoveryThreshold

\* A reference to a password always resolves, whatever reads it in between, except
\* for a proxy whose creation failed and whose clean-up did not come to its end.
RefHasSecret ==
    \A p \in Proxies \ torn : Present(p) /\ proxy[p].ref => password[p] # NULL

\* A proxy that works and is left alone is healthy in the end, so that its accounts
\* can build again without an operator.
WorkingProxyRecovers ==
    \A p \in Proxies :
        <>[](/\ Present(p) /\ Works(proxy[p].at, PasswordOf(p, proxy[p]))
             /\ proxy[p].ref => password[p] # NULL)
        => <>[](proxy[p].status = "healthy")
-----------------------------------------------------------------------------
(***************************************************************************)
(* The inductive invariant behind the safety properties.                   *)
(***************************************************************************)
\* A request names its proxy and, where it is about to store one, a password.
RequestInv ==
    \A h \in Handlers :
        /\ request[h].pc # "idle" => request[h].proxy \in Proxies
        /\ request[h].pc \in {"put", "putAgain"} => request[h].password # NULL
CheckInv == monitor.pc = "save" => monitor.cur \in Proxies

\* No counter runs ahead of the checks that were really stored: neither the row's
\* nor the one the monitor listed, however old that is.
CounterInv ==
    \A p \in Proxies :
        /\ proxy[p].failures <= streak[p].failed /\ proxy[p].successes <= streak[p].passed
        /\ monitor.item[p].failures <= streak[p].failed
        /\ monitor.item[p].successes <= streak[p].passed

\* Whoever is about to store a reference has stored the password, and it is there.
SecretInv ==
    \A h \in Handlers :
        LET p == request[h].proxy IN
        request[h].pc \in {"ref", "refAgain"} =>
            /\ proxy[p].state # "unused"
            /\ p \notin torn /\ Present(p) => password[p] # NULL

PoolInv == /\ PoolTypeOK /\ RequestInv /\ CheckInv
           /\ CounterInv /\ VerdictIsEarned /\ SecretInv /\ RefHasSecret
=============================================================================
