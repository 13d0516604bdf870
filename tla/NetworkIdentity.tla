-------------------------- MODULE NetworkIdentity --------------------------
(***************************************************************************)
(* The network identity of the accounts: the exit address each account uses *)
(* through its proxy (table account_network_identities), kept by            *)
(* Container.MaintainStickyIdentity, and written as well by the dashboard   *)
(* and by the proxy tests of the admin API.                                 *)
(*                                                                         *)
(* A sticky session is represented by the exit address the provider gives  *)
(* it at the moment; the provider may give it another one.  The statements  *)
(* of a maintenance run between two network probes are one step; a collision *)
(* check and the write it allows are two.  Country, time zone, locale and the *)
(* last health are columns that are only shown (the country goes with the     *)
(* exit), and the row a rotation puts into browser_audit_queue has no effect  *)
(* on identities.                                                           *)
(***************************************************************************)
EXTENDS Naturals, FiniteSets

CONSTANTS
    Accounts,
    Proxies,
    Adapter,       \* Adapter[p]: "generic" or "suffix-session"
    Exits,         \* exit addresses
    SubnetOf,      \* SubnetOf[e]: its /24 or /48
    Preferred,     \* the exits in the preferred country
    Initial,       \* Initial[a]: the proxy account a starts with, or NULL
    Targeted,      \* accounts with a preferred_country_code
    Runners,       \* concurrent callers of MaintainStickyIdentity and the dashboard
    CalledBy,      \* CalledBy[a]: the runners that come to account a; nothing keeps
                   \* two of them off it at the same time
    NULL,
    MaxEvents      \* bound on disturbances by provider, operator and restarts

ASSUME IdentityConstants ==
    /\ Adapter \in [Proxies -> {"generic", "suffix-session"}]
    /\ Initial \in [Accounts -> Proxies \cup {NULL}] /\ DOMAIN SubnetOf = Exits
    /\ Preferred \subseteq Exits /\ Targeted \subseteq Accounts
    /\ CalledBy \in [Accounts -> SUBSET Runners]
    /\ MaxEvents \in Nat
    /\ NULL \notin Proxies \cup Exits \cup Accounts

VARIABLES
    profile,   \* network_profiles: the proxy required, or NULL for direct
    healthy,   \* the proxies with status healthy
    row,       \* account_network_identities
    status,    \* accounts.runtime_status
    run,       \* what each runner is doing
    events

identityVars == <<profile, healthy, row, status, run, events>>

\* rotation_started_at: not set, set, or set five minutes ago or earlier.
Windows == {"none", "open", "over"}
Row == [session : Exits \cup {NULL}, exit : Exits \cup {NULL},
        fallback : BOOLEAN, rotation : Windows]
Statuses == {"READY", "ISOLATION_WAIT", "PREFLIGHT_FAILED"}
RunPcs == {"idle", "probe", "prefer", "rotate", "generic", "refresh",
           "storePreferred", "storeRotated", "storeGeneric", "storeRefresh", "ready"}
Run == [pc : RunPcs, acct : Accounts \cup {NULL}, session : Exits \cup {NULL},
        fallback : BOOLEAN, started : Windows, exit : Exits \cup {NULL}]

IdentityTypeOK ==
    /\ profile \in [Accounts -> Proxies \cup {NULL}]
    /\ healthy \subseteq Proxies
    /\ row \in [Accounts -> Row]
    /\ status \in [Accounts -> Statuses]
    /\ run \in [Runners -> Run]
    /\ events \in 0..MaxEvents

IdleRun == [pc |-> "idle", acct |-> NULL, session |-> NULL,
            fallback |-> FALSE, started |-> "none", exit |-> NULL]
EmptyRow == [session |-> NULL, exit |-> NULL,
             fallback |-> FALSE, rotation |-> "none"]

IdentityInit ==
    /\ profile = Initial
    /\ healthy = Proxies
    /\ row = [a \in Accounts |-> EmptyRow]
    /\ status = [a \in Accounts |-> "READY"]
    /\ run = [r \in Runners |-> IdleRun]
    /\ events = 0
-----------------------------------------------------------------------------
Event == events < MaxEvents /\ events' = events + 1
NoEvent == UNCHANGED events
SameSubnet(e, f) == e # NULL /\ f # NULL /\ SubnetOf[e] = SubnetOf[f]

\* The EXISTS query before a write: any other account, direct ones included.
Taken(a, e) == \E b \in Accounts \ {a} : SameSubnet(e, row[b].exit)
\* The query of Repository.Account: only accounts that require a proxy.
Collides(a) == \E b \in Accounts \ {a} :
                  profile[b] # NULL /\ SameSubnet(row[a].exit, row[b].exit)

Sticky(a) == profile[a] # NULL /\ Adapter[profile[a]] = "suffix-session"
\* Mutant of Cleared: fallback_active, a NOT NULL column, is emptied.
ClearedToNull(i) == [i EXCEPT !.session = NULL, !.fallback = NULL, !.rotation = "none"]
\* Mutant of Cleared: the window of the last failure stays.
ClearedKeepsWindow(i) == [i EXCEPT !.session = NULL, !.fallback = FALSE]

Cleared(i) == [i EXCEPT !.session = NULL, !.fallback = FALSE, !.rotation = "none"]
HasStickyState(a) == row[a].session # NULL \/ row[a].fallback \/ row[a].rotation # "none"

\* The session Repository.Account puts into the user name, if there is one.
SessionOf(a) == IF Sticky(a) THEN row[a].session ELSE NULL
\* What a probe may find.  fastGatewayExitIP sees the exit of the session it was
\* given; observeStickyGeo looks through a new session or a generic pool, and
\* fastExitIP through the base user of the proxy: any exit.
FastGatewayExitIP(r) == run[r].session
ObserveStickyGeo == Exits
FastExitIP == Exits
ObserveProxy(session) == IF session = NULL THEN Exits ELSE {session}

Ends(r) == run' = [run EXCEPT ![r] = IdleRun]
\* A run goes on with an exit, and forgets what it no longer uses.
Goes(r, pc, e) ==
    run' = [run EXCEPT ![r] = [IdleRun EXCEPT !.pc = pc, !.acct = run[r].acct, !.exit = e]]
SetRow(a, i) == row' = [row EXCEPT ![a] = i]
SetStatus(a, s) == status' = [status EXCEPT ![a] = s]

\* The accounts the keeper goes through; the other callers name one of them.
Selected(r, a) == run[r].pc = "idle" /\ r \in CalledBy[a] /\ profile[a] # NULL

\* GENERIC_STATE_INVARIANT_V1, before anything else is looked at.
ClearGeneric(a) == IF Sticky(a) THEN row[a] ELSE Cleared(row[a])

\* MaintainStickyIdentity up to its first probe.  For an account that collides,
\* stickyConfig returns a configuration without a mode, and the run ends there.
BeginCollides(r, a) ==
    /\ Selected(r, a) /\ Collides(a)
    /\ SetRow(a, ClearGeneric(a))
    /\ UNCHANGED <<profile, healthy, status, run, events>>
BeginGeneric(r, a) ==
    /\ Selected(r, a) /\ ~Collides(a) /\ ~Sticky(a)
    /\ SetRow(a, Cleared(row[a]))
    /\ run' = IF profile[a] \in healthy
              THEN [run EXCEPT ![r].pc = "generic", ![r].acct = a] ELSE run
    /\ UNCHANGED <<profile, healthy, status, events>>
\* stickyConfig keeps the session the account has, or stores a new one.
BeginSticky(r, a) ==
    /\ Selected(r, a) /\ ~Collides(a) /\ Sticky(a)
    /\ \E e \in IF row[a].session = NULL THEN Exits ELSE {row[a].session} :
          /\ SetRow(a, [row[a] EXCEPT !.session = e])
          /\ run' = IF profile[a] \in healthy
                    THEN [run EXCEPT ![r] =
                            [pc |-> "probe", acct |-> a, session |-> e, exit |-> NULL,
                             fallback |-> row[a].fallback, started |-> row[a].rotation]]
                    ELSE run
    /\ UNCHANGED <<profile, healthy, status, events>>

\* The generic path: a probe that fails, an address that is taken (no status is
\* stored), or one to store.
ProbeGeneric(r) ==
    LET a == run[r].acct IN
    /\ run[r].pc = "generic"
    /\ \/ SetRow(a, Cleared(row[a])) /\ Ends(r)
       \/ \E e \in ObserveStickyGeo :
             /\ IF Taken(a, e) THEN Ends(r) ELSE Goes(r, "storeGeneric", e)
             /\ UNCHANGED row
    /\ UNCHANGED <<profile, healthy, status, events>>
StoreGeneric(r) ==
    /\ run[r].pc = "storeGeneric"
    /\ SetRow(run[r].acct, [EmptyRow EXCEPT !.exit = run[r].exit])
    /\ Ends(r)
    /\ UNCHANGED <<profile, healthy, status, events>>

\* Mutant of ProbeHealthy: an account whose fallback answers is left in peace.
ProbeHealthyIsEnough(r) ==
    LET a == run[r].acct IN
    /\ run[r].pc = "probe" /\ FastGatewayExitIP(r) = row[a].exit
    /\ SetRow(a, IF run[r].fallback THEN row[a]
                 ELSE [row[a] EXCEPT !.rotation = "none", !.fallback = FALSE])
    /\ Ends(r)
    /\ UNCHANGED <<profile, healthy, status, events>>

\* The session answers with the stored address.  In the fallback country the
\* preferred one is tried next.
ProbeHealthy(r) ==
    LET a == run[r].acct IN
    /\ run[r].pc = "probe" /\ FastGatewayExitIP(r) = row[a].exit
    /\ SetRow(a, IF run[r].fallback THEN row[a]
                 ELSE [row[a] EXCEPT !.rotation = "none", !.fallback = FALSE])
    /\ IF run[r].fallback /\ a \in Targeted THEN Goes(r, "prefer", NULL) ELSE Ends(r)
    /\ UNCHANGED <<profile, healthy, status, events>>
\* It does not answer, or with another address: recovery begins or goes on.
ProbeFails(r) ==
    LET a == run[r].acct
        begins == run[r].started = "none" IN
    /\ run[r].pc = "probe"
    /\ SetRow(a, IF begins THEN [row[a] EXCEPT !.rotation = "open"] ELSE row[a])
    /\ run' = [run EXCEPT ![r].pc = "rotate", ![r].session = NULL,
                          ![r].started = IF begins THEN "open" ELSE run[r].started]
    /\ UNCHANGED <<profile, healthy, status, events>>

\* A new session in the preferred country: kept only if it answers from there
\* with an address nobody has.
PreferredFails(r) ==
    /\ run[r].pc = "prefer" /\ Ends(r)
    /\ UNCHANGED <<profile, healthy, row, status, events>>
Prefer(r, e) ==
    /\ run[r].pc = "prefer" /\ e \in Preferred /\ ~Taken(run[r].acct, e)
    /\ Goes(r, "storePreferred", e)
    /\ UNCHANGED <<profile, healthy, row, status, events>>

\* Mutant of AllowFallback: only an account already in fallback may use it.
AllowFallbackNever(r) == run[r].fallback

AllowFallback(r) == run[r].fallback \/ run[r].started = "over"

\* A new session: no answer, the wrong country, a taken address, or one to store.
RotateFails(r) ==
    LET a == run[r].acct IN
    /\ run[r].pc = "rotate"
    /\ \/ UNCHANGED status
       \/ /\ \E e \in ObserveStickyGeo :
                \/ a \in Targeted /\ ~AllowFallback(r) /\ e \notin Preferred
                \/ Taken(a, e)
          /\ SetStatus(a, "ISOLATION_WAIT")
    /\ Ends(r)
    /\ UNCHANGED <<profile, healthy, row, events>>
\* Mutant of Rotate: what is stored is the fallback state the run has read, not the
\* one it has decided on.
RotateForgetsFallback(r, e) ==
    LET a == run[r].acct IN
    /\ run[r].pc = "rotate" /\ ~Taken(a, e)
    /\ a \in Targeted /\ ~AllowFallback(r) => e \in Preferred
    /\ run' = [run EXCEPT ![r].pc = "storeRotated", ![r].exit = e, ![r].started = "none"]
    /\ UNCHANGED <<profile, healthy, row, status, events>>

Rotate(r, e) ==
    LET a == run[r].acct IN
    /\ run[r].pc = "rotate" /\ ~Taken(a, e)
    /\ a \in Targeted /\ ~AllowFallback(r) => e \in Preferred
    /\ run' = [run EXCEPT ![r].pc = "storeRotated", ![r].exit = e, ![r].started = "none",
                          ![r].fallback = AllowFallback(r)]
    /\ UNCHANGED <<profile, healthy, row, status, events>>

\* The identity first, then the status of the account.
StoreRotated(r) ==
    LET a == run[r].acct IN
    /\ run[r].pc \in {"storePreferred", "storeRotated"}
    /\ SetRow(a, [session |-> run[r].exit, exit |-> run[r].exit,
                  fallback |-> run[r].pc = "storeRotated" /\ run[r].fallback,
                  rotation |-> "none"])
    /\ run' = [run EXCEPT ![r] = [IdleRun EXCEPT !.pc = "ready", !.acct = a]]
    /\ UNCHANGED <<profile, healthy, status, events>>
MarkReady(r) ==
    /\ run[r].pc = "ready"
    /\ SetStatus(run[r].acct, "READY")
    /\ Ends(r)
    /\ UNCHANGED <<profile, healthy, row, events>>
\* Every error, timeout or stop of the process ends the run where it is.
Abandon(r) ==
    /\ run[r].pc # "idle" /\ Event
    /\ Ends(r)
    /\ UNCHANGED <<profile, healthy, row, status>>
-----------------------------------------------------------------------------
(* refreshNetworkIdentityIfDue: each view of the dashboard starts one, which *)
(* looks through the base user of the proxy, not through the session.        *)
BeginRefresh(r, a) ==
    /\ Selected(r, a) /\ Event
    /\ run' = [run EXCEPT ![r].pc = "refresh", ![r].acct = a]
    /\ UNCHANGED <<profile, healthy, row, status>>
ProbeRefresh(r) ==
    LET a == run[r].acct IN
    /\ run[r].pc = "refresh"
    /\ \/ Ends(r) /\ UNCHANGED status
       \/ \E e \in FastExitIP :
             IF Taken(a, e) THEN SetStatus(a, "ISOLATION_WAIT") /\ Ends(r)
             ELSE UNCHANGED status /\ Goes(r, "storeRefresh", e)
    /\ UNCHANGED <<profile, healthy, row, events>>
StoreRefresh(r) ==
    LET a == run[r].acct IN
    /\ run[r].pc = "storeRefresh"
    /\ SetRow(a, [row[a] EXCEPT !.exit = run[r].exit])
    /\ healthy' = IF profile[a] = NULL THEN healthy ELSE healthy \cup {profile[a]}
    /\ status' = IF status[a] = "ISOLATION_WAIT"
                 THEN [status EXCEPT ![a] = "READY"] ELSE status
    /\ Ends(r)
    /\ UNCHANGED <<profile, events>>

\* testAccountProxy observes through the account's own user and stores what it
\* sees, without asking whether the address is taken.
TestAccountProxy(a) ==
    /\ Event /\ profile[a] \in healthy /\ ~Collides(a)
    /\ \E e \in ObserveProxy(SessionOf(a)) : SetRow(a, [row[a] EXCEPT !.exit = e])
    /\ UNCHANGED <<profile, healthy, status, run>>
\* testProxy stores what it sees for every account of the proxy.
TestProxy(p) ==
    /\ Event
    /\ \E e \in ObserveProxy(NULL) :
          row' = [a \in Accounts |->
                    IF profile[a] = p THEN [row[a] EXCEPT !.exit = e] ELSE row[a]]
    /\ healthy' = healthy \cup {p}
    /\ UNCHANGED <<profile, status, run>>

\* accountPreflight: READY only if a Runtime can be had and everything else holds.
AccountPreflight(a) ==
    /\ Event
    /\ \E passes \in BOOLEAN :
          SetStatus(a, IF /\ passes
                          /\ profile[a] # NULL => ~Collides(a) /\ profile[a] \in healthy
                       THEN "READY" ELSE "PREFLIGHT_FAILED")
    /\ UNCHANGED <<profile, healthy, row, run>>
\* assignProxy: a healthy proxy or none; nothing else of the account changes.
AssignProxy(a, p) ==
    /\ Event /\ p \in healthy \cup {NULL}
    /\ profile' = [profile EXCEPT ![a] = p]
    /\ UNCHANGED <<healthy, row, status, run>>
-----------------------------------------------------------------------------
(* The provider, the monitor and time. *)
SessionMoves(a, e) ==
    /\ Event /\ row[a].session \notin {NULL, e}
    /\ SetRow(a, [row[a] EXCEPT !.session = e])
    /\ run' = [r \in Runners |->
          IF run[r].acct = a /\ run[r].session = row[a].session
          THEN [run[r] EXCEPT !.session = e] ELSE run[r]]
    /\ UNCHANGED <<profile, healthy, status>>
ProxyFails(p) ==
    /\ Event /\ healthy' = healthy \ {p}
    /\ UNCHANGED <<profile, row, status, run>>
ProxyRecovers(p) ==
    /\ p \notin healthy /\ healthy' = healthy \cup {p}
    /\ UNCHANGED <<profile, row, status, run, events>>
\* Five minutes have passed since rotation_started_at.
WindowPasses(a) ==
    /\ row[a].rotation = "open"
    /\ SetRow(a, [row[a] EXCEPT !.rotation = "over"])
    /\ run' = [r \in Runners |->
          IF run[r].acct = a /\ run[r].started = "open"
          THEN [run[r] EXCEPT !.started = "over"] ELSE run[r]]
    /\ UNCHANGED <<profile, healthy, status, events>>
-----------------------------------------------------------------------------
BeginRun(r, a) == BeginCollides(r, a) \/ BeginGeneric(r, a) \/ BeginSticky(r, a)
RunStep(r) ==
    \/ ProbeGeneric(r) \/ StoreGeneric(r) \/ ProbeHealthy(r) \/ ProbeFails(r)
    \/ PreferredFails(r) \/ (\E e \in ObserveStickyGeo : Prefer(r, e))
    \/ RotateFails(r) \/ (\E e \in ObserveStickyGeo : Rotate(r, e))
    \/ StoreRotated(r) \/ MarkReady(r) \/ ProbeRefresh(r) \/ StoreRefresh(r)

IdentityNext ==
    \/ \E r \in Runners, a \in Accounts : BeginRun(r, a) \/ BeginRefresh(r, a)
    \/ \E r \in Runners : RunStep(r) \/ Abandon(r)
    \/ \E a \in Accounts :
          \/ TestAccountProxy(a) \/ AccountPreflight(a) \/ WindowPasses(a)
          \/ \E p \in Proxies \cup {NULL} : AssignProxy(a, p)
          \/ \E e \in Exits : SessionMoves(a, e)
    \/ \E p \in Proxies : TestProxy(p) \/ ProxyFails(p) \/ ProxyRecovers(p)

IdentitySpec == IdentityInit /\ [][IdentityNext]_identityVars

\* The keeper comes to every account again and again; probes end; a rotation, or a
\* way back to the preferred country, that can succeed and is tried again and again
\* succeeds in the end.
IdentityFairness ==
    /\ \A r \in Runners : WF_identityVars(RunStep(r))
    /\ \A a \in Accounts :
          /\ SF_identityVars(\E r \in Runners : BeginRun(r, a))
          /\ SF_identityVars(\E r \in Runners, e \in Exits :
                                run[r].acct = a /\ Rotate(r, e))
          /\ WF_identityVars(WindowPasses(a))
    /\ \A a \in Targeted :
          SF_identityVars(\E r \in Runners, e \in Exits :
                             run[r].acct = a /\ Prefer(r, e))
    /\ \A p \in Proxies : WF_identityVars(ProxyRecovers(p))
IdentityFairSpec == IdentitySpec /\ IdentityFairness
-----------------------------------------------------------------------------
(***************************************************************************)
(* Properties.                                                             *)
(***************************************************************************)
\* A maintenance run that leaves an account on an exit outside its preferred country
\* records that as a fallback, whatever the other runs, the operator and the provider
\* did to the account since the run read it: only a recorded fallback is looked at
\* again, a foreign address that is not recorded would be kept as long as it answers.
FallbackIsRecorded ==
    [][\A r \in Runners :
          LET a == run[r].acct IN
          /\ run[r].pc # "ready" /\ run'[r].pc = "ready"
          /\ a \in Targeted /\ row'[a].exit \notin Preferred
          => row'[a].fallback]_identityVars

\* An account whose fallback address answers does not stay with it while there is a
\* preferred address it could have ("probe the preferred country in the background
\* every keeper cycle", sticky_proxy.go), however its runs overlap.
FallbackIsTemporary ==
    \A a \in Targeted :
        /\ []<><<\E r \in Runners : run[r].acct = a /\ ProbeHealthy(r)>>_identityVars
        /\ <>[](\E e \in Preferred : ~Taken(a, e))
        => []<>~row[a].fallback

\* An account that stays with a generic proxy ends up without sticky, fallback and
\* rotation state, whatever it had before and whatever runs were under way.
GenericStateIsCleared ==
    \A a \in Accounts :
        <>[](profile[a] # NULL /\ ~Sticky(a)) => <>[]~HasStickyState(a)

\* An account that lost its address gets one again: its rotation ends, or the session
\* answers with the stored address again.  Unless it comes to share the stored one
\* with another account or changes its proxy for good.
RotationEnds ==
    \A a \in Accounts :
        <>[](Sticky(a) /\ ~Collides(a))
            => []<>(row[a].rotation = "none" \/ row[a].session = row[a].exit)

\* An account in ISOLATION_WAIT becomes READY again on its own.
IsolationIsTemporary ==
    \A a \in Accounts : status[a] = "ISOLATION_WAIT" ~> status[a] # "ISOLATION_WAIT"
-----------------------------------------------------------------------------
(***************************************************************************)
(* The inductive invariant behind the types and FallbackIsRecorded.        *)
(***************************************************************************)
RunInv == \A r \in Runners : \/ run[r].pc = "idle" /\ run[r].acct = NULL
                             \/ run[r].pc # "idle" /\ run[r].acct \in Accounts

\* What a run may store, by what it knows itself: nobody else keeps its account still.
Promise(r) ==
    /\ run[r].pc = "storeRotated" /\ run[r].acct \in Targeted /\ ~run[r].fallback =>
          run[r].exit \in Preferred
    /\ run[r].pc = "storePreferred" => run[r].exit \in Preferred
PromiseInv == \A r \in Runners : Promise(r)

IdentityInv == IdentityTypeOK /\ RunInv /\ PromiseInv
=============================================================================
