--------------------------- MODULE FleetScheduler ---------------------------
(***************************************************************************)
(* The scheduler (Engine.RunDue): it claims due schedules under a lease,   *)
(* prepares the account's network identity, compares the account's servers *)
(* with the desired number and the provider's capacity, and starts at most *)
(* one deployment per schedule and pass.  An account has the schedule of   *)
(* its account-auto profile and those the operator adds for others.        *)
(* Recovery, the lifecycle, the handlers and the operator change the same  *)
(* accounts meanwhile.                                                     *)
(*                                                                         *)
(* Time is a set of flags: a schedule is due, a lease or a spacing window  *)
(* is open, a snapshot is fresh.  RunDue reads the clock once, at its      *)
(* start; what a flag was then is kept in the pass.                        *)
(***************************************************************************)
EXTENDS Naturals, FiniteSets

CONSTANTS
    Accounts,
    Profiles,       \* deployment profiles; a schedule belongs to an account and one
    AutoProfile,    \* account-auto, whose schedule comes with the account
    Schedulers,     \* scheduler goroutines, one per worker process
    DesiredCounts,  \* values of accounts.desired_server_count
    Limit,          \* droplet limit of an account
    MaxFaults       \* bound on failures and on changes made by others

ASSUME SchedulerSets == Accounts # {} /\ AutoProfile \in Profiles
ASSUME SchedulersAssumption == Schedulers # {} /\ IsFiniteSet(Schedulers)
ASSUME DesiredAssumption == DesiredCounts \subseteq Nat /\ DesiredCounts # {}
ASSUME SchedulerBounds == Limit \in Nat /\ MaxFaults \in Nat

VARIABLES
    acct,       \* accounts: runtime_status (nothing clears enabled), desired_server_count
    schedule,   \* schedules: its row exists, enabled, next_run_at reached, lease_until ahead
    closed,     \* accounts whose next_build_at lies ahead
    left,       \* left[i]: the deployment that the i-th fault left without its runner
    rows,       \* per account: droplet rows that are not DELETED
    stray,      \* per account: droplets that no deployment or row knows
    snap,       \* provider_snapshots: droplets counted, fresh
    pass,       \* pass[s]: the execution of RunDue
    overrun,    \* schedules whose lease expired under a working scheduler (history)
    excess,     \* what may exceed the desired number, see OvershootIsBounded (history)
    faults

schedulerVars == <<acct, schedule, closed, left, rows, stray, snap, pass, overrun,
                   excess, faults>>
fleet == <<left, rows, stray>>
history == <<overrun, excess>>

Schedules == Accounts \X Profiles
Account == [status : {"READY", "ISOLATION_WAIT"}, desired : DesiredCounts]
Schedule == [present : BOOLEAN, enabled : BOOLEAN, due : BOOLEAN, leased : BOOLEAN]
\* The phases of a deployment: bare before its configuration is attached, ready
\* until its create operation is reserved, asking while that is being carried out,
\* open when nobody is left to learn its outcome, refused when it failed, made with
\* a droplet, mid with provider_id stored.  With the droplet row it counts as a row.
Phases == {"bare", "ready", "asking", "open", "refused", "made", "mid"}
Slots == 1..MaxFaults
Left == [phase : Phases \cup {"none"}, of : Schedules]
PassPcs == {"idle", "items", "evaluate", "start", "ready", "asking", "made", "mid",
            "row", "complete"}
\* fresh, closed: the flags of the accounts as of the pass's clock, as long as the
\* pass has a decision to make.
Pass == [pc : PassPcs, todo : SUBSET Schedules, cur : Schedules,
         fresh : SUBSET Accounts, closed : SUBSET Accounts]

SchedulerTypeOK ==
    /\ acct \in [Accounts -> Account]
    /\ schedule \in [Schedules -> Schedule]
    /\ closed \in SUBSET Accounts
    /\ left \in [Slots -> Left]
    /\ rows \in [Accounts -> Nat] /\ stray \in [Accounts -> Nat]
    /\ snap \in [Accounts -> [count : Nat, fresh : BOOLEAN]]
    /\ pass \in [Schedulers -> Pass]
    /\ overrun \in SUBSET Schedules
    /\ excess \in [Accounts -> [peak : Nat, lost : Nat]]
    /\ faults \in 0..MaxFaults

Nobody == <<CHOOSE a \in Accounts : TRUE, AutoProfile>>
IdlePass == [pc |-> "idle", todo |-> {}, cur |-> Nobody, fresh |-> {}, closed |-> {}]

SchedulerInit ==
    /\ acct \in [Accounts -> [status : {"READY"}, desired : DesiredCounts]]
    /\ schedule = [x \in Schedules |->
          [present |-> x[2] = AutoProfile, enabled |-> x[2] = AutoProfile,
           due |-> FALSE, leased |-> FALSE]]
    /\ closed = {}
    /\ left = [i \in Slots |-> [phase |-> "none", of |-> Nobody]]
    /\ rows = [a \in Accounts |-> 0] /\ stray = [a \in Accounts |-> 0]
    /\ snap = [a \in Accounts |-> [count |-> 0, fresh |-> TRUE]]
    /\ pass = [s \in Schedulers |-> IdlePass]
    /\ overrun = {}
    /\ excess = [a \in Accounts |-> [peak |-> acct[a].desired, lost |-> 0]]
    /\ faults = 0
-----------------------------------------------------------------------------
Fault == faults < MaxFaults /\ faults' = faults + 1
NoFault == UNCHANGED faults
Goto(s, pc) == pass' = [pass EXCEPT ![s].pc = pc]

\* The schedulers that hold a schedule; its account; those that run a deployment
\* of account a in one of the phases.
Working(s) == pass[s].pc \notin {"idle", "items"}
Holders(x) == {s \in Schedulers : x \in pass[s].todo \/ (Working(s) /\ pass[s].cur = x)}
Undecided == {s \in Schedulers : pass[s].todo # {} \/ pass[s].pc = "evaluate"}
Cur(s) == pass[s].cur[1]
Running(a, phases) == {s \in Schedulers : pass[s].pc \in phases /\ Cur(s) = a}
Waiting(a, phases) == {i \in Slots : left[i].phase \in phases /\ left[i].of[1] = a}
Deployments(a, phases) ==
    Cardinality(Waiting(a, phases)) + Cardinality(Running(a, phases))

\* The counts of the queries: deployments of the schedule's own profile without a
\* provider id; create operations of the account whose outcome is open.
PreCreate(x) ==
    LET phases == Phases \ {"mid"} IN
      Cardinality({i \in Waiting(x[1], phases) : left[i].of = x})
    + Cardinality({s \in Running(x[1], phases) : pass[s].cur = x})
PendingCreates(a) == Deployments(a, {"asking", "open"})
\* What there really is: every deployment in progress and every droplet row; and
\* the droplets at the provider.
Servers(a) == rows[a] + Deployments(a, Phases)
Cloud(a) == rows[a] + stray[a] + Deployments(a, {"made", "mid"})

\* Mutant of ClaimDue: the lease is not looked at.
ClaimDueUnleased(s) ==
    LET items == {x \in Schedules : schedule[x].enabled /\ schedule[x].due} IN
    /\ pass[s].pc = "idle" /\ items # {}
    /\ schedule' = [x \in Schedules |->
          IF x \in items THEN [schedule[x] EXCEPT !.leased = TRUE] ELSE schedule[x]]
    /\ pass' = [pass EXCEPT ![s] = [@ EXCEPT !.pc = "items", !.todo = items,
                   !.fresh = {a \in Accounts : snap[a].fresh}, !.closed = closed]]
    /\ UNCHANGED <<acct, closed, fleet, snap, history, faults>>

\* ClaimDue: one transaction that selects and leases the due schedules.
ClaimDue(s) ==
    LET items == {x \in Schedules : schedule[x].enabled /\ schedule[x].due
                                                       /\ ~schedule[x].leased} IN
    /\ pass[s].pc = "idle" /\ items # {}
    /\ schedule' = [x \in Schedules |->
          IF x \in items THEN [schedule[x] EXCEPT !.leased = TRUE] ELSE schedule[x]]
    /\ pass' = [pass EXCEPT ![s] = [@ EXCEPT !.pc = "items", !.todo = items,
                   !.fresh = {a \in Accounts : snap[a].fresh}, !.closed = closed]]
    /\ UNCHANGED <<acct, closed, fleet, snap, history, faults>>

\* MaintainStickyIdentity stores READY or ISOLATION_WAIT, or leaves the status
\* alone (module NetworkIdentity).
Maintain(a) == \E st \in {acct[a].status, "READY", "ISOLATION_WAIT"} :
                  acct' = [acct EXCEPT ![a].status = st]

\* PrepareScheduledAccount, whatever its error.
Prepare(s, x) ==
    /\ pass[s].pc = "items" /\ x \in pass[s].todo
    /\ pass' = [pass EXCEPT ![s] = [@ EXCEPT !.pc = "evaluate",
                                       !.todo = pass[s].todo \ {x}, !.cur = x]]
    /\ Maintain(x[1])
    /\ UNCHANGED <<schedule, closed, fleet, snap, history, faults>>

\* Mutant of Needed: one server more than desired.
NeededInclusive(x, pre) == rows[x[1]] + pre <= acct[x[1]].desired

\* Mutant of Needed: one server fewer than desired.
NeededStrict(x, pre) == rows[x[1]] + pre + 1 < acct[x[1]].desired

\* needed and available, from a number of deployments without a provider id.
Needed(x, pre) == rows[x[1]] + pre < acct[x[1]].desired
Available(a) == snap[a].count + PendingCreates(a) < Limit
MayBuild(s, x, pre) ==
    /\ acct[x[1]].status = "READY"
    /\ x[1] \in pass[s].fresh
    /\ Needed(x, pre)
    /\ x[1] \notin pass[s].closed
    /\ Available(x[1])

Decide(s, pc) ==
    pass' = [pass EXCEPT ![s] = IF @.todo = {} THEN [@ EXCEPT !.pc = pc, !.fresh = {}, !.closed = {}]
                                               ELSE [@ EXCEPT !.pc = pc]]
\* The decision.  A query that fails ends the item, except for the count of
\* deployments without a provider id, which then is 0.
Evaluate(s) ==
    LET x == pass[s].cur IN
    /\ pass[s].pc = "evaluate"
    /\ \/ Decide(s, IF MayBuild(s, x, PreCreate(x)) THEN "start" ELSE "complete") /\ NoFault
       \/ MayBuild(s, x, 0) /\ Decide(s, "start") /\ Fault
       \/ Decide(s, "complete") /\ Fault
    /\ UNCHANGED <<acct, schedule, closed, fleet, snap, history>>
-----------------------------------------------------------------------------
(* StartDeployment, as far as the counts tell its steps apart. *)
Start(s) ==
    /\ pass[s].pc = "start"
    /\ Maintain(Cur(s))
    /\ Goto(s, "ready")
    /\ UNCHANGED <<schedule, closed, fleet, snap, history, faults>>
\* The network identity is not available, the profile is disabled, or the insert
\* fails: no deployment.
StartRefused(s) ==
    /\ pass[s].pc = "start" /\ Fault
    /\ Maintain(Cur(s))
    /\ Goto(s, "complete")
    /\ UNCHANGED <<schedule, closed, fleet, snap, history>>
\* The operation is reserved, DigitalOcean makes the droplet, its id is stored.
Advance(s) ==
    /\ pass[s].pc \in {"ready", "asking", "made"}
    /\ Goto(s, CASE pass[s].pc = "ready" -> "asking"
                 [] pass[s].pc = "asking" -> "made"
                 [] pass[s].pc = "made" -> "mid")
    /\ UNCHANGED <<acct, schedule, closed, fleet, snap, history, faults>>
WaitResource(s) ==
    /\ pass[s].pc = "mid"
    /\ rows' = [rows EXCEPT ![Cur(s)] = @ + 1]
    /\ Goto(s, "row")
    /\ UNCHANGED <<acct, schedule, closed, left, stray, snap, history, faults>>

\* Only a deployment that ends READY closes the spacing window, counted from the
\* clock of its pass: it may have passed already, and for another pass too.
StartSucceeds(s) ==
    LET a == Cur(s) IN
    /\ pass[s].pc = "row"
    /\ closed' \in {closed \cup {a}, closed \ {a}}
    /\ \E T \in SUBSET Undecided :
          pass' = [t \in Schedulers |->
             [pass[t] EXCEPT !.pc = IF t = s THEN "complete" ELSE @,
                             !.closed = IF t \in Undecided \cap (T \cup {s}) THEN @ \cup {a}
                                                                         ELSE @ \ {a}]]
    /\ UNCHANGED <<acct, schedule, fleet, snap, history, faults>>

\* A deployment of schedule x loses its runner in the phase it has reached.
Lose(x, phase) ==
    /\ left' = [left EXCEPT ![faults'] = [phase |-> phase, of |-> x]]
    /\ excess' = [excess EXCEPT ![x[1]].lost = @ + 1]
\* The phases in which a running deployment may be found afterwards; DigitalOcean
\* may have made the droplet of an operation that stays open.
Remains(pc) == CASE pc = "ready" -> {"bare", "ready"}
                 [] pc = "asking" -> {"open"}
                 [] pc \in {"made", "mid"} -> {pc}
                 [] OTHER -> {}
MaybeStray(a, phase) ==
    stray' \in {stray} \cup IF phase = "open" THEN {[stray EXCEPT ![a] = @ + 1]} ELSE {}
Abandon(s) ==
    IF Remains(pass[s].pc) = {} THEN UNCHANGED <<left, stray, excess>>
    ELSE \E phase \in Remains(pass[s].pc) :
            Lose(pass[s].cur, phase) /\ MaybeStray(Cur(s), phase)

\* An error leaves the deployment to recovery.
StartFails(s) ==
    /\ pass[s].pc \in {"ready", "asking", "made", "mid", "row"} /\ Fault
    /\ Abandon(s)
    /\ Goto(s, "complete")
    /\ UNCHANGED <<acct, schedule, closed, rows, snap, overrun>>
\* DigitalOcean refuses the droplet.
CreateRefused(s) ==
    /\ pass[s].pc = "asking" /\ Fault
    /\ Lose(pass[s].cur, "refused")
    /\ Goto(s, "complete")
    /\ UNCHANGED <<acct, schedule, closed, rows, stray, snap, overrun>>
-----------------------------------------------------------------------------
\* A schedule is only marked as overrun as long as somebody works on it.
Release(s, X) == overrun' = {x \in overrun : x \notin X \/ Holders(x) # {s}}

\* LeaseStore.Complete: whoever holds the lease now, it is cleared; next_run_at
\* counts from the clock of the pass and may be reached already.
Complete(s) ==
    /\ pass[s].pc = "complete"
    /\ \/ /\ \E due \in BOOLEAN :
                schedule' = [schedule EXCEPT ![pass[s].cur] =
                                [@ EXCEPT !.due = due, !.leased = FALSE]]
          /\ NoFault
       \/ UNCHANGED schedule /\ Fault
    /\ pass' = [pass EXCEPT ![s] = IF @.todo = {} THEN IdlePass ELSE [@ EXCEPT !.pc = "items"]]
    /\ Release(s, {pass[s].cur})
    /\ UNCHANGED <<acct, closed, fleet, snap, excess>>

Restart(s) ==
    /\ pass[s].pc # "idle" /\ Fault
    /\ Abandon(s)
    /\ pass' = [pass EXCEPT ![s] = IdlePass]
    /\ Release(s, Schedules)
    /\ UNCHANGED <<acct, schedule, closed, rows, snap>>
-----------------------------------------------------------------------------
(* Time. *)
BecomesDue(x) ==
    /\ schedule[x].present /\ ~schedule[x].due
    /\ schedule' = [schedule EXCEPT ![x].due = TRUE]
    /\ UNCHANGED <<acct, closed, fleet, snap, pass, history, faults>>
LeaseExpires(x) ==
    /\ schedule[x].leased
    /\ schedule' = [schedule EXCEPT ![x].leased = FALSE]
    /\ overrun' = IF Holders(x) # {} THEN overrun \cup {x} ELSE overrun
    /\ UNCHANGED <<acct, closed, fleet, snap, pass, excess, faults>>
WindowOpens(a) ==
    /\ a \in closed
    /\ closed' = closed \ {a}
    /\ UNCHANGED <<acct, schedule, fleet, snap, pass, history, faults>>
\* No refresh succeeded for two minutes.
SnapshotAges(a) ==
    /\ snap[a].fresh /\ Fault
    /\ snap' = [snap EXCEPT ![a].fresh = FALSE]
    /\ UNCHANGED <<acct, schedule, closed, fleet, pass, history>>
\* A new snapshot is fresh for the passes under way as well.
RefreshSnapshot(a) ==
    /\ snap' = [snap EXCEPT ![a] = [count |-> Cloud(a), fresh |-> TRUE]]
    /\ pass' = [s \in Schedulers |->
          IF s \in Undecided THEN [pass[s] EXCEPT !.fresh = @ \cup {a}] ELSE pass[s]]
    /\ UNCHANGED <<acct, schedule, closed, fleet, history, faults>>
-----------------------------------------------------------------------------
(* The other users of the account: recovery, lifecycle, handlers, operator. *)
SetPhase(i, phase) == left' = [left EXCEPT ![i].phase = phase]

\* Recovery, or the starter of a deployment that is not a scheduler, goes on with
\* it.  One without a configuration or with an open operation stays as it is.
RecoveryReserves(i) ==
    /\ left[i].phase = "ready"
    /\ SetPhase(i, "asking")
    /\ UNCHANGED <<acct, schedule, closed, rows, stray, snap, pass, history, faults>>
RecoveryCreates(i) ==
    /\ left[i].phase = "asking"
    /\ SetPhase(i, "made")
    /\ UNCHANGED <<acct, schedule, closed, rows, stray, snap, pass, history, faults>>
RecoveryFails(i) ==
    /\ left[i].phase = "asking"
    /\ \E phase \in {"open", "refused"} :
          SetPhase(i, phase) /\ MaybeStray(left[i].of[1], phase)
    /\ UNCHANGED <<acct, schedule, closed, rows, snap, pass, history, faults>>
RecoveryLinks(i) ==
    /\ left[i].phase = "made"
    /\ SetPhase(i, "mid")
    /\ UNCHANGED <<acct, schedule, closed, rows, stray, snap, pass, history, faults>>
RecoveryStores(i) ==
    /\ left[i].phase = "mid"
    /\ SetPhase(i, "none")
    /\ rows' = [rows EXCEPT ![left[i].of[1]] = @ + 1]
    /\ UNCHANGED <<acct, schedule, closed, stray, snap, pass, history, faults>>
RecoveryFreezes(i) ==
    /\ left[i].phase = "refused"
    /\ SetPhase(i, "none")
    /\ UNCHANGED <<acct, schedule, closed, rows, stray, snap, pass, history, faults>>

\* ProcessLifecycle or createDeployment starts a deployment of any profile: neither
\* looks at the desired number.
OtherStart(x) ==
    /\ Fault
    /\ \E phase \in {"bare", "ready"} : Lose(x, phase)
    /\ UNCHANGED <<acct, schedule, closed, rows, stray, snap, pass, overrun>>

\* Nothing of account a is in progress.
Quiet(a) == Running(a, PassPcs \ {"idle", "items"}) = {} /\ Waiting(a, Phases) = {}

\* Mutant of RowDeleted: the row of a droplet is confirmed as deleted a second time.
RowDeletedAgain(a) ==
    /\ rows' = [rows EXCEPT ![a] = @ - 1]
    /\ IF rows[a] > acct[a].desired THEN NoFault ELSE Fault
    /\ UNCHANGED <<acct, schedule, closed, left, stray, snap, pass, history>>

\* ConfirmDeleted.  Rotation deletes a droplet behind its replacement; any other
\* deletion that leaves too few is a fault.  When it leaves the account quiet and
\* with no more than it should have, its excess is counted anew.
RowDeleted(a) ==
    /\ rows[a] > 0
    /\ rows' = [rows EXCEPT ![a] = @ - 1]
    /\ IF rows[a] > acct[a].desired THEN NoFault ELSE Fault
    /\ excess' = IF Quiet(a) /\ rows[a] <= acct[a].desired + 1
                 THEN [excess EXCEPT ![a] = [peak |-> acct[a].desired, lost |-> 0]]
                 ELSE excess
    /\ UNCHANGED <<acct, schedule, closed, left, stray, snap, pass, overrun>>

Larger(m, n) == IF m > n THEN m ELSE n
\* updateAccount: next_build_at becomes NULL; syncAccountAutomationTx enables the
\* account-auto schedule and, for another interval, sets next_run_at ahead.
UpdateAccount(a) ==
    /\ Fault
    /\ \E n \in DesiredCounts :
          /\ acct' = [acct EXCEPT ![a].desired = n]
          /\ excess' = [excess EXCEPT ![a].peak = Larger(@, n)]
    /\ closed' = closed \ {a}
    /\ \E due \in {schedule[<<a, AutoProfile>>].due, FALSE} :
          schedule' = [schedule EXCEPT ![<<a, AutoProfile>>] =
                          [@ EXCEPT !.present = TRUE, !.enabled = TRUE, !.due = due]]
    /\ pass' = [s \in Schedulers |-> [pass[s] EXCEPT !.closed = @ \ {a}]]
    /\ UNCHANGED <<fleet, snap, overrun>>
\* upsertSchedule inserts a schedule that is due at once, or changes the row of one,
\* but never its lease or next_run_at.
UpsertSchedule(x) ==
    /\ Fault
    /\ \E e \in BOOLEAN :
          schedule' = [schedule EXCEPT ![x] = [@ EXCEPT !.present = TRUE, !.enabled = e,
                                                        !.due = schedule[x].due \/ ~schedule[x].present]]
    /\ UNCHANGED <<acct, closed, fleet, snap, pass, history>>
-----------------------------------------------------------------------------
SchedulerStep(s) ==
    \/ ClaimDue(s) \/ (\E x \in pass[s].todo : Prepare(s, x)) \/ Evaluate(s)
    \/ Start(s) \/ StartRefused(s) \/ Advance(s) \/ WaitResource(s)
    \/ StartSucceeds(s) \/ StartFails(s) \/ CreateRefused(s) \/ Complete(s)
RecoveryStep(i) ==
    \/ RecoveryReserves(i) \/ RecoveryCreates(i) \/ RecoveryLinks(i)
    \/ RecoveryStores(i) \/ RecoveryFreezes(i)

SchedulerNext ==
    \/ \E s \in Schedulers : SchedulerStep(s) \/ Restart(s)
    \/ \E x \in Schedules : \/ BecomesDue(x) \/ LeaseExpires(x)
                            \/ OtherStart(x) \/ UpsertSchedule(x)
    \/ \E i \in Slots : RecoveryStep(i) \/ RecoveryFails(i)
    \/ \E a \in Accounts : \/ WindowOpens(a) \/ SnapshotAges(a) \/ RefreshSnapshot(a)
                           \/ RowDeleted(a) \/ UpdateAccount(a)

SchedulerSpec == SchedulerInit /\ [][SchedulerNext]_schedulerVars

\* The scheduler's ticker, the recovery and the refresh loop never stop; time
\* passes.
SchedulerFairness ==
    /\ \A s \in Schedulers : WF_schedulerVars(SchedulerStep(s))
    /\ \A i \in Slots : WF_schedulerVars(RecoveryStep(i))
    /\ \A x \in Schedules : WF_schedulerVars(BecomesDue(x)) /\ WF_schedulerVars(LeaseExpires(x))
    /\ \A a \in Accounts : WF_schedulerVars(WindowOpens(a)) /\ WF_schedulerVars(RefreshSnapshot(a))
SchedulerFairSpec == SchedulerSpec /\ SchedulerFairness
-----------------------------------------------------------------------------
(***************************************************************************)
(* Properties.                                                             *)
(***************************************************************************)
\* Unless the lease of a schedule ran out under one of those who work on it, only
\* one scheduler works on it.
LeaseExcludes == \A x \in Schedules \ overrun : Cardinality(Holders(x)) <= 1

\* Whatever leases run out and whatever queries fail, an account never has more
\* servers than were ever desired, plus one for every deployment that lost its
\* runner or was started by somebody else, plus one for every other scheduler
\* process.  All three count from the last time the account was quiet and had no
\* more servers than desired: with the one scheduler of a worker process a failed
\* start costs one server, however often its schedule comes round.
OvershootIsBounded ==
    \A a \in Accounts :
        Servers(a) + 1 <= excess[a].peak + excess[a].lost + Cardinality(Schedulers)

\* A deployment that stays for ever what it is: nothing attaches a configuration to
\* it or learns the outcome of its create operation.
Stuck(a) == Waiting(a, {"bare", "open"})
\* However many starts fail, leases run out and processes die, an account that ends
\* up READY, with a schedule enabled, nothing stuck and a limit that suffices, has as many
\* droplet rows as are desired again and again.
DesiredIsReached ==
    \A a \in Accounts :
        <>[](/\ acct[a].status = "READY" /\ Stuck(a) = {} /\ acct[a].desired <= Limit
             /\ \E p \in Profiles : schedule[<<a, p>>].enabled) =>
            []<>(rows[a] >= acct[a].desired)
-----------------------------------------------------------------------------
(***************************************************************************)
(* The inductive invariant behind LeaseExcludes and OvershootIsBounded.    *)
(***************************************************************************)
\* A pass that is not under way holds nothing, and never the same schedule twice.
TodoInv ==
    \A s \in Schedulers : /\ pass[s].pc = "idle" => pass[s].todo = {}
                          /\ Working(s) => pass[s].cur \notin pass[s].todo

\* A schedule in work whose lease never ran out is leased, and has one holder.
LeaseInv ==
    \A x \in Schedules \ overrun : \A s \in Holders(x) :
        schedule[x].leased /\ \A t \in Holders(x) : s = t

\* A fault finds its slot free.
SlotInv == \A i \in Slots : left[i].phase # "none" => i <= faults

\* A deployment counts from the decision for it, before it exists.  Those without a
\* runner are paid for; the others have a scheduler each, and the one that decided
\* last saw every row.
BuildPcs == {"start", "ready", "asking", "made", "mid"}
Load(a) == rows[a] + Cardinality(Waiting(a, Phases)) + Cardinality(Running(a, BuildPcs))
LoadInv ==
    \A a \in Accounts :
        /\ acct[a].desired <= excess[a].peak
        /\ Cardinality(Waiting(a, Phases)) <= excess[a].lost
        /\ Load(a) + 1 <= excess[a].peak + excess[a].lost + Cardinality(Schedulers)

SchedulerInv == SchedulerTypeOK /\ TodoInv /\ LeaseInv /\ SlotInv /\ LoadInv
=============================================================================
