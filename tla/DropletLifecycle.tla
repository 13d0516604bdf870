-------------------------- MODULE DropletLifecycle --------------------------
(***************************************************************************)
(* The life of the droplets of one account after they were created: the    *)
(* worker's loop (Worker.Once) recovers delete operations, moves due rows  *)
(* of the droplets table through READY, EXPIRING, RETIRING, DELETING, and  *)
(* starts the deployment that replaces a droplet before it is deleted.     *)
(* Beside it the refresh loop takes provider snapshots and restores owned  *)
(* orphans, and the scheduler starts deployments of its own.               *)
(*                                                                         *)
(* Droplets are numbered in the order in which their deployments start;    *)
(* droplet n, its row and its deployment n belong together, which is what  *)
(* DropletLedger shows of a deployment.  0 is the NULL of                  *)
(* replacement_deployment_id.                                              *)
(***************************************************************************)
EXTENDS Naturals, FiniteSets

CONSTANTS
    MaxDroplets,    \* bound on the deployments ever started
    Initial,        \* droplets 1..Initial are in service at the beginning
    Limit,          \* the droplet limit of the account
    MaxFaults       \* bound on crashes, failed calls, lost answers, reverts

ASSUME DropletBounds == MaxDroplets \in Nat /\ Initial \in 0..MaxDroplets
ASSUME LimitAssumption == Limit \in Nat
ASSUME FaultBound == MaxFaults \in Nat

VARIABLES
    row,        \* droplets.state; "none" before the row is inserted
    repl,       \* droplets.replacement_deployment_id
    dep,        \* deployments.state, as far as the lifecycle reads it
    op,         \* the operation with the key lifecycle-delete:<row id>
    due,        \* the rows whose expires_at has come within the lead time
    legacy,     \* the rows that are older than the column profile_id
    live,       \* the droplets that exist at DigitalOcean
    flight,     \* delete requests with a lost answer, not yet processed
    sent,       \* sent[d]: delete requests made for d (history)
    accepted,   \* droplets whose delete DigitalOcean acknowledged (history)
    snap,       \* the latest provider snapshot and its age
    listing,    \* the refresh loop: what Discover has read, not yet stored
    status,     \* accounts.runtime_status
    w,          \* the worker goroutine
    faults

lifecycleVars == <<row, repl, dep, op, due, legacy, live, flight, sent, accepted,
                   snap, listing, status, w, faults>>
tables == <<row, repl, dep, op>>
provider == <<live, flight, sent, accepted>>
refresh == <<snap, listing>>

Ids == 1..MaxDroplets
RowStates == {"none", "READY", "EXPIRING", "RETIRING", "DELETING", "DELETED"}
\* PLANNED: no create operation yet.  CREATING: one that is planned, running or
\* verifying, without a resource id; UNKNOWN, REJECTED: its outcome.  CREATED: the
\* provider id is known, and the workflow runs.
DepStates == {"none", "PLANNED", "CREATING", "UNKNOWN", "REJECTED", "CREATED",
              "READY", "FAILED"}
DeleteStates == {"absent", "planned", "running", "verifying", "unknown", "succeeded"}
DeleteOp == [state : DeleteStates, res : BOOLEAN]
\* At most 90 seconds old: not refreshed.  At most two minutes: used as evidence.
Ages == {"new", "usable", "stale"}
WorkerPcs == {"idle", "ops", "opwrite", "confirm", "life", "start", "deploying",
              "saverepl", "process", "egress1", "call", "unsure", "egress2",
              "move", "deps"}
\* todo: the rows of the list being worked through; cur: the one in work, with
\* its state and replacement as Due returned them; verdict: of RecoverOperation.
Worker == [pc : WorkerPcs, todo : SUBSET Ids, cur : Ids \cup {0},
           state : [Ids -> RowStates], repl : [Ids -> Ids \cup {0}],
           new : Ids \cup {0}, verdict : {"unknown", "succeeded"}]

LifecycleTypeOK ==
    /\ row \in [Ids -> RowStates] /\ repl \in [Ids -> Ids \cup {0}]
    /\ dep \in [Ids -> DepStates] /\ op \in [Ids -> DeleteOp]
    /\ due \in SUBSET Ids /\ legacy \in SUBSET Ids
    /\ live \in SUBSET Ids /\ flight \in SUBSET Ids
    /\ sent \in [Ids -> Nat] /\ accepted \in SUBSET Ids
    /\ snap \in [ids : SUBSET Ids, age : Ages]
    /\ listing \in [pc : {"idle", "listed"}, ids : SUBSET Ids]
    /\ status \in {"READY", "ROTATION_BLOCKED_CAPACITY"}
    /\ w \in Worker
    /\ faults \in Nat

Idle == [pc |-> "idle", todo |-> {}, cur |-> 0, state |-> [d \in Ids |-> "none"],
         repl |-> [d \in Ids |-> 0], new |-> 0, verdict |-> "unknown"]

\* The droplets in service at the start; the deployment of one of them may have
\* been frozen after its row was inserted.
LifecycleInit ==
    /\ row = [d \in Ids |-> IF d <= Initial THEN "READY" ELSE "none"]
    /\ repl = [d \in Ids |-> 0]
    /\ dep \in {f \in [Ids -> {"none", "READY", "FAILED"}] :
                   \A d \in Ids : f[d] = "none" <=> d > Initial}
    /\ op = [d \in Ids |-> [state |-> "absent", res |-> FALSE]]
    /\ due = {} /\ legacy \in SUBSET (1..Initial)
    /\ live = 1..Initial /\ flight = {} /\ accepted = {}
    /\ sent = [d \in Ids |-> 0]
    /\ snap = [ids |-> {}, age |-> "stale"]
    /\ listing = [pc |-> "idle", ids |-> {}]
    /\ status = "READY"
    /\ w = Idle
    /\ faults = 0
-----------------------------------------------------------------------------
Fault == faults < MaxFaults /\ faults' = faults + 1
NoFault == UNCHANGED faults

\* The worker goes to pc; or drops the item in work and takes the next one.
Goto(pc) == w' = [w EXCEPT !.pc = pc]
NextItem == w' = [w EXCEPT !.pc = "life", !.cur = 0, !.new = 0,
                           !.state[w.cur] = "none", !.repl[w.cur] = 0]
NextOp == w' = [w EXCEPT !.pc = "ops", !.cur = 0, !.verdict = "unknown"]

\* LifecycleStore.Transition: a compare-and-set on droplets.state.
Transition(d, from, to) ==
    row' = IF row[d] = from THEN [row EXCEPT ![d] = to] ELSE row
\* SQLStore.Update of the delete operation of the item in work.
WriteDelete(state, res) == op' = [op EXCEPT ![w.cur] = [state |-> state, res |-> res]]
\* An update whose error is discarded.
WriteDeleteOrLose(state, res) ==
    \/ WriteDelete(state, res) /\ NoFault
    \/ UNCHANGED op /\ Fault
-----------------------------------------------------------------------------
(* Worker.Once, first part: Store.Operations and RecoverOperation. *)
ListOperations ==
    /\ w.pc = "idle"
    /\ w' = [w EXCEPT !.pc = "ops",
                      !.todo = {d \in Ids : op[d].state \in {"running", "verifying", "unknown"}}]
    /\ UNCHANGED <<tables, due, legacy, provider, refresh, status, faults>>

\* Whether droplet d exists: a snapshot that is fresh enough, else the provider.
Exists(d) == IF snap.age # "stale" THEN d \in snap.ids ELSE d \in live

\* Mutant of RecoverDelete: a droplet that still exists is a failed delete.
RecoverDeleteFails(d) ==
    /\ w.pc = "ops" /\ d \in w.todo
    /\ w' = [w EXCEPT !.pc = "opwrite", !.todo = @ \ {d}, !.cur = d,
                      !.verdict = IF Exists(d) THEN "failed" ELSE "succeeded"]
    /\ UNCHANGED <<tables, due, legacy, provider, refresh, status, faults>>

\* RecoverOperation skips an operation without a resource id; the runtime of the
\* account or the provider's answer may fail.
RecoverDelete(d) ==
    /\ w.pc = "ops" /\ d \in w.todo
    /\ \/ /\ op[d].res
          /\ w' = [w EXCEPT !.pc = "opwrite", !.todo = @ \ {d}, !.cur = d,
                            !.verdict = IF Exists(d) THEN "unknown" ELSE "succeeded"]
          /\ NoFault
       \/ ~op[d].res /\ w' = [w EXCEPT !.todo = @ \ {d}] /\ NoFault
       \/ op[d].res /\ w' = [w EXCEPT !.todo = @ \ {d}] /\ Fault
    /\ UNCHANGED <<tables, due, legacy, provider, refresh, status>>

StoreVerdict ==
    /\ w.pc = "opwrite"
    /\ \/ /\ WriteDelete(w.verdict, op[w.cur].res) /\ NoFault
          /\ IF w.verdict = "succeeded" THEN Goto("confirm") ELSE NextOp
       \/ UNCHANGED op /\ NextOp /\ Fault
    /\ UNCHANGED <<row, repl, dep, due, legacy, provider, refresh, status>>

\* ConfirmDeleted applies to a row that is DELETING, and to no other.
ConfirmDeleted ==
    /\ w.pc = "confirm"
    /\ \/ Transition(w.cur, "DELETING", "DELETED") /\ NoFault
       \/ UNCHANGED row /\ Fault
    /\ NextOp
    /\ UNCHANGED <<repl, dep, op, due, legacy, provider, refresh, status>>
-----------------------------------------------------------------------------
(* Worker.Once, second part: LifecycleWorker.Once and ProcessLifecycle. *)
DueRows == {d \in due : row[d] \in {"READY", "EXPIRING", "RETIRING", "DELETING"}}
ListDue ==
    /\ w.pc = "ops" /\ w.todo = {}
    /\ w' = [w EXCEPT !.pc = "life", !.todo = DueRows,
                      !.state = [d \in Ids |-> IF d \in DueRows THEN row[d] ELSE "none"],
                      !.repl = [d \in Ids |-> IF d \in DueRows THEN repl[d] ELSE 0]]
    /\ UNCHANGED <<tables, due, legacy, provider, refresh, status, faults>>

Take(d, pc) == w' = [w EXCEPT !.todo = @ \ {d}, !.cur = d, !.pc = pc]
Skip(d) == w' = [w EXCEPT !.todo = @ \ {d}, !.state[d] = "none", !.repl[d] = 0]

\* Create operations without a resource id whose outcome is open.
PendingCreates == Cardinality({n \in Ids : dep[n] \in {"CREATING", "UNKNOWN"}})
HasCapacity == snap.age # "stale" /\ Cardinality(snap.ids) + PendingCreates < Limit

\* An expiring row without a profile cannot be replaced and stays as it is.
CheckProfile(d) ==
    /\ w.pc = "life" /\ d \in w.todo
    /\ w.state[d] = "EXPIRING" /\ d \in legacy
    /\ Skip(d)
    /\ UNCHANGED <<tables, due, legacy, provider, refresh, status, faults>>

\* Mutant of CheckCapacity: without capacity the old droplet makes room first.
CheckCapacityRetires(d) ==
    /\ w.pc = "life" /\ d \in w.todo
    /\ w.state[d] = "EXPIRING" /\ d \notin legacy /\ w.repl[d] = 0
    /\ status' = IF HasCapacity THEN "READY" ELSE "ROTATION_BLOCKED_CAPACITY"
    /\ Take(d, IF HasCapacity THEN "start" ELSE "process")
    /\ UNCHANGED <<tables, due, legacy, provider, refresh, faults>>

\* An expiring row without a replacement: only with proven capacity is a
\* replacement started; a block is shown in the account's status.
CheckCapacity(d) ==
    /\ w.pc = "life" /\ d \in w.todo
    /\ w.state[d] = "EXPIRING" /\ d \notin legacy /\ w.repl[d] = 0
    /\ status' = IF HasCapacity THEN "READY" ELSE "ROTATION_BLOCKED_CAPACITY"
    /\ IF HasCapacity THEN Take(d, "start") ELSE Skip(d)
    /\ UNCHANGED <<tables, due, legacy, provider, refresh, faults>>

\* Every other row is processed; an expiring one when its replacement is READY.
CheckReplacement(d) ==
    /\ w.pc = "life" /\ d \in w.todo
    /\ w.state[d] = "EXPIRING" => d \notin legacy /\ w.repl[d] # 0
    /\ IF w.state[d] = "EXPIRING" /\ dep[w.repl[d]] # "READY"
       THEN Skip(d) ELSE Take(d, "process")
    /\ UNCHANGED <<tables, due, legacy, provider, refresh, status, faults>>

Born == {n \in Ids : dep[n] # "none"}
NewId == Cardinality(Born) + 1

\* StartDeployment inserts a deployment of its own and runs it to its end.
StartReplacement ==
    /\ w.pc = "start" /\ NewId \in Ids
    /\ dep' = [dep EXCEPT ![NewId] = "PLANNED"]
    /\ w' = [w EXCEPT !.pc = "deploying", !.new = NewId]
    /\ UNCHANGED <<row, repl, op, due, legacy, provider, refresh, status, faults>>
\* The bound on deployments is reached: StartDeployment fails.
StartRefused ==
    /\ w.pc = "start" /\ NewId \notin Ids
    /\ NextItem
    /\ UNCHANGED <<tables, due, legacy, provider, refresh, status, faults>>

StartReturns ==
    /\ w.pc = "deploying"
    /\ \/ dep[w.new] = "READY" /\ Goto("saverepl") /\ NoFault
       \/ /\ NextItem           \* an error: the replacement is not remembered
          /\ IF dep[w.new] \in {"UNKNOWN", "REJECTED", "FAILED"} THEN NoFault ELSE Fault
    /\ UNCHANGED <<tables, due, legacy, provider, refresh, status>>

SaveReplacement ==
    /\ w.pc = "saverepl"
    /\ \/ /\ repl' = IF repl[w.cur] = 0 THEN [repl EXCEPT ![w.cur] = w.new] ELSE repl
          /\ NoFault
       \/ UNCHANGED repl /\ Fault
    /\ NextItem
    /\ UNCHANGED <<row, dep, op, due, legacy, provider, refresh, status>>
-----------------------------------------------------------------------------
(* LifecycleEngine.Process and Executor.Delete. *)
\* The runtime of the account fails, the gate refuses or the statement fails.
ProcessBlocked ==
    /\ w.pc = "process"
    /\ NextItem /\ Fault
    /\ UNCHANGED <<tables, due, legacy, provider, refresh, status>>

ProcessReady ==
    /\ w.pc = "process" /\ w.state[w.cur] = "READY"
    /\ Transition(w.cur, "READY", "EXPIRING")
    /\ NextItem
    /\ UNCHANGED <<repl, dep, op, due, legacy, provider, refresh, status, faults>>

ProcessExpiring ==
    /\ w.pc = "process" /\ w.state[w.cur] = "EXPIRING"
    /\ Transition(w.cur, "EXPIRING", "RETIRING")
    /\ NextItem
    /\ UNCHANGED <<repl, dep, op, due, legacy, provider, refresh, status, faults>>

ProcessDeleting ==
    /\ w.pc = "process" /\ w.state[w.cur] = "DELETING"
    /\ NextItem
    /\ UNCHANGED <<tables, due, legacy, provider, refresh, status, faults>>

\* Mutant of ReserveDelete: an operation of unknown outcome is sent again.
ReserveDeleteRetries ==
    /\ w.pc = "process" /\ w.state[w.cur] = "RETIRING"
    /\ IF op[w.cur].state \in {"absent", "unknown"}
       THEN WriteDelete("planned", FALSE) /\ Goto("egress1")
       ELSE /\ UNCHANGED op
            /\ IF op[w.cur].state \in {"verifying", "succeeded"} THEN Goto("move") ELSE NextItem
    /\ UNCHANGED <<row, repl, dep, due, legacy, provider, refresh, status, faults>>

\* Mutant of ReserveDelete: any operation that is found counts as done.
ReserveDeleteTrusts ==
    /\ w.pc = "process" /\ w.state[w.cur] = "RETIRING"
    /\ IF op[w.cur].state = "absent"
       THEN WriteDelete("planned", FALSE) /\ Goto("egress1")
       ELSE UNCHANGED op /\ Goto("move")
    /\ UNCHANGED <<row, repl, dep, due, legacy, provider, refresh, status, faults>>

\* The key is made of the row id: a fresh operation goes on to the request, one
\* that exists is returned as it is and only moves the row when it succeeded.
ReserveDelete ==
    /\ w.pc = "process" /\ w.state[w.cur] = "RETIRING"
    /\ IF op[w.cur].state = "absent"
       THEN WriteDelete("planned", FALSE) /\ Goto("egress1")
       ELSE /\ UNCHANGED op
            /\ IF op[w.cur].state \in {"verifying", "succeeded"} THEN Goto("move") ELSE NextItem
    /\ UNCHANGED <<row, repl, dep, due, legacy, provider, refresh, status, faults>>

EgressBefore ==
    /\ w.pc = "egress1"
    /\ \/ WriteDelete("running", FALSE) /\ Goto("call") /\ NoFault
       \/ UNCHANGED op /\ NextItem /\ Fault                     \* the update fails
       \/ WriteDelete("unknown", FALSE) /\ NextItem /\ Fault    \* the check fails
    /\ UNCHANGED <<row, repl, dep, due, legacy, provider, refresh, status>>

DeleteAccepted ==
    /\ w.pc = "call" /\ w.cur \in live
    /\ live' = live \ {w.cur} /\ accepted' = accepted \cup {w.cur}
    /\ sent' = [sent EXCEPT ![w.cur] = @ + 1]
    /\ Goto("egress2")
    /\ UNCHANGED <<tables, due, legacy, flight, refresh, status, faults>>

\* No answer, or an error (a 404 too): the request may be processed later.
DeleteUnclear ==
    /\ w.pc = "call"
    /\ IF w.cur \in live THEN Fault ELSE NoFault
    /\ flight' \in {flight, flight \cup ({w.cur} \cap live)}
    /\ sent' = [sent EXCEPT ![w.cur] = @ + 1]
    /\ Goto("unsure")
    /\ UNCHANGED <<tables, due, legacy, live, accepted, refresh, status>>

RecordUnclear ==
    /\ w.pc = "unsure"
    /\ WriteDeleteOrLose("unknown", FALSE)
    /\ NextItem
    /\ UNCHANGED <<row, repl, dep, due, legacy, provider, refresh, status>>

\* Mutant of EgressAfter: the resource id is not stored with the operation.
EgressAfterNoResource ==
    /\ w.pc = "egress2"
    /\ \/ WriteDelete("verifying", FALSE) /\ Goto("move") /\ NoFault
       \/ UNCHANGED op /\ NextItem /\ Fault
       \/ WriteDelete("unknown", FALSE) /\ NextItem /\ Fault
    /\ UNCHANGED <<row, repl, dep, due, legacy, provider, refresh, status>>

EgressAfter ==
    /\ w.pc = "egress2"
    /\ \/ WriteDelete("verifying", TRUE) /\ Goto("move") /\ NoFault
       \/ UNCHANGED op /\ NextItem /\ Fault                     \* the update fails
       \/ WriteDelete("unknown", TRUE) /\ NextItem /\ Fault     \* the check fails
    /\ UNCHANGED <<row, repl, dep, due, legacy, provider, refresh, status>>

MoveToDeleting ==
    /\ w.pc = "move"
    /\ \/ Transition(w.cur, "RETIRING", "DELETING") /\ NoFault
       \/ UNCHANGED row /\ Fault
    /\ NextItem
    /\ UNCHANGED <<repl, dep, op, due, legacy, provider, refresh, status>>
-----------------------------------------------------------------------------
(* Worker.Once, third part, and the workflow runs of all starters. *)
ListDeployments ==
    /\ w.pc = "life" /\ w.todo = {} /\ w.cur = 0
    /\ Goto("deps")
    /\ UNCHANGED <<tables, due, legacy, provider, refresh, status, faults>>
EndOfTick ==
    /\ w.pc = "deps" /\ w' = Idle
    /\ UNCHANGED <<tables, due, legacy, provider, refresh, status, faults>>

\* RecoverDeployment freezes a deployment that failed for good.
Freeze(n) ==
    /\ w.pc = "deps" /\ dep[n] \in {"REJECTED", "CREATED"}
    /\ IF dep[n] = "REJECTED" THEN NoFault ELSE Fault
    /\ dep' = [dep EXCEPT ![n] = "FAILED"]
    /\ UNCHANGED <<row, repl, op, due, legacy, provider, refresh, status, w>>

\* The scheduler or an HTTP handler starts a deployment.
OtherStart ==
    /\ NewId \in Ids
    /\ dep' = [dep EXCEPT ![NewId] = "PLANNED"]
    /\ UNCHANGED <<row, repl, op, due, legacy, provider, refresh, status, w, faults>>
\* RuntimeSteps.Create reserves the operation; DigitalOcean makes the droplet,
\* refuses, or gives no clear answer, after which nobody looks at it again.
WorkflowReserves(n) ==
    /\ dep[n] = "PLANNED"
    /\ dep' = [dep EXCEPT ![n] = "CREATING"]
    /\ UNCHANGED <<row, repl, op, due, legacy, provider, refresh, status, w, faults>>
WorkflowFails(n) ==
    /\ dep[n] = "CREATING"
    /\ Fault
    /\ \/ dep' = [dep EXCEPT ![n] = "REJECTED"] /\ UNCHANGED live
       \/ /\ dep' = [dep EXCEPT ![n] = "UNKNOWN"]
          /\ live' \in {live, live \cup {n}}
    /\ UNCHANGED <<row, repl, op, due, legacy, flight, sent, accepted, refresh, status, w>>
WorkflowCreates(n) ==
    /\ dep[n] = "CREATING"
    /\ dep' = [dep EXCEPT ![n] = "CREATED"] /\ live' = live \cup {n}
    /\ UNCHANGED <<row, repl, op, due, legacy, flight, sent, accepted, refresh, status, w, faults>>
\* WaitResource inserts the row as READY, long before the deployment is.
WorkflowStores(n) ==
    /\ dep[n] = "CREATED" /\ row[n] = "none"
    /\ row' = [row EXCEPT ![n] = "READY"]
    /\ UNCHANGED <<repl, dep, op, due, legacy, provider, refresh, status, w, faults>>
WorkflowEnds(n) ==
    /\ dep[n] = "CREATED" /\ row[n] # "none"
    /\ dep' = [dep EXCEPT ![n] = "READY"]
    /\ UNCHANGED <<row, repl, op, due, legacy, provider, refresh, status, w, faults>>
-----------------------------------------------------------------------------
(* Time, the provider, and the refresh loop. *)
Expires(d) ==
    /\ row[d] # "none" /\ d \notin due
    /\ due' = due \cup {d}
    /\ UNCHANGED <<tables, legacy, provider, refresh, status, w, faults>>
SnapshotAges ==
    /\ snap.age # "stale"
    /\ snap' = [snap EXCEPT !.age = IF @ = "new" THEN "usable" ELSE "stale"]
    /\ UNCHANGED <<tables, due, legacy, provider, listing, status, w, faults>>

\* Discover lists the droplets of an account whose snapshot is due for refresh.
Discover ==
    /\ listing.pc = "idle" /\ snap.age # "new"
    /\ listing' = [pc |-> "listed", ids |-> live]
    /\ UNCHANGED <<tables, due, legacy, provider, snap, status, w, faults>>

\* The listed droplets that ReconcileOwnedOrphans takes for live orphans.
Orphans == {d \in listing.ids : row[d] = "DELETED" /\ dep[d] = "FAILED"}

\* The listing becomes the latest snapshot; then orphans return to RETIRING.
StoreSnapshot ==
    /\ listing.pc = "listed"
    /\ snap' = [ids |-> listing.ids, age |-> "new"]
    /\ listing' = [pc |-> "idle", ids |-> {}]
    /\ row' = [d \in Ids |-> IF d \in Orphans THEN "RETIRING" ELSE row[d]]
    /\ repl' = [d \in Ids |-> IF d \in Orphans THEN 0 ELSE repl[d]]
    /\ UNCHANGED <<dep, op, due, legacy, provider, status, w, faults>>

LateDelete(d) ==
    /\ d \in flight
    /\ flight' = flight \ {d} /\ live' = live \ {d}
    /\ UNCHANGED <<tables, due, legacy, sent, accepted, refresh, status, w, faults>>
LateLoss(d) ==
    /\ d \in flight
    /\ flight' = flight \ {d}
    /\ UNCHANGED <<tables, due, legacy, live, sent, accepted, refresh, status, w, faults>>
\* The provider does not carry out a delete it acknowledged: what the orphan
\* reconciliation is there for.
Revert(d) ==
    /\ d \in accepted /\ d \notin live
    /\ Fault
    /\ live' = live \cup {d}
    /\ UNCHANGED <<tables, due, legacy, flight, sent, accepted, refresh, status, w>>

\* The worker process dies and is started again.
Restart ==
    /\ w.pc # "idle"
    /\ Fault
    /\ w' = Idle
    /\ IF w.pc = "call"
       THEN /\ flight' \in {flight, flight \cup ({w.cur} \cap live)}
            /\ sent' = [sent EXCEPT ![w.cur] = @ + 1]
       ELSE UNCHANGED <<flight, sent>>
    /\ UNCHANGED <<tables, due, legacy, live, accepted, refresh, status>>
-----------------------------------------------------------------------------
WorkerStep ==
    \/ ListOperations \/ (\E d \in w.todo : RecoverDelete(d))
    \/ StoreVerdict \/ ConfirmDeleted
    \/ ListDue \/ (\E d \in w.todo : CheckProfile(d) \/ CheckCapacity(d) \/ CheckReplacement(d))
    \/ StartReplacement \/ StartRefused \/ StartReturns \/ SaveReplacement
    \/ ProcessBlocked \/ ProcessReady \/ ProcessExpiring \/ ProcessDeleting
    \/ ReserveDelete \/ EgressBefore \/ DeleteAccepted \/ DeleteUnclear
    \/ RecordUnclear \/ EgressAfter \/ MoveToDeleting
    \/ ListDeployments \/ EndOfTick

WorkflowStep ==
    \E n \in Ids : \/ WorkflowReserves(n) \/ WorkflowCreates(n)
                   \/ WorkflowStores(n) \/ WorkflowEnds(n)

LifecycleNext ==
    \/ WorkerStep \/ WorkflowStep \/ OtherStart
    \/ \E n \in Ids : \/ WorkflowFails(n) \/ Freeze(n) \/ Expires(n)
                     \/ LateDelete(n) \/ LateLoss(n) \/ Revert(n)
    \/ SnapshotAges \/ Discover \/ StoreSnapshot
    \/ Restart

LifecycleSpec == LifecycleInit /\ [][LifecycleNext]_lifecycleVars

\* The worker's and the refresh loop's tickers never stop, workflows are resumed
\* until they end, and snapshots age.
LifecycleFairness ==
    /\ WF_lifecycleVars(WorkerStep) /\ WF_lifecycleVars(WorkflowStep)
    /\ WF_lifecycleVars(Discover) /\ WF_lifecycleVars(StoreSnapshot)
    /\ WF_lifecycleVars(SnapshotAges)
LifecycleFairSpec == LifecycleSpec /\ LifecycleFairness
-----------------------------------------------------------------------------
(***************************************************************************)
(* Properties.                                                             *)
(***************************************************************************)
\* However often the worker restarts and the list of due rows is processed,
\* DigitalOcean is asked at most once to delete a droplet: the operation keyed by
\* the row is reserved before the request and never sent a second time.  Not even
\* when the droplet outlives its delete and ReconcileOwnedOrphans puts the row
\* back to RETIRING "so the normal idempotent lifecycle deletes it": the operation
\* has succeeded, so the row moves on to DELETING and stays there.
DeleteOnce == \A d \in Ids : sent[d] <= 1

\* A row is DELETING or DELETED only after DigitalOcean acknowledged the delete:
\* a lost answer, a failed egress check or an old snapshot is never success.
DeletingIsAccepted ==
    \A d \in Ids : row[d] \in {"DELETING", "DELETED"} => d \in accepted

\* The droplets in service: provisioned, and not being retired.
Serving == {d \in Ids : dep[d] = "READY" /\ row[d] \in {"READY", "EXPIRING"}}
\* Rotation never shrinks the fleet: behind every droplet that is retired stands
\* another one, provisioned, that no other retirement counted on.
FleetNeverShrinks ==
    Cardinality(Serving) >= Cardinality({d \in 1..Initial : dep[d] = "READY"})

\* As long as nothing fails, a provisioned droplet that begins to retire is
\* deleted and its row ends as DELETED: the delete is stored before the row moves,
\* a snapshot that still lists the droplet is outlived, and it is confirmed.
QuietRetirementCompletes ==
    [](faults = 0) =>
        \A d \in Ids : dep[d] = "READY" /\ row[d] = "RETIRING" ~> row[d] = "DELETED"

\* A droplet that begins to retire is deleted in the end, whatever failed on the
\* way (refuted: the key of a delete is used up by its first attempt).
RetirementCompletes == \A d \in Ids : row[d] = "RETIRING" ~> row[d] = "DELETED"
-----------------------------------------------------------------------------
(***************************************************************************)
(* The inductive invariant behind the safety properties.                   *)
(***************************************************************************)
\* The worker has an item in work.
WorkInv == w.pc \notin {"idle", "ops", "life", "deps"} => w.cur \in Ids

\* The operation is stored before the only request, which is still to come while
\* the worker is on its way to it.
SendInv ==
    /\ \A d \in Ids : sent[d] <= 1 /\ (sent[d] # 0 => op[d].state # "absent")
    /\ w.pc \in {"egress1", "call"} => sent[w.cur] = 0 /\ op[w.cur].state # "absent"

\* Every record of a delete that went through follows an acknowledgement.
AcceptInv ==
    /\ \A d \in Ids : (\/ op[d].res \/ op[d].state \in {"verifying", "succeeded"}
                       \/ row[d] \in {"DELETING", "DELETED"}) => d \in accepted
    /\ w.pc \in {"opwrite", "confirm", "egress2", "move"} => w.cur \in accepted

\* Deployments are numbered without gaps, and a READY one has a row.
BornInv ==
    /\ Born = 1..Cardinality(Born) /\ 1..Initial \subseteq Born
    /\ \A d \in Ids : dep[d] = "READY" => row[d] # "none"

\* A replacement is READY, new, and replaces one droplet; the one the worker is
\* about to store replaces none yet.
ReplacementInv ==
    /\ \A d \in Ids : repl[d] # 0 => repl[d] > Initial /\ dep[repl[d]] = "READY"
    /\ \A d, e \in Ids : repl[d] # 0 /\ repl[d] = repl[e] => d = e
    /\ w.pc \in {"deploying", "saverepl"} =>
          w.new \in Ids /\ w.new > Initial /\ \A e \in Ids : repl[e] # w.new
    /\ w.pc = "saverepl" => dep[w.new] = "READY"

\* A droplet whose deployment was not frozen retires behind a replacement, and the
\* replacement the worker has read is the one that is stored.
RetireInv ==
    /\ \A d \in Ids : dep[d] # "FAILED" =>
          /\ row[d] \in {"RETIRING", "DELETING", "DELETED"} => repl[d] # 0
          /\ w.repl[d] # 0 => w.repl[d] = repl[d]
    /\ w.pc = "process" /\ w.state[w.cur] = "EXPIRING" => w.repl[w.cur] # 0

LifecycleInv == /\ LifecycleTypeOK /\ WorkInv /\ SendInv /\ AcceptInv
                /\ BornInv /\ ReplacementInv /\ RetireInv
=============================================================================
