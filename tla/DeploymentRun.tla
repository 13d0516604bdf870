--------------------------- MODULE DeploymentRun ---------------------------
(***************************************************************************)
(* The deployment workflow on top of the ledger: StartDeployment inserts   *)
(* the row of a deployment and prepares its snapshot, Engine.Run walks the *)
(* seven steps and checkpoints each of them in the row, and                *)
(* RecoverDeployment freezes or re-runs what did not finish.  The engine   *)
(* keeps a private copy of the row and SQLStore.Update writes the whole    *)
(* copy back: lock_version is incremented and never compared, and RunLock  *)
(* is not wired, so two runners may execute the same deployment.           *)
(*                                                                         *)
(* A row of the droplets table is named by its provider id (the table has  *)
(* a unique index on it); 0 is the NULL id.                                *)
(***************************************************************************)
EXTENDS DropletLedger

CONSTANTS
    Recoverers,     \* the runners that are recovery loops (cmd/worker)
    ClientsWired    \* is RuntimeSteps.Clients set?  app/workflow.go: FALSE

ASSUME RecoverersAssumption == Recoverers \subseteq Runners
ASSUME ClientsWiredAssumption == ClientsWired \in BOOLEAN

VARIABLES
    row,        \* the deployments table
    dropletRows,\* the droplets table: provider ids
    prun,       \* provision_runs: provider id of the droplet -> state
    run         \* run[r]: runner r's workflow execution

runVars == <<row, dropletRows, prun, run>>
vars == <<ledgerVars, runVars>>

\* engine.go's step list; the last name is where next("traffic") leads.
StepOrder == <<"create", "wait_resource", "provision", "database", "panel",
               "clients", "traffic", "done">>
Steps == {StepOrder[i] : i \in 1..8}
Rank(s) == CHOOSE i \in 1..8 : StepOrder[i] = s
NextStep(s) == StepOrder[Rank(s) + 1]
StepState == [s \in Steps \ {"done"} |->
    CASE s = "create"        -> "CREATING"
      [] s = "wait_resource" -> "WAITING_RESOURCE"
      [] s = "provision"     -> "PROVISIONING"
      [] s = "database"      -> "IMPORTING_DATABASE"
      [] s = "panel"         -> "CONFIGURING_PANEL"
      [] s = "clients"       -> "REGISTERING_CLIENTS"
      [] s = "traffic"       -> "REGISTERING_TRAFFIC"]
Terminal == {"READY", "FAILED"}
States == {"none", "PLANNED"} \cup Terminal
              \cup {StepState[s] : s \in Steps \ {"done"}}

\* The columns Engine.Run reads and writes.
Copy == [state : States, step : Steps, prov : Nat, drop : Nat]
Row == [state : States, step : Steps, prov : Nat, drop : Nat, cfg : Configs]
CopyOf(x) == [state |-> x.state, step |-> x.step, prov |-> x.prov, drop |-> x.drop]
NoCopy == [state |-> "none", step |-> "create", prov |-> 0, drop |-> 0]
IdleRun == [pc |-> "idle", dep |-> IdleCall.dep, cfg |-> "empty", mem |-> NoCopy]

RunPcs == {"idle", "attach", "ensure", "load", "reserve", "step", "create",
           "body", "insert", "ssh", "advance", "fail", "get", "judge", "freeze"}
PRunStates == {"pending", "failed", "completed"}
RunRecord == [pc : RunPcs, dep : Deployments, cfg : Configs, mem : Copy]

RunTypeOK ==
    /\ TypeOK
    /\ row \in [Deployments -> Row]
    /\ dropletRows \in SUBSET Nat
    /\ DOMAIN prun \subseteq dropletRows
    /\ prun \in [DOMAIN prun -> PRunStates]
    /\ run \in [Runners -> RunRecord]

RunInit ==
    /\ LedgerInit
    /\ row = [d \in Deployments |->
                [state |-> "none", step |-> "create", prov |-> 0, drop |-> 0,
                 cfg |-> "empty"]]
    /\ dropletRows = {}
    /\ prun = <<>>
    /\ run = [r \in Runners |-> IdleRun]
-----------------------------------------------------------------------------
Jump(r, pc) == run' = [run EXCEPT ![r].pc = pc]
Leave(r) == run' = [run EXCEPT ![r] = IdleRun]
\* SQLStore.Update: the whole private copy m replaces the row's columns.
Update(d, m) ==
    row' = [row EXCEPT ![d].state = m.state, ![d].step = m.step,
                       ![d].prov = m.prov, ![d].drop = m.drop]
\* An Update by runner r, which goes on at pc with the copy it stored.
UpdateAndGoto(r, m, pc) ==
    /\ Update(run[r].dep, m)
    /\ run' = [run EXCEPT ![r].mem = m, ![r].pc = pc]
PRun(p) == IF p \in DOMAIN prun THEN prun[p] ELSE "none"
SetPRun(p, s) ==
    prun' = [x \in DOMAIN prun \cup {p} |-> IF x = p THEN s ELSE prun[x]]
\* DigitalOceanWaiter.Wait finds the droplet active.
Reachable(m) == m.prov \in cloud
-----------------------------------------------------------------------------
(* StartDeployment: the row is visible to recovery from its INSERT on. *)
StartDeployment(r, d) ==
    /\ run[r].pc = "idle"
    /\ row[d].state = "none"
    /\ row' = [row EXCEPT ![d].state = "PLANNED"]
    /\ run' = [run EXCEPT ![r] = [IdleRun EXCEPT !.pc = "attach", !.dep = d]]
    /\ UNCHANGED <<ledgerVars, dropletRows, prun>>

\* AttachSnapshot, only over '{}'; reading the account may fail before it.
AttachSnapshot(r) ==
    LET d == run[r].dep IN
    /\ run[r].pc = "attach"
    /\ \/ /\ row' = [row EXCEPT ![d].cfg = IF @ = "empty" THEN "plain" ELSE @]
          /\ Jump(r, "ensure")
       \/ Leave(r) /\ UNCHANGED row
    /\ UNCHANGED <<ledgerVars, dropletRows, prun>>

\* ensureDeploymentSSHIdentity registers a key and stores it in the snapshot.
EnsureSSHIdentity(r) ==
    /\ run[r].pc = "ensure"
    /\ \/ /\ row' = [row EXCEPT ![run[r].dep].cfg = "keyed"]
          /\ Jump(r, "load")
       \/ Leave(r) /\ UNCHANGED row
    /\ UNCHANGED <<ledgerVars, dropletRows, prun>>

\* DeploymentConfigFromSnapshot, then Container.Workflow.
LoadConfig(r) ==
    /\ run[r].pc = "load"
    /\ run' = [run EXCEPT ![r].cfg = row[run[r].dep].cfg, ![r].pc = "reserve"]
    /\ UNCHANGED <<ledgerVars, row, dropletRows, prun>>
LoadFails(r) ==
    /\ run[r].pc = "load"
    /\ Leave(r)
    /\ UNCHANGED <<ledgerVars, row, dropletRows, prun>>
-----------------------------------------------------------------------------
(* Engine.Run.  An Update that fails ends the run as AbortRun does. *)
ReserveRun(r) ==
    LET m == CopyOf(row[run[r].dep]) IN
    /\ run[r].pc = "reserve"
    /\ IF m.state = "READY"
       THEN Leave(r)
       ELSE run' = [run EXCEPT ![r].mem = m, ![r].pc = "step"]
    /\ UNCHANGED <<ledgerVars, row, dropletRows, prun>>

\* The loop enters the step of the checkpoint (done() skips the earlier ones).
EnterStep(r) ==
    LET m == [run[r].mem EXCEPT !.state = StepState[run[r].mem.step]] IN
    /\ run[r].pc = "step"
    /\ run[r].mem.step # "done"
    /\ IF m.step = "create"
       THEN /\ UpdateAndGoto(r, m, "create")
            /\ BeginCreate(r, run[r].dep, run[r].cfg)
            /\ UNCHANGED <<ops, latest, created, cloud, inflight, nextId, snap, rec, faults>>
       ELSE UpdateAndGoto(r, m, "body") /\ UNCHANGED ledgerVars
    /\ UNCHANGED <<dropletRows, prun>>

Finish(r) ==
    LET m == [run[r].mem EXCEPT !.state = "READY"] IN
    /\ run[r].pc = "step"
    /\ run[r].mem.step = "done"
    /\ Update(run[r].dep, m)
    /\ Leave(r)
    /\ UNCHANGED <<ledgerVars, dropletRows, prun>>

\* A step succeeded: the checkpoint moves to the next one.
Advance(r) ==
    LET m == run[r].mem IN
    /\ run[r].pc = "advance"
    /\ UpdateAndGoto(r, [m EXCEPT !.step = NextStep(m.step)], "step")
    /\ UNCHANGED <<ledgerVars, dropletRows, prun>>

\* Mutant of RecordFailure: a failed step starts the deployment over.
RecordFailureRestarts(r) ==
    /\ run[r].pc = "fail"
    /\ Leave(r)
    /\ Update(run[r].dep, [run[r].mem EXCEPT !.step = "create"])
    /\ UNCHANGED <<ledgerVars, dropletRows, prun>>

\* A step failed: the copy is stored as it is, and an error doing so is
\* dropped.
RecordFailure(r) ==
    /\ run[r].pc = "fail"
    /\ Leave(r)
    /\ Update(run[r].dep, run[r].mem)
    /\ UNCHANGED <<ledgerVars, dropletRows, prun>>

\* RuntimeSteps.Create has returned from the ledger.
CreateReturned(r) ==
    /\ run[r].pc = "create"
    /\ call[r].pc = "ret"
    /\ call' = [call EXCEPT ![r] = IdleCall]
    /\ run' = IF call[r].res # 0
              THEN [run EXCEPT ![r].mem.prov = call[r].res, ![r].pc = "advance"]
              ELSE [run EXCEPT ![r].pc = "fail"]
    /\ UNCHANGED <<ops, latest, created, cloud, inflight, nextId, snap, rec, faults>>
    /\ UNCHANGED <<row, dropletRows, prun>>

\* Any step may fail: no host in time, a refused connection, a bad import.
StepFails(r) ==
    /\ run[r].pc = "body"
    /\ run[r].mem.step \notin {"panel", "traffic"}
    /\ Jump(r, "fail")
    /\ UNCHANGED <<ledgerVars, row, dropletRows, prun>>

\* Mutant of WaitResource: the droplets row is not inserted.
WaitResourceNoInsert(r) ==
    LET m == run[r].mem IN
    /\ run[r].pc = "body" /\ m.step = "wait_resource"
    /\ Reachable(m)
    /\ run' = [run EXCEPT ![r].pc = "advance",
                          ![r].mem.drop = IF @ = 0 THEN m.prov ELSE @]
    /\ UNCHANGED <<ledgerVars, row, dropletRows, prun>>

\* WaitResource once the droplet is active: reuse its row, or insert one.
WaitResource(r) ==
    LET m == run[r].mem IN
    /\ run[r].pc = "body" /\ m.step = "wait_resource"
    /\ Reachable(m)
    /\ run' = IF m.drop = 0 /\ m.prov \notin dropletRows
              THEN [run EXCEPT ![r].pc = "insert"]
              ELSE [run EXCEPT ![r].pc = "advance",
                               ![r].mem.drop = IF @ = 0 THEN m.prov ELSE @]
    /\ UNCHANGED <<ledgerVars, row, dropletRows, prun>>

\* The INSERT, refused by the unique index when somebody was faster.
InsertDroplet(r) ==
    LET p == run[r].mem.prov IN
    /\ run[r].pc = "insert"
    /\ dropletRows' = dropletRows \cup {p}
    /\ run' = IF p \in dropletRows
              THEN [run EXCEPT ![r].pc = "fail"]
              ELSE [run EXCEPT ![r].pc = "advance", ![r].mem.drop = p]
    /\ UNCHANGED <<ledgerVars, row, prun>>

\* provisioning.Engine.Execute up to its first command: a completed run is
\* success, an existing one may be deferred or out of attempts, and without
\* an SSH key there is no secret to read.
BeginProvision(r) ==
    LET m == run[r].mem IN
    /\ run[r].pc = "body" /\ m.step = "provision"
    /\ Reachable(m)
    /\ m.drop # 0
    /\ \/ PRun(m.drop) = "completed" /\ Jump(r, "advance") /\ UNCHANGED prun
       \/ /\ PRun(m.drop) \in {"pending", "failed"}
          /\ SetPRun(m.drop, "failed")
          /\ Jump(r, "fail")
       \/ /\ PRun(m.drop) # "completed"
          /\ SetPRun(m.drop, IF PRun(m.drop) = "none" \/ run[r].cfg = "keyed"
                             THEN "pending" ELSE PRun(m.drop))
          /\ Jump(r, IF run[r].cfg = "keyed" THEN "ssh" ELSE "fail")
    /\ UNCHANGED <<ledgerVars, row, dropletRows>>

\* Mutant of EndProvision: the error of Execute is dropped.
EndProvisionIgnored(r) ==
    /\ run[r].pc = "ssh"
    /\ \E s \in PRunStates : SetPRun(run[r].mem.drop, s)
    /\ Jump(r, "advance")
    /\ UNCHANGED <<ledgerVars, row, dropletRows>>

\* The commands succeed, fail, or are interrupted (a resumable run).
EndProvision(r) ==
    /\ run[r].pc = "ssh"
    /\ \E s \in PRunStates :
          /\ SetPRun(run[r].mem.drop, s)
          /\ Jump(r, IF s = "completed" THEN "advance" ELSE "fail")
    /\ UNCHANGED <<ledgerVars, row, dropletRows>>

ImportDatabase(r) ==
    /\ run[r].pc = "body" /\ run[r].mem.step = "database"
    /\ Reachable(run[r].mem)
    /\ Jump(r, "advance")
    /\ UNCHANGED <<ledgerVars, row, dropletRows, prun>>

\* ConfigurePanel and RegisterTraffic have nothing wired and succeed;
\* RegisterClients succeeds only when a registrar is wired.
PassStep(r) ==
    /\ run[r].pc = "body"
    /\ \/ run[r].mem.step \in {"panel", "traffic"}
       \/ run[r].mem.step = "clients" /\ ClientsWired
    /\ Jump(r, "advance")
    /\ UNCHANGED <<ledgerVars, row, dropletRows, prun>>
-----------------------------------------------------------------------------
(* Worker.Once lists the unfinished deployments and hands each one to      *)
(* RecoverDeployment, which reads the row again but not its state.         *)
RecoverList(r, d) ==
    /\ r \in Recoverers
    /\ run[r].pc = "idle"
    /\ row[d].state \notin {"none"} \cup Terminal
    /\ run' = [run EXCEPT ![r] = [IdleRun EXCEPT !.pc = "get", !.dep = d]]
    /\ UNCHANGED <<ledgerVars, row, dropletRows, prun>>

RecoverGet(r) ==
    /\ run[r].pc = "get"
    /\ run' = [run EXCEPT ![r].mem = CopyOf(row[run[r].dep]), ![r].pc = "judge"]
    /\ UNCHANGED <<ledgerVars, row, dropletRows, prun>>

\* The youngest create operation of d, which the INSERT order decides.
LatestOp(d) == ops[d][latest[d]]

\* Mutant of RecoverJudge: an unknown create is frozen like a failed one.
RecoverJudgeFreezesUnknown(r) ==
    LET m == run[r].mem
        op == LatestOp(run[r].dep)
    IN
    /\ run[r].pc = "judge"
    /\ IF m.step = "create" /\ op.res = 0 /\ op.state \in {"failed", "unknown"}
       THEN Jump(r, "freeze")
       ELSE Jump(r, "load")
    /\ UNCHANGED <<ledgerVars, row, dropletRows, prun>>

\* Freeze what failed for good, leave what is unknown or deferred, run the
\* rest again.
RecoverJudge(r) ==
    LET m == run[r].mem
        op == LatestOp(run[r].dep)
    IN
    /\ run[r].pc = "judge"
    /\ \/ /\ m.step = "provision" /\ m.drop # 0
          /\ PRun(m.drop) # "none"     \* FAILED, or eight attempts were used
          /\ Jump(r, "freeze")
       \/ /\ m.step = "provision" /\ m.drop # 0 /\ PRun(m.drop) = "pending"
          /\ Leave(r)
       \/ /\ m.step = "create" /\ op.res = 0 /\ op.state = "failed"
          /\ Jump(r, "freeze")
       \/ /\ m.step = "create" /\ op.res = 0 /\ op.state = "unknown"
          /\ Leave(r)
       \/ /\ m.step = "provision" => m.drop = 0 \/ PRun(m.drop) # "failed"
          /\ m.step = "create" =>
                op.res # 0 \/ op.state \notin {"failed", "unknown"}
          /\ Jump(r, "load")
    /\ UNCHANGED <<ledgerVars, row, dropletRows, prun>>

\* The query about the provision run or the operation fails: whatever they say,
\* the deployment is run again.
RecoverUnjudged(r) ==
    /\ run[r].pc = "judge"
    /\ run[r].mem.step \in {"create", "provision"}
    /\ OtherFault
    /\ Jump(r, "load")
    /\ UNCHANGED <<row, dropletRows, prun>>

\* Mutant of Freeze: it also removes the failed operation from the ledger.
FreezeForgets(r) ==
    /\ run[r].pc = "freeze"
    /\ row' = [row EXCEPT ![run[r].dep].state = "FAILED",
                          ![run[r].dep].step = "done"]
    /\ ops' = [ops EXCEPT ![run[r].dep][latest[run[r].dep]].state = "absent"]
    /\ Leave(r)
    /\ UNCHANGED <<latest, created, cloud, inflight, nextId, snap, call, rec, faults>>
    /\ UNCHANGED <<dropletRows, prun>>

\* The freeze is an UPDATE without a condition on the state it replaces.
Freeze(r) ==
    /\ run[r].pc = "freeze"
    /\ row' = [row EXCEPT ![run[r].dep].state = "FAILED",
                          ![run[r].dep].step = "done"]
    /\ Leave(r)
    /\ UNCHANGED <<ledgerVars, dropletRows, prun>>

\* ReconcileLocalState links a row to the droplet its provider id names; it
\* runs when the worker process starts, before its recovery loop.
LinkDroplet(d) ==
    /\ \A r \in Recoverers : run[r].pc = "idle"
    /\ row[d].drop = 0
    /\ row[d].prov \in dropletRows
    /\ row' = [row EXCEPT ![d].drop = row[d].prov]
    /\ UNCHANGED <<ledgerVars, dropletRows, prun, run>>

\* The process dies, the request's context is cancelled, or an Update of the
\* row fails.
AbortRun(r) ==
    /\ run[r].pc # "idle"
    /\ IF call[r].pc # "idle" THEN Abort(r) ELSE OtherFault
    /\ Leave(r)
    /\ UNCHANGED <<row, dropletRows, prun>>
-----------------------------------------------------------------------------
\* One step of runner r inside a workflow execution.
RunStep(r) ==
    \/ AttachSnapshot(r) \/ EnsureSSHIdentity(r)
    \/ LoadConfig(r) \/ LoadFails(r) \/ ReserveRun(r)
    \/ EnterStep(r) \/ Finish(r) \/ Advance(r) \/ RecordFailure(r)
    \/ CreateStep(r) /\ UNCHANGED runVars
    \/ CreateReturned(r) \/ StepFails(r)
    \/ WaitResource(r) \/ InsertDroplet(r)
    \/ BeginProvision(r) \/ EndProvision(r)
    \/ ImportDatabase(r) \/ PassStep(r)
    \/ RecoverGet(r) \/ RecoverJudge(r) \/ RecoverUnjudged(r) \/ Freeze(r)

RunNext ==
    \/ \E r \in Runners, d \in Deployments :
          StartDeployment(r, d) \/ RecoverList(r, d)
    \/ \E r \in Runners : RunStep(r) \/ AbortRun(r)
    \/ LedgerEnvironment /\ UNCHANGED runVars
    \/ \E d \in Deployments : LinkDroplet(d)

RunSpec == RunInit /\ [][RunNext]_vars

(***************************************************************************)
(* Fairness: a runner that is executing goes on (every wait in it has a    *)
(* deadline), the recovery loop lists unfinished deployments for ever, the *)
(* configuration can be loaded again and again, and the mutation gate does *)
(* not refuse for ever.  Nothing is assumed of DigitalOcean.               *)
(***************************************************************************)
Fairness ==
    /\ \A r \in Runners :
          /\ WF_vars(RunStep(r))
          /\ SF_vars(LoadConfig(r))
          /\ SF_vars(ReserveExisting(r) /\ UNCHANGED runVars)
    /\ \A r \in Recoverers, d \in Deployments : SF_vars(RecoverList(r, d))
FairRunSpec == RunSpec /\ Fairness
-----------------------------------------------------------------------------
(***************************************************************************)
(* Properties.                                                             *)
(***************************************************************************)
\* Every behaviour of the workflow is a behaviour of the ledger alone: what
\* holds of the ledger under arbitrary callers holds here.
ImplementsLedger == LedgerSpec

\* A droplet made for deployment d.
OwnedBy(p, d) == \E x \in created : x.id = p /\ x.dep = d

\* The columns m name nothing but droplets of deployment d.
IsOwn(m, d) ==
    /\ m.prov # 0 => OwnedBy(m.prov, d)
    /\ m.drop # 0 => m.drop \in dropletRows /\ OwnedBy(m.drop, d)

\* Whoever wrote last, a deployment's row and every runner's private copy name
\* only a droplet that was made for that deployment, and the droplets table
\* has no row without a droplet.
CheckpointIsOwn ==
    /\ \A d \in Deployments : IsOwn(row[d], d)
    /\ \A r \in Runners : IsOwn(run[r].mem, run[r].dep)
    /\ \A p \in dropletRows : \E d \in Deployments : OwnedBy(p, d)

\* READY means that a droplet was made, entered into the droplets table and
\* provisioned to the end.
ReadyIsProvisioned ==
    \A d \in Deployments : row[d].state = "READY" =>
        /\ row[d].prov # 0
        /\ row[d].drop = row[d].prov
        /\ PRun(row[d].drop) = "completed"

\* A runner about to freeze a deployment in its create step goes by an
\* operation that really failed and stays so: nothing was made in that region
\* and nothing is on its way there, however long ago the operation was read.
FreezeIsGrounded ==
    \A r \in Runners :
        run[r].pc = "freeze" /\ run[r].mem.step = "create" =>
            \E g \in AllRegions :
                /\ ops[run[r].dep][g] = [state |-> "failed", res |-> 0]
                /\ \A x \in created \cup inflight :
                      x.dep = run[r].dep => x.region # g

\* A deployment frozen without a provider id left nothing at DigitalOcean and
\* nothing on its way there, as the text stored with it says: "create operation
\* failed; no provider resource created" (recovery.go).
FreezeIsTruthful ==
    \A d \in Deployments :
        (row[d].state = "FAILED" /\ row[d].prov = 0) =>
            \A x \in created \cup inflight : x.dep # d

\* A checkpoint is never taken back: the step does not move to an earlier one
\* and the droplet that was recorded stays recorded.
CheckpointNeverRegresses ==
    [][\A d \in Deployments :
          /\ Rank(row'[d].step) >= Rank(row[d].step)
          /\ row[d].prov # 0 => row'[d].prov = row[d].prov
          /\ row[d].drop # 0 => row'[d].drop = row[d].drop]_vars

\* A droplet the ledger has recorded reaches the row of its deployment,
\* whatever crashed in between ("a process or host restart can resume safely",
\* CELL_ARCHITECTURE.md).
RecordedIsCheckpointed ==
    \A d \in Deployments :
        (\E g \in AllRegions : ops[d][g].res # 0) ~> (row[d].prov # 0)

\* The same of a droplet in the region the walk of RuntimeSteps.Create starts
\* with: there a resumed run finds the operation again by its key.
FirstRegionIsCheckpointed ==
    \A d \in Deployments :
        ops[d][FirstRegion(d)].res # 0 ~> row[d].prov # 0

\* An unknown create whose droplet exists is adopted into the ledger.
UnknownIsReconciled ==
    \A d \in Deployments, g \in Regions :
        (ops[d][g].state = "unknown" /\ Matches(d, g) # {})
            ~> (ops[d][g].res # 0 \/ Matches(d, g) = {})

-----------------------------------------------------------------------------
(***************************************************************************)
(* The inductive invariant behind CheckpointIsOwn: a runner is inside      *)
(* RuntimeSteps.Create only for the deployment it runs, what that call     *)
(* returns was made for it, and a copy in the middle of a step names the   *)
(* droplet the step needs.                                                 *)
(***************************************************************************)
StepPcs == {"create", "body", "insert", "ssh", "advance", "fail"}
BusyInv ==
    \A r \in Runners :
        /\ run[r].pc \in StepPcs => run[r].mem.step # "done"
        /\ run[r].pc = "ssh" => run[r].mem.drop # 0
        /\ run[r].pc = "insert" => run[r].mem.prov # 0
CallInv ==
    \A r \in Runners :
        /\ call[r].pc # "idle" => run[r].pc = "create" /\ call[r].dep = run[r].dep
        /\ call[r].pc = "ret" /\ call[r].res # 0 => OwnedBy(call[r].res, call[r].dep)

\* CheckpointIsOwn and the types, with the facts that carry them from step to
\* step.
RunInv ==
    /\ RunTypeOK /\ CheckpointIsOwn /\ BusyInv /\ CallInv
    /\ 0 \notin cloud
=============================================================================
