--------------------------- MODULE DropletLedger ---------------------------
(***************************************************************************)
(* The create path: RuntimeSteps.Create walks the regions of a deployment  *)
(* and calls Executor.Create for each, which reserves a row of the         *)
(* operations table before it asks DigitalOcean for a droplet.  Several    *)
(* runners (scheduler, lifecycle, recovery loop, HTTP handlers) may        *)
(* execute it for the same deployment at the same time.  Recovery of       *)
(* uncertain operations runs beside them.                                  *)
(*                                                                         *)
(* A row of the operations table is found by (deployment, region), which   *)
(* is what its idempotency key is made of.  Provider ids are naturals and  *)
(* 0 stands for the empty resource_id.                                     *)
(***************************************************************************)
EXTENDS Naturals, Sequences, FiniteSets

CONSTANTS
    Deployments,    \* deployment ids
    Regions,        \* region slugs a profile snapshot may name
    NoRegion,       \* the empty slug of a snapshot that is still '{}'
    RegionList,     \* RegionList[d]: the regions of d's snapshot, in order
    Runners,        \* goroutines that may execute a workflow
    MaxFaults       \* bound on crashes, cancellations and failed updates

ASSUME DeploymentsAssumption == Deployments # {}
ASSUME NoRegionAssumption == NoRegion \notin Regions
ASSUME RegionListAssumption ==
    RegionList \in [Deployments -> Seq(Regions) \ {<<>>}]
ASSUME MaxFaultsAssumption == MaxFaults \in Nat

VARIABLES
    ops,        \* the operations table, by deployment and region
    latest,     \* latest[d]: the region of d's youngest operation
    created,    \* every droplet DigitalOcean ever made for the bot (history)
    cloud,      \* the ids of those that still exist
    inflight,   \* create requests with a lost answer, not yet processed
    nextId,     \* the next provider id
    snap,       \* the latest provider snapshot: its ids and its freshness
    call,       \* call[r]: runner r's execution of RuntimeSteps.Create
    rec,        \* the execution of RecoverOperation
    faults      \* faults used so far

ledgerVars == <<ops, latest, created, cloud, inflight, nextId, snap, call, rec, faults>>

AllRegions == Regions \cup {NoRegion}
OpStates == {"absent", "planned", "running", "verifying", "succeeded",
             "failed", "unknown"}
\* The operation row; "absent" when the key is not in the table.
Op == [state : OpStates, res : Nat]
\* What DeploymentConfigFromSnapshot read: '{}', a profile without an SSH
\* identity, or a profile with one.
Configs == {"empty", "plain", "keyed"}
CallPcs == {"idle", "gate", "egress1", "call", "reject", "unsure", "egress2",
            "adopt", "adoptsave", "ret"}
\* A droplet, and a request for one: the tag names the deployment, the body the
\* region and the SSH key of the configuration.
Droplet == [id : Nat, dep : Deployments, region : Regions, cfg : Configs]
RequestFor == [dep : Deployments, region : Regions, cfg : Configs]
\* An execution of RuntimeSteps.Create; at "ret" res is the provider id it
\* returns, 0 standing for an error.
CallRecord == [pc : CallPcs, dep : Deployments, cfg : Configs, i : Nat \ {0},
               res : Nat]
RecRecord == [pc : {"idle", "write"}, dep : Deployments, region : AllRegions,
              verdict : {"succeeded", "unknown"}]

TypeOK ==
    /\ ops \in [Deployments -> [AllRegions -> Op]]
    /\ latest \in [Deployments -> AllRegions]
    /\ created \in SUBSET Droplet
    /\ cloud \in SUBSET Nat
    /\ inflight \in SUBSET RequestFor
    /\ nextId \in Nat \ {0}
    /\ snap \in [ids : SUBSET Nat, age : {"fresh", "stale"}]
    /\ call \in [Runners -> CallRecord]
    /\ rec \in RecRecord
    /\ faults \in Nat

IdleCall == [pc |-> "idle", dep |-> CHOOSE d \in Deployments : TRUE,
             cfg |-> "empty", i |-> 1, res |-> 0]
IdleRec == [pc |-> "idle", dep |-> CHOOSE d \in Deployments : TRUE,
            region |-> NoRegion, verdict |-> "unknown"]

LedgerInit ==
    /\ ops = [d \in Deployments |->
                [g \in AllRegions |-> [state |-> "absent", res |-> 0]]]
    /\ latest = [d \in Deployments |-> NoRegion]
    /\ created = {} /\ cloud = {} /\ inflight = {} /\ nextId = 1
    /\ snap = [ids |-> {}, age |-> "stale"]
    /\ call = [r \in Runners |-> IdleCall]
    /\ rec = IdleRec
    /\ faults = 0
-----------------------------------------------------------------------------
(* The region list a call walks and the row it is working on. *)
RegionsOf(c) == IF c.cfg = "empty" THEN <<NoRegion>> ELSE RegionList[c.dep]
RegionOf(c) == RegionsOf(c)[c.i]
OpOf(c) == ops[c.dep][RegionOf(c)]

Goto(r, pc) == call' = [call EXCEPT ![r].pc = pc]
\* RuntimeSteps.Create returns a provider id, or an error (0).
Return(r, res) == call' = [call EXCEPT ![r].pc = "ret", ![r].res = res]
\* SQLStore.Update of the row call r works on.
WriteOp(r, state, res) ==
    ops' = [ops EXCEPT ![call[r].dep][RegionOf(call[r])] =
                [state |-> state, res |-> res]]
\* An update whose error the caller discards: it is stored, or the database
\* or the context fails and the row stays as it is.
WriteOpOrLose(r, state, res) ==
    \/ WriteOp(r, state, res) /\ UNCHANGED faults
    \/ faults < MaxFaults /\ faults' = faults + 1 /\ UNCHANGED ops

\* RuntimeSteps.Create is entered for deployment d with the configuration
\* that was read for it.
BeginCreate(r, d, cfg) ==
    /\ call[r].pc = "idle"
    /\ call' = [call EXCEPT ![r] = [IdleCall EXCEPT !.pc = "gate", !.dep = d,
                                                    !.cfg = cfg]]

\* MutationGate.AllowMutation refuses, or the INSERT fails.
GateBlocked(r) ==
    /\ call[r].pc = "gate"
    /\ Return(r, 0)
    /\ UNCHANGED <<ops, latest, created, cloud, inflight, nextId, snap, rec, faults>>

ReserveFresh(r) ==
    /\ call[r].pc = "gate"
    /\ OpOf(call[r]).state = "absent"
    /\ WriteOp(r, "planned", 0)
    /\ latest' = [latest EXCEPT ![call[r].dep] = RegionOf(call[r])]
    /\ Goto(r, "egress1")
    /\ UNCHANGED <<created, cloud, inflight, nextId, snap, rec, faults>>

\* Mutant of ReserveExisting: an unknown operation is simply sent again.
ReserveExistingRetries(r) ==
    LET op == OpOf(call[r]) IN
    /\ call[r].pc = "gate"
    /\ op.state # "absent"
    /\ IF op.state = "unknown" /\ op.res = 0
       THEN Goto(r, "egress1")
       ELSE Return(r, op.res)
    /\ UNCHANGED <<ops, latest, created, cloud, inflight, nextId, snap, rec, faults>>

\* Mutant of ReserveExisting: a key that is taken is an error.
ReserveExistingRefuses(r) ==
    /\ call[r].pc = "gate"
    /\ OpOf(call[r]).state # "absent"
    /\ Return(r, 0)
    /\ UNCHANGED <<ops, latest, created, cloud, inflight, nextId, snap, rec, faults>>

\* The key is taken.  Only an unknown operation without a resource goes on to
\* AdoptUnknownCreate; any other is returned as it is, and is an error to the
\* region loop when it names no resource.
ReserveExisting(r) ==
    LET op == OpOf(call[r]) IN
    /\ call[r].pc = "gate"
    /\ op.state # "absent"
    /\ IF op.state = "unknown" /\ op.res = 0
       THEN Goto(r, "adopt")
       ELSE Return(r, op.res)
    /\ UNCHANGED <<ops, latest, created, cloud, inflight, nextId, snap, rec, faults>>

\* The egress check before the mutation fails: nothing is sent.
EgressFailsBefore(r) ==
    /\ call[r].pc = "egress1"
    /\ WriteOpOrLose(r, "unknown", 0)
    /\ Return(r, 0)
    /\ UNCHANGED <<latest, created, cloud, inflight, nextId, snap, rec>>

MarkRunning(r) ==
    /\ call[r].pc = "egress1"
    /\ \/ WriteOp(r, "running", 0) /\ Goto(r, "call") /\ UNCHANGED faults
       \/ /\ faults < MaxFaults /\ faults' = faults + 1
          /\ Return(r, 0)
          /\ UNCHANGED ops
    /\ UNCHANGED <<latest, created, cloud, inflight, nextId, snap, rec>>

\* DigitalOcean makes a droplet for request q.
MakeDroplet(q) ==
    /\ created' = created \cup {[id |-> nextId, dep |-> q.dep,
                                 region |-> q.region, cfg |-> q.cfg]}
    /\ cloud' = cloud \cup {nextId}
    /\ nextId' = nextId + 1

Request(c) == [dep |-> c.dep, region |-> RegionOf(c), cfg |-> c.cfg]

\* Mutant of CreateAccepted: an id is read from an answer that made no droplet.
CreateAcceptedUnmade(r) ==
    /\ call[r].pc = "call"
    /\ call[r].cfg # "empty"
    /\ call' = [call EXCEPT ![r].pc = "egress2", ![r].res = nextId]
    /\ UNCHANGED <<ops, latest, created, cloud, inflight, nextId, snap, rec, faults>>

\* CreateDroplet answers with a droplet.  A request with an empty region is
\* always refused.
CreateAccepted(r) ==
    /\ call[r].pc = "call"
    /\ call[r].cfg # "empty"
    /\ MakeDroplet(Request(call[r]))
    /\ call' = [call EXCEPT ![r].pc = "egress2", ![r].res = nextId]
    /\ UNCHANGED <<ops, latest, inflight, snap, rec, faults>>

\* An answer that ClassifyError calls Permanent: no droplet was made.
CreateRejected(r) ==
    /\ call[r].pc = "call"
    /\ Goto(r, "reject")
    /\ UNCHANGED <<ops, latest, created, cloud, inflight, nextId, snap, rec, faults>>

\* Mutant of CreateUnclear: ClassifyError calls a lost answer Permanent.
CreateUnclearIsPermanent(r) ==
    /\ call[r].pc = "call"
    /\ Goto(r, "reject")
    /\ inflight' \in {inflight} \cup
          (IF call[r].cfg = "empty" THEN {} ELSE {inflight \cup {Request(call[r])}})
    /\ UNCHANGED <<ops, latest, created, cloud, nextId, snap, rec, faults>>

\* No answer, or one that does not tell (408, 409, 429, 5xx, transport,
\* decode, token lookup): the request may still be processed later.
CreateUnclear(r) ==
    /\ call[r].pc = "call"
    /\ Goto(r, "unsure")
    /\ inflight' \in {inflight} \cup
          (IF call[r].cfg = "empty" THEN {} ELSE {inflight \cup {Request(call[r])}})
    /\ UNCHANGED <<ops, latest, created, cloud, nextId, snap, rec, faults>>

LateCreate(q) ==
    /\ q \in inflight
    /\ inflight' = inflight \ {q}
    /\ MakeDroplet(q)
    /\ UNCHANGED <<ops, latest, snap, call, rec, faults>>

LateDrop(q) ==
    /\ q \in inflight
    /\ inflight' = inflight \ {q}
    /\ UNCHANGED <<ops, latest, created, cloud, nextId, snap, call, rec, faults>>

\* The rejection is stored as failed.  A capacity error moves the loop to the
\* next region; any other one, or the last region, ends it.
RecordRejected(r) ==
    /\ call[r].pc = "reject"
    /\ WriteOpOrLose(r, "failed", 0)
    /\ \/ /\ call[r].i < Len(RegionsOf(call[r]))
          /\ call' = [call EXCEPT ![r].pc = "gate", ![r].i = call[r].i + 1]
       \/ Return(r, 0)
    /\ UNCHANGED <<latest, created, cloud, inflight, nextId, snap, rec>>

RecordUnclear(r) ==
    /\ call[r].pc = "unsure"
    /\ WriteOpOrLose(r, "unknown", 0)
    /\ Return(r, 0)
    /\ UNCHANGED <<latest, created, cloud, inflight, nextId, snap, rec>>

\* The egress address changed during the mutation.
EgressFailsAfter(r) ==
    /\ call[r].pc = "egress2"
    /\ WriteOpOrLose(r, "unknown", call[r].res)
    /\ Return(r, 0)
    /\ UNCHANGED <<latest, created, cloud, inflight, nextId, snap, rec>>

\* A last update that is returned to the caller: stored, or an error.
SaveVerifying(r) ==
    \/ /\ WriteOp(r, "verifying", call[r].res)
       /\ Return(r, call[r].res)
       /\ UNCHANGED faults
    \/ /\ faults < MaxFaults /\ faults' = faults + 1
       /\ Return(r, 0)
       /\ UNCHANGED ops

RecordCreated(r) ==
    /\ call[r].pc = "egress2"
    /\ SaveVerifying(r)
    /\ UNCHANGED <<latest, created, cloud, inflight, nextId, snap, rec>>

\* The droplets AdoptUnknownCreate accepts: live, tagged with the deployment,
\* in the region of the operation (any region when that is empty).
Matches(d, g) ==
    {x \in created : x.id \in cloud /\ x.dep = d /\ g \in {x.region, NoRegion}}

AdoptUnknownCreate(r) ==
    LET m == Matches(call[r].dep, RegionOf(call[r])) IN
    /\ call[r].pc = "adopt"
    /\ \/ \E x \in m :
            /\ m = {x}
            /\ call' = [call EXCEPT ![r].pc = "adoptsave", ![r].res = x.id]
       \/ Return(r, 0)      \* no match, several, or the list failed
    /\ UNCHANGED <<ops, latest, created, cloud, inflight, nextId, snap, rec, faults>>

RecordAdopted(r) ==
    /\ call[r].pc = "adoptsave"
    /\ SaveVerifying(r)
    /\ UNCHANGED <<latest, created, cloud, inflight, nextId, snap, rec>>

\* The process dies or the context is cancelled; a request that was being
\* sent may have left.
Abort(r) ==
    /\ call[r].pc # "idle"
    /\ faults < MaxFaults /\ faults' = faults + 1
    /\ call' = [call EXCEPT ![r] = IdleCall]
    /\ inflight' \in {inflight} \cup
          (IF call[r].pc = "call" /\ call[r].cfg # "empty"
           THEN {inflight \cup {Request(call[r])}} ELSE {})
    /\ UNCHANGED <<ops, latest, created, cloud, nextId, snap, rec>>

\* A fault that hits code outside this module; it only uses up the bound.
OtherFault ==
    /\ faults < MaxFaults /\ faults' = faults + 1
    /\ UNCHANGED <<ops, latest, created, cloud, inflight, nextId, snap, call, rec>>
-----------------------------------------------------------------------------
(* Recovery of operations and the provider snapshot it reads. *)
RefreshSnapshot ==
    /\ snap' = [ids |-> cloud, age |-> "fresh"]
    /\ UNCHANGED <<ops, latest, created, cloud, inflight, nextId, call, rec, faults>>

\* Two minutes pass.
SnapshotAges ==
    /\ snap.age = "fresh"
    /\ snap' = [snap EXCEPT !.age = "stale"]
    /\ UNCHANGED <<ops, latest, created, cloud, inflight, nextId, call, rec, faults>>

\* Mutant of RecoverRead: the early return on an empty resource id is missing.
RecoverReadAny(d, g) ==
    LET op == ops[d][g] IN
    /\ rec.pc = "idle"
    /\ op.state \in {"running", "verifying", "unknown"}
    /\ rec' = [pc |-> "write", dep |-> d, region |-> g,
               verdict |-> IF op.res \in cloud THEN "succeeded" ELSE "unknown"]
    /\ UNCHANGED <<ops, latest, created, cloud, inflight, nextId, snap, call, faults>>

\* RecoverOperation looks the resource up, in a fresh snapshot or else at the
\* provider.  An operation without a resource id is left alone.
RecoverRead(d, g) ==
    LET op == ops[d][g]
        exists == IF snap.age = "fresh" THEN op.res \in snap.ids ELSE op.res \in cloud
    IN
    /\ rec.pc = "idle"
    /\ op.state \in {"running", "verifying", "unknown"}
    /\ op.res # 0
    /\ rec' = [pc |-> "write", dep |-> d, region |-> g,
               verdict |-> IF exists THEN "succeeded" ELSE "unknown"]
    /\ UNCHANGED <<ops, latest, created, cloud, inflight, nextId, snap, call, faults>>

\* Mutant of RecoverWrite: an unknown verdict clears the resource id.
RecoverWriteForgets ==
    /\ rec.pc = "write"
    /\ rec' = IdleRec
    /\ ops' = [ops EXCEPT ![rec.dep][rec.region] =
                   [state |-> rec.verdict,
                    res |-> IF rec.verdict = "unknown" THEN 0 ELSE @.res]]
    /\ UNCHANGED <<latest, created, cloud, inflight, nextId, snap, call, faults>>

\* It stores the verdict, and only the verdict.
RecoverWrite ==
    /\ rec.pc = "write"
    /\ rec' = IdleRec
    /\ \/ /\ ops' = [ops EXCEPT ![rec.dep][rec.region] =
                         [state |-> rec.verdict, res |-> ops[rec.dep][rec.region].res]]
          /\ UNCHANGED faults
       \/ faults < MaxFaults /\ faults' = faults + 1 /\ UNCHANGED ops
    /\ UNCHANGED <<latest, created, cloud, inflight, nextId, snap, call>>

\* A droplet disappears: the lifecycle or somebody at the provider removed it.
Destroy(id) ==
    /\ id \in cloud
    /\ cloud' = cloud \ {id}
    /\ UNCHANGED <<ops, latest, created, inflight, nextId, snap, call, rec, faults>>
-----------------------------------------------------------------------------
\* The steps of runner r inside RuntimeSteps.Create.
CreateStep(r) ==
    \/ GateBlocked(r) \/ ReserveFresh(r) \/ ReserveExisting(r)
    \/ EgressFailsBefore(r) \/ MarkRunning(r)
    \/ CreateAccepted(r) \/ CreateRejected(r) \/ CreateUnclear(r)
    \/ RecordRejected(r) \/ RecordUnclear(r)
    \/ EgressFailsAfter(r) \/ RecordCreated(r)
    \/ AdoptUnknownCreate(r) \/ RecordAdopted(r)

\* The steps of the provider and of operation recovery.
LedgerEnvironment ==
    \/ \E q \in inflight : LateCreate(q) \/ LateDrop(q)
    \/ RefreshSnapshot \/ SnapshotAges
    \/ \E d \in Deployments, g \in AllRegions : RecoverRead(d, g)
    \/ RecoverWrite
    \/ \E id \in cloud : Destroy(id)
    \/ OtherFault

\* Standing alone, the ledger is called in any order by any runner.
AnyBegin(r) ==
    /\ \E d \in Deployments, cfg \in Configs : BeginCreate(r, d, cfg)
    /\ UNCHANGED <<ops, latest, created, cloud, inflight, nextId, snap, rec, faults>>
AnyEnd(r) ==
    /\ call[r].pc = "ret"
    /\ call' = [call EXCEPT ![r] = IdleCall]
    /\ UNCHANGED <<ops, latest, created, cloud, inflight, nextId, snap, rec, faults>>

LedgerNext ==
    \/ \E r \in Runners : AnyBegin(r) \/ CreateStep(r) \/ AnyEnd(r) \/ Abort(r)
    \/ LedgerEnvironment

LedgerSpec == LedgerInit /\ [][LedgerNext]_ledgerVars
-----------------------------------------------------------------------------
(***************************************************************************)
(* Properties.                                                             *)
(***************************************************************************)
\* However many runners execute RuntimeSteps.Create for a deployment, in
\* whatever order, and wherever they crash, DigitalOcean is never made to
\* create a second droplet for it.
OneDropletPerDeployment ==
    \A x, y \in created : x.dep = y.dep => x = y

\* The ledger is written ahead of the mutation: whatever exists or may still
\* come to exist at the provider has an operation row that is neither missing
\* nor still planned, and a row stored as failed really left nothing behind
\* (the comment of executor.go on a deterministic rejection).
LedgerCoversProvider ==
    \A x \in created \cup inflight :
        ops[x.dep][x.region].state \notin {"absent", "planned", "failed"}

\* Droplet p was made for deployment d, in the region of operation g.
IsFor(p, d, g) ==
    \E x \in created : x.id = p /\ x.dep = d /\ g \in {x.region, NoRegion}

\* A resource id in the ledger, also an adopted one, is a droplet that was
\* created for that very deployment and region.
ResourceIsOwn ==
    \A d \in Deployments, g \in AllRegions :
        ops[d][g].res # 0 => IsFor(ops[d][g].res, d, g)

\* Seen from outside: the provider ids made for each deployment, and those the
\* operations table names.
Made == [d \in Deployments |-> {x.id : x \in {y \in created : y.dep = d}}]
Known == [d \in Deployments |-> {ops[d][g].res : g \in AllRegions} \ {0}]
Once == INSTANCE CreateOnce WITH made <- Made, known <- Known

\* The create path implements CreateOnce: a deployment acquires at most one
\* droplet, its own, and the ledger never forgets one it has learnt of.
ImplementsCreateOnce == Once!Spec
-----------------------------------------------------------------------------
(***************************************************************************)
(* Why the ledger is safe: the inductive invariant.  The row of the first  *)
(* region of a snapshot is the lock of the deployment.  The runner whose   *)
(* INSERT made it leads the walk over the regions; nobody else ever sends  *)
(* a request for that deployment, because a row is never deleted.          *)
(***************************************************************************)
FirstRegion(d) == RegionList[d][1]
\* The pcs at which the runner holds a row it inserted.
OwnerPcs == {"egress1", "call", "reject", "unsure", "egress2"}
Leads(r) ==
    /\ call[r].cfg # "empty"
    /\ call[r].pc \in OwnerPcs \/ (call[r].pc = "gate" /\ call[r].i > 1)
Asked == created \cup inflight

\* The lead inserted the first row, and is alone.
LeadInv ==
    /\ \A r \in Runners : Leads(r) =>
          ops[call[r].dep][FirstRegion(call[r].dep)].state # "absent"
    /\ \A r, s \in Runners :
          Leads(r) /\ Leads(s) /\ call[r].dep = call[s].dep => r = s
\* Until the lead's request is out nothing was asked for, and what was asked
\* for was asked for behind the first row.
AskedInv ==
    /\ \A r \in Runners : Leads(r) /\ call[r].pc \notin {"unsure", "egress2"} =>
          \A x \in Asked : x.dep # call[r].dep
    /\ \A x \in Asked : ops[x.dep][FirstRegion(x.dep)].state # "absent"
    /\ \A x \in created, y \in inflight : x.dep # y.dep
    /\ \A x, y \in inflight : x.dep = y.dep => x = y
\* A row that was inserted and not yet given up has one owner and no resource.
OwnerInv ==
    /\ \A r \in Runners : call[r].pc \in OwnerPcs =>
          OpOf(call[r]) = [state |-> IF call[r].pc = "egress1" THEN "planned"
                                     ELSE "running",
                           res |-> 0]
    /\ \A r, s \in Runners :
          /\ call[r].pc \in OwnerPcs /\ call[s].pc \in OwnerPcs
          /\ call[r].dep = call[s].dep
          /\ RegionOf(call[r]) = RegionOf(call[s])
          => r = s
\* Adoption and recovery only touch rows that were given up.
SettledInv ==
    /\ \A r \in Runners : call[r].pc \in {"adopt", "adoptsave"} =>
          OpOf(call[r]).state \in {"unknown", "verifying", "succeeded"}
    /\ \A d \in Deployments, g \in AllRegions : ops[d][g].res # 0 =>
          ops[d][g].state \in {"unknown", "verifying", "succeeded"}
    /\ rec.pc = "write" => ops[rec.dep][rec.region].res # 0
\* What a call is about to record.
ResultInv ==
    \A r \in Runners :
        /\ call[r].i <= Len(RegionsOf(call[r]))
        /\ call[r].pc = "egress2" => call[r].cfg # "empty"
        /\ call[r].pc \in {"egress2", "adoptsave"} =>
              call[r].res # 0 /\ IsFor(call[r].res, call[r].dep, RegionOf(call[r]))
IdInv == \A x \in created : x.id # 0 /\ x.id < nextId

\* Together with the safety properties these facts are preserved by every step.
LedgerInv ==
    /\ TypeOK /\ OneDropletPerDeployment /\ LedgerCoversProvider /\ ResourceIsOwn
    /\ LeadInv /\ AskedInv /\ OwnerInv /\ SettledInv /\ ResultInv /\ IdInv
=============================================================================
