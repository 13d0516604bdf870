-------------------------- MODULE CreateOnceProofs --------------------------
(***************************************************************************)
(* DropletLedger implements CreateOnce, by proof.                          *)
(***************************************************************************)
EXTENDS DropletLedgerProofs

\* The two abstract variables, unfolded.
LEMMA MadeKnown ==
    ASSUME LedgerInv, NEW d \in Deployments
    PROVE  /\ \A p : p \in Made[d] <=> \E x \in created : x.id = p /\ x.dep = d
           /\ \A p, q \in Made[d] : p = q
           /\ \A p : p \in Known[d] <=> p # 0 /\ \E g \in AllRegions : ops[d][g].res = p
           /\ Known[d] \subseteq Made[d]
<1>1. \A p : p \in Made[d] <=> \E x \in created : x.id = p /\ x.dep = d
  BY DEF Made
<1>2. \A p, q \in Made[d] : p = q
  BY <1>1 DEF LedgerInv, OneDropletPerDeployment
<1>3. \A p : p \in Known[d] <=> p # 0 /\ \E g \in AllRegions : ops[d][g].res = p
  BY DEF Known
<1>4. Known[d] \subseteq Made[d]
  BY <1>1, <1>3 DEF LedgerInv, ResourceIsOwn, IsFor
<1> QED  BY <1>1, <1>2, <1>3, <1>4

\* A step that only adds a droplet for a deployment without one acquires it.
LEMMA AcquireStep ==
    ASSUME LedgerInv, NEW q, q.dep \in Deployments, MakeDroplet(q),
           \A x \in created : x.dep # q.dep, UNCHANGED ops
    PROVE  Once!Next
<1> DEFINE d == q.dep
           new == [id |-> nextId, dep |-> d, region |-> q.region, cfg |-> q.cfg]
<1>1. created' = created \cup {new} /\ new.id = nextId /\ new.dep = d
  BY DEF MakeDroplet
<1>2. nextId \in Nat \ {0} /\ \A x \in created : x.id # nextId
  BY DEF LedgerInv, TypeOK, IdInv, Droplet
<1> HIDE DEF new
<1>3. Made[d] = {}
  BY DEF Made
<1>4. \A e \in Deployments : nextId \notin Made[e]
  BY <1>2 DEF Made
<1>5. Made' = [Made EXCEPT ![d] = {nextId}]
  <2>1. \A e \in Deployments :
          {x.id : x \in {y \in created' : y.dep = e}} =
             IF e = d THEN {nextId} ELSE {x.id : x \in {y \in created : y.dep = e}}
    BY <1>1
  <2> QED  BY <2>1 DEF Made
<1>6. Made'[d] = {nextId}
  BY <1>5 DEF Made
<1>7. Known' = Known
  BY DEF Known
<1>8. Once!Acquire(d)
  BY <1>2, <1>3, <1>4, <1>5, <1>6, <1>7 DEF Once!Acquire
<1> QED  BY <1>8 DEF Once!Next

\* A step that writes the rows of one deployment and loses no resource id
\* learns of its droplet or shows nothing.
LEMMA LearnStep ==
    ASSUME LedgerInv, LedgerInv', UNCHANGED created, NEW d \in Deployments,
           \A e \in Deployments, g \in AllRegions : e # d => ops'[e][g] = ops[e][g],
           \A g \in AllRegions : ops[d][g].res # 0 => ops'[d][g].res # 0
    PROVE  Once!Next \/ UNCHANGED <<Made, Known>>
<1>1. Made' = Made
  BY DEF Made
<1>2. \A e \in Deployments : e # d => Known'[e] = Known[e]
  BY DEF Known
<1>3. /\ Known' \in [Deployments -> {Known'[e] : e \in Deployments}]
      /\ Known \in [Deployments -> {Known[e] : e \in Deployments}]
  BY DEF Known
<1>4. Known[d] \subseteq Made[d] /\ \A p, q \in Made[d] : p = q
  BY MadeKnown
<1>5. Known'[d] \subseteq Made[d]
  <2>1. \A p : p \in Known'[d] => p # 0 /\ \E g \in AllRegions : ops'[d][g].res = p
    BY DEF Known
  <2>2. \A g \in AllRegions : ops'[d][g].res # 0 =>
           \E x \in created : x.id = ops'[d][g].res /\ x.dep = d
    BY DEF LedgerInv, ResourceIsOwn, IsFor
  <2>3. \A p : (\E x \in created : x.id = p /\ x.dep = d) => p \in Made[d]
    BY DEF Made
  <2> QED  BY <2>1, <2>2, <2>3
<1>6. Known[d] # {} => Known'[d] # {}
  <2>1. \A g \in AllRegions : ops'[d][g].res # 0 => ops'[d][g].res \in Known'[d]
    BY DEF Known
  <2> QED  BY <2>1, MadeKnown
<1>7. CASE Known'[d] = Known[d]
  <2>1. Known' = Known
    BY <1>2, <1>3, <1>7
  <2> QED  BY <1>1, <2>1
<1>8. CASE Known'[d] # Known[d]
  <2>1. Known'[d] = Made[d] /\ Made[d] # {}
    BY <1>4, <1>5, <1>6, <1>8
  <2>2. Known' = [Known EXCEPT ![d] = Made[d]]
    BY <1>2, <1>3, <2>1
  <2>3. Once!Learn(d)
    BY <1>1, <2>1, <2>2 DEF Once!Learn
  <2> QED  BY <2>3 DEF Once!Next
<1> QED  BY <1>7, <1>8

\* A write of runner r's row that stores an id, or that an owner makes.
LEMMA WriteLearns ==
    ASSUME LedgerInv, LedgerInv', UNCHANGED created, NEW r \in Runners,
           NEW st, NEW p, p # 0 \/ OpOf(call[r]).res = 0,
           WriteOp(r, st, p) \/ UNCHANGED ops
    PROVE  Once!Next \/ UNCHANGED <<Made, Known>>
<1>1. call[r].dep \in Deployments /\ RegionOf(call[r]) \in AllRegions
  BY Places
<1>2. \A e \in Deployments, h \in AllRegions :
         \/ ops'[e][h] = ops[e][h]
         \/ /\ e = call[r].dep /\ h = RegionOf(call[r])
            /\ ops'[e][h] = [state |-> st, res |-> p]
  BY <1>1 DEF WriteOp, LedgerInv, TypeOK
<1>3. \A g \in AllRegions :
         ops[call[r].dep][g].res # 0 => ops'[call[r].dep][g].res # 0
  BY <1>1, <1>2 DEF OpOf
<1> QED  BY <1>1, <1>2, <1>3, LearnStep

\* A step of Executor.Create acquires a droplet, records one, or shows nothing.
LEMMA CreateStepRefines ==
    ASSUME LedgerInv, LedgerInv', NEW r \in Runners, CreateStep(r)
    PROVE  Once!Next \/ UNCHANGED <<Made, Known>>
<1>1. call[r].pc \in OwnerPcs => OpOf(call[r]).res = 0
  BY OwnerFacts DEF LedgerInv, OpOf
<1>2. call[r].pc \in {"egress2", "adoptsave"} => call[r].res # 0
  BY DEF LedgerInv, ResultInv
<1>3. CASE UNCHANGED <<ops, created>>
  BY <1>3 DEF Made, Known
<1>4. CASE ReserveFresh(r)
  <2>1. OpOf(call[r]).res = 0
    BY <1>4, Places DEF ReserveFresh, OpOf, LedgerInv, SettledInv
  <2> QED  BY <1>4, <2>1, WriteLearns DEF ReserveFresh
<1>5. CASE EgressFailsBefore(r)
  BY <1>1, <1>5, WriteLearns DEF EgressFailsBefore, WriteOpOrLose, OwnerPcs
<1>6. CASE MarkRunning(r)
  BY <1>1, <1>6, WriteLearns DEF MarkRunning, OwnerPcs
<1>7. CASE CreateAccepted(r)
  <2>1. Leads(r)
    BY <1>7 DEF CreateAccepted, Leads, OwnerPcs
  <2>2. \A x \in created : x.dep # call[r].dep
    BY <1>7, <2>1 DEF CreateAccepted, LedgerInv, AskedInv, Asked
  <2>3. Request(call[r]).dep = call[r].dep /\ call[r].dep \in Deployments
    BY Places DEF Request
  <2> QED  BY <1>7, <2>2, <2>3, AcquireStep DEF CreateAccepted
<1>8. CASE RecordRejected(r)
  BY <1>1, <1>8, WriteLearns DEF RecordRejected, WriteOpOrLose, OwnerPcs
<1>9. CASE RecordUnclear(r)
  BY <1>1, <1>9, WriteLearns DEF RecordUnclear, WriteOpOrLose, OwnerPcs
<1>10. CASE EgressFailsAfter(r)
  BY <1>2, <1>10, WriteLearns DEF EgressFailsAfter, WriteOpOrLose
<1>11. CASE RecordCreated(r)
  BY <1>2, <1>11, WriteLearns DEF RecordCreated, SaveVerifying
<1>12. CASE RecordAdopted(r)
  BY <1>2, <1>12, WriteLearns DEF RecordAdopted, SaveVerifying
<1>13. CASE GateBlocked(r) \/ ReserveExisting(r) \/ CreateRejected(r)
            \/ CreateUnclear(r) \/ AdoptUnknownCreate(r)
  BY <1>3, <1>13 DEF GateBlocked, ReserveExisting, CreateRejected, CreateUnclear,
                     AdoptUnknownCreate
<1> QED
  BY <1>4, <1>5, <1>6, <1>7, <1>8, <1>9, <1>10, <1>11, <1>12, <1>13 DEF CreateStep

\* So does a step of DigitalOcean or of RecoverOperation.
LEMMA EnvironmentRefines ==
    ASSUME LedgerInv, LedgerInv', LedgerEnvironment
    PROVE  Once!Next \/ UNCHANGED <<Made, Known>>
<1>1. CASE UNCHANGED <<ops, created>>
  BY <1>1 DEF Made, Known
<1>2. ASSUME NEW q \in inflight, LateCreate(q) PROVE Once!Next
  <2>1. q.dep \in Deployments /\ \A x \in created : x.dep # q.dep
    BY Places DEF LedgerInv, AskedInv
  <2> QED  BY <1>2, <2>1, AcquireStep DEF LateCreate
<1>3. CASE RecoverWrite
  <2>1. rec.dep \in Deployments /\ rec.region \in AllRegions
    BY DEF LedgerInv, TypeOK, RecRecord
  <2>2. \A e \in Deployments, h \in AllRegions :
           \/ ops'[e][h] = ops[e][h]
           \/ /\ e = rec.dep /\ h = rec.region
              /\ ops'[e][h].res = ops[e][h].res
    BY <1>3, <2>1 DEF RecoverWrite, LedgerInv, TypeOK
  <2>3. UNCHANGED created
    BY <1>3 DEF RecoverWrite
  <2> QED  BY <2>1, <2>2, <2>3, LearnStep
<1>4. ASSUME NEW q \in inflight, LateDrop(q) PROVE UNCHANGED <<ops, created>>
  BY <1>4 DEF LateDrop
<1>5. CASE \/ RefreshSnapshot \/ SnapshotAges \/ OtherFault
           \/ \E id \in cloud : Destroy(id)
           \/ \E d \in Deployments, g \in AllRegions : RecoverRead(d, g)
  BY <1>1, <1>5 DEF RefreshSnapshot, SnapshotAges, OtherFault, Destroy, RecoverRead
<1> QED  BY <1>1, <1>2, <1>3, <1>4, <1>5 DEF LedgerEnvironment

\* The create path of the bot implements CreateOnce.
THEOREM LedgerImplementsCreateOnce == LedgerSpec => ImplementsCreateOnce
<1>1. LedgerInit => Once!Init
  BY DEF LedgerInit, Once!Init, Made, Known
<1>2. LedgerInv /\ LedgerInv' /\ [LedgerNext]_ledgerVars =>
         [Once!Next]_(Once!vars)
  <2> SUFFICES ASSUME LedgerInv, LedgerInv', [LedgerNext]_ledgerVars
               PROVE  Once!Next \/ UNCHANGED <<Made, Known>>
    BY DEF Once!vars
  <2>1. CASE UNCHANGED <<ops, created>>
    BY <2>1 DEF Made, Known
  <2>2. ASSUME NEW r \in Runners, AnyBegin(r) \/ AnyEnd(r) \/ Abort(r)
        PROVE  UNCHANGED <<ops, created>>
    BY <2>2 DEF AnyBegin, AnyEnd, Abort
  <2>3. CASE UNCHANGED ledgerVars
    BY <2>1, <2>3 DEF ledgerVars
  <2> QED  BY <2>1, <2>2, <2>3, CreateStepRefines, EnvironmentRefines DEF LedgerNext
<1> QED  BY <1>1, <1>2, LedgerInvariant, PTL
            DEF LedgerSpec, ImplementsCreateOnce, Once!Spec
=============================================================================
