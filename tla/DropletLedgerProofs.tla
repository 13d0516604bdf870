------------------------ MODULE DropletLedgerProofs ------------------------
(***************************************************************************)
(* Proofs about DropletLedger, for any number of deployments, regions and  *)
(* runners and any bound on the faults.                                    *)
(***************************************************************************)
EXTENDS DropletLedger, TLAPS

\* The region a call works on depends on its deployment, configuration and
\* index only.
LEMMA RegionSame ==
    ASSUME NEW c, NEW e, c.dep = e.dep, c.cfg = e.cfg, c.i = e.i
    PROVE  RegionOf(c) = RegionOf(e) /\ RegionsOf(c) = RegionsOf(e)
BY DEF RegionOf, RegionsOf

\* A call's region is in the snapshot, or is the empty slug of an empty one.
LEMMA RegionType ==
    ASSUME TypeOK, ResultInv, NEW r \in Runners
    PROVE  /\ RegionOf(call[r]) \in AllRegions
           /\ call[r].cfg # "empty" => RegionOf(call[r]) \in Regions
           /\ call[r].cfg = "empty" => RegionOf(call[r]) = NoRegion
           /\ (call[r].cfg # "empty" /\ call[r].i = 1) =>
                 RegionOf(call[r]) = FirstRegion(call[r].dep)
<1>1. CASE call[r].cfg = "empty"
  <2>1. RegionsOf(call[r]) = <<NoRegion>>
    BY <1>1 DEF RegionsOf
  <2>2. call[r].i = 1
    <3>1. call[r].i <= Len(<<NoRegion>>)
      BY <2>1 DEF ResultInv
    <3>2. call[r].i \in Nat \ {0}
      BY DEF TypeOK, CallRecord
    <3> QED  BY <3>1, <3>2
  <2> QED  BY <1>1, <2>1, <2>2 DEF RegionOf, AllRegions
<1>2. CASE call[r].cfg # "empty"
  <2>1. RegionsOf(call[r]) = RegionList[call[r].dep]
    BY <1>2 DEF RegionsOf
  <2>2. RegionList[call[r].dep] \in Seq(Regions)
    BY RegionListAssumption DEF TypeOK, CallRecord
  <2>3. call[r].i \in 1..Len(RegionList[call[r].dep])
    BY <2>1, <2>2 DEF TypeOK, CallRecord, ResultInv
  <2> QED  BY <1>2, <2>1, <2>2, <2>3 DEF RegionOf, AllRegions, FirstRegion
<1> QED  BY <1>1, <1>2

\* The row a walk starts with is in the table and is not the empty slug's.
LEMMA FirstRegionType ==
    ASSUME NEW d \in Deployments
    PROVE  FirstRegion(d) \in Regions /\ Len(RegionList[d]) \in Nat \ {0}
<1>1. RegionList[d] \in Seq(Regions) /\ RegionList[d] # <<>>
  BY RegionListAssumption
<1> QED  BY <1>1 DEF FirstRegion

\* An empty operations table satisfies the invariant.
LEMMA InitInv == LedgerInit => LedgerInv
<1> SUFFICES ASSUME LedgerInit PROVE LedgerInv
  OBVIOUS
<1> USE DEF LedgerInit
<1>1. (CHOOSE d \in Deployments : TRUE) \in Deployments
  BY DeploymentsAssumption
<1>2. TypeOK
  BY <1>1 DEF TypeOK, AllRegions, Op, OpStates, Configs, CallPcs, CallRecord, RecRecord,
                IdleCall, IdleRec, Droplet
<1>3. OneDropletPerDeployment /\ LedgerCoversProvider /\ ResourceIsOwn
  BY DEF OneDropletPerDeployment, LedgerCoversProvider, ResourceIsOwn
<1>4. LeadInv /\ AskedInv /\ OwnerInv /\ SettledInv /\ IdInv
  BY DEF LeadInv, Leads, OwnerPcs, AskedInv, Asked, OwnerInv, SettledInv, IdInv, IdleCall, IdleRec
<1>5. ResultInv
  BY DEF ResultInv, RegionsOf, IdleCall
<1> QED  BY <1>2, <1>3, <1>4, <1>5 DEF LedgerInv
-----------------------------------------------------------------------------
(***************************************************************************)
(* What the actions do to the invariant, by kind of effect.                *)
(***************************************************************************)
\* A runner stops walking, or starts at its first region, and the database and
\* the provider are as they were.
LEMMA StopInv ==
    ASSUME LedgerInv, TypeOK', NEW r \in Runners,
           \A s \in Runners : s # r => call'[s] = call[s],
           call'[r].pc \in {"idle", "gate", "ret"},
           call'[r].pc = "gate" => call'[r].i = 1,
           call'[r].i <= Len(RegionsOf(call'[r])),
           UNCHANGED <<ops, created, inflight, nextId, rec>>
    PROVE  LedgerInv'
<1> USE DEF LedgerInv
<1>1. \A s \in Runners : s # r => RegionOf(call'[s]) = RegionOf(call[s])
  OBVIOUS
<1>2. OneDropletPerDeployment' /\ LedgerCoversProvider' /\ ResourceIsOwn' /\ IdInv'
  BY DEF OneDropletPerDeployment, LedgerCoversProvider, ResourceIsOwn, IdInv, IsFor
<1>3. ~Leads(r)' /\ \A s \in Runners : s # r => (Leads(s)' <=> Leads(s))
  BY DEF Leads, OwnerPcs, TypeOK
<1>4. LeadInv'
  BY <1>3 DEF LeadInv
<1>5. AskedInv'
  BY <1>3 DEF AskedInv, Asked
<1>6. OwnerInv'
  BY <1>1 DEF OwnerInv, OwnerPcs, OpOf
<1>7. SettledInv'
  BY <1>1 DEF SettledInv, OpOf
<1>8. ResultInv'
  BY <1>1 DEF ResultInv, IsFor
<1> QED  BY <1>2, <1>4, <1>5, <1>6, <1>7, <1>8

\* What OwnerInv says of the row of an owner.
LEMMA OwnerFacts ==
    ASSUME OwnerInv, NEW r \in Runners, call[r].pc \in OwnerPcs
    PROVE  /\ ops[call[r].dep][RegionOf(call[r])].state \in {"planned", "running"}
           /\ ops[call[r].dep][RegionOf(call[r])].res = 0
           /\ call[r].pc # "egress1" =>
                 ops[call[r].dep][RegionOf(call[r])].state = "running"
<1> DEFINE st == IF call[r].pc = "egress1" THEN "planned" ELSE "running"
<1>1. ops[call[r].dep][RegionOf(call[r])] = [state |-> st, res |-> 0]
  BY DEF OwnerInv, OpOf
<1>2. st \in {"planned", "running"} /\ (call[r].pc # "egress1" => st = "running")
  OBVIOUS
<1> HIDE DEF st
<1> QED  BY <1>1, <1>2

\* A runner that owns its row, or adopts, stores its last word on it and
\* stops walking.
LEMMA SettleInv ==
    ASSUME LedgerInv, TypeOK', NEW r \in Runners, NEW st, NEW p,
           call[r].pc \in OwnerPcs \cup {"adoptsave"},
           st \in {"unknown", "verifying"},
           p = 0 => call[r].pc # "adoptsave",
           p # 0 => IsFor(p, call[r].dep, RegionOf(call[r])),
           WriteOp(r, st, p),
           \A s \in Runners : s # r => call'[s] = call[s],
           call'[r].pc = "ret",
           call'[r].i <= Len(RegionsOf(call'[r])),
           UNCHANGED <<created, inflight, nextId, rec>>
    PROVE  LedgerInv'
<1> DEFINE d == call[r].dep
           g == RegionOf(call[r])
<1> USE DEF LedgerInv
<1>1. d \in Deployments /\ g \in AllRegions
  BY RegionType DEF TypeOK, CallRecord
<1>2. /\ \A e \in Deployments, h \in AllRegions :
            ops'[e][h] = IF e = d /\ h = g THEN [state |-> st, res |-> p] ELSE ops[e][h]
      /\ ops'[d][g] = [state |-> st, res |-> p]
  BY <1>1 DEF WriteOp, TypeOK
<1>3. \A s \in Runners : s # r => RegionOf(call'[s]) = RegionOf(call[s])
  OBVIOUS
<1>4. \A s \in Runners : call[s].dep \in Deployments /\ RegionOf(call[s]) \in AllRegions
  BY RegionType DEF TypeOK, CallRecord
<1>5. \A e \in Deployments : FirstRegion(e) \in AllRegions
  BY FirstRegionType DEF AllRegions
<1>6. \A x \in created \cup inflight : x.dep \in Deployments /\ x.region \in AllRegions
  BY DEF TypeOK, Droplet, RequestFor, AllRegions
<1> HIDE DEF d, g
<1>7. OneDropletPerDeployment' /\ IdInv'
  BY DEF OneDropletPerDeployment, IdInv
<1>8. LedgerCoversProvider'
  BY <1>2, <1>6 DEF LedgerCoversProvider
<1>9. ResourceIsOwn'
  BY <1>2 DEF ResourceIsOwn, IsFor, d, g
<1>10. ~Leads(r)' /\ \A s \in Runners : s # r => (Leads(s)' <=> Leads(s))
  BY DEF Leads, OwnerPcs, TypeOK
<1>11. LeadInv'
  BY <1>2, <1>4, <1>5, <1>10 DEF LeadInv
<1>12. AskedInv'
  BY <1>2, <1>5, <1>6, <1>10 DEF AskedInv, Asked
<1>13. \A s \in Runners : s # r /\ call[s].pc \in OwnerPcs =>
          ~(call[s].dep = d /\ RegionOf(call[s]) = g)
  <2> SUFFICES ASSUME NEW s \in Runners, s # r, call[s].pc \in OwnerPcs,
                      call[s].dep = d, RegionOf(call[s]) = g
               PROVE  FALSE
    OBVIOUS
  <2>1. call[r].pc = "adoptsave"
    BY DEF OwnerInv, d, g
  <2>2. ops[d][g].state \in {"unknown", "verifying", "succeeded"}
    BY <2>1 DEF SettledInv, OpOf, d, g
  <2>3. ops[d][g].state \in {"planned", "running"}
    BY OwnerFacts
  <2> QED  BY <2>2, <2>3
<1>14. OwnerInv'
  BY <1>2, <1>3, <1>4, <1>13 DEF OwnerInv, OwnerPcs, OpOf
<1>15. SettledInv'
  <2>1. \A s \in Runners : call'[s].pc \in {"adopt", "adoptsave"} =>
          (OpOf(call[s]).state \in {"unknown", "verifying", "succeeded"})'
    BY <1>2, <1>3, <1>4 DEF SettledInv, OpOf
  <2>2. \A e \in Deployments, h \in AllRegions : ops'[e][h].res # 0 =>
          ops'[e][h].state \in {"unknown", "verifying", "succeeded"}
    BY <1>2 DEF SettledInv
  <2>3. (rec.pc = "write" => ops[rec.dep][rec.region].res # 0)'
    <3>1. p = 0 => ops[d][g].res = 0
      BY OwnerFacts DEF d, g
    <3>2. rec.dep \in Deployments /\ rec.region \in AllRegions
      BY DEF TypeOK, RecRecord
    <3> QED  BY <1>2, <3>1, <3>2 DEF SettledInv
  <2> QED  BY <2>1, <2>2, <2>3 DEF SettledInv
<1>16. ResultInv'
  BY <1>3 DEF ResultInv, IsFor
<1> QED  BY <1>7, <1>8, <1>9, <1>11, <1>12, <1>14, <1>15, <1>16

\* Time, snapshots and deletions do not touch the invariant.
LEMMA QuietInv ==
    ASSUME LedgerInv, TypeOK', UNCHANGED <<ops, created, inflight, nextId, call, rec>>
    PROVE  LedgerInv'
BY DEF LedgerInv, OneDropletPerDeployment, LedgerCoversProvider, ResourceIsOwn, IsFor,
       LeadInv, Leads, AskedInv, Asked, OwnerInv, OpOf, SettledInv, ResultInv, IdInv
-----------------------------------------------------------------------------
(***************************************************************************)
(* Types.                                                                  *)
(***************************************************************************)
\* The idle records are of the types of call and rec.
LEMMA IdleTypes ==
    /\ IdleCall.dep \in Deployments /\ IdleRec.dep \in Deployments
    /\ IdleCall \in CallRecord /\ IdleRec \in RecRecord
BY DeploymentsAssumption
   DEF IdleCall, IdleRec, CallRecord, RecRecord, CallPcs, Configs, AllRegions

\* The three fields a call updates.
LEMMA CallUpdate ==
    ASSUME NEW f \in [Runners -> CallRecord], NEW r \in Runners
    PROVE  /\ \A pc \in CallPcs : [f EXCEPT ![r].pc = pc] \in [Runners -> CallRecord]
           /\ \A p \in Nat : [f EXCEPT ![r].res = p] \in [Runners -> CallRecord]
           /\ \A i \in Nat \ {0} : [f EXCEPT ![r].i = i] \in [Runners -> CallRecord]
BY DEF CallRecord

\* Every step of a runner inside RuntimeSteps.Create keeps the types.
LEMMA CreateStepType ==
    ASSUME LedgerInv, NEW r \in Runners, CreateStep(r)
    PROVE  TypeOK'
<1> USE DEF LedgerInv
<1>1. /\ call[r].dep \in Deployments
      /\ RegionOf(call[r]) \in AllRegions
      /\ call[r].cfg # "empty" => RegionOf(call[r]) \in Regions
      /\ call[r].res \in Nat /\ call[r].i \in Nat \ {0}
  BY RegionType DEF TypeOK, CallRecord
<1>2. \A st \in OpStates, p \in Nat : WriteOp(r, st, p) =>
        ops' \in [Deployments -> [AllRegions -> Op]]
  BY <1>1 DEF WriteOp, TypeOK, Op
<1>3. \A st \in OpStates, p \in Nat : WriteOpOrLose(r, st, p) =>
        ops' \in [Deployments -> [AllRegions -> Op]] /\ faults' \in Nat
  BY <1>2 DEF WriteOpOrLose, TypeOK
<1>4. \A p \in Nat : Return(r, p) =>
        call' \in [Runners -> CallRecord]
  <2> SUFFICES ASSUME NEW p \in Nat
               PROVE  [call EXCEPT ![r].pc = "ret", ![r].res = p]
                         \in [Runners -> CallRecord]
    BY DEF Return
  <2>1. [call EXCEPT ![r].pc = "ret"] \in [Runners -> CallRecord]
    BY CallUpdate DEF TypeOK, CallPcs
  <2> QED  BY <2>1, CallUpdate
<1>5. \A pc \in CallPcs : Goto(r, pc) =>
        call' \in [Runners -> CallRecord]
  BY CallUpdate DEF Goto, TypeOK
<1>6. {"planned", "running", "verifying", "failed", "unknown"} \subseteq OpStates
  BY DEF OpStates
<1>7. {"egress1", "call", "reject", "unsure", "adopt"} \subseteq CallPcs
  BY DEF CallPcs
<1>8. SaveVerifying(r) =>
        /\ ops' \in [Deployments -> [AllRegions -> Op]]
        /\ call' \in [Runners -> CallRecord]
        /\ faults' \in Nat
  BY <1>1, <1>2, <1>4, <1>6 DEF SaveVerifying, TypeOK
<1>9. CASE GateBlocked(r)
  BY <1>4, <1>9 DEF GateBlocked, TypeOK
<1>10. CASE ReserveFresh(r)
  BY <1>1, <1>2, <1>5, <1>6, <1>7, <1>10 DEF ReserveFresh, TypeOK
<1>11. CASE ReserveExisting(r)
  <2>1. OpOf(call[r]).res \in Nat
    BY <1>1 DEF OpOf, TypeOK, Op
  <2> QED  BY <1>4, <1>5, <1>7, <1>11, <2>1 DEF ReserveExisting, TypeOK
<1>12. CASE EgressFailsBefore(r)
  BY <1>3, <1>4, <1>6, <1>12 DEF EgressFailsBefore, TypeOK
<1>13. CASE MarkRunning(r)
  BY <1>2, <1>4, <1>5, <1>6, <1>7, <1>13 DEF MarkRunning, TypeOK
<1>14. CASE CreateAccepted(r)
  <2>1. call[r].cfg \in Configs
    BY DEF TypeOK, CallRecord
  <2>2. [call EXCEPT ![r].pc = "egress2"] \in [Runners -> CallRecord]
    BY CallUpdate DEF TypeOK, CallPcs
  <2>3. nextId \in Nat \ {0}
    BY DEF TypeOK
  <2>4. call' \in [Runners -> CallRecord]
    BY <1>14, <2>2, <2>3, CallUpdate DEF CreateAccepted
  <2>5. created' \in SUBSET Droplet /\ cloud' \in SUBSET Nat /\ nextId' \in Nat \ {0}
    BY <1>1, <1>14, <2>1, <2>3
       DEF CreateAccepted, MakeDroplet, Request, TypeOK, Droplet
  <2> QED  BY <1>14, <2>4, <2>5 DEF CreateAccepted, TypeOK
<1>15. CASE CreateRejected(r)
  BY <1>5, <1>7, <1>15 DEF CreateRejected, TypeOK
<1>16. CASE CreateUnclear(r)
  BY <1>1, <1>5, <1>7, <1>16 DEF CreateUnclear, Request, TypeOK, RequestFor, CallRecord
<1>17. CASE RecordRejected(r)
  <2>1. CASE Return(r, 0)
    BY <1>3, <1>4, <1>6, <1>17, <2>1 DEF RecordRejected, TypeOK
  <2>2. CASE call' = [call EXCEPT ![r].pc = "gate", ![r].i = call[r].i + 1]
    <3>1. [call EXCEPT ![r].pc = "gate"] \in [Runners -> CallRecord]
      BY CallUpdate DEF TypeOK, CallPcs
    <3>2. call[r].i + 1 \in Nat \ {0}
      BY <1>1
    <3>3. call' \in [Runners -> CallRecord]
      BY <2>2, <3>1, <3>2, CallUpdate
    <3> QED  BY <1>3, <1>6, <1>17, <3>3 DEF RecordRejected, TypeOK
  <2> QED  BY <1>17, <2>1, <2>2 DEF RecordRejected
<1>18. CASE RecordUnclear(r)
  BY <1>3, <1>4, <1>6, <1>18 DEF RecordUnclear, TypeOK
<1>19. CASE EgressFailsAfter(r)
  BY <1>1, <1>3, <1>4, <1>6, <1>19 DEF EgressFailsAfter, TypeOK
<1>20. CASE RecordCreated(r)
  BY <1>8, <1>20 DEF RecordCreated, TypeOK
<1>21. CASE AdoptUnknownCreate(r)
  <2>1. [call EXCEPT ![r].pc = "adoptsave"] \in [Runners -> CallRecord]
    BY CallUpdate DEF TypeOK, CallPcs
  <2>2. \A x \in created : x.id \in Nat
    BY DEF TypeOK, Droplet
  <2>3. call' \in [Runners -> CallRecord]
    BY <1>4, <1>21, <2>1, <2>2, CallUpdate DEF AdoptUnknownCreate, Matches
  <2> QED  BY <1>21, <2>3 DEF AdoptUnknownCreate, TypeOK
<1>22. CASE RecordAdopted(r)
  BY <1>8, <1>22 DEF RecordAdopted, TypeOK
<1> QED
  BY <1>9, <1>10, <1>11, <1>12, <1>13, <1>14, <1>15, <1>16, <1>17, <1>18,
     <1>19, <1>20, <1>21, <1>22 DEF CreateStep

\* So does every other step.
LEMMA OtherStepType ==
    /\ \A r \in Runners :
          LedgerInv /\ (AnyBegin(r) \/ AnyEnd(r) \/ Abort(r)) => TypeOK'
    /\ LedgerInv /\ LedgerEnvironment => TypeOK'
<1> USE DEF LedgerInv
<1>1. ASSUME LedgerInv, NEW r \in Runners, AnyBegin(r) PROVE TypeOK'
  <2>1. PICK d \in Deployments, cfg \in Configs : BeginCreate(r, d, cfg)
    BY <1>1 DEF AnyBegin
  <2>2. [IdleCall EXCEPT !.pc = "gate", !.dep = d, !.cfg = cfg] \in CallRecord
    BY IdleTypes DEF CallRecord, CallPcs
  <2>3. call' \in [Runners -> CallRecord]
    BY <1>1, <2>1, <2>2 DEF BeginCreate, TypeOK
  <2> QED  BY <1>1, <2>3 DEF AnyBegin, TypeOK
<1>2. ASSUME LedgerInv, NEW r \in Runners, AnyEnd(r) PROVE TypeOK'
  BY <1>2, IdleTypes DEF AnyEnd, TypeOK
<1>3. ASSUME LedgerInv, NEW r \in Runners, Abort(r) PROVE TypeOK'
  BY <1>3, IdleTypes, RegionType DEF Abort, Request, TypeOK, RequestFor, CallRecord
<1>4. ASSUME LedgerInv, LedgerEnvironment PROVE TypeOK'
  <2>1. ASSUME NEW q \in inflight, LateCreate(q) \/ LateDrop(q) PROVE TypeOK'
    <3>1. q \in RequestFor /\ nextId \in Nat \ {0}
      BY <1>4 DEF TypeOK
    <3>2. [id |-> nextId, dep |-> q.dep, region |-> q.region, cfg |-> q.cfg] \in Droplet
      BY <3>1 DEF RequestFor, Droplet
    <3>3. CASE LateCreate(q)
      <4>1. /\ created' \in SUBSET Droplet /\ cloud' \in SUBSET Nat
            /\ nextId' \in Nat \ {0} /\ inflight' \in SUBSET RequestFor
        BY <1>4, <3>1, <3>2, <3>3 DEF LateCreate, MakeDroplet, TypeOK
      <4> QED  BY <1>4, <3>3, <4>1 DEF LateCreate, TypeOK
    <3>4. CASE LateDrop(q)
      BY <1>4, <3>4 DEF LateDrop, TypeOK
    <3> QED  BY <2>1, <3>3, <3>4
  <2>2. CASE RefreshSnapshot \/ SnapshotAges
    BY <1>4, <2>2 DEF RefreshSnapshot, SnapshotAges, TypeOK
  <2>3. ASSUME NEW d \in Deployments, NEW g \in AllRegions, RecoverRead(d, g)
        PROVE  TypeOK'
    BY <1>4, <2>3 DEF RecoverRead, TypeOK, RecRecord
  <2>4. CASE RecoverWrite
    <3>1. rec.verdict \in OpStates /\ rec.dep \in Deployments
      BY <1>4 DEF TypeOK, RecRecord, OpStates
    <3>2. rec.region \in AllRegions /\ ops[rec.dep][rec.region].res \in Nat
      BY <1>4, <3>1 DEF TypeOK, RecRecord, Op
    <3>3. ops' \in [Deployments -> [AllRegions -> Op]] /\ faults' \in Nat
      <4>1. [state |-> rec.verdict, res |-> ops[rec.dep][rec.region].res] \in Op
        BY <3>1, <3>2 DEF Op
      <4>2. ops \in [Deployments -> [AllRegions -> Op]] /\ faults \in Nat
        BY <1>4 DEF TypeOK
      <4>3. faults' \in Nat
        BY <2>4, <4>2 DEF RecoverWrite
      <4> QED  BY <2>4, <3>1, <3>2, <4>1, <4>2, <4>3 DEF RecoverWrite
    <3>4. rec' \in RecRecord
      BY <2>4, IdleTypes DEF RecoverWrite
    <3> QED  BY <1>4, <2>4, <3>3, <3>4 DEF RecoverWrite, TypeOK
  <2>5. CASE \E id \in cloud : Destroy(id)
    BY <1>4, <2>5 DEF Destroy, TypeOK
  <2>6. CASE OtherFault
    BY <1>4, <2>6 DEF OtherFault, TypeOK
  <2> QED  BY <1>4, <2>1, <2>2, <2>3, <2>4, <2>5, <2>6 DEF LedgerEnvironment
<1> QED  BY <1>1, <1>2, <1>3, <1>4
-----------------------------------------------------------------------------
(***************************************************************************)
(* The steps that change who leads, who owns or what was asked for.        *)
(***************************************************************************)
\* Facts about every call, row and request, for the provers.
LEMMA Places ==
    ASSUME LedgerInv
    PROVE  /\ \A s \in Runners : /\ call[s].dep \in Deployments
                                 /\ RegionOf(call[s]) \in AllRegions
                                 /\ call[s].i \in Nat \ {0}
           /\ \A s \in Runners : call[s].cfg # "empty" => RegionOf(call[s]) \in Regions
           /\ \A s \in Runners : call[s].cfg = "empty" => RegionOf(call[s]) = NoRegion
           /\ \A s \in Runners : (call[s].cfg # "empty" /\ call[s].i = 1) =>
                 RegionOf(call[s]) = FirstRegion(call[s].dep)
           /\ \A e \in Deployments : FirstRegion(e) \in Regions
           /\ \A x \in created \cup inflight : x.dep \in Deployments /\ x.region \in Regions
           /\ Regions \subseteq AllRegions /\ NoRegion \notin Regions
<1> USE DEF LedgerInv
<1>1. \A s \in Runners : call[s].dep \in Deployments /\ call[s].i \in Nat \ {0}
  BY DEF TypeOK, CallRecord
<1>2. \A e \in Deployments : FirstRegion(e) \in Regions
  BY FirstRegionType
<1>3. \A x \in created \cup inflight : x.dep \in Deployments /\ x.region \in Regions
  BY DEF TypeOK, Droplet, RequestFor
<1>4. Regions \subseteq AllRegions /\ NoRegion \notin Regions
  BY NoRegionAssumption DEF AllRegions
<1> QED  BY <1>1, <1>2, <1>3, <1>4, RegionType

\* A move of one pc.
LEMMA GotoFrame ==
    ASSUME TypeOK, NEW r \in Runners, NEW pc, Goto(r, pc)
    PROVE  /\ \A s \in Runners : s # r => call'[s] = call[s]
           /\ call'[r].pc = pc
           /\ \A s \in Runners : /\ call'[s].dep = call[s].dep
                                 /\ call'[s].cfg = call[s].cfg
                                 /\ call'[s].i = call[s].i
                                 /\ call'[s].res = call[s].res
                                 /\ RegionOf(call'[s]) = RegionOf(call[s])
                                 /\ RegionsOf(call'[s]) = RegionsOf(call[s])
<1>1. /\ \A s \in Runners : s # r => call'[s] = call[s]
      /\ call'[r].pc = pc
      /\ call'[r].dep = call[r].dep /\ call'[r].cfg = call[r].cfg
      /\ call'[r].i = call[r].i /\ call'[r].res = call[r].res
  BY DEF Goto, TypeOK, CallRecord
<1> QED  BY <1>1, RegionSame

\* The INSERT: only the first region's row makes a new lead, and it was absent.
LEMMA ReserveFreshInv ==
    ASSUME LedgerInv, TypeOK', NEW r \in Runners, ReserveFresh(r)
    PROVE  LedgerInv'
<1> DEFINE d == call[r].dep
           g == RegionOf(call[r])
<1> USE DEF LedgerInv
<1>1. d \in Deployments /\ g \in AllRegions
  BY Places
<1>2. /\ \A e \in Deployments, h \in AllRegions :
            ops'[e][h] = IF e = d /\ h = g THEN [state |-> "planned", res |-> 0]
                         ELSE ops[e][h]
      /\ ops'[d][g] = [state |-> "planned", res |-> 0]
  BY <1>1 DEF ReserveFresh, WriteOp, TypeOK
<1>3. ops[d][g].state = "absent"
  BY DEF ReserveFresh, OpOf
<1>4. /\ \A s \in Runners : s # r => call'[s] = call[s]
      /\ call[r].pc = "gate" /\ call'[r].pc = "egress1"
      /\ \A s \in Runners : /\ call'[s].dep = call[s].dep
                            /\ call'[s].cfg = call[s].cfg
                            /\ call'[s].i = call[s].i
                            /\ call'[s].res = call[s].res
                            /\ RegionOf(call'[s]) = RegionOf(call[s])
                            /\ RegionsOf(call'[s]) = RegionsOf(call[s])
  BY GotoFrame DEF ReserveFresh
<1>5. UNCHANGED <<created, inflight, nextId, rec>>
  BY DEF ReserveFresh
<1>6. \A s \in Runners : s # r => (Leads(s)' <=> Leads(s))
  BY <1>4 DEF Leads, OwnerPcs
\* A runner with a snapshot is already the lead, or finds the first row absent.
<1>7. call[r].cfg # "empty" =>
         /\ \A s \in Runners : s # r /\ Leads(s) => call[s].dep # d
         /\ \A x \in Asked : x.dep # d
  <2>1. CASE call[r].cfg # "empty" /\ call[r].i = 1
    BY <1>3, <2>1, Places DEF LeadInv, AskedInv
  <2>2. CASE call[r].cfg # "empty" /\ call[r].i # 1
    <3>1. call[r].i > 1
      BY <2>2, Places
    <3>2. Leads(r)
      BY <1>4, <2>2, <3>1 DEF Leads
    <3> QED  BY <1>4, <3>2 DEF LeadInv, AskedInv
  <2> QED  BY <2>1, <2>2
<1> HIDE DEF d, g
<1>8. OneDropletPerDeployment' /\ IdInv'
  BY <1>5 DEF OneDropletPerDeployment, IdInv
<1>9. LedgerCoversProvider'
  BY <1>2, <1>3, <1>5, Places DEF LedgerCoversProvider
<1>10. ResourceIsOwn'
  BY <1>2, <1>5 DEF ResourceIsOwn, IsFor
<1>11. LeadInv'
  <2>1. \A s \in Runners : Leads(s)' =>
          ops'[call'[s].dep][FirstRegion(call'[s].dep)].state # "absent"
    <3>1. CASE call[r].cfg # "empty" /\ call[r].i = 1
      BY <1>2, <1>4, <1>6, <3>1, Places DEF LeadInv, d, g
    <3>2. CASE call[r].cfg = "empty"
      BY <1>2, <1>4, <1>6, <3>2, Places DEF LeadInv, Leads
    <3>3. CASE call[r].cfg # "empty" /\ call[r].i # 1
      <4>1. Leads(r)
        BY <1>4, <3>3, Places DEF Leads
      <4> QED  BY <1>2, <1>4, <1>6, <4>1, Places DEF LeadInv
    <3> QED  BY <3>1, <3>2, <3>3
  <2>2. \A s, t \in Runners : Leads(s)' /\ Leads(t)' /\ call'[s].dep = call'[t].dep => s = t
    BY <1>4, <1>6, <1>7 DEF LeadInv, Leads, d
  <2> QED  BY <2>1, <2>2 DEF LeadInv
<1>12. AskedInv'
  BY <1>2, <1>4, <1>5, <1>6, <1>7, Places DEF AskedInv, Asked, Leads, d
<1>13. \A s \in Runners : call[s].pc \in OwnerPcs \cup {"adopt", "adoptsave"} =>
          ~(call[s].dep = d /\ RegionOf(call[s]) = g)
  BY <1>3, OwnerFacts DEF SettledInv, OpOf
<1>14. OwnerInv'
  BY <1>2, <1>4, <1>13, Places, SMTT(60) DEF OwnerInv, OwnerPcs, OpOf, d, g
<1>15. SettledInv'
  <2>1. \A s \in Runners : call'[s].pc \in {"adopt", "adoptsave"} =>
          OpOf(call[s])'.state \in {"unknown", "verifying", "succeeded"}
    BY <1>2, <1>4, <1>13, Places DEF SettledInv, OpOf
  <2>2. \A e \in Deployments, h \in AllRegions : ops'[e][h].res # 0 =>
          ops'[e][h].state \in {"unknown", "verifying", "succeeded"}
    BY <1>2 DEF SettledInv
  <2>3. rec'.pc = "write" => ops'[rec'.dep][rec'.region].res # 0
    <3>1. rec.dep \in Deployments /\ rec.region \in AllRegions
      BY DEF TypeOK, RecRecord
    <3> QED  BY <1>2, <1>3, <1>5, <3>1 DEF SettledInv
  <2> QED  BY <2>1, <2>2, <2>3 DEF SettledInv
<1>16. ResultInv'
  BY <1>4, <1>5 DEF ResultInv, IsFor
<1> QED  BY <1>8, <1>9, <1>10, <1>11, <1>12, <1>14, <1>15, <1>16

\* MarkRunning moves the owner's row and the owner together.
LEMMA MarkRunningInv ==
    ASSUME LedgerInv, TypeOK', NEW r \in Runners, call[r].pc = "egress1",
           WriteOp(r, "running", 0), Goto(r, "call"),
           UNCHANGED <<created, inflight, nextId, rec>>
    PROVE  LedgerInv'
<1> DEFINE d == call[r].dep
           g == RegionOf(call[r])
<1> USE DEF LedgerInv
<1>1. d \in Deployments /\ g \in AllRegions
  BY Places
<1>2. /\ \A e \in Deployments, h \in AllRegions :
            ops'[e][h] = IF e = d /\ h = g THEN [state |-> "running", res |-> 0]
                         ELSE ops[e][h]
      /\ ops'[d][g] = [state |-> "running", res |-> 0]
  BY <1>1 DEF WriteOp, TypeOK
<1>3. ops[d][g].state \in {"planned", "running"} /\ ops[d][g].res = 0
  BY OwnerFacts DEF OwnerPcs
<1>4. /\ \A s \in Runners : s # r => call'[s] = call[s]
      /\ \A s \in Runners : /\ call'[s].dep = call[s].dep
                            /\ call'[s].cfg = call[s].cfg
                            /\ call'[s].i = call[s].i
                            /\ RegionOf(call'[s]) = RegionOf(call[s])
                            /\ RegionsOf(call'[s]) = RegionsOf(call[s])
      /\ call'[r].pc = "call"
      /\ \A s \in Runners : call'[s].res = call[s].res
  BY GotoFrame
<1>5. \A s \in Runners : (Leads(s)' <=> Leads(s))
  BY <1>4 DEF Leads, OwnerPcs
<1> HIDE DEF d, g
<1>6. OneDropletPerDeployment' /\ IdInv'
  BY DEF OneDropletPerDeployment, IdInv
<1>7. LedgerCoversProvider' /\ ResourceIsOwn'
  BY <1>2, Places DEF LedgerCoversProvider, ResourceIsOwn, IsFor
<1>8. LeadInv'
  BY <1>2, <1>4, <1>5, Places DEF LeadInv
<1>9. AskedInv'
  BY <1>2, <1>4, <1>5, Places DEF AskedInv, Asked
<1>10. \A s \in Runners : s # r /\ call[s].pc \in OwnerPcs \cup {"adopt", "adoptsave"} =>
          ~(call[s].dep = d /\ RegionOf(call[s]) = g)
  BY <1>3 DEF OwnerInv, OwnerPcs, SettledInv, OpOf, d, g
<1>11. OwnerInv'
  BY <1>2, <1>4, <1>10, Places, SMTT(60) DEF OwnerInv, OwnerPcs, OpOf, d, g
<1>12. SettledInv'
  <2>1. \A s \in Runners : call'[s].pc \in {"adopt", "adoptsave"} =>
          OpOf(call[s])'.state \in {"unknown", "verifying", "succeeded"}
    BY <1>2, <1>4, <1>10, Places DEF SettledInv, OpOf
  <2>2. \A e \in Deployments, h \in AllRegions : ops'[e][h].res # 0 =>
          ops'[e][h].state \in {"unknown", "verifying", "succeeded"}
    BY <1>2 DEF SettledInv
  <2>3. rec'.pc = "write" => ops'[rec'.dep][rec'.region].res # 0
    <3>1. rec.dep \in Deployments /\ rec.region \in AllRegions
      BY DEF TypeOK, RecRecord
    <3> QED  BY <1>2, <1>3, <3>1 DEF SettledInv
  <2> QED  BY <2>1, <2>2, <2>3 DEF SettledInv
<1>13. ResultInv'
  BY <1>4 DEF ResultInv, IsFor
<1> QED  BY <1>6, <1>7, <1>8, <1>9, <1>11, <1>12, <1>13

\* A runner moves on without touching a table: an owner whose request left
\* nothing to "reject" or "unsure", a runner at the gate or in adoption to
\* "adopt" or "adoptsave".
LEMMA MoveInv ==
    ASSUME LedgerInv, TypeOK', NEW r \in Runners,
           \A s \in Runners : s # r => call'[s] = call[s],
           \A s \in Runners : /\ call'[s].dep = call[s].dep
                              /\ call'[s].cfg = call[s].cfg
                              /\ call'[s].i = call[s].i
                              /\ RegionOf(call'[s]) = RegionOf(call[s])
                              /\ RegionsOf(call'[s]) = RegionsOf(call[s]),
           \/ call[r].pc = "call" /\ call'[r].pc \in {"reject", "unsure"}
           \/ /\ call'[r].pc \in {"adopt", "adoptsave"}
              /\ OpOf(call[r]).state \in {"unknown", "verifying", "succeeded"}
              /\ call'[r].pc = "adoptsave" =>
                    call'[r].res # 0 /\ IsFor(call'[r].res, call[r].dep, RegionOf(call[r])),
           UNCHANGED <<ops, created, inflight, nextId, rec>>
    PROVE  LedgerInv'
<1> USE DEF LedgerInv
<1>1. OneDropletPerDeployment' /\ LedgerCoversProvider' /\ ResourceIsOwn' /\ IdInv'
  BY DEF OneDropletPerDeployment, LedgerCoversProvider, ResourceIsOwn, IdInv, IsFor
<1>2. \A s \in Runners : Leads(s)' =>
        /\ Leads(s)
        /\ call[s].pc \in {"unsure", "egress2"} => call'[s].pc \in {"unsure", "egress2"}
  BY DEF Leads, OwnerPcs
<1>3. LeadInv'
  BY <1>2 DEF LeadInv
<1>4. AskedInv'
  BY <1>2 DEF AskedInv, Asked
<1>5. \A s \in Runners : call'[s].pc \in OwnerPcs =>
        call[s].pc \in OwnerPcs /\ (call'[s].pc = "egress1" <=> call[s].pc = "egress1")
  BY DEF OwnerPcs
<1>6. OwnerInv'
  BY <1>5 DEF OwnerInv, OpOf
<1>7. SettledInv'
  BY DEF SettledInv, OpOf
<1>8. ResultInv'
  BY DEF ResultInv, IsFor
<1> QED  BY <1>1, <1>3, <1>4, <1>6, <1>7, <1>8

\* The lead's request is out: a droplet exists, or may come to exist, and the
\* runner is past the point where it could ask again.
LEMMA AskInv ==
    ASSUME LedgerInv, TypeOK', NEW r \in Runners,
           call[r].pc = "call", call[r].cfg # "empty",
           \A s \in Runners : s # r => call'[s] = call[s],
           \/ /\ call'[r].pc \in {"unsure", "egress2"}
              /\ call'[r].dep = call[r].dep /\ call'[r].cfg = call[r].cfg
              /\ call'[r].i = call[r].i
           \/ call'[r].pc = "idle" /\ call'[r].i <= Len(RegionsOf(call'[r])),
           \/ /\ MakeDroplet(Request(call[r])) /\ inflight' = inflight
              /\ call'[r].pc = "egress2" /\ call'[r].res = nextId
           \/ /\ inflight' = inflight \cup {Request(call[r])}
              /\ UNCHANGED <<created, nextId>> /\ call'[r].pc # "egress2",
           UNCHANGED <<ops, rec>>
    PROVE  LedgerInv'
<1> DEFINE d == call[r].dep
           g == RegionOf(call[r])
           new == [id |-> nextId, dep |-> d, region |-> g, cfg |-> call[r].cfg]
<1> USE DEF LedgerInv
<1>1. d \in Deployments /\ g \in Regions
  BY Places
<1>2. Leads(r)
  BY DEF Leads, OwnerPcs
<1>3. /\ \A s \in Runners : Leads(s) /\ s # r => call[s].dep # d
      /\ \A x \in created \cup inflight : x.dep # d
      /\ ops[d][FirstRegion(d)].state # "absent"
  BY <1>2 DEF LeadInv, AskedInv, Asked
<1>4. ops[d][g].state = "running"
  BY OwnerFacts DEF OwnerPcs
<1>5. \/ /\ created' = created \cup {new} /\ nextId' = nextId + 1
         /\ inflight' = inflight
      \/ /\ inflight' = inflight \cup {Request(call[r])}
         /\ created' = created /\ nextId' = nextId
  BY DEF MakeDroplet, Request
<1>6. Request(call[r]).dep = d /\ Request(call[r]).region = g
  BY DEF Request
<1>7. new.id = nextId /\ new.dep = d /\ new.region = g
  OBVIOUS
<1>8. \A s \in Runners : s # r => RegionOf(call'[s]) = RegionOf(call[s])
  OBVIOUS
<1>9. call'[r].pc # "idle" => /\ RegionOf(call'[r]) = g
                              /\ RegionsOf(call'[r]) = RegionsOf(call[r])
  BY RegionSame
<1>10. nextId \in Nat \ {0}
  BY DEF TypeOK
<1>11. \A s \in Runners : Leads(s)' =>
         Leads(s) /\ (s = r => call'[s].pc \in {"unsure", "egress2"})
  BY <1>2 DEF Leads, OwnerPcs
<1> HIDE DEF new, d, g
<1>12. OneDropletPerDeployment'
  BY <1>3, <1>5, <1>7 DEF OneDropletPerDeployment
<1>13. IdInv'
  BY <1>5, <1>7, <1>10 DEF IdInv, TypeOK, Droplet
<1>14. LedgerCoversProvider'
  BY <1>4, <1>5, <1>6, <1>7 DEF LedgerCoversProvider
<1>15. created \subseteq created'
  BY <1>5
<1>16. ResourceIsOwn'
  BY <1>15 DEF ResourceIsOwn, IsFor
<1>17. LeadInv'
  <2>1. \A s \in Runners : Leads(s)' => call'[s].dep = call[s].dep
    BY <1>11
  <2> QED  BY <1>11, <2>1 DEF LeadInv
<1>18. AskedInv'
  <2>1. \A s \in Runners : Leads(s)' /\ call'[s].pc \notin {"unsure", "egress2"} =>
          \A x \in created' \cup inflight' : x.dep # call'[s].dep
    BY <1>3, <1>5, <1>6, <1>7, <1>11 DEF AskedInv, Asked
  <2>2. \A x \in created' \cup inflight' : ops[x.dep][FirstRegion(x.dep)].state # "absent"
    BY <1>3, <1>5, <1>6, <1>7 DEF AskedInv, Asked
  <2>3. \A x \in created', y \in inflight' : x.dep # y.dep
    BY <1>3, <1>5, <1>6, <1>7 DEF AskedInv
  <2>4. \A x, y \in inflight' : x.dep = y.dep => x = y
    BY <1>3, <1>5, <1>6 DEF AskedInv
  <2> QED  BY <2>1, <2>2, <2>3, <2>4 DEF AskedInv, Asked
<1>19. \A s \in Runners : call'[s].pc \in OwnerPcs =>
         /\ call[s].pc \in OwnerPcs /\ call'[s].dep = call[s].dep
         /\ RegionOf(call'[s]) = RegionOf(call[s])
         /\ call'[s].pc = "egress1" <=> call[s].pc = "egress1"
  BY <1>8, <1>9 DEF OwnerPcs, g
<1>20. OwnerInv'
  BY <1>19 DEF OwnerInv, OpOf
<1>21. SettledInv'
  BY <1>8 DEF SettledInv, OpOf
<1>22. ResultInv'
  <2>1. ASSUME call'[r].pc = "egress2"
        PROVE  call'[r].res # 0 /\ IsFor(call[r].res, call[r].dep, RegionOf(call[r]))'
    <3>1. call'[r].res = nextId /\ call'[r].dep = d /\ RegionOf(call'[r]) = g
      BY <1>9, <2>1 DEF d
    <3>2. new \in created'
      BY <2>1 DEF MakeDroplet, Request, new, d, g
    <3>3. \E x \in created' : /\ x.id = call'[r].res /\ x.dep = call'[r].dep
                              /\ RegionOf(call'[r]) \in {x.region, NoRegion}
      BY <1>7, <3>1, <3>2
    <3> QED  BY <1>10, <3>1, <3>3 DEF IsFor
  <2>2. ASSUME NEW s \in Runners
        PROVE  /\ call'[s].i <= Len(RegionsOf(call'[s]))
               /\ call'[s].pc = "egress2" => call'[s].cfg # "empty"
    BY <1>9 DEF ResultInv
  <2>3. ASSUME NEW s \in Runners, s # r, call'[s].pc \in {"egress2", "adoptsave"}
        PROVE  call'[s].res # 0 /\ IsFor(call[s].res, call[s].dep, RegionOf(call[s]))'
    BY <1>8, <1>15, <2>3 DEF ResultInv, IsFor
  <2> QED  BY <2>1, <2>2, <2>3 DEF ResultInv
<1> QED  BY <1>12, <1>13, <1>14, <1>16, <1>17, <1>18, <1>20, <1>21, <1>22

\* A rejected request left nothing behind, so the row may say failed, and the
\* lead may go on to its next region.
LEMMA RecordRejectedInv ==
    ASSUME LedgerInv, TypeOK', NEW r \in Runners, RecordRejected(r)
    PROVE  LedgerInv'
<1> DEFINE d == call[r].dep
           g == RegionOf(call[r])
<1> USE DEF LedgerInv
<1>1. d \in Deployments /\ g \in AllRegions /\ call[r].pc = "reject"
  BY Places DEF RecordRejected
<1>2. \A e \in Deployments, h \in AllRegions :
         \/ ops'[e][h] = ops[e][h]
         \/ e = d /\ h = g /\ ops'[e][h] = [state |-> "failed", res |-> 0]
  BY <1>1 DEF RecordRejected, WriteOpOrLose, WriteOp, TypeOK
<1>3. ops[d][g].state = "running" /\ ops[d][g].res = 0
  BY <1>1, OwnerFacts DEF OwnerPcs
<1>4. /\ \A s \in Runners : s # r => call'[s] = call[s]
      /\ call'[r].dep = d /\ call'[r].cfg = call[r].cfg
      /\ \/ call'[r].pc = "ret" /\ call'[r].i = call[r].i
         \/ call'[r].pc = "gate" /\ call'[r].i = call[r].i + 1
  BY DEF RecordRejected, Return, TypeOK, CallRecord
<1>5. RegionsOf(call'[r]) = RegionsOf(call[r])
  BY <1>4 DEF RegionsOf
<1>6. call'[r].i <= Len(RegionsOf(call'[r]))
  <2>1. CASE call'[r].pc = "ret"
    BY <1>4, <1>5, <2>1 DEF ResultInv
  <2>2. CASE call'[r].pc = "gate"
    <3>1. call[r].i < Len(RegionsOf(call[r]))
      BY <2>2 DEF RecordRejected, Return, TypeOK, CallRecord
    <3>2. call[r].i \in Nat /\ Len(RegionsOf(call[r])) \in Nat
      <4>1. CASE call[r].cfg = "empty"
        BY <4>1, Places DEF RegionsOf
      <4>2. CASE call[r].cfg # "empty"
        BY <1>1, <4>2, Places, FirstRegionType DEF RegionsOf
      <4> QED  BY <4>1, <4>2
    <3> QED  BY <1>4, <1>5, <2>2, <3>1, <3>2
  <2> QED  BY <1>4, <2>1, <2>2
<1>7. UNCHANGED <<created, inflight, nextId, rec>>
  BY DEF RecordRejected
<1>8. \A s \in Runners : Leads(s)' => Leads(s)
  BY <1>1, <1>4 DEF Leads, OwnerPcs
<1>9. \A s \in Runners : s # r /\ call[s].pc \in OwnerPcs \cup {"adopt", "adoptsave"} =>
          ~(call[s].dep = d /\ RegionOf(call[s]) = g)
  BY <1>1, <1>3 DEF OwnerInv, OwnerPcs, SettledInv, OpOf
<1>10. \A x \in created \cup inflight : ~(x.dep = d /\ x.region = g)
  <2>1. CASE call[r].cfg = "empty"
    BY <2>1, Places
  <2>2. CASE call[r].cfg # "empty"
    <3>1. Leads(r)
      BY <1>1, <2>2 DEF Leads, OwnerPcs
    <3> QED  BY <1>1, <3>1 DEF AskedInv, Asked
  <2> QED  BY <2>1, <2>2
<1> HIDE DEF d, g
<1>11. OneDropletPerDeployment' /\ IdInv'
  BY <1>7 DEF OneDropletPerDeployment, IdInv
<1>12. LedgerCoversProvider'
  BY <1>2, <1>7, <1>10, Places DEF LedgerCoversProvider
<1>13. ResourceIsOwn'
  BY <1>2, <1>7 DEF ResourceIsOwn, IsFor
<1>14. \A e \in Deployments, h \in AllRegions :
          ops[e][h].state # "absent" => ops'[e][h].state # "absent"
  BY <1>2
<1>15. LeadInv'
  BY <1>4, <1>8, <1>14, Places DEF LeadInv, d
<1>16. AskedInv'
  <2>1. \A s \in Runners : Leads(s)' /\ call'[s].pc \notin {"unsure", "egress2"} =>
          \A x \in Asked' : x.dep # call'[s].dep
    BY <1>1, <1>4, <1>7, <1>8 DEF AskedInv, Asked, d
  <2>2. \A x \in Asked' : ops'[x.dep][FirstRegion(x.dep)].state # "absent"
    BY <1>7, <1>14, Places DEF AskedInv, Asked
  <2> QED  BY <1>7, <2>1, <2>2 DEF AskedInv
<1>17. OwnerInv'
  <2>1. \A s \in Runners : call'[s].pc \in OwnerPcs => s # r /\ call'[s] = call[s]
    BY <1>4 DEF OwnerPcs
  <2>2. \A s \in Runners : call'[s].pc \in OwnerPcs => OpOf(call[s])' = OpOf(call[s])
    BY <1>2, <1>9, <2>1, Places DEF OpOf
  <2> QED  BY <2>1, <2>2 DEF OwnerInv
<1>18. SettledInv'
  <2>1. \A s \in Runners : call'[s].pc \in {"adopt", "adoptsave"} =>
          OpOf(call[s])'.state \in {"unknown", "verifying", "succeeded"}
    BY <1>2, <1>4, <1>9, Places DEF SettledInv, OpOf
  <2>2. \A e \in Deployments, h \in AllRegions : ops'[e][h].res # 0 =>
          ops'[e][h].state \in {"unknown", "verifying", "succeeded"}
    BY <1>2 DEF SettledInv
  <2>3. rec'.pc = "write" => ops'[rec'.dep][rec'.region].res # 0
    <3>1. rec.dep \in Deployments /\ rec.region \in AllRegions
      BY DEF TypeOK, RecRecord
    <3> QED  BY <1>2, <1>3, <1>7, <3>1 DEF SettledInv
  <2> QED  BY <2>1, <2>2, <2>3 DEF SettledInv
<1>19. ResultInv'
  BY <1>4, <1>6, <1>7 DEF ResultInv, IsFor
<1> QED  BY <1>11, <1>12, <1>13, <1>15, <1>16, <1>17, <1>18, <1>19

\* The provider processes a late request, or never does.
LEMMA LateInv ==
    ASSUME LedgerInv, TypeOK', NEW q \in inflight, LateCreate(q) \/ LateDrop(q)
    PROVE  LedgerInv'
<1> DEFINE new == [id |-> nextId, dep |-> q.dep, region |-> q.region, cfg |-> q.cfg]
<1> USE DEF LedgerInv
<1>1. /\ inflight' = inflight \ {q}
      /\ UNCHANGED <<ops, call, rec>>
      /\ \/ created' = created \cup {new} /\ nextId' = nextId + 1
         \/ UNCHANGED <<created, nextId>>
  BY DEF LateCreate, LateDrop, MakeDroplet
<1>2. new.id = nextId /\ new.dep = q.dep /\ new.region = q.region
  OBVIOUS
<1>3. nextId \in Nat \ {0} /\ \A x \in created : x.id \in Nat
  BY DEF TypeOK, Droplet
<1> HIDE DEF new
<1>4. OneDropletPerDeployment' /\ LedgerCoversProvider'
  BY <1>1, <1>2 DEF OneDropletPerDeployment, LedgerCoversProvider, AskedInv
<1>5. IdInv'
  BY <1>1, <1>2, <1>3 DEF IdInv
<1>6. created \subseteq created'
  BY <1>1
<1>7. ResourceIsOwn' /\ ResultInv'
  BY <1>1, <1>6 DEF ResourceIsOwn, ResultInv, IsFor
<1>8. LeadInv' /\ OwnerInv' /\ SettledInv'
  BY <1>1 DEF LeadInv, Leads, OwnerInv, OpOf, SettledInv
<1>9. AskedInv'
  BY <1>1, <1>2 DEF AskedInv, Asked, Leads
<1> QED  BY <1>4, <1>5, <1>7, <1>8, <1>9

\* Recovery picks a row that has a resource ...
LEMMA RecoverReadInv ==
    ASSUME LedgerInv, TypeOK', NEW d \in Deployments, NEW g \in AllRegions,
           RecoverRead(d, g)
    PROVE  LedgerInv'
BY DEF RecoverRead, LedgerInv, OneDropletPerDeployment, LedgerCoversProvider,
       ResourceIsOwn, IsFor, LeadInv, Leads, AskedInv, Asked, OwnerInv, OpOf,
       SettledInv, ResultInv, IdInv

\* ... which therefore nobody owns, and changes its state alone.
LEMMA RecoverWriteInv ==
    ASSUME LedgerInv, TypeOK', RecoverWrite
    PROVE  LedgerInv'
<1> DEFINE d == rec.dep
           g == rec.region
<1> USE DEF LedgerInv
<1>1. /\ d \in Deployments /\ g \in AllRegions
      /\ rec.verdict \in {"succeeded", "unknown"}
  BY DEF TypeOK, RecRecord
<1>2. \A e \in Deployments, h \in AllRegions :
         \/ ops'[e][h] = ops[e][h]
         \/ /\ e = d /\ h = g
            /\ ops'[e][h] = [state |-> rec.verdict, res |-> ops[d][g].res]
  BY <1>1 DEF RecoverWrite, TypeOK
<1>3. ops[d][g].res # 0
  BY DEF RecoverWrite, SettledInv
<1>4. UNCHANGED <<created, inflight, nextId, call>> /\ rec'.pc = "idle"
  BY DEF RecoverWrite, IdleRec
<1>5. \A s \in Runners : call[s].pc \in OwnerPcs =>
         ~(call[s].dep = d /\ RegionOf(call[s]) = g)
  BY <1>3, OwnerFacts
<1> HIDE DEF d, g
<1>6. OneDropletPerDeployment' /\ IdInv'
  BY <1>4 DEF OneDropletPerDeployment, IdInv
<1>7. LedgerCoversProvider' /\ ResourceIsOwn' /\ ResultInv'
  BY <1>1, <1>2, <1>4, Places DEF LedgerCoversProvider, ResourceIsOwn, ResultInv, IsFor
<1>8. LeadInv' /\ AskedInv'
  BY <1>1, <1>2, <1>4, Places DEF LeadInv, AskedInv, Asked, Leads
<1>9. OwnerInv'
  BY <1>2, <1>4, <1>5, Places DEF OwnerInv, OpOf
<1>10. SettledInv'
  BY <1>1, <1>2, <1>4, Places DEF SettledInv, OpOf
<1> QED  BY <1>6, <1>7, <1>8, <1>9, <1>10
-----------------------------------------------------------------------------
(***************************************************************************)
(* Every step keeps the invariant.                                         *)
(***************************************************************************)
\* RuntimeSteps.Create returns.
LEMMA ReturnStops ==
    ASSUME LedgerInv, NEW r \in Runners, NEW p, Return(r, p)
    PROVE  /\ \A s \in Runners : s # r => call'[s] = call[s]
           /\ call'[r].pc = "ret"
           /\ call'[r].i <= Len(RegionsOf(call'[r]))
<1>1. /\ \A s \in Runners : s # r => call'[s] = call[s]
      /\ call'[r].pc = "ret" /\ call'[r].dep = call[r].dep
      /\ call'[r].cfg = call[r].cfg /\ call'[r].i = call[r].i
  BY DEF LedgerInv, Return, TypeOK, CallRecord
<1> QED  BY <1>1, RegionSame DEF LedgerInv, ResultInv

\* An owner or adopter gives its last word, or the update is lost.
LEMMA SettleOrStop ==
    ASSUME LedgerInv, TypeOK', NEW r \in Runners, NEW st, NEW p, NEW q,
           call[r].pc \in OwnerPcs \cup {"adoptsave"},
           st \in {"unknown", "verifying"},
           p = 0 => call[r].pc # "adoptsave",
           p # 0 => IsFor(p, call[r].dep, RegionOf(call[r])),
           WriteOp(r, st, p) \/ UNCHANGED ops,
           Return(r, q),
           UNCHANGED <<created, inflight, nextId, rec>>
    PROVE  LedgerInv'
<1>1. CASE WriteOp(r, st, p)
  BY <1>1, ReturnStops, SettleInv
<1>2. CASE UNCHANGED ops
  BY <1>2, ReturnStops, StopInv
<1> QED  BY <1>1, <1>2

\* Every step of RuntimeSteps.Create and Executor.Create keeps the invariant.
LEMMA CreateStepInv ==
    ASSUME LedgerInv, NEW r \in Runners, CreateStep(r)
    PROVE  LedgerInv'
<1>1. TypeOK'
  BY CreateStepType
<1>2. CASE GateBlocked(r)
  BY <1>1, <1>2, ReturnStops, StopInv DEF GateBlocked
<1>3. CASE ReserveFresh(r)
  BY <1>1, <1>3, ReserveFreshInv
<1>4. CASE ReserveExisting(r)
  <2>1. CASE Goto(r, "adopt") /\ OpOf(call[r]).state = "unknown"
    BY <1>1, <1>4, <2>1, GotoFrame, MoveInv DEF ReserveExisting, LedgerInv
  <2>2. CASE Return(r, OpOf(call[r]).res)
    BY <1>1, <1>4, <2>2, ReturnStops, StopInv DEF ReserveExisting
  <2> QED  BY <1>4, <2>1, <2>2 DEF ReserveExisting
<1>5. CASE EgressFailsBefore(r)
  BY <1>1, <1>5, SettleOrStop DEF EgressFailsBefore, WriteOpOrLose, OwnerPcs
<1>6. CASE MarkRunning(r)
  <2>1. CASE WriteOp(r, "running", 0) /\ Goto(r, "call")
    BY <1>1, <1>6, <2>1, MarkRunningInv DEF MarkRunning
  <2>2. CASE Return(r, 0) /\ UNCHANGED ops
    BY <1>1, <1>6, <2>2, ReturnStops, StopInv DEF MarkRunning
  <2> QED  BY <1>6, <2>1, <2>2 DEF MarkRunning
<1>7. CASE CreateAccepted(r)
  <2>1. /\ \A s \in Runners : s # r => call'[s] = call[s]
        /\ call'[r].pc = "egress2" /\ call'[r].res = nextId
        /\ call'[r].dep = call[r].dep /\ call'[r].cfg = call[r].cfg
        /\ call'[r].i = call[r].i
    BY <1>7 DEF CreateAccepted, LedgerInv, TypeOK, CallRecord
  <2> QED  BY <1>1, <1>7, <2>1, AskInv DEF CreateAccepted
<1>8. CASE CreateRejected(r)
  BY <1>1, <1>8, GotoFrame, MoveInv DEF CreateRejected, LedgerInv
<1>9. CASE CreateUnclear(r)
  <2>1. CASE call[r].cfg # "empty" /\ inflight' = inflight \cup {Request(call[r])}
    <3>1. /\ \A s \in Runners : s # r => call'[s] = call[s]
          /\ call'[r].pc = "unsure" /\ call'[r].dep = call[r].dep
          /\ call'[r].cfg = call[r].cfg /\ call'[r].i = call[r].i
      BY <1>9, GotoFrame DEF CreateUnclear, LedgerInv
    <3> QED  BY <1>1, <1>9, <2>1, <3>1, AskInv DEF CreateUnclear
  <2>2. CASE inflight' = inflight
    BY <1>1, <1>9, <2>2, GotoFrame, MoveInv DEF CreateUnclear, LedgerInv
  <2> QED  BY <1>9, <2>1, <2>2 DEF CreateUnclear
<1>10. CASE RecordRejected(r)
  BY <1>1, <1>10, RecordRejectedInv
<1>11. CASE RecordUnclear(r)
  BY <1>1, <1>11, SettleOrStop DEF RecordUnclear, WriteOpOrLose, OwnerPcs
<1>12. \A pc \in {"egress2", "adoptsave"} : call[r].pc = pc =>
          call[r].res # 0 /\ IsFor(call[r].res, call[r].dep, RegionOf(call[r]))
  BY DEF LedgerInv, ResultInv
<1>13. CASE EgressFailsAfter(r)
  BY <1>1, <1>12, <1>13, SettleOrStop DEF EgressFailsAfter, WriteOpOrLose, OwnerPcs
<1>14. CASE RecordCreated(r)
  BY <1>1, <1>12, <1>14, SettleOrStop DEF RecordCreated, SaveVerifying, OwnerPcs
<1>15. CASE AdoptUnknownCreate(r)
  <2>1. CASE Return(r, 0)
    BY <1>1, <1>15, <2>1, ReturnStops, StopInv DEF AdoptUnknownCreate
  <2>2. ASSUME NEW x \in Matches(call[r].dep, RegionOf(call[r])),
               call' = [call EXCEPT ![r].pc = "adoptsave", ![r].res = x.id]
        PROVE  LedgerInv'
    <3>1. /\ \A s \in Runners : s # r => call'[s] = call[s]
          /\ \A s \in Runners : /\ call'[s].dep = call[s].dep
                                /\ call'[s].cfg = call[s].cfg
                                /\ call'[s].i = call[s].i
          /\ call'[r].pc = "adoptsave" /\ call'[r].res = x.id
      BY <2>2 DEF LedgerInv, TypeOK, CallRecord
    <3>2. \A s \in Runners : /\ RegionOf(call'[s]) = RegionOf(call[s])
                             /\ RegionsOf(call'[s]) = RegionsOf(call[s])
      BY <3>1, RegionSame
    <3>3. x.id # 0 /\ IsFor(x.id, call[r].dep, RegionOf(call[r]))
      BY DEF Matches, IsFor, LedgerInv, IdInv
    <3>4. OpOf(call[r]).state \in {"unknown", "verifying", "succeeded"}
      BY <1>15 DEF AdoptUnknownCreate, LedgerInv, SettledInv
    <3> QED  BY <1>1, <1>15, <3>1, <3>2, <3>3, <3>4, MoveInv DEF AdoptUnknownCreate
  <2> QED  BY <1>15, <2>1, <2>2 DEF AdoptUnknownCreate
<1>16. CASE RecordAdopted(r)
  BY <1>1, <1>12, <1>16, SettleOrStop DEF RecordAdopted, SaveVerifying
<1> QED
  BY <1>2, <1>3, <1>4, <1>5, <1>6, <1>7, <1>8, <1>9, <1>10, <1>11, <1>13,
     <1>14, <1>15, <1>16 DEF CreateStep

\* So does a crash in the middle of them, whether or not the request left.
LEMMA AbortInv ==
    ASSUME LedgerInv, NEW r \in Runners, Abort(r)
    PROVE  LedgerInv'
<1>1. TypeOK'
  BY OtherStepType
<1>2. /\ \A s \in Runners : s # r => call'[s] = call[s]
      /\ call'[r].pc = "idle" /\ call'[r].i <= Len(RegionsOf(call'[r]))
  BY DEF Abort, IdleCall, RegionsOf, LedgerInv, TypeOK
<1>3. CASE inflight' = inflight
  BY <1>1, <1>2, <1>3, StopInv DEF Abort
<1>4. CASE /\ call[r].pc = "call" /\ call[r].cfg # "empty"
           /\ inflight' = inflight \cup {Request(call[r])}
  BY <1>1, <1>2, <1>4, AskInv DEF Abort
<1> QED  BY <1>3, <1>4 DEF Abort

\* So do DigitalOcean, RecoverOperation and the aging of the snapshot.
LEMMA EnvironmentInv ==
    ASSUME LedgerInv, LedgerEnvironment
    PROVE  LedgerInv'
<1>1. TypeOK'
  BY OtherStepType
<1>2. CASE \E q \in inflight : LateCreate(q) \/ LateDrop(q)
  BY <1>1, <1>2, LateInv
<1>3. CASE RefreshSnapshot \/ SnapshotAges \/ (\E id \in cloud : Destroy(id)) \/ OtherFault
  BY <1>1, <1>3, QuietInv DEF RefreshSnapshot, SnapshotAges, Destroy, OtherFault
<1>4. CASE \E d \in Deployments, g \in AllRegions : RecoverRead(d, g)
  BY <1>1, <1>4, RecoverReadInv
<1>5. CASE RecoverWrite
  BY <1>1, <1>5, RecoverWriteInv
<1> QED  BY <1>2, <1>3, <1>4, <1>5 DEF LedgerEnvironment

\* The invariant is inductive.
LEMMA NextInv == LedgerInv /\ [LedgerNext]_ledgerVars => LedgerInv'
<1> SUFFICES ASSUME LedgerInv, [LedgerNext]_ledgerVars PROVE LedgerInv'
  OBVIOUS
<1>1. ASSUME NEW r \in Runners, AnyBegin(r) PROVE LedgerInv'
  <2>1. PICK d \in Deployments, cfg \in Configs : BeginCreate(r, d, cfg)
    BY <1>1 DEF AnyBegin
  <2>2. /\ \A s \in Runners : s # r => call'[s] = call[s]
        /\ call'[r].pc = "gate" /\ call'[r].i = 1
        /\ call'[r].dep = d /\ call'[r].cfg = cfg
    BY <2>1 DEF BeginCreate, IdleCall, LedgerInv, TypeOK
  <2>3. call'[r].i <= Len(RegionsOf(call'[r]))
    <3>1. CASE cfg = "empty"
      BY <2>2, <3>1 DEF RegionsOf
    <3>2. CASE cfg # "empty"
      BY <2>2, <3>2, FirstRegionType DEF RegionsOf
    <3> QED  BY <3>1, <3>2
  <2>4. TypeOK'
    BY <1>1, OtherStepType
  <2> QED  BY <1>1, <2>2, <2>3, <2>4, StopInv DEF AnyBegin
<1>2. ASSUME NEW r \in Runners, AnyEnd(r) PROVE LedgerInv'
  <2>1. /\ \A s \in Runners : s # r => call'[s] = call[s]
        /\ call'[r].pc = "idle" /\ call'[r].i <= Len(RegionsOf(call'[r]))
    BY <1>2 DEF AnyEnd, IdleCall, RegionsOf, LedgerInv, TypeOK
  <2> QED  BY <1>2, <2>1, OtherStepType, StopInv DEF AnyEnd
<1>3. ASSUME NEW r \in Runners, CreateStep(r) PROVE LedgerInv'
  BY <1>3, CreateStepInv
<1>4. ASSUME NEW r \in Runners, Abort(r) PROVE LedgerInv'
  BY <1>4, AbortInv
<1>5. CASE LedgerEnvironment
  BY <1>5, EnvironmentInv
<1>6. CASE UNCHANGED ledgerVars
  <2>1. TypeOK'
    BY <1>6 DEF ledgerVars, LedgerInv, TypeOK
  <2> QED  BY <1>6, <2>1, QuietInv DEF ledgerVars
<1> QED  BY <1>1, <1>2, <1>3, <1>4, <1>5, <1>6 DEF LedgerNext

\* LedgerInv holds in every state the ledger can reach.
THEOREM LedgerInvariant == LedgerSpec => []LedgerInv
<1> QED  BY InitInv, NextInv, PTL DEF LedgerSpec

\* The types of the operations table, the calls and the provider are kept.
THEOREM LedgerTypes == LedgerSpec => []TypeOK
<1>1. LedgerInv => TypeOK
  BY DEF LedgerInv
<1> QED  BY <1>1, LedgerInvariant, PTL

\* Executor.Create and RuntimeSteps.Create never make DigitalOcean create two
\* droplets for one deployment, whoever runs them and wherever they crash.
THEOREM OneDroplet == LedgerSpec => []OneDropletPerDeployment
<1>1. LedgerInv => OneDropletPerDeployment
  BY DEF LedgerInv
<1> QED  BY <1>1, LedgerInvariant, PTL

\* Nothing exists at the provider behind the ledger's back, and a failed row
\* left nothing there.
THEOREM WriteAhead == LedgerSpec => []LedgerCoversProvider
<1>1. LedgerInv => LedgerCoversProvider
  BY DEF LedgerInv
<1> QED  BY <1>1, LedgerInvariant, PTL

\* The ledger never records somebody else's droplet, by adoption neither.
THEOREM OwnResources == LedgerSpec => []ResourceIsOwn
<1>1. LedgerInv => ResourceIsOwn
  BY DEF LedgerInv
<1> QED  BY <1>1, LedgerInvariant, PTL
=============================================================================
