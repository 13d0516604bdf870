------------------------ MODULE DeploymentRunProofs ------------------------
(***************************************************************************)
(* The workflow and its recovery use the ledger only through its own       *)
(* operations, so everything proved of the ledger holds of the whole       *)
(* deployment run.                                                         *)
(***************************************************************************)
EXTENDS DeploymentRun, CreateOnceProofs

\* What one runner does inside Engine.Run or RecoverDeployment is, for the
\* ledger, an entry into RuntimeSteps.Create, a step of it, its return, or
\* nothing.
LEMMA RunStepIsLedgerStep ==
    ASSUME NEW r \in Runners, run[r].dep \in Deployments, run[r].cfg \in Configs,
           RunStep(r)
    PROVE  [LedgerNext]_ledgerVars
<1>1. CASE EnterStep(r)
  <2>1. CASE run[r].mem.step = "create"
    <3>1. /\ BeginCreate(r, run[r].dep, run[r].cfg)
          /\ UNCHANGED <<ops, latest, created, cloud, inflight, nextId, snap, rec,
                         faults>>
      BY <1>1, <2>1 DEF EnterStep
    <3>2. AnyBegin(r)
      BY <3>1 DEF AnyBegin
    <3> QED  BY <3>2 DEF LedgerNext
  <2>2. CASE run[r].mem.step # "create"
    BY <1>1, <2>2 DEF EnterStep
  <2> QED  BY <2>1, <2>2
<1>2. CASE CreateReturned(r)
  <2>1. AnyEnd(r)
    BY <1>2 DEF CreateReturned, AnyEnd
  <2> QED  BY <2>1 DEF LedgerNext
<1>3. CASE CreateStep(r) /\ UNCHANGED runVars
  BY <1>3 DEF LedgerNext
<1>4. CASE \/ AttachSnapshot(r) \/ EnsureSSHIdentity(r)
           \/ LoadConfig(r) \/ LoadFails(r) \/ ReserveRun(r)
           \/ Finish(r) \/ Advance(r) \/ RecordFailure(r) \/ StepFails(r)
           \/ WaitResource(r) \/ InsertDroplet(r)
  BY <1>4 DEF AttachSnapshot, EnsureSSHIdentity, LoadConfig, LoadFails,
     ReserveRun, Finish, Advance, RecordFailure, StepFails, WaitResource,
     InsertDroplet
<1>5. CASE \/ BeginProvision(r) \/ EndProvision(r)
           \/ ImportDatabase(r) \/ PassStep(r)
           \/ RecoverGet(r) \/ RecoverJudge(r) \/ Freeze(r)
  BY <1>5 DEF BeginProvision, EndProvision, ImportDatabase, PassStep,
     RecoverGet, RecoverJudge, Freeze
<1>6. CASE RecoverUnjudged(r)
  BY <1>6 DEF RecoverUnjudged, LedgerNext, LedgerEnvironment
<1> QED  BY <1>1, <1>2, <1>3, <1>4, <1>5, <1>6 DEF RunStep
-----------------------------------------------------------------------------
(* Facts about the step list of engine.go. *)

\* The step list, its states and its successor function have their types.
LEMMA StepTypes ==
    /\ "create" \in Steps /\ "done" \in Steps
    /\ \A s \in Steps : s # "done" => StepState[s] \in States /\ NextStep(s) \in Steps
    /\ {"none", "PLANNED", "READY", "FAILED"} \subseteq States
<1>1. /\ StepOrder[1] = "create" /\ StepOrder[2] = "wait_resource"
      /\ StepOrder[3] = "provision" /\ StepOrder[4] = "database"
      /\ StepOrder[5] = "panel" /\ StepOrder[6] = "clients"
      /\ StepOrder[7] = "traffic" /\ StepOrder[8] = "done"
  BY DEF StepOrder
<1>2. \A i \in 1..8 : StepOrder[i] \in Steps
  BY DEF Steps
<1>3. "create" \in Steps /\ "done" \in Steps
  <2>1. 1 \in 1..8 /\ 8 \in 1..8
    OBVIOUS
  <2> QED  BY <1>1, <1>2, <2>1
<1>4. \A s \in Steps : Rank(s) \in 1..8 /\ StepOrder[Rank(s)] = s
  BY DEF Steps, Rank
<1>5. ASSUME NEW s \in Steps, s # "done"  PROVE NextStep(s) \in Steps
  <2>1. Rank(s) \in 1..8 /\ Rank(s) # 8
    BY <1>1, <1>4, <1>5
  <2>2. Rank(s) + 1 \in 1..8
    BY <2>1
  <2> QED  BY <2>2, <1>2 DEF NextStep
<1>6. ASSUME NEW s \in Steps, s # "done"  PROVE StepState[s] \in States
  BY <1>6 DEF States
<1>7. {"none", "PLANNED", "READY", "FAILED"} \subseteq States
  BY DEF States, Terminal
<1> QED  BY <1>3, <1>5, <1>6, <1>7

\* What RunTypeOK says of a runner and of the row it works on.
LEMMA RowAndRunner ==
    ASSUME RunTypeOK, NEW r \in Runners
    PROVE  /\ run[r] \in RunRecord /\ run[r].mem \in Copy
           /\ run[r].dep \in Deployments /\ run[r].cfg \in Configs
           /\ row[run[r].dep] \in Row /\ CopyOf(row[run[r].dep]) \in Copy
<1>1. run[r] \in RunRecord
  BY DEF RunTypeOK
<1>2. run[r].mem \in Copy /\ run[r].dep \in Deployments /\ run[r].cfg \in Configs
  BY <1>1 DEF RunRecord
<1>3. row[run[r].dep] \in Row
  BY <1>2 DEF RunTypeOK
<1>4. \A y \in Row : CopyOf(y) \in Copy
  BY DEF Row, Copy, CopyOf
<1> QED  BY <1>1, <1>2, <1>3, <1>4

\* The idle runner and its empty copy.
LEMMA IdleRunType ==
    /\ IdleRun \in RunRecord /\ IdleRun.pc = "idle" /\ IdleRun.mem = NoCopy
    /\ NoCopy \in Copy /\ NoCopy.prov = 0 /\ NoCopy.drop = 0
<1>1. NoCopy \in Copy /\ NoCopy.prov = 0 /\ NoCopy.drop = 0
  BY StepTypes DEF NoCopy, Copy
<1>2. IdleCall.dep \in Deployments
  BY IdleTypes DEF CallRecord
<1> QED  BY <1>1, <1>2 DEF IdleRun, RunRecord, RunPcs, Configs

\* In the initial state the tables are empty and the runners idle.
LEMMA RunInitInv == RunInit => RunInv
<1> SUFFICES ASSUME RunInit PROVE RunInv
  OBVIOUS
<1>1. TypeOK /\ created = {} /\ cloud = {} /\ call = [r \in Runners |-> IdleCall]
  BY InitInv DEF RunInit, LedgerInit, LedgerInv
<1>2. row \in [Deployments -> Row] /\ \A d \in Deployments :
          row[d].prov = 0 /\ row[d].drop = 0
  BY StepTypes DEF RunInit, Row, Configs
<1>3. run = [r \in Runners |-> IdleRun] /\ dropletRows = {} /\ prun = <<>>
  BY DEF RunInit
<1>4. RunTypeOK
  BY <1>1, <1>2, <1>3, IdleRunType DEF RunTypeOK
<1>5. CheckpointIsOwn
  BY <1>2, <1>3, IdleRunType DEF CheckpointIsOwn, IsOwn
<1>6. BusyInv
  BY <1>3, IdleRunType DEF BusyInv, StepPcs
<1>7. CallInv
  BY <1>1 DEF CallInv, IdleCall
<1> QED  BY <1>1, <1>4, <1>5, <1>6, <1>7 DEF RunInv
-----------------------------------------------------------------------------
(* Steps that leave the ledger alone. *)

\* A runner outside RuntimeSteps.Create writes rows and moves on: it is enough
\* that what it writes and what it keeps name only droplets of the deployment.
LEMMA WorkflowInv ==
    ASSUME RunInv, UNCHANGED ledgerVars, UNCHANGED dropletRows,
           NEW r \in Runners, NEW x \in RunRecord, run' = [run EXCEPT ![r] = x],
           run[r].pc # "create",
           row' \in [Deployments -> Row], \A d \in Deployments : IsOwn(row'[d], d),
           prun' \in [DOMAIN prun' -> PRunStates], DOMAIN prun' \subseteq dropletRows,
           IsOwn(x.mem, x.dep),
           x.pc \in StepPcs => x.mem.step # "done",
           x.pc = "ssh" => x.mem.drop # 0,
           x.pc = "insert" => x.mem.prov # 0
    PROVE  RunInv'
<1>1. created' = created /\ cloud' = cloud /\ call' = call /\ TypeOK'
  BY DEF ledgerVars, RunInv, RunTypeOK, TypeOK
<1>2. /\ run' \in [Runners -> RunRecord] /\ run'[r] = x
      /\ \A s \in Runners : s # r => run'[s] = run[s]
  BY DEF RunInv, RunTypeOK
<1>3. RunTypeOK'
  BY <1>1, <1>2 DEF RunInv, RunTypeOK
<1>4. CheckpointIsOwn'
  BY <1>1, <1>2 DEF RunInv, CheckpointIsOwn, IsOwn, OwnedBy
<1>5. BusyInv'
  BY <1>2 DEF RunInv, BusyInv
<1>6. CallInv'
  <2>1. call[r].pc = "idle"
    BY DEF RunInv, CallInv
  <2> QED  BY <1>1, <1>2, <2>1 DEF RunInv, CallInv, OwnedBy
<1> QED  BY <1>1, <1>3, <1>4, <1>5, <1>6 DEF RunInv

\* Its special case: the tables stay as they are.
LEMMA MoveRunnerInv ==
    ASSUME RunInv, UNCHANGED <<ledgerVars, row, dropletRows, prun>>,
           NEW r \in Runners, NEW x \in RunRecord, run' = [run EXCEPT ![r] = x],
           run[r].pc # "create", IsOwn(x.mem, x.dep),
           x.pc \in StepPcs => x.mem.step # "done",
           x.pc = "ssh" => x.mem.drop # 0,
           x.pc = "insert" => x.mem.prov # 0
    PROVE  RunInv'
<1>1. row' \in [Deployments -> Row] /\ \A d \in Deployments : IsOwn(row'[d], d)
  BY DEF RunInv, RunTypeOK, CheckpointIsOwn
<1>2. prun' \in [DOMAIN prun' -> PRunStates] /\ DOMAIN prun' \subseteq dropletRows
  BY DEF RunInv, RunTypeOK
<1> QED  BY <1>1, <1>2, WorkflowInv

\* A runner that goes on to another pc with the copy it has.
LEMMA JumpRecord ==
    ASSUME RunInv, NEW r \in Runners, NEW pc \in RunPcs
    PROVE  /\ [run[r] EXCEPT !.pc = pc] \in RunRecord
           /\ [run[r] EXCEPT !.pc = pc].pc = pc
           /\ [run[r] EXCEPT !.pc = pc].dep = run[r].dep
           /\ [run[r] EXCEPT !.pc = pc].mem = run[r].mem
           /\ Jump(r, pc) => run' = [run EXCEPT ![r] = [run[r] EXCEPT !.pc = pc]]
<1>1. run[r] \in RunRecord /\ run \in [Runners -> RunRecord]
  BY DEF RunInv, RunTypeOK
<1> QED  BY <1>1 DEF RunRecord, Jump

\* Jump, while the tables stay as they are.
LEMMA JumpInv ==
    ASSUME RunInv, UNCHANGED <<ledgerVars, row, dropletRows, prun>>,
           NEW r \in Runners, NEW pc \in RunPcs, Jump(r, pc),
           run[r].pc # "create", pc \notin {"ssh", "insert"},
           pc \in StepPcs => run[r].mem.step # "done"
    PROVE  RunInv'
<1> DEFINE x == [run[r] EXCEPT !.pc = pc]
<1>1. /\ x \in RunRecord /\ x.pc = pc /\ x.dep = run[r].dep /\ x.mem = run[r].mem
      /\ run' = [run EXCEPT ![r] = x]
  BY JumpRecord
<1>2. IsOwn(run[r].mem, run[r].dep)
  BY DEF RunInv, CheckpointIsOwn
<1> HIDE DEF x
<1> QED  BY <1>1, <1>2, MoveRunnerInv

\* Leave, while the tables stay as they are.
LEMMA LeaveInv ==
    ASSUME RunInv, UNCHANGED <<ledgerVars, row, dropletRows, prun>>,
           NEW r \in Runners, Leave(r), run[r].pc # "create"
    PROVE  RunInv'
BY MoveRunnerInv, IdleRunType DEF Leave, IsOwn, StepPcs

\* SQLStore.Update with an own copy, after which the runner keeps x.
LEMMA UpdateInv ==
    ASSUME RunInv, UNCHANGED <<ledgerVars, dropletRows, prun>>,
           NEW r \in Runners, run[r].pc # "create",
           NEW m \in Copy, Update(run[r].dep, m), IsOwn(m, run[r].dep),
           NEW x \in RunRecord, run' = [run EXCEPT ![r] = x],
           IsOwn(x.mem, x.dep), x.pc \notin {"ssh", "insert"},
           x.pc \in StepPcs => x.mem.step # "done"
    PROVE  RunInv'
<1> DEFINE d == run[r].dep
           y == [row[d] EXCEPT !.state = m.state, !.step = m.step,
                               !.prov = m.prov, !.drop = m.drop]
<1>1. d \in Deployments /\ row[d] \in Row /\ row \in [Deployments -> Row]
  BY DEF RunInv, RunTypeOK, RunRecord
<1>2. y \in Row /\ y.prov = m.prov /\ y.drop = m.drop
  BY <1>1 DEF Row, Copy
<1>3. row' = [row EXCEPT ![d] = y]
  BY <1>1 DEF Update, Row
<1> HIDE DEF y
<1>4. row' \in [Deployments -> Row] /\ \A e \in Deployments : IsOwn(row'[e], e)
  BY <1>1, <1>2, <1>3 DEF RunInv, CheckpointIsOwn, IsOwn
<1>5. prun' \in [DOMAIN prun' -> PRunStates] /\ DOMAIN prun' \subseteq dropletRows
  BY DEF RunInv, RunTypeOK
<1> QED  BY <1>4, <1>5, WorkflowInv

\* A write of other columns than the two ids, by a runner that keeps its copy
\* or drops it.
LEMMA ColumnsInv ==
    ASSUME RunInv, UNCHANGED <<ledgerVars, dropletRows, prun>>,
           NEW r \in Runners, run[r].pc # "create",
           row' \in [Deployments -> Row],
           \A d \in Deployments : row'[d].prov = row[d].prov /\ row'[d].drop = row[d].drop,
           NEW x \in RunRecord, run' = [run EXCEPT ![r] = x],
           x.mem \in {run[r].mem, NoCopy}, x.dep = run[r].dep \/ x.mem = NoCopy,
           x.pc \notin StepPcs
    PROVE  RunInv'
<1>1. \A d \in Deployments : IsOwn(row'[d], d)
  BY DEF RunInv, CheckpointIsOwn, IsOwn
<1>2. IsOwn(x.mem, x.dep)
  BY IdleRunType DEF RunInv, CheckpointIsOwn, IsOwn
<1>3. prun' \in [DOMAIN prun' -> PRunStates] /\ DOMAIN prun' \subseteq dropletRows
  BY DEF RunInv, RunTypeOK
<1> QED  BY <1>1, <1>2, <1>3, WorkflowInv DEF StepPcs

\* The same for Jump, out of any step.
LEMMA JumpColumnsInv ==
    ASSUME RunInv, UNCHANGED <<ledgerVars, dropletRows, prun>>,
           NEW r \in Runners, run[r].pc # "create",
           row' \in [Deployments -> Row],
           \A d \in Deployments : row'[d].prov = row[d].prov /\ row'[d].drop = row[d].drop,
           NEW pc \in RunPcs \ StepPcs, Jump(r, pc)
    PROVE  RunInv'
<1> DEFINE x == [run[r] EXCEPT !.pc = pc]
<1>1. /\ x \in RunRecord /\ x.pc = pc /\ x.dep = run[r].dep /\ x.mem = run[r].mem
      /\ run' = [run EXCEPT ![r] = x]
  BY JumpRecord
<1> HIDE DEF x
<1> QED  BY <1>1, ColumnsInv

\* StartDeployment up to the configuration, and the freeze of recovery.
LEMMA PrepareInv ==
    ASSUME RunInv, NEW r \in Runners,
           \/ \E d \in Deployments : StartDeployment(r, d)
           \/ AttachSnapshot(r) \/ EnsureSSHIdentity(r) \/ Freeze(r)
    PROVE  RunInv'
<1>1. /\ run[r] \in RunRecord /\ run[r].dep \in Deployments
      /\ row \in [Deployments -> Row]
  BY RowAndRunner DEF RunInv, RunTypeOK
<1>2. ASSUME NEW pc \in RunPcs, NEW d \in Deployments
      PROVE  /\ [IdleRun EXCEPT !.pc = pc, !.dep = d] \in RunRecord
             /\ [IdleRun EXCEPT !.pc = pc, !.dep = d].pc = pc
             /\ [IdleRun EXCEPT !.pc = pc, !.dep = d].mem = NoCopy
  BY <1>2, IdleRunType DEF RunRecord
<1>3. ASSUME NEW d \in Deployments, StartDeployment(r, d)  PROVE RunInv'
  <2>1. "attach" \in RunPcs /\ "attach" \notin StepPcs
    BY DEF RunPcs, StepPcs
  <2>2. row' = [row EXCEPT ![d].state = "PLANNED"]
    BY <1>3 DEF StartDeployment
  <2>3. /\ row' \in [Deployments -> Row]
        /\ \A e \in Deployments : row'[e].prov = row[e].prov /\ row'[e].drop = row[e].drop
    BY <1>1, <2>2, StepTypes DEF Row
  <2> DEFINE x == [IdleRun EXCEPT !.pc = "attach", !.dep = d]
  <2>4. /\ x \in RunRecord /\ x.pc = "attach" /\ x.mem = NoCopy
        /\ run' = [run EXCEPT ![r] = x]
    BY <1>2, <1>3, <2>1 DEF StartDeployment
  <2>5. run[r].pc # "create" /\ UNCHANGED <<ledgerVars, dropletRows, prun>>
    BY <1>3 DEF StartDeployment
  <2> HIDE DEF x
  <2> QED  BY <2>1, <2>3, <2>4, <2>5, ColumnsInv
<1>4. ASSUME NEW c \in Configs, row' = [row EXCEPT ![run[r].dep].cfg = c]
      PROVE  /\ row' \in [Deployments -> Row]
             /\ \A e \in Deployments : row'[e].prov = row[e].prov /\ row'[e].drop = row[e].drop
  BY <1>1, <1>4 DEF Row
<1>5. CASE AttachSnapshot(r)
  <2>1. CASE row' = [row EXCEPT ![run[r].dep].cfg = IF @ = "empty" THEN "plain" ELSE @]
             /\ Jump(r, "ensure")
    <3>1. row[run[r].dep].cfg \in Configs
      BY <1>1 DEF Row
    <3>2. \E c \in Configs : row' = [row EXCEPT ![run[r].dep].cfg = c]
      BY <2>1, <3>1 DEF Configs
    <3>3. "ensure" \in RunPcs /\ "ensure" \notin StepPcs
      BY DEF RunPcs, StepPcs
    <3>4. run[r].pc # "create" /\ UNCHANGED <<ledgerVars, dropletRows, prun>>
      BY <1>5 DEF AttachSnapshot
    <3> QED  BY <1>4, <2>1, <3>2, <3>3, <3>4, JumpColumnsInv
  <2>2. CASE Leave(r) /\ UNCHANGED row
    BY <1>5, <2>2, LeaveInv DEF AttachSnapshot
  <2> QED  BY <1>5, <2>1, <2>2 DEF AttachSnapshot
<1>6. CASE EnsureSSHIdentity(r)
  <2>1. CASE row' = [row EXCEPT ![run[r].dep].cfg = "keyed"] /\ Jump(r, "load")
    <3>1. "keyed" \in Configs /\ "load" \in RunPcs /\ "load" \notin StepPcs
      BY DEF Configs, RunPcs, StepPcs
    <3>2. run[r].pc # "create" /\ UNCHANGED <<ledgerVars, dropletRows, prun>>
      BY <1>6 DEF EnsureSSHIdentity
    <3> QED  BY <1>4, <2>1, <3>1, <3>2, JumpColumnsInv
  <2>2. CASE Leave(r) /\ UNCHANGED row
    BY <1>6, <2>2, LeaveInv DEF EnsureSSHIdentity
  <2> QED  BY <1>6, <2>1, <2>2 DEF EnsureSSHIdentity
<1>7. CASE Freeze(r)
  <2>1. row' = [row EXCEPT ![run[r].dep].state = "FAILED", ![run[r].dep].step = "done"]
    BY <1>7 DEF Freeze
  <2>2. /\ row' \in [Deployments -> Row]
        /\ \A e \in Deployments : row'[e].prov = row[e].prov /\ row'[e].drop = row[e].drop
    BY <1>1, <2>1, StepTypes DEF Row
  <2>3. run' = [run EXCEPT ![r] = IdleRun]
    BY <1>7 DEF Freeze, Leave
  <2> QED  BY <1>7, <2>2, <2>3, IdleRunType, ColumnsInv DEF Freeze, StepPcs
<1> QED  BY <1>3, <1>5, <1>6, <1>7

\* The steps of a runner that only read the tables.
LEMMA ReadInv ==
    ASSUME RunInv, NEW r \in Runners,
           \/ LoadConfig(r) \/ LoadFails(r) \/ ReserveRun(r) \/ StepFails(r)
           \/ WaitResource(r) \/ ImportDatabase(r) \/ PassStep(r)
           \/ (\E d \in Deployments : RecoverList(r, d))
           \/ RecoverGet(r) \/ RecoverJudge(r)
    PROVE  RunInv'
<1>1. /\ run[r] \in RunRecord /\ run[r].mem \in Copy /\ run[r].dep \in Deployments
      /\ row[run[r].dep] \in Row /\ CopyOf(row[run[r].dep]) \in Copy
      /\ run \in [Runners -> RunRecord]
  BY RowAndRunner DEF RunInv, RunTypeOK
<1>2. IsOwn(run[r].mem, run[r].dep) /\ IsOwn(CopyOf(row[run[r].dep]), run[r].dep)
  BY <1>1 DEF RunInv, CheckpointIsOwn, IsOwn, CopyOf
<1>3. run[r].pc = "body" => run[r].mem.step # "done"
  BY DEF RunInv, BusyInv, StepPcs
<1>4. CASE LoadConfig(r)
  <2> DEFINE x == [run[r] EXCEPT !.cfg = row[run[r].dep].cfg, !.pc = "reserve"]
  <2>1. x \in RunRecord /\ x.pc = "reserve" /\ x.mem = run[r].mem /\ x.dep = run[r].dep
    BY <1>1 DEF RunRecord, Row, RunPcs
  <2>2. run' = [run EXCEPT ![r] = x]
    BY <1>1, <1>4 DEF LoadConfig, RunRecord
  <2> HIDE DEF x
  <2> QED  BY <1>2, <1>4, <2>1, <2>2, MoveRunnerInv DEF LoadConfig, StepPcs
<1>5. CASE LoadFails(r)
  BY <1>5, LeaveInv DEF LoadFails
<1>6. CASE ReserveRun(r) \/ RecoverGet(r)
  <2>1. ASSUME NEW pc \in {"step", "judge"},
               run' = [run EXCEPT ![r].mem = CopyOf(row[run[r].dep]), ![r].pc = pc],
               run[r].pc # "create", UNCHANGED <<ledgerVars, row, dropletRows, prun>>
        PROVE  RunInv'
    <3> DEFINE x == [run[r] EXCEPT !.mem = CopyOf(row[run[r].dep]), !.pc = pc]
    <3>1. /\ x \in RunRecord /\ x.pc = pc /\ x.dep = run[r].dep
          /\ x.mem = CopyOf(row[run[r].dep])
      BY <1>1 DEF RunRecord, RunPcs
    <3>2. run' = [run EXCEPT ![r] = x]
      BY <1>1, <2>1 DEF RunRecord
    <3> HIDE DEF x
    <3> QED  BY <1>2, <2>1, <3>1, <3>2, MoveRunnerInv DEF StepPcs
  <2>2. CASE ReserveRun(r)
    BY <2>1, <2>2, LeaveInv DEF ReserveRun
  <2>3. CASE RecoverGet(r)
    BY <2>1, <2>3 DEF RecoverGet
  <2> QED  BY <1>6, <2>2, <2>3
<1>7. CASE StepFails(r) \/ ImportDatabase(r) \/ PassStep(r)
  BY <1>3, <1>7, JumpInv DEF StepFails, ImportDatabase, PassStep, RunPcs
<1>8. CASE RecoverJudge(r)
  <2>1. run[r].pc = "judge" /\ UNCHANGED <<ledgerVars, row, dropletRows, prun>>
    BY <1>8 DEF RecoverJudge
  <2>2. Jump(r, "freeze") \/ Jump(r, "load") \/ Leave(r)
    BY <1>8 DEF RecoverJudge
  <2> QED  BY <2>1, <2>2, JumpInv, LeaveInv DEF RunPcs, StepPcs
<1>9. ASSUME NEW d \in Deployments, RecoverList(r, d)  PROVE RunInv'
  <2> DEFINE x == [IdleRun EXCEPT !.pc = "get", !.dep = d]
  <2>1. x \in RunRecord /\ x.pc = "get" /\ x.mem = NoCopy
    BY IdleRunType DEF RunRecord, RunPcs
  <2>2. run' = [run EXCEPT ![r] = x]
    BY <1>9 DEF RecoverList
  <2>3. IsOwn(NoCopy, x.dep)
    BY IdleRunType DEF IsOwn
  <2> HIDE DEF x
  <2> QED  BY <1>9, <2>1, <2>2, <2>3, MoveRunnerInv DEF RecoverList, StepPcs
<1>10. CASE WaitResource(r)
  <2>1. /\ run[r].pc = "body" /\ run[r].mem.prov \in cloud
        /\ UNCHANGED <<ledgerVars, row, dropletRows, prun>>
    BY <1>10 DEF WaitResource, Reachable
  <2>2. run[r].mem.prov # 0
    BY <2>1 DEF RunInv
  <2>3. CASE run[r].mem.drop = 0 /\ run[r].mem.prov \notin dropletRows
    <3>1. Jump(r, "insert")
      BY <1>10, <2>3 DEF WaitResource, Jump
    <3> DEFINE x == [run[r] EXCEPT !.pc = "insert"]
    <3>2. /\ x \in RunRecord /\ x.pc = "insert" /\ x.mem = run[r].mem
          /\ x.dep = run[r].dep /\ run' = [run EXCEPT ![r] = x]
      BY <3>1, JumpRecord DEF RunPcs
    <3> HIDE DEF x
    <3> QED  BY <1>2, <1>3, <2>1, <2>2, <3>2, MoveRunnerInv
  <2>4. CASE ~(run[r].mem.drop = 0 /\ run[r].mem.prov \notin dropletRows)
    <3> DEFINE p == IF run[r].mem.drop = 0 THEN run[r].mem.prov ELSE run[r].mem.drop
               m == [run[r].mem EXCEPT !.drop = p]
               x == [run[r] EXCEPT !.pc = "advance", !.mem = m]
    <3>1. m \in Copy /\ m.prov = run[r].mem.prov /\ m.drop = p /\ m.step = run[r].mem.step
      BY <1>1 DEF Copy
    <3>2. IsOwn(m, run[r].dep)
      BY <1>2, <2>4, <3>1 DEF IsOwn
    <3>3. run' = [run EXCEPT ![r] = x]
      BY <1>1, <1>10, <2>4 DEF WaitResource, RunRecord, Copy
    <3> HIDE DEF m
    <3>4. x \in RunRecord /\ x.pc = "advance" /\ x.mem = m /\ x.dep = run[r].dep
      BY <1>1, <3>1 DEF RunRecord, RunPcs
    <3> HIDE DEF x
    <3> QED  BY <1>3, <2>1, <3>1, <3>2, <3>3, <3>4, MoveRunnerInv
  <2> QED  BY <2>3, <2>4
<1> QED  BY <1>4, <1>5, <1>6, <1>7, <1>8, <1>9, <1>10

\* The checkpoints Engine.Run writes between and after the steps.
LEMMA CheckpointInv ==
    ASSUME RunInv, NEW r \in Runners,
           \/ EnterStep(r) /\ run[r].mem.step # "create"
           \/ Finish(r) \/ Advance(r) \/ RecordFailure(r)
    PROVE  RunInv'
<1> DEFINE m == run[r].mem
<1>1. /\ run[r] \in RunRecord /\ m \in Copy /\ run[r].dep \in Deployments
      /\ run \in [Runners -> RunRecord]
  BY RowAndRunner DEF RunInv, RunTypeOK
<1>2. IsOwn(m, run[r].dep)
  BY DEF RunInv, CheckpointIsOwn
<1>3. ASSUME NEW n \in Copy, n.prov = m.prov, n.drop = m.drop
      PROVE  IsOwn(n, run[r].dep)
  BY <1>2, <1>3 DEF IsOwn
<1>4. ASSUME NEW n \in Copy, n.prov = m.prov, n.drop = m.drop,
             NEW pc \in {"body", "step"}, pc = "body" => n.step # "done",
             UpdateAndGoto(r, n, pc), run[r].pc # "create",
             UNCHANGED <<ledgerVars, dropletRows, prun>>
      PROVE  RunInv'
  <2> DEFINE x == [run[r] EXCEPT !.mem = n, !.pc = pc]
  <2>1. x \in RunRecord /\ x.pc = pc /\ x.mem = n /\ x.dep = run[r].dep
    BY <1>1 DEF RunRecord, RunPcs
  <2>2. run' = [run EXCEPT ![r] = x] /\ Update(run[r].dep, n)
    BY <1>1, <1>4 DEF UpdateAndGoto, RunRecord
  <2> HIDE DEF x
  <2> QED  BY <1>3, <1>4, <2>1, <2>2, UpdateInv DEF StepPcs
<1>5. ASSUME NEW n \in Copy, n.prov = m.prov, n.drop = m.drop,
             Update(run[r].dep, n), Leave(r), run[r].pc # "create",
             UNCHANGED <<ledgerVars, dropletRows, prun>>
      PROVE  RunInv'
  <2>1. run' = [run EXCEPT ![r] = IdleRun] /\ IsOwn(IdleRun.mem, IdleRun.dep)
    BY <1>5, IdleRunType DEF Leave, IsOwn
  <2> QED  BY <1>3, <1>5, <2>1, IdleRunType, UpdateInv DEF StepPcs
<1>6. CASE EnterStep(r) /\ run[r].mem.step # "create"
  <2> DEFINE n == [m EXCEPT !.state = StepState[m.step]]
  <2>1. m.step \in Steps /\ m.step # "done"
    BY <1>1, <1>6 DEF EnterStep, Copy
  <2>2. n \in Copy /\ n.prov = m.prov /\ n.drop = m.drop /\ n.step = m.step
    BY <1>1, <2>1, StepTypes DEF Copy
  <2>3. /\ UpdateAndGoto(r, n, "body") /\ run[r].pc # "create"
        /\ UNCHANGED <<ledgerVars, dropletRows, prun>>
    BY <1>6, <2>2 DEF EnterStep
  <2> HIDE DEF n
  <2> QED  BY <1>4, <2>1, <2>2, <2>3
<1>7. CASE Advance(r)
  <2> DEFINE n == [m EXCEPT !.step = NextStep(m.step)]
  <2>1. m.step \in Steps /\ m.step # "done"
    BY <1>1, <1>7 DEF Advance, Copy, RunInv, BusyInv, StepPcs
  <2>2. n \in Copy /\ n.prov = m.prov /\ n.drop = m.drop
    BY <1>1, <2>1, StepTypes DEF Copy
  <2>3. /\ UpdateAndGoto(r, n, "step") /\ run[r].pc # "create"
        /\ UNCHANGED <<ledgerVars, dropletRows, prun>>
    BY <1>7 DEF Advance
  <2> HIDE DEF n
  <2> QED  BY <1>4, <2>2, <2>3
<1>8. CASE Finish(r)
  <2> DEFINE n == [m EXCEPT !.state = "READY"]
  <2>1. n \in Copy /\ n.prov = m.prov /\ n.drop = m.drop
    BY <1>1, StepTypes DEF Copy
  <2>2. /\ Update(run[r].dep, n) /\ Leave(r) /\ run[r].pc # "create"
        /\ UNCHANGED <<ledgerVars, dropletRows, prun>>
    BY <1>8 DEF Finish
  <2> HIDE DEF n
  <2> QED  BY <1>5, <2>1, <2>2
<1>9. CASE RecordFailure(r)
  BY <1>1, <1>5, <1>9 DEF RecordFailure
<1> QED  BY <1>6, <1>7, <1>8, <1>9

\* The INSERT into the droplets table names the droplet of the copy.
LEMMA InsertInv ==
    ASSUME RunInv, NEW r \in Runners, InsertDroplet(r)
    PROVE  RunInv'
<1> DEFINE m == run[r].mem
           p == m.prov
<1>1. /\ run[r] \in RunRecord /\ m \in Copy /\ run[r].dep \in Deployments
      /\ run \in [Runners -> RunRecord] /\ row \in [Deployments -> Row]
  BY RowAndRunner DEF RunInv, RunTypeOK
<1>2. /\ run[r].pc = "insert" /\ dropletRows' = dropletRows \cup {p}
      /\ created' = created /\ cloud' = cloud /\ call' = call
      /\ row' = row /\ prun' = prun /\ TypeOK'
  BY DEF InsertDroplet, ledgerVars, RunInv, RunTypeOK, TypeOK
<1>3. p \in Nat /\ p # 0 /\ OwnedBy(p, run[r].dep) /\ m.step # "done"
  BY <1>1, <1>2 DEF RunInv, BusyInv, CheckpointIsOwn, IsOwn, StepPcs, Copy
<1>4. PICK x \in RunRecord :
         /\ run' = [run EXCEPT ![r] = x] /\ x.dep = run[r].dep
         /\ x.pc \in {"fail", "advance"}
         /\ x.mem.prov = p /\ x.mem.drop \in {m.drop, p} /\ x.mem.step = m.step
  <2>1. CASE p \in dropletRows
    <3> DEFINE x == [run[r] EXCEPT !.pc = "fail"]
    <3>1. run' = [run EXCEPT ![r] = x]
      BY <1>1, <2>1 DEF InsertDroplet, RunRecord
    <3>2. x \in RunRecord /\ x.dep = run[r].dep /\ x.pc = "fail" /\ x.mem = m
      BY <1>1 DEF RunRecord, RunPcs
    <3> QED  BY <3>1, <3>2
  <2>2. CASE p \notin dropletRows
    <3> DEFINE n == [m EXCEPT !.drop = p]
               x == [run[r] EXCEPT !.pc = "advance", !.mem = n]
    <3>1. n \in Copy /\ n.prov = p /\ n.drop = p /\ n.step = m.step
      BY <1>1, <1>3 DEF Copy
    <3>2. run' = [run EXCEPT ![r] = x]
      BY <1>1, <2>2 DEF InsertDroplet, RunRecord, Copy
    <3> HIDE DEF n
    <3>3. x \in RunRecord /\ x.dep = run[r].dep /\ x.pc = "advance" /\ x.mem = n
      BY <1>1, <3>1 DEF RunRecord, RunPcs
    <3> QED  BY <3>1, <3>2, <3>3
  <2> QED  BY <2>1, <2>2
<1>5. /\ run' \in [Runners -> RunRecord] /\ run'[r] = x
      /\ \A s \in Runners : s # r => run'[s] = run[s]
  BY <1>1, <1>4
<1>6. RunTypeOK'
  BY <1>2, <1>3, <1>5 DEF RunInv, RunTypeOK
<1>7. CheckpointIsOwn'
  <2>1. \A d \in Deployments : IsOwn(row[d], d)'
    BY <1>2 DEF RunInv, CheckpointIsOwn, IsOwn, OwnedBy
  <2>2. \A s \in Runners : IsOwn(run[s].mem, run[s].dep)'
    <3>1. IsOwn(run[r].mem, run[r].dep)'
      BY <1>2, <1>3, <1>4, <1>5 DEF RunInv, CheckpointIsOwn, IsOwn, OwnedBy
    <3> QED  BY <1>2, <1>5, <3>1 DEF RunInv, CheckpointIsOwn, IsOwn, OwnedBy
  <2>3. \A q \in dropletRows' : \E d \in Deployments : OwnedBy(q, d)'
    BY <1>1, <1>2, <1>3 DEF RunInv, CheckpointIsOwn, OwnedBy
  <2> QED  BY <2>1, <2>2, <2>3 DEF CheckpointIsOwn
<1>8. BusyInv'
  BY <1>3, <1>4, <1>5 DEF RunInv, BusyInv
<1>9. CallInv'
  <2>1. call[r].pc = "idle"
    BY <1>2 DEF RunInv, CallInv
  <2> QED  BY <1>2, <1>5, <2>1 DEF RunInv, CallInv, OwnedBy
<1> QED  BY <1>2, <1>6, <1>7, <1>8, <1>9 DEF RunInv

\* provisioning.Engine.Execute opens and closes only runs of own droplets.
LEMMA ProvisionInv ==
    ASSUME RunInv, NEW r \in Runners, BeginProvision(r) \/ EndProvision(r)
    PROVE  RunInv'
<1> DEFINE m == run[r].mem
<1>1. /\ run[r] \in RunRecord /\ m \in Copy /\ run[r].dep \in Deployments
      /\ IsOwn(m, run[r].dep) /\ m.step # "done" /\ m.drop # 0
      /\ run[r].pc # "create"
      /\ UNCHANGED <<ledgerVars, row, dropletRows>>
  BY RowAndRunner
     DEF RunInv, CheckpointIsOwn, BusyInv, StepPcs, BeginProvision, EndProvision
<1>2. m.drop \in dropletRows
  BY <1>1 DEF IsOwn
<1>3. ASSUME NEW s \in PRunStates, SetPRun(m.drop, s)
      PROVE  prun' \in [DOMAIN prun' -> PRunStates] /\ DOMAIN prun' \subseteq dropletRows
  BY <1>2, <1>3 DEF SetPRun, RunInv, RunTypeOK
<1>4. prun' \in [DOMAIN prun' -> PRunStates] /\ DOMAIN prun' \subseteq dropletRows
  <2>1. CASE UNCHANGED prun
    BY <2>1 DEF RunInv, RunTypeOK
  <2>2. CASE \E s \in PRunStates : SetPRun(m.drop, s)
    BY <1>3, <2>2
  <2>3. PRun(m.drop) \in PRunStates \cup {"none"}
    BY DEF PRun, RunInv, RunTypeOK
  <2>4. UNCHANGED prun \/ \E s \in PRunStates : SetPRun(m.drop, s)
    BY <2>3 DEF BeginProvision, EndProvision, PRunStates
  <2> QED  BY <2>1, <2>2, <2>4
<1>5. \E pc \in {"advance", "fail", "ssh"} : Jump(r, pc)
  BY DEF BeginProvision, EndProvision
<1>6. PICK pc \in {"advance", "fail", "ssh"} : Jump(r, pc) /\ pc \in RunPcs
  BY <1>5 DEF RunPcs
<1> DEFINE x == [run[r] EXCEPT !.pc = pc]
<1>7. /\ x \in RunRecord /\ x.pc = pc /\ x.dep = run[r].dep /\ x.mem = m
      /\ run' = [run EXCEPT ![r] = x]
  BY <1>6, JumpRecord
<1>8. row' \in [Deployments -> Row] /\ \A d \in Deployments : IsOwn(row'[d], d)
  BY <1>1 DEF RunInv, RunTypeOK, CheckpointIsOwn
<1> HIDE DEF x
<1> QED  BY <1>1, <1>4, <1>6, <1>7, <1>8, WorkflowInv

\* ReconcileLocalState links a row to the droplet its own provider id names.
LEMMA LinkInv ==
    ASSUME RunInv, NEW d \in Deployments, LinkDroplet(d)
    PROVE  RunInv'
<1>1. /\ created' = created /\ cloud' = cloud /\ call' = call /\ run' = run
      /\ dropletRows' = dropletRows /\ prun' = prun /\ TypeOK'
  BY DEF LinkDroplet, ledgerVars, RunInv, RunTypeOK, TypeOK
<1>2. row \in [Deployments -> Row] /\ row[d] \in Row /\ row[d].prov \in Nat
  BY DEF RunInv, RunTypeOK, Row
<1>3. /\ row' \in [Deployments -> Row]
      /\ row'[d].prov = row[d].prov /\ row'[d].drop = row[d].prov
      /\ \A e \in Deployments : e # d => row'[e] = row[e]
  BY <1>2 DEF LinkDroplet, Row
<1>4. RunTypeOK'
  BY <1>1, <1>3 DEF RunInv, RunTypeOK
<1>5. CheckpointIsOwn'
  <2>1. \A e \in Deployments : IsOwn(row[e], e)'
    BY <1>1, <1>3 DEF LinkDroplet, RunInv, CheckpointIsOwn, IsOwn, OwnedBy
  <2> QED  BY <1>1, <2>1 DEF RunInv, CheckpointIsOwn, IsOwn, OwnedBy
<1>6. BusyInv' /\ CallInv'
  BY <1>1 DEF RunInv, BusyInv, CallInv, OwnedBy
<1> QED  BY <1>1, <1>4, <1>5, <1>6 DEF RunInv
-----------------------------------------------------------------------------
(* Steps inside the ledger. *)

\* What a step of RuntimeSteps.Create does to the other parts: the call stays
\* with its deployment, and a provider id it returns was made for that one.
LEMMA CreateStepCall ==
    ASSUME LedgerInv, NEW r \in Runners, CreateStep(r)
    PROVE  /\ call[r].pc # "idle" /\ call'[r].pc # "idle"
           /\ call'[r].dep = call[r].dep
           /\ \A s \in Runners : s # r => call'[s] = call[s]
           /\ call'[r].pc = "ret" /\ call'[r].res # 0 =>
                 OwnedBy(call'[r].res, call[r].dep)
           /\ created \subseteq created'
           /\ 0 \notin cloud => 0 \notin cloud'
<1>1. /\ call \in [Runners -> CallRecord] /\ call[r] \in CallRecord
      /\ call[r].dep \in Deployments /\ nextId \in Nat \ {0}
  BY DEF LedgerInv, TypeOK, CallRecord
<1>2. RegionOf(call[r]) \in AllRegions
  BY RegionType DEF LedgerInv
<1>3. OpOf(call[r]).res # 0 => OwnedBy(OpOf(call[r]).res, call[r].dep)
  BY <1>1, <1>2 DEF LedgerInv, ResourceIsOwn, IsFor, OpOf, OwnedBy
<1>4. call[r].pc \in {"egress2", "adoptsave"} => OwnedBy(call[r].res, call[r].dep)
  BY DEF LedgerInv, ResultInv, IsFor, OwnedBy
<1>5. ASSUME NEW v, Return(r, v), v # 0 => OwnedBy(v, call[r].dep)
      PROVE  /\ call'[r].pc = "ret" /\ call'[r].dep = call[r].dep
             /\ \A s \in Runners : s # r => call'[s] = call[s]
             /\ call'[r].res # 0 => OwnedBy(call'[r].res, call[r].dep)
  BY <1>1, <1>5 DEF Return, CallRecord
<1>6. ASSUME NEW pc \in CallPcs \ {"idle", "ret"}, Goto(r, pc)
      PROVE  /\ call'[r].pc = pc /\ call'[r].dep = call[r].dep
             /\ \A s \in Runners : s # r => call'[s] = call[s]
  BY <1>1, <1>6 DEF Goto, CallRecord
<1>7. CASE GateBlocked(r) \/ EgressFailsBefore(r) \/ RecordUnclear(r) \/ EgressFailsAfter(r)
  <2>1. /\ call[r].pc # "idle" /\ Return(r, 0)
        /\ created' = created /\ cloud' = cloud
    BY <1>7 DEF GateBlocked, EgressFailsBefore, RecordUnclear, EgressFailsAfter
  <2> QED  BY <1>5, <2>1
<1>8. CASE ReserveFresh(r) \/ CreateRejected(r) \/ CreateUnclear(r)
  <2>1. /\ call[r].pc # "idle" /\ created' = created /\ cloud' = cloud
        /\ \E pc \in {"egress1", "reject", "unsure"} : Goto(r, pc)
    BY <1>8 DEF ReserveFresh, CreateRejected, CreateUnclear
  <2> QED  BY <1>6, <2>1 DEF CallPcs
<1>9. CASE ReserveExisting(r)
  <2>1. /\ call[r].pc # "idle" /\ created' = created /\ cloud' = cloud
        /\ Goto(r, "adopt") \/ Return(r, OpOf(call[r]).res)
    BY <1>9 DEF ReserveExisting
  <2> QED  BY <1>3, <1>5, <1>6, <2>1 DEF CallPcs
<1>10. CASE MarkRunning(r)
  <2>1. /\ call[r].pc # "idle" /\ created' = created /\ cloud' = cloud
        /\ Goto(r, "call") \/ Return(r, 0)
    BY <1>10 DEF MarkRunning
  <2> QED  BY <1>5, <1>6, <2>1 DEF CallPcs
<1>11. CASE CreateAccepted(r)
  BY <1>1, <1>11 DEF CreateAccepted, MakeDroplet, CallRecord
<1>12. CASE RecordRejected(r)
  <2>1. /\ call[r].pc # "idle" /\ created' = created /\ cloud' = cloud
        /\ \/ call' = [call EXCEPT ![r].pc = "gate", ![r].i = call[r].i + 1]
           \/ Return(r, 0)
    BY <1>12 DEF RecordRejected
  <2>2. CASE call' = [call EXCEPT ![r].pc = "gate", ![r].i = call[r].i + 1]
    BY <1>1, <2>1, <2>2 DEF CallRecord
  <2> QED  BY <1>5, <2>1, <2>2
<1>13. CASE RecordCreated(r) \/ RecordAdopted(r)
  <2>1. /\ call[r].pc \in {"egress2", "adoptsave"}
        /\ created' = created /\ cloud' = cloud
        /\ Return(r, call[r].res) \/ Return(r, 0)
    BY <1>13 DEF RecordCreated, RecordAdopted, SaveVerifying
  <2> QED  BY <1>4, <1>5, <2>1
<1>14. CASE AdoptUnknownCreate(r)
  <2>1. /\ call[r].pc # "idle" /\ created' = created /\ cloud' = cloud
        /\ \/ \E v \in Droplet :
                 call' = [call EXCEPT ![r].pc = "adoptsave", ![r].res = v.id]
           \/ Return(r, 0)
    BY <1>14 DEF AdoptUnknownCreate, Matches, LedgerInv, TypeOK
  <2>2. ASSUME NEW v \in Droplet,
               call' = [call EXCEPT ![r].pc = "adoptsave", ![r].res = v.id]
        PROVE  /\ call'[r].pc = "adoptsave" /\ call'[r].dep = call[r].dep
               /\ \A s \in Runners : s # r => call'[s] = call[s]
    BY <1>1, <2>2 DEF CallRecord
  <2> QED  BY <1>5, <2>1, <2>2
<1> QED  BY <1>7, <1>8, <1>9, <1>10, <1>11, <1>12, <1>13, <1>14 DEF CreateStep

\* While the tables and the runners stay as they are, more droplets do no harm.
LEMMA LedgerStepInv ==
    ASSUME RunInv, TypeOK', UNCHANGED runVars,
           created \subseteq created', 0 \notin cloud', CallInv'
    PROVE  RunInv'
<1>1. row' = row /\ run' = run /\ dropletRows' = dropletRows /\ prun' = prun
  BY DEF runVars
<1>2. \A p, d : OwnedBy(p, d) => OwnedBy(p, d)'
  BY DEF OwnedBy
<1>3. RunTypeOK' /\ BusyInv'
  BY <1>1 DEF RunInv, RunTypeOK, BusyInv
<1>4. CheckpointIsOwn'
  BY <1>1, <1>2 DEF RunInv, CheckpointIsOwn, IsOwn
<1> QED  BY <1>3, <1>4 DEF RunInv

\* A step of the ledger made by a runner inside RuntimeSteps.Create.
LEMMA InsideCreateInv ==
    ASSUME RunInv, LedgerInv, TypeOK', NEW r \in Runners,
           CreateStep(r), UNCHANGED runVars
    PROVE  RunInv'
<1>1. \A p, d : OwnedBy(p, d) => OwnedBy(p, d)'
  BY CreateStepCall DEF OwnedBy
<1>2. CallInv'
  <2>1. run' = run
    BY DEF runVars
  <2> QED  BY <1>1, <2>1, CreateStepCall DEF RunInv, CallInv
<1>3. 0 \notin cloud' /\ created \subseteq created'
  BY CreateStepCall DEF RunInv
<1> QED  BY <1>2, <1>3, LedgerStepInv

\* A step of DigitalOcean or of RecoverOperation.
LEMMA OutsideInv ==
    ASSUME RunInv, LedgerInv, TypeOK', LedgerEnvironment, UNCHANGED runVars
    PROVE  RunInv'
<1>1. call' = call /\ created \subseteq created' /\ 0 \notin cloud'
  <2>1. 0 \notin cloud /\ nextId # 0
    BY DEF RunInv, LedgerInv, TypeOK
  <2>2. ASSUME NEW q \in inflight, LateCreate(q) \/ LateDrop(q)  PROVE <1>1!:
    BY <2>1, <2>2 DEF LateCreate, LateDrop, MakeDroplet
  <2>3. ASSUME \/ RefreshSnapshot \/ SnapshotAges \/ RecoverWrite \/ OtherFault
               \/ \E d \in Deployments, g \in AllRegions : RecoverRead(d, g)
               \/ \E id \in cloud : Destroy(id)
        PROVE  <1>1!:
    BY <2>1, <2>3 DEF RefreshSnapshot, SnapshotAges, RecoverWrite, OtherFault,
       RecoverRead, Destroy
  <2> QED  BY <2>2, <2>3 DEF LedgerEnvironment
<1>2. CallInv'
  BY <1>1 DEF RunInv, CallInv, OwnedBy, runVars
<1> QED  BY <1>1, <1>2, LedgerStepInv

\* Entering RuntimeSteps.Create, after its checkpoint.
LEMMA EnterCreateInv ==
    ASSUME RunInv, TypeOK', NEW r \in Runners, EnterStep(r), run[r].mem.step = "create"
    PROVE  RunInv'
<1> DEFINE d == run[r].dep
           m == run[r].mem
           n == [m EXCEPT !.state = StepState[m.step]]
           x == [run[r] EXCEPT !.mem = n, !.pc = "create"]
<1>1. /\ run[r] \in RunRecord /\ m \in Copy /\ d \in Deployments
      /\ run \in [Runners -> RunRecord] /\ row \in [Deployments -> Row]
      /\ IsOwn(m, d)
  BY RowAndRunner DEF RunInv, RunTypeOK, CheckpointIsOwn
<1>2. n \in Copy /\ n.prov = m.prov /\ n.drop = m.drop /\ n.step = "create"
  BY <1>1, StepTypes DEF Copy
<1>3. /\ UpdateAndGoto(r, n, "create") /\ BeginCreate(r, d, run[r].cfg)
      /\ created' = created /\ cloud' = cloud
      /\ dropletRows' = dropletRows /\ prun' = prun
  BY <1>2 DEF EnterStep
<1> HIDE DEF n
<1>4. x \in RunRecord /\ x.pc = "create" /\ x.mem = n /\ x.dep = d
  BY <1>1, <1>2 DEF RunRecord, RunPcs
<1>5. run' = [run EXCEPT ![r] = x]
  BY <1>1, <1>3 DEF UpdateAndGoto, RunRecord
<1> HIDE DEF x
<1>6. /\ run' \in [Runners -> RunRecord] /\ run'[r] = x
      /\ \A s \in Runners : s # r => run'[s] = run[s]
  BY <1>1, <1>4, <1>5
<1>7. /\ row' \in [Deployments -> Row]
      /\ row'[d].prov = n.prov /\ row'[d].drop = n.drop
      /\ \A e \in Deployments : e # d => row'[e] = row[e]
  BY <1>1, <1>2, <1>3 DEF UpdateAndGoto, Update, Row, Copy
<1>8. call'[r].pc = "gate" /\ call'[r].dep = d
      /\ \A s \in Runners : s # r => call'[s] = call[s]
  <2>1. call \in [Runners -> CallRecord] /\ IdleCall \in CallRecord
    BY IdleTypes DEF RunInv, RunTypeOK, TypeOK
  <2> QED  BY <1>3, <2>1 DEF BeginCreate, CallRecord
<1>9. RunTypeOK'
  BY <1>3, <1>6, <1>7 DEF RunInv, RunTypeOK
<1>10. CheckpointIsOwn'
  BY <1>1, <1>2, <1>3, <1>4, <1>6, <1>7
     DEF RunInv, CheckpointIsOwn, IsOwn, OwnedBy
<1>11. BusyInv'
  BY <1>2, <1>4, <1>6 DEF RunInv, BusyInv
<1>12. CallInv'
  BY <1>3, <1>4, <1>6, <1>8 DEF RunInv, CallInv, OwnedBy
<1> QED  BY <1>3, <1>9, <1>10, <1>11, <1>12 DEF RunInv

\* Its return: the copy takes over the provider id, which is the deployment's.
LEMMA CreateReturnedInv ==
    ASSUME RunInv, TypeOK', NEW r \in Runners, CreateReturned(r)
    PROVE  RunInv'
<1> DEFINE m == run[r].mem
           c == call[r]
<1>1. /\ run[r] \in RunRecord /\ m \in Copy /\ run[r].dep \in Deployments
      /\ run \in [Runners -> RunRecord] /\ IsOwn(m, run[r].dep)
  BY RowAndRunner DEF RunInv, RunTypeOK, CheckpointIsOwn
<1>2. /\ c.pc = "ret" /\ c.dep = run[r].dep /\ c.res \in Nat /\ m.step # "done"
      /\ c.res # 0 => OwnedBy(c.res, run[r].dep)
  BY DEF CreateReturned, RunInv, RunTypeOK, TypeOK, CallRecord, CallInv, BusyInv,
     StepPcs
<1>3. /\ call' = [call EXCEPT ![r] = IdleCall] /\ created' = created /\ cloud' = cloud
      /\ row' = row /\ dropletRows' = dropletRows /\ prun' = prun
  BY DEF CreateReturned
<1>4. PICK x \in RunRecord :
         /\ run' = [run EXCEPT ![r] = x] /\ x.dep = run[r].dep
         /\ x.pc \in {"fail", "advance"} /\ x.mem.step = m.step
         /\ IsOwn(x.mem, run[r].dep)
  <2>1. CASE c.res # 0
    <3> DEFINE n == [m EXCEPT !.prov = c.res]
               x == [run[r] EXCEPT !.mem = n, !.pc = "advance"]
    <3>1. n \in Copy /\ n.prov = c.res /\ n.drop = m.drop /\ n.step = m.step
      BY <1>1, <1>2 DEF Copy
    <3>2. IsOwn(n, run[r].dep)
      BY <1>1, <1>2, <3>1 DEF IsOwn
    <3>3. run' = [run EXCEPT ![r] = x]
      BY <1>1, <2>1 DEF CreateReturned, RunRecord, Copy
    <3> HIDE DEF n
    <3>4. x \in RunRecord /\ x.dep = run[r].dep /\ x.pc = "advance" /\ x.mem = n
      BY <1>1, <3>1 DEF RunRecord, RunPcs
    <3> QED  BY <3>1, <3>2, <3>3, <3>4
  <2>2. CASE c.res = 0
    <3> DEFINE x == [run[r] EXCEPT !.pc = "fail"]
    <3>1. run' = [run EXCEPT ![r] = x]
      BY <1>1, <2>2 DEF CreateReturned, RunRecord
    <3>2. x \in RunRecord /\ x.dep = run[r].dep /\ x.pc = "fail" /\ x.mem = m
      BY <1>1 DEF RunRecord, RunPcs
    <3> QED  BY <1>1, <3>1, <3>2
  <2> QED  BY <2>1, <2>2
<1>5. /\ run' \in [Runners -> RunRecord] /\ run'[r] = x
      /\ \A s \in Runners : s # r => run'[s] = run[s]
  BY <1>1, <1>4
<1>6. call'[r].pc = "idle" /\ \A s \in Runners : s # r => call'[s] = call[s]
  <2>1. call \in [Runners -> CallRecord] /\ IdleCall.pc = "idle"
    BY DEF RunInv, RunTypeOK, TypeOK, IdleCall
  <2> QED  BY <1>3, <2>1
<1>7. RunTypeOK'
  BY <1>3, <1>5 DEF RunInv, RunTypeOK
<1>8. CheckpointIsOwn'
  BY <1>3, <1>4, <1>5 DEF RunInv, CheckpointIsOwn, IsOwn, OwnedBy
<1>9. BusyInv'
  BY <1>2, <1>4, <1>5 DEF RunInv, BusyInv
<1>10. CallInv'
  BY <1>3, <1>5, <1>6 DEF RunInv, CallInv, OwnedBy
<1> QED  BY <1>3, <1>7, <1>8, <1>9, <1>10 DEF RunInv

\* A crash forgets the runner and its call.
LEMMA AbortRunInv ==
    ASSUME RunInv, TypeOK', NEW r \in Runners, AbortRun(r)
    PROVE  RunInv'
<1>1. /\ created' = created /\ cloud' = cloud /\ row' = row
      /\ dropletRows' = dropletRows /\ prun' = prun
      /\ run' = [run EXCEPT ![r] = IdleRun]
  BY DEF AbortRun, Abort, OtherFault, Leave
<1>2. call'[r].pc = "idle" /\ \A s \in Runners : s # r => call'[s] = call[s]
  <2>1. call \in [Runners -> CallRecord] /\ IdleCall.pc = "idle"
    BY DEF RunInv, RunTypeOK, TypeOK, IdleCall
  <2> QED  BY <2>1 DEF AbortRun, Abort, OtherFault
<1>3. /\ run' \in [Runners -> RunRecord] /\ run'[r] = IdleRun
      /\ \A s \in Runners : s # r => run'[s] = run[s]
  BY <1>1, IdleRunType DEF RunInv, RunTypeOK
<1>4. RunTypeOK'
  BY <1>1, <1>3 DEF RunInv, RunTypeOK
<1>5. CheckpointIsOwn'
  BY <1>1, <1>3, IdleRunType DEF RunInv, CheckpointIsOwn, IsOwn, OwnedBy
<1>6. BusyInv'
  BY <1>3, IdleRunType DEF RunInv, BusyInv, StepPcs
<1>7. CallInv'
  BY <1>1, <1>2, <1>3 DEF RunInv, CallInv, OwnedBy
<1> QED  BY <1>1, <1>4, <1>5, <1>6, <1>7 DEF RunInv
\* A query that fails costs a fault and sends the runner on.
LEMMA UnjudgedInv ==
    ASSUME RunInv, TypeOK', NEW r \in Runners, RecoverUnjudged(r)
    PROVE  RunInv'
<1> DEFINE x == [run[r] EXCEPT !.pc = "load"]
<1>1. /\ run[r].pc = "judge" /\ Jump(r, "load") /\ created' = created
      /\ cloud' = cloud /\ call' = call /\ row' = row
      /\ dropletRows' = dropletRows /\ prun' = prun
  BY DEF RecoverUnjudged, OtherFault
<1>2. /\ x \in RunRecord /\ x.pc = "load" /\ x.dep = run[r].dep /\ x.mem = run[r].mem
      /\ run' = [run EXCEPT ![r] = x]
  BY <1>1, JumpRecord DEF RunPcs
<1> HIDE DEF x
<1>3. /\ run' \in [Runners -> RunRecord] /\ run'[r] = x
      /\ \A s \in Runners : s # r => run'[s] = run[s]
  BY <1>2 DEF RunInv, RunTypeOK
<1>4. RunTypeOK'
  BY <1>1, <1>3 DEF RunInv, RunTypeOK
<1>5. CheckpointIsOwn'
  BY <1>1, <1>2, <1>3 DEF RunInv, CheckpointIsOwn, IsOwn, OwnedBy
<1>6. BusyInv'
  BY <1>2, <1>3 DEF RunInv, BusyInv, StepPcs
<1>7. CallInv'
  BY <1>1, <1>2, <1>3 DEF RunInv, CallInv, OwnedBy
<1> QED  BY <1>1, <1>4, <1>5, <1>6, <1>7 DEF RunInv
-----------------------------------------------------------------------------
(* The whole run. *)

\* Every step of the workflow, of recovery and of the environment is a step of
\* the ledger or leaves it alone.
LEMMA RunNextIsLedgerStep ==
    ASSUME RunInv, RunNext
    PROVE  [LedgerNext]_ledgerVars
<1>1. ASSUME NEW r \in Runners, NEW d \in Deployments,
             StartDeployment(r, d) \/ RecoverList(r, d)
      PROVE  [LedgerNext]_ledgerVars
  BY <1>1 DEF StartDeployment, RecoverList
<1>2. ASSUME NEW r \in Runners, RunStep(r)  PROVE [LedgerNext]_ledgerVars
  <2>1. run[r].dep \in Deployments /\ run[r].cfg \in Configs
    BY RowAndRunner DEF RunInv
  <2> QED  BY <1>2, <2>1, RunStepIsLedgerStep
<1>3. ASSUME NEW r \in Runners, AbortRun(r)  PROVE [LedgerNext]_ledgerVars
  BY <1>3 DEF AbortRun, LedgerNext, LedgerEnvironment
<1>4. CASE LedgerEnvironment /\ UNCHANGED runVars
  BY <1>4 DEF LedgerNext
<1>5. ASSUME NEW d \in Deployments, LinkDroplet(d)  PROVE [LedgerNext]_ledgerVars
  BY <1>5 DEF LinkDroplet
<1> QED  BY <1>1, <1>2, <1>3, <1>4, <1>5 DEF RunNext

\* The two invariants together are inductive.
LEMMA RunNextInv ==
    LedgerInv /\ RunInv /\ [RunNext]_vars => LedgerInv' /\ RunInv'
<1> SUFFICES ASSUME LedgerInv, RunInv, [RunNext]_vars PROVE LedgerInv' /\ RunInv'
  OBVIOUS
<1>1. CASE UNCHANGED vars
  <2>1. UNCHANGED ledgerVars /\ UNCHANGED runVars
    BY <1>1 DEF vars
  <2>2. LedgerInv'
    BY <2>1, NextInv
  <2>3. CallInv' /\ TypeOK' /\ created' = created /\ cloud' = cloud
    BY <2>1, <2>2 DEF ledgerVars, runVars, RunInv, CallInv, OwnedBy, LedgerInv
  <2> QED  BY <2>1, <2>2, <2>3, LedgerStepInv DEF RunInv
<1>2. CASE RunNext
  <2>1. LedgerInv' /\ TypeOK'
    BY <1>2, RunNextIsLedgerStep, NextInv DEF LedgerInv
  <2>2. ASSUME NEW r \in Runners, NEW d \in Deployments,
               StartDeployment(r, d) \/ RecoverList(r, d)
        PROVE  RunInv'
    BY <2>2, PrepareInv, ReadInv
  <2>3. ASSUME NEW r \in Runners, RunStep(r)  PROVE RunInv'
    <3>1. CASE AttachSnapshot(r) \/ EnsureSSHIdentity(r) \/ Freeze(r)
      BY <3>1, PrepareInv
    <3>2. CASE \/ LoadConfig(r) \/ LoadFails(r) \/ ReserveRun(r) \/ StepFails(r)
               \/ WaitResource(r) \/ ImportDatabase(r) \/ PassStep(r)
               \/ RecoverGet(r) \/ RecoverJudge(r)
      BY <3>2, ReadInv
    <3>3. CASE EnterStep(r)
      BY <2>1, <3>3, CheckpointInv, EnterCreateInv
    <3>4. CASE Finish(r) \/ Advance(r) \/ RecordFailure(r)
      BY <3>4, CheckpointInv
    <3>5. CASE CreateStep(r) /\ UNCHANGED runVars
      BY <2>1, <3>5, InsideCreateInv
    <3>6. CASE CreateReturned(r)
      BY <2>1, <3>6, CreateReturnedInv
    <3>7. CASE InsertDroplet(r)
      BY <3>7, InsertInv
    <3>8. CASE BeginProvision(r) \/ EndProvision(r)
      BY <3>8, ProvisionInv
    <3>9. CASE RecoverUnjudged(r)
      BY <2>1, <3>9, UnjudgedInv
    <3> QED
      BY <2>3, <3>1, <3>2, <3>3, <3>4, <3>5, <3>6, <3>7, <3>8, <3>9 DEF RunStep
  <2>4. ASSUME NEW r \in Runners, AbortRun(r)  PROVE RunInv'
    BY <2>1, <2>4, AbortRunInv
  <2>5. CASE LedgerEnvironment /\ UNCHANGED runVars
    BY <2>1, <2>5, OutsideInv
  <2>6. ASSUME NEW d \in Deployments, LinkDroplet(d)  PROVE RunInv'
    BY <2>6, LinkInv
  <2> QED  BY <1>2, <2>1, <2>2, <2>3, <2>4, <2>5, <2>6 DEF RunNext
<1> QED  BY <1>1, <1>2

\* The invariants hold in every state a deployment run can reach.
THEOREM RunInvariant == RunSpec => [](LedgerInv /\ RunInv)
<1>1. RunInit => LedgerInv /\ RunInv
  BY InitInv, RunInitInv DEF RunInit
<1> QED  BY <1>1, RunNextInv, PTL DEF RunSpec

\* The deployment workflow and its recovery implement the ledger: whatever
\* Engine.Run and RecoverDeployment do, in any number and order, they do no
\* more to operations and droplets than callers of Executor.Create may.
THEOREM WorkflowImplementsLedger == RunSpec => ImplementsLedger
<1>1. RunInit => LedgerInit
  BY DEF RunInit
<1>2. RunInv /\ [RunNext]_vars => [LedgerNext]_ledgerVars
  BY RunNextIsLedgerStep DEF vars
<1> QED  BY <1>1, <1>2, RunInvariant, PTL DEF RunSpec, ImplementsLedger, LedgerSpec

\* Rows, private copies and provisioning runs keep their types; in particular
\* a provisioning run belongs to a row of the droplets table.
THEOREM WorkflowTypes == RunSpec => []RunTypeOK
<1>1. RunInv => RunTypeOK
  BY DEF RunInv
<1> QED  BY <1>1, RunInvariant, PTL

\* Although SQLStore.Update overwrites without comparing versions, no runner,
\* however late, stores another deployment's droplet in a row.
THEOREM OwnCheckpoints == RunSpec => []CheckpointIsOwn
<1>1. RunInv => CheckpointIsOwn
  BY DEF RunInv
<1> QED  BY <1>1, RunInvariant, PTL

\* Starting, crashing, recovering and racing deployments never make DigitalOcean
\* create a second droplet for one deployment.
THEOREM WorkflowOneDroplet == RunSpec => []OneDropletPerDeployment
<1>1. LedgerInv => OneDropletPerDeployment
  BY DEF LedgerInv
<1> QED  BY <1>1, RunInvariant, PTL
-----------------------------------------------------------------------------
(* The freeze of a failed create. *)

\* A row of the ledger that says failed is never written again: owners write
\* rows between planned and their outcome, adoption and recovery rows that were
\* given up, and no key is reserved twice.
LEMMA FailedIsFinal ==
    ASSUME LedgerInv, [LedgerNext]_ledgerVars,
           NEW d \in Deployments, NEW g \in AllRegions, ops[d][g].state = "failed"
    PROVE  ops'[d][g] = ops[d][g]
<1>1. /\ ops \in [Deployments -> [AllRegions -> Op]]
      /\ call \in [Runners -> CallRecord] /\ rec \in RecRecord
  BY DEF LedgerInv, TypeOK
<1>2. ASSUME NEW r \in Runners, NEW st, NEW p, OpOf(call[r]).state # "failed",
             WriteOp(r, st, p)
      PROVE  ops'[d][g] = ops[d][g]
  <2>1. call[r].dep \in Deployments /\ RegionOf(call[r]) \in AllRegions
    BY <1>1, RegionType DEF LedgerInv, CallRecord
  <2>2. ~(call[r].dep = d /\ RegionOf(call[r]) = g)
    BY <1>2 DEF OpOf
  <2> QED  BY <1>1, <1>2, <2>1, <2>2 DEF WriteOp
<1>3. ASSUME NEW r \in Runners, CreateStep(r)
      PROVE  ops'[d][g] = ops[d][g]
  <2>1. CASE \/ GateBlocked(r) \/ ReserveExisting(r) \/ CreateAccepted(r)
             \/ CreateRejected(r) \/ CreateUnclear(r) \/ AdoptUnknownCreate(r)
    BY <2>1 DEF GateBlocked, ReserveExisting, CreateAccepted, CreateRejected,
       CreateUnclear, AdoptUnknownCreate
  <2>2. CASE ReserveFresh(r)
    BY <1>2, <2>2 DEF ReserveFresh
  <2>3. CASE \/ EgressFailsBefore(r) \/ MarkRunning(r) \/ RecordRejected(r)
             \/ RecordUnclear(r) \/ EgressFailsAfter(r) \/ RecordCreated(r)
    <3>1. call[r].pc \in OwnerPcs
      BY <2>3 DEF EgressFailsBefore, MarkRunning, RecordRejected, RecordUnclear,
         EgressFailsAfter, RecordCreated, OwnerPcs
    <3>2. OpOf(call[r]).state # "failed"
      <4>1. OpOf(call[r]) = [state |-> IF call[r].pc = "egress1" THEN "planned"
                                       ELSE "running",
                             res |-> 0]
        BY <3>1 DEF LedgerInv, OwnerInv
      <4>2. OpOf(call[r]).state = IF call[r].pc = "egress1" THEN "planned" ELSE "running"
        BY <4>1
      <4> QED  BY <4>2
    <3>3. ops' = ops \/ \E st, p : WriteOp(r, st, p)
      BY <2>3 DEF EgressFailsBefore, MarkRunning, RecordRejected, RecordUnclear,
         EgressFailsAfter, RecordCreated, SaveVerifying, WriteOpOrLose
    <3> QED  BY <1>2, <3>2, <3>3
  <2>4. CASE RecordAdopted(r)
    <3>1. OpOf(call[r]).state # "failed"
      BY <2>4 DEF RecordAdopted, LedgerInv, SettledInv
    <3>2. ops' = ops \/ \E st, p : WriteOp(r, st, p)
      BY <2>4 DEF RecordAdopted, SaveVerifying
    <3> QED  BY <1>2, <3>1, <3>2
  <2> QED  BY <1>3, <2>1, <2>2, <2>3, <2>4 DEF CreateStep
<1>4. CASE LedgerEnvironment
  <2>1. CASE RecoverWrite
    <3>1. rec.dep \in Deployments /\ rec.region \in AllRegions
      BY <1>1 DEF RecRecord
    <3>2. ~(rec.dep = d /\ rec.region = g)
      BY <2>1, <3>1 DEF RecoverWrite, LedgerInv, SettledInv
    <3> QED  BY <1>1, <2>1, <3>1, <3>2 DEF RecoverWrite
  <2>2. CASE ~RecoverWrite
    BY <1>4, <2>2 DEF LedgerEnvironment, LateCreate, LateDrop, RefreshSnapshot,
       SnapshotAges, RecoverRead, Destroy, OtherFault
  <2> QED  BY <2>1, <2>2
<1>5. ASSUME NEW r \in Runners, AnyBegin(r) \/ AnyEnd(r) \/ Abort(r)
      PROVE  ops'[d][g] = ops[d][g]
  BY <1>5 DEF AnyBegin, AnyEnd, Abort
<1> QED  BY <1>3, <1>4, <1>5 DEF LedgerNext, ledgerVars

\* Only the judgement of recovery leads to a freeze.
LEMMA OnlyJudgeFreezes ==
    ASSUME RunInv, [RunNext]_vars, NEW r \in Runners, run'[r].pc = "freeze"
    PROVE  run'[r] = run[r] \/ RecoverJudge(r)
<1>1. run \in [Runners -> RunRecord] /\ IdleRun.pc = "idle" /\ run[r] \in RunRecord
  BY IdleRunType DEF RunInv, RunTypeOK
<1>2. ASSUME NEW q \in Runners, NEW d \in Deployments,
             StartDeployment(q, d) \/ RecoverList(q, d)
      PROVE  run'[r] = run[r]
  BY <1>1, <1>2 DEF StartDeployment, RecoverList, IdleRun
<1>3. ASSUME NEW q \in Runners, RunStep(q)  PROVE run'[r] = run[r] \/ RecoverJudge(r)
  <2>1. CASE q # r
    BY <1>1, <1>3, <2>1 DEF RunStep, Jump, Leave, UpdateAndGoto, AttachSnapshot,
       EnsureSSHIdentity, LoadConfig, LoadFails, ReserveRun, EnterStep, Finish,
       Advance, RecordFailure, CreateReturned, StepFails, WaitResource,
       InsertDroplet, BeginProvision, EndProvision, ImportDatabase, PassStep,
       RecoverGet, RecoverJudge, RecoverUnjudged, Freeze, runVars
  <2>2. CASE q = r
    BY <1>1, <1>3, <2>2 DEF RunStep, Jump, Leave, UpdateAndGoto, AttachSnapshot,
       EnsureSSHIdentity, LoadConfig, LoadFails, ReserveRun, EnterStep, Finish,
       Advance, RecordFailure, CreateReturned, StepFails, WaitResource,
       InsertDroplet, BeginProvision, EndProvision, ImportDatabase, PassStep,
       RecoverGet, RecoverUnjudged, Freeze, runVars, RunRecord
  <2> QED  BY <2>1, <2>2
<1>4. ASSUME NEW q \in Runners, AbortRun(q)  PROVE run'[r] = run[r]
  BY <1>1, <1>4 DEF AbortRun, Leave
<1>5. ASSUME NEW d \in Deployments, LinkDroplet(d)  PROVE run'[r] = run[r]
  BY <1>5 DEF LinkDroplet
<1> QED  BY <1>2, <1>3, <1>4, <1>5 DEF RunNext, vars, runVars

\* What a pending freeze goes by stays true until it is applied, whatever other
\* runners do to the same deployment meanwhile.
LEMMA FreezeStep ==
    ASSUME LedgerInv, LedgerInv', RunInv, FreezeIsGrounded, [RunNext]_vars
    PROVE  FreezeIsGrounded'
<1> SUFFICES ASSUME NEW r \in Runners, run'[r].pc = "freeze", run'[r].mem.step = "create"
             PROVE  \E g \in AllRegions :
                      /\ ops'[run'[r].dep][g] = [state |-> "failed", res |-> 0]
                      /\ \A x \in created' \cup inflight' :
                            x.dep = run'[r].dep => x.region # g
  BY DEF FreezeIsGrounded
<1>1. /\ run \in [Runners -> RunRecord] /\ run[r] \in RunRecord
      /\ run[r].dep \in Deployments
  BY RowAndRunner DEF RunInv, RunTypeOK
<1>2. ops \in [Deployments -> [AllRegions -> Op]] /\ latest \in [Deployments -> AllRegions]
  BY DEF LedgerInv, TypeOK
<1>3. PICK g \in AllRegions : /\ ops[run[r].dep][g] = [state |-> "failed", res |-> 0]
                              /\ run'[r].dep = run[r].dep
  <2>1. CASE run'[r] = run[r]
    BY <2>1 DEF FreezeIsGrounded
  <2>2. CASE RecoverJudge(r)
    <3>1. Jump(r, "freeze") \/ Jump(r, "load") \/ Leave(r)
      BY <2>2 DEF RecoverJudge
    <3>2. Jump(r, "freeze")
      BY <1>1, <3>1, IdleRunType DEF Jump, Leave
    <3>3. run'[r].dep = run[r].dep /\ run[r].mem.step = "create"
      BY <1>1, <3>2 DEF Jump, RunRecord
    <3>4. Jump(r, "load") \/ Leave(r) => run'[r].pc # "freeze"
      BY <1>1, IdleRunType DEF Jump, Leave, RunRecord
    <3>5. LatestOp(run[r].dep).res = 0 /\ LatestOp(run[r].dep).state = "failed"
      BY <2>2, <3>3, <3>4 DEF RecoverJudge
    <3>6. /\ latest[run[r].dep] \in AllRegions
          /\ ops[run[r].dep][latest[run[r].dep]] \in Op
      BY <1>1, <1>2
    <3> QED  BY <3>3, <3>5, <3>6 DEF LatestOp, Op
  <2> QED  BY <2>1, <2>2, OnlyJudgeFreezes
<1>4. [LedgerNext]_ledgerVars
  BY RunNextIsLedgerStep DEF vars
<1>5. ops'[run[r].dep][g] = [state |-> "failed", res |-> 0]
  BY <1>1, <1>3, <1>4, FailedIsFinal
<1>6. \A x \in created' \cup inflight' : x.dep = run[r].dep => x.region # g
  BY <1>5 DEF LedgerInv, LedgerCoversProvider
<1> QED  BY <1>3, <1>5, <1>6

\* However many runners work on a deployment, and however late a freeze is
\* applied, the operation it was decided on is still failed and nothing of the
\* deployment is or will be in that region.
THEOREM FreezesAreGrounded == RunSpec => []FreezeIsGrounded
<1>1. RunInit => FreezeIsGrounded
  BY IdleRunType DEF RunInit, FreezeIsGrounded
<1>2. LedgerInv /\ LedgerInv' /\ RunInv /\ FreezeIsGrounded /\ [RunNext]_vars
          => FreezeIsGrounded'
  BY FreezeStep
<1> QED  BY <1>1, <1>2, RunInvariant, PTL DEF RunSpec
=============================================================================
