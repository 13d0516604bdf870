----------------------- MODULE DropletLifecycleProofs -----------------------
(***************************************************************************)
(* Proofs about DropletLifecycle, for any number of droplets, any limit of *)
(* the account and any bound on the faults.                                *)
(***************************************************************************)
EXTENDS DropletLifecycle, FiniteSetTheorems, TLAPS

\* A worker is the record of its fields.
LEMMA WorkerFields ==
    ASSUME w \in Worker
    PROVE  /\ w.pc \in WorkerPcs /\ w.todo \in SUBSET Ids /\ w.cur \in Ids \cup {0}
           /\ w.state \in [Ids -> RowStates] /\ w.repl \in [Ids -> Ids \cup {0}]
           /\ w.new \in Ids \cup {0} /\ w.verdict \in {"unknown", "succeeded"}
           /\ w = [pc |-> w.pc, todo |-> w.todo, cur |-> w.cur, state |-> w.state,
                   repl |-> w.repl, new |-> w.new, verdict |-> w.verdict]
BY DEF Worker

\* The worker goes on with the item in work, and everything but its pc stays.
LEMMA GotoFields ==
    ASSUME w \in Worker, NEW p \in WorkerPcs, Goto(p)
    PROVE  /\ w' \in Worker
           /\ w'.pc = p /\ w'.todo = w.todo /\ w'.cur = w.cur /\ w'.new = w.new
           /\ w'.state = w.state /\ w'.repl = w.repl /\ w'.verdict = w.verdict
BY DEF Goto, Worker

\* The worker leaves the item in work.
LEMMA NextItemFields ==
    ASSUME w \in Worker, NextItem
    PROVE  /\ w' \in Worker
           /\ w'.pc = "life" /\ w'.todo = w.todo /\ w'.cur = 0 /\ w'.new = 0
           /\ w'.state = [w.state EXCEPT ![w.cur] = "none"]
           /\ w'.repl = [w.repl EXCEPT ![w.cur] = 0]
<1>1. w' = [pc |-> "life", todo |-> w.todo, cur |-> 0,
            state |-> [w.state EXCEPT ![w.cur] = "none"],
            repl |-> [w.repl EXCEPT ![w.cur] = 0], new |-> 0, verdict |-> w.verdict]
  BY WorkerFields DEF NextItem
<1>2. /\ [w.state EXCEPT ![w.cur] = "none"] \in [Ids -> RowStates]
      /\ [w.repl EXCEPT ![w.cur] = 0] \in [Ids -> Ids \cup {0}]
  BY WorkerFields DEF RowStates
<1> QED  BY <1>1, <1>2, WorkerFields DEF Worker, WorkerPcs

\* The worker leaves the operation in work.
LEMMA NextOpFields ==
    ASSUME w \in Worker, NextOp
    PROVE  /\ w' \in Worker
           /\ w'.pc = "ops" /\ w'.todo = w.todo /\ w'.cur = 0 /\ w'.new = w.new
           /\ w'.state = w.state /\ w'.repl = w.repl
BY DEF NextOp, Worker, WorkerPcs

\* The worker takes up a row, or passes over it.
LEMMA TakeFields ==
    ASSUME w \in Worker, NEW d \in Ids, NEW p \in WorkerPcs, Take(d, p)
    PROVE  /\ w' \in Worker
           /\ w'.pc = p /\ w'.todo = w.todo \ {d} /\ w'.cur = d /\ w'.new = w.new
           /\ w'.state = w.state /\ w'.repl = w.repl
BY DEF Take, Worker

LEMMA SkipFields ==
    ASSUME w \in Worker, NEW d \in Ids, Skip(d)
    PROVE  /\ w' \in Worker
           /\ w'.pc = w.pc /\ w'.todo = w.todo \ {d} /\ w'.cur = w.cur /\ w'.new = w.new
           /\ w'.state = [w.state EXCEPT ![d] = "none"]
           /\ w'.repl = [w.repl EXCEPT ![d] = 0]
<1>1. w' = [pc |-> w.pc, todo |-> w.todo \ {d}, cur |-> w.cur,
            state |-> [w.state EXCEPT ![d] = "none"],
            repl |-> [w.repl EXCEPT ![d] = 0], new |-> w.new, verdict |-> w.verdict]
  BY WorkerFields DEF Skip
<1>2. /\ [w.state EXCEPT ![d] = "none"] \in [Ids -> RowStates]
      /\ [w.repl EXCEPT ![d] = 0] \in [Ids -> Ids \cup {0}]
  BY WorkerFields DEF RowStates
<1> QED  BY <1>1, <1>2, WorkerFields DEF Worker

\* The writes of the worker to the two tables keep their types.
LEMMA WritesTyped ==
    ASSUME row \in [Ids -> RowStates], op \in [Ids -> DeleteOp],
           NEW d \in Ids \cup {0}, NEW from, NEW to \in RowStates,
           NEW st \in DeleteStates, NEW r \in BOOLEAN
    PROVE  /\ Transition(d, from, to) => row' \in [Ids -> RowStates]
           /\ WriteDelete(st, r) => op' \in [Ids -> DeleteOp]
<1>1. Transition(d, from, to) => row' \in [Ids -> RowStates]
  BY DEF Transition
<1>2. WriteDelete(st, r) => op' \in [Ids -> DeleteOp]
  <2>1. [state |-> st, res |-> r] \in DeleteOp
    BY DEF DeleteOp
  <2> QED  BY <2>1 DEF WriteDelete
<1> QED  BY <1>1, <1>2

LEMMA TypeInit == LifecycleInit => LifecycleTypeOK
BY DropletBounds DEF LifecycleInit, LifecycleTypeOK, Ids, RowStates, DepStates, DeleteOp,
   DeleteStates, Ages, Idle, Worker, WorkerPcs
-----------------------------------------------------------------------------
(***************************************************************************)
(* Types.                                                                  *)
(***************************************************************************)
\* A step that touches at most the worker and the fault counter.
LEMMA TypeFrame ==
    ASSUME LifecycleTypeOK, w' \in Worker, faults' \in Nat,
           UNCHANGED <<tables, due, legacy, provider, refresh, status>>
    PROVE  LifecycleTypeOK'
BY DEF LifecycleTypeOK, tables, provider, refresh

\* The actions of Worker.Once keep the types.
LEMMA TypeWorker ==
    ASSUME LifecycleTypeOK, WorkerStep
    PROVE  LifecycleTypeOK'
<1> DEFINE T == LifecycleTypeOK'
<1>w. w \in Worker /\ faults \in Nat
  BY DEF LifecycleTypeOK
<1>f. (Fault \/ NoFault) => faults' \in Nat
  BY <1>w, FaultBound DEF Fault, NoFault
<1>t. /\ w.cur \in Ids \cup {0} /\ w.verdict \in {"unknown", "succeeded"}
      /\ row \in [Ids -> RowStates] /\ op \in [Ids -> DeleteOp]
  BY <1>w, WorkerFields DEF LifecycleTypeOK
<1>o. \A st \in DeleteStates, r \in BOOLEAN : WriteDelete(st, r) => op' \in [Ids -> DeleteOp]
  BY <1>t, WritesTyped DEF RowStates
<1>p. \A from, to \in RowStates : Transition(w.cur, from, to) => row' \in [Ids -> RowStates]
  BY <1>t, WritesTyped DEF DeleteStates
<1>m. /\ NextItem \/ NextOp => w' \in Worker
      /\ \A p \in WorkerPcs : Goto(p) => w' \in Worker
  BY <1>w, NextItemFields, NextOpFields, GotoFields
<1> USE DEF tables, provider, refresh
<1>1. ListOperations => T
  BY <1>w, <1>f, TypeFrame DEF ListOperations, Worker, WorkerPcs
<1>2. ASSUME NEW d \in Ids, RecoverDelete(d) PROVE T
  BY <1>2, <1>w, <1>f, TypeFrame DEF RecoverDelete, Worker, WorkerPcs
<1>3. StoreVerdict => T
  <2>1. ASSUME StoreVerdict, w.cur \in Ids PROVE op' \in [Ids -> DeleteOp]
    BY <2>1, <1>t, <1>o DEF StoreVerdict, DeleteOp, DeleteStates
  <2>2. ASSUME StoreVerdict, w.cur = 0 PROVE op' \in [Ids -> DeleteOp]
    <3>1. 0 \notin Ids
      BY DropletBounds DEF Ids
    <3> QED  BY <2>2, <3>1, <1>t DEF StoreVerdict, WriteDelete
  <2> QED  BY <2>1, <2>2, <1>w, <1>f, <1>t, <1>m DEF StoreVerdict, LifecycleTypeOK, WorkerPcs
<1>4. ConfirmDeleted => T
  BY <1>w, <1>f, <1>m, <1>p DEF ConfirmDeleted, LifecycleTypeOK, RowStates
<1>5. ListDue => T
  <2> DEFINE sts == [d \in Ids |-> IF d \in DueRows THEN row[d] ELSE "none"]
             rps == [d \in Ids |-> IF d \in DueRows THEN repl[d] ELSE 0]
  <2>0. sts \in [Ids -> RowStates] /\ rps \in [Ids -> Ids \cup {0}] /\ DueRows \in SUBSET Ids
    BY <1>t DEF LifecycleTypeOK, RowStates, DueRows
  <2> HIDE DEF sts, rps
  <2>1. ListDue => w' \in Worker
    <3>1. ListDue => w' = [w EXCEPT !.pc = "life", !.todo = DueRows, !.state = sts, !.repl = rps]
      BY DEF ListDue, sts, rps
    <3> QED  BY <3>1, <2>0, <1>w DEF Worker, WorkerPcs
  <2> QED  BY <2>1, <1>w, TypeFrame DEF ListDue
<1>6. ASSUME NEW d \in Ids, CheckCapacity(d) PROVE T
  <2>1. w' \in Worker
    BY <1>6, <1>w, TakeFields, SkipFields DEF CheckCapacity, WorkerPcs
  <2> QED  BY <2>1, <1>6 DEF CheckCapacity, LifecycleTypeOK
<1>7. ASSUME NEW d \in Ids, CheckProfile(d) \/ CheckReplacement(d) PROVE T
  <2>1. w' \in Worker
    BY <1>7, <1>w, TakeFields, SkipFields DEF CheckProfile, CheckReplacement, WorkerPcs
  <2> QED  BY <2>1, <1>7, <1>w, TypeFrame DEF CheckProfile, CheckReplacement
<1>8. StartReplacement => T
  <2>1. StartReplacement => w' \in Worker
    BY <1>w DEF StartReplacement, Worker, WorkerPcs
  <2> QED  BY <2>1 DEF StartReplacement, LifecycleTypeOK, DepStates
<1>9. StartRefused \/ StartReturns => T
  BY <1>w, <1>f, <1>m, TypeFrame DEF StartRefused, StartReturns, WorkerPcs
<1>10. SaveReplacement => T
  <2>1. SaveReplacement => repl' \in [Ids -> Ids \cup {0}]
    BY <1>w, WorkerFields DEF SaveReplacement, LifecycleTypeOK
  <2> QED  BY <2>1, <1>w, <1>f, <1>m DEF SaveReplacement, LifecycleTypeOK
<1>11. ProcessBlocked \/ ProcessDeleting => T
  BY <1>w, <1>f, <1>m, TypeFrame DEF ProcessBlocked, ProcessDeleting
<1>12. ProcessReady \/ ProcessExpiring => T
  BY <1>w, <1>m, <1>p DEF ProcessReady, ProcessExpiring, LifecycleTypeOK, RowStates
<1>13. ReserveDelete => T
  BY <1>w, <1>m, <1>o DEF ReserveDelete, LifecycleTypeOK, DeleteStates, WorkerPcs
<1>14. EgressBefore => T
  BY <1>w, <1>f, <1>m, <1>o DEF EgressBefore, LifecycleTypeOK, DeleteStates, WorkerPcs
<1>15. DeleteAccepted => T
  BY <1>w, <1>m DEF DeleteAccepted, LifecycleTypeOK, WorkerPcs
<1>16. DeleteUnclear => T
  <2>1. DeleteUnclear => flight' \in SUBSET Ids /\ sent' \in [Ids -> Nat]
    <3>1. flight \in SUBSET Ids /\ live \in SUBSET Ids /\ sent \in [Ids -> Nat]
      BY DEF LifecycleTypeOK
    <3>2. DeleteUnclear => /\ flight' \in {flight, flight \cup ({w.cur} \cap live)}
                           /\ sent' = [sent EXCEPT ![w.cur] = @ + 1]
      BY DEF DeleteUnclear
    <3> QED  BY <3>1, <3>2
  <2> QED  BY <2>1, <1>w, <1>f, <1>m DEF DeleteUnclear, LifecycleTypeOK, WorkerPcs
<1>17. RecordUnclear => T
  BY <1>w, <1>f, <1>m, <1>o DEF RecordUnclear, WriteDeleteOrLose, LifecycleTypeOK, DeleteStates
<1>18. EgressAfter => T
  BY <1>w, <1>f, <1>m, <1>o DEF EgressAfter, LifecycleTypeOK, DeleteStates, WorkerPcs
<1>19. MoveToDeleting => T
  BY <1>w, <1>f, <1>m, <1>p DEF MoveToDeleting, LifecycleTypeOK, RowStates
<1>20. ListDeployments \/ EndOfTick => T
  <2>1. Idle \in Worker
    BY DEF Idle, Worker, WorkerPcs, RowStates
  <2> QED  BY <2>1, <1>w, <1>m, TypeFrame DEF ListDeployments, EndOfTick, WorkerPcs
<1> QED
  BY <1>1, <1>2, <1>3, <1>4, <1>5, <1>6, <1>7, <1>8, <1>9, <1>10, <1>11, <1>12, <1>13,
     <1>14, <1>15, <1>16, <1>17, <1>18, <1>19, <1>20, <1>w DEF WorkerStep, Worker
\* The steps of everybody else keep the types.
LEMMA TypeOthers ==
    ASSUME LifecycleTypeOK
    PROVE  /\ WorkflowStep \/ OtherStart => LifecycleTypeOK'
           /\ \A n \in Ids : \/ WorkflowFails(n) \/ Freeze(n) \/ Expires(n)
                            \/ LateDelete(n) \/ LateLoss(n) \/ Revert(n)
                 => LifecycleTypeOK'
           /\ SnapshotAges \/ Discover \/ StoreSnapshot => LifecycleTypeOK'
           /\ Restart => LifecycleTypeOK'
<1> USE DEF tables, provider, refresh
<1>f. Fault \/ NoFault => faults' \in Nat
  BY FaultBound DEF Fault, NoFault, LifecycleTypeOK
<1>1. WorkflowStep \/ OtherStart => LifecycleTypeOK'
  BY DEF WorkflowStep, WorkflowReserves, WorkflowCreates, WorkflowStores, WorkflowEnds, OtherStart,
         LifecycleTypeOK, DepStates, RowStates
<1>2. ASSUME NEW n \in Ids, WorkflowFails(n) \/ Freeze(n) \/ Expires(n) PROVE LifecycleTypeOK'
  BY <1>2, <1>f DEF WorkflowFails, Freeze, Expires, LifecycleTypeOK, DepStates
<1>3. ASSUME NEW n \in Ids, LateDelete(n) \/ LateLoss(n) \/ Revert(n) PROVE LifecycleTypeOK'
  BY <1>3, <1>f DEF LateDelete, LateLoss, Revert, LifecycleTypeOK
<1>4. SnapshotAges \/ Discover => LifecycleTypeOK'
  BY DEF SnapshotAges, Discover, LifecycleTypeOK, Ages
<1>5. StoreSnapshot => LifecycleTypeOK'
  BY DEF StoreSnapshot, LifecycleTypeOK, Ages, RowStates
<1>6. Restart => LifecycleTypeOK'
  <2>1. Idle \in Worker
    BY DEF Idle, Worker, WorkerPcs, RowStates
  <2>2. Restart => flight' \in SUBSET Ids /\ sent' \in [Ids -> Nat]
    BY DEF Restart, LifecycleTypeOK
  <2> QED  BY <2>1, <2>2, <1>f DEF Restart, LifecycleTypeOK
<1> QED  BY <1>1, <1>2, <1>3, <1>4, <1>5, <1>6

LEMMA TypeStep == LifecycleTypeOK /\ [LifecycleNext]_lifecycleVars => LifecycleTypeOK'
<1>1. LifecycleTypeOK /\ LifecycleNext => LifecycleTypeOK'
  BY TypeWorker, TypeOthers DEF LifecycleNext
<1>2. LifecycleTypeOK /\ UNCHANGED lifecycleVars => LifecycleTypeOK'
  BY DEF LifecycleTypeOK, lifecycleVars
<1> QED  BY <1>1, <1>2

\* The rows, operations, snapshots and the worker's record have the values the
\* schema and the code allow.
THEOREM LifecycleTypes == LifecycleSpec => []LifecycleTypeOK
BY TypeInit, TypeStep, PTL DEF LifecycleSpec
-----------------------------------------------------------------------------
(***************************************************************************)
(* At most one delete request per droplet, and no delete without an        *)
(* acknowledgement.                                                        *)
(***************************************************************************)
\* A step that sends nothing, stores no operation, marks no row as deleted, and
\* leaves the worker between two items or away from the request.
LEMMA DeleteQuiet ==
    ASSUME LifecycleTypeOK, SendInv, AcceptInv,
           \/ w'.pc \in {"idle", "ops", "life", "deps"}
           \/ /\ w'.pc \in {"start", "deploying", "saverepl", "process", "unsure"}
              /\ w'.cur \in Ids,
           \A d \in Ids : row'[d] \in {"DELETING", "DELETED"} =>
                             row[d] \in {"DELETING", "DELETED"} \/ d \in accepted,
           UNCHANGED <<op, sent, accepted>>
    PROVE  WorkInv' /\ SendInv' /\ AcceptInv'
<1>1. WorkInv'
  BY DEF WorkInv
<1>2. SendInv'
  BY DEF SendInv
<1>3. AcceptInv'
  BY DEF AcceptInv
<1> QED  BY <1>1, <1>2, <1>3

\* A compare-and-set of a row to a state before DELETING marks nothing as deleted,
\* nor does one of a droplet whose delete was acknowledged.
LEMMA TransitionMarks ==
    ASSUME LifecycleTypeOK, NEW d \in Ids, NEW from, NEW to, Transition(d, from, to),
           to \notin {"DELETING", "DELETED"} \/ d \in accepted
    PROVE  \A e \in Ids : row'[e] \in {"DELETING", "DELETED"} =>
                             row[e] \in {"DELETING", "DELETED"} \/ e \in accepted
<1>1. \A e \in Ids : row'[e] = row[e] \/ (e = d /\ row'[e] = to)
  BY DEF Transition, LifecycleTypeOK
<1> QED  BY <1>1

\* The operation of the item in work is overwritten.
LEMMA WriteDeleteEffect ==
    ASSUME LifecycleTypeOK, w.cur \in Ids, NEW st, NEW r, WriteDelete(st, r)
    PROVE  /\ op'[w.cur].state = st /\ op'[w.cur].res = r
           /\ \A d \in Ids \ {w.cur} : op'[d] = op[d]
BY DEF WriteDelete, LifecycleTypeOK

\* A step that stores an operation, and where the worker goes from there.
LEMMA DeleteWrites ==
    ASSUME LifecycleTypeOK, SendInv, AcceptInv, w.cur \in Ids,
           NEW st, NEW r, WriteDelete(st, r), st # "absent",
           r = TRUE \/ st \in {"verifying", "succeeded"} => w.cur \in accepted,
           \/ w'.pc \in {"idle", "ops", "life", "deps"}
           \/ /\ w'.cur = w.cur
              /\ \/ w'.pc \in {"egress1", "call"} /\ sent[w.cur] = 0
                 \/ w'.pc \in {"confirm", "move"} /\ w.cur \in accepted,
           r \in BOOLEAN,
           UNCHANGED <<row, sent, accepted>>
    PROVE  WorkInv' /\ SendInv' /\ AcceptInv'
<1>1. /\ op'[w.cur].state = st /\ op'[w.cur].res = r
      /\ \A d \in Ids \ {w.cur} : op'[d] = op[d]
  BY WriteDeleteEffect
<1>2. WorkInv'
  BY DEF WorkInv
<1>3. SendInv'
  BY <1>1 DEF SendInv
<1>4. AcceptInv'
  <2>1. \A d \in Ids \ {w.cur} : (\/ op'[d].res \/ op'[d].state \in {"verifying", "succeeded"}
                       \/ row'[d] \in {"DELETING", "DELETED"}) => d \in accepted'
    BY <1>1 DEF AcceptInv
  <2>2. (\/ op'[w.cur].res \/ op'[w.cur].state \in {"verifying", "succeeded"}
         \/ row'[w.cur] \in {"DELETING", "DELETED"}) => w.cur \in accepted'
    BY <1>1 DEF AcceptInv
  <2>3. w'.pc \in {"opwrite", "confirm", "egress2", "move"} => w'.cur \in accepted'
    OBVIOUS
  <2> QED  BY <2>1, <2>2, <2>3 DEF AcceptInv
<1> QED  BY <1>2, <1>3, <1>4

\* The actions of Worker.Once.
LEMMA DeleteWorker ==
    ASSUME LifecycleTypeOK, WorkInv, SendInv, AcceptInv, WorkerStep
    PROVE  WorkInv' /\ SendInv' /\ AcceptInv'
<1> DEFINE P == WorkInv' /\ SendInv' /\ AcceptInv'
           marks == \A e \in Ids : row'[e] \in {"DELETING", "DELETED"} =>
                       row[e] \in {"DELETING", "DELETED"} \/ e \in accepted
<1>w. w \in Worker
  BY DEF LifecycleTypeOK
<1>m. /\ NextItem => w'.pc = "life"
      /\ NextOp => w'.pc = "ops"
      /\ \A p \in WorkerPcs : Goto(p) => w'.pc = p /\ w'.cur = w.cur
  BY <1>w, NextItemFields, NextOpFields, GotoFields
<1>d. \A d \in Ids : /\ \A p \in WorkerPcs : Take(d, p) => w'.pc = p /\ w'.cur = d
                     /\ Skip(d) => w'.pc = w.pc /\ w'.cur = w.cur
  BY <1>w, TakeFields, SkipFields
<1> USE DEF tables, provider, refresh
<1>1. ListOperations => P
  <2>1. ListOperations => w'.pc = "ops"
    BY <1>w DEF ListOperations, Worker
  <2> QED  BY <2>1, DeleteQuiet DEF ListOperations
<1>2. ASSUME NEW d \in Ids, RecoverDelete(d) PROVE P
  <2>1. CASE w'.pc = w.pc
    BY <2>1, <1>2, DeleteQuiet DEF RecoverDelete
  <2>2. CASE op[d].res /\ w'.pc = "opwrite" /\ w'.cur = d
    BY <2>2, <1>2 DEF RecoverDelete, WorkInv, SendInv, AcceptInv
  <2>3. w'.pc = w.pc \/ (op[d].res /\ w'.pc = "opwrite" /\ w'.cur = d)
    BY <1>2, <1>w DEF RecoverDelete, Worker
  <2> QED  BY <2>1, <2>2, <2>3
<1>3. ASSUME StoreVerdict PROVE P
  <2>1. w.cur \in Ids /\ w.cur \in accepted
    BY <1>3 DEF StoreVerdict, WorkInv, AcceptInv
  <2>2. ASSUME UNCHANGED op, NextOp PROVE P
    BY <2>2, <1>3, <1>m, DeleteQuiet DEF StoreVerdict
  <2>3. ASSUME WriteDelete(w.verdict, op[w.cur].res) PROVE P
    <3>1. w.verdict # "absent" /\ op[w.cur].res \in BOOLEAN
      BY <1>w, <2>1 DEF Worker, LifecycleTypeOK, DeleteOp
    <3>2. w'.pc = "ops" \/ (w'.pc = "confirm" /\ w'.cur = w.cur)
      BY <1>3, <1>m DEF StoreVerdict, WorkerPcs
    <3> QED  BY <2>1, <2>3, <3>1, <3>2, <1>3, DeleteWrites DEF StoreVerdict
  <2> QED  BY <2>2, <2>3, <1>3 DEF StoreVerdict
<1>4. ASSUME ConfirmDeleted PROVE P
  <2>1. w.cur \in Ids /\ w.cur \in accepted
    BY <1>4 DEF ConfirmDeleted, WorkInv, AcceptInv
  <2>2. marks
    BY <2>1, <1>4, TransitionMarks DEF ConfirmDeleted
  <2> QED  BY <2>2, <1>4, <1>m, DeleteQuiet DEF ConfirmDeleted
<1>5. ListDue => P
  <2>1. ListDue => w'.pc = "life"
    BY <1>w DEF ListDue, Worker
  <2> QED  BY <2>1, DeleteQuiet DEF ListDue
<1>6. ASSUME NEW d \in Ids, CheckProfile(d) \/ CheckCapacity(d) \/ CheckReplacement(d) PROVE P
  <2>1. \/ w'.pc = "life"
        \/ w'.pc \in {"start", "process"} /\ w'.cur = d
    BY <1>6, <1>d DEF CheckProfile, CheckCapacity, CheckReplacement, WorkerPcs
  <2> QED  BY <2>1, <1>6, DeleteQuiet DEF CheckProfile, CheckCapacity, CheckReplacement
<1>7. ASSUME StartReplacement PROVE P
  <2>1. w.cur \in Ids
    BY <1>7 DEF StartReplacement, WorkInv
  <2>2. w'.pc = "deploying" /\ w'.cur = w.cur
    BY <1>7, <1>w DEF StartReplacement, Worker
  <2> QED  BY <2>1, <2>2, <1>7, DeleteQuiet DEF StartReplacement
<1>8. ASSUME StartRefused \/ StartReturns \/ SaveReplacement PROVE P
  <2>1. w.cur \in Ids
    BY <1>8 DEF StartRefused, StartReturns, SaveReplacement, WorkInv
  <2>2. w'.pc = "life" \/ (w'.pc = "saverepl" /\ w'.cur = w.cur)
    BY <1>8, <1>m DEF StartRefused, StartReturns, SaveReplacement, WorkerPcs
  <2> QED  BY <2>1, <2>2, <1>8, DeleteQuiet DEF StartRefused, StartReturns, SaveReplacement
<1>9. ASSUME ProcessBlocked \/ ProcessDeleting PROVE P
  BY <1>9, <1>m, DeleteQuiet DEF ProcessBlocked, ProcessDeleting
<1>10. ASSUME ProcessReady \/ ProcessExpiring PROVE P
  <2>1. w.cur \in Ids
    BY <1>10 DEF ProcessReady, ProcessExpiring, WorkInv
  <2>2. marks
    BY <2>1, <1>10, TransitionMarks DEF ProcessReady, ProcessExpiring
  <2> QED  BY <2>2, <1>10, <1>m, DeleteQuiet DEF ProcessReady, ProcessExpiring
<1>11. ASSUME ReserveDelete PROVE P
  <2>1. w.cur \in Ids
    BY <1>11 DEF ReserveDelete, WorkInv
  <2>2. CASE op[w.cur].state = "absent"
    <3>1. WriteDelete("planned", FALSE) /\ Goto("egress1")
      BY <1>11, <2>2 DEF ReserveDelete
    <3>2. sent[w.cur] = 0
      BY <2>1, <2>2 DEF SendInv
    <3>3. w'.pc = "egress1" /\ w'.cur = w.cur
      BY <3>1, <1>m DEF WorkerPcs
    <3> QED  BY <2>1, <3>1, <3>2, <3>3, <1>11, DeleteWrites DEF ReserveDelete
  <2>3. CASE op[w.cur].state \in {"verifying", "succeeded"}
    <3>1. UNCHANGED op /\ Goto("move")
      BY <1>11, <2>3 DEF ReserveDelete
    <3>2. w'.pc = "move" /\ w'.cur = w.cur /\ w.cur \in accepted
      BY <3>1, <2>1, <2>3, <1>m DEF WorkerPcs, AcceptInv
    <3> QED  BY <2>1, <3>1, <3>2, <1>11 DEF ReserveDelete, WorkInv, SendInv, AcceptInv
  <2>4. CASE op[w.cur].state \notin {"absent", "verifying", "succeeded"}
    BY <2>4, <1>11, <1>m, DeleteQuiet DEF ReserveDelete
  <2> QED  BY <2>2, <2>3, <2>4
<1>12. ASSUME EgressBefore PROVE P
  <2>1. w.cur \in Ids /\ sent[w.cur] = 0
    BY <1>12 DEF EgressBefore, WorkInv, SendInv
  <2>2. ASSUME UNCHANGED op, NextItem PROVE P
    BY <2>2, <1>12, <1>m, DeleteQuiet DEF EgressBefore
  <2>3. ASSUME WriteDelete("running", FALSE), Goto("call") PROVE P
    BY <2>1, <2>3, <1>12, <1>m, DeleteWrites DEF EgressBefore, WorkerPcs
  <2>4. ASSUME WriteDelete("unknown", FALSE), NextItem PROVE P
    BY <2>1, <2>4, <1>12, <1>m, DeleteWrites DEF EgressBefore
  <2> QED  BY <2>2, <2>3, <2>4, <1>12 DEF EgressBefore
<1>13. ASSUME DeleteAccepted \/ DeleteUnclear PROVE P
  <2>1. w.cur \in Ids /\ sent[w.cur] = 0 /\ op[w.cur].state # "absent"
    BY <1>13 DEF DeleteAccepted, DeleteUnclear, WorkInv, SendInv
  <2>2. sent' = [sent EXCEPT ![w.cur] = @ + 1] /\ UNCHANGED <<op, row>>
    BY <1>13 DEF DeleteAccepted, DeleteUnclear
  <2>3. /\ w'.cur = w.cur /\ accepted \subseteq accepted'
        /\ w'.pc \in {"egress2", "unsure"}
        /\ w'.pc = "egress2" => w.cur \in accepted'
    BY <1>13, <1>m DEF DeleteAccepted, DeleteUnclear, WorkerPcs
  <2>4. SendInv'
    BY <2>1, <2>2, <2>3 DEF SendInv, LifecycleTypeOK
  <2>5. AcceptInv'
    BY <2>2, <2>3 DEF AcceptInv
  <2> QED  BY <2>1, <2>3, <2>4, <2>5 DEF WorkInv
<1>14. ASSUME RecordUnclear PROVE P
  <2>1. w.cur \in Ids /\ w'.pc = "life"
    BY <1>14, <1>m DEF RecordUnclear, WorkInv
  <2>2. ASSUME UNCHANGED op PROVE P
    BY <2>1, <2>2, <1>14, DeleteQuiet DEF RecordUnclear
  <2>3. ASSUME WriteDelete("unknown", FALSE) PROVE P
    BY <2>1, <2>3, <1>14, DeleteWrites DEF RecordUnclear
  <2> QED  BY <2>2, <2>3, <1>14 DEF RecordUnclear, WriteDeleteOrLose
<1>15. ASSUME EgressAfter PROVE P
  <2>1. w.cur \in Ids /\ w.cur \in accepted
    BY <1>15 DEF EgressAfter, WorkInv, AcceptInv
  <2>2. ASSUME UNCHANGED op, NextItem PROVE P
    BY <2>2, <1>15, <1>m, DeleteQuiet DEF EgressAfter
  <2>3. ASSUME WriteDelete("verifying", TRUE), Goto("move") PROVE P
    BY <2>1, <2>3, <1>15, <1>m, DeleteWrites DEF EgressAfter, WorkerPcs
  <2>4. ASSUME WriteDelete("unknown", TRUE), NextItem PROVE P
    BY <2>1, <2>4, <1>15, <1>m, DeleteWrites DEF EgressAfter
  <2> QED  BY <2>2, <2>3, <2>4, <1>15 DEF EgressAfter
<1>16. ASSUME MoveToDeleting PROVE P
  <2>1. w.cur \in Ids /\ w.cur \in accepted
    BY <1>16 DEF MoveToDeleting, WorkInv, AcceptInv
  <2>2. marks
    BY <2>1, <1>16, TransitionMarks DEF MoveToDeleting
  <2> QED  BY <2>2, <1>16, <1>m, DeleteQuiet DEF MoveToDeleting
<1>17. ASSUME ListDeployments \/ EndOfTick PROVE P
  <2>1. w'.pc \in {"deps", "idle"}
    BY <1>17, <1>m DEF ListDeployments, EndOfTick, Idle, WorkerPcs
  <2> QED  BY <2>1, <1>17, DeleteQuiet DEF ListDeployments, EndOfTick
<1> QED
  BY <1>1, <1>2, <1>3, <1>4, <1>5, <1>6, <1>7, <1>8, <1>9, <1>10, <1>11, <1>12, <1>13,
     <1>14, <1>15, <1>16, <1>17, <1>w DEF WorkerStep, Worker

\* The steps of everybody else, and a restart of the worker.
LEMMA DeleteOthers ==
    ASSUME LifecycleTypeOK, WorkInv, SendInv, AcceptInv, LifecycleNext, ~WorkerStep
    PROVE  WorkInv' /\ SendInv' /\ AcceptInv'
<1> DEFINE P == WorkInv' /\ SendInv' /\ AcceptInv'
           marks == \A e \in Ids : row'[e] \in {"DELETING", "DELETED"} =>
                       row[e] \in {"DELETING", "DELETED"} \/ e \in accepted
<1> USE DEF tables, provider, refresh
<1>1. ASSUME UNCHANGED <<w, op, sent, accepted>>, marks PROVE P
  BY <1>1 DEF WorkInv, SendInv, AcceptInv
<1>2. WorkflowStep \/ OtherStart => P
  <2>1. WorkflowStep => UNCHANGED <<w, op, sent, accepted>> /\ marks
    BY DEF WorkflowStep, WorkflowReserves, WorkflowCreates, WorkflowStores, WorkflowEnds, LifecycleTypeOK
  <2> QED  BY <2>1, <1>1 DEF OtherStart
<1>3. ASSUME NEW n \in Ids, \/ WorkflowFails(n) \/ Freeze(n) \/ Expires(n)
                             \/ LateDelete(n) \/ LateLoss(n) \/ Revert(n)
      PROVE  P
  BY <1>3, <1>1 DEF WorkflowFails, Freeze, Expires, LateDelete, LateLoss, Revert
<1>4. SnapshotAges \/ Discover => P
  BY <1>1 DEF SnapshotAges, Discover
<1>5. StoreSnapshot => P
  BY <1>1 DEF StoreSnapshot
<1>6. ASSUME Restart PROVE P
  <2>1. w'.pc = "idle" /\ UNCHANGED <<op, row, accepted>>
    BY <1>6 DEF Restart, Idle
  <2>2. CASE w.pc = "call"
    <3>1. w.cur \in Ids /\ sent[w.cur] = 0 /\ op[w.cur].state # "absent"
      BY <2>2 DEF WorkInv, SendInv
    <3>2. sent' = [sent EXCEPT ![w.cur] = @ + 1]
      BY <1>6, <2>2 DEF Restart
    <3>3. SendInv'
      BY <3>1, <3>2, <2>1 DEF SendInv, LifecycleTypeOK
    <3> QED  BY <3>3, <2>1 DEF WorkInv, AcceptInv
  <2>3. CASE w.pc # "call"
    BY <2>1, <2>3, <1>6, DeleteQuiet DEF Restart
  <2> QED  BY <2>2, <2>3
<1> QED  BY <1>2, <1>3, <1>4, <1>5, <1>6 DEF LifecycleNext
-----------------------------------------------------------------------------
(***************************************************************************)
(* The fleet never shrinks.                                                *)
(***************************************************************************)
\* Counting droplets: every set of ids is finite.
LEMMA IdsFinite ==
    ASSUME NEW S \in SUBSET Ids
    PROVE  IsFiniteSet(S) /\ Cardinality(S) \in Nat
<1>1. IsFiniteSet(Ids)
  BY DropletBounds, FS_Interval DEF Ids
<1>2. IsFiniteSet(S)
  BY <1>1, FS_Subset
<1> QED  BY <1>2, FS_CardinalityType

\* The next deployment is one that was never started, and is not an initial one.
LEMMA NewIdIsNew ==
    ASSUME BornInv, NewId \in Ids
    PROVE  dep[NewId] = "none" /\ NewId > Initial /\ NewId \notin Born
<1>1. Born \in SUBSET Ids /\ Cardinality(Born) \in Nat
  BY IdsFinite DEF Born
<1>2. NewId \notin Born
  BY <1>1 DEF BornInv, NewId
<1>3. NewId \notin 1..Initial
  BY <1>2 DEF BornInv
<1> QED  BY <1>2, <1>3, DropletBounds DEF Born, Ids

\* A deployment is started.
LEMMA BornStarts ==
    ASSUME LifecycleTypeOK, BornInv, NewId \in Ids,
           dep' = [dep EXCEPT ![NewId] = "PLANNED"], UNCHANGED row
    PROVE  BornInv'
<1> DEFINE k == Cardinality(Born)
<1>1. k \in Nat /\ IsFiniteSet(Born) /\ Born \in SUBSET Ids
  BY IdsFinite DEF Born
<1>2. Born' = Born \cup {NewId}
  BY DEF Born, LifecycleTypeOK
<1>3. NewId = k + 1 /\ NewId \notin Born
  BY NewIdIsNew DEF NewId
<1>4. Cardinality(Born') = k + 1
  BY <1>1, <1>2, <1>3, FS_AddElement
<1>5. Born' = 1..(k + 1)
  <2>1. 1..(k + 1) = 1..k \cup {k + 1}
    BY <1>1
  <2> QED  BY <2>1, <1>2, <1>3 DEF BornInv
<1>6. \A d \in Ids : dep'[d] = "READY" => row'[d] # "none"
  BY DEF BornInv, LifecycleTypeOK
<1> HIDE DEF k
<1> QED  BY <1>2, <1>4, <1>5, <1>6 DEF BornInv

\* No deployment is started, one may end READY with its row, and no row goes away.
LEMMA BornStays ==
    ASSUME BornInv, \A d \in Ids : dep'[d] = "none" <=> dep[d] = "none",
           \A d \in Ids : dep'[d] = "READY" => dep[d] = "READY" \/ row'[d] # "none",
           \A d \in Ids : row[d] # "none" => row'[d] # "none"
    PROVE  BornInv'
<1>1. Born' = Born
  BY DEF Born
<1> QED  BY <1>1 DEF BornInv

\* A compare-and-set never takes a row back to "none".
LEMMA TransitionKeeps ==
    ASSUME LifecycleTypeOK, NEW d \in Ids, NEW from, NEW to, Transition(d, from, to),
           to # "none"
    PROVE  \A e \in Ids : row[e] # "none" => row'[e] # "none"
BY DEF Transition, LifecycleTypeOK

LEMMA BornStep ==
    ASSUME LifecycleTypeOK, WorkInv, BornInv, LifecycleNext
    PROVE  BornInv'
<1> USE DEF tables, provider, refresh
<1>1. StartReplacement \/ OtherStart => BornInv'
  BY BornStarts DEF StartReplacement, OtherStart
<1>2. UNCHANGED <<row, dep>> => BornInv'
  BY BornStays
<1>3. ASSUME ConfirmDeleted \/ ProcessReady \/ ProcessExpiring \/ MoveToDeleting
      PROVE  BornInv'
  <2>1. w.cur \in Ids /\ UNCHANGED dep
    BY <1>3 DEF WorkInv, ConfirmDeleted, ProcessReady, ProcessExpiring, MoveToDeleting
  <2>2. \A e \in Ids : row[e] # "none" => row'[e] # "none"
    BY <2>1, <1>3, TransitionKeeps DEF ConfirmDeleted, ProcessReady, ProcessExpiring, MoveToDeleting
  <2> QED  BY <2>1, <2>2, BornStays
<1>4. ASSUME NEW n \in Ids, \/ WorkflowReserves(n) \/ WorkflowFails(n) \/ WorkflowCreates(n)
                             \/ WorkflowStores(n) \/ WorkflowEnds(n) \/ Freeze(n)
      PROVE  BornInv'
  BY <1>4, BornStays DEF WorkflowReserves, WorkflowFails, WorkflowCreates, WorkflowStores,
                         WorkflowEnds, Freeze, LifecycleTypeOK
<1>5. StoreSnapshot => BornInv'
  BY BornStays DEF StoreSnapshot, LifecycleTypeOK
<1>6. ASSUME WorkerStep,
             ~(StartReplacement \/ ConfirmDeleted \/ ProcessReady \/ ProcessExpiring \/ MoveToDeleting)
      PROVE  UNCHANGED <<row, dep>>
  BY <1>6 DEF WorkerStep, ListOperations, RecoverDelete, StoreVerdict, ListDue, CheckProfile, CheckCapacity,
     CheckReplacement, StartRefused, StartReturns, SaveReplacement, ProcessBlocked,
     ProcessDeleting, ReserveDelete, EgressBefore, DeleteAccepted, DeleteUnclear, RecordUnclear,
     EgressAfter, ListDeployments, EndOfTick
<1>7. ASSUME NEW n \in Ids, Expires(n) \/ LateDelete(n) \/ LateLoss(n) \/ Revert(n)
      PROVE  UNCHANGED <<row, dep>>
  BY <1>7 DEF Expires, LateDelete, LateLoss, Revert
<1>8. SnapshotAges \/ Discover \/ Restart => UNCHANGED <<row, dep>>
  BY DEF SnapshotAges, Discover, Restart
<1> QED  BY <1>1, <1>2, <1>3, <1>4, <1>5, <1>6, <1>7, <1>8 DEF LifecycleNext, WorkflowStep

Retired == {"RETIRING", "DELETING", "DELETED"}

\* A step that stores no replacement and retires nothing without one.
LEMMA ReplaceQuiet ==
    ASSUME LifecycleTypeOK, ReplacementInv, RetireInv, UNCHANGED repl,
           \A d \in Ids : /\ dep[d] = "READY" => dep'[d] = "READY"
                          /\ dep[d] = "FAILED" => dep'[d] = "FAILED",
           \A d \in Ids : dep'[d] # "FAILED" /\ row'[d] \in Retired =>
                             row[d] \in Retired \/ repl[d] # 0,
           \A d \in Ids : w'.repl[d] \in {0, w.repl[d], repl[d]},
           w'.pc \in {"deploying", "saverepl"} =>
              w.pc \in {"deploying", "saverepl"} /\ w'.new = w.new,
           w'.pc = "saverepl" => dep'[w.new] = "READY",
           w'.pc = "process" /\ w'.state[w'.cur] = "EXPIRING" => w'.repl[w'.cur] # 0
    PROVE  ReplacementInv' /\ RetireInv'
<1>1. \A d \in Ids : repl[d] # 0 => repl[d] \in Ids
  BY DEF LifecycleTypeOK
<1>2. ReplacementInv'
  BY <1>1 DEF ReplacementInv
<1>3. RetireInv'
  BY DEF RetireInv, Retired
<1> QED  BY <1>2, <1>3

\* A step of the worker that touches neither replacements nor deployments.
LEMMA ReplaceWorker ==
    ASSUME LifecycleTypeOK, WorkInv, ReplacementInv, RetireInv, WorkerStep,
           ~StartReplacement, ~SaveReplacement
    PROVE  ReplacementInv' /\ RetireInv'
<1> DEFINE P == ReplacementInv' /\ RetireInv'
           stays == UNCHANGED <<row, repl, dep>>
           read == \A d \in Ids : w'.repl[d] \in {0, w.repl[d], repl[d]}
<1>w. w \in Worker /\ w.repl \in [Ids -> Ids \cup {0}] /\ w.state \in [Ids -> RowStates]
  BY WorkerFields DEF LifecycleTypeOK
<1>m. /\ NextItem => w'.pc = "life" /\ read
      /\ NextOp => w'.pc = "ops" /\ read
      /\ \A p \in WorkerPcs : Goto(p) => w'.pc = p /\ w'.new = w.new /\ read
  BY <1>w, NextItemFields, NextOpFields, GotoFields
<1> USE DEF tables, provider, refresh
<1>q. ASSUME stays, read, w'.pc \notin {"deploying", "saverepl", "process"} PROVE P
  BY <1>q, ReplaceQuiet
<1>1. ASSUME ListOperations PROVE P
  <2>1. w'.pc = "ops" /\ read
    BY <1>1, <1>w DEF ListOperations, Worker
  <2> QED  BY <2>1, <1>1, <1>q DEF ListOperations
<1>2. ASSUME NEW d \in Ids, RecoverDelete(d) PROVE P
  <2>1. w'.pc \in {"ops", "opwrite"} /\ read
    BY <1>2, <1>w DEF RecoverDelete, Worker
  <2> QED  BY <2>1, <1>2, <1>q DEF RecoverDelete
<1>3. ASSUME StoreVerdict PROVE P
  BY <1>3, <1>m, <1>q DEF StoreVerdict, WorkerPcs
<1>4. ASSUME ListDue PROVE P
  <2>1. w'.pc = "life" /\ w'.repl = [d \in Ids |-> IF d \in DueRows THEN repl[d] ELSE 0]
    BY <1>4, <1>w DEF ListDue, Worker
  <2> QED  BY <2>1, <1>4, <1>q DEF ListDue
<1>5. ASSUME NEW d \in Ids, CheckCapacity(d) PROVE P
  <2>1. w'.pc \in {"life", "start"} /\ read
    BY <1>5, <1>w, TakeFields, SkipFields DEF CheckCapacity, WorkerPcs
  <2> QED  BY <2>1, <1>5, <1>q DEF CheckCapacity
<1>12. ASSUME NEW d \in Ids, CheckProfile(d) PROVE P
  BY <1>12, <1>w, <1>q, SkipFields DEF CheckProfile
<1>6. ASSUME NEW d \in Ids, CheckReplacement(d) PROVE P
  <2>1. CASE Skip(d)
    BY <2>1, <1>6, <1>w, <1>q, SkipFields DEF CheckReplacement
  <2>2. CASE Take(d, "process")
    <3>1. /\ w'.pc = "process" /\ w'.cur = d /\ w'.state = w.state /\ w'.repl = w.repl
      BY <2>2, <1>w, TakeFields DEF WorkerPcs
    <3>2. w'.state[w'.cur] = "EXPIRING" => w'.repl[w'.cur] # 0
      BY <3>1, <1>6 DEF CheckReplacement
    <3> QED  BY <3>1, <3>2, <1>6, ReplaceQuiet DEF CheckReplacement
  <2> QED  BY <2>1, <2>2, <1>6 DEF CheckReplacement
<1>7. ASSUME StartRefused \/ ProcessBlocked \/ ProcessDeleting PROVE P
  BY <1>7, <1>m, <1>q DEF StartRefused, ProcessBlocked, ProcessDeleting
<1>8. ASSUME StartReturns PROVE P
  <2>1. CASE NextItem
    BY <2>1, <1>8, <1>m, <1>q DEF StartReturns
  <2>2. CASE dep[w.new] = "READY" /\ Goto("saverepl")
    BY <2>2, <1>8, <1>m, ReplaceQuiet DEF StartReturns, WorkerPcs
  <2> QED  BY <2>1, <2>2, <1>8 DEF StartReturns
<1>9. ASSUME ConfirmDeleted \/ ProcessReady \/ ProcessExpiring \/ MoveToDeleting PROVE P
  <2>1. w.cur \in Ids /\ UNCHANGED <<repl, dep>> /\ w'.pc \in {"ops", "life"} /\ read
    BY <1>9, <1>m DEF WorkInv, ConfirmDeleted, ProcessReady, ProcessExpiring, MoveToDeleting
  <2>2. \A d \in Ids : dep'[d] # "FAILED" /\ row'[d] \in Retired =>
                          row[d] \in Retired \/ repl[d] # 0
    <3>1. CASE ConfirmDeleted
      BY <3>1, <2>1 DEF ConfirmDeleted, Transition, LifecycleTypeOK, Retired
    <3>2. CASE ProcessReady
      BY <3>2, <2>1 DEF ProcessReady, Transition, LifecycleTypeOK, Retired
    <3>3. CASE ProcessExpiring
      <4>1. dep[w.cur] # "FAILED" => repl[w.cur] # 0
        BY <3>3, <2>1 DEF ProcessExpiring, RetireInv
      <4>2. \A d \in Ids : row'[d] = row[d] \/ d = w.cur
        BY <3>3, <2>1 DEF ProcessExpiring, Transition, LifecycleTypeOK
      <4> QED  BY <4>1, <4>2, <2>1
    <3>4. CASE MoveToDeleting
      BY <3>4, <2>1 DEF MoveToDeleting, Transition, LifecycleTypeOK, Retired
    <3> QED  BY <3>1, <3>2, <3>3, <3>4, <1>9
  <2> QED  BY <2>1, <2>2, ReplaceQuiet
<1>10. ASSUME ReserveDelete \/ EgressBefore \/ DeleteAccepted \/ DeleteUnclear \/ RecordUnclear
              \/ EgressAfter
       PROVE  P
  <2>1. stays
    BY <1>10 DEF ReserveDelete, EgressBefore, DeleteAccepted, DeleteUnclear, RecordUnclear,
                 EgressAfter
  <2>2. w'.pc \notin {"deploying", "saverepl", "process"} /\ read
    BY <1>10, <1>m DEF ReserveDelete, EgressBefore, DeleteAccepted, DeleteUnclear, RecordUnclear,
                       EgressAfter, WorkerPcs
  <2> QED  BY <2>1, <2>2, <1>q
<1>11. ASSUME ListDeployments \/ EndOfTick PROVE P
  BY <1>11, <1>m, <1>q DEF ListDeployments, EndOfTick, Idle, WorkerPcs
<1> QED
  BY <1>1, <1>2, <1>3, <1>4, <1>5, <1>6, <1>7, <1>8, <1>9, <1>10, <1>11, <1>12, <1>w
  DEF WorkerStep, Worker

\* The worker starts a replacement: nothing is replaced by a new deployment.
LEMMA ReplaceStarts ==
    ASSUME LifecycleTypeOK, BornInv, ReplacementInv, RetireInv, StartReplacement
    PROVE  ReplacementInv' /\ RetireInv'
<1>1. NewId \in Ids /\ dep[NewId] = "none" /\ NewId > Initial
  BY NewIdIsNew DEF StartReplacement
<1>2. /\ dep' = [dep EXCEPT ![NewId] = "PLANNED"] /\ UNCHANGED <<row, repl>>
      /\ w'.pc = "deploying" /\ w'.new = NewId /\ w'.repl = w.repl
  BY DEF StartReplacement, LifecycleTypeOK, Worker
<1>3. \A d \in Ids : dep'[d] = IF d = NewId THEN "PLANNED" ELSE dep[d]
  BY <1>1, <1>2 DEF LifecycleTypeOK
<1>4. \A d \in Ids : repl[d] # 0 => repl[d] \in Ids /\ repl[d] # NewId
  BY <1>1 DEF LifecycleTypeOK, ReplacementInv
<1>5. NewId # 0
  BY <1>1, DropletBounds DEF Ids
<1>6. ReplacementInv'
  BY <1>1, <1>2, <1>3, <1>4, <1>5 DEF ReplacementInv
<1>7. RetireInv'
  BY <1>1, <1>2, <1>3 DEF RetireInv
<1> QED  BY <1>6, <1>7

\* The worker stores the replacement it started.
LEMMA ReplaceStores ==
    ASSUME LifecycleTypeOK, WorkInv, ReplacementInv, RetireInv, SaveReplacement
    PROVE  ReplacementInv' /\ RetireInv'
<1>1. w \in Worker /\ w.cur \in Ids /\ w.new \in Ids /\ w.repl \in [Ids -> Ids \cup {0}]
  BY WorkerFields DEF SaveReplacement, WorkInv, ReplacementInv, LifecycleTypeOK
<1>2. /\ w'.pc = "life" /\ w'.repl = [w.repl EXCEPT ![w.cur] = 0]
      /\ UNCHANGED <<row, dep>>
  BY <1>1, NextItemFields DEF SaveReplacement
<1>3. CASE UNCHANGED repl
  BY <1>1, <1>2, <1>3, ReplaceQuiet
<1>4. CASE repl[w.cur] = 0 /\ repl' = [repl EXCEPT ![w.cur] = w.new]
  <2>1. \A d \in Ids : repl'[d] = IF d = w.cur THEN w.new ELSE repl[d]
    BY <1>1, <1>4 DEF LifecycleTypeOK
  <2>2. ReplacementInv'
    BY <1>1, <1>2, <2>1 DEF SaveReplacement, ReplacementInv
  <2>3. RetireInv'
    BY <1>1, <1>2, <1>4, <2>1 DEF RetireInv
  <2> QED  BY <2>2, <2>3
<1> QED  BY <1>3, <1>4 DEF SaveReplacement

\* The steps of everybody else, and a restart of the worker.
LEMMA ReplaceOthers ==
    ASSUME LifecycleTypeOK, BornInv, ReplacementInv, RetireInv, LifecycleNext, ~WorkerStep
    PROVE  ReplacementInv' /\ RetireInv'
<1> DEFINE P == ReplacementInv' /\ RetireInv'
<1>w. w.repl \in [Ids -> Ids \cup {0}]
  BY WorkerFields DEF LifecycleTypeOK
<1> USE DEF tables, provider, refresh
<1>0. ASSUME UNCHANGED <<repl, w>>,
             \A d \in Ids : /\ dep[d] = "READY" => dep'[d] = "READY"
                            /\ dep[d] = "FAILED" => dep'[d] = "FAILED",
             \A d \in Ids : row'[d] = row[d] \/ row'[d] = "READY"
      PROVE  P
  <2>1. w.pc = "saverepl" => dep'[w.new] = "READY"
    BY <1>0 DEF ReplacementInv
  <2>2. w.pc = "process" /\ w.state[w.cur] = "EXPIRING" => w.repl[w.cur] # 0
    BY DEF RetireInv
  <2> QED  BY <1>0, <2>1, <2>2, ReplaceQuiet DEF Retired
<1>1. OtherStart => P
  <2>1. OtherStart => NewId \in Ids /\ dep[NewId] = "none"
    BY NewIdIsNew DEF OtherStart
  <2>2. OtherStart => \A d \in Ids : /\ dep[d] = "READY" => dep'[d] = "READY"
                                     /\ dep[d] = "FAILED" => dep'[d] = "FAILED"
    BY <2>1 DEF OtherStart, LifecycleTypeOK
  <2> QED  BY <2>2, <1>0 DEF OtherStart
<1>2. ASSUME NEW n \in Ids, \/ WorkflowReserves(n) \/ WorkflowFails(n) \/ WorkflowCreates(n)
                             \/ WorkflowStores(n) \/ WorkflowEnds(n) \/ Freeze(n)
      PROVE  P
  BY <1>2, <1>0 DEF WorkflowReserves, WorkflowFails, WorkflowCreates, WorkflowStores, WorkflowEnds, Freeze, LifecycleTypeOK
<1>3. ASSUME NEW n \in Ids, Expires(n) \/ LateDelete(n) \/ LateLoss(n) \/ Revert(n)
      PROVE  P
  BY <1>3, <1>0 DEF Expires, LateDelete, LateLoss, Revert
<1>4. SnapshotAges \/ Discover => P
  BY <1>0 DEF SnapshotAges, Discover
<1>5. ASSUME StoreSnapshot PROVE P
  <2>1. /\ \A d \in Ids : repl'[d] = IF d \in Orphans THEN 0 ELSE repl[d]
        /\ \A d \in Ids : row'[d] = IF d \in Orphans THEN "RETIRING" ELSE row[d]
        /\ \A d \in Orphans : dep[d] = "FAILED"
        /\ UNCHANGED <<dep, w>>
    BY <1>5 DEF StoreSnapshot, Orphans
  <2>2. ReplacementInv'
    <3>1. w.pc \in {"deploying", "saverepl"} => w.new # 0
      BY DropletBounds DEF ReplacementInv, Ids
    <3> QED  BY <2>1, <3>1 DEF ReplacementInv
  <2>3. RetireInv'
    BY <2>1 DEF RetireInv
  <2> QED  BY <2>2, <2>3
<1>6. ASSUME Restart PROVE P
  <2>1. w'.pc = "idle" /\ (\A d \in Ids : w'.repl[d] = 0) /\ UNCHANGED <<row, repl, dep>>
    BY <1>6 DEF Restart, Idle
  <2> QED  BY <2>1, ReplaceQuiet
<1> QED  BY <1>1, <1>2, <1>3, <1>4, <1>5, <1>6 DEF LifecycleNext, WorkflowStep

\* The droplets that were ever provisioned, those of them that were retired, and
\* those that were in service at the beginning.
Provisioned == {d \in Ids : dep[d] = "READY"}
Gone == {d \in Provisioned : row[d] \in Retired}
Base == {d \in 1..Initial : dep[d] = "READY"}

\* Retired droplets are replaced one to one by droplets that came later, so the
\* ones that serve are at least as many as at the beginning.
LEMMA FleetCount ==
    ASSUME LifecycleInv
    PROVE  FleetNeverShrinks
<1> USE DEF LifecycleInv
<1>1. Base \in SUBSET Provisioned /\ Gone \in SUBSET Provisioned /\ Provisioned \in SUBSET Ids
  BY DropletBounds DEF Base, Gone, Provisioned, Ids
<1>2. /\ IsFiniteSet(Provisioned) /\ IsFiniteSet(Base) /\ IsFiniteSet(Gone)
      /\ Cardinality(Provisioned) \in Nat /\ Cardinality(Base) \in Nat
      /\ Cardinality(Gone) \in Nat
  BY <1>1, IdsFinite
<1>3. Serving = Provisioned \ Gone
  BY DEF Serving, Provisioned, Gone, Retired, BornInv, LifecycleTypeOK, RowStates
<1>4. Cardinality(Serving) = Cardinality(Provisioned) - Cardinality(Gone)
  <2>1. Provisioned \cap Gone = Gone
    BY <1>1
  <2>2. Cardinality(Provisioned \ Gone) = Cardinality(Provisioned) - Cardinality(Provisioned \cap Gone)
    BY <1>2, FS_Difference
  <2> QED  BY <1>3, <2>1, <2>2
<1>5. Cardinality(Provisioned \ Base) = Cardinality(Provisioned) - Cardinality(Base)
  <2>1. Provisioned \cap Base = Base
    BY <1>1
  <2> QED  BY <1>2, <2>1, FS_Difference
<1>6. Cardinality(Gone) <= Cardinality(Provisioned \ Base)
  <2> DEFINE f == [d \in Gone |-> repl[d]]
  <2>1. \A d \in Gone : d \in Ids /\ repl[d] # 0
    BY DEF Gone, Provisioned, Retired, RetireInv
  <2>2. \A d \in Gone : repl[d] \in Provisioned \ Base
    BY <2>1, DropletBounds DEF LifecycleTypeOK, ReplacementInv, Provisioned, Base, Ids
  <2>3. \A d, e \in Gone : repl[d] = repl[e] => d = e
    BY <2>1 DEF ReplacementInv
  <2>4. f \in Injection(Gone, Provisioned \ Base)
    BY <2>2, <2>3 DEF Injection, IsInjective
  <2>5. IsFiniteSet(Provisioned \ Base)
    BY <1>2, FS_Difference
  <2> QED  BY <2>4, <2>5, FS_Injection
<1>7. Cardinality(Serving) >= Cardinality(Base)
  BY <1>2, <1>4, <1>5, <1>6
<1> QED  BY <1>7 DEF FleetNeverShrinks, Base
-----------------------------------------------------------------------------
(***************************************************************************)
(* The inductive invariant and what follows from it.                       *)
(***************************************************************************)
LEMMA LifecycleInvInit == LifecycleInit => LifecycleInv
<1> SUFFICES ASSUME LifecycleInit PROVE LifecycleInv
  OBVIOUS
<1>1. LifecycleTypeOK
  BY TypeInit
<1>2. WorkInv /\ SendInv /\ AcceptInv
  BY DropletBounds DEF LifecycleInit, WorkInv, SendInv, AcceptInv, Idle
<1>3. BornInv
  <2>1. Born = 1..Initial
    BY DropletBounds DEF LifecycleInit, Born, Ids
  <2>2. Cardinality(1..Initial) = Initial
    BY DropletBounds, FS_Interval
  <2>3. \A d \in Ids : dep[d] = "READY" => row[d] # "none"
    BY DropletBounds DEF LifecycleInit, Ids
  <2> QED  BY <2>1, <2>2, <2>3 DEF BornInv
<1>4. ReplacementInv /\ RetireInv
  BY DEF LifecycleInit, ReplacementInv, RetireInv, Idle
<1> QED  BY <1>1, <1>2, <1>3, <1>4 DEF LifecycleInv

LEMMA LifecycleInvStep == LifecycleInv /\ [LifecycleNext]_lifecycleVars => LifecycleInv'
<1>1. ASSUME LifecycleInv, LifecycleNext PROVE LifecycleInv'
  <2>1. LifecycleTypeOK'
    BY <1>1, TypeStep DEF LifecycleInv
  <2>2. WorkInv' /\ SendInv' /\ AcceptInv'
    BY <1>1, DeleteWorker, DeleteOthers DEF LifecycleInv
  <2>3. BornInv'
    BY <1>1, BornStep DEF LifecycleInv
  <2>4. ReplacementInv' /\ RetireInv'
    BY <1>1, ReplaceWorker, ReplaceStarts, ReplaceStores, ReplaceOthers DEF LifecycleInv
  <2> QED  BY <2>1, <2>2, <2>3, <2>4 DEF LifecycleInv
<1>2. ASSUME LifecycleInv, UNCHANGED lifecycleVars PROVE LifecycleInv'
  BY <1>2 DEF LifecycleInv, lifecycleVars, LifecycleTypeOK, WorkInv, SendInv, AcceptInv,
              BornInv, Born, ReplacementInv, RetireInv
<1> QED  BY <1>1, <1>2

LEMMA LifecycleInvariant == LifecycleSpec => []LifecycleInv
BY LifecycleInvInit, LifecycleInvStep, PTL DEF LifecycleSpec

\* DigitalOcean is asked at most once to delete a droplet, however often Process
\* meets the row and the worker restarts (Executor.Delete, lifecycle-delete:<row>).
THEOREM AtMostOneDelete == LifecycleSpec => []DeleteOnce
<1>1. LifecycleInv => DeleteOnce
  BY DEF LifecycleInv, SendInv, DeleteOnce
<1> QED  BY <1>1, LifecycleInvariant, PTL

\* No row becomes DELETING or DELETED without an acknowledged delete, whatever
\* answers are lost and however old the snapshot RecoverOperation looks at.
THEOREM DeletesAreAccepted == LifecycleSpec => []DeletingIsAccepted
<1>1. LifecycleInv => DeletingIsAccepted
  BY DEF LifecycleInv, AcceptInv, DeletingIsAccepted
<1> QED  BY <1>1, LifecycleInvariant, PTL

\* Rotation never shrinks the fleet: ProcessLifecycle retires a droplet only
\* behind a READY replacement that stands for no other.
THEOREM FleetIsKept == LifecycleSpec => []FleetNeverShrinks
BY FleetCount, LifecycleInvariant, PTL
=============================================================================
