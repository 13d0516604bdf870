------------------------ MODULE FleetSchedulerProofs ------------------------
(***************************************************************************)
(* Proofs about FleetScheduler, for any accounts and profiles, any finite  *)
(* number of schedulers and any bound on the faults.                       *)
(***************************************************************************)
EXTENDS FleetScheduler, FiniteSetTheorems, TLAPS

LEMMA ScheduleFields == \A x \in Schedules : x[1] \in Accounts /\ x[2] \in Profiles
BY DEF Schedules

LEMMA NobodyType == Nobody \in Schedules
<1>1. (CHOOSE a \in Accounts : TRUE) \in Accounts
  BY SchedulerSets
<1> QED  BY <1>1, SchedulerSets DEF Nobody, Schedules

\* A pass that is not under way has the type of a pass.
LEMMA IdlePassType == IdlePass \in Pass /\ IdlePass.pc = "idle" /\ IdlePass.todo = {}
BY NobodyType DEF IdlePass, Pass, PassPcs

\* The sets that are counted are finite.
LEMMA WaitingFinite ==
    ASSUME NEW a, NEW ph
    PROVE  IsFiniteSet(Waiting(a, ph)) /\ Cardinality(Waiting(a, ph)) \in Nat
<1>1. IsFiniteSet(Slots)
  BY SchedulerBounds, FS_Interval DEF Slots
<1>2. Waiting(a, ph) \in SUBSET Slots
  BY DEF Waiting
<1> QED  BY <1>1, <1>2, FS_Subset, FS_CardinalityType

LEMMA RunningFinite ==
    ASSUME NEW a, NEW ph
    PROVE  IsFiniteSet(Running(a, ph)) /\ Cardinality(Running(a, ph)) \in Nat
<1>1. Running(a, ph) \in SUBSET Schedulers
  BY DEF Running
<1> QED  BY <1>1, SchedulersAssumption, FS_Subset, FS_CardinalityType

LEMMA TypeInit == SchedulerInit => SchedulerTypeOK
<1> SUFFICES ASSUME SchedulerInit PROVE SchedulerTypeOK
  OBVIOUS
<1>1. acct \in [Accounts -> Account] /\ excess \in [Accounts -> [peak : Nat, lost : Nat]]
  <2>1. acct \in [Accounts -> Account]
    BY DEF SchedulerInit, Account
  <2>2. \A a \in Accounts : acct[a].desired \in Nat
    BY <2>1, DesiredAssumption DEF Account
  <2> QED  BY <2>1, <2>2 DEF SchedulerInit
<1>2. schedule \in [Schedules -> Schedule]
  BY DEF SchedulerInit, Schedule
<1>3. left \in [Slots -> Left]
  BY NobodyType DEF SchedulerInit, Left
<1>4. pass \in [Schedulers -> Pass]
  BY IdlePassType DEF SchedulerInit
<1> QED  BY <1>1, <1>2, <1>3, <1>4, SchedulerBounds DEF SchedulerInit, SchedulerTypeOK

-----------------------------------------------------------------------------
(* How the actions change a pass. *)
\* A pass is the record of its fields.
LEMMA PassFields ==
    ASSUME NEW f \in [Schedulers -> Pass], NEW s \in Schedulers
    PROVE  /\ f[s].pc \in PassPcs /\ f[s].todo \in SUBSET Schedules /\ f[s].cur \in Schedules
           /\ f[s].fresh \in SUBSET Accounts /\ f[s].closed \in SUBSET Accounts
           /\ f[s].cur[1] \in Accounts
BY ScheduleFields DEF Pass

\* The pass of scheduler t is where it was; those of all but s are.
Kept(t) == pass'[t].pc = pass[t].pc /\ pass'[t].todo = pass[t].todo /\ pass'[t].cur = pass[t].cur
Moves(s, p) == /\ pass' \in [Schedulers -> Pass]
               /\ pass'[s].pc = p /\ pass'[s].todo = pass[s].todo /\ pass'[s].cur = pass[s].cur
               /\ \A t \in Schedulers \ {s} : Kept(t)

LEMMA GotoMoves ==
    ASSUME pass \in [Schedulers -> Pass], NEW s \in Schedulers, NEW p \in PassPcs,
           Goto(s, p)
    PROVE  Moves(s, p)
BY DEF Goto, Pass, Moves, Kept

LEMMA DecideMoves ==
    ASSUME pass \in [Schedulers -> Pass], NEW s \in Schedulers, NEW p \in PassPcs,
           Decide(s, p)
    PROVE  Moves(s, p)
<1> DEFINE q1 == [pass[s] EXCEPT !.pc = p, !.fresh = {}, !.closed = {}]
           q2 == [pass[s] EXCEPT !.pc = p]
<1>1. pass' = [pass EXCEPT ![s] = IF pass[s].todo = {} THEN q1 ELSE q2]
  BY DEF Decide
<1>2. /\ q1 \in Pass /\ q1.pc = p /\ q1.todo = pass[s].todo /\ q1.cur = pass[s].cur
      /\ q2 \in Pass /\ q2.pc = p /\ q2.todo = pass[s].todo /\ q2.cur = pass[s].cur
  <2>1. pass[s] \in Pass
    OBVIOUS
  <2> QED  BY <2>1 DEF Pass
<1> HIDE DEF q1, q2
<1>3. \E q : /\ pass' = [pass EXCEPT ![s] = q] /\ q \in Pass
             /\ q.pc = p /\ q.todo = pass[s].todo /\ q.cur = pass[s].cur
  BY <1>1, <1>2
<1> QED  BY <1>3 DEF Moves, Kept

LEMMA ClaimDueFields ==
    ASSUME SchedulerTypeOK, NEW s \in Schedulers, ClaimDue(s)
    PROVE  /\ pass' \in [Schedulers -> Pass]
           /\ pass'[s].pc = "items" /\ pass'[s].cur = pass[s].cur
           /\ pass'[s].todo = {x \in Schedules : schedule[x].enabled /\ schedule[x].due
                                                                  /\ ~schedule[x].leased}
           /\ \A t \in Schedulers \ {s} : Kept(t)
<1> DEFINE items == {x \in Schedules : schedule[x].enabled /\ schedule[x].due
                                                           /\ ~schedule[x].leased}
           q == [pass[s] EXCEPT !.pc = "items", !.todo = items,
                    !.fresh = {a \in Accounts : snap[a].fresh}, !.closed = closed]
<1>1. pass \in [Schedulers -> Pass] /\ closed \in SUBSET Accounts
  BY DEF SchedulerTypeOK
<1>2. pass' = [pass EXCEPT ![s] = q]
  BY DEF ClaimDue
<1>3. q \in Pass /\ q.pc = "items" /\ q.todo = items /\ q.cur = pass[s].cur
  <2>1. "items" \in PassPcs /\ pass[s] \in Pass /\ items \in SUBSET Schedules
    BY <1>1 DEF PassPcs
  <2> DEFINE F == {a \in Accounts : snap[a].fresh}
  <2>2. F \in SUBSET Accounts
    OBVIOUS
  <2> HIDE DEF items, F
  <2> QED  BY <1>1, <2>1, <2>2 DEF Pass
<1> HIDE DEF q, items
<1>4. pass' \in [Schedulers -> Pass] /\ pass'[s] = q /\ \A t \in Schedulers \ {s} : pass'[t] = pass[t]
  BY <1>1, <1>2, <1>3
<1> QED  BY <1>3, <1>4 DEF items, Kept

LEMMA PrepareFields ==
    ASSUME pass \in [Schedulers -> Pass], NEW s \in Schedulers, NEW x \in Schedules, Prepare(s, x)
    PROVE  /\ pass' \in [Schedulers -> Pass]
           /\ pass'[s].pc = "evaluate" /\ pass'[s].cur = x
           /\ pass'[s].todo = pass[s].todo \ {x}
           /\ \A t \in Schedulers \ {s} : Kept(t)
<1> DEFINE q == [pass[s] EXCEPT !.pc = "evaluate", !.todo = pass[s].todo \ {x}, !.cur = x]
<1>1. pass' = [pass EXCEPT ![s] = q]
  BY DEF Prepare
<1>2. q \in Pass /\ q.pc = "evaluate" /\ q.todo = pass[s].todo \ {x} /\ q.cur = x
  <2>1. "evaluate" \in PassPcs /\ pass[s] \in Pass
    BY DEF PassPcs
  <2>2. pass[s].todo \ {x} \in SUBSET Schedules
    BY PassFields
  <2> QED  BY <2>1, <2>2 DEF Pass
<1> HIDE DEF q
<1>4. pass' \in [Schedulers -> Pass] /\ pass'[s] = q /\ \A t \in Schedulers \ {s} : pass'[t] = pass[t]
  BY <1>1, <1>2
<1> QED  BY <1>2, <1>4 DEF Kept

\* A pass goes on with the next item, or ends.
LEMMA CompleteFields ==
    ASSUME pass \in [Schedulers -> Pass], NEW s \in Schedulers, Complete(s)
    PROVE  /\ pass' \in [Schedulers -> Pass]
           /\ \/ pass'[s].pc = "idle" /\ pass'[s].todo = {}
              \/ pass'[s].pc = "items" /\ pass'[s].todo = pass[s].todo
           /\ \A t \in Schedulers \ {s} : Kept(t)
<1> DEFINE q == [pass[s] EXCEPT !.pc = "items"]
<1>1. pass' = [pass EXCEPT ![s] = IF pass[s].todo = {} THEN IdlePass ELSE q]
  BY DEF Complete
<1>2. q \in Pass /\ q.pc = "items" /\ q.todo = pass[s].todo
  <2>1. "items" \in PassPcs /\ pass[s] \in Pass
    BY DEF PassPcs
  <2> QED  BY <2>1 DEF Pass
<1> HIDE DEF q
<1>3. \E r : /\ pass' = [pass EXCEPT ![s] = r] /\ r \in Pass
             /\ \/ r.pc = "idle" /\ r.todo = {}
                \/ r.pc = "items" /\ r.todo = pass[s].todo
  BY <1>1, <1>2, IdlePassType
<1> QED  BY <1>3 DEF Kept

LEMMA RestartFields ==
    ASSUME pass \in [Schedulers -> Pass], NEW s \in Schedulers, Restart(s)
    PROVE  /\ pass' \in [Schedulers -> Pass]
           /\ pass'[s].pc = "idle" /\ pass'[s].todo = {}
           /\ \A t \in Schedulers \ {s} : Kept(t)
<1>1. pass' = [pass EXCEPT ![s] = IdlePass]
  BY DEF Restart
<1> QED  BY <1>1, IdlePassType DEF Kept

\* The end of a successful start moves its own pass and the windows of the others.
LEMMA SucceedsMoves ==
    ASSUME pass \in [Schedulers -> Pass], NEW s \in Schedulers, StartSucceeds(s)
    PROVE  Moves(s, "complete")
<1>1. PICK T \in SUBSET Undecided :
          pass' = [t \in Schedulers |->
             [pass[t] EXCEPT !.pc = IF t = s THEN "complete" ELSE pass[t].pc,
                             !.closed = IF t \in Undecided \cap (T \cup {s})
                                        THEN pass[t].closed \cup {Cur(s)}
                                        ELSE pass[t].closed \ {Cur(s)}]]
  BY DEF StartSucceeds
<1>2. ASSUME NEW t \in Schedulers
      PROVE  /\ pass'[t] \in Pass
             /\ pass'[t].pc = IF t = s THEN "complete" ELSE pass[t].pc
             /\ pass'[t].todo = pass[t].todo /\ pass'[t].cur = pass[t].cur
  <2>1. PICK p \in PassPcs : p = IF t = s THEN "complete" ELSE pass[t].pc
    BY PassFields DEF PassPcs
  <2>2. PICK C \in SUBSET Accounts : C = IF t \in Undecided \cap (T \cup {s})
                                        THEN pass[t].closed \cup {Cur(s)}
                                        ELSE pass[t].closed \ {Cur(s)}
    <3>1. pass[t].closed \in SUBSET Accounts /\ Cur(s) \in Accounts
      BY PassFields DEF Cur
    <3> QED  BY <3>1
  <2>3. pass'[t] = [pass[t] EXCEPT !.pc = p, !.closed = C]
    BY <1>1, <2>1, <2>2
  <2>4. pass[t] \in Pass
    OBVIOUS
  <2> QED  BY <2>1, <2>3, <2>4 DEF Pass
<1>3. pass' = [t \in Schedulers |-> pass'[t]]
  BY <1>1
<1>4. pass' \in [Schedulers -> Pass]
  BY <1>2, <1>3
<1> QED  BY <1>2, <1>4 DEF Moves, Kept

\* A refresh and an update of an account touch only the flags of the passes.
LEMMA FlagFields ==
    ASSUME pass \in [Schedulers -> Pass], NEW a \in Accounts, RefreshSnapshot(a) \/ UpdateAccount(a)
    PROVE  pass' \in [Schedulers -> Pass] /\ \A t \in Schedulers : Kept(t)
<1>1. ASSUME NEW t \in Schedulers
      PROVE  /\ [pass[t] EXCEPT !.fresh = @ \cup {a}] \in Pass
             /\ [pass[t] EXCEPT !.fresh = @ \cup {a}].pc = pass[t].pc
             /\ [pass[t] EXCEPT !.fresh = @ \cup {a}].todo = pass[t].todo
             /\ [pass[t] EXCEPT !.fresh = @ \cup {a}].cur = pass[t].cur
             /\ [pass[t] EXCEPT !.closed = @ \ {a}] \in Pass
             /\ [pass[t] EXCEPT !.closed = @ \ {a}].pc = pass[t].pc
             /\ [pass[t] EXCEPT !.closed = @ \ {a}].todo = pass[t].todo
             /\ [pass[t] EXCEPT !.closed = @ \ {a}].cur = pass[t].cur
  <2>1. pass[t] \in Pass /\ pass[t].fresh \in SUBSET Accounts /\ pass[t].closed \in SUBSET Accounts
    BY PassFields
  <2> QED  BY <2>1 DEF Pass
<1>2. CASE RefreshSnapshot(a)
  <2>1. pass' = [t \in Schedulers |-> IF t \in Undecided THEN [pass[t] EXCEPT !.fresh = @ \cup {a}]
                                                         ELSE pass[t]]
    BY <1>2 DEF RefreshSnapshot
  <2>2. \A t \in Schedulers : pass'[t] \in Pass /\ Kept(t)
    BY <1>1, <2>1 DEF Kept
  <2> QED  BY <2>1, <2>2
<1>3. CASE UpdateAccount(a)
  <2>1. pass' = [t \in Schedulers |-> [pass[t] EXCEPT !.closed = @ \ {a}]]
    BY <1>3 DEF UpdateAccount
  <2>2. \A t \in Schedulers : pass'[t] \in Pass /\ Kept(t)
    BY <1>1, <2>1 DEF Kept
  <2> QED  BY <2>1, <2>2
<1> QED  BY <1>2, <1>3
-----------------------------------------------------------------------------
(* How they change what is left behind. *)
LEMMA FaultType ==
    ASSUME SchedulerTypeOK
    PROVE  /\ Fault => faults' \in 0..MaxFaults /\ faults' = faults + 1 /\ faults' \in Slots
           /\ NoFault => faults' = faults
BY SchedulerBounds DEF Fault, NoFault, SchedulerTypeOK, Slots

LEMMA LoseFields ==
    ASSUME SchedulerTypeOK, NEW x \in Schedules, NEW phase \in Phases, Fault, Lose(x, phase)
    PROVE  /\ left' \in [Slots -> Left]
           /\ left'[faults'].phase = phase /\ left'[faults'].of = x
           /\ \A i \in Slots \ {faults'} : left'[i] = left[i]
           /\ excess' \in [Accounts -> [peak : Nat, lost : Nat]]
           /\ excess'[x[1]].peak = excess[x[1]].peak
           /\ excess'[x[1]].lost = excess[x[1]].lost + 1
           /\ \A a \in Accounts \ {x[1]} : excess'[a] = excess[a]
<1>1. left \in [Slots -> Left] /\ excess \in [Accounts -> [peak : Nat, lost : Nat]]
  BY DEF SchedulerTypeOK
<1>2. faults' \in Slots /\ x[1] \in Accounts
  BY FaultType, ScheduleFields
<1> DEFINE l == [phase |-> phase, of |-> x]
           e == [excess[x[1]] EXCEPT !.lost = excess[x[1]].lost + 1]
<1>3. l \in Left /\ l.phase = phase /\ l.of = x
  BY DEF Left
<1>4. e \in [peak : Nat, lost : Nat] /\ e.peak = excess[x[1]].peak /\ e.lost = excess[x[1]].lost + 1
  <2>1. excess[x[1]] \in [peak : Nat, lost : Nat]
    BY <1>1, <1>2
  <2> QED  BY <2>1
<1>5. left' = [left EXCEPT ![faults'] = l] /\ excess' = [excess EXCEPT ![x[1]] = e]
  BY DEF Lose
<1> HIDE DEF l, e
<1> QED  BY <1>1, <1>2, <1>3, <1>4, <1>5

LEMMA MaybeStrayType ==
    ASSUME SchedulerTypeOK, NEW a \in Accounts, NEW phase, MaybeStray(a, phase)
    PROVE  stray' \in [Accounts -> Nat]
<1>1. stray \in [Accounts -> Nat]
  BY DEF SchedulerTypeOK
<1>2. stray' = stray \/ stray' = [stray EXCEPT ![a] = @ + 1]
  BY DEF MaybeStray
<1> QED  BY <1>1, <1>2

\* A scheduler that stops leaves nothing, or the deployment it ran.
LEMMA AbandonFields ==
    ASSUME SchedulerTypeOK, NEW s \in Schedulers, Fault, Abandon(s)
    PROVE  /\ left' \in [Slots -> Left]
           /\ excess' \in [Accounts -> [peak : Nat, lost : Nat]]
           /\ stray' \in [Accounts -> Nat]
           /\ \/ left' = left /\ excess' = excess
              \/ /\ pass[s].pc \in {"ready", "asking", "made", "mid"}
                 /\ \E phase \in Phases : Lose(pass[s].cur, phase)
<1>1. pass[s].cur \in Schedules /\ Cur(s) \in Accounts
  BY PassFields DEF SchedulerTypeOK, Cur
<1>2. CASE Remains(pass[s].pc) = {}
  BY <1>2 DEF Abandon, SchedulerTypeOK
<1>3. CASE Remains(pass[s].pc) # {}
  <2>1. PICK phase \in Remains(pass[s].pc) : Lose(pass[s].cur, phase) /\ MaybeStray(Cur(s), phase)
    BY <1>3 DEF Abandon
  <2>2. phase \in Phases /\ pass[s].pc \in {"ready", "asking", "made", "mid"}
    BY <1>3 DEF Remains, Phases
  <2> QED  BY <1>1, <2>1, <2>2, LoseFields, MaybeStrayType
<1> QED  BY <1>2, <1>3

LEMMA SetPhaseFields ==
    ASSUME SchedulerTypeOK, NEW i \in Slots, NEW phase \in Phases \cup {"none"}, SetPhase(i, phase)
    PROVE  /\ left' \in [Slots -> Left]
           /\ left'[i].phase = phase /\ left'[i].of = left[i].of
           /\ \A j \in Slots \ {i} : left'[j] = left[j]
BY DEF SetPhase, SchedulerTypeOK, Left

LEMMA MaintainType ==
    ASSUME SchedulerTypeOK, NEW a \in Accounts, Maintain(a)
    PROVE  acct' \in [Accounts -> Account] /\ \A b \in Accounts : acct'[b].desired = acct[b].desired
<1>1. acct \in [Accounts -> Account]
  BY DEF SchedulerTypeOK
<1>2. PICK st \in {acct[a].status, "READY", "ISOLATION_WAIT"} :
          acct' = [acct EXCEPT ![a] = [acct[a] EXCEPT !.status = st]]
  BY DEF Maintain
<1> DEFINE q == [acct[a] EXCEPT !.status = st]
<1>3. q \in Account /\ q.desired = acct[a].desired
  BY <1>1 DEF Account
<1> HIDE DEF q
<1> QED  BY <1>1, <1>2, <1>3 DEF q
-----------------------------------------------------------------------------
(* Types. *)
\* The steps between taking up an item and completing it.
WorkStep(s) ==
    \/ Evaluate(s) \/ Start(s) \/ StartRefused(s) \/ Advance(s) \/ WaitResource(s)
    \/ StartSucceeds(s) \/ StartFails(s) \/ CreateRefused(s)

\* They move the pc alone, and a build begins with a decision for it.
LEMMA WorkMoves ==
    ASSUME SchedulerTypeOK, NEW s \in Schedulers, WorkStep(s)
    PROVE  \E p \in PassPcs \ {"idle", "items", "evaluate"} :
              /\ Moves(s, p) /\ Working(s)
              /\ p \in BuildPcs => pass[s].pc \in BuildPcs \/ Evaluate(s)
              /\ StartRefused(s) \/ WaitResource(s) \/ StartFails(s) \/ CreateRefused(s) =>
                    p \notin BuildPcs
              /\ Evaluate(s) =>
                    \/ p = "complete"
                    \/ \E n \in {0, PreCreate(pass[s].cur)} : MayBuild(s, pass[s].cur, n)
<1>1. pass \in [Schedulers -> Pass]
  BY DEF SchedulerTypeOK
<1>2. \A p \in PassPcs : Goto(s, p) \/ Decide(s, p) => Moves(s, p)
  BY <1>1, GotoMoves, DecideMoves
<1>3. {"start", "ready", "asking", "made", "mid", "row", "complete"} \subseteq PassPcs
  BY DEF PassPcs
<1>a. StartRefused(s) \/ WaitResource(s) \/ StartFails(s) \/ CreateRefused(s) =>
         pass'[s].pc \notin BuildPcs
  BY <1>2, <1>3 DEF StartRefused, WaitResource, StartFails, CreateRefused, Moves, BuildPcs
<1>4. CASE Evaluate(s)
  <2>1. PICK p \in {"start", "complete"} :
           /\ Decide(s, p)
           /\ \/ p = "complete"
              \/ \E n \in {0, PreCreate(pass[s].cur)} : MayBuild(s, pass[s].cur, n)
    BY <1>4 DEF Evaluate
  <2> QED  BY <1>2, <1>3, <1>4, <2>1 DEF Evaluate, Working, StartRefused, WaitResource, StartFails,
                                         CreateRefused
<1>5. CASE Start(s)
  BY <1>2, <1>3, <1>5 DEF Start, Working, Evaluate, StartRefused, WaitResource, StartFails,
                          CreateRefused, BuildPcs, Fault, Goto
<1>6. CASE Advance(s)
  <2>1. PICK p \in {"asking", "made", "mid"} : Goto(s, p)
    BY <1>6 DEF Advance
  <2>2. pass[s].pc \in {"ready", "asking", "made"}
    BY <1>6 DEF Advance
  <2> QED  BY <1>2, <1>3, <1>a, <1>6, <2>1, <2>2 DEF Working, Evaluate, BuildPcs, Moves
<1>7. CASE WaitResource(s)
  BY <1>2, <1>3, <1>7 DEF WaitResource, Working, Evaluate, BuildPcs
<1>8. CASE StartRefused(s) \/ StartFails(s) \/ CreateRefused(s)
  BY <1>2, <1>3, <1>8 DEF StartRefused, StartFails, CreateRefused, Working, Evaluate, BuildPcs
<1>9. CASE StartSucceeds(s)
  BY <1>1, <1>3, <1>9, SucceedsMoves DEF StartSucceeds, Working, Evaluate, BuildPcs
<1> QED  BY <1>4, <1>5, <1>6, <1>7, <1>8, <1>9 DEF WorkStep

LEMMA TypeWork ==
    ASSUME SchedulerTypeOK, NEW s \in Schedulers, WorkStep(s)
    PROVE  SchedulerTypeOK'
<1> DEFINE T == SchedulerTypeOK'
<1>f. /\ Fault \/ NoFault => faults' \in 0..MaxFaults
      /\ faults \in 0..MaxFaults
  BY FaultType DEF SchedulerTypeOK, NoFault
<1>p. pass' \in [Schedulers -> Pass]
  BY WorkMoves DEF Moves
<1>c. pass[s].cur \in Schedules /\ Cur(s) \in Accounts
  BY PassFields DEF SchedulerTypeOK, Cur
<1>1. ASSUME Evaluate(s) PROVE T
  BY <1>1, <1>f, <1>p DEF Evaluate, SchedulerTypeOK, fleet, history
<1>2. ASSUME Start(s) \/ StartRefused(s) PROVE T
  <2>1. acct' \in [Accounts -> Account]
    BY <1>2, <1>c, MaintainType DEF Start, StartRefused
  <2> QED  BY <1>2, <1>f, <1>p, <2>1 DEF Start, StartRefused, SchedulerTypeOK, fleet, history
<1>3. ASSUME Advance(s) PROVE T
  BY <1>3, <1>p DEF Advance, SchedulerTypeOK, fleet, history
<1>4. ASSUME WaitResource(s) PROVE T
  <2>1. rows' \in [Accounts -> Nat]
    BY <1>4, <1>c DEF WaitResource, SchedulerTypeOK
  <2> QED  BY <1>4, <1>p, <2>1 DEF WaitResource, SchedulerTypeOK, history
<1>5. ASSUME StartSucceeds(s) PROVE T
  <2>1. closed' \in SUBSET Accounts
    BY <1>5, <1>c DEF StartSucceeds, SchedulerTypeOK
  <2> QED  BY <1>5, <1>p, <2>1 DEF StartSucceeds, SchedulerTypeOK, fleet, history
<1>6. ASSUME StartFails(s) PROVE T
  BY <1>6, <1>f, <1>p, AbandonFields DEF StartFails, SchedulerTypeOK
<1>7. ASSUME CreateRefused(s) PROVE T
  <2>1. /\ left' \in [Slots -> Left]
        /\ excess' \in [Accounts -> [peak : Nat, lost : Nat]]
    BY <1>7, <1>c, LoseFields DEF CreateRefused, Phases
  <2> QED  BY <1>7, <1>f, <1>p, <2>1 DEF CreateRefused, SchedulerTypeOK
<1> QED  BY <1>1, <1>2, <1>3, <1>4, <1>5, <1>6, <1>7 DEF WorkStep

LEMMA TypeScheduler ==
    ASSUME SchedulerTypeOK, NEW s \in Schedulers, SchedulerStep(s) \/ Restart(s)
    PROVE  SchedulerTypeOK'
<1> DEFINE T == SchedulerTypeOK'
<1>f. Fault \/ NoFault => faults' \in 0..MaxFaults
  BY FaultType DEF SchedulerTypeOK, NoFault
<1>p. pass \in [Schedulers -> Pass] /\ schedule \in [Schedules -> Schedule]
  BY DEF SchedulerTypeOK
<1>c. pass[s].cur \in Schedules /\ pass[s].todo \in SUBSET Schedules
  BY <1>p, PassFields
<1>1. ASSUME ClaimDue(s) PROVE T
  <2>1. schedule' \in [Schedules -> Schedule]
    BY <1>1, <1>p DEF ClaimDue, Schedule
  <2> QED  BY <1>1, <2>1, ClaimDueFields DEF ClaimDue, SchedulerTypeOK, fleet, history
<1>2. ASSUME NEW x \in pass[s].todo, Prepare(s, x) PROVE T
  <2>1. x \in Schedules /\ x[1] \in Accounts
    BY <1>c, ScheduleFields
  <2>2. acct' \in [Accounts -> Account]
    BY <1>2, <2>1, MaintainType DEF Prepare
  <2> QED  BY <1>2, <1>p, <2>1, <2>2, PrepareFields DEF Prepare, SchedulerTypeOK, fleet, history
<1>3. ASSUME Complete(s) PROVE T
  <2>1. schedule' \in [Schedules -> Schedule]
    <3>1. ASSUME NEW due \in BOOLEAN
          PROVE  [schedule[pass[s].cur] EXCEPT !.due = due, !.leased = FALSE] \in Schedule
      <4>1. schedule[pass[s].cur] \in Schedule
        BY <1>p, <1>c
      <4> QED  BY <4>1 DEF Schedule
    <3>2. \/ UNCHANGED schedule
          \/ \E due \in BOOLEAN :
                schedule' = [schedule EXCEPT ![pass[s].cur] =
                   [schedule[pass[s].cur] EXCEPT !.due = due, !.leased = FALSE]]
      BY <1>3 DEF Complete
    <3> QED  BY <1>p, <1>c, <3>1, <3>2
  <2>2. pass' \in [Schedulers -> Pass]
    BY <1>3, <1>p, CompleteFields
  <2>3. overrun' \in SUBSET Schedules
    BY <1>3 DEF Complete, Release, SchedulerTypeOK
  <2> QED  BY <1>3, <1>f, <2>1, <2>2, <2>3 DEF Complete, SchedulerTypeOK, fleet
<1>4. ASSUME Restart(s) PROVE T
  <2>1. pass' \in [Schedulers -> Pass]
    BY <1>4, <1>p, RestartFields
  <2>2. overrun' \in SUBSET Schedules
    BY <1>4 DEF Restart, Release, SchedulerTypeOK
  <2> QED  BY <1>4, <1>f, <2>1, <2>2, AbandonFields DEF Restart, SchedulerTypeOK
<1> QED  BY <1>1, <1>2, <1>3, <1>4, TypeWork DEF SchedulerStep, WorkStep

\* A step of time, of recovery, or of the other users of the accounts.
TimeStep ==
    \/ \E x \in Schedules : BecomesDue(x) \/ LeaseExpires(x) \/ UpsertSchedule(x)
    \/ \E a \in Accounts : WindowOpens(a) \/ SnapshotAges(a) \/ RefreshSnapshot(a)
FleetStep ==
    \/ \E x \in Schedules : OtherStart(x)
    \/ \E i \in Slots : RecoveryStep(i) \/ RecoveryFails(i)
    \/ \E a \in Accounts : RowDeleted(a) \/ UpdateAccount(a)

LEMMA TypeTime ==
    ASSUME SchedulerTypeOK, TimeStep
    PROVE  SchedulerTypeOK'
<1> DEFINE T == SchedulerTypeOK'
<1>f. Fault => faults' \in 0..MaxFaults
  BY FaultType
<1>p. pass \in [Schedulers -> Pass] /\ schedule \in [Schedules -> Schedule]
  BY DEF SchedulerTypeOK
<1>1. ASSUME NEW x \in Schedules, BecomesDue(x) \/ LeaseExpires(x) PROVE T
  <2>1. schedule' \in [Schedules -> Schedule] /\ overrun' \in SUBSET Schedules
    BY <1>1, <1>p DEF BecomesDue, LeaseExpires, Schedule, SchedulerTypeOK, history
  <2> QED  BY <1>1, <2>1 DEF BecomesDue, LeaseExpires, SchedulerTypeOK, fleet, history
<1>2. ASSUME NEW x \in Schedules, UpsertSchedule(x) PROVE T
  <2>1. schedule' \in [Schedules -> Schedule]
    <3>1. PICK e \in BOOLEAN :
            schedule' = [schedule EXCEPT ![x] =
               [schedule[x] EXCEPT !.present = TRUE, !.enabled = e,
                                   !.due = schedule[x].due \/ ~schedule[x].present]]
      BY <1>2 DEF UpsertSchedule
    <3> DEFINE q == [schedule[x] EXCEPT !.present = TRUE, !.enabled = e,
                                   !.due = schedule[x].due \/ ~schedule[x].present]
    <3>2. q \in Schedule
      BY <1>p DEF Schedule
    <3> HIDE DEF q
    <3> QED  BY <1>p, <3>1, <3>2 DEF q
  <2> QED  BY <1>2, <1>f, <2>1 DEF UpsertSchedule, SchedulerTypeOK, fleet, history
<1>3. ASSUME NEW a \in Accounts, WindowOpens(a) PROVE T
  BY <1>3 DEF WindowOpens, SchedulerTypeOK, fleet, history
<1>4. ASSUME NEW a \in Accounts, SnapshotAges(a) PROVE T
  <2>1. snap' \in [Accounts -> [count : Nat, fresh : BOOLEAN]]
    BY <1>4 DEF SnapshotAges, SchedulerTypeOK
  <2> QED  BY <1>4, <1>f, <2>1 DEF SnapshotAges, SchedulerTypeOK, fleet, history
<1>5. ASSUME NEW a \in Accounts, RefreshSnapshot(a) PROVE T
  <2>1. Cloud(a) \in Nat
    <3>1. rows[a] \in Nat /\ stray[a] \in Nat
      BY DEF SchedulerTypeOK
    <3> QED  BY <3>1, WaitingFinite, RunningFinite DEF Cloud, Deployments
  <2>2. snap' \in [Accounts -> [count : Nat, fresh : BOOLEAN]]
    BY <1>5, <2>1 DEF RefreshSnapshot, SchedulerTypeOK
  <2> QED  BY <1>5, <1>p, <2>2, FlagFields DEF RefreshSnapshot, SchedulerTypeOK, fleet, history
<1> QED  BY <1>1, <1>2, <1>3, <1>4, <1>5 DEF TimeStep

\* Nothing is left behind in slot i any more, or it has moved on.
Proceeds(i) == \E phase \in Phases \cup {"none"} : SetPhase(i, phase)

LEMMA TypeFleet ==
    ASSUME SchedulerTypeOK, FleetStep
    PROVE  SchedulerTypeOK'
<1> DEFINE T == SchedulerTypeOK'
<1>f. Fault \/ NoFault => faults' \in 0..MaxFaults
  BY FaultType DEF SchedulerTypeOK, NoFault
<1>p. /\ pass \in [Schedulers -> Pass] /\ schedule \in [Schedules -> Schedule]
      /\ rows \in [Accounts -> Nat] /\ left \in [Slots -> Left]
      /\ excess \in [Accounts -> [peak : Nat, lost : Nat]] /\ acct \in [Accounts -> Account]
  BY DEF SchedulerTypeOK
<1>d. \A a \in Accounts : acct[a].desired \in Nat
  BY <1>p, DesiredAssumption DEF Account
<1>1. ASSUME NEW x \in Schedules, OtherStart(x) PROVE T
  <2>1. /\ left' \in [Slots -> Left]
        /\ excess' \in [Accounts -> [peak : Nat, lost : Nat]]
    BY <1>1, LoseFields DEF OtherStart, Phases
  <2> QED  BY <1>1, <1>f, <2>1 DEF OtherStart, SchedulerTypeOK
<1>2. ASSUME NEW i \in Slots, RecoveryStep(i) \/ RecoveryFails(i) PROVE T
  <2>1. left[i].of[1] \in Accounts
    BY <1>p, ScheduleFields DEF Left
  <2>2. Proceeds(i)
    BY <1>2 DEF RecoveryStep, RecoveryReserves, RecoveryCreates, RecoveryLinks, RecoveryStores,
                RecoveryFreezes, RecoveryFails, Proceeds, Phases
  <2>3. left' \in [Slots -> Left]
    BY <2>2, SetPhaseFields DEF Proceeds
  <2>4. CASE RecoveryFails(i)
    <3>1. stray' \in [Accounts -> Nat]
      BY <2>1, <2>4, MaybeStrayType DEF RecoveryFails
    <3> QED  BY <1>f, <2>3, <2>4, <3>1 DEF RecoveryFails, SchedulerTypeOK, history
  <2>5. CASE RecoveryStores(i)
    <3>1. rows' \in [Accounts -> Nat]
      BY <1>p, <2>1, <2>5 DEF RecoveryStores
    <3> QED  BY <2>3, <2>5, <3>1 DEF RecoveryStores, SchedulerTypeOK, history
  <2> QED  BY <1>2, <2>3, <2>4, <2>5 DEF RecoveryStep, RecoveryReserves, RecoveryCreates,
              RecoveryLinks, RecoveryFreezes, SchedulerTypeOK, history
<1>3. ASSUME NEW a \in Accounts, RowDeleted(a) PROVE T
  <2>1. rows' \in [Accounts -> Nat]
    BY <1>3, <1>p DEF RowDeleted
  <2>2. excess' \in [Accounts -> [peak : Nat, lost : Nat]]
    BY <1>3, <1>p, <1>d DEF RowDeleted
  <2> QED  BY <1>3, <1>f, <2>1, <2>2 DEF RowDeleted, SchedulerTypeOK
<1>4. ASSUME NEW a \in Accounts, UpdateAccount(a) PROVE T
  <2>1. PICK n \in DesiredCounts : /\ acct' = [acct EXCEPT ![a].desired = n]
                                   /\ excess' = [excess EXCEPT ![a].peak = Larger(@, n)]
    BY <1>4 DEF UpdateAccount
  <2>2. acct' \in [Accounts -> Account]
    BY <1>p, <2>1 DEF Account
  <2>3. excess' \in [Accounts -> [peak : Nat, lost : Nat]]
    BY <1>p, <2>1, DesiredAssumption DEF Larger
  <2>4. schedule' \in [Schedules -> Schedule]
    <3> DEFINE x == <<a, AutoProfile>>
    <3>1. x \in Schedules
      BY SchedulerSets DEF Schedules
    <3>2. PICK due \in {schedule[x].due, FALSE} :
            schedule' = [schedule EXCEPT ![x] =
               [schedule[x] EXCEPT !.present = TRUE, !.enabled = TRUE, !.due = due]]
      BY <1>4 DEF UpdateAccount
    <3> HIDE DEF x
    <3>3. [schedule[x] EXCEPT !.present = TRUE, !.enabled = TRUE, !.due = due] \in Schedule
      BY <1>p, <3>1 DEF Schedule
    <3> QED  BY <1>p, <3>1, <3>2, <3>3
  <2> QED  BY <1>4, <1>f, <1>p, <2>2, <2>3, <2>4, FlagFields DEF UpdateAccount, SchedulerTypeOK, fleet
<1> QED  BY <1>1, <1>2, <1>3, <1>4 DEF FleetStep

\* Every step is one of these.
LEMMA Steps ==
    ASSUME SchedulerNext
    PROVE  \/ \E s \in Schedulers : \/ ClaimDue(s) \/ WorkStep(s) \/ Complete(s) \/ Restart(s)
                                    \/ \E x \in pass[s].todo : Prepare(s, x)
           \/ TimeStep \/ FleetStep
BY DEF SchedulerNext, SchedulerStep, WorkStep, TimeStep, FleetStep

LEMMA TypeStep == SchedulerTypeOK /\ [SchedulerNext]_schedulerVars => SchedulerTypeOK'
<1>1. SchedulerTypeOK /\ SchedulerNext => SchedulerTypeOK'
  BY Steps, TypeScheduler, TypeTime, TypeFleet DEF SchedulerStep, WorkStep
<1>2. SchedulerTypeOK /\ UNCHANGED schedulerVars => SchedulerTypeOK'
  BY DEF SchedulerTypeOK, schedulerVars
<1> QED  BY <1>1, <1>2

\* Whatever the schedulers, time and the others do, the accounts, schedules, counts
\* and passes keep their types: no count of rows or droplets goes below zero, and
\* every deployment that is left behind finds a slot.
THEOREM SchedulerTypes == SchedulerSpec => []SchedulerTypeOK
BY TypeInit, TypeStep, PTL DEF SchedulerSpec
-----------------------------------------------------------------------------
(* The lease. *)
\* Time and the others leave the passes where they are.
LEMMA OthersKeep ==
    ASSUME SchedulerTypeOK, TimeStep \/ FleetStep
    PROVE  \A t \in Schedulers : Kept(t)
<1>p. pass \in [Schedulers -> Pass]
  BY DEF SchedulerTypeOK
<1>1. ASSUME NEW a \in Accounts, RefreshSnapshot(a) \/ UpdateAccount(a)
      PROVE  \A t \in Schedulers : Kept(t)
  BY <1>1, <1>p, FlagFields
<1>2. CASE UNCHANGED pass
  BY <1>2 DEF Kept
<1> QED  BY <1>1, <1>2 DEF TimeStep, FleetStep, BecomesDue, LeaseExpires, UpsertSchedule, WindowOpens,
            SnapshotAges, OtherStart, RecoveryStep, RecoveryReserves, RecoveryCreates, RecoveryLinks,
            RecoveryStores, RecoveryFreezes, RecoveryFails, RowDeleted

\* The schedule in work is none of those to do.
LEMMA TodoStep ==
    ASSUME SchedulerTypeOK, TodoInv, [SchedulerNext]_schedulerVars
    PROVE  TodoInv'
<1>p. pass \in [Schedulers -> Pass]
  BY DEF SchedulerTypeOK
<1>1. ASSUME NEW s \in Schedulers, ClaimDue(s) PROVE TodoInv'
  BY <1>1, ClaimDueFields DEF TodoInv, Working, Kept
<1>2. ASSUME NEW s \in Schedulers, WorkStep(s) PROVE TodoInv'
  BY <1>2, WorkMoves DEF TodoInv, Working, Moves, Kept
<1>3. ASSUME NEW s \in Schedulers, Complete(s) PROVE TodoInv'
  BY <1>3, <1>p, CompleteFields DEF TodoInv, Working, Kept
<1>4. ASSUME NEW s \in Schedulers, Restart(s) PROVE TodoInv'
  BY <1>4, <1>p, RestartFields DEF TodoInv, Working, Kept
<1>5. ASSUME NEW s \in Schedulers, NEW x \in pass[s].todo, Prepare(s, x) PROVE TodoInv'
  <2>1. x \in Schedules
    BY <1>p, PassFields
  <2> QED  BY <1>5, <2>1, <1>p, PrepareFields DEF TodoInv, Working, Kept
<1>6. ASSUME TimeStep \/ FleetStep PROVE TodoInv'
  BY <1>6, OthersKeep DEF TodoInv, Working, Kept
<1>7. CASE UNCHANGED schedulerVars
  BY <1>7 DEF schedulerVars, TodoInv, Working
<1> QED  BY <1>1, <1>2, <1>3, <1>4, <1>5, <1>6, <1>7, Steps

\* Scheduler s holds schedule x.
Holds(s, x) == x \in pass[s].todo \/ (Working(s) /\ pass[s].cur = x)

LEMMA HoldersAre == \A x : Holders(x) = {s \in Schedulers : Holds(s, x)}
BY DEF Holders, Holds

\* The lease excludes, said with Holds.
Alone == \A x \in Schedules \ overrun, s \in Schedulers :
            Holds(s, x) => schedule[x].leased /\ \A t \in Schedulers : Holds(t, x) => s = t

LEMMA LeaseIsAlone == (LeaseInv <=> Alone) /\ (LeaseInv' <=> Alone')
<1>1. LeaseInv <=> Alone
  BY HoldersAre DEF LeaseInv, Alone
<1>2. LeaseInv' <=> Alone'
  BY DEF LeaseInv, Alone, Holders, Holds, Working
<1> QED  BY <1>1, <1>2

\* Only a claim lets a scheduler hold a schedule it did not hold.
LEMMA HoldsShrinks ==
    ASSUME SchedulerTypeOK, TodoInv, SchedulerNext, \A s \in Schedulers : ~ClaimDue(s),
           NEW t \in Schedulers, NEW x \in Schedules, Holds(t, x)'
    PROVE  Holds(t, x)
<1>p. pass \in [Schedulers -> Pass]
  BY DEF SchedulerTypeOK
<1>1. Kept(t) => Holds(t, x)
  BY DEF Kept, Holds, Working
<1>2. ASSUME NEW s \in Schedulers, WorkStep(s) PROVE Holds(t, x)
  BY <1>2, <1>1, WorkMoves DEF Holds, Working, Moves, Kept
<1>3. ASSUME NEW s \in Schedulers, Complete(s) PROVE Holds(t, x)
  BY <1>3, <1>1, <1>p, CompleteFields DEF Holds, Working
<1>4. ASSUME NEW s \in Schedulers, Restart(s) PROVE Holds(t, x)
  BY <1>4, <1>1, <1>p, RestartFields DEF Holds, Working
<1>5. ASSUME NEW s \in Schedulers, NEW y \in pass[s].todo, Prepare(s, y) PROVE Holds(t, x)
  <2>1. y \in Schedules
    BY <1>p, PassFields
  <2> QED  BY <1>5, <1>1, <2>1, <1>p, PrepareFields DEF Holds
<1>6. ASSUME TimeStep \/ FleetStep PROVE Holds(t, x)
  BY <1>6, <1>1, OthersKeep
<1> QED  BY <1>2, <1>3, <1>4, <1>5, <1>6, Steps

LEMMA LeaseStep ==
    ASSUME SchedulerTypeOK, TodoInv, LeaseInv, [SchedulerNext]_schedulerVars
    PROVE  LeaseInv'
<1> SUFFICES Alone'
  BY LeaseIsAlone
<1>a. Alone
  BY LeaseIsAlone
<1>p. pass \in [Schedulers -> Pass] /\ schedule \in [Schedules -> Schedule]
  BY DEF SchedulerTypeOK
\* Nobody takes up a schedule, the leases of the held ones stay, and a mark is only
\* taken from a schedule that nobody holds any more.
<1>q. ASSUME SchedulerNext, \A s \in Schedulers : ~ClaimDue(s),
             \A x \in Schedules \ overrun', t \in Schedulers :
                Holds(t, x)' => x \notin overrun /\ (schedule[x].leased => schedule'[x].leased)
      PROVE  Alone'
  BY <1>a, <1>q, HoldsShrinks DEF Alone
<1>1. ASSUME NEW s \in Schedulers, ClaimDue(s) PROVE Alone'
  <2> DEFINE items == {x \in Schedules : schedule[x].enabled /\ schedule[x].due
                                                             /\ ~schedule[x].leased}
  <2>1. overrun' = overrun /\ \A x \in Schedules : schedule'[x].leased = (schedule[x].leased \/ x \in items)
    BY <1>1, <1>p DEF ClaimDue, Schedule, history
  <2>2. \A x \in Schedules : Holds(s, x)' => x \in items
    BY <1>1, ClaimDueFields DEF Holds, Working
  <2>3. \A t \in Schedulers \ {s}, x \in Schedules : Holds(t, x)' => Holds(t, x)
    BY <1>1, ClaimDueFields DEF Holds, Kept, Working
  <2>4. \A t \in Schedulers, x \in Schedules \ overrun : Holds(t, x) => x \notin items
    BY <1>a DEF Alone
  <2> HIDE DEF items
  <2>5. ASSUME NEW x \in Schedules \ overrun, NEW t \in Schedulers, Holds(t, x)'
        PROVE  /\ schedule'[x].leased
               /\ \A u \in Schedulers : Holds(u, x)' => t = u
    <3>1. CASE x \in items
      BY <2>1, <2>3, <2>4, <2>5, <3>1
    <3>2. CASE x \notin items
      BY <1>a, <2>1, <2>2, <2>3, <2>5, <3>2 DEF Alone
    <3> QED  BY <3>1, <3>2
  <2> QED  BY <2>1, <2>5 DEF Alone
<1>2. ASSUME SchedulerNext, \A s \in Schedulers : ~ClaimDue(s), overrun' = overrun,
             \A x \in Schedules : schedule[x].leased => schedule'[x].leased
      PROVE  Alone'
  BY <1>2, <1>q
<1>3. ASSUME NEW s \in Schedulers, Complete(s), SchedulerNext, \A t \in Schedulers : ~ClaimDue(t)
      PROVE  Alone'
  <2>1. pass[s].pc = "complete"
    BY <1>3 DEF Complete
  <2>2. PICK c \in Schedules : c = pass[s].cur
    BY <1>p, PassFields
  <2>3. Holds(s, c) /\ ~Holds(s, c)'
    BY <1>3, <1>p, <2>1, <2>2, CompleteFields DEF Holds, Working, TodoInv
  <2>4. \A x \in Schedules \ {c} : schedule'[x] = schedule[x] /\ (x \in overrun' <=> x \in overrun)
    BY <1>3, <1>p, <2>2 DEF Complete, Release, SchedulerTypeOK
  <2>5. ASSUME c \notin overrun', NEW t \in Schedulers, Holds(t, c)' PROVE FALSE
    <3>1. Holds(t, c) /\ t # s
      BY <1>3, <2>3, <2>5, HoldsShrinks
    <3>2. c \notin overrun \/ Holders(c) = {s}
      BY <1>3, <2>5 DEF Complete, Release
    <3> QED  BY <1>a, <2>3, <3>1, <3>2, HoldersAre DEF Alone
  <2> QED  BY <1>3, <1>q, <2>4, <2>5
<1>4. ASSUME NEW s \in Schedulers, Restart(s), SchedulerNext, \A t \in Schedulers : ~ClaimDue(t)
      PROVE  Alone'
  <2>1. \A x \in Schedules : ~Holds(s, x)'
    BY <1>4, <1>p, RestartFields DEF Holds, Working
  <2>2. ASSUME NEW x \in Schedules \ overrun', x \in overrun, NEW t \in Schedulers, Holds(t, x)'
        PROVE  FALSE
    <3>1. Holders(x) = {s}
      BY <1>4, <2>2 DEF Restart, Release
    <3>2. Holds(t, x) /\ t # s
      BY <1>4, <2>1, <2>2, HoldsShrinks
    <3> QED  BY <3>1, <3>2, HoldersAre
  <2>3. schedule' = schedule
    BY <1>4 DEF Restart
  <2> QED  BY <1>4, <1>q, <2>2, <2>3
<1>5. ASSUME NEW x \in Schedules, LeaseExpires(x), SchedulerNext, \A t \in Schedulers : ~ClaimDue(t)
      PROVE  Alone'
  <2>1. /\ \A y \in Schedules \ {x} : schedule'[y] = schedule[y]
        /\ overrun \subseteq overrun'
        /\ x \notin overrun' => \A t \in Schedulers : ~Holds(t, x)
    BY <1>5, <1>p, HoldersAre DEF LeaseExpires
  <2> QED  BY <1>5, <1>q, <2>1, HoldsShrinks
<1>6. ASSUME SchedulerNext, \A t \in Schedulers : ~ClaimDue(t) PROVE Alone'
  <2>1. ASSUME NEW s \in Schedulers, WorkStep(s) \/ \E x \in pass[s].todo : Prepare(s, x)
        PROVE  UNCHANGED <<schedule, overrun>>
    BY <2>1 DEF WorkStep, Evaluate, Start, StartRefused, Advance, WaitResource, StartSucceeds,
                StartFails, CreateRefused, Prepare, history
  <2>2. ASSUME TimeStep \/ FleetStep, \A x \in Schedules : ~LeaseExpires(x)
        PROVE  /\ overrun' = overrun
               /\ \A x \in Schedules : schedule[x].leased => schedule'[x].leased
    <3>1. ASSUME NEW x \in Schedules, BecomesDue(x) \/ UpsertSchedule(x)
          PROVE  /\ overrun' = overrun
                 /\ \A y \in Schedules : schedule[y].leased => schedule'[y].leased
      BY <1>p, <3>1 DEF BecomesDue, UpsertSchedule, Schedule, history
    <3>2. ASSUME NEW a \in Accounts, UpdateAccount(a)
          PROVE  /\ overrun' = overrun
                 /\ \A y \in Schedules : schedule[y].leased => schedule'[y].leased
      <4> DEFINE x == <<a, AutoProfile>>
      <4>1. x \in Schedules
        BY SchedulerSets DEF Schedules
      <4>2. PICK due \in {schedule[x].due, FALSE} :
              schedule' = [schedule EXCEPT ![x] =
                 [schedule[x] EXCEPT !.present = TRUE, !.enabled = TRUE, !.due = due]]
        BY <3>2 DEF UpdateAccount
      <4> HIDE DEF x
      <4> DEFINE q == [schedule[x] EXCEPT !.present = TRUE, !.enabled = TRUE, !.due = due]
      <4>3. q.leased = schedule[x].leased
        BY <1>p, <4>1 DEF Schedule
      <4> HIDE DEF q
      <4>4. \A y \in Schedules : schedule[y].leased => schedule'[y].leased
        BY <1>p, <4>1, <4>2, <4>3 DEF q
      <4> QED  BY <3>2, <4>4 DEF UpdateAccount
    <3>3. CASE UNCHANGED <<schedule, overrun>>
      BY <3>3
    <3> QED  BY <2>2, <3>1, <3>2, <3>3 DEF TimeStep, FleetStep, WindowOpens, SnapshotAges,
                RefreshSnapshot, OtherStart, RecoveryStep, RecoveryReserves, RecoveryCreates,
                RecoveryLinks, RecoveryStores, RecoveryFreezes, RecoveryFails, RowDeleted, history
  <2> QED  BY <1>2, <1>3, <1>4, <1>5, <1>6, <2>1, <2>2, Steps
<1>7. CASE UNCHANGED schedulerVars
  BY <1>7, <1>a DEF schedulerVars, Alone, Holds, Working
<1> QED  BY <1>1, <1>6, <1>7
-----------------------------------------------------------------------------
(* The numbers of deployments: W of those without a runner, R of those that a    *)
(* scheduler runs or has decided for.                                            *)
W(a) == Cardinality(Waiting(a, Phases))
R(a) == Cardinality(Running(a, BuildPcs))

\* As a sum over one scheduler or slot: 1 if P, 0 otherwise.
Count(P) == IF P THEN 1 ELSE 0

\* Scheduler s runs a deployment of account b.
Builds(s, b) == pass[s].pc \in BuildPcs /\ Cur(s) = b

\* Two finite sets that differ in one element at most.
LEMMA OneElement ==
    ASSUME NEW S, NEW T, NEW x, IsFiniteSet(S), S \ {x} = T \ {x}
    PROVE  /\ IsFiniteSet(T) /\ Cardinality(S) \in Nat /\ Cardinality(T) \in Nat
           /\ Cardinality(T) = Cardinality(S) - Count(x \in S) + Count(x \in T)
<1> DEFINE U == S \ {x}
<1>1. /\ IsFiniteSet(U) /\ Cardinality(U) \in Nat /\ Cardinality(S) \in Nat
      /\ Cardinality(U) = Cardinality(S) - Count(x \in S)
  <2>1. Cardinality(S) \in Nat
    BY FS_CardinalityType
  <2>2. IsFiniteSet(U) /\ Cardinality(U) = IF x \in S THEN Cardinality(S) - 1 ELSE Cardinality(S)
    BY FS_RemoveElement
  <2>3. Cardinality(U) \in Nat
    BY <2>2, FS_CardinalityType
  <2> QED  BY <2>1, <2>2, <2>3 DEF Count
<1>2. IsFiniteSet(T) /\ Cardinality(T) = Cardinality(U) + Count(x \in T)
  <2>1. CASE x \in T
    <3>1. T = U \cup {x} /\ x \notin U
      BY <2>1
    <3>2. IsFiniteSet(U \cup {x}) /\ Cardinality(U \cup {x}) = Cardinality(U) + 1
      BY <1>1, <3>1, FS_AddElement
    <3> QED  BY <2>1, <3>1, <3>2 DEF Count
  <2>2. CASE x \notin T
    <3>1. T = U
      BY <2>2
    <3> QED  BY <1>1, <2>2, <3>1 DEF Count
  <2> QED  BY <2>1, <2>2
<1>3. Cardinality(T) \in Nat
  BY <1>2, FS_CardinalityType
<1> QED  BY <1>1, <1>2, <1>3

\* A step of scheduler s changes the number of builds by its own at most.
LEMMA RunningStep ==
    ASSUME SchedulerTypeOK, NEW s \in Schedulers, \A t \in Schedulers \ {s} : Kept(t), NEW b
    PROVE  R(b) \in Nat /\ R(b)' \in Nat /\ R(b)' = R(b) - Count(Builds(s, b)) + Count(Builds(s, b)')
<1> DEFINE S == Running(b, BuildPcs)
           T == Running(b, BuildPcs)'
<1>1. IsFiniteSet(S)
  BY RunningFinite
<1>2. S \ {s} = T \ {s}
  BY DEF Running, Cur, Kept
<1>3. (s \in S <=> Builds(s, b)) /\ (s \in T <=> Builds(s, b)')
  BY DEF Running, Cur, Builds
<1> HIDE DEF S, T
<1>4. Cardinality(S) \in Nat /\ Cardinality(T) \in Nat /\
      Cardinality(T) = Cardinality(S) - Count(s \in S) + Count(s \in T)
  BY <1>1, <1>2, OneElement
<1>5. Count(s \in S) = Count(Builds(s, b)) /\ Count(s \in T) = Count(Builds(s, b)')
  BY <1>3 DEF Count
<1> QED  BY <1>4, <1>5 DEF R, S, T

LEMMA RunningKept ==
    ASSUME \A t \in Schedulers : Kept(t), NEW b
    PROVE  R(b)' = R(b)
<1>1. Running(b, BuildPcs)' = Running(b, BuildPcs)
  BY DEF Running, Cur, Kept
<1> QED  BY <1>1 DEF R

LEMMA RunningBound == \A b : R(b) \in Nat /\ R(b) <= Cardinality(Schedulers)
<1>1. \A b : Running(b, BuildPcs) \in SUBSET Schedulers
  BY DEF Running
<1> QED  BY <1>1, RunningFinite, SchedulersAssumption, FS_Subset DEF R

\* One slot changes.
LEMMA WaitingStep ==
    ASSUME SchedulerTypeOK, NEW i \in Slots, left' \in [Slots -> Left],
           \A j \in Slots \ {i} : left'[j] = left[j], NEW b
    PROVE  /\ W(b) \in Nat /\ W(b)' \in Nat
           /\ W(b)' = W(b) - Count(left[i].phase \in Phases /\ left[i].of[1] = b)
                           + Count(left'[i].phase \in Phases /\ left'[i].of[1] = b)
<1> DEFINE S == Waiting(b, Phases)
           T == Waiting(b, Phases)'
<1>1. IsFiniteSet(S)
  BY WaitingFinite
<1>2. S \ {i} = T \ {i}
  BY DEF Waiting
<1>3. /\ i \in S <=> (left[i].phase \in Phases /\ left[i].of[1] = b)
      /\ i \in T <=> (left'[i].phase \in Phases /\ left'[i].of[1] = b)
  BY DEF Waiting
<1> HIDE DEF S, T
<1>4. Cardinality(S) \in Nat /\ Cardinality(T) \in Nat /\
      Cardinality(T) = Cardinality(S) - Count(i \in S) + Count(i \in T)
  BY <1>1, <1>2, OneElement
<1>5. /\ Count(i \in S) = Count(left[i].phase \in Phases /\ left[i].of[1] = b)
      /\ Count(i \in T) = Count(left'[i].phase \in Phases /\ left'[i].of[1] = b)
  BY <1>3 DEF Count
<1> QED  BY <1>4, <1>5 DEF W, S, T

LEMMA WaitingKept ==
    ASSUME left' = left, NEW b
    PROVE  W(b)' = W(b) /\ W(b) \in Nat
BY WaitingFinite DEF W, Waiting

\* The deployment that a fault leaves is counted once, and paid for.
LEMMA LoseCounts ==
    ASSUME SchedulerTypeOK, SlotInv, NEW x \in Schedules, NEW phase \in Phases, Fault,
           Lose(x, phase), NEW b \in Accounts
    PROVE  /\ W(b) \in Nat /\ W(b)' = W(b) + Count(x[1] = b)
           /\ excess'[b].lost = excess[b].lost + Count(x[1] = b)
           /\ excess'[b].peak = excess[b].peak
<1> DEFINE k == faults + 1
<1>1. k \in Slots /\ faults' = k /\ faults \in Nat
  BY FaultType DEF SchedulerTypeOK
<1>2. left[k].phase = "none"
  BY <1>1 DEF SlotInv
<1>3. /\ left' \in [Slots -> Left] /\ left'[k].phase = phase /\ left'[k].of = x
      /\ \A j \in Slots \ {k} : left'[j] = left[j]
      /\ excess'[x[1]].peak = excess[x[1]].peak
      /\ excess'[x[1]].lost = excess[x[1]].lost + 1
      /\ \A a \in Accounts \ {x[1]} : excess'[a] = excess[a]
  BY <1>1, LoseFields
<1>4. "none" \notin Phases
  BY DEF Phases
<1>5. W(b) \in Nat /\ W(b)' = W(b) - Count(left[k].phase \in Phases /\ left[k].of[1] = b)
                                 + Count(left'[k].phase \in Phases /\ left'[k].of[1] = b)
  BY <1>1, <1>3, WaitingStep
<1>6. /\ Count(left[k].phase \in Phases /\ left[k].of[1] = b) = 0
      /\ Count(left'[k].phase \in Phases /\ left'[k].of[1] = b) = Count(x[1] = b)
  BY <1>2, <1>3, <1>4 DEF Count
<1>7. excess[b].lost \in Nat
  BY DEF SchedulerTypeOK
<1>8. /\ excess'[b].lost = excess[b].lost + Count(x[1] = b)
      /\ excess'[b].peak = excess[b].peak
  BY <1>3, <1>7 DEF Count
<1>9. Count(x[1] = b) \in Nat
  BY DEF Count
<1> QED  BY <1>5, <1>6, <1>8, <1>9
-----------------------------------------------------------------------------
(* The load of an account. *)
LoadOK(a) ==
    /\ acct[a].desired <= excess[a].peak
    /\ W(a) <= excess[a].lost
    /\ Load(a) + 1 <= excess[a].peak + excess[a].lost + Cardinality(Schedulers)

\* Nothing is counted that is not paid for.
Tame(a) ==
    /\ acct'[a].desired = acct[a].desired /\ excess'[a].peak = excess[a].peak
    /\ W(a)' + excess[a].lost <= W(a) + excess'[a].lost
    /\ rows'[a] + W(a)' + R(a)' + excess[a].lost <= rows[a] + W(a) + R(a) + excess'[a].lost

LEMMA Numbers ==
    ASSUME SchedulerTypeOK, NEW a \in Accounts
    PROVE  /\ rows[a] \in Nat /\ excess[a].peak \in Nat /\ excess[a].lost \in Nat
           /\ acct[a].desired \in Nat /\ W(a) \in Nat /\ R(a) \in Nat
           /\ Cardinality(Schedulers) \in Nat /\ 1 <= Cardinality(Schedulers)
           /\ Load(a) = rows[a] + W(a) + R(a)
<1>1. rows[a] \in Nat /\ excess[a].peak \in Nat /\ excess[a].lost \in Nat /\ acct[a] \in Account
  BY DEF SchedulerTypeOK
<1>2. acct[a].desired \in Nat
  BY <1>1, DesiredAssumption DEF Account
<1>3. Cardinality(Schedulers) \in Nat /\ Cardinality(Schedulers) # 0
  BY SchedulersAssumption, FS_CardinalityType, FS_EmptySet
<1>4. W(a) \in Nat /\ R(a) \in Nat /\ Load(a) = rows[a] + W(a) + R(a)
  BY WaitingFinite, RunningFinite DEF W, R, Load
<1> QED  BY <1>1, <1>2, <1>3, <1>4

LEMMA NumbersNext ==
    ASSUME SchedulerTypeOK', NEW a \in Accounts
    PROVE  /\ rows'[a] \in Nat /\ excess'[a].peak \in Nat /\ excess'[a].lost \in Nat
           /\ acct'[a].desired \in Nat /\ W(a)' \in Nat /\ R(a)' \in Nat
           /\ Load(a)' = rows'[a] + W(a)' + R(a)'
<1>1. rows'[a] \in Nat /\ excess'[a].peak \in Nat /\ excess'[a].lost \in Nat /\ acct'[a] \in Account
  BY DEF SchedulerTypeOK
<1>2. acct'[a].desired \in Nat
  BY <1>1, DesiredAssumption DEF Account
<1>3. Waiting(a, Phases)' \in SUBSET Slots /\ Running(a, BuildPcs)' \in SUBSET Schedulers
  BY DEF Waiting, Running
<1>4. W(a)' \in Nat /\ R(a)' \in Nat
  <2>1. IsFiniteSet(Slots)
    BY SchedulerBounds, FS_Interval DEF Slots
  <2> QED  BY <1>3, <2>1, SchedulersAssumption, FS_Subset, FS_CardinalityType DEF W, R
<1>5. Load(a)' = rows'[a] + W(a)' + R(a)'
  BY DEF W, R, Load
<1> QED  BY <1>1, <1>2, <1>4, <1>5

LEMMA TameKeeps ==
    ASSUME SchedulerTypeOK, SchedulerTypeOK', NEW a \in Accounts, LoadOK(a), Tame(a)
    PROVE  LoadOK(a)'
<1>1. /\ acct[a].desired <= excess[a].peak
      /\ W(a) <= excess[a].lost
      /\ Load(a) + 1 <= excess[a].peak + excess[a].lost + Cardinality(Schedulers)
  BY DEF LoadOK
<1> HIDE DEF W, R, Load
<1>2. /\ acct'[a].desired <= excess'[a].peak
      /\ W(a)' <= excess'[a].lost
      /\ Load(a)' + 1 <= excess'[a].peak + excess'[a].lost + Cardinality(Schedulers)
  BY <1>1, Numbers, NumbersNext DEF Tame
<1> QED  BY <1>2 DEF LoadOK

\* A decision for a build: every row has been counted, at most every other scheduler
\* runs a deployment that was not.
LEMMA DecisionKeeps ==
    ASSUME SchedulerTypeOK, SchedulerTypeOK', NEW s \in Schedulers, Evaluate(s),
           NEW b \in Accounts, LoadOK(b)
    PROVE  LoadOK(b)'
<1>1. PICK p \in PassPcs \ {"idle", "items", "evaluate"} :
          /\ Moves(s, p) /\ Working(s)
          /\ \/ p = "complete"
             \/ \E n \in {0, PreCreate(pass[s].cur)} : MayBuild(s, pass[s].cur, n)
  BY WorkMoves DEF WorkStep
<1>2. /\ UNCHANGED <<acct, left, rows, excess>> /\ pass[s].pc = "evaluate"
  BY DEF Evaluate, fleet, history
<1>3. W(b)' = W(b)
  BY <1>2, WaitingKept
<1>4. R(b)' = R(b) - Count(Builds(s, b)) + Count(Builds(s, b)')
  BY <1>1, RunningStep DEF Moves
<1>5. Count(Builds(s, b)) = 0
  BY <1>2 DEF Count, Builds, BuildPcs
<1>6. CASE ~Builds(s, b)'
  <2>1. Count(Builds(s, b)') = 0
    BY <1>6 DEF Count
  <2>2. R(b)' = R(b)
    BY <1>4, <1>5, <2>1, Numbers
  <2>3. Tame(b)
    BY <1>2, <1>3, <2>2, Numbers DEF Tame
  <2> QED  BY <2>3, TameKeeps
<1>7. CASE Builds(s, b)'
  <2>1. p # "complete" /\ Cur(s) = b
    BY <1>1, <1>7 DEF Builds, Moves, BuildPcs, Cur
  <2>2. PICK n \in {0, PreCreate(pass[s].cur)} : MayBuild(s, pass[s].cur, n)
    BY <1>1, <2>1
  <2>3. n \in Nat
    <3> DEFINE x == pass[s].cur
               A == {i \in Waiting(x[1], Phases \ {"mid"}) : left[i].of = x}
               B == {t \in Running(x[1], Phases \ {"mid"}) : pass[t].cur = x}
    <3>1. A \in SUBSET Waiting(x[1], Phases \ {"mid"}) /\ B \in SUBSET Running(x[1], Phases \ {"mid"})
      OBVIOUS
    <3>2. Cardinality(A) \in Nat /\ Cardinality(B) \in Nat
      BY <3>1, WaitingFinite, RunningFinite, FS_Subset, FS_CardinalityType
    <3>3. PreCreate(x) = Cardinality(A) + Cardinality(B)
      BY DEF PreCreate
    <3> QED  BY <3>2, <3>3
  <2>4. rows[b] + n < acct[b].desired
    BY <2>1, <2>2 DEF MayBuild, Needed, Cur
  <2>5. R(b)' <= Cardinality(Schedulers)
    <3>1. Running(b, BuildPcs)' \in SUBSET Schedulers
      BY DEF Running
    <3> QED  BY <3>1, SchedulersAssumption, FS_Subset DEF R
  <2>6. /\ acct[b].desired <= excess[b].peak
        /\ W(b) <= excess[b].lost
    BY DEF LoadOK
  <2>7. Load(b)' + 1 <= excess[b].peak + excess[b].lost + Cardinality(Schedulers)
    <3> HIDE DEF W, R, Load
    <3> QED  BY <1>2, <1>3, <2>3, <2>4, <2>5, <2>6, Numbers, NumbersNext
  <2> QED  BY <1>2, <1>3, <2>6, <2>7 DEF LoadOK
<1> QED  BY <1>6, <1>7

\* A step that no build begins with.
LEMMA BuildsEnd ==
    ASSUME SchedulerTypeOK, NEW s \in Schedulers, NEW b, \A t \in Schedulers \ {s} : Kept(t),
           pass'[s].pc \in BuildPcs => pass[s].pc \in BuildPcs /\ pass'[s].cur = pass[s].cur
    PROVE  /\ R(b) \in Nat /\ R(b)' \in Nat /\ R(b)' <= R(b)
           /\ pass[s].pc \in BuildPcs /\ pass'[s].pc \notin BuildPcs =>
                 R(b)' = R(b) - Count(Cur(s) = b)
<1>1. R(b) \in Nat /\ R(b)' \in Nat /\ R(b)' = R(b) - Count(Builds(s, b)) + Count(Builds(s, b)')
  BY RunningStep
<1>2. Builds(s, b)' => Builds(s, b)
  BY DEF Builds, Cur
<1>3. pass'[s].pc \notin BuildPcs => Count(Builds(s, b)') = 0
  BY DEF Count, Builds
<1>4. pass[s].pc \in BuildPcs => Count(Builds(s, b)) = Count(Cur(s) = b)
  BY DEF Count, Builds
<1>5. /\ Count(Builds(s, b)) \in Nat /\ Count(Builds(s, b)') \in Nat /\ Count(Cur(s) = b) \in Nat
      /\ Count(Builds(s, b)') <= Count(Builds(s, b))
  BY <1>2 DEF Count
<1> HIDE DEF R
<1> QED  BY <1>1, <1>3, <1>4, <1>5

\* A step that leaves the rows, the deployments without a runner and the desired
\* numbers alone.
LEMMA CalmTame ==
    ASSUME SchedulerTypeOK, NEW b \in Accounts, UNCHANGED <<rows, left, excess>>,
           acct'[b].desired = acct[b].desired, R(b)' <= R(b), R(b)' \in Nat
    PROVE  Tame(b)
<1>1. W(b)' = W(b)
  BY WaitingKept
<1> HIDE DEF W, R
<1>2. /\ W(b)' + excess[b].lost <= W(b) + excess'[b].lost
      /\ rows'[b] + W(b)' + R(b)' + excess[b].lost <= rows[b] + W(b) + R(b) + excess'[b].lost
  BY <1>1, Numbers
<1> QED  BY <1>2 DEF Tame

\* A build ends and leaves a deployment without a runner.
LEMMA LoseTame ==
    ASSUME SchedulerTypeOK, SlotInv, NEW x \in Schedules, NEW phase \in Phases, Fault,
           Lose(x, phase), NEW b \in Accounts, UNCHANGED <<acct, rows>>,
           R(b)' \in Nat, R(b)' <= R(b)
    PROVE  Tame(b)
<1>1. /\ W(b) \in Nat /\ W(b)' = W(b) + Count(x[1] = b)
      /\ excess'[b].lost = excess[b].lost + Count(x[1] = b)
      /\ excess'[b].peak = excess[b].peak
  BY LoseCounts
<1>2. Count(x[1] = b) \in Nat
  BY DEF Count
<1> HIDE DEF W, R
<1>3. /\ W(b)' + excess[b].lost <= W(b) + excess'[b].lost
      /\ rows'[b] + W(b)' + R(b)' + excess[b].lost <= rows[b] + W(b) + R(b) + excess'[b].lost
  BY <1>1, <1>2, Numbers
<1> QED  BY <1>1, <1>3 DEF Tame

LEMMA SchedulerTame ==
    ASSUME SchedulerTypeOK, SlotInv, NEW s \in Schedulers, NEW b \in Accounts,
           \/ ClaimDue(s) \/ Complete(s) \/ Restart(s) \/ (WorkStep(s) /\ ~Evaluate(s))
           \/ \E x \in pass[s].todo : Prepare(s, x)
    PROVE  Tame(b)
<1>p. /\ pass \in [Schedulers -> Pass] /\ pass[s].cur \in Schedules
      /\ pass[s].todo \in SUBSET Schedules /\ Cur(s) \in Accounts
  BY PassFields DEF SchedulerTypeOK, Cur
<1>b. BuildPcs = {"start", "ready", "asking", "made", "mid"}
  BY DEF BuildPcs
<1>1. CASE ClaimDue(s)
  <2>1. R(b)' <= R(b) /\ R(b)' \in Nat
    BY <1>1, <1>b, ClaimDueFields, BuildsEnd
  <2> QED  BY <1>1, <2>1, CalmTame DEF ClaimDue, fleet, history
<1>2. CASE \E x \in pass[s].todo : Prepare(s, x)
  <2>1. PICK x \in pass[s].todo : Prepare(s, x)
    BY <1>2
  <2>2. x \in Schedules /\ x[1] \in Accounts
    BY <1>p, ScheduleFields
  <2>3. R(b)' <= R(b) /\ R(b)' \in Nat
    BY <1>b, <1>p, <2>1, <2>2, PrepareFields, BuildsEnd
  <2>4. acct'[b].desired = acct[b].desired
    BY <2>1, <2>2, MaintainType DEF Prepare
  <2> QED  BY <2>1, <2>3, <2>4, CalmTame DEF Prepare, fleet, history
<1>3. CASE Complete(s)
  <2>1. R(b)' <= R(b) /\ R(b)' \in Nat
    BY <1>3, <1>b, <1>p, CompleteFields, BuildsEnd
  <2> QED  BY <1>3, <2>1, CalmTame DEF Complete, fleet
<1>4. CASE Restart(s)
  <2>1. R(b)' <= R(b) /\ R(b)' \in Nat
    BY <1>4, <1>b, <1>p, RestartFields, BuildsEnd
  <2>2. /\ Fault /\ Abandon(s) /\ UNCHANGED <<acct, rows>>
    BY <1>4 DEF Restart
  <2>3. CASE left' = left /\ excess' = excess
    BY <2>1, <2>2, <2>3, CalmTame
  <2>4. CASE \E phase \in Phases : Lose(pass[s].cur, phase)
    BY <1>p, <2>1, <2>2, <2>4, LoseTame
  <2> QED  BY <2>2, <2>3, <2>4, AbandonFields
<1>5. CASE WorkStep(s) /\ ~Evaluate(s)
  <2>1. /\ \A t \in Schedulers \ {s} : Kept(t)
        /\ pass'[s].cur = pass[s].cur
        /\ pass'[s].pc \in BuildPcs => pass[s].pc \in BuildPcs
        /\ StartRefused(s) \/ WaitResource(s) \/ StartFails(s) \/ CreateRefused(s) =>
              pass'[s].pc \notin BuildPcs
    BY <1>5, WorkMoves DEF Moves
  <2>2. R(b)' <= R(b) /\ R(b)' \in Nat
    BY <2>1, BuildsEnd
  <2>3. CASE Start(s) \/ StartRefused(s)
    <3>1. acct'[b].desired = acct[b].desired
      BY <1>p, <2>3, MaintainType DEF Start, StartRefused
    <3> QED  BY <2>2, <2>3, <3>1, CalmTame DEF Start, StartRefused, fleet, history
  <2>4. CASE Advance(s) \/ StartSucceeds(s)
    BY <2>2, <2>4, CalmTame DEF Advance, StartSucceeds, fleet, history
  <2>5. CASE WaitResource(s)
    <3>1. R(b) \in Nat /\ R(b)' = R(b) - Count(Cur(s) = b)
      BY <1>b, <2>1, <2>5, BuildsEnd DEF WaitResource
    <3>2. rows'[b] = rows[b] + Count(Cur(s) = b)
      BY <1>p, <2>5 DEF WaitResource, SchedulerTypeOK, Count
    <3>3. W(b)' = W(b) /\ UNCHANGED <<acct, excess>>
      BY <2>5, WaitingKept DEF WaitResource, history
    <3>4. Count(Cur(s) = b) \in Nat
      BY DEF Count
    <3> HIDE DEF W, R
    <3>5. /\ W(b)' + excess[b].lost <= W(b) + excess'[b].lost
          /\ rows'[b] + W(b)' + R(b)' + excess[b].lost <= rows[b] + W(b) + R(b) + excess'[b].lost
      BY <3>1, <3>2, <3>3, <3>4, Numbers
    <3> QED  BY <3>3, <3>5 DEF Tame
  <2>6. CASE StartFails(s)
    <3>1. Fault /\ Abandon(s) /\ UNCHANGED <<acct, rows>>
      BY <2>6 DEF StartFails
    <3>2. CASE left' = left /\ excess' = excess
      BY <2>2, <3>1, <3>2, CalmTame
    <3>3. CASE \E phase \in Phases : Lose(pass[s].cur, phase)
      BY <1>p, <2>2, <3>1, <3>3, LoseTame
    <3> QED  BY <3>1, <3>2, <3>3, AbandonFields
  <2>7. CASE CreateRefused(s)
    BY <1>p, <2>2, <2>7, LoseTame DEF CreateRefused, Phases
  <2> QED  BY <1>5, <2>3, <2>4, <2>5, <2>6, <2>7 DEF WorkStep
<1> QED  BY <1>1, <1>2, <1>3, <1>4, <1>5

LEMMA RecoveryTame ==
    ASSUME SchedulerTypeOK, NEW i \in Slots, RecoveryStep(i) \/ RecoveryFails(i), NEW b \in Accounts
    PROVE  Tame(b)
<1> DEFINE c == Count(left[i].of[1] = b)
<1>1. R(b)' = R(b) /\ UNCHANGED <<acct, excess>>
  <2>1. UNCHANGED <<acct, excess, pass>>
    BY DEF RecoveryStep, RecoveryReserves, RecoveryCreates, RecoveryLinks, RecoveryStores,
           RecoveryFreezes, RecoveryFails, history
  <2> QED  BY <2>1, RunningKept DEF Kept
<1>2. left[i].phase \in Phases /\ left[i].of[1] \in Accounts
  <2>1. left[i].of \in Schedules
    BY DEF SchedulerTypeOK, Left
  <2> QED  BY <2>1, ScheduleFields DEF RecoveryStep, RecoveryReserves, RecoveryCreates, RecoveryLinks,
              RecoveryStores, RecoveryFreezes, RecoveryFails, Phases
<1>c. c \in Nat
  BY DEF Count
<1>3. ASSUME NEW phase \in Phases \cup {"none"}, SetPhase(i, phase)
      PROVE  W(b) \in Nat /\ W(b)' = W(b) - c + (IF phase = "none" THEN 0 ELSE c)
  <2>1. /\ left' \in [Slots -> Left] /\ left'[i].phase = phase /\ left'[i].of = left[i].of
        /\ \A j \in Slots \ {i} : left'[j] = left[j]
    BY <1>3, SetPhaseFields
  <2>2. /\ W(b) \in Nat
        /\ W(b)' = W(b) - Count(left[i].phase \in Phases /\ left[i].of[1] = b)
                        + Count(left'[i].phase \in Phases /\ left'[i].of[1] = b)
    BY <2>1, WaitingStep
  <2>3. Count(left[i].phase \in Phases /\ left[i].of[1] = b) = c
    BY <1>2 DEF Count
  <2>4. Count(left'[i].phase \in Phases /\ left'[i].of[1] = b) = IF phase = "none" THEN 0 ELSE c
    BY <2>1 DEF Count, Phases
  <2> HIDE DEF W, c
  <2> QED  BY <1>c, <2>2, <2>3, <2>4
<1>4. CASE RecoveryStores(i)
  <2>1. W(b) \in Nat /\ W(b)' = W(b) - c
    <3>1. SetPhase(i, "none")
      BY <1>4 DEF RecoveryStores
    <3>2. W(b) \in Nat /\ W(b)' = W(b) - c + 0
      BY <1>3, <3>1
    <3> HIDE DEF W, c
    <3> QED  BY <1>c, <3>2
  <2>2. rows'[b] = rows[b] + c
    BY <1>2, <1>4 DEF RecoveryStores, SchedulerTypeOK, Count
  <2> HIDE DEF W, R, c
  <2>3. /\ W(b)' + excess[b].lost <= W(b) + excess'[b].lost
        /\ rows'[b] + W(b)' + R(b)' + excess[b].lost <= rows[b] + W(b) + R(b) + excess'[b].lost
    BY <1>1, <1>c, <2>1, <2>2, Numbers
  <2> QED  BY <1>1, <2>3 DEF Tame
<1>5. CASE ~RecoveryStores(i)
  <2>1. rows' = rows /\ \E phase \in Phases \cup {"none"} : SetPhase(i, phase)
    BY <1>5 DEF RecoveryStep, RecoveryReserves, RecoveryCreates, RecoveryLinks,
                RecoveryFreezes, RecoveryFails, Phases
  <2>2. W(b)' \in Int /\ W(b)' <= W(b)
    <3> HIDE DEF W, c
    <3> QED  BY <1>3, <1>c, <2>1
  <2> HIDE DEF W, R, c
  <2>3. /\ W(b)' + excess[b].lost <= W(b) + excess'[b].lost
        /\ rows'[b] + W(b)' + R(b)' + excess[b].lost <= rows[b] + W(b) + R(b) + excess'[b].lost
    BY <1>1, <2>1, <2>2, Numbers
  <2> QED  BY <1>1, <2>3 DEF Tame
<1> QED  BY <1>4, <1>5

LEMMA OtherTame ==
    ASSUME SchedulerTypeOK, SlotInv, NEW x \in Schedules, OtherStart(x), NEW b \in Accounts
    PROVE  Tame(b)
<1>1. R(b)' = R(b) /\ R(b) \in Nat
  BY RunningKept, RunningBound DEF OtherStart, Kept
<1>2. PICK phase \in Phases : Lose(x, phase)
  BY DEF OtherStart, Phases
<1> QED  BY <1>1, <1>2, LoseTame DEF OtherStart

LEMMA TimeTame ==
    ASSUME SchedulerTypeOK, TimeStep, NEW b \in Accounts
    PROVE  Tame(b)
<1>1. UNCHANGED <<acct, rows, left, excess>>
  BY DEF TimeStep, BecomesDue, LeaseExpires, UpsertSchedule, WindowOpens, SnapshotAges,
         RefreshSnapshot, fleet, history
<1>2. R(b)' = R(b) /\ R(b) \in Nat
  BY RunningKept, RunningBound, OthersKeep
<1> QED  BY <1>1, <1>2, CalmTame

\* A deletion takes a row away, or counts the excess of a quiet account anew.
LEMMA RowKeeps ==
    ASSUME SchedulerTypeOK, SchedulerTypeOK', NEW a \in Accounts, RowDeleted(a),
           NEW b \in Accounts, LoadOK(b)
    PROVE  LoadOK(b)'
<1>1. UNCHANGED <<acct, left, pass>>
  BY DEF RowDeleted
<1>2. R(b)' = R(b) /\ W(b)' = W(b)
  BY <1>1, RunningKept, WaitingKept DEF Kept
<1>3. rows'[b] <= rows[b] /\ (a = b => rows'[b] = rows[b] - 1)
  BY DEF RowDeleted, SchedulerTypeOK
<1>4. CASE excess'[b] = excess[b]
  <2>1. Tame(b)
    <3> HIDE DEF W, R
    <3>1. /\ W(b)' + excess[b].lost <= W(b) + excess'[b].lost
          /\ rows'[b] + W(b)' + R(b)' + excess[b].lost <= rows[b] + W(b) + R(b) + excess'[b].lost
      BY <1>2, <1>3, <1>4, Numbers, NumbersNext
    <3> QED  BY <1>1, <1>4, <3>1 DEF Tame
  <2> QED  BY <2>1, TameKeeps
<1>5. CASE excess'[b] # excess[b]
  <2>1. /\ a = b /\ Quiet(b) /\ rows[b] <= acct[b].desired + 1
        /\ excess'[b].peak = acct[b].desired /\ excess'[b].lost = 0
    BY <1>5 DEF RowDeleted, SchedulerTypeOK
  <2>2. W(b) = 0 /\ R(b) = 0
    <3>1. Waiting(b, Phases) = {} /\ Running(b, BuildPcs) = {}
      BY <2>1 DEF Quiet, Running, BuildPcs, PassPcs
    <3> QED  BY <3>1, FS_EmptySet DEF W, R
  <2>3. Load(b)' + 1 <= acct[b].desired + 0 + Cardinality(Schedulers)
    <3> HIDE DEF W, R, Load
    <3> QED  BY <1>2, <1>3, <2>1, <2>2, Numbers, NumbersNext
  <2> HIDE DEF W, R, Load
  <2>4. /\ acct'[b].desired <= excess'[b].peak
        /\ W(b)' <= excess'[b].lost
        /\ Load(b)' + 1 <= excess'[b].peak + excess'[b].lost + Cardinality(Schedulers)
    BY <1>1, <1>2, <2>1, <2>2, <2>3, Numbers
  <2> QED  BY <2>4 DEF LoadOK
<1> QED  BY <1>4, <1>5

LEMMA UpdateKeeps ==
    ASSUME SchedulerTypeOK, SchedulerTypeOK', NEW a \in Accounts, UpdateAccount(a),
           NEW b \in Accounts, LoadOK(b)
    PROVE  LoadOK(b)'
<1>1. PICK n \in DesiredCounts : /\ acct' = [acct EXCEPT ![a].desired = n]
                                 /\ excess' = [excess EXCEPT ![a].peak = Larger(@, n)]
  BY DEF UpdateAccount
<1>2. R(b)' = R(b) /\ W(b)' = W(b) /\ rows' = rows
  <2>1. \A t \in Schedulers : Kept(t)
    BY FlagFields DEF SchedulerTypeOK
  <2> QED  BY <2>1, RunningKept, WaitingKept DEF UpdateAccount, fleet
<1>3. n \in Nat
  BY DesiredAssumption
<1>4. CASE a # b
  <2>1. acct'[b] = acct[b] /\ excess'[b] = excess[b]
    BY <1>1, <1>4 DEF SchedulerTypeOK
  <2> QED  BY <1>2, <2>1 DEF LoadOK, W, R, Load
<1>5. CASE a = b
  <2>1. /\ acct'[b].desired = n /\ excess'[b].lost = excess[b].lost
        /\ excess'[b].peak = Larger(excess[b].peak, n)
    BY <1>1, <1>5 DEF SchedulerTypeOK, Account
  <2>2. n <= Larger(excess[b].peak, n) /\ excess[b].peak <= Larger(excess[b].peak, n)
    BY <1>3, Numbers DEF Larger
  <2>3. /\ W(b) <= excess[b].lost
        /\ Load(b) + 1 <= excess[b].peak + excess[b].lost + Cardinality(Schedulers)
    BY DEF LoadOK
  <2> HIDE DEF W, R, Load
  <2>4. /\ acct'[b].desired <= excess'[b].peak
        /\ W(b)' <= excess'[b].lost
        /\ Load(b)' + 1 <= excess'[b].peak + excess'[b].lost + Cardinality(Schedulers)
    BY <1>2, <1>3, <2>1, <2>2, <2>3, Numbers, NumbersNext
  <2> QED  BY <2>4 DEF LoadOK
<1> QED  BY <1>4, <1>5

LEMMA LoadStep ==
    ASSUME SchedulerTypeOK, SlotInv, LoadInv, [SchedulerNext]_schedulerVars
    PROVE  LoadInv'
<1>t. SchedulerTypeOK'
  BY TypeStep
<1>1. ASSUME NEW b \in Accounts PROVE LoadOK(b)'
  <2>1. LoadOK(b)
    BY DEF LoadInv, LoadOK, W
  <2>2. CASE \E s \in Schedulers : Evaluate(s)
    BY <1>t, <2>1, <2>2, DecisionKeeps
  <2>3. CASE \E a \in Accounts : RowDeleted(a)
    BY <1>t, <2>1, <2>3, RowKeeps
  <2>4. CASE \E a \in Accounts : UpdateAccount(a)
    BY <1>t, <2>1, <2>4, UpdateKeeps
  <2>5. CASE UNCHANGED schedulerVars
    BY <2>1, <2>5 DEF LoadOK, schedulerVars, W, Load, Waiting, Running, Cur
  <2>6. CASE /\ SchedulerNext /\ \A s \in Schedulers : ~Evaluate(s)
             /\ \A a \in Accounts : ~RowDeleted(a) /\ ~UpdateAccount(a)
    <3>1. Tame(b)
      BY <2>6, Steps, SchedulerTame, RecoveryTame, OtherTame, TimeTame DEF FleetStep
    <3> QED  BY <1>t, <2>1, <3>1, TameKeeps
  <2> QED  BY <2>2, <2>3, <2>4, <2>5, <2>6
<1> QED  BY <1>1 DEF LoadInv, LoadOK, W

LEMMA SlotStep ==
    ASSUME SchedulerTypeOK, SlotInv, [SchedulerNext]_schedulerVars
    PROVE  SlotInv'
<1>f. /\ faults \in Nat /\ (Fault => faults' = faults + 1 /\ faults' \in Slots)
      /\ (NoFault => faults' = faults)
  BY FaultType DEF SchedulerTypeOK
<1>1. ASSUME NEW x \in Schedules, NEW phase \in Phases, Fault, Lose(x, phase) PROVE SlotInv'
  <2>1. \A i \in Slots \ {faults'} : left'[i] = left[i]
    BY <1>1, LoseFields
  <2>2. faults' = faults + 1
    BY <1>1, <1>f
  <2> QED  BY <1>f, <2>1, <2>2 DEF SlotInv, Slots
<1>2. ASSUME left' = left, faults' = faults \/ Fault PROVE SlotInv'
  <2>1. faults' \in Nat /\ faults <= faults'
    BY <1>f, <1>2
  <2> QED  BY <1>f, <1>2, <2>1 DEF SlotInv, Slots
<1>3. ASSUME NEW s \in Schedulers, Fault, Abandon(s) PROVE SlotInv'
  <2>1. pass[s].cur \in Schedules
    BY PassFields DEF SchedulerTypeOK
  <2> QED  BY <1>1, <1>2, <1>3, <2>1, AbandonFields
<1>4. ASSUME NEW s \in Schedulers, WorkStep(s) PROVE SlotInv'
  <2>1. pass[s].cur \in Schedules /\ "refused" \in Phases
    BY PassFields DEF SchedulerTypeOK, Phases
  <2>2. CASE StartFails(s)
    BY <1>3, <2>2 DEF StartFails
  <2>3. CASE CreateRefused(s)
    BY <1>1, <2>1, <2>3 DEF CreateRefused
  <2> QED  BY <1>2, <1>f, <1>4, <2>2, <2>3 DEF WorkStep, Evaluate, Start, StartRefused, Advance,
              WaitResource, StartSucceeds, fleet
<1>5. ASSUME NEW i \in Slots, RecoveryStep(i) \/ RecoveryFails(i) PROVE SlotInv'
  <2>1. /\ left[i].phase # "none"
        /\ \E phase \in Phases \cup {"none"} : SetPhase(i, phase)
        /\ faults' = faults \/ Fault
    BY <1>5 DEF RecoveryStep, RecoveryReserves, RecoveryCreates, RecoveryLinks, RecoveryStores,
                RecoveryFreezes, RecoveryFails, Phases
  <2>2. \A j \in Slots \ {i} : left'[j] = left[j]
    BY <2>1, SetPhaseFields
  <2>3. faults' \in Nat /\ faults <= faults'
    BY <1>f, <2>1
  <2> QED  BY <1>f, <2>1, <2>2, <2>3 DEF SlotInv, Slots
<1>6. ASSUME NEW x \in Schedules, OtherStart(x) PROVE SlotInv'
  BY <1>1, <1>6 DEF OtherStart, Phases
<1>7. CASE UNCHANGED schedulerVars
  BY <1>2, <1>7 DEF schedulerVars
<1>8. ASSUME NEW s \in Schedulers,
             ClaimDue(s) \/ Complete(s) \/ Restart(s) \/ \E x \in pass[s].todo : Prepare(s, x)
      PROVE  SlotInv'
  BY <1>2, <1>3, <1>f, <1>8 DEF ClaimDue, Complete, Restart, Prepare, fleet
<1>9. CASE TimeStep
  BY <1>2, <1>f, <1>9 DEF TimeStep, BecomesDue, LeaseExpires, UpsertSchedule, WindowOpens,
         SnapshotAges, RefreshSnapshot, fleet
<1>10. ASSUME NEW a \in Accounts, RowDeleted(a) \/ UpdateAccount(a) PROVE SlotInv'
  BY <1>2, <1>f, <1>10 DEF RowDeleted, UpdateAccount, fleet
<1> QED  BY <1>4, <1>5, <1>6, <1>7, <1>8, <1>9, <1>10, Steps DEF FleetStep
-----------------------------------------------------------------------------
LEMMA InvInit == SchedulerInit => SchedulerInv
<1> SUFFICES ASSUME SchedulerInit PROVE SchedulerInv
  OBVIOUS
<1>1. SchedulerTypeOK
  BY TypeInit
<1>2. \A s \in Schedulers : pass[s].pc = "idle" /\ pass[s].todo = {}
  BY DEF SchedulerInit, IdlePass
<1>3. TodoInv
  BY <1>2 DEF TodoInv, Working
<1>4. LeaseInv
  BY <1>2 DEF LeaseInv, Holders, Working
<1>5. SlotInv
  BY DEF SchedulerInit, SlotInv
<1>6. ASSUME NEW a \in Accounts PROVE LoadOK(a)
  <2>1. Waiting(a, Phases) = {} /\ Running(a, BuildPcs) = {}
    BY <1>2 DEF SchedulerInit, Waiting, Running, Phases, BuildPcs
  <2>2. W(a) = 0 /\ R(a) = 0
    BY <2>1, FS_EmptySet DEF W, R
  <2>3. rows[a] = 0 /\ excess[a].peak = acct[a].desired /\ excess[a].lost = 0
    BY DEF SchedulerInit
  <2> HIDE DEF W, R, Load
  <2>4. /\ acct[a].desired <= excess[a].peak
        /\ W(a) <= excess[a].lost
        /\ Load(a) + 1 <= excess[a].peak + excess[a].lost + Cardinality(Schedulers)
    BY <1>1, <2>2, <2>3, Numbers
  <2> QED  BY <2>4 DEF LoadOK
<1>7. LoadInv
  BY <1>6 DEF LoadInv, LoadOK, W
<1> QED  BY <1>1, <1>3, <1>4, <1>5, <1>7 DEF SchedulerInv

LEMMA InvStep == SchedulerInv /\ [SchedulerNext]_schedulerVars => SchedulerInv'
BY TypeStep, TodoStep, LeaseStep, SlotStep, LoadStep DEF SchedulerInv

LEMMA SchedulerInvariant == SchedulerSpec => []SchedulerInv
BY InvInit, InvStep, PTL DEF SchedulerSpec

\* A set whose elements are all the same has one element at most.
LEMMA AtMostOne ==
    ASSUME NEW S, \A x, y \in S : x = y
    PROVE  Cardinality(S) <= 1
<1>1. CASE S = {}
  BY <1>1, FS_EmptySet
<1>2. CASE S # {}
  <2>1. PICK x : S = {x}
    BY <1>2
  <2> QED  BY <2>1, FS_Singleton
<1> QED  BY <1>1, <1>2

\* ClaimDue takes only schedules without a lease: as long as no lease runs out under
\* its holder, two schedulers never work on the same schedule.
THEOREM OneHolder == SchedulerSpec => []LeaseExcludes
<1>1. SchedulerInv => LeaseExcludes
  BY AtMostOne DEF SchedulerInv, LeaseInv, LeaseExcludes
<1> QED  BY <1>1, SchedulerInvariant, PTL

\* For any accounts, profiles and number of schedulers, and whatever leases run out:
\* the decision for a build counts every row, so what is there besides the desired
\* servers either lost its runner or is run by another scheduler.
THEOREM OvershootBound == SchedulerSpec => []OvershootIsBounded
<1>1. SchedulerInv => OvershootIsBounded
  <2> SUFFICES ASSUME SchedulerInv, NEW a \in Accounts
               PROVE  Servers(a) + 1 <= excess[a].peak + excess[a].lost + Cardinality(Schedulers)
    BY DEF OvershootIsBounded
  <2>1. SchedulerTypeOK /\ Load(a) + 1 <= excess[a].peak + excess[a].lost + Cardinality(Schedulers)
    BY DEF SchedulerInv, LoadInv
  <2>2. Running(a, Phases) \subseteq Running(a, BuildPcs)
    BY DEF Running, Phases, BuildPcs, SchedulerInv, SchedulerTypeOK, Pass, PassPcs
  <2>3. Cardinality(Running(a, Phases)) <= R(a) /\ Cardinality(Running(a, Phases)) \in Nat
    BY <2>2, RunningFinite, FS_Subset DEF R
  <2>4. Servers(a) = rows[a] + (W(a) + Cardinality(Running(a, Phases)))
    BY DEF Servers, Deployments, W
  <2> HIDE DEF W, R, Load
  <2> QED  BY <2>1, <2>3, <2>4, Numbers
<1> QED  BY <1>1, SchedulerInvariant, PTL
=============================================================================
