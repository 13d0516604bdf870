------------------------ MODULE NetworkIdentityProofs ------------------------
(***************************************************************************)
(* Proofs about NetworkIdentity, for any number of accounts, proxies, exit  *)
(* addresses and runners, any overlap of runs on an account, and any bound  *)
(* on the disturbances.                                                    *)
(***************************************************************************)
EXTENDS NetworkIdentity, TLAPS

-----------------------------------------------------------------------------
(* Records. *)
LEMMA RowFields ==
    ASSUME NEW i \in Row
    PROVE  /\ i.session \in Exits \cup {NULL} /\ i.exit \in Exits \cup {NULL}
           /\ i.fallback \in BOOLEAN /\ i.rotation \in Windows
BY DEF Row

LEMMA RunFields ==
    ASSUME NEW x \in Run
    PROVE  /\ x.pc \in RunPcs /\ x.acct \in Accounts \cup {NULL} /\ x.session \in Exits \cup {NULL}
           /\ x.fallback \in BOOLEAN /\ x.started \in Windows /\ x.exit \in Exits \cup {NULL}
BY DEF Run

LEMMA IdleRunType == IdleRun \in Run /\ IdleRun.pc = "idle" /\ IdleRun.acct = NULL
BY DEF IdleRun, Run, RunPcs, Windows

LEMMA EmptyRowType == EmptyRow \in Row
BY DEF EmptyRow, Row, Windows

LEMMA ClearedRow == ASSUME NEW i \in Row PROVE Cleared(i) \in Row
<1>1. PICK q : q = Cleared(i)
  OBVIOUS
<1>2. q = [session |-> NULL, exit |-> i.exit, fallback |-> FALSE, rotation |-> "none"]
  BY <1>1 DEF Cleared, Row
<1>3. q \in Row
  BY <1>2, RowFields DEF Row, Windows
<1> QED  BY <1>1, <1>3

\* What the other writes make of a row.
LEMMA RowWrites ==
    ASSUME NEW i \in Row, NEW e \in Exits \cup {NULL}
    PROVE  /\ [i EXCEPT !.session = e] \in Row
           /\ [i EXCEPT !.exit = e] \in Row
           /\ [i EXCEPT !.rotation = "open"] \in Row /\ [i EXCEPT !.rotation = "over"] \in Row
           /\ [i EXCEPT !.rotation = "none", !.fallback = FALSE] \in Row
<1>1. [i EXCEPT !.session = e] \in Row
  BY DEF Row
<1>2. [i EXCEPT !.exit = e] \in Row
  BY DEF Row
<1>3. [i EXCEPT !.rotation = "open"] \in Row
  BY DEF Row, Windows
<1>4. [i EXCEPT !.rotation = "over"] \in Row
  BY DEF Row, Windows
<1>5. [i EXCEPT !.rotation = "none", !.fallback = FALSE] \in Row
  <2>1. PICK q : q = [i EXCEPT !.rotation = "none", !.fallback = FALSE]
    OBVIOUS
  <2>2. q = [session |-> i.session, exit |-> i.exit, fallback |-> FALSE, rotation |-> "none"]
    BY <2>1 DEF Row
  <2>3. q \in Row
    BY <2>2, RowFields DEF Row, Windows
  <2> QED  BY <2>1, <2>3
<1> QED  BY <1>1, <1>2, <1>3, <1>4, <1>5

\* A row that is stored as a whole.
LEMMA StoredRow ==
    ASSUME NEW s \in Exits \cup {NULL}, NEW e \in Exits \cup {NULL}, NEW f \in BOOLEAN, NEW q,
           q = [session |-> s, exit |-> e, fallback |-> f, rotation |-> "none"]
    PROVE  q \in Row /\ q.fallback = f /\ q.exit = e
BY DEF Row, Windows

LEMMA StoredGenericRow ==
    ASSUME NEW e \in Exits \cup {NULL}, NEW q, q = [EmptyRow EXCEPT !.exit = e]
    PROVE  q \in Row
<1>1. q = [session |-> NULL, exit |-> e, fallback |-> FALSE, rotation |-> "none"]
  BY DEF EmptyRow
<1> QED  BY <1>1, StoredRow

LEMMA SetRowFields ==
    ASSUME row \in [Accounts -> Row], NEW a \in Accounts, NEW i \in Row, SetRow(a, i)
    PROVE  /\ row' \in [Accounts -> Row] /\ row'[a] = i
           /\ \A b \in Accounts \ {a} : row'[b] = row[b]
BY DEF SetRow

\* The runs.
LEMMA EndsFields ==
    ASSUME run \in [Runners -> Run], NEW r \in Runners, Ends(r)
    PROVE  /\ run' \in [Runners -> Run] /\ run'[r].pc = "idle" /\ run'[r].acct = NULL
           /\ \A q \in Runners \ {r} : run'[q] = run[q]
BY IdleRunType DEF Ends

LEMMA GoesFields ==
    ASSUME run \in [Runners -> Run], NEW r \in Runners, NEW pc \in RunPcs,
           NEW e \in Exits \cup {NULL}, Goes(r, pc, e)
    PROVE  /\ run' \in [Runners -> Run] /\ run'[r].pc = pc /\ run'[r].acct = run[r].acct
           /\ run'[r].exit = e
           /\ \A q \in Runners \ {r} : run'[q] = run[q]
<1>1. PICK x : x = [IdleRun EXCEPT !.pc = pc, !.acct = run[r].acct, !.exit = e]
  OBVIOUS
<1>2. x = [pc |-> pc, acct |-> run[r].acct, session |-> NULL, fallback |-> FALSE,
           started |-> "none", exit |-> e]
  BY <1>1 DEF IdleRun
<1>3. run[r].acct \in Accounts \cup {NULL}
  BY RunFields
<1>4. x \in Run /\ x.pc = pc /\ x.acct = run[r].acct /\ x.exit = e
  BY <1>2, <1>3 DEF Run, Windows
<1>5. run' = [run EXCEPT ![r] = x]
  BY <1>1 DEF Goes
<1> QED  BY <1>4, <1>5

-----------------------------------------------------------------------------
(* A step of run r on account a, and how r is left by it.  The other runs and   *)
(* the rows of the other accounts stay.                                        *)
Frame(r, a) ==
    /\ row' \in [Accounts -> Row] /\ \A b \in Accounts \ {a} : row'[b] = row[b]
    /\ run' \in [Runners -> Run] /\ \A q \in Runners \ {r} : run'[q] = run[q]
    /\ \/ run'[r].pc = "idle" /\ run'[r].acct = NULL
       \/ run'[r].pc # "idle" /\ run'[r].acct = a
Tables ==
    /\ profile' \in [Accounts -> Proxies \cup {NULL}] /\ healthy' \subseteq Proxies
    /\ status' \in [Accounts -> Statuses] /\ events' \in 0..MaxEvents
\* Run r has told itself what to store, or stored it as it had told.
Sound(r, a) ==
    /\ Promise(r)'
    /\ run[r].pc # "ready" /\ run'[r].pc = "ready" /\ a \in Targeted /\ row'[a].exit \notin Preferred
          => row'[a].fallback

LEMMA TypeParts ==
    ASSUME IdentityTypeOK
    PROVE  /\ profile \in [Accounts -> Proxies \cup {NULL}] /\ healthy \subseteq Proxies
           /\ row \in [Accounts -> Row] /\ status \in [Accounts -> Statuses]
           /\ run \in [Runners -> Run] /\ events \in 0..MaxEvents
           /\ \A a \in Accounts : row[a] \in Row
           /\ \A r \in Runners : run[r] \in Run
BY DEF IdentityTypeOK

LEMMA TablesKept ==
    ASSUME IdentityTypeOK
    PROVE  /\ UNCHANGED <<profile, healthy, status, events>> => Tables
           /\ UNCHANGED <<profile, healthy, status>> /\ Event => Tables
           /\ \A a \in Accounts, x \in Statuses :
                 UNCHANGED <<profile, healthy, events>> /\ SetStatus(a, x) => Tables
<1>1. events \in 0..MaxEvents /\ MaxEvents \in Nat
  BY TypeParts, IdentityConstants
<1>2. Event => events' \in 0..MaxEvents
  BY <1>1 DEF Event
<1> QED  BY <1>1, <1>2, TypeParts DEF Tables, SetStatus

\* A run that goes on to a pc without a promise.
LEMMA Harmless ==
    ASSUME NEW r \in Runners, NEW a \in Accounts,
           run'[r].pc \in RunPcs \ {"storeRotated", "storePreferred", "ready"}
    PROVE  Sound(r, a)
BY DEF Sound, Promise

-----------------------------------------------------------------------------
(* The beginning of a run. *)
LEMMA BeginStep ==
    ASSUME IdentityTypeOK, RunInv, NEW r \in Runners, NEW a \in Accounts,
           BeginRun(r, a) \/ BeginRefresh(r, a)
    PROVE  Frame(r, a) /\ Tables /\ Sound(r, a)
<1>t. row \in [Accounts -> Row] /\ run \in [Runners -> Run] /\ row[a] \in Row /\ run[r] \in Run
  BY TypeParts
<1>i. run[r].pc = "idle" /\ run[r].acct = NULL
  BY DEF BeginRun, BeginRefresh, BeginCollides, BeginGeneric, BeginSticky, Selected, RunInv
<1>1. CASE BeginCollides(r, a)
  <2>1. ClearGeneric(a) \in Row
    BY <1>t, ClearedRow DEF ClearGeneric
  <2>2. Frame(r, a) /\ run'[r].pc = "idle"
    BY <1>1, <1>t, <1>i, <2>1, SetRowFields DEF BeginCollides, Frame
  <2>3. Tables
    BY <1>1, TablesKept DEF BeginCollides
  <2> QED  BY <2>2, <2>3, Harmless DEF RunPcs
<1>2. CASE BeginGeneric(r, a)
  <2>1. Cleared(row[a]) \in Row /\ SetRow(a, Cleared(row[a]))
    BY <1>2, <1>t, ClearedRow DEF BeginGeneric
  <2>2. /\ run' \in [Runners -> Run] /\ \A q \in Runners \ {r} : run'[q] = run[q]
        /\ \/ run'[r].pc = "idle" /\ run'[r].acct = NULL
           \/ run'[r].pc = "generic" /\ run'[r].acct = a
    <3>1. CASE run' = run
      BY <1>t, <1>i, <3>1
    <3>2. CASE run' = [run EXCEPT ![r].pc = "generic", ![r].acct = a]
      <4>1. run'[r] = [run[r] EXCEPT !.pc = "generic", !.acct = a]
        BY <1>t, <3>2
      <4>2. run'[r] \in Run /\ run'[r].pc = "generic" /\ run'[r].acct = a
        BY <1>t, <4>1 DEF Run, RunPcs
      <4>3. run' = [q \in Runners |-> run'[q]] /\ \A q \in Runners \ {r} : run'[q] = run[q]
        BY <1>t, <3>2
      <4> QED  BY <1>t, <4>2, <4>3
    <3> QED  BY <1>2, <3>1, <3>2 DEF BeginGeneric
  <2>3. Frame(r, a)
    BY <1>t, <2>1, <2>2, SetRowFields DEF Frame
  <2>4. Tables
    BY <1>2, TablesKept DEF BeginGeneric
  <2> QED  BY <2>2, <2>3, <2>4, Harmless DEF RunPcs
<1>3. CASE BeginSticky(r, a)
  <2>1. PICK e \in Exits \cup {NULL} :
           /\ SetRow(a, [row[a] EXCEPT !.session = e])
           /\ run' = IF profile[a] \in healthy
                     THEN [run EXCEPT ![r] =
                             [pc |-> "probe", acct |-> a, session |-> e, exit |-> NULL,
                              fallback |-> row[a].fallback, started |-> row[a].rotation]]
                     ELSE run
    BY <1>3, <1>t, RowFields DEF BeginSticky
  <2>2. [row[a] EXCEPT !.session = e] \in Row
    BY <1>t, RowWrites
  <2>3. /\ run' \in [Runners -> Run] /\ \A q \in Runners \ {r} : run'[q] = run[q]
        /\ \/ run'[r].pc = "idle" /\ run'[r].acct = NULL
           \/ run'[r].pc = "probe" /\ run'[r].acct = a
    <3>1. CASE run' = run
      BY <1>t, <1>i, <3>1
    <3>2. CASE run' = [run EXCEPT ![r] =
                         [pc |-> "probe", acct |-> a, session |-> e, exit |-> NULL,
                          fallback |-> row[a].fallback, started |-> row[a].rotation]]
      <4>1. PICK x : x = [pc |-> "probe", acct |-> a, session |-> e, exit |-> NULL,
                          fallback |-> row[a].fallback, started |-> row[a].rotation]
        OBVIOUS
      <4>2. x \in Run /\ x.pc = "probe" /\ x.acct = a
        BY <1>t, <4>1, RowFields DEF Run, RunPcs
      <4>3. run' = [run EXCEPT ![r] = x]
        BY <3>2, <4>1
      <4> QED  BY <1>t, <4>2, <4>3
    <3> QED  BY <2>1, <3>1, <3>2
  <2>4. Frame(r, a)
    BY <1>t, <2>1, <2>2, <2>3, SetRowFields DEF Frame
  <2>5. Tables
    BY <1>3, TablesKept DEF BeginSticky
  <2> QED  BY <2>3, <2>4, <2>5, Harmless DEF RunPcs
<1>4. CASE BeginRefresh(r, a)
  <2>1. run'[r] = [run[r] EXCEPT !.pc = "refresh", !.acct = a]
    BY <1>4, <1>t DEF BeginRefresh
  <2>2. run'[r] \in Run /\ run'[r].pc = "refresh" /\ run'[r].acct = a
    BY <1>t, <2>1 DEF Run, RunPcs
  <2>3. /\ run' = [q \in Runners |-> run'[q]] /\ \A q \in Runners \ {r} : run'[q] = run[q]
        /\ row' = row
    BY <1>4, <1>t DEF BeginRefresh
  <2>4. Frame(r, a)
    BY <1>t, <2>2, <2>3 DEF Frame
  <2>5. Tables
    BY <1>4, TablesKept DEF BeginRefresh
  <2> QED  BY <2>2, <2>4, <2>5, Harmless DEF RunPcs
<1> QED  BY <1>1, <1>2, <1>3, <1>4 DEF BeginRun

-----------------------------------------------------------------------------
(* The steps of a run under way. *)
LEMMA RunStepFrame ==
    ASSUME IdentityTypeOK, RunInv, NEW r \in Runners, NEW a \in Accounts, a = run[r].acct,
           RunStep(r) \/ Abandon(r)
    PROVE  Frame(r, a) /\ Tables /\ (Promise(r) => Sound(r, a))
<1> DEFINE G == Frame(r, a) /\ Tables /\ (Promise(r) => Sound(r, a))
<1>t. /\ row \in [Accounts -> Row] /\ run \in [Runners -> Run] /\ row[a] \in Row /\ run[r] \in Run
      /\ run[r].exit \in Exits \cup {NULL} /\ run[r].fallback \in BOOLEAN
  BY TypeParts, RunFields
\* The row may change, the run ends.
<1>e. ASSUME Ends(r)
      PROVE  /\ row' = row => Frame(r, a)
             /\ \A i \in Row : SetRow(a, i) => Frame(r, a)
             /\ Sound(r, a)
  BY <1>t, <1>e, EndsFields, SetRowFields, Harmless DEF Frame, RunPcs
<1>f. ASSUME NEW pc \in RunPcs \ {"idle"}, NEW e \in Exits \cup {NULL}, Goes(r, pc, e),
             row' = row \/ \E i \in Row : SetRow(a, i)
      PROVE  Frame(r, a) /\ run'[r].pc = pc /\ run'[r].exit = e
  BY <1>t, <1>f, GoesFields, SetRowFields DEF Frame
<1>1. CASE ProbeGeneric(r)
  <2>0. Tables
    BY <1>1, TablesKept DEF ProbeGeneric
  <2>1. Cleared(row[a]) \in Row
    BY <1>t, ClearedRow
  <2>2. ASSUME NEW e \in Exits, Goes(r, "storeGeneric", e), UNCHANGED row PROVE G
    <3>1. Frame(r, a) /\ run'[r].pc = "storeGeneric"
      BY <1>f, <2>2 DEF RunPcs
    <3> QED  BY <2>0, <3>1, Harmless DEF RunPcs
  <2> QED  BY <1>1, <1>e, <2>0, <2>1, <2>2 DEF ProbeGeneric, ObserveStickyGeo
<1>2. CASE StoreGeneric(r)
  <2>1. PICK i : i = [EmptyRow EXCEPT !.exit = run[r].exit]
    OBVIOUS
  <2>2. i \in Row
    BY <1>t, <2>1, StoredGenericRow
  <2>3. Tables
    BY <1>2, TablesKept DEF StoreGeneric
  <2> QED  BY <1>2, <1>e, <2>1, <2>2, <2>3 DEF StoreGeneric
<1>3. CASE ProbeHealthy(r)
  <2>0. Tables
    BY <1>3, TablesKept DEF ProbeHealthy
  <2>1. \E i \in Row : SetRow(a, i)
    BY <1>3, <1>t, RowWrites DEF ProbeHealthy
  <2>2. CASE Ends(r)
    BY <1>e, <2>0, <2>1, <2>2
  <2>3. CASE Goes(r, "prefer", NULL)
    <3>1. Frame(r, a) /\ run'[r].pc = "prefer"
      BY <1>f, <2>1, <2>3 DEF RunPcs
    <3> QED  BY <2>0, <3>1, Harmless DEF RunPcs
  <2> QED  BY <1>3, <2>2, <2>3 DEF ProbeHealthy
<1>4. CASE ProbeFails(r)
  <2>0. Tables
    BY <1>4, TablesKept DEF ProbeFails
  <2>1. PICK i \in Row : SetRow(a, i)
    BY <1>4, <1>t, RowWrites DEF ProbeFails
  <2>2. PICK w \in Windows :
           run' = [run EXCEPT ![r].pc = "rotate", ![r].session = NULL, ![r].started = w]
    <3>1. run[r].started \in Windows /\ "open" \in Windows
      BY <1>t, RunFields DEF Windows
    <3>2. CASE run[r].started = "none"
      BY <1>4, <3>1, <3>2 DEF ProbeFails
    <3>3. CASE run[r].started # "none"
      BY <1>4, <3>1, <3>3 DEF ProbeFails
    <3> QED  BY <3>2, <3>3
  <2>3. run'[r] = [run[r] EXCEPT !.pc = "rotate", !.session = NULL, !.started = w]
    BY <1>t, <2>2
  <2>4. run'[r] \in Run /\ run'[r].pc = "rotate" /\ run'[r].acct = a
    BY <1>t, <2>3 DEF Run, RunPcs
  <2>5. run' = [q \in Runners |-> run'[q]] /\ \A q \in Runners \ {r} : run'[q] = run[q]
    BY <1>t, <2>2
  <2>6. Frame(r, a)
    BY <1>t, <2>1, <2>4, <2>5, SetRowFields DEF Frame
  <2> QED  BY <2>0, <2>4, <2>6, Harmless DEF RunPcs
<1>5. CASE PreferredFails(r)
  <2>1. Tables
    BY <1>5, TablesKept DEF PreferredFails
  <2> QED  BY <1>5, <1>e, <2>1 DEF PreferredFails
<1>6. ASSUME NEW e \in Exits, Prefer(r, e) PROVE G
  <2>0. Tables /\ row' = row
    BY <1>6, TablesKept DEF Prefer
  <2>1. Frame(r, a) /\ run'[r].pc = "storePreferred" /\ run'[r].exit = e
    BY <1>6, <1>f, <2>0 DEF Prefer, RunPcs
  <2>2. Sound(r, a)
    BY <1>6, <2>1 DEF Prefer, Sound, Promise
  <2> QED  BY <2>0, <2>1, <2>2
<1>7. CASE RotateFails(r)
  <2>1. Tables
    BY <1>7, TablesKept DEF RotateFails, Statuses
  <2> QED  BY <1>7, <1>e, <2>1 DEF RotateFails
<1>8. ASSUME NEW e \in Exits, Rotate(r, e) PROVE G
  <2>0. Tables /\ row' = row
    BY <1>8, TablesKept DEF Rotate
  <2>1. PICK f \in BOOLEAN : f = AllowFallback(r)
    BY <1>t DEF AllowFallback
  <2>2. run'[r] = [run[r] EXCEPT !.pc = "storeRotated", !.exit = e, !.started = "none", !.fallback = f]
    BY <1>8, <1>t, <2>1 DEF Rotate
  <2>3. /\ run'[r] \in Run /\ run'[r].pc = "storeRotated" /\ run'[r].acct = a
        /\ run'[r].exit = e /\ run'[r].fallback = f
    BY <1>t, <2>1, <2>2 DEF Run, RunPcs, Windows
  <2>4. run' = [q \in Runners |-> run'[q]] /\ \A q \in Runners \ {r} : run'[q] = run[q]
    BY <1>8, <1>t DEF Rotate
  <2>5. Frame(r, a)
    BY <1>t, <2>0, <2>3, <2>4 DEF Frame
  <2>6. a \in Targeted /\ ~f => e \in Preferred
    BY <1>8, <2>1 DEF Rotate
  <2>7. Sound(r, a)
    BY <2>3, <2>6 DEF Sound, Promise
  <2> QED  BY <2>0, <2>5, <2>7
<1>9. CASE StoreRotated(r)
  <2>0. Tables
    BY <1>9, TablesKept DEF StoreRotated
  <2>1. PICK f \in BOOLEAN : f = (run[r].pc = "storeRotated" /\ run[r].fallback)
    BY <1>t
  <2>2. PICK i : i = [session |-> run[r].exit, exit |-> run[r].exit, fallback |-> f,
                      rotation |-> "none"]
    OBVIOUS
  <2>3. i \in Row /\ i.fallback = f /\ i.exit = run[r].exit
    BY <1>t, <2>2, StoredRow
  <2>4. SetRow(a, i)
    BY <1>9, <2>1, <2>2 DEF StoreRotated
  <2>5. PICK x : x = [IdleRun EXCEPT !.pc = "ready", !.acct = a]
    OBVIOUS
  <2>6. x = [pc |-> "ready", acct |-> a, session |-> NULL, fallback |-> FALSE,
             started |-> "none", exit |-> NULL]
    BY <2>5 DEF IdleRun
  <2>7. x \in Run /\ x.pc = "ready" /\ x.acct = a
    BY <2>6 DEF Run, RunPcs, Windows
  <2>8. run' = [run EXCEPT ![r] = x]
    BY <1>9, <2>5 DEF StoreRotated
  <2>9. Frame(r, a) /\ row'[a] = i /\ run'[r].pc = "ready"
    BY <1>t, <2>3, <2>4, <2>7, <2>8, SetRowFields DEF Frame
  <2>10. Promise(r) => (a \in Targeted /\ ~f => run[r].exit \in Preferred)
    BY <1>9, <2>1 DEF StoreRotated, Promise
  <2>11. Promise(r) => Sound(r, a)
    BY <2>3, <2>9, <2>10 DEF Sound, Promise
  <2> QED  BY <2>0, <2>9, <2>11
<1>10. CASE MarkReady(r)
  <2>1. Tables
    BY <1>10, TablesKept DEF MarkReady, Statuses
  <2> QED  BY <1>10, <1>e, <2>1 DEF MarkReady
<1>11. CASE Abandon(r)
  <2>1. Tables
    BY <1>11, TablesKept DEF Abandon
  <2> QED  BY <1>11, <1>e, <2>1 DEF Abandon
<1>12. CASE ProbeRefresh(r)
  <2>1. CASE Ends(r)
    <3>1. Tables
      BY <1>12, TablesKept DEF ProbeRefresh, Statuses
    <3> QED  BY <1>12, <1>e, <2>1, <3>1 DEF ProbeRefresh
  <2>2. ASSUME NEW e \in Exits, UNCHANGED status, Goes(r, "storeRefresh", e) PROVE G
    <3>1. Tables /\ row' = row
      BY <1>12, <2>2, TablesKept DEF ProbeRefresh
    <3>2. Frame(r, a) /\ run'[r].pc = "storeRefresh"
      BY <1>f, <2>2, <3>1 DEF RunPcs
    <3> QED  BY <3>1, <3>2, Harmless DEF RunPcs
  <2> QED  BY <1>12, <2>1, <2>2 DEF ProbeRefresh, FastExitIP
<1>13. CASE StoreRefresh(r)
  <2>1. [row[a] EXCEPT !.exit = run[r].exit] \in Row
    BY <1>t, RowWrites
  <2>2. Tables
    <3>1. profile[a] \in Proxies \cup {NULL} /\ healthy' \subseteq Proxies
      BY <1>13, TypeParts DEF StoreRefresh
    <3>2. status' \in [Accounts -> Statuses]
      BY <1>13, TypeParts DEF StoreRefresh, Statuses
    <3> QED  BY <1>13, <3>1, <3>2, TypeParts DEF StoreRefresh, Tables
  <2> QED  BY <1>13, <1>e, <2>1, <2>2 DEF StoreRefresh
<1> QED  BY <1>1, <1>2, <1>3, <1>4, <1>5, <1>6, <1>7, <1>8, <1>9, <1>10, <1>11, <1>12, <1>13
         DEF RunStep, ObserveStickyGeo

-----------------------------------------------------------------------------
(* The steps of the operator, the provider and time.  They leave every run      *)
(* where it is; a row, a session or a window may change under it.               *)
Aside ==
    /\ row' \in [Accounts -> Row] /\ run' \in [Runners -> Run]
    /\ \A r \in Runners : /\ run'[r].pc = run[r].pc /\ run'[r].acct = run[r].acct
                          /\ run'[r].fallback = run[r].fallback /\ run'[r].exit = run[r].exit

OtherStep ==
    \/ \E a \in Accounts :
          \/ TestAccountProxy(a) \/ AccountPreflight(a) \/ WindowPasses(a)
          \/ \E p \in Proxies \cup {NULL} : AssignProxy(a, p)
          \/ \E e \in Exits : SessionMoves(a, e)
    \/ \E p \in Proxies : TestProxy(p) \/ ProxyFails(p) \/ ProxyRecovers(p)

LEMMA OtherStepAside ==
    ASSUME IdentityTypeOK, OtherStep
    PROVE  Aside /\ Tables
<1> DEFINE G == Aside /\ Tables
<1>t. /\ row \in [Accounts -> Row] /\ run \in [Runners -> Run]
      /\ profile \in [Accounts -> Proxies \cup {NULL}] /\ healthy \subseteq Proxies
      /\ status \in [Accounts -> Statuses]
  BY TypeParts
<1>v. Event => events' \in 0..MaxEvents
  <2>1. events \in 0..MaxEvents /\ MaxEvents \in Nat
    BY TypeParts, IdentityConstants
  <2> QED  BY <2>1 DEF Event
<1>u. UNCHANGED run /\ row' \in [Accounts -> Row] => Aside
  BY <1>t DEF Aside
<1>1. ASSUME NEW a \in Accounts, TestAccountProxy(a) PROVE G
  <2>1. PICK e \in Exits \cup {NULL} : SetRow(a, [row[a] EXCEPT !.exit = e])
    <3>1. row[a].session \in Exits \cup {NULL}
      BY <1>t, RowFields
    <3>2. SessionOf(a) \in Exits \cup {NULL}
      BY <3>1 DEF SessionOf
    <3> QED  BY <1>1, <3>2 DEF TestAccountProxy, ObserveProxy
  <2>2. row' \in [Accounts -> Row]
    BY <1>t, <2>1, RowWrites, SetRowFields
  <2>3. Tables
    BY <1>1, TablesKept DEF TestAccountProxy
  <2> QED  BY <1>1, <1>u, <2>2, <2>3 DEF TestAccountProxy
<1>2. ASSUME NEW a \in Accounts, AccountPreflight(a) PROVE G
  <2>1. status' \in [Accounts -> Statuses]
    BY <1>2, <1>t DEF AccountPreflight, SetStatus, Statuses
  <2> QED  BY <1>2, <1>t, <1>u, <1>v, <2>1 DEF AccountPreflight, Tables
<1>3. ASSUME NEW a \in Accounts, WindowPasses(a) PROVE G
  <2>1. row' \in [Accounts -> Row]
    BY <1>3, <1>t, RowWrites, SetRowFields DEF WindowPasses
  <2>2. run' \in [Runners -> Run]
    <3> SUFFICES ASSUME NEW r \in Runners PROVE run'[r] \in Run
      BY <1>3 DEF WindowPasses
    <3>1. [run[r] EXCEPT !.started = "over"] \in Run
      BY <1>t DEF Run, Windows
    <3> QED  BY <1>3, <1>t, <3>1 DEF WindowPasses
  <2>3. \A r \in Runners :
          /\ run'[r].pc = run[r].pc /\ run'[r].acct = run[r].acct
          /\ run'[r].fallback = run[r].fallback /\ run'[r].exit = run[r].exit
    BY <1>3, <1>t DEF WindowPasses, Run
  <2>4. Tables
    BY <1>3, TablesKept DEF WindowPasses
  <2> QED  BY <2>1, <2>2, <2>3, <2>4 DEF Aside
<1>4. ASSUME NEW a \in Accounts, NEW p \in Proxies \cup {NULL}, AssignProxy(a, p) PROVE G
  <2>1. profile' \in [Accounts -> Proxies \cup {NULL}]
    BY <1>4, <1>t DEF AssignProxy
  <2> QED  BY <1>4, <1>t, <1>u, <1>v, <2>1 DEF AssignProxy, Tables
<1>5. ASSUME NEW a \in Accounts, NEW e \in Exits, SessionMoves(a, e) PROVE G
  <2>1. row' \in [Accounts -> Row]
    BY <1>5, <1>t, RowWrites, SetRowFields DEF SessionMoves
  <2>2. run' \in [Runners -> Run]
    <3> SUFFICES ASSUME NEW r \in Runners PROVE run'[r] \in Run
      BY <1>5 DEF SessionMoves
    <3>1. [run[r] EXCEPT !.session = e] \in Run
      BY <1>t DEF Run
    <3> QED  BY <1>5, <1>t, <3>1 DEF SessionMoves
  <2>3. \A r \in Runners :
          /\ run'[r].pc = run[r].pc /\ run'[r].acct = run[r].acct
          /\ run'[r].fallback = run[r].fallback /\ run'[r].exit = run[r].exit
    BY <1>5, <1>t DEF SessionMoves, Run
  <2>4. Tables
    BY <1>5, TablesKept DEF SessionMoves
  <2> QED  BY <2>1, <2>2, <2>3, <2>4 DEF Aside
<1>6. ASSUME NEW p \in Proxies, TestProxy(p) PROVE G
  <2>1. PICK e \in Exits :
           row' = [a \in Accounts |->
                     IF profile[a] = p THEN [row[a] EXCEPT !.exit = e] ELSE row[a]]
    BY <1>6 DEF TestProxy, ObserveProxy
  <2>2. row' \in [Accounts -> Row]
    BY <1>t, <2>1, RowWrites
  <2> QED  BY <1>6, <1>t, <1>u, <1>v, <2>2 DEF TestProxy, Tables
<1>7. ASSUME NEW p \in Proxies, ProxyFails(p) PROVE G
  BY <1>7, <1>t, <1>u, <1>v DEF ProxyFails, Tables
<1>8. ASSUME NEW p \in Proxies, ProxyRecovers(p) PROVE G
  BY <1>8, <1>t, <1>u, TypeParts DEF ProxyRecovers, Tables
<1> QED  BY <1>1, <1>2, <1>3, <1>4, <1>5, <1>6, <1>7, <1>8 DEF OtherStep

-----------------------------------------------------------------------------
(* The invariant. *)
\* A step is one of a run on an account, of another party, or none.
LEMMA StepKinds ==
    ASSUME IdentityInv, [IdentityNext]_identityVars
    PROVE  \/ \E r \in Runners, a \in Accounts :
                Frame(r, a) /\ Tables /\ Sound(r, a) /\ run[r].acct \in {a, NULL}
           \/ Aside /\ Tables
           \/ UNCHANGED identityVars
<1>t. IdentityTypeOK /\ RunInv /\ \A r \in Runners : Promise(r)
  BY DEF IdentityInv, PromiseInv
<1>1. ASSUME NEW r \in Runners, NEW a \in Accounts, BeginRun(r, a) \/ BeginRefresh(r, a)
      PROVE  Frame(r, a) /\ Tables /\ Sound(r, a) /\ run[r].acct = NULL
  <2>1. run[r].pc = "idle"
    BY <1>1 DEF BeginRun, BeginRefresh, BeginCollides, BeginGeneric, BeginSticky, Selected
  <2> QED  BY <1>1, <1>t, <2>1, BeginStep DEF RunInv
<1>2. ASSUME NEW r \in Runners, RunStep(r) \/ Abandon(r)
      PROVE  \E a \in Accounts : Frame(r, a) /\ Tables /\ Sound(r, a) /\ run[r].acct = a
  <2>1. run[r].pc # "idle"
    BY <1>2 DEF RunStep, Abandon, ProbeGeneric, StoreGeneric, ProbeHealthy, ProbeFails,
                PreferredFails, Prefer, RotateFails, Rotate, StoreRotated, MarkReady,
                ProbeRefresh, StoreRefresh
  <2>2. PICK a \in Accounts : a = run[r].acct
    BY <1>t, <2>1 DEF RunInv
  <2> QED  BY <1>2, <1>t, <2>2, RunStepFrame
<1>3. ASSUME OtherStep PROVE Aside /\ Tables
  BY <1>3, <1>t, OtherStepAside
<1> QED  BY <1>1, <1>2, <1>3 DEF IdentityNext, OtherStep

LEMMA InvStep ==
    ASSUME IdentityInv, [IdentityNext]_identityVars
    PROVE  IdentityInv'
<1>1. ASSUME NEW r \in Runners, NEW a \in Accounts, Frame(r, a), Tables, Sound(r, a)
      PROVE  IdentityInv'
  <2>1. IdentityTypeOK' /\ RunInv'
    BY <1>1 DEF IdentityInv, IdentityTypeOK, RunInv, Frame, Tables
  <2>2. ASSUME NEW q \in Runners PROVE Promise(q)'
    <3>1. CASE q = r
      BY <1>1, <3>1 DEF Sound
    <3>2. CASE q # r
      BY <1>1, <3>2 DEF IdentityInv, PromiseInv, Promise, Frame
    <3> QED  BY <3>1, <3>2
  <2> QED  BY <2>1, <2>2 DEF IdentityInv, PromiseInv
<1>2. ASSUME Aside, Tables PROVE IdentityInv'
  <2>1. IdentityTypeOK' /\ RunInv'
    BY <1>2 DEF IdentityInv, IdentityTypeOK, RunInv, Aside, Tables
  <2>2. PromiseInv'
    BY <1>2 DEF IdentityInv, PromiseInv, Promise, Aside
  <2> QED  BY <2>1, <2>2 DEF IdentityInv
<1>3. ASSUME UNCHANGED identityVars PROVE IdentityInv'
  BY <1>3 DEF IdentityInv, IdentityTypeOK, RunInv, PromiseInv, Promise, identityVars
<1> QED  BY <1>1, <1>2, <1>3, StepKinds

LEMMA InvInit == IdentityInit => IdentityInv
<1> SUFFICES ASSUME IdentityInit PROVE IdentityInv
  OBVIOUS
<1>1. row \in [Accounts -> Row] /\ run \in [Runners -> Run] /\ RunInv
  BY EmptyRowType, IdleRunType DEF IdentityInit, RunInv
<1>2. /\ profile \in [Accounts -> Proxies \cup {NULL}] /\ healthy \subseteq Proxies
      /\ status \in [Accounts -> Statuses] /\ events \in 0..MaxEvents
  BY IdentityConstants DEF IdentityInit, Statuses
<1>3. PromiseInv
  BY IdleRunType DEF IdentityInit, PromiseInv, Promise
<1> QED  BY <1>1, <1>2, <1>3 DEF IdentityInv, IdentityTypeOK

(***************************************************************************)
(* Every column and every local variable of MaintainStickyIdentity and of  *)
(* refreshNetworkIdentityIfDue keeps its type (fallback_active is never    *)
(* NULL, rotation_started_at one of the three windows), even where several  *)
(* runs maintain one account at once.                                      *)
(***************************************************************************)
THEOREM IdentityTypes == IdentitySpec => []IdentityTypeOK
<1>1. IdentityInv /\ [IdentityNext]_identityVars => IdentityInv'
  BY InvStep
<1>2. IdentityInv => IdentityTypeOK
  BY DEF IdentityInv
<1> QED  BY <1>1, <1>2, InvInit, PTL DEF IdentitySpec

-----------------------------------------------------------------------------
\* What FallbackIsRecorded says of one step.
Recorded ==
    \A r \in Runners :
        LET a == run[r].acct IN
        /\ run[r].pc # "ready" /\ run'[r].pc = "ready"
        /\ a \in Targeted /\ row'[a].exit \notin Preferred
        => row'[a].fallback

LEMMA RecordedStep ==
    ASSUME IdentityInv, [IdentityNext]_identityVars
    PROVE  Recorded
<1>n. NULL \notin Accounts /\ Targeted \subseteq Accounts
  BY IdentityConstants
<1>1. ASSUME NEW r \in Runners, NEW a \in Accounts, Frame(r, a), Sound(r, a),
             run[r].acct \in {a, NULL}
      PROVE  Recorded
  <2> SUFFICES ASSUME NEW q \in Runners, run[q].pc # "ready", run'[q].pc = "ready",
                      run[q].acct \in Targeted, row'[run[q].acct].exit \notin Preferred
               PROVE  row'[run[q].acct].fallback
    BY DEF Recorded
  <2>1. q = r
    BY <1>1 DEF Frame
  <2>2. run[q].acct = a
    BY <1>1, <1>n, <2>1
  <2> QED  BY <1>1, <2>1, <2>2 DEF Sound
<1>2. ASSUME Aside PROVE Recorded
  BY <1>2 DEF Aside, Recorded
<1>3. ASSUME UNCHANGED identityVars PROVE Recorded
  BY <1>3 DEF identityVars, Recorded
<1> QED  BY <1>1, <1>2, <1>3, StepKinds

(***************************************************************************)
(* However many runs maintain an account at once, and whatever becomes of   *)
(* its row between a run's reads and its write: the run that moves it out   *)
(* of its preferred country records the fallback.  What a run may store is  *)
(* decided by what it knows itself (PromiseInv), and stored in one write.   *)
(***************************************************************************)
THEOREM FallbacksAreRecorded == IdentitySpec => FallbackIsRecorded
<1>1. IdentityInv /\ [IdentityNext]_identityVars => IdentityInv'
  BY InvStep
<1>2. IdentityInv /\ [IdentityNext]_identityVars => [Recorded]_identityVars
  BY RecordedStep
<1> QED  BY <1>1, <1>2, InvInit, PTL DEF IdentitySpec, FallbackIsRecorded, Recorded
=============================================================================
