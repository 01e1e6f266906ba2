------------------------- MODULE LifecycleContract --------------------------
(***************************************************************************)
(* From one row's step to all rows, the sweep and the world; and what      *)
(* follows: outcomes are earned, are not overwritten, and every row keeps  *)
(* the contract of DeployContract.                                         *)
(***************************************************************************)
EXTENDS LifecycleOutcomes

-----------------------------------------------------------------------------
(* The numbers of the rows and the sweep's record. *)

LEMMA KnownIsFinite ==
  IsFiniteSet(Known) /\ Cardinality(Known) \in Nat
BY ConstantsOK, FS_Subset, FS_CardinalityType DEF Known

\* Rows that exist stay as they were numbered.
NumbersKept == Known' = Known /\ \A d \in Known : row'[d].born = row[d].born

LEMMA NumberedKept ==
  ASSUME Numbered, NumbersKept
  PROVE  Numbered'
BY DEF Numbered, NumbersKept

LEMMA NumberedGrows ==
  ASSUME TypeOK, Numbered, NEW d \in Deploys, row[d].status = "none", CreateRow(d)
  PROVE  Numbered' /\ Known' = Known \cup {d} /\ \A e \in Known : row'[e].born = row[e].born
<1> DEFINE n == Cardinality(Known)
<1>1. /\ row'[d].status = "running" /\ row'[d].born = n + 1
      /\ \A e \in Deploys \ {d} : row'[e] = row[e]
  BY DEF TypeOK, CreateRow, Known
<1>2. Known' = Known \cup {d} /\ d \notin Known
  BY <1>1 DEF Known
<1>3. n \in Nat /\ Cardinality(Known') = n + 1
  BY <1>2, KnownIsFinite, FS_AddElement
<1>4. \A e \in Known : row'[e].born = row[e].born /\ row[e].born \in 1..n
  BY <1>1, <1>2 DEF Numbered, Known
<1>5. \A e \in Known' : row'[e].born \in 1..(n + 1)
  BY <1>1, <1>2, <1>3, <1>4
<1>6. \A e, f \in Known' : row'[e].born = row'[f].born => e = f
  BY <1>1, <1>2, <1>3, <1>4 DEF Numbered
<1>7. QED
  BY <1>2, <1>3, <1>4, <1>5, <1>6 DEF Numbered

\* The sweep stands still while rows come and records are added.
LEMMA ProofKept ==
  ASSUME TypeOK, SweepHasProof, UNCHANGED sweeper, Known \subseteq Known',
         \A d \in Known : row'[d].born = row[d].born,
         \A d \in Deploys : relay[d] = "success" => relay'[d] = "success"
  PROVE  SweepHasProof'
<1>1. todo' = todo /\ spc' = spc /\ verdict' = verdict /\ todo \subseteq Known
  BY DEF sweeper, SweepHasProof
<1>2. \A d \in todo : Current(d)' <=> Current(d)
  BY <1>1 DEF Current
<1>3. \A d \in todo : d \in Deploys
  BY DEF TypeOK
<1>4. QED
  BY <1>1, <1>2, <1>3 DEF SweepHasProof, At

-----------------------------------------------------------------------------
(* Steps of one row's processes. *)

\* Row e is not touched.
Spared(e) ==
  /\ row'[e] = row[e] /\ pc'[e] = pc[e] /\ loc'[e] = loc[e]
  /\ rpc'[e] = rpc[e] /\ rloc'[e] = rloc[e] /\ relay'[e] = relay[e]

LEMMA FitsStays ==
  ASSUME NEW e \in Deploys, Fits(e), Spared(e)
  PROVE  Fits(e)' /\ Phase(e)' = Phase(e)
BY DEF Spared, Fits, Begun, Unsettled, Unasked, Claims, Earned, Recovers, Marks, Undriven, Phase,
       RecoveryHolds

LEMMA WorksInv ==
  ASSUME IInv, OutcomeInv, NEW d \in Deploys, Works(d)
  PROVE  OutcomeInv'
<1>1. \A e \in Deploys \ {d} : Spared(e)
  BY DEF Works, Alone, Spared
<1>2. \A e \in Deploys : Fits(e)'
  BY <1>1, FitsStays DEF OutcomeInv, Works
<1>3. Numbered' /\ Known \subseteq Known' /\ \A e \in Known : row'[e].born = row[e].born
  <2>1. CASE row[d].status = "none" /\ CreateRow(d)
    BY <2>1, NumberedGrows DEF IInv, OutcomeInv
  <2>2. CASE /\ row'[d].status = "none" <=> row[d].status = "none"
             /\ row'[d].born = row[d].born
    <3>1. NumbersKept
      BY <1>1, <2>2 DEF NumbersKept, Known, Spared
    <3>2. QED
      BY <3>1, NumberedKept DEF NumbersKept, OutcomeInv
  <2>3. QED
    BY <2>1, <2>2 DEF Works
<1>4. SweepHasProof'
  <2>1. \A e \in Deploys : relay[e] = "success" => relay'[e] = "success"
    BY <1>1 DEF Works, Alone, Spared
  <2>2. QED
    BY <1>3, <2>1, ProofKept DEF IInv, OutcomeInv, Works, Alone
<1>5. QED
  BY <1>2, <1>3, <1>4 DEF OutcomeInv

LEMMA ActorWorks ==
  ASSUME IInv, OutcomeInv, NEW d \in Deploys,
         Dispatch(d) \/ Stream(d) \/ RollbackCreate(d) \/ Rollback(d) \/ Recovery(d)
  PROVE  Works(d)
BY DispatchWorks, StreamWorks, RollbackWorks, RecoveryWorks DEF IInv, OutcomeInv

-----------------------------------------------------------------------------
(* Steps of the sweep. *)

\* The processes and the relay stand still.
Quiet == UNCHANGED <<driver, recovery, relay>>

LEMMA SweepIsQuiet ==
  ASSUME Sweep
  PROVE  Quiet
BY DEF Sweep, SweepStart, SweepQuery, UpgradeQuery, ReconcileQuery, SweepRow, SweepAssess, SweepWaits,
       SweepFinalize, SweepSibling, SweepCard, UpgradeCheck, UpgradeRow, UpgradeCard, ReconcileApp, Quiet

\* Only one row is the one the sweep is at.
LEMMA OneCurrent ==
  ASSUME TypeOK, Numbered, SweepHasProof, NEW d \in Deploys, NEW e \in Deploys, Current(d), Current(e)
  PROVE  d = e
<1>1. d \in Known /\ e \in Known /\ row[d].born \in Nat /\ row[e].born \in Nat
  BY DEF SweepHasProof, Current, TypeOK, Rows
<1>2. row[d].born = row[e].born
  BY <1>1 DEF Current
<1>3. QED
  BY <1>1, <1>2 DEF Numbered

\* The sweep's two writes of a row.
SweepSettles(d) == SweepFinalize(d) /\ row[d].status = "running" /\ SweepVerdict(d) /\ GoTo("sibling")
SweepUpgrades(d) ==
  UpgradeRow(d) /\ Upgradable(d) /\ WriteRow(d, "success", row[d].log) /\ GoTo("upgradeCard")

LEMMA SweepWrites ==
  ASSUME Sweep
  PROVE  UNCHANGED row \/ \E d \in Deploys : SweepSettles(d) \/ SweepUpgrades(d)
BY DEF Sweep, SweepStart, SweepQuery, UpgradeQuery, ReconcileQuery, SweepRow, SweepAssess, SweepWaits,
       SweepFinalize, SweepSibling, SweepCard, UpgradeCheck, UpgradeRow, UpgradeCard, ReconcileApp,
       SweepSettles, SweepUpgrades, database

LEMMA SettlesEffect ==
  ASSUME IInv, OutcomeInv, NEW d \in Deploys, SweepSettles(d)
  PROVE  /\ Undriven(d) /\ row[d].status = "running" /\ Bears(d, row'[d].status)
         /\ row'[d].status \in {"success", "failed", "interrupted"} /\ row'[d].born = row[d].born
         /\ \/ "marker" \in row'[d].log <=> "marker" \in row[d].log
            \/ row'[d].status = "interrupted" /\ "marker" \in row'[d].log
         /\ \A e \in Deploys \ {d} : row'[e] = row[e]
<1> DEFINE s == IF verdict = "unverified" THEN "interrupted" ELSE verdict
<1>1. At("finalize") /\ Current(d) /\ row[d].status = "running"
  BY DEF SweepSettles, SweepFinalize
<1>2. Undriven(d) /\ Bears(d, s)
  BY <1>1 DEF IInv, SweepTakesOrphans, Current, At, OutcomeInv, SweepHasProof, Bears
<1>3. s \in {"success", "failed", "interrupted"}
  BY DEF IInv, TypeOK, SweepVerdicts
<1>4. PICK log : WriteRow(d, s, log) /\ log = row[d].log \cup (CASE verdict = "success" -> {}
                                                              [] verdict = "unverified" -> {"bad", "marker"}
                                                              [] OTHER -> {"bad"})
  BY DEF SweepSettles, SweepVerdict
<1>5. /\ row'[d].status = s /\ row'[d].log = log /\ row'[d].born = row[d].born
      /\ \A e \in Deploys \ {d} : row'[e] = row[e]
  BY <1>4, WriteEffect DEF IInv
<1>6. QED
  <2>1. CASE verdict = "unverified"
    BY <1>1, <1>2, <1>3, <1>4, <1>5, <2>1
  <2>2. CASE verdict # "unverified"
    BY <1>1, <1>2, <1>3, <1>4, <1>5, <2>2
  <2>3. QED
    BY <2>1, <2>2

LEMMA UpgradesEffect ==
  ASSUME IInv, OutcomeInv, NEW d \in Deploys, SweepUpgrades(d)
  PROVE  /\ Undriven(d) /\ row[d].status = "interrupted" /\ "marker" \in row[d].log
         /\ relay[d] = "success" /\ row'[d].status = "success"
         /\ row'[d].born = row[d].born /\ row'[d].log = row[d].log
         /\ \A e \in Deploys \ {d} : row'[e] = row[e]
<1>1. At("upgradeRow") /\ Current(d) /\ d \in todo
  BY DEF SweepUpgrades, UpgradeRow, Current
<1>2. relay[d] = "success"
  BY <1>1 DEF OutcomeInv, SweepHasProof
<1>3. row[d].status = "interrupted" /\ "marker" \in row[d].log /\ WriteRow(d, "success", row[d].log)
  BY DEF SweepUpgrades, Upgradable
<1>4. Undriven(d)
  BY <1>3 DEF OutcomeInv, Fits, Marks
<1>5. QED
  BY <1>2, <1>3, <1>4, WriteEffect DEF IInv

\* Whatever the sweep does to a row.
SweptRow(d) ==
  \/ row'[d] = row[d]
  \/ /\ Undriven(d) /\ row'[d].born = row[d].born
     /\ row[d].status # "none" /\ row'[d].status # "none"

LEMMA SweptRows ==
  ASSUME IInv, OutcomeInv, Sweep
  PROVE  \A d \in Deploys : SweptRow(d)
<1>1. CASE UNCHANGED row
  BY <1>1 DEF SweptRow
<1>2. ASSUME NEW d \in Deploys, SweepSettles(d)
      PROVE  \A e \in Deploys : SweptRow(e)
  BY <1>2, SettlesEffect DEF SweptRow
<1>3. ASSUME NEW d \in Deploys, SweepUpgrades(d)
      PROVE  \A e \in Deploys : SweptRow(e)
  BY <1>3, UpgradesEffect DEF SweptRow
<1>4. QED
  BY <1>1, <1>2, <1>3, SweepWrites

LEMMA SweepFits ==
  ASSUME IInv, OutcomeInv, Sweep
  PROVE  (\A d \in Deploys : Fits(d)' /\ Phase(d)' = Phase(d)) /\ Numbered' /\ NumbersKept
<1>1. Quiet /\ \A d \in Deploys : SweptRow(d)
  BY SweepIsQuiet, SweptRows
<1>2. ASSUME NEW d \in Deploys
      PROVE  Fits(d)' /\ Phase(d)' = Phase(d)
  <2>1. CASE row'[d] = row[d]
    BY <1>1, <2>1, FitsStays DEF Quiet, Spared, driver, recovery, OutcomeInv
  <2>2. CASE row'[d] # row[d]
    <3>1. Undriven(d) /\ Undriven(d)' /\ row[d].status # "none" /\ row'[d].status # "none"
      BY <1>1, <2>2 DEF SweptRow, Quiet, driver, recovery, Undriven
    <3>2. Fits(d)'
      BY <1>1, <3>1 DEF OutcomeInv, Fits, Begun, Unsettled, UnsettledPcs, Unasked, Claims, Earned, Recovers,
                        Marks, Quiet, driver, recovery, Undriven, FreePcs
    <3>3. Phase(d)' = "over" /\ Phase(d) = "over"
      BY <3>1 DEF Phase, RecoveryHolds, Undriven
    <3>4. QED
      BY <3>2, <3>3
  <2>3. QED
    BY <2>1, <2>2
<1>3. NumbersKept
  BY <1>1 DEF NumbersKept, SweptRow, Known
<1>4. QED
  BY <1>2, <1>3, NumberedKept DEF OutcomeInv

LEMMA SweepProof ==
  ASSUME IInv, OutcomeInv, Sweep
  PROVE  SweepHasProof'
<1>1. NumbersKept /\ Quiet
  BY SweepFits, SweepIsQuiet
<1>2. todo \subseteq Known /\ Known' = Known
  BY <1>1 DEF OutcomeInv, SweepHasProof, NumbersKept
<1>3. todo' \subseteq Known
  <2>1. CASE SweepStart
    BY <2>1 DEF SweepStart, Visit, IInv, RowInv, AgesRunning, Known
  <2>2. CASE UpgradeQuery
    BY <1>2, <2>2 DEF UpgradeQuery, Visit, GoTo, Upgradable, Known
  <2>3. CASE ~SweepStart /\ ~UpgradeQuery
    BY <1>2, <2>3 DEF Sweep, SweepQuery, ReconcileQuery, SweepRow, SweepAssess, SweepWaits,
       SweepFinalize, SweepSibling, SweepCard, UpgradeCheck, UpgradeRow, UpgradeCard, ReconcileApp,
       Planned, SweepStops, Visit, GoTo, NextRow
  <2>4. QED
    BY <2>1, <2>2, <2>3
<1>4. ASSUME At("finalize")' /\ verdict' = "success"
      PROVE  \A d \in todo' : Current(d)' => relay'[d] = "success"
  <2>1. PICK d \in Deploys : SweepAssess(d)
    BY <1>4 DEF Sweep, SweepStart, SweepQuery, UpgradeQuery, ReconcileQuery, SweepRow, SweepWaits,
       SweepFinalize, SweepSibling, SweepCard, UpgradeCheck, UpgradeRow, UpgradeCard, ReconcileApp,
       Planned, SweepStops, Visit, GoTo, NextRow, At
  <2>2. Current(d) /\ relay[d] = "success" /\ UNCHANGED <<row, todo, relay>>
    BY <1>4, <2>1 DEF SweepAssess, Proven, database
  <2>3. \A e \in todo' : Current(e)' => e = d
    BY <2>2, OneCurrent DEF IInv, TypeOK, OutcomeInv, Current
  <2>4. QED
    BY <2>2, <2>3
<1>5. ASSUME At("upgradeRow")'
      PROVE  \A d \in todo' : Current(d)' => relay'[d] = "success"
  <2>1. PICK d \in Deploys : UpgradeCheck(d) /\ Proven(d) /\ GoTo("upgradeRow")
    BY <1>5 DEF Sweep, SweepStart, SweepQuery, UpgradeQuery, ReconcileQuery, SweepRow, SweepAssess, SweepWaits,
       SweepFinalize, SweepSibling, SweepCard, UpgradeCheck, UpgradeRow, UpgradeCard, ReconcileApp,
       Planned, SweepStops, Visit, GoTo, NextRow, At
  <2>2. Current(d) /\ relay[d] = "success" /\ UNCHANGED <<row, todo, relay>>
    BY <2>1 DEF UpgradeCheck, Proven, GoTo, database
  <2>3. \A e \in todo' : Current(e)' => e = d
    BY <2>2, OneCurrent DEF IInv, TypeOK, OutcomeInv, Current
  <2>4. QED
    BY <2>2, <2>3
<1>6. QED
  BY <1>2, <1>3, <1>4, <1>5 DEF SweepHasProof

-----------------------------------------------------------------------------
(* Steps of the world. *)

\* The relay ends or stops a call it has, a row ages: no row, process or record is lost.
LEMMA RelayKept ==
  ASSUME TypeOK, NEW d \in Deploys, RelayFinish(d) \/ RelayStops(d)
  PROVE  /\ relay[d] \in {"running", "doomed"} /\ relay'[d] \in {"success", "failed", "noEntry"}
         /\ \A e \in Deploys \ {d} : relay'[e] = relay[e]
         /\ UNCHANGED <<row, driver, recovery, sweeper>>
BY DEF RelayFinish, RelayStops, TypeOK, database

LEMMA AgesKept ==
  ASSUME TypeOK, NEW d \in Deploys, RowAges(d)
  PROVE  /\ row'[d].status = row[d].status /\ row'[d].born = row[d].born /\ row'[d].log = row[d].log
         /\ \A e \in Deploys \ {d} : row'[e] = row[e]
         /\ UNCHANGED <<relay, driver, recovery, sweeper>>
BY DEF RowAges, TypeOK, Rows

LEMMA CrashKept ==
  ASSUME TypeOK, Crash
  PROVE  /\ UNCHANGED <<row, relay>> /\ spc' = "idle" /\ todo' = {}
         /\ \A d \in Deploys : /\ pc'[d] = (IF row[d].status = "none" THEN "idle" ELSE "gone")
                               /\ loc'[d] = NoLocals /\ rpc'[d] = "idle" /\ rloc'[d] = NoRecovery
BY DEF Crash, SweepStops, database

LEMMA WorldFits ==
  ASSUME IInv, OutcomeInv, World
  PROVE  OutcomeInv'
<1>1. CASE Crash
  <2>1. ASSUME NEW d \in Deploys
        PROVE  Fits(d)'
    BY <1>1, <2>1, CrashKept
       DEF IInv, OutcomeInv, Fits, Begun, Unsettled, UnsettledPcs, Unasked, BeforeRelay, Claims, Recovers,
           Marks, Undriven, FreePcs, NoRecovery
  <2>2. Numbered' /\ SweepHasProof'
    BY <1>1, CrashKept DEF IInv, OutcomeInv, Numbered, Known, SweepHasProof, At
  <2>3. QED
    BY <2>1, <2>2 DEF OutcomeInv
<1>2. ASSUME NEW d \in Deploys, RelayFinish(d) \/ RelayStops(d)
      PROVE  OutcomeInv'
  <2>1. \A e \in Deploys : Fits(e)'
    BY <1>2, RelayKept
       DEF IInv, OutcomeInv, Fits, Begun, Unsettled, Unasked, Claims, Earned, Recovers, Marks, Undriven,
           driver, recovery
  <2>2. NumbersKept
    BY <1>2, RelayKept DEF IInv, NumbersKept, Known
  <2>3. \A e \in Deploys : relay[e] = "success" => relay'[e] = "success"
    BY <1>2, RelayKept DEF IInv
  <2>4. QED
    BY <1>2, <2>1, <2>2, <2>3, NumberedKept, ProofKept, RelayKept DEF IInv, OutcomeInv, NumbersKept
<1>3. ASSUME NEW d \in Deploys, RowAges(d)
      PROVE  OutcomeInv'
  <2>1. \A e \in Deploys : Fits(e)'
    BY <1>3, AgesKept
       DEF IInv, OutcomeInv, Fits, Begun, Unsettled, Unasked, Claims, Earned, Recovers, Marks, Undriven,
           driver, recovery
  <2>2. NumbersKept
    BY <1>3, AgesKept DEF IInv, NumbersKept, Known
  <2>3. QED
    BY <1>3, <2>1, <2>2, NumberedKept, ProofKept, AgesKept DEF IInv, OutcomeInv, NumbersKept
<1>4. CASE \/ \E d \in Deploys : GraceEnds(d)
           \/ \E a \in Apps : CardAges(a)
  <2>1. UNCHANGED <<row, driver, recovery, relay, sweeper>>
    BY <1>4 DEF GraceEnds, CardAges, database
  <2>2. \A e \in Deploys : Fits(e)'
    BY <2>1, FitsStays DEF OutcomeInv, Spared, driver, recovery
  <2>3. NumbersKept
    BY <2>1 DEF NumbersKept, Known
  <2>4. QED
    BY <2>1, <2>2, <2>3, NumberedKept, ProofKept DEF IInv, OutcomeInv, NumbersKept
<1>5. QED
  BY <1>1, <1>2, <1>3, <1>4 DEF World

LEMMA NextOutcome ==
  ASSUME IInv, OutcomeInv, [Next]_vars
  PROVE  OutcomeInv'
<1>1. CASE UNCHANGED vars
  <2>1. \A e \in Deploys : Fits(e)'
    BY <1>1, FitsStays DEF vars, OutcomeInv, Spared
  <2>2. Numbered' /\ SweepHasProof'
    BY <1>1 DEF vars, OutcomeInv, Numbered, Known, SweepHasProof, At, Current
  <2>3. QED
    BY <2>1, <2>2 DEF OutcomeInv
<1>2. CASE Sweep
  BY <1>2, SweepFits, SweepProof DEF OutcomeInv
<1>3. QED
  BY <1>1, <1>2, ActorWorks, WorksInv, WorldFits DEF Next

LEMMA InitOutcome ==
  ASSUME Init
  PROVE  OutcomeInv
<1>1. ASSUME NEW d \in Deploys
      PROVE  Fits(d)
  BY DEF Init, Fits, Begun, Unsettled, UnsettledPcs, Unasked, Claims, Recovers, Marks, NoRow, NoLocals,
         NoRecovery
<1>2. Known = {} /\ todo = {} /\ spc = "idle"
  BY DEF Init, NoRow, Known
<1>3. QED
  BY <1>1, <1>2 DEF OutcomeInv, Numbered, SweepHasProof, At

\* In every reachable state whoever writes an outcome finds its row running, whatever is claimed
\* has been earned, and the sweep's marker is only on rows that nobody works on.
THEOREM OutcomesAreSound == Spec => [](IInv /\ OutcomeInv)
<1>1. Init => IInv /\ OutcomeInv
  BY InitInv, InitOutcome
<1>2. IInv /\ OutcomeInv /\ [Next]_vars => (IInv /\ OutcomeInv)'
  BY NextInv, NextOutcome
<1>3. QED
  BY <1>1, <1>2, PTL DEF Spec

-----------------------------------------------------------------------------
(* The contract, step by step. *)

\* A step seen at one row.
SeenAt(d) ==
  /\ \A e \in Deploys \ {d} :
       /\ row'[e].status = row[e].status /\ Phase(e)' = Phase(e)
       /\ "marker" \in row'[e].log <=> "marker" \in row[e].log
  /\ \A e \in Deploys : relay'[e] = "success" <=> relay[e] = "success"

LEMMA Seen ==
  ASSUME NEW d \in Deploys, SeenAt(d)
  PROVE  /\ StatusOf' = [StatusOf EXCEPT ![d] = row'[d].status]
         /\ PhaseOf' = [PhaseOf EXCEPT ![d] = Phase(d)']
         /\ MarkKept(d) => Marked' = Marked
         /\ "marker" \in row'[d].log => Marked' = Marked \cup {d}
         /\ Recorded' = Recorded
         /\ StatusOf[d] = row[d].status /\ PhaseOf[d] = Phase(d)
<1>1. StatusOf' = [StatusOf EXCEPT ![d] = row'[d].status]
  BY DEF SeenAt, StatusOf
<1>2. PhaseOf' = [PhaseOf EXCEPT ![d] = Phase(d)']
  BY DEF SeenAt, PhaseOf
<1>3. /\ MarkKept(d) => Marked' = Marked
      /\ "marker" \in row'[d].log => Marked' = Marked \cup {d}
  BY DEF SeenAt, Marked, MarkKept
<1>4. Recorded' = Recorded
  BY DEF SeenAt, Recorded
<1>5. QED
  BY <1>1, <1>2, <1>3, <1>4 DEF StatusOf, PhaseOf

\* A step at a row whose status and phase stay is a stutter of the contract.
LEMMA SameFunction ==
  ASSUME NEW d \in Deploys
  PROVE  /\ [StatusOf EXCEPT ![d] = StatusOf[d]] = StatusOf
         /\ [PhaseOf EXCEPT ![d] = PhaseOf[d]] = PhaseOf
BY DEF StatusOf, PhaseOf

LEMMA WorksContract ==
  ASSUME NEW d \in Deploys, Works(d)
  PROVE  [Contract!ContractNext]_(Contract!contractVars)
<1>1. SeenAt(d)
  BY FitsStays DEF Works, Alone, SeenAt, Spared, Phase, RecoveryHolds
<1>2. /\ StatusOf' = [StatusOf EXCEPT ![d] = row'[d].status]
      /\ PhaseOf' = [PhaseOf EXCEPT ![d] = Phase(d)']
      /\ Marked' = Marked /\ Recorded' = Recorded
      /\ StatusOf[d] = row[d].status /\ PhaseOf[d] = Phase(d)
  BY <1>1, Seen DEF Works
<1>3. CASE row'[d].status = row[d].status
  <2>1. StatusOf' = StatusOf
    BY <1>2, <1>3, SameFunction
  <2>2. CASE Phase(d)' = Phase(d)
    BY <1>2, <2>1, <2>2, SameFunction DEF Contract!contractVars
  <2>3. CASE Phase(d) = "live" /\ Phase(d)' = "lost"
    BY <1>2, <2>1, <2>3 DEF Contract!ContractNext, Contract!Lose
  <2>4. CASE Phase(d) \in {"live", "lost"} /\ Phase(d)' = "over"
    BY <1>2, <2>1, <2>4 DEF Contract!ContractNext, Contract!Leave
  <2>5. CASE Phase(d) = "none" /\ Phase(d)' = "live" /\ row'[d].status = "running"
    BY <1>2, <2>5 DEF Contract!ContractNext, Contract!Open, Contract!SetRow
  <2>6. QED
    BY <1>3, <2>2, <2>3, <2>4, <2>5 DEF Works, Change
<1>4. CASE Phase(d) = "none" /\ Phase(d)' = "live" /\ row'[d].status = "running"
  BY <1>2, <1>4 DEF Contract!ContractNext, Contract!Open, Contract!SetRow
<1>5. CASE /\ Phase(d) = "live" /\ Phase(d)' \in {"live", "over"} /\ row[d].status = "running"
           /\ row'[d].status \in {"success", "failed", "rolled_back"}
  BY <1>2, <1>5 DEF Contract!ContractNext, Contract!Settle, Contract!SetRow
<1>6. CASE /\ Phase(d) = "lost" /\ Phase(d)' = "lost" /\ Bears(d, row'[d].status)
           /\ row'[d].status \in {"success", "failed", "interrupted"}
  <2>1. PhaseOf' = PhaseOf
    BY <1>2, <1>6, SameFunction
  <2>2. row'[d].status = "success" => d \in Recorded
    BY <1>6 DEF Bears, Recorded
  <2>3. QED
    BY <1>2, <1>6, <2>1, <2>2
       DEF Contract!ContractNext, Contract!Revise, Contract!SetRow, Contract!Proven
<1>7. QED
  BY <1>3, <1>4, <1>5, <1>6 DEF Works, Change

LEMMA SweepContract ==
  ASSUME IInv, OutcomeInv, Sweep
  PROVE  [Contract!ContractNext]_(Contract!contractVars)
<1>1. UNCHANGED relay /\ Recorded' = Recorded
  BY SweepIsQuiet DEF Quiet, Recorded
<1>2. \A e \in Deploys : Phase(e)' = Phase(e)
  BY SweepFits
<1>3. PhaseOf' = PhaseOf
  BY <1>2 DEF PhaseOf
<1>4. CASE UNCHANGED row
  BY <1>1, <1>3, <1>4 DEF StatusOf, Marked, Contract!contractVars
<1>5. ASSUME NEW d \in Deploys, SweepSettles(d)
      PROVE  Contract!Sweep(d)
  <2>1. /\ row[d].status = "running" /\ row'[d].status \in {"success", "failed", "interrupted"}
        /\ row'[d].status = "success" => d \in Recorded
        /\ \/ MarkKept(d)
           \/ row'[d].status = "interrupted" /\ "marker" \in row'[d].log
    BY <1>5, SettlesEffect DEF Bears, Recorded, MarkKept
  <2>2. SeenAt(d)
    BY <1>1, <1>2, <1>5, SettlesEffect DEF SeenAt
  <2>3. Phase(d) = "over"
    BY <1>5, SettlesEffect DEF Undriven, Phase, RecoveryHolds
  <2>4. QED
    BY <1>1, <1>3, <2>1, <2>2, <2>3, Seen DEF Contract!Sweep, Contract!SetRow, Contract!Proven
<1>6. ASSUME NEW d \in Deploys, SweepUpgrades(d)
      PROVE  Contract!Upgrade(d)
  <2>1. /\ row[d].status = "interrupted" /\ d \in Marked \cap Recorded
        /\ row'[d].status = "success" /\ MarkKept(d)
    BY <1>6, UpgradesEffect DEF Marked, Recorded, MarkKept
  <2>2. SeenAt(d)
    BY <1>1, <1>2, <1>6, UpgradesEffect DEF SeenAt
  <2>3. Phase(d) = "over"
    BY <1>6, UpgradesEffect DEF Undriven, Phase, RecoveryHolds
  <2>4. QED
    BY <1>1, <1>3, <2>1, <2>2, <2>3, Seen DEF Contract!Upgrade, Contract!SetRow
<1>7. QED
  BY <1>4, <1>5, <1>6, SweepWrites DEF Contract!ContractNext

LEMMA WorldContract ==
  ASSUME IInv, OutcomeInv, World
  PROVE  [Contract!ContractNext]_(Contract!contractVars)
<1>1. CASE Crash
  <2>1. StatusOf' = StatusOf /\ Marked' = Marked /\ Recorded' = Recorded
    BY <1>1, CrashKept DEF IInv, StatusOf, Marked, Recorded
  <2>2. ASSUME NEW d \in Deploys
        PROVE  Phase(d)' = (IF PhaseOf[d] = "none" THEN "none" ELSE "over")
    BY <1>1, <2>2, CrashKept DEF IInv, Phase, PhaseOf, RecoveryHolds
  <2>3. PhaseOf' = [d \in Deploys |-> IF PhaseOf[d] = "none" THEN "none" ELSE "over"]
    BY <2>2 DEF PhaseOf
  <2>4. QED
    BY <2>1, <2>3 DEF Contract!ContractNext, Contract!Restart
<1>2. ASSUME NEW d \in Deploys, RelayFinish(d) \/ RelayStops(d)
      PROVE  [Contract!ContractNext]_(Contract!contractVars)
  <2>1. StatusOf' = StatusOf /\ PhaseOf' = PhaseOf /\ Marked' = Marked
    BY <1>2, RelayKept
       DEF IInv, StatusOf, PhaseOf, Phase, RecoveryHolds, Marked, driver, recovery
  <2>2. Recorded' = Recorded \/ Recorded' = Recorded \cup {d}
    BY <1>2, RelayKept DEF IInv, Recorded
  <2>3. QED
    BY <2>1, <2>2 DEF Contract!ContractNext, Contract!Record, Contract!contractVars
<1>3. CASE \E d \in Deploys : RowAges(d)
  <2>1. PICK d \in Deploys : RowAges(d)
    BY <1>3
  <2>2. \A e \in Deploys : /\ row'[e].status = row[e].status /\ row'[e].log = row[e].log
                            /\ pc'[e] = pc[e] /\ rpc'[e] = rpc[e] /\ relay'[e] = relay[e]
    BY <2>1, AgesKept DEF IInv, driver, recovery
  <2>3. QED
    BY <2>2 DEF StatusOf, PhaseOf, Phase, RecoveryHolds, Marked, Recorded, Contract!contractVars
<1>4. CASE (\E d \in Deploys : GraceEnds(d)) \/ (\E a \in Apps : CardAges(a))
  BY <1>4 DEF GraceEnds, CardAges, database, driver, recovery, StatusOf, PhaseOf, Phase, RecoveryHolds,
              Marked, Recorded, Contract!contractVars
<1>5. QED
  BY <1>1, <1>2, <1>3, <1>4 DEF World

LEMMA StepsKeepContract ==
  ASSUME IInv, OutcomeInv, [Next]_vars
  PROVE  [Contract!ContractNext]_(Contract!contractVars)
<1>1. CASE UNCHANGED vars
  BY <1>1 DEF vars, StatusOf, PhaseOf, Phase, RecoveryHolds, Marked, Recorded, Contract!contractVars
<1>2. QED
  BY <1>1, ActorWorks, WorksContract, SweepContract, WorldContract DEF Next

\* The lifecycle implements the contract of a Deploy row, for every number of deploys,
\* apps, restarts and failed database calls.
THEOREM LifecycleKeepsContract == Spec => KeepsContract
<1>1. Init => Contract!ContractInit
  BY DEF Init, NoRow, StatusOf, PhaseOf, Phase, Marked, Recorded, Contract!ContractInit
<1>2. QED
  BY <1>1, OutcomesAreSound, StepsKeepContract, PTL DEF Spec, KeepsContract, Contract!ContractSpec

-----------------------------------------------------------------------------
(* Outcomes. *)

\* What a step may make of the status of a row.
Rightly(d) ==
  \/ row'[d].status = row[d].status
  \/ row[d].status = "none" /\ row'[d].status = "running"
  \/ /\ row[d].status = "running"
     /\ row'[d].status = "success" => relay[d] = "success" \/ CleanStream(d)
  \/ RecoveryHolds(d) /\ Bears(d, row'[d].status)
  \/ /\ row[d].status = "interrupted" /\ "marker" \in row[d].log
     /\ row'[d].status = "success" /\ relay[d] = "success"

LEMMA RowsChangeRightly ==
  ASSUME IInv, OutcomeInv, [Next]_vars, NEW d \in Deploys
  PROVE  Rightly(d)
<1>1. ASSUME NEW e \in Deploys, Works(e)
      PROVE  Rightly(d)
  <2>1. CASE e = d
    <3>1. Phase(d) = "none" => row[d].status = "none"
      BY DEF Phase
    <3>2. Phase(d) = "lost" => RecoveryHolds(d)
      BY DEF Phase
    <3>3. QED
      BY <1>1, <2>1, <3>1, <3>2 DEF Works, Change, Rightly, Bears
  <2>2. CASE e # d
    BY <1>1, <2>2 DEF Works, Alone, Rightly
  <2>3. QED
    BY <2>1, <2>2
<1>2. CASE Sweep
  <2>1. ASSUME NEW e \in Deploys, SweepSettles(e)
        PROVE  Rightly(d)
    BY <2>1, SettlesEffect DEF Rightly, Bears
  <2>2. ASSUME NEW e \in Deploys, SweepUpgrades(e)
        PROVE  Rightly(d)
    BY <2>2, UpgradesEffect DEF Rightly
  <2>3. QED
    BY <1>2, <2>1, <2>2, SweepWrites DEF Rightly
<1>3. CASE World
  <2>1. ASSUME NEW e \in Deploys, RowAges(e)
        PROVE  Rightly(d)
    BY <2>1, AgesKept DEF IInv, Rightly
  <2>2. CASE UNCHANGED row
    BY <2>2 DEF Rightly
  <2>3. QED
    BY <1>3, <2>1, <2>2 DEF World, Crash, RelayFinish, RelayStops, GraceEnds, CardAges, database
<1>4. CASE UNCHANGED vars
  BY <1>4 DEF vars, Rightly
<1>5. QED
  BY <1>1, <1>2, <1>3, <1>4, ActorWorks DEF Next

\* A success rests on the relay's record of the deploy or on a clean stream
\* (stream-deploy.ts, deploy-recovery.ts, startup.ts).
THEOREM SuccessRestsOnProof == Spec => SuccessIsEarned
<1>1. ASSUME IInv, OutcomeInv, [Next]_vars, NEW d \in Deploys,
             row[d].status # "success" /\ row'[d].status = "success"
      PROVE  relay[d] = "success" \/ CleanStream(d)
  BY <1>1, RowsChangeRightly DEF Rightly, Bears
<1>2. IInv /\ OutcomeInv /\ [Next]_vars =>
        [\A d \in Deploys :
           row[d].status # "success" /\ row'[d].status = "success"
           => relay[d] = "success" \/ CleanStream(d)]_vars
  BY <1>1
<1>3. QED
  BY <1>2, OutcomesAreSound, PTL DEF Spec, SuccessIsEarned

\* Only a row's own recovery or the upgrade of an unverified self-deploy replaces an
\* outcome (deploy-recovery.ts, startup.ts).
THEOREM SettledRowsStay == Spec => OutcomesAreNotOverwritten
<1>1. ASSUME IInv, OutcomeInv, [Next]_vars, NEW d \in Deploys,
             row[d].status \in Settled /\ row'[d].status # row[d].status
      PROVE  \/ RecoveryHolds(d)
             \/ /\ row[d].status = "interrupted" /\ "marker" \in row[d].log
                /\ row'[d].status = "success" /\ relay[d] = "success"
  BY <1>1, RowsChangeRightly DEF Rightly, Settled
<1>2. IInv /\ OutcomeInv /\ [Next]_vars =>
        [\A d \in Deploys :
           row[d].status \in Settled /\ row'[d].status # row[d].status
           => \/ RecoveryHolds(d)
              \/ /\ row[d].status = "interrupted" /\ "marker" \in row[d].log
                 /\ row'[d].status = "success" /\ relay[d] = "success"]_vars
  BY <1>1
<1>3. QED
  BY <1>2, OutcomesAreSound, PTL DEF Spec, OutcomesAreNotOverwritten

\* A card whose app runs a deploy is left alone by the reconcile, whenever the deploy
\* started (startup.ts, reconcileDeployingApps).
THEOREM ReconcileYields == Spec => ReconcileSparesNewDeploys
<1>1. ASSUME IInv, [Next]_vars, NEW a \in Apps, At("reconcile"), plan'[a] # plan[a], RunningOf(a) # {}
      PROVE  card'[a] = card[a]
  <2>1. ASSUME NEW b \in Apps, ReconcileApp(b)
        PROVE  card'[a] = card[a]
    <3>1. ~LeftOnDeploying(a)
      BY <1>1 DEF LeftOnDeploying
    <3>2. CASE a = b
      BY <2>1, <3>1, <3>2 DEF ReconcileApp
    <3>3. CASE a # b
      BY <1>1, <2>1, <3>3 DEF ReconcileApp, Planned, IInv, TypeOK
    <3>4. QED
      BY <3>2, <3>3
  <2>2. CASE Crash
    BY <2>2 DEF Crash, database
  <2>3. ASSUME NEW d \in Deploys,
               Dispatch(d) \/ Stream(d) \/ RollbackCreate(d) \/ Rollback(d) \/ Recovery(d)
        PROVE  UNCHANGED sweeper
    <3>1. Keeps(d)
      BY <1>1, <2>3, DispatchKeeps, StreamKeeps, RollbackKeeps, RecoveryKeeps DEF IInv
    <3>2. QED
      BY <3>1 DEF Keeps
  <2>4. ASSUME Sweep
        PROVE  \E b \in Apps : ReconcileApp(b)
    BY <1>1, <2>4
       DEF Sweep, SweepStart, SweepQuery, UpgradeQuery, ReconcileQuery, SweepRow, SweepAssess, SweepWaits,
           SweepFinalize, SweepSibling, SweepCard, UpgradeCheck, UpgradeRow, UpgradeCard, At
  <2>5. ASSUME World, ~Crash
        PROVE  UNCHANGED sweeper
    BY <2>5 DEF World, RelayFinish, RelayStops, RowAges, GraceEnds, CardAges
  <2>6. CASE UNCHANGED vars
    BY <1>1, <2>6 DEF vars
  <2>7. QED
    BY <1>1, <2>1, <2>2, <2>3, <2>4, <2>5, <2>6 DEF Next, sweeper
<1>2. IInv /\ [Next]_vars =>
        [\A a \in Apps : At("reconcile") /\ plan'[a] # plan[a] /\ RunningOf(a) # {}
                         => card'[a] = card[a]]_vars
  BY <1>1
<1>3. QED
  BY <1>2, Inductive, PTL DEF Spec, ReconcileSparesNewDeploys

=============================================================================
