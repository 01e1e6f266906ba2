------------------------ MODULE LifecycleTypes ------------------------
(***************************************************************************)
(* What holds of the lifecycle for any set of rows and apps, any number of *)
(* restarts and any number of failed database calls.                       *)
(***************************************************************************)
EXTENDS DeployLifecycle, FiniteSetTheorems, TLAPS

-----------------------------------------------------------------------------
(* Types of what the writes leave. *)

LEMMA WriteRowType ==
  ASSUME TypeOK, NEW d \in Deploys, NEW s \in {"none", "running"} \cup Settled,
         NEW log \in SUBSET Kept, WriteRow(d, s, log)
  PROVE  row' \in [Deploys -> Rows]
<1>1. row[d].born \in Nat /\ (row[d].aged /\ s = "running") \in BOOLEAN
  BY DEF TypeOK, Rows
<1>2. [status |-> s, born |-> row[d].born,
       aged |-> row[d].aged /\ s = "running", log |-> log] \in Rows
  BY <1>1 DEF Rows
<1> QED
  BY <1>2 DEF TypeOK, WriteRow

LEMMA WriteCardType ==
  ASSUME TypeOK, NEW a \in Apps, NEW s \in CardStatus, WriteCard(a, s)
  PROVE  card' \in [Apps -> [status : CardStatus, aged : BOOLEAN]]
BY DEF TypeOK, WriteCard

LEMMA CreateRowType ==
  ASSUME TypeOK, NEW d \in Deploys, CreateRow(d)
  PROVE  row' \in [Deploys -> Rows]
<1> DEFINE known == {e \in Deploys : row[e].status # "none"}
<1>1. Cardinality(known) \in Nat
  BY ConstantsOK, FS_Subset, FS_CardinalityType
<1> QED
  BY <1>1 DEF TypeOK, CreateRow, Rows, Kept, Settled

LEMMA FaultType ==
  ASSUME TypeOK, Fault \/ NoFault
  PROVE  faults' \in 0..MaxFaults
BY ConstantsOK DEF TypeOK, Fault, NoFault

-----------------------------------------------------------------------------
(* Types of the locals and of the moves of a process. *)

LEMMA LocalsType == NoLocals \in Locals
BY DEF Locals, NoLocals, CardStatus

LEMMA RecoveryLocalsType == NoRecovery \in RecoveryLocals
BY DEF RecoveryLocals, NoRecovery, RecoveryVerdicts

LEMMA StepType ==
  ASSUME TypeOK, NEW d \in Deploys, NEW to \in DriverPcs, NEW l \in Locals,
         Step(d, to) \/ StepWith(d, to, l)
  PROVE  pc' \in [Deploys -> DriverPcs] /\ loc' \in [Deploys -> Locals]
BY DEF TypeOK, Step, StepWith

LEMMA RecoveryStepType ==
  ASSUME TypeOK, NEW d \in Deploys, NEW to \in RecoveryPcs, NEW l \in RecoveryLocals,
         RecoveryStepWith(d, to, l)
  PROVE  rpc' \in [Deploys -> RecoveryPcs] /\ rloc' \in [Deploys -> RecoveryLocals]
BY DEF TypeOK, RecoveryStepWith

LEMMA RegistryType ==
  ASSUME TypeOK, NEW d \in Deploys
  PROVE  /\ RegisterActiveDeploy(refs, d) \in [Deploys -> Nat]
         /\ ReleaseActiveDeploy(refs, d) \in [Deploys -> Nat]
         /\ ReleaseActiveDeploy(RegisterActiveDeploy(refs, d), d) \in [Deploys -> Nat]
BY DEF TypeOK, RegisterActiveDeploy, ReleaseActiveDeploy

LEMMA GoneType ==
  ASSUME TypeOK, NEW d \in Deploys, Gone(d)
  PROVE  pc' \in [Deploys -> DriverPcs] /\ loc' \in [Deploys -> Locals]
BY StepType, LocalsType DEF Gone, DriverPcs

LEMMA RecoverType ==
  ASSUME TypeOK, NEW d \in Deploys, Recover(d)
  PROVE  /\ pc' \in [Deploys -> DriverPcs] /\ loc' \in [Deploys -> Locals]
         /\ rpc' \in [Deploys -> RecoveryPcs] /\ rloc' \in [Deploys -> RecoveryLocals]
         /\ refs' \in [Deploys -> Nat]
<1>1. "recovering" \in DriverPcs /\ "load" \in RecoveryPcs
  BY DEF DriverPcs, HoldPcs, StreamPcs, RecoveryPcs
<1> QED
  BY <1>1, StepType, RecoveryStepType, RegistryType, LocalsType, RecoveryLocalsType
     DEF Recover, StartRecovery

LEMMA HandOffType ==
  ASSUME TypeOK, NEW d \in Deploys, HandOff(d)
  PROVE  /\ pc' \in [Deploys -> DriverPcs] /\ loc' \in [Deploys -> Locals]
         /\ rpc' \in [Deploys -> RecoveryPcs] /\ rloc' \in [Deploys -> RecoveryLocals]
         /\ refs' \in [Deploys -> Nat]
<1>1. "load" \in RecoveryPcs
  BY DEF RecoveryPcs
<1> QED
  BY <1>1, GoneType, RecoveryStepType, RegistryType, RecoveryLocalsType
     DEF HandOff, StartRecovery

LEMMA PcNames ==
  /\ {"idle", "captured", "gone", "created", "marked", "rbCreated"} \subseteq DriverPcs
  /\ {"provision", "post", "reading", "gate", "finRow", "finCard", "blockRow", "blockRead",
      "blockCard", "failRow", "failCard", "recovering", "finish"} \subseteq DriverPcs
  /\ {"rbCall", "rbRow", "rbGate", "rbCard", "rbRejectRow", "rbRejectCard",
      "rbFreeGate", "rbFreeCard"} \subseteq DriverPcs
  /\ {"idle", "load", "gate", "target", "row", "card", "done"} \subseteq RecoveryPcs
BY DEF DriverPcs, OpeningPcs, HoldPcs, StreamPcs, RollbackPcs, FreePcs, RecoveryPcs

LEMMA AfterWritesType ==
  ASSUME TypeOK, NEW d \in Deploys, AfterWrites(d)
  PROVE  pc' \in [Deploys -> DriverPcs] /\ loc' \in [Deploys -> Locals]
BY StepType, LocalsType, PcNames DEF AfterWrites

LEMMA BlockDeployType ==
  ASSUME TypeOK, NEW d \in Deploys, NEW keep \in BOOLEAN, NEW fin \in BOOLEAN,
         BlockDeploy(d, keep, fin)
  PROVE  pc' \in [Deploys -> DriverPcs] /\ loc' \in [Deploys -> Locals]
<1>1. loc[d] \in Locals
  BY DEF TypeOK
<1>2. [loc[d] EXCEPT !.keep = keep, !.fin = fin] \in Locals
  BY <1>1 DEF Locals
<1> QED
  BY <1>2, StepType, PcNames DEF BlockDeploy

LEMMA FinalizeType ==
  ASSUME TypeOK, NEW d \in Deploys, NEW claim \in BOOLEAN, NEW fin \in BOOLEAN,
         NEW steps \in SUBSET StepMarks, Finalize(d, claim, steps, fin)
  PROVE  pc' \in [Deploys -> DriverPcs] /\ loc' \in [Deploys -> Locals]
<1>1. [NoLocals EXCEPT !.steps = steps, !.claim = claim, !.fin = fin] \in Locals
  BY DEF Locals, NoLocals, CardStatus
<1> QED
  BY <1>1, StepType, PcNames DEF Finalize

LEMMA WriteThrowsType ==
  ASSUME TypeOK, NEW d \in Deploys, WriteThrows(d)
  PROVE  TypeOK'
<1>1. faults' \in 0..MaxFaults
  BY FaultType DEF WriteThrows
<1>2. /\ pc' \in [Deploys -> DriverPcs] /\ loc' \in [Deploys -> Locals]
      /\ rpc' \in [Deploys -> RecoveryPcs] /\ rloc' \in [Deploys -> RecoveryLocals]
      /\ refs' \in [Deploys -> Nat]
  <2>1. CASE loc[d].fin
    BY <2>1, StepType, LocalsType, PcNames DEF WriteThrows, recovery, TypeOK
  <2>2. CASE ~loc[d].fin
    BY <2>2, RecoverType DEF WriteThrows
  <2> QED
    BY <2>1, <2>2
<1> QED
  BY <1>1, <1>2 DEF WriteThrows, TypeOK, database, sweeper

LEMMA DispatchStartType ==
  ASSUME TypeOK, NEW d \in Deploys, DispatchStart(d)
  PROVE  TypeOK'
<1>1. faults' \in 0..MaxFaults
  BY FaultType DEF DispatchStart
<1>2. pc' \in [Deploys -> DriverPcs] /\ loc' \in [Deploys -> Locals]
  BY StepType, GoneType, LocalsType, PcNames DEF DispatchStart
<1>3. refs' \in [Deploys -> Nat]
  BY RegistryType DEF DispatchStart, TypeOK
<1> QED
  BY <1>1, <1>2, <1>3 DEF DispatchStart, TypeOK, database, recovery, sweeper

LEMMA ProvisionType ==
  ASSUME TypeOK, NEW d \in Deploys, Provision(d)
  PROVE  TypeOK'
<1>1. [loc[d] EXCEPT !.steps = IF AppOf[d] \in SecretApps THEN {"prov"} ELSE {}] \in Locals
  <2>1. loc[d] \in Locals /\ (IF AppOf[d] \in SecretApps THEN {"prov"} ELSE {}) \in SUBSET StepMarks
    BY DEF TypeOK, StepMarks
  <2> QED
    BY <2>1 DEF Locals
<1>2. pc' \in [Deploys -> DriverPcs] /\ loc' \in [Deploys -> Locals]
  BY <1>1, StepType, PcNames DEF Provision
<1> QED
  BY <1>2 DEF Provision, TypeOK, database, recovery, sweeper

LEMMA EnvPreflightFailsType ==
  ASSUME TypeOK, NEW d \in Deploys, EnvPreflightFails(d)
  PROVE  TypeOK'
BY BlockDeployType DEF EnvPreflightFails, CapturedDeploying, TypeOK, database, recovery, sweeper

LEMMA StepEventType ==
  ASSUME TypeOK, NEW d \in Deploys, StepEvent(d)
  PROVE  TypeOK'
<1>1. PICK marks \in StepKinds :
        LET steps == loc[d].steps \cup marks IN
        /\ StepWith(d, "reading", [loc[d] EXCEPT !.steps = steps])
        /\ relay' = [relay EXCEPT ![d] = IF "bad" \in marks THEN "doomed" ELSE @]
        /\ \/ NoFault /\ WriteRow(d, row[d].status, Visible(steps))
           \/ Fault /\ UNCHANGED row
  BY DEF StepEvent
<1> DEFINE steps == loc[d].steps \cup marks
<1>2. steps \in SUBSET StepMarks
  BY ConstantsOK DEF TypeOK, Locals, StepMarks
<1>3. pc' \in [Deploys -> DriverPcs] /\ loc' \in [Deploys -> Locals]
  <2>1. [loc[d] EXCEPT !.steps = steps] \in Locals
    <3>1. loc[d] \in Locals
      BY DEF TypeOK
    <3> QED
      BY <1>2, <3>1 DEF Locals
  <2> QED
    BY <1>1, <2>1, StepType, PcNames
<1>4. faults' \in 0..MaxFaults
  BY <1>1, FaultType
<1>5. row' \in [Deploys -> Rows]
  <2>1. Visible(steps) \in SUBSET Kept /\ row[d].status \in {"none", "running"} \cup Settled
    BY DEF Visible, TypeOK, Rows
  <2> QED
    BY <1>1, <2>1, WriteRowType DEF TypeOK
<1>6. relay' \in [Deploys -> RelayStates]
  BY <1>1 DEF TypeOK, RelayStates
<1> QED
  BY <1>3, <1>4, <1>5, <1>6 DEF StepEvent, TypeOK, recovery, sweeper

LEMMA DoneEventType ==
  ASSUME TypeOK, NEW d \in Deploys, DoneEvent(d)
  PROVE  TypeOK'
<1>1. loc[d].steps \in SUBSET StepMarks
  BY DEF TypeOK, Locals
<1>2. pc' \in [Deploys -> DriverPcs] /\ loc' \in [Deploys -> Locals]
  BY <1>1, FinalizeType DEF DoneEvent
<1> QED
  BY <1>2 DEF DoneEvent, TypeOK, database, recovery, sweeper

LEMMA BlockedEventType ==
  ASSUME TypeOK, NEW d \in Deploys, BlockedEvent(d)
  PROVE  TypeOK'
<1>1. pc' \in [Deploys -> DriverPcs] /\ loc' \in [Deploys -> Locals]
  BY BlockDeployType DEF BlockedEvent, CapturedDeploying
<1>2. relay' \in [Deploys -> RelayStates]
  BY DEF BlockedEvent, TypeOK, RelayStates
<1> QED
  BY <1>1, <1>2 DEF BlockedEvent, TypeOK, database, recovery, sweeper

LEMMA ErrorEventType ==
  ASSUME TypeOK, NEW d \in Deploys, ErrorEvent(d)
  PROVE  TypeOK'
<1>1. [loc[d] EXCEPT !.fin = TRUE] \in Locals
  <2>1. loc[d] \in Locals
    BY DEF TypeOK
  <2> QED
    BY <2>1 DEF Locals
<1>2. pc' \in [Deploys -> DriverPcs] /\ loc' \in [Deploys -> Locals]
  BY <1>1, StepType, PcNames DEF ErrorEvent
<1>3. relay' \in [Deploys -> RelayStates]
  BY DEF ErrorEvent, TypeOK, RelayStates
<1> QED
  BY <1>2, <1>3 DEF ErrorEvent, TypeOK, database, recovery, sweeper

LEMMA JsonReplyType ==
  ASSUME TypeOK, NEW d \in Deploys, JsonReply(d)
  PROVE  TypeOK'
<1>1. pc' \in [Deploys -> DriverPcs] /\ loc' \in [Deploys -> Locals]
  <2>1. CASE Step(d, "failRow")
    BY <2>1, StepType, LocalsType, PcNames
  <2>2. CASE BlockDeploy(d, CapturedDeploying(d), FALSE)
    BY <2>2, BlockDeployType DEF CapturedDeploying
  <2>3. CASE \E claim \in {FALSE, relay[d] = "success"}, marks \in {{}} \cup StepKinds :
               Finalize(d, claim, loc[d].steps \cup marks, FALSE)
    <3>1. PICK claim \in BOOLEAN, marks \in {{}} \cup StepKinds :
            Finalize(d, claim, loc[d].steps \cup marks, FALSE)
      BY <2>3
    <3>2. loc[d].steps \cup marks \in SUBSET StepMarks
      <4>1. marks \in SUBSET StepMarks
        BY ConstantsOK DEF StepMarks
      <4>2. loc[d].steps \in SUBSET StepMarks
        BY DEF TypeOK, Locals
      <4> QED
        BY <4>1, <4>2
    <3> QED
      BY <3>1, <3>2, FinalizeType
  <2> QED
    BY <2>1, <2>2, <2>3 DEF JsonReply
<1>2. relay' \in [Deploys -> RelayStates]
  BY DEF JsonReply, TypeOK, RelayStates
<1> QED
  BY <1>1, <1>2 DEF JsonReply, TypeOK, database, recovery, sweeper

LEMMA StreamEndsType ==
  ASSUME TypeOK, NEW d \in Deploys, StreamEnds(d)
  PROVE  TypeOK'
<1>1. loc[d].steps \in SUBSET StepMarks /\ AllSuccess(loc[d].steps) \in BOOLEAN
  BY DEF TypeOK, Locals, AllSuccess
<1>2. pc' \in [Deploys -> DriverPcs] /\ loc' \in [Deploys -> Locals]
  BY <1>1, FinalizeType, StepType, LocalsType, PcNames DEF StreamEnds
<1> QED
  BY <1>2 DEF StreamEnds, TypeOK, database, recovery, sweeper

LEMMA FinalizeRowType ==
  ASSUME TypeOK, NEW d \in Deploys, FinalizeRow(d)
  PROVE  TypeOK'
<1> DEFINE status == IF loc[d].ok THEN "success" ELSE "failed"
<1> DEFINE log == Visible(loc[d].steps) \cup (IF loc[d].claim /\ ~loc[d].ok THEN {"bad"} ELSE {})
<1>1. CASE NoFault /\ WriteRow(d, status, log) /\ Step(d, "finCard")
           /\ UNCHANGED <<card, stamps, relay, refs, recovery, sweeper, waited, crashes>>
  <2>1. status \in {"none", "running"} \cup Settled /\ log \in SUBSET Kept
    BY DEF Settled, Visible, Kept
  <2>2. row' \in [Deploys -> Rows]
    BY <1>1, <2>1, WriteRowType
  <2>3. pc' \in [Deploys -> DriverPcs] /\ loc' \in [Deploys -> Locals]
    BY <1>1, StepType, LocalsType, PcNames
  <2>4. faults' \in 0..MaxFaults
    BY <1>1, FaultType
  <2> QED
    BY <1>1, <2>2, <2>3, <2>4 DEF TypeOK, recovery, sweeper
<1> QED
  BY <1>1, WriteThrowsType DEF FinalizeRow

LEMMA BlockCardType ==
  ASSUME TypeOK, NEW d \in Deploys, BlockCard(d)
  PROVE  TypeOK'
<1>1. CASE NoFault /\ WriteCard(AppOf[d], loc[d].prev) /\ AfterWrites(d)
           /\ UNCHANGED <<row, stamps, relay, refs, recovery, sweeper, waited, crashes>>
  <2>1. AppOf[d] \in Apps /\ loc[d].prev \in CardStatus
    BY ConstantsOK DEF TypeOK, Locals
  <2>2. card' \in [Apps -> [status : CardStatus, aged : BOOLEAN]]
    BY <1>1, <2>1, WriteCardType
  <2>3. faults' \in 0..MaxFaults
    BY <1>1, FaultType
  <2> QED
    BY <1>1, <2>2, <2>3, AfterWritesType DEF TypeOK, recovery, sweeper
<1> QED
  BY <1>1, WriteThrowsType DEF BlockCard

LEMMA RollbackRowType ==
  ASSUME TypeOK, NEW d \in Deploys, RollbackRow(d)
  PROVE  TypeOK'
<1>1. CASE /\ NoFault
           /\ WriteRow(d, IF loc[d].ok THEN "rolled_back" ELSE "failed", {})
           /\ \/ Step(d, "rbGate") /\ UNCHANGED refs
              \/ Step(d, "rbFreeGate") /\ refs' = ReleaseActiveDeploy(refs, d)
           /\ UNCHANGED <<card, stamps, relay, recovery, sweeper, waited, crashes>>
  <2>1. (IF loc[d].ok THEN "rolled_back" ELSE "failed") \in {"none", "running"} \cup Settled
    BY DEF Settled
  <2>2. row' \in [Deploys -> Rows]
    BY <1>1, <2>1, WriteRowType
  <2>3. pc' \in [Deploys -> DriverPcs] /\ loc' \in [Deploys -> Locals]
    BY <1>1, StepType, LocalsType, PcNames
  <2>4. refs' \in [Deploys -> Nat]
    BY <1>1, RegistryType DEF TypeOK
  <2>5. faults' \in 0..MaxFaults
    BY <1>1, FaultType
  <2> QED
    BY <1>1, <2>2, <2>3, <2>4, <2>5 DEF TypeOK, recovery, sweeper
<1>2. CASE Fault /\ HandOff(d) /\ UNCHANGED <<database, relay, sweeper, waited, crashes>>
  BY <1>2, FaultType, HandOffType DEF TypeOK, database, sweeper
<1> QED
  BY <1>1, <1>2 DEF RollbackRow

LEMMA JudgeType ==
  ASSUME TypeOK, NEW d \in Deploys, NEW v \in RecoveryVerdicts, Judge(d, v)
  PROVE  rpc' \in [Deploys -> RecoveryPcs] /\ rloc' \in [Deploys -> RecoveryLocals]
<1>1. rloc[d] \in RecoveryLocals
  BY DEF TypeOK
<1>2. [rloc[d] EXCEPT !.verdict = v] \in RecoveryLocals
  BY <1>1 DEF RecoveryLocals
<1> QED
  BY <1>2, RecoveryStepType, PcNames DEF Judge

LEMMA RecoveryMoveType ==
  ASSUME TypeOK, NEW d \in Deploys, NEW to \in RecoveryPcs,
         RecoveryStep(d, to) \/ RecoveryEnds(d)
  PROVE  rpc' \in [Deploys -> RecoveryPcs] /\ rloc' \in [Deploys -> RecoveryLocals]
<1>1. rloc[d] \in RecoveryLocals /\ NoRecovery \in RecoveryLocals /\ "idle" \in RecoveryPcs
  BY RecoveryLocalsType, PcNames DEF TypeOK
<1> QED
  BY <1>1, RecoveryStepType DEF RecoveryStep, RecoveryEnds

LEMMA RecoveryLoadType ==
  ASSUME TypeOK, NEW d \in Deploys, RecoveryLoad(d)
  PROVE  TypeOK'
<1>1. rloc[d] \in RecoveryLocals /\ row[d].log \in SUBSET Kept
  BY DEF TypeOK, Rows
<1>2. [rloc[d] EXCEPT !.log = row[d].log] \in RecoveryLocals
  BY <1>1 DEF RecoveryLocals
<1>3. [rloc[d] EXCEPT !.blind = TRUE] \in RecoveryLocals
  BY <1>1 DEF RecoveryLocals
<1>4. rpc' \in [Deploys -> RecoveryPcs] /\ rloc' \in [Deploys -> RecoveryLocals]
  BY <1>2, <1>3, RecoveryStepType, PcNames DEF RecoveryLoad
<1>5. faults' \in 0..MaxFaults
  BY FaultType DEF RecoveryLoad
<1> QED
  BY <1>4, <1>5 DEF RecoveryLoad, TypeOK, database, driver, sweeper

LEMMA RecoveryJudgesType ==
  ASSUME TypeOK, NEW d \in Deploys, RecoveryGate(d) \/ RecoveryThrows(d) \/ RecoveryTarget(d)
  PROVE  TypeOK'
<1>1. rpc' \in [Deploys -> RecoveryPcs] /\ rloc' \in [Deploys -> RecoveryLocals]
  <2>1. {"unhealthy", "rolledback", "unproven", "proven"} \subseteq RecoveryVerdicts
    BY DEF RecoveryVerdicts
  <2> QED
    BY <2>1, JudgeType, RecoveryMoveType, PcNames DEF RecoveryGate, RecoveryThrows, RecoveryTarget
<1>2. faults' \in 0..MaxFaults
  BY FaultType DEF RecoveryGate, RecoveryThrows, RecoveryTarget, TypeOK
<1> QED
  BY <1>1, <1>2 DEF RecoveryGate, RecoveryThrows, RecoveryTarget, TypeOK, database, driver, sweeper

LEMMA RecoveryRowType ==
  ASSUME TypeOK, NEW d \in Deploys, RecoveryRow(d)
  PROVE  TypeOK'
<1> DEFINE log == rloc[d].log \cup (IF rloc[d].verdict = "proven" THEN {} ELSE {"bad"})
<1>1. RecoveredStatus(rloc[d].verdict) \in {"none", "running"} \cup Settled
  BY DEF RecoveredStatus, Settled
<1>2. log \in SUBSET Kept
  BY DEF TypeOK, RecoveryLocals, Kept
<1>3. row' \in [Deploys -> Rows]
  BY <1>1, <1>2, WriteRowType DEF RecoveryRow, TypeOK
<1>4. rpc' \in [Deploys -> RecoveryPcs] /\ rloc' \in [Deploys -> RecoveryLocals]
  BY RecoveryMoveType, PcNames DEF RecoveryRow
<1>5. faults' \in 0..MaxFaults
  BY FaultType DEF RecoveryRow
<1> QED
  BY <1>3, <1>4, <1>5 DEF RecoveryRow, TypeOK, driver, sweeper

LEMMA RecoveryCardType ==
  ASSUME TypeOK, NEW d \in Deploys, RecoveryCard(d)
  PROVE  TypeOK'
<1>1. AppOf[d] \in Apps
      /\ (IF rloc[d].verdict = "unhealthy" THEN "unhealthy" ELSE "healthy") \in CardStatus
  BY ConstantsOK DEF CardStatus
<1>2. card' \in [Apps -> [status : CardStatus, aged : BOOLEAN]]
  BY <1>1, WriteCardType DEF RecoveryCard, TypeOK
<1>3. rpc' \in [Deploys -> RecoveryPcs] /\ rloc' \in [Deploys -> RecoveryLocals]
  BY RecoveryMoveType, PcNames DEF RecoveryCard
<1>4. faults' \in 0..MaxFaults
  BY FaultType DEF RecoveryCard
<1> QED
  BY <1>2, <1>3, <1>4 DEF RecoveryCard, TypeOK, driver, sweeper

LEMMA RecoveryDoneType ==
  ASSUME TypeOK, NEW d \in Deploys, RecoveryDone(d)
  PROVE  TypeOK'
<1>1. rpc' \in [Deploys -> RecoveryPcs] /\ rloc' \in [Deploys -> RecoveryLocals]
  BY RecoveryMoveType, PcNames DEF RecoveryDone
<1>2. pc' \in [Deploys -> DriverPcs] /\ loc' \in [Deploys -> Locals]
  BY StepType, LocalsType, PcNames DEF RecoveryDone, TypeOK, driver
<1>3. refs' \in [Deploys -> Nat]
  BY RegistryType DEF RecoveryDone
<1> QED
  BY <1>1, <1>2, <1>3 DEF RecoveryDone, TypeOK, database, sweeper

LEMMA RelayFinishType ==
  ASSUME TypeOK, NEW d \in Deploys, RelayFinish(d) \/ RelayStops(d)
  PROVE  TypeOK'
<1>1. relay' \in [Deploys -> RelayStates]
  BY DEF RelayFinish, RelayStops, TypeOK, RelayStates
<1> QED
  BY <1>1 DEF RelayFinish, RelayStops, TypeOK, database, driver, recovery, sweeper

LEMMA RowAgesType ==
  ASSUME TypeOK, NEW d \in Deploys, RowAges(d)
  PROVE  TypeOK'
<1>1. row[d] \in Rows
  BY DEF TypeOK
<1>2. [row[d] EXCEPT !.aged = TRUE] \in Rows
  BY <1>1 DEF Rows
<1>3. row' \in [Deploys -> Rows]
  BY <1>2 DEF RowAges, TypeOK
<1> QED
  BY <1>3 DEF RowAges, TypeOK, driver, recovery, sweeper

LEMMA CardAgesType ==
  ASSUME TypeOK, NEW a \in Apps, CardAges(a)
  PROVE  TypeOK'
<1>1. card' \in [Apps -> [status : CardStatus, aged : BOOLEAN]]
  BY DEF CardAges, TypeOK
<1> QED
  BY <1>1 DEF CardAges, TypeOK, driver, recovery, sweeper

LEMMA SweepStopsType ==
  ASSUME SweepStops
  PROVE  /\ spc' \in SweepPcs /\ todo' \in SUBSET Deploys /\ verdict' \in SweepVerdicts
         /\ plan' \in [Apps -> CardStatus \cup {"keep"}]
BY DEF SweepStops, SweepPcs, SweepVerdicts, NoPlan

LEMMA CrashType ==
  ASSUME TypeOK, Crash
  PROVE  TypeOK'
<1>1. pc' \in [Deploys -> DriverPcs] /\ loc' \in [Deploys -> Locals]
  BY PcNames, LocalsType DEF Crash
<1>2. rpc' \in [Deploys -> RecoveryPcs] /\ rloc' \in [Deploys -> RecoveryLocals]
  BY PcNames, RecoveryLocalsType DEF Crash
<1>3. refs' \in [Deploys -> Nat] /\ waited' \in SUBSET Deploys
  BY DEF Crash
<1>4. crashes' \in 0..MaxCrashes
  BY ConstantsOK DEF Crash, TypeOK
<1> QED
  BY <1>1, <1>2, <1>3, <1>4, SweepStopsType DEF Crash, TypeOK, database

LEMMA SweepStartType ==
  ASSUME TypeOK, SweepStart
  PROVE  TypeOK'
<1>1. spc' \in SweepPcs /\ todo' \in SUBSET Deploys
  BY DEF SweepStart, Visit, SweepPcs
<1> QED
  BY <1>1 DEF SweepStart, Visit, TypeOK, database, driver, recovery

LEMMA SweepQueryType ==
  ASSUME TypeOK, SweepQuery
  PROVE  TypeOK'
<1>1. /\ spc' \in SweepPcs /\ todo' \in SUBSET Deploys /\ verdict' \in SweepVerdicts
      /\ plan' \in [Apps -> CardStatus \cup {"keep"}]
  BY SweepStopsType DEF SweepQuery, Visit, SweepPcs, TypeOK
<1>2. faults' \in 0..MaxFaults
  BY FaultType DEF SweepQuery
<1> QED
  BY <1>1, <1>2 DEF SweepQuery, TypeOK, database, driver, recovery

LEMMA UpgradeQueryType ==
  ASSUME TypeOK, UpgradeQuery
  PROVE  TypeOK'
<1>1. /\ spc' \in SweepPcs /\ todo' \in SUBSET Deploys /\ verdict' \in SweepVerdicts
      /\ plan' \in [Apps -> CardStatus \cup {"keep"}]
  BY DEF UpgradeQuery, Visit, GoTo, SweepPcs, TypeOK
<1>2. faults' \in 0..MaxFaults
  BY FaultType DEF UpgradeQuery
<1> QED
  BY <1>1, <1>2 DEF UpgradeQuery, TypeOK, database, driver, recovery

LEMMA ReconcileQueryType ==
  ASSUME TypeOK, ReconcileQuery
  PROVE  TypeOK'
<1> DEFINE settled == [a \in Apps |-> IF LeftOnDeploying(a) THEN ReconciledStatus(a) ELSE "keep"]
<1>1. \A a \in Apps : ReconciledStatus(a) \in CardStatus
  BY DEF ReconciledStatus, CardStatus
<1>2. /\ spc' \in SweepPcs /\ todo' \in SUBSET Deploys /\ verdict' \in SweepVerdicts
      /\ plan' \in [Apps -> CardStatus \cup {"keep"}]
  BY <1>1, SweepStopsType DEF ReconcileQuery, Planned, SweepPcs, TypeOK
<1>3. faults' \in 0..MaxFaults
  BY FaultType DEF ReconcileQuery
<1> QED
  BY <1>2, <1>3 DEF ReconcileQuery, TypeOK, database, driver, recovery

LEMMA ReconcileAppType ==
  ASSUME TypeOK, NEW a \in Apps, ReconcileApp(a)
  PROVE  TypeOK'
<1>1. spc' \in SweepPcs /\ plan' \in [Apps -> CardStatus \cup {"keep"}]
  BY DEF ReconcileApp, Planned, SweepPcs, TypeOK
<1>2. plan[a] \in CardStatus
  BY DEF ReconcileApp, TypeOK
<1>3. card' \in [Apps -> [status : CardStatus, aged : BOOLEAN]]
  BY <1>2, WriteCardType DEF ReconcileApp, TypeOK
<1>4. faults' \in 0..MaxFaults
  BY FaultType DEF ReconcileApp
<1> QED
  BY <1>1, <1>3, <1>4 DEF ReconcileApp, Planned, TypeOK, database, driver, recovery

LEMMA OkType ==
  ASSUME TypeOK, NEW d \in Deploys, NEW to \in DriverPcs, NEW b \in BOOLEAN,
         StepWith(d, to, [loc[d] EXCEPT !.ok = b]) \/ StepWith(d, to, [loc[d] EXCEPT !.keep = b])
  PROVE  pc' \in [Deploys -> DriverPcs] /\ loc' \in [Deploys -> Locals]
<1>1. loc[d] \in Locals
  BY DEF TypeOK
<1>2. [loc[d] EXCEPT !.ok = b] \in Locals
  BY <1>1 DEF Locals
<1>3. [loc[d] EXCEPT !.keep = b] \in Locals
  BY <1>1 DEF Locals
<1> QED
  BY <1>2, <1>3, StepType

LEMMA DispatchReadType ==
  ASSUME TypeOK, NEW d \in Deploys, DispatchRead(d)
  PROVE  TypeOK'
<1>1. card[AppOf[d]].status \in CardStatus
  BY ConstantsOK DEF TypeOK
<1>2. [NoLocals EXCEPT !.prev = card[AppOf[d]].status] \in Locals
  BY <1>1 DEF Locals, NoLocals
<1>3. pc' \in [Deploys -> DriverPcs] /\ loc' \in [Deploys -> Locals]
  BY <1>2, StepType, PcNames DEF DispatchRead
<1> QED
  BY <1>3 DEF DispatchRead, TypeOK, database, recovery, sweeper

LEMMA PostConflictType ==
  ASSUME TypeOK, NEW d \in Deploys, PostConflict(d)
  PROVE  TypeOK'
<1>1. (CapturedDeploying(d) /\ AnotherDeployRunning(d)) \in BOOLEAN
  BY DEF CapturedDeploying
<1>2. pc' \in [Deploys -> DriverPcs] /\ loc' \in [Deploys -> Locals]
  BY <1>1, BlockDeployType DEF PostConflict
<1>3. faults' \in 0..MaxFaults
  BY FaultType DEF PostConflict
<1> QED
  BY <1>2, <1>3 DEF PostConflict, TypeOK, database, recovery, sweeper

LEMMA HealthGateType ==
  ASSUME TypeOK, NEW d \in Deploys, HealthGate(d)
  PROVE  TypeOK'
<1>1. CASE /\ NoFault
           /\ \E healthy \in BOOLEAN : StepWith(d, "finRow", [loc[d] EXCEPT !.ok = healthy])
           /\ UNCHANGED <<database, relay, refs, recovery, sweeper, waited, crashes>>
  <2>1. pc' \in [Deploys -> DriverPcs] /\ loc' \in [Deploys -> Locals]
    BY <1>1, OkType, PcNames
  <2>2. faults' \in 0..MaxFaults
    BY <1>1, FaultType
  <2> QED
    BY <1>1, <2>1, <2>2 DEF TypeOK, database, recovery, sweeper
<1> QED
  BY <1>1, WriteThrowsType DEF HealthGate

\* What statusAfterBlocked restores is a card status.
LEMMA RestoredType ==
  ASSUME NEW d \in Deploys
  PROVE  StatusAfterBlocked(d) \in CardStatus /\ "unknown" \in CardStatus
BY DEF StatusAfterBlocked, CardStatus

LEMMA BlockReadType ==
  ASSUME TypeOK, NEW d \in Deploys, BlockRead(d)
  PROVE  TypeOK'
<1>1. PICK restored \in CardStatus : StepWith(d, "blockCard", [loc[d] EXCEPT !.prev = restored])
  BY RestoredType DEF BlockRead
<1>2. loc[d] \in Locals
  BY DEF TypeOK
<1>3. [loc[d] EXCEPT !.prev = restored] \in Locals
  BY <1>2 DEF Locals
<1>4. pc' \in [Deploys -> DriverPcs] /\ loc' \in [Deploys -> Locals]
  BY <1>1, <1>3, StepType, PcNames
<1>5. faults' \in 0..MaxFaults
  BY FaultType DEF BlockRead
<1> QED
  BY <1>4, <1>5 DEF BlockRead, TypeOK, database, recovery, sweeper

LEMMA RollbackReplyType ==
  ASSUME TypeOK, NEW d \in Deploys, RollbackReply(d)
  PROVE  TypeOK'
<1>1. pc' \in [Deploys -> DriverPcs] /\ loc' \in [Deploys -> Locals]
  BY OkType, StepType, LocalsType, PcNames DEF RollbackReply
<1>2. relay' \in [Deploys -> RelayStates]
  BY DEF RollbackReply, TypeOK, RelayStates
<1> QED
  BY <1>1, <1>2 DEF RollbackReply, TypeOK, database, recovery, sweeper

LEMMA RollbackRejectedType ==
  ASSUME TypeOK, NEW d \in Deploys, RollbackRejected(d)
  PROVE  TypeOK'
<1>1. pc' \in [Deploys -> DriverPcs] /\ loc' \in [Deploys -> Locals]
  BY OkType, PcNames DEF RollbackRejected
<1> QED
  BY <1>1 DEF RollbackRejected, TypeOK, database, recovery, sweeper

LEMMA RollbackGateType ==
  ASSUME TypeOK, NEW d \in Deploys, RollbackGate(d)
  PROVE  TypeOK'
<1>1. pc' \in [Deploys -> DriverPcs] /\ loc' \in [Deploys -> Locals]
  <2>1. CASE RouteEnds(d)
    BY <2>1, GoneType, StepType, LocalsType, PcNames DEF RouteEnds
  <2>2. CASE \E healthy \in BOOLEAN :
               StepWith(d, IF pc[d] = "rbGate" THEN "rbCard" ELSE "rbFreeCard",
                        [loc[d] EXCEPT !.ok = healthy])
    BY <2>2, OkType, PcNames
  <2> QED
    BY <2>1, <2>2 DEF RollbackGate
<1>2. faults' \in 0..MaxFaults
  BY FaultType DEF RollbackGate
<1> QED
  BY <1>1, <1>2 DEF RollbackGate, TypeOK, database, recovery, sweeper

-----------------------------------------------------------------------------
(* The components. *)

LEMMA DispatchType ==
  ASSUME TypeOK, NEW d \in Deploys, Dispatch(d)
  PROVE  TypeOK'
<1>1. CASE DispatchRead(d)
  BY <1>1, DispatchReadType
<1>2. CASE DispatchCreate(d)
  BY <1>2, FaultType, CreateRowType, StepType, LocalsType, PcNames
     DEF DispatchCreate, TypeOK, recovery, sweeper
<1>3. CASE DispatchMark(d)
  BY <1>3, FaultType, WriteCardType, ConstantsOK, StepType, LocalsType,
     PcNames, GoneType
     DEF DispatchMark, CardStatus, TypeOK, recovery, sweeper
<1>4. CASE DispatchStart(d)
  BY <1>4, DispatchStartType
<1> QED
  BY <1>1, <1>2, <1>3, <1>4 DEF Dispatch

LEMMA StreamType ==
  ASSUME TypeOK, NEW d \in Deploys, Stream(d)
  PROVE  TypeOK'
<1>1. CASE StreamBreaks(d)
  BY <1>1, RecoverType
     DEF StreamBreaks, RelayStates, TypeOK, database, sweeper
<1>2. CASE Provision(d)
  BY <1>2, ProvisionType
<1>3. CASE EnvPreflightFails(d)
  BY <1>3, EnvPreflightFailsType
<1>4. CASE PostAccepted(d)
  BY <1>4, StepType, LocalsType, PcNames
     DEF PostAccepted, RelayStates, TypeOK, database, recovery, sweeper
<1>5. CASE PostConflict(d)
  BY <1>5, PostConflictType
<1>6. CASE PostRejected(d)
  BY <1>6, StepType, LocalsType, PcNames
     DEF PostRejected, TypeOK, database, recovery, sweeper
<1>7. CASE StepEvent(d)
  BY <1>7, StepEventType
<1>8. CASE DoneEvent(d)
  BY <1>8, DoneEventType
<1>9. CASE BlockedEvent(d)
  BY <1>9, BlockedEventType
<1>10. CASE ErrorEvent(d)
  BY <1>10, ErrorEventType
<1>11. CASE JsonReply(d)
  BY <1>11, JsonReplyType
<1>12. CASE StreamEnds(d)
  BY <1>12, StreamEndsType
<1>13. CASE HealthGate(d)
  BY <1>13, HealthGateType
<1>14. CASE FinalizeRow(d)
  BY <1>14, FinalizeRowType
<1>15. CASE FinalizeCard(d)
  BY <1>15, FaultType, WriteCardType, ConstantsOK, AfterWritesType,
     WriteThrowsType
     DEF FinalizeCard, CardStatus, TypeOK, recovery, sweeper
<1>16. CASE BlockRow(d)
  BY <1>16, FaultType, WriteRowType, StepType, LocalsType, PcNames,
     AfterWritesType, WriteThrowsType
     DEF BlockRow, Locals, Settled, Kept, TypeOK, recovery, sweeper
<1>17. CASE BlockRead(d)
  BY <1>17, BlockReadType
<1>18. CASE BlockCard(d)
  BY <1>18, BlockCardType
<1>19. CASE FailRow(d)
  BY <1>19, FaultType, WriteRowType, StepType, LocalsType, PcNames,
     WriteThrowsType
     DEF FailRow, Settled, Kept, TypeOK, database, recovery, sweeper
<1>20. CASE FailCard(d)
  BY <1>20, FaultType, WriteCardType, ConstantsOK, AfterWritesType,
     WriteThrowsType
     DEF FailCard, CardStatus, TypeOK, recovery, sweeper
<1>21. CASE Finish(d)
  BY <1>21, GoneType, RegistryType
     DEF Finish, TypeOK, database, recovery, sweeper
<1> QED
  BY <1>1, <1>2, <1>3, <1>4, <1>5, <1>6, <1>7, <1>8, <1>9, <1>10, <1>11,
     <1>12, <1>13, <1>14, <1>15, <1>16, <1>17, <1>18, <1>19, <1>20, <1>21 DEF Stream

LEMMA RollbackType ==
  ASSUME TypeOK, NEW d \in Deploys, RollbackCreate(d) \/ Rollback(d)
  PROVE  TypeOK'
<1>1. CASE RollbackCreate(d)
  BY <1>1, CreateRowType, StepType, LocalsType, PcNames
     DEF RollbackCreate, TypeOK, recovery, sweeper
<1>2. CASE RollbackStart(d)
  BY <1>2, StepType, LocalsType, PcNames, RegistryType
     DEF RollbackStart, RelayStates, TypeOK, database, recovery, sweeper
<1>3. CASE RollbackReply(d)
  BY <1>3, RollbackReplyType
<1>4. CASE RollbackRejected(d)
  BY <1>4, RollbackRejectedType
<1>5. CASE RollbackBreaks(d)
  BY <1>5, HandOffType
     DEF RollbackBreaks, TypeOK, database, sweeper
<1>6. CASE RollbackRow(d)
  BY <1>6, RollbackRowType
<1>7. CASE RollbackGate(d)
  BY <1>7, RollbackGateType
<1>8. CASE RollbackCard(d)
  BY <1>8, FaultType, WriteCardType, ConstantsOK, StepType, GoneType,
     LocalsType, PcNames
     DEF RollbackCard, RouteEnds, CardStatus, TypeOK, recovery, sweeper
<1>9. CASE RollbackRejectRow(d)
  BY <1>9, FaultType, WriteRowType, StepType, LocalsType, PcNames
     DEF RollbackRejectRow, Locals, Settled, Kept, TypeOK, recovery, sweeper
<1>10. CASE RollbackRejectCard(d)
  BY <1>10, FaultType, WriteCardType, ConstantsOK, StepType, LocalsType,
     PcNames
     DEF RollbackRejectCard, CardStatus, TypeOK, recovery, sweeper
<1> QED
  BY <1>1, <1>2, <1>3, <1>4, <1>5, <1>6, <1>7, <1>8, <1>9, <1>10 DEF Rollback

LEMMA SweepRowType ==
  ASSUME TypeOK, NEW d \in Deploys, SweepRow(d)
  PROVE  TypeOK'
<1>1. CASE SweepAssess(d)
  BY <1>1
     DEF SweepAssess, SweepPcs, SweepVerdicts, TypeOK, database, driver,
         recovery
<1>2. CASE SweepWaits(d)
  BY <1>2
     DEF SweepWaits, SweepPcs, NextRow, SweepVerdicts, TypeOK, database,
         driver, recovery
<1>3. CASE SweepFinalize(d)
  BY <1>3, FaultType, WriteRowType
     DEF SweepFinalize, SweepPcs, GoTo, NextRow, SweepVerdict, SweepVerdicts,
         Settled, Kept, Rows, TypeOK, driver, recovery
<1>4. CASE SweepSibling(d)
  BY <1>4, FaultType
     DEF SweepSibling, SweepPcs, GoTo, NextRow, SweepVerdicts, TypeOK,
         database, driver, recovery
<1>5. CASE SweepCard(d)
  BY <1>5, FaultType, WriteCardType, ConstantsOK
     DEF SweepCard, CardStatus, SweepPcs, NextRow, SweepVerdicts, TypeOK,
         driver, recovery
<1>6. CASE UpgradeCheck(d)
  BY <1>6
     DEF UpgradeCheck, SweepPcs, GoTo, NextRow, SweepVerdicts, TypeOK,
         database, driver, recovery
<1>7. CASE UpgradeRow(d)
  BY <1>7, FaultType, WriteRowType
     DEF UpgradeRow, Settled, Kept, SweepPcs, GoTo, NextRow, SweepVerdicts,
         Rows, TypeOK, driver, recovery
<1>8. CASE UpgradeCard(d)
  BY <1>8, FaultType, WriteCardType, ConstantsOK
     DEF UpgradeCard, CardStatus, SweepPcs, NextRow, SweepVerdicts, TypeOK,
         driver, recovery
<1> QED
  BY <1>1, <1>2, <1>3, <1>4, <1>5, <1>6, <1>7, <1>8 DEF SweepRow

LEMMA RecoveryType ==
  ASSUME TypeOK, NEW d \in Deploys, Recovery(d)
  PROVE  TypeOK'
BY RecoveryLoadType, RecoveryJudgesType, RecoveryRowType, RecoveryCardType, RecoveryDoneType
   DEF Recovery

LEMMA SweepType ==
  ASSUME TypeOK, Sweep
  PROVE  TypeOK'
BY SweepStartType, SweepQueryType, UpgradeQueryType, ReconcileQueryType, SweepRowType,
   ReconcileAppType DEF Sweep

LEMMA WorldType ==
  ASSUME TypeOK, World
  PROVE  TypeOK'
<1>1. ASSUME NEW d \in Deploys, GraceEnds(d)
      PROVE  TypeOK'
  BY <1>1 DEF GraceEnds, TypeOK, database, driver, recovery, sweeper
<1> QED
  BY <1>1, RelayFinishType, RowAgesType, CardAgesType, CrashType DEF World

LEMMA InitType ==
  ASSUME Init
  PROVE  TypeOK
<1>1. NoRow \in Rows
  BY DEF NoRow, Rows
<1>2. card \in [Apps -> [status : CardStatus, aged : BOOLEAN]]
  BY ConstantsOK DEF Init
<1>3. plan \in [Apps -> CardStatus \cup {"keep"}]
  BY DEF Init, NoPlan
<1>4. crashes \in 0..MaxCrashes /\ faults \in 0..MaxFaults
  BY ConstantsOK DEF Init
<1> QED
  BY <1>1, <1>2, <1>3, <1>4, LocalsType, RecoveryLocalsType, PcNames
     DEF Init, TypeOK, RelayStates, SweepPcs, SweepVerdicts

LEMMA NextType ==
  ASSUME TypeOK, [Next]_vars
  PROVE  TypeOK'
<1>1. CASE Next
  BY <1>1, DispatchType, StreamType, RollbackType, RecoveryType, SweepType, WorldType DEF Next
<1>2. CASE UNCHANGED vars
  BY <1>2 DEF vars, TypeOK
<1> QED
  BY <1>1, <1>2

\* Every variable holds what its writers put there, whatever the rows, the apps
\* and the failures: the states each process of the backend goes through are the
\* ones PanelState names.
THEOREM TypeCorrect == Spec => []TypeOK
<1>1. Init => TypeOK
  BY InitType
<1>2. TypeOK /\ [Next]_vars => TypeOK'
  BY NextType
<1> QED
  BY <1>1, <1>2, PTL DEF Spec

=============================================================================
