------------------------ MODULE LifecycleInvariants ------------------------
(***************************************************************************)
(* Why the sweep takes only rows that nobody drives: the registry counts   *)
(* exactly the drivers and recoveries of each row, a row ages only after   *)
(* its driver has registered, and nobody starts to drive a row again.      *)
(***************************************************************************)
EXTENDS LifecycleTypes

\* A row that exists has been begun; a driver that waits for its row has none.
Fresh(d) == pc[d] \in {"idle", "captured"} => row[d].status = "none"

\* Only a running row ages, and not while its dispatch is opening it.
AgesRunning(d) == row[d].aged => row[d].status = "running" /\ pc[d] \notin OpeningPcs

\* A recovery runs under a stream that awaits it, or after its route has gone.
RecoveryIsLate(d) == rpc[d] # "idle" => pc[d] \in {"recovering", "gone"}

RowInv(d) == /\ refs[d] = Holds(d)
             /\ Fresh(d) /\ AgesRunning(d) /\ RecoveryIsLate(d)

\* The inductive invariant.
IInv == TypeOK /\ (\A d \in Deploys : RowInv(d)) /\ SweepTakesOrphans

-----------------------------------------------------------------------------
(* What one step of row d's processes does to the invariant of each row. *)

Untouched(d) ==
  \A e \in Deploys \ {d} :
    row'[e] = row[e] /\ pc'[e] = pc[e] /\ rpc'[e] = rpc[e] /\ refs'[e] = refs[e]

Keeps(d) == RowInv(d)' /\ Untouched(d) /\ (Undriven(d) => Undriven(d)') /\ UNCHANGED sweeper

LEMMA RowEffect ==
  ASSUME TypeOK, NEW d \in Deploys, NEW s, NEW log, WriteRow(d, s, log)
  PROVE  /\ row'[d].status = s
         /\ row'[d].aged => row[d].aged /\ s = "running"
         /\ \A e \in Deploys \ {d} : row'[e] = row[e]
BY DEF TypeOK, WriteRow

LEMMA CreateEffect ==
  ASSUME TypeOK, NEW d \in Deploys, CreateRow(d)
  PROVE  /\ row'[d].status = "running" /\ row'[d].aged = FALSE
         /\ \A e \in Deploys \ {d} : row'[e] = row[e]
BY DEF TypeOK, CreateRow

LEMMA StepEffect ==
  ASSUME TypeOK, NEW d \in Deploys, NEW to, NEW l, Step(d, to) \/ StepWith(d, to, l)
  PROVE  pc'[d] = to /\ \A e \in Deploys \ {d} : pc'[e] = pc[e]
BY DEF TypeOK, Step, StepWith

LEMMA RecoveryEffect ==
  ASSUME TypeOK, NEW d \in Deploys, NEW to, NEW l, RecoveryStepWith(d, to, l)
  PROVE  rpc'[d] = to /\ \A e \in Deploys \ {d} : rpc'[e] = rpc[e]
BY DEF TypeOK, RecoveryStepWith

LEMMA RegisterEffect ==
  ASSUME TypeOK, NEW d \in Deploys, refs' = RegisterActiveDeploy(refs, d)
  PROVE  refs'[d] = refs[d] + 1 /\ \A e \in Deploys \ {d} : refs'[e] = refs[e]
BY DEF TypeOK, RegisterActiveDeploy

LEMMA ReleaseEffect ==
  ASSUME TypeOK, NEW d \in Deploys, refs' = ReleaseActiveDeploy(refs, d), refs[d] > 0
  PROVE  refs'[d] = refs[d] - 1 /\ \A e \in Deploys \ {d} : refs'[e] = refs[e]
BY DEF TypeOK, ReleaseActiveDeploy

LEMMA GoneEffect ==
  ASSUME TypeOK, NEW d \in Deploys, Gone(d)
  PROVE  pc'[d] = "gone" /\ \A e \in Deploys \ {d} : pc'[e] = pc[e]
BY StepEffect DEF Gone

LEMMA RecoverEffect ==
  ASSUME TypeOK, NEW d \in Deploys, Recover(d)
  PROVE  /\ pc'[d] = "recovering" /\ rpc'[d] = "load" /\ refs'[d] = refs[d] + 1
         /\ \A e \in Deploys \ {d} : pc'[e] = pc[e] /\ rpc'[e] = rpc[e] /\ refs'[e] = refs[e]
BY StepEffect, RecoveryEffect, RegisterEffect DEF Recover, StartRecovery

LEMMA HandOffEffect ==
  ASSUME TypeOK, NEW d \in Deploys, HandOff(d)
  PROVE  /\ pc'[d] = "gone" /\ rpc'[d] = "load" /\ refs'[d] = refs[d]
         /\ \A e \in Deploys \ {d} : pc'[e] = pc[e] /\ rpc'[e] = rpc[e] /\ refs'[e] = refs[e]
<1>1. refs' = [refs EXCEPT ![d] = @]
  BY DEF HandOff, RegisterActiveDeploy, ReleaseActiveDeploy, TypeOK
<1> QED
  BY <1>1, GoneEffect, RecoveryEffect DEF HandOff, StartRecovery, TypeOK

-----------------------------------------------------------------------------
(* The moves a driver makes. *)

\* A driver at work, awaiting no recovery.
Busy == HoldPcs \ {"recovering"}

LEMMA BusyNames ==
  /\ {"provision", "post", "reading", "gate", "finRow", "finCard", "blockRow", "blockRead",
      "blockCard", "failRow", "failCard", "finish"} \subseteq Busy
  /\ {"rbCall", "rbRow", "rbGate", "rbCard", "rbRejectRow", "rbRejectCard"} \subseteq Busy
BY DEF Busy, HoldPcs, StreamPcs, RollbackPcs

LEMMA Apart ==
  /\ \A p \in HoldPcs : p \notin FreePcs \cup OpeningPcs \cup {"idle", "captured", "gone"}
  /\ \A p \in FreePcs : p \notin HoldPcs \cup OpeningPcs \cup {"idle", "captured", "gone"}
  /\ \A p \in OpeningPcs : p \notin HoldPcs \cup FreePcs \cup {"idle", "captured", "gone"}
  /\ \A p \in {"idle", "captured", "gone"} : p \notin HoldPcs \cup FreePcs \cup OpeningPcs
  /\ "recovering" \in HoldPcs
BY DEF HoldPcs, StreamPcs, RollbackPcs, FreePcs, OpeningPcs

\* Row d may be written, and stays young unless it stays running.
RowMild(d) ==
  /\ row'[d].aged => row[d].aged /\ row'[d].status = "running"
  /\ row[d].status # "none" => row'[d].status # "none"
  /\ \A e \in Deploys \ {d} : row'[e] = row[e]

LEMMA MildWrite ==
  ASSUME TypeOK, NEW d \in Deploys, RowInv(d),
         UNCHANGED row \/ (\E s, log : (row[d].status # "none" => s # "none") /\ WriteRow(d, s, log))
  PROVE  RowMild(d)
<1>1. CASE UNCHANGED row
  BY <1>1 DEF RowInv, AgesRunning, RowMild
<1>2. CASE \E s, log : (row[d].status # "none" => s # "none") /\ WriteRow(d, s, log)
  BY <1>2, RowEffect DEF RowMild
<1> QED
  BY <1>1, <1>2

\* Goes on at work.
LEMMA MoveKeeps ==
  ASSUME TypeOK, NEW d \in Deploys, RowInv(d), RowMild(d), pc[d] \in Busy,
         pc'[d] \in Busy, \A e \in Deploys \ {d} : pc'[e] = pc[e],
         UNCHANGED <<refs, recovery, sweeper>>
  PROVE  Keeps(d)
BY Apart DEF Keeps, Untouched, RowMild, RowInv, Holds, DriverHolds, RecoveryHolds, Fresh,
             AgesRunning, RecoveryIsLate, Undriven, Busy, recovery

\* Falls into recovery, or hands its row to one.
LEMMA LostKeeps ==
  ASSUME TypeOK, NEW d \in Deploys, RowInv(d), pc[d] \in Busy,
         Recover(d) \/ HandOff(d), UNCHANGED <<row, sweeper>>
  PROVE  Keeps(d)
<1>1. rpc[d] = "idle" /\ refs[d] = 1
  BY Apart DEF RowInv, RecoveryIsLate, Holds, DriverHolds, RecoveryHolds, Busy
<1>2. CASE Recover(d)
  BY <1>1, <1>2, Apart, RecoverEffect
     DEF Keeps, Untouched, RowInv, Holds, DriverHolds, RecoveryHolds, Fresh, AgesRunning,
         RecoveryIsLate, Undriven, Busy
<1>3. CASE HandOff(d)
  BY <1>1, <1>3, Apart, HandOffEffect
     DEF Keeps, Untouched, RowInv, Holds, DriverHolds, RecoveryHolds, Fresh, AgesRunning,
         RecoveryIsLate, Undriven, Busy
<1> QED
  BY <1>2, <1>3

\* Gives up its hold.
LEMMA ReleaseKeeps ==
  ASSUME TypeOK, NEW d \in Deploys, RowInv(d), RowMild(d), pc[d] \in Busy,
         pc'[d] \in FreePcs \cup {"gone"}, \A e \in Deploys \ {d} : pc'[e] = pc[e],
         refs' = ReleaseActiveDeploy(refs, d), UNCHANGED <<recovery, sweeper>>
  PROVE  Keeps(d)
<1>1. rpc[d] = "idle" /\ refs[d] = 1
  BY Apart DEF RowInv, RecoveryIsLate, Holds, DriverHolds, RecoveryHolds, Busy
<1> QED
  BY <1>1, Apart, ReleaseEffect
     DEF Keeps, Untouched, RowMild, RowInv, Holds, DriverHolds, RecoveryHolds, Fresh,
         AgesRunning, RecoveryIsLate, Undriven, Busy, recovery

\* Takes its hold, once its row is open.
LEMMA TakeKeeps ==
  ASSUME TypeOK, NEW d \in Deploys, RowInv(d), pc[d] \in OpeningPcs,
         pc'[d] \in Busy, \A e \in Deploys \ {d} : pc'[e] = pc[e],
         refs' = RegisterActiveDeploy(refs, d), UNCHANGED <<row, recovery, sweeper>>
  PROVE  Keeps(d)
<1>1. rpc[d] = "idle" /\ refs[d] = 0
  BY Apart DEF RowInv, RecoveryIsLate, Holds, DriverHolds, RecoveryHolds
<1> QED
  BY <1>1, Apart, RegisterEffect
     DEF Keeps, Untouched, RowInv, Holds, DriverHolds, RecoveryHolds, Fresh, AgesRunning,
         RecoveryIsLate, Undriven, Busy, recovery

\* Moves or ends without a hold.
LEMMA UnheldKeeps ==
  ASSUME TypeOK, NEW d \in Deploys, RowInv(d), pc[d] \notin HoldPcs \cup {"gone"},
         \/ pc'[d] = "gone"
         \/ pc[d] \in FreePcs /\ pc'[d] \in FreePcs
         \/ pc[d] \in OpeningPcs /\ pc'[d] \in OpeningPcs
         \/ /\ pc[d] \in {"idle", "captured"}
            /\ pc'[d] \in {"idle", "captured"},
         \A e \in Deploys \ {d} : pc'[e] = pc[e],
         UNCHANGED <<row, refs, recovery, sweeper>>
  PROVE  Keeps(d)
<1>1. rpc[d] = "idle" /\ refs[d] = 0
  BY Apart DEF RowInv, RecoveryIsLate, Holds, DriverHolds, RecoveryHolds
<1> QED
  BY <1>1, Apart
     DEF Keeps, Untouched, RowInv, Holds, DriverHolds, RecoveryHolds, Fresh, AgesRunning,
         RecoveryIsLate, Undriven, recovery

\* Opens its row.
LEMMA CreateKeeps ==
  ASSUME TypeOK, NEW d \in Deploys, RowInv(d), pc[d] \in {"idle", "captured"},
         pc'[d] \in OpeningPcs, \A e \in Deploys \ {d} : pc'[e] = pc[e],
         CreateRow(d), UNCHANGED <<refs, recovery, sweeper>>
  PROVE  Keeps(d)
<1>1. rpc[d] = "idle" /\ refs[d] = 0
  BY Apart DEF RowInv, RecoveryIsLate, Holds, DriverHolds, RecoveryHolds
<1> QED
  BY <1>1, Apart, CreateEffect
     DEF Keeps, Untouched, RowInv, Holds, DriverHolds, RecoveryHolds, Fresh, AgesRunning,
         RecoveryIsLate, Undriven, recovery

-----------------------------------------------------------------------------
(* Each component, action by action. *)

LEMMA DispatchKeeps ==
  ASSUME TypeOK, NEW d \in Deploys, RowInv(d), Dispatch(d)
  PROVE  Keeps(d)
<1>0. "provision" \in Busy /\ {"created", "marked"} \subseteq OpeningPcs
  BY BusyNames DEF OpeningPcs
<1>1. CASE DispatchRead(d)
  BY <1>1, StepEffect, UnheldKeeps, Apart DEF DispatchRead, database
<1>2. CASE DispatchCreate(d)
  <2>1. CASE CreateRow(d) /\ Step(d, "created")
    BY <1>0, <1>2, <2>1, StepEffect, CreateKeeps DEF DispatchCreate
  <2>2. CASE UNCHANGED row /\ StepWith(d, "idle", NoLocals)
    BY <1>2, <2>2, StepEffect, UnheldKeeps, Apart DEF DispatchCreate
  <2> QED
    BY <1>2, <2>1, <2>2 DEF DispatchCreate
<1>3. CASE DispatchMark(d)
  BY <1>0, <1>3, StepEffect, GoneEffect, UnheldKeeps, Apart DEF DispatchMark
<1>4. CASE DispatchStart(d)
  <2>1. CASE refs' = RegisterActiveDeploy(refs, d) /\ Step(d, "provision")
    BY <1>0, <1>4, <2>1, StepEffect, TakeKeeps DEF DispatchStart, database
  <2>2. CASE UNCHANGED refs /\ Gone(d)
    BY <1>0, <1>4, <2>2, GoneEffect, UnheldKeeps, Apart DEF DispatchStart, database
  <2> QED
    BY <1>4, <2>1, <2>2 DEF DispatchStart
<1> QED
  BY <1>1, <1>2, <1>3, <1>4 DEF Dispatch

LEMMA WriteThrowsKeeps ==
  ASSUME TypeOK, NEW d \in Deploys, RowInv(d), pc[d] \in Busy, WriteThrows(d)
  PROVE  Keeps(d)
<1>1. CASE loc[d].fin
  BY <1>1, BusyNames, StepEffect, MildWrite, MoveKeeps DEF WriteThrows, database, recovery
<1>2. CASE ~loc[d].fin
  BY <1>2, LostKeeps DEF WriteThrows, database
<1> QED
  BY <1>1, <1>2

LEMMA StreamKeeps ==
  ASSUME TypeOK, NEW d \in Deploys, RowInv(d), Stream(d)
  PROVE  Keeps(d)
<1>1. CASE StreamBreaks(d)
  BY <1>1, BusyNames, LostKeeps
     DEF StreamBreaks, database
<1>2. CASE Provision(d)
  BY <1>2, BusyNames, StepEffect, MildWrite, MoveKeeps
     DEF Provision, database
<1>3. CASE EnvPreflightFails(d)
  BY <1>3, BusyNames, StepEffect, MildWrite, MoveKeeps
     DEF EnvPreflightFails, BlockDeploy, database
<1>4. CASE PostAccepted(d)
  BY <1>4, BusyNames, StepEffect, MildWrite, MoveKeeps
     DEF PostAccepted, database
<1>5. CASE PostConflict(d)
  BY <1>5, BusyNames, StepEffect, MildWrite, MoveKeeps
     DEF PostConflict, BlockDeploy, database
<1>6. CASE PostRejected(d)
  BY <1>6, BusyNames, StepEffect, MildWrite, MoveKeeps
     DEF PostRejected, database
<1>7. CASE StepEvent(d)
  BY <1>7, BusyNames, StepEffect, MildWrite, MoveKeeps
     DEF StepEvent, Streaming
<1>8. CASE DoneEvent(d)
  BY <1>8, BusyNames, StepEffect, MildWrite, MoveKeeps
     DEF DoneEvent, Finalize, database
<1>9. CASE BlockedEvent(d)
  BY <1>9, BusyNames, StepEffect, MildWrite, MoveKeeps
     DEF BlockedEvent, BlockDeploy, Streaming, database
<1>10. CASE ErrorEvent(d)
  BY <1>10, BusyNames, StepEffect, MildWrite, MoveKeeps
     DEF ErrorEvent, Streaming, database
<1>11. CASE JsonReply(d)
  <2>1. CASE Step(d, "failRow")
    BY <1>11, <2>1, BusyNames, StepEffect, MildWrite, MoveKeeps DEF JsonReply, database
  <2>2. CASE BlockDeploy(d, CapturedDeploying(d), FALSE)
    BY <1>11, <2>2, BusyNames, StepEffect, MildWrite, MoveKeeps
       DEF JsonReply, BlockDeploy, database
  <2>3. CASE \E claim, marks : Finalize(d, claim, loc[d].steps \cup marks, FALSE)
    <3>1. PICK claim, marks : Finalize(d, claim, loc[d].steps \cup marks, FALSE)
      BY <2>3
    <3>2. pc'[d] \in {"gate", "finRow"} /\ \A e \in Deploys \ {d} : pc'[e] = pc[e]
      BY <3>1, StepEffect DEF Finalize
    <3> QED
      BY <1>11, <3>2, BusyNames, MildWrite, MoveKeeps DEF JsonReply, database
  <2> QED
    BY <1>11, <2>1, <2>2, <2>3 DEF JsonReply
<1>12. CASE StreamEnds(d)
  BY <1>12, BusyNames, StepEffect, MildWrite, MoveKeeps
     DEF StreamEnds, Finalize, database
<1>13. CASE HealthGate(d)
  BY <1>13, BusyNames, StepEffect, MildWrite, MoveKeeps, WriteThrowsKeeps
     DEF HealthGate, database
<1>14. CASE FinalizeRow(d)
  BY <1>14, BusyNames, StepEffect, MildWrite, MoveKeeps, WriteThrowsKeeps
     DEF FinalizeRow
<1>15. CASE FinalizeCard(d)
  BY <1>15, BusyNames, StepEffect, MildWrite, MoveKeeps, WriteThrowsKeeps
     DEF FinalizeCard, AfterWrites
<1>16. CASE BlockRow(d)
  BY <1>16, BusyNames, StepEffect, MildWrite, MoveKeeps, WriteThrowsKeeps
     DEF BlockRow, AfterWrites
<1>17. CASE BlockRead(d)
  BY <1>17, BusyNames, StepEffect, MildWrite, MoveKeeps
     DEF BlockRead, database
<1>18. CASE BlockCard(d)
  BY <1>18, BusyNames, StepEffect, MildWrite, MoveKeeps, WriteThrowsKeeps
     DEF BlockCard, AfterWrites
<1>19. CASE FailRow(d)
  BY <1>19, BusyNames, StepEffect, MildWrite, MoveKeeps, WriteThrowsKeeps
     DEF FailRow, database
<1>20. CASE FailCard(d)
  BY <1>20, BusyNames, StepEffect, MildWrite, MoveKeeps, WriteThrowsKeeps
     DEF FailCard, AfterWrites
<1>21. CASE Finish(d)
  BY <1>21, BusyNames, GoneEffect, MildWrite, ReleaseKeeps DEF Finish, database
<1> QED
  BY <1>1, <1>2, <1>3, <1>4, <1>5, <1>6, <1>7, <1>8, <1>9, <1>10, <1>11,
     <1>12, <1>13, <1>14, <1>15, <1>16, <1>17, <1>18, <1>19, <1>20, <1>21 DEF Stream

LEMMA RollbackKeeps ==
  ASSUME TypeOK, NEW d \in Deploys, RowInv(d), RollbackCreate(d) \/ Rollback(d)
  PROVE  Keeps(d)
<1>1. CASE RollbackCreate(d)
  <2>1. "rbCreated" \in OpeningPcs
    BY DEF OpeningPcs
  <2> QED
    BY <1>1, <2>1, StepEffect, CreateKeeps DEF RollbackCreate
<1>2. CASE RollbackStart(d)
  <2>1. "rbCreated" \in OpeningPcs /\ "rbCall" \in Busy
    BY BusyNames DEF OpeningPcs
  <2> QED
    BY <1>2, <2>1, StepEffect, TakeKeeps DEF RollbackStart, database
<1>3. CASE RollbackReply(d)
  BY <1>3, BusyNames, StepEffect, MildWrite, MoveKeeps
     DEF RollbackReply, database
<1>4. CASE RollbackRejected(d)
  BY <1>4, BusyNames, StepEffect, MildWrite, MoveKeeps
     DEF RollbackRejected, database
<1>5. CASE RollbackBreaks(d)
  BY <1>5, BusyNames, LostKeeps
     DEF RollbackBreaks, database
<1>6. CASE RollbackRow(d)
  <2>1. CASE UNCHANGED refs /\ Step(d, "rbGate") /\ UNCHANGED recovery
    BY <1>6, <2>1, BusyNames, StepEffect, MildWrite, MoveKeeps DEF RollbackRow, database
  <2>2. CASE /\ Step(d, "rbFreeGate") /\ refs' = ReleaseActiveDeploy(refs, d)
             /\ WriteRow(d, IF loc[d].ok THEN "rolled_back" ELSE "failed", {})
             /\ UNCHANGED <<recovery, sweeper>>
    <3>1. RowMild(d)
      BY <2>2, MildWrite
    <3>2. pc[d] \in Busy /\ "rbFreeGate" \in FreePcs
      BY <1>6, BusyNames DEF RollbackRow, FreePcs
    <3> QED
      BY <2>2, <3>1, <3>2, StepEffect, ReleaseKeeps
  <2>3. CASE HandOff(d) /\ UNCHANGED <<database, sweeper>>
    BY <1>6, <2>3, BusyNames, LostKeeps DEF RollbackRow, database
  <2> QED
    BY <1>6, <2>1, <2>2, <2>3 DEF RollbackRow
<1>7. CASE RollbackGate(d)
  <2>1. {"rbFreeGate", "rbFreeCard"} = FreePcs /\ {"rbGate", "rbCard", "finish"} \subseteq Busy
    BY BusyNames DEF FreePcs
  <2>2. CASE pc[d] = "rbGate"
    BY <1>7, <2>1, <2>2, Apart, StepEffect, MildWrite, MoveKeeps
       DEF RollbackGate, RouteEnds, Busy, database
  <2>3. CASE pc[d] = "rbFreeGate"
    BY <1>7, <2>1, <2>3, Apart, StepEffect, GoneEffect, UnheldKeeps
       DEF RollbackGate, RouteEnds, database
  <2> QED
    BY <1>7, <2>2, <2>3 DEF RollbackGate
<1>8. CASE RollbackCard(d)
  <2>1. {"rbFreeGate", "rbFreeCard"} = FreePcs /\ {"rbGate", "rbCard", "finish"} \subseteq Busy
    BY BusyNames DEF FreePcs
  <2>2. CASE pc[d] = "rbCard"
    BY <1>8, <2>1, <2>2, Apart, StepEffect, MildWrite, MoveKeeps
       DEF RollbackCard, RouteEnds, Busy
  <2>3. CASE pc[d] = "rbFreeCard"
    BY <1>8, <2>1, <2>3, Apart, GoneEffect, UnheldKeeps DEF RollbackCard, RouteEnds
  <2> QED
    BY <1>8, <2>2, <2>3 DEF RollbackCard
<1>9. CASE RollbackRejectRow(d)
  BY <1>9, BusyNames, StepEffect, MildWrite, MoveKeeps
     DEF RollbackRejectRow
<1>10. CASE RollbackRejectCard(d)
  BY <1>10, BusyNames, StepEffect, MildWrite, MoveKeeps
     DEF RollbackRejectCard
<1> QED
  BY <1>1, <1>2, <1>3, <1>4, <1>5, <1>6, <1>7, <1>8, <1>9, <1>10 DEF Rollback

LEMMA RecoveryKeeps ==
  ASSUME TypeOK, NEW d \in Deploys, RowInv(d), Recovery(d)
  PROVE  Keeps(d)
<1>1. rpc[d] # "idle" /\ pc[d] \in {"recovering", "gone"}
  BY DEF Recovery, RecoveryLoad, RecoveryGate, RecoveryThrows, RecoveryTarget, RecoveryRow,
         RecoveryCard, RecoveryDone, RowInv, RecoveryIsLate
<1>2. CASE RecoveryDone(d)
  <2>1. refs[d] > 0
    BY <1>1 DEF RowInv, Holds, DriverHolds, RecoveryHolds
  <2>2. refs'[d] = refs[d] - 1 /\ \A e \in Deploys \ {d} : refs'[e] = refs[e]
    BY <1>2, <2>1, ReleaseEffect DEF RecoveryDone
  <2>3. rpc'[d] = "idle" /\ \A e \in Deploys \ {d} : rpc'[e] = rpc[e]
    BY <1>2, RecoveryEffect DEF RecoveryDone, RecoveryEnds
  <2>4. /\ pc[d] = "recovering" => pc'[d] = "finish"
        /\ pc[d] = "gone" => pc'[d] = "gone"
        /\ \A e \in Deploys \ {d} : pc'[e] = pc[e]
    BY <1>2, StepEffect DEF RecoveryDone, driver
  <2>5. RowMild(d)
    BY <1>2, MildWrite DEF RecoveryDone, database
  <2>6. "finish" \in HoldPcs
    BY BusyNames DEF Busy
  <2> QED
    BY <1>1, <1>2, <2>2, <2>3, <2>4, <2>5, <2>6, Apart
       DEF RecoveryDone, Keeps, Untouched, RowMild, RowInv, Holds, DriverHolds, RecoveryHolds,
           Fresh, AgesRunning, RecoveryIsLate, Undriven
<1>3. CASE ~RecoveryDone(d)
  <2>1. rpc'[d] # "idle" /\ \A e \in Deploys \ {d} : rpc'[e] = rpc[e]
    BY <1>3, RecoveryEffect
       DEF Recovery, RecoveryLoad, RecoveryGate, RecoveryThrows, RecoveryTarget, RecoveryRow,
           RecoveryCard, RecoveryStep, Judge
  <2>2. RowMild(d)
    <3>1. CASE RecoveryRow(d)
      BY <3>1, MildWrite DEF RecoveryRow, RecoveredStatus
    <3>2. CASE ~RecoveryRow(d)
      BY <1>3, <3>2, MildWrite
         DEF Recovery, RecoveryLoad, RecoveryGate, RecoveryThrows, RecoveryTarget,
             RecoveryCard, database
    <3> QED
      BY <3>1, <3>2
  <2>3. UNCHANGED <<refs, driver, sweeper>>
    BY <1>3 DEF Recovery, RecoveryLoad, RecoveryGate, RecoveryThrows, RecoveryTarget,
                RecoveryRow, RecoveryCard
  <2> QED
    BY <1>1, <2>1, <2>2, <2>3, Apart
       DEF Keeps, Untouched, RowMild, RowInv, Holds, DriverHolds, RecoveryHolds, Fresh,
           AgesRunning, RecoveryIsLate, Undriven, driver
<1> QED
  BY <1>2, <1>3

-----------------------------------------------------------------------------
(* From one row to all of them. *)

UpgradePcs == {"upgradeCheck", "upgradeRow", "upgradeCard"}

LEMMA KeepsAll ==
  ASSUME NEW d \in Deploys, IInv, Keeps(d)
  PROVE  (\A e \in Deploys : RowInv(e)') /\ SweepTakesOrphans'
<1>1. ASSUME NEW e \in Deploys \ {d}
      PROVE  RowInv(e)' /\ (Undriven(e) => Undriven(e)')
  BY <1>1 DEF Keeps, Untouched, IInv, RowInv, Holds, DriverHolds, RecoveryHolds, Fresh,
              AgesRunning, RecoveryIsLate, Undriven
<1>2. SweepTakesOrphans'
  <2>1. spc' = spc /\ todo' = todo /\ (Undriven(d) => Undriven(d)')
    BY DEF Keeps, sweeper
  <2>2. \A e \in todo : e \in Deploys
    BY DEF IInv, TypeOK
  <2> QED
    BY <1>1, <2>1, <2>2 DEF IInv, SweepTakesOrphans
<1> QED
  BY <1>1, <1>2 DEF Keeps

\* A step of the sweep: it leaves every process alone.
LEMMA SweepKeeps ==
  ASSUME IInv, UNCHANGED <<pc, rpc, refs>>,
         \A d \in Deploys : /\ row'[d].aged => row[d].aged /\ row'[d].status = "running"
                            /\ row[d].status = "none" => row'[d].status = "none",
         \/ spc' \in UpgradePcs
         \/ spc \notin UpgradePcs /\ todo' \subseteq todo
         \/ todo' = {}
  PROVE  (\A d \in Deploys : RowInv(d)') /\ SweepTakesOrphans'
<1>1. ASSUME NEW d \in Deploys
      PROVE  RowInv(d)'
  BY DEF IInv, RowInv, Holds, DriverHolds, RecoveryHolds, Fresh, AgesRunning, RecoveryIsLate
<1>2. SweepTakesOrphans'
  BY DEF IInv, SweepTakesOrphans, Undriven, UpgradePcs
<1> QED
  BY <1>1, <1>2

\* What the sweep's query takes is driven by nobody.
LEMMA StuckIsUndriven ==
  ASSUME IInv, NEW d \in Deploys, row[d].aged, d \notin ListActiveDeployIds
  PROVE  Undriven(d)
<1>1. refs[d] = 0
  BY DEF IInv, TypeOK, ListActiveDeployIds
<1>2. pc[d] \notin HoldPcs /\ rpc[d] = "idle"
  BY <1>1 DEF IInv, RowInv, Holds, DriverHolds, RecoveryHolds
<1>3. row[d].status = "running" /\ pc[d] \notin OpeningPcs /\ pc[d] \notin {"idle", "captured"}
  BY DEF IInv, RowInv, AgesRunning, Fresh
<1> QED
  BY <1>2, <1>3 DEF Undriven, IInv, TypeOK, DriverPcs

\* The rows after a step of the sweep: none ages, none comes or goes.
RowsKept ==
  \A d \in Deploys : /\ row'[d].aged => row[d].aged /\ row'[d].status = "running"
                     /\ row[d].status = "none" => row'[d].status = "none"

LEMMA RowsKeptBy ==
  ASSUME IInv
  PROVE  /\ UNCHANGED row => RowsKept
         /\ \A d \in Deploys : \A s, log :
              row[d].status # "none" /\ WriteRow(d, s, log) => RowsKept
<1>1. ASSUME UNCHANGED row
      PROVE  RowsKept
  BY <1>1 DEF RowsKept, IInv, RowInv, AgesRunning
<1>2. ASSUME NEW d \in Deploys, NEW s, NEW log, row[d].status # "none", WriteRow(d, s, log)
      PROVE  RowsKept
  BY <1>2, RowEffect DEF RowsKept, IInv, RowInv, AgesRunning
<1> QED
  BY <1>1, <1>2

LEMMA SweepRowInv ==
  ASSUME IInv, NEW d \in Deploys, SweepRow(d)
  PROVE  (\A e \in Deploys : RowInv(e)') /\ SweepTakesOrphans'
<1>1. RowsKept
  <2>1. CASE SweepFinalize(d)
    BY <2>1, RowsKeptBy DEF SweepFinalize, SweepVerdict
  <2>2. CASE UpgradeRow(d)
    BY <2>2, RowsKeptBy DEF UpgradeRow, Upgradable
  <2>3. CASE ~SweepFinalize(d) /\ ~UpgradeRow(d)
    BY <2>3, RowsKeptBy
       DEF SweepRow, SweepAssess, SweepWaits, SweepSibling, SweepCard, UpgradeCheck,
           UpgradeCard, database
  <2> QED
    BY <2>1, <2>2, <2>3
<1>2. UNCHANGED <<pc, rpc, refs>>
  BY DEF SweepRow, SweepAssess, SweepWaits, SweepFinalize, SweepSibling, SweepCard,
         UpgradeCheck, UpgradeRow, UpgradeCard, driver, recovery
<1>3. \/ spc' \in UpgradePcs
      \/ spc \notin UpgradePcs /\ todo' \subseteq todo
  BY DEF SweepRow, SweepAssess, SweepWaits, SweepFinalize, SweepSibling, SweepCard,
         UpgradeCheck, UpgradeRow, UpgradeCard, At, GoTo, NextRow, UpgradePcs
<1> QED
  BY <1>1, <1>2, <1>3, SweepKeeps DEF RowsKept

LEMMA SweepInv ==
  ASSUME IInv, Sweep
  PROVE  (\A d \in Deploys : RowInv(d)') /\ SweepTakesOrphans'
<1>1. CASE SweepStart
  <2>1. UNCHANGED <<row, pc, rpc, refs>>
    BY <1>1 DEF SweepStart, database, driver, recovery
  <2>2. \A d \in todo' : d \in Deploys /\ row[d].aged /\ d \notin ListActiveDeployIds
    BY <1>1 DEF SweepStart, Visit
  <2>3. \A d \in todo' : Undriven(d)'
    BY <2>1, <2>2, StuckIsUndriven DEF Undriven
  <2>4. \A d \in Deploys : RowInv(d)'
    BY <2>1 DEF IInv, RowInv, Holds, DriverHolds, RecoveryHolds, Fresh, AgesRunning,
                RecoveryIsLate
  <2> QED
    BY <2>3, <2>4 DEF SweepTakesOrphans
<1>2. CASE SweepQuery
  <2>1. UNCHANGED <<row, pc, rpc, refs>> /\ spc \notin UpgradePcs /\ todo' \subseteq todo
    BY <1>2 DEF SweepQuery, At, Visit, SweepStops, UpgradePcs, database, driver, recovery
  <2> QED
    BY <2>1, RowsKeptBy, SweepKeeps DEF RowsKept
<1>3. CASE UpgradeQuery
  <2>1. UNCHANGED <<row, pc, rpc, refs>> /\ spc' \in UpgradePcs
    BY <1>3 DEF UpgradeQuery, Visit, GoTo, UpgradePcs, database, driver, recovery
  <2> QED
    BY <2>1, RowsKeptBy, SweepKeeps DEF RowsKept
<1>4. CASE ReconcileQuery
  <2>1. UNCHANGED <<row, pc, rpc, refs>> /\ todo' = {}
    BY <1>4 DEF ReconcileQuery, Planned, SweepStops, database, driver, recovery
  <2> QED
    BY <2>1, RowsKeptBy, SweepKeeps DEF RowsKept
<1>5. CASE \E a \in Apps : ReconcileApp(a)
  <2>1. /\ UNCHANGED <<row, pc, rpc, refs>>
        /\ spc \notin UpgradePcs /\ todo' \subseteq todo
    BY <1>5 DEF ReconcileApp, Planned, At, UpgradePcs, driver, recovery
  <2> QED
    BY <2>1, RowsKeptBy, SweepKeeps DEF RowsKept
<1> QED
  BY <1>1, <1>2, <1>3, <1>4, <1>5, SweepRowInv DEF Sweep

LEMMA WorldInv ==
  ASSUME IInv, World
  PROVE  (\A d \in Deploys : RowInv(d)') /\ SweepTakesOrphans'
<1>1. CASE Crash
  <2>1. \A d \in Deploys : RowInv(d)'
    BY <1>1 DEF Crash, IInv, RowInv, Holds, DriverHolds, RecoveryHolds, Fresh, AgesRunning,
                RecoveryIsLate, HoldPcs, StreamPcs, RollbackPcs, OpeningPcs, database
  <2>2. todo' = {}
    BY <1>1 DEF Crash, SweepStops
  <2> QED
    BY <2>1, <2>2 DEF SweepTakesOrphans
<1>2. ASSUME NEW d \in Deploys, RowAges(d)
      PROVE  (\A e \in Deploys : RowInv(e)') /\ SweepTakesOrphans'
  <2>1. /\ row'[d].status = row[d].status
        /\ \A e \in Deploys \ {d} : row'[e] = row[e]
    BY <1>2 DEF RowAges, IInv, TypeOK, Rows
  <2>2. Keeps(d)
    BY <1>2, <2>1 DEF RowAges, Keeps, Untouched, IInv, RowInv, Holds, DriverHolds,
                      RecoveryHolds, Fresh, AgesRunning, RecoveryIsLate, Undriven,
                      driver, recovery
  <2> QED
    BY <2>2, KeepsAll
<1>3. CASE \/ \E d \in Deploys : RelayFinish(d) \/ RelayStops(d) \/ GraceEnds(d)
           \/ \E a \in Apps : CardAges(a)
  <2>1. UNCHANGED <<row, pc, rpc, refs, spc, todo>>
    BY <1>3 DEF RelayFinish, RelayStops, GraceEnds, CardAges, database, driver, recovery,
                sweeper
  <2> QED
    BY <2>1 DEF IInv, RowInv, Holds, DriverHolds, RecoveryHolds, Fresh, AgesRunning,
                RecoveryIsLate, SweepTakesOrphans, Undriven
<1> QED
  BY <1>1, <1>2, <1>3 DEF World

-----------------------------------------------------------------------------
(* The theorems. *)

LEMMA InitInv ==
  ASSUME Init
  PROVE  IInv
<1>1. ASSUME NEW d \in Deploys
      PROVE  RowInv(d)
  <2>1. pc[d] = "idle" /\ rpc[d] = "idle" /\ refs[d] = 0
    BY DEF Init
  <2>2. row[d].status = "none" /\ row[d].aged = FALSE
    BY DEF Init, NoRow
  <2> QED
    BY <2>1, <2>2, Apart
       DEF RowInv, Holds, DriverHolds, RecoveryHolds, Fresh, AgesRunning, RecoveryIsLate
<1>2. SweepTakesOrphans
  BY DEF Init, SweepTakesOrphans
<1> QED
  BY <1>1, <1>2, InitType DEF IInv

LEMMA NextInv ==
  ASSUME IInv, [Next]_vars
  PROVE  IInv'
<1>1. TypeOK'
  BY NextType DEF IInv
<1>2. (\A d \in Deploys : RowInv(d)') /\ SweepTakesOrphans'
  <2>1. ASSUME NEW d \in Deploys,
               Dispatch(d) \/ Stream(d) \/ RollbackCreate(d) \/ Rollback(d) \/ Recovery(d)
        PROVE  (\A e \in Deploys : RowInv(e)') /\ SweepTakesOrphans'
    <3>1. Keeps(d)
      BY <2>1, DispatchKeeps, StreamKeeps, RollbackKeeps, RecoveryKeeps DEF IInv
    <3> QED
      BY <3>1, KeepsAll
  <2>2. CASE UNCHANGED vars
    BY <2>2 DEF vars, IInv, RowInv, Holds, DriverHolds, RecoveryHolds, Fresh, AgesRunning,
                RecoveryIsLate, SweepTakesOrphans, Undriven
  <2> QED
    BY <2>1, <2>2, SweepInv, WorldInv DEF Next
<1> QED
  BY <1>1, <1>2 DEF IInv

\* Every reachable state satisfies the inductive invariant.
THEOREM Inductive == Spec => []IInv
<1>1. Init => IInv
  BY InitInv
<1>2. IInv /\ [Next]_vars => IInv'
  BY NextInv
<1> QED
  BY <1>1, <1>2, PTL DEF Spec

\* The registry's count of a row is exactly the holds of the stream, rollback call
\* and recovery that still drive it, whatever the order of hand-offs, releases,
\* failed database calls and restarts (deploy-recovery.ts).
THEOREM RegistryIsExact == Spec => []RegistryExact
<1>1. IInv => RegistryExact
  BY DEF IInv, RowInv, RegistryExact
<1> QED
  BY <1>1, Inductive, PTL

\* Whatever interleaves with it, a pass of the sweep works only on rows that no
\* process of the backend drives or will drive (startup.ts, sweepOnce).
THEOREM SweepNeverTakesALiveRow == Spec => []SweepTakesOrphans
<1>1. IInv => SweepTakesOrphans
  BY DEF IInv
<1> QED
  BY <1>1, Inductive, PTL

=============================================================================
