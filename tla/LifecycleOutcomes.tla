------------------------- MODULE LifecycleOutcomes --------------------------
(***************************************************************************)
(* Why a row keeps the contract of DeployContract: whoever writes an       *)
(* outcome finds the row running, whoever claims a success has the relay's *)
(* record of it or a clean stream, and the sweep works on what is over.    *)
(***************************************************************************)
EXTENDS LifecycleInvariants

-----------------------------------------------------------------------------
(* What the place of a row's processes says of the row. *)

\* Where the relay has not been asked yet.
BeforeRelay == {"idle", "captured", "created", "marked", "provision", "post", "rbCreated"}

\* Where the driver has an outcome of its row still to write.
UnsettledPcs == {"created", "marked", "provision", "post", "gate", "finRow", "blockRow", "failRow",
                 "rbCreated", "rbCall", "rbRow", "rbRejectRow"}

\* A row whose driver has begun exists.
Begun(d) == row[d].status = "none" => pc[d] \in {"idle", "captured"}

\* The outcome is written once.
Unsettled(d) ==
  pc[d] \in UnsettledPcs \/ (pc[d] = "reading" /\ ~loc[d].fin) => row[d].status = "running"

Unasked(d) == pc[d] \in BeforeRelay => relay[d] = "idle"

\* The relay's record, or a stream that ended with good steps only.
Earned(d) == relay[d] = "success" \/ (~loc[d].fin /\ loc[d].steps # {} /\ "bad" \notin loc[d].steps)

Claims(d) == pc[d] = "gate" \/ (pc[d] = "finRow" /\ loc[d].ok) => Earned(d)

\* What recovery takes for proof.
Recovers(d) == rpc[d] = "row" /\ rloc[d].verdict = "proven" => relay[d] = "success"

\* Only the sweep leaves its marker, and only where nobody will work again.
Marks(d) == /\ "marker" \in row[d].log => Undriven(d)
            /\ "marker" \notin rloc[d].log

Fits(d) == Begun(d) /\ Unsettled(d) /\ Unasked(d) /\ Claims(d) /\ Recovers(d) /\ Marks(d)

-----------------------------------------------------------------------------
(* The order of the rows, and the row the sweep is at. *)

Known == {d \in Deploys : row[d].status # "none"}

\* Rows are numbered in the order of their creation.
Numbered ==
  /\ \A d \in Known : row[d].born \in 1..Cardinality(Known)
  /\ \A d, e \in Known : row[d].born = row[e].born => d = e

\* The sweep's success rests on the relay's record of the row it is at.
SweepHasProof ==
  /\ todo \subseteq Known
  /\ (At("finalize") /\ verdict = "success") \/ At("upgradeRow") =>
       \A d \in todo : Current(d) => relay[d] = "success"

OutcomeInv == (\A d \in Deploys : Fits(d)) /\ Numbered /\ SweepHasProof

-----------------------------------------------------------------------------
(* One row's step, as the contract sees it. *)

Bears(d, outcome) == outcome = "success" => relay[d] = "success"

\* What a step makes of the row's status.
Change(d) ==
  LET was == row[d].status
      is == row'[d].status
      from == Phase(d)
      to == Phase(d)'
  IN  \/ /\ is = was
         /\ to = from \/ (from = "live" /\ to \in {"lost", "over"}) \/ (from = "lost" /\ to = "over")
      \/ from = "none" /\ to = "live" /\ is = "running"
      \/ /\ from = "live" /\ to \in {"live", "over"} /\ was = "running"
         /\ is \in {"success", "failed", "rolled_back"}
         /\ Bears(d, is) \/ CleanStream(d)
      \/ from = "lost" /\ to = "lost" /\ is \in {"success", "failed", "interrupted"} /\ Bears(d, is)

MarkKept(d) == "marker" \in row'[d].log <=> "marker" \in row[d].log

\* A step of row d's own processes: what it does to the others, to the numbers and records, and
\* to the row.
Alone(d) ==
  /\ \A e \in Deploys \ {d} : /\ row'[e] = row[e] /\ pc'[e] = pc[e] /\ loc'[e] = loc[e]
                             /\ rpc'[e] = rpc[e] /\ rloc'[e] = rloc[e] /\ relay'[e] = relay[e]
  /\ relay[d] # "success" => relay'[d] # "success"
  /\ relay[d] = "success" => relay'[d] = "success"
  /\ UNCHANGED sweeper

Works(d) ==
  /\ Fits(d)' /\ Alone(d) /\ Change(d) /\ MarkKept(d)
  /\ \/ row[d].status # "none" /\ row'[d].status # "none" /\ row'[d].born = row[d].born
     \/ row[d].status = "none" /\ row'[d] = row[d]
     \/ row[d].status = "none" /\ CreateRow(d)

LEMMA WriteEffect ==
  ASSUME TypeOK, NEW d \in Deploys, NEW s, NEW log, WriteRow(d, s, log)
  PROVE  /\ row'[d].status = s /\ row'[d].log = log /\ row'[d].born = row[d].born
         /\ \A e \in Deploys \ {d} : row'[e] = row[e]
BY DEF TypeOK, WriteRow

LEMMA OpenEffect ==
  ASSUME TypeOK, NEW d \in Deploys, CreateRow(d)
  PROVE  /\ row'[d].status = "running" /\ row'[d].log = {}
         /\ \A e \in Deploys \ {d} : row'[e] = row[e]
BY DEF TypeOK, CreateRow

LEMMA MoveEffect ==
  ASSUME TypeOK, NEW d \in Deploys, NEW to
  PROVE  /\ Step(d, to) => /\ pc'[d] = to /\ loc'[d] = loc[d]
                           /\ \A e \in Deploys \ {d} : pc'[e] = pc[e] /\ loc'[e] = loc[e]
         /\ \A l : StepWith(d, to, l) =>
              /\ pc'[d] = to /\ loc'[d] = l
              /\ \A e \in Deploys \ {d} : pc'[e] = pc[e] /\ loc'[e] = loc[e]
BY DEF TypeOK, Step, StepWith

LEMMA LeaveEffect ==
  ASSUME TypeOK, NEW d \in Deploys, Gone(d)
  PROVE  /\ pc'[d] = "gone" /\ loc'[d] = NoLocals
         /\ \A e \in Deploys \ {d} : pc'[e] = pc[e] /\ loc'[e] = loc[e]
BY MoveEffect DEF Gone

LEMMA RecoveryMoveEffect ==
  ASSUME TypeOK, NEW d \in Deploys, NEW to, NEW l, RecoveryStepWith(d, to, l)
  PROVE  /\ rpc'[d] = to /\ rloc'[d] = l
         /\ \A e \in Deploys \ {d} : rpc'[e] = rpc[e] /\ rloc'[e] = rloc[e]
BY DEF TypeOK, RecoveryStepWith

LEMMA RelayEffect ==
  ASSUME TypeOK, NEW d \in Deploys, NEW r, relay' = [relay EXCEPT ![d] = r]
  PROVE  relay'[d] = r /\ \A e \in Deploys \ {d} : relay'[e] = relay[e]
BY DEF TypeOK

\* The fields of a record that a step replaces one by one.
LEMMA LocalsEffect ==
  ASSUME TypeOK, NEW d \in Deploys
  PROVE  /\ loc[d] \in Locals
         /\ \A x : [loc[d] EXCEPT !.steps = x].fin = loc[d].fin
         /\ \A x : [loc[d] EXCEPT !.fin = x].fin = x
         /\ \A x, y : [loc[d] EXCEPT !.keep = x, !.fin = y].fin = y
BY DEF TypeOK, Locals

-----------------------------------------------------------------------------
(* Kinds of step. *)

\* The row stays as it was, or its driver writes a log without the marker and, if the row
\* was running, its outcome.
RowGoesOn(d) ==
  \/ UNCHANGED row
  \/ /\ pc[d] \in Busy \ {"finish"}
     /\ row'[d].born = row[d].born /\ "marker" \notin row'[d].log
     /\ \A e \in Deploys \ {d} : row'[e] = row[e]
     /\ \/ row'[d].status = row[d].status
        \/ /\ row[d].status = "running"
           /\ row'[d].status \in {"success", "failed", "rolled_back"}
           /\ Bears(d, row'[d].status) \/ CleanStream(d)

\* No record of success comes or goes.
RecordKept(d) ==
  /\ relay'[d] = "success" <=> relay[d] = "success"
  /\ \A e \in Deploys \ {d} : relay'[e] = relay[e]

Moves(d) == \A e \in Deploys \ {d} : pc'[e] = pc[e] /\ loc'[e] = loc[e]

\* A driver past its row's creation goes on, or ends.
LEMMA GoesOn ==
  ASSUME TypeOK, NEW d \in Deploys, RowInv(d), Fits(d), UNCHANGED <<recovery, sweeper>>,
         pc[d] \in Busy \cup FreePcs \cup OpeningPcs,
         pc'[d] \in Busy \cup FreePcs \cup OpeningPcs \cup {"gone"},
         pc[d] \in FreePcs \cup {"finish"} => pc'[d] \in FreePcs \cup {"gone"},
         RowGoesOn(d), RecordKept(d), Moves(d),
         Unsettled(d)', Unasked(d)', Claims(d)'
  PROVE  Works(d)
<1>1. rpc[d] = "idle" /\ pc[d] \notin {"idle", "captured", "gone"}
  BY Apart DEF RowInv, RecoveryIsLate, Busy, OpeningPcs, FreePcs
<1>2. pc'[d] \notin {"idle", "captured"} /\ row[d].status # "none" /\ row'[d].status # "none"
  BY <1>1, Apart DEF Fits, Begun, Busy, RowGoesOn
<1>3. Undriven(d) => Undriven(d)' /\ UNCHANGED row
  BY <1>1, Apart DEF Undriven, Busy, RowGoesOn, recovery
<1>4. "marker" \in row'[d].log => Undriven(d)'
  BY <1>3 DEF Fits, Marks, RowGoesOn
<1>5. Alone(d) /\ MarkKept(d)
  <2>1. \A e \in Deploys \ {d} : row'[e] = row[e]
    BY DEF RowGoesOn
  <2>2. Alone(d)
    BY <2>1 DEF Alone, Moves, RecordKept, recovery
  <2>3. MarkKept(d)
    BY <1>1, Apart DEF MarkKept, RowGoesOn, Fits, Marks, Undriven, Busy
  <2>4. QED
    BY <2>2, <2>3
<1>6. Fits(d)'
  BY <1>1, <1>2, <1>4 DEF Fits, Begun, Recovers, Marks, recovery
<1>7. Change(d)
  <2>1. CASE pc[d] \in FreePcs \cup {"finish"}
    <3>1. Phase(d) = "over" /\ Phase(d)' = "over" /\ UNCHANGED row
      BY <1>1, <1>2, <2>1, Apart DEF Phase, RecoveryHolds, recovery, RowGoesOn, Busy
    <3>2. QED
      BY <3>1 DEF Change
  <2>2. CASE pc[d] \notin FreePcs \cup {"finish"}
    <3>1. Phase(d) = "live" /\ Phase(d)' \in {"live", "over"}
      BY <1>1, <1>2, <2>2, Apart DEF Phase, RecoveryHolds, recovery
    <3>2. QED
      BY <3>1 DEF Change, RowGoesOn
  <2>3. QED
    BY <2>1, <2>2
<1>8. QED
  BY <1>2, <1>5, <1>6, <1>7 DEF Works, RowGoesOn

\* A driver loses its connection: the row is recovery's.
LEMMA LosesIt ==
  ASSUME TypeOK, NEW d \in Deploys, RowInv(d), Fits(d), pc[d] \in Busy \ {"finish"},
         Recover(d) \/ HandOff(d), UNCHANGED <<row, sweeper>>, RecordKept(d)
  PROVE  Works(d)
<1>1. rpc[d] = "idle" /\ pc[d] \notin {"idle", "captured", "gone"} \cup FreePcs
  BY Apart DEF RowInv, RecoveryIsLate, Busy
<1>2. pc'[d] \in {"recovering", "gone"} /\ Moves(d)
  BY MoveEffect, LeaveEffect DEF Recover, HandOff, Moves
<1>3. /\ rpc'[d] = "load" /\ rloc'[d] = NoRecovery
      /\ \A e \in Deploys \ {d} : rpc'[e] = rpc[e] /\ rloc'[e] = rloc[e]
  BY RecoveryMoveEffect DEF Recover, HandOff, StartRecovery
<1>4. row[d].status # "none" /\ "marker" \notin row[d].log
  BY <1>1, Apart DEF Fits, Begun, Marks, Undriven
<1>5. Fits(d)'
  BY <1>2, <1>3, <1>4 DEF Fits, Begun, Unsettled, UnsettledPcs, Unasked, BeforeRelay, Claims,
                          Recovers, Marks, NoRecovery
<1>6. Phase(d) = "live" /\ Phase(d)' = "lost"
  BY <1>1, <1>3, <1>4 DEF Phase, RecoveryHolds
<1>7. QED
  BY <1>2, <1>3, <1>4, <1>5, <1>6 DEF Works, Alone, Moves, RecordKept, Change, MarkKept

\* A row is created.
LEMMA Opens ==
  ASSUME TypeOK, NEW d \in Deploys, RowInv(d), Fits(d), pc[d] \in {"idle", "captured"},
         pc'[d] \in OpeningPcs, CreateRow(d), Moves(d), UNCHANGED <<relay, recovery, sweeper>>
  PROVE  Works(d)
<1>1. rpc[d] = "idle" /\ row[d].status = "none" /\ relay[d] = "idle"
  BY Apart DEF RowInv, RecoveryIsLate, Fresh, Fits, Unasked, BeforeRelay
<1>2. /\ row'[d].status = "running" /\ row'[d].log = {}
      /\ \A e \in Deploys \ {d} : row'[e] = row[e]
  BY OpenEffect
<1>3. Fits(d)'
  BY <1>1, <1>2 DEF Fits, Begun, Unsettled, Unasked, Claims, Recovers, Marks, recovery, OpeningPcs
<1>4. Phase(d) = "none" /\ Phase(d)' = "live"
  BY <1>1, <1>2 DEF Phase, RecoveryHolds, recovery, OpeningPcs, FreePcs
<1>5. "marker" \notin row[d].log
  BY <1>1, Apart DEF Fits, Marks, Undriven
<1>6. QED
  BY <1>1, <1>2, <1>3, <1>4, <1>5 DEF Works, Alone, Moves, Change, MarkKept, recovery

\* A trigger that has not created its row.
LEMMA Waits ==
  ASSUME TypeOK, NEW d \in Deploys, RowInv(d), Fits(d), pc[d] \in {"idle", "captured"},
         pc'[d] \in {"idle", "captured"}, Moves(d), UNCHANGED <<row, relay, recovery, sweeper>>
  PROVE  Works(d)
<1>1. rpc[d] = "idle" /\ row[d].status = "none"
  BY Apart DEF RowInv, RecoveryIsLate, Fresh
<1>2. Phase(d) = "none" /\ Phase(d)' = "none"
  BY <1>1 DEF Phase
<1>3. "marker" \notin row[d].log
  BY <1>1, Apart DEF Fits, Marks, Undriven
<1>4. Fits(d)'
  BY <1>1, <1>3 DEF Fits, Begun, Unsettled, UnsettledPcs, Unasked, BeforeRelay, Claims, Recovers, Marks,
                    recovery
<1>5. QED
  BY <1>1, <1>2, <1>4 DEF Works, Alone, Moves, Change, MarkKept, recovery

-----------------------------------------------------------------------------
(* Each component, action by action. *)

\* Step marks are no marker.
LEMMA NoMarker ==
  ASSUME TypeOK, NEW d \in Deploys
  PROVE  /\ "marker" \notin Visible(loc[d].steps)
         /\ \A marks \in StepKinds : "marker" \notin Visible(loc[d].steps \cup marks)
<1>1. "marker" \notin loc[d].steps
  BY LocalsEffect DEF Locals, StepMarks
<1>2. ASSUME NEW marks \in StepKinds
      PROVE  "marker" \notin marks
  BY ConstantsOK
<1>3. QED
  BY <1>1, <1>2 DEF Visible

LEMMA DispatchWorks ==
  ASSUME TypeOK, NEW d \in Deploys, RowInv(d), Fits(d), Dispatch(d)
  PROVE  Works(d)
<1>1. CASE DispatchRead(d)
  BY <1>1, MoveEffect, Waits DEF DispatchRead, database, Moves
<1>2. CASE DispatchCreate(d)
  <2>1. CASE CreateRow(d) /\ Step(d, "created")
    BY <1>2, <2>1, MoveEffect, Opens DEF DispatchCreate, Moves, OpeningPcs
  <2>2. CASE UNCHANGED row /\ StepWith(d, "idle", NoLocals)
    BY <1>2, <2>2, MoveEffect, Waits DEF DispatchCreate, Moves
  <2>3. QED
    BY <1>2, <2>1, <2>2 DEF DispatchCreate
<1>3. CASE DispatchMark(d) \/ DispatchStart(d)
  <2>1. pc[d] \in {"created", "marked"} /\ UNCHANGED <<row, relay, recovery, sweeper>>
    BY <1>3 DEF DispatchMark, DispatchStart, database
  <2>2. pc'[d] \in {"marked", "provision", "gone"} /\ Moves(d)
    BY <1>3, MoveEffect, LeaveEffect DEF DispatchMark, DispatchStart, Moves
  <2>3. Unsettled(d)' /\ Unasked(d)' /\ Claims(d)'
    BY <2>1, <2>2 DEF Fits, Unsettled, UnsettledPcs, Unasked, BeforeRelay, Claims
  <2>4. RowGoesOn(d) /\ RecordKept(d)
    BY <2>1 DEF RowGoesOn, RecordKept
  <2>5. pc[d] \in OpeningPcs /\ pc[d] \notin FreePcs /\ pc'[d] \in OpeningPcs \cup Busy \cup {"gone"}
    BY <2>1, <2>2, BusyNames DEF OpeningPcs, FreePcs
  <2>6. QED
    BY <2>1, <2>2, <2>3, <2>4, <2>5, GoesOn
<1>4. QED
  BY <1>1, <1>2, <1>3 DEF Dispatch

\* Where streamDeploy is between its registration and its finally block.
InStream == StreamPcs \ {"recovering", "finish"}

\* A step of streamDeploy that neither loses the connection nor ends the stream.
LEMMA StreamGoesOn ==
  ASSUME TypeOK, NEW d \in Deploys, RowInv(d), Fits(d), UNCHANGED <<recovery, sweeper>>,
         pc[d] \in InStream, pc'[d] \in InStream \cup {"finish"}, Moves(d),
         RowGoesOn(d), RecordKept(d), Unsettled(d)', Unasked(d)', Claims(d)'
  PROVE  Works(d)
<1>1. InStream \subseteq Busy /\ "finish" \in Busy /\ "finish" \notin InStream
  BY DEF InStream, Busy, HoldPcs, StreamPcs
<1>2. QED
  BY <1>1, Apart, GoesOn DEF Busy

LEMMA WriteThrowsWorks ==
  ASSUME TypeOK, NEW d \in Deploys, RowInv(d), Fits(d), pc[d] \in InStream, WriteThrows(d)
  PROVE  Works(d)
<1>1. UNCHANGED <<row, relay, sweeper>> /\ RecordKept(d) /\ RowGoesOn(d)
  BY DEF WriteThrows, database, RecordKept, RowGoesOn
<1>2. pc[d] \in Busy \ {"finish"}
  BY DEF InStream, Busy, HoldPcs
<1>3. CASE loc[d].fin
  <2>1. pc'[d] = "reading" /\ loc'[d] = loc[d] /\ Moves(d) /\ UNCHANGED recovery
    BY <1>3, MoveEffect DEF WriteThrows, Moves
  <2>2. Unsettled(d)' /\ Unasked(d)' /\ Claims(d)'
    BY <1>3, <2>1 DEF Unsettled, UnsettledPcs, Unasked, BeforeRelay, Claims
  <2>3. "reading" \in InStream
    BY DEF InStream, StreamPcs
  <2>4. QED
    BY <1>1, <2>1, <2>2, <2>3, StreamGoesOn
<1>4. CASE ~loc[d].fin
  BY <1>1, <1>2, <1>4, LosesIt DEF WriteThrows
<1>5. QED
  BY <1>3, <1>4

\* What an action may rely on at its place.
LEMMA Places ==
  ASSUME NEW d \in Deploys, Fits(d)
  PROVE  /\ pc[d] \in UnsettledPcs => row[d].status = "running"
         /\ pc[d] = "reading" /\ ~loc[d].fin => row[d].status = "running"
         /\ pc[d] \in {"provision", "post", "rbCreated"} => relay[d] = "idle"
BY DEF Fits, Unsettled, Unasked, BeforeRelay

\* Where streamDeploy's moves lead.
LEMMA BlockEffect ==
  ASSUME TypeOK, NEW d \in Deploys, NEW keep, NEW fin, BlockDeploy(d, keep, fin)
  PROVE  pc'[d] = "blockRow" /\ Moves(d)
BY DEF BlockDeploy, StepWith, Moves, TypeOK

LEMMA FinalizeEffect ==
  ASSUME TypeOK, NEW d \in Deploys, NEW claim, NEW steps, NEW fin, Finalize(d, claim, steps, fin)
  PROVE  /\ pc'[d] = (IF claim THEN "gate" ELSE "finRow") /\ Moves(d)
         /\ loc'[d].ok = FALSE /\ loc'[d].fin = fin /\ loc'[d].steps = steps
BY DEF Finalize, StepWith, Moves, TypeOK, NoLocals

\* What is claimed for a deploy has been earned.
LEMMA Concludes ==
  ASSUME TypeOK, NEW d \in Deploys, NEW claim, NEW steps, NEW fin, Finalize(d, claim, steps, fin),
         UNCHANGED relay,
         claim => relay[d] = "success" \/ (~fin /\ steps # {} /\ "bad" \notin steps)
  PROVE  pc'[d] \in {"gate", "finRow"} /\ Moves(d) /\ Claims(d)'
<1>1. /\ pc'[d] = (IF claim THEN "gate" ELSE "finRow") /\ Moves(d)
      /\ loc'[d].ok = FALSE /\ loc'[d].fin = fin /\ loc'[d].steps = steps
  BY FinalizeEffect
<1>2. QED
  BY <1>1 DEF Claims, Earned

LEMMA StepMoves ==
  ASSUME TypeOK, NEW d \in Deploys, NEW to, Step(d, to)
  PROVE  pc'[d] = to /\ loc'[d] = loc[d] /\ Moves(d)
BY DEF Step, Moves, TypeOK

LEMMA BeforeStreamWorks ==
  ASSUME TypeOK, NEW d \in Deploys, RowInv(d), Fits(d),
         \/ StreamBreaks(d) \/ Provision(d) \/ EnvPreflightFails(d)
         \/ PostAccepted(d) \/ PostConflict(d) \/ PostRejected(d)
  PROVE  Works(d)
<1>1. CASE StreamBreaks(d)
  <2>1. pc[d] \in Busy \ {"finish"}
    BY <1>1, BusyNames DEF StreamBreaks
  <2>2. RecordKept(d)
    BY <1>1, Places, RelayEffect DEF StreamBreaks, RecordKept
  <2>3. QED
    BY <1>1, <2>1, <2>2, LosesIt DEF StreamBreaks, database
<1>2. CASE ~StreamBreaks(d)
  <2>1. /\ pc[d] \in {"provision", "post"} /\ row[d].status = "running" /\ relay[d] = "idle"
        /\ UNCHANGED <<row, recovery, sweeper>>
    BY <1>2, Places
       DEF UnsettledPcs, Provision, EnvPreflightFails, PostAccepted, PostConflict, PostRejected, database
  <2>2. /\ pc'[d] \in {"post", "blockRow", "reading", "failRow"} /\ Moves(d)
        /\ pc'[d] = "post" => UNCHANGED relay
    <3>1. CASE Provision(d)
      BY <3>1, MoveEffect DEF Provision, Moves
    <3>2. CASE EnvPreflightFails(d)
      BY <3>2, BlockEffect DEF EnvPreflightFails
    <3>3. CASE PostAccepted(d)
      BY <3>3, StepMoves DEF PostAccepted
    <3>4. CASE PostConflict(d)
      BY <3>4, BlockEffect DEF PostConflict
    <3>5. CASE PostRejected(d)
      BY <3>5, StepMoves DEF PostRejected
    <3>6. QED
      BY <1>2, <3>1, <3>2, <3>3, <3>4, <3>5
  <2>3. RecordKept(d)
    BY <1>2, <2>1, RelayEffect
       DEF Provision, EnvPreflightFails, PostAccepted, PostConflict, PostRejected, RecordKept
  <2>4. Unsettled(d)' /\ Unasked(d)' /\ Claims(d)'
    BY <2>1, <2>2 DEF Unsettled, UnsettledPcs, Unasked, BeforeRelay, Claims
  <2>5. pc[d] \in InStream /\ pc'[d] \in InStream
    BY <2>1, <2>2 DEF InStream, StreamPcs
  <2>6. QED
    BY <2>1, <2>2, <2>3, <2>4, <2>5, StreamGoesOn DEF RowGoesOn
<1>3. QED
  BY <1>1, <1>2

\* A step of the read loop: the row may get a longer log.
LEMMA ReadingWorks ==
  ASSUME TypeOK, NEW d \in Deploys, RowInv(d), Fits(d),
         \/ StepEvent(d) \/ DoneEvent(d) \/ BlockedEvent(d) \/ ErrorEvent(d)
         \/ JsonReply(d) \/ StreamEnds(d)
  PROVE  Works(d)
<1>1. /\ pc[d] = "reading" /\ UNCHANGED <<recovery, sweeper>>
      /\ \/ StepEvent(d) \/ DoneEvent(d) \/ BlockedEvent(d) \/ ErrorEvent(d) \/ JsonReply(d)
         => row[d].status = "running"
  BY Places DEF StepEvent, DoneEvent, BlockedEvent, ErrorEvent, JsonReply, StreamEnds, Streaming
<1>2. pc[d] \in InStream /\ pc[d] \in Busy \ {"finish"}
  BY <1>1, BusyNames DEF InStream, StreamPcs
<1>3. CASE StepEvent(d)
  <2>1. PICK marks \in StepKinds :
          /\ StepWith(d, "reading", [loc[d] EXCEPT !.steps = loc[d].steps \cup marks])
          /\ relay' = [relay EXCEPT ![d] = IF "bad" \in marks THEN "doomed" ELSE @]
          /\ \/ WriteRow(d, row[d].status, Visible(loc[d].steps \cup marks))
             \/ UNCHANGED row
    BY <1>3 DEF StepEvent
  <2>2. pc'[d] = "reading" /\ Moves(d)
    BY <2>1, MoveEffect DEF Moves
  <2>3. RecordKept(d)
    BY <1>3, <2>1 DEF StepEvent, Streaming, RecordKept, TypeOK
  <2>4. RowGoesOn(d) /\ row'[d].status = row[d].status
    BY <1>2, <2>1, WriteEffect, NoMarker DEF RowGoesOn
  <2>5. Unsettled(d)' /\ Unasked(d)' /\ Claims(d)'
    BY <1>1, <1>3, <2>2, <2>4 DEF Unsettled, UnsettledPcs, Unasked, BeforeRelay, Claims
  <2>6. QED
    BY <1>1, <1>2, <2>2, <2>3, <2>4, <2>5, StreamGoesOn
<1>4. CASE BlockedEvent(d) \/ ErrorEvent(d)
  <2>1. pc'[d] \in {"blockRow", "failRow"} /\ Moves(d) /\ UNCHANGED row
    BY <1>4, MoveEffect DEF BlockedEvent, ErrorEvent, BlockDeploy, Moves, database
  <2>2. RecordKept(d)
    BY <1>4, RelayEffect DEF BlockedEvent, ErrorEvent, Streaming, RecordKept
  <2>3. Unsettled(d)' /\ Unasked(d)' /\ Claims(d)'
    BY <1>1, <1>4, <2>1 DEF Unsettled, UnsettledPcs, Unasked, BeforeRelay, Claims
  <2>4. pc'[d] \in InStream /\ RowGoesOn(d)
    BY <2>1 DEF InStream, StreamPcs, RowGoesOn
  <2>5. QED
    BY <1>1, <1>2, <2>1, <2>2, <2>3, <2>4, StreamGoesOn
<1>5. CASE DoneEvent(d) \/ JsonReply(d) \/ StreamEnds(d)
  <2>1. UNCHANGED row /\ RecordKept(d) /\ RowGoesOn(d)
    BY <1>5, RelayEffect DEF DoneEvent, JsonReply, StreamEnds, RecordKept, RowGoesOn, database
  <2>2. /\ pc'[d] \in {"gate", "finRow", "blockRow", "failRow", "finish"} /\ Moves(d)
        /\ pc'[d] # "finish" => row[d].status = "running"
        /\ Claims(d)'
    <3>1. CASE Step(d, "finish") \/ (Step(d, "failRow") /\ row[d].status = "running")
      <4>1. pc'[d] \in {"finish", "failRow"} /\ Moves(d)
        BY <3>1, StepMoves
      <4>2. QED
        BY <3>1, <4>1, StepMoves DEF Claims
    <3>2. CASE BlockDeploy(d, CapturedDeploying(d), FALSE) /\ row[d].status = "running"
      BY <3>2, BlockEffect DEF Claims
    <3>3. UNCHANGED relay => \A claim, steps, fin :
            Finalize(d, claim, steps, fin)
            /\ (claim => relay[d] = "success" \/ (~fin /\ steps # {} /\ "bad" \notin steps))
            => pc'[d] \in {"gate", "finRow"} /\ Moves(d) /\ Claims(d)'
      BY Concludes
    <3>4. CASE DoneEvent(d)
      BY <1>1, <3>3, <3>4 DEF DoneEvent
    <3>5. CASE StreamEnds(d)
      <4>1. CASE row[d].status = "running"
        <5>1. /\ Finalize(d, AllSuccess(loc[d].steps), loc[d].steps, FALSE) /\ UNCHANGED relay
              /\ AllSuccess(loc[d].steps) => loc[d].steps # {} /\ "bad" \notin loc[d].steps
          BY <3>5, <4>1 DEF StreamEnds, AllSuccess
        <5>2. QED
          BY <3>3, <4>1, <5>1
      <4>2. CASE row[d].status # "running"
        BY <3>1, <3>5, <4>2 DEF StreamEnds
      <4>3. QED
        BY <4>1, <4>2
    <3>6. CASE JsonReply(d)
      <4>1. CASE Step(d, "failRow") \/ BlockDeploy(d, CapturedDeploying(d), FALSE)
        BY <1>1, <3>1, <3>2, <3>6, <4>1
      <4>2. ASSUME NEW claim \in {FALSE, relay[d] = "success"}, NEW marks \in {{}} \cup StepKinds,
                   Finalize(d, claim, loc[d].steps \cup marks, FALSE), UNCHANGED relay
            PROVE  pc'[d] \in {"gate", "finRow"} /\ Moves(d) /\ Claims(d)'
        BY <3>3, <4>2
      <4>3. QED
        BY <1>1, <3>6, <4>1, <4>2 DEF JsonReply
    <3>7. QED
      BY <1>5, <3>4, <3>5, <3>6
  <2>3. Unsettled(d)' /\ Unasked(d)'
    BY <2>1, <2>2 DEF Unsettled, UnsettledPcs, Unasked, BeforeRelay
  <2>4. pc'[d] \in InStream \cup {"finish"}
    BY <2>2 DEF InStream, StreamPcs
  <2>5. QED
    BY <1>1, <1>2, <2>1, <2>2, <2>3, <2>4, StreamGoesOn
<1>6. QED
  BY <1>3, <1>4, <1>5

\* The running row gets its outcome, or the write is lost.
LEMMA SettlesRow ==
  ASSUME TypeOK, NEW d \in Deploys, RowInv(d), Fits(d), UNCHANGED <<recovery, sweeper, relay>>,
         pc[d] \in InStream \cap UnsettledPcs,
         NEW s \in {"success", "failed"}, NEW log, WriteRow(d, s, log), "marker" \notin log,
         s = "success" => relay[d] = "success" \/ CleanStream(d),
         NEW to, Step(d, to), to \in {"finCard", "blockRead", "blockCard", "failCard", "reading", "finish"},
         to = "reading" => loc[d].fin
  PROVE  Works(d)
<1>1. pc'[d] = to /\ loc'[d] = loc[d] /\ Moves(d)
  BY StepMoves
<1>2. RowGoesOn(d) /\ RecordKept(d)
  <2>1. row[d].status = "running" /\ pc[d] \in Busy \ {"finish"}
    BY Places DEF InStream, Busy, HoldPcs
  <2>2. QED
    BY <2>1, WriteEffect DEF RowGoesOn, RecordKept, Bears
<1>3. Unsettled(d)' /\ Unasked(d)' /\ Claims(d)'
  BY <1>1 DEF Unsettled, UnsettledPcs, Unasked, BeforeRelay, Claims
<1>4. pc'[d] \in InStream \cup {"finish"}
  BY <1>1 DEF InStream, StreamPcs
<1>5. QED
  BY <1>1, <1>2, <1>3, <1>4, StreamGoesOn

\* A step of the terminal writes that leaves the row alone.
LEMMA PassesOn ==
  ASSUME TypeOK, NEW d \in Deploys, RowInv(d), Fits(d), UNCHANGED <<row, recovery, sweeper, relay>>,
         pc[d] \in InStream, Moves(d), pc'[d] \in {"finRow", "blockCard", "failCard", "reading", "finish"},
         pc'[d] = "reading" => loc'[d].fin,
         pc'[d] = "finRow" => row[d].status = "running" /\ (loc'[d].ok => Earned(d)')
  PROVE  Works(d)
<1>1. RowGoesOn(d) /\ RecordKept(d)
  BY DEF RowGoesOn, RecordKept
<1>2. Unsettled(d)' /\ Unasked(d)' /\ Claims(d)'
  BY DEF Unsettled, UnsettledPcs, Unasked, BeforeRelay, Claims
<1>3. pc'[d] \in InStream \cup {"finish"}
  BY DEF InStream, StreamPcs
<1>4. QED
  BY <1>1, <1>2, <1>3, StreamGoesOn

LEMMA TerminalWorks ==
  ASSUME TypeOK, NEW d \in Deploys, RowInv(d), Fits(d),
         \/ HealthGate(d) \/ FinalizeRow(d) \/ FinalizeCard(d)
         \/ BlockRow(d) \/ BlockRead(d) \/ BlockCard(d) \/ FailRow(d) \/ FailCard(d)
  PROVE  Works(d)
<1>1. pc[d] \in InStream
  BY DEF HealthGate, FinalizeRow, FinalizeCard, BlockRow, BlockRead, BlockCard, FailRow, FailCard,
         InStream, StreamPcs
<1>2. CASE WriteThrows(d)
  BY <1>1, <1>2, WriteThrowsWorks
<1>3. CASE HealthGate(d) /\ ~WriteThrows(d)
  <2>1. PICK healthy \in BOOLEAN : StepWith(d, "finRow", [loc[d] EXCEPT !.ok = healthy])
    BY <1>3 DEF HealthGate
  <2>2. /\ pc'[d] = "finRow" /\ Moves(d)
        /\ loc'[d].fin = loc[d].fin /\ loc'[d].steps = loc[d].steps
    BY <2>1 DEF StepWith, Moves, TypeOK, Locals
  <2>3. UNCHANGED <<row, recovery, sweeper, relay>> /\ row[d].status = "running" /\ Earned(d)
    BY <1>3, Places DEF HealthGate, database, UnsettledPcs, Fits, Claims
  <2>4. Earned(d)'
    BY <2>2, <2>3 DEF Earned
  <2>5. QED
    BY <1>1, <2>2, <2>3, <2>4, PassesOn
<1>4. CASE FinalizeRow(d) /\ ~WriteThrows(d)
  <2>1. /\ WriteRow(d, IF loc[d].ok THEN "success" ELSE "failed",
                     Visible(loc[d].steps) \cup (IF loc[d].claim /\ ~loc[d].ok THEN {"bad"} ELSE {}))
        /\ Step(d, "finCard") /\ UNCHANGED <<recovery, sweeper, relay>>
    BY <1>4 DEF FinalizeRow
  <2>2. pc[d] \in UnsettledPcs /\ (loc[d].ok => relay[d] = "success" \/ CleanStream(d))
    BY <1>4 DEF FinalizeRow, UnsettledPcs, Fits, Claims, Earned, CleanStream
  <2>3. "marker" \notin Visible(loc[d].steps) \cup (IF loc[d].claim /\ ~loc[d].ok THEN {"bad"} ELSE {})
    BY NoMarker
  <2>4. QED
    BY <1>1, <2>1, <2>2, <2>3, SettlesRow
<1>5. CASE BlockRow(d) /\ ~WriteThrows(d)
  <2>1. /\ WriteRow(d, "failed", {"blocked", "bad"}) /\ UNCHANGED <<recovery, sweeper, relay>>
        /\ \/ Step(d, "reading") /\ loc[d].fin
           \/ Step(d, "finish") \/ Step(d, "blockRead") \/ Step(d, "blockCard")
    BY <1>5 DEF BlockRow, AfterWrites
  <2>2. pc[d] \in UnsettledPcs
    BY <1>5 DEF BlockRow, UnsettledPcs
  <2>3. QED
    BY <1>1, <2>1, <2>2, SettlesRow
<1>6. CASE FailRow(d) /\ ~WriteThrows(d)
  <2>1. Step(d, "failCard") /\ UNCHANGED <<recovery, sweeper, relay>> /\ pc[d] \in UnsettledPcs
    BY <1>6 DEF FailRow, UnsettledPcs
  <2>2. WriteRow(d, "failed", {"bad"}) \/ UNCHANGED row
    BY <1>6 DEF FailRow, database
  <2>3. CASE WriteRow(d, "failed", {"bad"})
    BY <1>1, <2>1, <2>3, SettlesRow
  <2>4. CASE UNCHANGED row
    BY <1>1, <2>1, <2>4, StepMoves, PassesOn
  <2>5. QED
    BY <2>2, <2>3, <2>4
<1>7. CASE (FinalizeCard(d) \/ BlockCard(d) \/ FailCard(d)) /\ ~WriteThrows(d)
  <2>1. UNCHANGED <<row, recovery, sweeper, relay>> /\ AfterWrites(d)
    BY <1>7 DEF FinalizeCard, BlockCard, FailCard
  <2>2. /\ pc'[d] = (IF loc[d].fin THEN "reading" ELSE "finish") /\ loc'[d] = loc[d] /\ Moves(d)
    BY <2>1, StepMoves DEF AfterWrites
  <2>3. QED
    BY <1>1, <2>1, <2>2, PassesOn
<1>8. CASE BlockRead(d)
  <2>1. UNCHANGED <<row, recovery, sweeper, relay>> /\ pc'[d] = "blockCard" /\ Moves(d)
    BY <1>8, MoveEffect DEF BlockRead, Moves, database
  <2>2. QED
    BY <1>1, <2>1, PassesOn
<1>9. QED
  BY <1>2, <1>3, <1>4, <1>5, <1>6, <1>7, <1>8

LEMMA StreamWorks ==
  ASSUME TypeOK, NEW d \in Deploys, RowInv(d), Fits(d), Stream(d)
  PROVE  Works(d)
<1>1. CASE Finish(d)
  <2>1. /\ pc[d] = "finish" /\ pc'[d] = "gone" /\ Moves(d)
        /\ UNCHANGED <<row, relay, recovery, sweeper>>
    BY <1>1, LeaveEffect DEF Finish, Moves, database
  <2>2. Unsettled(d)' /\ Unasked(d)' /\ Claims(d)' /\ RowGoesOn(d) /\ RecordKept(d)
    BY <2>1 DEF Unsettled, UnsettledPcs, Unasked, BeforeRelay, Claims, RowGoesOn, RecordKept
  <2>3. QED
    BY <2>1, <2>2, BusyNames, GoesOn
<1>2. QED
  BY <1>1, BeforeStreamWorks, ReadingWorks, TerminalWorks DEF Stream

LEMMA RollbackWorks ==
  ASSUME TypeOK, NEW d \in Deploys, RowInv(d), Fits(d), RollbackCreate(d) \/ Rollback(d)
  PROVE  Works(d)
<1>1. CASE RollbackCreate(d)
  BY <1>1, StepMoves, Opens DEF RollbackCreate, OpeningPcs
<1>2. CASE RollbackStart(d)
  <2>1. /\ pc[d] = "rbCreated" /\ pc'[d] = "rbCall" /\ Moves(d) /\ RowGoesOn(d)
        /\ UNCHANGED <<row, recovery, sweeper>>
    BY <1>2, StepMoves DEF RollbackStart, RowGoesOn, database
  <2>2. RecordKept(d)
    BY <1>2, Places, RelayEffect DEF RollbackStart, RecordKept
  <2>3. Unsettled(d)' /\ Unasked(d)' /\ Claims(d)'
    BY <2>1, Places DEF Unsettled, UnsettledPcs, Unasked, BeforeRelay, Claims
  <2>4. pc[d] \in OpeningPcs /\ pc[d] \notin FreePcs \cup {"finish"} /\ pc'[d] \in Busy
    BY <2>1, BusyNames DEF OpeningPcs, FreePcs
  <2>5. QED
    BY <2>1, <2>2, <2>3, <2>4, GoesOn
<1>3. CASE RollbackReply(d) \/ RollbackRejected(d)
  <2>1. /\ pc[d] = "rbCall" /\ RowGoesOn(d) /\ UNCHANGED <<row, recovery, sweeper>>
    BY <1>3 DEF RollbackReply, RollbackRejected, RowGoesOn, database
  <2>2. pc'[d] \in {"rbRow", "rbRejectRow"} /\ Moves(d)
    BY <1>3, StepMoves, MoveEffect DEF RollbackReply, RollbackRejected, Moves
  <2>3. RecordKept(d)
    BY <1>3, RelayEffect DEF RollbackReply, RollbackRejected, RecordKept
  <2>4. Unsettled(d)' /\ Unasked(d)' /\ Claims(d)'
    BY <2>1, <2>2, Places DEF Unsettled, UnsettledPcs, Unasked, BeforeRelay, Claims
  <2>5. pc[d] \in Busy /\ pc[d] \notin FreePcs \cup {"finish"} /\ pc'[d] \in Busy
    BY <2>1, <2>2, BusyNames DEF FreePcs
  <2>6. QED
    BY <2>1, <2>2, <2>3, <2>4, <2>5, GoesOn
<1>4. CASE RollbackBreaks(d)
  BY <1>4, BusyNames, LosesIt DEF RollbackBreaks, RecordKept, database
<1>5. CASE RollbackRow(d)
  <2>1. pc[d] \in Busy \ {"finish"} /\ row[d].status = "running"
    BY <1>5, BusyNames, Places DEF RollbackRow, UnsettledPcs
  <2>2. CASE HandOff(d) /\ UNCHANGED <<database, relay, sweeper>>
    BY <2>1, <2>2, LosesIt DEF RecordKept, database
  <2>3. CASE /\ WriteRow(d, IF loc[d].ok THEN "rolled_back" ELSE "failed", {})
             /\ Step(d, "rbGate") \/ Step(d, "rbFreeGate")
             /\ UNCHANGED <<relay, recovery, sweeper>>
    <3>1. RowGoesOn(d) /\ RecordKept(d)
      BY <2>1, <2>3, WriteEffect DEF RowGoesOn, RecordKept, Bears
    <3>2. pc'[d] \in {"rbGate", "rbFreeGate"} /\ Moves(d)
      BY <2>3, StepMoves
    <3>3. Unsettled(d)' /\ Unasked(d)' /\ Claims(d)'
      BY <3>2 DEF Unsettled, UnsettledPcs, Unasked, BeforeRelay, Claims
    <3>4. pc'[d] \in Busy \cup FreePcs /\ pc[d] \notin FreePcs \cup {"finish"}
      BY <1>5, <3>2, BusyNames DEF FreePcs, RollbackRow
    <3>5. QED
      BY <2>1, <2>3, <3>1, <3>2, <3>3, <3>4, GoesOn
  <2>4. QED
    BY <1>5, <2>2, <2>3 DEF RollbackRow
<1>6. CASE RollbackGate(d) \/ RollbackCard(d)
  <2>1. /\ pc[d] \in {"rbGate", "rbCard"} \cup FreePcs /\ UNCHANGED <<row, relay, recovery, sweeper>>
        /\ RowGoesOn(d) /\ RecordKept(d)
    BY <1>6 DEF RollbackGate, RollbackCard, FreePcs, RowGoesOn, RecordKept, database
  <2>2. /\ pc'[d] \in (IF pc[d] \in FreePcs THEN {"rbFreeCard", "gone"} ELSE {"rbCard", "finish"})
        /\ Moves(d)
    <3>1. CASE RouteEnds(d)
      BY <2>1, <3>1, StepMoves, LeaveEffect DEF RouteEnds, Moves
    <3>2. CASE RollbackGate(d) /\ ~RouteEnds(d)
      BY <3>2, MoveEffect DEF RollbackGate, Moves, FreePcs
    <3>3. QED
      BY <1>6, <3>1, <3>2 DEF RollbackCard
  <2>3. Unsettled(d)' /\ Unasked(d)' /\ Claims(d)'
    BY <2>2 DEF Unsettled, UnsettledPcs, Unasked, BeforeRelay, Claims
  <2>4. /\ pc[d] \in Busy \cup FreePcs /\ pc[d] # "finish" /\ pc'[d] \in Busy \cup FreePcs \cup {"gone"}
        /\ pc[d] \in FreePcs => pc'[d] \in FreePcs \cup {"gone"}
    BY <2>1, <2>2, BusyNames DEF FreePcs
  <2>5. QED
    BY <2>1, <2>2, <2>3, <2>4, GoesOn
<1>7. CASE RollbackRejectRow(d) \/ RollbackRejectCard(d)
  <2>1. /\ pc[d] \in {"rbRejectRow", "rbRejectCard"} /\ UNCHANGED <<relay, recovery, sweeper>>
        /\ RecordKept(d)
    BY <1>7 DEF RollbackRejectRow, RollbackRejectCard, RecordKept
  <2>2. pc'[d] \in {"rbRejectCard", "finish"} /\ Moves(d)
    BY <1>7, StepMoves DEF RollbackRejectRow, RollbackRejectCard
  <2>3. pc[d] \in Busy \ {"finish"} /\ pc[d] \notin FreePcs /\ pc'[d] \in Busy
    BY <2>1, <2>2, BusyNames DEF FreePcs
  <2>4. RowGoesOn(d)
    <3>1. CASE UNCHANGED row
      BY <3>1 DEF RowGoesOn
    <3>2. CASE pc[d] = "rbRejectRow" /\ WriteRow(d, "failed", {})
      BY <2>3, <3>2, Places, WriteEffect DEF RowGoesOn, UnsettledPcs, Bears
    <3>3. QED
      BY <1>7, <3>1, <3>2 DEF RollbackRejectRow, RollbackRejectCard
  <2>5. Unsettled(d)' /\ Unasked(d)' /\ Claims(d)'
    BY <2>2 DEF Unsettled, UnsettledPcs, Unasked, BeforeRelay, Claims
  <2>6. QED
    BY <2>1, <2>2, <2>3, <2>4, <2>5, GoesOn
<1>8. QED
  BY <1>1, <1>2, <1>3, <1>4, <1>5, <1>6, <1>7 DEF Rollback

-----------------------------------------------------------------------------
(* Recovery. *)

LEMMA RecoveryWorks ==
  ASSUME TypeOK, NEW d \in Deploys, RowInv(d), Fits(d), Recovery(d)
  PROVE  Works(d)
<1>1. /\ rpc[d] # "idle" /\ pc[d] \in {"recovering", "gone"} /\ UNCHANGED <<relay, sweeper>>
  BY DEF Recovery, RecoveryLoad, RecoveryGate, RecoveryThrows, RecoveryTarget, RecoveryRow,
         RecoveryCard, RecoveryDone, RowInv, RecoveryIsLate
<1>2. row[d].status # "none" /\ "marker" \notin row[d].log /\ Phase(d) = "lost"
  BY <1>1 DEF Fits, Begun, Marks, Undriven, Phase, RecoveryHolds
<1>3. CASE RecoveryDone(d)
  <2>1. /\ rpc'[d] = "idle" /\ rloc'[d] = NoRecovery /\ UNCHANGED row
        /\ \A e \in Deploys \ {d} : rpc'[e] = rpc[e] /\ rloc'[e] = rloc[e]
    BY <1>3, RecoveryMoveEffect DEF RecoveryDone, RecoveryEnds, database
  <2>2. pc'[d] \in {"finish", "gone"} /\ Moves(d)
    BY <1>1, <1>3, StepMoves DEF RecoveryDone, driver, Moves
  <2>3. Fits(d)'
    BY <1>2, <2>1, <2>2 DEF Fits, Begun, Unsettled, UnsettledPcs, Unasked, BeforeRelay, Claims,
                            Recovers, Marks, NoRecovery
  <2>4. Phase(d)' = "over"
    BY <1>2, <2>1, <2>2 DEF Phase, RecoveryHolds
  <2>5. QED
    BY <1>1, <1>2, <2>1, <2>2, <2>3, <2>4 DEF Works, Alone, Moves, Change, MarkKept
<1>4. CASE ~RecoveryDone(d)
  <2>1. UNCHANGED driver
    BY <1>4 DEF Recovery, RecoveryLoad, RecoveryGate, RecoveryThrows, RecoveryTarget,
                RecoveryRow, RecoveryCard
  <2>2. /\ rpc'[d] # "idle" /\ "marker" \notin rloc'[d].log /\ Recovers(d)'
        /\ \A e \in Deploys \ {d} : rpc'[e] = rpc[e] /\ rloc'[e] = rloc[e]
    <3>1. CASE RecoveryLoad(d)
      BY <1>2, <3>1
         DEF RecoveryLoad, RecoveryStepWith, TypeOK, RecoveryLocals, Recovers, Fits, Marks
    <3>2. CASE RecoveryGate(d)
      BY <3>2
         DEF RecoveryGate, Judge, RecoveryStep, RecoveryStepWith, TypeOK, RecoveryLocals, Recovers,
             Fits, Marks
    <3>3. CASE RecoveryTarget(d)
      BY <1>1, <3>3
         DEF RecoveryTarget, Proven, Judge, RecoveryStepWith, TypeOK, RecoveryLocals, Recovers, Fits, Marks
    <3>4. CASE RecoveryThrows(d) \/ RecoveryRow(d) \/ RecoveryCard(d)
      BY <3>4, RecoveryMoveEffect
         DEF RecoveryThrows, RecoveryRow, RecoveryCard, RecoveryStep, Recovers, Fits, Marks
    <3>5. QED
      BY <1>4, <3>1, <3>2, <3>3, <3>4 DEF Recovery
  <2>3. /\ row'[d].status # "none" /\ row'[d].born = row[d].born /\ "marker" \notin row'[d].log
        /\ \A e \in Deploys \ {d} : row'[e] = row[e]
        /\ \/ row'[d].status = row[d].status
           \/ row'[d].status \in {"success", "failed", "interrupted"} /\ Bears(d, row'[d].status)
    <3>1. CASE UNCHANGED row
      BY <1>2, <3>1
    <3>2. CASE /\ RecoveryRow(d)
               /\ WriteRow(d, RecoveredStatus(rloc[d].verdict),
                           rloc[d].log \cup (IF rloc[d].verdict = "proven" THEN {} ELSE {"bad"}))
      <4>1. /\ row'[d].status = RecoveredStatus(rloc[d].verdict) /\ row'[d].born = row[d].born
            /\ row'[d].log = rloc[d].log \cup (IF rloc[d].verdict = "proven" THEN {} ELSE {"bad"})
            /\ \A e \in Deploys \ {d} : row'[e] = row[e]
        BY <3>2, WriteEffect
      <4>2. Bears(d, RecoveredStatus(rloc[d].verdict))
        BY <3>2 DEF RecoveryRow, RecoveredStatus, Bears, Fits, Recovers
      <4>3. QED
        BY <4>1, <4>2 DEF Fits, Marks, RecoveredStatus
    <3>3. QED
      BY <1>4, <3>1, <3>2 DEF Recovery, RecoveryLoad, RecoveryGate, RecoveryThrows, RecoveryTarget,
                              RecoveryRow, RecoveryCard, database
  <2>4. Fits(d)'
    BY <1>1, <2>1, <2>2, <2>3 DEF Fits, Begun, Unsettled, UnsettledPcs, Unasked, BeforeRelay, Claims,
                                  Marks, driver
  <2>5. Phase(d)' = "lost"
    BY <2>2, <2>3 DEF Phase, RecoveryHolds
  <2>6. QED
    BY <1>1, <1>2, <2>1, <2>2, <2>3, <2>4, <2>5 DEF Works, Alone, Change, MarkKept, driver
<1>5. QED
  BY <1>3, <1>4

=============================================================================
