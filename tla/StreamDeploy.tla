---------------------------- MODULE StreamDeploy ----------------------------
(***************************************************************************)
(* A deploy trigger (panel button, bulk deploy, v1 API, scheduler) and the *)
(* streamDeploy it starts.  Each action is what happens up to the next     *)
(* await: one database or relay call, and what the code does with its      *)
(* answer.                                                                 *)
(***************************************************************************)
EXTENDS PanelState

-----------------------------------------------------------------------------
(* The trigger. *)

\* The app row is read (or upserted): its status is what a blocked deploy restores.
DispatchRead(d) ==
  /\ d \in Triggers
  /\ pc[d] = "idle"
  /\ StepWith(d, "captured", [NoLocals EXCEPT !.prev = card[AppOf[d]].status])
  /\ UNCHANGED <<database, relay, refs, recovery, sweeper, waited, crashes, faults>>

\* A failed create answers the request with an error, and nothing was begun.
DispatchCreate(d) ==
  /\ pc[d] = "captured"
  /\ \/ NoFault /\ CreateRow(d) /\ Step(d, "created")
     \/ Fault /\ UNCHANGED row /\ StepWith(d, "idle", NoLocals)
  /\ UNCHANGED <<card, stamps, relay, refs, recovery, sweeper, waited, crashes>>

\* From here on a failed call leaves a running row that nobody drives.
DispatchMark(d) ==
  /\ pc[d] = "created"
  /\ \/ NoFault /\ WriteCard(AppOf[d], "deploying") /\ Step(d, "marked")
     \/ Fault /\ UNCHANGED card /\ Gone(d)
  /\ UNCHANGED <<row, stamps, relay, refs, recovery, sweeper, waited, crashes>>

\* The server row is read; streamDeploy registers before its first await.
DispatchStart(d) ==
  /\ pc[d] = "marked"
  /\ \/ NoFault /\ refs' = RegisterActiveDeploy(refs, d) /\ Step(d, "provision")
     \/ Fault /\ UNCHANGED refs /\ Gone(d)
  /\ UNCHANGED <<database, relay, recovery, sweeper, waited, crashes>>

-----------------------------------------------------------------------------
(* Before the stream. *)

\* A 5xx, a lost connection or a thrown database call, at any point.
StreamBreaks(d) ==
  /\ pc[d] \in {"provision", "post", "reading"}
  /\ Recover(d)
  /\ \/ UNCHANGED relay
     \/ /\ pc[d] = "post" /\ ~RelayBusy(AppOf[d])
        /\ relay' = [relay EXCEPT ![d] = "running"]
  /\ UNCHANGED <<database, sweeper, waited, crashes, faults>>

\* The secrets are in the relay's .env; the step is logged when there were any.
Provision(d) ==
  /\ pc[d] = "provision"
  /\ StepWith(d, "post", [loc[d] EXCEPT !.steps = IF AppOf[d] \in SecretApps THEN {"prov"} ELSE {}])
  /\ UNCHANGED <<database, relay, refs, recovery, sweeper, waited, crashes, faults>>

\* The next write is finalizeBlockedDeploy's row update.
BlockDeploy(d, keep, fin) ==
  StepWith(d, "blockRow", [loc[d] EXCEPT !.keep = keep, !.fin = fin])

CapturedDeploying(d) == loc[d].prev = "deploying"

\* The panel's own preflight: a required env key does not resolve.
EnvPreflightFails(d) ==
  /\ pc[d] = "provision"
  /\ BlockDeploy(d, CapturedDeploying(d), FALSE)
  /\ UNCHANGED <<database, relay, refs, recovery, sweeper, waited, crashes, faults>>

PostAccepted(d) ==
  /\ pc[d] = "post"
  /\ ~RelayBusy(AppOf[d])
  /\ relay' = [relay EXCEPT ![d] = "running"]
  /\ Step(d, "reading")
  /\ UNCHANGED <<database, refs, recovery, sweeper, waited, crashes, faults>>

\* 409: the card is kept only while another row of the app runs; a failed lookup
\* counts as one that does.
PostConflict(d) ==
  /\ pc[d] = "post"
  /\ \/ NoFault /\ BlockDeploy(d, CapturedDeploying(d) /\ AnotherDeployRunning(d), FALSE)
     \/ Fault /\ CapturedDeploying(d) /\ BlockDeploy(d, TRUE, FALSE)
  /\ UNCHANGED <<database, relay, refs, recovery, sweeper, waited, crashes>>

\* Any other 4xx: the relay ran nothing.
PostRejected(d) ==
  /\ pc[d] = "post"
  /\ Step(d, "failRow")
  /\ UNCHANGED <<database, relay, refs, recovery, sweeper, waited, crashes, faults>>

-----------------------------------------------------------------------------
(* Reading the stream. *)

Streaming(d) == pc[d] = "reading" /\ ~loc[d].fin /\ relay[d] \in {"running", "doomed"}

\* A step arrives and the accumulated log is saved; a failed save is swallowed.
StepEvent(d) ==
  /\ Streaming(d)
  /\ \E marks \in StepKinds :
       LET steps == loc[d].steps \cup marks IN
       /\ ~(marks \subseteq loc[d].steps)
       /\ StepWith(d, "reading", [loc[d] EXCEPT !.steps = steps])
       /\ relay' = [relay EXCEPT ![d] = IF "bad" \in marks THEN "doomed" ELSE @]
       /\ \/ NoFault /\ WriteRow(d, row[d].status, Visible(steps))
          \/ Fault /\ UNCHANGED row
  /\ UNCHANGED <<card, stamps, refs, recovery, sweeper, waited, crashes>>

\* finalizeDeploy: a claimed success goes through the health gate first.
Finalize(d, claim, steps, fin) ==
  StepWith(d, IF claim THEN "gate" ELSE "finRow",
           [NoLocals EXCEPT !.steps = steps, !.claim = claim, !.fin = fin])

DoneEvent(d) ==
  /\ pc[d] = "reading"
  /\ ~loc[d].fin
  /\ relay[d] \in {"success", "failed"}
  /\ Finalize(d, relay[d] = "success", loc[d].steps, TRUE)
  /\ UNCHANGED <<database, relay, refs, recovery, sweeper, waited, crashes, faults>>

\* The relay refused at its preflight: nothing ran, no history entry.
BlockedEvent(d) ==
  /\ Streaming(d)
  /\ relay[d] = "running"
  /\ relay' = [relay EXCEPT ![d] = "noEntry"]
  /\ BlockDeploy(d, CapturedDeploying(d), TRUE)
  /\ UNCHANGED <<database, refs, recovery, sweeper, waited, crashes, faults>>

ErrorEvent(d) ==
  /\ Streaming(d)
  /\ relay' \in {[relay EXCEPT ![d] = r] : r \in {"failed", "noEntry"}}
  /\ StepWith(d, "failRow", [loc[d] EXCEPT !.fin = TRUE])
  /\ UNCHANGED <<database, refs, recovery, sweeper, waited, crashes, faults>>

\* The relay answers with one JSON body: not parseable, refused at preflight, or
\* an outcome (a body of an unknown shape reads as a failure).
JsonReply(d) ==
  /\ pc[d] = "reading"
  /\ ~loc[d].fin
  /\ loc[d].steps \subseteq {"prov"}
  /\ \/ /\ Step(d, "failRow")
        /\ UNCHANGED relay
     \/ /\ relay[d] = "running"
        /\ relay' = [relay EXCEPT ![d] = "noEntry"]
        /\ BlockDeploy(d, CapturedDeploying(d), FALSE)
     \/ /\ relay[d] \in {"success", "failed"}
        /\ \E claim \in {FALSE, relay[d] = "success"}, marks \in {{}} \cup StepKinds :
             Finalize(d, claim, loc[d].steps \cup marks, FALSE)
        /\ UNCHANGED relay
  /\ UNCHANGED <<database, refs, recovery, sweeper, waited, crashes, faults>>

\* Mutant: any logged step will do.
AllSuccessOrNot(steps) == steps # {}

\* Steps that let a stream without a terminal event count as a success.
AllSuccess(steps) == steps # {} /\ "bad" \notin steps

\* Mutant: the end of the stream is judged even when an event had settled the row.
StreamEndsAgain(d) ==
  /\ pc[d] = "reading"
  /\ Finalize(d, AllSuccess(loc[d].steps), loc[d].steps, FALSE)
  /\ UNCHANGED <<database, relay, refs, recovery, sweeper, waited, crashes, faults>>

\* The stream ended cleanly: a row still running is settled from the steps.
StreamEnds(d) ==
  /\ pc[d] = "reading"
  /\ IF row[d].status = "running"
       THEN Finalize(d, AllSuccess(loc[d].steps), loc[d].steps, FALSE)
       ELSE Step(d, "finish")
  /\ UNCHANGED <<database, relay, refs, recovery, sweeper, waited, crashes, faults>>

-----------------------------------------------------------------------------
(* The terminal writes.  Those of an event (fin) return to the read loop,  *)
(* which swallows what they throw; those after the loop end the stream, or *)
(* throw into its catch block.                                             *)

AfterWrites(d) == Step(d, IF loc[d].fin THEN "reading" ELSE "finish")

WriteThrows(d) ==
  /\ Fault
  /\ IF loc[d].fin THEN Step(d, "reading") /\ UNCHANGED <<recovery, refs>> ELSE Recover(d)
  /\ UNCHANGED <<database, relay, sweeper, waited, crashes>>

\* verifyDeployHealth, optimistic: the verdict is the world's.
HealthGate(d) ==
  /\ pc[d] = "gate"
  /\ \/ /\ NoFault
        /\ \E healthy \in BOOLEAN : StepWith(d, "finRow", [loc[d] EXCEPT !.ok = healthy])
        /\ UNCHANGED <<database, relay, refs, recovery, sweeper, waited, crashes>>
     \/ WriteThrows(d)

FinalizeRow(d) ==
  /\ pc[d] = "finRow"
  /\ \/ /\ NoFault
        /\ WriteRow(d, IF loc[d].ok THEN "success" ELSE "failed",
                    Visible(loc[d].steps) \cup (IF loc[d].claim /\ ~loc[d].ok THEN {"bad"} ELSE {}))
        /\ Step(d, "finCard")
        /\ UNCHANGED <<card, stamps, relay, refs, recovery, sweeper, waited, crashes>>
     \/ WriteThrows(d)

\* A failure the relay rolled back from, with a passed rollback health check,
\* leaves the app healthy and lastDeployAt alone.
RolledBackHealthy(d) == ~loc[d].claim /\ "rbok" \in loc[d].steps

FinalizeCard(d) ==
  /\ pc[d] = "finCard"
  /\ \/ /\ NoFault
        /\ WriteCard(AppOf[d], IF loc[d].ok \/ RolledBackHealthy(d) THEN "healthy" ELSE "unhealthy")
        /\ stamps' = IF RolledBackHealthy(d) THEN stamps ELSE stamps \cup {d}
        /\ AfterWrites(d)
        /\ UNCHANGED <<row, relay, refs, recovery, sweeper, waited, crashes>>
     \/ WriteThrows(d)

BlockRow(d) ==
  /\ pc[d] = "blockRow"
  /\ \/ /\ NoFault
        /\ WriteRow(d, "failed", {"blocked", "bad"})
        /\ IF loc[d].keep THEN AfterWrites(d)
           ELSE Step(d, IF CapturedDeploying(d) THEN "blockRead" ELSE "blockCard")
        /\ UNCHANGED <<card, stamps, relay, refs, recovery, sweeper, waited, crashes>>
     \/ WriteThrows(d)

\* statusAfterBlocked reads the history; a failed read reads as an empty one.
BlockRead(d) ==
  /\ pc[d] = "blockRead"
  /\ \/ NoFault /\ StepWith(d, "blockCard", [loc[d] EXCEPT !.prev = StatusAfterBlocked(d)])
     \/ Fault /\ StepWith(d, "blockCard", [loc[d] EXCEPT !.prev = "unknown"])
  /\ UNCHANGED <<database, relay, refs, recovery, sweeper, waited, crashes>>

BlockCard(d) ==
  /\ pc[d] = "blockCard"
  /\ \/ /\ NoFault
        /\ WriteCard(AppOf[d], loc[d].prev)
        /\ AfterWrites(d)
        /\ UNCHANGED <<row, stamps, relay, refs, recovery, sweeper, waited, crashes>>
     \/ WriteThrows(d)

\* A rejection or an `error` event.  The event swallows each failed write.
FailRow(d) ==
  /\ pc[d] = "failRow"
  /\ \/ /\ NoFault
        /\ WriteRow(d, "failed", {"bad"})
        /\ Step(d, "failCard")
        /\ UNCHANGED <<card, stamps, relay, refs, recovery, sweeper, waited, crashes>>
     \/ /\ loc[d].fin
        /\ Fault
        /\ Step(d, "failCard")
        /\ UNCHANGED <<database, relay, refs, recovery, sweeper, waited, crashes>>
     \/ ~loc[d].fin /\ WriteThrows(d)

FailCard(d) ==
  /\ pc[d] = "failCard"
  /\ \/ /\ NoFault
        /\ WriteCard(AppOf[d], "unhealthy")
        /\ AfterWrites(d)
        /\ UNCHANGED <<row, stamps, relay, refs, recovery, sweeper, waited, crashes>>
     \/ WriteThrows(d)

\* The finally block.
Finish(d) ==
  /\ pc[d] = "finish"
  /\ refs' = ReleaseActiveDeploy(refs, d)
  /\ Gone(d)
  /\ UNCHANGED <<database, relay, recovery, sweeper, waited, crashes, faults>>

Dispatch(d) == DispatchRead(d) \/ DispatchCreate(d) \/ DispatchMark(d) \/ DispatchStart(d)

Stream(d) ==
  \/ StreamBreaks(d) \/ Provision(d) \/ EnvPreflightFails(d)
  \/ PostAccepted(d) \/ PostConflict(d) \/ PostRejected(d)
  \/ StepEvent(d) \/ DoneEvent(d) \/ BlockedEvent(d) \/ ErrorEvent(d)
  \/ JsonReply(d) \/ StreamEnds(d)
  \/ HealthGate(d) \/ FinalizeRow(d) \/ FinalizeCard(d)
  \/ BlockRow(d) \/ BlockRead(d) \/ BlockCard(d)
  \/ FailRow(d) \/ FailCard(d) \/ Finish(d)

=============================================================================
