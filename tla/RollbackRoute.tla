--------------------------- MODULE RollbackRoute ----------------------------
(***************************************************************************)
(* The two rollback routes (panel and v1).  They drive their row without   *)
(* streamDeploy: register, call the relay, write the row, gate the card.   *)
(* The v1 route keeps its registration through the card gate; the panel    *)
(* route answers and releases first, the gate running on its own.  Neither *)
(* route marks the card `deploying`.                                       *)
(***************************************************************************)
EXTENDS PanelState

RollbackCreate(d) ==
  /\ d \in Rollbacks
  /\ pc[d] = "idle"
  /\ CreateRow(d)
  /\ Step(d, "rbCreated")
  /\ UNCHANGED <<card, stamps, relay, refs, recovery, sweeper, waited, crashes, faults>>

\* The registration and the relay call are one turn; the relay may take the
\* call, or refuse it.
RollbackStart(d) ==
  /\ pc[d] = "rbCreated"
  /\ refs' = RegisterActiveDeploy(refs, d)
  /\ Step(d, "rbCall")
  /\ \/ UNCHANGED relay
     \/ ~RelayBusy(AppOf[d]) /\ relay' = [relay EXCEPT ![d] = "running"]
  /\ UNCHANGED <<database, recovery, sweeper, waited, crashes, faults>>

\* The relay's answer: done, or done nothing (blocked at preflight, success:false).
RollbackReply(d) ==
  /\ pc[d] = "rbCall"
  /\ \/ /\ relay[d] = "success"
        /\ UNCHANGED relay
        /\ StepWith(d, "rbRow", [loc[d] EXCEPT !.ok = TRUE])
     \/ /\ relay[d] = "running"
        /\ relay' = [relay EXCEPT ![d] = "noEntry"]
        /\ Step(d, "rbRow")
  /\ UNCHANGED <<database, refs, recovery, sweeper, waited, crashes, faults>>

\* A 4xx: the card is kept unless the relay says it had reset the tree.
RollbackRejected(d) ==
  /\ pc[d] = "rbCall"
  /\ relay[d] \in {"idle", "failed"}
  /\ \E beforeReset \in (IF relay[d] = "idle" THEN {TRUE} ELSE BOOLEAN) :
       StepWith(d, "rbRejectRow", [loc[d] EXCEPT !.keep = beforeReset])
  /\ UNCHANGED <<database, relay, refs, recovery, sweeper, waited, crashes, faults>>

\* Mutant: the route releases, and recovery relies on the route's hold.
HandOffUnheld(d) ==
  /\ StartRecovery(d)
  /\ refs' = ReleaseActiveDeploy(refs, d)
  /\ Gone(d)

\* The hand-off: recovery registers first, then the route's finally releases.
HandOff(d) ==
  /\ StartRecovery(d)
  /\ refs' = ReleaseActiveDeploy(RegisterActiveDeploy(refs, d), d)
  /\ Gone(d)

\* A 5xx or a lost connection.
RollbackBreaks(d) ==
  /\ pc[d] = "rbCall"
  /\ HandOff(d)
  /\ UNCHANGED <<database, relay, sweeper, waited, crashes, faults>>

RollbackRow(d) ==
  /\ pc[d] = "rbRow"
  /\ \/ /\ NoFault
        /\ WriteRow(d, IF loc[d].ok THEN "rolled_back" ELSE "failed", {})
        /\ \/ Step(d, "rbGate") /\ UNCHANGED refs
           \/ Step(d, "rbFreeGate") /\ refs' = ReleaseActiveDeploy(refs, d)
        /\ UNCHANGED <<card, stamps, relay, recovery, sweeper, waited, crashes>>
     \/ /\ Fault
        /\ HandOff(d)
        /\ UNCHANGED <<database, relay, sweeper, waited, crashes>>

\* After the card was written, or could not be.
RouteEnds(d) == IF pc[d] \in FreePcs THEN Gone(d) ELSE Step(d, "finish")

\* setAppStatusAfterRollback: a reported success is gated, a failure is not.
RollbackGate(d) ==
  /\ pc[d] \in {"rbGate", "rbFreeGate"}
  /\ \/ /\ NoFault
        /\ \E healthy \in (IF loc[d].ok THEN BOOLEAN ELSE {FALSE}) :
             StepWith(d, IF pc[d] = "rbGate" THEN "rbCard" ELSE "rbFreeCard",
                      [loc[d] EXCEPT !.ok = healthy])
     \/ loc[d].ok /\ Fault /\ RouteEnds(d)
  /\ UNCHANGED <<database, relay, refs, recovery, sweeper, waited, crashes>>

RollbackCard(d) ==
  /\ pc[d] \in {"rbCard", "rbFreeCard"}
  /\ \/ /\ NoFault
        /\ WriteCard(AppOf[d], IF loc[d].ok THEN "healthy" ELSE "unhealthy")
        /\ stamps' = IF loc[d].ok THEN stamps \cup {d} ELSE stamps
     \/ Fault /\ UNCHANGED <<card, stamps>>
  /\ RouteEnds(d)
  /\ UNCHANGED <<row, relay, refs, recovery, sweeper, waited, crashes>>

\* A failed write here leaves the catch block: the row stays running.
RollbackRejectRow(d) ==
  /\ pc[d] = "rbRejectRow"
  /\ \/ /\ NoFault
        /\ WriteRow(d, "failed", {})
        /\ Step(d, IF loc[d].keep THEN "finish" ELSE "rbRejectCard")
     \/ Fault /\ UNCHANGED row /\ Step(d, "finish")
  /\ UNCHANGED <<card, stamps, relay, refs, recovery, sweeper, waited, crashes>>

RollbackRejectCard(d) ==
  /\ pc[d] = "rbRejectCard"
  /\ \/ NoFault /\ WriteCard(AppOf[d], "unhealthy")
     \/ Fault /\ UNCHANGED card
  /\ Step(d, "finish")
  /\ UNCHANGED <<row, stamps, relay, refs, recovery, sweeper, waited, crashes>>

Rollback(d) ==
  \/ RollbackStart(d) \/ RollbackReply(d) \/ RollbackRejected(d) \/ RollbackBreaks(d)
  \/ RollbackRow(d) \/ RollbackGate(d) \/ RollbackCard(d)
  \/ RollbackRejectRow(d) \/ RollbackRejectCard(d)

=============================================================================
