--------------------------- MODULE DeployRecovery ---------------------------
(***************************************************************************)
(* recoverBrokenDeploy: what becomes of a row whose relay connection was   *)
(* lost.  It holds its own registration from its first statement to its    *)
(* finally block.  Every write is a plain update whose failure is          *)
(* swallowed; none asks whether the row is still running.                  *)
(***************************************************************************)
EXTENDS PanelState

RecoveryStep(d, to) == RecoveryStepWith(d, to, rloc[d])
Judge(d, found) == RecoveryStepWith(d, "row", [rloc[d] EXCEPT !.verdict = found])
RecoveryEnds(d) == RecoveryStepWith(d, "idle", NoRecovery)

\* The stored steps and start time; a failed read leaves neither.
RecoveryLoad(d) ==
  /\ rpc[d] = "load"
  /\ \/ NoFault /\ RecoveryStepWith(d, "gate", [rloc[d] EXCEPT !.log = row[d].log])
     \/ Fault /\ RecoveryStepWith(d, "gate", [rloc[d] EXCEPT !.blind = TRUE])
  /\ UNCHANGED <<database, relay, refs, driver, sweeper, waited, crashes>>

\* The strict health gate.  A healthy probe after a rollback or a failed step
\* shows the old version; otherwise the target check decides.
RecoveryGate(d) ==
  /\ rpc[d] = "gate"
  /\ \/ Judge(d, "unhealthy")
     \/ "bad" \in rloc[d].log /\ Judge(d, "rolledback")
     \/ "bad" \notin rloc[d].log /\ RecoveryStep(d, "target")
  /\ UNCHANGED <<database, relay, refs, driver, sweeper, waited, crashes, faults>>

\* Mutant: the release is not in a finally block.
RecoveryThrowsUnreleased(d) ==
  /\ rpc[d] = "gate"
  /\ Fault
  /\ RecoveryEnds(d)
  /\ IF pc[d] = "recovering" THEN Step(d, "finish") ELSE UNCHANGED driver
  /\ UNCHANGED <<database, relay, refs, sweeper, waited, crashes>>

\* The gate itself throws: nothing is written.
RecoveryThrows(d) ==
  /\ rpc[d] = "gate"
  /\ Fault
  /\ RecoveryStep(d, "done")
  /\ UNCHANGED <<database, relay, refs, driver, sweeper, waited, crashes>>

\* Mutant: a healthy app is taken as proof that the deploy ran.
RecoveryTargetTrusting(d) ==
  /\ rpc[d] = "target"
  /\ Judge(d, "proven")
  /\ UNCHANGED <<database, relay, refs, driver, sweeper, waited, crashes, faults>>

\* checkDeployTargetDetailed.  It can always fail (relay unreachable, HEAD moved
\* on, a rollback that did not move the repo); it holds only on proof.
RecoveryTarget(d) ==
  /\ rpc[d] = "target"
  /\ \/ Judge(d, "unproven")
     \/ Proven(d) /\ ~rloc[d].blind /\ Judge(d, "proven")
  /\ UNCHANGED <<database, relay, refs, driver, sweeper, waited, crashes, faults>>

RecoveredStatus(found) ==
  CASE found = "proven" -> "success"
    [] found = "unproven" -> "interrupted"
    [] OTHER -> "failed"

RecoveryRow(d) ==
  /\ rpc[d] = "row"
  /\ \/ NoFault /\ WriteRow(d, RecoveredStatus(rloc[d].verdict),
                            rloc[d].log \cup (IF rloc[d].verdict = "proven" THEN {} ELSE {"bad"}))
     \/ Fault /\ UNCHANGED row
  /\ RecoveryStep(d, "card")
  /\ UNCHANGED <<card, stamps, relay, refs, driver, sweeper, waited, crashes>>

RecoveryCard(d) ==
  /\ rpc[d] = "card"
  /\ \/ /\ NoFault
        /\ WriteCard(AppOf[d], IF rloc[d].verdict = "unhealthy" THEN "unhealthy" ELSE "healthy")
        /\ stamps' = IF rloc[d].verdict \in {"proven", "rolledback"} THEN stamps \cup {d} ELSE stamps
     \/ Fault /\ UNCHANGED <<card, stamps>>
  /\ RecoveryStep(d, "done")
  /\ UNCHANGED <<row, relay, refs, driver, sweeper, waited, crashes>>

\* The finally block; a stream that awaits this recovery goes on to its own.
RecoveryDone(d) ==
  /\ rpc[d] = "done"
  /\ RecoveryEnds(d)
  /\ refs' = ReleaseActiveDeploy(refs, d)
  /\ IF pc[d] = "recovering" THEN Step(d, "finish") ELSE UNCHANGED driver
  /\ UNCHANGED <<database, relay, sweeper, waited, crashes, faults>>

Recovery(d) ==
  \/ RecoveryLoad(d) \/ RecoveryGate(d) \/ RecoveryThrows(d) \/ RecoveryTarget(d)
  \/ RecoveryRow(d) \/ RecoveryCard(d) \/ RecoveryDone(d)

=============================================================================
