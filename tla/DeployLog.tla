------------------------------ MODULE DeployLog ------------------------------
(***************************************************************************)
(* What a Deploy row's log says (deploy-log.ts), and the same rule in the  *)
(* frontend (status.ts), which sees only the steps.  A step is its name,   *)
(* its kind marker and its status; a log is a sequence of steps.           *)
(***************************************************************************)
EXTENDS Naturals, Sequences, FiniteSets

Step(name, kind, status) == [name |-> name, kind |-> kind, status |-> status]

Build(status) == Step("docker build", "none", status)
RollbackHealth(status) == Step("rollback: health check", "none", status)
Prune(status) == Step("build cache prune", "none", status)
PreflightSummary(status) == Step("preflight", "none", status)
ConflictStep == Step("deploy-conflict", "deploy-conflict", "failure")
RecoveryStep(status) == Step("recovery", "none", status)
GateStep(status) == Step("post-deploy health gate", "none", status)

Has(steps, Test(_)) == \E i \in DOMAIN steps : Test(steps[i])
IsPreflightCheckStep(s) == s.kind = "preflight-check"
IsConflictStep(s) == s.kind = "deploy-conflict"

\* matchBlockedLog, for steps; the older shapes of a log are not written any more.
IsBlockedDeployLog(steps) == Has(steps, LAMBDA s : IsPreflightCheckStep(s) \/ IsConflictStep(s))
IsPreflightBlockedDeployLog(steps) == Has(steps, IsPreflightCheckStep)

-----------------------------------------------------------------------------

\* Mutant: a report without a failed check adds no step.
FailedChecksOnly(failed) == [i \in 1..Cardinality(failed) |-> Step("check", "preflight-check", "failure")]

\* One marked step per failed check; a report that names none still yields one.
BlockedPreflightSteps(failed) ==
  [i \in 1..(IF failed = {} THEN 1 ELSE Cardinality(failed)) |-> Step("check", "preflight-check", "failure")]

\* The relay's own summary of a failed preflight.
IsSummary(s) ==
  s.name = "preflight" /\ ~IsPreflightCheckStep(s) /\ s.status \notin {"success", "skipped"}

\* The steps at the indices `kept`, in their order.
Those(steps, kept) ==
  [n \in 1..Cardinality(kept) |->
     steps[CHOOSE i \in kept : Cardinality({j \in kept : j <= i}) = n]]

\* What ran before, without the summary, and then what failed.
BlockedDeployLogSteps(before, failed) ==
  Those(before, {i \in DOMAIN before : ~IsSummary(before[i])}) \o BlockedPreflightSteps(failed)

-----------------------------------------------------------------------------

\* Whether the steps veto a success that was not claimed.
HasRollbackOrFailedStep(steps) ==
  Has(steps, LAMBDA s : s.name # "build cache prune"
                        /\ (s.status = "failure" \/ s.name = "rollback: health check"))

\* The status of the last `rollback: health check` step.
LastRollbackHealth(steps) ==
  LET checks == {i \in DOMAIN steps : steps[i].name = "rollback: health check"}
  IN  IF checks = {} THEN "none"
      ELSE steps[CHOOSE i \in checks : \A j \in checks : j <= i].status

\* backend/src/lib/deploy-log.ts
ClassifyDeployOutcome(status, steps) ==
  IF status = "failed" /\ steps # << >> /\ ~IsBlockedDeployLog(steps)
  THEN IF LastRollbackHealth(steps) = "success" THEN "rolled_back_healthy" ELSE "outage"
  ELSE IF status = "success" THEN "success" ELSE "none"

\* frontend/src/lib/status.ts
FrontendOutcome(status, steps) ==
  IF status = "success" THEN "success"
  ELSE IF status # "failed" \/ IsBlockedDeployLog(steps) \/ Len(steps) = 0 THEN "none"
  ELSE IF LastRollbackHealth(steps) = "success" THEN "rolled_back_healthy" ELSE "outage"

\* What the lists send of a row, in the place of its log: the deploys (GET /deploys), and
\* the apps, of each app's newest deploy.
Listed(status, steps) ==
  [blocked |-> IsPreflightBlockedDeployLog(steps), outcome |-> ClassifyDeployOutcome(status, steps)]
LastDeployOutcome(status, steps) == ClassifyDeployOutcome(status, steps)

\* The line above the steps of a finished deploy.
OutcomeNote(outcome, steps) ==
  IF outcome = "rolled_back_healthy" THEN "rolled back"
  ELSE IF outcome = "outage" /\ LastRollbackHealth(steps) = "failure" THEN "rollback unhealthy"
  ELSE "none"

\* The badge of a row in the deploys list.
DeployStatusBadge(status, blocked, outcome) ==
  IF blocked /\ status = "failed" THEN "Blocked (preflight)"
  ELSE IF status = "failed" /\ outcome = "rolled_back_healthy" THEN "Failed, rolled back (healthy)"
  ELSE status

=============================================================================
