-------------------------- MODULE DeployLifecycle ---------------------------
(***************************************************************************)
(* The deploy lifecycle: every trigger's stream, both rollback routes,     *)
(* connection-lost recovery and the periodic sweep, running interleaved in *)
(* one process over one database, with restarts and failed database calls. *)
(***************************************************************************)
EXTENDS StreamDeploy, RollbackRoute, DeployRecovery, StuckSweep

-----------------------------------------------------------------------------
(* The world around the process. *)

\* The relay ends a call it accepted and records it; a deploy that already
\* streamed a failed step ends failed.
RelayFinish(d) ==
  /\ \/ relay[d] = "running" /\ relay' \in {[relay EXCEPT ![d] = r] : r \in {"success", "failed"}}
     \/ relay[d] = "doomed" /\ relay' = [relay EXCEPT ![d] = "failed"]
  /\ UNCHANGED <<database, refs, driver, recovery, sweeper, waited, crashes, faults>>

\* The relay stops before it records anything.
RelayStops(d) ==
  /\ relay[d] \in {"running", "doomed"}
  /\ relay' = [relay EXCEPT ![d] = "noEntry"]
  /\ UNCHANGED <<database, refs, driver, recovery, sweeper, waited, crashes, faults>>

\* A running row passes STUCK_THRESHOLD_MS, oldest first.  A dispatch registers
\* its row long before that: the few database calls in between do not take two
\* minutes.
RowAges(d) ==
  /\ row[d].status = "running" /\ ~row[d].aged
  /\ pc[d] \notin OpeningPcs
  /\ \A e \in Deploys : row[e].status = "running" /\ row[e].born < row[d].born => row[e].aged
  /\ row' = [row EXCEPT ![d] = [@ EXCEPT !.aged = TRUE]]
  /\ UNCHANGED <<card, stamps, relay, refs, driver, recovery, sweeper, waited, crashes, faults>>

\* A card has shown `deploying` for STUCK_THRESHOLD_MS.  A reconcile compares with
\* the cutoff it started from, so a card does not age under one.
CardAges(a) ==
  /\ card[a].status = "deploying" /\ ~card[a].aged
  /\ plan[a] = "keep"
  /\ card' = [card EXCEPT ![a] = [@ EXCEPT !.aged = TRUE]]
  /\ UNCHANGED <<row, stamps, relay, refs, driver, recovery, sweeper, waited, crashes, faults>>

\* SELF_DEPLOY_PROOF_GRACE_MS has passed since the row and this process started.
GraceEnds(d) ==
  /\ SelfDeploy(d) /\ row[d].aged /\ d \notin waited
  /\ waited' = waited \cup {d}
  /\ UNCHANGED <<database, relay, refs, driver, recovery, sweeper, crashes, faults>>

\* The process dies and boots again: its memory is gone, the database and the
\* relay stay.  A trigger that had not created its row yet can come again.
Crash ==
  /\ crashes < MaxCrashes
  /\ crashes' = crashes + 1
  /\ refs' = [d \in Deploys |-> 0]
  /\ pc' = [d \in Deploys |-> IF row[d].status = "none" THEN "idle" ELSE "gone"]
  /\ loc' = [d \in Deploys |-> NoLocals]
  /\ rpc' = [d \in Deploys |-> "idle"]
  /\ rloc' = [d \in Deploys |-> NoRecovery]
  /\ SweepStops
  /\ waited' = {}
  /\ UNCHANGED <<database, relay, faults>>

World ==
  \/ \E d \in Deploys : RelayFinish(d) \/ RelayStops(d) \/ RowAges(d) \/ GraceEnds(d)
  \/ \E a \in Apps : CardAges(a)
  \/ Crash

Next ==
  \/ \E d \in Deploys : Dispatch(d) \/ Stream(d) \/ RollbackCreate(d) \/ Rollback(d) \/ Recovery(d)
  \/ Sweep
  \/ World

Spec == Init /\ [][Next]_vars

(***************************************************************************)
(* Every await of the process ends: relay calls and probes carry timeouts, *)
(* the event loop runs what is ready, the sweep's interval keeps firing,   *)
(* and time passes.  Nothing makes anyone start a deploy, makes the relay  *)
(* finish one, or makes a process crash.                                   *)
(***************************************************************************)
Fairness ==
  /\ \A d \in Deploys :
       /\ WF_vars(DispatchCreate(d) \/ DispatchMark(d) \/ DispatchStart(d))
       /\ WF_vars(Stream(d))
       /\ WF_vars(Rollback(d))
       /\ WF_vars(Recovery(d))
       /\ WF_vars(RowAges(d))
       /\ WF_vars(GraceEnds(d))
  /\ \A a \in Apps : WF_vars(CardAges(a))
  /\ WF_vars(Sweep)

FairSpec == Spec /\ Fairness

-----------------------------------------------------------------------------
(* Safety. *)

\* Holds on d: one of its driver, one of its recovery.
DriverHolds(d) == pc[d] \in HoldPcs
RecoveryHolds(d) == rpc[d] # "idle"
Holds(d) == (IF DriverHolds(d) THEN 1 ELSE 0) + (IF RecoveryHolds(d) THEN 1 ELSE 0)

\* The registry's count is exactly the holds of the processes that still drive the
\* row, whatever the order of hand-offs, releases and restarts
\* (deploy-recovery.ts, registerActiveDeploy / releaseActiveDeploy).
RegistryExact == \A d \in Deploys : refs[d] = Holds(d)

\* A row the sweep has picked up is driven by nobody: neither a stream, a rollback
\* call, a recovery nor a trigger that is about to start one.  Otherwise the sweep
\* would settle a deploy that is still running (startup.ts, recoverStuckDeploys).
Undriven(d) == pc[d] \in FreePcs \cup {"gone"} /\ rpc[d] = "idle"
SweepTakesOrphans ==
  spc \notin {"upgradeCheck", "upgradeRow", "upgradeCard"} =>
    \A d \in todo : Undriven(d)

\* A row ends `success` only on the relay's own record of this very deploy, or on
\* a stream that ended cleanly with steps that all succeeded; in the hands of
\* recovery, the sweep and the late upgrade only the record counts (a healthy app is
\* no proof that the deploy ran: deploy-recovery.ts, startup.ts).  The panel's own app is
\* no exception (startup.ts:205-212), although docs/architecture.md:101 still has its
\* deploys succeed on a passed preflight.
CleanStream(d) ==
  pc[d] = "finRow" /\ ~loc[d].fin /\ loc[d].steps # {} /\ "bad" \notin loc[d].steps
SuccessIsEarned ==
  [][\A d \in Deploys :
       row[d].status # "success" /\ row'[d].status = "success"
       => relay[d] = "success" \/ CleanStream(d)]_vars

\* A settled row changes only in the hands of its own recovery, or when the sweep
\* upgrades an unverified self-deploy: no trigger, no other deploy's process and no
\* sweep verdict ever replaces an outcome already shown.
OutcomesAreNotOverwritten ==
  [][\A d \in Deploys :
       row[d].status \in Settled /\ row'[d].status # row[d].status
       => \/ RecoveryHolds(d)
          \/ /\ row[d].status = "interrupted" /\ "marker" \in row[d].log
             /\ row'[d].status = "success" /\ relay[d] = "success"]_vars

\* The reconcile never takes a card from a deploy that started after its query:
\* while a row of the app runs, a card leaves `deploying` only by a write of a
\* deploy's own process or of the sweep's row pass (startup.ts,
\* reconcileDeployingApps: "a dispatch that began after the query is not overwritten").
ReconcileSparesNewDeploys ==
  [][\A a \in Apps : At("reconcile") /\ plan'[a] # plan[a] /\ RunningOf(a) # {}
                     => card'[a] = card[a]]_vars

-----------------------------------------------------------------------------
(* What is promised of a row. *)

\* Whether a process of the panel works on the row or looks into its lost connection.
Phase(d) ==
  CASE row[d].status = "none" -> "none"
    [] row[d].status # "none" /\ RecoveryHolds(d) -> "lost"
    [] row[d].status # "none" /\ ~RecoveryHolds(d) /\ pc[d] \in FreePcs \cup {"finish", "gone"} -> "over"
    [] OTHER -> "live"

StatusOf == [d \in Deploys |-> row[d].status]
PhaseOf == [d \in Deploys |-> Phase(d)]
Marked == {d \in Deploys : "marker" \in row[d].log}
Recorded == {d \in Deploys : relay[d] = "success"}

Contract == INSTANCE DeployContract
  WITH status <- StatusOf, phase <- PhaseOf, marked <- Marked, proof <- Recorded

\* Whatever streams, routes, recoveries, sweeps and restarts do together, every row has
\* one life: one process settles it once, a lost connection is looked into once, and
\* afterwards only the sweep settles what was left running and, for a deploy it could not
\* verify, accepts the relay's late record (stream-deploy.ts, deploy-recovery.ts, startup.ts).
KeepsContract == Contract!ContractSpec

-----------------------------------------------------------------------------
(* Liveness. *)

\* Every deploy row is settled in the end, through restarts, failed database calls
\* and relay answers that never come.
EveryRowSettles ==
  \A d \in Deploys : row[d].status = "running" ~> row[d].status # "running"

\* No app shows `deploying` forever.
NoCardStuckDeploying ==
  \A a \in Apps : card[a].status = "deploying" ~> card[a].status # "deploying"

\* No registration leaks: the sweep can always reach a row again.
RegistryDrains == \A d \in Deploys : refs[d] > 0 ~> refs[d] = 0

-----------------------------------------------------------------------------
(* What the repository says and the code does not do; each is refuted by a run. *)

\* docs/architecture.md:104-107: success, failed, rolled_back and interrupted are
\* final states of a row.
OutcomesAreFinal ==
  [][\A d \in Deploys : row[d].status \in Settled => row'[d].status = row[d].status]_vars

\* docs/okf/deploy-outcome-trust-chain.md:97: reclaiming an orphaned record of an
\* app cannot clobber a live deploy's `deploying` card.
SweepSparesLiveCards ==
  [][\A a \in Apps :
       At("card") /\ (\E d \in RunningOf(a) : pc[d] \in {"provision", "post", "reading"})
       /\ card[a].status = "deploying" => card'[a].status = "deploying"]_vars

\* stream-deploy.ts:440-443: a stream without a terminal event counts as a success
\* only if a step of the deploy itself was seen.
InferredSuccessHasRelayStep ==
  [][\A d \in Deploys :
       row[d].status = "running" /\ row'[d].status = "success" /\ ~loc[d].fin
       => "ok" \in loc[d].steps \/ relay[d] = "success"]_vars

=============================================================================
