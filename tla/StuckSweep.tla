----------------------------- MODULE StuckSweep -----------------------------
(***************************************************************************)
(* recoverStuckDeploys: one pass at a time (sweepInFlight), at boot and    *)
(* every minute.  A pass settles the stuck rows oldest first, revisits     *)
(* unverified self-deploys, then settles the cards left on `deploying`.    *)
(* `todo` holds the rows still to do, the oldest being worked on.          *)
(***************************************************************************)
EXTENDS PanelState

At(here) == spc = here
GoTo(to) == spc' = to /\ UNCHANGED <<todo, verdict, plan>>
Visit(rows, to) == spc' = to /\ todo' = rows /\ UNCHANGED <<verdict, plan>>
SweepStops == spc' = "idle" /\ todo' = {} /\ verdict' = "interrupted" /\ plan' = NoPlan
Current(d) == d \in todo /\ \A e \in todo : row[d].born <= row[e].born

\* The pass leaves this row and looks at the next one.
NextRow(d, to) ==
  spc' = to /\ todo' = todo \ {d} /\ verdict' = "interrupted" /\ UNCHANGED plan

\* Mutant: the query does not leave the active ids out.
SweepStartUnfiltered ==
  /\ At("idle")
  /\ LET stuck == {d \in Deploys : row[d].aged}
     IN  Visit(stuck, IF stuck = {} THEN "assess" ELSE "query")
  /\ UNCHANGED <<database, relay, refs, driver, recovery, waited, crashes, faults>>

\* The cutoff and the active ids are taken before the query is sent; a query
\* that can match no row is left out.
SweepStart ==
  /\ At("idle")
  /\ LET stuck == {d \in Deploys : row[d].aged} \ ListActiveDeployIds
     IN  Visit(stuck, IF stuck = {} THEN "assess" ELSE "query")
  /\ UNCHANGED <<database, relay, refs, driver, recovery, waited, crashes, faults>>

\* A failed query ends the pass.
SweepQuery ==
  /\ At("query")
  /\ \/ NoFault /\ Visit({d \in todo : row[d].status = "running"}, "assess")
     \/ Fault /\ SweepStops
  /\ UNCHANGED <<database, relay, refs, driver, recovery, waited, crashes>>

SelfDeploy(d) == AppOf[d] \in SelfApps

\* The relay preflight, then the target check; both may fail at any time.
SweepAssess(d) ==
  /\ At("assess")
  /\ Current(d)
  /\ verdict' \in {found \in SweepVerdicts :
                    /\ found = "success" => Proven(d)
                    /\ found = "failed" => relay[d] = "failed" /\ ~LaterRow(d)
                    /\ found = "unverified" => SelfDeploy(d)}
  /\ spc' = "finalize"
  /\ UNCHANGED <<todo, plan>>
  /\ UNCHANGED <<database, relay, refs, driver, recovery, waited, crashes, faults>>

\* Mutant: the wait for the relay's record has no end.
SweepWaitsForever(d) ==
  /\ At("assess")
  /\ Current(d)
  /\ SelfDeploy(d)
  /\ ~LaterRow(d)
  /\ relay[d] \in {"idle", "running", "doomed", "noEntry"}
  /\ NextRow(d, "assess")
  /\ UNCHANGED <<database, relay, refs, driver, recovery, waited, crashes, faults>>

\* A self-deploy the relay has not recorded yet is left running for a while.
SweepWaits(d) ==
  /\ At("assess")
  /\ Current(d)
  /\ SelfDeploy(d) /\ d \notin waited
  /\ ~LaterRow(d)
  /\ relay[d] \in {"idle", "running", "doomed", "noEntry"}
  /\ NextRow(d, "assess")
  /\ UNCHANGED <<database, relay, refs, driver, recovery, waited, crashes, faults>>

SweepVerdict(d) ==
  WriteRow(d, IF verdict = "unverified" THEN "interrupted" ELSE verdict,
           row[d].log \cup (CASE verdict = "success" -> {}
                              [] verdict = "unverified" -> {"bad", "marker"}
                              [] OTHER -> {"bad"}))

\* Compare-and-set on running.
SweepFinalize(d) ==
  /\ At("finalize")
  /\ Current(d)
  /\ \/ /\ NoFault
        /\ IF row[d].status = "running"
             THEN SweepVerdict(d) /\ GoTo("sibling")
             ELSE UNCHANGED row /\ NextRow(d, "assess")
     \/ Fault /\ UNCHANGED row /\ NextRow(d, "assess")
  /\ UNCHANGED <<card, stamps, relay, refs, driver, recovery, waited, crashes>>

\* A running row of the same app that is registered right now owns the card.
LiveSibling(d) == RunningOf(AppOf[d]) \cap ListActiveDeployIds # {}

SweepSibling(d) ==
  /\ At("sibling")
  /\ Current(d)
  /\ \/ /\ NoFault
        /\ IF LiveSibling(d) THEN NextRow(d, "assess") ELSE GoTo("card")
     \/ Fault /\ NextRow(d, "assess")
  /\ UNCHANGED <<database, relay, refs, driver, recovery, waited, crashes>>

SweepCard(d) ==
  /\ At("card")
  /\ Current(d)
  /\ \/ /\ NoFault
        /\ WriteCard(AppOf[d], IF verdict = "success" THEN "healthy" ELSE "unknown")
        /\ stamps' = IF verdict = "success" THEN stamps \cup {d} ELSE stamps
     \/ Fault /\ UNCHANGED <<card, stamps>>
  /\ NextRow(d, "assess")
  /\ UNCHANGED <<row, relay, refs, driver, recovery, waited, crashes>>

-----------------------------------------------------------------------------
(* upgradeSelfDeploys. *)

\* Mutant: any interrupted self-deploy is revisited.
UpgradableUnmarked(d) == SelfDeploy(d) /\ row[d].status = "interrupted"

\* An unverified self-deploy the sweep had marked.
Upgradable(d) == SelfDeploy(d) /\ row[d].status = "interrupted" /\ "marker" \in row[d].log

UpgradeQuery ==
  /\ At("assess")
  /\ todo = {}
  /\ \/ NoFault /\ Visit({d \in Deploys : Upgradable(d)}, "upgradeCheck")
     \/ Fault /\ GoTo("upgradeCheck")
  /\ UNCHANGED <<database, relay, refs, driver, recovery, waited, crashes>>

\* Mutant: the panel being up again counts as proof.
UpgradeCheckUnproven(d) ==
  /\ At("upgradeCheck")
  /\ Current(d)
  /\ ~LaterRow(d)
  /\ GoTo("upgradeRow")
  /\ UNCHANGED <<database, relay, refs, driver, recovery, waited, crashes, faults>>

\* Only the relay's own entry for this deploy upgrades it.  A row may be passed by:
\* the relay does not answer, or the hour in which a row is revisited is over.
UpgradeCheck(d) ==
  /\ At("upgradeCheck")
  /\ Current(d)
  /\ \/ Proven(d) /\ GoTo("upgradeRow")
     \/ NextRow(d, "upgradeCheck")
  /\ UNCHANGED <<database, relay, refs, driver, recovery, waited, crashes, faults>>

\* Compare-and-set on interrupted and the marker.
UpgradeRow(d) ==
  /\ At("upgradeRow")
  /\ Current(d)
  /\ \/ /\ NoFault
        /\ IF Upgradable(d)
             THEN WriteRow(d, "success", row[d].log) /\ GoTo("upgradeCard")
             ELSE UNCHANGED row /\ NextRow(d, "upgradeCheck")
     \/ Fault /\ UNCHANGED row /\ NextRow(d, "upgradeCheck")
  /\ UNCHANGED <<card, stamps, relay, refs, driver, recovery, waited, crashes>>

UpgradeCard(d) ==
  /\ At("upgradeCard")
  /\ Current(d)
  /\ \/ /\ NoFault
        /\ IF RunningOf(AppOf[d]) = {}
             THEN WriteCard(AppOf[d], "healthy") /\ stamps' = stamps \cup {d}
             ELSE UNCHANGED <<card, stamps>>
     \/ Fault /\ UNCHANGED <<card, stamps>>
  /\ NextRow(d, "upgradeCheck")
  /\ UNCHANGED <<row, relay, refs, driver, recovery, waited, crashes>>

-----------------------------------------------------------------------------
(* reconcileDeployingApps. *)

\* Mutant: an app without a single row is not looked at.
LeftOnDeployingWithRows(a) ==
  card[a].status = "deploying" /\ card[a].aged /\ RowsOf(a) # {} /\ RunningOf(a) = {}

\* The query's guards: `deploying` for long enough, and no running row.
LeftOnDeploying(a) == card[a].status = "deploying" /\ card[a].aged /\ RunningOf(a) = {}

\* The pass ends with its last card.
Planned(p) ==
  /\ plan' = p
  /\ spc' = IF p = NoPlan THEN "idle" ELSE "reconcile"
  /\ UNCHANGED <<todo, verdict>>

\* The settled statuses are computed from what the query returned.
ReconcileQuery ==
  /\ At("upgradeCheck")
  /\ todo = {}
  /\ \/ NoFault /\ Planned([a \in Apps |-> IF LeftOnDeploying(a) THEN ReconciledStatus(a) ELSE "keep"])
     \/ Fault /\ SweepStops
  /\ UNCHANGED <<database, relay, refs, driver, recovery, waited, crashes>>

\* Mutant: the write asks only whether the card still shows `deploying`.
ReconcileAppUnguarded(a) ==
  /\ At("reconcile")
  /\ plan[a] # "keep"
  /\ NoFault
  /\ IF card[a].status = "deploying" THEN WriteCard(a, plan[a]) ELSE UNCHANGED card
  /\ Planned([plan EXCEPT ![a] = "keep"])
  /\ UNCHANGED <<row, stamps, relay, refs, driver, recovery, waited, crashes>>

\* The write repeats the guards.
ReconcileApp(a) ==
  /\ At("reconcile")
  /\ plan[a] # "keep"
  /\ \/ NoFault /\ IF LeftOnDeploying(a) THEN WriteCard(a, plan[a]) ELSE UNCHANGED card
     \/ Fault /\ UNCHANGED card
  /\ Planned([plan EXCEPT ![a] = "keep"])
  /\ UNCHANGED <<row, stamps, relay, refs, driver, recovery, waited, crashes>>

SweepRow(d) ==
  \/ SweepAssess(d) \/ SweepWaits(d) \/ SweepFinalize(d) \/ SweepSibling(d) \/ SweepCard(d)
  \/ UpgradeCheck(d) \/ UpgradeRow(d) \/ UpgradeCard(d)

Sweep ==
  \/ SweepStart \/ SweepQuery \/ UpgradeQuery \/ ReconcileQuery
  \/ \E d \in Deploys : SweepRow(d)
  \/ \E a \in Apps : ReconcileApp(a)

=============================================================================
