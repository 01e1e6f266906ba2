----------------------------- MODULE PanelState -----------------------------
(***************************************************************************)
(* The state every part of the deploy lifecycle shares: the Deploy and App *)
(* rows of the database, the relay as the panel sees it, and the memory of *)
(* the one backend process (the active-deploy registry, the routes and     *)
(* streams it is running, the sweep).  The modules that EXTEND this one    *)
(* give the actions: StreamDeploy, RollbackRoute, DeployRecovery and       *)
(* StuckSweep; DeployLifecycle puts them together.                         *)
(*                                                                         *)
(* A log is the set of marks a later reader of the stored steps looks for; *)
(* step text, durations and commits are left out.  Time is two facts: a    *)
(* row or a card is `aged` once it is older than STUCK_THRESHOLD_MS.       *)
(***************************************************************************)
EXTENDS Naturals, FiniteSets

CONSTANTS
  Deploys,         \* ids of the Deploy rows the panel may create
  Triggers,        \* those a deploy trigger may create
  Rollbacks,       \* those a rollback route may create
  Apps,            \* App rows
  AppOf,           \* the app each row is for
  SelfApps,        \* the panel's own app (PANEL_SELF_APP_NAME), if it is among Apps
  InitialStatuses, \* statuses an app may show before any of these deploys; `deploying`
                   \* is one left behind by an earlier process
  SecretApps,      \* apps with stored secrets or declared env keys to provision
  StepKinds,       \* the marks one step of the relay may leave in a log
  Lookback,        \* how many finished rows the status fallbacks read
  MaxCrashes,      \* bound: restarts of the backend process
  MaxFaults        \* bound: database calls that fail

CardStatus == {"unknown", "healthy", "unhealthy", "deploying", "offline"}
Settled == {"success", "failed", "rolled_back", "interrupted"}

ASSUME ConstantsOK ==
  /\ IsFiniteSet(Deploys)
  /\ Triggers \subseteq Deploys
  /\ Rollbacks \subseteq Deploys
  /\ AppOf \in [Deploys -> Apps]
  /\ SelfApps \subseteq Apps
  /\ InitialStatuses \subseteq CardStatus
  /\ SecretApps \subseteq Apps
  /\ StepKinds \subseteq {{"ok"}, {"bad"}, {"bad", "rbok"}}
  /\ Lookback \in Nat \ {0}
  /\ MaxCrashes \in Nat
  /\ MaxFaults \in Nat

VARIABLES
  row,      \* Deploy rows: status, creation order, aged, log
  card,     \* App rows: status, and aged since the last write
  stamps,   \* the deploys that moved their app's lastDeployAt
  relay,    \* what the relay made of each call it accepted
  refs,     \* the active-deploy registry: holds per deploy id
  pc,       \* where the stream or rollback route that drives each row is
  loc,      \* its local variables
  rpc,      \* where the connection-lost recovery of each row is
  rloc,     \* its local variables
  spc,      \* where the stuck sweep is
  todo,     \* the rows it still has to do
  verdict,  \* what it found for the row it is working on
  plan,     \* the statuses its reconcile is about to write
  waited,   \* self-deploys whose proof grace has run out
  crashes,  \* restarts so far
  faults    \* failed database calls so far

database == <<row, card, stamps>>
driver == <<pc, loc>>
recovery == <<rpc, rloc>>
sweeper == <<spc, todo, verdict, plan>>
vars == <<row, card, stamps, relay, refs, pc, loc, rpc, rloc,
          spc, todo, verdict, plan, waited, crashes, faults>>

(***************************************************************************)
(* Marks of a log.  "prov": the panel's own provision-secrets step; "ok":  *)
(* a relay step that succeeded; "bad": a failed or a rollback step;        *)
(* "rbok": a passed `rollback: health check`; "blocked": a failed          *)
(* preflight check or a 409; "marker": the sweep's note that a self-deploy *)
(* is not verified.  Readers of the stored log tell only Kept apart.       *)
(***************************************************************************)
StepMarks == {"prov", "ok", "bad", "rbok"}
Kept == {"bad", "rbok", "blocked", "marker"}
Visible(marks) == marks \cap Kept

NoRow == [status |-> "none", born |-> 0, aged |-> FALSE, log |-> {}]
NoLocals == [prev |-> "unknown", steps |-> {}, claim |-> FALSE, ok |-> FALSE,
             fin |-> FALSE, keep |-> FALSE]
NoRecovery == [log |-> {}, blind |-> FALSE, verdict |-> "unhealthy"]
NoPlan == [a \in Apps |-> "keep"]

-----------------------------------------------------------------------------
(* Queries over the Deploy rows. *)

RowsOf(a) == {d \in Deploys : AppOf[d] = a /\ row[d].status # "none"}
RunningOf(a) == {d \in RowsOf(a) : row[d].status = "running"}

\* Another Deploy row of the app is still running.
AnotherDeployRunning(d) == RunningOf(AppOf[d]) \ {d} # {}

\* The Lookback newest rows of S.
Newest(S) ==
  {d \in S : Cardinality({e \in S : row[e].born > row[d].born}) < Lookback}

\* The newest of the Lookback newest rows of S that was not blocked before it ran.
LastTelling(S) ==
  {d \in Newest(S) : /\ "blocked" \notin row[d].log
                     /\ \A e \in Newest(S) :
                          row[e].born > row[d].born => "blocked" \in row[e].log}

\* Mutant: the row's own status is taken for a card status.
StatusAfterBlockedRaw(d) ==
  LET finished == {e \in RowsOf(AppOf[d]) \ {d} : row[e].status \in {"success", "failed"}}
      last     == LastTelling(finished)
  IN  IF last = {} THEN "unknown" ELSE row[CHOOSE e \in last : TRUE].status

\* What a blocked deploy leaves on the card when it captured `deploying`: the
\* verdict of the last other finished deploy that says something.
StatusAfterBlocked(d) ==
  LET finished == {e \in RowsOf(AppOf[d]) \ {d} : row[e].status \in {"success", "failed"}}
      last     == LastTelling(finished)
  IN  IF last = {} THEN "unknown"
      ELSE IF \E e \in last : row[e].status = "success" THEN "healthy" ELSE "unhealthy"

\* What reconcileDeployingApps settles an abandoned card to.
ReconciledStatus(a) ==
  LET last == LastTelling(RowsOf(a) \ RunningOf(a))
      serves(e) == row[e].status = "success" \/ (row[e].status = "failed" /\ "rbok" \in row[e].log)
  IN  IF \E e \in last : serves(e) THEN "healthy"
      ELSE IF \E e \in last : row[e].status = "failed" THEN "unhealthy" ELSE "unknown"

\* A row of the same app was created later.
LaterRow(d) == \E e \in RowsOf(AppOf[d]) : row[e].born > row[d].born

\* checkDeployTargetDetailed on a relay that records deploy ids: no later row,
\* and the relay's entry for this very deploy is a success.
Proven(d) == relay[d] = "success" /\ ~LaterRow(d)

\* The relay already runs a deploy or a rollback of the app.
RelayBusy(a) == \E d \in Deploys : AppOf[d] = a /\ relay[d] \in {"running", "doomed"}

-----------------------------------------------------------------------------
(* Writes. *)

Fault == faults < MaxFaults /\ faults' = faults + 1
NoFault == UNCHANGED faults

\* The age of a row matters only while it is running.
WriteRow(d, status, log) ==
  row' = [row EXCEPT ![d] = [status |-> status, born |-> row[d].born,
                             aged |-> row[d].aged /\ status = "running", log |-> log]]

WriteCard(a, status) ==
  card' = [card EXCEPT ![a] = [status |-> status, aged |-> FALSE]]

CreateRow(d) ==
  row' = [row EXCEPT ![d] =
            [status |-> "running", born |-> Cardinality({e \in Deploys : row[e].status # "none"}) + 1,
             aged |-> FALSE, log |-> {}]]

-----------------------------------------------------------------------------
(* The active-deploy registry: a reference count, absent ids counting 0. *)

RegisterActiveDeploy(r, d) == [r EXCEPT ![d] = @ + 1]

\* Mutant: a Set of ids instead of a count.
ReleaseWhollyDeploy(r, d) == [r EXCEPT ![d] = 0]

ReleaseActiveDeploy(r, d) == [r EXCEPT ![d] = IF @ <= 1 THEN 0 ELSE @ - 1]
ListActiveDeployIds == {d \in Deploys : refs[d] > 0}

-----------------------------------------------------------------------------
(* Program counters of a driver. *)

OpeningPcs == {"created", "marked", "rbCreated"}   \* the row exists, nothing registered yet
StreamPcs == {"provision", "post", "reading", "gate", "finRow", "finCard", "blockRow",
              "blockRead", "blockCard", "failRow", "failCard", "recovering", "finish"}
RollbackPcs == {"rbCall", "rbRow", "rbGate", "rbCard", "rbRejectRow", "rbRejectCard"}
FreePcs == {"rbFreeGate", "rbFreeCard"}            \* the card gate, after the response was sent
HoldPcs == StreamPcs \cup RollbackPcs              \* where a driver holds a registration
DriverPcs == {"idle", "captured", "gone"} \cup OpeningPcs \cup HoldPcs \cup FreePcs
RecoveryPcs == {"idle", "load", "gate", "target", "row", "card", "done"}
RecoveryVerdicts == {"unhealthy", "rolledback", "unproven", "proven"}
SweepPcs == {"idle", "query", "assess", "finalize", "sibling", "card",
             "upgradeCheck", "upgradeRow", "upgradeCard", "reconcile"}
SweepVerdicts == {"success", "failed", "interrupted", "unverified"}
RelayStates == {"idle", "running", "doomed", "success", "failed", "noEntry"}

Rows == [status : {"none", "running"} \cup Settled, born : Nat, aged : BOOLEAN, log : SUBSET Kept]
Locals == [prev : CardStatus, steps : SUBSET StepMarks,
           claim : BOOLEAN, ok : BOOLEAN, fin : BOOLEAN, keep : BOOLEAN]
RecoveryLocals == [log : SUBSET Kept, blind : BOOLEAN, verdict : RecoveryVerdicts]

\* Every variable holds what its writers put there.
TypeOK ==
  /\ row \in [Deploys -> Rows]
  /\ card \in [Apps -> [status : CardStatus, aged : BOOLEAN]]
  /\ stamps \in SUBSET Deploys
  /\ relay \in [Deploys -> RelayStates]
  /\ refs \in [Deploys -> Nat]
  /\ pc \in [Deploys -> DriverPcs]
  /\ loc \in [Deploys -> Locals]
  /\ rpc \in [Deploys -> RecoveryPcs]
  /\ rloc \in [Deploys -> RecoveryLocals]
  /\ spc \in SweepPcs
  /\ todo \in SUBSET Deploys
  /\ verdict \in SweepVerdicts
  /\ plan \in [Apps -> CardStatus \cup {"keep"}]
  /\ waited \in SUBSET Deploys
  /\ crashes \in 0..MaxCrashes
  /\ faults \in 0..MaxFaults

Init ==
  /\ row = [d \in Deploys |-> NoRow]
  /\ card \in [Apps -> [status : InitialStatuses, aged : {FALSE}]]
  /\ stamps = {}
  /\ relay = [d \in Deploys |-> "idle"]
  /\ refs = [d \in Deploys |-> 0]
  /\ pc = [d \in Deploys |-> "idle"]
  /\ loc = [d \in Deploys |-> NoLocals]
  /\ rpc = [d \in Deploys |-> "idle"]
  /\ rloc = [d \in Deploys |-> NoRecovery]
  /\ spc = "idle"
  /\ todo = {}
  /\ verdict = "interrupted"
  /\ plan = NoPlan
  /\ waited = {}
  /\ crashes = 0
  /\ faults = 0

-----------------------------------------------------------------------------
(* Moving one process. *)

Step(d, to) ==
  /\ pc' = [pc EXCEPT ![d] = to]
  /\ UNCHANGED loc

\* Moves on with other locals.
StepWith(d, to, locals) ==
  /\ pc' = [pc EXCEPT ![d] = to]
  /\ loc' = [loc EXCEPT ![d] = locals]

\* A driver that ends keeps no locals.
Gone(d) == StepWith(d, "gone", NoLocals)

RecoveryStepWith(d, to, locals) ==
  /\ rpc' = [rpc EXCEPT ![d] = to]
  /\ rloc' = [rloc EXCEPT ![d] = locals]

\* recoverBrokenDeploy starts: its own registration is its first statement, so
\* it is in the same turn as the catch block that calls it.
StartRecovery(d) == RecoveryStepWith(d, "load", NoRecovery)

\* streamDeploy's catch block: recovery takes its hold, the stream keeps its own.
Recover(d) ==
  /\ StartRecovery(d)
  /\ refs' = RegisterActiveDeploy(refs, d)
  /\ StepWith(d, "recovering", NoLocals)

=============================================================================
