---------------------------- MODULE DeployEvidence ----------------------------
(***************************************************************************)
(* From what the panel learns of one deploy (or rollback) to what it says  *)
(* of it: the provisioning that may block it, the stream and what the      *)
(* relay really did, the health gate, the target check, the row, the card  *)
(* and how the log reads afterwards.  StreamDeploy and DeployRecovery take *)
(* gate and target as given; here they are computed.                       *)
(*                                                                         *)
(* A behaviour starts at the provisioning or after it: nothing past the    *)
(* provisioning reads the environment, so the second part has one.         *)
(***************************************************************************)
EXTENDS AppEnv, DeployTarget, DeployClients

VARIABLE
  deploy   \* the deploy: where it is, its steps so far, the evidence, row and card

vars == <<file, secrets, required, history, job, gate, ask, relayRun, entries, head, now,
          skew, runs, later, truth, deploy, client>>

(***************************************************************************)
(* `how`: what decided (a block, a conflict, the stream, or the recovery). *)
(* `proof` and `head` are what the target check holds of the relay's       *)
(* answer; `mistaken`, which no action reads, says that this answer showed *)
(* another caller's run that looks like the one in question.               *)
(***************************************************************************)
NoDeploy == [at |-> "off", how |-> "none", steps |-> << >>, claim |-> FALSE,
             row |-> "running", card |-> "deploying",
             proof |-> {}, head |-> 0, mistaken |-> FALSE]

\* Steps the panel may have seen when the stream ends or breaks.
Streams == {<< >>, <<Build("failure")>>, <<PreflightSummary("failure")>>,
            <<Build("success"), Prune("failure")>>,
            <<Build("failure"), RollbackHealth("success")>>,
            <<Build("failure"), RollbackHealth("failure")>>}

Goto(d) == deploy' = d
Writes(status, card, steps) ==
  Goto([NoDeploy EXCEPT !.at = "done", !.how = deploy.how, !.claim = deploy.claim,
                        !.row = status, !.card = card, !.steps = steps])

-----------------------------------------------------------------------------
(* The panel's own preflight blocked the deploy: its log is one marked step. *)

EnvBlocks ==
  /\ deploy.at = "off"
  /\ \E p \in Jobs : job[p].kind = "deploy" /\ job[p].answer = "blocked"
  /\ Goto([deploy EXCEPT !.at = "done", !.how = "blocked", !.row = "failed", !.card = "kept",
                         !.steps = <<Step("env-preflight", "preflight-check", "failure")>>])
  /\ UNCHANGED <<client, envVars, gate, targetVars>>

\* The relay's preflight blocks it (`blocked` event, or the JSON reply): nothing runs.
RelayBlocks ==
  /\ deploy.at = "streaming" /\ ask.sent
  /\ ask' = [ask EXCEPT !.sent = FALSE]
  /\ \E before \in {<< >>, <<PreflightSummary("failure")>>, <<PreflightSummary("success")>>},
        failed \in SUBSET {"containers", "disk"} :
       Goto([deploy EXCEPT !.at = "done", !.how = "blocked", !.row = "failed", !.card = "kept",
                           !.steps = BlockedDeployLogSteps(before, failed)])
  /\ UNCHANGED <<client, envVars, gate, relaySide, now, skew, later>>

\* 409: the relay is busy with another run of the app.
RelayConflict ==
  /\ deploy.at = "streaming" /\ ask.sent /\ relayRun # NoRun
  /\ ask' = [ask EXCEPT !.sent = FALSE]
  /\ Goto([deploy EXCEPT !.at = "done", !.how = "conflict", !.row = "failed", !.card = "kept",
                         !.steps = <<ConflictStep>>])
  /\ UNCHANGED <<client, envVars, gate, relaySide, now, skew, later>>

-----------------------------------------------------------------------------
(* The stream. *)

\* `done`: the relay claims how its run ended.  A failure is written at once.
DoneEvent ==
  /\ deploy.at = "streaming" /\ ~ask.rollback
  /\ truth.status # "none"
  /\ \E steps \in Streams :
       LET claim == truth.status = "success"
           serving == ClassifyDeployOutcome("failed", steps) = "rolled_back_healthy"
       IN  /\ claim => ~HasRollbackOrFailedStep(steps)
           /\ \/ claim /\ Goto([deploy EXCEPT !.at = "gate", !.how = "stream", !.steps = steps, !.claim = TRUE])
                 /\ GateStarts(FALSE)
              \/ ~claim /\ Goto([deploy EXCEPT !.at = "done", !.how = "stream", !.row = "failed",
                                   !.card = IF serving THEN "healthy" ELSE "unhealthy", !.steps = steps])
                 /\ UNCHANGED gate
  /\ UNCHANGED <<client, envVars, targetVars>>

\* The connection is lost.  What the relay did before commutes with the break, so the
\* model lets it all happen after, when the panel is about to ask.
StreamBreaks ==
  /\ deploy.at = "breaking"
  /\ \E steps \in Streams \ {<< >>} : Goto([deploy EXCEPT !.at = "gate", !.how = "recovery", !.steps = steps])
  /\ GateStarts(TRUE)
  /\ UNCHANGED <<client, envVars, targetVars>>

-----------------------------------------------------------------------------
(* The gate, and what its verdict leads to. *)

GatePolls ==
  /\ deploy.at = "gate"
  /\ Poll
  /\ UNCHANGED <<client, envVars, targetVars, deploy>>

\* Mutant: the gate's word reaches the row and not the card.
GateConfirmsRowOnly ==
  /\ deploy.at = "gate" /\ Decided /\ deploy.claim
  /\ IF gate.verdict = "healthy"
     THEN Writes("success", "healthy", Append(deploy.steps, GateStep("success")))
     ELSE Writes("failed", "healthy", Append(deploy.steps, GateStep("failure")))
  /\ gate' = GateOff
  /\ UNCHANGED <<client, envVars, targetVars>>

\* finalizeDeploy: the gate has the last word over a claimed success.
GateConfirms ==
  /\ deploy.at = "gate" /\ Decided /\ deploy.claim
  /\ IF gate.verdict = "healthy"
     THEN Writes("success", "healthy", Append(deploy.steps, GateStep("success")))
     ELSE Writes("failed", "unhealthy", Append(deploy.steps, GateStep("failure")))
  /\ gate' = GateOff
  /\ UNCHANGED <<client, envVars, targetVars>>

\* Mutant: a healthy app is a deploy that arrived.
HealthIsEnough ==
  /\ deploy.at = "gate" /\ Decided /\ ~deploy.claim
  /\ IF gate.verdict = "healthy" THEN Writes("success", "healthy", deploy.steps)
     ELSE Writes("failed", "unhealthy", deploy.steps)
  /\ gate' = GateOff
  /\ UNCHANGED <<client, envVars, targetVars>>

\* recoverBrokenDeploy: steps that already failed veto; a healthy app alone is no proof.
GateRecovers ==
  /\ deploy.at = "gate" /\ Decided /\ ~deploy.claim
  /\ LET log == Append(deploy.steps, RecoveryStep("failure")) IN
     IF gate.verdict = "unhealthy" THEN Writes("failed", "unhealthy", log)
     ELSE IF HasRollbackOrFailedStep(deploy.steps) THEN Writes("failed", "healthy", log)
     ELSE Goto([deploy EXCEPT !.at = "target"])
  /\ gate' = GateOff
  /\ UNCHANGED <<client, envVars, targetVars>>

-----------------------------------------------------------------------------
(* checkDeployTargetDetailed: three calls, one after the other, then the row is written.   *)
(* Any of them may fail; what the relay and others do goes on between them.                *)

\* What a miss writes is settled, whatever happens before the write lands.
Misses == Writes("interrupted", "healthy", Append(deploy.steps, RecoveryStep("failure")))

\* A later row of the app on the panel is a miss, and the relay is not asked.
TargetRow ==
  /\ deploy.at = "target"
  /\ \/ ~later /\ Goto([deploy EXCEPT !.at = "detail"])
     \/ Misses
  /\ UNCHANGED <<client, envVars, gate, targetVars>>

\* The relay reports the history and HEAD.
TargetDetail ==
  /\ deploy.at = "detail"
  /\ \/ Goto([deploy EXCEPT !.at = "health", !.proof = Proof, !.head = head, !.mistaken = AnotherLooksOwn])
     \/ Misses
  /\ UNCHANGED <<client, envVars, gate, targetVars>>

\* A /health that cannot be read counts as a relay without ids.
TargetHealth ==
  /\ deploy.at = "health"
  /\ \E answered \in BOOLEAN :
       IF answered \in deploy.proof THEN Goto([deploy EXCEPT !.at = "verdict", !.proof = {}]) ELSE Misses
  /\ UNCHANGED <<client, envVars, gate, targetVars>>

\* recoverBrokenDeploy goes on: only a proof makes a success.
TargetWrites ==
  /\ deploy.at = "verdict"
  /\ Writes("success", "healthy", Append(deploy.steps, RecoveryStep("success")))
  /\ UNCHANGED <<client, envVars, gate, targetVars>>

\* The relay goes on while the panel streams and while it asks.  Before the query only a
\* row of the panel matters, and /health says nothing of runs: the rest commutes with these
\* calls and happens after them.  What others begin touches a stream only by the conflict at
\* its start.
RelaySteps ==
  /\ \/ deploy.at = "streaming" /\ OwnNext
     \/ deploy.at = "target" /\ ForeignRun /\ later'
     \/ deploy.at \in {"detail", "verdict"} /\ (OwnNext \/ ForeignRun)
  /\ UNCHANGED <<client, envVars, gate, deploy>>

-----------------------------------------------------------------------------
(* Who waits for it.  A client changes nothing the deploy reads, and until the row is      *)
(* settled it reads `running`: so it may begin when the row is settled, and read `running` *)
(* for a while.  What it reads does not depend on clocks or on what else the relay ran:    *)
(* one recovered deploy of each kind is watched.                                           *)

Watched ==
  /\ deploy.at = "done"
  /\ deploy.how = "recovery" => now = 1 /\ skew = 0 /\ runs = 0 /\ entries = << >>

ClientDeploys ==
  /\ Watched /\ Deploys
  /\ UNCHANGED <<envVars, gate, targetVars, deploy>>

ClientPolls ==
  /\ Watched
  /\ \E status \in {"running", deploy.row} : Polls(status, deploy.steps)
  /\ UNCHANGED <<envVars, gate, targetVars, deploy>>

\* A client that asks again when the deploy is over.
ClientAsks ==
  /\ Watched /\ McpAsks(deploy.row, deploy.steps)
  /\ UNCHANGED <<envVars, gate, targetVars, deploy>>

ClientLeaves ==
  /\ Watched /\ PageLeft
  /\ UNCHANGED <<envVars, gate, targetVars, deploy>>

-----------------------------------------------------------------------------

Unasked == [start |-> 1, sent |-> FALSE, rollback |-> FALSE, ids |-> TRUE, commit |-> 0]

\* The relay of a deploy that is streamed: clocks and history do not matter to it.
StreamInit(sent) ==
  /\ ask = [Unasked EXCEPT !.sent = sent]
  /\ relayRun \in {NoRun} \cup IF sent THEN {[who |-> "http", rollback |-> FALSE, began |-> 0]} ELSE {}
  /\ entries = << >> /\ head = CHOOSE c \in Commits : TRUE
  /\ now = 1 /\ skew = 0 /\ runs = 0 /\ later = FALSE
  /\ truth = NoTruth

Init ==
  /\ gate = GateOff /\ client = NoClient
  /\ \/ EnvInit /\ StreamInit(FALSE) /\ deploy = NoDeploy
     \/ /\ \/ StreamInit(TRUE) /\ deploy = [NoDeploy EXCEPT !.at = "streaming"]
           \/ TargetInit /\ deploy = [NoDeploy EXCEPT !.at = "breaking"]
        /\ file = NoEntries /\ secrets = NoEntries /\ required = {}
        /\ history = [p \in Jobs |-> {}]
        /\ job = [p \in Jobs |-> [NoJob EXCEPT !.at = "done"]]

EnvSteps == deploy.at = "off" /\ EnvNext /\ UNCHANGED <<gate, targetVars, deploy, client>>

Goes ==
  \/ GatePolls \/ GateConfirms \/ GateRecovers
  \/ TargetRow \/ TargetDetail \/ TargetHealth \/ TargetWrites

Next ==
  \/ EnvSteps \/ EnvBlocks \/ RelayBlocks \/ RelayConflict
  \/ DoneEvent \/ StreamBreaks \/ Goes \/ RelaySteps
  \/ ClientDeploys \/ ClientPolls \/ ClientAsks \/ ClientLeaves

Spec == Init /\ [][Next]_vars

\* Each poll of the gate is a relay call and a fetch with a timeout, and a sleep; each poll
\* of a client is one request, that the client, the browser or the proxy gives up on.
FairSpec == Spec /\ WF_vars(Goes) /\ WF_vars(ClientPolls)

-----------------------------------------------------------------------------

TypeOK ==
  /\ EnvTypeOK
  /\ gate.verdict \in {"none", "healthy", "unhealthy"}
  /\ relayRun.who \in {"none", "own", "panel", "http", "mcp"}
  /\ Len(entries) <= HistoryCap
  /\ head \in Commits /\ now \in 1..MaxTime /\ runs \in 0..MaxRuns
  /\ deploy.at \in {"off", "streaming", "breaking", "gate", "target", "detail", "health", "verdict", "done"}
  /\ deploy.row \in {"running", "success", "failed", "interrupted"}
  /\ deploy.card \in {"deploying", "kept", "healthy", "unhealthy"}
  /\ client.time \in 0..(Patience + LongestWait)

\* The run in question succeeded on the relay, and when the panel asked, HEAD was where
\* it left it.
Arrived == truth.status = "success" /\ deploy.head = truth.commit

\* A deploy is recorded a success without the relay's claim only if it arrived, whatever
\* others ran before, between and after the three calls.  Without ids, a lone entry of
\* another caller can pass for it: only that excuses.
RecoveredIsReal ==
  [][deploy.row = "running" /\ ~deploy.claim /\ deploy'.row = "success" /\ ~ask.rollback
       => Arrived \/ deploy.mistaken]_vars

\* A rollback recorded as recovered ran on the relay and left the repo on the commit that
\* was named or, where none was, on another than before; without ids and with a named
\* commit, a lone rollback of another caller to that commit can pass for it.
RollbackIsReal ==
  [][deploy.row = "running" /\ deploy'.row = "success" /\ ask.rollback
       => \/ /\ Arrived
             /\ IF ask.commit \in Commits THEN truth.commit = ask.commit ELSE truth.moved
          \/ deploy.mistaken /\ deploy.head = ask.commit]_vars

\* The list says "Blocked (preflight)" of the deploys a preflight blocked, and of no other;
\* a blocked or conflicting deploy is never called an outage; the list (classified by the
\* backend) and the live log (by the frontend) say the same of it.
BlockedReadsBlocked ==
  deploy.at = "done" =>
    LET listed == Listed(deploy.row, deploy.steps)
        outcome == listed.outcome
        badge == DeployStatusBadge(deploy.row, listed.blocked, outcome)
    IN  /\ deploy.how = "blocked" <=> badge = "Blocked (preflight)"
        /\ deploy.how \in {"blocked", "conflict"} => outcome = "none"
        /\ outcome = FrontendOutcome(deploy.row, deploy.steps)

\* Where the app list calls a deploy the relay reported on an outage or not, the card of the
\* app agrees; and so does the note above the deploy's steps.
OutcomeFitsCard ==
  deploy.at = "done" /\ deploy.how = "stream" =>
    LET outcome == LastDeployOutcome(deploy.row, deploy.steps)
        note == OutcomeNote(outcome, deploy.steps)
    IN  /\ outcome # "none" => (outcome = "outage" <=> deploy.card = "unhealthy")
        /\ note = "rolled back" => deploy.card = "healthy"
        /\ note = "rollback unhealthy" => deploy.card = "unhealthy"

\* A client that saw the end says what the row says, calls the deploy blocked only if a
\* preflight blocked it, and says that the app runs its previous version only where the
\* card calls the app healthy; a page that gave up does not leave the app deploying.
ClientsTellTheTruth ==
  /\ Told =>
       /\ client.said.status = deploy.row
       /\ client.said.blocked <=> deploy.how = "blocked"
       /\ deploy.how = "stream" /\ deploy.row = "failed" => (client.said.up <=> deploy.card = "healthy")
  /\ client.at = "ended" /\ client.said.status \in GivenUp => client.badge # "deploying"

\* Nobody waits for ever: the gate ends whatever it polls, the target check ends whatever
\* others do, and whoever waits for the deploy stops waiting, answered or not.
WaitsEnd == []<>(deploy.at \in {"off", "streaming", "breaking", "done"} /\ client.at # "watching")

=============================================================================
