--------------------------- MODULE RelaySelfUpdate ---------------------------
(***************************************************************************)
(* POST /:id/relay-self-update: the relay is asked to replace itself, and  *)
(* the panel finds out from /health, or from the relay's own record, what  *)
(* became of it.  The relay goes on with an update whether or not the      *)
(* request that triggered it still waits, and after its lock was released. *)
(***************************************************************************)
EXTENDS RelayInstall

-----------------------------------------------------------------------------
(* The relay's side.  It pulls the image, writes the record of the update, *)
(* answers 202, and lets compose recreate its container; a helper writes   *)
(* the outcome.  `state` is the last record written: it outlives `phase`.  *)

NoUpdate == [phase |-> "idle", by |-> "none", state |-> "none", owner |-> "none",
             prev |-> "none", target |-> "none"]
UpdatePhases == {"idle", "pulling", "accepted", "recreating"}
RecordStates == {"none", "in_progress", "succeeded", "failed", "unverified"}

\* The pull ends: the record is written before the answer is sent.
RelayPulled ==
  /\ upd.phase = "pulling" /\ box.up
  /\ upd' = [phase |-> "accepted", by |-> upd.by, state |-> "in_progress", owner |-> upd.by,
             prev |-> box.rev, target |-> latest]
  /\ UNCHANGED <<database, box, tokens, script, latest, locks, req, restarts>>

\* The pull fails, or the container is replaced under it; no record is written.
RelayPullFails ==
  /\ upd.phase = "pulling"
  /\ upd' = [upd EXCEPT !.phase = "idle", !.by = "none"]
  /\ UNCHANGED <<database, box, tokens, script, latest, locks, req, restarts>>

RelayRecreates ==
  /\ upd.phase = "accepted"
  /\ upd' = [upd EXCEPT !.phase = "recreating"]
  /\ box' = [box EXCEPT !.up = FALSE]
  /\ UNCHANGED <<database, tokens, script, latest, locks, req, restarts>>

\* The helper's verdict: the target runs, or compose failed, or it could not tell.
RelayFinishes ==
  /\ upd.phase = "recreating"
  /\ \E state \in {"succeeded", "failed", "unverified"}, up \in BOOLEAN, rev \in {box.rev, upd.target} :
       /\ state = "succeeded" => up /\ rev = upd.target
       /\ state = "failed" => rev = box.rev
       /\ upd' = [upd EXCEPT !.phase = "idle", !.by = "none", !.state = state]
       /\ box' = [box EXCEPT !.up = up, !.rev = rev]
  /\ UNCHANGED <<database, tokens, script, latest, locks, req, restarts>>

ImagePublished ==
  /\ latest = "old"
  /\ latest' = "new"
  /\ UNCHANGED <<database, box, tokens, script, upd, locks, req, restarts>>

Relay == RelayPulled \/ RelayPullFails \/ RelayRecreates \/ RelayFinishes \/ ImagePublished

-----------------------------------------------------------------------------
(* The request. *)

SelfLoad(p) ==
  /\ Ready(p, "self")
  /\ row.id # 0 /\ row.url
  /\ Loads(p, "self", "loaded")
  /\ UNCHANGED <<database, vps, locks, restarts>>

\* No lock per user here.
SelfLock(p) ==
  /\ At(p, "self", "loaded")
  /\ \E a \in Actors : Lock(p, a, "probing")
  /\ UNCHANGED <<database, vps, restarts>>

\* fetchRelayHealth before the trigger: its revision, if it answers.
SelfProbes(p) ==
  /\ At(p, "self", "probing")
  /\ \E status \in HealthAnswers(req[p].row) :
       Become(p, [req[p] EXCEPT !.at = "trigger", !.val = status,
                                !.prev = IF status = "online" THEN box.rev ELSE "none"])
  /\ UNCHANGED <<database, vps, locks, restarts>>

\* A status the operation writes on its way out (source "action").
Reports(p, status) == Become(p, [req[p] EXCEPT !.at = "failing", !.val = status])

\* The POST does not get through, or a relay that was down before answers with an error:
\* the reason is written as the status.
SelfUnreachable(p) ==
  /\ At(p, "self", "trigger")
  /\ \/ ~box.up /\ Reports(p, "offline")
     \/ req[p].val # "online" /\ Reports(p, req[p].val)
  /\ UNCHANGED <<database, vps, locks, restarts>>

\* Busy (409), refused (400, 422), unsupported (404, 405) or another error of a relay
\* that answers: the status is left alone.
SelfRefused(p) ==
  /\ At(p, "self", "trigger")
  /\ box.up \/ req[p].val = "online"
  /\ Close(p)
  /\ UNCHANGED <<database, vps, locks, restarts>>

\* The relay takes the order; one update at a time.
SelfTriggers(p) ==
  /\ At(p, "self", "trigger")
  /\ box.up /\ req[p].row.token = box.token
  /\ upd.phase = "idle"
  /\ upd' = [upd EXCEPT !.phase = "pulling", !.by = p]
  /\ Goto(p, "sent")
  /\ UNCHANGED <<database, box, tokens, script, latest, locks, restarts>>

\* The answer is an error after all: the pull failed.
SelfPullFailed(p) ==
  /\ At(p, "self", "sent")
  /\ upd.by # p /\ upd.owner # p
  /\ Close(p)
  /\ UNCHANGED <<database, vps, locks, restarts>>

\* 202.  The body names target and previous revision, or the panel takes the published
\* revision (if it can look it up) and what /health said.
SelfAccepted(p) ==
  /\ At(p, "self", "sent")
  /\ upd.owner = p
  /\ \E target \in {upd.target, latest, "none"}, prev \in {upd.prev, req[p].prev} :
       Become(p, [req[p] EXCEPT !.at = "polling", !.target = target, !.prev = prev])
  /\ UNCHANGED <<database, vps, locks, restarts>>

\* No answer within a minute: the relay may still be pulling.
SelfTimesOut(p) ==
  /\ req[p].kind = "self" /\ req[p].at \in {"trigger", "sent"}
  /\ Become(p, [req[p] EXCEPT !.at = "record", !.flag = TRUE, !.target = "none"])
  /\ UNCHANGED <<database, vps, locks, restarts>>

\* Mutant: a relay that answers was updated.
SettlesAlways(p, rev) == req[p].target = "none" \/ rev # "none"

\* What one /health poll with revision rev settles.
Settles(p, rev) ==
  IF req[p].target # "none" THEN rev = req[p].target
  ELSE req[p].prev = "none" \/ (rev # "none" /\ rev # req[p].prev)

\* The last poll that settles nothing is written as the status; then the record is read.
SelfPolls(p) ==
  /\ At(p, "self", "polling")
  /\ \E status \in HealthAnswers(req[p].row) :
       Become(p, IF status = "online" /\ Settles(p, box.rev)
                   THEN [req[p] EXCEPT !.at = "success", !.n = 0, !.val = "none"]
                 ELSE IF req[p].n + 1 < MaxPolls THEN [req[p] EXCEPT !.n = @ + 1]
                 ELSE [req[p] EXCEPT !.at = "unsettled", !.n = 0, !.val = status])
  /\ UNCHANGED <<database, vps, locks, restarts>>

-----------------------------------------------------------------------------
(* readRelaySelfUpdateOutcome *)

\* Mutant: a record read after a timeout counts like one read after a 202.
OutcomeAnyMode(p) ==
  LET prevMatches == upd.prev # "none" /\ req[p].prev # "none" /\ upd.prev = req[p].prev
      targetMatches == upd.target # "none" /\ req[p].target # "none" /\ upd.target = req[p].target
  IN  IF ~prevMatches /\ ~targetMatches THEN "none"
      ELSE CASE upd.state = "succeeded" /\ box.rev = upd.target -> "succeeded"
             [] upd.state = "failed" -> "failed"
             [] upd.state \in {"in_progress", "unverified"} -> "pending"
             [] OTHER -> "none"

\* The record is this attempt's if no revision contradicts it and one agrees.  After a
\* timeout (`flag`) only an update that still runs counts.  A success has to agree with
\* what runs now and with what was expected.
Outcome(p) ==
  LET both(a, b) == a # "none" /\ b # "none"
      prev == req[p].prev
      target == req[p].target
      contradicts == \/ both(upd.prev, prev) /\ upd.prev # prev
                     \/ both(upd.target, target) /\ upd.target # target
      anchored == IF req[p].flag THEN upd.state = "in_progress" /\ both(upd.prev, prev)
                  ELSE both(upd.prev, prev) \/ both(upd.target, target)
      live == IF box.rev # "none" THEN box.rev ELSE upd.target
      earned == /\ ~(both(box.rev, upd.target) /\ box.rev # upd.target)
                /\ live # "none"
                /\ IF target # "none" THEN live = target ELSE live # prev
  IN  IF contradicts \/ ~anchored THEN "none"
      ELSE CASE upd.state = "succeeded" -> IF earned THEN "succeeded" ELSE "none"
             [] upd.state = "failed" -> "failed"
             [] upd.state \in {"in_progress", "unverified"} -> "pending"
             [] OTHER -> "none"

\* The record of another attempt may be too old to count; a failed read is no record.
Outcomes(p) ==
  IF ~box.up \/ req[p].row.token # box.token THEN {"none"} ELSE {Outcome(p), "none"}

\* respondFromRecord: success is written as the status, the rest is only answered.
SelfReads(p) ==
  /\ At(p, "self", "record")
  /\ \E outcome \in Outcomes(p) :
       Become(p, IF outcome = "succeeded" THEN [req[p] EXCEPT !.at = "success", !.val = "record"]
                 ELSE IF outcome = "failed" THEN [req[p] EXCEPT !.at = "failed", !.val = "record"]
                 ELSE [req[p] EXCEPT !.at = "failed", !.val = "none"])
  /\ UNCHANGED <<database, vps, locks, restarts>>

SelfAnswers(p) ==
  /\ At(p, "self", "failed")
  /\ Close(p)
  /\ UNCHANGED <<database, vps, locks, restarts>>

\* setServerStatus with source "action" never asks the registry.
SelfWrites(p) ==
  /\ req[p].kind = "self" /\ req[p].at \in {"success", "unsettled", "failing"}
  /\ IF RowIsThere(p)
     THEN /\ WriteStatus(IF req[p].at = "success" THEN "online" ELSE req[p].val)
          /\ IF req[p].at = "unsettled"
             THEN Become(p, [req[p] EXCEPT !.at = "record", !.val = "none"]) ELSE Close(p)
     ELSE UNCHANGED row /\ Close(p)
  /\ UNCHANGED <<rows, vps, locks, restarts>>

SelfUpdate(p) ==
  \/ SelfLoad(p) \/ SelfLock(p) \/ SelfProbes(p) \/ SelfUnreachable(p) \/ SelfRefused(p)
  \/ SelfTriggers(p) \/ SelfPullFailed(p) \/ SelfAccepted(p) \/ SelfTimesOut(p)
  \/ SelfPolls(p) \/ SelfReads(p) \/ SelfAnswers(p) \/ SelfWrites(p)

=============================================================================
