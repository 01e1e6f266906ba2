---------------------------- MODULE RelayInstall ----------------------------
(***************************************************************************)
(* Operations that run a command on the VPS over SSH: the first install,   *)
(* the re-install and the image update, with the command itself, which     *)
(* may outlive the request that started it.                                *)
(***************************************************************************)
EXTENDS ServerProbes

-----------------------------------------------------------------------------
(* The command.  "wipe" removes the relay's .env (token rotation), "stop"  *)
(* and "start" are the two ends of the gap in which compose recreates the  *)
(* container; install.sh generates a token only where it finds no .env.    *)

NoScript == [at |-> "none", op |-> "none", token |-> 0]
ScriptStages == {"wipe", "stop", "start", "ok", "failed"}

\* The request still waits for its command.
Waits(p) == req[p].at = "running"

\* A command nobody waits for leaves no result.
ScriptEnds(p, result) ==
  script' = [script EXCEPT ![p] =
               IF Waits(p) THEN [@ EXCEPT !.at = result, !.token = IF result = "ok" THEN box'.token ELSE 0]
               ELSE NoScript]

ScriptWipes(p) ==
  /\ script[p].at = "wipe"
  /\ box' = [box EXCEPT !.env = 0]
  /\ script' = [script EXCEPT ![p].at = "stop"]
  /\ UNCHANGED <<database, tokens, upd, latest, locks, req, restarts>>

ScriptStops(p) ==
  /\ script[p].at = "stop"
  /\ box' = [box EXCEPT !.up = FALSE]
  /\ script' = [script EXCEPT ![p].at = "start"]
  /\ UNCHANGED <<database, tokens, upd, latest, locks, req, restarts>>

\* compose needs the .env, install.sh writes one where there is none.
ScriptStarts(p) ==
  /\ script[p].at = "start"
  /\ box.env # 0 \/ script[p].op = "install"
  /\ LET fresh == box.env = 0
         token == IF fresh THEN tokens + 1 ELSE box.env
     IN  /\ box' = [env |-> token, token |-> token, rev |-> latest, up |-> TRUE]
         /\ tokens' = IF fresh THEN tokens + 1 ELSE tokens
  /\ ScriptEnds(p, "ok")
  /\ UNCHANGED <<database, upd, latest, locks, req, restarts>>

\* It may fail at any point, or be killed with the connection.
ScriptFails(p) ==
  /\ script[p].at \in {"wipe", "stop", "start"}
  /\ UNCHANGED <<box, tokens>>
  /\ ScriptEnds(p, "failed")
  /\ UNCHANGED <<database, upd, latest, locks, req, restarts>>

Script(p) == ScriptWipes(p) \/ ScriptStops(p) \/ ScriptStarts(p) \/ ScriptFails(p)

-----------------------------------------------------------------------------
(* executeSshCommand *)

\* No connection: refused, wrong host key or credentials, or no shell in time.
SshFails(p) ==
  /\ req[p].at \in {"ssh", "inspect", "docker"}
  /\ Close(p)
  /\ UNCHANGED <<database, vps, locks, restarts>>

SshStarts(p) ==
  /\ req[p].at \in {"ssh", "docker"}
  /\ script' = [script EXCEPT ![p] =
                  IF req[p].kind = "update" THEN [NoScript EXCEPT !.at = "stop", !.op = "docker"]
                  ELSE [NoScript EXCEPT !.at = IF req[p].flag THEN "wipe" ELSE "stop", !.op = "install"]]
  /\ Goto(p, "running")
  /\ UNCHANGED <<database, box, tokens, upd, latest, locks, restarts>>

\* Mutant: no watchdog; the request waits for the command, however long it takes.
SshWaits(p) ==
  /\ Waits(p)
  /\ script[p].at \in {"ok", "failed"}
  /\ script' = [script EXCEPT ![p] = NoScript]
  /\ Close(p)
  /\ UNCHANGED <<database, box, tokens, upd, latest, locks, restarts>>

\* The watchdog, or a connection that breaks: the command may go on without us.
SshTimesOut(p) ==
  /\ Waits(p)
  /\ script' = IF script[p].at \in {"ok", "failed"} THEN [script EXCEPT ![p] = NoScript] ELSE script
  /\ Close(p)
  /\ UNCHANGED <<database, box, tokens, upd, latest, locks, restarts>>

\* The command ended with this result; the session's output goes with it.
Ran(p, result) ==
  /\ Waits(p)
  /\ script[p].at = result
  /\ script' = [script EXCEPT ![p] = NoScript]
  /\ UNCHANGED <<box, tokens, upd, latest>>

-----------------------------------------------------------------------------
(* POST /install-relay: the first install.  Its lock is per user. *)

InstallStart(p) ==
  /\ Ready(p, "install")
  /\ row.id = 0
  /\ \E a \in Actors :
       /\ <<"install", a>> \notin locks
       /\ locks' = locks \cup {<<"install", a>>}
       /\ Become(p, [NoRequest EXCEPT !.kind = "install", !.at = "ssh", !.actor = a])
  /\ UNCHANGED <<database, vps, restarts>>

\* The output is parsed; without URL and token no row is made.
InstallParses(p) ==
  /\ req[p].kind = "install"
  /\ \/ Ran(p, "ok") /\ Become(p, [req[p] EXCEPT !.at = "writing", !.n = script[p].token])
     \/ Ran(p, "failed") /\ Close(p)
  /\ UNCHANGED <<database, locks, restarts>>

\* The host is unique: a row that was made meanwhile rejects this one.  The key is pinned
\* if the request brought one.
InstallCreates(p) ==
  /\ At(p, "install", "writing")
  /\ IF row.id = 0
     THEN /\ \E pinned \in BOOLEAN :
               row' = [id |-> rows + 1, url |-> TRUE, token |-> req[p].n,
                       status |-> "unknown", pinned |-> pinned]
          /\ rows' = rows + 1
     ELSE UNCHANGED <<row, rows>>
  /\ Close(p)
  /\ UNCHANGED <<vps, locks, restarts>>

-----------------------------------------------------------------------------
(* POST /:id/install-relay: the re-install. *)

\* The row is read before the body; `flag` is rotateToken.
ReinstallLoad(p) ==
  /\ Ready(p, "reinstall")
  /\ row.id # 0
  /\ \E rotate \in BOOLEAN :
       Become(p, [NoRequest EXCEPT !.kind = "reinstall", !.at = "loaded", !.row = Copy, !.flag = rotate])
  /\ UNCHANGED <<database, vps, locks, restarts>>

ReinstallLock(p) ==
  /\ At(p, "reinstall", "loaded")
  /\ \E a \in Actors : Lock(p, a, "ssh")
  /\ UNCHANGED <<database, vps, restarts>>

\* 429: the server, or this user, already has an operation.
LockRefused(p) ==
  /\ req[p].at = "loaded"
  /\ \E a \in Actors : IsServerMutating(req[p].row.id)
                       \/ KeysOf(req[p].kind, req[p].row.id, a) \cap locks # {}
  /\ End(p)
  /\ UNCHANGED <<database, vps, locks, restarts>>

\* What the output says decides the rest: a parse failure is an error event.
Parsed(p, token) ==
  IF token = 0 THEN Close(p)
  ELSE Become(p, [req[p] EXCEPT !.at = "writing", !.n = token])

\* The command ended.  A host key seen for the first time is stored before the output
\* is looked at.
ReinstallRan(p) ==
  /\ req[p].kind = "reinstall"
  /\ Ran(p, "ok") \/ Ran(p, "failed")
  /\ IF req[p].row.pinned THEN Parsed(p, script[p].token)
     ELSE Become(p, [req[p] EXCEPT !.at = "pinning", !.n = script[p].token])
  /\ UNCHANGED <<database, locks, restarts>>

ReinstallPins(p) ==
  /\ At(p, "reinstall", "pinning")
  /\ IF RowIsThere(p)
     THEN row' = [row EXCEPT !.pinned = TRUE] /\ Parsed(p, req[p].n)
     ELSE UNCHANGED row /\ Close(p)
  /\ UNCHANGED <<rows, vps, locks, restarts>>

\* Mutant: the token is written only when the operator asked for a new one.
ReinstallWritesOnRotate(p) ==
  /\ At(p, "reinstall", "writing")
  /\ IF RowIsThere(p)
     THEN row' = [row EXCEPT !.url = TRUE, !.status = "online",
                             !.token = IF req[p].flag THEN req[p].n ELSE @]
     ELSE UNCHANGED row
  /\ Close(p)
  /\ UNCHANGED <<rows, vps, locks, restarts>>

\* The token is written when it was rotated or differs from the copy's; a row that is
\* gone rejects the update.
ReinstallWrites(p) ==
  /\ At(p, "reinstall", "writing")
  /\ IF RowIsThere(p)
     THEN row' = [row EXCEPT !.url = TRUE, !.status = "online",
                             !.token = IF req[p].flag \/ req[p].n # req[p].row.token THEN req[p].n ELSE @]
     ELSE UNCHANGED row
  /\ Close(p)
  /\ UNCHANGED <<rows, vps, locks, restarts>>

-----------------------------------------------------------------------------
(* POST /:id/update-relay-image *)

UpdateLoad(p) ==
  /\ Ready(p, "update")
  /\ row.id # 0
  /\ Loads(p, "update", "loaded")
  /\ UNCHANGED <<database, vps, locks, restarts>>

UpdateLock(p) ==
  /\ At(p, "update", "loaded")
  /\ \E a \in Actors : Lock(p, a, "inspect")
  /\ UNCHANGED <<database, vps, restarts>>

\* The compose file builds its image: the update would change nothing and is refused.
Inspected(p) == Close(p) \/ Goto(p, "docker")

UpdateInspects(p) ==
  /\ At(p, "update", "inspect")
  /\ IF req[p].row.pinned THEN Inspected(p) ELSE Goto(p, "pinning")
  /\ UNCHANGED <<database, vps, locks, restarts>>

UpdatePins(p) ==
  /\ At(p, "update", "pinning")
  /\ IF RowIsThere(p)
     THEN row' = [row EXCEPT !.pinned = TRUE] /\ Inspected(p)
     ELSE UNCHANGED row /\ Close(p)
  /\ UNCHANGED <<rows, vps, locks, restarts>>

\* A non-zero exit is an error; otherwise /health is asked, if there is a URL.
UpdateRan(p) ==
  /\ req[p].kind = "update"
  /\ \/ Ran(p, "ok") /\ Become(p, [req[p] EXCEPT !.at = IF req[p].row.url THEN "health" ELSE "writing"])
     \/ Ran(p, "failed") /\ Close(p)
  /\ UNCHANGED <<database, locks, restarts>>

\* Three tries; the first good answer ends them.
HealthTries == 3
UpdateHealth(p) ==
  /\ At(p, "update", "health")
  /\ \E status \in HealthAnswers(req[p].row) :
       Become(p, IF status = "online" THEN [req[p] EXCEPT !.at = "writing", !.n = 0, !.val = "online"]
                 ELSE IF req[p].n + 1 < HealthTries THEN [req[p] EXCEPT !.n = @ + 1]
                 ELSE [req[p] EXCEPT !.at = "writing", !.n = 0])
  /\ UNCHANGED <<database, vps, locks, restarts>>

\* Without a good answer the status stays what it was.
UpdateWrites(p) ==
  /\ At(p, "update", "writing")
  /\ IF RowIsThere(p) /\ req[p].val = "online" THEN WriteStatus("online") ELSE UNCHANGED row
  /\ Close(p)
  /\ UNCHANGED <<rows, vps, locks, restarts>>

-----------------------------------------------------------------------------
(* `finally`, on every way out of an operation. *)

\* Mutant: the key of the server is freed, the one of the user is kept.
ReleaseServerKey(p) ==
  /\ req[p].at = "closing"
  /\ locks' = locks \ {k \in Keys(p) : k[1] \in {"install", "reinstall", "update-image", "self-update"}}
  /\ End(p)
  /\ UNCHANGED <<database, vps, restarts>>

Release(p) ==
  /\ req[p].at = "closing"
  /\ locks' = locks \ Keys(p)
  /\ End(p)
  /\ UNCHANGED <<database, vps, restarts>>

Install(p) == InstallStart(p) \/ InstallParses(p) \/ InstallCreates(p)

Reinstall(p) ==
  \/ ReinstallLoad(p) \/ ReinstallLock(p) \/ LockRefused(p)
  \/ ReinstallRan(p) \/ ReinstallPins(p) \/ ReinstallWrites(p)

Update(p) ==
  \/ UpdateLoad(p) \/ UpdateLock(p) \/ UpdateInspects(p) \/ UpdatePins(p)
  \/ UpdateRan(p) \/ UpdateHealth(p) \/ UpdateWrites(p)

Ssh(p) == SshFails(p) \/ SshStarts(p) \/ SshTimesOut(p) \/ Release(p)

=============================================================================
