---------------------------- MODULE ServerProbes ----------------------------
(***************************************************************************)
(* Requests that watch or edit a server without operating it: /test, sync, *)
(* the status write they share (server-status.ts), and the plain create,   *)
(* edit and removal of the row.                                            *)
(***************************************************************************)
EXTENDS ServerState

-----------------------------------------------------------------------------
(* setServerStatus for a probe. *)

\* Mutant: every probe writes.
ProbeAlwaysWrites(p, status) ==
  Become(p, [req[p] EXCEPT !.at = "landing", !.val = status])

\* Mutant: an error is written as a status of its own.
ProbeWritesError(p, status) ==
  Become(p, [req[p] EXCEPT !.at = "landing", !.val = IF status = "unknown" THEN "error" ELSE status])

\* The registry is asked before the update is sent.  A skipped status write still moves
\* lastSeenAt, which nothing here reads.
ProbeWrites(p, status) ==
  IF IsServerMutating(req[p].row.id) THEN End(p)
  ELSE Become(p, [req[p] EXCEPT !.at = "landing", !.val = status])

\* The update reaches the database; a row that is gone rejects it, and the request fails.
StatusLands(p) ==
  /\ req[p].at = "landing"
  /\ IF RowIsThere(p) THEN WriteStatus(req[p].val) ELSE UNCHANGED row
  /\ End(p)
  /\ UNCHANGED <<rows, vps, locks, restarts>>

-----------------------------------------------------------------------------
(* POST /:id/test *)

TestStart(p) ==
  /\ Ready(p, "test")
  /\ row.id # 0
  /\ Loads(p, "test", "asking")
  /\ UNCHANGED <<database, vps, locks, restarts>>

\* No relay URL: nothing is asked.
TestNoRelay(p) ==
  /\ At(p, "test", "asking")
  /\ ~req[p].row.url
  /\ ProbeWrites(p, "no-relay")
  /\ UNCHANGED <<database, vps, locks, restarts>>

\* The relay answers, or fails to.
TestSees(p) ==
  /\ At(p, "test", "asking")
  /\ req[p].row.url
  /\ \E status \in HealthAnswers(req[p].row) :
       Become(p, [req[p] EXCEPT !.at = "answered", !.val = status,
                                !.past = HolderOf(req[p].row.id)])
  /\ UNCHANGED <<database, vps, locks, restarts>>

\* The answer arrives; for an `online` one the published revision is looked up first.
TestAnswered(p) ==
  /\ At(p, "test", "answered")
  /\ ProbeWrites(p, req[p].val)
  /\ UNCHANGED <<database, vps, locks, restarts>>

-----------------------------------------------------------------------------
(* POST /:serverId/sync *)

SyncStart(p) ==
  /\ Ready(p, "sync")
  /\ row.id # 0 /\ row.url
  /\ Loads(p, "sync", "asking")
  /\ UNCHANGED <<database, vps, locks, restarts>>

\* relayRequest reads the row again and makes the call: what it yields or throws is a status.
RelayRequest == IF row.url THEN HealthAnswers(row) ELSE {"no-relay"}

\* A row that is gone ends the sync with 404.
SyncSees(p) ==
  /\ At(p, "sync", "asking")
  /\ \/ ~RowIsThere(p) /\ End(p)
     \/ /\ RowIsThere(p)
        /\ \E status \in RelayRequest :
             Become(p, [req[p] EXCEPT !.at = "answered", !.val = status,
                                      !.past = HolderOf(row.id)])
  /\ UNCHANGED <<database, vps, locks, restarts>>

\* The listing is there: the apps are written one by one, and a local error among them
\* ends the sync without a status.  A failed listing is a status at once.
SyncApps(p) ==
  /\ At(p, "sync", "answered")
  /\ \/ ProbeWrites(p, req[p].val)
     \/ req[p].val = "online" /\ End(p)
  /\ UNCHANGED <<database, vps, locks, restarts>>

-----------------------------------------------------------------------------
(* The row itself.  None of these looks at the registry. *)

\* The operator leaves the token out or pastes the one the VPS has.
Entered == {0, box.token}

CreateServer(p) ==
  /\ Ready(p, "create")
  /\ row.id = 0
  /\ \E token \in Entered, url \in BOOLEAN :
       row' = [NoRow EXCEPT !.id = rows + 1, !.url = url, !.token = token]
  /\ rows' = rows + 1
  /\ End(p)
  /\ UNCHANGED <<vps, locks, restarts>>

\* A reinstall that has loaded the row knows from `past` that it was edited.
PatchServer(p) ==
  /\ Ready(p, "patch")
  /\ row.id # 0
  /\ \E token \in Entered, url \in BOOLEAN :
       row' = [row EXCEPT !.url = url, !.token = token]
  /\ req' = [q \in Requests |->
               IF q = p THEN Ended
               ELSE IF req[q].kind = "reinstall" /\ req[q].at # "closing"
                    THEN [req[q] EXCEPT !.past = "edited"] ELSE req[q]]
  /\ UNCHANGED <<rows, vps, locks, restarts>>

DeleteServer(p) ==
  /\ Ready(p, "delete")
  /\ row.id # 0
  /\ row' = NoRow
  /\ End(p)
  /\ UNCHANGED <<rows, vps, locks, restarts>>

Probe(p) ==
  \/ TestStart(p) \/ TestNoRelay(p) \/ TestSees(p) \/ TestAnswered(p)
  \/ SyncStart(p) \/ SyncSees(p) \/ SyncApps(p)
  \/ StatusLands(p)

Edit(p) == CreateServer(p) \/ PatchServer(p) \/ DeleteServer(p)

=============================================================================
