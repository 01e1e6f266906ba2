----------------------------- MODULE ServerState -----------------------------
(***************************************************************************)
(* What the requests about one server share: its Server row, the VPS with  *)
(* the relay that runs on it, and the memory of the one backend process    *)
(* (the in-flight operations of active-installs.ts and the requests it is  *)
(* serving).  The modules that EXTEND this one give the actions:           *)
(* ServerProbes, RelayInstall, RelaySelfUpdate; ServerOps puts them        *)
(* together.                                                               *)
(*                                                                         *)
(* A request is one HTTP call.  Its action is what happens up to the next  *)
(* await; a call to the relay has two, as the relay's answer is on its way *)
(* while other requests run.                                               *)
(***************************************************************************)
EXTENDS Naturals, FiniteSets

CONSTANTS
  Requests,     \* the requests of a behaviour
  Actors,       \* users who send them; administrators share one key
  Kinds,        \* the operations a behaviour may contain
  MaxPolls,     \* bound: /health polls after an accepted self-update (8 in the code)
  MaxRestarts   \* bound: restarts of the backend process

ASSUME ServerConstants ==
  /\ IsFiniteSet(Requests)
  /\ {"none", "edited"} \cap Requests = {}
  /\ Actors # {}
  /\ Kinds \subseteq {"test", "sync", "patch", "delete", "create", "install",
                      "reinstall", "update", "self"}
  /\ MaxPolls \in Nat \ {0}
  /\ MaxRestarts \in Nat

VARIABLES
  row,       \* the Server row of the host
  rows,      \* how many rows it has had: the ids in use
  box,       \* the VPS: the token in the relay's .env, the relay that runs
  tokens,    \* tokens generated so far; a token is its number
  script,    \* per request, its command on the VPS
  upd,       \* the relay's self-update and its record
  latest,    \* revision of the relay image published at :latest
  locks,     \* active-installs.ts: activeInstalls
  req,       \* the requests
  restarts   \* restarts so far

database == <<row, rows>>
vps == <<box, tokens, script, upd, latest>>
vars == <<row, rows, box, tokens, script, upd, latest, locks, req, restarts>>

Statuses == {"online", "auth", "offline", "unknown", "no-relay"}
Revisions == {"old", "new"}

(***************************************************************************)
(* A row is its id (0: none), whether it has a relay URL, the relay token  *)
(* it stores, its status and whether a host key is pinned.  Id n is the    *)
(* n-th row of the host: the column is unique, so there is one at a time.  *)
(***************************************************************************)
NoRow == [id |-> 0, url |-> FALSE, token |-> 0, status |-> "unknown", pinned |-> FALSE]

(***************************************************************************)
(* A request: what it is for, where it is, who sent it, the copy of the    *)
(* row it loaded, the choice its body makes, the answer or status in hand, *)
(* two revisions, a count, and what a property needs to know of its past:  *)
(* the operation that held the server when a probe saw the relay, or that  *)
(* the row was edited since it was loaded.                                 *)
(***************************************************************************)
NoRequest == [kind |-> "none", at |-> "idle", actor |-> "none", row |-> NoRow, flag |-> FALSE,
              val |-> "none", prev |-> "none", target |-> "none", n |-> 0, past |-> "none"]
Ended == [NoRequest EXCEPT !.at = "done"]

-----------------------------------------------------------------------------
(* Moving one request. *)

At(p, kind, at) == req[p].kind = kind /\ req[p].at = at
Become(p, r) == req' = [req EXCEPT ![p] = r]
Goto(p, at) == Become(p, [req[p] EXCEPT !.at = at])
End(p) == Become(p, Ended)

\* An operation is over: what is left is the audit entry, the last event and `finally`.
Close(p) == Become(p, [NoRequest EXCEPT !.kind = req[p].kind, !.at = "closing",
                                        !.actor = req[p].actor, !.row = [NoRow EXCEPT !.id = req[p].row.id]])

\* A request that has not begun and may be of this kind.
Ready(p, kind) == kind \in Kinds /\ req[p].at = "idle"

\* findOwnedServer: the row is read, and what follows uses this copy (its status apart).
Copy == [row EXCEPT !.status = NoRow.status]
Loads(p, kind, at) == Become(p, [NoRequest EXCEPT !.kind = kind, !.at = at, !.row = Copy])

\* prisma.server.update by id is rejected once the row is gone.
RowIsThere(p) == row.id = req[p].row.id
WriteStatus(status) == row' = [row EXCEPT !.status = status]

-----------------------------------------------------------------------------
(* active-installs.ts: the keys of operations in flight. *)

KeysOf(kind, id, actor) ==
  CASE kind = "install" -> {<<"install", actor>>}
    [] kind = "reinstall" -> {<<"reinstall", id>>, <<"reinstall-actor", actor>>}
    [] kind = "update" -> {<<"update-image", id>>, <<"update-image-actor", actor>>}
    [] kind = "self" -> {<<"self-update", id>>}

IsServerMutating(id) ==
  {<<"reinstall", id>>, <<"update-image", id>>, <<"self-update", id>>} \cap locks # {}

Operations == {"install", "reinstall", "update", "self"}
Keys(p) == KeysOf(req[p].kind, req[p].row.id, req[p].actor)
Holds(p) == req[p].kind \in Operations /\ req[p].at # "loaded"

\* Mutant: the registry was asked before the body was read, and is not asked again.
LockUnasked(p, actor, at) ==
  /\ locks' = locks \cup KeysOf(req[p].kind, req[p].row.id, actor)
  /\ Become(p, [req[p] EXCEPT !.at = at, !.actor = actor])

\* The check and the add have no await between them.
Lock(p, actor, at) ==
  LET keys == KeysOf(req[p].kind, req[p].row.id, actor) IN
  /\ ~IsServerMutating(req[p].row.id)
  /\ keys \cap locks = {}
  /\ locks' = locks \cup keys
  /\ Become(p, [req[p] EXCEPT !.at = at, !.actor = actor])

-----------------------------------------------------------------------------
(* The relay as the panel sees it: GET /health with the token of the copy r. *)

\* A stopped relay refuses the connection, lets it time out, or the proxy answers for
\* it; one that runs may be slow or fail.
HealthAnswers(r) ==
  IF ~box.up THEN {"offline", "unknown"}
  ELSE IF r.token # box.token THEN {"auth", "unknown"}
  ELSE {"online", "unknown"}

\* The operation that holds the row's server, if one does.
HolderOf(id) ==
  LET holders == {p \in Requests : Holds(p) /\ req[p].row.id = id /\ req[p].kind # "install"}
  IN  IF holders = {} THEN "none" ELSE CHOOSE p \in holders : TRUE

=============================================================================
