--------------------------- MODULE ServerOpsProofs ---------------------------
(***************************************************************************)
(* Proofs about the operations on a server: the registry of operations in  *)
(* flight is exact, no two operations of a row overlap, and a probe never  *)
(* writes over an operation it saw running; for any requests, users, rows  *)
(* and number of restarts.                                                 *)
(***************************************************************************)
EXTENDS ServerOps, TLAPS

Fields == {"kind", "at", "actor", "row", "flag", "val", "prev", "target", "n", "past"}

\* A request is a record, which an action edits or replaces.
Shaped ==
  /\ req = [q \in Requests |-> req[q]]
  /\ \A q \in Requests : Fields \subseteq DOMAIN req[q]

\* Where a request is tells what it is for.
Outside == {"idle", "done"}
Probing == {"asking", "answered", "landing"}
Staged(q) ==
  /\ req[q].at \in Outside => req[q].kind = "none"
  /\ req[q].at \in Probing => req[q].kind \in {"test", "sync"}
  /\ req[q].at \notin Outside \cup Probing => req[q].kind \in Operations

RequestsFit == Shaped /\ \A q \in Requests : Staged(q)

\* A step of request p alone that takes and frees no key.
Turns(p) ==
  /\ UNCHANGED locks
  /\ req' = [req EXCEPT ![p] = req'[p]]
  /\ Fields \subseteq DOMAIN req'[p]
  /\ Staged(p)'
  /\ Holds(p)' <=> Holds(p)
  /\ Holds(p) => /\ req'[p].kind = req[p].kind /\ req'[p].actor = req[p].actor
                 /\ req'[p].row.id = req[p].row.id

\* A request that holds nothing moves to where it holds nothing.
LEMMA FreeTurn ==
  ASSUME RequestsFit, NEW p \in Requests, ~Holds(p), UNCHANGED locks,
         NEW r, Become(p, r), Fields \subseteq DOMAIN r,
         \/ r.at \in Probing /\ r.kind \in {"test", "sync"}
         \/ r.at \in Outside /\ r.kind = "none"
         \/ r.at = "loaded" /\ r.kind \in Operations
  PROVE  Turns(p)
<1>1. req'[p] = r /\ req' = [req EXCEPT ![p] = req'[p]]
  BY DEF RequestsFit, Shaped, Become
<1>2. Staged(p)' /\ ~Holds(p)'
  BY <1>1 DEF Staged, Outside, Probing, Operations, Holds
<1>3. QED
  BY <1>1, <1>2 DEF Turns

\* An operation goes on and stays what it is.
LEMMA HeldTurn ==
  ASSUME RequestsFit, NEW p \in Requests, Holds(p), UNCHANGED locks,
         NEW r, Become(p, r), Fields \subseteq DOMAIN r,
         r.at \notin Outside \cup Probing \cup {"loaded"},
         r.kind = req[p].kind, r.actor = req[p].actor, r.row.id = req[p].row.id
  PROVE  Turns(p)
<1>1. req'[p] = r /\ req' = [req EXCEPT ![p] = req'[p]]
  BY DEF RequestsFit, Shaped, Become
<1>2. Staged(p)' /\ Holds(p)'
  BY <1>1 DEF Staged, Outside, Probing, Operations, Holds
<1>3. QED
  BY <1>1, <1>2 DEF Turns

\* Where a request is tells whether it holds keys.
LEMMA HoldsByPlace ==
  ASSUME RequestsFit, NEW p \in Requests
  PROVE  Holds(p) <=> req[p].at \notin Outside \cup Probing \cup {"loaded"}
  BY DEF RequestsFit, Staged, Outside, Probing, Operations, Holds

\* An edit of a request keeps its fields.
LEMMA FieldsKept == ASSUME RequestsFit, NEW p \in Requests PROVE Fields \subseteq DOMAIN req[p]
  BY DEF RequestsFit, Shaped

\* The end of a request that holds nothing.
LEMMA EndsFree ==
  ASSUME RequestsFit, NEW p \in Requests, ~Holds(p), UNCHANGED locks, End(p)
  PROVE  Turns(p)
  BY FreeTurn DEF End, Ended, NoRequest, Fields, Outside, Probing

\* Probes hold nothing.
LEMMA ProbesTurn == ASSUME RequestsFit, NEW p \in Requests, Probe(p) PROVE Turns(p)
<1>0. /\ req[p].at \in Outside => req[p].kind = "none"
      /\ req[p].at \in Probing => req[p].kind \in {"test", "sync"}
      /\ Holds(p) <=> req[p].at \notin Outside \cup Probing \cup {"loaded"}
      /\ Fields \subseteq DOMAIN req[p]
  BY HoldsByPlace, FieldsKept DEF RequestsFit, Staged
<1>1. ASSUME req[p].at = "idle", UNCHANGED locks, NEW kind \in {"test", "sync"},
             Loads(p, kind, "asking")
      PROVE  Turns(p)
  BY <1>0, <1>1, FreeTurn DEF Loads, NoRequest, Fields, Outside, Probing
<1>2. ASSUME req[p].at \in {"asking", "answered"}, UNCHANGED locks, NEW status, ProbeWrites(p, status)
      PROVE  Turns(p)
  <2>1. CASE End(p)
    BY <1>0, <1>2, <2>1, EndsFree DEF Outside, Probing
  <2>2. CASE Become(p, [req[p] EXCEPT !.at = "landing", !.val = status])
    BY <1>0, <1>2, <2>2, FreeTurn DEF Fields, Outside, Probing
  <2>3. QED
    BY <1>2, <2>1, <2>2 DEF ProbeWrites
<1>3. ASSUME req[p].at = "asking", UNCHANGED locks, NEW status, NEW past,
             Become(p, [req[p] EXCEPT !.at = "answered", !.val = status, !.past = past])
      PROVE  Turns(p)
  BY <1>0, <1>3, FreeTurn DEF Fields, Outside, Probing
<1>4. ASSUME req[p].at \in Probing, UNCHANGED locks, End(p) PROVE Turns(p)
  BY <1>0, <1>4, EndsFree DEF Outside, Probing
<1>5. ASSUME TestStart(p) \/ SyncStart(p) PROVE Turns(p)
  BY <1>1, <1>5 DEF TestStart, SyncStart, Ready
<1>6. ASSUME TestNoRelay(p) \/ TestAnswered(p) PROVE Turns(p)
  BY <1>2, <1>6 DEF TestNoRelay, TestAnswered, At
<1>7. ASSUME TestSees(p) \/ SyncSees(p) PROVE Turns(p)
  BY <1>3, <1>4, <1>7 DEF TestSees, SyncSees, At, Probing
<1>8. ASSUME SyncApps(p) \/ StatusLands(p) PROVE Turns(p)
  BY <1>2, <1>4, <1>8 DEF SyncApps, StatusLands, At, Probing
<1>9. QED
  BY <1>5, <1>6, <1>7, <1>8 DEF Probe

\* An operation that closes keeps its keys.
LEMMA Closes ==
  ASSUME RequestsFit, NEW p \in Requests, Holds(p), UNCHANGED locks, Close(p)
  PROVE  Turns(p)
  BY HeldTurn DEF Close, NoRequest, NoRow, Fields, Outside, Probing

\* One that moves on.
LEMMA MovesOn ==
  ASSUME RequestsFit, NEW p \in Requests, Holds(p), UNCHANGED locks,
         NEW at, at \notin Outside \cup Probing \cup {"loaded"}, Goto(p, at)
  PROVE  Turns(p)
  BY HeldTurn, FieldsKept DEF Goto, Fields

\* One that takes a number along.
LEMMA EditsN ==
  ASSUME RequestsFit, NEW p \in Requests, Holds(p), UNCHANGED locks,
         NEW at, at \notin Outside \cup Probing \cup {"loaded"}, NEW n,
         Become(p, [req[p] EXCEPT !.at = at, !.n = n])
  PROVE  Turns(p)
  BY HeldTurn, FieldsKept DEF Fields

\* A request that reads the row first holds nothing yet.
LEMMA LoadsFree ==
  ASSUME RequestsFit, NEW p \in Requests, NEW kind \in Operations, NEW r,
         req[p].at = "idle", UNCHANGED locks, Become(p, r),
         r = [NoRequest EXCEPT !.kind = kind, !.at = "loaded", !.row = Copy]
         \/ \E flag \in BOOLEAN :
              r = [NoRequest EXCEPT !.kind = kind, !.at = "loaded", !.row = Copy, !.flag = flag]
  PROVE  Turns(p)
  BY HoldsByPlace, FreeTurn DEF NoRequest, Fields, Outside

\* One that is turned away held nothing.
LEMMA RefusedTurns == ASSUME RequestsFit, NEW p \in Requests, LockRefused(p) PROVE Turns(p)
  BY HoldsByPlace, EndsFree DEF LockRefused

\* The SSH session, but for the release.
LEMMA SshTurns ==
  ASSUME RequestsFit, NEW p \in Requests, SshFails(p) \/ SshStarts(p) \/ SshTimesOut(p)
  PROVE  Turns(p)
<1>1. Holds(p)
  BY HoldsByPlace DEF SshFails, SshStarts, SshTimesOut, Waits, Outside, Probing
<1>2. CASE SshFails(p) \/ SshTimesOut(p)
  BY <1>1, <1>2, Closes DEF SshFails, SshTimesOut
<1>3. CASE SshStarts(p)
  BY <1>1, <1>3, MovesOn DEF SshStarts, Outside, Probing
<1>4. QED
  BY <1>2, <1>3

\* The first install, once it has its key.
LEMMA InstallTurns ==
  ASSUME RequestsFit, NEW p \in Requests, InstallParses(p) \/ InstallCreates(p)
  PROVE  Turns(p)
<1>1. Holds(p)
  BY HoldsByPlace DEF InstallParses, InstallCreates, Ran, Waits, At, Outside, Probing
<1>2. CASE InstallParses(p)
  BY <1>1, <1>2, Closes, EditsN DEF InstallParses, Outside, Probing
<1>3. CASE InstallCreates(p)
  BY <1>1, <1>3, Closes DEF InstallCreates
<1>4. QED
  BY <1>2, <1>3

\* The re-install, but for its lock.
LEMMA ReinstallTurns ==
  ASSUME RequestsFit, NEW p \in Requests,
         \/ ReinstallLoad(p) \/ ReinstallRan(p) \/ ReinstallPins(p) \/ ReinstallWrites(p)
  PROVE  Turns(p)
<1>1. CASE ReinstallLoad(p)
  BY <1>1, LoadsFree DEF ReinstallLoad, Ready, Operations
<1>2. ASSUME Holds(p), UNCHANGED locks, NEW token, Parsed(p, token) PROVE Turns(p)
  BY <1>2, Closes, EditsN DEF Parsed, Outside, Probing
<1>3. CASE ReinstallRan(p)
  <2>1. Holds(p) /\ UNCHANGED locks
    BY <1>3, HoldsByPlace DEF ReinstallRan, Ran, Waits, Outside, Probing
  <2>2. CASE req[p].row.pinned
    BY <1>2, <1>3, <2>1, <2>2 DEF ReinstallRan
  <2>3. CASE ~req[p].row.pinned
    BY <1>3, <2>1, <2>3, EditsN DEF ReinstallRan, Outside, Probing
  <2>4. QED
    BY <2>2, <2>3
<1>4. CASE ReinstallPins(p)
  <2>1. Holds(p) /\ UNCHANGED locks
    BY <1>4, HoldsByPlace DEF ReinstallPins, At, Outside, Probing
  <2>2. QED
    BY <1>2, <1>4, <2>1, Closes DEF ReinstallPins
<1>5. CASE ReinstallWrites(p)
  BY <1>5, HoldsByPlace, Closes DEF ReinstallWrites, At, Outside, Probing
<1>6. QED
  BY <1>1, <1>3, <1>4, <1>5

\* The image update, but for its lock.
LEMMA UpdateTurns ==
  ASSUME RequestsFit, NEW p \in Requests,
         \/ UpdateLoad(p) \/ UpdateInspects(p) \/ UpdatePins(p) \/ UpdateRan(p)
         \/ UpdateHealth(p) \/ UpdateWrites(p)
  PROVE  Turns(p)
<1>1. CASE UpdateLoad(p)
  BY <1>1, LoadsFree DEF UpdateLoad, Loads, Ready, Operations
<1>2. ASSUME Holds(p), UNCHANGED locks, Inspected(p) PROVE Turns(p)
  BY <1>2, Closes, MovesOn DEF Inspected, Outside, Probing
<1>3. CASE UpdateInspects(p) \/ UpdatePins(p)
  <2>1. Holds(p) /\ UNCHANGED locks
    BY <1>3, HoldsByPlace DEF UpdateInspects, UpdatePins, At, Outside, Probing
  <2>2. QED
    BY <1>2, <1>3, <2>1, Closes, MovesOn DEF UpdateInspects, UpdatePins, Outside, Probing
<1>4. CASE UpdateRan(p)
  <2>1. Holds(p) /\ UNCHANGED locks
    BY <1>4, HoldsByPlace DEF UpdateRan, Ran, Waits, Outside, Probing
  <2>2. CASE Close(p)
    BY <2>1, <2>2, Closes
  <2>3. CASE Goto(p, IF req[p].row.url THEN "health" ELSE "writing")
    BY <2>1, <2>3, MovesOn DEF Outside, Probing
  <2>4. QED
    BY <1>4, <2>2, <2>3 DEF UpdateRan, Goto
<1>5. CASE UpdateHealth(p)
  <2>1. Holds(p) /\ UNCHANGED locks /\ req[p].at = "health"
    BY <1>5, HoldsByPlace DEF UpdateHealth, At, Outside, Probing
  <2>2. PICK r : /\ Become(p, r)
                 /\ \/ r = [req[p] EXCEPT !.at = "writing", !.n = 0, !.val = "online"]
                    \/ r = [req[p] EXCEPT !.n = @ + 1]
                    \/ r = [req[p] EXCEPT !.at = "writing", !.n = 0]
    BY <1>5 DEF UpdateHealth
  <2>3. QED
    BY <2>1, <2>2, HeldTurn, FieldsKept DEF Fields, Outside, Probing
<1>6. CASE UpdateWrites(p)
  BY <1>6, HoldsByPlace, Closes DEF UpdateWrites, At, Outside, Probing
<1>7. QED
  BY <1>1, <1>3, <1>4, <1>5, <1>6

\* The self-update, but for its lock.
LEMMA SelfTurns ==
  ASSUME RequestsFit, NEW p \in Requests,
         \/ SelfLoad(p) \/ SelfProbes(p) \/ SelfUnreachable(p) \/ SelfRefused(p) \/ SelfTriggers(p)
         \/ SelfPullFailed(p) \/ SelfAccepted(p) \/ SelfTimesOut(p) \/ SelfPolls(p) \/ SelfReads(p)
         \/ SelfAnswers(p) \/ SelfWrites(p)
  PROVE  Turns(p)
<1>1. CASE SelfLoad(p)
  BY <1>1, LoadsFree DEF SelfLoad, Loads, Ready, Operations
<1>2. ASSUME req[p].at \notin Outside \cup Probing \cup {"loaded"}, UNCHANGED locks,
             NEW r, Become(p, r), r.at \notin Outside \cup Probing \cup {"loaded"},
             Fields \subseteq DOMAIN r,
             r.kind = req[p].kind /\ r.actor = req[p].actor /\ r.row = req[p].row
      PROVE  Turns(p)
  BY <1>2, HeldTurn, HoldsByPlace
<1>3. ASSUME req[p].at \notin Outside \cup Probing \cup {"loaded"}, UNCHANGED locks, Close(p)
      PROVE  Turns(p)
  BY <1>3, Closes, HoldsByPlace
<1> USE DEF At, Outside, Probing
<1>4. CASE SelfProbes(p)
  <2>1. PICK status : Become(p, [req[p] EXCEPT !.at = "trigger", !.val = status,
                                  !.prev = IF status = "online" THEN box.rev ELSE "none"])
    BY <1>4 DEF SelfProbes
  <2>2. QED
    BY <1>2, <1>4, <2>1, FieldsKept DEF SelfProbes, Fields
<1>5. CASE SelfUnreachable(p)
  BY <1>2, <1>5, FieldsKept DEF SelfUnreachable, Reports, Fields
<1>6. CASE SelfRefused(p) \/ SelfPullFailed(p) \/ SelfAnswers(p)
  BY <1>3, <1>6 DEF SelfRefused, SelfPullFailed, SelfAnswers
<1>7. CASE SelfTriggers(p)
  BY <1>2, <1>7, FieldsKept DEF SelfTriggers, Goto, Fields
<1>8. CASE SelfAccepted(p)
  <2>1. PICK target, prev :
          Become(p, [req[p] EXCEPT !.at = "polling", !.target = target, !.prev = prev])
    BY <1>8 DEF SelfAccepted
  <2>2. QED
    BY <1>2, <1>8, <2>1, FieldsKept DEF SelfAccepted, Fields
<1>9. CASE SelfTimesOut(p)
  BY <1>2, <1>9, FieldsKept DEF SelfTimesOut, Fields
<1>10. CASE SelfPolls(p)
  <2>1. PICK r : /\ Become(p, r)
                 /\ \/ r = [req[p] EXCEPT !.at = "success", !.n = 0, !.val = "none"]
                    \/ r = [req[p] EXCEPT !.n = @ + 1]
                    \/ \E status : r = [req[p] EXCEPT !.at = "unsettled", !.n = 0, !.val = status]
    BY <1>10 DEF SelfPolls
  <2>2. QED
    BY <1>2, <1>10, <2>1, FieldsKept DEF SelfPolls, Fields
<1>11. CASE SelfReads(p)
  <2>1. PICK r : /\ Become(p, r)
                 /\ \/ r = [req[p] EXCEPT !.at = "success", !.val = "record"]
                    \/ r = [req[p] EXCEPT !.at = "failed", !.val = "record"]
                    \/ r = [req[p] EXCEPT !.at = "failed", !.val = "none"]
    BY <1>11 DEF SelfReads
  <2>2. QED
    BY <1>2, <1>11, <2>1, FieldsKept DEF SelfReads, Fields
<1>12. CASE SelfWrites(p)
  BY <1>2, <1>3, <1>12, FieldsKept DEF SelfWrites, Fields
<1>13. QED
  BY <1>1, <1>4, <1>5, <1>6, <1>7, <1>8, <1>9, <1>10, <1>11, <1>12

-----------------------------------------------------------------------------
(* The registry. *)

\* Every key in it belongs to an operation in flight, and to one only.
Exact == \A k : k \in locks <=> \E q \in Requests : Holds(q) /\ k \in Keys(q)
Apart ==
  \A q, s \in Requests : Holds(q) /\ Holds(s) /\ q # s => Keys(q) \cap Keys(s) = {}

LockInv == RequestsFit /\ Exact /\ Apart /\ OneOperation

\* Exactness, said of sets.
LEMMA ExactIsLocksExact == Exact <=> LocksExact
  BY DEF Exact, LocksExact

\* A request is an operation after a step if it was one before, and the same one.
SameHold(q) ==
  /\ Holds(q)' <=> Holds(q)
  /\ Holds(q) => /\ req'[q].kind = req[q].kind /\ req'[q].actor = req[q].actor
                 /\ req'[q].row.id = req[q].row.id

\* Where the operations are the same and the registry is, the invariant stays.
LEMMA SameHolders ==
  ASSUME LockInv, RequestsFit', UNCHANGED locks, \A q \in Requests : SameHold(q)
  PROVE  LockInv'
<1>1. \A q \in Requests : Holds(q) => Keys(q)' = Keys(q)
  BY DEF SameHold, Keys
<1>2. Exact'
  BY <1>1 DEF LockInv, Exact, SameHold
<1>3. Apart'
  BY <1>1 DEF LockInv, Apart, SameHold
<1>4. OneOperation'
  BY DEF LockInv, OneOperation, SameHold
<1>5. QED
  BY <1>2, <1>3, <1>4 DEF LockInv

\* A step of one request that takes and frees no key.
LEMMA TurnKeeps == ASSUME LockInv, NEW p \in Requests, Turns(p) PROVE LockInv'
<1>1. \A q \in Requests \ {p} : req'[q] = req[q]
  BY DEF LockInv, RequestsFit, Shaped, Turns
<1>2. req' = [q \in Requests |-> req'[q]]
  BY DEF LockInv, RequestsFit, Shaped, Turns
<1>3. \A q \in Requests : Fields \subseteq DOMAIN req'[q]
  BY <1>1 DEF LockInv, RequestsFit, Shaped, Turns
<1>4. \A q \in Requests : Staged(q)'
  BY <1>1 DEF LockInv, RequestsFit, Staged, Turns
<1>5. \A q \in Requests : SameHold(q)
  BY <1>1 DEF SameHold, Turns, Holds
<1>6. QED
  BY <1>2, <1>3, <1>4, <1>5, SameHolders DEF RequestsFit, Shaped, Turns

\* An edit of the row marks the re-installs that loaded it, and changes no operation.
LEMMA EditKeeps == ASSUME LockInv, NEW p \in Requests, Edit(p) PROVE LockInv'
<1>1. CASE CreateServer(p) \/ DeleteServer(p)
  <2>1. Turns(p)
    BY <1>1, HoldsByPlace, EndsFree DEF CreateServer, DeleteServer, Ready, LockInv, Outside
  <2>2. QED
    BY <2>1, TurnKeeps
<1>2. CASE PatchServer(p)
  <2>1. /\ UNCHANGED locks
        /\ req[p].at = "idle"
        /\ req' = [q \in Requests |-> IF q = p THEN Ended
                     ELSE IF req[q].kind = "reinstall" /\ req[q].at # "closing"
                          THEN [req[q] EXCEPT !.past = "edited"] ELSE req[q]]
    BY <1>2 DEF PatchServer, Ready
  <2>2. Fields \subseteq DOMAIN Ended /\ Ended.at = "done" /\ Ended.kind = "none"
    BY DEF Ended, NoRequest, Fields
  <2>3. \A q \in Requests \ {p} :
          /\ Fields \subseteq DOMAIN req'[q]
          /\ req'[q].at = req[q].at /\ req'[q].kind = req[q].kind
          /\ req'[q].actor = req[q].actor /\ req'[q].row = req[q].row
    BY <2>1 DEF LockInv, RequestsFit, Shaped, Fields
  <2>4. req' = [q \in Requests |-> req'[q]] /\ req'[p] = Ended
    BY <2>1
  <2>5. \A q \in Requests : Staged(q)'
    BY <2>2, <2>3, <2>4 DEF LockInv, RequestsFit, Staged, Outside, Probing
  <2>6. ~Holds(p) /\ ~Holds(p)'
    BY <2>1, <2>2, <2>4, HoldsByPlace DEF LockInv, Holds, Outside, Operations
  <2>7. \A q \in Requests : SameHold(q)
    BY <2>3, <2>6 DEF SameHold, Holds
  <2>8. RequestsFit'
    BY <2>2, <2>3, <2>4, <2>5 DEF RequestsFit, Shaped
  <2>9. QED
    BY <2>1, <2>7, <2>8, SameHolders
<1>3. QED
  BY <1>1, <1>2 DEF Edit

\* An operation takes keys that are all free, and its row has no other.
LEMMA TakesKeys ==
  ASSUME LockInv, NEW p \in Requests, ~Holds(p), NEW r, Become(p, r),
         Fields \subseteq DOMAIN r, r.at \notin Outside \cup Probing \cup {"loaded"},
         r.kind \in Operations,
         NEW keys, keys = KeysOf(r.kind, r.row.id, r.actor),
         keys \cap locks = {}, locks' = locks \cup keys,
         r.kind # "install" => \A q \in Requests : Holds(q) /\ req[q].kind # "install"
                                                  => req[q].row.id # r.row.id
  PROVE  LockInv'
<1>1. \A q \in Requests : req'[q] = IF q = p THEN r ELSE req[q]
  BY DEF LockInv, RequestsFit, Shaped, Become
<1>2. RequestsFit'
  <2>1. req' = [q \in Requests |-> req'[q]]
    BY DEF LockInv, RequestsFit, Shaped, Become
  <2>2. \A q \in Requests : Staged(q)' /\ Fields \subseteq DOMAIN req'[q]
    BY <1>1 DEF LockInv, RequestsFit, Shaped, Staged, Outside, Probing, Operations
  <2>3. QED
    BY <2>1, <2>2 DEF RequestsFit, Shaped
<1>3. Holds(p)' /\ Keys(p)' = keys
  BY <1>1 DEF Holds, Keys
<1>4. \A q \in Requests \ {p} : (Holds(q)' <=> Holds(q)) /\ Keys(q)' = Keys(q)
  BY <1>1 DEF Holds, Keys
<1>5. \A q \in Requests \ {p} : Holds(q) => Keys(q) \subseteq locks
  BY DEF LockInv, Exact
<1>6. Exact'
  BY <1>3, <1>4 DEF LockInv, Exact
<1>7. Apart'
  BY <1>3, <1>4, <1>5 DEF LockInv, Apart
<1>8. OneOperation'
  BY <1>1, <1>4 DEF LockInv, OneOperation
<1>9. QED
  BY <1>2, <1>6, <1>7, <1>8 DEF LockInv

\* A key of the row is in the registry while an operation on the row runs.
LEMMA RowKey ==
  ASSUME LockInv, NEW id, ~IsServerMutating(id), NEW q \in Requests,
         Holds(q), req[q].kind # "install"
  PROVE  req[q].row.id # id
<1>1. Keys(q) \subseteq locks
  BY DEF LockInv, Exact
<1>2. req[q].kind \in {"reinstall", "update", "self"}
  BY DEF Holds, Operations
<1>3. \/ <<"reinstall", req[q].row.id>> \in Keys(q)
      \/ <<"update-image", req[q].row.id>> \in Keys(q)
      \/ <<"self-update", req[q].row.id>> \in Keys(q)
  BY <1>2 DEF Keys, KeysOf
<1>4. QED
  BY <1>1, <1>3 DEF IsServerMutating

\* The three operations on a row pass their lock.
LEMMA LockKeeps ==
  ASSUME LockInv, NEW p \in Requests, ReinstallLock(p) \/ UpdateLock(p) \/ SelfLock(p)
  PROVE  LockInv'
<1>1. /\ req[p].at = "loaded"
      /\ req[p].kind \in {"reinstall", "update", "self"}
  BY DEF ReinstallLock, UpdateLock, SelfLock, At
<1>2. PICK a, at : /\ Lock(p, a, at)
                  /\ at \in {"ssh", "inspect", "probing"}
  BY DEF ReinstallLock, UpdateLock, SelfLock
<1> DEFINE r == [req[p] EXCEPT !.at = at, !.actor = a]
<1>3. /\ Fields \subseteq DOMAIN r /\ r.at = at /\ r.actor = a
      /\ r.kind = req[p].kind /\ r.row = req[p].row
  BY DEF LockInv, RequestsFit, Shaped, Fields
<1>4. ~Holds(p)
  BY <1>1 DEF Holds
<1>5. /\ Become(p, r)
      /\ ~IsServerMutating(req[p].row.id)
      /\ KeysOf(r.kind, r.row.id, r.actor) \cap locks = {}
      /\ locks' = locks \cup KeysOf(r.kind, r.row.id, r.actor)
  BY <1>2, <1>3 DEF Lock
<1> HIDE DEF r
<1>6. r.at \notin Outside \cup Probing \cup {"loaded"} /\ r.kind \in Operations
  BY <1>1, <1>2, <1>3 DEF Outside, Probing, Operations
<1>7. QED
  BY <1>3, <1>4, <1>5, <1>6, RowKey, TakesKeys

\* The first install has a key of its user.
LEMMA InstallStartKeeps == ASSUME LockInv, NEW p \in Requests, InstallStart(p) PROVE LockInv'
<1>1. ~Holds(p)
  BY HoldsByPlace DEF InstallStart, Ready, LockInv, Outside
<1>2. PICK a \in Actors :
        /\ <<"install", a>> \notin locks
        /\ locks' = locks \cup {<<"install", a>>}
        /\ Become(p, [NoRequest EXCEPT !.kind = "install", !.at = "ssh", !.actor = a])
  BY DEF InstallStart
<1> DEFINE r == [NoRequest EXCEPT !.kind = "install", !.at = "ssh", !.actor = a]
<1>3. /\ Fields \subseteq DOMAIN r /\ r.at = "ssh" /\ r.actor = a /\ r.kind = "install"
  BY DEF NoRequest, Fields
<1>4. KeysOf(r.kind, r.row.id, r.actor) = {<<"install", a>>}
  BY <1>3 DEF KeysOf
<1>5. r.at \notin Outside \cup Probing \cup {"loaded"} /\ r.kind \in Operations
  BY <1>3 DEF Outside, Probing, Operations
<1> HIDE DEF r
<1>6. QED
  BY <1>1, <1>2, <1>3, <1>4, <1>5, TakesKeys DEF r

\* `finally` frees the keys of its operation, which nobody else has.
LEMMA ReleaseKeeps == ASSUME LockInv, NEW p \in Requests, Release(p) PROVE LockInv'
<1>1. Holds(p)
  BY HoldsByPlace DEF Release, LockInv, Outside, Probing
<1>2. locks' = locks \ Keys(p) /\ End(p)
  BY DEF Release
<1>3. \A q \in Requests : req'[q] = IF q = p THEN Ended ELSE req[q]
  BY <1>2 DEF LockInv, RequestsFit, Shaped, End, Become
<1>4. Fields \subseteq DOMAIN Ended /\ Ended.at = "done" /\ Ended.kind = "none"
  BY DEF Ended, NoRequest, Fields
<1>5. RequestsFit'
  <2>1. req' = [q \in Requests |-> req'[q]]
    BY <1>2 DEF LockInv, RequestsFit, Shaped, End, Become
  <2>2. \A q \in Requests : Staged(q)' /\ Fields \subseteq DOMAIN req'[q]
    BY <1>3, <1>4 DEF LockInv, RequestsFit, Shaped, Staged, Outside, Probing
  <2>3. QED
    BY <2>1, <2>2 DEF RequestsFit, Shaped
<1>6. ~Holds(p)'
  BY <1>3, <1>4 DEF Holds, Operations
<1>7. \A q \in Requests \ {p} : (Holds(q)' <=> Holds(q)) /\ Keys(q)' = Keys(q)
  BY <1>3 DEF Holds, Keys
<1>8. Exact'
  BY <1>1, <1>2, <1>6, <1>7 DEF LockInv, Exact, Apart
<1>9. Apart'
  BY <1>6, <1>7 DEF LockInv, Apart
<1>10. OneOperation'
  BY <1>3, <1>6, <1>7 DEF LockInv, OneOperation
<1>11. QED
  BY <1>5, <1>8, <1>9, <1>10 DEF LockInv

\* A restart frees everything, as nothing is in flight after it.
LEMMA RestartKeeps == ASSUME LockInv, Restart PROVE LockInv'
<1>1. locks' = {} /\ req' = [p \in Requests |-> IF req[p].at = "idle" THEN NoRequest ELSE Ended]
  BY DEF Restart
<1>2. \A q \in Requests : /\ Fields \subseteq DOMAIN req'[q]
                         /\ req'[q].at \in Outside /\ req'[q].kind = "none"
  BY <1>1 DEF Ended, NoRequest, Fields, Outside
<1>3. \A q \in Requests : Staged(q)' /\ ~Holds(q)'
  BY <1>2 DEF Staged, Outside, Probing, Holds, Operations
<1>4. RequestsFit'
  BY <1>1, <1>2, <1>3 DEF RequestsFit, Shaped
<1>5. QED
  BY <1>1, <1>3, <1>4 DEF LockInv, Exact, Apart, OneOperation

\* At first nothing is in flight.
LEMMA InitLockInv == Init => LockInv
<1> SUFFICES ASSUME Init PROVE LockInv
  OBVIOUS
<1>1. locks = {} /\ req = [p \in Requests |-> NoRequest]
  BY DEF Init
<1>2. \A q \in Requests : Fields \subseteq DOMAIN req[q] /\ req[q].at = "idle" /\ req[q].kind = "none"
  BY <1>1 DEF NoRequest, Fields
<1>3. \A q \in Requests : Staged(q) /\ ~Holds(q)
  BY <1>2 DEF Staged, Outside, Probing, Holds, Operations
<1>4. QED
  BY <1>1, <1>2, <1>3 DEF LockInv, RequestsFit, Shaped, Exact, Apart, OneOperation

\* What a command or the relay does on the VPS is no step of a request.
LEMMA VpsAlone ==
  ASSUME Relay \/ \E p \in Requests : Script(p)
  PROVE  UNCHANGED <<req, locks>>
  BY DEF Relay, RelayPulled, RelayPullFails, RelayRecreates, RelayFinishes, ImagePublished,
         Script, ScriptWipes, ScriptStops, ScriptStarts, ScriptFails

\* A step of a request takes its keys, frees them, or leaves the registry alone.
LEMMA RequestStep ==
  ASSUME RequestsFit, NEW p \in Requests, Arrive(p) \/ Serve(p)
  PROVE  \/ Turns(p) \/ Edit(p) \/ InstallStart(p) \/ Release(p)
         \/ ReinstallLock(p) \/ UpdateLock(p) \/ SelfLock(p)
<1>1. CASE Arrive(p)
  BY <1>1, ProbesTurn, ReinstallTurns, UpdateTurns, SelfTurns DEF Arrive, Probe
<1>2. CASE Serve(p)
  BY <1>2, ProbesTurn, RefusedTurns, SshTurns, InstallTurns, ReinstallTurns, UpdateTurns, SelfTurns
     DEF Serve, Probe, Ssh
<1>3. QED
  BY <1>1, <1>2

\* Only an edit of the row touches another request.
LEMMA OthersStay ==
  ASSUME RequestsFit, NEW p \in Requests, Arrive(p) \/ Serve(p), ~PatchServer(p)
  PROVE  \A q \in Requests \ {p} : req'[q] = req[q]
<1>0. req = [q \in Requests |-> req[q]]
  BY DEF RequestsFit, Shaped
<1>1. CASE Turns(p)
  BY <1>0, <1>1 DEF Turns
<1>2. CASE CreateServer(p) \/ DeleteServer(p) \/ InstallStart(p) \/ Release(p)
  BY <1>0, <1>2 DEF CreateServer, DeleteServer, InstallStart, Release, End, Become
<1>3. CASE ReinstallLock(p) \/ UpdateLock(p) \/ SelfLock(p)
  BY <1>0, <1>3 DEF ReinstallLock, UpdateLock, SelfLock, Lock, Become
<1>4. QED
  BY <1>1, <1>2, <1>3, RequestStep DEF Edit

\* The invariant is inductive.
THEOREM RegistryInductive == Spec => []LockInv
<1>1. ASSUME LockInv, [Next]_vars PROVE LockInv'
  <2>1. CASE UNCHANGED <<req, locks>>
    BY <1>1, <2>1 DEF LockInv, RequestsFit, Shaped, Staged, Exact, Apart, OneOperation, Holds, Keys
  <2>2. ASSUME NEW p \in Requests, Arrive(p) \/ Serve(p) PROVE LockInv'
    BY <1>1, <2>2, RequestStep, TurnKeeps, EditKeeps, InstallStartKeeps, ReleaseKeeps, LockKeeps
       DEF LockInv
  <2>3. CASE Restart
    BY <1>1, <2>3, RestartKeeps
  <2>4. QED
    BY <1>1, <2>1, <2>2, <2>3, VpsAlone DEF Next, vars
<1>2. QED
  BY InitLockInv, <1>1, PTL DEF Spec

\* The registry of active-installs.ts holds the keys of the operations in flight and no
\* other, whichever way each of them ends.
THEOREM RegistryIsExact == Spec => []LocksExact
<1>1. LockInv => LocksExact
  BY ExactIsLocksExact DEF LockInv
<1>2. QED
  BY <1>1, RegistryInductive, PTL

\* No two operations of a row overlap, although each reads the row, and awaits the body,
\* before it asks the registry (routes/servers.ts).
THEOREM OperationsExclude == Spec => []OneOperation
  BY RegistryInductive, PTL DEF LockInv

-----------------------------------------------------------------------------
(* Probes and the operations they saw. *)

\* A probe remembers an operation of its row that held keys when the relay answered;
\* that operation runs still or is over, and it is over once the probe is to write.
Remembers(p) ==
  /\ req[p].at = "asking" => req[p].past = "none"
  /\ req[p].at \in {"answered", "landing"} /\ req[p].past # "none" =>
       LET q == req[p].past IN
       /\ q \in Requests
       /\ Holds(q) \/ req[q].at = "done"
       /\ Holds(q) => /\ req[p].at = "answered"
                      /\ req[q].kind # "install" /\ req[q].row.id = req[p].row.id

Memory == \A p \in Requests : Remembers(p)

\* A step of p that keeps its operation or ends it disturbs no other probe.
LEMMA OthersRemember ==
  ASSUME RequestsFit, Memory, NEW p \in Requests, NEW q \in Requests, q # p,
         \A s \in Requests \ {p} : req'[s] = req[s],
         req[p].at # "done",
         Holds(p) => SameHold(p) \/ (req'[p].at = "done" /\ ~Holds(p)')
  PROVE  Remembers(q)'
<1>1. \A s \in Requests \ {p} : Holds(s)' <=> Holds(s)
  BY DEF Holds
<1>2. Remembers(q) /\ req'[q] = req[q]
  BY DEF Memory
<1>3. CASE req[q].past = p
  BY <1>2, <1>3 DEF Remembers, SameHold
<1>4. CASE req[q].past # p
  BY <1>1, <1>2, <1>4 DEF Remembers
<1>5. QED
  BY <1>3, <1>4

\* What a probe holds of the operations when it starts, sees and is about to write.
LEMMA ProbeRemembers ==
  ASSUME LockInv, Memory, NEW p \in Requests, Probe(p)
  PROVE  Remembers(p)' /\ req[p].at # "done"
<1> USE DEF Become, End, Ended, NoRequest
<1>0. /\ req = [q \in Requests |-> req[q]] /\ Fields \subseteq DOMAIN req[p]
      /\ RequestsFit /\ Remembers(p)
  BY DEF LockInv, RequestsFit, Shaped, Memory
<1>1. ASSUME NEW kind, Loads(p, kind, "asking") PROVE Remembers(p)'
  BY <1>0, <1>1 DEF Loads, Remembers
<1>2. ASSUME req[p].at \in {"asking", "answered"}, NEW status, ProbeWrites(p, status)
      PROVE  Remembers(p)'
  <2>1. CASE End(p)
    BY <1>0, <2>1 DEF Remembers
  <2>2. CASE /\ ~IsServerMutating(req[p].row.id)
             /\ Become(p, [req[p] EXCEPT !.at = "landing", !.val = status])
    <3>1. req'[p].at = "landing" /\ req'[p].past = req[p].past /\ req'[p].row = req[p].row
      BY <1>0, <2>2 DEF Fields
    <3>2. CASE req[p].past = "none"
      BY <3>1, <3>2 DEF Remembers
    <3>3. CASE req[p].past # "none"
      <4>1. req[p].at = "answered" /\ req[p].past \in Requests
        BY <1>0, <1>2, <3>3 DEF Remembers
      <4>2. ~Holds(req[p].past) /\ req[req[p].past].at = "done"
        BY <1>0, <2>2, <3>3, <4>1, RowKey DEF Remembers
      <4>3. req[p].past # p
        BY <4>1, <4>2
      <4>4. req'[req[p].past] = req[req[p].past]
        BY <1>0, <2>2, <4>1, <4>3
      <4>5. ~Holds(req[p].past)' /\ req'[req[p].past].at = "done"
        BY <3>1, <4>2, <4>4, HoldsByPlace DEF Holds
      <4>6. QED
        BY <3>1, <4>1, <4>2, <4>4 DEF Remembers, Holds
    <3>4. QED
      BY <3>2, <3>3
  <2>3. QED
    BY <1>2, <2>1, <2>2 DEF ProbeWrites
<1>3. ASSUME req[p].at = "asking", NEW status,
             Become(p, [req[p] EXCEPT !.at = "answered", !.val = status,
                                      !.past = HolderOf(req[p].row.id)])
      PROVE  Remembers(p)'
  <2>1. /\ req'[p].at = "answered" /\ req'[p].past = HolderOf(req[p].row.id)
        /\ req'[p].row = req[p].row
    BY <1>0, <1>3 DEF Fields
  <2>2. CASE HolderOf(req[p].row.id) = "none"
    BY <2>1, <2>2 DEF Remembers
  <2>3. CASE HolderOf(req[p].row.id) # "none"
    <3> DEFINE holders == {h \in Requests : /\ Holds(h) /\ req[h].row.id = req[p].row.id
                                           /\ req[h].kind # "install"}
    <3>1. HolderOf(req[p].row.id) = IF holders = {} THEN "none" ELSE CHOOSE h \in holders : TRUE
      BY DEF HolderOf
    <3>2. HolderOf(req[p].row.id) \in holders
      <4>1. holders # {}
        BY <2>3, <3>1
      <4>2. (CHOOSE h \in holders : TRUE) \in holders
        BY <4>1
      <4>3. QED
        BY <3>1, <4>1, <4>2
    <3>3. PICK q \in Requests : /\ q = HolderOf(req[p].row.id) /\ Holds(q)
                               /\ req[q].row.id = req[p].row.id /\ req[q].kind # "install"
      BY <3>2
    <3>4. q # p
      BY <1>0, <1>3, <3>3, HoldsByPlace DEF Probing
    <3>5. req'[q] = req[q]
      BY <1>0, <1>3, <3>4
    <3>6. Holds(q)'
      BY <3>3, <3>5 DEF Holds
    <3>7. QED
      BY <2>1, <3>3, <3>5, <3>6 DEF Remembers
  <2>4. QED
    BY <2>2, <2>3
<1>4. ASSUME End(p) PROVE Remembers(p)'
  BY <1>0, <1>4 DEF Remembers
<1>5. CASE TestStart(p) \/ SyncStart(p)
  BY <1>1, <1>5 DEF TestStart, SyncStart, Ready
<1>6. CASE TestNoRelay(p) \/ TestAnswered(p)
  BY <1>2, <1>6 DEF TestNoRelay, TestAnswered, At
<1>7. CASE TestSees(p)
  BY <1>3, <1>7 DEF TestSees, At
<1>8. CASE SyncSees(p)
  BY <1>3, <1>4, <1>8 DEF SyncSees, At, RowIsThere
<1>9. CASE SyncApps(p) \/ StatusLands(p)
  BY <1>2, <1>4, <1>9 DEF SyncApps, StatusLands, At
<1>10. QED
  BY <1>5, <1>6, <1>7, <1>8, <1>9 DEF Probe

\* A request that is no probe and holds nothing is never where a probe is.
LEMMA FreeStep ==
  ASSUME RequestsFit, NEW p \in Requests, Arrive(p) \/ Serve(p), ~Probe(p), ~Holds(p)
  PROVE  req'[p].at \notin Probing /\ req[p].at # "done"
<1> USE DEF Become, RequestsFit, Shaped, Probing
<1>1. req[p].at \in Outside \cup Probing \cup {"loaded"}
  BY HoldsByPlace
<1>2. ASSUME End(p) PROVE req'[p].at \notin Probing
  BY <1>2 DEF End, Ended, NoRequest
<1>3. ASSUME req[p].at = "idle", NEW kind, Loads(p, kind, "loaded") PROVE req'[p].at \notin Probing
  BY <1>3 DEF Loads, NoRequest
<1>4. CASE Edit(p)
  <2>1. req[p].at = "idle" /\ (End(p) \/ req'[p] = Ended)
    BY <1>4 DEF Edit, CreateServer, PatchServer, DeleteServer, Ready
  <2>2. QED
    BY <1>2, <2>1 DEF Ended, NoRequest
<1>5. CASE InstallStart(p) \/ ReinstallLoad(p)
  BY <1>5 DEF InstallStart, ReinstallLoad, Ready, NoRequest
<1>6. CASE UpdateLoad(p) \/ SelfLoad(p)
  BY <1>3, <1>6 DEF UpdateLoad, SelfLoad, Ready
<1>7. CASE LockRefused(p)
  BY <1>2, <1>7 DEF LockRefused
<1>8. CASE ReinstallLock(p) \/ UpdateLock(p) \/ SelfLock(p)
  BY <1>8 DEF ReinstallLock, UpdateLock, SelfLock, Lock, At, Fields
<1>9. CASE Ssh(p) \/ InstallParses(p) \/ InstallCreates(p)
  BY <1>1, <1>9 DEF Ssh, SshFails, SshStarts, SshTimesOut, Release, InstallParses, InstallCreates,
     Ran, Waits, At, Outside
<1>10. CASE ReinstallRan(p) \/ ReinstallPins(p) \/ ReinstallWrites(p)
  BY <1>1, <1>10 DEF ReinstallRan, ReinstallPins, ReinstallWrites, Ran, Waits, At, Outside
<1>11. CASE UpdateInspects(p) \/ UpdatePins(p) \/ UpdateRan(p) \/ UpdateHealth(p) \/ UpdateWrites(p)
  BY <1>1, <1>11 DEF UpdateInspects, UpdatePins, UpdateRan, UpdateHealth, UpdateWrites, Ran, Waits,
     At, Outside
<1>12. CASE \/ SelfProbes(p) \/ SelfUnreachable(p) \/ SelfRefused(p) \/ SelfTriggers(p)
            \/ SelfPullFailed(p) \/ SelfAccepted(p) \/ SelfTimesOut(p)
  BY <1>1, <1>12 DEF SelfProbes, SelfUnreachable, SelfRefused, SelfTriggers, SelfPullFailed,
     SelfAccepted, SelfTimesOut, At, Outside
<1>13. CASE SelfPolls(p) \/ SelfReads(p) \/ SelfAnswers(p) \/ SelfWrites(p)
  BY <1>1, <1>13 DEF SelfPolls, SelfReads, SelfAnswers, SelfWrites, At, Outside
<1>14. QED
  BY <1>4, <1>5, <1>6, <1>7, <1>8, <1>9, <1>10, <1>11, <1>12, <1>13 DEF Arrive, Serve, Probe, Edit

\* An edit of the row marks re-installs alone.
LEMMA PatchRemembers ==
  ASSUME RequestsFit, Memory, NEW p \in Requests, PatchServer(p) PROVE Memory'
<1>1. /\ req[p].at = "idle"
      /\ req' = [q \in Requests |-> IF q = p THEN Ended
                   ELSE IF req[q].kind = "reinstall" /\ req[q].at # "closing"
                        THEN [req[q] EXCEPT !.past = "edited"] ELSE req[q]]
  BY DEF PatchServer, Ready
<1>2. req'[p].at = "done" /\ req'[p].kind = "none" /\ ~Holds(p)
  BY <1>1, HoldsByPlace DEF Ended, NoRequest, Outside
<1>3. \A q \in Requests \ {p} :
        /\ req'[q].at = req[q].at /\ req'[q].kind = req[q].kind /\ req'[q].row = req[q].row
        /\ req[q].at \in Probing => req'[q].past = req[q].past
  BY <1>1 DEF RequestsFit, Shaped, Staged, Probing, Fields
<1>4. \A q \in Requests : Holds(q)' <=> Holds(q)
  BY <1>2, <1>3 DEF Holds, Operations
<1>5. \A q \in Requests \ {p} : Remembers(q)'
  BY <1>1, <1>2, <1>3, <1>4 DEF Memory, Remembers, Probing
<1>6. Remembers(p)'
  BY <1>2 DEF Remembers
<1>7. QED
  BY <1>5, <1>6 DEF Memory

\* No step of a request makes a probe forget.
LEMMA StepRemembers ==
  ASSUME LockInv, Memory, NEW p \in Requests, Arrive(p) \/ Serve(p) PROVE Memory'
<1>1. RequestsFit /\ req = [q \in Requests |-> req[q]]
  BY DEF LockInv, RequestsFit, Shaped
<1>2. CASE PatchServer(p)
  BY <1>1, <1>2, PatchRemembers
<1>3. ASSUME ~PatchServer(p) PROVE \A s \in Requests \ {p} : req'[s] = req[s]
  BY <1>1, <1>3, OthersStay
<1>4. Holds(p) <=> req[p].at \notin Outside \cup Probing \cup {"loaded"}
  BY <1>1, HoldsByPlace
<1>5. ASSUME Holds(p) PROVE Turns(p) \/ Release(p)
  <2>1. ASSUME Edit(p) \/ InstallStart(p) PROVE req[p].at = "idle"
    BY <2>1 DEF Edit, CreateServer, PatchServer, DeleteServer, InstallStart, Ready
  <2>2. ASSUME ReinstallLock(p) \/ UpdateLock(p) \/ SelfLock(p) PROVE req[p].at = "loaded"
    BY <2>2 DEF ReinstallLock, UpdateLock, SelfLock, At
  <2>3. QED
    BY <1>4, <1>1, <1>5, <2>1, <2>2, RequestStep DEF Outside
<1>6. ASSUME Release(p) PROVE req'[p].at = "done" /\ ~Holds(p)'
  BY <1>1, <1>6 DEF Release, End, Become, Ended, NoRequest, Holds, Operations
<1>7. ASSUME Holds(p) PROVE SameHold(p) \/ (req'[p].at = "done" /\ ~Holds(p)')
  BY <1>7, <1>5, <1>6 DEF Turns, SameHold
<1>8. CASE Probe(p)
  <2>1. Remembers(p)' /\ req[p].at # "done"
    BY <1>8, ProbeRemembers
  <2>2. ~PatchServer(p) \/ Memory'
    BY <1>2
  <2>3. ASSUME ~PatchServer(p) PROVE \A q \in Requests \ {p} : Remembers(q)'
    BY <1>1, <1>3, <1>7, <2>1, <2>3, OthersRemember
  <2>4. QED
    BY <2>1, <2>2, <2>3 DEF Memory
<1>9. CASE ~Probe(p) /\ ~PatchServer(p)
  <2>1. ASSUME ~Holds(p) PROVE req'[p].at \notin Probing /\ req[p].at # "done"
    BY <1>1, <1>9, <2>1, FreeStep
  <2>2. ASSUME Holds(p) PROVE req'[p].at \notin Probing /\ req[p].at # "done"
    <3>1. req[p].at # "done"
      BY <1>4, <2>2 DEF Outside
    <3>2. CASE Turns(p)
      BY <2>2, <3>1, <3>2 DEF Turns, Staged, Holds, Operations
    <3>3. CASE Release(p)
      BY <1>6, <3>1, <3>3 DEF Probing
    <3>4. QED
      BY <1>5, <2>2, <3>2, <3>3
  <2>3. req'[p].at \notin Probing /\ req[p].at # "done"
    BY <2>1, <2>2
  <2>4. Remembers(p)'
    BY <2>3 DEF Remembers, Probing
  <2>5. QED
    BY <1>1, <1>3, <1>7, <1>9, <2>3, <2>4, OthersRemember DEF Memory
<1>10. QED
  BY <1>2, <1>8, <1>9

\* The invariant with the probes' memory is inductive.
THEOREM MemoryInductive == Spec => [](LockInv /\ Memory)
<1>1. ASSUME Init PROVE Memory
  <2>1. \A q \in Requests : req[q].at = "idle"
    BY <1>1 DEF Init, NoRequest
  <2>2. QED
    BY <2>1 DEF Memory, Remembers
<1>2. ASSUME LockInv, Memory, [Next]_vars PROVE Memory'
  <2>1. CASE UNCHANGED req
    BY <1>2, <2>1 DEF Memory, Remembers, Holds
  <2>2. CASE Restart
    <3>1. \A q \in Requests : req'[q].at \in Outside
      BY <2>2 DEF Restart, Ended, NoRequest, Outside
    <3>2. QED
      BY <3>1 DEF Memory, Remembers, Outside
  <2>3. QED
    BY <1>2, <2>1, <2>2, StepRemembers, VpsAlone DEF Next, vars
<1>3. QED
  BY <1>1, <1>2, RegistryInductive, PTL DEF Spec

\* A probe that saw the relay while an operation worked on it writes only when that
\* operation is over (server-status.ts asks the registry before it writes).
THEOREM ProbesDoNotFlicker == Spec => NoFlicker
<1>1. LockInv /\ Memory /\ [Next]_vars =>
        [\A p \in Requests :
           req[p].at = "landing" /\ req'[p].at = "done" /\ req[p].past # "none" /\ restarts' = restarts
           => ~Holds(req[p].past)]_vars
  BY DEF Memory, Remembers
<1>2. QED
  BY MemoryInductive, <1>1, PTL DEF Spec, NoFlicker

-----------------------------------------------------------------------------
(* Self-updates that succeed. *)

\* A record of success names a relay that says what it runs.
UpdateFits ==
  /\ {"env", "token", "rev", "up"} \subseteq DOMAIN box
  /\ {"phase", "by", "state", "owner", "prev", "target"} \subseteq DOMAIN upd
  /\ latest \in Revisions
  /\ upd.phase \in {"accepted", "recreating"} => upd.target \in Revisions
  /\ upd.state = "succeeded" => box.rev # "none"

\* Only the VPS and the trigger move it.
LEMMA UpdateFitsStep == ASSUME UpdateFits, [Next]_vars PROVE UpdateFits'
<1> USE DEF UpdateFits, Revisions
<1>1. CASE UNCHANGED <<box, upd, latest>>
  BY <1>1
<1>2. ASSUME NEW p \in Requests, Script(p) PROVE UpdateFits'
  BY <1>2 DEF Script, ScriptWipes, ScriptStops, ScriptStarts, ScriptFails
<1>3. CASE Relay
  <2>0. CASE RelayPulled
    <3>1. /\ upd'.target = latest /\ upd'.state = "in_progress"
          /\ {"phase", "by", "state", "owner", "prev", "target"} \subseteq DOMAIN upd'
          /\ UNCHANGED <<box, latest>>
      BY <2>0 DEF RelayPulled
    <3>2. QED
      BY <3>1
  <2>1. CASE RelayPullFails
    BY <1>3, <2>1 DEF RelayPullFails
  <2>2. CASE RelayRecreates \/ ImagePublished
    BY <1>3, <2>2 DEF RelayRecreates, ImagePublished
  <2>3. CASE RelayFinishes
    BY <1>3, <2>3 DEF RelayFinishes
  <2>4. QED
    BY <1>3, <2>0, <2>1, <2>2, <2>3 DEF Relay
<1>4. ASSUME NEW p \in Requests, SelfTriggers(p) PROVE UpdateFits'
  BY <1>4 DEF SelfTriggers
<1>5. ASSUME NEW p \in Requests, Arrive(p) \/ Serve(p), ~SelfTriggers(p)
      PROVE  UNCHANGED <<box, upd, latest>>
  <2> USE DEF vps
  <2>1. CASE Probe(p) \/ Edit(p)
    BY <2>1 DEF Probe, TestStart, TestNoRelay, TestSees, TestAnswered, SyncStart, SyncSees, SyncApps,
       StatusLands, Edit, CreateServer, PatchServer, DeleteServer
  <2>2. CASE InstallStart(p) \/ InstallParses(p) \/ InstallCreates(p) \/ Ssh(p)
    BY <2>2 DEF InstallStart, InstallParses, InstallCreates, Ran, Ssh, SshFails, SshStarts,
       SshTimesOut, Release
  <2>3. CASE \/ ReinstallLoad(p) \/ ReinstallLock(p) \/ LockRefused(p) \/ ReinstallRan(p)
             \/ ReinstallPins(p) \/ ReinstallWrites(p)
    BY <2>3 DEF ReinstallLoad, ReinstallLock, LockRefused, ReinstallRan, ReinstallPins,
       ReinstallWrites, Ran
  <2>4. CASE \/ UpdateLoad(p) \/ UpdateLock(p) \/ UpdateInspects(p) \/ UpdatePins(p) \/ UpdateRan(p)
             \/ UpdateHealth(p) \/ UpdateWrites(p)
    BY <2>4 DEF UpdateLoad, UpdateLock, UpdateInspects, UpdatePins, UpdateRan, UpdateHealth,
       UpdateWrites, Ran
  <2>5. CASE \/ SelfLoad(p) \/ SelfLock(p) \/ SelfProbes(p) \/ SelfUnreachable(p) \/ SelfRefused(p)
             \/ SelfPullFailed(p) \/ SelfAccepted(p) \/ SelfTimesOut(p) \/ SelfPolls(p)
             \/ SelfReads(p) \/ SelfAnswers(p) \/ SelfWrites(p)
    BY <2>5 DEF SelfLoad, SelfLock, SelfProbes, SelfUnreachable, SelfRefused, SelfPullFailed,
       SelfAccepted, SelfTimesOut, SelfPolls, SelfReads, SelfAnswers, SelfWrites
  <2>6. QED
    BY <1>5, <2>1, <2>2, <2>3, <2>4, <2>5 DEF Arrive, Serve, Probe
<1>6. CASE Restart
  BY <1>1, <1>6 DEF Restart
<1>7. QED
  BY <1>1, <1>2, <1>3, <1>4, <1>5, <1>6 DEF Next, vars

\* Only a poll and the record tell of a success.
LEMMA SuccessTold ==
  ASSUME RequestsFit, NEW p \in Requests, Arrive(p) \/ Serve(p),
         NEW q \in Requests, req[q].at # "success", req'[q].at = "success"
  PROVE  q = p /\ (SelfPolls(p) \/ SelfReads(p))
<1>0. /\ req = [s \in Requests |-> req[s]]
      /\ Fields \subseteq DOMAIN req[p]
  BY DEF RequestsFit, Shaped
<1>1. ASSUME NEW r, Become(p, r), r.at # "success" PROVE FALSE
  BY <1>0, <1>1 DEF Become
<1>2. ASSUME End(p) \/ Close(p) PROVE FALSE
  BY <1>1, <1>2 DEF End, Close, Ended, NoRequest
<1>3. ASSUME NEW at, at # "success", Goto(p, at) PROVE FALSE
  BY <1>0, <1>1, <1>3 DEF Goto, Fields
<1>4. ASSUME NEW kind, NEW at, at # "success", Loads(p, kind, at) PROVE FALSE
  BY <1>1, <1>4 DEF Loads, NoRequest
<1>5. ASSUME NEW a, NEW at, at # "success", Lock(p, a, at) PROVE FALSE
  BY <1>0, <1>1, <1>5 DEF Lock, Fields
<1>6. ASSUME NEW status, ProbeWrites(p, status) PROVE FALSE
  BY <1>0, <1>1, <1>2, <1>6 DEF ProbeWrites, Fields
<1>7. ASSUME NEW token, Parsed(p, token) PROVE FALSE
  BY <1>0, <1>1, <1>2, <1>7 DEF Parsed, Fields
<1>8. CASE Probe(p)
  <2>1. CASE TestSees(p) \/ SyncSees(p)
    BY <1>0, <1>1, <1>2, <2>1 DEF TestSees, SyncSees, Fields
  <2>2. QED
    BY <1>2, <1>4, <1>6, <1>8, <2>1
       DEF Probe, TestStart, TestNoRelay, TestAnswered, SyncStart, SyncApps, StatusLands
<1>9. CASE Edit(p)
  <2>1. CASE PatchServer(p)
    <3>1. req' = [s \in Requests |-> IF s = p THEN Ended
                   ELSE IF req[s].kind = "reinstall" /\ req[s].at # "closing"
                        THEN [req[s] EXCEPT !.past = "edited"] ELSE req[s]]
      BY <2>1 DEF PatchServer
    <3>2. Fields \subseteq DOMAIN req[q]
      BY DEF RequestsFit, Shaped
    <3>3. QED
      BY <3>1, <3>2 DEF Ended, NoRequest, Fields
  <2>2. QED
    BY <1>2, <1>9, <2>1 DEF Edit, CreateServer, DeleteServer
<1>10. CASE InstallStart(p) \/ InstallParses(p) \/ InstallCreates(p)
  BY <1>0, <1>1, <1>2, <1>10 DEF InstallStart, InstallParses, InstallCreates, NoRequest, Fields
<1>11. CASE Ssh(p)
  BY <1>2, <1>3, <1>11 DEF Ssh, SshFails, SshStarts, SshTimesOut, Release
<1>12. CASE \/ ReinstallLoad(p) \/ ReinstallLock(p) \/ LockRefused(p) \/ ReinstallPins(p) \/ ReinstallWrites(p)
  BY <1>1, <1>2, <1>5, <1>7, <1>12
     DEF ReinstallLoad, ReinstallLock, LockRefused, ReinstallPins, ReinstallWrites, NoRequest
<1>13. CASE ReinstallRan(p)
  BY <1>0, <1>1, <1>7, <1>13 DEF ReinstallRan, Fields
<1>14. CASE UpdateLoad(p) \/ UpdateLock(p) \/ UpdateInspects(p) \/ UpdatePins(p) \/ UpdateWrites(p)
  BY <1>2, <1>3, <1>4, <1>5, <1>14
     DEF UpdateLoad, UpdateLock, UpdateInspects, UpdatePins, UpdateWrites, Inspected
<1>15. CASE UpdateRan(p)
  BY <1>0, <1>1, <1>2, <1>15 DEF UpdateRan, Fields
<1>16. CASE UpdateHealth(p)
  <2>1. PICK r : /\ Become(p, r)
                 /\ \/ r = [req[p] EXCEPT !.at = "writing", !.n = 0, !.val = "online"]
                    \/ r = [req[p] EXCEPT !.n = @ + 1]
                    \/ r = [req[p] EXCEPT !.at = "writing", !.n = 0]
    BY <1>16 DEF UpdateHealth
  <2>2. req[p].at = "health"
    BY <1>16 DEF UpdateHealth, At
  <2>3. QED
    BY <1>0, <1>1, <2>1, <2>2 DEF Fields
<1>17. CASE \/ SelfLoad(p) \/ SelfLock(p) \/ SelfRefused(p) \/ SelfTriggers(p) \/ SelfPullFailed(p)
            \/ SelfAnswers(p)
  BY <1>2, <1>3, <1>4, <1>5, <1>17
     DEF SelfLoad, SelfLock, SelfRefused, SelfTriggers, SelfPullFailed, SelfAnswers
<1>18. CASE SelfProbes(p) \/ SelfUnreachable(p) \/ SelfAccepted(p) \/ SelfTimesOut(p)
  BY <1>0, <1>1, <1>18 DEF SelfProbes, SelfUnreachable, SelfAccepted, SelfTimesOut, Reports, Fields
<1>19. CASE SelfWrites(p)
  BY <1>0, <1>1, <1>2, <1>19 DEF SelfWrites, Fields
<1>20. CASE SelfPolls(p) \/ SelfReads(p)
  <2>1. PICK r : Become(p, r)
    BY <1>20 DEF SelfPolls, SelfReads
  <2>2. q = p
    BY <1>0, <2>1 DEF Become
  <2>3. QED
    BY <1>20, <2>2
<1>21. QED
  BY <1>8, <1>9, <1>10, <1>11, <1>12, <1>13, <1>14, <1>15, <1>16, <1>17, <1>18, <1>19, <1>20
     DEF Arrive, Serve, Probe

\* A poll and a record that tell of a success tell of what the relay runs.
LEMMA SuccessIsReal ==
  ASSUME RequestsFit, UpdateFits, NEW p \in Requests, SelfPolls(p) \/ SelfReads(p),
         req'[p].at = "success"
  PROVE  /\ box.up
         /\ req[p].target # "none" => box.rev = req[p].target
         /\ req[p].target = "none" /\ req[p].prev # "none" => box.rev # req[p].prev
<1>0. /\ req = [s \in Requests |-> req[s]]
      /\ Fields \subseteq DOMAIN req[p]
  BY DEF RequestsFit, Shaped
<1>1. CASE SelfPolls(p)
  <2>1. req[p].at = "polling"
    BY <1>1 DEF SelfPolls, At
  <2>2. PICK status \in HealthAnswers(req[p].row) :
          \/ status = "online" /\ Settles(p, box.rev)
          \/ Become(p, [req[p] EXCEPT !.n = @ + 1])
          \/ Become(p, [req[p] EXCEPT !.at = "unsettled", !.n = 0, !.val = status])
    BY <1>1 DEF SelfPolls
  <2>3. ~Become(p, [req[p] EXCEPT !.n = @ + 1])
    BY <1>0, <2>1 DEF Become, Fields
  <2>4. status = "online" /\ Settles(p, box.rev)
    BY <1>0, <2>2, <2>3 DEF Become, Fields
  <2>5. box.up
    BY <2>2, <2>4 DEF HealthAnswers
  <2>6. QED
    BY <2>4, <2>5 DEF Settles
<1>2. CASE SelfReads(p)
  <2>1. PICK outcome \in Outcomes(p) :
          \/ outcome = "succeeded"
          \/ Become(p, [req[p] EXCEPT !.at = "failed", !.val = "record"])
          \/ Become(p, [req[p] EXCEPT !.at = "failed", !.val = "none"])
    BY <1>2 DEF SelfReads
  <2>2. outcome = "succeeded"
    BY <1>0, <2>1 DEF Become, Fields
  <2>4. box.up /\ Outcome(p) = "succeeded"
    BY <2>1, <2>2 DEF Outcomes
  <2>5. upd.state = "succeeded" /\ box.rev # "none"
    BY <2>4 DEF Outcome, UpdateFits
  <2> DEFINE live == IF box.rev # "none" THEN box.rev ELSE upd.target
  <2>6. IF req[p].target # "none" THEN live = req[p].target ELSE live # req[p].prev
    BY <2>4, <2>5 DEF Outcome
  <2>7. QED
    BY <2>4, <2>5, <2>6
<1>3. QED
  BY <1>1, <1>2

\* A self-update is a success only when the relay runs what was expected, or another
\* revision than before (relay-self-update.ts, routes/servers.ts).
THEOREM UpdatesAreReal == Spec => UpdateIsReal
<1>1. Init => UpdateFits
  BY DEF Init, UpdateFits, NoUpdate, Revisions
<1>2. UpdateFits /\ [Next]_vars => UpdateFits'
  BY UpdateFitsStep
<1>3. ASSUME RequestsFit, UpdateFits, Next, NEW p \in Requests,
             req[p].at # "success", req'[p].at = "success"
      PROVE  /\ box.up
             /\ req[p].target # "none" => box.rev = req[p].target
             /\ req[p].target = "none" /\ req[p].prev # "none" => box.rev # req[p].prev
  <2>1. ASSUME NEW q \in Requests, Arrive(q) \/ Serve(q)
        PROVE  q = p /\ (SelfPolls(p) \/ SelfReads(p))
    BY <1>3, <2>1, SuccessTold
  <2>2. ~Restart
    BY <1>3 DEF Restart, Ended, NoRequest
  <2>3. \E q \in Requests : Arrive(q) \/ Serve(q)
    BY <1>3, <2>2, VpsAlone DEF Next
  <2>4. QED
    BY <1>3, <2>1, <2>3, SuccessIsReal
<1>4. LockInv /\ UpdateFits /\ [Next]_vars =>
        [\A p \in Requests :
           req[p].at # "success" /\ req'[p].at = "success"
           => /\ box.up
              /\ req[p].target # "none" => box.rev = req[p].target
              /\ req[p].target = "none" /\ req[p].prev # "none" => box.rev # req[p].prev]_vars
  BY <1>3 DEF LockInv
<1>5. QED
  BY <1>1, <1>2, <1>4, RegistryInductive, PTL DEF Spec, UpdateIsReal

=============================================================================
