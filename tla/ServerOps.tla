------------------------------ MODULE ServerOps ------------------------------
(***************************************************************************)
(* The requests about one server, their interleavings on the one backend   *)
(* process, the VPS they work on, and restarts of the process.             *)
(***************************************************************************)
EXTENDS RelaySelfUpdate

\* The server is not registered, registered without a relay, or with one whose token
\* the panel has or lacks; the relay is not installed, or too old to name its revision.
Init ==
  /\ \E url \in BOOLEAN, token \in {0, 1} :
       row \in {NoRow, [NoRow EXCEPT !.id = 1, !.url = url, !.token = token]}
  /\ row.token = 1 => row.url
  /\ rows = row.id
  /\ box \in {[env |-> 0, token |-> 0, rev |-> "none", up |-> FALSE]} \cup
             {[env |-> 1, token |-> 1, rev |-> r, up |-> TRUE] : r \in {"old", "none"}}
  /\ row.url => box.up
  /\ tokens = 1
  /\ script = [p \in Requests |-> NoScript]
  /\ upd = NoUpdate
  /\ latest = "old"
  /\ locks = {}
  /\ req = [p \in Requests |-> NoRequest]
  /\ restarts = 0

\* The process dies: locks and requests are gone, commands and the relay go on.
Restart ==
  /\ restarts < MaxRestarts
  /\ restarts' = restarts + 1
  /\ locks' = {}
  /\ req' = [p \in Requests |-> IF req[p].at = "idle" THEN NoRequest ELSE Ended]
  /\ script' = [p \in Requests |-> IF script[p].at \in {"ok", "failed"} THEN NoScript ELSE script[p]]
  /\ UNCHANGED <<database, box, tokens, upd, latest>>

\* A request that has begun goes on by itself.
Serve(p) ==
  \/ TestNoRelay(p) \/ TestSees(p) \/ TestAnswered(p) \/ SyncSees(p) \/ SyncApps(p)
  \/ StatusLands(p) \/ Ssh(p)
  \/ InstallParses(p) \/ InstallCreates(p)
  \/ ReinstallLock(p) \/ LockRefused(p) \/ ReinstallRan(p) \/ ReinstallPins(p) \/ ReinstallWrites(p)
  \/ UpdateLock(p) \/ UpdateInspects(p) \/ UpdatePins(p) \/ UpdateRan(p) \/ UpdateHealth(p)
  \/ UpdateWrites(p)
  \/ SelfLock(p) \/ SelfProbes(p) \/ SelfUnreachable(p) \/ SelfRefused(p) \/ SelfTriggers(p)
  \/ SelfPullFailed(p) \/ SelfAccepted(p) \/ SelfTimesOut(p) \/ SelfPolls(p) \/ SelfReads(p)
  \/ SelfAnswers(p) \/ SelfWrites(p)

Arrive(p) ==
  \/ TestStart(p) \/ SyncStart(p) \/ Edit(p)
  \/ InstallStart(p) \/ ReinstallLoad(p) \/ UpdateLoad(p) \/ SelfLoad(p)

Next ==
  \/ \E p \in Requests : Arrive(p) \/ Serve(p) \/ Script(p)
  \/ Relay
  \/ Restart

Spec == Init /\ [][Next]_vars

(***************************************************************************)
(* SSH commands, fetches and health polls carry timeouts and Node runs     *)
(* every ready callback, so each request goes on.  Nothing makes a request *)
(* arrive, a command on the VPS end, or the relay answer.                  *)
(***************************************************************************)
FairSpec == Spec /\ \A p \in Requests : WF_vars(Serve(p))

-----------------------------------------------------------------------------

Places == {"idle", "asking", "answered", "landing", "loaded", "ssh", "inspect", "docker", "running",
           "pinning", "writing", "health", "probing", "trigger", "sent", "polling", "unsettled",
           "record", "success", "failing", "failed", "closing", "done"}
Tokens == 0..tokens
Rows == [id : 0..rows, url : BOOLEAN, token : Tokens, status : Statuses, pinned : BOOLEAN]

\* What the variables hold: tokens are ones that were generated, ids ones that were
\* given, and every key in the registry is one an operation can take.
TypeOK ==
  /\ rows \in Nat /\ tokens \in Nat /\ restarts \in 0..MaxRestarts
  /\ row \in Rows
  /\ box \in [env : Tokens, token : Tokens, rev : Revisions \cup {"none"}, up : BOOLEAN]
  /\ script \in [Requests -> [at : ScriptStages \cup {"none"}, op : {"none", "install", "docker"},
                              token : Tokens]]
  /\ upd \in [phase : UpdatePhases, by : Requests \cup {"none"}, state : RecordStates,
              owner : Requests \cup {"none"}, prev : Revisions \cup {"none"},
              target : Revisions \cup {"none"}]
  /\ latest \in Revisions
  /\ \A k \in locks : \E op \in Operations, i \in 0..rows, a \in Actors : k \in KeysOf(op, i, a)
  /\ req \in [Requests -> [kind : Kinds \cup {"none"}, at : Places, actor : Actors \cup {"none"},
              row : Rows, flag : BOOLEAN, val : Statuses \cup {"none", "record"},
              prev : Revisions \cup {"none"}, target : Revisions \cup {"none"}, n : Nat,
              past : Requests \cup {"none", "edited"}]]

\* The registry holds exactly the keys of the operations that are in flight: every way
\* out of an operation frees all of its keys, and none frees another's.
LocksExact == locks = UNION {Keys(p) : p \in {q \in Requests : Holds(q)}}

\* No two operations of one row are past their locks at once, although the row is read,
\* and the body awaited, before the registry is asked.
OneOperation ==
  \A p, q \in Requests :
    /\ Holds(p) /\ Holds(q) /\ p # q
    /\ req[p].kind # "install" /\ req[q].kind # "install"
    => req[p].row.id # req[q].row.id

\* What a probe saw of a relay that an operation was working on is never written while
\* that operation still runs, however late the answer arrives.
NoFlicker ==
  [][\A p \in Requests :
       req[p].at = "landing" /\ req'[p].at = "done" /\ req[p].past # "none" /\ restarts' = restarts
       => ~Holds(req[p].past)]_vars

\* A re-install that is reported done leaves the row with the token its installer
\* printed, whatever the row held, whoever else re-installed the server since it was
\* loaded and whether or not a rotation was asked for.  Unless somebody edited the row
\* since then, or it fell back to an older token: the one a re-install overtaken by an
\* edit wrote.
TokenIsTheInstallers ==
  [][\A p \in Requests :
       /\ At(p, "reinstall", "writing") /\ ReinstallWrites(p) /\ RowIsThere(p)
       /\ req[p].past # "edited" /\ row.token >= req[p].row.token
       => row'.token = req[p].n]_vars

\* A self-update is answered as a success only when the relay runs the expected
\* revision, or, where none is known, another than before.
UpdateIsReal ==
  [][\A p \in Requests :
       req[p].at # "success" /\ req'[p].at = "success"
       => /\ box.up
          /\ req[p].target # "none" => box.rev = req[p].target
          /\ req[p].target = "none" /\ req[p].prev # "none" => box.rev # req[p].prev]_vars

\* An outcome taken from the relay's record is that of this attempt, and of no other, as
\* long as the host keeps its first registration: self-updates of two registrations have
\* different keys, and one may read the other's record.
RecordIsOwn ==
  [][\A p \in Requests :
       rows <= 1 /\ req[p].val # "record" /\ req'[p].val = "record" => upd.owner = p]_vars

\* Every request that began is answered, and its keys with it: requests being finite in
\* number, there is always a later moment at which none is in flight.
EveryRequestEnds == []<>(\A p \in Requests : req[p].at \in {"idle", "done"})

=============================================================================
