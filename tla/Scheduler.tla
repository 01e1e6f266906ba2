----------------------------- MODULE Scheduler ------------------------------
(***************************************************************************)
(* Scheduled deploys: entries are created and cancelled by requests, and   *)
(* checkScheduled runs the due ones, one pass at a time, every minute.  An *)
(* action of a pass is one database call; when it fails the pass throws,   *)
(* the process logs the rejection, and the rest of the batch is left for a *)
(* later pass.  A removed server takes its entries with it, so that a call *)
(* about one of them fails.  A started deploy is the lifecycle's part.     *)
(***************************************************************************)
EXTENDS Naturals, FiniteSets

CONSTANTS
  Entries,      \* ScheduledDeploy rows that may be created
  MaxCrashes,   \* bound: restarts of the backend process
  MaxFaults     \* bound: database calls that fail

ASSUME SchedulerConstants ==
  /\ IsFiniteSet(Entries)
  /\ MaxCrashes \in Nat
  /\ MaxFaults \in Nat

VARIABLES
  entry,     \* status of each entry
  due,       \* entries whose time has come
  linked,    \* entries that carry the id of their deploy
  deploys,   \* Deploy rows created for each entry
  started,   \* entries whose deploy is streaming, or was
  cancel,    \* where the request that cancels each entry is
  pc,        \* where the pass is
  batch,     \* the entries its query returned that it has not reached
  current,   \* the entry it works on, if any
  crashes,
  faults

table == <<entry, linked, deploys, started>>
passing == <<pc, batch, current>>
vars == <<entry, due, linked, deploys, started, cancel, pc, batch, current, crashes, faults>>

Statuses == {"none", "pending", "triggered", "cancelled", "removed"}
Cancels == {"idle", "read", "ok", "refused", "failed"}

TypeOK ==
  /\ entry \in [Entries -> Statuses]
  /\ due \in SUBSET Entries
  /\ linked \in SUBSET Entries
  /\ deploys \in [Entries -> Nat]
  /\ started \in SUBSET Entries
  /\ cancel \in [Entries -> Cancels]
  /\ pc \in {"idle", "mark", "create", "link", "start"}
  /\ batch \in SUBSET Entries
  /\ current \in SUBSET Entries
  /\ crashes \in 0..MaxCrashes
  /\ faults \in 0..MaxFaults

Init ==
  /\ entry = [e \in Entries |-> "none"]
  /\ due = {}
  /\ linked = {}
  /\ deploys = [e \in Entries |-> 0]
  /\ started = {}
  /\ cancel = [e \in Entries |-> "idle"]
  /\ pc = "idle"
  /\ batch = {}
  /\ current = {}
  /\ crashes = 0
  /\ faults = 0

Fault == faults < MaxFaults /\ faults' = faults + 1
NoFault == UNCHANGED faults
Gone(S) == \E e \in S : entry[e] = "removed"
Lands(S) == NoFault /\ ~Gone(S)
Throws(S) == Fault \/ (NoFault /\ Gone(S))
SetEntry(e, status) == entry' = [entry EXCEPT ![e] = status]
Answer(e, answer) == cancel' = [cancel EXCEPT ![e] = answer]

-----------------------------------------------------------------------------
(* The requests. *)

\* Only a future time is accepted, so a new entry is not due.
Schedule(e) ==
  /\ entry[e] = "none"
  /\ SetEntry(e, "pending")
  /\ UNCHANGED <<due, linked, deploys, started, cancel, passing, crashes, faults>>

\* The entry is loaded; anything but a pending one is a 404.
CancelRead(e) ==
  /\ entry[e] # "none"
  /\ cancel[e] \in {"idle", "failed"}
  /\ Answer(e, IF entry[e] = "pending" THEN "read" ELSE "refused")
  /\ UNCHANGED <<table, due, passing, crashes, faults>>

\* Mutant: the write trusts the status it loaded.
CancelWriteUnguarded(e) ==
  /\ cancel[e] = "read"
  /\ SetEntry(e, "cancelled") /\ Answer(e, "ok")
  /\ UNCHANGED <<due, linked, deploys, started, passing, crashes, faults>>

\* Mutant: the status column is a plain string, and the write misspells it.
CancelWriteMisspelt(e) ==
  /\ cancel[e] = "read"
  /\ entry[e] = "pending" /\ SetEntry(e, "canceled") /\ Answer(e, "ok")
  /\ UNCHANGED <<due, linked, deploys, started, passing, crashes, faults>>

\* The write repeats the status in its where clause; no row is a 404 again.
CancelWrite(e) ==
  /\ cancel[e] = "read"
  /\ \/ NoFault /\ entry[e] = "pending" /\ SetEntry(e, "cancelled") /\ Answer(e, "ok")
     \/ NoFault /\ entry[e] # "pending" /\ UNCHANGED entry /\ Answer(e, "refused")
     \/ Fault /\ UNCHANGED entry /\ Answer(e, "failed")
  /\ UNCHANGED <<due, linked, deploys, started, passing, crashes>>

-----------------------------------------------------------------------------
(* checkScheduled. *)

PassAt(here) == pc = here
PassEnds == pc' = "idle" /\ batch' = {} /\ current' = {}
Found(found) == pc' = "mark" /\ batch' = found /\ UNCHANGED current

\* Mutant: entries that were marked but have no deploy yet are tried again.
CheckQueryRetries ==
  /\ PassAt("idle")
  /\ LET found == {e \in due : \/ entry[e] = "pending"
                               \/ entry[e] = "triggered" /\ e \notin linked}
     IN  found # {} /\ Found(found)
  /\ UNCHANGED <<table, due, cancel, crashes, faults>>

\* The query; one that fails or finds nothing changes nothing.
CheckQuery ==
  /\ PassAt("idle")
  /\ LET found == {e \in due : entry[e] = "pending"}
     IN  found # {} /\ Found(found)
  /\ UNCHANGED <<table, due, cancel, crashes, faults>>

\* Mutant: the whole batch is marked at once.
CheckMarkAll ==
  /\ PassAt("mark")
  /\ \E e \in batch :
       /\ entry' = [x \in Entries |-> IF x \in batch THEN "triggered" ELSE entry[x]]
       /\ pc' = "create" /\ batch' = batch \ {e} /\ current' = {e}
  /\ UNCHANGED <<due, linked, deploys, started, cancel, crashes, faults>>

\* Mutant: a mark that fails is tried again until it lands.
CheckMarkRetries ==
  /\ PassAt("mark")
  /\ \E e \in batch :
       /\ Lands({e}) /\ SetEntry(e, "triggered")
       /\ pc' = "create" /\ batch' = batch \ {e} /\ current' = {e}
  /\ UNCHANGED <<due, linked, deploys, started, cancel, crashes>>

\* The next entry, in the order the database returned them, is marked by its id
\* alone.
CheckMark ==
  /\ PassAt("mark")
  /\ \E e \in batch :
       \/ /\ Lands({e}) /\ SetEntry(e, "triggered")
          /\ pc' = "create" /\ batch' = batch \ {e} /\ current' = {e}
       \/ Throws({e}) /\ UNCHANGED entry /\ PassEnds
  /\ UNCHANGED <<due, linked, deploys, started, cancel, crashes>>

\* The app is found or created, then the Deploy row; either call may fail.
CheckCreate ==
  /\ PassAt("create")
  /\ \/ /\ Lands(current)
        /\ deploys' = [e \in Entries |-> IF e \in current THEN deploys[e] + 1 ELSE deploys[e]]
        /\ pc' = "link" /\ UNCHANGED <<batch, current>>
     \/ Throws(current) /\ UNCHANGED deploys /\ PassEnds
  /\ UNCHANGED <<entry, due, linked, started, cancel, crashes>>

CheckLink ==
  /\ PassAt("link")
  /\ \/ /\ Lands(current) /\ linked' = linked \cup current
        /\ pc' = "start" /\ UNCHANGED <<batch, current>>
     \/ Throws(current) /\ UNCHANGED linked /\ PassEnds
  /\ UNCHANGED <<entry, due, deploys, started, cancel, crashes>>

\* The card is marked and the stream starts, not awaited.
CheckStart ==
  /\ PassAt("start")
  /\ \/ /\ Lands(current)
        /\ started' = started \cup current
        /\ current' = {} /\ UNCHANGED batch
        /\ pc' = IF batch = {} THEN "idle" ELSE "mark"
     \/ Throws(current) /\ UNCHANGED started /\ PassEnds
  /\ UNCHANGED <<entry, due, linked, deploys, cancel, crashes>>

Check == CheckQuery \/ CheckMark \/ CheckCreate \/ CheckLink \/ CheckStart

-----------------------------------------------------------------------------
(* Time, removed servers and restarts. *)

BecomesDue(e) ==
  /\ entry[e] \notin {"none", "removed"} /\ e \notin due
  /\ due' = due \cup {e}
  /\ UNCHANGED <<table, cancel, passing, crashes, faults>>

\* The entry's server is deleted, and the delete cascades to the entry.
RemoveServer(e) ==
  /\ entry[e] \notin {"none", "removed"}
  /\ SetEntry(e, "removed")
  /\ UNCHANGED <<due, linked, deploys, started, cancel, passing, crashes, faults>>

\* The pass and the requests in flight are gone; the rows stay.
Restart ==
  /\ crashes < MaxCrashes
  /\ crashes' = crashes + 1
  /\ PassEnds
  /\ cancel' = [e \in Entries |-> IF cancel[e] = "read" THEN "failed" ELSE cancel[e]]
  /\ UNCHANGED <<table, due, faults>>

Next ==
  \/ \E e \in Entries : Schedule(e) \/ CancelRead(e) \/ CancelWrite(e)
                      \/ BecomesDue(e) \/ RemoveServer(e)
  \/ Check
  \/ Restart

Spec == Init /\ [][Next]_vars

-----------------------------------------------------------------------------
(* Safety. *)

\* An entry's deploy is created at most once, whatever fails or restarts between
\* its mark, its create and its link (scheduler.ts marks before it creates).
RunsAtMostOnce == \A e \in Entries : deploys[e] <= 1

\* A failure loses at most the entry it hits: the rest of the batch stays pending
\* for a later pass (scheduler.ts marks each entry only when it reaches it).
Lost == {e \in Entries : entry[e] = "triggered" /\ e \notin started \cup current}
LossIsBounded == Cardinality(Lost) <= crashes + faults

\* A cancel is answered with success only while no deploy of the entry exists; one
\* that comes after the mark is refused (routes/scheduled.ts).
CancelIsTimely ==
  [][\A e \in Entries : cancel[e] = "read" /\ cancel'[e] = "ok"
                        => entry[e] = "pending" /\ deploys[e] = 0]_vars

-----------------------------------------------------------------------------
(* Liveness. *)

\* No due entry stays pending: neither a removed entry of the same batch nor a
\* failed call starves it.
DueEntriesAreTaken ==
  \A e \in Entries : entry[e] = "pending" /\ e \in due ~> entry[e] # "pending"

-----------------------------------------------------------------------------
(* The contract. *)

Contract == INSTANCE ScheduleContract WITH status <- entry

\* Whatever fails, restarts or runs late, each entry goes the way the contract allows,
\* and its deploy is made once at most, after it was taken.
KeepsContract == Contract!ContractSpec

-----------------------------------------------------------------------------
(* What the repository says and the code does not do. *)

\* docs/architecture.md:86: an entry is `pending`, then `triggered` or `cancelled`.  After
\* a cancel was answered with success, no Deploy row is created for the entry.
CancelledDoesNotRun ==
  [][\A e \in Entries : cancel[e] = "ok" => deploys'[e] = deploys[e]]_vars

=============================================================================
