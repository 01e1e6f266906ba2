--------------------------- MODULE SchedulerProofs --------------------------
(***************************************************************************)
(* Proofs about the scheduler: an entry's deploy is created at most once,  *)
(* a cancel is confirmed only while there is none, failures lose no more   *)
(* entries than there are of them, and the scheduler implements its        *)
(* contract, for any set of entries and any number of restarts and failed  *)
(* calls; a page in front of it changes none of this.                      *)
(***************************************************************************)
EXTENDS ScheduledPage, FiniteSetTheorems, TLAPS

\* Where the pass is decides what it holds.
PassShape ==
  /\ pc = "idle" => batch = {} /\ current = {}
  /\ pc = "mark" => current = {}

\* An entry the pass has not marked yet has no deploy, even if it was cancelled
\* since the query; the one it is about to run has none either.
Unrun(e) ==
  /\ entry[e] \in {"none", "pending"} => deploys[e] = 0 /\ e \notin current
  /\ e \in batch => /\ deploys[e] = 0 /\ e \notin current
                    /\ entry[e] \in {"pending", "cancelled", "removed"}
  /\ pc = "create" /\ e \in current => deploys[e] = 0

\* The pass works on one entry at a time, that it has marked; its server may be gone.
Works(e) == e \in current => /\ entry[e] \in {"triggered", "removed"}
                             /\ \A f \in current : f = e

IInv == TypeOK /\ PassShape /\ RunsAtMostOnce /\ \A e \in Entries : Unrun(e) /\ Works(e)

\* The initial state: no entry, no pass.
LEMMA InitIInv == Init => IInv
  BY SchedulerConstants DEF Init, IInv, TypeOK, Statuses, Cancels, PassShape,
     RunsAtMostOnce, Unrun, Works

\* A pass that gives up holds nothing; the entries keep what they were.
LEMMA EndsIInv ==
  ASSUME IInv, PassEnds, UNCHANGED <<entry, due, linked, deploys, started>>,
         cancel' \in [Entries -> Cancels], crashes' \in 0..MaxCrashes, faults' \in 0..MaxFaults
  PROVE  IInv'
  BY DEF IInv, TypeOK, PassEnds, PassShape, RunsAtMostOnce, Unrun, Works

\* The requests and the clock leave the pass alone.
LEMMA RequestsIInv ==
  ASSUME IInv, NEW e \in Entries,
         Schedule(e) \/ CancelRead(e) \/ CancelWrite(e)
           \/ BecomesDue(e) \/ RemoveServer(e)
  PROVE  IInv'
<1> USE DEF IInv, TypeOK, PassShape, RunsAtMostOnce, Unrun, Works, Statuses, Cancels
<1>1. CASE Schedule(e)
  BY <1>1 DEF Schedule, SetEntry, passing
<1>2. CASE CancelRead(e)
  BY <1>2 DEF CancelRead, Answer, table, passing
<1>3. CASE CancelWrite(e)
  BY <1>3, SchedulerConstants DEF CancelWrite, NoFault, Fault, SetEntry, Answer, passing
<1>4. CASE BecomesDue(e)
  BY <1>4 DEF BecomesDue, table, passing
<1>5. CASE RemoveServer(e)
  BY <1>5 DEF RemoveServer, SetEntry, passing
<1>6. QED
  BY <1>1, <1>2, <1>3, <1>4, <1>5

\* The query takes pending entries, and those have no deploy.
LEMMA QueryIInv == ASSUME IInv, CheckQuery PROVE IInv'
  BY DEF IInv, TypeOK, PassShape, RunsAtMostOnce, Unrun, Works, CheckQuery, PassAt, Found, table

\* Marking takes an entry out of the batch; it had no deploy there.
LEMMA MarkIInv == ASSUME IInv, CheckMark PROVE IInv'
<1>1. ASSUME NEW e \in batch, Throws({e}), PassEnds, UNCHANGED entry,
             UNCHANGED <<due, linked, deploys, started, cancel, crashes>>
      PROVE  IInv'
  BY <1>1, EndsIInv, SchedulerConstants DEF Throws, Fault, NoFault, IInv, TypeOK
<1>2. ASSUME NEW e \in batch, Lands({e}), PassAt("mark"), SetEntry(e, "triggered"),
             pc' = "create", batch' = batch \ {e}, current' = {e},
             UNCHANGED <<due, linked, deploys, started, cancel, crashes>>
      PROVE  IInv'
  BY <1>2 DEF IInv, TypeOK, PassShape, RunsAtMostOnce, Unrun, Works, PassAt, Lands, NoFault, SetEntry, Statuses
<1>3. QED
  BY <1>1, <1>2 DEF CheckMark

\* The create adds the first deploy of an entry that is in no batch any more.
LEMMA CreateIInv == ASSUME IInv, CheckCreate PROVE IInv'
<1>1. CASE Throws(current) /\ UNCHANGED deploys /\ PassEnds
  BY <1>1, EndsIInv, SchedulerConstants DEF CheckCreate, Throws, Fault, NoFault, IInv, TypeOK
<1>2. ASSUME Lands(current), PassAt("create"), pc' = "link", UNCHANGED <<batch, current>>,
             deploys' = [e \in Entries |-> IF e \in current THEN deploys[e] + 1 ELSE deploys[e]],
             UNCHANGED <<entry, due, linked, started, cancel, crashes>>
      PROVE  IInv'
  BY <1>2 DEF IInv, TypeOK, PassShape, RunsAtMostOnce, Unrun, Works, PassAt, Lands, NoFault
<1>3. QED
  BY <1>1, <1>2 DEF CheckCreate

\* Linking and starting create nothing.
LEMMA LinkStartIInv == ASSUME IInv, CheckLink \/ CheckStart PROVE IInv'
<1> USE DEF IInv, TypeOK, PassShape, RunsAtMostOnce, Unrun, Works
<1>1. CASE CheckLink
  BY <1>1, SchedulerConstants DEF CheckLink, PassAt, Lands, Throws, NoFault, Fault, PassEnds
<1>2. CASE CheckStart
  BY <1>2, SchedulerConstants DEF CheckStart, PassAt, Lands, Throws, NoFault, Fault, PassEnds
<1>3. QED
  BY <1>1, <1>2

\* A restart drops the pass and fails the cancels in flight.
LEMMA RestartIInv == ASSUME IInv, Restart PROVE IInv'
<1>1. /\ cancel' \in [Entries -> Cancels]
      /\ crashes' \in 0..MaxCrashes
      /\ faults' \in 0..MaxFaults
  BY SchedulerConstants DEF IInv, TypeOK, Restart, Cancels
<1>2. QED
  BY <1>1, EndsIInv DEF Restart, table

\* The invariant is inductive.
THEOREM Inductive == Spec => []IInv
<1>1. IInv /\ [Next]_vars => IInv'
  <2> SUFFICES ASSUME IInv, [Next]_vars PROVE IInv'
    OBVIOUS
  <2>1. CASE UNCHANGED vars
    BY <2>1 DEF vars, IInv, TypeOK, PassShape, RunsAtMostOnce, Unrun, Works
  <2>2. CASE Next
    BY <2>2, RequestsIInv, QueryIInv, MarkIInv, CreateIInv, LinkStartIInv, RestartIInv
       DEF Next, Check
  <2>3. QED
    BY <2>1, <2>2
<1>2. QED
  BY InitIInv, <1>1, PTL DEF Spec

\* No entry is ever deployed twice, whatever fails or restarts: scheduler.ts marks
\* an entry before it creates the deploy, and only pending entries are queried.
THEOREM NoEntryRunsTwice == Spec => []RunsAtMostOnce
  BY Inductive, PTL DEF IInv

\* A cancel is confirmed only for an entry that has no deploy yet: the write
\* repeats the status, and a pending entry has none (routes/scheduled.ts).
THEOREM CancelsAreTimely == Spec => CancelIsTimely
<1>1. ASSUME IInv, [Next]_vars, NEW e \in Entries, cancel[e] = "read", cancel'[e] = "ok"
      PROVE  entry[e] = "pending" /\ deploys[e] = 0
  <2>1. CancelWrite(e)
    <3>1. CASE UNCHANGED cancel
      BY <1>1, <3>1
    <3>2. ASSUME NEW f \in Entries, Schedule(f) \/ BecomesDue(f) \/ RemoveServer(f)
               PROVE  UNCHANGED cancel
      BY <3>2 DEF Schedule, BecomesDue, RemoveServer
    <3>3. ASSUME Check PROVE UNCHANGED cancel
      BY <3>3 DEF Check, CheckQuery, CheckMark, CheckCreate, CheckLink, CheckStart
    <3>4. ASSUME Restart PROVE FALSE
      BY <3>4, <1>1 DEF Restart, IInv, TypeOK
    <3>5. ASSUME NEW f \in Entries, CancelRead(f) PROVE FALSE
      BY <3>5, <1>1 DEF CancelRead, Answer, IInv, TypeOK
    <3>6. ASSUME NEW f \in Entries, CancelWrite(f), f # e PROVE FALSE
      BY <3>6, <1>1 DEF CancelWrite, Answer, IInv, TypeOK
    <3>7. QED
      BY <1>1, <3>1, <3>2, <3>3, <3>4, <3>5, <3>6 DEF Next, vars
  <2>2. entry[e] = "pending"
    BY <2>1, <1>1 DEF CancelWrite, Answer, IInv, TypeOK
  <2>3. QED
    BY <2>2, <1>1 DEF IInv, Unrun
<1>2. IInv /\ [Next]_vars =>
        [\A e \in Entries : cancel[e] = "read" /\ cancel'[e] = "ok"
                              => entry[e] = "pending" /\ deploys[e] = 0]_vars
  BY <1>1
<1>3. QED
  BY Inductive, <1>2, PTL DEF Spec, CancelIsTimely

\* The state has its type in every reachable state.
THEOREM TypesHold == Spec => []TypeOK
  BY Inductive, PTL DEF IInv

-----------------------------------------------------------------------------

\* The lost entries are finitely many.
LEMMA LostIsFinite == IsFiniteSet(Lost) /\ Cardinality(Lost) \in Nat
<1>1. Lost \subseteq Entries
  BY DEF Lost
<1>2. IsFiniteSet(Lost)
  BY <1>1, FS_Subset, SchedulerConstants
<1>3. QED
  BY <1>2, FS_CardinalityType

\* Restarts and failed calls so far.
Failures == crashes + faults

\* The sum of two counters is a count.
LEMMA SumOfCounts == \A a, b \in Nat : a + b \in Nat
  OBVIOUS

\* What failed so far is a count, before a step and after it.
LEMMA FailuresAreCounted ==
  ASSUME IInv, crashes' \in Nat, faults' \in Nat
  PROVE  Failures \in Nat /\ Failures' \in Nat
<1>1. crashes \in Nat /\ faults \in Nat
  BY SchedulerConstants DEF IInv, TypeOK
<1>2. QED
  BY <1>1, SumOfCounts DEF Failures

\* A step that loses nothing keeps the count within the failures.
LEMMA KeepsLosses ==
  ASSUME IInv, LossIsBounded, Lost' \subseteq Lost, crashes' \in Nat, faults' \in Nat,
         Failures <= Failures'
  PROVE  LossIsBounded'
<1>1. Cardinality(Lost') <= Cardinality(Lost) /\ Cardinality(Lost') \in Nat
  BY FS_Subset, FS_CardinalityType, LostIsFinite
<1>2. Cardinality(Lost) <= Failures
  BY DEF LossIsBounded, Failures
<1>3. Failures \in Nat /\ Failures' \in Nat
  BY FailuresAreCounted
<1>4. Cardinality(Lost') <= Failures'
  BY <1>1, <1>2, <1>3, LostIsFinite
<1>5. QED
  BY <1>4 DEF LossIsBounded, Failures

\* A step that fails loses at most the entry it hits, and is counted.
LEMMA CountsLoss ==
  ASSUME IInv, LossIsBounded, Lost' \subseteq Lost \cup current, crashes' \in Nat, faults' \in Nat,
         Failures' = Failures + 1
  PROVE  LossIsBounded'
<1>0. Failures \in Nat /\ Failures' \in Nat
  BY FailuresAreCounted
<1>1. CASE current = {}
  <2>1. Lost' \subseteq Lost
    BY <1>1
  <2>2. Failures <= Failures'
    BY <1>0
  <2>3. QED
    BY <2>1, <2>2, KeepsLosses
<1>2. CASE current # {}
  <2>1. PICK e \in Entries : current = {e}
    BY <1>2 DEF IInv, TypeOK, Works
  <2>2. /\ IsFiniteSet(Lost \cup {e})
        /\ Cardinality(Lost \cup {e}) <= Cardinality(Lost) + 1
    <3> HIDE DEF Lost
    <3> DEFINE n == Cardinality(Lost)
    <3>1. IsFiniteSet(Lost \cup {e}) /\ Cardinality(Lost \cup {e}) \in {n, n + 1}
      BY FS_AddElement, LostIsFinite
    <3>2. n \in Nat
      BY LostIsFinite
    <3> HIDE DEF n
    <3>3. QED
      BY <3>1, <3>2 DEF n
  <2>3. Cardinality(Lost') <= Cardinality(Lost \cup {e}) /\ Cardinality(Lost') \in Nat
    BY <2>1, <2>2, FS_Subset, FS_CardinalityType
  <2>4. Cardinality(Lost \cup {e}) \in Nat
    BY <2>2, FS_CardinalityType
  <2>5. Cardinality(Lost) <= Failures
    BY DEF LossIsBounded, Failures
  <2>6. Cardinality(Lost') <= Failures'
    BY <1>0, <2>2, <2>3, <2>4, <2>5, LostIsFinite
  <2>7. QED
    BY <2>6 DEF LossIsBounded, Failures
<1>3. QED
  BY <1>1, <1>2

\* A pass that gives up loses its entry by a failed call; one that gives up because
\* the entry is gone loses nothing.
LEMMA ThrowLosses ==
  ASSUME IInv, LossIsBounded, Throws(current), PassEnds, UNCHANGED <<entry, started, crashes>>
  PROVE  LossIsBounded'
<1>1. Lost' \subseteq Lost \cup current
  BY DEF Lost
<1>2. CASE Fault
  BY <1>1, <1>2, CountsLoss, SchedulerConstants DEF Fault, IInv, TypeOK, Failures
<1>3. CASE NoFault /\ Gone(current)
  <2>1. Lost' \subseteq Lost
    BY <1>1, <1>3 DEF Gone, Lost, IInv, TypeOK, Failures, Works
  <2>2. QED
    BY <2>1, <1>3, KeepsLosses, SchedulerConstants DEF NoFault, IInv, TypeOK, Failures
<1>4. QED
  BY <1>2, <1>3 DEF Throws

\* No step loses more than it fails.
LEMMA StepLosses == ASSUME IInv, LossIsBounded, [Next]_vars PROVE LossIsBounded'
<1>1. CASE UNCHANGED vars
  BY <1>1, KeepsLosses, SchedulerConstants DEF vars, Lost, IInv, TypeOK, Failures
<1>2. ASSUME NEW e \in Entries, Schedule(e) \/ CancelRead(e) \/ BecomesDue(e) \/ RemoveServer(e)
      PROVE  LossIsBounded'
  <2>1. Lost' \subseteq Lost
    BY <1>2 DEF Schedule, CancelRead, BecomesDue, RemoveServer, SetEntry, table, passing,
       Lost, IInv, TypeOK, Failures
  <2>2. UNCHANGED <<crashes, faults>>
    BY <1>2 DEF Schedule, CancelRead, BecomesDue, RemoveServer
  <2>3. QED
    BY <2>1, <2>2, KeepsLosses, SchedulerConstants DEF IInv, TypeOK, Failures
<1>3. ASSUME NEW e \in Entries, CancelWrite(e) PROVE LossIsBounded'
  <2>1. Lost' \subseteq Lost
    BY <1>3 DEF CancelWrite, SetEntry, passing, Lost, IInv, TypeOK, Failures
  <2>2. crashes' = crashes /\ (faults' = faults \/ faults' = faults + 1)
    BY <1>3 DEF CancelWrite, NoFault, Fault
  <2>3. QED
    BY <2>1, <2>2, KeepsLosses, SchedulerConstants DEF IInv, TypeOK, Failures
<1>4. CASE CheckQuery
  BY <1>4, KeepsLosses, SchedulerConstants DEF CheckQuery, Found, table, Lost, IInv, TypeOK, Failures
<1>5. CASE CheckMark
  <2>1. Lost' \subseteq Lost
    BY <1>5 DEF CheckMark, PassAt, PassEnds, SetEntry, Lost, IInv, TypeOK, Failures, PassShape
  <2>2. crashes' = crashes /\ (faults' = faults \/ faults' = faults + 1)
    BY <1>5 DEF CheckMark, Lands, Throws, NoFault, Fault
  <2>3. QED
    BY <2>1, <2>2, KeepsLosses, SchedulerConstants DEF IInv, TypeOK, Failures
<1>6. CASE CheckCreate \/ CheckLink
  <2>1. CASE Throws(current) /\ PassEnds
    BY <1>6, <2>1, ThrowLosses DEF CheckCreate, CheckLink
  <2>2. CASE Lands(current) /\ UNCHANGED current
    BY <1>6, <2>2, KeepsLosses, SchedulerConstants
       DEF CheckCreate, CheckLink, Lands, NoFault, Lost, IInv, TypeOK, Failures
  <2>3. QED
    BY <1>6, <2>1, <2>2 DEF CheckCreate, CheckLink
<1>7. CASE CheckStart
  <2>1. CASE Throws(current) /\ PassEnds /\ UNCHANGED started
    BY <1>7, <2>1, ThrowLosses DEF CheckStart
  <2>2. CASE Lands(current) /\ started' = started \cup current /\ current' = {}
    BY <1>7, <2>2, KeepsLosses, SchedulerConstants DEF CheckStart, Lands, NoFault, Lost, IInv, TypeOK, Failures
  <2>3. QED
    BY <1>7, <2>1, <2>2 DEF CheckStart
<1>8. CASE Restart
  BY <1>8, CountsLoss, SchedulerConstants DEF Restart, PassEnds, table, Lost, IInv, TypeOK, Failures
<1>9. QED
  BY <1>1, <1>2, <1>3, <1>4, <1>5, <1>6, <1>7, <1>8 DEF Next, Check

\* A failed call or a restart loses at most the one entry it hits: scheduler.ts marks
\* each entry only when the pass reaches it.
THEOREM LossesAreBounded == Spec => []LossIsBounded
<1>1. Init => LossIsBounded
  <2>1. ASSUME Init PROVE Lost = {}
    BY <2>1 DEF Init, Lost
  <2>2. QED
    BY <2>1, FS_EmptySet DEF Init, LossIsBounded
<1>2. QED
  BY <1>1, Inductive, StepLosses, PTL DEF Spec

-----------------------------------------------------------------------------

\* Every step of the scheduler is a step of the contract or none.
LEMMA StepsKeepContract ==
  ASSUME IInv, [Next]_vars
  PROVE  [Contract!ContractNext]_(Contract!contractVars)
<1> USE DEF Contract!contractVars, Contract!ContractNext, Contract!Accept, Contract!CancelIt,
        Contract!Take, Contract!Remove, Contract!DeployIt, Contract!Becomes
<1>1. CASE UNCHANGED <<entry, deploys>>
  BY <1>1
<1>2. ASSUME NEW e \in Entries, Schedule(e) PROVE Contract!Accept(e)
  BY <1>2 DEF Schedule, SetEntry
<1>3. ASSUME NEW e \in Entries, CancelWrite(e), entry' # entry PROVE Contract!CancelIt(e)
  BY <1>3 DEF CancelWrite, SetEntry
<1>4. ASSUME NEW e \in Entries, RemoveServer(e) PROVE Contract!Remove(e)
  BY <1>4 DEF RemoveServer, SetEntry, IInv, TypeOK, Statuses
<1>5. ASSUME NEW e \in batch, Lands({e}), SetEntry(e, "triggered"), UNCHANGED deploys
      PROVE  e \in Entries /\ Contract!Take(e)
  BY <1>5 DEF Lands, Gone, SetEntry, IInv, TypeOK, Unrun
<1>6. ASSUME CheckCreate, deploys' # deploys
      PROVE  \E e \in Entries : Contract!DeployIt(e)
  <2>1. /\ pc = "create" /\ ~Gone(current) /\ UNCHANGED entry
        /\ deploys' = [e \in Entries |-> IF e \in current THEN deploys[e] + 1 ELSE deploys[e]]
    BY <1>6 DEF CheckCreate, PassAt, Lands
  <2>2. current # {}
    BY <2>1, <1>6 DEF IInv, TypeOK
  <2>3. PICK e \in Entries : current = {e}
    BY <2>2 DEF IInv, TypeOK, Works
  <2>4. entry[e] = "triggered" /\ deploys[e] = 0
    BY <2>1, <2>3 DEF Gone, IInv, Works, Unrun
  <2>5. deploys' = [deploys EXCEPT ![e] = 1]
    <3>1. deploys = [x \in Entries |-> deploys[x]]
      BY DEF IInv, TypeOK
    <3>2. \A x \in Entries : x \in current <=> x = e
      BY <2>3
    <3>3. deploys' = [x \in Entries |-> IF x = e THEN 1 ELSE deploys[x]]
      BY <2>1, <2>4, <3>2
    <3>4. QED
      BY <3>1, <3>3
  <2>6. QED
    BY <2>1, <2>4, <2>5
<1>7. ASSUME \/ CheckQuery \/ CheckLink \/ CheckStart \/ Restart
             \/ \E e \in Entries : CancelRead(e) \/ BecomesDue(e)
      PROVE  UNCHANGED <<entry, deploys>>
  BY <1>7 DEF CheckQuery, CheckLink, CheckStart, Restart, CancelRead, BecomesDue, table
<1>8. CASE CheckMark
  BY <1>1, <1>5, <1>8 DEF CheckMark
<1>9. ASSUME NEW e \in Entries, CancelWrite(e) PROVE UNCHANGED deploys
  BY <1>9 DEF CancelWrite
<1>10. ASSUME CheckCreate PROVE UNCHANGED entry
  BY <1>10 DEF CheckCreate
<1>11. QED
  BY <1>1, <1>2, <1>3, <1>4, <1>6, <1>7, <1>8, <1>9, <1>10 DEF Next, Check, vars

\* The scheduler, with its passes, failures and restarts (scheduler.ts, routes/scheduled.ts),
\* implements what scheduling a deploy promises.
THEOREM ImplementsContract == Spec => KeepsContract
<1>1. Init => Contract!ContractInit
  BY DEF Init, Contract!ContractInit
<1>2. QED
  BY <1>1, Inductive, StepsKeepContract, PTL DEF Spec, KeepsContract, Contract!ContractSpec
-----------------------------------------------------------------------------
(* The page over the scheduler. *)

\* A step of the page is a cancel that any client may ask for, or none of the
\* scheduler's.
LEMMA PageStepsAreSchedulers ==
  ASSUME PageNext PROVE [Next]_vars
<1>1. CASE Next
  BY <1>1
<1>2. CASE PageOpens \/ PageCloses \/ Refresh \/ DialogCloses
  BY <1>2 DEF PageOpens, PageCloses, Refresh, DialogCloses, Loads
<1>3. CASE \E answer \in Answers : LoadLands(answer) \/ LoadFails(answer)
  BY <1>3 DEF LoadLands, LoadFails
<1>4. CASE PageCancels
  BY <1>4, PageConstants DEF PageCancels, Next
<1>5. CASE CancelAnswered \/ GraceEnds
  BY <1>5 DEF CancelAnswered, GraceEnds
<1>6. QED
  BY <1>1, <1>2, <1>3, <1>4, <1>5 DEF PageNext

\* With the page in front of it (app/scheduled/page.tsx) the system is still the
\* scheduler that the theorems above are about.
THEOREM PageKeepsScheduler == PageSpec => Spec
<1>1. PageInit => Init
  BY DEF PageInit
<1>2. [PageNext]_pageVars => [Next]_vars
  BY PageStepsAreSchedulers DEF pageVars
<1>3. QED
  BY <1>1, <1>2, PTL DEF PageSpec, Spec

=============================================================================
