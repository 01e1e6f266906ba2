------------------------ MODULE DeployEvidenceProofs ------------------------
(***************************************************************************)
(* Proofs about the evidence of a deploy, for any jobs, keys and values,   *)
(* any window and extension of the gate, any history of the relay and any  *)
(* skew of its clock: first the health gate as it runs inside the deploy,  *)
(* then the environment, the log and what the lists derive from it, the    *)
(* clients that wait, and last the relay's history as proof of what a call *)
(* did.                                                                    *)
(***************************************************************************)
EXTENDS DeployEvidence, FiniteSetTheorems, SequenceTheorems, TLAPS

\* The state of the gate.
Gates ==
  [on : BOOLEAN, strict : BOOLEAN, poll : Nat, allowed : Nat, extended : BOOLEAN,
   sawPending : BOOLEAN, sawReason : BOOLEAN, pendingOnly : BOOLEAN,
   verdict : {"none", "healthy", "unhealthy"}, noted : BOOLEAN, unconfirmed : BOOLEAN,
   watch : BOOLEAN, worst : BOOLEAN, last : Readings, route : Routes]

\* The loop remembers every watch and every reason, and its window is extended once.
GateMemory ==
  /\ gate.watch => gate.sawPending
  /\ gate.worst => gate.sawReason
  /\ gate.poll <= gate.allowed
  /\ gate.allowed <= IF gate.extended THEN Window + ExtraAttempts ELSE Window

GateInv == gate \in Gates /\ GateMemory /\ GateNeedsNews /\ WatchIsKept /\ NothingIsSwallowed

\* A window has a length.
LEMMA WindowIsNat == Window \in Nat
  BY GateConstants DEF Window, AtLeast

\* A gate that is off claims nothing.
LEMMA OffInv == ASSUME gate' = GateOff PROVE GateInv'
<1>1. gate' \in Gates
  BY DEF GateOff, Gates, Readings, Routes
<1>2. GateMemory'
  BY WindowIsNat DEF GateOff, GateMemory
<1>3. ~Decided'
  BY DEF GateOff, Decided
<1>4. QED
  BY <1>1, <1>2, <1>3 DEF GateInv, GateNeedsNews, WatchIsKept, NothingIsSwallowed

\* One that starts has polled nothing.
LEMMA StartInv == ASSUME NEW strict \in BOOLEAN, GateStarts(strict) PROVE GateInv'
<1>1. gate' \in Gates
  BY WindowIsNat DEF GateStarts, GateOff, Gates, Readings, Routes
<1>2. GateMemory'
  BY WindowIsNat DEF GateStarts, GateOff, GateMemory
<1>3. ~Decided'
  BY DEF GateStarts, GateOff, Decided
<1>4. QED
  BY <1>1, <1>2, <1>3 DEF GateInv, GateNeedsNews, WatchIsKept, NothingIsSwallowed

\* What a poll adds keeps the memory.
LEMMA RememberKeeps ==
  ASSUME gate \in Gates, GateMemory, Polling, NEW ps \in Readings, NEW route \in Routes,
         NEW g, g = Remember(ps, route)
  PROVE  /\ g \in Gates
         /\ g.strict = gate.strict /\ g.verdict = "none" /\ g.poll <= g.allowed
         /\ g.watch => g.sawPending
         /\ g.worst => g.sawReason
         /\ ~EntriesSeen(ps) /\ ~gate.sawPending => ~g.watch
         /\ EntriesSeen(ps) /\ ~Pending(ps) => ~g.watch
         /\ g.allowed = gate.allowed /\ g.extended = gate.extended
<1> DEFINE p == Pending(ps)
           r == Reasons(ps, route)
           s == EntriesSeen(ps)
<1>1. p \in BOOLEAN /\ r \in BOOLEAN /\ s \in BOOLEAN
  BY DEF Pending, Reasons, Offenders, RouteOk, EntriesSeen, Inspected
<1>2. g = [gate EXCEPT !.poll = @ + 1, !.sawPending = @ \/ p, !.sawReason = @ \/ r,
                       !.watch = IF s THEN p ELSE @, !.worst = @ \/ r]
  BY DEF Remember
<1> HIDE DEF p, r, s
<1>3. g \in Gates
  <2> DEFINE n == gate.poll + 1
             b1 == gate.sawPending \/ p
             b2 == gate.sawReason \/ r
             b3 == IF s THEN p ELSE gate.watch
             b4 == gate.worst \/ r
  <2>1. n \in Nat /\ b1 \in BOOLEAN /\ b2 \in BOOLEAN /\ b3 \in BOOLEAN /\ b4 \in BOOLEAN
    BY <1>1 DEF Gates
  <2>2. g = [gate EXCEPT !.poll = n, !.sawPending = b1, !.sawReason = b2, !.watch = b3,
                         !.worst = b4]
    BY <1>2
  <2> HIDE DEF n, b1, b2, b3, b4
  <2>3. QED
    BY <2>1, <2>2 DEF Gates
<1>4. /\ g.strict = gate.strict /\ g.verdict = gate.verdict /\ g.poll = gate.poll + 1
      /\ g.allowed = gate.allowed /\ g.extended = gate.extended
  BY <1>2 DEF Gates
<1>5. g.poll <= g.allowed /\ g.verdict = "none"
  BY <1>4 DEF Polling, Gates
<1>6. /\ g.sawPending <=> gate.sawPending \/ p
      /\ g.sawReason <=> gate.sawReason \/ r
      /\ g.worst <=> gate.worst \/ r
      /\ g.watch <=> IF s THEN p ELSE gate.watch
  BY <1>1, <1>2 DEF Gates
<1>7. QED
  BY <1>1, <1>3, <1>4, <1>5, <1>6 DEF GateMemory, p, r, s

\* A verdict is about the memory it is given.
LEMMA DecideKeeps ==
  ASSUME NEW g \in Gates, NEW ps \in Readings, NEW route \in Routes,
         NEW healthy \in BOOLEAN, NEW noted \in BOOLEAN, NEW unconfirmed \in BOOLEAN,
         NEW d, d = Decide(g, ps, route, healthy, noted, unconfirmed)
  PROVE  /\ d \in Gates
         /\ d.last = ps /\ d.route = route
         /\ d.verdict = IF healthy THEN "healthy" ELSE "unhealthy"
         /\ d.noted <=> noted
         /\ d.unconfirmed <=> unconfirmed
         /\ d.strict = g.strict /\ d.poll = g.poll /\ d.allowed = g.allowed
         /\ d.extended = g.extended /\ d.watch = g.watch /\ d.worst = g.worst
         /\ d.sawPending = g.sawPending /\ d.sawReason = g.sawReason
<1> DEFINE v == IF healthy THEN "healthy" ELSE "unhealthy"
<1>1. v \in {"none", "healthy", "unhealthy"}
  OBVIOUS
<1>2. d = [g EXCEPT !.last = ps, !.route = route, !.noted = noted, !.unconfirmed = unconfirmed,
                    !.verdict = v]
  BY DEF Decide
<1> HIDE DEF v
<1>3. d \in Gates
  BY <1>1, <1>2 DEF Gates
<1>4. QED
  BY <1>1, <1>2, <1>3 DEF Gates, v

\* What a loop under way remembers, as a poll hands it on.
Memory(g) ==
  /\ g.watch => g.sawPending
  /\ g.worst => g.sawReason
  /\ g.poll <= g.allowed
  /\ g.allowed <= IF g.extended THEN Window + ExtraAttempts ELSE Window

\* A poll that decides nothing hands its memory on.
LEMMA GoesOn ==
  ASSUME NEW g \in Gates, Memory(g), g.verdict = "none", gate' = g
  PROVE  GateInv'
<1>1. GateMemory' /\ gate' \in Gates
  BY DEF Memory, GateMemory
<1>2. ~Decided'
  BY DEF Decided
<1>3. QED
  BY <1>1, <1>2 DEF GateInv, GateNeedsNews, WatchIsKept, NothingIsSwallowed

\* One that decides does so on the evidence of its own reading and the memory.
LEMMA Decides ==
  ASSUME NEW g \in Gates, Memory(g), NEW ps \in Readings, NEW route \in Routes,
         NEW healthy \in BOOLEAN, NEW noted \in BOOLEAN, NEW unconfirmed \in BOOLEAN,
         gate' = Decide(g, ps, route, healthy, noted, unconfirmed),
         g.strict /\ healthy => ps = {"up"} /\ route # "down",
         ~g.strict /\ ~healthy => "bad" \in ps \/ route = "down",
         ~g.strict /\ healthy /\ g.watch => unconfirmed,
         ~g.strict /\ healthy /\ g.worst => noted
  PROVE  GateInv'
<1> PICK d : d = gate'
  OBVIOUS
<1>1. /\ d \in Gates
      /\ d.last = ps /\ d.route = route
      /\ d.verdict = IF healthy THEN "healthy" ELSE "unhealthy"
      /\ d.noted <=> noted
      /\ d.unconfirmed <=> unconfirmed
      /\ d.strict = g.strict /\ d.poll = g.poll /\ d.allowed = g.allowed
      /\ d.extended = g.extended /\ d.watch = g.watch /\ d.worst = g.worst
      /\ d.sawPending = g.sawPending /\ d.sawReason = g.sawReason
  BY DecideKeeps
<1>2. GateMemory'
  BY <1>1 DEF Memory, GateMemory
<1>3. GateNeedsNews'
  BY <1>1 DEF GateNeedsNews
<1>4. WatchIsKept'
  BY <1>1 DEF WatchIsKept
<1>5. NothingIsSwallowed'
  BY <1>1 DEF NothingIsSwallowed
<1>6. QED
  BY <1>1, <1>2, <1>3, <1>4, <1>5 DEF GateInv

\* A reading with rows, none of them bad or starting, is of containers that are up.
LEMMA ConfirmedIsUp == ASSUME NEW ps \in Readings, Confirmed(ps) PROVE ps = {"up"}
<1>1. ps \in SUBSET {"bad", "starting", "up"} /\ ps # {} /\ "bad" \notin ps /\ "starting" \notin ps
  BY DEF Confirmed, EntriesSeen, Inspected, Offenders, Pending, Readings
<1>2. QED
  BY <1>1

\* A strict poll passes on a confirmation alone.
LEMMA StrictInv == ASSUME GateInv, StrictPoll PROVE GateInv'
<1>1. PICK ps \in Readings, route \in Routes :
        gate' = LET g == Remember(ps, route) IN
                IF Confirmed(ps) /\ RouteOk(route) THEN Decide(g, ps, route, TRUE, FALSE, FALSE)
                ELSE IF g.poll < g.allowed THEN g
                ELSE Decide(g, ps, route, FALSE, FALSE, FALSE)
  BY DEF StrictPoll
<1>2. PICK g : g = Remember(ps, route)
  OBVIOUS
<1>3. g \in Gates /\ g.strict /\ g.verdict = "none" /\ Memory(g)
  BY <1>2, RememberKeeps DEF GateInv, GateMemory, Memory, StrictPoll
<1>4. CASE gate' = g
  BY <1>3, <1>4, GoesOn
<1>5. CASE Confirmed(ps) /\ RouteOk(route) /\ gate' = Decide(g, ps, route, TRUE, FALSE, FALSE)
  <2>1. ps = {"up"} /\ route # "down"
    BY <1>5, ConfirmedIsUp DEF RouteOk
  <2>2. QED
    BY <1>3, <1>5, <2>1, Decides
<1>6. CASE gate' = Decide(g, ps, route, FALSE, FALSE, FALSE)
  BY <1>3, <1>6, Decides
<1>7. QED
  BY <1>1, <1>2, <1>4, <1>5, <1>6

\* Lengthening the window, once at most, leaves the memory as it is.
LEMMA ExtendKeeps ==
  ASSUME NEW g \in Gates, Memory(g), NEW pendingOnly \in BOOLEAN,
         NEW h, h = Extend([g EXCEPT !.pendingOnly = pendingOnly], pendingOnly)
  PROVE  h \in Gates /\ Memory(h) /\ h.strict = g.strict /\ h.verdict = g.verdict
<1> DEFINE f == [g EXCEPT !.pendingOnly = pendingOnly]
<1>1. f \in Gates /\ Memory(f) /\ f.strict = g.strict /\ f.verdict = g.verdict
  BY DEF Gates, Memory
<1>2. h = f \/ (~f.extended /\ h = [f EXCEPT !.allowed = f.allowed + ExtraAttempts, !.extended = TRUE])
  BY DEF Extend
<1> HIDE DEF f
<1>3. CASE h = f
  BY <1>1, <1>3
<1>4. CASE ~f.extended /\ h = [f EXCEPT !.allowed = f.allowed + ExtraAttempts, !.extended = TRUE]
  <2>1. h \in Gates /\ h.extended /\ h.allowed = f.allowed + ExtraAttempts /\ h.poll = f.poll
    <3> DEFINE n == f.allowed + ExtraAttempts
    <3>1. n \in Nat
      BY <1>1, GateConstants DEF Gates
    <3>2. h = [f EXCEPT !.allowed = n, !.extended = TRUE]
      BY <1>4
    <3> HIDE DEF n
    <3>3. h \in Gates /\ h.extended /\ h.allowed = n /\ h.poll = f.poll
      BY <1>1, <3>1, <3>2 DEF Gates
    <3>4. QED
      BY <3>3 DEF n
  <2>2. f.allowed <= Window /\ f.poll <= f.allowed
    BY <1>1, <1>4 DEF Memory
  <2>3. h.allowed <= Window + ExtraAttempts /\ h.poll <= h.allowed
    BY <1>1, <2>1, <2>2, GateConstants, WindowIsNat DEF Gates
  <2>4. /\ h.watch = f.watch /\ h.sawPending = f.sawPending
        /\ h.worst = f.worst /\ h.sawReason = f.sawReason
        /\ h.strict = f.strict /\ h.verdict = f.verdict
    BY <1>1, <1>4 DEF Gates
  <2>5. QED
    BY <1>1, <2>1, <2>3, <2>4 DEF Memory
<1>5. QED
  BY <1>2, <1>3, <1>4

\* An optimistic poll fails on news alone, and passes plainly only when nothing is
\* left to watch.
LEMMA OptimisticInv == ASSUME GateInv, OptimisticPoll PROVE GateInv'
<1>1. PICK ps \in Readings, route \in Routes :
        LET g == Remember(ps, route)
            carry == PendingCarry(ps, route)
            pendingOnly == ~Reasons(ps, route) /\ (Pending(ps) \/ carry)
            h == Extend([g EXCEPT !.pendingOnly = pendingOnly], pendingOnly)
        IN  gate' = IF ~Reasons(ps, route) /\ ~Pending(ps) /\ ~carry
                    THEN Decide(g, ps, route, TRUE, Noted(g), FALSE)
                    ELSE IF h.poll < h.allowed THEN h
                    ELSE IF pendingOnly THEN Decide(h, ps, route, TRUE, Noted(h), TRUE)
                    ELSE Decide(h, ps, route, FALSE, FALSE, FALSE)
  BY DEF OptimisticPoll
<1> DEFINE carry == PendingCarry(ps, route)
           pendingOnly == ~Reasons(ps, route) /\ (Pending(ps) \/ carry)
<1>2. PICK g : g = Remember(ps, route)
  OBVIOUS
<1>3. PICK h : h = Extend([g EXCEPT !.pendingOnly = pendingOnly], pendingOnly)
  OBVIOUS
<1>4. /\ g \in Gates /\ ~g.strict /\ g.verdict = "none" /\ Memory(g)
      /\ ~EntriesSeen(ps) /\ ~gate.sawPending => ~g.watch
      /\ EntriesSeen(ps) /\ ~Pending(ps) => ~g.watch
  BY <1>2, RememberKeeps DEF GateInv, GateMemory, Memory, OptimisticPoll
<1>5. h \in Gates /\ Memory(h) /\ ~h.strict /\ h.verdict = "none"
  <2>1. pendingOnly \in BOOLEAN
    BY DEF PendingCarry
  <2> HIDE DEF pendingOnly
  <2>2. QED
    BY <1>3, <1>4, <2>1, ExtendKeeps
<1>6. CASE ~Reasons(ps, route) /\ ~Pending(ps) /\ ~carry /\ gate' = Decide(g, ps, route, TRUE, Noted(g), FALSE)
  <2>1. ~g.watch
    BY <1>4, <1>6 DEF PendingCarry
  <2>2. Noted(g) \in BOOLEAN /\ (g.worst => Noted(g))
    BY <1>4 DEF Noted, Gates, Memory
  <2>3. QED
    BY <1>4, <1>6, <2>1, <2>2, Decides
<1>7. CASE gate' = h
  BY <1>5, <1>7, GoesOn
<1>8. CASE gate' = Decide(h, ps, route, TRUE, Noted(h), TRUE)
  <2>1. Noted(h) \in BOOLEAN /\ (h.worst => Noted(h))
    BY <1>5 DEF Noted, Gates, Memory
  <2>2. QED
    BY <1>5, <1>8, <2>1, Decides
<1>9. CASE /\ ~(~Reasons(ps, route) /\ ~Pending(ps) /\ ~carry)
           /\ ~pendingOnly
           /\ gate' = Decide(h, ps, route, FALSE, FALSE, FALSE)
  <2>1. "bad" \in ps \/ route = "down"
    BY <1>9 DEF Reasons, Offenders, RouteOk
  <2>2. QED
    BY <1>5, <1>9, <2>1, Decides
<1>10. QED
  BY <1>1, <1>2, <1>3, <1>6, <1>7, <1>8, <1>9

\* What a step of the deploy does to the gate.
LEMMA GateSteps ==
  ASSUME [Next]_vars
  PROVE  \/ UNCHANGED gate \/ gate' = GateOff
         \/ \E strict \in BOOLEAN : GateStarts(strict)
         \/ Poll
<1>1. CASE UNCHANGED vars
  BY <1>1 DEF vars
<1>2. ASSUME EnvSteps \/ EnvBlocks \/ RelayBlocks \/ RelayConflict \/ RelaySteps
      PROVE  UNCHANGED gate
  BY <1>2 DEF EnvSteps, EnvBlocks, RelayBlocks, RelayConflict, RelaySteps
<1>3. ASSUME ClientDeploys \/ ClientPolls \/ ClientAsks \/ ClientLeaves PROVE UNCHANGED gate
  BY <1>3 DEF ClientDeploys, ClientPolls, ClientAsks, ClientLeaves
<1>4. ASSUME DoneEvent PROVE UNCHANGED gate \/ GateStarts(FALSE)
  BY <1>4 DEF DoneEvent
<1>5. ASSUME StreamBreaks PROVE GateStarts(TRUE)
  BY <1>5 DEF StreamBreaks
<1>6. ASSUME GatePolls PROVE Poll
  BY <1>6 DEF GatePolls
<1>7. ASSUME GateConfirms \/ GateRecovers PROVE gate' = GateOff
  BY <1>7 DEF GateConfirms, GateRecovers
<1>8. ASSUME TargetRow \/ TargetDetail \/ TargetHealth \/ TargetWrites PROVE UNCHANGED gate
  BY <1>8 DEF TargetRow, TargetDetail, TargetHealth, TargetWrites
<1>9. QED
  BY <1>1, <1>2, <1>3, <1>4, <1>5, <1>6, <1>7, <1>8 DEF Next, Goes

\* The invariant is inductive.
THEOREM GateInductive == Spec => []GateInv
<1>1. ASSUME Init PROVE GateInv
  <2>1. gate = GateOff
    BY <1>1 DEF Init
  <2>2. gate \in Gates /\ GateMemory /\ ~Decided
    BY <2>1, WindowIsNat DEF GateOff, Gates, Readings, Routes, GateMemory, Decided
  <2>3. QED
    BY <2>2 DEF GateInv, GateNeedsNews, WatchIsKept, NothingIsSwallowed
<1>2. ASSUME GateInv, [Next]_vars PROVE GateInv'
  <2>1. CASE UNCHANGED gate
    BY <1>2, <2>1
       DEF GateInv, GateMemory, GateNeedsNews, WatchIsKept, NothingIsSwallowed, Decided
  <2>2. QED
    BY <1>2, <2>1, GateSteps, OffInv, StartInv, StrictInv, OptimisticInv DEF Poll
<1>3. QED
  BY <1>1, <1>2, PTL DEF Spec

\* A gate with no claim behind it passes on what it read alone, and one with a claim
\* fails on news alone (post-deploy-gate.ts).
THEOREM VerdictsNeedNews == Spec => []GateNeedsNews
  BY GateInductive, PTL DEF GateInv

\* A plain pass leaves no service that was seen starting unwatched (post-deploy-gate.ts).
THEOREM WatchesAreKept == Spec => []WatchIsKept
  BY GateInductive, PTL DEF GateInv

\* A pass tells of everything bad its window saw (post-deploy-gate.ts).
THEOREM NothingBadIsSwallowed == Spec => []NothingIsSwallowed
  BY GateInductive, PTL DEF GateInv

\* The gate polls no longer than its window and one extension of it, which is why it ends
\* (post-deploy-gate.ts).
THEOREM PollsAreBounded == Spec => []WindowIsBounded
<1>1. GateInv => WindowIsBounded
  BY GateConstants, WindowIsNat DEF GateInv, GateMemory, Gates, WindowIsBounded
<1>2. QED
  BY <1>1, GateInductive, PTL

-----------------------------------------------------------------------------
(* The environment: what a job has read is what is stored, until somebody  *)
(* else writes.                                                             *)

JobPlaces == {"idle", "read", "write", "record", "keys", "env", "secrets", "check", "done"}
Answers == {"none", "ok", "error", "passed", "missing", "posts", "blocked", "recovers"}
Stores == {"file", "secrets", "required"}
Rows == SUBSET (Keys \X {"create", "update", "delete"})
JobType ==
  [kind : JobKinds \cup {"none"}, at : JobPlaces, body : [Keys -> Values \cup {"unset", "set"}],
   env : Entries, keys : SUBSET Keys, answer : Answers, was : Entries, stale : SUBSET Stores]

EnvTyped == EnvTypeOK /\ history \in [Jobs -> Rows] /\ job \in [Jobs -> JobType]

\* What holds of any job; and of the copies of a deploy, while nobody else writes.
Sound(j) ==
  /\ j.kind \in {"env", "deploy"} => j.body \in Entries
  /\ j.at # "done" => j.answer = "none"
  /\ j.at = "idle" => j.kind = "none"
Current(j) ==
  j.kind = "deploy" =>
    /\ j.at \in {"secrets", "read", "write", "check"} /\ "required" \notin j.stale => j.keys = required
    /\ j.at \in {"read", "write", "check"} /\ "secrets" \notin j.stale => j.body = secrets
    /\ j.at = "check" /\ "file" \notin j.stale => file = Merged(j.env, j.body)

Fits(j) == Sound(j) /\ Current(j)
Unrecorded == \A p \in Jobs : job[p].at # "done" => history[p] = {}
EnvInv == EnvTyped /\ Unrecorded /\ \A p \in Jobs : Fits(job[p])

LEMMA NoEntriesIsEntries ==
  NoEntries \in Entries /\ NoEntries \in [Keys -> Values \cup {"unset", "set"}]
  BY DEF NoEntries, Entries

LEMMA MergedIsEntries ==
  ASSUME NEW env \in Entries, NEW secret \in Entries PROVE Merged(env, secret) \in Entries
  BY DEF Merged, Entries

\* A job that begins, and one that is over.
Begun(kind, at, body, keys) == [NoJob EXCEPT !.kind = kind, !.at = at, !.body = body, !.keys = keys]
Over(kind, answer) == [NoJob EXCEPT !.at = "done", !.kind = kind, !.answer = answer]

LEMMA NoJobTyped ==
  NoJob \in JobType /\ NoJob.at = "idle" /\ NoJob.answer = "none" /\ NoJob.kind = "none"
  BY NoEntriesIsEntries DEF NoJob, JobType, JobPlaces, Answers

LEMMA JobBegins ==
  ASSUME NEW kind \in JobKinds, NEW at \in JobPlaces, NEW body \in Entries, NEW keys \in SUBSET Keys,
         NEW j, j = Begun(kind, at, body, keys)
  PROVE  /\ j \in JobType /\ j.kind = kind /\ j.at = at /\ j.body = body /\ j.keys = keys
         /\ j.answer = "none" /\ j.stale = {}
<1>1. body \in [Keys -> Values \cup {"unset", "set"}]
  BY DEF Entries
<1>2. QED
  BY <1>1, NoEntriesIsEntries DEF Begun, NoJob, JobType, Answers

LEMMA JobOver ==
  ASSUME NEW kind \in JobKinds \cup {"none"}, NEW answer \in Answers, NEW j, j = Over(kind, answer)
  PROVE  /\ j \in JobType /\ j.kind = kind /\ j.at = "done" /\ j.answer = answer
         /\ Fits(j) /\ Fits(j)'
<1>1. /\ j \in JobType /\ j.kind = kind /\ j.at = "done" /\ j.answer = answer /\ j.body \in Entries
  BY NoEntriesIsEntries DEF Over, NoJob, JobType, JobPlaces
<1>2. QED
  BY <1>1 DEF Fits, Sound, Current

LEMMA JobAnswered ==
  ASSUME EnvTyped, NEW p \in Jobs, NEW answer \in Answers, Answer(p, answer)
  PROVE  /\ job' \in [Jobs -> JobType]
         /\ job'[p].kind = job[p].kind /\ job'[p].at = "done" /\ job'[p].answer = answer
         /\ Fits(job[p])'
         /\ \A q \in Jobs \ {p} : job'[q] = job[q]
<1>1. job[p].kind \in JobKinds \cup {"none"} /\ job \in [Jobs -> JobType]
  BY DEF EnvTyped, JobType
<1>2. PICK j : j = Over(job[p].kind, answer)
  OBVIOUS
<1>3. j \in JobType /\ j.kind = job[p].kind /\ j.at = "done" /\ j.answer = answer
  <2> DEFINE kind == job[p].kind
  <2>1. kind \in JobKinds \cup {"none"} /\ j = Over(kind, answer)
    BY <1>1, <1>2
  <2> HIDE DEF kind
  <2>2. j.kind = kind /\ j \in JobType /\ j.at = "done" /\ j.answer = answer
    BY <2>1, JobOver
  <2>3. QED
    BY <2>2 DEF kind
<1>4. job' = [job EXCEPT ![p] = j]
  BY <1>2 DEF Answer, Set, Over
<1>5. job'[p] = j /\ job' \in [Jobs -> JobType] /\ \A q \in Jobs \ {p} : job'[q] = job[q]
  BY <1>1, <1>3, <1>4
<1>6. Fits(job[p])'
  <2>1. job'[p].body = NoEntries /\ job'[p].at = "done"
    BY <1>2, <1>5 DEF Over, NoJob
  <2>2. QED
    BY <2>1, NoEntriesIsEntries DEF Fits, Sound, Current
<1>7. QED
  BY <1>3, <1>5, <1>6

\* A write makes the jobs under way stale in what it writes, and in nothing else.
LEMMA OthersStaled ==
  ASSUME EnvInv, NEW q \in Jobs, NEW store \in Stores, job'[q] = Staled(job[q], store),
         store # "file" => file' = file, store # "secrets" => secrets' = secrets,
         store # "required" => required' = required
  PROVE  job'[q] \in JobType /\ Fits(job[q])' /\ job'[q].at = job[q].at /\ job'[q].answer = job[q].answer
<1>0. job[q] \in JobType /\ Sound(job[q]) /\ Current(job[q])
  BY DEF EnvInv, EnvTyped, Fits
<1>1. CASE job[q].at \in {"idle", "done"}
  <2>1. job'[q] = job[q]
    BY <1>1 DEF Staled
  <2>2. QED
    BY <1>0, <1>1, <2>1 DEF Fits, Sound, Current
<1>2. CASE job[q].at \notin {"idle", "done"}
  <2>1. job'[q] = [job[q] EXCEPT !.stale = @ \cup {store}]
    BY <1>2 DEF Staled
  <2>2. /\ job'[q] \in JobType
        /\ job'[q].stale = job[q].stale \cup {store} /\ job'[q].kind = job[q].kind /\ job'[q].at = job[q].at
        /\ job'[q].body = job[q].body /\ job'[q].answer = job[q].answer /\ job'[q].keys = job[q].keys
        /\ job'[q].env = job[q].env
    BY <1>0, <2>1 DEF JobType
  <2>3. Sound(job'[q])
    BY <1>0, <2>2 DEF Sound
  <2>4. Current(job[q])'
    BY <1>0, <2>2 DEF Current
  <2>5. QED
    BY <2>2, <2>3, <2>4 DEF Fits, Sound
<1>3. QED
  BY <1>1, <1>2

LEMMA Disturbs ==
  ASSUME EnvInv, NEW p \in Jobs, NEW j \in JobType, NEW store \in Stores, Disturb(p, store, j),
         store # "file" => file' = file, store # "secrets" => secrets' = secrets,
         store # "required" => required' = required
  PROVE  /\ job' \in [Jobs -> JobType] /\ job'[p] = j
         /\ \A q \in Jobs \ {p} : Fits(job[q])' /\ job'[q].at = job[q].at
<1>1. job' = [q \in Jobs |-> IF q = p THEN j ELSE Staled(job[q], store)]
  BY DEF Disturb
<1>2. job'[p] = j
  BY <1>1
<1>3. ASSUME NEW q \in Jobs \ {p} PROVE job'[q] \in JobType /\ Fits(job[q])' /\ job'[q].at = job[q].at
  BY <1>1, OthersStaled
<1>4. QED
  BY <1>1, <1>2, <1>3

\* One that writes nothing leaves them alone.
LEMMA SetsOne ==
  ASSUME EnvInv, NEW p \in Jobs, NEW j \in JobType, Set(p, j), UNCHANGED stores
  PROVE  /\ job' \in [Jobs -> JobType] /\ job'[p] = j
         /\ \A q \in Jobs \ {p} : Fits(job[q])' /\ job'[q].at = job[q].at
<1>1. job' = [job EXCEPT ![p] = j] /\ job \in [Jobs -> JobType]
  BY DEF Set, EnvInv, EnvTyped
<1>2. job'[p] = j /\ job' \in [Jobs -> JobType] /\ \A q \in Jobs \ {p} : job'[q] = job[q]
  BY <1>1
<1>3. ASSUME NEW q \in Jobs \ {p} PROVE Fits(job[q])'
  BY <1>2, <1>3 DEF EnvInv, Fits, Sound, Current, stores
<1>4. QED
  BY <1>2, <1>3

\* A step of one job that was not over, and the history of no other.
LEMMA OneJobSteps ==
  ASSUME EnvInv, NEW p \in Jobs, job[p].at # "done",
         job' \in [Jobs -> JobType], Fits(job[p])',
         \A q \in Jobs \ {p} : Fits(job[q])' /\ job'[q].at = job[q].at,
         file' \in Entries, secrets' \in Entries, required' \subseteq Keys,
         \/ history' = history
         \/ /\ job'[p].at = "done" /\ history' \in [Jobs -> Rows]
            /\ \A q \in Jobs \ {p} : history'[q] = history[q]
  PROVE  EnvInv'
<1>1. history' \in [Jobs -> Rows] /\ \A q \in Jobs : history'[q] \subseteq Keys \X {"create", "update", "delete"}
  BY DEF EnvInv, EnvTyped, Rows
<1>2. EnvTyped'
  BY <1>1 DEF EnvTyped, EnvTypeOK, JobType
<1>3. Unrecorded'
  BY DEF EnvInv, Unrecorded
<1>4. QED
  BY <1>2, <1>3 DEF EnvInv

LEMMA ArrivesFits == ASSUME EnvInv, NEW p \in Jobs, EnvArrive(p) PROVE EnvInv'
<1>0. /\ file \in Entries /\ secrets \in Entries /\ required \subseteq Keys
      /\ job \in [Jobs -> JobType]
  BY DEF EnvInv, EnvTyped, EnvTypeOK
<1>1. ASSUME NEW kind \in {"env", "preflight", "deploy"}, NEW at \in JobPlaces \ {"idle"}, NEW body \in Entries,
             NEW keys \in SUBSET Keys, Begin(p, kind, at, body, keys), UNCHANGED <<stores, history>>,
             kind = "env" => at = "read", kind = "deploy" => at = "secrets" /\ keys = required
      PROVE  EnvInv'
  <2>1. kind \in JobKinds /\ job[p].at # "done"
    BY <1>1 DEF Begin
  <2>2. PICK j : j = Begun(kind, at, body, keys)
    OBVIOUS
  <2>3. /\ j \in JobType /\ j.kind = kind /\ j.at = at /\ j.body = body /\ j.keys = keys
        /\ j.answer = "none"
    BY <1>1, <2>1, <2>2, JobBegins
  <2>4. Set(p, j)
    BY <1>1, <2>2 DEF Begin, Begun
  <2>5. /\ job' \in [Jobs -> JobType] /\ job'[p] = j
        /\ \A q \in Jobs \ {p} : Fits(job[q])' /\ job'[q].at = job[q].at
    BY <1>1, <2>3, <2>4, SetsOne DEF stores
  <2>6. Fits(job[p])'
    BY <1>1, <2>3, <2>5 DEF Fits, Sound, Current, stores
  <2>7. QED
    BY <1>0, <1>1, <2>1, <2>5, <2>6, OneJobSteps DEF stores
<1>2. CASE EnvPut(p) \/ PreflightStart(p) \/ ProvisionStart(p)
  <2>1. {"read", "keys", "secrets"} \subseteq JobPlaces \ {"idle"} /\ {} \in SUBSET Keys /\ required \in SUBSET Keys
    BY <1>0 DEF JobPlaces
  <2>2. CASE EnvPut(p)
    BY <1>1, <2>1, <2>2 DEF EnvPut
  <2>3. CASE PreflightStart(p)
    BY <1>1, <2>1, <2>3, NoEntriesIsEntries DEF PreflightStart
  <2>4. CASE ProvisionStart(p)
    BY <1>1, <2>1, <2>4, NoEntriesIsEntries DEF ProvisionStart
  <2>5. QED
    BY <1>2, <2>2, <2>3, <2>4
<1>3. ASSUME NEW kind \in JobKinds, NEW store \in Stores, job[p].at # "done",
             Disturb(p, store, [NoJob EXCEPT !.at = "done", !.kind = kind]),
             store # "file" => file' = file, store # "secrets" => secrets' = secrets,
             store # "required" => required' = required,
             file' = file, secrets' \in Entries, required' \subseteq Keys, history' = history
      PROVE  EnvInv'
  <2>1. PICK j : j = Over(kind, "none")
    OBVIOUS
  <2>2. j \in JobType /\ Fits(j)'
    BY <1>3, <2>1, JobOver DEF Answers
  <2>3. [NoJob EXCEPT !.at = "done", !.kind = kind] = j
    BY <2>1, NoJobTyped DEF Over, JobType
  <2>4. /\ job' \in [Jobs -> JobType] /\ job'[p] = j
        /\ \A q \in Jobs \ {p} : Fits(job[q])' /\ job'[q].at = job[q].at
    BY <1>3, <2>2, <2>3, Disturbs
  <2>5. Fits(job[p])'
    BY <2>2, <2>4 DEF Fits, Sound, Current
  <2>6. QED
    BY <1>0, <1>3, <2>4, <2>5, OneJobSteps
<1>4. ASSUME NEW k \in Keys, NEW v \in Values \cup {"unset"}, secrets' = [secrets EXCEPT ![k] = v]
      PROVE  secrets' \in Entries
  BY <1>0, <1>4 DEF Entries
<1>5. CASE SecretPut(p) \/ SecretDelete(p)
  <2>1. "secrets" \in Stores
    BY DEF Stores
  <2>2. /\ "secret" \in JobKinds /\ job[p].at # "done" /\ secrets' \in Entries
        /\ Disturb(p, "secrets", [NoJob EXCEPT !.at = "done", !.kind = "secret"])
        /\ UNCHANGED <<file, required, history>>
    BY <1>4, <1>5 DEF SecretPut, SecretDelete
  <2>3. QED
    BY <1>0, <1>3, <2>1, <2>2
<1>6. CASE RequiredPut(p)
  <2>1. "required" \in Stores
    BY DEF Stores
  <2>2. QED
    BY <1>0, <1>3, <1>6, <2>1 DEF RequiredPut
<1>7. QED
  BY <1>2, <1>5, <1>6 DEF EnvArrive

\* A job that goes on: one of its reads, with nothing written; an answer; a write of the
\* file; a write whose answer is lost.
LEMMA GoesOnReading ==
  ASSUME EnvInv, NEW p \in Jobs, job[p].at # "done", NEW j \in JobType, Set(p, j),
         UNCHANGED <<stores, history>>, Fits(j)
  PROVE  EnvInv'
<1>1. /\ job' \in [Jobs -> JobType] /\ job'[p] = j
      /\ \A q \in Jobs \ {p} : Fits(job[q])' /\ job'[q].at = job[q].at
  BY SetsOne DEF stores
<1>2. Fits(job[p])'
  BY <1>1 DEF Fits, Sound, Current, stores
<1>3. QED
  BY <1>1, <1>2, OneJobSteps DEF EnvInv, EnvTyped, EnvTypeOK, stores

LEMMA AnswersKeep ==
  ASSUME EnvInv, NEW p \in Jobs, job[p].at # "done", NEW answer \in Answers, Answer(p, answer),
         UNCHANGED stores, history' \in [Jobs -> Rows], \A q \in Jobs \ {p} : history'[q] = history[q]
  PROVE  EnvInv'
<1>1. /\ job' \in [Jobs -> JobType] /\ Fits(job[p])' /\ job'[p].at = "done"
      /\ \A q \in Jobs \ {p} : job'[q] = job[q]
  BY JobAnswered DEF EnvInv
<1>2. ASSUME NEW q \in Jobs \ {p} PROVE Fits(job[q])'
  BY <1>1, <1>2 DEF EnvInv, Fits, Sound, Current, stores
<1>3. QED
  BY <1>1, <1>2, OneJobSteps DEF EnvInv, EnvTyped, EnvTypeOK, stores

LEMMA WritesFile ==
  ASSUME EnvInv, NEW p \in Jobs, job[p].at # "done", NEW j \in JobType, Disturb(p, "file", j),
         file' \in Entries, UNCHANGED <<secrets, required, history>>, Fits(j)'
  PROVE  EnvInv'
<1>1. "file" \in Stores
  BY DEF Stores
<1>2. /\ job' \in [Jobs -> JobType] /\ job'[p] = j
      /\ \A q \in Jobs \ {p} : Fits(job[q])' /\ job'[q].at = job[q].at
  BY <1>1, Disturbs
<1>3. Fits(job[p])'
  BY <1>2 DEF Fits, Sound, Current
<1>4. QED
  BY <1>2, <1>3, OneJobSteps DEF EnvInv, EnvTyped, EnvTypeOK

LEMMA LosesAnswer ==
  ASSUME EnvInv, NEW p \in Jobs, job[p].at # "done", NEW kind \in JobKinds, NEW answer \in Answers,
         file' \in Entries, UNCHANGED <<secrets, required, history>>,
         Disturb(p, "file", [NoJob EXCEPT !.at = "done", !.kind = kind, !.answer = answer])
  PROVE  EnvInv'
<1>1. PICK j : j = Over(kind, answer)
  OBVIOUS
<1>2. j \in JobType /\ Fits(j)'
  BY <1>1, JobOver
<1>3. Disturb(p, "file", j)
  BY <1>1 DEF Over
<1>4. QED
  BY <1>2, <1>3, WritesFile

\* What a job is once its fields are edited.
Edited(o, at, body, env, was, stale) ==
  [o EXCEPT !.at = at, !.body = body, !.env = env, !.was = was, !.stale = stale]

LEMMA JobEdits ==
  ASSUME NEW o \in JobType, NEW at \in JobPlaces, NEW body \in [Keys -> Values \cup {"unset", "set"}],
         NEW env \in Entries, NEW was \in Entries, NEW stale \in SUBSET Stores,
         NEW j, j = Edited(o, at, body, env, was, stale)
  PROVE  /\ j \in JobType /\ j.at = at /\ j.body = body /\ j.env = env /\ j.was = was
         /\ j.stale = stale /\ j.kind = o.kind /\ j.keys = o.keys /\ j.answer = o.answer
  BY DEF Edited, JobType

\* A job at one of its places, and the stores around it.
LEMMA JobAtWork ==
  ASSUME EnvInv, NEW p \in Jobs, NEW o, o = job[p]
  PROVE  /\ o \in JobType /\ Sound(o) /\ Current(o) /\ o.env \in Entries /\ o.was \in Entries
         /\ o.body \in [Keys -> Values \cup {"unset", "set"}] /\ o.stale \in SUBSET Stores
         /\ o.stale \ {"file"} \in SUBSET Stores /\ o.stale \ {"secrets"} \in SUBSET Stores
         /\ o.kind \in {"env", "deploy"} => o.kind \in JobKinds \/ o.kind = "none"
         /\ file \in Entries /\ secrets \in Entries /\ secrets \in [Keys -> Values \cup {"unset", "set"}]
         /\ history \in [Jobs -> Rows] /\ job \in [Jobs -> JobType]
         /\ {"read", "write", "record", "keys", "env", "secrets", "check"} \subseteq JobPlaces
<1>1. o \in JobType /\ Sound(o) /\ Current(o) /\ history \in [Jobs -> Rows] /\ job \in [Jobs -> JobType]
  BY DEF EnvInv, EnvTyped, Fits
<1>2. file \in Entries /\ secrets \in Entries
  BY DEF EnvInv, EnvTyped, EnvTypeOK
<1>3. secrets \in [Keys -> Values \cup {"unset", "set"}]
  BY <1>2 DEF Entries
<1>4. QED
  BY <1>1, <1>2, <1>3 DEF JobType, JobPlaces

\* The update of the env.
LEMMA UpdateFits ==
  ASSUME EnvInv, NEW p \in Jobs, EnvReads(p) \/ EnvWrites(p) \/ EnvRecords(p) PROVE EnvInv'
<1>1. PICK o : o = job[p]
  OBVIOUS
<1>2. /\ o \in JobType /\ Sound(o) /\ o.env \in Entries /\ o.was \in Entries /\ o.stale \in SUBSET Stores
      /\ o.body \in [Keys -> Values \cup {"unset", "set"}] /\ file \in Entries
      /\ history \in [Jobs -> Rows] /\ "write" \in JobPlaces /\ "record" \in JobPlaces
  BY <1>1, JobAtWork
<1>3. o.kind = "env" /\ o.at # "done" /\ job[p].at # "done" /\ o.body \in Entries /\ o.answer = "none"
  BY <1>1, <1>2 DEF EnvReads, EnvWrites, EnvRecords, Doing, Sound
<1>4. ASSUME NEW answer \in Answers, Answer(p, answer), UNCHANGED <<stores, history>> PROVE EnvInv'
  BY <1>2, <1>3, <1>4, AnswersKeep
<1>5. CASE EnvReads(p)
  <2>1. CASE Set(p, [job[p] EXCEPT !.at = "write", !.env = file])
    <3>1. PICK j : j = Edited(o, "write", o.body, file, o.was, o.stale)
      OBVIOUS
    <3>2. j \in JobType /\ j.at = "write" /\ j.body = o.body /\ j.kind = o.kind /\ j.answer = o.answer
      BY <1>2, <3>1, JobEdits
    <3>3. [job[p] EXCEPT !.at = "write", !.env = file] = j
      BY <1>1, <1>2, <3>1 DEF Edited, JobType
    <3>4. Fits(j)
      BY <1>3, <3>2 DEF Fits, Sound, Current
    <3>5. QED
      BY <1>3, <1>5, <2>1, <3>2, <3>3, <3>4, GoesOnReading DEF EnvReads
  <2>2. QED
    BY <1>4, <1>5, <2>1 DEF EnvReads, Answers
<1>6. CASE EnvWrites(p)
  <2>1. CASE file' = job[p].body /\ Disturb(p, "file", [job[p] EXCEPT !.at = "record", !.was = file])
    <3>1. PICK j : j = Edited(o, "record", o.body, o.env, file, o.stale)
      OBVIOUS
    <3>2. j \in JobType /\ j.at = "record" /\ j.body = o.body /\ j.kind = o.kind /\ j.answer = o.answer
      BY <1>2, <3>1, JobEdits
    <3>3. [job[p] EXCEPT !.at = "record", !.was = file] = j
      BY <1>1, <1>2, <3>1 DEF Edited, JobType
    <3>4. Fits(j)'
      BY <1>3, <3>2 DEF Fits, Sound, Current
    <3>5. QED
      BY <1>1, <1>3, <1>6, <2>1, <3>2, <3>3, <3>4, WritesFile DEF EnvWrites
  <2>2. CASE /\ file' \in {file, job[p].body}
             /\ Disturb(p, "file", [NoJob EXCEPT !.at = "done", !.kind = "env", !.answer = "error"])
    <3>1. "env" \in JobKinds
      BY <1>2, <1>3 DEF JobType
    <3>2. QED
      BY <1>1, <1>2, <1>3, <1>6, <2>2, <3>1, LosesAnswer DEF EnvWrites, Answers
  <2>3. QED
    BY <1>6, <2>1, <2>2 DEF EnvWrites
<1>7. CASE EnvRecords(p)
  <2>1. CASE history' = [history EXCEPT ![p] = Changes(job[p].env, job[p].body)] /\ Answer(p, "ok")
    <3>1. Changes(job[p].env, job[p].body) \in Rows
      BY DEF Changes, Rows
    <3>2. history' \in [Jobs -> Rows] /\ \A q \in Jobs \ {p} : history'[q] = history[q]
      BY <1>2, <2>1, <3>1
    <3>3. QED
      BY <1>3, <1>7, <2>1, <3>2, AnswersKeep DEF EnvRecords, Answers
  <2>2. QED
    BY <1>4, <1>7, <2>1 DEF EnvRecords, Answers
<1>8. QED
  BY <1>5, <1>6, <1>7

LEMMA PreflightFits ==
  ASSUME EnvInv, NEW p \in Jobs, PreflightKeys(p) \/ PreflightAnswers(p) PROVE EnvInv'
<1>1. PICK o : o = job[p]
  OBVIOUS
<1>2. /\ o \in JobType /\ Sound(o) /\ o.env \in Entries /\ o.was \in Entries
      /\ o.stale \ {"secrets"} \in SUBSET Stores /\ "env" \in JobPlaces /\ history \in [Jobs -> Rows]
  BY <1>1, JobAtWork
<1>3. o.kind = "preflight" /\ o.at # "done" /\ job[p].at # "done" /\ o.answer = "none"
  BY <1>1, <1>2 DEF PreflightKeys, PreflightAnswers, Doing, Sound
<1>4. ASSUME NEW answer \in Answers, Answer(p, answer), UNCHANGED <<stores, history>> PROVE EnvInv'
  BY <1>2, <1>3, <1>4, AnswersKeep
<1>5. CASE PreflightKeys(p)
  <2>1. PICK body : body = [k \in Keys |-> IF secrets[k] # "unset" THEN "set" ELSE "unset"]
    OBVIOUS
  <2>2. body \in [Keys -> Values \cup {"unset", "set"}]
    BY <2>1
  <2>3. CASE Set(p, [job[p] EXCEPT !.at = "env", !.stale = @ \ {"secrets"}, !.body = body])
    <3>1. PICK j : j = Edited(o, "env", body, o.env, o.was, o.stale \ {"secrets"})
      OBVIOUS
    <3>2. j \in JobType /\ j.at = "env" /\ j.kind = o.kind /\ j.answer = o.answer
      BY <1>2, <2>2, <3>1, JobEdits
    <3>3. [job[p] EXCEPT !.at = "env", !.stale = @ \ {"secrets"}, !.body = body] = j
      BY <1>1, <1>2, <3>1 DEF Edited, JobType
    <3>4. Fits(j)
      BY <1>3, <3>2 DEF Fits, Sound, Current
    <3>5. QED
      BY <1>3, <1>5, <2>3, <3>2, <3>3, <3>4, GoesOnReading DEF PreflightKeys
  <2>4. QED
    BY <1>4, <1>5, <2>1, <2>3 DEF PreflightKeys, Answers
<1>6. CASE PreflightAnswers(p)
  <2>1. PICK answer \in {"passed", "missing"} : Answer(p, answer)
    BY <1>6 DEF PreflightAnswers
  <2>2. QED
    BY <1>4, <1>6, <2>1 DEF PreflightAnswers, Answers
<1>7. QED
  BY <1>5, <1>6

\* The provisioning of a deploy: each read makes its copy current, and its own write makes
\* the file the merge of what it holds.
LEMMA ProvisionFits ==
  ASSUME EnvInv, NEW p \in Jobs,
         ProvisionDecrypts(p) \/ ProvisionReads(p) \/ ProvisionWrites(p) \/ ProvisionChecks(p)
  PROVE  EnvInv'
<1>1. PICK o : o = job[p]
  OBVIOUS
<1>2. /\ o \in JobType /\ Sound(o) /\ Current(o) /\ o.env \in Entries /\ o.was \in Entries
      /\ o.stale \ {"secrets"} \in SUBSET Stores /\ o.stale \ {"file"} \in SUBSET Stores
      /\ file \in Entries /\ secrets \in Entries /\ secrets \in [Keys -> Values \cup {"unset", "set"}]
      /\ o.body \in [Keys -> Values \cup {"unset", "set"}] /\ history \in [Jobs -> Rows]
      /\ "read" \in JobPlaces /\ "write" \in JobPlaces /\ "check" \in JobPlaces
  BY <1>1, JobAtWork
<1>3. /\ o.kind = "deploy" /\ o.at \in {"secrets", "read", "write", "check"} /\ o.at # "done" /\ job[p].at # "done"
      /\ o.body \in Entries /\ o.answer = "none" /\ "deploy" \in JobKinds
  BY <1>1, <1>2 DEF ProvisionDecrypts, ProvisionReads, ProvisionWrites, ProvisionChecks, Doing, Sound, JobType
<1>4. ASSUME NEW answer \in Answers, Answer(p, answer), UNCHANGED <<stores, history>> PROVE EnvInv'
  BY <1>2, <1>3, <1>4, AnswersKeep
<1>5. CASE ProvisionDecrypts(p)
  <2>1. PICK j : j = Edited(o, "read", secrets, o.env, o.was, o.stale \ {"secrets"})
    OBVIOUS
  <2>2. /\ j \in JobType /\ j.at = "read" /\ j.body = secrets /\ j.kind = o.kind /\ j.keys = o.keys
        /\ j.answer = o.answer /\ j.stale = o.stale \ {"secrets"}
    BY <1>2, <2>1, JobEdits
  <2>3. [job[p] EXCEPT !.at = "read", !.body = secrets, !.stale = @ \ {"secrets"}] = j
    BY <1>1, <1>2, <2>1 DEF Edited, JobType
  <2>4. Fits(j)
    BY <1>2, <1>3, <2>2 DEF Fits, Sound, Current
  <2>5. QED
    BY <1>3, <1>5, <2>2, <2>3, <2>4, GoesOnReading DEF ProvisionDecrypts
<1>6. CASE ProvisionReads(p)
  <2>1. PICK at : at = IF Merged(file, job[p].body) = file THEN "check" ELSE "write"
    OBVIOUS
  <2>2. at \in JobPlaces /\ at \in {"check", "write"} /\ (at = "check" => Merged(file, o.body) = file)
    BY <1>1, <1>2, <2>1
  <2>3. CASE Set(p, [job[p] EXCEPT !.env = file, !.stale = @ \ {"file"}, !.at = at])
    <3>1. PICK j : j = Edited(o, at, o.body, file, o.was, o.stale \ {"file"})
      OBVIOUS
    <3>2. /\ j \in JobType /\ j.at = at /\ j.body = o.body /\ j.env = file /\ j.kind = o.kind
          /\ j.keys = o.keys /\ j.answer = o.answer /\ j.stale = o.stale \ {"file"}
      BY <1>2, <2>2, <3>1, JobEdits
    <3>3. [job[p] EXCEPT !.env = file, !.stale = @ \ {"file"}, !.at = at] = j
      BY <1>1, <1>2, <3>1 DEF Edited, JobType
    <3>4. o.at = "read"
      BY <1>1, <1>6 DEF ProvisionReads, Doing
    <3>5. Fits(j)
      BY <1>2, <1>3, <2>2, <3>2, <3>4 DEF Fits, Sound, Current
    <3>6. QED
      BY <1>3, <1>6, <2>3, <3>2, <3>3, <3>5, GoesOnReading DEF ProvisionReads
  <2>4. QED
    BY <1>4, <1>6, <2>1, <2>3 DEF ProvisionReads, Answers
<1>7. CASE ProvisionWrites(p)
  <2>1. Merged(o.env, o.body) \in Entries /\ o.at = "write"
    BY <1>1, <1>2, <1>3, <1>7, MergedIsEntries DEF ProvisionWrites, Doing
  <2>2. CASE /\ file' = Merged(job[p].env, job[p].body)
             /\ Disturb(p, "file", [job[p] EXCEPT !.at = "check", !.stale = @ \ {"file"}])
    <3>1. PICK j : j = Edited(o, "check", o.body, o.env, o.was, o.stale \ {"file"})
      OBVIOUS
    <3>2. /\ j \in JobType /\ j.at = "check" /\ j.body = o.body /\ j.env = o.env /\ j.kind = o.kind
          /\ j.keys = o.keys /\ j.answer = o.answer /\ j.stale = o.stale \ {"file"}
      BY <1>2, <3>1, JobEdits
    <3>3. [job[p] EXCEPT !.at = "check", !.stale = @ \ {"file"}] = j
      BY <1>1, <1>2, <3>1 DEF Edited, JobType
    <3>4. file' = Merged(o.env, o.body) /\ UNCHANGED <<secrets, required, history>>
      BY <1>1, <1>7, <2>2 DEF ProvisionWrites
    <3>5. Merged(j.env, j.body) = Merged(o.env, o.body)
      BY <3>2
    <3>6. Current(j)'
      BY <1>2, <1>3, <2>1, <3>2, <3>4, <3>5 DEF Current, Merged
    <3>7. Fits(j)'
      BY <1>3, <3>2, <3>6 DEF Fits, Sound
    <3>8. QED
      BY <1>3, <2>1, <2>2, <3>2, <3>3, <3>4, <3>7, WritesFile
  <2>3. CASE /\ file' \in {file, Merged(job[p].env, job[p].body)}
             /\ Disturb(p, "file", [NoJob EXCEPT !.at = "done", !.kind = "deploy", !.answer = "recovers"])
    BY <1>1, <1>2, <1>3, <1>7, <2>1, <2>3, LosesAnswer DEF ProvisionWrites, Answers
  <2>4. QED
    BY <1>7, <2>2, <2>3 DEF ProvisionWrites
<1>8. CASE ProvisionChecks(p)
  <2>1. PICK answer \in {"posts", "blocked"} : Answer(p, answer)
    BY <1>8 DEF ProvisionChecks, ProvisionEnds
  <2>2. QED
    BY <1>4, <1>8, <2>1 DEF ProvisionChecks, Answers
<1>9. QED
  BY <1>5, <1>6, <1>7, <1>8

LEMMA ServesFits == ASSUME EnvInv, NEW p \in Jobs, EnvServe(p) PROVE EnvInv'
  BY UpdateFits, PreflightFits, ProvisionFits DEF EnvServe

LEMMA CleaningFits == ASSUME EnvInv, FileCleaned PROVE EnvInv'
<1>1. job' = [q \in Jobs |-> Staled(job[q], "file")] /\ file' = NoEntries /\ UNCHANGED <<secrets, required, history>>
  BY DEF FileCleaned
<1>2. ASSUME NEW q \in Jobs PROVE job'[q] \in JobType /\ Fits(job[q])' /\ job'[q].at = job[q].at
  BY <1>1, OthersStaled DEF Stores
<1>3. job' \in [Jobs -> JobType] /\ Unrecorded'
  BY <1>1, <1>2 DEF EnvInv, Unrecorded
<1>4. EnvTyped'
  BY <1>1, <1>3, NoEntriesIsEntries DEF EnvInv, EnvTyped, EnvTypeOK, JobType
<1>5. QED
  BY <1>2, <1>3, <1>4 DEF EnvInv

\* What a step of the deploy does to the environment.
LEMMA EnvironmentSteps ==
  ASSUME [Next]_vars PROVE EnvNext \/ UNCHANGED envVars
  BY DEF Next, vars, EnvSteps, EnvBlocks, RelayBlocks, RelayConflict, DoneEvent, StreamBreaks, Goes,
     GatePolls, GateConfirms, GateRecovers, TargetRow, TargetDetail, TargetHealth, TargetWrites, RelaySteps,
     ClientDeploys, ClientPolls, ClientAsks, ClientLeaves, envVars, stores

LEMMA EnvironmentKeeps == ASSUME EnvInv, [Next]_vars PROVE EnvInv'
<1>1. CASE UNCHANGED envVars
  BY <1>1 DEF envVars, stores, EnvInv, EnvTyped, EnvTypeOK, Unrecorded, Fits, Sound, Current
<1>2. CASE EnvNext
  BY <1>2, ArrivesFits, ServesFits, CleaningFits DEF EnvNext
<1>3. QED
  BY <1>1, <1>2, EnvironmentSteps

\* Jobs that have not begun, or that are over, promise nothing.
LEMMA EnvironmentStarts == ASSUME Init PROVE EnvInv
<1>1. \A p \in Jobs : history[p] = {}
  BY DEF Init, EnvInit
<1>2. ASSUME NEW j, job = [p \in Jobs |-> j], j \in JobType, Fits(j),
             file \in Entries, secrets \in Entries, required \subseteq Keys, history = [p \in Jobs |-> {}]
      PROVE  EnvInv
  <2>1. \A p \in Jobs : job[p] = j /\ Fits(job[p]) /\ job[p].keys \subseteq Keys
    BY <1>2 DEF JobType
  <2>2. QED
    BY <1>1, <1>2, <2>1 DEF EnvInv, EnvTyped, EnvTypeOK, Unrecorded, Rows
<1>3. CASE EnvInit
  <2>1. Fits(NoJob)
    BY NoJobTyped DEF Fits, Sound, Current
  <2>2. QED
    BY <1>2, <1>3, <2>1, NoJobTyped DEF EnvInit
<1>4. CASE /\ file = NoEntries /\ secrets = NoEntries /\ required = {}
           /\ history = [p \in Jobs |-> {}]
           /\ job = [p \in Jobs |-> [NoJob EXCEPT !.at = "done"]]
  <2>1. PICK j : j = Over("none", "none")
    OBVIOUS
  <2>2. j \in JobType /\ Fits(j)
    BY <2>1, JobOver DEF Answers
  <2>3. j = [NoJob EXCEPT !.at = "done"]
    BY <2>1, NoJobTyped DEF Over, JobType
  <2>4. QED
    BY <1>2, <1>4, <2>2, <2>3, NoEntriesIsEntries
<1>5. QED
  BY <1>3, <1>4 DEF Init

THEOREM EnvInductive == Spec => []EnvInv
  BY EnvironmentStarts, EnvironmentKeeps, PTL DEF Spec

\* What others do leaves a job where it is.
LEMMA OthersGoOn ==
  ASSUME EnvInv, EnvNext, NEW p \in Jobs, ~EnvArrive(p), ~EnvServe(p)
  PROVE  job'[p].at = job[p].at /\ job'[p].answer = job[p].answer
<1>0. job \in [Jobs -> JobType] /\ job[p] \in JobType
  BY DEF EnvInv, EnvTyped
<1>1. ASSUME NEW q \in Jobs, q # p, NEW store, NEW j, Set(q, j) \/ Disturb(q, store, j)
      PROVE  job'[p] = job[p] \/ job'[p] = Staled(job[p], store)
  BY <1>0, <1>1 DEF Set, Disturb
<1>2. ASSUME NEW store, job'[p] = job[p] \/ job'[p] = Staled(job[p], store)
      PROVE  job'[p].at = job[p].at /\ job'[p].answer = job[p].answer
  BY <1>0, <1>2 DEF Staled, JobType
<1>3. ASSUME NEW q \in Jobs, q # p, EnvArrive(q)
      PROVE  job'[p].at = job[p].at /\ job'[p].answer = job[p].answer
  BY <1>1, <1>2, <1>3
     DEF EnvArrive, EnvPut, SecretPut, SecretDelete, RequiredPut, PreflightStart, ProvisionStart, Begin
<1>4. ASSUME NEW q \in Jobs, q # p, EnvServe(q)
      PROVE  job'[p].at = job[p].at /\ job'[p].answer = job[p].answer
  BY <1>1, <1>2, <1>4
     DEF EnvServe, EnvReads, EnvWrites, EnvRecords, PreflightKeys, PreflightAnswers, ProvisionDecrypts,
         ProvisionReads, ProvisionWrites, ProvisionChecks, ProvisionEnds, Answer
<1>5. CASE FileCleaned
  BY <1>2, <1>5 DEF FileCleaned
<1>6. QED
  BY <1>3, <1>4, <1>5 DEF EnvNext

\* So an update that is over then was answered, or stopped by its own write.
LEMMA OnlyItsOwnStep ==
  ASSUME EnvInv, EnvNext, NEW p \in Jobs, job[p].kind = "env", job[p].at # "done", job'[p].at = "done"
  PROVE  EnvReads(p) \/ EnvWrites(p) \/ EnvRecords(p)
<1>0. job[p] \in JobType /\ job \in [Jobs -> JobType]
  BY DEF EnvInv, EnvTyped
<1>1. ASSUME EnvArrive(p) PROVE job[p].at = "idle"
  BY <1>1 DEF EnvArrive, EnvPut, SecretPut, SecretDelete, RequiredPut, PreflightStart, ProvisionStart, Begin
<1>2. job[p].at # "idle"
  BY DEF EnvInv, Fits, Sound
<1>3. QED
  BY <1>1, <1>2, OthersGoOn
     DEF EnvServe, PreflightKeys, PreflightAnswers, ProvisionDecrypts, ProvisionReads, ProvisionWrites,
         ProvisionChecks, Doing

\* The rows of a history are what the update did to each key.
LEMMA ChangesAreEffects ==
  ASSUME NEW was \in Entries, NEW is \in Entries, NEW k \in Keys,
         NEW effect \in {"create", "update", "delete"}
  PROVE  <<k, effect>> \in Changes(was, is) <=> effect = Effect(was[k], is[k])
<1>1. <<k, effect>> \in Changes(was, is) <=>
        \/ effect = "create" /\ was[k] = "unset" /\ is[k] # "unset"
        \/ effect = "update" /\ "unset" \notin {was[k], is[k]} /\ was[k] # is[k]
        \/ effect = "delete" /\ was[k] # "unset" /\ is[k] = "unset"
  BY DEF Changes
<1>2. QED
  BY <1>1 DEF Effect

\* The history of an env update says what its write did to the file that was there, for each
\* key nobody changed between its read and its write; one that fails, at the relay or at the
\* insert of the rows, leaves none (routes/apps.ts).
THEOREM HistoriesAreTrue == Spec => HistoryIsTrue
<1> DEFINE True ==
      \A p \in Jobs : job[p].kind = "env" /\ job[p].at # "done" /\ job'[p].at = "done" =>
        IF job'[p].answer = "ok"
        THEN \A k \in Keys, effect \in {"create", "update", "delete"} :
               job[p].was[k] = job[p].env[k]
                 => (<<k, effect>> \in history'[p] <=> effect = Effect(job[p].was[k], job[p].body[k]))
        ELSE history'[p] = {}
<1>1. ASSUME EnvInv, [Next]_vars PROVE [True]_envVars
  <2>1. CASE UNCHANGED envVars
    BY <2>1
  <2>2. CASE EnvNext
    <3>1. ASSUME NEW p \in Jobs, job[p].kind = "env", job[p].at # "done", job'[p].at = "done"
          PROVE  IF job'[p].answer = "ok"
                 THEN \A k \in Keys, effect \in {"create", "update", "delete"} :
                        job[p].was[k] = job[p].env[k]
                          => (<<k, effect>> \in history'[p]
                                <=> effect = Effect(job[p].was[k], job[p].body[k]))
                 ELSE history'[p] = {}
      <4>1. EnvReads(p) \/ EnvWrites(p) \/ EnvRecords(p)
        BY <1>1, <2>2, <3>1, OnlyItsOwnStep
      <4>2. history[p] = {} /\ history \in [Jobs -> Rows] /\ job \in [Jobs -> JobType] /\ job[p] \in JobType
        BY <1>1, <3>1 DEF EnvInv, EnvTyped, Unrecorded
      <4>3. job[p].env \in Entries /\ job[p].body \in Entries
        BY <1>1, <3>1, <4>2 DEF EnvInv, Fits, Sound, JobType
      <4>4. ASSUME Answer(p, "error") PROVE job'[p].answer = "error"
        BY <1>1, <4>4, JobAnswered DEF EnvInv, Answers
      <4>5. CASE EnvReads(p)
        <5>1. Answer(p, "error")
          <6>1. ASSUME Set(p, [job[p] EXCEPT !.at = "write", !.env = file]) PROVE FALSE
            <7>1. job'[p] = [job[p] EXCEPT !.at = "write", !.env = file]
              BY <4>2, <6>1 DEF Set
            <7>2. QED
              BY <3>1, <4>2, <7>1 DEF JobType
          <6>2. QED
            BY <4>5, <6>1 DEF EnvReads
        <5>2. QED
          BY <4>2, <4>4, <4>5, <5>1 DEF EnvReads
      <4>6. CASE EnvWrites(p)
        <5>1. Disturb(p, "file", [NoJob EXCEPT !.at = "done", !.kind = "env", !.answer = "error"])
          <6>1. ASSUME Disturb(p, "file", [job[p] EXCEPT !.at = "record", !.was = file]) PROVE FALSE
            <7>1. job'[p] = [job[p] EXCEPT !.at = "record", !.was = file]
              BY <6>1 DEF Disturb
            <7>2. QED
              BY <3>1, <4>2, <7>1 DEF JobType
          <6>2. QED
            BY <4>6, <6>1 DEF EnvWrites
        <5>2. job'[p].answer = "error"
          BY <5>1 DEF Disturb, NoJob
        <5>3. QED
          BY <4>2, <4>6, <5>2 DEF EnvWrites
      <4>7. CASE EnvRecords(p)
        <5>1. CASE history' = [history EXCEPT ![p] = Changes(job[p].env, job[p].body)] /\ Answer(p, "ok")
          <6>1. history'[p] = Changes(job[p].env, job[p].body)
            BY <4>2, <5>1
          <6>2. job'[p].answer = "ok"
            BY <1>1, <5>1, JobAnswered DEF EnvInv, Answers
          <6>3. ASSUME NEW k \in Keys, NEW effect \in {"create", "update", "delete"},
                       job[p].was[k] = job[p].env[k]
                PROVE  <<k, effect>> \in history'[p] <=> effect = Effect(job[p].was[k], job[p].body[k])
            <7>1. \A was, is \in Entries : <<k, effect>> \in Changes(was, is) <=> effect = Effect(was[k], is[k])
              BY ChangesAreEffects
            <7>2. <<k, effect>> \in Changes(job[p].env, job[p].body)
                    <=> effect = Effect(job[p].env[k], job[p].body[k])
              BY <4>3, <7>1
            <7>3. QED
              BY <6>1, <6>3, <7>2
          <6>4. QED
            BY <6>2, <6>3
        <5>2. CASE Answer(p, "error") /\ UNCHANGED history
          BY <4>2, <4>4, <5>2
        <5>3. QED
          BY <4>7, <5>1, <5>2 DEF EnvRecords
      <4>8. QED
        BY <4>1, <4>5, <4>6, <4>7
    <3>2. QED
      BY <3>1
  <2>3. QED
    BY <1>1, <2>1, <2>2, EnvironmentSteps
<1>2. QED
  BY <1>1, EnvInductive, PTL DEF Spec, HistoryIsTrue

\* Only the check at the end of the provisioning posts a deploy.
LEMMA PostsByChecking ==
  ASSUME EnvInv, EnvNext, NEW p \in Jobs, job[p].kind = "deploy", job[p].at # "done",
         job'[p].answer = "posts"
  PROVE  ProvisionChecks(p)
<1>0. /\ job \in [Jobs -> JobType] /\ job[p] \in JobType
      /\ job[p].answer = "none" /\ job[p].at # "idle"
  BY DEF EnvInv, EnvTyped, Fits, Sound
<1>1. EnvServe(p)
  <2>1. ~EnvArrive(p)
    BY <1>0 DEF EnvArrive, EnvPut, SecretPut, SecretDelete, RequiredPut, PreflightStart, ProvisionStart, Begin
  <2>2. QED
    BY <1>0, <2>1, OthersGoOn
<1>2. ASSUME NEW j, Set(p, j) \/ \E store \in Stores : Disturb(p, store, j), j.answer # "posts" PROVE FALSE
  BY <1>0, <1>2 DEF Set, Disturb
<1>3. ASSUME NEW answer \in Answers \ {"posts"}, Answer(p, answer) PROVE FALSE
  BY <1>3, JobAnswered DEF EnvInv
<1>4. CASE ProvisionDecrypts(p)
  <2>1. [job[p] EXCEPT !.at = "read", !.body = secrets, !.stale = @ \ {"secrets"}].answer = "none"
    BY <1>0 DEF JobType
  <2>2. QED
    BY <1>2, <1>4, <2>1 DEF ProvisionDecrypts
<1>5. CASE ProvisionReads(p)
  <2>1. PICK at : at = IF Merged(file, job[p].body) = file THEN "check" ELSE "write"
    OBVIOUS
  <2>2. [job[p] EXCEPT !.env = file, !.stale = @ \ {"file"}, !.at = at].answer = "none"
    BY <1>0 DEF JobType
  <2>3. Set(p, [job[p] EXCEPT !.env = file, !.stale = @ \ {"file"}, !.at = at]) \/ Answer(p, "recovers")
    BY <1>5, <2>1 DEF ProvisionReads
  <2>4. QED
    BY <1>2, <1>3, <2>2, <2>3 DEF Answers
<1>6. CASE ProvisionWrites(p)
  <2>1. /\ [job[p] EXCEPT !.at = "check", !.stale = @ \ {"file"}].answer = "none"
        /\ [NoJob EXCEPT !.at = "done", !.kind = "deploy", !.answer = "recovers"].answer = "recovers"
    BY <1>0 DEF JobType, NoJob
  <2>2. QED
    BY <1>2, <1>6, <2>1 DEF ProvisionWrites, Stores
<1>7. QED
  BY <1>1, <1>4, <1>5, <1>6
     DEF EnvServe, EnvReads, EnvWrites, EnvRecords, PreflightKeys, PreflightAnswers, Doing

\* A deploy is posted only with every stored secret in the relay's .env and every required
\* key resolved, but for what others wrote after the deploy read or wrote it last
\* (secret-provisioning.ts).
THEOREM PostedDeploysAreProvisioned == Spec => DeploysAreProvisioned
<1> DEFINE Provisioned ==
      \A p \in Jobs : job[p].kind = "deploy" /\ job[p].at # "done" /\ job'[p].answer = "posts"
        => /\ {"secrets", "file"} \cap job[p].stale = {} =>
                \A k \in Keys : secrets[k] # "unset" => file[k] = secrets[k]
           /\ {"required", "file"} \cap job[p].stale = {} => \A k \in required : file[k] \notin Blank
<1>1. ASSUME EnvInv, [Next]_vars PROVE [Provisioned]_envVars
  <2>1. CASE UNCHANGED envVars
    BY <2>1
  <2>2. CASE EnvNext
    <3>1. SUFFICES ASSUME NEW p \in Jobs, job[p].kind = "deploy", job[p].at # "done",
                          job'[p].answer = "posts", "file" \notin job[p].stale
                   PROVE  /\ "secrets" \notin job[p].stale =>
                               \A k \in Keys : secrets[k] # "unset" => file[k] = secrets[k]
                          /\ "required" \notin job[p].stale => \A k \in required : file[k] \notin Blank
      OBVIOUS
    <3>2. ProvisionChecks(p)
      BY <1>1, <2>2, <3>1, PostsByChecking
    <3>3. /\ "required" \notin job[p].stale => job[p].keys = required
          /\ "secrets" \notin job[p].stale => job[p].body = secrets
          /\ file = Merged(job[p].env, job[p].body)
      BY <1>1, <3>1, <3>2 DEF EnvInv, Fits, Current, ProvisionChecks, Doing
    <3>4. Missing(p) = {}
      BY <1>1, <3>1, <3>2, JobAnswered DEF EnvInv, ProvisionChecks, ProvisionEnds, Answers
    <3>5. ComputeMissingRequiredKeys(job[p].keys, file) = {}
      BY <3>3, <3>4 DEF Missing
    <3>6. \A k \in job[p].keys : file[k] \notin Blank
      BY <3>5 DEF ComputeMissingRequiredKeys
    <3>7. \A k \in Keys : job[p].body[k] # "unset" => file[k] = job[p].body[k]
      BY <3>3 DEF Merged
    <3>8. QED
      BY <3>3, <3>6, <3>7
  <2>3. QED
    BY <1>1, <2>1, <2>2, EnvironmentSteps
<1>2. QED
  BY <1>1, EnvInductive, PTL DEF Spec, DeploysAreProvisioned

-----------------------------------------------------------------------------
(* The log of the deploy: which steps it holds, by what decided it.        *)

Steps ==
  [name : {"docker build", "rollback: health check", "build cache prune", "preflight", "env-preflight",
           "deploy-conflict", "check", "recovery", "post-deploy health gate"},
   kind : {"none", "preflight-check", "deploy-conflict"}, status : {"success", "failure"}]
Logs == Seq(Steps)

\* The steps a relay reports and the ones the panel adds to them carry no marker.
Unmarked(steps) == steps \in Logs /\ \A i \in DOMAIN steps : steps[i].kind = "none"

FailsMarked(steps) ==
  \E i \in DOMAIN steps : IsPreflightCheckStep(steps[i]) /\ steps[i].status = "failure"

\* A row is written with what decided it.
ByStream ==
  /\ Unmarked(deploy.steps)
  /\ \/ deploy.row = "success" /\ deploy.card = "healthy"
     \/ /\ deploy.row = "failed"
        /\ deploy.card = IF ClassifyDeployOutcome("failed", deploy.steps) = "rolled_back_healthy"
                         THEN "healthy" ELSE "unhealthy"
ByRecovery == Unmarked(deploy.steps) /\ deploy.row # "running"
ByBlock == deploy.row = "failed" /\ FailsMarked(deploy.steps)
ByConflict == deploy.row = "failed" /\ deploy.steps = <<ConflictStep>>

DeployType ==
  [at : {"off", "streaming", "breaking", "gate", "target", "detail", "health", "verdict", "done"},
   how : {"none", "blocked", "conflict", "stream", "recovery"}, steps : Logs, claim : BOOLEAN,
   row : {"running", "success", "failed", "interrupted"},
   card : {"deploying", "kept", "healthy", "unhealthy"},
   proof : SUBSET BOOLEAN, head : Commits \cup {0}, mistaken : BOOLEAN]

\* What is known of the deploy at each place.
PlaceInv ==
  /\ deploy.at # "done" => deploy.row = "running" /\ Unmarked(deploy.steps)
  /\ deploy.at \notin {"gate", "done"} => ~deploy.claim
  /\ deploy.at = "gate" =>
       /\ deploy.how = IF deploy.claim THEN "stream" ELSE "recovery"
       /\ deploy.claim => ~HasRollbackOrFailedStep(deploy.steps)
  /\ deploy.at \in {"target", "detail", "health", "verdict"} => deploy.how = "recovery"
  /\ deploy.at = "done" =>
       \/ deploy.how = "stream" /\ ByStream
       \/ deploy.how = "recovery" /\ ByRecovery
       \/ deploy.how = "blocked" /\ ByBlock
       \/ deploy.how = "conflict" /\ ByConflict

DeployInv == deploy \in DeployType /\ PlaceInv

\* The steps that carry no marker.
Plain == {e \in Steps : e.kind = "none"}

LEMMA PlainLogs ==
  ASSUME NEW e \in Plain, NEW f \in Plain
  PROVE  Unmarked(<< >>) /\ Unmarked(<<e>>) /\ Unmarked(<<e, f>>)
<1>1. e \in Steps /\ e.kind = "none" /\ f \in Steps /\ f.kind = "none"
  BY DEF Plain
<1>2. << >> \in Logs /\ <<e>> \in Logs /\ <<e, f>> \in Logs
  BY <1>1 DEF Logs
<1>3. QED
  BY <1>1, <1>2 DEF Unmarked

LEMMA StreamsAreUnmarked == ASSUME NEW s \in Streams PROVE Unmarked(s)
<1>1. ASSUME NEW status \in {"success", "failure"}
      PROVE  /\ Build(status) \in Plain /\ Prune(status) \in Plain
             /\ PreflightSummary(status) \in Plain /\ RollbackHealth(status) \in Plain
  BY DEF Plain, Steps, Step, Build, PreflightSummary, Prune, RollbackHealth
<1>2. PICK e \in Plain, f \in Plain : s \in {<< >>, <<e>>, <<e, f>>}
  BY <1>1 DEF Streams
<1>3. QED
  BY <1>2, PlainLogs

\* A step of the panel's own, added to an unmarked log.
LEMMA AppendKeepsUnmarked ==
  ASSUME NEW s, Unmarked(s), NEW e \in Steps, e.kind = "none"
  PROVE  Unmarked(Append(s, e))
  BY DEF Unmarked, Logs

LEMMA OwnSteps ==
  ASSUME NEW status \in {"success", "failure"}
  PROVE  /\ GateStep(status) \in Steps /\ GateStep(status).kind = "none"
         /\ GateStep(status).name = "post-deploy health gate"
         /\ RecoveryStep(status) \in Steps /\ RecoveryStep(status).kind = "none"
  BY DEF GateStep, RecoveryStep, Step, Steps

\* A claim the gate refuses is an outage: no step of its log is a rollback.
LEMMA RefusedClaimIsOutage ==
  ASSUME NEW s, Unmarked(s), ~HasRollbackOrFailedStep(s)
  PROVE  ClassifyDeployOutcome("failed", Append(s, GateStep("failure"))) # "rolled_back_healthy"
<1> DEFINE log == Append(s, GateStep("failure"))
<1>1. \A i \in DOMAIN s : s[i].name # "rollback: health check"
  BY DEF HasRollbackOrFailedStep, Has
<1>2. \A i \in DOMAIN log : log[i].name # "rollback: health check"
  <2>1. PICK e \in Steps : e = GateStep("failure") /\ e.name # "rollback: health check"
    BY OwnSteps
  <2>2. s \in Seq(Steps)
    BY DEF Unmarked, Logs
  <2>3. \A i \in DOMAIN Append(s, e) : \/ i \in DOMAIN s /\ Append(s, e)[i] = s[i]
                                      \/ Append(s, e)[i] = e
    BY <2>2
  <2>4. QED
    BY <1>1, <2>1, <2>3
<1> HIDE DEF log
<1>3. LastRollbackHealth(log) = "none"
  BY <1>2 DEF LastRollbackHealth
<1>4. QED
  BY <1>3 DEF ClassifyDeployOutcome, log

\* The log of a deploy the relay's preflight blocked holds a marked step.
LEMMA ThoseOfOne ==
  ASSUME NEW s \in Steps, NEW kept \in SUBSET {1}
  PROVE  Those(<<s>>, kept) \in Logs
<1>1. CASE kept = {}
  BY <1>1, FS_EmptySet DEF Those, Logs
<1>2. CASE kept = {1}
  <2>1. Cardinality({1}) = 1
    BY FS_Singleton
  <2>2. {j \in {1} : j <= 1} = {1}
    OBVIOUS
  <2> DEFINE Nth(n) == CHOOSE i \in {1} : Cardinality({j \in {1} : j <= i}) = n
  <2>3. Nth(1) = 1
    BY <2>1, <2>2
  <2>4. PICK f : f = [n \in 1..1 |-> <<s>>[Nth(n)]]
    OBVIOUS
  <2>5. \A n \in 1..1 : n = 1
    OBVIOUS
  <2>6. f[1] = s
    <3> HIDE DEF Nth
    <3>1. QED
      BY <2>3, <2>4
  <2>7. f \in [1..1 -> Steps]
    BY <2>4, <2>5, <2>6
  <2>8. f \in Seq(Steps)
    BY <2>7, SeqDef
  <2>9. Those(<<s>>, kept) = f
    BY <1>2, <2>1, <2>4 DEF Those
  <2>10. QED
    BY <2>8, <2>9 DEF Logs
<1>3. QED
  BY <1>1, <1>2

LEMMA BlockedLogsAreMarked ==
  ASSUME NEW before \in {<< >>, <<PreflightSummary("failure")>>, <<PreflightSummary("success")>>},
         NEW failed \in SUBSET {"containers", "disk"}
  PROVE  /\ BlockedDeployLogSteps(before, failed) \in Logs
         /\ FailsMarked(BlockedDeployLogSteps(before, failed))
<1> DEFINE kept == {i \in DOMAIN before : ~IsSummary(before[i])}
           a == Those(before, kept)
           n == IF failed = {} THEN 1 ELSE Cardinality(failed)
           b == BlockedPreflightSteps(failed)
<1>1. a \in Logs
  <2>1. CASE before = << >>
    <3>1. kept = {}
      BY <2>1
    <3> HIDE DEF kept
    <3>2. QED
      BY <3>1, FS_EmptySet DEF Those, Logs
  <2>2. CASE before # << >>
    <3>1. PICK s \in Steps : before = <<s>>
      BY <2>2 DEF PreflightSummary, Step, Steps
    <3>2. kept \in SUBSET {1}
      BY <3>1
    <3>3. QED
      BY <3>1, <3>2, ThoseOfOne
  <2>3. QED
    BY <2>1, <2>2
<1>2. n \in Nat /\ n >= 1
  <2>1. IsFiniteSet(failed)
    <3>1. IsFiniteSet({"containers", "disk"})
      <4>1. IsFiniteSet({"containers"})
        BY FS_Singleton
      <4>2. IsFiniteSet({"containers"} \cup {"disk"})
        BY <4>1, FS_AddElement
      <4>3. {"containers"} \cup {"disk"} = {"containers", "disk"}
        OBVIOUS
      <4>4. QED
        BY <4>2, <4>3
    <3>2. QED
      BY <3>1, FS_Subset
  <2>2. QED
    BY <2>1, FS_CardinalityType, FS_EmptySet
<1>3. b \in Logs /\ Len(b) >= 1 /\ b[1].kind = "preflight-check" /\ b[1].status = "failure"
  <2>1. b = [i \in 1..n |-> Step("check", "preflight-check", "failure")]
    BY DEF BlockedPreflightSteps
  <2>2. Step("check", "preflight-check", "failure") \in Steps
        /\ Step("check", "preflight-check", "failure").kind = "preflight-check"
        /\ Step("check", "preflight-check", "failure").status = "failure"
    BY DEF Step, Steps
  <2> HIDE DEF n, b
  <2>3. QED
    BY <1>2, <2>1, <2>2 DEF Logs
<1> HIDE DEF a, b
<1>4. a \o b \in Logs /\ Len(a) + 1 \in DOMAIN (a \o b) /\ (a \o b)[Len(a) + 1] = b[1]
  BY <1>1, <1>3 DEF Logs
<1>5. BlockedDeployLogSteps(before, failed) = a \o b
  BY DEF BlockedDeployLogSteps, a, b
<1>6. QED
  BY <1>3, <1>4, <1>5 DEF FailsMarked, IsPreflightCheckStep

\* The row is written, by what decided it before or by what decides it now.
LEMMA NoDeployTyped ==
  /\ NoDeploy \in DeployType /\ NoDeploy.at = "off" /\ NoDeploy.proof = {}
  /\ NoDeploy.row = "running" /\ ~NoDeploy.claim /\ NoDeploy.steps = << >>
<1>1. << >> \in Logs /\ {} \in SUBSET BOOLEAN
  BY DEF Logs
<1>2. QED
  BY <1>1 DEF NoDeploy, DeployType

LEMMA Settles ==
  ASSUME deploy \in DeployType, NEW status \in {"success", "failed", "interrupted"},
         NEW card \in {"kept", "healthy", "unhealthy"}, NEW steps \in Logs, Writes(status, card, steps)
  PROVE  /\ deploy' \in DeployType /\ deploy'.at = "done" /\ deploy'.how = deploy.how
         /\ deploy'.row = status /\ deploy'.card = card /\ deploy'.steps = steps
<1>1. deploy' = [NoDeploy EXCEPT !.at = "done", !.how = deploy.how, !.claim = deploy.claim,
                                 !.row = status, !.card = card, !.steps = steps]
  BY DEF Writes, Goto
<1>2. QED
  BY <1>1, NoDeployTyped DEF DeployType

LEMMA Fails ==
  ASSUME deploy \in DeployType, NEW how \in {"blocked", "conflict", "stream"},
         NEW card \in {"kept", "healthy", "unhealthy"}, NEW steps \in Logs,
         Goto([deploy EXCEPT !.at = "done", !.how = how, !.row = "failed", !.card = card, !.steps = steps])
  PROVE  /\ deploy' \in DeployType /\ deploy'.at = "done" /\ deploy'.how = how
         /\ deploy'.row = "failed" /\ deploy'.card = card /\ deploy'.steps = steps
  BY DEF Goto, DeployType

\* The gate is asked, with a claim behind it or none.
LEMMA AsksGate ==
  ASSUME DeployInv, deploy.at \notin {"gate", "done"}, NEW how \in {"stream", "recovery"},
         NEW steps \in Streams, NEW claim \in BOOLEAN, claim <=> how = "stream",
         claim => ~HasRollbackOrFailedStep(steps),
         deploy' = [deploy EXCEPT !.at = "gate", !.how = how, !.steps = steps, !.claim = claim]
  PROVE  DeployInv'
<1>1. Unmarked(steps) /\ steps \in Logs
  BY StreamsAreUnmarked DEF Unmarked
<1>2. deploy \in DeployType /\ deploy.row = "running"
  BY DEF DeployInv, PlaceInv
<1>3. /\ deploy' \in DeployType /\ deploy'.at = "gate" /\ deploy'.how = how /\ deploy'.steps = steps
      /\ deploy'.claim = claim /\ deploy'.row = "running"
  BY <1>1, <1>2 DEF DeployType
<1>4. QED
  BY <1>1, <1>3 DEF DeployInv, PlaceInv

\* A block or a conflict.
LEMMA BlocksKeep ==
  ASSUME DeployInv, EnvBlocks \/ RelayBlocks \/ RelayConflict PROVE DeployInv'
<1>0. deploy \in DeployType
  BY DEF DeployInv
<1>1. ASSUME NEW steps \in Logs, FailsMarked(steps),
             Goto([deploy EXCEPT !.at = "done", !.how = "blocked", !.row = "failed", !.card = "kept",
                                 !.steps = steps])
      PROVE  DeployInv'
  <2>1. /\ deploy' \in DeployType /\ deploy'.at = "done" /\ deploy'.how = "blocked"
        /\ deploy'.row = "failed" /\ deploy'.steps = steps
    BY <1>0, <1>1, Fails
  <2>2. QED
    BY <1>1, <2>1 DEF DeployInv, PlaceInv, ByBlock, FailsMarked
<1>2. CASE EnvBlocks
  <2>0. /\ Step("env-preflight", "preflight-check", "failure") \in Steps
        /\ Step("env-preflight", "preflight-check", "failure").kind = "preflight-check"
        /\ Step("env-preflight", "preflight-check", "failure").status = "failure"
    BY DEF Step, Steps
  <2>1. PICK e \in Steps : e = Step("env-preflight", "preflight-check", "failure") /\ e.kind = "preflight-check"
                        /\ e.status = "failure"
    BY <2>0
  <2>2. <<e>> \in Logs /\ FailsMarked(<<e>>)
    <3>1. <<e>> \in Seq(Steps) /\ 1 \in DOMAIN <<e>> /\ <<e>>[1] = e
      BY <2>1
    <3>2. QED
      BY <2>1, <3>1 DEF Logs, FailsMarked, IsPreflightCheckStep
  <2>3. QED
    BY <1>1, <1>2, <2>1, <2>2 DEF EnvBlocks
<1>3. CASE RelayBlocks
  BY <1>1, <1>3, BlockedLogsAreMarked DEF RelayBlocks
<1>4. CASE RelayConflict
  <2>1. <<ConflictStep>> \in Logs
    BY DEF ConflictStep, Step, Steps, Logs
  <2>2. /\ deploy' \in DeployType /\ deploy'.at = "done" /\ deploy'.how = "conflict"
        /\ deploy'.row = "failed" /\ deploy'.steps = <<ConflictStep>>
    BY <1>0, <1>4, <2>1, Fails DEF RelayConflict
  <2>3. QED
    BY <2>2 DEF DeployInv, PlaceInv, ByConflict
<1>5. QED
  BY <1>2, <1>3, <1>4

\* The stream ends or breaks.
LEMMA StreamKeeps == ASSUME DeployInv, DoneEvent \/ StreamBreaks PROVE DeployInv'
<1>0. deploy \in DeployType /\ (deploy.at \notin {"gate", "done"} => ~deploy.claim)
  BY DEF DeployInv, PlaceInv
<1>1. CASE DoneEvent
  <2>1. PICK steps \in Streams :
          \/ /\ ~HasRollbackOrFailedStep(steps)
             /\ Goto([deploy EXCEPT !.at = "gate", !.how = "stream", !.steps = steps, !.claim = TRUE])
          \/ Goto([deploy EXCEPT !.at = "done", !.how = "stream", !.row = "failed",
                     !.card = IF ClassifyDeployOutcome("failed", steps) = "rolled_back_healthy"
                              THEN "healthy" ELSE "unhealthy", !.steps = steps])
    BY <1>1 DEF DoneEvent
  <2>2. Unmarked(steps) /\ steps \in Logs /\ deploy.at = "streaming"
    BY <1>1, StreamsAreUnmarked DEF Unmarked, DoneEvent
  <2>3. CASE /\ ~HasRollbackOrFailedStep(steps)
             /\ Goto([deploy EXCEPT !.at = "gate", !.how = "stream", !.steps = steps, !.claim = TRUE])
    BY <2>2, <2>3, AsksGate DEF Goto
  <2>4. CASE Goto([deploy EXCEPT !.at = "done", !.how = "stream", !.row = "failed",
                     !.card = IF ClassifyDeployOutcome("failed", steps) = "rolled_back_healthy"
                              THEN "healthy" ELSE "unhealthy", !.steps = steps])
    <3>1. PICK card \in {"healthy", "unhealthy"} :
            card = IF ClassifyDeployOutcome("failed", steps) = "rolled_back_healthy" THEN "healthy" ELSE "unhealthy"
      OBVIOUS
    <3>2. /\ deploy' \in DeployType /\ deploy'.at = "done" /\ deploy'.how = "stream"
          /\ deploy'.row = "failed" /\ deploy'.card = card /\ deploy'.steps = steps
      BY <1>0, <2>2, <2>4, <3>1, Fails
    <3>3. QED
      BY <2>2, <3>1, <3>2 DEF DeployInv, PlaceInv, ByStream
  <2>5. QED
    BY <2>1, <2>3, <2>4
<1>2. CASE StreamBreaks
  <2>1. PICK steps \in Streams : Goto([deploy EXCEPT !.at = "gate", !.how = "recovery", !.steps = steps])
    BY <1>2 DEF StreamBreaks
  <2>2. ~deploy.claim /\ deploy.claim \in BOOLEAN /\ deploy.at = "breaking"
    BY <1>0, <1>2 DEF StreamBreaks, DeployType
  <2>3. deploy' = [deploy EXCEPT !.at = "gate", !.how = "recovery", !.steps = steps, !.claim = FALSE]
    BY <1>0, <2>1, <2>2 DEF Goto, DeployType
  <2>4. QED
    BY <2>2, <2>3, AsksGate
<1>3. QED
  BY <1>1, <1>2

\* One of the three calls of the target check was answered.
LEMMA TargetGoesOn ==
  ASSUME DeployInv, deploy.at \in {"target", "detail", "health"}, NEW at \in {"detail", "health", "verdict"},
         NEW proof \in SUBSET BOOLEAN, NEW commit \in Commits \cup {0}, NEW mistaken \in BOOLEAN,
         deploy' = [deploy EXCEPT !.at = at, !.proof = proof, !.head = commit, !.mistaken = mistaken]
  PROVE  DeployInv'
<1>1. /\ deploy \in DeployType /\ deploy.row = "running" /\ Unmarked(deploy.steps)
      /\ ~deploy.claim /\ deploy.how = "recovery"
  BY DEF DeployInv, PlaceInv
<1>2. /\ deploy' \in DeployType /\ deploy'.at = at /\ deploy'.row = "running"
      /\ deploy'.steps = deploy.steps /\ ~deploy'.claim /\ deploy'.how = "recovery"
  BY <1>1 DEF DeployType
<1>3. QED
  BY <1>1, <1>2 DEF DeployInv, PlaceInv

\* The gate's verdict, and the target's.
LEMMA VerdictsKeep ==
  ASSUME DeployInv, head \in Commits,
         GateConfirms \/ GateRecovers \/ TargetRow \/ TargetDetail \/ TargetHealth \/ TargetWrites
  PROVE  DeployInv'
<1>0. /\ deploy \in DeployType
      /\ deploy.at # "done" => Unmarked(deploy.steps)
  BY DEF DeployInv, PlaceInv
<1> DEFINE Log(e) == Append(deploy.steps, e)
<1>1. ASSUME NEW status \in {"success", "failure"}, deploy.at # "done"
      PROVE  /\ Unmarked(Log(GateStep(status))) /\ Log(GateStep(status)) \in Logs
             /\ Unmarked(Log(RecoveryStep(status))) /\ Log(RecoveryStep(status)) \in Logs
  BY <1>0, <1>1, OwnSteps, AppendKeepsUnmarked DEF Unmarked
<1> HIDE DEF Log
<1>2. CASE GateConfirms
  <2>1. /\ deploy.at = "gate" /\ deploy.how = "stream" /\ ~HasRollbackOrFailedStep(deploy.steps)
    BY <1>2 DEF GateConfirms, DeployInv, PlaceInv
  <2>2. CASE Writes("success", "healthy", Log(GateStep("success")))
    <3>1. /\ deploy' \in DeployType /\ deploy'.at = "done" /\ deploy'.how = "stream"
          /\ deploy'.row = "success" /\ deploy'.card = "healthy" /\ deploy'.steps = Log(GateStep("success"))
      BY <1>0, <1>1, <2>1, <2>2, Settles
    <3>2. QED
      BY <1>1, <2>1, <3>1 DEF DeployInv, PlaceInv, ByStream
  <2>3. CASE Writes("failed", "unhealthy", Log(GateStep("failure")))
    <3>1. /\ deploy' \in DeployType /\ deploy'.at = "done" /\ deploy'.how = "stream"
          /\ deploy'.row = "failed" /\ deploy'.card = "unhealthy" /\ deploy'.steps = Log(GateStep("failure"))
      BY <1>0, <1>1, <2>1, <2>3, Settles
    <3>2. ClassifyDeployOutcome("failed", Log(GateStep("failure"))) # "rolled_back_healthy"
      BY <1>0, <2>1, RefusedClaimIsOutage DEF Log
    <3>3. QED
      BY <1>1, <2>1, <3>1, <3>2 DEF DeployInv, PlaceInv, ByStream
  <2>4. QED
    BY <1>2, <2>2, <2>3 DEF GateConfirms, Log
<1>3. ASSUME NEW status \in {"success", "failed", "interrupted"}, NEW card \in {"healthy", "unhealthy"},
             NEW s \in {"success", "failure"}, Writes(status, card, Log(RecoveryStep(s))),
             deploy.at # "done", deploy.how = "recovery"
      PROVE  DeployInv'
  <2>1. /\ deploy' \in DeployType /\ deploy'.at = "done" /\ deploy'.how = "recovery"
        /\ deploy'.row = status /\ deploy'.steps = Log(RecoveryStep(s))
    BY <1>0, <1>1, <1>3, Settles
  <2>2. QED
    BY <1>1, <1>3, <2>1 DEF DeployInv, PlaceInv, ByRecovery
<1>4. CASE GateRecovers
  <2>1. deploy.at = "gate" /\ deploy.how = "recovery" /\ ~deploy.claim /\ deploy.row = "running"
    BY <1>4 DEF GateRecovers, DeployInv, PlaceInv
  <2>2. CASE Goto([deploy EXCEPT !.at = "target"])
    <3>1. /\ deploy' \in DeployType /\ deploy'.at = "target" /\ deploy'.how = "recovery"
          /\ ~deploy'.claim /\ deploy'.row = "running" /\ deploy'.steps = deploy.steps
      BY <1>0, <2>1, <2>2 DEF Goto, DeployType
    <3>2. QED
      BY <1>0, <2>1, <3>1 DEF DeployInv, PlaceInv
  <2>3. CASE \E card \in {"healthy", "unhealthy"} : Writes("failed", card, Log(RecoveryStep("failure")))
    BY <1>3, <2>1, <2>3
  <2>4. QED
    BY <1>4, <2>2, <2>3 DEF GateRecovers, Log
<1>5. ASSUME deploy.at \in {"target", "detail", "health", "verdict"}
      PROVE  /\ deploy.how = "recovery" /\ deploy.proof \in SUBSET BOOLEAN
             /\ deploy.head \in Commits \cup {0} /\ deploy.mistaken \in BOOLEAN
  BY <1>0, <1>5 DEF DeployInv, PlaceInv, DeployType
<1>6. ASSUME deploy.at \in {"target", "detail", "health", "verdict"}, Misses PROVE DeployInv'
  BY <1>3, <1>5, <1>6 DEF Misses, Log
<1>7. CASE TargetRow
  <2>1. CASE Goto([deploy EXCEPT !.at = "detail"])
    <3>1. deploy' = [deploy EXCEPT !.at = "detail", !.proof = deploy.proof, !.head = deploy.head,
                                   !.mistaken = deploy.mistaken]
      BY <1>0, <2>1 DEF Goto, DeployType
    <3>2. QED
      BY <1>5, <1>7, <3>1, TargetGoesOn DEF TargetRow
  <2>2. QED
    BY <1>6, <1>7, <2>1 DEF TargetRow
<1>8. CASE TargetDetail
  <2>1. Proof \in SUBSET BOOLEAN /\ AnotherLooksOwn \in BOOLEAN
    BY DEF Proof, AnotherLooksOwn
  <2>2. QED
    BY <1>6, <1>8, <2>1, TargetGoesOn DEF TargetDetail, Goto
<1>9. CASE TargetHealth
  <2>1. CASE Goto([deploy EXCEPT !.at = "verdict", !.proof = {}])
    <3>1. deploy' = [deploy EXCEPT !.at = "verdict", !.proof = {}, !.head = deploy.head,
                                   !.mistaken = deploy.mistaken]
      BY <1>0, <2>1 DEF Goto, DeployType
    <3>2. QED
      BY <1>5, <1>9, <3>1, TargetGoesOn DEF TargetHealth
  <2>2. QED
    BY <1>6, <1>9, <2>1 DEF TargetHealth
<1>10. CASE TargetWrites
  BY <1>3, <1>5, <1>10 DEF TargetWrites, Log
<1>11. QED
  BY <1>2, <1>4, <1>7, <1>8, <1>9, <1>10

\* Nothing else writes the row.
LEMMA DeploySteps ==
  ASSUME [Next]_vars
  PROVE  \/ UNCHANGED deploy \/ EnvBlocks \/ RelayBlocks \/ RelayConflict \/ DoneEvent \/ StreamBreaks
         \/ GateConfirms \/ GateRecovers
         \/ TargetRow \/ TargetDetail \/ TargetHealth \/ TargetWrites
  BY DEF Next, vars, EnvSteps, Goes, GatePolls, RelaySteps, ClientDeploys, ClientPolls, ClientAsks,
     ClientLeaves

\* HEAD is a commit, wherever a run leaves it.
HeadInv == head \in Commits

LEMMA HeadIsCommit == Spec => []HeadInv
<1>1. ASSUME Init PROVE HeadInv
  <2>1. head = CHOOSE c \in Commits : TRUE
    BY <1>1 DEF Init, StreamInit, TargetInit
  <2>2. QED
    BY <2>1, TargetConstants DEF HeadInv
<1>2. ASSUME HeadInv, [Next]_vars PROVE HeadInv'
  <2>1. CASE RelaySteps
    BY <1>2, <2>1 DEF HeadInv, RelaySteps, OwnNext, Tick, OwnRun, ForeignRun, RunEnds, RunVanishes, relaySide
  <2>2. CASE UNCHANGED vars \/ Goes \/ DoneEvent \/ StreamBreaks
    BY <1>2, <2>2 DEF HeadInv, vars, Goes, GatePolls, GateConfirms, GateRecovers, TargetRow, TargetDetail, TargetHealth,
       TargetWrites, DoneEvent, StreamBreaks, targetVars
  <2>3. CASE \/ EnvSteps \/ EnvBlocks \/ RelayBlocks \/ RelayConflict
             \/ ClientDeploys \/ ClientPolls \/ ClientAsks \/ ClientLeaves
    BY <1>2, <2>3 DEF HeadInv, EnvSteps, EnvBlocks, RelayBlocks, RelayConflict, ClientDeploys, ClientPolls,
       ClientAsks, ClientLeaves, targetVars, relaySide
  <2>4. QED
    BY <1>2, <2>1, <2>2, <2>3 DEF Next
<1>3. QED
  BY <1>1, <1>2, PTL DEF Spec

THEOREM DeployInductive == Spec => []DeployInv
<1>1. ASSUME Init PROVE DeployInv
  <2>1. deploy = NoDeploy \/ \E at \in {"streaming", "breaking"} : deploy = [NoDeploy EXCEPT !.at = at]
    BY <1>1 DEF Init
  <2>2. << >> \in Logs /\ Unmarked(<< >>)
    BY DEF Logs, Unmarked
  <2>3. /\ deploy \in DeployType /\ deploy.at \in {"off", "streaming", "breaking"}
        /\ deploy.row = "running" /\ ~deploy.claim /\ deploy.steps = << >>
    <3>1. ASSUME NEW at \in {"streaming", "breaking"}, deploy = [NoDeploy EXCEPT !.at = at]
          PROVE  /\ deploy \in DeployType /\ deploy.at = at
                 /\ deploy.row = "running" /\ ~deploy.claim /\ deploy.steps = << >>
      BY <3>1, NoDeployTyped DEF DeployType
    <3>2. QED
      BY <2>1, <3>1, NoDeployTyped
  <2>4. QED
    BY <2>2, <2>3 DEF DeployInv, PlaceInv
<1>2. ASSUME DeployInv, HeadInv, [Next]_vars PROVE DeployInv'
  <2>1. CASE UNCHANGED deploy
    BY <1>2, <2>1 DEF DeployInv, PlaceInv, ByStream, ByRecovery, ByBlock, ByConflict
  <2>2. QED
    BY <1>2, <2>1, DeploySteps, BlocksKeep, StreamKeeps, VerdictsKeep DEF HeadInv
<1>3. QED
  BY <1>1, <1>2, HeadIsCommit, PTL DEF Spec

\* A log is read alike by the backend and the frontend; an unmarked one is no block.
LEMMA ReadAlike ==
  ASSUME NEW s \in Logs, NEW status \in {"success", "failed", "interrupted"}
  PROVE  ClassifyDeployOutcome(status, s) = FrontendOutcome(status, s)
<1>1. Len(s) = 0 <=> s = << >>
  BY DEF Logs
<1>2. QED
  BY <1>1 DEF ClassifyDeployOutcome, FrontendOutcome

LEMMA UnmarkedIsNoBlock ==
  ASSUME NEW s, Unmarked(s) PROVE ~IsPreflightBlockedDeployLog(s) /\ ~IsBlockedDeployLog(s)
  BY DEF Unmarked, IsPreflightBlockedDeployLog, IsBlockedDeployLog, Has, IsPreflightCheckStep, IsConflictStep

LEMMA ConflictIsNoPreflight ==
  IsBlockedDeployLog(<<ConflictStep>>) /\ ~IsPreflightBlockedDeployLog(<<ConflictStep>>)
<1>1. ConflictStep.kind = "deploy-conflict"
  BY DEF ConflictStep, Step
<1>2. DOMAIN <<ConflictStep>> = {1} /\ <<ConflictStep>>[1] = ConflictStep
  OBVIOUS
<1>3. QED
  BY <1>1, <1>2
     DEF IsPreflightBlockedDeployLog, IsBlockedDeployLog, Has, IsPreflightCheckStep, IsConflictStep

\* What decided a row, by the log it left.
LEMMA WhatDecided ==
  ASSUME DeployInv, deploy.at = "done"
  PROVE  /\ deploy.steps \in Logs /\ deploy.row \in {"success", "failed", "interrupted"}
         /\ deploy.how \in {"blocked", "conflict"} =>
              deploy.row = "failed" /\ IsBlockedDeployLog(deploy.steps)
         /\ deploy.how = "blocked" <=> IsPreflightBlockedDeployLog(deploy.steps)
         /\ deploy.how = "blocked" => FailsMarked(deploy.steps)
         /\ deploy.how = "stream" => ByStream /\ ~IsBlockedDeployLog(deploy.steps)
         /\ deploy.how \in {"blocked", "conflict", "stream", "recovery"}
<1>1. deploy.steps \in Logs /\ deploy.row \in {"running", "success", "failed", "interrupted"}
  BY DEF DeployInv, DeployType
<1>2. CASE deploy.how = "stream" /\ ByStream
  BY <1>1, <1>2, UnmarkedIsNoBlock DEF ByStream
<1>3. CASE deploy.how = "recovery" /\ ByRecovery
  BY <1>1, <1>3, UnmarkedIsNoBlock DEF ByRecovery
<1>4. CASE deploy.how = "blocked" /\ ByBlock
  BY <1>1, <1>4 DEF ByBlock, FailsMarked, IsPreflightBlockedDeployLog, IsBlockedDeployLog, Has
<1>5. CASE deploy.how = "conflict" /\ ByConflict
  BY <1>1, <1>5, ConflictIsNoPreflight DEF ByConflict
<1>6. QED
  BY <1>2, <1>3, <1>4, <1>5 DEF DeployInv, PlaceInv

\* The list and the live log say "Blocked (preflight)" of the deploys a preflight blocked and
\* of no other, never call a block or a conflict an outage, and agree (deploy-log.ts, status.ts).
THEOREM BlocksReadBlocked == Spec => []BlockedReadsBlocked
<1>1. ASSUME DeployInv PROVE BlockedReadsBlocked
  <2>1. CASE deploy.at = "done"
    <3> DEFINE outcome == ClassifyDeployOutcome(deploy.row, deploy.steps)
    <3>1. /\ deploy.row \in {"success", "failed", "interrupted"}
          /\ deploy.how \in {"blocked", "conflict"} =>
               deploy.row = "failed" /\ IsBlockedDeployLog(deploy.steps)
          /\ deploy.how = "blocked" <=> IsPreflightBlockedDeployLog(deploy.steps)
          /\ outcome = FrontendOutcome(deploy.row, deploy.steps)
      BY <1>1, <2>1, WhatDecided, ReadAlike
    <3>2. deploy.how \in {"blocked", "conflict"} => outcome = "none"
      BY <3>1 DEF ClassifyDeployOutcome
    <3>3. deploy.how = "blocked" <=>
            DeployStatusBadge(deploy.row, IsPreflightBlockedDeployLog(deploy.steps), outcome) = "Blocked (preflight)"
      BY <3>1 DEF DeployStatusBadge
    <3> HIDE DEF outcome
    <3>4. Listed(deploy.row, deploy.steps).blocked = IsPreflightBlockedDeployLog(deploy.steps)
          /\ Listed(deploy.row, deploy.steps).outcome = outcome
      BY DEF Listed, outcome
    <3>5. QED
      BY <3>1, <3>2, <3>3, <3>4 DEF BlockedReadsBlocked
  <2>2. QED
    BY <2>1 DEF BlockedReadsBlocked
<1>2. QED
  BY <1>1, DeployInductive, PTL

\* Where the app list calls a deploy the relay reported on an outage or not, the card and
\* the note above the steps agree (deploy-log.ts, stream-deploy.ts).
THEOREM OutcomesFitCards == Spec => []OutcomeFitsCard
<1>1. ASSUME DeployInv, deploy.at = "done", deploy.how = "stream"
      PROVE  LET outcome == LastDeployOutcome(deploy.row, deploy.steps)
                 note == OutcomeNote(outcome, deploy.steps)
             IN  /\ outcome # "none" => (outcome = "outage" <=> deploy.card = "unhealthy")
                 /\ note = "rolled back" => deploy.card = "healthy"
                 /\ note = "rollback unhealthy" => deploy.card = "unhealthy"
  <2>1. ByStream /\ ~IsBlockedDeployLog(deploy.steps)
    BY <1>1, WhatDecided
  <2>2. CASE deploy.row = "success" /\ deploy.card = "healthy"
    BY <2>2 DEF LastDeployOutcome, ClassifyDeployOutcome, OutcomeNote
  <2>3. CASE deploy.row = "failed"
             /\ deploy.card = IF ClassifyDeployOutcome("failed", deploy.steps) = "rolled_back_healthy"
                              THEN "healthy" ELSE "unhealthy"
    BY <2>3 DEF LastDeployOutcome, ClassifyDeployOutcome, OutcomeNote
  <2>4. QED
    BY <2>1, <2>2, <2>3 DEF ByStream
<1>2. DeployInv => OutcomeFitsCard
  BY <1>1 DEF OutcomeFitsCard
<1>3. QED
  BY <1>2, DeployInductive, PTL

-----------------------------------------------------------------------------
(* The clients.                                                            *)

SaidType ==
  [status : {"nothing", "unknown", "timed out", "lost", "not started", "success", "failed", "interrupted"},
   blocked : BOOLEAN, up : BOOLEAN]
ClientType ==
  [kind : {"none", "page", "bulk", "mcp"}, at : {"off", "watching", "ended"},
   time : 0..(Patience + LongestWait), fails : Nat, said : SaidType,
   badge : {"list", "deploying", "unknown", "unhealthy"}]

\* What a client may say of a row that is settled.
Truth(said) ==
  /\ said.status = deploy.row
  /\ said.blocked <=> deploy.how = "blocked"
  /\ deploy.how = "stream" /\ deploy.row = "failed" => (said.up <=> deploy.card = "healthy")

ClientInv ==
  /\ client \in ClientType
  /\ client.at # "off" => deploy.at = "done"
  /\ Told => Truth(client.said)
  /\ client.at = "ended" /\ client.said.status \in GivenUp => client.badge # "deploying"

\* The three readings of a settled row are true.
LEMMA ReadingsAreTrue ==
  ASSUME DeployInv, deploy.at = "done",
         NEW said \in {PageReads(deploy.row, deploy.steps), BulkReads(deploy.row, deploy.steps),
                       McpReads(deploy.row, deploy.steps)}
  PROVE  said \in SaidType /\ Truth(said) /\ said.status \notin GivenUp
<1> DEFINE row == deploy.row
           steps == deploy.steps
           blocked == IsPreflightBlockedDeployLog(steps)
           up == ClassifyDeployOutcome(row, steps) = "rolled_back_healthy"
<1>1. /\ steps \in Logs /\ row \in {"success", "failed", "interrupted"}
      /\ blocked => row = "failed" /\ FailsMarked(steps)
      /\ blocked <=> deploy.how = "blocked"
      /\ deploy.how = "stream" => ByStream
      /\ ClassifyDeployOutcome(row, steps) = FrontendOutcome(row, steps)
  BY WhatDecided, ReadAlike
<1>2. up => row = "failed"
  BY DEF ClassifyDeployOutcome
<1>3. blocked \in BOOLEAN /\ up \in BOOLEAN
  BY DEF IsPreflightBlockedDeployLog, Has
<1>4. deploy.how = "stream" /\ row = "failed" => (up <=> deploy.card = "healthy")
  BY <1>1 DEF ByStream
<1>5. ASSUME said.status = row, said.blocked <=> blocked, said.up <=> up, said \in SaidType
      PROVE  said \in SaidType /\ Truth(said) /\ said.status \notin GivenUp
  BY <1>1, <1>4, <1>5 DEF Truth, GivenUp
<1>6. CASE said = PageReads(row, steps)
  <2>1. said = [status |-> row, blocked |-> row = "failed" /\ blocked, up |-> row = "failed" /\ up]
    BY <1>1, <1>6 DEF PageReads, NotifiedUp, IsPreflightBlockedDeployLog
  <2> HIDE DEF blocked, up
  <2>2. said \in SaidType /\ said.status = row /\ (said.blocked <=> blocked) /\ (said.up <=> up)
    BY <1>1, <1>2, <1>3, <2>1 DEF SaidType
  <2>3. QED
    BY <1>5, <2>2
<1>7. CASE said = BulkReads(row, steps)
  <2> DEFINE marked == \E f \in IF row = "success" THEN {} ELSE FailuresFromLog(steps) : f.preflight
  <2>1. said = [status |-> row, blocked |-> marked, up |-> row = "failed" /\ up]
    BY <1>7 DEF BulkReads
  <2>2. marked <=> blocked
    <3>1. ASSUME marked PROVE blocked
      BY <3>1 DEF FailuresFromLog, IsPreflightBlockedDeployLog, Has
    <3>2. ASSUME blocked PROVE marked
      <4>1. PICK i \in DOMAIN steps : IsPreflightCheckStep(steps[i]) /\ steps[i].status = "failure"
        BY <1>1, <3>2 DEF FailsMarked
      <4>2. [check |-> steps[i].name, preflight |-> IsPreflightCheckStep(steps[i])] \in FailuresFromLog(steps)
        BY <4>1 DEF FailuresFromLog
      <4>3. row # "success"
        BY <1>1, <3>2
      <4>4. QED
        BY <4>1, <4>2, <4>3
    <3>3. QED
      BY <3>1, <3>2
  <2>3. marked \in BOOLEAN
    OBVIOUS
  <2> HIDE DEF blocked, up, marked
  <2>4. said \in SaidType /\ said.status = row /\ (said.blocked <=> marked) /\ (said.up <=> up)
    BY <1>1, <1>2, <1>3, <2>1, <2>3 DEF SaidType
  <2>5. QED
    BY <1>5, <2>2, <2>4
<1>8. CASE said = McpReads(row, steps)
  <2>1. said = [status |-> row, blocked |-> FoldedChecks(steps) # {}, up |-> up]
    BY <1>8 DEF McpReads
  <2>2. FoldedChecks(steps) # {} <=> blocked
    BY DEF FoldedChecks, IsPreflightBlockedDeployLog, Has
  <2> DEFINE folded == FoldedChecks(steps) # {}
  <2>3. folded \in BOOLEAN
    OBVIOUS
  <2> HIDE DEF blocked, up, folded
  <2>4. said \in SaidType /\ said.status = row /\ (said.blocked <=> folded) /\ (said.up <=> up)
    BY <1>1, <1>3, <2>1, <2>3 DEF SaidType, folded
  <2>5. QED
    BY <1>5, <2>2, <2>4 DEF folded
<1>9. QED
  BY <1>6, <1>7, <1>8

\* A client that ends.
LEMMA ClientEnds ==
  ASSUME ClientInv, deploy.at = "done", deploy' = deploy, NEW said \in SaidType,
         NEW badge \in {"list", "deploying", "unknown", "unhealthy"}, Ends(said, badge),
         said.status \notin GivenUp \cup {"nothing"} => Truth(said),
         said.status \in GivenUp => badge # "deploying"
  PROVE  ClientInv'
<1>1. /\ client' \in ClientType /\ client'.at = "ended" /\ client'.said = said /\ client'.badge = badge
  BY DEF ClientInv, Ends, ClientType
<1>2. QED
  BY <1>1 DEF ClientInv, Told, Truth

\* One that ends with what it read, or that gives up.
LEMMA ClientReads ==
  ASSUME DeployInv, ClientInv, deploy.at = "done", deploy' = deploy,
         NEW said \in {PageReads(deploy.row, deploy.steps), BulkReads(deploy.row, deploy.steps),
                       McpReads(deploy.row, deploy.steps)},
         NEW badge \in {"list", "deploying", "unknown", "unhealthy"}, Ends(said, badge)
  PROVE  ClientInv'
  BY ReadingsAreTrue, ClientEnds

LEMMA SaysIs ==
  ASSUME NEW status \in GivenUp \cup {"nothing"}
  PROVE  Says(status) \in SaidType /\ Says(status).status = status
  BY DEF Says, SaidType, GivenUp

LEMMA ClientGivesUp ==
  ASSUME ClientInv, deploy.at = "done", deploy' = deploy, NEW status \in GivenUp \cup {"nothing"},
         NEW badge \in {"list", "deploying", "unknown", "unhealthy"}, Ends(Says(status), badge),
         status \in GivenUp => badge # "deploying"
  PROVE  ClientInv'
  BY SaysIs, ClientEnds

\* One that waits on.
LEMMA ClientWaits ==
  ASSUME ClientInv, deploy' = deploy, client.at = "watching",
         NEW time \in 0..(Patience + LongestWait), NEW fails \in Nat,
         client' = [client EXCEPT !.fails = fails, !.time = time]
  PROVE  ClientInv'
<1>1. client' \in ClientType /\ client'.at = "watching"
  BY DEF ClientInv, ClientType
<1>2. QED
  BY <1>1 DEF ClientInv, Told

LEMMA DelayIsBounded == ASSUME NEW fails \in Nat PROVE NextPollDelay(fails) \in 0..LongestWait
  BY ClientConstants DEF NextPollDelay, Shorter

\* The page, once its poll is over and read no end.
LEMMA PageWaitsKeeps ==
  ASSUME ClientInv, deploy.at = "done", deploy' = deploy, Watching("page"), NEW fails \in Nat,
         PageWaits(fails)
  PROVE  ClientInv'
<1>1. client \in ClientType /\ client.at = "watching"
  BY DEF ClientInv, Watching
<1>2. CASE client.time >= Patience
  BY <1>2, ClientGivesUp DEF PageWaits, Reloaded, GivenUp
<1>3. CASE ~(client.time >= Patience)
  <2>1. PICK time : time = client.time + NextPollDelay(fails)
    OBVIOUS
  <2>2. time \in 0..(Patience + LongestWait)
    <3>1. client.time \in Nat /\ client.time < Patience
      BY <1>1, <1>3, ClientConstants DEF ClientType
    <3>2. QED
      BY <2>1, <3>1, DelayIsBounded, ClientConstants
  <2>3. client' = [client EXCEPT !.fails = fails, !.time = time]
    BY <1>3, <2>1 DEF PageWaits
  <2>4. QED
    BY <1>1, <2>2, <2>3, ClientWaits
<1>4. QED
  BY <1>2, <1>3

LEMMA PageKeeps ==
  ASSUME DeployInv, ClientInv, deploy.at = "done", deploy' = deploy,
         NEW status \in {"running", deploy.row}, PagePolls(status, deploy.steps)
  PROVE  ClientInv'
<1>1. client \in ClientType /\ client.badge \in {"list", "deploying", "unknown", "unhealthy"}
  BY DEF ClientInv, ClientType
<1>2. CASE status # "running" /\ \E badge \in Reloaded(client.badge) : Ends(PageReads(status, deploy.steps), badge)
  BY <1>1, <1>2, ClientReads DEF Reloaded
<1>3. CASE \E fails \in Nat : PageWaits(fails)
  BY <1>3, PageWaitsKeeps DEF PagePolls
<1>4. 0 \in Nat /\ client.fails + 1 \in Nat
  BY <1>1 DEF ClientType
<1>5. QED
  BY <1>2, <1>3, <1>4 DEF PagePolls

LEMMA BulkKeeps ==
  ASSUME DeployInv, ClientInv, deploy.at = "done", deploy' = deploy,
         NEW status \in {"running", deploy.row}, BulkPolls(status, deploy.steps)
  PROVE  ClientInv'
<1>1. client \in ClientType /\ client.at = "watching" /\ client.time \in Nat /\ client.fails \in Nat
  BY ClientConstants DEF ClientInv, ClientType, BulkPolls, Watching
<1>2. CASE status # "running" /\ Ends(BulkReads(status, deploy.steps), "list")
  BY <1>2, ClientReads
<1>3. CASE Ends(Says("unknown"), "list")
  BY <1>3, ClientGivesUp DEF GivenUp
<1>4. CASE ~(client.time + 1 >= Patience) /\ client' = [client EXCEPT !.time = @ + 1]
  <2>1. PICK time \in 0..(Patience + LongestWait) : time = client.time + 1
    BY <1>1, <1>4, ClientConstants
  <2>2. PICK fails \in Nat : fails = client.fails
    BY <1>1
  <2>3. client' = [client EXCEPT !.fails = fails, !.time = time]
    BY <1>1, <1>4, <2>1, <2>2 DEF ClientType
  <2>4. QED
    BY <1>1, <2>3, ClientWaits
<1>5. \/ status # "running" /\ Ends(BulkReads(status, deploy.steps), "list")
      \/ Ends(Says("unknown"), "list")
      \/ ~(client.time + 1 >= Patience) /\ client' = [client EXCEPT !.time = @ + 1]
  BY DEF BulkPolls
<1>6. QED
  BY <1>2, <1>3, <1>4, <1>5

LEMMA McpKeeps ==
  ASSUME DeployInv, ClientInv, deploy.at = "done", deploy' = deploy,
         NEW status \in {"running", deploy.row}, McpPolls(status, deploy.steps)
  PROVE  ClientInv'
<1>0. client \in ClientType /\ client.at = "watching"
  BY DEF ClientInv, McpPolls, Watching
<1>1. client.time \in Nat /\ client.fails \in Nat
  BY <1>0, ClientConstants DEF ClientType
<1>2. CASE status # "running" /\ Ends(McpReads(status, deploy.steps), "list")
  BY <1>2, ClientReads
<1>3. CASE Ends(Says("timed out"), "list") \/ Ends(Says("lost"), "list")
  BY <1>3, ClientGivesUp DEF GivenUp
<1>4. CASE ~(client.time >= Patience) /\ client' = [client EXCEPT !.time = @ + 1]
  <2>1. PICK time \in 0..(Patience + LongestWait) : time = client.time + 1
    BY <1>0, <1>1, <1>4, ClientConstants
  <2>2. PICK fails \in Nat : fails = client.fails
    BY <1>1
  <2>3. client' = [client EXCEPT !.fails = fails, !.time = time]
    BY <1>0, <1>4, <2>1, <2>2 DEF ClientType
  <2>4. QED
    BY <1>0, <2>3, ClientWaits
<1>5. \/ status # "running" /\ Ends(McpReads(status, deploy.steps), "list")
      \/ Ends(Says("timed out"), "list") \/ Ends(Says("lost"), "list")
      \/ ~(client.time >= Patience) /\ client' = [client EXCEPT !.time = @ + 1]
  BY DEF McpPolls, McpLoses
<1>6. QED
  BY <1>2, <1>3, <1>4, <1>5

\* A client that begins waits, or has its answer at once.
LEMMA ClientBegins == ASSUME deploy.at = "done", deploy' = deploy, Deploys PROVE ClientInv'
<1>1. /\ NoClient \in ClientType /\ NoClient.at = "off" /\ NoClient.badge = "list"
      /\ NoClient.said = Says("nothing")
  BY ClientConstants DEF NoClient, ClientType, Says, SaidType
<1>2. NextPollDelay(0) = 1 /\ 1 \in 0..(Patience + LongestWait)
  BY ClientConstants DEF NextPollDelay
<1>3. \A status \in GivenUp \cup {"nothing"} : Says(status) \in SaidType /\ Says(status).status = status
  BY SaysIs
<1>4. ASSUME client' \in ClientType, client'.at # "off",
             client'.at = "ended" => /\ client'.said.status \in GivenUp \cup {"nothing"}
                                     /\ client'.badge # "deploying"
      PROVE  ClientInv'
  BY <1>4 DEF ClientInv, Told
<1>5. CASE PageDeploys
  <2>1. PICK time \in 0..(Patience + LongestWait), said \in SaidType :
          time = NextPollDelay(0) /\ said = Says("not started") /\ said.status \in GivenUp
    BY <1>2, <1>3 DEF GivenUp
  <2>2. CASE client' = [NoClient EXCEPT !.kind = "page", !.at = "watching", !.time = time,
                                        !.badge = "deploying"]
    <3>1. client' \in ClientType /\ client'.at = "watching"
      BY <1>1, <2>2 DEF ClientType
    <3>2. QED
      BY <1>4, <3>1
  <2>3. CASE client' = [NoClient EXCEPT !.kind = "page", !.at = "ended", !.said = said,
                                        !.badge = "unhealthy"]
    <3>1. client' \in ClientType /\ client'.at = "ended" /\ client'.said = said /\ client'.badge = "unhealthy"
      BY <1>1, <2>3 DEF ClientType
    <3>2. QED
      BY <1>4, <2>1, <3>1
  <2>4. QED
    BY <1>5, <2>1, <2>2, <2>3 DEF PageDeploys
<1>6. ASSUME NEW kind \in {"bulk", "mcp"}, client' = [NoClient EXCEPT !.kind = kind, !.at = "watching"]
      PROVE  ClientInv'
  <2>1. client' \in ClientType /\ client'.at = "watching"
    BY <1>1, <1>6 DEF ClientType
  <2>2. QED
    BY <1>4, <2>1
<1>7. ASSUME NEW kind \in {"bulk", "mcp"}, NEW status \in GivenUp \cup {"nothing"},
             client' = [NoClient EXCEPT !.kind = kind, !.at = "ended", !.said = Says(status)]
      PROVE  ClientInv'
  <2>1. PICK said \in SaidType : said = Says(status) /\ said.status \in GivenUp \cup {"nothing"}
    BY <1>3
  <2>2. client' = [NoClient EXCEPT !.kind = kind, !.at = "ended", !.said = said]
    BY <1>7, <2>1
  <2>3. client' \in ClientType /\ client'.at = "ended" /\ client'.said = said /\ client'.badge = "list"
    BY <1>1, <2>2 DEF ClientType
  <2>4. QED
    BY <1>4, <2>1, <2>3
<1>8. CASE BulkDeploys
  BY <1>6, <1>7, <1>8 DEF BulkDeploys, SettledAtOnce, GivenUp
<1>9. CASE McpDeploys
  BY <1>6, <1>7, <1>9 DEF McpDeploys, GivenUp
<1>10. QED
  BY <1>5, <1>8, <1>9 DEF Deploys

\* A deploy that is done stays as it is, and nobody else moves the client.
LEMMA ClientSteps ==
  ASSUME [Next]_vars
  PROVE  \/ UNCHANGED client /\ (UNCHANGED deploy \/ deploy.at # "done")
         \/ UNCHANGED deploy /\ (ClientDeploys \/ ClientPolls \/ ClientAsks \/ ClientLeaves)
  BY DEF Next, vars, EnvSteps, EnvBlocks, RelayBlocks, RelayConflict, DoneEvent, StreamBreaks, Goes,
     GatePolls, GateConfirms, GateRecovers, TargetRow, TargetDetail, TargetHealth, TargetWrites,
     RelaySteps, ClientDeploys, ClientPolls, ClientAsks, ClientLeaves

THEOREM ClientInductive == Spec => []ClientInv
<1>1. ASSUME Init PROVE ClientInv
  <2>1. NoClient \in ClientType /\ NoClient.at = "off"
    BY ClientConstants DEF NoClient, ClientType, Says, SaidType
  <2>2. QED
    BY <1>1, <2>1 DEF Init, ClientInv, Told
<1>2. ASSUME DeployInv, ClientInv, [Next]_vars PROVE ClientInv'
  <2>1. CASE UNCHANGED client /\ (UNCHANGED deploy \/ deploy.at # "done")
    <3>1. CASE UNCHANGED deploy
      BY <1>2, <2>1, <3>1 DEF ClientInv, Told, Truth
    <3>2. CASE deploy.at # "done"
      BY <1>2, <2>1, <3>2 DEF ClientInv, Told
    <3>3. QED
      BY <2>1, <3>1, <3>2
  <2>2. ASSUME UNCHANGED deploy, Watched, Deploys PROVE ClientInv'
    BY <2>2, ClientBegins DEF Watched
  <2>3. ASSUME UNCHANGED deploy, Watched, NEW status \in {"running", deploy.row}, Polls(status, deploy.steps)
        PROVE  ClientInv'
    BY <1>2, <2>3, PageKeeps, BulkKeeps, McpKeeps DEF Watched, Polls
  <2>4. ASSUME UNCHANGED deploy, Watched, McpAsks(deploy.row, deploy.steps) PROVE ClientInv'
    BY <1>2, <2>4, ClientReads DEF Watched, McpAsks
  <2>5. ASSUME UNCHANGED deploy, Watched, PageLeft PROVE ClientInv'
    <3>1. client.badge \in {"list", "deploying", "unknown", "unhealthy"}
      BY <1>2 DEF ClientInv, ClientType
    <3>2. QED
      BY <1>2, <2>5, <3>1, ClientGivesUp DEF Watched, PageLeft, GivenUp
  <2>6. CASE UNCHANGED deploy /\ (ClientDeploys \/ ClientPolls \/ ClientAsks \/ ClientLeaves)
    BY <2>2, <2>3, <2>4, <2>5, <2>6 DEF ClientDeploys, ClientPolls, ClientAsks, ClientLeaves
  <2>7. QED
    BY <1>2, <2>1, <2>6, ClientSteps
<1>3. QED
  BY <1>1, <1>2, DeployInductive, PTL DEF Spec

\* A client that saw the end says what the row says, calls the deploy blocked only if a
\* preflight blocked it, and the app up only where the card does; a page that gave up does
\* not leave the app deploying (frontend servers page, the MCP tools).
THEOREM ClientsAreTruthful == Spec => []ClientsTellTheTruth
<1>1. ClientInv => ClientsTellTheTruth
  BY DEF ClientInv, ClientsTellTheTruth, Truth
<1>2. QED
  BY <1>1, ClientInductive, PTL

-----------------------------------------------------------------------------
(* The relay and the target check.                                         *)

AskType == [start : Int, sent : BOOLEAN, rollback : BOOLEAN, ids : BOOLEAN, commit : Commits \cup {0}]
RunType == [who : {"none", "own", "panel", "http", "mcp"}, rollback : BOOLEAN, began : Nat]
EntryType ==
  [own : BOOLEAN, status : {"success", "failed"}, id : BOOLEAN, before : Commits, after : Commits,
   created : Int, duration : Nat, mcp : BOOLEAN]
TruthType ==
  [status : {"none", "success", "failed"}, commit : Commits \cup {0}, moved : BOOLEAN, seen : BOOLEAN]

TargetTyped ==
  /\ ask \in AskType /\ relayRun \in RunType /\ truth \in TruthType
  /\ entries \in Seq(EntryType) /\ Len(entries) <= HistoryCap
  /\ head \in Commits /\ now \in 1..MaxTime /\ skew \in Int /\ runs \in 0..MaxRuns /\ later \in BOOLEAN
  /\ relayRun.began <= now

\* The call runs at most once, and its entry tells how it ended.
Describes(e) ==
  /\ truth.status = e.status /\ truth.commit = e.after
  /\ truth.moved <=> e.after # e.before
OwnRunsOnce ==
  /\ ask.sent => relayRun.who # "own"
  /\ ask.sent \/ relayRun.who = "own" => truth = NoTruth
  /\ \A i \in DOMAIN entries : entries[i].own => Describes(entries[i])

\* Where that entry was made after the call, no entry above it is older than the call;
\* and if it has dropped out, the window is full of such entries.
NewSince(n) == \A j \in 1..n : entries[j].created >= ask.start
InWindow ==
  truth.seen =>
    /\ RelayTime >= ask.start
    /\ \/ \E i \in DOMAIN entries : entries[i].own /\ NewSince(i)
       \/ Len(entries) = HistoryCap /\ NewSince(Len(entries))

TargetInv ==
  /\ TargetTyped /\ OwnRunsOnce /\ InWindow
  /\ deploy.claim => ~ask.rollback

LEMMA PrependIs ==
  ASSUME entries \in Seq(EntryType), Len(entries) <= HistoryCap, NEW e \in EntryType,
         NEW k, k = IF Len(entries) < HistoryCap THEN Len(entries) + 1 ELSE HistoryCap
  PROVE  /\ Prepend(e) \in Seq(EntryType) /\ Len(Prepend(e)) = k /\ k \in Nat \ {0} /\ k <= HistoryCap
         /\ Prepend(e)[1] = e
         /\ \A i \in 2..k : i - 1 \in DOMAIN entries /\ Prepend(e)[i] = entries[i - 1]
<1> DEFINE s == <<e>> \o entries
<1>1. /\ s \in Seq(EntryType) /\ Len(s) = Len(entries) + 1 /\ s[1] = e
      /\ \A i \in 2..Len(s) : i - 1 \in DOMAIN entries /\ s[i] = entries[i - 1]
  <2>1. <<e>> \in Seq(EntryType) /\ Len(<<e>>) = 1 /\ <<e>>[1] = e
    OBVIOUS
  <2>2. /\ s \in Seq(EntryType) /\ Len(s) = Len(<<e>>) + Len(entries)
        /\ \A i \in 1..(Len(<<e>>) + Len(entries)) :
             s[i] = IF i <= Len(<<e>>) THEN <<e>>[i] ELSE entries[i - Len(<<e>>)]
    BY <2>1, ConcatProperties
  <2>3. Len(entries) \in Nat /\ DOMAIN entries = 1..Len(entries)
    OBVIOUS
  <2> HIDE DEF s
  <2>4. QED
    BY <2>1, <2>2, <2>3
<1>2. k \in Nat \ {0} /\ k <= HistoryCap /\ k <= Len(entries) + 1
  BY TargetConstants
<1>3. Prepend(e) = SubSeq(s, 1, k)
  BY DEF Prepend
<1> HIDE DEF s
<1>4. /\ Prepend(e) \in Seq(EntryType) /\ Len(Prepend(e)) = k
      /\ \A i \in 1..k : Prepend(e)[i] = s[i]
  BY <1>1, <1>2, <1>3
<1>5. QED
  BY <1>1, <1>2, <1>4

\* What a step does to the relay and the call.
LEMMA TargetSteps ==
  ASSUME [Next]_vars
  PROVE  \/ UNCHANGED targetVars
         \/ ask' = [ask EXCEPT !.sent = FALSE] /\ UNCHANGED <<relaySide, now, skew, later>>
         \/ Tick \/ OwnRun \/ RunEnds \/ RunVanishes \/ ForeignRun
<1>1. CASE UNCHANGED vars
  BY <1>1 DEF vars, targetVars
<1>2. CASE EnvSteps \/ EnvBlocks \/ DoneEvent \/ StreamBreaks \/ Goes
  BY <1>2 DEF EnvSteps, EnvBlocks, DoneEvent, StreamBreaks, Goes, GatePolls, GateConfirms, GateRecovers,
     TargetRow, TargetDetail, TargetHealth, TargetWrites
<1>3. CASE RelayBlocks \/ RelayConflict
  BY <1>3 DEF RelayBlocks, RelayConflict
<1>4. CASE RelaySteps
  BY <1>4 DEF RelaySteps, OwnNext
<1>5. CASE ClientDeploys \/ ClientPolls \/ ClientAsks \/ ClientLeaves
  BY <1>5 DEF ClientDeploys, ClientPolls, ClientAsks, ClientLeaves
<1>6. QED
  BY <1>1, <1>2, <1>3, <1>4, <1>5 DEF Next

\* A claim is made by a stream, and a rollback has none.
LEMMA ClaimsAreDeploys ==
  ASSUME DeployInv, [Next]_vars PROVE deploy'.claim => deploy.claim \/ ~ask.rollback
<1>0. deploy \in DeployType
  BY DEF DeployInv
<1>1. CASE UNCHANGED deploy
  BY <1>1
<1>2. CASE DoneEvent
  BY <1>2 DEF DoneEvent
<1>3. CASE EnvBlocks \/ RelayBlocks \/ RelayConflict
  BY <1>0, <1>3 DEF EnvBlocks, RelayBlocks, RelayConflict, Goto, DeployType
<1>4. CASE StreamBreaks
  BY <1>0, <1>4 DEF StreamBreaks, Goto, DeployType
<1>5. ASSUME NEW status, NEW card, NEW steps, Writes(status, card, steps)
      PROVE  deploy'.claim => deploy.claim
  BY <1>5 DEF Writes, Goto, NoDeploy
<1>6. CASE GateConfirms
  BY <1>5, <1>6 DEF GateConfirms
<1>7. CASE GateRecovers
  <2>1. ASSUME Goto([deploy EXCEPT !.at = "target"]) PROVE deploy'.claim => deploy.claim
    BY <1>0, <2>1 DEF Goto, DeployType
  <2>2. QED
    BY <1>5, <1>7, <2>1 DEF GateRecovers
<1>8. CASE TargetRow \/ TargetDetail \/ TargetHealth \/ TargetWrites
  <2>1. ASSUME NEW at, NEW proof, NEW commit, NEW mistaken,
               Goto([deploy EXCEPT !.at = at])
                 \/ Goto([deploy EXCEPT !.at = at, !.proof = proof])
                 \/ Goto([deploy EXCEPT !.at = at, !.proof = proof, !.head = commit, !.mistaken = mistaken])
        PROVE  deploy'.claim => deploy.claim
    BY <1>0, <2>1 DEF Goto, DeployType
  <2>2. QED
    BY <1>5, <1>8, <2>1 DEF TargetRow, TargetDetail, TargetHealth, TargetWrites, Misses
<1>9. QED
  BY <1>1, <1>2, <1>3, <1>4, <1>6, <1>7, <1>8, DeploySteps

\* Nothing but the call and the clock moves.
LEMMA CallKeeps ==
  ASSUME TargetTyped, OwnRunsOnce, InWindow, NEW sent \in BOOLEAN, sent => ask.sent,
         ask' = [ask EXCEPT !.sent = sent], NEW run \in RunType, relayRun' = run,
         run.who = "own" => (ask.sent \/ relayRun.who = "own") /\ ~sent,
         now' \in 1..MaxTime, now <= now', run.began <= now', runs' \in 0..MaxRuns, later' \in BOOLEAN,
         head' \in Commits, UNCHANGED <<entries, skew, truth>>
  PROVE  TargetTyped' /\ OwnRunsOnce' /\ InWindow'
<1>0. ask \in AskType /\ now \in Int /\ now' \in Int /\ skew \in Int
  BY TargetConstants DEF TargetTyped
<1>1. ask' \in AskType /\ ask'.start = ask.start /\ ask'.sent = sent
  BY <1>0 DEF AskType
<1>2. TargetTyped'
  BY <1>1 DEF TargetTyped
<1>3. OwnRunsOnce'
  BY <1>1 DEF OwnRunsOnce, Describes
<1>4. ask.start \in Int /\ RelayTime \in Int /\ RelayTime' \in Int /\ RelayTime <= RelayTime'
  BY <1>0 DEF RelayTime, AskType
<1>5. \A n : NewSince(n) => NewSince(n)'
  BY <1>1 DEF NewSince
<1>6. InWindow'
  BY <1>1, <1>4, <1>5 DEF InWindow
<1>7. QED
  BY <1>2, <1>3, <1>6

\* A run that ends leaves its entry on top.
LEMMA RunEndsKeeps ==
  ASSUME TargetTyped, OwnRunsOnce, InWindow, RunEnds
  PROVE  TargetTyped' /\ OwnRunsOnce' /\ InWindow'
<1>0. /\ ask \in AskType /\ relayRun \in RunType /\ truth \in TruthType
      /\ entries \in Seq(EntryType) /\ Len(entries) <= HistoryCap /\ Len(entries) \in Nat
      /\ DOMAIN entries = 1..Len(entries)
      /\ head \in Commits /\ now \in Nat /\ skew \in Int /\ relayRun.began \in Nat /\ relayRun.began <= now
  BY TargetConstants DEF TargetTyped, RunType
<1>1. RelayTime \in Int /\ ask.start \in Int
  BY <1>0 DEF RelayTime, AskType
<1> DEFINE own == relayRun.who = "own"
           id == ask.ids /\ relayRun.who \in {"own", "panel"}
           mcp == relayRun.who = "mcp"
           duration == IF relayRun.rollback THEN 0 ELSE now - relayRun.began
<1>2. own \in BOOLEAN /\ id \in BOOLEAN /\ mcp \in BOOLEAN /\ duration \in Nat
  BY <1>0 DEF AskType, RunType
<1>ends. PICK status \in {"success", "failed"}, commit \in Commits, at \in Commits :
        /\ head' = at
        /\ entries' = Prepend([own |-> own, status |-> status, id |-> id, before |-> head, after |-> commit,
                               created |-> RelayTime, duration |-> duration, mcp |-> mcp])
        /\ truth' = IF own THEN [status |-> status, commit |-> commit, moved |-> commit # head,
                                 seen |-> RelayTime >= ask.start]
                    ELSE truth
  BY DEF RunEnds
<1> DEFINE moved == commit # head
           seen == RelayTime >= ask.start
<1>bools. moved \in BOOLEAN /\ seen \in BOOLEAN
  OBVIOUS
<1>3. PICK e :
        /\ head' = at /\ entries' = Prepend(e)
        /\ e = [own |-> own, status |-> status, id |-> id, before |-> head, after |-> commit,
                created |-> RelayTime, duration |-> duration, mcp |-> mcp]
        /\ moved <=> commit # head
        /\ seen <=> RelayTime >= ask.start
        /\ truth' = IF own THEN [status |-> status, commit |-> commit, moved |-> moved, seen |-> seen]
                    ELSE truth
  BY <1>ends
<1> HIDE DEF own, id, mcp, duration, moved, seen
<1>4. /\ e \in EntryType /\ (e.own <=> own) /\ e.status = status /\ e.after = commit
      /\ e.before = head /\ e.created = RelayTime
  BY <1>0, <1>1, <1>2, <1>3 DEF EntryType
<1>5. own => /\ truth' \in TruthType /\ truth'.status = status /\ truth'.commit = commit
             /\ (truth'.moved <=> moved) /\ (truth'.seen <=> seen)
  BY <1>bools, <1>3 DEF TruthType
<1>6. ~own => truth' = truth
  BY <1>3
<1>7. PICK k : k = IF Len(entries) < HistoryCap THEN Len(entries) + 1 ELSE HistoryCap
  OBVIOUS
<1>8. /\ entries' \in Seq(EntryType) /\ Len(entries') = k /\ k \in Nat \ {0} /\ k <= HistoryCap
      /\ DOMAIN entries' = 1..k /\ entries'[1] = e
      /\ \A i \in 2..k : i - 1 \in DOMAIN entries /\ entries'[i] = entries[i - 1]
  <2>1. /\ Prepend(e) \in Seq(EntryType) /\ Len(Prepend(e)) = k /\ k \in Nat \ {0} /\ k <= HistoryCap
        /\ Prepend(e)[1] = e
        /\ \A i \in 2..k : i - 1 \in DOMAIN entries /\ Prepend(e)[i] = entries[i - 1]
    <3>1. entries \in Seq(EntryType) /\ Len(entries) <= HistoryCap /\ e \in EntryType
      BY <1>0, <1>4
    <3>2. QED
      BY <1>7, <3>1, PrependIs
  <2>2. QED
    BY <1>3, <2>1
<1>9. relayRun' = NoRun /\ UNCHANGED <<ask, now, skew, runs, later>>
  BY DEF RunEnds
<1>10. TargetTyped'
  BY <1>0, <1>3, <1>5, <1>6, <1>8, <1>9 DEF TargetTyped, NoRun, RunType
<1>11. OwnRunsOnce'
  <2>1. ask'.sent => truth' = NoTruth
    BY <1>6, <1>9 DEF OwnRunsOnce, own
  <2>2. relayRun'.who # "own"
    BY <1>9 DEF NoRun
  <2>3. ASSUME NEW i \in DOMAIN entries, entries[i].own PROVE ~own /\ Describes(entries[i])
    <3>1. Describes(entries[i]) /\ entries[i] \in EntryType
      BY <1>0, <2>3 DEF OwnRunsOnce
    <3>2. truth.status # "none"
      BY <3>1 DEF Describes, EntryType
    <3>3. QED
      BY <3>1, <3>2 DEF OwnRunsOnce, NoTruth, own
  <2>4. ASSUME NEW i \in 1..k, entries'[i].own PROVE Describes(entries[i])'
    <3>1. CASE i = 1
      <4>1. own
        BY <1>4, <1>8, <2>4, <3>1
      <4>2. /\ truth'.status = e.status /\ truth'.commit = e.after
            /\ truth'.moved <=> e.after # e.before
        BY <1>3, <1>4, <1>5, <4>1
      <4>3. QED
        BY <1>8, <3>1, <4>2 DEF Describes
    <3>2. CASE i \in 2..k
      <4>1. i - 1 \in DOMAIN entries /\ entries'[i] = entries[i - 1]
        BY <1>8, <3>2
      <4>2. ~own /\ Describes(entries[i - 1])
        BY <2>3, <2>4, <4>1
      <4>3. QED
        BY <1>6, <4>1, <4>2 DEF Describes
    <3>3. QED
      BY <1>8, <3>1, <3>2
  <2>5. QED
    BY <1>8, <2>1, <2>2, <2>4 DEF OwnRunsOnce
<1>12. InWindow'
  <2>1. RelayTime' = RelayTime /\ ask'.start = ask.start
    BY <1>9 DEF RelayTime
  <2>2. CASE own
    <3>1. truth'.seen => RelayTime >= ask.start
      BY <1>3, <1>5, <2>2
    <3>2. entries'[1].own /\ 1 \in DOMAIN entries'
      BY <1>4, <1>8, <2>2
    <3>3. truth'.seen => NewSince(1)'
      BY <1>4, <1>8, <2>1, <3>1 DEF NewSince
    <3>4. QED
      BY <2>1, <3>1, <3>2, <3>3 DEF InWindow
  <2>3. CASE ~own
    <3>1. SUFFICES ASSUME truth.seen
                   PROVE  /\ RelayTime' >= ask'.start
                          /\ \/ \E i \in DOMAIN entries' : entries'[i].own /\ NewSince(i)'
                             \/ Len(entries') = HistoryCap /\ NewSince(Len(entries))'
      BY <1>6, <2>3 DEF InWindow
    <3>2. RelayTime >= ask.start
      BY <3>1 DEF InWindow
    <3>3. ASSUME NEW n \in Nat, n <= Len(entries), NewSince(n), NEW m \in 1..k, m <= n + 1
          PROVE  NewSince(m)'
      <4>1. SUFFICES ASSUME NEW j \in 1..m PROVE entries'[j].created >= ask'.start
        BY DEF NewSince
      <4>2. CASE j = 1
        BY <1>4, <1>8, <2>1, <3>2, <4>2
      <4>3. CASE j \in 2..m
        <5>1. j \in 2..k /\ j - 1 \in 1..n
          BY <1>8, <3>3, <4>3
        <5>2. entries'[j] = entries[j - 1] /\ entries[j - 1].created >= ask.start
          BY <1>8, <3>3, <5>1 DEF NewSince
        <5>3. QED
          BY <2>1, <5>2
      <4>4. QED
        BY <4>2, <4>3
    <3>4. CASE \E i \in DOMAIN entries : entries[i].own /\ NewSince(i)
      <4>1. PICK i \in 1..Len(entries) : entries[i].own /\ NewSince(i)
        BY <1>0, <3>4
      <4>2. CASE i + 1 <= k
        <5>1. i + 1 \in 2..k
          BY <1>0, <1>8, <4>2
        <5>2. entries'[i + 1] = entries[i] /\ i + 1 \in DOMAIN entries'
          BY <1>8, <5>1
        <5>3. NewSince(i + 1)'
          BY <1>0, <1>8, <3>3, <4>1, <5>1
        <5>4. QED
          BY <2>1, <3>2, <4>1, <5>2, <5>3
      <4>3. CASE ~(i + 1 <= k)
        <5>1. k = HistoryCap /\ k <= i
          BY <1>0, <1>7, <1>8, <4>3, TargetConstants
        <5>2. NewSince(k)'
          BY <1>0, <1>8, <3>3, <4>1, <5>1
        <5>3. QED
          BY <1>8, <2>1, <3>2, <5>1, <5>2
      <4>4. QED
        BY <4>2, <4>3
    <3>5. CASE Len(entries) = HistoryCap /\ NewSince(Len(entries))
      <4>1. k = HistoryCap
        BY <1>7, <3>5
      <4>2. NewSince(k)'
        BY <1>0, <1>8, <3>3, <3>5, <4>1
      <4>3. QED
        BY <1>8, <2>1, <3>2, <4>1, <4>2
    <3>6. QED
      BY <3>1, <3>4, <3>5 DEF InWindow
  <2>4. QED
    BY <2>2, <2>3
<1>13. QED
  BY <1>10, <1>11, <1>12

LEMMA TargetKeeps ==
  ASSUME TargetTyped, OwnRunsOnce, InWindow, [Next]_vars
  PROVE  TargetTyped' /\ OwnRunsOnce' /\ InWindow'
<1>0. /\ ask \in AskType /\ ask.sent \in BOOLEAN /\ relayRun \in RunType /\ relayRun.began <= now
      /\ now \in 1..MaxTime /\ now \in Nat /\ MaxTime \in Nat /\ runs \in 0..MaxRuns /\ MaxRuns \in Nat
      /\ head \in Commits /\ later \in BOOLEAN /\ relayRun.began \in Nat
  BY TargetConstants DEF TargetTyped, AskType, RunType
<1>1. /\ ask = [ask EXCEPT !.sent = ask.sent]
      /\ relayRun.who = "own" => ~ask.sent
  BY <1>0 DEF AskType, OwnRunsOnce
<1>2. CASE UNCHANGED targetVars
  BY <1>2 DEF targetVars, TargetTyped, OwnRunsOnce, Describes, InWindow, NewSince, RelayTime
<1>3. CASE ask' = [ask EXCEPT !.sent = FALSE] /\ UNCHANGED <<relaySide, now, skew, later>>
  <2>1. PICK run \in RunType : run = relayRun /\ run.began <= now
    BY <1>0
  <2>2. /\ ask' = [ask EXCEPT !.sent = FALSE] /\ relayRun' = run /\ now' \in 1..MaxTime /\ now <= now'
        /\ run.began <= now' /\ runs' \in 0..MaxRuns /\ later' \in BOOLEAN /\ head' \in Commits
        /\ UNCHANGED <<entries, skew, truth>>
        /\ run.who = "own" => relayRun.who = "own"
    BY <1>0, <1>3, <2>1 DEF relaySide
  <2>3. QED
    BY <2>2, CallKeeps
<1>4. CASE Tick
  <2>1. now' \in 1..MaxTime /\ now <= now' /\ relayRun.began <= now'
    BY <1>0, <1>4 DEF Tick
  <2>2. QED
    BY <1>0, <1>1, <1>4, <2>1, CallKeeps DEF Tick, relaySide
<1>5. CASE OwnRun
  <2>1. PICK run : run = [who |-> "own", rollback |-> ask.rollback, began |-> now]
    OBVIOUS
  <2>2. run \in RunType /\ run.who = "own" /\ run.began = now
    BY <1>0, <2>1 DEF RunType, AskType
  <2>3. /\ ask.sent /\ ask' = [ask EXCEPT !.sent = FALSE] /\ relayRun' = run
        /\ UNCHANGED <<entries, head, now, skew, runs, later, truth>>
    BY <1>5, <2>1 DEF OwnRun
  <2>4. /\ now' \in 1..MaxTime /\ now <= now' /\ run.began <= now' /\ runs' \in 0..MaxRuns
        /\ later' \in BOOLEAN /\ head' \in Commits
    BY <1>0, <2>2, <2>3
  <2>5. QED
    BY <2>2, <2>3, <2>4, CallKeeps
<1>6. CASE RunEnds
  BY <1>6, RunEndsKeeps
<1>7. CASE RunVanishes
  <2>1. NoRun \in RunType /\ NoRun.who = "none" /\ NoRun.began <= now
    BY <1>0 DEF NoRun, RunType
  <2>2. /\ relayRun' = NoRun /\ head' \in Commits /\ ask' = [ask EXCEPT !.sent = ask.sent]
        /\ UNCHANGED <<entries, now, skew, runs, later, truth>>
    BY <1>1, <1>7 DEF RunVanishes
  <2>3. QED
    BY <1>0, <2>1, <2>2, CallKeeps
<1>8. CASE ForeignRun
  <2>1. PICK who \in {"panel", "http", "mcp"}, rollback \in BOOLEAN :
          /\ relayRun' = [who |-> who, rollback |-> rollback, began |-> now]
          /\ later' = (later \/ who = "panel")
    BY <1>8 DEF ForeignRun
  <2>2. PICK run : run = [who |-> who, rollback |-> rollback, began |-> now]
    OBVIOUS
  <2>3. run \in RunType /\ run.who # "own" /\ run.began <= now
    BY <1>0, <2>2 DEF RunType
  <2>4. later' \in BOOLEAN
    BY <1>0, <2>1
  <2>5. runs' \in 0..MaxRuns
    BY <1>0, <1>8 DEF ForeignRun
  <2>6. ask' = [ask EXCEPT !.sent = ask.sent] /\ relayRun' = run /\ now' = now
        /\ UNCHANGED <<entries, head, skew, truth>>
    BY <1>1, <1>8, <2>1, <2>2 DEF ForeignRun
  <2>7. QED
    BY <1>0, <2>3, <2>4, <2>5, <2>6, CallKeeps
<1>9. QED
  BY <1>2, <1>3, <1>4, <1>5, <1>6, <1>7, <1>8, TargetSteps

\* The call in question does not turn into another.
LEMMA AskStays ==
  ASSUME TargetTyped, [Next]_vars PROVE ask'.rollback = ask.rollback /\ ask'.commit = ask.commit
  BY TargetSteps
     DEF TargetTyped, AskType, targetVars, Tick, OwnRun, RunEnds, RunVanishes, ForeignRun

LEMMA TargetStarts == ASSUME Init PROVE TargetInv
<1>1. /\ NoRun \in RunType /\ NoRun.who = "none" /\ NoRun.began = 0
      /\ NoTruth \in TruthType /\ ~NoTruth.seen
      /\ 1 \in 1..MaxTime /\ 0 \in 0..MaxRuns /\ (CHOOSE c \in Commits : TRUE) \in Commits
  BY TargetConstants DEF NoRun, RunType, NoTruth, TruthType
<1>2. ASSUME ask \in AskType, relayRun \in RunType, relayRun.who # "own", relayRun.began = 0,
             entries = << >>, head = CHOOSE c \in Commits : TRUE, now = 1, skew \in Int, runs = 0,
             later = FALSE, truth = NoTruth, ~deploy.claim
      PROVE  TargetInv
  <2>1. entries \in Seq(EntryType) /\ Len(entries) = 0 /\ DOMAIN entries = {}
    BY <1>2
  <2>2. TargetTyped
    <3>1. Len(entries) <= HistoryCap
      BY <2>1, TargetConstants
    <3>2. head \in Commits /\ now \in 1..MaxTime /\ runs \in 0..MaxRuns /\ later \in BOOLEAN
          /\ truth \in TruthType
      BY <1>1, <1>2
    <3>3. relayRun.began <= now
      BY <1>2
    <3>4. QED
      BY <1>2, <2>1, <3>1, <3>2, <3>3 DEF TargetTyped
  <2>3. OwnRunsOnce /\ InWindow
    BY <1>1, <1>2, <2>1 DEF OwnRunsOnce, InWindow
  <2>4. QED
    BY <1>2, <2>2, <2>3 DEF TargetInv
<1>3. ~deploy.claim
  <2>1. ~NoDeploy.claim /\ \A at : ~[NoDeploy EXCEPT !.at = at].claim
    BY DEF NoDeploy
  <2>2. QED
    BY <2>1 DEF Init
<1>4. ASSUME NEW sent \in BOOLEAN, StreamInit(sent) PROVE TargetInv
  <2>1. ask \in AskType
    <3>1. Unasked \in AskType
      BY DEF Unasked, AskType
    <3>2. QED
      BY <1>4, <3>1 DEF StreamInit, AskType
  <2>2. relayRun = NoRun \/ relayRun = [who |-> "http", rollback |-> FALSE, began |-> 0]
    BY <1>4 DEF StreamInit
  <2>3. relayRun \in RunType /\ relayRun.who # "own" /\ relayRun.began = 0
    <3>1. CASE relayRun = NoRun
      BY <1>1, <3>1
    <3>2. CASE relayRun = [who |-> "http", rollback |-> FALSE, began |-> 0]
      BY <3>2 DEF RunType
    <3>3. QED
      BY <2>2, <3>1, <3>2
  <2>4. /\ entries = << >> /\ head = CHOOSE c \in Commits : TRUE
        /\ now = 1 /\ skew = 0 /\ runs = 0 /\ later = FALSE /\ truth = NoTruth
    BY <1>4 DEF StreamInit
  <2>5. skew \in Int
    BY <2>4
  <2>6. QED
    BY <1>2, <1>3, <2>1, <2>3, <2>4, <2>5
<1>5. ASSUME TargetInit PROVE TargetInv
  <2>1. ask \in AskType
    <3>1. \/ \E ids \in BOOLEAN : ask = [start |-> 1, sent |-> TRUE, rollback |-> FALSE, ids |-> ids, commit |-> 0]
          \/ \E ids \in BOOLEAN, c \in Commits \cup {0} :
               ask = [start |-> 1, sent |-> TRUE, rollback |-> TRUE, ids |-> ids, commit |-> c]
      BY <1>5 DEF TargetInit
    <3>2. ASSUME NEW rollback \in BOOLEAN, NEW ids \in BOOLEAN, NEW c \in Commits \cup {0},
                 ask = [start |-> 1, sent |-> TRUE, rollback |-> rollback, ids |-> ids, commit |-> c]
          PROVE  ask \in AskType
      BY <3>2 DEF AskType
    <3>3. QED
      BY <3>1, <3>2
  <2>2. relayRun = NoRun \/ \E w \in {"panel", "http", "mcp"} :
          relayRun = [who |-> w, rollback |-> FALSE, began |-> 0]
    <3>1. relayRun \in {NoRun} \cup {[who |-> w, rollback |-> FALSE, began |-> 0] : w \in {"panel", "http", "mcp"}}
      BY <1>5 DEF TargetInit
    <3>2. QED
      BY <3>1, Zenon
  <2>3. relayRun \in RunType /\ relayRun.who # "own" /\ relayRun.began = 0
    <3>1. CASE relayRun = NoRun
      BY <1>1, <3>1
    <3>2. ASSUME NEW w \in {"panel", "http", "mcp"}, relayRun = [who |-> w, rollback |-> FALSE, began |-> 0]
          PROVE  relayRun \in RunType /\ relayRun.who # "own" /\ relayRun.began = 0
      BY <3>2 DEF RunType
    <3>3. QED
      BY <2>2, <3>1, <3>2
  <2>4. /\ entries = << >> /\ head = CHOOSE c \in Commits : TRUE
        /\ now = 1 /\ skew \in -MaxSkew..MaxSkew /\ runs = 0 /\ later = FALSE /\ truth = NoTruth
    BY <1>5 DEF TargetInit
  <2>5. skew \in Int
    BY <2>4, TargetConstants
  <2>6. QED
    BY <1>2, <1>3, <2>1, <2>3, <2>4, <2>5
<1>6. QED
  BY <1>4, <1>5 DEF Init

THEOREM TargetInductive == Spec => []TargetInv
<1>1. ASSUME DeployInv, TargetInv, [Next]_vars PROVE TargetInv'
  <2>1. TargetTyped' /\ OwnRunsOnce' /\ InWindow'
    BY <1>1, TargetKeeps DEF TargetInv
  <2>2. deploy'.claim => ~ask'.rollback
    BY <1>1, AskStays, ClaimsAreDeploys DEF TargetInv
  <2>3. QED
    BY <2>1, <2>2 DEF TargetInv
<1>2. QED
  BY <1>1, TargetStarts, DeployInductive, PTL DEF Spec

\* The deploy's records, the clocks, the windows and the places they may be at.
THEOREM EvidenceTypeOK == Spec => []TypeOK
<1>1. ASSUME EnvInv, GateInv, DeployInv, ClientInv, TargetInv PROVE TypeOK
  <2>1. EnvTypeOK
    BY <1>1 DEF EnvInv, EnvTyped
  <2>2. gate.verdict \in {"none", "healthy", "unhealthy"}
    BY <1>1 DEF GateInv, Gates
  <2>3. /\ relayRun.who \in {"none", "own", "panel", "http", "mcp"}
        /\ Len(entries) <= HistoryCap /\ head \in Commits /\ now \in 1..MaxTime /\ runs \in 0..MaxRuns
    BY <1>1 DEF TargetInv, TargetTyped, RunType
  <2>4. /\ deploy.at \in {"off", "streaming", "breaking", "gate", "target", "detail", "health", "verdict", "done"}
        /\ deploy.row \in {"running", "success", "failed", "interrupted"}
        /\ deploy.card \in {"deploying", "kept", "healthy", "unhealthy"}
    BY <1>1 DEF DeployInv, DeployType
  <2>5. client.time \in 0..(Patience + LongestWait)
    BY <1>1 DEF ClientInv, ClientType
  <2>6. QED
    BY <2>1, <2>2, <2>3, <2>4, <2>5 DEF TypeOK
<1>2. QED
  BY <1>1, EnvInductive, GateInductive, DeployInductive, ClientInductive, TargetInductive, PTL

-----------------------------------------------------------------------------
(* What a recovery may record a success: what the relay's answer proved of *)
(* the call still holds when the row is written: the call runs once.       *)

\* The entry of the call in question tells how the call ended.
RanTo(commit) == truth.status = "success" /\ commit = truth.commit

LEMMA OwnEntryArrived ==
  ASSUME TargetInv, NEW e \in Own, AssessEntryOutcome(e).reached
  PROVE  RanTo(head) /\ e.after = head /\ (truth.moved <=> e.after # e.before)
<1>1. e.status = "success" /\ e.after = head
  BY DEF AssessEntryOutcome, NotReached
<1>2. Describes(e)
  BY DEF Own, Reported, TargetInv, OwnRunsOnce
<1>3. QED
  BY <1>1, <1>2 DEF Describes, RanTo

\* A lone entry since the call is the call's own, unless that left none in the window.
LEMMA LoneEntryIsOwn ==
  ASSUME TargetInv, NEW i \in TheEntry
  PROVE  /\ i \in DOMAIN entries /\ entries[i] \in EntryType /\ entries[i] \in Reported
         /\ SinceStart = {i} /\ i \in SinceStart
         /\ truth.seen => entries[i].own
<1>1. TheEntry = SinceStart /\ Cardinality(SinceStart) = 1
  BY FS_EmptySet DEF TheEntry
<1>2. entries \in Seq(EntryType) /\ DOMAIN entries = 1..Len(entries) /\ Len(entries) \in Nat
  BY DEF TargetInv, TargetTyped
<1>3. IsFiniteSet(SinceStart)
  <2>1. IsFiniteSet(DOMAIN entries)
    BY <1>2, FS_Interval
  <2>2. QED
    BY <2>1, FS_Subset DEF SinceStart
<1>4. SinceStart = {i} /\ i \in SinceStart
  <2>1. PICK x : SinceStart = {x}
    BY <1>1, <1>3, FS_Singleton
  <2>2. QED
    BY <1>1, <2>1
<1>5. i \in DOMAIN entries /\ entries[i] \in EntryType /\ entries[i] \in Reported
  <2>1. i \in DOMAIN entries
    BY <1>4 DEF SinceStart
  <2>2. QED
    BY <1>2, <2>1 DEF Reported
<1>6. ASSUME truth.seen PROVE entries[i].own
  <2>1. CASE \E j \in DOMAIN entries : entries[j].own /\ NewSince(j)
    <3>1. PICK j \in 1..Len(entries) : entries[j].own /\ NewSince(j)
      BY <1>2, <2>1
    <3>2. j \in SinceStart
      BY <1>2, <3>1 DEF NewSince, SinceStart
    <3>3. QED
      BY <1>4, <3>1, <3>2
  <2>2. CASE Len(entries) = HistoryCap /\ NewSince(Len(entries))
    <3>1. 1 \in SinceStart /\ 2 \in SinceStart
      BY <1>2, <2>2, TargetConstants DEF NewSince, SinceStart
    <3>2. QED
      BY <1>4, <3>1
  <2>3. QED
    BY <1>6, <2>1, <2>2 DEF TargetInv, InWindow
<1>7. QED
  BY <1>4, <1>5, <1>6

\* Another's lone entry, taken for the call's own.
LEMMA LoneEntryLooksOwn ==
  ASSUME TargetInv, NEW i \in TheEntry, ~entries[i].own, ~entries[i].mcp,
         entries[i].duration = 0 <=> ask.rollback, \A e \in Reported : ~e.id
  PROVE  AnotherLooksOwn
<1>1. SinceStart = {i} /\ i \in SinceStart /\ ~truth.seen
  BY LoneEntryIsOwn
<1>2. QED
  BY <1>1 DEF AnotherLooksOwn

\* A deploy that is found to have reached its target.
LEMMA DeployIsFound ==
  ASSUME TargetInv, ~ask.rollback, NEW ids, ids = TRUE \/ \A e \in Reported : ~e.id,
         AssessTargetReached(ids).reached
  PROVE  RanTo(head) \/ AnotherLooksOwn
<1>1. ~NoEntryYet.reached /\ \A why : ~NotReached(why).reached
  BY DEF NoEntryYet, NotReached
<1>2. CASE ids
  <2>1. Own # {}
    BY <1>1, <1>2 DEF AssessTargetReached
  <2>2. PICK e \in Own : e = CHOOSE x \in Own : TRUE
    BY <2>1
  <2>3. AssessEntryOutcome(e).reached
    BY <1>1, <1>2, <2>1, <2>2 DEF AssessTargetReached
  <2>4. QED
    BY <2>3, OwnEntryArrived
<1>3. CASE ~ids
  <2>1. TheEntry # {}
    BY <1>1, <1>3 DEF AssessTargetReached
  <2>2. PICK i \in TheEntry : i = CHOOSE x \in TheEntry : TRUE
    BY <2>1
  <2>3. PICK e : e = entries[i]
    OBVIOUS
  <2>4. /\ ~e.mcp /\ e.duration # 0 /\ AssessEntryOutcome(e).reached
    BY <1>1, <1>3, <2>1, <2>2, <2>3 DEF AssessTargetReached
  <2>5. CASE e.own
    BY <2>3, <2>4, <2>5, LoneEntryIsOwn, OwnEntryArrived DEF Own
  <2>6. CASE ~e.own
    BY <1>3, <2>3, <2>4, <2>6, LoneEntryLooksOwn
  <2>7. QED
    BY <2>5, <2>6
<1>4. QED
  BY <1>2, <1>3

\* A rollback that is found to have reached its target.
RolledTo(commit) ==
  /\ RanTo(commit)
  /\ IF ask.commit \in Commits THEN truth.commit = ask.commit ELSE truth.moved

LEMMA RollbackIsFound ==
  ASSUME TargetInv, ask.rollback, NEW ids, ids = TRUE \/ \A e \in Reported : ~e.id,
         AssessRollbackReached(ids).reached
  PROVE  RolledTo(head) \/ (AnotherLooksOwn /\ head = ask.commit)
<1>1. \A why : ~NotReached(why).reached
  BY DEF NotReached
<1> DEFINE candidates == IF ids THEN Own ELSE {entries[i] : i \in TheEntry}
<1>2. candidates # {} /\ (ids \/ ask.commit \in Commits)
  BY <1>1 DEF AssessRollbackReached
<1>3. PICK e \in candidates : e = CHOOSE x \in candidates : TRUE
  BY <1>2
<1>4. AssessEntryOutcome(e).reached /\ NamedOrMoved(e) /\ ~e.mcp /\ ~(e.duration > 0)
  BY <1>1, <1>2, <1>3 DEF AssessRollbackReached
<1>5. e.after = head
  BY <1>4 DEF AssessEntryOutcome, NotReached
<1>6. CASE e \in Own
  <2>1. RanTo(head) /\ (truth.moved <=> e.after # e.before)
    BY <1>4, <1>6, OwnEntryArrived
  <2>2. QED
    BY <1>4, <1>5, <2>1 DEF RolledTo, RanTo, NamedOrMoved
<1>7. CASE e \notin Own
  <2>1. ~ids /\ ask.commit \in Commits
    BY <1>2, <1>3, <1>7
  <2>2. PICK i \in TheEntry : e = entries[i]
    BY <1>3, <2>1
  <2>3. e \in EntryType /\ e \in Reported
    BY <2>2, LoneEntryIsOwn
  <2>4. ~e.own /\ e.duration = 0
    BY <1>4, <1>7, <2>3 DEF Own, EntryType
  <2>5. AnotherLooksOwn
    BY <1>4, <2>1, <2>2, <2>4, LoneEntryLooksOwn
  <2>6. QED
    BY <1>4, <1>5, <2>1, <2>5 DEF NamedOrMoved
<1>8. QED
  BY <1>6, <1>7

\* What the panel holds of the relay's answer, once it is a proof.
Found ==
  IF ask.rollback THEN RolledTo(deploy.head) \/ (deploy.mistaken /\ deploy.head = ask.commit)
  ELSE RanTo(deploy.head) \/ deploy.mistaken
FoundInv ==
  /\ deploy.at = "health" /\ deploy.proof # {} => Found
  /\ deploy.at = "verdict" => Found

\* The call does not run again, and HEAD and the history are not read again.
LEMMA FoundStays ==
  ASSUME TargetInv, Found, [Next]_vars, deploy'.head = deploy.head, deploy'.mistaken = deploy.mistaken
  PROVE  Found'
<1>1. ask'.rollback = ask.rollback /\ ask'.commit = ask.commit
  BY AskStays DEF TargetInv
<1>2. CASE deploy.mistaken /\ (ask.rollback => deploy.head = ask.commit)
  BY <1>1, <1>2 DEF Found
<1>3. CASE ~(deploy.mistaken /\ (ask.rollback => deploy.head = ask.commit))
  <2>1. truth.status = "success"
    BY <1>3 DEF Found, RolledTo, RanTo
  <2>2. relayRun.who # "own"
    BY <2>1 DEF TargetInv, OwnRunsOnce, NoTruth
  <2>3. truth' = truth
    BY <2>2, TargetSteps DEF targetVars, relaySide, Tick, OwnRun, RunEnds, RunVanishes, ForeignRun
  <2>4. QED
    BY <1>1, <1>3, <2>3 DEF Found, RolledTo, RanTo
<1>4. QED
  BY <1>2, <1>3

\* Only the three calls bring the deploy to where it holds a proof.
LEMMA HoldsProofBy ==
  ASSUME DeployInv, [Next]_vars, deploy'.at \in {"health", "verdict"}
  PROVE  \/ UNCHANGED deploy
         \/ /\ TargetDetail /\ deploy'.at = "health" /\ deploy'.proof = Proof
            /\ deploy'.head = head /\ deploy'.mistaken = AnotherLooksOwn
         \/ /\ TargetHealth /\ deploy.at = "health" /\ deploy.proof # {} /\ deploy'.at = "verdict"
            /\ deploy'.head = deploy.head /\ deploy'.mistaken = deploy.mistaken
<1>0. deploy \in DeployType
  BY DEF DeployInv
<1>1. ASSUME NEW status, NEW card, NEW steps, Writes(status, card, steps) PROVE FALSE
  BY <1>1 DEF Writes, Goto, NoDeploy
<1>2. ASSUME EnvBlocks \/ RelayBlocks \/ RelayConflict \/ DoneEvent \/ StreamBreaks PROVE FALSE
  BY <1>0, <1>2 DEF EnvBlocks, RelayBlocks, RelayConflict, DoneEvent, StreamBreaks, Goto, DeployType
<1>3. ASSUME GateConfirms \/ TargetWrites PROVE FALSE
  BY <1>1, <1>3 DEF GateConfirms, TargetWrites
<1>4. ASSUME NEW at \in {"target", "detail"}, Goto([deploy EXCEPT !.at = at]) PROVE FALSE
  BY <1>0, <1>4 DEF Goto, DeployType
<1>5. ASSUME GateRecovers \/ TargetRow PROVE FALSE
  BY <1>1, <1>4, <1>5 DEF GateRecovers, TargetRow, Misses
<1>6. CASE TargetDetail
  <2>1. deploy' = [deploy EXCEPT !.at = "health", !.proof = Proof, !.head = head, !.mistaken = AnotherLooksOwn]
    BY <1>1, <1>6 DEF TargetDetail, Misses, Goto
  <2>2. QED
    BY <1>0, <1>6, <2>1 DEF DeployType
<1>7. CASE TargetHealth
  <2>1. deploy' = [deploy EXCEPT !.at = "verdict", !.proof = {}] /\ deploy.at = "health" /\ deploy.proof # {}
    BY <1>1, <1>7 DEF TargetHealth, Misses, Goto
  <2>2. QED
    BY <1>0, <1>7, <2>1 DEF DeployType
<1>8. QED
  BY <1>2, <1>3, <1>5, <1>6, <1>7, DeploySteps

LEMMA FoundInductive == Spec => []FoundInv
<1>1. ASSUME Init PROVE FoundInv
  <2>1. \A at : NoDeploy.at = "off" /\ [NoDeploy EXCEPT !.at = at].at = at
    BY DEF NoDeploy
  <2>2. deploy.at \in {"off", "streaming", "breaking"}
    BY <1>1, <2>1 DEF Init
  <2>3. QED
    BY <2>2 DEF FoundInv
<1>2. ASSUME DeployInv, TargetInv, FoundInv, [Next]_vars PROVE FoundInv'
  <2>1. SUFFICES ASSUME deploy'.at \in {"health", "verdict"}, deploy'.at = "health" => deploy'.proof # {}
                 PROVE  Found'
    BY DEF FoundInv
  <2>2. CASE UNCHANGED deploy
    BY <1>2, <2>1, <2>2, FoundStays DEF FoundInv
  <2>3. CASE TargetHealth /\ deploy'.at = "verdict"
    BY <1>2, <2>1, <2>3, HoldsProofBy, FoundStays DEF FoundInv
  <2>4. CASE TargetDetail /\ deploy'.at = "health"
    <3>1. CASE deploy'.proof = Proof /\ deploy'.head = head /\ deploy'.mistaken = AnotherLooksOwn
      <4>1. PICK answered \in BOOLEAN : CheckDeployTarget(RecordsIds(answered)).reached
        BY <2>1, <2>4, <3>1 DEF Proof
      <4>2. RecordsIds(answered) = TRUE \/ \A e \in Reported : ~e.id
        BY DEF RecordsIds
      <4>3. UNCHANGED <<ask, truth>>
        BY <2>4 DEF TargetDetail, targetVars
      <4>4. CASE ask.rollback
        BY <1>2, <3>1, <4>1, <4>2, <4>3, <4>4, RollbackIsFound DEF CheckDeployTarget, Found, RolledTo, RanTo
      <4>5. CASE ~ask.rollback
        BY <1>2, <3>1, <4>1, <4>2, <4>3, <4>5, DeployIsFound DEF CheckDeployTarget, Found, RanTo
      <4>6. QED
        BY <4>4, <4>5
    <3>2. QED
      BY <1>2, <2>1, <2>2, <2>4, <3>1, HoldsProofBy
  <2>5. QED
    BY <1>2, <2>1, <2>2, <2>3, <2>4, HoldsProofBy
<1>3. QED
  BY <1>1, <1>2, DeployInductive, TargetInductive, PTL DEF Spec

\* A row becomes a success by a claim that the gate confirms, or at the end of the three calls.
LEMMA SuccessBy ==
  ASSUME DeployInv, [Next]_vars, deploy.row = "running", deploy'.row = "success", ~deploy.claim
  PROVE  deploy.at = "verdict"
<1>0. deploy \in DeployType
  BY DEF DeployInv
<1>1. ASSUME NEW status, NEW card, NEW steps, Writes(status, card, steps) PROVE deploy'.row = status
  BY <1>1 DEF Writes, Goto, NoDeploy
<1>2. ASSUME UNCHANGED deploy PROVE FALSE
  BY <1>2
<1>3. ASSUME EnvBlocks \/ RelayBlocks \/ RelayConflict PROVE FALSE
  BY <1>0, <1>3 DEF EnvBlocks, RelayBlocks, RelayConflict, Goto, DeployType
<1>4. ASSUME DoneEvent \/ StreamBreaks PROVE FALSE
  BY <1>0, <1>4 DEF DoneEvent, StreamBreaks, Goto, DeployType
<1>5. ASSUME NEW at, NEW proof, NEW commit, NEW mistaken,
             Goto([deploy EXCEPT !.at = at])
               \/ Goto([deploy EXCEPT !.at = at, !.proof = proof])
               \/ Goto([deploy EXCEPT !.at = at, !.proof = proof, !.head = commit, !.mistaken = mistaken])
      PROVE  FALSE
  BY <1>0, <1>5 DEF Goto, DeployType
<1>6. ASSUME GateRecovers \/ TargetRow \/ TargetDetail \/ TargetHealth PROVE FALSE
  BY <1>1, <1>5, <1>6 DEF GateRecovers, TargetRow, TargetDetail, TargetHealth, Misses
<1>7. QED
  BY <1>2, <1>3, <1>4, <1>6, DeploySteps DEF GateConfirms, TargetWrites

\* A deploy is recovered as a success only if it arrived, or if the relay's answer showed
\* another's run that can pass for it, whatever ran before, between and after the calls
\* (deploy-target.ts).
THEOREM RecoveriesAreReal == Spec => RecoveredIsReal
<1> DEFINE Real == deploy.row = "running" /\ ~deploy.claim /\ deploy'.row = "success" /\ ~ask.rollback
                     => Arrived \/ deploy.mistaken
<1>1. ASSUME DeployInv, FoundInv, [Next]_vars PROVE [Real]_vars
  BY <1>1, SuccessBy DEF FoundInv, Found, RanTo, Arrived
<1>2. QED
  BY <1>1, DeployInductive, FoundInductive, PTL DEF Spec, RecoveredIsReal

\* A rollback is recovered as a success only if it ran and left the repo on the commit that
\* was named or, where none was, on another; or if the relay's answer showed another's
\* rollback to the named commit (deploy-target.ts).
THEOREM RollbacksAreReal == Spec => RollbackIsReal
<1> DEFINE Real ==
      deploy.row = "running" /\ deploy'.row = "success" /\ ask.rollback
       => \/ /\ Arrived
             /\ IF ask.commit \in Commits THEN truth.commit = ask.commit ELSE truth.moved
          \/ deploy.mistaken /\ deploy.head = ask.commit
<1>1. ASSUME DeployInv, TargetInv, FoundInv, [Next]_vars PROVE [Real]_vars
  <2>1. ask.rollback => ~deploy.claim
    BY <1>1 DEF TargetInv
  <2>2. QED
    BY <1>1, <2>1, SuccessBy DEF FoundInv, Found, RolledTo, RanTo, Arrived
<1>2. QED
  BY <1>1, DeployInductive, TargetInductive, FoundInductive, PTL DEF Spec, RollbackIsReal

=============================================================================
