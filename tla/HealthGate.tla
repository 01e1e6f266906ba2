----------------------------- MODULE HealthGate -----------------------------
(***************************************************************************)
(* The post-deploy health gate (verifyDeployHealth): polls of the app's    *)
(* containers and of its public route, over a window that one extension    *)
(* may lengthen.  It runs optimistically after a success the relay         *)
(* claimed, and strictly where no such claim exists.                       *)
(***************************************************************************)
EXTENDS Naturals, Sequences, FiniteSets

CONSTANTS
  Attempts,         \* opts.attempts
  ExtraAttempts     \* opts.pendingExtraAttempts

ASSUME GateConstants == Attempts \in Nat /\ ExtraAttempts \in Nat

VARIABLE
  gate   \* the state of the poll loop

AtLeast(a, b) == IF a < b THEN b ELSE a
Window == AtLeast(Attempts, 1)

(***************************************************************************)
(* A poll reads the rows of `docker compose ps`, by what the gate makes of *)
(* a row: "bad" (restarting, dead, failed exit, unhealthy), "starting" (it *)
(* runs and its health check has not resolved), "up" (any other state: it  *)
(* runs, or exited with 0, or is paused or only created).  "unreadable" is *)
(* a relay that did not answer; an answer that cannot be parsed is {}.     *)
(***************************************************************************)
Readings == (SUBSET {"bad", "starting", "up"}) \cup {{"unreadable"}}
Routes == {"none", "ok", "down", "refused"}

Offenders(ps) == "bad" \in ps
Pending(ps) == "starting" \in ps
Inspected(ps) == ps # {"unreadable"}
EntriesSeen(ps) == Inspected(ps) /\ ps # {}

\* Mutant: an answer without offenders is a confirmation, rows or none.
ConfirmedByAnswer(ps) == Inspected(ps) /\ ~Offenders(ps) /\ ~Pending(ps)

Confirmed(ps) == EntriesSeen(ps) /\ ~Offenders(ps) /\ ~Pending(ps)

\* probeRoute: no URL, no probe; a URL that is refused or does not parse is not probed.
RouteOk(route) == route # "down"
Reasons(ps, route) == Offenders(ps) \/ ~RouteOk(route)

(***************************************************************************)
(* The loop: polls made, polls allowed, whether the window was extended,   *)
(* what was seen in any poll (a starting service, a reason), whether the   *)
(* last poll was pending-only, the verdict.  `watch`, `worst` and `last`   *)
(* are the properties' own memory of the polls.                            *)
(***************************************************************************)
GateOff == [on |-> FALSE, strict |-> FALSE, poll |-> 0, allowed |-> 0, extended |-> FALSE,
            sawPending |-> FALSE, sawReason |-> FALSE, pendingOnly |-> FALSE,
            verdict |-> "none", noted |-> FALSE, unconfirmed |-> FALSE,
            watch |-> FALSE, worst |-> FALSE, last |-> {}, route |-> "none"]

GateStarts(strict) ==
  gate' = [GateOff EXCEPT !.on = TRUE, !.strict = strict, !.allowed = Window]

Polling == gate.on /\ gate.verdict = "none" /\ gate.poll < gate.allowed

-----------------------------------------------------------------------------

\* Mutant: an unreadable poll is as good as a clean one.
NeverCarries(ps, route) == FALSE /\ Reasons(ps, route)

\* "Could not look" is not "looked and found clean" once a service was seen starting.
PendingCarry(ps, route) ==
  ~EntriesSeen(ps) /\ (gate.sawPending \/ Pending(ps)) /\ ~Reasons(ps, route)

\* What a poll adds to the loop's memory.
Remember(ps, route) ==
  [gate EXCEPT !.poll = @ + 1,
               !.sawPending = @ \/ Pending(ps),
               !.sawReason = @ \/ Reasons(ps, route),
               !.watch = IF EntriesSeen(ps) THEN Pending(ps) ELSE @,
               !.worst = @ \/ Reasons(ps, route)]

Decide(g, ps, route, healthy, noted, unconfirmed) ==
  [g EXCEPT !.last = ps, !.route = route, !.noted = noted, !.unconfirmed = unconfirmed,
            !.verdict = IF healthy THEN "healthy" ELSE "unhealthy"]

\* Strict: only a confirmation ends the loop early; otherwise the window runs out.
StrictPoll ==
  /\ Polling /\ gate.strict
  /\ \E ps \in Readings, route \in Routes :
       LET g == Remember(ps, route) IN
       gate' = IF Confirmed(ps) /\ RouteOk(route) THEN Decide(g, ps, route, TRUE, FALSE, FALSE)
               ELSE IF g.poll < g.allowed THEN g
               ELSE Decide(g, ps, route, FALSE, FALSE, FALSE)

\* Mutant: the extension starts the window anew, each time.
RestartsTheWindow(g, pendingOnly) ==
  IF g.poll = g.allowed /\ pendingOnly THEN [g EXCEPT !.poll = 0, !.extended = TRUE] ELSE g

\* Once, when the window is about to close on a poll with nothing but "starting".
Extend(g, pendingOnly) ==
  IF ~g.extended /\ g.poll = g.allowed /\ pendingOnly
  THEN [g EXCEPT !.allowed = g.allowed + ExtraAttempts, !.extended = TRUE]
  ELSE g

\* Mutant: only the exhausted window tells.
NotedAtTheEnd(g) == g.sawReason /\ g.pendingOnly

\* Both healthy exits carry the reasons seen anywhere in the window.
Noted(g) == g.sawReason

\* Optimistic: a poll without bad or pending news ends the loop; at the end of the window
\* pending alone passes with a note, anything else fails.
OptimisticPoll ==
  /\ Polling /\ ~gate.strict
  /\ \E ps \in Readings, route \in Routes :
       LET g == Remember(ps, route)
           carry == PendingCarry(ps, route)
           pendingOnly == ~Reasons(ps, route) /\ (Pending(ps) \/ carry)
           h == Extend([g EXCEPT !.pendingOnly = pendingOnly], pendingOnly)
       IN  gate' = IF ~Reasons(ps, route) /\ ~Pending(ps) /\ ~carry THEN Decide(g, ps, route, TRUE, Noted(g), FALSE)
                   ELSE IF h.poll < h.allowed THEN h
                   ELSE IF pendingOnly THEN Decide(h, ps, route, TRUE, Noted(h), TRUE)
                   ELSE Decide(h, ps, route, FALSE, FALSE, FALSE)

Poll == StrictPoll \/ OptimisticPoll

-----------------------------------------------------------------------------

Decided == gate.on /\ gate.verdict # "none"

\* A gate with no success claim behind it passes only on a poll that read containers,
\* none of them bad or starting, with the route up; one with a claim fails only on news,
\* never because it could not look.
GateNeedsNews ==
  Decided =>
    IF gate.strict THEN gate.verdict = "healthy" => gate.last = {"up"} /\ gate.route # "down"
    ELSE gate.verdict = "unhealthy" => "bad" \in gate.last \/ gate.route = "down"

\* A plain pass means that whatever was seen starting was later read as started: a relay
\* that could not be asked meanwhile does not drop the watch.
WatchIsKept ==
  Decided /\ ~gate.strict /\ gate.verdict = "healthy" /\ gate.watch => gate.unconfirmed

\* A pass tells of everything bad seen earlier in its window.
NothingIsSwallowed ==
  Decided /\ ~gate.strict /\ gate.verdict = "healthy" /\ gate.worst => gate.noted

\* The window is lengthened once at most.
WindowIsBounded == gate.poll <= Window + ExtraAttempts

=============================================================================
