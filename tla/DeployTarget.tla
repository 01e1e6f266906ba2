---------------------------- MODULE DeployTarget ----------------------------
(***************************************************************************)
(* How the panel finds out what became of a deploy (or a rollback) whose   *)
(* connection it lost: deploy-target.ts, against the relay whose history   *)
(* it reads.  The relay runs one deploy or rollback of the app at a time,  *)
(* those of the panel and those of others, and keeps the last few entries. *)
(***************************************************************************)
EXTENDS Integers, HealthGate

CONSTANTS
  HistoryCap,   \* entries the relay reports (10)
  Commits,      \* commits the repo may be at
  Tolerance,    \* RELAY_CLOCK_TOLERANCE_MS
  MaxSkew,      \* bound: how far the relay's clock is off
  MaxRuns,      \* bound: runs on the relay besides the one in question
  MaxTime       \* bound: the last tick

ASSUME TargetConstants ==
  /\ HistoryCap \in Nat /\ HistoryCap > 1
  /\ Commits # {} /\ Commits \subseteq Nat \ {0}
  /\ {Tolerance, MaxSkew, MaxRuns} \subseteq Nat /\ MaxTime \in Nat \ {0}

VARIABLES
  ask,       \* what is asked of the relay: the call in question
  relayRun,  \* the run in progress on the relay
  entries,   \* app.recentDeploys, newest first
  head,      \* HEAD of the app's repo
  now,       \* the panel's clock
  skew,      \* the relay's clock minus the panel's
  runs,      \* runs begun so far
  later,     \* whether the app has a later row on the panel
  truth      \* how the run in question ended: "none" until it left an entry

relaySide == <<relayRun, entries, head, runs, truth>>
targetVars == <<ask, relayRun, entries, head, now, skew, runs, later, truth>>

(***************************************************************************)
(* A run: whose it is ("own", "panel", "http", "mcp"), whether it is a     *)
(* rollback, when it began.  An entry adds its end and outcome.  Times on  *)
(* an entry are the relay's.                                               *)
(***************************************************************************)
NoRun == [who |-> "none", rollback |-> FALSE, began |-> 0]
NoTruth == [status |-> "none", commit |-> 0, moved |-> FALSE, seen |-> FALSE]
RelayTime == now + skew

-----------------------------------------------------------------------------
(* The relay. *)

Tick ==
  /\ now < MaxTime
  /\ now' = now + 1
  /\ UNCHANGED <<ask, relaySide, skew, later>>

\* A run of the panel's other rows, of another caller over HTTP, or of the MCP tools.
ForeignRun ==
  /\ relayRun = NoRun
  /\ runs < MaxRuns
  /\ \E who \in {"panel", "http", "mcp"}, rollback \in BOOLEAN :
       /\ relayRun' = [who |-> who, rollback |-> rollback, began |-> now]
       /\ later' = (later \/ who = "panel")
  /\ runs' = runs + 1
  /\ UNCHANGED <<ask, entries, head, now, skew, truth>>

\* The call in question reaches the relay, if it ever does.
OwnRun ==
  /\ relayRun = NoRun /\ ask.sent
  /\ relayRun' = [who |-> "own", rollback |-> ask.rollback, began |-> now]
  /\ ask' = [ask EXCEPT !.sent = FALSE]
  /\ UNCHANGED <<entries, head, now, skew, runs, later, truth>>

\* Mutant: the relay reports all it ever recorded.
PrependUncapped(e) == <<e>> \o entries

\* The newest entries, up to the cap.
Prepend(e) == SubSeq(<<e>> \o entries, 1, IF Len(entries) < HistoryCap THEN Len(entries) + 1 ELSE HistoryCap)

\* A deploy takes time, a rollback records none.  A failure may leave HEAD anywhere; the
\* commit it records is not looked at.
RunEnds ==
  /\ relayRun # NoRun
  /\ relayRun.rollback \/ relayRun.began < now
  /\ \E status \in {"success", "failed"}, commit \in Commits, at \in Commits :
       /\ commit = IF status = "success" THEN at ELSE head
       /\ head' = at
       /\ entries' = Prepend([own |-> relayRun.who = "own", status |-> status,
                              id |-> ask.ids /\ relayRun.who \in {"own", "panel"},
                              before |-> head, after |-> commit, created |-> RelayTime,
                              duration |-> IF relayRun.rollback THEN 0 ELSE now - relayRun.began,
                              mcp |-> relayRun.who = "mcp"])
       /\ truth' = IF relayRun.who = "own"
                   THEN [status |-> status, commit |-> commit, moved |-> commit # head, seen |-> RelayTime >= ask.start]
                   ELSE truth
  /\ relayRun' = NoRun
  /\ UNCHANGED <<ask, now, skew, runs, later>>

\* Blocked at preflight, or the relay died with it: no entry.
RunVanishes ==
  /\ relayRun # NoRun
  /\ relayRun' = NoRun
  /\ \E at \in Commits : head' = at
  /\ UNCHANGED <<ask, entries, now, skew, runs, later, truth>>

-----------------------------------------------------------------------------
(* deploy-target.ts: the verdict is an entry, or why there is none. *)

NoEntryYet == [reached |-> FALSE, why |-> "noEntry", commit |-> 0]
NotReached(why) == [reached |-> FALSE, why |-> why, commit |-> 0]
Reached(e) == [reached |-> TRUE, why |-> "none", commit |-> e.after]

Reported == {entries[i] : i \in DOMAIN entries}
Own == {e \in Reported : e.own}

\* The relay says so by its /health version, if that call gets through, or an entry does.
RecordsIds(answered) == (ask.ids /\ answered) \/ \E e \in Reported : e.id

SinceStart == {i \in DOMAIN entries : entries[i].created >= ask.start}

\* Mutant: the repo is not asked where it is.
OutcomeAlone(e) == IF e.status = "success" THEN Reached(e) ELSE NotReached("outcome")

AssessEntryOutcome(e) ==
  IF e.status = "success" /\ e.after = head THEN Reached(e) ELSE NotReached("outcome")

\* Mutant: the newest entry since the start is taken, whatever else is there.
NewestSinceStart == {i \in SinceStart : \A j \in SinceStart : i <= j}

\* The one entry since the start, if there is exactly one.
TheEntry == IF Cardinality(SinceStart) = 1 THEN SinceStart ELSE {}

AssessTargetReached(ids) ==
  IF ids
  THEN IF Own = {} THEN NoEntryYet
       ELSE LET e == CHOOSE e \in Own : TRUE
                v == AssessEntryOutcome(e)
            IN  IF ~v.reached /\ e.status = "failed" THEN NotReached("failed") ELSE v
  ELSE IF SinceStart = {} THEN NoEntryYet
  ELSE IF TheEntry = {} THEN NotReached("ambiguous")
  ELSE LET e == entries[CHOOSE i \in TheEntry : TRUE]
       IN  IF \/ e.mcp
              \/ e.duration = 0
              \/ e.created - e.duration < ask.start - Tolerance
           THEN NotReached("foreign") ELSE AssessEntryOutcome(e)

\* Mutant: a rollback to a named commit needs no agreement with what was named.
NamedAnyhow(e) == ask.commit \in Commits \/ e.after # e.before

\* What the entry must show about the target: the named commit, or a move.
NamedOrMoved(e) == IF ask.commit \in Commits THEN e.after = ask.commit ELSE e.after # e.before

AssessRollbackReached(ids) ==
  LET candidates == IF ids THEN Own ELSE {entries[i] : i \in TheEntry}
  IN  IF ~ids /\ ask.commit \notin Commits THEN NotReached("unnamed")
      ELSE IF candidates = {} THEN NotReached("none")
      ELSE LET e == CHOOSE e \in candidates : TRUE
           IN  IF e.mcp \/ e.duration > 0 THEN NotReached("foreign")
               ELSE IF AssessEntryOutcome(e).reached /\ ~NamedOrMoved(e) THEN NotReached("target")
               ELSE AssessEntryOutcome(e)

CheckDeployTarget(ids) == IF ask.rollback THEN AssessRollbackReached(ids) ELSE AssessTargetReached(ids)

\* With which answers of /health what the relay reports now is a proof.
Proof == {answered \in BOOLEAN : CheckDeployTarget(RecordsIds(answered)).reached}

\* The call in question left no entry since the start, and the one that is there is
\* another caller's and looks like it.
AnotherLooksOwn ==
  /\ ~truth.seen
  /\ \A e \in Reported : ~e.id
  /\ \E i \in SinceStart :
       /\ SinceStart = {i} /\ ~entries[i].own /\ ~entries[i].mcp
       /\ entries[i].duration = 0 <=> ask.rollback

-----------------------------------------------------------------------------

\* At the call another's deploy may run on the relay; a rollback, whose entry shows no
\* beginning, is one that begins later.
TargetInit ==
  /\ ask \in {[start |-> 1, sent |-> TRUE, rollback |-> FALSE, ids |-> ids, commit |-> 0] : ids \in BOOLEAN}
         \cup {[start |-> 1, sent |-> TRUE, rollback |-> TRUE, ids |-> ids, commit |-> c] :
                 ids \in BOOLEAN, c \in Commits \cup {0}}
  /\ relayRun \in {NoRun} \cup {[who |-> w, rollback |-> FALSE, began |-> 0] : w \in {"panel", "http", "mcp"}}
  /\ entries = << >>
  /\ head = CHOOSE c \in Commits : TRUE
  /\ now = 1
  /\ skew \in -MaxSkew..MaxSkew
  /\ runs = 0
  /\ later = FALSE
  /\ truth = NoTruth

OwnNext == Tick \/ OwnRun \/ RunEnds \/ RunVanishes

=============================================================================
