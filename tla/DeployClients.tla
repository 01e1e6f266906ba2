---------------------------- MODULE DeployClients ----------------------------
(***************************************************************************)
(* Who waits for a deploy: the server page (one app, or several at once)   *)
(* and the MCP tools.  Each starts it, polls its row until the row leaves  *)
(* `running`, and gives up after a while of its own.  The panel may be     *)
(* away at any poll: it replaces itself when it deploys itself.            *)
(*                                                                         *)
(* Time is counted in the shortest delay between two polls.                *)
(***************************************************************************)
EXTENDS DeployLog

CONSTANTS
  Patience,    \* the page's deadline, the bulk polls and the MCP timeout, in delays
  LongestWait  \* the page's longest delay between two polls

ASSUME ClientConstants == Patience \in Nat \ {0} /\ LongestWait \in Nat \ {0}

VARIABLE
  client   \* the client: what it is, where it is, its clock, what it says in the end

(***************************************************************************)
(* What a client says: the status it read, whether it calls the deploy     *)
(* blocked, whether it says that the app runs its previous version.  A     *)
(* client that read no end says so: "unknown" (page), "timed out" and      *)
(* "lost" (MCP), or that the deploy could not be started.                  *)
(***************************************************************************)
Says(status) == [status |-> status, blocked |-> FALSE, up |-> FALSE]
GivenUp == {"unknown", "timed out", "lost", "not started"}

\* `badge`: the app's badge on the page, by where it comes from: the list, or the page's
\* own guess until the list is loaded again.
NoClient == [kind |-> "none", at |-> "off", time |-> 0, fails |-> 0, said |-> Says("nothing"),
             badge |-> "list"]

Watching(kind) == client.kind = kind /\ client.at = "watching"
Ends(said, badge) ==
  client' = [client EXCEPT !.at = "ended", !.said = said, !.badge = badge]

\* load() may fail, and the badge stays as it is.
Reloaded(badge) == {badge, "list"}

-----------------------------------------------------------------------------
(* Reading the row, as each client does from the steps of its log. *)

\* The notification of a failure does not call it an outage if the app is up.
NotifiedUp(status, outcome) == status = "failed" /\ outcome = "rolled_back_healthy"

PageReads(status, steps) ==
  [status |-> status,
   blocked |-> status = "failed" /\ Has(steps, IsPreflightCheckStep),
   up |-> NotifiedUp(status, FrontendOutcome(status, steps))]

\* Mutant: the marker of a failed check does not reach the entry.
FailuresUnmarked(steps) ==
  {[check |-> s.name, preflight |-> FALSE] :
     s \in {steps[i] : i \in {i \in DOMAIN steps : steps[i].status \notin {"success", "skipped"}}}}

FailuresFromLog(steps) ==
  {[check |-> s.name, preflight |-> IsPreflightCheckStep(s)] :
     s \in {steps[i] : i \in {i \in DOMAIN steps : steps[i].status \notin {"success", "skipped"}}}}

BulkReads(status, steps) ==
  LET failures == IF status = "success" THEN {} ELSE FailuresFromLog(steps)
  IN  [status |-> status,
       blocked |-> \E f \in failures : f.preflight,
       up |-> status = "failed" /\ ClassifyDeployOutcome(status, steps) = "rolled_back_healthy"]

\* The marked steps, of which a failed preflight is reported.
FoldedChecks(steps) == {i \in DOMAIN steps : IsPreflightCheckStep(steps[i])}

\* The compact result: one entry stands for all marked steps.
McpReads(status, steps) ==
  [status |-> status,
   blocked |-> FoldedChecks(steps) # {},
   up |-> ClassifyDeployOutcome(status, steps) = "rolled_back_healthy"]

-----------------------------------------------------------------------------
(* The page, one app: a chain of timers, each set when the poll before has ended. *)

Shorter(a, b) == IF a \in 0..b THEN a ELSE b
NextPollDelay(fails) == IF fails = 0 THEN 1 ELSE Shorter(2 ^ (fails - 1), LongestWait)

PageDeploys ==
  /\ client.at = "off"
  /\ \/ client' = [NoClient EXCEPT !.kind = "page", !.at = "watching", !.time = NextPollDelay(0),
                                   !.badge = "deploying"]
     \/ client' = [NoClient EXCEPT !.kind = "page", !.at = "ended", !.said = Says("not started"),
                                   !.badge = "unhealthy"]

\* Mutant: the deadline is counted from the last answer.
PageWaitsAnew(fails) ==
  client' = [client EXCEPT !.fails = fails, !.time = IF fails = 0 THEN 1 ELSE @ + NextPollDelay(fails)]

\* The poll is over: the deadline, or the next timer.
PageWaits(fails) ==
  IF client.time >= Patience
  THEN \E badge \in Reloaded("unknown") : Ends(Says("unknown"), badge)
  ELSE client' = [client EXCEPT !.fails = fails, !.time = @ + NextPollDelay(fails)]

\* Mutant: a poll that fails is the end of the deploy.
PagePollOnce(status, steps) ==
  /\ Watching("page")
  /\ \/ status # "running" /\ \E badge \in Reloaded(client.badge) : Ends(PageReads(status, steps), badge)
     \/ status = "running" /\ PageWaits(0)
     \/ \E badge \in Reloaded(client.badge) : Ends(PageReads("failed", << >>), badge)

PagePolls(status, steps) ==
  /\ Watching("page")
  /\ \/ status # "running" /\ \E badge \in Reloaded(client.badge) : Ends(PageReads(status, steps), badge)
     \/ status = "running" /\ PageWaits(0)
     \/ PageWaits(client.fails + 1)

-----------------------------------------------------------------------------
(* The page, several apps: this is one entry of the result panel. *)

\* The entry of an app whose setup failed is settled by the answer.
SettledAtOnce == [NoClient EXCEPT !.kind = "bulk", !.at = "ended", !.said = Says("not started")]

BulkDeploys ==
  /\ client.at = "off"
  /\ \/ client' = [NoClient EXCEPT !.kind = "bulk", !.at = "watching"]
     \/ client' = SettledAtOnce

\* A poll that fails leaves the entry as it is, and counts.
BulkPolls(status, steps) ==
  /\ Watching("bulk")
  /\ \/ status # "running" /\ Ends(BulkReads(status, steps), "list")
     \/ IF client.time + 1 >= Patience THEN Ends(Says("unknown"), "list")
        ELSE client' = [client EXCEPT !.time = @ + 1]

-----------------------------------------------------------------------------
(* The MCP tools: a loop in one call; the first poll that fails ends it. *)

McpDeploys ==
  /\ client.at = "off"
  /\ \/ client' = [NoClient EXCEPT !.kind = "mcp", !.at = "watching"]
     \/ \E status \in {"lost", "nothing"} :   \* no answer; or the caller does not wait
          client' = [NoClient EXCEPT !.kind = "mcp", !.at = "ended", !.said = Says(status)]

\* No answer within 30 seconds, or an error: the tool names the deploy and gives up.
McpLoses == Ends(Says("lost"), "list")

McpPolls(status, steps) ==
  /\ Watching("mcp")
  /\ IF client.time >= Patience THEN Ends(Says("timed out"), "list")
     ELSE \/ status # "running" /\ Ends(McpReads(status, steps), "list")
          \/ status = "running" /\ client' = [client EXCEPT !.time = @ + 1]
          \/ McpLoses

\* deploy_status, later: for who did not wait, gave up or lost the panel.
McpAsks(status, steps) ==
  /\ client.kind = "mcp" /\ client.at = "ended" /\ client.said.status \in GivenUp \cup {"nothing"}
  /\ status # "running"
  /\ Ends(McpReads(status, steps), "list")

-----------------------------------------------------------------------------

\* The page is left: its timer is cleared, and a poll under way touches nothing.
PageLeft == (Watching("page") \/ Watching("bulk")) /\ Ends(Says("nothing"), client.badge)

Deploys == PageDeploys \/ BulkDeploys \/ McpDeploys
Polls(status, steps) == PagePolls(status, steps) \/ BulkPolls(status, steps) \/ McpPolls(status, steps)

Told == client.at = "ended" /\ client.said.status \notin GivenUp \cup {"nothing"}

=============================================================================
