---------------------------- MODULE ScheduledPage ---------------------------
(***************************************************************************)
(* The list of pending deploys over the scheduler: it is loaded every 30   *)
(* seconds, loads may overlap and answer in any order, a load that fails   *)
(* leaves the list as it is, and an entry cancelled on the page is hidden  *)
(* for two intervals.  The page treats every entry alike: the model        *)
(* follows one.                                                            *)
(*                                                                         *)
(* While the page is open nothing fails in the backend and it does not     *)
(* restart: the page only sees whether the entry is pending.               *)
(***************************************************************************)
EXTENDS Scheduler

CONSTANTS
  Followed,   \* the entry the page is followed for
  Grace,      \* intervals an entry cancelled here stays hidden
  MaxLoads    \* bound: loads under way at once

ASSUME PageConstants == Followed \in Entries /\ Grace \in Nat /\ MaxLoads \in Nat \ {0}

VARIABLE
  page   \* the page: its list, its loads by what they read, the cancel it waits for

pageVars == <<vars, page>>

\* `hidden`: 0, or one more than the intervals left of the grace period.
PageOff == [open |-> FALSE, listed |-> FALSE, loads |-> [with |-> 0, without |-> 0],
            asked |-> FALSE, hidden |-> 0]

Answers == {"with", "without"}
Pending == entry[Followed] = "pending"
Visible == page.open /\ page.listed /\ page.hidden = 0

-----------------------------------------------------------------------------

\* load(): the query answers with the entry or without it.
Loads(p) ==
  /\ p.loads.with + p.loads.without < MaxLoads
  /\ page' = [p EXCEPT !.loads[IF Pending THEN "with" ELSE "without"] = @ + 1]
  /\ UNCHANGED vars

PageOpens ==
  /\ ~page.open /\ crashes = 0 /\ faults = 0
  /\ Loads([PageOff EXCEPT !.open = TRUE])

\* The interval is cleared; what is still under way changes nothing any more.
PageCloses == page.open /\ page' = PageOff /\ UNCHANGED vars

\* Mutant: the list is loaded once.
LoadsOnce == FALSE /\ page.open /\ Loads(page)

\* The interval fires; the grace period ends between two of its firings.
Refresh ==
  /\ page.open /\ page.hidden # 1
  /\ Loads([page EXCEPT !.hidden = IF @ = 0 THEN 0 ELSE @ - 1])

\* The schedule dialog closed.
DialogCloses == page.open /\ Loads(page)

LoadLands(answer) ==
  /\ page.open /\ page.loads[answer] > 0
  /\ page' = [page EXCEPT !.loads[answer] = @ - 1, !.listed = answer = "with"]
  /\ UNCHANGED vars

LoadFails(answer) ==
  /\ page.open /\ page.loads[answer] > 0
  /\ page' = [page EXCEPT !.loads[answer] = @ - 1]
  /\ UNCHANGED vars

-----------------------------------------------------------------------------

PageCancels ==
  /\ Visible /\ ~page.asked
  /\ CancelRead(Followed)
  /\ page' = [page EXCEPT !.asked = TRUE]

\* The answer, which may be lost; only a confirmed cancel changes the list.
CancelAnswered ==
  /\ page.open /\ page.asked /\ cancel[Followed] # "read"
  /\ \/ /\ cancel[Followed] = "ok"
        /\ page' = [page EXCEPT !.asked = FALSE, !.listed = FALSE, !.hidden = Grace + 1]
     \/ page' = [page EXCEPT !.asked = FALSE]
  /\ UNCHANGED vars

GraceEnds ==
  /\ page.open /\ page.hidden = 1
  /\ page' = [page EXCEPT !.hidden = 0]
  /\ UNCHANGED vars

-----------------------------------------------------------------------------

Undisturbed == page.open => crashes' = 0 /\ faults' = 0

PageInit == Init /\ page = PageOff

PageNext ==
  \/ Next /\ Undisturbed /\ UNCHANGED page
  \/ PageOpens \/ PageCloses \/ Refresh \/ DialogCloses
  \/ \E answer \in Answers : LoadLands(answer) \/ LoadFails(answer)
  \/ PageCancels \/ CancelAnswered \/ GraceEnds

PageSpec == PageInit /\ [][PageNext]_pageVars

\* The backend as before; the browser's timers fire, and every load ends, not each of
\* them with an error.
PageFairSpec ==
  /\ PageSpec
  /\ WF_pageVars(Check /\ Undisturbed /\ UNCHANGED page)
  /\ WF_pageVars(Refresh) /\ WF_pageVars(GraceEnds)
  /\ \A answer \in Answers : SF_pageVars(LoadLands(answer))

-----------------------------------------------------------------------------

\* An entry that has left the queue leaves the page, and does not come back for good:
\* neither a load that read it in time and lands late nor the end of the grace period
\* keeps it there (app/scheduled/page.tsx).
PageForgets ==
  entry[Followed] \notin {"none", "pending"} ~> [](~Visible)

=============================================================================
