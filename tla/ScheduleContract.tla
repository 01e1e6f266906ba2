-------------------------- MODULE ScheduleContract --------------------------
(***************************************************************************)
(* What scheduling a deploy promises, without the passes, the requests and *)
(* their failures: an entry waits, is cancelled or taken, and what was     *)
(* taken is deployed once at most.  A cancelled entry may still be taken:  *)
(* the pass that found it pending does not look again.                     *)
(***************************************************************************)
EXTENDS Naturals

CONSTANT Entries

VARIABLES
  status,    \* what each entry is
  deploys    \* deploys made for it

contractVars == <<status, deploys>>

Becomes(e, was, is) ==
  /\ status[e] \in was
  /\ status' = [status EXCEPT ![e] = is]
  /\ UNCHANGED deploys

Accept(e) == Becomes(e, {"none"}, "pending")
CancelIt(e) == Becomes(e, {"pending"}, "cancelled")
Take(e) == Becomes(e, {"pending", "cancelled"}, "triggered")
Remove(e) == Becomes(e, {"pending", "cancelled", "triggered"}, "removed")

\* The one deploy of a taken entry.
DeployIt(e) ==
  /\ status[e] = "triggered" /\ deploys[e] = 0
  /\ deploys' = [deploys EXCEPT ![e] = 1]
  /\ UNCHANGED status

ContractInit ==
  /\ status = [e \in Entries |-> "none"]
  /\ deploys = [e \in Entries |-> 0]

ContractNext ==
  \E e \in Entries : Accept(e) \/ CancelIt(e) \/ Take(e) \/ Remove(e) \/ DeployIt(e)

ContractSpec == ContractInit /\ [][ContractNext]_contractVars

=============================================================================
