--------------------------- MODULE DeployContract ---------------------------
(***************************************************************************)
(* What the panel promises of a Deploy row, without streams, routes,       *)
(* sweeps, cards, the registry and their failures.  A row has one life:    *)
(* it is worked on, its connection may be lost once, and then it is over.  *)
(* It is settled by whoever works on it, and may be settled anew while its *)
(* lost connection is looked into.  One that is left running is settled by *)
(* the sweep; one that the sweep could not verify may still turn out a     *)
(* success.                                                                *)
(***************************************************************************)

CONSTANT Deploys

VARIABLES
  status,   \* what each row shows
  phase,    \* whether somebody works on it: none, live, lost, over
  marked,   \* rows the sweep settled without proof of either outcome
  proof     \* deploys the relay has recorded as successful

contractVars == <<status, phase, marked, proof>>

\* Without a stream that reported it, only the relay's record makes a success.
Proven(d, outcome) == outcome = "success" => d \in proof

SetRow(d, outcome) == status' = [status EXCEPT ![d] = outcome]

Open(d) ==
  /\ phase[d] = "none"
  /\ phase' = [phase EXCEPT ![d] = "live"]
  /\ SetRow(d, "running")
  /\ UNCHANGED <<marked, proof>>

\* The one outcome a stream or a rollback route writes.
Settle(d) ==
  /\ phase[d] = "live" /\ status[d] = "running"
  /\ \E outcome \in {"success", "failed", "rolled_back"} : SetRow(d, outcome)
  /\ \E to \in {"live", "over"} : phase' = [phase EXCEPT ![d] = to]
  /\ UNCHANGED <<marked, proof>>

\* The connection is lost, with or without an outcome.
Lose(d) ==
  /\ phase[d] = "live"
  /\ phase' = [phase EXCEPT ![d] = "lost"]
  /\ UNCHANGED <<status, marked, proof>>

\* Recovery settles the row, whatever it shows.
Revise(d) ==
  /\ phase[d] = "lost"
  /\ \E outcome \in {"success", "failed", "interrupted"} : Proven(d, outcome) /\ SetRow(d, outcome)
  /\ UNCHANGED <<phase, marked, proof>>

Leave(d) ==
  /\ phase[d] \in {"live", "lost"}
  /\ phase' = [phase EXCEPT ![d] = "over"]
  /\ UNCHANGED <<status, marked, proof>>

\* The sweep settles a row that was left running.
Sweep(d) ==
  /\ phase[d] = "over" /\ status[d] = "running"
  /\ \E outcome \in {"success", "failed", "interrupted"} :
       /\ Proven(d, outcome) /\ SetRow(d, outcome)
       /\ \/ UNCHANGED marked
          \/ outcome = "interrupted" /\ marked' = marked \cup {d}
  /\ UNCHANGED <<phase, proof>>

\* The relay's record of an unverified deploy came late.
Upgrade(d) ==
  /\ phase[d] = "over" /\ status[d] = "interrupted"
  /\ d \in marked \cap proof
  /\ SetRow(d, "success")
  /\ UNCHANGED <<phase, marked, proof>>

\* Nothing takes a record back.
Record(d) ==
  /\ proof' = proof \cup {d}
  /\ UNCHANGED <<status, phase, marked>>

\* A restart of the panel leaves every row that exists to the sweep.
Restart ==
  /\ phase' = [d \in Deploys |-> IF phase[d] = "none" THEN "none" ELSE "over"]
  /\ UNCHANGED <<status, marked, proof>>

ContractInit ==
  /\ status = [d \in Deploys |-> "none"]
  /\ phase = [d \in Deploys |-> "none"]
  /\ marked = {}
  /\ proof = {}

ContractNext ==
  \/ \E d \in Deploys : \/ Open(d) \/ Settle(d) \/ Lose(d) \/ Revise(d) \/ Leave(d)
                        \/ Sweep(d) \/ Upgrade(d) \/ Record(d)
  \/ Restart

ContractSpec == ContractInit /\ [][ContractNext]_contractVars

=============================================================================
