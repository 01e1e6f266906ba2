------------------------- MODULE MCDeployLifecycle --------------------------
(* Instances of DeployLifecycle small enough for TLC. *)
EXTENDS DeployLifecycle, TLC

CONSTANTS d1, d2, a1

\* Every row is of the one app a1.
OneApp == [d \in Deploys |-> a1]

Healthy == {"healthy"}
HealthyOrLeft == {"healthy", "deploying"}

\* What a relay's steps leave in a log.
NoSteps == {}
GoodSteps == {{"ok"}}
AnySteps == {{"ok"}, {"bad"}, {"bad", "rbok"}}

\* Rows created the same ways are interchangeable.
Interchangeable == Permutations(Triggers \ Rollbacks)
EitherWay == Permutations(Triggers \cap Rollbacks)

=============================================================================
