\* One row of the panel's own app, with every kind of step, a restart and a failed database call.
SPECIFICATION FairSpec
CONSTANTS
  d1 = d1
  d2 = d2
  a1 = a1
  Deploys = {d1}
  Triggers = {d1}
  Rollbacks = {d1}
  Apps = {a1}
  AppOf <- OneApp
  SelfApps = {a1}
  InitialStatuses <- HealthyOrLeft
  SecretApps = {a1}
  StepKinds <- AnySteps
  Lookback = 20
  MaxCrashes = 1
  MaxFaults = 1
INVARIANTS RegistryExact
PROPERTIES SuccessIsEarned KeepsContract EveryRowSettles NoCardStuckDeploying RegistryDrains
