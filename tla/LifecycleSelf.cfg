\* A deploy and a rollback of the panel's own app, and a restart.
SPECIFICATION Spec
CONSTANTS
  d1 = d1
  d2 = d2
  a1 = a1
  Deploys = {d1, d2}
  Triggers = {d1}
  Rollbacks = {d2}
  Apps = {a1}
  AppOf <- OneApp
  SelfApps = {a1}
  InitialStatuses <- Healthy
  SecretApps = {}
  StepKinds <- NoSteps
  Lookback = 20
  MaxCrashes = 1
  MaxFaults = 0
PROPERTIES SuccessIsEarned OutcomesAreNotOverwritten
