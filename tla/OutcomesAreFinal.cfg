\* A stream that drops after its outcome was written.
SPECIFICATION Spec
CONSTANTS
  d1 = d1
  d2 = d2
  a1 = a1
  Deploys = {d1}
  Triggers = {d1}
  Rollbacks = {}
  Apps = {a1}
  AppOf <- OneApp
  SelfApps = {}
  InitialStatuses <- Healthy
  SecretApps = {}
  StepKinds <- GoodSteps
  Lookback = 20
  MaxCrashes = 0
  MaxFaults = 0
PROPERTIES OutcomesAreFinal
