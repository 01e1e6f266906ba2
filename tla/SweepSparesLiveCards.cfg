\* An orphan of an app is settled while a new deploy of the app starts.
SPECIFICATION Spec
CONSTANTS
  d1 = d1
  d2 = d2
  a1 = a1
  Deploys = {d1, d2}
  Triggers = {d1, d2}
  Rollbacks = {}
  Apps = {a1}
  AppOf <- OneApp
  SelfApps = {}
  InitialStatuses <- Healthy
  SecretApps = {}
  StepKinds <- NoSteps
  Lookback = 20
  MaxCrashes = 1
  MaxFaults = 0
SYMMETRY Interchangeable
PROPERTIES SweepSparesLiveCards
