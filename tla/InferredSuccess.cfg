\* A relay stream that ends without any event, for an app with secrets.
SPECIFICATION Spec
CONSTANTS
  d1 = d1
  d2 = d2
  a1 = a1
  Deploys = {d1}
  Triggers = {d1}
  Rollbacks = {}
  Apps = {a1}
  AppOf <- OneApp
  SelfApps = {}
  InitialStatuses <- Healthy
  SecretApps = {a1}
  StepKinds <- GoodSteps
  Lookback = 20
  MaxCrashes = 0
  MaxFaults = 0
PROPERTIES InferredSuccessHasRelayStep
