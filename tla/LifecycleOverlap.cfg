\* Two rows of one app, each a deploy or a rollback, and a restart.
SPECIFICATION Spec
CONSTANTS
  d1 = d1
  d2 = d2
  a1 = a1
  Deploys = {d1, d2}
  Triggers = {d1, d2}
  Rollbacks = {d1, d2}
  Apps = {a1}
  AppOf <- OneApp
  SelfApps = {}
  InitialStatuses <- Healthy
  SecretApps = {}
  StepKinds <- NoSteps
  Lookback = 20
  MaxCrashes = 1
  MaxFaults = 0
SYMMETRY EitherWay
INVARIANTS TypeOK RegistryExact SweepTakesOrphans
PROPERTIES OutcomesAreNotOverwritten ReconcileSparesNewDeploys
