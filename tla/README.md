# deploy-panel: TLA+ models, model checks and proofs

deploy-panel is a backend (Hono, Prisma, PostgreSQL, one process) that deploys
apps through an *agent-relay* running on each server, with a Next.js frontend
and an MCP server in front of its API. A deploy takes minutes, crosses two
processes and a database, and may replace the backend that runs it. This
directory models the parts of it whose behaviour depends on order, failure and
time, checks them with TLC and proves results about them with TLAPS.

Source references are to files of the repository; `backend/src/lib/` is meant
where no directory is given.

## 1. Inventory

| Component | State | Operations | What must hold |
|---|---|---|---|
| Deploy stream (`stream-deploy.ts`) | Deploy row (status, log), App card, local steps | provision secrets, POST to the relay, read events, finalize / block / fail, connection lost | one outcome per row, success only with evidence, a blocked deploy leaves the card as it was |
| Triggers (`routes/apps.ts` deploy and bulk, `routes/v1.ts`, `scheduler.ts`) | Deploy row, App card | read app, create row, mark card, start the stream | a failure half way leaves nothing that stays for good |
| Rollback routes (`routes/apps.ts`, `routes/v1.ts`, `rollback-app-status.ts`) | Deploy row, App card, registry | relay call, row write, gated card write, hand-off to recovery | the row is driven by exactly one party at any time |
| Recovery and registry (`deploy-recovery.ts`) | reference count per deploy id | register, release, judge and write a row whose connection was lost | the count equals the holds, success only on the relay's proof |
| Stuck sweep (`startup.ts`) | `sweepInFlight`, the rows of the pass, process start | settle orphans, upgrade self-deploys, reconcile cards | only orphans are settled, every orphan is settled, a live card is left alone |
| Scheduler (`scheduler.ts`, `routes/scheduled.ts`) | ScheduledDeploy rows | create, cancel, run due entries | an entry runs at most once, a cancelled one never, a due one eventually |
| Health gate (`post-deploy-gate.ts`) | none (attempt counters) | poll containers and the public route | strict and optimistic verdicts at the limits of the window |
| Deploy target (`deploy-target.ts`) | none (relay history) | prove that a deploy reached its target | no proof from another deploy's entry |
| Deploy log (`deploy-log.ts`, `frontend/src/lib/status.ts`) | stored steps | write and classify a log | blocked, rolled back and outage are told apart, and alike everywhere |
| Secrets and env (`provision-secrets.ts`, `app-secrets.ts`, `required-env-gate.ts`, env routes) | AppSecret, EnvVarChange, the relay's `.env` | provision, read-merge-write | a true history, no deploy without its secrets |
| Server operations (`routes/servers.ts`, `services/*`) | locks, Server row, the VPS, self-update record | install, reinstall, update image, self-update, test, probe | one operation per server, status and token of the last operation |
| Sync (`routes/sync.ts`) | Server status, App rows and cards | copy the relay's app list | does not write over an operation |
| Clients (server page, bulk panel, MCP tools, list of scheduled deploys) | timers, what they last read | start, poll, give up, cancel | they stop waiting, and say what the row says |
| Auth, sessions, keys, ownership | Session, ApiKey, User | login, revoke, gate requests | not modelled |

How they interact: every trigger and rollback route creates a `running` Deploy
row; the process that drives the row holds a registration for its id in the
in-memory registry. The sweep, every minute and at boot, settles `running` rows
older than two minutes whose id is not registered. A lost relay connection
hands the row to recovery, which holds a registration of its own. All of them
write the one App card (`App.status`) of the row's app. The relay's history is
the only evidence that survives a restart; the health gate and the target check
read it, and what they say goes into the row's log, from which every list and
client later derives how the deploy ended. Operations on a server share its row,
the VPS and an in-memory set of keys with the probes that write its status.

What is hard here: every `await` is a point where any other request, stream,
sweep or recovery may run; every database call may fail, and half of the
callers swallow it; the process may die at any await, and does so in every
self-deploy; a command on the VPS and an update of the relay outlive the request
that started them; and the database is written with plain updates in most places
and compare-and-set in a few. The hazards in `PROJECT.json` list where each bites.

## 2. Plan

1. *Deploy lifecycle* (done): stream, triggers, rollback routes, recovery,
   registry, sweep, over one database and one process with restarts; the contract
   of one Deploy row that it implements; proofs of all its safety properties.
2. *Scheduler* (done): cancel against a due entry, failed calls, restarts; the
   contract it implements; the page of pending entries; proofs.
3. *Server operations* (done): locks, status writes, probes, the commands on the
   VPS, the self-update record; proofs of all its safety properties.
4. *Evidence of a deploy* (done): env and secrets, health gate, deploy target, deploy
   log and the waiting clients as one system; proofs of all its safety properties.
5. Open, in this order: a contract of a Server row (registered, worked on by one
   operation at a time, its token the installer's) for the server modules to
   implement; the card writes of sync beside the lifecycle; rows that vanish with
   a deleted server in the lifecycle; two scheduler passes at once.

## 3. Modules

| Module | Models |
|---|---|
| `PanelState` | the shared state: rows, cards, the relay, the registry, program counters; queries and writes on it |
| `StreamDeploy` | triggers and `streamDeploy` with its event handlers and terminal writes |
| `RollbackRoute` | both rollback routes and `rollback-app-status.ts` |
| `DeployRecovery` | `recoverBrokenDeploy` |
| `StuckSweep` | `recoverStuckDeploys`: the row pass, `upgradeSelfDeploys`, `reconcileDeployingApps` |
| `DeployContract` | what the panel promises of one Deploy row: the abstract specification |
| `DeployLifecycle` | their composition, the relay, time and restarts; fairness; the properties |
| `MCDeployLifecycle` | constants for the TLC runs |
| `ScheduleContract` | what scheduling promises of one entry: the abstract specification |
| `Scheduler` | `checkScheduled` and the routes that create and cancel its entries |
| `ScheduledPage` | the page of pending entries over the scheduler |
| `ServerState` | a Server row, the VPS, the keys of `active-installs.ts`, the requests |
| `ServerProbes` | `/test`, sync and `setServerStatus`; create, edit, removal of the row |
| `RelayInstall` | install, re-install and image update, the SSH executor and the command it runs |
| `RelaySelfUpdate` | the relay's self-update, its record, and the route that triggers and awaits it |
| `ServerOps` | their composition, restarts, fairness, the properties |
| `AppEnv` | the relay's `.env`, secrets and required keys; the requests that read and write them |
| `HealthGate` | `verifyDeployHealth`, poll by poll |
| `DeployTarget` | the relay's runs and history, and `deploy-target.ts` that reads them |
| `DeployLog` | the steps of a log and its classifiers, in the backend and the frontend |
| `DeployClients` | who waits for a deploy: the server page, the bulk panel, the MCP tools |
| `DeployEvidence` | one deploy from its provisioning to what is said of it: composes the five above |
| `LifecycleTypes` | proof of the lifecycle's types |
| `LifecycleInvariants` | proof of the exact registry and of what the sweep takes |
| `LifecycleOutcomes`, `LifecycleContract` | proof that outcomes are earned, stay and keep the contract |
| `SchedulerProofs` | proofs about the scheduler, and the page over it |
| `ServerOpsProofs` | proofs about the locks, the probes and the self-update's answer |
| `ServerRecords` | proofs about types, tokens and records of the server operations |
| `DeployEvidenceProofs` | proofs about gate, env, log, clients and target check |

### State and the code

`row[d]` is a Deploy row; its id doubles as the name of the process that drives
it. `card[a]` is `App.status` with the fact that `updatedAt` is old enough;
`stamps` are the deploys that moved `lastDeployAt`. `relay[d]` is what the
relay made of the call with `X-Deploy-Id` d. `refs` is the registry. `pc`/`loc`
are the stream or route of each row, `rpc`/`rloc` its recovery, and
`spc`/`todo`/`verdict`/`plan` the one sweep that `sweepInFlight` admits. One action is what
runs between two awaits: a database or relay call with what the code does with
its answer. A failed database call is a disjunct of the action that makes it. One
exception: the three calls of the target check (later row, history, `/health`) are one action
of a recovery or of the sweep. The relay takes no record of a deploy id back and a miss
is always possible, so what is lost is a proof that a row created during these calls no
longer stops. No property of the lifecycle is about that; `DeployEvidence`
has the three calls one by one.

In `Scheduler`, `entry[e]` is the status of a ScheduledDeploy row (`removed` once
its server, and by the cascade the row, is deleted), `linked` the entries with a
`deployId`, `deploys[e]` the Deploy rows created for e, and `pc`, `batch` and
`current` the pass that runs: one action per entry and database call. A call
that fails leaves the `for` loop and `checkScheduled`; the rejection reaches only
the process-wide handler (server.ts:18-20), which logs it, so the pass ends and
the process lives on. A query that fails or finds nothing changes nothing and is
left out. Each entry may have a server of its own, which includes the case that
several share one. What becomes of the started deploy is `StreamDeploy`'s part.
`page` is the page of pending entries followed for one of them: whether it is
listed, how many loads are under way by what they read, whether it is hidden
after a cancel and for how many more intervals.

In the server modules `row` is the Server row of one host (id, URL, token, status,
pinned key), `box` the VPS (token in `.env`, token and revision of the relay that
runs), `locks` the set `activeInstalls`, `req[p]` a request with the copy of the row
it loaded, `script[p]` its command on the VPS, and `upd` the relay's self-update
with the last record it wrote. A call to the relay has two actions, as its answer
is on its way while others run. A restart forgets `locks` and `req`; `box`,
`script` and `upd` go on. Tokens and ids are numbers in the order they were made.

In `DeployEvidence`, `file`, `secrets`, `required`, `history` and `job` are the env and
the requests on it, `gate` the locals of `verifyDeployHealth`, `entries`, `head` and
`relayRun` the relay, `ask` what is asked of it, `deploy` the row with its card and
log, and `client` whoever waits. Some state is there for the properties to compare with and
no guard or effect depends on it: `truth`, what the relay really did with the run in question;
`gate.watch`, `.worst` and `.last`, what the polls really showed; `job[p].was`, the
file an update replaced; `job[p].stale`, the stores others wrote since the job last read or
wrote them; `deploy.mistaken`, that the relay's answer showed another caller's run that looks like
the one asked about.

The target check is three actions and a write: `TargetRow` (deploy-target.ts:489), `TargetDetail`
(:500), `TargetHealth` (:501) and `TargetWrites` (deploy-recovery.ts:363-383). A miss
ends it at any of them and is written at once, because nothing that happens later changes what is
written then. Other rows of the panel may begin after the query, and runs on the relay may begin, end
and move HEAD after it has reported. Three things are merged, each by commutation. While the
gate polls, and while `/health` is asked, the relay rests: neither call reads its runs, and what it
does then may as well happen after. Before the query only a panel row that
begins is taken as a step of its own, the one thing the query can see. The row and
the card of a settled deploy are written together: their order and failures are in the
lifecycle.

Abstractions, and why they are enough:

- *Logs* are sets of marks in the lifecycle: later readers of a stored log ask
  only whether it has a failed or rollback step, a passed rollback health check, a
  blocked check or the sweep's marker (`Kept`). In `DeployLog` they are sequences of
  steps with name, kind and status. Steps reported while still running are left out;
  the older shapes of a log are not written any more.
- *Time* is two booleans in the lifecycle, `aged` for a row and for a card, and
  `waited` for the proof grace. Rows age oldest first. A dispatch is assumed to
  register its row within the two minutes of the threshold (three database calls). A card does
  not age while a reconcile plan for it is pending, because both the query and
  the write compare with the cutoff taken at the start. The one hour in which a
  row may be upgraded is the freedom of `UpgradeCheck` to pass a row by. In
  `DeployTarget` time is a clock and the relay's a skewed one; in `DeployClients` the
  shortest delay between two polls.
- *The relay* in the lifecycle records deploy ids, so `checkDeployTargetDetailed`
  proves a deploy by its own entry; any proof may also fail. `DeployTarget` has both
  relays, and the runs of other callers. The relay runs one deploy or rollback of
  an app at a time.
- *The health gates* of the lifecycle are free verdicts. `HealthGate` computes
  them from what `docker compose ps` and the public route show in each poll: a row is
  bad, starting or up; a poll may be unreadable or empty.
- *The sweep* takes the old rows minus the active ids at its start, as the code
  takes the cutoff and the ids before the query is sent; a query that can match
  nothing is left out. The live-sibling query reads the active ids in its own step.
- *Triggers* differ only in the reads and writes between the create and the
  start of the stream: the panel route reads the server row after marking the card,
  the scheduler links its entry before it. The common sequence with a failure at
  each call covers them.
- *Commands on the VPS* are the stages in which they change something a request can
  see: the `.env` is wiped, the old container stops, the new one runs. Each may fail
  at any stage, never end, or end after its request.
- *A deploy's evidence* starts at the provisioning, at the stream or at the break:
  nothing past the provisioning reads the env, so the parts after it start with one.
  What the relay did before a broken connection commutes with the break and happens
  after it in the model. A client changes nothing the deploy reads and sees
  `running` until the row is settled, so it begins when the row is settled and
  may still read `running`; of the recovered deploys, whose clocks and foreign
  runs no client sees, one of each kind is watched.

## 4. Runs

The lifecycle runs instantiate `MCDeployLifecycle`, the others the composing module itself.

| Run | Instance | Checks |
|---|---|---|
| `lifecycle_overlap` | two rows of one app, each a deploy or a rollback, one restart; 2.4 million states | `TypeOK`, `RegistryExact`, `SweepTakesOrphans`, `OutcomesAreNotOverwritten`, `ReconcileSparesNewDeploys` |
| `lifecycle_self` | a deploy and a rollback of the panel's own app, one restart; 2.6 million states | `SuccessIsEarned`, `OutcomesAreNotOverwritten` |
| `lifecycle_live` | one row of the panel's own app, every kind of step, secrets, an app found on `deploying`, one restart, one failed database call; 90 thousand states | `RegistryExact`, `SuccessIsEarned`, `KeepsContract`, `EveryRowSettles`, `NoCardStuckDeploying`, `RegistryDrains` |
| `scheduler` | `ScheduledPage`: two entries, and either two restarts and two failed calls, or the page open over a backend that does not fail; 155 thousand states | `TypeOK`, `RunsAtMostOnce`, `LossIsBounded`, `CancelIsTimely`, `KeepsContract`, `DueEntriesAreTaken`, `PageForgets` |
| `server_ops` | two requests of any kind by one user, one restart; 765 thousand states | `TypeOK`, `LocksExact`, `OneOperation`, `NoFlicker`, `TokenIsTheInstallers`, `UpdateIsReal`, `RecordIsOwn`, `EveryRequestEnds` |
| `deploy_evidence` | one deploy or rollback, and two requests on its env; 1.8 million states | `TypeOK`, `GateNeedsNews`, `WatchIsKept`, `NothingIsSwallowed`, `BlockedReadsBlocked`, `OutcomeFitsCard`, `ClientsTellTheTruth`, `HistoryIsTrue`, `DeploysAreProvisioned`, `RecoveredIsReal`, `RollbackIsReal`, `WaitsEnd` |
| `outcomes_final` | one row | refutes `OutcomesAreFinal` |
| `sweep_card_race` | two rows, one restart | refutes `SweepSparesLiveCards` |
| `inferred_success` | one row of an app with secrets | refutes `InferredSuccessHasRelayStep` |
| `scheduler_cancel` | two entries | refutes `CancelledDoesNotRun` |
| `blank_secret` | the instance of `deploy_evidence` | refutes `PreflightIsTheGate` |
| `env_history` | two updates of an env of two keys | refutes `HistoryMissesNothing` |

What the properties say:

*Lifecycle*

- `RegistryExact`: the count of an id is the number of parties that still drive
  it (its stream or route, its recovery), across hand-offs in either order.
- `SweepTakesOrphans`: from the sweep's start until it is done with a row, no
  process of the panel drives that row or is about to. Given an exact registry
  this holds even between the query and the write; the sweep's compare-and-set
  is a second line of defence that no run needs.
- `SuccessIsEarned`: `success` rests on the relay's record of this deploy, or on
  a stream that ended cleanly with only good steps. docs/architecture.md:101 says
  otherwise: there a row also becomes `success` when the "stuck sweep preflight passes for the
  panel's own app". The code does not do that any more: the own app "is held to the same proof; it
  only gets time" (startup.ts:205-226). In `lifecycle_self` and `lifecycle_live` every app is the
  panel's own, its preflight may pass at any time, and the property holds: it is the
  documentation that is stale (a finding in `PROJECT.json`).
- `KeepsContract`: every step is one of `DeployContract` or a stutter. The refinement
  maps a row to what it shows, whether somebody works on it (its stream or route, its
  recovery, nobody), whether it carries the sweep's marker, and whether the relay has
  recorded its success. The contract has one life per row: it is settled by whoever
  works on it, may be settled anew while its lost connection is looked into, is left
  to the sweep where nobody works on it, and turns from unverified to success
  only on the relay's record. Its `Sweep` step asks for that record of the panel's own
  app too, against the same words of docs/architecture.md:101.
- `OutcomesAreNotOverwritten`: a settled row changes only by its own recovery or
  by the late upgrade of a marked self-deploy.
- `ReconcileSparesNewDeploys`: the reconcile's stale plan never takes the card of
  a deploy that began after its query.
- `EveryRowSettles`, `NoCardStuckDeploying`, `RegistryDrains`: nothing stays
  `running`, `deploying` or registered for good.

*Scheduler*

- `RunsAtMostOnce`, `LossIsBounded`: the scheduler marks before it creates, so a
  failure or restart in between loses that entry, and only that one, rather than
  running it twice.
- `CancelIsTimely`: a confirmed cancel found no deploy of the entry.
- `KeepsContract`: every step is one of `ScheduleContract` or a stutter for each entry:
  it is accepted, then taken or cancelled, then removed; only a taken one is deployed,
  once. The refinement maps the status and the number of deploys of the entry.
- `DueEntriesAreTaken`: an entry behind a failing one is taken by a later pass.
- `PageForgets`: an entry that left the queue leaves the page for good, although
  loads overlap, answer out of order and fail, and a cancelled entry is hidden
  only for a while. It holds because the interval loads again and again.

*Server operations*

- `LocksExact`: the registry holds the keys of the operations in flight and no other,
  on every way out of four handlers with streams, early answers and errors.
- `OneOperation`: no two operations work on one row at once.
- `NoFlicker`: what a probe saw of a relay under operation is not written while
  that operation still runs.
- `TokenIsTheInstallers`: a re-install leaves the row with the token its installer
  printed, whatever the row, the VPS and a forgotten command before it held. It is not
  claimed of a row that was edited since the request loaded it, nor of one that fell back
  to an older token meanwhile. The second was found while proving it: an installer that
  outlived its request rotates the VPS's token, an operator patches the row to it, a
  re-install that was overtaken by this edit writes the older token it had printed, and a
  later one that does not rotate prints what its own copy of the row says and leaves the token alone.
- `UpdateIsReal`, `RecordIsOwn`: a self-update is a success only with the expected
  revision (or another than before), and no record of an earlier attempt settles it. The
  second holds for one registration of the host: the lock is keyed by the row's id, so where a
  server is deleted and registered again while an update waits, two updates of one relay
  run side by side and one may read the other's record (relay-self-update.ts:97).
- `EveryRequestEnds`: commands that never end and relays that never answer do
  not keep a request, and with it a server's keys, for ever.

*Evidence*

- `GateNeedsNews`, `WatchIsKept`, `NothingIsSwallowed`: the gate's verdict compared with
  what its polls really showed: a healthy verdict needs something seen healthy, a service
  seen starting is waited for, one seen bad is not forgotten when a poll cannot look.
- `RecoveredIsReal`, `RollbackIsReal`: at the write, after whatever others did between the
  calls of the check, a proof still stands for this very run: it succeeded on the relay, and HEAD as
  the relay reported it is where this run left it; a rollback went to the commit that was named or,
  where none was, somewhere else than before. Foreign runs, capped history and skewed clocks are
  in it. The one exception is stated: without ids, another caller's lone entry may look like the run
  in question when that one left none (`mistaken`).
- `BlockedReadsBlocked`, `OutcomeFitsCard`: how a log is read back agrees with how the
  deploy ended, between backend, frontend and the card.
- `HistoryIsTrue`: the history of an env update says what its write did to the file that was
  there, key by key, for each key nobody changed between its read and its write; an update that is
  refused, loses its answer or fails to insert its history leaves none. For the other keys
  `HistoryMissesNothing` shows what goes wrong.
- `DeploysAreProvisioned`: a deploy is posted only with every stored secret in the relay's file
  and every required key resolved, however secrets, file and keys changed before the deploy last
  read or wrote each of them. What others write after that is not in it, as the relay offers
  no other way than read, merge and write, and the panel takes no lock.
- `ClientsTellTheTruth`, `WaitsEnd`: whoever waited for a deploy says what its row
  says, a page that gave up does not show `deploying`, and nobody waits for ever: neither the
  gate, nor the target check, nor a client.

The six refuted properties quote the repository's own words; the findings in
`PROJECT.json` say where the code differs:

1. A settled row is not final (docs/architecture.md:104-107): a connection that
   drops after the `done` event was written sends the row to recovery.
2. The sweep can take a live deploy's card (docs/okf/deploy-outcome-trust-chain.md:97):
   the sibling check and the card write are two awaits.
3. A stream that ends without one relay step can become a success
   (stream-deploy.ts:440-443), because the panel's own `provision-secrets` step counts.
4. An env update answered with success lacks a row for a key it changed
   (docs/api.md:52): it compares with the file it read, and another update wrote in between.
5. A cancelled entry, confirmed to the user, is run (docs/architecture.md:86: `triggered` or
   `cancelled`). The cancel reads the entry as pending, a pass queries it, the cancel is
   confirmed, the pass marks it by its id and creates its Deploy row.
6. The preflight passes a deploy that its own gate blocks (required-env-gate.ts:33-36
   against routes/apps.ts:821): a secret that is blank resolves the key by its name in the
   preflight, and does not by its value in the deploy.

Observations without a run, because nothing in the repository promises the contrary or
because the effect lies outside the models:

- server.ts:8-12 says every fire-and-forget call carries a catch of its own, and
  scheduler.ts:23-30 why one must; scheduler.ts:9 and :11 pass `checkScheduled` bare,
  and the process-wide handler hides it.
- The precedence of operations over probes (services/server-status.ts:13-18) ends with
  the lock: a probe that asked the relay during an operation and is answered after
  it writes what it saw then (:136 asks the registry as it is now).
- The strict gate takes a set of rows that are all exited with code 0, paused or
  created for healthy, where its comment asks for a running service
  (post-deploy-gate.ts:151-152, 461).
- A recovered deploy with a passed rollback health check whose strict gate then fails
  reads "Failed, rolled back (healthy)" in the list while its card is `unhealthy`.
- An env update whose answer from the relay is lost may have written without a history entry, and so
  has one whose insert of the history throws (routes/apps.ts:736): the `.env` is
  changed and the request is a 500. docs/api.md:52 promises rows without a word on failures.
- Recovery of a deploy that the relay rolled back moves `lastDeployAt` (deploy-recovery.ts:335), where
  the comment at stream-deploy.ts:190-193 says it stays as it was, "same as deploy-recovery.ts".
- On a relay without ids the entry that looks like the deploy need not come from outside the
  panel, as deploy-target.ts:187-189 has it: a row of the panel that begins after the query, or
  an earlier one within the tolerance of the clocks, leaves such an entry too.
- The server page keeps one `deploying` and one log for all its apps; its reload after
  the last poll may fail and leave a `deploying` badge until the next one; a lost answer
  to its POST shows `unhealthy` while the deploy runs.

### Bounds

*Lifecycle.* One app is enough: nothing in these modules relates two apps except the
sweep's sequence, which visits rows one by one. Two rows give an older and a newer deploy,
a blocked deploy beside a live one and an orphan beside a live one. One
restart separates "before" and "after"; a second one only repeats the state in
which every driver is gone. `MaxFaults` is 0 where two rows interleave and 1
where one row runs, so that each call can fail in turn. `Lookback` is the
code's 20. `StepKinds` is empty in the two-row runs: which steps streamed
matters to the row's own outcome, which the one-row runs cover. Liveness is
checked with one row; two rows take TLC longer than five minutes. `OneApp`,
`Healthy` and the step sets are in `MCDeployLifecycle`; rows that are created the
same ways are symmetric in the safety runs.

*Scheduler.* Two entries give a failing entry before or after a sound one in
a batch and in different passes, and two failures or restarts hit the same entry
twice or both. One pass runs at a time: a pass is a few database calls
per entry (streams are not awaited) and the interval is a minute. A pass that
outlasted it would break `RunsAtMostOnce`; this is listed as a hazard. The page follows
one entry (`Followed`), hides a cancelled one for the code's two intervals (`Grace`)
and has at most two loads under way (`MaxLoads`): an old answer behind a new one.

*Server operations.* Two requests are every pair of operations, probes and edits, each at
any point of the other; their commands and updates go on when they are over. One
actor (`Actors`) makes the key of a user's first install collide; `MaxPolls` 2 gives
a poll before and one after the record changes; one restart (`MaxRestarts`) leaves commands
behind. Three requests that all run take TLC longer than five minutes; the safety properties are
proved for any number.

*Evidence.* Two jobs (`Jobs`) are a deploy beside one other request, or two updates;
one key (`Keys`) with the values empty, blank and set is what the gates
tell apart; the run about the history has two keys and two values, to change one key and leave the
other. `Attempts` and `ExtraAttempts` 2 have a first, a middle, a last and an
extended poll. `HistoryCap` 2 with one run before or after (`MaxRuns`) fills the history and
drops the own entry; `Commits` 2, `Tolerance` 1, `MaxSkew` 1 and `MaxTime` 3 put a
timestamp on either side of the tolerance. `Patience` 4 and `LongestWait` 2 have a
client meet its deadline before, at and after the answer. The proofs hold for every value of these.

### Fairness

The lifecycle's `FairSpec` is weakly fair in each driver, each recovery, the sweep and
the passage of time. This is what the code's scheduling gives: relay calls, probes and the
stream carry timeouts (`AbortSignal.timeout`, `relay.ts`, the gate's attempt
bounds), Node runs every ready callback, and the sweep is on a one-minute interval
whose rejection is caught. Nothing makes anyone start a deploy, the relay finish
one, or the process crash, so none of these is fair; the number of crashes and failed
calls is bounded. The relay never answering is therefore among the behaviours.

For the scheduler the pass is weakly fair: the interval fires for as long as the process
lives, the boot starts it again, and database calls end. The page's timers fire
(`Refresh`, `GraceEnds`), and every load ends: `LoadLands` is strongly fair for each
answer, so not every load that reads the new queue fails. Requests, removals and
the clock are not fair.

For the server, each request goes on (`Serve`): the SSH watchdog, the timeouts of fetches
and the bound of polls see to it. No request has to arrive, no command on the VPS has to end,
and the relay need not answer or finish its update. For the evidence the gate's polls and the
target check end (`Goes`), and a client's poll ends (`ClientPolls`): the frontend's fetches
carry no timeout of their own, so this is the browser's or the proxy's.

## 5. Proofs

TLAPS proves, for every value of the constants that satisfies the named assumptions of
each module, every safety and action property that the passing runs check:

| Theorem | Statement |
|---|---|
| `LifecycleTypes!TypeCorrect` | `Spec => []TypeOK` |
| `LifecycleInvariants!Inductive` | `Spec => []IInv` |
| `LifecycleInvariants!RegistryIsExact` | `Spec => []RegistryExact` |
| `LifecycleInvariants!SweepNeverTakesALiveRow` | `Spec => []SweepTakesOrphans` |
| `LifecycleContract!OutcomesAreSound` | `Spec => [](IInv /\ OutcomeInv)` |
| `LifecycleContract!SuccessRestsOnProof` | `Spec => SuccessIsEarned` |
| `LifecycleContract!SettledRowsStay` | `Spec => OutcomesAreNotOverwritten` |
| `LifecycleContract!ReconcileYields` | `Spec => ReconcileSparesNewDeploys` |
| `LifecycleContract!LifecycleKeepsContract` | `Spec => KeepsContract` |
| `SchedulerProofs!TypesHold` | `Spec => []TypeOK` |
| `SchedulerProofs!NoEntryRunsTwice` | `Spec => []RunsAtMostOnce` |
| `SchedulerProofs!LossesAreBounded` | `Spec => []LossIsBounded` |
| `SchedulerProofs!CancelsAreTimely` | `Spec => CancelIsTimely` |
| `SchedulerProofs!ImplementsContract` | `Spec => KeepsContract` |
| `SchedulerProofs!PageKeepsScheduler` | `PageSpec => Spec` |
| `ServerOpsProofs!RegistryIsExact` | `Spec => []LocksExact` |
| `ServerOpsProofs!OperationsExclude` | `Spec => []OneOperation` |
| `ServerOpsProofs!ProbesDoNotFlicker` | `Spec => NoFlicker` |
| `ServerOpsProofs!UpdatesAreReal` | `Spec => UpdateIsReal` |
| `ServerRecords!ServerTypeOK` | `Spec => []TypeOK` |
| `ServerRecords!TokensAreTheInstallers` | `Spec => TokenIsTheInstallers` |
| `ServerRecords!RecordsAreOwn` | `Spec => RecordIsOwn` |
| `DeployEvidenceProofs!EvidenceTypeOK` | `Spec => []TypeOK` |
| `DeployEvidenceProofs!VerdictsNeedNews` | `Spec => []GateNeedsNews` |
| `DeployEvidenceProofs!WatchesAreKept` | `Spec => []WatchIsKept` |
| `DeployEvidenceProofs!NothingBadIsSwallowed` | `Spec => []NothingIsSwallowed` |
| `DeployEvidenceProofs!PollsAreBounded` | `Spec => []WindowIsBounded` |
| `DeployEvidenceProofs!HistoriesAreTrue` | `Spec => HistoryIsTrue` |
| `DeployEvidenceProofs!PostedDeploysAreProvisioned` | `Spec => DeploysAreProvisioned` |
| `DeployEvidenceProofs!BlocksReadBlocked` | `Spec => []BlockedReadsBlocked` |
| `DeployEvidenceProofs!OutcomesFitCards` | `Spec => []OutcomeFitsCard` |
| `DeployEvidenceProofs!ClientsAreTruthful` | `Spec => []ClientsTellTheTruth` |
| `DeployEvidenceProofs!RecoveriesAreReal` | `Spec => RecoveredIsReal` |
| `DeployEvidenceProofs!RollbacksAreReal` | `Spec => RollbackIsReal` |

The assumptions are `ConstantsOK` (lifecycle), `SchedulerConstants` and `PageConstants`,
`ServerConstants`, and `EnvConstants`, `GateConstants`, `TargetConstants` and
`ClientConstants` (evidence). They ask for finite sets of rows, entries, requests, jobs and
keys, for natural numbers as bounds, and that a sentinel (`none`, `edited`, `unset`) is no
request and no value. Positive are only what the code counts from one: polls, patience,
commits and the first instant of the clock; and the relay's history keeps more than one entry.

*Lifecycle: types, registry, sweep.* `TypeOK` is inductive as it stands. The other two are
not: that the sweep's
candidates are undriven depends on the registry being exact, on an old row not
being one that a trigger has created and not yet registered, and on a recovery
running only after its driver gave the row up. `IInv` joins these facts per row:

- `Fresh`: before its create there is no row;
- `AgesRunning`: only a running row is aged, and never one that is still opening;
- `RecoveryIsLate`: a recovery runs only while its stream waits for it or its route is gone;
- `refs[d] = Holds(d)`;
- a row in `todo` of the row pass is undriven.

When the sweep starts it takes aged rows without a registration: by the first
two facts such a row has no opening driver, by exactness no holding one, so it
is undriven; and an undriven row never gets a driver again, because only a row
that does not exist yet can be created. The preservation proof is one lemma per
action; actions that touch neither row, registry nor program counters share one
lemma.

*Lifecycle: outcomes and the contract.* `OutcomeInv` adds to `IInv` why whoever writes an
outcome may write it: a driver that has its outcome still to write finds its row running
(`Unsettled`); one that claims a success has the relay's record or a stream that
ended with good steps only (`Claims`), which holds from the gate to the write because the relay
is asked once (`Unasked`) and takes no record back; a recovery that took something for
proof has the relay's record (`Recovers`); the sweep's marker stands only in rows nobody
works on (`Marks`); and what the sweep is about to write as a success has the record of the
very row it is at (`SweepHasProof`). The last needs that the row is unique, hence that rows are
numbered by their creation (`Numbered`). A step is first described at the one row it touches
(`Change`), once per action; that the others keep their facts, and each of the four results,
follows from the description alone. The refinement is proved the same way: `SeenAt` says
what a step shows of one row, and each kind of change is a step of the contract.

*Scheduler.* `RunsAtMostOnce` needs that an entry still in the batch has
no deploy although it may have been cancelled or removed since the query, that a
pending entry has none and is not the current one, and that the entry in its
create step has none (`Unrun`); `PassShape` says what the pass holds at each
point. `CancelIsTimely` follows, since only `CancelWrite` confirms a cancel and a
pending entry has no deploy. `LossIsBounded` counts: a lost entry is a taken one without
a deploy that no pass works on, and each step that makes one spends a crash or a fault.
`ImplementsContract` maps each action, under the invariant, to the contract's step for
the entry it touches and to a stutter for the others. The run checks the scheduler with the
page in front of it; `PageKeepsScheduler` carries the theorems over: each step of the page is a
cancel that any client may send, or none of the scheduler's.

*Server operations: locks.* The registry's invariant (`LockInv`) joins what each place of a
request implies of it (`RequestsFit`), `LocksExact`, that the keys of operations in flight do not
meet (`Apart`), and `OneOperation`. Each action either leaves the registry and who holds it
alone, takes keys that are free, or frees its own (`Turns`, one lemma per handler); either way
the four are kept. `NoFlicker` needs a memory (`Memory`): the operation a probe saw still
runs or is over for good, so a probe whose operation runs finds its key. `UpdateIsReal`
needs that a record of success names a relay that can say which revision it runs (`UpdateFits`).

*Server operations: what they write.* `Typed` bounds ids and tokens by the counters they are
drawn from, so that what was well typed stays so when these grow; with `LockInv` it gives
`TypeOK`. `TokenInv` follows a token from the VPS to the row: the `.env` holds the last token
issued or none (`Issued`), a command that has not succeeded has printed nothing (`Printed`), and
what an installer prints is no older than what the row holds, until somebody edits it
(`Current`). Tokens being numbered, a row that did not fall back since it was loaded and a
copy equal to the printed token leave only that token. `RecordInv` follows an attempt: a request that has
not asked the relay owns no update, and one whose update was accepted owns the relay's
last one, which is not pulling any more when its outcome is taken (`Owns`); the key of the row
keeps every other request from triggering the next one meanwhile.

*Evidence: gate.* `GateInv` says what the code's locals remember of the polls (`GateMemory`):
a service being watched was seen starting, a recorded reason was seen bad, and the poll number
never exceeds the window allowed, which is the configured one plus at most one extension.

*Evidence: env.* `EnvInv` says of each job, place by place, that each copy it holds equals its
store unless others wrote that store since (`Current`, `stale`), and that the history of a job
is empty until it records (`Unrecorded`). After its write a deploy's file is the merge of the two
copies it made, so that the secrets are in the file as it is if neither store is stale. An
update holds the file it replaced; for a key that is the same there and in what it had read,
what it records is what it did.

*Evidence: log and clients.* `DeployInv` says how a row that is settled got there
(`ByStream`, `ByRecovery`, `ByBlock`, `ByConflict`) by the steps its log holds: marked steps are
in a log exactly if a block or a conflict put them there. Both classifiers are proved
to read such logs alike, for logs of any length: filtering the relay's summary out of what ran
before keeps a log a log, and appending the failed checks leaves one of them in it.
`ClientInv` adds that a client starts when the row is settled, and that what it says is one of
three readings of it, each proved true, or that it gave up.

*Evidence: target.* `TargetInv` says that the run in question happens at most once and its entry
describes it (`OwnRunsOnce`), and, where that entry was made after the call, that no entry
above it is older than the call or the window is full of such entries (`InWindow`). A proof by
id then rests on the run's own entry; a proof by timing on a lone entry since the call, which is
the own one or, with a full window, not lone. This needs a history of more than one entry.
`FoundInv` carries that from the relay's answer to the write: a proof that is held, with or
without the word of `/health`, means that the run succeeded with the HEAD that was reported, or that the
answer was mistaken. Whatever the relay does afterwards leaves it true (`FoundStays`),
since a run that has ended does not run again and the HEAD that counts is the one reported.

While proving, three things came to light besides the two limits named in section 4. The
classifiers and outcomes were first written with overlapping `CASE` arms, which TLC takes in
order and the logic does not; they are nested conditions now, in the order of the code's
returns. Two assumptions on constants were missing (no request is called `none` or `edited`; the
clock has a first instant).

Only model-checked, because fairness and ENABLED are out of the prover's reach:
`EveryRowSettles`, `NoCardStuckDeploying`, `RegistryDrains`, `DueEntriesAreTaken`, `PageForgets`,
`EveryRequestEnds` and `WaitsEnd`. The six refuted properties are TLC's counterexamples. Each
inductive invariant was model-checked on the instance of its run before it was proved.

## 6. Not modelled

`PROJECT.json` lists every component with its status. Left out for good: pure
I/O (HTTP lookups, Prisma itself), rendering, request validation, authentication,
sessions and API keys (one-row reads and writes without order), the audit log, shell
scripts and workflows. Left open: the card writes of sync beside the lifecycle,
overlapping scheduler passes, and in the lifecycle the rows that vanish with a deleted
server. Two commands on a VPS at once are possible after a restart; the code accepts a
registry that lives and dies with its process, and the model has them.
