------------------------------- MODULE AppEnv -------------------------------
(***************************************************************************)
(* The environment of one app: its .env on the VPS (the relay owns it),    *)
(* the secrets and the required keys the panel stores, and the requests    *)
(* that read and write them: the env editor, the secrets, the preflight,   *)
(* and the provisioning at the head of every deploy.  Each of them reads,  *)
(* decides and writes in separate calls, with no lock between them.        *)
(***************************************************************************)
EXTENDS Naturals, FiniteSets

CONSTANTS
  Jobs,      \* requests and deploys
  JobKinds,  \* what they may be, and "clean": the file is removed outside the panel
  Keys,      \* env keys
  Values     \* values an operator may type: "" and " " among them

ASSUME EnvConstants ==
  /\ IsFiniteSet(Jobs) /\ IsFiniteSet(Keys)
  /\ JobKinds \subseteq {"env", "secret", "required", "preflight", "deploy", "clean"}
  /\ "unset" \notin Values

VARIABLES
  file,      \* the relay's .env
  secrets,   \* the AppSecret rows
  required,  \* App.requiredEnvKeys
  history,   \* the EnvVarChange rows of each request
  job        \* the requests

stores == <<file, secrets, required>>
envVars == <<file, secrets, required, history, job>>

\* A set of entries with distinct keys: a value for each key, or "unset".
Entries == [Keys -> Values \cup {"unset"}]
NoEntries == [k \in Keys |-> "unset"]

\* A blank value resolves no required key.
Blank == {"unset", "", " "}
ComputeMissingRequiredKeys(keys, resolved) == {k \in keys : resolved[k] \in Blank}

(***************************************************************************)
(* What was read on the way.  No action reads the last two: `was` is the   *)
(* file that an update replaced, and `stale` are the stores that others    *)
(* wrote since the job last read or wrote them.                            *)
(***************************************************************************)
NoJob == [kind |-> "none", at |-> "idle", body |-> NoEntries, env |-> NoEntries,
          keys |-> {}, answer |-> "none", was |-> NoEntries, stale |-> {}]

-----------------------------------------------------------------------------

Doing(p, kind, at) == job[p].kind = kind /\ job[p].at = at
Set(p, j) == job' = [job EXCEPT ![p] = j]
Advance(p, at) == Set(p, [job[p] EXCEPT !.at = at])
Answer(p, answer) == Set(p, [NoJob EXCEPT !.at = "done", !.kind = job[p].kind, !.answer = answer])
Begin(p, kind, at, body, keys) ==
  /\ kind \in JobKinds /\ job[p].at = "idle"
  /\ Set(p, [NoJob EXCEPT !.kind = kind, !.at = at, !.body = body, !.keys = keys])

\* A job under way when another wrote a store.
Staled(o, store) == IF o.at \in {"idle", "done"} THEN o ELSE [o EXCEPT !.stale = @ \cup {store}]

\* p writes a store and goes on as j.
Disturb(p, store, j) ==
  job' = [q \in Jobs |-> IF q = p THEN j ELSE Staled(job[q], store)]

-----------------------------------------------------------------------------
(* PUT env: read the current set, write the new one, record what changed.  *)

EnvPut(p) ==
  /\ \E body \in Entries : Begin(p, "env", "read", body, {})
  /\ UNCHANGED <<stores, history>>

EnvReads(p) ==
  /\ Doing(p, "env", "read")
  /\ \/ Set(p, [job[p] EXCEPT !.at = "write", !.env = file])
     \/ Answer(p, "error")
  /\ UNCHANGED <<stores, history>>

\* A write whose answer is lost was done or not; either way nothing is recorded.
EnvWrites(p) ==
  /\ Doing(p, "env", "write")
  /\ \/ /\ file' = job[p].body
        /\ Disturb(p, "file", [job[p] EXCEPT !.at = "record", !.was = file])
     \/ /\ file' \in {file, job[p].body}
        /\ Disturb(p, "file", [NoJob EXCEPT !.at = "done", !.kind = "env", !.answer = "error"])
  /\ UNCHANGED <<secrets, required, history>>

\* Mutant: only what the body holds is compared; removed keys are forgotten.
ChangesWithoutDeletes(was, now) ==
  {<<k, IF was[k] = "unset" THEN "create" ELSE "update">> : k \in {k \in Keys : now[k] \notin {"unset", was[k]}}}

Changes(was, now) ==
  {<<k, "create">> : k \in {k \in Keys : was[k] = "unset" /\ now[k] # "unset"}}
  \cup {<<k, "update">> : k \in {k \in Keys : "unset" \notin {was[k], now[k]} /\ was[k] # now[k]}}
  \cup {<<k, "delete">> : k \in {k \in Keys : was[k] # "unset" /\ now[k] = "unset"}}

\* The rows are one insert, left out when there are none; one that throws leaves a
\* changed file without history.
EnvRecords(p) ==
  /\ Doing(p, "env", "record")
  /\ \/ /\ history' = [history EXCEPT ![p] = Changes(job[p].env, job[p].body)]
        /\ Answer(p, "ok")
     \/ /\ Changes(job[p].env, job[p].body) # {}
        /\ Answer(p, "error")
        /\ UNCHANGED history
  /\ UNCHANGED stores

-----------------------------------------------------------------------------
(* Secrets and required keys: one database write each. *)

\* An empty value is refused; a blank one is not.
SecretPut(p) ==
  /\ "secret" \in JobKinds /\ job[p].at = "idle"
  /\ \E k \in Keys, v \in Values \ {""} : secrets' = [secrets EXCEPT ![k] = v]
  /\ Disturb(p, "secrets", [NoJob EXCEPT !.at = "done", !.kind = "secret"])
  /\ UNCHANGED <<file, required, history>>

SecretDelete(p) ==
  /\ "secret" \in JobKinds /\ job[p].at = "idle"
  /\ \E k \in Keys : secrets' = [secrets EXCEPT ![k] = "unset"]
  /\ Disturb(p, "secrets", [NoJob EXCEPT !.at = "done", !.kind = "secret"])
  /\ UNCHANGED <<file, required, history>>

RequiredPut(p) ==
  /\ "required" \in JobKinds /\ job[p].at = "idle"
  /\ required' \in SUBSET Keys
  /\ Disturb(p, "required", [NoJob EXCEPT !.at = "done", !.kind = "required"])
  /\ UNCHANGED <<file, secrets, history>>

\* Outside the panel: `git clean -fdx` removes the file.
FileCleaned ==
  /\ "clean" \in JobKinds /\ file # NoEntries
  /\ file' = NoEntries
  /\ job' = [q \in Jobs |-> Staled(job[q], "file")]
  /\ UNCHANGED <<secrets, required, history>>

-----------------------------------------------------------------------------
(* GET preflight: evaluateRequiredEnv.  Nothing is decrypted. *)

PreflightStart(p) ==
  /\ Begin(p, "preflight", "keys", NoEntries, required)
  /\ UNCHANGED <<stores, history>>

\* No required keys: no check.
PreflightKeys(p) ==
  /\ Doing(p, "preflight", "keys")
  /\ IF job[p].keys = {} THEN Answer(p, "passed")
     ELSE Set(p, [job[p] EXCEPT !.at = "env", !.stale = @ \ {"secrets"},
                                !.body = [k \in Keys |-> IF secrets[k] # "unset" THEN "set" ELSE "unset"]])
  /\ UNCHANGED <<stores, history>>

\* A stored secret counts as resolved; what is not stored is looked up in the file, which
\* counts as empty when the relay does not answer.
PreflightAnswers(p) ==
  /\ Doing(p, "preflight", "env")
  /\ \E seen \in {file, NoEntries} :
       LET resolved == [k \in Keys |-> IF job[p].body[k] # "unset" THEN "set" ELSE seen[k]]
       IN  Answer(p, IF ComputeMissingRequiredKeys(job[p].keys, resolved) = {} THEN "passed" ELSE "missing")
  /\ UNCHANGED <<stores, history>>

-----------------------------------------------------------------------------
(* provisionAndCheckAppSecrets, at the head of streamDeploy. *)

ProvisionStart(p) ==
  /\ Begin(p, "deploy", "secrets", NoEntries, required)
  /\ UNCHANGED <<stores, history>>

ProvisionDecrypts(p) ==
  /\ Doing(p, "deploy", "secrets")
  /\ Set(p, [job[p] EXCEPT !.at = "read", !.body = secrets, !.stale = @ \ {"secrets"}])
  /\ UNCHANGED <<stores, history>>

\* The panel's secrets win over the file.
Merged(env, secret) == [k \in Keys |-> IF secret[k] # "unset" THEN secret[k] ELSE env[k]]

\* Mutant: a key that is there counts as resolved, as in the preflight.
MissingByPresence(p) == {k \in job[p].keys : Merged(job[p].env, job[p].body)[k] = "unset"}

Missing(p) == ComputeMissingRequiredKeys(job[p].keys, Merged(job[p].env, job[p].body))

\* The deploy posts, or the panel's own preflight blocks it.
ProvisionEnds(p) == Answer(p, IF Missing(p) = {} THEN "posts" ELSE "blocked")

\* A relay that does not answer sends the deploy to recovery.
ProvisionReads(p) ==
  /\ Doing(p, "deploy", "read")
  /\ \/ Set(p, [job[p] EXCEPT !.env = file, !.stale = @ \ {"file"},
                              !.at = IF Merged(file, job[p].body) = file THEN "check" ELSE "write"])
     \/ Answer(p, "recovers")
  /\ UNCHANGED <<stores, history>>

ProvisionWrites(p) ==
  /\ Doing(p, "deploy", "write")
  /\ \/ /\ file' = Merged(job[p].env, job[p].body)
        /\ Disturb(p, "file", [job[p] EXCEPT !.at = "check", !.stale = @ \ {"file"}])
     \/ /\ file' \in {file, Merged(job[p].env, job[p].body)}
        /\ Disturb(p, "file", [NoJob EXCEPT !.at = "done", !.kind = "deploy", !.answer = "recovers"])
  /\ UNCHANGED <<secrets, required, history>>

ProvisionChecks(p) ==
  /\ Doing(p, "deploy", "check")
  /\ ProvisionEnds(p)
  /\ UNCHANGED <<stores, history>>

-----------------------------------------------------------------------------

EnvTypeOK ==
  /\ file \in Entries /\ secrets \in Entries
  /\ required \subseteq Keys
  /\ \A p \in Jobs : history[p] \subseteq Keys \X {"create", "update", "delete"}
  /\ \A p \in Jobs : job[p].keys \subseteq Keys

EnvInit ==
  /\ file \in Entries /\ secrets \in {s \in Entries : \A k \in Keys : s[k] # ""} /\ required \in SUBSET Keys
  /\ history = [p \in Jobs |-> {}]
  /\ job = [p \in Jobs |-> NoJob]

EnvServe(p) ==
  \/ EnvReads(p) \/ EnvWrites(p) \/ EnvRecords(p)
  \/ PreflightKeys(p) \/ PreflightAnswers(p)
  \/ ProvisionDecrypts(p) \/ ProvisionReads(p) \/ ProvisionWrites(p) \/ ProvisionChecks(p)

EnvArrive(p) ==
  \/ EnvPut(p) \/ SecretPut(p) \/ SecretDelete(p) \/ RequiredPut(p)
  \/ PreflightStart(p) \/ ProvisionStart(p)

EnvNext == (\E p \in Jobs : EnvArrive(p) \/ EnvServe(p)) \/ FileCleaned

-----------------------------------------------------------------------------

\* What an update did to a key.
Effect(was, now) ==
  IF was = now THEN "none" ELSE IF was = "unset" THEN "create" ELSE IF now = "unset" THEN "delete" ELSE "update"

\* The history of an env update says what its write did to the file that was there, for
\* each key nobody changed between its read and its write; an update that fails, at the
\* relay or at the insert, leaves no history (routes/apps.ts:711).
HistoryIsTrue ==
  [][\A p \in Jobs : job[p].kind = "env" /\ job[p].at # "done" /\ job'[p].at = "done" =>
       IF job'[p].answer = "ok"
       THEN \A k \in Keys, effect \in {"create", "update", "delete"} :
              job[p].was[k] = job[p].env[k]
                => (<<k, effect>> \in history'[p] <=> effect = Effect(job[p].was[k], job[p].body[k]))
       ELSE history'[p] = {}]_envVars

\* A deploy is posted only with every stored secret in the relay's .env, whatever the file
\* held and whoever wrote it before the deploy did, and with every required key resolved;
\* what others write after the deploy read or wrote it last is not in it.
DeploysAreProvisioned ==
  [][\A p \in Jobs : job[p].kind = "deploy" /\ job[p].at # "done" /\ job'[p].answer = "posts"
       => /\ {"secrets", "file"} \cap job[p].stale = {} =>
              \A k \in Keys : secrets[k] # "unset" => file[k] = secrets[k]
          /\ {"required", "file"} \cap job[p].stale = {} => \A k \in required : file[k] \notin Blank]_envVars

-----------------------------------------------------------------------------
(* What the repository says and the code does not do. *)

\* required-env-gate.ts:33-36: the preflight and the deploy's own gate agree.  What passes
\* the one is not blocked by the other, when nobody wrote since the preflight looked.
PreflightIsTheGate ==
  [][\A p \in Jobs : job[p].kind = "preflight" /\ job[p].at # "done" /\ job'[p].answer = "passed"
                     /\ job[p].stale \subseteq {"file"}
       => ComputeMissingRequiredKeys(required, Merged(file, secrets)) = {}]_envVars

\* docs/api.md:52: an update records one row per changed key.  One that is answered with
\* success has a row for each key its write changed in the file that was there.
HistoryMissesNothing ==
  [][\A p \in Jobs : Doing(p, "env", "record") /\ job'[p].answer = "ok" =>
       \A k \in Keys : job[p].was[k] # job[p].body[k] => \E change \in history'[p] : change[1] = k]_envVars

=============================================================================
