---------------------------- MODULE ServerRecords ----------------------------
(***************************************************************************)
(* Proofs about what the operations on a server write: every variable      *)
(* keeps its type, a re-install leaves the row with the token the          *)
(* installer printed, and an outcome taken from the relay's record is that *)
(* of the attempt that asked; for any requests, users and rows.            *)
(***************************************************************************)
EXTENDS ServerOpsProofs

-----------------------------------------------------------------------------
(* Types.  Ids and tokens are counted up, so what was well typed once is    *)
(* well typed ever after.                                                   *)

RowType(i, t) == [id : 0..i, url : BOOLEAN, token : 0..t, status : Statuses, pinned : BOOLEAN]
ReqType(i, t) ==
  [kind : Kinds \cup {"none"}, at : Places, actor : Actors \cup {"none"}, row : RowType(i, t),
   flag : BOOLEAN, val : Statuses \cup {"none", "record"}, prev : Revisions \cup {"none"},
   target : Revisions \cup {"none"}, n : Nat, past : Requests \cup {"none", "edited"}]
ScriptType(t) ==
  [at : ScriptStages \cup {"none"}, op : {"none", "install", "docker"}, token : 0..t]
UpdateType ==
  [phase : UpdatePhases, by : Requests \cup {"none"}, state : RecordStates,
   owner : Requests \cup {"none"}, prev : Revisions \cup {"none"}, target : Revisions \cup {"none"}]
BoxType(t) == [env : 0..t, token : 0..t, rev : Revisions \cup {"none"}, up : BOOLEAN]

\* What a request is about to write is a status, an installer's token is one that was
\* generated, and an operation that holds keys has a user.
Sane(r, t) ==
  /\ r.at \in {"answered", "landing", "trigger", "unsettled", "failing"} => r.val \in Statuses
  /\ r.kind \in {"install", "reinstall"} => r.n \in 0..t
  /\ r.kind \in Operations /\ r.at # "loaded" => r.actor \in Actors

Good(r, i, t) == r \in ReqType(i, t) /\ Sane(r, t)

RequestsTyped == req = [q \in Requests |-> req[q]] /\ \A q \in Requests : Good(req[q], rows, tokens)
DatabaseTyped == rows \in Nat /\ restarts \in 0..MaxRestarts /\ row \in RowType(rows, tokens)
VpsTyped ==
  /\ tokens \in Nat /\ box \in BoxType(tokens) /\ upd \in UpdateType /\ latest \in Revisions
  /\ script \in [Requests -> ScriptType(tokens)]

Typed == RequestsTyped /\ DatabaseTyped /\ VpsTyped

\* A request stays well typed as ids and tokens are given.
LEMMA GoodGrows ==
  ASSUME NEW i \in Nat, NEW t \in Nat, NEW j \in Nat, NEW u \in Nat, i <= j, t <= u,
         NEW r, Good(r, i, t)
  PROVE  Good(r, j, u)
<1>1. 0..i \subseteq 0..j /\ 0..t \subseteq 0..u
  OBVIOUS
<1>2. r.row \in RowType(j, u)
  BY <1>1 DEF Good, ReqType, RowType
<1>3. r \in ReqType(j, u)
  BY <1>2 DEF Good, ReqType
<1>4. QED
  BY <1>1, <1>3 DEF Good, Sane

\* Editing one request.
LEMMA BecomeTyped ==
  ASSUME RequestsTyped, rows \in Nat, tokens \in Nat, UNCHANGED <<rows, tokens>>,
         NEW p \in Requests, NEW r, Become(p, r), Good(r, rows, tokens)
  PROVE  RequestsTyped'
  BY DEF RequestsTyped, Become

\* The row and requests that have not begun, or are over.
LEMMA BlankTyped ==
  ASSUME NEW i \in Nat, NEW t \in Nat
  PROVE  NoRow \in RowType(i, t) /\ Good(NoRequest, i, t) /\ Good(Ended, i, t)
<1>1. NoRow \in RowType(i, t)
  BY DEF NoRow, RowType, Statuses
<1>2. NoRequest \in ReqType(i, t) /\ Ended \in ReqType(i, t)
  BY <1>1 DEF NoRequest, Ended, ReqType, Places
<1>3. QED
  BY <1>1, <1>2 DEF Good, Sane, NoRequest, Ended, Operations

\* What a request of the state is.
LEMMA GoodNow == ASSUME Typed, NEW p \in Requests PROVE Good(req[p], rows, tokens)
  BY DEF Typed, RequestsTyped

\* No token is a number, too.
LEMMA ZeroIsToken == ASSUME Typed PROVE 0 \in 0..tokens
  BY DEF Typed, VpsTyped

Counted == UNCHANGED <<rows, tokens>>

\* The end of a request, and the close of an operation.
LEMMA EndTyped == ASSUME Typed, Counted, NEW p \in Requests, End(p) PROVE RequestsTyped'
  BY BecomeTyped, BlankTyped DEF Typed, DatabaseTyped, VpsTyped, Counted, End

LEMMA CloseGood ==
  ASSUME Typed, NEW p \in Requests, Close(p), req[p].at # "loaded"
  PROVE  \E r : Become(p, r) /\ Good(r, rows, tokens)
<1>1. Good(req[p], rows, tokens) /\ rows \in Nat /\ tokens \in Nat
  BY GoodNow DEF Typed, DatabaseTyped, VpsTyped
<1>2. ASSUME NEW o \in RowType(rows, tokens)
      PROVE  [o EXCEPT !.id = req[p].row.id] \in RowType(rows, tokens)
  BY <1>1, <1>2 DEF RowType, Good, ReqType
<1>3. ASSUME NEW o \in ReqType(rows, tokens), o.n = 0, NEW w \in RowType(rows, tokens), NEW r,
             r = [o EXCEPT !.kind = req[p].kind, !.at = "closing", !.actor = req[p].actor, !.row = w]
      PROVE  Good(r, rows, tokens)
  <2>0. req[p].kind \in Kinds \cup {"none"} /\ req[p].actor \in Actors \cup {"none"}
    BY <1>1 DEF ReqType, Good
  <2>1. r \in ReqType(rows, tokens)
    BY <1>3, <2>0 DEF ReqType, Places
  <2>2. r.at = "closing" /\ r.n = 0 /\ r.kind = req[p].kind /\ r.actor = req[p].actor
    BY <1>3 DEF ReqType
  <2>3. Sane(r, tokens)
    BY <1>1, <2>2 DEF Sane, Good
  <2>4. QED
    BY <2>1, <2>3 DEF Good
<1>4. NoRow \in RowType(rows, tokens) /\ NoRequest \in ReqType(rows, tokens) /\ NoRequest.n = 0
  BY <1>1, BlankTyped DEF Good, NoRequest
<1>5. QED
  BY <1>2, <1>3, <1>4 DEF Close

LEMMA CloseTyped ==
  ASSUME Typed, Counted, NEW p \in Requests, Close(p), req[p].at # "loaded"
  PROVE  RequestsTyped'
  BY CloseGood, BecomeTyped DEF Typed, DatabaseTyped, VpsTyped, Counted

\* An operation that moves on, with a number that is a token where it has to be one.
LEMMA NumberTyped ==
  ASSUME Typed, Counted, NEW p \in Requests, req[p].at # "loaded",
         NEW at \in Places \ {"answered", "landing", "trigger", "unsettled", "failing"},
         NEW n \in Nat, req[p].kind \in {"install", "reinstall"} => n \in 0..tokens,
         Become(p, [req[p] EXCEPT !.at = at, !.n = n])
  PROVE  RequestsTyped'
<1> DEFINE r == [req[p] EXCEPT !.at = at, !.n = n]
<1>1. Good(req[p], rows, tokens) /\ rows \in Nat /\ tokens \in Nat
  BY GoodNow DEF Typed, DatabaseTyped, VpsTyped
<1>2. r \in ReqType(rows, tokens)
  BY <1>1 DEF ReqType, Good
<1>3. Sane(r, tokens)
  BY <1>1 DEF ReqType, Sane, Good
<1>4. QED
  BY <1>1, <1>2, <1>3, BecomeTyped DEF Typed, Counted, Good

LEMMA GotoTyped ==
  ASSUME Typed, Counted, NEW p \in Requests, req[p].at # "loaded",
         NEW at \in Places \ {"answered", "landing", "trigger", "unsettled", "failing"}, Goto(p, at)
  PROVE  RequestsTyped'
<1> DEFINE r == [req[p] EXCEPT !.at = at]
<1>1. Good(req[p], rows, tokens) /\ rows \in Nat /\ tokens \in Nat
  BY GoodNow DEF Typed, DatabaseTyped, VpsTyped
<1>2. r \in ReqType(rows, tokens) /\ Sane(r, tokens)
  BY <1>1 DEF ReqType, Sane, Good
<1>3. QED
  BY <1>1, <1>2, BecomeTyped DEF Typed, Counted, Good, Goto

\* A request that takes a copy of the row along.
LEMMA LoadTyped ==
  ASSUME Typed, Counted, NEW p \in Requests, NEW kind \in Kinds, NEW at \in {"asking", "loaded"},
         NEW flag \in BOOLEAN, at = "loaded" \/ kind \notin Operations,
         Become(p, [NoRequest EXCEPT !.kind = kind, !.at = at, !.row = Copy, !.flag = flag])
  PROVE  RequestsTyped'
<1>1. rows \in Nat /\ tokens \in Nat /\ row \in RowType(rows, tokens)
  BY DEF Typed, DatabaseTyped, VpsTyped
<1>2. Copy \in RowType(rows, tokens)
  BY <1>1 DEF Copy, NoRow, RowType, Statuses
<1>3. ASSUME NEW o \in ReqType(rows, tokens), o.n = 0, NEW w \in RowType(rows, tokens), NEW r,
             r = [o EXCEPT !.kind = kind, !.at = at, !.row = w, !.flag = flag]
      PROVE  Good(r, rows, tokens)
  <2>1. r \in ReqType(rows, tokens)
    BY <1>1, <1>3 DEF ReqType, Places
  <2>2. r.at = at /\ r.n = 0 /\ r.kind = kind
    BY <1>3 DEF ReqType
  <2>3. Sane(r, tokens)
    BY <1>1, <2>2 DEF Sane
  <2>4. QED
    BY <2>1, <2>3 DEF Good
<1>4. NoRequest \in ReqType(rows, tokens) /\ NoRequest.n = 0
  BY <1>1, BlankTyped DEF Good, NoRequest
<1>5. QED
  BY <1>1, <1>2, <1>3, <1>4, BecomeTyped DEF Typed, Counted

\* The same without a choice of the body.
LEMMA LoadsTyped ==
  ASSUME Typed, Counted, NEW p \in Requests, NEW kind \in Kinds, NEW at \in {"asking", "loaded"},
         at = "loaded" \/ kind \notin Operations, Loads(p, kind, at)
  PROVE  RequestsTyped'
<1>1. rows \in Nat /\ tokens \in Nat /\ row \in RowType(rows, tokens)
  BY DEF Typed, DatabaseTyped, VpsTyped
<1>2. Copy \in RowType(rows, tokens)
  BY <1>1 DEF Copy, NoRow, RowType, Statuses
<1>3. ASSUME NEW o \in ReqType(rows, tokens), o.n = 0, NEW w \in RowType(rows, tokens), NEW r,
             r = [o EXCEPT !.kind = kind, !.at = at, !.row = w]
      PROVE  Good(r, rows, tokens)
  <2>1. r \in ReqType(rows, tokens)
    BY <1>1, <1>3 DEF ReqType, Places
  <2>2. r.at = at /\ r.n = 0 /\ r.kind = kind
    BY <1>3 DEF ReqType
  <2>3. Sane(r, tokens)
    BY <1>1, <2>2 DEF Sane
  <2>4. QED
    BY <2>1, <2>3 DEF Good
<1>4. NoRequest \in ReqType(rows, tokens) /\ NoRequest.n = 0
  BY <1>1, BlankTyped DEF Good, NoRequest
<1>5. QED
  BY <1>1, <1>2, <1>3, <1>4, BecomeTyped DEF Typed, Counted, Loads

\* A status in hand, to be written here or there.
LEMMA StatusTyped ==
  ASSUME Typed, Counted, NEW p \in Requests, req[p].at # "loaded", NEW at \in Places, at # "loaded",
         NEW val \in Statuses, NEW r, Become(p, r),
         \/ r = [req[p] EXCEPT !.at = at, !.val = val]
         \/ r = [req[p] EXCEPT !.at = at, !.n = 0, !.val = val]
         \/ \E prev \in Revisions \cup {"none"} :
              r = [req[p] EXCEPT !.at = at, !.val = val, !.prev = prev]
         \/ \E past \in Requests \cup {"none"} :
              r = [req[p] EXCEPT !.at = at, !.val = val, !.past = past]
  PROVE  RequestsTyped'
<1>1. Good(req[p], rows, tokens) /\ rows \in Nat /\ tokens \in Nat
  BY GoodNow DEF Typed, DatabaseTyped, VpsTyped
<1>2. ASSUME NEW prev \in Revisions \cup {"none"}, r = [req[p] EXCEPT !.at = at, !.val = val, !.prev = prev]
      PROVE  r \in ReqType(rows, tokens) /\ Sane(r, tokens)
  BY <1>1, <1>2 DEF ReqType, Good, Sane
<1>3. ASSUME NEW past \in Requests \cup {"none"}, r = [req[p] EXCEPT !.at = at, !.val = val, !.past = past]
      PROVE  r \in ReqType(rows, tokens) /\ Sane(r, tokens)
  BY <1>1, <1>3 DEF ReqType, Good, Sane
<1>4. CASE r = [req[p] EXCEPT !.at = at, !.val = val]
  BY <1>1, <1>4, BecomeTyped DEF ReqType, Good, Sane, Typed, Counted
<1>5. CASE r = [req[p] EXCEPT !.at = at, !.n = 0, !.val = val]
  <2>1. r \in ReqType(rows, tokens) /\ r.n = 0
    BY <1>1, <1>5 DEF ReqType, Good
  <2>2. r.at = at /\ r.val = val /\ r.kind = req[p].kind /\ r.actor = req[p].actor
    BY <1>1, <1>5 DEF ReqType, Good
  <2>3. req[p].kind \in Operations => req[p].actor \in Actors
    BY <1>1 DEF Good, Sane
  <2>4. 0 \in 0..tokens
    BY ZeroIsToken
  <2>5. Sane(r, tokens)
    BY <2>1, <2>2, <2>3, <2>4, Zenon DEF Sane
  <2>6. QED
    BY <1>1, <2>1, <2>5, BecomeTyped DEF Good, Typed, Counted
<1>6. QED
  BY <1>1, <1>2, <1>3, <1>4, <1>5, BecomeTyped DEF Typed, Counted, Good

\* What /health can say is a status.
LEMMA HealthIsStatus == ASSUME NEW r PROVE HealthAnswers(r) \subseteq Statuses
  BY DEF HealthAnswers, Statuses

\* The holder of a server is a request, or none.
LEMMA HolderTyped == ASSUME NEW id PROVE HolderOf(id) \in Requests \cup {"none"}
  BY DEF HolderOf

\* A step that changes requests alone, and one that writes the row as well.
LEMMA RequestsAlone ==
  ASSUME Typed, UNCHANGED <<database, vps, restarts>>, RequestsTyped' PROVE Typed'
  BY DEF Typed, DatabaseTyped, VpsTyped, database, vps

LEMMA RowAsWell ==
  ASSUME Typed, UNCHANGED <<rows, vps, restarts>>, row' \in RowType(rows, tokens), RequestsTyped'
  PROVE  Typed'
  BY DEF Typed, DatabaseTyped, VpsTyped, vps

LEMMA StatusWritten ==
  ASSUME Typed, NEW status \in Statuses, WriteStatus(status) PROVE row' \in RowType(rows, tokens)
  BY DEF Typed, DatabaseTyped, RowType, WriteStatus

\* Probes.
LEMMA ProbeWritesTyped ==
  ASSUME Typed, Counted, NEW p \in Requests, req[p].at # "loaded", NEW status \in Statuses,
         ProbeWrites(p, status)
  PROVE  RequestsTyped'
<1>1. "landing" \in Places
  BY DEF Places
<1>2. QED
  BY <1>1, EndTyped, StatusTyped DEF ProbeWrites

LEMMA ProbesTyped == ASSUME Typed, NEW p \in Requests, Probe(p) PROVE Typed'
<1>1. CASE StatusLands(p)
  <2>1. Counted /\ RequestsTyped'
    BY <1>1, EndTyped DEF StatusLands, Counted, vps
  <2>2. req[p].val \in Statuses
    BY <1>1, GoodNow DEF StatusLands, Good, Sane
  <2>3. row' \in RowType(rows, tokens)
    BY <1>1, <2>2, StatusWritten DEF StatusLands, Typed, DatabaseTyped
  <2>4. QED
    BY <1>1, <2>1, <2>3, RowAsWell DEF StatusLands
<1>2. ASSUME ~StatusLands(p) PROVE UNCHANGED <<database, vps, restarts>> /\ Counted
  BY <1>2 DEF Probe, TestStart, TestNoRelay, TestSees, TestAnswered, SyncStart, SyncSees, SyncApps,
     Counted, database, vps
<1>3. CASE TestStart(p) \/ SyncStart(p)
  <2>1. {"test", "sync"} \cap Operations = {}
    BY DEF Operations
  <2>2. ~StatusLands(p)
    BY <1>3 DEF StatusLands, TestStart, SyncStart, Ready
  <2>3. QED
    BY <1>2, <1>3, <2>1, <2>2, LoadsTyped, RequestsAlone DEF TestStart, SyncStart, Ready
<1>4. CASE TestNoRelay(p) \/ TestAnswered(p)
  <2>1. ~StatusLands(p) /\ req[p].at # "loaded"
    BY <1>4 DEF StatusLands, TestNoRelay, TestAnswered, At
  <2>2. TestAnswered(p) => req[p].val \in Statuses
    BY GoodNow DEF TestAnswered, At, Good, Sane
  <2>3. QED
    BY <1>2, <1>4, <2>1, <2>2, ProbeWritesTyped, RequestsAlone
       DEF TestNoRelay, TestAnswered, Statuses
<1>5. CASE SyncApps(p)
  <2>1. ~StatusLands(p) /\ req[p].at # "loaded" /\ req[p].val \in Statuses
    BY <1>5, GoodNow DEF StatusLands, SyncApps, At, Good, Sane
  <2>2. QED
    BY <1>2, <1>5, <2>1, ProbeWritesTyped, EndTyped, RequestsAlone DEF SyncApps
<1>6. CASE TestSees(p) \/ SyncSees(p)
  <2>1. ~StatusLands(p) /\ req[p].at # "loaded" /\ "answered" \in Places
    BY <1>6 DEF StatusLands, TestSees, SyncSees, At, Places
  <2>2. RelayRequest \subseteq Statuses
    BY HealthIsStatus DEF RelayRequest, Statuses
  <2>3. CASE End(p)
    BY <1>2, <2>1, <2>3, EndTyped, RequestsAlone
  <2>4. CASE ~End(p)
    <3>1. PICK status \in Statuses, past \in Requests \cup {"none"} :
            Become(p, [req[p] EXCEPT !.at = "answered", !.val = status, !.past = past])
      BY <1>6, <2>2, <2>4, HealthIsStatus, HolderTyped DEF TestSees, SyncSees
    <3>2. QED
      BY <1>2, <2>1, <3>1, StatusTyped, RequestsAlone
  <2>5. QED
    BY <2>3, <2>4
<1>7. QED
  BY <1>1, <1>3, <1>4, <1>5, <1>6 DEF Probe

\* A new row has the next id.
LEMMA NewRowTyped ==
  ASSUME Typed, UNCHANGED <<vps, restarts>>, rows' = rows + 1, row' \in RowType(rows + 1, tokens),
         NEW p \in Requests, NEW r, Become(p, r), Good(r, rows, tokens)
  PROVE  Typed'
<1>1. rows \in Nat /\ tokens \in Nat /\ rows + 1 \in Nat /\ rows <= rows + 1 /\ tokens' = tokens
  BY DEF Typed, DatabaseTyped, VpsTyped, vps
<1>2. \A q \in Requests : Good(req'[q], rows + 1, tokens)
  BY <1>1, GoodGrows DEF Typed, RequestsTyped, Become
<1>3. RequestsTyped'
  BY <1>1, <1>2 DEF Typed, RequestsTyped, Become
<1>4. QED
  BY <1>1, <1>3 DEF Typed, DatabaseTyped, VpsTyped, vps

\* The plain edits of the row.
LEMMA EditsTyped == ASSUME Typed, NEW p \in Requests, Edit(p) PROVE Typed'
<1>1. /\ rows \in Nat /\ tokens \in Nat /\ box.token \in 0..tokens /\ 0 \in 0..tokens
      /\ row \in RowType(rows, tokens)
  BY DEF Typed, DatabaseTyped, VpsTyped, BoxType
<1>2. Entered \subseteq 0..tokens
  BY <1>1 DEF Entered
<1>3. CASE CreateServer(p)
  <2>1. PICK token \in 0..tokens, url \in BOOLEAN :
          row' = [NoRow EXCEPT !.id = rows + 1, !.url = url, !.token = token]
    BY <1>2, <1>3 DEF CreateServer
  <2>2. rows + 1 \in 0..(rows + 1) /\ rows + 1 \in Nat
    BY <1>1
  <2>3. NoRow \in RowType(rows + 1, tokens)
    BY <1>1, <2>2, BlankTyped
  <2>4. row' \in RowType(rows + 1, tokens)
    BY <2>1, <2>2, <2>3 DEF RowType
  <2>5. QED
    BY <1>1, <1>3, <2>4, NewRowTyped, BlankTyped DEF CreateServer, End
<1>4. CASE DeleteServer(p)
  <2>1. Counted /\ RequestsTyped' /\ row' \in RowType(rows, tokens)
    BY <1>1, <1>4, EndTyped, BlankTyped DEF DeleteServer, Counted, vps
  <2>2. QED
    BY <1>4, <2>1, RowAsWell DEF DeleteServer
<1>5. CASE PatchServer(p)
  <2>1. PICK token \in 0..tokens, url \in BOOLEAN : row' = [row EXCEPT !.url = url, !.token = token]
    BY <1>2, <1>5 DEF PatchServer
  <2>2. row' \in RowType(rows, tokens)
    BY <1>1, <2>1 DEF RowType
  <2>3. ASSUME NEW q \in Requests PROVE Good([req[q] EXCEPT !.past = "edited"], rows, tokens)
    <3>1. Good(req[q], rows, tokens)
      BY GoodNow
    <3>2. [req[q] EXCEPT !.past = "edited"] \in ReqType(rows, tokens)
      BY <3>1 DEF Good, ReqType
    <3>3. Sane([req[q] EXCEPT !.past = "edited"], tokens)
      BY <3>1 DEF Good, ReqType, Sane
    <3>4. QED
      BY <3>2, <3>3 DEF Good
  <2>4. req' = [q \in Requests |->
                  IF q = p THEN Ended
                  ELSE IF req[q].kind = "reinstall" /\ req[q].at # "closing"
                       THEN [req[q] EXCEPT !.past = "edited"] ELSE req[q]]
    BY <1>5 DEF PatchServer
  <2>5. req' = [q \in Requests |-> req'[q]] /\ \A q \in Requests : Good(req'[q], rows, tokens)
    BY <1>1, <2>3, <2>4, GoodNow, BlankTyped
  <2>6. RequestsTyped'
    BY <1>5, <2>5 DEF RequestsTyped, PatchServer, vps
  <2>7. QED
    BY <1>5, <2>2, <2>6, RowAsWell DEF PatchServer
<1>6. QED
  BY <1>3, <1>4, <1>5 DEF Edit

\* The command on the VPS: what it may become, request by request.
LEMMA ScriptTyped ==
  ASSUME NEW t \in Nat, script \in [Requests -> ScriptType(t)], NEW p \in Requests,
         NEW s \in ScriptType(t), script' = [script EXCEPT ![p] = s]
  PROVE  script' \in [Requests -> ScriptType(t)]
  OBVIOUS

LEMMA NoScriptTyped == ASSUME NEW t \in Nat PROVE NoScript \in ScriptType(t)
  BY DEF NoScript, ScriptType

\* Where only a command and the requests change.
LEMMA ScriptAsWell ==
  ASSUME Typed, UNCHANGED <<database, box, tokens, upd, latest, restarts>>, RequestsTyped',
         script' \in [Requests -> ScriptType(tokens)]
  PROVE  Typed'
  BY DEF Typed, DatabaseTyped, VpsTyped, database

\* A command that ended and is gone.
LEMMA RanTyped ==
  ASSUME Typed, NEW p \in Requests, NEW result, Ran(p, result)
  PROVE  /\ script' \in [Requests -> ScriptType(tokens)] /\ script[p].token \in 0..tokens
         /\ req[p].at = "running" /\ UNCHANGED <<box, tokens, upd, latest>>
<1>1. tokens \in Nat /\ script \in [Requests -> ScriptType(tokens)]
  BY DEF Typed, VpsTyped
<1>2. script[p].token \in 0..tokens
  BY <1>1 DEF ScriptType
<1>3. QED
  BY <1>1, <1>2, ScriptTyped, NoScriptTyped DEF Ran, Waits

LEMMA SshTyped == ASSUME Typed, NEW p \in Requests, Ssh(p) PROVE Typed'
<1>1. tokens \in Nat /\ script \in [Requests -> ScriptType(tokens)]
  BY DEF Typed, VpsTyped
<1>2. CASE SshFails(p)
  <2>1. RequestsTyped'
    BY <1>2, CloseTyped DEF SshFails, Counted, database, vps
  <2>2. QED
    BY <1>2, <2>1, RequestsAlone DEF SshFails
<1>3. CASE SshStarts(p)
  <2>1. "running" \in Places \ {"answered", "landing", "trigger", "unsettled", "failing"}
    BY DEF Places
  <2>2. RequestsTyped'
    BY <1>3, <2>1, GotoTyped DEF SshStarts, Counted, database
  <2>3. ASSUME NEW o \in ScriptType(tokens), NEW at \in ScriptStages, NEW op \in {"install", "docker"}
        PROVE  [o EXCEPT !.at = at, !.op = op] \in ScriptType(tokens)
    BY <2>3 DEF ScriptType
  <2>4. PICK s \in ScriptType(tokens) : script' = [script EXCEPT ![p] = s]
    BY <1>1, <1>3, <2>3, NoScriptTyped DEF SshStarts, ScriptStages
  <2>5. QED
    BY <1>1, <1>3, <2>2, <2>4, ScriptTyped, ScriptAsWell DEF SshStarts
<1>4. CASE SshTimesOut(p)
  <2>1. RequestsTyped'
    BY <1>4, CloseTyped DEF SshTimesOut, Waits, Counted, database
  <2>2. script' \in [Requests -> ScriptType(tokens)]
    BY <1>1, <1>4, ScriptTyped, NoScriptTyped DEF SshTimesOut
  <2>3. QED
    BY <1>4, <2>1, <2>2, ScriptAsWell DEF SshTimesOut
<1>5. CASE Release(p)
  <2>1. RequestsTyped'
    BY <1>5, EndTyped DEF Release, Counted, database, vps
  <2>2. QED
    BY <1>5, <2>1, RequestsAlone DEF Release
<1>6. QED
  BY <1>2, <1>3, <1>4, <1>5 DEF Ssh

Plain == Places \ {"answered", "landing", "trigger", "unsettled", "failing"}
LEMMA PlainPlaces ==
  {"ssh", "inspect", "docker", "running", "pinning", "writing", "health", "probing", "sent",
   "polling", "record", "success", "failed"} \subseteq Plain
  BY DEF Plain, Places

\* The first install.
LEMMA InstallsTyped ==
  ASSUME Typed, NEW p \in Requests, InstallStart(p) \/ InstallParses(p) \/ InstallCreates(p)
  PROVE  Typed'
<1>1. rows \in Nat /\ tokens \in Nat /\ row \in RowType(rows, tokens) /\ Good(req[p], rows, tokens)
  BY GoodNow DEF Typed, DatabaseTyped, VpsTyped
<1>2. CASE InstallStart(p)
  <2>1. PICK a \in Actors :
          Become(p, [NoRequest EXCEPT !.kind = "install", !.at = "ssh", !.actor = a])
    BY <1>2 DEF InstallStart
  <2>2. "install" \in Kinds /\ NoRequest \in ReqType(rows, tokens) /\ NoRequest.n = 0
    BY <1>1, <1>2, BlankTyped DEF InstallStart, Ready, Good, NoRequest
  <2>3. ASSUME NEW o \in ReqType(rows, tokens), o.n = 0, NEW r,
               r = [o EXCEPT !.kind = "install", !.at = "ssh", !.actor = a]
        PROVE  Good(r, rows, tokens)
    <3>1. r \in ReqType(rows, tokens)
      BY <2>1, <2>2, <2>3 DEF ReqType, Places
    <3>2. r.kind = "install" /\ r.at = "ssh" /\ r.actor = a /\ r.n = 0
      BY <2>3 DEF ReqType
    <3>3. Sane(r, tokens)
      BY <1>1, <2>1, <3>2 DEF Sane
    <3>4. QED
      BY <3>1, <3>3 DEF Good
  <2>4. RequestsTyped'
    BY <1>1, <1>2, <2>1, <2>2, <2>3, BecomeTyped DEF InstallStart, Typed, database, vps
  <2>5. QED
    BY <1>2, <2>4, RequestsAlone DEF InstallStart
<1>3. CASE InstallParses(p)
  <2>1. /\ script' \in [Requests -> ScriptType(tokens)] /\ script[p].token \in 0..tokens
        /\ req[p].at = "running" /\ UNCHANGED <<box, tokens, upd, latest>>
    BY <1>3, RanTyped DEF InstallParses
  <2>2. script[p].token \in Nat /\ Counted
    BY <1>1, <1>3, <2>1 DEF InstallParses, Counted, database
  <2>3. RequestsTyped'
    BY <1>3, <2>1, <2>2, CloseTyped, NumberTyped, PlainPlaces DEF InstallParses, Plain
  <2>4. QED
    BY <1>3, <2>1, <2>3, ScriptAsWell DEF InstallParses
<1>4. CASE InstallCreates(p)
  <2>1. req[p].at = "writing" /\ req[p].kind = "install" /\ req[p].n \in 0..tokens
    BY <1>1, <1>4 DEF InstallCreates, At, Good, Sane
  <2>2. CASE row.id # 0
    <3>1. RequestsTyped'
      BY <1>4, <2>1, <2>2, CloseTyped DEF InstallCreates, Counted, vps
    <3>2. QED
      BY <1>4, <2>2, <3>1, RequestsAlone DEF InstallCreates, database
  <2>3. CASE row.id = 0
    <3>1. rows + 1 \in 0..(rows + 1)
      BY <1>1
    <3>2. row' \in RowType(rows + 1, tokens)
      <4>1. PICK pinned \in BOOLEAN :
              row' = [id |-> rows + 1, url |-> TRUE, token |-> req[p].n, status |-> "unknown",
                      pinned |-> pinned]
        BY <1>4, <2>3 DEF InstallCreates
      <4>2. QED
        BY <2>1, <3>1, <4>1 DEF RowType, Statuses
    <3>3. PICK r : Become(p, r) /\ Good(r, rows, tokens)
      <4>1. Close(p)
        BY <1>4 DEF InstallCreates
      <4>2. QED
        BY <2>1, <4>1, CloseGood
    <3>4. QED
      BY <1>4, <2>3, <3>2, <3>3, NewRowTyped DEF InstallCreates
  <2>4. QED
    BY <2>2, <2>3
<1>5. QED
  BY <1>2, <1>3, <1>4

\* The re-install and the image update, but for their locks.
LEMMA ParsedTyped ==
  ASSUME Typed, Counted, NEW p \in Requests, req[p].at # "loaded", NEW token \in 0..tokens,
         Parsed(p, token)
  PROVE  RequestsTyped'
<1>1. token \in Nat
  BY DEF Typed, VpsTyped
<1>2. QED
  BY <1>1, CloseTyped, NumberTyped, PlainPlaces DEF Parsed, Plain

LEMMA PinTyped ==
  ASSUME Typed, row' = [row EXCEPT !.pinned = TRUE] PROVE row' \in RowType(rows, tokens)
  BY DEF Typed, DatabaseTyped, RowType

LEMMA ReinstallsTyped ==
  ASSUME Typed, NEW p \in Requests,
         ReinstallLoad(p) \/ ReinstallRan(p) \/ ReinstallPins(p) \/ ReinstallWrites(p)
  PROVE  Typed'
<1>1. rows \in Nat /\ tokens \in Nat /\ row \in RowType(rows, tokens) /\ Good(req[p], rows, tokens)
  BY GoodNow DEF Typed, DatabaseTyped, VpsTyped
<1>2. CASE ReinstallLoad(p)
  <2>1. RequestsTyped'
    BY <1>2, LoadTyped DEF ReinstallLoad, Ready, Counted, database, vps
  <2>2. QED
    BY <1>2, <2>1, RequestsAlone DEF ReinstallLoad
<1>3. CASE ReinstallRan(p)
  <2>1. /\ script' \in [Requests -> ScriptType(tokens)] /\ script[p].token \in 0..tokens
        /\ req[p].at = "running" /\ UNCHANGED <<box, tokens, upd, latest>>
    BY <1>3, RanTyped DEF ReinstallRan
  <2>2. script[p].token \in Nat /\ Counted
    BY <1>1, <1>3, <2>1 DEF ReinstallRan, Counted, database
  <2>3. RequestsTyped'
    BY <1>3, <2>1, <2>2, ParsedTyped, NumberTyped, PlainPlaces DEF ReinstallRan, Plain
  <2>4. QED
    BY <1>3, <2>1, <2>3, ScriptAsWell DEF ReinstallRan
<1>4. CASE ReinstallPins(p)
  <2>1. req[p].n \in 0..tokens /\ req[p].at # "loaded" /\ Counted
    BY <1>1, <1>4 DEF ReinstallPins, At, Good, Sane, Counted, vps
  <2>2. RequestsTyped'
    BY <1>4, <2>1, ParsedTyped, CloseTyped DEF ReinstallPins
  <2>3. row' \in RowType(rows, tokens)
    BY <1>1, <1>4, PinTyped DEF ReinstallPins
  <2>4. QED
    BY <1>4, <2>2, <2>3, RowAsWell DEF ReinstallPins
<1>5. CASE ReinstallWrites(p)
  <2>1. req[p].n \in 0..tokens /\ req[p].at # "loaded" /\ Counted
    BY <1>1, <1>5 DEF ReinstallWrites, At, Good, Sane, Counted, vps
  <2>2. RequestsTyped'
    BY <1>5, <2>1, CloseTyped DEF ReinstallWrites
  <2>3. row' \in RowType(rows, tokens)
    BY <1>1, <1>5, <2>1 DEF ReinstallWrites, RowType, Statuses
  <2>4. QED
    BY <1>5, <2>2, <2>3, RowAsWell DEF ReinstallWrites
<1>6. QED
  BY <1>2, <1>3, <1>4, <1>5

LEMMA InspectedTyped ==
  ASSUME Typed, Counted, NEW p \in Requests, req[p].at # "loaded", Inspected(p) PROVE RequestsTyped'
  BY CloseTyped, GotoTyped, PlainPlaces DEF Inspected, Plain

LEMMA UpdatesTyped ==
  ASSUME Typed, NEW p \in Requests,
         \/ UpdateLoad(p) \/ UpdateInspects(p) \/ UpdatePins(p) \/ UpdateRan(p)
         \/ UpdateHealth(p) \/ UpdateWrites(p)
  PROVE  Typed'
<1>1. rows \in Nat /\ tokens \in Nat /\ row \in RowType(rows, tokens) /\ Good(req[p], rows, tokens)
  BY GoodNow DEF Typed, DatabaseTyped, VpsTyped
<1>2. CASE UpdateLoad(p)
  <2>1. RequestsTyped'
    BY <1>2, LoadsTyped DEF UpdateLoad, Ready, Counted, database, vps
  <2>2. QED
    BY <1>2, <2>1, RequestsAlone DEF UpdateLoad
<1>3. CASE UpdateInspects(p)
  <2>1. req[p].at # "loaded" /\ Counted
    BY <1>3 DEF UpdateInspects, At, Counted, database, vps
  <2>2. RequestsTyped'
    BY <1>3, <2>1, InspectedTyped, GotoTyped, PlainPlaces DEF UpdateInspects, Plain
  <2>3. QED
    BY <1>3, <2>2, RequestsAlone DEF UpdateInspects
<1>4. CASE UpdatePins(p)
  <2>1. req[p].at # "loaded" /\ Counted
    BY <1>4 DEF UpdatePins, At, Counted, vps
  <2>2. RequestsTyped'
    BY <1>4, <2>1, InspectedTyped, CloseTyped DEF UpdatePins
  <2>3. row' \in RowType(rows, tokens)
    BY <1>1, <1>4, PinTyped DEF UpdatePins
  <2>4. QED
    BY <1>4, <2>2, <2>3, RowAsWell DEF UpdatePins
<1>5. CASE UpdateRan(p)
  <2>1. /\ script' \in [Requests -> ScriptType(tokens)] /\ req[p].at = "running"
        /\ UNCHANGED <<box, tokens, upd, latest>>
    BY <1>5, RanTyped DEF UpdateRan
  <2>2. Counted
    BY <1>5, <2>1 DEF UpdateRan, Counted, database
  <2>3. CASE Close(p)
    BY <1>5, <2>1, <2>2, <2>3, CloseTyped, ScriptAsWell DEF UpdateRan
  <2>4. CASE Become(p, [req[p] EXCEPT !.at = IF req[p].row.url THEN "health" ELSE "writing"])
    <3>1. RequestsTyped'
      BY <2>1, <2>2, <2>4, GotoTyped, PlainPlaces DEF Goto, Plain
    <3>2. QED
      BY <1>5, <2>1, <3>1, ScriptAsWell DEF UpdateRan
  <2>5. QED
    BY <1>5, <2>3, <2>4 DEF UpdateRan
<1>6. CASE UpdateHealth(p)
  <2>1. /\ req[p].at = "health" /\ req[p].kind = "update" /\ Counted
        /\ req[p].n \in Nat /\ req[p].n + 1 \in Nat
    BY <1>1, <1>6 DEF UpdateHealth, At, Counted, database, vps, Good, ReqType
  <2>2. ASSUME Become(p, [req[p] EXCEPT !.at = "writing", !.n = 0, !.val = "online"])
        PROVE  RequestsTyped'
    BY <2>1, <2>2, StatusTyped DEF Places, Statuses
  <2>3. ASSUME Become(p, [req[p] EXCEPT !.n = @ + 1]) PROVE RequestsTyped'
    <3>1. PICK r : /\ Become(p, r) /\ r = [req[p] EXCEPT !.n = req[p].n + 1]
      BY <2>3
    <3>2. r \in ReqType(rows, tokens) /\ Sane(r, tokens)
      BY <1>1, <2>1, <3>1 DEF Good, ReqType, Sane
    <3>3. QED
      BY <1>1, <2>1, <3>1, <3>2, BecomeTyped DEF Typed, Counted, Good
  <2>4. ASSUME Become(p, [req[p] EXCEPT !.at = "writing", !.n = 0]) PROVE RequestsTyped'
    BY <1>1, <2>1, <2>4, NumberTyped, PlainPlaces DEF Plain
  <2>5. RequestsTyped'
    BY <1>6, <2>2, <2>3, <2>4 DEF UpdateHealth
  <2>6. QED
    BY <1>6, <2>5, RequestsAlone DEF UpdateHealth
<1>7. CASE UpdateWrites(p)
  <2>1. req[p].at # "loaded" /\ Counted
    BY <1>7 DEF UpdateWrites, At, Counted, vps
  <2>2. RequestsTyped'
    BY <1>7, <2>1, CloseTyped DEF UpdateWrites
  <2>3. row' \in RowType(rows, tokens)
    BY <1>1, <1>7, StatusWritten DEF UpdateWrites, Statuses
  <2>4. QED
    BY <1>7, <2>2, <2>3, RowAsWell DEF UpdateWrites
<1>8. QED
  BY <1>2, <1>3, <1>4, <1>5, <1>6, <1>7

\* A lock gives the operation its user; one that is refused is over.
LEMMA LocksTyped ==
  ASSUME Typed, NEW p \in Requests,
         ReinstallLock(p) \/ UpdateLock(p) \/ SelfLock(p) \/ LockRefused(p)
  PROVE  Typed'
<1>1. rows \in Nat /\ tokens \in Nat /\ Good(req[p], rows, tokens) /\ UNCHANGED <<database, vps, restarts>>
  BY GoodNow DEF Typed, DatabaseTyped, VpsTyped, ReinstallLock, UpdateLock, SelfLock, LockRefused
<1>2. Counted
  BY <1>1 DEF Counted, database, vps
<1>3. CASE LockRefused(p)
  BY <1>1, <1>2, <1>3, EndTyped, RequestsAlone DEF LockRefused
<1>4. CASE ~LockRefused(p)
  <2>1. PICK a \in Actors, at \in {"ssh", "inspect", "probing"} :
          Become(p, [req[p] EXCEPT !.at = at, !.actor = a])
    BY <1>4 DEF ReinstallLock, UpdateLock, SelfLock, Lock
  <2>2. PICK r : Become(p, r) /\ r = [req[p] EXCEPT !.at = at, !.actor = a]
    BY <2>1
  <2>3. r \in ReqType(rows, tokens)
    BY <1>1, <2>1, <2>2 DEF Good, ReqType, Places
  <2>4. Sane(r, tokens)
    BY <1>1, <2>1, <2>2 DEF Good, ReqType, Sane
  <2>5. QED
    BY <1>1, <1>2, <2>2, <2>3, <2>4, BecomeTyped, RequestsAlone DEF Typed, Counted, Good
<1>5. QED
  BY <1>3, <1>4

\* A self-update that was accepted, with the revisions it expects.
LEMMA AcceptedTyped ==
  ASSUME Typed, Counted, NEW p \in Requests, req[p].at # "loaded", req[p].kind = "self",
         NEW target \in Revisions \cup {"none"}, NEW prev \in Revisions \cup {"none"},
         NEW r, r = [req[p] EXCEPT !.at = "polling", !.target = target, !.prev = prev], Become(p, r)
  PROVE  RequestsTyped'
<1>1. Good(req[p], rows, tokens) /\ rows \in Nat /\ tokens \in Nat
  BY GoodNow DEF Typed, DatabaseTyped, VpsTyped
<1>2. r \in ReqType(rows, tokens)
  BY <1>1 DEF Good, ReqType, Places
<1>3. Sane(r, tokens)
  BY <1>1 DEF Good, ReqType, Sane
<1>4. QED
  BY <1>1, <1>2, <1>3, BecomeTyped DEF Typed, Counted, Good

\* One nobody answered.
LEMMA TimeoutTyped ==
  ASSUME Typed, Counted, NEW p \in Requests, req[p].at # "loaded", req[p].kind = "self",
         NEW r, r = [req[p] EXCEPT !.at = "record", !.flag = TRUE, !.target = "none"], Become(p, r)
  PROVE  RequestsTyped'
<1>1. Good(req[p], rows, tokens) /\ rows \in Nat /\ tokens \in Nat
  BY GoodNow DEF Typed, DatabaseTyped, VpsTyped
<1>2. r \in ReqType(rows, tokens)
  BY <1>1 DEF Good, ReqType, Places
<1>3. Sane(r, tokens)
  BY <1>1 DEF Good, ReqType, Sane
<1>4. QED
  BY <1>1, <1>2, <1>3, BecomeTyped DEF Typed, Counted, Good

\* One that a poll settles.
LEMMA SettledTyped ==
  ASSUME Typed, Counted, NEW p \in Requests, req[p].at # "loaded", req[p].kind = "self",
         NEW r, r = [req[p] EXCEPT !.at = "success", !.n = 0, !.val = "none"], Become(p, r)
  PROVE  RequestsTyped'
<1>1. Good(req[p], rows, tokens) /\ rows \in Nat /\ tokens \in Nat
  BY GoodNow DEF Typed, DatabaseTyped, VpsTyped
<1>2. r \in ReqType(rows, tokens)
  BY <1>1 DEF Good, ReqType, Places
<1>3. Sane(r, tokens)
  BY <1>1 DEF Good, ReqType, Sane
<1>4. QED
  BY <1>1, <1>2, <1>3, BecomeTyped DEF Typed, Counted, Good

\* What the record said, or that it is to be read.
LEMMA VerdictTyped ==
  ASSUME Typed, Counted, NEW p \in Requests, req[p].at # "loaded", req[p].kind = "self",
         NEW at \in {"success", "failed", "record"}, NEW val \in {"record", "none"},
         NEW r, r = [req[p] EXCEPT !.at = at, !.val = val], Become(p, r)
  PROVE  RequestsTyped'
<1>1. Good(req[p], rows, tokens) /\ rows \in Nat /\ tokens \in Nat
  BY GoodNow DEF Typed, DatabaseTyped, VpsTyped
<1>2. r \in ReqType(rows, tokens)
  BY <1>1 DEF Good, ReqType, Places
<1>3. Sane(r, tokens)
  BY <1>1 DEF Good, ReqType, Sane
<1>4. QED
  BY <1>1, <1>2, <1>3, BecomeTyped DEF Typed, Counted, Good

\* One more poll.
LEMMA CountTyped ==
  ASSUME Typed, Counted, NEW p \in Requests, req[p].at # "loaded", req[p].kind = "self",
         NEW r, r = [req[p] EXCEPT !.n = @ + 1], Become(p, r)
  PROVE  RequestsTyped'
<1>1. Good(req[p], rows, tokens) /\ rows \in Nat /\ tokens \in Nat
  BY GoodNow DEF Typed, DatabaseTyped, VpsTyped
<1>2. r \in ReqType(rows, tokens)
  BY <1>1 DEF Good, ReqType
<1>3. Sane(r, tokens)
  BY <1>1 DEF Good, ReqType, Sane
<1>4. QED
  BY <1>1, <1>2, <1>3, BecomeTyped DEF Typed, Counted, Good

LEMMA SelfUpdatesTyped ==
  ASSUME Typed, NEW p \in Requests,
         \/ SelfLoad(p) \/ SelfProbes(p) \/ SelfUnreachable(p) \/ SelfRefused(p) \/ SelfTriggers(p)
         \/ SelfPullFailed(p) \/ SelfAccepted(p) \/ SelfTimesOut(p) \/ SelfPolls(p) \/ SelfReads(p)
         \/ SelfAnswers(p) \/ SelfWrites(p)
  PROVE  Typed'
<1>1. /\ rows \in Nat /\ tokens \in Nat /\ row \in RowType(rows, tokens) /\ Good(req[p], rows, tokens)
      /\ upd \in UpdateType /\ box \in BoxType(tokens) /\ latest \in Revisions
  BY GoodNow DEF Typed, DatabaseTyped, VpsTyped
<1>2. /\ req[p].val \in Statuses \cup {"none", "record"} /\ req[p].prev \in Revisions \cup {"none"}
      /\ box.rev \in Revisions \cup {"none"}
      /\ upd.target \in Revisions \cup {"none"} /\ upd.prev \in Revisions \cup {"none"}
  BY <1>1 DEF Good, ReqType, BoxType, UpdateType
<1>3. ASSUME ~SelfTriggers(p), ~SelfWrites(p) PROVE UNCHANGED <<database, vps, restarts>> /\ Counted
  BY <1>3 DEF SelfLoad, SelfProbes, SelfUnreachable, SelfRefused, SelfPullFailed, SelfAccepted,
     SelfTimesOut, SelfPolls, SelfReads, SelfAnswers, Counted, database, vps
<1>4. ASSUME Counted, ~SelfTriggers(p), ~SelfWrites(p) PROVE RequestsTyped'
  <2>1. CASE SelfLoad(p)
    BY <1>4, <2>1, LoadsTyped DEF SelfLoad, Ready
  <2>2. CASE SelfProbes(p)
    <3>1. PICK status \in Statuses, prev \in Revisions \cup {"none"} :
            Become(p, [req[p] EXCEPT !.at = "trigger", !.val = status, !.prev = prev])
      BY <1>2, <2>2, HealthIsStatus DEF SelfProbes
    <3>2. QED
      BY <1>4, <2>2, <3>1, StatusTyped DEF SelfProbes, At, Places
  <2>3. CASE SelfUnreachable(p)
    <3>1. req[p].at = "trigger" /\ req[p].val \in Statuses
      BY <1>1, <2>3 DEF SelfUnreachable, At, Good, Sane
    <3>2. PICK status \in Statuses : Become(p, [req[p] EXCEPT !.at = "failing", !.val = status])
      BY <2>3, <3>1 DEF SelfUnreachable, Reports, Statuses
    <3>3. QED
      BY <1>4, <3>1, <3>2, StatusTyped DEF Places
  <2>4. CASE SelfRefused(p) \/ SelfPullFailed(p) \/ SelfAnswers(p)
    BY <1>4, <2>4, CloseTyped DEF SelfRefused, SelfPullFailed, SelfAnswers, At
  <2>5. CASE SelfAccepted(p)
    <3>1. PICK target \in Revisions \cup {"none"}, prev \in Revisions \cup {"none"} :
            Become(p, [req[p] EXCEPT !.at = "polling", !.target = target, !.prev = prev])
      BY <1>1, <1>2, <2>5 DEF SelfAccepted
    <3>2. QED
      BY <1>4, <2>5, <3>1, AcceptedTyped DEF SelfAccepted, At
  <2>6. CASE SelfTimesOut(p)
    BY <1>4, <2>6, TimeoutTyped DEF SelfTimesOut
  <2>7. CASE SelfPolls(p)
    <3>1. req[p].at = "polling" /\ req[p].kind = "self"
      BY <2>7 DEF SelfPolls, At
    <3>2. PICK r : /\ Become(p, r)
                   /\ \/ r = [req[p] EXCEPT !.at = "success", !.n = 0, !.val = "none"]
                      \/ r = [req[p] EXCEPT !.n = @ + 1]
                      \/ \E status \in Statuses :
                           r = [req[p] EXCEPT !.at = "unsettled", !.n = 0, !.val = status]
      BY <2>7, HealthIsStatus DEF SelfPolls
    <3>3. CASE \E status \in Statuses : r = [req[p] EXCEPT !.at = "unsettled", !.n = 0, !.val = status]
      BY <1>4, <3>1, <3>2, <3>3, StatusTyped DEF Places
    <3>4. QED
      BY <1>4, <3>1, <3>2, <3>3, SettledTyped, CountTyped
  <2>8. CASE SelfReads(p)
    <3>1. PICK at \in {"success", "failed"}, val \in {"record", "none"} :
            Become(p, [req[p] EXCEPT !.at = at, !.val = val])
      BY <2>8 DEF SelfReads
    <3>2. QED
      BY <1>4, <2>8, <3>1, VerdictTyped DEF SelfReads, At
  <2>9. QED
    BY <1>4, <2>1, <2>2, <2>3, <2>4, <2>5, <2>6, <2>7, <2>8
<1>5. CASE SelfTriggers(p)
  <2>1. RequestsTyped'
    BY <1>5, GotoTyped, PlainPlaces DEF SelfTriggers, At, Counted, database, Plain
  <2>2. upd' \in UpdateType
    BY <1>1, <1>5 DEF SelfTriggers, UpdateType, UpdatePhases
  <2>3. QED
    BY <1>5, <2>1, <2>2 DEF SelfTriggers, Typed, DatabaseTyped, VpsTyped, database
<1>6. CASE SelfWrites(p)
  <2>1. /\ req[p].at \notin {"loaded", "success"} => req[p].val \in Statuses
        /\ req[p].at # "loaded" /\ req[p].kind = "self" /\ Counted
    BY <1>1, <1>6 DEF SelfWrites, Good, Sane, Counted, vps
  <2>2. RequestsTyped'
    <3>1. CASE Close(p)
      BY <2>1, <3>1, CloseTyped
    <3>2. CASE Become(p, [req[p] EXCEPT !.at = "record", !.val = "none"])
      BY <2>1, <3>2, VerdictTyped
    <3>3. QED
      BY <1>6, <3>1, <3>2 DEF SelfWrites
  <2>3. row' \in RowType(rows, tokens)
    BY <1>1, <1>6, <2>1, StatusWritten DEF SelfWrites, Statuses
  <2>4. QED
    BY <1>6, <2>2, <2>3, RowAsWell DEF SelfWrites
<1>7. QED
  BY <1>3, <1>4, <1>5, <1>6, RequestsAlone

\* A command's result.
LEMMA ScriptEndsTyped ==
  ASSUME Typed, NEW p \in Requests, NEW result \in {"ok", "failed"}, ScriptEnds(p, result),
         NEW t \in Nat, tokens <= t, box'.token \in 0..t
  PROVE  script' \in [Requests -> ScriptType(t)]
<1>1. /\ 0..tokens \subseteq 0..t /\ 0 \in 0..t
      /\ script = [q \in Requests |-> script[q]]
      /\ \A q \in Requests : script[q] \in ScriptType(tokens)
  BY DEF Typed, VpsTyped
<1>2. \A q \in Requests : script[q] \in ScriptType(t)
  BY <1>1 DEF ScriptType
<1>3. script \in [Requests -> ScriptType(t)]
  BY <1>1, <1>2
<1>4. ASSUME NEW o \in ScriptType(t), NEW token \in 0..t
      PROVE  [o EXCEPT !.at = result, !.token = token] \in ScriptType(t)
  BY <1>4 DEF ScriptType, ScriptStages
<1>5. PICK s \in ScriptType(t) : script' = [script EXCEPT ![p] = s]
  BY <1>1, <1>3, <1>4, NoScriptTyped DEF ScriptEnds
<1>6. QED
  BY <1>3, <1>5

\* The VPS by itself.
LEMMA VpsStepTyped ==
  ASSUME Typed, Relay \/ \E p \in Requests : Script(p) PROVE Typed'
<1>1. /\ tokens \in Nat /\ box \in BoxType(tokens) /\ upd \in UpdateType /\ latest \in Revisions
      /\ script \in [Requests -> ScriptType(tokens)]
      /\ 0 \in 0..tokens
  BY DEF Typed, VpsTyped
<1>2. UNCHANGED <<database, locks, req, restarts>>
  BY DEF Relay, RelayPulled, RelayPullFails, RelayRecreates, RelayFinishes, ImagePublished,
         Script, ScriptWipes, ScriptStops, ScriptStarts, ScriptFails
<1>3. ASSUME VpsTyped', tokens' \in Nat, tokens <= tokens' PROVE Typed'
  <2>1. rows \in Nat /\ UNCHANGED rows
    BY <1>2 DEF Typed, DatabaseTyped, database
  <2>2. \A q \in Requests : Good(req[q], rows, tokens')
    BY <1>1, <1>3, <2>1, GoodNow, GoodGrows
  <2>3. 0..tokens \subseteq 0..tokens'
    BY <1>1, <1>3
  <2>4. row \in RowType(rows, tokens')
    BY <2>3 DEF Typed, DatabaseTyped, RowType
  <2>5. QED
    BY <1>2, <1>3, <2>1, <2>2, <2>4 DEF Typed, RequestsTyped, DatabaseTyped, database
<1>4. CASE Relay
  <2>1. upd.by \in Requests \cup {"none"} /\ box.rev \in Revisions \cup {"none"}
        /\ upd.target \in Revisions \cup {"none"}
    BY <1>1 DEF UpdateType, BoxType
  <2>2. UNCHANGED <<tokens, script>>
    BY <1>4 DEF Relay, RelayPulled, RelayPullFails, RelayRecreates, RelayFinishes, ImagePublished
  <2>3. CASE RelayPulled
    <3>1. upd' \in UpdateType
      BY <1>1, <2>1, <2>3 DEF RelayPulled, UpdateType, UpdatePhases, RecordStates
    <3>2. QED
      BY <1>1, <1>3, <2>2, <2>3, <3>1 DEF RelayPulled, VpsTyped
  <2>4. CASE RelayPullFails
    <3>1. upd' \in UpdateType
      BY <1>1, <2>4 DEF RelayPullFails, UpdateType, UpdatePhases
    <3>2. QED
      BY <1>1, <1>3, <2>2, <2>4, <3>1 DEF RelayPullFails, VpsTyped
  <2>5. CASE RelayRecreates
    <3>1. upd' \in UpdateType /\ box' \in BoxType(tokens)
      BY <1>1, <2>5 DEF RelayRecreates, UpdateType, UpdatePhases, BoxType
    <3>2. QED
      BY <1>1, <1>3, <2>2, <2>5, <3>1 DEF RelayRecreates, VpsTyped
  <2>6. CASE RelayFinishes
    <3>1. PICK state \in RecordStates, up \in BOOLEAN, rev \in Revisions \cup {"none"} :
            /\ upd' = [upd EXCEPT !.phase = "idle", !.by = "none", !.state = state]
            /\ box' = [box EXCEPT !.up = up, !.rev = rev]
      BY <2>1, <2>6 DEF RelayFinishes, RecordStates
    <3>2. upd' \in UpdateType
      BY <1>1, <3>1 DEF UpdateType, UpdatePhases
    <3>3. box' \in BoxType(tokens)
      BY <1>1, <3>1 DEF BoxType
    <3>4. QED
      BY <1>1, <1>3, <2>2, <2>6, <3>2, <3>3 DEF RelayFinishes, VpsTyped
  <2>7. CASE ImagePublished
    BY <1>1, <1>3, <2>2, <2>7 DEF ImagePublished, VpsTyped, Revisions
  <2>8. QED
    BY <1>4, <2>3, <2>4, <2>5, <2>6, <2>7 DEF Relay
<1>5. ASSUME NEW p \in Requests, Script(p) PROVE Typed'
  <2>1. UNCHANGED <<upd, latest>>
    BY <1>5 DEF Script, ScriptWipes, ScriptStops, ScriptStarts, ScriptFails
  <2>2. CASE ScriptWipes(p) \/ ScriptStops(p)
    <3>1. box' \in BoxType(tokens) /\ tokens' = tokens
      BY <1>1, <2>2 DEF ScriptWipes, ScriptStops, BoxType
    <3>2. script[p] \in ScriptType(tokens)
      BY <1>1
    <3>3. ASSUME NEW at \in ScriptStages, script' = [script EXCEPT ![p].at = at]
          PROVE  script' \in [Requests -> ScriptType(tokens)]
      BY <1>1, <3>2, <3>3 DEF ScriptType
    <3>4. script' \in [Requests -> ScriptType(tokens)]
      BY <2>2, <3>3 DEF ScriptWipes, ScriptStops, ScriptStages
    <3>5. QED
      BY <1>1, <1>3, <2>1, <3>1, <3>4 DEF VpsTyped
  <2>3. CASE ScriptFails(p)
    <3>1. box.token \in 0..tokens /\ UNCHANGED <<box, tokens>>
      BY <1>1, <2>3 DEF ScriptFails, BoxType
    <3>2. script' \in [Requests -> ScriptType(tokens)]
      BY <1>1, <2>3, <3>1, ScriptEndsTyped DEF ScriptFails
    <3>3. QED
      BY <1>1, <1>3, <2>1, <3>1, <3>2 DEF VpsTyped
  <2>4. CASE ScriptStarts(p)
    <3>0. box.env \in 0..tokens
      BY <1>1 DEF BoxType
    <3>1. PICK token \in 0..tokens' :
            /\ tokens' \in Nat /\ tokens <= tokens'
            /\ box' = [env |-> token, token |-> token, rev |-> latest, up |-> TRUE]
      <4>1. CASE box.env = 0
        <5>1. tokens' = tokens + 1 /\ tokens + 1 \in 0..tokens' /\ tokens <= tokens'
          BY <1>1, <2>4, <4>1 DEF ScriptStarts
        <5>2. box' = [env |-> tokens + 1, token |-> tokens + 1, rev |-> latest, up |-> TRUE]
          BY <2>4, <4>1 DEF ScriptStarts
        <5>3. tokens' \in Nat
          BY <1>1, <5>1
        <5>4. QED
          BY <5>1, <5>2, <5>3, Zenon
      <4>2. CASE box.env # 0
        <5>1. tokens' = tokens /\ tokens <= tokens'
          BY <1>1, <2>4, <4>2 DEF ScriptStarts
        <5>2. box' = [env |-> box.env, token |-> box.env, rev |-> latest, up |-> TRUE]
          BY <2>4, <4>2 DEF ScriptStarts
        <5>3. tokens' \in Nat /\ box.env \in 0..tokens'
          BY <1>1, <3>0, <5>1
        <5>4. QED
          BY <5>1, <5>2, <5>3, Zenon
      <4>3. QED
        BY <4>1, <4>2
    <3>2. box' \in BoxType(tokens')
      BY <1>1, <3>1 DEF BoxType
    <3>3. script' \in [Requests -> ScriptType(tokens')]
      BY <2>4, <3>1, ScriptEndsTyped DEF ScriptStarts
    <3>4. QED
      BY <1>1, <1>3, <2>1, <3>1, <3>2, <3>3 DEF VpsTyped
  <2>5. QED
    BY <1>5, <2>2, <2>3, <2>4 DEF Script
<1>6. QED
  BY <1>4, <1>5

\* A restart.
LEMMA RestartTyped == ASSUME Typed, Restart PROVE Typed'
<1>1. rows \in Nat /\ tokens \in Nat /\ restarts + 1 \in 0..MaxRestarts
  BY ServerConstants DEF Restart, Typed, DatabaseTyped, VpsTyped
<1>2. RequestsTyped'
  BY <1>1, BlankTyped DEF Restart, RequestsTyped, database
<1>3. script' \in [Requests -> ScriptType(tokens)]
  BY <1>1, NoScriptTyped DEF Restart, Typed, VpsTyped
<1>4. QED
  BY <1>1, <1>2, <1>3 DEF Restart, Typed, DatabaseTyped, VpsTyped, database

\* At first.
LEMMA InitTyped == Init => Typed
<1> SUFFICES ASSUME Init PROVE Typed
  OBVIOUS
<1>0. \/ row = NoRow
      \/ \E url \in BOOLEAN, token \in {0, 1} :
           row = [NoRow EXCEPT !.id = 1, !.url = url, !.token = token]
  BY DEF Init
<1>1. rows \in 0..1 /\ tokens = 1 /\ restarts = 0 /\ row \in RowType(rows, tokens)
  <2>1. /\ NoRow \in RowType(0, 1) /\ NoRow \in RowType(1, 1) /\ NoRow.id = 0
        /\ 0 \in 0..1 /\ 1 \in 0..1
    BY BlankTyped DEF NoRow
  <2>2. tokens = 1 /\ restarts = 0 /\ rows = row.id
    BY DEF Init
  <2>3. CASE row = NoRow
    BY <2>1, <2>2, <2>3
  <2>4. ASSUME NEW url \in BOOLEAN, NEW token \in {0, 1},
               row = [NoRow EXCEPT !.id = 1, !.url = url, !.token = token]
        PROVE  rows = 1 /\ row \in RowType(1, 1)
    BY <2>1, <2>2, <2>4 DEF RowType
  <2>5. QED
    BY <1>0, <2>1, <2>2, <2>3, <2>4
<1>2. RequestsTyped
  BY <1>1, BlankTyped DEF Init, RequestsTyped
<1>4. box \in BoxType(1)
  <2>0. 0 \in 0..1 /\ 1 \in 0..1
    OBVIOUS
  <2>1. CASE box = [env |-> 0, token |-> 0, rev |-> "none", up |-> FALSE]
    BY <2>0, <2>1 DEF BoxType
  <2>2. ASSUME NEW r \in {"old", "none"}, box = [env |-> 1, token |-> 1, rev |-> r, up |-> TRUE]
        PROVE  box \in BoxType(1)
    BY <2>0, <2>2 DEF BoxType, Revisions
  <2>3. QED
    BY <2>1, <2>2 DEF Init
<1>5. upd \in UpdateType
  BY DEF Init, NoUpdate, UpdateType, UpdatePhases, RecordStates
<1>6. script \in [Requests -> ScriptType(1)]
  BY NoScriptTyped DEF Init
<1>7. QED
  BY <1>1, <1>2, <1>4, <1>5, <1>6, ServerConstants
     DEF Init, Typed, DatabaseTyped, VpsTyped, Revisions

\* Every step.
LEMMA RequestStepTyped ==
  ASSUME Typed, NEW p \in Requests, Arrive(p) \/ Serve(p) PROVE Typed'
<1>1. CASE Arrive(p)
  BY <1>1, ProbesTyped, EditsTyped, InstallsTyped, ReinstallsTyped, UpdatesTyped, SelfUpdatesTyped
     DEF Arrive, Probe
<1>2. CASE Serve(p)
  BY <1>2, ProbesTyped, SshTyped, InstallsTyped, ReinstallsTyped, UpdatesTyped, SelfUpdatesTyped,
     LocksTyped DEF Serve, Probe
<1>3. QED
  BY <1>1, <1>2

THEOREM ServerTypes == Spec => [](LockInv /\ Typed)
<1>1. ASSUME Typed, [Next]_vars PROVE Typed'
  <2>1. CASE UNCHANGED vars
    BY <1>1, <2>1 DEF vars, Typed, RequestsTyped, DatabaseTyped, VpsTyped
  <2>2. QED
    BY <1>1, <2>1, RequestStepTyped, VpsStepTyped, RestartTyped DEF Next
<1>2. QED
  BY <1>1, InitTyped, RegistryInductive, PTL DEF Spec

\* What the variables hold (ServerState, from the Server row, active-installs.ts and the
\* relay), the registry's keys being those of the operations in flight.
THEOREM ServerTypeOK == Spec => []TypeOK
<1>1. ASSUME LockInv, Typed PROVE TypeOK
  <2>1. req \in [Requests -> ReqType(rows, tokens)]
    BY <1>1 DEF Typed, RequestsTyped, Good
  <2>2. ASSUME NEW k \in locks
        PROVE  \E op \in Operations, i \in 0..rows, a \in Actors : k \in KeysOf(op, i, a)
    <3>1. PICK q \in Requests : Holds(q) /\ k \in KeysOf(req[q].kind, req[q].row.id, req[q].actor)
      BY <1>1, <2>2 DEF LockInv, Exact, Keys
    <3>2. req[q].kind \in Operations /\ req[q].actor \in Actors
      BY <1>1, <3>1, GoodNow DEF Holds, Good, Sane
    <3>3. req[q].row.id \in 0..rows
      BY <2>1 DEF ReqType, RowType
    <3>4. QED
      BY <3>1, <3>2, <3>3
  <2>3. req \in [Requests -> [kind : Kinds \cup {"none"}, at : Places, actor : Actors \cup {"none"},
                  row : Rows, flag : BOOLEAN, val : Statuses \cup {"none", "record"},
                  prev : Revisions \cup {"none"}, target : Revisions \cup {"none"}, n : Nat,
                  past : Requests \cup {"none", "edited"}]]
    BY <2>1 DEF ReqType, RowType, Rows, Tokens
  <2>4. script \in [Requests -> [at : ScriptStages \cup {"none"}, op : {"none", "install", "docker"},
                                 token : Tokens]]
    BY <1>1 DEF Typed, VpsTyped, ScriptType, Tokens
  <2>5. /\ rows \in Nat /\ tokens \in Nat /\ restarts \in 0..MaxRestarts
        /\ row \in Rows /\ latest \in Revisions
        /\ box \in [env : Tokens, token : Tokens, rev : Revisions \cup {"none"}, up : BOOLEAN]
    BY <1>1 DEF Typed, DatabaseTyped, VpsTyped, RowType, BoxType, Rows, Tokens
  <2>6. upd \in [phase : UpdatePhases, by : Requests \cup {"none"}, state : RecordStates,
                 owner : Requests \cup {"none"}, prev : Revisions \cup {"none"},
                 target : Revisions \cup {"none"}]
    BY <1>1 DEF Typed, VpsTyped, UpdateType
  <2>7. QED
    BY <2>2, <2>3, <2>4, <2>5, <2>6 DEF TypeOK
<1>2. QED
  BY <1>1, ServerTypes, PTL

-----------------------------------------------------------------------------
(* The token of a re-install.  Tokens are numbered as they are generated,   *)
(* and the relay's .env holds the last one or none: what an installer       *)
(* prints is no older than what the row held when it ended, and the row is  *)
(* the operation's own until it writes, unless somebody edits it.           *)

Issued == box.env \in {0, tokens}

Current(q) ==
  LET r == req[q] IN
  /\ r.kind = "reinstall" /\ r.at = "writing" => r.n # 0
  /\ r.kind = "reinstall" /\ r.past # "edited" /\ r.row.id = row.id =>
       /\ r.at = "running" /\ script[q].at = "ok" => row.token <= script[q].token
       /\ r.at \in {"pinning", "writing"} /\ r.n # 0 => row.token <= r.n

\* A command that did not succeed has printed nothing.
Printed(q) == script[q].at # "ok" => script[q].token = 0

TokenInv == Issued /\ \A q \in Requests : Current(q) /\ Printed(q)

\* How a request may change the row's id and token.
LEMMA RowSteps ==
  ASSUME Typed, NEW p \in Requests, Arrive(p) \/ Serve(p)
  PROVE  \/ row'.id = row.id /\ row'.token = row.token
         \/ row'.id = row.id /\ (PatchServer(p) \/ ReinstallWrites(p))
         \/ row'.id = rows + 1
         \/ row'.id = 0 /\ row'.token = 0
<1>0. row \in RowType(rows, tokens)
  BY DEF Typed, DatabaseTyped
<1>1. ASSUME NEW status, WriteStatus(status) PROVE row'.id = row.id /\ row'.token = row.token
  BY <1>0, <1>1 DEF WriteStatus, RowType
<1>2. CASE row' = row
  BY <1>2
<1>3. ASSUME row' = [row EXCEPT !.pinned = TRUE] PROVE row'.id = row.id /\ row'.token = row.token
  BY <1>0, <1>3 DEF RowType
<1>4. CASE CreateServer(p)
  BY <1>4 DEF CreateServer, NoRow
<1>5. CASE DeleteServer(p)
  BY <1>5 DEF DeleteServer, NoRow
<1>6. CASE PatchServer(p)
  BY <1>0, <1>6 DEF PatchServer, RowType
<1>7. CASE ReinstallWrites(p)
  BY <1>0, <1>7 DEF ReinstallWrites, RowType
<1>8. CASE InstallCreates(p)
  BY <1>8 DEF InstallCreates
<1>9. CASE StatusLands(p) \/ UpdateWrites(p) \/ SelfWrites(p)
  BY <1>1, <1>2, <1>9 DEF StatusLands, UpdateWrites, SelfWrites
<1>10. CASE ReinstallPins(p) \/ UpdatePins(p)
  BY <1>2, <1>3, <1>10 DEF ReinstallPins, UpdatePins
<1>11. CASE \/ TestStart(p) \/ TestNoRelay(p) \/ TestSees(p) \/ TestAnswered(p)
            \/ SyncStart(p) \/ SyncSees(p) \/ SyncApps(p) \/ Ssh(p)
            \/ InstallStart(p) \/ InstallParses(p)
  BY <1>2, <1>11 DEF TestStart, TestNoRelay, TestSees, TestAnswered, SyncStart, SyncSees, SyncApps,
     Ssh, SshFails, SshStarts, SshTimesOut, Release, InstallStart, InstallParses, database
<1>12. CASE \/ ReinstallLoad(p) \/ ReinstallLock(p) \/ LockRefused(p) \/ ReinstallRan(p)
            \/ UpdateLoad(p) \/ UpdateLock(p) \/ UpdateInspects(p) \/ UpdateRan(p) \/ UpdateHealth(p)
  BY <1>2, <1>12 DEF ReinstallLoad, ReinstallLock, LockRefused, ReinstallRan, UpdateLoad, UpdateLock,
     UpdateInspects, UpdateRan, UpdateHealth, database
<1>13. CASE \/ SelfLoad(p) \/ SelfLock(p) \/ SelfProbes(p) \/ SelfUnreachable(p) \/ SelfRefused(p)
            \/ SelfTriggers(p) \/ SelfPullFailed(p) \/ SelfAccepted(p) \/ SelfTimesOut(p)
            \/ SelfPolls(p) \/ SelfReads(p) \/ SelfAnswers(p)
  BY <1>2, <1>13 DEF SelfLoad, SelfLock, SelfProbes, SelfUnreachable, SelfRefused, SelfTriggers,
     SelfPullFailed, SelfAccepted, SelfTimesOut, SelfPolls, SelfReads, SelfAnswers, database
<1>14. QED
  BY <1>4, <1>5, <1>6, <1>7, <1>8, <1>9, <1>10, <1>11, <1>12, <1>13 DEF Arrive, Serve, Edit

\* A request touches no command but its own, and never the .env.
LEMMA OwnScript ==
  ASSUME Typed, NEW p \in Requests, Arrive(p) \/ Serve(p)
  PROVE  /\ UNCHANGED <<box, tokens>>
         /\ \A q \in Requests \ {p} : script'[q] = script[q]
         /\ script' # script => SshStarts(p) \/ SshTimesOut(p) \/ \E result : Ran(p, result)
<1>0. script \in [Requests -> ScriptType(tokens)]
  BY DEF Typed, VpsTyped
<1>1. CASE SshStarts(p) \/ SshTimesOut(p)
  BY <1>0, <1>1 DEF SshStarts, SshTimesOut
<1>2. ASSUME NEW result, Ran(p, result)
      PROVE  UNCHANGED <<box, tokens>> /\ \A q \in Requests \ {p} : script'[q] = script[q]
  BY <1>0, <1>2 DEF Ran
<1>3. CASE InstallParses(p) \/ ReinstallRan(p) \/ UpdateRan(p)
  BY <1>2, <1>3 DEF InstallParses, ReinstallRan, UpdateRan
<1>4. CASE UNCHANGED <<box, tokens, script>>
  BY <1>4
<1>5. CASE Probe(p) \/ Edit(p) \/ SshFails(p) \/ Release(p) \/ InstallStart(p) \/ InstallCreates(p)
  BY <1>4, <1>5 DEF Probe, TestStart, TestNoRelay, TestSees, TestAnswered, SyncStart, SyncSees,
     SyncApps, StatusLands, Edit, CreateServer, PatchServer, DeleteServer, SshFails, Release,
     InstallStart, InstallCreates, vps
<1>6. CASE \/ ReinstallLoad(p) \/ ReinstallLock(p) \/ LockRefused(p) \/ ReinstallPins(p)
           \/ ReinstallWrites(p) \/ UpdateLoad(p) \/ UpdateLock(p) \/ UpdateInspects(p)
           \/ UpdatePins(p) \/ UpdateHealth(p) \/ UpdateWrites(p)
  BY <1>4, <1>6 DEF ReinstallLoad, ReinstallLock, LockRefused, ReinstallPins, ReinstallWrites,
     UpdateLoad, UpdateLock, UpdateInspects, UpdatePins, UpdateHealth, UpdateWrites, vps
<1>7. CASE \/ SelfLoad(p) \/ SelfLock(p) \/ SelfProbes(p) \/ SelfUnreachable(p) \/ SelfRefused(p)
           \/ SelfTriggers(p) \/ SelfPullFailed(p) \/ SelfAccepted(p) \/ SelfTimesOut(p)
           \/ SelfPolls(p) \/ SelfReads(p) \/ SelfAnswers(p) \/ SelfWrites(p)
  BY <1>4, <1>7 DEF SelfLoad, SelfLock, SelfProbes, SelfUnreachable, SelfRefused, SelfTriggers,
     SelfPullFailed, SelfAccepted, SelfTimesOut, SelfPolls, SelfReads, SelfAnswers, SelfWrites, vps
<1>8. QED
  BY <1>1, <1>3, <1>5, <1>6, <1>7 DEF Arrive, Serve, Probe, Ssh

\* Where a re-install waits for its command or its writes, it came from there before.
Busy(r) == r.kind = "reinstall" /\ r.at \in {"running", "pinning", "writing"}
LEMMA BusySteps ==
  ASSUME RequestsFit, NEW p \in Requests, Arrive(p) \/ Serve(p), Busy(req'[p])
  PROVE  SshStarts(p) \/ ReinstallRan(p) \/ ReinstallPins(p)
<1>0. req = [s \in Requests |-> req[s]] /\ Fields \subseteq DOMAIN req[p]
  BY DEF RequestsFit, Shaped
<1>1. ASSUME NEW r, Become(p, r), ~Busy(r) PROVE FALSE
  BY <1>0, <1>1 DEF Become
<1>2. ASSUME End(p) \/ Close(p) PROVE FALSE
  BY <1>1, <1>2 DEF End, Close, Ended, NoRequest, Busy
<1>3. ASSUME NEW kind, NEW at \in {"asking", "loaded"}, Loads(p, kind, at) PROVE FALSE
  BY <1>1, <1>3 DEF Loads, NoRequest, Busy
<1>4. ASSUME NEW a, NEW at \in {"ssh", "inspect", "probing"}, Lock(p, a, at) PROVE FALSE
  BY <1>0, <1>1, <1>4 DEF Lock, Fields, Busy
<1>5. ASSUME NEW at, req[p].kind # "reinstall", Goto(p, at) PROVE FALSE
  BY <1>0, <1>1, <1>5 DEF Goto, Fields, Busy
<1>6. ASSUME NEW status, ProbeWrites(p, status) PROVE FALSE
  BY <1>0, <1>1, <1>2, <1>6 DEF ProbeWrites, Fields, Busy
<1>7. CASE Probe(p)
  BY <1>0, <1>1, <1>2, <1>3, <1>6, <1>7 DEF Probe, TestStart, TestNoRelay, TestSees, TestAnswered,
     SyncStart, SyncSees, SyncApps, StatusLands, Fields, Busy
<1>8. CASE Edit(p)
  BY <1>0, <1>2, <1>8 DEF Edit, CreateServer, DeleteServer, PatchServer, Ended, NoRequest, Busy
<1>9. CASE SshFails(p) \/ SshTimesOut(p) \/ Release(p)
  BY <1>2, <1>9 DEF SshFails, SshTimesOut, Release
<1>10. CASE InstallStart(p) \/ InstallParses(p) \/ InstallCreates(p)
  BY <1>0, <1>1, <1>2, <1>10 DEF InstallStart, InstallParses, InstallCreates, NoRequest, Fields, Busy
<1>11. CASE ReinstallLoad(p) \/ ReinstallLock(p) \/ LockRefused(p) \/ ReinstallWrites(p)
  BY <1>1, <1>2, <1>4, <1>11 DEF ReinstallLoad, ReinstallLock, LockRefused, ReinstallWrites,
     NoRequest, Busy
<1>12. CASE UpdateLoad(p) \/ UpdateLock(p) \/ UpdateInspects(p) \/ UpdatePins(p) \/ UpdateWrites(p)
  BY <1>2, <1>3, <1>4, <1>5, <1>12 DEF UpdateLoad, UpdateLock, UpdateInspects, UpdatePins,
     UpdateWrites, Inspected, At
<1>13. CASE UpdateRan(p) \/ UpdateHealth(p)
  <2>1. CASE Close(p)
    BY <1>2, <2>1
  <2>2. CASE ~Close(p)
    <3>1. PICK r : Become(p, r) /\ r.kind = req[p].kind /\ req[p].kind = "update"
      BY <1>0, <1>13, <2>2 DEF UpdateRan, UpdateHealth, At, Fields
    <3>2. QED
      BY <1>1, <3>1 DEF Busy
  <2>3. QED
    BY <2>1, <2>2
<1>14. CASE SelfLoad(p) \/ SelfLock(p) \/ SelfRefused(p) \/ SelfTriggers(p) \/ SelfPullFailed(p) \/ SelfAnswers(p)
  BY <1>2, <1>3, <1>4, <1>5, <1>14 DEF SelfLoad, SelfLock, SelfRefused, SelfTriggers, SelfPullFailed,
     SelfAnswers, At
<1>15. CASE SelfProbes(p) \/ SelfUnreachable(p) \/ SelfAccepted(p) \/ SelfTimesOut(p) \/ SelfWrites(p)
  BY <1>0, <1>1, <1>2, <1>15 DEF SelfProbes, SelfUnreachable, SelfAccepted, SelfTimesOut, SelfWrites,
     Reports, Fields, Busy, At
<1>16. CASE SelfPolls(p)
  <2>1. PICK r : /\ Become(p, r)
                 /\ \/ r = [req[p] EXCEPT !.at = "success", !.n = 0, !.val = "none"]
                    \/ r = [req[p] EXCEPT !.n = @ + 1]
                    \/ \E status : r = [req[p] EXCEPT !.at = "unsettled", !.n = 0, !.val = status]
    BY <1>16 DEF SelfPolls
  <2>2. req[p].kind = "self"
    BY <1>16 DEF SelfPolls, At
  <2>3. QED
    BY <1>0, <1>1, <2>1, <2>2 DEF Fields, Busy
<1>17. CASE SelfReads(p)
  <2>1. PICK r : /\ Become(p, r)
                 /\ \/ r = [req[p] EXCEPT !.at = "success", !.val = "record"]
                    \/ r = [req[p] EXCEPT !.at = "failed", !.val = "record"]
                    \/ r = [req[p] EXCEPT !.at = "failed", !.val = "none"]
    BY <1>17 DEF SelfReads
  <2>2. QED
    BY <1>0, <1>1, <2>1 DEF Fields, Busy
<1>18. QED
  BY <1>7, <1>8, <1>9, <1>10, <1>11, <1>12, <1>13, <1>14, <1>15, <1>16, <1>17
     DEF Arrive, Serve, Probe, Ssh

\* A step of p leaves the other re-installs with a row that is no newer than their token.
LEMMA OthersCurrent ==
  ASSUME LockInv, Typed, TokenInv, NEW p \in Requests, Arrive(p) \/ Serve(p),
         NEW q \in Requests \ {p}
  PROVE  Current(q)' /\ Printed(q)'
<1>0. /\ RequestsFit /\ script'[q] = script[q] /\ Current(q) /\ Printed(q)
      /\ req[q].row.id \in 0..rows /\ rows \in Nat
      /\ req[q].n \in Nat /\ script[q].token \in Nat
  BY OwnScript, GoodNow DEF LockInv, TokenInv, Typed, DatabaseTyped, VpsTyped, Good, ReqType, RowType,
     ScriptType
<1>1. Printed(q)'
  BY <1>0 DEF Printed
<1>2. CASE PatchServer(p)
  <2>1. req' = [s \in Requests |-> IF s = p THEN Ended
                 ELSE IF req[s].kind = "reinstall" /\ req[s].at # "closing"
                      THEN [req[s] EXCEPT !.past = "edited"] ELSE req[s]]
    BY <1>2 DEF PatchServer
  <2>2. CASE req[q].kind = "reinstall" /\ req[q].at # "closing"
    <3>1. Fields \subseteq DOMAIN req[q]
      BY <1>0 DEF RequestsFit, Shaped
    <3>2. /\ req'[q].past = "edited" /\ req'[q].kind = req[q].kind
          /\ req'[q].at = req[q].at /\ req'[q].n = req[q].n
      BY <2>1, <2>2, <3>1 DEF Fields
    <3>3. QED
      BY <1>0, <1>1, <3>2 DEF Current
  <2>3. CASE ~(req[q].kind = "reinstall" /\ req[q].at # "closing")
    <3>1. req'[q] = req[q]
      BY <2>1, <2>3
    <3>2. QED
      BY <1>1, <2>3, <3>1 DEF Current
  <2>4. QED
    BY <2>2, <2>3
<1>3. CASE ~PatchServer(p)
  <2>1. req'[q] = req[q]
    BY <1>0, <1>3, OthersStay
  <2>2. CASE row'.id = row.id /\ row'.token = row.token
    BY <1>0, <1>1, <2>1, <2>2 DEF Current
  <2>3. CASE row'.id = rows + 1
    BY <1>0, <1>1, <2>1, <2>3 DEF Current
  <2>4. CASE row'.id = 0 /\ row'.token = 0
    <3>1. 0 <= req[q].n /\ 0 <= script[q].token
      BY <1>0
    <3>2. QED
      BY <1>0, <1>1, <2>1, <2>4, <3>1 DEF Current
  <2>5. CASE ReinstallWrites(p) /\ row'.id = row.id
    <3>1. CASE RowIsThere(p)
      <4>1. Busy(req[q]) => req[q].row.id # req[p].row.id
        BY <2>5 DEF LockInv, OneOperation, Holds, Operations, Busy, ReinstallWrites, At
      <4>2. QED
        BY <1>0, <1>1, <2>1, <2>5, <3>1, <4>1 DEF Current, Busy, RowIsThere
    <3>2. CASE ~RowIsThere(p)
      BY <1>0, <1>1, <2>1, <2>5, <3>2 DEF Current, ReinstallWrites
    <3>3. QED
      BY <3>1, <3>2
  <2>6. QED
    BY <1>3, <2>2, <2>3, <2>4, <2>5, RowSteps
<1>4. QED
  BY <1>2, <1>3

\* And itself: its command's token is the relay's, and it hands that on.
LEMMA OwnCurrent ==
  ASSUME LockInv, Typed, TokenInv, NEW p \in Requests, Arrive(p) \/ Serve(p)
  PROVE  Current(p)' /\ Printed(p)'
<1>0. /\ RequestsFit /\ Current(p) /\ Printed(p) /\ script \in [Requests -> ScriptType(tokens)]
      /\ req = [s \in Requests |-> req[s]] /\ Fields \subseteq DOMAIN req[p]
      /\ req[p].n \in Nat /\ script[p].token \in Nat
  BY GoodNow DEF LockInv, RequestsFit, Shaped, TokenInv, Typed, VpsTyped, Good, ReqType, ScriptType
<1>1. Printed(p)'
  <2>1. CASE script' = script
    BY <1>0, <2>1 DEF Printed
  <2>2. CASE SshTimesOut(p)
    BY <1>0, <2>2 DEF SshTimesOut, NoScript, Printed
  <2>4. CASE SshStarts(p)
    <3>1. script'[p].token = 0
      BY <1>0, <2>4 DEF SshStarts, NoScript
    <3>2. QED
      BY <3>1 DEF Printed
  <2>3. ASSUME NEW result, Ran(p, result) PROVE Printed(p)'
    BY <1>0, <2>3 DEF Ran, NoScript, Printed
  <2>5. QED
    BY <2>1, <2>2, <2>3, <2>4, OwnScript
<1>2. CASE SshStarts(p)
  <2>1. req'[p].at = "running" /\ script'[p].at # "ok"
    BY <1>0, <1>2 DEF SshStarts, Goto, Become, NoScript, Fields
  <2>2. QED
    BY <1>1, <2>1 DEF Current
<1>3. ASSUME NEW token \in Nat, Parsed(p, token),
             req[p].kind = "reinstall" /\ req[p].past # "edited" /\ req[p].row.id = row.id
               /\ token # 0 => row.token <= token,
             row'.id = row.id, row'.token = row.token
      PROVE  Current(p)'
  <2>1. CASE token = 0
    <3>1. req'[p].at = "closing"
      BY <1>0, <1>3, <2>1 DEF Parsed, Close, Become, NoRequest
    <3>2. QED
      BY <3>1 DEF Current
  <2>2. CASE token # 0
    <3>1. /\ req'[p].at = "writing" /\ req'[p].n = token /\ req'[p].kind = req[p].kind
          /\ req'[p].past = req[p].past /\ req'[p].row = req[p].row
      BY <1>0, <1>3, <2>2 DEF Parsed, Become, Fields
    <3>2. QED
      BY <1>3, <2>2, <3>1 DEF Current
  <2>3. QED
    BY <2>1, <2>2
<1>4. CASE ReinstallRan(p)
  <2>1. /\ req[p].at = "running" /\ row' = row
        /\ req[p].past # "edited" /\ req[p].row.id = row.id /\ script[p].token # 0
             => row.token <= script[p].token
    BY <1>0, <1>4 DEF ReinstallRan, Ran, Waits, Current, Printed, database
  <2>2. CASE req[p].row.pinned
    BY <1>0, <1>1, <1>3, <1>4, <2>1, <2>2 DEF ReinstallRan
  <2>3. CASE ~req[p].row.pinned
    <3>1. /\ req'[p].at = "pinning" /\ req'[p].n = script[p].token /\ req'[p].kind = req[p].kind
          /\ req'[p].past = req[p].past /\ req'[p].row = req[p].row
      BY <1>0, <1>4, <2>3 DEF ReinstallRan, Become, Fields
    <3>2. QED
      BY <1>1, <2>1, <3>1 DEF Current
  <2>4. QED
    BY <2>2, <2>3
<1>5. CASE ReinstallPins(p)
  <2>1. CASE RowIsThere(p)
    <3>1. Parsed(p, req[p].n) /\ row'.id = row.id /\ row'.token = row.token
      BY <1>5, <2>1 DEF ReinstallPins, Typed, DatabaseTyped, RowType
    <3>2. req[p].past # "edited" /\ req[p].row.id = row.id /\ req[p].n # 0 => row.token <= req[p].n
      BY <1>0, <1>5 DEF ReinstallPins, At, Current
    <3>3. QED
      BY <1>0, <1>1, <1>3, <3>1, <3>2
  <2>2. CASE ~RowIsThere(p)
    <3>1. req'[p].at = "closing"
      BY <1>0, <1>5, <2>2 DEF ReinstallPins, Close, Become, NoRequest
    <3>2. QED
      BY <1>1, <3>1 DEF Current
  <2>3. QED
    BY <2>1, <2>2
<1>6. CASE ~Busy(req'[p])
  BY <1>1, <1>6 DEF Current, Busy
<1>7. QED
  BY <1>0, <1>2, <1>4, <1>5, <1>6, BusySteps

\* The VPS: an installer keeps the last token or makes the next.
LEMMA VpsTokens ==
  ASSUME Typed, TokenInv, Relay \/ \E p \in Requests : Script(p) PROVE TokenInv'
<1>0. /\ tokens \in Nat /\ row.token \in 0..tokens /\ box \in BoxType(tokens)
      /\ script \in [Requests -> ScriptType(tokens)]
      /\ UNCHANGED <<database, req>>
  <2>1. UNCHANGED <<database, req>>
    BY DEF Relay, RelayPulled, RelayPullFails, RelayRecreates, RelayFinishes, ImagePublished,
       Script, ScriptWipes, ScriptStops, ScriptStarts, ScriptFails
  <2>2. QED
    BY <2>1 DEF Typed, DatabaseTyped, VpsTyped, RowType
<1>1. ASSUME NEW q \in Requests, script'[q].at = "ok" => row.token <= script'[q].token,
             script'[q].at # "ok" => script'[q].token = 0
      PROVE  Current(q)' /\ Printed(q)'
  BY <1>0, <1>1 DEF TokenInv, Current, Printed, database
<1>2. ASSUME NEW q \in Requests, script'[q] = script[q] PROVE Current(q)' /\ Printed(q)'
  BY <1>0, <1>2 DEF TokenInv, Current, Printed, database
<1>3. CASE Relay
  <2>1. box'.env = box.env /\ UNCHANGED <<script, tokens>>
    BY <1>0, <1>3 DEF Relay, RelayPulled, RelayPullFails, RelayRecreates, RelayFinishes,
       ImagePublished, BoxType
  <2>2. QED
    BY <1>2, <2>1 DEF TokenInv, Issued
<1>4. ASSUME NEW p \in Requests, Script(p) PROVE TokenInv'
  <2>0. Printed(p) /\ Issued
    BY DEF TokenInv
  <2>1. CASE ScriptWipes(p) \/ ScriptStops(p)
    <3>1. /\ script'[p].at \in {"stop", "start"} /\ script'[p].token = script[p].token
          /\ script[p].at # "ok" /\ \A q \in Requests \ {p} : script'[q] = script[q]
          /\ box'.env \in {0, box.env} /\ tokens' = tokens
      BY <1>0, <2>1 DEF ScriptWipes, ScriptStops, ScriptType, BoxType
    <3>2. QED
      BY <1>1, <1>2, <2>0, <3>1 DEF TokenInv, Issued, Printed
  <2>2. CASE ScriptFails(p)
    <3>1. /\ script'[p].at # "ok" /\ script'[p].token = 0
          /\ \A q \in Requests \ {p} : script'[q] = script[q]
          /\ UNCHANGED <<box, tokens>>
      BY <1>0, <2>2 DEF ScriptFails, ScriptEnds, NoScript, ScriptType
    <3>2. QED
      BY <1>1, <1>2, <2>0, <3>1 DEF TokenInv, Issued, Printed
  <2>3. CASE ScriptStarts(p)
    <3>1. box'.env = tokens' /\ box'.token = tokens' /\ tokens' \in Nat /\ tokens <= tokens'
      BY <1>0, <2>0, <2>3 DEF ScriptStarts, Issued
    <3>2. /\ script'[p].at = "ok" => script'[p].token = tokens'
          /\ script'[p].at # "ok" => script'[p].token = 0
          /\ \A q \in Requests \ {p} : script'[q] = script[q]
      BY <1>0, <2>3, <3>1 DEF ScriptStarts, ScriptEnds, NoScript, ScriptType
    <3>3. row.token <= tokens'
      BY <1>0, <3>1
    <3>4. QED
      BY <1>1, <1>2, <3>1, <3>2, <3>3 DEF TokenInv, Issued
  <2>4. QED
    BY <1>4, <2>1, <2>2, <2>3 DEF Script
<1>5. QED
  BY <1>3, <1>4

THEOREM TokensInductive == Spec => [](LockInv /\ Typed /\ TokenInv)
<1>1. Init => TokenInv
  <2> SUFFICES ASSUME Init PROVE TokenInv
    OBVIOUS
  <2>1. Issued
    BY DEF Init, Issued
  <2>2. \A q \in Requests : req[q].at = "idle" /\ script[q].token = 0
    BY DEF Init, NoRequest, NoScript
  <2>3. QED
    BY <2>1, <2>2 DEF TokenInv, Current, Printed
<1>2. ASSUME LockInv, Typed, TokenInv, [Next]_vars PROVE TokenInv'
  <2>1. CASE UNCHANGED vars
    BY <1>2, <2>1 DEF vars, TokenInv, Issued, Current, Printed
  <2>2. ASSUME NEW p \in Requests, Arrive(p) \/ Serve(p) PROVE TokenInv'
    <3>1. \A q \in Requests : Current(q)' /\ Printed(q)'
      BY <1>2, <2>2, OthersCurrent, OwnCurrent
    <3>2. QED
      BY <1>2, <2>2, <3>1, OwnScript DEF TokenInv, Issued
  <2>3. CASE Restart
    <3>1. \A q \in Requests : req'[q].at \in Outside
      BY <2>3 DEF Restart, Ended, NoRequest, Outside
    <3>2. \A q \in Requests : Printed(q)'
      BY <1>2, <2>3 DEF Restart, TokenInv, Printed, NoScript, Typed, VpsTyped
    <3>3. QED
      BY <1>2, <2>3, <3>1, <3>2 DEF Restart, TokenInv, Issued, Current, Outside
  <2>4. QED
    BY <1>2, <2>1, <2>2, <2>3, VpsTokens DEF Next
<1>3. QED
  BY <1>1, <1>2, ServerTypes, PTL DEF Spec

\* The row of a re-install that is reported done holds the token its installer printed
\* (routes/servers.ts compares it with the copy of the row it loaded before the lock).
THEOREM TokensAreTheInstallers == Spec => TokenIsTheInstallers
<1>1. ASSUME Typed, TokenInv, NEW p \in Requests, At(p, "reinstall", "writing"), ReinstallWrites(p),
             RowIsThere(p), req[p].past # "edited", row.token >= req[p].row.token
      PROVE  row'.token = req[p].n
  <2>1. req[p].n # 0 /\ row.token <= req[p].n
    BY <1>1 DEF TokenInv, Current, At, RowIsThere
  <2>2. row.token \in Nat /\ req[p].n \in Nat /\ req[p].row.token \in Nat /\ row \in RowType(rows, tokens)
    BY <1>1, GoodNow DEF Typed, DatabaseTyped, Good, ReqType, RowType
  <2>3. row'.token = IF req[p].flag \/ req[p].n # req[p].row.token THEN req[p].n ELSE row.token
    BY <1>1, <2>2 DEF ReinstallWrites, RowType
  <2>4. QED
    BY <1>1, <2>1, <2>2, <2>3
<1>2. LockInv /\ Typed /\ TokenInv /\ [Next]_vars =>
        [\A p \in Requests :
           /\ At(p, "reinstall", "writing") /\ ReinstallWrites(p) /\ RowIsThere(p)
           /\ req[p].past # "edited" /\ row.token >= req[p].row.token
           => row'.token = req[p].n]_vars
  BY <1>1
<1>3. QED
  BY TokensInductive, <1>2, PTL DEF Spec, TokenIsTheInstallers

-----------------------------------------------------------------------------
(* The record of a self-update.  The relay runs one update at a time, and   *)
(* the key of the row keeps other requests from triggering the next while   *)
(* one waits or polls, as long as all of them mean the same row.            *)

Before == {"idle", "loaded", "probing", "trigger"}
Accepted(r) ==
  r.kind = "self" /\ (r.at \in {"polling", "unsettled"} \/ (r.at = "record" /\ ~r.flag))
Awaits(r) == r.kind = "self" /\ r.at = "sent"

Owns(q) ==
  /\ req[q].kind = "self" => req[q].row.id # 0
  /\ upd.owner = q \/ upd.by = q => req[q].at \notin Before
  /\ rows <= 1 /\ Accepted(req[q]) => upd.owner = q /\ upd.phase # "pulling"
  /\ rows <= 1 /\ Awaits(req[q]) /\ upd.owner = q => upd.phase # "pulling"

RecordInv == \A q \in Requests : Owns(q)

\* A request that becomes r, having been o, is no nearer to a record than it was.
Traced(r, o) ==
  /\ r.at \in Before => o.at \in Before
  /\ Accepted(r) => Accepted(o)
  /\ ~Awaits(r)
  /\ r.kind = "self" => o.kind = "self" /\ r.row.id = o.row.id
  /\ r.val = "record" => o.val = "record"

LEMMA TracedElsewhere ==
  ASSUME NEW r, NEW o, r.at \notin Before, r.at \notin {"polling", "unsettled", "record", "sent"},
         r.kind = "self" => o.kind = "self" /\ r.row.id = o.row.id,
         r.val = "record" => o.val = "record"
  PROVE  Traced(r, o)
  BY DEF Traced, Accepted, Awaits

LEMMA TracedSteps ==
  ASSUME RequestsFit, Typed, NEW p \in Requests, Arrive(p) \/ Serve(p),
         ~SelfLoad(p), ~SelfTriggers(p), ~SelfAccepted(p), ~SelfReads(p)
  PROVE  Traced(req'[p], req[p])
<1>0. req = [s \in Requests |-> req[s]] /\ Fields \subseteq DOMAIN req[p]
  BY DEF RequestsFit, Shaped
<1>1. ASSUME NEW r, Become(p, r) PROVE req'[p] = r
  BY <1>0, <1>1 DEF Become
<1>2. ASSUME End(p) \/ Close(p) PROVE Traced(req'[p], req[p])
  <2>1. CASE End(p)
    <3>1. req'[p].at = "done" /\ req'[p].kind = "none" /\ req'[p].val = "none"
      BY <1>1, <2>1 DEF End, Ended, NoRequest
    <3>2. QED
      BY <3>1, TracedElsewhere DEF Before
  <2>2. CASE Close(p)
    <3>1. req'[p] = [NoRequest EXCEPT !.kind = req[p].kind, !.at = "closing",
                                      !.actor = req[p].actor, !.row = [NoRow EXCEPT !.id = req[p].row.id]]
      BY <1>1, <2>2 DEF Close
    <3>2. /\ req'[p].at = "closing" /\ req'[p].kind = req[p].kind /\ req'[p].val = "none"
          /\ req'[p].row.id = req[p].row.id
      BY <3>1 DEF NoRequest, NoRow
    <3>3. QED
      BY <3>2, TracedElsewhere DEF Before
  <2>3. QED
    BY <1>2, <2>1, <2>2
<1>3. ASSUME NEW kind, kind # "self", NEW at \in {"asking", "loaded"}, req[p].at = "idle", Loads(p, kind, at)
      PROVE  Traced(req'[p], req[p])
  <2>1. req'[p] = [NoRequest EXCEPT !.kind = kind, !.at = at, !.row = Copy]
    BY <1>1, <1>3 DEF Loads
  <2>2. req'[p].kind = kind /\ req'[p].at = at /\ req'[p].val = "none"
    BY <2>1 DEF NoRequest
  <2>3. QED
    BY <1>3, <2>2 DEF Traced, Before, Accepted, Awaits
<1>4. ASSUME NEW a, NEW at \in {"ssh", "inspect", "probing"}, req[p].at = "loaded", Lock(p, a, at)
      PROVE  Traced(req'[p], req[p])
  BY <1>0, <1>1, <1>4 DEF Lock, Fields, Traced, Before, Accepted, Awaits
<1>5. ASSUME NEW at \in {"running", "docker", "pinning"}, Goto(p, at) PROVE Traced(req'[p], req[p])
  BY <1>0, <1>1, <1>5 DEF Goto, Fields, Traced, Before, Accepted, Awaits
<1>6. ASSUME NEW status, status # "record" \/ req[p].val = "record", ProbeWrites(p, status)
      PROVE  Traced(req'[p], req[p])
  <2>1. CASE End(p)
    BY <1>2, <2>1
  <2>2. CASE Become(p, [req[p] EXCEPT !.at = "landing", !.val = status])
    <3>1. req'[p] = [req[p] EXCEPT !.at = "landing", !.val = status]
      BY <1>1, <2>2
    <3>2. /\ req'[p].at = "landing" /\ req'[p].val = status /\ req'[p].kind = req[p].kind
          /\ req'[p].row = req[p].row
      BY <1>0, <3>1 DEF Fields
    <3>3. QED
      BY <1>6, <3>2, TracedElsewhere DEF Before
  <2>3. QED
    BY <1>6, <2>1, <2>2 DEF ProbeWrites
<1>7. "record" \notin Statuses
  BY DEF Statuses
<1>8. CASE Probe(p)
  <2>1. CASE TestSees(p) \/ SyncSees(p)
    <3>1. CASE End(p)
      BY <1>2, <3>1
    <3>2. CASE ~End(p)
      <4>1. RelayRequest \subseteq Statuses
        BY HealthIsStatus DEF RelayRequest, Statuses
      <4>2. PICK status, past :
              status \in Statuses /\ Become(p, [req[p] EXCEPT !.at = "answered", !.val = status, !.past = past])
        BY <2>1, <3>2, <4>1, HealthIsStatus DEF TestSees, SyncSees
      <4>3. req'[p] = [req[p] EXCEPT !.at = "answered", !.val = status, !.past = past]
        BY <1>1, <4>2
      <4>4. /\ req'[p].at = "answered" /\ req'[p].val = status /\ req'[p].kind = req[p].kind
            /\ req'[p].row = req[p].row
        BY <1>0, <4>3 DEF Fields
      <4>5. QED
        BY <1>7, <4>2, <4>4, TracedElsewhere DEF Before
    <3>3. QED
      BY <3>1, <3>2
  <2>2. CASE TestStart(p) \/ SyncStart(p)
    BY <1>3, <2>2 DEF TestStart, SyncStart, Ready
  <2>3. CASE TestNoRelay(p) \/ TestAnswered(p) \/ SyncApps(p) \/ StatusLands(p)
    BY <1>2, <1>6, <2>3 DEF TestNoRelay, TestAnswered, SyncApps, StatusLands
  <2>4. QED
    BY <1>8, <2>1, <2>2, <2>3 DEF Probe
<1>9. CASE Edit(p)
  <2>1. CASE PatchServer(p)
    BY <2>1 DEF PatchServer, Ended, NoRequest, Traced, Before, Accepted, Awaits
  <2>2. QED
    BY <1>2, <1>9, <2>1 DEF Edit, CreateServer, DeleteServer
<1>10. CASE Ssh(p)
  BY <1>2, <1>5, <1>10 DEF Ssh, SshFails, SshStarts, SshTimesOut, Release
<1>11. CASE InstallStart(p)
  BY <1>1, <1>11 DEF InstallStart, NoRequest, Traced, Before, Accepted, Awaits
<1>12. ASSUME NEW at \in {"writing", "pinning", "health"}, NEW n,
              Become(p, [req[p] EXCEPT !.at = at, !.n = n])
       PROVE  Traced(req'[p], req[p])
  BY <1>0, <1>1, <1>12 DEF Fields, Traced, Before, Accepted, Awaits
<1>13. CASE InstallParses(p) \/ InstallCreates(p)
  BY <1>2, <1>12, <1>13 DEF InstallParses, InstallCreates
<1>14. CASE ReinstallLoad(p)
  BY <1>1, <1>14 DEF ReinstallLoad, Ready, NoRequest, Traced, Before, Accepted, Awaits
<1>15. ASSUME NEW token, Parsed(p, token) PROVE Traced(req'[p], req[p])
  BY <1>2, <1>12, <1>15 DEF Parsed
<1>16. CASE ReinstallLock(p) \/ LockRefused(p) \/ UpdateLock(p) \/ SelfLock(p)
  BY <1>2, <1>4, <1>16 DEF ReinstallLock, LockRefused, UpdateLock, SelfLock, At
<1>17. CASE ReinstallRan(p) \/ ReinstallPins(p) \/ ReinstallWrites(p)
  BY <1>2, <1>12, <1>15, <1>17 DEF ReinstallRan, ReinstallPins, ReinstallWrites
<1>18. CASE UpdateLoad(p) \/ UpdateInspects(p) \/ UpdatePins(p) \/ UpdateWrites(p)
  BY <1>2, <1>3, <1>5, <1>18 DEF UpdateLoad, UpdateInspects, UpdatePins, UpdateWrites, Inspected, Ready
<1>19. CASE UpdateRan(p)
  BY <1>0, <1>1, <1>2, <1>19 DEF UpdateRan, Fields, Traced, Before, Accepted, Awaits
<1>20. CASE UpdateHealth(p)
  <2>1. PICK r : /\ Become(p, r)
                 /\ \/ r = [req[p] EXCEPT !.at = "writing", !.n = 0, !.val = "online"]
                    \/ r = [req[p] EXCEPT !.n = @ + 1]
                    \/ r = [req[p] EXCEPT !.at = "writing", !.n = 0]
    BY <1>20 DEF UpdateHealth
  <2>2. req[p].at = "health"
    BY <1>20 DEF UpdateHealth, At
  <2>3. QED
    BY <1>0, <1>1, <2>1, <2>2 DEF Fields, Traced, Before, Accepted, Awaits
<1>21. CASE SelfProbes(p)
  <2>1. PICK status, prev :
          status \in Statuses /\ Become(p, [req[p] EXCEPT !.at = "trigger", !.val = status, !.prev = prev])
    BY <1>21, HealthIsStatus DEF SelfProbes
  <2>2. req'[p] = [req[p] EXCEPT !.at = "trigger", !.val = status, !.prev = prev]
    BY <1>1, <2>1
  <2>3. /\ req'[p].at = "trigger" /\ req'[p].val = status /\ req'[p].kind = req[p].kind
        /\ req'[p].row = req[p].row
    BY <1>0, <2>2 DEF Fields
  <2>4. req[p].at = "probing"
    BY <1>21 DEF SelfProbes, At
  <2>5. QED
    BY <1>7, <2>1, <2>3, <2>4 DEF Traced, Before, Accepted, Awaits
<1>22. CASE SelfUnreachable(p)
  <2>1. PICK status \in {"offline", req[p].val} : Become(p, [req[p] EXCEPT !.at = "failing", !.val = status])
    BY <1>22 DEF SelfUnreachable, Reports
  <2>2. req'[p] = [req[p] EXCEPT !.at = "failing", !.val = status]
    BY <1>1, <2>1
  <2>3. /\ req'[p].at = "failing" /\ req'[p].val = status /\ req'[p].kind = req[p].kind
        /\ req'[p].row = req[p].row
    BY <1>0, <2>2 DEF Fields
  <2>4. QED
    BY <2>1, <2>3, TracedElsewhere DEF Before
<1>23. CASE SelfRefused(p) \/ SelfPullFailed(p) \/ SelfAnswers(p)
  BY <1>2, <1>23 DEF SelfRefused, SelfPullFailed, SelfAnswers
<1>24. CASE SelfTimesOut(p)
  <2>1. req'[p] = [req[p] EXCEPT !.at = "record", !.flag = TRUE, !.target = "none"]
    BY <1>1, <1>24 DEF SelfTimesOut
  <2>2. /\ req'[p].at = "record" /\ req'[p].kind = req[p].kind /\ req'[p].row = req[p].row
        /\ req'[p].val = req[p].val
    BY <1>0, <2>1 DEF Fields
  <2>3. req'[p].flag = TRUE
    BY <1>0, <2>1 DEF Fields
  <2>4. ~Accepted(req'[p])
    BY <2>2, <2>3 DEF Accepted
  <2>5. QED
    BY <2>2, <2>4 DEF Traced, Before, Awaits
<1>25. CASE SelfPolls(p)
  <2>1. PICK r : /\ Become(p, r)
                 /\ \/ r = [req[p] EXCEPT !.at = "success", !.n = 0, !.val = "none"]
                    \/ r = [req[p] EXCEPT !.n = @ + 1]
                    \/ \E status \in Statuses :
                         r = [req[p] EXCEPT !.at = "unsettled", !.n = 0, !.val = status]
    BY <1>25, HealthIsStatus DEF SelfPolls
  <2>2. req[p].at = "polling" /\ req[p].kind = "self"
    BY <1>25 DEF SelfPolls, At
  <2>3. QED
    BY <1>0, <1>1, <1>7, <2>1, <2>2 DEF Fields, Traced, Before, Accepted, Awaits
<1>26. CASE SelfWrites(p)
  <2>1. CASE Close(p)
    BY <1>2, <2>1
  <2>2. CASE req[p].at = "unsettled" /\ Become(p, [req[p] EXCEPT !.at = "record", !.val = "none"])
    BY <1>0, <1>1, <1>26, <2>2 DEF SelfWrites, Fields, Traced, Before, Accepted, Awaits
  <2>3. QED
    BY <1>26, <2>1, <2>2 DEF SelfWrites
<1>27. QED
  BY <1>8, <1>9, <1>10, <1>11, <1>13, <1>14, <1>16, <1>17, <1>18, <1>19, <1>20, <1>21, <1>22, <1>23,
     <1>24, <1>25, <1>26 DEF Arrive, Serve, Probe

\* Rows are only added, and a request starts an update in one way.
LEMMA RecordFrame ==
  ASSUME Typed, NEW p \in Requests, Arrive(p) \/ Serve(p)
  PROVE  /\ rows' \in Nat /\ rows <= rows'
         /\ ~SelfTriggers(p) => upd' = upd
<1>0. rows \in Nat
  BY DEF Typed, DatabaseTyped
<1>1. rows' = rows \/ rows' = rows + 1
  <2>1. CASE Arrive(p)
    BY <2>1 DEF Arrive, TestStart, SyncStart, Edit, CreateServer, PatchServer, DeleteServer, InstallStart,
       ReinstallLoad, UpdateLoad, SelfLoad, database
  <2>2. CASE Serve(p)
    <3>1. Probe(p) \/ Ssh(p) \/ LockRefused(p) => rows' = rows
      BY DEF Probe, TestStart, SyncStart, TestNoRelay, TestSees, TestAnswered, SyncSees, SyncApps,
         StatusLands, Ssh, SshFails, SshStarts, SshTimesOut, Release, LockRefused, database
    <3>2. Install(p) => rows' = rows \/ rows' = rows + 1
      BY DEF Install, InstallStart, InstallParses, InstallCreates, database
    <3>3. Reinstall(p) \/ Update(p) => rows' = rows
      BY DEF Reinstall, ReinstallLoad, ReinstallLock, LockRefused, ReinstallRan, ReinstallPins,
         ReinstallWrites, Update, UpdateLoad, UpdateLock, UpdateInspects, UpdatePins, UpdateRan,
         UpdateHealth, UpdateWrites, database
    <3>4. SelfUpdate(p) => rows' = rows
      BY DEF SelfUpdate, SelfLoad, SelfLock, SelfProbes, SelfUnreachable, SelfRefused, SelfTriggers,
         SelfPullFailed, SelfAccepted, SelfTimesOut, SelfPolls, SelfReads, SelfAnswers, SelfWrites, database
    <3>5. QED
      BY <2>2, <3>1, <3>2, <3>3, <3>4 DEF Serve, Probe, Install, Reinstall, Update, SelfUpdate
  <2>3. QED
    BY <2>1, <2>2
<1>2. ~SelfTriggers(p) => upd' = upd
  <2>1. CASE Arrive(p)
    BY <2>1 DEF Arrive, TestStart, SyncStart, Edit, CreateServer, PatchServer, DeleteServer, InstallStart,
       ReinstallLoad, UpdateLoad, SelfLoad, vps
  <2>2. CASE Serve(p)
    <3>1. Probe(p) \/ Ssh(p) \/ LockRefused(p) => upd' = upd
      BY DEF Probe, TestStart, SyncStart, TestNoRelay, TestSees, TestAnswered, SyncSees, SyncApps,
         StatusLands, Ssh, SshFails, SshStarts, SshTimesOut, Release, LockRefused, vps
    <3>2. Install(p) => upd' = upd
      BY DEF Install, InstallStart, InstallParses, InstallCreates, Ran, vps
    <3>3. Reinstall(p) \/ Update(p) => upd' = upd
      BY DEF Reinstall, ReinstallLoad, ReinstallLock, LockRefused, ReinstallRan, ReinstallPins,
         ReinstallWrites, Update, UpdateLoad, UpdateLock, UpdateInspects, UpdatePins, UpdateRan,
         UpdateHealth, UpdateWrites, Ran, vps
    <3>4. SelfUpdate(p) /\ ~SelfTriggers(p) => upd' = upd
      BY DEF SelfUpdate, SelfLoad, SelfLock, SelfProbes, SelfUnreachable, SelfRefused,
         SelfPullFailed, SelfAccepted, SelfTimesOut, SelfPolls, SelfReads, SelfAnswers, SelfWrites, vps
    <3>5. QED
      BY <2>2, <3>1, <3>2, <3>3, <3>4 DEF Serve, Probe, Install, Reinstall, Update, SelfUpdate
  <2>3. QED
    BY <2>1, <2>2
<1>3. QED
  BY <1>0, <1>1, <1>2

\* The others keep what they mean to the relay.
SameRequest(q) ==
  /\ req'[q].kind = req[q].kind /\ req'[q].at = req[q].at
  /\ req'[q].row = req[q].row /\ req'[q].flag = req[q].flag /\ req'[q].val = req[q].val

LEMMA OthersSame ==
  ASSUME RequestsFit, NEW p \in Requests, Arrive(p) \/ Serve(p), NEW q \in Requests \ {p}
  PROVE  SameRequest(q)
<1>1. CASE PatchServer(p)
  <2>1. req' = [s \in Requests |-> IF s = p THEN Ended
                 ELSE IF req[s].kind = "reinstall" /\ req[s].at # "closing"
                      THEN [req[s] EXCEPT !.past = "edited"] ELSE req[s]]
    BY <1>1 DEF PatchServer
  <2>2. req'[q] = [req[q] EXCEPT !.past = "edited"] \/ req'[q] = req[q]
    BY <2>1
  <2>3. Fields \subseteq DOMAIN req[q]
    BY DEF RequestsFit, Shaped
  <2>4. CASE req'[q] = req[q]
    BY <2>4 DEF SameRequest
  <2>5. CASE req'[q] = [req[q] EXCEPT !.past = "edited"]
    <3>1. req'[q].flag = req[q].flag
      BY <2>3, <2>5 DEF Fields
    <3>2. QED
      BY <2>3, <2>5, <3>1 DEF Fields, SameRequest
  <2>6. QED
    BY <2>2, <2>4, <2>5
<1>2. CASE ~PatchServer(p)
  BY <1>2, OthersStay DEF SameRequest
<1>3. QED
  BY <1>1, <1>2

\* A request that triggers an update is alone with its row, so no other one waits for an
\* update or has had one accepted, as long as there has been one row.
LEMMA TriggersAlone ==
  ASSUME LockInv, Typed, RecordInv, rows <= 1, NEW p \in Requests, SelfTriggers(p), NEW q \in Requests \ {p}
  PROVE  ~Accepted(req[q]) /\ ~Awaits(req[q])
<1>1. Holds(p) /\ req[p].kind = "self"
  BY DEF SelfTriggers, At, Holds, Operations
<1>2. ASSUME Accepted(req[q]) \/ Awaits(req[q]) PROVE FALSE
  <2>1. Holds(q) /\ req[q].kind = "self"
    BY <1>2 DEF Accepted, Awaits, Holds, Operations
  <2>2. req[p].row.id # req[q].row.id
    BY <1>1, <2>1 DEF LockInv, OneOperation
  <2>3. req[p].row.id # 0 /\ req[q].row.id # 0
    BY <1>1, <2>1 DEF RecordInv, Owns
  <2>4. rows \in Nat /\ req[p].row.id \in 0..rows /\ req[q].row.id \in 0..rows
    BY GoodNow DEF Typed, DatabaseTyped, Good, ReqType, RowType
  <2>5. QED
    BY <2>2, <2>3, <2>4
<1>3. QED
  BY <1>2

LEMMA OthersOwn ==
  ASSUME LockInv, Typed, RecordInv, NEW p \in Requests, Arrive(p) \/ Serve(p), NEW q \in Requests \ {p}
  PROVE  Owns(q)'
<1>0. Owns(q) /\ SameRequest(q) /\ rows \in Nat /\ rows' \in Nat /\ rows <= rows'
  BY RecordFrame, OthersSame DEF LockInv, RecordInv, Typed, DatabaseTyped
<1>1. (Accepted(req'[q]) <=> Accepted(req[q])) /\ (Awaits(req'[q]) <=> Awaits(req[q]))
  BY <1>0 DEF SameRequest, Accepted, Awaits
<1>2. rows' <= 1 => rows <= 1
  BY <1>0
<1>3. CASE ~SelfTriggers(p)
  <2>1. upd' = upd
    BY <1>3, RecordFrame
  <2>2. QED
    BY <1>0, <1>1, <1>2, <2>1 DEF Owns, SameRequest
<1>4. CASE SelfTriggers(p)
  <2>1. upd'.owner = upd.owner /\ upd'.by = p
    BY <1>4 DEF SelfTriggers, Typed, VpsTyped, UpdateType
  <2>2. rows <= 1 => ~Accepted(req[q]) /\ ~Awaits(req[q])
    BY <1>4, TriggersAlone
  <2>3. QED
    BY <1>0, <1>1, <1>2, <2>1, <2>2 DEF Owns, SameRequest
<1>5. QED
  BY <1>3, <1>4

LEMMA OwnOwns ==
  ASSUME LockInv, Typed, RecordInv, NEW p \in Requests, Arrive(p) \/ Serve(p)
  PROVE  Owns(p)'
<1>0. /\ Owns(p) /\ RequestsFit /\ rows \in Nat /\ rows' \in Nat /\ rows <= rows'
      /\ req = [s \in Requests |-> req[s]] /\ Fields \subseteq DOMAIN req[p]
  BY RecordFrame DEF LockInv, RequestsFit, Shaped, RecordInv, Typed, DatabaseTyped
<1>1. rows' <= 1 => rows <= 1
  BY <1>0
<1>2. ASSUME NEW r, Become(p, r) PROVE req'[p] = r
  BY <1>0, <1>2 DEF Become
<1>3. CASE SelfLoad(p)
  <2>1. req'[p] = [NoRequest EXCEPT !.kind = "self", !.at = "loaded", !.row = Copy]
    BY <1>2, <1>3 DEF SelfLoad, Loads
  <2>2. req'[p].kind = "self" /\ req'[p].at = "loaded" /\ req'[p].row = Copy
    BY <2>1 DEF NoRequest
  <2>3. Copy.id # 0
    BY <1>3 DEF SelfLoad, Copy, Typed, DatabaseTyped, RowType
  <2>4. upd' = upd
    BY <1>3 DEF SelfLoad, vps
  <2>5. req[p].at = "idle"
    BY <1>3 DEF SelfLoad, Ready
  <2>6. QED
    BY <1>0, <2>2, <2>3, <2>4, <2>5 DEF Owns, Before, Accepted, Awaits
<1>4. CASE SelfTriggers(p)
  <2>1. req'[p] = [req[p] EXCEPT !.at = "sent"]
    BY <1>2, <1>4 DEF SelfTriggers, Goto
  <2>2. req'[p].at = "sent" /\ req'[p].kind = req[p].kind /\ req'[p].row = req[p].row
    BY <1>0, <2>1 DEF Fields
  <2>3. upd'.owner = upd.owner
    BY <1>4 DEF SelfTriggers, Typed, VpsTyped, UpdateType
  <2>4. req[p].at = "trigger"
    BY <1>4 DEF SelfTriggers, At
  <2>5. QED
    BY <1>0, <2>2, <2>3, <2>4 DEF Owns, Before, Accepted, Awaits
<1>5. CASE SelfAccepted(p)
  <2>1. PICK target, prev :
          Become(p, [req[p] EXCEPT !.at = "polling", !.target = target, !.prev = prev])
    BY <1>5 DEF SelfAccepted
  <2>2. req'[p] = [req[p] EXCEPT !.at = "polling", !.target = target, !.prev = prev]
    BY <1>2, <2>1
  <2>3. req'[p].at = "polling" /\ req'[p].kind = req[p].kind /\ req'[p].row = req[p].row
    BY <1>0, <2>2 DEF Fields
  <2>4. upd' = upd /\ upd.owner = p /\ Awaits(req[p])
    BY <1>5 DEF SelfAccepted, vps, At, Awaits
  <2>5. QED
    BY <1>0, <1>1, <2>3, <2>4 DEF Owns, Before, Awaits, Accepted
<1>6. CASE SelfReads(p)
  <2>1. PICK r : /\ Become(p, r)
                 /\ \/ r = [req[p] EXCEPT !.at = "success", !.val = "record"]
                    \/ r = [req[p] EXCEPT !.at = "failed", !.val = "record"]
                    \/ r = [req[p] EXCEPT !.at = "failed", !.val = "none"]
    BY <1>6 DEF SelfReads
  <2>2. req'[p].at \in {"success", "failed"} /\ req'[p].kind = req[p].kind /\ req'[p].row = req[p].row
    BY <1>0, <1>2, <2>1 DEF Fields
  <2>3. upd' = upd
    BY <1>6 DEF SelfReads, vps
  <2>4. QED
    BY <1>0, <2>2, <2>3 DEF Owns, Before, Accepted, Awaits
<1>7. CASE ~SelfLoad(p) /\ ~SelfTriggers(p) /\ ~SelfAccepted(p) /\ ~SelfReads(p)
  <2>1. upd' = upd /\ Traced(req'[p], req[p])
    BY <1>0, <1>7, RecordFrame, TracedSteps
  <2>2. QED
    BY <1>0, <1>1, <2>1 DEF Owns, Traced
<1>8. QED
  BY <1>3, <1>4, <1>5, <1>6, <1>7

\* On the relay's side the record changes hands when a pull ends, which is never while a
\* request polls an update of its own.
LEMMA VpsOwns ==
  ASSUME Typed, RecordInv, Relay \/ \E p \in Requests : Script(p), NEW q \in Requests
  PROVE  Owns(q)'
<1>0. Owns(q) /\ upd \in UpdateType
  BY DEF RecordInv, Typed, VpsTyped
<1>1. UNCHANGED <<req, rows>>
  BY DEF Relay, RelayPulled, RelayPullFails, RelayRecreates, RelayFinishes, ImagePublished,
         Script, ScriptWipes, ScriptStops, ScriptStarts, ScriptFails, database
<1>2. CASE upd' = upd
  BY <1>0, <1>1, <1>2 DEF Owns
<1>3. CASE RelayPulled
  BY <1>0, <1>1, <1>3 DEF RelayPulled, Owns
<1>4. ASSUME upd'.owner = upd.owner, upd'.by \in {upd.by, "none"}, upd'.phase # "pulling"
      PROVE  Owns(q)'
  BY <1>0, <1>1, <1>4, ServerConstants DEF Owns
<1>5. CASE RelayPullFails
  BY <1>0, <1>4, <1>5 DEF RelayPullFails, UpdateType
<1>6. CASE RelayRecreates
  BY <1>0, <1>4, <1>6 DEF RelayRecreates, UpdateType
<1>7. CASE RelayFinishes
  <2>1. PICK state : upd' = [upd EXCEPT !.phase = "idle", !.by = "none", !.state = state]
    BY <1>7 DEF RelayFinishes
  <2>2. QED
    BY <1>0, <1>4, <2>1 DEF UpdateType
<1>8. CASE ImagePublished \/ \E p \in Requests : Script(p)
  BY <1>2, <1>8 DEF ImagePublished, Script, ScriptWipes, ScriptStops, ScriptStarts, ScriptFails
<1>9. QED
  BY <1>3, <1>5, <1>6, <1>7, <1>8 DEF Relay

THEOREM RecordsInductive == Spec => [](LockInv /\ Typed /\ RecordInv)
<1>1. Init => RecordInv
  <2> SUFFICES ASSUME Init, NEW q \in Requests PROVE Owns(q)
    BY DEF RecordInv
  <2>1. req[q].at = "idle" /\ req[q].kind = "none"
    BY DEF Init, NoRequest
  <2>2. upd.owner = "none" /\ upd.by = "none"
    BY DEF Init, NoUpdate
  <2>3. QED
    BY <2>1, <2>2, ServerConstants DEF Owns, Accepted, Awaits
<1>2. ASSUME LockInv, Typed, RecordInv, [Next]_vars PROVE RecordInv'
  <2>1. CASE UNCHANGED vars
    BY <1>2, <2>1 DEF vars, RecordInv, Owns
  <2>2. ASSUME NEW p \in Requests, Arrive(p) \/ Serve(p) PROVE RecordInv'
    BY <1>2, <2>2, OthersOwn, OwnOwns DEF RecordInv
  <2>3. CASE Relay \/ \E p \in Requests : Script(p)
    BY <1>2, <2>3, VpsOwns DEF RecordInv
  <2>4. CASE Restart
    <3>1. UNCHANGED <<upd, rows>>
      BY <2>4 DEF Restart, database
    <3>2. ASSUME NEW q \in Requests PROVE Owns(q)'
      <4>1. req'[q].kind = "none" /\ (req'[q].at \in Before => req[q].at \in Before)
        BY <2>4 DEF Restart, Ended, NoRequest, Before
      <4>2. QED
        BY <1>2, <3>1, <4>1 DEF RecordInv, Owns, Accepted, Awaits
    <3>3. QED
      BY <3>2 DEF RecordInv
  <2>5. QED
    BY <1>2, <2>1, <2>2, <2>3, <2>4 DEF Next
<1>3. QED
  BY <1>1, <1>2, ServerTypes, PTL DEF Spec

\* After a timeout no outcome is final.
LEMMA LateOutcome ==
  ASSUME NEW p \in Requests, req[p].flag PROVE Outcome(p) \in {"none", "pending"}
<1>1. CASE upd.state = "in_progress"
  BY <1>1 DEF Outcome
<1>2. CASE upd.state # "in_progress"
  BY <1>2 DEF Outcome
<1>3. QED
  BY <1>1, <1>2

\* An outcome is taken from the record only by reading it, and only an update that the
\* relay accepted can be reported as ended.
LEMMA RecordRead ==
  ASSUME LockInv, Typed, RecordInv, rows <= 1, [Next]_vars, NEW p \in Requests,
         req[p].val # "record", req'[p].val = "record"
  PROVE  upd.owner = p
<1>0. /\ RequestsFit /\ req = [s \in Requests |-> req[s]] /\ Fields \subseteq DOMAIN req[p]
  BY DEF LockInv, RequestsFit, Shaped
<1>1. ASSUME NEW q \in Requests, Arrive(q) \/ Serve(q), q # p PROVE FALSE
  BY <1>0, <1>1, OthersSame DEF SameRequest
<1>2. CASE UNCHANGED vars
  BY <1>2 DEF vars
<1>3. CASE Restart
  BY <1>3 DEF Restart, Ended, NoRequest
<1>4. CASE Relay \/ \E q \in Requests : Script(q)
  BY <1>4, VpsAlone
<1>5. CASE Arrive(p) \/ Serve(p)
  <2>1. ASSUME NEW r, Become(p, r) PROVE req'[p] = r
    BY <1>0, <2>1 DEF Become
  <2>2. CASE SelfReads(p)
    <3>1. PICK outcome \in Outcomes(p) :
            Become(p, IF outcome = "succeeded" THEN [req[p] EXCEPT !.at = "success", !.val = "record"]
                      ELSE IF outcome = "failed" THEN [req[p] EXCEPT !.at = "failed", !.val = "record"]
                      ELSE [req[p] EXCEPT !.at = "failed", !.val = "none"])
      BY <2>2 DEF SelfReads
    <3>2. outcome \in {"succeeded", "failed"}
      <4>1. CASE outcome \notin {"succeeded", "failed"}
        <5>1. req'[p] = [req[p] EXCEPT !.at = "failed", !.val = "none"]
          BY <2>1, <3>1, <4>1
        <5>2. req'[p].val = "none"
          BY <1>0, <5>1 DEF Fields
        <5>3. QED
          BY <5>2
      <4>2. QED
        BY <4>1
    <3>3. outcome = Outcome(p)
      BY <3>1, <3>2 DEF Outcomes
    <3>4. ~req[p].flag
      BY <3>2, <3>3, LateOutcome
    <3>5. Accepted(req[p])
      BY <2>2, <3>4 DEF SelfReads, At, Accepted
    <3>6. QED
      BY <3>5 DEF RecordInv, Owns
  <2>3. CASE SelfLoad(p)
    <3>1. req'[p] = [NoRequest EXCEPT !.kind = "self", !.at = "loaded", !.row = Copy]
      BY <2>1, <2>3 DEF SelfLoad, Loads
    <3>2. req'[p].val = "none"
      BY <3>1 DEF NoRequest
    <3>3. QED
      BY <3>2
  <2>4. CASE SelfTriggers(p)
    <3>1. req'[p] = [req[p] EXCEPT !.at = "sent"]
      BY <2>1, <2>4 DEF SelfTriggers, Goto
    <3>2. QED
      BY <1>0, <3>1 DEF Fields
  <2>5. CASE SelfAccepted(p)
    BY <2>5 DEF SelfAccepted
  <2>6. CASE ~SelfLoad(p) /\ ~SelfTriggers(p) /\ ~SelfAccepted(p) /\ ~SelfReads(p)
    BY <1>0, <1>5, <2>6, TracedSteps DEF Traced
  <2>7. QED
    BY <2>2, <2>3, <2>4, <2>5, <2>6
<1>6. QED
  BY <1>1, <1>2, <1>3, <1>4, <1>5 DEF Next

\* What the relay's record says is told of the attempt it belongs to
\* (relay-self-update.ts: the record has to provably belong to this attempt), as long as
\* the host keeps its first registration.
THEOREM RecordsAreOwn == Spec => RecordIsOwn
<1>1. LockInv /\ Typed /\ RecordInv /\ [Next]_vars =>
        [\A p \in Requests :
           rows <= 1 /\ req[p].val # "record" /\ req'[p].val = "record" => upd.owner = p]_vars
  BY RecordRead
<1>2. QED
  BY RecordsInductive, <1>1, PTL DEF Spec, RecordIsOwn

=============================================================================
