----------------------------- MODULE Ingestion -----------------------------
(***************************************************************************)
(* Ingestion's POST /alerts/<source>: a webhook is admitted, normalized    *)
(* and persisted, and the source posts it again until it hears an answer   *)
(* that settles it.                                                        *)
(*                                                                         *)
(* Requests are handled concurrently, each in one transaction at READ      *)
(* COMMITTED.  A firing alert is split between its lookup, which takes no  *)
(* lock, and its commit; a resolve between its lookup's snapshot and the   *)
(* row lock it waits for, under which it does all the rest.  The alert     *)
(* rows, their events and audit rows are counted for each incident.        *)
(* Metrics, logs and traces are left out.                                  *)
(***************************************************************************)
EXTENDS Integers, FiniteSets

CONSTANTS
  Webhooks,     \* what the sources have to tell
  source,       \* the source of each
  payload,      \* its body: the fields of Fields
  Forged,       \* those sent without the token of their source
  Requests,     \* bound: how many are handled at a time
  MaxIncidents, \* bound: how many incidents are opened
  MaxFailures   \* bound: how often a request fails, its answer is lost, or all restarts

\* The values a field can have that are not what it should be.
Absent == "absent"
NotText == "not text"
Empty == ""
TooLong == "too long"
Fields == {"batch", "labels", "service", "name", "severity", "status", "at", "ends", "id"}

AlertSource == {"prometheus", "kibana", "mock"}
Severity == {"critical", "high", "medium", "low", "info"}

ASSUME IngestionAssumption ==
  /\ source \in [Webhooks -> AlertSource]
  /\ \A w \in Webhooks : DOMAIN payload[w] = Fields
  /\ Forged \subseteq Webhooks
  /\ MaxIncidents \in Nat /\ MaxFailures \in Nat

Ids == 1 .. MaxIncidents  \* in the order they are opened

-----------------------------------------------------------------------------
(* Normalization: an alert, NoAlert for a payload that is answered 422, or *)
(* Unbuilt if the contract, and not the normalizer, refuses it: a 500.     *)

RequireStr(value) == value \notin {Absent, NotText, Empty}
RequireSeverity(value) == value \in Severity
OptionalStr(value) == value # NotText
StringMap(value) == value # NotText
Timestamp(value) == RequireStr(value) /\ value # "unparseable"

\* compute_fingerprint: a digest of FINGERPRINT_FIELDS, taken as injective.
Fingerprint(p) == <<p.service, p.name, p.severity>>

NoAlert == [status |-> "none"]
Unbuilt == [status |-> "error"]

\* An absent or empty status means firing; any text goes.
Status(p) == IF p.status \in {Absent, Empty} THEN "firing" ELSE p.status

\* What all sources require.
Sound(p) ==
  /\ RequireStr(p.service) /\ RequireStr(p.name) /\ RequireSeverity(p.severity)
  /\ OptionalStr(p.status) /\ OptionalStr(p.id) /\ StringMap(p.labels)

\* The contract bounds the lengths of the texts.
NormalizedAlert(p) == TooLong \notin {p.service, p.name, p.status, p.id}

Build(p) ==
  IF NormalizedAlert(p) THEN [status |-> Status(p), fingerprint |-> Fingerprint(p)]
  ELSE Unbuilt

\* A batch is refused; endsAt is read only of a resolved alert, and only if it is text.
NormalizePrometheus(p) ==
  IF /\ ~p.batch /\ p.labels # Absent /\ Sound(p) /\ Timestamp(p.at)
     /\ Status(p) = "resolved" /\ RequireStr(p.ends) => Timestamp(p.ends)
  THEN Build(p) ELSE NoAlert

NormalizeKibana(p) == IF Sound(p) /\ Timestamp(p.at) THEN Build(p) ELSE NoAlert

\* The time of a mock alert may be missing.
NormalizeMock(p) ==
  IF Sound(p) /\ (p.at \in {Absent, Empty} \/ Timestamp(p.at)) THEN Build(p) ELSE NoAlert

Normalize(w) ==
  CASE source[w] = "prometheus" -> NormalizePrometheus(payload[w])
    [] source[w] = "kibana" -> NormalizeKibana(payload[w])
    [] source[w] = "mock" -> NormalizeMock(payload[w])

Resolving == {w \in Webhooks : Normalize(w).status = "resolved"}

-----------------------------------------------------------------------------
VARIABLES
  loaded,   \* what startup has loaded: nothing, the DSN, or the webhook tokens too
  answer,   \* the settling answer each webhook's source has heard, or 0
  status,   \* incidents.status, or "absent"
  key,      \* incidents.fingerprint
  recent,   \* the incidents opened within DEDUP_WINDOW
  count,    \* incidents.alert_count
  rows,     \* the alert rows of each incident
  firing,   \* those of them with status firing
  opening,  \* its alert.normalized events with deduplicated false; the other rows' have true
  pc,       \* where each request is
  about,    \* the webhook it handles
  matches,  \* the incidents its lookup saw, or the one it is to open
  seen,     \* the alert_count it read, or 0 if it opens the incident
  stored,   \* history: rows committed for each webhook
  cleared,  \* history: the incidents each webhook has resolved
  byAlert,  \* history: the incidents that were resolved by an alert
  overtaken, \* history: the requests whose incident was so resolved before their commit
  late,     \* history: firing rows they have committed on each incident
  stale,    \* history: the incidents whose alert_count was overwritten
  unheard,  \* history: answers after a commit that the source did not hear
  failures  \* counter of the bound

incidents == <<status, key, recent, count, rows, firing, opening>>
requests  == <<pc, about, matches, seen>>
history   == <<stored, cleared, byAlert, overtaken, late, stale>>
vars == <<loaded, answer, incidents, requests, history, unheard, failures>>

Live(i) == status[i] \in {"open", "investigating"}
Zero == [i \in Ids |-> 0]

TypeOK ==
  /\ loaded \in {"nothing", "dsn", "tokens"}
  /\ answer \in [Webhooks -> {0, 202, 401, 422}]
  /\ status \in [Ids -> {"absent", "open", "investigating", "resolved"}]
  /\ recent \subseteq Ids /\ stale \subseteq Ids /\ byAlert \subseteq Ids
  /\ {count, rows, firing, opening, late} \subseteq [Ids -> Nat]
  /\ pc \in [Requests -> {"idle", "find", "commit", "lock", "202"}]
  /\ \A r \in Requests : matches[r] \subseteq Ids /\ seen[r] \in Nat
  /\ {stored, unheard} \subseteq [Webhooks -> Nat]

Init ==
  /\ loaded \in {"nothing", "dsn", "tokens"}
  /\ answer = [w \in Webhooks |-> 0]
  /\ status = [i \in Ids |-> "absent"]
  /\ key = [i \in Ids |-> <<>>]
  /\ recent = {}
  /\ count = Zero /\ rows = Zero /\ firing = Zero /\ opening = Zero
  /\ pc = [r \in Requests |-> "idle"]
  /\ about = [r \in Requests |-> "none"]
  /\ matches = [r \in Requests |-> {}]
  /\ seen = [r \in Requests |-> 0]
  /\ stored = [w \in Webhooks |-> 0]
  /\ cleared = [w \in Webhooks |-> {}]
  /\ byAlert = {} /\ overtaken = {} /\ late = Zero /\ stale = {}
  /\ unheard = [w \in Webhooks |-> 0]
  /\ failures = 0

Latest(S) == {i \in S : \A j \in S : j <= i}
Earliest(S) == {i \in S : \A j \in S : i <= j}
Goto(r, step) == pc' = [pc EXCEPT ![r] = step]

End(r) ==
  /\ Goto(r, "idle")
  /\ about' = [about EXCEPT ![r] = "none"]
  /\ matches' = [matches EXCEPT ![r] = {}]
  /\ seen' = [seen EXCEPT ![r] = 0]

-----------------------------------------------------------------------------
(* The process.                                                            *)

\* readyz, but for the ping of the database.
Ready == loaded = "tokens"

\* lifespan: the DSN, then the tokens.  Where one is missing the process stays as it is,
\* not ready, until it is restarted; requests being handled are gone then, and what they
\* have not committed.
Restart ==
  /\ failures < MaxFailures \/ ~Ready
  /\ failures' = IF Ready THEN failures + 1 ELSE failures
  /\ loaded' \in {"nothing", "dsn", "tokens"}
  /\ unheard' = [w \in Webhooks |->
                   unheard[w] + Cardinality({r \in Requests : about[r] = w /\ pc[r] = "202"})]
  /\ overtaken' = {}
  /\ pc' = [r \in Requests |-> "idle"] /\ about' = [r \in Requests |-> "none"]
  /\ matches' = [r \in Requests |-> {}] /\ seen' = [r \in Requests |-> 0]
  /\ UNCHANGED <<answer, incidents, stored, cleared, byAlert, late, stale>>

-----------------------------------------------------------------------------
(* A request.                                                              *)

\* WebhookTokenMap.verify.
Verified(w) == w \notin Forged

\* 503 until the tokens are loaded, then 401 before 422, and 500 for what is not built.
Admission(w) ==
  IF ~Ready THEN 503
  ELSE IF ~Verified(w) THEN 401
  ELSE CASE Normalize(w) = NoAlert -> 422
         [] Normalize(w) = Unbuilt -> 500
         [] OTHER -> 202

\* A 4xx settles the webhook; a 5xx changes nothing, and the source posts it again.
Refuse(w) ==
  /\ answer[w] = 0 /\ Admission(w) \in {401, 422}
  /\ answer' = [answer EXCEPT ![w] = Admission(w)]
  /\ UNCHANGED <<loaded, incidents, requests, history, unheard, failures>>

\* The source posts what is not settled, once more when it has heard nothing.
Receive(r, w) ==
  /\ pc[r] = "idle" /\ answer[w] = 0 /\ \A s \in Requests : about[s] # w
  /\ Admission(w) = 202
  /\ Goto(r, "find")
  /\ about' = [about EXCEPT ![r] = w]
  /\ UNCHANGED <<loaded, answer, incidents, matches, seen, history, unheard, failures>>

\* Mutant of FindOpen: the lookup is for any incident of the window.
FindOpenAny(r) ==
  LET open == {i \in recent : key[i] = Normalize(about[r]).fingerprint}
      taken == UNION {matches[s] : s \in {t \in Requests : pc[t] = "commit"}}
      found == IF open # {} THEN Latest(open)
               ELSE Earliest({i \in Ids \ taken : status[i] = "absent"})
  IN /\ matches' = [matches EXCEPT ![r] = found]
     /\ \E i \in found : seen' = [seen EXCEPT ![r] = count[i]]
     /\ Goto(r, "commit")

\* find_open_incident, or an incident to open.  No other lookup sees that until it is
\* committed, so that the same alert can open several.
FindOpen(r) ==
  LET open == {i \in recent : status[i] = "open" /\ key[i] = Normalize(about[r]).fingerprint}
      taken == UNION {matches[s] : s \in {t \in Requests : pc[t] = "commit"}}
      found == IF open # {} THEN Latest(open)
               ELSE Earliest({i \in Ids \ taken : status[i] = "absent"})
  IN /\ matches' = [matches EXCEPT ![r] = found]
     /\ \E i \in found : seen' = [seen EXCEPT ![r] = count[i]]
     /\ Goto(r, "commit")

\* find_resolvable_incident before it waits: the live ones of its snapshot.
FindLive(r) ==
  /\ matches' = [matches EXCEPT ![r] =
                   {i \in Ids : Live(i) /\ key[i] = Normalize(about[r]).fingerprint}]
  /\ Goto(r, "lock")
  /\ UNCHANGED seen

Find(r) ==
  /\ pc[r] = "find"
  /\ IF about[r] \in Resolving THEN FindLive(r) ELSE FindOpen(r)
  /\ UNCHANGED <<loaded, answer, incidents, about, history, unheard, failures>>

\* Mutant of Attach: an incident starts with one alert counted, and counts its first.
AttachCounting(r, i) ==
  /\ status' = [status EXCEPT ![i] = IF @ = "absent" THEN "open" ELSE @]
  /\ recent' = IF status[i] = "absent" THEN recent \cup {i} ELSE recent
  /\ key' = [key EXCEPT ![i] = Normalize(about[r]).fingerprint]
  /\ count' = [count EXCEPT ![i] = (IF status[i] = "absent" THEN 1 ELSE seen[r]) + 1]
  /\ rows' = [rows EXCEPT ![i] = @ + 1]
  /\ firing' = [firing EXCEPT ![i] = IF Normalize(about[r]).status = "firing" THEN @ + 1 ELSE @]
  /\ opening' = [opening EXCEPT ![i] = IF status[i] = "absent" THEN @ + 1 ELSE @]

\* persist_alert's rows and event: the alert opens its incident, or goes to the one it
\* found, whatever has become of that since, with the alert_count it read plus one.
Attach(r, i) ==
  /\ status' = [status EXCEPT ![i] = IF @ = "absent" THEN "open" ELSE @]
  /\ recent' = IF status[i] = "absent" THEN recent \cup {i} ELSE recent
  /\ key' = [key EXCEPT ![i] = Normalize(about[r]).fingerprint]
  /\ count' = [count EXCEPT ![i] = seen[r] + 1]
  /\ rows' = [rows EXCEPT ![i] = @ + 1]
  /\ firing' = [firing EXCEPT ![i] = IF Normalize(about[r]).status = "firing" THEN @ + 1 ELSE @]
  /\ opening' = [opening EXCEPT ![i] = IF seen[r] = 0 THEN @ + 1 ELSE @]

Commit(r) ==
  /\ pc[r] = "commit"
  /\ \E i \in matches[r] :
       /\ Attach(r, i)
       /\ late' = [late EXCEPT ![i] = IF r \in overtaken THEN @ + firing'[i] - firing[i] ELSE @]
       /\ overtaken' = overtaken \ {r}
       /\ stale' = IF count[i] # seen[r] THEN stale \cup {i} ELSE stale
  /\ stored' = [stored EXCEPT ![about[r]] = @ + 1]
  /\ Goto(r, "202")
  /\ UNCHANGED <<loaded, answer, about, matches, seen, cleared, byAlert, unheard, failures>>

\* mark_incident_alerts_resolved.
Flip(i) == firing' = [firing EXCEPT ![i] = 0]

\* resolve_incident_if_quiet, unless firing alerts remain.
ResolveIfQuiet(i) == status' = IF firing'[i] > 0 THEN status ELSE [status EXCEPT ![i] = "resolved"]

\* _resolve, under the row lock: the latest of the matches that is still live, which the
\* lock's wait may have passed over for an older one.  If none is left, an audit row.
Resolve(r) ==
  /\ pc[r] = "lock"
  /\ LET live == {i \in matches[r] : Live(i)}
     IN \/ live = {} /\ UNCHANGED <<incidents, history>>
        \/ \E i \in Latest(live) :
             LET ended == {i} \cap {j \in Ids : status'[j] = "resolved"}
             IN /\ Flip(i) /\ ResolveIfQuiet(i)
                /\ byAlert' = byAlert \cup ended
                /\ cleared' = [cleared EXCEPT ![about[r]] = @ \cup ended]
                /\ overtaken' = overtaken \cup
                                  {s \in Requests : pc[s] = "commit" /\ matches[s] \cap ended # {}}
                /\ UNCHANGED <<key, recent, count, rows, opening, stored, late, stale>>
  /\ Goto(r, "202")
  /\ UNCHANGED <<loaded, answer, about, matches, seen, unheard, failures>>

\* Mutant of Reply: the answer does not wait for the commit.
ReplyEarly(r) ==
  /\ pc[r] \in {"commit", "202"}
  /\ answer' = [answer EXCEPT ![about[r]] = 202]
  /\ End(r)
  /\ UNCHANGED <<loaded, incidents, history, unheard, failures>>

\* The source hears that the webhook is settled.
Reply(r) ==
  /\ pc[r] = "202"
  /\ answer' = [answer EXCEPT ![about[r]] = 202]
  /\ End(r)
  /\ UNCHANGED <<loaded, incidents, history, unheard, failures>>

\* The transaction is rolled back, or the answer to what is committed is lost.
Fail(r) ==
  /\ pc[r] # "idle" /\ failures < MaxFailures
  /\ failures' = failures + 1
  /\ unheard' = IF pc[r] = "202" THEN [unheard EXCEPT ![about[r]] = @ + 1] ELSE unheard
  /\ overtaken' = overtaken \ {r}
  /\ End(r)
  /\ UNCHANGED <<loaded, answer, incidents, stored, cleared, byAlert, late, stale>>

-----------------------------------------------------------------------------
(* What others do to the incidents.                                        *)

\* DEDUP_WINDOW passes since an incident was opened, which matters while it may be looked for.
Expire(i) ==
  /\ i \in recent /\ status[i] = "open" /\ \E w \in Webhooks \ Resolving : answer[w] = 0
  /\ recent' = recent \ {i}
  /\ UNCHANGED <<loaded, answer, status, key, count, rows, firing, opening, requests,
                 history, unheard, failures>>

\* The feedback-service posts the card, or an engineer resolves the incident: the alert
\* rows keep their status.
Progress(i) ==
  /\ \E s \in {"investigating", "resolved"} :
       /\ Live(i) /\ status[i] # s
       /\ status' = [status EXCEPT ![i] = s]
  /\ UNCHANGED <<loaded, answer, key, recent, count, rows, firing, opening, requests,
                 history, unheard, failures>>

-----------------------------------------------------------------------------
Handle(r) == Find(r) \/ Commit(r) \/ Resolve(r) \/ Reply(r)

Next ==
  \/ Restart
  \/ \E w \in Webhooks : Refuse(w)
  \/ \E r \in Requests : (\E w \in Webhooks : Receive(r, w)) \/ Handle(r) \/ Fail(r)
  \/ \E i \in Ids : Expire(i) \/ Progress(i)

Spec == Init /\ [][Next]_vars

-----------------------------------------------------------------------------
(* Properties.                                                             *)

Opened == {i \in Ids : status[i] # "absent"}
Pending(w) == {r \in Requests : about[r] = w /\ pc[r] = "202"}

\* A 202 is only heard of an alert that is stored or was looked for, and a 4xx of one
\* that left nothing, not even the trace that its body was read if it is a forgery.
\* One row is stored unless an answer was lost or the source posted before it heard one.
AnswerTells ==
  \A w \in Webhooks :
    /\ (answer[w] = 202 /\ w \notin Resolving) => stored[w] >= 1
    /\ answer[w] \in {401, 422} => stored[w] = 0 /\ cleared[w] = {}
    /\ answer[w] = 401 <=> answer[w] # 0 /\ w \in Forged
    /\ (answer[w] = 0 /\ w \notin Resolving) => stored[w] = unheard[w] + Cardinality(Pending(w))

\* An incident its alert has resolved has no firing row but those of webhooks that found
\* it live and were overtaken: the flip leaves none behind and no later lookup adds one.
StrandedLate == \A i \in byAlert : firing[i] <= late[i]

\* alert_count never exceeds the alert rows, and falls short of them only if a webhook
\* wrote back a count it had read before another's commit.  And exactly one of the
\* incident's events says that it is new, on which the watcher's plan depends.
CountTrails ==
  \A i \in Opened :
    /\ count[i] \in 1 .. rows[i] /\ opening[i] = 1
    /\ i \notin stale => count[i] = rows[i]
=============================================================================
