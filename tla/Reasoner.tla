------------------------------ MODULE Reasoner ------------------------------
(***************************************************************************)
(* The reasoner's POST /events: requests that handle deliveries of         *)
(* incident.reasoning_requested events concurrently, over one database.    *)
(*                                                                         *)
(* A first transaction asks whether the event was handled and reads the    *)
(* incident and its plan.  Then, with no transaction open, the knowledge   *)
(* service and the LLM are called, for tens of seconds.  A second one      *)
(* checks the rows again and writes the recommendation.  What these calls  *)
(* return is data; that none of their outcomes can keep an incident from   *)
(* its recommendation is the module's subject, with the races the Planner  *)
(* has too and rows that are deleted under a request.  Reasoning says what *)
(* row the outcomes of the calls become.                                   *)
(***************************************************************************)
EXTENDS Naturals, Sequences, FiniteSets, Reasoning

CONSTANTS
  Events,     \* the events the outbox may deliver
  Incidents,
  Requests,   \* bound: how many deliveries are handled at a time
  Foreign,    \* events that are not incident.reasoning_requested
  Orphans,    \* malformed, or pairing an incident with another one's plan
  incidentOf, \* the incident each event is about
  alertOf,    \* the service and the name of each incident's first alert
  None,
  MaxAborts,  \* bound: how many requests die half-way
  MaxVanish   \* bound: how many incidents are deleted, with their plans

ASSUME ReasonerAssumption ==
  /\ Foreign \subseteq Events
  /\ Orphans \subseteq Events \ Foreign
  /\ incidentOf \in [Events -> Incidents]
  /\ None \notin Events
  /\ alertOf \in [Incidents -> [service : Seq(STRING), name : Seq(STRING)]]
  /\ MaxAborts \in Nat /\ MaxVanish \in Nat

VARIABLES
  present,  \* incidents whose rows, the plan among them, have not been deleted
  recs,     \* recommendations: the committed rows of each incident
  created,  \* committed recommendation.created outbox rows of each
  audit,    \* the audit_log row committed about each event
  markers,  \* processed_events
  pc,       \* where each request is
  ev,       \* the event it handles
  retrieved,\* what the knowledge service did for it
  answer,   \* what the llm-gateway did for it
  wrote,    \* what its open transaction has inserted
  answered, \* history: events answered with a 2xx
  aborts, vanished  \* counters of the bounds

dbVars  == <<present, recs, created, audit, markers>>
reqVars == <<pc, ev, retrieved, answer, wrote>>
bounds  == <<aborts, vanished>>
vars == <<dbVars, reqVars, answered, bounds>>

Steps == {"idle", "gate", "context", "retrieve", "call", "check", "insert", "mark",
          "recheck", "remark", "commit", "reply"}

-----------------------------------------------------------------------------
\* The steps of an incident's plan: those of the template that served its alert.
Plan(i) == OrderedSteps(alertOf[i].service, alertOf[i].name)

TypeOK ==
  /\ present \subseteq Incidents
  /\ recs \in [Incidents -> Seq(ReasoningOutcome)]
  /\ created \in [Incidents -> Nat]
  /\ audit \in [Events -> {"none", "created", "duplicate"}]
  /\ markers \subseteq Events
  /\ pc \in [Requests -> Steps]
  /\ ev \in [Requests -> Events \cup {None}]
  /\ retrieved \in [Requests -> Retrievals \cup {None}]
  /\ answer \in [Requests -> Answers \cup {None}]
  /\ wrote \in [Requests -> SUBSET {"recommendation", "marker"}]
  /\ answered \subseteq Events
  /\ aborts \in Nat
  /\ vanished \in Nat

Init ==
  /\ present = Incidents
  /\ recs = [i \in Incidents |-> << >>]
  /\ created = [i \in Incidents |-> 0]
  /\ audit = [e \in Events |-> "none"]
  /\ markers = {}
  /\ pc = [r \in Requests |-> "idle"]
  /\ ev = [r \in Requests |-> None]
  /\ retrieved = [r \in Requests |-> None]
  /\ answer = [r \in Requests |-> None]
  /\ wrote = [r \in Requests |-> {}]
  /\ answered = {}
  /\ aborts = 0
  /\ vanished = 0

About(r) == incidentOf[ev[r]]
Goto(r, step) == pc' = [pc EXCEPT ![r] = step]

\* The request ends without a 2xx, or after it, and with it its transaction.
End(r) ==
  /\ Goto(r, "idle")
  /\ ev' = [ev EXCEPT ![r] = None]
  /\ retrieved' = [retrieved EXCEPT ![r] = None]
  /\ answer' = [answer EXCEPT ![r] = None]
  /\ wrote' = [wrote EXCEPT ![r] = {}]

Proceed(r, step) ==
  /\ Goto(r, step)
  /\ UNCHANGED <<ev, retrieved, answer, wrote>>

-----------------------------------------------------------------------------
Receive(r, e) ==
  /\ pc[r] = "idle"
  /\ Goto(r, "gate")
  /\ ev' = [ev EXCEPT ![r] = e]
  /\ UNCHANGED <<dbVars, retrieved, answer, wrote, answered, bounds>>

\* The gate, before the event is interpreted at all: a redelivery must not reach a
\* call that costs money.  An event of another type is only marked.
Gate(r) ==
  /\ pc[r] = "gate"
  /\ Proceed(r, CASE ev[r] \in markers -> "reply"
                  [] ev[r] \in Foreign \ markers -> "mark"
                  [] OTHER -> "context")
  /\ UNCHANGED <<dbVars, answered, bounds>>

\* The payload is parsed and build_context_bundle reads the incident, its plan and
\* its first alert: 422 and no marker if one is missing or the pair does not match.
Context(r) ==
  /\ pc[r] = "context"
  /\ IF ev[r] \in Orphans \/ About(r) \notin present
     THEN End(r) ELSE Proceed(r, "retrieve")
  /\ UNCHANGED <<dbVars, answered, bounds>>

\* KnowledgeClient.fetch, which never raises.  No transaction is open.
Retrieve(r, g) ==
  /\ pc[r] = "retrieve"
  /\ Goto(r, "call")
  /\ retrieved' = [retrieved EXCEPT ![r] = g]
  /\ UNCHANGED <<dbVars, ev, answer, wrote, answered, bounds>>

\* Mutant of Call: a request the gateway rejects is an error of the handler's.
CallRaising(r, a) ==
  /\ pc[r] = "call"
  /\ IF a.failure = "rejected" THEN End(r)
     ELSE /\ Goto(r, "check")
          /\ answer' = [answer EXCEPT ![r] = a]
          /\ UNCHANGED <<ev, retrieved, wrote>>
  /\ UNCHANGED <<dbVars, answered, bounds>>

\* GatewayClient.complete, which never raises either, and resolve.
Call(r, a) ==
  /\ pc[r] = "call"
  /\ Goto(r, "check")
  /\ answer' = [answer EXCEPT ![r] = a]
  /\ UNCHANGED <<dbVars, ev, retrieved, wrote, answered, bounds>>

\* store_recommendation, in a new session: the incident and the plan are looked up
\* again, without a lock (422 and no marker if one has vanished), then an earlier
\* recommendation of the incident.
Check(r) ==
  /\ pc[r] = "check"
  /\ IF About(r) \notin present THEN End(r)
     ELSE Proceed(r, IF recs[About(r)] # << >> THEN "mark" ELSE "insert")
  /\ UNCHANGED <<dbVars, answered, bounds>>

\* An open transaction of another request holds the key this one wants.
Waits(r, key) ==
  \E s \in Requests \ {r} :
    /\ key \in wrote[s]
    /\ CASE key = "recommendation" -> About(s) = About(r)
         [] key = "marker"         -> ev[s] = ev[r]

\* The recommendation is flushed: if another was committed since the pre-check, the
\* unique index refuses this one and the transaction is rolled back.  The foreign
\* keys are deferred to the commit.
Insert(r) ==
  /\ pc[r] = "insert"
  /\ ~Waits(r, "recommendation")
  /\ IF recs[About(r)] # << >>
     THEN Proceed(r, "recheck")
     ELSE /\ Goto(r, "mark")
          /\ wrote' = [wrote EXCEPT ![r] = {"recommendation"}]
          /\ UNCHANGED <<ev, retrieved, answer>>
  /\ UNCHANGED <<dbVars, answered, bounds>>

\* The transaction is rolled back by an IntegrityError, to be absorbed in another --
\* unless it was only to ignore the event.
RollBack(r) ==
  IF ev[r] \in Foreign THEN End(r)
  ELSE /\ Goto(r, "recheck")
       /\ wrote' = [wrote EXCEPT ![r] = {}]
       /\ UNCHANGED <<ev, retrieved, answer>>

\* mark_processed flushes the marker, the primary key of which refuses a second one.
Mark(r) ==
  /\ pc[r] = "mark"
  /\ ~Waits(r, "marker")
  /\ IF ev[r] \in markers THEN RollBack(r)
     ELSE /\ Goto(r, "commit")
          /\ wrote' = [wrote EXCEPT ![r] = @ \cup {"marker"}]
          /\ UNCHANGED <<ev, retrieved, answer>>
  /\ UNCHANGED <<dbVars, answered, bounds>>

\* _absorb_race asks for the marker again, in a new transaction, and marks the event
\* as a duplicate.  A refusal there is nobody's to absorb: 500.
Recheck(r) ==
  /\ pc[r] = "recheck"
  /\ Proceed(r, IF ev[r] \in markers THEN "reply" ELSE "remark")
  /\ UNCHANGED <<dbVars, answered, bounds>>

Remark(r) ==
  /\ pc[r] = "remark"
  /\ ~Waits(r, "marker")
  /\ IF ev[r] \in markers THEN End(r)
     ELSE /\ Goto(r, "commit")
          /\ wrote' = [wrote EXCEPT ![r] = {"marker"}]
          /\ UNCHANGED <<ev, retrieved, answer>>
  /\ UNCHANGED <<dbVars, answered, bounds>>

\* The row a request stores.
Row(r) == Resolve(Plan(About(r)), retrieved[r], answer[r])

\* Mutant of Land: a duplicate announces the recommendation again.
LandTwice(r) ==
  /\ markers' = markers \cup {ev[r]}
  /\ created' = [created EXCEPT ![About(r)] = @ + 1]
  /\ IF "recommendation" \in wrote[r]
     THEN /\ recs' = [recs EXCEPT ![About(r)] = Append(@, Row(r))]
          /\ audit' = [audit EXCEPT ![ev[r]] = "created"]
     ELSE /\ audit' = [audit EXCEPT ![ev[r]] = "duplicate"]
          /\ UNCHANGED recs

\* What a transaction commits: the recommendation, the outbox event, the audit row
\* and the marker, together.
Land(r) ==
  /\ markers' = markers \cup {ev[r]}
  /\ IF "recommendation" \in wrote[r]
     THEN /\ recs' = [recs EXCEPT ![About(r)] = Append(@, Row(r))]
          /\ created' = [created EXCEPT ![About(r)] = @ + 1]
          /\ audit' = [audit EXCEPT ![ev[r]] = "created"]
     ELSE /\ audit' = IF ev[r] \in Foreign THEN audit
                      ELSE [audit EXCEPT ![ev[r]] = "duplicate"]
          /\ UNCHANGED <<recs, created>>

\* At the commit the deferred foreign keys are checked.  If the incident or its plan
\* vanished since Check, that is an IntegrityError too, and is absorbed as a race.
Commit(r) ==
  /\ pc[r] = "commit"
  /\ IF "recommendation" \in wrote[r] /\ About(r) \notin present
     THEN /\ RollBack(r)
          /\ UNCHANGED dbVars
     ELSE /\ Land(r)
          /\ Goto(r, "reply")
          /\ wrote' = [wrote EXCEPT ![r] = {}]
          /\ UNCHANGED <<present, ev, retrieved, answer>>
  /\ UNCHANGED <<answered, bounds>>

Reply(r) ==
  /\ pc[r] = "reply"
  /\ answered' = answered \cup {ev[r]}
  /\ End(r)
  /\ UNCHANGED <<dbVars, bounds>>

\* The process dies or the database goes away: the worker gets no 2xx.
Abort(r) ==
  /\ pc[r] # "idle" /\ aborts < MaxAborts
  /\ aborts' = aborts + 1
  /\ End(r)
  /\ UNCHANGED <<dbVars, answered, vanished>>

\* An operator or a cleanup deletes an incident and its plan, which the foreign keys
\* allow until a recommendation that refers to them has been committed.
Vanish(i) ==
  /\ i \in present /\ recs[i] = << >> /\ vanished < MaxVanish
  /\ vanished' = vanished + 1
  /\ present' = present \ {i}
  /\ UNCHANGED <<recs, created, audit, markers, reqVars, answered, aborts>>

-----------------------------------------------------------------------------
Handle(r) ==
  \/ Gate(r) \/ Context(r) \/ Check(r) \/ Insert(r) \/ Mark(r) \/ Recheck(r)
  \/ Remark(r) \/ Commit(r) \/ Reply(r)
  \/ \E g \in Retrievals : Retrieve(r, g)
  \/ \E a \in Answers : Call(r, a)

Next ==
  \/ \E r \in Requests :
       \/ \E e \in Events : Receive(r, e)
       \/ Handle(r)
       \/ Abort(r)
  \/ \E i \in Incidents : Vanish(i)

Spec == Init /\ [][Next]_vars

\* A request that can go on does: both remote calls have a budget.  The outbox
\* delivers an event until it is answered; strong fairness, because the server has
\* no slots that deliveries of other events could keep taken.
Fairness ==
  /\ \A r \in Requests : WF_vars(Handle(r))
  /\ \A e \in Events : SF_vars(\E r \in Requests : e \notin answered /\ Receive(r, e))

FairSpec == Spec /\ Fairness

-----------------------------------------------------------------------------
(* Properties.                                                             *)

\* One recommendation per incident, and one card's worth of recommendation.created,
\* whatever deliveries overlap during the tens of seconds the LLM takes: engineers
\* would get two contradictory cards.
OneRecommendation == \A i \in Incidents : Len(recs[i]) <= 1 /\ created[i] = Len(recs[i])

\* The marker lands with the recommendation or not at all: a processed event's
\* incident has one, so the duplicate answered with a 2xx had nothing left to do.
MarkedIsRecommended ==
  \A e \in markers \ Foreign : recs[incidentOf[e]] # << >>

\* The same where rows may be deleted: only an incident that is itself gone can be
\* left without its recommendation by a processed event.
ForgottenIsGone ==
  \A e \in markers \ Foreign :
    recs[incidentOf[e]] = << >> => incidentOf[e] \notin present

\* The worker deletes an event once it is answered with a 2xx: by then it has been
\* recorded, in a transaction that has committed.
AnsweredIsMarked == answered \subseteq markers

\* Every event processed has its audit row -- rewritten by the recovery transaction if
\* the first was rolled back -- and each recommendation exactly one creator.
EveryDecisionAudited ==
  /\ \A e \in Events : audit[e] # "none" <=> e \in markers \ Foreign
  /\ \A i \in Incidents :
       Cardinality({e \in Events : incidentOf[e] = i /\ audit[e] = "created"})
         = Len(recs[i])

\* A stored row says what happened: it has the cost of the call exactly if the model
\* answered, usably or not; a template never passes for an analysis; and what grounded
\* the prompt is there exactly if something did.  Whatever it is, it tells what to do.
Truthful(row) ==
  /\ row.cost <=> row.fallback \notin LLMFailureReason
  /\ row.provider = "none" <=> row.fallback # "no"
  /\ row.fallback # "no" => row.confidence = "low"
  /\ row.chunks # {} <=> row.grounding = "grounded"
  /\ row.actions # {}

RowsTruthful == \A i \in Incidents : \A k \in DOMAIN recs[i] : Truthful(recs[i][k])

\* The reasoner promises exactly one effect from at-least-once delivery.
Promise == INSTANCE ExactlyOnce WITH
             Subjects <- Incidents, subject <- incidentOf,
             effects <- [i \in Incidents |-> Len(recs[i])],
             emitted <- created, gone <- Incidents \ present, handled <- markers

KeepsPromise == Promise!Spec

\* Whatever the knowledge service and the LLM do, and however often: an event is
\* answered, so its incident has its recommendation, unless the incident is deleted.
EventuallyAnswered ==
  \A e \in Events \ Orphans : <>(e \in answered \/ incidentOf[e] \notin present)
=============================================================================
