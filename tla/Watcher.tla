------------------------------ MODULE Watcher ------------------------------
(***************************************************************************)
(* The watcher's POST /events: what becomes of alerts that ingestion has   *)
(* attached to incidents.  Requests handle deliveries of alert.normalized  *)
(* concurrently; each is split where another transaction can commit        *)
(* between what it reads and what it writes.                               *)
(*                                                                         *)
(* Severities are ranks, 0 the most severe.  The counts of the escalation  *)
(* rules are separate queries; they are taken in one step here, as alerts  *)
(* are only added and a later count could only be larger.                  *)
(***************************************************************************)
EXTENDS Integers, FiniteSets, CorrelationRules

CONSTANTS
  Events,     \* the alert.normalized events, one for each alert
  Incidents,
  Requests,   \* bound: how many deliveries are handled at a time
  Foreign,    \* events of another type
  Orphans,    \* events whose incident is gone, or whose payload is malformed
  Fresh,      \* events whose alert opened its incident (deduplicated is false)
  incidentOf, \* the incident of each event
  alert,      \* the service and the name of each event's alert
  received,   \* when RADAR received it, in minutes
  openedAt,   \* when each incident was opened
  initial,    \* the severity it was opened with
  None,       \* no event
  MaxAborts   \* bound: how many requests die half-way

ASSUME WatcherAssumption ==
  /\ Foreign \subseteq Events /\ Orphans \subseteq Events \ Foreign
  /\ Fresh \subseteq Events \ Foreign
  /\ incidentOf \in [Events -> Incidents]
  /\ received \in [Events -> Nat]
  /\ openedAt \in [Incidents -> Nat] /\ initial \in [Incidents -> 0 .. 4]
  /\ \A i, j \in Incidents : openedAt[i] = openedAt[j] => i = j
  /\ \A e \in Events : alert[e].name \in alertNames
  /\ Severities = 0 .. 4
  /\ None \notin Events /\ MaxAborts \in Nat

\* An alert is attached to the incident of its fingerprint (deduper.py), and where
\* the one that opened an incident is refused the incident is gone, so its others are too.
ASSUME AttachedAssumption ==
  /\ \A e, f \in Events \ (Foreign \cup Orphans) :
       incidentOf[e] = incidentOf[f] => alert[e] = alert[f]
  /\ \A f \in Fresh \cap Orphans : \A e \in Events :
       incidentOf[e] = incidentOf[f] => e \in Foreign \cup Orphans

VARIABLES
  arrived,  \* events whose alert, incident and outbox row ingestion has committed
  severity, \* incidents.severity
  plans,    \* incident.plan_requested rows written about each event
  audit,    \* the decision audited about each event
  markers,  \* processed_events of the watcher
  pc,       \* where each request is
  ev,       \* the event it handles
  seen,     \* the severity it has read
  target,   \* the severity it escalates to, or Mild
  decision, \* what it has decided
  aborts    \* counter of the bound

dbVars  == <<severity, plans, audit, markers>>
reqVars == <<pc, ev, seen, target, decision>>
vars == <<arrived, dbVars, reqVars, aborts>>

Mild == 5  \* milder than any severity
Ranks == Severities
Decisions == {"none", "attached", "suppressed", "planned"}
Steps == {"idle", "gate", "load", "count", "write", "decide", "mark", "commit"}

TypeOK ==
  /\ arrived \subseteq Events /\ markers \subseteq arrived
  /\ severity \in [Incidents -> Ranks]
  /\ plans \in [Events -> Nat]
  /\ audit \in [Events -> Decisions]
  /\ pc \in [Requests -> Steps] /\ ev \in [Requests -> Events \cup {None}]
  /\ seen \in [Requests -> Ranks \cup {Mild}] /\ target \in [Requests -> Ranks \cup {Mild}]
  /\ decision \in [Requests -> Decisions]
  /\ aborts \in 0 .. MaxAborts

Init ==
  /\ arrived = {}
  /\ severity = initial
  /\ plans = [e \in Events |-> 0]
  /\ audit = [e \in Events |-> "none"]
  /\ markers = {}
  /\ pc = [r \in Requests |-> "idle"]
  /\ ev = [r \in Requests |-> None]
  /\ seen = [r \in Requests |-> Mild]
  /\ target = [r \in Requests |-> Mild]
  /\ decision = [r \in Requests |-> "none"]
  /\ aborts = 0

About(r) == incidentOf[ev[r]]
Goto(r, step) == pc' = [pc EXCEPT ![r] = step]

End(r) ==
  /\ Goto(r, "idle")
  /\ ev' = [ev EXCEPT ![r] = None]
  /\ seen' = [seen EXCEPT ![r] = Mild]
  /\ target' = [target EXCEPT ![r] = Mild]
  /\ decision' = [decision EXCEPT ![r] = "none"]

-----------------------------------------------------------------------------
\* Ingestion commits an alert with its event, in whatever order its transactions end.
\* A deduplicated alert found its incident committed.
Arrive(e) ==
  /\ e \notin arrived
  /\ e \in Fresh \cup Foreign \cup Orphans
       \/ \E f \in arrived \cap Fresh : incidentOf[f] = incidentOf[e]
  /\ arrived' = arrived \cup {e}
  /\ UNCHANGED <<dbVars, reqVars, aborts>>

\* The alerts attached to incidents so far.
Alerts == arrived \ (Foreign \cup Orphans)
AlertsOf(i) == {e \in Alerts : incidentOf[e] = i}

Receive(r, e) ==
  /\ pc[r] = "idle" /\ e \in arrived
  /\ Goto(r, "gate")
  /\ ev' = [ev EXCEPT ![r] = e]
  /\ UNCHANGED <<arrived, dbVars, seen, target, decision, aborts>>

\* Mutant of Gate: an event of another type is an error.
GateStrict(r) ==
  /\ pc[r] = "gate"
  /\ IF ev[r] \in markers \cup Foreign THEN End(r)
     ELSE Goto(r, "load") /\ UNCHANGED <<ev, seen, target, decision>>
  /\ UNCHANGED <<arrived, dbVars, aborts>>

\* A marked event is answered with a 2xx at once; one of another type is only marked.
Gate(r) ==
  /\ pc[r] = "gate"
  /\ IF ev[r] \in markers THEN End(r)
     ELSE /\ Goto(r, IF ev[r] \in Foreign THEN "mark" ELSE "load")
          /\ UNCHANGED <<ev, seen, target, decision>>
  /\ UNCHANGED <<arrived, dbVars, aborts>>

\* The payload is parsed and the incident loaded; 422 and no marker if either fails.
Load(r) ==
  /\ pc[r] = "load"
  /\ IF ev[r] \in Orphans THEN End(r)
     ELSE /\ Goto(r, "count")
          /\ seen' = [seen EXCEPT ![r] = severity[About(r)]]
          /\ UNCHANGED <<ev, target, decision>>
  /\ UNCHANGED <<arrived, dbVars, aborts>>

\* Mutant of BurstSince: an alert at the very start of the window is not counted.
BurstAfter(e, rule) ==
  rule.threshold <= Cardinality(
    {f \in AlertsOf(incidentOf[e]) : received[f] > received[e] - rule.within})

\* _alerts_received_since: the window starts before this alert and has no end.
BurstSince(e, rule) ==
  rule.threshold <= Cardinality(
    {f \in AlertsOf(incidentOf[e]) : received[f] >= received[e] - rule.within})

\* Of all rules that fire the most severe target counts, and only if it is more severe
\* than what was read.
Escalates(r) ==
  LET fired == {rule.to : rule \in {x \in Escalation : BurstSince(ev[r], x)}}
  IN {s \in fired : (\A t \in fired : s <= t) /\ s < seen[r]}

Count(r) ==
  /\ pc[r] = "count"
  /\ \/ \E s \in Escalates(r) : target' = [target EXCEPT ![r] = s] /\ Goto(r, "write")
     \/ Escalates(r) = {} /\ Goto(r, "decide") /\ UNCHANGED target
  /\ UNCHANGED <<arrived, dbVars, ev, seen, decision, aborts>>

\* The UPDATE of the severity waits for the row, and does not read it again.
Write(r) ==
  /\ pc[r] = "write"
  /\ ~\E s \in Requests \ {r} :
        target[s] # Mild /\ pc[s] \in {"decide", "mark", "commit"} /\ About(s) = About(r)
  /\ Goto(r, "decide")
  /\ UNCHANGED <<arrived, dbVars, ev, seen, target, decision, aborts>>

\* Mutant of Suppressed: a follow-on is looked for on either side of the incident.
SuppressedEither(e) ==
  \E rule \in suppression_for(alert[e].name) : \E j \in Incidents \ {incidentOf[e]} :
    /\ \E f \in AlertsOf(j) : alert[f] = alert[e]
    /\ openedAt[j] >= openedAt[incidentOf[e]] - rule.suppress_follow_on_minutes

\* _suppressed_by: an incident with such an alert was opened within the cooldown before.
Suppressed(e) ==
  \E rule \in suppression_for(alert[e].name) : \E j \in Incidents \ {incidentOf[e]} :
    /\ \E f \in AlertsOf(j) : alert[f] = alert[e]
    /\ openedAt[j] >= openedAt[incidentOf[e]] - rule.suppress_follow_on_minutes
    /\ openedAt[j] <= openedAt[incidentOf[e]]

\* Only the alert that opened the incident may request its plan.
Decide(r) ==
  /\ pc[r] = "decide"
  /\ Goto(r, "mark")
  /\ decision' = [decision EXCEPT ![r] =
                    IF ev[r] \notin Fresh THEN "attached"
                    ELSE IF Suppressed(ev[r]) THEN "suppressed" ELSE "planned"]
  /\ UNCHANGED <<arrived, dbVars, ev, seen, target, aborts>>

\* Mutant of Mark: processed_events has no primary key.
MarkAgain(r) ==
  /\ pc[r] = "mark"
  /\ Goto(r, "commit")
  /\ UNCHANGED <<arrived, dbVars, ev, seen, target, decision, aborts>>

\* The marker's insert waits for another delivery's of the same event, and is refused if
\* that one commits: 500, and all of this transaction is rolled back.
Mark(r) ==
  /\ pc[r] = "mark"
  /\ ~\E s \in Requests \ {r} : pc[s] = "commit" /\ ev[s] = ev[r]
  /\ IF ev[r] \in markers THEN End(r)
     ELSE Goto(r, "commit") /\ UNCHANGED <<ev, seen, target, decision>>
  /\ UNCHANGED <<arrived, dbVars, aborts>>

\* The severity, the plan request, the audit row and the marker land together.
Commit(r) ==
  /\ pc[r] = "commit"
  /\ markers' = markers \cup {ev[r]}
  /\ severity' = IF target[r] = Mild THEN severity
                 ELSE [severity EXCEPT ![About(r)] = target[r]]
  /\ audit' = [audit EXCEPT ![ev[r]] = decision[r]]
  /\ plans' = IF decision[r] = "planned" THEN [plans EXCEPT ![ev[r]] = @ + 1] ELSE plans
  /\ End(r)
  /\ UNCHANGED <<arrived, aborts>>

\* The process dies or the database goes away; after a commit, only the 2xx is lost.
Abort(r) ==
  /\ pc[r] # "idle" /\ aborts < MaxAborts
  /\ aborts' = aborts + 1
  /\ End(r)
  /\ UNCHANGED <<arrived, dbVars>>

-----------------------------------------------------------------------------
Handle(r) ==
  Gate(r) \/ Load(r) \/ Count(r) \/ Write(r) \/ Decide(r) \/ Mark(r) \/ Commit(r)

Next ==
  \/ \E e \in Events : Arrive(e)
  \/ \E r \in Requests : (\E e \in Events : Receive(r, e)) \/ Handle(r) \/ Abort(r)

Spec == Init /\ [][Next]_vars

\* A request that can go on does, and the outbox delivers an event until it is marked.
Fairness ==
  /\ \A r \in Requests : WF_vars(Handle(r))
  /\ \A e \in Events : SF_vars(\E r \in Requests : e \notin markers /\ Receive(r, e))

FairSpec == Spec /\ Fairness

-----------------------------------------------------------------------------
(* Properties.                                                             *)

Handled(i) == AlertsOf(i) \subseteq markers

\* However deliveries of an event overlap, its one decision and at most one plan request
\* stand with its marker: a marker without them would be an incident never investigated.
DecidedOnce ==
  \A e \in Events :
    /\ audit[e] # "none" <=> e \in markers \ Foreign
    /\ plans[e] = IF audit[e] = "planned" THEN 1 ELSE 0

\* A suppressed follow-on always leaves an earlier incident of its alert that is, or is
\* still to be, investigated: no two incidents of an episode suppress each other.
EpisodeInvestigated ==
  \A e \in Events :
    audit[e] = "suppressed" =>
      \E f \in Fresh \cap Alerts :
        /\ alert[f] = alert[e] /\ openedAt[incidentOf[f]] < openedAt[incidentOf[e]]
        /\ audit[f] \in {"none", "planned"}

\* Once the alerts of a burst are handled, in whatever order they were committed and
\* delivered, their incident has been escalated, and an update lost between overlapping
\* requests is an escalation too: severity is not what the incident was opened with.
BurstEscalates ==
  \A i \in Incidents : \A rule \in Escalation : \A e \in AlertsOf(i) :
    LET burst == {f \in AlertsOf(i) :
                    received[e] - rule.within <= received[f] /\ received[f] <= received[e]}
    IN (Handled(i) /\ rule.to < initial[i] /\ Cardinality(burst) >= rule.threshold)
       => severity[i] < initial[i]

\* Every event ingestion has committed is decided, except the refused ones.
EventuallyDecided == \A e \in Events \ Orphans : e \in arrived ~> e \in markers
=============================================================================
