------------------------------ MODULE Planner ------------------------------
(***************************************************************************)
(* The planner's POST /events: requests that handle deliveries of          *)
(* incident.plan_requested events concurrently, over one database.         *)
(*                                                                         *)
(* The outbox delivers at least once: an event may arrive again at any     *)
(* time, also while an earlier delivery of it is still being handled, and  *)
(* two events may ask for a plan of the same incident.  Each SELECT of the *)
(* handler reads what is committed by then; an INSERT waits for an open    *)
(* transaction that has inserted the same key, and fails if it commits.    *)
(***************************************************************************)
EXTENDS Naturals, FiniteSets

CONSTANTS
  Events,     \* the events the outbox may deliver
  Incidents,
  Requests,   \* bound: how many deliveries are handled at a time
  Foreign,    \* events that are not incident.plan_requested
  Orphans,    \* events whose incident is gone, or whose payload is malformed
  incidentOf, \* the incident each event is about
  None,       \* no event
  MaxAborts   \* bound: how many requests die half-way

ASSUME PlannerAssumption ==
  /\ Foreign \subseteq Events
  /\ Orphans \subseteq Events \ Foreign
  /\ incidentOf \in [Events -> Incidents]
  /\ None \notin Events
  /\ MaxAborts \in Nat

VARIABLES
  plans,      \* investigation_plans: committed rows of each incident
  requested,  \* committed incident.reasoning_requested outbox rows of each
  audit,      \* the audit_log row committed about each event
  markers,    \* processed_events
  pc,         \* where each request is
  ev,         \* the event it handles
  wrote,      \* what its open transaction has inserted
  answered,   \* history: events answered with a 2xx
  aborts      \* counter of the bound

dbVars  == <<plans, requested, audit, markers>>
reqVars == <<pc, ev, wrote>>
vars == <<dbVars, reqVars, answered, aborts>>

Steps == {"idle", "gate", "check", "insert", "mark", "recheck", "remark",
          "commit", "reply"}

TypeOK ==
  /\ plans \in [Incidents -> Nat]
  /\ requested \in [Incidents -> Nat]
  /\ audit \in [Events -> {"none", "created", "duplicate"}]
  /\ markers \in SUBSET Events
  /\ pc \in [Requests -> Steps]
  /\ ev \in [Requests -> Events \cup {None}]
  /\ wrote \in [Requests -> SUBSET {"plan", "marker"}]
  /\ answered \in SUBSET Events
  /\ aborts \in Nat

Init ==
  /\ plans = [i \in Incidents |-> 0]
  /\ requested = [i \in Incidents |-> 0]
  /\ audit = [e \in Events |-> "none"]
  /\ markers = {}
  /\ pc = [r \in Requests |-> "idle"]
  /\ ev = [r \in Requests |-> None]
  /\ wrote = [r \in Requests |-> {}]
  /\ answered = {}
  /\ aborts = 0

About(r) == incidentOf[ev[r]]
Goto(r, step) == pc' = [pc EXCEPT ![r] = step]

\* The request ends without a 2xx, or after it: its transaction, if one is still
\* open, is rolled back.
End(r) ==
  /\ Goto(r, "idle")
  /\ ev' = [ev EXCEPT ![r] = None]
  /\ wrote' = [wrote EXCEPT ![r] = {}]

-----------------------------------------------------------------------------
Receive(r, e) ==
  /\ pc[r] = "idle"
  /\ Goto(r, "gate")
  /\ ev' = [ev EXCEPT ![r] = e]
  /\ UNCHANGED <<dbVars, wrote, answered, aborts>>

\* Mutant of Gate: an event of another type is an error.
GateStrict(r) ==
  /\ pc[r] = "gate"
  /\ IF ev[r] \in Foreign THEN End(r)
     ELSE /\ Goto(r, IF ev[r] \in markers THEN "reply" ELSE "check")
          /\ UNCHANGED <<ev, wrote>>
  /\ UNCHANGED <<dbVars, answered, aborts>>

\* The gate: is_already_processed, before the event is interpreted at all.  An
\* event of another type is only marked.
Gate(r) ==
  /\ pc[r] = "gate"
  /\ Goto(r, IF ev[r] \in markers THEN "reply"
             ELSE IF ev[r] \in Foreign THEN "mark" ELSE "check")
  /\ UNCHANGED <<dbVars, ev, wrote, answered, aborts>>

\* The payload is parsed and the incident loaded (422 if either fails, and no
\* marker); then the pre-check looks for a plan.
Check(r) ==
  /\ pc[r] = "check"
  /\ IF ev[r] \in Orphans THEN End(r)
     ELSE /\ Goto(r, IF plans[About(r)] > 0 THEN "mark" ELSE "insert")
          /\ UNCHANGED <<ev, wrote>>
  /\ UNCHANGED <<dbVars, answered, aborts>>

\* An open transaction of another request holds the key this one wants.
Waits(r, key) ==
  \E s \in Requests \ {r} :
    /\ key \in wrote[s]
    /\ CASE key = "plan"   -> About(s) = About(r)
         [] key = "marker" -> ev[s] = ev[r]

\* The plan and its outbox event are flushed.  If another plan was committed
\* since the pre-check, the unique index refuses this one, and the transaction
\* is rolled back.
Insert(r) ==
  /\ pc[r] = "insert"
  /\ ~Waits(r, "plan")
  /\ IF plans[About(r)] > 0
     THEN /\ Goto(r, "recheck")
          /\ UNCHANGED wrote
     ELSE /\ Goto(r, "mark")
          /\ wrote' = [wrote EXCEPT ![r] = {"plan"}]
  /\ UNCHANGED <<dbVars, ev, answered, aborts>>

\* mark_processed flushes the marker.  If another delivery of the event has
\* committed one, the primary key refuses it and the transaction is rolled back --
\* to be absorbed, unless it was only to ignore the event.
Mark(r) ==
  /\ pc[r] = "mark"
  /\ ~Waits(r, "marker")
  /\ IF ev[r] \notin markers
     THEN /\ Goto(r, "commit")
          /\ wrote' = [wrote EXCEPT ![r] = @ \cup {"marker"}]
          /\ UNCHANGED ev
     ELSE IF ev[r] \in Foreign
     THEN End(r)
     ELSE /\ Goto(r, "recheck")
          /\ wrote' = [wrote EXCEPT ![r] = {}]
          /\ UNCHANGED ev
  /\ UNCHANGED <<dbVars, answered, aborts>>

\* _absorb_duplicate opens a new transaction and asks for the marker again.
Recheck(r) ==
  /\ pc[r] = "recheck"
  /\ Goto(r, IF ev[r] \in markers THEN "reply" ELSE "remark")
  /\ UNCHANGED <<dbVars, ev, wrote, answered, aborts>>

\* It marks the event as a duplicate.  A refusal here is nobody's to absorb: 500.
Remark(r) ==
  /\ pc[r] = "remark"
  /\ ~Waits(r, "marker")
  /\ IF ev[r] \in markers THEN End(r)
     ELSE /\ Goto(r, "commit")
          /\ wrote' = [wrote EXCEPT ![r] = {"marker"}]
          /\ UNCHANGED ev
  /\ UNCHANGED <<dbVars, answered, aborts>>

\* Mutants of Commit: the duplicate's audit row is left out; the duplicate asks the
\* reasoner again.
CommitUnaudited(r) ==
  /\ pc[r] = "commit"
  /\ Goto(r, "reply")
  /\ wrote' = [wrote EXCEPT ![r] = {}]
  /\ markers' = markers \cup {ev[r]}
  /\ IF "plan" \in wrote[r]
     THEN /\ plans' = [plans EXCEPT ![About(r)] = @ + 1]
          /\ requested' = [requested EXCEPT ![About(r)] = @ + 1]
          /\ audit' = [audit EXCEPT ![ev[r]] = "created"]
     ELSE UNCHANGED <<plans, requested, audit>>
  /\ UNCHANGED <<ev, answered, aborts>>
CommitTwice(r) ==
  /\ pc[r] = "commit"
  /\ Goto(r, "reply")
  /\ wrote' = [wrote EXCEPT ![r] = {}]
  /\ markers' = markers \cup {ev[r]}
  /\ requested' = [requested EXCEPT ![About(r)] = @ + 1]
  /\ IF "plan" \in wrote[r]
     THEN /\ plans' = [plans EXCEPT ![About(r)] = @ + 1]
          /\ audit' = [audit EXCEPT ![ev[r]] = "created"]
     ELSE /\ audit' = [audit EXCEPT ![ev[r]] = "duplicate"]
          /\ UNCHANGED plans
  /\ UNCHANGED <<ev, answered, aborts>>

\* The plan, the outbox event, the audit row and the marker land together.
Commit(r) ==
  /\ pc[r] = "commit"
  /\ Goto(r, "reply")
  /\ wrote' = [wrote EXCEPT ![r] = {}]
  /\ markers' = markers \cup {ev[r]}
  /\ IF "plan" \in wrote[r]
     THEN /\ plans' = [plans EXCEPT ![About(r)] = @ + 1]
          /\ requested' = [requested EXCEPT ![About(r)] = @ + 1]
          /\ audit' = [audit EXCEPT ![ev[r]] = "created"]
     ELSE /\ audit' = IF ev[r] \in Foreign THEN audit
                      ELSE [audit EXCEPT ![ev[r]] = "duplicate"]
          /\ UNCHANGED <<plans, requested>>
  /\ UNCHANGED <<ev, answered, aborts>>

Reply(r) ==
  /\ pc[r] = "reply"
  /\ answered' = answered \cup {ev[r]}
  /\ End(r)
  /\ UNCHANGED <<dbVars, aborts>>

\* The process dies or the database goes away, before the commit or after it: the
\* worker gets no 2xx.
Abort(r) ==
  /\ pc[r] # "idle" /\ aborts < MaxAborts
  /\ aborts' = aborts + 1
  /\ End(r)
  /\ UNCHANGED <<dbVars, answered>>

-----------------------------------------------------------------------------
Handle(r) ==
  \/ Gate(r) \/ Check(r) \/ Insert(r) \/ Mark(r) \/ Recheck(r) \/ Remark(r)
  \/ Commit(r) \/ Reply(r)

Next ==
  \E r \in Requests :
    \/ \E e \in Events : Receive(r, e)
    \/ Handle(r)
    \/ Abort(r)

Spec == Init /\ [][Next]_vars

\* A request that can go on does, and the outbox delivers an event until it is
\* answered.  Strong fairness, for the bound on Requests: the server has no slots
\* that deliveries of other events could keep taken.
Fairness ==
  /\ \A r \in Requests : WF_vars(Handle(r))
  /\ \A e \in Events : SF_vars(\E r \in Requests : e \notin answered /\ Receive(r, e))

FairSpec == Spec /\ Fairness

-----------------------------------------------------------------------------
(* Properties.                                                             *)

\* One plan per incident and one reasoning_requested per plan, whatever deliveries
\* of whatever events overlap: a second one would pay for a second analysis.
OnePlan == \A i \in Incidents : plans[i] <= 1 /\ requested[i] = plans[i]

\* A marker is never ahead of the work: once an event counts as processed, its
\* incident has its plan.  Had the loser of a race been absorbed by a marker
\* while the winner could still roll back, the incident would never get one.
MarkedIsPlanned ==
  \A e \in markers \ Foreign : plans[incidentOf[e]] > 0

\* The worker deletes an event once it is answered with a 2xx: it has been recorded
\* by then, in a transaction that has committed.
AnsweredIsMarked == answered \subseteq markers

\* Every event processed has its audit row -- written by the recovery transaction if
\* the first was rolled back -- and one of an incident's events created its plan.
EveryDecisionAudited ==
  /\ \A e \in Events : audit[e] # "none" <=> e \in markers \ Foreign
  /\ \A i \in Incidents :
       Cardinality({e \in Events : incidentOf[e] = i /\ audit[e] = "created"}) = plans[i]

\* The planner promises exactly one effect from at-least-once delivery.
Promise == INSTANCE ExactlyOnce WITH
             Subjects <- Incidents, subject <- incidentOf,
             effects <- plans, emitted <- requested, gone <- {}, handled <- markers

KeepsPromise == Promise!Spec

\* Lock waits, lost races, 500s of the recovery and crashes delay an event, but it
\* is planned in the end, or absorbed: no two requests wait for each other.
EventuallyAnswered ==
  \A e \in Events \ Orphans : <>(e \in answered)
=============================================================================
