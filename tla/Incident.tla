------------------------------ MODULE Incident ------------------------------
(***************************************************************************)
(* The life of the incidents of one fingerprint, which three parties       *)
(* change: ingestion attaches firing alerts to them and resolves them when *)
(* the alert clears, engineers resolve them from the Slack card, and the   *)
(* feedback-service moves them to investigating once the card is posted.   *)
(*                                                                         *)
(* Webhook requests, clicks and deliveries of recommendation.created are   *)
(* transactions at READ COMMITTED.  Each is split where another one can    *)
(* come between what it reads and what it does: a firing alert between its *)
(* lookup and its commit, a delivery around the post to Slack, which it    *)
(* makes while it holds the recommendation's row.  The alert rows and      *)
(* alert_count, which decide nothing here, are left out.                   *)
(***************************************************************************)
EXTENDS Naturals, FiniteSets

CONSTANTS
  MaxIncidents, \* bound: how many incidents are opened
  Planned,      \* bound: the incidents that may get a recommendation
  Senders,      \* bound: how many firing webhooks are handled at a time
  Deliveries,   \* bound: how many deliveries are handled at a time
  MaxFailures   \* bound: how many deliveries fail, or die, half-way

ASSUME IncidentAssumption ==
  /\ MaxIncidents \in Nat /\ MaxFailures \in Nat
  /\ Planned \subseteq 1 .. MaxIncidents
  /\ IsFiniteSet(Senders)

Ids == 1 .. MaxIncidents  \* in the order they are opened

VARIABLES
  status,    \* of each incident, or "absent"
  recent,    \* the open incidents still within the dedup window
  rec,       \* incidents with a committed recommendation and its event
  delivered, \* those with slack_message_ts and the event's marker, set together
  target,    \* the incident each sender's lookup found or is to open, or 0
  pc,        \* where each delivery is
  about,     \* the incident whose recommendation it delivers
  seen,      \* the status it read before the post
  cards,     \* the cards posted in Slack about each incident
  lost,      \* history: those whose delivery ended before it was recorded
  failures   \* counter of the bound

rows       == <<status, recent>>
deliveries == <<pc, about, seen>>
slack      == <<cards, lost>>
vars == <<rows, rec, delivered, target, deliveries, slack, failures>>

Steps == {"idle", "gate", "lock", "post", "record"}

-----------------------------------------------------------------------------
\* The edges of the state machine.  No caller reaches closed yet.
VALID_TRANSITIONS ==
  {<<"open", "investigating">>, <<"open", "resolved">>, <<"investigating", "resolved">>}

States == {"open", "investigating", "resolved"}
Live(i) == status[i] \in {"open", "investigating"}

TypeOK ==
  /\ status \in [Ids -> States \cup {"absent"}]
  /\ recent \subseteq Ids
  /\ rec \subseteq Ids
  /\ delivered \subseteq rec
  /\ target \in [Senders -> Ids \cup {0}]
  /\ pc \in [Deliveries -> Steps]
  /\ about \in [Deliveries -> Ids \cup {0}]
  /\ seen \in [Deliveries -> States \cup {"none"}]
  /\ cards \in [Ids -> Nat]
  /\ lost \in [Ids -> Nat]
  /\ failures \in 0 .. MaxFailures

Init ==
  /\ status = [i \in Ids |-> "absent"]
  /\ recent = {}
  /\ rec = {}
  /\ delivered = {}
  /\ target = [s \in Senders |-> 0]
  /\ pc = [d \in Deliveries |-> "idle"]
  /\ about = [d \in Deliveries |-> 0]
  /\ seen = [d \in Deliveries |-> "none"]
  /\ cards = [i \in Ids |-> 0]
  /\ lost = [i \in Ids |-> 0]
  /\ failures = 0

Latest(S) == {i \in S : \A j \in S : j <= i}
Earliest(S) == {i \in S : \A j \in S : i <= j}

-----------------------------------------------------------------------------
(* Ingestion.                                                              *)

\* What a sender will attach its alert to: the latest match, or an incident it is to
\* open, and which is dated by the start of this transaction.
Find(s, matches) ==
  LET unopened == {i \in Ids : status[i] = "absent" /\ \A t \in Senders : target[t] # i}
      found == IF matches # {} THEN Latest(matches) ELSE Earliest(unopened)
  IN \E i \in found : target' = [target EXCEPT ![s] = i]

\* Mutant of FireLookup: the comparison with the cutoff is the wrong way round.
FireLookupOld(s) ==
  /\ target[s] = 0
  /\ Find(s, {i \in Ids \ recent : status[i] = "open"})
  /\ UNCHANGED <<rows, rec, delivered, deliveries, slack, failures>>

\* find_open_incident, without a lock.
FireLookup(s) ==
  /\ target[s] = 0
  /\ Find(s, {i \in recent : status[i] = "open"})
  /\ UNCHANGED <<rows, rec, delivered, deliveries, slack, failures>>

\* persist_alert commits: the incident is opened, or the one that was found gets the
\* alert, whatever has become of it since.
FireCommit(s) ==
  /\ target[s] # 0
  /\ target' = [target EXCEPT ![s] = 0]
  /\ LET i == target[s]
     IN /\ status' = [status EXCEPT ![i] = IF @ = "absent" THEN "open" ELSE @]
        /\ recent' = IF status[i] = "absent" THEN recent \cup {i} ELSE recent
  /\ UNCHANGED <<rec, delivered, deliveries, slack, failures>>

\* DEDUP_WINDOW passes since the incident was opened, which matters while it is open.
Expire(i) ==
  /\ i \in recent /\ status[i] = "open"
  /\ recent' = recent \ {i}
  /\ UNCHANGED <<status, rec, delivered, target, deliveries, slack, failures>>

\* A resolved alert, the whole of it under the incident's row lock: the latest live
\* incident, of whatever age, has all its firing alerts flipped, so none keeps it from
\* being resolved.  If there is no live one, the alert is only audited.
Clear ==
  /\ \E i \in Latest({j \in Ids : Live(j)}) : status' = [status EXCEPT ![i] = "resolved"]
  /\ UNCHANGED <<recent, rec, delivered, target, deliveries, slack, failures>>

-----------------------------------------------------------------------------
(* The pipeline between, and the engineers.                                *)

\* The watcher, the planner and the reasoner give an incident its recommendation and
\* the event recommendation.created, once, whatever its status has become by then.
Recommend(i) ==
  /\ i \in Planned \ rec /\ status[i] # "absent"
  /\ rec' = rec \cup {i}
  /\ UNCHANGED <<rows, delivered, target, deliveries, slack, failures>>

\* The resolve button of a card, which transition_status allows under the row lock if
\* the incident is live.  The alerts keep their status; a loser is only audited.
Click(i) ==
  /\ cards[i] > 0 /\ Live(i)
  /\ status' = [status EXCEPT ![i] = "resolved"]
  /\ UNCHANGED <<recent, rec, delivered, target, deliveries, slack, failures>>

-----------------------------------------------------------------------------
(* The feedback-service.                                                   *)

Goto(d, step) == pc' = [pc EXCEPT ![d] = step]

End(d) ==
  /\ Goto(d, "idle")
  /\ about' = [about EXCEPT ![d] = 0]
  /\ seen' = [seen EXCEPT ![d] = "none"]

Receive(d, i) ==
  /\ pc[d] = "idle" /\ i \in rec
  /\ Goto(d, "gate")
  /\ about' = [about EXCEPT ![d] = i]
  /\ UNCHANGED <<rows, rec, delivered, target, seen, slack, failures>>

\* The event has its marker, and is answered with a 2xx, or it is handled.  Events of
\* another type, only marked, and malformed ones are left out: no other state is theirs.
Gate(d) ==
  /\ pc[d] = "gate"
  /\ IF about[d] \in delivered THEN End(d) ELSE Goto(d, "lock") /\ UNCHANGED <<about, seen>>
  /\ UNCHANGED <<rows, rec, delivered, target, slack, failures>>

\* The recommendation's row is locked from before the post to the end.
Locked(i) == \E d \in Deliveries : about[d] = i /\ pc[d] \in {"post", "record"}

\* The session reads the incident, and keeps what it read.
ReadThenPost(d) ==
  /\ Goto(d, "post")
  /\ seen' = [seen EXCEPT ![d] = status[about[d]]]
  /\ UNCHANGED about

\* Mutants of Lock: FOR UPDATE is left out; a resolved incident is not worth a card; the
\* card is recorded before it is posted.
LockFree(d) ==
  /\ pc[d] = "lock"
  /\ IF about[d] \in delivered THEN End(d) ELSE ReadThenPost(d)
  /\ UNCHANGED <<rows, rec, delivered, target, slack, failures>>
LockLive(d) ==
  /\ pc[d] = "lock" /\ ~Locked(about[d])
  /\ IF about[d] \in delivered \/ ~Live(about[d]) THEN End(d) ELSE ReadThenPost(d)
  /\ UNCHANGED <<rows, rec, delivered, target, slack, failures>>
LockRecording(d) ==
  /\ pc[d] = "lock" /\ ~Locked(about[d])
  /\ IF about[d] \in delivered THEN End(d) ELSE ReadThenPost(d)
  /\ delivered' = delivered \cup {about[d]}
  /\ UNCHANGED <<rows, rec, target, slack, failures>>

\* deliver_rca waits for the recommendation's row, and finds that another delivery
\* has recorded the card, or goes on to post it.
Lock(d) ==
  /\ pc[d] = "lock" /\ ~Locked(about[d])
  /\ IF about[d] \in delivered THEN End(d) ELSE ReadThenPost(d)
  /\ UNCHANGED <<rows, rec, delivered, target, slack, failures>>

\* Slack has the card.
Post(d) ==
  /\ pc[d] = "post"
  /\ Goto(d, "record")
  /\ cards' = [cards EXCEPT ![about[d]] = @ + 1]
  /\ UNCHANGED <<rows, rec, delivered, target, about, seen, lost, failures>>

\* The ts, the marker and the transition are committed together, then answered with a
\* 2xx.  transition_status selects the incident FOR UPDATE, but the session has the row
\* already and hands out that: the edge is judged by the status read before the post,
\* and a status committed during it is overwritten.  An illegal edge is swallowed.
Record(d) ==
  /\ pc[d] = "record"
  /\ delivered' = delivered \cup {about[d]}
  /\ status' = [status EXCEPT ![about[d]] =
                  IF <<seen[d], "investigating">> \in VALID_TRANSITIONS
                  THEN "investigating" ELSE @]
  /\ End(d)
  /\ UNCHANGED <<recent, rec, target, slack, failures>>

\* Slack refuses the card (503), or it accepts it and its answer or the commit is
\* lost, or the process dies: the transaction is rolled back, the card stays.
Fail(d) ==
  /\ pc[d] # "idle" /\ failures < MaxFailures
  /\ failures' = failures + 1
  /\ lost' = IF pc[d] = "record" THEN [lost EXCEPT ![about[d]] = @ + 1] ELSE lost
  /\ End(d)
  /\ UNCHANGED <<rows, rec, delivered, target, cards>>

-----------------------------------------------------------------------------
Handle(d) == Gate(d) \/ Lock(d) \/ Post(d) \/ Record(d)

Next ==
  \/ \E s \in Senders : FireLookup(s) \/ FireCommit(s)
  \/ \E i \in Ids : Expire(i) \/ Recommend(i) \/ Click(i)
  \/ Clear
  \/ \E d \in Deliveries :
       \/ \E i \in Ids : Receive(d, i)
       \/ Handle(d)
       \/ Fail(d)

Spec == Init /\ [][Next]_vars

\* A delivery that can go on does: the post has a timeout.  The outbox delivers the
\* event at least until its card is recorded, in whichever slot is free.
Fairness ==
  /\ \A d \in Deliveries : WF_vars(Handle(d))
  /\ \A i \in Ids : SF_vars(\E d \in Deliveries : i \notin delivered /\ Receive(d, i))

FairSpec == Spec /\ Fairness

-----------------------------------------------------------------------------
(* Properties.                                                             *)

\* Alertmanager and its retries send an alert several times at once: the dedup lookup
\* takes no lock, and so can open as many incidents as webhooks overlap -- but never
\* more, however the lookups, the commits and what resolves the incidents interleave.
DuplicatesBounded ==
  Cardinality({i \in recent : status[i] = "open"}) <= Cardinality(Senders)

\* Each card in the channel is the recorded one, one about to be recorded, or one
\* whose delivery failed after the post: concurrent deliveries add none.  And an
\* incident is investigating only if its card was posted and recorded.
CardsExplained ==
  \A i \in Ids :
    /\ cards[i] = lost[i] + Cardinality({d \in Deliveries : about[d] = i /\ pc[d] = "record"})
                    + (IF i \in delivered THEN 1 ELSE 0)
    /\ status[i] = "investigating" => i \in delivered

\* Once the card is recorded, a resolved incident stays resolved: no delivery that was
\* waiting for the row, and no later alert, takes it back.
FinalOnceTold ==
  [][\A i \in delivered : status[i] = "resolved" => status'[i] = "resolved"]_vars

\* Every recommendation gets its card posted and recorded, whatever becomes of the
\* incident meanwhile and whichever deliveries fail half-way or race.
EventuallyTold == \A i \in Ids : i \in rec ~> i \in delivered

\* delivery.py says a resolved incident is not dragged back to investigating, and the
\* lifecycle that every change of status is one of its edges.
OnlyValidTransitions ==
  [][\A i \in Ids :
       status[i] # "absent" /\ status'[i] # status[i]
         => <<status[i], status'[i]>> \in VALID_TRANSITIONS]_vars
=============================================================================
