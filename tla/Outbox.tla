------------------------------- MODULE Outbox -------------------------------
(***************************************************************************)
(* The transactional outbox: the outbox_events table, the pollers that     *)
(* claim and dispatch its rows, the reapers that recover stranded rows and *)
(* the admins that requeue dead-lettered ones.                             *)
(*                                                                         *)
(* A worker claims a batch in one committed transaction, dispatches its    *)
(* events one at a time with no lock held, and records each outcome in a   *)
(* fresh transaction that first reads the row WITHOUT a lock (session.get) *)
(* and then writes it.  That read and that write are separate steps here,  *)
(* as they are in the database; so are the read and the write of a         *)
(* requeue.  A reaper's sweep locks the rows it reads, and is one step.    *)
(***************************************************************************)
EXTENDS Naturals, FiniteSets

CONSTANTS
  Events,         \* the events ever written to the outbox
  Tokened,        \* those whose target has a dispatch token
  Workers,        \* outbox-worker processes: a poll loop and a reaper each
  Admins,         \* concurrent callers of the requeue endpoint
  None,           \* no event
  BatchSize,      \* DEFAULT_BATCH_SIZE
  MaxAttempts,    \* MAX_ATTEMPTS
  PatientReaper,  \* TRUE: the reaper's age outlasts the handling of a batch
  MaxHalts,       \* bound: how often worker processes stop or crash
  MaxRequeues     \* bound: how many requeues the admins start

ASSUME OutboxAssumption ==
  /\ Tokened \subseteq Events
  /\ None \notin Events
  /\ BatchSize \in Nat \ {0}
  /\ MaxAttempts \in Nat \ {0}
  /\ PatientReaper \in BOOLEAN
  /\ MaxHalts \in Nat
  /\ MaxRequeues \in Nat

VARIABLES
  row,       \* outbox_events; "absent": not yet written, "gone": deleted
  audit,     \* the newest audit_log row about each event
  pc,        \* where each worker's poll loop is
  batch,     \* events a worker has claimed and not yet started to handle
  cur,       \* the event a worker is handling
  result,    \* the outcome of its dispatch
  seen,      \* the row as the recording transaction read it
  requeue,   \* the dead-lettered event an admin's transaction has read
  acked,     \* history: events some dispatch of which was answered 2xx
  halts, requeues   \* counters of the two bounds

tableVars  == <<row, audit>>
workerVars == <<pc, batch, cur, result, seen>>
adminVars  == <<requeue, requeues>>
vars == <<tableVars, workerVars, adminVars, acked, halts>>

Statuses == {"absent", "pending", "processing", "dead_letter", "gone"}
Outcomes == {"delivered", "retryable", "permanent"}
Stored(e) == row[e].status \in {"pending", "processing", "dead_letter"}

\* ripe abstracts the two clocks of a row: a pending row is ripe when
\* process_after <= NOW(), a processing one when updated_at is older than the
\* reaper's interval.
Rows      == [status : Statuses, attempts : Nat, ripe : BOOLEAN]
Snapshots == [status : Statuses, attempts : Nat]
Blank     == [status |-> "absent", attempts |-> 0]

TypeOK ==
  /\ row \in [Events -> Rows]
  /\ audit \in [Events -> {"none", "exhausted", "permanent", "requeued"}]
  /\ pc \in [Workers -> {"idle", "posting", "fetching", "recording", "down"}]
  /\ batch \in [Workers -> SUBSET Events]
  /\ cur \in [Workers -> Events \cup {None}]
  /\ result \in [Workers -> Outcomes \cup {"none"}]
  /\ seen \in [Workers -> Snapshots]
  /\ requeue \in [Admins -> Events \cup {None}]
  /\ acked \in SUBSET Events
  /\ halts \in Nat
  /\ requeues \in Nat

Init ==
  /\ row = [e \in Events |-> [status |-> "absent", attempts |-> 0, ripe |-> FALSE]]
  /\ audit = [e \in Events |-> "none"]
  /\ pc = [w \in Workers |-> "idle"]
  /\ batch = [w \in Workers |-> {}]
  /\ cur = [w \in Workers |-> None]
  /\ result = [w \in Workers |-> "none"]
  /\ seen = [w \in Workers |-> Blank]
  /\ requeue = [a \in Admins |-> None]
  /\ acked = {}
  /\ halts = 0
  /\ requeues = 0

-----------------------------------------------------------------------------
(* The table's operations (radar_database.outbox).                         *)

\* Mutant of Failed: the attempt is not counted.
FailedUncounted(attempts, immediate) ==
  [status |-> "pending", attempts |-> attempts, ripe |-> immediate]

\* Mutant of Failed: > for >=, one attempt too many.
FailedLate(attempts, immediate) ==
  IF attempts + 1 > MaxAttempts
  THEN [status |-> "dead_letter", attempts |-> attempts + 1, ripe |-> FALSE]
  ELSE [status |-> "pending", attempts |-> attempts + 1, ripe |-> immediate]

\* What mark_failed makes of a row it holds: counted, then rescheduled (now if
\* immediate, else after a backoff) or, at the limit, dead-lettered.
Failed(attempts, immediate) ==
  IF attempts + 1 >= MaxAttempts
  THEN [status |-> "dead_letter", attempts |-> attempts + 1, ripe |-> FALSE]
  ELSE [status |-> "pending", attempts |-> attempts + 1, ripe |-> immediate]

\* What dead_letter_now makes of a row.
Condemned(attempts) ==
  [status |-> "dead_letter", attempts |-> attempts + 1, ripe |-> FALSE]

\* The UPDATE the session emits when it flushes `new` over a row it read as
\* `old` and that is `now` by then: attempts is always dirty, status only if it
\* differs from what was READ.
Flushed(now, old, new) ==
  LET status == IF new.status = old.status THEN now.status ELSE new.status
  IN [status   |-> status,
      attempts |-> new.attempts,
      ripe     |-> status = "pending" /\ new.status = "dead_letter" /\ now.ripe]

\* A producer commits its state change and its event.
Write(e) ==
  /\ row[e].status = "absent"
  /\ row' = [row EXCEPT ![e] = [status |-> "pending", attempts |-> 0, ripe |-> TRUE]]
  /\ UNCHANGED <<audit, workerVars, adminVars, acked, halts>>

Holds(w, e) == e \in batch[w] \/ cur[w] = e
Held(e) == \E w \in Workers : Holds(w, e)

\* Time passes: a backoff elapses, or a processing row outlives the reaper's
\* interval -- while a worker is still at it, unless the reaper is patient.
Ripen(e) ==
  /\ ~row[e].ripe
  /\ \/ row[e].status = "pending"
     \/ row[e].status = "processing" /\ (PatientReaper => ~Held(e))
  /\ row' = [row EXCEPT ![e].ripe = TRUE]
  /\ UNCHANGED <<audit, workerVars, adminVars, acked, halts>>

-----------------------------------------------------------------------------
(* The poll loop (Poller) and its handler (DispatchProcessor).             *)

\* Mutant of Due: the claim's WHERE forgets status and schedule.
DueAnyRow == {e \in Events : row[e].status \in {"pending", "processing"}}

Due == {e \in Events : row[e].status = "pending" /\ row[e].ripe}

\* claim_outbox_batch, committed: SKIP LOCKED may leave any due row out.
Claim(w) ==
  /\ pc[w] = "idle" /\ batch[w] = {}
  /\ \E S \in SUBSET Due :
       /\ S # {} /\ Cardinality(S) <= BatchSize
       /\ row' = [e \in Events |->
                    IF e \in S
                    THEN [row[e] EXCEPT !.status = "processing", !.ripe = FALSE]
                    ELSE row[e]]
       /\ batch' = [batch EXCEPT ![w] = S]
  /\ UNCHANGED <<audit, pc, cur, result, seen, adminVars, acked, halts>>

\* The loop takes its next claimed event.  Without a token for its target the
\* dispatcher fails closed: a permanent outcome, and no request is sent.
Dispatch(w) ==
  /\ pc[w] = "idle"
  /\ \E e \in batch[w] :
       /\ batch' = [batch EXCEPT ![w] = @ \ {e}]
       /\ cur' = [cur EXCEPT ![w] = e]
       /\ IF e \in Tokened
          THEN /\ pc' = [pc EXCEPT ![w] = "posting"]
               /\ UNCHANGED result
          ELSE /\ pc' = [pc EXCEPT ![w] = "fetching"]
               /\ result' = [result EXCEPT ![w] = "permanent"]
  /\ UNCHANGED <<tableVars, seen, adminVars, acked, halts>>

\* Mutant of Answer: a 4xx is taken for success.
AnswerLenient(w) ==
  /\ pc[w] = "posting"
  /\ \E r \in Outcomes :
       /\ result' = [result EXCEPT ![w] = IF r = "permanent" THEN "delivered" ELSE r]
       /\ acked' = IF r = "delivered" THEN acked \cup {cur[w]} ELSE acked
  /\ pc' = [pc EXCEPT ![w] = "fetching"]
  /\ UNCHANGED <<tableVars, batch, cur, seen, adminVars, halts>>

\* The POST ends: a 2xx, a retryable status, timeout or connection error, or a
\* permanent status.
Answer(w) ==
  /\ pc[w] = "posting"
  /\ \E r \in Outcomes :
       /\ result' = [result EXCEPT ![w] = r]
       /\ acked' = IF r = "delivered" THEN acked \cup {cur[w]} ELSE acked
  /\ pc' = [pc EXCEPT ![w] = "fetching"]
  /\ UNCHANGED <<tableVars, batch, cur, seen, adminVars, halts>>

\* The worker is done with its event and goes on with its batch.
Finish(w) ==
  /\ pc' = [pc EXCEPT ![w] = "idle"]
  /\ cur' = [cur EXCEPT ![w] = None]
  /\ result' = [result EXCEPT ![w] = "none"]
  /\ seen' = [seen EXCEPT ![w] = Blank]

\* session.get: a plain SELECT.  A row deleted meanwhile is only logged.
Fetch(w) ==
  /\ pc[w] = "fetching"
  /\ IF Stored(cur[w])
     THEN /\ seen' = [seen EXCEPT ![w] =
                        [status |-> row[cur[w]].status, attempts |-> row[cur[w]].attempts]]
          /\ pc' = [pc EXCEPT ![w] = "recording"]
          /\ UNCHANGED <<cur, result>>
     ELSE Finish(w)
  /\ UNCHANGED <<tableVars, batch, adminVars, acked, halts>>

\* The row a failed dispatch leaves, as the recording session computes it from
\* what it read.
Recorded(w) ==
  IF result[w] = "permanent"
  THEN Condemned(seen[w].attempts)
  ELSE Failed(seen[w].attempts, FALSE)

\* The recording transaction commits.  A DELETE removes the row whatever became
\* of it; an UPDATE of a row that is gone raises, and nothing is written.
Record(w) ==
  /\ pc[w] = "recording"
  /\ Finish(w)
  /\ \/ /\ result[w] = "delivered"
        /\ row' = [row EXCEPT ![cur[w]].status = "gone"]
        /\ UNCHANGED audit
     \/ /\ result[w] # "delivered"
        /\ Stored(cur[w])
        /\ row' = [row EXCEPT ![cur[w]] = Flushed(@, seen[w], Recorded(w))]
        /\ audit' = IF Recorded(w).status # "dead_letter" THEN audit
                    ELSE [audit EXCEPT ![cur[w]] =
                            IF result[w] = "permanent" THEN "permanent" ELSE "exhausted"]
     \/ /\ result[w] # "delivered"
        /\ ~Stored(cur[w])
        /\ UNCHANGED tableVars
  /\ UNCHANGED <<batch, adminVars, acked, halts>>

\* The database is unreachable: the loop logs it and goes on, the row stays.
RecordFails(w) ==
  /\ pc[w] \in {"fetching", "recording"}
  /\ Finish(w)
  /\ UNCHANGED <<tableVars, batch, adminVars, acked, halts>>

\* The process stops between two events (the drain abandons the tail of the
\* batch), is cancelled when the drain times out, or dies at any point.
Halt(w) ==
  /\ pc[w] # "down" /\ halts < MaxHalts
  /\ halts' = halts + 1
  /\ pc' = [pc EXCEPT ![w] = "down"]
  /\ batch' = [batch EXCEPT ![w] = {}]
  /\ cur' = [cur EXCEPT ![w] = None]
  /\ result' = [result EXCEPT ![w] = "none"]
  /\ seen' = [seen EXCEPT ![w] = Blank]
  /\ UNCHANGED <<tableVars, adminVars, acked>>

Restart(w) ==
  /\ pc[w] = "down"
  /\ pc' = [pc EXCEPT ![w] = "idle"]
  /\ UNCHANGED <<tableVars, batch, cur, result, seen, adminVars, acked, halts>>

-----------------------------------------------------------------------------
(* The reaper and the admin endpoint.                                      *)

Stuck == {e \in Events : row[e].status = "processing" /\ row[e].ripe}

\* Mutant of Reap: the sweep forgets the promotion to the audit log.
ReapSilently(w) ==
  /\ pc[w] # "down"
  /\ \E S \in SUBSET Stuck :
       /\ S # {} /\ Cardinality(S) <= BatchSize
       /\ row' = [e \in Events |->
                    IF e \in S THEN Failed(row[e].attempts, TRUE) ELSE row[e]]
  /\ UNCHANGED <<audit, workerVars, adminVars, acked, halts>>

\* Mutant of Reap: the sweep reschedules without counting the attempt.
ReapUncounted(w) ==
  /\ pc[w] # "down"
  /\ \E S \in SUBSET Stuck :
       /\ S # {} /\ Cardinality(S) <= BatchSize
       /\ row' = [e \in Events |->
                    IF e \in S
                    THEN [status |-> "pending", attempts |-> row[e].attempts, ripe |-> TRUE]
                    ELSE row[e]]
  /\ UNCHANGED <<audit, workerVars, adminVars, acked, halts>>

\* One sweep of a running process' reaper: claim_stuck_processing, then
\* mark_failed with immediate=True on each row, under the rows' locks.
Reap(w) ==
  /\ pc[w] # "down"
  /\ \E S \in SUBSET Stuck :
       /\ S # {} /\ Cardinality(S) <= BatchSize
       /\ row' = [e \in Events |->
                    IF e \in S THEN Failed(row[e].attempts, TRUE) ELSE row[e]]
       /\ audit' = [e \in Events |->
                      IF e \in S /\ Failed(row[e].attempts, TRUE).status = "dead_letter"
                      THEN "exhausted" ELSE audit[e]]
  /\ UNCHANGED <<workerVars, adminVars, acked, halts>>

\* The requeue endpoint selects the dead-lettered row, without locking it ...
RequeueRead(a) ==
  /\ requeue[a] = None /\ requeues < MaxRequeues
  /\ \E e \in Events :
       /\ row[e].status = "dead_letter"
       /\ requeue' = [requeue EXCEPT ![a] = e]
  /\ requeues' = requeues + 1
  /\ UNCHANGED <<tableVars, workerVars, acked, halts>>

\* ... and commits its reset over whatever the row is by then.
RequeueWrite(a) ==
  /\ requeue[a] # None
  /\ requeue' = [requeue EXCEPT ![a] = None]
  /\ IF Stored(requeue[a])
     THEN /\ row' = [row EXCEPT ![requeue[a]] =
                       [status |-> "pending", attempts |-> 0, ripe |-> TRUE]]
          /\ audit' = [audit EXCEPT ![requeue[a]] = "requeued"]
     ELSE UNCHANGED tableVars
  /\ UNCHANGED <<workerVars, requeues, acked, halts>>

-----------------------------------------------------------------------------
Next ==
  \/ \E e \in Events : Write(e) \/ Ripen(e)
  \/ \E w \in Workers :
       \/ Claim(w) \/ Dispatch(w) \/ Answer(w) \/ Fetch(w) \/ Record(w)
       \/ RecordFails(w) \/ Halt(w) \/ Restart(w) \/ Reap(w)
  \/ \E a \in Admins : RequeueRead(a) \/ RequeueWrite(a)

Spec == Init /\ [][Next]_vars

\* Loops keep looping, requests end (they time out), clocks advance, stopped
\* processes are restarted, an admin's transaction commits.  Nothing says that
\* events are written, that a worker fails or that an admin calls.
Fairness ==
  /\ \A e \in Events : WF_vars(Ripen(e))
  /\ \A w \in Workers :
       /\ WF_vars(Claim(w)) /\ WF_vars(Dispatch(w)) /\ WF_vars(Answer(w))
       /\ WF_vars(Fetch(w)) /\ WF_vars(Record(w)) /\ WF_vars(Restart(w))
       /\ WF_vars(Reap(w))
  /\ \A a \in Admins : WF_vars(RequeueWrite(a))

FairSpec == Spec /\ Fairness

-----------------------------------------------------------------------------
(* Properties.                                                             *)

\* A row is deleted only if its target answered a dispatch of it with a 2xx: no
\* interleaving of late records, sweeps and requeues loses an event.
NoEventLost == \A e \in Events : row[e].status = "gone" => e \in acked

\* A dead-lettered row is always explained by an audit row no older than its
\* last requeue, even when a late record overwrites it or a requeue races it.
DeadLetterAudited ==
  \A e \in Events : row[e].status = "dead_letter" => audit[e] \in {"exhausted", "permanent"}

\* "No event is ever handled twice" (poller.py), "this worker exclusively owns
\* the row: it is processing" (retry.py): a claimed event has one holder, and its
\* row stays processing until that holder has recorded its outcome.
ExclusiveOwner ==
  \A w \in Workers, e \in Events :
    Holds(w, e) =>
      /\ row[e].status = "processing"
      /\ \A v \in Workers \ {w} : ~Holds(v, e)

\* An event still in play has failed fewer than MAX_ATTEMPTS times, and one that
\* is dead-lettered never more often than that.
AttemptsBelowLimit ==
  \A e \in Events :
    /\ row[e].status \in {"pending", "processing"} => row[e].attempts < MaxAttempts
    /\ row[e].attempts <= MaxAttempts

\* Only a requeue takes back an attempt: no record loses another one's count.
NoLostAttempt ==
  [][\A e \in Events :
       row'[e].attempts < row[e].attempts => \E a \in Admins : RequeueWrite(a)]_vars

\* The inductive strengthening of the two: no held row is ripe for a reaper, what a
\* recording transaction has read is still so, and what an admin has read is too.
OneAdmin == \A a, b \in Admins : a = b

Owned ==
  \A w \in Workers, e \in Events :
    Holds(w, e) =>
      /\ row[e].status = "processing" /\ ~row[e].ripe
      /\ \A v \in Workers \ {w} : ~Holds(v, e)

SeenIsCurrent ==
  \A w \in Workers :
    pc[w] = "recording" => /\ seen[w].status = row[cur[w]].status
                          /\ seen[w].attempts = row[cur[w]].attempts

RequeuedIsDead ==
  \A a \in Admins :
    requeue[a] # None => row[requeue[a]].status = "dead_letter"

UnwrittenUntried ==
  \A e \in Events : row[e].status = "absent" => row[e].attempts = 0

OwnInv ==
  Owned /\ SeenIsCurrent /\ RequeuedIsDead /\ UnwrittenUntried /\ AttemptsBelowLimit

\* The promise this module implements when the reaper is patient and at most one
\* admin requeues at a time: see EventDelivery.
Fate(status) ==
  CASE status = "absent" -> "unwritten"
    [] status \in {"pending", "processing"} -> "owed"
    [] status = "dead_letter" -> "dead"
    [] status = "gone" -> "delivered"

Promise == INSTANCE EventDelivery WITH
             Deliverable <- Tokened,
             fate <- [e \in Events |-> Fate(row[e].status)],
             answered <- acked

\* Every step of the outbox is a step of its promise: nothing but a requeue
\* revives a dead-lettered event and nothing but a 2xx removes a row.
KeepsPromise == Promise!Spec

\* ... and it keeps the promise's liveness: no event stays owed for ever.
KeepsPromiseFairly == Promise!FairSpec

\* Every event written is eventually delivered or dead-lettered: crashes,
\* abandoned batches, unreachable databases and overlapping records delay it,
\* but never strand it or send it round for ever.
EventuallySettled ==
  \A e \in Events : Stored(e) ~> row[e].status \in {"gone", "dead_letter"}
=============================================================================
