---------------------------- MODULE OutboxProofs ----------------------------
(***************************************************************************)
(* Theorems about Outbox, for any sets of events, workers and admins, any  *)
(* batch size, any attempt limit and any bounds.                           *)
(***************************************************************************)
EXTENDS Outbox, TLAPS

-----------------------------------------------------------------------------
(* Lemmas about the table's operations.                                    *)

LEMMA FailedIsRow ==
  ASSUME NEW n \in Nat, NEW immediate \in BOOLEAN
  PROVE  /\ Failed(n, immediate) \in Rows
         /\ Failed(n, immediate).status \in {"pending", "dead_letter"}
         /\ Failed(n, immediate).attempts = n + 1
         /\ Failed(n, immediate).status = "dead_letter" <=> n + 1 >= MaxAttempts
BY OutboxAssumption DEF Failed, Rows, Statuses

LEMMA RecordedIsRow ==
  ASSUME TypeOK, NEW w \in Workers
  PROVE  /\ Recorded(w) \in Rows
         /\ Recorded(w).status \in {"pending", "dead_letter"}
         /\ Recorded(w).attempts = seen[w].attempts + 1
<1>1. seen[w].attempts \in Nat
  BY DEF TypeOK, Snapshots
<1>2. CASE result[w] = "permanent"
  BY <1>1, <1>2 DEF Recorded, Condemned, Rows, Statuses
<1>3. CASE result[w] # "permanent"
  BY <1>1, <1>3, FailedIsRow DEF Recorded
<1>. QED  BY <1>2, <1>3

LEMMA FlushedIsRow ==
  ASSUME NEW now \in Rows, NEW old \in Snapshots, NEW new \in Rows
  PROVE  /\ Flushed(now, old, new) \in Rows
         /\ Flushed(now, old, new).status \in {now.status, new.status}
         /\ Flushed(now, old, new).attempts = new.attempts
         /\ new.status # old.status => Flushed(now, old, new).status = new.status
         /\ new.status = old.status => Flushed(now, old, new).status = now.status
BY DEF Flushed, Rows, Snapshots

\* What a claim does to the table.
LEMMA ClaimEffect ==
  ASSUME TypeOK, NEW w \in Workers, Claim(w)
  PROVE  \E S \in SUBSET Due :
           /\ S \subseteq Events
           /\ batch' = [batch EXCEPT ![w] = S]
           /\ \A e \in S : /\ row'[e].status = "processing"
                           /\ row'[e].attempts = row[e].attempts
                           /\ row'[e].ripe = FALSE
           /\ \A e \in Events \ S : row'[e] = row[e]
<1>1. PICK S \in SUBSET Due :
        /\ row' = [e \in Events |->
                     IF e \in S
                     THEN [row[e] EXCEPT !.status = "processing", !.ripe = FALSE]
                     ELSE row[e]]
        /\ batch' = [batch EXCEPT ![w] = S]
  BY DEF Claim
<1>2. S \subseteq Events
  BY DEF Due
<1>3. ASSUME NEW r \in Rows
      PROVE  /\ [r EXCEPT !.status = "processing", !.ripe = FALSE].status = "processing"
             /\ [r EXCEPT !.status = "processing", !.ripe = FALSE].attempts = r.attempts
             /\ [r EXCEPT !.status = "processing", !.ripe = FALSE].ripe = FALSE
  BY DEF Rows
<1>4. \A e \in S : row[e] \in Rows
  BY <1>2 DEF TypeOK
<1>. QED
  BY <1>1, <1>2, <1>3, <1>4

-----------------------------------------------------------------------------
(* Type correctness, with the shape of the poll loop it rests on.          *)

Busy == {"posting", "fetching", "recording"}

\* A worker has a current event exactly while it handles one, and a token for it
\* while it posts; that event has left its batch; a stopped process holds nothing; a 2xx it remembers was given.
LoopInv ==
  \A w \in Workers :
    /\ cur[w] # None <=> pc[w] \in Busy
    /\ pc[w] = "posting" => cur[w] \in Tokened
    /\ cur[w] \notin batch[w]
    /\ pc[w] = "down" => batch[w] = {}
    /\ result[w] = "delivered" => cur[w] \in acked

LEMMA FinishKeepsLoop ==
  ASSUME TypeOK, LoopInv, NEW w \in Workers, Finish(w), UNCHANGED <<batch, acked>>
  PROVE  /\ pc' \in [Workers -> {"idle", "posting", "fetching", "recording", "down"}]
         /\ cur' \in [Workers -> Events \cup {None}]
         /\ result' \in [Workers -> Outcomes \cup {"none"}]
         /\ seen' \in [Workers -> Snapshots]
         /\ LoopInv'
<1>1. Blank \in Snapshots
  BY DEF Blank, Snapshots, Statuses
<1>. QED
  BY <1>1, OutboxAssumption DEF TypeOK, LoopInv, Finish, Busy

LEMMA TypeStep == TypeOK /\ LoopInv /\ [Next]_vars => TypeOK' /\ LoopInv'
<1> SUFFICES ASSUME TypeOK, LoopInv, [Next]_vars PROVE TypeOK' /\ LoopInv'
  OBVIOUS
<1> USE OutboxAssumption DEF tableVars, workerVars, adminVars
<1>1. ASSUME NEW e \in Events, Write(e) PROVE TypeOK' /\ LoopInv'
  BY <1>1 DEF Write, TypeOK, LoopInv, Rows, Statuses
<1>2. ASSUME NEW e \in Events, Ripen(e) PROVE TypeOK' /\ LoopInv'
  <2>1. TypeOK'
    BY <1>2 DEF Ripen, TypeOK, Rows, Statuses
  <2>2. LoopInv'
    BY <1>2 DEF Ripen, LoopInv
  <2>. QED  BY <2>1, <2>2
<1>3. ASSUME NEW w \in Workers, Claim(w) PROVE TypeOK' /\ LoopInv'
  <2>1. ASSUME NEW r \in Rows
        PROVE  [r EXCEPT !.status = "processing", !.ripe = FALSE] \in Rows
    BY DEF Rows, Statuses
  <2>0. PICK S \in SUBSET Due :
          /\ row' = [e \in Events |->
                       IF e \in S
                       THEN [row[e] EXCEPT !.status = "processing", !.ripe = FALSE]
                       ELSE row[e]]
          /\ batch' = [batch EXCEPT ![w] = S]
    BY <1>3 DEF Claim
  <2>2. row' \in [Events -> Rows]
    BY <2>0, <2>1 DEF TypeOK
  <2>3. batch' \in [Workers -> SUBSET Events]
    <3>1. S \in SUBSET Events
      BY DEF Due
    <3>. QED  BY <2>0, <3>1 DEF TypeOK
  <2>4. TypeOK'
    BY <1>3, <2>2, <2>3 DEF Claim, TypeOK
  <2>5. LoopInv'
    <3>1. cur[w] = None /\ pc[w] = "idle"
      BY <1>3 DEF Claim, LoopInv, Busy
    <3>2. None \notin batch'[w]
      BY <2>3
    <3>. QED
      BY <1>3, <3>1, <3>2 DEF Claim, LoopInv, TypeOK
  <2>. QED  BY <2>4, <2>5
<1>4. ASSUME NEW w \in Workers, Dispatch(w) PROVE TypeOK' /\ LoopInv'
  <2>1. TypeOK'
    BY <1>4 DEF Dispatch, TypeOK, Outcomes
  <2>2. LoopInv'
    <3>1. cur[w] = None /\ result[w] # "delivered"
      BY <1>4 DEF Dispatch, LoopInv, Busy, TypeOK
    <3>2. PICK e \in batch[w] :
            /\ batch' = [batch EXCEPT ![w] = @ \ {e}]
            /\ cur' = [cur EXCEPT ![w] = e]
            /\ \/ /\ e \in Tokened
                  /\ pc' = [pc EXCEPT ![w] = "posting"]
                  /\ result' = result
               \/ /\ pc' = [pc EXCEPT ![w] = "fetching"]
                  /\ result' = [result EXCEPT ![w] = "permanent"]
      BY <1>4 DEF Dispatch
    <3>3. e \in Events /\ e # None
      BY <3>2 DEF TypeOK
    <3>. QED
      BY <1>4, <3>1, <3>2, <3>3 DEF Dispatch, LoopInv, Busy, TypeOK
  <2>. QED  BY <2>1, <2>2
<1>5. ASSUME NEW w \in Workers, Answer(w) PROVE TypeOK' /\ LoopInv'
  <2>1. cur[w] \in Events
    BY <1>5 DEF Answer, LoopInv, Busy, TypeOK
  <2>2. TypeOK'
    BY <1>5, <2>1 DEF Answer, TypeOK, Outcomes
  <2>3. LoopInv'
    BY <1>5, <2>1 DEF Answer, TypeOK, LoopInv, Busy
  <2>. QED  BY <2>2, <2>3
<1>6. ASSUME NEW w \in Workers, Fetch(w) PROVE TypeOK' /\ LoopInv'
  <2>1. CASE Stored(cur[w])
    <3>1. cur[w] \in Events
      BY <1>6 DEF Fetch, LoopInv, Busy, TypeOK
    <3>2. [status |-> row[cur[w]].status, attempts |-> row[cur[w]].attempts] \in Snapshots
      BY <3>1 DEF TypeOK, Rows, Snapshots
    <3>. QED
      BY <1>6, <2>1, <3>2 DEF Fetch, TypeOK, LoopInv, Busy
  <2>2. CASE ~Stored(cur[w])
    BY <1>6, <2>2, FinishKeepsLoop DEF Fetch, TypeOK
  <2>. QED  BY <2>1, <2>2
<1>7. ASSUME NEW w \in Workers, Record(w) PROVE TypeOK' /\ LoopInv'
  <2>1. cur[w] \in Events /\ row[cur[w]] \in Rows /\ seen[w] \in Snapshots
    BY <1>7 DEF Record, LoopInv, Busy, TypeOK
  <2>2. Flushed(row[cur[w]], seen[w], Recorded(w)) \in Rows
    BY <2>1, RecordedIsRow, FlushedIsRow
  <2>3. [row[cur[w]] EXCEPT !.status = "gone"] \in Rows
    BY <2>1 DEF Rows, Statuses
  <2>4. row' \in [Events -> Rows]
    BY <1>7, <2>1, <2>2, <2>3 DEF Record, TypeOK
  <2>5. audit' \in [Events -> {"none", "exhausted", "permanent", "requeued"}]
    BY <1>7 DEF Record, TypeOK
  <2>6. Finish(w) /\ UNCHANGED <<batch, acked, requeue, halts, requeues>>
    BY <1>7 DEF Record
  <2>. QED
    BY <2>4, <2>5, <2>6, FinishKeepsLoop DEF TypeOK
<1>8. ASSUME NEW w \in Workers, RecordFails(w) PROVE TypeOK' /\ LoopInv'
  BY <1>8, FinishKeepsLoop DEF RecordFails, TypeOK
<1>9. ASSUME NEW w \in Workers, Halt(w) PROVE TypeOK' /\ LoopInv'
  <2>1. Blank \in Snapshots
    BY DEF Blank, Snapshots, Statuses
  <2>. QED
    BY <1>9, <2>1 DEF Halt, TypeOK, LoopInv, Busy
<1>10. ASSUME NEW w \in Workers, Restart(w) PROVE TypeOK' /\ LoopInv'
  BY <1>10 DEF Restart, TypeOK, LoopInv, Busy
<1>11. ASSUME NEW w \in Workers, Reap(w) PROVE TypeOK' /\ LoopInv'
  <2>1. \A e \in Events : row[e] \in Rows /\ row[e].attempts \in Nat
    BY DEF TypeOK, Rows
  <2>2. \A e \in Events : Failed(row[e].attempts, TRUE) \in Rows
    BY <2>1, FailedIsRow
  <2>3. row' \in [Events -> Rows]
    BY <1>11, <2>1, <2>2 DEF Reap
  <2>4. audit' \in [Events -> {"none", "exhausted", "permanent", "requeued"}]
    BY <1>11 DEF Reap, TypeOK
  <2>. QED
    BY <1>11, <2>3, <2>4 DEF Reap, TypeOK, LoopInv
<1>12. ASSUME NEW a \in Admins, RequeueRead(a) PROVE TypeOK' /\ LoopInv'
  BY <1>12 DEF RequeueRead, TypeOK, LoopInv
<1>13. ASSUME NEW a \in Admins, RequeueWrite(a) PROVE TypeOK' /\ LoopInv'
  <2>1. [status |-> "pending", attempts |-> 0, ripe |-> TRUE] \in Rows
    BY DEF Rows, Statuses
  <2>2. /\ row' \in [Events -> Rows]
        /\ audit' \in [Events -> {"none", "exhausted", "permanent", "requeued"}]
    <3>1. CASE Stored(requeue[a])
      <4>1. row' = [row EXCEPT ![requeue[a]] =
                      [status |-> "pending", attempts |-> 0, ripe |-> TRUE]]
        BY <1>13, <3>1 DEF RequeueWrite
      <4>2. audit' = [audit EXCEPT ![requeue[a]] = "requeued"]
        BY <1>13, <3>1 DEF RequeueWrite
      <4>. QED  BY <2>1, <4>1, <4>2 DEF TypeOK
    <3>2. CASE ~Stored(requeue[a])
      BY <1>13, <3>2 DEF RequeueWrite, TypeOK
    <3>. QED  BY <3>1, <3>2
  <2>3. TypeOK'
    BY <1>13, <2>2 DEF RequeueWrite, TypeOK
  <2>. QED
    BY <1>13, <2>3 DEF RequeueWrite, LoopInv
<1>14. CASE UNCHANGED vars
  BY <1>14 DEF vars, TypeOK, LoopInv
<1>. QED
  BY <1>1, <1>2, <1>3, <1>4, <1>5, <1>6, <1>7, <1>8, <1>9, <1>10, <1>11, <1>12,
     <1>13, <1>14 DEF Next

\* Every variable keeps its type, whatever the interleaving of workers, reapers
\* and admins, and the poll loop keeps its shape.
THEOREM TypeCorrect == Spec => [](TypeOK /\ LoopInv)
<1>1. Init => TypeOK /\ LoopInv
  BY OutboxAssumption
     DEF Init, TypeOK, LoopInv, Busy, Rows, Snapshots, Blank, Statuses, Outcomes
<1>. QED
  BY <1>1, TypeStep, PTL DEF Spec

-----------------------------------------------------------------------------
(* No interleaving loses an event or leaves a dead letter unexplained: these *)
(* hold with an impatient reaper and any number of admins.                 *)

LEMMA NoLossStep ==
  ASSUME TypeOK, LoopInv, NoEventLost, [Next]_vars
  PROVE  NoEventLost'
<1> SUFFICES ASSUME NEW e \in Events, row'[e].status = "gone"
             PROVE  e \in acked'
  BY DEF NoEventLost
<1>0. acked \subseteq acked'
  <2>1. CASE \E w \in Workers : Answer(w)
    BY <2>1 DEF Answer
  <2>2. CASE ~\E w \in Workers : Answer(w)
    BY <2>2 DEF Next, vars, Write, Ripen, Claim, Dispatch, Fetch, Record,
       RecordFails, Halt, Restart, Reap, RequeueRead, RequeueWrite
  <2>. QED  BY <2>1, <2>2
<1>1. CASE row[e].status = "gone"
  BY <1>0, <1>1 DEF NoEventLost
<1>2. CASE row[e].status # "gone"
  \* Only the record of a 2xx makes the row of e "gone".
  <2> USE <1>2 DEF tableVars
  <2>1. ASSUME NEW f \in Events, Write(f) PROVE FALSE
    BY <2>1 DEF Write, TypeOK
  <2>2. ASSUME NEW f \in Events, Ripen(f) PROVE FALSE
    BY <2>2 DEF Ripen, TypeOK, Rows
  <2>3. ASSUME NEW w \in Workers, Claim(w) PROVE FALSE
    BY <2>3, ClaimEffect
  <2>4. ASSUME NEW w \in Workers, Reap(w) PROVE FALSE
    <3>1. row[e].attempts \in Nat
      BY DEF TypeOK, Rows
    <3>2. Failed(row[e].attempts, TRUE).status # "gone"
      BY <3>1, FailedIsRow
    <3>. QED  BY <2>4, <3>2 DEF Reap
  <2>5. ASSUME NEW a \in Admins, RequeueWrite(a) PROVE FALSE
    BY <2>5 DEF RequeueWrite, TypeOK
  <2>6. ASSUME NEW w \in Workers, Record(w) PROVE e \in acked
    <3>1. CASE result[w] = "delivered"
      <4>1. row' = [row EXCEPT ![cur[w]].status = "gone"]
        BY <2>6, <3>1 DEF Record
      <4>2. e = cur[w]
        BY <4>1 DEF TypeOK
      <4>. QED  BY <3>1, <4>2 DEF LoopInv
    <3>2. CASE result[w] # "delivered" /\ Stored(cur[w])
      <4>1. cur[w] \in Events /\ row[cur[w]] \in Rows /\ seen[w] \in Snapshots
        BY <2>6 DEF Record, LoopInv, Busy, TypeOK
      <4>2. row' = [row EXCEPT ![cur[w]] = Flushed(@, seen[w], Recorded(w))]
        BY <2>6, <3>2 DEF Record
      <4>3. Flushed(row[cur[w]], seen[w], Recorded(w)).status \in
              {row[cur[w]].status, Recorded(w).status}
        BY <4>1, RecordedIsRow, FlushedIsRow
      <4>4. Recorded(w).status # "gone"
        BY RecordedIsRow
      <4>. QED  BY <4>1, <4>2, <4>3, <4>4 DEF TypeOK
    <3>3. CASE result[w] # "delivered" /\ ~Stored(cur[w])
      BY <2>6, <3>3 DEF Record
    <3>. QED  BY <3>1, <3>2, <3>3
  <2>7. CASE UNCHANGED row
    BY <2>7
  <2>. QED
    BY <1>0, <2>1, <2>2, <2>3, <2>4, <2>5, <2>6, <2>7
       DEF Next, vars, Dispatch, Answer, Fetch, RecordFails, Halt, Restart, RequeueRead
<1>. QED  BY <1>1, <1>2

\* An outbox row is deleted only after its target accepted the event: late
\* records, sweeps and requeues can repeat a delivery but never skip one.
THEOREM NoLoss == Spec => []NoEventLost
<1>1. Init => NoEventLost
  BY DEF Init, NoEventLost
<1>2. TypeOK /\ LoopInv /\ NoEventLost /\ [Next]_vars => NoEventLost'
  BY NoLossStep
<1>. QED
  BY <1>1, <1>2, TypeCorrect, PTL DEF Spec

LEMMA AuditedStep ==
  ASSUME TypeOK, LoopInv, DeadLetterAudited, [Next]_vars
  PROVE  DeadLetterAudited'
<1> SUFFICES ASSUME NEW e \in Events, row'[e].status = "dead_letter"
             PROVE  audit'[e] \in {"exhausted", "permanent"}
  BY DEF DeadLetterAudited
<1> USE DEF tableVars
<1>1. ASSUME NEW f \in Events, Write(f) PROVE audit'[e] \in {"exhausted", "permanent"}
  BY <1>1 DEF Write, TypeOK, DeadLetterAudited
<1>2. ASSUME NEW f \in Events, Ripen(f) PROVE audit'[e] \in {"exhausted", "permanent"}
  BY <1>2 DEF Ripen, TypeOK, Rows, DeadLetterAudited
<1>3. ASSUME NEW w \in Workers, Claim(w) PROVE audit'[e] \in {"exhausted", "permanent"}
  <2>1. row'[e] = row[e]
    BY <1>3, ClaimEffect
  <2>. QED  BY <1>3, <2>1 DEF Claim, DeadLetterAudited
<1>4. ASSUME NEW w \in Workers, Reap(w) PROVE audit'[e] \in {"exhausted", "permanent"}
  BY <1>4 DEF Reap, DeadLetterAudited
<1>5. ASSUME NEW a \in Admins, RequeueWrite(a)
      PROVE  audit'[e] \in {"exhausted", "permanent"}
  <2>1. CASE Stored(requeue[a]) /\ e = requeue[a]
    <3>1. row'[e].status = "pending"
      BY <1>5, <2>1 DEF RequeueWrite, TypeOK
    <3>. QED  BY <3>1
  <2>2. CASE Stored(requeue[a]) /\ e # requeue[a]
    BY <1>5, <2>2 DEF RequeueWrite, TypeOK, DeadLetterAudited
  <2>3. CASE ~Stored(requeue[a])
    BY <1>5, <2>3 DEF RequeueWrite, DeadLetterAudited
  <2>. QED  BY <2>1, <2>2, <2>3
<1>6. ASSUME NEW w \in Workers, Record(w) PROVE audit'[e] \in {"exhausted", "permanent"}
  <2>0. cur[w] \in Events /\ row[cur[w]] \in Rows /\ seen[w] \in Snapshots
    BY <1>6 DEF Record, LoopInv, Busy, TypeOK
  <2>1. CASE result[w] = "delivered"
    BY <1>6, <2>0, <2>1 DEF Record, TypeOK, Rows, DeadLetterAudited
  <2>2. CASE result[w] # "delivered" /\ Stored(cur[w])
    <3>1. row' = [row EXCEPT ![cur[w]] = Flushed(@, seen[w], Recorded(w))]
      BY <1>6, <2>2 DEF Record
    <3>2. audit' = IF Recorded(w).status # "dead_letter" THEN audit
                   ELSE [audit EXCEPT ![cur[w]] =
                           IF result[w] = "permanent" THEN "permanent" ELSE "exhausted"]
      BY <1>6, <2>2 DEF Record
    <3>3. CASE e # cur[w]
      BY <3>1, <3>2, <3>3 DEF TypeOK, DeadLetterAudited
    <3>4. CASE e = cur[w] /\ Recorded(w).status = "dead_letter"
      BY <3>2, <3>4 DEF TypeOK
    <3>5. CASE e = cur[w] /\ Recorded(w).status # "dead_letter"
      \* The flush left the status alone: the row was dead-lettered already.
      <4>1. row'[e] = Flushed(row[e], seen[w], Recorded(w))
        BY <3>1, <3>5 DEF TypeOK
      <4>2. row[e].status = "dead_letter"
        BY <2>0, <3>5, <4>1, RecordedIsRow, FlushedIsRow
      <4>. QED  BY <3>2, <3>5, <4>2 DEF DeadLetterAudited
    <3>. QED  BY <3>3, <3>4, <3>5
  <2>3. CASE result[w] # "delivered" /\ ~Stored(cur[w])
    BY <1>6, <2>3 DEF Record, DeadLetterAudited
  <2>. QED  BY <2>1, <2>2, <2>3
<1>7. CASE UNCHANGED <<row, audit>>
  BY <1>7 DEF DeadLetterAudited
<1>. QED
  BY <1>1, <1>2, <1>3, <1>4, <1>5, <1>6, <1>7
     DEF Next, vars, Dispatch, Answer, Fetch, RecordFails, Halt, Restart, RequeueRead

\* Whoever dead-letters a row explains it in the audit log, in the same
\* transaction, and no later write hides the explanation.
THEOREM DeadLettersExplained == Spec => []DeadLetterAudited
<1>1. Init => DeadLetterAudited
  BY DEF Init, DeadLetterAudited
<1>2. TypeOK /\ LoopInv /\ DeadLetterAudited /\ [Next]_vars => DeadLetterAudited'
  BY AuditedStep
<1>. QED
  BY <1>1, <1>2, TypeCorrect, PTL DEF Spec

-----------------------------------------------------------------------------
(* With a patient reaper and one requeue at a time, a claimed event belongs *)
(* to the worker that claimed it.                                          *)

\* Giving up the current event, or the whole batch, gives up a claim and leaves
\* the others as they are.
LEMMA LettingGo ==
  ASSUME TypeOK, OwnInv, NEW w \in Workers, UNCHANGED <<row, requeue>>,
         \A v \in Workers, e \in Events : Holds(v, e)' => Holds(v, e),
         \A v \in Workers : pc'[v] = "recording" =>
           pc[v] = "recording" /\ cur'[v] = cur[v] /\ seen'[v] = seen[v]
  PROVE  OwnInv'
BY DEF OwnInv, Owned, SeenIsCurrent, RequeuedIsDead, UnwrittenUntried, AttemptsBelowLimit, Stored

LEMMA FinishLetsGo ==
  ASSUME TypeOK, LoopInv, NEW w \in Workers, Finish(w), batch' = batch
  PROVE  /\ \A v \in Workers, e \in Events :
              Holds(v, e)' <=> Holds(v, e) /\ ~(v = w /\ e = cur[w])
         /\ \A v \in Workers : pc'[v] = "recording" =>
              /\ pc[v] = "recording" /\ v # w
              /\ cur'[v] = cur[v] /\ seen'[v] = seen[v]
<1>1. cur[w] \notin batch[w]
  BY DEF LoopInv
<1>. QED
  BY <1>1, OutboxAssumption DEF Finish, Holds, TypeOK

LEMMA OwnStep ==
  ASSUME PatientReaper, OneAdmin, TypeOK, LoopInv, OwnInv, [Next]_vars
  PROVE  OwnInv'
<1> USE OutboxAssumption DEF tableVars, workerVars, adminVars
<1>1. ASSUME NEW e \in Events, Write(e) PROVE OwnInv'
  <2>1. /\ row'[e] = [status |-> "pending", attempts |-> 0, ripe |-> TRUE]
        /\ \A f \in Events \ {e} : row'[f] = row[f]
    BY <1>1 DEF Write, TypeOK
  <2>2. /\ \A w \in Workers : ~Holds(w, e)
        /\ \A a \in Admins : requeue[a] # e
    BY <1>1 DEF Write, OwnInv, Owned, RequeuedIsDead
  <2>. QED
    BY <1>1, <2>1, <2>2 DEF Write, OwnInv, Owned, SeenIsCurrent, RequeuedIsDead, UnwrittenUntried,
       AttemptsBelowLimit, Holds, LoopInv, Busy, TypeOK
<1>2. ASSUME NEW e \in Events, Ripen(e) PROVE OwnInv'
  <2>1. /\ row'[e].status = row[e].status /\ row'[e].attempts = row[e].attempts
        /\ \A f \in Events \ {e} : row'[f] = row[f]
    BY <1>2 DEF Ripen, TypeOK, Rows
  <2>2. \A w \in Workers : ~Holds(w, e)
    BY <1>2 DEF Ripen, Held, OwnInv, Owned
  <2>. QED
    BY <1>2, <2>1, <2>2 DEF Ripen, OwnInv, Owned, SeenIsCurrent, RequeuedIsDead, UnwrittenUntried,
       AttemptsBelowLimit, Holds, LoopInv, Busy, TypeOK
<1>3. ASSUME NEW w \in Workers, Claim(w) PROVE OwnInv'
  <2>1. PICK S \in SUBSET Due :
          /\ S \subseteq Events
          /\ batch' = [batch EXCEPT ![w] = S]
          /\ \A e \in S : /\ row'[e].status = "processing"
                          /\ row'[e].attempts = row[e].attempts
                          /\ row'[e].ripe = FALSE
          /\ \A e \in Events \ S : row'[e] = row[e]
    BY <1>3, ClaimEffect
  <2>2. \A e \in S : row[e].status = "pending"
    BY DEF Due
  <2>3. \A e \in S : \A v \in Workers : ~Holds(v, e)
    BY <2>1, <2>2 DEF OwnInv, Owned
  <2>4. /\ \A v \in Workers \ {w} : \A e \in Events : Holds(v, e)' <=> Holds(v, e)
        /\ \A e \in Events : Holds(w, e)' <=> e \in S
    <3>1. cur[w] = None /\ batch[w] = {}
      BY <1>3 DEF Claim, LoopInv, Busy
    <3>. QED  BY <1>3, <2>1, <3>1 DEF Claim, Holds, TypeOK
  <2>5. Owned'
    BY <2>1, <2>3, <2>4 DEF OwnInv, Owned
  <2>6. SeenIsCurrent'
    <3>1. \A v \in Workers : pc[v] = "recording" => cur[v] \in Events \ S
      BY <2>3 DEF Holds, LoopInv, Busy, TypeOK
    <3>. QED  BY <1>3, <2>1, <3>1 DEF Claim, OwnInv, SeenIsCurrent
  <2>7. RequeuedIsDead'
    <3>1. \A a \in Admins : requeue[a] # None => requeue[a] \in Events \ S
      BY <2>2 DEF OwnInv, RequeuedIsDead, TypeOK
    <3>2. requeue' = requeue
      BY <1>3 DEF Claim
    <3>3. \A e \in Events \ S : row'[e] = row[e]
      BY <2>1
    <3>. QED  BY <3>1, <3>2, <3>3 DEF OwnInv, RequeuedIsDead
  <2>8. AttemptsBelowLimit' /\ UnwrittenUntried'
    BY <2>1, <2>2 DEF OwnInv, UnwrittenUntried, AttemptsBelowLimit
  <2>. QED  BY <2>5, <2>6, <2>7, <2>8 DEF OwnInv
<1>4. ASSUME NEW w \in Workers, Dispatch(w) PROVE OwnInv'
  <2>1. cur[w] = None
    BY <1>4 DEF Dispatch, LoopInv, Busy
  <2>2. \A v \in Workers, e \in Events : Holds(v, e)' => Holds(v, e)
    BY <1>4, <2>1 DEF Dispatch, Holds, TypeOK
  <2>3. \A v \in Workers : pc'[v] = "recording" =>
          pc[v] = "recording" /\ cur'[v] = cur[v] /\ seen'[v] = seen[v]
    BY <1>4 DEF Dispatch, TypeOK
  <2>. QED  BY <1>4, <2>2, <2>3, LettingGo DEF Dispatch
<1>5. ASSUME NEW w \in Workers, Answer(w) PROVE OwnInv'
  BY <1>5, LettingGo DEF Answer, Holds, TypeOK
<1>6. ASSUME NEW w \in Workers, Fetch(w) PROVE OwnInv'
  <2>1. CASE Stored(cur[w])
    <3>1. /\ UNCHANGED <<row, batch, cur, requeue>>
          /\ seen' = [seen EXCEPT ![w] =
                        [status |-> row[cur[w]].status, attempts |-> row[cur[w]].attempts]]
          /\ \A v \in Workers \ {w} : pc'[v] = pc[v]
      BY <1>6, <2>1 DEF Fetch, TypeOK
    <3>2. SeenIsCurrent'
      BY <3>1 DEF OwnInv, SeenIsCurrent, TypeOK
    <3>. QED
      BY <3>1, <3>2 DEF OwnInv, Owned, Holds, RequeuedIsDead, UnwrittenUntried, AttemptsBelowLimit
  <2>2. CASE ~Stored(cur[w])
    BY <1>6, <2>2, FinishLetsGo, LettingGo DEF Fetch
  <2>. QED  BY <2>1, <2>2
<1>7. ASSUME NEW w \in Workers, Record(w) PROVE OwnInv'
  <2> DEFINE e == cur[w]
  <2>1. e \in Events /\ row[e] \in Rows /\ seen[w] \in Snapshots /\ Holds(w, e)
    BY <1>7 DEF Record, LoopInv, Busy, TypeOK, Holds
  <2>2. row[e].status = "processing" /\ row[e].attempts < MaxAttempts
    BY <2>1 DEF OwnInv, Owned, AttemptsBelowLimit
  <2>3. seen[w].status = "processing" /\ seen[w].attempts = row[e].attempts
    BY <1>7, <2>2 DEF Record, OwnInv, SeenIsCurrent
  <2>4. \A v \in Workers : \A f \in Events :
          Holds(v, f)' => Holds(v, f) /\ f # e
    BY <1>7, <2>1, FinishLetsGo DEF Record, OwnInv, Owned
  <2>5. \A f \in Events \ {e} : row'[f] = row[f]
    BY <1>7 DEF Record, TypeOK
  <2>6. /\ row'[e].status \in {"gone", "pending", "dead_letter"}
        /\ row'[e].status = "pending" => row'[e].attempts < MaxAttempts
        /\ row'[e].attempts <= MaxAttempts
    <3>1. CASE result[w] = "delivered"
      BY <1>7, <2>1, <2>2, <3>1 DEF Record, TypeOK, Rows
    <3>2. CASE result[w] # "delivered"
      <4>1. row'[e] = Flushed(row[e], seen[w], Recorded(w))
        BY <1>7, <2>1, <2>2, <3>2 DEF Record, Stored, TypeOK
      <4>2. row'[e].status = Recorded(w).status /\ row'[e].attempts = row[e].attempts + 1
        BY <2>1, <2>3, <4>1, RecordedIsRow, FlushedIsRow
      <4>3. Recorded(w).status = "pending" => row[e].attempts + 1 < MaxAttempts
        BY <2>1, <2>3 DEF Recorded, Condemned, Failed, Rows
      <4>. QED  BY <2>1, <2>2, <4>2, <4>3, RecordedIsRow DEF Rows
    <3>. QED  BY <3>1, <3>2
  <2>7. Owned'
    BY <2>4, <2>5 DEF OwnInv, Owned
  <2>8. SeenIsCurrent'
    <3>1. \A v \in Workers : pc'[v] = "recording" =>
            /\ pc[v] = "recording" /\ v # w
            /\ cur'[v] = cur[v] /\ seen'[v] = seen[v]
      BY <1>7, FinishLetsGo DEF Record
    <3>2. \A v \in Workers \ {w} : pc[v] = "recording" => cur[v] \in Events \ {e}
      BY <2>1 DEF OwnInv, Owned, Holds, LoopInv, Busy, TypeOK
    <3>. QED  BY <2>5, <3>1, <3>2 DEF OwnInv, SeenIsCurrent
  <2>9. RequeuedIsDead'
    BY <1>7, <2>1, <2>2, <2>5 DEF Record, OwnInv, RequeuedIsDead, TypeOK
  <2>10. AttemptsBelowLimit' /\ UnwrittenUntried'
    BY <2>5, <2>6 DEF OwnInv, UnwrittenUntried, AttemptsBelowLimit
  <2>. QED  BY <2>7, <2>8, <2>9, <2>10 DEF OwnInv
<1>8. ASSUME NEW w \in Workers, RecordFails(w) PROVE OwnInv'
  BY <1>8, FinishLetsGo, LettingGo DEF RecordFails
<1>9. ASSUME NEW w \in Workers, Halt(w) PROVE OwnInv'
  <2>1. \A v \in Workers, e \in Events : Holds(v, e)' => Holds(v, e)
    BY <1>9 DEF Halt, Holds, TypeOK
  <2>2. \A v \in Workers : pc'[v] = "recording" =>
          pc[v] = "recording" /\ cur'[v] = cur[v] /\ seen'[v] = seen[v]
    BY <1>9 DEF Halt, TypeOK
  <2>. QED  BY <1>9, <2>1, <2>2, LettingGo DEF Halt
<1>10. ASSUME NEW w \in Workers, Restart(w) PROVE OwnInv'
  BY <1>10, LettingGo DEF Restart, Holds, TypeOK
<1>11. ASSUME NEW w \in Workers, Reap(w) PROVE OwnInv'
  <2>1. PICK S \in SUBSET Stuck :
          row' = [e \in Events |->
                    IF e \in S THEN Failed(row[e].attempts, TRUE) ELSE row[e]]
    BY <1>11 DEF Reap
  <2>2. \A e \in S : /\ e \in Events /\ row[e].status = "processing" /\ row[e].ripe
                     /\ row[e].attempts \in Nat
    BY DEF Stuck, TypeOK, Rows
  <2>3. \A e \in S : \A v \in Workers : ~Holds(v, e)
    BY <2>2 DEF OwnInv, Owned
  <2>4. \A e \in S : /\ row'[e].status \in {"pending", "dead_letter"}
                     /\ row'[e].status = "pending" => row'[e].attempts < MaxAttempts
                     /\ row'[e].attempts <= MaxAttempts
    <3>1. \A e \in S : row'[e] = Failed(row[e].attempts, TRUE)
      BY <2>1, <2>2
    <3>2. \A e \in S : row[e].attempts < MaxAttempts
      BY <2>2 DEF OwnInv, AttemptsBelowLimit
    <3>3. \A n \in Nat : n < MaxAttempts =>
            /\ Failed(n, TRUE).status \in {"pending", "dead_letter"}
            /\ Failed(n, TRUE).status = "pending" => Failed(n, TRUE).attempts < MaxAttempts
            /\ Failed(n, TRUE).attempts <= MaxAttempts
      BY DEF Failed
    <3>. QED  BY <2>2, <3>1, <3>2, <3>3
  <2>5. \A e \in Events \ S : row'[e] = row[e]
    BY <2>1
  <2>6. Owned'
    BY <1>11, <2>3, <2>5 DEF Reap, OwnInv, Owned, Holds
  <2>7. SeenIsCurrent'
    <3>1. \A v \in Workers : pc[v] = "recording" => cur[v] \in Events \ S
      BY <2>3 DEF Holds, LoopInv, Busy, TypeOK
    <3>. QED  BY <1>11, <2>5, <3>1 DEF Reap, OwnInv, SeenIsCurrent
  <2>8. RequeuedIsDead'
    <3>1. \A a \in Admins : requeue[a] # None => requeue[a] \in Events \ S
      BY <2>2 DEF OwnInv, RequeuedIsDead, TypeOK
    <3>. QED  BY <1>11, <2>5, <3>1 DEF Reap, OwnInv, RequeuedIsDead
  <2>9. AttemptsBelowLimit' /\ UnwrittenUntried'
    BY <2>4, <2>5 DEF OwnInv, UnwrittenUntried, AttemptsBelowLimit
  <2>. QED  BY <2>6, <2>7, <2>8, <2>9 DEF OwnInv
<1>12. ASSUME NEW a \in Admins, RequeueRead(a) PROVE OwnInv'
  BY <1>12 DEF RequeueRead, OwnInv, Owned, SeenIsCurrent, RequeuedIsDead, UnwrittenUntried,
     AttemptsBelowLimit, Holds, TypeOK
<1>13. ASSUME NEW a \in Admins, RequeueWrite(a) PROVE OwnInv'
  <2> DEFINE e == requeue[a]
  <2>1. e \in Events /\ row[e].status = "dead_letter"
    BY <1>13 DEF RequeueWrite, OwnInv, RequeuedIsDead, TypeOK
  <2>2. \A w \in Workers : ~Holds(w, e)
    BY <2>1 DEF OwnInv, Owned
  <2>3. /\ row'[e] = [status |-> "pending", attempts |-> 0, ripe |-> TRUE]
        /\ \A f \in Events \ {e} : row'[f] = row[f]
    BY <1>13, <2>1 DEF RequeueWrite, Stored, TypeOK
  <2>4. RequeuedIsDead'
    BY <1>13 DEF RequeueWrite, RequeuedIsDead, OneAdmin, TypeOK
  <2>5. Owned' /\ SeenIsCurrent'
    BY <1>13, <2>1, <2>2, <2>3 DEF RequeueWrite, OwnInv, Owned, SeenIsCurrent,
       Holds, LoopInv, Busy, TypeOK
  <2>6. AttemptsBelowLimit' /\ UnwrittenUntried'
    BY <2>1, <2>3 DEF OwnInv, UnwrittenUntried, AttemptsBelowLimit
  <2>. QED  BY <2>4, <2>5, <2>6 DEF OwnInv
<1>14. CASE UNCHANGED vars
  BY <1>14 DEF vars, OwnInv, Owned, SeenIsCurrent, RequeuedIsDead, UnwrittenUntried,
     AttemptsBelowLimit, Holds
<1>. QED
  BY <1>1, <1>2, <1>3, <1>4, <1>5, <1>6, <1>7, <1>8, <1>9, <1>10, <1>11, <1>12,
     <1>13, <1>14 DEF Next

LEMMA Ownership ==
  ASSUME PatientReaper, OneAdmin
  PROVE  Spec => []OwnInv
<1>1. Init => OwnInv
  BY OutboxAssumption DEF Init, OwnInv, Owned, SeenIsCurrent, RequeuedIsDead, UnwrittenUntried,
     AttemptsBelowLimit, Holds
<1>2. TypeOK /\ LoopInv /\ OwnInv /\ [Next]_vars => OwnInv'
  BY OwnStep
<1>. QED
  BY <1>1, <1>2, TypeCorrect, PTL DEF Spec

\* If the reaper's age outlasts the handling of a batch and requeues do not
\* overlap, a claimed event has one holder and stays processing until recorded.
THEOREM OneOwner ==
  ASSUME PatientReaper, OneAdmin
  PROVE  Spec => []ExclusiveOwner
<1>1. OwnInv => ExclusiveOwner
  BY DEF OwnInv, Owned, ExclusiveOwner
<1>. QED
  BY <1>1, Ownership, PTL

\* Under the same conditions no event is tried after its last allowed failure.
THEOREM AttemptsBounded ==
  ASSUME PatientReaper, OneAdmin
  PROVE  Spec => []AttemptsBelowLimit
<1>1. OwnInv => AttemptsBelowLimit
  BY DEF OwnInv
<1>. QED
  BY <1>1, Ownership, PTL

LEMMA AttemptsKeptStep ==
  ASSUME TypeOK, LoopInv, OwnInv, [Next]_vars, NEW e \in Events,
         ~\E a \in Admins : RequeueWrite(a)
  PROVE  ~(row'[e].attempts < row[e].attempts)
<1> DEFINE Grown == \/ row'[e].attempts = row[e].attempts
                    \/ row'[e].attempts = row[e].attempts + 1
<1> USE DEF tableVars
<1>0. row[e].attempts \in Nat
  BY DEF TypeOK, Rows
<1>1. ASSUME NEW f \in Events, Write(f) PROVE Grown
  <2>2. e = f => row[e].attempts = 0
    BY <1>1 DEF Write, OwnInv, UnwrittenUntried
  <2>. QED  BY <1>0, <1>1, <2>2 DEF Write, TypeOK
<1>2. ASSUME NEW f \in Events, Ripen(f) PROVE Grown
  BY <1>0, <1>2 DEF Ripen, TypeOK, Rows
<1>3. ASSUME NEW w \in Workers, Claim(w) PROVE Grown
  BY <1>0, <1>3, ClaimEffect
<1>4. ASSUME NEW w \in Workers, Reap(w) PROVE Grown
  <2>1. Failed(row[e].attempts, TRUE).attempts = row[e].attempts + 1
    BY <1>0, FailedIsRow
  <2>2. row'[e] \in {row[e], Failed(row[e].attempts, TRUE)}
    BY <1>4 DEF Reap
  <2>. QED  BY <2>1, <2>2
<1>5. ASSUME NEW w \in Workers, Record(w) PROVE Grown
  <2>1. /\ cur[w] \in Events /\ row[cur[w]] \in Rows /\ seen[w] \in Snapshots
        /\ seen[w].attempts = row[cur[w]].attempts
    BY <1>5 DEF Record, OwnInv, SeenIsCurrent, LoopInv, Busy, TypeOK
  <2>2. CASE result[w] = "delivered"
    BY <1>0, <1>5, <2>1, <2>2 DEF Record, TypeOK, Rows
  <2>3. CASE result[w] # "delivered" /\ Stored(cur[w])
    <3>1. row' = [row EXCEPT ![cur[w]] = Flushed(@, seen[w], Recorded(w))]
      BY <1>5, <2>3 DEF Record
    <3>2. Flushed(row[cur[w]], seen[w], Recorded(w)).attempts = row[cur[w]].attempts + 1
      BY <2>1, RecordedIsRow, FlushedIsRow
    <3>. QED  BY <1>0, <3>1, <3>2 DEF TypeOK
  <2>4. CASE result[w] # "delivered" /\ ~Stored(cur[w])
    BY <1>0, <1>5, <2>4 DEF Record
  <2>. QED  BY <2>2, <2>3, <2>4
<1>6. CASE UNCHANGED row
  BY <1>0, <1>6
<1>7. Grown
  BY <1>1, <1>2, <1>3, <1>4, <1>5, <1>6
     DEF Next, vars, Dispatch, Answer, Fetch, RecordFails, Halt, Restart, RequeueRead
<1>8. row'[e].attempts \in Nat
  BY TypeStep DEF TypeOK, Rows
<1>. QED  BY <1>0, <1>7, <1>8

\* ... and only an admin's requeue ever takes a failed attempt back.
THEOREM AttemptsKept ==
  ASSUME PatientReaper, OneAdmin
  PROVE  Spec => NoLostAttempt
<1>1. TypeOK /\ LoopInv /\ OwnInv /\ [Next]_vars =>
        [\A e \in Events :
           row'[e].attempts < row[e].attempts => \E a \in Admins : RequeueWrite(a)]_vars
  BY AttemptsKeptStep
<1>. QED
  BY <1>1, TypeCorrect, Ownership, PTL DEF Spec, NoLostAttempt

-----------------------------------------------------------------------------
(* The outbox implements EventDelivery.                                    *)

LEMMA PromiseStep ==
  ASSUME TypeOK, LoopInv, OwnInv, [Next]_vars
  PROVE  [Promise!Next]_(Promise!vars)
<1> DEFINE fate == [e \in Events |-> Fate(row[e].status)]
           stutter == fate' = fate /\ acked' = acked
<1> USE DEF tableVars, workerVars, adminVars
<1>1. ASSUME NEW e \in Events, Write(e) PROVE Promise!Write(e)
  <2>1. \A f \in Events : row'[f].status = IF f = e THEN "pending" ELSE row[f].status
    BY <1>1 DEF Write, TypeOK
  <2>2. fate[e] = "unwritten" /\ Fate("pending") = "owed" /\ acked' = acked
    BY <1>1 DEF Write, Fate
  <2>3. fate' = [fate EXCEPT ![e] = "owed"]
    BY <2>1, <2>2
  <2>. QED  BY <2>2, <2>3 DEF Promise!Write, Promise!Becomes
<1>2. ASSUME NEW e \in Events, Ripen(e) PROVE stutter
  BY <1>2 DEF Ripen, TypeOK, Rows
<1>3. ASSUME NEW w \in Workers, Claim(w) PROVE stutter
  <2>1. \A e \in Events : Fate(row'[e].status) = Fate(row[e].status)
    <3>1. PICK S \in SUBSET Due :
            /\ \A e \in S : row'[e].status = "processing"
            /\ \A e \in Events \ S : row'[e] = row[e]
      BY <1>3, ClaimEffect
    <3>2. \A e \in S : row[e].status = "pending"
      BY DEF Due
    <3>. QED  BY <3>1, <3>2 DEF Fate
  <2>. QED  BY <1>3, <2>1 DEF Claim
<1>4. ASSUME NEW w \in Workers, Answer(w) PROVE stutter \/ Promise!Answer(cur[w])
  <2>1. cur[w] \in Tokened /\ cur[w] \in Events /\ Holds(w, cur[w])
    BY <1>4, OutboxAssumption DEF Answer, LoopInv, Holds
  <2>2. fate[cur[w]] = "owed"
    BY <2>1 DEF OwnInv, Owned, Fate
  <2>. QED  BY <1>4, <2>1, <2>2 DEF Answer, Promise!Answer
<1>5. ASSUME NEW w \in Workers, Record(w)
      PROVE  stutter \/ Promise!Deliver(cur[w]) \/ Promise!GiveUpAll({cur[w]})
  <2>1. /\ cur[w] \in Events /\ row[cur[w]] \in Rows /\ seen[w] \in Snapshots
        /\ Holds(w, cur[w])
    BY <1>5 DEF Record, LoopInv, Busy, TypeOK, Holds
  <2>2. row[cur[w]].status = "processing" /\ seen[w].status = "processing"
    BY <1>5, <2>1 DEF Record, OwnInv, Owned, SeenIsCurrent
  <2>3. fate[cur[w]] = "owed" /\ acked' = acked
    BY <1>5, <2>1, <2>2 DEF Fate, Record
  <2>4. CASE result[w] = "delivered"
    <3>1. cur[w] \in acked
      BY <2>4 DEF LoopInv
    <3>2. fate' = [fate EXCEPT ![cur[w]] = "delivered"]
      <4>1. \A f \in Events : row'[f].status = IF f = cur[w] THEN "gone" ELSE row[f].status
        BY <1>5, <2>4 DEF Record, TypeOK, Rows
      <4>2. Fate("gone") = "delivered"
        BY DEF Fate
      <4>. QED  BY <4>1, <4>2
    <3>. QED  BY <2>3, <3>1, <3>2 DEF Promise!Deliver, Promise!Becomes
  <2>5. CASE result[w] # "delivered"
    <3>1. row' = [row EXCEPT ![cur[w]] = Flushed(@, seen[w], Recorded(w))]
      BY <1>5, <2>2, <2>5 DEF Record, Stored
    <3>2. /\ Flushed(row[cur[w]], seen[w], Recorded(w)).status = Recorded(w).status
          /\ Recorded(w).status \in {"pending", "dead_letter"}
      BY <2>1, <2>2, RecordedIsRow, FlushedIsRow
    <3>3. fate' = [fate EXCEPT ![cur[w]] = Fate(Recorded(w).status)]
      BY <2>1, <3>1, <3>2 DEF TypeOK
    <3>4. CASE Recorded(w).status = "pending"
      BY <2>3, <3>3, <3>4 DEF Fate
    <3>5. CASE Recorded(w).status = "dead_letter"
      <4>1. Fate("dead_letter") = "dead"
        BY DEF Fate
      <4>. QED  BY <2>1, <2>3, <3>3, <3>5, <4>1 DEF Promise!GiveUpAll
    <3>. QED  BY <3>2, <3>4, <3>5
  <2>. QED  BY <2>4, <2>5
<1>6. ASSUME NEW w \in Workers, Reap(w)
      PROVE  \E S \in SUBSET Events : Promise!GiveUpAll(S)
  <2>1. PICK S \in SUBSET Stuck :
          row' = [e \in Events |->
                    IF e \in S THEN Failed(row[e].attempts, TRUE) ELSE row[e]]
    BY <1>6 DEF Reap
  <2>2. \A e \in S : /\ e \in Events /\ row[e].status = "processing"
                     /\ row[e].attempts \in Nat
    BY DEF Stuck, TypeOK, Rows
  <2> DEFINE D == {e \in S : Failed(row[e].attempts, TRUE).status = "dead_letter"}
  <2>3. \A e \in D : fate[e] = "owed"
    BY <2>2 DEF Fate
  <2>4. \A e \in Events :
          Fate(row'[e].status) = IF e \in D THEN "dead" ELSE Fate(row[e].status)
    <3>1. \A e \in D : Fate(row'[e].status) = "dead"
      BY <2>1, <2>2 DEF Fate
    <3>2. \A e \in S \ D : /\ row'[e].status = "pending"
                           /\ Fate(row'[e].status) = Fate(row[e].status)
      <4>1. \A e \in S : Failed(row[e].attempts, TRUE).status \in {"pending", "dead_letter"}
        BY <2>2, FailedIsRow
      <4>. QED  BY <2>1, <2>2, <4>1 DEF Fate
    <3>. QED  BY <2>1, <3>1, <3>2
  <2>5. D \in SUBSET Events /\ acked' = acked
    BY <1>6, <2>2 DEF Reap
  <2>6. fate' = [e \in Events |-> IF e \in D THEN "dead" ELSE fate[e]]
    BY <2>4
  <2>. QED  BY <2>3, <2>5, <2>6 DEF Promise!GiveUpAll
<1>7. ASSUME NEW a \in Admins, RequeueWrite(a) PROVE Promise!Requeue(requeue[a])
  <2>1. requeue[a] \in Events /\ row[requeue[a]].status = "dead_letter"
    BY <1>7 DEF RequeueWrite, OwnInv, RequeuedIsDead, TypeOK
  <2>2. /\ row' = [row EXCEPT ![requeue[a]] =
                     [status |-> "pending", attempts |-> 0, ripe |-> TRUE]]
        /\ acked' = acked
    BY <1>7, <2>1 DEF RequeueWrite, Stored
  <2>3. \A f \in Events :
          row'[f].status = IF f = requeue[a] THEN "pending" ELSE row[f].status
    BY <2>2 DEF TypeOK
  <2>4. fate[requeue[a]] = "dead" /\ Fate("pending") = "owed"
    BY <2>1 DEF Fate
  <2>5. fate' = [fate EXCEPT ![requeue[a]] = "owed"]
    BY <2>3, <2>4
  <2>. QED  BY <2>2, <2>4, <2>5 DEF Promise!Requeue, Promise!Becomes
<1>8. CASE UNCHANGED <<row, acked>>
  BY <1>8 DEF Promise!vars
<1>9. ASSUME NEW w \in Workers, Record(w) \/ Answer(w) PROVE cur[w] \in Events
  BY <1>9 DEF Record, Answer, LoopInv, Busy, TypeOK
<1>10. ASSUME NEW a \in Admins, RequeueWrite(a) PROVE requeue[a] \in Events
  BY <1>10 DEF RequeueWrite, TypeOK
<1>. QED
  BY <1>1, <1>2, <1>3, <1>4, <1>5, <1>6, <1>7, <1>8, <1>9, <1>10
     DEF Next, vars, Dispatch, Fetch, RecordFails, Halt, Restart, RequeueRead,
         Promise!Next, Promise!vars

\* Under the same conditions every behaviour of the outbox is one EventDelivery
\* allows: a dead letter stays dead until an admin requeues it, and only an
\* accepted event leaves the table.
THEOREM PromiseKept ==
  ASSUME PatientReaper, OneAdmin
  PROVE  Spec => KeepsPromise
<1>1. Init => Promise!Init
  BY DEF Init, Promise!Init, Fate
<1>2. TypeOK /\ LoopInv /\ OwnInv /\ [Next]_vars => [Promise!Next]_(Promise!vars)
  BY PromiseStep
<1>. QED
  BY <1>1, <1>2, TypeCorrect, Ownership, PTL DEF Spec, KeepsPromise, Promise!Spec
=============================================================================
