---------------------------- MODULE EventDelivery ----------------------------
(***************************************************************************)
(* What the outbox promises the services that write to it, with no workers, *)
(* batches, clocks or reapers: a written event stays owed until its target *)
(* has answered it or the outbox gives it up for dead, and a dead event    *)
(* comes back only when an admin requeues it.                              *)
(***************************************************************************)
CONSTANTS Events,      \* the events ever written
          Deliverable  \* those that can be sent to their target

VARIABLES fate,     \* what has become of each event
          answered  \* the events their target has accepted at least once

vars == <<fate, answered>>

Init ==
  /\ fate = [e \in Events |-> "unwritten"]
  /\ answered = {}

Becomes(e, from, to) ==
  /\ fate[e] = from
  /\ fate' = [fate EXCEPT ![e] = to]
  /\ UNCHANGED answered

Write(e) == Becomes(e, "unwritten", "owed")

\* The target accepts a delivery -- perhaps not for the first time.
Answer(e) ==
  /\ fate[e] = "owed" /\ e \in Deliverable
  /\ answered' = answered \cup {e}
  /\ UNCHANGED fate

Deliver(e) == e \in answered /\ Becomes(e, "owed", "delivered")
GiveUp(e)  == Becomes(e, "owed", "dead")
Requeue(e) == Becomes(e, "dead", "owed")

\* A sweep gives up several events at once, and an answer is recorded long after
\* it was given; every other step is about one event.
GiveUpAll(S) ==
  /\ \A e \in S : fate[e] = "owed"
  /\ fate' = [e \in Events |-> IF e \in S THEN "dead" ELSE fate[e]]
  /\ UNCHANGED answered

Next ==
  \/ \E e \in Events : Write(e) \/ Answer(e) \/ Deliver(e) \/ Requeue(e)
  \/ \E S \in SUBSET Events : GiveUpAll(S)

Spec == Init /\ [][Next]_vars

\* No event stays owed for ever.
FairSpec == Spec /\ \A e \in Events : WF_vars(Deliver(e) \/ GiveUp(e))
=============================================================================
