--------------------------- MODULE DispatchBudget ---------------------------
(***************************************************************************)
(* The clocks between the outbox worker and the reasoner: one              *)
(* incident.reasoning_requested event, the workers that dispatch it, and   *)
(* the handlers it starts at the reasoner.  A worker that hangs up does    *)
(* not stop the handler, which finds no marker to stop it either until one *)
(* of them has committed: what keeps the event from being analysed and     *)
(* paid for twice is the order of the timeouts.                            *)
(*                                                                         *)
(* Time passes in ticks of five seconds, of which every duration in the    *)
(* code is a multiple.  Whatever has a deadline happens by then, at any    *)
(* time before it.                                                         *)
(***************************************************************************)
EXTENDS Integers, Sequences, FiniteSets

CONSTANTS
  Workers,
  DispatchTimeout, \* REASONER_DISPATCH_TIMEOUT_SECONDS: 90 s
  HttpxReads,      \* read timeouts its httpx client may be built with: 5 s by default
  KnowledgeBudget, \* REASONER_KNOWLEDGE_BUDGET_SECONDS: 20 s
  LLMBudget,       \* REASONER_LLM_BUDGET_SECONDS: 60 s
  OwnWork,         \* the reasoner's transactions, in the margin left for them
  ReaperAge,       \* how long a row is processing before it is reaped: 60 s
  Idle             \* a worker that dispatches nothing

MaxAttempts == 5

\* timeouts.py asserts the first at import.
ASSUME BudgetAssumption ==
  /\ DispatchTimeout > KnowledgeBudget + LLMBudget
  /\ OwnWork < DispatchTimeout - KnowledgeBudget - LLMBudget
  /\ {DispatchTimeout, KnowledgeBudget, LLMBudget, ReaperAge} \subseteq Nat \ {0}
  /\ HttpxReads \subseteq Nat \ {0}
  /\ OwnWork \in Nat /\ Idle \notin Nat

VARIABLES
  httpx,    \* the read timeout of this deployment's client
  status,   \* the row's status; "gone" once it is deleted
  attempts,
  due,      \* ticks until process_after
  age,      \* ticks since updated_at, up to ReaperAge
  handlers, \* the reasoner's, in the order they began: stage and ticks in it
  serving,  \* the handler each worker waits for
  waited    \* ticks it has waited

row  == <<status, attempts, due, age>>
bvars == <<httpx, row, handlers, serving, waited>>

Stages == {"absorbed", "knowledge", "llm", "write", "done"}

BudgetTypeOK ==
  /\ httpx \in HttpxReads
  /\ status \in {"pending", "processing", "gone", "dead_letter"}
  /\ attempts \in 0..MaxAttempts
  /\ due \in Nat
  /\ age \in 0..ReaperAge
  /\ handlers \in Seq([stage : Stages, spent : Nat])
  /\ serving \in [Workers -> DOMAIN handlers \cup {Idle}]
  /\ waited \in [Workers -> Nat]

BudgetInit ==
  /\ httpx \in HttpxReads
  /\ status = "pending" /\ attempts = 0 /\ due = 0 /\ age = 0
  /\ handlers = << >>
  /\ serving = [w \in Workers |-> Idle]
  /\ waited = [w \in Workers |-> 0]

-----------------------------------------------------------------------------
Finished == {"absorbed", "done"}

\* processed_events holds the event once a handler has committed.
Marked == \E h \in DOMAIN handlers : handlers[h].stage = "done"

AtMost(n, bound) == IF n < bound THEN n ELSE bound

\* asyncio.timeout and httpx's own read timeout both end the wait.
Patience == AtMost(DispatchTimeout, httpx)

\* Mutant of Limit: the reasoner trusts the gateway's own limit of 120 s.
LimitLLMUncapped(stage) ==
  CASE stage = "knowledge" -> KnowledgeBudget
    [] stage = "llm"       -> 2 * LLMBudget
    [] stage = "write"     -> OwnWork

\* How long a handler may stay in a stage.
Limit(stage) ==
  CASE stage = "knowledge" -> KnowledgeBudget
    [] stage = "llm"       -> LLMBudget
    [] stage = "write"     -> OwnWork

\* Mutants of RetryDelay: every retry is as fast as the first; all but the second are.
RetryDelayFlat(attempt) == 1
RetryDelayShort(attempt) == IF attempt = 3 THEN 3 ELSE 1

\* RETRY_DELAYS_SECONDS = {2: 5, 3: 15, 4: 60, 5: 300}
RetryDelay(attempt) == <<0, 1, 3, 12, 60>>[attempt]

\* mark_failed, also for a row that is reaped (which is due at once).
Fail(delayed) ==
  /\ attempts' = attempts + 1
  /\ age' = 0
  /\ IF attempts + 1 >= MaxAttempts
     THEN /\ status' = "dead_letter"
          /\ UNCHANGED due
     ELSE /\ status' = "pending"
          /\ due' = IF delayed THEN RetryDelay(attempts + 2) ELSE 0

\* A worker claims the row and posts the event; the handler's gate lets it in unless
\* an earlier one has committed.
Dispatch(w) ==
  /\ serving[w] = Idle
  /\ status = "pending" /\ due = 0
  /\ status' = "processing" /\ age' = 0
  /\ handlers' = Append(handlers,
                        [stage |-> IF Marked THEN "absorbed" ELSE "knowledge", spent |-> 0])
  /\ serving' = [serving EXCEPT ![w] = Len(handlers) + 1]
  /\ waited' = [waited EXCEPT ![w] = 0]
  /\ UNCHANGED <<httpx, attempts, due>>

After(stage) == CASE stage = "knowledge" -> "llm"
                  [] stage = "llm"       -> "write"
                  [] stage = "write"     -> "done"

\* A handler goes on to its next stage.  Nothing tells it that its worker hung up.
Advance(h) ==
  /\ handlers[h].stage \notin Finished
  /\ handlers' = [handlers EXCEPT ![h] =
       [stage |-> After(handlers[h].stage), spent |-> 0]]
  /\ UNCHANGED <<httpx, row, serving, waited>>

StopWaiting(w) ==
  /\ serving' = [serving EXCEPT ![w] = Idle]
  /\ waited' = [waited EXCEPT ![w] = 0]

\* The 2xx arrives and the row is deleted, if it is still there.
Delivered(w) ==
  /\ serving[w] # Idle
  /\ handlers[serving[w]].stage \in Finished
  /\ StopWaiting(w)
  /\ status' = "gone"
  /\ UNCHANGED <<httpx, attempts, due, age, handlers>>

\* The worker's patience ends, and the failure is recorded if the row is still there.
HangUp(w) ==
  /\ serving[w] # Idle /\ waited[w] = Patience
  /\ handlers[serving[w]].stage \notin Finished
  /\ StopWaiting(w)
  /\ IF status = "gone" THEN UNCHANGED row ELSE Fail(TRUE)
  /\ UNCHANGED <<httpx, handlers>>

\* The reaper takes a row that has been processing for long for a crashed worker's.
Reap ==
  /\ status = "processing" /\ age = ReaperAge
  /\ Fail(FALSE)
  /\ UNCHANGED <<httpx, handlers, serving, waited>>

Later(n) == IF n = 0 THEN 0 ELSE n - 1

\* Five seconds pass, unless something is due now.
Tick ==
  /\ \A w \in Workers : serving[w] # Idle => waited[w] < Patience
  /\ \A h \in DOMAIN handlers :
       handlers[h].stage \notin Finished => handlers[h].spent < Limit(handlers[h].stage)
  /\ due' = Later(due)
  /\ age' = IF status = "processing" THEN AtMost(age + 1, ReaperAge) ELSE age
  /\ handlers' = [h \in DOMAIN handlers |->
       IF handlers[h].stage \in Finished THEN handlers[h]
       ELSE [stage |-> handlers[h].stage, spent |-> handlers[h].spent + 1]]
  /\ waited' = [w \in Workers |-> IF serving[w] = Idle THEN 0 ELSE waited[w] + 1]
  /\ UNCHANGED <<httpx, status, attempts, serving>>

-----------------------------------------------------------------------------
BudgetNext ==
  \/ \E w \in Workers : Dispatch(w) \/ Delivered(w) \/ HangUp(w)
  \/ \E h \in DOMAIN handlers : Advance(h)
  \/ Reap
  \/ Tick

BudgetSpec == BudgetInit /\ [][BudgetNext]_bvars

\* Time passes, and the poll loop and the reaper run every few ticks.
BudgetFairness ==
  /\ WF_bvars(Tick) /\ WF_bvars(Reap)
  /\ \A w \in Workers : WF_bvars(Dispatch(w)) /\ WF_bvars(Delivered(w)) /\ WF_bvars(HangUp(w))
  /\ WF_bvars(\E h \in DOMAIN handlers : Advance(h))

FairBudgetSpec == BudgetSpec /\ BudgetFairness

-----------------------------------------------------------------------------
(* Properties.                                                             *)

Calls == {h \in DOMAIN handlers : handlers[h].stage \in {"llm", "write", "done"}}

\* timeouts.py: the event is analysed, and the LLM paid, once.
OneCall == Cardinality(Calls) <= 1

\* What timeouts.py takes for granted: nothing cuts the dispatch timeout short.
Ordered == httpx >= DispatchTimeout

\* Then the event is analysed once, although the reaper resets the row under the worker.
OneCallWhenOrdered == Ordered => OneCall

\* Then no worker gives an event up while the reasoner is at work on it.
NeverAbandonedWhenOrdered ==
  Ordered =>
    \A h \in DOMAIN handlers :
      handlers[h].stage \notin Finished => \E w \in Workers : serving[w] = h

\* However early the workers hang up, the growing delays bound what an event can cost:
\* five attempts, three calls.
AtMostThreeCalls == Cardinality(Calls) <= 3

\* And they outlast the budgets: the attempts run out only after a handler has committed
\* and absorbs the next one, so the event is answered in the end and its row deleted.
EventuallyDelivered == <>(status = "gone")
=============================================================================
