--------------------------- MODULE CircuitBreaker ---------------------------
(***************************************************************************)
(* The LLM gateway's failure policy: concurrent requests, each with its    *)
(* retries on its mode's primary binding and then on the fallback, and the *)
(* circuit breakers of the bindings, which the requests share.             *)
(*                                                                         *)
(* The gateway is one asyncio loop: what a request does between two awaits *)
(* (a call to a provider, a sleep) is one step.  So a call's report, the   *)
(* decision that follows and the next call's admission are one step, and   *)
(* anything may happen while a call is out: that its circuit opens, cools  *)
(* down and is tried by another.  A call may be out for 120 s (the mode's  *)
(* timeout, gateway.yaml), and a circuit cools down in 30 s.               *)
(***************************************************************************)
EXTENDS Integers, FiniteSets

CONSTANTS
  Requests,  \* requests the gateway serves at a time, each again and again
  Modes,
  Bindings,  \* provider and model
  Primary,   \* the binding a mode is routed to
  Fallback,  \* the one it falls back to, or None
  None,
  Threshold, \* failure_threshold
  Attempts   \* calls to a binding in one request: 1 + Len(RETRY_DELAYS_SECONDS)

ASSUME BreakerAssumption ==
  /\ Primary \in [Modes -> Bindings]
  /\ Fallback \in [Modes -> Bindings \cup {None}] /\ None \notin Bindings
  /\ \A mode \in Modes : Fallback[mode] # Primary[mode]
  /\ Threshold \in Nat \ {0} /\ Attempts \in Nat \ {0}

VARIABLES
  breaker, \* the circuit of each binding; cooled: the reset timeout is over
  req,     \* what each request is doing
  streak   \* history: failures a binding reported since its last success

vars == <<breaker, req, streak>>

Circuits == [state : {"closed", "open", "half_open"}, failures : 0..Threshold,
             probe : BOOLEAN, cooled : BOOLEAN]

\* trial: admitted by a half-open circuit; fresh: the circuit has not opened since.
Calls == [pc : {"calling", "sleeping"}, mode : Modes, on : Bindings, attempt : 1..Attempts,
          trial : BOOLEAN, fresh : BOOLEAN]

Idle == [pc |-> "idle"]

TypeOK ==
  /\ breaker \in [Bindings -> Circuits]
  /\ req \in [Requests -> Calls \cup {Idle}]
  /\ streak \in [Bindings -> 0..Threshold]

Closed == [state |-> "closed", failures |-> 0, probe |-> FALSE, cooled |-> FALSE]

Init ==
  /\ breaker = [b \in Bindings |-> Closed]
  /\ req = [r \in Requests |-> Idle]
  /\ streak = [b \in Bindings |-> 0]

-----------------------------------------------------------------------------
(* One circuit: what allow, record_success and record_failure do to it.    *)

\* Mutant of Admits: a half-open circuit does not look whether its trial is out.
AdmitsHerd(c) == c.state # "open" \/ c.cooled

Admits(c) ==
  \/ c.state = "closed"
  \/ c.state = "open" /\ c.cooled
  \/ c.state = "half_open" /\ ~c.probe

Admitted(c) ==
  IF c.state = "closed" THEN c
  ELSE [state |-> "half_open", failures |-> c.failures, probe |-> TRUE, cooled |-> c.cooled]

Opened(failures) ==
  [state |-> "open", failures |-> failures, probe |-> FALSE, cooled |-> FALSE]

\* Mutant of AfterSuccess: the count of failures is not reset.
AfterSuccessCounting(c) ==
  [state |-> "closed", failures |-> c.failures, probe |-> FALSE, cooled |-> FALSE]

AfterSuccess(c) == Closed

Counted(c) ==
  [state |-> c.state, failures |-> c.failures + 1, probe |-> FALSE, cooled |-> c.cooled]

\* Mutant of AfterFailure: a failed trial is ignored and the circuit stays half open.
AfterFailureUntried(c) ==
  IF c.state # "closed" THEN c
  ELSE IF c.failures + 1 >= Threshold THEN Opened(c.failures + 1)
  ELSE Counted(c)

\* A failed trial opens the circuit again; a failure reported to an open one is ignored.
AfterFailure(c) ==
  IF c.state = "half_open" THEN Opened(c.failures)
  ELSE IF c.state = "open"
  THEN [state |-> "open", failures |-> c.failures, probe |-> FALSE, cooled |-> c.cooled]
  ELSE IF c.failures + 1 >= Threshold THEN Opened(c.failures + 1)
  ELSE Counted(c)

-----------------------------------------------------------------------------
(* Requests.  cs and rs are the circuits and the requests as the step has  *)
(* left them so far.                                                       *)

Call(r, mode, b, attempt, cs, rs) ==
  /\ Admits(cs[b])
  /\ breaker' = [cs EXCEPT ![b] = Admitted(cs[b])]
  /\ req' = [rs EXCEPT ![r] =
       [pc |-> "calling", mode |-> mode, on |-> b, attempt |-> attempt,
        trial |-> cs[b].state # "closed", fresh |-> TRUE]]

\* AllProvidersFailedError: the request is answered 503.
Refuse(r, cs, rs) ==
  /\ breaker' = cs
  /\ req' = [rs EXCEPT ![r] = Idle]

\* Done with binding b: on to the mode's fallback, unless that was it.
FailOver(r, mode, b, cs, rs) ==
  IF b = Primary[mode] /\ Fallback[mode] # None /\ Admits(cs[Fallback[mode]])
  THEN Call(r, mode, Fallback[mode], 1, cs, rs)
  ELSE Refuse(r, cs, rs)

Ask(r, mode, b, attempt, cs, rs) ==
  IF Admits(cs[b]) THEN Call(r, mode, b, attempt, cs, rs) ELSE FailOver(r, mode, b, cs, rs)

Begin(r, mode) ==
  /\ req[r] = Idle
  /\ Ask(r, mode, Primary[mode], 1, breaker, req)
  /\ UNCHANGED streak

Calling(r, b) == req[r].pc = "calling" /\ req[r].on = b

Succeed(r, b) ==
  /\ Calling(r, b)
  /\ breaker' = [breaker EXCEPT ![b] = AfterSuccess(breaker[b])]
  /\ req' = [req EXCEPT ![r] = Idle]
  /\ streak' = [streak EXCEPT ![b] = 0]

\* The requests once binding b has reported a failure: if that opened its circuit, no
\* call to it is fresh any more.
Staled(b) ==
  IF breaker[b].state # "open" /\ AfterFailure(breaker[b]).state = "open"
  THEN [r \in Requests |-> IF Calling(r, b)
          THEN [pc |-> "calling", mode |-> req[r].mode, on |-> b, attempt |-> req[r].attempt,
                trial |-> req[r].trial, fresh |-> FALSE]
          ELSE req[r]]
  ELSE req

\* A call fails, for good or with an error worth a retry.  The request sleeps before the
\* retry, and does not if the circuit is open now or its attempts are used up.
FailWith(r, b, retryable) ==
  /\ Calling(r, b)
  /\ streak' = [streak EXCEPT ![b] = IF streak[b] < Threshold THEN streak[b] + 1 ELSE Threshold]
  /\ LET cs == [breaker EXCEPT ![b] = AfterFailure(breaker[b])]
         rs == Staled(b)
     IN IF retryable /\ req[r].attempt < Attempts /\ cs[b].state # "open"
        THEN /\ breaker' = cs
             /\ req' = [rs EXCEPT ![r] =
                  [pc |-> "sleeping", mode |-> req[r].mode, on |-> b,
                   attempt |-> req[r].attempt, trial |-> FALSE, fresh |-> FALSE]]
        ELSE FailOver(r, req[r].mode, b, cs, rs)

Retry(r, b) ==
  /\ req[r].pc = "sleeping" /\ req[r].on = b
  /\ Ask(r, req[r].mode, b, req[r].attempt + 1, breaker, req)
  /\ UNCHANGED streak

\* reset_timeout_seconds have passed since the circuit opened.
CoolDown(b) ==
  /\ breaker[b].state = "open" /\ ~breaker[b].cooled
  /\ breaker' = [breaker EXCEPT ![b] =
       [state |-> "open", failures |-> breaker[b].failures, probe |-> breaker[b].probe,
        cooled |-> TRUE]]
  /\ UNCHANGED <<req, streak>>

-----------------------------------------------------------------------------
Fail(r, b) == \E retryable \in BOOLEAN : FailWith(r, b, retryable)

Next ==
  \/ \E r \in Requests, mode \in Modes : Begin(r, mode)
  \/ \E r \in Requests, b \in Bindings : Succeed(r, b) \/ Fail(r, b) \/ Retry(r, b)
  \/ \E b \in Bindings : CoolDown(b)

Spec == Init /\ [][Next]_vars

\* A provider answers or times out, a sleep ends, a circuit cools down, and requests of
\* every mode keep coming.
Fairness ==
  /\ \A b \in Bindings : WF_vars(CoolDown(b))
  /\ \A r \in Requests, b \in Bindings :
       WF_vars(Succeed(r, b) \/ Fail(r, b)) /\ WF_vars(Retry(r, b))
  /\ \A mode \in Modes : SF_vars(\E r \in Requests : Begin(r, mode))

FairSpec == Spec /\ Fairness

-----------------------------------------------------------------------------
(* Properties.                                                             *)

CallsTo(b) == {r \in Requests : Calling(r, b)}

FreshCalls(b) == {r \in CallsTo(b) : req[r].fresh}

\* circuit_breaker.py, docstring: a circuit is closed as long as fewer than Threshold
\* failures in a row were reported, by whichever requests and in whatever order their
\* calls end, and not a failure longer.
OpensAtThreshold ==
  \A b \in Bindings : breaker[b].state = "closed" <=> streak[b] < Threshold

\* allow(): an open circuit lets no call out until it is half open, and then one.  A
\* circuit whose trial has gone astray would stay half open for ever.
OneTrialPerOpening ==
  \A b \in Bindings :
    /\ breaker[b].state = "open" => FreshCalls(b) = {}
    /\ breaker[b].state = "half_open" => \E r \in Requests : FreshCalls(b) = {r}

\* llm-gateway-failure.md:50-51: once a binding's calls no longer fail, its circuit closes
\* on its own, if a mode is routed to it.
ClosesAgain ==
  \A b \in Bindings :
    b \in {Primary[m] : m \in Modes} =>
      (<>[][\A r \in Requests : ~Fail(r, b)]_vars => <>[](breaker[b].state = "closed"))
=============================================================================
