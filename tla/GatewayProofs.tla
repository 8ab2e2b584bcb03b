--------------------------- MODULE GatewayProofs ----------------------------
(***************************************************************************)
(* That a circuit opens at its threshold and lets out one trial each time, *)
(* for any number of requests, modes and bindings; and of the requests and *)
(* streams beside the circuits, that whatever becomes of a request it is   *)
(* recorded once, and its stream truncated by a cancellation only.         *)
(*                                                                         *)
(* A step may touch two circuits: it reports to the one of a failed        *)
(* binding and asks the one of the fallback.  So the invariant is stated   *)
(* of any circuits and requests, those in the middle of a step as well,    *)
(* where one request r is between two calls (GoodBut).                     *)
(*                                                                         *)
(* A step of the gateway is one of the failure policy or leaves the        *)
(* circuits alone, so what is proved of CircuitBreaker holds of it.  The   *)
(* slots do not interfere: a step changes one request's, and no other      *)
(* request's call begins or ends by it.                                    *)
(***************************************************************************)
EXTENDS Gateway, TLAPS

(* The circuits.                                                           *)

Fresh(rs, b) ==
  {q \in Requests : rs[q].pc = "calling" /\ rs[q].on = b /\ rs[q].fresh}

Shape(cs, rs, st) ==
  /\ cs \in [Bindings -> Circuits]
  /\ rs \in [Requests -> Calls \cup {Idle}]
  /\ \A q \in Requests : rs[q].pc = "sleeping" => rs[q].attempt < Attempts
  /\ st \in [Bindings -> 0..Threshold]

\* A circuit's count is the streak as long as it is closed, and the streak is as long as
\* it gets when it is not.
Counting(cs, st) ==
  \A b \in Bindings :
    IF cs[b].state = "closed" THEN cs[b].failures = st[b] /\ st[b] < Threshold
    ELSE st[b] = Threshold

\* The trials, request r aside.
Trials(cs, rs, r) ==
  \A b \in Bindings :
    /\ cs[b].state = "open" => Fresh(rs, b) \ {r} = {}
    /\ cs[b].state = "half_open" =>
         cs[b].probe /\ \E q \in Requests \ {r} : Fresh(rs, b) \ {r} = {q}

GoodBut(cs, rs, st, r) == Shape(cs, rs, st) /\ Counting(cs, st) /\ Trials(cs, rs, r)

Good(cs, rs, st) ==
  /\ Shape(cs, rs, st)
  /\ Counting(cs, st)
  /\ \A b \in Bindings :
       /\ cs[b].state = "open" => Fresh(rs, b) = {}
       /\ cs[b].state = "half_open" =>
            cs[b].probe /\ \E q \in Requests : Fresh(rs, b) = {q}

IInv == Good(breaker, req, streak)

-----------------------------------------------------------------------------
(* How a step may end for request r.                                       *)

LEMMA Admitting ==
  ASSUME NEW cs, NEW rs, NEW st, NEW r \in Requests, NEW b \in Bindings, NEW call \in Calls,
         GoodBut(cs, rs, st, r), Admits(cs[b]),
         call.pc = "calling", call.on = b, call.fresh
  PROVE  Good([cs EXCEPT ![b] = Admitted(cs[b])], [rs EXCEPT ![r] = call], st)
<1> DEFINE cs2 == [cs EXCEPT ![b] = Admitted(cs[b])]
           rs2 == [rs EXCEPT ![r] = call]
<1>1. cs \in [Bindings -> Circuits] /\ rs \in [Requests -> Calls \cup {Idle}]
  BY DEF GoodBut, Shape
<1>2. Admitted(cs[b]) \in Circuits
  BY <1>1 DEF Admitted, Circuits
<1>3. Shape(cs2, rs2, st)
  BY <1>1, <1>2 DEF GoodBut, Shape
<1>4. /\ cs2[b] = Admitted(cs[b])
      /\ \A a \in Bindings \ {b} : cs2[a] = cs[a]
      /\ \A a \in Bindings : Fresh(rs2, a) = IF a = b THEN (Fresh(rs, a) \ {r}) \cup {r}
                                             ELSE Fresh(rs, a) \ {r}
  BY <1>1 DEF Fresh
<1>5. /\ cs[b].state = "closed" => cs2[b] = cs[b]
      /\ cs[b].state # "closed" => cs2[b].state = "half_open" /\ cs2[b].probe
  BY <1>4 DEF Admitted
<1>6. Counting(cs2, st)
  BY <1>4, <1>5 DEF GoodBut, Counting
<1>7. cs[b].state # "closed" => Fresh(rs2, b) = {r}
  <2>1. cs[b].state # "half_open"
    BY DEF GoodBut, Trials, Admits
  <2>2. QED BY <1>1, <1>4, <2>1 DEF GoodBut, Trials, Circuits
<1>8. ASSUME NEW a \in Bindings
      PROVE  /\ cs2[a].state = "open" => Fresh(rs2, a) = {}
             /\ cs2[a].state = "half_open" =>
                  cs2[a].probe /\ \E q \in Requests : Fresh(rs2, a) = {q}
  <2>1. CASE a # b
    BY <1>4, <2>1 DEF GoodBut, Trials
  <2>2. CASE a = b
    BY <1>5, <1>7, <2>2 DEF Circuits, Admits
  <2>3. QED BY <2>1, <2>2
<1>9. QED BY <1>3, <1>6, <1>8 DEF Good

LEMMA Leaving ==
  ASSUME NEW cs, NEW rs, NEW st, NEW r \in Requests, NEW call \in Calls \cup {Idle},
         GoodBut(cs, rs, st, r), call.pc # "calling",
         call.pc = "sleeping" => call.attempt < Attempts
  PROVE  Good(cs, [rs EXCEPT ![r] = call], st)
<1> DEFINE rs2 == [rs EXCEPT ![r] = call]
<1>1. Shape(cs, rs2, st)
  BY DEF GoodBut, Shape
<1>2. \A a \in Bindings : Fresh(rs2, a) = Fresh(rs, a) \ {r}
  BY DEF GoodBut, Shape, Fresh
<1>3. QED BY <1>1, <1>2 DEF GoodBut, Trials, Good

\* A request that asks is let out, by this binding or its fallback, or is refused.
LEMMA CallStep ==
  ASSUME NEW cs, NEW rs, NEW st, NEW r \in Requests, NEW mode \in Modes, NEW b \in Bindings,
         NEW attempt \in 1..Attempts,
         GoodBut(cs, rs, st, r), Call(r, mode, b, attempt, cs, rs)
  PROVE  Good(breaker', req', st)
<1> DEFINE call == [pc |-> "calling", mode |-> mode, on |-> b, attempt |-> attempt,
                    trial |-> cs[b].state # "closed", fresh |-> TRUE]
<1>1. call \in Calls
  BY DEF Calls
<1>2. /\ Admits(cs[b])
      /\ breaker' = [cs EXCEPT ![b] = Admitted(cs[b])]
      /\ req' = [rs EXCEPT ![r] = call]
  BY DEF Call
<1>3. call.pc = "calling" /\ call.on = b /\ call.fresh
  OBVIOUS
<1> HIDE DEF call
<1>4. QED BY <1>1, <1>2, <1>3, Admitting

LEMMA FailOverStep ==
  ASSUME NEW cs, NEW rs, NEW st, NEW r \in Requests, NEW mode \in Modes, NEW b \in Bindings,
         GoodBut(cs, rs, st, r), FailOver(r, mode, b, cs, rs)
  PROVE  Good(breaker', req', st)
<1>1. CASE Refuse(r, cs, rs)
  <2>1. Idle.pc # "calling" /\ Idle.pc # "sleeping"
    BY DEF Idle
  <2>2. QED BY <1>1, <2>1, Leaving DEF Refuse
<1>2. CASE Fallback[mode] # None /\ Call(r, mode, Fallback[mode], 1, cs, rs)
  <2>1. Fallback[mode] \in Bindings /\ 1 \in 1..Attempts
    BY <1>2, BreakerAssumption
  <2>2. QED BY <1>2, <2>1, CallStep
<1>3. QED BY <1>1, <1>2 DEF FailOver

LEMMA AskStep ==
  ASSUME NEW r \in Requests, NEW mode \in Modes, NEW b \in Bindings,
         NEW attempt \in 1..Attempts, IInv, req[r].pc # "calling",
         Ask(r, mode, b, attempt, breaker, req), UNCHANGED streak
  PROVE  IInv'
<1>1. GoodBut(breaker, req, streak, r)
  <2>1. \A a \in Bindings : r \notin Fresh(req, a)
    BY DEF Fresh
  <2>2. QED BY <2>1 DEF IInv, Good, GoodBut, Trials
<1>2. Good(breaker', req', streak)
  BY <1>1, CallStep, FailOverStep DEF Ask
<1>3. QED BY <1>2 DEF IInv

-----------------------------------------------------------------------------
(* The actions.                                                            *)

LEMMA InitInv == Init => IInv
<1> SUFFICES ASSUME Init PROVE IInv
  OBVIOUS
<1>1. Shape(breaker, req, streak)
  BY BreakerAssumption DEF Init, Shape, Closed, Circuits, Idle
<1>2. Counting(breaker, streak)
  BY BreakerAssumption DEF Init, Counting, Closed
<1>3. \A b \in Bindings : breaker[b].state = "closed"
  BY DEF Init, Closed
<1>4. QED BY <1>1, <1>2, <1>3 DEF IInv, Good

LEMMA SucceedStep ==
  ASSUME IInv, NEW r \in Requests, NEW b \in Bindings, Succeed(r, b)
  PROVE  IInv'
<1> DEFINE cs == [breaker EXCEPT ![b] = AfterSuccess(breaker[b])]
           st == [streak EXCEPT ![b] = 0]
<1>1. /\ cs \in [Bindings -> Circuits] /\ st \in [Bindings -> 0..Threshold]
      /\ cs[b] = Closed /\ st[b] = 0
      /\ \A a \in Bindings \ {b} : cs[a] = breaker[a] /\ st[a] = streak[a]
  BY BreakerAssumption DEF IInv, Good, Shape, AfterSuccess, Closed, Circuits
<1>2. Shape(cs, req, st)
  BY <1>1 DEF IInv, Good, Shape
<1>3. Counting(cs, st)
  BY <1>1, BreakerAssumption DEF IInv, Good, Counting, Closed
<1>4. \A a \in Bindings \ {b} : r \notin Fresh(req, a)
  BY DEF Succeed, Calling, Fresh
<1>5. Trials(cs, req, r)
  BY <1>1, <1>4 DEF IInv, Good, Trials, Closed
<1>6. Good(cs, [req EXCEPT ![r] = Idle], st)
  <2>1. Idle.pc # "calling" /\ Idle.pc # "sleeping"
    BY DEF Idle
  <2> HIDE DEF cs, st
  <2>2. QED BY <1>2, <1>3, <1>5, <2>1, Leaving DEF GoodBut
<1>7. QED BY <1>6 DEF Succeed, IInv

\* What a report of a failure does to the circuit it is made to.
LEMMA Failing ==
  ASSUME IInv, NEW b \in Bindings
  PROVE  LET c == AfterFailure(breaker[b])
             n == IF streak[b] < Threshold THEN streak[b] + 1 ELSE Threshold
         IN /\ c \in Circuits /\ n \in 0..Threshold
            /\ c.state # "half_open"
            /\ IF c.state = "closed" THEN c.failures = n /\ n < Threshold
               ELSE n = Threshold
<1>1. /\ breaker[b] \in Circuits /\ streak[b] \in 0..Threshold
      /\ breaker[b].state = "closed" => breaker[b].failures = streak[b] /\ streak[b] < Threshold
      /\ breaker[b].state # "closed" => streak[b] = Threshold
  BY DEF IInv, Good, Shape, Counting
<1>2. /\ breaker[b].failures \in 0..Threshold /\ breaker[b].cooled \in BOOLEAN
      /\ breaker[b].state \in {"closed", "open", "half_open"}
  BY <1>1 DEF Circuits
<1>3. CASE breaker[b].state = "half_open"
  BY <1>1, <1>2, <1>3, BreakerAssumption DEF AfterFailure, Opened, Circuits
<1>4. CASE breaker[b].state = "open"
  BY <1>1, <1>2, <1>4, BreakerAssumption DEF AfterFailure, Circuits
<1>5. CASE breaker[b].state = "closed" /\ breaker[b].failures + 1 >= Threshold
  BY <1>1, <1>2, <1>5, BreakerAssumption DEF AfterFailure, Opened, Circuits
<1>6. CASE breaker[b].state = "closed" /\ ~(breaker[b].failures + 1 >= Threshold)
  BY <1>1, <1>2, <1>6, BreakerAssumption DEF AfterFailure, Counted, Circuits
<1>7. QED BY <1>2, <1>3, <1>4, <1>5, <1>6

LEMMA FailStep ==
  ASSUME IInv, NEW r \in Requests, NEW b \in Bindings, NEW retryable \in BOOLEAN,
         FailWith(r, b, retryable)
  PROVE  IInv'
<1> DEFINE cs == [breaker EXCEPT ![b] = AfterFailure(breaker[b])]
           rs == Staled(b)
           n == IF streak[b] < Threshold THEN streak[b] + 1 ELSE Threshold
           st == [streak EXCEPT ![b] = n]
           opens == breaker[b].state # "open" /\ AfterFailure(breaker[b]).state = "open"
<1>1. /\ breaker \in [Bindings -> Circuits]
      /\ req \in [Requests -> Calls \cup {Idle}]
      /\ streak \in [Bindings -> 0..Threshold]
  BY DEF IInv, Good, Shape
<1>2. /\ req[r] \in Calls /\ req[r].pc = "calling" /\ req[r].on = b
      /\ req[r].mode \in Modes /\ req[r].attempt \in 1..Attempts
  BY <1>1 DEF FailWith, Calling, Calls, Idle
<1>3. /\ cs \in [Bindings -> Circuits] /\ st \in [Bindings -> 0..Threshold]
      /\ cs[b] = AfterFailure(breaker[b]) /\ st[b] = n
      /\ \A a \in Bindings \ {b} : cs[a] = breaker[a] /\ st[a] = streak[a]
  BY <1>1, Failing
<1>4. rs \in [Requests -> Calls \cup {Idle}]
  <2>1. ASSUME NEW q \in Requests, Calling(q, b)
        PROVE  [pc |-> "calling", mode |-> req[q].mode, on |-> b, attempt |-> req[q].attempt,
                trial |-> req[q].trial, fresh |-> FALSE] \in Calls
    <3>1. req[q] \in Calls
      BY <1>1, <2>1 DEF Calling, Idle
    <3>2. QED BY <3>1 DEF Calls
  <2>2. QED BY <1>1, <2>1 DEF Staled
<1>5. \A q \in Requests : rs[q].pc = req[q].pc /\ rs[q].attempt = req[q].attempt
  BY DEF Staled, Calling
<1>6. /\ \A a \in Bindings \ {b} : Fresh(rs, a) = Fresh(req, a)
      /\ opens => Fresh(rs, b) = {}
      /\ ~opens => Fresh(rs, b) = Fresh(req, b)
  <2>1. CASE ~opens
    BY <2>1 DEF Staled
  <2>2. CASE opens
    <3>1. \A q \in Requests :
            rs[q] = IF Calling(q, b)
                    THEN [pc |-> "calling", mode |-> req[q].mode, on |-> b,
                          attempt |-> req[q].attempt, trial |-> req[q].trial, fresh |-> FALSE]
                    ELSE req[q]
      BY <2>2 DEF Staled
    <3> HIDE DEF rs
    <3>2. ASSUME NEW q \in Requests
          PROVE  IF Calling(q, b)
                 THEN rs[q].pc = "calling" /\ rs[q].on = b /\ rs[q].fresh = FALSE
                 ELSE rs[q] = req[q]
      <4>1. CASE Calling(q, b)
        <5>1. rs[q] = [pc |-> "calling", mode |-> req[q].mode, on |-> b,
                       attempt |-> req[q].attempt, trial |-> req[q].trial, fresh |-> FALSE]
          BY <3>1, <4>1
        <5>2. QED BY <4>1, <5>1
      <4>2. CASE ~Calling(q, b)
        BY <3>1, <4>2
      <4>3. QED BY <4>1, <4>2
    <3>3. \A a \in Bindings \ {b} : Fresh(rs, a) = Fresh(req, a)
      <4> SUFFICES ASSUME NEW a \in Bindings \ {b}, NEW q \in Requests
                   PROVE  q \in Fresh(rs, a) <=> q \in Fresh(req, a)
        BY DEF Fresh
      <4>1. CASE Calling(q, b)
        BY <3>2, <4>1 DEF Fresh, Calling
      <4>2. CASE ~Calling(q, b)
        BY <3>2, <4>2 DEF Fresh, Calling
      <4>3. QED BY <4>1, <4>2
    <3>4. Fresh(rs, b) = {}
      <4> SUFFICES ASSUME NEW q \in Requests, q \in Fresh(rs, b) PROVE FALSE
        BY DEF Fresh
      <4>1. CASE Calling(q, b)
        BY <3>2, <4>1 DEF Fresh, Calling
      <4>2. CASE ~Calling(q, b)
        BY <3>2, <4>2 DEF Fresh, Calling
      <4>3. QED BY <4>1, <4>2
    <3>5. QED BY <2>2, <3>3, <3>4
  <2>3. QED BY <2>1, <2>2
<1>7. Shape(cs, rs, st)
  <2> HIDE DEF cs, rs, st
  <2>1. QED BY <1>3, <1>4, <1>5 DEF IInv, Good, Shape
<1>8. Counting(cs, st)
  <2>1. \A a \in Bindings \ {b} :
          IF cs[a].state = "closed" THEN cs[a].failures = st[a] /\ st[a] < Threshold
          ELSE st[a] = Threshold
    BY <1>3 DEF IInv, Good, Counting
  <2>2. IF cs[b].state = "closed" THEN cs[b].failures = st[b] /\ st[b] < Threshold
        ELSE st[b] = Threshold
    BY <1>3, Failing
  <2> HIDE DEF cs, st
  <2>3. QED BY <2>1, <2>2 DEF Counting
<1>9. Trials(cs, rs, r)
  <2> SUFFICES ASSUME NEW a \in Bindings
               PROVE  /\ cs[a].state = "open" => Fresh(rs, a) \ {r} = {}
                      /\ cs[a].state = "half_open" =>
                           /\ cs[a].probe
                           /\ \E q \in Requests \ {r} : Fresh(rs, a) \ {r} = {q}
    BY DEF Trials
  <2>1. CASE a = b
    <3>1. cs[b].state # "half_open"
      BY <1>3, Failing
    <3>2. cs[b].state = "open" => Fresh(rs, b) = {}
      BY <1>3, <1>6 DEF IInv, Good
    <3> HIDE DEF cs, rs
    <3>3. QED BY <2>1, <3>1, <3>2
  <2>2. CASE a # b
    <3>1. r \notin Fresh(req, a)
      BY <1>2, <2>2 DEF Fresh
    <3>2. cs[a] = breaker[a] /\ Fresh(rs, a) = Fresh(req, a)
      BY <1>3, <1>6, <2>2
    <3> HIDE DEF cs, rs
    <3>3. QED BY <3>1, <3>2 DEF IInv, Good
  <2>3. QED BY <2>1, <2>2
<1>10. GoodBut(cs, rs, st, r)
  BY <1>7, <1>8, <1>9 DEF GoodBut
<1>11. streak' = st
  BY DEF FailWith
<1>12. CASE FailOver(r, req[r].mode, b, cs, rs)
  <2> HIDE DEF cs, rs, st
  <2>1. QED BY <1>2, <1>10, <1>11, <1>12, FailOverStep DEF IInv
<1>13. CASE ~FailOver(r, req[r].mode, b, cs, rs)
  <2> DEFINE nap == [pc |-> "sleeping", mode |-> req[r].mode, on |-> b,
                     attempt |-> req[r].attempt, trial |-> FALSE, fresh |-> FALSE]
  <2>1. nap \in Calls /\ nap.pc # "calling"
    BY <1>2 DEF Calls
  <2> nap.attempt < Attempts
    BY <1>13 DEF FailWith
  <2>2. breaker' = cs /\ req' = [rs EXCEPT ![r] = nap]
    BY <1>13 DEF FailWith
  <2> HIDE DEF cs, rs, st, nap
  <2>3. Good(cs, [rs EXCEPT ![r] = nap], st)
    BY <1>10, <2>1, Leaving
  <2>4. QED BY <1>11, <2>2, <2>3 DEF IInv
<1>14. QED BY <1>12, <1>13

LEMMA BeginStep ==
  ASSUME IInv, NEW r \in Requests, NEW mode \in Modes, Begin(r, mode)
  PROVE  IInv'
<1>1. /\ Primary[mode] \in Bindings /\ 1 \in 1..Attempts
      /\ req[r].pc # "calling"
  BY BreakerAssumption DEF Begin, Idle
<1>2. QED BY <1>1, AskStep DEF Begin

LEMMA RetryStep ==
  ASSUME IInv, NEW r \in Requests, NEW b \in Bindings, Retry(r, b)
  PROVE  IInv'
<1>1. req[r] \in Calls
  BY DEF IInv, Good, Shape, Retry, Idle
<1>2. /\ req[r].mode \in Modes /\ req[r].attempt + 1 \in 1..Attempts
      /\ req[r].pc # "calling"
  <2>1. req[r].attempt < Attempts /\ req[r].attempt \in 1..Attempts
    BY <1>1 DEF IInv, Good, Shape, Retry, Calls
  <2>2. QED BY <1>1, <2>1, BreakerAssumption DEF Retry, Calls
<1>3. QED BY <1>2, AskStep DEF Retry

LEMMA CoolDownStep ==
  ASSUME IInv, NEW b \in Bindings, CoolDown(b)
  PROVE  IInv'
<1>1. /\ breaker' \in [Bindings -> Circuits] /\ breaker'[b].state = "open"
      /\ breaker[b].state = "open"
      /\ \A a \in Bindings \ {b} : breaker'[a] = breaker[a]
      /\ req' = req /\ streak' = streak
  BY DEF CoolDown, IInv, Good, Shape, Circuits
<1>2. QED BY <1>1 DEF IInv, Good, Shape, Counting

LEMMA StepInv == IInv /\ [Next]_vars => IInv'
<1> SUFFICES ASSUME IInv, [Next]_vars PROVE IInv'
  OBVIOUS
<1>1. CASE \E r \in Requests, mode \in Modes : Begin(r, mode)
  BY <1>1, BeginStep
<1>2. CASE \E r \in Requests, b \in Bindings : Succeed(r, b)
  BY <1>2, SucceedStep
<1>3. CASE \E r \in Requests, b \in Bindings : Fail(r, b)
  BY <1>3, FailStep DEF Fail
<1>4. CASE \E r \in Requests, b \in Bindings : Retry(r, b)
  BY <1>4, RetryStep
<1>5. CASE \E b \in Bindings : CoolDown(b)
  BY <1>5, CoolDownStep
<1>6. CASE UNCHANGED vars
  BY <1>6 DEF vars, IInv, Good, Shape, Counting, Fresh
<1>7. QED BY <1>1, <1>2, <1>3, <1>4, <1>5, <1>6 DEF Next

LEMMA Invariance == Spec => []IInv
BY InitInv, StepInv, PTL DEF Spec

-----------------------------------------------------------------------------
\* In whatever order the calls of however many requests end, an open circuit has let no
\* call out since it opened, and a half-open one exactly one (allow, record_failure).
THEOREM TrialsOnePerOpening == Spec => []OneTrialPerOpening
<1>1. IInv => OneTrialPerOpening
  <2> SUFFICES ASSUME IInv, NEW b \in Bindings
               PROVE  /\ breaker[b].state = "open" => FreshCalls(b) = {}
                      /\ breaker[b].state = "half_open" =>
                           \E r \in Requests : FreshCalls(b) = {r}
    BY DEF OneTrialPerOpening
  <2>1. FreshCalls(b) = Fresh(req, b)
    BY DEF FreshCalls, CallsTo, Calling, Fresh
  <2>2. QED BY <2>1 DEF IInv, Good
<1>2. QED BY <1>1, Invariance, PTL

\* A circuit is closed exactly while fewer than Threshold failures in a row have been
\* reported for its binding.
THEOREM OpensInTime == Spec => []OpensAtThreshold
<1>1. IInv => OpensAtThreshold
  BY BreakerAssumption DEF IInv, Good, Shape, Counting, OpensAtThreshold
<1>2. QED BY <1>1, Invariance, PTL

\* TypeOK is part of the invariant.
THEOREM TypeCorrect == Spec => []TypeOK
<1>1. IInv => TypeOK
  BY DEF IInv, Good, Shape, TypeOK
<1>2. QED BY <1>1, Invariance, PTL

-----------------------------------------------------------------------------
(* The requests and their streams.                                         *)

\* What is admitted asks for a mode of the routing table.
LEMMA ModeGranted ==
  ASSUME NEW q, Admission(q, modes, tokens) = 200
  PROVE  q.mode \in Modes
<1>1. q.token \in DOMAIN tokens /\ q.mode = tokens[q.token]
  BY DEF Admission, Granted, authorize_mode
<1>. QED  BY <1>1, GatewayAssumption DEF Starts, TokensValid

LEMMA FailsAsPolicy ==
  ASSUME NEW r \in Requests, NEW b \in Bindings, NEW exc, FailWith(r, b, Retryable(exc))
  PROVE  Fail(r, b)
<1>1. Retryable(exc) \in BOOLEAN
  BY Zenon DEF Retryable
<1>. QED  BY <1>1 DEF Fail

LEMMA PolicyStep == [GatewayNext]_gvars => [Next]_vars
<1> SUFFICES ASSUME [GatewayNext]_gvars PROVE [Next]_vars
  OBVIOUS
<1>1. ASSUME NEW r \in Requests, NEW q \in Asks, Accept(r, q) PROVE [Next]_vars
  BY <1>1, ModeGranted DEF Accept, Next
<1>2. ASSUME NEW r \in Requests, Work(r) PROVE [Next]_vars
  <2>1. CASE RetryAfterSleep(r)
    BY <2>1 DEF RetryAfterSleep, Next
  <2>2. CASE CallFails(r)
    BY <2>2, FailsAsPolicy DEF CallFails, Next
  <2>3. CASE CallSucceeds(r)
    BY <2>3 DEF CallSucceeds, Next
  <2>4. CASE Frame(r) \/ Event(r) \/ Finish(r) \/ Break(r) \/ Deadline(r) \/ Close(r)
    BY <2>4 DEF Frame, Event, Finish, Break, Deadline, Abandoned, Close
  <2>. QED  BY <1>2, <2>1, <2>2, <2>3, <2>4 DEF Work
<1>3. ASSUME NEW r \in Requests, Abandon(r) PROVE [Next]_vars
  BY <1>3 DEF Abandon, Abandoned
<1>4. ASSUME NEW b \in Bindings, Cool(b) PROVE [Next]_vars
  BY <1>4 DEF Cool, Next
<1>5. CASE UNCHANGED gvars
  BY <1>5 DEF gvars
<1>. QED  BY <1>1, <1>2, <1>3, <1>4, <1>5 DEF GatewayNext

\* What a stream comes to after its first event is no business of the circuits: every
\* behaviour of the gateway is one of the failure policy (stream.py, service.py).
THEOREM PolicyKept == GatewaySpec => FailurePolicy
<1>1. GatewayInit => Init
  BY DEF GatewayInit
<1>. QED  BY <1>1, PolicyStep, PTL DEF GatewaySpec, FailurePolicy, Spec

\* So its circuits open in time and try one call at a time, beside any number of streams.
THEOREM CircuitsBesideStreams == GatewaySpec => [](OpensAtThreshold /\ OneTrialPerOpening)
BY PolicyKept, OpensInTime, TrialsOnePerOpening, PTL DEF FailurePolicy

-----------------------------------------------------------------------------
(* One slot.  a, s, e, l are its ask, stream, end and records; idle, that  *)
(* the failure policy is done with it.                                     *)

Ends == {"none", "answer", "503", "done", "error", "cut", "left"}

Shaped(s, e, l) ==
  s \in Streams /\ e \in Ends /\ l \in [Statuses -> Nat]

\* There is one frame to send at most, and one that says done is the last there will be.
Told(s) ==
  /\ s.frames = s.events \/ s.frames + 1 = s.events
  /\ s.last = "done" => s.done /\ s.frames = s.events

\* While the policy is at work there is no stream, and the last frame sent says what the last
\* event said.
Fits(a, s, e, l, idle) ==
  /\ Shaped(s, e, l)
  /\ ~idle => a # Nothing /\ e = "none"
  /\ ~idle \/ a = Nothing => s = NoStream
  /\ a = Nothing => e = "none"
  /\ s.events = 0 => s = NoStream
  /\ e = "none" => l = NoRecord
  /\ e = "none" /\ s.frames = s.events /\ s.done => s.last = "done"
  /\ e # "none" =>
       l["success"] + l["stream_failed"] + l["error"] =
         IF e \in {"left", "cut"} /\ s.frames = 0 THEN 0 ELSE 1
  /\ e \in {"done", "error"} => s.last = e
  /\ e \in {"503", "answer"} => s.on = None
  /\ Told(s)
  /\ s.last = "error" => e = "error"

SlotFits(r) == Fits(ask[r], stream[r], end[r], logged[r], req[r] = Idle)

Typed ==
  /\ ask \in [Requests -> Asks \cup {Nothing}]
  /\ stream \in [Requests -> Streams]
  /\ end \in [Requests -> Ends]
  /\ logged \in [Requests -> [Statuses -> Nat]]

SlotInv == Typed /\ \A r \in Requests : SlotFits(r)

\* Where a step leaves the other slots and changes r's into one that fits, all fit.
Elsewhere(r) ==
  \A q \in Requests \ {r} :
    /\ ask'[q] = ask[q] /\ stream'[q] = stream[q] /\ end'[q] = end[q]
    /\ logged'[q] = logged[q] /\ (req'[q] = Idle <=> req[q] = Idle)

LEMMA OneSlot ==
  ASSUME SlotInv, NEW r \in Requests, Typed', Elsewhere(r),
         Fits(ask'[r], stream'[r], end'[r], logged'[r], req'[r] = Idle)
  PROVE  SlotInv'
<1>1. ASSUME NEW q \in Requests \ {r}
      PROVE  Fits(ask'[q], stream'[q], end'[q], logged'[q], req'[q] = Idle)
  <2>1. Fits(ask[q], stream[q], end[q], logged[q], req[q] = Idle)
    BY DEF SlotInv, SlotFits
  <2>2. /\ ask'[q] = ask[q] /\ stream'[q] = stream[q] /\ end'[q] = end[q]
        /\ logged'[q] = logged[q] /\ ((req'[q] = Idle) <=> (req[q] = Idle))
    BY DEF Elsewhere
  <2>. QED  BY <2>1, <2>2 DEF Fits
<1>. QED  BY <1>1 DEF SlotInv, SlotFits

LEMMA EndOf ==
  ASSUME Typed, NEW r \in Requests, NEW how \in Ends, End(r, how)
  PROVE  /\ end' \in [Requests -> Ends] /\ end'[r] = how
         /\ \A q \in Requests \ {r} : end'[q] = end[q]
BY DEF End, Typed

LEMMA RecordOf ==
  ASSUME Typed, NEW r \in Requests, NEW kind \in Statuses, Record(r, kind),
         logged[r] = NoRecord
  PROVE  /\ logged' \in [Requests -> [Statuses -> Nat]]
         /\ \A q \in Requests \ {r} : logged'[q] = logged[q]
         /\ logged'[r]["success"] + logged'[r]["stream_failed"] + logged'[r]["error"] = 1
<1> DEFINE l == [logged[r] EXCEPT ![kind] = @ + 1]
<1>1. l \in [Statuses -> Nat]
  BY DEF Typed
<1>2. l["success"] + l["stream_failed"] + l["error"] = 1
  BY DEF NoRecord, Statuses
<1>3. logged' = [logged EXCEPT ![r] = l]
  BY DEF Record
<1> HIDE DEF l
<1>. QED  BY <1>1, <1>2, <1>3 DEF Typed

-----------------------------------------------------------------------------
(* The steps of the failure policy.                                        *)

LEMMA CallOthers ==
  ASSUME NEW r, NEW mode, NEW b, NEW attempt, NEW cs, NEW rs,
         Call(r, mode, b, attempt, cs, rs), NEW q \in DOMAIN rs \ {r}
  PROVE  req'[q] = rs[q]
BY DEF Call

LEMMA FailOverOthers ==
  ASSUME NEW r, NEW mode, NEW b, NEW cs, NEW rs, FailOver(r, mode, b, cs, rs),
         NEW q \in DOMAIN rs \ {r}
  PROVE  req'[q] = rs[q]
<1>1. CASE Refuse(r, cs, rs)
  BY <1>1 DEF Refuse
<1>2. CASE Call(r, mode, Fallback[mode], 1, cs, rs)
  BY <1>2, CallOthers
<1>. QED  BY <1>1, <1>2 DEF FailOver

LEMMA AskOthers ==
  ASSUME NEW r, NEW mode, NEW b, NEW attempt, NEW cs, NEW rs,
         Ask(r, mode, b, attempt, cs, rs), NEW q \in DOMAIN rs \ {r}
  PROVE  req'[q] = rs[q]
BY CallOthers, FailOverOthers DEF Ask

LEMMA FailOthers ==
  ASSUME IInv, NEW r \in Requests, NEW b \in Bindings, NEW x, FailWith(r, b, x),
         NEW q \in Requests \ {r}
  PROVE  req'[q] = Idle <=> req[q] = Idle
<1>1. DOMAIN req = Requests
  BY DEF IInv, Good, Shape
<1>2. DOMAIN Staled(b) = Requests /\ (Staled(b)[q] = Idle <=> req[q] = Idle)
  BY <1>1 DEF Staled, Calling, Idle
<1>3. req'[q] = Staled(b)[q]
  <2> HIDE DEF Staled
  <2>1. ASSUME NEW cs, FailOver(r, req[r].mode, b, cs, Staled(b)) PROVE req'[q] = Staled(b)[q]
    <3>1. q \in DOMAIN Staled(b) \ {r}
      BY <1>2
    <3>. QED  BY <2>1, <3>1, FailOverOthers
  <2>2. ASSUME NEW nap, req' = [Staled(b) EXCEPT ![r] = nap] PROVE req'[q] = Staled(b)[q]
    BY <1>2, <2>2
  <2>. QED  BY <2>1, <2>2 DEF FailWith
<1>. QED  BY <1>2, <1>3

LEMMA NoStreamFields ==
  /\ NoStream \in Streams /\ NoStream.on = None /\ NoStream.events = 0
  /\ NoStream.frames = 0 /\ NoStream.last = "none" /\ ~NoStream.done /\ Told(NoStream)
BY GatewayAssumption DEF NoStream, Streams, Told

\* A request the policy has just begun with, or goes on with, or has given up.
LEMMA SettleStep ==
  ASSUME SlotInv, NEW r \in Requests, Settle(r), UNCHANGED stream,
         end[r] = "none", stream[r] = NoStream,
         ask' \in [Requests -> Asks \cup {Nothing}], ask'[r] # Nothing,
         \A q \in Requests \ {r} : ask'[q] = ask[q] /\ (req'[q] = Idle <=> req[q] = Idle)
  PROVE  SlotInv'
<1>1. Fits(ask[r], stream[r], end[r], logged[r], req[r] = Idle) /\ Typed
  BY DEF SlotInv, SlotFits
<1>2. logged[r] = NoRecord
  BY <1>1 DEF Fits
<1>3. CASE req'[r] = Idle
  <2>1. End(r, "503") /\ Record(r, "error") /\ "503" \in Ends /\ "error" \in Statuses
    BY <1>3 DEF Settle, Ends, Statuses
  <2>2. /\ end' \in [Requests -> Ends] /\ end'[r] = "503"
        /\ \A q \in Requests \ {r} : end'[q] = end[q]
    BY <1>1, <2>1, EndOf
  <2>3. /\ logged' \in [Requests -> [Statuses -> Nat]]
        /\ \A q \in Requests \ {r} : logged'[q] = logged[q]
        /\ logged'[r]["success"] + logged'[r]["stream_failed"] + logged'[r]["error"] = 1
    BY <1>1, <1>2, <2>1, RecordOf
  <2>4. Typed' /\ Elsewhere(r)
    BY <1>1, <2>2, <2>3 DEF Typed, Elsewhere
  <2>5. stream'[r] = NoStream /\ logged'[r] \in [Statuses -> Nat] /\ end'[r] \in Ends
    BY <2>2, <2>3
  <2>6. Fits(ask'[r], stream'[r], end'[r], logged'[r], req'[r] = Idle)
    BY <1>3, <2>2, <2>3, <2>5, NoStreamFields DEF Fits, Shaped
  <2>. QED  BY <2>4, <2>6, OneSlot
<1>4. CASE req'[r] # Idle
  <2>1. UNCHANGED <<end, logged>>
    BY <1>4 DEF Settle
  <2>2. Typed' /\ Elsewhere(r)
    BY <1>1, <2>1 DEF Typed, Elsewhere
  <2>3. Fits(ask'[r], stream'[r], end'[r], logged'[r], req'[r] = Idle)
    BY <1>1, <1>4, <2>1, NoStreamFields DEF Fits, Shaped
  <2>. QED  BY <2>2, <2>3, OneSlot
<1>. QED  BY <1>3, <1>4

\* While the policy is at work there is no stream yet.
LEMMA AtWork ==
  ASSUME SlotInv, NEW r \in Requests, req[r] # Idle
  PROVE  ask[r] # Nothing /\ end[r] = "none" /\ stream[r] = NoStream
BY DEF SlotInv, SlotFits, Fits

LEMMA AcceptStep ==
  ASSUME IInv, SlotInv, NEW r \in Requests, NEW q \in Asks, Accept(r, q)
  PROVE  SlotInv'
<1>1. ask[r] = Nothing /\ Begin(r, q.mode) /\ Settle(r) /\ UNCHANGED stream
  BY DEF Accept
<1>2. end[r] = "none" /\ stream[r] = NoStream
  BY <1>1 DEF SlotInv, SlotFits, Fits
<1>3. DOMAIN req = Requests
  BY DEF IInv, Good, Shape
<1>4. \A p \in Requests \ {r} : req'[p] = req[p]
  BY <1>1, <1>3, AskOthers DEF Begin
<1>5. /\ ask' \in [Requests -> Asks \cup {Nothing}] /\ ask'[r] = q
      /\ \A p \in Requests \ {r} : ask'[p] = ask[p]
  BY DEF Accept, SlotInv, Typed
<1>6. q # Nothing
  BY GatewayAssumption DEF Nothing
<1>. QED  BY <1>1, <1>2, <1>4, <1>5, <1>6, SettleStep

LEMMA RetryAfterStep ==
  ASSUME IInv, SlotInv, NEW r \in Requests, RetryAfterSleep(r)
  PROVE  SlotInv'
<1>1. PICK b \in Bindings : Retry(r, b)
  BY DEF RetryAfterSleep
<1>2. DOMAIN req = Requests /\ req[r] # Idle
  BY <1>1 DEF IInv, Good, Shape, Retry, Idle
<1>3. \A p \in Requests \ {r} : req'[p] = req[p]
  BY <1>1, <1>2, AskOthers DEF Retry
<1>4. ask[r] # Nothing /\ end[r] = "none" /\ stream[r] = NoStream
  BY <1>2, AtWork
<1>5. Settle(r) /\ UNCHANGED <<ask, stream>> /\ ask \in [Requests -> Asks \cup {Nothing}]
  BY DEF RetryAfterSleep, SlotInv, Typed
<1>. QED  BY <1>3, <1>4, <1>5, SettleStep

LEMMA CallFailsStep ==
  ASSUME IInv, SlotInv, NEW r \in Requests, CallFails(r)
  PROVE  SlotInv'
<1>1. PICK b \in Bindings : \E exc \in Failures : FailWith(r, b, Retryable(exc))
  BY DEF CallFails
<1>2. PICK exc \in Failures : FailWith(r, b, Retryable(exc))
  BY <1>1
<1>3. req[r] # Idle
  BY <1>2 DEF FailWith, Calling, Idle
<1>4. \A p \in Requests \ {r} : req'[p] = Idle <=> req[p] = Idle
  BY <1>2, FailOthers
<1>5. ask[r] # Nothing /\ end[r] = "none" /\ stream[r] = NoStream
  BY <1>3, AtWork
<1>6. Settle(r) /\ UNCHANGED <<ask, stream>> /\ ask \in [Requests -> Asks \cup {Nothing}]
  BY DEF CallFails, SlotInv, Typed
<1>. QED  BY <1>4, <1>5, <1>6, SettleStep

\* The call that succeeds answers the request, or starts its stream.
LEMMA CallSucceedsStep ==
  ASSUME IInv, SlotInv, NEW r \in Requests, CallSucceeds(r)
  PROVE  SlotInv'
<1>1. PICK b \in Bindings : Succeed(r, b) /\ (Complete(r, b) \/ Prime(r, b))
  BY DEF CallSucceeds
<1>2. req[r] # Idle /\ DOMAIN req = Requests
  BY <1>1 DEF Succeed, Calling, Idle, IInv, Good, Shape
<1>3. req' = [req EXCEPT ![r] = Idle]
  BY <1>1 DEF Succeed
<1>4. req'[r] = Idle /\ \A p \in Requests \ {r} : req'[p] = req[p]
  BY <1>2, <1>3
<1>5. /\ ask[r] # Nothing /\ end[r] = "none" /\ stream[r] = NoStream
      /\ logged[r] = NoRecord /\ Typed
  BY <1>2, AtWork DEF SlotInv, SlotFits, Fits
<1>6. UNCHANGED ask
  BY DEF CallSucceeds
<1>7. CASE Complete(r, b)
  <2>1. End(r, "answer") /\ Record(r, "success") /\ UNCHANGED stream
        /\ "answer" \in Ends /\ "success" \in Statuses
    BY <1>7 DEF Complete, Ends, Statuses
  <2>2. /\ end' \in [Requests -> Ends] /\ end'[r] = "answer"
        /\ \A q \in Requests \ {r} : end'[q] = end[q]
    BY <1>5, <2>1, EndOf
  <2>3. /\ logged' \in [Requests -> [Statuses -> Nat]]
        /\ \A q \in Requests \ {r} : logged'[q] = logged[q]
        /\ logged'[r]["success"] + logged'[r]["stream_failed"] + logged'[r]["error"] = 1
    BY <1>5, <2>1, RecordOf
  <2>4. Typed' /\ Elsewhere(r)
    BY <1>4, <1>5, <1>6, <2>1, <2>2, <2>3 DEF Typed, Elsewhere
  <2>5. stream'[r] = NoStream /\ logged'[r] \in [Statuses -> Nat] /\ ask'[r] # Nothing
    BY <1>5, <1>6, <2>1, <2>3
  <2>6. Fits(ask'[r], stream'[r], end'[r], logged'[r], req'[r] = Idle)
    BY <1>4, <2>2, <2>3, <2>5, NoStreamFields DEF Fits, Shaped, Ends
  <2>. QED  BY <2>4, <2>6, OneSlot
<1>8. CASE Prime(r, b)
  <2>1. PICK done \in BOOLEAN :
          stream' = [stream EXCEPT ![r] =
            [on |-> b, events |-> 1, frames |-> 0, done |-> done, last |-> "none"]]
    BY <1>8 DEF Prime
  <2> DEFINE s == [on |-> b, events |-> 1, frames |-> 0, done |-> done, last |-> "none"]
  <2>2. s \in Streams
    BY GatewayAssumption DEF Streams
  <2>3. s.events = 1 /\ s.frames = 0 /\ s.last = "none" /\ Told(s)
    BY DEF Told
  <2>4. UNCHANGED <<end, logged>> /\ stream' = [stream EXCEPT ![r] = s]
    BY <1>8, <2>1 DEF Prime
  <2> HIDE DEF s
  <2>5. Typed' /\ Elsewhere(r) /\ stream'[r] = s
    BY <1>4, <1>5, <1>6, <2>2, <2>4 DEF Typed, Elsewhere
  <2>6. logged'[r] = NoRecord /\ logged[r] \in [Statuses -> Nat] /\ end'[r] = "none"
        /\ ask'[r] # Nothing
    BY <1>5, <1>6, <2>4 DEF Typed
  <2>7. Fits(ask'[r], stream'[r], end'[r], logged'[r], req'[r] = Idle)
    BY <1>4, <1>5, <2>2, <2>3, <2>5, <2>6 DEF Fits, Shaped, Ends
  <2>. QED  BY <2>5, <2>7, OneSlot
<1>. QED  BY <1>1, <1>7, <1>8

-----------------------------------------------------------------------------
(* The steps of a stream, which leave the circuits alone.                  *)

LEMMA InStream ==
  ASSUME SlotInv, NEW r \in Requests, Streaming(r)
  PROVE  /\ Typed /\ stream[r] \in Streams /\ logged[r] = NoRecord
         /\ ask[r] # Nothing /\ end[r] = "none" /\ req[r] = Idle
         /\ stream[r].events # 0 /\ stream[r].last # "error" /\ Told(stream[r])
         /\ stream[r].frames = stream[r].events /\ stream[r].done => stream[r].last = "done"
BY NoStreamFields DEF SlotInv, SlotFits, Fits, Streaming, Serving, Typed

\* The stream goes on.
LEMMA GoesOn ==
  ASSUME SlotInv, NEW r \in Requests, Streaming(r), UNCHANGED <<vars, ask, end, logged>>,
         NEW s \in Streams, stream' = [stream EXCEPT ![r] = s],
         s.events # 0, s.last # "error", Told(s),
         s.frames = s.events /\ s.done => s.last = "done"
  PROVE  SlotInv'
<1>1. /\ Typed /\ logged[r] = NoRecord /\ ask[r] # Nothing /\ end[r] = "none"
      /\ req[r] = Idle /\ req' = req
  BY InStream DEF vars
<1>2. Typed' /\ Elsewhere(r) /\ stream'[r] = s
  BY <1>1 DEF Typed, Elsewhere
<1>3. logged[r] \in [Statuses -> Nat]
  BY <1>1 DEF Typed
<1>4. Fits(ask'[r], stream'[r], end'[r], logged'[r], req'[r] = Idle)
  BY <1>1, <1>2, <1>3 DEF Fits, Shaped, Ends
<1>. QED  BY <1>2, <1>4, OneSlot

\* The stream ends and is recorded.
LEMMA EndsRecorded ==
  ASSUME SlotInv, NEW r \in Requests, Streaming(r), UNCHANGED <<vars, ask>>,
         NEW s \in Streams, stream' = [stream EXCEPT ![r] = s], s.events # 0, Told(s),
         NEW how \in Ends \ {"none", "503", "answer"}, End(r, how),
         s.last = "error" => how = "error",
         how \in {"done", "error"} => s.last = how,
         how \in {"left", "cut"} => s.frames # 0,
         NEW kind \in Statuses, Record(r, kind)
  PROVE  SlotInv'
<1>1. /\ Typed /\ logged[r] = NoRecord /\ ask[r] # Nothing /\ end[r] = "none"
      /\ req[r] = Idle /\ req' = req
  BY InStream DEF vars
<1>2. /\ end' \in [Requests -> Ends] /\ end'[r] = how
      /\ \A q \in Requests \ {r} : end'[q] = end[q]
  BY <1>1, EndOf
<1>3. /\ logged' \in [Requests -> [Statuses -> Nat]]
      /\ \A q \in Requests \ {r} : logged'[q] = logged[q]
      /\ logged'[r]["success"] + logged'[r]["stream_failed"] + logged'[r]["error"] = 1
  BY <1>1, RecordOf
<1>4. Typed' /\ Elsewhere(r) /\ stream'[r] = s
  BY <1>1, <1>2, <1>3 DEF Typed, Elsewhere
<1>5. logged'[r] \in [Statuses -> Nat] /\ ask'[r] # Nothing /\ req'[r] = Idle
  BY <1>1, <1>3
<1>6. Fits(ask'[r], stream'[r], end'[r], logged'[r], req'[r] = Idle)
  BY <1>2, <1>3, <1>4, <1>5 DEF Fits, Shaped
<1>. QED  BY <1>4, <1>6, OneSlot

LEMMA FailsStep ==
  ASSUME SlotInv, NEW r \in Requests, Sent(r), UNCHANGED <<vars, ask>>,
         stream' = [stream EXCEPT ![r].last = "error"],
         Record(r, "stream_failed"), End(r, "error")
  PROVE  SlotInv'
<1> DEFINE s == [stream[r] EXCEPT !.last = "error"]
<1>1. Streaming(r) /\ stream[r] \in Streams /\ stream[r].events # 0 /\ Told(stream[r])
  BY InStream DEF Sent
<1>2. s \in Streams /\ s.events # 0 /\ s.last = "error" /\ Told(s)
  BY <1>1 DEF Streams, Told
<1>3. stream' = [stream EXCEPT ![r] = s]
  OBVIOUS
<1>4. "error" \in Ends \ {"none", "503", "answer"} /\ "stream_failed" \in Statuses
  BY DEF Ends, Statuses
<1> HIDE DEF s
<1>. QED  BY <1>1, <1>2, <1>3, <1>4, EndsRecorded

\* It is cancelled: recorded if its first frame was out.
LEMMA AbandonedStep ==
  ASSUME SlotInv, NEW r \in Requests, NEW how \in {"left", "cut"}, Abandoned(r, how)
  PROVE  SlotInv'
<1>1. /\ Streaming(r) /\ End(r, how) /\ UNCHANGED <<vars, ask, stream>>
      /\ how \in Ends \ {"none", "503", "answer"} /\ "success" \in Statuses
  BY DEF Abandoned, Ends, Statuses
<1>2. /\ Typed /\ logged[r] = NoRecord /\ ask[r] # Nothing /\ end[r] = "none"
      /\ req[r] = Idle /\ req' = req /\ stream[r] \in Streams /\ stream[r].events # 0
      /\ stream[r].last # "error" /\ Told(stream[r])
  BY <1>1, InStream DEF vars
<1>3. CASE stream[r].frames > 0
  <2>1. Record(r, "success")
    BY <1>3 DEF Abandoned
  <2>2. stream' = [stream EXCEPT ![r] = stream[r]] /\ stream[r].frames # 0
    BY <1>1, <1>2, <1>3 DEF Typed
  <2>. QED  BY <1>1, <1>2, <2>1, <2>2, EndsRecorded
<1>4. CASE ~(stream[r].frames > 0)
  <2>1. UNCHANGED logged /\ stream[r].frames = 0
    BY <1>2, <1>4 DEF Abandoned, Streams
  <2>2. /\ end' \in [Requests -> Ends] /\ end'[r] = how
        /\ \A q \in Requests \ {r} : end'[q] = end[q]
    BY <1>1, <1>2, EndOf
  <2>3. Typed' /\ Elsewhere(r)
    BY <1>1, <1>2, <2>1, <2>2 DEF Typed, Elsewhere
  <2>4. NoRecord["success"] + NoRecord["stream_failed"] + NoRecord["error"] = 0
        /\ NoRecord \in [Statuses -> Nat]
    BY DEF NoRecord, Statuses
  <2>5. Fits(ask'[r], stream'[r], end'[r], logged'[r], req'[r] = Idle)
    BY <1>1, <1>2, <2>1, <2>2, <2>4 DEF Fits, Shaped
  <2>. QED  BY <2>3, <2>5, OneSlot
<1>. QED  BY <1>3, <1>4

LEMMA CloseStep ==
  ASSUME SlotInv, NEW r \in Requests, Close(r)
  PROVE  SlotInv'
<1>1. Typed /\ req[r] = Idle /\ req' = req
  BY DEF Close, vars, SlotInv, SlotFits, Fits
<1>2. NoRecord \in [Statuses -> Nat] /\ "none" \in Ends
  BY DEF NoRecord, Ends
<1>3. /\ ask' = [ask EXCEPT ![r] = Nothing] /\ stream' = [stream EXCEPT ![r] = NoStream]
      /\ end' = [end EXCEPT ![r] = "none"] /\ logged' = [logged EXCEPT ![r] = NoRecord]
  BY DEF Close, End
<1>4. /\ Typed' /\ Elsewhere(r)
      /\ ask'[r] = Nothing /\ stream'[r] = NoStream /\ end'[r] = "none"
      /\ logged'[r] = NoRecord
  BY <1>1, <1>2, <1>3, NoStreamFields DEF Typed, Elsewhere
<1>5. Fits(ask'[r], stream'[r], end'[r], logged'[r], req'[r] = Idle)
  BY <1>1, <1>2, <1>4, NoStreamFields DEF Fits, Shaped
<1>. QED  BY <1>4, <1>5, OneSlot

\* What the fields of a stream are, and what a step that changes two of them leaves.
LEMMA StreamFields ==
  ASSUME NEW t \in Streams
  PROVE  /\ t.on \in Bindings \cup {None} /\ t.events \in 0 .. MaxEvents
         /\ t.frames \in 0 .. MaxEvents /\ t.done \in BOOLEAN
         /\ t.last \in {"none", "event", "done", "error"}
         /\ t = [on |-> t.on, events |-> t.events, frames |-> t.frames,
                 done |-> t.done, last |-> t.last]
BY DEF Streams

LEMMA StreamMoved ==
  ASSUME NEW t \in Streams, t.frames + 1 \in 0 .. MaxEvents,
         NEW l \in {"event", "done"}, NEW s, s = [t EXCEPT !.frames = @ + 1, !.last = l]
  PROVE  /\ s \in Streams /\ s.events = t.events /\ s.done = t.done /\ s.last = l
         /\ s.frames = t.frames + 1
<1>1. s = [on |-> t.on, events |-> t.events, frames |-> t.frames + 1, done |-> t.done,
           last |-> l]
  BY DEF Streams
<1>. QED  BY <1>1, StreamFields DEF Streams

LEMMA StreamTold ==
  ASSUME NEW t \in Streams, t.events + 1 \in 0 .. MaxEvents, NEW d \in BOOLEAN,
         NEW s, s = [t EXCEPT !.events = @ + 1, !.done = d]
  PROVE  /\ s \in Streams /\ s.events = t.events + 1
         /\ s.frames = t.frames /\ s.last = t.last
<1>1. s = [on |-> t.on, events |-> t.events + 1, frames |-> t.frames, done |-> d,
           last |-> t.last]
  BY DEF Streams
<1>. QED  BY <1>1, StreamFields DEF Streams

LEMMA StreamStep ==
  ASSUME SlotInv, NEW r \in Requests,
         Frame(r) \/ Event(r) \/ Finish(r) \/ Break(r) \/ Deadline(r)
  PROVE  SlotInv'
<1>1. Streaming(r)
  BY DEF Frame, Event, Finish, Break, Deadline, Sent, Abandoned
<1>2. /\ Typed /\ stream[r] \in Streams /\ stream[r].events # 0
      /\ stream[r].last # "error" /\ Told(stream[r])
      /\ stream[r].frames = stream[r].events /\ stream[r].done => stream[r].last = "done"
  BY <1>1, InStream
<1>3. CASE Frame(r)
  <2> DEFINE l == IF stream[r].done THEN "done" ELSE "event"
             s == [stream[r] EXCEPT !.frames = @ + 1, !.last = l]
  <2>1. stream[r].frames + 1 \in 0 .. MaxEvents
    BY <1>2, <1>3, StreamFields, GatewayAssumption DEF Frame
  <2>2. l \in {"event", "done"}
    OBVIOUS
  <2>3. stream[r].done <=> l = "done"
    OBVIOUS
  <2>4. stream' = [stream EXCEPT ![r] = s] /\ UNCHANGED <<vars, ask, end, logged>>
    BY <1>3 DEF Frame
  <2> HIDE DEF l
  <2>5. /\ s \in Streams /\ s.events = stream[r].events /\ s.done = stream[r].done
        /\ s.last = l /\ s.frames = stream[r].frames + 1
    <3>1. PICK t \in Streams : t = stream[r]
      BY <1>2
    <3>2. s = [t EXCEPT !.frames = @ + 1, !.last = l] /\ t.frames + 1 \in 0 .. MaxEvents
      BY <2>1, <3>1
    <3> HIDE DEF s
    <3>3. /\ s \in Streams /\ s.events = t.events /\ s.done = t.done /\ s.last = l
          /\ s.frames = t.frames + 1
      BY <2>2, <3>2, StreamMoved
    <3>4. /\ t.events = stream[r].events /\ t.done = stream[r].done
          /\ t.frames = stream[r].frames
      BY <3>1
    <3>. QED  BY <3>3, <3>4
  <2> HIDE DEF s
  <2>6. stream[r].frames + 1 = stream[r].events
    BY <1>2, <1>3, StreamFields, GatewayAssumption DEF Frame, Told
  <2>7. Told(s)
    <3>1. s.last = "done" => s.done
      BY <2>3, <2>5, Zenon
    <3>2. s.frames = s.events
      BY <2>5, <2>6
    <3>. QED  BY <3>1, <3>2, Zenon DEF Told
  <2>8. s.last # "error"
    BY <2>2, <2>5
  <2>9. s.done => s.last = "done"
    BY <2>3, <2>5, Zenon
  <2>. QED  BY <1>1, <1>2, <2>4, <2>5, <2>7, <2>8, <2>9, GoesOn
<1>4. CASE Event(r)
  <2>1. PICK done \in BOOLEAN :
          stream' = [stream EXCEPT ![r].events = @ + 1, ![r].done = done]
    BY <1>4 DEF Event
  <2> DEFINE s == [stream[r] EXCEPT !.events = @ + 1, !.done = done]
  <2>2. /\ stream[r].frames = stream[r].events /\ stream[r].events \in Nat
        /\ stream[r].events + 1 \in 0 .. MaxEvents
    BY <1>2, <1>4, StreamFields, GatewayAssumption DEF Event, Sent
  <2>3. stream' = [stream EXCEPT ![r] = s] /\ UNCHANGED <<vars, ask, end, logged>>
    BY <1>4, <2>1 DEF Event
  <2>4. /\ s \in Streams /\ s.events = stream[r].events + 1
        /\ s.frames = stream[r].frames /\ s.last = stream[r].last
    <3>1. PICK t \in Streams : t = stream[r]
      BY <1>2
    <3>2. s = [t EXCEPT !.events = @ + 1, !.done = done] /\ t.events + 1 \in 0 .. MaxEvents
      BY <2>2, <3>1
    <3> HIDE DEF s
    <3>3. /\ s \in Streams /\ s.events = t.events + 1
          /\ s.frames = t.frames /\ s.last = t.last
      BY <2>1, <3>2, StreamTold
    <3>. QED  BY <3>1, <3>3
  <2> HIDE DEF s
  <2>5. s \in Streams /\ s.events # 0 /\ s.last # "error" /\ s.frames # s.events
    BY <1>2, <2>2, <2>4
  <2>6. ~stream[r].done /\ Told(s)
    BY <1>2, <1>4, <2>2, <2>4 DEF Event, Told
  <2>. QED  BY <1>1, <2>3, <2>5, <2>6, GoesOn
<1>5. CASE Finish(r)
  <2>1. stream[r].last = "done" /\ End(r, "done") /\ Record(r, "success")
        /\ UNCHANGED <<vars, ask, stream>>
    BY <1>2, <1>5 DEF Finish, Sent
  <2>2. stream' = [stream EXCEPT ![r] = stream[r]]
    BY <1>2, <2>1 DEF Typed
  <2>3. "done" \in Ends \ {"none", "503", "answer"} /\ "success" \in Statuses
    BY DEF Ends, Statuses
  <2>. QED  BY <1>1, <1>2, <2>1, <2>2, <2>3, EndsRecorded
<1>6. CASE Break(r)
  BY <1>6, FailsStep DEF Break
<1>7. CASE Deadline(r)
  BY <1>7, FailsStep, AbandonedStep DEF Deadline
<1>. QED  BY <1>3, <1>4, <1>5, <1>6, <1>7

-----------------------------------------------------------------------------
LEMMA SlotsInit == GatewayInit => SlotInv
<1> SUFFICES ASSUME GatewayInit PROVE SlotInv
  OBVIOUS
<1>1. NoRecord \in [Statuses -> Nat]
  BY DEF NoRecord
<1>2. Typed
  BY <1>1, NoStreamFields DEF GatewayInit, Typed, Ends
<1>3. ASSUME NEW r \in Requests PROVE SlotFits(r)
  <2>1. /\ ask[r] = Nothing /\ stream[r] = NoStream /\ end[r] = "none"
        /\ logged[r] = NoRecord /\ req[r] = Idle
    BY DEF GatewayInit, Init
  <2>. QED  BY <1>1, <2>1, NoStreamFields DEF SlotFits, Fits, Shaped, Ends
<1>. QED  BY <1>2, <1>3 DEF SlotInv

LEMMA SlotsStep == IInv /\ SlotInv /\ [GatewayNext]_gvars => SlotInv'
<1> SUFFICES ASSUME IInv, SlotInv, [GatewayNext]_gvars PROVE SlotInv'
  OBVIOUS
<1>1. ASSUME NEW r \in Requests, NEW q \in Asks, Accept(r, q) PROVE SlotInv'
  BY <1>1, AcceptStep
<1>2. ASSUME NEW r \in Requests, Work(r) PROVE SlotInv'
  BY <1>2, RetryAfterStep, CallFailsStep, CallSucceedsStep, StreamStep, CloseStep DEF Work
<1>3. ASSUME NEW r \in Requests, Abandon(r) PROVE SlotInv'
  BY <1>3, AbandonedStep DEF Abandon
<1>4. ASSUME NEW b \in Bindings, Cool(b) PROVE SlotInv'
  BY <1>4 DEF Cool, CoolDown, SlotInv, SlotFits, Typed
<1>5. CASE UNCHANGED gvars
  BY <1>5 DEF gvars, vars, SlotInv, SlotFits, Typed
<1>. QED  BY <1>1, <1>2, <1>3, <1>4, <1>5 DEF GatewayNext

LEMMA Slots == GatewaySpec => []SlotInv
<1>1. GatewayInit => IInv /\ SlotInv
  BY InitInv, SlotsInit DEF GatewayInit
<1>2. IInv /\ SlotInv /\ [GatewayNext]_gvars => IInv' /\ SlotInv'
  BY PolicyStep, StepInv, SlotsStep
<1>. QED  BY <1>1, <1>2, PTL DEF GatewaySpec

\* However a request's calls, its stream and its client end, in whatever order with those
\* of others: it is recorded once when it has ended and not before (service.py), but not at
\* all if it was cancelled before its first frame.
THEOREM OneRecordEach == GatewaySpec => []RecordedOnce
<1>1. SlotInv => RecordedOnce
  <2> SUFFICES ASSUME SlotInv, NEW r \in Requests
               PROVE  Records(r) = IF end[r] = "none"
                                      \/ (end[r] \in {"left", "cut"} /\ stream[r].frames = 0)
                                   THEN 0 ELSE 1
    BY DEF RecordedOnce
  <2>1. NoRecord["success"] + NoRecord["stream_failed"] + NoRecord["error"] = 0
    BY DEF NoRecord, Statuses
  <2>. QED  BY <2>1 DEF SlotInv, SlotFits, Fits, Records
<1>. QED  BY <1>1, Slots, PTL

\* Whatever the provider does, and however many events have gone before: a stream without a last
\* word was left by its client or cancelled by the mode's timeout, which stream.py does not
\* prevent, and it never looks complete (sse_stream).
THEOREM OnlyCancelledStreamsTruncated == GatewaySpec => []TruncationExplained
<1>1. SlotInv => TruncationExplained
  <2> SUFFICES ASSUME SlotInv, NEW r \in Requests
               PROVE  /\ Truncated(r) => end[r] \in {"left", "cut"}
                      /\ stream[r].last = "done" => stream[r].done /\ stream[r].frames = stream[r].events
                      /\ stream[r].last = "error" => end[r] = "error"
                      /\ end[r] = "503" => stream[r].on = None
    BY DEF TruncationExplained
  <2>1. Fits(ask[r], stream[r], end[r], logged[r], req[r] = Idle)
    BY DEF SlotInv, SlotFits
  <2>. QED  BY <2>1 DEF Fits, Shaped, Ends, Told, Truncated
<1>. QED  BY <1>1, Slots, PTL
=============================================================================
