------------------------------ MODULE Gateway ------------------------------
(***************************************************************************)
(* The LLM gateway's requests from admission to the end of the answer: the *)
(* failure policy of CircuitBreaker until a provider has answered, or the  *)
(* first event of its stream has come, and then the stream, of which the   *)
(* circuits learn nothing more.  Every request ends up in one llm.request  *)
(* record -- the metrics and the log line.                                 *)
(*                                                                         *)
(* A provider streams events, of which the last is marked done.  The       *)
(* client may leave; a completion goes on all the same, a stream is        *)
(* cancelled.  What is served is built from a valid configuration; a       *)
(* refused request changes nothing and is left out.                        *)
(***************************************************************************)
EXTENDS CircuitBreaker, Providers

CONSTANTS
  modes,     \* the routing table
  fallback,  \* the modes with a fallback, and what it is
  keys,      \* the vendors with an API key
  tokens,    \* the mode each agent token grants
  vendor,    \* the vendor of each binding
  Asks,      \* what clients ask
  Failures,  \* the exceptions their vendors' SDKs, or the gateway's timeout, raise
  MaxEvents  \* bound: the events of a stream

ASSUME GatewayAssumption ==
  /\ Starts(modes, fallback, keys, tokens)
  /\ Modes = LLMMode /\ vendor \in [Bindings -> VENDORS]
  /\ \A m \in Modes : vendor[Primary[m]] = modes[m].provider
  /\ \A m \in Modes :
       IF m \in DOMAIN fallback THEN vendor[Fallback[m]] = fallback[m].provider
                                ELSE Fallback[m] = None
  /\ \A q \in Asks : q.path \in {"complete", "embed"}
  /\ MaxEvents \in Nat \ {0}

VARIABLES
  ask,    \* what each request slot serves, or Nothing
  stream, \* its stream
  end,    \* how its answer has ended, or "none"
  logged  \* history: its llm.request records, by status

gvars == <<vars, ask, stream, end, logged>>

Nothing == [path |-> "none"]
NoStream == [on |-> None, events |-> 0, frames |-> 0, done |-> FALSE, last |-> "none"]
Statuses == {"success", "stream_failed", "error"}
NoRecord == [s \in Statuses |-> 0]

\* events: what the provider has given, done: the last one too; frames: what is sent of
\* it; last: the last frame, which may be that of the error.
Streams == [on : Bindings \cup {None}, events : 0 .. MaxEvents, frames : 0 .. MaxEvents,
            done : BOOLEAN, last : {"none", "event", "done", "error"}]

GatewayTypeOK ==
  /\ TypeOK
  /\ ask \in [Requests -> Asks \cup {Nothing}]
  /\ stream \in [Requests -> Streams]
  /\ end \in [Requests -> {"none", "answer", "503", "done", "error", "cut", "left"}]
  /\ logged \in [Requests -> [Statuses -> Nat]]

GatewayInit ==
  /\ Init
  /\ ask = [r \in Requests |-> Nothing]
  /\ stream = [r \in Requests |-> NoStream]
  /\ end = [r \in Requests |-> "none"]
  /\ logged = [r \in Requests |-> NoRecord]

Serving(r) == ask[r] # Nothing /\ end[r] = "none"
Streaming(r) == Serving(r) /\ stream[r].on # None

\* _record_request.
Record(r, status) == logged' = [logged EXCEPT ![r][status] = @ + 1]

End(r, how) == end' = [end EXCEPT ![r] = how]

-----------------------------------------------------------------------------
(* Until a provider has answered.                                          *)

\* Mutant of Settle: the request is recorded and never answered.
SettleUnanswered(r) ==
  /\ UNCHANGED end
  /\ IF req'[r] = Idle THEN Record(r, "error") ELSE UNCHANGED logged

\* _record_total_failure and the 503, once the policy is exhausted.
Settle(r) ==
  IF req'[r] = Idle THEN End(r, "503") /\ Record(r, "error") ELSE UNCHANGED <<end, logged>>

\* A request that is admitted asks its mode's primary first.
Accept(r, q) ==
  /\ ask[r] = Nothing /\ Admission(q, modes, tokens) = 200
  /\ Begin(r, q.mode)
  /\ ask' = [ask EXCEPT ![r] = q]
  /\ Settle(r)
  /\ UNCHANGED stream

RetryAfterSleep(r) ==
  /\ \E b \in Bindings : Retry(r, b)
  /\ Settle(r)
  /\ UNCHANGED <<ask, stream>>

\* A call fails with one of the exceptions its vendor raises.
CallFails(r) ==
  /\ \E b \in Bindings : \E exc \in Failures :
       exc.vendor = vendor[b] /\ FailWith(r, b, Retryable(exc))
  /\ Settle(r)
  /\ UNCHANGED <<ask, stream>>

\* complete and embed: the answer is there, and recorded as a success.
Complete(r, b) ==
  /\ ~ask[r].stream
  /\ End(r, "answer")
  /\ Record(r, "success")
  /\ UNCHANGED stream

\* prime_stream: the first event, which may be the last, has come.
Prime(r, b) ==
  /\ ask[r].stream
  /\ \E done \in BOOLEAN :
       stream' = [stream EXCEPT ![r] =
         [on |-> b, events |-> 1, frames |-> 0, done |-> done, last |-> "none"]]
  /\ UNCHANGED <<end, logged>>

CallSucceeds(r) ==
  /\ \E b \in Bindings : Succeed(r, b) /\ (Complete(r, b) \/ Prime(r, b))
  /\ UNCHANGED ask

-----------------------------------------------------------------------------
(* The stream: sse_stream yields the first event's frame, then goes on     *)
(* through tapped, which asks the provider.  tapped has begun once the     *)
(* first frame is out.                                                     *)

Frame(r) ==
  /\ Streaming(r) /\ stream[r].frames < stream[r].events
  /\ stream' = [stream EXCEPT ![r].frames = @ + 1,
                              ![r].last = IF stream[r].done THEN "done" ELSE "event"]
  /\ UNCHANGED <<vars, ask, end, logged>>

Sent(r) == Streaming(r) /\ stream[r].frames = stream[r].events

\* The provider's next event; the last one is marked done.
Event(r) ==
  /\ Sent(r) /\ ~stream[r].done /\ stream[r].events < MaxEvents
  /\ \E done \in BOOLEAN :
       stream' = [stream EXCEPT ![r].events = @ + 1, ![r].done = done]
  /\ UNCHANGED <<vars, ask, end, logged>>

\* After its last event the stream ends, and is recorded.
Finish(r) ==
  /\ Sent(r) /\ stream[r].done
  /\ End(r, "done") /\ Record(r, "success")
  /\ UNCHANGED <<vars, ask, stream>>

\* Mutants of Break: the failure is logged, and the stream just ends; the failure is
\* reported to the circuit.
BreakSilently(r) ==
  /\ Sent(r) /\ ~stream[r].done
  /\ Record(r, "stream_failed")
  /\ End(r, "error")
  /\ UNCHANGED <<vars, ask, stream>>
BreakReported(r) ==
  /\ Sent(r) /\ ~stream[r].done
  /\ breaker' = [breaker EXCEPT ![stream[r].on] = AfterFailure(@)]
  /\ stream' = [stream EXCEPT ![r].last = "error"]
  /\ Record(r, "stream_failed")
  /\ End(r, "error")
  /\ UNCHANGED <<req, streak, ask>>

\* The provider fails in mid-stream: the terminal error frame, and no other provider.
Break(r) ==
  /\ Sent(r) /\ ~stream[r].done
  /\ stream' = [stream EXCEPT ![r].last = "error"]
  /\ Record(r, "stream_failed")
  /\ End(r, "error")
  /\ UNCHANGED <<vars, ask>>

\* Mutant of Abandoned: the record is made after the loop and in its handlers, which a
\* cancellation passes by, and not in a finally.
AbandonedUnrecorded(r, how) ==
  /\ Streaming(r)
  /\ End(r, how)
  /\ UNCHANGED <<vars, ask, stream, logged>>

\* The stream is cancelled.  tapped's finally records it as a success, if tapped has begun;
\* a generator that was never started runs no finally.
Abandoned(r, how) ==
  /\ Streaming(r)
  /\ IF stream[r].frames > 0 THEN Record(r, "success") ELSE UNCHANGED logged
  /\ End(r, how)
  /\ UNCHANGED <<vars, ask, stream>>

\* The mode's timeout bounds the whole stream.  It was set by the task that primed it and
\* cancels that, and the one that sends the body with it.  Where that one awaits the provider,
\* the cancellation becomes a ProviderTimeoutError, for an error frame even after the last
\* event; where it awaits the client's socket, or has not begun, it just ends.  Which of the
\* two it is, and whether the error frame itself is cancelled, is up to the server.
Deadline(r) ==
  \/ /\ Sent(r)
     /\ stream' = [stream EXCEPT ![r].last = "error"]
     /\ Record(r, "stream_failed")
     /\ End(r, "error")
     /\ UNCHANGED <<vars, ask>>
  \/ Abandoned(r, "cut")

\* The client leaves its stream.
Abandon(r) == Abandoned(r, "left")

\* The slot is free for the next request.
Close(r) ==
  /\ end[r] # "none"
  /\ ask' = [ask EXCEPT ![r] = Nothing]
  /\ stream' = [stream EXCEPT ![r] = NoStream]
  /\ End(r, "none")
  /\ logged' = [logged EXCEPT ![r] = NoRecord]
  /\ UNCHANGED vars

Cool(b) == CoolDown(b) /\ UNCHANGED <<ask, stream, end, logged>>

-----------------------------------------------------------------------------
Work(r) ==
  \/ RetryAfterSleep(r) \/ CallFails(r) \/ CallSucceeds(r)
  \/ Frame(r) \/ Event(r) \/ Finish(r) \/ Break(r) \/ Deadline(r) \/ Close(r)

GatewayNext ==
  \/ \E r \in Requests : (\E q \in Asks : Accept(r, q)) \/ Work(r) \/ Abandon(r)
  \/ \E b \in Bindings : Cool(b)

GatewaySpec == GatewayInit /\ [][GatewayNext]_gvars

\* A provider answers or fails or runs into the timeout, what can be sent is sent, a circuit
\* cools down, and requests of the modes that are asked for at all keep coming.
GatewayFairness ==
  /\ \A r \in Requests : WF_gvars(Work(r))
  /\ \A b \in Bindings : WF_gvars(Cool(b))
  /\ \A mode \in Modes :
       SF_gvars(\E r \in Requests : \E q \in Asks : q.mode = mode /\ Accept(r, q))

FairGatewaySpec == GatewaySpec /\ GatewayFairness

-----------------------------------------------------------------------------
(* Properties.                                                             *)

Records(r) == logged[r]["success"] + logged[r]["stream_failed"] + logged[r]["error"]

\* service.py:7 promises "one llm.request log line per request".  What holds: one for each,
\* whatever its retries, failover and stream came to, and none before its end -- but, against
\* the promise, none at all for a stream that is cancelled before its first frame.
RecordedOnce ==
  \A r \in Requests :
    Records(r) =
      IF end[r] = "none" \/ (end[r] \in {"left", "cut"} /\ stream[r].frames = 0) THEN 0 ELSE 1

\* A stream that has ended without a last word, as far as its client can tell.
Truncated(r) ==
  stream[r].on # None /\ end[r] # "none" /\ stream[r].last \notin {"done", "error"}

\* stream.py:12: the gateway "must never just close the connection".  It does where the mode's
\* timeout cancels the sending (cut).  What holds: only that, or the client's leaving, ever
\* truncates a stream, whatever the provider does; a truncated stream never passes for a complete
\* one, as the frame marked done comes after all events; the error frame is the last of all;
\* and a 503 comes before any frame.
TruncationExplained ==
  \A r \in Requests :
    /\ Truncated(r) => end[r] \in {"left", "cut"}
    /\ stream[r].last = "done" => stream[r].done /\ stream[r].frames = stream[r].events
    /\ stream[r].last = "error" => end[r] = "error"
    /\ end[r] = "503" => stream[r].on = None

\* The circuits see nothing but the calls of the failure policy, one circuit step at a time:
\* what becomes of a stream after its first event neither opens a circuit nor closes one.
FailurePolicy == Spec

\* Every request is answered and its slot freed, whatever the circuits do meanwhile.
EveryRequestEnds == \A r \in Requests : []<>(ask[r] = Nothing)
=============================================================================
