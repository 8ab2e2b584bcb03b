------------------------------ MODULE MCReasoner ------------------------------
EXTENDS Reasoner, TLC
CONSTANTS e1, e2, e3, e4, i1, i2
\* e1 and e2 ask for a recommendation of one incident; e3 and e4 are about another.
MCIncidentOf == e1 :> i1 @@ e2 :> i1 @@ e3 :> i2 @@ e4 :> i2

\* One template fits an alert exactly; another alert's name holds the separator.
Step(n, text) == [order |-> n, description |-> text]
MCTemplates ==
  Default :> << Step(1, "look at the dashboard") >>
  @@ <<"api", "errors">> :> << Step(2, "roll back"), Step(1, "look at deployments") >>
MCAlertOf == i1 :> [service |-> <<"api">>, name |-> <<"errors">>]
             @@ i2 :> [service |-> <<"api">>, name |-> <<"errors", "5xx">>]

Object(word, plain, actions) ==
  [kind |-> "object", rest |-> TRUE, confidence |-> [word |-> word, plain |-> plain],
   actions |-> actions]
Text(whole, braced) == [blank |-> FALSE, whole |-> whole, braced |-> braced]
Response(status, wellFormed, content) ==
  [event |-> "response", status |-> status, wellFormed |-> wellFormed,
   provider |-> "openai", content |-> content]

\* An analysis with prose around it and a capital letter; a 422 and a 401, which are one
\* answer to the reasoner.
MCResponses ==
  {Response(200, TRUE, Text(Unreadable, Object("high", FALSE, {NoSteps}))),
   Response(422, FALSE, Nothing), Response(401, FALSE, Nothing)}

\* An answer of another shape, and none: one outcome to the reasoner.
MCContexts ==
  {[event |-> "response", status |-> 200, wellFormed |-> FALSE, chunks |-> {}],
   [event |-> "timeout", status |-> 0, wellFormed |-> FALSE, chunks |-> {}]}
Symmetry == Permutations(Requests)
=============================================================================
