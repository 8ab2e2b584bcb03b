----------------------------- MODULE Reasoning -----------------------------
(***************************************************************************)
(* What the reasoner makes of its two remote calls: how the exchange with  *)
(* the knowledge service and the one with the llm-gateway are classified,  *)
(* how the model's text is read, and the row that is stored whatever       *)
(* happened.                                                               *)
(*                                                                         *)
(* A text is what matters of it to the parser: whether it is blank, what   *)
(* json.loads makes of all of it (less a fence), and of what its outermost *)
(* braces enclose.                                                         *)
(***************************************************************************)
EXTENDS Templates

CONSTANTS
  Contexts,  \* the exchanges there may be with the knowledge service
  Responses, \* the exchanges there may be with the llm-gateway
  Chunks,
  Providers,
  NO_STEPS_ACTION

Ends == {"response", "timeout", "unreachable"}

LLMFailureReason == {"gateway_unavailable", "timeout", "rejected"}
RCAParseFailureReason == {"not_json", "schema_invalid"}
FallbackReason == LLMFailureReason \cup RCAParseFailureReason
Confidence == {"low", "medium", "high"}
RetrievalOutcome == {"grounded", "empty", "unavailable"}

RecommendedAction == [order : Nat \ {0}, action : Descriptions]

\* plain: the word is spelt in lower case and without white space around it.
\* rest: there is a root cause, and every action is one.
Documents ==
  [kind : {"unreadable", "other", "object"}, rest : BOOLEAN,
   confidence : [word : Confidence \cup {"another"}, plain : BOOLEAN],
   actions : SUBSET RecommendedAction]
Texts == [blank : BOOLEAN, whole : Documents, braced : Documents]

Unreadable == [kind |-> "unreadable", rest |-> FALSE,
               confidence |-> [word |-> "another", plain |-> TRUE], actions |-> {}]
Nothing == [blank |-> TRUE, whole |-> Unreadable, braced |-> Unreadable]

ASSUME ReasoningAssumption ==
  /\ Contexts \subseteq
       [event : Ends \cup {"off"}, status : Nat, wellFormed : BOOLEAN,
        chunks : SUBSET Chunks]
  /\ Responses \subseteq
       [event : Ends, status : Nat, wellFormed : BOOLEAN,
        provider : Providers, content : Texts]
  /\ "none" \notin Providers
  /\ NO_STEPS_ACTION \in Descriptions

-----------------------------------------------------------------------------
(* The knowledge service.                                                  *)

\* Chunks exist exactly when the outcome is grounded.
KnowledgeResult == [outcome : RetrievalOutcome \cup {"off"}, chunks : SUBSET Chunks]

Unavailable == [outcome |-> "unavailable", chunks |-> {}]

\* KnowledgeClient.fetch, which never raises: only a 200 of the right shape says
\* anything about what the corpus covers.
fetch(x) ==
  CASE x.event = "off" -> [outcome |-> "off", chunks |-> {}]
    [] x.event = "response" /\ x.status = 200 /\ x.wellFormed ->
         [outcome |-> IF x.chunks = {} THEN "empty" ELSE "grounded", chunks |-> x.chunks]
    [] OTHER -> Unavailable

Retrievals == {fetch(x) : x \in Contexts}

-----------------------------------------------------------------------------
(* The llm-gateway.                                                        *)

\* failure: why there is no completion, or "no".
LLMSuccess(x)   == [failure |-> "no", provider |-> x.provider, content |-> x.content]
LLMFailure(why) == [failure |-> why, provider |-> "none", content |-> Nothing]

Classify(x) ==
  CASE x.status \in {401, 403, 422} -> LLMFailure("rejected")
    [] x.status = 200 /\ x.wellFormed -> LLMSuccess(x)
    [] OTHER -> LLMFailure("gateway_unavailable")

\* GatewayClient.complete, which never raises either.
complete(x) ==
  CASE x.event = "timeout"     -> LLMFailure("timeout")
    [] x.event = "unreachable" -> LLMFailure("gateway_unavailable")
    [] x.event = "response"    -> Classify(x)

Answers == {complete(x) : x \in Responses}

-----------------------------------------------------------------------------
(* The model's text.                                                       *)

\* The whole text, or else what its outermost braces hold.
ExtractJsonObject(text) ==
  CASE text.blank -> Unreadable
    [] ~text.blank /\ text.whole.kind # "unreadable" -> text.whole
    [] OTHER -> text.braced

\* The only coercion allowed: the case of the confidence, and white space around it.
Normalize(document) == [document EXCEPT !.confidence.plain = TRUE]

\* One validation over the whole object: there is no partially usable analysis.
ParsedRCA(document) ==
  /\ document.rest
  /\ document.confidence.plain /\ document.confidence.word \in Confidence
  /\ document.actions # {}

\* parse_rca: why the text cannot be used, or "no".
ParseFailure(text) ==
  LET document == ExtractJsonObject(text) IN
  CASE document.kind # "object" -> "not_json"
    [] document.kind = "object" /\ ~ParsedRCA(Normalize(document)) -> "schema_invalid"
    [] OTHER -> "no"

-----------------------------------------------------------------------------
(* The row.                                                                *)

\* fallback: why the row is a template, or "no".  cost: whether it has the model's
\* text, tokens and latency.  grounding: whether the prompt held retrieved context,
\* and why not if it did not.
ReasoningOutcome ==
  [fallback : FallbackReason \cup {"no"}, provider : Providers \cup {"none"}, cost : BOOLEAN,
   grounding : RetrievalOutcome \cup {"off"}, chunks : SUBSET Chunks,
   confidence : Confidence, actions : SUBSET RecommendedAction]

NoSteps == [order |-> 1, action |-> NO_STEPS_ACTION]

\* generate_template_rca: the plan's steps, or the floor if it has none.
TemplateActions(steps) ==
  IF steps = {} THEN {NoSteps}
  ELSE {[order |-> s.order, action |-> s.description] : s \in steps}

FromAnalysis(g, a) ==
  LET document == Normalize(ExtractJsonObject(a.content)) IN
  [fallback |-> "no", provider |-> a.provider, cost |-> TRUE,
   grounding |-> g.outcome, chunks |-> g.chunks,
   confidence |-> document.confidence.word, actions |-> document.actions]

\* Mutant of FromFailure: a rejection is recorded with the cost of a call.
FromFailurePaid(steps, g, a, why) ==
  [fallback |-> why, provider |-> "none", cost |-> why # "timeout",
   grounding |-> g.outcome, chunks |-> g.chunks,
   confidence |-> "low", actions |-> TemplateActions(steps)]

\* A call that completed is paid for whether or not its answer could be used.
FromFailure(steps, g, a, why) ==
  [fallback |-> why, provider |-> "none", cost |-> a.failure = "no",
   grounding |-> g.outcome, chunks |-> g.chunks,
   confidence |-> "low", actions |-> TemplateActions(steps)]

\* resolve: every result becomes a recommendation, the model's or the template's.
Resolve(steps, g, a) ==
  IF a.failure # "no" THEN FromFailure(steps, g, a, a.failure)
  ELSE IF ParseFailure(a.content) # "no"
       THEN FromFailure(steps, g, a, ParseFailure(a.content))
       ELSE FromAnalysis(g, a)
=============================================================================
