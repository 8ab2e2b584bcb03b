----------------------------- MODULE Providers -----------------------------
(***************************************************************************)
(* What the gateway knows of its providers: how a vendor's failure is      *)
(* classified for the retry policy, what the routing table needs to be     *)
(* built, and what admits a request.  Texts are their lengths, and an      *)
(* exception is its vendor, its class and its status.                      *)
(***************************************************************************)
EXTENDS Integers, FiniteSets, Functions

VENDORS == {"openai", "anthropic", "gemini"}
LLMMode == {"fast", "reason", "extended", "embed"}
Unset == 0  \* no status, or no cap

-----------------------------------------------------------------------------
(* Failures.                                                               *)

RETRYABLE_STATUS_CODES == {429, 500, 502, 503, 504}

is_retryable_status(status) == status \in RETRYABLE_STATUS_CODES

\* What a translator says of a failure: its status, that it is worth a retry whatever its
\* status, that it is a timeout.
FailureInfo(status, retryable, timeout) ==
  [status |-> status, retryable |-> retryable, timeout |-> timeout]

Unrecognized == FailureInfo(Unset, FALSE, FALSE)

\* The SDKs of OpenAI and Anthropic raise classes of the same names: a timeout is a failed
\* connection too, and is looked for first.
TranslateOpenAI(exc) ==
  CASE exc.class = "APITimeoutError" -> FailureInfo(Unset, FALSE, TRUE)
    [] exc.class = "APIConnectionError" -> FailureInfo(Unset, TRUE, FALSE)
    [] exc.class = "APIStatusError" -> FailureInfo(exc.status, FALSE, FALSE)
    [] OTHER -> Unrecognized

\* 529, overloaded, is a status like another, and not one worth a retry.
TranslateAnthropic(exc) ==
  CASE exc.class = "APITimeoutError" -> FailureInfo(Unset, FALSE, TRUE)
    [] exc.class = "APIConnectionError" -> FailureInfo(Unset, TRUE, FALSE)
    [] exc.class = "APIStatusError" -> FailureInfo(exc.status, FALSE, FALSE)
    [] OTHER -> Unrecognized

ClassStatus ==
  [TooManyRequests |-> 429, InternalServerError |-> 500, BadGateway |-> 502,
   ServiceUnavailable |-> 503, GatewayTimeout |-> 504, BadRequest |-> 400,
   Unauthorized |-> 401, Forbidden |-> 403]

\* The code is trusted if it is a number, and otherwise the class speaks.
HttpStatus(exc) ==
  IF exc.status # Unset THEN exc.status
  ELSE IF exc.class \in DOMAIN ClassStatus THEN ClassStatus[exc.class] ELSE Unset

TranslateGemini(exc) ==
  CASE exc.class \in {"DeadlineExceeded", "RetryError"} -> FailureInfo(Unset, FALSE, TRUE)
    [] exc.class \in DOMAIN ClassStatus \cup {"GoogleAPICallError"} ->
         FailureInfo(HttpStatus(exc), FALSE, FALSE)
    [] OTHER -> Unrecognized

Translate(exc) ==
  CASE exc.vendor = "openai" -> TranslateOpenAI(exc)
    [] exc.vendor = "anthropic" -> TranslateAnthropic(exc)
    [] exc.vendor = "gemini" -> TranslateGemini(exc)

\* ProviderError: what the translation does not say, the status does.
ProviderError(info) == info.retryable \/ is_retryable_status(info.status)

\* _translated, and the gateway's own timeout, which is always worth a retry, as is a
\* stream that ends before its first event.
Retryable(exc) ==
  \/ exc.class \in {"TimeoutError", "EmptyStream"}
  \/ Translate(exc).timeout
  \/ ProviderError(Translate(exc))

-----------------------------------------------------------------------------
(* The routing table.  A mode is [provider, model, maxInput, maxOutput],   *)
(* where maxOutput may be Unset; keys are the vendors with an API key.     *)

\* GatewayConfig: all modes have an entry, and what has a fallback is a mode.
ConfigValid(modes, fallback) ==
  /\ DOMAIN modes = LLMMode /\ DOMAIN fallback \subseteq LLMMode
  /\ \A m \in LLMMode : modes[m].maxInput > 0 /\ modes[m].maxOutput \in Nat

\* build_binding: a known vendor with a key, an embedder for embed, which Anthropic has
\* not, and a cap on what Anthropic may write.
BindingBuilds(mode, provider, maxOutput, keys) ==
  /\ provider \in VENDORS /\ provider \in keys
  /\ mode = "embed" => provider # "anthropic"
  /\ (mode # "embed" /\ provider = "anthropic") => maxOutput # Unset

\* build_router: all of it, or none.
RouterBuilds(modes, fallback, keys) ==
  /\ \A m \in LLMMode : BindingBuilds(m, modes[m].provider, modes[m].maxOutput, keys)
  /\ \A m \in DOMAIN fallback : BindingBuilds(m, fallback[m].provider, modes[m].maxOutput, keys)

\* load_token_map: not empty, each token one service and one mode.
TokensValid(tokens) == DOMAIN tokens # {} /\ \A t \in DOMAIN tokens : tokens[t] \in LLMMode

\* The lifespan: without any of these no route under /v1/ is mounted.
Starts(modes, fallback, keys, tokens) ==
  ConfigValid(modes, fallback) /\ TokensValid(tokens) /\ RouterBuilds(modes, fallback, keys)

-----------------------------------------------------------------------------
(* Admission.  A request is [path, token, mode, stream, wellFormed, texts]. *)

CHARS_PER_TOKEN == 4

\* A ceiling.
estimate_tokens(texts) ==
  (FoldFunction(LAMBDA a, b : a + b, 0, texts) + CHARS_PER_TOKEN - 1) \div CHARS_PER_TOKEN

Granted(q, tokens) == q.token \in DOMAIN tokens

\* authorize_mode: a token's one mode.
authorize_mode(q, tokens) == q.mode = tokens[q.token]

\* The whole conversation, or each of the texts to embed.
enforce_chat_budget(q, modes) == estimate_tokens(q.texts) <= modes[q.mode].maxInput
enforce_embed_budget(q, modes) ==
  \A i \in DOMAIN q.texts : estimate_tokens(<<q.texts[i]>>) <= modes[q.mode].maxInput

\* 401 before the body's 422, then 403, the wrong path's 422 and the budget's.
AdmitChat(q, modes) == q.mode # "embed" /\ enforce_chat_budget(q, modes)
AdmitEmbed(q, modes) == q.mode = "embed" /\ enforce_embed_budget(q, modes)

Admission(q, modes, tokens) ==
  IF ~Granted(q, tokens) THEN 401
  ELSE IF ~q.wellFormed THEN 422
  ELSE IF ~authorize_mode(q, tokens) THEN 403
  ELSE IF (IF q.path = "complete" THEN AdmitChat(q, modes) ELSE AdmitEmbed(q, modes))
       THEN 200 ELSE 422
=============================================================================
