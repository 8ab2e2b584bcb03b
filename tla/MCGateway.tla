----------------------------- MODULE MCGateway -----------------------------
\* gateway.yaml, with Anthropic behind extended for a second vendor.
EXTENDS Gateway, TLC

Entry(provider, input, output) == [provider |-> provider, maxInput |-> input, maxOutput |-> output]

MCModes == [fast |-> Entry("openai", 4, 2), reason |-> Entry("openai", 8, 2),
            extended |-> Entry("anthropic", 16, 4), embed |-> Entry("openai", 8, Unset)]
MCFallbacks == [extended |-> [provider |-> "openai"]]
MCKeys == {"openai", "anthropic"}
MCTokens == [planner |-> "fast", reasoner |-> "extended", indexer |-> "embed"]

MCBindings == {"claude", "mini", "large", "vectors"}
MCVendor == [b \in MCBindings |-> IF b = "claude" THEN "anthropic" ELSE "openai"]
MCPrimary == [m \in LLMMode |-> CASE m = "extended" -> "claude" [] m = "fast" -> "mini"
                                  [] m = "reason" -> "large" [] m = "embed" -> "vectors"]
MCFallback == [m \in LLMMode |-> IF m = "extended" THEN "mini" ELSE None]

Asking(path, token, mode, streamed, texts) ==
  [path |-> path, token |-> token, mode |-> mode, stream |-> streamed,
   wellFormed |-> TRUE, texts |-> texts]

\* The last three are refused: an embedding of a completion's mode, a mode the token does
\* not grant, and too long a conversation.
MCAsks == {
  Asking("complete", "planner", "fast", FALSE, <<3, 9>>),
  Asking("complete", "reasoner", "extended", TRUE, <<30, 30>>),
  Asking("embed", "planner", "fast", FALSE, <<1>>),
  Asking("complete", "planner", "extended", FALSE, <<1>>),
  Asking("complete", "reasoner", "extended", FALSE, <<60, 5>>)}

Failure(v, class, status) == [vendor |-> v, class |-> class, status |-> status]
MCFailures == {
  Failure("openai", "APIStatusError", 400), Failure("openai", "APIConnectionError", Unset),
  Failure("anthropic", "APIStatusError", 529), Failure("anthropic", "TimeoutError", Unset)}

RequestSymmetry == Permutations(Requests)
=============================================================================
