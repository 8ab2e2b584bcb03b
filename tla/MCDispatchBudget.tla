-------------------------- MODULE MCDispatchBudget --------------------------
EXTENDS DispatchBudget

\* The durations in seconds, as the code has them, in ticks of five.
Ticks(seconds) == seconds \div 5

MCDispatchTimeout == Ticks(90)
MCKnowledgeBudget == Ticks(20)
MCLLMBudget       == Ticks(60)
MCOwnWork         == Ticks(5)
MCReaperAge       == Ticks(60)

\* httpx's default, and a client built with no timeout of its own.
BothClients  == {Ticks(5), Ticks(3600)}
=============================================================================
