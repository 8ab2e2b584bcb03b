---------------------------- MODULE MCIngestion ----------------------------
\* Webhooks of one alert: two firing, its resolve, a garbled one and a forged one.
EXTENDS Ingestion, TLC

Symmetry == Permutations(Requests)

Body == [batch |-> FALSE, labels |-> "some", service |-> "orders", name |-> "Failing",
         severity |-> "high", status |-> "firing", at |-> "noon", ends |-> Absent, id |-> Absent]

MCSource == [w \in Webhooks |->
  IF w = "again" THEN "kibana" ELSE "prometheus"]
MCPayload == [w \in Webhooks |->
  CASE w = "fires" -> Body
    [] w = "again" -> [Body EXCEPT !.status = Absent]
    [] w = "clears" -> [Body EXCEPT !.status = "resolved", !.ends = "one"]
    [] w = "garbled" -> [Body EXCEPT !.status = "resolved", !.ends = "unparseable"]
    [] w = "forged" -> [Body EXCEPT !.batch = TRUE]]
=============================================================================
