----------------------------- MODULE Retrieval -----------------------------
(***************************************************************************)
(* POST /v1/context of the knowledge-service, over the index that an       *)
(* indexing run may be changing: the two searches of one request may see   *)
(* two different indexes.                                                  *)
(*                                                                         *)
(* What Elasticsearch ranks is open: BM25 returns some of the chunks of    *)
(* the service, kNN as many as there are up to its size, in any order.     *)
(***************************************************************************)
EXTENDS Indexer

CONSTANTS
  Services, \* the services of incidents
  LegSize,  \* how many hits each search returns at most
  Limit     \* CONTEXT_LIMIT

ASSUME RetrievalAssumption ==
  LegSize \in Nat \ {0} /\ Limit \in Nat \ {0}

VARIABLES
  step,     \* where the request is
  service,  \* the service it asks about
  lexical,  \* what BM25 returned
  fused,    \* the fused candidates
  graded,   \* whether the answer carries grades
  status,   \* the HTTP status of the answer, 0 before it
  answer,   \* its chunks
  held      \* chunks of the service that the index has held since the request came

requestVars == <<step, service, lexical, fused, graded, status, answer, held>>
vars == <<indexerVars, requestVars>>

TypeOK ==
  /\ IndexerTypeOK
  /\ step \in {"idle", "bm25", "knn", "grade", "answered"}
  /\ service \in Services \cup {Absent}
  /\ ToSet(lexical) \subseteq AllIds /\ ToSet(fused) \subseteq AllIds
  /\ graded \in BOOLEAN /\ status \in {0, 200, 503}
  /\ ToSet(answer) \subseteq AllIds /\ held \subseteq AllIds

Init ==
  /\ IndexerInit
  /\ step = "idle" /\ service = Absent /\ lexical = <<>> /\ fused = <<>>
  /\ graded = FALSE /\ status = 0 /\ answer = <<>> /\ held = {}

\* The chunks the service filter of either search lets through.
About(s) == {d.id : d \in {x \in index : s \in x.services}}

\* search_bm25, search_knn: some chunks of the service, best first.
Rankings(ids) ==
  UNION {{r \in [1 .. n -> ids] : \A i, j \in 1 .. n : r[i] = r[j] => i = j} :
           n \in 0 .. LegSize}
Full(r, ids) == Len(r) = LegSize \/ ToSet(r) = ids

\* Ids are hashes: in some order, but always in the same.
Digest == CHOOSE f \in [AllIds -> 1 .. Cardinality(AllIds)] : IsInjective(f)

Reply(code, chunks) ==
  /\ step' = "answered" /\ status' = code /\ answer' = chunks
  /\ lexical' = <<>> /\ fused' = <<>>

-----------------------------------------------------------------------------
\* The query is built and embedded.
Ask(s) ==
  /\ step = "idle" /\ step' = "bm25"
  /\ service' = s
  /\ held' = About(s)
  /\ UNCHANGED <<lexical, fused, graded, status, answer>>

SearchBm25 ==
  /\ step = "bm25" /\ step' = "knn"
  /\ lexical' \in Rankings(About(service))
  /\ UNCHANGED <<service, fused, graded, status, answer, held>>

\* The second search, on what the index is by then, and the fusion of both.
SearchKnn ==
  /\ step = "knn" /\ step' = "grade"
  /\ \E vectorial \in Rankings(About(service)) :
       /\ Full(vectorial, About(service))
       /\ fused' = Fuse(<<lexical, vectorial>>, Digest, Limit)
  /\ lexical' = <<>>
  /\ UNCHANGED <<service, graded, status, answer, held>>

\* Mutant of Grade: a grading that cannot be used leaves nothing.
GradeOrNothing ==
  /\ step = "grade"
  /\ \E reply \in SUBSET [id : ToSet(fused), grade : {"partial", "insufficient"}] :
       IF fused # <<>> /\ Complete(reply, fused)
       THEN Reply(200, Usable(fused, reply)) /\ graded' = TRUE
       ELSE Reply(200, <<>>) /\ graded' = FALSE
  /\ UNCHANGED <<service, held>>

\* GatewayGrader.grade: a reply that covers the candidates decides which are kept; without
\* one (timeout, error, bad shape, incomplete) they are returned ungraded; none, no call.
Grade ==
  /\ step = "grade"
  /\ \E reply \in SUBSET [id : ToSet(fused), grade : {"partial", "insufficient"}] :
       IF fused # <<>> /\ Complete(reply, fused)
       THEN Reply(200, Usable(fused, reply)) /\ graded' = TRUE
       ELSE Reply(200, fused) /\ graded' = FALSE
  /\ UNCHANGED <<service, held>>

\* The gateway or Elasticsearch fails, times out or breaks its contract.
Unavailable ==
  /\ step \in {"bm25", "knn"}
  /\ Reply(503, <<>>)
  /\ UNCHANGED <<service, graded, held>>

Answered ==
  /\ step = "answered" /\ step' = "idle"
  /\ service' = Absent /\ graded' = FALSE /\ status' = 0 /\ answer' = <<>> /\ held' = {}
  /\ UNCHANGED <<lexical, fused>>

RequestStep == SearchBm25 \/ SearchKnn \/ Grade \/ Unavailable \/ Answered

\* The index changes under the request.
Beside(A) ==
  /\ A
  /\ UNCHANGED <<step, service, lexical, fused, graded, status, answer>>
  /\ held' = held \cap About(service)'

Next ==
  \/ Beside(IndexerNext)
  \/ /\ RequestStep \/ \E s \in Services : Ask(s)
     /\ UNCHANGED indexerVars

Spec == Init /\ [][Next]_vars

\* The Job is started again until it has succeeded, and it is scheduled.
Fairness == WF_vars(Beside(StartRun)) /\ WF_vars(Beside(RunStep))

FairSpec == Spec /\ Fairness

-----------------------------------------------------------------------------
(* Properties.                                                             *)

\* An empty answer is a claim that the runbooks do not cover the incident: if a chunk of
\* the service was there all the while, only the grader can have made it, and neither an
\* outage nor an indexing run between the two searches.
HonestEmpty ==
  status = 200 /\ answer = <<>> /\ held # {} => graded
=============================================================================
