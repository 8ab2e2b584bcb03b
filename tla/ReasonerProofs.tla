--------------------------- MODULE ReasonerProofs ---------------------------
(***************************************************************************)
(* Theorems about Reasoner, for any events, incidents, number of           *)
(* overlapping requests, and outcomes of the two remote calls; and about   *)
(* the clocks it runs against, DispatchBudget: that the order of the       *)
(* timeouts is enough, whatever their values.  With one worker and no      *)
(* shorter timeout of httpx's, an event is analysed once and never         *)
(* abandoned, however often the reaper resets its row; with a shorter one  *)
(* it is analysed three times at most.                                     *)
(***************************************************************************)
EXTENDS Reasoner, DispatchBudget, FiniteSetTheorems, SequenceTheorems, TLAPS

-----------------------------------------------------------------------------
(* The inductive invariant.                                                *)

\* What a request's program counter says of its event, its calls and its transaction.
Shape ==
  \A r \in Requests :
    /\ pc[r] = "idle" <=> ev[r] = None
    /\ pc[r] = "call" => retrieved[r] \in Retrievals
    /\ pc[r] \in {"check", "insert"} \/ "recommendation" \in wrote[r]
         => retrieved[r] \in Retrievals /\ answer[r] \in Answers
    /\ pc[r] \notin {"mark", "commit"} => wrote[r] = {}
    /\ pc[r] = "mark" => "marker" \notin wrote[r]
    /\ pc[r] = "commit" => "marker" \in wrote[r]
    /\ pc[r] \in {"context", "retrieve", "call", "check", "insert", "recheck", "remark"}
         => ev[r] \notin Foreign
    /\ "recommendation" \in wrote[r] => ev[r] \notin Foreign
    /\ pc[r] \in {"retrieve", "call", "check", "insert", "mark", "recheck", "remark",
                  "commit"}
         => ev[r] \notin Orphans

\* Nothing is left to do for an incident.
Settled(i) == recs[i] # << >> \/ i \notin present

\* A request gives up on writing a recommendation only when nothing is left to do.
Absorbs(r) ==
  \/ pc[r] \in {"recheck", "remark"}
  \/ pc[r] \in {"mark", "commit"} /\ "recommendation" \notin wrote[r] /\ ev[r] \notin Foreign

Progress ==
  \A r \in Requests :
    /\ Absorbs(r) => Settled(About(r))
    /\ pc[r] = "reply" => ev[r] \in markers

\* Two open transactions never hold the same key, nor one that is committed.
Locks ==
  /\ \A r \in Requests :
       /\ "recommendation" \in wrote[r] => recs[About(r)] = << >>
       /\ "marker" \in wrote[r] => ev[r] \notin markers
  /\ \A r, s \in Requests :
       /\ "recommendation" \in wrote[r] /\ "recommendation" \in wrote[s]
          /\ About(r) = About(s) => r = s
       /\ "marker" \in wrote[r] /\ "marker" \in wrote[s] /\ ev[r] = ev[s] => r = s

Audited ==
  /\ \A e \in Events : audit[e] # "none" <=> e \in markers \ Foreign
  /\ \A e \in Events : audit[e] = "created" => recs[incidentOf[e]] # << >>
  /\ \A e, f \in Events :
       audit[e] = "created" /\ audit[f] = "created" /\ incidentOf[e] = incidentOf[f] => e = f
  /\ \A i \in Incidents :
       recs[i] # << >> => \E e \in Events : incidentOf[e] = i /\ audit[e] = "created"

\* A row is gone only if one was deleted.
Gone == vanished <= MaxVanish /\ (vanished = 0 => present = Incidents)

Tables == OneRecommendation /\ ForgottenIsGone /\ AnsweredIsMarked

IInv == TypeOK /\ Shape /\ Progress /\ Locks /\ Audited /\ Gone /\ Tables /\ RowsTruthful

-----------------------------------------------------------------------------
(* What the two calls and the templates give.                              *)

\* match never comes back empty: a template file that loads has steps for every alert.
LEMMA PlanSound ==
  ASSUME NEW i \in Incidents
  PROVE  /\ Plan(i) # {}
         /\ Plan(i) \subseteq PlanStep
<1> DEFINE steps == Match(alertOf[i].service, alertOf[i].name)
<1>1. \E key \in DOMAIN templates : steps = templates[key]
  BY TemplatesAssumption, Zenon DEF Match, Loads
<1>2. WellFormed(steps)
  BY <1>1, TemplatesAssumption DEF Loads
<1>3. Plan(i) = {steps[n] : n \in DOMAIN steps}
  BY Zenon DEF Plan, OrderedSteps
<1> HIDE DEF steps
<1>4. steps \in Seq(PlanStep) /\ steps # << >>
  BY <1>2, Zenon DEF WellFormed
<1>5. \A n \in DOMAIN steps : steps[n] \in PlanStep
  BY <1>4, ElementOfSeq, LenProperties
<1>6. \E n \in DOMAIN steps : TRUE
  <2>1. Len(steps) \in Nat /\ Len(steps) # 0 /\ DOMAIN steps = 1..Len(steps)
    BY <1>4, EmptySeq, LenProperties
  <2>. QED  BY <2>1
<1>. QED  BY <1>3, <1>4, <1>5, <1>6, Zenon

LEMMA TemplateSound ==
  ASSUME NEW i \in Incidents
  PROVE  /\ TemplateActions(Plan(i)) \in SUBSET RecommendedAction
         /\ TemplateActions(Plan(i)) # {}
<1>1. ASSUME NEW s \in Plan(i)
      PROVE  [order |-> s.order, action |-> s.description] \in RecommendedAction
  <2>1. s.order \in Nat \ {0} /\ s.description \in Descriptions
    BY PlanSound DEF PlanStep
  <2>. QED  BY <2>1, Zenon DEF RecommendedAction
<1>2. /\ Plan(i) # {}
      /\ TemplateActions(Plan(i)) = {[order |-> s.order, action |-> s.description] : s \in Plan(i)}
  BY PlanSound, Zenon DEF TemplateActions
<1>. QED  BY <1>1, <1>2, Zenon

\* fetch is total, and carries chunks exactly if it is grounded.
LEMMA FetchTotal ==
  ASSUME NEW g \in Retrievals
  PROVE  /\ g.outcome \in RetrievalOutcome \cup {"off"}
         /\ g.chunks \in SUBSET Chunks
         /\ g.chunks # {} <=> g.outcome = "grounded"
<1>1. PICK x \in Contexts : g = fetch(x)
  BY DEF Retrievals
<1>2. x.chunks \in SUBSET Chunks
  BY ReasoningAssumption
<1>. QED  BY <1>1, <1>2 DEF fetch, Unavailable, RetrievalOutcome

\* complete is total: a completion with the provider's name, or a reason.
LEMMA CompleteTotal ==
  ASSUME NEW a \in Answers
  PROVE  \/ a.failure \in LLMFailureReason
         \/ a.failure = "no" /\ a.provider \in Providers /\ a.content \in Texts
<1>1. PICK x \in Responses : a = complete(x)
  BY DEF Answers
<1>2. x.event \in Ends /\ x.provider \in Providers /\ x.content \in Texts
  BY ReasoningAssumption
<1>. QED
  BY <1>1, <1>2 DEF complete, Classify, LLMSuccess, LLMFailure, LLMFailureReason, Ends

\* parse_rca is total: a reason, or a document that is an analysis in full.
LEMMA ParseTotal ==
  ASSUME NEW text \in Texts
  PROVE  LET document == Normalize(ExtractJsonObject(text)) IN
         \/ ParseFailure(text) \in RCAParseFailureReason
         \/ /\ ParseFailure(text) = "no"
            /\ document.confidence.word \in Confidence
            /\ document.actions \in SUBSET RecommendedAction /\ document.actions # {}
<1> DEFINE document == ExtractJsonObject(text)
<1>1. document \in Documents
  <2>1. text.whole \in Documents /\ text.braced \in Documents
    BY DEF Texts
  <2>2. Unreadable \in Documents
    <3>1. /\ [word |-> "another", plain |-> TRUE]
               \in [word : Confidence \cup {"another"}, plain : BOOLEAN]
          /\ {} \in SUBSET RecommendedAction
      OBVIOUS
    <3>. QED  BY <3>1 DEF Unreadable, Documents
  <2>. QED  BY <2>1, <2>2, Zenon DEF ExtractJsonObject
<1>2. /\ Normalize(document).confidence.word = document.confidence.word
      /\ Normalize(document).actions = document.actions
      /\ document.actions \in SUBSET RecommendedAction
  BY <1>1 DEF Normalize, Documents
<1>3. \/ ParseFailure(text) \in RCAParseFailureReason
      \/ ParseFailure(text) = "no" /\ ParsedRCA(Normalize(document))
  BY Zenon DEF ParseFailure, RCAParseFailureReason
<1>. QED  BY <1>2, <1>3 DEF ParsedRCA

\* fallback.py: resolve is total: whatever the two calls did, there is a row to store,
\* and it says truly what happened.
THEOREM ResolveTotal ==
  ASSUME NEW i \in Incidents, NEW g \in Retrievals, NEW a \in Answers
  PROVE  /\ Resolve(Plan(i), g, a) \in ReasoningOutcome
         /\ Truthful(Resolve(Plan(i), g, a))
<1> DEFINE steps == Plan(i)
<1>1. /\ TemplateActions(steps) \in SUBSET RecommendedAction
      /\ TemplateActions(steps) # {}
  BY TemplateSound
<1> HIDE DEF steps
<1>2. /\ g.outcome \in RetrievalOutcome \cup {"off"} /\ g.chunks \in SUBSET Chunks
      /\ g.chunks # {} <=> g.outcome = "grounded"
  BY FetchTotal
<1>3. ASSUME NEW why \in FallbackReason, why \in LLMFailureReason <=> a.failure # "no"
      PROVE  /\ FromFailure(steps, g, a, why) \in ReasoningOutcome
             /\ Truthful(FromFailure(steps, g, a, why))
  <2> DEFINE stored == FromFailure(steps, g, a, why)
  <2>1. why # "no"
    BY DEF FallbackReason, LLMFailureReason, RCAParseFailureReason
  <2>2. stored = [fallback |-> why, provider |-> "none", cost |-> a.failure = "no",
               grounding |-> g.outcome, chunks |-> g.chunks,
               confidence |-> "low", actions |-> TemplateActions(steps)]
    BY Zenon DEF FromFailure
  <2>3. stored \in ReasoningOutcome
    <3>1. "low" \in Confidence /\ (a.failure = "no") \in BOOLEAN
      BY DEF Confidence
    <3>. QED  BY <1>1, <1>2, <1>3, <2>2, <3>1 DEF ReasoningOutcome
  <2>4. /\ stored.fallback = why /\ stored.provider = "none" /\ stored.cost = (a.failure = "no")
        /\ stored.grounding = g.outcome /\ stored.chunks = g.chunks
        /\ stored.confidence = "low" /\ stored.actions = TemplateActions(steps)
    BY <2>2
  <2> HIDE DEF stored
  <2>5. Truthful(stored)
    BY <1>1, <1>2, <1>3, <2>1, <2>4, Zenon DEF Truthful
  <2>. QED  BY <2>3, <2>5 DEF stored
<1>4. CASE a.failure # "no"
  <2>1. a.failure \in LLMFailureReason
    BY <1>4, CompleteTotal
  <2>. QED  BY <1>3, <1>4, <2>1 DEF Resolve, FallbackReason, steps
<1>5. CASE a.failure = "no"
  <2>1. a.provider \in Providers /\ a.content \in Texts
    BY <1>5, CompleteTotal DEF LLMFailureReason
  <2>2. CASE ParseFailure(a.content) # "no"
    <3>1. ParseFailure(a.content) \in RCAParseFailureReason
      BY <2>1, <2>2, ParseTotal
    <3>. QED
      BY <1>3, <1>5, <2>2, <3>1
      DEF Resolve, FallbackReason, LLMFailureReason, RCAParseFailureReason, steps
  <2>3. CASE ParseFailure(a.content) = "no"
    <3> DEFINE document == Normalize(ExtractJsonObject(a.content))
    <3>1. /\ document.confidence.word \in Confidence
          /\ document.actions \in SUBSET RecommendedAction /\ document.actions # {}
      BY <2>1, <2>3, ParseTotal DEF RCAParseFailureReason
    <3>2. Resolve(Plan(i), g, a) = FromAnalysis(g, a)
      BY <1>5, <2>3 DEF Resolve
    <3>3. FromAnalysis(g, a)
            = [fallback |-> "no", provider |-> a.provider, cost |-> TRUE,
               grounding |-> g.outcome, chunks |-> g.chunks,
               confidence |-> document.confidence.word, actions |-> document.actions]
      BY Zenon DEF FromAnalysis
    <3> HIDE DEF document
    <3>. QED
      BY <1>2, <2>1, <3>1, <3>2, <3>3, ReasoningAssumption DEF ReasoningOutcome, Truthful, LLMFailureReason
  <2>. QED  BY <2>2, <2>3
<1>. QED  BY <1>4, <1>5

LEMMA OneRow ==
  ASSUME NEW s \in Seq(ReasoningOutcome), s # << >>, Len(s) <= 1 PROVE Len(s) = 1
<1>1. Len(s) \in Nat /\ Len(s) # 0
  BY EmptySeq, Zenon
<1> DEFINE n == Len(s)
<1>2. n \in Nat /\ n # 0 /\ n <= 1
  BY <1>1
<1> HIDE DEF n
<1>3. n = 1
  BY <1>2
<1>. QED  BY <1>3 DEF n

\* A request at work has an event, and that event an incident.
LEMMA Busy ==
  ASSUME TypeOK, Shape, NEW r \in Requests, pc[r] # "idle"
  PROVE  ev[r] \in Events /\ About(r) \in Incidents
BY ReasonerAssumption DEF TypeOK, Shape, About

LEMMA TypeStep == TypeOK /\ Shape /\ [Next]_vars => TypeOK'
<1> SUFFICES ASSUME TypeOK, Shape, [Next]_vars PROVE TypeOK'
  OBVIOUS
<1> USE DEF TypeOK, dbVars, reqVars, bounds, Goto, Proceed, End, Steps
<1>1. ASSUME NEW r \in Requests, NEW e \in Events, Receive(r, e) PROVE TypeOK'
  BY <1>1 DEF Receive
<1>2. ASSUME NEW r \in Requests, Gate(r) PROVE TypeOK'
  BY <1>2 DEF Gate
<1>3. ASSUME NEW r \in Requests, Context(r) PROVE TypeOK'
  BY <1>3 DEF Context
<1>4. ASSUME NEW r \in Requests, NEW g \in Retrievals, Retrieve(r, g) PROVE TypeOK'
  BY <1>4 DEF Retrieve
<1>5. ASSUME NEW r \in Requests, NEW a \in Answers, Call(r, a) PROVE TypeOK'
  BY <1>5 DEF Call
<1>6. ASSUME NEW r \in Requests, Check(r) PROVE TypeOK'
  BY <1>6 DEF Check
<1>7. ASSUME NEW r \in Requests, Insert(r) PROVE TypeOK'
  <2>1. wrote' \in [Requests -> SUBSET {"recommendation", "marker"}]
    <3>1. {"recommendation"} \in SUBSET {"recommendation", "marker"}
      OBVIOUS
    <3>2. wrote' = wrote \/ wrote' = [wrote EXCEPT ![r] = {"recommendation"}]
      BY <1>7 DEF Insert
    <3>. QED  BY <3>1, <3>2
  <2>. QED  BY <1>7, <2>1 DEF Insert
<1>8. ASSUME NEW r \in Requests, Mark(r) PROVE TypeOK'
  <2>1. CASE ev[r] \in markers
    BY <1>8, <2>1 DEF Mark, RollBack
  <2>2. CASE ev[r] \notin markers
    <3>1. wrote' \in [Requests -> SUBSET {"recommendation", "marker"}]
      BY <1>8, <2>2 DEF Mark
    <3>. QED  BY <1>8, <2>2, <3>1 DEF Mark
  <2>. QED  BY <2>1, <2>2
<1>9. ASSUME NEW r \in Requests, Recheck(r) PROVE TypeOK'
  BY <1>9 DEF Recheck
<1>10. ASSUME NEW r \in Requests, Remark(r) PROVE TypeOK'
  <2>1. wrote' \in [Requests -> SUBSET {"recommendation", "marker"}]
    <3>1. {"marker"} \in SUBSET {"recommendation", "marker"} /\ {} \in SUBSET {"marker"}
      OBVIOUS
    <3>2. \/ wrote' = [wrote EXCEPT ![r] = {}]
          \/ wrote' = [wrote EXCEPT ![r] = {"marker"}]
      BY <1>10 DEF Remark
    <3>. QED  BY <3>1, <3>2
  <2>. QED  BY <1>10, <2>1 DEF Remark
<1>11. ASSUME NEW r \in Requests, Commit(r) PROVE TypeOK'
  <2>1. CASE "recommendation" \in wrote[r] /\ About(r) \notin present
    BY <1>11, <2>1 DEF Commit, RollBack
  <2>2. CASE ~("recommendation" \in wrote[r] /\ About(r) \notin present)
    <3>1. /\ Land(r)
          /\ pc' = [pc EXCEPT ![r] = "reply"] /\ wrote' = [wrote EXCEPT ![r] = {}]
          /\ UNCHANGED <<present, ev, retrieved, answer, answered, aborts, vanished>>
          /\ ev[r] \in Events /\ About(r) \in Incidents
      BY <1>11, <2>2, Busy DEF Commit
    <3>2. CASE "recommendation" \in wrote[r]
      <4>1. Row(r) \in ReasoningOutcome
        BY <3>1, <3>2, ResolveTotal DEF Shape, Row
      <4>2. recs' \in [Incidents -> Seq(ReasoningOutcome)] /\ created' \in [Incidents -> Nat]
        <5>1. Append(recs[About(r)], Row(r)) \in Seq(ReasoningOutcome)
          BY <3>1, <4>1
        <5>2. /\ recs' = [recs EXCEPT ![About(r)]
                            = Append(recs[About(r)], Row(r))]
              /\ created' = [created EXCEPT ![About(r)] = @ + 1]
          BY <3>1, <3>2 DEF Land
        <5> HIDE DEF Row
        <5>. QED  BY <3>1, <5>1, <5>2
      <4>. QED  BY <3>1, <3>2, <4>2 DEF Land
    <3>3. CASE "recommendation" \notin wrote[r]
      BY <3>1, <3>3 DEF Land
    <3>. QED  BY <3>2, <3>3
  <2>. QED  BY <2>1, <2>2
<1>12. ASSUME NEW r \in Requests, Reply(r) PROVE TypeOK'
  <2>1. ev[r] \in Events
    BY <1>12 DEF Reply, Shape
  <2>. QED  BY <1>12, <2>1 DEF Reply
<1>13. ASSUME NEW r \in Requests, Abort(r) PROVE TypeOK'
  BY <1>13 DEF Abort
<1>14. ASSUME NEW i \in Incidents, Vanish(i) PROVE TypeOK'
  BY <1>14 DEF Vanish
<1>15. CASE UNCHANGED vars
  BY <1>15 DEF vars
<1>. QED
  BY <1>1, <1>2, <1>3, <1>4, <1>5, <1>6, <1>7, <1>8, <1>9, <1>10, <1>11, <1>12, <1>13, <1>14,
     <1>15
  DEF Next, Handle

LEMMA InitInv == Init => IInv
<1> SUFFICES ASSUME Init PROVE IInv
  OBVIOUS
<1>1. TypeOK
  BY DEF Init, TypeOK, Steps
<1>2. Shape /\ Progress /\ Locks
  BY DEF Init, Shape, Progress, Absorbs, Locks
<1>3. Audited /\ Gone /\ Tables /\ RowsTruthful
  BY ReasonerAssumption
  DEF Init, Audited, Gone, Tables, OneRecommendation, ForgottenIsGone, AnsweredIsMarked,
      RowsTruthful
<1>. QED  BY <1>1, <1>2, <1>3 DEF IInv

\* A step that changes one request, and neither the tables nor the answers.
LEMMA RequestStep ==
  ASSUME IInv, NEW r \in Requests, UNCHANGED <<dbVars, answered, vanished>>,
         TypeOK', Shape', \A s \in Requests \ {r} :
           pc'[s] = pc[s] /\ ev'[s] = ev[s] /\ wrote'[s] = wrote[s],
         Absorbs(r)' => Settled(About(r))',
         pc'[r] = "reply" => ev'[r] \in markers,
         "recommendation" \in wrote'[r]
           => recs[About(r)'] = << >> /\ ~Waits(r, "recommendation")',
         "marker" \in wrote'[r] => ev'[r] \notin markers /\ ~Waits(r, "marker")'
  PROVE  IInv'
<1>1. Audited' /\ Tables' /\ Gone' /\ RowsTruthful'
  BY DEF IInv, Audited, Tables, Gone, OneRecommendation, ForgottenIsGone, AnsweredIsMarked,
     RowsTruthful, dbVars
<1>2. Progress'
  BY DEF IInv, Progress, Absorbs, Settled, About, dbVars
<1>3. Locks'
  BY DEF IInv, Locks, Waits, About, dbVars
<1>. QED  BY <1>1, <1>2, <1>3 DEF IInv

\* Ending a request early releases its keys and changes nothing else.
LEMMA EndStep ==
  ASSUME IInv, NEW r \in Requests, End(r), UNCHANGED <<dbVars, answered, vanished>>, TypeOK'
  PROVE  IInv'
<1>1. /\ pc' = [pc EXCEPT ![r] = "idle"]
      /\ ev' = [ev EXCEPT ![r] = None]
      /\ retrieved' = [retrieved EXCEPT ![r] = None]
      /\ answer' = [answer EXCEPT ![r] = None]
      /\ wrote' = [wrote EXCEPT ![r] = {}]
  BY DEF End, Goto
<1>2. Shape'
  BY <1>1 DEF IInv, TypeOK, Shape
<1>3. ~Absorbs(r)' /\ pc'[r] = "idle" /\ wrote'[r] = {}
  BY <1>1 DEF IInv, TypeOK, Absorbs
<1>. QED
  BY <1>1, <1>2, <1>3, RequestStep DEF IInv, TypeOK

\* Rolling back releases the keys, and is done only when nothing is left to do.
LEMMA RollBackStep ==
  ASSUME IInv, NEW r \in Requests, pc[r] \in {"mark", "commit"}, RollBack(r),
         UNCHANGED <<dbVars, answered, vanished>>, TypeOK',
         ev[r] \notin Foreign => Settled(About(r))
  PROVE  IInv'
<1>1. CASE ev[r] \in Foreign
  BY <1>1, EndStep DEF RollBack
<1>2. CASE ev[r] \notin Foreign
  <2>1. Shape'
    BY <1>2 DEF RollBack, Goto, IInv, TypeOK, Shape
  <2>2. Settled(About(r))' /\ pc'[r] = "recheck" /\ wrote'[r] = {}
    BY <1>2 DEF RollBack, Goto, IInv, TypeOK, Settled, About, dbVars
  <2>3. QED
    BY <1>2, <2>1, <2>2, RequestStep DEF RollBack, Goto, IInv, TypeOK
<1>. QED  BY <1>1, <1>2

\* The commit that stores a recommendation, and the one that absorbs an event.
LEMMA StoreStep ==
  ASSUME IInv, NEW r \in Requests, Commit(r), TypeOK', "recommendation" \in wrote[r],
         About(r) \in present
  PROVE  IInv'
<1> DEFINE stored == Row(r)
<1>1. /\ ev[r] \in Events /\ About(r) \in Incidents
      /\ pc[r] = "commit" /\ "marker" \in wrote[r]
      /\ ev[r] \notin markers /\ ev[r] \notin Foreign
      /\ recs[About(r)] = << >> /\ created[About(r)] = 0
  BY Busy DEF Commit, IInv, Shape, Locks, Tables, OneRecommendation
<1>2. /\ pc' = [pc EXCEPT ![r] = "reply"]
      /\ wrote' = [wrote EXCEPT ![r] = {}]
      /\ markers' = markers \cup {ev[r]}
      /\ UNCHANGED <<present, ev, retrieved, answer, answered, vanished>>
  BY DEF Commit, Goto, Land, bounds
<1>3. /\ recs' = [recs EXCEPT ![About(r)] = << stored >>]
      /\ created' = [created EXCEPT ![About(r)] = 1]
      /\ audit' = [audit EXCEPT ![ev[r]] = "created"]
  BY <1>1 DEF Commit, Land, IInv, TypeOK
<1>4. stored \in ReasoningOutcome /\ Truthful(stored)
  BY <1>1, ResolveTotal DEF IInv, Shape, Row
<1> HIDE DEF stored
<1>5. /\ recs'[About(r)] = << stored >> /\ recs'[About(r)] # << >>
      /\ \A i \in Incidents \ {About(r)} : recs'[i] = recs[i]
  BY <1>1, <1>3 DEF IInv, TypeOK
<1>6. Shape'
  BY <1>1, <1>2 DEF IInv, TypeOK, Shape
<1>7. Progress'
  BY <1>1, <1>2, <1>5, Busy DEF IInv, TypeOK, Progress, Absorbs, Settled, About, Shape
<1>8. Locks'
  <2>1. \A s \in Requests \ {r} :
          "recommendation" \in wrote[s] => About(s) # About(r) /\ About(s) \in Incidents
    BY Busy DEF IInv, Shape, Locks
  <2>2. \A s \in Requests \ {r} : "marker" \in wrote[s] => ev[s] # ev[r]
    BY <1>1 DEF IInv, Locks
  <2>3. wrote'[r] = {} /\ \A s \in Requests \ {r} : wrote'[s] = wrote[s]
    BY <1>2 DEF IInv, TypeOK
  <2>. QED  BY <1>2, <1>5, <2>1, <2>2, <2>3 DEF IInv, Locks, About
<1>9. Audited'
  <2>1. \A e \in Events : incidentOf[e] = About(r) => audit[e] # "created"
    BY <1>1 DEF IInv, Audited
  <2>2. \A e \in Events : audit'[e] # "none" <=> e \in markers' \ Foreign
    BY <1>1, <1>2, <1>3 DEF IInv, TypeOK, Audited
  <2>3. \A e \in Events : audit'[e] = "created" => recs'[incidentOf[e]] # << >>
    BY <1>1, <1>3, <1>5, ReasonerAssumption DEF IInv, TypeOK, Audited, About
  <2>4. \A e, f \in Events :
          audit'[e] = "created" /\ audit'[f] = "created" /\ incidentOf[e] = incidentOf[f]
            => e = f
    BY <1>1, <1>3, <2>1 DEF IInv, TypeOK, Audited, About
  <2>5. \A i \in Incidents :
          recs'[i] # << >> => \E e \in Events : incidentOf[e] = i /\ audit'[e] = "created"
    BY <1>1, <1>3, <1>5 DEF IInv, TypeOK, Audited, About
  <2>. QED  BY <2>2, <2>3, <2>4, <2>5 DEF Audited
<1>10. Tables'
  <2>1. \A i \in Incidents : Len(recs'[i]) <= 1 /\ created'[i] = Len(recs'[i])
    BY <1>1, <1>3, <1>5 DEF IInv, TypeOK, Tables, OneRecommendation
  <2>2. \A e \in markers' \ Foreign :
          recs'[incidentOf[e]] = << >> => incidentOf[e] \notin present'
    BY <1>1, <1>2, <1>5, ReasonerAssumption
    DEF IInv, TypeOK, Tables, ForgottenIsGone, About
  <2>. QED
    BY <1>2, <2>1, <2>2
    DEF IInv, Tables, OneRecommendation, ForgottenIsGone, AnsweredIsMarked
<1>11. RowsTruthful'
  <2> SUFFICES ASSUME NEW i \in Incidents, NEW k \in DOMAIN recs'[i]
               PROVE  Truthful(recs'[i][k])
    BY DEF RowsTruthful
  <2>1. CASE i = About(r)
    <3>1. k = 1 /\ recs'[i][k] = stored
      BY <1>5, <2>1
    <3>. QED  BY <1>4, <3>1
  <2>2. CASE i # About(r)
    BY <1>5, <2>2 DEF IInv, RowsTruthful
  <2>. QED  BY <2>1, <2>2
<1>12. Gone'
  BY <1>2 DEF IInv, Gone
<1>. QED  BY <1>6, <1>7, <1>8, <1>9, <1>10, <1>11, <1>12 DEF IInv

LEMMA AbsorbStep ==
  ASSUME IInv, NEW r \in Requests, Commit(r), TypeOK', "recommendation" \notin wrote[r]
  PROVE  IInv'
<1>1. /\ ev[r] \in Events /\ pc[r] = "commit" /\ "marker" \in wrote[r]
      /\ ev[r] \notin markers
  BY Busy DEF Commit, IInv, Shape, Locks
<1>2. /\ pc' = [pc EXCEPT ![r] = "reply"]
      /\ wrote' = [wrote EXCEPT ![r] = {}]
      /\ markers' = markers \cup {ev[r]}
      /\ audit' = IF ev[r] \in Foreign THEN audit ELSE [audit EXCEPT ![ev[r]] = "duplicate"]
      /\ UNCHANGED <<present, recs, created, ev, retrieved, answer, answered, vanished>>
  BY DEF Commit, Goto, Land, bounds
<1>3. ev[r] \notin Foreign => Settled(About(r))
  BY <1>1 DEF IInv, Progress, Absorbs
<1>4. Shape'
  BY <1>1, <1>2 DEF IInv, TypeOK, Shape
<1>5. Progress'
  BY <1>1, <1>2 DEF IInv, TypeOK, Progress, Absorbs, Settled, About
<1>6. Locks'
  BY <1>1, <1>2 DEF IInv, TypeOK, Locks, About
<1>7. Audited'
  <2>1. audit[ev[r]] = "none"
    BY <1>1 DEF IInv, Audited
  <2>. QED  BY <1>1, <1>2, <2>1 DEF IInv, TypeOK, Audited
<1>8. Tables'
  BY <1>1, <1>2, <1>3
  DEF IInv, Tables, OneRecommendation, ForgottenIsGone, AnsweredIsMarked, Settled, About
<1>9. Gone' /\ RowsTruthful'
  BY <1>2 DEF IInv, Gone, RowsTruthful
<1>. QED  BY <1>4, <1>5, <1>6, <1>7, <1>8, <1>9 DEF IInv

LEMMA CommitStep == ASSUME IInv, NEW r \in Requests, Commit(r), TypeOK' PROVE IInv'
<1>1. CASE "recommendation" \in wrote[r] /\ About(r) \notin present
  <2>1. pc[r] = "commit" /\ RollBack(r) /\ UNCHANGED <<dbVars, answered, vanished>>
    BY <1>1 DEF Commit, bounds
  <2>. QED  BY <1>1, <2>1, RollBackStep DEF Settled
<1>2. CASE "recommendation" \in wrote[r] /\ About(r) \in present
  BY <1>2, StoreStep
<1>3. CASE "recommendation" \notin wrote[r]
  BY <1>3, AbsorbStep
<1>. QED  BY <1>1, <1>2, <1>3

LEMMA ReplyStep == ASSUME IInv, NEW r \in Requests, Reply(r), TypeOK' PROVE IInv'
<1>1. /\ pc' = [pc EXCEPT ![r] = "idle"]
      /\ ev' = [ev EXCEPT ![r] = None]
      /\ retrieved' = [retrieved EXCEPT ![r] = None]
      /\ answer' = [answer EXCEPT ![r] = None]
      /\ wrote' = [wrote EXCEPT ![r] = {}]
      /\ answered' = answered \cup {ev[r]}
      /\ UNCHANGED <<dbVars, vanished>>
      /\ ev[r] \in markers
  BY DEF Reply, End, Goto, bounds, IInv, Progress
<1>2. Shape' /\ Progress'
  BY <1>1 DEF IInv, TypeOK, Shape, Progress, Absorbs, Settled, About, dbVars
<1>3. Locks'
  BY <1>1 DEF IInv, TypeOK, Locks, About, dbVars
<1>4. Audited' /\ Tables' /\ Gone' /\ RowsTruthful'
  BY <1>1 DEF IInv, Audited, Tables, Gone, OneRecommendation, ForgottenIsGone,
     AnsweredIsMarked, RowsTruthful, dbVars
<1>. QED  BY <1>2, <1>3, <1>4 DEF IInv

LEMMA VanishStep == ASSUME IInv, NEW i \in Incidents, Vanish(i), TypeOK' PROVE IInv'
<1>1. /\ present' = present \ {i} /\ vanished' = vanished + 1 /\ vanished < MaxVanish
      /\ UNCHANGED <<recs, created, audit, markers, pc, ev, retrieved, answer, wrote, answered>>
  BY DEF Vanish, reqVars
<1>2. Shape' /\ Locks' /\ Audited' /\ RowsTruthful'
  BY <1>1 DEF IInv, Shape, Locks, Audited, RowsTruthful, About
<1>3. Progress'
  BY <1>1 DEF IInv, Progress, Absorbs, Settled, About
<1>4. Gone'
  BY <1>1, ReasonerAssumption DEF IInv, TypeOK, Gone
<1>5. Tables'
  BY <1>1 DEF IInv, Tables, OneRecommendation, ForgottenIsGone, AnsweredIsMarked
<1>. QED  BY <1>2, <1>3, <1>4, <1>5 DEF IInv

LEMMA InvStep == IInv /\ [Next]_vars => IInv'
<1> SUFFICES ASSUME IInv, [Next]_vars PROVE IInv'
  OBVIOUS
<1>0. TypeOK'
  BY TypeStep DEF IInv
<1>1. ASSUME NEW r \in Requests, NEW e \in Events, Receive(r, e) PROVE IInv'
  <2>1. Shape'
    BY <1>1, ReasonerAssumption DEF Receive, Goto, IInv, TypeOK, Shape
  <2>2. ~Absorbs(r)' /\ pc'[r] = "gate" /\ wrote'[r] = {}
    BY <1>1 DEF Receive, Goto, IInv, TypeOK, Shape, Absorbs
  <2>. QED
    BY <1>0, <1>1, <2>1, <2>2, RequestStep DEF Receive, Goto, IInv, TypeOK, bounds
<1>2. ASSUME NEW r \in Requests, Gate(r) PROVE IInv'
  <2>1. Shape'
    BY <1>2, ReasonerAssumption DEF Gate, Proceed, Goto, IInv, TypeOK, Shape
  <2>2. ~Absorbs(r)' /\ wrote'[r] = {} /\ (pc'[r] = "reply" => ev'[r] \in markers)
    BY <1>2 DEF Gate, Proceed, Goto, IInv, TypeOK, Shape, Absorbs
  <2>. QED
    BY <1>0, <1>2, <2>1, <2>2, RequestStep DEF Gate, Proceed, Goto, IInv, TypeOK, bounds
<1>3. ASSUME NEW r \in Requests, Context(r) PROVE IInv'
  <2>1. CASE ev[r] \in Orphans \/ About(r) \notin present
    BY <1>0, <1>3, <2>1, EndStep DEF Context, bounds
  <2>2. CASE ~(ev[r] \in Orphans \/ About(r) \notin present)
    <3>1. Shape'
      BY <1>3, <2>2 DEF Context, Proceed, Goto, IInv, TypeOK, Shape
    <3>2. ~Absorbs(r)' /\ wrote'[r] = {} /\ pc'[r] # "reply"
      BY <1>3, <2>2 DEF Context, Proceed, Goto, IInv, TypeOK, Shape, Absorbs
    <3>. QED
      BY <1>0, <1>3, <2>2, <3>1, <3>2, RequestStep
      DEF Context, Proceed, Goto, IInv, TypeOK, bounds
  <2>. QED  BY <2>1, <2>2
<1>4. ASSUME NEW r \in Requests, NEW g \in Retrievals, Retrieve(r, g) PROVE IInv'
  <2>1. Shape'
    BY <1>4 DEF Retrieve, Goto, IInv, TypeOK, Shape
  <2>2. ~Absorbs(r)' /\ wrote'[r] = {} /\ pc'[r] # "reply"
    BY <1>4 DEF Retrieve, Goto, IInv, TypeOK, Shape, Absorbs
  <2>. QED
    BY <1>0, <1>4, <2>1, <2>2, RequestStep DEF Retrieve, Goto, IInv, TypeOK, bounds
<1>5. ASSUME NEW r \in Requests, NEW a \in Answers, Call(r, a) PROVE IInv'
  <2>1. Shape'
    BY <1>5 DEF Call, Goto, IInv, TypeOK, Shape
  <2>2. ~Absorbs(r)' /\ wrote'[r] = {} /\ pc'[r] # "reply"
    BY <1>5 DEF Call, Goto, IInv, TypeOK, Shape, Absorbs
  <2>. QED
    BY <1>0, <1>5, <2>1, <2>2, RequestStep DEF Call, Goto, IInv, TypeOK, bounds
<1>6. ASSUME NEW r \in Requests, Check(r) PROVE IInv'
  <2>1. CASE About(r) \notin present
    BY <1>0, <1>6, <2>1, EndStep DEF Check, bounds
  <2>2. CASE About(r) \in present
    <3>1. Shape'
      BY <1>6, <2>2 DEF Check, Proceed, Goto, IInv, TypeOK, Shape
    <3>2. /\ Absorbs(r)' => Settled(About(r))'
          /\ wrote'[r] = {} /\ pc'[r] # "reply"
      BY <1>6, <2>2
      DEF Check, Proceed, Goto, IInv, TypeOK, Shape, Absorbs, Settled, About, dbVars
    <3>. QED
      BY <1>0, <1>6, <2>2, <3>1, <3>2, RequestStep
      DEF Check, Proceed, Goto, IInv, TypeOK, bounds
  <2>. QED  BY <2>1, <2>2
<1>7. ASSUME NEW r \in Requests, Insert(r) PROVE IInv'
  <2>1. Shape'
    BY <1>7 DEF Insert, Proceed, Goto, IInv, TypeOK, Shape
  <2>2. /\ Absorbs(r)' => Settled(About(r))'
        /\ pc'[r] # "reply" /\ "marker" \notin wrote'[r]
    BY <1>7 DEF Insert, Proceed, Goto, IInv, TypeOK, Shape, Absorbs, Settled, About, dbVars
  <2>3. "recommendation" \in wrote'[r]
          => recs[About(r)'] = << >> /\ ~Waits(r, "recommendation")'
    <3>1. "recommendation" \in wrote'[r] => recs[About(r)'] = << >>
      BY <1>7 DEF Insert, Proceed, Goto, IInv, TypeOK, Shape, About
    <3>2. ~Waits(r, "recommendation")'
      BY <1>7 DEF Insert, Proceed, Goto, IInv, TypeOK, Waits, About
    <3>. QED  BY <3>1, <3>2
  <2>. QED
    BY <1>0, <1>7, <2>1, <2>2, <2>3, RequestStep
    DEF Insert, Proceed, Goto, IInv, TypeOK, bounds
<1>8. ASSUME NEW r \in Requests, Mark(r) PROVE IInv'
  <2>1. CASE ev[r] \in markers
    <3>1. ev[r] \notin Foreign => Settled(About(r))
      BY <2>1 DEF IInv, Tables, ForgottenIsGone, Settled, About
    <3>2. pc[r] = "mark" /\ RollBack(r) /\ UNCHANGED <<dbVars, answered, vanished>>
      BY <1>8, <2>1 DEF Mark, bounds
    <3>. QED  BY <1>0, <3>1, <3>2, RollBackStep
  <2>2. CASE ev[r] \notin markers
    <3>1. Shape'
      BY <1>8, <2>2 DEF Mark, Goto, IInv, TypeOK, Shape
    <3>2. /\ Absorbs(r)' => Settled(About(r))'
          /\ pc'[r] # "reply" /\ ev'[r] \notin markers
      BY <1>8, <2>2 DEF Mark, Goto, IInv, TypeOK, Progress, Absorbs, Settled, About, dbVars
    <3>3. ~Waits(r, "marker")'
      BY <1>8, <2>2 DEF Mark, Goto, IInv, TypeOK, Waits, About
    <3>4. "recommendation" \in wrote'[r]
            => recs[About(r)'] = << >> /\ ~Waits(r, "recommendation")'
      <4>1. /\ "recommendation" \in wrote'[r] <=> "recommendation" \in wrote[r]
            /\ \A s \in Requests \ {r} : wrote'[s] = wrote[s]
            /\ UNCHANGED ev
        BY <1>8, <2>2 DEF Mark, IInv, TypeOK
      <4>. QED  BY <4>1 DEF IInv, Locks, Waits, About
    <3>. QED
      BY <1>0, <1>8, <2>2, <3>1, <3>2, <3>3, <3>4, RequestStep
      DEF Mark, Goto, IInv, TypeOK, bounds
  <2>. QED  BY <2>1, <2>2
<1>9. ASSUME NEW r \in Requests, Recheck(r) PROVE IInv'
  <2>1. Shape'
    BY <1>9 DEF Recheck, Proceed, Goto, IInv, TypeOK, Shape
  <2>2. /\ Settled(About(r))' /\ wrote'[r] = {}
        /\ pc'[r] = "reply" => ev'[r] \in markers
    BY <1>9
    DEF Recheck, Proceed, Goto, IInv, TypeOK, Shape, Progress, Absorbs, Settled, About, dbVars
  <2>. QED
    BY <1>0, <1>9, <2>1, <2>2, RequestStep DEF Recheck, Proceed, Goto, IInv, TypeOK, bounds
<1>10. ASSUME NEW r \in Requests, Remark(r) PROVE IInv'
  <2>1. CASE ev[r] \in markers
    BY <1>0, <1>10, <2>1, EndStep DEF Remark, bounds
  <2>2. CASE ev[r] \notin markers
    <3>1. Shape'
      BY <1>10, <2>2 DEF Remark, Goto, IInv, TypeOK, Shape
    <3>2. /\ Settled(About(r))' /\ pc'[r] # "reply"
          /\ "recommendation" \notin wrote'[r] /\ ev'[r] \notin markers
      BY <1>10, <2>2
      DEF Remark, Goto, IInv, TypeOK, Progress, Absorbs, Settled, About, dbVars
    <3>3. ~Waits(r, "marker")'
      BY <1>10, <2>2 DEF Remark, Goto, IInv, TypeOK, Waits, About
    <3>. QED
      BY <1>0, <1>10, <2>2, <3>1, <3>2, <3>3, RequestStep
      DEF Remark, Goto, IInv, TypeOK, bounds
  <2>. QED  BY <2>1, <2>2
<1>11. ASSUME NEW r \in Requests, Commit(r) PROVE IInv'
  BY <1>0, <1>11, CommitStep
<1>12. ASSUME NEW r \in Requests, Reply(r) PROVE IInv'
  BY <1>0, <1>12, ReplyStep
<1>13. ASSUME NEW r \in Requests, Abort(r) PROVE IInv'
  BY <1>0, <1>13, EndStep DEF Abort
<1>14. ASSUME NEW i \in Incidents, Vanish(i) PROVE IInv'
  BY <1>0, <1>14, VanishStep
<1>15. CASE UNCHANGED vars
  BY <1>15 DEF vars, dbVars, reqVars, bounds, IInv, TypeOK, Shape, Progress, Absorbs, Settled,
     Locks, About, Audited, Gone, Tables, OneRecommendation, ForgottenIsGone,
     AnsweredIsMarked, RowsTruthful
<1>. QED
  BY <1>1, <1>2, <1>3, <1>4, <1>5, <1>6, <1>7, <1>8, <1>9, <1>10, <1>11, <1>12, <1>13, <1>14,
     <1>15
  DEF Next, Handle

-----------------------------------------------------------------------------
(* Theorems.                                                               *)

THEOREM Invariance == Spec => []IInv
<1>1. Init => IInv
  BY InitInv
<1>2. IInv /\ [Next]_vars => IInv'
  BY InvStep
<1>. QED  BY <1>1, <1>2, PTL DEF Spec

\* routes.py, models.py: one recommendation per incident, announced once, for any overlap
\* of any number of deliveries, deleted rows included.
THEOREM NeverTwoCards == Spec => []OneRecommendation
<1>1. IInv => OneRecommendation
  BY DEF IInv, Tables
<1>. QED  BY <1>1, Invariance, PTL

\* routes.py: an event marked as processed has had its effect, unless its incident is gone.
THEOREM OnlyGoneForgotten == Spec => []ForgottenIsGone
<1>1. IInv => ForgottenIsGone
  BY DEF IInv, Tables
<1>. QED  BY <1>1, Invariance, PTL

\* storage.py: where nobody deletes incidents, the marker implies the recommendation.
THEOREM MarkerHasRecommendation ==
  ASSUME MaxVanish = 0
  PROVE  Spec => []MarkedIsRecommended
<1>1. IInv => MarkedIsRecommended
  BY ReasonerAssumption
  DEF IInv, TypeOK, Gone, Tables, ForgottenIsGone, MarkedIsRecommended
<1>. QED  BY <1>1, Invariance, PTL

\* routes.py: a 2xx is sent only about an event whose marker has committed.
THEOREM AnswerHasMarker == Spec => []AnsweredIsMarked
<1>1. IInv => AnsweredIsMarked
  BY DEF IInv, Tables
<1>. QED  BY <1>1, Invariance, PTL

\* fallback.py: every row stored says truly whether a model answered.
THEOREM RowsHonest == Spec => []RowsTruthful
<1>1. IInv => RowsTruthful
  BY DEF IInv
<1>. QED  BY <1>1, Invariance, PTL

\* storage.py: each event processed is audited, and each recommendation by exactly one
\* "created" row.
THEOREM DecisionsAudited == Spec => []EveryDecisionAudited
<1>1. IInv => EveryDecisionAudited
  <2> SUFFICES ASSUME IInv, NEW i \in Incidents
               PROVE  Cardinality({e \in Events : incidentOf[e] = i /\ audit[e] = "created"})
                        = Len(recs[i])
    BY DEF EveryDecisionAudited, IInv, Audited
  <2> DEFINE Creators == {e \in Events : incidentOf[e] = i /\ audit[e] = "created"}
  <2>1. CASE recs[i] = << >>
    <3>1. Creators = {} /\ Len(recs[i]) = 0
      BY <2>1 DEF IInv, Audited
    <3>. QED  BY <3>1, FS_EmptySet
  <2>2. CASE recs[i] # << >>
    <3>1. Len(recs[i]) = 1
      <4>1. recs[i] \in Seq(ReasoningOutcome) /\ Len(recs[i]) <= 1
        BY DEF IInv, TypeOK, Tables, OneRecommendation
      <4>. QED  BY <2>2, <4>1, OneRow, Zenon
    <3>2. PICK e \in Events : incidentOf[e] = i /\ audit[e] = "created"
      BY <2>2 DEF IInv, Audited
    <3>3. Creators = {e}
      BY <3>2 DEF IInv, Audited
    <3>. QED  BY <3>1, <3>3, FS_Singleton
  <2>. QED  BY <2>1, <2>2
<1>. QED  BY <1>1, Invariance, PTL

LEMMA PromiseInit == Init => Promise!Init
BY DEF Init, Promise!Init

\* What a transaction commits is a decision of its promise, or an absorption.
LEMMA LandStep ==
  ASSUME IInv, NEW r \in Requests, pc[r] = "commit", Land(r), UNCHANGED <<present, answered>>,
         "recommendation" \in wrote[r] => About(r) \in present
  PROVE  Promise!Next
<1>1. /\ ev[r] \in Events \ (markers \cup Orphans) /\ About(r) \in Incidents
      /\ recs[About(r)] \in Seq(ReasoningOutcome)
  BY Busy DEF IInv, TypeOK, Shape, Locks
<1>2. CASE "recommendation" \in wrote[r]
  <2>1. /\ ev[r] \notin Foreign /\ recs[About(r)] = << >> /\ Len(recs[About(r)]) = 0
        /\ recs' = [recs EXCEPT ![About(r)] = << Row(r) >>]
        /\ created' = [created EXCEPT ![About(r)] = @ + 1]
        /\ markers' = markers \cup {ev[r]}
    <3>1. ev[r] \notin Foreign /\ recs[About(r)] = << >>
      BY <1>1, <1>2 DEF IInv, Shape, Locks
    <3>2. recs' = [recs EXCEPT ![About(r)]
                     = Append(recs[About(r)], Row(r))]
      BY <1>2 DEF Land
    <3>. QED  BY <1>2, <3>1, <3>2 DEF Land
  <2>2. \A i \in Incidents : Len(recs'[i]) = IF i = About(r) THEN 1 ELSE Len(recs[i])
    BY <1>1, <2>1 DEF IInv, TypeOK
  <2>3. [i \in Incidents |-> Len(recs'[i])]
          = [[i \in Incidents |-> Len(recs[i])] EXCEPT ![About(r)] = 1]
    BY <1>1, <2>2
  <2>4. PICK e \in Events : e = ev[r]
    BY <1>1
  <2>5. Promise!Decide(e)
    <3>1. [i \in Incidents |-> Len(recs[i])][About(r)] = 0
      BY <1>1, <2>1
    <3>. QED  BY <1>1, <1>2, <2>1, <2>3, <2>4, <3>1 DEF About, Promise!Decide
  <2>. QED  BY <2>5 DEF Promise!Next
<1>3. CASE "recommendation" \notin wrote[r]
  <2>1. ev[r] \notin Foreign =>
          Len(recs[About(r)]) = 1 \/ About(r) \in Incidents \ present
    <3>1. ev[r] \notin Foreign => recs[About(r)] # << >> \/ About(r) \notin present
      BY <1>1, <1>3 DEF IInv, Progress, Absorbs, Settled
    <3>2. Len(recs[About(r)]) <= 1
      BY <1>1 DEF IInv, Tables, OneRecommendation
    <3>. QED  BY <1>1, <3>1, <3>2, OneRow, Zenon
  <2>2. UNCHANGED <<recs, created, present, answered>> /\ markers' = markers \cup {ev[r]}
    BY <1>3 DEF Land
  <2>3. Promise!Absorb(ev[r])
    BY <1>1, <2>1, <2>2 DEF About, Promise!Absorb
  <2>. QED  BY <1>1, <2>3 DEF Promise!Next
<1>. QED  BY <1>2, <1>3

LEMMA PromiseStep == IInv /\ [Next]_vars => [Promise!Next]_(Promise!vars)
<1> SUFFICES ASSUME IInv, [Next]_vars PROVE Promise!Next \/ UNCHANGED Promise!vars
  BY DEF IInv
<1>1. ASSUME UNCHANGED <<dbVars, answered>> PROVE UNCHANGED Promise!vars
  BY <1>1 DEF dbVars, Promise!vars
<1>2. ASSUME NEW r \in Requests, Commit(r) PROVE Promise!Next \/ UNCHANGED Promise!vars
  <2>1. CASE "recommendation" \in wrote[r] /\ About(r) \notin present
    <3>1. UNCHANGED <<dbVars, answered>>
      BY <1>2, <2>1 DEF Commit
    <3>. QED  BY <1>1, <3>1
  <2>2. CASE ~("recommendation" \in wrote[r] /\ About(r) \notin present)
    <3>1. pc[r] = "commit" /\ Land(r) /\ UNCHANGED <<present, answered>>
      BY <1>2, <2>2 DEF Commit
    <3>. QED  BY <2>2, <3>1, LandStep
  <2>. QED  BY <2>1, <2>2
<1>3. ASSUME NEW r \in Requests, Reply(r) PROVE Promise!Next
  <2>1. ev[r] \in Events /\ Promise!Answer(ev[r])
    BY <1>3, Busy DEF Reply, IInv, Progress, dbVars, Promise!Answer
  <2>. QED  BY <2>1 DEF Promise!Next
<1>4. ASSUME NEW i \in Incidents, Vanish(i) PROVE Promise!Next
  <2>1. /\ recs[i] = << >> /\ present' = present \ {i}
        /\ UNCHANGED <<recs, created, markers, answered>>
    BY <1>4 DEF Vanish
  <2>2. Promise!Delete(i)
    <3>1. [j \in Incidents |-> Len(recs[j])][i] = 0
      BY <2>1
    <3>2. Incidents \ present' = (Incidents \ present) \cup {i}
      BY <2>1
    <3>. QED  BY <2>1, <3>1, <3>2 DEF Promise!Delete
  <2>. QED  BY <2>2 DEF Promise!Next
<1>. QED
  BY <1>1, <1>2, <1>3, <1>4
  DEF Next, Handle, Receive, Gate, Context, Retrieve, Call, Check, Insert, Mark, Recheck,
      Remark, Abort, vars

\* The reasoner implements ExactlyOnce: from at-least-once delivery, each incident that is
\* not deleted is decided once and announced once.
THEOREM PromiseKept == Spec => KeepsPromise
<1>1. Init => Promise!Init
  BY PromiseInit
<1>2. IInv /\ [Next]_vars => [Promise!Next]_(Promise!vars)
  BY PromiseStep
<1>. QED
  BY <1>1, <1>2, Invariance, PTL DEF Spec, KeepsPromise, Promise!Spec

-----------------------------------------------------------------------------
(* The clocks of a dispatch.                                                *)

Handlers == [stage : Stages, spent : Nat]

\* The bookkeeping of the handlers; the row plays no part.
BudgetShape ==
  /\ handlers \in Seq(Handlers)
  /\ serving \in [Workers -> DOMAIN handlers \cup {Idle}]
  /\ waited \in [Workers -> Nat]

\* What a handler may have spent before a stage.
Before(stage) ==
  CASE stage = "knowledge" -> 0
    [] stage = "llm"       -> KnowledgeBudget
    [] stage = "write"     -> KnowledgeBudget + LLMBudget

\* A handler at work is waited for, by a worker that has waited no longer than the
\* budgets allow.
Awaited ==
  \A h \in DOMAIN handlers :
    handlers[h].stage \notin Finished =>
      /\ handlers[h].spent <= Limit(handlers[h].stage)
      /\ \E w \in Workers :
           serving[w] = h /\ waited[w] <= Before(handlers[h].stage) + handlers[h].spent

\* Only one handler was let in by the gate.
Alone ==
  \A g, h \in DOMAIN handlers :
    handlers[g].stage # "absorbed" /\ handlers[h].stage # "absorbed" => g = h

BudgetInv == BudgetShape /\ Awaited /\ Alone

\* Besides Ordered, the condition under which the order of the timeouts decides.
OneWorker == \A v, w \in Workers : v = w

\* The inductive invariant: httpx is drawn in the initial state.
OrderedInv == httpx \in HttpxReads /\ (Ordered => BudgetInv)

-----------------------------------------------------------------------------
LEMMA Durations ==
  /\ KnowledgeBudget \in Nat /\ LLMBudget \in Nat /\ OwnWork \in Nat
  /\ KnowledgeBudget + LLMBudget + OwnWork < DispatchTimeout
  /\ \A s \in Stages \ Finished :
       /\ Limit(s) \in Nat /\ Before(s) \in Nat
       /\ Before(s) + Limit(s) <= KnowledgeBudget + LLMBudget + OwnWork
       /\ After(s) \in Stages \ {"absorbed"}
       /\ After(s) \notin Finished =>
            Before(After(s)) = Before(s) + Limit(s)
<1>1. /\ KnowledgeBudget \in Nat /\ LLMBudget \in Nat /\ OwnWork \in Nat
      /\ KnowledgeBudget + LLMBudget + OwnWork < DispatchTimeout
  BY BudgetAssumption
<1>2. ASSUME NEW s \in Stages \ Finished
      PROVE  /\ Limit(s) \in Nat /\ Before(s) \in Nat
             /\ Before(s) + Limit(s) <= KnowledgeBudget + LLMBudget + OwnWork
             /\ After(s) \in Stages \ {"absorbed"}
             /\ After(s) \notin Finished => Before(After(s)) = Before(s) + Limit(s)
  <2>1. CASE s = "knowledge"
    BY <1>1, <2>1 DEF Limit, Before, After, Stages, Finished
  <2>2. CASE s = "llm"
    BY <1>1, <2>2 DEF Limit, Before, After, Stages, Finished
  <2>3. CASE s = "write"
    BY <1>1, <2>3 DEF Limit, Before, After, Stages, Finished
  <2>4. QED BY <2>1, <2>2, <2>3 DEF Stages, Finished
<1>3. QED BY <1>1, <1>2

LEMMA HandlerShape ==
  ASSUME BudgetShape, NEW h \in DOMAIN handlers
  PROVE  handlers[h].stage \in Stages /\ handlers[h].spent \in Nat
<1>1. handlers[h] \in Handlers
  BY ElementOfSeq, LenProperties DEF BudgetShape
<1>2. QED BY <1>1 DEF Handlers

\* What the invariant says of a handler at work, with the one worker at hand.
LEMMA ServedByTheWorker ==
  ASSUME BudgetInv, OneWorker, NEW w \in Workers,
         NEW h \in DOMAIN handlers, handlers[h].stage \notin Finished
  PROVE  /\ serving[w] = h
         /\ waited[w] <= Before(handlers[h].stage) + handlers[h].spent
         /\ handlers[h].spent <= Limit(handlers[h].stage)
BY DEF BudgetInv, Awaited, OneWorker

LEMMA BudgetInitInv == BudgetInit => BudgetInv
<1> SUFFICES ASSUME BudgetInit PROVE BudgetInv
  OBVIOUS
<1>1. handlers \in Seq(Handlers) /\ DOMAIN handlers = {}
  BY EmptySeq DEF BudgetInit
<1>2. BudgetShape
  BY <1>1 DEF BudgetInit, BudgetShape
<1>3. QED BY <1>1, <1>2 DEF BudgetInv, Awaited, Alone

-----------------------------------------------------------------------------
(* One lemma for each action that touches a handler or a worker.           *)

LEMMA DispatchShape ==
  ASSUME BudgetShape, NEW w \in Workers, Dispatch(w)
  PROVE  /\ BudgetShape'
         /\ DOMAIN handlers = 1..Len(handlers) /\ Len(handlers) \in Nat
         /\ Len(handlers') = Len(handlers) + 1
         /\ DOMAIN handlers' = DOMAIN handlers \cup {Len(handlers) + 1}
         /\ \A h \in DOMAIN handlers : handlers'[h] = handlers[h]
         /\ handlers'[Len(handlers) + 1] =
              [stage |-> IF Marked THEN "absorbed" ELSE "knowledge", spent |-> 0]
         /\ serving'[w] = Len(handlers) + 1 /\ waited'[w] = 0
<1> DEFINE new == [stage |-> IF Marked THEN "absorbed" ELSE "knowledge", spent |-> 0]
           last == Len(handlers) + 1
<1>1. handlers \in Seq(Handlers) /\ new \in Handlers
  BY DEF BudgetShape, Handlers, Stages
<1>2. /\ handlers' \in Seq(Handlers)
      /\ DOMAIN handlers = 1..Len(handlers) /\ Len(handlers) \in Nat
      /\ Len(handlers') = last
      /\ DOMAIN handlers' = DOMAIN handlers \cup {last}
      /\ \A h \in DOMAIN handlers : handlers'[h] = handlers[h]
      /\ handlers'[last] = new
  BY <1>1, AppendProperties, LenProperties DEF Dispatch
<1>3. /\ serving' \in [Workers -> DOMAIN handlers' \cup {Idle}]
      /\ serving'[w] = last
      /\ waited' \in [Workers -> Nat]
      /\ waited'[w] = 0
  BY <1>2 DEF Dispatch, BudgetShape
<1>4. QED BY <1>2, <1>3 DEF BudgetShape

LEMMA AdvanceShape ==
  ASSUME BudgetShape, NEW h \in DOMAIN handlers, Advance(h)
  PROVE  /\ BudgetShape'
         /\ DOMAIN handlers' = DOMAIN handlers /\ Len(handlers') = Len(handlers)
         /\ handlers[h].stage \in Stages \ Finished /\ handlers[h].spent \in Nat
         /\ After(handlers[h].stage) \in Stages \ {"absorbed"}
         /\ handlers'[h] = [stage |-> After(handlers[h].stage), spent |-> 0]
         /\ \A g \in DOMAIN handlers \ {h} : handlers'[g] = handlers[g]
         /\ serving' = serving /\ waited' = waited
<1> DEFINE moved == [stage |-> After(handlers[h].stage), spent |-> 0]
<1>1. handlers \in Seq(Handlers) /\ DOMAIN handlers \subseteq Nat
  BY LenProperties DEF BudgetShape
<1>2. handlers[h].stage \in Stages \ Finished /\ handlers[h].spent \in Nat
  BY HandlerShape DEF Advance
<1>3. After(handlers[h].stage) \in Stages \ {"absorbed"} /\ moved \in Handlers
  BY <1>2, Durations DEF Handlers
<1>4. /\ handlers' \in Seq(Handlers)
      /\ DOMAIN handlers' = DOMAIN handlers /\ Len(handlers') = Len(handlers)
      /\ handlers'[h] = moved
      /\ \A g \in DOMAIN handlers \ {h} : handlers'[g] = handlers[g]
      /\ serving' = serving /\ waited' = waited
  BY <1>1, <1>3, ExceptSeq DEF Advance
<1>5. QED BY <1>2, <1>3, <1>4 DEF BudgetShape

LEMMA TickShape ==
  ASSUME BudgetShape, Tick
  PROVE  /\ BudgetShape'
         /\ DOMAIN handlers' = DOMAIN handlers /\ Len(handlers') = Len(handlers)
         /\ \A h \in DOMAIN handlers :
              /\ handlers'[h].stage = handlers[h].stage
              /\ handlers[h].stage \notin Finished =>
                   /\ handlers'[h].spent = handlers[h].spent + 1
                   /\ handlers[h].spent \in Nat
                   /\ handlers[h].spent < Limit(handlers[h].stage)
                   /\ handlers[h].stage \in Stages \ Finished
<1> DEFINE older(h) == IF handlers[h].stage \in Finished THEN handlers[h]
                       ELSE [stage |-> handlers[h].stage, spent |-> handlers[h].spent + 1]
<1>1. handlers \in Seq(Handlers) /\ DOMAIN handlers = 1..Len(handlers) /\ Len(handlers) \in Nat
  BY LenProperties DEF BudgetShape
<1>2. \A h \in DOMAIN handlers : handlers[h] \in Handlers /\ older(h) \in Handlers
  <2> SUFFICES ASSUME NEW h \in DOMAIN handlers
               PROVE  handlers[h] \in Handlers /\ older(h) \in Handlers
    OBVIOUS
  <2>1. handlers[h] \in Handlers
    BY <1>1, ElementOfSeq
  <2>2. handlers[h].stage \in Stages /\ handlers[h].spent \in Nat
    BY <2>1 DEF Handlers
  <2>3. QED BY <2>1, <2>2 DEF Handlers
<1>3. handlers' = [h \in 1..Len(handlers) |-> older(h)]
  BY <1>1 DEF Tick
<1>4. /\ handlers' \in Seq(Handlers)
      /\ DOMAIN handlers' = DOMAIN handlers /\ Len(handlers') = Len(handlers)
  <2> HIDE DEF older
  <2>1. handlers' \in [1..Len(handlers) -> Handlers]
    BY <1>1, <1>2, <1>3
  <2>2. handlers' \in Seq(Handlers) /\ DOMAIN handlers' = DOMAIN handlers
    BY <1>1, <2>1, SeqDef
  <2>3. QED BY <1>1, <2>2, LenProperties
<1>5. \A h \in DOMAIN handlers :
        /\ handlers'[h].stage = handlers[h].stage
        /\ handlers[h].stage \notin Finished =>
             /\ handlers'[h].spent = handlers[h].spent + 1
             /\ handlers[h].spent \in Nat
             /\ handlers[h].spent < Limit(handlers[h].stage)
             /\ handlers[h].stage \in Stages \ Finished
  BY <1>1, <1>2, <1>3 DEF Tick, Handlers
<1>6. waited' \in [Workers -> Nat] /\ serving' = serving
  BY DEF Tick, BudgetShape
<1>7. QED BY <1>4, <1>5, <1>6 DEF BudgetShape

LEMMA DispatchStep ==
  ASSUME BudgetInv, OneWorker, NEW w \in Workers, Dispatch(w)
  PROVE  BudgetInv'
<1> DEFINE new == [stage |-> IF Marked THEN "absorbed" ELSE "knowledge", spent |-> 0]
           last == Len(handlers) + 1
<1>1. /\ BudgetShape'
      /\ DOMAIN handlers = 1..Len(handlers) /\ Len(handlers) \in Nat
      /\ DOMAIN handlers' = DOMAIN handlers \cup {last}
      /\ \A h \in DOMAIN handlers : handlers'[h] = handlers[h]
      /\ handlers'[last] = new
      /\ serving'[w] = last /\ waited'[w] = 0
  BY DispatchShape DEF BudgetInv
<1>4. \A h \in DOMAIN handlers : handlers[h].stage \in Finished
  <2> SUFFICES ASSUME NEW h \in DOMAIN handlers, handlers[h].stage \notin Finished
               PROVE  FALSE
    OBVIOUS
  <2>1. serving[w] = h
    BY ServedByTheWorker
  <2>2. QED BY <1>1, <2>1, BudgetAssumption DEF Dispatch
<1>5. Awaited'
  <2> SUFFICES ASSUME NEW h \in DOMAIN handlers', handlers'[h].stage \notin Finished
               PROVE  /\ handlers'[h].spent <= Limit(handlers'[h].stage)
                      /\ \E v \in Workers : /\ serving'[v] = h
                                            /\ waited'[v] <= Before(handlers'[h].stage)
                                                             + handlers'[h].spent
    BY DEF Awaited
  <2>1. h = last /\ handlers'[h] = new
    BY <1>1, <1>4
  <2>2. new.stage = "knowledge" /\ new.spent = 0
    BY <2>1 DEF Finished
  <2>3. Limit("knowledge") \in Nat /\ Before("knowledge") \in Nat
    BY Durations DEF Stages, Finished
  <2>4. QED BY <1>1, <2>1, <2>2, <2>3
<1>6. Alone'
  <2>1. ASSUME NEW h \in DOMAIN handlers, handlers[h].stage # "absorbed"
        PROVE  Marked
    <3>1. handlers[h].stage = "done"
      BY <1>4, <2>1 DEF Finished
    <3>2. QED BY <3>1 DEF Marked
  <2>2. ASSUME NEW h \in DOMAIN handlers, handlers[h].stage # "absorbed"
        PROVE  handlers'[last].stage = "absorbed"
    <3>1. Marked
      BY <2>1, <2>2
    <3>2. QED BY <1>1, <3>1
  <2>3. QED BY <1>1, <2>2 DEF Alone, BudgetInv
<1>7. QED BY <1>1, <1>5, <1>6 DEF BudgetInv

\* A worker that stops waiting only for a finished handler leaves none at work.
LEMMA DeliveredStep ==
  ASSUME BudgetInv, OneWorker, NEW w \in Workers, Delivered(w)
  PROVE  BudgetInv'
<1>1. /\ handlers' = handlers
      /\ serving' \in [Workers -> DOMAIN handlers \cup {Idle}]
      /\ waited' \in [Workers -> Nat]
  BY DEF Delivered, StopWaiting, BudgetInv, BudgetShape
<1>2. BudgetShape' /\ Alone'
  BY <1>1 DEF BudgetInv, BudgetShape, Alone
<1>3. \A h \in DOMAIN handlers : handlers[h].stage \in Finished
  BY ServedByTheWorker DEF Delivered
<1>4. QED BY <1>1, <1>2, <1>3 DEF BudgetInv, Awaited

\* The budgets end before the worker's patience does.
LEMMA HangUpStep ==
  ASSUME BudgetInv, OneWorker, Ordered, httpx \in HttpxReads, NEW w \in Workers
  PROVE  ~HangUp(w)
<1> SUFFICES ASSUME HangUp(w) PROVE FALSE
  OBVIOUS
<1> DEFINE h == serving[w]
<1>1. /\ h \in DOMAIN handlers /\ handlers[h].stage \notin Finished
      /\ waited[w] = Patience /\ waited[w] \in Nat
  BY DEF HangUp, BudgetInv, BudgetShape
<1>2. handlers[h].stage \in Stages \ Finished /\ handlers[h].spent \in Nat
  BY <1>1, HandlerShape DEF BudgetInv
<1>3. /\ waited[w] <= Before(handlers[h].stage) + handlers[h].spent
      /\ handlers[h].spent <= Limit(handlers[h].stage)
  BY <1>1, ServedByTheWorker
<1>4. waited[w] < DispatchTimeout
  <2> HIDE DEF h
  <2>1. ASSUME NEW s \in Stages \ Finished, NEW spent \in Nat,
               spent <= Limit(s), waited[w] <= Before(s) + spent
        PROVE  waited[w] < DispatchTimeout
    BY <1>1, <2>1, Durations, BudgetAssumption
  <2>2. QED BY <1>2, <1>3, <2>1
<1>5. Patience = DispatchTimeout
  BY BudgetAssumption DEF Patience, AtMost, Ordered
<1>6. QED BY <1>1, <1>4, <1>5, BudgetAssumption

LEMMA AdvanceStep ==
  ASSUME BudgetInv, OneWorker, NEW h \in DOMAIN handlers, Advance(h)
  PROVE  BudgetInv'
<1> DEFINE s == handlers[h].stage
           moved == [stage |-> After(s), spent |-> 0]
<1>1. /\ BudgetShape'
      /\ s \in Stages \ Finished /\ handlers[h].spent \in Nat
      /\ After(s) \in Stages \ {"absorbed"}
      /\ DOMAIN handlers' = DOMAIN handlers
      /\ handlers'[h] = moved
      /\ \A g \in DOMAIN handlers \ {h} : handlers'[g] = handlers[g]
      /\ serving' = serving /\ waited' = waited
  BY AdvanceShape DEF BudgetInv
<1>6. Alone'
  BY <1>1 DEF BudgetInv, Alone, Finished
<1>7. Awaited'
  <2> SUFFICES ASSUME NEW g \in DOMAIN handlers, handlers'[g].stage \notin Finished
               PROVE  /\ handlers'[g].spent <= Limit(handlers'[g].stage)
                      /\ \E w \in Workers : /\ serving'[w] = g
                                            /\ waited'[w] <= Before(handlers'[g].stage)
                                                             + handlers'[g].spent
    BY <1>1 DEF Awaited
  <2>1. CASE g # h
    BY <1>1, <2>1 DEF BudgetInv, Awaited
  <2>2. CASE g = h
    <3>1. PICK w \in Workers : serving[w] = h /\ waited[w] <= Before(s) + handlers[h].spent
      BY <1>1 DEF BudgetInv, Awaited
    <3>2. handlers[h].spent <= Limit(s) /\ waited[w] \in Nat
      BY <1>1, <3>1 DEF BudgetInv, Awaited, BudgetShape
    <3>3. /\ Before(After(s)) = Before(s) + Limit(s)
          /\ Before(s) \in Nat /\ Limit(s) \in Nat
          /\ After(s) \in Stages \ Finished
      BY <1>1, <2>2, Durations
    <3>4. Limit(After(s)) \in Nat
      BY <3>3, Durations
    <3> DEFINE spent == handlers[h].spent
               wait == waited[w]
               next == After(s)
    <3>5. spent \in Nat /\ wait \in Nat /\ wait <= Before(s) + spent /\ spent <= Limit(s)
          /\ Before(next) = Before(s) + Limit(s) /\ Before(s) \in Nat /\ Limit(s) \in Nat
      BY <1>1, <3>1, <3>2, <3>3
    <3> HIDE DEF s, spent, wait, next
    <3>6. wait <= Before(next) + 0
      BY <3>5
    <3> USE DEF next, wait
    <3>7. QED BY <1>1, <2>2, <3>1, <3>4, <3>6
  <2>3. QED BY <2>1, <2>2
<1>8. QED BY <1>1, <1>6, <1>7 DEF BudgetInv

\* Time may pass only while every handler at work has time left, and is counted by the
\* handler and by its worker alike.
LEMMA TickStep ==
  ASSUME BudgetInv, Tick
  PROVE  BudgetInv'
<1>1. DOMAIN handlers = 1..Len(handlers) /\ Len(handlers) \in Nat
  BY LenProperties DEF BudgetInv, BudgetShape
<1>2. /\ BudgetShape'
      /\ DOMAIN handlers' = DOMAIN handlers
      /\ \A h \in DOMAIN handlers :
           /\ handlers'[h].stage = handlers[h].stage
           /\ handlers[h].stage \notin Finished =>
                /\ handlers'[h].spent = handlers[h].spent + 1
                /\ handlers[h].spent \in Nat
                /\ handlers[h].spent < Limit(handlers[h].stage)
                /\ handlers[h].stage \in Stages \ Finished
  BY TickShape DEF BudgetInv
<1>7. Alone'
  BY <1>2 DEF BudgetInv, Alone
<1>8. Awaited'
  <2> SUFFICES ASSUME NEW h \in DOMAIN handlers, handlers'[h].stage \notin Finished
               PROVE  /\ handlers'[h].spent <= Limit(handlers'[h].stage)
                      /\ \E w \in Workers : /\ serving'[w] = h
                                            /\ waited'[w] <= Before(handlers'[h].stage)
                                                             + handlers'[h].spent
    BY <1>2 DEF Awaited
  <2> DEFINE s == handlers[h].stage
             spent == handlers[h].spent
  <2>1. /\ handlers'[h].stage = s /\ handlers'[h].spent = spent + 1
        /\ spent \in Nat /\ spent < Limit(s) /\ s \in Stages \ Finished
    BY <1>2
  <2>2. Limit(s) \in Nat /\ Before(s) \in Nat
    BY <2>1, Durations
  <2>3. PICK w \in Workers : serving[w] = h /\ waited[w] <= Before(s) + spent
    BY <2>1 DEF BudgetInv, Awaited
  <2>4. waited[w] \in Nat /\ waited'[w] = waited[w] + 1 /\ serving' = serving
    <3>1. serving[w] # Idle
      BY <1>1, <2>3, BudgetAssumption
    <3>2. QED BY <3>1 DEF Tick, BudgetInv, BudgetShape
  <2> HIDE DEF s, spent
  <2>5. spent + 1 <= Limit(s) /\ waited[w] + 1 <= Before(s) + (spent + 1)
    BY <2>1, <2>2, <2>3, <2>4
  <2>6. QED BY <2>1, <2>3, <2>4, <2>5
<1>9. QED BY <1>2, <1>7, <1>8 DEF BudgetInv

LEMMA UnchangedStep ==
  ASSUME BudgetInv, UNCHANGED <<handlers, serving, waited>>
  PROVE  BudgetInv'
<1>1. BudgetShape' /\ Alone'
  BY DEF BudgetInv, BudgetShape, Alone
<1>2. Awaited'
  BY DEF BudgetInv, Awaited
<1>3. QED BY <1>1, <1>2 DEF BudgetInv

LEMMA StepInv ==
  ASSUME OneWorker, Ordered, httpx \in HttpxReads, BudgetInv, [BudgetNext]_bvars
  PROVE  BudgetInv'
<1>1. CASE \E w \in Workers : Dispatch(w)
  BY <1>1, DispatchStep
<1>2. CASE \E w \in Workers : Delivered(w)
  BY <1>2, DeliveredStep
<1>3. CASE \E w \in Workers : HangUp(w)
  BY <1>3, HangUpStep
<1>4. CASE \E h \in DOMAIN handlers : Advance(h)
  BY <1>4, AdvanceStep
<1>5. CASE Reap
  BY <1>5, UnchangedStep DEF Reap
<1>6. CASE Tick
  BY <1>6, TickStep
<1>7. CASE UNCHANGED bvars
  BY <1>7, UnchangedStep DEF bvars
<1>8. QED BY <1>1, <1>2, <1>3, <1>4, <1>5, <1>6, <1>7 DEF BudgetNext

-----------------------------------------------------------------------------
\* At most one handler was let in, so the LLM is called once at most.
LEMMA AloneCallsOnce == BudgetInv => OneCall
<1> SUFFICES ASSUME BudgetInv PROVE OneCall
  OBVIOUS
<1>1. \A g, h \in Calls : g = h
  BY DEF Calls, BudgetInv, Alone
<1>2. CASE Calls = {}
  BY <1>2, FS_EmptySet DEF OneCall
<1>3. CASE Calls # {}
  <2>1. PICK h \in Calls : TRUE
    BY <1>3
  <2>2. Calls = {h}
    BY <1>1, <2>1
  <2>3. Cardinality(Calls) = 1
    BY <2>2, FS_Singleton, Zenon
  <2>4. QED BY <2>3 DEF OneCall
<1>4. QED BY <1>2, <1>3

LEMMA HttpxConstant == [BudgetNext]_bvars => UNCHANGED httpx
BY DEF BudgetNext, bvars, Dispatch, Delivered, HangUp, Advance, Reap, Tick

LEMMA OrderedInvariant ==
  ASSUME OneWorker
  PROVE  BudgetSpec => []OrderedInv
<1>1. BudgetInit => OrderedInv
  BY BudgetInitInv DEF BudgetInit, OrderedInv
<1>2. OrderedInv /\ [BudgetNext]_bvars => OrderedInv'
  <2> SUFFICES ASSUME OrderedInv, [BudgetNext]_bvars PROVE OrderedInv'
    OBVIOUS
  <2>1. httpx' = httpx
    BY HttpxConstant
  <2>2. CASE Ordered
    BY <2>1, <2>2, StepInv DEF OrderedInv
  <2>3. CASE ~Ordered
    BY <2>1, <2>3 DEF OrderedInv, Ordered
  <2>4. QED BY <2>2, <2>3
<1>3. QED BY <1>1, <1>2, PTL DEF BudgetSpec

\* An event is analysed, and its LLM call paid, once (timeouts.py), whatever the values
\* of the timeouts, as long as a single worker dispatches it and httpx's own read timeout
\* does not cut the dispatch timeout short.
THEOREM AnalysedOnce ==
  ASSUME OneWorker
  PROVE  BudgetSpec => []OneCallWhenOrdered
<1>1. OrderedInv => OneCallWhenOrdered
  BY AloneCallsOnce DEF OrderedInv, OneCallWhenOrdered
<1>2. QED BY <1>1, OrderedInvariant, PTL

\* Under the same two conditions no worker gives an event up while the reasoner is at
\* work on it.
THEOREM NobodyHangsUp ==
  ASSUME OneWorker
  PROVE  BudgetSpec => []NeverAbandonedWhenOrdered
<1>1. OrderedInv => NeverAbandonedWhenOrdered
  BY DEF OrderedInv, BudgetInv, Awaited, NeverAbandonedWhenOrdered
<1>2. QED BY <1>1, OrderedInvariant, PTL

-----------------------------------------------------------------------------
(* What an event costs when its workers hang up early.                      *)

\* The durations the bound is about: the first handler is done within 90 s, and no row is
\* reaped in less than 30 s.
Brief == DispatchTimeout <= 18 /\ ReaperAge >= 6

\* How long the first handler has been at work, at most.
Worked == Before(handlers[1].stage) + handlers[1].spent

\* When the n-th handler starts after the first, at the earliest, if every worker hangs up
\* after one tick.
Start(n) == CASE n = 1 -> 0 [] n = 2 -> 2 [] n = 3 -> 6 [] n = 4 -> 19

\* A worker that hangs up before the reaper comes: every attempt is a handler, and the
\* retry delays keep them apart.
Hasty(w) ==
  IF serving[w] = Idle
  THEN /\ status = "pending" /\ attempts = Len(handlers)
       /\ handlers # << >> => Worked >= Start(Len(handlers) + 1) - due
  ELSE /\ status = "processing" /\ attempts = Len(handlers) - 1
       /\ age <= waited[w] /\ waited[w] <= Patience
       /\ Worked >= Start(Len(handlers)) + waited[w]

\* One that waits for longer than that keeps the handlers apart by waiting.
Steady(w) ==
  IF serving[w] = Idle
  THEN handlers # << >> => Worked >= 6 * Len(handlers)
  ELSE Worked >= 6 * (Len(handlers) - 1) + waited[w]

\* Until a handler has committed there are three of them at most, all at work.
Apart ==
  /\ Len(handlers) <= 3
  /\ \A h \in DOMAIN handlers :
       /\ handlers[h].stage \notin Finished
       /\ handlers[h].spent <= Limit(handlers[h].stage)
  /\ \A w \in Workers : IF Patience < 6 THEN Hasty(w) ELSE Steady(w)

\* Those that came later found the marker.
Few == \A h \in DOMAIN handlers : h > 3 => handlers[h].stage = "absorbed"

ApartInv ==
  /\ BudgetShape /\ httpx \in HttpxReads
  /\ attempts \in Nat /\ due \in Nat /\ age \in Nat
  /\ ~Marked => Apart
  /\ Few

-----------------------------------------------------------------------------
LEMMA Pauses ==
  /\ Start(1) = 0 /\ Start(2) = 2 /\ Start(3) = 6 /\ Start(4) = 19
  /\ RetryDelay(2) = 1 /\ RetryDelay(3) = 3 /\ RetryDelay(4) = 12
BY DEF Start, RetryDelay

LEMMA StartNat ==
  ASSUME NEW k \in 1..3
  PROVE  Start(k) \in Nat /\ Start(k + 1) \in Nat
<1>1. CASE k = 1
  BY <1>1, Pauses
<1>2. CASE k = 2
  BY <1>2, Pauses
<1>3. CASE k = 3
  BY <1>3, Pauses
<1>. QED  BY <1>1, <1>2, <1>3

LEMMA PatiencePositive == ASSUME httpx \in HttpxReads PROVE Patience \in Nat \ {0}
BY BudgetAssumption DEF Patience, AtMost

\* While it is at work, the first handler has used no more than the budgets.
LEMMA WorkedBounded ==
  ASSUME Brief, BudgetShape, Apart, handlers # << >>
  PROVE  Worked \in Nat /\ Worked <= 17 /\ 1 \in DOMAIN handlers
<1>1. 1 \in DOMAIN handlers
  BY LenProperties, EmptySeq DEF BudgetShape
<1>2. PICK s, n : s = handlers[1].stage /\ n = handlers[1].spent
  OBVIOUS
<1>3. s \in Stages \ Finished /\ n \in Nat /\ n <= Limit(s)
  BY <1>1, <1>2, HandlerShape DEF Apart
<1>4. /\ Limit(s) \in Nat /\ Before(s) \in Nat
      /\ Before(s) + Limit(s) <= KnowledgeBudget + LLMBudget + OwnWork
      /\ KnowledgeBudget + LLMBudget + OwnWork < DispatchTimeout
      /\ KnowledgeBudget + LLMBudget + OwnWork \in Nat /\ DispatchTimeout \in Nat
  BY <1>3, Durations, BudgetAssumption
<1>5. Before(s) + n \in Nat /\ Before(s) + n <= 17
  BY <1>3, <1>4 DEF Brief
<1>. QED  BY <1>1, <1>2, <1>5 DEF Worked

LEMMA WorkedNext ==
  ASSUME NEW s, NEW n, handlers'[1].stage = s, handlers'[1].spent = n
  PROVE  Worked' = Before(s) + n
BY DEF Worked, Before

LEMMA OneToThree ==
  ASSUME BudgetShape, Apart, handlers # << >>
  PROVE  Len(handlers) \in 1..3
<1>1. PICK n : n = Len(handlers)
  OBVIOUS
<1>2. handlers \in Seq(Handlers)
  BY DEF BudgetShape
<1>3. n \in Nat /\ n # 0
  BY <1>1, <1>2, LenProperties, EmptySeq
<1>4. n <= 3
  BY <1>1 DEF Apart
<1>5. n \in 1..3
  BY <1>3, <1>4
<1>. QED  BY <1>1, <1>5, Zenon

\* A marker is never taken back.
LEMMA MarkedStays ==
  ASSUME BudgetShape, Marked, [BudgetNext]_bvars
  PROVE  Marked'
<1>1. PICK h \in DOMAIN handlers : handlers[h].stage = "done"
  BY DEF Marked
<1>2. h \in DOMAIN handlers' /\ handlers'[h].stage = "done"
  <2>1. CASE \E w \in Workers : Dispatch(w)
    BY <1>1, <2>1, DispatchShape
  <2>2. CASE \E g \in DOMAIN handlers : Advance(g)
    BY <1>1, <2>2, AdvanceShape DEF Finished
  <2>3. CASE Tick
    BY <1>1, <2>3, TickShape
  <2>4. CASE UNCHANGED handlers
    BY <1>1, <2>4
  <2>. QED  BY <2>1, <2>2, <2>3, <2>4 DEF BudgetNext, bvars, Delivered, HangUp, Reap
<1>. QED  BY <1>2 DEF Marked

-----------------------------------------------------------------------------
(* One lemma for each action: it keeps the handlers apart until one commits. *)

LEMMA DispatchApart ==
  ASSUME OneWorker, Brief, ApartInv, ~Marked, NEW w \in Workers, Dispatch(w)
  PROVE  Apart'
<1> DEFINE n == Len(handlers)
<1>1. /\ DOMAIN handlers = 1..n /\ n \in Nat
      /\ Len(handlers') = n + 1
      /\ DOMAIN handlers' = DOMAIN handlers \cup {n + 1}
      /\ \A h \in DOMAIN handlers : handlers'[h] = handlers[h]
      /\ handlers'[n + 1] = [stage |-> "knowledge", spent |-> 0]
      /\ serving'[w] = n + 1 /\ waited'[w] = 0
  BY DispatchShape DEF ApartInv
<1>2. /\ serving[w] = Idle /\ due = 0 /\ status' = "processing" /\ age' = 0
      /\ attempts' = attempts /\ httpx' = httpx
  BY DEF Dispatch
<1>3. \A v \in Workers : v = w
  BY DEF OneWorker
<1>4. Apart /\ BudgetShape /\ httpx \in HttpxReads
  BY DEF ApartInv
<1>5. n = 0 => handlers = << >>
  BY <1>4, EmptySeq DEF BudgetShape
<1>6. n > 0 => /\ handlers # << >> /\ Worked \in Nat /\ Worked <= 17
               /\ handlers'[1] = handlers[1] /\ Worked' = Worked
  <2>1. n > 0 => handlers # << >>
    BY <1>1, EmptySeq
  <2>2. n > 0 => handlers'[1] = handlers[1]
    BY <1>1
  <2>. QED  BY <1>4, <2>1, <2>2, WorkedBounded DEF Worked
<1>7. n = 0 => Worked' = 0
  BY <1>1 DEF Worked, Before
<1>8. Limit("knowledge") \in Nat
  BY Durations DEF Stages, Finished
<1>9. \A h \in DOMAIN handlers' :
        handlers'[h].stage \notin Finished /\ handlers'[h].spent <= Limit(handlers'[h].stage)
  BY <1>1, <1>4, <1>8 DEF Apart, Finished
<1>10. Patience \in Nat /\ Patience' = Patience
  BY <1>2, <1>4, PatiencePositive DEF Patience
<1>11. n \in 0..3
  BY <1>1, <1>4 DEF Apart
<1>12. CASE Patience < 6
  <2>1. Hasty(w)
    BY <1>4, <1>12 DEF Apart
  <2>2. attempts = n /\ (n > 0 => Worked >= Start(n + 1) - due)
    BY <1>2, <1>6, <2>1 DEF Hasty
  <2>3. n \in 0..2
    BY <1>2, <1>6, <1>11, <2>2, Pauses
  <2>4. Worked' >= Start(n + 1) + 0
    <3>1. CASE n = 0
      BY <1>7, <3>1, Pauses
    <3>2. CASE n = 1
      BY <1>2, <1>6, <2>2, <3>2, Pauses
    <3>3. CASE n = 2
      BY <1>2, <1>6, <2>2, <3>3, Pauses
    <3>. QED  BY <2>3, <3>1, <3>2, <3>3
  <2>5. Hasty(w)'
    <3>1. serving'[w] # Idle
      BY <1>1, BudgetAssumption
    <3>2. /\ attempts' = Len(handlers') - 1
          /\ age' <= waited'[w] /\ waited'[w] <= Patience'
          /\ Worked' >= Start(Len(handlers')) + waited'[w]
      BY <1>1, <1>2, <1>10, <2>2, <2>4
    <3>. QED  BY <1>2, <3>1, <3>2 DEF Hasty, Start
  <2>. QED  BY <1>1, <1>3, <1>9, <1>10, <1>12, <2>3, <2>5 DEF Apart
<1>13. CASE ~(Patience < 6)
  <2>1. Steady(w)
    BY <1>4, <1>13 DEF Apart
  <2>2. n > 0 => Worked >= 6 * n
    BY <1>2, <1>6, <2>1 DEF Steady
  <2>3. n \in 0..2
    <3>1. CASE n = 3
      <4>1. Worked >= 18
        BY <2>2, <3>1
      <4>. QED  BY <1>6, <3>1, <4>1
    <3>. QED  BY <1>11, <3>1
  <2>4. Worked' >= 6 * n
    BY <1>6, <1>7, <2>2, <2>3
  <2>5. Steady(w)'
    <3>1. serving'[w] # Idle
      BY <1>1, BudgetAssumption
    <3>. QED  BY <1>1, <2>4, <3>1 DEF Steady
  <2>. QED  BY <1>1, <1>3, <1>9, <1>10, <1>13, <2>3, <2>5 DEF Apart
<1>. QED  BY <1>12, <1>13

LEMMA HangUpApart ==
  ASSUME OneWorker, Brief, ApartInv, ~Marked, NEW w \in Workers, HangUp(w)
  PROVE  Apart'
<1> DEFINE n == Len(handlers)
<1>1. Apart /\ BudgetShape /\ httpx \in HttpxReads
  BY DEF ApartInv
<1>2. /\ serving[w] # Idle /\ serving[w] \in DOMAIN handlers /\ waited[w] = Patience
      /\ serving'[w] = Idle /\ waited[w] \in Nat
      /\ UNCHANGED <<httpx, handlers>>
  BY <1>1 DEF HangUp, StopWaiting, BudgetShape
<1>3. handlers # << >> /\ n \in 1..3
  BY <1>1, <1>2, OneToThree
<1>4. Worked \in Nat /\ Worked' = Worked
  BY <1>1, <1>2, <1>3, WorkedBounded DEF Worked
<1>5. \A v \in Workers : v = w
  BY DEF OneWorker
<1>6. Patience \in Nat \ {0} /\ Patience' = Patience
  BY <1>1, <1>2, PatiencePositive DEF Patience
<1>7. CASE Patience < 6
  <2>1. Hasty(w)
    BY <1>1, <1>7 DEF Apart
  <2>2. /\ status = "processing" /\ attempts = n - 1
        /\ Worked >= Start(n) + Patience
    BY <1>2, <2>1 DEF Hasty
  <2>3. attempts' = n /\ status' = "pending" /\ due' = RetryDelay(n + 1)
    BY <1>3, <2>2 DEF HangUp, Fail, MaxAttempts
  <2>4. Worked >= Start(n + 1) - RetryDelay(n + 1)
    <3>1. CASE n = 1
      BY <1>4, <1>6, <2>2, <3>1, Pauses
    <3>2. CASE n = 2
      BY <1>4, <1>6, <2>2, <3>2, Pauses
    <3>3. CASE n = 3
      BY <1>4, <1>6, <2>2, <3>3, Pauses
    <3>. QED  BY <1>3, <3>1, <3>2, <3>3
  <2>5. Hasty(w)'
    BY <1>2, <1>4, <2>3, <2>4 DEF Hasty, Start
  <2>. QED  BY <1>1, <1>2, <1>5, <1>6, <1>7, <2>5 DEF Apart
<1>8. CASE ~(Patience < 6)
  <2>1. Steady(w)
    BY <1>1, <1>8 DEF Apart
  <2>2. Worked >= 6 * (n - 1) + Patience
    BY <1>2, <2>1 DEF Steady
  <2>3. Worked >= 6 * n
    BY <1>3, <1>4, <1>6, <1>8, <2>2
  <2>4. Steady(w)'
    BY <1>2, <1>4, <2>3 DEF Steady
  <2>. QED  BY <1>1, <1>2, <1>5, <1>6, <1>8, <2>4 DEF Apart
<1>. QED  BY <1>7, <1>8

\* A handler that goes on before its budget is used up has less left, not more.
LEMMA AdvanceApart ==
  ASSUME Brief, ApartInv, ~Marked, ~Marked', NEW h \in DOMAIN handlers, Advance(h)
  PROVE  Apart'
<1>1. Apart /\ BudgetShape /\ httpx \in HttpxReads
  BY DEF ApartInv
<1>2. PICK s, n : s = handlers[h].stage /\ n = handlers[h].spent
  OBVIOUS
<1>3. /\ DOMAIN handlers' = DOMAIN handlers /\ Len(handlers') = Len(handlers)
      /\ s \in Stages \ Finished /\ n \in Nat
      /\ After(s) \in Stages \ {"absorbed"}
      /\ handlers'[h] = [stage |-> After(s), spent |-> 0]
      /\ \A g \in DOMAIN handlers \ {h} : handlers'[g] = handlers[g]
      /\ serving' = serving /\ waited' = waited
  BY <1>1, <1>2, AdvanceShape
<1>4. UNCHANGED <<httpx, status, attempts, due, age>>
  BY DEF Advance, row
<1>5. After(s) \in Stages \ Finished
  BY <1>3 DEF Marked, Finished
<1>6. /\ Limit(s) \in Nat /\ Before(s) \in Nat /\ Limit(After(s)) \in Nat
      /\ Before(After(s)) = Before(s) + Limit(s) /\ n <= Limit(s)
  BY <1>1, <1>2, <1>3, <1>5, Durations DEF Apart
<1>7. \A g \in DOMAIN handlers' :
        handlers'[g].stage \notin Finished /\ handlers'[g].spent <= Limit(handlers'[g].stage)
  BY <1>1, <1>3, <1>5, <1>6 DEF Apart
<1>8. handlers # << >> /\ handlers' # << >>
  BY <1>1, <1>3, LenProperties, EmptySeq DEF BudgetShape
<1>9. Worked \in Nat /\ Worked' \in Nat /\ Worked' >= Worked
  <2>1. Worked \in Nat /\ 1 \in DOMAIN handlers
    BY <1>1, <1>8, WorkedBounded
  <2>2. CASE h = 1
    <3>1. Worked = Before(s) + n
      BY <1>2, <2>2 DEF Worked
    <3>2. handlers'[1].stage = After(s) /\ handlers'[1].spent = 0
      BY <1>3, <2>2
    <3>3. PICK t : t = After(s)
      OBVIOUS
    <3>4. Worked' = Before(t) + 0
      BY <3>2, <3>3, WorkedNext
    <3>. QED  BY <1>3, <1>6, <3>1, <3>3, <3>4
  <2>3. CASE h # 1
    BY <1>3, <2>1, <2>3 DEF Worked
  <2>. QED  BY <2>2, <2>3
<1>10. Len(handlers) \in 1..3
  BY <1>1, <1>8, OneToThree
<1>11. Patience' = Patience
  BY <1>4 DEF Patience
<1>12. ASSUME NEW w \in Workers PROVE IF Patience < 6 THEN Hasty(w)' ELSE Steady(w)'
  <2>1. waited[w] \in Nat
    BY <1>1 DEF BudgetShape
  <2>2. CASE Patience < 6
    <3>1. Hasty(w)
      BY <1>1, <2>2 DEF Apart
    <3>2. CASE serving[w] = Idle
      <4>1. Worked >= Start(Len(handlers) + 1) - due /\ due \in Nat
        BY <1>8, <3>1, <3>2 DEF Hasty, ApartInv
      <4>2. Start(Len(handlers) + 1) \in Nat
        BY <1>10, StartNat
      <4>3. Worked' >= Start(Len(handlers) + 1) - due
        BY <1>9, <4>1, <4>2
      <4>. QED  BY <1>3, <1>4, <2>2, <3>1, <3>2, <4>3 DEF Hasty, Start
    <3>3. CASE serving[w] # Idle
      <4>1. Worked >= Start(Len(handlers)) + waited[w]
        BY <3>1, <3>3 DEF Hasty
      <4>2. Start(Len(handlers)) \in Nat
        BY <1>10, StartNat
      <4>3. Worked' >= Start(Len(handlers)) + waited[w]
        BY <1>9, <2>1, <4>1, <4>2
      <4>. QED  BY <1>3, <1>4, <1>11, <2>2, <3>1, <3>3, <4>3 DEF Hasty, Start
    <3>. QED  BY <3>2, <3>3
  <2>3. CASE ~(Patience < 6)
    <3>1. Steady(w)
      BY <1>1, <2>3 DEF Apart
    <3>. QED  BY <1>3, <1>8, <1>9, <1>10, <2>1, <2>3, <3>1 DEF Steady
  <2>. QED  BY <2>2, <2>3
<1>. QED  BY <1>1, <1>3, <1>7, <1>11, <1>12 DEF Apart

LEMMA ReapApart ==
  ASSUME Brief, ApartInv, ~Marked, Reap
  PROVE  Apart'
<1>1. Apart /\ BudgetShape /\ httpx \in HttpxReads /\ age \in Nat
  BY DEF ApartInv
<1>2. /\ UNCHANGED <<httpx, handlers, serving, waited>>
      /\ status = "processing" /\ age >= 6
  BY BudgetAssumption DEF Reap, Brief
<1>3. Patience \in Nat /\ Patience' = Patience
  BY <1>1, <1>2, PatiencePositive DEF Patience
<1>4. ASSUME NEW w \in Workers PROVE ~(Patience < 6) /\ Steady(w)'
  <2>1. Patience < 6 => ~Hasty(w)
    <3>1. waited[w] \in Nat
      BY <1>1 DEF BudgetShape
    <3>. QED  BY <1>1, <1>2, <1>3, <3>1 DEF Hasty
  <2>2. ~(Patience < 6) /\ Steady(w)
    BY <1>1, <2>1 DEF Apart
  <2>. QED  BY <1>2, <2>2 DEF Steady, Worked
<1>. QED  BY <1>1, <1>2, <1>3, <1>4 DEF Apart

LEMMA TickApart ==
  ASSUME Brief, ApartInv, ~Marked, Tick
  PROVE  Apart'
<1>1. /\ Apart /\ BudgetShape /\ httpx \in HttpxReads
      /\ age \in Nat /\ due \in Nat /\ attempts \in Nat
  BY DEF ApartInv
<1>2. /\ DOMAIN handlers' = DOMAIN handlers /\ Len(handlers') = Len(handlers)
      /\ \A h \in DOMAIN handlers :
           /\ handlers'[h].stage = handlers[h].stage
           /\ handlers[h].stage \in Stages \ Finished
           /\ handlers'[h].spent = handlers[h].spent + 1
           /\ handlers[h].spent \in Nat
           /\ handlers[h].spent < Limit(handlers[h].stage)
  BY <1>1, TickShape DEF Apart
<1>3. UNCHANGED <<httpx, status, attempts, serving>> /\ due' = Later(due)
  BY DEF Tick
<1>4. \A h \in DOMAIN handlers' :
        handlers'[h].stage \notin Finished /\ handlers'[h].spent <= Limit(handlers'[h].stage)
  <2>1. \A s \in Stages \ Finished : Limit(s) \in Nat
    BY Durations
  <2>. QED  BY <1>2, <2>1
<1>5. handlers # << >> => Worked \in Nat /\ Worked' = Worked + 1 /\ Len(handlers) \in 1..3
  <2>1. SUFFICES ASSUME handlers # << >>
                 PROVE  Worked \in Nat /\ Worked' = Worked + 1 /\ Len(handlers) \in 1..3
    OBVIOUS
  <2>2. 1 \in DOMAIN handlers /\ Len(handlers) \in 1..3 /\ Worked \in Nat
    BY <1>1, <2>1, WorkedBounded, OneToThree
  <2>3. PICK s, n : s = handlers[1].stage /\ n = handlers[1].spent
    OBVIOUS
  <2>4. handlers'[1].stage = s /\ handlers'[1].spent = n + 1 /\ n \in Nat /\ s \in Stages \ Finished
    BY <1>2, <2>2, <2>3
  <2>5. Before(s) \in Nat /\ Worked = Before(s) + n
    BY <2>3, <2>4, Durations DEF Worked
  <2>6. Worked' = Before(s) + (n + 1)
    BY <2>4, WorkedNext
  <2>. QED  BY <2>2, <2>4, <2>5, <2>6
<1>6. (handlers' = << >> <=> handlers = << >>)
  BY <1>1, <1>2, TickShape, EmptySeq DEF BudgetShape
<1>7. Patience \in Nat /\ Patience' = Patience
  BY <1>1, <1>3, PatiencePositive DEF Patience
<1>8. ASSUME NEW w \in Workers PROVE IF Patience < 6 THEN Hasty(w)' ELSE Steady(w)'
  <2>1. /\ waited[w] \in Nat /\ serving[w] \in DOMAIN handlers \cup {Idle}
        /\ serving[w] # Idle => waited[w] < Patience /\ waited'[w] = waited[w] + 1
    BY <1>1 DEF BudgetShape, Tick
  <2>2. serving[w] # Idle => handlers # << >>
    BY <1>1, <2>1, EmptySeq DEF BudgetShape
  <2>3. CASE Patience < 6
    <3>1. Hasty(w)
      BY <1>1, <2>3 DEF Apart
    <3>2. CASE serving[w] = Idle
      <4>1. handlers # << >> => Worked' >= Start(Len(handlers) + 1) - due'
        <5>1. due' \in Nat /\ due' >= due - 1
          BY <1>1, <1>3 DEF Later
        <5>2. SUFFICES ASSUME handlers # << >>
                       PROVE  Worked' >= Start(Len(handlers) + 1) - due'
          OBVIOUS
        <5>3. Start(Len(handlers) + 1) \in Nat
          BY <1>5, <5>2, StartNat
        <5>4. Worked >= Start(Len(handlers) + 1) - due
          BY <3>1, <3>2, <5>2 DEF Hasty
        <5>. QED  BY <1>1, <1>5, <5>1, <5>2, <5>3, <5>4
      <4>. QED  BY <1>2, <1>3, <1>6, <2>3, <3>1, <3>2, <4>1 DEF Hasty, Start
    <3>3. CASE serving[w] # Idle
      <4>1. status = "processing" /\ age <= waited[w] /\ attempts = Len(handlers) - 1
            /\ Worked >= Start(Len(handlers)) + waited[w]
        BY <3>1, <3>3 DEF Hasty
      <4>2. age' <= waited[w] + 1
        <5>1. age' = AtMost(age + 1, ReaperAge)
          BY <4>1 DEF Tick
        <5>2. PICK m : m = waited[w]
          OBVIOUS
        <5>3. age \in Nat /\ m \in Nat /\ age <= m /\ ReaperAge \in Nat
          BY <1>1, <2>1, <4>1, <5>2, BudgetAssumption
        <5>4. age' <= m + 1
          BY <5>1, <5>3 DEF AtMost
        <5>. QED  BY <5>2, <5>4
      <4>3. Start(Len(handlers)) \in Nat
        BY <1>5, <2>2, <3>3, StartNat
      <4>4. Worked' >= Start(Len(handlers)) + (waited[w] + 1)
        BY <1>5, <2>1, <2>2, <3>3, <4>1, <4>3
      <4>5. waited'[w] <= Patience'
        BY <1>7, <2>1, <3>3
      <4>. QED  BY <1>2, <1>3, <2>1, <2>3, <3>3, <4>1, <4>2, <4>4, <4>5 DEF Hasty, Start
    <3>. QED  BY <3>2, <3>3
  <2>4. CASE ~(Patience < 6)
    <3>1. Steady(w)
      BY <1>1, <2>4 DEF Apart
    <3>2. CASE serving[w] = Idle
      BY <1>2, <1>3, <1>5, <1>6, <2>4, <3>1, <3>2 DEF Steady
    <3>3. CASE serving[w] # Idle
      BY <1>2, <1>3, <1>5, <2>1, <2>2, <2>4, <3>1, <3>3 DEF Steady
    <3>. QED  BY <3>2, <3>3
  <2>. QED  BY <2>3, <2>4
<1>. QED  BY <1>1, <1>2, <1>4, <1>7, <1>8 DEF Apart

LEMMA FewStep ==
  ASSUME ApartInv, ~Marked' => Apart', [BudgetNext]_bvars
  PROVE  Few'
<1>1. BudgetShape /\ Few
  BY DEF ApartInv
<1>2. CASE \E w \in Workers : Dispatch(w)
  <2>1. PICK w \in Workers : Dispatch(w)
    BY <1>2
  <2>2. CASE Marked
    BY <1>1, <2>1, <2>2, DispatchShape DEF Few
  <2>3. CASE ~Marked
    <3>1. /\ DOMAIN handlers' = DOMAIN handlers \cup {Len(handlers) + 1}
          /\ DOMAIN handlers = 1..Len(handlers) /\ Len(handlers) \in Nat
          /\ Len(handlers') = Len(handlers) + 1
          /\ handlers'[Len(handlers) + 1] = [stage |-> "knowledge", spent |-> 0]
          /\ \A h \in DOMAIN handlers : handlers'[h] = handlers[h]
      BY <1>1, <2>1, <2>3, DispatchShape
    <3>2. ~Marked'
      BY <2>3, <3>1 DEF Marked
    <3>3. Len(handlers) + 1 <= 3
      BY <3>1, <3>2 DEF Apart
    <3>. QED  BY <3>1, <3>3 DEF Few
  <2>. QED  BY <2>2, <2>3
<1>3. CASE \E h \in DOMAIN handlers : Advance(h)
  BY <1>1, <1>3, AdvanceShape DEF Few, Finished
<1>4. CASE Tick
  BY <1>1, <1>4, TickShape DEF Few
<1>5. CASE UNCHANGED handlers
  BY <1>1, <1>5 DEF Few
<1>. QED
  BY <1>2, <1>3, <1>4, <1>5 DEF BudgetNext, bvars, Delivered, HangUp, Reap

LEMMA ApartStep ==
  ASSUME OneWorker, Brief, ApartInv, [BudgetNext]_bvars
  PROVE  ApartInv'
<1>1. BudgetShape /\ httpx \in HttpxReads /\ attempts \in Nat /\ due \in Nat /\ age \in Nat
  BY DEF ApartInv
<1>2. BudgetShape'
  <2>1. CASE \E w \in Workers : Dispatch(w)
    <3>1. PICK w \in Workers : Dispatch(w)
      BY <2>1
    <3>. QED  BY <1>1, <3>1, DispatchShape
  <2>2. CASE \E w \in Workers : Delivered(w) \/ HangUp(w)
    <3>1. PICK w \in Workers : StopWaiting(w) /\ handlers' = handlers
      BY <2>2 DEF Delivered, HangUp
    <3>2. /\ serving' \in [Workers -> DOMAIN handlers \cup {Idle}]
          /\ waited' \in [Workers -> Nat]
      BY <1>1, <3>1 DEF StopWaiting, BudgetShape
    <3>. QED  BY <1>1, <3>1, <3>2 DEF BudgetShape
  <2>3. CASE \E h \in DOMAIN handlers : Advance(h)
    BY <1>1, <2>3, AdvanceShape
  <2>4. CASE Tick
    BY <1>1, <2>4, TickShape
  <2>5. CASE Reap \/ UNCHANGED bvars
    BY <1>1, <2>5 DEF Reap, bvars, BudgetShape
  <2>. QED  BY <2>1, <2>2, <2>3, <2>4, <2>5 DEF BudgetNext
<1>3. httpx' \in HttpxReads
  BY <1>1, HttpxConstant
<1>4. attempts' \in Nat /\ due' \in Nat /\ age' \in Nat
  <2>1. \A d \in BOOLEAN : Fail(d) => attempts' \in Nat /\ due' \in Nat /\ age' \in Nat
    <3>1. ASSUME attempts + 1 < MaxAttempts PROVE RetryDelay(attempts + 2) \in Nat
      <4>1. attempts + 2 \in 2..5
        BY <1>1, <3>1 DEF MaxAttempts
      <4>. QED  BY <4>1 DEF RetryDelay
    <3>. QED  BY <1>1, <3>1 DEF Fail, MaxAttempts
  <2>2. CASE \E w \in Workers : HangUp(w)
    BY <1>1, <2>1, <2>2 DEF HangUp, row
  <2>3. CASE Reap
    BY <2>1, <2>3 DEF Reap
  <2>4. CASE Tick
    BY <1>1, <2>4, BudgetAssumption DEF Tick, Later, AtMost
  <2>5. CASE \E w \in Workers : Dispatch(w) \/ Delivered(w)
    BY <1>1, <2>5 DEF Dispatch, Delivered
  <2>6. CASE (\E h \in DOMAIN handlers : Advance(h)) \/ UNCHANGED bvars
    BY <1>1, <2>6 DEF Advance, bvars, row
  <2>. QED  BY <2>2, <2>3, <2>4, <2>5, <2>6 DEF BudgetNext
<1>5. ASSUME ~Marked' PROVE Apart'
  <2>1. ~Marked
    BY <1>1, <1>5, MarkedStays
  <2>2. CASE \E w \in Workers : Dispatch(w)
    BY <2>1, <2>2, DispatchApart
  <2>3. \A w \in Workers : ~Delivered(w)
    BY <1>1, <2>1, BudgetAssumption DEF ApartInv, Apart, Delivered, BudgetShape
  <2>4. CASE \E w \in Workers : HangUp(w)
    BY <2>1, <2>4, HangUpApart
  <2>5. CASE \E h \in DOMAIN handlers : Advance(h)
    BY <1>5, <2>1, <2>5, AdvanceApart
  <2>6. CASE Reap
    BY <2>1, <2>6, ReapApart
  <2>7. CASE Tick
    BY <2>1, <2>7, TickApart
  <2>8. CASE UNCHANGED bvars
    BY <2>1, <2>8 DEF ApartInv, Apart, Hasty, Steady, Worked, Patience, Start, bvars, row
  <2>. QED  BY <2>2, <2>3, <2>4, <2>5, <2>6, <2>7, <2>8 DEF BudgetNext
<1>6. Few'
  BY <1>5, FewStep
<1>. QED  BY <1>2, <1>3, <1>4, <1>5, <1>6 DEF ApartInv

\* outbox.py's growing retry delays bound what an event can cost, however early httpx's own
\* read timeout makes its worker hang up, and although the reaper may reset its row: three
\* LLM calls, for the code's dispatch timeout of 90 s or any shorter one.
THEOREM ThreeCallsAtMost ==
  ASSUME OneWorker, Brief
  PROVE  BudgetSpec => []AtMostThreeCalls
<1>1. BudgetInit => ApartInv
  <2> SUFFICES ASSUME BudgetInit PROVE ApartInv
    OBVIOUS
  <2>1. BudgetShape /\ DOMAIN handlers = {} /\ Len(handlers) = 0 /\ handlers = << >>
    BY BudgetInitInv, EmptySeq DEF BudgetInit, BudgetInv
  <2>2. httpx \in HttpxReads /\ attempts = 0 /\ due = 0 /\ age = 0
    BY DEF BudgetInit
  <2>3. \A w \in Workers : Hasty(w) /\ Steady(w)
    BY <2>1 DEF BudgetInit, Hasty, Steady
  <2>. QED  BY <2>1, <2>2, <2>3 DEF ApartInv, Apart, Few
<1>2. ApartInv => AtMostThreeCalls
  <2> SUFFICES ASSUME ApartInv PROVE AtMostThreeCalls
    OBVIOUS
  <2>1. Calls \subseteq 1..3
    <3>1. DOMAIN handlers = 1..Len(handlers) /\ Len(handlers) \in Nat
      BY LenProperties DEF ApartInv, BudgetShape
    <3>2. \A h \in Calls : ~(h > 3)
      BY DEF ApartInv, Few, Calls
    <3>. QED  BY <3>1, <3>2 DEF Calls
  <2>2. IsFiniteSet(1..3) /\ Cardinality(1..3) = 3
    <3>1. 1 \in Int /\ 3 \in Int /\ ~(1 > 3) /\ 3 - 1 + 1 = 3
      OBVIOUS
    <3>. QED  BY <3>1, FS_Interval
  <2>. QED  BY <2>1, <2>2, FS_Subset DEF AtMostThreeCalls
<1>. QED  BY <1>1, <1>2, ApartStep, PTL DEF BudgetSpec
=============================================================================
