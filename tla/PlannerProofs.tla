--------------------------- MODULE PlannerProofs ---------------------------
(***************************************************************************)
(* Theorems about Planner, for any events, incidents and number of         *)
(* overlapping requests.                                                   *)
(***************************************************************************)
EXTENDS Planner, FiniteSetTheorems, TLAPS

-----------------------------------------------------------------------------
(* The inductive invariant.                                                *)

\* What a request's program counter says of its event and its transaction.
Shape ==
  \A r \in Requests :
    /\ pc[r] = "idle" <=> ev[r] = None
    /\ pc[r] \notin {"mark", "commit"} => wrote[r] = {}
    /\ pc[r] = "mark" => "marker" \notin wrote[r]
    /\ pc[r] = "commit" => "marker" \in wrote[r]
    /\ pc[r] \in {"check", "insert", "recheck", "remark"} => ev[r] \notin Foreign
    /\ "plan" \in wrote[r] => ev[r] \notin Foreign
    /\ pc[r] \in {"insert", "mark", "recheck", "remark", "commit"} => ev[r] \notin Orphans

\* A request gives up on writing a plan only when there is one.
Absorbs(r) ==
  \/ pc[r] \in {"recheck", "remark"}
  \/ pc[r] \in {"mark", "commit"} /\ "plan" \notin wrote[r] /\ ev[r] \notin Foreign

Progress ==
  \A r \in Requests :
    /\ Absorbs(r) => plans[About(r)] > 0
    /\ pc[r] = "reply" => ev[r] \in markers

\* Two open transactions never hold the same key, nor one that is committed.
Locks ==
  /\ \A r \in Requests :
       /\ "plan" \in wrote[r] => plans[About(r)] = 0
       /\ "marker" \in wrote[r] => ev[r] \notin markers
  /\ \A r, s \in Requests :
       /\ "plan" \in wrote[r] /\ "plan" \in wrote[s] /\ About(r) = About(s) => r = s
       /\ "marker" \in wrote[r] /\ "marker" \in wrote[s] /\ ev[r] = ev[s] => r = s

Audited ==
  /\ \A e \in Events : audit[e] # "none" <=> e \in markers \ Foreign
  /\ \A e \in Events : audit[e] = "created" => plans[incidentOf[e]] = 1
  /\ \A e, f \in Events :
       audit[e] = "created" /\ audit[f] = "created" /\ incidentOf[e] = incidentOf[f] => e = f
  /\ \A i \in Incidents :
       plans[i] = 1 => \E e \in Events : incidentOf[e] = i /\ audit[e] = "created"

Tables == OnePlan /\ MarkedIsPlanned /\ AnsweredIsMarked

IInv == TypeOK /\ Shape /\ Progress /\ Locks /\ Audited /\ Tables

-----------------------------------------------------------------------------
LEMMA TypeStep == TypeOK /\ Shape /\ [Next]_vars => TypeOK'
<1> SUFFICES ASSUME TypeOK, Shape, [Next]_vars PROVE TypeOK'
  OBVIOUS
<1> USE DEF TypeOK, dbVars, reqVars, Goto, End, Steps
<1>1. ASSUME NEW r \in Requests, NEW e \in Events, Receive(r, e) PROVE TypeOK'
  BY <1>1 DEF Receive
<1>2. ASSUME NEW r \in Requests, Gate(r) PROVE TypeOK'
  BY <1>2 DEF Gate
<1>3. ASSUME NEW r \in Requests, Check(r) PROVE TypeOK'
  BY <1>3 DEF Check
<1>4. ASSUME NEW r \in Requests, Insert(r) PROVE TypeOK'
  BY <1>4 DEF Insert
<1>5. ASSUME NEW r \in Requests, Mark(r) PROVE TypeOK'
  BY <1>5 DEF Mark
<1>6. ASSUME NEW r \in Requests, Recheck(r) PROVE TypeOK'
  BY <1>6 DEF Recheck
<1>7. ASSUME NEW r \in Requests, Remark(r) PROVE TypeOK'
  BY <1>7 DEF Remark
<1>8. ASSUME NEW r \in Requests, Commit(r) PROVE TypeOK'
  <2>1. ev[r] \in Events
    BY <1>8 DEF Commit, Shape
  <2>. QED  BY <1>8, <2>1, PlannerAssumption DEF Commit, About
<1>9. ASSUME NEW r \in Requests, Reply(r) PROVE TypeOK'
  <2>1. ev[r] \in Events
    BY <1>9 DEF Reply, Shape
  <2>. QED  BY <1>9, <2>1 DEF Reply
<1>10. ASSUME NEW r \in Requests, Abort(r) PROVE TypeOK'
  BY <1>10 DEF Abort
<1>11. CASE UNCHANGED vars
  BY <1>11 DEF vars
<1>. QED
  BY <1>1, <1>2, <1>3, <1>4, <1>5, <1>6, <1>7, <1>8, <1>9, <1>10, <1>11
  DEF Next, Handle

\* A request at work has an event, and that event an incident.
LEMMA Busy ==
  ASSUME TypeOK, Shape, NEW r \in Requests, pc[r] # "idle"
  PROVE  ev[r] \in Events /\ About(r) \in Incidents
BY PlannerAssumption DEF TypeOK, Shape, About

LEMMA InitInv == Init => IInv
<1> SUFFICES ASSUME Init PROVE IInv
  OBVIOUS
<1>1. TypeOK /\ Shape /\ Progress /\ Locks
  BY DEF Init, TypeOK, Shape, Progress, Absorbs, Locks, Steps
<1>2. Audited /\ Tables
  BY DEF Init, Audited, Tables, OnePlan, MarkedIsPlanned, AnsweredIsMarked
<1>. QED  BY <1>1, <1>2 DEF IInv

\* A step that changes one request, and neither the tables nor the answers.
LEMMA RequestStep ==
  ASSUME IInv, NEW r \in Requests, UNCHANGED <<dbVars, answered>>,
         TypeOK', Shape', \A s \in Requests \ {r} :
           pc'[s] = pc[s] /\ ev'[s] = ev[s] /\ wrote'[s] = wrote[s],
         Absorbs(r)' => plans[About(r)'] > 0,
         pc'[r] = "reply" => ev'[r] \in markers,
         "plan" \in wrote'[r] => plans[About(r)'] = 0 /\ ~Waits(r, "plan")',
         "marker" \in wrote'[r] => ev'[r] \notin markers /\ ~Waits(r, "marker")'
  PROVE  IInv'
<1>1. Audited' /\ Tables'
  BY DEF IInv, Audited, Tables, OnePlan, MarkedIsPlanned, AnsweredIsMarked, dbVars
<1>2. Progress'
  BY DEF IInv, Progress, Absorbs, About, dbVars
<1>3. Locks'
  BY DEF IInv, Locks, Waits, About, dbVars
<1>. QED  BY <1>1, <1>2, <1>3 DEF IInv

\* The two steps that do change the tables or the answers.
LEMMA CommitStep == ASSUME IInv, NEW r \in Requests, Commit(r), TypeOK' PROVE IInv'
<1>1. /\ ev[r] \in Events /\ About(r) \in Incidents
      /\ pc[r] = "commit" /\ "marker" \in wrote[r]
      /\ ev[r] \notin markers /\ audit[ev[r]] = "none"
  BY Busy DEF Commit, IInv, Shape, Locks, Audited
<1>2. /\ pc' = [pc EXCEPT ![r] = "reply"]
      /\ wrote' = [wrote EXCEPT ![r] = {}]
      /\ markers' = markers \cup {ev[r]}
      /\ UNCHANGED <<ev, answered>>
  BY DEF Commit, Goto
<1>3. Shape'
  BY <1>1, <1>2 DEF IInv, TypeOK, Shape
<1>4. CASE "plan" \in wrote[r]
  <2>1. /\ plans' = [plans EXCEPT ![About(r)] = 1]
        /\ requested' = [requested EXCEPT ![About(r)] = 1]
        /\ audit' = [audit EXCEPT ![ev[r]] = "created"]
        /\ plans[About(r)] = 0
        /\ ev[r] \notin Foreign
    BY <1>1, <1>4 DEF Commit, IInv, TypeOK, Locks, Shape, Tables, OnePlan
  <2>2. \A e \in Events : incidentOf[e] = About(r) => audit[e] # "created"
    BY <2>1 DEF IInv, Audited
  <2>3. Progress'
    BY <1>1, <1>2, <2>1 DEF IInv, TypeOK, Progress, Absorbs, About
  <2>4. Locks'
    BY <1>1, <1>2, <1>4, <2>1, Busy DEF IInv, TypeOK, Locks, About, Shape
  <2>5. Audited'
    <3>1. \A e \in Events : audit'[e] # "none" <=> e \in markers' \ Foreign
      BY <1>1, <1>2, <2>1 DEF IInv, TypeOK, Audited
    <3>2. \A e \in Events : audit'[e] = "created" => plans'[incidentOf[e]] = 1
      BY <1>1, <2>1, PlannerAssumption DEF IInv, TypeOK, Audited, About
    <3>3. \A e, f \in Events :
            audit'[e] = "created" /\ audit'[f] = "created" /\ incidentOf[e] = incidentOf[f]
              => e = f
      BY <1>1, <2>1, <2>2 DEF IInv, TypeOK, Audited, About
    <3>4. \A i \in Incidents :
            plans'[i] = 1 => \E e \in Events : incidentOf[e] = i /\ audit'[e] = "created"
      BY <1>1, <2>1 DEF IInv, TypeOK, Audited, About
    <3>. QED  BY <3>1, <3>2, <3>3, <3>4 DEF Audited
  <2>6. Tables'
    BY <1>1, <1>2, <2>1, PlannerAssumption
    DEF IInv, TypeOK, Tables, OnePlan, MarkedIsPlanned, AnsweredIsMarked, About
  <2>. QED  BY <1>3, <2>3, <2>4, <2>5, <2>6 DEF IInv
<1>5. CASE "plan" \notin wrote[r]
  <2>1. /\ UNCHANGED <<plans, requested>>
        /\ audit' = IF ev[r] \in Foreign THEN audit
                     ELSE [audit EXCEPT ![ev[r]] = "duplicate"]
    BY <1>5 DEF Commit
  <2>2. ev[r] \notin Foreign => plans[About(r)] > 0
    BY <1>1, <1>5 DEF IInv, Progress, Absorbs
  <2>3. Progress'
    BY <1>1, <1>2, <2>1 DEF IInv, TypeOK, Progress, Absorbs, About
  <2>4. Locks'
    BY <1>1, <1>2, <2>1 DEF IInv, TypeOK, Locks, About
  <2>5. Audited'
    BY <1>1, <1>2, <2>1 DEF IInv, TypeOK, Audited
  <2>6. Tables'
    BY <1>1, <1>2, <2>1, <2>2
    DEF IInv, TypeOK, Tables, OnePlan, MarkedIsPlanned, AnsweredIsMarked, About
  <2>. QED  BY <1>3, <2>3, <2>4, <2>5, <2>6 DEF IInv
<1>. QED  BY <1>4, <1>5

LEMMA ReplyStep == ASSUME IInv, NEW r \in Requests, Reply(r), TypeOK' PROVE IInv'
<1>1. /\ pc' = [pc EXCEPT ![r] = "idle"]
      /\ ev' = [ev EXCEPT ![r] = None]
      /\ wrote' = [wrote EXCEPT ![r] = {}]
      /\ answered' = answered \cup {ev[r]}
      /\ UNCHANGED dbVars
      /\ ev[r] \in markers
  BY DEF Reply, End, Goto, IInv, Progress
<1>2. Shape' /\ Progress'
  BY <1>1 DEF IInv, TypeOK, Shape, Progress, Absorbs, About, dbVars
<1>3. Locks'
  BY <1>1 DEF IInv, TypeOK, Locks, About, dbVars
<1>4. Audited' /\ Tables'
  BY <1>1 DEF IInv, Audited, Tables, OnePlan, MarkedIsPlanned, AnsweredIsMarked, dbVars
<1>. QED  BY <1>2, <1>3, <1>4 DEF IInv

\* Ending a request early releases its keys and changes nothing else.
LEMMA EndStep ==
  ASSUME IInv, NEW r \in Requests, End(r), UNCHANGED <<dbVars, answered>>, TypeOK'
  PROVE  IInv'
<1>1. /\ pc' = [pc EXCEPT ![r] = "idle"]
      /\ ev' = [ev EXCEPT ![r] = None]
      /\ wrote' = [wrote EXCEPT ![r] = {}]
  BY DEF End, Goto
<1>2. Shape'
  BY <1>1 DEF IInv, TypeOK, Shape
<1>3. ~Absorbs(r)'
  BY <1>1 DEF IInv, TypeOK, Absorbs
<1>. QED
  BY <1>1, <1>2, <1>3, RequestStep DEF IInv, TypeOK

LEMMA InvStep == IInv /\ [Next]_vars => IInv'
<1> SUFFICES ASSUME IInv, [Next]_vars PROVE IInv'
  OBVIOUS
<1>0. TypeOK'
  BY TypeStep DEF IInv
<1>1. ASSUME NEW r \in Requests, NEW e \in Events, Receive(r, e) PROVE IInv'
  <2>1. Shape'
    BY <1>1, PlannerAssumption DEF Receive, Goto, IInv, TypeOK, Shape
  <2>2. ~Absorbs(r)' /\ pc'[r] = "gate" /\ wrote'[r] = {}
    BY <1>1 DEF Receive, Goto, IInv, TypeOK, Shape, Absorbs
  <2>. QED
    BY <1>0, <1>1, <2>1, <2>2, RequestStep DEF Receive, Goto, IInv, TypeOK
<1>2. ASSUME NEW r \in Requests, Gate(r) PROVE IInv'
  <2>1. Shape'
    BY <1>2, PlannerAssumption DEF Gate, Goto, IInv, TypeOK, Shape
  <2>2. ~Absorbs(r)' /\ wrote'[r] = {} /\ (pc'[r] = "reply" => ev'[r] \in markers)
    BY <1>2 DEF Gate, Goto, IInv, TypeOK, Shape, Absorbs
  <2>. QED
    BY <1>0, <1>2, <2>1, <2>2, RequestStep DEF Gate, Goto, IInv, TypeOK
<1>3. ASSUME NEW r \in Requests, Check(r) PROVE IInv'
  <2>1. CASE ev[r] \in Orphans
    BY <1>0, <1>3, <2>1, EndStep DEF Check
  <2>2. CASE ev[r] \notin Orphans
    <3>1. Shape'
      BY <1>3, <2>2 DEF Check, Goto, IInv, TypeOK, Shape
    <3>2. /\ Absorbs(r)' => plans[About(r)'] > 0
          /\ wrote'[r] = {} /\ pc'[r] # "reply"
      BY <1>3, <2>2 DEF Check, Goto, IInv, TypeOK, Shape, Absorbs, About
    <3>. QED
      BY <1>0, <1>3, <2>2, <3>1, <3>2, RequestStep DEF Check, Goto, IInv, TypeOK
  <2>. QED  BY <2>1, <2>2
<1>4. ASSUME NEW r \in Requests, Insert(r) PROVE IInv'
  <2>1. Shape'
    BY <1>4 DEF Insert, Goto, IInv, TypeOK, Shape
  <2>2. /\ Absorbs(r)' => plans[About(r)'] > 0
        /\ pc'[r] # "reply" /\ "marker" \notin wrote'[r]
    BY <1>4 DEF Insert, Goto, IInv, TypeOK, Shape, Absorbs, About
  <2>3. "plan" \in wrote'[r] => plans[About(r)'] = 0 /\ ~Waits(r, "plan")'
    <3>1. "plan" \in wrote'[r] => plans[About(r)'] = 0
      BY <1>4, Busy DEF Insert, Goto, IInv, TypeOK, Shape, About
    <3>2. ~Waits(r, "plan")'
      BY <1>4 DEF Insert, Goto, IInv, TypeOK, Waits, About
    <3>. QED  BY <3>1, <3>2
  <2>. QED
    BY <1>0, <1>4, <2>1, <2>2, <2>3, RequestStep DEF Insert, Goto, IInv, TypeOK
<1>5. ASSUME NEW r \in Requests, Mark(r) PROVE IInv'
  <2>1. CASE ev[r] \in markers /\ ev[r] \in Foreign
    BY <1>0, <1>5, <2>1, EndStep DEF Mark
  <2>2. CASE ev[r] \notin markers
    <3>1. Shape'
      BY <1>5, <2>2 DEF Mark, Goto, IInv, TypeOK, Shape
    <3>2. /\ Absorbs(r)' => plans[About(r)'] > 0
          /\ pc'[r] # "reply" /\ ev'[r] \notin markers
      BY <1>5, <2>2 DEF Mark, Goto, IInv, TypeOK, Progress, Absorbs, About
    <3>3. ~Waits(r, "marker")'
      BY <1>5, <2>2 DEF Mark, Goto, IInv, TypeOK, Waits, About
    <3>4. "plan" \in wrote'[r] => plans[About(r)'] = 0 /\ ~Waits(r, "plan")'
      BY <1>5, <2>2 DEF Mark, Goto, IInv, TypeOK, Locks, Waits, About
    <3>. QED
      BY <1>0, <1>5, <2>2, <3>1, <3>2, <3>3, <3>4, RequestStep DEF Mark, Goto, IInv, TypeOK
  <2>3. CASE ev[r] \in markers /\ ev[r] \notin Foreign
    <3>1. Shape'
      BY <1>5, <2>3 DEF Mark, Goto, IInv, TypeOK, Shape
    <3>2. /\ plans[About(r)'] > 0 /\ pc'[r] # "reply" /\ wrote'[r] = {}
      BY <1>5, <2>3 DEF Mark, Goto, IInv, TypeOK, Tables, MarkedIsPlanned, About
    <3>. QED
      BY <1>0, <1>5, <2>3, <3>1, <3>2, RequestStep DEF Mark, Goto, IInv, TypeOK
  <2>. QED  BY <2>1, <2>2, <2>3
<1>6. ASSUME NEW r \in Requests, Recheck(r) PROVE IInv'
  <2>1. Shape'
    BY <1>6 DEF Recheck, Goto, IInv, TypeOK, Shape
  <2>2. /\ plans[About(r)'] > 0 /\ wrote'[r] = {}
        /\ pc'[r] = "reply" => ev'[r] \in markers
    BY <1>6 DEF Recheck, Goto, IInv, TypeOK, Shape, Progress, Absorbs, About
  <2>. QED
    BY <1>0, <1>6, <2>1, <2>2, RequestStep DEF Recheck, Goto, IInv, TypeOK
<1>7. ASSUME NEW r \in Requests, Remark(r) PROVE IInv'
  <2>1. CASE ev[r] \in markers
    BY <1>0, <1>7, <2>1, EndStep DEF Remark
  <2>2. CASE ev[r] \notin markers
    <3>1. Shape'
      BY <1>7, <2>2 DEF Remark, Goto, IInv, TypeOK, Shape
    <3>2. /\ plans[About(r)'] > 0 /\ pc'[r] # "reply"
          /\ "plan" \notin wrote'[r] /\ ev'[r] \notin markers
      BY <1>7, <2>2 DEF Remark, Goto, IInv, TypeOK, Progress, Absorbs, About
    <3>3. ~Waits(r, "marker")'
      BY <1>7, <2>2 DEF Remark, Goto, IInv, TypeOK, Waits, About
    <3>. QED
      BY <1>0, <1>7, <2>2, <3>1, <3>2, <3>3, RequestStep DEF Remark, Goto, IInv, TypeOK
  <2>. QED  BY <2>1, <2>2
<1>8. ASSUME NEW r \in Requests, Commit(r) PROVE IInv'
  BY <1>0, <1>8, CommitStep
<1>9. ASSUME NEW r \in Requests, Reply(r) PROVE IInv'
  BY <1>0, <1>9, ReplyStep
<1>10. ASSUME NEW r \in Requests, Abort(r) PROVE IInv'
  BY <1>0, <1>10, EndStep DEF Abort
<1>11. CASE UNCHANGED vars
  BY <1>11 DEF vars, dbVars, reqVars, IInv, TypeOK, Shape, Progress, Absorbs, Locks, About,
     Audited, Tables, OnePlan, MarkedIsPlanned, AnsweredIsMarked
<1>. QED
  BY <1>1, <1>2, <1>3, <1>4, <1>5, <1>6, <1>7, <1>8, <1>9, <1>10, <1>11
  DEF Next, Handle
-----------------------------------------------------------------------------
(* Theorems.                                                               *)

THEOREM Invariance == Spec => []IInv
<1>1. Init => IInv
  BY InitInv
<1>2. IInv /\ [Next]_vars => IInv'
  BY InvStep
<1>. QED  BY <1>1, <1>2, PTL DEF Spec

\* routes.py, models.py: one plan per incident, and one reasoning_requested per
\* plan, for any overlap of any number of deliveries.
THEOREM NeverTwoPlans == Spec => []OnePlan
<1>1. IInv => OnePlan
  BY DEF IInv, Tables
<1>. QED  BY <1>1, Invariance, PTL

\* routes.py: an event marked as processed has had its effect.
THEOREM MarkerHasPlan == Spec => []MarkedIsPlanned
<1>1. IInv => MarkedIsPlanned
  BY DEF IInv, Tables
<1>. QED  BY <1>1, Invariance, PTL

\* routes.py: a 2xx is sent only about an event whose marker has committed.
THEOREM AnswerHasMarker == Spec => []AnsweredIsMarked
<1>1. IInv => AnsweredIsMarked
  BY DEF IInv, Tables
<1>. QED  BY <1>1, Invariance, PTL

\* planning.py: each event processed is audited, and each plan by exactly one
\* "created" row.
THEOREM DecisionsAudited == Spec => []EveryDecisionAudited
<1>1. IInv => EveryDecisionAudited
  <2> SUFFICES ASSUME IInv, NEW i \in Incidents
               PROVE  Cardinality({e \in Events : incidentOf[e] = i /\ audit[e] = "created"})
                        = plans[i]
    BY DEF EveryDecisionAudited, IInv, Audited
  <2> DEFINE Creators == {e \in Events : incidentOf[e] = i /\ audit[e] = "created"}
  <2>1. plans[i] \in {0, 1}
    BY DEF IInv, TypeOK, Tables, OnePlan
  <2>2. CASE plans[i] = 0
    <3>1. Creators = {}
      BY <2>2 DEF IInv, Audited
    <3>. QED  BY <2>2, <3>1, FS_EmptySet
  <2>3. CASE plans[i] = 1
    <3>1. PICK e \in Events : incidentOf[e] = i /\ audit[e] = "created"
      BY <2>3 DEF IInv, Audited
    <3>2. Creators = {e}
      BY <3>1 DEF IInv, Audited
    <3>. QED  BY <2>3, <3>2, FS_Singleton
  <2>. QED  BY <2>1, <2>2, <2>3
<1>. QED  BY <1>1, Invariance, PTL

LEMMA PromiseInit == Init => Promise!Init
BY DEF Init, Promise!Init

LEMMA PromiseStep == IInv /\ [Next]_vars => [Promise!Next]_(Promise!vars)
<1> SUFFICES ASSUME IInv, [Next]_vars PROVE Promise!Next \/ UNCHANGED Promise!vars
  BY DEF IInv
<1>1. ASSUME NEW r \in Requests, Commit(r) PROVE Promise!Next
  <2>1. /\ ev[r] \in Events \ (markers \cup Orphans) /\ About(r) \in Incidents
    BY <1>1, Busy DEF Commit, IInv, Shape, Locks
  <2>2. CASE "plan" \in wrote[r]
    <3>1. Promise!Decide(ev[r])
      BY <1>1, <2>1, <2>2
      DEF Commit, IInv, TypeOK, Shape, Locks, About, Promise!Decide
    <3>. QED  BY <2>1, <3>1 DEF Promise!Next
  <2>3. CASE "plan" \notin wrote[r]
    <3>1. ev[r] \notin Foreign => plans[About(r)] = 1
      BY <1>1, <2>1, <2>3 DEF Commit, IInv, TypeOK, Progress, Absorbs, Tables, OnePlan
    <3>2. Promise!Absorb(ev[r])
      BY <1>1, <2>1, <2>3, <3>1 DEF Commit, About, Promise!Absorb
    <3>. QED  BY <2>1, <3>2 DEF Promise!Next
  <2>. QED  BY <2>2, <2>3
<1>2. ASSUME NEW r \in Requests, Reply(r) PROVE Promise!Next
  <2>1. ev[r] \in Events /\ Promise!Answer(ev[r])
    BY <1>2, Busy DEF Reply, IInv, Progress, dbVars, Promise!Answer
  <2>. QED  BY <2>1 DEF Promise!Next
<1>3. ASSUME UNCHANGED <<dbVars, answered>> PROVE UNCHANGED Promise!vars
  BY <1>3 DEF dbVars, Promise!vars
<1>. QED
  BY <1>1, <1>2, <1>3
  DEF Next, Handle, Receive, Gate, Check, Insert, Mark, Recheck, Remark, Abort, vars

\* The planner implements ExactlyOnce: from at-least-once delivery, each incident is
\* decided once, its event emitted once, and everything else absorbed.
THEOREM PromiseKept == Spec => KeepsPromise
<1>1. Init => Promise!Init
  BY PromiseInit
<1>2. IInv /\ [Next]_vars => [Promise!Next]_(Promise!vars)
  BY PromiseStep
<1>. QED
  BY <1>1, <1>2, Invariance, PTL DEF Spec, KeepsPromise, Promise!Spec
=============================================================================
