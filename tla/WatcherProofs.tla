---------------------------- MODULE WatcherProofs ---------------------------
(***************************************************************************)
(* Theorems about Watcher, for any number of events, incidents and         *)
(* requests, and any file of rules that loads.                             *)
(*                                                                         *)
(* What makes an escalation safe from lost updates is that a severity only *)
(* has to leave what the incident was opened with, and that the alert of a *)
(* burst which is committed last before its decision sees all of it        *)
(* (Pending).  What makes a suppression safe is that it only ever points   *)
(* to an earlier incident (Explained).                                     *)
(***************************************************************************)
EXTENDS Watcher, FiniteSetTheorems, TLAPS

\* What the step of a request says about its event and its choices.
RequestInv ==
  \A r \in Requests :
    /\ pc[r] = "idle" <=> ev[r] = None
    /\ pc[r] # "idle" => ev[r] \in arrived
    /\ pc[r] \in {"load", "count", "write", "decide"} => ev[r] \notin Foreign
    /\ pc[r] \in {"count", "write", "decide", "mark", "commit"} => ev[r] \notin Orphans
    /\ pc[r] \in {"idle", "gate", "load", "count"} => target[r] = Mild
    /\ pc[r] \notin {"mark", "commit"} => decision[r] = "none"
    /\ pc[r] \in {"mark", "commit"} =>
         /\ decision[r] = "none" <=> ev[r] \in Foreign
         /\ decision[r] \in {"suppressed", "planned"} => ev[r] \in Fresh
         /\ decision[r] = "attached" => ev[r] \notin Fresh

\* The marker's insert excludes the other deliveries of its event.
MarkerInv ==
  /\ \A r \in Requests : pc[r] = "commit" => ev[r] \notin markers
  /\ \A r, s \in Requests : pc[r] = "commit" /\ pc[s] = "commit" /\ ev[r] = ev[s] => r = s

\* The rows of an event, before its marker and with it.
Rows ==
  \A e \in Events :
    /\ e \notin markers => audit[e] = "none" /\ plans[e] = 0
    /\ e \in markers => (audit[e] = "none" <=> e \in Foreign)
    /\ e \in markers => e \notin Orphans
    /\ audit[e] = "attached" => e \notin Fresh
    /\ plans[e] = IF audit[e] = "planned" THEN 1 ELSE 0

IInv == TypeOK /\ RequestInv /\ MarkerInv /\ Rows

-----------------------------------------------------------------------------
LEMMA RuleTypes ==
  \A rule \in Escalation : rule.threshold \in Nat /\ rule.within \in Nat /\ rule.to \in 0 .. 4
<1> SUFFICES ASSUME NEW rule \in Escalation
             PROVE rule.threshold \in Nat /\ rule.within \in Nat /\ rule.to \in 0 .. 4
  OBVIOUS
<1>1. PICK n \in DOMAIN rules.escalation : rule = rules.escalation[n]
  BY DEF Escalation
<1>2. rules.escalation \in Seq(EscalationRule)
  BY RulesAssumption DEF Loads
<1>3. rule \in EscalationRule
  BY <1>1, <1>2
<1>. QED  BY <1>3, WatcherAssumption DEF EscalationRule, Positive

\* The most severe target of the rules that fire.
LEMMA Severest ==
  ASSUME NEW S, S \subseteq 0 .. 4, S # {}
  PROVE  \E s \in S : \A t \in S : s <= t
<1>1. CASE 0 \in S
  BY <1>1
<1>2. CASE 0 \notin S /\ 1 \in S
  BY <1>2
<1>3. CASE 0 \notin S /\ 1 \notin S /\ 2 \in S
  BY <1>3
<1>4. CASE 0 \notin S /\ 1 \notin S /\ 2 \notin S /\ 3 \in S
  BY <1>4
<1>5. CASE 0 \notin S /\ 1 \notin S /\ 2 \notin S /\ 3 \notin S
  <2>1. ASSUME NEW t \in S PROVE t = 4
    <3>1. t \in 0 .. 4 /\ t # 0 /\ t # 1 /\ t # 2 /\ t # 3
      BY <1>5
    <3>. QED  BY <3>1
  <2>2. PICK t \in S : TRUE
    OBVIOUS
  <2>. QED  BY <2>1, <2>2
<1>. QED  BY <1>1, <1>2, <1>3, <1>4, <1>5

LEMMA EscalatesTypes ==
  ASSUME NEW r, NEW s \in Escalates(r)
  PROVE  s \in 0 .. 4 /\ s < seen[r]
<1>1. PICK rule \in Escalation : s = rule.to
  BY DEF Escalates
<1>. QED  BY <1>1, RuleTypes DEF Escalates

LEMMA InitInv == Init => IInv
<1> SUFFICES ASSUME Init PROVE IInv
  OBVIOUS
<1>1. TypeOK
  BY WatcherAssumption DEF Init, TypeOK, Steps, Decisions, Ranks, Mild
<1>2. RequestInv /\ MarkerInv /\ Rows
  BY DEF Init, RequestInv, MarkerInv, Rows
<1>. QED  BY <1>1, <1>2 DEF IInv

LEMMA TypeStep == TypeOK /\ RequestInv /\ [Next]_vars => TypeOK'
<1> SUFFICES ASSUME TypeOK, RequestInv, [Next]_vars PROVE TypeOK'
  OBVIOUS
<1> USE DEF TypeOK, dbVars, reqVars, Goto, End, Steps, Decisions, Ranks, Mild
<1>0. Severities = 0 .. 4
  BY WatcherAssumption
<1>1. ASSUME NEW e \in Events, Arrive(e) PROVE TypeOK'
  BY <1>1 DEF Arrive
<1>2. ASSUME NEW r \in Requests, NEW e \in Events, Receive(r, e) PROVE TypeOK'
  BY <1>2 DEF Receive
<1>3. ASSUME NEW r \in Requests, Gate(r) PROVE TypeOK'
  BY <1>3 DEF Gate
<1>4. ASSUME NEW r \in Requests, Load(r) PROVE TypeOK'
  <2>1. CASE ev[r] \in Orphans
    BY <1>4, <2>1 DEF Load
  <2>2. CASE ev[r] \notin Orphans
    <3>1. ev[r] \in Events
      BY <1>4, WatcherAssumption DEF Load, RequestInv
    <3>2. About(r) \in Incidents
      BY <3>1, WatcherAssumption DEF About
    <3>3. severity[About(r)] \in Ranks
      BY <3>2
    <3>. QED  BY <1>4, <2>2, <3>3 DEF Load
  <2>. QED  BY <2>1, <2>2
<1>5. ASSUME NEW r \in Requests, Count(r) PROVE TypeOK'
  <2>1. ASSUME NEW s \in Escalates(r), target' = [target EXCEPT ![r] = s], Goto(r, "write")
        PROVE TypeOK'
    BY <1>0, <1>5, <2>1, EscalatesTypes DEF Count
  <2>2. CASE Goto(r, "decide") /\ UNCHANGED target
    BY <1>5, <2>2 DEF Count
  <2>. QED  BY <1>5, <2>1, <2>2 DEF Count
<1>6. ASSUME NEW r \in Requests, Write(r) PROVE TypeOK'
  BY <1>6 DEF Write
<1>7. ASSUME NEW r \in Requests, Decide(r) PROVE TypeOK'
  BY <1>7 DEF Decide
<1>8. ASSUME NEW r \in Requests, Mark(r) PROVE TypeOK'
  BY <1>8 DEF Mark
<1>9. ASSUME NEW r \in Requests, Commit(r) PROVE TypeOK'
  <2>1. ev[r] \in arrived
    BY <1>9 DEF Commit, RequestInv
  <2>2. severity' \in [Incidents -> Ranks]
    BY <1>0, <1>9 DEF Commit
  <2>3. audit' \in [Events -> Decisions]
    BY <1>9 DEF Commit
  <2>4. plans' \in [Events -> Nat]
    <3>1. [plans EXCEPT ![ev[r]] = plans[ev[r]] + 1] \in [Events -> Nat]
      BY <2>1
    <3>. QED  BY <1>9, <3>1 DEF Commit
  <2>. QED  BY <1>9, <2>1, <2>2, <2>3, <2>4 DEF Commit
<1>10. ASSUME NEW r \in Requests, Abort(r) PROVE TypeOK'
  BY <1>10, WatcherAssumption DEF Abort
<1>11. CASE UNCHANGED vars
  BY <1>11 DEF vars
<1>. QED
  BY <1>1, <1>2, <1>3, <1>4, <1>5, <1>6, <1>7, <1>8, <1>9, <1>10, <1>11 DEF Next, Handle

LEMMA RequestStep == TypeOK /\ RequestInv /\ MarkerInv /\ Rows /\ [Next]_vars => RequestInv'
<1> SUFFICES ASSUME TypeOK, RequestInv, MarkerInv, Rows, [Next]_vars PROVE RequestInv'
  OBVIOUS
<1>0. /\ ev \in [Requests -> Events \cup {None}] /\ None \notin Events /\ arrived \subseteq Events
      /\ Orphans \subseteq Events \ Foreign
  BY WatcherAssumption DEF TypeOK
<1> USE DEF dbVars, reqVars, Goto, End, RequestInv
<1>1. ASSUME NEW e \in Events, Arrive(e) PROVE RequestInv'
  BY <1>1 DEF Arrive
<1>2. ASSUME NEW r \in Requests, NEW e \in Events, Receive(r, e) PROVE RequestInv'
  BY <1>0, <1>2 DEF Receive, TypeOK
<1>3. ASSUME NEW r \in Requests, Gate(r) PROVE RequestInv'
  BY <1>0, <1>3 DEF Gate, TypeOK
<1>4. ASSUME NEW r \in Requests, Load(r) PROVE RequestInv'
  BY <1>0, <1>4 DEF Load, TypeOK
<1>5. ASSUME NEW r \in Requests, Count(r) PROVE RequestInv'
  BY <1>0, <1>5 DEF Count, TypeOK
<1>6. ASSUME NEW r \in Requests, Write(r) PROVE RequestInv'
  BY <1>0, <1>6 DEF Write, TypeOK
<1>7. ASSUME NEW r \in Requests, Decide(r) PROVE RequestInv'
  BY <1>0, <1>7 DEF Decide, TypeOK
<1>8. ASSUME NEW r \in Requests, Mark(r) PROVE RequestInv'
  BY <1>0, <1>8 DEF Mark, TypeOK
<1>9. ASSUME NEW r \in Requests, Commit(r) PROVE RequestInv'
  BY <1>0, <1>9 DEF Commit, TypeOK
<1>10. ASSUME NEW r \in Requests, Abort(r) PROVE RequestInv'
  BY <1>0, <1>10 DEF Abort, TypeOK
<1>11. CASE UNCHANGED vars
  BY <1>11 DEF vars
<1>. QED
  BY <1>1, <1>2, <1>3, <1>4, <1>5, <1>6, <1>7, <1>8, <1>9, <1>10, <1>11 DEF Next, Handle

LEMMA MarkerStep == TypeOK /\ RequestInv /\ MarkerInv /\ [Next]_vars => MarkerInv'
<1> SUFFICES ASSUME TypeOK, RequestInv, MarkerInv, [Next]_vars PROVE MarkerInv'
  OBVIOUS
<1> USE DEF dbVars, reqVars, Goto, End, MarkerInv
<1>1. ASSUME NEW e \in Events, Arrive(e) PROVE MarkerInv'
  BY <1>1 DEF Arrive
<1>2. ASSUME NEW r \in Requests, NEW e \in Events, Receive(r, e) PROVE MarkerInv'
  BY <1>2 DEF Receive, TypeOK
<1>3. ASSUME NEW r \in Requests, Gate(r) PROVE MarkerInv'
  BY <1>3 DEF Gate, TypeOK
<1>4. ASSUME NEW r \in Requests, Load(r) PROVE MarkerInv'
  BY <1>4 DEF Load, TypeOK
<1>5. ASSUME NEW r \in Requests, Count(r) PROVE MarkerInv'
  BY <1>5 DEF Count, TypeOK
<1>6. ASSUME NEW r \in Requests, Write(r) PROVE MarkerInv'
  BY <1>6 DEF Write, TypeOK
<1>7. ASSUME NEW r \in Requests, Decide(r) PROVE MarkerInv'
  BY <1>7 DEF Decide, TypeOK
<1>8. ASSUME NEW r \in Requests, Mark(r) PROVE MarkerInv'
  BY <1>8 DEF Mark, TypeOK
<1>9. ASSUME NEW r \in Requests, Commit(r) PROVE MarkerInv'
  BY <1>9 DEF Commit, TypeOK
<1>10. ASSUME NEW r \in Requests, Abort(r) PROVE MarkerInv'
  BY <1>10 DEF Abort, TypeOK
<1>11. CASE UNCHANGED vars
  BY <1>11 DEF vars
<1>. QED
  BY <1>1, <1>2, <1>3, <1>4, <1>5, <1>6, <1>7, <1>8, <1>9, <1>10, <1>11 DEF Next, Handle

LEMMA RowsStep == TypeOK /\ RequestInv /\ MarkerInv /\ Rows /\ [Next]_vars => Rows'
<1> SUFFICES ASSUME TypeOK, RequestInv, MarkerInv, Rows, [Next]_vars PROVE Rows'
  OBVIOUS
<1>1. ASSUME NEW r \in Requests, Commit(r) PROVE Rows'
  <2>1. /\ pc[r] = "commit" /\ ev[r] \in arrived
        /\ markers' = markers \cup {ev[r]}
        /\ audit' = [audit EXCEPT ![ev[r]] = decision[r]]
        /\ plans' = IF decision[r] = "planned" THEN [plans EXCEPT ![ev[r]] = @ + 1] ELSE plans
    BY <1>1 DEF Commit, RequestInv
  <2>2. ev[r] \in Events /\ ev[r] \notin markers
    BY <2>1 DEF TypeOK, MarkerInv
  <2>3. audit[ev[r]] = "none" /\ plans[ev[r]] = 0
    BY <2>2 DEF Rows
  <2>4. audit'[ev[r]] = decision[r] /\ \A e \in Events \ {ev[r]} : audit'[e] = audit[e]
    BY <2>1, <2>2 DEF TypeOK
  <2>5. /\ plans'[ev[r]] = IF decision[r] = "planned" THEN 1 ELSE 0
        /\ \A e \in Events \ {ev[r]} : plans'[e] = plans[e]
    BY <2>1, <2>2, <2>3 DEF TypeOK
  <2>6. /\ decision[r] = "none" <=> ev[r] \in Foreign
        /\ ev[r] \notin Orphans
        /\ decision[r] = "attached" => ev[r] \notin Fresh
    BY <2>1 DEF RequestInv
  <2>. QED  BY <2>1, <2>2, <2>4, <2>5, <2>6 DEF Rows
<1>2. CASE UNCHANGED <<markers, audit, plans>>
  BY <1>2 DEF Rows
<1>. QED
  BY <1>1, <1>2 DEF Next, Handle, vars, dbVars, Arrive, Receive, Gate, Load, Count, Write, Decide,
     Mark, Abort

\* Whatever the steps are, types, requests, markers and rows fit together.
LEMMA Invariant == Spec => []IInv
<1>1. IInv /\ [Next]_vars => IInv'
  BY TypeStep, RequestStep, MarkerStep, RowsStep DEF IInv
<1>. QED  BY InitInv, <1>1, PTL DEF Spec

\* The variables of Watcher have their types: a request is about an event that ingestion has
\* committed, a severity is always one of the five ranks.
THEOREM TypeCorrect == Spec => []TypeOK
<1>1. IInv => TypeOK
  BY DEF IInv
<1>. QED  BY Invariant, <1>1, PTL

\* However deliveries of an event overlap, die or are repeated (routes.py), its decision and
\* its plan request stand with its marker, once.
THEOREM OneDecision == Spec => []DecidedOnce
<1>1. IInv => DecidedOnce
  BY DEF IInv, Rows, DecidedOnce
<1>. QED  BY Invariant, <1>1, PTL

-----------------------------------------------------------------------------
(* Suppression.                                                            *)

\* An incident is known by the alert that opened it.
Rooted == \A e \in Alerts : \E f \in Fresh \cap Alerts : incidentOf[f] = incidentOf[e]

\* What can explain that e is suppressed.
Explains(f, e) ==
  /\ f \in Fresh \cap Alerts
  /\ alert[f] = alert[e] /\ openedAt[incidentOf[f]] < openedAt[incidentOf[e]]
  /\ audit[f] \in {"none", "planned"}

Explained ==
  /\ \A e \in Events : audit[e] = "suppressed" => e \in Alerts /\ \E f \in Events : Explains(f, e)
  /\ \A r \in Requests :
       pc[r] \in {"mark", "commit"} /\ decision[r] = "suppressed" =>
         \E f \in Events : Explains(f, ev[r])

LEMMA RootedStep == TypeOK /\ Rooted /\ [Next]_vars => Rooted'
<1> SUFFICES ASSUME TypeOK, Rooted, [Next]_vars PROVE Rooted'
  OBVIOUS
<1>1. ASSUME NEW e \in Events, Arrive(e) PROVE Rooted'
  <2>1. arrived' = arrived \cup {e} /\ Alerts \subseteq Alerts' /\ Alerts' \subseteq Alerts \cup {e}
    BY <1>1 DEF Arrive, Alerts
  <2>2. ASSUME e \in Alerts' PROVE \E f \in Fresh \cap Alerts' : incidentOf[f] = incidentOf[e]
    <3>1. e \notin Foreign \cup Orphans
      BY <2>2 DEF Alerts
    <3>2. CASE e \in Fresh
      BY <2>2, <3>2
    <3>3. CASE e \notin Fresh
      <4>1. PICK f \in arrived \cap Fresh : incidentOf[f] = incidentOf[e]
        BY <1>1, <3>1, <3>3 DEF Arrive
      <4>2. f \notin Orphans
        BY <3>1, <4>1, AttachedAssumption
      <4>3. f \notin Foreign
        BY <4>1, WatcherAssumption
      <4>. QED  BY <2>1, <4>1, <4>2, <4>3 DEF Alerts
    <3>. QED  BY <3>2, <3>3
  <2>. QED  BY <2>1, <2>2 DEF Rooted
<1>2. CASE UNCHANGED arrived
  BY <1>2 DEF Rooted, Alerts
<1>. QED
  BY <1>1, <1>2 DEF Next, Handle, vars, Receive, Gate, Load, Count, Write, Decide, Mark,
     Commit, Abort

\* A suppressing alert's own incident can itself be suppressed, by one that is older still.
LEMMA SuppressedExplained ==
  ASSUME TypeOK, Rooted, Explained, Rows, NEW e \in Alerts, Suppressed(e)
  PROVE  \E f \in Events : Explains(f, e)
<1>1. PICK rule \in suppression_for(alert[e].name), j \in Incidents \ {incidentOf[e]} :
        /\ \E f \in AlertsOf(j) : alert[f] = alert[e]
        /\ openedAt[j] <= openedAt[incidentOf[e]]
  BY DEF Suppressed
<1>2. PICK g \in AlertsOf(j) : alert[g] = alert[e]
  BY <1>1
<1>3. e \in Events /\ g \in Alerts /\ g \in Events /\ incidentOf[g] = j
  BY <1>2 DEF AlertsOf, Alerts, TypeOK
<1>4. PICK f \in Fresh \cap Alerts : incidentOf[f] = j
  BY <1>3 DEF Rooted
<1>5. f \in Events /\ alert[f] = alert[e]
  BY <1>2, <1>3, <1>4, AttachedAssumption DEF Alerts, TypeOK
<1>6. openedAt[incidentOf[f]] < openedAt[incidentOf[e]]
  <2>1. /\ openedAt[j] \in Nat /\ openedAt[incidentOf[e]] \in Nat
        /\ openedAt[j] # openedAt[incidentOf[e]]
    BY <1>3, WatcherAssumption
  <2>. QED  BY <1>1, <1>4, <2>1
<1>7. CASE audit[f] = "suppressed"
  <2>1. PICK h \in Events : Explains(h, f)
    BY <1>5, <1>7 DEF Explained
  <2>2. /\ openedAt[incidentOf[h]] \in Nat
        /\ openedAt[incidentOf[f]] \in Nat
        /\ openedAt[incidentOf[e]] \in Nat
    BY <1>3, <1>5, WatcherAssumption
  <2>3. openedAt[incidentOf[h]] < openedAt[incidentOf[e]]
    BY <1>6, <2>1, <2>2 DEF Explains
  <2>. QED  BY <1>5, <2>1, <2>3 DEF Explains
<1>8. CASE audit[f] # "suppressed"
  <2>1. audit[f] \in {"none", "planned"}
    BY <1>4, <1>5, <1>8 DEF Rows, TypeOK, Decisions
  <2>. QED  BY <1>4, <1>5, <1>6, <2>1 DEF Explains
<1>. QED  BY <1>7, <1>8

LEMMA ExplainedStep ==
  IInv /\ Rooted /\ Explained /\ [Next]_vars => Explained'
<1> SUFFICES ASSUME IInv, Rooted, Explained, [Next]_vars PROVE Explained'
  OBVIOUS
<1>0. TypeOK /\ RequestInv /\ MarkerInv /\ Rows
  BY DEF IInv
\* The alerts stay, and so does every explanation while no decision is audited.
<1>1. Alerts \subseteq Alerts'
  BY DEF Next, Handle, vars, Alerts, Arrive, Receive, Gate, Load, Count, Write, Decide, Mark,
     Commit, Abort
<1>2. ASSUME audit' = audit, NEW f, NEW e, Explains(f, e) PROVE Explains(f, e)'
  BY <1>1, <1>2 DEF Explains
<1>3. ASSUME NEW r \in Requests, Commit(r) PROVE Explained'
  <2>1. /\ pc[r] = "commit" /\ ev[r] \in Alerts \cup Foreign /\ ev[r] \in Events
        /\ audit' = [audit EXCEPT ![ev[r]] = decision[r]]
        /\ arrived' = arrived
        /\ pc' = [pc EXCEPT ![r] = "idle"]
    BY <1>0, <1>3 DEF Commit, End, Goto, RequestInv, TypeOK, Alerts
  <2>2. audit'[ev[r]] = decision[r] /\ \A e \in Events \ {ev[r]} : audit'[e] = audit[e]
    BY <1>0, <2>1 DEF TypeOK
  \* Explained by what is now suppressed is explained by what explains that.
  <2>3. ASSUME NEW f \in Events, NEW e \in Events, Explains(f, e)
        PROVE  \E g \in Events : Explains(g, e)'
    <3>1. CASE f # ev[r] \/ decision[r] \in {"none", "planned"}
      BY <1>1, <2>2, <2>3, <3>1 DEF Explains
    <3>2. CASE f = ev[r] /\ decision[r] = "suppressed"
      <4>1. PICK g \in Events : Explains(g, ev[r])
        BY <2>1, <3>2 DEF Explained
      <4>2. /\ openedAt[incidentOf[g]] \in Nat
            /\ openedAt[incidentOf[f]] \in Nat
            /\ openedAt[incidentOf[e]] \in Nat
        BY WatcherAssumption
      <4>3. g # ev[r] /\ openedAt[incidentOf[g]] < openedAt[incidentOf[e]]
        BY <2>3, <3>2, <4>1, <4>2 DEF Explains
      <4>4. audit'[g] = audit[g]
        BY <2>2, <4>3
      <4>. QED  BY <1>1, <2>3, <3>2, <4>1, <4>3, <4>4 DEF Explains
    <3>3. CASE f = ev[r] /\ decision[r] = "attached"
      BY <1>0, <2>1, <2>3, <3>3 DEF Explains, RequestInv
    <3>. QED  BY <1>0, <3>1, <3>2, <3>3 DEF TypeOK, Decisions
  <2>4. ASSUME NEW e \in Events, audit'[e] = "suppressed"
        PROVE  e \in Alerts' /\ \E f \in Events : Explains(f, e)'
    <3>1. CASE e = ev[r]
      <4>1. decision[r] = "suppressed"
        BY <2>2, <2>4, <3>1
      <4>2. ev[r] \notin Foreign
        BY <1>0, <2>1, <4>1 DEF RequestInv
      <4>3. PICK f \in Events : Explains(f, e)
        BY <2>1, <3>1, <4>1 DEF Explained
      <4>. QED  BY <1>1, <2>1, <2>3, <3>1, <4>2, <4>3
    <3>2. CASE e # ev[r]
      <4>1. e \in Alerts /\ \E f \in Events : Explains(f, e)
        BY <2>2, <2>4, <3>2 DEF Explained
      <4>. QED  BY <1>1, <2>3, <4>1
    <3>. QED  BY <3>1, <3>2
  <2>5. ASSUME NEW q \in Requests, pc'[q] \in {"mark", "commit"}, decision'[q] = "suppressed"
        PROVE  (\E f \in Events : Explains(f, ev[q]))'
    <3>1. q # r /\ pc[q] = pc'[q] /\ decision[q] = decision'[q] /\ ev[q] = ev'[q]
      BY <1>0, <1>3, <2>5 DEF Commit, End, Goto, TypeOK
    <3>2. PICK e \in Events : e = ev[q]
      BY <1>0, <2>5, <3>1 DEF RequestInv, TypeOK
    <3>3. \E f \in Events : Explains(f, e)
      BY <2>5, <3>1, <3>2 DEF Explained
    <3>4. \E f \in Events : Explains(f, e)'
      BY <2>3, <3>3
    <3>. QED  BY <3>1, <3>2, <3>4
  <2>. QED  BY <2>4, <2>5 DEF Explained
<1>4. ASSUME NEW r \in Requests, Decide(r) PROVE Explained'
  <2>1. /\ pc[r] = "decide" /\ audit' = audit /\ ev' = ev /\ arrived' = arrived
        /\ \A q \in Requests \ {r} : pc'[q] = pc[q] /\ decision'[q] = decision[q]
        /\ decision'[r] = "suppressed" => Suppressed(ev[r])
    BY <1>0, <1>4 DEF Decide, Goto, dbVars, TypeOK
  <2>2. ev[r] \in Alerts
    BY <1>0, <2>1 DEF RequestInv, Alerts
  <2>3. decision'[r] = "suppressed" => \E f \in Events : Explains(f, ev[r])
    BY <1>0, <2>1, <2>2, SuppressedExplained
  <2>. QED  BY <1>1, <1>2, <2>1, <2>3 DEF Explained
\* The others decide nothing and audit nothing.
<1>5. ASSUME audit' = audit,
             \A q \in Requests :
               pc'[q] \in {"mark", "commit"} /\ decision'[q] = "suppressed" =>
                 /\ pc[q] \in {"mark", "commit"} /\ decision[q] = "suppressed"
                 /\ ev'[q] = ev[q]
      PROVE  Explained'
  <2>1. ASSUME NEW e \in Events, audit'[e] = "suppressed"
        PROVE  e \in Alerts' /\ \E f \in Events : Explains(f, e)'
    BY <1>1, <1>2, <1>5, <2>1 DEF Explained
  <2>2. ASSUME NEW q \in Requests, pc'[q] \in {"mark", "commit"}, decision'[q] = "suppressed"
        PROVE  (\E f \in Events : Explains(f, ev[q]))'
    <3>1. PICK e \in Events : e = ev[q]
      BY <1>0, <1>5, <2>2 DEF RequestInv, TypeOK
    <3>2. PICK f \in Events : Explains(f, e)
      BY <1>5, <2>2, <3>1 DEF Explained
    <3>3. Explains(f, e)' /\ ev'[q] = e
      BY <1>2, <1>5, <2>2, <3>1, <3>2
    <3>. QED  BY <3>3
  <2>. QED  BY <2>1, <2>2 DEF Explained
<1> USE DEF dbVars, reqVars, Goto, End
<1>6. ASSUME NEW e \in Events, Arrive(e) PROVE Explained'
  BY <1>5, <1>6 DEF Arrive
<1>7. ASSUME NEW r \in Requests, NEW e \in Events, Receive(r, e) PROVE Explained'
  BY <1>0, <1>5, <1>7 DEF Receive, TypeOK
<1>8. ASSUME NEW r \in Requests, Gate(r) PROVE Explained'
  BY <1>0, <1>5, <1>8 DEF Gate, TypeOK, RequestInv
<1>9. ASSUME NEW r \in Requests, Load(r) \/ Count(r) \/ Write(r) PROVE Explained'
  BY <1>0, <1>5, <1>9 DEF Load, Count, Write, TypeOK
<1>10. ASSUME NEW r \in Requests, Mark(r) \/ Abort(r) PROVE Explained'
  BY <1>0, <1>5, <1>10 DEF Mark, Abort, TypeOK
<1>11. CASE UNCHANGED vars
  BY <1>5, <1>11 DEF vars
<1>. QED
  BY <1>3, <1>4, <1>6, <1>7, <1>8, <1>9, <1>10, <1>11 DEF Next, Handle

\* In whatever order alerts are committed and handled (_suppressed_by reads what is there by
\* then), a suppressed follow-on has an earlier incident that is or will be investigated.
THEOREM EpisodesInvestigated == Spec => []EpisodeInvestigated
<1>1. Init => Rooted /\ Explained
  BY DEF Init, Rooted, Explained, Alerts
<1>2. IInv /\ Rooted /\ Explained /\ [Next]_vars => Rooted' /\ Explained'
  BY RootedStep, ExplainedStep DEF IInv
<1>3. Explained => EpisodeInvestigated
  BY DEF Explained, Explains, EpisodeInvestigated
<1>. QED  BY Invariant, <1>1, <1>2, <1>3, PTL DEF Spec

-----------------------------------------------------------------------------
(* Escalation.                                                             *)

\* A severity only leaves what the incident was opened with for a more severe one, and what
\* a request has read is at most that.
Falling ==
  /\ \A i \in Incidents : severity[i] <= initial[i]
  /\ \A r \in Requests :
       pc[r] \in {"count", "write", "decide", "mark", "commit"} /\ ev[r] \notin Foreign =>
         /\ seen[r] <= initial[About(r)]
         /\ seen[r] < initial[About(r)] => severity[About(r)] < initial[About(r)]
  /\ \A r \in Requests : target[r] # Mild => target[r] < initial[About(r)]

Burst(e, rule) ==
  {f \in AlertsOf(incidentOf[e]) :
     received[e] - rule.within <= received[f] /\ received[f] <= received[e]}

\* A request that will not escalate.
Spares(r) == pc[r] \in {"write", "decide", "mark", "commit"} /\ target[r] = Mild

\* While a burst has not escalated its incident, one of its alerts has yet to count them all.
Pending ==
  \A e \in Alerts : \A rule \in Escalation :
    /\ Cardinality(Burst(e, rule)) >= rule.threshold
    /\ rule.to < initial[incidentOf[e]]
    /\ severity[incidentOf[e]] = initial[incidentOf[e]]
    => \E f \in Burst(e, rule) \ markers : \A r \in Requests : ev[r] = f => ~Spares(r)

BurstInv == IsFiniteSet(arrived) /\ Falling /\ Pending

\* One alert at a time is committed.
LEMMA FiniteStep == IsFiniteSet(arrived) /\ [Next]_vars => IsFiniteSet(arrived')
<1> SUFFICES ASSUME IsFiniteSet(arrived), [Next]_vars PROVE IsFiniteSet(arrived')
  OBVIOUS
<1>1. ASSUME NEW e \in Events, Arrive(e) PROVE IsFiniteSet(arrived')
  BY <1>1, FS_AddElement DEF Arrive
<1>2. CASE UNCHANGED arrived
  BY <1>2
<1>. QED
  BY <1>1, <1>2 DEF Next, Handle, vars, Receive, Gate, Load, Count, Write, Decide, Mark,
     Commit, Abort

LEMMA FallingStep == IInv /\ Falling /\ [Next]_vars => Falling'
<1> SUFFICES ASSUME IInv, Falling, [Next]_vars PROVE Falling'
  OBVIOUS
<1>0. TypeOK /\ RequestInv
  BY DEF IInv
<1>a. /\ severity \in [Incidents -> 0 .. 4] /\ initial \in [Incidents -> 0 .. 4]
      /\ seen \in [Requests -> 0 .. 5] /\ target \in [Requests -> 0 .. 5] /\ Mild = 5
  BY <1>0, WatcherAssumption DEF TypeOK, Ranks, Mild
<1>b. \A r \in Requests : pc[r] # "idle" => About(r) \in Incidents
  BY <1>0, WatcherAssumption DEF About, RequestInv, TypeOK
<1>c. pc \in [Requests -> Steps] /\ ev \in [Requests -> Events \cup {None}]
  BY <1>0 DEF TypeOK
<1> USE DEF dbVars, reqVars, Goto, End
\* All but one of the requests keep what they have; a severity is written by a commit only.
<1>1. ASSUME NEW r \in Requests, severity' = severity,
             \A q \in Requests \ {r} :
               pc'[q] = pc[q] /\ ev'[q] = ev[q] /\ seen'[q] = seen[q] /\ target'[q] = target[q],
             \/ target'[r] = Mild /\ pc'[r] \notin {"count", "write", "decide", "mark", "commit"}
             \/ target'[r] = Mild /\ ev'[r] \in Foreign
             \/ /\ ev'[r] = ev[r] /\ seen'[r] = seen[r] /\ target'[r] = target[r]
                /\ pc[r] \in {"count", "write", "decide", "mark", "commit"}
      PROVE  Falling'
  BY <1>1 DEF Falling, About
<1>2. ASSUME NEW e \in Events, Arrive(e) PROVE Falling'
  BY <1>2 DEF Arrive, Falling, About
<1>3. ASSUME NEW r \in Requests, NEW e \in Events, Receive(r, e) PROVE Falling'
  BY <1>0, <1>1, <1>3, <1>c DEF Receive, RequestInv
<1>4. ASSUME NEW r \in Requests, Gate(r) PROVE Falling'
  BY <1>0, <1>1, <1>4, <1>c, <1>a DEF Gate, RequestInv
<1>5. ASSUME NEW r \in Requests, Load(r) PROVE Falling'
  <2>1. CASE ev[r] \in Orphans
    BY <1>1, <1>5, <1>a, <1>c, <2>1 DEF Load
  <2>2. CASE ev[r] \notin Orphans
    <3>1. /\ seen' = [seen EXCEPT ![r] = severity[About(r)]]
          /\ UNCHANGED <<severity, ev, target>>
          /\ pc' = [pc EXCEPT ![r] = "count"] /\ pc[r] = "load"
      BY <1>5, <2>2 DEF Load
    <3>2. About(r) \in Incidents /\ About(r)' = About(r)
      BY <1>b, <3>1 DEF About
    <3>3. seen'[r] = severity[About(r)] /\ severity[About(r)] <= initial[About(r)]
      BY <1>a, <3>1, <3>2 DEF Falling
    <3>4. \A q \in Requests \ {r} : pc'[q] = pc[q] /\ seen'[q] = seen[q]
      BY <1>a, <1>c, <3>1
    <3>. QED  BY <3>1, <3>2, <3>3, <3>4 DEF Falling, About
  <2>. QED  BY <2>1, <2>2
<1>6. ASSUME NEW r \in Requests, Count(r) PROVE Falling'
  <2>1. ASSUME NEW s \in Escalates(r), target' = [target EXCEPT ![r] = s], Goto(r, "write")
        PROVE  Falling'
    <3>1. s \in 0 .. 4 /\ s < seen[r]
      BY <2>1, EscalatesTypes
    <3>2. pc[r] = "count" /\ ev[r] \notin Foreign /\ UNCHANGED <<severity, ev, seen>>
      BY <1>0, <1>6 DEF Count, RequestInv
    <3>3. seen[r] <= initial[About(r)] /\ About(r) \in Incidents
      BY <1>b, <3>2 DEF Falling
    <3>4. s < initial[About(r)]
      BY <1>a, <3>1, <3>3
    <3>5. target'[r] = s /\ \A q \in Requests \ {r} : target'[q] = target[q] /\ pc'[q] = pc[q]
      BY <1>a, <1>c, <2>1
    <3>. QED  BY <3>2, <3>4, <3>5 DEF Falling, About
  <2>2. CASE Goto(r, "decide") /\ UNCHANGED target
    BY <1>1, <1>6, <1>c, <2>2 DEF Count
  <2>. QED  BY <1>6, <2>1, <2>2 DEF Count
<1>7. ASSUME NEW r \in Requests, Write(r) \/ Decide(r) PROVE Falling'
  BY <1>1, <1>7, <1>c DEF Write, Decide
<1>8. ASSUME NEW r \in Requests, Mark(r) PROVE Falling'
  BY <1>1, <1>8, <1>a, <1>c DEF Mark
<1>9. ASSUME NEW r \in Requests, Commit(r) PROVE Falling'
  <2>1. /\ pc[r] = "commit" /\ pc'[r] = "idle" /\ target'[r] = Mild
        /\ severity' = IF target[r] = Mild THEN severity
                       ELSE [severity EXCEPT ![About(r)] = target[r]]
        /\ \A q \in Requests \ {r} :
             pc'[q] = pc[q] /\ ev'[q] = ev[q] /\ seen'[q] = seen[q] /\ target'[q] = target[q]
    BY <1>9, <1>a, <1>c DEF Commit
  <2>2. About(r) \in Incidents /\ (target[r] # Mild => target[r] < initial[About(r)])
    BY <1>b, <2>1 DEF Falling
  <2>3. \A i \in Incidents :
          \/ severity'[i] = severity[i]
          \/ severity'[i] \in Int /\ severity'[i] < initial[i]
    <3>1. CASE target[r] = Mild
      BY <2>1, <3>1
    <3>2. CASE target[r] # Mild
      <4>1. severity' = [severity EXCEPT ![About(r)] = target[r]]
        BY <2>1, <3>2
      <4>2. PICK t \in 0 .. 5 : t = target[r]
        BY <1>a
      <4>3. t < initial[About(r)]
        BY <2>2, <3>2, <4>2
      <4>. QED  BY <1>a, <4>1, <4>2, <4>3
    <3>. QED  BY <3>1, <3>2
  <2>4. \A i \in Incidents : severity'[i] <= initial[i]
    BY <1>a, <2>3 DEF Falling
  <2>5. \A i \in Incidents : severity[i] < initial[i] => severity'[i] < initial[i]
    BY <1>a, <2>3
  <2>6. \A q \in Requests \ {r} : About(q)' = About(q)
    BY <2>1 DEF About
  <2>7. ASSUME NEW q \in Requests \ {r},
               pc'[q] \in {"count", "write", "decide", "mark", "commit"}, ev'[q] \notin Foreign
        PROVE  /\ seen'[q] <= initial[About(q)']
               /\ seen'[q] < initial[About(q)'] => severity'[About(q)'] < initial[About(q)']
    <3>1. About(q) \in Incidents
      BY <1>b, <2>1, <2>7
    <3>. QED  BY <2>1, <2>5, <2>6, <2>7, <3>1 DEF Falling
  <2>8. \A q \in Requests : target'[q] # Mild => target'[q] < initial[About(q)']
    BY <2>1, <2>6 DEF Falling
  <2>. QED  BY <2>1, <2>4, <2>7, <2>8 DEF Falling
<1>10. ASSUME NEW r \in Requests, Abort(r) PROVE Falling'
  BY <1>1, <1>10, <1>a, <1>c DEF Abort
<1>11. CASE UNCHANGED vars
  BY <1>11 DEF vars, Falling, About
<1>. QED
  BY <1>2, <1>3, <1>4, <1>5, <1>6, <1>7, <1>8, <1>9, <1>10, <1>11 DEF Next, Handle

\* Who counts an alert of a burst sees all of it, and the rule fires.
LEMMA BurstSeen ==
  ASSUME IsFiniteSet(arrived), TypeOK, NEW e \in Alerts, NEW rule \in Escalation,
         Cardinality(Burst(e, rule)) >= rule.threshold,
         NEW f \in Burst(e, rule)
  PROVE  BurstSince(f, rule)
<1> DEFINE counted ==
      {g \in AlertsOf(incidentOf[f]) : received[g] >= received[f] - rule.within}
<1>1. /\ e \in Events /\ f \in Events /\ incidentOf[f] = incidentOf[e]
      /\ received[f] <= received[e]
  BY DEF Burst, AlertsOf, Alerts, TypeOK
<1>2. rule.within \in Nat /\ rule.threshold \in Nat
  BY RuleTypes
<1>3. Burst(e, rule) \subseteq counted
  <2> SUFFICES ASSUME NEW g \in Burst(e, rule) PROVE g \in counted
    OBVIOUS
  <2>1. g \in AlertsOf(incidentOf[e]) /\ received[e] - rule.within <= received[g] /\ g \in Events
    BY DEF Burst, AlertsOf, Alerts, TypeOK
  <2>2. received[e] \in Nat /\ received[f] \in Nat /\ received[g] \in Nat
    BY <1>1, <2>1, WatcherAssumption
  <2>. QED  BY <1>1, <1>2, <2>1, <2>2
<1>4. IsFiniteSet(counted)
  <2>1. counted \subseteq arrived
    BY DEF AlertsOf, Alerts
  <2>. QED  BY <2>1, FS_Subset
<1>5. /\ Cardinality(Burst(e, rule)) <= Cardinality(counted)
      /\ Cardinality(Burst(e, rule)) \in Nat /\ Cardinality(counted) \in Nat
  BY <1>3, <1>4, FS_Subset, FS_CardinalityType
<1>6. rule.threshold <= Cardinality(counted)
  BY <1>2, <1>5
<1>. QED  BY <1>6 DEF BurstSince

\* A rule that fires for less than what was read makes the request escalate.
LEMMA MustEscalate ==
  ASSUME NEW r, NEW rule \in Escalation, BurstSince(ev[r], rule),
         rule.to < seen[r], seen[r] \in 0 .. 5
  PROVE  Escalates(r) # {}
<1> DEFINE fired == {x.to : x \in {y \in Escalation : BurstSince(ev[r], y)}}
<1>1. fired \subseteq 0 .. 4
  BY RuleTypes
<1>2. rule.to \in fired
  OBVIOUS
<1>3. PICK s \in fired : \A t \in fired : s <= t
  BY <1>1, <1>2, Severest
<1>4. s <= rule.to /\ s \in 0 .. 4 /\ rule.to \in 0 .. 4
  BY <1>1, <1>2, <1>3
<1>5. s < seen[r]
  BY <1>4
<1>. QED  BY <1>3, <1>5 DEF Escalates

LEMMA PendingStep == IInv /\ BurstInv /\ [Next]_vars => Pending'
<1> SUFFICES ASSUME IInv, BurstInv, [Next]_vars PROVE Pending'
  OBVIOUS
<1>0. TypeOK /\ RequestInv /\ MarkerInv /\ IsFiniteSet(arrived) /\ Falling /\ Pending
  BY DEF IInv, BurstInv
<1>a. /\ severity \in [Incidents -> 0 .. 4] /\ initial \in [Incidents -> 0 .. 4]
      /\ seen \in [Requests -> 0 .. 5] /\ target \in [Requests -> 0 .. 5] /\ Mild = 5
      /\ pc \in [Requests -> Steps] /\ ev \in [Requests -> Events \cup {None}]
  BY <1>0, WatcherAssumption DEF TypeOK, Ranks, Mild
<1>b. \A e \in Alerts : e \in Events /\ e \notin Foreign /\ incidentOf[e] \in Incidents
  BY <1>0, WatcherAssumption DEF Alerts, TypeOK
<1> USE DEF dbVars, reqVars, Goto, End
<1>1. ASSUME UNCHANGED <<arrived, severity, markers>>,
             \A q \in Requests : Spares(q)' => (Spares(q) /\ ev'[q] = ev[q]) \/ ev'[q] \in Foreign
      PROVE  Pending'
  <2> SUFFICES ASSUME NEW e \in Alerts', NEW rule \in Escalation,
                      (Cardinality(Burst(e, rule)) >= rule.threshold)',
                      rule.to < initial[incidentOf[e]],
                      severity'[incidentOf[e]] = initial[incidentOf[e]]
               PROVE  \E f \in Burst(e, rule)' \ markers' :
                        \A r \in Requests : ev'[r] = f => ~Spares(r)'
    BY DEF Pending
  <2>1. Alerts' = Alerts /\ Burst(e, rule)' = Burst(e, rule)
    BY <1>1 DEF Burst, AlertsOf, Alerts
  <2>2. PICK f \in Burst(e, rule) \ markers : \A r \in Requests : ev[r] = f => ~Spares(r)
    BY <1>0, <1>1, <2>1 DEF Pending
  <2>3. f \notin Foreign
    BY <2>2 DEF Burst, AlertsOf, Alerts
  <2>. QED  BY <1>1, <2>1, <2>2, <2>3
\* An alert that joins a burst has not been handled yet.
<1>2. ASSUME NEW n \in Events, Arrive(n) PROVE Pending'
  <2> SUFFICES ASSUME NEW e \in Alerts', NEW rule \in Escalation,
                      (Cardinality(Burst(e, rule)) >= rule.threshold)',
                      rule.to < initial[incidentOf[e]],
                      severity'[incidentOf[e]] = initial[incidentOf[e]]
               PROVE  \E f \in Burst(e, rule)' \ markers' :
                        \A r \in Requests : ev'[r] = f => ~Spares(r)'
    BY DEF Pending
  <2>1. /\ n \notin arrived /\ arrived' = arrived \cup {n}
        /\ UNCHANGED <<severity, markers, pc, ev, target>>
    BY <1>2 DEF Arrive
  <2>2. /\ Burst(e, rule) \subseteq Burst(e, rule)'
        /\ Burst(e, rule)' \subseteq Burst(e, rule) \cup {n}
    BY <2>1 DEF Burst, AlertsOf, Alerts
  <2>3. \A r \in Requests : Spares(r)' => Spares(r)
    BY <2>1 DEF Spares
  <2>4. CASE n \in Burst(e, rule)'
    <3>1. n \notin markers'
      BY <1>0, <2>1 DEF TypeOK
    <3>2. \A r \in Requests : ev'[r] = n => pc[r] = "idle"
      BY <1>0, <2>1 DEF RequestInv
    <3>. QED  BY <2>3, <2>4, <3>1, <3>2 DEF Spares
  <2>5. CASE n \notin Burst(e, rule)'
    <3>1. Burst(e, rule)' = Burst(e, rule)
      BY <2>2, <2>5
    <3>2. e # n
      <4>1. ASSUME e = n PROVE FALSE
        <5>1. rule.within \in Nat /\ received[e] \in Nat
          BY <4>1, RuleTypes, WatcherAssumption
        <5>2. received[e] - rule.within <= received[e]
          BY <5>1
        <5>. QED  BY <2>5, <4>1, <5>1, <5>2 DEF Burst, AlertsOf
      <4>. QED  BY <4>1
    <3>3. e \in Alerts
      BY <2>1, <3>2 DEF Alerts
    <3>4. PICK f \in Burst(e, rule) \ markers : \A r \in Requests : ev[r] = f => ~Spares(r)
      BY <1>0, <2>1, <3>1, <3>3 DEF Pending
    <3>. QED  BY <2>1, <2>3, <3>1, <3>4
  <2>. QED  BY <2>4, <2>5
\* Who would not escalate has not seen the burst.
<1>3. ASSUME NEW r \in Requests, Count(r) PROVE Pending'
  <2>1. ASSUME NEW s \in Escalates(r), target' = [target EXCEPT ![r] = s], Goto(r, "write")
        PROVE  Pending'
    <3>1. target'[r] # Mild
      BY <1>a, <2>1, EscalatesTypes
    <3>2. \A q \in Requests : Spares(q)' => Spares(q) /\ ev'[q] = ev[q]
      BY <1>3, <1>a, <2>1, <3>1 DEF Count, Spares
    <3>. QED  BY <1>1, <1>3, <3>2 DEF Count
  <2>2. ASSUME Escalates(r) = {}, Goto(r, "decide") /\ UNCHANGED target PROVE Pending'
    <3> SUFFICES ASSUME NEW e \in Alerts', NEW rule \in Escalation,
                        (Cardinality(Burst(e, rule)) >= rule.threshold)',
                        rule.to < initial[incidentOf[e]],
                        severity'[incidentOf[e]] = initial[incidentOf[e]]
                 PROVE  \E f \in Burst(e, rule)' \ markers' :
                          \A q \in Requests : ev'[q] = f => ~Spares(q)'
      BY DEF Pending
    <3>1. /\ pc[r] = "count" /\ UNCHANGED <<arrived, severity, markers, ev, target>>
          /\ pc' = [pc EXCEPT ![r] = "decide"]
      BY <1>3, <2>2 DEF Count
    <3>2. Alerts' = Alerts /\ Burst(e, rule)' = Burst(e, rule)
      BY <3>1 DEF Burst, AlertsOf, Alerts
    <3>3. PICK f \in Burst(e, rule) \ markers : \A q \in Requests : ev[q] = f => ~Spares(q)
      BY <1>0, <3>1, <3>2 DEF Pending
    <3>4. CASE f = ev[r]
      <4>1. BurstSince(ev[r], rule)
        BY <1>0, <3>2, <3>3, <3>4, BurstSeen
      <4>2. incidentOf[e] = About(r) /\ e \in Events /\ ev[r] \notin Foreign
        BY <1>b, <3>2, <3>3, <3>4 DEF About, Burst, AlertsOf, Alerts
      <4>3. seen[r] <= initial[About(r)] /\ ~(seen[r] < initial[About(r)])
        BY <1>0, <1>a, <1>b, <3>1, <3>2, <4>2 DEF Falling
      <4>4. rule.to < seen[r] /\ seen[r] \in 0 .. 5
        BY <1>a, <1>b, <3>2, <4>2, <4>3, RuleTypes
      <4>. QED  BY <2>2, <4>1, <4>4, MustEscalate
    <3>5. CASE f # ev[r]
      BY <1>a, <3>1, <3>2, <3>3, <3>5 DEF Spares
    <3>. QED  BY <3>4, <3>5
  <2>. QED  BY <1>3, <2>1, <2>2 DEF Count
\* Who has seen it escalates with its marker.
<1>4. ASSUME NEW r \in Requests, Commit(r) PROVE Pending'
  <2> SUFFICES ASSUME NEW e \in Alerts', NEW rule \in Escalation,
                      (Cardinality(Burst(e, rule)) >= rule.threshold)',
                      rule.to < initial[incidentOf[e]],
                      severity'[incidentOf[e]] = initial[incidentOf[e]]
               PROVE  \E f \in Burst(e, rule)' \ markers' :
                        \A q \in Requests : ev'[q] = f => ~Spares(q)'
    BY DEF Pending
  <2>1. /\ pc[r] = "commit" /\ pc'[r] = "idle"
        /\ markers' = markers \cup {ev[r]} /\ arrived' = arrived
        /\ severity' = IF target[r] = Mild THEN severity
                       ELSE [severity EXCEPT ![About(r)] = target[r]]
        /\ \A q \in Requests \ {r} :
             pc'[q] = pc[q] /\ ev'[q] = ev[q] /\ target'[q] = target[q]
    BY <1>4, <1>a DEF Commit
  <2>2. Alerts' = Alerts /\ Burst(e, rule)' = Burst(e, rule)
    BY <2>1 DEF Burst, AlertsOf, Alerts
  <2>3. ASSUME target[r] # Mild
        PROVE  /\ incidentOf[e] # About(r)
               /\ severity'[incidentOf[e]] = severity[incidentOf[e]]
    <3>1. target[r] < initial[About(r)] /\ target[r] \in 0 .. 5
      BY <1>0, <1>a, <2>3 DEF Falling
    <3>2. About(r) \in Incidents /\ incidentOf[e] \in Incidents
      BY <1>0, <1>b, <2>1, <2>2, WatcherAssumption DEF About, RequestInv, TypeOK
    <3>. QED  BY <1>a, <2>1, <2>3, <3>1, <3>2
  <2>4. severity[incidentOf[e]] = initial[incidentOf[e]]
    BY <2>1, <2>3
  <2>5. PICK f \in Burst(e, rule) \ markers : \A q \in Requests : ev[q] = f => ~Spares(q)
    BY <1>0, <2>2, <2>4 DEF Pending
  <2>6. f # ev[r]
    <3>1. ASSUME f = ev[r] PROVE FALSE
      <4>1. target[r] # Mild
        BY <2>1, <2>5, <3>1 DEF Spares
      <4>2. incidentOf[e] = About(r)
        BY <2>5, <3>1 DEF About, Burst, AlertsOf
      <4>. QED  BY <2>3, <4>1, <4>2
    <3>. QED  BY <3>1
  <2>. QED  BY <2>1, <2>2, <2>5, <2>6 DEF Spares
<1>5. ASSUME NEW r \in Requests, NEW e \in Events, Receive(r, e) PROVE Pending'
  BY <1>1, <1>5, <1>a DEF Receive, Spares
<1>6. ASSUME NEW r \in Requests, Gate(r) PROVE Pending'
  BY <1>1, <1>6, <1>a DEF Gate, Spares
<1>7. ASSUME NEW r \in Requests, Load(r) PROVE Pending'
  BY <1>1, <1>7, <1>a DEF Load, Spares
<1>8. ASSUME NEW r \in Requests, Write(r) \/ Decide(r) PROVE Pending'
  BY <1>1, <1>8, <1>a DEF Write, Decide, Spares
<1>9. ASSUME NEW r \in Requests, Mark(r) PROVE Pending'
  BY <1>1, <1>9, <1>a DEF Mark, Spares
<1>10. ASSUME NEW r \in Requests, Abort(r) PROVE Pending'
  BY <1>1, <1>10, <1>a DEF Abort, Spares
<1>11. CASE UNCHANGED vars
  BY <1>1, <1>11 DEF vars, Spares
<1>. QED
  BY <1>2, <1>3, <1>4, <1>5, <1>6, <1>7, <1>8, <1>9, <1>10, <1>11 DEF Next, Handle

\* Requests about one incident count before the others commit, and the last UPDATE of its
\* severity wins (correlation.py); still no burst is handled without an escalation.
THEOREM BurstsEscalate == Spec => []BurstEscalates
<1>1. Init => BurstInv
  <2> SUFFICES ASSUME Init PROVE BurstInv
    OBVIOUS
  <2>1. IsFiniteSet(arrived)
    BY FS_EmptySet DEF Init
  <2>2. Falling
    BY WatcherAssumption DEF Init, Falling
  <2>3. Pending
    BY DEF Init, Pending, Alerts
  <2>. QED  BY <2>1, <2>2, <2>3 DEF BurstInv
<1>2. IInv /\ BurstInv /\ [Next]_vars => BurstInv'
  BY FiniteStep, FallingStep, PendingStep DEF BurstInv
<1>3. IInv /\ BurstInv => BurstEscalates
  <2> SUFFICES ASSUME IInv, BurstInv, NEW i \in Incidents, NEW rule \in Escalation,
                      NEW e \in AlertsOf(i), Handled(i), rule.to < initial[i],
                      Cardinality(Burst(e, rule)) >= rule.threshold
               PROVE  severity[i] < initial[i]
    BY DEF BurstEscalates, Burst, AlertsOf
  <2>1. e \in Alerts /\ incidentOf[e] = i
    BY DEF AlertsOf
  <2>2. Burst(e, rule) \subseteq markers
    BY <2>1 DEF Burst, Handled
  <2>3. severity[i] # initial[i]
    BY <2>1, <2>2 DEF BurstInv, Pending
  <2>4. severity[i] <= initial[i] /\ severity[i] \in 0 .. 4 /\ initial[i] \in 0 .. 4
    BY WatcherAssumption DEF BurstInv, Falling, IInv, TypeOK, Ranks
  <2>. QED  BY <2>3, <2>4
<1>. QED  BY Invariant, <1>1, <1>2, <1>3, PTL DEF Spec
=============================================================================
