-------------------------- MODULE IngestionProofs --------------------------
(***************************************************************************)
(* Theorems about ingestion, for any webhooks, any number of requests at a *)
(* time, of incidents and of failures.                                     *)
(*                                                                         *)
(* Normalization is left as it is: what is used of it is that a request is *)
(* only handled of a webhook that is genuine and whose alert could be      *)
(* built.  A request that is to open an incident is alone with it until it *)
(* commits; every other one can be overtaken after its lookup.             *)
(***************************************************************************)
EXTENDS Ingestion, FiniteSetTheorems, TLAPS

\* A webhook that is answered 202, once the tokens are loaded.
Accepted(w) == Verified(w) /\ Normalize(w) # NoAlert /\ Normalize(w) # Unbuilt

Steps == {"idle", "find", "commit", "lock", "202"}

Types ==
  /\ answer \in [Webhooks -> {0, 202, 401, 422}]
  /\ status \in [Ids -> {"absent", "open", "investigating", "resolved"}]
  /\ recent \subseteq Ids
  /\ count \in [Ids -> Nat] /\ rows \in [Ids -> Nat] /\ firing \in [Ids -> Nat]
  /\ opening \in [Ids -> Nat] /\ late \in [Ids -> Nat]
  /\ pc \in [Requests -> Steps]
  /\ about \in [Requests -> Webhooks \cup {"none"}]
  /\ matches \in [Requests -> SUBSET Ids]
  /\ seen \in [Requests -> Nat]
  /\ stored \in [Webhooks -> Nat] /\ unheard \in [Webhooks -> Nat]
  /\ cleared \in [Webhooks -> SUBSET Ids]
  /\ byAlert \subseteq Ids

\* A webhook is handled by one request at a time, and only while it is not settled.
Slots ==
  /\ \A r \in Requests : pc[r] = "idle" => about[r] = "none"
  /\ \A r \in Requests : pc[r] # "idle" =>
       about[r] \in Webhooks /\ Accepted(about[r]) /\ answer[about[r]] = 0
  /\ \A r \in Requests : pc[r] = "commit" => about[r] \notin Resolving
  /\ \A r \in Requests : pc[r] = "lock" => about[r] \in Resolving
  /\ \A r, s \in Requests : pc[r] # "idle" /\ pc[s] # "idle" /\ about[r] = about[s] => r = s

IInv == Types /\ Slots

-----------------------------------------------------------------------------
LEMMA Admitted ==
  ASSUME NEW w \in Webhooks
  PROVE  /\ Admission(w) = 202 => Accepted(w)
         /\ Admission(w) = 401 => w \in Forged
         /\ Admission(w) = 422 => w \notin Forged /\ ~Accepted(w)
<1>1. CASE ~Ready \/ ~Verified(w)
  BY <1>1 DEF Admission, Verified
<1>2. CASE Ready /\ Verified(w) /\ Normalize(w) = NoAlert
  BY <1>2 DEF Admission, Accepted, Verified
<1>3. CASE Ready /\ Verified(w) /\ Normalize(w) # NoAlert /\ Normalize(w) = Unbuilt
  BY <1>3 DEF Admission
<1>4. CASE Ready /\ Verified(w) /\ Normalize(w) # NoAlert /\ Normalize(w) # Unbuilt
  BY <1>4 DEF Admission, Accepted
<1>. QED  BY <1>1, <1>2, <1>3, <1>4

LEMMA InitInv == Init => IInv
<1> SUFFICES ASSUME Init PROVE IInv
  OBVIOUS
<1>1. Types
  BY DEF Init, Types, Steps, Zero
<1>2. Slots
  BY DEF Init, Slots
<1>. QED  BY <1>1, <1>2 DEF IInv

\* What is waiting for its answer: the one request, if it has got that far.
Heard(w) == \E r \in Requests : about[r] = w /\ pc[r] = "202"

LEMMA OnePending ==
  ASSUME IInv, NEW w \in Webhooks
  PROVE  /\ Heard(w) => Cardinality(Pending(w)) = 1
         /\ ~Heard(w) => Cardinality(Pending(w)) = 0
<1>1. ASSUME NEW r \in Requests, about[r] = w, pc[r] = "202" PROVE Cardinality(Pending(w)) = 1
  <2>1. Pending(w) = {r}
    BY <1>1 DEF IInv, Slots, Pending
  <2>. QED  BY <2>1, FS_Singleton
<1>2. ASSUME ~Heard(w) PROVE Cardinality(Pending(w)) = 0
  <2>1. Pending(w) = {}
    BY <1>2 DEF Heard, Pending
  <2>. QED  BY <2>1, FS_EmptySet
<1>. QED  BY <1>1, <1>2 DEF Heard

\* A resolve that finds a live incident resolves it: the flip leaves no firing row.
Closes(r, i) ==
  /\ Live(i)
  /\ firing' = [firing EXCEPT ![i] = 0] /\ status' = [status EXCEPT ![i] = "resolved"]
  /\ byAlert' = byAlert \cup {i}
  /\ cleared' = [cleared EXCEPT ![about[r]] = @ \cup {i}]
  /\ overtaken' = overtaken \cup {s \in Requests : pc[s] = "commit" /\ i \in matches[s]}
  /\ UNCHANGED <<key, recent, count, rows, opening, stored, late, stale>>

LEMMA ResolveCases ==
  ASSUME IInv, NEW r \in Requests, Resolve(r)
  PROVE  \/ UNCHANGED <<incidents, history>>
         \/ \E i \in Ids : Closes(r, i)
<1> DEFINE Ended(i) == {i} \cap {j \in Ids : status'[j] = "resolved"}
<1>1. ASSUME NEW i \in Ids, Live(i), Flip(i), ResolveIfQuiet(i),
             byAlert' = byAlert \cup Ended(i),
             cleared' = [cleared EXCEPT ![about[r]] = @ \cup Ended(i)],
             overtaken' = overtaken \cup
                {s \in Requests : pc[s] = "commit" /\ matches[s] \cap Ended(i) # {}},
             UNCHANGED <<key, recent, count, rows, opening, stored, late, stale>>
      PROVE  Closes(r, i)
  <2>1. firing' = [firing EXCEPT ![i] = 0] /\ firing'[i] = 0
    BY <1>1 DEF Flip, IInv, Types
  <2>2. status' = [status EXCEPT ![i] = "resolved"]
    BY <1>1, <2>1 DEF ResolveIfQuiet
  <2>3. Ended(i) = {i}
    BY <2>2 DEF IInv, Types
  <2>4. {s \in Requests : pc[s] = "commit" /\ matches[s] \cap Ended(i) # {}}
          = {s \in Requests : pc[s] = "commit" /\ i \in matches[s]}
    BY <2>3
  <2> HIDE DEF Ended
  <2>. QED  BY <1>1, <2>1, <2>2, <2>3, <2>4 DEF Closes
<1>2. ASSUME NEW live, live = {i \in matches[r] : Live(i)}, NEW i \in Latest(live)
      PROVE  i \in Ids /\ Live(i)
  BY <1>2 DEF Latest, IInv, Types
<1>3. \/ UNCHANGED <<incidents, history>>
      \/ \E i \in Latest({j \in matches[r] : Live(j)}) :
           /\ Flip(i) /\ ResolveIfQuiet(i)
           /\ byAlert' = byAlert \cup Ended(i)
           /\ cleared' = [cleared EXCEPT ![about[r]] = @ \cup Ended(i)]
           /\ overtaken' = overtaken \cup
                {s \in Requests : pc[s] = "commit" /\ matches[s] \cap Ended(i) # {}}
           /\ UNCHANGED <<key, recent, count, rows, opening, stored, late, stale>>
  BY Zenon DEF Resolve
<1> HIDE DEF Ended
<1>. QED  BY <1>1, <1>2, <1>3, Zenon

LEMMA TypesStep == IInv /\ [Next]_vars => Types'
<1> SUFFICES ASSUME IInv, [Next]_vars PROVE Types'
  OBVIOUS
<1> USE DEF IInv, Types, Slots, incidents, requests, history, Goto, End, Steps, Live
<1>1. CASE Restart
  <2>1. \A w \in Webhooks : Cardinality(Pending(w)) \in Nat
    BY OnePending
  <2>2. unheard' = [w \in Webhooks |-> unheard[w] + Cardinality(Pending(w))]
    BY <1>1 DEF Restart, Pending
  <2>3. unheard' \in [Webhooks -> Nat]
    BY <2>1, <2>2
  <2>. QED  BY <1>1, <2>3 DEF Restart
<1>2. ASSUME NEW w \in Webhooks, Refuse(w) PROVE Types'
  BY <1>2 DEF Refuse
<1>3. ASSUME NEW r \in Requests, NEW w \in Webhooks, Receive(r, w) PROVE Types'
  BY <1>3 DEF Receive
<1>4. ASSUME NEW r \in Requests, Find(r) PROVE Types'
  <2>1. CASE FindLive(r)
    BY <1>4, <2>1 DEF Find, FindLive
  <2>2. CASE FindOpen(r)
    <3>1. /\ matches' \in [Requests -> SUBSET Ids] /\ seen' \in [Requests -> Nat]
          /\ pc' \in [Requests -> Steps]
      BY <2>2 DEF FindOpen, Latest, Earliest
    <3>. QED  BY <1>4, <3>1 DEF Find
  <2>. QED  BY <1>4, <2>1, <2>2 DEF Find
<1>5. ASSUME NEW r \in Requests, Commit(r) PROVE Types'
  <2>1. PICK i \in matches[r] :
          /\ Attach(r, i)
          /\ late' = [late EXCEPT ![i] = IF r \in overtaken THEN @ + firing'[i] - firing[i] ELSE @]
    BY <1>5 DEF Commit
  <2>2. i \in Ids /\ about[r] \in Webhooks
    BY <1>5 DEF Commit
  <2>3. /\ status' \in [Ids -> {"absent", "open", "investigating", "resolved"}]
        /\ recent' \subseteq Ids
        /\ count' \in [Ids -> Nat] /\ rows' \in [Ids -> Nat] /\ opening' \in [Ids -> Nat]
    BY <2>1, <2>2 DEF Attach
  <2>4. firing' \in [Ids -> Nat] /\ firing'[i] \in {firing[i], firing[i] + 1}
    BY <2>1, <2>2 DEF Attach
  <2>5. late' \in [Ids -> Nat]
    BY <2>1, <2>2, <2>4
  <2>6. stored' \in [Webhooks -> Nat] /\ pc' \in [Requests -> Steps]
    BY <1>5, <2>2 DEF Commit
  <2>. QED  BY <1>5, <2>3, <2>4, <2>5, <2>6 DEF Commit
<1>6. ASSUME NEW r \in Requests, Resolve(r) PROVE Types'
  <2>1. pc' \in [Requests -> Steps] /\ about[r] \in Webhooks
    BY <1>6 DEF Resolve
  <2>2. CASE UNCHANGED <<incidents, history>>
    BY <1>6, <2>1, <2>2 DEF Resolve
  <2>3. ASSUME NEW i \in Ids, Closes(r, i) PROVE Types'
    BY <1>6, <2>1, <2>3 DEF Closes, Resolve
  <2>. QED  BY <1>6, <2>2, <2>3, ResolveCases
<1>7. ASSUME NEW r \in Requests, Reply(r) PROVE Types'
  BY <1>7 DEF Reply
<1>8. ASSUME NEW r \in Requests, Fail(r) PROVE Types'
  <2>1. unheard' \in [Webhooks -> Nat]
    BY <1>8 DEF Fail
  <2>. QED  BY <1>8, <2>1 DEF Fail
<1>9. ASSUME NEW i \in Ids, Expire(i) \/ Progress(i) PROVE Types'
  BY <1>9 DEF Expire, Progress
<1>10. CASE UNCHANGED vars
  BY <1>10 DEF vars
<1>. QED
  BY <1>1, <1>2, <1>3, <1>4, <1>5, <1>6, <1>7, <1>8, <1>9, <1>10 DEF Next, Handle

LEMMA SlotsStep == IInv /\ [Next]_vars => Slots'
<1> SUFFICES ASSUME IInv, [Next]_vars PROVE Slots'
  OBVIOUS
<1> USE DEF IInv, Types, Slots, requests, Goto, End
<1>1. CASE Restart
  BY <1>1 DEF Restart
<1>2. ASSUME NEW w \in Webhooks, Refuse(w) PROVE Slots'
  <2>1. ~Accepted(w)
    BY <1>2, Admitted DEF Refuse, Accepted, Verified
  <2>. QED  BY <1>2, <2>1 DEF Refuse
<1>3. ASSUME NEW r \in Requests, NEW w \in Webhooks, Receive(r, w) PROVE Slots'
  <2>1. Accepted(w)
    BY <1>3, Admitted DEF Receive
  <2>. QED  BY <1>3, <2>1 DEF Receive
<1>4. ASSUME NEW r \in Requests, Find(r) PROVE Slots'
  <2>1. /\ UNCHANGED <<answer, about>> /\ pc[r] = "find"
        /\ pc' = [pc EXCEPT ![r] = IF about[r] \in Resolving THEN "lock" ELSE "commit"]
    BY <1>4 DEF Find, FindLive, FindOpen
  <2>. QED  BY <2>1
<1>5. ASSUME NEW r \in Requests, Commit(r) \/ Resolve(r) PROVE Slots'
  <2>1. /\ UNCHANGED <<answer, about>> /\ pc[r] # "idle"
        /\ pc' = [pc EXCEPT ![r] = "202"]
    BY <1>5 DEF Commit, Resolve
  <2>. QED  BY <2>1
<1>6. ASSUME NEW r \in Requests, Reply(r) PROVE Slots'
  BY <1>6 DEF Reply
<1>7. ASSUME NEW r \in Requests, Fail(r) PROVE Slots'
  BY <1>7 DEF Fail
<1>8. CASE UNCHANGED <<answer, requests>>
  BY <1>8
<1>. QED
  BY <1>1, <1>2, <1>3, <1>4, <1>5, <1>6, <1>7, <1>8 DEF Next, Handle, Expire, Progress, vars

LEMMA StepInv == IInv /\ [Next]_vars => IInv'
  BY TypesStep, SlotsStep DEF IInv

LEMMA Invariance == Spec => []IInv
  BY InitInv, StepInv, PTL DEF Spec

\* The type invariant: what startup has loaded, the counts and the incidents' states are
\* what main.py and persist_alert can leave, whatever the payloads were normalized to.
THEOREM TypeCorrect == Spec => []TypeOK
<1> DEFINE Rest == loaded \in {"nothing", "dsn", "tokens"} /\ stale \subseteq Ids
<1>1. Init => Rest
  BY DEF Init
<1>2. IInv /\ Rest /\ [Next]_vars => Rest'
  <2> SUFFICES ASSUME IInv, Rest, [Next]_vars PROVE Rest'
    OBVIOUS
  <2>1. loaded' \in {"nothing", "dsn", "tokens"}
    BY DEF Next, Restart, Refuse, Receive, Handle, Find, Commit, Resolve, Reply, Fail, Expire,
           Progress, vars
  <2>2. ASSUME NEW r \in Requests, Commit(r) PROVE stale' \subseteq Ids
    BY <2>2 DEF Commit, IInv, Types
  <2>3. ASSUME NEW r \in Requests, Resolve(r) PROVE stale' \subseteq Ids
    BY <2>3, ResolveCases DEF Closes, history
  <2>4. (\A r \in Requests : ~Commit(r) /\ ~Resolve(r)) => UNCHANGED stale
    BY DEF Next, Restart, Refuse, Receive, Handle, Find, Reply, Fail, Expire, Progress, vars,
           history
  <2>. QED  BY <2>1, <2>2, <2>3, <2>4
<1>3. IInv /\ Rest => TypeOK
  BY DEF IInv, Types, Steps, TypeOK
<1> HIDE DEF Rest
<1>. QED  BY <1>1, <1>2, <1>3, Invariance, PTL DEF Spec

-----------------------------------------------------------------------------
\* What is stored of a webhook, beside what its source has heard.
LedgerOf(w) ==
  /\ answer[w] = 202 => Accepted(w) /\ (w \notin Resolving => stored[w] >= 1)
  /\ answer[w] = 401 => w \in Forged
  /\ answer[w] = 422 => w \notin Forged /\ ~Accepted(w)
  /\ ~Accepted(w) => stored[w] = 0 /\ cleared[w] = {}
  /\ answer[w] = 0 /\ w \notin Resolving =>
       /\ Heard(w) => stored[w] = unheard[w] + 1
       /\ ~Heard(w) => stored[w] = unheard[w]

Ledger == \A w \in Webhooks : LedgerOf(w)

\* A webhook whose requests are where they were, or not where an answer is due.
LEMMA LedgerKept ==
  ASSUME NEW w \in Webhooks, LedgerOf(w), Heard(w)' <=> Heard(w),
         answer'[w] = answer[w], stored'[w] = stored[w], cleared'[w] = cleared[w],
         unheard'[w] = unheard[w]
  PROVE  LedgerOf(w)'
  BY DEF LedgerOf, Accepted, Verified

LEMMA LedgerStep == IInv /\ Ledger /\ [Next]_vars => Ledger'
<1> SUFFICES ASSUME IInv, Ledger, [Next]_vars, NEW w \in Webhooks PROVE LedgerOf(w)'
  BY DEF Ledger
<1>0. LedgerOf(w) /\ stored[w] \in Nat /\ unheard[w] \in Nat
  BY DEF Ledger, IInv, Types
<1> USE DEF IInv, Types, Slots, incidents, requests, history, Goto, End
<1>1. CASE Restart
  <2>1. unheard'[w] = unheard[w] + Cardinality(Pending(w))
    BY <1>1 DEF Restart, Pending
  <2>2. unheard'[w] = unheard[w] + (IF Heard(w) THEN 1 ELSE 0)
    BY <1>0, <2>1, OnePending
  <2>3. ~Heard(w)' /\ UNCHANGED <<answer, stored, cleared>>
    BY <1>1 DEF Restart, Heard
  <2>. QED  BY <1>0, <2>2, <2>3 DEF LedgerOf, Accepted, Verified
<1>2. ASSUME NEW v \in Webhooks, Refuse(v) PROVE LedgerOf(w)'
  <2>1. /\ UNCHANGED <<stored, cleared, unheard, about, pc>>
        /\ answer' = [answer EXCEPT ![v] = Admission(v)] /\ Admission(v) \in {401, 422}
    BY <1>2 DEF Refuse
  <2>2. Heard(w)' <=> Heard(w)
    BY <2>1 DEF Heard
  <2>3. CASE v = w
    <3>1. /\ Admission(w) = 401 => w \in Forged
          /\ Admission(w) = 422 => w \notin Forged /\ ~Accepted(w)
      BY Admitted
    <3>. QED  BY <1>0, <2>1, <2>3, <3>1 DEF LedgerOf, Accepted, Verified
  <2>4. CASE v # w
    BY <1>0, <2>1, <2>2, <2>4, LedgerKept
  <2>. QED  BY <2>3, <2>4
<1>3. ASSUME NEW r \in Requests, (\E v \in Webhooks : Receive(r, v)) \/ Find(r) PROVE LedgerOf(w)'
  <2>1. /\ UNCHANGED <<answer, stored, cleared, unheard>>
        /\ pc[r] # "202" /\ pc'[r] # "202"
        /\ \A s \in Requests \ {r} : pc'[s] = pc[s] /\ about'[s] = about[s]
    BY <1>3 DEF Receive, Find, FindOpen, FindLive
  <2>2. Heard(w)' <=> Heard(w)
    BY <2>1 DEF Heard
  <2>. QED  BY <1>0, <2>1, <2>2, LedgerKept
<1>4. ASSUME NEW r \in Requests, Commit(r) \/ Resolve(r), about[r] = w PROVE LedgerOf(w)'
  <2>1. /\ UNCHANGED <<answer, unheard, about>> /\ pc' = [pc EXCEPT ![r] = "202"]
        /\ Accepted(w) /\ answer[w] = 0
        /\ pc[r] = "lock" \/ pc[r] = "commit"
    BY <1>4 DEF Commit, Resolve
  <2>2. Heard(w)' /\ ~Heard(w)
    BY <1>4, <2>1 DEF Heard
  <2>3. CASE Commit(r)
    <3>1. stored'[w] = stored[w] + 1 /\ UNCHANGED cleared
      BY <1>4, <2>3 DEF Commit
    <3>. QED  BY <1>0, <2>1, <2>2, <3>1 DEF LedgerOf, Accepted, Verified
  <2>4. CASE Resolve(r)
    <3>1. w \in Resolving
      BY <1>4, <2>4 DEF Resolve
    <3>. QED  BY <1>0, <2>1, <3>1 DEF LedgerOf, Accepted, Verified, Resolving
  <2>. QED  BY <1>4, <2>3, <2>4
<1>5. ASSUME NEW r \in Requests, Commit(r) \/ Resolve(r), about[r] # w PROVE LedgerOf(w)'
  <2>1. /\ UNCHANGED <<answer, unheard, about>> /\ pc' = [pc EXCEPT ![r] = "202"]
    BY <1>5 DEF Commit, Resolve
  <2>2. Heard(w)' <=> Heard(w)
    BY <1>5, <2>1 DEF Heard
  <2>3. stored'[w] = stored[w] /\ cleared'[w] = cleared[w]
    <3>1. CASE Commit(r)
      BY <1>5, <3>1 DEF Commit
    <3>2. CASE Resolve(r)
      BY <1>5, <3>2, ResolveCases DEF Closes
    <3>. QED  BY <1>5, <3>1, <3>2
  <2>. QED  BY <1>0, <2>1, <2>2, <2>3, LedgerKept
<1>6. ASSUME NEW r \in Requests, Reply(r) PROVE LedgerOf(w)'
  <2>1. /\ UNCHANGED <<stored, cleared, unheard>> /\ pc[r] = "202"
        /\ answer' = [answer EXCEPT ![about[r]] = 202]
        /\ pc' = [pc EXCEPT ![r] = "idle"] /\ about' = [about EXCEPT ![r] = "none"]
    BY <1>6 DEF Reply
  <2>2. CASE about[r] = w
    <3>1. Accepted(w) /\ answer[w] = 0 /\ Heard(w) /\ answer'[w] = 202
      BY <2>1, <2>2 DEF Heard
    <3>2. w \notin Resolving => stored'[w] >= 1
      BY <1>0, <2>1, <3>1 DEF LedgerOf
    <3>. QED  BY <1>0, <2>1, <3>1, <3>2 DEF LedgerOf, Accepted, Verified
  <2>3. CASE about[r] # w
    <3>1. Heard(w)' <=> Heard(w)
      BY <2>1, <2>3 DEF Heard
    <3>. QED  BY <1>0, <2>1, <2>3, <3>1, LedgerKept
  <2>. QED  BY <2>2, <2>3
<1>7. ASSUME NEW r \in Requests, Fail(r) PROVE LedgerOf(w)'
  <2>1. /\ UNCHANGED <<answer, stored, cleared>> /\ pc[r] # "idle"
        /\ unheard' = IF pc[r] = "202" THEN [unheard EXCEPT ![about[r]] = @ + 1] ELSE unheard
        /\ pc' = [pc EXCEPT ![r] = "idle"] /\ about' = [about EXCEPT ![r] = "none"]
    BY <1>7 DEF Fail
  <2>2. CASE about[r] = w /\ pc[r] = "202"
    <3>1. Heard(w) /\ ~Heard(w)' /\ unheard'[w] = unheard[w] + 1
      BY <2>1, <2>2 DEF Heard
    <3>. QED  BY <1>0, <2>1, <3>1 DEF LedgerOf, Accepted, Verified
  <2>3. CASE ~(about[r] = w /\ pc[r] = "202")
    <3>1. Heard(w)' <=> Heard(w)
      BY <2>1, <2>3 DEF Heard
    <3>2. unheard'[w] = unheard[w]
      BY <2>1, <2>3
    <3>. QED  BY <1>0, <2>1, <3>1, <3>2, LedgerKept
  <2>. QED  BY <2>2, <2>3
<1>8. CASE UNCHANGED <<answer, stored, cleared, unheard, about, pc>>
  <2>1. Heard(w)' <=> Heard(w)
    BY <1>8 DEF Heard
  <2>. QED  BY <1>0, <1>8, <2>1, LedgerKept
<1>. QED
  BY <1>1, <1>2, <1>3, <1>4, <1>5, <1>6, <1>7, <1>8 DEF Next, Handle, Expire, Progress, vars

\* main.py: a source is answered 202 only once its alert is committed, a forged or garbled
\* one leaves nothing, and a webhook that is posted again was answered, but not heard.
THEOREM AnswersTell == Spec => []AnswerTells
<1>1. Init => IInv /\ Ledger
  <2>1. Init => Ledger
    BY DEF Init, Ledger, LedgerOf, Heard
  <2>. QED  BY <2>1, InitInv
<1>2. IInv /\ Ledger /\ [Next]_vars => IInv' /\ Ledger'
  BY StepInv, LedgerStep
<1>3. IInv /\ Ledger => AnswerTells
  <2> SUFFICES ASSUME IInv, Ledger, NEW w \in Webhooks
               PROVE  /\ (answer[w] = 202 /\ w \notin Resolving) => stored[w] >= 1
                      /\ answer[w] \in {401, 422} => stored[w] = 0 /\ cleared[w] = {}
                      /\ answer[w] = 401 <=> answer[w] # 0 /\ w \in Forged
                      /\ (answer[w] = 0 /\ w \notin Resolving)
                            => stored[w] = unheard[w] + Cardinality(Pending(w))
    BY DEF AnswerTells
  <2>1. LedgerOf(w) /\ answer[w] \in {0, 202, 401, 422} /\ unheard[w] \in Nat
    BY DEF Ledger, IInv, Types
  <2>2. Accepted(w) => w \notin Forged
    BY DEF Accepted, Verified
  <2>. QED  BY <2>1, <2>2, OnePending DEF LedgerOf
<1>. QED  BY <1>1, <1>2, <1>3, PTL DEF Spec

-----------------------------------------------------------------------------
\* What an alert has resolved stays resolved, and whoever is still to commit to it knows.
Resolved ==
  /\ \A i \in byAlert : status[i] = "resolved" /\ firing[i] <= late[i]
  /\ \A r \in Requests : pc[r] = "commit" => \A i \in matches[r] \cap byAlert : r \in overtaken

\* The lookup of a firing alert, in the words the invariants need.
LEMMA FoundOpen ==
  ASSUME IInv, NEW r \in Requests, FindOpen(r)
  PROVE  /\ pc' = [pc EXCEPT ![r] = "commit"]
         /\ \E found \in SUBSET Ids :
              /\ matches' = [matches EXCEPT ![r] = found]
              /\ \E i \in found : found = {i} /\ seen' = [seen EXCEPT ![r] = count[i]]
              /\ \A i \in found :
                   \/ status[i] = "open"
                   \/ /\ status[i] = "absent"
                      /\ \A s \in Requests : pc[s] = "commit" => i \notin matches[s]
<1> DEFINE open == {i \in recent : status[i] = "open" /\ key[i] = Normalize(about[r]).fingerprint}
           taken == UNION {matches[s] : s \in {t \in Requests : pc[t] = "commit"}}
           unused == {i \in Ids \ taken : status[i] = "absent"}
<1>1. PICK found : /\ found = IF open # {} THEN Latest(open) ELSE Earliest(unused)
                   /\ matches' = [matches EXCEPT ![r] = found]
                   /\ \E i \in found : seen' = [seen EXCEPT ![r] = count[i]]
  BY DEF FindOpen
<1>2. found \in SUBSET open \/ found \in SUBSET unused
  BY <1>1 DEF Latest, Earliest
<1>3. found \in SUBSET Ids
  BY <1>2 DEF IInv, Types
<1>4. \A i, j \in found : i = j
  <2>1. \A i, j \in found : i <= j /\ j <= i
    BY <1>1 DEF Latest, Earliest
  <2>. QED  BY <1>3, <2>1 DEF Ids
<1>5. \A i \in found : \/ status[i] = "open"
                       \/ /\ status[i] = "absent"
                          /\ \A s \in Requests : pc[s] = "commit" => i \notin matches[s]
  BY <1>2
<1>6. \E i \in found : found = {i} /\ seen' = [seen EXCEPT ![r] = count[i]]
  <2>1. PICK i \in found : seen' = [seen EXCEPT ![r] = count[i]]
    BY <1>1
  <2>2. found = {i}
    BY <1>4
  <2>. QED  BY <2>1, <2>2
<1>7. pc' = [pc EXCEPT ![r] = "commit"]
  BY DEF FindOpen, Goto
<1> HIDE DEF open, taken, unused
<1>. QED  BY <1>1, <1>3, <1>5, <1>6, <1>7

LEMMA ResolvedStep == IInv /\ Resolved /\ [Next]_vars => Resolved'
<1> SUFFICES ASSUME IInv, Resolved, [Next]_vars PROVE Resolved'
  OBVIOUS
<1> USE DEF IInv, Types, Slots, Resolved, incidents, requests, history, Goto, End
<1>1. CASE Restart
  BY <1>1 DEF Restart
<1>2. ASSUME NEW r \in Requests, NEW w \in Webhooks, Receive(r, w) PROVE Resolved'
  BY <1>2 DEF Receive
<1>3. ASSUME NEW r \in Requests, Find(r) PROVE Resolved'
  <2>1. UNCHANGED <<incidents, history>>
    BY <1>3 DEF Find
  <2>2. CASE FindLive(r)
    BY <2>1, <2>2 DEF FindLive
  <2>3. CASE FindOpen(r)
    <3>1. PICK found \in SUBSET Ids :
            /\ matches' = [matches EXCEPT ![r] = found]
            /\ \A i \in found : status[i] \in {"open", "absent"}
      BY <2>3, FoundOpen
    <3>2. pc' = [pc EXCEPT ![r] = "commit"]
      BY <2>3, FoundOpen
    <3>3. found \cap byAlert = {}
      BY <3>1
    <3>. QED  BY <2>1, <3>1, <3>2, <3>3
  <2>. QED  BY <1>3, <2>2, <2>3 DEF Find
<1>4. ASSUME NEW r \in Requests, Commit(r) PROVE Resolved'
  <2>1. PICK i \in matches[r] :
          /\ Attach(r, i)
          /\ late' = [late EXCEPT ![i] = IF r \in overtaken THEN @ + firing'[i] - firing[i] ELSE @]
          /\ overtaken' = overtaken \ {r}
    BY <1>4 DEF Commit
  <2>2. /\ i \in Ids /\ pc[r] = "commit" /\ pc' = [pc EXCEPT ![r] = "202"]
        /\ UNCHANGED <<matches, byAlert>>
    BY <1>4 DEF Commit
  <2>3. /\ status' = [status EXCEPT ![i] = IF @ = "absent" THEN "open" ELSE @]
        /\ firing' = [firing EXCEPT ![i] = firing'[i]] /\ firing'[i] \in {firing[i], firing[i] + 1}
    BY <2>1, <2>2 DEF Attach
  <2>4. ASSUME NEW j \in byAlert PROVE status'[j] = "resolved" /\ firing'[j] <= late'[j]
    <3>1. CASE j = i
      <4>1. r \in overtaken
        BY <2>2, <3>1
      <4>2. late'[i] = late[i] + firing'[i] - firing[i]
        BY <2>1, <2>2, <4>1
      <4>. QED  BY <2>2, <2>3, <3>1, <4>2
    <3>2. CASE j # i
      BY <2>1, <2>2, <2>3, <3>2
    <3>. QED  BY <3>1, <3>2
  <2>5. \A s \in Requests : pc'[s] = "commit" => s # r /\ pc[s] = "commit"
    BY <2>2
  <2>. QED  BY <2>1, <2>2, <2>4, <2>5
<1>5. ASSUME NEW r \in Requests, Resolve(r) PROVE Resolved'
  <2>1. /\ pc' = [pc EXCEPT ![r] = "202"] /\ UNCHANGED matches
    BY <1>5 DEF Resolve
  <2>2. CASE UNCHANGED <<incidents, history>>
    BY <2>1, <2>2
  <2>3. ASSUME NEW i \in Ids, Closes(r, i) PROVE Resolved'
    BY <2>1, <2>3 DEF Closes
  <2>. QED  BY <1>5, <2>2, <2>3, ResolveCases
<1>6. ASSUME NEW r \in Requests, Reply(r) \/ Fail(r) PROVE Resolved'
  BY <1>6 DEF Reply, Fail
<1>7. ASSUME NEW i \in Ids, Progress(i) PROVE Resolved'
  BY <1>7 DEF Progress, Live
<1>8. CASE UNCHANGED <<status, firing, requests, history>>
  BY <1>8
<1>. QED
  BY <1>1, <1>2, <1>3, <1>4, <1>5, <1>6, <1>7, <1>8 DEF Next, Handle, Refuse, Expire, vars

\* _resolve: an incident its alert has resolved keeps no firing row, but of the webhooks
\* that had found it open before and commit after: under the row lock the flip reaches
\* all that is committed, and a later lookup does not find the incident.
THEOREM StrandsAreLate == Spec => []StrandedLate
<1>1. Init => IInv /\ Resolved
  <2>1. Init => Resolved
    BY DEF Init, Resolved
  <2>. QED  BY <2>1, InitInv
<1>2. IInv /\ Resolved /\ [Next]_vars => IInv' /\ Resolved'
  BY StepInv, ResolvedStep
<1>3. Resolved => StrandedLate
  BY DEF Resolved, StrandedLate
<1>. QED  BY <1>1, <1>2, <1>3, PTL DEF Spec

-----------------------------------------------------------------------------
\* The counts of an incident, and those that a request read of it.
CountsOf(i) ==
  /\ status[i] = "absent" => count[i] = 0 /\ rows[i] = 0 /\ opening[i] = 0
  /\ status[i] # "absent" =>
       /\ count[i] >= 1 /\ count[i] <= rows[i] /\ opening[i] = 1
       /\ i \notin stale => count[i] = rows[i]

SeenOf(r, i) ==
  /\ status[i] = "absent" => seen[r] = 0
  /\ status[i] # "absent" => seen[r] >= 1 /\ seen[r] <= rows[i]

Counted ==
  /\ \A i \in Ids : CountsOf(i)
  /\ \A r \in Requests : pc[r] = "commit" =>
       \A i \in matches[r] : matches[r] = {i} /\ SeenOf(r, i)
  /\ \A r, s \in Requests : pc[r] = "commit" /\ pc[s] = "commit" =>
       \A i \in matches[r] \cap matches[s] : status[i] = "absent" => r = s

LEMMA CountedStep == IInv /\ Counted /\ [Next]_vars => Counted'
<1> SUFFICES ASSUME IInv, Counted, [Next]_vars PROVE Counted'
  OBVIOUS
<1> USE DEF IInv, Types, Counted, CountsOf, SeenOf, incidents, requests, history, Goto, End
<1>1. CASE Restart
  BY <1>1 DEF Restart
<1>2. ASSUME NEW r \in Requests, NEW w \in Webhooks, Receive(r, w) PROVE Counted'
  BY <1>2 DEF Receive
<1>3. ASSUME NEW r \in Requests, Find(r) PROVE Counted'
  <2>1. UNCHANGED <<incidents, history>>
    BY <1>3 DEF Find
  <2>2. CASE FindLive(r)
    BY <2>1, <2>2 DEF FindLive
  <2>3. CASE FindOpen(r)
    <3>1. PICK found \in SUBSET Ids :
            /\ matches' = [matches EXCEPT ![r] = found]
            /\ \E i \in found : found = {i} /\ seen' = [seen EXCEPT ![r] = count[i]]
            /\ \A i \in found :
                 \/ status[i] = "open"
                 \/ /\ status[i] = "absent"
                    /\ \A s \in Requests : pc[s] = "commit" => i \notin matches[s]
      BY <2>3, FoundOpen
    <3>2. PICK i \in Ids : found = {i} /\ seen' = [seen EXCEPT ![r] = count[i]]
      BY <3>1
    <3>3. pc' = [pc EXCEPT ![r] = "commit"] /\ matches' = [matches EXCEPT ![r] = {i}]
      BY <2>3, <3>1, <3>2, FoundOpen
    <3>4. \/ status[i] = "open"
          \/ /\ status[i] = "absent"
             /\ \A s \in Requests : pc[s] = "commit" => i \notin matches[s]
      BY <3>1, <3>2
    <3>. QED  BY <2>1, <3>2, <3>3, <3>4
  <2>. QED  BY <1>3, <2>2, <2>3 DEF Find
<1>4. ASSUME NEW r \in Requests, Commit(r) PROVE Counted'
  <2>1. PICK i \in matches[r] :
          /\ Attach(r, i)
          /\ stale' = IF count[i] # seen[r] THEN stale \cup {i} ELSE stale
    BY <1>4 DEF Commit
  <2>2. /\ i \in Ids /\ pc[r] = "commit" /\ pc' = [pc EXCEPT ![r] = "202"]
        /\ UNCHANGED <<matches, seen>>
        /\ matches[r] = {i} /\ SeenOf(r, i) /\ CountsOf(i)
    BY <1>4 DEF Commit
  <2>3. /\ \A j \in Ids \ {i} : /\ status'[j] = status[j] /\ count'[j] = count[j]
                                /\ rows'[j] = rows[j] /\ opening'[j] = opening[j]
                                /\ j \in stale' <=> j \in stale
        /\ count'[i] = seen[r] + 1 /\ rows'[i] = rows[i] + 1
        /\ opening'[i] = IF seen[r] = 0 THEN opening[i] + 1 ELSE opening[i]
        /\ status'[i] # "absent"
        /\ i \in stale' <=> (i \in stale \/ count[i] # seen[r])
    BY <2>1, <2>2 DEF Attach
  <2>4. ASSUME NEW j \in Ids PROVE CountsOf(j)'
    <3>1. CASE j = i
      BY <2>2, <2>3, <3>1
    <3>2. CASE j # i
      BY <2>3, <3>2
    <3>. QED  BY <3>1, <3>2
  <2>5. ASSUME NEW s \in Requests, pc'[s] = "commit", NEW j \in matches[s]
        PROVE  matches[s] = {j} /\ SeenOf(s, j)'
    <3>1. s # r /\ pc[s] = "commit" /\ matches[s] = {j} /\ SeenOf(s, j) /\ j \in Ids
      BY <2>2, <2>5
    <3>2. CASE j = i
      <4>1. status[i] # "absent"
        BY <2>2, <3>1, <3>2
      <4>. QED  BY <2>2, <2>3, <3>1, <3>2, <4>1
    <3>3. CASE j # i
      BY <2>2, <2>3, <3>1, <3>3
    <3>. QED  BY <3>1, <3>2, <3>3
  <2>6. \A j \in Ids : status'[j] = "absent" => status[j] = "absent"
    BY <2>3
  <2>. QED  BY <2>2, <2>4, <2>5, <2>6
<1>5. ASSUME NEW r \in Requests, Resolve(r) PROVE Counted'
  <2>1. /\ pc' = [pc EXCEPT ![r] = "202"] /\ UNCHANGED <<matches, seen>>
    BY <1>5 DEF Resolve
  <2>2. CASE UNCHANGED <<incidents, history>>
    BY <2>1, <2>2
  <2>3. ASSUME NEW i \in Ids, Closes(r, i) PROVE Counted'
    <3>1. /\ UNCHANGED <<count, rows, opening, stale>>
          /\ \A j \in Ids : status'[j] = "absent" <=> status[j] = "absent"
      BY <2>3 DEF Closes, Live
    <3>. QED  BY <2>1, <3>1
  <2>. QED  BY <1>5, <2>2, <2>3, ResolveCases
<1>6. ASSUME NEW r \in Requests, Reply(r) \/ Fail(r) PROVE Counted'
  <2>1. /\ UNCHANGED <<incidents, stale>> /\ pc'[r] = "idle"
        /\ \A s \in Requests \ {r} : pc'[s] = pc[s] /\ matches'[s] = matches[s]
                                     /\ seen'[s] = seen[s]
    BY <1>6 DEF Reply, Fail
  <2>2. \A s \in Requests : pc'[s] = "commit" =>
          pc[s] = "commit" /\ matches'[s] = matches[s] /\ seen'[s] = seen[s]
    BY <2>1
  <2>. QED  BY <2>1, <2>2
<1>7. ASSUME NEW i \in Ids, Progress(i) PROVE Counted'
  <2>1. /\ UNCHANGED <<count, rows, opening, stale, requests>>
        /\ \A j \in Ids : status'[j] = "absent" <=> status[j] = "absent"
    BY <1>7 DEF Progress, Live
  <2>. QED  BY <2>1
<1>8. CASE UNCHANGED <<status, count, rows, opening, stale, requests>>
  BY <1>8
<1>. QED
  BY <1>1, <1>2, <1>3, <1>4, <1>5, <1>6, <1>7, <1>8 DEF Next, Handle, Refuse, Expire, vars

\* persistence.py: alert_count trails the alert rows only by what a webhook overwrote with
\* a stale count, and an incident has one opening event, although no lookup takes a lock.
THEOREM CountsTrail == Spec => []CountTrails
<1>1. Init => IInv /\ Counted
  <2>1. Init => Counted
    BY DEF Init, Counted, CountsOf, Zero
  <2>. QED  BY <2>1, InitInv
<1>2. IInv /\ Counted /\ [Next]_vars => IInv' /\ Counted'
  BY StepInv, CountedStep
<1>3. IInv /\ Counted => CountTrails
  BY DEF IInv, Types, Counted, CountsOf, CountTrails, Opened
<1>. QED  BY <1>1, <1>2, <1>3, PTL DEF Spec
=============================================================================
