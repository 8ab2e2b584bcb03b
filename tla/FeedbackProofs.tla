--------------------------- MODULE FeedbackProofs ---------------------------
(***************************************************************************)
(* Theorems about the life of an incident, for any number of incidents,    *)
(* overlapping webhooks, overlapping deliveries and failures; and about    *)
(* the clicks and questions beside it.                                     *)
(*                                                                         *)
(* The clicks and the bot change an incident only as Incident's engineers  *)
(* do, so what is proved of Incident holds beside any number of clicks and *)
(* questions.  On it rests that an incident is not resolved twice but for  *)
(* its one delivery.                                                       *)
(***************************************************************************)
EXTENDS Feedback, FiniteSetTheorems, TLAPS

(* The life of an incident.                                                *)

\* A delivery under way is about a recommendation, and that about an incident.
Shape ==
  /\ \A d \in Deliveries : pc[d] # "idle" => about[d] \in rec
  /\ \A i \in rec : status[i] # "absent"

\* The row lock: one delivery holds a recommendation, and not one that is delivered.
InPost(d) == pc[d] \in {"post", "record"}

Exclusive ==
  /\ \A d, e \in Deliveries : InPost(d) /\ InPost(e) /\ about[d] = about[e] => d = e
  /\ \A d \in Deliveries : InPost(d) => about[d] \notin delivered

\* The cards, counted without a cardinality.
Cards ==
  \A i \in Ids :
    /\ (\E d \in Deliveries : about[d] = i /\ pc[d] = "record") => cards[i] = lost[i] + 1
    /\ i \in delivered => cards[i] = lost[i] + 1
    /\ (/\ i \notin delivered
        /\ \A d \in Deliveries : ~(about[d] = i /\ pc[d] = "record")) => cards[i] = lost[i]
    /\ status[i] = "investigating" => i \in delivered

IInv == TypeOK /\ Shape /\ Exclusive /\ Cards

-----------------------------------------------------------------------------
LEMMA InitInv == Init => IInv
<1> SUFFICES ASSUME Init PROVE IInv
  OBVIOUS
<1>1. TypeOK
  BY IncidentAssumption DEF Init, TypeOK, Steps
<1>2. Shape /\ Exclusive /\ Cards
  BY DEF Init, Shape, Exclusive, InPost, Cards
<1>. QED  BY <1>1, <1>2 DEF IInv

LEMMA TypeStep == TypeOK /\ Shape /\ [Next]_vars => TypeOK'
<1> SUFFICES ASSUME TypeOK, Shape, [Next]_vars PROVE TypeOK'
  OBVIOUS
<1> USE IncidentAssumption
    DEF TypeOK, rows, deliveries, slack, Goto, End, Steps, States, Ids, Latest, Earliest, Live
<1>1. ASSUME NEW s \in Senders, FireLookup(s) PROVE TypeOK'
  <2>1. PICK i \in Ids : target' = [target EXCEPT ![s] = i]
    BY <1>1 DEF FireLookup, Find
  <2>2. target' \in [Senders -> Ids \cup {0}]
    BY <2>1
  <2>. QED  BY <1>1, <2>2 DEF FireLookup
<1>2. ASSUME NEW s \in Senders, FireCommit(s) PROVE TypeOK'
  BY <1>2 DEF FireCommit
<1>3. ASSUME NEW i \in Ids, Expire(i) PROVE TypeOK'
  BY <1>3 DEF Expire
<1>4. ASSUME NEW i \in Ids, Recommend(i) PROVE TypeOK'
  BY <1>4 DEF Recommend
<1>5. ASSUME NEW i \in Ids, Click(i) PROVE TypeOK'
  BY <1>5 DEF Click
<1>6. ASSUME Clear PROVE TypeOK'
  BY <1>6 DEF Clear
<1>7. ASSUME NEW d \in Deliveries, NEW i \in Ids, Receive(d, i) PROVE TypeOK'
  BY <1>7 DEF Receive
<1>8. ASSUME NEW d \in Deliveries, Gate(d) PROVE TypeOK'
  BY <1>8 DEF Gate
<1>9. ASSUME NEW d \in Deliveries, Lock(d) PROVE TypeOK'
  <2>1. about[d] \in rec /\ status[about[d]] \in States
    BY <1>9 DEF Lock, Shape
  <2>2. seen' \in [Deliveries -> States \cup {"none"}]
    BY <1>9, <2>1 DEF Lock, ReadThenPost
  <2>. QED  BY <1>9, <2>2 DEF Lock, ReadThenPost
<1>10. ASSUME NEW d \in Deliveries, Post(d) PROVE TypeOK'
  BY <1>10 DEF Post, Shape
<1>11. ASSUME NEW d \in Deliveries, Record(d) PROVE TypeOK'
  <2>1. about[d] \in rec
    BY <1>11 DEF Record, Shape
  <2>2. /\ delivered' \subseteq rec
        /\ status' \in [Ids -> States \cup {"absent"}]
    BY <1>11, <2>1 DEF Record
  <2>3. QED  BY <1>11, <2>2 DEF Record
<1>12. ASSUME NEW d \in Deliveries, Fail(d) PROVE TypeOK'
  <2>1. failures' \in 0 .. MaxFailures
    BY <1>12 DEF Fail
  <2>2. lost' \in [Ids -> Nat]
    BY <1>12 DEF Fail, Shape
  <2>. QED  BY <1>12, <2>1, <2>2 DEF Fail
<1>13. CASE UNCHANGED vars
  BY <1>13 DEF vars
<1>. QED
  BY <1>1, <1>2, <1>3, <1>4, <1>5, <1>6, <1>7, <1>8, <1>9, <1>10, <1>11, <1>12, <1>13
  DEF Next, Handle

LEMMA ShapeStep == TypeOK /\ Shape /\ [Next]_vars => Shape'
<1> SUFFICES ASSUME TypeOK, Shape, [Next]_vars PROVE Shape'
  OBVIOUS
<1> USE DEF TypeOK, Shape, rows, deliveries, slack, Goto, End, States, Latest, Live
<1>1. ASSUME NEW s \in Senders, FireLookup(s) PROVE Shape'
  BY <1>1 DEF FireLookup
<1>2. ASSUME NEW s \in Senders, FireCommit(s) PROVE Shape'
  BY <1>2 DEF FireCommit
<1>3. ASSUME NEW i \in Ids, Expire(i) PROVE Shape'
  BY <1>3 DEF Expire
<1>4. ASSUME NEW i \in Ids, Recommend(i) PROVE Shape'
  BY <1>4 DEF Recommend
<1>5. ASSUME NEW i \in Ids, Click(i) PROVE Shape'
  BY <1>5 DEF Click
<1>6. ASSUME Clear PROVE Shape'
  BY <1>6 DEF Clear
<1>7. ASSUME NEW d \in Deliveries, NEW i \in Ids, Receive(d, i) PROVE Shape'
  BY <1>7 DEF Receive
<1>8. ASSUME NEW d \in Deliveries, Gate(d) PROVE Shape'
  BY <1>8 DEF Gate
<1>9. ASSUME NEW d \in Deliveries, Lock(d) PROVE Shape'
  BY <1>9 DEF Lock, ReadThenPost
<1>10. ASSUME NEW d \in Deliveries, Post(d) PROVE Shape'
  BY <1>10 DEF Post
<1>11. ASSUME NEW d \in Deliveries, Record(d) PROVE Shape'
  BY <1>11 DEF Record
<1>12. ASSUME NEW d \in Deliveries, Fail(d) PROVE Shape'
  BY <1>12 DEF Fail
<1>13. CASE UNCHANGED vars
  BY <1>13 DEF vars
<1>. QED
  BY <1>1, <1>2, <1>3, <1>4, <1>5, <1>6, <1>7, <1>8, <1>9, <1>10, <1>11, <1>12, <1>13
  DEF Next, Handle

\* Only the deliveries' own steps touch what the lock and the cards are about.
LEMMA ExclusiveStep == IInv /\ [Next]_vars => Exclusive'
<1> SUFFICES ASSUME IInv, [Next]_vars PROVE Exclusive'
  OBVIOUS
<1> USE DEF IInv, TypeOK, Shape, Exclusive, InPost, rows, deliveries, Goto, End
<1>1. CASE UNCHANGED <<deliveries, delivered>>
  BY <1>1
<1>2. ASSUME NEW d \in Deliveries, NEW i \in Ids, Receive(d, i) PROVE Exclusive'
  BY <1>2 DEF Receive
<1>3. ASSUME NEW d \in Deliveries, Gate(d) PROVE Exclusive'
  BY <1>3 DEF Gate
<1>4. ASSUME NEW d \in Deliveries, Lock(d) PROVE Exclusive'
  BY <1>4 DEF Lock, ReadThenPost, Locked
<1>5. ASSUME NEW d \in Deliveries, Post(d) PROVE Exclusive'
  BY <1>5 DEF Post
<1>6. ASSUME NEW d \in Deliveries, Record(d) PROVE Exclusive'
  BY <1>6 DEF Record
<1>7. ASSUME NEW d \in Deliveries, Fail(d) PROVE Exclusive'
  BY <1>7 DEF Fail
<1>. QED
  BY <1>1, <1>2, <1>3, <1>4, <1>5, <1>6, <1>7
  DEF Next, Handle, vars, FireLookup, FireCommit, Expire, Recommend, Click, Clear

LEMMA CardsStep == IInv /\ [Next]_vars => Cards'
<1> SUFFICES ASSUME IInv, [Next]_vars PROVE Cards'
  OBVIOUS
<1> USE DEF IInv, TypeOK, Shape, Cards, rows, deliveries, slack, Goto, End, States, Latest, Live
<1>1. CASE UNCHANGED <<status, delivered, deliveries, slack>>
  BY <1>1
<1>2. ASSUME NEW s \in Senders, FireCommit(s) PROVE Cards'
  BY <1>2 DEF FireCommit
<1>3. ASSUME NEW i \in Ids, Click(i) PROVE Cards'
  BY <1>3 DEF Click
<1>4. ASSUME Clear PROVE Cards'
  BY <1>4 DEF Clear
<1>5. ASSUME NEW d \in Deliveries, NEW i \in Ids, Receive(d, i) PROVE Cards'
  BY <1>5 DEF Receive
<1>6. ASSUME NEW d \in Deliveries, Gate(d) PROVE Cards'
  BY <1>6 DEF Gate
<1>7. ASSUME NEW d \in Deliveries, Lock(d) PROVE Cards'
  BY <1>7 DEF Lock, ReadThenPost
<1>8. ASSUME NEW d \in Deliveries, Post(d) PROVE Cards'
  BY <1>8 DEF Post, Exclusive, InPost
<1>9. ASSUME NEW d \in Deliveries, Record(d) PROVE Cards'
  BY <1>9 DEF Record, Exclusive, InPost
<1>10. ASSUME NEW d \in Deliveries, Fail(d) PROVE Cards'
  BY <1>10 DEF Fail, Exclusive, InPost
<1>. QED
  BY <1>1, <1>2, <1>3, <1>4, <1>5, <1>6, <1>7, <1>8, <1>9, <1>10
  DEF Next, Handle, vars, FireLookup, Expire, Recommend

LEMMA StepInv == IInv /\ [Next]_vars => IInv'
  BY TypeStep, ShapeStep, ExclusiveStep, CardsStep DEF IInv

LEMMA Invariance == Spec => []IInv
  BY InitInv, StepInv, PTL DEF Spec

\* Every variable keeps its type: ingestion, clicks and deliveries set no other status.
THEOREM TypeCorrect == Spec => []TypeOK
<1>1. IInv => TypeOK
  BY DEF IInv
<1>. QED  BY <1>1, Invariance, PTL

-----------------------------------------------------------------------------
\* The cards in Slack are the recorded one, one about to be recorded, and those of
\* deliveries that failed after the post, however many deliveries overlap: the row lock
\* held through the post (delivery.py) lets one at a time post, and none after it recorded.
THEOREM EveryCardExplained == Spec => []CardsExplained
<1>1. IInv => CardsExplained
  <2> SUFFICES ASSUME IInv, NEW i \in Ids PROVE
        LET R == {d \in Deliveries : about[d] = i /\ pc[d] = "record"}
        IN /\ cards[i] = lost[i] + Cardinality(R) + (IF i \in delivered THEN 1 ELSE 0)
           /\ status[i] = "investigating" => i \in delivered
    BY DEF CardsExplained
  <2> DEFINE R == {d \in Deliveries : about[d] = i /\ pc[d] = "record"}
  <2>1. lost[i] \in Nat
    BY DEF IInv, TypeOK
  <2>2. CASE R = {}
    <3>1. Cardinality(R) = 0
      BY <2>2, FS_EmptySet
    <3>2. cards[i] = lost[i] + (IF i \in delivered THEN 1 ELSE 0)
      BY <2>1, <2>2 DEF IInv, Cards
    <3>. QED  BY <2>1, <3>1, <3>2 DEF IInv, Cards
  <2>3. ASSUME NEW d \in R PROVE Cardinality(R) = 1 /\ cards[i] = lost[i] + 1 /\ i \notin delivered
    <3>1. R = {d}
      BY DEF IInv, Exclusive, InPost
    <3>2. Cardinality(R) = 1
      BY <3>1, FS_Singleton
    <3>. QED  BY <3>2 DEF IInv, Exclusive, InPost, Cards
  <2>. QED  BY <2>1, <2>2, <2>3 DEF IInv, Cards
<1>. QED  BY <1>1, Invariance, PTL

\* Once its card is recorded, nothing takes an incident out of resolved: not a delivery
\* that read it open and was waiting, for the lock has it find the card recorded.
THEOREM ResolvedStays == Spec => FinalOnceTold
<1>1. ASSUME IInv, [Next]_vars, NEW i \in delivered, status[i] = "resolved"
      PROVE  status'[i] = "resolved"
  <2> USE <1>1 DEF IInv, TypeOK, Latest, Live
  <2>1. CASE UNCHANGED status
    BY <2>1
  <2>2. CASE \E s \in Senders : FireCommit(s)
    BY <2>2 DEF FireCommit
  <2>3. CASE Clear \/ \E j \in Ids : Click(j)
    BY <2>3 DEF Clear, Click
  <2>4. CASE \E d \in Deliveries : Record(d)
    BY <2>4 DEF Record, Exclusive, InPost
  <2>. QED
    BY <2>1, <2>2, <2>3, <2>4
    DEF Next, Handle, vars, rows, FireLookup, Expire, Recommend, Receive, Gate, Lock, Post,
        Fail
<1>2. IInv /\ [Next]_vars
        => [\A i \in delivered : status[i] = "resolved" => status'[i] = "resolved"]_vars
  BY <1>1
<1>. QED  BY <1>2, Invariance, PTL DEF Spec, FinalOnceTold

-----------------------------------------------------------------------------
\* Incidents that are open in the window, and senders on their way to open another.
OpenRecent == {i \in recent : status[i] = "open"}
Openers == {s \in Senders : target[s] # 0 /\ status[target[s]] = "absent"}

Room ==
  /\ IsFiniteSet(OpenRecent)
  /\ Cardinality(OpenRecent) + Cardinality(Openers) <= Cardinality(Senders)

LEMMA OpenersFinite ==
  /\ Cardinality(Senders) \in Nat
  /\ IsFiniteSet(Openers) /\ Cardinality(Openers) \in Nat
  /\ Cardinality(Openers) <= Cardinality(Senders)
<1>1. IsFiniteSet(Senders) /\ Openers \in SUBSET Senders
  BY IncidentAssumption DEF Openers
<1>. QED  BY <1>1, FS_Subset, FS_CardinalityType

\* What neither opens an incident nor looks for one can only close some.
LEMMA RoomKept ==
  ASSUME Room, OpenRecent' \subseteq OpenRecent, Openers' \subseteq Openers
  PROVE  Room'
<1>1. IsFiniteSet(OpenRecent') /\ Cardinality(OpenRecent') <= Cardinality(OpenRecent)
  BY FS_Subset DEF Room
<1>2. IsFiniteSet(Openers') /\ Cardinality(Openers') <= Cardinality(Openers)
  BY FS_Subset, OpenersFinite
<1>3. /\ Cardinality(OpenRecent) \in Nat /\ Cardinality(OpenRecent') \in Nat
      /\ Cardinality(Openers) \in Nat /\ Cardinality(Openers') \in Nat
      /\ Cardinality(Senders) \in Nat
  BY <1>1, <1>2, FS_CardinalityType, OpenersFinite DEF Room
<1>. QED  BY <1>1, <1>2, <1>3 DEF Room

\* A lookup finds an open incident, or there is none and all the room is left.
LEMMA LookupRoom ==
  ASSUME IInv, Room, NEW s \in Senders, FireLookup(s)
  PROVE  Room'
<1> USE DEF IInv, TypeOK, rows
<1>1. PICK i \in Ids :
        /\ target' = [target EXCEPT ![s] = i]
        /\ OpenRecent # {} => status[i] = "open"
  BY DEF FireLookup, Find, OpenRecent, Latest, Earliest
<1>2. OpenRecent' = OpenRecent
  BY DEF FireLookup, OpenRecent
<1>3. CASE OpenRecent # {}
  <2>1. Openers' \subseteq Openers
    BY <1>1, <1>3 DEF FireLookup, Openers
  <2>. QED  BY <1>2, <2>1, RoomKept
<1>4. CASE OpenRecent = {}
  <2>1. IsFiniteSet(Senders) /\ Openers' \in SUBSET Senders
    BY IncidentAssumption DEF Openers
  <2>2. Cardinality(Openers') <= Cardinality(Senders)
    BY <2>1, FS_Subset
  <2>3. Cardinality(Openers') \in Nat /\ Cardinality(Senders) \in Nat
    BY <2>1, FS_Subset, FS_CardinalityType
  <2>. QED  BY <1>2, <1>4, <2>2, <2>3, FS_EmptySet DEF Room
<1>. QED  BY <1>3, <1>4

\* A commit turns an opener into an open incident.
LEMMA CommitRoom ==
  ASSUME IInv, Room, NEW s \in Senders, FireCommit(s)
  PROVE  Room'
<1> DEFINE i == target[s]
<1> USE DEF IInv, TypeOK
<1>1. i \in Ids /\ 0 \notin Ids
  BY IncidentAssumption DEF FireCommit, Ids
<1>2. CASE status[i] # "absent"
  <2>1. UNCHANGED <<status, recent>> /\ target' = [target EXCEPT ![s] = 0]
    BY <1>1, <1>2 DEF FireCommit
  <2>2. OpenRecent' \subseteq OpenRecent /\ Openers' \subseteq Openers
    BY <2>1 DEF OpenRecent, Openers
  <2>. QED  BY <2>2, RoomKept
<1>3. CASE status[i] = "absent"
  <2>1. /\ status' = [status EXCEPT ![i] = "open"]
        /\ recent' = recent \cup {i}
        /\ target' = [target EXCEPT ![s] = 0]
    BY <1>1, <1>3 DEF FireCommit
  <2>2. OpenRecent' = OpenRecent \cup {i}
    BY <1>1, <2>1 DEF OpenRecent
  <2>3. s \in Openers /\ Openers' \subseteq Openers \ {s}
    BY <1>1, <1>3, <2>1 DEF Openers, FireCommit
  <2>4. /\ IsFiniteSet(OpenRecent')
        /\ Cardinality(OpenRecent') <= Cardinality(OpenRecent) + 1
    <3>1. IsFiniteSet(OpenRecent) /\ Cardinality(OpenRecent) \in Nat
      BY FS_CardinalityType DEF Room
    <3> HIDE DEF IInv, TypeOK, i
    <3>2. /\ IsFiniteSet(OpenRecent \cup {i})
          /\ Cardinality(OpenRecent \cup {i}) \in
               {Cardinality(OpenRecent), Cardinality(OpenRecent) + 1}
      BY <3>1, FS_AddElement
    <3>. QED  BY <2>2, <3>1, <3>2
  <2>5. IsFiniteSet(Openers \ {s}) /\ Cardinality(Openers \ {s}) = Cardinality(Openers) - 1
    BY <2>3, FS_RemoveElement, OpenersFinite
  <2>6. IsFiniteSet(Openers') /\ Cardinality(Openers') <= Cardinality(Openers) - 1
    BY <2>3, <2>5, FS_Subset
  <2>7. /\ Cardinality(OpenRecent) \in Nat /\ Cardinality(OpenRecent') \in Nat
        /\ Cardinality(Openers) \in Nat /\ Cardinality(Openers') \in Nat
        /\ Cardinality(Senders) \in Nat
    BY <2>4, <2>6, FS_CardinalityType, OpenersFinite DEF Room
  <2>. QED  BY <2>4, <2>6, <2>7 DEF Room
<1>. QED  BY <1>2, <1>3

\* Concurrent webhooks open no more incidents than there are of them: every sender that
\* opens one looked while none was open, and there are no more such senders than room.
THEOREM DuplicatesOnlyByOverlap == Spec => []DuplicatesBounded
<1>1. Init => Room
  <2> SUFFICES ASSUME Init PROVE Room
    OBVIOUS
  <2>1. OpenRecent = {} /\ Openers = {}
    BY DEF Init, OpenRecent, Openers
  <2>. QED  BY <2>1, FS_EmptySet, OpenersFinite DEF Room
<1>2. IInv /\ Room /\ [Next]_vars => Room'
  <2> SUFFICES ASSUME IInv, Room, [Next]_vars PROVE Room'
    OBVIOUS
  <2>1. CASE \E s \in Senders : FireLookup(s)
    BY <2>1, LookupRoom
  <2>2. CASE \E s \in Senders : FireCommit(s)
    BY <2>2, CommitRoom
  <2>3. CASE UNCHANGED <<rows, target>>
    BY <2>3, RoomKept DEF rows, OpenRecent, Openers
  <2>4. CASE \E i \in Ids : Expire(i) \/ Click(i)
    <3>1. OpenRecent' \subseteq OpenRecent /\ Openers' \subseteq Openers
      BY <2>4 DEF IInv, TypeOK, Expire, Click, OpenRecent, Openers
    <3>. QED  BY <3>1, RoomKept
  <2>5. CASE Clear
    <3>1. OpenRecent' \subseteq OpenRecent /\ Openers' \subseteq Openers
      BY <2>5 DEF IInv, TypeOK, Clear, Latest, OpenRecent, Openers
    <3>. QED  BY <3>1, RoomKept
  <2>6. CASE \E d \in Deliveries : Record(d)
    <3>1. OpenRecent' \subseteq OpenRecent /\ Openers' \subseteq Openers
      BY <2>6 DEF IInv, TypeOK, Shape, Record, OpenRecent, Openers
    <3>. QED  BY <3>1, RoomKept
  <2>. QED
    BY <2>1, <2>2, <2>3, <2>4, <2>5, <2>6
    DEF Next, Handle, vars, rows, Recommend, Receive, Gate, Lock, Post, Fail
<1>3. Room => DuplicatesBounded
  <2> SUFFICES ASSUME Room PROVE Cardinality(OpenRecent) <= Cardinality(Senders)
    BY DEF DuplicatesBounded, OpenRecent
  <2>. QED  BY OpenersFinite, FS_CardinalityType DEF Room
<1>. QED  BY <1>1, <1>2, <1>3, Invariance, PTL DEF Spec

-----------------------------------------------------------------------------
(* The clicks and the questions.                                           *)

LEMMA ClickStep ==
  ASSUME NEW c \in Clicks, Clicking(c)
  PROVE  [Next]_vars
<1>1. CASE Resolve(c)
  <2>1. PICK x \in Parsed(c) : \E i \in Found(x) :
          Click(i) \/ UNCHANGED vars
    BY <1>1 DEF Resolve
  <2>2. PICK i \in Found(x) : Click(i) \/ UNCHANGED vars
    BY <2>1
  <2>3. CASE Click(i)
    <3>1. i \in Ids
      BY DEF Found
    <3>. QED  BY <2>3, <3>1 DEF Next
  <2>. QED  BY <2>2, <2>3
<1>. QED
  BY <1>1 DEF Clicking, Press, Reject, Rate, Vote, Reflect, Lose

LEMMA LifeStep == [FeedbackNext]_fvars => [Next]_vars
<1> SUFFICES ASSUME [FeedbackNext]_fvars PROVE [Next]_vars
  OBVIOUS
<1>1. CASE Elsewhere
  BY <1>1 DEF Elsewhere, Next, Handle
<1>2. CASE ClearAudited
  BY <1>2 DEF ClearAudited, Next
<1>3. ASSUME NEW d \in Deliveries, PostCard(d) PROVE [Next]_vars
  BY <1>3 DEF PostCard, Next, Handle
<1>4. ASSUME NEW c \in Clicks, Clicking(c) PROVE [Next]_vars
  BY <1>4, ClickStep
<1>5. CASE Bot
  BY <1>5 DEF Bot, Mention, Query, ReplyOrNot
<1>6. CASE UNCHANGED fvars
  BY <1>6 DEF fvars
<1>. QED  BY <1>1, <1>2, <1>3, <1>4, <1>5, <1>6 DEF FeedbackNext

\* Whatever the feedback-service does is a step of the incidents' life, or none.
THEOREM LivesOn == FeedbackSpec => Spec
<1>1. FeedbackInit => Init
  BY DEF FeedbackInit
<1>. QED  BY <1>1, LifeStep, PTL DEF FeedbackSpec, Spec

-----------------------------------------------------------------------------
\* ResolvedOnce, with what each resolution so far still says of the status.
CountsOf(i) ==
  /\ status[i] = "resolved" => Resolved(i) > 0
  /\ i \notin delivered => Resolved(i) <= 1 /\ (Resolved(i) = 1 => status[i] = "resolved")
  /\ i \in delivered => Resolved(i) <= 2 /\ (Resolved(i) = 2 => status[i] = "resolved")

Counts ==
  /\ audits \in [Ids -> [clicked : Nat, cleared : Nat, invalid : Nat]]
  /\ \A i \in Ids : CountsOf(i)

LEMMA CountsStep == IInv /\ Counts /\ [FeedbackNext]_fvars => Counts'
<1> SUFFICES ASSUME IInv, Counts, [FeedbackNext]_fvars PROVE Counts'
  OBVIOUS
<1> USE DEF Counts, CountsOf, Resolved
<1>1. TypeOK /\ Exclusive /\ Shape
  BY DEF IInv
<1>2. CASE UNCHANGED audits
           /\ UNCHANGED <<status, delivered>>
  BY <1>2
<1>3. CASE Elsewhere
  <2>1. UNCHANGED audits
    BY <1>3 DEF Elsewhere
  <2>2. ASSUME NEW s \in Senders, FireCommit(s) PROVE Counts'
    BY <2>1, <2>2, <1>1 DEF FireCommit, TypeOK
  <2>3. ASSUME NEW d \in Deliveries, Record(d) PROVE Counts'
    <3>1. about[d] \in Ids /\ about[d] \notin delivered
      BY <2>3, <1>1 DEF Record, Exclusive, InPost, Shape, TypeOK
    <3>2. /\ delivered' = delivered \cup {about[d]}
          /\ \A i \in Ids \ {about[d]} : status'[i] = status[i]
          /\ status'[about[d]] \in {"investigating", status[about[d]]}
      BY <2>3, <3>1, <1>1 DEF Record, TypeOK
    <3>. QED  BY <2>1, <3>1, <3>2
  <2>4. UNCHANGED <<status, delivered>> \/ (\E s \in Senders : FireCommit(s))
          \/ (\E d \in Deliveries : Record(d))
    BY <1>3 DEF Elsewhere, FireLookup, Expire, Recommend, Receive, Gate, Lock, Fail, rows
  <2>. QED  BY <2>1, <2>2, <2>3, <2>4, <1>2
<1>4. CASE ClearAudited
  <2>1. PICK i \in Ids : Live(i) /\ status' = [status EXCEPT ![i] = "resolved"]
    BY <1>4 DEF ClearAudited, Clear, Latest
  <2>2. /\ audits' = [j \in Ids |-> [audits[j] EXCEPT !.cleared =
                                       IF status'[j] # status[j] THEN @ + 1 ELSE @]]
        /\ delivered' = delivered
    BY <1>4 DEF ClearAudited, Clear
  <2>3. status[i] # "resolved" /\ status \in [Ids -> States \cup {"absent"}]
    BY <2>1, <1>1 DEF Live, TypeOK
  <2>4. audits' \in [Ids -> [clicked : Nat, cleared : Nat, invalid : Nat]]
    BY <2>2
  <2>5. \A j \in Ids \ {i} : /\ status'[j] = status[j]
                             /\ audits'[j].clicked = audits[j].clicked
                             /\ audits'[j].cleared = audits[j].cleared
    BY <2>1, <2>2, <2>3
  <2>6. /\ status'[i] = "resolved"
        /\ audits'[i].clicked = audits[i].clicked /\ audits'[i].cleared = audits[i].cleared + 1
    BY <2>1, <2>2, <2>3
  <2>7. ASSUME NEW j \in Ids, j # i PROVE CountsOf(j)'
    BY <2>2, <2>5, <2>7
  <2>8. /\ status'[i] = "resolved" /\ Resolved(i)' = Resolved(i) + 1
        /\ Resolved(i) \in Nat
        /\ i \notin delivered => Resolved(i) <= 1 /\ Resolved(i) # 1
        /\ i \in delivered => Resolved(i) <= 2 /\ Resolved(i) # 2
    BY <2>3, <2>6
  <2>9. CountsOf(i)'
    <3> HIDE DEF Counts, Resolved
    <3>. QED  BY <2>2, <2>8
  <2>. QED
    <3> HIDE DEF CountsOf
    <3>. QED  BY <2>4, <2>7, <2>9
<1>5. ASSUME NEW d \in Deliveries, PostCard(d) PROVE Counts'
  BY <1>5, <1>2 DEF PostCard, Post, rows
<1>6. ASSUME NEW c \in Clicks, Clicking(c) PROVE Counts'
  <2>1. CASE Resolve(c)
    <3>1. PICK i \in Ids : \/ Click(i) /\ Audit(i, "clicked")
                           \/ ~Live(i) /\ Audit(i, "invalid") /\ UNCHANGED vars
      BY <2>1 DEF Resolve, Found
    <3>2. CASE Click(i) /\ Audit(i, "clicked")
      <4>1. /\ status[i] # "resolved" /\ status \in [Ids -> States \cup {"absent"}]
            /\ status' = [status EXCEPT ![i] = "resolved"] /\ delivered' = delivered
        BY <3>2, <1>1 DEF Click, Live, TypeOK
      <4>2. audits' = [audits EXCEPT ![i].clicked = @ + 1]
        BY <3>2 DEF Audit
      <4>. QED  BY <4>1, <4>2
    <3>3. CASE Audit(i, "invalid") /\ UNCHANGED vars
      <4>1. audits' = [audits EXCEPT ![i].invalid = @ + 1] /\ UNCHANGED <<status, delivered>>
        BY <3>3 DEF Audit, vars, rows
      <4>. QED  BY <4>1
    <3>. QED  BY <3>1, <3>2, <3>3
  <2>. QED
    BY <2>1, <1>6, <1>2 DEF Clicking, Press, Reject, Rate, Vote, Reflect, Lose, vars, rows
<1>7. CASE Bot
  BY <1>7, <1>2 DEF Bot, Mention, Query, ReplyOrNot, vars, rows
<1>8. CASE UNCHANGED fvars
  BY <1>8, <1>2 DEF fvars, vars, rows
<1>. QED  BY <1>3, <1>4, <1>5, <1>6, <1>7, <1>8 DEF FeedbackNext

\* feedback-service: however many clicks and resolved webhooks race for an incident, one
\* resolves it, and one more can only if the card's delivery has overwritten the first.
THEOREM ResolvedByOne == FeedbackSpec => []ResolvedOnce
<1>1. FeedbackInit => IInv /\ Counts
  <2>1. ASSUME FeedbackInit PROVE Counts
    BY <2>1 DEF FeedbackInit, Init, Counts, CountsOf, Resolved
  <2>. QED  BY <2>1, InitInv DEF FeedbackInit
<1>2. IInv /\ Counts /\ [FeedbackNext]_fvars => IInv' /\ Counts'
  BY CountsStep, LifeStep, StepInv
<1>3. IInv /\ Counts => ResolvedOnce
  BY DEF Counts, CountsOf, ResolvedOnce, Resolved
<1>. QED  BY <1>1, <1>2, <1>3, PTL DEF FeedbackSpec

-----------------------------------------------------------------------------
(* What the cards and the bot's answers say.                               *)

Acks == Sentiments \cup {"resolved by", "already resolved"}
Faces == States \cup {"absent", "none"}
CardSet ==
  [status : Faces, buttons : SUBSET InteractionAction,
   notes : SUBSET (Acks \cup {"no further action needed", "generated without AI"})]

\* What a card on incident i may say of its status, and of the clicks.
Backed(i, face) ==
  /\ face = "resolved" => Resolved(i) > 0
  /\ face = "investigating" => i \in delivered

Noted(i, note) ==
  /\ note = "resolved by" => audits[i].clicked > 0
  /\ note = "helpful" => votes[i].helpful > 0
  /\ note = "not_helpful" => votes[i].not_helpful > 0

CardOf(i, card) == Backed(i, card.status) /\ \A note \in card.notes : Noted(i, note)

\* A click on a button of a card that is there.
Button(k) ==
  \E i \in Ids, action \in InteractionAction : \E n \in DOMAIN shown[i] :
    k = [at |-> "sent", payload |-> Pressed(i, n, action)]

\* A click that has read the incident: what it read, and what it says it has done, holds.
ActingOn(k, at, i) ==
  \E n \in DOMAIN shown[i], a \in InteractionAction, r \in Faces, ack \in Acks :
    /\ k = [at |-> at, on |-> i, ts |-> <<i, n>>, action |-> a, read |-> r, ack |-> ack]
    /\ Backed(i, r)
    /\ at = "commit" => ack \in Sentiments
    /\ at = "reflect" => Noted(i, ack)

ClickOf(k) ==
  \/ k = NoClick
  \/ \E payload \in Strays : k = [at |-> "sent", payload |-> payload]
  \/ Button(k)
  \/ \E i \in rec : \E at \in {"commit", "reflect"} : ActingOn(k, at, i)

Votes == votes \in [Ids -> [helpful : Nat, not_helpful : Nat]]
Posted == shown \in [Ids -> Seq(CardSet)]
CardsSay == \A i \in Ids : \A n \in DOMAIN shown[i] : CardOf(i, shown[i][n])
ClicksSay == DOMAIN click = Clicks /\ \A c \in Clicks : ClickOf(click[c])
DeliveriesSay == \A d \in Deliveries : InPost(d) => Backed(about[d], seen[d])

Truth == Votes /\ Posted /\ CardsSay /\ ClicksSay /\ DeliveriesSay

\* Nothing that a card can speak of is ever taken back.
Grown ==
  /\ rec \subseteq rec' /\ delivered \subseteq delivered'
  /\ \A i \in Ids :
       /\ audits'[i].clicked >= audits[i].clicked /\ audits'[i].cleared >= audits[i].cleared
       /\ votes'[i].helpful >= votes[i].helpful /\ votes'[i].not_helpful >= votes[i].not_helpful
       /\ DOMAIN shown[i] \subseteq DOMAIN shown'[i]

LEMMA CardType ==
  ASSUME NEW r \in Faces, NEW fallback \in BOOLEAN, NEW ack \in Acks \cup {"none"}
  PROVE  format_rca_card(r, fallback, ack) \in CardSet
  BY DEF format_rca_card, CardSet, Faces, Acks, Sentiments, States, Buttons

LEMMA CardSays ==
  ASSUME NEW i \in Ids, NEW r \in Faces, NEW fallback \in BOOLEAN, NEW ack \in Acks \cup {"none"},
         Backed(i, r), Noted(i, ack)
  PROVE  CardOf(i, format_rca_card(r, fallback, ack))
  BY DEF format_rca_card, CardOf, Noted, Faces, Acks, Sentiments, States

LEMMA Kept ==
  ASSUME Counts, Counts', Votes, Votes', Grown, NEW i \in Ids
  PROVE  /\ \A r : Backed(i, r) => Backed(i, r)'
         /\ \A note : Noted(i, note) => Noted(i, note)'
         /\ \A card : CardOf(i, card) => CardOf(i, card)'
<1>1. /\ audits[i].clicked \in Nat /\ audits[i].cleared \in Nat
      /\ audits'[i].clicked \in Nat /\ audits'[i].cleared \in Nat
      /\ votes[i].helpful \in Nat /\ votes[i].not_helpful \in Nat
      /\ votes'[i].helpful \in Nat /\ votes'[i].not_helpful \in Nat
  BY DEF Counts, Votes
<1>2. ASSUME NEW r, Backed(i, r) PROVE Backed(i, r)'
  BY <1>1, <1>2 DEF Backed, Grown, Resolved
<1>3. ASSUME NEW note, Noted(i, note) PROVE Noted(i, note)'
  <2>1. /\ audits[i].clicked > 0 => audits'[i].clicked > 0
        /\ votes[i].helpful > 0 => votes'[i].helpful > 0
        /\ votes[i].not_helpful > 0 => votes'[i].not_helpful > 0
    BY <1>1 DEF Grown
  <2>. QED  BY <1>3, <2>1, Zenon DEF Noted
<1>4. ASSUME NEW card, CardOf(i, card) PROVE CardOf(i, card)'
  BY <1>2, <1>3, <1>4 DEF CardOf
<1>. QED  BY <1>2, <1>3, <1>4

LEMMA ClickKept ==
  ASSUME Counts, Counts', Votes, Votes', IInv, Grown, NEW k, ClickOf(k)
  PROVE  ClickOf(k)'
<1>1. CASE Button(k)
  <2>1. PICK i \in Ids, action \in InteractionAction : \E n \in DOMAIN shown[i] :
          k = [at |-> "sent", payload |-> Pressed(i, n, action)]
    BY <1>1 DEF Button
  <2>2. Button(k)'
    BY <2>1 DEF Grown, Button, Pressed
  <2>. QED  BY <2>2 DEF ClickOf
<1>2. ASSUME NEW i \in rec, NEW at \in {"commit", "reflect"}, ActingOn(k, at, i)
      PROVE  ClickOf(k)'
  <2>1. i \in Ids /\ i \in rec'
    BY DEF IInv, TypeOK, Grown
  <2>2. PICK n \in DOMAIN shown[i], a \in InteractionAction, r \in Faces, ack \in Acks :
          /\ k = [at |-> at, on |-> i, ts |-> <<i, n>>, action |-> a, read |-> r, ack |-> ack]
          /\ Backed(i, r)
          /\ at = "commit" => ack \in Sentiments
          /\ at = "reflect" => Noted(i, ack)
    BY <1>2 DEF ActingOn
  <2>3. n \in DOMAIN shown'[i]
    BY <2>1 DEF Grown
  <2>4. Backed(i, r)' /\ (at = "reflect" => Noted(i, ack)')
    BY <2>1, <2>2, Kept
  <2>5. ActingOn(k, at, i)'
    BY <2>2, <2>3, <2>4 DEF ActingOn
  <2>. QED  BY <2>1, <2>5 DEF ClickOf
<1>. QED  BY <1>1, <1>2 DEF ClickOf, NoClick

LEMMA LifeGrows == IInv /\ [Next]_vars => rec \subseteq rec' /\ delivered \subseteq delivered'
  BY DEF Next, Handle, vars, rows, deliveries, slack, FireLookup, FireCommit, Expire, Recommend,
         Click, Clear, Receive, Gate, Lock, Post, Record, Fail

\* A delivery says of the incident what its row said when it was locked.
LEMMA DeliveriesStep ==
  ASSUME IInv, Counts, Counts', Votes, Votes', Grown, DeliveriesSay, [Next]_vars
  PROVE  DeliveriesSay'
<1> SUFFICES ASSUME NEW d \in Deliveries, InPost(d)' PROVE Backed(about[d], seen[d])'
  BY DEF DeliveriesSay
<1> DEFINE Same == about'[d] = about[d] /\ seen'[d] = seen[d]
           Locks == pc[d] = "lock" /\ about'[d] = about[d] /\ seen'[d] = status[about[d]]
<1>1. (InPost(d) /\ Same) \/ Locks
  <2> USE DEF IInv, TypeOK, InPost, rows, deliveries, slack, Goto, End
  <2>1. CASE UNCHANGED deliveries
    BY <2>1
  <2>2. ASSUME NEW e \in Deliveries, NEW i \in Ids, Receive(e, i) PROVE InPost(d) /\ Same
    BY <2>2 DEF Receive
  <2>3. ASSUME NEW e \in Deliveries, Gate(e) PROVE InPost(d) /\ Same
    BY <2>3 DEF Gate
  <2>4. ASSUME NEW e \in Deliveries, Lock(e) PROVE (InPost(d) /\ Same) \/ Locks
    BY <2>4 DEF Lock, ReadThenPost
  <2>5. ASSUME NEW e \in Deliveries, Post(e) PROVE InPost(d) /\ Same
    BY <2>5 DEF Post
  <2>6. ASSUME NEW e \in Deliveries, Record(e) \/ Fail(e) PROVE InPost(d) /\ Same
    BY <2>6 DEF Record, Fail
  <2>. QED
    BY <2>1, <2>2, <2>3, <2>4, <2>5, <2>6
    DEF Next, Handle, vars, FireLookup, FireCommit, Expire, Recommend, Click, Clear
<1>2. PICK i \in Ids : i = about[d]
  BY <1>1 DEF IInv, TypeOK, Shape, InPost
<1>3. PICK r : r = seen'[d]
  OBVIOUS
<1>4. Backed(i, r)
  <2>1. CASE InPost(d) /\ Same
    BY <1>2, <1>3, <2>1 DEF DeliveriesSay, Backed
  <2>2. CASE r = status[i]
    <3>1. status[i] = "resolved" => Resolved(i) > 0
      BY DEF Counts, CountsOf
    <3>2. status[i] = "investigating" => i \in delivered
      BY DEF IInv, Cards
    <3>. QED  BY <2>2, <3>1, <3>2 DEF Backed
  <2>. QED  BY <1>1, <1>2, <1>3, <2>1, <2>2
<1>5. Backed(i, r)'
  BY <1>4, Kept
<1>6. about'[d] = i
  BY <1>1, <1>2
<1>. QED  BY <1>3, <1>5, <1>6 DEF Backed, Resolved

LEMMA CardsKept ==
  ASSUME Counts, Counts', Votes, Votes', Posted, CardsSay, Grown, UNCHANGED shown
  PROVE  Posted' /\ CardsSay'
<1>1. CardsSay'
  <2> SUFFICES ASSUME NEW i \in Ids, NEW n \in DOMAIN shown[i] PROVE CardOf(i, shown[i][n])'
    BY DEF CardsSay
  <2>1. PICK card : card = shown[i][n]
    OBVIOUS
  <2>2. CardOf(i, card)
    BY <2>1 DEF CardsSay
  <2>3. CardOf(i, card)'
    BY <2>2, Kept
  <2>. QED  BY <2>1, <2>3 DEF CardOf
<1>. QED  BY <1>1 DEF Posted

\* The clicks but one are as they were.
LEMMA ClickPut ==
  ASSUME IInv, Counts, Counts', Votes, Votes', ClicksSay, Grown,
         \/ UNCHANGED click
         \/ \E c \in Clicks : \E k : ClickOf(k)' /\ click' = [click EXCEPT ![c] = k]
  PROVE  ClicksSay'
<1> SUFFICES ASSUME NEW e \in Clicks PROVE ClickOf(click[e])'
  BY DEF ClicksSay
<1>1. PICK k : k = click'[e]
  OBVIOUS
<1>2. ClickOf(k)'
  <2>1. CASE k = click[e]
    BY <2>1, ClickKept DEF ClicksSay
  <2>. QED  BY <1>1, <2>1 DEF ClicksSay
<1>3. Button(k)' => Button(click[e])'
  BY <1>1, Zenon DEF Button
<1>4. \A i, at : ActingOn(k, at, i)' => ActingOn(click[e], at, i)'
  BY <1>1, Zenon DEF ActingOn
<1>. QED  BY <1>1, <1>2, <1>3, <1>4, Zenon DEF ClickOf

\* A card is posted on an incident, or shown anew; what it says is backed.
LEMMA CardPut ==
  ASSUME Posted, CardsSay, Counts, Counts', Votes, Votes', Grown,
         NEW i \in Ids, NEW card \in CardSet, CardOf(i, card),
         \/ shown' = [shown EXCEPT ![i] = Append(@, card)]
         \/ \E n \in DOMAIN shown[i] : shown' = [shown EXCEPT ![i][n] = card]
  PROVE  Posted' /\ CardsSay'
<1>1. Posted'
  <2>1. CASE shown' = [shown EXCEPT ![i] = Append(@, card)]
    BY <2>1 DEF Posted
  <2>2. ASSUME NEW n \in DOMAIN shown[i], shown' = [shown EXCEPT ![i][n] = card] PROVE Posted'
    <3>1. shown[i] \in Seq(CardSet)
      BY DEF Posted
    <3>2. [shown[i] EXCEPT ![n] = card] \in Seq(CardSet)
      BY <3>1
    <3>3. shown' = [shown EXCEPT ![i] = [shown[i] EXCEPT ![n] = card]]
      BY <2>2
    <3>. QED  BY <3>2, <3>3 DEF Posted
  <2>. QED  BY <2>1, <2>2
<1>2. CardsSay'
  <2> SUFFICES ASSUME NEW j \in Ids, NEW m \in DOMAIN shown'[j] PROVE CardOf(j, shown[j][m])'
    BY DEF CardsSay
  <2>1. shown[j] \in Seq(CardSet) /\ shown'[j] \in Seq(CardSet)
    BY <1>1 DEF Posted
  <2>2. \/ i = j /\ shown'[j][m] = card
        \/ m \in DOMAIN shown[j] /\ shown'[j][m] = shown[j][m]
    <3>1. CASE shown' = [shown EXCEPT ![i] = Append(@, card)]
      <4>1. CASE i = j
        <5>1. shown'[j] = Append(shown[j], card)
          BY <3>1, <4>1 DEF Posted
        <5>. QED  BY <2>1, <4>1, <5>1
      <4>2. CASE i # j
        BY <3>1, <4>2 DEF Posted
      <4>. QED  BY <4>1, <4>2
    <3>2. ASSUME NEW n \in DOMAIN shown[i], shown' = [shown EXCEPT ![i][n] = card]
          PROVE  \/ i = j /\ shown'[j][m] = card
                 \/ m \in DOMAIN shown[j] /\ shown'[j][m] = shown[j][m]
      <4>1. CASE i = j
        <5>1. shown'[j] = [shown[j] EXCEPT ![n] = card]
          BY <3>2, <4>1 DEF Posted
        <5>. QED  BY <4>1, <5>1
      <4>2. CASE i # j
        BY <3>2, <4>2 DEF Posted
      <4>. QED  BY <4>1, <4>2
    <3>. QED  BY <3>1, <3>2
  <2>3. PICK face : face = shown'[j][m]
    OBVIOUS
  <2>4. CardOf(j, face)
    BY <2>2, <2>3 DEF CardsSay
  <2>5. CardOf(j, face)'
    BY <2>4, Kept
  <2>. QED  BY <2>3, <2>5 DEF CardOf
<1>. QED  BY <1>1, <1>2

\* A click about a recommendation was made on a card of its incident.
LEMMA PressedThere ==
  ASSUME IInv, NEW k, ClickOf(k), k.at = "sent",
         NEW y \in to_interaction(k.payload), NEW x \in parse_callback(y), NEW i \in Found(x)
  PROVE  i \in rec /\ x.action \in InteractionAction
         /\ \E n \in DOMAIN shown[i] : x.message_ts = <<i, n>>
<1>1. /\ i \in rec /\ i \in Ids /\ uuid[i] = x.recommendation_id
      /\ x.action = y.action_id /\ x.recommendation_id = y.value /\ x.message_ts = y.message_ts
      /\ x.action \in InteractionAction
  BY DEF Found, parse_callback
<1>2. CASE Button(k)
  <2>1. PICK j \in Ids, action \in InteractionAction : \E n \in DOMAIN shown[j] :
          k = [at |-> "sent", payload |-> Pressed(j, n, action)]
    BY <1>2 DEF Button
  <2>2. PICK n \in DOMAIN shown[j] : k = [at |-> "sent", payload |-> Pressed(j, n, action)]
    BY <2>1
  <2>3. y.value = uuid[j] /\ y.message_ts = <<j, n>>
    BY <2>2 DEF to_interaction, Pressed
  <2>4. j = i
    BY <1>1, <2>3, FeedbackAssumption
  <2>. QED  BY <1>1, <2>3, <2>4
<1>3. ASSUME NEW payload \in Strays, k = [at |-> "sent", payload |-> payload] PROVE FALSE
  <2>1. y.value \notin {uuid[j] : j \in Ids}
    BY <1>3, FeedbackAssumption
  <2>. QED  BY <1>1, <2>1
<1>4. k # NoClick /\ \A j \in rec : \A at \in {"commit", "reflect"} : ~ActingOn(k, at, j)
  BY DEF NoClick, ActingOn
<1>. QED  BY <1>2, <1>3, <1>4 DEF ClickOf

LEMMA ActingThere ==
  ASSUME NEW k, ClickOf(k), NEW at \in {"commit", "reflect"}, k.at = at
  PROVE  \E i \in rec : ActingOn(k, at, i)
<1>1. k # NoClick
  BY DEF NoClick
<1>2. \A payload \in Strays : k # [at |-> "sent", payload |-> payload]
  OBVIOUS
<1>3. ~Button(k)
  <2>1. ASSUME NEW payload, k = [at |-> "sent", payload |-> payload] PROVE FALSE
    BY <2>1
  <2>. QED  BY <2>1 DEF Button
<1>4. \A i, step : ActingOn(k, step, i) => k.at = step
  BY DEF ActingOn
<1>. QED  BY <1>1, <1>2, <1>3, <1>4, Zenon DEF ClickOf

LEMMA Together ==
  ASSUME Votes', Posted', CardsSay', ClicksSay', DeliveriesSay'
  PROVE  Truth'
  BY DEF Truth

\* Steps that file nothing and show nothing: the click itself is all that changes.
LEMMA ReadStep ==
  ASSUME IInv, Counts, Counts', Truth, [Next]_vars, UNCHANGED <<rec, shown, votes, audits>>,
         \/ UNCHANGED click
         \/ \E c \in Clicks : \E k : ClickOf(k) /\ click' = [click EXCEPT ![c] = k]
  PROVE  Truth'
<1> USE DEF Truth
<1>1. Votes' /\ Grown
  BY LifeGrows DEF Votes, Grown, Counts
<1>2. Posted' /\ CardsSay'
  BY <1>1, CardsKept
<1>3. ClicksSay'
  <2>1. \A k : ClickOf(k) => ClickOf(k)'
    BY <1>1, ClickKept
  <2>. QED  BY <1>1, <2>1, ClickPut
<1>. QED  BY <1>1, <1>2, <1>3, DeliveriesStep, Together

LEMMA ClickTruth ==
  ASSUME IInv, Counts, Counts', Truth, NEW c \in Clicks, Clicking(c)
  PROVE  Truth'
<1> USE DEF Truth
<1>1. [Next]_vars /\ rec \subseteq rec' /\ delivered \subseteq delivered'
  BY ClickStep, LifeGrows
<1>2. PICK k : k = click[c]
  OBVIOUS
<1>3. ClickOf(k)
  BY <1>2 DEF ClicksSay
<1>4. CASE Press(c)
  <2>1. PICK m : ClickOf(m) /\ click' = [click EXCEPT ![c] = m]
    <3>1. CASE \E payload \in Strays : Become(c, [at |-> "sent", payload |-> payload])
      BY <3>1 DEF Become, ClickOf
    <3>2. ASSUME NEW i \in Ids, NEW n \in DOMAIN shown[i],
                 NEW action \in shown[i][n].buttons,
                 Become(c, [at |-> "sent", payload |-> Pressed(i, n, action)])
          PROVE  \E m : ClickOf(m) /\ click' = [click EXCEPT ![c] = m]
      <4>1. shown[i][n] \in CardSet
        BY DEF Posted
      <4>2. action \in InteractionAction
        BY <4>1 DEF CardSet
      <4>3. Button([at |-> "sent", payload |-> Pressed(i, n, action)])
        BY <4>2 DEF Button
      <4>. QED  BY <3>2, <4>3 DEF Become, ClickOf
    <3>. QED  BY <1>4, <3>1, <3>2 DEF Press
  <2>. QED  BY <1>1, <1>4, <2>1, ReadStep DEF Press, vars
<1>5. CASE Reject(c) \/ Lose(c)
  <2>1. ClickOf(NoClick) /\ click' = [click EXCEPT ![c] = NoClick]
    BY <1>5 DEF Reject, Lose, Become, ClickOf
  <2>. QED  BY <1>1, <1>5, <2>1, ReadStep DEF Reject, Lose, vars
<1>6. CASE Rate(c)
  <2>1. PICK y \in to_interaction(k.payload) : \E x \in parse_callback(y) : \E i \in Found(x) :
          /\ x.action # "incident.resolve"
          /\ Become(c, Acting("commit", x, i, _SENTIMENT[x.action]))
    BY <1>2, <1>6 DEF Rate, Parsed
  <2>2. PICK x \in parse_callback(y) : \E i \in Found(x) :
          /\ x.action # "incident.resolve"
          /\ Become(c, Acting("commit", x, i, _SENTIMENT[x.action]))
    BY <2>1
  <2>3. PICK i \in Found(x) :
          /\ x.action # "incident.resolve"
          /\ Become(c, Acting("commit", x, i, _SENTIMENT[x.action]))
    BY <2>2
  <2>4. /\ i \in rec /\ x.action \in InteractionAction
        /\ \E n \in DOMAIN shown[i] : x.message_ts = <<i, n>>
    BY <1>2, <1>3, <1>6, PressedThere DEF Rate
  <2>5. PICK n \in DOMAIN shown[i] : x.message_ts = <<i, n>>
    BY <2>4
  <2>6. _SENTIMENT[x.action] \in Sentiments /\ Sentiments \subseteq Acks
    BY <2>4 DEF _SENTIMENT, Sentiments, Acks
  <2>7. /\ i \in Ids /\ status[i] \in Faces
        /\ Backed(i, status[i])
    BY <2>4 DEF IInv, TypeOK, Cards, Counts, CountsOf, Backed, Faces
  <2>8. ActingOn(Acting("commit", x, i, _SENTIMENT[x.action]), "commit", i)
    BY <2>4, <2>5, <2>6, <2>7 DEF ActingOn, Acting
  <2>9. ClickOf(Acting("commit", x, i, _SENTIMENT[x.action]))
    BY <2>4, <2>8 DEF ClickOf
  <2>. QED  BY <1>1, <1>6, <2>3, <2>9, ReadStep DEF Rate, Become, vars
<1>7. CASE Vote(c)
  <2>1. PICK i \in rec : ActingOn(k, "commit", i)
    BY <1>2, <1>3, <1>7, ActingThere DEF Vote
  <2>2. PICK n \in DOMAIN shown[i], a \in InteractionAction, r \in Faces, ack \in Sentiments :
          /\ k = [at |-> "commit", on |-> i, ts |-> <<i, n>>, action |-> a, read |-> r, ack |-> ack]
          /\ Backed(i, r)
    BY <2>1 DEF ActingOn
  <2>3. /\ i \in Ids /\ votes' = [votes EXCEPT ![i][ack] = @ + 1]
        /\ UNCHANGED <<vars, shown, audits>>
    BY <1>2, <1>7, <2>2 DEF Vote, IInv, TypeOK
  <2> DEFINE m == [at |-> "reflect", on |-> i, ts |-> <<i, n>>, action |-> a, read |-> r,
                   ack |-> ack]
  <2>4. click' = [click EXCEPT ![c] = m]
    <3>1. [k EXCEPT !.at = "reflect"] = m
      BY <2>2
    <3>. QED  BY <1>2, <1>7, <3>1 DEF Vote, Become
  <2>5. votes[i] \in [helpful : Nat, not_helpful : Nat]
    BY <2>3 DEF Votes
  <2>6. /\ votes' \in [Ids -> [helpful : Nat, not_helpful : Nat]]
        /\ \A j \in Ids \ {i} : votes'[j] = votes[j]
        /\ votes'[i].helpful >= votes[i].helpful
        /\ votes'[i].not_helpful >= votes[i].not_helpful
        /\ ack = "helpful" => votes'[i].helpful > 0
        /\ ack = "not_helpful" => votes'[i].not_helpful > 0
    <3>1. CASE ack = "helpful"
      BY <2>3, <2>5, <3>1 DEF Votes
    <3>2. CASE ack = "not_helpful"
      BY <2>3, <2>5, <3>2 DEF Votes
    <3>. QED  BY <3>1, <3>2 DEF Sentiments
  <2>7. Votes' /\ Grown
    <3>1. \A j \in Ids : /\ audits'[j] = audits[j] /\ shown'[j] = shown[j]
                         /\ audits[j].clicked \in Nat /\ audits[j].cleared \in Nat
                         /\ votes[j].helpful \in Nat /\ votes[j].not_helpful \in Nat
      BY <2>3 DEF Counts, Votes
    <3>. QED  BY <1>1, <2>6, <3>1 DEF Votes, Grown
  <2>8. Posted' /\ CardsSay'
    BY <2>3, <2>7, CardsKept
  <2>9. ActingOn(m, "reflect", i)'
    <3>1. Backed(i, r)'
      BY <2>2, <2>3, <2>7, Kept
    <3>2. Noted(i, ack)'
      BY <2>6 DEF Noted, Sentiments
    <3>3. n \in DOMAIN shown'[i] /\ ack \in Acks
      BY <2>3 DEF Acks
    <3>. QED  BY <3>1, <3>2, <3>3 DEF ActingOn
  <2>10. ClickOf(m)'
    <3>1. i \in rec'
      BY <1>1
    <3>. QED  BY <2>9, <3>1 DEF ClickOf
  <2>11. ClicksSay'
    BY <2>4, <2>7, <2>10, ClickPut
  <2>. QED  BY <1>1, <2>7, <2>8, <2>11, DeliveriesStep, Together
<1>8. CASE Resolve(c)
  <2>1. PICK y \in to_interaction(k.payload) : \E x \in parse_callback(y) : \E i \in Found(x) :
          /\ \/ Click(i) /\ Audit(i, "clicked")
             \/ ~Live(i) /\ Audit(i, "invalid") /\ UNCHANGED vars
          /\ Become(c, [Acting("reflect", x, i, IF Live(i) THEN "resolved by"
                                                 ELSE "already resolved")
                          EXCEPT !.read = "resolved"])
    BY <1>2, <1>8 DEF Resolve, Parsed
  <2>2. PICK x \in parse_callback(y) : \E i \in Found(x) :
          /\ \/ Click(i) /\ Audit(i, "clicked")
             \/ ~Live(i) /\ Audit(i, "invalid") /\ UNCHANGED vars
          /\ Become(c, [Acting("reflect", x, i, IF Live(i) THEN "resolved by"
                                                 ELSE "already resolved")
                          EXCEPT !.read = "resolved"])
    BY <2>1
  <2>3. PICK i \in Found(x) :
          /\ \/ Click(i) /\ Audit(i, "clicked")
             \/ ~Live(i) /\ Audit(i, "invalid") /\ UNCHANGED vars
          /\ Become(c, [Acting("reflect", x, i, IF Live(i) THEN "resolved by"
                                                 ELSE "already resolved")
                          EXCEPT !.read = "resolved"])
    BY <2>2
  <2>4. /\ i \in rec /\ x.action \in InteractionAction
        /\ \E n \in DOMAIN shown[i] : x.message_ts = <<i, n>>
    BY <1>2, <1>3, <1>8, PressedThere DEF Resolve
  <2>5. PICK n \in DOMAIN shown[i] : x.message_ts = <<i, n>>
    BY <2>4
  <2>6. i \in Ids /\ status[i] \in States
    BY <2>4 DEF IInv, TypeOK, Shape
  <2>7. UNCHANGED <<shown, votes>>
    BY <1>8 DEF Resolve
  <2>8. /\ audits[i].clicked \in Nat /\ audits[i].cleared \in Nat
        /\ \A j \in Ids \ {i} : audits'[j] = audits[j]
        /\ audits'[i].cleared = audits[i].cleared
        /\ Live(i) => audits'[i].clicked = audits[i].clicked + 1 /\ audits'[i].clicked > 0
        /\ ~Live(i) => audits'[i].clicked = audits[i].clicked
    <3>1. CASE Click(i) /\ Audit(i, "clicked")
      <4>1. audits' = [audits EXCEPT ![i].clicked = @ + 1] /\ Live(i)
        BY <3>1 DEF Audit, Click
      <4>. QED  BY <2>6, <4>1 DEF Counts
    <3>2. CASE ~Live(i) /\ Audit(i, "invalid")
      <4>1. audits' = [audits EXCEPT ![i].invalid = @ + 1]
        BY <3>2 DEF Audit
      <4>. QED  BY <2>6, <3>2, <4>1 DEF Counts
    <3>. QED  BY <2>3, <3>1, <3>2
  <2>9. Votes' /\ Grown
    <3>1. \A j \in Ids : /\ votes'[j] = votes[j] /\ shown'[j] = shown[j]
                         /\ audits[j].clicked \in Nat /\ audits[j].cleared \in Nat
                         /\ votes[j].helpful \in Nat /\ votes[j].not_helpful \in Nat
      BY <2>7 DEF Counts, Votes
    <3>. QED  BY <1>1, <2>7, <2>8, <3>1 DEF Votes, Grown
  <2>10. Posted' /\ CardsSay'
    BY <2>7, <2>9, CardsKept
  <2>11. PICK ack \in Acks : ack = IF Live(i) THEN "resolved by" ELSE "already resolved"
    BY DEF Acks
  <2> DEFINE m == [at |-> "reflect", on |-> i, ts |-> <<i, n>>, action |-> x.action,
                   read |-> "resolved", ack |-> ack]
  <2>12. click' = [click EXCEPT ![c] = m]
    <3>1. Become(c, [Acting("reflect", x, i, ack) EXCEPT !.read = "resolved"])
      BY <2>3, <2>11
    <3>2. [Acting("reflect", x, i, ack) EXCEPT !.read = "resolved"] = m
      BY <2>5 DEF Acting
    <3>. QED  BY <3>1, <3>2 DEF Become
  <2>13. ClickOf(m)'
    <3>1. Noted(i, ack)'
      <4>1. ack = "resolved by" => audits'[i].clicked > 0
        <5>1. CASE Live(i)
          BY <2>8, <5>1
        <5>2. CASE ~Live(i)
          BY <2>11, <5>2
        <5>. QED  BY <5>1, <5>2
      <4>2. ack # "helpful" /\ ack # "not_helpful"
        BY <2>11
      <4>. QED  BY <4>1, <4>2 DEF Noted
    <3>2. Backed(i, "resolved")'
      <4>1. CASE Live(i)
        BY <2>8, <4>1 DEF Backed, Resolved
      <4>2. CASE ~Live(i)
        <5>1. Backed(i, "resolved")
          BY <2>6, <4>2 DEF Live, States, Backed, Counts, CountsOf
        <5>. QED  BY <2>6, <2>9, <5>1, Kept
      <4>. QED  BY <4>1, <4>2
    <3>3. n \in DOMAIN shown'[i] /\ i \in rec' /\ "resolved" \in Faces
      BY <1>1, <2>4, <2>7 DEF Faces, States
    <3>4. ActingOn(m, "reflect", i)'
      BY <2>4, <3>1, <3>2, <3>3 DEF ActingOn
    <3>. QED  BY <3>3, <3>4 DEF ClickOf
  <2>14. ClicksSay'
    BY <2>9, <2>12, <2>13, ClickPut
  <2>. QED  BY <1>1, <2>9, <2>10, <2>14, DeliveriesStep, Together
<1>9. CASE Reflect(c)
  <2>1. PICK i \in rec : ActingOn(k, "reflect", i)
    BY <1>2, <1>3, <1>9, ActingThere DEF Reflect
  <2>2. PICK n \in DOMAIN shown[i], a \in InteractionAction, r \in Faces, ack \in Acks :
          /\ k = [at |-> "reflect", on |-> i, ts |-> <<i, n>>, action |-> a, read |-> r,
                  ack |-> ack]
          /\ Backed(i, r) /\ Noted(i, ack)
    BY <2>1 DEF ActingOn
  <2>3. PICK card : card = format_rca_card(r, i \in fallbacks, ack)
    OBVIOUS
  <2>4. /\ i \in Ids /\ UNCHANGED <<votes, audits>>
        /\ click' = [click EXCEPT ![c] = NoClick]
        /\ \/ shown' = [shown EXCEPT ![i][n] = card]
           \/ UNCHANGED shown
    BY <1>2, <1>9, <2>2, <2>3 DEF Reflect, Become, IInv, TypeOK
  <2>5. card \in CardSet /\ CardOf(i, card)
    <3>1. (i \in fallbacks) \in BOOLEAN
      OBVIOUS
    <3>. QED  BY <2>2, <2>3, <2>4, <3>1, CardType, CardSays
  <2>6. \A j \in Ids : DOMAIN shown[j] \subseteq DOMAIN shown'[j]
    <3>1. shown[i] \in Seq(CardSet)
      BY <2>4 DEF Posted
    <3>. QED  BY <2>4, <3>1 DEF Posted
  <2>7. Votes' /\ Grown
    <3>1. \A j \in Ids : /\ audits[j].clicked \in Nat /\ audits[j].cleared \in Nat
                         /\ votes[j].helpful \in Nat /\ votes[j].not_helpful \in Nat
      BY DEF Counts, Votes
    <3>. QED  BY <1>1, <2>4, <2>6, <3>1 DEF Votes, Grown
  <2>8. Posted' /\ CardsSay'
    BY <2>4, <2>5, <2>7, CardPut, CardsKept
  <2>9. ClicksSay'
    <3>1. ClickOf(NoClick)'
      BY DEF ClickOf
    <3>. QED  BY <2>4, <2>7, <3>1, ClickPut
  <2>. QED  BY <1>1, <2>7, <2>8, <2>9, DeliveriesStep, Together
<1>. QED  BY <1>4, <1>5, <1>6, <1>7, <1>8, <1>9 DEF Clicking

LEMMA TruthStep ==
  ASSUME IInv, Counts, Truth, [FeedbackNext]_fvars
  PROVE  Truth'
<1> USE DEF Truth
<1>1. [Next]_vars /\ rec \subseteq rec' /\ delivered \subseteq delivered' /\ Counts'
  BY LifeStep, LifeGrows, CountsStep
<1>2. CASE UNCHANGED <<shown, votes, audits, click>>
  <2>1. Votes' /\ Grown
    <3>1. \A j \in Ids : /\ audits[j].clicked \in Nat /\ audits[j].cleared \in Nat
                         /\ votes[j].helpful \in Nat /\ votes[j].not_helpful \in Nat
      BY DEF Counts, Votes
    <3>. QED  BY <1>1, <1>2, <3>1 DEF Votes, Grown
  <2>2. Posted' /\ CardsSay' /\ ClicksSay'
    BY <1>1, <1>2, <2>1, CardsKept, ClickPut
  <2>. QED  BY <1>1, <2>1, <2>2, DeliveriesStep, Together
<1>3. CASE ClearAudited
  <2>1. /\ UNCHANGED <<shown, votes, click>>
        /\ audits' = [i \in Ids |-> [audits[i] EXCEPT !.cleared =
                                       IF status'[i] # status[i] THEN @ + 1 ELSE @]]
    BY <1>3 DEF ClearAudited
  <2>2. \A j \in Ids : /\ audits[j].clicked \in Nat /\ audits[j].cleared \in Nat
                       /\ votes[j].helpful \in Nat /\ votes[j].not_helpful \in Nat
                       /\ audits[j] \in [clicked : Nat, cleared : Nat, invalid : Nat]
    BY DEF Counts, Votes
  <2>3. \A j \in Ids : /\ audits'[j].clicked = audits[j].clicked
                       /\ audits'[j].cleared >= audits[j].cleared
    <3> SUFFICES ASSUME NEW j \in Ids
                 PROVE  /\ audits'[j].clicked = audits[j].clicked
                        /\ audits'[j].cleared >= audits[j].cleared
      OBVIOUS
    <3>1. CASE status'[j] # status[j]
      BY <2>1, <2>2, <3>1
    <3>2. CASE status'[j] = status[j]
      BY <2>1, <2>2, <3>2
    <3>. QED  BY <3>1, <3>2
  <2>4. Votes' /\ Grown
    BY <1>1, <2>1, <2>2, <2>3 DEF Votes, Grown
  <2>5. Posted' /\ CardsSay' /\ ClicksSay'
    BY <1>1, <2>1, <2>4, CardsKept, ClickPut
  <2>. QED  BY <1>1, <2>4, <2>5, DeliveriesStep, Together
<1>4. ASSUME NEW d \in Deliveries, PostCard(d) PROVE Truth'
  <2>1. PICK i \in Ids : i = about[d]
    BY <1>4 DEF PostCard, Post, IInv, TypeOK, Shape
  <2>2. PICK r \in Faces : r = seen[d]
    BY DEF IInv, TypeOK, Faces
  <2>3. PICK card : card = format_rca_card(r, i \in fallbacks, "none")
    OBVIOUS
  <2>4. /\ UNCHANGED <<click, votes, audits>>
        /\ shown' = [shown EXCEPT ![i] = Append(@, card)]
    BY <1>4, <2>1, <2>2, <2>3 DEF PostCard
  <2>5. card \in CardSet /\ CardOf(i, card)
    <3>1. (i \in fallbacks) \in BOOLEAN
      OBVIOUS
    <3>2. Backed(i, r)
      <4>1. InPost(d) => Backed(about[d], seen[d])
        BY DEF DeliveriesSay
      <4>. QED  BY <1>4, <2>1, <2>2, <4>1 DEF PostCard, Post, InPost, Backed
    <3>3. Noted(i, "none")
      BY DEF Noted
    <3>. QED  BY <2>3, <3>1, <3>2, <3>3, CardType, CardSays
  <2>6. \A j \in Ids : DOMAIN shown[j] \subseteq DOMAIN shown'[j]
    <3>1. shown[i] \in Seq(CardSet)
      BY DEF Posted
    <3>. QED  BY <2>4, <3>1 DEF Posted
  <2>7. Votes' /\ Grown
    <3>1. \A j \in Ids : /\ audits[j].clicked \in Nat /\ audits[j].cleared \in Nat
                         /\ votes[j].helpful \in Nat /\ votes[j].not_helpful \in Nat
      BY DEF Counts, Votes
    <3>. QED  BY <1>1, <2>4, <2>6, <3>1 DEF Votes, Grown
  <2>8. Posted' /\ CardsSay' /\ ClicksSay'
    BY <1>1, <2>4, <2>5, <2>7, CardPut, ClickPut
  <2>. QED  BY <1>1, <2>7, <2>8, DeliveriesStep, Together
<1>5. ASSUME NEW c \in Clicks, Clicking(c) PROVE Truth'
  BY <1>1, <1>5, ClickTruth
<1>. QED
  BY <1>2, <1>3, <1>4, <1>5
  DEF FeedbackNext, fvars, Elsewhere, Bot, Mention, Query, ReplyOrNot

\* feedback-service: a card claims nothing that is not committed.  A click keeps what its
\* transaction read until it shows it, a delivery what it read until it posts it, and of
\* that nothing is taken back: not a vote, not an audit row, not a recorded card.
THEOREM CardsAreBacked == FeedbackSpec => []CardNeverAhead
<1>1. FeedbackInit => IInv /\ Counts /\ Truth
  <2> SUFFICES ASSUME FeedbackInit PROVE IInv /\ Counts /\ Truth
    OBVIOUS
  <2> USE DEF FeedbackInit, Init
  <2>1. IInv
    BY InitInv
  <2>2. Counts
    BY DEF Counts, CountsOf, Resolved
  <2>3. Votes /\ DeliveriesSay
    BY DEF Votes, DeliveriesSay, InPost
  <2>4. Posted /\ CardsSay
    BY DEF Posted, CardsSay
  <2>5. ClicksSay
    BY DEF ClicksSay, ClickOf
  <2>. QED  BY <2>1, <2>2, <2>3, <2>4, <2>5 DEF Truth
<1>2. IInv /\ Counts /\ Truth /\ [FeedbackNext]_fvars => IInv' /\ Counts' /\ Truth'
  BY CountsStep, LifeStep, StepInv, TruthStep
<1>3. Truth => CardNeverAhead
  <2> SUFFICES ASSUME Truth, NEW i \in Ids, NEW n \in DOMAIN shown[i]
               PROVE  LET card == shown[i][n]
                      IN /\ card.status = "resolved" => Resolved(i) > 0
                         /\ card.status = "investigating" => i \in delivered
                         /\ "resolved by" \in card.notes => audits[i].clicked > 0
                         /\ \A s \in Sentiments : s \in card.notes => votes[i][s] > 0
    BY DEF CardNeverAhead
  <2>1. PICK card : card = shown[i][n]
    OBVIOUS
  <2>2. CardOf(i, card)
    BY <2>1 DEF Truth, CardsSay
  <2>3. ASSUME NEW s \in Sentiments, s \in card.notes PROVE votes[i][s] > 0
    BY <2>2, <2>3 DEF CardOf, Noted, Sentiments
  <2>. QED  BY <2>1, <2>2, <2>3 DEF CardOf, Backed, Noted
<1>. QED  BY <1>1, <1>2, <1>3, PTL DEF FeedbackSpec

-----------------------------------------------------------------------------
\* What the bot has read so far about one incident, the recommendation last.
Said ==
  query.command = "incident" =>
    /\ DOMAIN query.got \in {{}, {"get"}, {"get", "latest_for_incident"}}
    /\ "get" \in DOMAIN query.got =>
         \A i \in Ids : <<i, "investigating">> \in query.got["get"]
                          => i \in rec /\ uuid[i] = query.args[1]
    /\ "latest_for_incident" \in DOMAIN query.got =>
         \A i \in Ids : <<i, "investigating">> \in query.got["get"]
                          => i \in query.got["latest_for_incident"]

Answering ==
  /\ query = [command |-> query.command, args |-> query.args, got |-> query.got]
  /\ Said

\* A query adds its answer to those there are.
LEMMA QueryAdds ==
  ASSUME Answering, Query
  PROVE  /\ query'.command = query.command /\ query'.args = query.args
         /\ query' = [command |-> query'.command, args |-> query'.args, got |-> query'.got]
         /\ query.command = "incident" =>
              \E name \in {"get", "latest_for_incident"} :
                /\ query'.got = [q \in DOMAIN query.got \cup {name} |->
                                   IF q = name THEN Value(name, query.args) ELSE query.got[q]]
                /\ DOMAIN query.got = IF name = "get" THEN {} ELSE {"get"}
<1> DEFINE next == Queries(query.command)[Cardinality(DOMAIN query.got) + 1]
           got == [q \in DOMAIN query.got \cup {next} |->
                     IF q = next THEN Value(next, query.args) ELSE query.got[q]]
<1>1. query' = [query EXCEPT !.got = got] /\ ~Answered
  BY DEF Query
<1>2. query' = [command |-> query.command, args |-> query.args, got |-> got]
  <2> HIDE DEF got
  <2>. QED  BY <1>1 DEF Answering
<1>3. ASSUME query.command = "incident"
      PROVE  \/ next = "get" /\ DOMAIN query.got = {}
             \/ next = "latest_for_incident" /\ DOMAIN query.got = {"get"}
  <2>1. Queries(query.command) = <<"get", "latest_for_incident">>
    BY <1>3 DEF Queries
  <2>2. CASE DOMAIN query.got = {}
    <3>1. Cardinality(DOMAIN query.got) = 0
      BY <2>2, FS_EmptySet
    <3>. QED  BY <2>1, <2>2, <3>1
  <2>3. CASE DOMAIN query.got = {"get"}
    <3>1. Cardinality(DOMAIN query.got) = 1
      BY <2>3, FS_Singleton
    <3>. QED  BY <2>1, <2>3, <3>1
  <2>4. CASE DOMAIN query.got = {"get", "latest_for_incident"}
    BY <1>1, <2>1, <2>4 DEF Answered
  <2>. QED  BY <1>3, <2>2, <2>3, <2>4 DEF Answering, Said
<1>4. query'.got = got
  <2> HIDE DEF got
  <2>. QED  BY <1>2
<1>5. query'.command = query.command /\ query'.args = query.args
  <2> HIDE DEF got
  <2>. QED  BY <1>2
<1>6. query' = [command |-> query'.command, args |-> query'.args, got |-> query'.got]
  <2> HIDE DEF got
  <2>. QED  BY <1>2, <1>4, <1>5
<1>7. ASSUME query.command = "incident"
      PROVE  \E name \in {"get", "latest_for_incident"} :
               /\ query'.got = [q \in DOMAIN query.got \cup {name} |->
                                  IF q = name THEN Value(name, query.args) ELSE query.got[q]]
               /\ DOMAIN query.got = IF name = "get" THEN {} ELSE {"get"}
  <2>1. PICK name : name = next
    OBVIOUS
  <2>2. query'.got = [q \in DOMAIN query.got \cup {name} |->
                        IF q = name THEN Value(name, query.args) ELSE query.got[q]]
    <3> HIDE DEF next
    <3>. QED  BY <1>4, <2>1 DEF got
  <2>3. \/ name = "get" /\ DOMAIN query.got = {}
        \/ name = "latest_for_incident" /\ DOMAIN query.got = {"get"}
    BY <1>3, <1>7, <2>1
  <2>. QED  BY <2>2, <2>3
<1>. QED  BY <1>5, <1>6, <1>7

LEMMA AnsweringStep ==
  ASSUME IInv, Answering, [FeedbackNext]_fvars
  PROVE  Answering'
<1>1. rec \subseteq rec'
  BY LifeStep, LifeGrows
<1>2. CASE UNCHANGED query
  BY <1>1, <1>2 DEF Answering, Said
<1>3. CASE Mention
  <2>1. PICK command, args : query' = [command |-> command, args |-> args, got |-> <<>>]
    BY <1>3 DEF Mention
  <2>2. /\ query' = [command |-> query'.command, args |-> query'.args, got |-> query'.got]
        /\ DOMAIN query'.got = {}
    BY <2>1
  <2>. QED  BY <2>2 DEF Answering, Said
<1>4. CASE ReplyOrNot
  <2>1. query' = [command |-> "none", args |-> <<>>, got |-> <<>>]
    BY <1>4 DEF ReplyOrNot, NoQuery
  <2>2. /\ query' = [command |-> query'.command, args |-> query'.args, got |-> query'.got]
        /\ query'.command # "incident"
    BY <2>1
  <2>. QED  BY <2>2 DEF Answering, Said
<1>5. CASE Query
  <2>1. /\ query'.command = query.command /\ query'.args = query.args
        /\ query' = [command |-> query'.command, args |-> query'.args, got |-> query'.got]
    BY <1>5, QueryAdds
  <2>2. ASSUME query.command = "incident" PROVE Said'
    <3>1. PICK name \in {"get", "latest_for_incident"} :
            /\ query'.got = [q \in DOMAIN query.got \cup {name} |->
                               IF q = name THEN Value(name, query.args) ELSE query.got[q]]
            /\ DOMAIN query.got = IF name = "get" THEN {} ELSE {"get"}
      BY <1>5, <2>2, QueryAdds
    <3>2. UNCHANGED rec
      BY <1>5 DEF Query, vars
    <3>3. CASE name = "get"
      <4>1. DOMAIN query'.got = {"get"} /\ query'.got["get"] = Value("get", query.args)
        BY <3>1, <3>3
      <4>2. Value("get", query.args) = {Told(i) : i \in Asked(query.args)}
        BY DEF Value
      <4>3. \A i \in Ids : <<i, "investigating">> \in Value("get", query.args)
                             => i \in rec /\ uuid[i] = query.args[1]
        BY <4>2 DEF Told, Asked, Existing, IInv, TypeOK, Cards
      <4>. QED  BY <2>1, <3>2, <4>1, <4>3 DEF Said
    <3>4. CASE name = "latest_for_incident"
      <4>1. /\ DOMAIN query'.got = {"get", "latest_for_incident"}
            /\ query'.got["get"] = query.got["get"]
            /\ query'.got["latest_for_incident"] = Value("latest_for_incident", query.args)
        BY <3>1, <3>4
      <4>2. Value("latest_for_incident", query.args) = Asked(query.args) \cap rec
        BY DEF Value
      <4>3. \A i \in Ids : <<i, "investigating">> \in query.got["get"]
                             => i \in rec /\ uuid[i] = query.args[1]
        BY <2>2, <3>1, <3>4 DEF Answering, Said
      <4>4. \A i \in Ids : <<i, "investigating">> \in query.got["get"]
                             => i \in Value("latest_for_incident", query.args)
        BY <4>2, <4>3 DEF Asked, Existing, IInv, TypeOK, Shape
      <4>. QED  BY <2>1, <3>2, <4>1, <4>3, <4>4 DEF Said
    <3>. QED  BY <3>3, <3>4
  <2>3. ASSUME query.command # "incident" PROVE Said'
    BY <2>1, <2>3 DEF Said
  <2>. QED  BY <2>1, <2>2, <2>3 DEF Answering
<1>. QED
  BY <1>2, <1>3, <1>4, <1>5, Zenon
  DEF FeedbackNext, fvars, Elsewhere, ClearAudited, PostCard, Clicking, Press, Reject, Rate,
      Vote, Resolve, Reflect, Lose, Bot

\* bot.py: an incident is investigated only when its card is recorded, and it has its
\* recommendation then; so one the bot reads as investigated has its root cause in the
\* query that follows, whatever is committed between the two.
THEOREM AnswersAgree == FeedbackSpec => []AnswerHoldsTogether
<1>1. FeedbackInit => IInv /\ Answering
  BY InitInv DEF FeedbackInit, Answering, Said, NoQuery
<1>2. IInv /\ Answering /\ [FeedbackNext]_fvars => IInv' /\ Answering'
  BY LifeStep, StepInv, AnsweringStep
<1>3. Answering => AnswerHoldsTogether
  <2> SUFFICES ASSUME Answering, Answered, query.command = "incident", NEW i \in Ids,
                      <<i, "investigating">> \in query.got["get"]
               PROVE  i \in query.got["latest_for_incident"]
    BY DEF AnswerHoldsTogether
  <2>1. \A n \in {1, 2} : Queries(query.command)[n] \in DOMAIN query.got
    BY DEF Answered, Queries
  <2>2. "latest_for_incident" \in DOMAIN query.got
    BY <2>1 DEF Queries
  <2>. QED  BY <2>2 DEF Answering, Said
<1>. QED  BY <1>1, <1>2, <1>3, PTL DEF FeedbackSpec
=============================================================================
