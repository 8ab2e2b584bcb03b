------------------------------ MODULE Feedback ------------------------------
(***************************************************************************)
(* The feedback-service's other half, beside its deliveries: engineers     *)
(* rate and resolve on the cards that Incident's deliveries post, and ask  *)
(* the bot.  An envelope is acknowledged before anything is done about it, *)
(* so Slack sends it once and a handler that fails is not called again.    *)
(*                                                                         *)
(* A click is split where the incident may change under it: between the    *)
(* row it reads and its commit, and between its commit and the card it     *)
(* shows; the bot between any two of its queries.  The card of an incident *)
(* that was posted n-th is known by <<incident, n>>, its ts.               *)
(***************************************************************************)
EXTENDS Incident, Slack, FiniteSetsExt

CONSTANTS
  Clicks,     \* bound: how many clicks are handled at a time
  uuid,       \* the id of each incident, and of its recommendation
  fallbacks,  \* the incidents whose recommendation is a fallback
  service,    \* the service all of them are about
  max_rows,   \* the rows a reply has at most
  Strays,     \* payloads that are not of a button of a card
  Texts,      \* what the bot is asked
  MaxPresses  \* bound: how many clicks there are

ASSUME FeedbackAssumption ==
  /\ uuid \in [Ids -> Uuids] /\ \A i, j \in Ids : uuid[i] = uuid[j] => i = j
  /\ max_rows \in Nat /\ MaxPresses \in Nat
  \* The id of a recommendation is the value of the buttons of its cards, and of no other.
  /\ \A payload \in Strays : \A x \in to_interaction(payload) : x.value \notin {uuid[i] : i \in Ids}

VARIABLES
  click,   \* the clicks that are handled
  presses, \* counter of the bound
  shown,   \* the cards of each incident as they look now
  votes,   \* the feedback rows of each incident, by sentiment
  audits,  \* the audit rows of each incident about resolving it
  query    \* the command the bot is answering

fvars == <<vars, click, presses, shown, votes, audits, query>>

NoClick == [at |-> "idle"]
NoQuery == [command |-> "none", args |-> <<>>, got |-> <<>>]
FeedbackInit ==
  /\ Init
  /\ click = [c \in Clicks |-> NoClick]
  /\ presses = 0
  /\ shown = [i \in Ids |-> <<>>]
  /\ votes = [i \in Ids |-> [helpful |-> 0, not_helpful |-> 0]]
  /\ audits = [i \in Ids |-> [clicked |-> 0, cleared |-> 0, invalid |-> 0]]
  /\ query = NoQuery

Become(c, value) == click' = [click EXCEPT ![c] = value]

-----------------------------------------------------------------------------
(* Beside the clicks.                                                      *)

\* A card is posted as format_rca_card makes it from the row the delivery read.
PostCard(d) ==
  /\ Post(d)
  /\ shown' = [shown EXCEPT ![about[d]] =
                 Append(@, format_rca_card(seen[d], about[d] \in fallbacks, "none"))]
  /\ UNCHANGED <<click, presses, votes, audits, query>>

\* A resolved alert, and transition_status's audit row.
ClearAudited ==
  /\ Clear
  /\ audits' = [i \in Ids |-> [audits[i] EXCEPT !.cleared =
                                 IF status'[i] # status[i] THEN @ + 1 ELSE @]]
  /\ UNCHANGED <<click, presses, shown, votes, query>>

\* What does not touch the cards.
Elsewhere ==
  /\ \/ \E s \in Senders : FireLookup(s) \/ FireCommit(s)
     \/ \E i \in Ids : Expire(i) \/ Recommend(i)
     \/ \E d \in Deliveries : (\E i \in Ids : Receive(d, i)) \/ Gate(d) \/ Lock(d) \/ Record(d)
                              \/ Fail(d)
  /\ UNCHANGED <<click, presses, shown, votes, audits, query>>

-----------------------------------------------------------------------------
(* Clicks.                                                                 *)

\* The payload Slack makes of a button of a card.
Pressed(i, n, action) ==
  [type |-> "block_actions", actions |-> <<[action_id |-> action, value |-> uuid[i]]>>,
   user |-> "user", channel |-> "channel", ts |-> <<i, n>>]

\* An engineer presses a button the card has at that moment, or anything else comes.
Press(c) ==
  /\ click[c] = NoClick /\ presses < MaxPresses
  /\ presses' = presses + 1
  /\ \/ \E i \in Ids : \E n \in DOMAIN shown[i] : \E action \in shown[i][n].buttons :
          Become(c, [at |-> "sent", payload |-> Pressed(i, n, action)])
     \/ \E payload \in Strays : Become(c, [at |-> "sent", payload |-> payload])
  /\ UNCHANGED <<vars, shown, votes, audits, query>>

\* What the envelope parses to, none or one.
Parsed(c) == UNION {parse_callback(x) : x \in to_interaction(click[c].payload)}

\* _load_recommendation.
Found(x) == {i \in Ids : i \in rec /\ uuid[i] = x.recommendation_id}

\* A click that says nothing, or is about no recommendation, is logged.
Reject(c) ==
  /\ click[c].at = "sent" /\ \A x \in Parsed(c) : Found(x) = {}
  /\ Become(c, NoClick)
  /\ UNCHANGED <<vars, presses, shown, votes, audits, query>>

\* A click on incident i that has read it: what it is to show, on which card.
Acting(at, x, i, ack) ==
  [at |-> at, on |-> i, ts |-> x.message_ts, action |-> x.action, read |-> status[i], ack |-> ack]

Sentiments == {"helpful", "not_helpful"}
_SENTIMENT == [a \in InteractionAction |-> IF a = "feedback.up" THEN "helpful" ELSE "not_helpful"]

\* Mutant of Rate: the card is shown before the row is there.
RateShown(c) ==
  /\ click[c].at = "sent"
  /\ \E x \in Parsed(c) : \E i \in Found(x) :
       /\ x.action # "incident.resolve"
       /\ Become(c, Acting("reflect", x, i, _SENTIMENT[x.action]))
  /\ UNCHANGED <<vars, presses, shown, votes, audits, query>>

\* _record_feedback reads the rows for the card before it writes its own.
Rate(c) ==
  /\ click[c].at = "sent"
  /\ \E x \in Parsed(c) : \E i \in Found(x) :
       /\ x.action # "incident.resolve"
       /\ Become(c, Acting("commit", x, i, _SENTIMENT[x.action]))
  /\ UNCHANGED <<vars, presses, shown, votes, audits, query>>

\* The foreign key, checked at the commit, waits for who has locked the recommendation.
Vote(c) ==
  /\ click[c].at = "commit" /\ ~Locked(click[c].on)
  /\ votes' = [votes EXCEPT ![click[c].on][click[c].ack] = @ + 1]
  /\ Become(c, [click[c] EXCEPT !.at = "reflect"])
  /\ UNCHANGED <<vars, presses, shown, audits, query>>

Audit(i, event) == audits' = [audits EXCEPT ![i][event] = @ + 1]

\* Mutant of Resolve: whether the incident can still be resolved is not looked at.
ResolveUnchecked(c) ==
  /\ click[c].at = "sent"
  /\ \E x \in Parsed(c) : \E i \in Found(x) :
       /\ x.action = "incident.resolve"
       /\ status' = [status EXCEPT ![i] = "resolved"]
       /\ UNCHANGED <<recent, rec, delivered, target, deliveries, slack, failures>>
       /\ Audit(i, "clicked")
       /\ Become(c, [Acting("reflect", x, i, "resolved by") EXCEPT !.read = "resolved"])
  /\ UNCHANGED <<presses, shown, votes, query>>

\* transition_status under the row's lock: the winner moves the incident, a loser files
\* the attempt.
Resolve(c) ==
  /\ click[c].at = "sent"
  /\ \E x \in Parsed(c) : \E i \in Found(x) :
       /\ x.action = "incident.resolve"
       /\ \/ Click(i) /\ Audit(i, "clicked")
          \/ ~Live(i) /\ Audit(i, "invalid") /\ UNCHANGED vars
       /\ Become(c, [Acting("reflect", x, i, IF Live(i) THEN "resolved by" ELSE "already resolved")
                       EXCEPT !.read = "resolved"])
  /\ UNCHANGED <<presses, shown, votes, query>>

\* _reflect shows what was read, whatever the card shows by now, or fails and is forgotten.
Reflect(c) ==
  /\ click[c].at = "reflect"
  /\ \/ shown' = [shown EXCEPT ![click[c].ts[1]][click[c].ts[2]] =
                    format_rca_card(click[c].read, click[c].on \in fallbacks, click[c].ack)]
     \/ UNCHANGED shown
  /\ Become(c, NoClick)
  /\ UNCHANGED <<vars, presses, votes, audits, query>>

\* The process dies, or the database cannot be reached: the envelope has been acknowledged.
Lose(c) ==
  /\ click[c] # NoClick
  /\ Become(c, NoClick)
  /\ UNCHANGED <<vars, presses, shown, votes, audits, query>>

-----------------------------------------------------------------------------
(* The bot.  Its answer is what its queries have given, in their order.    *)

Existing == {i \in Ids : status[i] # "absent"}
Newest(S, n) == {i \in S : Cardinality({j \in S : j > i}) < n}
Told(i) == <<i, status[i]>>

\* Mutant of Queries: the recommendation is looked for before the incident.
QueriesSwapped(command) ==
  CASE command = "incident" -> <<"latest_for_incident", "get">>
    [] command = "summary" -> <<"opened", "resolved", "feedback">>
    [] OTHER -> <<>>

\* The queries of a command.  All the incidents are of today, and the outbox is Outbox's.
Queries(command) ==
  CASE command = "status" -> <<"active", "last_rca">>
    [] command = "open" -> <<"list_active">>
    [] command = "incident" -> <<"get", "latest_for_incident">>
    [] command = "last" -> <<"recent">>
    [] command = "summary" -> <<"opened", "resolved", "feedback">>
    [] OTHER -> <<>>

Active == {i \in Ids : Live(i)}
Asked(args) == {i \in Existing : uuid[i] = args[1]}
InWindow(S, args) == IF args = <<"today">> THEN S ELSE {}

\* A recommendation is looked for only if there is the incident.
Value(name, args) ==
  CASE name = "active" -> Cardinality(Active)
    [] name = "last_rca" -> rec # {}
    [] name = "list_active" -> {Told(i) : i \in Newest(Active, max_rows)}
    [] name = "get" -> {Told(i) : i \in Asked(args)}
    [] name = "latest_for_incident" -> Asked(args) \cap rec
    [] name = "recent" ->
         {Told(i) : i \in IF args[2] \in {Absent, service}
                          THEN Newest(Existing, IF args[1] < max_rows THEN args[1] ELSE max_rows)
                          ELSE {}}
    [] name = "opened" -> Cardinality(InWindow(Existing, args))
    [] name = "resolved" ->
         Cardinality(InWindow({i \in Ids : audits[i].clicked + audits[i].cleared > 0}, args))
    [] name = "feedback" ->
         [s \in Sentiments |-> MapThenSumSet(LAMBDA i : votes[i][s], InWindow(Ids, args))]

\* A mention is parsed; a command that is rejected is answered with help, without a query.
Mention ==
  /\ query = NoQuery
  /\ \E text \in Texts :
       \E x \in to_mention([type |-> "app_mention", text |-> text, user |-> "user",
                            channel |-> "channel", ts |-> "ts"]) :
         LET command == parse_command(x.text)
         IN query' = [command |-> command.command, args |-> command.args, got |-> <<>>]
  /\ UNCHANGED <<vars, click, presses, shown, votes, audits>>

Answered ==
  \/ \A n \in DOMAIN Queries(query.command) : Queries(query.command)[n] \in DOMAIN query.got
  \/ "get" \in DOMAIN query.got /\ query.got["get"] = {}

\* Each query sees what is committed by then.
Query ==
  /\ query # NoQuery /\ ~Answered
  /\ LET got  == query.got
         next == Queries(query.command)[Cardinality(DOMAIN got) + 1]
     IN query' = [query EXCEPT !.got = [name \in DOMAIN got \cup {next} |->
                    IF name = next THEN Value(next, query.args) ELSE got[name]]]
  /\ UNCHANGED <<vars, click, presses, shown, votes, audits>>

\* _reply, or the post or a query fails, and nobody is told.
ReplyOrNot ==
  /\ query # NoQuery
  /\ query' = NoQuery
  /\ UNCHANGED <<vars, click, presses, shown, votes, audits>>

-----------------------------------------------------------------------------
Clicking(c) == Press(c) \/ Reject(c) \/ Rate(c) \/ Vote(c) \/ Resolve(c) \/ Reflect(c) \/ Lose(c)
Bot == Mention \/ Query \/ ReplyOrNot

FeedbackNext ==
  \/ Elsewhere \/ ClearAudited
  \/ \E d \in Deliveries : PostCard(d)
  \/ \E c \in Clicks : Clicking(c)
  \/ Bot

FeedbackSpec == FeedbackInit /\ [][FeedbackNext]_fvars

-----------------------------------------------------------------------------
(* Properties.                                                             *)

Resolved(i) == audits[i].clicked + audits[i].cleared

\* An incident is resolved once, whichever of the clicks and of the alert's own resolved
\* webhook race for it, and once more at most, if its delivery has taken it back.
ResolvedOnce ==
  \A i \in Ids :
    /\ Resolved(i) <= (IF i \in delivered THEN 2 ELSE 1)
    /\ status[i] = "resolved" => Resolved(i) > 0

\* A card is never ahead of the database: what it says of the incident and of the clicks on
\* it has been committed, whoever re-renders it in whatever order.
CardNeverAhead ==
  \A i \in Ids : \A n \in DOMAIN shown[i] :
    LET card == shown[i][n]
    IN /\ card.status = "resolved" => Resolved(i) > 0
       /\ card.status = "investigating" => i \in delivered
       /\ "resolved by" \in card.notes => audits[i].clicked > 0
       /\ \A s \in Sentiments : s \in card.notes => votes[i][s] > 0

\* bot.py: an incident the bot says is investigated has its root cause in the same answer,
\* although they are read one after the other.
AnswerHoldsTogether ==
  Answered /\ query.command = "incident" =>
    \A i \in Ids :
      <<i, "investigating">> \in query.got["get"] => i \in query.got["latest_for_incident"]
=============================================================================
