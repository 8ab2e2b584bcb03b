------------------------------- MODULE Slack -------------------------------
(***************************************************************************)
(* What the feedback-service shows in Slack and how it reads what comes    *)
(* back: the RCA card and its buttons, the envelopes of Socket Mode, and   *)
(* the @radar commands.  All of it is without state.                       *)
(*                                                                         *)
(* A field that may be missing is Absent.  A text is the sequence of its   *)
(* words; of a card only what depends on the incident is kept.             *)
(***************************************************************************)
EXTENDS Integers, Sequences

CONSTANTS
  Uuids,   \* the words that are the id of something
  Absent,
  number   \* the number each numeral stands for

ASSUME SlackAssumption == Absent \notin Uuids

-----------------------------------------------------------------------------
(* The card.                                                               *)

InteractionAction == {"feedback.up", "feedback.down", "incident.resolve"}

\* _actions_block: the Resolve button is dropped once the incident is resolved.
Buttons(resolved) ==
  InteractionAction \ (IF resolved THEN {"incident.resolve"} ELSE {})

\* The acknowledgement that is appended by a click, or none.
format_rca_card(rcaStatus, isFallback, ack) ==
  [status |-> rcaStatus, buttons |-> Buttons(rcaStatus = "resolved"),
   notes |-> (IF rcaStatus = "resolved" THEN {"no further action needed"} ELSE {})
             \cup (IF isFallback THEN {"generated without AI"} ELSE {})
             \cup (IF ack = "none" THEN {} ELSE {ack})]

-----------------------------------------------------------------------------
(* Envelopes.                                                              *)

\* to_interaction, of a payload of block_actions with everything that names the click.
to_interaction(payload) ==
  IF /\ payload.type = "block_actions" /\ payload.actions # <<>>
     /\ Absent \notin {payload.actions[1].action_id, payload.user, payload.channel, payload.ts}
  THEN {[action_id |-> payload.actions[1].action_id, value |-> payload.actions[1].value,
         channel_id |-> payload.channel, user_id |-> payload.user, message_ts |-> payload.ts]}
  ELSE {}

to_mention(payload) ==
  IF payload.type = "app_mention"
     /\ Absent \notin {payload.text, payload.user, payload.channel, payload.ts}
  THEN {[text |-> payload.text, user_id |-> payload.user, channel_id |-> payload.channel,
         message_ts |-> payload.ts]}
  ELSE {}

\* parse_callback, or {} where it raises: a known action on something with an id.
parse_callback(interaction) ==
  IF interaction.action_id \in InteractionAction /\ interaction.value \in Uuids
  THEN {[action |-> interaction.action_id, recommendation_id |-> interaction.value,
         user_id |-> interaction.user_id, channel_id |-> interaction.channel_id,
         message_ts |-> interaction.message_ts]}
  ELSE {}

-----------------------------------------------------------------------------
(* Commands.                                                               *)

BotCommandType == {"status", "open", "incident", "last", "summary"}

Command(verb, args) == [command |-> verb, args |-> args]
Rejected(failure) == Command(failure, <<>>)

\* Only the handle at the front is the bot's; another one is an argument.
strip_handle(text) ==
  IF text # <<>> /\ Head(text) = "<@radar>" THEN Tail(text) ELSE text

incident_args(args) ==
  IF args # <<>> /\ args[1] \in Uuids THEN Command("incident", <<args[1]>>)
  ELSE Rejected("bad_argument")

\* The service after "for", Absent without one; {} where it is not that.
parse_for(rest) ==
  CASE rest = <<>> -> {Absent}
    [] Len(rest) >= 2 /\ rest[1] = "for" -> {rest[2]}
    [] OTHER -> {}

last_args(args) ==
  IF /\ args # <<>> /\ args[1] \in DOMAIN number /\ number[args[1]] >= 1
     /\ parse_for(Tail(args)) # {}
  THEN Command("last", <<number[args[1]], CHOOSE s \in parse_for(Tail(args)) : TRUE>>)
  ELSE Rejected("bad_argument")

summary_args(args) ==
  CASE args = <<>> -> Command("summary", <<"today">>)
    [] args # <<>> /\ args[1] \in {"today", "yesterday"} -> Command("summary", <<args[1]>>)
    [] OTHER -> Rejected("bad_argument")

\* A bare mention asks for help; status and open ignore what follows.
parse_command(text) ==
  LET words == strip_handle(text)
      verb  == IF words = <<>> THEN "help" ELSE Head(words)
      args  == Tail(words)
  IN CASE verb \in {"help", "?"} -> Rejected("empty")
       [] verb \in {"status", "open"} -> Command(verb, <<>>)
       [] verb = "incident" -> incident_args(args)
       [] verb = "last" -> last_args(args)
       [] verb = "summary" -> summary_args(args)
       [] OTHER -> Rejected("unknown_command")
=============================================================================
