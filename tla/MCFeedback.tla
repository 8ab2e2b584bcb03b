----------------------------- MODULE MCFeedback -----------------------------
EXTENDS Feedback, TLC

MCUuids == {"id1", "id2", "id3"}
MCUuid == [i \in Ids |-> CASE i = 1 -> "id1" [] i = 2 -> "id2" [] i = 3 -> "id3"]
MCNumber == ("0" :> 0) @@ ("2" :> 2)

\* A button without its value.
Stray(action, value) ==
  [type |-> "block_actions", actions |-> <<[action_id |-> action, value |-> value]>>,
   user |-> "user", channel |-> "channel", ts |-> "ts"]
MCStrays == {Stray("feedback.up", Absent)}

MCTexts == {<<"<@radar>">>, <<"<@radar>", "incident", "id1">>, <<"<@radar>", "summary">>}

Symmetry == Permutations(Senders) \cup Permutations(Deliveries) \cup Permutations(Clicks)
=============================================================================
