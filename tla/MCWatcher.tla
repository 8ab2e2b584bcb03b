------------------------------ MODULE MCWatcher ------------------------------
EXTENDS Watcher, TLC
CONSTANTS e1, e2, e4, e5, i1, i2
\* e1 and e2 are a burst about i1, exactly as long as the first rule's window; e4 opens
\* i2, a follow-on of i1 under another severity; e5 is of another type.
MCIncidentOf == [e \in Events |-> IF e \in {e4, e5} THEN i2 ELSE i1]
MCReceived ==
  [e \in Events |-> CASE e = e1 -> 1 [] e = e2 -> 6 [] OTHER -> 9]
MCOpenedAt == i1 :> 1 @@ i2 :> 9
MCInitial == i1 :> 3 @@ i2 :> 1
MCAlert == [e \in Events |-> [service |-> "api", name |-> "latency"]]
\* Two alerts in five minutes are high, two in four are critical.
MCRules ==
  [default_window_minutes |-> 10, window_overrides |-> << >>,
   suppression |->
     << [alert_name |-> "errors", suppress_follow_on_minutes |-> 1],
        [alert_name |-> "latency", suppress_follow_on_minutes |-> 10] >>,
   escalation |-> << [threshold |-> 2, within |-> 5, to |-> 1],
                     [threshold |-> 2, within |-> 4, to |-> 0] >>,
   fingerprint_fields |-> FINGERPRINT_FIELDS]
MCSeverities == 0 .. 4
=============================================================================
