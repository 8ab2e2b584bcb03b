-------------------------- MODULE CorrelationRules --------------------------
(***************************************************************************)
(* The watcher's correlation rules as their YAML file declares them: what  *)
(* load_correlation_rules accepts, and the rules that are live.  Windows   *)
(* and service groups are validated too, and applied by nothing.           *)
(***************************************************************************)
EXTENDS Naturals, Sequences

CONSTANTS
  rules,      \* the file
  alertNames,
  Severities

Positive == Nat \ {0}

SuppressionRule == [alert_name : alertNames, suppress_follow_on_minutes : Positive]
EscalationRule  == [threshold : Positive \ {1}, within : Positive, to : Severities]
WindowOverride  == [alert_name : alertNames, window_minutes : Positive]

FINGERPRINT_FIELDS == <<"service_name", "alert_name", "severity">>

\* Only the first of two rules for an alert would ever apply.
RejectDuplicates(list) ==
  \A m, n \in DOMAIN list : list[m].alert_name = list[n].alert_name => m = n

\* Startup goes on only with a file that passes.
Loads ==
  /\ rules.default_window_minutes \in Positive
  /\ rules.window_overrides \in Seq(WindowOverride)
  /\ rules.suppression \in Seq(SuppressionRule)
  /\ rules.escalation \in Seq(EscalationRule)
  /\ RejectDuplicates(rules.suppression) /\ RejectDuplicates(rules.window_overrides)
  /\ rules.fingerprint_fields = FINGERPRINT_FIELDS

ASSUME RulesAssumption == Loads

Escalation == {rules.escalation[n] : n \in DOMAIN rules.escalation}

\* The suppression rule of an alert: the first of that name, or none.
suppression_for(name) ==
  {rules.suppression[n] : n \in
     {m \in DOMAIN rules.suppression :
        /\ rules.suppression[m].alert_name = name
        /\ \A l \in 1 .. m - 1 : rules.suppression[l].alert_name # name}}
=============================================================================
