----------------------------- MODULE Templates -----------------------------
(***************************************************************************)
(* The planner's library of investigation templates, as its YAML file      *)
(* declares it: what load_plan_templates accepts, and which template serves *)
(* an alert.                                                                *)
(*                                                                         *)
(* A name or a key is the sequence of the parts that ":" separates, so an  *)
(* alert whose own name holds a ":" has a key of three parts.              *)
(***************************************************************************)
EXTENDS Naturals, Sequences

CONSTANTS
  templates,    \* the file: a list of steps for each key
  Descriptions, \* what a step may say, never the empty text
  Padded        \* parts that begin or end with white space

PlanStep == [order : Nat \ {0}, description : Descriptions]

Default == <<"_default">>

template_key(service, name) == service \o name

\* InvestigationTemplate: at least one step, and no two that claim the same place.
WellFormed(steps) ==
  /\ steps \in Seq(PlanStep) /\ steps # << >>
  /\ \A m, n \in DOMAIN steps : steps[m].order = steps[n].order => m = n

\* A key that no alert could have would be dead configuration.
KeyProblem(key) ==
  Len(key) # 2 \/ \E n \in DOMAIN key : key[n] = "" \/ key[n] \in Padded

\* Startup goes on only with a file that passes.
Loads ==
  /\ Default \in DOMAIN templates
  /\ \A key \in DOMAIN templates :
       WellFormed(templates[key]) /\ (key # Default => ~KeyProblem(key))

ASSUME TemplatesAssumption == Loads

\* The template of the exact key, or the default one: never none.
Match(service, name) ==
  LET key == template_key(service, name) IN
  IF key \in DOMAIN templates THEN templates[key] ELSE templates[Default]

\* The steps the plan stores, sorted: as their order is unique, a set says as much.
OrderedSteps(service, name) ==
  LET steps == Match(service, name) IN {steps[n] : n \in DOMAIN steps}
=============================================================================
