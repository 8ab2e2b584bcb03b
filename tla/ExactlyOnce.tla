---------------------------- MODULE ExactlyOnce ----------------------------
(***************************************************************************)
(* What a consumer of the outbox promises however often an event reaches   *)
(* it: a subject is decided at most once, the decision emits one event     *)
(* downstream, every further event about it is absorbed, and only an event *)
(* that is handled for good is answered with a 2xx.  A subject may be      *)
(* deleted before it is decided; nothing is decided about it then.         *)
(***************************************************************************)
EXTENDS Naturals

CONSTANTS Events, Subjects,
          Foreign,  \* events of a type this consumer does not handle
          Orphans,  \* events it must refuse
          subject   \* what each event is about

VARIABLES effects,  \* decisions taken about each subject
          emitted,  \* events sent downstream about it
          gone,     \* subjects deleted before any decision
          handled,  \* events that will never be worked on again
          answered  \* events answered with a 2xx

vars == <<effects, emitted, gone, handled, answered>>

Init ==
  /\ effects = [s \in Subjects |-> 0]
  /\ emitted = [s \in Subjects |-> 0]
  /\ gone = {}
  /\ handled = {}
  /\ answered = {}

Decide(e) ==
  /\ e \notin handled \cup Foreign \cup Orphans
  /\ effects[subject[e]] = 0 /\ subject[e] \notin gone
  /\ effects' = [effects EXCEPT ![subject[e]] = 1]
  /\ emitted' = [emitted EXCEPT ![subject[e]] = @ + 1]
  /\ handled' = handled \cup {e}
  /\ UNCHANGED <<gone, answered>>

Absorb(e) ==
  /\ e \notin handled \cup Orphans
  /\ e \notin Foreign => effects[subject[e]] = 1 \/ subject[e] \in gone
  /\ handled' = handled \cup {e}
  /\ UNCHANGED <<effects, emitted, gone, answered>>

Answer(e) ==
  /\ e \in handled
  /\ answered' = answered \cup {e}
  /\ UNCHANGED <<effects, emitted, gone, handled>>

Delete(s) ==
  /\ effects[s] = 0
  /\ gone' = gone \cup {s}
  /\ UNCHANGED <<effects, emitted, handled, answered>>

Next ==
  \/ \E e \in Events : Decide(e) \/ Absorb(e) \/ Answer(e)
  \/ \E s \in Subjects : Delete(s)

Spec == Init /\ [][Next]_vars
=============================================================================
