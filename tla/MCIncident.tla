----------------------------- MODULE MCIncident -----------------------------
EXTENDS Incident, TLC
Symmetry == Permutations(Senders) \cup Permutations(Deliveries)
=============================================================================
