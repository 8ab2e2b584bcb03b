------------------------------ MODULE MCOutbox ------------------------------
EXTENDS Outbox, TLC
Symmetry == Permutations(Workers)
=============================================================================
