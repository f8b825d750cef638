---------------------------- MODULE MCAuditTrail ----------------------------
EXTENDS AuditTrail, TLC

Symmetry == Permutations(Workers) \cup Permutations(Calls)
=============================================================================
