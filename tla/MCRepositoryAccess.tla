--------------------------- MODULE MCRepositoryAccess ---------------------------
\* RepositoryAccess for TLC: processes and reconciliations are interchangeable.
EXTENDS RepositoryAccess, TLC

MCSymmetry == Permutations(Process) \cup Permutations(Reconciliation)
=============================================================================
