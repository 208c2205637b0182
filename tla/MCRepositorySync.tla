--------------------------- MODULE MCRepositorySync ---------------------------
\* RepositorySync for TLC: the ids are numbers and slots are interchangeable.
EXTENDS RepositorySync, TLC

MCSymmetry == Permutations(Worker)
=============================================================================
