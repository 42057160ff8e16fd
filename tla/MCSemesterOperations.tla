----------------------- MODULE MCSemesterOperations -----------------------
EXTENDS SemesterOperations, TLC

Symmetry == Permutations(Requests) \union Permutations(Photos)
=============================================================================
