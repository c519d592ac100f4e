------------------------------ MODULE MCReport ------------------------------
EXTENDS ReportProps, TLC
CONSTANTS a, b, p1, p2
Symmetry == Permutations(Crates) \cup Permutations(Procs)
=============================================================================
