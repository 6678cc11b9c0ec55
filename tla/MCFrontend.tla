------------------------------ MODULE MCFrontend ------------------------------
\* The parts of the browser application on small instances, requests of a part
\* being interchangeable.
EXTENDS Frontend, TLC

Symmetry == Permutations(CallId) \cup Permutations(Tab)

=============================================================================
