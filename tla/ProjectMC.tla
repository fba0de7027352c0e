------------------------------ MODULE ProjectMC ------------------------------
\* The instances of ProjectLifecycle that TLC checks, and their symmetry.
EXTENDS ProjectLifecycle, TLC

Symmetry == Permutations(Clients)
=============================================================================
