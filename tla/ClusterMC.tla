------------------------------ MODULE ClusterMC ------------------------------
(* Instances of the cluster modules for TLC.                                *)
EXTENDS ClusterClaims, TLC

Symmetry == Permutations(Creations) \cup Permutations(Destructions)
                \cup Permutations(Clients)
=============================================================================
