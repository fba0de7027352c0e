----------------------------- MODULE ClusterClaims -----------------------------
(***************************************************************************)
(* What the documentation says of a failed cluster that the code does not   *)
(* keep.                                                                    *)
(***************************************************************************)
EXTENDS ClusterLifecycle

(* cluster-management.md:176 "All partially created resources are           *)
(* automatically cleaned up", and line 476: "Destroy the cluster to clean   *)
(* up any partially created resources".  So once the record is DESTROYED    *)
(* (cluster_destruction.py 886) no PCS cluster of the name is left.         *)
DestroyCleansUp ==
    \A p \in Projects :
        rec[p].status = "DESTROYED"
            => \A c \in Creations : cre[c].proj = p => Gone(c)
=============================================================================
