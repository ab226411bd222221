--------------------------- MODULE MCUrlReplicas ---------------------------
\* Small instances of UrlReplicas for TLC.
EXTENDS UrlInvariants, TLC

Symmetry == Permutations(Replicas) \cup Permutations(LongURLs)
============================================================================
