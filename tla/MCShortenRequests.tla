------------------------ MODULE MCShortenRequests ------------------------
\* Small instances of ShortenRequests for TLC.
EXTENDS RequestInvariants, TLC

Symmetry == Permutations(Replicas) \cup Permutations(LongURLs)

\* One request is retried, a delete commits second or not at all, and only the
\* first entry gets into a snapshot: it is an insert, so that both matter.
NextRetry ==
    /\ NextRequests
    /\ \A u, v \in LongURLs : u # v => tries'[u] + tries'[v] <= 3
    /\ \A i \in 1..Len(log') : log'[i].type = "CmdDeleteURL" => i = 2
    /\ \A n \in Replicas : snapshot'[n].index <= 1
SpecRetry == InitRequests /\ [][NextRetry]_allVars
==========================================================================
