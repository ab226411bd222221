--------------------------- MODULE MCUrlListing ---------------------------
\* Small instances of UrlListing for TLC.
EXTENDS UrlListing, TLC

Symmetry == Permutations(Pods) \cup Permutations(Codes)

\* Commands are committed before anything else happens.  That loses nothing: a
\* command that was not committed yet and one that no pod has applied yet are
\* the same to the pods and to the page.
CommitFirst == log' = log => Len(log) = MaxLog

\* bound: one snapshot is taken; it may be installed and restored several times.
OneSnapshot ==
    (snapshot' # snapshot /\ applied' = applied) => \A p \in Pods : snapshot[p].index = 0

\* bound: no command deletes a code that no earlier one inserted.
DeletesOfInserted ==
    \A i \in 1..Len(log') : log'[i].type = "CmdDeleteURL" =>
        \E j \in 1..(i - 1) : log'[j] = [type |-> "CmdShortenURL", code |-> log'[i].code]

\* A restart of a pod that has applied nothing since its snapshot is left out: with
\* one restart it would change nothing.
RestartsMatter == restarts' # restarts => applied' # applied

MCSpec ==
    Init /\ [][Next /\ CommitFirst /\ OneSnapshot /\ DeletesOfInserted /\ RestartsMatter]_vars
===========================================================================
