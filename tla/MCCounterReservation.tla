----------------------- MODULE MCCounterReservation -----------------------
\* Small instances of CounterReservation for TLC.
EXTENDS CounterInvariants, TLC

NodeSymmetry == Permutations(Nodes)
CallSymmetry == Permutations(Calls)
Symmetry == NodeSymmetry \cup CallSymmetry

(***************************************************************************)
(* The liveness instance.  mu is a lock of one node, so both calls go to   *)
(* the same node; and no snapshot is taken, because it only decides from   *)
(* where a restarted node, which has no call any more, applies the log.    *)
(***************************************************************************)
Target == CHOOSE n \in Nodes : TRUE

LiveNext ==
    /\ Next
    /\ UNCHANGED snapshot
    /\ \A c \in Calls : node'[c] \in {None, Target}

LiveSpec == Init /\ [][LiveNext]_vars /\ Fairness
===========================================================================
