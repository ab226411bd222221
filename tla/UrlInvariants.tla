--------------------------- MODULE UrlInvariants ---------------------------
(***************************************************************************)
(* Why repeating a prefix of the log on a file that already went beyond it *)
(* converges.  ShortenRequestsProofs proves this invariant inductive; TLC  *)
(* checks it first.                                                        *)
(***************************************************************************)
EXTENDS UrlReplicas

\* No entry after the i-th deletes code c.
NoDelete(i, c) ==
    \A k \in 1..Len(log) : k > i => ~(log[k].type = "CmdDeleteURL" /\ log[k].code = c)

\* No entry after the i-th follows code c.
NoFollow(i, c) ==
    \A k \in 1..Len(log) : k > i => ~(log[k].type = "CmdRecordFollow" /\ log[k].code = c)

First(db, c) == IF db.stats[c] = NoRow THEN NoRow ELSE db.stats[c].first
Last(db, c) == IF db.stats[c] = NoRow THEN NoRow ELSE db.stats[c].last
Count(db, c) == IF db.stats[c] = NoRow THEN 0 ELSE db.stats[c].count

----------------------------------------------------------------------------
\* ideal is the log run once.
IdealInv ==
    /\ Ideal(0) = EmptyDatabase
    /\ \A i \in 1..Len(log) : Ideal(i) = Apply(Ideal(i-1), log[i])

\* What entry i leaves of a code survives until it is deleted: the URL and the
\* first follow are kept, the last one until the next follow.
Survives(i, c) ==
    /\ Ideal(i).urls[c] # NoRow => Ideal(Len(log)).urls[c] = Ideal(i).urls[c]
    /\ First(Ideal(i), c) # NoRow => First(Ideal(Len(log)), c) = First(Ideal(i), c)
    /\ NoFollow(i, c) => Last(Ideal(Len(log)), c) = Last(Ideal(i), c)

SurvivalInv == \A i \in 0..Len(log), c \in Codes : NoDelete(i, c) => Survives(i, c)

\* A file at entry i that may have been further before: of a code that the rest
\* of the log does not delete it holds what belongs to entry i or what belongs
\* to the end of the log, and it has missed no follow.
Repeats(db, i, c) ==
    /\ db.urls[c] \in {Ideal(i).urls[c], Ideal(Len(log)).urls[c]}
    /\ First(db, c) \in {First(Ideal(i), c), First(Ideal(Len(log)), c)}
    /\ NoFollow(i, c) => Last(db, c) = Last(Ideal(Len(log)), c)
    /\ Count(db, c) >= Count(Ideal(i), c)

RepeatsAll(db, i) ==
    i \in 0..Len(log) /\ \A c \in Codes : NoDelete(i, c) => Repeats(db, i, c)

DatabaseInv == \A n \in Replicas : RepeatsAll(database[n], applied[n])

SnapshotInv == \A n \in Replicas : RepeatsAll(snapshot[n].data, snapshot[n].index)

\* Between the statements of a delete the entry is still to be applied and the
\* statistics are gone.
DeletingInv ==
    \A n \in Replicas : deleting[n] =>
        /\ applied[n] < Len(log)
        /\ NextEntry(n).type = "CmdDeleteURL"
        /\ database[n].stats[NextEntry(n).code] = NoRow

ConvergeInv ==
    TypeOK /\ IdealInv /\ SurvivalInv /\ DatabaseInv /\ SnapshotInv /\ DeletingInv

\* A file at entry i has a row of every code that has one by then, so that it
\* refuses the same inserts, and no row that no code ever had.
Known(db, i) ==
    \A c \in Codes :
        /\ Ideal(i).urls[c] # NoRow => db.urls[c] # NoRow
        /\ db.urls[c] # NoRow => \E k \in 0..Len(log) : Ideal(k).urls[c] = db.urls[c]

RowsInv ==
    \A n \in Replicas :
        /\ Known(database[n], applied[n])
        /\ Known(snapshot[n].data, snapshot[n].index)
============================================================================
