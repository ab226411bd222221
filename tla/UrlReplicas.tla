---------------------------- MODULE UrlReplicas ----------------------------
(***************************************************************************)
(* The replicated URL store: FSM.Apply on every pod for the commands that  *)
(* write URLs and their statistics, FSM.Snapshot and Restore, and what a   *)
(* restart does to a SQLite file that outlives its process.                *)
(*                                                                         *)
(* hashicorp/raft is external: a sequence of committed commands that every *)
(* replica applies in order, from its latest snapshot on, and snapshots    *)
(* that a leader sends to a replica that lags.  How a command gets into    *)
(* the log, and the counter, are the business of CounterReservation.       *)
(***************************************************************************)
EXTENDS UrlDatabase, Sequences

CONSTANTS
    Replicas,     \* the pods
    MaxLog,       \* bound: committed commands
    MaxRestarts   \* bound: restarts, of all pods together

ASSUME MaxLogAssumption == MaxLog \in Nat
ASSUME MaxRestartsAssumption == MaxRestarts \in Nat

VARIABLES
    log,        \* the committed commands
    ideal,      \* after each entry, the store that applies every entry once
    applied,    \* how many entries a replica's raft has applied since it started
    database,   \* a replica's SQLite file
    deleting,   \* a replica is between the two statements of applyDeleteURL
    snapshot,   \* a replica's latest snapshot file
    restarts    \* counts the restarts

vars == <<log, ideal, applied, database, deleting, snapshot, restarts>>

Command ==
    [type : {"CmdShortenURL"}, code : Codes, url : LongURLs]
        \cup [type : {"CmdRecordFollow"}, code : Codes, at : Times]
        \cup [type : {"CmdDeleteURL"}, code : Codes]

Snapshot == [index : Nat, data : Database]

Init ==
    /\ log = <<>>
    /\ ideal = <<EmptyDatabase>>
    /\ applied = [n \in Replicas |-> 0]
    /\ database = [n \in Replicas |-> EmptyDatabase]
    /\ deleting = [n \in Replicas |-> FALSE]
    /\ snapshot = [n \in Replicas |-> [index |-> 0, data |-> EmptyDatabase]]
    /\ restarts = 0

\* What a command does to a store when it runs to its end.
Apply(db, cmd) ==
    CASE cmd.type = "CmdShortenURL" -> InsertURL(db, cmd.code, cmd.url)
      [] cmd.type = "CmdRecordFollow" -> UpsertFollowStats(db, cmd.code, cmd.at)
      [] cmd.type = "CmdDeleteURL" -> DeleteURL(DeleteURLStats(db, cmd.code), cmd.code)

\* The store after the first i entries, each applied once.
Ideal(i) == ideal[i + 1]

\* raft commits a command that a handler passed to Cluster.Apply.  Nobody checks that
\* the URL of a follow exists: the call of RecordFollow is not waited for, and it may
\* commit at any time.
Commit(cmd) ==
    /\ Len(log) < MaxLog
    /\ log' = Append(log, cmd)
    /\ ideal' = Append(ideal, Apply(Ideal(Len(log)), cmd))
    /\ UNCHANGED <<applied, database, deleting, snapshot, restarts>>

-----------------------------------------------------------------------------
\* The entry that replica n is to apply next.
NextEntry(n) == log[applied[n] + 1]

Applying(n, type) ==
    applied[n] < Len(log) /\ ~deleting[n] /\ NextEntry(n).type = type

\* applyShortenURL; a row that is there already makes it an error result.
ApplyShortenURL(n) ==
    /\ Applying(n, "CmdShortenURL")
    /\ database' = [database EXCEPT ![n] = InsertURL(@, NextEntry(n).code, NextEntry(n).url)]
    /\ applied' = [applied EXCEPT ![n] = @ + 1]
    /\ UNCHANGED <<log, ideal, deleting, snapshot, restarts>>

ApplyRecordFollow(n) ==
    /\ Applying(n, "CmdRecordFollow")
    /\ database' = [database EXCEPT ![n] =
                      UpsertFollowStats(@, NextEntry(n).code, NextEntry(n).at)]
    /\ applied' = [applied EXCEPT ![n] = @ + 1]
    /\ UNCHANGED <<log, ideal, deleting, snapshot, restarts>>

\* applyDeleteURL runs two statements with no transaction around them.
ApplyDeleteStats(n) ==
    /\ Applying(n, "CmdDeleteURL")
    /\ database' = [database EXCEPT ![n] = DeleteURLStats(@, NextEntry(n).code)]
    /\ deleting' = [deleting EXCEPT ![n] = TRUE]
    /\ UNCHANGED <<log, ideal, applied, snapshot, restarts>>

\* Mutant: the function returns after the statistics.
ApplyDeleteURLOmitted(n) ==
    /\ deleting[n]
    /\ deleting' = [deleting EXCEPT ![n] = FALSE]
    /\ applied' = [applied EXCEPT ![n] = @ + 1]
    /\ UNCHANGED <<log, ideal, database, snapshot, restarts>>

ApplyDeleteURL(n) ==
    /\ deleting[n]
    /\ database' = [database EXCEPT ![n] = DeleteURL(@, NextEntry(n).code)]
    /\ deleting' = [deleting EXCEPT ![n] = FALSE]
    /\ applied' = [applied EXCEPT ![n] = @ + 1]
    /\ UNCHANGED <<log, ideal, snapshot, restarts>>

-----------------------------------------------------------------------------
\* FSM.Snapshot runs between two calls of Apply; Persist writes its copy to a
\* file that raft files under the index applied so far.
TakeSnapshot(n) ==
    /\ applied[n] > snapshot[n].index
    /\ ~deleting[n]
    /\ snapshot' = [snapshot EXCEPT ![n] =
                      [index |-> applied[n], data |-> database[n]]]
    /\ UNCHANGED <<log, ideal, applied, database, deleting, restarts>>

\* A leader m that no longer has the entries replica n needs sends its latest
\* snapshot; n keeps the file and its FSM restores it.
InstallSnapshot(n, m) ==
    /\ snapshot[m].index > applied[n]
    /\ ~deleting[n]
    /\ snapshot' = [snapshot EXCEPT ![n] = snapshot[m]]
    /\ database' = [database EXCEPT ![n] = Restored(snapshot[m].data, @)]
    /\ applied' = [applied EXCEPT ![n] = snapshot[m].index]
    /\ UNCHANGED <<log, ideal, deleting, restarts>>

\* The process dies, perhaps half-way through a delete, and starts again: raft
\* restores the latest snapshot, or with none leaves the SQLite file as it was,
\* and applies the log from there again.
Restart(n) ==
    /\ restarts < MaxRestarts
    /\ restarts' = restarts + 1
    /\ applied' = [applied EXCEPT ![n] = snapshot[n].index]
    /\ deleting' = [deleting EXCEPT ![n] = FALSE]
    /\ database' = [database EXCEPT ![n] =
                      IF snapshot[n].index = 0 THEN @ ELSE Restored(snapshot[n].data, @)]
    /\ UNCHANGED <<log, ideal, snapshot>>

-----------------------------------------------------------------------------
ReplicaStep(n) ==
    \/ ApplyShortenURL(n) \/ ApplyRecordFollow(n)
    \/ ApplyDeleteStats(n) \/ ApplyDeleteURL(n)
    \/ TakeSnapshot(n) \/ Restart(n)
    \/ \E m \in Replicas : InstallSnapshot(n, m)

Next ==
    \/ \E cmd \in Command : Commit(cmd)
    \/ \E n \in Replicas : ReplicaStep(n)

Spec == Init /\ [][Next]_vars

(***************************************************************************)
(* Properties                                                              *)
(***************************************************************************)

\* Every variable has its type.
TypeOK ==
    /\ log \in Seq(Command)
    /\ ideal \in Seq(Database)
    /\ Len(ideal) = Len(log) + 1
    /\ applied \in [Replicas -> Nat]
    /\ database \in [Replicas -> Database]
    /\ deleting \in [Replicas -> BOOLEAN]
    /\ snapshot \in [Replicas -> Snapshot]
    /\ restarts \in 0..MaxRestarts

CaughtUp(n) == applied[n] = Len(log) /\ ~deleting[n]

\* Whatever a replica redirects a code to, lagging behind, in the middle of
\* repeating its log or restored from a snapshot of one that was: it is a URL the
\* code really had, never one whose insert was refused because the code was taken
\* (schema.sql:3, shortener.go:153).
ResolvesCommitted ==
    \A n \in Replicas, c \in Codes : database[n].urls[c] # NoRow =>
        \E i \in 0..Len(log) : Ideal(i).urls[c] = database[n].urls[c]

\* A replica that applied the whole log redirects every code to the URL that
\* applying each command once gives, however often it crashed, also between the
\* two statements of a delete (fsm.go:117-118), applied commands again to the
\* file they had already changed, took or got a snapshot in the middle of that.
MappingConverges ==
    \A n \in Replicas : CaughtUp(n) => database[n].urls = Ideal(Len(log)).urls

\* The same for which codes have statistics and for the first and the last
\* follow: COALESCE and the overwrite of query.sql:23-25 stand being repeated.
FollowTimesConverge ==
    \A n \in Replicas : CaughtUp(n) => \A c \in Codes :
        LET mine == database[n].stats[c]
            once == Ideal(Len(log)).stats[c]
        IN  IF once = NoRow THEN mine = NoRow
            ELSE mine # NoRow /\ mine.first = once.first /\ mine.last = once.last

\* The count of follows is not one that repeats well, but it errs to one side:
\* no committed follow of a caught-up replica goes uncounted (fsm.go:94-109).
FollowsCountedAtLeastOnce ==
    \A n \in Replicas : CaughtUp(n) => \A c \in Codes :
        Ideal(Len(log)).stats[c] # NoRow =>
            /\ database[n].stats[c] # NoRow
            /\ database[n].stats[c].count >= Ideal(Len(log)).stats[c].count
=============================================================================
