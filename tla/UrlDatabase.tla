---------------------------- MODULE UrlDatabase ----------------------------
(***************************************************************************)
(* The SQLite file of a pod as far as URLs go: the tables urls and         *)
(* url_stats, the statements of internal/db/query.sql that write them, and *)
(* what FSM.Restore puts back of what FSM.Snapshot copied.                 *)
(*                                                                         *)
(* id and created_at are left out: every replica fills them by itself.     *)
(* The counter table belongs to CounterReservation.                        *)
(***************************************************************************)
EXTENDS Naturals

CONSTANTS
    Codes,      \* short codes
    LongURLs,   \* long URLs
    Times,      \* the Unix times a follow can carry
    NoRow       \* no row with this key

ASSUME TimesAssumption == Times \subseteq Nat
ASSUME NoRowAssumption ==
    /\ NoRow \notin LongURLs \cup Times
    /\ NoRow \notin [count : Nat \ {0}, first : Times, last : Times]

StatsRow == [count : Nat \ {0}, first : Times, last : Times]

Database == [urls : [Codes -> LongURLs \cup {NoRow}],
             stats : [Codes -> StatsRow \cup {NoRow}]]

EmptyDatabase == [urls |-> [c \in Codes |-> NoRow], stats |-> [c \in Codes |-> NoRow]]

-----------------------------------------------------------------------------
\* InsertURL: the UNIQUE short_code refuses a second row.
InsertURL(db, code, url) ==
    IF db.urls[code] # NoRow THEN db ELSE [db EXCEPT !.urls[code] = url]

\* Mutant: the row of the first follow counts none.
FollowedFromZero(row, at) ==
    IF row = NoRow THEN [count |-> 0, first |-> at, last |-> at]
    ELSE [row EXCEPT !.count = @ + 1, !.last = at]

\* The ON CONFLICT clause of UpsertFollowStats: the count grows by one, the last
\* follow is replaced and the first one kept.
Followed(row, at) ==
    IF row = NoRow THEN [count |-> 1, first |-> at, last |-> at]
    ELSE [row EXCEPT !.count = @ + 1, !.last = at]

\* UpsertFollowStats does not ask whether the URL exists.
UpsertFollowStats(db, code, at) == [db EXCEPT !.stats[code] = Followed(@, at)]

DeleteURLStats(db, code) == [db EXCEPT !.stats[code] = NoRow]

DeleteURL(db, code) == [db EXCEPT !.urls[code] = NoRow]

-----------------------------------------------------------------------------
\* Mutant: urls is filled without having been emptied.
RestoredOverUrls(data, db) ==
    [urls |-> [c \in Codes |-> IF data.urls[c] = NoRow THEN db.urls[c] ELSE data.urls[c]],
     stats |-> data.stats]

\* Mutant: url_stats is filled without having been emptied.
RestoredOverStats(data, db) ==
    [urls |-> data.urls,
     stats |-> [c \in Codes |-> IF data.stats[c] = NoRow THEN db.stats[c] ELSE data.stats[c]]]

\* Mutant: follow_count is not restored.
RestoredUncounted(data, db) ==
    [urls |-> data.urls,
     stats |-> [c \in Codes |-> IF data.stats[c] = NoRow THEN NoRow
                                ELSE [data.stats[c] EXCEPT !.count = 1]]]

\* Mutant: the rows of urls are not written back.
RestoredWithoutUrls(data, db) == [urls |-> EmptyDatabase.urls, stats |-> data.stats]

\* FSM.Restore: one transaction empties the tables of db and fills them with
\* the rows of the snapshot, so that nothing of db is left.
Restored(data, db) == [urls |-> data.urls, stats |-> data.stats]
=============================================================================
