----------------------- MODULE ShortenRequestsProofs -----------------------
(***************************************************************************)
(* Proofs about UrlReplicas and, above it, ShortenRequests, for every      *)
(* number of clients, replicas, codes, entries, attempts and restarts.     *)
(*                                                                         *)
(* Of the store: a replica that applied the whole log holds what applying  *)
(* every entry once gives.  Of the requests: what a client is told is what *)
(* its own insert won in the order of the log, and the service does to its *)
(* clients what the one table of Shortener does.                           *)
(***************************************************************************)
EXTENDS RequestInvariants, UrlInvariants, TLAPS


(***************************************************************************)
(* The statements on a database                                            *)
(***************************************************************************)
LEMMA DatabaseParts ==
  ASSUME NEW db \in Database, NEW c \in Codes
  PROVE  /\ db.urls[c] \in LongURLs \cup {NoRow}
         /\ db.stats[c] \in StatsRow \cup {NoRow}
         /\ First(db, c) \in Times \cup {NoRow}
         /\ Last(db, c) \in Times \cup {NoRow}
         /\ Count(db, c) \in Nat
BY DEF Database, StatsRow, First, Last, Count

LEMMA EmptyParts ==
  /\ EmptyDatabase \in Database
  /\ \A c \in Codes : /\ EmptyDatabase.urls[c] = NoRow
                      /\ EmptyDatabase.stats[c] = NoRow
BY DEF EmptyDatabase, Database

LEMMA InsertEffect ==
  ASSUME NEW db \in Database, NEW key \in Codes, NEW url \in LongURLs
  PROVE  /\ InsertURL(db, key, url) \in Database
         /\ InsertURL(db, key, url).stats = db.stats
         /\ \A c \in Codes : InsertURL(db, key, url).urls[c] =
                IF c = key /\ db.urls[c] = NoRow THEN url ELSE db.urls[c]
BY DEF InsertURL, Database

LEMMA FollowedEffect ==
  ASSUME NEW row \in StatsRow \cup {NoRow}, NEW at \in Times
  PROVE  /\ Followed(row, at) \in StatsRow
         /\ Followed(row, at) # NoRow
         /\ Followed(row, at).last = at
         /\ Followed(row, at).first = IF row = NoRow THEN at ELSE row.first
         /\ Followed(row, at).count = IF row = NoRow THEN 1 ELSE row.count + 1
<1>1. NoRow \notin StatsRow
  BY NoRowAssumption DEF StatsRow
<1>2. CASE row = NoRow
  BY <1>1, <1>2 DEF Followed, StatsRow
<1>3. CASE row # NoRow
  <2>1. /\ row \in [count : Nat \ {0}, first : Times, last : Times]
        /\ row.count \in Nat /\ row.count + 1 \in Nat \ {0}
    BY <1>3 DEF StatsRow
  <2>2. Followed(row, at) = [row EXCEPT !.count = row.count + 1, !.last = at]
    BY <1>3 DEF Followed
  <2> QED BY <1>1, <1>3, <2>1, <2>2 DEF StatsRow
<1> QED BY <1>2, <1>3

LEMMA UpsertEffect ==
  ASSUME NEW db \in Database, NEW key \in Codes, NEW at \in Times
  PROVE  LET new == UpsertFollowStats(db, key, at) IN
         /\ new \in Database
         /\ new.urls = db.urls
         /\ \A c \in Codes : c # key => new.stats[c] = db.stats[c]
         /\ First(new, key) = IF First(db, key) = NoRow THEN at ELSE First(db, key)
         /\ Last(new, key) = at
         /\ Count(new, key) = Count(db, key) + 1
<1> DEFINE new == UpsertFollowStats(db, key, at)
           row == Followed(db.stats[key], at)
<1>1. /\ row \in StatsRow /\ row # NoRow
      /\ row.last = at
      /\ row.first = IF db.stats[key] = NoRow THEN at ELSE db.stats[key].first
      /\ row.count = IF db.stats[key] = NoRow THEN 1 ELSE db.stats[key].count + 1
  BY DatabaseParts, FollowedEffect
<1>2. /\ new \in Database
      /\ new.urls = db.urls
      /\ \A c \in Codes : new.stats[c] = IF c = key THEN row ELSE db.stats[c]
  BY <1>1 DEF UpsertFollowStats, Database
<1>3. db.stats[key] # NoRow => db.stats[key].first # NoRow
  BY DatabaseParts, NoRowAssumption DEF StatsRow
<1> HIDE DEF new, row
<1> QED BY <1>1, <1>2, <1>3 DEF First, Last, Count, new

LEMMA DeleteStatsEffect ==
  ASSUME NEW db \in Database, NEW key \in Codes
  PROVE  /\ DeleteURLStats(db, key) \in Database
         /\ DeleteURLStats(db, key).urls = db.urls
         /\ \A c \in Codes : DeleteURLStats(db, key).stats[c] =
                IF c = key THEN NoRow ELSE db.stats[c]
BY DEF DeleteURLStats, Database

LEMMA DeleteEffect ==
  ASSUME NEW db \in Database, NEW key \in Codes
  PROVE  /\ DeleteURL(db, key) \in Database
         /\ DeleteURL(db, key).stats = db.stats
         /\ \A c \in Codes : DeleteURL(db, key).urls[c] =
                IF c = key THEN NoRow ELSE db.urls[c]
BY DEF DeleteURL, Database

LEMMA RestoredEffect ==
  ASSUME NEW data \in Database, NEW db
  PROVE  /\ Restored(data, db) \in Database
         /\ Restored(data, db).urls = data.urls
         /\ Restored(data, db).stats = data.stats
BY DEF Restored, Database

\* A command is one of three, with the fields of its payload.
LEMMA CommandCases ==
  ASSUME NEW cmd \in Command
  PROVE  /\ cmd.code \in Codes
         /\ \/ cmd.type = "CmdShortenURL" /\ cmd.url \in LongURLs
            \/ cmd.type = "CmdRecordFollow" /\ cmd.at \in Times
            \/ cmd.type = "CmdDeleteURL"
BY DEF Command

\* What a command does to the rows of each code.
LEMMA ApplyEffect ==
  ASSUME NEW db \in Database, NEW cmd \in Command
  PROVE  /\ Apply(db, cmd) \in Database
         /\ cmd.type = "CmdShortenURL" => Apply(db, cmd) = InsertURL(db, cmd.code, cmd.url)
         /\ cmd.type = "CmdRecordFollow" =>
                Apply(db, cmd) = UpsertFollowStats(db, cmd.code, cmd.at)
         /\ cmd.type = "CmdDeleteURL" =>
                Apply(db, cmd) = DeleteURL(DeleteURLStats(db, cmd.code), cmd.code)
<1>1. CASE cmd.type = "CmdShortenURL"
  BY <1>1, CommandCases, InsertEffect DEF Apply
<1>2. CASE cmd.type = "CmdRecordFollow"
  BY <1>2, CommandCases, UpsertEffect DEF Apply
<1>3. CASE cmd.type = "CmdDeleteURL"
  BY <1>3, CommandCases, DeleteStatsEffect, DeleteEffect DEF Apply
<1> QED BY <1>1, <1>2, <1>3, CommandCases

----------------------------------------------------------------------------
(***************************************************************************)
(* Types                                                                   *)
(***************************************************************************)
LEMMA EntryType ==
  ASSUME TypeOK, NEW n \in Replicas, applied[n] < Len(log)
  PROVE  /\ applied[n] + 1 \in 1..Len(log)
         /\ NextEntry(n) \in Command
BY DEF TypeOK, NextEntry

LEMMA IdealType ==
  ASSUME TypeOK, NEW i \in 0..Len(log)
  PROVE  Ideal(i) \in Database
BY DEF TypeOK, Ideal

\* A step changes the file of at most one replica, into a database again.
LEMMA TypeStep ==
  ASSUME TypeOK, DeletingInv, [Next]_vars
  PROVE  TypeOK'
<1>1. ASSUME NEW cmd \in Command, Commit(cmd) PROVE TypeOK'
  <2>1. Apply(Ideal(Len(log)), cmd) \in Database
    <3>1. Len(log) \in 0..Len(log)
      BY DEF TypeOK
    <3> QED BY <3>1, IdealType, ApplyEffect
  <2>2. /\ log' = Append(log, cmd)
        /\ ideal' = Append(ideal, Apply(Ideal(Len(log)), cmd))
        /\ UNCHANGED <<applied, database, deleting, snapshot, restarts>>
    BY <1>1 DEF Commit
  <2> HIDE DEF Apply
  <2> QED BY <2>1, <2>2 DEF TypeOK
<1>2. ASSUME NEW n \in Replicas, ApplyShortenURL(n) PROVE TypeOK'
  <2>1. InsertURL(database[n], NextEntry(n).code, NextEntry(n).url) \in Database
    BY <1>2, EntryType, CommandCases, InsertEffect DEF ApplyShortenURL, Applying, TypeOK
  <2> QED BY <1>2, <2>1 DEF ApplyShortenURL, TypeOK
<1>3. ASSUME NEW n \in Replicas, ApplyRecordFollow(n) PROVE TypeOK'
  <2>1. UpsertFollowStats(database[n], NextEntry(n).code, NextEntry(n).at) \in Database
    BY <1>3, EntryType, CommandCases, UpsertEffect DEF ApplyRecordFollow, Applying, TypeOK
  <2> QED BY <1>3, <2>1 DEF ApplyRecordFollow, TypeOK
<1>4. ASSUME NEW n \in Replicas, ApplyDeleteStats(n) PROVE TypeOK'
  <2>1. DeleteURLStats(database[n], NextEntry(n).code) \in Database
    BY <1>4, EntryType, CommandCases, DeleteStatsEffect DEF ApplyDeleteStats, Applying, TypeOK
  <2> QED BY <1>4, <2>1 DEF ApplyDeleteStats, TypeOK
<1>5. ASSUME NEW n \in Replicas, ApplyDeleteURL(n) PROVE TypeOK'
  <2>1. DeleteURL(database[n], NextEntry(n).code) \in Database
    BY <1>5, EntryType, CommandCases, DeleteEffect DEF ApplyDeleteURL, DeletingInv, TypeOK
  <2> QED BY <1>5, <2>1 DEF ApplyDeleteURL, TypeOK
<1>6. ASSUME NEW n \in Replicas, TakeSnapshot(n) PROVE TypeOK'
  BY <1>6 DEF TakeSnapshot, TypeOK, Snapshot
<1>7. ASSUME NEW n \in Replicas, NEW m \in Replicas, InstallSnapshot(n, m) PROVE TypeOK'
  <2>1. Restored(snapshot[m].data, database[n]) \in Database /\ snapshot[m].index \in Nat
    BY RestoredEffect DEF TypeOK, Snapshot
  <2> QED BY <1>7, <2>1 DEF InstallSnapshot, TypeOK
<1>8. ASSUME NEW n \in Replicas, Restart(n) PROVE TypeOK'
  <2>1. Restored(snapshot[n].data, database[n]) \in Database /\ snapshot[n].index \in Nat
    BY RestoredEffect DEF TypeOK, Snapshot
  <2>2. restarts' \in 0..MaxRestarts
    BY <1>8, MaxRestartsAssumption DEF Restart, TypeOK
  <2> QED BY <1>8, <2>1, <2>2 DEF Restart, TypeOK
<1>9. CASE UNCHANGED vars
  BY <1>9 DEF vars, TypeOK
<1> QED
  BY <1>1, <1>2, <1>3, <1>4, <1>5, <1>6, <1>7, <1>8, <1>9 DEF Next, ReplicaStep

----------------------------------------------------------------------------
(***************************************************************************)
(* One more entry of the log                                               *)
(***************************************************************************)

\* A command keeps the URL, the first follow and, unless it is a follow, the
\* last follow of every code it does not delete.
LEMMA ApplyKeeps ==
  ASSUME NEW db \in Database, NEW cmd \in Command, NEW c \in Codes,
         ~(cmd.type = "CmdDeleteURL" /\ cmd.code = c)
  PROVE  /\ db.urls[c] # NoRow => Apply(db, cmd).urls[c] = db.urls[c]
         /\ First(db, c) # NoRow => First(Apply(db, cmd), c) = First(db, c)
         /\ ~(cmd.type = "CmdRecordFollow" /\ cmd.code = c) =>
                Last(Apply(db, cmd), c) = Last(db, c)
<1>1. CASE cmd.type = "CmdShortenURL"
  BY <1>1, ApplyEffect, CommandCases, InsertEffect DEF First, Last
<1>2. CASE cmd.type = "CmdRecordFollow"
  <2>1. /\ Apply(db, cmd) = UpsertFollowStats(db, cmd.code, cmd.at)
        /\ cmd.code \in Codes /\ cmd.at \in Times
    BY <1>2, ApplyEffect, CommandCases
  <2>2. CASE c = cmd.code
    BY <1>2, <2>1, <2>2, UpsertEffect
  <2>3. CASE c # cmd.code
    BY <2>1, <2>3, UpsertEffect DEF First, Last
  <2> QED BY <2>2, <2>3
<1>3. CASE cmd.type = "CmdDeleteURL"
  <2>1. /\ Apply(db, cmd) = DeleteURL(DeleteURLStats(db, cmd.code), cmd.code)
        /\ cmd.code \in Codes /\ cmd.code # c
    BY <1>3, ApplyEffect, CommandCases
  <2>2. /\ DeleteURLStats(db, cmd.code) \in Database
        /\ DeleteURLStats(db, cmd.code).urls = db.urls
        /\ DeleteURLStats(db, cmd.code).stats[c] = db.stats[c]
    BY <2>1, DeleteStatsEffect
  <2>3. Apply(db, cmd).urls[c] = db.urls[c] /\ Apply(db, cmd).stats[c] = db.stats[c]
    BY <2>1, <2>2, DeleteEffect
  <2> QED BY <2>3 DEF First, Last
<1> QED BY <1>1, <1>2, <1>3, CommandCases

LEMMA CommitEffect ==
  ASSUME TypeOK, NEW cmd \in Command, Commit(cmd)
  PROVE  /\ Len(log') = Len(log) + 1
         /\ \A k \in 1..Len(log) : log'[k] = log[k]
         /\ log'[Len(log) + 1] = cmd
         /\ \A i \in 0..Len(log) : ideal'[i + 1] = ideal[i + 1]
         /\ ideal'[Len(log) + 2] = Apply(ideal[Len(log) + 1], cmd)
         /\ UNCHANGED <<applied, database, deleting, snapshot>>
<1>1. /\ log' = Append(log, cmd)
      /\ ideal' = Append(ideal, Apply(ideal[Len(log) + 1], cmd))
      /\ UNCHANGED <<applied, database, deleting, snapshot>>
  BY DEF Commit, Ideal
<1>2. log \in Seq(Command) /\ ideal \in Seq(Database) /\ Len(ideal) = Len(log) + 1
  BY DEF TypeOK
<1>3. /\ Len(log') = Len(log) + 1
      /\ \A k \in 1..Len(log) : log'[k] = log[k]
      /\ log'[Len(log) + 1] = cmd
  BY <1>1, <1>2
<1>4. \A i \in 0..Len(log) : ideal'[i + 1] = ideal[i + 1]
  <2> SUFFICES ASSUME NEW i \in 0..Len(log) PROVE ideal'[i + 1] = ideal[i + 1]
    OBVIOUS
  <2>1. i + 1 \in 1..Len(ideal)
    BY <1>2
  <2> QED BY <1>1, <1>2, <2>1
<1>5. ideal'[Len(log) + 2] = Apply(ideal[Len(log) + 1], cmd)
  <2>1. Len(log) + 2 = Len(ideal) + 1
    BY <1>2
  <2> QED BY <1>1, <1>2, <2>1
<1> QED BY <1>1, <1>3, <1>4, <1>5

LEMMA CommitFrame ==
  ASSUME TypeOK, NEW cmd \in Command, Commit(cmd), NEW i \in 0..Len(log), NEW c \in Codes
  PROVE  /\ NoDelete(i, c)' => NoDelete(i, c) /\ ~(cmd.type = "CmdDeleteURL" /\ cmd.code = c)
         /\ NoFollow(i, c)' => NoFollow(i, c) /\ ~(cmd.type = "CmdRecordFollow" /\ cmd.code = c)
<1>1. /\ Len(log) \in Nat /\ Len(log') = Len(log) + 1
      /\ \A k \in 1..Len(log) : log'[k] = log[k]
      /\ log'[Len(log) + 1] = cmd
  BY CommitEffect DEF TypeOK
<1>2. /\ \A k \in 1..Len(log) : k \in 1..Len(log')
      /\ Len(log) + 1 \in 1..Len(log') /\ Len(log) + 1 > i
  BY <1>1
<1> QED BY <1>1, <1>2 DEF NoDelete, NoFollow

LEMMA SurvivalStep ==
  ASSUME TypeOK, SurvivalInv, NEW cmd \in Command, Commit(cmd)
  PROVE  SurvivalInv'
<1> SUFFICES ASSUME NEW i \in 0..Len(log'), NEW c \in Codes, NoDelete(i, c)'
             PROVE  Survives(i, c)'
  BY DEF SurvivalInv
<1>1. /\ Len(log) \in Nat /\ Len(log') = Len(log) + 1
      /\ \A j \in 0..Len(log) : ideal'[j + 1] = ideal[j + 1]
      /\ ideal'[Len(log) + 2] = Apply(ideal[Len(log) + 1], cmd)
  BY CommitEffect DEF TypeOK
<1>2. CASE i = Len(log')
  BY <1>2 DEF Survives, Ideal
<1>3. CASE i # Len(log')
  <2>1. i \in 0..Len(log) /\ Len(log) \in 0..Len(log)
    BY <1>1, <1>3
  <2>2. /\ NoDelete(i, c) /\ ~(cmd.type = "CmdDeleteURL" /\ cmd.code = c)
        /\ NoFollow(i, c)' => NoFollow(i, c)
                               /\ ~(cmd.type = "CmdRecordFollow" /\ cmd.code = c)
    BY <2>1, CommitFrame
  <2>3. Survives(i, c)
    BY <2>1, <2>2 DEF SurvivalInv
  <2>4. ideal[Len(log) + 1] \in Database /\ Len(log') + 1 = Len(log) + 2
    BY <1>1, <2>1, IdealType DEF Ideal
  <2> QED BY <1>1, <2>1, <2>2, <2>3, <2>4, ApplyKeeps DEF Survives, Ideal
<1> QED BY <1>2, <1>3

\* Repeating is not disturbed when the log grows.
LEMMA RepeatsGrows ==
  ASSUME TypeOK, SurvivalInv, NEW cmd \in Command, Commit(cmd),
         NEW db \in Database, NEW i, RepeatsAll(db, i)
  PROVE  RepeatsAll(db, i)'
<1>1. /\ Len(log) \in Nat /\ Len(log') = Len(log) + 1 /\ Len(log') + 1 = Len(log) + 2
      /\ \A j \in 0..Len(log) : ideal'[j + 1] = ideal[j + 1]
      /\ ideal'[Len(log) + 2] = Apply(ideal[Len(log) + 1], cmd)
  BY CommitEffect DEF TypeOK
<1>2. i \in 0..Len(log) /\ i \in 0..Len(log') /\ Len(log) \in 0..Len(log)
  BY <1>1 DEF RepeatsAll
<1>3. ASSUME NEW c \in Codes, NoDelete(i, c)' PROVE Repeats(db, i, c)'
  <2>1. /\ NoDelete(i, c) /\ ~(cmd.type = "CmdDeleteURL" /\ cmd.code = c)
        /\ NoFollow(i, c)' => NoFollow(i, c)
                               /\ ~(cmd.type = "CmdRecordFollow" /\ cmd.code = c)
    BY <1>2, <1>3, CommitFrame
  <2>2. Repeats(db, i, c) /\ Survives(i, c)
    BY <1>2, <2>1 DEF RepeatsAll, SurvivalInv
  <2>3. ideal[Len(log) + 1] \in Database
    BY <1>2, IdealType DEF Ideal
  <2> QED BY <1>1, <1>2, <2>1, <2>2, <2>3, ApplyKeeps DEF Survives, Repeats, Ideal
<1> QED BY <1>2, <1>3 DEF RepeatsAll

----------------------------------------------------------------------------
(***************************************************************************)
(* One more entry applied to a file                                        *)
(***************************************************************************)
LEMMA Advance ==
  ASSUME TypeOK, IdealInv, SurvivalInv, NEW db \in Database,
         NEW i \in Nat, i < Len(log), RepeatsAll(db, i),
         log[i + 1].type # "CmdDeleteURL"
  PROVE  RepeatsAll(Apply(db, log[i + 1]), i + 1)
<1> DEFINE cmd == log[i + 1]
           once == Ideal(i)
           end == Ideal(Len(log))
<1>1. /\ i \in 0..Len(log) /\ i + 1 \in 1..Len(log) /\ i + 1 \in 0..Len(log)
      /\ Len(log) \in 0..Len(log) /\ (i + 1) - 1 = i
  BY DEF TypeOK
<1>2. /\ cmd \in Command /\ once \in Database /\ end \in Database
      /\ Ideal(i + 1) = Apply(once, cmd)
  <2>1. cmd \in Command
    BY <1>1 DEF TypeOK
  <2>2. once \in Database /\ end \in Database
    BY <1>1, IdealType
  <2>3. Ideal(i + 1) = Apply(Ideal((i + 1) - 1), log[i + 1])
    BY <1>1 DEF IdealInv
  <2> QED BY <1>1, <2>1, <2>2, <2>3
<1> SUFFICES ASSUME NEW c \in Codes, NoDelete(i + 1, c)
             PROVE  Repeats(Apply(db, cmd), i + 1, c)
  BY <1>1 DEF RepeatsAll
<1>3. \A k \in 1..Len(log) : k > i => k = i + 1 \/ k > i + 1
  BY <1>1
<1>4. NoDelete(i, c)
  BY <1>3 DEF NoDelete
<1>5. Repeats(db, i, c) /\ Survives(i + 1, c)
  BY <1>1, <1>4 DEF RepeatsAll, SurvivalInv
<1>6. NoFollow(i + 1, c) /\ ~(cmd.type = "CmdRecordFollow" /\ cmd.code = c) => NoFollow(i, c)
  BY <1>3 DEF NoFollow
<1> HIDE DEF cmd, once, end
<1>7. CASE cmd.type = "CmdShortenURL"
  <2>1. /\ Apply(db, cmd) = InsertURL(db, cmd.code, cmd.url)
        /\ Apply(once, cmd) = InsertURL(once, cmd.code, cmd.url)
        /\ cmd.code \in Codes /\ cmd.url \in LongURLs
    BY <1>2, <1>7, ApplyEffect, CommandCases
  <2>2. /\ Apply(db, cmd).stats = db.stats /\ Apply(once, cmd).stats = once.stats
        /\ Apply(db, cmd).urls[c] =
             IF c = cmd.code /\ db.urls[c] = NoRow THEN cmd.url ELSE db.urls[c]
        /\ Apply(once, cmd).urls[c] =
             IF c = cmd.code /\ once.urls[c] = NoRow THEN cmd.url ELSE once.urls[c]
    BY <1>2, <2>1, InsertEffect
  <2>3. Apply(db, cmd).urls[c] \in {Apply(once, cmd).urls[c], end.urls[c]}
    BY <1>2, <1>5, <2>1, <2>2, NoRowAssumption DEF Repeats, Survives, once, end
  <2> QED BY <1>2, <1>5, <1>6, <1>7, <2>2, <2>3
          DEF Repeats, First, Last, Count, once, end
<1>8. CASE cmd.type = "CmdRecordFollow"
  <2>1. /\ Apply(db, cmd) = UpsertFollowStats(db, cmd.code, cmd.at)
        /\ Apply(once, cmd) = UpsertFollowStats(once, cmd.code, cmd.at)
        /\ cmd.code \in Codes /\ cmd.at \in Times
    BY <1>2, <1>8, ApplyEffect, CommandCases
  <2>2. Apply(db, cmd).urls = db.urls /\ Apply(once, cmd).urls = once.urls
    BY <1>2, <2>1, UpsertEffect
  <2>3. CASE c # cmd.code
    <3>1. /\ Apply(db, cmd).stats[c] = db.stats[c]
          /\ Apply(once, cmd).stats[c] = once.stats[c]
      BY <1>2, <2>1, <2>3, UpsertEffect
    <3> QED BY <1>2, <1>5, <1>6, <2>2, <2>3, <3>1
            DEF Repeats, First, Last, Count, once, end
  <2>4. CASE c = cmd.code
    <3>1. /\ First(Apply(db, cmd), c) = IF First(db, c) = NoRow THEN cmd.at ELSE First(db, c)
          /\ First(Apply(once, cmd), c) =
               IF First(once, c) = NoRow THEN cmd.at ELSE First(once, c)
          /\ Last(Apply(db, cmd), c) = cmd.at /\ Last(Apply(once, cmd), c) = cmd.at
          /\ Count(Apply(db, cmd), c) = Count(db, c) + 1
          /\ Count(Apply(once, cmd), c) = Count(once, c) + 1
      BY <1>2, <2>1, <2>4, UpsertEffect
    <3>2. Count(db, c) \in Nat /\ Count(once, c) \in Nat /\ cmd.at # NoRow
      BY <1>2, <2>1, DatabaseParts, NoRowAssumption
    <3>3. First(Apply(db, cmd), c) \in {First(Apply(once, cmd), c), First(end, c)}
      BY <1>2, <1>5, <3>1, <3>2 DEF Repeats, Survives, once, end
    <3>4. NoFollow(i + 1, c) => Last(Apply(db, cmd), c) = Last(end, c)
      BY <1>2, <1>5, <3>1 DEF Survives, once, end
    <3>5. Count(Apply(db, cmd), c) >= Count(Apply(once, cmd), c)
      BY <1>5, <3>1, <3>2 DEF Repeats, once
    <3> QED BY <1>2, <1>5, <2>2, <3>3, <3>4, <3>5 DEF Repeats, once, end
  <2> QED BY <2>3, <2>4
<1> QED BY <1>2, <1>7, <1>8, CommandCases DEF cmd

\* The first statement of a delete: the entry is still to come.
LEMMA DropStats ==
  ASSUME TypeOK, NEW db \in Database, NEW i \in Nat, i < Len(log), RepeatsAll(db, i),
         log[i + 1].type = "CmdDeleteURL"
  PROVE  RepeatsAll(DeleteURLStats(db, log[i + 1].code), i)
<1> DEFINE key == log[i + 1].code
<1>1. i + 1 \in 1..Len(log) /\ i + 1 > i /\ i \in 0..Len(log)
  BY DEF TypeOK
<1>2. key \in Codes
  BY <1>1, CommandCases DEF TypeOK
<1> SUFFICES ASSUME NEW c \in Codes, NoDelete(i, c)
             PROVE  Repeats(DeleteURLStats(db, key), i, c)
  BY <1>1 DEF RepeatsAll
<1>3. c # key
  BY <1>1 DEF NoDelete
<1>4. Repeats(db, i, c)
  BY DEF RepeatsAll
<1> HIDE DEF key
<1>5. /\ DeleteURLStats(db, key).urls[c] = db.urls[c]
      /\ DeleteURLStats(db, key).stats[c] = db.stats[c]
  BY <1>2, <1>3, DeleteStatsEffect
<1> QED BY <1>4, <1>5 DEF Repeats, First, Last, Count

\* The second statement: both rows are gone, as after applying the entry once.
LEMMA DropURL ==
  ASSUME TypeOK, IdealInv, SurvivalInv, NEW db \in Database,
         NEW i \in Nat, i < Len(log), RepeatsAll(db, i),
         log[i + 1].type = "CmdDeleteURL", db.stats[log[i + 1].code] = NoRow
  PROVE  RepeatsAll(DeleteURL(db, log[i + 1].code), i + 1)
<1> DEFINE cmd == log[i + 1]
           once == Ideal(i)
           mid == DeleteURLStats(once, cmd.code)
           new == DeleteURL(db, cmd.code)
<1>1. /\ i \in 0..Len(log) /\ i + 1 \in 1..Len(log) /\ i + 1 \in 0..Len(log)
      /\ (i + 1) - 1 = i
  BY DEF TypeOK
<1>2. cmd \in Command /\ once \in Database /\ cmd.code \in Codes
  BY <1>1, IdealType, CommandCases DEF TypeOK
<1>3. Ideal(i + 1) = DeleteURL(mid, cmd.code)
  <2>1. Ideal(i + 1) = Apply(Ideal((i + 1) - 1), log[i + 1])
    BY <1>1 DEF IdealInv
  <2> QED BY <1>1, <1>2, <2>1, ApplyEffect
<1> SUFFICES ASSUME NEW c \in Codes, NoDelete(i + 1, c)
             PROVE  Repeats(new, i + 1, c)
  BY <1>1 DEF RepeatsAll
<1>4. Survives(i + 1, c)
  BY <1>1 DEF SurvivalInv
<1>5. \A k \in 1..Len(log) : k > i => k = i + 1 \/ k > i + 1
  BY <1>1
<1>6. /\ new.stats = db.stats
      /\ new.urls[c] = IF c = cmd.code THEN NoRow ELSE db.urls[c]
  BY <1>2, DeleteEffect
<1>7. /\ mid \in Database /\ mid.urls = once.urls
      /\ mid.stats[c] = IF c = cmd.code THEN NoRow ELSE once.stats[c]
  BY <1>2, DeleteStatsEffect
<1>8. /\ Ideal(i + 1).stats[c] = IF c = cmd.code THEN NoRow ELSE once.stats[c]
      /\ Ideal(i + 1).urls[c] = IF c = cmd.code THEN NoRow ELSE once.urls[c]
  BY <1>2, <1>3, <1>7, DeleteEffect
<1>9. CASE c = cmd.code
  <2>1. db.stats[c] = NoRow
    BY <1>9
  <2> QED BY <1>4, <1>6, <1>8, <1>9, <2>1 DEF Repeats, Survives, First, Last, Count
<1>10. CASE c # cmd.code
  <2>1. NoDelete(i, c)
    BY <1>5, <1>10 DEF NoDelete
  <2>2. Repeats(db, i, c)
    BY <2>1 DEF RepeatsAll
  <2>3. NoFollow(i + 1, c) => NoFollow(i, c)
    BY <1>5 DEF NoFollow
  <2> HIDE DEF cmd, new, mid
  <2> QED BY <1>6, <1>8, <1>10, <2>2, <2>3 DEF Repeats, First, Last, Count
<1> QED BY <1>9, <1>10

\* Starting over on a file that is further.
LEMMA FromStart ==
  ASSUME TypeOK, IdealInv, SurvivalInv, NEW db \in Database, NEW i, RepeatsAll(db, i)
  PROVE  RepeatsAll(db, 0)
<1>1. i \in 0..Len(log) /\ 0 \in 0..Len(log)
  BY DEF TypeOK, RepeatsAll
<1> SUFFICES ASSUME NEW c \in Codes, NoDelete(0, c)
             PROVE  Repeats(db, 0, c)
  BY <1>1 DEF RepeatsAll
<1>2. NoDelete(i, c) /\ (NoFollow(0, c) => NoFollow(i, c))
  BY <1>1 DEF NoDelete, NoFollow
<1>3. Repeats(db, i, c) /\ Survives(i, c)
  BY <1>1, <1>2 DEF RepeatsAll, SurvivalInv
<1>4. /\ Ideal(0).urls[c] = NoRow /\ First(Ideal(0), c) = NoRow
      /\ Count(Ideal(0), c) = 0
  BY EmptyParts DEF IdealInv, First, Count
<1>5. Count(db, c) \in Nat
  BY DatabaseParts
<1> QED BY <1>2, <1>3, <1>4, <1>5 DEF Repeats, Survives

\* Only rows count: a restored file repeats what its snapshot repeats.
LEMMA RestoredRepeats ==
  ASSUME NEW data \in Database, NEW db, NEW i, RepeatsAll(data, i)
  PROVE  RepeatsAll(Restored(data, db), i)
BY RestoredEffect DEF RepeatsAll, Repeats, First, Last, Count

LEMMA SameLog ==
  ASSUME UNCHANGED <<log, ideal>>
  PROVE  /\ IdealInv' = IdealInv
         /\ SurvivalInv' = SurvivalInv
         /\ \A db, i : RepeatsAll(db, i)' = RepeatsAll(db, i)
BY DEF IdealInv, SurvivalInv, Survives, RepeatsAll, Repeats, NoDelete, NoFollow, Ideal, Apply

----------------------------------------------------------------------------
(***************************************************************************)
(* The invariant                                                           *)
(***************************************************************************)
LEMMA ConvergeInit ==
  ASSUME Init
  PROVE  ConvergeInv
<1>1. Len(log) = 0 /\ Len(ideal) = 1 /\ ideal[1] = EmptyDatabase
  BY DEF Init
<1>2. TypeOK
  BY <1>1, EmptyParts, MaxRestartsAssumption DEF Init, TypeOK, Snapshot
<1>3. IdealInv
  BY <1>1 DEF IdealInv, Ideal
<1>4. SurvivalInv
  BY <1>1 DEF SurvivalInv, Survives
<1>5. RepeatsAll(EmptyDatabase, 0)
  BY <1>1, EmptyParts DEF RepeatsAll, Repeats, Ideal, First, Last, Count
<1>6. DatabaseInv /\ SnapshotInv /\ DeletingInv
  BY <1>5 DEF Init, DatabaseInv, SnapshotInv, DeletingInv
<1> QED BY <1>2, <1>3, <1>4, <1>6 DEF ConvergeInv

LEMMA IdealStep ==
  ASSUME TypeOK, IdealInv, NEW cmd \in Command, Commit(cmd)
  PROVE  IdealInv'
<1>1. /\ Len(log) \in Nat /\ Len(log') = Len(log) + 1
      /\ \A k \in 1..Len(log) : log'[k] = log[k]
      /\ log'[Len(log) + 1] = cmd
      /\ \A j \in 0..Len(log) : ideal'[j + 1] = ideal[j + 1]
      /\ ideal'[Len(log) + 2] = Apply(ideal[Len(log) + 1], cmd)
  BY CommitEffect DEF TypeOK
<1>2. ideal'[1] = EmptyDatabase
  BY <1>1 DEF IdealInv, Ideal
<1>3. ASSUME NEW i \in 1..Len(log')
      PROVE  ideal'[i + 1] = Apply(ideal'[(i - 1) + 1], log'[i])
  <2>1. CASE i = Len(log) + 1
    <3>1. /\ ideal'[i + 1] = ideal'[Len(log) + 2]
          /\ ideal'[(i - 1) + 1] = ideal[Len(log) + 1]
      BY <1>1, <2>1
    <3> QED BY <1>1, <2>1, <3>1
  <2>2. CASE i # Len(log) + 1
    <3>1. i \in 1..Len(log) /\ i \in 0..Len(log) /\ i - 1 \in 0..Len(log)
      BY <1>1, <2>2
    <3>2. ideal'[i + 1] = ideal[i + 1] /\ ideal'[(i - 1) + 1] = ideal[(i - 1) + 1]
      BY <1>1, <3>1
    <3>3. ideal[i + 1] = Apply(ideal[(i - 1) + 1], log[i])
      BY <3>1 DEF IdealInv, Ideal
    <3> QED BY <1>1, <3>1, <3>2, <3>3
  <2> QED BY <2>1, <2>2
<1> QED BY <1>2, <1>3 DEF IdealInv, Ideal

\* What a commit leaves: every file and snapshot repeats the longer log.
LEMMA CommitStep ==
  ASSUME ConvergeInv, NEW cmd \in Command, Commit(cmd)
  PROVE  ConvergeInv'
<1> USE DEF ConvergeInv
<1>1. TypeOK' /\ IdealInv' /\ SurvivalInv'
  BY TypeStep, IdealStep, SurvivalStep DEF Next
<1>2. UNCHANGED <<applied, database, deleting, snapshot>>
  BY CommitEffect
<1>3. DatabaseInv'
  <2> SUFFICES ASSUME NEW n \in Replicas PROVE RepeatsAll(database[n], applied[n])'
    BY DEF DatabaseInv
  <2>1. database[n] \in Database /\ RepeatsAll(database[n], applied[n])
    BY DEF TypeOK, DatabaseInv
  <2> QED BY <1>2, <2>1, RepeatsGrows
<1>4. SnapshotInv'
  <2> SUFFICES ASSUME NEW n \in Replicas
               PROVE  RepeatsAll(snapshot[n].data, snapshot[n].index)'
    BY DEF SnapshotInv
  <2>1. /\ snapshot[n].data \in Database
        /\ RepeatsAll(snapshot[n].data, snapshot[n].index)
    BY DEF TypeOK, SnapshotInv, Snapshot
  <2> QED BY <1>2, <2>1, RepeatsGrows
<1>5. DeletingInv'
  BY <1>2, CommitEffect, EntryType DEF DeletingInv, NextEntry, TypeOK
<1> QED BY <1>1, <1>3, <1>4, <1>5

\* A step of replica n that leaves the log alone is good if what it leaves of
\* n's file, of n's snapshot and of n's half-done delete is.
LEMMA ReplicaFrame ==
  ASSUME ConvergeInv, [Next]_vars, NEW n \in Replicas, UNCHANGED <<log, ideal>>,
         \A m \in Replicas : m # n =>
             /\ applied'[m] = applied[m] /\ database'[m] = database[m]
             /\ deleting'[m] = deleting[m] /\ snapshot'[m] = snapshot[m],
         RepeatsAll(database'[n], applied'[n]),
         RepeatsAll(snapshot'[n].data, snapshot'[n].index),
         deleting'[n] => /\ applied'[n] < Len(log)
                         /\ log[applied'[n] + 1].type = "CmdDeleteURL"
                         /\ database'[n].stats[log[applied'[n] + 1].code] = NoRow
  PROVE  ConvergeInv'
<1> USE DEF ConvergeInv
<1>1. TypeOK' /\ IdealInv' /\ SurvivalInv'
  BY TypeStep, SameLog
<1>2. DatabaseInv'
  <2> SUFFICES ASSUME NEW m \in Replicas PROVE RepeatsAll(database[m], applied[m])'
    BY DEF DatabaseInv
  <2>1. RepeatsAll(database'[m], applied'[m])
    BY DEF DatabaseInv
  <2> QED BY <2>1, SameLog
<1>3. SnapshotInv'
  <2> SUFFICES ASSUME NEW m \in Replicas
               PROVE  RepeatsAll(snapshot[m].data, snapshot[m].index)'
    BY DEF SnapshotInv
  <2>1. RepeatsAll(snapshot'[m].data, snapshot'[m].index)
    BY DEF SnapshotInv
  <2> QED BY <2>1, SameLog
<1>4. DeletingInv'
  BY DEF DeletingInv, NextEntry
<1> QED BY <1>1, <1>2, <1>3, <1>4

\* The files and snapshots of a state that satisfies the invariant.
LEMMA ReplicaFacts ==
  ASSUME ConvergeInv, NEW n \in Replicas
  PROVE  /\ applied[n] \in Nat /\ database[n] \in Database
         /\ RepeatsAll(database[n], applied[n])
         /\ snapshot[n].index \in Nat /\ snapshot[n].data \in Database
         /\ RepeatsAll(snapshot[n].data, snapshot[n].index)
         /\ database \in [Replicas -> Database] /\ applied \in [Replicas -> Nat]
         /\ deleting \in [Replicas -> BOOLEAN] /\ snapshot \in [Replicas -> Snapshot]
BY DEF ConvergeInv, TypeOK, DatabaseInv, SnapshotInv, Snapshot

LEMMA ConvergeStep ==
  ASSUME ConvergeInv, [Next]_vars
  PROVE  ConvergeInv'
<1>1. ASSUME NEW cmd \in Command, Commit(cmd) PROVE ConvergeInv'
  BY <1>1, CommitStep
<1>2. ASSUME NEW n \in Replicas, ApplyShortenURL(n) \/ ApplyRecordFollow(n)
      PROVE  ConvergeInv'
  <2>1. /\ applied[n] < Len(log) /\ NextEntry(n) \in Command
        /\ NextEntry(n).type # "CmdDeleteURL"
    BY <1>2, EntryType DEF ApplyShortenURL, ApplyRecordFollow, Applying, ConvergeInv
  <2>2. /\ UNCHANGED <<log, ideal, deleting, snapshot>> /\ ~deleting[n]
        /\ applied' = [applied EXCEPT ![n] = applied[n] + 1]
        /\ database' = [database EXCEPT ![n] = Apply(database[n], NextEntry(n))]
    BY <1>2, <2>1, ApplyEffect, ReplicaFacts
       DEF ApplyShortenURL, ApplyRecordFollow, Applying
  <2>3. RepeatsAll(Apply(database[n], NextEntry(n)), applied[n] + 1)
    BY <2>1, ReplicaFacts, Advance DEF ConvergeInv, NextEntry
  <2>4. /\ applied'[n] = applied[n] + 1
        /\ database'[n] = Apply(database[n], NextEntry(n))
        /\ \A m \in Replicas : m # n =>
              applied'[m] = applied[m] /\ database'[m] = database[m]
    BY <2>2, ReplicaFacts
  <2> QED BY <2>2, <2>3, <2>4, ReplicaFacts, ReplicaFrame
<1>3. ASSUME NEW n \in Replicas, ApplyDeleteStats(n) PROVE ConvergeInv'
  <2> DEFINE key == NextEntry(n).code
  <2>1. /\ applied[n] < Len(log) /\ key \in Codes
        /\ NextEntry(n).type = "CmdDeleteURL"
    BY <1>3, EntryType, CommandCases DEF ApplyDeleteStats, Applying, ConvergeInv
  <2>2. /\ UNCHANGED <<log, ideal, applied, snapshot>>
        /\ database'[n] = DeleteURLStats(database[n], key)
        /\ \A m \in Replicas : m # n =>
              database'[m] = database[m] /\ deleting'[m] = deleting[m]
    BY <1>3, ReplicaFacts DEF ApplyDeleteStats
  <2>3. RepeatsAll(DeleteURLStats(database[n], key), applied[n])
    BY <2>1, ReplicaFacts, DropStats DEF ConvergeInv, NextEntry
  <2>4. DeleteURLStats(database[n], key).stats[key] = NoRow
    BY <2>1, ReplicaFacts, DeleteStatsEffect
  <2> QED BY <2>1, <2>2, <2>3, <2>4, ReplicaFacts, ReplicaFrame DEF NextEntry
<1>4. ASSUME NEW n \in Replicas, ApplyDeleteURL(n) PROVE ConvergeInv'
  <2> DEFINE key == NextEntry(n).code
  <2>1. /\ applied[n] < Len(log) /\ NextEntry(n).type = "CmdDeleteURL"
        /\ database[n].stats[key] = NoRow
    BY <1>4 DEF ApplyDeleteURL, ConvergeInv, DeletingInv
  <2>2. /\ UNCHANGED <<log, ideal, snapshot>> /\ ~deleting'[n]
        /\ applied'[n] = applied[n] + 1
        /\ database'[n] = DeleteURL(database[n], key)
        /\ \A m \in Replicas : m # n =>
              /\ applied'[m] = applied[m] /\ database'[m] = database[m]
              /\ deleting'[m] = deleting[m]
    BY <1>4, ReplicaFacts DEF ApplyDeleteURL
  <2>3. RepeatsAll(DeleteURL(database[n], key), applied[n] + 1)
    BY <2>1, ReplicaFacts, DropURL DEF ConvergeInv, NextEntry
  <2> QED BY <2>2, <2>3, ReplicaFacts, ReplicaFrame
<1>5. ASSUME NEW n \in Replicas, TakeSnapshot(n) PROVE ConvergeInv'
  <2>1. /\ UNCHANGED <<log, ideal, applied, database, deleting>> /\ ~deleting[n]
        /\ snapshot'[n] = [index |-> applied[n], data |-> database[n]]
        /\ \A m \in Replicas : m # n => snapshot'[m] = snapshot[m]
    BY <1>5, ReplicaFacts DEF TakeSnapshot
  <2> QED BY <2>1, ReplicaFacts, ReplicaFrame
<1>6. ASSUME NEW n \in Replicas, NEW m \in Replicas, InstallSnapshot(n, m)
      PROVE  ConvergeInv'
  <2>1. /\ UNCHANGED <<log, ideal, deleting>> /\ ~deleting[n]
        /\ snapshot'[n] = snapshot[m] /\ applied'[n] = snapshot[m].index
        /\ database'[n] = Restored(snapshot[m].data, database[n])
        /\ \A k \in Replicas : k # n =>
              /\ applied'[k] = applied[k] /\ database'[k] = database[k]
              /\ snapshot'[k] = snapshot[k]
    BY <1>6, ReplicaFacts DEF InstallSnapshot
  <2>2. RepeatsAll(Restored(snapshot[m].data, database[n]), snapshot[m].index)
    BY ReplicaFacts, RestoredRepeats
  <2> QED BY <2>1, <2>2, ReplicaFacts, ReplicaFrame
<1>7. ASSUME NEW n \in Replicas, Restart(n) PROVE ConvergeInv'
  <2>1. /\ UNCHANGED <<log, ideal, snapshot>> /\ ~deleting'[n]
        /\ applied'[n] = snapshot[n].index
        /\ database'[n] = IF snapshot[n].index = 0 THEN database[n]
                          ELSE Restored(snapshot[n].data, database[n])
        /\ \A m \in Replicas : m # n =>
              /\ applied'[m] = applied[m] /\ database'[m] = database[m]
              /\ deleting'[m] = deleting[m]
    BY <1>7, ReplicaFacts DEF Restart
  <2>2. RepeatsAll(Restored(snapshot[n].data, database[n]), snapshot[n].index)
    BY ReplicaFacts, RestoredRepeats
  <2>3. RepeatsAll(database[n], 0)
    BY ReplicaFacts, FromStart DEF ConvergeInv
  <2>4. RepeatsAll(database'[n], applied'[n])
    BY <2>1, <2>2, <2>3
  <2> QED BY <2>1, <2>4, ReplicaFacts, ReplicaFrame
<1>8. CASE UNCHANGED vars
  <2>1. UNCHANGED <<log, ideal, applied, database, deleting, snapshot>>
    BY <1>8 DEF vars
  <2>2. TypeOK' /\ IdealInv' /\ SurvivalInv'
    BY <2>1, TypeStep, SameLog DEF ConvergeInv
  <2>3. DatabaseInv' /\ SnapshotInv'
    BY <2>1, SameLog DEF DatabaseInv, SnapshotInv, ConvergeInv
  <2>4. DeletingInv'
    BY <2>1 DEF DeletingInv, NextEntry, ConvergeInv
  <2> QED BY <2>2, <2>3, <2>4 DEF ConvergeInv
<1> QED
  BY <1>1, <1>2, <1>3, <1>4, <1>5, <1>6, <1>7, <1>8 DEF Next, ReplicaStep

----------------------------------------------------------------------------
(***************************************************************************)
(* Rows of lagging and repeating replicas                                  *)
(***************************************************************************)

\* Only the table urls counts.
LEMMA KnownByUrls ==
  ASSUME NEW db, NEW other, NEW i, Known(db, i), other.urls = db.urls
  PROVE  Known(other, i)
BY DEF Known

LEMMA KnownSameLog ==
  ASSUME UNCHANGED <<log, ideal>>
  PROVE  \A db, i : Known(db, i)' = Known(db, i)
BY DEF Known, Ideal

\* A file that knows the log up to an entry still does when the log grows.
LEMMA KnownGrows ==
  ASSUME TypeOK, NEW cmd \in Command, Commit(cmd),
         NEW db, NEW i \in 0..Len(log), Known(db, i)
  PROVE  Known(db, i)'
<1>1. /\ Len(log) \in Nat /\ Len(log') = Len(log) + 1
      /\ \A j \in 0..Len(log) : ideal'[j + 1] = ideal[j + 1]
  BY CommitEffect DEF TypeOK
<1>2. \A j \in 0..Len(log) : j \in 0..Len(log')
  BY <1>1
<1> QED BY <1>1, <1>2 DEF Known, Ideal

\* One more entry: what a file inserts the log inserts too, because a code that
\* has no row in the file has none in the log either.
LEMMA KnownAdvance ==
  ASSUME TypeOK, IdealInv, NEW db \in Database, NEW i \in Nat, i < Len(log), Known(db, i)
  PROVE  Known(Apply(db, log[i + 1]), i + 1)
<1> DEFINE cmd == log[i + 1]
           new == Apply(db, cmd)
<1>1. /\ i \in 0..Len(log) /\ i + 1 \in 1..Len(log) /\ i + 1 \in 0..Len(log)
      /\ cmd \in Command
  BY DEF TypeOK
<1>2. Ideal(i + 1) = Apply(Ideal(i), cmd)
  <2>1. Ideal(i + 1) = Apply(Ideal((i + 1) - 1), log[i + 1])
    BY <1>1 DEF IdealInv
  <2>2. (i + 1) - 1 = i
    OBVIOUS
  <2> QED BY <2>1, <2>2
<1>3. Ideal(i) \in Database
  BY <1>1, IdealType
<1> SUFFICES ASSUME NEW c \in Codes
             PROVE  /\ Ideal(i + 1).urls[c] # NoRow => new.urls[c] # NoRow
                    /\ new.urls[c] # NoRow =>
                         \E k \in 0..Len(log) : Ideal(k).urls[c] = new.urls[c]
  BY DEF Known
<1>4. /\ Ideal(i).urls[c] # NoRow => db.urls[c] # NoRow
      /\ db.urls[c] # NoRow => \E k \in 0..Len(log) : Ideal(k).urls[c] = db.urls[c]
  BY DEF Known
<1>5. CASE cmd.type = "CmdShortenURL"
  <2>1. /\ cmd.code \in Codes /\ cmd.url \in LongURLs
        /\ new = InsertURL(db, cmd.code, cmd.url)
        /\ Ideal(i + 1) = InsertURL(Ideal(i), cmd.code, cmd.url)
    BY <1>1, <1>2, <1>3, <1>5, CommandCases, ApplyEffect
  <2>2. /\ new.urls[c] = IF c = cmd.code /\ db.urls[c] = NoRow THEN cmd.url ELSE db.urls[c]
        /\ Ideal(i + 1).urls[c] =
             IF c = cmd.code /\ Ideal(i).urls[c] = NoRow THEN cmd.url ELSE Ideal(i).urls[c]
    BY <1>3, <2>1, InsertEffect
  <2>3. cmd.url # NoRow
    BY <2>1, NoRowAssumption
  <2> QED BY <1>1, <1>4, <2>2, <2>3
<1>6. CASE cmd.type = "CmdRecordFollow"
  <2>1. new.urls = db.urls /\ Ideal(i + 1).urls = Ideal(i).urls
    BY <1>1, <1>2, <1>3, <1>6, CommandCases, ApplyEffect, UpsertEffect
  <2> QED BY <1>4, <2>1
<1>7. CASE cmd.type = "CmdDeleteURL"
  <2>1. ASSUME NEW old \in Database
        PROVE  Apply(old, cmd).urls[c] = IF c = cmd.code THEN NoRow ELSE old.urls[c]
    <3>1. /\ cmd.code \in Codes
          /\ Apply(old, cmd) = DeleteURL(DeleteURLStats(old, cmd.code), cmd.code)
      BY <1>1, <1>7, CommandCases, ApplyEffect
    <3>2. /\ DeleteURLStats(old, cmd.code) \in Database
          /\ DeleteURLStats(old, cmd.code).urls = old.urls
      BY <3>1, DeleteStatsEffect
    <3> QED BY <3>1, <3>2, DeleteEffect
  <2>2. /\ new.urls[c] = IF c = cmd.code THEN NoRow ELSE db.urls[c]
        /\ Ideal(i + 1).urls[c] = IF c = cmd.code THEN NoRow ELSE Ideal(i).urls[c]
    BY <1>2, <1>3, <2>1
  <2> QED BY <1>4, <2>2
<1> QED BY <1>1, <1>5, <1>6, <1>7, CommandCases

LEMMA RowsInit ==
  ASSUME Init
  PROVE  RowsInv
<1>1. Len(log) = 0 /\ ideal[1] = EmptyDatabase
  BY DEF Init
<1>2. Ideal(0) = EmptyDatabase
  BY <1>1 DEF Ideal
<1>3. Known(EmptyDatabase, 0)
  BY <1>2, EmptyParts DEF Known
<1> QED BY <1>3 DEF Init, RowsInv

\* A step of replica n that leaves the log alone is good if what it leaves of
\* n's file and of n's snapshot is.
LEMMA RowsFrame ==
  ASSUME RowsInv, NEW n \in Replicas, UNCHANGED <<log, ideal>>,
         \A m \in Replicas : m # n =>
             /\ applied'[m] = applied[m] /\ database'[m] = database[m]
             /\ snapshot'[m] = snapshot[m],
         Known(database'[n], applied'[n]),
         Known(snapshot'[n].data, snapshot'[n].index)
  PROVE  RowsInv'
<1> SUFFICES ASSUME NEW m \in Replicas
             PROVE  /\ Known(database[m], applied[m])'
                    /\ Known(snapshot[m].data, snapshot[m].index)'
  BY DEF RowsInv
<1>1. Known(database'[m], applied'[m]) /\ Known(snapshot'[m].data, snapshot'[m].index)
  BY DEF RowsInv
<1> QED BY <1>1, KnownSameLog

LEMMA RowsStep ==
  ASSUME ConvergeInv, RowsInv, [Next]_vars
  PROVE  RowsInv'
<1>1. ASSUME NEW cmd \in Command, Commit(cmd) PROVE RowsInv'
  <2>1. UNCHANGED <<applied, database, snapshot>>
    BY <1>1, CommitEffect DEF ConvergeInv
  <2> SUFFICES ASSUME NEW n \in Replicas
               PROVE  /\ Known(database[n], applied[n])'
                      /\ Known(snapshot[n].data, snapshot[n].index)'
    BY DEF RowsInv
  <2>2. applied[n] \in 0..Len(log) /\ snapshot[n].index \in 0..Len(log)
    BY ReplicaFacts DEF RepeatsAll
  <2>3. Known(database[n], applied[n]) /\ Known(snapshot[n].data, snapshot[n].index)
    BY DEF RowsInv
  <2> QED BY <1>1, <2>1, <2>2, <2>3, KnownGrows DEF ConvergeInv
<1>2. ASSUME NEW n \in Replicas, ApplyShortenURL(n) \/ ApplyRecordFollow(n)
      PROVE  RowsInv'
  <2>1. /\ applied[n] < Len(log) /\ NextEntry(n) \in Command
    BY <1>2, EntryType DEF ApplyShortenURL, ApplyRecordFollow, Applying, ConvergeInv
  <2>2. /\ UNCHANGED <<log, ideal, snapshot>>
        /\ applied' = [applied EXCEPT ![n] = applied[n] + 1]
        /\ database' = [database EXCEPT ![n] = Apply(database[n], NextEntry(n))]
    BY <1>2, <2>1, ApplyEffect, ReplicaFacts
       DEF ApplyShortenURL, ApplyRecordFollow, Applying
  <2>3. Known(Apply(database[n], NextEntry(n)), applied[n] + 1)
    BY <2>1, ReplicaFacts, KnownAdvance DEF ConvergeInv, NextEntry, RowsInv
  <2>4. /\ applied'[n] = applied[n] + 1
        /\ database'[n] = Apply(database[n], NextEntry(n))
        /\ \A m \in Replicas : m # n =>
              applied'[m] = applied[m] /\ database'[m] = database[m]
    BY <2>2, ReplicaFacts
  <2>5. Known(snapshot'[n].data, snapshot'[n].index)
    BY <2>2 DEF RowsInv
  <2> QED BY <2>2, <2>3, <2>4, <2>5, RowsFrame
<1>3. ASSUME NEW n \in Replicas, ApplyDeleteStats(n) PROVE RowsInv'
  <2>1. NextEntry(n).code \in Codes
    BY <1>3, EntryType, CommandCases DEF ApplyDeleteStats, Applying, ConvergeInv
  <2>2. /\ UNCHANGED <<log, ideal, applied, snapshot>>
        /\ database'[n] = DeleteURLStats(database[n], NextEntry(n).code)
        /\ \A m \in Replicas : m # n => database'[m] = database[m]
    BY <1>3, ReplicaFacts DEF ApplyDeleteStats
  <2>3. database'[n].urls = database[n].urls
    BY <2>1, <2>2, ReplicaFacts, DeleteStatsEffect
  <2>4. Known(database'[n], applied'[n]) /\ Known(snapshot'[n].data, snapshot'[n].index)
    BY <2>2, <2>3, KnownByUrls DEF RowsInv
  <2> QED BY <2>2, <2>4, RowsFrame
<1>4. ASSUME NEW n \in Replicas, ApplyDeleteURL(n) PROVE RowsInv'
  <2> DEFINE key == NextEntry(n).code
             db == database[n]
  <2>1. /\ applied[n] < Len(log) /\ NextEntry(n).type = "CmdDeleteURL"
        /\ NextEntry(n) \in Command /\ key \in Codes
    BY <1>4, EntryType, CommandCases DEF ApplyDeleteURL, ConvergeInv, DeletingInv
  <2>2. /\ UNCHANGED <<log, ideal, snapshot>>
        /\ applied'[n] = applied[n] + 1
        /\ database'[n] = DeleteURL(db, key)
        /\ \A m \in Replicas : m # n =>
              applied'[m] = applied[m] /\ database'[m] = database[m]
    BY <1>4, ReplicaFacts DEF ApplyDeleteURL
  <2>3. Known(Apply(db, NextEntry(n)), applied[n] + 1)
    BY <2>1, ReplicaFacts, KnownAdvance DEF ConvergeInv, NextEntry, RowsInv
  <2>4. DeleteURL(db, key).urls = Apply(db, NextEntry(n)).urls
    <3>1. /\ Apply(db, NextEntry(n)) = DeleteURL(DeleteURLStats(db, key), key)
          /\ DeleteURLStats(db, key).urls = db.urls
      BY <2>1, ReplicaFacts, ApplyEffect, DeleteStatsEffect
    <3> QED BY <3>1 DEF DeleteURL, DeleteURLStats
  <2>5. Known(database'[n], applied'[n]) /\ Known(snapshot'[n].data, snapshot'[n].index)
    BY <2>2, <2>3, <2>4, KnownByUrls DEF RowsInv
  <2> QED BY <2>2, <2>5, RowsFrame
<1>5. ASSUME NEW n \in Replicas, TakeSnapshot(n) PROVE RowsInv'
  <2>1. /\ UNCHANGED <<log, ideal, applied, database>>
        /\ snapshot'[n] = [index |-> applied[n], data |-> database[n]]
        /\ \A m \in Replicas : m # n => snapshot'[m] = snapshot[m]
    BY <1>5, ReplicaFacts DEF TakeSnapshot
  <2>2. Known(database'[n], applied'[n]) /\ Known(snapshot'[n].data, snapshot'[n].index)
    BY <2>1 DEF RowsInv
  <2> QED BY <2>1, <2>2, RowsFrame
<1>6. ASSUME NEW n \in Replicas, NEW m \in Replicas, InstallSnapshot(n, m)
      PROVE  RowsInv'
  <2>1. /\ UNCHANGED <<log, ideal>>
        /\ snapshot'[n] = snapshot[m] /\ applied'[n] = snapshot[m].index
        /\ database'[n] = Restored(snapshot[m].data, database[n])
        /\ \A k \in Replicas : k # n =>
              /\ applied'[k] = applied[k] /\ database'[k] = database[k]
              /\ snapshot'[k] = snapshot[k]
    BY <1>6, ReplicaFacts DEF InstallSnapshot
  <2>2. Known(snapshot'[n].data, snapshot'[n].index)
    BY <2>1 DEF RowsInv
  <2>3. database'[n].urls = snapshot[m].data.urls
    BY <2>1, ReplicaFacts, RestoredEffect
  <2>4. Known(database'[n], applied'[n])
    BY <2>1, <2>2, <2>3, KnownByUrls
  <2> QED BY <2>1, <2>2, <2>4, RowsFrame
<1>7. ASSUME NEW n \in Replicas, Restart(n) PROVE RowsInv'
  <2>1. /\ UNCHANGED <<log, ideal, snapshot>>
        /\ applied'[n] = snapshot[n].index
        /\ database'[n] = IF snapshot[n].index = 0 THEN database[n]
                          ELSE Restored(snapshot[n].data, database[n])
        /\ \A m \in Replicas : m # n =>
              applied'[m] = applied[m] /\ database'[m] = database[m]
    BY <1>7, ReplicaFacts DEF Restart
  <2>2. Known(snapshot[n].data, snapshot[n].index) /\ Known(database[n], applied[n])
    BY DEF RowsInv
  <2>3. CASE snapshot[n].index = 0
    <3>1. \A c \in Codes : Ideal(0).urls[c] = NoRow
      BY EmptyParts DEF ConvergeInv, IdealInv
    <3>2. Known(database[n], 0)
      BY <2>2, <3>1 DEF Known
    <3> QED BY <2>1, <2>2, <2>3, <3>2, RowsFrame
  <2>4. CASE snapshot[n].index # 0
    <3>1. database'[n].urls = snapshot[n].data.urls
      BY <2>1, <2>4, ReplicaFacts, RestoredEffect
    <3>2. Known(database'[n], applied'[n])
      BY <2>1, <2>2, <3>1, KnownByUrls
    <3> QED BY <2>1, <2>2, <3>2, RowsFrame
  <2> QED BY <2>3, <2>4
<1>8. CASE UNCHANGED vars
  BY <1>8, KnownSameLog DEF vars, RowsInv
<1> QED
  BY <1>1, <1>2, <1>3, <1>4, <1>5, <1>6, <1>7, <1>8 DEF Next, ReplicaStep

----------------------------------------------------------------------------
(***************************************************************************)
(* Theorems                                                                *)
(***************************************************************************)

\* The strengthening is an invariant: a file always repeats its log.
THEOREM ConvergeInvariant == Spec => []ConvergeInv
<1>1. Init => ConvergeInv
  BY ConvergeInit
<1>2. ConvergeInv /\ [Next]_vars => ConvergeInv'
  BY ConvergeStep
<1> QED BY <1>1, <1>2, PTL DEF Spec

\* Every variable keeps its type.
THEOREM TypeCorrect == Spec => []TypeOK
<1>1. ConvergeInv => TypeOK
  BY DEF ConvergeInv
<1> QED BY <1>1, ConvergeInvariant, PTL

\* At the end of the log there is nothing more to repeat: both values that a
\* row may have are the one of the store that applied every entry once.
LEMMA AtTheEnd ==
  ASSUME ConvergeInv, NEW n \in Replicas, CaughtUp(n), NEW c \in Codes
  PROVE  /\ database[n].urls[c] = Ideal(Len(log)).urls[c]
         /\ First(database[n], c) = First(Ideal(Len(log)), c)
         /\ Last(database[n], c) = Last(Ideal(Len(log)), c)
         /\ Count(database[n], c) >= Count(Ideal(Len(log)), c)
         /\ database[n] \in Database /\ Ideal(Len(log)) \in Database
<1>1. /\ applied[n] = Len(log) /\ Len(log) \in 0..Len(log)
      /\ database[n] \in Database /\ TypeOK
  BY DEF CaughtUp, ConvergeInv, TypeOK
<1>2. NoDelete(applied[n], c) /\ NoFollow(applied[n], c)
  BY <1>1 DEF NoDelete, NoFollow, TypeOK
<1>3. Repeats(database[n], applied[n], c)
  BY <1>2 DEF ConvergeInv, DatabaseInv, RepeatsAll
<1> QED BY <1>1, <1>2, <1>3, IdealType DEF Repeats

\* A replica that applied the whole log redirects every code to the right URL,
\* whatever crashes, repeated commands and snapshots it went through.
THEOREM MappingTheorem == Spec => []MappingConverges
<1>1. ASSUME ConvergeInv PROVE MappingConverges
  <2> SUFFICES ASSUME NEW n \in Replicas, CaughtUp(n)
               PROVE  database[n].urls = Ideal(Len(log)).urls
    BY DEF MappingConverges
  <2>1. database[n] \in Database /\ Ideal(Len(log)) \in Database
    BY <1>1, ReplicaFacts, IdealType DEF ConvergeInv, TypeOK
  <2>2. \A c \in Codes : database[n].urls[c] = Ideal(Len(log)).urls[c]
    BY <1>1, AtTheEnd
  <2> QED BY <2>1, <2>2 DEF Database
<1> QED BY <1>1, ConvergeInvariant, PTL

\* The first and the last follow of every code are right, too.
THEOREM FollowTimesTheorem == Spec => []FollowTimesConverge
<1>1. ASSUME ConvergeInv PROVE FollowTimesConverge
  <2> SUFFICES ASSUME NEW n \in Replicas, CaughtUp(n), NEW c \in Codes
               PROVE  LET mine == database[n].stats[c]
                          once == Ideal(Len(log)).stats[c]
                      IN  IF once = NoRow THEN mine = NoRow
                          ELSE /\ mine # NoRow
                               /\ mine.first = once.first /\ mine.last = once.last
    BY DEF FollowTimesConverge
  <2>1. /\ First(database[n], c) = First(Ideal(Len(log)), c)
        /\ Last(database[n], c) = Last(Ideal(Len(log)), c)
        /\ database[n] \in Database /\ Ideal(Len(log)) \in Database
    BY <1>1, AtTheEnd
  <2>2. /\ database[n].stats[c] # NoRow => database[n].stats[c].first \in Times
        /\ Ideal(Len(log)).stats[c] # NoRow => Ideal(Len(log)).stats[c].first \in Times
    BY <2>1, DatabaseParts DEF StatsRow
  <2> QED BY <2>1, <2>2, NoRowAssumption DEF First, Last
<1> QED BY <1>1, ConvergeInvariant, PTL

\* No committed follow goes uncounted.
THEOREM FollowsCountedTheorem == Spec => []FollowsCountedAtLeastOnce
<1>1. ASSUME ConvergeInv PROVE FollowsCountedAtLeastOnce
  <2> SUFFICES ASSUME NEW n \in Replicas, CaughtUp(n), NEW c \in Codes,
                      Ideal(Len(log)).stats[c] # NoRow
               PROVE  /\ database[n].stats[c] # NoRow
                      /\ database[n].stats[c].count >= Ideal(Len(log)).stats[c].count
    BY DEF FollowsCountedAtLeastOnce
  <2>1. /\ Count(database[n], c) >= Count(Ideal(Len(log)), c)
        /\ Ideal(Len(log)).stats[c].count \in Nat \ {0}
    BY <1>1, AtTheEnd, DatabaseParts DEF StatsRow
  <2> QED BY <2>1 DEF Count
<1> QED BY <1>1, ConvergeInvariant, PTL

\* Whatever state a replica is in, it redirects a code only to a URL the code
\* really had, never to one whose insert was refused.
THEOREM ResolvesCommittedTheorem == Spec => []ResolvesCommitted
<1>1. Init => ConvergeInv /\ RowsInv
  BY ConvergeInit, RowsInit
<1>2. ConvergeInv /\ RowsInv /\ [Next]_vars => (ConvergeInv /\ RowsInv)'
  BY ConvergeStep, RowsStep
<1>3. RowsInv => ResolvesCommitted
  BY DEF RowsInv, Known, ResolvesCommitted
<1> QED BY <1>1, <1>2, <1>3, PTL DEF Spec

----------------------------------------------------------------------------
(***************************************************************************)
(* The store below the requests                                            *)
(***************************************************************************)

LEMMA ProposalCommand ==
  ASSUME NEW p \in Proposal
  PROVE  /\ p.code \in Codes /\ p.url \in LongURLs /\ p.try \in 1..MaxTries
         /\ [type |-> "CmdShortenURL", code |-> p.code, url |-> p.url] \in Command
BY DEF Proposal, Command

\* The command that an insert is committed as.
Insert(p) == [type |-> "CmdShortenURL", code |-> p.code, url |-> p.url]

\* A step does to the store what UrlReplicas allows.
LEMMA StoreNext ==
  ASSUME RequestsTypeOK, [NextRequests]_allVars
  PROVE  [Next]_vars
<1> USE DEF vars, storeVars
<1>1. ASSUME NEW u \in LongURLs, RequestStep(u) PROVE UNCHANGED vars
  BY <1>1 DEF RequestStep, Send, Answer, GiveUp, CounterFails, Propose
<1>2. ASSUME NEW p \in inflight, CommitShorten(p) PROVE Next
  BY <1>2, ProposalCommand DEF RequestsTypeOK, CommitShorten, Next
<1>3. ASSUME NEW cmd \in Command, CommitOther(cmd) PROVE Next
  BY <1>3 DEF CommitOther, Next
<1>4. ASSUME NEW n \in Replicas, PodStep(n) PROVE [Next]_vars
  <2>1. CASE ApplyAndAnswer(n)
    BY <2>1 DEF ApplyAndAnswer, Next, ReplicaStep
  <2>2. CASE BecomeLeader(n) \/ StepDown(n)
    BY <2>2 DEF BecomeLeader, StepDown
  <2>3. CASE Crash(n)
    BY <2>3 DEF Crash, Next, ReplicaStep
  <2>4. CASE StoreStep(n)
    BY <2>4 DEF StoreStep, Next, ReplicaStep
  <2> QED BY <1>4, <2>1, <2>2, <2>3, <2>4 DEF PodStep
<1>5. CASE UNCHANGED allVars
  BY <1>5 DEF allVars
<1> QED BY <1>1, <1>2, <1>3, <1>4, <1>5 DEF NextRequests

\* A step of the store that commits nothing leaves the log alone.
LEMMA LogKept ==
  ASSUME [Next]_vars
  PROVE  \/ UNCHANGED <<log, ideal>>
         \/ \E cmd \in Command : Commit(cmd)
<1>1. ASSUME NEW n \in Replicas, ReplicaStep(n) PROVE UNCHANGED <<log, ideal>>
  BY <1>1 DEF ReplicaStep, ApplyShortenURL, ApplyRecordFollow, ApplyDeleteStats,
              ApplyDeleteURL, TakeSnapshot, Restart, InstallSnapshot
<1> QED BY <1>1 DEF Next, vars

LEMMA LastsInit ==
  ASSUME Init
  PROVE  LastsInv
BY DEF Init, LastsInv

\* A code that the log run once has at one entry it has at a later one.
LEMMA LastsStep ==
  ASSUME TypeOK, LastsInv, [Next]_vars
  PROVE  LastsInv'
<1>1. CASE UNCHANGED <<log, ideal>>
  <2>1. \A i, j, c : /\ NoDeleteBetween(c, i, j)' = NoDeleteBetween(c, i, j)
                     /\ Ideal(i)' = Ideal(i)
    BY <1>1 DEF NoDeleteBetween, Ideal
  <2> QED BY <1>1, <2>1 DEF LastsInv
<1>2. ASSUME NEW cmd \in Command, Commit(cmd) PROVE LastsInv'
  <2>1. /\ Len(log) \in Nat /\ Len(log') = Len(log) + 1
        /\ \A k \in 1..Len(log) : log'[k] = log[k]
        /\ log'[Len(log) + 1] = cmd
        /\ \A k \in 0..Len(log) : Ideal(k)' = Ideal(k)
        /\ ideal'[Len(log) + 1 + 1] = Apply(Ideal(Len(log)), cmd)
    BY <1>2, CommitEffect DEF TypeOK, Ideal
  <2> SUFFICES ASSUME NEW i \in 0..Len(log'), NEW j \in 0..Len(log'), NEW c \in Codes, i <= j,
                      Ideal(i)'.urls[c] # NoRow, NoDeleteBetween(c, i, j + 1)'
               PROVE  Ideal(j)'.urls[c] = Ideal(i)'.urls[c]
    BY DEF LastsInv
  <2>2. CASE i = j
    BY <2>2
  <2>3. CASE i # j
    <3>1. i \in 0..Len(log) /\ Len(log) \in 0..Len(log)
      BY <2>1, <2>3
    <3>2. \A k \in 1..Len(log) : i < k /\ k < j + 1 =>
            ~(log[k].type = "CmdDeleteURL" /\ log[k].code = c)
      <4>1. \A k \in 1..Len(log) : k \in 1..Len(log')
        BY <2>1
      <4> QED BY <2>1, <4>1 DEF NoDeleteBetween
    <3>3. CASE j <= Len(log)
      <4>1. j \in 0..Len(log)
        BY <3>3
      <4>2. NoDeleteBetween(c, i, j + 1)
        BY <3>2 DEF NoDeleteBetween
      <4> QED BY <2>1, <3>1, <4>1, <4>2 DEF LastsInv
    <3>4. CASE j = Len(log) + 1
      <4>1. NoDeleteBetween(c, i, Len(log) + 1)
        BY <2>1, <3>2, <3>4 DEF NoDeleteBetween
      <4>2. Ideal(Len(log)).urls[c] = Ideal(i).urls[c] /\ Ideal(i).urls[c] # NoRow
        BY <2>1, <3>1, <4>1 DEF LastsInv
      <4>3. ~(cmd.type = "CmdDeleteURL" /\ cmd.code = c)
        <5>1. Len(log) + 1 \in 1..Len(log') /\ i < Len(log) + 1 /\ Len(log) + 1 < j + 1
          BY <2>1, <3>1, <3>4
        <5> QED BY <2>1, <5>1 DEF NoDeleteBetween
      <4>4. Apply(Ideal(Len(log)), cmd).urls[c] = Ideal(Len(log)).urls[c]
        BY <3>1, <4>2, <4>3, IdealType, ApplyKeeps
      <4>5. Ideal(j)' = Apply(Ideal(Len(log)), cmd)
        BY <2>1, <3>4 DEF Ideal
      <4> QED BY <2>1, <3>1, <4>2, <4>4, <4>5
    <3> QED BY <2>1, <3>3, <3>4
  <2> QED BY <2>2, <2>3
<1> QED BY <1>1, <1>2, LogKept

----------------------------------------------------------------------------
(***************************************************************************)
(* The requests                                                            *)
(***************************************************************************)

LEMMA RequestsInit ==
  ASSUME InitRequests
  PROVE  HandlerInv
<1> USE DEF InitRequests
<1>1. RequestsTypeOK
  BY MaxTriesAssumption, MaxLogAssumption, NoneAssumption DEF RequestsTypeOK
<1>2. Len(log) <= MaxLog
  BY MaxLogAssumption DEF Init
<1>3. ProposalInv /\ AttemptInv
  BY DEF ProposalInv, AttemptInv, Attempted
<1>4. AnswerInv
  BY NoneAssumption DEF AnswerInv
<1> QED BY <1>1, <1>2, <1>3, <1>4 DEF HandlerInv

\* Every step keeps the types of the variables of the requests.
LEMMA RequestsTypeStep ==
  ASSUME TypeOK, HandlerInv, [NextRequests]_allVars
  PROVE  RequestsTypeOK' /\ (Len(log) <= MaxLog)'
<1> USE DEF HandlerInv, RequestsTypeOK
<1>1. (Len(log) <= MaxLog)'
  <2>1. ASSUME NEW cmd \in Command, Commit(cmd) PROVE Len(log') <= MaxLog
    BY <2>1, CommitEffect, MaxLogAssumption DEF Commit, TypeOK
  <2> QED BY <2>1, StoreNext, LogKept
<1>2. ASSUME NEW u \in LongURLs, Abandon(u) PROVE inflight' \subseteq Proposal
  BY <1>2, MaxTriesAssumption DEF Abandon, Proposes, Proposal, AttemptInv, Attempted
<1>3. ASSUME NEW us, Forget(us)
      PROVE  /\ phase' \in [LongURLs -> {"rejected", "counting", "waiting", "created",
                                          "failed", "reset"}]
             /\ on' \in [LongURLs -> Replicas \cup {None}]
             /\ code' \in [LongURLs -> Codes \cup {None}]
             /\ index' \in [LongURLs -> 0..MaxLog]
  BY <1>3, MaxLogAssumption DEF Forget
<1>4. ASSUME NEW u \in LongURLs, RequestStep(u) PROVE RequestsTypeOK'
  <2>1. ASSUME NEW n \in Replicas, Send(u, n) PROVE RequestsTypeOK'
    <3>1. inflight' \subseteq Proposal
      BY <1>2, <2>1 DEF Send
    <3> QED BY <2>1, <3>1, MaxTriesAssumption, MaxLogAssumption DEF Send, MayTry
  <2>2. CASE Answer(u)
    <3>1. /\ answer' \in [LongURLs -> Codes \cup {None, "error"}]
          /\ code' \in [LongURLs -> Codes \cup {None}]
          /\ index' \in [LongURLs -> 0..MaxLog]
      <4>1. CASE phase[u] = "created"
        BY <2>2, <4>1 DEF Answer
      <4>2. CASE phase[u] # "created"
        <5>1. code' = [code EXCEPT ![u] = None] /\ index' = [index EXCEPT ![u] = 0]
          BY <2>2, <4>2 DEF Answer
        <5>2. answer' = [answer EXCEPT ![u] = "error"]
          BY <2>2, <4>2 DEF Answer
        <5> QED BY <5>1, <5>2, MaxLogAssumption
      <4> QED BY <4>1, <4>2
    <3> QED BY <2>2, <3>1 DEF Answer
  <2>3. CASE GiveUp(u)
    <3>1. inflight' \subseteq Proposal
      BY <1>2, <2>3 DEF GiveUp
    <3> QED BY <1>3, <2>3, <3>1 DEF GiveUp
  <2>4. CASE CounterFails(u)
    BY <2>4 DEF CounterFails
  <2>5. ASSUME NEW c \in Codes, Propose(u, c) PROVE RequestsTypeOK'
    <3>1. Proposes(u, c) \in Proposal
      BY <2>5, MaxTriesAssumption DEF Propose, Proposes, Proposal, AttemptInv, Attempted
    <3>2. CASE on[u] \in leading
      <4>1. inflight' = inflight \cup {Proposes(u, c)} /\ code' = [code EXCEPT ![u] = c]
        BY <2>5, <3>2 DEF Propose
      <4>2. phase' = [phase EXCEPT ![u] = "waiting"]
        BY <2>5, <3>2 DEF Propose
      <4>3. UNCHANGED <<leading, answer, tries, on, index>>
        BY <2>5 DEF Propose
      <4>4. inflight' \subseteq Proposal /\ code' \in [LongURLs -> Codes \cup {None}]
        BY <3>1, <4>1
      <4> QED BY <4>2, <4>3, <4>4
    <3>3. CASE on[u] \notin leading
      BY <2>5, <3>3 DEF Propose
    <3> QED BY <3>2, <3>3
  <2> QED BY <1>4, <2>1, <2>2, <2>3, <2>4, <2>5 DEF RequestStep
<1>5. ASSUME NEW p \in inflight, CommitShorten(p) PROVE RequestsTypeOK'
  <2>1. Insert(p) \in Command /\ Commit(Insert(p))
    BY <1>5, ProposalCommand DEF CommitShorten, Insert
  <2>2. Len(log) + 1 \in 0..MaxLog
    BY <2>1, MaxLogAssumption DEF Commit, TypeOK
  <2> QED BY <1>5, <2>2 DEF CommitShorten
<1>6. ASSUME NEW cmd \in Command, CommitOther(cmd) PROVE RequestsTypeOK'
  BY <1>6 DEF CommitOther, requestVars, attemptVars
<1>7. ASSUME NEW n \in Replicas, PodStep(n) PROVE RequestsTypeOK'
  <2>1. CASE ApplyAndAnswer(n)
    BY <2>1 DEF ApplyAndAnswer, Outcome
  <2>2. CASE BecomeLeader(n)
    BY <2>2 DEF BecomeLeader, attemptVars
  <2>3. CASE StepDown(n)
    BY <2>3 DEF StepDown
  <2>4. CASE Crash(n)
    BY <1>3, <2>4 DEF Crash
  <2>5. CASE StoreStep(n)
    BY <2>5 DEF StoreStep, requestVars, attemptVars
  <2> QED BY <1>7, <2>1, <2>2, <2>3, <2>4, <2>5 DEF PodStep
<1>8. CASE UNCHANGED allVars
  <2>1. UNCHANGED <<leading, inflight, answer, tries, phase, on, code, index>>
    BY <1>8 DEF allVars, requestVars, attemptVars
  <2>2. UNCHANGED log
    BY <1>8 DEF allVars, storeVars
  <2>3. RequestsTypeOK = RequestsTypeOK'
    BY <2>1
  <2> QED BY <1>1, <2>3
<1> QED BY <1>1, <1>4, <1>5, <1>6, <1>7, <1>8 DEF NextRequests

\* What an attempt inserted, and that it won, stays true as the log grows.
LEMMA WonKept ==
  ASSUME TypeOK, [Next]_vars, NEW u \in LongURLs,
         index'[u] = index[u], code'[u] = code[u]
  PROVE  (Inserted(u) => Inserted(u)') /\ (Won(u) => Won(u)')
<1>1. CASE UNCHANGED <<log, ideal>>
  BY <1>1 DEF Inserted, Won, Ideal
<1>2. ASSUME NEW cmd \in Command, Commit(cmd)
      PROVE  (Inserted(u) => Inserted(u)') /\ (Won(u) => Won(u)')
  <2>1. /\ Len(log) \in Nat /\ Len(log') = Len(log) + 1
        /\ \A k \in 1..Len(log) : log'[k] = log[k]
        /\ \A k \in 0..Len(log) : ideal'[k + 1] = ideal[k + 1]
    BY <1>2, CommitEffect DEF TypeOK
  <2>2. Inserted(u) => Inserted(u)'
    BY <2>1 DEF Inserted
  <2>3. Inserted(u) => index[u] - 1 \in 0..Len(log)
    BY <2>1 DEF Inserted
  <2> QED BY <2>1, <2>2, <2>3 DEF Won, Ideal
<1> QED BY <1>1, <1>2, LogKept

LEMMA AttemptKept ==
  ASSUME TypeOK, [Next]_vars, NEW u \in LongURLs, Attempted(u),
         phase'[u] \notin {"counting", "waiting", "created"} \/ phase'[u] = phase[u],
         phase'[u] = phase[u] =>
            index'[u] = index[u] /\ code'[u] = code[u] /\ tries'[u] = tries[u]
  PROVE  Attempted(u)'
BY WonKept DEF Attempted

\* Proposals stay true that were made for attempts that go on or are over.
LEMMA ProposalsKept ==
  ASSUME RequestsTypeOK, ProposalInv, inflight' \subseteq inflight, UNCHANGED tries,
         \A u \in LongURLs : phase'[u] \in {"counting", "waiting"} =>
            phase'[u] = phase[u] /\ code'[u] = code[u]
  PROVE  ProposalInv'
<1> SUFFICES ASSUME NEW p \in inflight PROVE Proposed(p)'
  BY DEF ProposalInv
<1>1. Proposed(p) /\ p.url \in LongURLs
  BY ProposalCommand DEF ProposalInv, RequestsTypeOK
<1> QED BY <1>1 DEF Proposed

\* The insert that an attempt waits for was applied and its error is none: the
\* file had no row, so that the log had none either.
LEMMA CreatedWon ==
  ASSUME ConvergeInv, RowsInv, NEW n \in Replicas, Applying(n, "CmdShortenURL"),
         NEW u \in LongURLs, Inserted(u), index[u] = applied[n] + 1,
         Outcome(database[n], NextEntry(n)) = "created"
  PROVE  Won(u)
<1>1. NextEntry(n) \in Command /\ NextEntry(n).code \in Codes
  BY EntryType, CommandCases DEF Applying, ConvergeInv
<1>2. NextEntry(n).code = code[u]
  BY DEF NextEntry, Inserted
<1>3. database[n].urls[code[u]] = NoRow
  BY <1>2 DEF Outcome
<1>4. Ideal(applied[n]).urls[code[u]] = NoRow
  BY <1>1, <1>2, <1>3 DEF RowsInv, Known
<1>5. index[u] - 1 = applied[n]
  BY ReplicaFacts
<1> QED BY <1>4, <1>5 DEF Won

\* What attempts do, action by action.
LEMMA HandlerStep ==
  ASSUME ConvergeInv, RowsInv, HandlerInv, [NextRequests]_allVars
  PROVE  ProposalInv' /\ AttemptInv' /\ AnswerInv'
<1>1. TypeOK /\ RequestsTypeOK /\ ProposalInv /\ AttemptInv /\ AnswerInv /\ [Next]_vars
  BY StoreNext DEF ConvergeInv, HandlerInv
<1> USE <1>1
<1>2. /\ phase \in [LongURLs -> {"rejected", "counting", "waiting", "created", "failed", "reset"}]
      /\ tries \in [LongURLs -> 0..MaxTries] /\ answer \in [LongURLs -> Codes \cup {None, "error"}]
      /\ code \in [LongURLs -> Codes \cup {None}] /\ index \in [LongURLs -> 0..MaxLog]
      /\ on \in [LongURLs -> Replicas \cup {None}]
  BY DEF RequestsTypeOK
<1>3. \A p \in inflight : p.url \in LongURLs /\ Proposed(p)
  BY ProposalCommand DEF RequestsTypeOK, ProposalInv
<1>4. \A u \in LongURLs : Attempted(u)
  BY DEF AttemptInv
\* Proposals that are made for an attempt that Envoy gave up.
<1>5. ASSUME NEW u \in LongURLs, Abandon(u), NEW p \in inflight'
      PROVE  p \in inflight \/ (p.url = u /\ p.try = tries[u])
  BY <1>5 DEF Abandon, Proposes
<1>6. ASSUME NEW u \in LongURLs, RequestStep(u)
      PROVE  ProposalInv' /\ AttemptInv' /\ AnswerInv'
  <2>1. ASSUME NEW n \in Replicas, Send(u, n)
        PROVE  ProposalInv' /\ AttemptInv' /\ AnswerInv'
    <3>1. /\ tries'[u] = tries[u] + 1 /\ index'[u] = 0 /\ tries[u] \in Nat
          /\ phase'[u] \in {"counting", "rejected"}
          /\ \A v \in LongURLs : v # u =>
               /\ tries'[v] = tries[v] /\ phase'[v] = phase[v]
               /\ code'[v] = code[v] /\ index'[v] = index[v]
          /\ answer' = answer /\ answer[u] = None
      BY <1>2, <2>1, MaxTriesAssumption DEF Send, MayTry
    <3>2. ASSUME NEW p \in inflight' PROVE Proposed(p)'
      <4>1. p \in inflight \/ (p.url = u /\ p.try = tries[u])
        BY <1>5, <2>1 DEF Send
      <4>2. CASE p \in inflight /\ p.url # u
        BY <1>3, <3>1, <4>2 DEF Proposed
      <4>3. CASE p.url = u /\ p.try <= tries[u]
        <5>1. p.try \in Nat
          <6>1. inflight' \subseteq Proposal
            BY RequestsTypeStep DEF RequestsTypeOK
          <6>2. p \in Proposal
            BY <6>1
          <6> QED BY <6>2, MaxTriesAssumption DEF Proposal
        <5> QED BY <3>1, <4>3, <5>1 DEF Proposed
      <4> QED BY <1>3, <3>1, <4>1, <4>2, <4>3 DEF Proposed
    <3>3. ASSUME NEW v \in LongURLs PROVE Attempted(v)'
      <4>1. CASE v = u
        BY <3>1, <4>1 DEF Attempted
      <4>2. CASE v # u
        BY <1>4, <3>1, <4>2, AttemptKept
      <4> QED BY <4>1, <4>2
    <3>4. AnswerInv'
      BY <3>1, NoneAssumption DEF AnswerInv
    <3> QED BY <3>2, <3>3, <3>4 DEF ProposalInv, AttemptInv
  <2>2. CASE Answer(u)
    <3>1. /\ UNCHANGED <<inflight, tries, phase>>
          /\ \A v \in LongURLs : phase[v] \notin {"failed", "rejected"} =>
               code'[v] = code[v] /\ index'[v] = index[v]
          /\ \A v \in LongURLs : v # u => answer'[v] = answer[v]
          /\ answer'[u] = "error" \/ (phase[u] = "created" /\ answer'[u] = code[u])
      BY <1>2, <2>2 DEF Answer
    <3>2. ProposalInv'
      BY <3>1, ProposalsKept
    <3>3. AttemptInv'
      <4> SUFFICES ASSUME NEW v \in LongURLs PROVE Attempted(v)'
        BY DEF AttemptInv
      <4>1. CASE phase[v] \in {"failed", "rejected"}
        BY <3>1, <4>1 DEF Attempted
      <4>2. CASE phase[v] \notin {"failed", "rejected"}
        BY <1>4, <3>1, <4>2, AttemptKept
      <4> QED BY <4>1, <4>2
    <3>4. AnswerInv'
      BY <3>1, NoneAssumption DEF AnswerInv
    <3> QED BY <3>2, <3>3, <3>4
  <2>3. CASE GiveUp(u)
    <3>1. /\ UNCHANGED tries /\ phase'[u] = "reset" /\ answer'[u] = "error"
          /\ \A v \in LongURLs : v # u =>
               /\ phase'[v] = phase[v] /\ code'[v] = code[v]
               /\ index'[v] = index[v] /\ answer'[v] = answer[v]
      BY <1>2, <2>3 DEF GiveUp, Forget
    <3>2. ASSUME NEW p \in inflight' PROVE Proposed(p)'
      <4>1. p \in inflight \/ (p.url = u /\ p.try = tries[u])
        BY <1>5, <2>3 DEF GiveUp
      <4> QED BY <1>2, <1>3, <3>1, <4>1 DEF Proposed
    <3>3. AttemptInv'
      <4> SUFFICES ASSUME NEW v \in LongURLs PROVE Attempted(v)'
        BY DEF AttemptInv
      <4>1. CASE v = u
        BY <3>1, <4>1 DEF Attempted
      <4>2. CASE v # u
        BY <1>4, <3>1, <4>2, AttemptKept
      <4> QED BY <4>1, <4>2
    <3>4. AnswerInv'
      BY <3>1, NoneAssumption DEF AnswerInv
    <3> QED BY <3>2, <3>3, <3>4 DEF ProposalInv
  <2>4. CASE CounterFails(u)
    <3>1. /\ UNCHANGED <<inflight, answer, tries, code, index>>
          /\ phase[u] = "counting" /\ phase'[u] = "failed"
          /\ \A v \in LongURLs : v # u => phase'[v] = phase[v]
      BY <1>2, <2>4 DEF CounterFails
    <3>2. ProposalInv'
      BY <3>1, ProposalsKept
    <3>3. AttemptInv'
      <4> SUFFICES ASSUME NEW v \in LongURLs PROVE Attempted(v)'
        BY DEF AttemptInv
      <4> QED BY <1>4, <3>1, AttemptKept
    <3> QED BY <3>1, <3>2, <3>3 DEF AnswerInv
  <2>5. ASSUME NEW c \in Codes, Propose(u, c)
        PROVE  ProposalInv' /\ AttemptInv' /\ AnswerInv'
    <3>1. /\ UNCHANGED <<answer, tries, index>> /\ phase[u] = "counting"
          /\ \A v \in LongURLs : v # u => phase'[v] = phase[v] /\ code'[v] = code[v]
          /\ \/ /\ inflight' = inflight \cup {Proposes(u, c)}
                /\ phase'[u] = "waiting" /\ code'[u] = c
             \/ /\ inflight' = inflight /\ phase'[u] = "failed"
      BY <1>2, <2>5 DEF Propose
    <3>2. ASSUME NEW p \in inflight' PROVE Proposed(p)'
      <4>1. CASE p \in inflight
        BY <1>3, <3>1, <4>1 DEF Proposed
      <4>2. CASE p = Proposes(u, c) /\ phase'[u] = "waiting" /\ code'[u] = c
        BY <1>2, <3>1, <4>2 DEF Proposed, Proposes
      <4> QED BY <3>1, <4>1, <4>2
    <3>3. AttemptInv'
      <4> SUFFICES ASSUME NEW v \in LongURLs PROVE Attempted(v)'
        BY DEF AttemptInv
      <4>1. CASE v = u
        BY <1>4, <3>1, <4>1 DEF Attempted
      <4>2. CASE v # u
        BY <1>4, <3>1, <4>2, AttemptKept
      <4> QED BY <4>1, <4>2
    <3> QED BY <3>1, <3>2, <3>3 DEF ProposalInv, AnswerInv
  <2> QED BY <1>6, <2>1, <2>2, <2>3, <2>4, <2>5 DEF RequestStep
<1>7. ASSUME NEW p \in inflight, CommitShorten(p)
      PROVE  ProposalInv' /\ AttemptInv' /\ AnswerInv'
  <2>1. /\ inflight' \subseteq inflight /\ UNCHANGED <<answer, tries, phase, code>>
        /\ \A v \in LongURLs : index'[v] = index[v] \/
             /\ v = p.url /\ p.try = tries[v] /\ phase[v] = "waiting"
             /\ index'[v] = Len(log) + 1
    BY <1>2, <1>7 DEF CommitShorten
  <2>2. Insert(p) \in Command /\ Commit(Insert(p))
    BY <1>7, ProposalCommand DEF CommitShorten, Insert, RequestsTypeOK
  <2>3. /\ Len(log) \in Nat /\ Len(log') = Len(log) + 1
        /\ log'[Len(log) + 1] = Insert(p)
    BY <2>2, CommitEffect DEF TypeOK
  <2>4. ASSUME NEW v \in LongURLs PROVE Attempted(v)'
    <3>1. CASE index'[v] = index[v]
      BY <1>4, <2>1, <3>1, AttemptKept
    <3>2. CASE index'[v] = Len(log) + 1 /\ v = p.url /\ p.try = tries[v] /\ phase[v] = "waiting"
      <4>1. code'[v] = p.code /\ code[v] = p.code
        BY <1>3, <2>1, <3>2 DEF Proposed
      <4>2. Inserted(v)'
        BY <2>3, <3>2, <4>1 DEF Inserted, Insert
      <4>3. code[v] \in Codes
        BY <1>4, <3>2 DEF Attempted
      <4> QED BY <2>1, <3>2, <4>2, <4>3 DEF Attempted
    <3> QED BY <2>1, <3>1, <3>2
  <2> QED BY <2>1, <2>4, ProposalsKept DEF AttemptInv, AnswerInv
<1>8. ASSUME UNCHANGED requestVars
      PROVE  ProposalInv' /\ AttemptInv' /\ AnswerInv'
  <2>1. UNCHANGED <<inflight, answer, tries, phase, code, index>>
    BY <1>8 DEF requestVars, attemptVars
  <2>2. \A u \in LongURLs : Attempted(u)'
    BY <1>4, <2>1, AttemptKept
  <2> QED BY <2>1, <2>2, ProposalsKept DEF AttemptInv, AnswerInv
<1>9. ASSUME NEW n \in Replicas, PodStep(n)
      PROVE  ProposalInv' /\ AttemptInv' /\ AnswerInv'
  <2>1. CASE ApplyAndAnswer(n)
    <3>1. /\ UNCHANGED <<inflight, answer, tries, code, index>>
          /\ Applying(n, "CmdShortenURL")
          /\ \A u \in LongURLs : phase'[u] = phase[u] \/
               /\ phase[u] = "waiting" /\ index[u] = applied[n] + 1
               /\ phase'[u] = Outcome(database[n], NextEntry(n))
      BY <1>2, <2>1 DEF ApplyAndAnswer, ApplyShortenURL, Waiting
    <3>2. ASSUME NEW u \in LongURLs PROVE Attempted(u)'
      <4>1. CASE phase'[u] = phase[u]
        BY <1>4, <3>1, <4>1, AttemptKept
      <4>2. CASE /\ phase[u] = "waiting" /\ index[u] = applied[n] + 1
                 /\ phase'[u] = Outcome(database[n], NextEntry(n))
        <5>1. Inserted(u) /\ code[u] \in Codes
          BY <1>4, <4>2, ReplicaFacts DEF Attempted
        <5>2. Outcome(database[n], NextEntry(n)) \in {"created", "failed"}
          BY DEF Outcome
        <5>3. phase'[u] = "created" => Won(u)
          BY <3>1, <4>2, <5>1, CreatedWon
        <5>4. phase'[u] = "created" => Won(u)'
          BY <3>1, <5>3, WonKept
        <5> QED BY <3>1, <4>2, <5>1, <5>2, <5>4 DEF Attempted
      <4> QED BY <3>1, <4>1, <4>2
    <3>3. \A u \in LongURLs : phase'[u] \in {"counting", "waiting"} => phase'[u] = phase[u]
      BY <3>1 DEF Outcome
    <3>4. ProposalInv'
      BY <3>1, <3>3, ProposalsKept
    <3>5. AnswerInv'
      BY <3>1 DEF AnswerInv
    <3> QED BY <3>2, <3>4, <3>5 DEF AttemptInv
  <2>2. CASE BecomeLeader(n)
    <3>1. UNCHANGED <<inflight, answer, tries, phase, code, index>>
      BY <2>2 DEF BecomeLeader, attemptVars
    <3>2. \A u \in LongURLs : Attempted(u)'
      BY <1>4, <3>1, AttemptKept
    <3> QED BY <3>1, <3>2, ProposalsKept DEF AttemptInv, AnswerInv
  <2>3. CASE StepDown(n)
    <3>1. /\ UNCHANGED <<inflight, answer, tries, code, index>>
          /\ \A u \in LongURLs : phase'[u] = phase[u] \/
               (phase[u] = "waiting" /\ phase'[u] = "failed")
      BY <1>2, <2>3 DEF StepDown, Waiting
    <3>2. \A u \in LongURLs : Attempted(u)'
      BY <1>4, <3>1, AttemptKept
    <3>3. ProposalInv'
      BY <3>1, ProposalsKept
    <3> QED BY <3>1, <3>2, <3>3 DEF AttemptInv, AnswerInv
  <2>4. CASE Crash(n)
    <3>1. /\ UNCHANGED <<inflight, answer, tries>>
          /\ \A u \in LongURLs : \/ phase'[u] = "reset" /\ answer[u] = None
                                 \/ /\ phase'[u] = phase[u] /\ code'[u] = code[u]
                                    /\ index'[u] = index[u]
      BY <1>2, <2>4 DEF Crash, Forget
    <3>2. ASSUME NEW u \in LongURLs PROVE Attempted(u)'
      <4>1. CASE phase'[u] = "reset"
        BY <4>1 DEF Attempted
      <4>2. CASE phase'[u] = phase[u] /\ code'[u] = code[u] /\ index'[u] = index[u]
        BY <1>4, <3>1, <4>2, AttemptKept
      <4> QED BY <3>1, <4>1, <4>2
    <3>3. ProposalInv'
      BY <3>1, ProposalsKept
    <3>4. AnswerInv'
      BY <3>1, NoneAssumption DEF AnswerInv
    <3> QED BY <3>2, <3>3, <3>4 DEF AttemptInv
  <2>5. CASE StoreStep(n)
    BY <1>8, <2>5 DEF StoreStep
  <2> QED BY <1>9, <2>1, <2>2, <2>3, <2>4, <2>5 DEF PodStep
<1>10. ASSUME NEW cmd \in Command, CommitOther(cmd)
       PROVE  ProposalInv' /\ AttemptInv' /\ AnswerInv'
  BY <1>8, <1>10 DEF CommitOther
<1>11. CASE UNCHANGED allVars
  BY <1>8, <1>11 DEF allVars
<1> QED BY <1>6, <1>7, <1>9, <1>10, <1>11 DEF NextRequests

LEMMA RequestsStep ==
  ASSUME RequestsInv, [NextRequests]_allVars
  PROVE  RequestsInv'
<1>1. ConvergeInv /\ RowsInv /\ LastsInv /\ HandlerInv /\ TypeOK /\ RequestsTypeOK
  BY DEF RequestsInv, ConvergeInv, HandlerInv
<1>2. [Next]_vars
  BY <1>1, StoreNext
<1>3. ConvergeInv' /\ RowsInv' /\ LastsInv'
  BY <1>1, <1>2, ConvergeStep, RowsStep, LastsStep
<1>4. HandlerInv'
  BY <1>1, RequestsTypeStep, HandlerStep DEF HandlerInv
<1> QED BY <1>3, <1>4 DEF RequestsInv

----------------------------------------------------------------------------
(***************************************************************************)
(* Theorems                                                                *)
(***************************************************************************)

\* The inductive invariant: the store converges, what the log run once gave a
\* code lasts, and a handler tells its client only what its own insert won.
THEOREM RequestsInvariant == SpecRequests => []RequestsInv
<1>1. InitRequests => RequestsInv
  BY ConvergeInit, RowsInit, LastsInit, RequestsInit DEF InitRequests, RequestsInv
<1>2. RequestsInv /\ [NextRequests]_allVars => RequestsInv'
  BY RequestsStep
<1> QED BY <1>1, <1>2, PTL DEF SpecRequests

\* The variables of the requests keep their types.
THEOREM RequestsTypeCorrect == SpecRequests => []RequestsTypeOK
<1>1. RequestsInv => RequestsTypeOK
  BY DEF RequestsInv, HandlerInv
<1> QED BY <1>1, RequestsInvariant, PTL

\* Whatever clients, Envoy and handlers do, the store below them behaves as
\* UrlReplicas says, so that all that is proved there holds here.
THEOREM StoreTheorem == SpecRequests => Spec
<1>1. InitRequests => Init
  BY DEF InitRequests
<1>2. RequestsTypeOK /\ [NextRequests]_allVars => [Next]_vars
  BY StoreNext
<1> QED BY <1>1, <1>2, RequestsTypeCorrect, PTL DEF SpecRequests, Spec

\* What an insert won stays with its client's URL up to the next delete: in the
\* log run once.
LEMMA WonLasts ==
  ASSUME RequestsInv, NEW u \in LongURLs, Won(u), code[u] \in Codes,
         NEW j \in 0..Len(log), index[u] <= j, NoDeleteBetween(code[u], index[u], j + 1)
  PROVE  Ideal(j).urls[code[u]] = u /\ u # NoRow
<1> DEFINE i == index[u]
<1>1. /\ i \in 1..Len(log) /\ i - 1 \in 0..Len(log) /\ i \in 0..Len(log)
      /\ log[i] = [type |-> "CmdShortenURL", code |-> code[u], url |-> u]
      /\ Ideal(i - 1).urls[code[u]] = NoRow
      /\ TypeOK /\ IdealInv /\ LastsInv
  BY DEF RequestsInv, ConvergeInv, TypeOK, Won, Inserted
<1>2. log[i] \in Command /\ Ideal(i - 1) \in Database
  BY <1>1, IdealType DEF TypeOK
<1>3. Ideal(i) = InsertURL(Ideal(i - 1), code[u], u)
  BY <1>1, <1>2, ApplyEffect DEF IdealInv
<1>4. Ideal(i).urls[code[u]] = u
  BY <1>1, <1>2, <1>3, InsertEffect
<1>5. u # NoRow
  BY NoRowAssumption
<1>6. Ideal(j).urls[code[u]] = Ideal(i).urls[code[u]]
  BY <1>1, <1>4, <1>5 DEF LastsInv
<1> QED BY <1>4, <1>5, <1>6

\* A code that a client got redirects to its URL on each pod that has applied the
\* insert, until a delete is committed.
THEOREM AcknowledgedResolvesTheorem == SpecRequests => []AcknowledgedResolves
<1>1. ASSUME RequestsInv PROVE AcknowledgedResolves
  <2> SUFFICES ASSUME NEW u \in LongURLs, answer[u] \in Codes
               PROVE  /\ index[u] # 0
                      /\ NoDeleteBetween(answer[u], index[u], Len(log) + 1) =>
                           \A n \in Replicas :
                              applied[n] >= index[u] => database[n].urls[answer[u]] = u
    BY DEF AcknowledgedResolves
  <2>1. answer[u] = code[u] /\ code[u] \in Codes /\ Won(u) /\ index[u] \in 1..Len(log)
    BY <1>1 DEF RequestsInv, HandlerInv, AnswerInv, AttemptInv, Attempted, Won, Inserted
  <2>2. ASSUME NoDeleteBetween(code[u], index[u], Len(log) + 1),
               NEW n \in Replicas, applied[n] >= index[u]
        PROVE  database[n].urls[code[u]] = u
    <3>1. /\ Len(log) \in 0..Len(log) /\ applied[n] \in 0..Len(log)
          /\ RepeatsAll(database[n], applied[n])
      BY <1>1, ReplicaFacts DEF RequestsInv, ConvergeInv, TypeOK, RepeatsAll
    <3>2. Ideal(Len(log)).urls[code[u]] = u
      BY <1>1, <2>1, <2>2, <3>1, WonLasts
    <3>3. NoDeleteBetween(code[u], index[u], applied[n] + 1)
      BY <2>1, <2>2, <3>1 DEF NoDeleteBetween
    <3>4. Ideal(applied[n]).urls[code[u]] = u
      BY <1>1, <2>1, <2>2, <3>1, <3>3, WonLasts
    <3>5. NoDelete(applied[n], code[u])
      BY <2>1, <2>2, <3>1 DEF NoDelete, NoDeleteBetween
    <3> QED BY <2>1, <3>1, <3>2, <3>4, <3>5 DEF RepeatsAll, Repeats
  <2> QED BY <2>1, <2>2
<1> QED BY <1>1, RequestsInvariant, PTL

\* Two clients get the same code only with a delete in between.
THEOREM NoCodeGivenTwiceTheorem == SpecRequests => []NoCodeGivenTwice
<1>1. ASSUME RequestsInv PROVE NoCodeGivenTwice
  <2> SUFFICES ASSUME NEW u \in LongURLs, NEW v \in LongURLs, answer[u] \in Codes,
                      answer[u] = answer[v], index[u] < index[v],
                      NoDeleteBetween(answer[u], index[u], index[v])
               PROVE  FALSE
    BY DEF NoCodeGivenTwice
  <2>1. \A w \in {u, v} : /\ answer[w] = code[w] /\ code[w] \in Codes
                          /\ Won(w) /\ index[w] \in 1..Len(log)
    BY <1>1 DEF RequestsInv, HandlerInv, AnswerInv, AttemptInv, Attempted, Won, Inserted
  <2>2. /\ index[v] - 1 \in 0..Len(log) /\ index[u] <= index[v] - 1
        /\ index[v] - 1 + 1 = index[v]
    BY <2>1
  <2>3. Ideal(index[v] - 1).urls[code[u]] = u /\ u # NoRow
    BY <1>1, <2>1, <2>2, WonLasts
  <2>4. Ideal(index[v] - 1).urls[code[v]] = NoRow
    BY <2>1 DEF Won
  <2> QED BY <2>1, <2>3, <2>4
<1> QED BY <1>1, RequestsInvariant, PTL

----------------------------------------------------------------------------
(***************************************************************************)
(* The refinement of Shortener                                             *)
(***************************************************************************)

\* A commit grants what it inserts into a free row, and takes nothing back.
LEMMA GrantedStep ==
  ASSUME TypeOK, NEW cmd \in Command, Commit(cmd), NEW u \in LongURLs, NEW c \in Codes
  PROVE  c \in Granted(u)' <=>
           \/ c \in Granted(u)
           \/ /\ cmd = [type |-> "CmdShortenURL", code |-> c, url |-> u]
              /\ Ideal(Len(log)).urls[c] = NoRow
<1>1. /\ Len(log) \in Nat /\ Len(log') = Len(log) + 1
      /\ \A k \in 1..Len(log) : log'[k] = log[k]
      /\ log'[Len(log) + 1] = cmd
      /\ \A k \in 0..Len(log) : Ideal(k)' = Ideal(k)
  BY CommitEffect DEF TypeOK, Ideal
<1> DEFINE Gives(i) == /\ log[i] = [type |-> "CmdShortenURL", code |-> c, url |-> u]
                       /\ Ideal(i - 1).urls[c] = NoRow
           New == /\ cmd = [type |-> "CmdShortenURL", code |-> c, url |-> u]
                  /\ Ideal(Len(log)).urls[c] = NoRow
<1>2. ASSUME NEW i \in 1..Len(log) PROVE Gives(i)' <=> Gives(i)
  <2>1. i - 1 \in 0..Len(log) /\ log'[i] = log[i]
    BY <1>1
  <2> QED BY <1>1, <2>1
<1>3. ASSUME NEW i, i = Len(log) + 1 PROVE Gives(i)' <=> New
  <2>1. i - 1 = Len(log) /\ Len(log) \in 0..Len(log)
    BY <1>1, <1>3
  <2>2. Ideal(i - 1)' = Ideal(Len(log))
    BY <1>1, <2>1
  <2> QED BY <1>1, <1>3, <2>2
<1>4. c \in Granted(u) <=> \E i \in 1..Len(log) : Gives(i)
  BY DEF Granted
<1>5. c \in Granted(u)' <=> \E i \in 1..Len(log') : Gives(i)'
  BY DEF Granted
<1>6. \A i : i \in 1..Len(log') <=> i \in 1..Len(log) \/ i = Len(log) + 1
  BY <1>1
<1> HIDE DEF Gives, New
<1>7. c \in Granted(u)' <=> c \in Granted(u) \/ New
  BY <1>2, <1>3, <1>4, <1>5, <1>6
<1> QED BY <1>7 DEF New

\* What a commit does to the one table of Shortener.
LEMMA StoreCommit ==
  ASSUME TypeOK, NEW cmd \in Command, Commit(cmd)
  PROVE  Ideal(Len(log))' = Apply(Ideal(Len(log)), cmd)
<1>1. /\ Len(log) \in Nat /\ Len(log') = Len(log) + 1
      /\ ideal'[Len(log) + 2] = Apply(Ideal(Len(log)), cmd)
  BY CommitEffect DEF TypeOK, Ideal
<1> QED BY <1>1 DEF Ideal

LEMMA ShortenerInit ==
  ASSUME InitRequests
  PROVE  Promised!Init
<1>1. log = <<>> /\ Len(log) = 0 /\ Ideal(0) = EmptyDatabase
  BY DEF InitRequests, Init, Ideal
<1>2. \A u \in LongURLs : Granted(u) = {}
  BY <1>1 DEF Granted
<1> QED BY <1>1, <1>2 DEF Promised!Init, InitRequests, EmptyDatabase

\* A step that neither commits nor answers is none to Shortener.
LEMMA ShortenerStutters ==
  ASSUME UNCHANGED <<log, ideal, answer>>
  PROVE  UNCHANGED Promised!vars
<1>1. Ideal(Len(log))' = Ideal(Len(log))
  BY DEF Ideal
<1>2. \A u \in LongURLs : Granted(u)' = Granted(u)
  BY DEF Granted, Ideal
<1> QED BY <1>1, <1>2 DEF Promised!vars

\* An insert grants its code, or finds the row taken and does nothing.
LEMMA ShortenerGrants ==
  ASSUME TypeOK, NEW c \in Codes, NEW u \in LongURLs, UNCHANGED answer,
         Commit([type |-> "CmdShortenURL", code |-> c, url |-> u])
  PROVE  [Promised!Next]_Promised!vars
<1> DEFINE cmd == [type |-> "CmdShortenURL", code |-> c, url |-> u]
           store == Ideal(Len(log)).urls
           granted == [v \in LongURLs |-> Granted(v)]
<1>1. cmd \in Command
  BY DEF Command
<1>2. Ideal(Len(log)) \in Database
  BY IdealType DEF TypeOK
<1>3. Ideal(Len(log))' = InsertURL(Ideal(Len(log)), c, u)
  BY <1>1, <1>2, StoreCommit, ApplyEffect
<1>4. \A v \in LongURLs : Granted(v) \subseteq Codes /\ Granted(v)' \subseteq Codes
  BY DEF Granted
<1>5. \A v \in LongURLs, d \in Codes :
        d \in Granted(v)' <=> d \in Granted(v) \/ (d = c /\ v = u /\ store[d] = NoRow)
  BY <1>1, GrantedStep
<1>6. CASE store[c] = NoRow
  <2>1. store' = [store EXCEPT ![c] = u]
    BY <1>2, <1>3, <1>6 DEF InsertURL, Database
  <2>2. granted' = [granted EXCEPT ![u] = @ \cup {c}]
    BY <1>4, <1>5, <1>6
  <2>3. Promised!Grant(u, c)
    BY <1>6, <2>1, <2>2 DEF Promised!Grant
  <2> QED BY <2>3 DEF Promised!Next
<1>7. CASE store[c] # NoRow
  <2>1. store' = store
    BY <1>3, <1>7 DEF InsertURL
  <2>2. granted' = granted
    BY <1>4, <1>5, <1>7
  <2> QED BY <2>1, <2>2 DEF Promised!vars
<1> QED BY <1>6, <1>7

\* A delete frees its code, and a follow does nothing to the table.
LEMMA ShortenerDeletes ==
  ASSUME TypeOK, NEW cmd \in Command, cmd.type # "CmdShortenURL", UNCHANGED answer,
         Commit(cmd)
  PROVE  [Promised!Next]_Promised!vars
<1> DEFINE store == Ideal(Len(log)).urls
           granted == [v \in LongURLs |-> Granted(v)]
<1>1. Ideal(Len(log)) \in Database /\ Ideal(Len(log))' = Apply(Ideal(Len(log)), cmd)
  BY StoreCommit, IdealType DEF TypeOK
<1>2. \A v \in LongURLs : Granted(v) \subseteq Codes /\ Granted(v)' \subseteq Codes
  BY DEF Granted
<1>3. \A v \in LongURLs, d \in Codes : d \in Granted(v)' <=> d \in Granted(v)
  BY GrantedStep
<1>4. granted' = granted
  BY <1>2, <1>3
<1>5. CASE cmd.type = "CmdRecordFollow"
  <2>1. store' = store
    BY <1>1, <1>5, ApplyEffect, CommandCases DEF UpsertFollowStats, Database
  <2> QED BY <1>4, <2>1 DEF Promised!vars
<1>6. CASE cmd.type = "CmdDeleteURL"
  <2>1. store' = [store EXCEPT ![cmd.code] = NoRow]
    <3> DEFINE unfollowed == DeleteURLStats(Ideal(Len(log)), cmd.code)
    <3>1. cmd.code \in Codes /\ Ideal(Len(log))' = DeleteURL(unfollowed, cmd.code)
      BY <1>1, <1>6, ApplyEffect, CommandCases
    <3>2. unfollowed \in Database /\ unfollowed.urls = store
      BY <1>1, <3>1, DeleteStatsEffect
    <3> HIDE DEF unfollowed
    <3> QED BY <3>1, <3>2 DEF DeleteURL, Database
  <2>2. Promised!Delete(cmd.code)
    BY <1>4, <2>1 DEF Promised!Delete
  <2> QED BY <2>2, CommandCases DEF Promised!Next
<1> QED BY <1>5, <1>6, CommandCases

\* A client is told once: of a code that its own request got, or that it failed.
LEMMA ShortenerAnswers ==
  ASSUME RequestsInv, NEW u \in LongURLs, UNCHANGED <<log, ideal>>,
         answer[u] = None,
         \/ answer' = [answer EXCEPT ![u] = "error"]
         \/ phase[u] = "created" /\ answer' = [answer EXCEPT ![u] = code[u]]
  PROVE  Promised!Next
<1>1. Ideal(Len(log))' = Ideal(Len(log)) /\ \A v \in LongURLs : Granted(v)' = Granted(v)
  BY DEF Granted, Ideal
<1>2. CASE answer' = [answer EXCEPT ![u] = "error"]
  <2>1. Promised!Fail(u)
    BY <1>1, <1>2 DEF Promised!Fail
  <2> QED BY <2>1 DEF Promised!Next
<1>3. CASE phase[u] = "created" /\ answer' = [answer EXCEPT ![u] = code[u]]
  <2>1. code[u] \in Codes /\ Won(u)
    BY <1>3 DEF RequestsInv, HandlerInv, AttemptInv, Attempted
  <2>2. code[u] \in Granted(u)
    BY <2>1 DEF Granted, Won, Inserted
  <2>3. Promised!Acknowledge(u, code[u])
    BY <1>1, <1>3, <2>2 DEF Promised!Acknowledge
  <2> QED BY <2>1, <2>3 DEF Promised!Next
<1> QED BY <1>2, <1>3

LEMMA ShortenerStep ==
  ASSUME RequestsInv, [NextRequests]_allVars
  PROVE  [Promised!Next]_Promised!vars
<1>1. TypeOK /\ RequestsTypeOK
  BY DEF RequestsInv, ConvergeInv, HandlerInv
<1>2. ASSUME NEW u \in LongURLs, RequestStep(u) PROVE [Promised!Next]_Promised!vars
  <2>1. CASE Answer(u) \/ GiveUp(u)
    <3>1. /\ UNCHANGED <<log, ideal>> /\ answer[u] = None
          /\ \/ answer' = [answer EXCEPT ![u] = "error"]
             \/ phase[u] = "created" /\ answer' = [answer EXCEPT ![u] = code[u]]
      BY <2>1 DEF Answer, GiveUp, storeVars
    <3> QED BY <3>1, ShortenerAnswers
  <2>2. CASE ~(Answer(u) \/ GiveUp(u))
    <3>1. UNCHANGED <<log, ideal, answer>>
      BY <1>2, <2>2 DEF RequestStep, Send, CounterFails, Propose, storeVars
    <3> QED BY <3>1, ShortenerStutters
  <2> QED BY <2>1, <2>2
<1>3. ASSUME NEW p \in inflight, CommitShorten(p) PROVE [Promised!Next]_Promised!vars
  BY <1>1, <1>3, ProposalCommand, ShortenerGrants DEF CommitShorten, RequestsTypeOK
<1>4. ASSUME NEW cmd \in Command, CommitOther(cmd) PROVE [Promised!Next]_Promised!vars
  BY <1>1, <1>4, ShortenerDeletes DEF CommitOther, requestVars
<1>5. ASSUME NEW n \in Replicas, PodStep(n) PROVE [Promised!Next]_Promised!vars
  <2>1. UNCHANGED answer
    BY <1>5 DEF PodStep, ApplyAndAnswer, BecomeLeader, StepDown, Crash, StoreStep, requestVars
  <2>2. UNCHANGED <<log, ideal>>
    BY <1>5 DEF PodStep, ApplyAndAnswer, BecomeLeader, StepDown, Crash, StoreStep, storeVars,
                ApplyShortenURL, ApplyRecordFollow, ApplyDeleteStats, ApplyDeleteURL,
                TakeSnapshot, Restart, InstallSnapshot
  <2> QED BY <2>1, <2>2, ShortenerStutters
<1>6. CASE UNCHANGED allVars
  BY <1>6, ShortenerStutters DEF allVars, storeVars, requestVars
<1> QED BY <1>2, <1>3, <1>4, <1>5, <1>6 DEF NextRequests

\* Pods, leaders, logs, attempts and repeats are invisible from outside: the
\* service does what the one table of Shortener does, for every number of them.
THEOREM ImplementsShortenerTheorem == SpecRequests => ImplementsShortener
<1>1. InitRequests => Promised!Init
  BY ShortenerInit
<1>2. RequestsInv /\ [NextRequests]_allVars => [Promised!Next]_Promised!vars
  BY ShortenerStep
<1> QED BY <1>1, <1>2, RequestsInvariant, PTL DEF SpecRequests, ImplementsShortener, Promised!Spec
============================================================================
