-------------------------- MODULE UrlListingProofs --------------------------
(***************************************************************************)
(* Proofs about UrlListing, for any number of pods, codes, commands,       *)
(* restarts and lists on their way, and for every page size: who pages     *)
(* through the list misses no URL, and each list can be made.              *)
(***************************************************************************)
EXTENDS UrlListing, FiniteSetTheorems, SequenceTheorems, WellFoundedInduction, TLAPS

(***************************************************************************)
(* One list                                                                *)
(***************************************************************************)

\* The places of the rows grow with their ids and fit the number of rows.
LEMMA PlaceOrder ==
  ASSUME NEW table, NEW after, NEW c \in Codes
  PROVE  /\ Place(table, after, c) \in Nat
         /\ Cardinality(RowsAfter(table, after)) \in Nat
         /\ Place(table, after, c) <= Cardinality(RowsAfter(table, after))
<1> DEFINE rows == RowsAfter(table, after)
           upTo == {d \in rows : table[d] <= table[c]}
<1>1. rows \in SUBSET Codes /\ upTo \in SUBSET rows
  BY DEF RowsAfter
<1>2. IsFiniteSet(rows)
  BY <1>1, CodesAssumption, FS_Subset
<1>3. IsFiniteSet(upTo) /\ Cardinality(upTo) <= Cardinality(rows)
  BY <1>1, <1>2, FS_Subset
<1>4. Cardinality(rows) \in Nat /\ Cardinality(upTo) \in Nat
  BY <1>2, <1>3, FS_CardinalityType
<1> QED BY <1>3, <1>4 DEF Place

LEMMA PlaceMonotone ==
  ASSUME NEW table \in Table, NEW after, NEW c \in Codes, NEW d \in Codes,
         table[c] <= table[d]
  PROVE  Place(table, after, c) <= Place(table, after, d)
<1> DEFINE rows == RowsAfter(table, after)
           upTo(e) == {r \in rows : table[r] <= table[e]}
<1>1. \A r \in rows : r \in Codes /\ table[r] \in Nat
  BY DEF RowsAfter, Table
<1>2. table[c] \in Nat /\ table[d] \in Nat
  BY DEF Table
<1>3. upTo(c) \in SUBSET upTo(d) /\ upTo(d) \in SUBSET Codes
  BY <1>1, <1>2
<1>4. IsFiniteSet(upTo(d))
  BY <1>3, CodesAssumption, FS_Subset
<1>5. Cardinality(upTo(c)) <= Cardinality(upTo(d))
  BY <1>3, <1>4, FS_Subset
<1> QED BY <1>5 DEF Place

\* A row that a list leaves out is one of those it was not asked for, or comes
\* after the token that the list gives out.
LEMMA PageCovers ==
  ASSUME NEW table \in Table, NEW after \in Nat, NEW token, IsNextToken(table, after, token),
         NEW c \in Codes, c \notin Page(table, after)
  PROVE  table[c] <= after \/ (token # 0 /\ token < table[c])
<1>1. table[c] \in Nat /\ PageSize \in Nat
  BY PageSizeAssumption DEF Table
<1> SUFFICES ASSUME table[c] > after PROVE token # 0 /\ token < table[c]
  BY <1>1
<1>2. c \in RowsAfter(table, after)
  BY DEF RowsAfter
<1>3. ~(Place(table, after, c) <= PageSize)
  BY <1>2 DEF Page
<1>4. HasNextPage(table, after)
  BY <1>1, <1>3, PlaceOrder DEF HasNextPage
<1>5. PICK m \in Page(table, after) : token = table[m]
  BY <1>4 DEF IsNextToken
<1>6. /\ m \in Codes /\ table[m] \in Nat /\ table[m] > after
      /\ Place(table, after, m) <= PageSize
  BY <1>5 DEF Page, RowsAfter, Table
<1>7. ~(table[c] <= table[m])
  <2> SUFFICES ASSUME table[c] <= table[m] PROVE FALSE
    OBVIOUS
  <2>1. Place(table, after, c) <= Place(table, after, m)
    BY <1>6, PlaceMonotone
  <2>2. Place(table, after, c) \in Nat /\ Place(table, after, m) \in Nat
    BY <1>6, PlaceOrder
  <2> QED BY <1>1, <1>3, <1>6, <2>1, <2>2
<1> QED BY <1>1, <1>5, <1>6, <1>7

\* A list goes on where it ends.
LEMMA PageAdvances ==
  ASSUME NEW table \in Table, NEW after \in Nat, NEW token, IsNextToken(table, after, token),
         token # 0
  PROVE  after < token
<1>1. HasNextPage(table, after)
  BY DEF IsNextToken
<1>2. PICK m \in Page(table, after) : token = table[m]
  BY <1>1 DEF IsNextToken
<1>3. m \in Codes /\ table[m] \in Nat /\ table[m] > after
  BY DEF Page, RowsAfter, Table
<1> QED BY <1>2, <1>3

\* The natural numbers are well ordered.
LEMMA LeastNatural ==
  ASSUME NEW T \in SUBSET Nat, T # {}
  PROVE  \E x \in T : \A y \in T : x <= y
<1> DEFINE R == OpToRel(<, Nat)
<1>1. IsWellFoundedOn(R, Nat)
  BY NatLessThanWellFounded
<1>2. \A x \in Nat, y \in Nat : <<y, x>> \in R <=> y < x
  BY DEF OpToRel
<1> HIDE DEF R
<1>3. PICK x \in T : \A y \in T : ~(<<y, x>> \in R)
  BY <1>1, WFMin
<1>4. \A y \in T : x \in Nat /\ y \in Nat /\ ~(y < x)
  BY <1>2, <1>3
<1>5. \A y \in T : x <= y
  BY <1>4
<1> QED BY <1>5

LEMMA GreatestNatural ==
  ASSUME NEW T \in SUBSET Nat, T # {}, NEW n \in Nat, \A t \in T : t <= n
  PROVE  \E x \in T : \A y \in T : y <= x
<1> DEFINE below == {n - t : t \in T}
<1>1. below \in SUBSET Nat /\ below # {}
  <2>1. \A t \in T : n - t \in Nat
    OBVIOUS
  <2>2. PICK t \in T : TRUE
    OBVIOUS
  <2>3. n - t \in below
    BY <2>2
  <2> QED BY <2>1, <2>3
<1>2. PICK b \in below : \A d \in below : b <= d
  BY <1>1, LeastNatural
<1>3. PICK x \in T : b = n - x
  BY <1>2
<1>4. \A y \in T : n - x <= n - y
  BY <1>2, <1>3
<1> QED BY <1>4

\* A table whose rows have ids of their own has a token for every list.
LEMMA TokenExists ==
  ASSUME NEW table \in Table, NEW top \in Nat, \A c \in Codes : table[c] <= top,
         Distinct(table), NEW after \in Nat
  PROVE  \E token \in {0} \cup {table[c] : c \in Codes} : IsNextToken(table, after, token)
<1>1. CASE ~HasNextPage(table, after)
  BY <1>1 DEF IsNextToken
<1>2. CASE HasNextPage(table, after)
  <2> DEFINE rows == RowsAfter(table, after)
             page == Page(table, after)
  <2>1. \A c \in rows : c \in Codes /\ table[c] \in Nat /\ table[c] > after
    BY DEF RowsAfter, Table
  <2>2. rows # {}
    BY <1>2, PageSizeAssumption, FS_EmptySet DEF HasNextPage
  <2>3. PICK m \in rows : \A d \in rows : table[m] <= table[d]
    <3> DEFINE T == {table[c] : c \in rows}
    <3>1. T \in SUBSET Nat /\ T # {}
      BY <2>1, <2>2
    <3>2. PICK t \in T : \A y \in T : t <= y
      BY <3>1, LeastNatural
    <3> QED BY <3>2
  <2>4. {d \in rows : table[d] <= table[m]} = {m}
    BY <2>1, <2>3 DEF Distinct
  <2>5. Place(table, after, m) = 1
    BY <2>4, FS_Singleton DEF Place
  <2>6. m \in page
    BY <2>5, PageSizeAssumption DEF Page
  <2>7. \A c \in page : c \in rows
    BY DEF Page
  <2>8. PICK c \in page : \A d \in page : table[d] <= table[c]
    <3> DEFINE T == {table[d] : d \in page}
    <3>1. T \in SUBSET Nat /\ T # {} /\ \A t \in T : t <= top
      BY <2>1, <2>6, <2>7
    <3>2. PICK t \in T : \A y \in T : y <= t
      BY <3>1, GreatestNatural
    <3> QED BY <3>2
  <2>9. IsNextToken(table, after, table[c]) /\ c \in Codes
    BY <1>2, <2>1, <2>7, <2>8 DEF IsNextToken
  <2> QED BY <2>9
<1> QED BY <1>1, <1>2

----------------------------------------------------------------------------
(***************************************************************************)
(* The store                                                               *)
(***************************************************************************)

LEMMA ListingInit == Init => ListingInv
<1> SUFFICES ASSUME Init PROVE ListingInv
  OBVIOUS
<1> USE DEF Init, NoRows
<1>1. TypeOK
  <2>1. log \in Seq(Command) /\ pageHistory \in Seq(Nat \ {0})
    OBVIOUS
  <2>2. ids \in [Pods -> Table] /\ snapshot \in [Pods -> [index : Nat, ids : Table]]
    BY DEF Table
  <2>3. applied \in [Pods -> Nat] /\ sequence \in [Pods -> Nat]
    OBVIOUS
  <2>4. /\ restarts \in 0..MaxRestarts /\ loads \in 0..MaxLoads
        /\ currentToken \in Nat /\ nextPageToken \in Nat
    BY BoundsAssumption
  <2>6. answered \in BOOLEAN /\ repeated \in BOOLEAN
    OBVIOUS
  <2>5. /\ requests \subseteq Request /\ answers \subseteq Answer
        /\ steady \in SUBSET Codes /\ seen \in SUBSET Codes
    OBVIOUS
  <2> HIDE DEF Init
  <2> QED BY <2>1, <2>2, <2>3, <2>4, <2>5, <2>6 DEF TypeOK
<1>2. RowsNumbered /\ SnapshotsDistinct
  BY DEF RowsNumbered, SnapshotsDistinct, Distinct
<1>3. UnopenedInv /\ SteadyInv /\ AnswersInv /\ PagesAdvance /\ NoURLSkipped
  BY DEF UnopenedInv, SteadyInv, AnswersInv, PagesAdvance, NoURLSkipped
<1> QED BY <1>1, <1>2, <1>3 DEF ListingInv

\* The rows of each pod have ids of their own, up to its sqlite_sequence.
Numbered(table, top) == (\A c \in Codes : table[c] <= top) /\ Distinct(table)

LEMMA NumberedRows == RowsNumbered <=> \A p \in Pods : Numbered(ids[p], sequence[p])
  BY DEF RowsNumbered, Numbered

\* What a step may do to the tables of the pods: the rows that stay steady keep
\* their ids, and the rows of a pod keep ids of their own.
TablesMove ==
    /\ ids' \in [Pods -> Table] /\ sequence' \in [Pods -> Nat]
    /\ RowsNumbered'
    /\ steady' \subseteq steady
    /\ \A c \in steady', q \in Pods : ids'[q][c] = ids[q][c]

LEMMA TableReplaced ==
  ASSUME TypeOK, RowsNumbered, NEW p \in Pods, NEW table \in Table, NEW top \in Nat,
         Numbered(table, top), Changes(p, table), sequence' = [sequence EXCEPT ![p] = top]
  PROVE  TablesMove
<1>1. /\ ids \in [Pods -> Table] /\ sequence \in [Pods -> Nat]
      /\ ids' = [ids EXCEPT ![p] = table] /\ steady' = {c \in steady : table[c] = ids[p][c]}
  BY DEF TypeOK, Changes
<1>2. ids' \in [Pods -> Table] /\ sequence' \in [Pods -> Nat]
  BY <1>1
<1>3. \A q \in Pods : /\ ids'[q] = IF q = p THEN table ELSE ids[q]
                      /\ sequence'[q] = IF q = p THEN top ELSE sequence[q]
  BY <1>1
<1>4. \A q \in Pods : Numbered(ids[q], sequence[q])
  BY NumberedRows
<1>5. RowsNumbered'
  <2>1. \A q \in Pods : Numbered(ids'[q], sequence'[q])
    BY <1>3, <1>4
  <2> QED BY <2>1 DEF RowsNumbered, Numbered, Distinct
<1>6. steady' \subseteq steady /\ \A c \in steady', q \in Pods : ids'[q][c] = ids[q][c]
  BY <1>1, <1>3
<1> QED BY <1>2, <1>5, <1>6 DEF TablesMove

LEMMA TablesStay ==
  ASSUME TypeOK, RowsNumbered, UNCHANGED <<ids, sequence, steady>>
  PROVE  TablesMove
BY DEF TablesMove, TypeOK, RowsNumbered

LEMMA EntryType ==
  ASSUME TypeOK, NEW p \in Pods, applied[p] < Len(log)
  PROVE  log[applied[p] + 1] \in Command /\ log[applied[p] + 1].code \in Codes
<1>1. log \in Seq(Command) /\ applied[p] \in Nat
  BY DEF TypeOK
<1>2. applied[p] + 1 \in 1..Len(log)
  BY <1>1
<1>3. log[applied[p] + 1] \in Command
  BY <1>1, <1>2
<1> QED BY <1>3 DEF Command

\* A new row gets the id that follows all others of its pod.
LEMMA InsertMoves ==
  ASSUME TypeOK, RowsNumbered, NEW p \in Pods, applied[p] < Len(log), Insert(p)
  PROVE  TablesMove
<1> DEFINE c == log[applied[p] + 1].code
<1>1. c \in Codes
  BY EntryType
<1>2. CASE ids[p][c] # 0
  BY <1>2, TablesStay DEF Insert
<1>3. CASE ids[p][c] = 0
  <2>1. ids[p] \in Table /\ sequence[p] \in Nat /\ Numbered(ids[p], sequence[p])
    BY NumberedRows DEF TypeOK
  <2>2. PICK top \in {0} \cup {ids[p][d] : d \in Codes} :
          /\ sequence' = [sequence EXCEPT ![p] = Raised(p, top) + 1]
          /\ Changes(p, [ids[p] EXCEPT ![c] = Raised(p, top) + 1])
    BY <1>3 DEF Insert
  <2>3. Raised(p, top) = sequence[p]
    BY <2>1 DEF Raised, Numbered, Table
  <2> DEFINE table == [ids[p] EXCEPT ![c] = sequence[p] + 1]
  <2>4. sequence' = [sequence EXCEPT ![p] = sequence[p] + 1] /\ Changes(p, table)
    BY <2>2, <2>3
  <2>5. table \in Table /\ sequence[p] + 1 \in Nat
    BY <1>1, <2>1 DEF Table
  <2>6. Numbered(table, sequence[p] + 1)
    BY <1>1, <2>1 DEF Numbered, Distinct, Table
  <2> HIDE DEF table
  <2> QED BY <2>4, <2>5, <2>6, TableReplaced
<1> QED BY <1>2, <1>3

LEMMA DeleteMoves ==
  ASSUME TypeOK, RowsNumbered, NEW p \in Pods, applied[p] < Len(log), Delete(p)
  PROVE  TablesMove
<1> DEFINE c == log[applied[p] + 1].code
           table == [ids[p] EXCEPT ![c] = 0]
<1>1. c \in Codes
  BY EntryType
<1>2. ids[p] \in Table /\ sequence[p] \in Nat /\ Numbered(ids[p], sequence[p])
  BY NumberedRows DEF TypeOK
<1>3. sequence' = [sequence EXCEPT ![p] = sequence[p]] /\ Changes(p, table)
  BY DEF Delete, TypeOK
<1>4. table \in Table
  BY <1>1, <1>2 DEF Table
<1>5. Numbered(table, sequence[p])
  BY <1>1, <1>2 DEF Numbered, Distinct, Table
<1> HIDE DEF table
<1> QED BY <1>2, <1>3, <1>4, <1>5, TableReplaced

LEMMA RestoreMoves ==
  ASSUME TypeOK, RowsNumbered, NEW p \in Pods, NEW table \in Table, Distinct(table),
         Restore(p, table)
  PROVE  TablesMove
<1>1. PICK top \in {0} \cup {table[c] : c \in Codes} :
        IsTop(table, top) /\ sequence' = [sequence EXCEPT ![p] = Raised(p, top)]
  BY DEF Restore
<1> DEFINE new == Raised(p, top)
<1>2. top \in Nat /\ sequence[p] \in Nat /\ \A c \in Codes : table[c] \in Nat
  BY <1>1 DEF Table, TypeOK, IsTop
<1>3. new \in Nat /\ \A c \in Codes : table[c] <= new
  <2>1. new \in Nat /\ top <= new
    BY <1>2 DEF Raised
  <2> HIDE DEF new
  <2> QED BY <1>1, <1>2, <2>1 DEF IsTop
<1>4. sequence' = [sequence EXCEPT ![p] = new] /\ Changes(p, table)
  BY <1>1 DEF Restore
<1> HIDE DEF new
<1>5. Numbered(table, new)
  BY <1>3 DEF Numbered
<1> QED BY <1>3, <1>4, <1>5, TableReplaced

----------------------------------------------------------------------------
(***************************************************************************)
(* The page                                                                *)
(***************************************************************************)

\* What the page holds stays true of the rows that stay steady.
LEMMA PageStays ==
  ASSUME ListingInv, TablesMove, UNCHANGED <<pageVars, fetchVars, seen>>
  PROVE  UnopenedInv' /\ SteadyInv' /\ AnswersInv' /\ PagesAdvance' /\ NoURLSkipped'
<1> USE DEF ListingInv, TablesMove, pageVars, fetchVars
<1>1. UnopenedInv'
  BY DEF UnopenedInv
<1>2. SteadyInv'
  <2> SUFFICES ASSUME NEW c \in steady', NEW p \in Pods, NEW q \in Pods
               PROVE  c \in Codes /\ ids'[p][c] = ids'[q][c] /\ ids'[p][c] # 0
    BY DEF SteadyInv, SameEverywhere, TypeOK
  <2> QED BY DEF SteadyInv, SameEverywhere
<1>3. AnswersInv' /\ PagesAdvance'
  BY DEF AnswersInv, PagesAdvance
<1>4. Tokens' = Tokens
  BY DEF Tokens
<1>5. NoURLSkipped'
  BY <1>4 DEF NoURLSkipped
<1> QED BY <1>1, <1>2, <1>3, <1>5

\* A token that the page asks with, and keeps, is one it had or that of the first
\* page: neither misses a URL.
LEMMA LoadKeeps ==
  ASSUME ListingInv, NEW token \in Tokens \cup {0}, NEW history \in Seq(Nat \ {0}),
         \A i \in 1..Len(history) : history[i] \in Tokens,
         Load(token, history), UNCHANGED steady
  PROVE  ListingInv'
<1> USE DEF ListingInv
<1>1. /\ UNCHANGED <<storeVars, nextPageToken, answers, answered, seen>>
      /\ currentToken' = token /\ pageHistory' = history /\ loads' = loads + 1
      /\ loads < MaxLoads
  BY DEF Load
<1>2. PICK n \in Nat : requests' = requests \cup {[load |-> n, token |-> token]}
  BY DEF Load
<1>3. UNCHANGED <<log, applied, ids, sequence, snapshot, restarts, repeated>>
  BY <1>1 DEF storeVars
<1>4. token \in Nat
  BY DEF Tokens, TypeOK, Request, Answer
<1>5. TypeOK'
  <2>1. requests' \subseteq Request
    BY <1>2, <1>4 DEF TypeOK, Request
  <2>2. loads' \in 0..MaxLoads
    BY <1>1, BoundsAssumption DEF TypeOK
  <2> QED BY <1>1, <1>3, <1>4, <2>1, <2>2 DEF TypeOK
<1>6. RowsNumbered' /\ SnapshotsDistinct' /\ SteadyInv' /\ AnswersInv' /\ PagesAdvance'
  BY <1>1, <1>3
    DEF RowsNumbered, SnapshotsDistinct, SteadyInv, SameEverywhere, AnswersInv,
        PagesAdvance
<1>7. UnopenedInv'
  BY <1>1, BoundsAssumption DEF UnopenedInv, TypeOK
<1>8. Tokens' \subseteq Tokens \cup {0}
  <2>1. \A i \in 1..Len(pageHistory') : pageHistory'[i] \in Tokens
    BY <1>1
  <2>2. \A r \in requests' : r.token \in Tokens \cup {0}
    <3>1. \A r \in requests : r.token \in Tokens
      BY DEF Tokens
    <3> QED BY <1>2, <3>1
  <2>3. nextPageToken \in Tokens /\ \A a \in answers : a.token \in Tokens
    BY DEF Tokens
  <2>4. ASSUME NEW t \in Tokens'
        PROVE  \/ t \in {currentToken', nextPageToken'}
               \/ \E i \in 1..Len(pageHistory') : t = pageHistory'[i]
               \/ \E r \in requests' : t = r.token
               \/ \E a \in answers' : t = a.token
    BY DEF Tokens
  <2> QED BY <1>1, <2>1, <2>2, <2>3, <2>4
<1>9. NoURLSkipped'
  <2> SUFFICES ASSUME NEW c \in steady, NEW p \in Pods
               PROVE  /\ (\E t \in Tokens' : ids[p][c] <= t) => c \in seen
                      /\ (answered /\ nextPageToken = 0) => c \in seen
    BY <1>1, <1>3 DEF NoURLSkipped
  <2>1. ids[p][c] \in Nat /\ ids[p][c] # 0
    BY DEF SteadyInv, SameEverywhere, TypeOK, Table
  <2> QED BY <1>8, <2>1 DEF NoURLSkipped
<1> QED BY <1>5, <1>6, <1>7, <1>9

LEMMA MountKeeps ==
  ASSUME ListingInv, Mount
  PROVE  ListingInv'
<1> USE DEF ListingInv
<1>1. /\ UNCHANGED <<storeVars, nextPageToken, answers, answered, seen>>
      /\ currentToken' = 0 /\ pageHistory' = <<>> /\ loads' = 1 /\ 0 < MaxLoads
      /\ steady' = SameEverywhere(ids)
  BY DEF Mount, Load
<1>2. PICK n \in Nat : requests' = requests \cup {[load |-> n, token |-> 0]}
  BY DEF Mount, Load
<1>3. /\ requests = {} /\ answers = {} /\ nextPageToken = 0 /\ ~answered
      /\ UNCHANGED <<log, applied, ids, sequence, snapshot, restarts, repeated>>
  BY <1>1 DEF storeVars, UnopenedInv, Mount
<1>4. TypeOK'
  <2>1. requests' \subseteq Request /\ steady' \in SUBSET Codes
    BY <1>1, <1>2 DEF TypeOK, Request, SameEverywhere
  <2>2. loads' \in 0..MaxLoads /\ pageHistory' \in Seq(Nat \ {0}) /\ currentToken' \in Nat
    BY <1>1, BoundsAssumption
  <2> QED BY <1>1, <1>3, <2>1, <2>2 DEF TypeOK
<1>5. RowsNumbered' /\ SnapshotsDistinct' /\ SteadyInv' /\ AnswersInv' /\ PagesAdvance'
  BY <1>1, <1>3
    DEF RowsNumbered, SnapshotsDistinct, SteadyInv, SameEverywhere, AnswersInv,
        PagesAdvance
<1>6. UnopenedInv'
  BY <1>1 DEF UnopenedInv
<1>7. Tokens' = {0}
  BY <1>1, <1>2, <1>3 DEF Tokens
<1>8. NoURLSkipped'
  BY <1>1, <1>3, <1>7 DEF NoURLSkipped, SameEverywhere, TypeOK, Table
<1> QED BY <1>4, <1>5, <1>6, <1>8

\* A list that is made covers the rows up to the token it gives out.
LEMMA ListKeeps ==
  ASSUME ListingInv, NEW p \in Pods, NEW r \in requests, ListURLsWithStats(p, r)
  PROVE  ListingInv'
<1> USE DEF ListingInv
<1>1. /\ UNCHANGED <<storeVars, pageVars, loads, answered, steady, seen>>
      /\ requests' = requests \ {r}
  BY DEF ListURLsWithStats
<1>2. PICK token \in {0} \cup {ids[p][c] : c \in Codes} :
        /\ IsNextToken(ids[p], r.token, token)
        /\ answers' = answers \cup
             {[load |-> r.load, token |-> r.token, urls |-> Page(ids[p], r.token), next |-> token]}
  BY DEF ListURLsWithStats
<1> DEFINE new == [load |-> r.load, token |-> r.token, urls |-> Page(ids[p], r.token),
                   next |-> token]
<1>3. UNCHANGED <<log, applied, ids, sequence, snapshot, restarts, repeated, currentToken,
                  nextPageToken, pageHistory>>
  BY <1>1 DEF storeVars, pageVars
<1>4. r.load \in Nat /\ r.token \in Nat /\ ids[p] \in Table /\ token \in Nat
  BY DEF TypeOK, Request, Table
<1>5. new \in Answer /\ answers' = answers \cup {new}
  BY <1>2, <1>4 DEF Answer, Page, RowsAfter
<1>6. new.token = r.token /\ new.next = token /\ new.urls = Page(ids[p], r.token)
  OBVIOUS
<1> HIDE DEF new
<1>7. TypeOK'
  <2>1. requests' \subseteq Request /\ answers' \subseteq Answer
    BY <1>1, <1>5 DEF TypeOK
  <2> QED BY <1>1, <1>3, <2>1 DEF TypeOK
<1>8. RowsNumbered' /\ SnapshotsDistinct' /\ SteadyInv'
  BY <1>1, <1>3 DEF RowsNumbered, SnapshotsDistinct, SteadyInv, SameEverywhere
<1>9. UnopenedInv'
  BY <1>1 DEF UnopenedInv
<1>10. AnswersInv'
  <2> SUFFICES ASSUME NEW a \in answers', NEW c \in steady \ a.urls, NEW q \in Pods
               PROVE  ids[q][c] <= a.token \/ (a.next # 0 /\ a.next < ids[q][c])
    BY <1>1, <1>3 DEF AnswersInv
  <2>1. CASE a \in answers
    BY <2>1 DEF AnswersInv
  <2>2. CASE a = new
    <3>1. c \in Codes /\ ids[q][c] = ids[p][c]
      BY DEF SteadyInv, SameEverywhere
    <3>2. c \notin Page(ids[p], r.token)
      BY <1>6, <2>2
    <3>3. ids[p][c] <= r.token \/ (token # 0 /\ token < ids[p][c])
      BY <1>2, <1>4, <3>1, <3>2, PageCovers
    <3> QED BY <1>6, <2>2, <3>1, <3>3
  <2> QED BY <1>5, <2>1, <2>2
<1>11. PagesAdvance'
  <2>1. new.next # 0 => new.token < new.next
    BY <1>2, <1>4, <1>6, PageAdvances
  <2> QED BY <1>5, <2>1 DEF PagesAdvance
<1>12. Tokens' \subseteq Tokens
  BY <1>1, <1>3, <1>5, <1>6 DEF Tokens
<1>13. NoURLSkipped'
  BY <1>1, <1>3, <1>12 DEF NoURLSkipped
<1> QED BY <1>7, <1>8, <1>9, <1>10, <1>11, <1>13

\* A list that is shown goes on from a token up to which all was shown.
LEMMA ReceiveKeeps ==
  ASSUME ListingInv, NEW a \in answers, Receive(a)
  PROVE  ListingInv'
<1> USE DEF ListingInv
<1>1. /\ UNCHANGED <<storeVars, currentToken, pageHistory, requests, loads, steady>>
      /\ answers' = answers \ {a} /\ nextPageToken' = a.next /\ answered' = TRUE
      /\ seen' = seen \cup (a.urls \cap steady)
  BY DEF Receive
<1>2. UNCHANGED <<log, applied, ids, sequence, snapshot, restarts, repeated>>
  BY <1>1 DEF storeVars
<1>3. a.token \in Nat /\ a.next \in Nat /\ a.urls \in SUBSET Codes
  BY DEF TypeOK, Answer
<1>4. TypeOK'
  <2>1. seen' \in SUBSET Codes /\ answers' \subseteq Answer /\ nextPageToken' \in Nat
    BY <1>1, <1>3 DEF TypeOK
  <2>2. answered' \in BOOLEAN
    BY <1>1
  <2> QED BY <1>1, <1>2, <2>1, <2>2 DEF TypeOK
<1>5. RowsNumbered' /\ SnapshotsDistinct' /\ SteadyInv' /\ AnswersInv' /\ PagesAdvance'
  BY <1>1, <1>2
    DEF RowsNumbered, SnapshotsDistinct, SteadyInv, SameEverywhere, AnswersInv,
        PagesAdvance
<1>6. UnopenedInv'
  BY <1>1 DEF UnopenedInv
<1>7. Tokens' \subseteq Tokens \cup {a.next} /\ a.token \in Tokens
  BY <1>1 DEF Tokens
<1>8. NoURLSkipped'
  <2> SUFFICES ASSUME NEW c \in steady, NEW p \in Pods, c \notin seen, c \notin a.urls
               PROVE  /\ \A t \in Tokens' : ~(ids[p][c] <= t)
                      /\ a.next # 0
    BY <1>1, <1>2 DEF NoURLSkipped
  <2>1. ids[p][c] \in Nat
    BY DEF TypeOK, Table
  <2>2. \A t \in Tokens : ~(ids[p][c] <= t)
    BY DEF NoURLSkipped
  <2>3. a.next # 0 /\ a.next < ids[p][c]
    BY <1>7, <2>2 DEF AnswersInv
  <2> QED BY <1>3, <1>7, <2>1, <2>2, <2>3
<1> QED BY <1>4, <1>5, <1>6, <1>8

LEMMA LoadFailsKeeps ==
  ASSUME ListingInv, NEW r \in requests, LoadFails(r)
  PROVE  ListingInv'
<1> USE DEF ListingInv
<1>1. /\ UNCHANGED <<storeVars, pageVars, answers, loads, answered, steady, seen>>
      /\ requests' \subseteq requests
  BY DEF LoadFails
<1>2. UNCHANGED <<log, applied, ids, sequence, snapshot, restarts, repeated, currentToken,
                  nextPageToken, pageHistory>>
  BY <1>1 DEF storeVars, pageVars
<1>3. TypeOK'
  BY <1>1, <1>2 DEF TypeOK
<1>4. RowsNumbered' /\ SnapshotsDistinct' /\ SteadyInv' /\ AnswersInv' /\ PagesAdvance'
  BY <1>1, <1>2
    DEF RowsNumbered, SnapshotsDistinct, SteadyInv, SameEverywhere, AnswersInv,
        PagesAdvance
<1>5. UnopenedInv'
  BY <1>1, <1>2 DEF UnopenedInv
<1>6. Tokens' \subseteq Tokens
  BY <1>1, <1>2 DEF Tokens
<1>7. NoURLSkipped'
  BY <1>1, <1>2, <1>6 DEF NoURLSkipped
<1> QED BY <1>3, <1>4, <1>5, <1>7

----------------------------------------------------------------------------
(***************************************************************************)
(* Every step                                                              *)
(***************************************************************************)

\* A step of the store of a pod, or a commit.
LEMMA StoreKeeps ==
  ASSUME ListingInv, TablesMove, UNCHANGED <<pageVars, fetchVars, seen>>,
         log' \in Seq(Command), applied' \in [Pods -> Nat],
         snapshot' \in [Pods -> [index : Nat, ids : Table]], restarts' \in 0..MaxRestarts,
         repeated' \in BOOLEAN, \A p \in Pods : Distinct(snapshot'[p].ids)
  PROVE  ListingInv'
<1>1. TypeOK'
  <2>1. UNCHANGED <<currentToken, nextPageToken, pageHistory, requests, answers, loads,
                    answered, seen>>
    BY DEF pageVars, fetchVars
  <2> QED BY <2>1 DEF ListingInv, TypeOK, TablesMove
<1>2. RowsNumbered' /\ SnapshotsDistinct'
  BY DEF TablesMove, SnapshotsDistinct, Distinct
<1> QED BY <1>1, <1>2, PageStays DEF ListingInv

LEMMA PodStepKeeps ==
  ASSUME ListingInv, NEW p \in Pods, PodStep(p)
  PROVE  ListingInv'
<1>1. TypeOK /\ RowsNumbered /\ SnapshotsDistinct
  BY DEF ListingInv
<1>2. /\ log \in Seq(Command) /\ applied \in [Pods -> Nat] /\ restarts \in 0..MaxRestarts
      /\ repeated \in BOOLEAN
      /\ ids \in [Pods -> Table] /\ snapshot \in [Pods -> [index : Nat, ids : Table]]
  BY <1>1 DEF TypeOK
<1>3. \A q \in Pods : /\ Distinct(snapshot[q].ids) /\ Distinct(ids[q])
                      /\ snapshot[q].index \in Nat /\ snapshot[q].ids \in Table
  BY <1>1, <1>2, NumberedRows DEF SnapshotsDistinct, Numbered
<1>4. CASE Apply(p)
  <2>1. /\ UNCHANGED <<log, snapshot, restarts, repeated, pageVars, fetchVars, seen>>
        /\ applied' \in [Pods -> Nat]
    BY <1>2, <1>4 DEF Apply
  <2>2. TablesMove
    BY <1>1, <1>4, InsertMoves, DeleteMoves DEF Apply
  <2> QED BY <1>2, <1>3, <2>1, <2>2, StoreKeeps
<1>5. CASE TakeSnapshot(p)
  <2>1. UNCHANGED <<log, applied, ids, sequence, restarts, repeated, pageVars,
                  fetchVars, steady, seen>>
    BY <1>5 DEF TakeSnapshot
  <2>2. snapshot' = [snapshot EXCEPT ![p] = [index |-> applied[p], ids |-> ids[p]]]
    BY <1>5 DEF TakeSnapshot
  <2>3. /\ snapshot' \in [Pods -> [index : Nat, ids : Table]]
        /\ \A q \in Pods : snapshot'[q].ids \in {snapshot[q].ids, ids[q]}
    BY <1>2, <2>2
  <2>4. TablesMove
    BY <1>1, <2>1, TablesStay
  <2> QED BY <1>2, <1>3, <2>1, <2>3, <2>4, StoreKeeps
<1>6. ASSUME NEW q \in Pods, InstallSnapshot(p, q) PROVE ListingInv'
  <2>1. /\ UNCHANGED <<log, restarts, repeated, pageVars, fetchVars, seen>>
        /\ applied' \in [Pods -> Nat]
    BY <1>2, <1>3, <1>6 DEF InstallSnapshot
  <2>2. snapshot' = [snapshot EXCEPT ![p] = snapshot[q]]
    BY <1>6 DEF InstallSnapshot
  <2>3. /\ snapshot' \in [Pods -> [index : Nat, ids : Table]]
        /\ \A o \in Pods : snapshot'[o] \in {snapshot[o], snapshot[q]}
    BY <1>2, <2>2
  <2>4. TablesMove
    BY <1>1, <1>3, <1>6, RestoreMoves DEF InstallSnapshot
  <2> QED BY <1>2, <1>3, <2>1, <2>3, <2>4, StoreKeeps
<1>7. CASE Restart(p)
  <2>1. /\ UNCHANGED <<log, snapshot, pageVars, fetchVars, seen>>
        /\ applied' \in [Pods -> Nat] /\ restarts' \in 0..MaxRestarts /\ repeated' \in BOOLEAN
    BY <1>2, <1>3, <1>7, BoundsAssumption DEF Restart
  <2>2. TablesMove
    BY <1>1, <1>3, <1>7, TablesStay, RestoreMoves DEF Restart
  <2> QED BY <1>2, <1>3, <2>1, <2>2, StoreKeeps
<1>8. ASSUME NEW r \in requests, ListURLsWithStats(p, r) PROVE ListingInv'
  BY <1>8, ListKeeps
<1> QED BY <1>4, <1>5, <1>6, <1>7, <1>8 DEF PodStep

\* What SubSeq leaves of a sequence without its last element.
LEMMA FrontProperties ==
  ASSUME NEW S, NEW s \in Seq(S), s # <<>>
  PROVE  /\ Len(s) \in 1..Len(s)
         /\ SubSeq(s, 1, Len(s) - 1) \in Seq(S)
         /\ \A i \in 1..Len(SubSeq(s, 1, Len(s) - 1)) :
              SubSeq(s, 1, Len(s) - 1)[i] = s[i] /\ i \in 1..Len(s)
<1> DEFINE n == Len(s) - 1
           front == SubSeq(s, 1, n)
<1>1. Len(s) \in Nat /\ Len(s) >= 1
  OBVIOUS
<1>2. \A i \in 1..n : s[i] \in S
  BY <1>1
<1>3. 1 \in Int /\ n \in Int
  BY <1>1
<1> HIDE DEF n
<1>4. /\ front \in Seq(S) /\ Len(front) = IF 1 <= n THEN n - 1 + 1 ELSE 0
      /\ \A i \in 1..(n - 1 + 1) : front[i] = s[1 + i - 1]
  BY <1>2, <1>3, SubSeqProperties
<1> HIDE DEF front
<1>5. n \in Nat /\ n <= Len(s)
  BY <1>1 DEF n
<1>6. Len(front) = n
  BY <1>4, <1>5
<1>7. \A i \in 1..n : i \in 1..(n - 1 + 1) /\ 1 + i - 1 = i /\ i \in 1..Len(s)
  BY <1>1, <1>5
<1>8. \A i \in 1..Len(front) : front[i] = s[i] /\ i \in 1..Len(s)
  BY <1>4, <1>6, <1>7
<1> QED BY <1>1, <1>4, <1>8 DEF front, n

LEMMA PageStepKeeps ==
  ASSUME ListingInv, PageStep
  PROVE  ListingInv'
<1>1. TypeOK
  BY DEF ListingInv
<1>2. /\ currentToken \in Nat /\ nextPageToken \in Nat /\ pageHistory \in Seq(Nat \ {0})
      /\ \A i \in 1..Len(pageHistory) : pageHistory[i] \in Tokens
      /\ currentToken \in Tokens /\ nextPageToken \in Tokens
  BY <1>1 DEF TypeOK, Tokens
<1>3. CASE Mount
  BY <1>3, MountKeeps
<1>4. CASE Reload
  BY <1>2, <1>4, LoadKeeps DEF Reload
<1>5. CASE GoNext
  <2> DEFINE history == IF currentToken # 0 THEN Append(pageHistory, currentToken) ELSE pageHistory
  <2>1. history \in Seq(Nat \ {0})
    BY <1>2
  <2>2. \A i \in 1..Len(history) : history[i] \in Tokens
    BY <1>2
  <2>3. Load(nextPageToken, history) /\ UNCHANGED steady
    BY <1>5 DEF GoNext
  <2> HIDE DEF history
  <2> QED BY <1>2, <2>1, <2>2, <2>3, LoadKeeps
<1>6. CASE GoPrev
  <2> DEFINE history == SubSeq(pageHistory, 1, Len(pageHistory) - 1)
  <2>1. pageHistory # <<>>
    BY <1>6 DEF GoPrev
  <2>2. /\ Len(pageHistory) \in 1..Len(pageHistory)
        /\ history \in Seq(Nat \ {0})
        /\ \A i \in 1..Len(history) :
             history[i] = pageHistory[i] /\ i \in 1..Len(pageHistory)
    BY <1>2, <2>1, FrontProperties
  <2>3. Load(pageHistory[Len(pageHistory)], history) /\ UNCHANGED steady
    BY <1>6 DEF GoPrev
  <2> HIDE DEF history
  <2> QED BY <1>2, <2>2, <2>3, LoadKeeps
<1>7. CASE GoFirst
  <2>1. /\ <<>> \in Seq(Nat \ {0}) /\ 0 \in Tokens \cup {0}
        /\ \A i \in 1..Len(<<>>) : <<>>[i] \in Tokens
    OBVIOUS
  <2>2. Load(0, <<>>) /\ UNCHANGED steady
    BY <1>7 DEF GoFirst
  <2> QED BY <2>1, <2>2, LoadKeeps
<1>8. ASSUME NEW a \in answers, Receive(a) PROVE ListingInv'
  BY <1>8, ReceiveKeeps
<1>9. ASSUME NEW r \in requests, LoadFails(r) PROVE ListingInv'
  BY <1>9, LoadFailsKeeps
<1> QED BY <1>3, <1>4, <1>5, <1>6, <1>7, <1>8, <1>9 DEF PageStep

LEMMA ListingStep == ListingInv /\ [Next]_vars => ListingInv'
<1> SUFFICES ASSUME ListingInv, [Next]_vars PROVE ListingInv'
  OBVIOUS
<1>1. TypeOK /\ RowsNumbered /\ SnapshotsDistinct
  BY DEF ListingInv
<1>2. ASSUME NEW cmd \in Command, Commit(cmd) PROVE ListingInv'
  <2>1. UNCHANGED <<applied, ids, sequence, snapshot, restarts, repeated, pageVars,
                  fetchVars, steady, seen>>
    BY <1>2 DEF Commit
  <2>2. log' \in Seq(Command)
    BY <1>1, <1>2 DEF Commit, TypeOK
  <2>3. TablesMove
    BY <1>1, <2>1, TablesStay
  <2> QED BY <1>1, <2>1, <2>2, <2>3, StoreKeeps DEF TypeOK, SnapshotsDistinct
<1>3. ASSUME NEW p \in Pods, PodStep(p) PROVE ListingInv'
  BY <1>3, PodStepKeeps
<1>4. CASE PageStep
  BY <1>4, PageStepKeeps
<1>5. CASE UNCHANGED vars
  <2>1. UNCHANGED <<storeVars, pageVars, fetchVars, steady, seen>>
    BY <1>5 DEF vars
  <2>2. UNCHANGED <<log, applied, ids, sequence, snapshot, restarts, repeated>>
    BY <2>1 DEF storeVars
  <2>3. TablesMove
    BY <1>1, <2>1, <2>2, TablesStay
  <2> QED BY <1>1, <2>1, <2>2, <2>3, StoreKeeps DEF TypeOK, SnapshotsDistinct
<1> QED BY <1>2, <1>3, <1>4, <1>5 DEF Next

----------------------------------------------------------------------------
(***************************************************************************)
(* Theorems                                                                *)
(***************************************************************************)

\* The inductive invariant: rows have ids of their own, and each token of the
\* page, each list on its way included, comes after rows that were shown only.
THEOREM ListingInvariant == Spec => []ListingInv
BY ListingInit, ListingStep, PTL DEF Spec

\* The variables of the stores and of the page keep their types.
THEOREM ListingTypeCorrect == Spec => []TypeOK
<1>1. ListingInv => TypeOK
  BY DEF ListingInv
<1> QED BY <1>1, ListingInvariant, PTL

\* Who pages through the list misses no URL that was there all the time.
THEOREM NoURLSkippedTheorem == Spec => []NoURLSkipped
<1>1. ListingInv => NoURLSkipped
  BY DEF ListingInv
<1> QED BY <1>1, ListingInvariant, PTL

\* No list that is asked for leaves its handler without an answer to give, and one
\* that says there is more gives a token beyond the one it was asked with.
THEOREM ListsPossibleTheorem == Spec => [](ListsPossible /\ PagesAdvance)
<1>1. ASSUME ListingInv PROVE ListsPossible /\ PagesAdvance
  <2> SUFFICES ASSUME NEW p \in Pods, NEW r \in requests
               PROVE  \E token \in {0} \cup {ids[p][c] : c \in Codes} :
                         IsNextToken(ids[p], r.token, token)
    BY <1>1 DEF ListingInv, ListsPossible
  <2>1. Numbered(ids[p], sequence[p])
    BY <1>1, NumberedRows DEF ListingInv
  <2>2. ids[p] \in Table /\ sequence[p] \in Nat /\ r.token \in Nat
    BY <1>1 DEF ListingInv, TypeOK, Request
  <2> QED BY <2>1, <2>2, TokenExists DEF Numbered
<1> QED BY <1>1, ListingInvariant, PTL
=============================================================================
