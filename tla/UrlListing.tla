----------------------------- MODULE UrlListing -----------------------------
(***************************************************************************)
(* Paging through the URLs: ListURLsWithStats (ListURLs pages alike) on    *)
(* pods that number their rows by themselves, and the page of the admin UI *)
(* that asks for the lists (adminui/src/routes/+page.svelte).              *)
(*                                                                         *)
(* Of the table urls this module has the id, which UrlDatabase leaves out: *)
(* AUTOINCREMENT keeps the largest id ever given in sqlite_sequence, which *)
(* no snapshot has and which Restore leaves as it is.  A list is asked of  *)
(* the subset leader, but labels lag: any pod may answer.  The browser,    *)
(* Envoy and raft are external: answers get lost and overtake each other.  *)
(***************************************************************************)
EXTENDS Naturals, Sequences, FiniteSets

CONSTANTS
    Pods,
    Codes,
    PageSize,     \* rows of a page
    MaxLog,       \* bound: committed commands
    MaxRestarts,  \* bound: restarts, of all pods together
    MaxLoads,     \* bound: lists asked for
    MaxOpen       \* bound: lists asked for and not answered

ASSUME PageSizeAssumption == PageSize \in Nat \ {0}
ASSUME CodesAssumption == IsFiniteSet(Codes)
ASSUME BoundsAssumption ==
    MaxLog \in Nat /\ MaxRestarts \in Nat /\ MaxLoads \in Nat /\ MaxOpen \in Nat

VARIABLES
    log,            \* the committed commands
    applied,        \* how many of them a pod has applied since it started
    ids,            \* the id of each code in a pod's table, 0 for no row
    sequence,       \* a pod's sqlite_sequence
    snapshot,       \* a pod's latest snapshot
    restarts,       \* counts the restarts
    repeated,       \* a pod has applied entries to a file that had them already
    currentToken,   \* the state of the page; token 0 is the empty string
    nextPageToken,
    pageHistory,
    requests,       \* lists asked for and not yet made
    answers,        \* lists made and not yet received
    loads,          \* counts the lists asked for
    answered,       \* a list has been received
    steady,         \* codes with one id on all pods ever since the page was opened
    seen            \* those of them that were shown

storeVars == <<log, applied, ids, sequence, snapshot, restarts, repeated>>
pageVars == <<currentToken, nextPageToken, pageHistory>>
fetchVars == <<requests, answers, loads, answered>>
vars == <<storeVars, pageVars, fetchVars, steady, seen>>

Command == [type : {"CmdShortenURL", "CmdDeleteURL"}, code : Codes]
Table == [Codes -> Nat]
NoRows == [c \in Codes |-> 0]
Request == [load : Nat, token : Nat]
Answer == [load : Nat, token : Nat, urls : SUBSET Codes, next : Nat]

\* The codes that have the same id on all pods.
SameEverywhere(table) ==
    {c \in Codes : \A p, q \in Pods : table[p][c] = table[q][c] /\ table[p][c] # 0}

Init ==
    /\ log = <<>> /\ restarts = 0 /\ repeated = FALSE
    /\ applied = [p \in Pods |-> 0]
    /\ ids = [p \in Pods |-> NoRows]
    /\ sequence = [p \in Pods |-> 0]
    /\ snapshot = [p \in Pods |-> [index |-> 0, ids |-> NoRows]]
    /\ currentToken = 0 /\ nextPageToken = 0 /\ pageHistory = <<>>
    /\ requests = {} /\ answers = {} /\ loads = 0 /\ answered = FALSE
    /\ steady = {} /\ seen = {}

-----------------------------------------------------------------------------
(***************************************************************************)
(* The store                                                               *)
(***************************************************************************)

Commit(cmd) ==
    /\ Len(log) < MaxLog
    /\ log' = Append(log, cmd)
    /\ UNCHANGED <<applied, ids, sequence, snapshot, restarts, repeated, pageVars,
                   fetchVars, steady, seen>>

\* Codes stay steady whose rows pod p keeps.
Changes(p, table) ==
    /\ ids' = [ids EXCEPT ![p] = table]
    /\ steady' = {c \in steady : table[c] = ids[p][c]}

\* The largest id of a table.
IsTop(table, top) ==
    /\ top \in {0} \cup {table[c] : c \in Codes}
    /\ \A c \in Codes : table[c] <= top

\* sqlite_sequence of pod p, or an id that is above it.
Raised(p, id) == IF id > sequence[p] THEN id ELSE sequence[p]

\* InsertURL of a code that has no row takes the id after all that were given and
\* all that there are; a failed one takes none.
Insert(p) ==
    LET c == log[applied[p] + 1].code
    IN  IF ids[p][c] # 0 THEN UNCHANGED <<ids, sequence, steady>>
        ELSE \E top \in {0} \cup {ids[p][d] : d \in Codes} :
               /\ IsTop(ids[p], top)
               /\ sequence' = [sequence EXCEPT ![p] = Raised(p, top) + 1]
               /\ Changes(p, [ids[p] EXCEPT ![c] = Raised(p, top) + 1])

Delete(p) ==
    /\ Changes(p, [ids[p] EXCEPT ![log[applied[p] + 1].code] = 0])
    /\ UNCHANGED sequence

Apply(p) ==
    /\ applied[p] < Len(log)
    /\ applied' = [applied EXCEPT ![p] = @ + 1]
    /\ IF log[applied[p] + 1].type = "CmdShortenURL" THEN Insert(p) ELSE Delete(p)
    /\ UNCHANGED <<log, snapshot, restarts, repeated, pageVars, fetchVars, seen>>

\* FSM.Restore writes the ids of the snapshot; sqlite_sequence follows them up.
Restore(p, table) ==
    /\ Changes(p, table)
    /\ \E top \in {0} \cup {table[c] : c \in Codes} :
         IsTop(table, top) /\ sequence' = [sequence EXCEPT ![p] = Raised(p, top)]

TakeSnapshot(p) ==
    /\ applied[p] > snapshot[p].index
    /\ snapshot' = [snapshot EXCEPT ![p] = [index |-> applied[p], ids |-> ids[p]]]
    /\ UNCHANGED <<log, applied, ids, sequence, restarts, repeated, pageVars, fetchVars,
                   steady, seen>>

InstallSnapshot(p, q) ==
    /\ snapshot[q].index > applied[p]
    /\ snapshot' = [snapshot EXCEPT ![p] = snapshot[q]]
    /\ applied' = [applied EXCEPT ![p] = snapshot[q].index]
    /\ Restore(p, snapshot[q].ids)
    /\ UNCHANGED <<log, restarts, repeated, pageVars, fetchVars, seen>>

\* Mutant: NoSnapshotRestoreOnStart; raft goes on after the snapshot with the file
\* as it is.
RestartUnrestored(p) ==
    /\ restarts < MaxRestarts
    /\ restarts' = restarts + 1
    /\ applied' = [applied EXCEPT ![p] = snapshot[p].index]
    /\ repeated' = (repeated \/ (snapshot[p].index = 0 /\ applied[p] # 0))
    /\ UNCHANGED <<log, ids, sequence, snapshot, pageVars, fetchVars, steady, seen>>

\* A pod restarts with its latest snapshot, or, with none, applies the log from its
\* start to the file as it is.
Restart(p) ==
    /\ restarts < MaxRestarts
    /\ restarts' = restarts + 1
    /\ applied' = [applied EXCEPT ![p] = snapshot[p].index]
    /\ repeated' = (repeated \/ (snapshot[p].index = 0 /\ applied[p] # 0))
    /\ IF snapshot[p].index = 0 THEN UNCHANGED <<ids, sequence, steady>>
       ELSE Restore(p, snapshot[p].ids)
    /\ UNCHANGED <<log, snapshot, pageVars, fetchVars, seen>>

-----------------------------------------------------------------------------
(***************************************************************************)
(* The list                                                                *)
(***************************************************************************)

\* Mutant: WHERE u.id >= after.
RowsFrom(table, after) == {c \in Codes : table[c] # 0 /\ table[c] >= after}

\* The rows of WHERE u.id > after, and the place of row c among them.
RowsAfter(table, after) == {c \in Codes : table[c] > after}
Place(table, after, c) ==
    Cardinality({d \in RowsAfter(table, after) : table[d] <= table[c]})

\* ORDER BY u.id LIMIT pageSize + 1, without the extra row.
Page(table, after) ==
    {c \in RowsAfter(table, after) : Place(table, after, c) <= PageSize}

HasNextPage(table, after) == Cardinality(RowsAfter(table, after)) > PageSize

\* Mutant: the token is the id of the extra row.
IsNextTokenExtra(table, after, token) ==
    IF ~HasNextPage(table, after) THEN token = 0
    ELSE \E c \in RowsAfter(table, after) :
            Place(table, after, c) = PageSize + 1 /\ token = table[c]

\* next_page_token: the id of the last row of the page when there are more.
IsNextToken(table, after, token) ==
    IF ~HasNextPage(table, after) THEN token = 0
    ELSE \E c \in Page(table, after) :
            /\ \A d \in Page(table, after) : table[d] <= table[c]
            /\ token = table[c]

\* Pod p answers request r.
ListURLsWithStats(p, r) ==
    /\ r \in requests
    /\ requests' = requests \ {r}
    /\ \E token \in {0} \cup {ids[p][c] : c \in Codes} :
         /\ IsNextToken(ids[p], r.token, token)
         /\ answers' = answers \cup
              {[load |-> r.load, token |-> r.token, urls |-> Page(ids[p], r.token), next |-> token]}
    /\ UNCHANGED <<storeVars, pageVars, loads, answered, steady, seen>>

-----------------------------------------------------------------------------
(***************************************************************************)
(* The page of the admin UI                                                *)
(***************************************************************************)

\* The loads that wait for their list, by numbers that are used again.
Open == {r.load : r \in requests} \cup {a.load : a \in answers}

\* load, up to its first await.
Load(token, history) ==
    /\ loads < MaxLoads
    /\ loads' = loads + 1
    /\ \E n \in 1..MaxOpen :
         /\ n \notin Open /\ \A m \in 1..MaxOpen : m < n => m \in Open
         /\ requests' = requests \cup {[load |-> n, token |-> token]}
    /\ currentToken' = token
    /\ pageHistory' = history
    /\ UNCHANGED <<storeVars, nextPageToken, answers, answered, seen>>

\* The page is opened.
Mount ==
    /\ loads = 0
    /\ steady' = SameEverywhere(ids)
    /\ Load(0, <<>>)

\* Every 30 s, and after a delete.
Reload ==
    /\ loads > 0
    /\ Load(currentToken, pageHistory)
    /\ UNCHANGED steady

\* A click on Next: the history grows by the token of the page that is left,
\* unless that is the first page.
GoNext ==
    /\ nextPageToken # 0
    /\ Load(nextPageToken,
            IF currentToken # 0 THEN Append(pageHistory, currentToken) ELSE pageHistory)
    /\ UNCHANGED steady

GoPrev ==
    /\ pageHistory # <<>>
    /\ Load(pageHistory[Len(pageHistory)], SubSeq(pageHistory, 1, Len(pageHistory) - 1))
    /\ UNCHANGED steady

GoFirst ==
    /\ pageHistory # <<>>
    /\ Load(0, <<>>)
    /\ UNCHANGED steady

\* load goes on: the list is shown, whichever list was asked for last.
Receive(a) ==
    /\ a \in answers
    /\ answers' = answers \ {a}
    /\ nextPageToken' = a.next
    /\ answered' = TRUE
    /\ seen' = seen \cup (a.urls \cap steady)
    /\ UNCHANGED <<storeVars, currentToken, pageHistory, requests, loads, steady>>

\* fetch throws, or the status is not ok: an error is shown.
LoadFails(r) ==
    /\ r \in requests
    /\ requests' = requests \ {r}
    /\ UNCHANGED <<storeVars, pageVars, answers, loads, answered, steady, seen>>

-----------------------------------------------------------------------------
PodStep(p) ==
    \/ Apply(p) \/ TakeSnapshot(p) \/ Restart(p)
    \/ \E q \in Pods : InstallSnapshot(p, q)
    \/ \E r \in requests : ListURLsWithStats(p, r)

PageStep ==
    \/ Mount \/ Reload \/ GoNext \/ GoPrev \/ GoFirst
    \/ \E a \in answers : Receive(a)
    \/ \E r \in requests : LoadFails(r)

Next ==
    \/ \E cmd \in Command : Commit(cmd)
    \/ \E p \in Pods : PodStep(p)
    \/ PageStep

Spec == Init /\ [][Next]_vars

(***************************************************************************)
(* Properties                                                              *)
(***************************************************************************)

\* Every variable has its type: the history has no token of a first page.
TypeOK ==
    /\ log \in Seq(Command)
    /\ applied \in [Pods -> Nat]
    /\ ids \in [Pods -> Table]
    /\ sequence \in [Pods -> Nat]
    /\ snapshot \in [Pods -> [index : Nat, ids : Table]]
    /\ restarts \in 0..MaxRestarts /\ repeated \in BOOLEAN
    /\ currentToken \in Nat /\ nextPageToken \in Nat
    /\ pageHistory \in Seq(Nat \ {0})
    /\ requests \subseteq Request
    /\ answers \subseteq Answer
    /\ loads \in 0..MaxLoads
    /\ answered \in BOOLEAN
    /\ steady \in SUBSET Codes
    /\ seen \in SUBSET Codes

\* The tokens the page holds or has asked with.
Tokens ==
    {currentToken, nextPageToken} \cup {pageHistory[i] : i \in 1..Len(pageHistory)}
        \cup {r.token : r \in requests} \cup {a.token : a \in answers}

\* Who pages through the list misses no URL that was there all the time under
\* one id: whatever token the page holds, the URLs up to it were shown, and when
\* there is no next page, all were (admin.go:171-184, +page.svelte:18-55).  Pods
\* may answer in turns, answers overtake each other, URLs come and go.
NoURLSkipped ==
    \A c \in steady, p \in Pods :
        /\ (\E t \in Tokens : ids[p][c] <= t) => c \in seen
        /\ (answered /\ nextPageToken = 0) => c \in seen

\* Pods that have applied the same entries list the same URLs in the same order,
\* although each gives ids of its own and Restore leaves sqlite_sequence alone
\* (fsm.go:146-236, query.sql:11-17): however snapshots travelled and pods restarted,
\* as long as no pod repeated entries over a file that had them already.
SameOrder ==
    ~repeated => \A p, q \in Pods : applied[p] = applied[q] =>
        \A c, d \in Codes : /\ ids[p][c] = 0 <=> ids[q][c] = 0
                            /\ ids[p][c] < ids[p][d] <=> ids[q][c] < ids[q][d]

-----------------------------------------------------------------------------
(***************************************************************************)
(* Why no URL is skipped.  UrlListingProofs proves ListingInv inductive.   *)
(***************************************************************************)

\* No two rows have the same id.
Distinct(table) ==
    \A c, d \in Codes : c # d /\ table[c] # 0 => table[c] # table[d]

\* The rows of each pod have ids of their own, up to its sqlite_sequence.
RowsNumbered ==
    \A p \in Pods : Distinct(ids[p]) /\ \A c \in Codes : ids[p][c] <= sequence[p]

SnapshotsDistinct == \A p \in Pods : Distinct(snapshot[p].ids)

\* Until the page is opened it has no token and asked for nothing.
UnopenedInv ==
    loads = 0 =>
        /\ currentToken = 0 /\ nextPageToken = 0 /\ pageHistory = <<>>
        /\ requests = {} /\ answers = {} /\ ~answered

SteadyInv == steady \subseteq SameEverywhere(ids)

\* A steady row that a list on its way leaves out comes before the list, or after
\* the token that the list gives out.
AnswersInv ==
    \A a \in answers : \A c \in steady \ a.urls, p \in Pods :
        ids[p][c] <= a.token \/ (a.next # 0 /\ a.next < ids[p][c])

\* A token goes beyond the one its list was asked with.
PagesAdvance == \A a \in answers : a.next # 0 => a.token < a.next

ListingInv ==
    /\ TypeOK /\ RowsNumbered /\ SnapshotsDistinct
    /\ UnopenedInv /\ SteadyInv /\ AnswersInv /\ PagesAdvance /\ NoURLSkipped

\* Each pod can make each list that is asked for: there is always a last row on a
\* page that has another one after it.
ListsPossible ==
    \A p \in Pods, r \in requests :
        \E token \in {0} \cup {ids[p][c] : c \in Codes} : IsNextToken(ids[p], r.token, token)
=============================================================================
