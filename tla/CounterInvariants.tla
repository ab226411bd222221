------------------------ MODULE CounterInvariants ------------------------
(***************************************************************************)
(* The inductive invariant of CounterReservation.  CounterReservationProofs *)
(* proves it for every value of the constants; TLC checks it first.         *)
(***************************************************************************)
EXTENDS CounterReservation

\* A call inside reserveBlock: it holds mu.
Reserving(c) == pc[c] \in {"read", "waiting", "answered", "lost"}

\* A call whose reservation may still be installed.
Claiming(c) == pc[c] \in {"waiting", "answered"}

\* On node n a call waits for the block at b, proposed in n's present leadership.
WaitsFor(n, b) ==
    /\ mu[n] # None
    /\ pc[mu[n]] = "waiting"
    /\ proposedIn[mu[n]] = leaderTerm[n]
    /\ current[mu[n]] = b

----------------------------------------------------------------------------
\* Terms: no entry, proposal or leader is ahead of the latest election, and a
\* term has one leader.
TermInv ==
    /\ \A i \in 1..Len(log) : log[i].term <= term
    /\ \A e \in inflight : e.term <= term
    /\ \A n \in Nodes : leaderTerm[n] <= term
    /\ \A m, n \in Nodes : leaderTerm[m] = leaderTerm[n] /\ leaderTerm[n] # 0 => m = n
    /\ \A i, j \in 1..Len(log) : i <= j => log[i].term <= log[j].term

\* The FSM: applied prefixes, and the counter they leave in SQLite.
FsmInv ==
    \A n \in Nodes :
        /\ snapshot[n] <= applied[n]
        /\ applied[n] <= Len(log)
        /\ applied[n] > 0 => counter[n] = CounterAt(applied[n])
        /\ leaderTerm[n] # 0 =>
             \A i \in 1..applied[n] : log[i].term <= leaderTerm[n]

\* The mutex: its holder is the one call of the node inside reserveBlock.
MutexInv ==
    /\ \A c \in Calls : Reserving(c) => node[c] \in Nodes /\ mu[node[c]] = c
    /\ \A c \in Calls : pc[c] = "queued" => node[c] \in Nodes
    /\ \A n \in Nodes : mu[n] # None => node[mu[n]] = n /\ Reserving(mu[n])

\* A leader has applied its own entries, except the one its call waits for.
OwnLog(n) ==
    \A i \in 1..Len(log) :
        i > applied[n] /\ log[i].term = leaderTerm[n] =>
            /\ WaitsFor(n, log[i].base)
            /\ \A j \in 1..Len(log) : j > i => log[j].term # leaderTerm[n]

\* A leader's proposal is the one its call waits for, and then it has applied
\* all of its own entries.
OwnInflight(n) ==
    \A e \in inflight :
        e.term = leaderTerm[n] =>
            /\ WaitsFor(n, e.base)
            /\ \A i \in 1..Len(log) : i > applied[n] => log[i].term # leaderTerm[n]

OwnEntriesInv ==
    \A n \in Nodes : leaderTerm[n] # 0 => OwnLog(n) /\ OwnInflight(n)

\* A proposal continues the blocks of its term, and a term has one proposal.
InflightInv ==
    /\ \A e, f \in inflight : e.term = f.term => e = f
    /\ \A e \in inflight : Len(log) > 0 /\ log[Len(log)].term = e.term =>
            e.base = End(log[Len(log)])

\* What a leader read is what its own last entry left.
ReadInv ==
    \A c \in Calls : pc[c] = "read" =>
        LET n == node[c] IN
        leaderTerm[n] # 0 /\ applied[n] > 0 /\ log[applied[n]].term = leaderTerm[n] =>
            current[c] = CounterAt(applied[n])

\* A claim was made in a term that was led by the call's own node.
ClaimTerms ==
    \A c \in Calls : Claiming(c) =>
        /\ proposedIn[c] <= term
        /\ \A n \in Nodes : leaderTerm[n] # 0 /\ leaderTerm[n] = proposedIn[c] => node[c] = n

\* Claims are made in different terms.
ClaimUnique ==
    \A c, d \in Calls :
        Claiming(c) /\ Claiming(d) /\ proposedIn[c] = proposedIn[d] => c = d

\* What is proposed or not yet applied in the term of a waiting call is its own.
ClaimEntries ==
    \A c \in Calls : pc[c] = "waiting" =>
        /\ \A e \in inflight : e.term = proposedIn[c] => e.base = current[c]
        /\ \A i \in 1..Len(log) :
             i > applied[node[c]] /\ log[i].term = proposedIn[c] => log[i].base = current[c]

\* The reservation of an answered call is committed.
ClaimCommitted == \A c \in Calls : pc[c] = "answered" => Committed(c)

SafeInv ==
    /\ TypeOK /\ TermInv /\ FsmInv /\ MutexInv /\ OwnEntriesInv
    /\ InflightInv /\ ReadInv
    /\ ClaimTerms /\ ClaimUnique /\ ClaimEntries /\ ClaimCommitted
    /\ TermBlocksContiguous /\ IssuedFromCommittedBlock

----------------------------------------------------------------------------
\* The committed blocks of one term do not overlap.
TermOrdered ==
    \A i, j \in 1..Len(log) : i < j /\ log[i].term = log[j].term => End(log[i]) <= log[j].base

\* Nor do any committed blocks, as long as all of them are fresh.
Ordered == \A i, j \in 1..Len(log) : i < j => End(log[i]) <= log[j].base
FreshOrdered == AllFresh => Ordered

\* A counter that some prefix of the log leaves.
Known(v) == \E i \in 0..Len(log) : v = CounterAt(i)

\* Whatever a file holds, was read from it or is proposed is such a counter,
\* although perhaps an old one.
CountersKnown ==
    /\ \A n \in Nodes : Known(counter[n])
    /\ \A c \in Calls : pc[c] = "read" => Known(current[c])
    /\ \A e \in inflight : Known(e.base)

\* Node n has values left in its block.
Left(n) == nextToIssue[n] < reservedEnd[n]

(***************************************************************************)
(* Where values are from, which no variable says: given[c] is the term of  *)
(* the reservation that the value of call c is from, left[n] that of the   *)
(* block on node n.  Blocks of different terms may overlap, so that a      *)
(* value can be given out again, but not from the blocks of one term.      *)
(***************************************************************************)
LeftInBlock(left) ==
    \A n \in Nodes : Left(n) => \E i \in 1..Len(log) :
        /\ log[i].term = left[n]
        /\ log[i].base < nextToIssue[n]
        /\ reservedEnd[n] = End(log[i])

GivenInBlock(given) ==
    \A c \in Calls : pc[c] = "done" => \E i \in 1..Len(log) :
        /\ log[i].term = given[c]
        /\ log[i].base <= value[c]
        /\ value[c] < End(log[i])

GivenOnce(given) ==
    \A c, d \in Calls :
        pc[c] = "done" /\ pc[d] = "done" /\ given[c] = given[d] /\ value[c] = value[d] => c = d

LeftNotGiven(given, left) ==
    \A n \in Nodes, c \in Calls :
        Left(n) /\ pc[c] = "done" /\ given[c] = left[n] =>
            value[c] < nextToIssue[n] \/ value[c] >= reservedEnd[n]

LeftDisjoint(left) ==
    \A m, n \in Nodes :
        m # n /\ Left(m) /\ Left(n) /\ left[m] = left[n] =>
            reservedEnd[m] <= nextToIssue[n] \/ reservedEnd[n] <= nextToIssue[m]

\* A committed block whose call has yet to install it is unused.
ClaimedUnused(given, left) ==
    \A c \in Calls : Claiming(c) /\ Committed(c) =>
        /\ \A d \in Calls : pc[d] = "done" /\ given[d] = proposedIn[c] =>
               value[d] < current[c] \/ value[d] >= current[c] + BlockSize
        /\ \A n \in Nodes : Left(n) /\ left[n] = proposedIn[c] =>
               reservedEnd[n] <= current[c] \/ nextToIssue[n] >= current[c] + BlockSize

OnceInv ==
    \E given \in [Calls -> 0..MaxTerm] :
        /\ GivenInBlock(given) /\ GivenOnce(given)
        /\ \E left \in [Nodes -> 0..MaxTerm] :
             /\ LeftInBlock(left) /\ LeftNotGiven(given, left)
             /\ LeftDisjoint(left) /\ ClaimedUnused(given, left)

IInv == SafeInv /\ TermOrdered /\ FreshOrdered /\ CountersKnown /\ OnceInv
============================================================================
