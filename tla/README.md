# Verification of the k8s URL shortener

TLA+ modules, TLC configurations and TLAPS proofs about the Go program in `src/`:
a URL shortener that runs as a StatefulSet, replicates its SQLite database with
hashicorp/raft, and lets Istio send writes to the raft leader. Paths below are
relative to `src/`; `cluster.go`, `fsm.go` and `commands.go` are in
`internal/raftcluster/`, `shortener.go`, `urlshortener_grpc.go`, `admin.go` and
`stats.go` in `internal/service/`, `query.sql` and `schema.sql` in `internal/db/`.

1. [The system](#1-the-system): inventory of components, state and hard behaviours
2. [The modules](#2-the-modules): how state and actions correspond to the code
3. [The runs](#3-the-runs): what is checked, bounds, fairness
4. [The proofs](#4-the-proofs)
5. [Where code and documentation disagree](#5-where-code-and-documentation-disagree)
6. [What is not modelled](#6-what-is-not-modelled)
7. [The plan](#7-the-plan)

## 1. The system

    client -> ingress -> Envoy --(subset leader)---> ShortenURL --+
                             \--(subset follower)-> ResolveURL    |  raft.Apply
                                                        |         v
    Istio <- pod label <- leaderLabelLoop <- LeaderCh - raft log - - -> FSM on every pod
                                   |  mu                                    |
                                   v                                        v
                       reserved block (NextCounter) <--- counter --- SQLite file
                                                                            ^
    RecordFollow (any pod) -> leader's admin port -> raft.Apply             |
    Admin UI -> AdminService -> lists, deletes, cluster state --------------+
    EndpointSlices -> peerReconcileLoop -> AddVoter / RemoveServer

| Component | State | Operations | Talks to | What makes it correct |
|---|---|---|---|---|
| Counter reservation (`cluster.go`, `fsm.go`) | `mu`, `reservedStart`, `reservedEnd`, `nextToIssue`; row `counter` | `NextCounter`, `reserveBlock`, the reset of a new leader, `applyReserveBlock` | raft, FSM, label loop | no value is issued twice; only committed blocks are used; `mu` is given back |
| Replicated store (`fsm.go`, `commands.go`, `query.sql`) | tables `urls`, `url_stats`; snapshots; raft log | `Apply` per command, `Snapshot`, `Persist`, `Restore` | raft | replicas that applied the log agree, whatever crashed |
| Shorten and resolve (`shortener.go`, `urlshortener_grpc.go`, virtual services) | requests under way | `handleShorten`/`ShortenURL`, `handleResolve`/`ResolveURL` | counter, raft, store | an acknowledged code resolves to its URL and belongs to one client |
| Leader label and routing (`cluster.go`, Istio manifests) | `LeaderCh`, label `raft-role`, subsets | `leaderLabelLoop`, `updateRaftRoleLabel` | raft, Kubernetes, Istio, `mu` | the leader gets the writes, followers the reads |
| Cluster membership (`cluster.go`, `admin.go`) | raft configuration, raft state on the volume | bootstrap, `joinExistingCluster`, `JoinCluster`, `reconcilePeers` | raft, EndpointSlices, other pods | one cluster; one server changes at a time; all pods end up voting |
| Follow recording (`stats.go`, `admin.go`) | none | `stats.RecordFollow`, `AdminServer.RecordFollow` | leader, raft | an attempt counts once; what is acknowledged is counted |
| Admin service (`admin.go`) | none | lists, `DeleteURL`, `TriggerElection`, state | leader, raft, store | a forwarded call ends, does what it says it did, and not twice |
| Short code encoding (`internal/shortcode/encode.go`) | none | `Encode` | counter | different counters get different codes of 8 characters, at least within a block |
| Admin UI (`adminui/`) | page tokens, lists | pager, refresh, delete | admin service | who pages through the list sees every URL |
| Process wiring (`cmd/serve.go`, `cluster.go`) | errgroup, servers, raft, SQLite file | start, `Cluster.Run`, the end of one process | all | nothing uses the file after it is closed; calls are drained; the process ends |
| Configuration and telemetry (`pkg/`) | values of the environment, counters | read once; count | all | - |

The behaviours that are hard to test, with the lines where they bite, are the
`hazards` of `PROJECT.json`. The ones that shape the models:

- **Leadership is not one moment.** `IsLeader` is asked at the start of a handler and
  not again; a new leader leads before its FSM has applied what it was elected with; a
  deposed leader goes on for a while; `LeaderCh`, the label, the endpoints in Envoy and
  the reset of the block each lag behind by a delay of their own.
- **Errors are not answers.** `raft.Apply` fails with `ErrLeadershipLost` for entries
  that commit later; Envoy ends an attempt that will still commit; a join that failed
  may have added its pod.
- **The SQLite file outlives the process.** raft keeps no applied index in it, so a
  restart restores the latest snapshot, or, with none, applies the log from its start to
  a file that already has its effects.
- **A mutex is held across consensus.** `NextCounter` holds `mu` while `raft.Apply`
  waits, and the loop that tells Istio who leads needs `mu` first.
- **Decisions rest on lists read earlier.** `reconcilePeers` compares a list of
  endpoints with a configuration read later, and acts on both later still.
- **Pods believe different things.** An admin call is passed on to the leader the pod
  knows of, which by then may be another one, or may know of another one itself.
- **Everything stops at once.** One context tells servers, raft and telemetry to stop; the
  file goes away while handlers are drained that still want it.
- **Rows have numbers of their own on each pod.** `id` is assigned by every replica, and
  the pages of the list, each answered by any pod, are cut by it.

## 2. The modules

| Module | Models |
|---|---|
| `CounterReservation` | `NextCounter`, `reserveBlock`, the reset, `applyReserveBlock` |
| `CounterDispenser` | what the counter promises: blocks and values, no nodes |
| `CounterInvariants` | the inductive invariant of `CounterReservation` |
| `CounterReservationProofs` | its theorems |
| `MCCounterReservation` | symmetry, and the liveness instance |
| `UrlDatabase` | tables, statements and `Restore` as operators |
| `UrlReplicas` | the FSM on every pod, snapshots, restarts (extends `UrlDatabase`) |
| `UrlInvariants` | its inductive invariant |
| `MCUrlReplicas` | symmetry |
| `Shortener` | what the service promises its clients: one table, no pods |
| `ShortenRequests` | shorten requests from client to answer, composed with `UrlReplicas`; implements `Shortener` |
| `RequestInvariants` | the inductive invariant of the two together |
| `ShortenRequestsProofs` | the theorems of `UrlReplicas` and of `ShortenRequests`, the refinement of `Shortener` among them |
| `MCShortenRequests` | symmetry, and the instance with one retry |
| `LeaderRouting`, `LeaderRoutingProofs` | LeaderCh, label loop, patches, Istio; theorems |
| `Membership`, `MembershipProofs` | bootstrap, join, reconciliation; theorems |
| `AdminCalls`, `AdminCallsProofs` | `DeleteURL`, `TriggerElection`, `RecordFollow`, forwarding; theorems |
| `UrlListing`, `UrlListingProofs` | lists by id on pods with ids of their own, and the pager of the admin UI; theorems |
| `MCUrlListing` | symmetry, and the bounds on the log |
| `Shortcode`, `ShortcodeProofs` | `Encode` on 64-bit words, and the handlers' use of it; theorems |
| `MCShortcode` | the key and the blocks |
| `ServerLifecycle`, `ServerLifecycleProofs` | one process from start to end; theorems |

In the modules an operator under the comment `Mutant:` is a plausible bug that stands
beside the definition it changes; no specification uses it. `PROJECT.json` pairs each
property with a mutant that TLC finds to break it.

**raft** is external everywhere and is modelled only as far as the code depends on it:
committed entries form one sequence; an entry commits never after one of a later term; a
leader's `State()` precedes what its FSM applied; a waiting `Apply` fails when its leader
steps down, and the entry may commit all the same; changes of the configuration are
committed one by one. Each module's header says which parts it has.

### CounterReservation

`log` holds the committed reservations as `[term, base]`, with `End` the
`NewCounterValue` of the payload; other commands do not touch the counter.
`leaderTerm[n]` is the term node `n` believes it leads, so that `leaderTerm[n] # 0` is
`IsLeader()`. `mu` names the call that holds the mutex. A call of `NextCounter` goes

    new -Call-> queued -Issue-> done                                    block not used up
                queued -ReadCounter-> read -Propose-> waiting           reserveBlock
                waiting -ApplyReserveBlock-> answered -Reserved-> done
                waiting -StepDown-> lost -ReserveFails-> failed
                read -ProposeFails-> failed

`ReadCounter` reads the node's own file under `mu` (`cluster.go:228`), `Propose` is the
entry of `raft.Apply` (`cluster.go:252-266`), and the FSM's callback answers the future.
The label loop (`StartLabelLoop`, `ReceiveLeaderCh`, `ResetBlock`) resets the block some
time after the node became leader. `Restart` clears memory, keeps file and snapshots.

`CounterDispenser` is the same without nodes: `Reserve` appends a block that starts where an
earlier one ended (the last one, within a term), and `Give` gives a call a value that was given
less often than blocks have it (`Next` reads block and value off the step, so that TLC need not try all). The mapping takes `log` for the blocks and the values of calls that are done
for what was given (`ImplementsDispenser`). A dispenser whose blocks never overlap gives no
value twice; a stale read makes them overlap, and this says what remains true then.

### UrlDatabase and UrlReplicas

A database is `[urls, stats]`, with one operator per statement of `query.sql`. `Apply` is
the effect of a command that runs to its end; the actions run the two statements of
`applyDeleteURL` separately, since no transaction holds them together
(`fsm.go:111-122`). `ideal` is a history variable: after each entry, the store that
applied every entry once. No action of the program reads it. `TakeSnapshot` copies the *file* under the *applied index*, and the two
may disagree while a restarted replica repeats its log (that is what makes the invariant
interesting). `InstallSnapshot` and `Restart` go through `Restored`.

### ShortenRequests

Extends `UrlReplicas` by clients, Envoy's attempts and the handler. A request is named by
its long URL. `Send` is an attempt at any pod, `MayTry` the retry policy of the route,
`phase` where the handler is. `Propose(u, c)` may take any code `c`: the counter and
`Encode` promise less than uniqueness, and the properties must not depend on it. What Envoy
gave up goes on: `Abandon` lets such a handler still propose, and `CommitShorten` commits
proposals nobody waits for. `ApplyAndAnswer` is `ApplyShortenURL` plus the answer to the
attempt whose entry it is.

The last definition states that all this implements `Shortener`, the abstract
specification: a store with grants of free codes, deletes, acknowledgements and failures. The
refinement mapping computes the abstract state from the log: `store` is the table after
running the log once, and `granted` holds the codes whose insert, in the order of the log, found
the row free. `answer` is the same variable. Commitment of an insert is therefore the step
that grants (or a stutter, when the code is taken), and everything that pods, leaders and
attempts do otherwise stutters.

### LeaderRouting

`leading` is raft's `State()`, `leaderCh` the one-slot channel with its overriding write
(`Announce`), `loop` and `role` the position and the argument of `leaderLabelLoop`, `label`
the label of the pod, `route` the subset in which the Envoys have it. `holding` says that a
`NextCounter` holds `mu`. A container's death keeps the label, a pod's death brings the
template's. `unpatched` remembers whose latest patch failed.

### Membership

`voters` and `leader` are the configuration in effect and the leader that can still commit;
`hasState` is `HasExistingState` of each pod's volume. `Start` bootstraps, joins or neither
(`cluster.go:134-160`). `JoinAdds` and `JoinFails` are an attempt of
`joinExistingCluster`; an attempt may fail although it added the pod, since the answer can
be lost. `reconcilePeers` is split where others can act between: the list of endpoints
(`ListEndpoints`), the configuration (`GetConfiguration`), then one raft call per difference
(`AddVoter`, `RemoveServer`), which `Change` lets fail when the pod leads no more or the new
configuration has no majority. How `tryJoin` finds the leader among its peers is abstracted
to whether it does.

### AdminCalls

A call is seen from its caller to its answer. `path[c]` is the chain of pods that the latest
attempt was passed along, each with the term in which its sender took it for the leader;
`phase[c]` says where the handler at the end of the chain is:

    new -Send-> arriving -Receive-> checked -Execute-> waiting -ApplyReturns-> ok     leads
                arriving -Receive-> asking -Forward-> arriving                        does not
                asking -ForwardNobody-> unavailable or failed                  no leader known
                checked, transferring -ExecuteFails-> failed

`Receive` is `IsLeader`, `Forward` the later question for `LeaderAdminAddr` (`admin.go:83-93`,
`215-227`): between the two anything may happen. `knows[p]` is raft's `LeaderWithID`, which
every change of state clears and which a new leader sets only after its state
(`KnowItself`). Envoy's attempts, timeouts and broken connections are `Send`, `GiveUp` and
`Disconnect`; what they leave behind may still propose (`Abandon`).

### UrlListing

Of the table `urls` the module has what `UrlDatabase` leaves out, the `id`: `ids[p][c]`, with
`sequence[p]` for `sqlite_sequence`, the largest id ever given, which no snapshot has.
`ListURLsWithStats` is one page with its token (`admin.go:171-184`; `ListURLs` is alike). The page of the UI is split
where it awaits: `Load` sets token and history and asks, `Receive` shows whichever answer
comes next (`+page.svelte:18-55`). `steady` and `seen` are history variables: codes with one id on all
pods since the page was opened, and those of them that were shown; so is `repeated`: a pod
restarted without a snapshot and applies entries to a file that has them already.

### Shortcode

A 64-bit word is a sequence of eight bytes, since TLC's integers have 32 bits; the operators
are the word operations of Go and, from them, `scramble` (`Mix`) and `toBase62`. `scramble`'s
last reduction mod `62^8` and `toBase62` are one operator, since the reduced word has the last
eight digits (proved: `EncodeReduces`). Exclusive or goes bit by bit, and eight bytes are spelt out
(`Bytes`, `Chain`) instead of a recursion, so that the prover can read the module. The state
machine encodes the counters of given blocks, one after the other.

### ServerLifecycle

`member` has the goroutines of `runServe`'s errgroup, `cancelled` its context. `StopServer`
keeps apart what `net/http` and gRPC do: `ListenAndServe` returns while `Shutdown` goes on, and
nobody waits for that, while gRPC's `Serve` returns when `GracefulStop` is through. `Cluster.Run`
is `ShutdownRaft`, `RaftIsDown` and `CloseDatabase`. `FSMApply` and `FSMApplied` are begin and
end of one entry, so that the file could be closed in between.

## 3. The runs

| Run | Question and result |
|---|---|
| `counter_safety` | Do two nodes, three calls and two elections, with crashes, step-downs and snapshots anywhere, issue a value twice? Not as long as every reservation was computed from an up-to-date counter. Blocks of one term follow each other; only committed blocks are used. Does the cluster look like a dispenser (`CounterDispenser`), even with stale reservations? Yes: a value is returned no more often than committed blocks have it. The invariant the proofs use, `IInv`, which has the types in it, holds. |
| `counter_liveness` | Is `mu` always given back, and does each call return? Yes. |
| `counter_reuse` | Is a value never issued twice, as documented? Violated: a new leader with a lagging FSM reads an old counter. |
| `replicas_converge` | Do replicas that applied the whole log hold the same URLs and follow times as a store that ran once, after crashes at any statement and snapshots at any index? Yes; and no follow is missed. Does a replica that lags or repeats redirect only to URLs the code had? Yes. |
| `requests` | Does an acknowledged code resolve on each pod that has its insert, and is it never given to two clients without a delete in between? Yes, even if all counters collide. Does the service with all its pods look to clients like one table (`ImplementsShortener`)? Yes. The invariant the proofs use, `RequestsInv`, holds. |
| `routing` | Does each change of leadership reach the label and the subsets, although `LeaderCh` drops values and the loop waits for `mu`? Yes, except for a pod whose patch failed. |
| `membership` | Does the configuration change by one server at a time, keep its leader, and end with all pods voting? Yes, even when joins fail for good and a stale list removes a pod that just joined. |
| `admin` | Can a forwarded call go round in a loop, commit twice, be acknowledged without a commit, or hang? No. |
| `listing` | Can paging miss a URL that is there all the time, under one id, when pods, ids and answers are out of step? No. Do pods that applied the same entries list the same URLs in the same order (`SameOrder`), although they give ids of their own? Yes, until a pod repeats entries over a file that has them. Again with the invariant of the proofs, `ListingInv`. |
| `shortcode` | Can the mixing of a word be undone (proved for every word), and do the counters of a block get different codes? Yes, for the blocks tried. |
| `shortcode_capacity` | Do different counters below `62^8` get different codes, as documented? Violated. |
| `shutdown` | Does the FSM meet a closed file, or an orderly end cut off a gRPC call? No. Does the process always end? Yes. |

### Bounds

- *Counter*: `BlockSize = 2`, the smallest block with a second value. Three calls: the first
  reserves, the second takes the second value, the third reserves again or meets another
  node. Two elections (`MaxTerm`): one change of leader or one re-election, both with a proposal
  in flight. A stale reservation takes two calls and two elections. The log needs no bound of its
  own: a call proposes once. Values grow with it, so the state space is finite.
- *Store*: one code, as commands on different codes touch different rows and the invariant is
  stated for each code; two URLs and two times, to tell what is kept from what is overwritten;
  four commands (insert, follow, delete, insert again) and two restarts.
- *Requests*: one code for two clients, so that every counter collides; two attempts; three
  log entries; one crash. `SpecRetry` lets one of the two requests be retried, has a delete
  only as second entry (between two inserts: the case in which a code may be given out again) and snapshots only of
  the first entry. It restricts the steps of `SpecRequests`, it changes none. `Times = {}`: follows do not
  touch `urls`, which is all the properties read; `replicas_converge` has them.
- *Routing*: two pods, two elections (a change of leader, or the same pod twice), one death, one
  failed patch.
- *Membership*: three pods, so that majorities matter; two attempts to join; one death; one
  leadership lost for no modelled reason.
- *Admin*: two pods and three terms, so that a call can be passed there and back again, which is
  what a loop would begin with; two attempts; one crash; one call at a time of any of the three
  kinds, as calls meet each other only in the log.
- *Listing*: three codes and pages of one row, so that there is a middle page; three commands
  and one restart, with one snapshot (`OneSnapshot`), which repeats, restores and
  replaces; four loads, two of them open at once, so that answers overtake each other.
  Commands are committed before anything else (`CommitFirst`): to pods and page a command not
  yet committed and one not yet applied are the same. A restart that would change nothing
  is left out (`RestartsMatter`).
- *Short codes*: seven blocks of a hundred counters, the default size: from 1 and 1000 on, across `2^16`,
  `2^31`, `2^32` and `2^47`, and up to the end of `int64`. The two counters of `shortcode_capacity` were found by a
  search outside TLC; TLC computes that they collide.
- *Shutdown*: one HTTP and one gRPC server, as servers of a kind are alike, and two calls, one
  of which can be applied while the other is drained.

Symmetry is used for nodes, calls, replicas and URLs in safety runs only; no run with a
liveness property has it.

Deadlock is checked in the counter runs. The other configurations switch it off, since there
the bounded system comes to rest: all commands of the bound committed and applied, all
requests answered, all elections used up and routes in place, or members in place, calls
answered, lists loaded, blocks encoded, the process ended. The
counter's `Restart` is not bounded and always possible, so that what shows there that
nothing gets stuck is the liveness run.

### Fairness

- *Counter*: weak fairness of the FSM's apply loop, of each step of a call other than its arrival
  (goroutines run), of the commitment of a *current* leader's entry (a quorum is alive), and
  of the step-down of a leader that was superseded (it hears of the newer term). Nothing is
  asked of elections, crashes, arrivals or of a label loop. Weak fairness is enough for mu since
  elections and calls are finite in number. `LiveSpec` sends both calls to one node, since `mu` is a
  lock of one node, and takes no snapshots, which only decide where a restarted node, without calls, goes on.
- *Routing*: weak fairness of goroutines, kubelet, istiod and the step-down of a superseded
  leader; strong fairness of `ResetBlock`, as calls of `NextCounter` keep taking `mu` and a Go mutex
  in its starvation mode hands itself to the longest waiter after a millisecond. That
  `NextCounter` gives `mu` back is assumed here (`WF(Unlock)`) and is what
  `counter_liveness` shows.
- *Membership*: Kubernetes starts pods and publishes addresses, a majority elects, a leader
  without one steps down, the leader replicates, and loops go on. Nothing is asked of a join.
- *Admin*: weak fairness of handlers, and of leaders: one commits what it was given or, without a
  majority, steps down. Nothing is asked of Envoy's timeouts (a caller inside the mesh has none)
  or of elections.
- *Shutdown*: weak fairness of goroutines, of handlers and of raft's futures; strong fairness of
  `RaftIsDown`, as entries can keep being applied while raft stops. That a client sends what it began to send is assumed
  by the model and not enforced by the code: neither `Shutdown` nor `GracefulStop` has a deadline, and a client that
  stalls is ended by the kubelet. Nothing is asked of arrivals, SIGTERM or SIGKILL.
- *Store, requests, listing, short codes*: safety only.

## 4. The proofs

`tlapm` checks them for every value of the constants that satisfies the named assumptions
(block size at least one, bounds natural numbers, `None`, `NoRow` outside the sets they extend).

**Counter** (`CounterReservationProofs`). `UniqueUnlessStale` is far from inductive: that a
value is fresh depends on what a leader read, on the mutex, on what its FSM has applied of
its own entries, and on proposals that may commit later. `CounterInvariants` has the
strengthening. `SafeInv` says, in named parts: terms are ordered and have one leader; the applied prefix
determines the counter in the file; the holder of `mu` is the one call inside
`reserveBlock`; a leader has applied all of its own entries but the one its call waits for
(`OwnEntriesInv`), so that a read under `mu` sees its last block (`ReadInv`); claims of
different calls belong to different terms. From it follow `TermBlocksContiguous` and
`IssuedFromCommittedBlock`.

What is handed out twice and what is not depends on where a value is from, which no variable
says. `OnceInv` therefore says that there *are* two functions, `given` from calls and `left` from nodes to terms, such
that each value lies in a block of its term, no two calls have one value from one term, what
is left of a block on a node is disjoint from what was given of its term and from other nodes' rest, and a
committed block that is not installed yet is unused. The proof of a step names the new functions:
`Issue` gives what the node had left, `Reserved` what the call proposed, and a block that commits lies
beyond all blocks of its term (`TermTop`). `IInv` holds with stale reservations and without; it also has
that blocks of a term are in order (`TermOrdered`), and all blocks if all are fresh
(`FreshOrdered`), and that each counter that is stored, read or proposed was left by some block
(`CountersKnown`). `UniqueUnlessStale` follows: two calls with one value are from different terms, so from
two blocks that overlap.

For the refinement `Commit` is `Reserve`, after the block that `CountersKnown` names, and `Issue` and
`Reserved` are `Give`: after the step each call that has the value can be assigned a block
that has it, and by `GivenOnce` no two calls the same one, so that there were more blocks than calls before (`NotLarger`).
Every other step changes neither. The proof has one lemma for the effect of each action and one per part of
the invariant. Theorems: `TypeCorrect`, `TermBlocksTheorem`, `IssuedTheorem`, `Inductive`,
`UniqueTheorem`, `ImplementsDispenserTheorem`.

**Store** (`ShortenRequestsProofs`, about `UrlReplicas`). A file that repeats a prefix of the log holds a mixture of
early and late rows. `Repeats` says which: of a code that the rest of the log does not
delete, the URL and the first follow are those of the applied index or those of the end of
the log; the last follow is right once no follow is left to apply; the count is not too small. `SurvivalInv`
says why that goes well together: what an entry leaves stays until the next delete. The
invariant covers files, snapshots and the state between the two statements of a delete.
Theorems: `ConvergeInvariant`, `TypeCorrect`, `MappingTheorem`, `FollowTimesTheorem`,
`FollowsCountedTheorem`. `ResolvesCommittedTheorem` has an inductive invariant
of its own, `RowsInv`: a file has a row for every code that has one in the log run once up to the same
entry, so that an insert it takes is one that the log took, and each row is one that the code
had after some entry.

**Requests** (`ShortenRequestsProofs`, about `ShortenRequests` with the store below it). First
`StoreTheorem`: `SpecRequests => Spec`, so that whatever is proved of the store holds under requests.
`RequestsInv` is `ConvergeInv` and `RowsInv` of the store, and beside them:

- `ProposalInv`: an attempt proposes once, with the code its handler has, and what is still in
  flight for an older attempt can be told from it;
- `AttemptInv`: an attempt that waits for an index waits for its own insert, and one that was
  told *created* has `Won`: its insert found the row free **in the order of the log**;
- `AnswerInv`: a client is told the code of its latest attempt;
- `LastsInv`: what the log run once gave a code it has at each later entry, up to a delete.

The heart is `CreatedWon`. A handler believes the file of its own pod, and that file may be
one that repeats a prefix of the log, or one restored from a snapshot of such a file. By `RowsInv` it
has a row for each code that has one in the log run once, so that an insert it takes is one that the
log took. Could it err, it would be to the other side: a file that already has the row
refuses the insert and the client hears of a failure, which `Shortener` allows. `LastsInv` then carries a won
code to any later entry, `Repeats` carries it to the files, and two clients who won the same code would
contradict it at the index of the later one. Theorems: `RequestsInvariant`,
`RequestsTypeCorrect`, `StoreTheorem`, `AcknowledgedResolvesTheorem`, `NoCodeGivenTwiceTheorem`.

`ImplementsShortenerTheorem` is the refinement, step by step: `ShortenerGrants` (an insert that commits is a
`Grant`, or a stutter when the row is taken), `ShortenerDeletes`, `ShortenerAnswers` (a code that
is acknowledged is among those granted, by `Won`) and `ShortenerStutters` for
everything else. It has no assumption on who leads, how many attempts there are, or which codes are drawn.

**Listing** (`UrlListingProofs`). `PageCovers` is about one list: a row that a page leaves out comes
before it, or after the token it gives out; it needs `PageSize` to be positive and the rows to be
finite, not their ids to differ. `AnswersInv` says so of each list on its way, although the pod that
made it and the rows may have changed since: for rows that stay `steady` nothing changed. So when an answer
arrives, late or out of order, the rows up to its token were shown: those up to the token
it was *asked* with by `NoURLSkipped` before, as that token is still one of `Tokens`, the rest by its page.
`RowsNumbered` and `SnapshotsDistinct` are there for the lists themselves: a page with a row after it
has a last row only if ids differ. Theorems: `ListingInvariant`,
`ListingTypeCorrect`, `NoURLSkippedTheorem`, and
`ListsPossibleTheorem`, which says of the model that no list is left without a possible answer
(`TokenExists`: a page with a row after it has a last row, from the well-ordering of the numbers).

**Routing** (`LeaderRoutingProofs`). `TypeOK` with `NoLeadershipLost` is inductive: the
latter already says where the truth is at each position of the loop (`LastWord`). Theorems:
`RoutingInvariant`, `RoutingTypeCorrect`, `NoLeadershipLostTheorem`.

**Membership** (`MembershipProofs`). `MembershipInv` adds to `LeaderVotes` that no loop's list
of removals names its own pod (only the leader's own calls succeed, so nobody removes the
leader) and that pod 0 has state as soon as there is a configuration (so that it never
founds a second cluster; a volume is not lost in the model). The action property follows
from it step by step. Theorems: `MembershipInvariant`, `MembershipTypeCorrect`,
`LeaderVotesTheorem`, `MajoritiesOverlapTheorem`.

**Admin calls** (`AdminCallsProofs`). Forwarding climbs because a pod that is asked has seen
the term in which its sender believed it to lead, and, if it then does not lead, can name only a leader of a
later term: `BeliefsTrue` (what a pod believes is true of its term) and `EndsKnowMore`. One
commit per attempt holds because whether an attempt has proposed shows in its phase
(`ProposedOnce`). Theorems: `AdminInvariant`, `AdminTypeCorrect`, `ForwardingTheorem`,
`OneCommitTheorem`, `AcknowledgedTheorem`.

**Shutdown** (`ServerLifecycleProofs`). `LifecycleInv` adds the order of the end (`FileLast`: the file
after raft, raft after its FSM) and that a gRPC server has returned only when its handlers have
(`Drained`). Theorems: `LifecycleInvariant`, `LifecycleTypeCorrect`, `AppliedTheorem`, `GRPCCallsTheorem`.

**Short codes** (`ShortcodeProofs`). The operators on bytes are shown to be what Go does to a `uint64`,
with `Value` for the number of a word: `TimesValue` (`Times` is the product mod 2^64; the places of
the product and the carries are added up to it), `DivisionByBase` (long division), `XorBits`, `ShiftOfWord`. From
these `FoldUndone`, as `v >> 33` reads only the half that folding keeps, and `TimesUndone`, as the constant
has the inverse `hashMulInverse`; together `MixUndone`: for any key and any counter, `scramble` up
to its last line loses nothing. `EncodeReduces` says that the eight characters are the number `v % space`, and
`CodesCollide` exactly which counters get one code: those whose mixed words agree mod `62^8`. It is
the general form of what `shortcode_capacity` shows on two counters. Theorems: `ShortcodeTypeCorrect`,
`MixingIsReversible`, `CodesCollide`, `CodeAndQuotientGiveCounter`.

**Only model-checked**: the liveness properties (`MutexReleased`, `CallsReturn`,
`RoutesConverge`, `VotersConverge`, `HandlersReturn`, `StopsInTheEnd`), which are out of the
prover's reach with their fairness; `BlockCodesDistinct`, which no theorem can state for every key
and every block (by `CodesCollide`, it depends on both), so that it is checked for the default key and
the blocks of the run; `SameOrder`, which would need the order of the rows as a function of the log (an induction
over its entries); and the violations. Induction over data is out of reach as well: the library's
theorems for it take an operator, which the provers cannot instantiate. Where the proofs would want it,
over the entries of the log, the fact is kept as part of an invariant instead (`LastsInv`,
`SurvivalInv`), or taken from the least element of a set of numbers (`LeastNatural`).

## 5. Where code and documentation disagree

Two have a run that TLC ends with a counterexample.

1. **A counter value can be issued twice** (`counter_reuse`). A new leader is asked for a code
   before its FSM has applied the last reservation of its predecessor; `reserveBlock` reads the old
   counter (`cluster.go:228`) without a barrier and commits the same block again.
   `TEACHING.md:141-143` says that at most values are skipped. The consequence is bounded by
   the UNIQUE column: `requests` shows that the second client gets an error and not the first one's code.
2. **Different counters can get the same code** (`shortcode_capacity`). The scrambled word has 64
   bits and is reduced mod `62^8`, so two words that differ by a multiple of it collide: with the
   default key the counters 14950443 and 17602917. `encode.go:5,10-12` speaks of a reversible
   mapping that wraps only beyond `62^8`. Again the UNIQUE column turns it into an error for one client. Nor can the
   key keep deployments from colliding (`encode.go:30-31`): each uses the one space of codes.

The others were met while modelling and follow from the definitions:

- A deposed leader keeps reporting its block: the reset happens only on becoming leader
  (`cluster.go:513-515`); `admin.proto:62` says 0 if follower.
- `follow_count` differs between replicas once one of them has restarted without a snapshot and
  applied follows again (`fsm.go:94-109`); `fsm.go:38-39` demands the same result on each node.
  `FollowsCountedAtLeastOnce` is what remains true.
- So do the ids of rows, and the order of the list with them: a code is inserted, deleted and inserted again,
  then another one; a pod that restarts now without a snapshot repeats the delete and inserts
  the first code after the second. `SameOrder` is what remains true until then.
- A follow can be lost (`stats.go:18-36` does not wait) and, when Envoy repeats an attempt that was committed before its
  connection broke, counted twice; `OneCommitPerAttempt` holds for each attempt.
- A follow that commits after the delete makes a row of statistics without a URL; `schema.sql:9`
  declares the reference, which SQLite enforces only when asked to.
- A pod that does not lead answers `FailedPrecondition` (`urlshortener_grpc.go:51`), a status that
  `retryOn` does not name, so the first attempt is the last; `TEACHING.md:835` says the retry policy covers the gap.
- A failed label patch is logged (`cluster.go:523-525`) and repeated only when leadership changes;
  until then writes find no leader. `RoutesConverge` excepts such pods.
- `cluster.go:321` logs that a pod that ran out of attempts "will remain as a non-voter", while
  `reconcilePeers` of the leader adds it within one interval, on which `VotersConverge` relies.
- `ShutdownTimeout` is said to limit each component (`config.go:10`) and limits the
  exporters of telemetry only.
- A SIGTERM that comes before a gRPC server has begun to serve makes the process exit with
  status 1 (`ErrServerStopped` is passed to the errgroup). HTTP handlers that are being drained are not waited
  for, gRPC handlers may find the file closed and answer an error, and follows under way are lost.
- In the admin UI, Next on the first page adds nothing to the history, so that the second page
  counts as page 1 and has no Previous; an answer that comes late can set the next token back.
  Neither makes a URL unreachable (`NoURLSkipped`), but one whose id differs between pods can be skipped.

## 6. What is not modelled

- `created_at` of `urls`: each replica fills it by itself and nothing decides by it.
- SQLite statements that fail for other reasons than the UNIQUE column (a full disk): the FSM
  returns the error as the result of an entry that counts as applied.
- Scaling the StatefulSet up or down, and the loss of a volume: pod 0 without its volume would found a
  cluster of its own beside the other pods' (`cluster.go:147`).
- The insides of raft, Envoy, Kubernetes and Istio. Network loss and delay appear where
  the code meets them: answers and attempts that are lost, entries that commit late, lists and labels that lag.
- `GetRaftState`, `GetCounterState` and `GetFollowStats`, which copy what they read into an answer, and
  the pages of the UI that show it.
- Configuration, metrics, tracing and logging: no protocol state of their own. Manifests and
  dashboards, except for what they say of retries, timeouts, labels and volumes.

## 7. The plan

In order of importance; all parts are modelled and checked.

| Part | Modules | Proved |
|---|---|---|
| A. counter reservation | `CounterReservation`, `CounterDispenser` | types, all safety properties, the refinement |
| B. replicated store | `UrlDatabase`, `UrlReplicas` | types, all safety properties |
| C. shorten requests, composed with B | `ShortenRequests` | types, all safety properties |
| D. leader label and routing | `LeaderRouting` | types, safety |
| E. membership | `Membership` | types, safety, action property |
| F. abstract shortener, implemented by C | `Shortener` | the refinement |
| G, H. follow recording, admin calls and forwarding | `AdminCalls` | types, all safety properties |
| I. short codes | `Shortcode` | types, reversibility, which codes collide |
| J. listing and pager | `UrlListing` | types, no URL skipped |
| K. process wiring | `ServerLifecycle` | types, all safety properties |
