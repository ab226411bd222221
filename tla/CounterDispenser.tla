-------------------------- MODULE CounterDispenser --------------------------
(***************************************************************************)
(* What the counter promises whoever draws codes from it, with no node, no *)
(* mutex and no FSM: blocks of values that are reserved one after another, *)
(* and calls that get a value each.  A new leader may know an old counter, *)
(* so that its block overlaps with others.  What holds all the same is     *)
(* that a value is given no more often than it was reserved.               *)
(*                                                                         *)
(* CounterReservation implements it.                                       *)
(***************************************************************************)
EXTENDS Naturals, Sequences, FiniteSets

CONSTANTS
    Calls,      \* who gets a value, each at most one
    Terms,      \* the terms of leaders
    BlockSize

VARIABLES
    blocks,     \* the reserved blocks, oldest first, each with the term of its leader
    given       \* the values given out, each with the call that got it

vars == <<blocks, given>>

End(b) == b.base + BlockSize
Values(b) == b.base..(End(b) - 1)

\* The counter that the first i blocks leave.
CounterAt(i) == IF i = 0 THEN 0 ELSE End(blocks[i])

\* How often a value was given, and how often it was reserved.
Takers(v) == {g \in given : g.value = v}
Holders(v) == {i \in 1..Len(blocks) : v \in Values(blocks[i])}

Init == blocks = <<>> /\ given = {}

\* A leader reserves the next block after some earlier one: after the last one,
\* if that is its own.
Reserve(b) ==
    /\ blocks' = Append(blocks, b)
    /\ b \in [term : Terms, base : Nat]
    /\ \A i \in 1..Len(blocks) : blocks[i].term <= b.term
    /\ \E i \in 0..Len(blocks) :
         /\ b.base = CounterAt(i)
         /\ Len(blocks) > 0 /\ blocks[Len(blocks)].term = b.term => i = Len(blocks)
    /\ UNCHANGED given

\* A call gets its value: one that was given less often than it was reserved.
Give(g) ==
    /\ given' = given \cup {g}
    /\ g \in [call : Calls, value : Nat]
    /\ \A h \in given : h.call # g.call
    /\ Cardinality(Takers(g.value)) < Cardinality(Holders(g.value))
    /\ UNCHANGED blocks

\* What is new is read off the step, so that there is nothing to guess.
Next ==
    \/ \E i \in (Len(blocks) + 1)..Len(blocks') : Reserve(blocks'[i])
    \/ \E g \in given' \ given : Give(g)

Spec == Init /\ [][Next]_vars
=============================================================================
