----------------------------- MODULE Shortcode -----------------------------
(***************************************************************************)
(* internal/shortcode: from a counter to the eight characters of its code, *)
(* with the 64-bit arithmetic of the code.  TLC's integers have 32 bits,   *)
(* so a word is a sequence of its eight bytes, the lowest first.           *)
(*                                                                         *)
(* The state machine stands for the handlers: it encodes the counters of   *)
(* reserved blocks, in their order; what other blocks encode is left out.  *)
(***************************************************************************)
EXTENDS Naturals, Sequences, FiniteSets

CONSTANTS
    XorKey,     \* the word short_code_xor_key
    Blocks,     \* the words that start the blocks, ascending
    BlockSize   \* counters of a block

Byte == 0..255
Word == [1..8 -> Byte]
Code == [1..8 -> 0..61]     \* a character stands for its place in the alphabet

ASSUME XorKeyAssumption == XorKey \in Word
ASSUME BlocksAssumption == Blocks \in Seq(Word) /\ Blocks # <<>>
ASSUME BlockSizeAssumption == BlockSize \in Nat \ {0}

VARIABLES
    block,      \* the block whose counters are encoded
    counter,    \* the next counter of it
    left,       \* how many it has left
    encoded     \* the codes so far, with their counters

vars == <<block, counter, left, encoded>>

-----------------------------------------------------------------------------
(***************************************************************************)
(* Words                                                                   *)
(***************************************************************************)

\* The eight values of f; spelt out, so that TLC evaluates each once.
Bytes(f(_)) == <<f(1), f(2), f(3), f(4), f(5), f(6), f(7), f(8)>>

Total(f(_)) == f(1) + f(2) + f(3) + f(4) + f(5) + f(6) + f(7) + f(8)

\* Eight values again, each made from the one before it, the first from start.
Chain(f(_, _), start) ==
    LET c1 == f(1, start) c2 == f(2, c1) c3 == f(3, c2) c4 == f(4, c3)
        c5 == f(5, c4)    c6 == f(6, c5) c7 == f(7, c6) c8 == f(8, c7)
    IN  <<c1, c2, c3, c4, c5, c6, c7, c8>>

\* The bit of weight w, and the exclusive or of two bytes.
Bit(a, w) == (a \div w) % 2
Weights == <<1, 2, 4, 8, 16, 32, 64, 128>>
XorByte(a, b) == Total(LAMBDA i :
    IF Bit(a, Weights[i]) = Bit(b, Weights[i]) THEN 0 ELSE Weights[i])

XorWords(v, w) == Bytes(LAMBDA i : XorByte(v[i], w[i]))

\* What the bytes of both words give to place i of their product.
Place(v, w, i) == Total(LAMBDA j : IF j <= i THEN v[j] * w[i + 1 - j] ELSE 0)

\* The product mod 2^64: each place keeps a byte and carries on the rest.
Times(v, w) ==
    LET places == Chain(LAMBDA i, below : Place(v, w, i) + (below \div 256), 0)
    IN  Bytes(LAMBDA i : places[i] % 256)

\* v >> n for n = 8 * bytes + b, where power is 2^b and less than 256.
ShiftRight(v, bytes, power) ==
    LET byte(i) == IF i <= 8 THEN v[i] ELSE 0
    IN  Bytes(LAMBDA i : (byte(i + bytes) \div power)
                           + (byte(i + bytes + 1) % power) * (256 \div power))

\* Long division by 62, from the highest byte down.
Base == 62
Partial(v) == Chain(LAMBDA k, above : v[9 - k] + 256 * (above % Base), 0)
Quotient(v) == LET partial == Partial(v) IN Bytes(LAMBDA i : partial[9 - i] \div Base)
Remainder(v) == Partial(v)[8] % Base

Increment(v) ==
    Bytes(LAMBDA i : IF \A j \in 1..(i - 1) : v[j] = 255 THEN (v[i] + 1) % 256 ELSE v[i])

-----------------------------------------------------------------------------
(***************************************************************************)
(* Encode                                                                  *)
(***************************************************************************)

\* 6364136223846793005, and its inverse mod 2^64.
hashMul == <<45, 127, 149, 76, 45, 244, 81, 88>>
hashMulInverse == <<165, 40, 158, 50, 135, 239, 151, 192>>

\* Mutant: the word is folded by 31 bits.
FoldBy31(v) == XorWords(v, ShiftRight(v, 3, 128))

\* v ^= v >> 33
Fold(v) == XorWords(v, ShiftRight(v, 4, 2))

\* scramble up to the last line: a word again, not yet reduced.
Mix(c) == Fold(Times(XorWords(c, XorKey), hashMul))

\* What is left of v after each of the divisions by 62.
Left(v) == Chain(LAMBDA k, rest : IF k = 1 THEN v ELSE Quotient(rest), v)

\* Mutant: v is not divided in the loop.
ToBase62Undivided(v) == Bytes(LAMBDA i : Remainder(v))

\* Mutant: the first character is for all that is left of v, which is not reduced.
ToBase62Unreduced(v) ==
    LET rest == Left(v)
    IN  Bytes(LAMBDA i : IF i = 1 THEN rest[8][1] ELSE Remainder(rest[9 - i]))

\* toBase62 of v % space: space is 62^8, so that the reduced word has the last
\* eight digits of the word.  The last character is made first.
ToBase62(v) == LET rest == Left(v) IN Bytes(LAMBDA i : Remainder(rest[9 - i]))

Encode(c) == ToBase62(Mix(c))

-----------------------------------------------------------------------------
Init ==
    /\ block = 1 /\ counter = Blocks[1] /\ left = BlockSize
    /\ encoded = {}

EncodeNext ==
    /\ left > 0
    /\ encoded' = encoded \cup {[block |-> block, counter |-> counter, code |-> Encode(counter)]}
    /\ counter' = Increment(counter)
    /\ left' = left - 1
    /\ UNCHANGED block

\* A block of which a part goes to waste encodes no more than a whole one.
NextBlock ==
    /\ left = 0 /\ block < Len(Blocks)
    /\ block' = block + 1
    /\ counter' = Blocks[block + 1]
    /\ left' = BlockSize
    /\ UNCHANGED encoded

Next == EncodeNext \/ NextBlock

Spec == Init /\ [][Next]_vars

(***************************************************************************)
(* Properties                                                              *)
(***************************************************************************)

\* Every variable has its type.
TypeOK ==
    /\ block \in 1..Len(Blocks)
    /\ counter \in Word
    /\ left \in 0..BlockSize
    /\ encoded \subseteq [block : 1..Len(Blocks), counter : Word, code : Code]

\* What the comment of the package calls reversible (encode.go:5) is reversible
\* as a word: two counters never mix to the same one.  Folding by 33 undoes
\* itself, because what it folds in is more than half a word away.
Unmix(v) == XorWords(Times(Fold(v), hashMulInverse), XorKey)
MixReversible == Unmix(Mix(counter)) = counter

\* The counters of one block (cluster.go:213-247) get different codes, so that no
\* insert of the block is refused because of another one (schema.sql:3).
BlockCodesDistinct ==
    LET ofBlock == {e \in encoded : e.block = block}
    IN  Cardinality({e.code : e \in ofBlock}) = Cardinality(ofBlock)

(***************************************************************************)
(* What the comments say and the code does not do                          *)
(***************************************************************************)

\* encode.go:5 and 10-12: the mapping is reversible, there are 62^8 unique codes,
\* and only counters beyond that wrap: counters below get different codes.
CodesUnique == Cardinality({e.code : e \in encoded}) = Cardinality(encoded)
=============================================================================
