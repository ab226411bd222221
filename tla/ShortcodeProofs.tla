-------------------------- MODULE ShortcodeProofs --------------------------
(***************************************************************************)
(* Proofs about Shortcode, for every key, every 64-bit counter and blocks  *)
(* of any size: the operators on bytes compute what the operators of Go    *)
(* do on uint64, the mixing of a word can be undone, and two counters      *)
(* share a code exactly when their mixed words agree mod 62^8.             *)
(*                                                                         *)
(* 2^64 and 62^8 appear as literals, and numbers are summed up from the    *)
(* highest digit down, because tlapm multiplies two literals in a machine  *)
(* word: a product of literals beyond 2^62 would not be what it says.      *)
(***************************************************************************)
EXTENDS Shortcode, Integers, TLAPS

(***************************************************************************)
(* Exclusive or and shift                                                  *)
(***************************************************************************)
LEMMA WordParts ==
  ASSUME NEW v \in Word
  PROVE  /\ \A i \in 1..8 : v[i] \in 0..255
         /\ v = <<v[1], v[2], v[3], v[4], v[5], v[6], v[7], v[8]>>
<1>1. \A i \in 1..8 : v[i] \in 0..255
  BY DEF Word, Byte
<1>2. v = <<v[1], v[2], v[3], v[4], v[5], v[6], v[7], v[8]>>
  BY DEF Word
<1> QED BY <1>1, <1>2

BitWeights == {1, 2, 4, 8, 16, 32, 64, 128}

\* A byte is the sum of its bits, so that bytes with the same bits are the same.
LEMMA ByteOfBits ==
  ASSUME NEW a \in Byte
  PROVE  a = 1 * Bit(a, 1) + 2 * Bit(a, 2) + 4 * Bit(a, 4) + 8 * Bit(a, 8)
               + 16 * Bit(a, 16) + 32 * Bit(a, 32) + 64 * Bit(a, 64) + 128 * Bit(a, 128)
BY DEF Bit, Byte

LEMMA BytesFromBits ==
  ASSUME NEW a \in Byte, NEW b \in Byte,
         \A w \in BitWeights : Bit(a, w) = Bit(b, w)
  PROVE  a = b
<1>1. /\ Bit(a, 1) = Bit(b, 1) /\ Bit(a, 2) = Bit(b, 2) /\ Bit(a, 4) = Bit(b, 4)
      /\ Bit(a, 8) = Bit(b, 8) /\ Bit(a, 16) = Bit(b, 16) /\ Bit(a, 32) = Bit(b, 32)
      /\ Bit(a, 64) = Bit(b, 64) /\ Bit(a, 128) = Bit(b, 128)
  BY DEF BitWeights
<1> QED BY <1>1, ByteOfBits

\* Each bit of the exclusive or says whether the bits differ.
LEMMA XorBits ==
  ASSUME NEW a \in Byte, NEW b \in Byte
  PROVE  /\ XorByte(a, b) \in Byte
         /\ \A w \in BitWeights :
              Bit(XorByte(a, b), w) = IF Bit(a, w) = Bit(b, w) THEN 0 ELSE 1
<1> DEFINE b1 == IF Bit(a, 1) = Bit(b, 1) THEN 0 ELSE 1
           b2 == IF Bit(a, 2) = Bit(b, 2) THEN 0 ELSE 1
           b3 == IF Bit(a, 4) = Bit(b, 4) THEN 0 ELSE 1
           b4 == IF Bit(a, 8) = Bit(b, 8) THEN 0 ELSE 1
           b5 == IF Bit(a, 16) = Bit(b, 16) THEN 0 ELSE 1
           b6 == IF Bit(a, 32) = Bit(b, 32) THEN 0 ELSE 1
           b7 == IF Bit(a, 64) = Bit(b, 64) THEN 0 ELSE 1
           b8 == IF Bit(a, 128) = Bit(b, 128) THEN 0 ELSE 1
           x == XorByte(a, b)
<1>1. x = b1 + 2 * b2 + 4 * b3 + 8 * b4 + 16 * b5 + 32 * b6 + 64 * b7 + 128 * b8
  BY DEF XorByte, Total, Weights
<1>2. /\ b1 \in 0..1 /\ b2 \in 0..1 /\ b3 \in 0..1 /\ b4 \in 0..1
      /\ b5 \in 0..1 /\ b6 \in 0..1 /\ b7 \in 0..1 /\ b8 \in 0..1
  OBVIOUS
<1>3. /\ x \in Byte
      /\ Bit(x, 1) = b1 /\ Bit(x, 2) = b2 /\ Bit(x, 4) = b3 /\ Bit(x, 8) = b4
      /\ Bit(x, 16) = b5 /\ Bit(x, 32) = b6 /\ Bit(x, 64) = b7 /\ Bit(x, 128) = b8
  <2> HIDE DEF x, b1, b2, b3, b4, b5, b6, b7, b8
  <2> QED BY <1>1, <1>2 DEF Bit, Byte
<1> QED BY <1>3 DEF BitWeights

LEMMA XorUndone ==
  ASSUME NEW a \in Byte, NEW b \in Byte
  PROVE  XorByte(XorByte(a, b), b) = a
<1>1. \A w \in BitWeights : Bit(a, w) \in 0..1 /\ Bit(b, w) \in 0..1
  BY DEF Bit, Byte, BitWeights
<1>2. XorByte(a, b) \in Byte /\ XorByte(XorByte(a, b), b) \in Byte
  BY XorBits
<1>3. \A w \in BitWeights : Bit(XorByte(XorByte(a, b), b), w) = Bit(a, w)
  BY <1>1, <1>2, XorBits
<1> QED BY <1>2, <1>3, BytesFromBits

LEMMA XorWordsUndone ==
  ASSUME NEW v \in Word, NEW w \in Word
  PROVE  XorWords(v, w) \in Word /\ XorWords(XorWords(v, w), w) = v
<1> DEFINE x == XorWords(v, w)
<1>1. \A i \in 1..8 : v[i] \in Byte /\ w[i] \in Byte
  BY DEF Word
<1>2. \A i \in 1..8 : x[i] = XorByte(v[i], w[i])
  BY DEF XorWords, Bytes
<1>3. x \in Word
  <2>1. \A i \in 1..8 : XorByte(v[i], w[i]) \in Byte
    BY <1>1, XorBits
  <2> QED BY <2>1 DEF XorWords, Bytes, Word
<1> HIDE DEF x
<1>4. \A i \in 1..8 : XorByte(x[i], w[i]) = v[i]
  BY <1>1, <1>2, XorUndone
<1>5. XorWords(x, w) = v
  BY <1>4, WordParts DEF XorWords, Bytes
<1> QED BY <1>3, <1>5 DEF x

\* What v >> 33 is: made of the upper half of v, and zero in its own upper half.
LEMMA ShiftOfWord ==
  ASSUME NEW v \in Word
  PROVE  /\ ShiftRight(v, 4, 2) \in Word
         /\ \A i \in 5..8 : ShiftRight(v, 4, 2)[i] = 0
         /\ \A w \in Word : (\A i \in 5..8 : w[i] = v[i])
                              => ShiftRight(w, 4, 2) = ShiftRight(v, 4, 2)
<1>1. ASSUME NEW w \in Word
      PROVE  ShiftRight(w, 4, 2) =
                <<(w[5] \div 2) + (w[6] % 2) * 128, (w[6] \div 2) + (w[7] % 2) * 128,
                  (w[7] \div 2) + (w[8] % 2) * 128, w[8] \div 2, 0, 0, 0, 0>>
  <2>1. \A i \in 1..8 : w[i] \in 0..255
    BY DEF Word, Byte
  <2> QED BY <2>1 DEF ShiftRight, Bytes
<1>2. \A i \in 1..8 : v[i] \in 0..255
  BY DEF Word, Byte
<1>3. ShiftRight(v, 4, 2) \in Word
  BY <1>1, <1>2 DEF Word, Byte
<1>4. \A i \in 5..8 : ShiftRight(v, 4, 2)[i] = 0
  BY <1>1
<1>5. ASSUME NEW w \in Word, \A i \in 5..8 : w[i] = v[i]
      PROVE  ShiftRight(w, 4, 2) = ShiftRight(v, 4, 2)
  BY <1>1, <1>5
<1> QED BY <1>3, <1>4, <1>5

LEMMA XorZero ==
  ASSUME NEW a \in Byte
  PROVE  XorByte(a, 0) = a
<1>1. 0 \in Byte
  BY DEF Byte
<1>2. \A w \in BitWeights : Bit(a, w) \in 0..1 /\ Bit(0, w) = 0
  BY DEF Bit, Byte, BitWeights
<1> QED BY <1>1, <1>2, XorBits, BytesFromBits

\* Folding keeps the upper half, hence what is folded in, and so undoes itself.
LEMMA FoldUndone ==
  ASSUME NEW v \in Word
  PROVE  Fold(v) \in Word /\ Fold(Fold(v)) = v
<1> DEFINE s == ShiftRight(v, 4, 2)
           f == XorWords(v, s)
<1>1. s \in Word /\ f \in Word /\ XorWords(f, s) = v
  BY ShiftOfWord, XorWordsUndone
<1>2. \A i \in 5..8 : f[i] = v[i]
  <2>1. \A i \in 1..8 : f[i] = XorByte(v[i], s[i])
    BY DEF XorWords, Bytes
  <2>2. \A i \in 5..8 : s[i] = 0 /\ v[i] \in Byte
    BY ShiftOfWord DEF Word
  <2> QED BY <2>1, <2>2, XorZero
<1>3. ShiftRight(f, 4, 2) = s
  BY <1>1, <1>2, ShiftOfWord
<1> QED BY <1>1, <1>3 DEF Fold

(***************************************************************************)
(* Words as numbers                                                        *)
(***************************************************************************)

\* The number of eight bytes, the lowest first, and of a word.
Eight(a, b, c, d, e, f, g, h) ==
    a + 256 * (b + 256 * (c + 256 * (d + 256 * (e + 256 * (f + 256 * (g + 256 * h))))))

Value(v) == Eight(v[1], v[2], v[3], v[4], v[5], v[6], v[7], v[8])

TwoTo64 == 18446744073709551616

LEMMA BytesOfWord ==
  ASSUME NEW v \in Word
  PROVE  /\ v[1] \in 0..255 /\ v[2] \in 0..255 /\ v[3] \in 0..255 /\ v[4] \in 0..255
         /\ v[5] \in 0..255 /\ v[6] \in 0..255 /\ v[7] \in 0..255 /\ v[8] \in 0..255
<1>1. \A i \in 1..8 : v[i] \in 0..255
  BY DEF Word, Byte
<1> QED BY <1>1

LEMMA ValueOfWord ==
  ASSUME NEW v \in Word
  PROVE  Value(v) \in Nat /\ Value(v) < TwoTo64
<1> DEFINE a1 == v[1]    a2 == v[2]    a3 == v[3]    a4 == v[4]
           a5 == v[5]    a6 == v[6]    a7 == v[7]    a8 == v[8]
<1>1. /\ a1 \in 0..255 /\ a2 \in 0..255 /\ a3 \in 0..255 /\ a4 \in 0..255
      /\ a5 \in 0..255 /\ a6 \in 0..255 /\ a7 \in 0..255 /\ a8 \in 0..255
  BY BytesOfWord
<1>2. Value(v) = Eight(a1, a2, a3, a4, a5, a6, a7, a8)
  BY DEF Value
<1> HIDE DEF a1, a2, a3, a4, a5, a6, a7, a8
<1> QED BY <1>1, <1>2 DEF Eight, TwoTo64

LEMMA LastDigit ==
  ASSUME NEW d \in Nat \ {0}, NEW m \in Int, NEW n \in Int,
         NEW a \in 0..(d - 1), NEW b \in 0..(d - 1), a + d * m = b + d * n
  PROVE  a = b /\ m = n
<1>1. d * (m - n) = b - a
  OBVIOUS
<1>2. CASE m - n >= 1
  BY <1>1, <1>2
<1>3. CASE m - n <= 0 - 1
  BY <1>1, <1>3
<1> QED BY <1>1, <1>2, <1>3

LEMMA ValueInjective ==
  ASSUME NEW v \in Word, NEW w \in Word, Value(v) = Value(w)
  PROVE  v = w
<1> DEFINE a1 == v[1]    a2 == v[2]    a3 == v[3]    a4 == v[4]
           a5 == v[5]    a6 == v[6]    a7 == v[7]    a8 == v[8]
           b1 == w[1]    b2 == w[2]    b3 == w[3]    b4 == w[4]
           b5 == w[5]    b6 == w[6]    b7 == w[7]    b8 == w[8]
<1>1. /\ a1 \in 0..255 /\ a2 \in 0..255 /\ a3 \in 0..255 /\ a4 \in 0..255
      /\ a5 \in 0..255 /\ a6 \in 0..255 /\ a7 \in 0..255 /\ a8 \in 0..255
      /\ b1 \in 0..255 /\ b2 \in 0..255 /\ b3 \in 0..255 /\ b4 \in 0..255
      /\ b5 \in 0..255 /\ b6 \in 0..255 /\ b7 \in 0..255 /\ b8 \in 0..255
  BY BytesOfWord
<1>2. Eight(a1, a2, a3, a4, a5, a6, a7, a8) = Eight(b1, b2, b3, b4, b5, b6, b7, b8)
  BY DEF Value
<1> HIDE DEF a1, a2, a3, a4, a5, a6, a7, a8, b1, b2, b3, b4, b5, b6, b7, b8
<1> DEFINE v7 == a7 + 256 * a8    w7 == b7 + 256 * b8
           v6 == a6 + 256 * v7    w6 == b6 + 256 * w7
           v5 == a5 + 256 * v6    w5 == b5 + 256 * w6
           v4 == a4 + 256 * v5    w4 == b4 + 256 * w5
           v3 == a3 + 256 * v4    w3 == b3 + 256 * w4
           v2 == a2 + 256 * v3    w2 == b2 + 256 * w3
<1>3. /\ v7 \in Int /\ v6 \in Int /\ v5 \in Int /\ v4 \in Int /\ v3 \in Int /\ v2 \in Int
      /\ w7 \in Int /\ w6 \in Int /\ w5 \in Int /\ w4 \in Int /\ w3 \in Int /\ w2 \in Int
  BY <1>1
<1> HIDE DEF v2, v3, v4, v5, v6, v7, w2, w3, w4, w5, w6, w7
<1>4. a1 = b1 /\ v2 = w2
  <2>1. a1 + 256 * v2 = b1 + 256 * w2
    BY <1>2 DEF Eight, v2, v3, v4, v5, v6, v7, w2, w3, w4, w5, w6, w7
  <2> QED BY <1>1, <1>3, <2>1
<1>5. a2 = b2 /\ v3 = w3
  <2>1. a2 + 256 * v3 = b2 + 256 * w3
    BY <1>4 DEF v2, w2
  <2> QED BY <1>1, <1>3, <2>1
<1>6. a3 = b3 /\ v4 = w4
  <2>1. a3 + 256 * v4 = b3 + 256 * w4
    BY <1>5 DEF v3, w3
  <2> QED BY <1>1, <1>3, <2>1
<1>7. a4 = b4 /\ v5 = w5
  <2>1. a4 + 256 * v5 = b4 + 256 * w5
    BY <1>6 DEF v4, w4
  <2> QED BY <1>1, <1>3, <2>1
<1>8. a5 = b5 /\ v6 = w6
  <2>1. a5 + 256 * v6 = b5 + 256 * w6
    BY <1>7 DEF v5, w5
  <2> QED BY <1>1, <1>3, <2>1
<1>9. a6 = b6 /\ v7 = w7
  <2>1. a6 + 256 * v7 = b6 + 256 * w7
    BY <1>8 DEF v6, w6
  <2> QED BY <1>1, <1>3, <2>1
<1>10. a7 = b7 /\ a8 = b8
  <2>1. a7 + 256 * a8 = b7 + 256 * b8
    BY <1>9 DEF v7, w7
  <2> QED BY <1>1, <1>3, <2>1
<1> QED
  BY <1>4, <1>5, <1>6, <1>7, <1>8, <1>9, <1>10, WordParts
     DEF a1, a2, a3, a4, a5, a6, a7, a8, b1, b2, b3, b4, b5, b6, b7, b8

LEMMA Division ==
  ASSUME NEW n \in Int, NEW d \in Nat \ {0}
  PROVE  /\ n = d * (n \div d) + (n % d)
         /\ n % d \in 0..(d - 1) /\ n \div d \in Int
OBVIOUS

LEMMA DivisionUnique ==
  ASSUME NEW d \in Nat \ {0}, NEW q \in Int, NEW r \in 0..(d - 1)
  PROVE  (d * q + r) % d = r /\ (d * q + r) \div d = q
<1>1. d * q + r \in Int
  OBVIOUS
<1> QED BY <1>1, Division, LastDigit

(***************************************************************************)
(* Multiplication                                                          *)
(***************************************************************************)
LEMMA PlacesOfProduct ==
  ASSUME NEW v \in Word, NEW w \in Word
  PROVE  /\ Place(v, w, 1) = v[1] * w[1]
         /\ Place(v, w, 2) = v[1] * w[2] + v[2] * w[1]
         /\ Place(v, w, 3) = v[1] * w[3] + v[2] * w[2] + v[3] * w[1]
         /\ Place(v, w, 4) = v[1] * w[4] + v[2] * w[3] + v[3] * w[2] + v[4] * w[1]
         /\ Place(v, w, 5) = v[1] * w[5] + v[2] * w[4] + v[3] * w[3] + v[4] * w[2]
                               + v[5] * w[1]
         /\ Place(v, w, 6) = v[1] * w[6] + v[2] * w[5] + v[3] * w[4] + v[4] * w[3]
                               + v[5] * w[2] + v[6] * w[1]
         /\ Place(v, w, 7) = v[1] * w[7] + v[2] * w[6] + v[3] * w[5] + v[4] * w[4]
                               + v[5] * w[3] + v[6] * w[2] + v[7] * w[1]
         /\ Place(v, w, 8) = v[1] * w[8] + v[2] * w[7] + v[3] * w[6] + v[4] * w[5]
                               + v[5] * w[4] + v[6] * w[3] + v[7] * w[2] + v[8] * w[1]
         /\ \A i \in 1..8 : Place(v, w, i) \in Nat
<1>1. \A i, j \in 1..8 : v[i] * w[j] \in Nat
  <2>1. ASSUME NEW a \in Nat, NEW b \in Nat PROVE a * b \in Nat
    OBVIOUS
  <2>2. \A i \in 1..8 : v[i] \in Nat /\ w[i] \in Nat
    <3>1. \A i \in 1..8 : v[i] \in 0..255
      BY WordParts
    <3>2. \A i \in 1..8 : w[i] \in 0..255
      BY WordParts
    <3>3. \A a \in 0..255 : a \in Nat
      OBVIOUS
    <3> QED BY <3>1, <3>2, <3>3
  <2> QED BY <2>1, <2>2
<1>2. Place(v, w, 1) = v[1] * w[1]
  BY <1>1 DEF Place, Total
<1>3. Place(v, w, 2) = v[1] * w[2] + v[2] * w[1]
  BY <1>1 DEF Place, Total
<1>4. Place(v, w, 3) = v[1] * w[3] + v[2] * w[2] + v[3] * w[1]
  BY <1>1 DEF Place, Total
<1>5. Place(v, w, 4) = v[1] * w[4] + v[2] * w[3] + v[3] * w[2] + v[4] * w[1]
  BY <1>1 DEF Place, Total
<1>6. Place(v, w, 5) = v[1] * w[5] + v[2] * w[4] + v[3] * w[3] + v[4] * w[2] + v[5] * w[1]
  BY <1>1 DEF Place, Total
<1>7. Place(v, w, 6) = v[1] * w[6] + v[2] * w[5] + v[3] * w[4] + v[4] * w[3]
                         + v[5] * w[2] + v[6] * w[1]
  BY <1>1 DEF Place, Total
<1>8. Place(v, w, 7) = v[1] * w[7] + v[2] * w[6] + v[3] * w[5] + v[4] * w[4]
                         + v[5] * w[3] + v[6] * w[2] + v[7] * w[1]
  BY <1>1 DEF Place, Total
<1>9. Place(v, w, 8) = v[1] * w[8] + v[2] * w[7] + v[3] * w[6] + v[4] * w[5]
                         + v[5] * w[4] + v[6] * w[3] + v[7] * w[2] + v[8] * w[1]
  BY <1>1 DEF Place, Total
<1>10. ASSUME NEW i \in 1..8 PROVE Place(v, w, i) \in Nat
  BY <1>1 DEF Place, Total
<1> QED BY <1>2, <1>3, <1>4, <1>5, <1>6, <1>7, <1>8, <1>9, <1>10

\* The product of two numbers, without what lies beyond the eighth place.
LEMMA ProductByPlaces ==
  ASSUME NEW v \in Word, NEW w \in Word
  PROVE  \E k \in Int :
           Value(v) * Value(w) =
             Eight(Place(v, w, 1), Place(v, w, 2), Place(v, w, 3), Place(v, w, 4),
                   Place(v, w, 5), Place(v, w, 6), Place(v, w, 7), Place(v, w, 8)) + TwoTo64 * k
<1> DEFINE a1 == v[1]    a2 == v[2]    a3 == v[3]    a4 == v[4]
           a5 == v[5]    a6 == v[6]    a7 == v[7]    a8 == v[8]
           b1 == w[1]    b2 == w[2]    b3 == w[3]    b4 == w[4]
           b5 == w[5]    b6 == w[6]    b7 == w[7]    b8 == w[8]
           beyond ==
             (a2 * b8 + a3 * b7 + a4 * b6 + a5 * b5 + a6 * b4 + a7 * b3 + a8 * b2)
               + 256 * (a3 * b8 + a4 * b7 + a5 * b6 + a6 * b5 + a7 * b4 + a8 * b3
               + 256 * (a4 * b8 + a5 * b7 + a6 * b6 + a7 * b5 + a8 * b4
               + 256 * (a5 * b8 + a6 * b7 + a7 * b6 + a8 * b5
               + 256 * (a6 * b8 + a7 * b7 + a8 * b6
               + 256 * (a7 * b8 + a8 * b7
               + 256 * (a8 * b8))))))
           l1 == a1 * b1
           l2 == a1 * b2 + a2 * b1
           l3 == a1 * b3 + a2 * b2 + a3 * b1
           l4 == a1 * b4 + a2 * b3 + a3 * b2 + a4 * b1
           l5 == a1 * b5 + a2 * b4 + a3 * b3 + a4 * b2 + a5 * b1
           l6 == a1 * b6 + a2 * b5 + a3 * b4 + a4 * b3 + a5 * b2 + a6 * b1
           l7 == a1 * b7 + a2 * b6 + a3 * b5 + a4 * b4 + a5 * b3 + a6 * b2 + a7 * b1
           l8 == a1 * b8 + a2 * b7 + a3 * b6 + a4 * b5 + a5 * b4 + a6 * b3 + a7 * b2 + a8 * b1
           low == Eight(l1, l2, l3, l4, l5, l6, l7, l8)
<1>1. /\ a1 \in 0..255 /\ a2 \in 0..255 /\ a3 \in 0..255 /\ a4 \in 0..255
      /\ a5 \in 0..255 /\ a6 \in 0..255 /\ a7 \in 0..255 /\ a8 \in 0..255
      /\ b1 \in 0..255 /\ b2 \in 0..255 /\ b3 \in 0..255 /\ b4 \in 0..255
      /\ b5 \in 0..255 /\ b6 \in 0..255 /\ b7 \in 0..255 /\ b8 \in 0..255
  BY BytesOfWord
<1>2. Eight(Place(v, w, 1), Place(v, w, 2), Place(v, w, 3), Place(v, w, 4),
            Place(v, w, 5), Place(v, w, 6), Place(v, w, 7), Place(v, w, 8)) = low
  <2>1. /\ Place(v, w, 1) = l1 /\ Place(v, w, 2) = l2 /\ Place(v, w, 3) = l3
        /\ Place(v, w, 4) = l4 /\ Place(v, w, 5) = l5 /\ Place(v, w, 6) = l6
        /\ Place(v, w, 7) = l7 /\ Place(v, w, 8) = l8
    BY PlacesOfProduct
  <2> HIDE DEF l1, l2, l3, l4, l5, l6, l7, l8
  <2> QED BY <2>1
<1>3. Value(v) = Eight(a1, a2, a3, a4, a5, a6, a7, a8) /\ Value(w) = Eight(b1, b2, b3, b4, b5, b6, b7, b8)
  BY DEF Value
<1> HIDE DEF a1, a2, a3, a4, a5, a6, a7, a8, b1, b2, b3, b4, b5, b6, b7, b8
<1>4. Eight(a1, a2, a3, a4, a5, a6, a7, a8) * Eight(b1, b2, b3, b4, b5, b6, b7, b8)
        = low + TwoTo64 * beyond
  BY <1>1 DEF Eight, TwoTo64
<1>5. beyond \in Int
  BY <1>1
<1> HIDE DEF beyond, low
<1> QED BY <1>2, <1>3, <1>4, <1>5

LEMMA TimesByPlace ==
  ASSUME NEW v, NEW w
  PROVE  LET c1 == Place(v, w, 1) + (0 \div 256)
             c2 == Place(v, w, 2) + (c1 \div 256)
             c3 == Place(v, w, 3) + (c2 \div 256)
             c4 == Place(v, w, 4) + (c3 \div 256)
             c5 == Place(v, w, 5) + (c4 \div 256)
             c6 == Place(v, w, 6) + (c5 \div 256)
             c7 == Place(v, w, 7) + (c6 \div 256)
             c8 == Place(v, w, 8) + (c7 \div 256)
         IN  Times(v, w) = <<c1 % 256, c2 % 256, c3 % 256, c4 % 256,
                             c5 % 256, c6 % 256, c7 % 256, c8 % 256>>
<1> DEFINE c1 == Place(v, w, 1) + (0 \div 256)     c2 == Place(v, w, 2) + (c1 \div 256)
           c3 == Place(v, w, 3) + (c2 \div 256)    c4 == Place(v, w, 4) + (c3 \div 256)
           c5 == Place(v, w, 5) + (c4 \div 256)    c6 == Place(v, w, 6) + (c5 \div 256)
           c7 == Place(v, w, 7) + (c6 \div 256)    c8 == Place(v, w, 8) + (c7 \div 256)
           p == Chain(LAMBDA i, below : Place(v, w, i) + (below \div 256), 0)
<1>1. Times(v, w) = <<p[1] % 256, p[2] % 256, p[3] % 256, p[4] % 256,
                      p[5] % 256, p[6] % 256, p[7] % 256, p[8] % 256>>
  BY DEF Times, Bytes
<1>2. p = <<c1, c2, c3, c4, c5, c6, c7, c8>>
  BY DEF Chain
<1>3. Times(v, w) = <<c1 % 256, c2 % 256, c3 % 256, c4 % 256,
                      c5 % 256, c6 % 256, c7 % 256, c8 % 256>>
  <2> HIDE DEF p, c1, c2, c3, c4, c5, c6, c7, c8
  <2> QED BY <1>1, <1>2
<1> QED BY <1>3

\* Times is the product mod 2^64.
LEMMA TimesValue ==
  ASSUME NEW v \in Word, NEW w \in Word
  PROVE  /\ Times(v, w) \in Word
         /\ \E k \in Int : Value(v) * Value(w) = Value(Times(v, w)) + TwoTo64 * k
<1> DEFINE c1 == Place(v, w, 1) + (0 \div 256)     c2 == Place(v, w, 2) + (c1 \div 256)
           c3 == Place(v, w, 3) + (c2 \div 256)    c4 == Place(v, w, 4) + (c3 \div 256)
           c5 == Place(v, w, 5) + (c4 \div 256)    c6 == Place(v, w, 6) + (c5 \div 256)
           c7 == Place(v, w, 7) + (c6 \div 256)    c8 == Place(v, w, 8) + (c7 \div 256)
           p1 == Place(v, w, 1)    p2 == Place(v, w, 2)    p3 == Place(v, w, 3)
           p4 == Place(v, w, 4)    p5 == Place(v, w, 5)    p6 == Place(v, w, 6)
           p7 == Place(v, w, 7)    p8 == Place(v, w, 8)
           r1 == c1 % 256    r2 == c2 % 256    r3 == c3 % 256    r4 == c4 % 256
           r5 == c5 % 256    r6 == c6 % 256    r7 == c7 % 256    r8 == c8 % 256
           q1 == c1 \div 256    q2 == c2 \div 256    q3 == c3 \div 256    q4 == c4 \div 256
           q5 == c5 \div 256    q6 == c6 \div 256    q7 == c7 \div 256    q8 == c8 \div 256
<1>1. /\ p1 \in Nat /\ p2 \in Nat /\ p3 \in Nat /\ p4 \in Nat
      /\ p5 \in Nat /\ p6 \in Nat /\ p7 \in Nat /\ p8 \in Nat
  BY PlacesOfProduct
<1>2. Times(v, w) = <<r1, r2, r3, r4, r5, r6, r7, r8>>
  BY TimesByPlace
<1>3. 0 \div 256 = 0
  OBVIOUS
<1> HIDE DEF p1, p2, p3, p4, p5, p6, p7, p8
<1>4. c1 \in Nat /\ q1 \in Nat /\ r1 \in Byte /\ p1 = 256 * q1 + r1
  <2>1. c1 = p1
    BY <1>1, <1>3 DEF p1
  <2> HIDE DEF c1
  <2> QED BY <1>1, <2>1 DEF Byte
<1>5. c2 \in Nat /\ q2 \in Nat /\ r2 \in Byte /\ p2 + q1 = 256 * q2 + r2
  <2>1. c2 = p2 + q1
    BY DEF p2
  <2> HIDE DEF c2, q1
  <2> QED BY <1>1, <1>4, <2>1 DEF Byte
<1>6. c3 \in Nat /\ q3 \in Nat /\ r3 \in Byte /\ p3 + q2 = 256 * q3 + r3
  <2>1. c3 = p3 + q2
    BY DEF p3
  <2> HIDE DEF c3, q2
  <2> QED BY <1>1, <1>5, <2>1 DEF Byte
<1>7. c4 \in Nat /\ q4 \in Nat /\ r4 \in Byte /\ p4 + q3 = 256 * q4 + r4
  <2>1. c4 = p4 + q3
    BY DEF p4
  <2> HIDE DEF c4, q3
  <2> QED BY <1>1, <1>6, <2>1 DEF Byte
<1>8. c5 \in Nat /\ q5 \in Nat /\ r5 \in Byte /\ p5 + q4 = 256 * q5 + r5
  <2>1. c5 = p5 + q4
    BY DEF p5
  <2> HIDE DEF c5, q4
  <2> QED BY <1>1, <1>7, <2>1 DEF Byte
<1>9. c6 \in Nat /\ q6 \in Nat /\ r6 \in Byte /\ p6 + q5 = 256 * q6 + r6
  <2>1. c6 = p6 + q5
    BY DEF p6
  <2> HIDE DEF c6, q5
  <2> QED BY <1>1, <1>8, <2>1 DEF Byte
<1>10. c7 \in Nat /\ q7 \in Nat /\ r7 \in Byte /\ p7 + q6 = 256 * q7 + r7
  <2>1. c7 = p7 + q6
    BY DEF p7
  <2> HIDE DEF c7, q6
  <2> QED BY <1>1, <1>9, <2>1 DEF Byte
<1>11. c8 \in Nat /\ q8 \in Nat /\ r8 \in Byte /\ p8 + q7 = 256 * q8 + r8
  <2>1. c8 = p8 + q7
    BY DEF p8
  <2> HIDE DEF c8, q7
  <2> QED BY <1>1, <1>10, <2>1 DEF Byte
<1> HIDE DEF r1, r2, r3, r4, r5, r6, r7, r8, q1, q2, q3, q4, q5, q6, q7, q8
<1>12. Times(v, w) \in Word
  BY <1>2, <1>4, <1>5, <1>6, <1>7, <1>8, <1>9, <1>10, <1>11 DEF Word
<1>13. Value(Times(v, w)) = Eight(r1, r2, r3, r4, r5, r6, r7, r8)
  BY <1>2 DEF Value
<1>14. Eight(p1, p2, p3, p4, p5, p6, p7, p8)
         = Eight(r1, r2, r3, r4, r5, r6, r7, r8) + TwoTo64 * q8
  BY <1>1, <1>4, <1>5, <1>6, <1>7, <1>8, <1>9, <1>10, <1>11 DEF Byte, Eight, TwoTo64
<1>15. PICK k \in Int :
         Value(v) * Value(w) = Eight(p1, p2, p3, p4, p5, p6, p7, p8) + TwoTo64 * k
  BY ProductByPlaces DEF p1, p2, p3, p4, p5, p6, p7, p8
<1>16. Value(v) * Value(w) = Value(Times(v, w)) + TwoTo64 * (q8 + k)
  <2>1. Value(Times(v, w)) \in Int /\ TwoTo64 \in Int /\ q8 \in Int
    BY <1>11, <1>12, ValueOfWord DEF TwoTo64
  <2>2. Value(v) * Value(w) = Value(Times(v, w)) + TwoTo64 * q8 + TwoTo64 * k
    BY <1>13, <1>14, <1>15
  <2> QED BY <2>1, <2>2
<1>17. q8 + k \in Int
  BY <1>11
<1> QED BY <1>12, <1>16, <1>17

\* The word of the number 1.
One == <<1, 0, 0, 0, 0, 0, 0, 0>>

\* The second word is the inverse of the first mod 2^64, place by place.
LEMMA Inverse ==
  /\ hashMul \in Word /\ hashMulInverse \in Word /\ One \in Word
  /\ Times(hashMul, hashMulInverse) = One
<1>1. hashMul \in Word /\ hashMulInverse \in Word /\ One \in Word
  BY DEF hashMul, hashMulInverse, One, Word, Byte
<1> DEFINE p(i) == Place(hashMul, hashMulInverse, i)
<1>2. p(1) = 7425
  BY <1>1, PlacesOfProduct DEF hashMul, hashMulInverse
<1>3. p(2) = 22755
  BY <1>1, PlacesOfProduct DEF hashMul, hashMulInverse
<1>4. p(3) = 36775
  BY <1>1, PlacesOfProduct DEF hashMul, hashMulInverse
<1>5. p(4) = 40816
  BY <1>1, PlacesOfProduct DEF hashMul, hashMulInverse
<1>6. p(5) = 46432
  BY <1>1, PlacesOfProduct DEF hashMul, hashMulInverse
<1>7. p(6) = 89418
  BY <1>1, PlacesOfProduct DEF hashMul, hashMulInverse
<1>8. p(7) = 91298
  BY <1>1, PlacesOfProduct DEF hashMul, hashMulInverse
<1>9. p(8) = 132250
  BY <1>1, PlacesOfProduct DEF hashMul, hashMulInverse
<1> HIDE DEF p
<1> DEFINE c1 == p(1) + (0 \div 256)     c2 == p(2) + (c1 \div 256)
           c3 == p(3) + (c2 \div 256)    c4 == p(4) + (c3 \div 256)
           c5 == p(5) + (c4 \div 256)    c6 == p(6) + (c5 \div 256)
           c7 == p(7) + (c6 \div 256)    c8 == p(8) + (c7 \div 256)
<1>10. Times(hashMul, hashMulInverse) = <<c1 % 256, c2 % 256, c3 % 256, c4 % 256,
                                         c5 % 256, c6 % 256, c7 % 256, c8 % 256>>
  BY TimesByPlace DEF p
<1>11. c1 = 7425
  BY <1>2
<1> HIDE DEF c1
<1>12. c2 = 22784
  BY <1>3, <1>11
<1> HIDE DEF c2
<1>13. c3 = 36864
  BY <1>4, <1>12
<1> HIDE DEF c3
<1>14. c4 = 40960
  BY <1>5, <1>13
<1> HIDE DEF c4
<1>15. c5 = 46592
  BY <1>6, <1>14
<1> HIDE DEF c5
<1>16. c6 = 89600
  BY <1>7, <1>15
<1> HIDE DEF c6
<1>17. c7 = 91648
  BY <1>8, <1>16
<1> HIDE DEF c7
<1>18. c8 = 132608
  BY <1>9, <1>17
<1> HIDE DEF c8
<1> QED BY <1>1, <1>10, <1>11, <1>12, <1>13, <1>14, <1>15, <1>16, <1>17, <1>18 DEF One


\* Multiplying by the one word is undone by multiplying by the other.
LEMMA TimesUndone ==
  ASSUME NEW x \in Word
  PROVE  /\ Times(x, hashMul) \in Word
         /\ Times(Times(x, hashMul), hashMulInverse) = x
<1> DEFINE y == Times(x, hashMul)
           z == Times(y, hashMulInverse)
           vx == Value(x)
           vy == Value(y)
           vz == Value(z)
           vm == Value(hashMul)
           vi == Value(hashMulInverse)
<1>1. y \in Word /\ z \in Word
  BY Inverse, TimesValue
<1>2. PICK k1 \in Int : vx * vm = vy + TwoTo64 * k1
  BY Inverse, TimesValue
<1>3. PICK k2 \in Int : vy * vi = vz + TwoTo64 * k2
  BY Inverse, TimesValue, <1>1
<1>4. PICK k3 \in Int : vm * vi = 1 + TwoTo64 * k3
  <2>1. Value(One) = 1
    BY DEF Value, Eight, One
  <2> QED BY <2>1, Inverse, TimesValue
<1>5. /\ vx \in Nat /\ vy \in Nat /\ vz \in Nat /\ vm \in Nat /\ vi \in Nat
      /\ vx < TwoTo64 /\ vz < TwoTo64
  BY <1>1, Inverse, ValueOfWord
<1>6. vz = vx
  <2> DEFINE t == TwoTo64
             k == vx * k3 - k1 * vi - k2
  <2>1. t \in Nat \ {0}
    BY DEF TwoTo64
  <2> HIDE DEF t, vx, vy, vz, vm, vi
  <2>2. vx * vm = vy + t * k1 /\ vy * vi = vz + t * k2 /\ vm * vi = 1 + t * k3
    BY <1>2, <1>3, <1>4 DEF t
  <2>3. (vx * vm) * vi = vx * (vm * vi)
    BY <1>5
  <2>4. (vy + t * k1) * vi = vx * (1 + t * k3)
    BY <2>2, <2>3
  <2>5. vz + t * k2 + (t * k1) * vi = vx * (1 + t * k3)
    <3>1. (vy + t * k1) * vi = vy * vi + (t * k1) * vi
      BY <1>5, <2>1
    <3> QED BY <2>2, <2>4, <3>1
  <2>6. vz = vx + t * k
    BY <1>5, <2>1, <2>5
  <2>7. k \in Int
    BY <1>5
  <2> HIDE DEF k
  <2>8. vz < t /\ vx < t
    BY <1>5 DEF t
  <2> QED BY <1>5, <2>1, <2>6, <2>7, <2>8, LastDigit
<1>7. z = x
  BY <1>1, <1>6, ValueInjective
<1> QED BY <1>1, <1>7

\* scramble is undone, up to its last line: two counters never mix to the same word.
LEMMA MixUndone ==
  ASSUME NEW c \in Word
  PROVE  Mix(c) \in Word /\ Unmix(Mix(c)) = c
<1> DEFINE x == XorWords(c, XorKey)
           y == Times(x, hashMul)
<1>1. x \in Word /\ XorWords(x, XorKey) = c
  BY XorWordsUndone, XorKeyAssumption
<1>2. y \in Word /\ Times(y, hashMulInverse) = x
  BY <1>1, TimesUndone
<1>3. Fold(y) \in Word /\ Fold(Fold(y)) = y
  BY <1>2, FoldUndone
<1> QED BY <1>1, <1>2, <1>3 DEF Mix, Unmix

(***************************************************************************)
(* Base 62                                                                 *)
(***************************************************************************)

\* A byte with what is left of the bytes above it divides to a byte again.
LEMMA PartialDivision ==
  ASSUME NEW p \in Nat, p <= 15871
  PROVE  p \div 62 \in 0..255 /\ p % 62 \in 0..61 /\ p = 62 * (p \div 62) + (p % 62)
<1>1. p \div 62 \in Int /\ p % 62 \in 0..61 /\ p = 62 * (p \div 62) + (p % 62)
  OBVIOUS
<1>2. p \div 62 \in 0..255
  BY <1>1
<1> QED BY <1>1, <1>2

\* Long division is division: what Quotient and Remainder are of a word.
LEMMA DivisionByBase ==
  ASSUME NEW v \in Word
  PROVE  /\ Quotient(v) \in Word /\ Remainder(v) \in 0..61
         /\ Value(v) = Base * Value(Quotient(v)) + Remainder(v)
<1> DEFINE a1 == v[1]    a2 == v[2]    a3 == v[3]    a4 == v[4]
           a5 == v[5]    a6 == v[6]    a7 == v[7]    a8 == v[8]
           p1 == v[8] + 256 * (0 % 62)    p2 == v[7] + 256 * (p1 % 62)
           p3 == v[6] + 256 * (p2 % 62)   p4 == v[5] + 256 * (p3 % 62)
           p5 == v[4] + 256 * (p4 % 62)   p6 == v[3] + 256 * (p5 % 62)
           p7 == v[2] + 256 * (p6 % 62)   p8 == v[1] + 256 * (p7 % 62)
           q1 == p1 \div 62    q2 == p2 \div 62    q3 == p3 \div 62    q4 == p4 \div 62
           q5 == p5 \div 62    q6 == p6 \div 62    q7 == p7 \div 62    q8 == p8 \div 62
           r1 == p1 % 62    r2 == p2 % 62    r3 == p3 % 62    r4 == p4 % 62
           r5 == p5 % 62    r6 == p6 % 62    r7 == p7 % 62    r8 == p8 % 62
<1>1. /\ a1 \in 0..255 /\ a2 \in 0..255 /\ a3 \in 0..255 /\ a4 \in 0..255
      /\ a5 \in 0..255 /\ a6 \in 0..255 /\ a7 \in 0..255 /\ a8 \in 0..255
  BY BytesOfWord
<1>2. Quotient(v) = <<q8, q7, q6, q5, q4, q3, q2, q1>> /\ Remainder(v) = r8
  <2>1. Partial(v) = <<p1, p2, p3, p4, p5, p6, p7, p8>>
    BY DEF Partial, Chain, Base
  <2> HIDE DEF p1, p2, p3, p4, p5, p6, p7, p8
  <2>2. /\ Partial(v)[1] = p1 /\ Partial(v)[2] = p2 /\ Partial(v)[3] = p3 /\ Partial(v)[4] = p4
        /\ Partial(v)[5] = p5 /\ Partial(v)[6] = p6 /\ Partial(v)[7] = p7 /\ Partial(v)[8] = p8
    BY <2>1
  <2> QED BY <2>2 DEF Quotient, Remainder, Bytes, Base
<1>3. Value(v) = Eight(a1, a2, a3, a4, a5, a6, a7, a8)
  BY DEF Value
<1>4. 0 % 62 = 0
  OBVIOUS
<1> HIDE DEF a1, a2, a3, a4, a5, a6, a7, a8
<1>5. q1 \in 0..255 /\ r1 \in 0..61 /\ a8 = 62 * q1 + r1
  <2>1. p1 = a8
    BY <1>1, <1>4 DEF a8
  <2> HIDE DEF p1
  <2> QED BY <1>1, <2>1
<1>6. q2 \in 0..255 /\ r2 \in 0..61 /\ a7 + 256 * r1 = 62 * q2 + r2
  <2>1. p2 = a7 + 256 * r1
    BY DEF a7
  <2> HIDE DEF p2, r1
  <2>2. p2 \in Nat /\ p2 <= 15871
    BY <1>1, <1>5, <2>1
  <2>3. p2 \div 62 \in 0..255 /\ p2 % 62 \in 0..61 /\ p2 = 62 * (p2 \div 62) + (p2 % 62)
    BY <2>2, PartialDivision
  <2> QED BY <2>1, <2>3
<1>7. q3 \in 0..255 /\ r3 \in 0..61 /\ a6 + 256 * r2 = 62 * q3 + r3
  <2>1. p3 = a6 + 256 * r2
    BY DEF a6
  <2> HIDE DEF p3, r2
  <2>2. p3 \in Nat /\ p3 <= 15871
    BY <1>1, <1>6, <2>1
  <2>3. p3 \div 62 \in 0..255 /\ p3 % 62 \in 0..61 /\ p3 = 62 * (p3 \div 62) + (p3 % 62)
    BY <2>2, PartialDivision
  <2> QED BY <2>1, <2>3
<1>8. q4 \in 0..255 /\ r4 \in 0..61 /\ a5 + 256 * r3 = 62 * q4 + r4
  <2>1. p4 = a5 + 256 * r3
    BY DEF a5
  <2> HIDE DEF p4, r3
  <2>2. p4 \in Nat /\ p4 <= 15871
    BY <1>1, <1>7, <2>1
  <2>3. p4 \div 62 \in 0..255 /\ p4 % 62 \in 0..61 /\ p4 = 62 * (p4 \div 62) + (p4 % 62)
    BY <2>2, PartialDivision
  <2> QED BY <2>1, <2>3
<1>9. q5 \in 0..255 /\ r5 \in 0..61 /\ a4 + 256 * r4 = 62 * q5 + r5
  <2>1. p5 = a4 + 256 * r4
    BY DEF a4
  <2> HIDE DEF p5, r4
  <2>2. p5 \in Nat /\ p5 <= 15871
    BY <1>1, <1>8, <2>1
  <2>3. p5 \div 62 \in 0..255 /\ p5 % 62 \in 0..61 /\ p5 = 62 * (p5 \div 62) + (p5 % 62)
    BY <2>2, PartialDivision
  <2> QED BY <2>1, <2>3
<1>10. q6 \in 0..255 /\ r6 \in 0..61 /\ a3 + 256 * r5 = 62 * q6 + r6
  <2>1. p6 = a3 + 256 * r5
    BY DEF a3
  <2> HIDE DEF p6, r5
  <2>2. p6 \in Nat /\ p6 <= 15871
    BY <1>1, <1>9, <2>1
  <2>3. p6 \div 62 \in 0..255 /\ p6 % 62 \in 0..61 /\ p6 = 62 * (p6 \div 62) + (p6 % 62)
    BY <2>2, PartialDivision
  <2> QED BY <2>1, <2>3
<1>11. q7 \in 0..255 /\ r7 \in 0..61 /\ a2 + 256 * r6 = 62 * q7 + r7
  <2>1. p7 = a2 + 256 * r6
    BY DEF a2
  <2> HIDE DEF p7, r6
  <2>2. p7 \in Nat /\ p7 <= 15871
    BY <1>1, <1>10, <2>1
  <2>3. p7 \div 62 \in 0..255 /\ p7 % 62 \in 0..61 /\ p7 = 62 * (p7 \div 62) + (p7 % 62)
    BY <2>2, PartialDivision
  <2> QED BY <2>1, <2>3
<1>12. q8 \in 0..255 /\ r8 \in 0..61 /\ a1 + 256 * r7 = 62 * q8 + r8
  <2>1. p8 = a1 + 256 * r7
    BY DEF a1
  <2> HIDE DEF p8, r7
  <2>2. p8 \in Nat /\ p8 <= 15871
    BY <1>1, <1>11, <2>1
  <2>3. p8 \div 62 \in 0..255 /\ p8 % 62 \in 0..61 /\ p8 = 62 * (p8 \div 62) + (p8 % 62)
    BY <2>2, PartialDivision
  <2> QED BY <2>1, <2>3
<1> HIDE DEF q1, q2, q3, q4, q5, q6, q7, q8, r1, r2, r3, r4, r5, r6, r7, r8
<1>13. Quotient(v) \in Word /\ Remainder(v) \in 0..61
  <2>1. /\ q1 \in 0..255 /\ q2 \in 0..255 /\ q3 \in 0..255 /\ q4 \in 0..255
        /\ q5 \in 0..255 /\ q6 \in 0..255 /\ q7 \in 0..255 /\ q8 \in 0..255 /\ r8 \in 0..61
    BY <1>5, <1>6, <1>7, <1>8, <1>9, <1>10, <1>11, <1>12
  <2> HIDE DEF p1, p2, p3, p4, p5, p6, p7, p8
  <2>2. <<q8, q7, q6, q5, q4, q3, q2, q1>> \in Word
    BY <2>1 DEF Word, Byte
  <2> QED BY <1>2, <2>1, <2>2
<1>14. Value(Quotient(v)) = Eight(q8, q7, q6, q5, q4, q3, q2, q1)
  BY <1>2 DEF Value
<1>15. Eight(a1, a2, a3, a4, a5, a6, a7, a8) = 62 * Eight(q8, q7, q6, q5, q4, q3, q2, q1) + r8
  BY <1>1, <1>5, <1>6, <1>7, <1>8, <1>9, <1>10, <1>11, <1>12 DEF Eight
<1> QED BY <1>2, <1>3, <1>13, <1>14, <1>15 DEF Base

\* What a code says as a number of base 62, its first character the highest.
CodeNumber(a, b, c, d, e, f, g, h) ==
    h + 62 * (g + 62 * (f + 62 * (e + 62 * (d + 62 * (c + 62 * (b + 62 * a))))))

CodeValue(s) == CodeNumber(s[1], s[2], s[3], s[4], s[5], s[6], s[7], s[8])

\* space of encode.go:20: 62^8.
Space == 218340105584896

LEMMA CharactersOfCode ==
  ASSUME NEW s \in Code
  PROVE  /\ s[1] \in 0..61 /\ s[2] \in 0..61 /\ s[3] \in 0..61 /\ s[4] \in 0..61
         /\ s[5] \in 0..61 /\ s[6] \in 0..61 /\ s[7] \in 0..61 /\ s[8] \in 0..61
         /\ s = <<s[1], s[2], s[3], s[4], s[5], s[6], s[7], s[8]>>
<1>1. \A i \in 1..8 : s[i] \in 0..61
  BY DEF Code
<1>2. s = <<s[1], s[2], s[3], s[4], s[5], s[6], s[7], s[8]>>
  BY DEF Code
<1> QED BY <1>1, <1>2

LEMMA ValueOfCode ==
  ASSUME NEW s \in Code
  PROVE  CodeValue(s) \in Nat /\ CodeValue(s) < Space
<1> DEFINE a1 == s[1]    a2 == s[2]    a3 == s[3]    a4 == s[4]
           a5 == s[5]    a6 == s[6]    a7 == s[7]    a8 == s[8]
<1>1. /\ a1 \in 0..61 /\ a2 \in 0..61 /\ a3 \in 0..61 /\ a4 \in 0..61
      /\ a5 \in 0..61 /\ a6 \in 0..61 /\ a7 \in 0..61 /\ a8 \in 0..61
  BY CharactersOfCode
<1>2. CodeValue(s) = CodeNumber(a1, a2, a3, a4, a5, a6, a7, a8)
  BY DEF CodeValue
<1> HIDE DEF a1, a2, a3, a4, a5, a6, a7, a8
<1> QED BY <1>1, <1>2 DEF CodeNumber, Space

LEMMA CodeValueInjective ==
  ASSUME NEW s \in Code, NEW t \in Code, CodeValue(s) = CodeValue(t)
  PROVE  s = t
<1> DEFINE a1 == s[1]    a2 == s[2]    a3 == s[3]    a4 == s[4]
           a5 == s[5]    a6 == s[6]    a7 == s[7]    a8 == s[8]
           b1 == t[1]    b2 == t[2]    b3 == t[3]    b4 == t[4]
           b5 == t[5]    b6 == t[6]    b7 == t[7]    b8 == t[8]
<1>1. /\ a1 \in 0..61 /\ a2 \in 0..61 /\ a3 \in 0..61 /\ a4 \in 0..61
      /\ a5 \in 0..61 /\ a6 \in 0..61 /\ a7 \in 0..61 /\ a8 \in 0..61
      /\ b1 \in 0..61 /\ b2 \in 0..61 /\ b3 \in 0..61 /\ b4 \in 0..61
      /\ b5 \in 0..61 /\ b6 \in 0..61 /\ b7 \in 0..61 /\ b8 \in 0..61
  BY CharactersOfCode
<1>2. CodeNumber(a1, a2, a3, a4, a5, a6, a7, a8) = CodeNumber(b1, b2, b3, b4, b5, b6, b7, b8)
  BY DEF CodeValue
<1> HIDE DEF a1, a2, a3, a4, a5, a6, a7, a8, b1, b2, b3, b4, b5, b6, b7, b8
<1> DEFINE s2 == a2 + 62 * a1    t2 == b2 + 62 * b1
           s3 == a3 + 62 * s2    t3 == b3 + 62 * t2
           s4 == a4 + 62 * s3    t4 == b4 + 62 * t3
           s5 == a5 + 62 * s4    t5 == b5 + 62 * t4
           s6 == a6 + 62 * s5    t6 == b6 + 62 * t5
           s7 == a7 + 62 * s6    t7 == b7 + 62 * t6
<1>3. /\ s7 \in Int /\ s6 \in Int /\ s5 \in Int /\ s4 \in Int /\ s3 \in Int /\ s2 \in Int
      /\ t7 \in Int /\ t6 \in Int /\ t5 \in Int /\ t4 \in Int /\ t3 \in Int /\ t2 \in Int
  BY <1>1
<1> HIDE DEF s2, s3, s4, s5, s6, s7, t2, t3, t4, t5, t6, t7
<1>4. a8 = b8 /\ s7 = t7
  <2>1. a8 + 62 * s7 = b8 + 62 * t7
    BY <1>2 DEF CodeNumber, s2, s3, s4, s5, s6, s7, t2, t3, t4, t5, t6, t7
  <2> QED BY <1>1, <1>3, <2>1
<1>5. a7 = b7 /\ s6 = t6
  <2>1. a7 + 62 * s6 = b7 + 62 * t6
    BY <1>4 DEF s7, t7
  <2> QED BY <1>1, <1>3, <2>1
<1>6. a6 = b6 /\ s5 = t5
  <2>1. a6 + 62 * s5 = b6 + 62 * t5
    BY <1>5 DEF s6, t6
  <2> QED BY <1>1, <1>3, <2>1
<1>7. a5 = b5 /\ s4 = t4
  <2>1. a5 + 62 * s4 = b5 + 62 * t4
    BY <1>6 DEF s5, t5
  <2> QED BY <1>1, <1>3, <2>1
<1>8. a4 = b4 /\ s3 = t3
  <2>1. a4 + 62 * s3 = b4 + 62 * t3
    BY <1>7 DEF s4, t4
  <2> QED BY <1>1, <1>3, <2>1
<1>9. a3 = b3 /\ s2 = t2
  <2>1. a3 + 62 * s2 = b3 + 62 * t2
    BY <1>8 DEF s3, t3
  <2> QED BY <1>1, <1>3, <2>1
<1>10. a2 = b2 /\ a1 = b1
  <2>1. a2 + 62 * a1 = b2 + 62 * b1
    BY <1>9 DEF s2, t2
  <2> QED BY <1>1, <2>1
<1> QED
  BY <1>4, <1>5, <1>6, <1>7, <1>8, <1>9, <1>10, CharactersOfCode
     DEF a1, a2, a3, a4, a5, a6, a7, a8, b1, b2, b3, b4, b5, b6, b7, b8

\* The eight characters are the number that v % space is, and what the divisions
\* leave of v is what the reduction takes away.
LEMMA ToBase62Value ==
  ASSUME NEW v \in Word
  PROVE  /\ ToBase62(v) \in Code
         /\ \E n \in Nat : Value(v) = CodeValue(ToBase62(v)) + Space * n
<1> DEFINE l1 == v               l2 == Quotient(l1)    l3 == Quotient(l2)    l4 == Quotient(l3)
           l5 == Quotient(l4)    l6 == Quotient(l5)    l7 == Quotient(l6)    l8 == Quotient(l7)
           l9 == Quotient(l8)
           d1 == Remainder(l1)    d2 == Remainder(l2)    d3 == Remainder(l3)
           d4 == Remainder(l4)    d5 == Remainder(l5)    d6 == Remainder(l6)
           d7 == Remainder(l7)    d8 == Remainder(l8)
           n1 == Value(l1)    n2 == Value(l2)    n3 == Value(l3)    n4 == Value(l4)
           n5 == Value(l5)    n6 == Value(l6)    n7 == Value(l7)    n8 == Value(l8)
           n9 == Value(l9)
<1>1. ToBase62(v) = <<d8, d7, d6, d5, d4, d3, d2, d1>>
  <2>1. Left(v) = <<l1, l2, l3, l4, l5, l6, l7, l8>>
    BY DEF Left, Chain
  <2> HIDE DEF l1, l2, l3, l4, l5, l6, l7, l8
  <2>2. /\ Left(v)[1] = l1 /\ Left(v)[2] = l2 /\ Left(v)[3] = l3 /\ Left(v)[4] = l4
        /\ Left(v)[5] = l5 /\ Left(v)[6] = l6 /\ Left(v)[7] = l7 /\ Left(v)[8] = l8
    BY <2>1
  <2> QED BY <2>2 DEF ToBase62, Bytes
<1>2. l1 \in Word
  OBVIOUS
<1>3. l2 \in Word /\ d1 \in 0..61 /\ n1 = 62 * n2 + d1 /\ n2 \in Nat
  <2> HIDE DEF l1
  <2>1. Quotient(l1) \in Word /\ Remainder(l1) \in 0..61
    BY <1>2, DivisionByBase
  <2>2. Value(l1) = 62 * Value(Quotient(l1)) + Remainder(l1)
    BY <1>2, DivisionByBase DEF Base
  <2> QED BY <2>1, <2>2, ValueOfWord
<1>4. l3 \in Word /\ d2 \in 0..61 /\ n2 = 62 * n3 + d2 /\ n3 \in Nat
  <2> HIDE DEF l2
  <2>1. Quotient(l2) \in Word /\ Remainder(l2) \in 0..61
    BY <1>3, DivisionByBase
  <2>2. Value(l2) = 62 * Value(Quotient(l2)) + Remainder(l2)
    BY <1>3, DivisionByBase DEF Base
  <2> QED BY <2>1, <2>2, ValueOfWord
<1>5. l4 \in Word /\ d3 \in 0..61 /\ n3 = 62 * n4 + d3 /\ n4 \in Nat
  <2> HIDE DEF l3
  <2>1. Quotient(l3) \in Word /\ Remainder(l3) \in 0..61
    BY <1>4, DivisionByBase
  <2>2. Value(l3) = 62 * Value(Quotient(l3)) + Remainder(l3)
    BY <1>4, DivisionByBase DEF Base
  <2> QED BY <2>1, <2>2, ValueOfWord
<1>6. l5 \in Word /\ d4 \in 0..61 /\ n4 = 62 * n5 + d4 /\ n5 \in Nat
  <2> HIDE DEF l4
  <2>1. Quotient(l4) \in Word /\ Remainder(l4) \in 0..61
    BY <1>5, DivisionByBase
  <2>2. Value(l4) = 62 * Value(Quotient(l4)) + Remainder(l4)
    BY <1>5, DivisionByBase DEF Base
  <2> QED BY <2>1, <2>2, ValueOfWord
<1>7. l6 \in Word /\ d5 \in 0..61 /\ n5 = 62 * n6 + d5 /\ n6 \in Nat
  <2> HIDE DEF l5
  <2>1. Quotient(l5) \in Word /\ Remainder(l5) \in 0..61
    BY <1>6, DivisionByBase
  <2>2. Value(l5) = 62 * Value(Quotient(l5)) + Remainder(l5)
    BY <1>6, DivisionByBase DEF Base
  <2> QED BY <2>1, <2>2, ValueOfWord
<1>8. l7 \in Word /\ d6 \in 0..61 /\ n6 = 62 * n7 + d6 /\ n7 \in Nat
  <2> HIDE DEF l6
  <2>1. Quotient(l6) \in Word /\ Remainder(l6) \in 0..61
    BY <1>7, DivisionByBase
  <2>2. Value(l6) = 62 * Value(Quotient(l6)) + Remainder(l6)
    BY <1>7, DivisionByBase DEF Base
  <2> QED BY <2>1, <2>2, ValueOfWord
<1>9. l8 \in Word /\ d7 \in 0..61 /\ n7 = 62 * n8 + d7 /\ n8 \in Nat
  <2> HIDE DEF l7
  <2>1. Quotient(l7) \in Word /\ Remainder(l7) \in 0..61
    BY <1>8, DivisionByBase
  <2>2. Value(l7) = 62 * Value(Quotient(l7)) + Remainder(l7)
    BY <1>8, DivisionByBase DEF Base
  <2> QED BY <2>1, <2>2, ValueOfWord
<1>10. l9 \in Word /\ d8 \in 0..61 /\ n8 = 62 * n9 + d8 /\ n9 \in Nat
  <2> HIDE DEF l8
  <2>1. Quotient(l8) \in Word /\ Remainder(l8) \in 0..61
    BY <1>9, DivisionByBase
  <2>2. Value(l8) = 62 * Value(Quotient(l8)) + Remainder(l8)
    BY <1>9, DivisionByBase DEF Base
  <2> QED BY <2>1, <2>2, ValueOfWord
<1> HIDE DEF d1, d2, d3, d4, d5, d6, d7, d8
<1>11. ToBase62(v) \in Code
  <2>1. <<d8, d7, d6, d5, d4, d3, d2, d1>> \in Code
    BY <1>3, <1>4, <1>5, <1>6, <1>7, <1>8, <1>9, <1>10 DEF Code
  <2> QED BY <1>1, <2>1
<1>12. CodeValue(ToBase62(v)) = CodeNumber(d8, d7, d6, d5, d4, d3, d2, d1)
  BY <1>1 DEF CodeValue
<1>13. Value(v) = n1
  OBVIOUS
<1> HIDE DEF n1, n2, n3, n4, n5, n6, n7, n8, n9
<1>14. n1 = CodeNumber(d8, d7, d6, d5, d4, d3, d2, d1) + Space * n9
  BY <1>3, <1>4, <1>5, <1>6, <1>7, <1>8, <1>9, <1>10 DEF CodeNumber, Space
<1> QED BY <1>10, <1>11, <1>12, <1>13, <1>14

\* What a code says is its mixed counter reduced by v % space (encode.go:48).
LEMMA EncodeReduces ==
  ASSUME NEW c \in Word
  PROVE  Encode(c) \in Code /\ CodeValue(Encode(c)) = Value(Mix(c)) % Space
<1> DEFINE m == Value(Mix(c))
           e == CodeValue(Encode(c))
<1>1. Mix(c) \in Word
  BY MixUndone
<1>2. Encode(c) \in Code
  BY <1>1, ToBase62Value DEF Encode
<1>3. PICK n \in Nat : m = e + Space * n
  BY <1>1, ToBase62Value DEF Encode
<1>4. e \in Nat /\ e < Space
  BY <1>2, ValueOfCode
<1> HIDE DEF m, e
<1>5. m % Space = e
  <2> DEFINE d == Space
  <2>1. d \in Nat \ {0} /\ e < d /\ m = d * n + e
    BY <1>3, <1>4 DEF Space
  <2> HIDE DEF d
  <2>2. e \in 0..(d - 1)
    BY <1>4, <2>1
  <2>3. (d * n + e) % d = e
    BY <2>1, <2>2, DivisionUnique
  <2> QED BY <2>1, <2>3 DEF d
<1> QED BY <1>2, <1>5 DEF m, e

(***************************************************************************)
(* Theorems                                                                *)
(***************************************************************************)

\* Exactly which counters share a code: those whose mixed words differ by a
\* multiple of 62^8.  It is the reduction of the mixed word that makes codes
\* collide (encode.go:48), for any key and any counters, however small.
THEOREM CodesCollide ==
  ASSUME NEW c \in Word, NEW d \in Word
  PROVE  Encode(c) = Encode(d) <=> Value(Mix(c)) % Space = Value(Mix(d)) % Space
<1>1. /\ Encode(c) \in Code /\ CodeValue(Encode(c)) = Value(Mix(c)) % Space
      /\ Encode(d) \in Code /\ CodeValue(Encode(d)) = Value(Mix(d)) % Space
  BY EncodeReduces
<1>2. ASSUME Encode(c) = Encode(d)
      PROVE  Value(Mix(c)) % Space = Value(Mix(d)) % Space
  BY <1>1, <1>2
<1>3. ASSUME Value(Mix(c)) % Space = Value(Mix(d)) % Space
      PROVE  Encode(c) = Encode(d)
  BY <1>1, <1>3, CodeValueInjective
<1> QED BY <1>2, <1>3

\* The reduction is all that is lost: a code together with the quotient that
\* v % space drops gives the counter back.  So the mapping is reversible
\* (encode.go:5) among counters whose mixed words have the same quotient.
THEOREM CodeAndQuotientGiveCounter ==
  ASSUME NEW c \in Word, NEW d \in Word, Encode(c) = Encode(d),
         Value(Mix(c)) \div Space = Value(Mix(d)) \div Space
  PROVE  c = d
<1> DEFINE m == Value(Mix(c))
           n == Value(Mix(d))
<1>1. /\ Mix(c) \in Word /\ Unmix(Mix(c)) = c
      /\ Mix(d) \in Word /\ Unmix(Mix(d)) = d
  BY MixUndone
<1>2. m \in Nat /\ n \in Nat
  BY <1>1, ValueOfWord
<1>3. m % Space = n % Space /\ m \div Space = n \div Space
  BY CodesCollide
<1>4. m = n
  <2> HIDE DEF m, n
  <2> DEFINE s == Space
  <2>1. m \in Int /\ n \in Int /\ s \in Nat \ {0}
    BY <1>2 DEF Space
  <2>2. m % s = n % s /\ m \div s = n \div s
    BY <1>3
  <2> HIDE DEF s
  <2>3. m = s * (m \div s) + (m % s) /\ n = s * (n \div s) + (n % s)
    BY <2>1, Division
  <2> QED BY <2>2, <2>3
<1>5. Mix(c) = Mix(d)
  BY <1>1, <1>4, ValueInjective
<1> QED BY <1>1, <1>5

LEMMA IncrementOfWord ==
  ASSUME NEW c \in Word
  PROVE  Increment(c) \in Word
<1>1. \A i \in 1..8 : c[i] \in 0..255
  BY DEF Word, Byte
<1>2. \A b \in 0..255 : (b + 1) % 256 \in 0..255
  OBVIOUS
<1> DEFINE next(i) == IF \A j \in 1..(i - 1) : c[j] = 255 THEN (c[i] + 1) % 256 ELSE c[i]
<1>3. \A i \in 1..8 : next(i) \in Byte
  BY <1>1, <1>2 DEF Byte
<1>4. Increment(c) = <<next(1), next(2), next(3), next(4), next(5), next(6), next(7), next(8)>>
  BY DEF Increment, Bytes
<1> HIDE DEF next
<1> QED BY <1>3, <1>4 DEF Word

\* Every variable has its type: each counter is a word of 64 bits, and each code
\* has eight characters of the alphabet.
THEOREM ShortcodeTypeCorrect == Spec => []TypeOK
<1>1. \A b \in 1..Len(Blocks) : Blocks[b] \in Word
  BY BlocksAssumption
<1>2. Len(Blocks) \in Nat \ {0}
  BY BlocksAssumption
<1>3. Init => TypeOK
  BY <1>1, <1>2, BlockSizeAssumption DEF Init, TypeOK
<1>4. TypeOK /\ [Next]_vars => TypeOK'
  <2> SUFFICES ASSUME TypeOK, [Next]_vars
               PROVE  TypeOK'
    OBVIOUS
  <2>1. CASE EncodeNext
    <3>1. counter \in Word /\ counter' \in Word
      BY <2>1, IncrementOfWord DEF TypeOK, EncodeNext
    <3>2. [block |-> block, counter |-> counter, code |-> Encode(counter)]
            \in [block : 1..Len(Blocks), counter : Word, code : Code]
      BY <3>1, EncodeReduces DEF TypeOK
    <3>3. left' \in 0..BlockSize
      BY <2>1, BlockSizeAssumption DEF TypeOK, EncodeNext
    <3> QED BY <2>1, <3>1, <3>2, <3>3 DEF TypeOK, EncodeNext
  <2>2. CASE NextBlock
    <3>1. block' \in 1..Len(Blocks)
      BY <1>2, <2>2 DEF TypeOK, NextBlock
    <3> QED BY <1>1, <2>2, <3>1, BlockSizeAssumption DEF TypeOK, NextBlock
  <2>3. CASE UNCHANGED vars
    BY <2>3 DEF TypeOK, vars
  <2> QED BY <2>1, <2>2, <2>3 DEF Next
<1> QED BY <1>3, <1>4, PTL DEF Spec

\* As a word, what a counter is mixed to gives it back, for every key and every
\* counter: the reduction to 62^8 is the only step of Encode that is not reversible.
THEOREM MixingIsReversible == Spec => []MixReversible
<1>1. TypeOK => MixReversible
  BY MixUndone DEF TypeOK, MixReversible
<1> QED BY <1>1, ShortcodeTypeCorrect, PTL
=============================================================================
