------------------------------ MODULE Utf8Proofs ------------------------------
(***************************************************************************)
(* The functions of src/lutf8lib-compat.c, for every string: the loop of   *)
(* utf8.codes sees the characters of the Unicode standard, and len,        *)
(* codepoint, char and offset agree with it.  The decoder is compared with *)
(* the table of the standard first; then the recursion that defines the    *)
(* characters of a string is shown to have a value; then the loop follows  *)
(* it; then each of the other functions is a recursion of its own, whose   *)
(* value is given by the characters.                                       *)
(***************************************************************************)
EXTENDS Utf8, SequenceTheorems, WellFoundedInduction, TLAPS

Bytes == 0..255

-----------------------------------------------------------------------------
(***************************************************************************)
(* The decoder.  The bits of the first byte say how many bytes follow, and *)
(* for each number of them the sum of the shifted bits is an expression.   *)
(***************************************************************************)
\* The number of bytes that the first announces.
LEMMA CountFacts ==
  \A c \in 128..255 :
    /\ c < 192 => Count(c) = 0
    /\ 192 <= c /\ c < 224 => Count(c) = 1
    /\ 224 <= c /\ c < 240 => Count(c) = 2
    /\ 240 <= c /\ c < 248 => Count(c) = 3
    /\ 248 <= c => Count(c) > 3
<1> SUFFICES ASSUME NEW c \in 128..255
             PROVE  /\ c < 192 => Count(c) = 0
                    /\ 192 <= c /\ c < 224 => Count(c) = 1
                    /\ 224 <= c /\ c < 240 => Count(c) = 2
                    /\ 240 <= c /\ c < 248 => Count(c) = 3
                    /\ 248 <= c => Count(c) > 3
  OBVIOUS
<1> DEFINE Announces(k) == /\ \A b \in 7 - k .. 6 : Bit(c, b) = 1
                           /\ k = 7 \/ Bit(c, 6 - k) = 0
<1>1. Count(c) = CHOOSE k \in 0..7 : Announces(k)
  BY DEF Count
<1>2. /\ Bit(c, 6) = IF c < 192 THEN 0 ELSE 1
      /\ 192 <= c => Bit(c, 5) = IF c < 224 THEN 0 ELSE 1
      /\ 224 <= c => Bit(c, 4) = IF c < 240 THEN 0 ELSE 1
      /\ 240 <= c => Bit(c, 3) = IF c < 248 THEN 0 ELSE 1
      /\ 248 <= c => Bit(c, 2) = IF c < 252 THEN 0 ELSE 1
      /\ 252 <= c => Bit(c, 1) = IF c < 254 THEN 0 ELSE 1
      /\ 254 <= c => Bit(c, 0) = IF c < 255 THEN 0 ELSE 1
  BY DEF Bit
<1>3. /\ Announces(0) <=> Bit(c, 6) = 0
      /\ Announces(1) <=> Bit(c, 6) = 1 /\ Bit(c, 5) = 0
      /\ Announces(2) <=> Bit(c, 6) = 1 /\ Bit(c, 5) = 1 /\ Bit(c, 4) = 0
      /\ Announces(3) <=>
           Bit(c, 6) = 1 /\ Bit(c, 5) = 1 /\ Bit(c, 4) = 1 /\ Bit(c, 3) = 0
  OBVIOUS
<1>4. /\ Announces(4) <=>
           /\ Bit(c, 6) = 1 /\ Bit(c, 5) = 1 /\ Bit(c, 4) = 1 /\ Bit(c, 3) = 1
           /\ Bit(c, 2) = 0
      /\ Announces(5) <=>
           /\ Bit(c, 6) = 1 /\ Bit(c, 5) = 1 /\ Bit(c, 4) = 1 /\ Bit(c, 3) = 1
           /\ Bit(c, 2) = 1 /\ Bit(c, 1) = 0
      /\ Announces(6) <=>
           /\ Bit(c, 6) = 1 /\ Bit(c, 5) = 1 /\ Bit(c, 4) = 1 /\ Bit(c, 3) = 1
           /\ Bit(c, 2) = 1 /\ Bit(c, 1) = 1 /\ Bit(c, 0) = 0
      /\ Announces(7) <=>
           /\ Bit(c, 6) = 1 /\ Bit(c, 5) = 1 /\ Bit(c, 4) = 1 /\ Bit(c, 3) = 1
           /\ Bit(c, 2) = 1 /\ Bit(c, 1) = 1 /\ Bit(c, 0) = 1
  OBVIOUS
<1> HIDE DEF Announces
<1>5. \E k \in 0..7 : Announces(k)
  BY <1>2, <1>3, <1>4
<1>6. Count(c) \in 0..7 /\ Announces(Count(c))
  BY <1>1, <1>5
<1>7. QED
  BY <1>2, <1>3, <1>4, <1>6

\* The value of the bits, for each number of bytes that the decoder accepts.
LEMMA ValueFacts ==
  ASSUME NEW s, NEW k \in Nat
  PROVE  /\ Value(s, k, 0) = 0 + ((Byte(s, k) * 1) % 128) * 1
         /\ Byte(s, k + 1) \in Bytes =>
              Value(s, k, 1) = (Byte(s, k + 1) % 64) + ((Byte(s, k) * 2) % 128) * 32
         /\ Byte(s, k + 1) \in Bytes /\ Byte(s, k + 2) \in Bytes =>
              Value(s, k, 2) = (Byte(s, k + 1) % 64) * 64 + (Byte(s, k + 2) % 64)
                                 + ((Byte(s, k) * 4) % 128) * 1024
         /\ Byte(s, k + 1) \in Bytes /\ Byte(s, k + 2) \in Bytes /\ Byte(s, k + 3) \in Bytes =>
              Value(s, k, 3) =
                ((Byte(s, k + 1) % 64) * 64 + (Byte(s, k + 2) % 64)) * 64
                  + (Byte(s, k + 3) % 64) + ((Byte(s, k) * 8) % 128) * 32768
<1> DEFINE Low(n) == CHOOSE low : low = [j \in 0..n |->
                       IF j = 0 THEN 0 ELSE (low[j - 1] * 64) + (Byte(s, k + j) % 64)]
           B(j) == Byte(s, k + j) % 64
<1>1. \A n : Value(s, k, n) = Low(n)[n] + ((Byte(s, k) * 2^n) % 128) * 2^(5 * n)
  BY Zenon DEF Value
<1>2. Low(0)[0] = 0
  <2>1. \E low : low = [j \in 0..0 |->
                   IF j = 0 THEN 0 ELSE (low[j - 1] * 64) + (Byte(s, k + j) % 64)]
    <3> DEFINE w == [j \in 0..0 |-> 0]
    <3>1. w = [j \in 0..0 |-> IF j = 0 THEN 0 ELSE (w[j - 1] * 64) + (Byte(s, k + j) % 64)]
      OBVIOUS
    <3>2. QED
      BY <3>1
  <2>2. Low(0) = [j \in 0..0 |->
                   IF j = 0 THEN 0 ELSE (Low(0)[j - 1] * 64) + (Byte(s, k + j) % 64)]
    BY <2>1, Zenon
  <2> HIDE DEF Low
  <2>3. QED
    BY <2>2
<1>3. Byte(s, k + 1) \in Bytes => Low(1)[1] = B(1)
  <2> DEFINE w == [j \in 0..1 |-> IF j = 0 THEN 0 ELSE 0 * 64 + B(1)]
  <2>1. w = [j \in 0..1 |-> IF j = 0 THEN 0 ELSE (w[j - 1] * 64) + (Byte(s, k + j) % 64)]
    OBVIOUS
  <2>2. Low(1) = [j \in 0..1 |->
                   IF j = 0 THEN 0 ELSE (Low(1)[j - 1] * 64) + (Byte(s, k + j) % 64)]
    BY <2>1, Zenon
  <2> HIDE DEF Low
  <2>3. Low(1)[0] = 0 /\ Low(1)[1] = (Low(1)[0] * 64) + (Byte(s, k + 1) % 64)
    BY <2>2
  <2>4. QED
    BY <2>3 DEF Bytes
<1>4. Byte(s, k + 1) \in Bytes /\ Byte(s, k + 2) \in Bytes =>
        Low(2)[2] = B(1) * 64 + B(2)
  <2> DEFINE one == 0 * 64 + B(1)
             w == [j \in 0..2 |-> IF j = 0 THEN 0 ELSE IF j = 1 THEN one ELSE one * 64 + B(2)]
  <2>1. w = [j \in 0..2 |-> IF j = 0 THEN 0 ELSE (w[j - 1] * 64) + (Byte(s, k + j) % 64)]
    OBVIOUS
  <2>2. Low(2) = [j \in 0..2 |->
                   IF j = 0 THEN 0 ELSE (Low(2)[j - 1] * 64) + (Byte(s, k + j) % 64)]
    BY <2>1, Zenon
  <2> HIDE DEF Low
  <2>3. /\ Low(2)[0] = 0 /\ Low(2)[1] = (Low(2)[0] * 64) + (Byte(s, k + 1) % 64)
        /\ Low(2)[2] = (Low(2)[1] * 64) + (Byte(s, k + 2) % 64)
    BY <2>2
  <2>4. QED
    BY <2>3 DEF Bytes
<1>5. Byte(s, k + 1) \in Bytes /\ Byte(s, k + 2) \in Bytes /\ Byte(s, k + 3) \in Bytes =>
        Low(3)[3] = (B(1) * 64 + B(2)) * 64 + B(3)
  <2> DEFINE one == 0 * 64 + B(1)
             two == one * 64 + B(2)
             w == [j \in 0..3 |-> IF j = 0 THEN 0 ELSE IF j = 1 THEN one
                                  ELSE IF j = 2 THEN two ELSE two * 64 + B(3)]
  <2>1. w = [j \in 0..3 |-> IF j = 0 THEN 0 ELSE (w[j - 1] * 64) + (Byte(s, k + j) % 64)]
    OBVIOUS
  <2>2. Low(3) = [j \in 0..3 |->
                   IF j = 0 THEN 0 ELSE (Low(3)[j - 1] * 64) + (Byte(s, k + j) % 64)]
    BY <2>1, Zenon
  <2> HIDE DEF Low
  <2>3. /\ Low(3)[0] = 0 /\ Low(3)[1] = (Low(3)[0] * 64) + (Byte(s, k + 1) % 64)
        /\ Low(3)[2] = (Low(3)[1] * 64) + (Byte(s, k + 2) % 64)
        /\ Low(3)[3] = (Low(3)[2] * 64) + (Byte(s, k + 3) % 64)
    BY <2>2
  <2>4. QED
    BY <2>3 DEF Bytes
<1> HIDE DEF Low
<1>6. /\ Value(s, k, 0) = Low(0)[0] + ((Byte(s, k) * 1) % 128) * 1
      /\ Value(s, k, 1) = Low(1)[1] + ((Byte(s, k) * 2) % 128) * 32
      /\ Value(s, k, 2) = Low(2)[2] + ((Byte(s, k) * 4) % 128) * 1024
      /\ Value(s, k, 3) = Low(3)[3] + ((Byte(s, k) * 8) % 128) * 32768
  <2>1. /\ Value(s, k, 0) = Low(0)[0] + ((Byte(s, k) * 2^0) % 128) * 2^(5 * 0)
        /\ Value(s, k, 1) = Low(1)[1] + ((Byte(s, k) * 2^1) % 128) * 2^(5 * 1)
        /\ Value(s, k, 2) = Low(2)[2] + ((Byte(s, k) * 2^2) % 128) * 2^(5 * 2)
        /\ Value(s, k, 3) = Low(3)[3] + ((Byte(s, k) * 2^3) % 128) * 2^(5 * 3)
    BY <1>1, Zenon
  <2>2. /\ 2^0 = 1 /\ 2^1 = 2 /\ 2^2 = 4 /\ 2^3 = 8
        /\ 2^(5 * 0) = 1 /\ 2^(5 * 1) = 32 /\ 2^(5 * 2) = 1024 /\ 2^(5 * 3) = 32768
    OBVIOUS
  <2>3. QED
    BY <2>1, <2>2
<1>7. QED
  BY <1>2, <1>3, <1>4, <1>5, <1>6

-----------------------------------------------------------------------------
(***************************************************************************)
(* The characters of the standard.                                         *)
(***************************************************************************)
\* The bytes of a character, by their number.
One(a) == a \in 0..127
Two(a, b) == a \in 194..223 /\ b \in Tail_
Three(a, b, c) ==
  /\ {b, c} \subseteq Tail_
  /\ \/ a = 224 /\ b >= 160
     \/ a \in 225..239
Four(a, b, c, e) ==
  /\ {b, c, e} \subseteq Tail_
  /\ \/ a = 240 /\ b >= 144
     \/ a \in 241..243
     \/ a = 244 /\ b <= 143

\* The l bytes from position p on are a character.
Character(s, p, l) ==
  /\ p + l - 1 <= Len(s)
  /\ \/ l = 1 /\ One(s[p])
     \/ l = 2 /\ Two(s[p], s[p + 1])
     \/ l = 3 /\ Three(s[p], s[p + 1], s[p + 2])
     \/ l = 4 /\ Four(s[p], s[p + 1], s[p + 2], s[p + 3])

\* A position in a string of bytes.
Position(s, p) == s \in Seq(Bytes) /\ p \in 1 .. Len(s)

\* What a position is.
LEMMA PositionFacts ==
  ASSUME NEW s, NEW p, Position(s, p)
  PROVE  /\ s \in Seq(Bytes) /\ Len(s) \in Nat /\ p \in Nat /\ 1 <= p /\ p <= Len(s)
         /\ \A k \in 1 .. Len(s) : s[k] \in Bytes
BY DEF Position

\* The table, by the number of bytes.
LEMMA WellFormedFacts ==
  ASSUME NEW t
  PROVE  WellFormed(t) <=> \/ Len(t) = 1 /\ One(t[1])
                           \/ Len(t) = 2 /\ Two(t[1], t[2])
                           \/ Len(t) = 3 /\ Three(t[1], t[2], t[3])
                           \/ Len(t) = 4 /\ Four(t[1], t[2], t[3], t[4])
<1> DEFINE n == Len(t)
           a == t[1]
           b == t[2]
           c == t[3]
           e == t[4]
<1>1. WellFormed(t) <=>
        \/ n = 1 /\ a \in 0..127
        \/ n = 2 /\ a \in 194..223 /\ b \in Tail_
        \/ /\ n = 3 /\ {b, c} \subseteq Tail_
           /\ \/ a = 224 /\ b >= 160
              \/ a \in 225..239
        \/ /\ n = 4 /\ {b, c, e} \subseteq Tail_
           /\ \/ a = 240 /\ b >= 144
              \/ a \in 241..243
              \/ a = 244 /\ b <= 143
  BY DEF WellFormed
<1>2. SUFFICES WellFormed(t) <=> \/ n = 1 /\ One(a)
                                 \/ n = 2 /\ Two(a, b)
                                 \/ n = 3 /\ Three(a, b, c)
                                 \/ n = 4 /\ Four(a, b, c, e)
  OBVIOUS
<1> HIDE DEF n, a, b, c, e
<1>3. QED
  BY <1>1 DEF One, Two, Three, Four

\* So the table says, read at the position.
LEMMA TableFacts ==
  ASSUME NEW s, NEW p, Position(s, p), NEW l \in 1..4
  PROVE  p + l - 1 <= Len(s) /\ WellFormed(SubSeq(s, p, p + l - 1)) <=> Character(s, p, l)
<1> SUFFICES ASSUME p + l - 1 <= Len(s)
             PROVE  WellFormed(SubSeq(s, p, p + l - 1)) <=> Character(s, p, l)
  BY DEF Character
<1> DEFINE t == SubSeq(s, p, p + l - 1)
<1>1. /\ Len(s) \in Nat /\ p \in Nat /\ l \in Nat /\ p + l - 1 \in Nat
      /\ s \in Seq(Bytes) /\ p \in 1 .. Len(s)
  BY PositionFacts
<1>2. Len(t) = l /\ \A k \in 1 .. l : t[k] = s[p + k - 1]
  <2>1. Len(t) = (p + l - 1) - p + 1 /\ \A k \in 1 .. (p + l - 1) - p + 1 : t[k] = s[p + k - 1]
    BY <1>1, SubSeqProperties
  <2>2. QED
    BY <1>1, <2>1
<1> HIDE DEF t
<1>3. WellFormed(t) <=>
        \/ Len(t) = 1 /\ One(t[1])
        \/ Len(t) = 2 /\ Two(t[1], t[2])
        \/ Len(t) = 3 /\ Three(t[1], t[2], t[3])
        \/ Len(t) = 4 /\ Four(t[1], t[2], t[3], t[4])
  BY WellFormedFacts
<1>4. Character(s, p, l) <=>
        \/ l = 1 /\ One(s[p])
        \/ l = 2 /\ Two(s[p], s[p + 1])
        \/ l = 3 /\ Three(s[p], s[p + 1], s[p + 2])
        \/ l = 4 /\ Four(s[p], s[p + 1], s[p + 2], s[p + 3])
  BY DEF Character
<1>5. CASE l = 1
  BY <1>1, <1>2, <1>3, <1>4, <1>5 DEF t
<1>6. CASE l = 2
  <2>1. t[1] = s[p] /\ t[2] = s[p + 1] /\ Len(t) = 2
    BY <1>1, <1>2, <1>6
  <2>2. QED
    <3>1. WellFormed(t) <=> Two(s[p], s[p + 1])
      BY <1>3, <2>1
    <3>2. QED
      BY <1>4, <1>6, <3>1 DEF t
<1>7. CASE l = 3
  <2>1. t[1] = s[p] /\ t[2] = s[p + 1] /\ t[3] = s[p + 2] /\ Len(t) = 3
    BY <1>1, <1>2, <1>7
  <2>2. QED
    <3>1. WellFormed(t) <=> Three(s[p], s[p + 1], s[p + 2])
      BY <1>3, <2>1
    <3>2. QED
      BY <1>4, <1>7, <3>1 DEF t
<1>8. CASE l = 4
  <2>1. t[1] = s[p] /\ t[2] = s[p + 1] /\ t[3] = s[p + 2] /\ t[4] = s[p + 3] /\ Len(t) = 4
    BY <1>1, <1>2, <1>8
  <2>2. QED
    BY <1>3, <1>4, <1>8, <2>1 DEF t
<1>9. QED
  BY <1>5, <1>6, <1>7, <1>8

\* The four lengths.
LEMMA FourLengths ==
  ASSUME NEW s, NEW p, Position(s, p)
  PROVE  /\ Character(s, p, 1) <=> One(s[p])
         /\ Character(s, p, 2) <=> p + 1 <= Len(s) /\ Two(s[p], s[p + 1])
         /\ Character(s, p, 3) <=> p + 2 <= Len(s) /\ Three(s[p], s[p + 1], s[p + 2])
         /\ Character(s, p, 4) <=>
              p + 3 <= Len(s) /\ Four(s[p], s[p + 1], s[p + 2], s[p + 3])
BY PositionFacts DEF Character

\* The first byte tells the length.
LEMMA FirstByte ==
  ASSUME NEW s, NEW p, Position(s, p)
  PROVE  /\ s[p] \in 0..255
         /\ Character(s, p, 1) => s[p] \in 0..127
         /\ Character(s, p, 2) => s[p] \in 192..223
         /\ Character(s, p, 3) => s[p] \in 224..239
         /\ Character(s, p, 4) => s[p] \in 240..247
<1> DEFINE a == s[p]
           b == s[p + 1]
           c == s[p + 2]
           e == s[p + 3]
<1>1. /\ Character(s, p, 1) => One(a)
      /\ Character(s, p, 2) => Two(a, b)
      /\ Character(s, p, 3) => Three(a, b, c)
      /\ Character(s, p, 4) => Four(a, b, c, e)
  BY FourLengths
<1>2. a \in Bytes
  BY PositionFacts
<1>3. SUFFICES /\ a \in 0..255
               /\ Character(s, p, 1) => a \in 0..127
               /\ Character(s, p, 2) => a \in 192..223
               /\ Character(s, p, 3) => a \in 224..239
               /\ Character(s, p, 4) => a \in 240..247
  OBVIOUS
<1> HIDE DEF a, b, c, e
<1>4. QED
  BY <1>1, <1>2 DEF One, Two, Three, Four, Bytes

\* The length of a character is that of the only one that begins at its position.
LEMMA LengthFacts ==
  ASSUME NEW s, NEW p, Position(s, p)
  PROVE  /\ CharLen(s, p) \in 0..4 /\ p + CharLen(s, p) - 1 <= Len(s)
         /\ \A l \in 1..4 : Character(s, p, l) <=> CharLen(s, p) = l
<1> DEFINE Here(l) == p + l - 1 <= Len(s) /\ WellFormed(SubSeq(s, p, p + l - 1))
<1>1. CharLen(s, p) = IF \E l \in 1..4 : Here(l) THEN CHOOSE l \in 1..4 : Here(l) ELSE 0
  BY DEF CharLen
<1>2. \A l \in 1..4 : Here(l) <=> Character(s, p, l)
  BY TableFacts
<1>3. \A l, m \in 1..4 : Character(s, p, l) /\ Character(s, p, m) => l = m
  <2> DEFINE a == s[p]
  <2>1. /\ a \in 0..255
        /\ Character(s, p, 1) => a \in 0..127
        /\ Character(s, p, 2) => a \in 192..223
        /\ Character(s, p, 3) => a \in 224..239
        /\ Character(s, p, 4) => a \in 240..247
    BY FirstByte
  <2> HIDE DEF a
  <2>2. QED
    BY <2>1
<1>4. \A l \in 1..4 : Character(s, p, l) => p + l - 1 <= Len(s)
  BY DEF Character
<1> HIDE DEF Here
<1>5. CASE \E l \in 1..4 : Here(l)
  <2>1. CharLen(s, p) \in 1..4 /\ Here(CharLen(s, p))
    BY <1>1, <1>5
  <2>2. Character(s, p, CharLen(s, p))
    BY <1>2, <2>1
  <2>3. QED
    BY <1>3, <1>4, <2>1, <2>2
<1>6. CASE ~\E l \in 1..4 : Here(l)
  <2>1. CharLen(s, p) = 0
    BY <1>1, <1>6
  <2>2. \A l \in 1..4 : ~Character(s, p, l)
    BY <1>2, <1>6
  <2>3. Len(s) \in Nat /\ p \in Nat /\ p <= Len(s)
    BY PositionFacts
  <2>4. QED
    BY <2>1, <2>2, <2>3
<1>7. QED
  BY <1>5, <1>6

\* None begins with a continuation.
LEMMA NoneAtContinuation ==
  ASSUME NEW s, NEW p, Position(s, p), s[p] \in 128..191
  PROVE  CharLen(s, p) = 0
<1> DEFINE a == s[p]
<1>1. CharLen(s, p) # 0 => \/ Character(s, p, 1) \/ Character(s, p, 2)
                           \/ Character(s, p, 3) \/ Character(s, p, 4)
  BY LengthFacts
<1>2. /\ s[p] \in 0..255
      /\ Character(s, p, 1) => s[p] \in 0..127
      /\ Character(s, p, 2) => s[p] \in 192..223
      /\ Character(s, p, 3) => s[p] \in 224..239
      /\ Character(s, p, 4) => s[p] \in 240..247
  BY FirstByte
<1>3. QED
  BY <1>1, <1>2

-----------------------------------------------------------------------------
(***************************************************************************)
(* What the decoder accepts is what the table lists.                       *)
(***************************************************************************)
\* The decoder lets the value of so many bytes through.
Accepted(v, count) == ~(v > MAXUNICODE \/ v <= limits(count))

\* A continuation cannot begin a character.
LEMMA RefusesContinuations ==
  ASSUME NEW a \in 128..191 PROVE ~Accepted(0 + ((a * 1) % 128) * 1, 0)
BY DEF Accepted, limits

\* Two bytes: 0xC0 and 0xC1 only begin overlong forms.
LEMMA AcceptsTwo ==
  ASSUME NEW a \in 192..223, NEW b \in Tail_
  PROVE  Accepted((b % 64) + ((a * 2) % 128) * 32, 1) <=> Two(a, b)
<1>1. (a * 2) % 128 = (a - 192) * 2 /\ b % 64 = b - 128
  BY DEF Tail_
<1>2. limits(1) = 127
  BY DEF limits
<1>3. Two(a, b) <=> a >= 194
  BY DEF Two
<1>4. QED
  BY <1>1, <1>2, <1>3 DEF Accepted, MAXUNICODE, Tail_

\* Three: after 0xE0 small continuations are overlong.
LEMMA AcceptsThree ==
  ASSUME NEW a \in 224..239, NEW b \in Tail_, NEW c \in Tail_
  PROVE  Accepted((b % 64) * 64 + (c % 64) + ((a * 4) % 128) * 1024, 2) <=> Three(a, b, c)
<1>1. (a * 4) % 128 = (a - 224) * 4 /\ b % 64 = b - 128 /\ c % 64 = c - 128
  BY DEF Tail_
<1>2. limits(2) = 2047
  BY DEF limits
<1>3. Three(a, b, c) <=> a > 224 \/ b >= 160
  BY DEF Three
<1>4. QED
  BY <1>1, <1>2, <1>3 DEF Accepted, MAXUNICODE, Tail_

\* Four: after 0xF0 small ones are overlong, after 0xF4 great ones too great.
LEMMA AcceptsFour ==
  ASSUME NEW a \in 240..247, NEW b \in Tail_, NEW c \in Tail_, NEW e \in Tail_
  PROVE  Accepted(((b % 64) * 64 + (c % 64)) * 64 + (e % 64) + ((a * 8) % 128) * 32768, 3)
           <=> Four(a, b, c, e)
<1>1. /\ (a * 8) % 128 = (a - 240) * 8
      /\ b % 64 = b - 128 /\ c % 64 = c - 128 /\ e % 64 = e - 128
  BY DEF Tail_
<1>2. limits(3) = 65535
  BY DEF limits
<1>3. Four(a, b, c, e) <=>
        (a = 240 /\ b >= 144) \/ a \in 241..243 \/ (a = 244 /\ b <= 143)
  BY DEF Four
<1>4. QED
  BY <1>1, <1>2, <1>3 DEF Accepted, MAXUNICODE, Tail_

\* The bits of two, three and four bytes that are not there to announce or to
\* continue, and those of the l bytes from position p on.
TwoBits(a, b) == (b % 64) + ((a * 2) % 128) * 32
ThreeBits(a, b, c) == (b % 64) * 64 + (c % 64) + ((a * 4) % 128) * 1024
FourBits(a, b, c, e) ==
  ((b % 64) * 64 + (c % 64)) * 64 + (e % 64) + ((a * 8) % 128) * 32768
Bits(s, p, l) ==
  IF l = 1 THEN s[p]
  ELSE IF l = 2 THEN TwoBits(s[p], s[p + 1])
  ELSE IF l = 3 THEN ThreeBits(s[p], s[p + 1], s[p + 2])
  ELSE FourBits(s[p], s[p + 1], s[p + 2], s[p + 3])

\* The decoder finds a character where there is one, and its end.
LEMMA DecodeFacts ==
  ASSUME NEW s, NEW p, Position(s, p)
  PROVE  /\ CharLen(s, p) = 0 => utf8_decode(s, p - 1) = Invalid
         /\ CharLen(s, p) # 0 => /\ utf8_decode(s, p - 1) # Invalid
                                 /\ utf8_decode(s, p - 1).next = p - 1 + CharLen(s, p)
                                 /\ utf8_decode(s, p - 1).code = Bits(s, p, CharLen(s, p))
<1> DEFINE k == p - 1
           L == Len(s)
           n == CharLen(s, p)
           d == utf8_decode(s, k)
           a == s[p]
           b == s[p + 1]
           c == s[p + 2]
           e == s[p + 3]
           F(m) == \A j \in 1..m : ~(k + j > Len(s) \/ ~iscont(s, k + j))
           V(m) == Value(s, k, m)
           Result(m) == IF F(m) /\ Accepted(V(m), m)
                        THEN [next |-> k + m + 1, code |-> V(m)] ELSE Invalid
           C(l) == Character(s, p, l)
           X(l) == Bits(s, p, l)
           Fits == /\ n = 0 => d = Invalid
                   /\ n # 0 => d # Invalid /\ d.next = k + n /\ d.code = X(n)
<1>1. /\ L \in Nat /\ p \in Nat /\ 1 <= p /\ p <= L /\ k \in Nat /\ p = k + 1 /\ k < L
      /\ \A j \in 1 .. L : s[j] \in Bytes
  BY PositionFacts
<1>2. \A j \in 0 .. L - 1 : Byte(s, j) = s[j + 1]
  BY <1>1 DEF Byte
<1>3. ~iscont(s, L)
  BY DEF iscont, Byte
<1>4. \A j \in 0 .. L - 1 : iscont(s, j) <=> s[j + 1] \in Tail_
  BY <1>1, <1>2 DEF iscont, Tail_
<1>5. Byte(s, k) = a /\ a \in 0..255
  <2>1. Byte(s, k) = s[k + 1] /\ k + 1 = p /\ a \in Bytes
    BY <1>1, <1>2
  <2>2. QED
    BY <2>1 DEF Bytes
<1>6. \A j \in 1..3 : ~(k + j > Len(s) \/ ~iscont(s, k + j)) <=>
                        p + j <= L /\ s[p + j] \in Tail_
  <2>1. ASSUME NEW j \in 1..3
        PROVE  ~(k + j > Len(s) \/ ~iscont(s, k + j)) <=> p + j <= L /\ s[p + j] \in Tail_
    <3>1. CASE k + j > L
      BY <1>1, <3>1
    <3>2. CASE k + j = L
      BY <1>1, <1>3, <3>2
    <3>3. CASE k + j < L
      <4>1. k + j \in 0 .. L - 1 /\ (k + j) + 1 = p + j
        BY <1>1, <3>3
      <4>2. iscont(s, k + j) <=> s[p + j] \in Tail_
        BY <1>4, <4>1
      <4>3. QED
        BY <1>1, <3>3, <4>2
    <3>4. QED
      BY <1>1, <3>1, <3>2, <3>3
  <2>2. QED
    BY <2>1
<1>7. /\ F(0)
      /\ F(1) <=> p + 1 <= L /\ b \in Tail_
      /\ F(2) <=> p + 2 <= L /\ b \in Tail_ /\ c \in Tail_
      /\ F(3) <=> p + 3 <= L /\ b \in Tail_ /\ c \in Tail_ /\ e \in Tail_
  <2> DEFINE G(j) == ~(k + j > Len(s) \/ ~iscont(s, k + j))
  <2>1. /\ F(0) /\ (F(1) <=> G(1)) /\ (F(2) <=> G(1) /\ G(2))
        /\ F(3) <=> G(1) /\ G(2) /\ G(3)
    <3> HIDE DEF G
    <3>1. \A m : F(m) <=> \A j \in 1..m : G(j)
      BY DEF G
    <3> HIDE DEF F
    <3>2. QED
      BY <3>1
  <2>2. /\ G(1) <=> p + 1 <= L /\ b \in Tail_
        /\ G(2) <=> p + 2 <= L /\ c \in Tail_
        /\ G(3) <=> p + 3 <= L /\ e \in Tail_
    BY <1>6
  <2> HIDE DEF G, F, b, c, e, L
  <2>3. QED
    BY <1>1, <2>1, <2>2
<1>8. /\ F(1) => Byte(s, k + 1) = b /\ b \in Bytes
      /\ F(2) => Byte(s, k + 2) = c /\ c \in Bytes
      /\ F(3) => Byte(s, k + 3) = e /\ e \in Bytes
  <2>1. \A j \in 1..3 : p + j <= L => Byte(s, k + j) = s[p + j]
    <3>1. ASSUME NEW j \in 1..3, p + j <= L PROVE Byte(s, k + j) = s[p + j]
      <4>1. k + j \in 0 .. L - 1 /\ (k + j) + 1 = p + j
        BY <1>1, <3>1
      <4>2. QED
        BY <1>2, <4>1
    <3>2. QED
      BY <3>1
  <2>2. \A x \in Tail_ : x \in Bytes
    BY DEF Tail_, Bytes
  <2> HIDE DEF F
  <2>3. QED
    BY <1>7, <2>1, <2>2
<1>9. d = IF a < 128 THEN [next |-> k + 1, code |-> a]
          ELSE IF Count(a) > 3 THEN Invalid ELSE Result(Count(a))
  <2>1. d = IF a < 128 THEN [next |-> k + 1, code |-> a]
            ELSE IF ~F(Count(a)) \/ Count(a) > 3 THEN Invalid
            ELSE IF V(Count(a)) > MAXUNICODE \/ V(Count(a)) <= limits(Count(a))
            THEN Invalid
            ELSE [next |-> k + Count(a) + 1, code |-> V(Count(a))]
    BY <1>5 DEF utf8_decode
  <2>2. QED
    BY <2>1 DEF Accepted
<1>10. /\ C(1) <=> One(a)
       /\ C(2) <=> p + 1 <= L /\ Two(a, b)
       /\ C(3) <=> p + 2 <= L /\ Three(a, b, c)
       /\ C(4) <=> p + 3 <= L /\ Four(a, b, c, e)
       /\ C(1) => a \in 0..127
       /\ C(2) => a \in 192..223
       /\ C(3) => a \in 224..239
       /\ C(4) => a \in 240..247
  BY FourLengths, FirstByte
<1>11. n \in 0..4 /\ \A l \in 1..4 : C(l) <=> n = l
  BY LengthFacts
<1>12. ASSUME NEW m \in 0..3, n = m + 1, NEW v, d = [next |-> k + m + 1, code |-> v],
              v = X(n)
       PROVE  Fits
  <2> HIDE DEF X, n, d
  <2>1. d.next = k + m + 1 /\ k + m + 1 # -1 /\ Invalid.next = -1 /\ d.code = v
    BY <1>1, <1>12 DEF Invalid
  <2>2. QED
    BY <1>1, <1>12, <2>1
<1>13. ASSUME n = 0, d = Invalid PROVE Fits
  BY <1>13
<1>14. /\ 128 <= a => a \in 128..255
       /\ 128 <= a /\ a < 192 => Count(a) = 0 /\ a \in 128..191
       /\ 192 <= a /\ a < 224 => Count(a) = 1 /\ a \in 192..223
       /\ 224 <= a /\ a < 240 => Count(a) = 2 /\ a \in 224..239
       /\ 240 <= a /\ a < 248 => Count(a) = 3 /\ a \in 240..247
       /\ 248 <= a => Count(a) > 3
  <2> HIDE DEF a
  <2>1. 128 <= a => a \in 128..255
    BY <1>5
  <2>2. QED
    BY <1>5, <2>1, CountFacts
<1>15. SUFFICES Fits
  OBVIOUS
<1>16. /\ V(0) = 0 + ((a * 1) % 128) * 1
       /\ F(1) => V(1) = (b % 64) + ((a * 2) % 128) * 32
       /\ F(2) => V(2) = (b % 64) * 64 + (c % 64) + ((a * 4) % 128) * 1024
       /\ F(3) => V(3) = ((b % 64) * 64 + (c % 64)) * 64 + (e % 64) + ((a * 8) % 128) * 32768
  <2>1. (F(2) => F(1)) /\ (F(3) => F(2))
    <3> HIDE DEF F, b, c, e, L
    <3>1. QED
      BY <1>1, <1>7
  <2> HIDE DEF F
  <2>2. QED
    BY <1>1, <1>5, <1>8, <2>1, ValueFacts
<1> HIDE DEF k, L, n, d, b, c, e, F, V, C, Fits
<1>17. /\ X(1) = a
       /\ F(1) => V(1) = X(2)
       /\ F(2) => V(2) = X(3)
       /\ F(3) => V(3) = X(4)
  <2>1. /\ X(2) = (b % 64) + ((a * 2) % 128) * 32
        /\ X(3) = (b % 64) * 64 + (c % 64) + ((a * 4) % 128) * 1024
        /\ X(4) = ((b % 64) * 64 + (c % 64)) * 64 + (e % 64) + ((a * 8) % 128) * 32768
        /\ X(1) = a
    BY SMT DEF Bits, TwoBits, ThreeBits, FourBits, b, c, e
  <2> HIDE DEF X, a
  <2>2. QED
    BY <1>16, <2>1, SMT
<1> HIDE DEF a, X
<1>18. CASE a < 128
  <2>1. C(1)
    BY <1>5, <1>10, <1>18 DEF One
  <2>2. n = 0 + 1
    BY <1>11, <2>1
  <2>3. d = [next |-> k + 0 + 1, code |-> a]
    BY <1>1, <1>9, <1>18
  <2>4. QED
    BY <1>12, <1>17, <2>2, <2>3
<1>19. CASE 128 <= a /\ a < 192
  <2>1. d = Invalid
    BY <1>5, <1>9, <1>14, <1>16, <1>19, RefusesContinuations
  <2>2. n = 0
    BY <1>5, <1>10, <1>11, <1>19
  <2>3. QED
    BY <1>13, <2>1, <2>2
<1>20. CASE 192 <= a /\ a < 224
  <2>1. d = Result(1)
    BY <1>5, <1>9, <1>14, <1>20
  <2>2. C(2) <=> F(1) /\ Accepted(V(1), 1)
    BY <1>7, <1>10, <1>14, <1>16, <1>20, AcceptsTwo DEF Two
  <2>3. n = IF C(2) THEN 1 + 1 ELSE 0
    BY <1>5, <1>10, <1>11, <1>20
  <2>4. QED
    BY <1>12, <1>13, <1>17, <2>1, <2>2, <2>3
<1>21. CASE 224 <= a /\ a < 240
  <2>1. d = Result(2)
    BY <1>5, <1>9, <1>14, <1>21
  <2>2. C(3) <=> F(2) /\ Accepted(V(2), 2)
    BY <1>7, <1>10, <1>14, <1>16, <1>21, AcceptsThree DEF Three
  <2>3. n = IF C(3) THEN 2 + 1 ELSE 0
    BY <1>5, <1>10, <1>11, <1>21
  <2>4. QED
    BY <1>12, <1>13, <1>17, <2>1, <2>2, <2>3
<1>22. CASE 240 <= a /\ a < 248
  <2>1. d = Result(3)
    BY <1>5, <1>9, <1>14, <1>22
  <2>2. C(4) <=> F(3) /\ Accepted(V(3), 3)
    BY <1>7, <1>10, <1>14, <1>16, <1>22, AcceptsFour DEF Four
  <2>3. n = IF C(4) THEN 3 + 1 ELSE 0
    BY <1>5, <1>10, <1>11, <1>22
  <2>4. QED
    BY <1>12, <1>13, <1>17, <2>1, <2>2, <2>3
<1>23. CASE 248 <= a
  <2>1. d = Invalid
    BY <1>5, <1>9, <1>14, <1>23
  <2>2. n = 0
    BY <1>5, <1>10, <1>11, <1>23
  <2>3. QED
    BY <1>13, <2>1, <2>2
<1>24. QED
  BY <1>5, <1>18, <1>19, <1>20, <1>21, <1>22, <1>23

-----------------------------------------------------------------------------
(***************************************************************************)
(* The characters of a string: Starts follows them from position 1 on,     *)
(* and every position from which it goes on has the rest.                  *)
(***************************************************************************)
\* What a walk from p on finds, when next tells where each position leads.
Walk(n, next, f, p) ==
  IF p > n \/ next[p] = p THEN <<>> ELSE <<p>> \o f[next[p]]

\* There is a walk from every position of a string, if each leads forward: by
\* induction from the end.
LEMMA WalkExists ==
  ASSUME NEW n \in Nat, NEW next \in [1..n -> Nat],
         \A p \in 1..n : p <= next[p] /\ next[p] <= n + 1
  PROVE  \E f \in [1 .. n + 1 -> Seq(Nat)] : \A p \in 1 .. n + 1 : f[p] = Walk(n, next, f, p)
<1> DEFINE WalksFrom(q) == \E f \in [q .. n + 1 -> Seq(Nat)] :
             \A p \in q .. n + 1 : f[p] = Walk(n, next, f, p)
           Fails == {m \in 0..n : ~WalksFrom(n + 1 - m)}
           R == OpToRel(<, Nat)
<1>1. WalksFrom(n + 1)
  <2> DEFINE f == [p \in n + 1 .. n + 1 |-> <<>>]
  <2>1. f \in [n + 1 .. n + 1 -> Seq(Nat)]
    OBVIOUS
  <2>2. \A p \in n + 1 .. n + 1 : f[p] = Walk(n, next, f, p)
    BY DEF Walk
  <2>3. QED
    BY <2>1, <2>2
<1>2. ASSUME NEW q \in 1..n, WalksFrom(q + 1) PROVE WalksFrom(q)
  <2>1. PICK f \in [q + 1 .. n + 1 -> Seq(Nat)] :
          \A p \in q + 1 .. n + 1 : f[p] = Walk(n, next, f, p)
    BY <1>2
  <2> DEFINE first == IF next[q] = q THEN <<>> ELSE <<q>> \o f[next[q]]
             g == [p \in q .. n + 1 |-> IF p = q THEN first ELSE f[p]]
  <2>2. first \in Seq(Nat)
    <3>1. CASE next[q] = q
      BY <3>1
    <3>2. CASE next[q] # q
      <4>1. next[q] \in q + 1 .. n + 1
        BY <3>2
      <4>2. f[next[q]] \in Seq(Nat) /\ <<q>> \in Seq(Nat)
        BY <4>1
      <4>3. <<q>> \o f[next[q]] \in Seq(Nat)
        BY <4>2, ConcatProperties
      <4>4. QED
        BY <3>2, <4>3
    <3>3. QED
      BY <3>1, <3>2
  <2>3. g \in [q .. n + 1 -> Seq(Nat)]
    <3> HIDE DEF first
    <3>1. QED
      BY <2>2
  <2>4. g[q] = first /\ \A p \in q + 1 .. n + 1 : g[p] = f[p]
    <3> HIDE DEF first
    <3>1. QED
      OBVIOUS
  <2> HIDE DEF g
  <2>5. g[q] = Walk(n, next, g, q)
    <3>1. CASE next[q] = q
      BY <2>4, <3>1 DEF Walk
    <3>2. CASE next[q] # q
      <4>1. next[q] \in q + 1 .. n + 1
        BY <3>2
      <4>2. g[next[q]] = f[next[q]]
        BY <2>4, <4>1
      <4>3. QED
        BY <2>4, <3>2, <4>2 DEF Walk
    <3>3. QED
      BY <3>1, <3>2
  <2>6. ASSUME NEW p \in q + 1 .. n + 1 PROVE g[p] = Walk(n, next, g, p)
    <3>1. CASE p > n \/ next[p] = p
      BY <2>1, <2>4, <3>1 DEF Walk
    <3>2. CASE ~(p > n \/ next[p] = p)
      <4>1. next[p] \in q + 1 .. n + 1
        BY <3>2
      <4>2. g[next[p]] = f[next[p]]
        BY <2>4, <4>1
      <4>3. QED
        BY <2>1, <2>4, <3>2, <4>2 DEF Walk
    <3>3. QED
      BY <3>1, <3>2
  <2>7. \A p \in q .. n + 1 : g[p] = Walk(n, next, g, p)
    <3>1. \A p \in q .. n + 1 : p = q \/ p \in q + 1 .. n + 1
      OBVIOUS
    <3>2. QED
      BY <2>5, <2>6, <3>1
  <2>8. QED
    BY <2>3, <2>7
<1> HIDE DEF WalksFrom
<1>3. Fails = {}
  <2> SUFFICES ASSUME Fails # {} PROVE FALSE
    OBVIOUS
  <2>1. PICK m \in Fails : \A l \in Fails : ~(<<l, m>> \in R)
    <3>1. IsWellFoundedOn(R, Nat)
      BY NatLessThanWellFounded
    <3>2. Fails \subseteq Nat
      OBVIOUS
    <3> HIDE DEF R, Fails
    <3>3. QED
      BY <3>1, <3>2, WFMin
  <2>2. m \in 0..n /\ ~WalksFrom(n + 1 - m)
    OBVIOUS
  <2>3. m # 0
    BY <1>1, <2>2
  <2>4. m - 1 \in 0..n /\ m - 1 < m
    BY <2>2, <2>3
  <2>5. m - 1 \notin Fails
    <3>1. <<m - 1, m>> \in R
      <4> SUFFICES <<m - 1, m>> \in {ss \in Nat \X Nat : ss[1] < ss[2]}
        BY Zenon DEF OpToRel
      <4>1. QED
        BY <2>2, <2>4
    <3> HIDE DEF R, Fails
    <3>2. QED
      BY <2>1, <3>1
  <2>6. WalksFrom(n + 1 - (m - 1))
    BY <2>4, <2>5
  <2>7. n + 1 - m \in 1..n /\ n + 1 - (m - 1) = (n + 1 - m) + 1
    BY <2>2, <2>3
  <2>8. QED
    BY <1>2, <2>2, <2>6, <2>7
<1>4. WalksFrom(1)
  <2>1. n \in 0..n /\ n + 1 - n = 1
    OBVIOUS
  <2>2. QED
    BY <1>3, <2>1
<1>5. QED
  BY <1>4 DEF WalksFrom

\* Any walk is of sequences of positions: from the end again.
LEMMA WalkTyped ==
  ASSUME NEW n \in Nat, NEW next \in [1..n -> Nat],
         \A p \in 1..n : p <= next[p] /\ next[p] <= n + 1,
         NEW f, \A p \in 1 .. n + 1 : f[p] = Walk(n, next, f, p)
  PROVE  \A p \in 1 .. n + 1 : f[p] \in Seq(Nat)
<1> DEFINE Fails == {m \in 0..n : f[n + 1 - m] \notin Seq(Nat)}
           R == OpToRel(<, Nat)
<1>1. ASSUME NEW m \in Fails, \A l \in Fails : ~(<<l, m>> \in R)
      PROVE  FALSE
  <2>1. m \in 0..n /\ f[n + 1 - m] \notin Seq(Nat)
    OBVIOUS
  <2> DEFINE p == n + 1 - m
  <2>2. p \in 1 .. n + 1
    BY <2>1
  <2>3. f[p] = Walk(n, next, f, p)
    BY <2>2
  <2>4. p <= n /\ next[p] # p
    BY <2>1, <2>3 DEF Walk
  <2>5. next[p] \in p + 1 .. n + 1
    BY <2>2, <2>4
  <2> DEFINE l == n + 1 - next[p]
  <2>6. l \in 0..n /\ l < m
    BY <2>1, <2>5
  <2>7. <<l, m>> \in R
    <3> HIDE DEF l
    <3> SUFFICES <<l, m>> \in {ss \in Nat \X Nat : ss[1] < ss[2]}
      BY Zenon DEF OpToRel
    <3>1. QED
      BY <2>1, <2>6
  <2>8. l \notin Fails
    <3> HIDE DEF R, Fails, l
    <3>1. QED
      BY <1>1, <2>7
  <2>9. f[n + 1 - l] \in Seq(Nat)
    <3> HIDE DEF l
    <3>1. QED
      BY <2>6, <2>8
  <2>10. n + 1 - l = next[p]
    BY <2>5
  <2>11. <<p>> \o f[next[p]] \in Seq(Nat)
    <3>1. <<p>> \in Seq(Nat)
      BY <2>2
    <3> HIDE DEF p
    <3>2. f[next[p]] \in Seq(Nat)
      BY <2>9, <2>10
    <3>3. QED
      BY <3>1, <3>2, ConcatProperties
  <2> HIDE DEF p
  <2>12. f[p] \in Seq(Nat)
    BY <2>3, <2>4, <2>11 DEF Walk
  <2>13. QED
    BY <2>1, <2>12 DEF p
<1>2. Fails = {}
  <2> SUFFICES ASSUME Fails # {} PROVE FALSE
    OBVIOUS
  <2>1. IsWellFoundedOn(R, Nat)
    BY NatLessThanWellFounded
  <2>2. Fails \subseteq Nat
    OBVIOUS
  <2> HIDE DEF R, Fails
  <2>3. \E m \in Fails : \A l \in Fails : ~(<<l, m>> \in R)
    BY <2>1, <2>2, WFMin
  <2>4. QED
    BY <1>1, <2>3
<1>3. SUFFICES ASSUME NEW p \in 1 .. n + 1 PROVE f[p] \in Seq(Nat)
  OBVIOUS
<1>4. n + 1 - p \in 0..n /\ n + 1 - (n + 1 - p) = p
  OBVIOUS
<1>5. QED
  BY <1>2, <1>4

\* The characters from each position on: the recursion of Starts.
From(s) ==
  CHOOSE from : from = [p \in 1 .. Len(s) + 1 |->
    IF p > Len(s) \/ CharLen(s, p) = 0 THEN <<>> ELSE <<p>> \o from[p + CharLen(s, p)]]

\* They are what the recursion says.
LEMMA FromFacts ==
  ASSUME NEW s \in Seq(Bytes)
  PROVE  /\ Starts(s) = From(s)[1]
         /\ \A p \in 1 .. Len(s) + 1 : From(s)[p] \in Seq(Nat)
         /\ From(s)[Len(s) + 1] = <<>>
         /\ \A p \in 1 .. Len(s) :
              /\ CharLen(s, p) = 0 => From(s)[p] = <<>>
              /\ CharLen(s, p) # 0 => From(s)[p] = <<p>> \o From(s)[p + CharLen(s, p)]
<1> DEFINE n == Len(s)
           C(p) == CharLen(s, p)
           next == [p \in 1..n |-> p + C(p)]
           F == From(s)
<1>1. Starts(s) = F[1]
  BY Zenon DEF Starts, From
<1>2. n \in Nat
  OBVIOUS
<1>3. \A p \in 1..n : C(p) \in 0..4 /\ p + C(p) - 1 <= n
  <2> SUFFICES ASSUME NEW p \in 1..n PROVE C(p) \in 0..4 /\ p + C(p) - 1 <= n
    OBVIOUS
  <2>1. Position(s, p)
    BY DEF Position
  <2>2. QED
    BY <2>1, LengthFacts
<1>4. F = CHOOSE from : from = [p \in 1 .. n + 1 |->
            IF p > n \/ C(p) = 0 THEN <<>> ELSE <<p>> \o from[p + C(p)]]
  BY Zenon DEF From
<1> HIDE DEF n, C, F
<1>5. /\ next \in [1..n -> Nat]
      /\ \A p \in 1..n : p <= next[p] /\ next[p] <= n + 1 /\ (next[p] = p <=> C(p) = 0)
                         /\ next[p] = p + C(p)
  BY <1>2, <1>3
<1> HIDE DEF next
<1>6. \A f, p : p \in 1 .. n + 1 =>
        Walk(n, next, f, p) = IF p > n \/ C(p) = 0 THEN <<>> ELSE <<p>> \o f[p + C(p)]
  BY <1>2, <1>5 DEF Walk
<1>7. F = [p \in 1 .. n + 1 |->
            IF p > n \/ C(p) = 0 THEN <<>> ELSE <<p>> \o F[p + C(p)]]
  <2>1. PICK w \in [1 .. n + 1 -> Seq(Nat)] :
          \A p \in 1 .. n + 1 : w[p] = Walk(n, next, w, p)
    BY <1>2, <1>5, WalkExists
  <2>2. w = [p \in 1 .. n + 1 |->
            IF p > n \/ C(p) = 0 THEN <<>> ELSE <<p>> \o w[p + C(p)]]
    <3>1. w = [p \in 1 .. n + 1 |-> w[p]]
      BY <2>1
    <3>2. \A p \in 1 .. n + 1 :
            w[p] = IF p > n \/ C(p) = 0 THEN <<>> ELSE <<p>> \o w[p + C(p)]
      BY <1>6, <2>1, Zenon
    <3>3. QED
      BY <3>1, <3>2, Zenon
  <2>3. QED
    BY <1>4, <2>2, Zenon
<1>8. \A p \in 1 .. n + 1 : F[p] = IF p > n \/ C(p) = 0 THEN <<>> ELSE <<p>> \o F[p + C(p)]
  BY <1>7, Zenon
<1>9. \A p \in 1 .. n + 1 : F[p] \in Seq(Nat)
  <2>1. \A p \in 1 .. n + 1 : F[p] = Walk(n, next, F, p)
    BY <1>6, <1>8, Zenon
  <2>2. QED
    BY <1>2, <1>5, <2>1, WalkTyped
<1>10. F[n + 1] = <<>> /\ \A p \in 1..n : /\ C(p) = 0 => F[p] = <<>>
                                          /\ C(p) # 0 => F[p] = <<p>> \o F[p + C(p)]
  <2>1. /\ n + 1 \in 1 .. n + 1 /\ n + 1 > n
        /\ \A p \in 1..n : p \in 1 .. n + 1 /\ ~(p > n)
    BY <1>2
  <2>2. QED
    BY <1>8, <2>1, Zenon
<1>11. QED
  BY <1>1, <1>9, <1>10 DEF n, C, F

-----------------------------------------------------------------------------
(***************************************************************************)
(* The loop.  Behind is the position it goes on from, counted from 1, and  *)
(* nothing that was seen or is still to be found is outside Starts.        *)
(***************************************************************************)
\* Continuations, by the position counted from 0: not the end.
LEMMA ContinuationFacts ==
  ASSUME NEW s \in Seq(Bytes), NEW k \in 0 .. Len(s)
  PROVE  iscont(s, k) <=> k < Len(s) /\ s[k + 1] \in 128..191
BY DEF iscont, Byte

\* All bytes of a character behind the first are continuations.
LEMMA TailFacts ==
  ASSUME NEW s, NEW p, Position(s, p), CharLen(s, p) # 0
  PROVE  \A k \in p + 1 .. p + CharLen(s, p) - 1 : s[k] \in 128..191
<1> DEFINE n == CharLen(s, p)
           a == s[p]
           b == s[p + 1]
           c == s[p + 2]
           e == s[p + 3]
<1>1. n \in 1..4 /\ Character(s, p, n) /\ p \in Nat
  BY LengthFacts, PositionFacts
<1>2. /\ n = 2 => Two(a, b)
      /\ n = 3 => Three(a, b, c)
      /\ n = 4 => Four(a, b, c, e)
  BY <1>1, FourLengths
<1>3. /\ n >= 2 => b \in 128..191
      /\ n >= 3 => c \in 128..191
      /\ n >= 4 => e \in 128..191
  <2> HIDE DEF n, a, b, c, e
  <2>1. QED
    BY <1>1, <1>2 DEF Two, Three, Four, Tail_
<1> SUFFICES ASSUME NEW k \in p + 1 .. p + n - 1 PROVE s[k] \in 128..191
  OBVIOUS
<1> HIDE DEF n
<1>4. \/ k = p + 1 /\ n >= 2
      \/ k = p + 2 /\ n >= 3
      \/ k = p + 3 /\ n >= 4
  BY <1>1
<1>5. QED
  BY <1>3, <1>4

\* Skipping them from behind the first byte leads behind the character.
LEMMA SkipFacts ==
  ASSUME NEW s, NEW p, Position(s, p), CharLen(s, p) # 0,
         p + CharLen(s, p) <= Len(s) => s[p + CharLen(s, p)] \notin 128..191
  PROVE  SkipCont(s, p) = p - 1 + CharLen(s, p)
<1> DEFINE n == CharLen(s, p)
           e == p - 1 + n
           L == Len(s)
           I(k) == iscont(s, k)
<1>1. n \in 1..4 /\ p \in 1..L /\ L \in Nat /\ p + n - 1 <= L /\ s \in Seq(Bytes)
  BY LengthFacts, PositionFacts
<1>2. e \in p .. L
  <2> HIDE DEF n, L
  <2>1. QED
    BY <1>1
<1>3. ~I(e)
  <2>1. e \in 0..L /\ e + 1 = p + n /\ (e < L => p + n <= L)
    <3> HIDE DEF n, L
    <3>1. QED
      BY <1>1
  <2>2. I(e) <=> e < L /\ s[e + 1] \in 128..191
    <3> HIDE DEF e
    <3>1. QED
      BY <1>1, <2>1, ContinuationFacts
  <2> HIDE DEF e, L, I, n
  <2>3. QED
    BY <2>1, <2>2 DEF n, L
<1>4. \A l \in p .. e - 1 : I(l)
  <2> SUFFICES ASSUME NEW l \in p .. e - 1 PROVE I(l)
    OBVIOUS
  <2>1. l \in 0..L /\ l < L /\ l + 1 \in p + 1 .. p + n - 1
    <3> HIDE DEF n, L
    <3>1. QED
      BY <1>1
  <2>2. s[l + 1] \in 128..191
    <3>1. \A k \in p + 1 .. p + n - 1 : s[k] \in 128..191
      BY TailFacts
    <3> HIDE DEF n
    <3>2. QED
      BY <2>1, <3>1
  <2>3. QED
    BY <1>1, <2>1, <2>2, ContinuationFacts
<1>5. SkipCont(s, p) = CHOOSE m \in p .. L : ~I(m) /\ \A l \in p .. m - 1 : I(l)
  BY DEF SkipCont
<1> SUFFICES SkipCont(s, p) = e
  OBVIOUS
<1> HIDE DEF e, I, n, L
<1>6. \A m \in p .. L : ~I(m) /\ (\A l \in p .. m - 1 : I(l)) => m = e
  BY <1>1, <1>2, <1>3, <1>4
<1>7. QED
  BY <1>2, <1>3, <1>4, <1>5, <1>6

\* A position that the loop can have given: none yet, or that of a character
\* that no continuation follows.
Given(s, p) ==
  p = 0 \/ /\ Position(s, p) /\ CharLen(s, p) # 0
           /\ p + CharLen(s, p) <= Len(s) => s[p + CharLen(s, p)] \notin 128..191

Behind(s, p) == IF p = 0 THEN 1 ELSE p + CharLen(s, p)

\* What the loop computes from it is the position behind the character.
LEMMA BehindFacts ==
  ASSUME NEW s \in Seq(Bytes), NEW p, Given(s, p)
  PROVE  /\ p \in 0 .. Len(s) /\ Behind(s, p) \in 1 .. Len(s) + 1
         /\ (IF p - 1 < 0 THEN 0 ELSE IF p - 1 < Len(s) THEN Following(s, p - 1) ELSE p - 1)
              = Behind(s, p) - 1
<1> DEFINE L == Len(s)
           n == CharLen(s, p)
<1>1. L \in Nat
  OBVIOUS
<1>2. CASE p = 0
  BY <1>1, <1>2 DEF Behind
<1>3. CASE p # 0
  <2>1. Position(s, p) /\ n # 0 /\ (p + n <= L => s[p + n] \notin 128..191)
    BY <1>3 DEF Given
  <2>2. p \in 1..L /\ n \in 1..4 /\ p + n - 1 <= L
    BY <2>1, LengthFacts, PositionFacts
  <2>3. SkipCont(s, p) = p - 1 + n
    BY <2>1, SkipFacts
  <2>4. (p - 1) + 1 = p
    BY <2>2
  <2>5. Following(s, p - 1) = SkipCont(s, p)
    BY <2>4 DEF Following
  <2>6. Behind(s, p) = p + n
    BY <1>3 DEF Behind
  <2> HIDE DEF n, L
  <2>7. p \in 0..L /\ p + n \in 1 .. L + 1 /\ ~(p - 1 < 0) /\ p - 1 < L
        /\ p - 1 + n = (p + n) - 1
    BY <1>1, <2>2
  <2>8. Following(s, p - 1) = Behind(s, p) - 1
    BY <2>3, <2>5, <2>6, <2>7, Zenon
  <2>9. p \in 0..L /\ Behind(s, p) \in 1 .. L + 1
    BY <2>6, <2>7
  <2>10. QED
    BY <2>7, <2>8, <2>9, Zenon DEF L
<1>4. QED
  BY <1>2, <1>3

\* r is what follows the first n of c.
Rest(c, n, r) == Len(c) = n + Len(r) /\ \A k \in 1 .. Len(r) : c[n + k] = r[k]

\* One more of them.
LEMMA RestFacts ==
  ASSUME NEW c, NEW n \in Nat, NEW q \in Nat, NEW r \in Seq(Nat), Rest(c, n, <<q>> \o r)
  PROVE  c[n + 1] = q /\ Rest(c, n + 1, r)
<1> DEFINE t == <<q>> \o r
<1>1. Len(t) = 1 + Len(r) /\ t[1] = q /\ \A k \in 1 .. Len(r) : t[1 + k] = r[k]
  <2>1. <<q>> \in Seq(Nat) /\ Len(<<q>>) = 1 /\ <<q>>[1] = q /\ Len(r) \in Nat
    OBVIOUS
  <2>2. /\ Len(t) = 1 + Len(r)
        /\ \A i \in 1 .. 1 + Len(r) : t[i] = IF i <= 1 THEN <<q>>[i] ELSE r[i - 1]
    BY <2>1, ConcatProperties
  <2> HIDE DEF t
  <2>3. QED
    BY <2>1, <2>2
<1>2. Rest(c, n, t)
  OBVIOUS
<1> HIDE DEF t
<1>3. Len(r) \in Nat
  OBVIOUS
<1>4. Len(c) = n + 1 + Len(r)
  BY <1>1, <1>2, <1>3 DEF Rest
<1>5. c[n + 1] = q
  BY <1>1, <1>2, <1>3 DEF Rest
<1>6. ASSUME NEW k \in 1 .. Len(r) PROVE c[n + 1 + k] = r[k]
  <2>1. c[n + (1 + k)] = t[1 + k]
    BY <1>1, <1>2, <1>3 DEF Rest
  <2>2. n + (1 + k) = n + 1 + k
    OBVIOUS
  <2>3. QED
    BY <1>1, <2>1, <2>2
<1>7. QED
  BY <1>4, <1>5, <1>6 DEF Rest

\* Where the characters stop, the string stops or is not well formed.
LEMMA ValidFacts ==
  ASSUME NEW s \in Seq(Bytes), NEW n \in Nat, NEW p, p = 0 \/ Position(s, p),
         Rest(Starts(s), n, <<>>),
         IF n = 0 THEN p = 0 ELSE p # 0 /\ Starts(s)[n] = p
  PROVE  Len(Starts(s)) = n /\ (Valid(s) <=> Behind(s, p) = Len(s) + 1)
<1> DEFINE c == Starts(s)
           L == Len(s)
           l == CharLen(s, p)
<1>1. Len(c) = n
  BY DEF Rest
<1>2. c \in Seq(Nat)
  BY FromFacts
<1>3. L \in Nat
  OBVIOUS
<1>4. Reach(s) = IF c = <<>> THEN 0 ELSE c[Len(c)] + CharLen(s, c[Len(c)]) - 1
  BY DEF Reach
<1>5. CASE n = 0
  <2>1. c = <<>> /\ p = 0
    <3> HIDE DEF c
    <3>1. QED
      BY <1>1, <1>2, <1>5
  <2>2. Reach(s) = 0
    BY <1>4, <2>1
  <2>3. QED
    BY <1>1, <1>3, <1>5, <2>1, <2>2 DEF Valid, Behind
<1>6. CASE n # 0
  <2>1. c # <<>> /\ p # 0 /\ c[n] = p
    <3> HIDE DEF c
    <3>1. QED
      BY <1>1, <1>6 DEF c
  <2>2. Reach(s) = p + l - 1
    <3> HIDE DEF c, l
    <3>1. QED
      BY <1>1, <1>4, <2>1 DEF l
  <2>3. Behind(s, p) = p + l
    BY <2>1 DEF Behind
  <2>4. p \in Nat /\ l \in Nat
    <3>1. Position(s, p)
      BY <2>1
    <3>2. l \in 0..4 /\ p \in Nat
      BY <3>1, LengthFacts, PositionFacts
    <3> HIDE DEF l
    <3>3. QED
      BY <3>2
  <2> HIDE DEF c, l, L
  <2>5. p + l - 1 = L <=> p + l = L + 1
    BY <1>3, <2>4
  <2>6. QED
    BY <1>1, <2>2, <2>3, <2>5 DEF Valid, L, c
<1>7. QED
  BY <1>5, <1>6

-----------------------------------------------------------------------------
\* What holds between the steps: the characters seen and those from Behind on
\* are all the characters, and the loop only stops where they do.
CodesInv ==
  /\ str \in Seq(Bytes)
  /\ \E S : seen \in Seq(S)
  /\ loop \in {"none", "running", "ended", "raised"}
  /\ loop = "none" => seen = <<>>
  /\ Given(str, pos)
  /\ IF Len(seen) = 0 THEN pos = 0 ELSE pos # 0 /\ Starts(str)[Len(seen)] = pos
  /\ Rest(Starts(str), Len(seen), From(str)[Behind(str, pos)])
  /\ \A k \in 1 .. Len(seen) : seen[k][1] = Starts(str)[k]
  /\ loop = "ended" => Behind(str, pos) = Len(str) + 1
  /\ loop = "raised" => ~Valid(str)

\* The invariant implies the property.
LEMMA InvCodes == CodesInv => CodesSeeCharacters
<1> SUFFICES ASSUME CodesInv PROVE CodesSeeCharacters
  OBVIOUS
<1> DEFINE r == From(str)[Behind(str, pos)]
           c == Starts(str)
<1>1. str \in Seq(Bytes) /\ Given(str, pos) /\ Rest(c, Len(seen), r)
  BY DEF CodesInv
<1>2. Len(seen) \in Nat /\ DOMAIN seen = 1 .. Len(seen)
  <2>1. PICK S : seen \in Seq(S)
    BY DEF CodesInv
  <2>2. QED
    BY <2>1
<1>3. r \in Seq(Nat)
  BY <1>1, BehindFacts, FromFacts
<1>4. Len(seen) <= Len(c)
  <2> HIDE DEF r, c
  <2>1. QED
    BY <1>1, <1>2, <1>3 DEF Rest
<1>5. ASSUME loop = "ended" PROVE Valid(str) /\ Len(seen) = Len(c)
  <2>1. r = <<>>
    BY <1>1, <1>5, FromFacts DEF CodesInv
  <2>2. Rest(c, Len(seen), <<>>)
    BY <1>1, <2>1
  <2>3. IF Len(seen) = 0 THEN pos = 0 ELSE pos # 0 /\ Starts(str)[Len(seen)] = pos
    BY DEF CodesInv
  <2>4. Len(c) = Len(seen) /\ (Valid(str) <=> Behind(str, pos) = Len(str) + 1)
    BY <1>1, <1>2, <2>2, <2>3, ValidFacts DEF Given
  <2>5. Behind(str, pos) = Len(str) + 1
    BY <1>5 DEF CodesInv
  <2>6. QED
    BY <2>4, <2>5
<1>6. QED
  BY <1>2, <1>4, <1>5 DEF CodesSeeCharacters, CodesInv

\* Before the first character, all of them are still to be found.
LEMMA NoneSeen ==
  ASSUME NEW s \in Seq(Bytes)
  PROVE  Given(s, 0) /\ Rest(Starts(s), 0, From(s)[Behind(s, 0)])
<1>1. Given(s, 0)
  BY DEF Given
<1>2. Behind(s, 0) = 1 /\ From(s)[1] = Starts(s) /\ Starts(s) \in Seq(Nat)
  <2>1. 1 \in 1 .. Len(s) + 1
    OBVIOUS
  <2>2. QED
    BY <2>1, FromFacts DEF Behind
<1>3. Rest(Starts(s), 0, Starts(s))
  BY <1>2 DEF Rest
<1>4. QED
  BY <1>1, <1>2, <1>3

\* Starting a loop.
LEMMA CodesStart ==
  ASSUME CodesInv, NEW s \in Strings, iter_codes(s)
  PROVE  CodesInv'
<1>1. s \in Seq(Bytes)
  BY Utf8Assumption DEF Bytes
<1>2. str' = s /\ loop' = "running" /\ pos' = pos /\ seen' = seen /\ seen = <<>> /\ pos = 0
  BY DEF iter_codes, CodesInv
<1>3. Len(seen) = 0 /\ seen \in Seq({})
  BY <1>2
<1>4. Given(s, 0) /\ Rest(Starts(s), 0, From(s)[Behind(s, 0)])
  BY <1>1, NoneSeen
<1>5. \A k \in 1 .. 0 : seen[k][1] = Starts(s)[k]
  OBVIOUS
<1>6. QED
  BY <1>1, <1>2, <1>3, <1>4, <1>5 DEF CodesInv

\* A step of the loop: it ends, it raises or it gives the next character.
LEMMA CodesStep ==
  ASSUME CodesInv, iter_aux
  PROVE  CodesInv'
<1> DEFINE q == Behind(str, pos)
           n == q - 1
           d == utf8_decode(str, n)
           l == CharLen(str, q)
           L == Len(str)
           c == Starts(str)
           m == Len(seen)
<1>1. /\ str \in Seq(Bytes) /\ Given(str, pos) /\ Rest(c, m, From(str)[q])
      /\ IF m = 0 THEN pos = 0 ELSE pos # 0 /\ c[m] = pos
      /\ \A k \in 1..m : seen[k][1] = c[k]
  BY DEF CodesInv
<1>2. PICK S : seen \in Seq(S)
  BY DEF CodesInv
<1>3. m \in Nat
  BY <1>2
<1>4. /\ q \in 1 .. L + 1 /\ pos \in 0..L
      /\ (IF pos - 1 < 0 THEN 0 ELSE IF pos - 1 < Len(str) THEN Following(str, pos - 1)
                                     ELSE pos - 1) = n
  BY <1>1, BehindFacts
<1>5. loop = "running" /\ str' = str
  BY DEF iter_aux
<1>6. IF n >= Len(str)
      THEN loop' = "ended" /\ UNCHANGED <<pos, seen>>
      ELSE IF d = Invalid \/ (d.next <= Len(str) /\ iscont(str, d.next))
      THEN loop' = "raised" /\ UNCHANGED <<pos, seen>>
      ELSE /\ pos' = n + 1
           /\ seen' = Append(seen, <<n + 1, d.code>>)
           /\ UNCHANGED loop
  BY <1>4, Zenon DEF iter_aux
<1>7. n + 1 = q /\ L \in Nat /\ (n >= L => q = L + 1) /\ (~(n >= L) => q \in 1..L)
  <2> HIDE DEF q
  <2>1. L \in Nat
    BY <1>1
  <2> HIDE DEF L
  <2>2. QED
    BY <1>4, <2>1
<1>8. CASE n >= L
  <2>1. loop' = "ended" /\ pos' = pos /\ seen' = seen /\ q = L + 1
    BY <1>6, <1>7, <1>8, Zenon
  <2>2. QED
    BY <2>1, <1>1, <1>2, <1>5 DEF CodesInv
<1>9. CASE ~(n >= L)
  <2>1. Position(str, q) /\ q \in Nat
    BY <1>1, <1>7, <1>9 DEF Position
  <2>2. /\ l = 0 => d = Invalid
        /\ l # 0 => d # Invalid /\ d.next = n + l
    BY <2>1, DecodeFacts
  <2>3. l \in 0..4 /\ q + l - 1 <= L
    BY <2>1, LengthFacts
  <2>4. /\ l = 0 => From(str)[q] = <<>>
        /\ l # 0 => From(str)[q] = <<q>> \o From(str)[q + l]
    BY <1>1, <1>7, <1>9, FromFacts
  <2>5. n + l \in 0..L /\ (n + l) + 1 = q + l /\ q + l \in 1 .. L + 1
        /\ (n + l < L => q + l \in 1..L) /\ q # L + 1 /\ q # 0
        /\ (q + l \in 1..L => n + l < L /\ q + l # L + 1)
    <3> HIDE DEF q, l, L
    <3>1. q \in 1..L
      BY <1>7, <1>9
    <3>2. QED
      BY <1>7, <2>3, <3>1 DEF n
  <2>6. (n + l <= L /\ iscont(str, n + l)) <=> q + l \in 1..L /\ str[q + l] \in 128..191
    <3>1. iscont(str, n + l) <=> n + l < L /\ str[(n + l) + 1] \in 128..191
      <4> HIDE DEF n, l
      <4>1. QED
        BY <1>1, <2>5, ContinuationFacts
    <3>2. n + l <= L
      <4> HIDE DEF n, l, L
      <4>1. QED
        BY <1>7, <2>5
    <3> HIDE DEF n, l, L, q
    <3>3. QED
      BY <2>5, <3>1, <3>2, Zenon
  <2>7. CASE l = 0
    <3>1. loop' = "raised" /\ pos' = pos /\ seen' = seen
      BY <1>6, <1>9, <2>2, <2>7, Zenon
    <3>2. Rest(c, m, <<>>)
      BY <1>1, <2>4, <2>7
    <3>3. ~Valid(str)
      <4>1. Valid(str) <=> q = L + 1
        BY <1>1, <1>3, <3>2, ValidFacts DEF Given
      <4>2. QED
        BY <2>5, <4>1
    <3>4. QED
      BY <1>1, <1>2, <1>5, <3>1, <3>3 DEF CodesInv
  <2>8. ASSUME l # 0
        PROVE  /\ c[m + 1] = q /\ Rest(c, m + 1, From(str)[q + l])
               /\ Behind(str, q) = q + l
    <3>1. From(str)[q + l] \in Seq(Nat)
      <4>1. \A p \in 1 .. L + 1 : From(str)[p] \in Seq(Nat)
        BY <1>1, FromFacts
      <4> HIDE DEF q, l, L
      <4>2. QED
        BY <2>5, <4>1
    <3>2. Rest(c, m, <<q>> \o From(str)[q + l])
      BY <1>1, <2>4, <2>8, Zenon
    <3>3. c[m + 1] = q /\ Rest(c, m + 1, From(str)[q + l])
      <4> HIDE DEF c, m, q, l
      <4>1. QED
        BY <1>3, <2>1, <3>1, <3>2, RestFacts
    <3>4. Behind(str, q) = q + l
      <4> HIDE DEF q
      <4>1. QED
        BY <2>5 DEF Behind
    <3>5. QED
      BY <3>3, <3>4
  <2>9. CASE l # 0 /\ q + l \in 1..L /\ str[q + l] \in 128..191
    <3>1. loop' = "raised" /\ pos' = pos /\ seen' = seen
      BY <1>6, <1>9, <2>2, <2>6, <2>9, Zenon
    <3>2. ~Valid(str)
      <4>1. Position(str, q + l) /\ q + l \in Nat
        BY <1>1, <2>9 DEF Position
      <4>2. From(str)[q + l] = <<>>
        <5>1. CharLen(str, q + l) = 0
          BY <2>9, <4>1, NoneAtContinuation
        <5>2. \A p \in 1..L : CharLen(str, p) = 0 => From(str)[p] = <<>>
          BY <1>1, FromFacts
        <5> HIDE DEF q, l, L
        <5>3. QED
          BY <2>9, <5>1, <5>2
      <4>3. Rest(c, m + 1, <<>>) /\ c[m + 1] = q
        BY <2>8, <2>9, <4>2
      <4>4. m + 1 \in Nat /\ m + 1 # 0
        BY <1>3
      <4>5. Valid(str) <=> Behind(str, q) = Len(str) + 1
        <5> HIDE DEF q, m
        <5>1. QED
          BY <1>1, <2>1, <2>5, <4>3, <4>4, ValidFacts
      <4>6. QED
        BY <2>5, <2>8, <2>9, <4>5, Zenon
    <3>3. QED
      BY <1>1, <1>2, <1>5, <3>1, <3>2 DEF CodesInv
  <2>10. CASE l # 0 /\ ~(q + l \in 1..L /\ str[q + l] \in 128..191)
    <3>1. pos' = q /\ seen' = Append(seen, <<q, d.code>>) /\ loop' = "running"
      BY <1>5, <1>6, <1>7, <1>9, <2>2, <2>6, <2>10, Zenon
    <3>2. Given(str, q)
      <4>1. q + l <= L => q + l \in 1..L
        <5> HIDE DEF q, l, L
        <5>1. QED
          BY <1>7, <2>5
      <4>2. QED
        BY <2>1, <2>10, <4>1, Zenon DEF Given
    <3> DEFINE e == <<q, d.code>>
               t == Append(seen, e)
    <3>3. /\ t \in Seq(S \union {e}) /\ Len(t) = m + 1 /\ t[m + 1] = e
          /\ \A k \in 1..m : t[k] = seen[k]
      <4> HIDE DEF e
      <4>1. QED
        BY <1>2
    <3>4. \A k \in 1 .. m + 1 : t[k][1] = c[k]
      <4>1. e[1] = q
        OBVIOUS
      <4> HIDE DEF e, t, c, q, l
      <4>2. c[m + 1] = q
        BY <2>8, <2>10
      <4>3. \A k \in 1 .. m + 1 : k \in 1..m \/ k = m + 1
        BY <1>3
      <4> HIDE DEF m
      <4>4. QED
        BY <1>1, <3>3, <4>1, <4>2, <4>3
    <3>5. m + 1 # 0 /\ c[m + 1] = q /\ Rest(c, m + 1, From(str)[Behind(str, q)])
      <4>1. m + 1 # 0
        BY <1>3
      <4>2. QED
        BY <2>8, <2>10, <4>1
    <3>6. seen' = t
      BY <3>1
    <3> HIDE DEF t
    <3>7. \E T : seen' \in Seq(T)
      BY <3>3, <3>6
    <3>8. Len(seen') = m + 1
      BY <3>3, <3>6
    <3>9. IF Len(seen') = 0 THEN pos' = 0 ELSE pos' # 0 /\ Starts(str')[Len(seen')] = pos'
      BY <1>5, <2>5, <3>1, <3>5, <3>8, Zenon
    <3>10. \A k \in 1 .. Len(seen') : seen'[k][1] = Starts(str')[k]
      BY <1>5, <3>4, <3>6, <3>8, Zenon
    <3>11. Rest(Starts(str'), Len(seen'), From(str')[Behind(str', pos')])
      BY <1>5, <3>1, <3>5, <3>8, Zenon
    <3>12. str' \in Seq(Bytes) /\ Given(str', pos')
      BY <1>1, <1>5, <3>1, <3>2, Zenon
    <3>13. QED
      BY <3>1, <3>7, <3>9, <3>10, <3>11, <3>12, Zenon DEF CodesInv
  <2>11. QED
    BY <2>7, <2>9, <2>10
<1>10. QED
  BY <1>8, <1>9

\* The loop begins with it.
LEMMA CodesInit == Utf8Init => CodesInv
<1> SUFFICES ASSUME Utf8Init PROVE CodesInv
  OBVIOUS
<1>1. <<>> \in Seq(Bytes) /\ <<>> \in Seq({}) /\ Len(<<>>) = 0
  OBVIOUS
<1>2. Given(<<>>, 0) /\ Rest(Starts(<<>>), 0, From(<<>>)[Behind(<<>>, 0)])
  BY <1>1, NoneSeen
<1>3. \A k \in 1 .. 0 : <<>>[k][1] = Starts(<<>>)[k]
  OBVIOUS
<1>4. QED
  BY <1>1, <1>2, <1>3 DEF Utf8Init, CodesInv

\* Every step keeps it.
LEMMA CodesNext == CodesInv /\ [Utf8Next]_utf8Vars => CodesInv'
<1> SUFFICES ASSUME CodesInv, [Utf8Next]_utf8Vars PROVE CodesInv'
  OBVIOUS
<1>1. CASE \E s \in Strings : iter_codes(s)
  BY <1>1, CodesStart
<1>2. CASE iter_aux
  BY <1>2, CodesStep
<1>3. CASE UNCHANGED utf8Vars
  BY <1>3 DEF CodesInv, utf8Vars, Valid, Reach, Given, Behind, Position
<1>4. QED
  BY <1>1, <1>2, <1>3 DEF Utf8Next

\* utf8.codes gives a program the characters of a string from the first on, in
\* order, and ends without an error if and only if all of it is well formed,
\* whatever the bytes.
THEOREM CodesSee == Utf8Spec => []CodesSeeCharacters
BY CodesInit, CodesNext, InvCodes, PTL DEF Utf8Spec

-----------------------------------------------------------------------------
(***************************************************************************)
(* Induction and primitive recursion, with sets and functions for the      *)
(* predicates and operators of the usual theorems.                         *)
(***************************************************************************)
\* A set that contains 0 and all successors contains the natural numbers.
LEMMA Induction ==
  ASSUME NEW S, 0 \in S, \A n \in Nat : n \in S => n + 1 \in S
  PROVE  \A n \in Nat : n \in S
<1> DEFINE Fails == Nat \ S
           R == OpToRel(<, Nat)
<1>1. ASSUME NEW m \in Fails, \A l \in Fails : ~(<<l, m>> \in R)
      PROVE  FALSE
  <2>1. m \in Nat /\ m # 0
    OBVIOUS
  <2>2. m - 1 \in Nat /\ m - 1 < m /\ (m - 1) + 1 = m
    BY <2>1
  <2>3. m - 1 \notin S
    BY <2>1, <2>2
  <2>4. <<m - 1, m>> \in R
    <3> SUFFICES <<m - 1, m>> \in {ss \in Nat \X Nat : ss[1] < ss[2]}
      BY Zenon DEF OpToRel
    <3>1. QED
      BY <2>1, <2>2
  <2>5. m - 1 \in Fails
    BY <2>2, <2>3
  <2> HIDE DEF R, Fails
  <2>6. QED
    BY <1>1, <2>4, <2>5
<1>2. Fails = {}
  <2> SUFFICES ASSUME Fails # {} PROVE FALSE
    OBVIOUS
  <2>1. IsWellFoundedOn(R, Nat)
    BY NatLessThanWellFounded
  <2>2. Fails \subseteq Nat
    OBVIOUS
  <2> HIDE DEF R, Fails
  <2>3. \E m \in Fails : \A l \in Fails : ~(<<l, m>> \in R)
    BY <2>1, <2>2, WFMin
  <2>4. QED
    BY <1>1, <2>3
<1>3. QED
  BY <1>2

\* The same down from n.
LEMMA DownwardInduction ==
  ASSUME NEW n \in Nat, NEW S, n \in S, \A p \in 0 .. n - 1 : p + 1 \in S => p \in S
  PROVE  \A p \in 0..n : p \in S
<1> DEFINE T == {m \in Nat : m <= n => n - m \in S}
<1>1. 0 \in T
  OBVIOUS
<1>2. ASSUME NEW m \in Nat, m \in T PROVE m + 1 \in T
  <2> SUFFICES ASSUME m + 1 <= n PROVE n - (m + 1) \in S
    OBVIOUS
  <2>1. n - m \in S /\ n - (m + 1) \in 0 .. n - 1 /\ (n - (m + 1)) + 1 = n - m
    BY <1>2
  <2>2. QED
    BY <2>1
<1> HIDE DEF T
<1>3. \A m \in Nat : m \in T
  BY <1>1, <1>2, Induction
<1>4. SUFFICES ASSUME NEW p \in 0..n PROVE p \in S
  OBVIOUS
<1>5. n - p \in Nat /\ n - p <= n /\ n - (n - p) = p
  OBVIOUS
<1>6. QED
  BY <1>3, <1>5 DEF T

\* A step from T to T, and what it reaches from a start, by the number of steps.
StepOn(T, step) == step \in [T -> T]
Iterates(T, start, step, g) ==
  g \in [Nat -> T] /\ g[0] = start /\ \A n \in Nat : g[n + 1] = step[g[n]]

\* What is reached in steps from a start is a function of their number.
LEMMA PrimitiveRecursion ==
  ASSUME NEW T, NEW start \in T, NEW step, StepOn(T, step)
  PROVE  \E g : Iterates(T, start, step, g)
<1> DEFINE Counts(n, h) == /\ h \in [0..n -> T]
                           /\ h[0] = start
                           /\ \A i \in 0 .. n - 1 : h[i + 1] = step[h[i]]
           Exists == {n \in Nat : \E h : Counts(n, h)}
           Unique == {i \in Nat : \A m, n \in Nat : i <= m /\ i <= n =>
                        \A h, k : Counts(m, h) /\ Counts(n, k) => h[i] = k[i]}
<1> USE DEF StepOn
<1>1. \A n \in Nat : n \in Exists
  <2>1. 0 \in Exists
    <3> DEFINE h == [i \in 0..0 |-> start]
    <3>1. Counts(0, h)
      OBVIOUS
    <3>2. QED
      BY <3>1
  <2>2. ASSUME NEW n \in Nat, n \in Exists PROVE n + 1 \in Exists
    <3>1. PICK h : Counts(n, h)
      BY <2>2
    <3> DEFINE k == [i \in 0 .. n + 1 |-> IF i = n + 1 THEN step[h[n]] ELSE h[i]]
    <3>2. h[n] \in T /\ step[h[n]] \in T
      BY <3>1
    <3>3. k \in [0 .. n + 1 -> T] /\ k[0] = start
      BY <3>1, <3>2
    <3>4. ASSUME NEW i \in 0 .. (n + 1) - 1 PROVE k[i + 1] = step[k[i]]
      BY <3>1
    <3>5. Counts(n + 1, k)
      BY <3>3, <3>4
    <3> HIDE DEF Counts, k
    <3>6. QED
      BY <3>5
  <2> HIDE DEF Exists
  <2>3. QED
    BY <2>1, <2>2, Induction
<1>2. \A i \in Nat : i \in Unique
  <2>1. 0 \in Unique
    OBVIOUS
  <2>2. ASSUME NEW i \in Nat, i \in Unique PROVE i + 1 \in Unique
    <3> SUFFICES ASSUME NEW m \in Nat, NEW n \in Nat, i + 1 <= m, i + 1 <= n,
                        NEW h, NEW k, Counts(m, h), Counts(n, k)
                 PROVE  h[i + 1] = k[i + 1]
      OBVIOUS
    <3>1. i <= m /\ i <= n /\ i \in 0 .. m - 1 /\ i \in 0 .. n - 1
      OBVIOUS
    <3>2. h[i + 1] = step[h[i]] /\ k[i + 1] = step[k[i]]
      BY <3>1
    <3>3. h[i] = k[i]
      <4> HIDE DEF Counts
      <4>1. QED
        BY <2>2, <3>1
    <3>4. QED
      BY <3>2, <3>3
  <2> HIDE DEF Unique
  <2>3. QED
    BY <2>1, <2>2, Induction
<1> DEFINE H(n) == CHOOSE h : Counts(n, h)
           g == [n \in Nat |-> H(n)[n]]
<1>3. ASSUME NEW n \in Nat PROVE Counts(n, H(n))
  <2>1. \E h : Counts(n, h)
    BY <1>1
  <2> HIDE DEF Counts
  <2>2. QED
    BY <2>1
<1> HIDE DEF H
<1>4. ASSUME NEW n \in Nat PROVE H(n) \in [0..n -> T] /\ H(n)[n] \in T
  BY <1>3
<1>5. g \in [Nat -> T]
  BY <1>4
<1>6. g[0] = start
  BY <1>3
<1>7. ASSUME NEW n \in Nat PROVE g[n + 1] = step[g[n]]
  <2>1. Counts(n, H(n)) /\ Counts(n + 1, H(n + 1)) /\ n <= n + 1 /\ n + 1 \in Nat
    BY <1>3
  <2>2. H(n + 1)[n] = H(n)[n]
    <3> HIDE DEF Counts
    <3>1. QED
      BY <1>2, <2>1
  <2>3. H(n + 1)[n + 1] = step[H(n + 1)[n]]
    BY <2>1
  <2>4. g[n + 1] = H(n + 1)[n + 1] /\ g[n] = H(n)[n]
    OBVIOUS
  <2>5. QED
    BY <2>2, <2>3, <2>4
<1>8. QED
  BY <1>5, <1>6, <1>7 DEF Iterates

-----------------------------------------------------------------------------
(***************************************************************************)
(* The characters of a string, one by one: Starts goes from each to the    *)
(* one behind it, up to the end or to what is not well formed.             *)
(***************************************************************************)
\* A sequence with one more element in front.
LEMMA PrependFacts ==
  ASSUME NEW q \in Nat, NEW r \in Seq(Nat)
  PROVE  /\ <<q>> \o r \in Seq(Nat) /\ Len(<<q>> \o r) = Len(r) + 1 /\ (<<q>> \o r)[1] = q
         /\ \A k \in 1 .. Len(r) : (<<q>> \o r)[k + 1] = r[k]
<1> DEFINE t == <<q>> \o r
<1>1. <<q>> \in Seq(Nat) /\ Len(<<q>>) = 1 /\ <<q>>[1] = q /\ Len(r) \in Nat
  OBVIOUS
<1>2. /\ t \in Seq(Nat) /\ Len(t) = 1 + Len(r)
      /\ \A i \in 1 .. 1 + Len(r) : t[i] = IF i <= 1 THEN <<q>>[i] ELSE r[i - 1]
  BY <1>1, ConcatProperties
<1> SUFFICES /\ t \in Seq(Nat) /\ Len(t) = Len(r) + 1 /\ t[1] = q
             /\ \A k \in 1 .. Len(r) : t[k + 1] = r[k]
  OBVIOUS
<1> HIDE DEF t
<1>3. ASSUME NEW k \in 1 .. Len(r) PROVE t[k + 1] = r[k]
  <2>1. k + 1 \in 1 .. 1 + Len(r) /\ ~(k + 1 <= 1) /\ (k + 1) - 1 = k
    BY <1>1
  <2>2. QED
    BY <1>2, <2>1
<1>4. QED
  BY <1>1, <1>2, <1>3

\* The position behind the characters c that begin at p.
End(s, p, c) == IF c = <<>> THEN p ELSE c[Len(c)] + CharLen(s, c[Len(c)])

\* c holds the positions of the characters from p on.
Follow(s, p, c) ==
  /\ c \in Seq(Nat)
  /\ c # <<>> => c[1] = p
  /\ \A j \in 1 .. Len(c) : Position(s, c[j]) /\ CharLen(s, c[j]) # 0
  /\ \A j \in 1 .. Len(c) - 1 : c[j + 1] = c[j] + CharLen(s, c[j])
  /\ \/ End(s, p, c) = Len(s) + 1
     \/ Position(s, End(s, p, c)) /\ CharLen(s, End(s, p, c)) = 0

\* The end is that of what follows.
LEMMA EndStep ==
  ASSUME NEW s, NEW p \in Nat, NEW r \in Seq(Nat)
  PROVE  End(s, p, <<p>> \o r) = End(s, p + CharLen(s, p), r)
<1> DEFINE t == <<p>> \o r
<1>1. /\ t \in Seq(Nat) /\ Len(t) = Len(r) + 1 /\ t[1] = p
      /\ \A k \in 1 .. Len(r) : t[k + 1] = r[k]
  BY PrependFacts
<1>2. Len(r) \in Nat
  OBVIOUS
<1> SUFFICES End(s, p, t) = End(s, p + CharLen(s, p), r)
  OBVIOUS
<1> HIDE DEF t
<1>3. t # <<>>
  BY <1>1, <1>2
<1>4. CASE r = <<>>
  <2>1. Len(t) = 1
    BY <1>1, <1>4
  <2>2. QED
    BY <1>1, <1>3, <1>4, <2>1 DEF End
<1>5. CASE r # <<>>
  <2>1. Len(r) \in 1 .. Len(r)
    BY <1>2, <1>5
  <2>2. t[Len(t)] = r[Len(r)]
    BY <1>1, <2>1
  <2>3. QED
    BY <1>3, <1>5, <2>2 DEF End
<1>6. QED
  BY <1>4, <1>5

\* One character in front of those that follow it.
LEMMA FollowStep ==
  ASSUME NEW s, NEW p, Position(s, p), CharLen(s, p) # 0,
         NEW r, Follow(s, p + CharLen(s, p), r)
  PROVE  Follow(s, p, <<p>> \o r)
<1> DEFINE t == <<p>> \o r
           q == p + CharLen(s, p)
<1>1. p \in Nat /\ r \in Seq(Nat) /\ Len(r) \in Nat
  BY PositionFacts DEF Follow
<1>2. /\ t \in Seq(Nat) /\ Len(t) = Len(r) + 1 /\ t[1] = p
      /\ \A k \in 1 .. Len(r) : t[k + 1] = r[k]
  BY <1>1, PrependFacts
<1>3. /\ r # <<>> => r[1] = q
      /\ \A j \in 1 .. Len(r) : Position(s, r[j]) /\ CharLen(s, r[j]) # 0
      /\ \A j \in 1 .. Len(r) - 1 : r[j + 1] = r[j] + CharLen(s, r[j])
      /\ \/ End(s, q, r) = Len(s) + 1
         \/ Position(s, End(s, q, r)) /\ CharLen(s, End(s, q, r)) = 0
  BY DEF Follow
<1> SUFFICES Follow(s, p, t)
  OBVIOUS
<1> HIDE DEF t
<1>4. t # <<>>
  BY <1>1, <1>2
<1>5. ASSUME NEW j \in 1 .. Len(t) PROVE Position(s, t[j]) /\ CharLen(s, t[j]) # 0
  <2>1. CASE j = 1
    BY <1>2, <2>1
  <2>2. CASE j # 1
    <3>1. j - 1 \in 1 .. Len(r) /\ (j - 1) + 1 = j
      BY <1>1, <1>2, <2>2
    <3>2. t[j] = r[j - 1]
      BY <1>2, <3>1
    <3>3. QED
      BY <1>3, <3>1, <3>2
  <2>3. QED
    BY <2>1, <2>2
<1>6. ASSUME NEW j \in 1 .. Len(t) - 1 PROVE t[j + 1] = t[j] + CharLen(s, t[j])
  <2>1. CASE j = 1
    <3>1. 1 \in 1 .. Len(r) /\ r # <<>>
      BY <1>1, <1>2, <2>1
    <3>2. t[1 + 1] = r[1]
      BY <1>2, <3>1
    <3>3. QED
      BY <1>2, <1>3, <2>1, <3>1, <3>2
  <2>2. CASE j # 1
    <3>1. j - 1 \in 1 .. Len(r) - 1 /\ (j - 1) + 1 = j /\ j \in 1 .. Len(r) /\ j - 1 \in 1 .. Len(r)
      BY <1>1, <1>2, <2>2
    <3>2. t[j] = r[j - 1] /\ t[j + 1] = r[j]
      BY <1>2, <3>1
    <3>3. r[(j - 1) + 1] = r[j - 1] + CharLen(s, r[j - 1])
      BY <1>3, <3>1
    <3>4. QED
      BY <3>1, <3>2, <3>3
  <2>3. QED
    BY <2>1, <2>2
<1>7. End(s, p, t) = End(s, q, r)
  BY <1>1, EndStep DEF t
<1>8. QED
  BY <1>2, <1>3, <1>4, <1>5, <1>6, <1>7 DEF Follow

\* So it is from every position, by induction from the end.
LEMMA FromFollows ==
  ASSUME NEW s \in Seq(Bytes)
  PROVE  \A p \in 1 .. Len(s) + 1 : Follow(s, p, From(s)[p])
<1> DEFINE n == Len(s)
           F == From(s)
           S == {p \in 0..n : \A q \in 1 .. n + 1 : q > p => Follow(s, q, F[q])}
<1>1. n \in Nat
  OBVIOUS
<1>2. ASSUME NEW p, p = n + 1 \/ (Position(s, p) /\ CharLen(s, p) = 0), F[p] = <<>>
      PROVE  Follow(s, p, F[p])
  <2>1. End(s, p, <<>>) = p
    BY DEF End
  <2>2. <<>> \in Seq(Nat) /\ Len(<<>>) = 0
    OBVIOUS
  <2>3. QED
    BY <1>2, <2>1, <2>2 DEF Follow
<1>3. n \in S
  <2>1. F[n + 1] = <<>>
    BY FromFacts
  <2>2. Follow(s, n + 1, F[n + 1])
    BY <1>2, <2>1
  <2> HIDE DEF n, F
  <2>3. \A q \in 1 .. n + 1 : q > n => q = n + 1
    BY <1>1
  <2>4. QED
    BY <1>1, <2>2, <2>3
<1>4. ASSUME NEW p \in 0 .. n - 1, p + 1 \in S PROVE p \in S
  <2> DEFINE r == p + 1
  <2>1. r \in 1..n /\ Position(s, r)
    BY <1>1 DEF Position
  <2>2. Follow(s, r, F[r])
    <3>1. CASE CharLen(s, r) = 0
      <4>1. F[r] = <<>>
        BY <2>1, <3>1, FromFacts
      <4>2. QED
        BY <1>2, <2>1, <3>1, <4>1
    <3>2. CASE CharLen(s, r) # 0
      <4>1. F[r] = <<r>> \o F[r + CharLen(s, r)]
        BY <2>1, <3>2, FromFacts
      <4>2. CharLen(s, r) \in 1..4 /\ r + CharLen(s, r) - 1 <= n
        BY <2>1, <3>2, LengthFacts
      <4>3. r + CharLen(s, r) \in 1 .. n + 1 /\ r + CharLen(s, r) > r
        <5> HIDE DEF r, n
        <5>1. QED
          BY <1>1, <2>1, <4>2
      <4>4. Follow(s, r + CharLen(s, r), F[r + CharLen(s, r)])
        <5> HIDE DEF r, n, F
        <5>1. QED
          BY <1>4, <4>3 DEF r
      <4>5. QED
        BY <2>1, <3>2, <4>1, <4>4, FollowStep
    <3>3. QED
      BY <3>1, <3>2
  <2> HIDE DEF n, F
  <2>3. \A q \in 1 .. n + 1 : q > p => q = r \/ q > r
    BY <1>1
  <2>4. QED
    BY <1>1, <1>4, <2>2, <2>3
<1> HIDE DEF n, F, S
<1>5. \A p \in 0..n : p \in S
  BY <1>1, <1>3, <1>4, DownwardInduction
<1>6. 0 \in S
  BY <1>1, <1>5
<1>7. QED
  BY <1>1, <1>6 DEF S, n, F

\* So it is of the whole string, and it is well formed if they end where it does.
LEMMA StartsFacts ==
  ASSUME NEW s \in Seq(Bytes)
  PROVE  /\ Follow(s, 1, Starts(s))
         /\ End(s, 1, Starts(s)) \in 1 .. Len(s) + 1
         /\ Reach(s) = End(s, 1, Starts(s)) - 1
         /\ Valid(s) <=> End(s, 1, Starts(s)) = Len(s) + 1
<1> DEFINE c == Starts(s)
           n == Len(s)
           e == End(s, 1, c)
<1>1. Follow(s, 1, c)
  <2>1. 1 \in 1 .. Len(s) + 1 /\ c = From(s)[1]
    BY FromFacts
  <2>2. QED
    BY <2>1, FromFollows
<1>2. n \in Nat
  OBVIOUS
<1>3. e \in 1 .. n + 1
  <2>1. CASE e = n + 1
    <3> HIDE DEF e, n
    <3>1. QED
      BY <1>2, <2>1
  <2>2. CASE Position(s, e)
    <3>1. e \in Nat /\ 1 <= e /\ e <= n
      BY <2>2, PositionFacts
    <3> HIDE DEF e, n
    <3>2. QED
      BY <1>2, <3>1
  <2>3. QED
    BY <1>1, <2>1, <2>2 DEF Follow
<1>4. Reach(s) = e - 1
  <2>1. Reach(s) = IF c = <<>> THEN 0 ELSE c[Len(c)] + CharLen(s, c[Len(c)]) - 1
    BY DEF Reach
  <2>2. CASE c = <<>>
    BY <2>1, <2>2 DEF End
  <2>3. CASE c # <<>>
    <3>1. Len(c) \in 1 .. Len(c)
      <4>1. c \in Seq(Nat)
        BY <1>1 DEF Follow
      <4> HIDE DEF c
      <4>2. QED
        BY <2>3, <4>1
    <3> DEFINE l == c[Len(c)]
               k == CharLen(s, l)
    <3>2. Position(s, l)
      BY <1>1, <3>1 DEF Follow
    <3>3. l \in Nat /\ k \in 0..4
      BY <3>2, LengthFacts, PositionFacts
    <3>4. e = l + k /\ Reach(s) = l + k - 1
      BY <2>1, <2>3, Zenon DEF End
    <3> HIDE DEF l, k, e
    <3>5. QED
      BY <3>3, <3>4
  <2>4. QED
    BY <2>2, <2>3
<1>5. Valid(s) <=> e = n + 1
  <2>1. Valid(s) <=> Reach(s) = n
    BY DEF Valid
  <2> HIDE DEF e, n
  <2>2. QED
    BY <1>2, <1>3, <1>4, <2>1
<1>6. QED
  BY <1>1, <1>3, <1>4, <1>5

-----------------------------------------------------------------------------
(***************************************************************************)
(* len and codepoint.  The scan of a whole string is known for each        *)
(* position from which it may go on; no other function is one.             *)
(***************************************************************************)
\* The code point at a position counted from 1.
Code(s, p) == utf8_decode(s, p - 1).code

\* What the scan finds from p on, where the characters c are.
Found(s, p, c) ==
  [codes |-> [j \in 1 .. Len(c) |-> Code(s, c[j])],
   end |-> End(s, p, c) - 1,
   ok |-> End(s, p, c) = Len(s) + 1]

\* It finds one character and then what there is behind it.
LEMMA FoundStep ==
  ASSUME NEW s, NEW p \in Nat, NEW r \in Seq(Nat)
  PROVE  Found(s, p, <<p>> \o r) =
           [Found(s, p + CharLen(s, p), r) EXCEPT !.codes = <<Code(s, p)>> \o @]
<1> DEFINE t == <<p>> \o r
           C == {Code(s, x) : x \in Nat}
           u == [j \in 1 .. Len(r) |-> Code(s, r[j])]
           v == [j \in 1 .. Len(t) |-> Code(s, t[j])]
<1>1. /\ t \in Seq(Nat) /\ Len(t) = Len(r) + 1 /\ t[1] = p
      /\ \A k \in 1 .. Len(r) : t[k + 1] = r[k]
  BY PrependFacts
<1>2. Len(r) \in Nat /\ \A k \in 1 .. Len(r) : r[k] \in Nat
  OBVIOUS
<1>3. u \in Seq(C) /\ Len(u) = Len(r) /\ \A j \in 1 .. Len(r) : u[j] = Code(s, r[j])
  BY <1>2
<1>4. <<Code(s, p)>> \in Seq(C) /\ Len(<<Code(s, p)>>) = 1 /\ <<Code(s, p)>>[1] = Code(s, p)
  <2> DEFINE y == Code(s, p)
  <2>1. y \in C
    OBVIOUS
  <2> SUFFICES <<y>> \in Seq(C) /\ Len(<<y>>) = 1 /\ <<y>>[1] = y
    OBVIOUS
  <2> HIDE DEF y, C
  <2>2. QED
    BY <2>1
<1> DEFINE w == <<Code(s, p)>> \o u
<1>5. /\ w \in Seq(C) /\ Len(w) = 1 + Len(u)
      /\ \A i \in 1 .. 1 + Len(u) : w[i] = IF i <= 1 THEN <<Code(s, p)>>[i] ELSE u[i - 1]
  <2> HIDE DEF u, C
  <2>1. QED
    BY <1>3, <1>4, ConcatProperties
<1>6. v = w
  <2>1. w = [i \in 1 .. Len(w) |-> w[i]]
    <3> HIDE DEF w, C
    <3>1. QED
      BY <1>5
  <2>2. Len(w) = Len(t)
    <3> HIDE DEF w, u, t, C
    <3>1. QED
      BY <1>1, <1>2, <1>3, <1>5
  <2>3. ASSUME NEW i \in 1 .. Len(t) PROVE w[i] = Code(s, t[i])
    <3>1. CASE i = 1
      <4> HIDE DEF w, u, t, C
      <4>1. QED
        BY <1>1, <1>2, <1>3, <1>4, <1>5, <3>1
    <3>2. CASE i # 1
      <4> HIDE DEF w, u, t, C
      <4>1. i - 1 \in 1 .. Len(r) /\ (i - 1) + 1 = i /\ ~(i <= 1) /\ i \in 1 .. 1 + Len(u)
        BY <1>1, <1>2, <1>3, <3>2
      <4>2. w[i] = u[i - 1] /\ t[i] = r[i - 1] /\ u[i - 1] = Code(s, r[i - 1])
        BY <1>1, <1>3, <1>5, <4>1
      <4>3. QED
        BY <4>2
    <3>3. QED
      BY <3>1, <3>2
  <2> HIDE DEF w, t
  <2>4. QED
    BY <2>1, <2>2, <2>3
<1>7. End(s, p, t) = End(s, p + CharLen(s, p), r)
  BY EndStep
<1>8. Found(s, p, t) = [codes |-> v, end |-> End(s, p, t) - 1, ok |-> End(s, p, t) = Len(s) + 1]
  BY DEF Found
<1> DEFINE q == p + CharLen(s, p)
           e == End(s, q, r)
<1>9. Found(s, q, r) = [codes |-> u, end |-> e - 1, ok |-> e = Len(s) + 1]
  BY DEF Found
<1>10. Found(s, p, t) = [codes |-> w, end |-> e - 1, ok |-> e = Len(s) + 1]
  <2> HIDE DEF v, w, t, e
  <2>1. QED
    BY <1>6, <1>7, <1>8 DEF e
<1>11. [[codes |-> u, end |-> e - 1, ok |-> e = Len(s) + 1] EXCEPT !.codes = <<Code(s, p)>> \o @]
         = [codes |-> w, end |-> e - 1, ok |-> e = Len(s) + 1]
  <2> DEFINE a == e - 1
             b == e = Len(s) + 1
             y == <<Code(s, p)>>
             x == [codes |-> u, end |-> a, ok |-> b]
  <2>1. y \o x.codes = w
    OBVIOUS
  <2> SUFFICES [x EXCEPT !.codes = y \o @] = [codes |-> w, end |-> a, ok |-> b]
    OBVIOUS
  <2>2. [x EXCEPT !.codes = y \o @] = [x EXCEPT !.codes = w]
    BY <2>1, Zenon
  <2>3. [x EXCEPT !.codes = w] = [codes |-> w, end |-> a, ok |-> b]
    <3> HIDE DEF a, b, u, w
    <3>1. QED
      OBVIOUS
  <2>4. QED
    BY <2>2, <2>3
<1>12. QED
  <2> HIDE DEF t, w, u, e, q
  <2>1. QED
    BY <1>9, <1>10, <1>11 DEF t, q

\* One step of the scan of all of s, where f is the scan.
ScanStep(s, f, k) ==
  IF k > Len(s) - 1 THEN [codes |-> <<>>, end |-> k, ok |-> TRUE]
  ELSE IF utf8_decode(s, k) = Invalid THEN [codes |-> <<>>, end |-> k, ok |-> FALSE]
  ELSE [f[utf8_decode(s, k).next] EXCEPT !.codes = <<utf8_decode(s, k).code>> \o @]

\* What the scan is, by the position counted from 0.
Scanned(s) ==
  [k \in 0 .. Len(s) + 1 |->
     IF k <= Len(s) THEN Found(s, k + 1, From(s)[k + 1])
     ELSE [codes |-> <<>>, end |-> k, ok |-> TRUE]]

\* Any function that agrees with it behind k takes the step that it takes.
LEMMA ScannedStep ==
  ASSUME NEW s \in Seq(Bytes), NEW k \in 0 .. Len(s) + 1, NEW f,
         \A l \in k + 1 .. Len(s) : f[l] = Scanned(s)[l]
  PROVE  Scanned(s)[k] = ScanStep(s, f, k)
<1> DEFINE n == Len(s)
           F == From(s)
           p == k + 1
           d == utf8_decode(s, k)
           l == CharLen(s, p)
<1>1. n \in Nat
  OBVIOUS
<1>2. CASE k = n + 1
  <2>1. ~(k <= n) /\ k > n - 1
    <3> HIDE DEF n
    <3>1. QED
      BY <1>1, <1>2
  <2>2. QED
    BY <2>1 DEF Scanned, ScanStep
<1>3. CASE k = n
  <2>1. k <= n /\ k > n - 1 /\ p = n + 1 /\ (n + 1) - 1 = k
    <3> HIDE DEF n
    <3>1. QED
      BY <1>1, <1>3
  <2>2. F[p] = <<>>
    BY <2>1, FromFacts
  <2>3. End(s, p, <<>>) = n + 1
    BY <2>1 DEF End
  <2>4. Found(s, p, <<>>) = [codes |-> <<>>, end |-> k, ok |-> TRUE]
    <3>1. [j \in 1 .. Len(<<>>) |-> Code(s, <<>>[j])] = <<>>
      OBVIOUS
    <3>2. QED
      BY <2>1, <2>3, <3>1 DEF Found
  <2>5. Scanned(s)[k] = Found(s, p, F[p])
    BY <2>1 DEF Scanned
  <2>6. ScanStep(s, f, k) = [codes |-> <<>>, end |-> k, ok |-> TRUE]
    BY <2>1 DEF ScanStep
  <2>7. QED
    BY <2>2, <2>4, <2>5, <2>6
<1>4. CASE k \in 0 .. n - 1
  <2>1. k <= n /\ ~(k > n - 1) /\ p \in 1..n /\ p - 1 = k /\ p # n + 1
    <3> HIDE DEF n
    <3>1. QED
      BY <1>1, <1>4
  <2>2. Position(s, p)
    BY <2>1 DEF Position
  <2>3. Scanned(s)[k] = Found(s, p, F[p])
    BY <2>1 DEF Scanned
  <2>4. /\ l = 0 => d = Invalid
        /\ l # 0 => d # Invalid /\ d.next = k + l
    BY <2>1, <2>2, DecodeFacts
  <2>5. CASE l = 0
    <3>1. F[p] = <<>>
      BY <2>1, <2>5, FromFacts
    <3>2. End(s, p, <<>>) = p
      BY DEF End
    <3>3. Found(s, p, <<>>) = [codes |-> <<>>, end |-> k, ok |-> FALSE]
      <4>1. [j \in 1 .. Len(<<>>) |-> Code(s, <<>>[j])] = <<>>
        OBVIOUS
      <4>2. QED
        BY <2>1, <3>2, <4>1 DEF Found
    <3>4. ScanStep(s, f, k) = [codes |-> <<>>, end |-> k, ok |-> FALSE]
      BY <2>1, <2>4, <2>5 DEF ScanStep
    <3>5. QED
      BY <2>3, <3>1, <3>3, <3>4
  <2>6. CASE l # 0
    <3>1. F[p] = <<p>> \o F[p + l]
      BY <2>1, <2>6, FromFacts
    <3>2. l \in 1..4 /\ p + l - 1 <= n
      BY <2>2, <2>6, LengthFacts
    <3>3. k + l \in k + 1 .. n /\ (k + l) + 1 = p + l /\ k + l <= n /\ k + l \in 0 .. n + 1
          /\ p + l \in 1 .. n + 1
      <4> HIDE DEF l, n
      <4>1. QED
        BY <1>1, <1>4, <3>2
    <3>4. F[p + l] \in Seq(Nat)
      <4>1. \A q \in 1 .. n + 1 : F[q] \in Seq(Nat)
        BY FromFacts
      <4> HIDE DEF l, p, n, F
      <4>2. QED
        BY <3>3, <4>1
    <3>5. f[k + l] = Found(s, p + l, F[p + l])
      <4>1. Scanned(s)[k + l] = Found(s, p + l, F[p + l])
        <5> HIDE DEF l
        <5>1. QED
          BY <3>3 DEF Scanned
      <4>2. f[k + l] = Scanned(s)[k + l]
        <5> HIDE DEF l
        <5>1. QED
          BY <3>3
      <4>3. QED
        BY <4>1, <4>2
    <3>6. ScanStep(s, f, k) = [f[k + l] EXCEPT !.codes = <<d.code>> \o @]
      BY <2>1, <2>4, <2>6, Zenon DEF ScanStep
    <3>7. d.code = Code(s, p)
      BY <2>1 DEF Code
    <3>8. Found(s, p, <<p>> \o F[p + l]) = [Found(s, p + l, F[p + l]) EXCEPT !.codes = <<Code(s, p)>> \o @]
      <4>1. p \in Nat
        BY <2>2, PositionFacts
      <4> HIDE DEF F, p
      <4>2. \A r \in Seq(Nat) : Found(s, p, <<p>> \o r) =
              [Found(s, p + CharLen(s, p), r) EXCEPT !.codes = <<Code(s, p)>> \o @]
        BY <4>1, FoundStep
      <4>3. QED
        BY <3>4, <4>2, Zenon
    <3>9. QED
      BY <2>3, <3>1, <3>5, <3>6, <3>7, <3>8, Zenon
  <2>7. QED
    BY <2>5, <2>6
<1>5. QED
  <2> HIDE DEF n
  <2>1. k \in 0 .. n - 1 \/ k = n \/ k = n + 1
    BY <1>1 DEF n
  <2>2. QED
    BY <1>2, <1>3, <1>4, <2>1 DEF n

\* The scan of a whole string.
LEMMA ScanFacts ==
  ASSUME NEW s \in Seq(Bytes)
  PROVE  Scan(s, 0, Len(s) - 1) = Found(s, 1, Starts(s))
<1> DEFINE n == Len(s)
           W == Scanned(s)
           X == CHOOSE scan : scan = [k \in 0 .. Len(s) + 1 |-> ScanStep(s, scan, k)]
           S == {p \in 0..n : \A l \in p..n : X[l] = W[l]}
<1>1. n \in Nat
  OBVIOUS
<1>2. Scan(s, 0, Len(s) - 1) = X[0]
  BY Zenon DEF Scan, ScanStep
<1>3. X = [k \in 0 .. Len(s) + 1 |-> ScanStep(s, X, k)]
  <2>1. W = [k \in 0 .. Len(s) + 1 |-> ScanStep(s, W, k)]
    <3>1. W = [k \in 0 .. Len(s) + 1 |-> W[k]]
      BY DEF Scanned
    <3>2. \A k \in 0 .. Len(s) + 1 : W[k] = ScanStep(s, W, k)
      BY ScannedStep
    <3> HIDE DEF W
    <3>3. QED
      BY <3>1, <3>2, Zenon
  <2>2. QED
    BY <2>1, Zenon
<1> HIDE DEF X
<1>4. ASSUME NEW k \in 0..n, \A l \in k + 1 .. n : X[l] = W[l]
      PROVE  X[k] = W[k]
  <2>1. k \in 0 .. Len(s) + 1
    BY <1>1
  <2>2. X[k] = ScanStep(s, X, k)
    BY <1>3, <2>1, Zenon
  <2>3. W[k] = ScanStep(s, X, k)
    BY <1>4, <2>1, ScannedStep
  <2>4. QED
    BY <2>2, <2>3
<1> HIDE DEF W, n
<1>5. n \in S
  <2>1. n \in 0..n /\ \A l \in n + 1 .. n : X[l] = W[l]
    BY <1>1
  <2>2. X[n] = W[n] /\ \A l \in n..n : l = n
    BY <1>1, <1>4, <2>1
  <2>3. QED
    BY <2>1, <2>2
<1>6. ASSUME NEW p \in 0 .. n - 1, p + 1 \in S PROVE p \in S
  <2>1. p \in 0..n /\ \A l \in p + 1 .. n : X[l] = W[l]
    BY <1>1, <1>6
  <2>2. X[p] = W[p] /\ \A l \in p..n : l = p \/ l \in p + 1 .. n
    BY <1>1, <1>4, <2>1
  <2>3. QED
    BY <2>1, <2>2
<1> HIDE DEF S
<1>7. 0 \in S
  <2>1. \A p \in 0..n : p \in S
    BY <1>1, <1>5, <1>6, DownwardInduction
  <2>2. QED
    BY <1>1, <2>1
<1>8. X[0] = W[0]
  BY <1>1, <1>7 DEF S
<1>9. W[0] = Found(s, 1, From(s)[1])
  BY <1>1 DEF W, Scanned, n
<1>10. From(s)[1] = Starts(s)
  BY FromFacts
<1>11. QED
  BY <1>2, <1>8, <1>9, <1>10

\* utf8.len of a whole string, and utf8.codepoint of a well-formed one.
LEMMA LenAndCodepoint ==
  ASSUME NEW s \in Seq(Bytes)
  PROVE  /\ ~Valid(s) => utflen(s, 1, -1) = [bad |-> Reach(s) + 1]
         /\ Valid(s) => utflen(s, 1, -1) = [len |-> Len(Starts(s))]
         /\ Valid(s) /\ s # <<>> =>
              codepoint(s, 1, -1) = [codes |-> [k \in 1 .. Len(Starts(s)) |-> Code(s, Starts(s)[k])]]
<1> DEFINE n == Len(s)
           c == Starts(s)
           e == End(s, 1, c)
           f == Scan(s, 0, n - 1)
           u == [k \in 1 .. Len(c) |-> Code(s, c[k])]
<1>1. n \in Nat /\ (s # <<>> => n # 0)
  OBVIOUS
<1>2. u_posrelat(1, n) = 1 /\ u_posrelat(-1, n) = n
  <2> HIDE DEF n
  <2>1. QED
    BY <1>1 DEF u_posrelat
<1>3. /\ 1 <= 1 /\ 1 - 1 = 0 /\ 0 <= n /\ n - 1 < n
      /\ n # 0 => ~(1 < 1 \/ n > n) /\ ~(1 > n)
  <2> HIDE DEF n
  <2>1. QED
    BY <1>1
<1>4. utflen(s, 1, -1) = IF f.ok THEN [len |-> Len(f.codes)] ELSE [bad |-> f.end + 1]
  <2>1. utflen(s, 1, -1) =
          IF ~(1 <= 1 /\ 1 - 1 <= n /\ n - 1 < n) THEN Error
          ELSE IF Scan(s, 1 - 1, n - 1).ok THEN [len |-> Len(Scan(s, 1 - 1, n - 1).codes)]
               ELSE [bad |-> Scan(s, 1 - 1, n - 1).end + 1]
    BY <1>2, Zenon DEF utflen
  <2> HIDE DEF n
  <2>2. QED
    BY <1>3, <2>1, Zenon
<1>5. s # <<>> => codepoint(s, 1, -1) = IF f.ok THEN [codes |-> f.codes] ELSE Error
  <2>1. codepoint(s, 1, -1) =
          IF 1 < 1 \/ n > n THEN Error
          ELSE IF 1 > n THEN [codes |-> <<>>]
          ELSE IF Scan(s, 1 - 1, n - 1).ok THEN [codes |-> Scan(s, 1 - 1, n - 1).codes] ELSE Error
    BY <1>2, Zenon DEF codepoint
  <2> HIDE DEF n
  <2>2. QED
    BY <1>1, <1>3, <2>1, Zenon
<1>6. f = [codes |-> u, end |-> e - 1, ok |-> e = n + 1]
  BY ScanFacts DEF Found
<1>7. Reach(s) = e - 1 /\ (Valid(s) <=> e = n + 1) /\ c \in Seq(Nat)
  BY StartsFacts DEF Follow
<1>8. f.codes = u /\ f.end = e - 1 /\ (f.ok <=> e = n + 1)
  <2> HIDE DEF u, e, n, f
  <2>1. QED
    BY <1>6
<1>9. Len(u) = Len(c)
  BY <1>7
<1>10. QED
  <2> HIDE DEF u, e, n, f
  <2>1. /\ f.ok => utflen(s, 1, -1) = [len |-> Len(c)]
        /\ ~f.ok => utflen(s, 1, -1) = [bad |-> e - 1 + 1]
    BY <1>4, <1>8, <1>9
  <2>2. f.ok /\ s # <<>> => codepoint(s, 1, -1) = [codes |-> u]
    BY <1>5, <1>8
  <2>3. QED
    BY <1>7, <1>8, <2>1, <2>2 DEF u

-----------------------------------------------------------------------------
(***************************************************************************)
(* offset.  Both steps stay in the string, so the moves in either          *)
(* direction are a function of the number of steps; over characters that   *)
(* follow one another each step is one character.                          *)
(***************************************************************************)
\* There is a first position that is no continuation: the end is none.
LEMMA SkipExists ==
  ASSUME NEW s \in Seq(Bytes)
  PROVE  \A k \in 0 .. Len(s) : SkipCont(s, k) \in k .. Len(s)
<1> DEFINE n == Len(s)
           I(k) == iscont(s, k)
           S == {k \in 0..n : \E m \in k..n : ~I(m) /\ \A l \in k .. m - 1 : I(l)}
<1>1. n \in Nat /\ ~I(n)
  BY DEF iscont, Byte
<1>2. \A k : SkipCont(s, k) = CHOOSE m \in k..n : ~I(m) /\ \A l \in k .. m - 1 : I(l)
  BY DEF SkipCont
<1> HIDE DEF n, I
<1>3. n \in S
  <2>1. n \in n..n /\ \A l \in n .. n - 1 : I(l)
    BY <1>1
  <2>2. QED
    BY <1>1, <2>1
<1>4. ASSUME NEW p \in 0 .. n - 1, p + 1 \in S PROVE p \in S
  <2>1. CASE ~I(p)
    <3>1. p \in p..n /\ \A l \in p .. p - 1 : I(l)
      BY <1>1
    <3>2. QED
      BY <1>1, <2>1, <3>1
  <2>2. CASE I(p)
    <3>1. PICK m \in p + 1 .. n : ~I(m) /\ \A l \in p + 1 .. m - 1 : I(l)
      BY <1>4
    <3>2. m \in p..n /\ \A l \in p .. m - 1 : l = p \/ l \in p + 1 .. m - 1
      BY <1>1
    <3>3. \A l \in p .. m - 1 : I(l)
      BY <2>2, <3>1, <3>2
    <3>4. QED
      BY <1>1, <3>1, <3>2, <3>3
  <2>3. QED
    BY <2>1, <2>2
<1>5. \A k \in 0..n : \E m \in k..n : ~I(m) /\ \A l \in k .. m - 1 : I(l)
  <2> HIDE DEF S
  <2>1. \A p \in 0..n : p \in S
    BY <1>1, <1>3, <1>4, DownwardInduction
  <2>2. QED
    BY <2>1 DEF S
<1>6. \A k \in 0..n : SkipCont(s, k) \in k..n
  BY <1>2, <1>5
<1>7. QED
  BY <1>6 DEF n

\* There is a last one before a position, or the first byte.
LEMMA BackExists ==
  ASSUME NEW s \in Seq(Bytes)
  PROVE  \A k \in 1 .. Len(s) : Back(s, k) \in 0 .. k - 1
<1> DEFINE I(k) == iscont(s, k)
           Ends(k, m) == (m = 0 \/ ~I(m)) /\ \A l \in m + 1 .. k : I(l)
           S == {k \in Nat : \E m \in 0..k : Ends(k, m)}
<1>1. \A k : Back(s, k) = CHOOSE m \in 0 .. k - 1 :
                            (m = 0 \/ ~I(m)) /\ \A l \in m + 1 .. k - 1 : I(l)
  BY DEF Back
<1> HIDE DEF I
<1>2. 0 \in S
  <2>1. Ends(0, 0)
    OBVIOUS
  <2>2. QED
    BY <2>1
<1>3. ASSUME NEW k \in Nat, k \in S PROVE k + 1 \in S
  <2>1. CASE ~I(k + 1)
    <3>1. k + 1 \in 0 .. k + 1 /\ Ends(k + 1, k + 1)
      BY <2>1
    <3>2. QED
      BY <3>1
  <2>2. CASE I(k + 1)
    <3>1. PICK m \in 0..k : Ends(k, m)
      BY <1>3
    <3>2. \A l \in m + 1 .. k + 1 : l = k + 1 \/ l \in m + 1 .. k
      OBVIOUS
    <3>3. Ends(k + 1, m)
      BY <2>2, <3>1, <3>2
    <3>4. QED
      BY <3>3
  <2>3. QED
    BY <2>1, <2>2
<1>4. \A k \in Nat : k \in S
  <2> HIDE DEF S
  <2>1. QED
    BY <1>2, <1>3, Induction
<1>5. SUFFICES ASSUME NEW k \in 1 .. Len(s) PROVE Back(s, k) \in 0 .. k - 1
  OBVIOUS
<1>6. k - 1 \in Nat
  OBVIOUS
<1>7. \E m \in 0 .. k - 1 : (m = 0 \/ ~I(m)) /\ \A l \in m + 1 .. k - 1 : I(l)
  BY <1>4, <1>6
<1> HIDE DEF S, Ends
<1>8. QED
  BY <1>1, <1>7

\* Where m moves from k lead, when f has the moves.
Moved(s, f, m, k) ==
  CASE m < 0 /\ k > 0 -> f[m + 1][Back(s, k)]
    [] m > 0 /\ k < Len(s) -> f[m - 1][Forth(s, k)]
    [] OTHER -> IF m = 0 THEN k + 1 ELSE 0

\* The recursion of byteoffset.
Move(s) == CHOOSE move : move = [m \in Int |-> [k \in 0 .. Len(s) |-> Moved(s, move, m, k)]]

\* The moves are what the recursion says.
LEMMA MoveFacts ==
  ASSUME NEW s \in Seq(Bytes)
  PROVE  \A m \in Int, k \in 0 .. Len(s) : Move(s)[m][k] = Moved(s, Move(s), m, k)
<1> DEFINE n == Len(s)
           Rows == [0..n -> 0 .. n + 1]
           B(k) == Back(s, k)
           F(k) == Forth(s, k)
           row == [k \in 0..n |-> k + 1]
           Forward(h) == [k \in 0..n |-> IF k < n THEN h[F(k)] ELSE 0]
           Backward(h) == [k \in 0..n |-> IF k > 0 THEN h[B(k)] ELSE 0]
<1>1. n \in Nat
  OBVIOUS
<1>2. \A k \in 0..n : /\ k < n => F(k) \in 0..n
                      /\ k > 0 => B(k) \in 0..n
  <2> SUFFICES ASSUME NEW k \in 0..n
               PROVE  (k < n => F(k) \in 0..n) /\ (k > 0 => B(k) \in 0..n)
    OBVIOUS
  <2>1. ASSUME k < n PROVE F(k) \in 0..n
    <3>1. k + 1 \in 0..n
      <4> HIDE DEF n
      <4>1. QED
        BY <1>1, <2>1
    <3>2. SkipCont(s, k + 1) \in k + 1 .. n
      BY <3>1, SkipExists
    <3>3. F(k) = SkipCont(s, k + 1)
      BY DEF Forth
    <3> HIDE DEF n, F
    <3>4. QED
      BY <1>1, <3>1, <3>2, <3>3
  <2>2. ASSUME k > 0 PROVE B(k) \in 0..n
    <3>1. k \in 1..n
      <4> HIDE DEF n
      <4>1. QED
        BY <1>1, <2>2
    <3>2. B(k) \in 0 .. k - 1
      BY <3>1, BackExists
    <3> HIDE DEF n, B
    <3>3. QED
      BY <1>1, <3>1, <3>2
  <2>3. QED
    BY <2>1, <2>2
<1>3. \A f : \A m \in Int, k \in 0..n :
        /\ m < 0 => Moved(s, f, m, k) = IF k > 0 THEN f[m + 1][B(k)] ELSE 0
        /\ m > 0 => Moved(s, f, m, k) = IF k < n THEN f[m - 1][F(k)] ELSE 0
        /\ m = 0 => Moved(s, f, m, k) = k + 1
  <2> SUFFICES ASSUME NEW f, NEW m \in Int, NEW k \in 0..n
               PROVE  /\ m < 0 => Moved(s, f, m, k) = IF k > 0 THEN f[m + 1][B(k)] ELSE 0
                      /\ m > 0 => Moved(s, f, m, k) = IF k < n THEN f[m - 1][F(k)] ELSE 0
                      /\ m = 0 => Moved(s, f, m, k) = k + 1
    OBVIOUS
  <2> DEFINE x == f[m + 1][B(k)]
             y == f[m - 1][F(k)]
  <2>1. Moved(s, f, m, k) = CASE m < 0 /\ k > 0 -> x [] m > 0 /\ k < n -> y
                              [] OTHER -> IF m = 0 THEN k + 1 ELSE 0
    BY DEF Moved
  <2> HIDE DEF x, y, n
  <2>2. /\ m < 0 => Moved(s, f, m, k) = IF k > 0 THEN x ELSE 0
        /\ m > 0 => Moved(s, f, m, k) = IF k < n THEN y ELSE 0
        /\ m = 0 => Moved(s, f, m, k) = k + 1
    BY <2>1
  <2>3. QED
    BY <2>2 DEF x, y
<1>4. Move(s) = CHOOSE move : move = [m \in Int |-> [k \in 0..n |-> Moved(s, move, m, k)]]
  BY DEF Move
<1> HIDE DEF n, B, F
<1>5. row \in Rows
  BY <1>1
<1>6. ASSUME NEW h \in Rows PROVE Forward(h) \in Rows /\ Backward(h) \in Rows
  <2>1. \A k \in 0..n : (IF k < n THEN h[F(k)] ELSE 0) \in 0 .. n + 1
    BY <1>1, <1>2
  <2>2. \A k \in 0..n : (IF k > 0 THEN h[B(k)] ELSE 0) \in 0 .. n + 1
    BY <1>1, <1>2
  <2>3. QED
    BY <2>1, <2>2
<1>7. \A h, k : k \in 0..n => /\ Forward(h)[k] = IF k < n THEN h[F(k)] ELSE 0
                              /\ Backward(h)[k] = IF k > 0 THEN h[B(k)] ELSE 0
  OBVIOUS
<1>8. /\ \A k \in 0..n : row[k] = k + 1
      /\ \A h \in Rows : h = [k \in 0..n |-> h[k]]
  OBVIOUS
<1> DEFINE forth == [h \in Rows |-> Forward(h)]
           back == [h \in Rows |-> Backward(h)]
<1> HIDE DEF Rows, Forward, Backward, row
<1>9. forth \in [Rows -> Rows] /\ back \in [Rows -> Rows]
  BY <1>6
<1>10. PICK f : Iterates(Rows, row, forth, f)
  <2> HIDE DEF forth
  <2>1. StepOn(Rows, forth)
    BY <1>9 DEF StepOn
  <2>2. QED
    BY <1>5, <2>1, PrimitiveRecursion
<1>11. PICK b : Iterates(Rows, row, back, b)
  <2> HIDE DEF back
  <2>1. StepOn(Rows, back)
    BY <1>9 DEF StepOn
  <2>2. QED
    BY <1>5, <2>1, PrimitiveRecursion
<1> USE DEF Iterates
<1>12. \A i \in Nat : f[i + 1] = Forward(f[i]) /\ b[i + 1] = Backward(b[i])
  BY <1>10, <1>11
<1> DEFINE W == [m \in Int |-> IF m >= 0 THEN f[m] ELSE b[-m]]
<1>13. /\ \A i \in Nat : W[i] = f[i] /\ W[-i] = b[i]
       /\ \A m \in Int : W[m] \in Rows
  <2>1. ASSUME NEW i \in Nat PROVE W[i] = f[i] /\ W[-i] = b[i]
    <3>1. CASE i = 0
      BY <1>10, <1>11, <3>1
    <3>2. CASE i # 0
      <4>1. -i \in Int /\ ~(-i >= 0) /\ -(-i) = i /\ i >= 0
        BY <3>2
      <4>2. QED
        BY <4>1
    <3>3. QED
      BY <3>1, <3>2
  <2>2. ASSUME NEW m \in Int PROVE W[m] \in Rows
    <3>1. CASE m >= 0
      <4>1. m \in Nat
        BY <3>1
      <4>2. f[m] \in Rows
        BY <1>10, <4>1
      <4> HIDE DEF W
      <4>3. QED
        BY <2>1, <4>1, <4>2
    <3>2. CASE ~(m >= 0)
      <4>1. -m \in Nat /\ -(-m) = m
        BY <3>2
      <4>2. b[-m] \in Rows
        BY <1>11, <4>1
      <4>3. W[-(-m)] = b[-m]
        BY <2>1, <4>1
      <4> HIDE DEF W
      <4>4. QED
        BY <4>1, <4>2, <4>3
    <3>3. QED
      BY <3>1, <3>2
  <2>3. QED
    BY <2>1, <2>2
<1> DEFINE X == [m \in Int |-> [k \in 0..n |-> Moved(s, W, m, k)]]
<1>14. W = [m \in Int |-> W[m]]
  OBVIOUS
<1> HIDE DEF W
<1>15. ASSUME NEW m \in Int, NEW k \in 0..n PROVE W[m][k] = Moved(s, W, m, k)
  <2>1. CASE m = 0
    <3>1. W[0] = row
      BY <1>10, <1>13
    <3>2. Moved(s, W, m, k) = k + 1
      BY <1>3, <2>1
    <3>3. QED
      BY <1>8, <2>1, <3>1, <3>2
  <2>2. CASE m > 0
    <3>1. m - 1 \in Nat /\ (m - 1) + 1 = m /\ m \in Nat
      BY <2>2
    <3>2. W[m] = Forward(f[m - 1]) /\ W[m - 1] = f[m - 1]
      BY <1>12, <1>13, <3>1
    <3>3. Forward(f[m - 1])[k] = IF k < n THEN f[m - 1][F(k)] ELSE 0
      BY <1>7
    <3>4. Moved(s, W, m, k) = IF k < n THEN W[m - 1][F(k)] ELSE 0
      BY <1>3, <2>2
    <3>5. QED
      BY <3>2, <3>3, <3>4, Zenon
  <2>3. CASE m < 0
    <3> DEFINE i == -m - 1
    <3>1. i \in Nat /\ i + 1 = -m /\ i + 1 \in Nat /\ -(i + 1) = m /\ -i = m + 1
      BY <2>3
    <3>2. W[-(i + 1)] = b[i + 1] /\ W[-i] = b[i] /\ b[i + 1] = Backward(b[i])
      <4> HIDE DEF i
      <4>1. QED
        BY <1>12, <1>13, <3>1
    <3>3. W[m] = Backward(b[i]) /\ W[m + 1] = b[i]
      <4> HIDE DEF i
      <4>1. QED
        BY <3>1, <3>2, Zenon
    <3>4. Backward(b[i])[k] = IF k > 0 THEN b[i][B(k)] ELSE 0
      BY <1>7
    <3>5. Moved(s, W, m, k) = IF k > 0 THEN W[m + 1][B(k)] ELSE 0
      BY <1>3, <2>3
    <3>6. QED
      BY <3>3, <3>4, <3>5, Zenon
  <2>4. QED
    BY <2>1, <2>2, <2>3
<1>16. W = X
  <2>1. ASSUME NEW m \in Int PROVE W[m] = [k \in 0..n |-> Moved(s, W, m, k)]
    <3>1. W[m] = [k \in 0..n |-> W[m][k]]
      BY <1>8, <1>13
    <3>2. QED
      BY <1>15, <3>1, Zenon
  <2>2. QED
    BY <1>14, <2>1, Zenon
<1>17. Move(s) = [m \in Int |-> [k \in 0..n |-> Moved(s, Move(s), m, k)]]
  BY <1>4, <1>16, Zenon
<1>18. \A m \in Int, k \in 0..n : Move(s)[m][k] = Moved(s, Move(s), m, k)
  <2>1. \A m \in Int : Move(s)[m] = [k \in 0..n |-> Moved(s, Move(s), m, k)]
    BY <1>17, Zenon
  <2>2. QED
    BY <2>1, Zenon
<1>19. QED
  BY <1>18 DEF n

\* Where the j-th character of a string begins; the end is behind the last.
Place(s, j) == IF j <= Len(Starts(s)) THEN Starts(s)[j] ELSE Len(s) + 1

\* The characters of a well-formed string cover it, one behind the other.
LEMMA PlaceFacts ==
  ASSUME NEW s \in Seq(Bytes), Valid(s)
  PROVE  /\ Place(s, 1) = 1
         /\ Place(s, Len(Starts(s)) + 1) = Len(s) + 1
         /\ \A j \in 1 .. Len(Starts(s)) :
              /\ Place(s, j) = Starts(s)[j]
              /\ Position(s, Place(s, j)) /\ CharLen(s, Place(s, j)) # 0
              /\ Place(s, j + 1) = Place(s, j) + CharLen(s, Place(s, j))
<1> DEFINE c == Starts(s)
           n == Len(c)
           L == Len(s)
           C(p) == CharLen(s, p)
           E == End(s, 1, c)
<1>1. /\ c \in Seq(Nat) /\ (c # <<>> => c[1] = 1)
      /\ \A j \in 1..n : Position(s, c[j]) /\ C(c[j]) # 0
      /\ \A j \in 1 .. n - 1 : c[j + 1] = c[j] + C(c[j])
      /\ E = L + 1
  BY StartsFacts DEF Follow
<1>2. n \in Nat /\ L \in Nat /\ (c = <<>> <=> n = 0)
  <2> HIDE DEF c
  <2>1. QED
    BY <1>1 DEF c
<1>3. E = IF c = <<>> THEN 1 ELSE c[n] + C(c[n])
  BY DEF End
<1>4. \A j : Place(s, j) = IF j <= n THEN c[j] ELSE L + 1
  BY DEF Place
<1> SUFFICES /\ Place(s, 1) = 1 /\ Place(s, n + 1) = L + 1
             /\ \A j \in 1..n : /\ Place(s, j) = c[j]
                                /\ Position(s, Place(s, j)) /\ C(Place(s, j)) # 0
                                /\ Place(s, j + 1) = Place(s, j) + C(Place(s, j))
  OBVIOUS
<1> HIDE DEF c, n, L, C, E
<1>5. Place(s, n + 1) = L + 1
  BY <1>2, <1>4
<1>6. Place(s, 1) = 1
  BY <1>1, <1>2, <1>3, <1>4
<1>7. ASSUME NEW j \in 1..n
      PROVE  Place(s, j) = c[j] /\ Place(s, j + 1) = c[j] + C(c[j])
  <2>1. Place(s, j) = c[j]
    BY <1>4
  <2>2. CASE j = n
    BY <1>1, <1>2, <1>3, <1>5, <2>1, <2>2
  <2>3. CASE j # n
    <3>1. j \in 1 .. n - 1 /\ j + 1 <= n
      BY <1>2, <2>3
    <3>2. QED
      BY <1>1, <1>4, <2>1, <3>1
  <2>4. QED
    BY <2>2, <2>3
<1>8. QED
  BY <1>1, <1>5, <1>6, <1>7

\* They are as many as the places less one, and each begins with the only one of
\* its bytes that is no continuation.
LEMMA PlaceBytes ==
  ASSUME NEW s \in Seq(Bytes), Valid(s)
  PROVE  /\ \A j \in 1 .. Len(Starts(s)) + 1 :
              Place(s, j) \in 1 .. Len(s) + 1 /\ ~iscont(s, Place(s, j) - 1)
         /\ \A j \in 1 .. Len(Starts(s)) :
              /\ Place(s, j) < Place(s, j + 1)
              /\ \A b \in Place(s, j) + 1 .. Place(s, j + 1) - 1 : iscont(s, b - 1)
<1> DEFINE n == Len(Starts(s))
           L == Len(s)
           P(j) == Place(s, j)
           C(p) == CharLen(s, p)
           I(k) == iscont(s, k)
<1>1. /\ P(1) = 1 /\ P(n + 1) = L + 1
      /\ \A j \in 1..n : /\ Position(s, P(j)) /\ C(P(j)) # 0
                         /\ P(j + 1) = P(j) + C(P(j))
  BY PlaceFacts
<1>2. n \in Nat /\ L \in Nat
  <2>1. Starts(s) \in Seq(Nat)
    BY FromFacts
  <2>2. QED
    BY <2>1
<1>3. \A k \in 0..L : I(k) <=> k < L /\ s[k + 1] \in 128..191
  BY ContinuationFacts
<1> SUFFICES /\ \A j \in 1 .. n + 1 : P(j) \in 1 .. L + 1 /\ ~I(P(j) - 1)
             /\ \A j \in 1..n : /\ P(j) < P(j + 1)
                                /\ \A b \in P(j) + 1 .. P(j + 1) - 1 : I(b - 1)
  OBVIOUS
<1>4. ASSUME NEW p, Position(s, p), C(p) # 0
      PROVE  /\ p \in 1..L /\ s[p] \notin 128..191 /\ C(p) \in 1..4 /\ p + C(p) - 1 <= L
             /\ \A b \in p + 1 .. p + C(p) - 1 : s[b] \in 128..191
  BY <1>4, LengthFacts, PositionFacts, NoneAtContinuation, TailFacts
<1> HIDE DEF n, L, P, C, I
<1>5. ASSUME NEW j \in 1..n
      PROVE  /\ P(j) \in 1..L /\ ~I(P(j) - 1) /\ P(j) < P(j + 1)
             /\ \A b \in P(j) + 1 .. P(j + 1) - 1 : I(b - 1)
  <2> DEFINE p == P(j)
             l == C(p)
  <2>1. Position(s, p) /\ l # 0 /\ P(j + 1) = p + l
    BY <1>1
  <2>2. /\ p \in 1..L /\ s[p] \notin 128..191 /\ l \in 1..4 /\ p + l - 1 <= L
        /\ \A b \in p + 1 .. p + l - 1 : s[b] \in 128..191
    BY <1>4, <2>1
  <2> HIDE DEF p, l
  <2>3. p - 1 \in 0..L /\ (p - 1) + 1 = p /\ p < p + l
    BY <1>2, <2>2
  <2>4. ~I(p - 1)
    BY <1>3, <2>2, <2>3
  <2>5. ASSUME NEW b \in p + 1 .. p + l - 1 PROVE I(b - 1)
    <3>1. b - 1 \in 0..L /\ (b - 1) + 1 = b /\ b - 1 < L
      BY <1>2, <2>2
    <3>2. s[b] \in 128..191
      BY <2>2
    <3>3. QED
      BY <1>3, <3>1, <3>2
  <2>6. QED
    BY <2>1, <2>2, <2>3, <2>4, <2>5 DEF p
<1>6. P(n + 1) = L + 1 /\ L + 1 \in 1 .. L + 1 /\ ~I((L + 1) - 1)
  <2>1. L \in 0..L /\ ~(L < L) /\ (L + 1) - 1 = L /\ L + 1 \in 1 .. L + 1
    BY <1>2
  <2>2. ~I(L)
    BY <1>3, <2>1
  <2>3. QED
    BY <1>1, <2>1, <2>2
<1>7. ASSUME NEW j \in 1 .. n + 1 PROVE P(j) \in 1 .. L + 1 /\ ~I(P(j) - 1)
  <2>1. CASE j \in 1..n
    BY <1>2, <1>5, <2>1
  <2>2. CASE j = n + 1
    BY <1>6, <2>2
  <2>3. QED
    BY <1>2, <2>1, <2>2
<1>8. QED
  BY <1>5, <1>7

\* A step forth from a character leads to the next, a step back from behind its
\* first byte to that.
LEMMA StepFacts ==
  ASSUME NEW s \in Seq(Bytes), Valid(s), NEW j \in 1 .. Len(Starts(s))
  PROVE  /\ Forth(s, Place(s, j) - 1) = Place(s, j + 1) - 1
         /\ \A b \in Place(s, j) + 1 .. Place(s, j + 1) : Back(s, b - 1) = Place(s, j) - 1
<1> DEFINE n == Len(Starts(s))
           L == Len(s)
           I(k) == iscont(s, k)
           p == Place(s, j)
           q == Place(s, j + 1)
<1>1. n \in Nat /\ L \in Nat
  <2>1. Starts(s) \in Seq(Nat)
    BY FromFacts
  <2>2. QED
    BY <2>1
<1>2. j \in 1 .. n + 1 /\ j + 1 \in 1 .. n + 1
  <2> HIDE DEF n
  <2>1. QED
    BY <1>1 DEF n
<1>3. /\ Position(s, p) /\ CharLen(s, p) # 0 /\ q = p + CharLen(s, p)
  BY PlaceFacts
<1>4. /\ p \in 1 .. L + 1 /\ ~I(p - 1) /\ q \in 1 .. L + 1 /\ ~I(q - 1)
      /\ p < q /\ \A b \in p + 1 .. q - 1 : I(b - 1)
  <2>1. \A i \in 1 .. n + 1 : Place(s, i) \in 1 .. L + 1 /\ ~I(Place(s, i) - 1)
    BY PlaceBytes
  <2>2. p < q /\ \A b \in p + 1 .. q - 1 : I(b - 1)
    BY PlaceBytes
  <2> HIDE DEF n, L, I
  <2>3. QED
    BY <1>2, <2>1, <2>2
<1>5. Forth(s, p - 1) = q - 1
  <2>1. q <= L => s[q] \notin 128..191
    <3>1. I(q - 1) <=> q - 1 < L /\ s[(q - 1) + 1] \in 128..191
      <4>1. q - 1 \in 0..L
        <5> HIDE DEF q, L, I, p
        <5>1. QED
          BY <1>1, <1>4
      <4> HIDE DEF q
      <4>2. QED
        BY <4>1, ContinuationFacts
    <3> HIDE DEF q, L, I, p
    <3>2. (q - 1) + 1 = q /\ (q <= L => q - 1 < L)
      BY <1>1, <1>4
    <3>3. QED
      BY <1>4, <3>1, <3>2
  <2>2. SkipCont(s, p) = p - 1 + CharLen(s, p)
    BY <1>3, <2>1, SkipFacts
  <2>3. CharLen(s, p) \in Nat /\ p \in Nat
    BY <1>3, LengthFacts, PositionFacts
  <2>4. (p - 1) + 1 = p /\ p - 1 + CharLen(s, p) = q - 1
    <3> HIDE DEF p, q
    <3>1. QED
      BY <1>3, <2>3
  <2>5. Forth(s, p - 1) = SkipCont(s, p)
    BY <2>4 DEF Forth
  <2>6. QED
    BY <2>2, <2>4, <2>5
<1>6. ASSUME NEW b \in p + 1 .. q PROVE Back(s, b - 1) = p - 1
  <2> DEFINE Good(m) == (m = 0 \/ ~I(m)) /\ \A l \in m + 1 .. b - 1 - 1 : I(l)
  <2>1. Back(s, b - 1) = CHOOSE m \in 0 .. b - 1 - 1 : Good(m)
    BY DEF Back
  <2> HIDE DEF I, L, p, q
  <2>2. p - 1 \in 0 .. b - 1 - 1
    BY <1>4
  <2>3. ASSUME NEW l \in p .. b - 1 - 1 PROVE I(l)
    <3>1. l + 1 \in p + 1 .. q - 1 /\ (l + 1) - 1 = l
      BY <1>4
    <3>2. I((l + 1) - 1)
      BY <1>4, <3>1
    <3>3. QED
      BY <3>1, <3>2
  <2>4. Good(p - 1)
    <3>1. (p - 1) + 1 = p
      BY <1>4
    <3>2. QED
      BY <1>4, <2>3, <3>1
  <2>5. ASSUME NEW m \in 0 .. b - 1 - 1, Good(m) PROVE m = p - 1
    <3>1. CASE m < p - 1
      <4>1. p - 1 \in m + 1 .. b - 1 - 1
        BY <1>4, <3>1
      <4>2. QED
        BY <1>4, <2>5, <4>1
    <3>2. CASE m > p - 1
      <4>1. m \in p .. b - 1 - 1 /\ m # 0
        BY <1>4, <3>2
      <4>2. QED
        BY <2>3, <2>5, <4>1
    <3>3. QED
      BY <1>4, <3>1, <3>2
  <2> HIDE DEF Good
  <2>6. QED
    BY <2>1, <2>2, <2>4, <2>5
<1>7. QED
  BY <1>5, <1>6

\* As many characters as steps, and 0 outside the string.
LEMMA MoveOverPlaces ==
  ASSUME NEW s \in Seq(Bytes), Valid(s)
  PROVE  \A i \in Nat, j \in 1 .. Len(Starts(s)) + 1 :
           /\ Move(s)[i][Place(s, j) - 1] =
                IF j + i <= Len(Starts(s)) + 1 THEN Place(s, j + i) ELSE 0
           /\ Move(s)[-i][Place(s, j) - 1] = IF j - i >= 1 THEN Place(s, j - i) ELSE 0
<1> DEFINE n == Len(Starts(s))
           L == Len(s)
           P(j) == Place(s, j)
           M == Move(s)
           B(k) == Back(s, k)
           F(k) == Forth(s, k)
           Right(i) == \A j \in 1 .. n + 1 :
                         M[i][P(j) - 1] = IF j + i <= n + 1 THEN P(j + i) ELSE 0
           Left(i) == \A j \in 1 .. n + 1 :
                        M[-i][P(j) - 1] = IF j - i >= 1 THEN P(j - i) ELSE 0
           S == {i \in Nat : Right(i) /\ Left(i)}
<1>1. n \in Nat /\ L \in Nat
  <2>1. Starts(s) \in Seq(Nat)
    BY FromFacts
  <2>2. QED
    BY <2>1
<1>2. /\ P(1) = 1 /\ P(n + 1) = L + 1
      /\ \A j \in 1 .. n + 1 : P(j) \in 1 .. L + 1
      /\ \A j \in 1..n : P(j) < P(j + 1)
  BY PlaceFacts, PlaceBytes
<1>3. \A j \in 1..n : F(P(j) - 1) = P(j + 1) - 1 /\ B(P(j + 1) - 1) = P(j) - 1
  <2> SUFFICES ASSUME NEW j \in 1..n
               PROVE  F(P(j) - 1) = P(j + 1) - 1 /\ B(P(j + 1) - 1) = P(j) - 1
    OBVIOUS
  <2>1. \A b \in P(j) + 1 .. P(j + 1) : B(b - 1) = P(j) - 1
    BY StepFacts
  <2>2. F(P(j) - 1) = P(j + 1) - 1
    BY StepFacts
  <2>3. j \in 1 .. n + 1 /\ j + 1 \in 1 .. n + 1
    <3> HIDE DEF n
    <3>1. QED
      BY <1>1
  <2> HIDE DEF n, P, B, F, L
  <2>4. P(j) < P(j + 1) /\ P(j) \in 1 .. L + 1 /\ P(j + 1) \in 1 .. L + 1
    BY <1>2, <2>3
  <2>5. P(j + 1) \in P(j) + 1 .. P(j + 1)
    BY <1>1, <2>4
  <2>6. QED
    BY <2>1, <2>2, <2>5
<1>4. \A m \in Int, k \in 0..L :
        /\ m < 0 => M[m][k] = IF k > 0 THEN M[m + 1][B(k)] ELSE 0
        /\ m > 0 => M[m][k] = IF k < L THEN M[m - 1][F(k)] ELSE 0
        /\ m = 0 => M[m][k] = k + 1
  <2> SUFFICES ASSUME NEW m \in Int, NEW k \in 0..L
               PROVE  /\ m < 0 => M[m][k] = IF k > 0 THEN M[m + 1][B(k)] ELSE 0
                      /\ m > 0 => M[m][k] = IF k < L THEN M[m - 1][F(k)] ELSE 0
                      /\ m = 0 => M[m][k] = k + 1
    OBVIOUS
  <2> DEFINE x == M[m + 1][B(k)]
             y == M[m - 1][F(k)]
  <2>1. M[m][k] = Moved(s, M, m, k)
    BY MoveFacts
  <2>2. Moved(s, M, m, k) = CASE m < 0 /\ k > 0 -> x [] m > 0 /\ k < L -> y
                              [] OTHER -> IF m = 0 THEN k + 1 ELSE 0
    BY DEF Moved
  <2> HIDE DEF x, y, L, M
  <2>3. /\ m < 0 => M[m][k] = IF k > 0 THEN x ELSE 0
        /\ m > 0 => M[m][k] = IF k < L THEN y ELSE 0
        /\ m = 0 => M[m][k] = k + 1
    BY <2>1, <2>2
  <2>4. QED
    BY <2>3 DEF x, y
<1> SUFFICES \A i \in Nat, j \in 1 .. n + 1 :
               /\ M[i][P(j) - 1] = IF j + i <= n + 1 THEN P(j + i) ELSE 0
               /\ M[-i][P(j) - 1] = IF j - i >= 1 THEN P(j - i) ELSE 0
  OBVIOUS
<1> HIDE DEF n, L, P, M, B, F
<1>5. \A j \in 1 .. n + 1 : P(j) - 1 \in 0..L /\ (P(j) - 1) + 1 = P(j)
  BY <1>1, <1>2
<1>6. 0 \in S
  <2>1. ASSUME NEW j \in 1 .. n + 1 PROVE M[0][P(j) - 1] = P(j)
    BY <1>4, <1>5
  <2>2. \A j \in 1 .. n + 1 : j + 0 = j /\ j - 0 = j /\ j <= n + 1 /\ j >= 1
    BY <1>1
  <2>3. -0 = 0
    <3>1. 0 \in Int /\ 0 <= 0 /\ \A x \in Int : x <= 0 /\ 0 <= x => -x = x
      OBVIOUS
    <3>2. QED
      BY <3>1, Zenon
  <2>4. Right(0) /\ Left(0)
    BY <2>1, <2>2, <2>3
  <2>5. QED
    BY <2>4
<1>7. ASSUME NEW i \in Nat, i \in S PROVE i + 1 \in S
  <2>1. Right(i) /\ Left(i)
    BY <1>7
  <2> HIDE DEF S
  <2>2. ASSUME NEW j \in 1 .. n + 1
        PROVE  M[i + 1][P(j) - 1] = IF j + (i + 1) <= n + 1 THEN P(j + (i + 1)) ELSE 0
    <3> DEFINE k == P(j) - 1
    <3>1. k \in 0..L /\ i + 1 \in Int /\ i + 1 > 0 /\ (i + 1) - 1 = i
      BY <1>5
    <3>2. M[i + 1][k] = IF k < L THEN M[i][F(k)] ELSE 0
      <4> HIDE DEF k
      <4>1. QED
        BY <1>4, <3>1
    <3>3. CASE j \in 1..n
      <4>1. j + 1 \in 1 .. n + 1 /\ j + (i + 1) = (j + 1) + i
        BY <1>1, <3>3
      <4>2. k < L
        <5>1. P(j) < P(j + 1) /\ P(j) \in 1 .. L + 1 /\ P(j + 1) \in 1 .. L + 1
          BY <1>2, <3>3, <4>1
        <5>2. QED
          BY <1>1, <5>1
      <4>3. F(k) = P(j + 1) - 1
        BY <1>3, <3>3
      <4>4. M[i][P(j + 1) - 1] = IF (j + 1) + i <= n + 1 THEN P((j + 1) + i) ELSE 0
        BY <2>1, <4>1
      <4> HIDE DEF k, Right, Left
      <4>5. M[i + 1][k] = IF (j + 1) + i <= n + 1 THEN P((j + 1) + i) ELSE 0
        BY <3>2, <4>2, <4>3, <4>4, Zenon
      <4>6. QED
        BY <4>1, <4>5 DEF k
    <3>4. CASE j = n + 1
      <4>1. P(j) = L + 1
        BY <1>2, <3>4
      <4>2. k = L /\ ~(k < L) /\ ~(j + (i + 1) <= n + 1)
        BY <1>1, <3>4, <4>1
      <4>3. QED
        BY <3>2, <4>2
    <3>5. QED
      BY <1>1, <3>3, <3>4
  <2>3. ASSUME NEW j \in 1 .. n + 1
        PROVE  M[-(i + 1)][P(j) - 1] = IF j - (i + 1) >= 1 THEN P(j - (i + 1)) ELSE 0
    <3> DEFINE k == P(j) - 1
               m == -(i + 1)
    <3>1. k \in 0..L /\ m \in Int /\ m < 0 /\ m + 1 = -i
      BY <1>5
    <3>2. M[m][k] = IF k > 0 THEN M[-i][B(k)] ELSE 0
      <4> HIDE DEF k, m
      <4>1. QED
        BY <1>4, <3>1
    <3>3. CASE j # 1
      <4> DEFINE h == j - 1
      <4>1. h \in 1..n /\ h \in 1 .. n + 1 /\ h + 1 = j /\ j - (i + 1) = h - i
        BY <1>1, <3>3
      <4>2. k > 0
        <5>1. P(h) < P(h + 1) /\ P(h) \in 1 .. L + 1 /\ P(h + 1) \in 1 .. L + 1
          BY <1>2, <4>1
        <5>2. QED
          BY <1>1, <4>1, <5>1
      <4>3. B(k) = P(h) - 1
        <5>1. B(P(h + 1) - 1) = P(h) - 1
          BY <1>3, <4>1
        <5>2. QED
          BY <4>1, <5>1
      <4>4. M[-i][P(h) - 1] = IF h - i >= 1 THEN P(h - i) ELSE 0
        BY <2>1, <4>1
      <4> HIDE DEF k, h, m, Right, Left
      <4>5. M[m][k] = IF h - i >= 1 THEN P(h - i) ELSE 0
        BY <3>2, <4>2, <4>3, <4>4, Zenon
      <4>6. QED
        BY <4>1, <4>5 DEF k, m
    <3>4. CASE j = 1
      <4>1. k = 0 /\ ~(k > 0) /\ ~(j - (i + 1) >= 1)
        BY <1>2, <3>4
      <4>2. QED
        BY <3>2, <4>1
    <3>5. QED
      BY <3>3, <3>4
  <2>4. Right(i + 1) /\ Left(i + 1)
    BY <2>2, <2>3
  <2>5. QED
    BY <2>4 DEF S
<1>8. \A i \in Nat : i \in S
  <2> HIDE DEF S
  <2>1. QED
    BY <1>6, <1>7, Induction
<1>9. QED
  BY <1>8

\* utf8.offset of a well-formed string: the n-th character from its start and
\* from its end, the end itself and nothing outside, and the character that a
\* byte belongs to.
LEMMA OffsetFacts ==
  ASSUME NEW s \in Seq(Bytes), Valid(s)
  PROVE  LET starts == Starts(s)
             chars == Len(starts)
         IN /\ \A k \in 1..chars :
                 /\ byteoffset(s, k, 1) = [at |-> starts[k]]
                 /\ byteoffset(s, k - chars - 1, Len(s) + 1) = [at |-> starts[k]]
                 /\ \A b \in starts[k] .. starts[k] + CharLen(s, starts[k]) - 1 :
                      byteoffset(s, 0, b) = [at |-> starts[k]]
            /\ byteoffset(s, chars + 1, 1) = [at |-> Len(s) + 1]
            /\ byteoffset(s, chars + 2, 1) = [at |-> 0]
            /\ byteoffset(s, -chars - 1, Len(s) + 1) = [at |-> 0]
<1> DEFINE c == Starts(s)
           n == Len(c)
           L == Len(s)
           P(j) == Place(s, j)
           M == Move(s)
           I(k) == iscont(s, k)
           O(m, i) == byteoffset(s, m, i)
<1>1. n \in Nat /\ L \in Nat
  <2>1. c \in Seq(Nat)
    BY FromFacts
  <2>2. QED
    BY <2>1
<1>2. /\ P(1) = 1 /\ P(n + 1) = L + 1
      /\ \A j \in 1..n : P(j) = c[j] /\ P(j + 1) = P(j) + CharLen(s, P(j))
  BY PlaceFacts
<1>3. /\ \A j \in 1 .. n + 1 : P(j) \in 1 .. L + 1 /\ ~I(P(j) - 1)
      /\ \A j \in 1..n : P(j) < P(j + 1) /\ \A b \in P(j) + 1 .. P(j + 1) - 1 : I(b - 1)
  BY PlaceBytes
<1>4. \A j \in 1..n : \A b \in P(j) + 1 .. P(j + 1) : Back(s, b - 1) = P(j) - 1
  BY StepFacts
<1>5. \A i \in Nat, j \in 1 .. n + 1 :
        /\ M[i][P(j) - 1] = IF j + i <= n + 1 THEN P(j + i) ELSE 0
        /\ M[-i][P(j) - 1] = IF j - i >= 1 THEN P(j - i) ELSE 0
  BY MoveOverPlaces
<1>6. \A m, i : O(m, i) =
        IF u_posrelat(i, L) - 1 < 0 \/ u_posrelat(i, L) - 1 > L THEN Error
        ELSE IF m = 0
        THEN [at |-> 1 + IF I(u_posrelat(i, L) - 1) /\ u_posrelat(i, L) - 1 > 0
                         THEN Back(s, u_posrelat(i, L) - 1) ELSE u_posrelat(i, L) - 1]
        ELSE IF I(u_posrelat(i, L) - 1) THEN Error
        ELSE [at |-> M[IF m > 0 THEN m - 1 ELSE m][u_posrelat(i, L) - 1]]
  BY Zenon DEF byteoffset, Move, Moved
<1> SUFFICES /\ \A k \in 1..n :
                  /\ O(k, 1) = [at |-> c[k]]
                  /\ O(k - n - 1, L + 1) = [at |-> c[k]]
                  /\ \A b \in c[k] .. c[k] + CharLen(s, c[k]) - 1 : O(0, b) = [at |-> c[k]]
             /\ O(n + 1, 1) = [at |-> L + 1]
             /\ O(n + 2, 1) = [at |-> 0]
             /\ O(-n - 1, L + 1) = [at |-> 0]
  OBVIOUS
<1> HIDE DEF c, n, L, P, M, I, O
<1>7. ASSUME NEW m \in Int, NEW i \in 1 .. L + 1
      PROVE  /\ m = 0 => O(m, i) = [at |-> 1 + IF I(i - 1) /\ i - 1 > 0 THEN Back(s, i - 1) ELSE i - 1]
             /\ m # 0 /\ ~I(i - 1) => O(m, i) = [at |-> M[IF m > 0 THEN m - 1 ELSE m][i - 1]]
  <2>1. u_posrelat(i, L) = i /\ ~(i - 1 < 0 \/ i - 1 > L)
    BY <1>1 DEF u_posrelat
  <2>2. QED
    BY <1>6, <2>1, Zenon
<1>8. ASSUME NEW m \in 1 .. n + 2
      PROVE  O(m, 1) = [at |-> IF m <= n + 1 THEN P(m) ELSE 0]
  <2>1. /\ m \in Int /\ m # 0 /\ m > 0 /\ m - 1 \in Nat /\ 1 + (m - 1) = m
        /\ 1 \in 1 .. L + 1 /\ 1 \in 1 .. n + 1
    BY <1>1
  <2>2. ~I(1 - 1)
    <3>1. ~I(P(1) - 1)
      BY <1>3, <2>1
    <3>2. QED
      BY <1>2, <3>1
  <2>3. O(m, 1) = [at |-> M[m - 1][1 - 1]]
    BY <1>7, <2>1, <2>2
  <2>4. M[m - 1][P(1) - 1] = IF 1 + (m - 1) <= n + 1 THEN P(1 + (m - 1)) ELSE 0
    BY <1>5, <2>1
  <2>5. QED
    BY <1>2, <2>1, <2>3, <2>4, Zenon
<1>9. ASSUME NEW i \in 1 .. n + 1
      PROVE  O(-i, L + 1) = [at |-> IF (n + 1) - i >= 1 THEN P((n + 1) - i) ELSE 0]
  <2>1. /\ -i \in Int /\ -i # 0 /\ ~(-i > 0) /\ i \in Nat
        /\ L + 1 \in 1 .. L + 1 /\ n + 1 \in 1 .. n + 1
    BY <1>1
  <2>2. ~I((L + 1) - 1)
    <3>1. ~I(P(n + 1) - 1)
      BY <1>3, <2>1
    <3>2. QED
      BY <1>2, <3>1
  <2>3. O(-i, L + 1) = [at |-> M[-i][(L + 1) - 1]]
    BY <1>7, <2>1, <2>2
  <2>4. M[-i][P(n + 1) - 1] = IF (n + 1) - i >= 1 THEN P((n + 1) - i) ELSE 0
    BY <1>5, <2>1
  <2>5. QED
    BY <1>2, <2>1, <2>3, <2>4, Zenon
<1>10. ASSUME NEW j \in 1..n, NEW b \in P(j) .. P(j + 1) - 1
       PROVE  O(0, b) = [at |-> P(j)]
  <2>1. j \in 1 .. n + 1 /\ j + 1 \in 1 .. n + 1
    BY <1>1
  <2>2. P(j) \in 1 .. L + 1 /\ P(j + 1) \in 1 .. L + 1 /\ ~I(P(j) - 1) /\ P(j) < P(j + 1)
    BY <1>3, <2>1
  <2>3. b \in 1 .. L + 1 /\ 1 + (b - 1) = b
    BY <1>1, <2>2
  <2>4. O(0, b) = [at |-> 1 + IF I(b - 1) /\ b - 1 > 0 THEN Back(s, b - 1) ELSE b - 1]
    BY <1>7, <2>3
  <2>5. CASE b = P(j)
    BY <2>2, <2>3, <2>4, <2>5, Zenon
  <2>6. CASE b # P(j)
    <3>1. b \in P(j) + 1 .. P(j + 1) - 1 /\ b \in P(j) + 1 .. P(j + 1) /\ b - 1 > 0
          /\ 1 + (P(j) - 1) = P(j)
      BY <2>2, <2>3, <2>6
    <3>2. I(b - 1) /\ Back(s, b - 1) = P(j) - 1
      BY <1>3, <1>4, <3>1
    <3>3. QED
      BY <2>4, <3>1, <3>2, Zenon
  <2>7. QED
    BY <2>5, <2>6
<1>11. ASSUME NEW k \in 1..n
       PROVE  /\ O(k, 1) = [at |-> c[k]]
              /\ O(k - n - 1, L + 1) = [at |-> c[k]]
              /\ \A b \in c[k] .. c[k] + CharLen(s, c[k]) - 1 : O(0, b) = [at |-> c[k]]
  <2> DEFINE i == (n + 1) - k
  <2>1. /\ k \in 1 .. n + 2 /\ k <= n + 1 /\ i \in 1 .. n + 1
        /\ (n + 1) - i = k /\ k >= 1 /\ k - n - 1 = -i
    BY <1>1
  <2>2. P(k) = c[k] /\ P(k + 1) = c[k] + CharLen(s, c[k])
    BY <1>2
  <2> HIDE DEF i
  <2>3. O(k, 1) = [at |-> c[k]]
    BY <1>8, <2>1, <2>2
  <2>4. O(k - n - 1, L + 1) = [at |-> c[k]]
    BY <1>9, <2>1, <2>2
  <2>5. \A b \in P(k) .. P(k + 1) - 1 : O(0, b) = [at |-> P(k)]
    BY <1>10
  <2>6. (c[k] + CharLen(s, c[k])) - 1 = c[k] + CharLen(s, c[k]) - 1
    <3>1. Position(s, c[k])
      BY <1>2, PlaceFacts DEF c, n, P
    <3>2. c[k] \in Nat /\ CharLen(s, c[k]) \in Nat
      BY <3>1, LengthFacts, PositionFacts
    <3>3. QED
      BY <3>2
  <2>7. \A b \in c[k] .. c[k] + CharLen(s, c[k]) - 1 : O(0, b) = [at |-> c[k]]
    BY <2>2, <2>5, <2>6, Zenon
  <2>8. QED
    BY <2>3, <2>4, <2>7
<1>12. O(n + 1, 1) = [at |-> L + 1] /\ O(n + 2, 1) = [at |-> 0]
  <2>1. n + 1 \in 1 .. n + 2 /\ n + 1 <= n + 1 /\ n + 2 \in 1 .. n + 2 /\ ~(n + 2 <= n + 1)
    BY <1>1
  <2>2. QED
    BY <1>2, <1>8, <2>1
<1>13. O(-n - 1, L + 1) = [at |-> 0]
  <2>1. n + 1 \in 1 .. n + 1 /\ ~((n + 1) - (n + 1) >= 1) /\ -n - 1 = -(n + 1)
    BY <1>1
  <2>2. QED
    BY <1>9, <2>1
<1>14. QED
  BY <1>11, <1>12, <1>13

-----------------------------------------------------------------------------
(***************************************************************************)
(* char.  What is left of a code point after each byte is less than before,*)
(* so that the bytes are a function of it; those of each character are the *)
(* ones it was read from.                                                  *)
(***************************************************************************)
\* The bytes of y whose first byte has room up to mfb, when f has those of less.
Escaped(f, y, mfb) ==
  (IF y \div 64 > mfb \div 2 THEN f[y \div 64][mfb \div 2]
   ELSE << (254 - 2 * (mfb \div 2)) + (y \div 64) >>) \o << 128 + (y % 64) >>

\* The recursion of luaO_utf8esc.
Escape == CHOOSE esc : esc = [y \in Nat |-> [mfb \in Nat |-> Escaped(esc, y, mfb)]]

\* What a byte leaves, and how much of it fits.
LEMMA QuotientFacts ==
  \A y, mfb \in Nat :
    /\ y \div 64 \in Nat /\ mfb \div 2 \in Nat
    /\ y \div 64 > mfb \div 2 => y \div 64 < y
OBVIOUS

\* The bytes are what the recursion says.
LEMMA EscapeFacts ==
  \A y, mfb \in Nat : Escape[y][mfb] = Escaped(Escape, y, mfb)
<1> DEFINE Texts == Seq(Int)
           Row == [Nat -> Texts]
           Table == [Nat -> Row]
           Next(h) == [y \in Nat |-> [mfb \in Nat |-> Escaped(h, y, mfb)]]
           empty == [y \in Nat |-> [mfb \in Nat |-> <<>>]]
<1>1. empty \in Table
  OBVIOUS
<1>2. ASSUME NEW h \in Table, NEW y \in Nat, NEW mfb \in Nat PROVE Escaped(h, y, mfb) \in Texts
  <2> DEFINE rest == y \div 64
             fits == mfb \div 2
             r == IF rest > fits THEN h[rest][fits] ELSE << (254 - 2 * fits) + rest >>
             u == << 128 + (y % 64) >>
  <2>1. rest \in Nat /\ fits \in Nat
    BY QuotientFacts
  <2>2. h[rest][fits] \in Texts
    <3> HIDE DEF rest, fits, Texts
    <3>1. QED
      BY <2>1
  <2>3. (254 - 2 * fits) + rest \in Int /\ 128 + (y % 64) \in Int
    <3>1. y % 64 \in Int
      OBVIOUS
    <3> HIDE DEF rest, fits
    <3>2. QED
      BY <2>1, <3>1
  <2>4. r \in Seq(Int) /\ u \in Seq(Int)
    <3>1. \A x \in Int : <<x>> \in Seq(Int)
      OBVIOUS
    <3>2. << (254 - 2 * fits) + rest >> \in Seq(Int)
      <4> HIDE DEF rest, fits
      <4>1. QED
        BY <2>3, <3>1
    <3>3. u \in Seq(Int)
      BY <2>3, <3>1
    <3> HIDE DEF rest, fits, u
    <3>4. QED
      BY <2>2, <3>2, <3>3
  <2>5. Escaped(h, y, mfb) = r \o u
    BY DEF Escaped
  <2> HIDE DEF r, u
  <2>6. QED
    BY <2>4, <2>5, ConcatProperties
<1> HIDE DEF Texts
<1>3. ASSUME NEW h \in Table PROVE Next(h) \in Table
  <2>1. \A y, mfb \in Nat : Escaped(h, y, mfb) \in Texts
    BY <1>2
  <2>2. QED
    BY <2>1
<1>4. \A h : \A y, mfb \in Nat : Next(h)[y][mfb] = Escaped(h, y, mfb)
  OBVIOUS
<1>5. \A h \in Table, y \in Nat : h[y] = [mfb \in Nat |-> h[y][mfb]]
  OBVIOUS
<1> DEFINE next == [h \in Table |-> Next(h)]
<1>6. /\ \A h \in Table : next[h] = Next(h)
      /\ StepOn(Table, next)
  <2> HIDE DEF Table, Next
  <2>1. QED
    BY <1>3 DEF StepOn
<1> HIDE DEF Table, Next, empty, next
<1>7. PICK g : Iterates(Table, empty, next, g)
  BY <1>1, <1>6, PrimitiveRecursion
<1>8. \A n \in Nat : g[n] \in Table /\ g[n + 1] = Next(g[n])
  <2>1. \A n \in Nat : g[n] \in Table /\ g[n + 1] = next[g[n]]
    BY <1>7 DEF Iterates
  <2>2. QED
    BY <1>6, <2>1
\* After more steps than y the bytes of y are there to stay.
<1> DEFINE Same(z) == \A i, j \in Nat : i >= z /\ j >= z => g[i + 1][z] = g[j + 1][z]
           S == {y \in Nat : \A z \in 0..y : Same(z)}
<1>9. ASSUME NEW z \in Nat, \A x \in 0 .. z - 1 : Same(x)
      PROVE  Same(z)
  <2> SUFFICES ASSUME NEW i \in Nat, NEW j \in Nat, i >= z, j >= z
               PROVE  g[i + 1][z] = g[j + 1][z]
    OBVIOUS
  <2>1. ASSUME NEW mfb \in Nat PROVE g[i + 1][z][mfb] = g[j + 1][z][mfb]
    <3> DEFINE rest == z \div 64
               fits == mfb \div 2
    <3>1. rest \in Nat /\ fits \in Nat /\ (rest > fits => rest < z)
      BY QuotientFacts
    <3>2. rest > fits => g[i][rest] = g[j][rest]
      <4> HIDE DEF rest, fits
      <4> SUFFICES ASSUME rest > fits PROVE g[i][rest] = g[j][rest]
        OBVIOUS
      <4>1. rest \in 0 .. z - 1 /\ i - 1 \in Nat /\ j - 1 \in Nat /\ i - 1 >= rest /\ j - 1 >= rest
        BY <3>1
      <4>2. g[(i - 1) + 1][rest] = g[(j - 1) + 1][rest]
        BY <1>9, <4>1
      <4>3. (i - 1) + 1 = i /\ (j - 1) + 1 = j
        OBVIOUS
      <4>4. QED
        BY <4>2, <4>3
    <3>3. Escaped(g[i], z, mfb) = Escaped(g[j], z, mfb)
      BY <3>2, Zenon DEF Escaped
    <3>4. g[i + 1][z][mfb] = Escaped(g[i], z, mfb) /\ g[j + 1][z][mfb] = Escaped(g[j], z, mfb)
      <4>1. g[i + 1] = Next(g[i]) /\ g[j + 1] = Next(g[j])
        BY <1>8
      <4>2. QED
        BY <1>4, <4>1
    <3>5. QED
      BY <3>3, <3>4
  <2>2. /\ g[i + 1][z] = [mfb \in Nat |-> g[i + 1][z][mfb]]
        /\ g[j + 1][z] = [mfb \in Nat |-> g[j + 1][z][mfb]]
    <3>1. i + 1 \in Nat /\ j + 1 \in Nat
      OBVIOUS
    <3>2. QED
      BY <1>5, <1>8, <3>1
  <2>3. [mfb \in Nat |-> g[i + 1][z][mfb]] = [mfb \in Nat |-> g[j + 1][z][mfb]]
    BY <2>1
  <2>4. QED
    BY <2>2, <2>3, Zenon
<1> HIDE DEF Same
<1>10. \A z \in Nat : Same(z)
  <2>1. 0 \in S
    <3>1. \A x \in 0 .. 0 - 1 : Same(x)
      OBVIOUS
    <3>2. Same(0) /\ \A x \in 0..0 : x = 0
      BY <1>9, <3>1
    <3>3. QED
      BY <3>2
  <2>2. ASSUME NEW y \in Nat, y \in S PROVE y + 1 \in S
    <3>1. \A x \in 0 .. (y + 1) - 1 : Same(x)
      BY <2>2
    <3>2. Same(y + 1)
      BY <1>9, <3>1
    <3>3. \A x \in 0 .. y + 1 : x = y + 1 \/ x \in 0 .. (y + 1) - 1
      OBVIOUS
    <3>4. QED
      BY <3>1, <3>2, <3>3
  <2>3. \A y \in Nat : y \in S
    <3> HIDE DEF S
    <3>1. QED
      BY <2>1, <2>2, Induction
  <2>4. \A y \in Nat : y \in 0..y
    OBVIOUS
  <2>5. QED
    BY <2>3, <2>4
<1> DEFINE w == [y \in Nat |-> g[y + 1][y]]
<1>11. ASSUME NEW y \in Nat PROVE w[y] = [mfb \in Nat |-> Escaped(w, y, mfb)]
  <2>1. w[y] = g[y + 1][y] /\ y + 1 \in Nat
    OBVIOUS
  <2>2. ASSUME NEW mfb \in Nat PROVE g[y + 1][y][mfb] = Escaped(w, y, mfb)
    <3> DEFINE rest == y \div 64
               fits == mfb \div 2
    <3>1. rest \in Nat /\ fits \in Nat /\ (rest > fits => rest < y)
      BY QuotientFacts
    <3>2. rest > fits => g[y][rest] = w[rest]
      <4> HIDE DEF rest, fits
      <4> SUFFICES ASSUME rest > fits PROVE g[y][rest] = w[rest]
        OBVIOUS
      <4>1. y - 1 \in Nat /\ y - 1 >= rest /\ rest >= rest /\ (y - 1) + 1 = y
        BY <3>1
      <4>2. g[(y - 1) + 1][rest] = g[rest + 1][rest]
        BY <1>10, <3>1, <4>1 DEF Same
      <4>3. w[rest] = g[rest + 1][rest]
        BY <3>1
      <4>4. QED
        BY <4>1, <4>2, <4>3, Zenon
    <3> HIDE DEF w
    <3>3. Escaped(g[y], y, mfb) = Escaped(w, y, mfb)
      BY <3>2, Zenon DEF Escaped
    <3>4. g[y + 1][y][mfb] = Escaped(g[y], y, mfb)
      BY <1>4, <1>8
    <3>5. QED
      BY <3>3, <3>4
  <2>3. g[y + 1][y] = [mfb \in Nat |-> g[y + 1][y][mfb]]
    BY <1>5, <1>8, <2>1
  <2> HIDE DEF w
  <2>4. QED
    BY <2>1, <2>2, <2>3, Zenon
<1>12. w = [y \in Nat |-> w[y]]
  OBVIOUS
<1> HIDE DEF w
<1>13. w = [y \in Nat |-> [mfb \in Nat |-> Escaped(w, y, mfb)]]
  BY <1>11, <1>12, Zenon
<1>14. Escape = [y \in Nat |-> [mfb \in Nat |-> Escaped(Escape, y, mfb)]]
  BY <1>13, Zenon DEF Escape
<1>15. \A y \in Nat : Escape[y] = [mfb \in Nat |-> Escaped(Escape, y, mfb)]
  BY <1>14, Zenon
<1>16. QED
  BY <1>15, Zenon

\* Byte x behind the bytes t, the last byte of y, the first one when r is left
\* and f fits, and what is left of y and of the room mfb.
Joined(t, x) == t \o <<x>>
TwoBytes(a, b) == <<a, b>>
ThreeBytes(a, b, c) == <<a, b, c>>
FourBytes(a, b, c, e) == <<a, b, c, e>>
LastByte(y) == 128 + (y % 64)
FirstOf(f, r) == (254 - 2 * f) + r
Leaves(y, mfb, r, f) == y \div 64 = r /\ mfb \div 2 = f

\* One more at the end of a tuple.
LEMMA TupleFacts ==
  ASSUME NEW a \in Int, NEW b \in Int, NEW c \in Int, NEW e \in Int
  PROVE  /\ Joined(<<a>>, b) = TwoBytes(a, b)
         /\ Joined(TwoBytes(a, b), c) = ThreeBytes(a, b, c)
         /\ Joined(ThreeBytes(a, b, c), e) = FourBytes(a, b, c, e)
<1>1. ASSUME NEW s \in Seq(Int), NEW x \in Int
      PROVE  /\ s \o <<x>> \in Seq(Int) /\ Len(s \o <<x>>) = Len(s) + 1
             /\ (s \o <<x>>)[Len(s) + 1] = x
             /\ \A i \in 1 .. Len(s) : (s \o <<x>>)[i] = s[i]
  <2> DEFINE t == s \o <<x>>
  <2>1. <<x>> \in Seq(Int) /\ Len(<<x>>) = 1 /\ <<x>>[1] = x /\ Len(s) \in Nat
    OBVIOUS
  <2>2. /\ t \in Seq(Int) /\ Len(t) = Len(s) + 1
        /\ \A i \in 1 .. Len(s) + 1 : t[i] = IF i <= Len(s) THEN s[i] ELSE <<x>>[i - Len(s)]
    BY <2>1, ConcatProperties
  <2> SUFFICES t \in Seq(Int) /\ Len(t) = Len(s) + 1 /\ t[Len(s) + 1] = x
               /\ \A i \in 1 .. Len(s) : t[i] = s[i]
    OBVIOUS
  <2> HIDE DEF t
  <2>3. (Len(s) + 1) - Len(s) = 1 /\ ~(Len(s) + 1 <= Len(s)) /\ Len(s) + 1 \in 1 .. Len(s) + 1
    BY <2>1
  <2>4. t[Len(s) + 1] = x
    BY <2>1, <2>2, <2>3
  <2>5. QED
    BY <2>1, <2>2, <2>4
<1>2. /\ <<a>> \in Seq(Int) /\ Len(<<a>>) = 1 /\ <<a>>[1] = a
      /\ <<a, b>> \in Seq(Int) /\ Len(<<a, b>>) = 2 /\ <<a, b>>[1] = a /\ <<a, b>>[2] = b
  OBVIOUS
<1>3. /\ <<a, b, c>> \in Seq(Int) /\ Len(<<a, b, c>>) = 3
      /\ <<a, b, c>>[1] = a /\ <<a, b, c>>[2] = b /\ <<a, b, c>>[3] = c
  OBVIOUS
<1>4. /\ <<a, b, c, e>> \in Seq(Int) /\ Len(<<a, b, c, e>>) = 4
      /\ <<a, b, c, e>>[1] = a /\ <<a, b, c, e>>[2] = b
      /\ <<a, b, c, e>>[3] = c /\ <<a, b, c, e>>[4] = e
  OBVIOUS
<1>5. <<a>> \o <<b>> = <<a, b>>
  <2> DEFINE s == <<a>>
             t == s \o <<b>>
             u == <<a, b>>
  <2>1. t \in Seq(Int) /\ Len(t) = Len(s) + 1 /\ t[Len(s) + 1] = b
        /\ \A i \in 1 .. Len(s) : t[i] = s[i]
    BY <1>1, <1>2
  <2>2. s[1] = a /\ Len(s) = 1 /\ u \in Seq(Int) /\ Len(u) = 2 /\ u[1] = a /\ u[2] = b
    BY <1>2
  <2> SUFFICES t = u
    OBVIOUS
  <2> HIDE DEF s, t, u
  <2>3. t[1] = a /\ t[2] = b /\ Len(t) = 2
    BY <2>1, <2>2
  <2>4. \A i \in 1 .. Len(t) : t[i] = u[i]
    BY <2>2, <2>3
  <2>5. QED
    BY <2>1, <2>2, <2>3, <2>4, SeqEqual
<1>6. <<a, b>> \o <<c>> = <<a, b, c>>
  <2> DEFINE s == <<a, b>>
             t == s \o <<c>>
             u == <<a, b, c>>
  <2>1. t \in Seq(Int) /\ Len(t) = Len(s) + 1 /\ t[Len(s) + 1] = c
        /\ \A i \in 1 .. Len(s) : t[i] = s[i]
    BY <1>1, <1>2
  <2>2. /\ s[1] = a /\ s[2] = b /\ Len(s) = 2
        /\ u \in Seq(Int) /\ Len(u) = 3 /\ u[1] = a /\ u[2] = b /\ u[3] = c
    BY <1>2, <1>3
  <2> SUFFICES t = u
    OBVIOUS
  <2> HIDE DEF s, t, u
  <2>3. t[1] = a /\ t[2] = b /\ t[3] = c /\ Len(t) = 3
    BY <2>1, <2>2
  <2>4. \A i \in 1 .. Len(t) : t[i] = u[i]
    BY <2>2, <2>3
  <2>5. QED
    BY <2>1, <2>2, <2>3, <2>4, SeqEqual
<1>7. <<a, b, c>> \o <<e>> = <<a, b, c, e>>
  <2> DEFINE s == <<a, b, c>>
             t == s \o <<e>>
             u == <<a, b, c, e>>
  <2>1. t \in Seq(Int) /\ Len(t) = Len(s) + 1 /\ t[Len(s) + 1] = e
        /\ \A i \in 1 .. Len(s) : t[i] = s[i]
    BY <1>1, <1>3
  <2>2. /\ s[1] = a /\ s[2] = b /\ s[3] = c /\ Len(s) = 3
        /\ u \in Seq(Int) /\ Len(u) = 4 /\ u[1] = a /\ u[2] = b /\ u[3] = c /\ u[4] = e
    BY <1>3, <1>4
  <2> SUFFICES t = u
    OBVIOUS
  <2> HIDE DEF s, t, u
  <2>3. t[1] = a /\ t[2] = b /\ t[3] = c /\ t[4] = e /\ Len(t) = 4
    BY <2>1, <2>2
  <2>4. \A i \in 1 .. Len(t) : t[i] = u[i]
    BY <2>2, <2>3
  <2>5. QED
    BY <2>1, <2>2, <2>3, <2>4, SeqEqual
<1>8. QED
  BY <1>5, <1>6, <1>7, Zenon DEF Joined, TwoBytes, ThreeBytes, FourBytes

\* One byte of y, when r is left of it and f fits in the first byte: the last of
\* more, or the second of two.
LEMMA EscapeStep ==
  ASSUME NEW y \in Nat, NEW mfb \in Nat, NEW r \in Nat, NEW f \in Nat, Leaves(y, mfb, r, f)
  PROVE  /\ r > f => Escape[y][mfb] = Joined(Escape[r][f], LastByte(y))
         /\ ~(r > f) => Escape[y][mfb] = TwoBytes(FirstOf(f, r), LastByte(y))
<1> DEFINE x == LastByte(y)
           z == FirstOf(f, r)
<1>1. Escape[y][mfb] = Escaped(Escape, y, mfb)
  BY EscapeFacts
<1>2. Escaped(Escape, y, mfb) = Joined(IF r > f THEN Escape[r][f] ELSE <<z>>, x)
  BY Zenon DEF Escaped, Joined, Leaves, LastByte, FirstOf
<1>3. x \in Int /\ z \in Int
  BY DEF LastByte, FirstOf
<1> HIDE DEF x, z
<1>4. Joined(<<z>>, x) = TwoBytes(z, x)
  BY <1>3, TupleFacts
<1>5. /\ r > f => Escape[y][mfb] = Joined(Escape[r][f], x)
      /\ ~(r > f) => Escape[y][mfb] = TwoBytes(z, x)
  BY <1>1, <1>2, <1>4, Zenon
<1>6. QED
  BY <1>5, Zenon DEF x, z

\* The bytes of a code point of each length, when u, v and w are left of it.
LEMMA EscapedParts ==
  ASSUME NEW x \in Nat, NEW u \in Nat, NEW v \in Nat, NEW w \in Nat,
         Leaves(x, 63, u, 31), Leaves(u, 31, v, 15), Leaves(v, 15, w, 7)
  PROVE  /\ x < 128 => luaO_utf8esc(x) = <<x>>
         /\ 128 <= x /\ u <= 31 => luaO_utf8esc(x) = TwoBytes(192 + u, LastByte(x))
         /\ 128 <= x /\ u > 31 /\ v <= 15 =>
              luaO_utf8esc(x) = ThreeBytes(224 + v, LastByte(u), LastByte(x))
         /\ 128 <= x /\ u > 31 /\ v > 15 /\ w <= 7 =>
              luaO_utf8esc(x) = FourBytes(240 + w, LastByte(v), LastByte(u), LastByte(x))
<1> DEFINE u1 == 192 + u
           v1 == 224 + v
           w1 == 240 + w
<1>1. luaO_utf8esc(x) = IF x < 128 THEN <<x>> ELSE Escape[x][63]
  BY Zenon DEF luaO_utf8esc, Escape, Escaped
<1>2. /\ LastByte(x) \in Int /\ LastByte(u) \in Int /\ LastByte(v) \in Int
      /\ u1 \in Int /\ v1 \in Int /\ w1 \in Int
  BY DEF LastByte
<1>3. \A a, b, c, e \in Int : /\ Joined(TwoBytes(a, b), c) = ThreeBytes(a, b, c)
                              /\ Joined(ThreeBytes(a, b, c), e) = FourBytes(a, b, c, e)
  BY TupleFacts
<1>4. FirstOf(31, u) = u1 /\ FirstOf(15, v) = v1 /\ FirstOf(7, w) = w1
  BY DEF FirstOf
<1>5. /\ u > 31 => Escape[x][63] = Joined(Escape[u][31], LastByte(x))
      /\ ~(u > 31) => Escape[x][63] = TwoBytes(FirstOf(31, u), LastByte(x))
      /\ v > 15 => Escape[u][31] = Joined(Escape[v][15], LastByte(u))
      /\ ~(v > 15) => Escape[u][31] = TwoBytes(FirstOf(15, v), LastByte(u))
      /\ ~(w > 7) => Escape[v][15] = TwoBytes(FirstOf(7, w), LastByte(v))
  <2> HIDE DEF u1, v1, w1
  <2>1. 63 \in Nat /\ 31 \in Nat /\ 15 \in Nat /\ 7 \in Nat
    OBVIOUS
  <2>2. QED
    BY <2>1, EscapeStep
<1>6. /\ u > 31 => Escape[x][63] = Joined(Escape[u][31], LastByte(x))
      /\ ~(u > 31) => Escape[x][63] = TwoBytes(u1, LastByte(x))
  BY <1>4, <1>5, Zenon
<1>7. /\ v > 15 => Escape[u][31] = Joined(Escape[v][15], LastByte(u))
      /\ ~(v > 15) => Escape[u][31] = TwoBytes(v1, LastByte(u))
  BY <1>4, <1>5, Zenon
<1>8. ~(w > 7) => Escape[v][15] = TwoBytes(w1, LastByte(v))
  BY <1>4, <1>5, Zenon
<1> HIDE DEF u1, v1, w1
<1>9. /\ Joined(TwoBytes(v1, LastByte(u)), LastByte(x)) = ThreeBytes(v1, LastByte(u), LastByte(x))
      /\ Joined(TwoBytes(w1, LastByte(v)), LastByte(u)) = ThreeBytes(w1, LastByte(v), LastByte(u))
      /\ Joined(ThreeBytes(w1, LastByte(v), LastByte(u)), LastByte(x))
           = FourBytes(w1, LastByte(v), LastByte(u), LastByte(x))
  BY <1>2, <1>3
<1>10. ASSUME 128 <= x, u <= 31 PROVE luaO_utf8esc(x) = TwoBytes(u1, LastByte(x))
  <2>1. ~(x < 128) /\ ~(u > 31)
    BY <1>10
  <2>2. QED
    BY <1>1, <1>6, <2>1, Zenon
<1>11. ASSUME 128 <= x, u > 31, v <= 15
       PROVE  luaO_utf8esc(x) = ThreeBytes(v1, LastByte(u), LastByte(x))
  <2>1. ~(x < 128) /\ u > 31 /\ ~(v > 15)
    BY <1>11
  <2>2. Escape[u][31] = TwoBytes(v1, LastByte(u))
    BY <1>7, <2>1, Zenon
  <2>3. Escape[x][63] = ThreeBytes(v1, LastByte(u), LastByte(x))
    BY <1>6, <1>9, <2>1, <2>2, Zenon
  <2>4. QED
    BY <1>1, <2>1, <2>3, Zenon
<1>12. ASSUME 128 <= x, u > 31, v > 15, w <= 7
       PROVE  luaO_utf8esc(x) = FourBytes(w1, LastByte(v), LastByte(u), LastByte(x))
  <2>1. ~(x < 128) /\ u > 31 /\ v > 15 /\ ~(w > 7)
    BY <1>12
  <2>2. Escape[v][15] = TwoBytes(w1, LastByte(v))
    BY <1>8, <2>1, Zenon
  <2>3. Escape[u][31] = ThreeBytes(w1, LastByte(v), LastByte(u))
    BY <1>7, <1>9, <2>1, <2>2, Zenon
  <2>4. Escape[x][63] = FourBytes(w1, LastByte(v), LastByte(u), LastByte(x))
    BY <1>6, <1>9, <2>1, <2>3, Zenon
  <2>5. QED
    BY <1>1, <2>1, <2>4, Zenon
<1>13. x < 128 => luaO_utf8esc(x) = <<x>>
  BY <1>1
<1>14. QED
  BY <1>10, <1>11, <1>12, <1>13, Zenon DEF u1, v1, w1

\* Six bits more are the last byte, and what was there before is left.
LEMMA SixBits ==
  ASSUME NEW q \in Nat, NEW b \in Tail_
  PROVE  /\ q * 64 + (b - 128) \in Nat
         /\ (q * 64 + (b - 128)) \div 64 = q
         /\ LastByte(q * 64 + (b - 128)) = b
BY DEF Tail_, LastByte

\* The greatest code point is a number.
LEMMA MaxFact == MAXUNICODE \in Nat /\ 127 <= MAXUNICODE
BY SMT DEF MAXUNICODE

\* Two bytes.
LEMMA TwoBack ==
  ASSUME NEW a, NEW b, Two(a, b), NEW x, x = TwoBits(a, b)
  PROVE  x \in 0..MAXUNICODE /\ luaO_utf8esc(x) = TwoBytes(a, b)
<1> DEFINE u == a - 192
<1>1. a \in 194..223 /\ b \in Tail_
  BY DEF Two
<1>2. u \in 2..31 /\ u \in Nat /\ 192 + u = a
  BY <1>1
<1>3. x = u * 64 + (b - 128)
  <2>1. (a * 2) % 128 = (a - 192) * 2 /\ b % 64 = b - 128
    BY <1>1 DEF Tail_
  <2>2. QED
    BY <1>1, <2>1, SMT DEF Tail_, TwoBits
<1>4. x \in Nat /\ x \div 64 = u /\ LastByte(x) = b
  BY <1>1, <1>2, <1>3, SixBits
<1> HIDE DEF u
<1>5. 128 <= x /\ x <= MAXUNICODE
  BY <1>1, <1>2, <1>3, SMT DEF Tail_, MAXUNICODE
<1>6. 0 \in Nat /\ u \div 64 = 0 /\ 0 \div 64 = 0 /\ 63 \div 2 = 31 /\ 31 \div 2 = 15 /\ 15 \div 2 = 7
  BY <1>2
<1>7. Leaves(x, 63, u, 31) /\ Leaves(u, 31, 0, 15) /\ Leaves(0, 15, 0, 7)
  BY <1>4, <1>6, Zenon DEF Leaves
<1>8. u <= 31
  BY <1>2
<1>9. luaO_utf8esc(x) = TwoBytes(192 + u, LastByte(x))
  BY <1>2, <1>4, <1>5, <1>6, <1>7, <1>8, EscapedParts
<1>10. x \in 0..MAXUNICODE
  BY <1>4, <1>5, MaxFact
<1>11. QED
  BY <1>2, <1>4, <1>9, <1>10, Zenon

\* Three.
LEMMA ThreeBack ==
  ASSUME NEW a, NEW b, NEW c, Three(a, b, c),
         NEW x, x = ThreeBits(a, b, c)
  PROVE  x \in 0..MAXUNICODE /\ luaO_utf8esc(x) = ThreeBytes(a, b, c)
<1> DEFINE v == a - 224
           u == v * 64 + (b - 128)
<1>1. a \in 224..239 /\ b \in Tail_ /\ c \in Tail_ /\ (a = 224 => b >= 160)
  BY DEF Three
<1>2. v \in 0..15 /\ v \in Nat /\ 224 + v = a /\ (v = 0 => b >= 160)
  BY <1>1
<1>3. x = u * 64 + (c - 128)
  <2>1. (a * 4) % 128 = (a - 224) * 4 /\ b % 64 = b - 128 /\ c % 64 = c - 128
    BY <1>1 DEF Tail_
  <2>2. QED
    BY <1>1, <2>1, SMT DEF Tail_, ThreeBits
<1>4. u \in Nat /\ u \div 64 = v /\ LastByte(u) = b
  <2> HIDE DEF v
  <2>1. QED
    BY <1>1, <1>2, SixBits
<1>5. u > 31 /\ u <= 1023
  <2> HIDE DEF v
  <2>1. QED
    BY <1>1, <1>2 DEF Tail_
<1> HIDE DEF u, v
<1>6. x \in Nat /\ x \div 64 = u /\ LastByte(x) = c
  BY <1>1, <1>3, <1>4, SixBits
<1>7. 128 <= x /\ x <= MAXUNICODE
  BY <1>1, <1>3, <1>4, <1>5, SMT DEF Tail_, MAXUNICODE
<1>8. 0 \in Nat /\ v \div 64 = 0 /\ 63 \div 2 = 31 /\ 31 \div 2 = 15 /\ 15 \div 2 = 7
  BY <1>2
<1>9. Leaves(x, 63, u, 31) /\ Leaves(u, 31, v, 15) /\ Leaves(v, 15, 0, 7)
  BY <1>4, <1>6, <1>8, Zenon DEF Leaves
<1>10. v <= 15
  BY <1>2
<1>11. luaO_utf8esc(x) = ThreeBytes(224 + v, LastByte(u), LastByte(x))
  BY <1>2, <1>4, <1>5, <1>6, <1>7, <1>8, <1>9, <1>10, EscapedParts
<1>12. x \in 0..MAXUNICODE
  BY <1>6, <1>7, MaxFact
<1>13. QED
  BY <1>2, <1>4, <1>6, <1>11, <1>12, Zenon

\* Four.
LEMMA FourBack ==
  ASSUME NEW a, NEW b, NEW c, NEW e, Four(a, b, c, e),
         NEW x, x = FourBits(a, b, c, e)
  PROVE  x \in 0..MAXUNICODE /\ luaO_utf8esc(x) = FourBytes(a, b, c, e)
<1> DEFINE w == a - 240
           v == w * 64 + (b - 128)
           u == v * 64 + (c - 128)
<1>1. /\ a \in 240..244 /\ b \in Tail_ /\ c \in Tail_ /\ e \in Tail_
      /\ (a = 240 => b >= 144) /\ (a = 244 => b <= 143)
  BY DEF Four
<1>2. w \in 0..4 /\ w \in Nat /\ 240 + w = a /\ (w = 0 => b >= 144) /\ (w = 4 => b <= 143)
  BY <1>1
<1>3. x = u * 64 + (e - 128)
  <2>1. /\ (a * 8) % 128 = (a - 240) * 8
        /\ b % 64 = b - 128 /\ c % 64 = c - 128 /\ e % 64 = e - 128
    BY <1>1 DEF Tail_
  <2>2. QED
    BY <1>1, <2>1, SMT DEF Tail_, FourBits
<1>4. v \in Nat /\ v \div 64 = w /\ LastByte(v) = b
  <2> HIDE DEF w
  <2>1. QED
    BY <1>1, <1>2, SixBits
<1>5. v > 15 /\ v <= 271
  <2> HIDE DEF w
  <2>1. QED
    BY <1>1, <1>2 DEF Tail_
<1> HIDE DEF w, v
<1>6. u \in Nat /\ u \div 64 = v /\ LastByte(u) = c
  BY <1>1, <1>4, SixBits
<1>7. u > 31 /\ u <= 17407
  BY <1>1, <1>4, <1>5, SMT DEF Tail_
<1> HIDE DEF u
<1>8. x \in Nat /\ x \div 64 = u /\ LastByte(x) = e
  BY <1>1, <1>3, <1>6, SixBits
<1>9. 128 <= x /\ x <= MAXUNICODE
  BY <1>1, <1>3, <1>6, <1>7, SMT DEF Tail_, MAXUNICODE
<1>10. 63 \div 2 = 31 /\ 31 \div 2 = 15 /\ 15 \div 2 = 7
  OBVIOUS
<1>11. Leaves(x, 63, u, 31) /\ Leaves(u, 31, v, 15) /\ Leaves(v, 15, w, 7)
  BY <1>4, <1>6, <1>8, <1>10, Zenon DEF Leaves
<1>12. w <= 7
  BY <1>2
<1>13. luaO_utf8esc(x) = FourBytes(240 + w, LastByte(v), LastByte(u), LastByte(x))
  BY <1>2, <1>4, <1>5, <1>6, <1>7, <1>8, <1>9, <1>11, <1>12, EscapedParts
<1>14. x \in 0..MAXUNICODE
  BY <1>8, <1>9, MaxFact
<1>15. QED
  <2>1. FourBytes(240 + w, LastByte(v), LastByte(u), LastByte(x)) = FourBytes(a, b, c, e)
    BY <1>2, <1>4, <1>6, <1>8, Zenon
  <2>2. QED
    BY <1>13, <1>14, <2>1, Zenon

\* Every character is written as the bytes it was read from.
LEMMA CharacterBack ==
  ASSUME NEW s, NEW p, Position(s, p), CharLen(s, p) # 0
  PROVE  /\ Code(s, p) \in 0..MAXUNICODE
         /\ luaO_utf8esc(Code(s, p)) = SubSeq(s, p, p + CharLen(s, p) - 1)
<1> DEFINE n == CharLen(s, p)
           x == Code(s, p)
           t == SubSeq(s, p, p + n - 1)
           a == s[p]
           b == s[p + 1]
           c == s[p + 2]
           e == s[p + 3]
<1>1. n \in 1..4 /\ p + n - 1 <= Len(s) /\ Character(s, p, n)
  BY LengthFacts
<1>2. p \in Nat /\ 1 <= p /\ Len(s) \in Nat /\ \A k \in 1 .. Len(s) : s[k] \in Bytes
  BY PositionFacts
<1>3. x = Bits(s, p, n)
  BY DecodeFacts DEF Code
<1>4. /\ n = 1 => One(a) /\ x = a
      /\ n = 2 => Two(a, b) /\ x = TwoBits(a, b)
      /\ n = 3 => Three(a, b, c) /\ x = ThreeBits(a, b, c)
      /\ n = 4 => Four(a, b, c, e) /\ x = FourBits(a, b, c, e)
  <2>1. /\ n = 1 => One(a)
        /\ n = 2 => Two(a, b)
        /\ n = 3 => Three(a, b, c)
        /\ n = 4 => Four(a, b, c, e)
    BY <1>1, FourLengths
  <2>2. /\ n = 1 => x = a
        /\ n = 2 => x = TwoBits(a, b)
        /\ n = 3 => x = ThreeBits(a, b, c)
        /\ n = 4 => x = FourBits(a, b, c, e)
    <3> HIDE DEF n, x
    <3>1. QED
      BY <1>3 DEF Bits
  <2>3. QED
    BY <2>1, <2>2, Zenon
<1>5. t \in Seq(Bytes) /\ Len(t) = n /\ \A i \in 1..n : t[i] = s[p + i - 1]
  <2> DEFINE m == p + n - 1
  <2>1. m \in Int /\ p \in Int /\ p <= m /\ m - p + 1 = n /\ p .. m \subseteq 1 .. Len(s)
    <3> HIDE DEF n
    <3>1. QED
      BY <1>1, <1>2
  <2>2. \A i \in p .. m : s[i] \in Bytes
    BY <1>2, <2>1
  <2> HIDE DEF m, n
  <2>3. /\ SubSeq(s, p, m) \in Seq(Bytes)
        /\ Len(SubSeq(s, p, m)) = IF p <= m THEN m - p + 1 ELSE 0
        /\ \A i \in 1 .. m - p + 1 : SubSeq(s, p, m)[i] = s[p + i - 1]
    BY <2>1, <2>2, SubSeqProperties
  <2>4. QED
    BY <2>1, <2>3 DEF m
<1>6. SUFFICES x \in 0..MAXUNICODE /\ luaO_utf8esc(x) = t
  OBVIOUS
<1> HIDE DEF n, x, t
<1>7. /\ t[1] = a
      /\ n >= 2 => t[2] = b
      /\ n >= 3 => t[3] = c
      /\ n >= 4 => t[4] = e
  BY <1>1, <1>2, <1>5
<1>8. /\ a \in Bytes /\ (n >= 2 => b \in Bytes) /\ (n >= 3 => c \in Bytes)
      /\ (n >= 4 => e \in Bytes)
  BY <1>1, <1>2
<1> HIDE DEF a, b, c, e
<1>9. CASE n = 1
  <2>1. One(a) /\ x = a
    BY <1>4, <1>9, Zenon
  <2>2. x \in 0..127
    BY <2>1 DEF One
  <2>3. luaO_utf8esc(x) = <<x>>
    <3>1. x < 128 /\ x \in Nat
      BY <2>2
    <3>2. QED
      BY <3>1, Zenon DEF luaO_utf8esc
  <2>4. <<x>> = t
    <3>1. <<x>> \in Seq(Bytes) /\ Len(<<x>>) = 1 /\ <<x>>[1] = x
      BY <1>8, <2>1
    <3>2. \A i \in 1 .. 1 : i = 1
      OBVIOUS
    <3>3. QED
      BY <1>5, <1>7, <1>9, <2>1, <3>1, <3>2, SeqEqual
  <2>5. x \in 0..MAXUNICODE
    <3>1. x <= 127 /\ x \in Nat
      BY <2>2
    <3>2. QED
      BY <3>1, MaxFact
  <2>6. QED
    BY <2>3, <2>4, <2>5
<1>10. CASE n = 2
  <2>1. x \in 0..MAXUNICODE /\ luaO_utf8esc(x) = TwoBytes(a, b)
    BY <1>4, <1>10, TwoBack
  <2>2. t[1] = a /\ t[2] = b /\ a \in Bytes /\ b \in Bytes
    BY <1>7, <1>8, <1>10
  <2>3. TwoBytes(a, b) \in Seq(Bytes) /\ Len(TwoBytes(a, b)) = 2
        /\ TwoBytes(a, b)[1] = a /\ TwoBytes(a, b)[2] = b
    BY <2>2 DEF TwoBytes
  <2>4. \A i \in 1..2 : TwoBytes(a, b)[i] = t[i]
    BY <2>2, <2>3
  <2>5. TwoBytes(a, b) = t
    BY <1>5, <1>10, <2>3, <2>4, SeqEqual
  <2>6. QED
    BY <2>1, <2>5
<1>11. CASE n = 3
  <2>1. x \in 0..MAXUNICODE /\ luaO_utf8esc(x) = ThreeBytes(a, b, c)
    BY <1>4, <1>11, ThreeBack
  <2>2. t[1] = a /\ t[2] = b /\ t[3] = c /\ a \in Bytes /\ b \in Bytes /\ c \in Bytes
    BY <1>7, <1>8, <1>11
  <2>3. ThreeBytes(a, b, c) \in Seq(Bytes) /\ Len(ThreeBytes(a, b, c)) = 3
        /\ ThreeBytes(a, b, c)[1] = a /\ ThreeBytes(a, b, c)[2] = b /\ ThreeBytes(a, b, c)[3] = c
    BY <2>2 DEF ThreeBytes
  <2>4. \A i \in 1..3 : ThreeBytes(a, b, c)[i] = t[i]
    BY <2>2, <2>3
  <2>5. ThreeBytes(a, b, c) = t
    BY <1>5, <1>11, <2>3, <2>4, SeqEqual
  <2>6. QED
    BY <2>1, <2>5
<1>12. CASE n = 4
  <2>1. x \in 0..MAXUNICODE /\ luaO_utf8esc(x) = FourBytes(a, b, c, e)
    BY <1>4, <1>12, FourBack
  <2>2. /\ t[1] = a /\ t[2] = b /\ t[3] = c /\ t[4] = e
        /\ a \in Bytes /\ b \in Bytes /\ c \in Bytes /\ e \in Bytes
    BY <1>7, <1>8, <1>12
  <2>3. FourBytes(a, b, c, e) \in Seq(Bytes) /\ Len(FourBytes(a, b, c, e)) = 4
        /\ FourBytes(a, b, c, e)[1] = a /\ FourBytes(a, b, c, e)[2] = b
        /\ FourBytes(a, b, c, e)[3] = c /\ FourBytes(a, b, c, e)[4] = e
    BY <2>2 DEF FourBytes
  <2>4. \A i \in 1..4 : FourBytes(a, b, c, e)[i] = t[i]
    BY <2>2, <2>3
  <2>5. FourBytes(a, b, c, e) = t
    BY <1>5, <1>12, <2>3, <2>4, SeqEqual
  <2>6. QED
    BY <2>1, <2>5
<1>13. QED
  BY <1>1, <1>9, <1>10, <1>11, <1>12

\* The bytes of a string before a position.
BytesBefore(s, p) == SubSeq(s, 1, p - 1)

\* They and those from there to another are those before the other.
LEMMA BeforeFacts ==
  ASSUME NEW s \in Seq(Bytes), NEW p \in 1 .. Len(s) + 1, NEW q \in p .. Len(s) + 1
  PROVE  /\ BytesBefore(s, 1) = <<>> /\ BytesBefore(s, Len(s) + 1) = s
         /\ BytesBefore(s, p) \o SubSeq(s, p, q - 1) = BytesBefore(s, q)
<1> DEFINE L == Len(s)
<1>1. L \in Nat /\ \A i \in 1..L : s[i] \in Bytes
  OBVIOUS
<1> HIDE DEF L
<1>2. ASSUME NEW a \in 1 .. L + 1, NEW b \in a .. L + 1
      PROVE  /\ SubSeq(s, a, b - 1) \in Seq(Bytes)
             /\ Len(SubSeq(s, a, b - 1)) = b - a
             /\ \A i \in 1 .. b - a : SubSeq(s, a, b - 1)[i] = s[a + i - 1]
  <2> DEFINE m == b - 1
  <2>1. a \in Int /\ m \in Int /\ a .. m \subseteq 1..L /\ m - a + 1 = b - a
        /\ (a <= m \/ b - a = 0)
    BY <1>1
  <2>2. \A i \in a .. m : s[i] \in Bytes
    BY <1>1, <2>1
  <2> HIDE DEF m
  <2>3. /\ SubSeq(s, a, m) \in Seq(Bytes)
        /\ Len(SubSeq(s, a, m)) = IF a <= m THEN m - a + 1 ELSE 0
        /\ \A i \in 1 .. m - a + 1 : SubSeq(s, a, m)[i] = s[a + i - 1]
    BY <2>1, <2>2, SubSeqProperties
  <2>4. Len(SubSeq(s, a, m)) = b - a
    <3>1. ~(a <= m) => b - a = 0
      BY <2>1
    <3>2. QED
      BY <2>1, <2>3, <3>1
  <2>5. QED
    BY <2>1, <2>3, <2>4 DEF m
<1>3. p \in 1 .. L + 1 /\ q \in p .. L + 1 /\ q \in 1 .. L + 1 /\ 1 \in 1 .. L + 1
      /\ L + 1 \in 1 .. L + 1
  BY <1>1 DEF L
<1>4. ASSUME NEW b \in 1 .. L + 1
      PROVE  /\ BytesBefore(s, b) \in Seq(Bytes)
             /\ Len(BytesBefore(s, b)) = b - 1
             /\ \A i \in 1 .. b - 1 : BytesBefore(s, b)[i] = s[i]
  <2>1. /\ SubSeq(s, 1, b - 1) \in Seq(Bytes)
        /\ Len(SubSeq(s, 1, b - 1)) = b - 1
        /\ \A i \in 1 .. b - 1 : SubSeq(s, 1, b - 1)[i] = s[1 + i - 1]
    BY <1>2, <1>3
  <2>2. \A i \in 1 .. b - 1 : 1 + i - 1 = i
    BY <1>1
  <2>3. QED
    BY <2>1, <2>2 DEF BytesBefore
<1>5. BytesBefore(s, 1) = <<>>
  <2>1. 1 \in Int /\ 1 - 1 \in Int /\ 1 - 1 < 1
    OBVIOUS
  <2>2. QED
    BY <2>1, SubSeqEmpty DEF BytesBefore
<1>6. BytesBefore(s, L + 1) = s
  <2> DEFINE b == L + 1
  <2>1. b \in 1 .. L + 1 /\ b - 1 = L
    BY <1>1
  <2> HIDE DEF b
  <2>2. /\ BytesBefore(s, b) \in Seq(Bytes) /\ Len(BytesBefore(s, b)) = L
        /\ \A i \in 1..L : BytesBefore(s, b)[i] = s[i]
    BY <1>4, <2>1
  <2>3. BytesBefore(s, b) = s
    BY <2>2, SeqEqual DEF L
  <2>4. QED
    BY <2>3 DEF b
<1>7. BytesBefore(s, p) \o SubSeq(s, p, q - 1) = BytesBefore(s, q)
  <2> DEFINE t == BytesBefore(s, p)
             u == SubSeq(s, p, q - 1)
             v == BytesBefore(s, q)
  <2>1. /\ t \in Seq(Bytes) /\ Len(t) = p - 1 /\ \A i \in 1 .. p - 1 : t[i] = s[i]
    BY <1>3, <1>4
  <2>2. /\ v \in Seq(Bytes) /\ Len(v) = q - 1 /\ \A i \in 1 .. q - 1 : v[i] = s[i]
    BY <1>3, <1>4
  <2>3. /\ u \in Seq(Bytes) /\ Len(u) = q - p
        /\ \A i \in 1 .. q - p : u[i] = s[p + i - 1]
    BY <1>2, <1>3
  <2> HIDE DEF t, u, v
  <2>4. /\ t \o u \in Seq(Bytes) /\ Len(t \o u) = Len(t) + Len(u)
        /\ \A i \in 1 .. Len(t) + Len(u) : (t \o u)[i] =
             IF i <= Len(t) THEN t[i] ELSE u[i - Len(t)]
    BY <2>1, <2>3, ConcatProperties
  <2> DEFINE w == t \o u
  <2>5. /\ w \in Seq(Bytes) /\ Len(w) = (p - 1) + (q - p)
        /\ \A i \in 1 .. (p - 1) + (q - p) : w[i] =
             IF i <= p - 1 THEN t[i] ELSE u[i - (p - 1)]
    BY <2>1, <2>3, <2>4
  <2> HIDE DEF w
  <2>6. (p - 1) + (q - p) = q - 1
    BY <1>1, <1>3
  <2>7. ASSUME NEW i \in 1 .. q - 1 PROVE w[i] = v[i]
    <3>1. w[i] = IF i <= p - 1 THEN t[i] ELSE u[i - (p - 1)]
      BY <2>5, <2>6
    <3>2. v[i] = s[i]
      BY <2>2
    <3>3. CASE i <= p - 1
      <4>1. i \in 1 .. p - 1
        BY <1>1, <1>3, <3>3
      <4>2. QED
        BY <2>1, <3>1, <3>2, <3>3, <4>1
    <3>4. CASE ~(i <= p - 1)
      <4>1. i - (p - 1) \in 1 .. q - p /\ p + (i - (p - 1)) - 1 = i
        BY <1>1, <1>3, <3>4
      <4>2. u[i - (p - 1)] = s[p + (i - (p - 1)) - 1]
        BY <2>3, <4>1
      <4>3. QED
        BY <3>1, <3>2, <3>4, <4>1, <4>2
    <3>5. QED
      BY <3>3, <3>4
  <2>8. w = v
    BY <2>2, <2>5, <2>6, <2>7, SeqEqual
  <2>9. QED
    BY <2>8 DEF w, t, u, v
<1>8. QED
  BY <1>5, <1>6, <1>7 DEF L

\* Character after character, the bytes that char makes of the code points are
\* those of the string.
LEMMA CharFacts ==
  ASSUME NEW s \in Seq(Bytes), Valid(s)
  PROVE  utfchar([k \in 1 .. Len(Starts(s)) |-> Code(s, Starts(s)[k])]) = s
<1> DEFINE n == Len(Starts(s))
           codes == [k \in 1..n |-> Code(s, Starts(s)[k])]
           Step(f, k) == IF k = 0 THEN <<>> ELSE f[k - 1] \o luaO_utf8esc(codes[k])
           X == CHOOSE bytes : bytes = [k \in 0 .. Len(codes) |-> Step(bytes, k)]
           W == [k \in 0..n |-> BytesBefore(s, Place(s, k + 1))]
           S == {k \in Nat : k <= n => X[k] = W[k]}
<1>1. n \in Nat /\ Len(codes) = n /\ DOMAIN codes = 1..n
  <2>1. Starts(s) \in Seq(Nat)
    BY FromFacts
  <2>2. n \in Nat
    BY <2>1
  <2> HIDE DEF n
  <2>3. QED
    BY <2>2
<1>2. /\ Place(s, 1) = 1
      /\ Place(s, n + 1) = Len(s) + 1
      /\ \A j \in 1..n :
           /\ Place(s, j) = Starts(s)[j]
           /\ Position(s, Place(s, j)) /\ CharLen(s, Place(s, j)) # 0
           /\ Place(s, j + 1) = Place(s, j) + CharLen(s, Place(s, j))
  BY PlaceFacts
<1>3. ASSUME NEW j \in 1..n
      PROVE  /\ codes[j] \in 0..MAXUNICODE
             /\ luaO_utf8esc(codes[j]) = SubSeq(s, Place(s, j), Place(s, j + 1) - 1)
  <2> DEFINE p == Place(s, j)
  <2>1. codes[j] = Code(s, p)
    <3> HIDE DEF n
    <3>1. QED
      BY <1>2
  <2>2. Position(s, p) /\ CharLen(s, p) # 0 /\ Place(s, j + 1) = p + CharLen(s, p)
    BY <1>2
  <2>3. QED
    <3> HIDE DEF p, codes
    <3>1. /\ Code(s, p) \in 0..MAXUNICODE
          /\ luaO_utf8esc(Code(s, p)) = SubSeq(s, p, p + CharLen(s, p) - 1)
      BY <2>2, CharacterBack
    <3>2. p + CharLen(s, p) - 1 = (p + CharLen(s, p)) - 1
      BY <2>2, PositionFacts, LengthFacts
    <3>3. QED
      BY <2>1, <2>2, <3>1, <3>2, Zenon DEF p
<1>4. ASSUME NEW k \in 0..n PROVE W[k] = Step(W, k)
  <2>1. CASE k = 0
    <3>1. 0 + 1 = 1 /\ 1 \in 1 .. Len(s) + 1 /\ 1 \in 1 .. Len(s) + 1
      OBVIOUS
    <3>2. BytesBefore(s, 1) = <<>>
      BY <3>1, BeforeFacts
    <3>3. W[k] = BytesBefore(s, Place(s, k + 1))
      OBVIOUS
    <3> HIDE DEF W, n
    <3>4. QED
      BY <1>2, <2>1, <3>1, <3>2, <3>3
  <2>2. CASE k # 0
    <3>1. k \in 1..n /\ k - 1 \in 0..n /\ (k - 1) + 1 = k /\ k + 1 \in 1 .. n + 1
          /\ k \in 1 .. n + 1
      <4> HIDE DEF n
      <4>1. QED
        BY <1>1, <2>2
    <3>2. W[k] = BytesBefore(s, Place(s, k + 1)) /\ W[k - 1] = BytesBefore(s, Place(s, k))
      <4> HIDE DEF n
      <4>1. QED
        BY <3>1
    <3>3. Place(s, k) \in 1 .. Len(s) + 1 /\ Place(s, k + 1) \in 1 .. Len(s) + 1
          /\ Place(s, k) < Place(s, k + 1)
      BY <3>1, PlaceBytes
    <3> DEFINE p == Place(s, k)
               q == Place(s, k + 1)
               L == Len(s)
    <3>4. q \in p .. L + 1
      <4>1. L \in Nat
        OBVIOUS
      <4> HIDE DEF p, q, L
      <4>2. p \in 1 .. L + 1 /\ q \in 1 .. L + 1 /\ p < q
        BY <3>3 DEF p, q, L
      <4>3. QED
        BY <4>1, <4>2
    <3>5. BytesBefore(s, p) \o SubSeq(s, p, q - 1) = BytesBefore(s, q)
      BY <3>3, <3>4, BeforeFacts
    <3>6. luaO_utf8esc(codes[k]) = SubSeq(s, p, q - 1)
      BY <1>3, <3>1
    <3> HIDE DEF W, codes
    <3>7. QED
      BY <2>2, <3>2, <3>5, <3>6, Zenon
  <2>3. QED
    BY <2>1, <2>2
<1>5. X = [k \in 0 .. Len(codes) |-> Step(X, k)]
  <2>1. W = [k \in 0..n |-> W[k]]
    OBVIOUS
  <2>2. W = [k \in 0..n |-> Step(W, k)]
    <3> HIDE DEF W, Step
    <3>1. QED
      BY <1>4, <2>1, Zenon
  <2>3. W = [k \in 0 .. Len(codes) |-> Step(W, k)]
    <3> HIDE DEF W, n, codes
    <3>1. QED
      BY <1>1, <2>2, Zenon
  <2> HIDE DEF W, n, codes
  <2>4. QED
    BY <2>3, Zenon
<1>6. utfchar(codes) = X[n]
  <2>1. \A k \in DOMAIN codes : codes[k] \in 0..MAXUNICODE
    <3> HIDE DEF n, codes
    <3>1. QED
      BY <1>1, <1>3
  <2>2. utfchar(codes) =
          IF \A k \in DOMAIN codes : codes[k] \in 0..MAXUNICODE THEN X[Len(codes)] ELSE Error
    <3> HIDE DEF n, codes
    <3>1. QED
      BY Zenon DEF utfchar
  <2> HIDE DEF n, codes, X
  <2>3. QED
    BY <1>1, <2>1, <2>2, Zenon
<1> HIDE DEF X
<1>7. \A k \in 0..n : X[k] = Step(X, k)
  <2> HIDE DEF n, codes, Step
  <2>1. QED
    BY <1>1, <1>5, Zenon
<1> HIDE DEF W, n, codes
<1>8. 0 \in S
  <2>1. 0 \in 0..n
    BY <1>1
  <2>2. X[0] = <<>> /\ W[0] = <<>>
    BY <1>4, <1>7, <2>1
  <2>3. QED
    BY <2>2
<1>9. ASSUME NEW k \in Nat, k \in S PROVE k + 1 \in S
  <2> SUFFICES ASSUME k + 1 <= n PROVE X[k + 1] = W[k + 1]
    OBVIOUS
  <2>1. k <= n /\ k + 1 \in 0..n /\ (k + 1) - 1 = k /\ k + 1 # 0
    BY <1>1
  <2>2. X[k] = W[k]
    BY <1>9, <2>1
  <2>3. X[k + 1] = X[k] \o luaO_utf8esc(codes[k + 1])
    BY <1>7, <2>1
  <2>4. W[k + 1] = W[k] \o luaO_utf8esc(codes[k + 1])
    BY <1>4, <2>1
  <2>5. QED
    BY <2>2, <2>3, <2>4
<1> HIDE DEF S
<1>10. n \in S
  <2>1. \A k \in Nat : k \in S
    BY <1>8, <1>9, Induction
  <2>2. QED
    BY <1>1, <2>1
<1>11. X[n] = W[n]
  BY <1>1, <1>10 DEF S
<1>12. W[n] = s
  <2>1. n \in 0..n
    BY <1>1
  <2>2. W[n] = BytesBefore(s, Place(s, n + 1))
    BY <2>1 DEF W
  <2>3. 1 \in 1 .. Len(s) + 1
    OBVIOUS
  <2>4. BytesBefore(s, Len(s) + 1) = s
    BY <2>3, BeforeFacts
  <2>5. QED
    BY <1>2, <2>2, <2>4
<1>13. utfchar(codes) = s
  BY <1>6, <1>11, <1>12
<1>14. QED
  BY <1>13 DEF codes, n

-----------------------------------------------------------------------------
\* What the loop has been given besides the positions: the code points there.
CodePoints == \A k \in 1 .. Len(seen) : seen[k][2] = Code(str, seen[k][1])

\* A step of the loop adds no other.
LEMMA CodePointsStep ==
  ASSUME CodesInv, CodePoints, iter_aux
  PROVE  CodePoints'
<1> DEFINE q == Behind(str, pos)
           n == q - 1
           d == utf8_decode(str, n)
           e == <<n + 1, d.code>>
           m == Len(seen)
           t == Append(seen, e)
<1>1. str \in Seq(Bytes) /\ Given(str, pos)
  BY DEF CodesInv
<1>2. PICK S : seen \in Seq(S)
  BY DEF CodesInv
<1>3. m \in Nat
  BY <1>2
<1>4. /\ q \in 1 .. Len(str) + 1
      /\ (IF pos - 1 < 0 THEN 0 ELSE IF pos - 1 < Len(str) THEN Following(str, pos - 1)
                                     ELSE pos - 1) = n
  BY <1>1, BehindFacts
<1>5. str' = str /\ (seen' = seen \/ seen' = t)
  BY <1>4, Zenon DEF iter_aux
<1>6. e[1] = n + 1 /\ e[2] = d.code
  OBVIOUS
<1>7. (n + 1) - 1 = n
  <2>1. q \in Int
    <3> HIDE DEF q
    <3>1. QED
      BY <1>4
  <2> HIDE DEF q
  <2>2. QED
    BY <2>1
<1>8. Code(str, n + 1) = d.code
  <2> HIDE DEF n
  <2>1. QED
    BY <1>7, Zenon DEF Code
<1>9. /\ Len(t) = m + 1 /\ t[m + 1] = e
      /\ \A k \in 1..m : t[k] = seen[k]
  <2> HIDE DEF e
  <2>1. QED
    BY <1>2
<1>10. CASE seen' = seen
  BY <1>5, <1>10 DEF CodePoints
<1>11. CASE seen' = t
  <2>1. \A k \in 1 .. m + 1 : k \in 1..m \/ k = m + 1
    <3> HIDE DEF m
    <3>1. QED
      BY <1>3
  <2>2. \A k \in 1..m : seen[k][2] = Code(str, seen[k][1])
    BY DEF CodePoints
  <2> HIDE DEF t, m, e, n
  <2>3. \A k \in 1 .. m + 1 : t[k][2] = Code(str, t[k][1])
    BY <1>6, <1>8, <1>9, <2>1, <2>2, Zenon
  <2>4. QED
    BY <1>5, <1>9, <1>11, <2>3, Zenon DEF CodePoints
<1>12. QED
  BY <1>5, <1>10, <1>11

\* What was seen agrees with the other functions.
LEMMA SeenAgree ==
  ASSUME CodesInv, CodePoints
  PROVE  FunctionsAgree
<1> DEFINE c == Starts(str)
           n == Len(c)
           codes == [k \in 1..n |-> seen[k][2]]
<1>1. str \in Seq(Bytes)
  BY DEF CodesInv
<1>2. CodesSeeCharacters
  BY InvCodes
<1>3. ASSUME loop = "raised" PROVE utflen(str, 1, -1) = [bad |-> Reach(str) + 1]
  BY <1>1, <1>2, <1>3, LenAndCodepoint DEF CodesSeeCharacters
<1>4. ASSUME loop = "ended", seen # <<>>
      PROVE  /\ utflen(str, 1, -1) = [len |-> n]
             /\ codepoint(str, 1, -1) = [codes |-> codes]
             /\ utfchar(codes) = str
             /\ \A k \in 1..n :
                  /\ byteoffset(str, k, 1) = [at |-> c[k]]
                  /\ byteoffset(str, k - n - 1, Len(str) + 1) = [at |-> c[k]]
                  /\ \A b \in c[k] .. c[k] + CharLen(str, c[k]) - 1 :
                       byteoffset(str, 0, b) = [at |-> c[k]]
             /\ byteoffset(str, n + 1, 1) = [at |-> Len(str) + 1]
             /\ byteoffset(str, n + 2, 1) = [at |-> 0]
             /\ byteoffset(str, -n - 1, Len(str) + 1) = [at |-> 0]
  <2>1. Valid(str) /\ Len(seen) = n
    BY <1>2, <1>4 DEF CodesSeeCharacters
  <2>2. c \in Seq(Nat)
    BY <1>1, FromFacts
  <2>3. \A k \in 1..n : seen[k][1] = c[k] /\ seen[k][2] = Code(str, seen[k][1])
    <3>1. \A k \in 1 .. Len(seen) : seen[k][1] = c[k]
      BY DEF CodesInv
    <3>2. \A k \in 1 .. Len(seen) : seen[k][2] = Code(str, seen[k][1])
      BY DEF CodePoints
    <3> HIDE DEF c, n
    <3>3. QED
      BY <2>1, <3>1, <3>2, Zenon
  <2>4. codes = [k \in 1..n |-> Code(str, c[k])]
    <3> HIDE DEF c, n
    <3>1. QED
      BY <2>3, Zenon
  <2>5. str # <<>>
    <3> SUFFICES ASSUME str = <<>> PROVE FALSE
      OBVIOUS
    <3>1. n # 0
      <4>1. PICK S : seen \in Seq(S)
        BY DEF CodesInv
      <4>2. Len(seen) # 0
        BY <1>4, <4>1
      <4> HIDE DEF n
      <4>3. QED
        BY <2>1, <4>2
    <3>2. n \in Nat
      <4> HIDE DEF c
      <4>1. QED
        BY <2>2
    <3>3. 1 \in 1..n
      <4> HIDE DEF n
      <4>1. QED
        BY <3>1, <3>2
    <3>4. Position(str, Place(str, 1))
      BY <1>1, <2>1, <3>3, PlaceFacts
    <3>5. Len(str) = 0
      OBVIOUS
    <3>6. QED
      BY <3>4, <3>5, PositionFacts
  <2>6. utfchar([k \in 1..n |-> Code(str, c[k])]) = str
    BY <1>1, <2>1, CharFacts
  <2>7. /\ utflen(str, 1, -1) = [len |-> n]
        /\ codepoint(str, 1, -1) = [codes |-> [k \in 1..n |-> Code(str, c[k])]]
    BY <1>1, <2>1, <2>5, LenAndCodepoint
  <2>8. /\ \A k \in 1..n :
             /\ byteoffset(str, k, 1) = [at |-> c[k]]
             /\ byteoffset(str, k - n - 1, Len(str) + 1) = [at |-> c[k]]
             /\ \A b \in c[k] .. c[k] + CharLen(str, c[k]) - 1 :
                  byteoffset(str, 0, b) = [at |-> c[k]]
        /\ byteoffset(str, n + 1, 1) = [at |-> Len(str) + 1]
        /\ byteoffset(str, n + 2, 1) = [at |-> 0]
        /\ byteoffset(str, -n - 1, Len(str) + 1) = [at |-> 0]
    BY <1>1, <2>1, OffsetFacts, Zenon
  <2> HIDE DEF codes, c, n
  <2>9. QED
    BY <2>4, <2>6, <2>7, <2>8, Zenon
<1>5. QED
  BY <1>3, <1>4, Zenon DEF FunctionsAgree

\* The functions of the library agree with each other and with the loop: len
\* counts the characters or names the first bad byte, codepoint gives what codes
\* gives, char makes the same string of it, and offset finds every character from
\* both ends and from each of its bytes, whatever the string.
THEOREM FunctionsAgreed == Utf8Spec => []FunctionsAgree
<1>1. Utf8Init => CodesInv /\ CodePoints
  <2>1. Utf8Init => CodePoints
    <3>1. \A k \in 1 .. 0 : FALSE
      OBVIOUS
    <3>2. QED
      BY <3>1 DEF Utf8Init, CodePoints
  <2>2. QED
    BY <2>1, CodesInit
<1>2. CodesInv /\ CodePoints /\ [Utf8Next]_utf8Vars => CodesInv' /\ CodePoints'
  <2> SUFFICES ASSUME CodesInv, CodePoints, [Utf8Next]_utf8Vars
               PROVE  CodesInv' /\ CodePoints'
    OBVIOUS
  <2>1. CodesInv'
    BY CodesNext
  <2>2. CASE \E s \in Strings : iter_codes(s)
    <3>1. seen = <<>> /\ seen' = seen
      BY <2>2 DEF iter_codes, CodesInv
    <3>2. Len(seen') = 0
      BY <3>1
    <3>3. QED
      BY <2>1, <3>2 DEF CodePoints
  <2>3. CASE iter_aux
    BY <2>1, <2>3, CodePointsStep
  <2>4. CASE UNCHANGED utf8Vars
    BY <2>1, <2>4 DEF CodePoints, utf8Vars
  <2>5. QED
    BY <2>2, <2>3, <2>4 DEF Utf8Next
<1>3. QED
  BY <1>1, <1>2, SeenAgree, PTL DEF Utf8Spec
===============================================================================
