--------------------------------- MODULE Utf8 ---------------------------------
(***************************************************************************)
(* The utf8 library that the module brings for Lua without one             *)
(* (src/lutf8lib-compat.c, compiled for Lua <= 5.2): a string is a         *)
(* sequence of bytes; the C code counts them from 0 and finds a 0 behind   *)
(* the last.  What it would read behind that has no value here.            *)
(*                                                                         *)
(* The functions without state are operators; utf8.codes, which calls an   *)
(* iterator for each step of a loop of the program, is a state machine.    *)
(***************************************************************************)
EXTENDS Integers, Sequences

CONSTANT Strings  \* the strings a program passes

ASSUME Utf8Assumption == \A s \in Strings : s \in Seq(0..255)

VARIABLES
  str,   \* the string of the loop
  pos,   \* the control variable: the position of the last character, from 1
  seen,  \* the positions and code points the loop has been given
  loop   \* "none", "running", "ended" or "raised"

utf8Vars == <<str, pos, seen, loop>>

MAXUNICODE == 1114111  \* 0x10FFFF

Byte(s, k) == IF k = Len(s) THEN 0 ELSE s[k + 1]
iscont(s, k) == Byte(s, k) \in 128..191

\* The first position from k on that is not a continuation.
SkipCont(s, k) == CHOOSE m \in k .. Len(s) :
  ~iscont(s, m) /\ \A l \in k .. m - 1 : iscont(s, l)

\* translate a relative string position
u_posrelat(at, len) ==
  IF at >= 0 THEN at ELSE IF -at > len THEN 0 ELSE len + at + 1

-----------------------------------------------------------------------------
\* The bits of the first byte, from bit 6 down, that are set: the bytes that
\* must follow.
Bit(c, b) == (c \div 2^b) % 2
Count(c) == CHOOSE k \in 0..7 :
  /\ \A b \in 7 - k .. 6 : Bit(c, b) = 1
  /\ k = 7 \/ Bit(c, 6 - k) = 0

\* Six bits of each of the bytes that follow, then those of the first, which
\* has been shifted once for each.
Value(s, k, count) ==
  LET low[j \in 0..count] == IF j = 0 THEN 0 ELSE (low[j - 1] * 64) + (Byte(s, k + j) % 64)
  IN low[count] + ((Byte(s, k) * 2^count) % 128) * 2^(5 * count)

\* Mutant of limits: overlong sequences are let through.
limits_none(count) == IF count = 0 THEN 255 ELSE -1

limits(count) == <<255, 127, 2047, 65535>>[count + 1]

Invalid == [next |-> -1, code |-> -1]

\* The code point at k, and the position behind it.
utf8_decode(s, k) ==
  LET c == Byte(s, k)
      count == IF c < 128 THEN 0 ELSE Count(c)
  IN IF c < 128 THEN [next |-> k + 1, code |-> c]
     ELSE IF \/ \E j \in 1..count : \/ k + j > Len(s)
                                    \/ ~iscont(s, k + j)
             \/ count > 3
          THEN Invalid
          ELSE LET res == Value(s, k, count)
               IN IF res > MAXUNICODE \/ res <= limits(count)
                  THEN Invalid
                  ELSE [next |-> k + count + 1, code |-> res]

\* The bytes of a code point, the last first taken from x; mfb is the greatest
\* value that fits in the first byte.
luaO_utf8esc(x) ==
  LET esc[y \in Nat] == [mfb \in Nat |->
        LET rest == y \div 64
            fits == mfb \div 2
        IN (IF rest > fits THEN esc[rest][fits] ELSE << (254 - 2 * fits) + rest >>)
             \o << 128 + (y % 64) >>]
  IN IF x < 128 THEN <<x>> ELSE esc[x][63]

-----------------------------------------------------------------------------
\* What the decoding from p up to position to finds: the code points, and the
\* position it ended at or failed at.
Scan(s, p, to) ==
  LET scan[k \in 0 .. Len(s) + 1] ==
        IF k > to THEN [codes |-> <<>>, end |-> k, ok |-> TRUE]
        ELSE LET d == utf8_decode(s, k)
             IN IF d = Invalid THEN [codes |-> <<>>, end |-> k, ok |-> FALSE]
                ELSE [scan[d.next] EXCEPT !.codes = <<d.code>> \o @]
  IN scan[p]

Error == [error |-> TRUE]

\* utf8len(s, i, j): the number of characters that start between i and j, or
\* the position of the first that is not well formed.
utflen(s, i, j) ==
  LET posi == u_posrelat(i, Len(s))
      posj == u_posrelat(j, Len(s))
      scan == Scan(s, posi - 1, posj - 1)
  IN IF ~(1 <= posi /\ posi - 1 <= Len(s) /\ posj - 1 < Len(s)) THEN Error
     ELSE IF scan.ok THEN [len |-> Len(scan.codes)] ELSE [bad |-> scan.end + 1]

\* codepoint(s, i, j): the code points that start between i and j.
codepoint(s, i, j) ==
  LET posi == u_posrelat(i, Len(s))
      pose == u_posrelat(j, Len(s))
      scan == Scan(s, posi - 1, pose - 1)
  IN IF posi < 1 \/ pose > Len(s) THEN Error
     ELSE IF posi > pose THEN [codes |-> <<>>]
     ELSE IF scan.ok THEN [codes |-> scan.codes] ELSE Error

\* char(x, ...): the bytes of all of them.
utfchar(codes) ==
  LET bytes[k \in 0 .. Len(codes)] ==
        IF k = 0 THEN <<>> ELSE bytes[k - 1] \o luaO_utf8esc(codes[k])
  IN IF \A k \in DOMAIN codes : codes[k] \in 0..MAXUNICODE THEN bytes[Len(codes)] ELSE Error

\* One step back or forth, to the first byte of a character.
Back(s, k) == CHOOSE m \in 0 .. k - 1 :
  (m = 0 \/ ~iscont(s, m)) /\ \A l \in m + 1 .. k - 1 : iscont(s, l)
Forth(s, k) == SkipCont(s, k + 1)

\* offset(s, n, i): where the n-th character from i starts, 0 if there is none.
byteoffset(s, n, i) ==
  LET posi == u_posrelat(i, Len(s)) - 1
      move[m \in Int] == [k \in 0 .. Len(s) |->
        CASE m < 0 /\ k > 0 -> move[m + 1][Back(s, k)]
          [] m > 0 /\ k < Len(s) -> move[m - 1][Forth(s, k)]
          [] OTHER -> IF m = 0 THEN k + 1 ELSE 0]
  IN IF posi < 0 \/ posi > Len(s) THEN Error
     ELSE IF n = 0
     THEN [at |-> 1 + IF iscont(s, posi) /\ posi > 0 THEN Back(s, posi) ELSE posi]
     ELSE IF iscont(s, posi) THEN Error
     ELSE [at |-> move[IF n > 0 THEN n - 1 ELSE n][posi]]

-----------------------------------------------------------------------------
Utf8Init == str = <<>> /\ pos = 0 /\ seen = <<>> /\ loop = "none"

\* for p, c in utf8.codes(s)
iter_codes(s) ==
  /\ loop = "none"
  /\ str' = s /\ loop' = "running"
  /\ UNCHANGED <<pos, seen>>

\* Mutant of Following: it does not skip the continuations.
FollowingByte(s, n) == n + 1

\* The next character after that at n, from 0.
Following(s, n) == SkipCont(s, n + 1)

iter_aux ==
  /\ loop = "running"
  /\ LET n == IF pos - 1 < 0 THEN 0
              ELSE IF pos - 1 < Len(str) THEN Following(str, pos - 1) ELSE pos - 1
         d == utf8_decode(str, n)
     IN IF n >= Len(str)
        THEN loop' = "ended" /\ UNCHANGED <<pos, seen>>
        ELSE IF d = Invalid \/ (d.next <= Len(str) /\ iscont(str, d.next))
        THEN loop' = "raised" /\ UNCHANGED <<pos, seen>>
        ELSE /\ pos' = n + 1
             /\ seen' = Append(seen, <<n + 1, d.code>>)
             /\ UNCHANGED loop
  /\ UNCHANGED str

Utf8Next == (\E s \in Strings : iter_codes(s)) \/ iter_aux

Utf8Spec == Utf8Init /\ [][Utf8Next]_utf8Vars
-----------------------------------------------------------------------------
\* The reference: the well-formed sequences of table 3-7 of the Unicode
\* standard, with the surrogates, which Lua lets through.
Tail_ == 128..191
WellFormed(t) ==
  \/ Len(t) = 1 /\ t[1] \in 0..127
  \/ Len(t) = 2 /\ t[1] \in 194..223 /\ t[2] \in Tail_
  \/ /\ Len(t) = 3 /\ {t[2], t[3]} \subseteq Tail_
     /\ \/ t[1] = 224 /\ t[2] >= 160
        \/ t[1] \in 225..239
  \/ /\ Len(t) = 4 /\ {t[2], t[3], t[4]} \subseteq Tail_
     /\ \/ t[1] = 240 /\ t[2] >= 144
        \/ t[1] \in 241..243
        \/ t[1] = 244 /\ t[2] <= 143

\* The length of the character at position p, 0 if there is none.
CharLen(s, p) ==
  IF \E l \in 1..4 : p + l - 1 <= Len(s) /\ WellFormed(SubSeq(s, p, p + l - 1))
  THEN CHOOSE l \in 1..4 : p + l - 1 <= Len(s) /\ WellFormed(SubSeq(s, p, p + l - 1))
  ELSE 0

\* The positions of the characters up to the first that is not well formed.
Starts(s) ==
  LET from[p \in 1 .. Len(s) + 1] ==
        IF p > Len(s) \/ CharLen(s, p) = 0 THEN <<>> ELSE <<p>> \o from[p + CharLen(s, p)]
  IN from[1]
Reach(s) ==
  LET c == Starts(s) IN IF c = <<>> THEN 0 ELSE c[Len(c)] + CharLen(s, c[Len(c)]) - 1
Valid(s) == Reach(s) = Len(s)

\* The loop sees the characters from the first on, in order, and it ends without
\* an error if and only if the whole string is well formed.
CodesSeeCharacters ==
  /\ Len(seen) <= Len(Starts(str))
  /\ \A k \in DOMAIN seen : seen[k][1] = Starts(str)[k]
  /\ loop = "ended" => Valid(str) /\ Len(seen) = Len(Starts(str))
  /\ loop = "raised" => ~Valid(str)

\* len counts the characters or names the first bad byte; codepoint gives what
\* codes does, and char their bytes again; offset finds each character from the
\* start, from the end and from each byte of it.
FunctionsAgree ==
  /\ loop = "raised" => utflen(str, 1, -1) = [bad |-> Reach(str) + 1]
  /\ loop = "ended" /\ seen # <<>> =>
       LET starts == Starts(str)
           chars == Len(starts)
           codes == [k \in 1..chars |-> seen[k][2]]
       IN /\ utflen(str, 1, -1) = [len |-> chars]
          /\ codepoint(str, 1, -1) = [codes |-> codes]
          /\ utfchar(codes) = str
          /\ \A k \in 1..chars :
               /\ byteoffset(str, k, 1) = [at |-> starts[k]]
               /\ byteoffset(str, k - chars - 1, Len(str) + 1) = [at |-> starts[k]]
               /\ \A b \in starts[k] .. starts[k] + CharLen(str, starts[k]) - 1 :
                    byteoffset(str, 0, b) = [at |-> starts[k]]
          /\ byteoffset(str, chars + 1, 1) = [at |-> Len(str) + 1]
          /\ byteoffset(str, chars + 2, 1) = [at |-> 0]
          /\ byteoffset(str, -chars - 1, Len(str) + 1) = [at |-> 0]
===============================================================================
