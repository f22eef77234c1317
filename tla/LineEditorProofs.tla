--------------------------- MODULE LineEditorProofs ---------------------------
(***************************************************************************)
(* What holds of the line editor for every terminal, every history and     *)
(* context a caller may pass, and every bound on the line and on the       *)
(* history.  The invariant adds to the properties only the types and that  *)
(* the line a recall saved is bounded as the line itself is.               *)
(***************************************************************************)
EXTENDS LineEditor, SequenceTheorems, WellFoundedInduction, TLAPS

Lines == Seq(Char)

Types ==
  /\ reading \in BOOLEAN /\ browsing_history \in BOOLEAN /\ returned \in BOOLEAN
  /\ input \in Seq(Bytes)
  /\ escape \in {"none", "esc", "csi"}
  /\ line \in Lines /\ cursor \in 0..Len(line)
  /\ saved_line \in Lines /\ suggestion \in Lines /\ context \in Lines
  /\ screen \in [line : Lines, cursor : Nat, suggestion : Lines]
  /\ history \in Seq(Lines)
  /\ reading => history_position \in 0..Len(history)

Bounded(l) == Len(l) <= MaxLength \/ \E entry \in Range(history) : Len(l) <= Len(entry)

\* The line that a recall will come back to is no longer than one may be.
DraftBounded == reading /\ browsing_history => Bounded(saved_line)

EditorInv ==
  /\ Types /\ ScreenCurrent /\ SuggestionCompletes /\ RecallStartsAtNewest
  /\ LineBounded /\ DraftBounded

\* What Enter keeps.
HistoryKept == CleanAsGiven(history) /\ history_position \in Nat

USE LineEditorAssumption DEF Lines

-----------------------------------------------------------------------------
\* A non-empty set of positions has a last one, which Max finds.
LEMMA MaxFacts ==
  ASSUME NEW n \in Nat, NEW S, S \subseteq 0..n, S # {}
  PROVE  Max(S) \in S /\ \A y \in S : y <= Max(S)
<1> DEFINE R == OpToRel(<, Nat)
           T == {n - k : k \in S}
<1>1. \A k \in S : k \in Nat /\ k <= n /\ n - k \in Nat
  OBVIOUS
<1>2. T \subseteq Nat /\ T # {}
  BY <1>1
<1>3. PICK x \in T : \A y \in T : ~(<<y, x>> \in R)
  <2>1. IsWellFoundedOn(R, Nat)
    BY NatLessThanWellFounded
  <2> HIDE DEF R, T
  <2>2. QED
    BY <1>2, <2>1, WFMin
<1>4. \A y \in T : ~(y < x)
  <2> HIDE DEF T
  <2>1. QED
    BY <1>2, <1>3 DEF OpToRel
<1>5. PICK m \in S : x = n - m
  OBVIOUS
<1>6. \A y \in S : m >= y
  <2> TAKE y \in S
  <2>1. n - y \in T
    OBVIOUS
  <2>2. ~(n - y < n - m)
    BY <1>4, <1>5, <2>1
  <2>3. QED
    BY <1>1, <1>5, <2>2
<1>7. QED
  BY <1>1, <1>6 DEF Max

\* The first one likewise.
LEMMA MinFacts ==
  ASSUME NEW S, S \subseteq Nat, S # {}
  PROVE  Min(S) \in S /\ \A y \in S : Min(S) <= y
<1> DEFINE R == OpToRel(<, Nat)
<1>1. PICK x \in S : \A y \in S : ~(<<y, x>> \in R)
  <2>1. IsWellFoundedOn(R, Nat)
    BY NatLessThanWellFounded
  <2> HIDE DEF R
  <2>2. QED
    BY <2>1, WFMin
<1>2. \A y \in S : ~(y < x)
  BY <1>1 DEF OpToRel
<1>3. \E m \in S : \A y \in S : m =< y
  BY <1>2
<1>4. QED
  BY <1>3 DEF Min

\* A prefix is no longer, and equal as far as it goes.
LEMMA PrefixFacts ==
  ASSUME NEW s \in Lines, NEW t \in Lines
  PROVE  IsPrefix(s, t) <=> Len(s) <= Len(t) /\ \A i \in 1..Len(s) : s[i] = t[i]
<1>1. Len(s) \in Nat /\ Len(t) \in Nat
  BY LenProperties
<1>2. \A i \in 1..Len(s) : s[i] \in Char
  BY ElementOfSeq
<1>3. ASSUME Len(s) <= Len(t) PROVE \A i \in 1..Len(s) : t[i] \in Char
  BY <1>1, <1>3, ElementOfSeq
<1>4. ASSUME Len(s) <= Len(t)
      PROVE  SubSeq(s, 1, Len(s)) = SubSeq(t, 1, Len(s))
               <=> \A i \in 1..Len(s) : s[i] = t[i]
  <2> DEFINE a == SubSeq(s, 1, Len(s))
             b == SubSeq(t, 1, Len(s))
  <2>1. /\ a \in Seq(Char) /\ Len(a) = Len(s)
        /\ \A i \in 1..Len(s) : a[i] = s[i]
    BY <1>1, <1>2, SubSeqProperties
  <2>2. /\ b \in Seq(Char) /\ Len(b) = Len(s)
        /\ \A i \in 1..Len(s) : b[i] = t[i]
    BY <1>1, <1>3, <1>4, SubSeqProperties
  <2> HIDE DEF a, b
  <2>3. a = b <=> \A i \in 1..Len(s) : a[i] = b[i]
    BY <2>1, <2>2, SeqEqual
  <2>4. QED
    BY <2>1, <2>2, <2>3 DEF a, b
<1>5. QED
  BY <1>4 DEF IsPrefix

\* What follows a prefix completes it.
LEMMA RestFacts ==
  ASSUME NEW s \in Lines, NEW t \in Lines, IsPrefix(s, t)
  PROVE  /\ Rest(t, Len(s)) \in Lines
         /\ Len(Rest(t, Len(s))) = Len(t) - Len(s)
         /\ \A i \in 1..(Len(t) - Len(s)) : Rest(t, Len(s))[i] = t[Len(s) + i]
         /\ s \o Rest(t, Len(s)) = t
<1> DEFINE r == Rest(t, Len(s))
<1>1. Len(s) \in Nat /\ Len(t) \in Nat /\ Len(s) <= Len(t)
  BY LenProperties, PrefixFacts
<1>2. \A i \in (Len(s) + 1)..Len(t) : t[i] \in Char
  BY <1>1, ElementOfSeq
<1>3. /\ r \in Seq(Char) /\ Len(r) = Len(t) - Len(s)
      /\ \A i \in 1..(Len(t) - Len(s)) : r[i] = t[Len(s) + i]
  <2>1. /\ r \in Seq(Char)
        /\ Len(r) = IF Len(s) + 1 <= Len(t) THEN Len(t) - (Len(s) + 1) + 1 ELSE 0
        /\ \A i \in 1..(Len(t) - (Len(s) + 1) + 1) : r[i] = t[Len(s) + 1 + i - 1]
    BY <1>1, <1>2, SubSeqProperties DEF Rest
  <2> HIDE DEF r
  <2>2. QED
    BY <1>1, <2>1
<1> HIDE DEF r
<1>4. /\ s \o r \in Seq(Char) /\ Len(s \o r) = Len(t)
      /\ \A i \in 1..Len(t) : (s \o r)[i] = t[i]
  <2>1. /\ s \o r \in Seq(Char) /\ Len(s \o r) = Len(s) + Len(r)
        /\ \A i \in 1..(Len(s) + Len(r)) :
             (s \o r)[i] = IF i <= Len(s) THEN s[i] ELSE r[i - Len(s)]
    BY <1>3, ConcatProperties
  <2>2. QED
    BY <1>1, <1>3, <2>1, PrefixFacts
<1>5. s \o r = t
  BY <1>4, SeqEqual
<1>6. QED
  BY <1>3, <1>5 DEF r

\* What follows a context goes on from the draft, if the entry does from both.
LEMMA DraftFacts ==
  ASSUME NEW c \in Lines, NEW d \in Lines, NEW t \in Lines, IsPrefix(c \o d, t)
  PROVE  /\ IsPrefix(c, t)
         /\ IsPrefix(d, Rest(t, Len(c)))
         /\ Len(Rest(t, Len(c))) <= Len(t)
         /\ Rest(t, Len(c)) \in Lines
<1>1. Len(c) \in Nat /\ Len(d) \in Nat /\ Len(t) \in Nat
  BY LenProperties
<1>2. /\ c \o d \in Lines /\ Len(c \o d) = Len(c) + Len(d)
      /\ \A i \in 1..(Len(c) + Len(d)) :
           (c \o d)[i] = IF i <= Len(c) THEN c[i] ELSE d[i - Len(c)]
  BY ConcatProperties
<1>3. /\ Len(c) + Len(d) <= Len(t)
      /\ \A i \in 1..(Len(c) + Len(d)) : (c \o d)[i] = t[i]
  <2> DEFINE cd == c \o d
  <2> HIDE DEF cd
  <2>1. cd \in Lines /\ IsPrefix(cd, t) /\ Len(cd) = Len(c) + Len(d)
    BY <1>2 DEF cd
  <2>2. Len(cd) <= Len(t) /\ \A i \in 1..Len(cd) : cd[i] = t[i]
    BY <2>1, PrefixFacts
  <2>3. QED
    BY <2>1, <2>2 DEF cd
<1>4. IsPrefix(c, t)
  <2>1. \A i \in 1..Len(c) : c[i] = t[i]
    BY <1>1, <1>2, <1>3
  <2>2. Len(c) <= Len(t)
    BY <1>1, <1>3
  <2>3. QED
    BY <2>1, <2>2, PrefixFacts
<1> DEFINE r == Rest(t, Len(c))
<1>5. /\ r \in Lines /\ Len(r) = Len(t) - Len(c)
      /\ \A i \in 1..(Len(t) - Len(c)) : r[i] = t[Len(c) + i]
  BY <1>4, RestFacts
<1> HIDE DEF r
<1>6. \A i \in 1..Len(d) : d[i] = r[i]
  <2> TAKE i \in 1..Len(d)
  <2>1. Len(c) + i \in 1..(Len(c) + Len(d)) /\ ~(Len(c) + i <= Len(c))
    BY <1>1
  <2>2. (c \o d)[Len(c) + i] = d[i]
    BY <1>1, <1>2, <2>1
  <2>3. (c \o d)[Len(c) + i] = t[Len(c) + i]
    BY <1>3, <2>1
  <2>4. r[i] = t[Len(c) + i]
    BY <1>1, <1>3, <1>5
  <2>5. QED
    BY <2>2, <2>3, <2>4
<1>7. IsPrefix(d, r)
  BY <1>1, <1>3, <1>5, <1>6, PrefixFacts
<1>8. QED
  BY <1>1, <1>4, <1>5, <1>7 DEF r

\* A character inserted at the cursor.
LEMMA InsertFacts ==
  ASSUME NEW l \in Lines, NEW c \in 0..Len(l), NEW char \in Char
  PROVE  InsertAt(l, c + 1, char) \in Lines /\ Len(InsertAt(l, c + 1, char)) = Len(l) + 1
<1> DEFINE a == SubSeq(l, 1, c)
           b == SubSeq(l, c + 1, Len(l))
<1>1. Len(l) \in Nat /\ c \in Nat /\ c <= Len(l)
  BY LenProperties
<1>2. a \in Seq(Char) /\ Len(a) = c
  <2>1. \A i \in 1..c : l[i] \in Char
    BY <1>1, ElementOfSeq
  <2>2. QED
    BY <1>1, <2>1, SubSeqProperties
<1>3. b \in Seq(Char) /\ Len(b) = Len(l) - c
  <2>1. \A i \in (c + 1)..Len(l) : l[i] \in Char
    BY <1>1, ElementOfSeq
  <2>2. b \in Seq(Char) /\ Len(b) = IF c + 1 <= Len(l) THEN Len(l) - (c + 1) + 1 ELSE 0
    BY <1>1, <2>1, SubSeqProperties
  <2> HIDE DEF b
  <2>3. QED
    BY <1>1, <2>2
<1> HIDE DEF a, b
<1>4. <<char>> \in Seq(Char) /\ Len(<<char>>) = 1
  OBVIOUS
<1>5. a \o <<char>> \in Seq(Char) /\ Len(a \o <<char>>) = c + 1
  BY <1>2, <1>4, ConcatProperties
<1>6. (a \o <<char>>) \o b \in Seq(Char) /\ Len((a \o <<char>>) \o b) = Len(l) + 1
  BY <1>1, <1>3, <1>5, ConcatProperties
<1>7. InsertAt(l, c + 1, char) = (a \o <<char>>) \o b
  <2>1. (c + 1) - 1 = c
    BY <1>1
  <2>2. QED
    BY <2>1 DEF InsertAt, a, b
<1>8. QED
  BY <1>6, <1>7

\* The one before the cursor removed.
LEMMA RemoveFacts ==
  ASSUME NEW l \in Lines, NEW c \in 1..Len(l)
  PROVE  RemoveAt(l, c) \in Lines /\ Len(RemoveAt(l, c)) = Len(l) - 1
<1> DEFINE a == SubSeq(l, 1, c - 1)
           b == SubSeq(l, c + 1, Len(l))
<1>1. Len(l) \in Nat /\ c \in Nat /\ 1 <= c /\ c <= Len(l)
  BY LenProperties
<1>2. a \in Seq(Char) /\ Len(a) = c - 1
  <2>1. \A i \in 1..(c - 1) : l[i] \in Char
    BY <1>1, ElementOfSeq
  <2>2. a \in Seq(Char) /\ Len(a) = IF 1 <= c - 1 THEN (c - 1) - 1 + 1 ELSE 0
    BY <1>1, <2>1, SubSeqProperties
  <2> HIDE DEF a
  <2>3. QED
    BY <1>1, <2>2
<1>3. b \in Seq(Char) /\ Len(b) = Len(l) - c
  <2>1. \A i \in (c + 1)..Len(l) : l[i] \in Char
    BY <1>1, ElementOfSeq
  <2>2. b \in Seq(Char) /\ Len(b) = IF c + 1 <= Len(l) THEN Len(l) - (c + 1) + 1 ELSE 0
    BY <1>1, <2>1, SubSeqProperties
  <2> HIDE DEF b
  <2>3. QED
    BY <1>1, <2>2
<1> HIDE DEF a, b
<1>4. a \o b \in Seq(Char) /\ Len(a \o b) = Len(l) - 1
  BY <1>1, <1>2, <1>3, ConcatProperties
<1>5. QED
  BY <1>4 DEF RemoveAt, a, b

\* A suggestion completes context and line to an entry.
LEMMA SuggestionFacts ==
  ASSUME NEW l \in Lines, NEW ctx \in Lines, NEW hist \in Seq(Lines)
  PROVE  /\ SuggestionFor(l, ctx, hist) \in Lines
         /\ SuggestionFor(l, ctx, hist) # <<>> =>
              ctx \o l \o SuggestionFor(l, ctx, hist) \in Range(hist)
<1> DEFINE full == ctx \o l
           longer == {k \in DOMAIN hist : IsStrictPrefix(full, hist[k])}
<1>1. full \in Lines
  BY ConcatProperties
<1>2. CASE full = <<>> \/ longer = {}
  <2>1. SuggestionFor(l, ctx, hist) = <<>>
    BY <1>2 DEF SuggestionFor
  <2>2. <<>> \in Lines
    BY EmptySeq
  <2>3. QED
    BY <2>1, <2>2
<1>3. CASE ~(full = <<>> \/ longer = {})
  <2> DEFINE k == Max(longer)
  <2>1. SuggestionFor(l, ctx, hist) = Rest(hist[k], Len(full))
    BY <1>3 DEF SuggestionFor
  <2>2. DOMAIN hist = 1..Len(hist) /\ Len(hist) \in Nat
    BY LenProperties
  <2>3. longer \subseteq 0..Len(hist) /\ longer # {}
    BY <1>3, <2>2
  <2>4. k \in longer
    <3> HIDE DEF longer
    <3>1. QED
      BY <2>2, <2>3, MaxFacts
  <2>5. k \in DOMAIN hist /\ IsPrefix(full, hist[k])
    <3> HIDE DEF k, full
    <3>1. QED
      BY <2>4 DEF IsStrictPrefix
  <2> HIDE DEF k, full, longer
  <2>6. hist[k] \in Lines
    BY <2>2, <2>5, ElementOfSeq
  <2>7. Rest(hist[k], Len(full)) \in Lines /\ full \o Rest(hist[k], Len(full)) = hist[k]
    BY <1>1, <2>5, <2>6, RestFacts
  <2>8. hist[k] \in Range(hist)
    BY <2>5 DEF Range
  <2>9. QED
    BY <2>1, <2>7, <2>8 DEF full
<1>4. QED
  BY <1>2, <1>3

-----------------------------------------------------------------------------
\* Where a recall starts, and what it starts from.
LEMMA DraftTyped ==
  ASSUME EditorInv, reading
  PROVE  /\ Draft \in Lines /\ Bounded(Draft)
         /\ StartPosition \in 0..Len(history)
         /\ Len(history) \in Nat
         /\ DOMAIN history = 1..Len(history)
         /\ \A p \in 0..(Len(history) - 1) : history[p + 1] \in Lines /\ history[p + 1] \in Range(history)
<1>1. Len(history) \in Nat /\ DOMAIN history = 1..Len(history)
  BY LenProperties DEF EditorInv, Types
<1>2. \A p \in 0..(Len(history) - 1) : p + 1 \in DOMAIN history
  BY <1>1
<1>3. ASSUME NEW q \in DOMAIN history PROVE history[q] \in Lines
  BY <1>1, <1>3, ElementOfSeq DEF EditorInv, Types
<1>4. \A p \in 0..(Len(history) - 1) : history[p + 1] \in Lines /\ history[p + 1] \in Range(history)
  BY <1>2, <1>3 DEF Range
<1>5. Draft \in Lines /\ Bounded(Draft)
  BY DEF EditorInv, Types, Draft, DraftBounded, LineBounded, Bounded
<1>6. StartPosition \in 0..Len(history)
  BY <1>1 DEF StartPosition, EditorInv, Types
<1>7. QED
  BY <1>1, <1>4, <1>5, <1>6

\* What a matching position shows goes on from the draft, and its entry bounds it.
LEMMA MatchingFacts ==
  ASSUME EditorInv, reading,
         NEW positions \in SUBSET (0..(Len(history) - 1)), NEW p \in Matching(positions)
  PROVE  /\ EntryLine(p) \in Lines /\ IsPrefix(Draft, EntryLine(p))
         /\ Bounded(EntryLine(p)) /\ p \in positions
<1>1. p \in 0..(Len(history) - 1) /\ IsPrefix(context \o Draft, history[p + 1]) /\ p \in positions
  BY DEF Matching
<1>2. history[p + 1] \in Lines /\ history[p + 1] \in Range(history) /\ Draft \in Lines
  BY <1>1, DraftTyped
<1>3. context \in Lines
  BY DEF EditorInv, Types
<1>4. /\ IsPrefix(Draft, Rest(history[p + 1], Len(context)))
      /\ Len(Rest(history[p + 1], Len(context))) <= Len(history[p + 1])
      /\ Rest(history[p + 1], Len(context)) \in Lines
  BY <1>1, <1>2, <1>3, DraftFacts
<1>5. QED
  BY <1>1, <1>2, <1>4 DEF EntryLine, Bounded

-----------------------------------------------------------------------------
\* Reading a byte leaves bytes to read.
LEMMA ReadFacts ==
  ASSUME Types, NEW byte, NEW where, ReadChar(byte, where)
  PROVE  reading /\ escape = where /\ input' \in Seq(Bytes) /\ byte \in Bytes
BY HeadTailProperties DEF Types, ReadChar

\* What Enter makes of the history.
LEMMA RememberTyped == ASSUME Types PROVE Remember(line) \in Seq(Lines)
<1> DEFINE longer == Append(history, line)
<1>1. longer \in Seq(Lines) /\ Len(longer) = Len(history) + 1 /\ Len(history) \in Nat
  BY AppendProperties, LenProperties DEF Types
<1>2. ASSUME NEW h \in Seq(Lines), Len(h) > HistoryLimit PROVE Tail(h) \in Seq(Lines)
  <2>1. h # <<>>
    BY <1>2
  <2>2. QED
    BY <2>1, HeadTailProperties
<1> HIDE DEF longer
<1>3. QED
  BY <1>1, <1>2 DEF Remember, Types, longer

\* The initial state satisfies the invariant.
LEMMA InitEditor == Init => EditorInv
<1> SUFFICES ASSUME Init PROVE EditorInv
  OBVIOUS
<1>1. <<>> \in Lines /\ Len(<<>>) = 0 /\ <<>> \in Seq(Bytes) /\ <<>> \in Seq(Lines)
  BY EmptySeq
<1>2. Types
  <2>1. /\ line = <<>> /\ cursor = 0 /\ screen = [line |-> <<>>, cursor |-> 0, suggestion |-> <<>>]
        /\ history = <<>> /\ input = <<>> /\ saved_line = <<>> /\ suggestion = <<>>
        /\ context = <<>> /\ reading = FALSE /\ browsing_history = FALSE /\ returned = FALSE
        /\ escape = "none"
    BY DEF Init
  <2>2. cursor \in 0..Len(line)
    BY <1>1, <2>1
  <2>3. screen \in [line : Lines, cursor : Nat, suggestion : Lines]
    BY <1>1, <2>1
  <2>4. QED
    BY <1>1, <2>1, <2>2, <2>3 DEF Types
<1>3. QED
  BY <1>1, <1>2 DEF Init, EditorInv, ScreenCurrent, SuggestionCompletes,
     RecallStartsAtNewest, LineBounded, DraftBounded

\* An edit that leaves the line as short as max_length_ or no longer than it was keeps
\* the invariant, whether or not it ends a recall.
LEMMA EditStep ==
  ASSUME EditorInv, reading, NEW l \in Lines, NEW c \in 0..Len(l), Edit(l, c),
         input' \in Seq(Bytes),
         Len(l) <= MaxLength \/ Len(l) <= Len(line),
         UNCHANGED recall \/ (Detach /\ UNCHANGED saved_line)
  PROVE  EditorInv'
<1> DEFINE s == SuggestionFor(l, context, history)
<1>1. /\ line' = l /\ cursor' = c /\ suggestion' = s
      /\ screen' = [line |-> l, cursor |-> c, suggestion |-> s]
      /\ reading' /\ UNCHANGED <<escape, history, context, returned>>
  BY DEF Edit, RefreshLine
<1>2. s \in Lines /\ (s # <<>> => context \o l \o s \in Range(history))
  BY SuggestionFacts DEF EditorInv, Types
<1>3. Len(l) \in Nat /\ Len(line) \in Nat /\ Len(history) \in Nat
  BY LenProperties DEF EditorInv, Types
<1> HIDE DEF s
<1>4. /\ browsing_history' \in BOOLEAN /\ saved_line' = saved_line
      /\ history_position' \in 0..Len(history)
      /\ browsing_history' => browsing_history
      /\ ~browsing_history' => history_position' = Len(history)
  <2>1. CASE UNCHANGED recall
    BY <2>1 DEF EditorInv, Types, RecallStartsAtNewest, recall
  <2>2. CASE Detach /\ UNCHANGED saved_line
    <3>1. /\ browsing_history' = FALSE /\ saved_line' = saved_line
          /\ history_position' = IF browsing_history THEN Len(history) ELSE history_position
      BY <2>2 DEF Detach
    <3>2. browsing_history \in BOOLEAN /\ (~browsing_history => history_position = Len(history))
      BY DEF EditorInv, Types, RecallStartsAtNewest
    <3>3. history_position' = Len(history)
      BY <3>1, <3>2
    <3>4. Len(history) \in 0..Len(history)
      BY <1>3
    <3>5. QED
      BY <3>1, <3>3, <3>4
  <2>3. QED
    BY <2>1, <2>2
<1>5. Types'
  BY <1>1, <1>2, <1>3, <1>4 DEF EditorInv, Types
<1>6. ScreenCurrent' /\ RecallStartsAtNewest'
  BY <1>1, <1>4 DEF ScreenCurrent, RecallStartsAtNewest
<1>7. SuggestionCompletes'
  BY <1>1, <1>2 DEF SuggestionCompletes
<1>8. LineBounded'
  <2>1. Bounded(line)
    BY DEF EditorInv, LineBounded, Bounded
  <2>2. Bounded(l)
    <3>1. CASE Len(l) <= MaxLength
      BY <3>1 DEF Bounded
    <3>2. CASE Len(l) <= Len(line) /\ Len(line) <= MaxLength
      BY <1>3, <3>2 DEF Bounded
    <3>3. CASE Len(l) <= Len(line) /\ ~(Len(line) <= MaxLength)
      <4>1. PICK entry \in Range(history) : Len(line) <= Len(entry)
        BY <2>1, <3>3 DEF Bounded
      <4>2. Len(entry) \in Nat
        BY <4>1, RangeOfSeq, LenProperties DEF EditorInv, Types, Range
      <4>3. QED
        BY <1>3, <3>3, <4>1, <4>2 DEF Bounded
    <3>4. QED
      BY <3>1, <3>2, <3>3
  <2>3. QED
    BY <1>1, <2>2 DEF LineBounded, Bounded
<1>9. DraftBounded'
  BY <1>1, <1>4 DEF EditorInv, DraftBounded, Bounded
<1>10. QED
  BY <1>5, <1>6, <1>7, <1>8, <1>9 DEF EditorInv

\* A suggestion taken over makes the line end where an entry of the history does.
LEMMA TakeStep ==
  ASSUME EditorInv, reading, TakeSuggestion, suggestion # <<>>,
         input' \in Seq(Bytes), escape' \in {"none", "esc", "csi"},
         UNCHANGED <<reading, returned>>
  PROVE  EditorInv'
<1> DEFINE l == line \o suggestion
<1>1. /\ line' = l /\ cursor' = Len(l) /\ suggestion' = <<>>
      /\ screen' = [line |-> l, cursor |-> Len(l), suggestion |-> <<>>]
      /\ UNCHANGED <<history, recall, context>>
  BY DEF TakeSuggestion, RefreshLine
<1>2. l \in Lines /\ Len(l) = Len(line) + Len(suggestion) /\ <<>> \in Lines
  BY ConcatProperties, EmptySeq DEF EditorInv, Types
<1>3. Len(l) \in Nat
  BY <1>2, LenProperties
<1>4. \E entry \in Range(history) : Len(l) <= Len(entry)
  <2> DEFINE full == context \o line
  <2>1. full \in Lines /\ Len(full) = Len(context) + Len(line)
    BY ConcatProperties DEF EditorInv, Types
  <2>2. full \o suggestion \in Range(history)
    BY DEF EditorInv, SuggestionCompletes
  <2> HIDE DEF full
  <2>3. Len(full \o suggestion) = Len(full) + Len(suggestion)
    <3>1. suggestion \in Lines
      BY DEF EditorInv, Types
    <3>2. QED
      BY <2>1, <3>1, ConcatProperties
  <2>4. Len(context) \in Nat /\ Len(line) \in Nat /\ Len(suggestion) \in Nat
    BY LenProperties DEF EditorInv, Types
  <2>5. Len(l) <= Len(full \o suggestion)
    BY <1>2, <2>1, <2>3, <2>4
  <2>6. QED
    BY <2>2, <2>5
<1> HIDE DEF l
<1>5. Types'
  BY <1>1, <1>2, <1>3 DEF EditorInv, Types, recall
<1>6. ScreenCurrent' /\ RecallStartsAtNewest' /\ SuggestionCompletes'
  BY <1>1 DEF EditorInv, ScreenCurrent, RecallStartsAtNewest, SuggestionCompletes, recall
<1>7. LineBounded' /\ DraftBounded'
  BY <1>1, <1>4 DEF EditorInv, LineBounded, DraftBounded, Bounded, recall
<1>8. QED
  BY <1>5, <1>6, <1>7 DEF EditorInv

\* A line that a recall shows.
LEMMA ShowStep ==
  ASSUME EditorInv, reading,
         NEW l \in Lines, NEW p \in 0..Len(history), NEW browsing \in BOOLEAN,
         ShowRecalled(l, p, browsing), Bounded(l), ~browsing => p = Len(history),
         input' \in Seq(Bytes), escape' = "none",
         UNCHANGED <<reading, history, context, returned>>
  PROVE  EditorInv'
<1>1. /\ line' = l /\ cursor' = Len(l) /\ suggestion' = <<>>
      /\ screen' = [line |-> l, cursor |-> Len(l), suggestion |-> <<>>]
      /\ history_position' = p /\ browsing_history' = browsing /\ saved_line' = Draft
  BY DEF ShowRecalled, RefreshLine
<1>2. Draft \in Lines /\ Bounded(Draft) /\ Len(l) \in Nat /\ <<>> \in Lines
  BY DraftTyped, LenProperties, EmptySeq
<1>3. Types'
  BY <1>1, <1>2 DEF EditorInv, Types
<1>4. ScreenCurrent' /\ RecallStartsAtNewest' /\ SuggestionCompletes'
  BY <1>1 DEF ScreenCurrent, RecallStartsAtNewest, SuggestionCompletes
<1>5. LineBounded' /\ DraftBounded'
  BY <1>1, <1>2 DEF LineBounded, DraftBounded, Bounded
<1>6. QED
  BY <1>3, <1>4, <1>5 DEF EditorInv

\* The recall that finds nothing.
LEMMA BellStep ==
  ASSUME EditorInv, reading, RecallBell,
         input' \in Seq(Bytes), escape' = "none",
         UNCHANGED <<reading, history, context, returned>>
  PROVE  EditorInv'
<1>1. /\ history_position' = StartPosition /\ browsing_history' = TRUE
      /\ saved_line' = Draft /\ suggestion' = <<>> /\ UNCHANGED <<edit, screen>>
  BY DEF RecallBell
<1>2. /\ Draft \in Lines /\ Bounded(Draft) /\ <<>> \in Lines
      /\ StartPosition \in 0..Len(history)
  BY DraftTyped, EmptySeq
<1>3. Types'
  BY <1>1, <1>2 DEF EditorInv, Types, edit
<1>4. ScreenCurrent' /\ RecallStartsAtNewest' /\ SuggestionCompletes'
  BY <1>1 DEF EditorInv, ScreenCurrent, RecallStartsAtNewest, SuggestionCompletes, edit
<1>5. LineBounded' /\ DraftBounded'
  BY <1>1, <1>2 DEF EditorInv, LineBounded, DraftBounded, Bounded, edit
<1>6. QED
  BY <1>3, <1>4, <1>5 DEF EditorInv

-----------------------------------------------------------------------------
\* Every step keeps the invariant.
LEMMA StepEditor == EditorInv /\ [Next]_vars => EditorInv'
<1> SUFFICES ASSUME EditorInv, [Next]_vars PROVE EditorInv'
  OBVIOUS
<1>t. Types
  BY DEF EditorInv
<1>e. ASSUME NEW l \in Lines PROVE Len(l) \in Nat
  BY LenProperties
\* Nothing that the invariant is about changes.
<1>u. ASSUME UNCHANGED <<reading, edit, history, recall, suggestion, context, screen, returned>>,
             input' \in Seq(Bytes), escape' \in {"none", "esc", "csi"}
      PROVE  EditorInv'
  <2>1. Types'
    BY <1>t, <1>u DEF Types, edit, recall
  <2>2. ScreenCurrent' /\ SuggestionCompletes' /\ RecallStartsAtNewest'
    BY <1>u DEF EditorInv, ScreenCurrent, SuggestionCompletes, RecallStartsAtNewest, edit, recall
  <2>3. LineBounded' /\ DraftBounded'
    BY <1>u DEF EditorInv, LineBounded, DraftBounded, Bounded, edit, recall
  <2>4. QED
    BY <2>1, <2>2, <2>3 DEF EditorInv
\* ReadLine returns.
<1>r. ASSUME reading' = FALSE, Types' PROVE EditorInv'
  BY <1>r DEF EditorInv, ScreenCurrent, SuggestionCompletes, RecallStartsAtNewest,
     LineBounded, DraftBounded
<1>1. ASSUME NEW h \in Histories \union {NoHistory}, NEW ctx \in Contexts, ReadLine(h, ctx)
      PROVE  EditorInv'
  <2> DEFINE hist == IF h = NoHistory THEN history ELSE h
             first == SuggestionFor(<<>>, ctx, hist)
  <2>1. /\ reading' = TRUE /\ history' = hist /\ context' = ctx
        /\ line' = <<>> /\ cursor' = 0
        /\ history_position' = Len(hist) /\ browsing_history' = FALSE /\ saved_line' = <<>>
        /\ suggestion' = first
        /\ screen' = [line |-> <<>>, cursor |-> 0, suggestion |-> first]
        /\ UNCHANGED <<input, escape, returned>>
    BY <1>1 DEF ReadLine, RefreshLine
  <2>2. hist \in Seq(Lines) /\ ctx \in Lines /\ <<>> \in Lines /\ Len(<<>>) = 0
    BY <1>1, <1>t, EmptySeq DEF LineEditorAssumption, Types
  <2> HIDE DEF hist
  <2>3. first \in Lines /\ (first # <<>> => ctx \o <<>> \o first \in Range(hist))
    BY <2>2, SuggestionFacts
  <2>4. Len(hist) \in Nat
    BY <2>2, LenProperties
  <2> HIDE DEF first
  <2>5. Types'
    <3>1. screen' \in [line : Lines, cursor : Nat, suggestion : Lines]
      BY <2>1, <2>2, <2>3
    <3>2. cursor' \in 0..Len(line')
      BY <2>1, <2>2
    <3>3. history_position' \in 0..Len(history')
      BY <2>1, <2>4
    <3>4. QED
      BY <1>t, <2>1, <2>2, <2>3, <3>1, <3>2, <3>3 DEF Types
  <2>6. ScreenCurrent' /\ RecallStartsAtNewest' /\ DraftBounded'
    BY <2>1 DEF ScreenCurrent, RecallStartsAtNewest, DraftBounded
  <2>7. SuggestionCompletes'
    BY <2>1, <2>3 DEF SuggestionCompletes
  <2>8. LineBounded'
    BY <2>1, <2>2 DEF LineBounded, LineEditorAssumption
  <2>9. QED
    BY <2>5, <2>6, <2>7, <2>8 DEF EditorInv
<1>2. ASSUME NEW key \in Keys, Press(key) PROVE EditorInv'
  <2>1. key \in Seq(Bytes)
    <3>1. key \in Seq(Range(key)) /\ Range(key) \subseteq Bytes
      BY DEF LineEditorAssumption, Bytes
    <3>2. QED
      BY <3>1, SeqMonotonic
  <2>2. QED
    BY <1>2, <1>t, <1>u, <2>1 DEF Press, Types
<1>3. CASE EndOfInput
  BY <1>3, <1>t, <1>r DEF EndOfInput, GiveUp, Types, edit, recall
<1>4. CASE Interrupt
  <2>1. input' \in Seq(Bytes)
    BY <1>4, <1>t, ReadFacts DEF Interrupt
  <2>2. QED
    BY <1>4, <1>t, <1>r, <2>1 DEF Interrupt, GiveUp, Types, edit, recall
<1>5. CASE Accept
  <2>1. input' \in Seq(Bytes)
    BY <1>5, <1>t, ReadFacts DEF Accept
  <2>2. Remember(line) \in Seq(Lines) /\ <<>> \in Lines /\ Len(line) \in Nat
    BY <1>t, RememberTyped, EmptySeq, LenProperties DEF Types
  <2>3. Types'
    BY <1>5, <1>t, <2>1, <2>2 DEF Accept, RefreshLine, Types, edit, recall
  <2>4. QED
    BY <1>5, <1>r, <2>3 DEF Accept
<1>6. CASE Erase
  <2>1. input' \in Seq(Bytes) /\ reading
    BY <1>6, <1>t, ReadFacts DEF Erase
  <2>2. CASE BehindStart
    <3>1. Edit(RemoveAt(line, cursor), cursor - 1) /\ UNCHANGED recall
      BY <1>6, <2>2 DEF Erase
    <3>2. cursor \in 1..Len(line) /\ line \in Lines /\ Len(line) \in Nat
      BY <1>t, <1>e, <2>2 DEF Types, BehindStart
    <3>3. RemoveAt(line, cursor) \in Lines /\ Len(RemoveAt(line, cursor)) = Len(line) - 1
      BY <3>2, RemoveFacts
    <3>4. cursor - 1 \in 0..Len(RemoveAt(line, cursor)) /\ Len(RemoveAt(line, cursor)) <= Len(line)
      BY <3>2, <3>3
    <3>5. QED
      BY <2>1, <3>1, <3>3, <3>4, EditStep
  <2>3. CASE ~BehindStart
    BY <1>6, <1>t, <1>u, <2>1, <2>3 DEF Erase, Types
  <2>4. QED
    BY <2>2, <2>3
<1>7. ASSUME NEW char \in Printable, Insert(char) PROVE EditorInv'
  <2>1. input' \in Seq(Bytes) /\ reading
    BY <1>7, <1>t, ReadFacts DEF Insert
  <2>2. CASE HasRoom
    <3> DEFINE l == InsertAt(line, cursor + 1, char)
    <3>1. Edit(l, cursor + 1) /\ Detach /\ UNCHANGED saved_line
      BY <1>7, <2>2 DEF Insert
    <3>2. cursor \in 0..Len(line) /\ line \in Lines /\ Len(line) \in Nat /\ char \in Char
      BY <1>t, <1>e DEF Types, Char
    <3>3. l \in Lines /\ Len(l) = Len(line) + 1
      BY <3>2, InsertFacts
    <3> HIDE DEF l
    <3>4. cursor + 1 \in 0..Len(l) /\ Len(l) <= MaxLength
      BY <2>2, <3>2, <3>3 DEF HasRoom, LineEditorAssumption
    <3>5. QED
      BY <2>1, <3>1, <3>3, <3>4, EditStep
  <2>3. CASE ~HasRoom
    BY <1>7, <1>t, <1>u, <2>1, <2>3 DEF Insert, Types
  <2>4. QED
    BY <2>2, <2>3
<1>8. CASE Complete
  <2>1. input' \in Seq(Bytes) /\ reading
    BY <1>8, <1>t, ReadFacts DEF Complete
  <2>2. CASE suggestion # <<>>
    BY <1>8, <1>t, <2>1, <2>2, TakeStep DEF Complete, Types
  <2>3. CASE suggestion = <<>>
    BY <1>8, <1>t, <1>u, <2>1, <2>3 DEF Complete, Types
  <2>4. QED
    BY <2>2, <2>3
<1>9. ASSUME NEW byte \in Bytes, Ignore(byte) PROVE EditorInv'
  BY <1>9, <1>t, <1>u, ReadFacts DEF Ignore, Types
<1>10. CASE EscapeByte
  <2>1. input' \in Seq(Bytes)
    BY <1>10, <1>t, ReadFacts DEF EscapeByte
  <2>2. QED
    BY <1>10, <1>u, <2>1 DEF EscapeByte
<1>11. CASE MoveRight
  <2>1. input' \in Seq(Bytes) /\ reading
    BY <1>11, <1>t, ReadFacts DEF MoveRight
  <2>2. CASE cursor < Len(line)
    <3>1. /\ cursor' = cursor + 1 /\ escape' = "none"
          /\ screen' = [line |-> line, cursor |-> cursor + 1, suggestion |-> suggestion]
          /\ UNCHANGED <<line, history, recall, suggestion, context, reading, returned>>
      BY <1>11, <2>2 DEF MoveRight, RefreshLine
    <3>2. cursor' \in 0..Len(line)
      BY <1>t, <1>e, <2>2, <3>1 DEF Types
    <3>3. Types'
      BY <1>t, <2>1, <3>1, <3>2 DEF Types, recall
    <3>4. ScreenCurrent' /\ SuggestionCompletes' /\ RecallStartsAtNewest'
      BY <3>1 DEF EditorInv, ScreenCurrent, SuggestionCompletes, RecallStartsAtNewest, recall
    <3>5. LineBounded' /\ DraftBounded'
      BY <3>1 DEF EditorInv, LineBounded, DraftBounded, Bounded, recall
    <3>6. QED
      BY <3>3, <3>4, <3>5 DEF EditorInv
  <2>3. CASE ~(cursor < Len(line)) /\ suggestion # <<>>
    BY <1>11, <2>1, <2>3, TakeStep DEF MoveRight
  <2>4. CASE ~(cursor < Len(line)) /\ suggestion = <<>>
    BY <1>11, <1>u, <2>1, <2>4 DEF MoveRight
  <2>5. QED
    BY <2>2, <2>3, <2>4
<1>12. CASE MoveLeft
  <2>1. input' \in Seq(Bytes)
    BY <1>12, <1>t, ReadFacts DEF MoveLeft
  <2>2. CASE BehindStart
    <3>1. /\ cursor' = cursor - 1 /\ escape' = "none"
          /\ screen' = [line |-> line, cursor |-> cursor - 1, suggestion |-> suggestion]
          /\ UNCHANGED <<line, history, recall, suggestion, context, reading, returned>>
      BY <1>12, <2>2 DEF MoveLeft, RefreshLine
    <3>2. cursor' \in 0..Len(line)
      BY <1>t, <1>e, <2>2, <3>1 DEF Types, BehindStart
    <3>3. Types'
      BY <1>t, <2>1, <3>1, <3>2 DEF Types, recall
    <3>4. ScreenCurrent' /\ SuggestionCompletes' /\ RecallStartsAtNewest'
      BY <3>1 DEF EditorInv, ScreenCurrent, SuggestionCompletes, RecallStartsAtNewest, recall
    <3>5. LineBounded' /\ DraftBounded'
      BY <3>1 DEF EditorInv, LineBounded, DraftBounded, Bounded, recall
    <3>6. QED
      BY <3>3, <3>4, <3>5 DEF EditorInv
  <2>3. CASE ~BehindStart
    BY <1>12, <1>u, <2>1, <2>3 DEF MoveLeft, edit
  <2>4. QED
    BY <2>2, <2>3
<1>13. ASSUME NEW byte \in {"A", "B"}, RecallHistory(byte) PROVE EditorInv'
  <2>1. input' \in Seq(Bytes) /\ reading /\ escape' = "none"
        /\ UNCHANGED <<reading, history, context, returned>>
    BY <1>13, <1>t, ReadFacts DEF RecallHistory
  <2>2. CASE history = <<>>
    BY <1>13, <1>u, <2>1, <2>2 DEF RecallHistory
  <2>3. CASE RecallBell
    BY <2>1, <2>3, BellStep
  <2>d. /\ Draft \in Lines /\ Bounded(Draft) /\ StartPosition \in 0..Len(history)
        /\ Len(history) \in Nat
    BY <2>1, DraftTyped
  <2>4. CASE RecallUp /\ ~RecallBell
    <3> DEFINE older == Matching(0..(StartPosition - 1))
    <3>1. older # {} /\ ShowRecalled(EntryLine(Max(older)), Max(older), TRUE)
      BY <2>4 DEF RecallUp
    <3>2. older \subseteq 0..Len(history)
      BY <2>d DEF Matching
    <3>3. Max(older) \in older
      <4> HIDE DEF older
      <4>1. QED
        BY <2>d, <3>1, <3>2, MaxFacts
    <3>4. 0..(StartPosition - 1) \subseteq 0..(Len(history) - 1)
      BY <2>d
    <3> DEFINE p == Max(older)
    <3>5. /\ EntryLine(p) \in Lines /\ Bounded(EntryLine(p)) /\ p \in 0..Len(history)
      <4>1. p \in Matching(0..(StartPosition - 1)) /\ p \in 0..Len(history)
        BY <3>2, <3>3
      <4> HIDE DEF p
      <4>2. QED
        BY <2>1, <3>4, <4>1, MatchingFacts
    <3>6. ShowRecalled(EntryLine(p), p, TRUE)
      BY <3>1
    <3> HIDE DEF p, older
    <3>7. QED
      BY <2>1, <3>5, <3>6, ShowStep
  <2>5. CASE RecallDown /\ ~RecallBell
    <3> DEFINE newer == Matching((StartPosition + 1)..(Len(history) - 1))
    <3>1. CASE newer # {}
      <4>1. ShowRecalled(EntryLine(Min(newer)), Min(newer), TRUE)
        BY <2>5, <3>1 DEF RecallDown
      <4>2. newer \subseteq 0..Len(history) /\ newer \subseteq Nat
        BY <2>d DEF Matching
      <4>3. Min(newer) \in newer
        <5> HIDE DEF newer
        <5>1. QED
          BY <3>1, <4>2, MinFacts
      <4>4. (StartPosition + 1)..(Len(history) - 1) \subseteq 0..(Len(history) - 1)
        BY <2>d
      <4> DEFINE p == Min(newer)
      <4>5. /\ EntryLine(p) \in Lines /\ Bounded(EntryLine(p)) /\ p \in 0..Len(history)
        <5>1. p \in Matching((StartPosition + 1)..(Len(history) - 1)) /\ p \in 0..Len(history)
          BY <4>2, <4>3
        <5> HIDE DEF p
        <5>2. QED
          BY <2>1, <4>4, <5>1, MatchingFacts
      <4>6. ShowRecalled(EntryLine(p), p, TRUE)
        BY <4>1
      <4> HIDE DEF p, newer
      <4>7. QED
        BY <2>1, <4>5, <4>6, ShowStep
    <3>2. CASE newer = {}
      <4>1. ShowRecalled(Draft, Len(history), FALSE)
        BY <2>5, <3>2 DEF RecallDown
      <4>2. Len(history) \in 0..Len(history)
        BY <2>d
      <4>3. QED
        BY <2>1, <2>d, <4>1, <4>2, ShowStep
    <3>3. QED
      BY <3>1, <3>2
  <2>6. QED
    BY <1>13, <2>2, <2>3, <2>4, <2>5 DEF RecallHistory
<1>14. CASE UNCHANGED vars
  BY <1>14, <1>t, <1>u DEF vars, Types
<1>15. QED
  BY <1>1, <1>2, <1>3, <1>4, <1>5, <1>6, <1>7, <1>8, <1>9, <1>10, <1>11, <1>12, <1>13,
     <1>14 DEF Next

\* The invariant holds at all times.
LEMMA EditorInvariant == Spec => []EditorInv
BY InitEditor, StepEditor, PTL DEF Spec

-----------------------------------------------------------------------------
\* Dropping the oldest line repeats none and brings none.
LEMMA TailAsGiven ==
  ASSUME NEW s \in Seq(Lines), s # <<>>
  PROVE  /\ Tail(s) \in Seq(Lines) /\ Len(Tail(s)) = Len(s) - 1
         /\ Range(Tail(s)) \subseteq Range(s)
         /\ \A l : Twice(l, Tail(s)) => Twice(l, s)
<1> DEFINE t == Tail(s)
<1>1. t \in Seq(Lines) /\ Len(t) = Len(s) - 1 /\ \A i \in 1..Len(t) : t[i] = s[i + 1]
  BY HeadTailProperties
<1>2. DOMAIN t = 1..Len(t) /\ DOMAIN s = 1..Len(s) /\ Len(s) \in Nat
  BY <1>1, LenProperties
<1> HIDE DEF t
<1>3. \A i \in 1..Len(t) : i + 1 \in 1..Len(s)
  BY <1>1, <1>2
<1>4. Range(t) \subseteq Range(s)
  BY <1>1, <1>2, <1>3 DEF Range
<1>5. ASSUME NEW l, Twice(l, t) PROVE Twice(l, s)
  <2>1. PICK i \in 1..Len(t), k \in 1..Len(t) : i # k /\ t[i] = l /\ t[k] = l
    BY <1>2, <1>5 DEF Twice
  <2>2. i + 1 # k + 1
    BY <2>1
  <2>3. s[i + 1] = l /\ s[k + 1] = l
    BY <1>1, <2>1
  <2>4. QED
    BY <1>2, <1>3, <2>2, <2>3 DEF Twice
<1>6. QED
  BY <1>1, <1>4, <1>5 DEF t

\* Appending a new line repeats none.
LEMMA AppendAsGiven ==
  ASSUME Types, IsNew(line)
  PROVE  /\ Append(history, line) \in Seq(Lines)
         /\ Append(history, line) # <<>>
         /\ Len(Append(history, line)) = Len(history) + 1
         /\ Range(Append(history, line)) \subseteq Range(history) \union {line}
         /\ \A l : Twice(l, Append(history, line)) => Twice(l, history)
<1> DEFINE n == Len(history)
           added == Append(history, line)
<1>1. /\ history \in Seq(Lines) /\ line \in Lines /\ n \in Nat /\ DOMAIN history = 1..n
  BY LenProperties DEF Types
<1>2. /\ added \in Seq(Lines) /\ added # <<>> /\ Len(added) = n + 1
      /\ \A i \in 1..n : added[i] = history[i]
      /\ added[n + 1] = line
  BY <1>1, AppendProperties
<1>3. DOMAIN added = 1..(n + 1)
  BY <1>2, LenProperties
<1>4. \A i \in 1..n : history[i] \in Range(history) /\ history[i] # line
  BY <1>1 DEF Range, IsNew
<1> HIDE DEF n, added
<1>5. \A i \in 1..(n + 1) : i = n + 1 \/ i \in 1..n
  BY <1>1
<1>6. Range(added) \subseteq Range(history) \union {line}
  BY <1>2, <1>3, <1>4, <1>5 DEF Range
<1>7. ASSUME NEW l, Twice(l, added) PROVE Twice(l, history)
  <2>1. PICK i \in 1..(n + 1), k \in 1..(n + 1) : i # k /\ added[i] = l /\ added[k] = l
    BY <1>3, <1>7 DEF Twice
  <2>2. i \in 1..n /\ k \in 1..n
    BY <1>2, <1>4, <1>5, <2>1
  <2>3. QED
    BY <1>1, <1>2, <2>1, <2>2 DEF Twice
<1>8. QED
  BY <1>2, <1>6, <1>7 DEF n, added

\* What Enter keeps is a part of the history and at most one line more, which is
\* new and not blank; it is not longer than before or than its limit.
LEMMA RememberFacts ==
  ASSUME Types
  PROVE  /\ Remember(line) \in Seq(Lines)
         /\ \A l \in Range(Remember(line)) : l \in Range(history) \/ ~IsBlank(l)
         /\ \A l : Twice(l, Remember(line)) => Twice(l, history)
         /\ Len(Remember(line)) <= HistoryLimit \/ Len(Remember(line)) <= Len(history)
<1> DEFINE added == Append(history, line)
           kept == IF ~IsBlank(line) /\ IsNew(line) THEN added ELSE history
           Good(s) == /\ s \in Seq(Lines)
                      /\ \A l \in Range(s) : l \in Range(history) \/ ~IsBlank(l)
                      /\ \A l : Twice(l, s) => Twice(l, history)
<1>1. history \in Seq(Lines) /\ Len(history) \in Nat /\ HistoryLimit \in Nat \ {0}
  BY LenProperties DEF Types, LineEditorAssumption
<1>2. Remember(line) = IF ~IsBlank(line) /\ Len(kept) > HistoryLimit THEN Tail(kept) ELSE kept
  BY Zenon DEF Remember
<1>3. /\ Good(kept)
      /\ Len(kept) = Len(history) \/ (Len(kept) = Len(history) + 1 /\ ~IsBlank(line))
  <2>1. CASE ~IsBlank(line) /\ IsNew(line)
    <3>1. kept = added
      BY <2>1
    <3> HIDE DEF kept
    <3>2. QED
      BY <2>1, <3>1, AppendAsGiven
  <2>2. CASE ~(~IsBlank(line) /\ IsNew(line))
    <3>1. kept = history
      BY <2>2
    <3> HIDE DEF kept
    <3>2. QED
      BY <1>1, <3>1
  <2>3. QED
    BY <2>1, <2>2
<1> HIDE DEF kept, added
<1>4. CASE ~IsBlank(line) /\ Len(kept) > HistoryLimit
  <2>1. Remember(line) = Tail(kept)
    BY <1>2, <1>4
  <2>2. kept # <<>>
    <3>1. Len(<<>>) = 0
      BY EmptySeq
    <3>2. QED
      BY <1>1, <1>4, <3>1
  <2> DEFINE t == Tail(kept)
  <2>3. Good(t) /\ Len(t) = Len(kept) - 1
    BY <1>3, <2>2, TailAsGiven
  <2> HIDE DEF t
  <2>4. Len(t) <= Len(history)
    BY <1>1, <1>3, <2>3
  <2>5. QED
    BY <2>1, <2>3, <2>4 DEF t
<1>5. CASE ~(~IsBlank(line) /\ Len(kept) > HistoryLimit)
  <2>1. Remember(line) = kept
    BY <1>2, <1>5
  <2>2. Len(kept) <= HistoryLimit \/ Len(kept) <= Len(history)
    BY <1>1, <1>3, <1>5
  <2>3. QED
    BY <1>3, <2>1, <2>2
<1>6. QED
  BY <1>4, <1>5

\* So what was clean, but as callers' histories are not, stays so.
LEMMA RememberClean ==
  ASSUME Types, CleanAsGiven(history)
  PROVE  CleanAsGiven(Remember(line))
<1> DEFINE kept == Remember(line)
<1>1. /\ kept \in Seq(Lines)
      /\ \A l \in Range(kept) : l \in Range(history) \/ ~IsBlank(l)
      /\ \A l : Twice(l, kept) => Twice(l, history)
      /\ Len(kept) <= HistoryLimit \/ Len(kept) <= Len(history)
  BY RememberFacts
<1>2. Len(kept) \in Nat /\ Len(history) \in Nat /\ HistoryLimit \in Nat
  BY <1>1, LenProperties DEF Types, LineEditorAssumption
<1> HIDE DEF kept
<1>3. \A l : Twice(l, history) => l \in Range(history)
  BY DEF Twice, Range
<1>4. ASSUME NEW l \in Range(kept)
      PROVE  /\ Twice(l, kept) => \E h \in Histories : Twice(l, h)
             /\ IsBlank(l) => \E h \in Histories : l \in Range(h)
  BY <1>1, <1>3 DEF CleanAsGiven
<1>5. Len(kept) <= HistoryLimit \/ \E h \in Histories : Len(kept) <= Len(h)
  <2>1. CASE Len(history) <= HistoryLimit
    BY <1>1, <1>2, <2>1
  <2>2. ASSUME NEW h \in Histories, Len(history) <= Len(h)
        PROVE  Len(kept) <= HistoryLimit \/ Len(kept) <= Len(h)
    <3>1. Len(h) \in Nat
      BY LenProperties DEF LineEditorAssumption
    <3>2. QED
      BY <1>1, <1>2, <2>2, <3>1
  <2>3. QED
    BY <2>1, <2>2 DEF CleanAsGiven
<1>6. QED
  BY <1>1, <1>4, <1>5 DEF CleanAsGiven, kept

\* A history that a caller passes is as given.
LEMMA GivenIsClean == ASSUME NEW h \in Histories PROVE CleanAsGiven(h)
<1>1. h \in Seq(Lines) /\ Len(h) \in Nat
  BY LenProperties DEF LineEditorAssumption
<1>2. Len(h) <= Len(h)
  BY <1>1
<1>3. QED
  BY <1>1, <1>2 DEF CleanAsGiven

\* Whatever histories the callers pass, the editor's is as clean as theirs.
LEMMA StepHistory == EditorInv /\ HistoryKept /\ [Next]_vars => HistoryKept'
<1> SUFFICES ASSUME EditorInv, HistoryKept, [Next]_vars PROVE HistoryKept'
  OBVIOUS
<1>1. Types
  BY DEF EditorInv
<1>2. reading' => history_position' \in Nat
  BY StepEditor DEF EditorInv, Types
<1>3. CASE Accept
  BY <1>1, <1>3, RememberClean DEF Accept, HistoryKept, recall, CleanAsGiven
<1>4. ASSUME NEW h \in Histories \union {NoHistory}, NEW ctx \in Contexts, ReadLine(h, ctx)
      PROVE  HistoryKept'
  <2>1. CleanAsGiven(history)'
    BY <1>4, GivenIsClean DEF ReadLine, HistoryKept, CleanAsGiven
  <2>2. QED
    BY <1>2, <1>4, <2>1 DEF ReadLine, HistoryKept
<1>5. ASSUME history' = history, reading' \/ history_position' = history_position
      PROVE  HistoryKept'
  BY <1>2, <1>5 DEF HistoryKept, CleanAsGiven
<1>6. CASE EndOfInput \/ Interrupt \/ UNCHANGED vars
  BY <1>5, <1>6 DEF EndOfInput, Interrupt, GiveUp, recall, vars
<1>7. CASE Erase
  BY <1>5, <1>7 DEF Erase, Edit, ReadChar, recall
<1>8. CASE Complete \/ MoveRight \/ MoveLeft \/ EscapeByte
  BY <1>5, <1>8 DEF Complete, MoveRight, MoveLeft, EscapeByte, TakeSuggestion, recall
<1>9. ASSUME NEW char \in Printable, Insert(char) PROVE HistoryKept'
  BY <1>5, <1>9 DEF Insert, Edit, ReadChar
<1>10. ASSUME NEW byte \in Bytes, Ignore(byte) PROVE HistoryKept'
  BY <1>5, <1>10 DEF Ignore, recall
<1>11. ASSUME NEW key \in Keys, Press(key) PROVE HistoryKept'
  BY <1>5, <1>11 DEF Press, recall
<1>12. ASSUME NEW byte, RecallHistory(byte) PROVE HistoryKept'
  BY <1>5, <1>12 DEF RecallHistory, ReadChar
<1>13. QED
  BY <1>3, <1>4, <1>6, <1>7, <1>8, <1>9, <1>10, <1>11, <1>12 DEF Next

-----------------------------------------------------------------------------
\* Whatever histories the callers pass, with lines twice, blank ones and too many, and
\* however often lines are entered and recalled: the history repeats a line, holds a
\* blank one or exceeds its limit only as theirs did, and every other variable is in
\* its range, the position of a recall within the history.
THEOREM EditorTyped == Spec => []TypeOK
<1>1. Init => HistoryKept
  <2> SUFFICES ASSUME Init PROVE HistoryKept
    OBVIOUS
  <2>1. history = <<>> /\ history_position = 0
    BY DEF Init
  <2>2. <<>> \in Seq(Lines) /\ Len(<<>>) = 0
    BY EmptySeq
  <2>3. DOMAIN history = {} /\ Range(history) = {}
    BY <2>1 DEF Range
  <2>4. QED
    BY <2>1, <2>2, <2>3 DEF HistoryKept, CleanAsGiven, LineEditorAssumption
<1>2. EditorInv /\ HistoryKept => TypeOK
  BY DEF EditorInv, Types, HistoryKept, TypeOK
<1>3. QED
  BY EditorInvariant, StepHistory, <1>1, <1>2, PTL DEF Spec

\* Whenever the editor waits for a key, the screen shows the line and the cursor as they
\* are, and no suggestion that is gone but for the one a bell leaves.
THEOREM EditorShows == Spec => []ScreenCurrent
<1>1. EditorInv => ScreenCurrent
  BY DEF EditorInv
<1>2. QED
  BY EditorInvariant, <1>1, PTL

\* A suggestion always completes context and line to an entry of the history.
THEOREM EditorSuggests == Spec => []SuggestionCompletes
<1>1. EditorInv => SuggestionCompletes
  BY DEF EditorInv
<1>2. QED
  BY EditorInvariant, <1>1, PTL

\* Outside a recall the position is that of a new line.
THEOREM EditorStartsAtNewest == Spec => []RecallStartsAtNewest
<1>1. EditorInv => RecallStartsAtNewest
  BY DEF EditorInv
<1>2. QED
  BY EditorInvariant, <1>1, PTL

\* A line is longer than max_length_ only as far as an entry of the history is.
THEOREM EditorBounded == Spec => []LineBounded
<1>1. EditorInv => LineBounded
  BY DEF EditorInv
<1>2. QED
  BY EditorInvariant, <1>1, PTL

\* An arrow key shows only lines that go on from what was typed before the recall.
THEOREM EditorKeepsDraft == Spec => RecallKeepsDraft
<1>1. EditorInv /\ [Next]_vars =>
        [(RecallHistory("A") \/ RecallHistory("B")) /\ line' # line
           => IsPrefix(saved_line', line')]_vars
  <2> SUFFICES ASSUME EditorInv, NEW byte \in {"A", "B"}, RecallHistory(byte), line' # line
               PROVE  IsPrefix(saved_line', line')
    OBVIOUS
  <2>1. reading
    BY DEF RecallHistory, ReadChar
  <2>2. /\ Draft \in Lines /\ StartPosition \in 0..Len(history) /\ Len(history) \in Nat
    BY <2>1, DraftTyped
  <2>3. ASSUME NEW positions \in SUBSET (0..(Len(history) - 1)), NEW p \in Matching(positions),
               ShowRecalled(EntryLine(p), p, TRUE)
        PROVE  IsPrefix(saved_line', line')
    BY <2>1, <2>3, MatchingFacts DEF ShowRecalled
  <2>4. CASE RecallUp
    <3> DEFINE positions == 0..(StartPosition - 1)
               older == Matching(positions)
    <3>1. older # {} /\ ShowRecalled(EntryLine(Max(older)), Max(older), TRUE)
      BY <2>4 DEF RecallUp, RecallBell, edit
    <3>2. older \subseteq 0..Len(history) /\ positions \in SUBSET (0..(Len(history) - 1))
      BY <2>2 DEF Matching
    <3> HIDE DEF positions
    <3>3. Max(older) \in older
      <4> HIDE DEF older
      <4>1. QED
        BY <2>2, <3>1, <3>2, MaxFacts
    <3>4. QED
      BY <2>3, <3>1, <3>2, <3>3
  <2>5. CASE RecallDown
    <3> DEFINE positions == (StartPosition + 1)..(Len(history) - 1)
               newer == Matching(positions)
    <3>1. CASE newer # {}
      <4>1. ShowRecalled(EntryLine(Min(newer)), Min(newer), TRUE)
        BY <2>5, <3>1 DEF RecallDown
      <4>2. newer \subseteq Nat /\ positions \in SUBSET (0..(Len(history) - 1))
        BY <2>2 DEF Matching
      <4> HIDE DEF positions
      <4>3. Min(newer) \in newer
        <5> HIDE DEF newer
        <5>1. QED
          BY <3>1, <4>2, MinFacts
      <4>4. QED
        BY <2>3, <4>1, <4>2, <4>3
    <3>2. CASE newer = {}
      <4>1. ShowRecalled(Draft, Len(history), FALSE)
        BY <2>5, <3>2 DEF RecallDown, RecallBell, edit
      <4>2. saved_line' = Draft /\ line' = Draft
        BY <4>1 DEF ShowRecalled
      <4>3. QED
        BY <2>2, <4>2, PrefixFacts
    <3>3. QED
      BY <3>1, <3>2
  <2>6. QED
    BY <2>4, <2>5 DEF RecallHistory, edit
<1>2. QED
  BY EditorInvariant, <1>1, PTL DEF Spec, RecallKeepsDraft
=============================================================================
