--------------------------- MODULE ReadingProofs ----------------------------
(* Theorems about what the tokenizer makes of a line, for every line, every  *)
(* size of token_buffer and of the tokens array: it reads the tokens that    *)
(* LineMeaning finds in the whole line.                                      *)
EXTENDS LineMeaning, FrontEndProofs, FiniteSetTheorems, WellFoundedInduction

-----------------------------------------------------------------------------
(* Positions and their order                                                 *)

LEMMA PositionsFinite ==
  ASSUME NEW n \in Nat, NEW S \in SUBSET (1 .. n)
  PROVE  IsFiniteSet(S) /\ Cardinality(S) \in Nat
<1>1. IsFiniteSet(1 .. n)
  BY FS_Interval
<1>2. IsFiniteSet(S)
  BY <1>1, FS_Subset
<1> QED BY <1>2, FS_CardinalityType

(* The place of a position is its place among those up to any later one.     *)
LEMMA RankBounded ==
  ASSUME NEW n \in Nat, NEW S \in SUBSET (1 .. n), NEW x \in S
  PROVE  Rank(S, x) \in 1 .. Cardinality(S)
<1> DEFINE T == {y \in S : y <= x}
<1>1. IsFiniteSet(S) /\ Cardinality(S) \in Nat
  BY PositionsFinite
<1>2. T \in SUBSET S /\ T # {}
  OBVIOUS
<1>3. IsFiniteSet(T) /\ Cardinality(T) <= Cardinality(S)
  BY <1>1, <1>2, FS_Subset
<1>4. Cardinality(T) \in Nat /\ Cardinality(T) # 0
  BY <1>2, <1>3, FS_CardinalityType, FS_EmptySet
<1>5. Rank(S, x) = Cardinality(T)
  BY DEF Rank
<1> HIDE DEF T
<1> QED BY <1>1, <1>3, <1>4, <1>5

(* A position behind all others comes last and moves none of them.           *)
LEMMA RankAdd ==
  ASSUME NEW n \in Nat, NEW S \in SUBSET (1 .. n), NEW x \in Nat, x > n
  PROVE  /\ Cardinality(S \cup {x}) = Cardinality(S) + 1
         /\ Rank(S \cup {x}, x) = Cardinality(S) + 1
         /\ \A y \in S : Rank(S \cup {x}, y) = Rank(S, y)
<1>1. IsFiniteSet(S) /\ Cardinality(S) \in Nat /\ x \notin S
  BY PositionsFinite
<1>2. Cardinality(S \cup {x}) = Cardinality(S) + 1
  BY <1>1, FS_AddElement
<1>3. {y \in S \cup {x} : y <= x} = S \cup {x}
  <2>1. \A y \in S \cup {x} : y <= x
    OBVIOUS
  <2> QED BY <2>1, Zenon
<1>4. \A y \in S : {z \in S \cup {x} : z <= y} = {z \in S : z <= y}
  OBVIOUS
<1> QED BY <1>2, <1>3, <1>4 DEF Rank

(* In an interval the place is the distance from the start.                  *)
LEMMA RankInterval ==
  ASSUME NEW a \in Nat, NEW b \in Nat, a <= b + 1
  PROVE  /\ Cardinality(a .. b) = b - a + 1
         /\ \A k \in a .. b : Rank(a .. b, k) = k - a + 1
<1>1. Cardinality(a .. b) = b - a + 1
  BY FS_Interval
<1>2. ASSUME NEW k \in a .. b PROVE Rank(a .. b, k) = k - a + 1
  <2>1. {y \in a .. b : y <= k} = a .. k
    OBVIOUS
  <2>2. Cardinality(a .. k) = k - a + 1
    BY FS_Interval
  <2> QED BY <2>1, <2>2 DEF Rank
<1> QED BY <1>1, <1>2

(* A text grows by the next character that is kept.                          *)
LEMMA SpellsAdd ==
  ASSUME NEW s, NEW n \in Nat, NEW K \in SUBSET (1 .. n), NEW k \in Nat, k > n,
         NEW C, NEW t \in Seq(C), s[k] \in C, Spells(s, K, t)
  PROVE  Spells(s, K \cup {k}, Append(t, s[k]))
<1>1. /\ Cardinality(K \cup {k}) = Cardinality(K) + 1
      /\ Rank(K \cup {k}, k) = Cardinality(K) + 1
      /\ \A j \in K : Rank(K \cup {k}, j) = Rank(K, j)
  BY RankAdd
<1>2. \A j \in K : Rank(K, j) \in 1 .. Cardinality(K)
  BY RankBounded
<1>3. Len(t) = Cardinality(K) /\ \A j \in K : t[Rank(K, j)] = s[j]
  BY DEF Spells
<1>4. /\ Len(Append(t, s[k])) = Len(t) + 1 /\ Append(t, s[k])[Len(t) + 1] = s[k]
      /\ \A m \in 1 .. Len(t) : Append(t, s[k])[m] = t[m]
  OBVIOUS
<1> QED BY <1>1, <1>2, <1>3, <1>4 DEF Spells

(* The tokens grow by the one that starts behind all others.                 *)
LEMMA TextsAdd ==
  ASSUME NEW s, NEW n \in Nat, NEW S \in SUBSET (1 .. n), NEW i \in Nat, i > n,
         NEW C, NEW ts \in Seq(C), NEW t \in C,
         Texts(s, S, ts), ~Refusable(s, i), Spells(s, Kept(s, i), t)
  PROVE  Texts(s, S \cup {i}, Append(ts, t))
<1>1. /\ Cardinality(S \cup {i}) = Cardinality(S) + 1
      /\ Rank(S \cup {i}, i) = Cardinality(S) + 1
      /\ \A j \in S : Rank(S \cup {i}, j) = Rank(S, j)
  BY RankAdd
<1>2. \A j \in S : Rank(S, j) \in 1 .. Cardinality(S)
  BY RankBounded
<1>3. Len(ts) = Cardinality(S)
  BY DEF Texts
<1>4. /\ Len(Append(ts, t)) = Len(ts) + 1 /\ Append(ts, t)[Len(ts) + 1] = t
      /\ \A m \in 1 .. Len(ts) : Append(ts, t)[m] = ts[m]
  OBVIOUS
<1>5. ASSUME NEW j \in S
      PROVE  ~Refusable(s, j) /\ Spells(s, Kept(s, j), Append(ts, t)[Rank(S \cup {i}, j)])
  BY <1>1, <1>2, <1>3, <1>4 DEF Texts
<1>6. Spells(s, Kept(s, i), Append(ts, t)[Rank(S \cup {i}, i)])
  BY <1>1, <1>3, <1>4
<1> QED BY <1>1, <1>3, <1>4, <1>5, <1>6 DEF Texts
-----------------------------------------------------------------------------
(* Where tokens start, position by position                                  *)

(* What is blank or inside a token adds no start.                            *)
LEMMA StartsOver ==
  ASSUME NEW s, NEW n \in Nat, NEW m \in Nat, n <= m, NEW S \in SUBSET (1 .. n),
         Starts(s, n, S),
         \A k \in n + 1 .. m : s[k] = Blank \/ \E i \in S : Covers(s, i, k)
  PROVE  Starts(s, m, S)
<1> SUFFICES ASSUME NEW k \in 1 .. m
             PROVE  k \in S <=> s[k] # Blank /\ \A i \in S : i < k => ~Covers(s, i, k)
  BY DEF Starts
<1>1. CASE k <= n
  BY <1>1 DEF Starts
<1>2. CASE k > n
  <2>1. k \notin S /\ k \in n + 1 .. m /\ \A i \in S : i < k
    BY <1>2
  <2> QED BY <2>1
<1> QED BY <1>1, <1>2

LEMMA StartsAdd ==
  ASSUME NEW s, NEW i \in Nat \ {0}, NEW S \in SUBSET (1 .. i - 1), Starts(s, i - 1, S),
         s[i] # Blank, \A j \in S : ~Covers(s, j, i)
  PROVE  Starts(s, i, S \cup {i})
<1> SUFFICES ASSUME NEW k \in 1 .. i
             PROVE  k \in S \cup {i} <=>
                      s[k] # Blank /\ \A j \in S \cup {i} : j < k => ~Covers(s, j, k)
  BY DEF Starts
<1>1. CASE k = i
  BY <1>1
<1>2. CASE k < i
  <2>1. k \in 1 .. i - 1 /\ ~(i < k) /\ k # i
    BY <1>2
  <2>2. k \in S <=> s[k] # Blank /\ \A j \in S : j < k => ~Covers(s, j, k)
    BY <2>1 DEF Starts
  <2> QED BY <2>1, <2>2
<1> QED BY <1>1, <1>2

-----------------------------------------------------------------------------
(* Backslashes in quotes                                                     *)

LEMMA LeastOf ==
  ASSUME NEW T \in SUBSET Nat, T # {}
  PROVE  \E m \in T : \A n \in T : m <= n
<1>1. PICK m \in T : \A n \in T : ~(<<n, m>> \in OpToRel(<, Nat))
  BY WFMin, NatLessThanWellFounded
<1>2. \A n \in T : ~(n < m)
  BY <1>1 DEF OpToRel
<1> QED BY <1>2

(* The backslashes directly before k end at something else.                  *)
LEMMA RunBefore ==
  ASSUME NEW s, NEW i \in Nat, NEW k \in Nat, i < k, s[i] # Backslash
  PROVE  \E r \in 0 .. k - i - 1 : /\ s[k - r - 1] # Backslash
                                   /\ \A j \in k - r .. k - 1 : s[j] = Backslash
<1> DEFINE T == {r \in 0 .. k - i - 1 : s[k - r - 1] # Backslash}
<1>1. k - i - 1 \in T
  <2>1. k - (k - i - 1) - 1 = i
    OBVIOUS
  <2> QED BY <2>1
<1>2. PICK r \in T : \A n \in T : r <= n
  <2>1. T \in SUBSET Nat
    OBVIOUS
  <2> HIDE DEF T
  <2>2. T # {}
    BY <1>1
  <2> QED BY <2>1, <2>2, LeastOf
<1>3. ASSUME NEW j \in k - r .. k - 1 PROVE s[j] = Backslash
  <2>1. k - j - 1 \in 0 .. k - i - 1 /\ k - j - 1 < r /\ k - (k - j - 1) - 1 = j
    BY <1>2
  <2>2. k - j - 1 \notin T
    BY <1>2, <2>1
  <2> QED BY <2>1, <2>2
<1> QED BY <1>2, <1>3

LEMMA EscapedFlips ==
  ASSUME NEW s, NEW i \in Nat, NEW k \in Nat, i < k, s[i] = Double, s[k] = Backslash
  PROVE  Escaped(s, i, k + 1) <=> ~Escaped(s, i, k)
<1>1. PICK r \in 0 .. k - i - 1 : /\ s[k - r - 1] # Backslash
                                 /\ \A j \in k - r .. k - 1 : s[j] = Backslash
  BY RunBefore, DistinctAssumption
<1>2. ASSUME NEW q \in 1 .. k - i - 1, s[k - q - 1] # Backslash,
             \A j \in k - q .. k - 1 : s[j] = Backslash
      PROVE  q = r
  <2>1. CASE q < r
    BY <1>1, <1>2, <2>1
  <2>2. CASE r < q
    BY <1>1, <1>2, <2>2
  <2> QED BY <2>1, <2>2
<1>3. ASSUME NEW q \in 1 .. k + 1 - i - 1, s[k + 1 - q - 1] # Backslash,
             \A j \in k + 1 - q .. k + 1 - 1 : s[j] = Backslash
      PROVE  q = r + 1
  <2>1. CASE q < r + 1
    <3>1. k - q \in k - r .. k - 1 \/ q = r + 1 \/ k - q = k
      BY <2>1
    <3> QED BY <1>1, <1>3, <2>1, <3>1
  <2>2. CASE r + 1 < q
    <3>1. k - r - 1 \in k + 1 - q .. k
      BY <2>2
    <3> QED BY <1>1, <1>3, <3>1
  <2> QED BY <2>1, <2>2
<1>4. /\ r + 1 \in 1 .. k + 1 - i - 1 /\ s[k + 1 - (r + 1) - 1] # Backslash
      /\ \A j \in k + 1 - (r + 1) .. k + 1 - 1 : s[j] = Backslash
  <2>1. /\ k + 1 - (r + 1) - 1 = k - r - 1 /\ k + 1 - (r + 1) = k - r /\ k + 1 - 1 = k
        /\ r + 1 \in 1 .. k + 1 - i - 1
    OBVIOUS
  <2>2. \A j \in k - r .. k : j \in k - r .. k - 1 \/ j = k
    OBVIOUS
  <2> QED BY <1>1, <2>1, <2>2
<1>5. Escaped(s, i, k) <=> r % 2 = 1
  <2>1. r % 2 = 1 => r \in 1 .. k - i - 1
    OBVIOUS
  <2> QED BY <1>1, <1>2, <2>1 DEF Escaped
<1>6. Escaped(s, i, k + 1) <=> (r + 1) % 2 = 1
  BY <1>3, <1>4 DEF Escaped
<1>7. (r + 1) % 2 = 1 <=> ~(r % 2 = 1)
  OBVIOUS
<1> QED BY <1>5, <1>6, <1>7

LEMMA NotEscaped ==
  ASSUME NEW s, NEW i \in Nat, NEW k \in Nat
  PROVE  /\ s[i] # Double => ~Escaped(s, i, k)
         /\ ~Escaped(s, i, i + 1)
         /\ s[k] # Backslash => ~Escaped(s, i, k + 1)
<1>1. ASSUME s[k] # Backslash PROVE ~Escaped(s, i, k + 1)
  <2>1. \A r \in 1 .. k + 1 - i - 1 : k \in k + 1 - r .. k + 1 - 1
    OBVIOUS
  <2> QED BY <1>1, <2>1 DEF Escaped
<1>2. 1 .. i + 1 - i - 1 = {}
  OBVIOUS
<1> QED BY <1>1, <1>2 DEF Escaped

-----------------------------------------------------------------------------
(* The invariant: what has been read of the line when cursor is reached      *)

(* No token of S reaches to c or beyond.                                     *)
Past(s, S, c) == \A i \in S : \A k \in c .. Len(s) : ~Covers(s, i, k)

(* What is kept of the quotes opened at i, which are still open at c.        *)
Inside(s, i, c) ==
  {k \in i + 1 .. c - 1 : s[i] = Double /\ s[k] = Backslash => Escaped(s, i, k)}

WordSoFar(s, i, c, b) ==
  /\ s[i] \notin Quotes \cup Specials /\ i <= c
  /\ Len(b) = c - i
  /\ \A k \in i .. c - 1 : InWord(s[k]) /\ b[k - i + 1] = s[k]

QuoteSoFar(s, i, c, q, b) ==
  /\ s[i] = q /\ i < c
  /\ \A k \in i + 1 .. c - 1 : ~Closes(s, i, k)
  /\ ~Escaped(s, i, c)
  /\ Spells(s, Inside(s, i, c), b)

Between ==
  mode = "blank" =>
    \E S \in SUBSET (1 .. cursor - 1) :
      Starts(line, cursor - 1, S) /\ Past(line, S, cursor) /\ Texts(line, S, tokens)

InToken ==
  mode \in {"word", "single", "double"} =>
    \E i \in 1 .. Len(line) : \E S \in SUBSET (1 .. i - 1) :
      /\ Starts(line, i - 1, S) /\ Past(line, S, i) /\ Texts(line, S, tokens)
      /\ line[i] # Blank
      /\ IF mode = "word" THEN WordSoFar(line, i, cursor, buffer)
         ELSE QuoteSoFar(line, i, cursor, Closing, buffer)

AtStore ==
  mode = "store" =>
    \E i \in 1 .. cursor - 1 : \E S \in SUBSET (1 .. i - 1) :
      /\ Starts(line, cursor - 1, S \cup {i}) /\ Past(line, S \cup {i}, cursor)
      /\ Texts(line, S, tokens)
      /\ ~Refusable(line, i) /\ Spells(line, Kept(line, i), buffer)

AtReturn == /\ mode \in {"done", "overrun"} => Reads(line, tokens)
            /\ mode = "done"    => Len(tokens) < MaxTokens
            /\ mode = "overrun" => Len(tokens) = MaxTokens

ReadInv == Between /\ InToken /\ AtStore /\ AtReturn /\ RefusedForQuotes

(* Only the part that speaks of the new mode has to be shown.                *)
LEMMA ModeDecides ==
  /\ mode' = "blank" /\ Between' => ReadInv'
  /\ mode' \in {"word", "single", "double"} /\ InToken' => ReadInv'
  /\ mode' = "store" /\ AtStore' => ReadInv'
  /\ mode' \in {"done", "overrun"} /\ AtReturn' => ReadInv'
  /\ mode' = "unmatched" /\ RefusedForQuotes' => ReadInv'
  /\ mode' = "failed" => ReadInv'
BY DEF ReadInv, Between, InToken, AtStore, AtReturn, RefusedForQuotes

LEMMA ReadInit == Init => ReadInv
<1> SUFFICES ASSUME Init PROVE ReadInv
  OBVIOUS
<1>1. mode = "blank" /\ cursor = 1 /\ tokens = <<>>
  BY DEF Init
<1>2. Starts(line, 0, {}) /\ Past(line, {}, 1)
  BY DEF Starts, Past
<1>3. Texts(line, {}, <<>>)
  BY FS_EmptySet DEF Texts
<1>4. Between
  BY <1>1, <1>2, <1>3 DEF Between
<1> QED BY <1>1, <1>4 DEF ReadInv, InToken, AtStore, AtReturn, RefusedForQuotes

-----------------------------------------------------------------------------
(* Between tokens                                                            *)

LEMMA SkipBlankReads ==
  ASSUME TypeOK, InBounds, ReadInv, SkipBlank
  PROVE  ReadInv'
<1>1. /\ line' = line /\ tokens' = tokens /\ mode' = "blank" /\ cursor' = cursor + 1
      /\ mode = "blank" /\ line[cursor] = Blank /\ cursor \in 1 .. Len(line)
  BY NextChar DEF SkipBlank, Next1
<1>2. PICK S \in SUBSET (1 .. cursor - 1) :
        Starts(line, cursor - 1, S) /\ Past(line, S, cursor) /\ Texts(line, S, tokens)
  BY <1>1 DEF ReadInv, Between
<1>3. Starts(line, cursor, S)
  <2>1. cursor - 1 \in Nat /\ cursor \in Nat /\ cursor - 1 <= cursor
    BY <1>1
  <2>2. \A k \in cursor - 1 + 1 .. cursor : line[k] = Blank
    BY <1>1
  <2> QED BY <1>2, <2>1, <2>2, StartsOver
<1>4. Past(line, S, cursor + 1)
  BY <1>1, <1>2 DEF Past
<1>5. S \in SUBSET (1 .. cursor' - 1) /\ cursor' - 1 = cursor
  BY <1>1
<1>6. Between'
  BY <1>1, <1>2, <1>3, <1>4, <1>5 DEF Between
<1> QED BY <1>1, <1>6, ModeDecides

LEMMA FinishReads ==
  ASSUME TypeOK, InBounds, ReadInv, Finish
  PROVE  ReadInv'
<1>1. /\ line' = line /\ tokens' = tokens /\ mode = "blank" /\ cursor = Len(line) + 1
      /\ mode' = IF Len(tokens) < MaxTokens THEN "done" ELSE "overrun"
  BY DEF Finish, AtEnd
<1>2. cursor - 1 = Len(line)
  BY <1>1 DEF TypeOK
<1>3. Reads(line, tokens)
  BY <1>1, <1>2 DEF ReadInv, Between, Reads
<1>4. Len(tokens) \in Nat /\ Len(tokens) <= MaxTokens /\ MaxTokens \in Nat
  BY LimitsAssumption DEF TypeOK, InBounds, LimitsAssumption
<1>5. AtReturn' /\ mode' \in {"done", "overrun"}
  BY <1>1, <1>3, <1>4 DEF AtReturn
<1> QED BY <1>5, ModeDecides

LEMMA StoreReads ==
  ASSUME TypeOK, InBounds, ReadInv, Store
  PROVE  ReadInv'
<1>1. /\ line' = line /\ tokens' = Append(tokens, buffer) /\ mode' = "blank" /\ cursor' = cursor
      /\ mode = "store" /\ cursor \in Nat /\ tokens \in Seq(Seq(Chars)) /\ buffer \in Seq(Chars)
  BY DEF Store, TypeOK
<1>2. PICK i \in 1 .. cursor - 1 : \E S \in SUBSET (1 .. i - 1) :
        /\ Starts(line, cursor - 1, S \cup {i}) /\ Past(line, S \cup {i}, cursor)
        /\ Texts(line, S, tokens)
        /\ ~Refusable(line, i) /\ Spells(line, Kept(line, i), buffer)
  BY <1>1 DEF ReadInv, AtStore
<1>3. PICK S \in SUBSET (1 .. i - 1) :
        /\ Starts(line, cursor - 1, S \cup {i}) /\ Past(line, S \cup {i}, cursor)
        /\ Texts(line, S, tokens)
        /\ ~Refusable(line, i) /\ Spells(line, Kept(line, i), buffer)
  BY <1>2
<1>4. Texts(line, S \cup {i}, Append(tokens, buffer))
  <2>1. i - 1 \in Nat /\ i \in Nat /\ i > i - 1
    BY <1>1
  <2> QED BY <1>1, <1>3, <2>1, TextsAdd
<1>5. S \cup {i} \in SUBSET (1 .. cursor - 1)
  BY <1>1
<1>6. Between'
  BY <1>1, <1>3, <1>4, <1>5 DEF Between
<1> QED BY <1>1, <1>6, ModeDecides

-----------------------------------------------------------------------------
(* The first character of a token                                            *)

LEMMA OpenQuoteReads ==
  ASSUME TypeOK, InBounds, ReadInv, OpenQuote
  PROVE  ReadInv'
<1>1. /\ line' = line /\ tokens' = tokens /\ buffer' = <<>> /\ cursor' = cursor + 1
      /\ mode = "blank" /\ mode' = (IF line[cursor] = Single THEN "single" ELSE "double")
      /\ line[cursor] \in {Single, Double} /\ cursor \in 1 .. Len(line)
  BY NextChar DEF OpenQuote, Next1
<1>2. PICK S \in SUBSET (1 .. cursor - 1) :
        Starts(line, cursor - 1, S) /\ Past(line, S, cursor) /\ Texts(line, S, tokens)
  BY <1>1 DEF ReadInv, Between
<1>3. line[cursor] # Blank /\ line[cursor] = Closing'
  BY <1>1, DistinctAssumption DEF Closing, DistinctAssumption
<1>4. Inside(line, cursor, cursor + 1) = {}
  BY <1>1 DEF Inside
<1>5. Spells(line, Inside(line, cursor, cursor + 1), <<>>)
  BY <1>4, FS_EmptySet DEF Spells
<1>6. QuoteSoFar(line, cursor, cursor', Closing', buffer')
  <2>1. ~Escaped(line, cursor, cursor + 1) /\ cursor + 1 .. cursor + 1 - 1 = {}
    BY <1>1, NotEscaped
  <2> QED BY <1>1, <1>3, <1>5, <2>1 DEF QuoteSoFar
<1>7. InToken'
  BY <1>1, <1>2, <1>3, <1>6 DEF InToken
<1> QED BY <1>1, <1>7, ModeDecides

LEMMA StartWordReads ==
  ASSUME TypeOK, InBounds, ReadInv, StartWord
  PROVE  ReadInv'
<1>1. /\ line' = line /\ tokens' = tokens /\ buffer' = <<>> /\ cursor' = cursor
      /\ mode = "blank" /\ mode' = "word"
      /\ line[cursor] \notin Specials \cup {Blank, Single, Double} /\ cursor \in 1 .. Len(line)
  BY NextChar DEF StartWord, Next1
<1>2. PICK S \in SUBSET (1 .. cursor - 1) :
        Starts(line, cursor - 1, S) /\ Past(line, S, cursor) /\ Texts(line, S, tokens)
  BY <1>1 DEF ReadInv, Between
<1>3. WordSoFar(line, cursor, cursor', buffer')
  BY <1>1 DEF WordSoFar, Quotes
<1>4. InToken'
  BY <1>1, <1>2, <1>3 DEF InToken
<1> QED BY <1>1, <1>4, ModeDecides

LEMMA OperatorReads ==
  ASSUME TypeOK, InBounds, ReadInv, Operator
  PROVE  ReadInv'
<1> DEFINE c == cursor
<1>1. /\ line' = line /\ tokens' = tokens /\ mode' = "store" /\ mode = "blank"
      /\ line[c] \in Specials /\ c \in 1 .. Len(line) /\ line \in Seq(Chars)
  BY NextChar DEF Operator, Next1, TypeOK
<1>2. PICK S \in SUBSET (1 .. c - 1) :
        Starts(line, c - 1, S) /\ Past(line, S, c) /\ Texts(line, S, tokens)
  BY <1>1 DEF ReadInv, Between
<1>3. PICK n \in {1, 2} : /\ n = 2 => c < Len(line) /\ line[c + 1] = line[c]
                          /\ n = 1 => c = Len(line) \/ line[c + 1] # line[c]
                          /\ buffer' = SubSeq(line, c, c + n - 1) /\ cursor' = c + n
  <2>1. CASE IsDouble
    BY <1>1, <2>1 DEF Operator, IsDouble, Next1
  <2>2. CASE ~IsDouble
    <3>1. buffer' = SubSeq(line, c, c + 1 - 1) /\ cursor' = c + 1
      BY <2>2 DEF Operator
    <3> QED BY <1>1, <2>2, <3>1 DEF IsDouble, Next1
  <2> QED BY <2>1, <2>2
<1>4. line[c] \notin Quotes /\ line[c] # Blank
  BY <1>1, DistinctAssumption DEF Quotes, DistinctAssumption
<1>5. \A k \in c .. Len(line) : Covers(line, c, k) <=> k <= c + n - 1
  BY <1>1, <1>3, <1>4 DEF Covers
<1>6. c + n - 1 \in c .. Len(line)
  BY <1>1, <1>3
<1>7. Starts(line, c + n - 1, S \cup {c})
  <2>1. Starts(line, c, S \cup {c})
    <3>1. \A j \in S : ~Covers(line, j, c)
      BY <1>1, <1>2 DEF Past
    <3> QED BY <1>1, <1>2, <1>4, <3>1, StartsAdd
  <2>2. \A k \in c + 1 .. c + n - 1 : Covers(line, c, k)
    BY <1>1, <1>5, <1>6
  <2>3. S \cup {c} \in SUBSET (1 .. c) /\ c \in Nat /\ c + n - 1 \in Nat /\ c <= c + n - 1
    BY <1>1, <1>6
  <2>4. \A k \in c + 1 .. c + n - 1 : \E i \in S \cup {c} : Covers(line, i, k)
    BY <2>2
  <2> QED BY <2>1, <2>3, <2>4, StartsOver
<1>8. Past(line, S \cup {c}, c + n)
  <2>1. \A k \in c + n .. Len(line) : k \in c .. Len(line) /\ ~(k <= c + n - 1)
    BY <1>1
  <2> QED BY <1>2, <1>5, <2>1 DEF Past
<1>9. Kept(line, c) = c .. c + n - 1
  BY <1>1, <1>4, <1>5, <1>6 DEF Kept
<1>10. ~Refusable(line, c)
  BY <1>4 DEF Refusable
<1>11. Spells(line, Kept(line, c), buffer')
  <2>1. /\ Cardinality(c .. c + n - 1) = n
        /\ \A k \in c .. c + n - 1 : Rank(c .. c + n - 1, k) = k - c + 1
    <3>1. c \in Nat /\ c + n - 1 \in Nat /\ c <= c + n - 1 + 1 /\ c + n - 1 - c + 1 = n
      BY <1>1
    <3> QED BY <3>1, RankInterval
  <2>2. Len(buffer') = n /\ \A m \in 1 .. n : buffer'[m] = line[c + m - 1]
    <3>1. buffer' = SubSeq(line, c, c + n - 1) /\ line \in Seq(Chars) /\ c + n - 1 - c + 1 = n
      BY <1>1, <1>3
    <3> HIDE DEF c
    <3> QED BY <1>1, <1>6, <3>1
  <2>3. \A k \in c .. c + n - 1 : k - c + 1 \in 1 .. n /\ c + (k - c + 1) - 1 = k
    BY <1>1
  <2>4. \A k \in c .. c + n - 1 : buffer'[k - c + 1] = line[k]
    BY <2>2, <2>3
  <2> QED BY <1>9, <2>1, <2>2, <2>4 DEF Spells
<1>12. AtStore'
  <2>1. c \in 1 .. cursor' - 1 /\ cursor' - 1 = c + n - 1
    BY <1>1, <1>3
  <2> QED BY <1>1, <1>2, <1>3, <1>7, <1>8, <1>10, <1>11, <2>1 DEF AtStore
<1> QED BY <1>1, <1>12, ModeDecides

-----------------------------------------------------------------------------
(* Inside a token                                                            *)

(* The token that is being read, and those before it.                        *)
LEMMA TokenSoFar ==
  ASSUME TypeOK, InBounds, ReadInv, mode \in {"word", "single", "double"}
  PROVE  \E i \in 1 .. Len(line) : \E S \in SUBSET (1 .. i - 1) :
           /\ Starts(line, i - 1, S) /\ Past(line, S, i) /\ Texts(line, S, tokens)
           /\ Starts(line, i, S \cup {i}) /\ line[i] # Blank
           /\ mode = "word" => WordSoFar(line, i, cursor, buffer)
           /\ mode # "word" => QuoteSoFar(line, i, cursor, Closing, buffer)
<1>1. PICK i \in 1 .. Len(line) : \E S \in SUBSET (1 .. i - 1) :
        /\ Starts(line, i - 1, S) /\ Past(line, S, i) /\ Texts(line, S, tokens)
        /\ line[i] # Blank
        /\ IF mode = "word" THEN WordSoFar(line, i, cursor, buffer)
           ELSE QuoteSoFar(line, i, cursor, Closing, buffer)
  BY DEF ReadInv, InToken
<1>2. PICK S \in SUBSET (1 .. i - 1) :
        /\ Starts(line, i - 1, S) /\ Past(line, S, i) /\ Texts(line, S, tokens)
        /\ line[i] # Blank
        /\ IF mode = "word" THEN WordSoFar(line, i, cursor, buffer)
           ELSE QuoteSoFar(line, i, cursor, Closing, buffer)
  BY <1>1
<1>3. \A j \in S : ~Covers(line, j, i)
  BY <1>2 DEF Past
<1>4. i \in Nat \ {0}
  OBVIOUS
<1>5. Starts(line, i, S \cup {i})
  BY <1>2, <1>3, <1>4, StartsAdd
<1> QED BY <1>2, <1>5

LEMMA WordCharReads ==
  ASSUME TypeOK, InBounds, ReadInv, WordChar
  PROVE  ReadInv'
<1>1. /\ line' = line /\ tokens' = tokens /\ mode = "word" /\ mode' = "word"
      /\ cursor' = cursor + 1 /\ buffer' = Append(buffer, line[cursor])
      /\ InWord(line[cursor]) /\ cursor \in 1 .. Len(line) /\ buffer \in Seq(Chars)
  <2>1. cursor \in 1 .. Len(line) /\ InWord(line[cursor])
    BY NextChar DEF WordChar, InWordNow, Next1
  <2>2. cursor + 1 - 1 = cursor
    BY <2>1
  <2> QED BY <2>1, <2>2 DEF WordChar, Copy, TypeOK
<1>2. PICK i \in 1 .. Len(line) : \E S \in SUBSET (1 .. i - 1) :
        /\ Starts(line, i - 1, S) /\ Past(line, S, i) /\ Texts(line, S, tokens)
        /\ line[i] # Blank /\ WordSoFar(line, i, cursor, buffer)
  BY <1>1, TokenSoFar
<1>3. WordSoFar(line, i, cursor, buffer)
  BY <1>2
<1>4. WordSoFar(line, i, cursor', buffer')
  <2>1. /\ Len(buffer) = cursor - i /\ i <= cursor /\ line[i] \notin Quotes \cup Specials
        /\ \A k \in i .. cursor - 1 : InWord(line[k]) /\ buffer[k - i + 1] = line[k]
    BY <1>3 DEF WordSoFar
  <2>2. /\ Len(buffer') = Len(buffer) + 1 /\ buffer'[Len(buffer) + 1] = line[cursor]
        /\ \A m \in 1 .. Len(buffer) : buffer'[m] = buffer[m]
    BY <1>1
  <2>3. ASSUME NEW k \in i .. cursor PROVE InWord(line[k]) /\ buffer'[k - i + 1] = line[k]
    <3>1. CASE k = cursor
      <4>1. k - i + 1 = Len(buffer) + 1
        BY <1>1, <2>1, <3>1
      <4> QED BY <1>1, <2>2, <3>1, <4>1
    <3>2. CASE k # cursor
      <4>1. k \in i .. cursor - 1 /\ k - i + 1 \in 1 .. Len(buffer)
        BY <1>1, <2>1, <3>2
      <4> QED BY <2>1, <2>2, <4>1
    <3> QED BY <3>1, <3>2
  <2>4. cursor' - 1 = cursor /\ Len(buffer') = cursor' - i /\ i <= cursor'
    BY <1>1, <2>1, <2>2
  <2> QED BY <2>1, <2>3, <2>4 DEF WordSoFar
<1>5. InToken'
  BY <1>1, <1>2, <1>4 DEF InToken
<1> QED BY <1>1, <1>5, ModeDecides

LEMMA EndWordReads ==
  ASSUME TypeOK, InBounds, ReadInv, EndWord
  PROVE  ReadInv'
<1> DEFINE c == cursor
<1>1. /\ line' = line /\ tokens' = tokens /\ mode = "word" /\ mode' = "store"
      /\ cursor' = c /\ buffer' = buffer /\ c \in Nat \ {0} /\ c <= Len(line) + 1
      /\ line \in Seq(Chars) /\ MaxLen \in Nat /\ MaxLen >= 3 /\ Len(buffer) < MaxLen
  BY LimitsAssumption DEF EndWord, TypeOK, InBounds, LimitsAssumption
<1>2. Len(buffer) + 1 >= MaxLen \/ c = Len(line) + 1 \/ ~InWord(line[c])
  BY <1>1 DEF EndWord, HasRoom, InWordNow, AtEnd, Next1
<1>3. PICK i \in 1 .. Len(line) : \E S \in SUBSET (1 .. i - 1) :
        /\ Past(line, S, i) /\ Texts(line, S, tokens)
        /\ Starts(line, i, S \cup {i}) /\ line[i] # Blank /\ WordSoFar(line, i, c, buffer)
  BY <1>1, TokenSoFar
<1>4. PICK S \in SUBSET (1 .. i - 1) :
        /\ Past(line, S, i) /\ Texts(line, S, tokens)
        /\ Starts(line, i, S \cup {i}) /\ line[i] # Blank /\ WordSoFar(line, i, c, buffer)
  BY <1>3
<1>5. /\ line[i] \notin Quotes \cup Specials /\ i <= c /\ Len(buffer) = c - i
      /\ \A k \in i .. c - 1 : InWord(line[k]) /\ buffer[k - i + 1] = line[k]
  BY <1>4 DEF WordSoFar
<1> HIDE DEF c
<1>6. i \in 1 .. c - 1
  <2>1. InWord(line[i])
    BY <1>4, <1>5 DEF InWord
  <2>2. c # i
    BY <1>1, <1>2, <1>5, <2>1
  <2> QED BY <1>1, <1>5, <2>2
<1>7. \A k \in i .. Len(line) : Covers(line, i, k) <=> k < c
  <2>1. ASSUME NEW k \in i .. Len(line), k < c PROVE Covers(line, i, k)
    <3>1. k <= i + MaxLen - 2
      BY <1>1, <1>5, <2>1
    <3>2. \A j \in i .. k : j \in i .. c - 1
      BY <1>1, <2>1
    <3> QED BY <1>5, <3>1, <3>2 DEF Covers
  <2>2. ASSUME NEW k \in i .. Len(line), Covers(line, i, k), ~(k < c) PROVE FALSE
    <3>1. k <= i + MaxLen - 2 /\ \A j \in i .. k : InWord(line[j])
      BY <1>5, <2>2 DEF Covers
    <3>2. InWord(line[c])
      BY <1>1, <1>6, <2>2, <3>1
    <3> QED BY <1>1, <1>2, <1>5, <2>2, <3>1, <3>2
  <2> QED BY <2>1, <2>2
<1>8. Starts(line, c - 1, S \cup {i})
  <2>1. \A k \in i + 1 .. c - 1 : k \in i .. Len(line) /\ k < c
    BY <1>1
  <2>2. \A k \in i + 1 .. c - 1 : \E j \in S \cup {i} : Covers(line, j, k)
    BY <1>7, <2>1
  <2>3. S \cup {i} \in SUBSET (1 .. i) /\ i \in Nat /\ c - 1 \in Nat /\ i <= c - 1
    BY <1>1, <1>6
  <2> QED BY <1>4, <2>2, <2>3, StartsOver
<1>9. Past(line, S \cup {i}, c)
  <2>1. \A k \in c .. Len(line) : k \in i .. Len(line) /\ ~(k < c)
    BY <1>1, <1>6
  <2> QED BY <1>4, <1>7, <2>1 DEF Past
<1>10. Kept(line, i) = i .. c - 1
  <2>1. \A k \in i .. Len(line) : k < c <=> k \in i .. c - 1
    BY <1>1
  <2>2. i .. c - 1 \subseteq i .. Len(line)
    BY <1>1
  <2> QED BY <1>5, <1>7, <2>1, <2>2 DEF Kept
<1>11. ~Refusable(line, i)
  BY <1>5 DEF Refusable
<1>12. Spells(line, Kept(line, i), buffer)
  <2>1. i \in Nat /\ c - 1 \in Nat /\ i <= c - 1 + 1 /\ c - 1 - i + 1 = c - i
    BY <1>1, <1>6
  <2>2. /\ Cardinality(i .. c - 1) = c - i
        /\ \A k \in i .. c - 1 : Rank(i .. c - 1, k) = k - i + 1
    BY <2>1, RankInterval
  <2> QED BY <1>5, <1>10, <2>2 DEF Spells
<1>13. AtStore'
  BY <1>1, <1>4, <1>6, <1>8, <1>9, <1>11, <1>12 DEF AtStore
<1> QED BY <1>1, <1>13, ModeDecides

(* Inside quotes that hold the next character.                               *)
LEMMA QuotedCharReads ==
  ASSUME TypeOK, InBounds, ReadInv, QuotedChar
  PROVE  ReadInv'
<1> DEFINE c == cursor
<1>1. /\ line' = line /\ tokens' = tokens /\ mode \in {"single", "double"} /\ mode' = mode
      /\ c \in 1 .. Len(line) /\ line[c] # Closing /\ line \in Seq(Chars) /\ buffer \in Seq(Chars)
  BY NextChar DEF QuotedChar, Next1, TypeOK
<1>2. PICK i \in 1 .. Len(line) : \E S \in SUBSET (1 .. i - 1) :
        /\ Starts(line, i - 1, S) /\ Past(line, S, i) /\ Texts(line, S, tokens)
        /\ line[i] # Blank /\ QuoteSoFar(line, i, c, Closing, buffer)
  BY <1>1, TokenSoFar
<1>3. /\ line[i] = Closing /\ i < c
      /\ \A k \in i + 1 .. c - 1 : ~Closes(line, i, k)
      /\ ~Escaped(line, i, c)
      /\ Spells(line, Inside(line, i, c), buffer)
  BY <1>2 DEF QuoteSoFar
<1>4. Closing' = Closing /\ (line[i] = Double <=> mode = "double")
  BY <1>1, <1>3, DistinctAssumption DEF Closing, DistinctAssumption
<1>5. Inside(line, i, c) \in SUBSET (1 .. c - 1)
  BY <1>1 DEF Inside
<1>6. QuoteSoFar(line, i, cursor', Closing', buffer')
  <2>1. CASE ~Escapes
    <3>1. cursor' = c + 1 /\ buffer' = Append(buffer, line[c])
      <4>1. cursor + 1 - 1 = cursor
        BY <1>1
      <4> QED BY <2>1, <4>1 DEF QuotedChar, Copy
    <3>2. line[i] = Double => line[c] # Backslash
      BY <1>1, <1>4, <2>1, NextChar DEF Escapes, Next1, QuotedChar
    <3>3. ~Escaped(line, i, c + 1)
      BY <1>1, <3>2, NotEscaped
    <3>4. Inside(line, i, c + 1) = Inside(line, i, c) \cup {c}
      <4>1. \A k \in i + 1 .. c : k \in i + 1 .. c - 1 \/ k = c
        BY <1>1
      <4>2. c \in i + 1 .. c /\ i + 1 .. c - 1 \subseteq i + 1 .. c /\ c + 1 - 1 = c
        BY <1>1, <1>3
      <4> HIDE DEF c
      <4> QED BY <3>2, <4>1, <4>2 DEF Inside
    <3>5. Spells(line, Inside(line, i, c + 1), Append(buffer, line[c]))
      <4>1. c - 1 \in Nat /\ c \in Nat /\ c > c - 1 /\ line[c] \in Chars
        BY <1>1
      <4> QED BY <1>1, <1>3, <1>5, <3>4, <4>1, SpellsAdd
    <3>6. \A k \in i + 1 .. c + 1 - 1 : ~Closes(line, i, k)
      <4>1. ~Closes(line, i, c)
        BY <1>1, <1>3 DEF Closes
      <4>2. \A k \in i + 1 .. c + 1 - 1 : k \in i + 1 .. c - 1 \/ k = c
        BY <1>1
      <4> QED BY <1>3, <4>1, <4>2
    <3>7. i < c + 1
      BY <1>1, <1>3
    <3>8. QuoteSoFar(line, i, c + 1, Closing, buffer')
      <4> HIDE DEF c
      <4> QED BY <1>1, <1>3, <3>1, <3>3, <3>5, <3>6, <3>7 DEF QuoteSoFar
    <3> QED BY <1>4, <3>1, <3>8
  <2>2. CASE Escapes
    <3>1. /\ cursor' = c + 2 /\ buffer' = Append(buffer, line[c + 1])
          /\ c + 1 \in 1 .. Len(line) /\ line[c] = Backslash /\ line[i] = Double
      <4>1. cursor + 2 - 1 = cursor + 1
        BY <1>1
      <4> QED BY <1>1, <1>4, <2>2, <4>1 DEF QuotedChar, Copy, Escapes, Next1
    <3>2. Escaped(line, i, c + 1)
      BY <1>1, <1>3, <3>1, EscapedFlips
    <3>3. ~Escaped(line, i, c + 2)
      <4>1. CASE line[c + 1] = Backslash
        <5>1. c + 1 \in Nat /\ i < c + 1 /\ i \in Nat /\ c + 1 + 1 = c + 2
          BY <1>1, <1>3
        <5> QED BY <3>1, <3>2, <4>1, <5>1, EscapedFlips
      <4>2. CASE line[c + 1] # Backslash
        <5>1. c + 1 \in Nat /\ i \in Nat /\ c + 1 + 1 = c + 2
          BY <1>1
        <5> QED BY <4>2, <5>1, NotEscaped
      <4> QED BY <4>1, <4>2
    <3>4. Inside(line, i, c + 2) = Inside(line, i, c) \cup {c + 1}
      <4>1. \A k \in i + 1 .. c + 1 : k \in i + 1 .. c - 1 \/ k = c \/ k = c + 1
        BY <1>1
      <4>2. /\ c + 1 \in i + 1 .. c + 1 /\ i + 1 .. c - 1 \subseteq i + 1 .. c + 1
            /\ c + 2 - 1 = c + 1 /\ c \notin i + 1 .. c - 1 /\ c # c + 1
        BY <1>1, <1>3
      <4>3. \A k \in i + 1 .. c - 1 : k # c /\ k # c + 1
        BY <1>1
      <4> HIDE DEF c
      <4>4. Inside(line, i, c + 2) =
              {k \in i + 1 .. c + 1 : line[k] = Backslash => Escaped(line, i, k)}
        BY <1>1, <3>1, <4>2 DEF Inside
      <4>5. Inside(line, i, c) =
              {k \in i + 1 .. c - 1 : line[k] = Backslash => Escaped(line, i, k)}
        BY <1>1, <3>1 DEF Inside
      <4>6. ~(line[c] = Backslash => Escaped(line, i, c))
        BY <1>3, <3>1
      <4> QED BY <3>2, <4>1, <4>2, <4>3, <4>4, <4>5, <4>6
    <3>5. Spells(line, Inside(line, i, c + 2), Append(buffer, line[c + 1]))
      <4>1. c - 1 \in Nat /\ c + 1 \in Nat /\ c + 1 > c - 1 /\ line[c + 1] \in Chars
        BY <1>1, <3>1
      <4> QED BY <1>1, <1>3, <1>5, <3>4, <4>1, SpellsAdd
    <3>6. \A k \in i + 1 .. c + 2 - 1 : ~Closes(line, i, k)
      <4>1. ~Closes(line, i, c) /\ ~Closes(line, i, c + 1)
        BY <1>1, <1>3, <3>2 DEF Closes
      <4>2. \A k \in i + 1 .. c + 2 - 1 : k \in i + 1 .. c - 1 \/ k = c \/ k = c + 1
        BY <1>1
      <4> QED BY <1>3, <4>1, <4>2
    <3>7. i < c + 2
      BY <1>1, <1>3
    <3>8. QuoteSoFar(line, i, c + 2, Closing, buffer')
      <4> HIDE DEF c
      <4> QED BY <1>1, <1>3, <3>1, <3>3, <3>5, <3>6, <3>7 DEF QuoteSoFar
    <3> QED BY <1>4, <3>1, <3>8
  <2> QED BY <2>1, <2>2
<1>7. InToken'
  BY <1>1, <1>2, <1>6 DEF InToken
<1> QED BY <1>1, <1>7, ModeDecides

(* What is inside the quotes is kept, and past their end nothing more is.    *)
LEMMA InsideIsKept ==
  ASSUME NEW s, NEW i \in Nat \ {0}, NEW c \in Nat, i < c, Len(s) \in Nat, c <= Len(s) + 1,
         s[i] \in Quotes, \A k \in i + 1 .. c - 1 : ~Closes(s, i, k)
  PROVE  /\ Inside(s, i, c) \subseteq Kept(s, i)
         /\ c <= Len(s) /\ Closes(s, i, c) => Kept(s, i) = Inside(s, i, c)
<1>1. ASSUME NEW k \in Inside(s, i, c) PROVE k \in Kept(s, i)
  <2>1. /\ k \in i + 1 .. c - 1 /\ k \in i .. Len(s) /\ k # i /\ ~Closes(s, i, k)
        /\ s[i] = Double /\ s[k] = Backslash => Escaped(s, i, k)
    BY <1>1 DEF Inside
  <2>2. Covers(s, i, k)
    <3>1. \A j \in i + 1 .. k - 1 : j \in i + 1 .. c - 1
      BY <2>1
    <3> QED BY <3>1 DEF Covers
  <2> QED BY <2>1, <2>2 DEF Kept
<1>2. ASSUME c <= Len(s), Closes(s, i, c), NEW k \in Kept(s, i), s[i] \notin Specials
      PROVE  k \in Inside(s, i, c)
  <2>1. /\ k \in i .. Len(s) /\ Covers(s, i, k) /\ k # i /\ ~Closes(s, i, k)
        /\ s[i] = Double /\ s[k] = Backslash => Escaped(s, i, k)
    BY DEF Kept
  <2>2. \A j \in i + 1 .. k - 1 : ~Closes(s, i, j)
    BY <1>2, <2>1 DEF Covers
  <2>3. k # c
    BY <1>2, <2>1
  <2>4. k < c
    BY <1>2, <2>1, <2>2, <2>3
  <2>5. k \in i + 1 .. c - 1
    BY <2>1, <2>4
  <2> QED BY <2>1, <2>5 DEF Inside
<1>3. s[i] \notin Specials
  BY DistinctAssumption DEF Quotes, DistinctAssumption
<1> QED BY <1>1, <1>2, <1>3

LEMMA CloseQuoteReads ==
  ASSUME TypeOK, InBounds, ReadInv, CloseQuote
  PROVE  ReadInv'
<1> DEFINE c == cursor
<1>1. /\ line' = line /\ tokens' = tokens /\ mode \in {"single", "double"} /\ mode' = "store"
      /\ cursor' = c + 1 /\ buffer' = buffer /\ c \in 1 .. Len(line) /\ line[c] = Closing
      /\ Len(buffer) + 1 < MaxLen /\ line \in Seq(Chars) /\ Len(buffer) \in Nat /\ MaxLen \in Nat
  BY NextChar, LimitsAssumption DEF CloseQuote, Next1, HasRoom, TypeOK, LimitsAssumption
<1>2. PICK i \in 1 .. Len(line) : \E S \in SUBSET (1 .. i - 1) :
        /\ Past(line, S, i) /\ Texts(line, S, tokens)
        /\ Starts(line, i, S \cup {i}) /\ QuoteSoFar(line, i, c, Closing, buffer)
  BY <1>1, TokenSoFar
<1>3. PICK S \in SUBSET (1 .. i - 1) :
        /\ Past(line, S, i) /\ Texts(line, S, tokens)
        /\ Starts(line, i, S \cup {i}) /\ QuoteSoFar(line, i, c, Closing, buffer)
  BY <1>2
<1>4. /\ line[i] = Closing /\ i < c
      /\ \A k \in i + 1 .. c - 1 : ~Closes(line, i, k)
      /\ ~Escaped(line, i, c)
      /\ Spells(line, Inside(line, i, c), buffer)
  BY <1>3 DEF QuoteSoFar
<1>5. line[i] \in Quotes /\ line[i] \notin Specials
  BY <1>4, DistinctAssumption DEF Quotes, Closing, DistinctAssumption
<1>6. Closes(line, i, c)
  BY <1>1, <1>4 DEF Closes
<1>7. \A k \in i .. Len(line) : Covers(line, i, k) <=> k <= c
  <2>1. ASSUME NEW k \in i .. Len(line), k <= c PROVE Covers(line, i, k)
    <3>1. \A j \in i + 1 .. k - 1 : j \in i + 1 .. c - 1
      BY <1>1, <2>1
    <3> QED BY <1>4, <1>5, <3>1 DEF Covers
  <2>2. ASSUME NEW k \in i .. Len(line), Covers(line, i, k), ~(k <= c) PROVE FALSE
    <3>1. \A j \in i + 1 .. k - 1 : ~Closes(line, i, j)
      BY <1>5, <2>2 DEF Covers
    <3>2. c \in i + 1 .. k - 1
      BY <1>1, <1>4, <2>2
    <3> QED BY <1>6, <3>1, <3>2
  <2> QED BY <2>1, <2>2
<1> HIDE DEF c
<1>8. Starts(line, c, S \cup {i})
  <2>1. \A k \in i + 1 .. c : k \in i .. Len(line) /\ k <= c
    BY <1>1
  <2>2. \A k \in i + 1 .. c : \E j \in S \cup {i} : Covers(line, j, k)
    BY <1>7, <2>1
  <2>3. S \cup {i} \in SUBSET (1 .. i) /\ i \in Nat /\ c \in Nat /\ i <= c
    BY <1>1, <1>4
  <2> QED BY <1>3, <2>2, <2>3, StartsOver
<1>9. Past(line, S \cup {i}, c + 1)
  <2>1. \A k \in c + 1 .. Len(line) : k \in i .. Len(line) /\ ~(k <= c)
    BY <1>1, <1>4
  <2> QED BY <1>3, <1>7, <2>1 DEF Past
<1>10. Kept(line, i) = Inside(line, i, c)
  <2>1. /\ i \in Nat \ {0} /\ c \in Nat /\ Len(line) \in Nat /\ c <= Len(line) + 1
        /\ c <= Len(line)
    BY <1>1
  <2> QED BY <1>4, <1>5, <1>6, <2>1, InsideIsKept
<1>11. ~Refusable(line, i)
  <2>1. c \in i + 1 .. Len(line)
    BY <1>1, <1>4
  <2>2. Cardinality(Kept(line, i)) = Len(buffer)
    BY <1>4, <1>10 DEF Spells
  <2>3. ~(Len(buffer) > MaxLen - 2)
    BY <1>1
  <2> QED BY <1>6, <2>1, <2>2, <2>3 DEF Refusable
<1>12. AtStore'
  <2>1. i \in 1 .. cursor' - 1 /\ cursor' - 1 = c
    BY <1>1, <1>4
  <2>2. Spells(line, Kept(line, i), buffer')
    BY <1>1, <1>4, <1>10
  <2> QED BY <1>1, <1>3, <1>8, <1>9, <1>11, <2>1, <2>2 DEF AtStore
<1> QED BY <1>1, <1>12, ModeDecides

LEMMA UnmatchedReads ==
  ASSUME TypeOK, InBounds, ReadInv, Unmatched
  PROVE  ReadInv'
<1> DEFINE c == cursor
<1>1. /\ line' = line /\ mode \in {"single", "double"} /\ mode' = "unmatched"
      /\ c \in Nat \ {0} /\ c <= Len(line) + 1 /\ line \in Seq(Chars) /\ Len(line) \in Nat
      /\ Len(buffer) \in Nat /\ MaxLen \in Nat
  BY LimitsAssumption DEF Unmatched, TypeOK, InBounds, LimitsAssumption
<1>2. PICK i \in 1 .. Len(line) : \E S \in SUBSET (1 .. i - 1) :
        Starts(line, i, S \cup {i}) /\ QuoteSoFar(line, i, c, Closing, buffer)
  BY <1>1, TokenSoFar
<1>3. PICK S \in SUBSET (1 .. i - 1) :
        Starts(line, i, S \cup {i}) /\ QuoteSoFar(line, i, c, Closing, buffer)
  BY <1>2
<1>4. /\ line[i] = Closing /\ i < c
      /\ \A k \in i + 1 .. c - 1 : ~Closes(line, i, k)
      /\ Spells(line, Inside(line, i, c), buffer)
  BY <1>3 DEF QuoteSoFar
<1>5. line[i] \in Quotes /\ (line[i] = Double <=> mode = "double")
  BY <1>1, <1>4, DistinctAssumption DEF Quotes, Closing, DistinctAssumption
<1>6. Refusable(line, i)
  <2>1. CASE AtEnd
    <3>1. \A k \in i + 1 .. Len(line) : k \in i + 1 .. c - 1
      BY <1>1, <2>1 DEF AtEnd
    <3> QED BY <1>4, <1>5, <3>1 DEF Refusable
  <2>2. CASE Escapes /\ cursor = Len(line)
    <3>1. line[c] # line[i]
      BY <1>5, <2>2, DistinctAssumption DEF Escapes, Next1, DistinctAssumption
    <3>2. \A k \in i + 1 .. Len(line) : k \in i + 1 .. c - 1 \/ k = c
      BY <1>1, <2>2
    <3>3. \A k \in i + 1 .. Len(line) : ~Closes(line, i, k)
      BY <1>4, <3>1, <3>2 DEF Closes
    <3> QED BY <1>5, <3>3 DEF Refusable
  <2>3. CASE ~HasRoom
    <3>1. Inside(line, i, c) \subseteq Kept(line, i)
      <4>1. i \in Nat \ {0} /\ c \in Nat
        BY <1>1
      <4> QED BY <1>1, <1>4, <1>5, <4>1, InsideIsKept
    <3>2. Kept(line, i) \in SUBSET (1 .. Len(line))
      BY DEF Kept
    <3>3. IsFiniteSet(Kept(line, i)) /\ Cardinality(Kept(line, i)) \in Nat
      BY <1>1, <3>2, PositionsFinite
    <3>4. Cardinality(Inside(line, i, c)) <= Cardinality(Kept(line, i))
      BY <3>1, <3>3, FS_Subset
    <3>5. Len(buffer) = Cardinality(Inside(line, i, c)) /\ ~(Len(buffer) + 1 < MaxLen)
      BY <1>4, <2>3 DEF Spells, HasRoom
    <3>6. Cardinality(Kept(line, i)) > MaxLen - 2
      BY <1>1, <3>3, <3>4, <3>5
    <3> QED BY <1>5, <3>6 DEF Refusable
  <2> QED BY <2>1, <2>2, <2>3 DEF Unmatched
<1>7. S \cup {i} \in SUBSET (1 .. i) /\ i \in S \cup {i}
  OBVIOUS
<1>8. RefusedForQuotes'
  BY <1>1, <1>3, <1>6, <1>7 DEF RefusedForQuotes
<1> QED BY <1>1, <1>8, ModeDecides

-----------------------------------------------------------------------------
LEMMA ReadKeeps ==
  ASSUME TypeOK, InBounds, ReadInv, [TokenizeLine]_vars
  PROVE  ReadInv'
<1>1. CASE StoreFails
  BY <1>1, ModeDecides DEF StoreFails
<1>2. CASE UNCHANGED vars
  BY <1>2 DEF vars, ReadInv, Between, InToken, AtStore, AtReturn, RefusedForQuotes, Closing
<1> QED BY <1>1, <1>2, SkipBlankReads, FinishReads, OpenQuoteReads, OperatorReads,
           StartWordReads, WordCharReads, EndWordReads, QuotedCharReads, CloseQuoteReads,
           UnmatchedReads, StoreReads DEF TokenizeLine

LEMMA ReadInvariant == FrontSpec => [](TypeOK /\ InBounds /\ ReadInv)
<1>1. TypeOK /\ InBounds /\ ReadInv /\ [TokenizeLine]_vars => TypeOK' /\ InBounds' /\ ReadInv'
  BY ReadKeeps, TokenizeLineKeeps
<1>2. Init => TypeOK /\ InBounds /\ ReadInv
  BY ReadInit, TokenizerInit
<1> QED BY <1>1, <1>2, Composition, PTL DEF Spec

(* Whatever the line is and however small the arrays are, the tokens that    *)
(* tokenize_line returns are the tokens of the line: none lost, joined or    *)
(* invented, each with exactly the text it keeps, and words that do not fit  *)
(* cut where the next token starts (tokenizer.c:89-195).                     *)
THEOREM TokensAreTheLine == FrontSpec => []TokensMeanLine
<1>1. ReadInv => TokensMeanLine
  BY DEF ReadInv, AtReturn, TokensMeanLine
<1> QED BY <1>1, ReadInvariant, PTL

(* A line refused for its quotes has quotes that do not close, or that hold  *)
(* more than fits, and they stand where a token starts (tokenizer.c:136,     *)
(* 158).                                                                     *)
THEOREM OnlyQuotesAreRefused == FrontSpec => []RefusedForQuotes
<1>1. ReadInv => RefusedForQuotes
  BY DEF ReadInv
<1> QED BY <1>1, ReadInvariant, PTL

-----------------------------------------------------------------------------
(* A line reads in one way                                                   *)

LEMMA StartsOnce ==
  ASSUME NEW s, NEW n \in Nat, NEW S \in SUBSET (1 .. n), NEW T \in SUBSET (1 .. n),
         Starts(s, n, S), Starts(s, n, T)
  PROVE  S = T
<1> DEFINE D == {k \in 1 .. n : ~(k \in S <=> k \in T)}
<1>1. ASSUME NEW m \in D, \A k \in D : m <= k PROVE FALSE
  <2>1. \A k \in 1 .. n : k < m => (k \in S <=> k \in T)
    BY <1>1
  <2>2. m \in S <=> s[m] # Blank /\ \A i \in S : i < m => ~Covers(s, i, m)
    BY DEF Starts
  <2>3. m \in T <=> s[m] # Blank /\ \A i \in T : i < m => ~Covers(s, i, m)
    BY DEF Starts
  <2> QED BY <2>1, <2>2, <2>3
<1>2. D \in SUBSET Nat
  OBVIOUS
<1>3. D = {}
  <2> HIDE DEF D
  <2> QED BY <1>1, <1>2, LeastOf
<1> QED BY <1>3

(* Every place is some member's.                                             *)
LEMMA RankOnto ==
  ASSUME NEW n \in Nat, NEW S \in SUBSET (1 .. n), NEW m \in 1 .. Cardinality(S)
  PROVE  \E x \in S : Rank(S, x) = m
<1> DEFINE UpTo(k) == {y \in S : y <= k}
           T == {k \in 0 .. n : Cardinality(UpTo(k)) >= m}
<1>1. \A k \in 0 .. n : UpTo(k) \in SUBSET (1 .. n) /\ Cardinality(UpTo(k)) \in Nat
  <2>1. \A k \in 0 .. n : UpTo(k) \in SUBSET (1 .. n)
    OBVIOUS
  <2> HIDE DEF UpTo
  <2> QED BY <2>1, PositionsFinite
<1>2. n \in T
  <2>1. UpTo(n) = S
    <3>1. \A y \in S : y <= n
      OBVIOUS
    <3> QED BY <3>1
  <2>2. Cardinality(S) \in Nat
    BY PositionsFinite
  <2> HIDE DEF UpTo
  <2> QED BY <2>1, <2>2
<1>3. T \in SUBSET Nat
  OBVIOUS
<1>4. PICK k \in T : \A j \in T : k <= j
  <2> HIDE DEF T
  <2>1. T # {}
    BY <1>2
  <2> QED BY <1>3, <2>1, LeastOf
<1>5. k \in 1 .. n
  <2>1. UpTo(0) = {}
    <3>1. \A y \in S : ~(y <= 0)
      OBVIOUS
    <3> QED BY <3>1
  <2> HIDE DEF UpTo
  <2>2. 0 \notin T
    BY <2>1, FS_EmptySet
  <2> QED BY <1>4, <2>2
<1>6. ~(Cardinality(UpTo(k - 1)) >= m)
  <2>1. k - 1 \in 0 .. n /\ ~(k <= k - 1)
    BY <1>5
  <2> HIDE DEF UpTo
  <2> QED BY <1>4, <2>1
<1>7. k \in S /\ UpTo(k) = UpTo(k - 1) \cup {k} /\ k \notin UpTo(k - 1)
  <2>1. \A y \in S : y <= k <=> y <= k - 1 \/ y = k
    BY <1>5
  <2>2. k \in S
    <3>1. ASSUME k \notin S PROVE UpTo(k) = UpTo(k - 1)
      BY <2>1, <3>1
    <3> HIDE DEF UpTo
    <3> QED BY <1>4, <1>6, <3>1
  <2>3. ~(k <= k - 1) /\ k <= k
    BY <1>5
  <2> QED BY <2>1, <2>2, <2>3
<1>8. Cardinality(UpTo(k)) = Cardinality(UpTo(k - 1)) + 1
  <2>1. IsFiniteSet(UpTo(k - 1))
    <3>1. k - 1 \in 0 .. n
      BY <1>5
    <3> HIDE DEF UpTo
    <3> QED BY <1>1, <3>1, PositionsFinite
  <2> HIDE DEF UpTo
  <2> QED BY <1>7, <2>1, FS_AddElement
<1>9. Cardinality(UpTo(k)) = m
  <2>1. Cardinality(UpTo(k)) >= m /\ Cardinality(UpTo(k - 1)) \in Nat
    <3>1. k - 1 \in 0 .. n
      BY <1>5
    <3> HIDE DEF UpTo
    <3> QED BY <1>1, <1>4, <3>1
  <2> HIDE DEF UpTo
  <2> QED BY <1>6, <1>8, <2>1
<1> QED BY <1>7, <1>9 DEF Rank

LEMMA SpellsOnce ==
  ASSUME NEW s, NEW n \in Nat, NEW K \in SUBSET (1 .. n), NEW C, NEW t \in Seq(C), NEW u \in Seq(C),
         Spells(s, K, t), Spells(s, K, u)
  PROVE  t = u
<1>1. Len(t) = Cardinality(K) /\ Len(u) = Cardinality(K)
  BY DEF Spells
<1>2. ASSUME NEW m \in 1 .. Cardinality(K) PROVE t[m] = u[m]
  <2>1. PICK k \in K : Rank(K, k) = m
    BY RankOnto
  <2> QED BY <2>1 DEF Spells
<1> QED BY <1>1, <1>2

(* Reads is a function of the line: TokensAreTheLine leaves no choice in     *)
(* what the tokens of a line are.                                            *)
THEOREM OneReading ==
  ASSUME NEW s \in Seq(Chars), NEW ts \in Seq(Seq(Chars)), NEW us \in Seq(Seq(Chars)),
         Reads(s, ts), Reads(s, us)
  PROVE  ts = us
<1>1. PICK S \in SUBSET (1 .. Len(s)) : Starts(s, Len(s), S) /\ Texts(s, S, ts)
  BY DEF Reads
<1>2. PICK T \in SUBSET (1 .. Len(s)) : Starts(s, Len(s), T) /\ Texts(s, T, us)
  BY DEF Reads
<1>3. Len(s) \in Nat
  OBVIOUS
<1>4. T = S
  BY <1>1, <1>2, <1>3, StartsOnce
<1>5. Len(ts) = Cardinality(S) /\ Len(us) = Cardinality(S)
  BY <1>1, <1>2, <1>4 DEF Texts
<1>6. ASSUME NEW m \in 1 .. Cardinality(S) PROVE ts[m] = us[m]
  <2>1. PICK i \in S : Rank(S, i) = m
    BY <1>3, RankOnto
  <2>2. Spells(s, Kept(s, i), ts[m]) /\ Spells(s, Kept(s, i), us[m])
    BY <1>1, <1>2, <1>4, <2>1 DEF Texts
  <2>3. ts[m] \in Seq(Chars) /\ us[m] \in Seq(Chars)
    BY <1>5
  <2>4. Kept(s, i) \in SUBSET (1 .. Len(s))
    BY DEF Kept
  <2> QED BY <1>3, <2>2, <2>3, <2>4, SpellsOnce
<1> QED BY <1>5, <1>6
=============================================================================
