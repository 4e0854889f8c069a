--------------------------- MODULE MeaningProofs ----------------------------
(* Theorems about what the parser and the shell loop make of the tokens, for *)
(* every line: the process list, and the job made of it, are what the        *)
(* commands of the line mean.                                                *)
EXTENDS ReadingProofs, SequenceTheorems

-----------------------------------------------------------------------------
(* The invariant: what has been parsed of the tokens when next is reached    *)

Below(K, n) == {k \in K : k < n}

(* ps are the processes of the commands that start at S, in their order.     *)
Listed(ts, S, ps) ==
  /\ Len(ps) = Cardinality(S)
  /\ \A a \in S : WellFormedAt(ts, a) /\ Means(ts, a, ps[Rank(S, a)])

LastOf(ts, F, file) ==
  IF F = {} THEN file = <<>>
  ELSE \E k \in F : (\A j \in F : j <= k) /\ file = <<ts[k]>>

(* The command at h, of which the tokens before n are parsed into c.         *)
SoFar(ts, h, n, c) ==
  /\ Spells(ts, Below(ArgsOf(ts, h), n), c.argv)
  /\ LastOf(ts, Below(FilesOf(ts, h, {In}), n), c.infile)
  /\ LastOf(ts, Below(FilesOf(ts, h, {Out, AppendOut}), n), c.outfile)
  /\ c.append_output <=> \E k \in h .. n - 1 : ts[k] = AppendOut
  /\ c.background <=> \E k \in h .. n - 1 : ts[k] = Amp
  /\ ts[h] \notin Redirects \cup {Amp}
  /\ \A k \in h .. n - 1 : ts[k] \in Redirects =>
       k + 1 < n /\ ts[k + 1] \notin Redirects \cup {Amp}

NoEarlyAmp(ts) == \A k \in 1 .. Len(ts) - 1 : ts[k] # Amp

-----------------------------------------------------------------------------
(* Ranks and the greatest of a set of positions                              *)

LEMMA RankIncreases ==
  ASSUME NEW n \in Nat, NEW S \in SUBSET (1 .. n), NEW x \in S, NEW y \in S, x < y
  PROVE  Rank(S, x) \in Nat /\ Rank(S, x) < Rank(S, y)
<1> DEFINE T == {z \in S : z <= x}
           U == {z \in S : z <= y}
<1>1. T \in SUBSET (1 .. n) /\ U \in SUBSET (1 .. n)
  OBVIOUS
<1>2. IsFiniteSet(T) /\ IsFiniteSet(U) /\ Cardinality(T) \in Nat /\ Cardinality(U) \in Nat
  <2> HIDE DEF T, U
  <2> QED BY <1>1, PositionsFinite
<1>3. y \notin T /\ T \cup {y} \subseteq U
  <2>1. ~(y <= x) /\ y <= y /\ \A z \in S : z <= x => z <= y
    OBVIOUS
  <2> QED BY <2>1
<1>4. Rank(S, x) = Cardinality(T) /\ Rank(S, y) = Cardinality(U)
  BY DEF Rank
<1> HIDE DEF T, U
<1>5. Cardinality(T \cup {y}) = Cardinality(T) + 1
  BY <1>2, <1>3, FS_AddElement
<1>6. Cardinality(T \cup {y}) <= Cardinality(U)
  BY <1>2, <1>3, FS_Subset
<1> QED BY <1>2, <1>4, <1>5, <1>6

LEMMA RankOfFirst ==
  ASSUME NEW n \in Nat, NEW S \in SUBSET (1 .. n), NEW x \in S, \A y \in S : x <= y
  PROVE  /\ Rank(S, x) = 1
         /\ \A y \in S : y # x => Rank(S, y) # 1
<1>1. {y \in S : y <= x} = {x}
  <2>1. \A y \in S : y <= x <=> y = x
    OBVIOUS
  <2> QED BY <2>1
<1>2. Rank(S, x) = 1
  BY <1>1, FS_Singleton DEF Rank
<1>3. ASSUME NEW y \in S, y # x PROVE Rank(S, y) # 1
  <2>1. x < y
    BY <1>3
  <2>2. Rank(S, x) < Rank(S, y)
    BY <2>1, RankIncreases
  <2> QED BY <1>2, <2>2
<1> QED BY <1>2, <1>3

LEMMA GreatestOf ==
  ASSUME NEW n \in Nat, NEW T \in SUBSET (0 .. n), T # {}
  PROVE  \E m \in T : \A x \in T : x <= m
<1> DEFINE U == {y \in 0 .. n : n - y \in T}
<1>1. PICK t \in T : TRUE
  OBVIOUS
<1>2. n - t \in U
  <2>1. n - t \in 0 .. n /\ n - (n - t) = t
    OBVIOUS
  <2> QED BY <2>1
<1>3. U \in SUBSET Nat
  OBVIOUS
<1>4. PICK u \in U : \A y \in U : u <= y
  <2> HIDE DEF U
  <2>1. U # {}
    BY <1>2
  <2> QED BY <1>3, <2>1, LeastOf
<1>5. ASSUME NEW x \in T PROVE x <= n - u
  <2>1. n - x \in 0 .. n /\ n - (n - x) = x
    OBVIOUS
  <2>2. n - x \in U
    BY <2>1
  <2>3. u <= n - x /\ u \in 0 .. n
    BY <1>4, <2>2
  <2> QED BY <2>3
<1> QED BY <1>4, <1>5

-----------------------------------------------------------------------------
(* One command of the tokens                                                 *)

(* Tokens h .. e - 1 of ts are a command.                                    *)
Stretch(ts, h, e) ==
  /\ ts \in Seq(Seq(Chars)) /\ h \in Heads(ts) /\ e \in h .. Len(ts) + 1
  /\ \A j \in h .. e - 1 : ts[j] # Pipe
  /\ e <= Len(ts) => ts[e] = Pipe

LEMMA PartsOfStretch ==
  ASSUME NEW ts, NEW h, NEW e, Stretch(ts, h, e)
  PROVE  /\ h \in 1 .. Len(ts) /\ e \in Nat /\ Len(ts) \in Nat
         /\ TokensOf(ts, h) = h .. e - 1
         /\ \A ops, k : k \in FilesOf(ts, h, ops) <=> k \in h + 1 .. e - 1 /\ ts[k - 1] \in ops
         /\ \A k : k \in ArgsOf(ts, h) <=>
                     /\ k \in h .. e - 1 /\ ts[k] \notin Redirects \cup {Amp}
                     /\ k # h => ts[k - 1] \notin Redirects
<1>1. h \in 1 .. Len(ts) /\ e \in Nat /\ Len(ts) \in Nat
  BY DEF Stretch, Heads
<1>2. TokensOf(ts, h) = h .. e - 1
  <2>1. ASSUME NEW k \in h .. Len(ts), \A j \in h .. k : ts[j] # Pipe PROVE k < e
    <3>1. k >= e => e \in h .. k /\ ts[e] = Pipe
      BY <1>1 DEF Stretch
    <3> QED BY <1>1, <2>1, <3>1
  <2>2. ASSUME NEW k \in h .. e - 1 PROVE k \in h .. Len(ts) /\ \A j \in h .. k : ts[j] # Pipe
    BY <1>1 DEF Stretch
  <2>3. ASSUME NEW k \in h .. Len(ts), k < e PROVE k \in h .. e - 1
    BY <1>1, <2>3
  <2> QED BY <2>1, <2>2, <2>3 DEF TokensOf
<1>3. ASSUME NEW ops, NEW k
      PROVE  k \in FilesOf(ts, h, ops) <=> k \in h + 1 .. e - 1 /\ ts[k - 1] \in ops
  <2>1. k \in h .. e - 1 /\ k - 1 \in h .. e - 1 <=> k \in h + 1 .. e - 1
    BY <1>1
  <2> QED BY <1>2, <2>1 DEF FilesOf
<1>4. ASSUME NEW k
      PROVE  k \in ArgsOf(ts, h) <=> /\ k \in h .. e - 1 /\ ts[k] \notin Redirects \cup {Amp}
                                     /\ k # h => ts[k - 1] \notin Redirects
  <2>1. k \in h + 1 .. e - 1 <=> k \in h .. e - 1 /\ k # h
    BY <1>1
  <2> QED BY <1>2, <1>3, <2>1 DEF ArgsOf
<1> QED BY <1>1, <1>2, <1>3, <1>4

LEMMA LastAdd ==
  ASSUME NEW ts, NEW x \in Nat, NEW F, \A k \in F : k \in Nat /\ k <= x
  PROVE  LastOf(ts, F \cup {x}, <<ts[x]>>)
BY DEF LastOf

(* The first token of a command is its name.                                 *)
LEMMA FirstSoFar ==
  ASSUME NEW ts, NEW h, NEW e, Stretch(ts, h, e), h < e, ts[h] \notin Redirects \cup {Amp},
         NEW c, c.argv = <<ts[h]>>, c.infile = <<>>, c.outfile = <<>>,
         c.append_output = FALSE, c.background = FALSE
  PROVE  SoFar(ts, h, h + 1, c)
<1>1. /\ h \in 1 .. Len(ts) /\ e \in Nat /\ Len(ts) \in Nat
      /\ \A ops, k : k \in FilesOf(ts, h, ops) <=> k \in h + 1 .. e - 1 /\ ts[k - 1] \in ops
      /\ \A k : k \in ArgsOf(ts, h) <=> /\ k \in h .. e - 1 /\ ts[k] \notin Redirects \cup {Amp}
                                        /\ k # h => ts[k - 1] \notin Redirects
  BY PartsOfStretch
<1>2. h \in h .. e - 1 /\ h + 1 - 1 = h
  BY <1>1
<1>3. ArgsOf(ts, h) \subseteq h .. e - 1 /\ h \in ArgsOf(ts, h)
  BY <1>1, <1>2
<1>4. Below(ArgsOf(ts, h), h + 1) = {h}
  <2>1. \A k \in h .. e - 1 : k < h + 1 <=> k = h
    BY <1>1
  <2> QED BY <1>1, <1>3, <2>1 DEF Below
<1>5. Spells(ts, {h}, <<ts[h]>>)
  <2>1. {y \in {h} : y <= h} = {h}
    BY <1>1
  <2>2. Cardinality({h}) = 1 /\ Rank({h}, h) = 1
    BY <2>1, FS_Singleton DEF Rank
  <2>3. Len(<<ts[h]>>) = 1 /\ <<ts[h]>>[1] = ts[h]
    OBVIOUS
  <2> QED BY <2>2, <2>3 DEF Spells
<1>6. ASSUME NEW ops PROVE Below(FilesOf(ts, h, ops), h + 1) = {}
  <2>1. \A k \in h + 1 .. e - 1 : ~(k < h + 1)
    BY <1>1
  <2> QED BY <1>1, <2>1 DEF Below
<1>7. \A k \in h .. h + 1 - 1 : k = h
  BY <1>1
<1>8. /\ LastOf(ts, Below(FilesOf(ts, h, {In}), h + 1), c.infile)
      /\ LastOf(ts, Below(FilesOf(ts, h, {Out, AppendOut}), h + 1), c.outfile)
  BY <1>6 DEF LastOf
<1>9. Spells(ts, Below(ArgsOf(ts, h), h + 1), c.argv)
  BY <1>4, <1>5
<1>10. ts[h] # AppendOut /\ ts[h] # Amp /\ ts[h] \notin Redirects
  BY DEF Redirects
<1>11. /\ c.append_output <=> \E k \in h .. h + 1 - 1 : ts[k] = AppendOut
       /\ c.background <=> \E k \in h .. h + 1 - 1 : ts[k] = Amp
       /\ \A k \in h .. h + 1 - 1 : ts[k] \notin Redirects
  BY <1>7, <1>10
<1> QED BY <1>1, <1>8, <1>9, <1>11 DEF SoFar

(* An argument is parsed.                                                    *)
LEMMA ArgumentSoFar ==
  ASSUME NEW ts, NEW h, NEW e, Stretch(ts, h, e), NEW n \in Nat, h < n, n < e,
         NEW c, SoFar(ts, h, n, c), c.argv \in Seq(Seq(Chars)),
         ts[n] \notin Redirects \cup {Amp},
         NEW d, d.argv = Append(c.argv, ts[n]), d.infile = c.infile, d.outfile = c.outfile,
         d.append_output = c.append_output, d.background = c.background
  PROVE  SoFar(ts, h, n + 1, d)
<1>1. /\ h \in 1 .. Len(ts) /\ e \in Nat /\ Len(ts) \in Nat
      /\ \A ops, k : k \in FilesOf(ts, h, ops) <=> k \in h + 1 .. e - 1 /\ ts[k - 1] \in ops
      /\ \A k : k \in ArgsOf(ts, h) <=> /\ k \in h .. e - 1 /\ ts[k] \notin Redirects \cup {Amp}
                                        /\ k # h => ts[k - 1] \notin Redirects
  BY PartsOfStretch
<1>2. \A k \in h .. n - 1 : ts[k] \in Redirects =>
         k + 1 < n /\ ts[k + 1] \notin Redirects \cup {Amp}
  BY DEF SoFar
<1>3. ts[n - 1] \notin Redirects
  <2>1. n - 1 \in h .. n - 1 /\ ~(n - 1 + 1 < n)
    BY <1>1
  <2> QED BY <1>2, <2>1
<1>4. n \in ArgsOf(ts, h)
  <2>1. n \in h .. e - 1
    BY <1>1
  <2> QED BY <1>1, <1>3, <2>1
<1>5. Below(ArgsOf(ts, h), n + 1) = Below(ArgsOf(ts, h), n) \cup {n}
  <2>1. \A k \in ArgsOf(ts, h) : k \in h .. e - 1
    BY <1>1
  <2>2. \A k \in h .. e - 1 : k < n + 1 <=> k < n \/ k = n
    BY <1>1
  <2> QED BY <1>4, <2>1, <2>2 DEF Below
<1>6. Spells(ts, Below(ArgsOf(ts, h), n + 1), d.argv)
  <2>1. Below(ArgsOf(ts, h), n) \in SUBSET (1 .. n - 1)
    <3>1. \A k \in ArgsOf(ts, h) : k \in h .. e - 1
      BY <1>1
    <3>2. \A k \in h .. e - 1 : k < n => k \in 1 .. n - 1
      BY <1>1
    <3> QED BY <3>1, <3>2 DEF Below
  <2>2. n - 1 \in Nat /\ n > n - 1 /\ ts[n] \in Seq(Chars)
    BY <1>1 DEF Stretch
  <2>3. Spells(ts, Below(ArgsOf(ts, h), n), c.argv)
    BY DEF SoFar
  <2> QED BY <1>5, <2>1, <2>2, <2>3, SpellsAdd
<1>7. ASSUME NEW ops \in SUBSET Redirects
      PROVE  Below(FilesOf(ts, h, ops), n + 1) = Below(FilesOf(ts, h, ops), n)
  <2>1. n \notin FilesOf(ts, h, ops)
    BY <1>1, <1>3
  <2>2. \A k \in FilesOf(ts, h, ops) : k \in h + 1 .. e - 1
    BY <1>1
  <2>3. \A k \in h + 1 .. e - 1 : k < n + 1 <=> k < n \/ k = n
    BY <1>1
  <2> QED BY <2>1, <2>2, <2>3 DEF Below
<1>8. /\ LastOf(ts, Below(FilesOf(ts, h, {In}), n + 1), d.infile)
      /\ LastOf(ts, Below(FilesOf(ts, h, {Out, AppendOut}), n + 1), d.outfile)
  <2>1. {In} \in SUBSET Redirects /\ {Out, AppendOut} \in SUBSET Redirects
    BY DEF Redirects
  <2>2. /\ Below(FilesOf(ts, h, {In}), n + 1) = Below(FilesOf(ts, h, {In}), n)
        /\ Below(FilesOf(ts, h, {Out, AppendOut}), n + 1)
             = Below(FilesOf(ts, h, {Out, AppendOut}), n)
    BY <1>7, <2>1
  <2> QED BY <2>2 DEF SoFar
<1>9. \A k \in h .. n + 1 - 1 : k \in h .. n - 1 \/ k = n
  BY <1>1
<1>10. h .. n - 1 \subseteq h .. n + 1 - 1
  BY <1>1
<1>11. ts[n] # AppendOut /\ ts[n] # Amp /\ ts[n] \notin Redirects
  BY DEF Redirects
<1>12. /\ d.append_output <=> \E k \in h .. n + 1 - 1 : ts[k] = AppendOut
       /\ d.background <=> \E k \in h .. n + 1 - 1 : ts[k] = Amp
       /\ ts[h] \notin Redirects \cup {Amp}
  BY <1>9, <1>10, <1>11 DEF SoFar
<1>13. \A k \in h .. n + 1 - 1 : ts[k] \in Redirects =>
         k + 1 < n + 1 /\ ts[k + 1] \notin Redirects \cup {Amp}
  BY <1>1, <1>2, <1>9, <1>11
<1> QED BY <1>1, <1>6, <1>8, <1>12, <1>13 DEF SoFar

(* The & at the end of a command is parsed.                                  *)
LEMMA AmpSoFar ==
  ASSUME NEW ts, NEW h, NEW e, Stretch(ts, h, e), NEW n \in Nat, h < n, n < e,
         NEW c, SoFar(ts, h, n, c), ts[n] = Amp,
         NEW d, d.argv = c.argv, d.infile = c.infile, d.outfile = c.outfile,
         d.append_output = c.append_output, d.background = TRUE
  PROVE  SoFar(ts, h, n + 1, d)
<1>1. /\ h \in 1 .. Len(ts) /\ e \in Nat /\ Len(ts) \in Nat
      /\ \A ops, k : k \in FilesOf(ts, h, ops) <=> k \in h + 1 .. e - 1 /\ ts[k - 1] \in ops
      /\ \A k : k \in ArgsOf(ts, h) <=> /\ k \in h .. e - 1 /\ ts[k] \notin Redirects \cup {Amp}
                                        /\ k # h => ts[k - 1] \notin Redirects
  BY PartsOfStretch
<1>2. \A k \in h .. n - 1 : ts[k] \in Redirects =>
         k + 1 < n /\ ts[k + 1] \notin Redirects \cup {Amp}
  BY DEF SoFar
<1>3. ts[n - 1] \notin Redirects
  <2>1. n - 1 \in h .. n - 1 /\ ~(n - 1 + 1 < n)
    BY <1>1
  <2> QED BY <1>2, <2>1
<1>4. ts[n] \notin Redirects /\ ts[n] # AppendOut
  BY OperatorsAssumption DEF Redirects, OperatorsAssumption
<1>5. ASSUME NEW K, \A k \in K : k \in h .. e - 1, n \notin K
      PROVE  Below(K, n + 1) = Below(K, n)
  <2>1. \A k \in h .. e - 1 : k < n + 1 <=> k < n \/ k = n
    BY <1>1
  <2> QED BY <1>5, <2>1 DEF Below
<1>6. Below(ArgsOf(ts, h), n + 1) = Below(ArgsOf(ts, h), n)
  <2>1. n \notin ArgsOf(ts, h) /\ \A k \in ArgsOf(ts, h) : k \in h .. e - 1
    BY <1>1
  <2> QED BY <1>5, <2>1
<1>7. ASSUME NEW ops \in SUBSET Redirects
      PROVE  Below(FilesOf(ts, h, ops), n + 1) = Below(FilesOf(ts, h, ops), n)
  <2>1. n \notin FilesOf(ts, h, ops)
    BY <1>1, <1>3
  <2>2. h + 1 .. e - 1 \subseteq h .. e - 1
    BY <1>1
  <2>3. \A k \in FilesOf(ts, h, ops) : k \in h .. e - 1
    BY <1>1, <2>2
  <2> QED BY <1>5, <2>1, <2>3
<1>8. {In} \in SUBSET Redirects /\ {Out, AppendOut} \in SUBSET Redirects
  BY DEF Redirects
<1>9. /\ Spells(ts, Below(ArgsOf(ts, h), n + 1), d.argv)
      /\ LastOf(ts, Below(FilesOf(ts, h, {In}), n + 1), d.infile)
      /\ LastOf(ts, Below(FilesOf(ts, h, {Out, AppendOut}), n + 1), d.outfile)
  <2>1. /\ Below(FilesOf(ts, h, {In}), n + 1) = Below(FilesOf(ts, h, {In}), n)
        /\ Below(FilesOf(ts, h, {Out, AppendOut}), n + 1)
             = Below(FilesOf(ts, h, {Out, AppendOut}), n)
    BY <1>7, <1>8
  <2> QED BY <1>6, <2>1 DEF SoFar
<1>10. /\ \A k \in h .. n + 1 - 1 : k \in h .. n - 1 \/ k = n
       /\ h .. n - 1 \subseteq h .. n + 1 - 1 /\ n \in h .. n + 1 - 1
  BY <1>1
<1>11. /\ d.append_output <=> \E k \in h .. n + 1 - 1 : ts[k] = AppendOut
       /\ d.background <=> \E k \in h .. n + 1 - 1 : ts[k] = Amp
       /\ ts[h] \notin Redirects \cup {Amp}
  BY <1>4, <1>10 DEF SoFar
<1>12. \A k \in h .. n + 1 - 1 : ts[k] \in Redirects =>
         k + 1 < n + 1 /\ ts[k + 1] \notin Redirects \cup {Amp}
  BY <1>1, <1>2, <1>4, <1>10
<1> QED BY <1>1, <1>9, <1>11, <1>12 DEF SoFar

(* An operator and the file it names are parsed.                             *)
LEMMA RedirectionSoFar ==
  ASSUME NEW ts, NEW h, NEW e, Stretch(ts, h, e), NEW n \in Nat, h < n, n + 1 < e,
         NEW c, SoFar(ts, h, n, c), c.append_output \in BOOLEAN,
         ts[n] \in Redirects, ts[n + 1] \notin Redirects \cup {Amp},
         NEW d, d.argv = c.argv, d.background = c.background,
         d.infile = (IF ts[n] = In THEN <<ts[n + 1]>> ELSE c.infile),
         d.outfile = (IF ts[n] = In THEN c.outfile ELSE <<ts[n + 1]>>),
         d.append_output = (ts[n] = AppendOut \/ c.append_output)
  PROVE  SoFar(ts, h, n + 2, d)
<1>1. /\ h \in 1 .. Len(ts) /\ e \in Nat /\ Len(ts) \in Nat
      /\ \A ops, k : k \in FilesOf(ts, h, ops) <=> k \in h + 1 .. e - 1 /\ ts[k - 1] \in ops
      /\ \A k : k \in ArgsOf(ts, h) <=> /\ k \in h .. e - 1 /\ ts[k] \notin Redirects \cup {Amp}
                                        /\ k # h => ts[k - 1] \notin Redirects
  BY PartsOfStretch
<1>2. \A k \in h .. n - 1 : ts[k] \in Redirects =>
         k + 1 < n /\ ts[k + 1] \notin Redirects \cup {Amp}
  BY DEF SoFar
<1>3. ts[n - 1] \notin Redirects
  <2>1. n - 1 \in h .. n - 1 /\ ~(n - 1 + 1 < n)
    BY <1>1
  <2> QED BY <1>2, <2>1
<1>4. /\ n \in h + 1 .. e - 1 /\ n + 1 \in h + 1 .. e - 1 /\ n + 1 - 1 = n /\ n # h /\ n + 1 # h
      /\ \A k \in h .. e - 1 : k < n + 2 <=> k < n \/ k = n \/ k = n + 1
      /\ \A k \in h + 1 .. e - 1 : k \in h .. e - 1
      /\ n + 1 < n + 2 /\ ~(n < n) /\ ~(n + 1 < n)
  BY <1>1
<1>5. Below(ArgsOf(ts, h), n + 2) = Below(ArgsOf(ts, h), n)
  <2>1. n \notin ArgsOf(ts, h) /\ n + 1 \notin ArgsOf(ts, h)
    BY <1>1, <1>4
  <2>2. \A k \in ArgsOf(ts, h) : k \in h .. e - 1
    BY <1>1
  <2> QED BY <1>4, <2>1, <2>2 DEF Below
<1>6. ASSUME NEW ops \in SUBSET Redirects
      PROVE  Below(FilesOf(ts, h, ops), n + 2) =
               IF ts[n] \in ops THEN Below(FilesOf(ts, h, ops), n) \cup {n + 1}
               ELSE Below(FilesOf(ts, h, ops), n)
  <2>1. n \notin FilesOf(ts, h, ops) /\ (n + 1 \in FilesOf(ts, h, ops) <=> ts[n] \in ops)
    BY <1>1, <1>3, <1>4
  <2>2. \A k \in FilesOf(ts, h, ops) : k \in h .. e - 1
    BY <1>1, <1>4
  <2> QED BY <1>4, <2>1, <2>2 DEF Below
<1>7. ASSUME NEW ops PROVE LastOf(ts, Below(FilesOf(ts, h, ops), n) \cup {n + 1}, <<ts[n + 1]>>)
  <2>1. \A k \in FilesOf(ts, h, ops) : k \in h .. e - 1
    BY <1>1, <1>4
  <2>2. \A k \in h .. e - 1 : k < n => k \in Nat /\ k <= n + 1
    BY <1>1
  <2>3. \A k \in Below(FilesOf(ts, h, ops), n) : k \in Nat /\ k <= n + 1
    BY <2>1, <2>2 DEF Below
  <2>4. n + 1 \in Nat
    OBVIOUS
  <2> HIDE DEF Below
  <2> QED BY <2>3, <2>4, LastAdd
<1>8. {In} \in SUBSET Redirects /\ {Out, AppendOut} \in SUBSET Redirects
      /\ (ts[n] \in {In} <=> ts[n] = In) /\ (ts[n] \in {Out, AppendOut} <=> ts[n] # In)
  BY OperatorsAssumption DEF Redirects, OperatorsAssumption
<1>9. LastOf(ts, Below(FilesOf(ts, h, {In}), n + 2), d.infile)
  <2>1. CASE ts[n] = In
    BY <1>6, <1>7, <1>8, <2>1
  <2>2. CASE ts[n] # In
    BY <1>6, <1>8, <2>2 DEF SoFar
  <2> QED BY <2>1, <2>2
<1>10. LastOf(ts, Below(FilesOf(ts, h, {Out, AppendOut}), n + 2), d.outfile)
  <2>1. CASE ts[n] = In
    BY <1>6, <1>8, <2>1 DEF SoFar
  <2>2. CASE ts[n] # In
    BY <1>6, <1>7, <1>8, <2>2
  <2> QED BY <2>1, <2>2
<1>11. Spells(ts, Below(ArgsOf(ts, h), n + 2), d.argv)
  BY <1>5 DEF SoFar
<1>12. /\ \A k \in h .. n + 2 - 1 : k \in h .. n - 1 \/ k = n \/ k = n + 1
       /\ h .. n - 1 \subseteq h .. n + 2 - 1 /\ n \in h .. n + 2 - 1
  BY <1>1
<1>13. /\ ts[n + 1] # AppendOut /\ ts[n + 1] # Amp /\ ts[n] # Amp
       /\ ts[n + 1] \notin Redirects
  BY OperatorsAssumption DEF Redirects, OperatorsAssumption
<1>14. /\ d.append_output <=> \E k \in h .. n + 2 - 1 : ts[k] = AppendOut
       /\ d.background <=> \E k \in h .. n + 2 - 1 : ts[k] = Amp
       /\ ts[h] \notin Redirects \cup {Amp}
  BY <1>12, <1>13 DEF SoFar
<1>15. \A k \in h .. n + 2 - 1 : ts[k] \in Redirects =>
         k + 1 < n + 2 /\ ts[k + 1] \notin Redirects \cup {Amp}
  BY <1>1, <1>2, <1>12, <1>13
<1> QED BY <1>1, <1>9, <1>10, <1>11, <1>14, <1>15 DEF SoFar

-----------------------------------------------------------------------------
(* Expansion                                                                 *)

LEMMA NameEndIsGreatest ==
  ASSUME NEW t \in Seq(Chars), Len(t) > 1, t[1] = Dollar, t[2] \in Letters
  PROVE  /\ P!NameEnd(t) \in Identifiers(t)
         /\ \A m \in Identifiers(t) : m <= P!NameEnd(t)
<1> DEFINE T == {n \in 1 .. Len(t) : \A k \in 2 .. n : t[k] \in Letters \cup Digits}
<1>1. Len(t) \in Nat /\ T \in SUBSET (0 .. Len(t))
  OBVIOUS
<1>2. \A n \in 2 .. Len(t) : n \in T <=> n \in Identifiers(t)
  <2>1. \A n \in 2 .. Len(t) : \A k \in 2 .. n : k = 2 \/ k \in 3 .. n
    OBVIOUS
  <2>2. \A n \in 2 .. Len(t) : 3 .. n \subseteq 2 .. n
    OBVIOUS
  <2> QED BY <2>1, <2>2 DEF Identifiers
<1>3. 2 \in 2 .. Len(t) /\ 2 \in Identifiers(t)
  BY <1>1 DEF Identifiers
<1>4. T # {} /\ 2 \in T
  BY <1>2, <1>3
<1> HIDE DEF T
<1>5. PICK m \in T : \A x \in T : x <= m
  BY <1>1, <1>4, GreatestOf
<1>6. P!NameEnd(t) = CHOOSE x \in T : \A y \in T : x >= y
  BY DEF P!NameEnd, P!Max, T
<1>7. P!NameEnd(t) \in T /\ \A y \in T : P!NameEnd(t) >= y
  <2>1. m \in T /\ \A y \in T : m >= y
    BY <1>1, <1>5
  <2> QED BY <1>6, <2>1
<1>8. P!NameEnd(t) \in 2 .. Len(t)
  <2>1. P!NameEnd(t) \in 0 .. Len(t) /\ P!NameEnd(t) >= 2
    BY <1>1, <1>4, <1>7
  <2> QED BY <1>1, <2>1
<1>9. \A m1 \in Identifiers(t) : m1 \in 2 .. Len(t)
  BY DEF Identifiers
<1> QED BY <1>1, <1>2, <1>7, <1>8, <1>9

LEMMA FileExpands == ASSUME NEW t \in Seq(Chars) PROVE Expands(t, P!ExpandFile(t))
<1>1. CASE t = <<>> \/ t[1] # Dollar
  <2>1. P!ExpandFile(t) = t
    BY <1>1 DEF P!ExpandFile
  <2> QED BY <1>1, <2>1 DEF Expands
<1>2. CASE t # <<>> /\ t[1] = Dollar
  <2>1. P!ExpandFile(t) = P!ExpandVariable(t)
    BY <1>2 DEF P!ExpandFile
  <2>2. CASE Len(t) > 1 /\ t[2] \in Letters
    <3>1. /\ P!NameEnd(t) \in Identifiers(t)
          /\ \A m \in Identifiers(t) : m <= P!NameEnd(t)
      BY <1>2, <2>2, NameEndIsGreatest
    <3>2. P!ExpandVariable(t) =
            P!GetEnv(SubSeq(t, 2, P!NameEnd(t))) \o SubSeq(t, P!NameEnd(t) + 1, Len(t))
      BY <2>2 DEF P!ExpandVariable
    <3> QED BY <1>2, <2>1, <3>1, <3>2 DEF Expands
  <2>3. CASE ~(Len(t) > 1 /\ t[2] \in Letters)
    <3>1. Identifiers(t) = {}
      BY <2>3 DEF Identifiers
    <3>2. P!ExpandVariable(t) = <<>>
      BY <2>3 DEF P!ExpandVariable
    <3> QED BY <1>2, <2>1, <3>1, <3>2 DEF Expands
  <2> QED BY <2>2, <2>3
<1> QED BY <1>1, <1>2

LEMMA ArgumentExpands ==
  ASSUME NEW t \in Seq(Chars) PROVE ArgumentIs(t, P!ExpandArgument(t))
<1>1. <<Dollar, Dollar>> # <<Dollar, Query>>
  BY OperatorsAssumption DEF OperatorsAssumption
<1> QED BY <1>1, FileExpands DEF ArgumentIs, P!ExpandArgument

-----------------------------------------------------------------------------
(* A whole command                                                           *)

LEMMA ExpandedFile ==
  ASSUME NEW ts \in Seq(Seq(Chars)), NEW F, F \subseteq 1 .. Len(ts), NEW f, LastOf(ts, F, f)
  PROVE  FileIs(ts, F, [k \in DOMAIN f |-> P!ExpandFile(f[k])])
<1>1. CASE F = {}
  BY <1>1 DEF LastOf, FileIs
<1>2. CASE F # {}
  <2>1. PICK k \in F : (\A j \in F : j <= k) /\ f = <<ts[k]>>
    BY <1>2 DEF LastOf
  <2>2. DOMAIN f = {1} /\ f[1] = ts[k] /\ ts[k] \in Seq(Chars)
    BY <2>1
  <2> DEFINE g == [j \in DOMAIN f |-> P!ExpandFile(f[j])]
  <2>3. Len(g) = 1 /\ g[1] = P!ExpandFile(ts[k])
    <3>1. g = <<P!ExpandFile(ts[k])>>
      BY <2>2
    <3> HIDE DEF g
    <3> QED BY <3>1
  <2>4. Expands(ts[k], g[1])
    BY <2>2, <2>3, FileExpands
  <2> HIDE DEF g
  <2>5. FileIs(ts, F, g)
    BY <1>2, <2>1, <2>3, <2>4 DEF FileIs
  <2> QED BY <2>5 DEF g
<1> QED BY <1>1, <1>2

(* Once all its tokens are parsed, a command is well formed and means, after *)
(* expansion, what its tokens mean.                                          *)
LEMMA WholeCommand ==
  ASSUME NEW ts, NEW h, NEW e, Stretch(ts, h, e), h < e,
         NEW c \in Commands, SoFar(ts, h, e, c)
  PROVE  WellFormedAt(ts, h) /\ Means(ts, h, P!ExpandCommand(c))
<1>0. ts \in Seq(Seq(Chars)) /\ e <= Len(ts) + 1
  BY PartsOfStretch DEF Stretch
<1>1. /\ h \in 1 .. Len(ts) /\ e \in Nat /\ Len(ts) \in Nat
      /\ TokensOf(ts, h) = h .. e - 1
      /\ \A ops, k : k \in FilesOf(ts, h, ops) <=> k \in h + 1 .. e - 1 /\ ts[k - 1] \in ops
      /\ \A k : k \in ArgsOf(ts, h) <=> /\ k \in h .. e - 1 /\ ts[k] \notin Redirects \cup {Amp}
                                        /\ k # h => ts[k - 1] \notin Redirects
  BY PartsOfStretch
<1>2. /\ h .. e - 1 \subseteq 1 .. Len(ts) /\ h + 1 .. e - 1 \subseteq h .. e - 1
      /\ h \in h .. e - 1 /\ \A k \in h .. e - 1 : k < e /\ h <= k
  BY <1>0, <1>1
<1>3. ts[h] \notin Redirects \cup {Amp}
  BY DEF SoFar
<1>4. WellFormedAt(ts, h)
  <2>1. \A k \in h .. e - 1 : ts[k] \in Redirects =>
          k + 1 \in h .. e - 1 /\ ts[k + 1] \notin Redirects \cup {Amp}
    <3>1. \A k \in h .. e - 1 : ts[k] \in Redirects =>
            k + 1 < e /\ ts[k + 1] \notin Redirects \cup {Amp}
      BY DEF SoFar
    <3>2. \A k \in h .. e - 1 : k + 1 < e => k + 1 \in h .. e - 1
      BY <1>1
    <3> QED BY <3>1, <3>2
  <2> QED BY <1>1, <1>2, <1>3, <2>1 DEF WellFormedAt
<1>5. ASSUME NEW K, K \subseteq h .. e - 1 PROVE Below(K, e) = K
  BY <1>2, <1>5 DEF Below
<1> DEFINE A == ArgsOf(ts, h)
           p == P!ExpandCommand(c)
<1>6. A \subseteq h .. e - 1 /\ A \in SUBSET (1 .. Len(ts)) /\ h \in A
  <2>1. A \subseteq h .. e - 1 /\ h \in A
    BY <1>1, <1>2, <1>3
  <2> HIDE DEF A
  <2> QED BY <1>2, <2>1
<1>7. Len(c.argv) = Cardinality(A) /\ \A k \in A : c.argv[Rank(A, k)] = ts[k]
  BY <1>5, <1>6 DEF SoFar, Spells
<1>8. /\ p.argv = [k \in DOMAIN c.argv |-> IF k = 1 THEN c.argv[1] ELSE P!ExpandArgument(c.argv[k])]
      /\ p.infile = [k \in DOMAIN c.infile |-> P!ExpandFile(c.infile[k])]
      /\ p.outfile = [k \in DOMAIN c.outfile |-> P!ExpandFile(c.outfile[k])]
      /\ p.append_output = c.append_output /\ p.background = c.background
  BY DEF P!ExpandCommand, Commands
<1>9. Len(p.argv) = Cardinality(A) /\ DOMAIN p.argv = 1 .. Cardinality(A)
  <2>1. c.argv \in Seq(Seq(Chars))
    BY DEF Commands
  <2>2. DOMAIN c.argv = 1 .. Len(c.argv) /\ Len(c.argv) \in Nat
    BY <2>1
  <2>3. DOMAIN p.argv = 1 .. Len(c.argv)
    BY <1>8, <2>2
  <2>4. Len(p.argv) = Len(c.argv)
    BY <1>8, <2>2
  <2> QED BY <1>7, <2>3, <2>4
<1>10. ASSUME NEW k \in A
       PROVE  IF k = h THEN p.argv[Rank(A, k)] = ts[k]
              ELSE ArgumentIs(ts[k], p.argv[Rank(A, k)])
  <2>1. Rank(A, k) \in 1 .. Cardinality(A) /\ c.argv[Rank(A, k)] = ts[k]
    <3> HIDE DEF A
    <3> QED BY <1>1, <1>6, <1>7, RankBounded
  <2>2. /\ Rank(A, h) = 1
        /\ k # h => Rank(A, k) # 1
    <3>1. \A y \in A : h <= y
      BY <1>2, <1>6
    <3> HIDE DEF A
    <3> QED BY <1>1, <1>6, <3>1, RankOfFirst
  <2>3. p.argv[Rank(A, k)] = IF Rank(A, k) = 1 THEN c.argv[1]
                             ELSE P!ExpandArgument(c.argv[Rank(A, k)])
    <3>1. Rank(A, k) \in DOMAIN c.argv
      BY <1>7, <2>1 DEF Commands
    <3> HIDE DEF A, p
    <3> QED BY <1>8, <3>1
  <2>4. ts[k] \in Seq(Chars)
    BY <1>0, <1>6
  <2>5. CASE k = h
    <3> HIDE DEF A, p
    <3> QED BY <2>1, <2>2, <2>3, <2>5
  <2>6. CASE k # h
    <3>1. p.argv[Rank(A, k)] = P!ExpandArgument(ts[k])
      <4> HIDE DEF A, p
      <4> QED BY <2>1, <2>2, <2>3, <2>6
    <3> HIDE DEF A, p
    <3> QED BY <2>4, <2>6, <3>1, ArgumentExpands
  <2> QED BY <2>5, <2>6
<1>11. ASSUME NEW ops
       PROVE  /\ FilesOf(ts, h, ops) \subseteq 1 .. Len(ts)
              /\ Below(FilesOf(ts, h, ops), e) = FilesOf(ts, h, ops)
  <2>1. FilesOf(ts, h, ops) \subseteq h .. e - 1
    BY <1>1, <1>2
  <2> QED BY <1>2, <1>5, <2>1
<1>12. /\ FileIs(ts, FilesOf(ts, h, {In}), p.infile)
       /\ FileIs(ts, FilesOf(ts, h, {Out, AppendOut}), p.outfile)
  <2>1. /\ LastOf(ts, FilesOf(ts, h, {In}), c.infile)
        /\ LastOf(ts, FilesOf(ts, h, {Out, AppendOut}), c.outfile)
    BY <1>11 DEF SoFar
  <2> HIDE DEF p
  <2>2. FileIs(ts, FilesOf(ts, h, {In}), [k \in DOMAIN c.infile |-> P!ExpandFile(c.infile[k])])
    BY <1>0, <1>11, <2>1, ExpandedFile
  <2>3. FileIs(ts, FilesOf(ts, h, {Out, AppendOut}),
               [k \in DOMAIN c.outfile |-> P!ExpandFile(c.outfile[k])])
    BY <1>0, <1>11, <2>1, ExpandedFile
  <2> QED BY <1>8, <2>2, <2>3
<1>13. /\ p.append_output <=> \E k \in TokensOf(ts, h) : ts[k] = AppendOut
       /\ p.background <=> \E k \in TokensOf(ts, h) : ts[k] = Amp
  <2> HIDE DEF p
  <2> QED BY <1>1, <1>8 DEF SoFar
<1>14. Means(ts, h, p)
  <2> HIDE DEF p
  <2> QED BY <1>9, <1>10, <1>12, <1>13 DEF Means
<1> QED BY <1>4, <1>14

(* The list grows by the command that comes after all others.                *)
LEMMA ListedAdd ==
  ASSUME NEW ts, NEW h \in Nat \ {0}, NEW S \in SUBSET (1 .. h - 1),
         NEW C, NEW ps \in Seq(C), NEW p \in C,
         Listed(ts, S, ps), WellFormedAt(ts, h), Means(ts, h, p)
  PROVE  Listed(ts, S \cup {h}, Append(ps, p))
<1>1. /\ Cardinality(S \cup {h}) = Cardinality(S) + 1
      /\ Rank(S \cup {h}, h) = Cardinality(S) + 1
      /\ \A a \in S : Rank(S \cup {h}, a) = Rank(S, a)
  <2>1. h - 1 \in Nat /\ h \in Nat /\ h > h - 1
    OBVIOUS
  <2> QED BY <2>1, RankAdd
<1>2. \A a \in S : Rank(S, a) \in 1 .. Cardinality(S)
  <2>1. h - 1 \in Nat
    OBVIOUS
  <2> QED BY <2>1, RankBounded
<1>3. Len(ps) = Cardinality(S)
  BY DEF Listed
<1>4. /\ Len(Append(ps, p)) = Len(ps) + 1 /\ Append(ps, p)[Len(ps) + 1] = p
      /\ \A m \in 1 .. Len(ps) : Append(ps, p)[m] = ps[m]
  OBVIOUS
<1>5. \A a \in S : WellFormedAt(ts, a) /\ Means(ts, a, Append(ps, p)[Rank(S \cup {h}, a)])
  BY <1>1, <1>2, <1>3, <1>4 DEF Listed
<1>6. Means(ts, h, Append(ps, p)[Rank(S \cup {h}, h)])
  BY <1>1, <1>3, <1>4
<1> QED BY <1>1, <1>3, <1>4, <1>5, <1>6 DEF Listed

(* The commands up to the end of one are those before it and itself.         *)
LEMMA HeadsUpTo ==
  ASSUME NEW ts, NEW h, NEW e, Stretch(ts, h, e), h < e
  PROVE  /\ Below(Heads(ts), h) \in SUBSET (1 .. h - 1)
         /\ Below(Heads(ts), e + 1) = Below(Heads(ts), h) \cup {h}
         /\ e < Len(ts) => e + 1 \in Heads(ts)
         /\ ~(e < Len(ts)) => Heads(ts) = Below(Heads(ts), h) \cup {h}
<1>1. h \in 1 .. Len(ts) /\ e \in Nat /\ Len(ts) \in Nat /\ h \in Heads(ts)
  BY PartsOfStretch DEF Stretch
<1>2. \A a \in Heads(ts) : a \in 1 .. Len(ts)
  BY DEF Heads
<1>3. Below(Heads(ts), h) \in SUBSET (1 .. h - 1)
  <2>1. \A a \in 1 .. Len(ts) : a < h => a \in 1 .. h - 1
    BY <1>1
  <2> QED BY <1>2, <2>1 DEF Below
<1>4. \A a \in Heads(ts) : a < e + 1 <=> a < h \/ a = h
  <2>1. ASSUME NEW a \in Heads(ts), a \in h + 1 .. e PROVE FALSE
    <3>1. a - 1 \in h .. e - 1 /\ a # 1
      BY <1>1, <2>1
    <3>2. ts[a - 1] # Pipe
      BY <3>1 DEF Stretch
    <3> QED BY <2>1, <3>1, <3>2 DEF Heads
  <2>2. \A a \in 1 .. Len(ts) : a < e + 1 <=> a < h \/ a = h \/ a \in h + 1 .. e
    BY <1>1
  <2> QED BY <1>2, <2>1, <2>2
<1>5. Below(Heads(ts), e + 1) = Below(Heads(ts), h) \cup {h}
  BY <1>1, <1>4 DEF Below
<1>6. ASSUME e < Len(ts) PROVE e + 1 \in Heads(ts)
  <2> DEFINE a == e + 1
  <2>1. ts[e] = Pipe /\ a \in 1 .. Len(ts) /\ e = a - 1
    BY <1>1, <1>6 DEF Stretch
  <2> HIDE DEF a
  <2>2. a \in Heads(ts)
    BY <2>1 DEF Heads
  <2> QED BY <2>2 DEF a
<1>7. ASSUME ~(e < Len(ts)) PROVE Heads(ts) = Below(Heads(ts), e + 1)
  <2>1. \A a \in 1 .. Len(ts) : a < e + 1
    BY <1>1, <1>7
  <2> QED BY <1>2, <2>1 DEF Below
<1> QED BY <1>3, <1>5, <1>6, <1>7

(* The last command runs in the background when the line ends with &.        *)
LEMMA AmpIsLast ==
  ASSUME NEW ts, NEW h, NEW e, Stretch(ts, h, e), h < e, ~(e < Len(ts)), NoEarlyAmp(ts)
  PROVE  (\E k \in h .. e - 1 : ts[k] = Amp) <=> ts[Len(ts)] = Amp
<1>1. h \in 1 .. Len(ts) /\ e \in Nat /\ Len(ts) \in Nat
  BY PartsOfStretch
<1>2. e <= Len(ts) + 1
  BY <1>1 DEF Stretch
<1>3. ASSUME NEW k \in h .. e - 1, ts[k] = Amp PROVE ts[Len(ts)] = Amp
  <2>1. k \in 1 .. Len(ts) - 1 \/ k = Len(ts)
    BY <1>1, <1>2
  <2> QED BY <1>3, <2>1 DEF NoEarlyAmp
<1>4. ASSUME ts[Len(ts)] = Amp PROVE \E k \in h .. e - 1 : ts[k] = Amp
  <2>1. CASE e = Len(ts)
    <3>1. ts[Len(ts)] = Pipe
      BY <1>1, <2>1 DEF Stretch
    <3> QED BY <1>4, <3>1, OperatorsAssumption DEF OperatorsAssumption
  <2>2. CASE e # Len(ts)
    <3>1. Len(ts) \in h .. e - 1
      BY <1>1, <1>2, <2>2
    <3> QED BY <1>4, <3>1
  <2> QED BY <2>1, <2>2
<1> QED BY <1>3, <1>4

-----------------------------------------------------------------------------
(* The invariant of the parser, stage by stage                               *)

AtCheck == stage \in {"wait", "check"} => procs = <<>> /\ next = 1
AtSplit ==
  stage = "split" =>
    /\ NoEarlyAmp(tokens) /\ next \in Heads(tokens)
    /\ Listed(tokens, Below(Heads(tokens), next), procs)
AtParse ==
  stage = "parse" =>
    /\ NoEarlyAmp(tokens)
    /\ \E h \in Heads(tokens) :
         /\ h < next /\ next <= end /\ Stretch(tokens, h, end)
         /\ Listed(tokens, Below(Heads(tokens), h), procs)
         /\ SoFar(tokens, h, next, cmd)
AtParsed ==
  stage \in {"parsed", "handled"} =>
    /\ WellFormed(tokens) /\ Listed(tokens, Heads(tokens), procs)
    /\ cmd.background = (tokens[Len(tokens)] = Amp)
AtRefused == stage \in {"refused", "crashed"} => ~WellFormed(tokens)
AtLaunch ==
  ran.kind = "job" =>
    /\ stage = "handled" /\ ran.first_process = procs
    /\ ran.background = cmd.background /\ ran.command = RawInput
HasTokens == stage # "wait" => mode = "done" /\ tokens # <<>>

MeaningInv == /\ AtCheck /\ AtSplit /\ AtParse /\ AtParsed /\ AtRefused /\ AtLaunch
              /\ HasTokens

(* While a line is parsed, only the part about the new stage has to be shown.*)
LEMMA StageDecides ==
  ASSUME MeaningInv, stage \notin {"wait", "handled"}, tokens' = tokens, mode' = mode, ran' = ran
  PROVE  /\ stage' = "split" /\ AtSplit' => MeaningInv'
         /\ stage' = "parse" /\ AtParse' => MeaningInv'
         /\ stage' = "parsed" /\ AtParsed' => MeaningInv'
         /\ stage' \in {"refused", "crashed"} /\ AtRefused' => MeaningInv'
<1>1. AtLaunch' /\ (mode' = "done" /\ tokens' # <<>>)
  BY DEF MeaningInv, AtLaunch, HasTokens
<1> QED BY <1>1 DEF MeaningInv, AtCheck, AtSplit, AtParse, AtParsed, AtRefused, HasTokens

LEMMA CheckMeans ==
  ASSUME ParserInv, MeaningInv, P!CheckBackground, tokens' = tokens, mode' = mode, ran' = ran
  PROVE  MeaningInv'
<1>1. stage = "check" /\ procs = <<>> /\ next = 1 /\ tokens # <<>>
  BY DEF P!CheckBackground, MeaningInv, AtCheck, HasTokens
<1>2. CASE NoEarlyAmp(tokens)
  <2>1. stage' = "split" /\ next' = 1 /\ procs' = <<>>
    BY <1>1, <1>2 DEF P!CheckBackground, NoEarlyAmp, token_num
  <2>2. 1 \in Heads(tokens)
    <3>1. tokens \in Seq(Seq(Chars))
      BY DEF ParserInv, FrontTypeOK, TypeOK
    <3>2. 1 \in 1 .. Len(tokens)
      BY <1>1, <3>1
    <3> QED BY <3>2 DEF Heads
  <2>3. Below(Heads(tokens), 1) = {}
    <3>1. \A a \in Heads(tokens) : ~(a < 1)
      BY DEF Heads
    <3> QED BY <3>1 DEF Below
  <2>4. Listed(tokens, {}, <<>>)
    BY FS_EmptySet DEF Listed
  <2>5. AtSplit'
    BY <1>2, <2>1, <2>2, <2>3, <2>4 DEF AtSplit
  <2> QED BY <1>1, <2>1, <2>5, StageDecides
<1>3. CASE ~NoEarlyAmp(tokens)
  <2>1. stage' = "refused"
    BY <1>1, <1>3 DEF P!CheckBackground, P!Refuse, NoEarlyAmp, token_num
  <2>2. AtRefused'
    BY <1>3 DEF AtRefused, WellFormed, NoEarlyAmp
  <2> QED BY <1>1, <2>1, <2>2, StageDecides
<1> QED BY <1>2, <1>3

LEMMA SplitMeans ==
  ASSUME ParserInv, MeaningInv, P!SplitOnPipe, tokens' = tokens, mode' = mode, ran' = ran
  PROVE  MeaningInv'
<1>1. /\ stage = "split" /\ NoEarlyAmp(tokens) /\ next \in Heads(tokens)
      /\ Listed(tokens, Below(Heads(tokens), next), procs) /\ tokens \in Seq(Seq(Chars))
  BY DEF P!SplitOnPipe, MeaningInv, AtSplit, ParserInv, FrontTypeOK, TypeOK
<1>2. next \in 1 .. Len(tokens) /\ Len(tokens) \in Nat
  BY <1>1 DEF Heads
<1>3. PICK e \in next .. Len(tokens) + 1 :
        /\ P!Stretch(next, e)
        /\ \/ /\ P!ValidStart(next, e) /\ end' = e /\ next' = next + 1 /\ stage' = "parse"
              /\ cmd' = [P!NoCommand EXCEPT !.argv = <<tokens[next]>>, !.size = e - next]
              /\ procs' = procs
           \/ ~P!ValidStart(next, e) /\ stage' = "refused"
  BY DEF P!SplitOnPipe, P!Refuse, token_num
<1>4. Stretch(tokens, next, e)
  BY <1>1, <1>3 DEF P!Stretch, Stretch, token_num
<1>5. P!Special = Redirects \cup {Amp}
  BY DEF P!Special, Redirects
<1>6. CASE P!ValidStart(next, e)
  <2>1. /\ end' = e /\ next' = next + 1 /\ stage' = "parse" /\ procs' = procs
        /\ cmd' = [P!NoCommand EXCEPT !.argv = <<tokens[next]>>, !.size = e - next]
        /\ next < e /\ tokens[next] \notin Redirects \cup {Amp}
    BY <1>3, <1>5, <1>6 DEF P!ValidStart
  <2>2. /\ cmd'.argv = <<tokens[next]>> /\ cmd'.infile = <<>> /\ cmd'.outfile = <<>>
        /\ cmd'.append_output = FALSE /\ cmd'.background = FALSE
    BY <2>1 DEF P!NoCommand
  <2>3. SoFar(tokens, next, next + 1, cmd')
    BY <1>4, <2>1, <2>2, FirstSoFar
  <2>4. next < next' /\ next' <= end'
    BY <1>2, <2>1
  <2>5. AtParse'
    BY <1>1, <1>4, <2>1, <2>3, <2>4 DEF AtParse
  <2> QED BY <1>1, <2>1, <2>5, StageDecides
<1>7. CASE ~P!ValidStart(next, e)
  <2>1. stage' = "refused"
    BY <1>3, <1>7
  <2>2. ~WellFormedAt(tokens, next)
    <3>1. CASE tokens[next] \in Redirects \cup {Amp}
      BY <3>1 DEF WellFormedAt
    <3>2. CASE ~(next < e)
      <4>1. next = e /\ tokens[next] = Pipe
        BY <1>2, <1>3, <1>4, <3>2 DEF Stretch
      <4> QED BY <1>2, <4>1 DEF WellFormedAt, TokensOf
    <3> QED BY <1>5, <1>7, <3>1, <3>2 DEF P!ValidStart
  <2>3. AtRefused'
    BY <1>1, <2>2 DEF AtRefused, WellFormed
  <2> QED BY <1>1, <2>1, <2>3, StageDecides
<1> QED BY <1>6, <1>7

(* A command that is being parsed, with what is known of its next token.     *)
LEMMA CommandAt ==
  ASSUME ParserInv, MeaningInv, stage = "parse"
  PROVE  /\ NoEarlyAmp(tokens) /\ tokens \in Seq(Seq(Chars)) /\ cmd \in Commands
         /\ next \in Nat /\ end \in Nat /\ end <= Len(tokens) + 1 /\ Len(tokens) \in Nat
         /\ P!Special = Redirects \cup {Amp}
         /\ \E h \in Heads(tokens) :
              /\ h < next /\ next <= end /\ Stretch(tokens, h, end)
              /\ Listed(tokens, Below(Heads(tokens), h), procs)
              /\ SoFar(tokens, h, next, cmd)
<1>1. /\ tokens \in Seq(Seq(Chars)) /\ cmd \in Commands /\ next \in Nat /\ end \in Nat
      /\ end <= Len(tokens) + 1 /\ Len(tokens) \in Nat
  BY DEF ParserInv, FrontTypeOK, TypeOK, ParsingFits, Commands, token_num
<1>2. P!Special = Redirects \cup {Amp}
  BY DEF P!Special, Redirects
<1> QED BY <1>1, <1>2 DEF MeaningInv, AtParse

LEMMA BackgroundMeans ==
  ASSUME ParserInv, MeaningInv, P!Background, tokens' = tokens, mode' = mode, ran' = ran
  PROVE  MeaningInv'
<1>1. stage = "parse" /\ next < end /\ tokens[next] = Amp
  BY DEF P!Background, P!Parsing
<1>2. /\ NoEarlyAmp(tokens) /\ cmd \in Commands
      /\ next \in Nat /\ end \in Nat /\ end <= Len(tokens) + 1 /\ Len(tokens) \in Nat
  BY <1>1, CommandAt
<1>3. PICK h \in Heads(tokens) :
        /\ h < next /\ next <= end /\ Stretch(tokens, h, end)
        /\ Listed(tokens, Below(Heads(tokens), h), procs)
        /\ SoFar(tokens, h, next, cmd)
  BY <1>1, CommandAt
<1>4. next + 1 = end
  <2>1. h \in 1 .. Len(tokens)
    BY DEF Heads
  <2>2. ~(next \in 1 .. Len(tokens) - 1)
    BY <1>1, <1>2 DEF NoEarlyAmp
  <2> QED BY <1>1, <1>2, <1>3, <2>1, <2>2
<1>5. /\ cmd' = [cmd EXCEPT !.background = TRUE] /\ next' = next + 1
      /\ end' = end /\ procs' = procs /\ stage' = "parse"
  BY <1>1, <1>4 DEF P!Background
<1>6. /\ cmd'.argv = cmd.argv /\ cmd'.infile = cmd.infile /\ cmd'.outfile = cmd.outfile
      /\ cmd'.append_output = cmd.append_output /\ cmd'.background = TRUE
  BY <1>2, <1>5 DEF Commands
<1>7. SoFar(tokens, h, next + 1, cmd')
  BY <1>1, <1>2, <1>3, <1>6, AmpSoFar
<1>8. h < next' /\ next' <= end'
  <2>1. h \in Nat
    BY DEF Heads
  <2> QED BY <1>2, <1>3, <1>4, <1>5, <2>1
<1>9. AtParse'
  BY <1>2, <1>3, <1>5, <1>7, <1>8 DEF AtParse
<1> QED BY <1>1, <1>5, <1>9, StageDecides

LEMMA ArgumentMeans ==
  ASSUME ParserInv, MeaningInv, P!Argument, tokens' = tokens, mode' = mode, ran' = ran
  PROVE  MeaningInv'
<1>1. /\ stage = "parse" /\ next < end /\ tokens[next] \notin Redirects \cup {Amp}
      /\ cmd' = [cmd EXCEPT !.argv = Append(@, tokens[next])]
      /\ next' = next + 1 /\ end' = end /\ procs' = procs /\ stage' = "parse"
  BY CommandAt DEF P!Argument, P!Parsing
<1>2. NoEarlyAmp(tokens) /\ cmd \in Commands /\ next \in Nat /\ end \in Nat
  BY <1>1, CommandAt
<1>3. PICK h \in Heads(tokens) :
        /\ h < next /\ next <= end /\ Stretch(tokens, h, end)
        /\ Listed(tokens, Below(Heads(tokens), h), procs)
        /\ SoFar(tokens, h, next, cmd)
  BY <1>1, CommandAt
<1>4. /\ cmd'.argv = Append(cmd.argv, tokens[next])
      /\ cmd'.infile = cmd.infile /\ cmd'.outfile = cmd.outfile
      /\ cmd'.append_output = cmd.append_output /\ cmd'.background = cmd.background
      /\ cmd.argv \in Seq(Seq(Chars))
  BY <1>1, <1>2 DEF Commands
<1>5. SoFar(tokens, h, next + 1, cmd')
  BY <1>1, <1>2, <1>3, <1>4, ArgumentSoFar
<1>6. h < next' /\ next' <= end'
  <2>1. h \in Nat
    BY DEF Heads
  <2> QED BY <1>1, <1>2, <1>3, <2>1
<1>7. AtParse'
  BY <1>1, <1>2, <1>3, <1>5, <1>6 DEF AtParse
<1> QED BY <1>1, <1>7, StageDecides

LEMMA RedirectionMeans ==
  ASSUME ParserInv, MeaningInv, P!Redirection, tokens' = tokens, mode' = mode, ran' = ran
  PROVE  MeaningInv'
<1>1. stage = "parse" /\ next < end /\ tokens[next] \in Redirects
  BY DEF P!Redirection, P!Parsing, Redirects
<1>2. /\ NoEarlyAmp(tokens) /\ cmd \in Commands /\ next \in Nat /\ end \in Nat
      /\ P!Special = Redirects \cup {Amp}
  BY <1>1, CommandAt
<1>3. PICK h \in Heads(tokens) :
        /\ h < next /\ next <= end /\ Stretch(tokens, h, end)
        /\ Listed(tokens, Below(Heads(tokens), h), procs)
        /\ SoFar(tokens, h, next, cmd)
  BY <1>1, CommandAt
<1>4. CASE P!NameFollows
  <2>1. next + 1 < end /\ tokens[next + 1] \notin Redirects \cup {Amp}
    BY <1>2, <1>4 DEF P!NameFollows
  <2>2. /\ cmd' = (IF tokens[next] = In THEN [cmd EXCEPT !.infile = <<tokens[next + 1]>>]
                   ELSE P!Output(tokens[next] = AppendOut))
        /\ next' = next + 2 /\ end' = end /\ procs' = procs /\ stage' = "parse"
    BY <1>1, <1>4 DEF P!Redirection
  <2>3. /\ cmd'.argv = cmd.argv /\ cmd'.background = cmd.background
        /\ cmd'.infile = (IF tokens[next] = In THEN <<tokens[next + 1]>> ELSE cmd.infile)
        /\ cmd'.outfile = (IF tokens[next] = In THEN cmd.outfile ELSE <<tokens[next + 1]>>)
        /\ cmd'.append_output = (tokens[next] = AppendOut \/ cmd.append_output)
        /\ cmd.append_output \in BOOLEAN
    <3>1. CASE tokens[next] = In
      <4>1. cmd' = [cmd EXCEPT !.infile = <<tokens[next + 1]>>] /\ tokens[next] # AppendOut
        BY <2>2, <3>1, OperatorsAssumption DEF OperatorsAssumption
      <4>2. /\ cmd'.argv = cmd.argv /\ cmd'.background = cmd.background
            /\ cmd'.infile = <<tokens[next + 1]>> /\ cmd'.outfile = cmd.outfile
            /\ cmd'.append_output = cmd.append_output /\ cmd.append_output \in BOOLEAN
        BY <1>2, <4>1 DEF Commands
      <4> QED BY <3>1, <4>1, <4>2
    <3>2. CASE tokens[next] # In
      <4>1. cmd' = [cmd EXCEPT !.outfile = <<tokens[next + 1]>>,
                               !.append_output = (tokens[next] = AppendOut) \/ @]
        BY <2>2, <3>2 DEF P!Output
      <4>2. /\ cmd'.argv = cmd.argv /\ cmd'.background = cmd.background
            /\ cmd'.infile = cmd.infile /\ cmd'.outfile = <<tokens[next + 1]>>
            /\ cmd'.append_output = ((tokens[next] = AppendOut) \/ cmd.append_output)
            /\ cmd.append_output \in BOOLEAN
        BY <1>2, <4>1 DEF Commands
      <4> QED BY <3>2, <4>2
    <3> QED BY <3>1, <3>2
  <2>4. SoFar(tokens, h, next + 2, cmd')
    BY <1>1, <1>2, <1>3, <2>1, <2>3, RedirectionSoFar
  <2>5. h < next' /\ next' <= end'
    <3>1. h \in Nat
      BY DEF Heads
    <3> QED BY <1>2, <1>3, <2>1, <2>2, <3>1
  <2>6. AtParse'
    BY <1>2, <1>3, <2>2, <2>4, <2>5 DEF AtParse
  <2> QED BY <1>1, <2>2, <2>6, StageDecides
<1>5. CASE ~P!NameFollows
  <2>1. stage' = "refused"
    BY <1>5 DEF P!Redirection, P!Refuse
  <2>2. TokensOf(tokens, h) = h .. end - 1 /\ h \in 1 .. Len(tokens)
    BY <1>3, PartsOfStretch
  <2>3. next \in h .. end - 1 /\ (next + 1 \in h .. end - 1 => next + 1 < end)
    BY <1>1, <1>2, <1>3, <2>2
  <2>4. ~WellFormedAt(tokens, h)
    BY <1>1, <1>2, <1>5, <2>2, <2>3 DEF WellFormedAt, P!NameFollows
  <2>5. AtRefused'
    BY <2>4 DEF AtRefused, WellFormed
  <2> QED BY <1>1, <2>1, <2>5, StageDecides
<1> QED BY <1>4, <1>5

LEMMA EndCommandMeans ==
  ASSUME ParserInv, MeaningInv, P!EndCommand, tokens' = tokens, mode' = mode, ran' = ran
  PROVE  MeaningInv'
<1>1. /\ stage = "parse" /\ next = end
      /\ procs' = Append(procs, P!ExpandCommand(cmd))
      /\ next' = end + 1 /\ cmd' = cmd
      /\ stage' = (IF end < Len(tokens) THEN "split" ELSE "parsed")
  BY DEF P!EndCommand, token_num
<1>2. NoEarlyAmp(tokens) /\ cmd \in Commands /\ next \in Nat /\ end \in Nat
  BY <1>1, CommandAt
<1>3. PICK h \in Heads(tokens) :
        /\ h < next /\ Stretch(tokens, h, end)
        /\ Listed(tokens, Below(Heads(tokens), h), procs)
        /\ SoFar(tokens, h, next, cmd)
  BY <1>1, CommandAt
<1>4. WellFormedAt(tokens, h) /\ Means(tokens, h, P!ExpandCommand(cmd))
  BY <1>1, <1>2, <1>3, WholeCommand
<1>5. Listed(tokens, Below(Heads(tokens), h) \cup {h}, procs')
  <2>1. Below(Heads(tokens), h) \in SUBSET (1 .. h - 1)
    BY <1>1, <1>3, HeadsUpTo
  <2>2. h \in Nat \ {0}
    BY DEF Heads
  <2> DEFINE x == P!ExpandCommand(cmd)
             C == {procs[k] : k \in 1 .. Len(procs)} \cup {x}
  <2>3. procs \in Seq(C) /\ x \in C
    BY DEF ParserInv, ListNamed
  <2> HIDE DEF x, C
  <2>4. Listed(tokens, Below(Heads(tokens), h) \cup {h}, Append(procs, x))
    BY <1>3, <1>4, <2>1, <2>2, <2>3, ListedAdd DEF x
  <2> QED BY <1>1, <2>4 DEF x
<1>6. CASE end < Len(tokens)
  <2>1. /\ end + 1 \in Heads(tokens)
        /\ Below(Heads(tokens), end + 1) = Below(Heads(tokens), h) \cup {h}
    BY <1>1, <1>3, <1>6, HeadsUpTo
  <2>2. AtSplit'
    BY <1>1, <1>2, <1>5, <2>1 DEF AtSplit
  <2> QED BY <1>1, <1>6, <2>2, StageDecides
<1>7. CASE ~(end < Len(tokens))
  <2>1. Heads(tokens) = Below(Heads(tokens), h) \cup {h}
    BY <1>1, <1>3, <1>7, HeadsUpTo
  <2>2. Listed(tokens, Heads(tokens), procs')
    BY <1>5, <2>1
  <2>3. WellFormed(tokens)
    BY <1>2, <2>2 DEF WellFormed, NoEarlyAmp, Listed
  <2>4. cmd.background = (tokens[Len(tokens)] = Amp)
    <3>1. (\E k \in h .. end - 1 : tokens[k] = Amp) <=> tokens[Len(tokens)] = Amp
      BY <1>1, <1>2, <1>3, <1>7, AmpIsLast
    <3>2. cmd.background <=> \E k \in h .. end - 1 : tokens[k] = Amp
      BY <1>1, <1>3 DEF SoFar
    <3>3. cmd.background \in BOOLEAN
      BY <1>2 DEF Commands
    <3> QED BY <3>1, <3>2, <3>3
  <2>5. AtParsed'
    BY <1>1, <2>2, <2>3, <2>4 DEF AtParsed
  <2> QED BY <1>1, <1>7, <2>5, StageDecides
<1> QED BY <1>6, <1>7

LEMMA MeaningInit == FrontInit => MeaningInv
BY DEF FrontInit, P!ParserInit, Nothing, MeaningInv, AtCheck, AtSplit, AtParse, AtParsed,
   AtRefused, AtLaunch, HasTokens

LEMMA MeaningKeeps ==
  ASSUME ParserInv, MeaningInv, [FrontNext]_frontVars
  PROVE  MeaningInv'
<1>1. CASE Tokenize
  <2>1. mode # "done"
    BY <1>1 DEF Tokenize, TokenizeLine, SkipBlank, Finish, OpenQuote, Operator, StartWord,
       WordChar, EndWord, QuotedChar, CloseQuote, Unmatched, Store, StoreFails
  <2>2. stage = "wait" /\ next' = next /\ procs' = procs /\ stage' = stage /\ ran' = ran
    BY <1>1, <2>1 DEF Tokenize, MeaningInv, HasTokens
  <2>3. ran.kind # "job"
    BY <2>2 DEF MeaningInv, AtLaunch
  <2> QED BY <2>2, <2>3 DEF MeaningInv, AtCheck, AtSplit, AtParse, AtParsed, AtRefused,
             AtLaunch, HasTokens
<1>2. CASE HandOver
  <2>1. /\ stage = "wait" /\ stage' = "check" /\ mode' = "done" /\ tokens' = tokens
        /\ tokens # <<>> /\ next' = next /\ procs' = procs /\ ran' = ran
    BY <1>2 DEF HandOver, vars
  <2>2. ran.kind # "job"
    BY <2>1 DEF MeaningInv, AtLaunch
  <2> QED BY <2>1, <2>2 DEF MeaningInv, AtCheck, AtSplit, AtParse, AtParsed, AtRefused,
             AtLaunch, HasTokens
<1>3. CASE Parse
  <2>1. tokens' = tokens /\ mode' = mode /\ ran' = ran /\ P!InitializeProcesses
    BY <1>3 DEF Parse, vars
  <2> QED BY <2>1, CheckMeans, SplitMeans, BackgroundMeans, RedirectionMeans, ArgumentMeans,
             EndCommandMeans DEF P!InitializeProcesses
<1>4. CASE IsBuiltinOfNull
  <2>1. /\ stage = "refused" /\ stage' = "crashed" /\ mode' = mode /\ tokens' = tokens
        /\ ran' = ran
    BY <1>4 DEF IsBuiltinOfNull, vars
  <2>2. AtRefused'
    BY <2>1 DEF MeaningInv, AtRefused
  <2> QED BY <2>1, <2>2, StageDecides
<1>5. CASE Dispatch
  <2>1. /\ stage = "parsed" /\ stage' = "handled" /\ mode' = mode /\ tokens' = tokens
        /\ line' = line /\ procs' = procs /\ cmd' = cmd
        /\ ran' = IF IsBuiltin THEN [kind |-> "builtin", proc |-> procs[1]]
                  ELSE [kind |-> "job", first_process |-> procs,
                        command |-> RawInput, background |-> cmd.background]
    BY <1>5 DEF Dispatch, vars
  <2>2. AtParsed' /\ HasTokens'
    BY <2>1 DEF MeaningInv, AtParsed, HasTokens
  <2>3. RawInput' = RawInput
    BY <2>1 DEF RawInput
  <2>4. AtLaunch'
    BY <2>1, <2>3 DEF AtLaunch
  <2> QED BY <2>1, <2>2, <2>4 DEF MeaningInv, AtCheck, AtSplit, AtParse, AtRefused
<1>6. CASE UNCHANGED frontVars
  BY <1>6 DEF frontVars, vars, MeaningInv, AtCheck, AtSplit, AtParse, AtParsed, AtRefused,
     AtLaunch, HasTokens, RawInput
<1> QED BY <1>1, <1>2, <1>3, <1>4, <1>5, <1>6 DEF FrontNext

LEMMA MeaningInvariant == FrontSpec => [](ParserInv /\ MeaningInv)
<1>1. ParserInv /\ MeaningInv /\ [FrontNext]_frontVars => MeaningInv'
  BY MeaningKeeps
<1> QED BY <1>1, MeaningInit, ParserInvariant, PTL DEF FrontSpec

-----------------------------------------------------------------------------
(* The text of a job                                                         *)

(* Without its last character a line has the same tokens before it.          *)
LEMMA FrontAgrees ==
  ASSUME NEW s \in Seq(Chars), NEW f \in Seq(Chars), Len(s) = Len(f) + 1,
         \A k \in 1 .. Len(f) : f[k] = s[k], NEW i \in 1 .. Len(f)
  PROVE  /\ \A k \in i + 1 .. Len(f) : Closes(f, i, k) <=> Closes(s, i, k)
         /\ \A k \in i .. Len(f) : Covers(f, i, k) <=> Covers(s, i, k)
         /\ \A k \in i .. Len(f) : k \in Kept(f, i) <=> k \in Kept(s, i)
<1>1. Len(f) \in Nat /\ Len(s) \in Nat
  OBVIOUS
<1>2. ASSUME NEW k \in i .. Len(f) PROVE Escaped(f, i, k) <=> Escaped(s, i, k)
  <2>1. ASSUME NEW r \in 1 .. k - i - 1
        PROVE  /\ f[k - r - 1] = s[k - r - 1]
               /\ \A j \in k - r .. k - 1 : f[j] = s[j]
    <3>1. k - r - 1 \in 1 .. Len(f) /\ \A j \in k - r .. k - 1 : j \in 1 .. Len(f)
      BY <1>1
    <3> QED BY <3>1
  <2> QED BY <2>1 DEF Escaped
<1>3. \A k \in i .. Len(f) : k \in 1 .. Len(f) /\ k \in i .. Len(s)
  BY <1>1
<1>4. ASSUME NEW k \in i + 1 .. Len(f) PROVE Closes(f, i, k) <=> Closes(s, i, k)
  <2>1. k \in i .. Len(f)
    BY <1>1
  <2> QED BY <1>2, <1>3, <2>1 DEF Closes
<1>5. ASSUME NEW k \in i .. Len(f) PROVE Covers(f, i, k) <=> Covers(s, i, k)
  <2>1. \A j \in i + 1 .. k - 1 : j \in i + 1 .. Len(f)
    BY <1>1
  <2>2. \A j \in i .. k : j \in 1 .. Len(f)
    BY <1>1
  <2> QED BY <1>3, <1>4, <2>1, <2>2 DEF Covers
<1>6. ASSUME NEW k \in i .. Len(f) PROVE k \in Kept(f, i) <=> k \in Kept(s, i)
  <2>1. k # i => k \in i + 1 .. Len(f)
    BY <1>1
  <2> QED BY <1>2, <1>3, <1>4, <1>5, <2>1 DEF Kept
<1> QED BY <1>4, <1>5, <1>6

(* If the last character of a line is a token by itself, what comes before   *)
(* it reads as the other tokens.                                             *)
LEMMA FrontReads ==
  ASSUME NEW s \in Seq(Chars), NEW ts \in Seq(Seq(Chars)), s # <<>>,
         NEW S \in SUBSET (1 .. Len(s)), Starts(s, Len(s), S), Texts(s, S, ts),
         Len(s) \in S, s[Len(s)] \in Specials
  PROVE  Reads(Front(s), Front(ts)) /\ Last(ts) = <<s[Len(s)]>>
<1> DEFINE L == Len(s)
           f == Front(s)
           R == S \ {L}
<1>1. L \in Nat \ {0} /\ L - 1 \in Nat
  OBVIOUS
<1>2. /\ f \in Seq(Chars) /\ Len(f) = L - 1 /\ \A k \in 1 .. L - 1 : f[k] = s[k]
  <2>1. f = SubSeq(s, 1, L - 1) /\ L - 1 <= Len(s) /\ 1 <= L - 1 + 1
    BY <1>1 DEF Front
  <2> HIDE DEF f, L
  <2> QED BY <1>1, <2>1
<1>3. R \in SUBSET (1 .. L - 1) /\ S = R \cup {L}
  <2>1. \A k \in 1 .. L : k # L => k \in 1 .. L - 1
    BY <1>1
  <2>2. S \in SUBSET (1 .. L) /\ L \in S
    OBVIOUS
  <2> HIDE DEF L
  <2> QED BY <2>1, <2>2
<1> HIDE DEF L, f, R
<1>4. /\ Cardinality(S) = Cardinality(R) + 1 /\ Rank(S, L) = Cardinality(R) + 1
      /\ \A i \in R : Rank(S, i) = Rank(R, i)
  <2>1. L - 1 \in Nat /\ L \in Nat /\ L > L - 1
    BY <1>1
  <2> QED BY <1>3, <2>1, RankAdd
<1>5. Cardinality(R) \in Nat /\ \A i \in R : Rank(R, i) \in 1 .. Cardinality(R)
  BY <1>1, <1>3, PositionsFinite, RankBounded
<1>6. Len(ts) = Cardinality(R) + 1
  BY <1>4 DEF Texts
<1>7. /\ Len(Front(ts)) = Cardinality(R)
      /\ \A m \in 1 .. Cardinality(R) : Front(ts)[m] = ts[m]
  BY <1>5, <1>6 DEF Front
<1>8. s[L] \notin Quotes
  BY DistinctAssumption DEF Quotes, DistinctAssumption, L
<1>9. Starts(f, L - 1, R)
  <2> SUFFICES ASSUME NEW k \in 1 .. L - 1
               PROVE  k \in R <=> f[k] # Blank /\ \A i \in R : i < k => ~Covers(f, i, k)
    BY DEF Starts
  <2>1. k \in 1 .. L /\ k # L /\ ~(L < k)
    BY <1>1
  <2>2. k \in S <=> s[k] # Blank /\ \A i \in S : i < k => ~Covers(s, i, k)
    BY <2>1 DEF Starts, L
  <2>3. \A i \in R : i < k => (Covers(f, i, k) <=> Covers(s, i, k))
    <3>1. \A i \in R : i < k => i \in 1 .. Len(f) /\ k \in i .. Len(f)
      BY <1>1, <1>2, <1>3
    <3>2. Len(s) = Len(f) + 1
      BY <1>1, <1>2 DEF L
    <3> QED BY <1>2, <3>1, <3>2, FrontAgrees
  <2> QED BY <1>2, <1>3, <2>1, <2>2, <2>3
<1>10. ASSUME NEW i \in R
       PROVE  ~Refusable(f, i) /\ Spells(f, Kept(f, i), Front(ts)[Rank(R, i)])
  <2>1. /\ i \in 1 .. Len(f) /\ i \in S /\ i < L /\ Len(s) = Len(f) + 1
        /\ \A k \in 1 .. Len(f) : f[k] = s[k]
    BY <1>1, <1>2, <1>3 DEF L
  <2>2. /\ \A k \in i + 1 .. Len(f) : Closes(f, i, k) <=> Closes(s, i, k)
        /\ \A k \in i .. Len(f) : k \in Kept(f, i) <=> k \in Kept(s, i)
    BY <1>2, <2>1, FrontAgrees
  <2>3. ~Covers(s, i, L)
    BY <1>1, <2>1 DEF Starts, L
  <2>4. Kept(f, i) = Kept(s, i)
    <3>1. \A k \in Kept(s, i) : k \in i .. Len(f)
      <4>1. \A k \in Kept(s, i) : k \in i .. L /\ k # L
        BY <2>3 DEF Kept, L
      <4> QED BY <1>1, <1>2, <4>1
    <3>2. \A k \in Kept(f, i) : k \in i .. Len(f)
      BY DEF Kept
    <3> QED BY <2>2, <3>1, <3>2
  <2>5. ~Refusable(s, i) /\ Spells(s, Kept(s, i), ts[Rank(S, i)])
    BY <2>1 DEF Texts
  <2>6. ~Refusable(f, i)
    <3>1. CASE s[i] \in Quotes
      <4>1. PICK k \in i + 1 .. Len(s) : Closes(s, i, k)
        BY <2>5, <3>1 DEF Refusable
      <4>2. k # L
        BY <1>8, <3>1, <4>1 DEF Closes
      <4>3. k \in i + 1 .. Len(f) /\ Closes(f, i, k)
        BY <1>1, <1>2, <2>2, <4>1, <4>2 DEF L
      <4> QED BY <2>1, <2>4, <2>5, <3>1, <4>3 DEF Refusable
    <3>2. CASE s[i] \notin Quotes
      BY <2>1, <3>2 DEF Refusable
    <3> QED BY <3>1, <3>2
  <2>7. \A k \in Kept(f, i) : k \in 1 .. Len(f)
    <3>1. \A k \in i .. Len(f) : k \in 1 .. Len(f)
      BY <1>2, <2>1
    <3> QED BY <3>1 DEF Kept
  <2>8. Front(ts)[Rank(R, i)] = ts[Rank(S, i)]
    BY <1>4, <1>5, <1>7
  <2>9. Spells(f, Kept(f, i), ts[Rank(S, i)])
    BY <2>1, <2>4, <2>5, <2>7 DEF Spells
  <2> QED BY <2>6, <2>8, <2>9
<1>11. Reads(f, Front(ts))
  BY <1>2, <1>3, <1>7, <1>9, <1>10 DEF Reads, Texts
<1>12. Last(ts) = <<s[L]>>
  <2>1. Kept(s, L) = {L}
    <3>1. \A k \in L .. Len(s) : k = L
      BY <1>1 DEF L
    <3>2. Covers(s, L, L) /\ L \in L .. Len(s)
      BY <1>1 DEF Covers, L
    <3> QED BY <1>8, <3>1, <3>2 DEF Kept
  <2>2. Spells(s, {L}, ts[Rank(S, L)])
    BY <1>3, <2>1 DEF Texts
  <2>3. Cardinality({L}) = 1 /\ Rank({L}, L) = 1
    <3>1. {y \in {L} : y <= L} = {L}
      BY <1>1
    <3> QED BY <3>1, FS_Singleton DEF Rank
  <2>4. Len(ts[Rank(S, L)]) = 1 /\ ts[Rank(S, L)][1] = s[L]
    BY <2>2, <2>3 DEF Spells
  <2>5. Rank(S, L) = Len(ts) /\ Len(ts) \in 1 .. Len(ts)
    BY <1>4, <1>5, <1>6
  <2>6. ts[Len(ts)] \in Seq(Chars)
    BY <2>5
  <2>7. ts[Len(ts)] = <<s[L]>>
    BY <2>4, <2>5, <2>6
  <2> QED BY <2>7 DEF Last
<1> QED BY <1>11, <1>12 DEF f, L

(* If it is not, it is the second & of a double one.                         *)
LEMMA DoubleAmp ==
  ASSUME NEW s \in Seq(Chars), NEW ts \in Seq(Seq(Chars)), s # <<>>,
         NEW S \in SUBSET (1 .. Len(s)), Starts(s, Len(s), S), Texts(s, S, ts),
         Len(s) \notin S, NEW c \in Specials, s[Len(s)] = c
  PROVE  Last(ts) = <<c, c>>
<1> DEFINE L == Len(s)
<1>1. L \in Nat \ {0} /\ L \in 1 .. L /\ S \in SUBSET (1 .. L)
  OBVIOUS
<1>2. s[L] = c
  OBVIOUS
<1>3. c # Blank /\ c \notin Quotes
  BY DistinctAssumption DEF Quotes, DistinctAssumption
<1>4. PICK i \in S : i < L /\ Covers(s, i, L)
  BY <1>1, <1>2, <1>3 DEF Starts
<1>5. s[i] = c /\ i = L - 1
  <2>1. CASE s[i] \in Quotes /\ \A j \in i + 1 .. L - 1 : ~Closes(s, i, j)
    <3>1. ~Closes(s, i, L)
      BY <1>2, <1>3, <2>1 DEF Closes
    <3>2. \A j \in i + 1 .. L : j \in i + 1 .. L - 1 \/ j = L
      BY <1>1
    <3>3. Refusable(s, i)
      BY <2>1, <3>1, <3>2 DEF Refusable
    <3> QED BY <3>3 DEF Texts
  <2>2. CASE s[i] \in Specials /\ L <= i + 1 /\ s[L] = s[i]
    BY <1>1, <1>2, <1>4, <2>2
  <2>3. CASE \A j \in i .. L : InWord(s[j])
    <3>1. L \in i .. L
      BY <1>1, <1>4
    <3> QED BY <1>2, <2>3, <3>1 DEF InWord
  <2> QED BY <1>4, <2>1, <2>2, <2>3 DEF Covers
<1>6. Kept(s, i) = i .. i + 1
  <2>1. i .. L = i .. i + 1
    BY <1>1, <1>5
  <2>2. \A k \in i .. L : Covers(s, i, k)
    <3>1. \A k \in i .. L : k <= i + 1 /\ s[k] = s[i]
      BY <1>1, <1>2, <1>5
    <3> QED BY <1>5, <3>1 DEF Covers
  <2> QED BY <1>3, <1>5, <2>1, <2>2 DEF Kept
<1>7. Rank(S, i) = Len(ts)
  <2>1. \A y \in S : y <= i
    BY <1>1, <1>5
  <2>2. {y \in S : y <= i} = S
    BY <2>1
  <2> QED BY <2>2 DEF Rank, Texts
<1>8. Rank(S, i) \in 1 .. Cardinality(S) /\ Len(ts) = Cardinality(S)
  <2> HIDE DEF L
  <2> QED BY <1>1, RankBounded DEF Texts
<1>9. Spells(s, i .. i + 1, ts[Len(ts)])
  BY <1>6, <1>7 DEF Texts
<1>10. /\ Cardinality(i .. i + 1) = 2
       /\ Rank(i .. i + 1, i) = 1 /\ Rank(i .. i + 1, i + 1) = 2
  <2>1. /\ i \in Nat /\ i + 1 \in Nat /\ i <= i + 1 + 1 /\ i + 1 - i + 1 = 2 /\ i - i + 1 = 1
        /\ i \in i .. i + 1 /\ i + 1 \in i .. i + 1
    OBVIOUS
  <2> DEFINE j == i + 1
  <2>2. i \in Nat /\ j \in Nat /\ i <= j + 1
    BY <2>1
  <2> HIDE DEF j
  <2>3. /\ Cardinality(i .. j) = j - i + 1
        /\ \A k \in i .. j : Rank(i .. j, k) = k - i + 1
    BY <2>2, RankInterval
  <2> QED BY <2>1, <2>3 DEF j
<1>11. s[i + 1] = c
  BY <1>1, <1>2, <1>5
<1>12. Len(ts[Len(ts)]) = 2 /\ ts[Len(ts)][1] = c /\ ts[Len(ts)][2] = c
  <2>1. i \in i .. i + 1 /\ i + 1 \in i .. i + 1
    OBVIOUS
  <2> QED BY <1>5, <1>9, <1>10, <1>11, <2>1 DEF Spells
<1>13. ts[Len(ts)] \in Seq(Chars)
  BY <1>7, <1>8
<1>14. ts[Len(ts)] = <<c, c>>
  <2> DEFINE t == ts[Len(ts)]
  <2>1. t \in Seq(Chars) /\ Len(t) = 2 /\ t[1] = c /\ t[2] = c
    BY <1>12, <1>13
  <2> HIDE DEF t
  <2>2. t = <<c, c>>
    BY <2>1
  <2> QED BY <2>2 DEF t
<1> QED BY <1>14 DEF Last

LEMMA CommandText ==
  ASSUME TypeOK, tokens # <<>>, Reads(line, tokens)
  PROVE  \/ Reads(RawInput, tokens)
         \/ Last(tokens) = Amp /\ Reads(RawInput, Front(tokens))
         \/ Last(tokens) = Amp \o Amp
<1>1. line \in Seq(Chars) /\ tokens \in Seq(Seq(Chars))
  BY DEF TypeOK
<1>2. PICK S \in SUBSET (1 .. Len(line)) : Starts(line, Len(line), S) /\ Texts(line, S, tokens)
  BY DEF Reads
<1>3. PICK c \in Specials : Amp = <<c>>
  BY OperatorsAssumption DEF OperatorsAssumption
<1>4. line # <<>>
  <2>1. ASSUME line = <<>> PROVE FALSE
    <3>1. S = {}
      BY <2>1
    <3>2. Len(tokens) = 0
      BY <1>2, <3>1, FS_EmptySet DEF Texts
    <3> QED BY <1>1, <3>2
  <2> QED BY <2>1
<1>5. CASE line[Len(line)] = c
  <2>1. RawInput = Front(line)
    BY <1>3, <1>5 DEF RawInput, Last
  <2>2. CASE Len(line) \in S
    <3>1. Reads(Front(line), Front(tokens)) /\ Last(tokens) = <<line[Len(line)]>>
      BY <1>1, <1>2, <1>4, <1>5, <2>2, FrontReads
    <3> QED BY <1>3, <1>5, <2>1, <3>1
  <2>3. CASE Len(line) \notin S
    <3>1. Last(tokens) = <<c, c>>
      BY <1>1, <1>2, <1>4, <1>5, <2>3, DoubleAmp
    <3>2. Amp \o Amp = <<c, c>>
      <4> DEFINE t == <<c>>
                 u == t \o t
      <4>1. t \in Seq(Specials) /\ Len(t) = 1 /\ t[1] = c
        OBVIOUS
      <4>2. u \in Seq(Specials) /\ Len(u) = 2 /\ u[1] = c /\ u[2] = c
        <5> HIDE DEF t
        <5>1. /\ t \o t \in Seq(Specials) /\ Len(t \o t) = Len(t) + Len(t)
              /\ \A m \in 1 .. Len(t) + Len(t) :
                   (t \o t)[m] = IF m <= Len(t) THEN t[m] ELSE t[m - Len(t)]
          BY <4>1, ConcatProperties
        <5> QED BY <4>1, <5>1
      <4> HIDE DEF u
      <4>3. u = <<c, c>>
        BY <4>2
      <4> QED BY <1>3, <4>3 DEF u
    <3> QED BY <3>1, <3>2
  <2> QED BY <2>2, <2>3
<1>6. CASE line[Len(line)] # c
  <2>1. RawInput = line
    BY <1>3, <1>6 DEF RawInput, Last
  <2> QED BY <2>1
<1> QED BY <1>5, <1>6

-----------------------------------------------------------------------------
LEMMA AllInvariants == FrontSpec => [](TypeOK /\ ReadInv /\ ParserInv /\ MeaningInv)
BY ReadInvariant, MeaningInvariant, PTL

(* The shell survives exactly the lines that are sequences of well formed    *)
(* commands, of fewer than MAXTOKENS tokens: a list that is parsed is well   *)
(* formed, one that is not is NULL when is_bulitin reads it, and the array   *)
(* is written past its end by lines of MAXTOKENS tokens and no others        *)
(* (parser.c:26-120, helper.c:17, tokenizer.c:111).                          *)
THEOREM BadLinesKill == FrontSpec => []OnlyBadLinesKill
<1>1. ASSUME TypeOK, ReadInv, MeaningInv PROVE OnlyBadLinesKill
  <2>1. ASSUME mode \in {"done", "overrun"}
        PROVE  \E S \in SUBSET (1 .. Len(line)) :
                 /\ Starts(line, Len(line), S) /\ Cardinality(S) <= MaxTokens
                 /\ mode = "overrun" <=> Cardinality(S) = MaxTokens
    <3>1. PICK S \in SUBSET (1 .. Len(line)) :
            Starts(line, Len(line), S) /\ Texts(line, S, tokens)
      BY <1>1, <2>1 DEF ReadInv, AtReturn, Reads
    <3>2. Cardinality(S) = Len(tokens) /\ Len(tokens) \in Nat /\ MaxTokens \in Nat
      BY <1>1, <3>1, LimitsAssumption DEF Texts, TypeOK, LimitsAssumption
    <3>3. Len(tokens) <= MaxTokens /\ (mode = "overrun" <=> Len(tokens) = MaxTokens)
      BY <1>1, <2>1, <3>2 DEF ReadInv, AtReturn
    <3> QED BY <3>1, <3>2, <3>3
  <2>2. (stage = "crashed" => ~WellFormed(tokens)) /\ (stage = "parsed" => WellFormed(tokens))
    BY <1>1 DEF MeaningInv, AtRefused, AtParsed
  <2> QED BY <2>1, <2>2 DEF OnlyBadLinesKill
<1> QED BY <1>1, AllInvariants, PTL

(* Every process that is launched is what its stretch of the tokens means:   *)
(* its arguments in their order, each expanded once, the last file of each   *)
(* kind, and the flags, however the redirections are interleaved             *)
(* (parser.c:26-175, expander.c:14-90).                                      *)
THEOREM CommandsAreTokens == FrontSpec => []CommandsMeanTokens
<1>1. MeaningInv => CommandsMeanTokens
  BY DEF MeaningInv, AtParsed, Listed, CommandsMeanTokens
<1> QED BY <1>1, AllInvariants, PTL

(* A job gets all commands of the line, runs in the background exactly when  *)
(* the line's last token is &, and the text kept of it reads as the tokens   *)
(* it runs, but for && (job_utils.c:95, 110).                                *)
THEOREM JobsAreLines == FrontSpec => []JobMeansLine
<1>1. ASSUME TypeOK, ReadInv, MeaningInv PROVE JobMeansLine
  <2> SUFFICES ASSUME ran.kind = "job" PROVE JobMeansLine
    BY DEF JobMeansLine
  <2>1. /\ stage = "handled" /\ ran.first_process = procs
        /\ ran.background = cmd.background /\ ran.command = RawInput
    BY <1>1 DEF MeaningInv, AtLaunch
  <2>2. /\ Len(procs) = Cardinality(Heads(tokens)) /\ mode = "done" /\ tokens # <<>>
        /\ cmd.background = (tokens[Len(tokens)] = Amp)
    BY <1>1, <2>1 DEF MeaningInv, AtParsed, Listed, HasTokens
  <2>3. Reads(line, tokens)
    BY <1>1, <2>2 DEF ReadInv, AtReturn
  <2>4. \/ Reads(RawInput, tokens)
        \/ Last(tokens) = Amp /\ Reads(RawInput, Front(tokens))
        \/ Last(tokens) = Amp \o Amp
    BY <1>1, <2>2, <2>3, CommandText
  <2> QED BY <2>1, <2>2, <2>4 DEF JobMeansLine, Last
<1> QED BY <1>1, AllInvariants, PTL

-----------------------------------------------------------------------------
(* Every step brings the end of a line nearer                                *)

(* The steps that tokenize_line may still take, four for a character and     *)
(* some for the token it is in; and those of the parser after it.            *)
InTokenWork == CASE mode = "blank" -> 3
                 [] mode = "word"  -> IF buffer = <<>> THEN 2 ELSE 5
                 [] mode \in {"single", "double"} -> 5
                 [] mode = "store" -> 4
                 [] OTHER -> 0
TokenWork == 4 * (Len(line) + 1 - cursor) + InTokenWork
ParseWork == CASE stage = "wait"  -> Len(tokens) + 5
               [] stage = "check" -> Len(tokens) + 4
               [] stage \in {"split", "parse"} -> Len(tokens) + 3 - next
               [] stage \in {"parsed", "refused"} -> 1
               [] OTHER -> 0

WorkShrinks == \/ TokenWork' < TokenWork
               \/ TokenWork' = TokenWork /\ ParseWork' < ParseWork

LEMMA WorkIsCounted ==
  ASSUME TypeOK, InBounds, ParserInv, MeaningInv
  PROVE  TokenWork \in Nat /\ ParseWork \in Nat
<1>1. /\ Len(line) \in Nat /\ cursor \in Nat /\ cursor <= Len(line) + 1 /\ Len(tokens) \in Nat
      /\ next \in Nat
  BY DEF TypeOK, InBounds, ParserInv, FrontTypeOK
<1>2. InTokenWork \in Nat
  BY DEF InTokenWork
<1>3. stage \in {"split", "parse"} => next <= Len(tokens) + 1
  <2>1. stage = "split" => next \in 1 .. Len(tokens)
    BY DEF MeaningInv, AtSplit, Heads
  <2>2. stage = "parse" => next <= end /\ end <= Len(tokens) + 1 /\ end \in Nat
    BY DEF ParserInv, ParsingFits, FrontTypeOK, token_num
  <2> QED BY <1>1, <2>1, <2>2
<1>4. TokenWork \in Nat
  BY <1>1, <1>2 DEF TokenWork
<1>5. ParseWork \in Nat
  BY <1>1, <1>3 DEF ParseWork
<1> QED BY <1>4, <1>5

LEMMA TokenizerShrinks ==
  ASSUME TypeOK, InBounds, ReadInv, TokenizeLine
  PROVE  TokenWork' < TokenWork
<1>1. /\ line \in Seq(Chars) /\ buffer \in Seq(Chars) /\ Len(line) \in Nat /\ cursor \in Nat
  BY DEF TypeOK
<1>2. /\ cursor' \in Nat /\ line' = line
      /\ cursor' = cursor => InTokenWork' < InTokenWork
      /\ cursor' > cursor => InTokenWork' <= InTokenWork + 3
      /\ cursor' >= cursor
      /\ InTokenWork \in Nat /\ InTokenWork' \in Nat
  <2>1. CASE SkipBlank \/ Finish \/ OpenQuote \/ CloseQuote \/ Unmatched \/ Store \/ StoreFails
    BY <1>1, <2>1 DEF SkipBlank, Finish, OpenQuote, CloseQuote, Unmatched, Store, StoreFails,
       InTokenWork
  <2>2. CASE Operator
    <3>1. cursor' = cursor + 1 \/ cursor' = cursor + 2
      BY <2>2 DEF Operator
    <3> QED BY <1>1, <2>2, <3>1 DEF Operator, InTokenWork
  <2>3. CASE StartWord
    BY <1>1, <2>3 DEF StartWord, InTokenWork
  <2>4. CASE WordChar \/ QuotedChar
    <3>1. cursor' = cursor + 1 \/ cursor' = cursor + 2
      BY <2>4 DEF WordChar, QuotedChar, Copy
    <3>2. mode' = mode /\ line' = line /\ mode \in {"word", "single", "double"}
      BY <2>4 DEF WordChar, QuotedChar
    <3> QED BY <1>1, <3>1, <3>2 DEF InTokenWork
  <2>5. CASE EndWord
    <3>1. mode = "word" /\ mode' = "store" /\ UNCHANGED <<line, cursor, buffer, tokens>>
      BY <2>5 DEF EndWord
    <3>2. buffer # <<>>
      <4>1. ASSUME buffer = <<>> PROVE FALSE
        <5>1. PICK i \in 1 .. Len(line) : line[i] # Blank /\ WordSoFar(line, i, cursor, buffer)
          BY <3>1, TokenSoFar
        <5>2. cursor = i /\ line[i] \notin Specials
          BY <1>1, <4>1, <5>1 DEF WordSoFar
        <5>3. InWordNow
          BY <1>1, <5>1, <5>2 DEF InWordNow, InWord, AtEnd, Next1
        <5>4. HasRoom
          BY <4>1, LimitsAssumption DEF HasRoom, LimitsAssumption
        <5> QED BY <2>5, <5>3, <5>4 DEF EndWord
      <4> QED BY <4>1
    <3> QED BY <1>1, <3>1, <3>2 DEF InTokenWork
  <2> QED BY <2>1, <2>2, <2>3, <2>4, <2>5 DEF TokenizeLine
<1> QED BY <1>1, <1>2 DEF TokenWork

LEMMA ParserShrinks ==
  ASSUME ParserInv, MeaningInv, tokens' = tokens,
         HandOver \/ P!InitializeProcesses \/ IsBuiltinOfNull \/ Dispatch
  PROVE  ParseWork' < ParseWork
<1>1. /\ Len(tokens) \in Nat /\ next \in Nat
      /\ stage \in {"split", "parse"} => next <= Len(tokens) + 1
  <2>1. Len(tokens) \in Nat /\ next \in Nat
    BY DEF ParserInv, FrontTypeOK, TypeOK
  <2>2. stage = "split" => next \in 1 .. Len(tokens)
    BY DEF MeaningInv, AtSplit, Heads
  <2>3. stage = "parse" => next <= end /\ end <= Len(tokens) + 1 /\ end \in Nat
    BY DEF ParserInv, ParsingFits, FrontTypeOK, token_num
  <2> QED BY <2>1, <2>2, <2>3
<1>2. CASE HandOver
  BY <1>1, <1>2 DEF HandOver, ParseWork
<1>3. CASE IsBuiltinOfNull \/ Dispatch
  BY <1>3 DEF IsBuiltinOfNull, Dispatch, ParseWork
<1>4. CASE P!CheckBackground
  <2>1. stage = "check" /\ next' = next /\ next = 1 /\ stage' \in {"refused", "split"}
    BY <1>4 DEF P!CheckBackground, P!Refuse, MeaningInv, AtCheck
  <2> QED BY <1>1, <2>1 DEF ParseWork
<1>5. ASSUME stage \in {"split", "parse"}, stage' \in {"split", "parse"},
             next' = next + 1 \/ next' = next + 2
      PROVE  ParseWork' < ParseWork
  BY <1>1, <1>5 DEF ParseWork
<1>6. ASSUME stage \in {"split", "parse"}, stage' \in {"parsed", "refused"}
      PROVE  ParseWork' < ParseWork
  BY <1>1, <1>6 DEF ParseWork
<1>7. CASE P!SplitOnPipe
  BY <1>5, <1>6, <1>7 DEF P!SplitOnPipe, P!Refuse
<1>8. CASE P!Background \/ P!Redirection \/ P!Argument
  BY <1>5, <1>6, <1>8 DEF P!Background, P!Redirection, P!Argument, P!Parsing, P!Refuse
<1>9. CASE P!EndCommand
  <2>1. /\ stage = "parse" /\ next' = next + 1 /\ stage' \in {"split", "parsed"}
    BY <1>9 DEF P!EndCommand
  <2> QED BY <1>5, <1>6, <2>1
<1> QED BY <1>2, <1>3, <1>4, <1>7, <1>8, <1>9 DEF P!InitializeProcesses

(* Every step on a line leaves less to do, and what is left is a number: no  *)
(* line, however long or ill formed, keeps the tokenizer or the parser       *)
(* running, which is why LineEnds asks no more of the scheduler than that    *)
(* steps are taken (the loops of tokenizer.c:89-195 and parser.c:68-140).    *)
THEOREM LineShrinks == FrontSpec => [](TokenWork \in Nat /\ ParseWork \in Nat)
                                    /\ [][WorkShrinks]_frontVars
<1> DEFINE I == TypeOK /\ InBounds /\ ReadInv /\ ParserInv /\ MeaningInv
<1>1. I => TokenWork \in Nat /\ ParseWork \in Nat
  BY WorkIsCounted
<1>2. I /\ [FrontNext]_frontVars => [WorkShrinks]_frontVars
  <2> SUFFICES ASSUME I, FrontNext PROVE WorkShrinks
    OBVIOUS
  <2>1. CASE Tokenize
    BY <2>1, TokenizerShrinks DEF Tokenize, WorkShrinks
  <2>2. CASE HandOver \/ Parse \/ IsBuiltinOfNull \/ Dispatch
    <3>1. UNCHANGED vars
      BY <2>2 DEF HandOver, Parse, IsBuiltinOfNull, Dispatch
    <3>2. tokens' = tokens /\ TokenWork' = TokenWork
      BY <3>1 DEF vars, TokenWork, InTokenWork
    <3>3. ParseWork' < ParseWork
      BY <2>2, <3>2, ParserShrinks DEF Parse
    <3> QED BY <3>2, <3>3 DEF WorkShrinks
  <2> QED BY <2>1, <2>2 DEF FrontNext
<1>3. FrontSpec => []I
  BY ReadInvariant, MeaningInvariant, PTL
<1> QED BY <1>1, <1>2, <1>3, PTL DEF FrontSpec

-----------------------------------------------------------------------------
(* A command means one process                                               *)

LEMMA ExpandsOnce ==
  ASSUME NEW t, NEW r, NEW q, Expands(t, r), Expands(t, q)
  PROVE  r = q
<1>1. CASE t = <<>> \/ t[1] # Dollar
  BY <1>1 DEF Expands
<1>2. CASE t # <<>> /\ t[1] = Dollar /\ Identifiers(t) = {}
  BY <1>2 DEF Expands
<1>3. CASE t # <<>> /\ t[1] = Dollar /\ Identifiers(t) # {}
  <2>1. PICK n \in Identifiers(t) :
          /\ \A m \in Identifiers(t) : m <= n
          /\ r = P!GetEnv(SubSeq(t, 2, n)) \o SubSeq(t, n + 1, Len(t))
    BY <1>3 DEF Expands
  <2>2. PICK k \in Identifiers(t) :
          /\ \A m \in Identifiers(t) : m <= k
          /\ q = P!GetEnv(SubSeq(t, 2, k)) \o SubSeq(t, k + 1, Len(t))
    BY <1>3 DEF Expands
  <2>3. n \in Nat /\ k \in Nat
    BY DEF Identifiers
  <2>4. n = k
    BY <2>1, <2>2, <2>3
  <2> QED BY <2>1, <2>2, <2>4
<1> QED BY <1>1, <1>2, <1>3

LEMMA ArgumentOnce ==
  ASSUME NEW t, NEW r, NEW q, ArgumentIs(t, r), ArgumentIs(t, q)
  PROVE  r = q
<1>1. <<Dollar, Dollar>> # <<Dollar, Query>>
  BY OperatorsAssumption DEF OperatorsAssumption
<1>2. CASE t = <<Dollar, Dollar>> \/ t = <<Dollar, Query>>
  BY <1>1, <1>2 DEF ArgumentIs
<1>3. CASE ~(t = <<Dollar, Dollar>> \/ t = <<Dollar, Query>>)
  <2>1. Expands(t, r) /\ Expands(t, q)
    BY <1>3 DEF ArgumentIs
  <2> QED BY <2>1, ExpandsOnce
<1> QED BY <1>2, <1>3

LEMMA FileOnce ==
  ASSUME NEW ts, NEW F, F \subseteq Nat, NEW C, NEW f \in Seq(C), NEW g \in Seq(C),
         FileIs(ts, F, f), FileIs(ts, F, g)
  PROVE  f = g
<1>1. CASE F = {}
  BY <1>1 DEF FileIs
<1>2. CASE F # {}
  <2>1. PICK k \in F : (\A j \in F : j <= k) /\ Len(f) = 1 /\ Expands(ts[k], f[1])
    BY <1>2 DEF FileIs
  <2>2. PICK m \in F : (\A j \in F : j <= m) /\ Len(g) = 1 /\ Expands(ts[m], g[1])
    BY <1>2 DEF FileIs
  <2>3. k = m
    BY <2>1, <2>2
  <2>4. f[1] = g[1]
    BY <2>1, <2>2, <2>3, ExpandsOnce
  <2> QED BY <2>1, <2>2, <2>4
<1> QED BY <1>1, <1>2

(* Means leaves no choice either: the arguments, the files and the flags of  *)
(* a launched process are functions of the tokens of its command, so that    *)
(* CommandsAreTokens says all there is to say of them (parser.c:160).        *)
THEOREM OneCommand ==
  ASSUME NEW ts \in Seq(Seq(Chars)), NEW a \in 1 .. Len(ts), NEW p, NEW q,
         Means(ts, a, p), Means(ts, a, q), NEW C,
         p.argv \in Seq(C), p.infile \in Seq(C), p.outfile \in Seq(C),
         q.argv \in Seq(C), q.infile \in Seq(C), q.outfile \in Seq(C),
         p.append_output \in BOOLEAN, p.background \in BOOLEAN,
         q.append_output \in BOOLEAN, q.background \in BOOLEAN
  PROVE  /\ p.argv = q.argv /\ p.infile = q.infile /\ p.outfile = q.outfile
         /\ p.append_output = q.append_output /\ p.background = q.background
<1> DEFINE A == ArgsOf(ts, a)
<1>1. Len(ts) \in Nat /\ TokensOf(ts, a) \in SUBSET (1 .. Len(ts))
  <2>1. \A k \in a .. Len(ts) : k \in 1 .. Len(ts)
    OBVIOUS
  <2> QED BY <2>1 DEF TokensOf
<1>2. A \in SUBSET (1 .. Len(ts))
  BY <1>1 DEF ArgsOf
<1>3. p.argv = q.argv
  <2> HIDE DEF A
  <2>1. Len(p.argv) = Cardinality(A) /\ Len(q.argv) = Cardinality(A)
    BY DEF Means, A
  <2>2. ASSUME NEW m \in 1 .. Cardinality(A) PROVE p.argv[m] = q.argv[m]
    <3>1. PICK k \in A : Rank(A, k) = m
      BY <1>1, <1>2, RankOnto
    <3>2. /\ IF k = a THEN p.argv[m] = ts[k] ELSE ArgumentIs(ts[k], p.argv[m])
          /\ IF k = a THEN q.argv[m] = ts[k] ELSE ArgumentIs(ts[k], q.argv[m])
      BY <3>1 DEF Means, A
    <3>3. CASE k = a
      BY <3>2, <3>3
    <3>4. CASE k # a
      <4>1. ArgumentIs(ts[k], p.argv[m]) /\ ArgumentIs(ts[k], q.argv[m])
        BY <3>2, <3>4
      <4> QED BY <4>1, ArgumentOnce
    <3> QED BY <3>3, <3>4
  <2> DEFINE x == p.argv
             y == q.argv
  <2>3. x \in Seq(C) /\ y \in Seq(C) /\ Len(x) = Len(y) /\ \A m \in 1 .. Len(x) : x[m] = y[m]
    BY <2>1, <2>2
  <2> HIDE DEF x, y
  <2>4. x = y
    BY <2>3, SeqEqual
  <2> QED BY <2>4 DEF x, y
<1>4. ASSUME NEW ops PROVE FilesOf(ts, a, ops) \subseteq Nat
  <2>1. \A k \in 1 .. Len(ts) : k \in Nat
    OBVIOUS
  <2> QED BY <1>1, <2>1 DEF FilesOf
<1>5. p.infile = q.infile
  <2>1. FileIs(ts, FilesOf(ts, a, {In}), p.infile) /\ FileIs(ts, FilesOf(ts, a, {In}), q.infile)
    BY DEF Means
  <2> QED BY <1>4, <2>1, FileOnce
<1>6. p.outfile = q.outfile
  <2>1. /\ FileIs(ts, FilesOf(ts, a, {Out, AppendOut}), p.outfile)
        /\ FileIs(ts, FilesOf(ts, a, {Out, AppendOut}), q.outfile)
    BY DEF Means
  <2> QED BY <1>4, <2>1, FileOnce
<1>7. p.append_output = q.append_output /\ p.background = q.background
  BY DEF Means
<1> QED BY <1>3, <1>5, <1>6, <1>7
=============================================================================
