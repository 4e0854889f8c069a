--------------------------- MODULE FrontEndProofs ---------------------------
(* Theorems about Tokenizer and FrontEnd, for every set of lines and every   *)
(* size of token_buffer and of the tokens array.                             *)
EXTENDS FrontEnd, TLAPS

LEMMA Appended ==
  ASSUME NEW S, NEW s \in Seq(S), NEW x \in S
  PROVE  /\ Append(s, x) \in Seq(S) /\ Len(Append(s, x)) = Len(s) + 1
         /\ \A k \in 1 .. Len(s) : Append(s, x)[k] = s[k]
         /\ Append(s, x)[Len(s) + 1] = x
OBVIOUS

LEMMA One == ASSUME NEW S, NEW x \in S PROVE <<x>> \in Seq(S) /\ Len(<<x>>) = 1 /\ <<x>> # <<>>
OBVIOUS

LEMMA NextChar ==
  ASSUME TypeOK, InBounds, ~AtEnd
  PROVE  cursor \in 1 .. Len(line) /\ Next1 \in Chars
<1>1. line \in Seq(Chars) /\ cursor \in Nat \ {0} /\ cursor <= Len(line) + 1 /\ cursor # Len(line) + 1
  BY DEF TypeOK, InBounds, AtEnd
<1>2. cursor \in 1 .. Len(line)
  BY <1>1
<1> QED BY <1>1, <1>2 DEF Next1

(* The line and the tokens change as their C types allow, and no loop of     *)
(* tokenize_line leaves the line or the buffer.                              *)
LEMMA TokenizeLineKeeps ==
  ASSUME TypeOK, InBounds, [TokenizeLine]_vars
  PROVE  TypeOK' /\ InBounds'
<1> USE LimitsAssumption DEF LimitsAssumption, Modes, Returns
<1>0. /\ line \in Seq(Chars) /\ Len(line) \in Nat
      /\ buffer \in Seq(Chars) /\ Len(buffer) \in Nat
      /\ tokens \in Seq(Seq(Chars)) /\ Len(tokens) \in Nat
  BY DEF TypeOK
<1>1. CASE SkipBlank
  <2>1. cursor \in 1 .. Len(line)
    BY <1>1, NextChar DEF SkipBlank
  <2> QED BY <1>0, <1>1, <2>1 DEF SkipBlank, TypeOK, InBounds
<1>2. CASE Finish \/ EndWord \/ Unmatched \/ StoreFails
  BY <1>2 DEF Finish, EndWord, Unmatched, StoreFails, TypeOK, InBounds
<1>3. CASE OpenQuote \/ StartWord
  <2>1. cursor \in 1 .. Len(line)
    BY <1>3, NextChar DEF OpenQuote, StartWord
  <2>2. buffer' = <<>> /\ line' = line /\ tokens' = tokens /\ mode' \in Modes
    BY <1>3 DEF OpenQuote, StartWord
  <2>3. cursor' = cursor \/ cursor' = cursor + 1
    BY <1>3 DEF OpenQuote, StartWord
  <2>4. buffer' \in Seq(Chars) /\ Len(buffer') = 0
    BY <2>2
  <2> QED BY <1>0, <2>1, <2>2, <2>3, <2>4 DEF TypeOK, InBounds
<1>4. CASE Operator
  <2>1. cursor \in 1 .. Len(line)
    BY <1>4, NextChar DEF Operator
  <2>2. PICK n \in {1, 2} : /\ n = 2 => cursor < Len(line)
                            /\ buffer' = SubSeq(line, cursor, cursor + n - 1)
                            /\ cursor' = cursor + n
    <3>1. CASE IsDouble
      BY <1>4, <3>1 DEF Operator, IsDouble
    <3>2. CASE ~IsDouble
      <4>1. buffer' = SubSeq(line, cursor, cursor + 1 - 1) /\ cursor' = cursor + 1
        BY <1>4, <3>2 DEF Operator
      <4> QED BY <4>1
    <3> QED BY <3>1, <3>2
  <2>3. cursor + n - 1 \in cursor .. Len(line)
    BY <1>0, <2>1, <2>2
  <2>4. buffer' \in Seq(Chars) /\ Len(buffer') = n
    BY <1>0, <2>1, <2>2, <2>3
  <2>5. line' = line /\ tokens' = tokens /\ mode' = "store"
    BY <1>4 DEF Operator
  <2> QED BY <1>0, <2>1, <2>2, <2>4, <2>5 DEF TypeOK, InBounds
<1>5. ASSUME NEW n \in {1, 2}, Copy(n), HasRoom, cursor + n - 1 \in 1 .. Len(line),
             line' = line, tokens' = tokens, mode' = mode
      PROVE  TypeOK' /\ InBounds'
  <2>1. line[cursor + n - 1] \in Chars
    BY <1>0, <1>5
  <2>2. buffer' \in Seq(Chars) /\ Len(buffer') = Len(buffer) + 1
    BY <1>0, <1>5, <2>1, Appended DEF Copy
  <2>3. cursor' = cursor + n /\ Len(buffer) + 1 < MaxLen
    BY <1>5 DEF Copy, HasRoom
  <2>4. cursor' \in Nat \ {0} /\ cursor' <= Len(line) + 1
    BY <1>0, <1>5, <2>3 DEF TypeOK
  <2> QED BY <1>0, <1>5, <2>2, <2>3, <2>4 DEF TypeOK, InBounds
<1>6. CASE WordChar
  <2>1. cursor \in 1 .. Len(line)
    BY <1>6, NextChar DEF WordChar, InWordNow
  <2>2. cursor + 1 - 1 \in 1 .. Len(line)
    BY <2>1
  <2> QED BY <1>5, <1>6, <2>2 DEF WordChar
<1>7. CASE QuotedChar
  <2>1. cursor \in 1 .. Len(line)
    BY <1>7, NextChar DEF QuotedChar
  <2>2. CASE Escapes
    <3>1. cursor + 2 - 1 \in 1 .. Len(line)
      BY <1>0, <1>7, <2>1, <2>2 DEF QuotedChar
    <3> QED BY <1>5, <1>7, <2>2, <3>1 DEF QuotedChar
  <2>3. CASE ~Escapes
    <3>1. cursor + 1 - 1 \in 1 .. Len(line)
      BY <2>1
    <3> QED BY <1>5, <1>7, <2>3, <3>1 DEF QuotedChar
  <2> QED BY <2>2, <2>3
<1>8. CASE CloseQuote
  <2>1. cursor \in 1 .. Len(line)
    BY <1>8, NextChar DEF CloseQuote
  <2> QED BY <1>0, <1>8, <2>1 DEF CloseQuote, TypeOK, InBounds
<1>9. CASE Store
  <2>1. /\ tokens' = Append(tokens, buffer) /\ Len(tokens) < MaxTokens /\ mode' = "blank"
        /\ line' = line /\ cursor' = cursor /\ buffer' = buffer
    BY <1>9 DEF Store
  <2>2. /\ tokens' \in Seq(Seq(Chars)) /\ Len(tokens') = Len(tokens) + 1
        /\ \A k \in 1 .. Len(tokens) : tokens'[k] = tokens[k]
        /\ tokens'[Len(tokens) + 1] = buffer
    BY <1>0, <2>1, Appended
  <2>3. \A k \in DOMAIN tokens' : Len(tokens'[k]) < MaxLen
    <3>1. DOMAIN tokens' = 1 .. Len(tokens) + 1 /\ DOMAIN tokens = 1 .. Len(tokens)
      BY <1>0, <2>2
    <3>2. \A k \in 1 .. Len(tokens) : Len(tokens'[k]) < MaxLen
      BY <2>2, <3>1 DEF InBounds
    <3>3. Len(tokens'[Len(tokens) + 1]) < MaxLen
      BY <2>2 DEF InBounds
    <3> QED BY <1>0, <3>1, <3>2, <3>3
  <2> QED BY <1>0, <2>1, <2>2, <2>3 DEF TypeOK, InBounds
<1>10. CASE UNCHANGED vars
  BY <1>10 DEF vars, TypeOK, InBounds
<1> QED BY <1>1, <1>2, <1>3, <1>4, <1>6, <1>7, <1>8, <1>9, <1>10 DEF TokenizeLine

LEMMA TokenizerInit == Init => TypeOK /\ InBounds
<1> SUFFICES ASSUME Init PROVE TypeOK /\ InBounds
  OBVIOUS
<1>1. line \in Seq(Chars) /\ cursor = 1 /\ mode = "blank" /\ buffer = <<>> /\ tokens = <<>>
  BY LinesAssumption DEF Init, LinesAssumption
<1>2. Len(buffer) = 0 /\ Len(tokens) = 0 /\ Len(line) \in Nat /\ DOMAIN tokens = {}
  BY <1>1
<1>3. buffer \in Seq(Chars) /\ tokens \in Seq(Seq(Chars))
  BY <1>1
<1> QED BY <1>1, <1>2, <1>3, LimitsAssumption DEF TypeOK, InBounds, Modes, LimitsAssumption

(* The tokenizer inside the front end is the tokenizer: nothing else touches *)
(* the line or its tokens.                                                   *)
THEOREM Composition == FrontSpec => Spec
<1>1. FrontInit => Init
  BY DEF FrontInit
<1>2. [FrontNext]_frontVars => [TokenizeLine]_vars
  BY DEF FrontNext, Tokenize, HandOver, Parse, IsBuiltinOfNull, Dispatch, frontVars
<1> QED BY <1>1, <1>2, PTL DEF FrontSpec, Spec

(* For any line and any sizes, tokenize_line reads no further than the '\0'  *)
(* of the line, token_buffer holds every token with its '\0', and the tokens *)
(* array every token (tokenizer.c:97, 128, 143).  It holds the NULL too,     *)
(* except that after exactly MAXTOKENS tokens line 111 writes the NULL one   *)
(* place past the array: this and nothing else leaves it.                    *)
THEOREM TokenizerStaysInBounds == FrontSpec => []InBounds
<1>1. TypeOK /\ InBounds /\ [TokenizeLine]_vars => TypeOK' /\ InBounds'
  BY TokenizeLineKeeps
<1>2. Spec => [](TypeOK /\ InBounds)
  BY <1>1, TokenizerInit, PTL DEF Spec
<1> QED BY <1>2, Composition, PTL

-----------------------------------------------------------------------------
(* What the parser keeps of a command: the tokens still to come fit in argv  *)
(* behind the arguments it has, and its first argument is no operator.       *)
Named(c) == c.argv # <<>> /\ c.argv[1] \notin P!Special \cup {Pipe}
ParsingFits ==
  stage = "parse" => /\ next <= end /\ end <= token_num + 1
                     /\ Len(cmd.argv) + (end - next) <= cmd.size
                     /\ Named(cmd)
ListNamed == /\ Len(procs) \in Nat
             /\ procs \in Seq({procs[k] : k \in 1 .. Len(procs)})
             /\ \A k \in 1 .. Len(procs) : Named(procs[k])
             /\ stage \in {"parsed", "handled"} => procs # <<>>
AfterTokenizer == stage # "wait" => mode = "done"
ParserInv == /\ FrontTypeOK /\ AfterTokenizer /\ ParsingFits /\ Len(cmd.argv) <= cmd.size
             /\ ListNamed

Commands == [argv : Seq(Seq(Chars)), size : Nat, infile : Seq(Seq(Chars)),
             outfile : Seq(Seq(Chars)), append_output : BOOLEAN, background : BOOLEAN]

LEMMA Filled ==
  ASSUME NEW c \in Commands, NEW f \in Seq(Seq(Chars)), NEW b \in BOOLEAN
  PROVE  /\ [c EXCEPT !.infile = f] \in Commands
         /\ [c EXCEPT !.outfile = f, !.append_output = b \/ @] \in Commands
         /\ [c EXCEPT !.argv = f] \in Commands
         /\ \A n \in Nat : [c EXCEPT !.argv = f, !.size = n] \in Commands
<1>1. [c EXCEPT !.infile = f] \in Commands /\ [c EXCEPT !.argv = f] \in Commands
  BY DEF Commands
<1>2. (b \/ c.append_output) \in BOOLEAN
  OBVIOUS
<1>3. [c EXCEPT !.outfile = f, !.append_output = b \/ @] \in Commands
  BY <1>2, Zenon DEF Commands
<1>4. \A n \in Nat : [c EXCEPT !.argv = f, !.size = n] \in Commands
  BY DEF Commands
<1> QED BY <1>1, <1>3, <1>4

(* Expansion leaves the name of the command alone (expander.c:60).           *)
LEMMA ExpansionKeepsName ==
  ASSUME NEW c \in Commands, Named(c)
  PROVE  Named(P!ExpandCommand(c))
<1>1. P!ExpandCommand(c).argv =
        [k \in DOMAIN c.argv |-> IF k = 1 THEN c.argv[1] ELSE P!ExpandArgument(c.argv[k])]
  BY DEF P!ExpandCommand, Commands
<1>2. c.argv \in Seq(Seq(Chars)) /\ 1 \in DOMAIN c.argv
  BY DEF Named, Commands
<1>3. P!ExpandCommand(c).argv[1] = c.argv[1] /\ 1 \in DOMAIN P!ExpandCommand(c).argv
  BY <1>1, <1>2
<1> QED BY <1>3 DEF Named

(* A sequence grows by a process that has a name.                            *)
LEMMA ListGrows ==
  ASSUME ListNamed, NEW x, Named(x), procs' = Append(procs, x)
  PROVE  ListNamed' /\ procs' # <<>>
<1> DEFINE S == {procs[k] : k \in 1 .. Len(procs)} \cup {x}
<1>1. procs \in Seq(S) /\ x \in S
  BY DEF ListNamed
<1>2. /\ procs' \in Seq(S) /\ Len(procs') = Len(procs) + 1 /\ Len(procs) \in Nat
      /\ \A k \in 1 .. Len(procs) : procs'[k] = procs[k]
      /\ procs'[Len(procs) + 1] = x
  <2> HIDE DEF S
  <2> QED BY <1>1, Appended
<1>3. \A k \in 1 .. Len(procs') : Named(procs'[k])
  BY <1>2 DEF ListNamed
<1>4. procs' \in Seq({procs'[k] : k \in 1 .. Len(procs')})
  BY <1>2
<1>5. procs' # <<>> /\ Len(procs') \in Nat
  BY <1>2
<1> QED BY <1>3, <1>4, <1>5 DEF ListNamed

LEMMA ParserInitKeeps == FrontInit => ParserInv
<1> SUFFICES ASSUME FrontInit PROVE ParserInv
  OBVIOUS
<1>1. TypeOK
  BY TokenizerInit DEF FrontInit
<1>2. /\ next = 1 /\ end = 1 /\ cmd = P!NoCommand /\ procs = <<>> /\ stage = "wait"
  BY DEF FrontInit, P!ParserInit
<1>3. cmd \in Commands
  BY <1>2 DEF P!NoCommand, Commands
<1>4. Len(cmd.argv) <= cmd.size
  BY <1>2 DEF P!NoCommand
<1>5. ListNamed
  BY <1>2 DEF ListNamed
<1>6. FrontTypeOK
  BY <1>1, <1>2, <1>3 DEF FrontTypeOK, Commands
<1> QED BY <1>2, <1>4, <1>5, <1>6 DEF ParserInv, AfterTokenizer, ParsingFits

(* One token of a command is parsed: the rest still fits.                    *)
LEMMA TokenParsed ==
  ASSUME ParserInv, TypeOK', stage = "parse", next < end,
         line' = line, tokens' = tokens, mode' = mode, end' = end, procs' = procs, stage' = stage,
         NEW n \in {1, 2}, next' = next + n, next + n <= end,
         cmd' \in Commands, cmd'.size = cmd.size,
         \/ cmd'.argv = cmd.argv
         \/ n = 1 /\ \E t \in Seq(Chars) : cmd'.argv = Append(cmd.argv, t)
  PROVE  ParserInv'
<1>1. /\ next \in Nat \ {0} /\ end \in Nat /\ cmd \in Commands /\ mode = "done"
      /\ cmd.argv \in Seq(Seq(Chars)) /\ Len(cmd.argv) \in Nat /\ cmd.size \in Nat
  BY DEF ParserInv, FrontTypeOK, Commands, AfterTokenizer
<1>2. /\ end <= token_num + 1 /\ Len(cmd.argv) + (end - next) <= cmd.size /\ Named(cmd)
      /\ Len(cmd.argv) <= cmd.size
  BY DEF ParserInv, ParsingFits
<1>3. /\ Len(cmd'.argv) <= Len(cmd.argv) + n /\ Len(cmd'.argv) \in Nat /\ Named(cmd')
      /\ Len(cmd'.argv) + (end - (next + n)) <= cmd.size
  <2>1. CASE cmd'.argv = cmd.argv
    BY <2>1, <1>1, <1>2 DEF Named
  <2>2. CASE n = 1 /\ \E t \in Seq(Chars) : cmd'.argv = Append(cmd.argv, t)
    <3>1. PICK t \in Seq(Chars) : cmd'.argv = Append(cmd.argv, t)
      BY <2>2
    <3>2. /\ Len(cmd'.argv) = Len(cmd.argv) + 1 /\ cmd'.argv \in Seq(Seq(Chars))
          /\ \A k \in 1 .. Len(cmd.argv) : cmd'.argv[k] = cmd.argv[k]
      BY <1>1, <3>1, Appended
    <3>3. cmd'.argv # <<>> /\ cmd'.argv[1] = cmd.argv[1]
      <4>1. Len(cmd.argv) >= 1
        BY <1>1, <1>2 DEF Named
      <4> QED BY <1>1, <3>2, <4>1
    <3> QED BY <1>1, <1>2, <2>2, <3>2, <3>3 DEF Named
  <2> QED BY <2>1, <2>2
<1>4. Len(cmd'.argv) <= cmd'.size
  BY <1>1, <1>3
<1>5. ParsingFits'
  BY <1>1, <1>2, <1>3 DEF ParsingFits, token_num
<1>6. FrontTypeOK'
  BY <1>1 DEF FrontTypeOK, Commands, ParserInv
<1>7. ListNamed'
  BY DEF ListNamed, ParserInv
<1> QED BY <1>1, <1>4, <1>5, <1>6, <1>7 DEF ParserInv, AfterTokenizer

(* Between the commands only the stage moves.                                *)
LEMMA StageMoves ==
  ASSUME ParserInv, TypeOK', next' = next, end' = end, cmd' = cmd, procs' = procs,
         \/ stage' \in {"wait", "check", "split", "refused", "crashed"}
         \/ stage' = "handled" /\ stage = "parsed",
         stage' # "wait" => mode' = "done"
  PROVE  ParserInv'
<1>1. FrontTypeOK' /\ AfterTokenizer' /\ ParsingFits' /\ Len(cmd'.argv) <= cmd'.size
  BY DEF ParserInv, FrontTypeOK, AfterTokenizer, ParsingFits
<1>2. ListNamed'
  BY DEF ParserInv, ListNamed
<1> QED BY <1>1, <1>2 DEF ParserInv

LEMMA ParserKeeps ==
  ASSUME ParserInv, TypeOK', [FrontNext]_frontVars
  PROVE  ParserInv'
<1>0. /\ next \in Nat \ {0} /\ end \in Nat /\ cmd \in Commands /\ tokens \in Seq(Seq(Chars))
      /\ token_num \in Nat
  BY DEF ParserInv, FrontTypeOK, TypeOK, Commands, token_num
<1>2. ASSUME P!Refuse, mode' = mode, stage # "wait" PROVE ParserInv'
  <2>1. next' = next /\ end' = end /\ cmd' = cmd /\ procs' = procs /\ stage' = "refused"
    BY <1>2 DEF P!Refuse
  <2>2. mode' = "done"
    BY <1>2 DEF ParserInv, AfterTokenizer
  <2> QED BY <2>1, <2>2, StageMoves
<1>3. CASE Tokenize
  <2>1. mode # "done"
    BY <1>3 DEF Tokenize, TokenizeLine, SkipBlank, Finish, OpenQuote, Operator, StartWord,
       WordChar, EndWord, QuotedChar, CloseQuote, Unmatched, Store, StoreFails
  <2>2. next' = next /\ end' = end /\ cmd' = cmd /\ procs' = procs /\ stage' = stage
    BY <1>3 DEF Tokenize
  <2>3. stage = "wait"
    BY <2>1 DEF ParserInv, AfterTokenizer
  <2> QED BY <2>2, <2>3, StageMoves
<1>4. CASE HandOver
  <2>1. /\ next' = next /\ end' = end /\ cmd' = cmd /\ procs' = procs /\ stage' = "check"
        /\ mode' = "done"
    BY <1>4 DEF HandOver, vars
  <2> QED BY <2>1, StageMoves
<1>5. CASE Parse
  <2>0. /\ line' = line /\ cursor' = cursor /\ buffer' = buffer /\ tokens' = tokens
        /\ mode' = mode /\ ran' = ran
    BY <1>5 DEF Parse, vars
  <2>1. CASE P!CheckBackground
    <3>1. CASE P!Refuse
      BY <1>2, <2>0, <2>1, <3>1 DEF P!CheckBackground
    <3>2. CASE ~P!Refuse
      <4>1. stage = "check" /\ stage' = "split" /\ UNCHANGED <<next, end, cmd, procs>>
        BY <2>1, <3>2 DEF P!CheckBackground
      <4>2. mode' = "done"
        BY <2>0, <4>1 DEF ParserInv, AfterTokenizer
      <4> QED BY <4>1, <4>2, StageMoves
    <3> QED BY <3>1, <3>2
  <2>2. CASE P!SplitOnPipe
    <3>1. CASE P!Refuse
      BY <1>2, <2>0, <2>2, <3>1 DEF P!SplitOnPipe
    <3>2. CASE ~P!Refuse
      <4>1. PICK e \in next .. token_num + 1 :
              /\ P!Stretch(next, e) /\ P!ValidStart(next, e)
              /\ end' = e /\ next' = next + 1 /\ stage' = "parse" /\ procs' = procs
              /\ cmd' = [P!NoCommand EXCEPT !.argv = <<tokens[next]>>, !.size = e - next]
        BY <2>2, <3>2 DEF P!SplitOnPipe
      <4>2. /\ next < e /\ e \in Nat /\ e <= token_num + 1 /\ tokens[next] \in Seq(Chars)
            /\ tokens[next] \notin P!Special \cup {Pipe}
        <5>1. next < e /\ next \in 1 .. token_num /\ next \in next .. e - 1
          BY <1>0, <4>1 DEF P!ValidStart
        <5>2. tokens[next] \notin P!Special /\ tokens[next] # Pipe
          BY <4>1, <5>1 DEF P!Stretch, P!ValidStart
        <5> QED BY <1>0, <4>1, <5>1, <5>2 DEF token_num
      <4>3. /\ cmd'.argv = <<tokens[next]>> /\ cmd'.size = e - next /\ cmd' \in Commands
        <5>1. P!NoCommand \in Commands
          BY DEF P!NoCommand, Commands
        <5>2. <<tokens[next]>> \in Seq(Seq(Chars)) /\ e - next \in Nat
          BY <1>0, <4>2, One
        <5>3. cmd' \in Commands
          BY <4>1, <5>1, <5>2, Filled
        <5>4. cmd'.argv = <<tokens[next]>> /\ cmd'.size = e - next
          BY <4>1 DEF P!NoCommand
        <5> QED BY <5>3, <5>4
      <4>4. Len(cmd'.argv) = 1 /\ Named(cmd')
        BY <4>2, <4>3 DEF Named
      <4>5. ParsingFits' /\ Len(cmd'.argv) <= cmd'.size
        BY <1>0, <2>0, <4>1, <4>2, <4>3, <4>4 DEF ParsingFits, token_num
      <4>6. FrontTypeOK'
        BY <1>0, <4>1, <4>2, <4>3 DEF FrontTypeOK, Commands
      <4>7. ListNamed'
        BY <4>1 DEF ListNamed, ParserInv
      <4>8. AfterTokenizer'
        BY <2>0, <2>2 DEF ParserInv, AfterTokenizer, P!SplitOnPipe
      <4> QED BY <4>5, <4>6, <4>7, <4>8 DEF ParserInv
    <3> QED BY <3>1, <3>2
  <2>3. CASE P!Background
    <3>1. CASE P!Refuse
      BY <1>2, <2>0, <2>3, <3>1 DEF P!Background, P!Parsing
    <3>2. CASE ~P!Refuse
      <4>1. /\ stage = "parse" /\ next < end /\ next + 1 = end /\ next' = next + 1
            /\ cmd' = [cmd EXCEPT !.background = TRUE]
            /\ end' = end /\ procs' = procs /\ stage' = stage
        BY <2>3, <3>2 DEF P!Background, P!Parsing
      <4>2. cmd' \in Commands /\ cmd'.size = cmd.size /\ cmd'.argv = cmd.argv
        BY <1>0, <4>1 DEF Commands
      <4> QED BY <1>0, <2>0, <4>1, <4>2, TokenParsed
    <3> QED BY <3>1, <3>2
  <2>4. CASE P!Redirection
    <3>1. CASE P!Refuse
      BY <1>2, <2>0, <2>4, <3>1 DEF P!Redirection, P!Parsing
    <3>2. CASE ~P!Refuse
      <4>1. /\ stage = "parse" /\ next < end /\ next + 1 < end /\ next' = next + 2
            /\ end' = end /\ procs' = procs /\ stage' = stage
            /\ \/ cmd' = [cmd EXCEPT !.infile = <<tokens[next + 1]>>]
               \/ cmd' = P!Output(tokens[next] = AppendOut)
        BY <2>4, <3>2 DEF P!Redirection, P!Parsing, P!NameFollows
      <4>2. tokens[next + 1] \in Seq(Chars)
        BY <1>0, <4>1 DEF ParserInv, ParsingFits, token_num
      <4>3. cmd' \in Commands /\ cmd'.size = cmd.size /\ cmd'.argv = cmd.argv
        <5>0. <<tokens[next + 1]>> \in Seq(Seq(Chars)) /\ (tokens[next] = AppendOut) \in BOOLEAN
          BY <4>2, One
        <5>1. CASE cmd' = [cmd EXCEPT !.infile = <<tokens[next + 1]>>]
          <6>1. cmd' \in Commands
            BY <1>0, <5>0, <5>1, Filled
          <6>2. cmd'.size = cmd.size /\ cmd'.argv = cmd.argv
            BY <1>0, <5>1 DEF Commands
          <6> QED BY <6>1, <6>2
        <5>2. CASE cmd' = P!Output(tokens[next] = AppendOut)
          <6>1. cmd' \in Commands
            BY <1>0, <5>0, <5>2, Filled DEF P!Output
          <6>2. cmd'.size = cmd.size /\ cmd'.argv = cmd.argv
            BY <1>0, <5>2 DEF Commands, P!Output
          <6> QED BY <6>1, <6>2
        <5> QED BY <4>1, <5>1, <5>2
      <4>4. next + 2 <= end
        BY <1>0, <4>1
      <4> QED BY <1>0, <2>0, <4>1, <4>3, <4>4, TokenParsed
    <3> QED BY <3>1, <3>2
  <2>5. CASE P!Argument
    <3>1. /\ stage = "parse" /\ next < end /\ next' = next + 1
          /\ cmd' = [cmd EXCEPT !.argv = Append(@, tokens[next])]
          /\ end' = end /\ procs' = procs /\ stage' = stage
      BY <2>5 DEF P!Argument, P!Parsing
    <3>2. tokens[next] \in Seq(Chars) /\ cmd.argv \in Seq(Seq(Chars))
      BY <1>0, <3>1 DEF ParserInv, ParsingFits, token_num, Commands
    <3>3. Append(cmd.argv, tokens[next]) \in Seq(Seq(Chars))
      BY <3>2, Appended
    <3>4. /\ cmd' \in Commands /\ cmd'.size = cmd.size
          /\ cmd'.argv = Append(cmd.argv, tokens[next]) /\ next + 1 <= end
      <4>1. cmd' = [cmd EXCEPT !.argv = Append(cmd.argv, tokens[next])]
        BY <3>1
      <4>2. cmd' \in Commands
        BY <1>0, <3>3, <4>1, Filled
      <4>3. cmd'.size = cmd.size /\ cmd'.argv = Append(cmd.argv, tokens[next])
        BY <1>0, <4>1 DEF Commands
      <4> QED BY <1>0, <3>1, <4>2, <4>3
    <3> QED BY <2>0, <3>1, <3>2, <3>4, TokenParsed
  <2>6. CASE P!EndCommand
    <3>1. /\ stage = "parse" /\ next = end /\ next' = end + 1 /\ end' = end /\ cmd' = cmd
          /\ procs' = Append(procs, P!ExpandCommand(cmd)) /\ stage' \in {"split", "parsed"}
      BY <2>6 DEF P!EndCommand
    <3>2. Named(P!ExpandCommand(cmd))
      BY <1>0, <3>1, ExpansionKeepsName DEF ParserInv, ParsingFits
    <3>3. ListNamed'
      BY <3>1, <3>2, ListGrows DEF ParserInv
    <3>4. /\ FrontTypeOK' /\ AfterTokenizer' /\ ParsingFits' /\ Len(cmd'.argv) <= cmd'.size
      BY <1>0, <2>0, <3>1 DEF ParserInv, FrontTypeOK, AfterTokenizer, ParsingFits
    <3> QED BY <3>3, <3>4 DEF ParserInv
  <2> QED BY <1>5, <2>1, <2>2, <2>3, <2>4, <2>5, <2>6 DEF Parse, P!InitializeProcesses
<1>6. CASE IsBuiltinOfNull
  <2>1. /\ next' = next /\ end' = end /\ cmd' = cmd /\ procs' = procs /\ stage' = "crashed"
        /\ stage = "refused" /\ mode' = mode
    BY <1>6 DEF IsBuiltinOfNull, vars
  <2>2. mode' = "done"
    BY <2>1 DEF ParserInv, AfterTokenizer
  <2> QED BY <2>1, <2>2, StageMoves
<1>7. CASE Dispatch
  <2>1. /\ next' = next /\ end' = end /\ cmd' = cmd /\ procs' = procs /\ stage' = "handled"
        /\ stage = "parsed" /\ mode' = mode
    BY <1>7 DEF Dispatch, vars
  <2>2. mode' = "done"
    BY <2>1 DEF ParserInv, AfterTokenizer
  <2> QED BY <2>1, <2>2, StageMoves
<1>8. CASE UNCHANGED frontVars
  BY <1>8 DEF frontVars, ParserInv, FrontTypeOK, AfterTokenizer, ParsingFits, ListNamed, token_num, vars
<1> QED BY <1>3, <1>4, <1>5, <1>6, <1>7, <1>8 DEF FrontNext

LEMMA ParserInvariant == FrontSpec => []ParserInv
<1>1. TypeOK /\ InBounds /\ [TokenizeLine]_vars => TypeOK' /\ InBounds'
  BY TokenizeLineKeeps
<1>2. Spec => [](TypeOK /\ InBounds)
  BY <1>1, TokenizerInit, PTL DEF Spec
<1>3. ParserInv /\ TypeOK' /\ [FrontNext]_frontVars => ParserInv'
  BY ParserKeeps
<1> QED BY <1>2, <1>3, ParserInitKeeps, Composition, PTL DEF FrontSpec

(* Type correctness of the tokenizer and the parser together.                *)
THEOREM FrontTyping == FrontSpec => []FrontTypeOK
<1>1. ParserInv => FrontTypeOK
  BY DEF ParserInv
<1> QED BY <1>1, ParserInvariant, PTL

(* parse reads no token past the last one and writes no argument past the    *)
(* array allocate_memory gave it, though it tests neither (parser.c:131).    *)
THEOREM ParserStaysInBounds == FrontSpec => []ParseInBounds
<1>1. ParserInv => ParseInBounds
  BY DEF ParserInv, ParsingFits, ParseInBounds
<1> QED BY <1>1, ParserInvariant, PTL

(* Every command that reaches is_bulitin or a launch has a name, which is no *)
(* operator, after expansion too (helper.c:17, expander.c:60).               *)
THEOREM CommandsAreNamed == FrontSpec => []CommandsHaveNames
<1>1. ParserInv => CommandsHaveNames
  BY DEF ParserInv, ListNamed, Named, CommandsHaveNames
<1> QED BY <1>1, ParserInvariant, PTL
=============================================================================
