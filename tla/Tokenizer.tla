----------------------------- MODULE Tokenizer ------------------------------
(***************************************************************************)
(* tokenize_line: a line of characters becomes the tokens array.  Blanks   *)
(* separate, operators stand for themselves, a word runs to the next blank *)
(* or operator, and a token that starts with a quote runs to the closing   *)
(* one.  One step reads one character, or stores one token.                *)
(***************************************************************************)
EXTENDS Naturals, SequencesExt

CONSTANTS
  Chars, Blank, Single, Double, Backslash,
  Specials,     \* the one-character operators: special_characters
  Lines,        \* what getline may deliver
  MaxLen,       \* MAXLEN: the size of token_buffer, with its '\0'
  MaxTokens     \* MAXTOKENS: the size of the tokens array

ASSUME CharsAssumption  == {Blank, Single, Double, Backslash} \cup Specials \subseteq Chars
ASSUME DistinctAssumption ==
  /\ Blank \notin {Single, Double, Backslash} /\ Single \notin {Double, Backslash}
  /\ Double # Backslash /\ Specials \cap {Blank, Single, Double, Backslash} = {}
ASSUME LinesAssumption  == Lines \subseteq Seq(Chars)
ASSUME LimitsAssumption == MaxLen \in Nat /\ MaxLen >= 3 /\ MaxTokens \in Nat \ {0}

VARIABLES
  line, cursor,  \* the line, and the next character to look at
  buffer,        \* token_buffer, up to where it is written
  tokens,        \* tokens[0 .. token_num - 1]
  mode           \* where tokenize_line is, or how it returned

vars == <<line, cursor, buffer, tokens, mode>>

Modes   == {"blank", "word", "single", "double", "store"}
Returns == {"done", "unmatched", "failed", "overrun"}

-----------------------------------------------------------------------------
AtEnd      == cursor = Len(line) + 1         \* *cursor == '\0'
Next1      == line[cursor]
InWord(c)  == c \notin Specials \cup {Blank}
InWordNow  == IF AtEnd THEN FALSE ELSE InWord(Next1)
RoomAtEnd  == Len(buffer) < MaxLen           \* mutant: no room kept for '\0'
HasRoom    == Len(buffer) + 1 < MaxLen       \* remaining_len > 1

CopyBackwards(n) ==                          \* mutant: --p for ++p
  buffer' = Append(buffer, line[cursor + n - 1]) /\ cursor' = cursor - n
Copy(n) == buffer' = Append(buffer, line[cursor + n - 1]) /\ cursor' = cursor + n

Init == /\ line \in Lines
        /\ cursor = 1 /\ buffer = <<>> /\ tokens = <<>> /\ mode = "blank"

StayOnBlank == /\ mode = "blank" /\ ~AtEnd /\ Next1 = Blank     \* mutant: no ++
               /\ UNCHANGED vars
SkipBlank == /\ mode = "blank" /\ ~AtEnd /\ Next1 = Blank
             /\ cursor' = cursor + 1
             /\ UNCHANGED <<line, buffer, tokens, mode>>

(* tokens[*token_num] = NULL is outside the array when the array is full.    *)
Finish == /\ mode = "blank" /\ AtEnd
          /\ mode' = IF Len(tokens) < MaxTokens THEN "done" ELSE "overrun"
          /\ UNCHANGED <<line, cursor, buffer, tokens>>

OpenQuote == /\ mode = "blank" /\ ~AtEnd /\ Next1 \in {Single, Double}
             /\ mode' = IF Next1 = Single THEN "single" ELSE "double"
             /\ cursor' = cursor + 1 /\ buffer' = <<>>
             /\ UNCHANGED <<line, tokens>>

AnyPair  == cursor < Len(line) /\ line[cursor + 1] \in Specials   \* mutant
IsDouble == cursor < Len(line) /\ line[cursor + 1] = Next1
Operator ==
  /\ mode = "blank" /\ ~AtEnd /\ Next1 \in Specials
  /\ LET n == IF IsDouble THEN 2 ELSE 1
     IN  /\ buffer' = SubSeq(line, cursor, cursor + n - 1)
         /\ cursor' = cursor + n
  /\ mode' = "store" /\ UNCHANGED <<line, tokens>>

StartWord == /\ mode = "blank" /\ ~AtEnd
             /\ Next1 \notin Specials \cup {Blank, Single, Double}
             /\ mode' = "word" /\ buffer' = <<>>
             /\ UNCHANGED <<line, cursor, tokens>>

(* Quotes inside a word are ordinary; a word that does not fit is cut.       *)
WordChar == /\ mode = "word" /\ HasRoom /\ InWordNow
            /\ Copy(1) /\ UNCHANGED <<line, tokens, mode>>

EndWord == /\ mode = "word" /\ ~(HasRoom /\ InWordNow)
           /\ mode' = "store" /\ UNCHANGED <<line, cursor, buffer, tokens>>

ClosingDouble == Double                      \* mutant: any quote closes with "
Closing == IF mode = "single" THEN Single ELSE Double
Escapes == mode = "double" /\ ~AtEnd /\ Next1 = Backslash

QuotedChar ==
  /\ mode \in {"single", "double"} /\ HasRoom /\ ~AtEnd /\ Next1 # Closing
  /\ Escapes => cursor < Len(line)
  /\ Copy(IF Escapes THEN 2 ELSE 1)
  /\ UNCHANGED <<line, tokens, mode>>

CloseQuote == /\ mode \in {"single", "double"} /\ HasRoom /\ ~AtEnd /\ Next1 = Closing
              /\ mode' = "store" /\ cursor' = cursor + 1
              /\ UNCHANGED <<line, buffer, tokens>>

(* The line ends first, or the text fills the buffer: NULL either way.       *)
Unmatched == /\ mode \in {"single", "double"}
             /\ HasRoom => AtEnd \/ (Escapes /\ cursor = Len(line))
             /\ mode' = "unmatched" /\ UNCHANGED <<line, cursor, buffer, tokens>>

Store == /\ mode = "store" /\ Len(tokens) < MaxTokens
         /\ tokens' = Append(tokens, buffer) /\ mode' = "blank"
         /\ UNCHANGED <<line, cursor, buffer>>

(* The array is full, or malloc fails.                                       *)
StoreFails == /\ mode = "store"
              /\ mode' = "failed" /\ UNCHANGED <<line, cursor, buffer, tokens>>

TokenizeLine == SkipBlank \/ Finish \/ OpenQuote \/ Operator \/ StartWord \/ WordChar
                \/ EndWord \/ QuotedChar \/ CloseQuote \/ Unmatched \/ Store \/ StoreFails

Spec == Init /\ [][TokenizeLine]_vars

-----------------------------------------------------------------------------
(* The variables range over what their C types and the states allow.         *)
TypeOK == /\ line \in Seq(Chars) /\ cursor \in Nat \ {0}
          /\ buffer \in Seq(Chars) /\ tokens \in Seq(Seq(Chars))
          /\ mode \in Modes \cup Returns

(* Nothing is read past the '\0' of the line, and no token, with its own     *)
(* '\0', is longer than token_buffer, whatever is typed (tokenizer.c:97,     *)
(* 128, 143: three loops that each count the room on their own).  The tokens *)
(* fit in their array, and their NULL does too unless they fill it exactly:  *)
(* then it is written one place further (tokenizer.c:111).                   *)
InBounds == /\ cursor <= Len(line) + 1
            /\ Len(buffer) < MaxLen
            /\ \A k \in DOMAIN tokens : Len(tokens[k]) < MaxLen
            /\ Len(tokens) <= MaxTokens
            /\ mode = "done" => Len(tokens) < MaxTokens
            /\ mode = "overrun" => Len(tokens) = MaxTokens
=============================================================================
