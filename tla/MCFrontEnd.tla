----------------------------- MODULE MCFrontEnd -----------------------------
(* Every short line over five alphabets: all characters, and longer ones of  *)
(* operators, of quotes, of what the expander looks at and of what makes the *)
(* most tokens and pieces.                                                   *)
EXTENDS LineMeaning

(* Bounds on the lengths of lines.                                           *)
CONSTANTS AnyLen, OperatorLen, QuoteLen, DollarLen, PieceLen, EscapeLen

UpTo(alphabet, n) == UNION {[1 .. k -> alphabet] : k \in 0 .. n}

MCDouble    == "\""
MCBackslash == "\\"
MCSpecials == {"|", "&", ">", "<"}
MCChars    == {"a", "n", "1", "$", "?", " ", "'", "\"", "\\"} \cup MCSpecials
MCLines    == UpTo(MCChars \ {"n", "1", "?"}, AnyLen) \cup UpTo({"a", "|", "&", ">", "<"}, OperatorLen)
              \cup UpTo({"a", " ", "'", "\"", "\\"}, QuoteLen)
              \cup UpTo({"a", "1", "$", "?", " "}, DollarLen)
              \cup UpTo({"a", "|", "'"}, PieceLen) \cup UpTo({"n", "\"", "\\"}, EscapeLen)

MCBuiltins  == {<<"a", "a">>}
MCTable     == [n \in {<<"a">>} |-> <<"v", " ", ">">>]
MCEnviron   == [n \in {<<"a">>, <<"a", "a">>} |-> <<"e">>]
MCPid       == <<"7">>
MCStatus    == <<"0">>
MCPipe      == <<"|">>
MCAmp       == <<"&">>
MCOut       == <<">">>
MCAppendOut == <<">", ">">>
MCIn        == <<"<">>
MCLetters   == {"a"}

(* README.md:43: escape sequences such as \n are supported inside double     *)
(* quotes.  The n of one is then not read as an n.                           *)
EscapesAreRead ==
  mode = "done" =>
    \A S \in SUBSET (1 .. Len(line)) : Starts(line, Len(line), S) =>
      \A i \in S : \A k \in Kept(line, i) :
        line[k] = "n" /\ Escaped(line, i, k)
          => tokens[Rank(S, i)][Rank(Kept(line, i), k)] # "n"
=============================================================================
