---------------------------- MODULE LineMeaning -----------------------------
(***************************************************************************)
(* What a line means, stated over the whole line instead of read character *)
(* by character: where its tokens are, which token sequences are commands  *)
(* and what those commands are.  The front end is checked against it.      *)
(*                                                                         *)
(* Nothing here is computed along the line: a set of positions is given by *)
(* the condition its members meet, and a sequence by its positions' order. *)
(***************************************************************************)
EXTENDS FrontEnd

(* The place of x among the members of S.                                    *)
Rank(S, x) == Cardinality({y \in S : y <= x})

-----------------------------------------------------------------------------
(* Lines *)

Quotes == {Single, Double}

(* In the quotes opened at i, position k is escaped by an odd number of      *)
(* backslashes directly before it.                                           *)
Escaped(s, i, k) ==
  /\ s[i] = Double
  /\ \E r \in 1 .. k - i - 1 : /\ r % 2 = 1 /\ s[k - r - 1] # Backslash
                               /\ \A j \in k - r .. k - 1 : s[j] = Backslash
Closes(s, i, k) == s[k] = s[i] /\ ~Escaped(s, i, k)

(* The token that starts at i reaches to k: quotes to the one that closes    *)
(* them, an operator to its double, a word to a blank or an operator but no  *)
(* further than fits, so that the rest of it is read as tokens of its own.   *)
Covers(s, i, k) ==
  \/ s[i] \in Quotes /\ \A j \in i + 1 .. k - 1 : ~Closes(s, i, j)
  \/ s[i] \in Specials /\ k <= i + 1 /\ s[k] = s[i]
  \/ s[i] \notin Quotes \cup Specials /\ k <= i + MaxLen - 2 /\ \A j \in i .. k : InWord(s[j])

(* S are the positions up to n where a token starts: at what is neither      *)
(* blank nor part of an earlier token.                                       *)
Starts(s, n, S) ==
  \A k \in 1 .. n : k \in S <=> s[k] # Blank /\ \A i \in S : i < k => ~Covers(s, i, k)

(* What a token keeps of its text: no quotes around it, no backslash that    *)
(* escapes.                                                                  *)
Kept(s, i) ==
  {k \in i .. Len(s) :
     /\ Covers(s, i, k)
     /\ s[i] \in Quotes => /\ k # i /\ ~Closes(s, i, k)
                           /\ s[i] = Double /\ s[k] = Backslash => Escaped(s, i, k)}

Spells(s, K, t) == Len(t) = Cardinality(K) /\ \A k \in K : t[Rank(K, k)] = s[k]

(* Quotes that do not close, or whose text does not fit.                     *)
Refusable(s, i) == /\ s[i] \in Quotes
                   /\ \/ \A k \in i + 1 .. Len(s) : ~Closes(s, i, k)
                      \/ Cardinality(Kept(s, i)) > MaxLen - 2

(* ts are the tokens of s that start at S, and all of s, in their order.     *)
Texts(s, S, ts) ==
  /\ Len(ts) = Cardinality(S)
  /\ \A i \in S : ~Refusable(s, i) /\ Spells(s, Kept(s, i), ts[Rank(S, i)])

Reads(s, ts) ==
  \E S \in SUBSET (1 .. Len(s)) : Starts(s, Len(s), S) /\ Texts(s, S, ts)

(* The tokens are the tokens of the line.                                    *)
(* Words longer than MAXLEN - 1 come out in pieces (tokenizer.c:97), and a   *)
(* quote at the head of such a piece opens a token of its own.  A backslash  *)
(* in double quotes makes the next character an ordinary one and no more: \n *)
(* is an n (tokenizer.c:146), which EscapesAreRead compares with README.md.  *)
TokensMeanLine == mode = "done" => Reads(line, tokens)

(* A line is refused for its quotes only if a token starts with quotes that  *)
(* do not close or hold more than MAXLEN - 2 characters (tokenizer.c:136,    *)
(* 158: matched quotes that fill the buffer are reported as unmatched).      *)
RefusedForQuotes ==
  mode = "unmatched" =>
    \E i \in 1 .. Len(line) : \E S \in SUBSET (1 .. i) :
      Starts(line, i, S) /\ i \in S /\ Refusable(line, i)

-----------------------------------------------------------------------------
(* Commands *)

Redirects == {Out, AppendOut, In}

(* A command starts at the first token and after each pipe, and its tokens   *)
(* go on to the next pipe; a pipe at the end of the line starts nothing.     *)
Heads(ts)       == {a \in 1 .. Len(ts) : a = 1 \/ ts[a - 1] = Pipe}
TokensOf(ts, a) == {k \in a .. Len(ts) : \A j \in a .. k : ts[j] # Pipe}

FilesOf(ts, a, ops) ==
  {k \in TokensOf(ts, a) : k - 1 \in TokensOf(ts, a) /\ ts[k - 1] \in ops}
ArgsOf(ts, a) == {k \in TokensOf(ts, a) : ts[k] \notin Redirects \cup {Amp}
                                          /\ k \notin FilesOf(ts, a, Redirects)}

WellFormedAt(ts, a) ==
  /\ a \in TokensOf(ts, a) /\ ts[a] \notin Redirects \cup {Amp}
  /\ \A k \in TokensOf(ts, a) : ts[k] \in Redirects =>
       k + 1 \in TokensOf(ts, a) /\ ts[k + 1] \notin Redirects \cup {Amp}

WellFormed(ts) == /\ \A k \in 1 .. Len(ts) - 1 : ts[k] # Amp
                  /\ \A a \in Heads(ts) : WellFormedAt(ts, a)

(* The reading of a line ends the shell for exactly the lines that are not   *)
(* well formed commands, each of which reaches is_bulitin as a NULL list     *)
(* (helper.c:17), and a line of MAXTOKENS tokens writes past the array       *)
(* (tokenizer.c:111).  What a well formed command does is not asked here:    *)
(* unset without a name ends the shell too (EnvTable).                       *)
OnlyBadLinesKill ==
  /\ stage = "crashed" => ~WellFormed(tokens)
  /\ stage = "parsed"  => WellFormed(tokens)
  /\ mode \in {"done", "overrun"} =>
       \E S \in SUBSET (1 .. Len(line)) :
         /\ Starts(line, Len(line), S) /\ Cardinality(S) <= MaxTokens
         /\ mode = "overrun" <=> Cardinality(S) = MaxTokens

(* r is what t expands to: the value of the longest name after the $, then   *)
(* the rest of t as it is, and nothing at all if no name follows.            *)
Identifiers(t) == {n \in 2 .. Len(t) : /\ t[1] = Dollar /\ t[2] \in Letters
                                        /\ \A k \in 3 .. n : t[k] \in Letters \cup Digits}
Expands(t, r) ==
  CASE t = <<>> \/ t[1] # Dollar -> r = t
    [] t # <<>> /\ t[1] = Dollar /\ Identifiers(t) = {} -> r = <<>>
    [] OTHER -> \E n \in Identifiers(t) :
                  /\ \A m \in Identifiers(t) : m <= n
                  /\ r = P!GetEnv(SubSeq(t, 2, n)) \o SubSeq(t, n + 1, Len(t))

ArgumentIs(t, r) == CASE t = <<Dollar, Dollar>> -> r = ShellPid
                      [] t = <<Dollar, Query>>  -> r = LastStatus
                      [] OTHER                  -> Expands(t, r)

(* The last of the files named at F wins.                                    *)
FileIs(ts, F, file) ==
  IF F = {} THEN file = <<>>
  ELSE \E k \in F : /\ \A j \in F : j <= k
                    /\ Len(file) = 1 /\ Expands(ts[k], file[1])

(* p is the process that the command at a describes.                         *)
Means(ts, a, p) ==
  /\ Len(p.argv) = Cardinality(ArgsOf(ts, a))
  /\ \A k \in ArgsOf(ts, a) :
       IF k = a THEN p.argv[Rank(ArgsOf(ts, a), k)] = ts[k]
       ELSE ArgumentIs(ts[k], p.argv[Rank(ArgsOf(ts, a), k)])
  /\ FileIs(ts, FilesOf(ts, a, {In}), p.infile)
  /\ FileIs(ts, FilesOf(ts, a, {Out, AppendOut}), p.outfile)
  /\ p.append_output <=> \E k \in TokensOf(ts, a) : ts[k] = AppendOut
  /\ p.background <=> \E k \in TokensOf(ts, a) : ts[k] = Amp

(* Each process of the list has the arguments and files that its stretch of  *)
(* the line names, the last of several winning, whatever order they are      *)
(* written in, expanded once and never split again.  An append anywhere in   *)
(* the stretch makes the last output file append (parser.c:105).             *)
CommandsMeanTokens ==
  stage \in {"parsed", "handled"} =>
    /\ Len(procs) = Cardinality(Heads(tokens))
    /\ \A a \in Heads(tokens) : Means(tokens, a, procs[Rank(Heads(tokens), a)])

(* A job gets every command of the line and runs in the background exactly   *)
(* when its last token is &, and its text reads as the tokens that were run  *)
(* (job_utils.c:95, 110), but for `&&', of which the text loses one.         *)
JobMeansLine ==
  ran.kind = "job" =>
    /\ Len(ran.first_process) = Cardinality(Heads(tokens))
    /\ ran.background = (Last(tokens) = Amp)
    /\ \/ Reads(ran.command, tokens)
       \/ Last(tokens) = Amp /\ Reads(ran.command, Front(tokens))
       \/ Last(tokens) = Amp \o Amp

(* Every line is dealt with: tokenizer and parser always come to an end.     *)
LineEnds == <>(mode \in {"unmatched", "failed", "overrun"} \/ stage \in {"handled", "crashed"}
               \/ (mode = "done" /\ tokens = <<>>))
=============================================================================
