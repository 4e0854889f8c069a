------------------------------ MODULE FrontEnd ------------------------------
(***************************************************************************)
(* What the shell makes of one line: the tokenizer's tokens go to the      *)
(* parser, and its process list to a builtin or to a new job.  The         *)
(* variables are reset before the next line, so each line stands alone.    *)
(***************************************************************************)
EXTENDS Tokenizer

CONSTANTS
  Builtins,   \* builtin_commands, as tokens
  Dollar, Query, Letters, Digits, Table, Environ, ShellPid, LastStatus,
  Pipe, Amp, Out, AppendOut, In

ASSUME OperatorsAssumption ==
  /\ \E c \in Specials : Amp = <<c>>
  /\ Pipe \notin {Amp, Out, AppendOut, In} /\ Amp \notin {Out, AppendOut, In}
  /\ Out \notin {AppendOut, In} /\ AppendOut # In /\ Dollar # Query

VARIABLES next, end, cmd, procs, stage,
          ran     \* what was started: a builtin, or a job with its own fields

Nothing == [kind |-> "nothing"]

token_num == Len(tokens)
P == INSTANCE Parser

frontVars == <<vars, next, end, cmd, procs, stage, ran>>

-----------------------------------------------------------------------------
FrontInit == Init /\ P!ParserInit /\ ran = Nothing

Tokenize == TokenizeLine /\ UNCHANGED <<next, end, cmd, procs, stage, ran>>

(* A line without tokens is skipped, and so is one the tokenizer refuses.    *)
HandOver == /\ mode = "done" /\ stage = "wait" /\ tokens # <<>>
            /\ stage' = "check" /\ UNCHANGED <<vars, next, end, cmd, procs, ran>>

Parse == P!InitializeProcesses /\ UNCHANGED <<vars, ran>>

(* is_bulitin reads proc->cmd of whatever it is given.                       *)
IsBuiltinOfNull == /\ stage = "refused"
                   /\ stage' = "crashed" /\ UNCHANGED <<vars, next, end, cmd, procs, ran>>

IsBuiltin == procs[1].argv[1] \in Builtins

(* The text `jobs' prints: the line without the & that is its last character.*)
CutText  == Front(line)                    \* mutant: always one character less
RawInput == IF Last(line) = Amp[1] THEN Front(line) ELSE line

(* Only the head of the list decides, and only the head reaches a builtin;   *)
(* a job takes background from the command that was parsed last.             *)
Dispatch ==
  /\ stage = "parsed"
  /\ ran' = IF IsBuiltin THEN [kind |-> "builtin", proc |-> procs[1]]
            ELSE [kind |-> "job", first_process |-> procs,
                  command |-> RawInput, background |-> cmd.background]
  /\ stage' = "handled" /\ UNCHANGED <<vars, next, end, cmd, procs>>

FrontNext == Tokenize \/ HandOver \/ Parse \/ IsBuiltinOfNull \/ Dispatch

FrontSpec == FrontInit /\ [][FrontNext]_frontVars /\ WF_frontVars(FrontNext)

-----------------------------------------------------------------------------
(* The variables range over what their C types and the states allow.         *)
FrontTypeOK ==
  /\ TypeOK /\ next \in Nat \ {0} /\ end \in Nat
  /\ cmd \in [argv : Seq(Seq(Chars)), size : Nat, infile : Seq(Seq(Chars)),
              outfile : Seq(Seq(Chars)), append_output : BOOLEAN, background : BOOLEAN]
  /\ stage \in {"wait", "check", "split", "parse", "parsed", "refused", "crashed", "handled"}

(* Parsing stays inside its arrays: no token past the last one is read, and  *)
(* argv, of as many places as the command has tokens and one for NULL, holds *)
(* every argument and the NULL (parser.c:131, 136, without any check there). *)
ParseInBounds ==
  /\ stage = "parse" => next <= end /\ end <= token_num + 1
  /\ Len(cmd.argv) <= cmd.size

(* What is_bulitin reads of a parsed line is there (helper.c:17), and none   *)
(* of the parser's operators |, &, <, >, >> is taken for the name of a       *)
(* program (parser.c:80).  &&, || and <<, which the tokenizer makes, are     *)
(* words to the parser and can be names.                                     *)
CommandsHaveNames ==
  /\ stage \in {"parsed", "handled"} => procs # <<>>
  /\ \A k \in DOMAIN procs :
       procs[k].argv # <<>> /\ procs[k].argv[1] \notin P!Special \cup {Pipe}
=============================================================================
