------------------------------- MODULE Parser -------------------------------
(***************************************************************************)
(* initalize_processes: the tokens of one line become a list of processes, *)
(* one command for each stretch between pipes, parsed token by token and   *)
(* then expanded.  Any mistake makes it return NULL.                       *)
(*                                                                         *)
(* Operators are recognised by their text, quoted or not.  A file name is  *)
(* kept as a sequence: <<>> is the NULL pointer.                           *)
(***************************************************************************)
EXTENDS Expander

CONSTANTS Pipe, Amp, Out, AppendOut, In    \* the tokens | & > >> <

VARIABLES
  tokens, token_num, \* the array and its length, read only
  next,    \* the first token that is not parsed yet
  end,     \* where the current command ends: its pipe, or past the last token
  cmd,     \* the command being filled
  procs,   \* the commands of the process list, head first
  stage    \* which function is running, or what it returned

parserVars == <<next, end, cmd, procs, stage>>

Special == {Out, In, Amp, AppendOut}       \* special_characters of parser.c
NoCommand == [argv |-> <<>>, size |-> 0, infile |-> <<>>, outfile |-> <<>>,
              append_output |-> FALSE, background |-> FALSE]

-----------------------------------------------------------------------------
ParserInit == next = 1 /\ end = 1 /\ cmd = NoCommand /\ procs = <<>> /\ stage = "wait"

Refuse == stage' = "refused" /\ UNCHANGED <<next, end, cmd, procs>>

CheckBackground ==
  /\ stage = "check"
  /\ IF \E k \in 1 .. token_num - 1 : tokens[k] = Amp
     THEN Refuse
     ELSE stage' = "split" /\ UNCHANGED <<next, end, cmd, procs>>

(* Tokens k .. e - 1 are the command that starts at k.                       *)
Stretch(k, e) == /\ \A j \in k .. e - 1 : tokens[j] # Pipe
                 /\ e <= token_num => tokens[e] = Pipe
AnyStart(k, e)   == k < e                    \* mutant: no look at the first token
ValidStart(k, e) == k < e /\ tokens[k] \notin Special

(* split_on_pipe, and the start of parse: argv has room for size arguments   *)
(* and the NULL after them.                                                  *)
SplitOnPipe ==
  /\ stage = "split"
  /\ \E e \in next .. token_num + 1 :
       /\ Stretch(next, e)
       /\ IF ValidStart(next, e)
          THEN /\ end' = e /\ next' = next + 1
               /\ cmd' = [NoCommand EXCEPT !.argv = <<tokens[next]>>, !.size = e - next]
               /\ stage' = "parse" /\ UNCHANGED procs
          ELSE Refuse

Parsing == stage = "parse" /\ next < end

Background ==
  /\ Parsing /\ tokens[next] = Amp
  /\ IF next + 1 = end
     THEN /\ cmd' = [cmd EXCEPT !.background = TRUE] /\ next' = next + 1
          /\ UNCHANGED <<end, procs, stage>>
     ELSE Refuse

AnyFollows  == next + 1 < end              \* mutant: an operator is a file name
NameFollows == next + 1 < end /\ tokens[next + 1] \notin Special

FirstOutput(append) ==                     \* mutant: a second file is not taken
  IF cmd.outfile # <<>> THEN cmd
  ELSE [cmd EXCEPT !.outfile = <<tokens[next + 1]>>, !.append_output = append]
Output(append) == [cmd EXCEPT !.outfile = <<tokens[next + 1]>>, !.append_output = append \/ @]

(* Nothing clears append_output: `>> a > b' appends to b.                    *)
Redirection ==
  /\ Parsing /\ tokens[next] \in {AppendOut, Out, In}
  /\ IF NameFollows
     THEN /\ cmd' = IF tokens[next] = In THEN [cmd EXCEPT !.infile = <<tokens[next + 1]>>]
                    ELSE Output(tokens[next] = AppendOut)
          /\ next' = next + 2 /\ UNCHANGED <<end, procs, stage>>
     ELSE Refuse

PushTwice == /\ Parsing /\ tokens[next] \notin Special   \* mutant: argc++ twice
              /\ cmd' = [cmd EXCEPT !.argv = @ \o <<tokens[next], tokens[next]>>]
              /\ next' = next + 1 /\ UNCHANGED <<end, procs, stage>>
Argument == /\ Parsing /\ tokens[next] \notin Special
            /\ cmd' = [cmd EXCEPT !.argv = Append(@, tokens[next])]
            /\ next' = next + 1 /\ UNCHANGED <<end, procs, stage>>

(* create_process and expander; a pipe with nothing after it ends the line.  *)
EndCommand == /\ stage = "parse" /\ next = end
              /\ procs' = Append(procs, ExpandCommand(cmd))
              /\ next' = end + 1
              /\ stage' = IF end < token_num THEN "split" ELSE "parsed"
              /\ UNCHANGED <<end, cmd>>

InitializeProcesses == CheckBackground \/ SplitOnPipe \/ Background \/ Redirection
                       \/ Argument \/ EndCommand
=============================================================================
