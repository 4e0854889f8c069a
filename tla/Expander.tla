------------------------------ MODULE Expander ------------------------------
(***************************************************************************)
(* expander: $NAME, $$ and $? in the arguments and file names of a parsed  *)
(* command.  Only a token that starts with $ is expanded, the name is      *)
(* followed by the rest of the token unchanged, and a token that cannot be *)
(* expanded becomes the empty string.                                      *)
(***************************************************************************)
EXTENDS Naturals, SequencesExt, FiniteSetsExt

CONSTANTS
  Dollar, Query,     \* the characters $ and ?
  Letters, Digits,   \* isalpha or _ , isdigit
  Table, Environ,    \* what export has set, and the shell's own environment
  ShellPid, LastStatus   \* getpid() and last_exit_status, in decimal

GetEnv(name) == IF name \in DOMAIN Table THEN Table[name]
                ELSE IF name \in DOMAIN Environ THEN Environ[name] ELSE <<>>

NameEnd(token) ==
  Max({n \in 1 .. Len(token) : \A k \in 2 .. n : token[k] \in Letters \cup Digits})

(* NULL is turned into "" by every caller.                                   *)
ExpandVariable(token) ==
  IF Len(token) > 1 /\ token[2] \in Letters
  THEN GetEnv(SubSeq(token, 2, NameEnd(token))) \o SubSeq(token, NameEnd(token) + 1, Len(token))
  ELSE <<>>

ExpandFile(name) ==
  IF name # <<>> /\ name[1] = Dollar THEN ExpandVariable(name) ELSE name

ExpandArgument(token) ==
  CASE token = <<Dollar, Dollar>> -> ShellPid
    [] token = <<Dollar, Query>>  -> LastStatus
    [] OTHER                      -> ExpandFile(token)

(* argv[0] is left as it was typed.                                          *)
ExpandCommand(cmd) ==
  [cmd EXCEPT !.argv    = [k \in DOMAIN @ |-> IF k = 1 THEN @[1] ELSE ExpandArgument(@[k])],
              !.infile  = [k \in DOMAIN @ |-> ExpandFile(@[k])],
              !.outfile = [k \in DOMAIN @ |-> ExpandFile(@[k])]]
=============================================================================
