------------------------------- MODULE EnvMap -------------------------------
(***************************************************************************)
(* What the shell's environment promises, without chains and hashing: a    *)
(* map from names to values.  An export gives the name of each argument    *)
(* the value written there, in order; an unset takes its name away; a      *)
(* launched command is handed the whole map; nothing else changes it.      *)
(* Where the shell runs out of memory a value is lost, and a lost value is *)
(* never handed out: the shell does not survive reading one.               *)
(***************************************************************************)
EXTENDS Sequences

CONSTANTS Names, Valid, Values, Empty,
          Lost,   \* the value of a name whose string could not be copied
          None    \* the value of a name that is not set, or not given

VARIABLES env,     \* the value of each name
          doing,   \* "prompt", the command that runs, or how the shell ended
          todo,    \* the arguments the command has not dealt with
          handed   \* what the last launched command was given

entries == <<env, doing, todo, handed>>

Args == [key : Names, value : Values \cup {None}]

Init == /\ env = [n \in Names |-> None] /\ handed = {}
        /\ doing = "prompt" /\ todo = <<>>

(* The user types a command with any arguments.                             *)
Ask == /\ doing = "prompt" /\ doing' \in {"export", "unset"}
       /\ todo' \in Seq(Args)
       /\ UNCHANGED <<env, handed>>

First(arg) == todo # <<>> /\ arg = Head(todo)
Return     == doing' = "prompt" /\ todo' = <<>>

(* An export without a value keeps a name set, with a value nobody promises *)
(* (a copy of freed memory); a lost value cannot be kept.                   *)
Given(arg) ==
  CASE arg.value # None                            -> {arg.value}
    [] arg.value = None /\ env[arg.key] = None     -> {Empty}
    [] arg.value = None /\ env[arg.key] = Lost     -> {}
    [] OTHER                                       -> Values

Set(arg) ==
  /\ doing = "export" /\ First(arg) /\ arg.key \in Valid
  /\ \E v \in Given(arg) : env' = [env EXCEPT ![arg.key] = v]
  /\ todo' = Tail(todo) /\ UNCHANGED <<doing, handed>>

Skip(arg) ==
  /\ doing = "export" /\ First(arg) /\ arg.key \notin Valid
  /\ todo' = Tail(todo) /\ UNCHANGED <<env, doing, handed>>

(* No memory: the name's old value may be gone, the other names keep theirs.*)
GiveUp(arg) ==
  /\ doing = "export" /\ First(arg) /\ arg.key \in Valid /\ Given(arg) # {}
  /\ env' = [env EXCEPT ![arg.key] = IF @ = None THEN None ELSE Lost]
  /\ Return /\ UNCHANGED handed

Done == doing = "export" /\ todo = <<>> /\ Return /\ UNCHANGED <<env, handed>>

Unset(arg) ==
  /\ doing = "unset" /\ First(arg)
  /\ env' = [env EXCEPT ![arg.key] = None]
  /\ Return /\ UNCHANGED handed

Launch ==
  /\ doing = "prompt" /\ \A n \in Names : env[n] # Lost
  /\ handed' = {<<n, env[n]>> : n \in {m \in Names : env[m] # None}}
  /\ UNCHANGED <<env, doing, todo>>

LaunchFails == doing = "prompt" /\ doing' = "gone" /\ UNCHANGED <<env, todo, handed>>

(* The shell dies of reading a lost value, or of unset without a name.      *)
Crash ==
  /\ \/ doing = "prompt" /\ \E n \in Names : env[n] = Lost
     \/ doing = "export" /\ \E arg \in Args : /\ First(arg) /\ arg.key \in Valid
                                              /\ Given(arg) = {}
     \/ doing = "unset" /\ todo = <<>>
  /\ doing' = "crashed" /\ UNCHANGED <<env, todo, handed>>

Next == \/ Ask \/ Done \/ Launch \/ LaunchFails \/ Crash
        \/ \E arg \in Args : Set(arg) \/ Skip(arg) \/ GiveUp(arg) \/ Unset(arg)

Spec == Init /\ [][Next]_entries
=============================================================================
