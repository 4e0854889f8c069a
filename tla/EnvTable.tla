------------------------------ MODULE EnvTable ------------------------------
(***************************************************************************)
(* The exported variables of YegaShell: a hash table of chains, changed by *)
(* the builtins export and unset and copied into envp for every launch.    *)
(* A variable is inserted at the head of its chain, overwritten in place   *)
(* and unlinked from anywhere in it.  Any allocation may fail.             *)
(*                                                                         *)
(* add_variable is only ever called with exported = 1, so that flag is     *)
(* left out.  Nothing else runs between the steps of a builtin: the signal *)
(* handlers do not touch the table.                                        *)
(***************************************************************************)
EXTENDS Naturals, SequencesExt

CONSTANTS
  Names,        \* what a user may type as a name
  Valid,        \* the names is_valid_identifier accepts
  Values,       \* strings
  Empty,        \* the empty string
  Lost,         \* a NULL value: strdup failed after the old value was freed
  None,         \* no value: `export NAME' without =, a name not in the table
  TableSize, Hash,
  MaxArgs,      \* bound: arguments of one export
  MaxFailures   \* bound: allocations that fail

ASSUME NamesAssumption  == Valid \subseteq Names
ASSUME ValuesAssumption == /\ Empty \in Values /\ Lost \notin Values
                           /\ None \notin Values \cup {Lost}
ASSUME HashAssumption   == /\ TableSize \in Nat \ {0}
                           /\ Hash \in [Names -> 0 .. TableSize - 1]
ASSUME LimitsAssumption == MaxArgs \in Nat /\ MaxFailures \in Nat

Slots     == 0 .. TableSize - 1
Variables == [key : Names, value : Values \cup {Lost}]
Args      == [key : Names, value : Values \cup {None}]

VARIABLES
  pc,        \* "prompt", "export", "unset", "gone" or "crashed"
  table,     \* variable_table: the chain of each slot
  todo,      \* the arguments the builtin has not looked at yet
  handed,    \* envp of the last launch: the variable copied from each place
  failures   \* allocations that have failed

vars == <<pc, table, todo, handed, failures>>

-----------------------------------------------------------------------------
Places == UNION {{s} \X DOMAIN table[s] : s \in Slots}
At(p)  == table[p[1]][p[2]]

(* lookup: the first variable of the key's chain that has the key.          *)
Holds(key, i) ==
  LET chain == table[Hash[key]]
  IN  i \in DOMAIN chain /\ chain[i].key = key /\ \A j \in 1 .. i - 1 : chain[j].key # key
Unseen(key) == FALSE                        \* mutant: nothing is ever found
Found(key)  == \E i \in DOMAIN table[Hash[key]] : Holds(key, i)

Insert(key, value) ==
  table' = [table EXCEPT ![Hash[key]] = <<[key |-> key, value |-> value]>> \o @]
OverwriteHead(key, i, value) ==             \* mutant: the head, whoever that is
  table' = [table EXCEPT ![Hash[key]][1].value = value]
Overwrite(key, i, value) ==
  table' = [table EXCEPT ![Hash[key]][i].value = value]

Init ==
  /\ pc = "prompt" /\ todo = <<>> /\ failures = 0
  /\ table = [s \in Slots |-> <<>>]
  /\ handed = [p \in {} |-> Empty]

-----------------------------------------------------------------------------
(* export NAME[=VALUE] ...                                                  *)

Export ==
  /\ pc = "prompt"
  /\ \E n \in 1 .. MaxArgs : todo' \in [1 .. n -> Args]
  /\ pc' = "export"
  /\ UNCHANGED <<table, handed, failures>>

Exporting(arg) == pc = "export" /\ todo # <<>> /\ arg = Head(todo)
NextArg        == todo' = Tail(todo) /\ UNCHANGED <<pc, handed, failures>>

(* An allocation fails: the remaining arguments are dropped.                *)
GivesUp ==
  /\ failures < MaxFailures /\ failures' = failures + 1
  /\ pc' = "prompt" /\ todo' = <<>> /\ UNCHANGED handed

(* A name that is not an identifier is reported and passed over.            *)
SkipInvalid(arg) ==
  /\ Exporting(arg) /\ arg.key \notin Valid
  /\ NextArg /\ UNCHANGED table

NullValue(arg) == arg.value                 \* mutant: no empty string
NewValue(arg)  == IF arg.value = None THEN Empty ELSE arg.value

AddNew(arg) ==
  /\ Exporting(arg) /\ arg.key \in Valid /\ ~Found(arg.key)
  /\ \/ Insert(arg.key, NewValue(arg)) /\ NextArg
     \/ UNCHANGED table /\ GivesUp

(* The old value is freed before the new one is copied.  Without = the new  *)
(* one is the old one, and the copy is of freed memory.                     *)
Update(arg) ==
  /\ Exporting(arg) /\ arg.key \in Valid
  /\ \E i \in DOMAIN table[Hash[arg.key]] :
       /\ Holds(arg.key, i)
       /\ arg.value = None => table[Hash[arg.key]][i].value # Lost
       /\ \/ \E v \in IF arg.value = None THEN Values ELSE {arg.value} :
               Overwrite(arg.key, i, v) /\ NextArg
          \/ Overwrite(arg.key, i, Lost) /\ GivesUp

(* strdup(NULL).                                                            *)
CopyNothing(arg) ==
  /\ Exporting(arg) /\ arg.key \in Valid /\ arg.value = None
  /\ \E i \in DOMAIN table[Hash[arg.key]] :
       Holds(arg.key, i) /\ table[Hash[arg.key]][i].value = Lost
  /\ pc' = "crashed" /\ UNCHANGED <<table, todo, handed, failures>>

ExportDone ==
  /\ pc = "export" /\ todo = <<>>
  /\ pc' = "prompt" /\ UNCHANGED <<table, todo, handed, failures>>

-----------------------------------------------------------------------------
(* unset NAME                                                               *)

UnsetCommand ==
  /\ pc = "prompt" /\ pc' = "unset"
  /\ todo' \in {<<>>} \cup {<<[key |-> key, value |-> None]>> : key \in Names}
  /\ UNCHANGED <<table, handed, failures>>

Unlink(chain, i) == RemoveAt(chain, i)

(* A name that is not in the table is reported, and nothing else happens.   *)
Unset(arg) ==
  /\ pc = "unset" /\ todo # <<>> /\ arg = Head(todo)
  /\ \/ \E i \in DOMAIN table[Hash[arg.key]] :
          /\ Holds(arg.key, i)
          /\ table' = [table EXCEPT ![Hash[arg.key]] = Unlink(@, i)]
     \/ ~Found(arg.key) /\ UNCHANGED table
  /\ pc' = "prompt" /\ todo' = <<>> /\ UNCHANGED <<handed, failures>>

(* unset without a name hashes NULL.                                        *)
UnsetNothing ==
  /\ pc = "unset" /\ todo = <<>>
  /\ pc' = "crashed" /\ UNCHANGED <<table, todo, handed, failures>>

-----------------------------------------------------------------------------
(* A launch builds envp: one string for each variable in the table          *)

BuildEnvp ==
  /\ pc = "prompt"
  /\ \A p \in Places : At(p).value # Lost
  /\ handed' = [p \in Places |-> At(p)]
  /\ UNCHANGED <<pc, table, todo, failures>>

(* strlen(NULL), unless an allocation fails before that.                    *)
BuildLost ==
  /\ pc = "prompt"
  /\ \E p \in Places : At(p).value = Lost
  /\ pc' = "crashed" /\ UNCHANGED <<table, todo, handed, failures>>

(* A failed launch ends the shell.                                          *)
BuildFails ==
  /\ pc = "prompt"
  /\ failures < MaxFailures /\ failures' = failures + 1
  /\ pc' = "gone" /\ UNCHANGED <<table, todo, handed>>

-----------------------------------------------------------------------------
Next ==
  \/ Export \/ ExportDone \/ UnsetCommand \/ UnsetNothing
  \/ BuildEnvp \/ BuildLost \/ BuildFails
  \/ \E arg \in Args :
       SkipInvalid(arg) \/ AddNew(arg) \/ Update(arg) \/ CopyNothing(arg) \/ Unset(arg)

Spec == Init /\ [][Next]_vars

-----------------------------------------------------------------------------
TypeOK ==
  /\ pc \in {"prompt", "export", "unset", "gone", "crashed"}
  /\ table \in [Slots -> Seq(Variables)]
  /\ todo \in Seq(Args)
  /\ DOMAIN handed \subseteq Slots \X Nat
  /\ \A p \in DOMAIN handed : handed[p] \in Variables
  /\ failures \in 0 .. MaxFailures

(* A name is in the table once, in its own chain, however the chains have   *)
(* been changed: lookup, remove_variable and build_envp rely on it.         *)
ChainsAreSound ==
  \A s \in Slots : \A i \in DOMAIN table[s] :
    /\ Hash[table[s][i].key] = s
    /\ table[s][i].key \in Valid
    /\ \A j \in DOMAIN table[s] : table[s][i].key = table[s][j].key => i = j

(* No command is handed the same name twice (env_utils.c:170-206).          *)
HandedOnce ==
  \A p, q \in DOMAIN handed : handed[p].key = handed[q].key => p = q

(* The table is a map: whatever the hash and whatever shares a chain, each  *)
(* argument of an export gives its own name its own value and no other name *)
(* changes, an unset takes away the name it was given, and a command is     *)
(* handed exactly the names that are set, none of them without a value.  A  *)
(* value is lost only by the export that ran out of memory, for its name.   *)
ValueOf(n) ==
  IF \E p \in Places : At(p).key = n
  THEN At(CHOOSE p \in Places : At(p).key = n).value
  ELSE None

Map == INSTANCE EnvMap WITH
  env    <- [n \in Names |-> ValueOf(n)],
  doing  <- pc,
  handed <- {<<handed[p].key, handed[p].value>> : p \in DOMAIN handed}

MapSpec == Map!Spec

(* add_variable gives a variable the value it was called with               *)
(* (env_utils.h:53-57): exporting a name again, without a value, keeps it.  *)
ExportKeepsValue ==
  [][\A arg \in Args :
       Exporting(arg) /\ arg.value = None /\ failures' = failures /\ arg.key \in Valid
         /\ Found(arg.key)
         => ValueOf(arg.key)' = ValueOf(arg.key)]_vars
=============================================================================
