--------------------------- MODULE PipelineProofs ---------------------------
(* Theorems about Pipeline, for any number of commands.                     *)
EXTENDS Pipeline, TLAPS, WellFoundedInduction

(* The numbers the ends of pipe i get: the lowest free ones, in order.      *)
ReadFd(i)  == 3 + 2 * i
WriteFd(i) == 4 + 2 * i

LEMMA ObjectsDiffer ==
  /\ \A i, j : ReadEnd(i) = ReadEnd(j) => i = j
  /\ \A i, j : WriteEnd(i) = WriteEnd(j) => i = j
  /\ \A i, j : ReadEnd(i) # WriteEnd(j)
  /\ \A i : ReadEnd(i) \notin {Tty, File, Closed}
  /\ \A i : WriteEnd(i) \notin {Tty, File, Closed}
  /\ Tty # File /\ Tty # Closed /\ File # Closed
BY DEF ReadEnd, WriteEnd, Tty, File, Closed, Object

LEMMA ObjectsType ==
  /\ \A i \in Pipes : ReadEnd(i) \in Objects /\ WriteEnd(i) \in Objects
  /\ Tty \in Objects /\ File \in Objects /\ Closed \in Objects
BY DEF Objects

(* Each number is standard, an end's, or above all ends.                    *)
LEMMA FdCases ==
  ASSUME NEW f \in Fds
  PROVE  \/ f \in 0 .. 2
         \/ \E i \in Pipes : f = ReadFd(i) \/ f = WriteFd(i)
         \/ f > 2 * NumProcs
<1> SUFFICES ASSUME f > 2, f <= 2 * NumProcs
             PROVE  \E i \in Pipes : f = ReadFd(i) \/ f = WriteFd(i)
  BY PipelineAssumption DEF Fds
<1>1. PICK i \in Int : f - 3 = 2 * i \/ f - 3 = 2 * i + 1
  <2>1. (f - 3) \div 2 \in Int
        /\ (f - 3 = 2 * ((f - 3) \div 2) \/ f - 3 = 2 * ((f - 3) \div 2) + 1)
    BY DEF Fds
  <2> QED BY <2>1
<1>2. i \in Pipes
  BY <1>1, PipelineAssumption DEF Pipes, Fds
<1> QED BY <1>1, <1>2 DEF ReadFd, WriteFd, Fds

LEMMA FdTypes ==
  /\ \A i \in Pipes : /\ i \in Nat /\ i < NumProcs - 1 /\ i + 1 \in Children
                      /\ i \in Children
                      /\ ReadFd(i) \in Fds /\ WriteFd(i) \in Fds
                      /\ ReadFd(i) > 2 /\ WriteFd(i) > 2
                      /\ ReadFd(i) <= 2 * NumProcs /\ WriteFd(i) <= 2 * NumProcs
  /\ \A i, j \in Pipes : /\ ReadFd(i) = ReadFd(j) => i = j
                         /\ WriteFd(i) = WriteFd(j) => i = j
                         /\ ReadFd(i) # WriteFd(j)
  /\ 0 \in Fds /\ 1 \in Fds /\ 2 \in Fds /\ MaxFd \in Fds
  /\ 2 * NumProcs + 1 \in Fds
BY PipelineAssumption DEF Pipes, Children, Fds, ReadFd, WriteFd

(* A nonempty set of numbers has a least element.                           *)
LEMMA LeastElement ==
  ASSUME NEW T, T \subseteq Nat, T # {}
  PROVE  \E x \in T : \A y \in T : x <= y
<1> DEFINE R == {ss \in Nat \X Nat : ss[1] < ss[2]}
<1>1. IsWellFoundedOn(R, Nat)
  BY NatLessThanWellFounded, Zenon DEF OpToRel
<1>2. \A x, y \in T : ~ (<<y, x>> \in R) => x <= y
  OBVIOUS
<1> HIDE DEF R
<1>3. \E x \in T : \A y \in T : ~ (<<y, x>> \in R)
  BY <1>1, WFMin
<1> QED BY <1>2, <1>3

LEMMA LowestFreeExists ==
  ASSUME NEW table \in [Fds -> Objects], \E f \in Fds : table[f] = Closed
  PROVE  /\ LowestFree(table) \in Fds
         /\ table[LowestFree(table)] = Closed
         /\ \A g \in 0 .. LowestFree(table) - 1 : table[g] # Closed
<1> DEFINE T == {f \in Fds : table[f] = Closed}
<1>1. T \subseteq Nat /\ T # {}
  BY DEF Fds
<1>2. PICK f \in T : \A y \in T : f <= y
  BY <1>1, LeastElement
<1>3. ASSUME NEW g \in 0 .. f - 1, table[g] = Closed PROVE FALSE
  <2>1. f \in Fds
    OBVIOUS
  <2>2. g \in Fds /\ g < f
    BY <2>1, PipelineAssumption DEF Fds
  <2>3. g \in T
    BY <2>2, <1>3
  <2>4. f <= g
    BY <2>3, <1>2
  <2> QED BY <2>1, <2>2, <2>4 DEF Fds
<1>4. f \in Fds /\ table[f] = Closed /\ \A g \in 0 .. f - 1 : table[g] # Closed
  BY <1>2, <1>3
<1> QED BY <1>4 DEF LowestFree

LEMMA LowestFreeIs ==
  ASSUME NEW table \in [Fds -> Objects], NEW f \in Fds, table[f] = Closed,
         \A g \in 0 .. f - 1 : table[g] # Closed
  PROVE  LowestFree(table) = f
<1>1. /\ LowestFree(table) \in Fds
      /\ table[LowestFree(table)] = Closed
      /\ \A g \in 0 .. LowestFree(table) - 1 : table[g] # Closed
  BY LowestFreeExists
<1>2. \A g \in Fds : table[g] = Closed /\ (\A h \in 0 .. g - 1 : table[h] # Closed)
        => ~(g < f) /\ ~(f < g)
  BY DEF Fds
<1> QED BY <1>1, <1>2 DEF Fds

(* Opening a file for a redirection disturbs no other descriptor.           *)
LEMMA RedirectKeepsRest ==
  ASSUME NEW table \in [Fds -> Objects], \E f \in Fds : table[f] = Closed,
         NEW to \in {Stdin, Stdout},
         table[Stdin] # Closed, table[Stdout] # Closed
  PROVE  LET n == LowestFree(table)
         IN  MoveTo([table EXCEPT ![n] = File], n, to) = [table EXCEPT ![to] = File]
<1> DEFINE n == LowestFree(table)
<1>1. n \in Fds /\ table[n] = Closed
  BY LowestFreeExists
<1>2. to \in Fds /\ n # to
  BY <1>1, FdTypes DEF Stdin, Stdout
<1> HIDE DEF n
<1>3. MoveTo([table EXCEPT ![n] = File], n, to) = [table EXCEPT ![to] = File]
  BY <1>1, <1>2 DEF MoveTo, Close
<1> QED BY <1>3 DEF n

-----------------------------------------------------------------------------
(* The inductive invariant: every table is known, entry by entry            *)

(* Which ends a table holds, for a shell about to fork (or having forked)   *)
(* command n and having created m pipes: the input of command n and         *)
(* everything after it.                                                     *)
Inherited(table, n, m) ==
  /\ table[0] = Tty /\ table[1] = Tty /\ table[2] = Tty
  /\ \A i \in Pipes :
       /\ table[ReadFd(i)] = IF n - 1 <= i /\ i < m THEN ReadEnd(i) ELSE Closed
       /\ table[WriteFd(i)] = IF n <= i /\ i < m THEN WriteEnd(i) ELSE Closed
  /\ \A f \in Fds : f > 2 * NumProcs => table[f] = Closed

ShellTable ==
  /\ pc = "create" => Inherited(fds[Shell], 0, num)
  /\ pc \in {"fork", "parent", "wait", "done"} =>
       Inherited(fds[Shell], num, NumProcs - 1)

(* A child's own table: what it inherited, less what it has moved.          *)
KeepsRead(c, i) ==
  c - 1 <= i /\ (i # c - 1 \/ stage[c] = "stdin" \/ c \in infile)
KeepsWrite(c, i) ==
  c <= i /\ (i # c \/ stage[c] \in {"stdin", "stdout"} \/ c \in outfile)

ChildTable(c) ==
  /\ fds[c][0] = IF stage[c] = "stdin" THEN Tty ELSE Input(c)
  /\ fds[c][1] = IF stage[c] \in {"stdin", "stdout"} THEN Tty ELSE Output(c)
  /\ fds[c][2] = Tty
  /\ \A i \in Pipes :
       /\ fds[c][ReadFd(i)] =
            IF stage[c] # "running" /\ KeepsRead(c, i) THEN ReadEnd(i) ELSE Closed
       /\ fds[c][WriteFd(i)] =
            IF stage[c] # "running" /\ KeepsWrite(c, i) THEN WriteEnd(i) ELSE Closed
  /\ \A f \in Fds : f > 2 * NumProcs => fds[c][f] = Closed

Tables == ShellTable
          /\ \A c \in Children : stage[c] \notin {"unborn", "exited"} => ChildTable(c)

(* How far the shell is, which children exist and which pipes have numbers. *)
Forked(c) == c < num \/ (c = num /\ pc = "parent")

Progress ==
  /\ pc = "create" => num < NumProcs - 1
  /\ pc \in {"fork", "parent"} => num < NumProcs
  /\ pc \in {"wait", "done"} => num = NumProcs
  /\ pc = "create" => \A c \in Children : stage[c] = "unborn"
  /\ pc \in {"fork", "parent", "wait", "done"} =>
       \A c \in Children : stage[c] = "unborn" <=> ~Forked(c)

Numbered ==
  /\ pc = "create" => \A i \in Pipes : i < num => pipes[i] = <<ReadFd(i), WriteFd(i)>>
  /\ pc \in {"fork", "parent", "wait", "done"} \/ (\E c \in Children : stage[c] # "unborn") =>
       \A i \in Pipes : pipes[i] = <<ReadFd(i), WriteFd(i)>>

Inv == TypeOK /\ Progress /\ Numbered /\ Tables

-----------------------------------------------------------------------------
LEMMA InputTypes ==
  \A c \in Children : /\ Input(c) \in Objects /\ Input(c) # Closed
                      /\ Output(c) \in Objects /\ Output(c) # Closed
<1> SUFFICES ASSUME NEW c \in Children
             PROVE  /\ Input(c) \in Objects /\ Input(c) # Closed
                    /\ Output(c) \in Objects /\ Output(c) # Closed
  OBVIOUS
<1>1. (c > 0 => c - 1 \in Pipes) /\ (c < NumProcs - 1 => c \in Pipes)
  BY PipelineAssumption DEF Children, Pipes
<1> QED BY <1>1, ObjectsType, ObjectsDiffer DEF Input, Output

LEMMA StdFdsType == StdFds \in [Fds -> Objects] /\ NoFds \in [Fds -> Objects]
BY ObjectsType DEF StdFds, NoFds

LEMMA CloseType ==
  ASSUME NEW table \in [Fds -> Objects], NEW S
  PROVE  Close(table, S) \in [Fds -> Objects]
BY ObjectsType DEF Close

LEMMA InitInv == Init => Inv
<1> SUFFICES ASSUME Init PROVE Inv
  OBVIOUS
<1> USE DEF Init
<1>1. TypeOK
  <2>1. fds \in [{Shell} \cup Children -> [Fds -> Objects]]
    BY StdFdsType
  <2>2. pipes \in [Pipes -> (Fds \cup {-1}) \X (Fds \cup {-1})]
    OBVIOUS
  <2>3. buf \in [Pipes -> 0 .. Capacity] /\ num \in 0 .. NumProcs
    BY PipelineAssumption
  <2>4. stage \in [Children -> Stages]
    BY DEF Stages
  <2> QED BY <2>1, <2>2, <2>3, <2>4 DEF TypeOK
<1>2. Progress
  BY PipelineAssumption DEF Progress, Forked, Children
<1>3. Numbered
  BY PipelineAssumption DEF Numbered, Pipes
<1>4. Tables
  <2>1. fds[Shell] = StdFds
    OBVIOUS
  <2>2. \A n, m \in Int : m = 0 => Inherited(StdFds, n, m)
    BY FdTypes, PipelineAssumption DEF Inherited, StdFds, Fds
  <2>3. NumProcs = 1 => NumProcs - 1 = 0
    BY PipelineAssumption
  <2>4. ShellTable
    BY <2>1, <2>2, <2>3, PipelineAssumption DEF ShellTable
  <2> QED BY <2>4 DEF Tables
<1> QED BY <1>1, <1>2, <1>3, <1>4 DEF Inv

-----------------------------------------------------------------------------
(* What a step leaves alone                                                 *)

LEMMA ChildFrame ==
  ASSUME NEW c \in Children, ChildTable(c), UNCHANGED plan,
         fds'[c] = fds[c], stage'[c] = stage[c]
  PROVE  ChildTable(c)'
BY DEF ChildTable, KeepsRead, KeepsWrite, Input, Output, plan

LEMMA OnlyChild ==
  ASSUME Inv, NEW c \in Children, UNCHANGED <<pc, num, pipes, plan>>,
         stage[c] \notin {"unborn", "exited"}, stage'[c] # "unborn",
         stage' = [stage EXCEPT ![c] = stage'[c]], stage'[c] \in Stages,
         fds' = [fds EXCEPT ![c] = fds'[c]], fds'[c] \in [Fds -> Objects],
         stage'[c] # "exited" => ChildTable(c)',
         buf' \in [Pipes -> 0 .. Capacity],
         eof' \subseteq Children, broken' \subseteq Children
  PROVE  Inv'
<1> USE DEF Inv, plan
<1>1. TypeOK'
  BY DEF TypeOK
<1>2. \A d \in Children : stage'[d] = "unborn" <=> stage[d] = "unborn"
  BY DEF TypeOK
<1>3. Progress'
  BY <1>2 DEF Progress, Forked
<1>4. Numbered'
  BY <1>2 DEF Numbered
<1>5. fds'[Shell] = fds[Shell]
  BY DEF TypeOK, Shell, Children
<1>6. ShellTable'
  <2>1. ShellTable
    BY DEF Tables
  <2> QED BY <1>5, <2>1 DEF ShellTable, Inherited
<1>7. ASSUME NEW d \in Children, stage'[d] \notin {"unborn", "exited"}
      PROVE  ChildTable(d)'
  <2>1. CASE d = c
    BY <2>1, <1>7
  <2>2. CASE d # c
    <3>1. fds'[d] = fds[d] /\ stage'[d] = stage[d]
      BY <2>2 DEF TypeOK
    <3>2. ChildTable(d)
      BY <3>1, <1>7 DEF Tables
    <3> QED BY <3>1, <3>2, ChildFrame
  <2> QED BY <2>1, <2>2
<1> QED BY <1>1, <1>3, <1>4, <1>6, <1>7 DEF Tables

(* A step of the shell that forks nothing.                                  *)
LEMMA OnlyShell ==
  ASSUME Inv, UNCHANGED <<stage, buf, plan, eof, broken>>,
         fds' = [fds EXCEPT ![Shell] = fds'[Shell]], fds'[Shell] \in [Fds -> Objects]
  PROVE  /\ fds' \in [{Shell} \cup Children -> [Fds -> Objects]]
         /\ \A c \in Children : stage'[c] \notin {"unborn", "exited"} => ChildTable(c)'
<1>1. \A c \in Children : fds'[c] = fds[c] /\ stage'[c] = stage[c]
  BY DEF Inv, TypeOK, Shell, Children
<1>2. \A c \in Children : stage[c] \notin {"unborn", "exited"} => ChildTable(c)
  BY DEF Inv, Tables
<1>3. fds' \in [{Shell} \cup Children -> [Fds -> Objects]]
  BY DEF Inv, TypeOK
<1> QED BY <1>1, <1>2, <1>3, ChildFrame

-----------------------------------------------------------------------------
(* The shell's steps                                                        *)

(* pipe() takes the next two numbers.                                       *)
LEMMA PipeNumbers ==
  ASSUME Inv, pc = "create"
  PROVE  LET table == fds[Shell]
             r == LowestFree(table)
             w == LowestFree([table EXCEPT ![r] = ReadEnd(num)])
         IN  r = ReadFd(num) /\ w = WriteFd(num)
<1> DEFINE table == fds[Shell]
           between == [table EXCEPT ![ReadFd(num)] = ReadEnd(num)]
<1>1. num \in Pipes
  BY PipelineAssumption DEF Inv, TypeOK, Progress, Pipes
<1>2. table \in [Fds -> Objects] /\ between \in [Fds -> Objects]
  BY <1>1, ObjectsType DEF Inv, TypeOK
<1>3. Inherited(table, 0, num)
  BY DEF Inv, Tables, ShellTable
<1>4. table[ReadFd(num)] = Closed /\ table[WriteFd(num)] = Closed
  BY <1>1, <1>3, FdTypes DEF Inherited
<1>5. \A i \in Pipes : i < num => /\ table[ReadFd(i)] # Closed
                                 /\ table[WriteFd(i)] # Closed
  BY <1>3, FdTypes, ObjectsDiffer DEF Inherited
<1>6. \A g \in 0 .. 2 : table[g] # Closed
  BY <1>3, ObjectsDiffer DEF Inherited
<1>7. ASSUME NEW g \in 0 .. WriteFd(num) - 1, g # ReadFd(num)
      PROVE  g \in Fds /\ table[g] # Closed
  <2>1. g \in Fds /\ g <= 2 * NumProcs
    BY <1>1, FdTypes, PipelineAssumption DEF Fds
  <2>2. CASE g \in 0 .. 2
    BY <2>1, <2>2, <1>6
  <2>3. CASE \E i \in Pipes : g = ReadFd(i) \/ g = WriteFd(i)
    <3>1. PICK i \in Pipes : g = ReadFd(i) \/ g = WriteFd(i)
      BY <2>3
    <3>2. i < num
      BY <3>1, <1>1, <1>7, FdTypes DEF ReadFd, WriteFd
    <3> QED BY <2>1, <3>1, <3>2, <1>5
  <2> QED BY <2>1, <2>2, <2>3, FdCases, PipelineAssumption DEF Fds
<1>8. LowestFree(table) = ReadFd(num)
  <2>1. \A g \in 0 .. ReadFd(num) - 1 : g \in 0 .. WriteFd(num) - 1 /\ g # ReadFd(num)
    BY <1>1, FdTypes DEF ReadFd, WriteFd
  <2>2. \A g \in 0 .. ReadFd(num) - 1 : table[g] # Closed
    BY <2>1, <1>7
  <2> HIDE DEF table
  <2> QED BY <1>1, <1>2, <1>4, <2>2, FdTypes, LowestFreeIs
<1>9. LowestFree(between) = WriteFd(num)
  <2>1. ReadFd(num) \in Fds /\ WriteFd(num) \in Fds /\ ReadFd(num) # WriteFd(num)
    BY <1>1, FdTypes
  <2>2. between[WriteFd(num)] = Closed
    BY <2>1, <1>2, <1>4
  <2>3. \A g \in 0 .. WriteFd(num) - 1 : between[g] # Closed
    <3> SUFFICES ASSUME NEW g \in 0 .. WriteFd(num) - 1 PROVE between[g] # Closed
      OBVIOUS
    <3>1. CASE g = ReadFd(num)
      BY <3>1, <2>1, <1>2, ObjectsDiffer
    <3>2. CASE g # ReadFd(num)
      BY <3>2, <1>7, <1>2
    <3> QED BY <3>1, <3>2
  <2> HIDE DEF between
  <2> QED BY <1>2, <2>1, <2>2, <2>3, LowestFreeIs
<1> QED BY <1>8, <1>9

LEMMA CreateStep == Inv /\ CreatePipe => Inv'
<1> SUFFICES ASSUME Inv, CreatePipe PROVE Inv'
  OBVIOUS
<1> DEFINE table == fds[Shell]
           next == [table EXCEPT ![ReadFd(num)] = ReadEnd(num),
                                 ![WriteFd(num)] = WriteEnd(num)]
<1>1. pc = "create" /\ num \in Pipes /\ num \in Nat
  BY PipelineAssumption DEF CreatePipe, Inv, TypeOK, Progress, Pipes
<1>2. /\ fds' = [fds EXCEPT ![Shell] = next]
      /\ pipes' = [pipes EXCEPT ![num] = <<ReadFd(num), WriteFd(num)>>]
  BY <1>1, PipeNumbers DEF CreatePipe
<1>3. /\ UNCHANGED <<stage, buf, plan, eof, broken>>
      /\ \/ num + 1 < NumProcs - 1 /\ num' = num + 1 /\ pc' = "create"
         \/ num + 1 = NumProcs - 1 /\ num' = 0 /\ pc' = "fork"
  BY <1>1, PipelineAssumption DEF CreatePipe, Pipes
<1>4. table \in [Fds -> Objects] /\ next \in [Fds -> Objects]
  BY <1>1, ObjectsType DEF Inv, TypeOK
<1>5. fds'[Shell] = next /\ fds' = [fds EXCEPT ![Shell] = fds'[Shell]]
  BY <1>2 DEF Inv, TypeOK
<1>6. /\ fds' \in [{Shell} \cup Children -> [Fds -> Objects]]
      /\ \A c \in Children : stage'[c] \notin {"unborn", "exited"} => ChildTable(c)'
  <2> HIDE DEF next
  <2> QED BY <1>3, <1>4, <1>5, OnlyShell
<1>7. Inherited(next, 0, num + 1)
  <2>1. Inherited(table, 0, num)
    BY <1>1 DEF Inv, Tables, ShellTable
  <2>2. \A f \in Fds : f \notin {ReadFd(num), WriteFd(num)} => next[f] = table[f]
    BY <1>4
  <2>3. next[ReadFd(num)] = ReadEnd(num) /\ next[WriteFd(num)] = WriteEnd(num)
    BY <1>1, <1>4, FdTypes
  <2>4. ASSUME NEW i \in Pipes
        PROVE  /\ next[ReadFd(i)] = IF -1 <= i /\ i < num + 1 THEN ReadEnd(i) ELSE Closed
               /\ next[WriteFd(i)] = IF 0 <= i /\ i < num + 1 THEN WriteEnd(i) ELSE Closed
    <3>1. CASE i = num
      BY <3>1, <2>3, <1>1
    <3>2. CASE i # num
      <4>1. next[ReadFd(i)] = table[ReadFd(i)] /\ next[WriteFd(i)] = table[WriteFd(i)]
        BY <3>2, <2>2, <1>1, FdTypes
      <4>2. i < num <=> i < num + 1
        BY <3>2, <1>1, FdTypes
      <4> HIDE DEF next, table
      <4> QED BY <4>1, <4>2, <2>1 DEF Inherited
    <3> QED BY <3>1, <3>2
  <2>5. next[0] = Tty /\ next[1] = Tty /\ next[2] = Tty
        /\ \A f \in Fds : f > 2 * NumProcs => next[f] = Closed
    <3>1. \A f \in Fds : f \in 0 .. 2 \/ f > 2 * NumProcs
            => f \notin {ReadFd(num), WriteFd(num)}
      BY <1>1, FdTypes, PipelineAssumption DEF Fds
    <3> HIDE DEF next, table
    <3> QED BY <3>1, <2>1, <2>2, FdTypes DEF Inherited
  <2> QED BY <2>4, <2>5 DEF Inherited
<1>8. TypeOK'
  BY <1>1, <1>2, <1>3, <1>6, FdTypes, PipelineAssumption DEF Inv, TypeOK, plan
<1>9. Progress'
  BY <1>1, <1>3, PipelineAssumption DEF Inv, TypeOK, Progress, Forked, Children
<1>10. Numbered'
  <2>1. \A i \in Pipes : i < num + 1 => pipes'[i] = <<ReadFd(i), WriteFd(i)>>
    BY <1>1, <1>2 DEF Inv, TypeOK, Numbered, Pipes
  <2>2. \A c \in Children : stage'[c] = "unborn"
    BY <1>1, <1>3 DEF Inv, Progress
  <2>3. pc' = "create" => \A i \in Pipes : i < num' => pipes'[i] = <<ReadFd(i), WriteFd(i)>>
    BY <2>1, <1>3
  <2>4. pc' = "fork" => \A i \in Pipes : pipes'[i] = <<ReadFd(i), WriteFd(i)>>
    BY <2>1, <1>3, FdTypes
  <2> QED BY <2>2, <2>3, <2>4, <1>3 DEF Numbered
<1>11. ShellTable'
  BY <1>3, <1>5, <1>7 DEF ShellTable
<1> QED BY <1>6, <1>8, <1>9, <1>10, <1>11 DEF Inv, Tables

(* Giving up: the table no longer matters, the children keep theirs.        *)
LEMMA GivenUp ==
  ASSUME Inv, UNCHANGED <<num, pipes, stage, buf, plan, eof, broken>>,
         pc' \in {"leaving", "gone"},
         fds' = [fds EXCEPT ![Shell] = fds'[Shell]], fds'[Shell] \in [Fds -> Objects]
  PROVE  Inv'
<1>1. /\ fds' \in [{Shell} \cup Children -> [Fds -> Objects]]
      /\ \A c \in Children : stage'[c] \notin {"unborn", "exited"} => ChildTable(c)'
  BY OnlyShell
<1>2. TypeOK'
  BY <1>1 DEF Inv, TypeOK, plan
<1>3. Progress' /\ ShellTable'
  BY DEF Progress, ShellTable
<1>4. Numbered'
  BY DEF Inv, Numbered
<1> QED BY <1>1, <1>2, <1>3, <1>4 DEF Inv, Tables

LEMMA FailureSteps == Inv /\ (CreateFails \/ ForkFails \/ Leave) => Inv'
<1> SUFFICES ASSUME Inv, CreateFails \/ ForkFails \/ Leave PROVE Inv'
  OBVIOUS
<1>1. fds \in [{Shell} \cup Children -> [Fds -> Objects]]
  BY DEF Inv, TypeOK
<1>2. CASE CreateFails
  <2>1. fds' = [fds EXCEPT ![Shell] = fds'[Shell]] /\ fds'[Shell] \in [Fds -> Objects]
    BY <1>1, <1>2 DEF CreateFails
  <2> QED BY <1>2, <2>1, GivenUp DEF CreateFails
<1>3. CASE ForkFails
  <2>1. ClosePipeEnds(fds[Shell], NumProcs) \in [Fds -> Objects]
    BY <1>1, CloseType DEF ClosePipeEnds
  <2>2. fds' = [fds EXCEPT ![Shell] = fds'[Shell]] /\ fds'[Shell] \in [Fds -> Objects]
    BY <1>1, <1>3, <2>1 DEF ForkFails
  <2> QED BY <1>3, <2>2, GivenUp DEF ForkFails
<1>4. CASE Leave
  <2>1. fds' = [fds EXCEPT ![Shell] = fds'[Shell]] /\ fds'[Shell] \in [Fds -> Objects]
    BY <1>1, <1>4, StdFdsType DEF Leave
  <2> QED BY <1>4, <2>1, GivenUp DEF Leave
<1> QED BY <1>2, <1>3, <1>4

LEMMA ForkStep == Inv /\ Fork => Inv'
<1> SUFFICES ASSUME Inv, Fork PROVE Inv'
  OBVIOUS
<1> USE DEF Inv
<1>1. /\ pc = "fork" /\ pc' = "parent" /\ num \in Children
      /\ fds' = [fds EXCEPT ![num] = fds[Shell]]
      /\ stage' = [stage EXCEPT ![num] = "stdin"]
      /\ UNCHANGED <<num, pipes, buf, plan, eof, broken>>
  BY PipelineAssumption DEF Fork, TypeOK, Progress, Children
<1>2. fds[Shell] \in [Fds -> Objects]
      /\ Inherited(fds[Shell], num, NumProcs - 1)
  BY <1>1 DEF TypeOK, Tables, ShellTable
<1>3. TypeOK'
  BY <1>1, <1>2 DEF TypeOK, Stages, plan
<1>4. Progress'
  BY <1>1 DEF Progress, Forked, TypeOK, Children
<1>5. Numbered'
  BY <1>1 DEF Numbered
<1>6. fds'[Shell] = fds[Shell] /\ Shell # num
  BY <1>1 DEF TypeOK, Shell, Children
<1>7. ShellTable'
  BY <1>1, <1>2, <1>6 DEF ShellTable, Inherited
<1>8. fds'[num] = fds[Shell] /\ stage'[num] = "stdin"
  BY <1>1 DEF TypeOK
<1>9. ChildTable(num)'
  <2>1. \A i \in Pipes :
          /\ KeepsRead(num, i)' = (num - 1 <= i /\ i < NumProcs - 1)
          /\ KeepsWrite(num, i)' = (num <= i /\ i < NumProcs - 1)
    BY <1>1, <1>8, FdTypes DEF KeepsRead, KeepsWrite
  <2> QED BY <1>1, <1>2, <1>8, <2>1 DEF ChildTable, Inherited
<1>10. ASSUME NEW c \in Children, c # num, stage'[c] \notin {"unborn", "exited"}
       PROVE  ChildTable(c)'
  <2>1. fds'[c] = fds[c] /\ stage'[c] = stage[c]
    BY <1>1, <1>10 DEF TypeOK
  <2>2. ChildTable(c)
    BY <1>10, <2>1 DEF Tables
  <2> QED BY <1>1, <2>1, <2>2, ChildFrame
<1>11. \A c \in Children : stage'[c] \notin {"unborn", "exited"} => ChildTable(c)'
  <2> SUFFICES ASSUME NEW c \in Children, stage'[c] \notin {"unborn", "exited"}
               PROVE  ChildTable(c)'
    OBVIOUS
  <2>1. CASE c = num
    BY <2>1, <1>9, <1>1 DEF ChildTable, KeepsRead, KeepsWrite, Input, Output
  <2>2. CASE c # num
    BY <2>2, <1>10
  <2> QED BY <2>1, <2>2
<1> QED BY <1>3, <1>4, <1>5, <1>7, <1>11 DEF Tables

LEMMA ParentStep == Inv /\ ParentSetup => Inv'
<1> SUFFICES ASSUME Inv, ParentSetup PROVE Inv'
  OBVIOUS
<1> DEFINE S == ReadDone(num) \cup WriteDone(num)
           next == Close(fds[Shell], S)
<1>1. /\ pc = "parent" /\ num \in Children /\ num \in Nat /\ num' = num + 1
      /\ fds' = [fds EXCEPT ![Shell] = next]
      /\ pc' = IF num = NumProcs - 1 THEN "wait" ELSE "fork"
      /\ UNCHANGED <<pipes, stage, buf, plan, eof, broken>>
  BY PipelineAssumption DEF ParentSetup, Inv, TypeOK, Progress, Children
<1>2. fds[Shell] \in [Fds -> Objects] /\ Inherited(fds[Shell], num, NumProcs - 1)
  BY <1>1 DEF Inv, TypeOK, Tables, ShellTable
<1>3. next \in [Fds -> Objects]
  BY <1>2, CloseType
<1>4. fds'[Shell] = next /\ fds' = [fds EXCEPT ![Shell] = fds'[Shell]]
  BY <1>1 DEF Inv, TypeOK
<1>5. /\ fds' \in [{Shell} \cup Children -> [Fds -> Objects]]
      /\ \A c \in Children : stage'[c] \notin {"unborn", "exited"} => ChildTable(c)'
  <2> HIDE DEF next
  <2> QED BY <1>1, <1>3, <1>4, OnlyShell
<1>6. \A f \in Fds : f \in S <=> \/ num - 1 \in Pipes /\ f = ReadFd(num - 1)
                                 \/ num \in Pipes /\ f = WriteFd(num)
  <2>1. \A i \in Pipes : pipes[i] = <<ReadFd(i), WriteFd(i)>>
    BY <1>1 DEF Inv, Numbered
  <2>0. /\ num > 0 <=> num - 1 \in Pipes
        /\ num < NumProcs - 1 <=> num \in Pipes
    BY <1>1, PipelineAssumption DEF Pipes, Children
  <2>2. ReadDone(num) = IF num - 1 \in Pipes THEN {ReadFd(num - 1)} ELSE {}
    BY <2>0, <2>1 DEF ReadDone
  <2>3. WriteDone(num) = IF num \in Pipes THEN {WriteFd(num)} ELSE {}
    BY <2>0, <2>1 DEF WriteDone
  <2>4. \A f : f \in ReadDone(num) <=> num - 1 \in Pipes /\ f = ReadFd(num - 1)
    BY <2>2
  <2>5. \A f : f \in WriteDone(num) <=> num \in Pipes /\ f = WriteFd(num)
    BY <2>3
  <2>6. \A f : f \in S <=> f \in ReadDone(num) \/ f \in WriteDone(num)
    OBVIOUS
  <2> HIDE DEF S
  <2> QED BY <2>4, <2>5, <2>6
<1>7. Inherited(next, num + 1, NumProcs - 1)
  <2>1. \A f \in Fds : next[f] = IF f \in S THEN Closed ELSE fds[Shell][f]
    BY DEF Close
  <2>2. \A i \in Pipes : /\ ReadFd(i) \in S <=> i = num - 1
                         /\ WriteFd(i) \in S <=> i = num
    BY <1>1, <1>6, FdTypes
  <2>3. \A f \in Fds : f \in 0 .. 2 \/ f > 2 * NumProcs => f \notin S
    BY <1>6, FdTypes, PipelineAssumption DEF Fds
  <2> HIDE DEF S, next
  <2>4. ASSUME NEW i \in Pipes
        PROVE  /\ next[ReadFd(i)] = IF num <= i /\ i < NumProcs - 1
                                      THEN ReadEnd(i) ELSE Closed
               /\ next[WriteFd(i)] = IF num + 1 <= i /\ i < NumProcs - 1
                                       THEN WriteEnd(i) ELSE Closed
    <3>1. /\ i \in Nat /\ num \in Nat
          /\ num <= i <=> (num - 1 <= i /\ i # num - 1)
          /\ num + 1 <= i <=> (num <= i /\ i # num)
      BY <1>1, FdTypes
    <3>2. /\ fds[Shell][ReadFd(i)] = IF num - 1 <= i THEN ReadEnd(i) ELSE Closed
          /\ fds[Shell][WriteFd(i)] = IF num <= i THEN WriteEnd(i) ELSE Closed
      BY <1>2, FdTypes DEF Inherited
    <3>3. /\ next[ReadFd(i)] = IF i = num - 1 THEN Closed ELSE fds[Shell][ReadFd(i)]
          /\ next[WriteFd(i)] = IF i = num THEN Closed ELSE fds[Shell][WriteFd(i)]
      <4>1. ReadFd(i) \in Fds /\ WriteFd(i) \in Fds
        BY FdTypes
      <4> QED BY <4>1, <2>1, <2>2
    <3>4. i < NumProcs - 1
      BY FdTypes
    <3> QED BY <3>1, <3>2, <3>3, <3>4
  <2>5. next[0] = Tty /\ next[1] = Tty /\ next[2] = Tty
        /\ \A f \in Fds : f > 2 * NumProcs => next[f] = Closed
    BY <1>2, <2>1, <2>3, FdTypes DEF Inherited
  <2>6. (num + 1) - 1 = num
    BY <1>1
  <2>7. \A i \in Pipes :
          /\ next[ReadFd(i)] = IF (num + 1) - 1 <= i /\ i < NumProcs - 1
                                THEN ReadEnd(i) ELSE Closed
          /\ next[WriteFd(i)] = IF num + 1 <= i /\ i < NumProcs - 1
                                 THEN WriteEnd(i) ELSE Closed
    BY <2>4, <2>6
  <2> HIDE DEF S, next
  <2> QED BY <2>5, <2>7 DEF Inherited
<1>8. TypeOK'
  <2>1. num' \in 0 .. NumProcs /\ pc' \in {"fork", "wait"}
    BY <1>1, PipelineAssumption DEF Children
  <2> HIDE DEF next
  <2> QED BY <1>1, <1>5, <2>1 DEF Inv, TypeOK, plan
<1>9. Progress'
  BY <1>1, PipelineAssumption DEF Inv, TypeOK, Progress, Forked, Children
<1>10. Numbered'
  BY <1>1 DEF Inv, Numbered
<1>11. ShellTable'
  <2> HIDE DEF next
  <2> QED BY <1>1, <1>4, <1>7 DEF ShellTable
<1> QED BY <1>5, <1>8, <1>9, <1>10, <1>11 DEF Inv, Tables

LEMMA CleanupStep == Inv /\ Cleanup => Inv'
<1> SUFFICES ASSUME Inv, Cleanup PROVE Inv'
  OBVIOUS
<1>1. fds \in [{Shell} \cup Children -> [Fds -> Objects]]
  BY DEF Inv, TypeOK
<1>2. ClosePipeEnds(fds[Shell], LocalNumProcs) = fds[Shell]
  <2>1. 0 .. LocalNumProcs - 2 = {}
    BY DEF LocalNumProcs
  <2> QED BY <1>1, <2>1 DEF ClosePipeEnds, Close
<1>3. fds' = fds
  BY <1>1, <1>2 DEF Cleanup
<1>4. /\ fds' = [fds EXCEPT ![Shell] = fds'[Shell]] /\ fds'[Shell] \in [Fds -> Objects]
  BY <1>1, <1>3
<1>5. \A c \in Children : stage'[c] \notin {"unborn", "exited"} => ChildTable(c)'
  BY <1>4, OnlyShell DEF Cleanup
<1>6. TypeOK' /\ Progress' /\ Numbered' /\ ShellTable'
  BY <1>3 DEF Inv, Cleanup, TypeOK, Progress, Forked, Numbered, Tables, ShellTable, Inherited, plan
<1> QED BY <1>5, <1>6 DEF Inv, Tables

-----------------------------------------------------------------------------
(* The children's steps                                                     *)

LEMMA ChildFacts ==
  ASSUME Inv, NEW c \in Children, stage[c] \notin {"unborn", "exited"}
  PROVE  /\ ChildTable(c)
         /\ fds[c] \in [Fds -> Objects]
         /\ \A i \in Pipes : pipes[i] = <<ReadFd(i), WriteFd(i)>>
         /\ \E f \in Fds : fds[c][f] = Closed
         /\ fds[c][0] # Closed /\ fds[c][1] # Closed
         /\ c \in Nat /\ (c > 0 => c - 1 \in Pipes) /\ (c < NumProcs - 1 => c \in Pipes)
<1>1. ChildTable(c) /\ fds[c] \in [Fds -> Objects]
  BY DEF Inv, Tables, TypeOK
<1>2. \A i \in Pipes : pipes[i] = <<ReadFd(i), WriteFd(i)>>
  BY DEF Inv, Numbered
<1>3. 2 * NumProcs + 1 \in Fds /\ 2 * NumProcs + 1 > 2 * NumProcs
  BY FdTypes, PipelineAssumption
<1>4. fds[c][2 * NumProcs + 1] = Closed
  BY <1>1, <1>3 DEF ChildTable
<1>5. fds[c][0] # Closed /\ fds[c][1] # Closed
  BY <1>1, InputTypes, ObjectsDiffer DEF ChildTable
<1>6. c \in Nat /\ (c > 0 => c - 1 \in Pipes) /\ (c < NumProcs - 1 => c \in Pipes)
  BY PipelineAssumption DEF Children, Pipes
<1> QED BY <1>1, <1>2, <1>3, <1>4, <1>5, <1>6

LEMMA StdinStep ==
  ASSUME Inv, NEW c \in Children, ChildStdinSetup(c)
  PROVE  Inv'
<1> DEFINE t == fds[c]
<1>1. /\ stage[c] = "stdin" /\ stage' = [stage EXCEPT ![c] = "stdout"]
      /\ UNCHANGED <<pc, num, pipes, buf, plan, eof, broken>>
  BY DEF ChildStdinSetup
<1>2. /\ ChildTable(c) /\ t \in [Fds -> Objects]
      /\ \A i \in Pipes : pipes[i] = <<ReadFd(i), WriteFd(i)>>
      /\ \E f \in Fds : t[f] = Closed
      /\ t[0] # Closed /\ t[1] # Closed
      /\ c \in Nat /\ (c > 0 => c - 1 \in Pipes)
  BY <1>1, ChildFacts
<1>3. stage'[c] = "stdout" /\ stage' = [stage EXCEPT ![c] = stage'[c]]
  BY <1>1 DEF Inv, TypeOK
<1>4. fds' = [fds EXCEPT ![c] = fds'[c]]
  BY DEF ChildStdinSetup, Inv, TypeOK
<1>5. fds'[c] = IF c \in infile THEN [t EXCEPT ![0] = File]
                ELSE IF c > 0 THEN MoveTo(t, ReadFd(c - 1), 0) ELSE t
  <2>1. c \in infile => fds'[c] = MoveTo([t EXCEPT ![LowestFree(t)] = File], LowestFree(t), 0)
    BY DEF ChildStdinSetup, Inv, TypeOK, Stdin
  <2>2. c \in infile => fds'[c] = [t EXCEPT ![0] = File]
    BY <1>2, <2>1, RedirectKeepsRest DEF Stdin, Stdout
  <2>3. c \notin infile /\ c > 0 => fds'[c] = MoveTo(t, pipes[c - 1][1], 0)
    BY DEF ChildStdinSetup, Inv, TypeOK, Stdin
  <2>4. c \notin infile /\ ~(c > 0) => fds'[c] = t
    BY DEF ChildStdinSetup, Inv, TypeOK
  <2> QED BY <1>2, <2>2, <2>3, <2>4
<1> HIDE DEF t
<1>6. fds'[c] \in [Fds -> Objects]
  BY <1>2, <1>5, FdTypes, ObjectsType DEF MoveTo, Close
<1>7. fds'[c][0] = Input(c)'
  <2>1. c \notin infile /\ c > 0 => t[ReadFd(c - 1)] = ReadEnd(c - 1)
    BY <1>1, <1>2 DEF ChildTable, KeepsRead, t
  <2>2. c \notin infile /\ c > 0 => MoveTo(t, ReadFd(c - 1), 0)[0] = ReadEnd(c - 1)
    BY <1>2, <2>1, FdTypes DEF MoveTo, Close
  <2>3. c \notin infile /\ ~(c > 0) => t[0] = Tty
    BY <1>1, <1>2 DEF ChildTable, t
  <2>4. Input(c)' = Input(c)
    BY <1>1 DEF Input, plan
  <2> QED BY <1>2, <1>5, <2>2, <2>3, <2>4, FdTypes DEF Input
<1>8. \A f \in Fds : f # 0 =>
        fds'[c][f] = IF c \notin infile /\ c > 0 /\ f = ReadFd(c - 1) THEN Closed ELSE t[f]
  BY <1>2, <1>5, FdTypes DEF MoveTo, Close
<1>9. ChildTable(c)'
  <2>1. fds'[c][1] = Tty /\ fds'[c][2] = Tty
    BY <1>1, <1>2, <1>8, FdTypes DEF ChildTable, t
  <2>2. ASSUME NEW i \in Pipes
        PROVE  /\ fds'[c][ReadFd(i)] = IF KeepsRead(c, i)' THEN ReadEnd(i) ELSE Closed
               /\ fds'[c][WriteFd(i)] = IF KeepsWrite(c, i)' THEN WriteEnd(i) ELSE Closed
    <3>1. KeepsRead(c, i)' <=> KeepsRead(c, i) /\ ~(c \notin infile /\ i = c - 1)
      BY <1>1, <1>3 DEF KeepsRead, plan
    <3>2. KeepsWrite(c, i)' <=> KeepsWrite(c, i)
      BY <1>1, <1>3 DEF KeepsWrite, plan
    <3>3. /\ t[ReadFd(i)] = IF KeepsRead(c, i) THEN ReadEnd(i) ELSE Closed
          /\ t[WriteFd(i)] = IF KeepsWrite(c, i) THEN WriteEnd(i) ELSE Closed
      BY <1>1, <1>2 DEF ChildTable, t
    <3>4. /\ ReadFd(i) \in Fds /\ WriteFd(i) \in Fds /\ ReadFd(i) # 0 /\ WriteFd(i) # 0
          /\ c > 0 => (ReadFd(i) = ReadFd(c - 1) <=> i = c - 1)
          /\ c > 0 => WriteFd(i) # ReadFd(c - 1)
          /\ i = c - 1 => c > 0
      BY <1>2, FdTypes
    <3> QED BY <1>8, <3>1, <3>2, <3>3, <3>4
  <2>3. \A f \in Fds : f > 2 * NumProcs => fds'[c][f] = Closed
    <3>1. \A f \in Fds : f > 2 * NumProcs => f # 0 /\ (c > 0 => f # ReadFd(c - 1))
      BY <1>2, FdTypes, PipelineAssumption DEF Fds
    <3>2. \A f \in Fds : f > 2 * NumProcs => t[f] = Closed
      BY <1>2 DEF ChildTable, t
    <3> QED BY <1>8, <3>1, <3>2
  <2> QED BY <1>3, <1>7, <2>1, <2>2, <2>3 DEF ChildTable
<1>10. buf' \in [Pipes -> 0 .. Capacity] /\ eof' \subseteq Children /\ broken' \subseteq Children
  BY <1>1 DEF Inv, TypeOK
<1> QED BY <1>1, <1>3, <1>4, <1>6, <1>9, <1>10, OnlyChild DEF Stages

LEMMA StdoutStep ==
  ASSUME Inv, NEW c \in Children, ChildStdoutSetup(c)
  PROVE  Inv'
<1> DEFINE t == fds[c]
<1>1. /\ stage[c] = "stdout" /\ stage' = [stage EXCEPT ![c] = "close"]
      /\ UNCHANGED <<pc, num, pipes, buf, plan, eof, broken>>
  BY DEF ChildStdoutSetup
<1>2. /\ ChildTable(c) /\ t \in [Fds -> Objects]
      /\ \A i \in Pipes : pipes[i] = <<ReadFd(i), WriteFd(i)>>
      /\ \E f \in Fds : t[f] = Closed
      /\ t[0] # Closed /\ t[1] # Closed
      /\ c \in Nat /\ (c < NumProcs - 1 => c \in Pipes)
  BY <1>1, ChildFacts
<1>3. stage'[c] = "close" /\ stage' = [stage EXCEPT ![c] = stage'[c]]
  BY <1>1 DEF Inv, TypeOK
<1>4. fds' = [fds EXCEPT ![c] = fds'[c]]
  BY DEF ChildStdoutSetup, Inv, TypeOK
<1>5. fds'[c] = IF c \in outfile THEN [t EXCEPT ![1] = File]
                ELSE IF c < NumProcs - 1 THEN MoveTo(t, WriteFd(c), 1) ELSE t
  <2>1. c \in outfile => fds'[c] = MoveTo([t EXCEPT ![LowestFree(t)] = File], LowestFree(t), 1)
    BY DEF ChildStdoutSetup, Inv, TypeOK, Stdout
  <2>2. c \in outfile => fds'[c] = [t EXCEPT ![1] = File]
    BY <1>2, <2>1, RedirectKeepsRest DEF Stdin, Stdout
  <2>3. c \notin outfile /\ c < NumProcs - 1 => fds'[c] = MoveTo(t, pipes[c][2], 1)
    BY DEF ChildStdoutSetup, Inv, TypeOK, Stdout
  <2>4. c \notin outfile /\ ~(c < NumProcs - 1) => fds'[c] = t
    BY DEF ChildStdoutSetup, Inv, TypeOK
  <2> QED BY <1>2, <2>2, <2>3, <2>4
<1> HIDE DEF t
<1>6. fds'[c] \in [Fds -> Objects]
  BY <1>2, <1>5, FdTypes, ObjectsType DEF MoveTo, Close
<1>7. fds'[c][1] = Output(c)'
  <2>1. c \notin outfile /\ c < NumProcs - 1 => t[WriteFd(c)] = WriteEnd(c)
    BY <1>1, <1>2 DEF ChildTable, KeepsWrite, t
  <2>2. c \notin outfile /\ c < NumProcs - 1 => MoveTo(t, WriteFd(c), 1)[1] = WriteEnd(c)
    BY <1>2, <2>1, FdTypes DEF MoveTo, Close
  <2>3. c \notin outfile /\ ~(c < NumProcs - 1) => t[1] = Tty
    BY <1>1, <1>2 DEF ChildTable, t
  <2>4. Output(c)' = Output(c)
    BY <1>1 DEF Output, plan
  <2> QED BY <1>2, <1>5, <2>2, <2>3, <2>4, FdTypes DEF Output
<1>8. \A f \in Fds : f # 1 =>
        fds'[c][f] = IF c \notin outfile /\ c < NumProcs - 1 /\ f = WriteFd(c)
                     THEN Closed ELSE t[f]
  BY <1>2, <1>5, FdTypes DEF MoveTo, Close
<1>9. ChildTable(c)'
  <2>1. fds'[c][0] = Input(c)' /\ fds'[c][2] = Tty
    <3>1. Input(c)' = Input(c)
      BY <1>1 DEF Input, plan
    <3> QED BY <3>1, <1>1, <1>2, <1>8, FdTypes DEF ChildTable, t
  <2>2. ASSUME NEW i \in Pipes
        PROVE  /\ fds'[c][ReadFd(i)] = IF KeepsRead(c, i)' THEN ReadEnd(i) ELSE Closed
               /\ fds'[c][WriteFd(i)] = IF KeepsWrite(c, i)' THEN WriteEnd(i) ELSE Closed
    <3>1. KeepsWrite(c, i)' <=> KeepsWrite(c, i) /\ ~(c \notin outfile /\ i = c)
      BY <1>1, <1>3 DEF KeepsWrite, plan
    <3>2. KeepsRead(c, i)' <=> KeepsRead(c, i)
      BY <1>1, <1>3 DEF KeepsRead, plan
    <3>3. /\ t[ReadFd(i)] = IF KeepsRead(c, i) THEN ReadEnd(i) ELSE Closed
          /\ t[WriteFd(i)] = IF KeepsWrite(c, i) THEN WriteEnd(i) ELSE Closed
      BY <1>1, <1>2 DEF ChildTable, t
    <3>4. /\ ReadFd(i) \in Fds /\ WriteFd(i) \in Fds /\ ReadFd(i) # 1 /\ WriteFd(i) # 1
          /\ c < NumProcs - 1 => (WriteFd(i) = WriteFd(c) <=> i = c)
          /\ c < NumProcs - 1 => ReadFd(i) # WriteFd(c)
          /\ i = c => c < NumProcs - 1
      BY <1>2, FdTypes
    <3> QED BY <1>8, <3>1, <3>2, <3>3, <3>4
  <2>3. \A f \in Fds : f > 2 * NumProcs => fds'[c][f] = Closed
    <3>1. \A f \in Fds : f > 2 * NumProcs => f # 1 /\ (c < NumProcs - 1 => f # WriteFd(c))
      BY <1>2, FdTypes, PipelineAssumption DEF Fds
    <3>2. \A f \in Fds : f > 2 * NumProcs => t[f] = Closed
      BY <1>2 DEF ChildTable, t
    <3> QED BY <1>8, <3>1, <3>2
  <2> QED BY <1>3, <1>7, <2>1, <2>2, <2>3 DEF ChildTable
<1>10. buf' \in [Pipes -> 0 .. Capacity] /\ eof' \subseteq Children /\ broken' \subseteq Children
  BY <1>1 DEF Inv, TypeOK
<1> QED BY <1>1, <1>3, <1>4, <1>6, <1>9, <1>10, OnlyChild DEF Stages

(* close_pipe_ends(pipes, num_procs) closes exactly the numbers of pipes.   *)
LEMMA EveryEndClosed ==
  ASSUME NEW table \in [Fds -> Objects],
         \A i \in Pipes : pipes[i] = <<ReadFd(i), WriteFd(i)>>
  PROVE  \A f \in Fds : ClosePipeEnds(table, NumProcs)[f] =
           IF \E i \in Pipes : f = ReadFd(i) \/ f = WriteFd(i) THEN Closed ELSE table[f]
<1> DEFINE S == UNION {{pipes[i][1], pipes[i][2]} : i \in 0 .. NumProcs - 2}
<1>1. \A f : f \in S <=> \E i \in Pipes : f = pipes[i][1] \/ f = pipes[i][2]
  BY DEF Pipes
<1>2. \A f : f \in S <=> \E i \in Pipes : f = ReadFd(i) \/ f = WriteFd(i)
  BY <1>1
<1>3. ClosePipeEnds(table, NumProcs) = Close(table, S)
  BY DEF ClosePipeEnds
<1> HIDE DEF S
<1> QED BY <1>2, <1>3 DEF Close

LEMMA ExecStep ==
  ASSUME Inv, NEW c \in Children, ExecCommand(c)
  PROVE  Inv'
<1>1. /\ stage[c] = "close" /\ stage' = [stage EXCEPT ![c] = "running"]
      /\ UNCHANGED <<pc, num, pipes, buf, plan, eof, broken>>
  BY DEF ExecCommand
<1>2. /\ ChildTable(c) /\ fds[c] \in [Fds -> Objects]
      /\ \A i \in Pipes : pipes[i] = <<ReadFd(i), WriteFd(i)>>
  BY <1>1, ChildFacts
<1>3. stage'[c] = "running" /\ stage' = [stage EXCEPT ![c] = stage'[c]]
  BY <1>1 DEF Inv, TypeOK
<1>4. /\ fds' = [fds EXCEPT ![c] = fds'[c]]
      /\ fds'[c] = ClosePipeEnds(fds[c], NumProcs)
  BY DEF ExecCommand, Inv, TypeOK
<1>5. fds'[c] \in [Fds -> Objects]
  BY <1>2, <1>4, CloseType DEF ClosePipeEnds
<1>6. \A f \in Fds : fds'[c][f] =
        IF \E i \in Pipes : f = ReadFd(i) \/ f = WriteFd(i) THEN Closed ELSE fds[c][f]
  BY <1>2, <1>4, EveryEndClosed
<1>7. ChildTable(c)'
  <2>1. \A f \in Fds : f \in 0 .. 2 \/ f > 2 * NumProcs =>
          ~ \E i \in Pipes : f = ReadFd(i) \/ f = WriteFd(i)
    BY FdTypes, PipelineAssumption DEF Fds
  <2>2. \A f \in Fds : f \in 0 .. 2 \/ f > 2 * NumProcs => fds'[c][f] = fds[c][f]
    BY <1>6, <2>1
  <2>3. \A i \in Pipes : fds'[c][ReadFd(i)] = Closed /\ fds'[c][WriteFd(i)] = Closed
    BY <1>6, FdTypes
  <2>4. Input(c)' = Input(c) /\ Output(c)' = Output(c)
    BY <1>1 DEF Input, Output, plan
  <2>5. /\ fds'[c][0] = Input(c)' /\ fds'[c][1] = Output(c)' /\ fds'[c][2] = Tty
        /\ \A f \in Fds : f > 2 * NumProcs => fds'[c][f] = Closed
    BY <1>1, <1>2, <2>2, <2>4, FdTypes DEF ChildTable
  <2> QED BY <1>3, <2>3, <2>5 DEF ChildTable
<1>8. buf' \in [Pipes -> 0 .. Capacity] /\ eof' \subseteq Children /\ broken' \subseteq Children
  BY <1>1 DEF Inv, TypeOK
<1> QED BY <1>1, <1>3, <1>4, <1>5, <1>7, <1>8, OnlyChild DEF Stages

LEMMA ExitStep ==
  ASSUME Inv, NEW c \in Children, Exit(c) \/ Sigpipe(c)
  PROVE  Inv'
<1>1. /\ stage[c] \notin {"unborn", "exited"} /\ UNCHANGED <<pc, num, pipes, buf, plan, eof>>
      /\ stage' = [stage EXCEPT ![c] = "exited"] /\ fds' = [fds EXCEPT ![c] = NoFds]
  BY DEF Exit, Sigpipe, Exits
<1>2. stage'[c] = "exited" /\ fds'[c] = NoFds
  BY <1>1 DEF Inv, TypeOK
<1>3. broken' \subseteq Children
  BY DEF Exit, Sigpipe, Inv, TypeOK
<1>4. buf' \in [Pipes -> 0 .. Capacity] /\ eof' \subseteq Children
  BY <1>1 DEF Inv, TypeOK
<1> QED BY <1>1, <1>2, <1>3, <1>4, StdFdsType, OnlyChild DEF Stages

(* Writing and reading move no descriptor.                                  *)
LEMMA DataStep ==
  ASSUME Inv, NEW c \in Children, Write(c) \/ Read(c) \/ ReadEof(c)
  PROVE  Inv'
<1>1. /\ UNCHANGED <<pc, num, pipes, fds, stage, plan, broken>>
      /\ stage[c] = "running"
  BY DEF Write, Read, ReadEof
<1>2. buf' \in [Pipes -> 0 .. Capacity]
  <2>1. CASE Write(c)
    BY <2>1, PipelineAssumption DEF Write, Inv, TypeOK
  <2>2. CASE Read(c)
    BY <2>2, PipelineAssumption DEF Read, Inv, TypeOK
  <2>3. CASE ReadEof(c)
    BY <2>3 DEF ReadEof, Inv, TypeOK
  <2> QED BY <2>1, <2>2, <2>3
<1>3. eof' \subseteq Children /\ broken' \subseteq Children
  BY DEF Write, Read, ReadEof, Inv, TypeOK
<1>4. /\ stage' = [stage EXCEPT ![c] = stage'[c]] /\ fds' = [fds EXCEPT ![c] = fds'[c]]
      /\ stage'[c] = "running" /\ fds'[c] = fds[c] /\ fds[c] \in [Fds -> Objects]
  BY <1>1 DEF Inv, TypeOK
<1>5. ChildTable(c)
  BY <1>1, ChildFacts
<1>6. ChildTable(c)'
  BY <1>1, <1>5, ChildFrame
<1> QED BY <1>1, <1>2, <1>3, <1>4, <1>6, OnlyChild DEF Stages

LEMMA StutterStep == Inv /\ UNCHANGED vars => Inv'
<1> SUFFICES ASSUME Inv, UNCHANGED vars PROVE Inv'
  OBVIOUS
<1> USE DEF vars, plan
<1>1. TypeOK' /\ Progress' /\ Numbered'
  BY DEF Inv, TypeOK, Progress, Forked, Numbered
<1>2. ShellTable'
  BY DEF Inv, Tables, ShellTable, Inherited
<1>3. \A c \in Children : stage'[c] \notin {"unborn", "exited"} => ChildTable(c)'
  BY ChildFrame DEF Inv, Tables
<1> QED BY <1>1, <1>2, <1>3 DEF Inv, Tables

LEMMA NextInv == Inv /\ [Next]_vars => Inv'
<1> SUFFICES ASSUME Inv, [Next]_vars PROVE Inv'
  OBVIOUS
<1>1. CASE ShellStep
  BY <1>1, CreateStep, FailureSteps, ForkStep, ParentStep, CleanupStep DEF ShellStep
<1>2. ASSUME NEW c \in Children, SetupStep(c) PROVE Inv'
  BY <1>2, StdinStep, StdoutStep, ExecStep DEF SetupStep
<1>3. ASSUME NEW c \in Children,
             Exit(c) \/ Write(c) \/ Sigpipe(c) \/ Read(c) \/ ReadEof(c)
      PROVE  Inv'
  BY <1>3, ExitStep, DataStep
<1>4. CASE Terminated \/ UNCHANGED vars
  BY <1>4, StutterStep DEF Terminated
<1> QED BY <1>1, <1>2, <1>3, <1>4 DEF Next

LEMMA Invariance == Spec => []Inv
BY InitInv, NextInv, PTL DEF Spec

-----------------------------------------------------------------------------
(* The variables keep their types and LowestFree always finds a number: for *)
(* any pipeline whose descriptors fit the table (process_control.c:47-56).  *)
THEOREM TypeCorrect == Spec => []TypeOK
<1>1. Inv => TypeOK
  BY DEF Inv
<1> QED BY <1>1, Invariance, PTL

(* Every running command has exactly the descriptors its place in the       *)
(* pipeline gives it (process_control.c:111-139, io_redirection.c:14-53).   *)
THEOREM RunningIsWired == Spec => []WiredAsTyped
<1>1. ASSUME Inv PROVE WiredAsTyped
  <2> SUFFICES ASSUME NEW c \in Children, stage[c] = "running"
               PROVE  fds[c] = [StdFds EXCEPT ![Stdin] = Input(c), ![Stdout] = Output(c)]
    BY DEF WiredAsTyped
  <2> DEFINE wired == [StdFds EXCEPT ![Stdin] = Input(c), ![Stdout] = Output(c)]
  <2>1. ChildTable(c) /\ fds[c] \in [Fds -> Objects]
    BY <1>1, ChildFacts
  <2>2. wired \in [Fds -> Objects]
    BY StdFdsType, InputTypes
  <2>3. \A f \in Fds : wired[f] = IF f = 0 THEN Input(c) ELSE IF f = 1 THEN Output(c)
                                  ELSE IF f = 2 THEN Tty ELSE Closed
    <3>1. \A f \in Fds : wired[f] = IF f = 0 THEN Input(c) ELSE IF f = 1 THEN Output(c)
                                    ELSE StdFds[f]
      BY StdFdsType DEF Stdin, Stdout
    <3>2. \A f \in Fds : f # 0 /\ f # 1 => StdFds[f] = IF f = 2 THEN Tty ELSE Closed
      BY DEF StdFds, Fds
    <3> HIDE DEF wired
    <3> QED BY <3>1, <3>2
  <2> HIDE DEF wired
  <2>4. ASSUME NEW f \in Fds PROVE fds[c][f] = wired[f]
    <3>1. CASE f \in 0 .. 2
      BY <3>1, <2>1, <2>3 DEF ChildTable
    <3>2. CASE \E i \in Pipes : f = ReadFd(i) \/ f = WriteFd(i)
      BY <3>2, <2>1, <2>3, FdTypes DEF ChildTable
    <3>3. CASE f > 2 * NumProcs
      BY <3>3, <2>1, <2>3, PipelineAssumption DEF ChildTable, Fds
    <3> QED BY <3>1, <3>2, <3>3, FdCases
  <2>5. fds[c] = wired
    BY <2>1, <2>2, <2>4
  <2> QED BY <2>5 DEF wired
<1> QED BY <1>1, Invariance, PTL

(* After a launch the shell's own table is what it was before               *)
(* (process_control.c:153-157).                                             *)
THEOREM LaunchLeavesNoEnd == Spec => []NothingLeftOpen
<1>1. ASSUME Inv PROVE NothingLeftOpen
  <2> SUFFICES ASSUME pc \in {"wait", "done"} PROVE fds[Shell] = StdFds
    BY DEF NothingLeftOpen
  <2>1. /\ Inherited(fds[Shell], NumProcs, NumProcs - 1)
        /\ fds[Shell] \in [Fds -> Objects]
    BY <1>1 DEF Inv, Tables, ShellTable, Progress, TypeOK
  <2>2. ASSUME NEW f \in Fds PROVE fds[Shell][f] = StdFds[f]
    <3>1. CASE f \in 0 .. 2
      BY <3>1, <2>1 DEF Inherited, StdFds
    <3>2. CASE \E i \in Pipes : f = ReadFd(i) \/ f = WriteFd(i)
      <4>1. \A i \in Pipes : ~(NumProcs - 1 <= i) /\ ~(NumProcs <= i)
        BY FdTypes, PipelineAssumption
      <4>2. fds[Shell][f] = Closed
        BY <3>2, <4>1, <2>1 DEF Inherited
      <4>3. ~(f <= 2)
        BY <3>2, FdTypes DEF Fds
      <4> QED BY <4>2, <4>3 DEF StdFds
    <3>3. CASE f > 2 * NumProcs
      BY <3>3, <2>1, PipelineAssumption DEF Inherited, StdFds, Fds
    <3> QED BY <3>1, <3>2, <3>3, FdCases
  <2> QED BY <2>1, <2>2, StdFdsType
<1> QED BY <1>1, Invariance, PTL

-----------------------------------------------------------------------------
(* Pipeline implements PipeChain                                            *)

LEMMA PhaseIs ==
  ASSUME TypeOK, NEW c \in Children
  PROVE  /\ Phase(c) = "running" <=> stage[c] = "running"
         /\ Phase(c) = "ended" <=> stage[c] = "exited"
         /\ Phase(c) = "starting" <=> stage[c] \in {"stdin", "stdout", "close"}
         /\ Phase(c) = "never" <=> stage[c] = "unborn" /\ pc \in {"leaving", "gone"}
         /\ Phase(c) = "planned" <=> stage[c] = "unborn" /\ pc \notin {"leaving", "gone"}
<1>1. stage[c] \in Stages
  BY DEF TypeOK
<1>2. stage[c] \in {"unborn", "stdin", "stdout", "close", "running", "exited"}
  BY <1>1 DEF Stages
<1>3. CASE stage[c] = "unborn"
  BY <1>3 DEF Phase
<1>4. CASE stage[c] = "running"
  BY <1>4 DEF Phase
<1>5. CASE stage[c] = "exited"
  BY <1>5 DEF Phase
<1>6. CASE stage[c] \in {"stdin", "stdout", "close"}
  BY <1>6 DEF Phase
<1> QED BY <1>2, <1>3, <1>4, <1>5, <1>6

LEMMA OnePhase ==
  ASSUME TypeOK, NEW c \in Children, UNCHANGED pc,
         stage' = [stage EXCEPT ![c] = stage'[c]]
  PROVE  [d \in Children |-> Phase(d)]' =
           [[d \in Children |-> Phase(d)] EXCEPT ![c] = Phase(c)']
<1>1. \A d \in Children : d # c => stage'[d] = stage[d]
  BY DEF TypeOK
<1>2. \A d \in Children : d # c => Phase(d)' = Phase(d)
  BY <1>1 DEF Phase
<1> QED BY <1>2

LEMMA SamePhases ==
  ASSUME UNCHANGED stage, pc' \in {"leaving", "gone"} <=> pc \in {"leaving", "gone"}
  PROVE  UNCHANGED [d \in Children |-> Phase(d)]
<1>1. \A d \in Children : Phase(d)' = Phase(d)
  BY DEF Phase
<1> QED BY <1>1

(* Whoever may still read pipe i has its read end, or the shell has it.     *)
LEMMA ReaderHolds ==
  ASSUME Inv, NEW i \in Pipes, stage[i] = "running", Holders(ReadEnd(i)) = {}
  PROVE  \/ Phase(i + 1) \in {"ended", "never"}
         \/ i + 1 \in infile /\ Phase(i + 1) = "running"
<1> SUFFICES ASSUME Phase(i + 1) \notin {"ended", "never"},
                    ~(i + 1 \in infile /\ Phase(i + 1) = "running")
             PROVE  FALSE
  OBVIOUS
<1> DEFINE c == i + 1
<1>1. c \in Children /\ i \in Children /\ c - 1 = i /\ i \in Nat /\ c > 0 /\ i < NumProcs - 1
  BY FdTypes
<1>2. \A p \in {Shell} \cup Children : \A f \in Fds : fds[p][f] # ReadEnd(i)
  BY DEF Holders
<1>3. ReadFd(i) \in Fds /\ 0 \in Fds
  BY FdTypes
<1>4. TypeOK
  BY DEF Inv
<1>5. stage[c] # "exited" /\ ~(c \in infile /\ stage[c] = "running")
  BY <1>1, <1>4, PhaseIs
<1>6. CASE stage[c] = "unborn"
  <2>1. pc \notin {"leaving", "gone"}
    BY <1>1, <1>4, <1>6, PhaseIs
  <2>2. pc # "create"
    BY <1>1 DEF Inv, Progress
  <2>3. pc \in {"fork", "parent", "wait", "done"}
    BY <1>4, <2>1, <2>2 DEF TypeOK
  <2>4. ~Forked(c)
    BY <1>1, <1>6, <2>3 DEF Inv, Progress
  <2>5. num - 1 <= i
    BY <1>1, <1>4, <2>4 DEF Forked, TypeOK
  <2>6. fds[Shell][ReadFd(i)] = ReadEnd(i)
    BY <1>1, <2>3, <2>5 DEF Inv, Tables, ShellTable, Inherited
  <2> QED BY <1>2, <1>3, <2>6
<1>7. CASE stage[c] # "unborn"
  <2>1. ChildTable(c)
    BY <1>1, <1>5, <1>7, ChildFacts
  <2>2. CASE stage[c] = "stdin" \/ c \in infile
    <3>1. stage[c] # "running" /\ KeepsRead(c, i)
      BY <1>1, <1>5, <2>2 DEF KeepsRead
    <3>2. fds[c][ReadFd(i)] = ReadEnd(i)
      BY <2>1, <3>1 DEF ChildTable
    <3> QED BY <1>1, <1>2, <1>3, <3>2
  <2>3. CASE stage[c] # "stdin" /\ c \notin infile
    <3>1. Input(c) = ReadEnd(i)
      BY <1>1, <2>3 DEF Input
    <3>2. fds[c][0] = ReadEnd(i)
      BY <2>1, <2>3, <3>1 DEF ChildTable
    <3> QED BY <1>1, <1>2, <1>3, <3>2
  <2> QED BY <2>2, <2>3
<1> QED BY <1>6, <1>7

(* Whoever may still write pipe i has its write end, or the shell has it.   *)
LEMMA WriterHolds ==
  ASSUME Inv, NEW i \in Pipes, stage[i + 1] = "running", Holders(WriteEnd(i)) = {}
  PROVE  \/ Phase(i) \in {"ended", "never"}
         \/ i \in outfile /\ Phase(i) = "running"
<1> SUFFICES ASSUME Phase(i) \notin {"ended", "never"},
                    ~(i \in outfile /\ Phase(i) = "running")
             PROVE  FALSE
  OBVIOUS
<1>1. i \in Children /\ i + 1 \in Children /\ i \in Nat /\ i < NumProcs - 1
  BY FdTypes
<1>2. \A p \in {Shell} \cup Children : \A f \in Fds : fds[p][f] # WriteEnd(i)
  BY DEF Holders
<1>3. WriteFd(i) \in Fds /\ 1 \in Fds
  BY FdTypes
<1>4. TypeOK
  BY DEF Inv
<1>5. stage[i] # "exited" /\ ~(i \in outfile /\ stage[i] = "running")
  BY <1>1, <1>4, PhaseIs
<1>6. CASE stage[i] = "unborn"
  <2>1. pc \notin {"leaving", "gone"}
    BY <1>1, <1>4, <1>6, PhaseIs
  <2>2. pc # "create"
    BY <1>1 DEF Inv, Progress
  <2>3. pc \in {"fork", "parent", "wait", "done"}
    BY <1>4, <2>1, <2>2 DEF TypeOK
  <2>4. ~Forked(i)
    BY <1>1, <1>6, <2>3 DEF Inv, Progress
  <2>5. num <= i
    BY <1>1, <1>4, <2>4 DEF Forked, TypeOK
  <2>6. fds[Shell][WriteFd(i)] = WriteEnd(i)
    BY <1>1, <2>3, <2>5 DEF Inv, Tables, ShellTable, Inherited
  <2> QED BY <1>2, <1>3, <2>6
<1>7. CASE stage[i] # "unborn"
  <2>1. ChildTable(i)
    BY <1>1, <1>5, <1>7, ChildFacts
  <2>2. CASE stage[i] \in {"stdin", "stdout"} \/ i \in outfile
    <3>1. stage[i] # "running" /\ KeepsWrite(i, i)
      BY <1>1, <1>5, <2>2 DEF KeepsWrite
    <3>2. fds[i][WriteFd(i)] = WriteEnd(i)
      BY <2>1, <3>1 DEF ChildTable
    <3> QED BY <1>1, <1>2, <1>3, <3>2
  <2>3. CASE stage[i] \notin {"stdin", "stdout"} /\ i \notin outfile
    <3>1. Output(i) = WriteEnd(i)
      BY <1>1, <2>3 DEF Output
    <3>2. fds[i][1] = WriteEnd(i)
      BY <2>1, <2>3, <3>1 DEF ChildTable
    <3> QED BY <1>1, <1>2, <1>3, <3>2
  <2> QED BY <2>2, <2>3
<1> QED BY <1>6, <1>7

(* A running command writes to its own pipe and reads from the one before.  *)
LEMMA RunningEnds ==
  ASSUME Inv, NEW c \in Children, stage[c] = "running", NEW i \in Pipes
  PROVE  /\ fds[c][Stdout] = WriteEnd(i) => i = c /\ c \notin outfile
         /\ fds[c][Stdin] = ReadEnd(i) => i = c - 1 /\ c \notin infile
<1>1. ChildTable(c)
  BY ChildFacts
<1>2. fds[c][0] = Input(c) /\ fds[c][1] = Output(c)
  BY <1>1 DEF ChildTable
<1> QED BY <1>2, ObjectsDiffer DEF Input, Output, Stdin, Stdout

(* What a step of a child is in PipeChain.                                  *)
LEMMA ChildImplements ==
  ASSUME Inv, Inv', NEW c \in Children,
         SetupStep(c) \/ Exit(c) \/ Write(c) \/ Sigpipe(c) \/ Read(c) \/ ReadEof(c)
  PROVE  [Chain!Next]_(Chain!chain)
<1> DEFINE phase == [d \in Children |-> Phase(d)]
<1>1. /\ TypeOK /\ TypeOK' /\ UNCHANGED <<pc, plan>>
      /\ phase[c] = Phase(c) /\ phase'[c] = Phase(c)'
  BY DEF Inv, SetupStep, ChildStdinSetup, ChildStdoutSetup, ExecCommand, Exit,
         Write, Sigpipe, Read, ReadEof
<1>2. CASE SetupStep(c)
  <2>1. UNCHANGED <<buf, eof, broken>> /\ stage' = [stage EXCEPT ![c] = stage'[c]]
    BY <1>1, <1>2 DEF SetupStep, ChildStdinSetup, ChildStdoutSetup, ExecCommand, TypeOK
  <2>2. phase' = [phase EXCEPT ![c] = Phase(c)']
    BY <1>1, <2>1, OnePhase
  <2>3. Phase(c) = "starting"
    BY <1>1, <1>2, PhaseIs DEF SetupStep, ChildStdinSetup, ChildStdoutSetup, ExecCommand
  <2>4. stage'[c] \in {"stdout", "close", "running"}
    BY <1>1, <1>2 DEF SetupStep, ChildStdinSetup, ChildStdoutSetup, ExecCommand, TypeOK
  <2>5. Phase(c)' = "starting" \/ Phase(c)' = "running"
    BY <2>4 DEF Phase
  <2>6. CASE Phase(c)' = "starting"
    <3>1. UNCHANGED phase
      BY <2>2, <2>3, <2>6
    <3> QED BY <1>1, <2>1, <3>1 DEF Chain!chain, plan
  <2>7. CASE Phase(c)' = "running"
    <3>1. Chain!Run(c)
      BY <1>1, <2>1, <2>2, <2>3, <2>7 DEF Chain!Run, Chain!Become, plan
    <3> QED BY <3>1 DEF Chain!Next
  <2> QED BY <2>5, <2>6, <2>7
<1>3. CASE Exit(c)
  <2>1. UNCHANGED <<buf, eof, broken>> /\ stage' = [stage EXCEPT ![c] = stage'[c]]
        /\ stage'[c] = "exited"
    BY <1>1, <1>3 DEF Exit, Exits, TypeOK
  <2>2. phase' = [phase EXCEPT ![c] = Phase(c)']
    BY <1>1, <2>1, OnePhase
  <2>3. Phase(c)' = "ended"
    BY <2>1 DEF Phase
  <2>4. stage[c] \in {"stdin", "stdout", "close", "running"}
    BY <1>1, <1>3 DEF Exit, TypeOK, Stages
  <2>5. Phase(c) \in {"starting", "running"}
    BY <2>4 DEF Phase
  <2>6. Chain!End(c)
    BY <1>1, <2>1, <2>2, <2>3, <2>5 DEF Chain!End, Chain!Become, plan
  <2> QED BY <2>6 DEF Chain!Next
<1>4. CASE Write(c)
  <2>1. /\ stage[c] = "running" /\ UNCHANGED <<pc, stage, eof, broken>>
        /\ Phase(c) = "running"
    BY <1>1, <1>4, PhaseIs DEF Write
  <2>2. PICK i \in Pipes : /\ fds[c][Stdout] = WriteEnd(i) /\ buf[i] < Capacity
                           /\ buf' = [buf EXCEPT ![i] = @ + 1]
    BY <1>4 DEF Write
  <2>3. i = c /\ c \notin outfile
    BY <2>1, <2>2, RunningEnds
  <2>4. UNCHANGED phase
    BY <2>1, SamePhases
  <2>5. Chain!Put(c)
    BY <1>1, <2>1, <2>2, <2>3, <2>4 DEF Chain!Put, Chain!Writes, plan
  <2> QED BY <2>5 DEF Chain!Next
<1>5. CASE Read(c)
  <2>1. /\ stage[c] = "running" /\ UNCHANGED <<pc, stage, eof, broken>>
        /\ Phase(c) = "running"
    BY <1>1, <1>5, PhaseIs DEF Read
  <2>2. PICK i \in Pipes : /\ fds[c][Stdin] = ReadEnd(i) /\ buf[i] > 0
                           /\ buf' = [buf EXCEPT ![i] = @ - 1]
    BY <1>5 DEF Read
  <2>3. i = c - 1 /\ c \notin infile
    BY <2>1, <2>2, RunningEnds
  <2>4. UNCHANGED phase
    BY <2>1, SamePhases
  <2>5. Chain!Take(c)
    BY <1>1, <2>1, <2>2, <2>3, <2>4 DEF Chain!Take, Chain!Reads, plan
  <2> QED BY <2>5 DEF Chain!Next
<1>6. CASE ReadEof(c)
  <2>1. /\ stage[c] = "running" /\ UNCHANGED <<pc, stage, buf, broken>>
        /\ Phase(c) = "running" /\ eof' = eof \cup {c}
    BY <1>1, <1>6, PhaseIs DEF ReadEof
  <2>2. PICK i \in Pipes : /\ fds[c][Stdin] = ReadEnd(i) /\ buf[i] = 0
                           /\ Holders(WriteEnd(i)) = {}
    BY <1>6 DEF ReadEof
  <2>3. i = c - 1 /\ c \notin infile /\ c = i + 1 /\ i \in Children
    <3>1. i = c - 1 /\ c \notin infile
      BY <2>1, <2>2, RunningEnds
    <3> QED BY <3>1, FdTypes DEF Children
  <2>4. UNCHANGED phase
    BY <2>1, SamePhases
  <2>5. \/ Phase(c - 1) \in {"ended", "never"}
        \/ c - 1 \in outfile /\ Phase(c - 1) = "running"
    <3>1. stage[i + 1] = "running"
      BY <2>1, <2>3
    <3> QED BY <2>2, <2>3, <3>1, WriterHolds
  <2>6. phase[c - 1] = Phase(c - 1)
    BY <2>3
  <2>7. Chain!WriterGone(c - 1)
    BY <2>5, <2>6 DEF Chain!WriterGone, Chain!Over
  <2> HIDE DEF phase
  <2>8. Chain!TellEof(c)
    BY <1>1, <2>1, <2>2, <2>3, <2>4, <2>7 DEF Chain!TellEof, Chain!Reads, plan, phase
  <2> QED BY <2>8 DEF Chain!Next
<1>7. CASE Sigpipe(c)
  <2>1. /\ stage[c] = "running" /\ UNCHANGED <<buf, eof>>
        /\ stage' = [stage EXCEPT ![c] = stage'[c]] /\ stage'[c] = "exited"
        /\ Phase(c) = "running" /\ broken' = broken \cup {c}
    BY <1>1, <1>7, PhaseIs DEF Sigpipe, Exits, TypeOK
  <2>2. PICK i \in Pipes : fds[c][Stdout] = WriteEnd(i) /\ Holders(ReadEnd(i)) = {}
    BY <1>7 DEF Sigpipe
  <2>3. i = c /\ c \notin outfile
    BY <2>1, <2>2, RunningEnds
  <2>4. phase' = [phase EXCEPT ![c] = "ended"]
    <3>1. Phase(c)' = "ended"
      BY <2>1 DEF Phase
    <3>2. phase' = [phase EXCEPT ![c] = Phase(c)']
      BY <1>1, <2>1, OnePhase
    <3> QED BY <3>1, <3>2
  <2>5. \/ Phase(c + 1) \in {"ended", "never"}
        \/ c + 1 \in infile /\ Phase(c + 1) = "running"
    BY <2>1, <2>2, <2>3, ReaderHolds
  <2>6. phase[c + 1] = Phase(c + 1)
    BY <2>2, <2>3, FdTypes
  <2>7. Chain!ReaderGone(c)
    BY <2>5, <2>6 DEF Chain!ReaderGone, Chain!Over
  <2> HIDE DEF phase
  <2>8. Chain!Break(c)
    BY <1>1, <2>1, <2>2, <2>3, <2>4, <2>7 DEF Chain!Break, Chain!Writes, plan, phase
  <2> QED BY <2>8 DEF Chain!Next
<1> QED BY <1>2, <1>3, <1>4, <1>5, <1>6, <1>7

(* What a step of the shell is in PipeChain.                                *)
LEMMA ShellImplements ==
  ASSUME Inv, Inv', ShellStep
  PROVE  [Chain!Next]_(Chain!chain)
<1> DEFINE phase == [d \in Children |-> Phase(d)]
<1>1. /\ TypeOK /\ TypeOK' /\ UNCHANGED <<plan, buf, eof, broken>>
  BY DEF Inv, ShellStep, CreatePipe, CreateFails, Fork, ForkFails, ParentSetup,
         Cleanup, Leave
<1>2. CASE CreatePipe \/ ParentSetup \/ Cleanup \/ Leave
  <2>1. UNCHANGED stage /\ (pc' \in {"leaving", "gone"} <=> pc \in {"leaving", "gone"})
    BY <1>2 DEF CreatePipe, ParentSetup, Cleanup, Leave
  <2>2. UNCHANGED phase
    BY <2>1, SamePhases
  <2> QED BY <1>1, <2>2 DEF Chain!chain, plan
<1>3. CASE CreateFails \/ ForkFails
  <2>1. UNCHANGED stage /\ pc' = "leaving" /\ pc \notin {"leaving", "gone"}
    BY <1>3 DEF CreateFails, ForkFails
  <2>2. \A d \in Children : Phase(d)' = IF Phase(d) = "planned" THEN "never" ELSE Phase(d)
    <3> SUFFICES ASSUME NEW d \in Children
                 PROVE  Phase(d)' = IF Phase(d) = "planned" THEN "never" ELSE Phase(d)
      OBVIOUS
    <3>1. stage'[d] = stage[d]
      BY <2>1
    <3>2. CASE stage[d] = "unborn"
      BY <2>1, <3>1, <3>2 DEF Phase
    <3>3. CASE stage[d] # "unborn"
      <4>1. Phase(d) # "planned"
        BY <1>1, <3>3, PhaseIs
      <4>2. Phase(d)' = Phase(d)
        <5>1. stage[d] \in {"stdin", "stdout", "close", "running", "exited"}
          BY <1>1, <3>3 DEF TypeOK, Stages
        <5> QED BY <3>1, <5>1 DEF Phase
      <4> QED BY <4>1, <4>2
    <3> QED BY <3>2, <3>3
  <2>3. phase' = [d \in Children |-> IF phase[d] = "planned" THEN "never" ELSE phase[d]]
    BY <2>2
  <2>4. Chain!GiveUp
    BY <1>1, <2>3 DEF Chain!GiveUp, plan
  <2> QED BY <2>4 DEF Chain!Next
<1>4. CASE Fork
  <2>1. /\ pc = "fork" /\ pc' = "parent" /\ num \in Children /\ num \in Int
        /\ stage' = [stage EXCEPT ![num] = "stdin"]
    BY <1>1, <1>4, PipelineAssumption DEF Fork, Inv, TypeOK, Progress, Children
  <2>2. stage[num] = "unborn" /\ stage'[num] = "stdin"
    BY <1>1, <2>1 DEF Inv, Progress, Forked, TypeOK
  <2>3. Phase(num) = "planned"
    BY <1>1, <2>1, <2>2, PhaseIs
  <2>4. \A d \in Children : Phase(d)' = IF d = num THEN "starting" ELSE Phase(d)
    <3>1. \A d \in Children : stage'[d] = IF d = num THEN "stdin" ELSE stage[d]
      BY <1>1, <2>1 DEF TypeOK
    <3> QED BY <2>1, <3>1 DEF Phase
  <2>5. phase' = [phase EXCEPT ![num] = "starting"] /\ phase[num] = "planned"
    BY <2>1, <2>3, <2>4
  <2>6. Chain!Start(num)
    BY <1>1, <2>5 DEF Chain!Start, Chain!Become, plan
  <2> QED BY <2>1, <2>6 DEF Chain!Next
<1> QED BY <1>2, <1>3, <1>4 DEF ShellStep

(* The pipeline joins its commands as PipeChain promises: nobody is told    *)
(* that the other side is gone before it is, whatever the interleaving of   *)
(* the shell's fork loop with the children (process_control.c:58-159).      *)
THEOREM ImplementsChain == Spec => ChainSpec
<1>1. Init => Chain!Init
  <2> SUFFICES ASSUME Init PROVE Chain!Init
    OBVIOUS
  <2>1. \A c \in Children : Phase(c) = "planned"
    BY DEF Init, Phase
  <2> QED BY <2>1 DEF Init, Chain!Init
<1>2. Inv /\ Inv' /\ [Next]_vars => [Chain!Next]_(Chain!chain)
  <2> SUFFICES ASSUME Inv, Inv', [Next]_vars PROVE [Chain!Next]_(Chain!chain)
    OBVIOUS
  <2>1. CASE Terminated \/ UNCHANGED vars
    <3>1. UNCHANGED [d \in Children |-> Phase(d)]
      BY <2>1, SamePhases DEF Terminated, vars
    <3> QED BY <2>1, <3>1 DEF Terminated, vars, plan, Chain!chain
  <2> QED BY <2>1, ShellImplements, ChildImplements DEF Next
<1> QED BY <1>1, <1>2, Invariance, PTL DEF Spec, ChainSpec, Chain!Spec

-----------------------------------------------------------------------------
(* Who still keeps an end open when the other side is gone                   *)

InSetup(p) == p \in Children /\ stage[p] \in {"stdin", "stdout", "close"}

(* Only commands that have not closed yet what they inherited, and the shell *)
(* between a fork and its close_pipe_end: everybody who keeps a reader from  *)
(* the end of its input, or a writer from SIGPIPE, is about to let go.       *)
EndsAreReleased ==
  \A i \in Pipes :
    /\ stage[i + 1] = "running" /\ Phase(i) \in {"ended", "never"} =>
         \A p \in Holders(WriteEnd(i)) : p < i /\ InSetup(p)
    /\ stage[i] = "running" /\ Phase(i + 1) \in {"ended", "never"} =>
         \A p \in Holders(ReadEnd(i)) : \/ p = Shell /\ pc = "parent" /\ num = i + 1
                                        \/ p < i /\ InSetup(p)

IsEnd(o) == \E i \in Pipes : o = ReadEnd(i) \/ o = WriteEnd(i)

(* What the tables do not say: who is not there has nothing, and a launch    *)
(* given up after a fork leaves the shell without ends.                      *)
Absent ==
  /\ \A c \in Children : stage[c] \in {"unborn", "exited"} => fds[c] = NoFds
  /\ pc \in {"leaving", "gone"} /\ (\E c \in Children : stage[c] # "unborn") =>
       \A f \in Fds : ~IsEnd(fds[Shell][f])

LEMMA NoEndsLeft ==
  ASSUME Inv, pc \in {"fork", "parent", "wait", "done"}
  PROVE  \A f \in Fds : ~IsEnd(ClosePipeEnds(fds[Shell], NumProcs)[f])
<1> DEFINE table == ClosePipeEnds(fds[Shell], NumProcs)
<1>1. /\ Inherited(fds[Shell], num, NumProcs - 1)
      /\ \A i \in Pipes : pipes[i] = <<ReadFd(i), WriteFd(i)>>
  BY DEF Inv, Tables, ShellTable, Numbered
<1>2. ASSUME NEW f \in Fds PROVE table[f] \in {Tty, Closed}
  <2>1. CASE f \in 0 .. 2
    BY <1>1, <2>1 DEF Inherited, ClosePipeEnds, Close
  <2>2. CASE \E i \in Pipes : f = ReadFd(i) \/ f = WriteFd(i)
    <3>1. PICK i \in Pipes : f = ReadFd(i) \/ f = WriteFd(i)
      BY <2>2
    <3>2. i \in 0 .. NumProcs - 2 /\ f \in {pipes[i][1], pipes[i][2]}
      BY <1>1, <3>1 DEF Pipes
    <3> QED BY <3>2 DEF ClosePipeEnds, Close
  <2>3. CASE f > 2 * NumProcs
    BY <1>1, <2>3 DEF Inherited, ClosePipeEnds, Close
  <2> QED BY <2>1, <2>2, <2>3, FdCases
<1> HIDE DEF table
<1>3. ~IsEnd(Tty) /\ ~IsEnd(Closed)
  BY ObjectsDiffer DEF IsEnd
<1>4. \A f \in Fds : ~IsEnd(table[f])
  BY <1>2, <1>3
<1> QED BY <1>4 DEF table

LEMMA AbsentNext == Inv /\ Absent /\ [Next]_vars => Absent'
<1> SUFFICES ASSUME Inv, Absent, [Next]_vars PROVE Absent'
  OBVIOUS
<1>0. /\ TypeOK /\ Shell \notin Children
      /\ fds \in [{Shell} \cup Children -> [Fds -> Objects]] /\ stage \in [Children -> Stages]
  BY DEF Inv, TypeOK, Shell, Children
<1> USE <1>0
<1>1. CASE UNCHANGED vars \/ Terminated
  BY <1>1 DEF Terminated, vars, Absent
<1>2. CASE CreatePipe \/ CreateFails
  <2>1. /\ pc = "create" /\ stage' = stage
        /\ \A c \in Children : fds'[c] = fds[c]
    BY <1>2 DEF CreatePipe, CreateFails
  <2>2. \A c \in Children : stage[c] = "unborn"
    BY <2>1 DEF Inv, Progress
  <2> QED BY <2>1, <2>2 DEF Absent
<1>3. CASE Fork
  <2>1. /\ pc = "fork" /\ pc' = "parent"
        /\ stage' = [stage EXCEPT ![num] = "stdin"]
        /\ fds' = [fds EXCEPT ![num] = fds[Shell]]
    BY <1>3 DEF Fork
  <2>2. num \in Children
    BY <2>1, PipelineAssumption DEF Inv, Progress, TypeOK, Children
  <2> QED BY <2>1, <2>2 DEF Absent
<1>4. CASE ForkFails
  <2>1. /\ pc = "fork" /\ stage' = stage
        /\ fds' = [fds EXCEPT ![Shell] = ClosePipeEnds(@, NumProcs)]
    BY <1>4 DEF ForkFails
  <2>2. fds'[Shell] = ClosePipeEnds(fds[Shell], NumProcs)
    BY <2>1
  <2>3. \A f \in Fds : ~IsEnd(fds'[Shell][f])
    BY <2>1, <2>2, NoEndsLeft
  <2>4. \A c \in Children : fds'[c] = fds[c]
    BY <2>1
  <2> QED BY <2>1, <2>3, <2>4 DEF Absent, IsEnd
<1>5. CASE ParentSetup \/ Cleanup
  <2>1. /\ pc' \in {"wait", "fork", "done"} /\ stage' = stage
        /\ \A c \in Children : fds'[c] = fds[c]
    BY <1>5 DEF ParentSetup, Cleanup
  <2> QED BY <2>1 DEF Absent
<1>6. CASE Leave
  <2>1. /\ stage' = stage /\ fds'[Shell] = NoFds
        /\ \A c \in Children : fds'[c] = fds[c]
    BY <1>6 DEF Leave
  <2>2. \A f \in Fds : ~IsEnd(NoFds[f])
    BY ObjectsDiffer DEF NoFds, IsEnd
  <2> QED BY <2>1, <2>2 DEF Absent, IsEnd
<1>7. ASSUME NEW c \in Children, SetupStep(c) PROVE Absent'
  <2>1. /\ stage[c] \in {"stdin", "stdout", "close"} /\ pc' = pc
        /\ stage'[c] \in {"stdout", "close", "running"}
        /\ \A d \in Children : d # c => stage'[d] = stage[d] /\ fds'[d] = fds[d]
        /\ fds'[Shell] = fds[Shell]
    BY <1>7 DEF SetupStep, ChildStdinSetup, ChildStdoutSetup, ExecCommand
  <2> QED BY <2>1 DEF Absent, IsEnd
<1>8. ASSUME NEW c \in Children, Exit(c) \/ Sigpipe(c) PROVE Absent'
  <2>1. /\ stage[c] # "unborn" /\ pc' = pc
        /\ stage' = [stage EXCEPT ![c] = "exited"] /\ fds' = [fds EXCEPT ![c] = NoFds]
    BY <1>8 DEF Exit, Sigpipe, Exits
  <2>2. fds'[Shell] = fds[Shell]
    BY <2>1
  <2>3. \A d \in Children : stage'[d] \in {"unborn", "exited"} => fds'[d] = NoFds
    BY <2>1 DEF Absent
  <2> QED BY <2>1, <2>2, <2>3 DEF Absent, IsEnd
<1>9. ASSUME NEW c \in Children, Write(c) \/ Read(c) \/ ReadEof(c) PROVE Absent'
  BY <1>9 DEF Write, Read, ReadEof, Absent, IsEnd
<1> QED
  BY <1>1, <1>2, <1>3, <1>4, <1>5, <1>6, <1>7, <1>8, <1>9 DEF Next, ShellStep

(* The ends in the table of the shell and of each command.                   *)
LEMMA ShellEnds ==
  ASSUME Inv, Absent, NEW f \in Fds, NEW i \in Pipes, \E c \in Children : stage[c] # "unborn"
  PROVE  /\ fds[Shell][f] = ReadEnd(i) =>
              pc \in {"fork", "parent", "wait", "done"} /\ num <= i + 1
         /\ fds[Shell][f] = WriteEnd(i) =>
              pc \in {"fork", "parent", "wait", "done"} /\ num <= i
<1> SUFFICES ASSUME IsEnd(fds[Shell][f])
             PROVE  /\ pc \in {"fork", "parent", "wait", "done"}
                    /\ fds[Shell][f] = ReadEnd(i) => num <= i + 1
                    /\ fds[Shell][f] = WriteEnd(i) => num <= i
  BY DEF IsEnd
<1>1. pc \in {"fork", "parent", "wait", "done"}
  BY DEF Absent, Inv, TypeOK, Progress
<1>2. Inherited(fds[Shell], num, NumProcs - 1)
  BY <1>1 DEF Inv, Tables, ShellTable
<1>3. num \in Nat /\ i \in Nat
  BY FdTypes DEF Inv, TypeOK
<1>4. CASE f \in 0 .. 2 \/ f > 2 * NumProcs
  BY <1>2, <1>4, ObjectsDiffer DEF Inherited, IsEnd
<1>5. CASE \E j \in Pipes : f = ReadFd(j) \/ f = WriteFd(j)
  <2>1. PICK j \in Pipes : f = ReadFd(j) \/ f = WriteFd(j)
    BY <1>5
  <2>2. CASE f = ReadFd(j)
    <3>1. fds[Shell][f] = ReadEnd(j) /\ num - 1 <= j
      BY <1>2, <2>2, ObjectsDiffer DEF Inherited, IsEnd
    <3>2. fds[Shell][f] # WriteEnd(i) /\ (fds[Shell][f] = ReadEnd(i) => i = j)
      BY <3>1, ObjectsDiffer
    <3> QED BY <1>1, <1>3, <3>1, <3>2
  <2>3. CASE f = WriteFd(j)
    <3>1. fds[Shell][f] = WriteEnd(j) /\ num <= j
      BY <1>2, <2>3, ObjectsDiffer DEF Inherited, IsEnd
    <3>2. fds[Shell][f] # ReadEnd(i) /\ (fds[Shell][f] = WriteEnd(i) => i = j)
      BY <3>1, ObjectsDiffer
    <3> QED BY <1>1, <1>3, <3>1, <3>2
  <2> QED BY <2>1, <2>2, <2>3
<1> QED BY <1>4, <1>5, FdCases

LEMMA ChildEnds ==
  ASSUME Inv, Absent, NEW c \in Children, NEW f \in Fds, NEW i \in Pipes
  PROVE  /\ fds[c][f] = ReadEnd(i) =>
              stage[c] \notin {"unborn", "exited"} /\ (c = i + 1 \/ (c <= i /\ InSetup(c)))
         /\ fds[c][f] = WriteEnd(i) =>
              stage[c] \notin {"unborn", "exited"} /\ (c = i \/ (c < i /\ InSetup(c)))
<1> SUFFICES ASSUME IsEnd(fds[c][f])
             PROVE  /\ stage[c] \notin {"unborn", "exited"}
                    /\ fds[c][f] = ReadEnd(i) => c = i + 1 \/ (c <= i /\ InSetup(c))
                    /\ fds[c][f] = WriteEnd(i) => c = i \/ (c < i /\ InSetup(c))
  BY DEF IsEnd
<1>1. stage[c] \notin {"unborn", "exited"}
  BY ObjectsDiffer DEF Absent, NoFds, IsEnd
<1>2. ChildTable(c) /\ c \in Nat /\ i \in Nat
  BY <1>1, ChildFacts, FdTypes
<1>3. stage[c] # "running" => InSetup(c)
  BY <1>1 DEF InSetup, Inv, TypeOK, Stages
<1>4. CASE f \in 0 .. 2
  <2>1. fds[c][f] \in {Tty, Input(c), Output(c)}
    BY <1>2, <1>4 DEF ChildTable
  <2>2. /\ fds[c][f] = ReadEnd(i) => i = c - 1
        /\ fds[c][f] = WriteEnd(i) => i = c
    BY <2>1, ObjectsDiffer DEF Input, Output
  <2> QED BY <1>1, <1>2, <2>2
<1>5. CASE f > 2 * NumProcs
  BY <1>2, <1>5, ObjectsDiffer DEF ChildTable, IsEnd
<1>6. CASE \E j \in Pipes : f = ReadFd(j) \/ f = WriteFd(j)
  <2>1. PICK j \in Pipes : f = ReadFd(j) \/ f = WriteFd(j)
    BY <1>6
  <2>2. j \in Nat
    BY FdTypes
  <2>3. CASE f = ReadFd(j)
    <3>1. fds[c][f] = ReadEnd(j) /\ stage[c] # "running" /\ c - 1 <= j
      BY <1>2, <2>3, ObjectsDiffer DEF ChildTable, KeepsRead, IsEnd
    <3>2. fds[c][f] # WriteEnd(i) /\ (fds[c][f] = ReadEnd(i) => i = j)
      BY <3>1, ObjectsDiffer
    <3>3. c <= j \/ c = j + 1
      BY <1>2, <2>2, <3>1
    <3> QED BY <1>1, <1>3, <3>1, <3>2, <3>3
  <2>4. CASE f = WriteFd(j)
    <3>1. fds[c][f] = WriteEnd(j) /\ stage[c] # "running" /\ c <= j
      BY <1>2, <2>4, ObjectsDiffer DEF ChildTable, KeepsWrite, IsEnd
    <3>2. fds[c][f] # ReadEnd(i) /\ (fds[c][f] = WriteEnd(i) => i = j)
      BY <3>1, ObjectsDiffer
    <3>3. c < j \/ c = j
      BY <1>2, <2>2, <3>1
    <3> QED BY <1>1, <1>3, <3>1, <3>2, <3>3
  <2> QED BY <2>1, <2>3, <2>4
<1> QED BY <1>4, <1>5, <1>6, FdCases

(* No process holds an end for good that somebody waits to see closed: what  *)
(* EofArrives and WriterIsTold need besides fair steps of the shell and of   *)
(* the setups (process_control.c:111-157, io_redirection.c:50).              *)
THEOREM EndsGetReleased == Spec => []EndsAreReleased
<1>1. Init => Absent
  BY DEF Init, Absent, Shell, Children
<1>2. ASSUME Inv, Absent PROVE EndsAreReleased
  <2> SUFFICES ASSUME NEW i \in Pipes
               PROVE  /\ stage[i + 1] = "running" /\ Phase(i) \in {"ended", "never"} =>
                           \A p \in Holders(WriteEnd(i)) : p < i /\ InSetup(p)
                      /\ stage[i] = "running" /\ Phase(i + 1) \in {"ended", "never"} =>
                           \A p \in Holders(ReadEnd(i)) :
                             \/ p = Shell /\ pc = "parent" /\ num = i + 1
                             \/ p < i /\ InSetup(p)
    BY DEF EndsAreReleased
  <2>1. i \in Children /\ i + 1 \in Children /\ i \in Nat /\ num \in Nat /\ TypeOK
    BY <1>2, FdTypes DEF Inv, TypeOK
  <2>2. \A c \in Children : c \in Nat
    BY DEF Children
  <2>3. ASSUME stage[i + 1] = "running", Phase(i) \in {"ended", "never"},
               NEW p \in Holders(WriteEnd(i))
        PROVE  p < i /\ InSetup(p)
    <3>1. PICK f \in Fds : fds[p][f] = WriteEnd(i)
      BY DEF Holders
    <3>2. stage[i] \in {"unborn", "exited"}
      BY <2>1, <2>3, PhaseIs
    <3>3. CASE p = Shell
      <4>1. pc \in {"fork", "parent", "wait", "done"} /\ num <= i
        BY <1>2, <2>1, <2>3, <3>1, <3>3, ShellEnds
      <4>2. Forked(i + 1)
        BY <1>2, <2>1, <2>3, <4>1 DEF Inv, Progress
      <4> QED BY <2>1, <4>1, <4>2 DEF Forked
    <3>4. CASE p \in Children
      <4>1. stage[p] \notin {"unborn", "exited"} /\ (p = i \/ (p < i /\ InSetup(p)))
        BY <1>2, <3>1, <3>4, ChildEnds
      <4> QED BY <3>2, <4>1
    <3> QED BY <3>3, <3>4 DEF Holders
  <2>4. ASSUME stage[i] = "running", Phase(i + 1) \in {"ended", "never"},
               NEW p \in Holders(ReadEnd(i))
        PROVE  \/ p = Shell /\ pc = "parent" /\ num = i + 1
               \/ p < i /\ InSetup(p)
    <3>1. PICK f \in Fds : fds[p][f] = ReadEnd(i)
      BY DEF Holders
    <3>2. /\ stage[i + 1] \in {"unborn", "exited"}
          /\ stage[i + 1] = "unborn" => pc \in {"leaving", "gone"}
      BY <2>1, <2>4, PhaseIs
    <3>3. CASE p = Shell
      <4>1. pc \in {"fork", "parent", "wait", "done"} /\ num <= i + 1
        BY <1>2, <2>1, <2>4, <3>1, <3>3, ShellEnds
      <4>2. stage[i + 1] = "exited"
        BY <3>2, <4>1
      <4>3. Forked(i + 1)
        BY <1>2, <2>1, <4>1, <4>2 DEF Inv, Progress
      <4> QED BY <2>1, <3>3, <4>1, <4>3 DEF Forked
    <3>4. CASE p \in Children
      <4>1. stage[p] \notin {"unborn", "exited"} /\ (p = i + 1 \/ (p <= i /\ InSetup(p)))
        BY <1>2, <3>1, <3>4, ChildEnds
      <4>2. p # i
        BY <2>4, <3>2, <4>1 DEF InSetup
      <4> QED BY <2>1, <2>2, <3>2, <3>4, <4>1, <4>2
    <3> QED BY <3>3, <3>4 DEF Holders
  <2> QED BY <2>3, <2>4
<1> QED BY <1>1, <1>2, AbsentNext, Invariance, PTL DEF Spec
=============================================================================
