------------------------------ MODULE Pipeline ------------------------------
(***************************************************************************)
(* The descriptors of a pipeline: the shell creates every pipe before the  *)
(* first fork, each child inherits what the shell has open at its fork,    *)
(* redirects its input and output, closes every pipe end and runs; the     *)
(* shell closes an end when no later child needs it.  Children and shell   *)
(* interleave.  A descriptor is a number, open() and pipe() take the       *)
(* lowest free ones, and close(n) closes whatever n stands for now.        *)
(*                                                                         *)
(* Commands are numbered from 0 like proc_num; command c writes to pipe c  *)
(* and command c + 1 reads from it.  Groups, waiting and the terminal are  *)
(* JobControl's.                                                           *)
(***************************************************************************)
EXTENDS Integers, FiniteSets

CONSTANTS
  NumProcs,   \* commands of the pipeline, job->num_procs
  Capacity,   \* bound: items a pipe holds before a writer blocks
  MaxFd       \* bound: the largest descriptor number

ASSUME PipelineAssumption ==
  /\ NumProcs \in Nat \ {0} /\ Capacity \in Nat \ {0} /\ MaxFd \in Nat
  /\ MaxFd >= 2 * NumProcs + 1    \* 0-2, two per pipe, one for a redirection

Children == 0 .. NumProcs - 1
Pipes    == 0 .. NumProcs - 2
Shell    == -1
Fds      == 0 .. MaxFd
Stdin    == 0
Stdout   == 1

(* What an open descriptor stands for.                                      *)
Object(kind, i) == [kind |-> kind, pipe |-> i]
ReadEnd(i)      == Object("read", i)
WriteEnd(i)     == Object("write", i)
Tty             == Object("tty", -1)
File            == Object("file", -1)
Closed          == Object("closed", -1)
Objects == {ReadEnd(i) : i \in Pipes} \cup {WriteEnd(i) : i \in Pipes}
             \cup {Tty, File, Closed}

VARIABLES
  pc,               \* where the shell's thread is
  num,              \* the loop counter of create_pipes and of the fork loop
  pipes,            \* job_res.pipes: the two numbers of each pipe
  fds,              \* the descriptor table of each process
  stage,            \* where each child is
  buf,              \* items in each pipe
  infile, outfile,  \* commands with a redirection
  eof,              \* history: commands whose read returned 0
  broken            \* history: commands that got SIGPIPE

plan     == <<infile, outfile>>
vars     == <<pc, num, pipes, fds, stage, buf, plan, eof, broken>>

-----------------------------------------------------------------------------
(* The kernel *)

Holders(o) == {p \in {Shell} \cup Children : \E f \in Fds : fds[p][f] = o}

LowestFree(table) ==
  CHOOSE f \in Fds : table[f] = Closed /\ \A g \in 0 .. f - 1 : table[g] # Closed

Close(table, S) == [f \in Fds |-> IF f \in S THEN Closed ELSE table[f]]
NoFds           == [f \in Fds |-> Closed]
StdFds          == [f \in Fds |-> IF f <= 2 THEN Tty ELSE Closed]

(* dup2(n, to); close(n).                                                   *)
MoveTo(table, n, to) == Close([table EXCEPT ![to] = table[n]], {n})

(* A process that exits closes everything.                                  *)
Exits(c) ==
  /\ stage' = [stage EXCEPT ![c] = "exited"]
  /\ fds' = [fds EXCEPT ![c] = NoFds]

-----------------------------------------------------------------------------
Init ==
  /\ pc = IF NumProcs = 1 THEN "fork" ELSE "create"
  /\ num = 0
  /\ pipes = [i \in Pipes |-> <<-1, -1>>]
  /\ fds = [p \in {Shell} \cup Children |-> IF p = Shell THEN StdFds ELSE NoFds]
  /\ stage = [c \in Children |-> "unborn"]
  /\ buf = [i \in Pipes |-> 0]
  /\ infile \in SUBSET Children /\ outfile \in SUBSET Children
  /\ eof = {} /\ broken = {}

-----------------------------------------------------------------------------
(* The shell: create_pipes, the fork loop, cleanup *)

OnePipeMore ==       \* mutant: num < num_procs
  /\ pc = "create"
  /\ LET table == fds[Shell]
         r == LowestFree(table)
         w == LowestFree([table EXCEPT ![r] = ReadEnd(num)])
     IN /\ fds' = [fds EXCEPT ![Shell] =
                     [table EXCEPT ![r] = ReadEnd(num), ![w] = WriteEnd(num)]]
        /\ pipes' = [pipes EXCEPT ![num] = <<r, w>>]
  /\ IF num + 1 < NumProcs
     THEN num' = num + 1 /\ pc' = "create"
     ELSE num' = 0 /\ pc' = "fork"
  /\ UNCHANGED <<stage, buf, plan, eof, broken>>

CreatePipe ==
  /\ pc = "create"
  /\ LET table == fds[Shell]
         r == LowestFree(table)
         w == LowestFree([table EXCEPT ![r] = ReadEnd(num)])
     IN /\ fds' = [fds EXCEPT ![Shell] =
                     [table EXCEPT ![r] = ReadEnd(num), ![w] = WriteEnd(num)]]
        /\ pipes' = [pipes EXCEPT ![num] = <<r, w>>]
  /\ IF num + 1 < NumProcs - 1
     THEN num' = num + 1 /\ pc' = "create"
     ELSE num' = 0 /\ pc' = "fork"
  /\ UNCHANGED <<stage, buf, plan, eof, broken>>

(* pipe() fails: the pipes made so far stay open until the shell is gone.   *)
CreateFails ==
  /\ pc = "create"
  /\ pc' = "leaving"
  /\ UNCHANGED <<num, pipes, fds, stage, buf, plan, eof, broken>>

AllButLastEnds(table, n) ==   \* mutant: i < num_procs - 2
  Close(table, UNION {{pipes[i][1], pipes[i][2]} : i \in 0 .. n - 3})

ClosePipeEnds(table, n) ==
  Close(table, UNION {{pipes[i][1], pipes[i][2]} : i \in 0 .. n - 2})

Fork ==
  /\ pc = "fork"
  /\ fds' = [fds EXCEPT ![num] = fds[Shell]]
  /\ stage' = [stage EXCEPT ![num] = "stdin"]
  /\ pc' = "parent"
  /\ UNCHANGED <<num, pipes, buf, plan, eof, broken>>

ForkFails ==
  /\ pc = "fork"
  /\ fds' = [fds EXCEPT ![Shell] = ClosePipeEnds(@, NumProcs)]
  /\ pc' = "leaving"
  /\ UNCHANGED <<num, pipes, stage, buf, plan, eof, broken>>

(* The tail of parent_setup: the ends nobody after command num needs.       *)
NoEnd(n)     == {}                                             \* mutant
ReadEarly(n) == IF n < NumProcs - 1 THEN {pipes[n][1]} ELSE {} \* mutant
ReadDone(n)  == IF n > 0 THEN {pipes[n - 1][1]} ELSE {}
WriteDone(n) == IF n < NumProcs - 1 THEN {pipes[n][2]} ELSE {}

ParentSetup ==
  /\ pc = "parent"
  /\ fds' = [fds EXCEPT ![Shell] = Close(@, ReadDone(num) \cup WriteDone(num))]
  /\ num' = num + 1
  /\ pc' = IF num = NumProcs - 1 THEN "wait" ELSE "fork"
  /\ UNCHANGED <<pipes, stage, buf, plan, eof, broken>>

(* execute read job->num_procs before setup_exec_resource set it, so that   *)
(* cleanup_job_execution closes nothing more.                               *)
LocalNumProcs == 0

Cleanup ==
  /\ pc = "wait"
  /\ fds' = [fds EXCEPT ![Shell] = ClosePipeEnds(@, LocalNumProcs)]
  /\ pc' = "done"
  /\ UNCHANGED <<num, pipes, stage, buf, plan, eof, broken>>

(* A failed launch ends the shell.                                          *)
Leave ==
  /\ pc = "leaving"
  /\ fds' = [fds EXCEPT ![Shell] = NoFds]
  /\ pc' = "gone"
  /\ UNCHANGED <<num, pipes, stage, buf, plan, eof, broken>>

-----------------------------------------------------------------------------
(* A child: child_setup up to execve *)

(* open, dup2 and close: a file takes the lowest number and gives it back.  *)
ChildStdinSetup(c) ==
  /\ stage[c] = "stdin"
  /\ fds' = [fds EXCEPT ![c] =
       IF c \in infile
       THEN LET n == LowestFree(@) IN MoveTo([@ EXCEPT ![n] = File], n, Stdin)
       ELSE IF c > 0 THEN MoveTo(@, pipes[c - 1][1], Stdin) ELSE @]
  /\ stage' = [stage EXCEPT ![c] = "stdout"]
  /\ UNCHANGED <<pc, num, pipes, buf, plan, eof, broken>>

ChildStdoutSetup(c) ==
  /\ stage[c] = "stdout"
  /\ fds' = [fds EXCEPT ![c] =
       IF c \in outfile
       THEN LET n == LowestFree(@) IN MoveTo([@ EXCEPT ![n] = File], n, Stdout)
       ELSE IF c < NumProcs - 1 THEN MoveTo(@, pipes[c][2], Stdout) ELSE @]
  /\ stage' = [stage EXCEPT ![c] = "close"]
  /\ UNCHANGED <<pc, num, pipes, buf, plan, eof, broken>>

(* close_pipe_ends, then execve: every end, also those closed already.      *)
ExecCommand(c) ==
  /\ stage[c] = "close"
  /\ fds' = [fds EXCEPT ![c] = ClosePipeEnds(@, NumProcs)]
  /\ stage' = [stage EXCEPT ![c] = "running"]
  /\ UNCHANGED <<pc, num, pipes, buf, plan, eof, broken>>

(* A file cannot be opened, the command is not found, it ends or is killed. *)
Exit(c) ==
  /\ stage[c] \notin {"unborn", "exited"}
  /\ Exits(c)
  /\ UNCHANGED <<pc, num, pipes, buf, plan, eof, broken>>

-----------------------------------------------------------------------------
(* The program a child has become, which writes, reads and ends at will *)

Write(c) ==
  /\ stage[c] = "running"
  /\ \E i \in Pipes :
       /\ fds[c][Stdout] = WriteEnd(i)
       /\ Holders(ReadEnd(i)) # {} /\ buf[i] < Capacity
       /\ buf' = [buf EXCEPT ![i] = @ + 1]
  /\ UNCHANGED <<pc, num, pipes, fds, stage, plan, eof, broken>>

Sigpipe(c) ==
  /\ stage[c] = "running"
  /\ \E i \in Pipes : fds[c][Stdout] = WriteEnd(i) /\ Holders(ReadEnd(i)) = {}
  /\ broken' = broken \cup {c}
  /\ Exits(c)
  /\ UNCHANGED <<pc, num, pipes, buf, plan, eof>>

Read(c) ==
  /\ stage[c] = "running"
  /\ \E i \in Pipes :
       /\ fds[c][Stdin] = ReadEnd(i) /\ buf[i] > 0
       /\ buf' = [buf EXCEPT ![i] = @ - 1]
  /\ UNCHANGED <<pc, num, pipes, fds, stage, plan, eof, broken>>

ReadEof(c) ==
  /\ stage[c] = "running"
  /\ \E i \in Pipes : /\ fds[c][Stdin] = ReadEnd(i) /\ buf[i] = 0
                      /\ Holders(WriteEnd(i)) = {}
  /\ eof' = eof \cup {c}
  /\ UNCHANGED <<pc, num, pipes, fds, stage, buf, plan, broken>>

-----------------------------------------------------------------------------
(* Every command has ended and the shell is done with the pipeline.          *)
Terminated ==
  /\ pc \in {"done", "gone"} /\ \A c \in Children : stage[c] \in {"unborn", "exited"}
  /\ UNCHANGED vars

ShellStep == CreatePipe \/ CreateFails \/ Fork \/ ForkFails \/ ParentSetup
             \/ Cleanup \/ Leave

SetupStep(c) == ChildStdinSetup(c) \/ ChildStdoutSetup(c) \/ ExecCommand(c)

Next ==
  \/ ShellStep
  \/ \E c \in Children : \/ SetupStep(c) \/ Exit(c)
                         \/ Write(c) \/ Sigpipe(c) \/ Read(c) \/ ReadEof(c)
  \/ Terminated

Spec == Init /\ [][Next]_vars

(* The shell and the children run; a program that writes goes on writing    *)
(* and one that reads goes on reading until it is told to end.  Nothing is  *)
(* assumed of programs ending by themselves.                                *)
FairSpec ==
  /\ Spec /\ WF_vars(ShellStep)
  /\ \A c \in Children : /\ WF_vars(SetupStep(c))
                         /\ WF_vars(Write(c) \/ Sigpipe(c))
                         /\ WF_vars(Read(c) \/ ReadEof(c))

-----------------------------------------------------------------------------
Stages == {"unborn", "stdin", "stdout", "close", "running", "exited"}

TypeOK ==
  /\ pc \in {"create", "fork", "parent", "wait", "done", "leaving", "gone"}
  /\ num \in 0 .. NumProcs
  /\ pipes \in [Pipes -> (Fds \cup {-1}) \X (Fds \cup {-1})]
  /\ fds \in [{Shell} \cup Children -> [Fds -> Objects]]
  /\ stage \in [Children -> Stages]
  /\ buf \in [Pipes -> 0 .. Capacity]
  /\ infile \subseteq Children /\ outfile \subseteq Children
  /\ eof \subseteq Children /\ broken \subseteq Children

-----------------------------------------------------------------------------
(* A running command has the input and output its place in the pipeline     *)
(* gives it, and no other descriptor of the pipeline.                       *)
Input(c)  == IF c \in infile THEN File ELSE IF c > 0 THEN ReadEnd(c - 1) ELSE Tty
Output(c) == IF c \in outfile THEN File
             ELSE IF c < NumProcs - 1 THEN WriteEnd(c) ELSE Tty

WiredAsTyped ==
  \A c \in Children : stage[c] = "running" =>
    fds[c] = [StdFds EXCEPT ![Stdin] = Input(c), ![Stdout] = Output(c)]

(* After a launch the shell has the descriptors it had before it: the next  *)
(* pipeline, and the next prompt, find no end left open (process_control.c, *)
(* executor.c:51).                                                          *)
NothingLeftOpen == pc \in {"wait", "done"} => fds[Shell] = StdFds

(* The pipeline joins its commands as PipeChain promises: no reader is told *)
(* the end of its input while its writer may still write, no writer is      *)
(* killed while its reader may still read, also while later commands have   *)
(* not been forked yet.                                                     *)
Phase(c) ==
  CASE stage[c] \in {"stdin", "stdout", "close"} -> "starting"
    [] stage[c] = "exited"  -> "ended"
    [] stage[c] = "running" -> "running"
    [] stage[c] = "unborn" /\ pc \in {"leaving", "gone"} -> "never"
    [] OTHER -> "planned"

Chain == INSTANCE PipeChain WITH
  Commands <- Children, Links <- Pipes, held <- buf,
  phase <- [c \in Children |-> Phase(c)]

ChainSpec == Chain!Spec

-----------------------------------------------------------------------------
(* A reader is told the end of its input once its writer has ended or was   *)
(* never started: no other process keeps the write end open.                *)
EofArrives ==
  \A c \in Children \ {0} :
    (stage[c] = "running" /\ c \notin infile /\ Phase(c - 1) \in {"ended", "never"})
      ~> (c \in eof \/ stage[c] = "exited")

(* A writer is stopped once its reader has ended or was never started.      *)
WriterIsTold ==
  \A c \in Pipes :
    (stage[c] = "running" /\ c \notin outfile /\ Phase(c + 1) \in {"ended", "never"})
      ~> stage[c] = "exited"
=============================================================================
