----------------------------- MODULE JobControl -----------------------------
(***************************************************************************)
(* The job control of YegaShell: one thread that reads lines, launches     *)
(* pipelines, waits for them and runs jobs, fg and bg; the SIGCHLD handler *)
(* that interrupts it between any two steps and shares pending_bg_jobs and *)
(* child_changed with it; and the kernel, which keeps the children, their  *)
(* process groups, the unreported stops and exits and the terminal.        *)
(*                                                                         *)
(* A job is its number: create_job appends at the tail and job_num only    *)
(* grows, so the order of the list is the order of the numbers.  A process *)
(* is its pid, and no pid is used twice (see README, "Assumptions").       *)
(***************************************************************************)
EXTENDS Naturals, Sequences, FiniteSets

CONSTANTS
  Pids,          \* the pids the kernel may hand out
  NoPid,         \* last_pid of a job with no process yet
  Codes,         \* the values $? can take from a child: exit code or 128+signal
  MaxJobs,       \* bound: jobs launched
  MaxProcs,      \* bound: commands in a pipeline
  MaxStops,      \* bound: stops (^Z or an outside SIGSTOP) of the children
  MaxConts,      \* bound: SIGCONTs sent to a child from outside the shell
  PendingMax,    \* the length of pending_bg_jobs, 256 in the code
  ForkMayFail    \* whether the kernel may refuse a fork

ASSUME PidsAssumption   == IsFiniteSet(Pids) /\ NoPid \notin Pids
ASSUME CodesAssumption  == 0 \in Codes /\ Codes \subseteq Nat
ASSUME BoundsAssumption == /\ MaxJobs \in Nat /\ MaxProcs \in Nat
                           /\ MaxStops \in Nat /\ MaxConts \in Nat
                           /\ PendingMax \in Nat
                           /\ ForkMayFail \in BOOLEAN

JobNums == 1..MaxJobs
Shell   == 0                        \* owner of the terminal at the prompt

VARIABLES
  (* the kernel *)
  kstate,            \* the life of each pid
  code,              \* how each ended child ended
  sigchld,           \* SIGCHLD is pending for the shell
  tty,               \* the foreground process group: Shell or a job's
  hupped,            \* children that were sent HUP, CONT and TERM by kill_jobs
  stops, conts,      \* stops and outside continues so far
  (* shared with the handler *)
  pending,           \* pending_bg_jobs[0 .. pending_indx - 1]
  child_changed,
  handling,          \* the shell's thread is inside sigchld_handler
  dropped,           \* history: queue entries discarded without being applied
  (* the shell *)
  pc, cmd, cur,      \* where it is, for which command, on which job
  count,             \* mark_bg_jobs' parameter pending_count
  toFork,            \* processes of the launched pipeline still to fork
  blocked,           \* SIGCHLD is in the signal mask
  prev_mask,         \* the mask block_parent_signals saved
  last_exit_status,
  (* the job list *)
  jobs,              \* numbers of the listed jobs
  job_num,           \* the next job's number
  pids,              \* pids of each job
  last_pid,          \* job->pids[num_procs - 1]
  background,        \* jobs whose background flag is set
  completed, stopped \* pids whose Process has that flag set

kernelVars == <<kstate, code, sigchld, tty, hupped, stops, conts>>
queueVars  == <<pending, child_changed, handling, dropped>>
maskVars   == <<blocked, prev_mask>>
tableVars  == <<jobs, job_num, pids, last_pid, background>>
flagVars   == <<completed, stopped>>
stepVars   == <<pc, cmd, cur, count, toFork>>
vars == <<kernelVars, queueVars, maskVars, tableVars, flagVars, stepVars,
          last_exit_status>>

-----------------------------------------------------------------------------
(* The kernel's view of the children *)

Unborn   == {p \in Pids : kstate[p] = "unborn"}
Unreaped == {p \in Pids : kstate[p] \notin {"unborn", "reaped"}}
WaitableExitsOnly == {p \in Pids : kstate[p] = "zombie"} \* mutant: no WUNTRACED
Waitable == {p \in Pids : kstate[p] \in {"stopped_new", "zombie"}}
Halted   == {p \in Pids : kstate[p] \in {"stopped_new", "stopped"}}

(* A process group exists while a member is not reaped, zombies included. *)
Group(n)  == pids[n] \cap Unreaped

(* What waitpid(.., WUNTRACED) reports of p, and what is left of p after it. *)
StatusOf(p) == IF kstate[p] = "zombie" THEN "exited" ELSE "stopped"
Collected(p) ==
  [kstate EXCEPT ![p] = IF kstate[p] = "zombie" THEN "reaped" ELSE "stopped"]

(* kill(-pgid, SIGCONT): the stopped members run again.  A stop nobody has  *)
(* collected yet is no longer reported.                                     *)
Resumed(S) ==
  [p \in Pids |-> IF p \in S \cap Halted THEN "running" ELSE kstate[p]]

(* The shell's thread runs on: it is not over, not inside the handler.      *)
Over    == {"done", "crashed", "corrupt"}
Leaving == {"cleanup"} \cup Over
At(l)   == pc = l /\ ~handling

-----------------------------------------------------------------------------
(* The job list *)

SomeProcessCompleted(n) == pids[n] \cap completed # {}          \* mutant
CompletedOrStopped(n) == pids[n] \subseteq completed \cup stopped \* mutant
JobIsCompleted(n) == pids[n] \subseteq completed
JobIsStopped(n)   == pids[n] \subseteq stopped \cup completed
Listed            == UNION {pids[n] : n \in jobs}

KeepJob(n) == jobs                                              \* mutant
FreeJob(n) == jobs \ {n}

KeepMarks(n)        == stopped                                  \* mutant
ClearStoppedMark(n) == stopped \ pids[n]

LastJob           == {n \in jobs : \A m \in jobs : m <= n}

(* find_job: no argument designates the last job, %n the job numbered n.    *)
NoArg        == 0
FindJob(arg) == IF arg = NoArg THEN LastJob ELSE jobs \cap {arg}

-----------------------------------------------------------------------------
Init ==
  /\ kstate = [p \in Pids |-> "unborn"]
  /\ code = [p \in Pids |-> 0]
  /\ sigchld = FALSE /\ tty = Shell /\ hupped = {} /\ stops = 0 /\ conts = 0
  /\ pending = <<>> /\ child_changed = FALSE /\ handling = FALSE
  /\ dropped = {}
  /\ pc = "top" /\ cmd = "none" /\ cur = 0 /\ count = 0 /\ toFork = 0
  /\ blocked = FALSE /\ prev_mask = FALSE
  /\ last_exit_status = 0
  /\ jobs = {} /\ job_num = 1
  /\ pids = [n \in JobNums |-> {}]
  /\ last_pid = [n \in JobNums |-> NoPid]
  /\ background = {} /\ completed = {} /\ stopped = {}

-----------------------------------------------------------------------------
(* The children and whoever signals them *)

ProcExit(p, c) ==
  /\ pc \notin Over
  /\ kstate[p] \in {"running", "stopped_new", "stopped"}
  /\ kstate' = [kstate EXCEPT ![p] = "zombie"]
  /\ code' = [code EXCEPT ![p] = c]
  /\ sigchld' = TRUE
  /\ UNCHANGED <<tty, hupped, stops, conts, queueVars, maskVars, tableVars,
                 flagVars, stepVars, last_exit_status>>

ProcStop(p) ==
  /\ pc \notin Over /\ stops < MaxStops
  /\ kstate[p] = "running"
  /\ kstate' = [kstate EXCEPT ![p] = "stopped_new"]
  /\ stops' = stops + 1
  /\ sigchld' = TRUE
  /\ UNCHANGED <<code, tty, hupped, conts, queueVars, maskVars, tableVars,
                 flagVars, stepVars, last_exit_status>>

ProcContinue(p) ==
  /\ pc \notin Over /\ conts < MaxConts
  /\ p \in Halted
  /\ kstate' = Resumed({p})
  /\ conts' = conts + 1
  /\ sigchld' = TRUE
  /\ UNCHANGED <<code, tty, hupped, stops, queueVars, maskVars, tableVars,
                 flagVars, stepVars, last_exit_status>>

-----------------------------------------------------------------------------
(* sigchld_handler: runs on the shell's thread, between any two steps of it *)

DeliverSigchld ==
  /\ sigchld /\ ~blocked /\ ~handling /\ pc \notin Over
  /\ sigchld' = FALSE
  /\ handling' = TRUE
  /\ UNCHANGED <<kstate, code, tty, hupped, stops, conts, pending,
                 child_changed, dropped, maskVars, tableVars, flagVars,
                 stepVars, last_exit_status>>

(* The entry is written without a look at the array's end: past it, memory  *)
(* that is not the queue's is overwritten and nothing is known any more.    *)
QueuePendingProcs(entry) ==
  IF Len(pending) < PendingMax
  THEN /\ pending' = Append(pending, entry)
       /\ UNCHANGED <<dropped, pc, handling>>
  ELSE /\ pc' = "corrupt" /\ handling' = FALSE
       /\ dropped' = dropped \cup {entry}
       /\ UNCHANGED pending

HandlerReap(p) ==
  /\ handling /\ p \in Waitable
  /\ kstate' = Collected(p)
  /\ child_changed' = TRUE
  /\ QueuePendingProcs([pid |-> p, status |-> StatusOf(p)])
  /\ UNCHANGED <<code, sigchld, tty, hupped, stops, conts, maskVars,
                 tableVars, flagVars, cmd, cur, count, toFork,
                 last_exit_status>>

HandlerReturn ==
  /\ handling /\ Waitable = {}
  /\ handling' = FALSE
  /\ UNCHANGED <<kernelVars, pending, child_changed, dropped, maskVars,
                 tableVars, flagVars, stepVars, last_exit_status>>

HandlerStep == DeliverSigchld \/ (\E p \in Pids : HandlerReap(p)) \/ HandlerReturn

-----------------------------------------------------------------------------
(* The top of the loop in shell(), and mark_bg_jobs *)

Top ==
  /\ At("top")
  /\ child_changed' = FALSE
  /\ pc' = IF child_changed THEN "mark" ELSE "prompt"
  /\ cmd' = "none" /\ cur' = 0
  /\ UNCHANGED <<kernelVars, pending, handling, dropped, maskVars, tableVars,
                 flagVars, count, toFork, last_exit_status>>

(* The call passes pending_indx by value ... *)
MarkRead ==
  /\ At("mark")
  /\ count' = Len(pending)
  /\ pc' = "apply"
  /\ UNCHANGED <<kernelVars, queueVars, maskVars, tableVars, flagVars, cmd,
                 cur, toFork, last_exit_status>>

(* ... and the function ends with pending_indx = 0, whatever came meanwhile. *)
AnyMarked(status) == {pending[i].pid : i \in 1..count}  \* mutant: no WIFSTOPPED
ButLastMarked(status) ==                                \* mutant: i < count - 1
  {pending[i].pid : i \in {j \in 1..count : j < count /\ pending[j].status = status}}
Marked(status) ==
  {pending[i].pid : i \in {j \in 1..count : pending[j].status = status}}
Late           == {pending[i] : i \in (count + 1)..Len(pending)}

MarkWithoutReset ==  \* mutant: pending_indx is not set to 0
  /\ At("apply")
  /\ stopped' = stopped \cup (Marked("stopped") \cap Listed)
  /\ completed' = completed \cup (Marked("exited") \cap Listed)
  /\ count' = 0
  /\ pc' = IF cmd = "none" THEN "notify" ELSE IF cmd = "jobs" THEN "list" ELSE "find"
  /\ UNCHANGED <<kernelVars, queueVars, maskVars, tableVars, cmd, cur, toFork,
                 last_exit_status>>

MarkApply ==
  /\ At("apply")
  /\ stopped' = stopped \cup (Marked("stopped") \cap Listed)
  /\ completed' = completed \cup (Marked("exited") \cap Listed)
  /\ pending' = <<>>
  /\ dropped' = dropped \cup Late
  /\ count' = 0
  /\ pc' = IF cmd = "none" THEN "notify" ELSE IF cmd = "jobs" THEN "list" ELSE "find"
  /\ UNCHANGED <<kernelVars, child_changed, handling, maskVars, tableVars,
                 cmd, cur, toFork, last_exit_status>>

(* notify_bg_jobs at the prompt, the walk of jobs_func: completed jobs go.  *)
Retire == jobs' = {n \in jobs : ~JobIsCompleted(n)}

NotifyThenClear ==   \* mutant: child_changed = 0 after the marking
  /\ At("notify")
  /\ Retire
  /\ child_changed' = FALSE
  /\ pc' = "prompt"
  /\ UNCHANGED <<kernelVars, pending, handling, dropped, maskVars, job_num,
                 pids, last_pid, background, flagVars, cmd, cur, count, toFork,
                 last_exit_status>>

Notify ==
  /\ At("notify")
  /\ Retire
  /\ pc' = "prompt"
  /\ UNCHANGED <<kernelVars, queueVars, maskVars, job_num, pids, last_pid,
                 background, flagVars, cmd, cur, count, toFork,
                 last_exit_status>>

ListJobs ==
  /\ At("list")
  /\ Retire
  /\ last_exit_status' = 0
  /\ pc' = "top"
  /\ UNCHANGED <<kernelVars, queueVars, maskVars, job_num, pids, last_pid,
                 background, flagVars, cmd, cur, count, toFork>>

-----------------------------------------------------------------------------
(* What the user may type at the prompt *)

(* An empty line, a line the tokenizer refuses, or ^C: the loop starts over. *)
EmptyLine ==
  /\ At("prompt")
  /\ pc' = "top"
  /\ UNCHANGED <<kernelVars, queueVars, maskVars, tableVars, flagVars, cmd,
                 cur, count, toFork, last_exit_status>>

(* cd, help, pwd, export, unset: no effect on jobs but $?.                   *)
OtherBuiltin(s) ==
  /\ At("prompt")
  /\ last_exit_status' = s
  /\ pc' = "top"
  /\ UNCHANGED <<kernelVars, queueVars, maskVars, tableVars, flagVars, cmd,
                 cur, count, toFork>>

(* jobs, fg and bg begin by marking.                                         *)
JobBuiltin(b) ==
  /\ At("prompt")
  /\ cmd' = b
  /\ pc' = "mark"
  /\ UNCHANGED <<kernelVars, queueVars, maskVars, tableVars, flagVars, cur,
                 count, toFork, last_exit_status>>

(* create_job and initialize_job_control: the job goes to the tail.          *)
CreateJob(bg) ==
  /\ jobs' = jobs \cup {job_num}
  /\ background' = IF bg THEN background \cup {job_num} ELSE background
  /\ cur' = job_num /\ job_num' = job_num + 1

(* A pipeline of k commands, in the background or not.                       *)
LaunchOneMore(k, bg) ==   \* mutant: get_num_procs counts one too many
  /\ At("prompt") /\ job_num <= MaxJobs /\ k <= Cardinality(Unborn)
  /\ CreateJob(bg)
  /\ toFork' = k + 1
  /\ cmd' = "launch" /\ pc' = "block"
  /\ UNCHANGED <<kernelVars, queueVars, maskVars, pids, last_pid, flagVars,
                 count, last_exit_status>>

Launch(k, bg) ==
  /\ At("prompt") /\ job_num <= MaxJobs /\ k <= Cardinality(Unborn)
  /\ CreateJob(bg)
  /\ toFork' = k
  /\ cmd' = "launch" /\ pc' = "block"
  /\ UNCHANGED <<kernelVars, queueVars, maskVars, pids, last_pid, flagVars,
                 count, last_exit_status>>

(* exit stores its argument, the end of input leaves $? as it is.            *)
ExitShell(s) ==
  /\ At("prompt")
  /\ last_exit_status' = s
  /\ pc' = "cleanup"
  /\ UNCHANGED <<kernelVars, queueVars, maskVars, tableVars, flagVars, cmd,
                 cur, count, toFork>>

(* A misplaced & or |: initalize_processes returns NULL and is_bulitin       *)
(* follows it.                                                               *)
BadLine ==
  /\ At("prompt")
  /\ pc' = "crashed"
  /\ UNCHANGED <<kernelVars, queueVars, maskVars, tableVars, flagVars, cmd,
                 cur, count, toFork, last_exit_status>>

UserLine ==
  \/ EmptyLine \/ BadLine
  \/ \E s \in {0, 1} : OtherBuiltin(s)
  \/ \E b \in {"jobs", "fg", "bg"} : JobBuiltin(b)
  \/ \E k \in 1..MaxProcs, bg \in BOOLEAN : Launch(k, bg)
  \/ \E s \in Codes \cup {last_exit_status} : ExitShell(s)

-----------------------------------------------------------------------------
(* fg_func and bg_func up to the signal *)

Refuse ==
  /\ last_exit_status' = 1
  /\ pc' = "top"
  /\ UNCHANGED <<kernelVars, queueVars, tableVars, flagVars, cmd, cur, count,
                 toFork>>

(* No such job, or a job already completed.                                  *)
FindRefuses(arg) ==
  /\ At("find")
  /\ \A n \in FindJob(arg) : JobIsCompleted(n)
  /\ Refuse
  /\ UNCHANGED maskVars

FindTakes(arg) ==
  /\ At("find")
  /\ \E n \in FindJob(arg) :
       /\ ~JobIsCompleted(n)
       /\ cur' = n
       /\ background' = IF cmd = "bg" THEN background \cup {n} ELSE background
  /\ pc' = "block"
  /\ UNCHANGED <<kernelVars, queueVars, maskVars, jobs, job_num, pids,
                 last_pid, flagVars, cmd, count, toFork, last_exit_status>>

(* block_parent_signals, for the three commands that call it.                *)
ForkUnblocked ==     \* mutant: the launch does not block SIGCHLD
  /\ At("block")
  /\ prev_mask' = blocked
  /\ blocked' = (cmd # "launch")
  /\ pc' = IF cmd = "launch" THEN "fork" ELSE "cont"
  /\ UNCHANGED <<kernelVars, queueVars, tableVars, flagVars, cmd, cur, count,
                 toFork, last_exit_status>>

BlockSignals ==
  /\ At("block")
  /\ prev_mask' = blocked
  /\ blocked' = TRUE
  /\ pc' = IF cmd = "launch" THEN "fork" ELSE "cont"
  /\ UNCHANGED <<kernelVars, queueVars, tableVars, flagVars, cmd, cur, count,
                 toFork, last_exit_status>>

(* The job is stopped: its flags are cleared and its group is signalled;     *)
(* kill fails when the group is gone.  Otherwise nothing is sent.            *)
After == IF cmd = "fg" THEN "give" ELSE "restore"

ContStopped ==
  /\ At("cont") /\ JobIsStopped(cur) /\ Group(cur) # {}
  /\ stopped' = ClearStoppedMark(cur)
  /\ kstate' = Resumed(pids[cur])
  /\ sigchld' = (sigchld \/ Group(cur) \cap Halted # {})
  /\ pc' = After
  /\ UNCHANGED <<code, tty, hupped, stops, conts, queueVars, maskVars,
                 tableVars, completed, cmd, cur, count, toFork,
                 last_exit_status>>

ContFailsBlocked ==  \* mutant: the mask is not restored on this path
  /\ At("cont") /\ JobIsStopped(cur) /\ Group(cur) = {}
  /\ stopped' = ClearStoppedMark(cur)
  /\ last_exit_status' = 1
  /\ pc' = "top"
  /\ UNCHANGED <<kernelVars, queueVars, maskVars, tableVars, completed, cmd,
                 cur, count, toFork>>

ContFails ==
  /\ At("cont") /\ JobIsStopped(cur) /\ Group(cur) = {}
  /\ stopped' = ClearStoppedMark(cur)
  /\ blocked' = prev_mask
  /\ last_exit_status' = 1
  /\ pc' = "top"
  /\ UNCHANGED <<kernelVars, queueVars, prev_mask, tableVars, completed, cmd,
                 cur, count, toFork>>

ContNothing ==
  /\ At("cont") /\ ~JobIsStopped(cur)
  /\ pc' = After
  /\ UNCHANGED <<kernelVars, queueVars, maskVars, tableVars, flagVars, cmd,
                 cur, count, toFork, last_exit_status>>

-----------------------------------------------------------------------------
(* execute: fork_and_setup_processes, and the error paths of executor *)

(* parent_setup: the pid goes to the Process, the group and job->pids.       *)
ParentSetup(p) ==
  /\ pids' = [pids EXCEPT ![cur] = @ \cup {p}]
  /\ last_pid' = [last_pid EXCEPT ![cur] = p]

(* setup_job_control: which of the two handlers goes on.                     *)
SetupJobControl == IF cur \in background THEN "restore" ELSE "give"

Fork(p) ==
  /\ At("fork") /\ p \in Unborn
  /\ kstate' = [kstate EXCEPT ![p] = "running"]
  /\ ParentSetup(p)
  /\ toFork' = toFork - 1
  /\ pc' = IF toFork > 1 THEN "fork" ELSE SetupJobControl
  /\ UNCHANGED <<code, sigchld, tty, hupped, stops, conts, queueVars,
                 maskVars, jobs, job_num, background, flagVars, cmd, cur,
                 count, last_exit_status>>

(* initialize_envp, setup_exec_resource, create_pipes fail before the mask   *)
(* is changed, fork after it; executor frees the job, shell() leaves.        *)
LaunchFails ==
  /\ ForkMayFail
  /\ cmd = "launch" /\ (At("block") \/ At("fork"))
  /\ jobs' = FreeJob(cur)
  /\ pc' = "cleanup"
  /\ UNCHANGED <<kernelVars, queueVars, maskVars, job_num, pids, last_pid,
                 background, flagVars, cmd, cur, count, toFork,
                 last_exit_status>>

-----------------------------------------------------------------------------
(* handle_foreground_job and handle_background_job *)

(* tcsetpgrp fails when the group is gone, which is only reported.           *)
GiveTerminal ==
  /\ At("give")
  /\ tty' = IF Group(cur) # {} THEN cur ELSE tty
  /\ pc' = "wait"
  /\ UNCHANGED <<kstate, code, sigchld, hupped, stops, conts, queueVars,
                 maskVars, tableVars, flagVars, cmd, cur, count, toFork,
                 last_exit_status>>

Collect(p) ==
  /\ p \in pids[cur] \cap Waitable
  /\ kstate' = Collected(p)
  /\ IF StatusOf(p) = "exited"
     THEN completed' = completed \cup {p} /\ UNCHANGED stopped
     ELSE stopped' = stopped \cup {p} /\ UNCHANGED completed

AnyStatus(p) ==      \* mutant: the pid is not compared with the last one's
  IF StatusOf(p) = "exited" THEN code[p] ELSE last_exit_status
StoredStatus(p) ==
  IF p = last_pid[cur] /\ StatusOf(p) = "exited"
  THEN code[p] ELSE last_exit_status

(* One turn of wait_for_children: a stop ends the wait.                      *)
WaitOne(p) ==
  /\ At("wait")
  /\ Collect(p)
  /\ last_exit_status' = StoredStatus(p)
  /\ pc' = IF StatusOf(p) = "stopped" THEN "drain" ELSE "wait"
  /\ UNCHANGED <<code, sigchld, tty, hupped, stops, conts, queueVars,
                 maskVars, tableVars, cmd, cur, count, toFork>>

(* ECHILD: no child is left in the group.                                    *)
WaitDone ==
  /\ At("wait") /\ Group(cur) = {}
  /\ pc' = "drain"
  /\ UNCHANGED <<kernelVars, queueVars, maskVars, tableVars, flagVars, cmd,
                 cur, count, toFork, last_exit_status>>

(* drain_remaining_statuses: never blocks, never stores an exit status.      *)
DrainOne(p) ==
  /\ At("drain")
  /\ Collect(p)
  /\ UNCHANGED <<code, sigchld, tty, hupped, stops, conts, queueVars,
                 maskVars, tableVars, stepVars, last_exit_status>>

DrainDone ==
  /\ At("drain") /\ pids[cur] \cap Waitable = {}
  /\ pc' = "reclaim"
  /\ UNCHANGED <<kernelVars, queueVars, maskVars, tableVars, flagVars, cmd,
                 cur, count, toFork, last_exit_status>>

ReclaimTerminal ==
  /\ At("reclaim")
  /\ tty' = Shell
  /\ pc' = "finish"
  /\ UNCHANGED <<kstate, code, sigchld, hupped, stops, conts, queueVars,
                 maskVars, tableVars, flagVars, cmd, cur, count, toFork,
                 last_exit_status>>

(* do_job_notification and the mask; fg_func then returns 0, which           *)
(* builtin_routine stores over whatever the wait had stored.                 *)
Finish ==
  /\ At("finish")
  /\ jobs' = IF JobIsCompleted(cur) THEN FreeJob(cur) ELSE jobs
  /\ blocked' = prev_mask
  /\ last_exit_status' = IF cmd = "fg" THEN 0 ELSE last_exit_status
  /\ pc' = "top"
  /\ UNCHANGED <<kernelVars, queueVars, prev_mask, job_num, pids, last_pid,
                 background, flagVars, cmd, cur, count, toFork>>

RestoreBackground ==
  /\ At("restore")
  /\ blocked' = prev_mask
  /\ last_exit_status' = IF cmd = "bg" THEN 0 ELSE last_exit_status
  /\ pc' = "top"
  /\ UNCHANGED <<kernelVars, queueVars, prev_mask, tableVars, flagVars, cmd,
                 cur, count, toFork>>

-----------------------------------------------------------------------------
(* clean_up: kill_jobs on every listed job, then free_all_jobs *)

KillJobs ==
  /\ hupped' = hupped \cup (Listed \cap Unreaped)
  /\ kstate' = Resumed(Listed)

CleanUp ==
  /\ At("cleanup")
  /\ KillJobs
  /\ jobs' = {}
  /\ pc' = "done"
  /\ UNCHANGED <<code, sigchld, tty, stops, conts, queueVars, maskVars,
                 job_num, pids, last_pid, background, flagVars, cmd, cur,
                 count, toFork, last_exit_status>>

(* A shell that is over does nothing more.                                   *)
Terminated == pc \in Over /\ UNCHANGED vars

-----------------------------------------------------------------------------
ShellStep ==
  \/ Top \/ MarkRead \/ MarkApply \/ Notify \/ ListJobs
  \/ \E arg \in JobNums \cup {NoArg} : FindRefuses(arg) \/ FindTakes(arg)
  \/ BlockSignals \/ ContStopped \/ ContFails \/ ContNothing
  \/ (\E p \in Pids : Fork(p)) \/ LaunchFails
  \/ GiveTerminal \/ (\E p \in Pids : WaitOne(p)) \/ WaitDone
  \/ (\E p \in Pids : DrainOne(p)) \/ DrainDone
  \/ ReclaimTerminal \/ Finish \/ RestoreBackground
  \/ CleanUp

ChildStep ==
  \E p \in Pids : \/ \E c \in Codes : ProcExit(p, c)
                  \/ ProcStop(p)
                  \/ ProcContinue(p)

Next == ShellStep \/ UserLine \/ HandlerStep \/ ChildStep \/ Terminated

Spec == Init /\ [][Next]_vars

(* The thread runs while it is not blocked.  A signal that becomes           *)
(* deliverable again and again is delivered: sigprocmask does not return     *)
(* before it, hence strong fairness.  Nothing is assumed of the user or of   *)
(* the children.                                                             *)
FairSpec ==
  Spec /\ WF_vars(ShellStep) /\ WF_vars(HandlerStep) /\ SF_vars(DeliverSigchld)

(* Also: the user keeps pressing Enter and programs end.                     *)
BusySpec ==
  /\ FairSpec
  /\ WF_vars(EmptyLine)
  /\ \A p \in Pids : WF_vars(\E c \in Codes : ProcExit(p, c))

-----------------------------------------------------------------------------
KStates == {"unborn", "running", "stopped_new", "stopped", "zombie", "reaped"}
Entries == [pid : Pids, status : {"stopped", "exited"}]
PCs     == {"top", "mark", "apply", "notify", "list", "prompt", "find", "block",
            "cont", "fork", "give", "wait", "drain", "reclaim", "finish",
            "restore", "cleanup"} \cup Over

TypeOK ==
  /\ kstate \in [Pids -> KStates]
  /\ code \in [Pids -> Codes]
  /\ sigchld \in BOOLEAN
  /\ tty \in JobNums \cup {Shell}
  /\ hupped \subseteq Pids
  /\ stops \in 0..MaxStops /\ conts \in 0..MaxConts
  /\ pending \in Seq(Entries)
  /\ dropped \subseteq Entries
  /\ child_changed \in BOOLEAN /\ handling \in BOOLEAN
  /\ pc \in PCs
  /\ cmd \in {"none", "jobs", "fg", "bg", "launch"}
  /\ cur \in JobNums \cup {0}
  /\ count \in 0..Len(pending)
  /\ toFork \in 0..MaxProcs
  /\ blocked \in BOOLEAN /\ prev_mask \in BOOLEAN
  /\ last_exit_status \in Codes \cup {0, 1}
  /\ jobs \subseteq 1..(job_num - 1)
  /\ job_num \in 1..(MaxJobs + 1)
  /\ pids \in [JobNums -> SUBSET Pids]
  /\ last_pid \in [JobNums -> Pids \cup {NoPid}]
  /\ background \subseteq JobNums
  /\ completed \subseteq Pids /\ stopped \subseteq Pids

-----------------------------------------------------------------------------
(* The promises of the job list: JobControl implements JobLedger *)

Ledger == INSTANCE JobLedger WITH
  listed  <- jobs,
  opened  <- 1..(job_num - 1),
  members <- pids,
  reaped  <- {p \in Pids : kstate[p] = "reaped"},
  ending  <- pc \in Leaving

(* A job is entered before its first fork, keeps the processes forked for   *)
(* it, and leaves the list only when all of them are reaped, whichever of   *)
(* the prompt, jobs, fg and the launch itself retires it (job_utils.c,      *)
(* builtin.c).                                                              *)
LedgerSpec == Ledger!Spec

-----------------------------------------------------------------------------
(* Safety *)

Entry(p, s) == [pid |-> p, status |-> s]
Queued      == {pending[i] : i \in DOMAIN pending}

(* A Process is marked completed only when its child really has been        *)
(* reaped: mark_bg_jobs, wait_for_children and drain_remaining_statuses.    *)
CompletedIsReaped == \A p \in completed : kstate[p] = "reaped"

(* The end of a listed job's process, once collected by whichever of the    *)
(* handler, the wait and the drain came first, is in the Process or still   *)
(* in pending_bg_jobs, or it was discarded by mark_bg_jobs' reset.          *)
EndIsAccounted ==
  \A p \in Listed : kstate[p] = "reaped" =>
    \/ p \in completed
    \/ Entry(p, "exited") \in Queued \cup dropped

(* No entry is left behind: whatever the queue holds will be marked before  *)
(* the next prompt, because child_changed is cleared before, not after, the *)
(* queue is read (shell.c:65-69).                                           *)
QueueIsAnnounced == Queued # {} => child_changed \/ pc \in {"mark", "apply"}

(* An end waits in the queue once, for a listed job that still lacks it: no *)
(* stale entry can be applied to a later process of the same pid.           *)
QueueIsFresh ==
  pc \notin Leaving =>
    \A i \in DOMAIN pending : pending[i].status = "exited" =>
      /\ pending[i].pid \in Listed \ completed
      /\ \A j \in DOMAIN pending :
           pending[j] = pending[i] => j = i

(* pending_bg_jobs fills only with ends still owed to listed processes and   *)
(* with stops, each once: it takes more than 256 of them to write past its   *)
(* end, however many prompts, launches and waits went before, which          *)
(* queue_pending_procs does not look for (job_utils.c:161).                  *)
QueueIsShort ==
  pc \notin Leaving => Len(pending) <= Cardinality(Listed \ completed) + stops

(* Every child that has not been reaped is in a job on the list, until the  *)
(* shell leaves: free_job never forgets a child that still runs.            *)
LiveIsListed == pc \notin Leaving => Unreaped \subseteq Listed

(* At the prompt the terminal is the shell's and SIGCHLD is not blocked,    *)
(* however the previous command ended: fg of a job that is gone, a stop,    *)
(* a kill that fails (job_control.c, builtin.c).                            *)
PromptIsRestored == pc = "prompt" => tty = Shell /\ ~blocked

(* While a pipeline is being forked its group still exists, so that each    *)
(* later setpgid has a group to join: a leader that has already ended stays *)
(* a zombie because SIGCHLD is blocked (executor.c:43, process_control.c).  *)
GroupIsJoinable ==
  pc = "fork" /\ pids[cur] # {} => Group(cur) # {}

(* kill_jobs never signals group 0, the shell's own: no job without a       *)
(* process is on the list when the shell leaves.                            *)
NoEmptyGroup == pc = "cleanup" => \A n \in jobs : pids[n] # {}

(* The statuses of a job being launched go to the launch: from the block to *)
(* the restored mask the handler queues none of them.                       *)
LaunchKeepsStatuses ==
  cmd = "launch" /\ pc \in {"fork", "give", "wait", "drain", "reclaim", "finish", "restore"}
    => \A p \in pids[cur], s \in {"stopped", "exited"} :
         Entry(p, s) \notin Queued \cup dropped

(* A process marked stopped is stopped or has ended, unless somebody else   *)
(* continues children (the shell does not wait for that): a job is not      *)
(* reported Stopped while it runs.                                          *)
StoppedIsStopped == conts = 0 => \A p \in stopped \cap Listed : kstate[p] # "running"

(* When a launched foreground job has completed, $? is how the last command *)
(* of the pipeline ended (job_control.c:71-77), as long as no stop has cut  *)
(* a wait short: the drain after a stop stores no status.                   *)
StatusIsLastCommand ==
  stops = 0 /\ cmd = "launch" /\ pc = "finish" /\ JobIsCompleted(cur)
    => last_exit_status = code[last_pid[cur]]

(* When the shell has gone, every child left was told to hang up by         *)
(* kill_jobs, except those of a pipeline whose own launch failed: executor  *)
(* frees that job first, so that kill_jobs does not know it.                *)
HangUpReachesAll ==
  pc = "done" =>
    Unreaped \subseteq hupped \cup (IF cmd = "launch" THEN pids[cur] ELSE {})

-----------------------------------------------------------------------------
(* Liveness *)

(* The wait for a launched foreground job ends when none of its processes   *)
(* runs any more: a stop is reported (WUNTRACED) and the last end gives     *)
(* ECHILD.                                                                  *)
LaunchedWaitEnds ==
  (pc = "wait" /\ cmd = "launch" /\ \A p \in pids[cur] : kstate[p] # "running")
    ~> (pc # "wait" \/ \E p \in pids[cur] : kstate[p] = "running")

(* A job whose processes have all ended leaves the list, unless the end of  *)
(* one of them was discarded or the shell is over.                          *)
JobIsRetired ==
  \A n \in JobNums :
    (n \in jobs /\ \A p \in pids[n] : kstate[p] \in {"zombie", "reaped"})
      ~> \/ n \notin jobs
         \/ pc \in Over
         \/ \E p \in pids[n] : Entry(p, "exited") \in dropped \/ kstate[p] = "running"

-----------------------------------------------------------------------------
(* What the repository says of the program and a run refutes *)

(* README.md:156: running jobs refreshes the statuses.  It cannot when an   *)
(* end was discarded.                                                       *)
NoEndIsLost == \A p \in Listed : Entry(p, "exited") \notin dropped

(* builtin.c:82: fg sends SIGCONT to the stopped job.  So it never goes on  *)
(* to wait for a group of which all are stopped and have been reported so:  *)
(* waitpid would return a stop not yet reported at once, but never these.   *)
FgResumes ==
  pc = "give" /\ cmd = "fg" /\ Group(cur) # {}
    => \E p \in Group(cur) : kstate[p] # "stopped"

(* job_control.h:22: last_exit_status is the status of the last job.       *)
FgKeepsStatus ==
  [][cmd = "fg" /\ pc = "finish" /\ pc' = "top" /\ JobIsCompleted(cur)
       => last_exit_status' = code[last_pid[cur]]]_vars

=============================================================================
