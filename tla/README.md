# YegaShell: specification, model checking and proofs

YegaShell is a small job-control shell in C: one thread, one signal handler,
and children that the kernel runs beside it. This directory holds TLA+ modules
translated from its source, TLC configurations that check them on small
instances, and TLAPS proofs of the main invariants for every value of the
constants. Paths below are relative to the repository (`src/job/job_utils.c`);
a definition's exact lines are in `PROJECT.json`, "map".

Run from this directory:

    tlc -config Core.cfg MCJobControl     # also Waits, Retires, LostEnd,
                                          # FgHang, FgStatus
    tlc -config Pipes.cfg MCPipeline
    tlc -config Env.cfg MCEnvTable        # also EnvKeep
    tlc -config Read.cfg MCReadLoop
    tlc -config Front.cfg MCFrontEnd      # also Escapes
    tlapm JobControlProofs.tla            # also LaunchProofs, PipelineProofs,
                                          # EnvTableProofs, ReadLoopProofs,
                                          # FrontEndProofs, ReadingProofs,
                                          # MeaningProofs

## 1. The system

| Component | State it keeps | Operations | Talks to |
|---|---|---|---|
| shell loop (`core/shell.c`, `core/main.c`) | the job list head, `child_changed`, `errno`, `interrupted` | read, tokenize, expand, parse, run a builtin or launch; mark and notify before each prompt; leave and clean up | everything |
| signals (`signals/signal_utils.c`) | handlers, the signal mask, `child_changed`, `interrupted` | `sigchld_handler`, `sigint_handler`, block and unblock, the child's defaults | job queue (shared with the handler) |
| job list and accounting (`job/job_utils.c`) | list of `Job`s with their `Process`es, `pending_bg_jobs[256]`, `pending_indx` | create, find, mark, drain, notify, kill, free | handler (writes the queue), builtins, job control |
| foreground/background control (`job/job_control.c`) | `last_exit_status`, the terminal | give the terminal, wait, drain, reclaim, notify, restore the mask | kernel, job list |
| executor, process control (`exec/executor.c`, `exec/process_control.c`) | pids and the group of the job being launched, pipe ends, envp | block, fork each command, `setpgid` in parent and child, pipes, exec, error paths | job control, env table, redirection |
| parser and process creation (`parser/parser.c`, `exec/process_utils.c`) | token cursor, the `Process` list | split at `\|`, collect redirections, detect `&` | shell loop |
| tokenizer (`tokenizer/tokenizer.c`) | the buffer and the token array (MAXTOKENS) | words, quotes, escapes | shell loop |
| expander (`parser/expander.c`) | - | `$NAME`, `$?`, `$$` in the tokens | env table, `last_exit_status` |
| environment table (`env/env_utils.c`) | 100 chains of `Variable` | lookup, add, remove, dump, build envp | export, unset, expander, executor |
| redirection (`io/io_redirection.c`) | descriptors of the child | open, dup2, close | executor |
| builtins (`builtin/builtin.c`, `utils/helper.c`) | - | jobs, fg, bg, exit, cd, pwd, help, export, unset | job list, job control, env table |

### How they interact

The shell's thread is sequential, but `sigchld_handler` runs on it between any
two instructions while SIGCHLD is not blocked, and shares `pending_bg_jobs`,
`pending_indx` and `child_changed` with it. The children run concurrently:
they end, stop and are continued by the terminal, by the shell or by other
programs at any time. Statuses reach the job list along three paths: the
handler's queue, applied later by `mark_bg_jobs`; `wait_for_children`; and
`drain_remaining_statuses`. SIGCHLD is blocked from before the first fork of a
launch (and from `fg`/`bg`'s decision) until the job has been waited for or put
in the background.

### What is hard

* **Interleaving** with the handler: between the reading of `pending_indx` and
  its reset; between fg's marking and its blocking; between fork and the entry
  of the pid.
* **Order**: the processes of a pipeline end in any order, their ends are
  collected by whichever path comes first, `child_changed` is cleared before the
  queue is read.
* **Stale state**: stopped flags after a SIGCONT, groups that have gone since
  the last look, `errno` left over from another call.
* **Partial failure**: fork fails in the middle of a pipeline; `strdup` fails
  after the old value was freed.
* **Limits**: 256 queue entries, MAXTOKENS tokens.
* **Liveness**: every wait must end, every finished job must leave the list.

`PROJECT.json`, "hazards", lists each one at its line, with the properties that
are about it.

### What makes each component correct

* Job list: a job is listed from before its first fork until all its processes
  are reaped; each end is counted once; no entry of the queue is stale, and none
  waits unannounced.
* Control: every way back to the prompt returns the terminal and the mask; the
  wait for a launched job ends; `$?` is the last command's status.
* Launch: the group can be joined by each later command; no status of the job
  reaches the handler's queue; failure leaves no job that `kill_jobs` would
  signal as group 0.
* Environment table: it implements a map from names to values; envp holds
  exactly the names that are set, once each; no freed string is read.
* Read loop: end of input ends the shell, a signal does not.
* Pipes: every reader sees end of file once its writer is gone and not before;
  every writer gets SIGPIPE once its reader is gone and not before; a command has
  exactly the descriptors its place in the line gives it.
* Tokenizer/parser/expander: bounds of the arrays; every accepted line yields
  a well-formed process list.

## 2. Plan

The order in which the modules were written, the most important behaviour first;
all of it is done.

1. **JobControl** (job list, control, handler, builtins jobs/fg/bg/exit, launch),
   **JobLedger** (what the job list promises), **MCJobControl**,
   **JobControlProofs**, **LaunchProofs**.
2. **Pipeline** (descriptors of the shell and the children), **PipeChain** (what a
   pipeline promises), **MCPipeline**, **PipelineProofs**.
3. **EnvTable** (the chains, `export`, `unset`, envp), **EnvMap** (a map),
   **MCEnvTable**, **EnvTableProofs**.
4. **ReadLoop** (`errno`, `interrupted`, the end of the input, SIGINT and SIGCHLD
   at the read), **MCReadLoop**, **ReadLoopProofs**.
5. **Tokenizer** (character by character), **Parser** with process creation (token
   by token), **Expander**, composed by **FrontEnd** (one line from its characters
   to a builtin or a job); **LineMeaning** (what the whole line means),
   **MCFrontEnd**, **FrontEndProofs**, **ReadingProofs** (the tokens are those of
   the line), **MeaningProofs** (the commands are those of the tokens).

What could follow: `cd` and the working directory, the search of `PATH`, the
allocation failures that end the shell.

## 3. JobControl

### State

| Variable | In the code |
|---|---|
| `kstate`, `code` | the kernel's view of each child: unborn, running, stopped (reported or not), zombie, reaped; how it ended |
| `sigchld`, `handling`, `blocked`, `prev_mask` | SIGCHLD pending; the thread is in the handler; it is in the mask; the mask saved by `block_parent_signals` |
| `tty` | the terminal's foreground group: the shell's (0) or a job's |
| `hupped` | children that `kill_jobs` sent HUP, CONT and TERM |
| `pending`, `child_changed` | `pending_bg_jobs[0 .. pending_indx-1]` and the flag |
| `dropped` | history: entries discarded by the reset of `pending_indx` |
| `pc`, `cmd`, `cur`, `count`, `toFork` | where the thread is, for which command, on which job; the by-value parameter of `mark_bg_jobs`; processes still to fork |
| `jobs`, `job_num`, `pids`, `last_pid`, `background` | the list (numbers are in list order), and the fields of its jobs |
| `completed`, `stopped` | pids whose `Process` has the flag |
| `last_exit_status` | `$?` |

`stops` and `conts` only count towards their bounds.

### Actions

Each action is the code between two points where the handler, a child or the
kernel could make a difference.

* `Top`, `MarkRead`, `MarkApply`, `Notify`: the beginning of the loop
  (`shell.c:60-70`); `mark_bg_jobs` is two actions, since its parameter is
  the value `pending_indx` had before and its last line resets the variable.
* `EmptyLine`, `OtherBuiltin`, `JobBuiltin`, `Launch`, `ExitShell`, `BadLine`:
  the line the user typed. `BadLine` is any syntax error: the process list is
  NULL and `is_bulitin` dereferences it. Which lines these are is FrontEnd's
  subject.
* `ListJobs`, `FindRefuses`, `FindTakes`, `BlockSignals`, `ContStopped`,
  `ContFails`, `ContNothing`: jobs, fg and bg.
* `Fork`, `LaunchFails`: the launch; the error paths of `execute` and `executor`
  free the job and end the loop.
* `GiveTerminal`, `WaitOne`, `WaitDone`, `DrainOne`, `DrainDone`,
  `ReclaimTerminal`, `Finish`, `RestoreBackground`: `job_control.c`.
* `CleanUp`: `kill_jobs` and `free_all_jobs`.
* `DeliverSigchld`, `HandlerReap`, `HandlerReturn`: the handler.
* `ProcExit`, `ProcStop`, `ProcContinue`: the children and whoever signals them.

### Assumptions

* A pid is not used twice while the shell lives; this bounds the model and
  leaves out wrap-around of the pid space.
* `kill`, `waitpid`, `setpgid` and `tcsetpgrp` behave as POSIX says: a group
  exists until its last member is reaped; a stop not yet reported is forgotten
  when the child is continued; a signal pends once, however often it is raised.
* A child is forked, entered in the job and put into its group in one step: the
  two `setpgid` calls, in parent and child, exist so that no one can tell.
* `cmd` and `cur` are reset at the top of the loop, because the variables they
  stand for go out of scope. Nothing is modelled after the shell is over.
* SIGINT, SIGQUIT, terminal reads and `errno` are ReadLoop's, the line is
  FrontEnd's, pipes and redirections are Pipeline's.

### JobLedger

What the list promises, with neither queue nor handler nor flags: a job is
opened empty; processes join it; a process that belongs to a listed job ends; a
job is struck off only when all its processes are reaped, except when the shell
is ending. `JobControl` maps `listed` to `jobs`, `opened` to the numbers handed
out, `members` to `pids`, `reaped` to the pids the kernel has let go, `ending`
to the phases of leaving.

## 4. Pipeline

One launch, seen as descriptor tables: `fds[p][n]` is what number `n` stands for
in the shell (`-1`) or in command `p`. `open` and `pipe` take the lowest free
numbers and `close(n)` closes whatever `n` is at that moment, so that closing a
number twice, or one that has been reused, does what it does in the kernel.

| Variable | In the code |
|---|---|
| `pc`, `num` | where the shell is, and the counter of `create_pipes` or of the fork loop |
| `pipes` | `job_res.pipes`: the two numbers of each pipe |
| `fds`, `buf` | the kernel's descriptor tables and the fill of each pipe |
| `stage` | where each child is: unborn, redirecting stdin, stdout, closing, running, exited |
| `infile`, `outfile` | which commands have a redirection (never changes) |
| `eof`, `broken` | history: who was told the end of its input, who got SIGPIPE |

Actions: `CreatePipe`, `CreateFails` (`create_pipes`); `Fork`, `ForkFails`,
`ParentSetup` (the fork loop); `Cleanup`, `Leave` (`executor.c`);
`ChildStdinSetup`, `ChildStdoutSetup`, `ExecCommand` (`child_setup`, one action
per redirecting call, interleaved with the shell and the siblings); `Exit` (a
child may fail or be killed at any point); `Write`, `Read`, `ReadEof`,
`Sigpipe` (the program the child became). `execute` reads `job->num_procs`
before `setup_exec_resource` has set it, so its final `close_pipe_ends` closes
nothing: `LocalNumProcs` is 0, and `NothingLeftOpen` shows that `parent_setup`
has closed everything by then.

**PipeChain** is the promise without descriptors: commands joined by links; a
reader is told the end of its input only when its writer can write no more and
the link is empty; a writer is told that nobody reads only when its reader can
read no more.

Assumptions: the shell starts with 0, 1 and 2 open and nothing else; the table
is large enough for the pipes (`MaxFd`); a command reads only its standard input
and writes only its standard output. A child that is stopped is one that takes
no step, which safety allows at every point and fairness rules out.

## 5. EnvTable

The table is a function from slots to chains, a chain a sequence of
key/value records with its head first, as `variable_table[i]` and `next` give
it.

| Variable | In the code |
|---|---|
| `table` | `variable_table` |
| `pc`, `todo` | at the prompt, inside `export` or `unset` with the arguments still to look at, ended ("gone") or killed ("crashed") |
| `handed` | envp of the last launch: for each place in the table the variable copied from it |
| `failures` | counts failed allocations towards their bound |

Actions: `Export` starts the builtin with any arguments; per argument,
`SkipInvalid`, `AddNew` (insert at the head, or an allocation fails), `Update`
(overwrite, or `strdup` fails after the `free`), `CopyNothing` (`strdup(NULL)`);
`ExportDone`; `UnsetCommand` starts the other builtin, `Unset` unlinks the name or
does not find it, `UnsetNothing` hashes NULL; and at a launch `BuildEnvp`,
`BuildLost` (`strlen(NULL)`) and `BuildFails`.

* `Update` without `=` copies a string that has just been freed; the model lets
  the copy be any value.
* After a failed `strdup` the variable stays in the table with the value NULL
  (`Lost`). A later launch or a later `export` of that name reads it and the
  shell is killed, unless the name is set or unset first.
* `exported` is left out: both callers pass 1. The table starts empty, since the
  shell does not read its own environment into it.
* Names and values are abstract; `Hash` is any function into the slots, so the
  arithmetic of `hash` does not matter.

**EnvMap** is a map from names to values together with what the user has asked for
(`doing`, `todo`). An argument of an export gives its own name the value it has
(the empty string if it has none and the name is new), an unset takes away the name
it was given, nothing changes another name, and a launched command is handed the
whole map. Two steps are left open: an export without a value of a name that is
set (any value, since the code copies freed memory) and running out of memory (the
value of that name, and of no other, is lost). `EnvTable` maps `env[n]` to the value
the chains have for `n`, `doing` and `todo` to `pc` and `todo`. A variable
overwritten, inserted or unlinked in place of another of its chain, or with another
value than the one asked for, is a step that EnvMap does not have.

## 6. ReadLoop

The prompt (`shell.c:60-85`): what an interrupted or failed read leads to.

| Variable | In the code |
|---|---|
| `pc` | top of the loop, in `getline`, at the test of its result, running a line, over |
| `errno` | EINTR, ECHILD or anything else |
| `interrupted`, `child_changed` | the flags of `signal_utils.c` |
| `result` | what the last `getline` met (its -1 and `feof` follow from it) |
| `input` | the terminal: nothing, a typed line, a ^D, or an end that stays |
| `children` | background children not reaped |
| `left` | why the loop was left |

Actions: `SkipInterrupted`, `Prompt`, the four ways `getline` returns (`GetLine`,
`GetEof`, `GetInterrupted`, `GetError`), `Test`, `Run`; around them `Type`,
`SigInt` (SIGQUIT alike) and `SigChld`. SIGINT is installed without `SA_RESTART`
and SIGCHLD with it, so only the first interrupts `getline`; both handlers may
run between any two steps, and `sigchld_handler`'s last `waitpid` leaves ECHILD in
`errno` when no child is left. `errno` is never reset by the shell. `Run` stands
for the commands: they leave children behind and an `errno` that is the old one,
ECHILD (the wait for a foreground job that ran to its end) or another.

## 7. The front end

One line from `getline` to a builtin or a job. The shell resets everything
between two lines, so a behaviour is one line, and the set of lines is a constant.

| Module | State | In the code |
|---|---|---|
| Tokenizer | `line`, `cursor`, `buffer`, `tokens` | `line_buffer` and its cursor, `token_buffer`, the array with `token_num` |
| | `mode` | the loop `tokenize_line` is in, or how it returned; "overrun" after writing the NULL past the array |
| Parser | `next`, `end`, `cmd`, `procs`, `stage` | the cursors of `parse`, the `Command` being filled, the process list, the function that runs |
| Expander | none | `expand_variable`, `expander`: functions of a token |
| FrontEnd | `ran` | the builtin with its process, or the fields of the new `Job` |

An action of `Tokenizer` reads one character or stores one token (`store_token`
may fail at any time); one of `Parser` takes one token, or one step between two
commands. `FrontEnd` composes them: `Tokenize`, `HandOver`, `Parse`,
`IsBuiltinOfNull` (a refused line reaches `is_bulitin` as NULL) and `Dispatch`.

**LineMeaning** is the reference. It looks at the line as a whole: the set of
positions where tokens start, how far each reaches, the quotes that close, which
backslashes escape (by parity), the stretches between pipes, which token sequences
are well formed, what arguments, files and flags a stretch names, and a relation
between a token and its expansion. Nothing in it is computed along the line: a set
of positions is given by the condition its members meet (`Starts`), a sequence by
the order of the positions (`Rank`), so it shares no loop with the code and can be
reasoned about without recursion. The sizes of the arrays belong to the meaning: a
word that does not fit is several tokens, quotes that do not fit are `Refusable`,
and a line of MAXTOKENS tokens is one of those that end the shell.

Observations, all of which the properties state as the code has them:

* Every syntax error ends the shell: `initalize_processes` returns NULL and
  `is_bulitin` reads it. `OnlyBadLinesKill` says which lines these are, exactly.
* A line of exactly MAXTOKENS tokens writes the final NULL past the array; one more
  is refused.
* A backslash in double quotes keeps the next character as it is and does no more:
  `"\n"` is the letter n.
* `&&`, `||` and `<<` are one token each, but words to the parser: they can be
  arguments and even the name of a program.
* A quoted `|`, `&`, `<`, `>` or `>>` acts as the operator: the parser compares text.
* Matched quotes whose text fills the buffer are reported as unmatched, and a
  longer word is cut in pieces.
* Nothing clears `append_output`: `>> a > b` appends to `b`.
* `argv[0]` is not expanded; an expansion is not split again; a builtin at the head
  of a pipeline drops the rest of the pipeline.
* The text of a job loses a final `&` also when it belongs to `&&`.

## 8. What is checked

| Run | Question | Instance |
|---|---|---|
| `core` | all safety invariants, `$?` of a launched pipeline, the refinement of `JobLedger` | 3 pids, 2 jobs of up to 2 commands, exit codes 0 and 3, 1 stop, launches may fail; 8.3 million states |
| `waits` | the wait for a launched job ends | 1 job of 2 commands, 2 stops, 2 outside continues, fairness |
| `retires` | finished jobs leave the list | 3 pids, 2 jobs, no stops, fairness |
| `lost_end` | refutes: jobs refreshes the statuses | 2 jobs of 1 command |
| `fg_hang` | refutes: fg sends SIGCONT to the stopped job | 1 job of 1 command, 1 stop |
| `fg_status` | refutes: `$?` is the status of the last job | 1 job of 1 command, 2 codes |
| `pipes` | wiring, nothing left open, the refinement of `PipeChain`, end of input and SIGPIPE arrive | 3 commands, every choice of redirections, pipes of capacity 1; 54 thousand states |
| `env` | sound chains, envp without duplicates, the refinement of `EnvMap` | 3 names, two of them in one chain, 1 invalid name, 2 values, exports of up to 2 arguments, 1 failed allocation; 797 thousand states |
| `read` | no ^C ends the shell but in one race; the end of the input is heard | 2 background children, every order of lines, ^C, ^D, read errors and ends; 1368 states |
| `front` | array bounds (but for the NULL after exactly MAXTOKENS tokens), named commands, the tokens, commands and jobs are what the line means, every line ends | all lines up to 4 of 10 characters, up to 6 of the operators and a letter, up to 6 of the quotes, backslash, blank and a letter, up to 5 of `$`, `?`, digit, blank and a letter, up to 7 of `\|`, a quote and a letter; buffer of 4, array of 6; 965 thousand states |
| `escapes` | refutes: `\n` in double quotes is an escape sequence | lines up to 4 of `n`, the double quote and the backslash |
| `env_keep` | refutes: a variable gets the value `add_variable` is called with | as `env`, exports of 1 argument, no failures |

What the invariants say, and which change of the code each one catches, is in
the comments of the module and in `PROJECT.json`, "mutants".

**Bounds.** Every hazard is about at most two jobs (one is marked while the
other's end arrives) of at most two processes (a first and a last command, a
leader and a joiner); three pids are the least that make two jobs of which one
is a real pipeline. One stop is enough for a stop to end a wait, race fg's
decision, or be overtaken by an end; the runs about stops allow two, so that a
process stops again after its SIGCONT. `PendingMax` is the code's 256 and is not
reached there: the queue's length matters only through its overflow, which the
action `HandlerReap` leads to the state `corrupt`. Pids are interchangeable;
symmetry is used in the safety runs and not in the liveness runs.

Three commands are the least with a first, a middle and a last one, and with a
pipe that must be closed while another is still needed; one item per pipe is
enough to be empty, full and non-empty after the writer's end. `MaxFd = 9` is the
least that any launch of three commands can ask for with room to spare, so a
number is always free. For the table, two names in one chain give a head and a
tail to unlink, and a third name checks that other chains stay as they are; the
theorems are for any number.

Two children at the prompt are a last one and one more. For the front end, a buffer
of 4 and an array of 6 stand for MAXLEN and MAXTOKENS: words and quotes that just
fit, just do not fit or are cut once, and lines of 5 and of 6 tokens occur within 6
characters; a word cut twice and a line of more tokens than the array holds take 7,
which the lines of `|`, a quote and a letter have. Five alphabets keep the lines
few: operators, quotes and `$` are each combined among themselves up to the length
where every rule meets every other, and all together up to 4. The theorems are for
every line and every size.

**Preconditions** are part of the properties, since both are limits of the code and
listed as hazards. `StoppedIsStopped` speaks of runs in which nobody but the shell
continues its children (`conts = 0`): `waitpid` is called without `WCONTINUED`, and
after an outside continue the flag stays behind, and `job_is_stopped` answers 1 for a
job that runs.
`StatusIsLastCommand` speaks of runs without a stop (`stops = 0`): after a stop ended
the wait, the last command's end can be collected by the drain, which stores no
status: such a job completes and leaves the old `$?`. `EofIsHeard` excludes an endless ^C and an `errno`
that stays EINTR. `HangUpReachesAll` leaves out the children of a launch that failed
itself: their job is freed before `kill_jobs`, so nothing tells them.

**Fairness.** `FairSpec` assumes that the thread runs (weak fairness of its
steps and of the handler's) and that a SIGCHLD which is deliverable again and
again is delivered (strong fairness: `sigprocmask` does not return before a
pending unblocked signal is delivered). `BusySpec` adds that the user keeps
pressing Enter and that programs end. Nothing is assumed of stops, continues or
other commands.

`Pipeline`'s `FairSpec` assumes that the shell and the children's setup run, that
a program which writes goes on writing and that one which reads goes on reading.
No program needs to end by itself: that readers and writers are told must follow
from who has which end open.

`ReadLoop`'s `Spec` assumes that the shell's thread runs; nobody has to type, press
^C or end. `FrontSpec` assumes the same of the one thread there is. Both stop for
good when the loop is left or the line is dealt with, as does a shell that is over:
their runs do not check for deadlock.

### At the prompt

* A ^C does not end the shell but in one race (`shell.c:72`): between the
  interrupted `getline` and the test of `errno` the SIGCHLD handler reaps the last
  child, `errno` is ECHILD, and the loop ends with a perror. `OnlyRaceEndsShell`
  says this is the only way, and it does happen: without its second disjunct TLC
  reports the race.
* After a ^C the EINTR stays in `errno` as long as no call changes it. A ^D then
  counts as an interrupt (`shell.c:72` is asked before `feof`) and is cleared;
  with the input closed for good, the shell reads the end again and again.
  `EofIsHeard` shows that the end is heard whenever that does not persist.

### Findings

* **The end of a child can be lost** (`lost_end`, `job_utils.c:189`). The
  handler appends between the evaluation of the argument `pending_indx` and
  `pending_indx = 0`. That process is never marked completed, and its job is
  listed as Running for the life of the shell. `EndIsAccounted` shows that this
  is the only way to lose one.
* **fg can wait for a stopped job** (`fg_hang`, `builtin.c:83`). A stop that the
  handler queues between fg's `mark_bg_jobs` and its `block_parent_signals` is
  not in the flags it then tests: no SIGCONT, and the wait is for a stop that
  has been reported already. `FgResumes` asks for just that: the group fg goes on
  to wait for is not all stopped with every stop reported. A stop that nobody has
  collected is harmless, since `waitpid` returns it at once.
* **fg's `$?` is always 0** (`fg_status`, `helper.c:27`): the builtin's return
  value is stored over the status the wait had stored.
* **Escape sequences are not read** (`escapes`, `tokenizer.c:146`): `README.md`
  names `\n` among those supported inside double quotes; it becomes the letter n.
* **export of a set name without a value copies freed memory** (`env_keep`,
  `env_utils.c:63`): `export NAME` passes the stored string to `add_variable`,
  which frees it before `strdup`.

## 9. What is proved

### JobControl

`JobControlProofs` proves, for any finite set of pids, any bounds and any length
of the queue (the assumptions are the `ASSUME`s of `JobControl`):

| Theorem | Statement |
|---|---|
| `TypeCorrect` | `Spec => []TypeOK` |
| `PromptRestored` | `Spec => []PromptIsRestored` |
| `MarkingIsTruthful` | `Spec => []CompletedIsReaped` |
| `EndsAreAccounted` | `Spec => []EndIsAccounted` |
| `QueueStaysFresh` | `Spec => []QueueIsFresh` |
| `LiveStaysListed` | `Spec => []LiveIsListed` |
| `ImplementsLedger` | `Spec => LedgerSpec` |

**Argument.** None of these is inductive alone. Three invariants carry the
proof, each using the ones before it:

* `TypeInv`: types, and *control*: which job `cur` is, and how many processes are
  still to fork, at each `pc`.
* `MaskInv`: at which `pc` SIGCHLD is blocked, who has the terminal, and that the
  saved mask is the open one. The handler cannot be inside a blocked section,
  so there the queue does not grow.
* `AccountInv`: *ownership* (each forked pid is in exactly one job, and in a
  listed one until the job is retired or freed) and *account* (a pid is
  completed, or its end is queued once, or it was dropped, exactly when it has
  been reaped in a listed job). Without ownership, a retired job could hide a
  live child; without the account, marking could complete a job too early or
  an entry could outlive its job.

Most actions leave the accounts alone; the lemma `StepKinds` separates these
from the few that matter (handler, mark, wait, drain, fork, retire, clean up),
so the induction is done once per kind. The refinement maps each step to one
ledger action or a stutter, using `AccountInv` for the guard of striking off.

`LaunchProofs` builds on these three invariants:

| Theorem | Statement |
|---|---|
| `NoGroupZero` | `Spec => []NoEmptyGroup` |
| `QueueStaysAnnounced` | `Spec => []QueueIsAnnounced` |
| `LaunchTakesStatuses` | `Spec => []LaunchKeepsStatuses` |
| `GroupStaysJoinable` | `Spec => []GroupIsJoinable` |
| `StatusIsTheLast` | `Spec => []StatusIsLastCommand` |
| `HangUpReaches` | `Spec => []HangUpReachesAll` |
| `StoppedStaysStopped` | `Spec => []StoppedIsStopped` |
| `QueueStaysShort` | `Spec => []QueueIsShort` |
| `WaitStaysFed` | `Spec => []WaitIsFed`: in the wait for a launch a process of the job runs or `waitpid` has something to return |
| `WaitGetsShorter` | `Spec => [][WaitShrinks]_vars`: each turn of a wait takes a process off the group, and none joins |
| `FinishedStaysDue` | `Spec => []FinishedIsDue`: a finished job that is still listed has a signal, a flag or the shell on its way to retire it |

**Argument.** `Walk` is what most actions have in common (no process changes, the
control moves on along the phases of a command); `WalkKinds` splits `Next` into
`Walk` and the thirteen kinds of step that do more, and each induction has a step
per kind.

* `LaunchInv`: while a launch is under way none of its processes has a status in the
  queue or dropped, and until the wait none has been collected, so the group has a
  member. It needs `MaskInv` (no handler in there) and ownership (a new pid is in no
  queue).
* `StatusInv`: without stops nobody is halted, the wait goes on until the group is
  gone, and once the last command is completed `$?` is its code.
* `LeaveInv`: what the shell still owes when it leaves: before `kill_jobs` every
  live child is listed or belongs to the failed launch, after it all are told.
* `StopInv`: without outside continues, a stop is in the queue or on the flag, not
  both, and a process with either has not run since.
* `LengthInv`: the stops the kernel has not reported yet are at most those there
  have been, and with the queue's length they are at most these plus the ends in the
  queue. By `QueueIsFresh` those ends are of listed processes not yet marked.
* `NoStopBehind`: no wait for a launched job is begun or gone on with after one of
  its processes has stopped, since the wait ends with the stop it is told. `fg` has no
  such invariant, which is the hang that the run `fg_hang` shows.
* `DueInv`: news in the kernel or in the handler's hands is signalled; entries in
  the queue and finished jobs in the list each have `child_changed` or the part of
  the loop that deals with them still ahead (`MarkingIsDue`, `RetirementIsDue`).

### Pipeline

`PipelineProofs` proves, for any number of commands and any descriptor table that
is large enough (`PipelineAssumption`): `TypeCorrect` (`TypeOK`), `RunningIsWired`
(`WiredAsTyped`), `LaunchLeavesNoEnd` (`NothingLeftOpen`), `ImplementsChain`
(`ChainSpec`) and `EndsGetReleased` (`EndsAreReleased`: once the other side has
ended, an end somebody waits to see closed is held only by children still in their
setup or by the shell before its close).

**Argument.** What a process has open depends on how far the shell and the child
have come, so the invariant says what *every entry of every table* is at every
point: `Tables` gives it for the shell as a function of `pc` and `num` and for
each child as a function of its `stage`; `Numbered` says that pipe `i` has the
numbers `3 + 2i` and `4 + 2i`, which are the lowest free ones at its creation;
`Progress` ties `stage` to the loop counter. From that, who holds an end is known:
the write end of pipe `i` is open exactly in the shell before it has passed
command `i`, in the children forked before that and not yet through their
closes, and in command `i` itself. That makes the guards of `ReadEof` and
`Sigpipe` imply those of the abstract `TellEof` and `Break`.

### EnvTable

`EnvTableProofs` proves, for any hash function, any names and values:
`TypeCorrect` (`TypeOK`), `ChainsStaySound` (`ChainsAreSound`), `EnvpIsAMap`
(`HandedOnce`) and `ImplementsMap` (`MapSpec`).

**Argument.** The conjunction of the three invariants is inductive. Each change of
a chain has a lemma (`InsertStep`, `OverwriteStep`, `UnlinkStep`) that says what
it does to the relation "name `n` has value `x`" and that the chain stays sound:
insertion needs that the key was not found, overwriting and unlinking that
the variable found is the only one. `ValuesChange` turns that into the abstract
update of one name; `AddStep`, `UpdateStep` and `UnsetStep` say which name and value
that is, so that `ExportMaps` and `GiveUpMaps` find it among those EnvMap allows for
the argument. `LaunchMaps` shows that envp is the whole map.

### ReadLoop

`ReadLoopProofs` proves, for any number of children, `Typing` (`TypeOK`),
`RaceOnly` (`OnlyRaceEndsShell`) and `EofComesNear` (`EofDrawsNear`: with the
input over and no EINTR in `errno`, each step of the shell is one of the at most six
that are left of the loop, and nothing but a new ^C adds to them).

**Argument.** At the test of an interrupted read `errno` is EINTR, or ECHILD with no
child left (`InterruptKept`): only the handler runs between the two, it changes
`errno` only when it reaps the last child, and no child is born there.

### The front end

`FrontEndProofs` proves, for any alphabet, any set of lines, any environment, any
size of the buffer from 3 up and of the array from 1 up: `Composition`
(`FrontSpec => Spec` of Tokenizer: nothing but the tokenizer touches the line),
`TokenizerStaysInBounds` (`InBounds`), `FrontTyping` (`FrontTypeOK`),
`ParserStaysInBounds` (`ParseInBounds`) and `CommandsAreNamed`
(`CommandsHaveNames`).

**Argument.** The tokenizer's bounds are inductive with its types: each loop tests
the room before it copies, and an operator is at most two characters. `InBounds` also
says when the NULL behind the tokens is inside the array: whenever the line is
accepted but for exactly MAXTOKENS tokens ("overrun"). For the parser
the invariant counts (`ParsingFits`): the arguments so far and the tokens still to
come are never more than the tokens of the stretch, which is what `argv` was
allocated for; a redirection takes two tokens and adds no argument. That the first
argument is not an operator is tested when a stretch starts, and expansion leaves it
alone (`ExpansionKeepsName`).

`ReadingProofs` and `MeaningProofs` prove, for the same parameters, that the front
end does with every line what `LineMeaning` says the line means:

| Theorem | Statement |
|---|---|
| `TokensAreTheLine` | `FrontSpec => []TokensMeanLine` |
| `OnlyQuotesAreRefused` | `FrontSpec => []RefusedForQuotes` |
| `BadLinesKill` | `FrontSpec => []OnlyBadLinesKill` |
| `CommandsAreTokens` | `FrontSpec => []CommandsMeanTokens` |
| `JobsAreLines` | `FrontSpec => []JobMeansLine` |
| `LineShrinks` | every step makes `TokenWork` or, at the same `TokenWork`, `ParseWork` smaller, and both are in `Nat` |
| `OneReading` | a line `Reads` as at most one sequence of tokens |
| `OneCommand` | `Means` gives a command's arguments, files and flags in one way |

They rest on two more assumptions. `DistinctAssumption`: blank, the two quotes, the
backslash and the operator characters differ, which are literals in `tokenizer.c`;
with equal ones the order of its tests would decide. `OperatorsAssumption`: the
operators that `parser.c` compares with are different strings, `&` is a single
special character, and `$` is not `?`.

**Argument.** Properties of the returned tokens say nothing of a half-read line, so
`ReadInv` says them of the part before the cursor. Between two tokens (`Between`)
the starts up to the cursor are known, the tokens so far are their texts, and no
token reaches over the cursor; inside one (`InToken`) the same holds before its
start, and the buffer spells what it keeps up to the cursor, with the parity of
the backslashes just read; before it is stored (`AtStore`) the buffer spells all
of it. A step extends this by one position: `StartsAdd`, `SpellsAdd` and
`TextsAdd` say that a later position changes neither the starts, the texts nor
the ranks of earlier ones. The delicate step is a quote that follows a backslash:
`EscapedFlips` shows that reading backslash pairs two at a time agrees with the
parity of the whole run before it.

`MeaningInv` does the same for the parser, per stage: what is listed are the
processes of the commands before `next`, and the `Command` being filled holds the
arguments, the last files and the flags of its tokens up to `next` (`SoFar`). A
stretch that breaks a rule makes the whole line not well formed (`AtRefused`), so
that "refused" and "parsed" exclude each other for every line. When a stretch ends,
`SoFar` is `Means` of the command after expansion (`WholeCommand`; the expansions
are related in `ArgumentExpands` and `FileExpands`). For the job's text, the line
without its last character is compared with the line: the reading is the same up to
the last token (`FrontReads`), and that one is `&`, or `&&` and then loses half of
it (`DoubleAmp`).

`OneReading` and `OneCommand` say that these relations are functions, so the
theorems leave nothing open about what the code returns. Inductions over positions
are made by taking the least position where two readings differ (`LeastOf`, from
`WFMin`), since an induction rule with an operator as parameter cannot be used.

`LineShrinks` is the safety half of `LineEnds`: the tokenizer has at most four steps
for each character left and a few for the token it is in (a word, once started,
has at least one character in the buffer when it ends, so an empty token is never
stored without moving on), and each step of the parser moves `next`. TLC checked
`ReadInv`, `MeaningInv` and the measure on the instance of `front` before they were
proved.

### Only model-checked

Liveness: `LaunchedWaitEnds`, `JobIsRetired`, `EofArrives`, `WriterIsTold`,
`EofIsHeard` and `LineEnds`. Every invariant and every action property that a passing
run checks is a theorem. Of each liveness property the part that speaks of states
and steps is proved:

| Liveness property | Proved of it |
|---|---|
| `LaunchedWaitEnds` | `WaitStaysFed` (never blocked for good), `WaitGetsShorter` (no endless wait) |
| `JobIsRetired` | `FinishedStaysDue` (the step that leads there is never forgotten) |
| `EofArrives`, `WriterIsTold` | `EndsGetReleased` (nobody holds the end but who is about to close it) |
| `EofIsHeard` | `EofComesNear` (a measure of the way out shrinks) |
| `LineEnds` | `LineShrinks` (a measure of the work left shrinks) |

What remains of them is that the fair actions are enabled where these say that a step
is ahead, and that fairness then takes it, which needs ENABLED. TLC checked these
statements on the instances of `core`, `pipes`, `read` and `front` before they were
proved.

## 10. What is not modelled

* `cd`, `pwd` and `help`: they read and change the working directory or print; of
  their effects only `$?` is modelled (`OtherBuiltin`).
* All printing, and with it `dump_variables`, `print_tokens`, `format_job_info`.
* `get_full_path`, which only searches the file system (in the shell's own `PATH`).
* Allocation failures, except where the code goes on after them: `store_token`, the
  environment table, envp and the errors of a launch. The others return into code
  that reads the NULL (`job_utils.c:30`) or end the line.
* Which processes a ^C at the terminal reaches while a background job is being
  forked (`signal_utils.c:112`): in `JobControl` any child may end at any time.
* What the data in a pipe is, descriptors a program opens itself, terminal output.
* The unit tests, which are not part of the program.
