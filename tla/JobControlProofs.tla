--------------------------- MODULE JobControlProofs ---------------------------
(* Theorems about JobControl, for every value of its constants.             *)
EXTENDS JobControl, TLAPS

USE DEF kernelVars, queueVars, maskVars, tableVars, flagVars, stepVars

(* Which command the shell can be at each point for, and on which job: the  *)
(* typing of toFork and of the indices depends on it.                       *)
Control ==
  /\ pc \in {"mark", "apply"} => cmd # "launch"
  /\ pc \in {"find", "cont"} => cmd \in {"fg", "bg"}
  /\ pc = "block" => cmd \in {"fg", "bg", "launch"}
  /\ pc = "fork" => cmd = "launch"
  /\ pc \in {"give", "wait", "drain", "reclaim", "finish"} => cmd \in {"fg", "launch"}
  /\ pc = "restore" => cmd \in {"bg", "launch"}
  /\ pc = "fork" \/ (pc = "block" /\ cmd = "launch") => toFork > 0
  /\ pc \in {"block", "cont", "fork", "give", "wait", "drain", "reclaim",
             "finish", "restore"} => cur \in jobs

TypeInv == TypeOK /\ Control

LEMMA ResumedType ==
  ASSUME TypeOK, NEW S
  PROVE  Resumed(S) \in [Pids -> KStates]
BY DEF TypeOK, Resumed, KStates

LEMMA CollectedType ==
  ASSUME TypeOK, NEW p \in Pids
  PROVE  Collected(p) \in [Pids -> KStates]
BY DEF TypeOK, Collected, KStates

(* What the array holds, by index.                                          *)
LEMMA EntryType ==
  ASSUME TypeOK, NEW i \in 1..Len(pending)
  PROVE  /\ pending[i] \in Entries
         /\ pending[i].pid \in Pids
         /\ pending[i].status \in {"stopped", "exited"}
<1>1. pending \in Seq(Entries)
  BY DEF TypeOK
<1>2. pending[i] \in Entries
  BY <1>1
<1> QED BY <1>2 DEF Entries

LEMMA TypeInit == Init => TypeInv
<1> SUFFICES ASSUME Init PROVE TypeInv
  OBVIOUS
<1> USE PidsAssumption, CodesAssumption, BoundsAssumption DEF Init
<1>1. kstate \in [Pids -> KStates] /\ code \in [Pids -> Codes]
  BY DEF KStates
<1>2. pending \in Seq(Entries)
      /\ count \in 0..Len(pending)
  OBVIOUS
<1>3. jobs \subseteq 1..(job_num - 1) /\ job_num \in 1..(MaxJobs + 1)
      /\ pids \in [JobNums -> SUBSET Pids]
      /\ last_pid \in [JobNums -> Pids \cup {NoPid}]
  BY DEF JobNums
<1>4. Control
  BY DEF Control
<1>5. /\ stops \in 0..MaxStops /\ conts \in 0..MaxConts /\ toFork \in 0..MaxProcs
      /\ tty \in JobNums \cup {Shell} /\ cur \in JobNums \cup {0}
      /\ last_exit_status \in Codes \cup {0, 1}
  OBVIOUS
<1>6. pc \in PCs /\ cmd \in {"none", "jobs", "fg", "bg", "launch"}
  BY DEF PCs
<1>7. /\ hupped \subseteq Pids /\ dropped \subseteq Entries
      /\ background \subseteq JobNums
      /\ completed \subseteq Pids /\ stopped \subseteq Pids
      /\ sigchld \in BOOLEAN /\ child_changed \in BOOLEAN /\ handling \in BOOLEAN
      /\ blocked \in BOOLEAN /\ prev_mask \in BOOLEAN
  OBVIOUS
<1> QED
  BY ONLY <1>1, <1>2, <1>3, <1>4, <1>5, <1>6, <1>7 DEF TypeInv, TypeOK

LEMMA TypeNext == TypeInv /\ [Next]_vars => TypeInv'
<1> SUFFICES ASSUME TypeInv, [Next]_vars PROVE TypeInv'
  OBVIOUS
<1> USE PidsAssumption, CodesAssumption, BoundsAssumption
        DEF TypeInv, TypeOK, Control, JobNums, Shell, PCs, Over, At
<1>1. ASSUME NEW p \in Pids, NEW c \in Codes, ProcExit(p, c) PROVE TypeInv'
  BY <1>1 DEF ProcExit, KStates
<1>2. ASSUME NEW p \in Pids, ProcStop(p) PROVE TypeInv'
  BY <1>2 DEF ProcStop, KStates
<1>3. ASSUME NEW p \in Pids, ProcContinue(p) PROVE TypeInv'
  BY <1>3, ResumedType DEF ProcContinue
<1>4. CASE DeliverSigchld
  <2>1. handling' \in BOOLEAN
    BY <1>4 DEF DeliverSigchld
  <2>2. sigchld' \in BOOLEAN
    BY <1>4 DEF DeliverSigchld
  <2>3. UNCHANGED <<kstate, code, tty, hupped, stops, conts, pending,
                 child_changed, dropped, maskVars, tableVars, flagVars,
                 stepVars, last_exit_status>>
    BY <1>4 DEF DeliverSigchld
  <2> QED BY <2>1, <2>2, <2>3
<1>5. ASSUME NEW p \in Pids, HandlerReap(p) PROVE TypeInv'
  <2> DEFINE entry == [pid |-> p, status |-> StatusOf(p)]
  <2>1. entry \in Entries
    BY DEF StatusOf, Entries
  <2> HIDE DEF entry
  <2>2. CASE Len(pending) < PendingMax
    <3>1. /\ pending' = Append(pending, entry) /\ UNCHANGED <<dropped, pc, handling>>
      BY <1>5, <2>2 DEF HandlerReap, QueuePendingProcs, entry
    <3>2. pending' \in Seq(Entries)
          /\ count \in 0..Len(pending')
      BY <3>1, <2>1
    <3> QED BY <1>5, <3>1, <3>2, CollectedType DEF HandlerReap, QueuePendingProcs
  <2>3. CASE ~(Len(pending) < PendingMax)
    <3>1. /\ pc' = "corrupt" /\ handling' = FALSE
          /\ dropped' = dropped \cup {entry} /\ UNCHANGED pending
      BY <1>5, <2>3 DEF HandlerReap, QueuePendingProcs, entry
    <3> QED BY <1>5, <3>1, <2>1, CollectedType DEF HandlerReap, QueuePendingProcs
  <2> QED BY <2>2, <2>3
<1>6. CASE HandlerReturn
  <2>1. handling' \in BOOLEAN
    BY <1>6 DEF HandlerReturn
  <2>2. UNCHANGED <<kernelVars, pending, child_changed, dropped, maskVars, tableVars,
                    flagVars, stepVars, last_exit_status>>
    BY <1>6 DEF HandlerReturn
  <2> QED BY <2>1, <2>2
<1>7. CASE Top
  BY <1>7 DEF Top
<1>8. CASE MarkRead
  BY <1>8 DEF MarkRead
<1>9. CASE MarkApply
  <2>1. Marked("stopped") \subseteq Pids /\ Marked("exited") \subseteq Pids
    BY EntryType DEF Marked
  <2>2. Late \subseteq Entries
    BY EntryType DEF Late
  <2>3. pending' = <<>> /\ pending' \in Seq(Entries)
    BY <1>9 DEF MarkApply
  <2>4. count' \in 0..Len(pending')
    BY <1>9, <2>3 DEF MarkApply
  <2> QED BY <1>9, <2>1, <2>2, <2>3, <2>4 DEF MarkApply
<1>10. CASE Notify
  BY <1>10 DEF Notify, Retire
<1>11. CASE ListJobs
  BY <1>11 DEF ListJobs, Retire
<1>12. CASE EmptyLine
  BY <1>12 DEF EmptyLine
<1>13. ASSUME NEW s \in {0, 1}, OtherBuiltin(s) PROVE TypeInv'
  BY <1>13 DEF OtherBuiltin
<1>14. ASSUME NEW b \in {"jobs", "fg", "bg"}, JobBuiltin(b) PROVE TypeInv'
  BY <1>14 DEF JobBuiltin
<1>15. ASSUME NEW k \in 1..MaxProcs, NEW bg \in BOOLEAN, Launch(k, bg) PROVE TypeInv'
  BY <1>15 DEF Launch, CreateJob
<1>16. ASSUME NEW s \in Codes \cup {last_exit_status}, ExitShell(s) PROVE TypeInv'
  BY <1>16 DEF ExitShell
<1>17. CASE BadLine
  BY <1>17 DEF BadLine
<1>18. ASSUME NEW a \in JobNums \cup {NoArg}, FindRefuses(a) PROVE TypeInv'
  BY <1>18 DEF FindRefuses, Refuse
<1>19. ASSUME NEW a \in JobNums \cup {NoArg}, FindTakes(a) PROVE TypeInv'
  <2>1. FindJob(a) \subseteq jobs
    BY DEF FindJob, LastJob
  <2>2. PICK n \in jobs : /\ cur' = n
                         /\ background' = IF cmd = "bg" THEN background \cup {n}
                                          ELSE background
    BY <1>19, <2>1 DEF FindTakes
  <2>3. n \in JobNums /\ background' \subseteq JobNums
    BY <2>2
  <2>4. /\ cmd \in {"fg", "bg"} /\ pc' = "block"
        /\ UNCHANGED <<kernelVars, queueVars, maskVars, jobs, job_num, pids,
                       last_pid, flagVars, cmd, count, toFork, last_exit_status>>
    BY <1>19 DEF FindTakes
  <2> QED BY <2>2, <2>3, <2>4
<1>20. CASE BlockSignals
  BY <1>20 DEF BlockSignals
<1>21. CASE ContStopped
  BY <1>21, ResumedType DEF ContStopped, ClearStoppedMark, After
<1>22. CASE ContFails
  BY <1>22 DEF ContFails, ClearStoppedMark
<1>23. CASE ContNothing
  BY <1>23 DEF ContNothing, After
<1>24. ASSUME NEW p \in Pids, Fork(p) PROVE TypeInv'
  <2>1. /\ kstate' \in [Pids -> KStates]
        /\ pids' \in [JobNums -> SUBSET Pids]
        /\ last_pid' \in [JobNums -> Pids \cup {NoPid}]
    BY <1>24 DEF Fork, ParentSetup, SetupJobControl, KStates
  <2>2. toFork' \in 0..MaxProcs /\ (toFork > 1 => toFork' > 0)
    BY <1>24 DEF Fork, ParentSetup, SetupJobControl
  <2>3. pc' \in {"fork", "restore", "give"} /\ (pc' = "fork" => toFork' > 0)
        /\ cmd = "launch" /\ cur \in jobs
    BY <1>24, <2>2 DEF Fork, ParentSetup, SetupJobControl
  <2>4. UNCHANGED <<code, sigchld, tty, hupped, stops, conts, queueVars, maskVars,
                    jobs, job_num, background, flagVars, cmd, cur, count,
                    last_exit_status>>
    BY <1>24 DEF Fork, ParentSetup, SetupJobControl
  <2> QED BY <2>1, <2>2, <2>3, <2>4
<1>25. CASE LaunchFails
  BY <1>25 DEF LaunchFails, FreeJob
<1>26. CASE GiveTerminal
  BY <1>26 DEF GiveTerminal
<1>27. ASSUME NEW p \in Pids, WaitOne(p) PROVE TypeInv'
  BY <1>27, CollectedType DEF WaitOne, Collect, StoredStatus
<1>28. CASE WaitDone
  BY <1>28 DEF WaitDone
<1>29. ASSUME NEW p \in Pids, DrainOne(p) PROVE TypeInv'
  BY <1>29, CollectedType DEF DrainOne, Collect
<1>30. CASE DrainDone
  BY <1>30 DEF DrainDone
<1>31. CASE ReclaimTerminal
  BY <1>31 DEF ReclaimTerminal
<1>32. CASE Finish
  BY <1>32 DEF Finish, FreeJob
<1>33. CASE RestoreBackground
  BY <1>33 DEF RestoreBackground
<1>34. CASE CleanUp
  <2>1. hupped' \subseteq Pids
    BY <1>34 DEF CleanUp, KillJobs, Unreaped
  <2>2. kstate' \in [Pids -> KStates]
    BY <1>34, ResumedType DEF CleanUp, KillJobs
  <2>3. jobs' \subseteq 1..(job_num - 1) /\ pc' = "done"
    BY <1>34 DEF CleanUp, KillJobs
  <2> QED BY <1>34, <2>1, <2>2, <2>3 DEF CleanUp, KillJobs
<1>35. CASE UNCHANGED vars
  BY <1>35 DEF vars
<1> QED
  BY <1>1, <1>2, <1>3, <1>4, <1>5, <1>6, <1>7, <1>8, <1>9, <1>10, <1>11, <1>12,
     <1>13, <1>14, <1>15, <1>16, <1>17, <1>18, <1>19, <1>20, <1>21, <1>22, <1>23,
     <1>24, <1>25, <1>26, <1>27, <1>28, <1>29, <1>30, <1>31, <1>32, <1>33, <1>34,
     <1>35
  DEF Next, ShellStep, UserLine, HandlerStep, ChildStep, Terminated

THEOREM TypeCorrect == Spec => []TypeOK
<1>1. TypeInv => TypeOK
  BY DEF TypeInv
<1> QED
  BY <1>1, TypeInit, TypeNext, PTL DEF Spec

-----------------------------------------------------------------------------
(* The signal mask and the terminal *)

(* Between block_parent_signals and the sigprocmask that undoes it SIGCHLD   *)
(* is blocked, no handler runs, and what was saved is the open mask; the     *)
(* terminal is away only while the shell waits for a job.                    *)
MaskedPCs == {"cont", "fork", "give", "wait", "drain", "reclaim", "finish", "restore"}

MaskInv ==
  /\ pc \in MaskedPCs => blocked = TRUE /\ handling = FALSE /\ prev_mask = FALSE
  /\ pc \notin MaskedPCs \cup {"cleanup", "done"} => blocked = FALSE
  /\ handling = TRUE => blocked = FALSE
  /\ tty # Shell => pc \in {"wait", "drain", "reclaim"}

LEMMA MaskNext == TypeInv /\ MaskInv /\ [Next]_vars => MaskInv'
<1> SUFFICES ASSUME TypeInv, MaskInv, [Next]_vars PROVE MaskInv'
  OBVIOUS
<1>0. /\ pc \in PCs /\ blocked \in BOOLEAN /\ handling \in BOOLEAN
      /\ prev_mask \in BOOLEAN /\ Control
  BY DEF TypeInv, TypeOK
<1> USE <1>0 DEF MaskInv, MaskedPCs, Over, At
<1>1. CASE ChildStep
  BY <1>1 DEF ChildStep, ProcExit, ProcStop, ProcContinue
<1>2. CASE HandlerStep
  <2>1. CASE DeliverSigchld
    BY <2>1 DEF DeliverSigchld
  <2>2. ASSUME NEW p \in Pids, HandlerReap(p) PROVE MaskInv'
    <3>1. handling = TRUE /\ handling' \in BOOLEAN
      BY <2>2 DEF HandlerReap, QueuePendingProcs
    <3>2. pc' \in {pc, "corrupt"} /\ UNCHANGED <<tty, blocked, prev_mask>>
      BY <2>2 DEF HandlerReap, QueuePendingProcs
    <3> QED BY <3>1, <3>2
  <2>3. CASE HandlerReturn
    BY <2>3 DEF HandlerReturn
  <2> QED BY <1>2, <2>1, <2>2, <2>3 DEF HandlerStep
<1>3. CASE UserLine
  BY <1>3 DEF UserLine, EmptyLine, BadLine, OtherBuiltin, JobBuiltin, Launch, CreateJob,
             ExitShell
<1>4. CASE Top \/ MarkRead \/ MarkApply \/ Notify \/ ListJobs
  BY <1>4 DEF Top, MarkRead, MarkApply, Notify, ListJobs
<1>5. ASSUME NEW a \in JobNums \cup {NoArg}, FindRefuses(a) \/ FindTakes(a)
      PROVE  MaskInv'
  BY <1>5 DEF FindRefuses, FindTakes, Refuse
<1>6. CASE BlockSignals
  BY <1>6 DEF BlockSignals
<1>7. CASE ContStopped \/ ContFails \/ ContNothing
  BY <1>7 DEF ContStopped, ContFails, ContNothing, After
<1>8. CASE (\E p \in Pids : Fork(p)) \/ LaunchFails
  BY <1>8 DEF Fork, ParentSetup, SetupJobControl, LaunchFails
<1>9. CASE GiveTerminal \/ (\E p \in Pids : WaitOne(p)) \/ WaitDone
  BY <1>9 DEF GiveTerminal, WaitOne, WaitDone
<1>10. CASE (\E p \in Pids : DrainOne(p)) \/ DrainDone \/ ReclaimTerminal
  BY <1>10 DEF DrainOne, DrainDone, ReclaimTerminal
<1>11. CASE Finish \/ RestoreBackground
  BY <1>11 DEF Finish, RestoreBackground
<1>12. CASE CleanUp
  BY <1>12 DEF CleanUp, KillJobs
<1>13. CASE UNCHANGED vars
  BY <1>13 DEF vars
<1> QED
  BY <1>1, <1>2, <1>3, <1>4, <1>5, <1>6, <1>7, <1>8, <1>9, <1>10, <1>11, <1>12,
     <1>13
  DEF Next, ShellStep, Terminated

(* However a command ends, the next prompt has its terminal and its mask.    *)
THEOREM PromptRestored == Spec => []PromptIsRestored
<1>1. Init => MaskInv
  BY DEF Init, MaskInv, MaskedPCs
<1>2. MaskInv => PromptIsRestored
  BY DEF MaskInv, MaskedPCs, PromptIsRestored
<1> QED
  BY <1>1, <1>2, TypeInit, TypeNext, MaskNext, PTL DEF Spec

-----------------------------------------------------------------------------
(* Whose process is whose, and where the end of each one is kept *)

(* The pids forked so far are those of the jobs, each of one job; numbers    *)
(* not given yet own nothing; a listed job without a process is the one being launched.    *)
Ownership ==
  /\ \A n \in JobNums : n >= job_num => pids[n] = {}
  /\ \A n \in JobNums : \A p \in pids[n] : kstate[p] # "unborn"
  /\ \A p \in Pids : kstate[p] # "unborn" => \E n \in JobNums : p \in pids[n]
  /\ \A m, n \in JobNums : \A p \in pids[m] \cap pids[n] : m = n
  /\ \A n \in jobs : pids[n] = {} =>
       n = cur /\ cmd = "launch" /\ pc \in {"block", "fork", "corrupt"}

(* Every exit in the queue is of a reaped child.                             *)
QueuedIsReaped ==
  \A i \in DOMAIN pending :
    pending[i].status = "exited" => kstate[pending[i].pid] = "reaped"

Account ==
  /\ CompletedIsReaped
  /\ QueuedIsReaped
  /\ EndIsAccounted
  /\ QueueIsFresh
  /\ LiveIsListed

AccountInv == Ownership /\ Account

(* The steps that touch none of it: nobody is born or reaped, the list, the  *)
(* flags and the queue stay.                                                 *)
Still ==
  /\ \A p \in Pids : /\ kstate'[p] = "reaped" <=> kstate[p] = "reaped"
                     /\ kstate'[p] = "unborn" <=> kstate[p] = "unborn"
  /\ UNCHANGED <<pids, jobs, job_num, completed, pending, dropped>>
  /\ pc \in Leaving => pc' \in Leaving
  /\ (pc \in {"block", "fork", "corrupt"} /\ cmd = "launch")
       => pc' \in {"block", "fork", "corrupt"} /\ cmd' = "launch" /\ cur' = cur

LEMMA StepKinds ==
  ASSUME TypeInv, [Next]_vars
  PROVE  \/ Still
         \/ \E p \in Pids : HandlerReap(p) \/ Fork(p) \/ WaitOne(p) \/ DrainOne(p)
         \/ \E k \in 1..MaxProcs, bg \in BOOLEAN : Launch(k, bg)
         \/ MarkApply \/ Notify \/ ListJobs \/ LaunchFails \/ Finish \/ CleanUp
<1>0. /\ kstate \in [Pids -> KStates] /\ pc \in PCs /\ Control
  BY DEF TypeInv, TypeOK
<1> USE <1>0 DEF Still, Leaving, Over, At
<1>1. CASE ChildStep
  BY <1>1 DEF ChildStep, ProcExit, ProcStop, ProcContinue, Resumed, Halted
<1>2. CASE DeliverSigchld \/ HandlerReturn
  BY <1>2 DEF DeliverSigchld, HandlerReturn
<1>3. CASE EmptyLine \/ BadLine
  BY <1>3 DEF EmptyLine, BadLine
<1>4. ASSUME NEW s, OtherBuiltin(s) \/ ExitShell(s) \/ JobBuiltin(s) PROVE Still
  BY <1>4 DEF OtherBuiltin, ExitShell, JobBuiltin
<1>5. CASE Top \/ MarkRead
  BY <1>5 DEF Top, MarkRead
<1>6. ASSUME NEW a, FindRefuses(a) \/ FindTakes(a) PROVE Still
  BY <1>6 DEF FindRefuses, FindTakes, Refuse
<1>7. CASE BlockSignals
  BY <1>7 DEF BlockSignals
<1>8. CASE ContStopped
  BY <1>8 DEF ContStopped, Resumed, Halted, After
<1>9. CASE ContFails \/ ContNothing
  BY <1>9 DEF ContFails, ContNothing, After
<1>10. CASE GiveTerminal \/ WaitDone \/ DrainDone \/ ReclaimTerminal
  BY <1>10 DEF GiveTerminal, WaitDone, DrainDone, ReclaimTerminal
<1>11. CASE RestoreBackground
  BY <1>11 DEF RestoreBackground
<1>12. CASE UNCHANGED vars
  BY <1>12 DEF vars
<1> QED
  BY <1>1, <1>2, <1>3, <1>4, <1>5, <1>6, <1>7, <1>8, <1>9, <1>10, <1>11, <1>12
  DEF Next, ShellStep, UserLine, HandlerStep, Terminated

(* What collecting p changes: a zombie becomes reaped, nothing else does.    *)
LEMMA CollectedEnds ==
  ASSUME TypeInv, NEW p \in Waitable, kstate' = Collected(p)
  PROVE  /\ p \in Pids /\ StatusOf(p) \in {"exited", "stopped"}
         /\ StatusOf(p) = "exited" <=> kstate[p] = "zombie"
         /\ kstate[p] # "reaped" /\ kstate[p] # "unborn"
         /\ \A q \in Pids :
              /\ kstate'[q] = "unborn" <=> kstate[q] = "unborn"
              /\ kstate'[q] = "reaped" <=>
                   kstate[q] = "reaped" \/ (q = p /\ StatusOf(p) = "exited")
<1>1. kstate \in [Pids -> KStates] /\ p \in Pids
  BY DEF TypeInv, TypeOK, Waitable
<1>2. kstate[p] \in {"stopped_new", "zombie"}
  BY DEF Waitable
<1> QED
  BY <1>1, <1>2 DEF Collected, StatusOf

LEMMA ListedType == TypeInv => jobs \subseteq JobNums /\ Listed \subseteq Pids
<1> SUFFICES ASSUME TypeInv PROVE jobs \subseteq JobNums /\ Listed \subseteq Pids
  OBVIOUS
<1>1. jobs \subseteq JobNums
  BY BoundsAssumption DEF TypeInv, TypeOK, JobNums
<1>2. pids \in [JobNums -> SUBSET Pids]
  BY DEF TypeInv, TypeOK
<1> QED BY <1>1, <1>2 DEF Listed

LEMMA OwnershipNext ==
  ASSUME TypeInv, Ownership, [Next]_vars
  PROVE  Ownership'
<1>0. /\ kstate \in [Pids -> KStates] /\ pc \in PCs /\ Control
      /\ pids \in [JobNums -> SUBSET Pids]
      /\ jobs \subseteq 1..(job_num - 1) /\ job_num \in 1..(MaxJobs + 1)
      /\ cur \in JobNums \cup {0}
  BY DEF TypeInv, TypeOK
<1>a. jobs \subseteq JobNums
  BY <1>0, BoundsAssumption DEF JobNums
<1> USE <1>0, <1>a, BoundsAssumption DEF Ownership, At
<1>1. CASE Still
  BY <1>1 DEF Still
<1>2. ASSUME NEW p \in Pids, HandlerReap(p) PROVE Ownership'
  <2>1. p \in Waitable /\ kstate' = Collected(p)
    BY <1>2 DEF HandlerReap, QueuePendingProcs
  <2>2. pc' \in {pc, "corrupt"}
        /\ UNCHANGED <<jobs, job_num, pids, cmd, cur>>
    BY <1>2 DEF HandlerReap, QueuePendingProcs
  <2> QED BY <2>1, <2>2, CollectedEnds
<1>3. ASSUME NEW p \in Pids, WaitOne(p) \/ DrainOne(p) PROVE Ownership'
  <2>1. p \in Waitable /\ kstate' = Collected(p)
    BY <1>3 DEF WaitOne, DrainOne, Collect
  <2>2. pc \in {"wait", "drain"} /\ UNCHANGED <<jobs, job_num, pids>>
    BY <1>3 DEF WaitOne, DrainOne
  <2> QED BY <2>1, <2>2, CollectedEnds
<1>4. ASSUME NEW p \in Pids, Fork(p) PROVE Ownership'
  <2>1. /\ kstate[p] = "unborn" /\ pc = "fork" /\ cur \in jobs
        /\ kstate' = [kstate EXCEPT ![p] = "running"]
        /\ pids' = [pids EXCEPT ![cur] = @ \cup {p}]
        /\ UNCHANGED <<jobs, job_num, cmd, cur>>
    BY <1>4 DEF Fork, ParentSetup, SetupJobControl, Unborn, Control
  <2>2. \A n \in JobNums : p \notin pids[n]
    BY <2>1
  <2>3. cur \in JobNums /\ cur < job_num
    BY <2>1
  <2>4. \A n \in JobNums : pids'[n] = IF n = cur THEN pids[n] \cup {p} ELSE pids[n]
    BY <2>1, <2>3
  <2>5. \A n \in JobNums : \A q \in pids'[n] : q # p => q \in pids[n]
    BY <2>4
  <2>6. \A n \in JobNums : n >= job_num' => pids'[n] = {}
    BY <2>1, <2>3, <2>4
  <2>7. \A n \in JobNums : \A q \in pids'[n] : kstate'[q] # "unborn"
    BY <2>1, <2>5
  <2>8. ASSUME NEW m \in JobNums, NEW n \in JobNums, NEW q \in pids'[m] \cap pids'[n]
        PROVE  m = n
    <3>1. CASE q = p
      BY <3>1, <2>2, <2>4
    <3>2. CASE q # p
      <4>1. q \in pids[m] /\ q \in pids[n]
        BY <3>2, <2>5
      <4> QED BY <4>1
    <3> QED BY <3>1, <3>2
  <2>9. \A n \in jobs' : pids'[n] # {}
    BY <2>1, <2>4
  <2>10. \A q \in Pids : kstate'[q] # "unborn" => \E n \in JobNums : q \in pids'[n]
    BY <2>1, <2>3, <2>4
  <2> QED BY <2>6, <2>7, <2>8, <2>9, <2>10
<1>5. ASSUME NEW k \in 1..MaxProcs, NEW bg \in BOOLEAN, Launch(k, bg) PROVE Ownership'
  <2>1. /\ pc = "prompt" /\ job_num <= MaxJobs /\ jobs' = jobs \cup {job_num}
        /\ cur' = job_num /\ job_num' = job_num + 1 /\ cmd' = "launch" /\ pc' = "block"
        /\ UNCHANGED <<kstate, pids>>
    BY <1>5 DEF Launch, CreateJob
  <2> QED BY <2>1
<1>6. CASE MarkApply
  BY <1>6 DEF MarkApply
<1>7. CASE Notify \/ ListJobs
  BY <1>7 DEF Notify, ListJobs, Retire
<1>8. CASE LaunchFails
  BY <1>8 DEF LaunchFails, FreeJob
<1>9. CASE Finish
  BY <1>9 DEF Finish, FreeJob
<1>10. CASE CleanUp
  BY <1>10 DEF CleanUp, KillJobs, Resumed, Halted
<1> QED
  BY <1>1, <1>2, <1>3, <1>4, <1>5, <1>6, <1>7, <1>8, <1>9, <1>10, StepKinds

(* Striking completed jobs off the list disturbs no account: their processes *)
(* are reaped and none of their exits is still queued.                       *)
LEMMA RetireKeepsAccount ==
  ASSUME TypeInv, Account,
         jobs' \subseteq jobs, \A n \in jobs : n \notin jobs' => JobIsCompleted(n),
         UNCHANGED <<kstate, pids, completed, pending, dropped>>,
         pc \notin Leaving
  PROVE  Account'
<1>0. pids \in [JobNums -> SUBSET Pids] /\ kstate \in [Pids -> KStates]
  BY DEF TypeInv, TypeOK
<1>1. Listed' \subseteq Listed
  BY DEF Listed
<1>2. \A p \in Listed : p \notin completed => p \in Listed'
  BY DEF Listed, JobIsCompleted
<1>3. CompletedIsReaped' /\ QueuedIsReaped'
  BY DEF Account, CompletedIsReaped, QueuedIsReaped
<1>4. EndIsAccounted'
  BY <1>1 DEF Account, EndIsAccounted, Queued
<1>5. QueueIsFresh'
  BY <1>2 DEF Account, QueueIsFresh
<1>6. LiveIsListed'
  BY <1>0, <1>2 DEF Account, LiveIsListed, CompletedIsReaped, Unreaped
<1> QED BY <1>3, <1>4, <1>5, <1>6 DEF Account

(* One status collected by the wait or the drain goes to its Process.        *)
LEMMA CollectKeepsAccount ==
  ASSUME TypeInv, Account, NEW p \in Pids, Collect(p), pc \notin Leaving,
         UNCHANGED <<pids, jobs, pending, dropped>>
  PROVE  Account'
<1>0. /\ kstate \in [Pids -> KStates] /\ completed \subseteq Pids
      /\ p \in Waitable /\ kstate' = Collected(p)
      /\ completed' = IF StatusOf(p) = "exited" THEN completed \cup {p} ELSE completed
  BY DEF TypeInv, TypeOK, Collect
<1>1. Listed' = Listed
  BY DEF Listed
<1>2. \A i \in DOMAIN pending : pending[i].pid \in Pids
  BY EntryType DEF TypeInv, TypeOK
<1>3. CompletedIsReaped'
  BY <1>0, CollectedEnds DEF Account, CompletedIsReaped
<1>4. QueuedIsReaped'
  BY <1>0, <1>2, CollectedEnds DEF Account, QueuedIsReaped
<1>5. EndIsAccounted'
  <2> SUFFICES ASSUME NEW q \in Listed, kstate'[q] = "reaped"
               PROVE  q \in completed' \/ Entry(q, "exited") \in Queued \cup dropped
    BY <1>1 DEF EndIsAccounted, Queued
  <2>1. q \in Pids
    BY ListedType
  <2>2. CASE kstate[q] = "reaped"
    BY <2>2, <1>0 DEF Account, EndIsAccounted
  <2>3. CASE kstate[q] # "reaped"
    BY <2>1, <2>3, <1>0, CollectedEnds
  <2> QED BY <2>2, <2>3
<1>6. QueueIsFresh'
  <2>1. ASSUME NEW i \in DOMAIN pending, pending[i].status = "exited"
        PROVE  pending[i].pid # p
    BY <2>1, <1>0, CollectedEnds DEF Account, QueuedIsReaped
  <2> QED BY <2>1, <1>0, <1>1 DEF Account, QueueIsFresh
<1>7. LiveIsListed'
  BY <1>0, <1>1, CollectedEnds DEF Account, LiveIsListed, Unreaped
<1> QED BY <1>3, <1>4, <1>5, <1>6, <1>7 DEF Account

(* The handler moves an exit from the kernel to the queue.                   *)
LEMMA ReapKeepsAccount ==
  ASSUME TypeInv, Account, NEW p \in Pids, HandlerReap(p)
  PROVE  Account'
<1> DEFINE entry == [pid |-> p, status |-> StatusOf(p)]
<1>0. /\ kstate \in [Pids -> KStates] /\ completed \subseteq Pids
      /\ p \in Waitable /\ kstate' = Collected(p)
      /\ UNCHANGED <<pids, jobs, completed>>
  BY DEF TypeInv, TypeOK, HandlerReap
<1>1. Listed' = Listed
  BY <1>0 DEF Listed
<1>2. pending \in Seq(Entries) /\ DOMAIN pending = 1..Len(pending)
      /\ \A i \in DOMAIN pending : pending[i].pid \in Pids
  BY EntryType DEF TypeInv, TypeOK
<1>3. p \notin completed
  BY <1>0, CollectedEnds DEF Account, CompletedIsReaped
<1>4. \A i \in DOMAIN pending : pending[i].status = "exited" => pending[i].pid # p
  BY <1>0, CollectedEnds DEF Account, QueuedIsReaped
<1>5. CompletedIsReaped'
  BY <1>0, CollectedEnds DEF Account, CompletedIsReaped
<1>6. LiveIsListed'
  <2>1. pc' \in {pc, "corrupt"}
    BY DEF HandlerReap, QueuePendingProcs
  <2> QED BY <2>1, <1>0, <1>1, CollectedEnds DEF Account, LiveIsListed, Unreaped, Leaving, Over
<1>7. \A q \in Listed : kstate'[q] = "reaped" =>
        \/ kstate[q] = "reaped"
        \/ q = p /\ entry = Entry(q, "exited")
  <2>1. Listed \subseteq Pids
    BY ListedType
  <2> QED BY <2>1, <1>0, CollectedEnds DEF Entry
<1>8. CASE Len(pending) < PendingMax
  <2>1. pending' = Append(pending, entry) /\ dropped' = dropped /\ pc' = pc
    BY <1>8 DEF HandlerReap, QueuePendingProcs
  <2>2. /\ DOMAIN pending' = 1..(Len(pending) + 1)
        /\ pending'[Len(pending) + 1] = entry
        /\ \A i \in 1..Len(pending) : pending'[i] = pending[i]
    BY <1>2, <2>1
  <2>3. Queued' = Queued \cup {entry}
    BY <1>2, <2>2 DEF Queued
  <2>4. QueuedIsReaped'
    <3> SUFFICES ASSUME NEW i \in DOMAIN pending', pending'[i].status = "exited"
                 PROVE  kstate'[pending'[i].pid] = "reaped"
      BY DEF QueuedIsReaped
    <3>1. CASE i = Len(pending) + 1
      BY <3>1, <2>2, <1>0, CollectedEnds
    <3>2. CASE i \in 1..Len(pending)
      BY <3>2, <2>2, <1>0, <1>2, CollectedEnds DEF Account, QueuedIsReaped
    <3> QED BY <3>1, <3>2, <2>2, <1>2
  <2>5. EndIsAccounted'
    BY <1>0, <1>1, <1>7, <2>1, <2>3 DEF Account, EndIsAccounted
  <2>6. QueueIsFresh'
    <3> SUFFICES ASSUME pc \notin Leaving,
                        NEW i \in DOMAIN pending', pending'[i].status = "exited",
                        NEW j \in DOMAIN pending'
                 PROVE  /\ pending'[i].pid \in Listed \ completed
                        /\ pending'[j] = pending'[i] => j = i
      BY <1>0, <1>1, <2>1, <2>2 DEF QueueIsFresh
    <3>1. p \in Listed
      BY <1>0, CollectedEnds DEF Account, LiveIsListed, Unreaped
    <3>2. CASE i = Len(pending) + 1
      BY <3>1, <3>2, <2>2, <1>2, <1>3, <1>4
    <3>3. CASE i \in 1..Len(pending)
      <4>1. pending[i].pid \in Listed \ completed /\ pending[i].pid # p
        BY <3>3, <2>2, <1>2, <1>4 DEF Account, QueueIsFresh
      <4>2. CASE j = Len(pending) + 1
        BY <4>1, <4>2, <3>3, <2>2
      <4>3. CASE j \in 1..Len(pending)
        BY <4>1, <4>3, <3>3, <2>2, <1>2 DEF Account, QueueIsFresh
      <4> QED BY <4>2, <4>3, <2>2, <1>2
    <3> QED BY <3>2, <3>3, <2>2, <1>2
  <2> QED BY <1>5, <1>6, <2>4, <2>5, <2>6 DEF Account
<1>9. CASE ~(Len(pending) < PendingMax)
  <2>1. pending' = pending /\ dropped' = dropped \cup {entry} /\ pc' = "corrupt"
    BY <1>9 DEF HandlerReap, QueuePendingProcs
  <2>2. QueuedIsReaped'
    BY <2>1, <1>0, <1>2, CollectedEnds DEF Account, QueuedIsReaped
  <2>3. EndIsAccounted'
    BY <1>0, <1>1, <1>7, <2>1 DEF Account, EndIsAccounted, Queued
  <2>4. QueueIsFresh'
    BY <2>1 DEF QueueIsFresh, Leaving, Over
  <2> QED BY <1>5, <1>6, <2>2, <2>3, <2>4 DEF Account
<1> QED BY <1>8, <1>9

LEMMA AccountNext ==
  ASSUME TypeInv, AccountInv, [Next]_vars
  PROVE  Account'
<1>0. /\ kstate \in [Pids -> KStates] /\ completed \subseteq Pids
      /\ Listed \subseteq Pids /\ Control /\ Account /\ Ownership
      /\ pids \in [JobNums -> SUBSET Pids] /\ jobs \subseteq JobNums
      /\ \A i \in DOMAIN pending : pending[i].pid \in Pids
  BY ListedType, EntryType DEF TypeInv, TypeOK, AccountInv
<1>1. CASE Still
  <2>1. Listed' = Listed /\ Queued' = Queued
    BY <1>1 DEF Still, Listed, Queued
  <2>2. CompletedIsReaped' /\ QueuedIsReaped' /\ EndIsAccounted'
    BY <1>0, <1>1, <2>1
    DEF Still, Account, CompletedIsReaped, QueuedIsReaped, EndIsAccounted
  <2>3. QueueIsFresh' /\ LiveIsListed'
    BY <1>0, <1>1, <2>1 DEF Still, Account, QueueIsFresh, LiveIsListed, Unreaped
  <2> QED BY <2>2, <2>3 DEF Account
<1>2. ASSUME NEW p \in Pids, HandlerReap(p) PROVE Account'
  BY <1>0, <1>2, ReapKeepsAccount
<1>3. ASSUME NEW p \in Pids, WaitOne(p) \/ DrainOne(p) PROVE Account'
  <2>1. Collect(p) /\ pc \notin Leaving /\ UNCHANGED <<pids, jobs, pending, dropped>>
    BY <1>3 DEF WaitOne, DrainOne, At, Leaving, Over
  <2> QED BY <1>0, <2>1, CollectKeepsAccount
<1>4. ASSUME NEW p \in Pids, Fork(p) PROVE Account'
  <2>1. /\ kstate[p] = "unborn" /\ pc = "fork" /\ cur \in jobs
        /\ kstate' = [kstate EXCEPT ![p] = "running"]
        /\ pids' = [pids EXCEPT ![cur] = @ \cup {p}]
        /\ UNCHANGED <<jobs, completed, pending, dropped>>
    BY <1>0, <1>4 DEF Fork, ParentSetup, SetupJobControl, Unborn, At, Control
  <2>2. Listed' = Listed \cup {p}
    BY <1>0, <2>1 DEF Listed
  <2>3. /\ \A q \in Pids : kstate'[q] = "reaped" <=> kstate[q] = "reaped"
        /\ Unreaped' = Unreaped \cup {p} /\ kstate'[p] # "reaped"
    BY <1>0, <2>1 DEF Unreaped
  <2>4. CompletedIsReaped' /\ QueuedIsReaped' /\ EndIsAccounted'
    BY <1>0, <2>1, <2>2, <2>3
    DEF Account, CompletedIsReaped, QueuedIsReaped, EndIsAccounted, Queued
  <2>5. QueueIsFresh' /\ LiveIsListed'
    BY <1>0, <2>1, <2>2, <2>3 DEF Account, QueueIsFresh, LiveIsListed, Leaving, Over
  <2> QED BY <2>4, <2>5 DEF Account
<1>5. ASSUME NEW k \in 1..MaxProcs, NEW bg \in BOOLEAN, Launch(k, bg) PROVE Account'
  <2>1. /\ pc = "prompt" /\ jobs' = jobs \cup {job_num} /\ job_num \in JobNums
        /\ UNCHANGED <<kstate, pids, completed, pending, dropped>>
    BY <1>5, BoundsAssumption DEF Launch, CreateJob, At, JobNums, TypeInv, TypeOK
  <2>2. pids[job_num] = {}
    BY <1>0, <2>1 DEF Ownership, JobNums
  <2>3. Listed' = Listed
    BY <2>1, <2>2 DEF Listed
  <2>4. CompletedIsReaped' /\ QueuedIsReaped' /\ EndIsAccounted'
    BY <1>0, <2>1, <2>3
    DEF Account, CompletedIsReaped, QueuedIsReaped, EndIsAccounted, Queued
  <2>5. QueueIsFresh' /\ LiveIsListed'
    BY <1>0, <2>1, <2>3
    DEF Account, QueueIsFresh, LiveIsListed, Unreaped, Leaving, Over
  <2> QED BY <2>4, <2>5 DEF Account
<1>6. CASE MarkApply
  <2>1. /\ completed' = completed \cup (Marked("exited") \cap Listed)
        /\ pending' = <<>> /\ dropped' = dropped \cup Late
        /\ pc = "apply" /\ UNCHANGED <<kstate, pids, jobs>>
    BY <1>6 DEF MarkApply, At
  <2>2. Listed' = Listed /\ DOMAIN pending' = {} /\ Queued' = {}
    BY <2>1 DEF Listed, Queued
  <2>3. pending \in Seq(Entries) /\ count \in 0..Len(pending)
        /\ DOMAIN pending = 1..Len(pending)
    BY DEF TypeInv, TypeOK
  <2>4. CompletedIsReaped'
    BY <1>0, <2>1, <2>3 DEF Account, CompletedIsReaped, QueuedIsReaped, Marked
  <2>5. EndIsAccounted'
    <3> SUFFICES ASSUME NEW q \in Listed, kstate[q] = "reaped"
                 PROVE  q \in completed' \/ Entry(q, "exited") \in dropped'
      BY <2>1, <2>2 DEF EndIsAccounted
    <3>1. CASE q \in completed \/ Entry(q, "exited") \in dropped
      BY <3>1, <2>1
    <3>2. CASE Entry(q, "exited") \in Queued
      <4>1. PICK i \in 1..Len(pending) : pending[i] = Entry(q, "exited")
        BY <3>2, <2>3 DEF Queued
      <4>2. CASE i <= count
        <5>1. q \in Marked("exited")
          BY <4>1, <4>2, <2>3 DEF Marked, Entry
        <5> QED BY <5>1, <2>1
      <4>3. CASE i > count
        <5>1. Entry(q, "exited") \in Late
          BY <4>1, <4>3, <2>3 DEF Late
        <5> QED BY <5>1, <2>1
      <4> QED BY <4>2, <4>3, <2>3
    <3> QED BY <3>1, <3>2, <1>0 DEF Account, EndIsAccounted
  <2>6. QueuedIsReaped' /\ QueueIsFresh'
    BY <2>2 DEF QueuedIsReaped, QueueIsFresh
  <2>7. LiveIsListed'
    BY <1>0, <2>1, <2>2 DEF Account, LiveIsListed, Unreaped, Leaving, Over
  <2> QED BY <2>4, <2>5, <2>6, <2>7 DEF Account
<1>7. CASE Notify \/ ListJobs \/ Finish
  <2>1. /\ jobs' \subseteq jobs /\ \A n \in jobs : n \notin jobs' => JobIsCompleted(n)
        /\ UNCHANGED <<kstate, pids, completed, pending, dropped>> /\ pc \notin Leaving
    BY <1>7 DEF Notify, ListJobs, Finish, Retire, FreeJob, At, Leaving, Over
  <2> QED BY <1>0, <2>1, RetireKeepsAccount
<1>8. CASE LaunchFails \/ CleanUp
  <2>1. /\ jobs' \subseteq jobs /\ pc' \in Leaving
        /\ \A q \in Pids : kstate'[q] = "reaped" <=> kstate[q] = "reaped"
        /\ UNCHANGED <<pids, completed, pending, dropped>>
    BY <1>0, <1>8 DEF LaunchFails, CleanUp, KillJobs, FreeJob, Leaving, Over, Resumed, Halted
  <2>2. Listed' \subseteq Listed
    BY <2>1 DEF Listed
  <2>3. CompletedIsReaped' /\ QueuedIsReaped' /\ EndIsAccounted'
    BY <1>0, <2>1, <2>2
    DEF Account, CompletedIsReaped, QueuedIsReaped, EndIsAccounted, Queued
  <2>4. QueueIsFresh' /\ LiveIsListed'
    BY <2>1 DEF QueueIsFresh, LiveIsListed
  <2> QED BY <2>3, <2>4 DEF Account
<1> QED
  BY <1>1, <1>2, <1>3, <1>4, <1>5, <1>6, <1>7, <1>8, StepKinds

LEMMA AccountInit == Init => AccountInv
<1> SUFFICES ASSUME Init PROVE AccountInv
  OBVIOUS
<1>1. Ownership
  BY DEF Init, Ownership
<1>2. Account
  BY DEF Init, Account, CompletedIsReaped, QueuedIsReaped, EndIsAccounted,
         QueueIsFresh, LiveIsListed, Listed, Unreaped
<1> QED BY <1>1, <1>2 DEF AccountInv

LEMMA AccountSpec == Spec => [](TypeInv /\ AccountInv)
<1>1. TypeInv /\ AccountInv /\ [Next]_vars => AccountInv'
  BY OwnershipNext, AccountNext DEF AccountInv
<1> QED
  BY <1>1, TypeInit, TypeNext, AccountInit, PTL DEF Spec

(* A Process is marked completed only when its child is reaped.              *)
THEOREM MarkingIsTruthful == Spec => []CompletedIsReaped
<1>1. AccountInv => CompletedIsReaped
  BY DEF AccountInv, Account
<1> QED BY <1>1, AccountSpec, PTL

(* No collected end of a listed job's process disappears, except through the *)
(* reset of the queue.                                                       *)
THEOREM EndsAreAccounted == Spec => []EndIsAccounted
<1>1. AccountInv => EndIsAccounted
  BY DEF AccountInv, Account
<1> QED BY <1>1, AccountSpec, PTL

(* The queue never holds a stale or a repeated exit.                         *)
THEOREM QueueStaysFresh == Spec => []QueueIsFresh
<1>1. AccountInv => QueueIsFresh
  BY DEF AccountInv, Account
<1> QED BY <1>1, AccountSpec, PTL

(* No live child is forgotten before the shell leaves.                       *)
THEOREM LiveStaysListed == Spec => []LiveIsListed
<1>1. AccountInv => LiveIsListed
  BY DEF AccountInv, Account
<1> QED BY <1>1, AccountSpec, PTL

-----------------------------------------------------------------------------
(* JobControl implements JobLedger *)

Reaped == {p \in Pids : kstate[p] = "reaped"}

(* A step that only moves the shell on, or out of its loop.                  *)
LEMMA StillOrLeave ==
  ASSUME UNCHANGED <<jobs, job_num, pids>>, Reaped' = Reaped,
         pc \in Leaving => pc' \in Leaving
  PROVE  [Ledger!Next]_Ledger!ledger
<1>1. CASE pc' \in Leaving
  <2>1. Ledger!Leave
    BY <1>1 DEF Ledger!Leave, Reaped
  <2> QED BY <2>1 DEF Ledger!Next
<1>2. CASE pc' \notin Leaving
  <2>1. (pc' \in Leaving) = (pc \in Leaving)
    BY <1>2
  <2> QED BY <2>1 DEF Ledger!ledger, Reaped
<1> QED BY <1>1, <1>2

(* Collecting the status of a child of a known job is Reap, or nothing.      *)
LEMMA CollectIsReap ==
  ASSUME TypeInv, AccountInv, NEW p \in Waitable, kstate' = Collected(p),
         UNCHANGED <<jobs, job_num, pids>>, pc \in Leaving => pc' \in Leaving,
         p \in Ledger!Started
  PROVE  [Ledger!Next]_Ledger!ledger
<1>0. p \in Pids /\ p \notin Reaped
  BY CollectedEnds DEF Reaped
<1>1. CASE StatusOf(p) = "exited"
  <2>1. Reaped' = Reaped \cup {p}
    BY <1>0, <1>1, CollectedEnds DEF Reaped
  <2>2. Ledger!Reap(p)
    BY <1>0, <2>1 DEF Ledger!Reap, Reaped
  <2> QED BY <1>0, <2>2 DEF Ledger!Next
<1>2. CASE StatusOf(p) # "exited"
  <2>1. Reaped' = Reaped
    BY <1>0, <1>2, CollectedEnds DEF Reaped
  <2> QED BY <2>1, StillOrLeave DEF Reaped
<1> QED BY <1>1, <1>2

(* Jobs leave the list for good reasons: they have processes, all reaped.    *)
LEMMA RetireIsStrikeOff ==
  ASSUME TypeInv, AccountInv, pc \notin {"block", "fork", "corrupt"},
         jobs' \subseteq jobs, \A n \in jobs : n \notin jobs' => JobIsCompleted(n),
         UNCHANGED <<kstate, pids, job_num>>,
         pc \notin Leaving, pc' \notin Leaving
  PROVE  [Ledger!Next]_Ledger!ledger
<1> DEFINE S == jobs \ jobs'
<1>0. pids \in [JobNums -> SUBSET Pids] /\ jobs \subseteq JobNums
  BY ListedType DEF TypeInv, TypeOK
<1>1. \A n \in S : pids[n] # {} /\ pids[n] \subseteq Reaped
  BY <1>0 DEF AccountInv, Ownership, Account, CompletedIsReaped, JobIsCompleted, Reaped
<1>2. jobs' = jobs \ S /\ S \in SUBSET jobs /\ Reaped' = Reaped
  BY DEF Reaped
<1>3. (pc' \in Leaving) = (pc \in Leaving)
  OBVIOUS
<1>4. Ledger!StrikeOff(S)
  BY <1>1, <1>2, <1>3 DEF Ledger!StrikeOff, Reaped
<1> QED BY <1>2, <1>4 DEF Ledger!Next

LEMMA LedgerStep ==
  ASSUME TypeInv, AccountInv, [Next]_vars
  PROVE  [Ledger!Next]_Ledger!ledger
<1>0. /\ kstate \in [Pids -> KStates] /\ Control /\ Account /\ Ownership
      /\ pids \in [JobNums -> SUBSET Pids] /\ jobs \subseteq JobNums
      /\ job_num \in 1..(MaxJobs + 1) /\ jobs \subseteq 1..(job_num - 1)
  BY ListedType DEF TypeInv, TypeOK, AccountInv
<1>1. CASE Still
  <2>1. Reaped' = Reaped
    BY <1>1 DEF Still, Reaped
  <2> QED BY <1>1, <2>1, StillOrLeave DEF Still
<1>2. ASSUME NEW p \in Pids, HandlerReap(p) PROVE [Ledger!Next]_Ledger!ledger
  <2>1. /\ p \in Waitable /\ kstate' = Collected(p) /\ UNCHANGED <<jobs, job_num, pids>>
        /\ pc \in Leaving => pc' \in Leaving
    BY <1>2 DEF HandlerReap, QueuePendingProcs, Leaving, Over
  <2>2. p \in Ledger!Started
    BY <1>0, <2>1, CollectedEnds DEF Ownership, Ledger!Started
  <2> QED BY <2>1, <2>2, CollectIsReap
<1>3. ASSUME NEW p \in Pids, WaitOne(p) \/ DrainOne(p) PROVE [Ledger!Next]_Ledger!ledger
  <2>1. /\ p \in pids[cur] /\ cur \in JobNums
        /\ p \in Waitable /\ kstate' = Collected(p) /\ UNCHANGED <<jobs, job_num, pids>>
        /\ pc \notin Leaving
    BY <1>0, <1>3 DEF WaitOne, DrainOne, Collect, At, Control, Leaving, Over
  <2>2. p \in Ledger!Started
    BY <2>1 DEF Ledger!Started
  <2> QED BY <2>1, <2>2, CollectIsReap
<1>4. ASSUME NEW p \in Pids, Fork(p) PROVE [Ledger!Next]_Ledger!ledger
  <2>1. /\ kstate[p] = "unborn" /\ pc = "fork" /\ cur \in jobs
        /\ kstate' = [kstate EXCEPT ![p] = "running"]
        /\ pids' = [pids EXCEPT ![cur] = @ \cup {p}]
        /\ UNCHANGED <<jobs, job_num>> /\ pc' \in {"fork", "restore", "give"}
    BY <1>0, <1>4 DEF Fork, ParentSetup, SetupJobControl, Unborn, At, Control
  <2>2. Reaped' = Reaped
    BY <1>0, <2>1 DEF Reaped
  <2>3. p \notin Ledger!Started
    BY <1>0, <2>1 DEF Ownership, Ledger!Started
  <2>4. pc \notin Leaving /\ pc' \notin Leaving
    BY <2>1 DEF Leaving, Over
  <2>5. (pc' \in Leaving) = (pc \in Leaving)
    BY <2>4
  <2>6. Ledger!Start(cur, p)
    BY <2>1, <2>2, <2>3, <2>4, <2>5 DEF Ledger!Start, Reaped
  <2> QED BY <1>0, <2>1, <2>6 DEF Ledger!Next
<1>5. ASSUME NEW k \in 1..MaxProcs, NEW bg \in BOOLEAN, Launch(k, bg)
      PROVE  [Ledger!Next]_Ledger!ledger
  <2>1. /\ pc = "prompt" /\ pc' = "block" /\ jobs' = jobs \cup {job_num}
        /\ job_num \in JobNums /\ job_num' = job_num + 1
        /\ UNCHANGED <<kstate, pids>>
    BY <1>0, <1>5, BoundsAssumption DEF Launch, CreateJob, At, JobNums
  <2>2. Reaped' = Reaped
    BY <2>1 DEF Reaped
  <2>3. pc \notin Leaving /\ pc' \notin Leaving
    BY <2>1 DEF Leaving, Over
  <2>4. (pc' \in Leaving) = (pc \in Leaving)
    BY <2>3
  <2>5. /\ \A m \in 1..(job_num - 1) : m < job_num
        /\ 1..(job_num' - 1) = 1..(job_num - 1) \cup {job_num}
    BY <1>0, <2>1, BoundsAssumption
  <2>6. Ledger!Enter(job_num)
    BY <2>1, <2>2, <2>3, <2>4, <2>5 DEF Ledger!Enter, Reaped
  <2> QED BY <2>1, <2>6 DEF Ledger!Next
<1>6. CASE MarkApply
  <2>1. /\ UNCHANGED <<kstate, pids, jobs, job_num>> /\ pc \notin Leaving
    BY <1>6 DEF MarkApply, At, Leaving, Over
  <2>2. Reaped' = Reaped
    BY <2>1 DEF Reaped
  <2> QED BY <2>1, <2>2, StillOrLeave
<1>7. CASE Notify \/ ListJobs \/ Finish
  <2>1. /\ jobs' \subseteq jobs /\ \A n \in jobs : n \notin jobs' => JobIsCompleted(n)
        /\ UNCHANGED <<kstate, pids, job_num>>
    BY <1>7 DEF Notify, ListJobs, Finish, Retire, FreeJob
  <2>2. /\ pc \notin {"block", "fork", "corrupt"} /\ pc \notin Leaving
        /\ pc' \notin Leaving
    BY <1>7 DEF Notify, ListJobs, Finish, At, Leaving, Over
  <2> QED BY <2>1, <2>2, RetireIsStrikeOff
<1>8. CASE LaunchFails \/ CleanUp
  <2>1. /\ jobs' \subseteq jobs /\ pc' \in Leaving /\ UNCHANGED <<pids, job_num>>
        /\ \A q \in Pids : kstate'[q] = "reaped" <=> kstate[q] = "reaped"
    BY <1>0, <1>8 DEF LaunchFails, CleanUp, KillJobs, FreeJob, Leaving, Over, Resumed, Halted
  <2>2. Reaped' = Reaped
    BY <2>1 DEF Reaped
  <2>3. Ledger!Leave
    BY <2>1, <2>2 DEF Ledger!Leave, Reaped
  <2> QED BY <2>3 DEF Ledger!Next
<1> QED
  BY <1>1, <1>2, <1>3, <1>4, <1>5, <1>6, <1>7, <1>8, StepKinds

(* Every behaviour of the shell, seen through its list, is one of the ledger. *)
THEOREM ImplementsLedger == Spec => LedgerSpec
<1>1. Init => Ledger!Init
  BY DEF Init, Ledger!Init, Leaving, Over
<1>2. TypeInv /\ AccountInv /\ [Next]_vars => [Ledger!Next]_Ledger!ledger
  BY LedgerStep
<1> QED
  BY <1>1, <1>2, AccountSpec, PTL DEF Spec, LedgerSpec, Ledger!Spec

=============================================================================
