---------------------------- MODULE LaunchProofs ----------------------------
(* More theorems about JobControl: launches, stopped marks, the exit status, *)
(* leaving and the queue.  They use the invariants of JobControlProofs.     *)
EXTENDS JobControlProofs, FiniteSetTheorems

USE DEF kernelVars, queueVars, maskVars, tableVars, flagVars, stepVars

(* No group 0 is ever signalled: the ownership of pids says which listed job *)
(* may be without a process.                                                 *)
THEOREM NoGroupZero == Spec => []NoEmptyGroup
<1>1. AccountInv => NoEmptyGroup
  BY DEF AccountInv, Ownership, NoEmptyGroup
<1> QED BY <1>1, AccountSpec, PTL

-----------------------------------------------------------------------------
(* The steps that only move the shell on, or retire jobs                     *)

LaunchPCs == {"block", "fork", "give", "wait", "drain", "reclaim", "finish", "restore"}

(* How the control of a launch moves when no process is forked or collected. *)
LaunchGoesOn ==
  /\ cmd = "launch" /\ cur' = cur /\ last_exit_status' = last_exit_status
  /\ \/ pc' = pc
     \/ pc = "block" /\ pc' = "fork"
     \/ pc = "give" /\ pc' = "wait"
     \/ pc = "wait" /\ pc' = "drain" /\ Group(cur) = {}
     \/ pc = "drain" /\ pc' = "reclaim"
     \/ pc = "reclaim" /\ pc' = "finish"

Walk ==
  /\ UNCHANGED <<kstate, code, hupped, stops, conts, pending, dropped, pids, last_pid,
                 completed, stopped>>
  /\ cmd' = "launch" /\ pc' \in LaunchPCs => LaunchGoesOn
  /\ pc' \in Leaving =>
       /\ jobs' = jobs
       /\ pc \in Leaving => pc' = pc /\ cmd' = cmd /\ cur' = cur
       /\ pc' = "done" => pc = "done" /\ (handling' = TRUE => handling = TRUE)
  /\ pc = "done" => pc' = "done"
  /\ \/ child_changed' = child_changed /\ (pc' = pc \/ pc \notin {"mark", "apply"})
     \/ pc = "top" /\ (child_changed = TRUE => pc' = "mark")
     \/ pc = "mark" /\ pc' = "apply"

LEMMA WalkKinds ==
  ASSUME TypeInv, [Next]_vars
  PROVE  \/ Walk
         \/ \E p \in Pids : \/ \E c \in Codes : ProcExit(p, c)
                            \/ ProcStop(p) \/ ProcContinue(p) \/ HandlerReap(p)
                            \/ Fork(p) \/ WaitOne(p) \/ DrainOne(p)
         \/ \E k \in 1..MaxProcs, bg \in BOOLEAN : Launch(k, bg)
         \/ MarkApply \/ ContStopped \/ ContFails \/ LaunchFails \/ CleanUp
<1>0. /\ pc \in PCs /\ Control /\ handling \in BOOLEAN
      /\ cmd \in {"none", "jobs", "fg", "bg", "launch"}
  BY DEF TypeInv, TypeOK
<1> USE <1>0 DEF Walk, LaunchGoesOn, LaunchPCs, Leaving, Over, At, Control, PCs
<1>1. CASE DeliverSigchld \/ HandlerReturn
  BY <1>1 DEF DeliverSigchld, HandlerReturn
<1>2. CASE EmptyLine \/ BadLine
  BY <1>2 DEF EmptyLine, BadLine
<1>3. ASSUME NEW s \in {0, 1}, OtherBuiltin(s) PROVE Walk
  BY <1>3 DEF OtherBuiltin
<1>4. ASSUME NEW s, ExitShell(s) PROVE Walk
  BY <1>4 DEF ExitShell
<1>5. ASSUME NEW b \in {"jobs", "fg", "bg"}, JobBuiltin(b) PROVE Walk
  BY <1>5 DEF JobBuiltin
<1>6. CASE Top \/ MarkRead
  BY <1>6 DEF Top, MarkRead
<1>7. CASE Notify \/ ListJobs
  BY <1>7 DEF Notify, ListJobs
<1>8. ASSUME NEW a, FindRefuses(a) \/ FindTakes(a) PROVE Walk
  BY <1>8 DEF FindRefuses, FindTakes, Refuse
<1>9. CASE BlockSignals
  BY <1>9 DEF BlockSignals
<1>10. CASE ContNothing
  BY <1>10 DEF ContNothing, After
<1>11. CASE GiveTerminal \/ WaitDone \/ DrainDone \/ ReclaimTerminal
  BY <1>11 DEF GiveTerminal, WaitDone, DrainDone, ReclaimTerminal
<1>12. CASE RestoreBackground \/ Finish
  BY <1>12 DEF RestoreBackground, Finish
<1>13. CASE UNCHANGED vars
  BY <1>13 DEF vars
<1> QED
  BY <1>1, <1>2, <1>3, <1>4, <1>5, <1>6, <1>7, <1>8, <1>9, <1>10, <1>11, <1>12, <1>13
  DEF Next, ShellStep, UserLine, HandlerStep, ChildStep, Terminated

(* What a step does to the queue.                                            *)
LEMMA QueueSteps ==
  ASSUME TypeInv
  PROVE  /\ \A e \in Queued : e \in Entries
         /\ pending' = pending => Queued' = Queued
         /\ pending' = <<>> => Queued' = {}
         /\ \A p \in Pids : HandlerReap(p) =>
              /\ Queued' \cup dropped' = Queued \cup dropped \cup {Entry(p, StatusOf(p))}
              /\ Queued' \subseteq Queued \cup {Entry(p, StatusOf(p))}
<1>1. pending \in Seq(Entries) /\ DOMAIN pending = 1..Len(pending)
  BY DEF TypeInv, TypeOK
<1>2. \A e \in Queued : e \in Entries
  BY <1>1 DEF Queued
<1>3. (pending' = pending => Queued' = Queued) /\ (pending' = <<>> => Queued' = {})
  BY DEF Queued
<1>4. ASSUME NEW p \in Pids, HandlerReap(p)
      PROVE  /\ Queued' \cup dropped' = Queued \cup dropped \cup {Entry(p, StatusOf(p))}
             /\ Queued' \subseteq Queued \cup {Entry(p, StatusOf(p))}
  <2> DEFINE entry == [pid |-> p, status |-> StatusOf(p)]
  <2>0. entry = Entry(p, StatusOf(p))
    BY DEF Entry
  <2> HIDE DEF entry
  <2>1. CASE Len(pending) < PendingMax
    <3>1. pending' = Append(pending, entry) /\ dropped' = dropped
      BY <1>4, <2>1 DEF HandlerReap, QueuePendingProcs, entry
    <3>2. /\ DOMAIN pending' = 1..(Len(pending) + 1)
          /\ pending'[Len(pending) + 1] = entry
          /\ \A i \in 1..Len(pending) : pending'[i] = pending[i]
      BY <1>1, <3>1
    <3>3. Queued' = Queued \cup {entry}
      BY <1>1, <3>2 DEF Queued
    <3> QED BY <2>0, <3>1, <3>3
  <2>2. CASE ~(Len(pending) < PendingMax)
    <3>1. pending' = pending /\ dropped' = dropped \cup {entry}
      BY <1>4, <2>2 DEF HandlerReap, QueuePendingProcs, entry
    <3> QED BY <2>0, <3>1, <1>3
  <2> QED BY <2>1, <2>2
<1> QED BY <1>2, <1>3, <1>4

-----------------------------------------------------------------------------
(* What the queue holds is announced                                         *)

LEMMA AnnouncedNext ==
  ASSUME TypeInv, QueueIsAnnounced, [Next]_vars
  PROVE  QueueIsAnnounced'
<1>0. pc \in PCs /\ child_changed \in BOOLEAN /\ Control
  BY DEF TypeInv, TypeOK
<1> USE <1>0 DEF QueueIsAnnounced, At
<1>1. CASE Walk
  BY <1>1, QueueSteps DEF Walk
<1>2. ASSUME NEW p \in Pids, NEW c \in Codes, ProcExit(p, c) PROVE QueueIsAnnounced'
  BY <1>2, QueueSteps DEF ProcExit
<1>3. ASSUME NEW p \in Pids, ProcStop(p) \/ ProcContinue(p) PROVE QueueIsAnnounced'
  BY <1>3, QueueSteps DEF ProcStop, ProcContinue
<1>4. ASSUME NEW p \in Pids, HandlerReap(p) PROVE QueueIsAnnounced'
  BY <1>4 DEF HandlerReap
<1>5. ASSUME NEW p \in Pids, Fork(p) \/ WaitOne(p) \/ DrainOne(p) PROVE QueueIsAnnounced'
  BY <1>5, QueueSteps DEF Fork, WaitOne, DrainOne
<1>6. ASSUME NEW k \in 1..MaxProcs, NEW bg \in BOOLEAN, Launch(k, bg) PROVE QueueIsAnnounced'
  BY <1>6, QueueSteps DEF Launch
<1>7. CASE MarkApply
  BY <1>7, QueueSteps DEF MarkApply
<1>8. CASE ContStopped \/ ContFails \/ LaunchFails \/ CleanUp
  BY <1>8, QueueSteps DEF ContStopped, ContFails, LaunchFails, CleanUp
<1> QED BY <1>1, <1>2, <1>3, <1>4, <1>5, <1>6, <1>7, <1>8, WalkKinds

(* A status in the queue is marked before the next prompt.                   *)
THEOREM QueueStaysAnnounced == Spec => []QueueIsAnnounced
<1>1. Init => QueueIsAnnounced
  BY DEF Init, QueueIsAnnounced, Queued
<1>2. TypeInv /\ QueueIsAnnounced /\ [Next]_vars => QueueIsAnnounced'
  BY AnnouncedNext
<1> QED BY <1>1, <1>2, TypeInit, TypeNext, PTL DEF Spec

-----------------------------------------------------------------------------
(* The statuses of a launch, and the group its commands join                 *)

(* No status is queued of a child not yet forked, and the processes of a     *)
(* launch whose statuses nobody collects yet are all unreaped.               *)
LaunchInv ==
  /\ \A e \in Queued \cup dropped : kstate[e.pid] # "unborn"
  /\ pc = "block" /\ cmd = "launch" => pids[cur] = {}
  /\ pc \in {"fork", "give"} /\ cmd = "launch" => pids[cur] \subseteq Unreaped
  /\ LaunchKeepsStatuses

LEMMA LaunchInvNext ==
  ASSUME TypeInv, MaskInv, Ownership, LaunchInv, [Next]_vars
  PROVE  LaunchInv'
<1>0. /\ kstate \in [Pids -> KStates] /\ pc \in PCs /\ Control
      /\ pids \in [JobNums -> SUBSET Pids] /\ jobs \subseteq JobNums
      /\ dropped \subseteq Entries
      /\ \A e \in Queued \cup dropped : e \in Entries /\ e.pid \in Pids
  BY ListedType, QueueSteps DEF TypeInv, TypeOK, Entries
<1> USE <1>0 DEF LaunchInv, LaunchKeepsStatuses, At
<1>1. CASE Walk
  BY <1>1, QueueSteps DEF Walk, LaunchGoesOn, LaunchPCs, Unreaped
<1>2. ASSUME NEW p \in Pids, NEW c \in Codes, ProcExit(p, c) PROVE LaunchInv'
  BY <1>2, QueueSteps DEF ProcExit, Unreaped
<1>3. ASSUME NEW p \in Pids, ProcStop(p) \/ ProcContinue(p) PROVE LaunchInv'
  BY <1>3, QueueSteps DEF ProcStop, ProcContinue, Resumed, Halted, Unreaped
<1>4. ASSUME NEW p \in Pids, HandlerReap(p) PROVE LaunchInv'
  <2>1. /\ handling = TRUE /\ p \in Waitable /\ kstate' = Collected(p)
        /\ pc' \in {pc, "corrupt"} /\ UNCHANGED <<cmd, cur, pids>>
    BY <1>4 DEF HandlerReap, QueuePendingProcs
  <2>2. pc \notin MaskedPCs
    BY <2>1 DEF MaskInv
  <2>3. \A e \in Queued' \cup dropped' :
          e \in Queued \cup dropped \/ e = Entry(p, StatusOf(p))
    BY <1>4, QueueSteps
  <2>4. \A e \in Queued' \cup dropped' : kstate'[e.pid] # "unborn"
    BY <2>1, <2>3, CollectedEnds DEF Entry
  <2> QED BY <2>1, <2>2, <2>4 DEF MaskedPCs
<1>5. ASSUME NEW p \in Pids, WaitOne(p) \/ DrainOne(p) PROVE LaunchInv'
  <2>1. /\ pc \in {"wait", "drain"} /\ pc' \in {"wait", "drain"}
        /\ p \in Waitable /\ kstate' = Collected(p)
        /\ UNCHANGED <<cmd, cur, pids, pending, dropped>>
    BY <1>5 DEF WaitOne, DrainOne, Collect
  <2> QED BY <2>1, QueueSteps, CollectedEnds
<1>6. ASSUME NEW p \in Pids, Fork(p) PROVE LaunchInv'
  <2>1. /\ pc = "fork" /\ cmd = "launch" /\ cur \in JobNums /\ kstate[p] = "unborn"
        /\ kstate' = [kstate EXCEPT ![p] = "running"]
        /\ pids' = [pids EXCEPT ![cur] = @ \cup {p}]
        /\ pc' \in {"fork", "restore", "give"} /\ UNCHANGED <<cmd, cur, pending, dropped>>
    BY <1>6 DEF Fork, ParentSetup, SetupJobControl, Unborn, Control
  <2>2. pids'[cur'] = pids[cur] \cup {p} /\ Unreaped \cup {p} \subseteq Unreaped'
    BY <2>1 DEF Unreaped
  <2>3. \A e \in Queued \cup dropped : e.pid # p
    BY <2>1
  <2>4. ASSUME NEW q \in pids'[cur'], NEW s \in {"stopped", "exited"}
        PROVE  Entry(q, s) \notin Queued \cup dropped
    BY <2>1, <2>2, <2>3 DEF Entry
  <2>5. \A e \in Queued \cup dropped : kstate'[e.pid] # "unborn"
    BY <2>1
  <2> QED BY <2>1, <2>2, <2>4, <2>5, QueueSteps
<1>7. ASSUME NEW k \in 1..MaxProcs, NEW bg \in BOOLEAN, Launch(k, bg) PROVE LaunchInv'
  <2>1. /\ job_num <= MaxJobs /\ cur' = job_num /\ pc' = "block"
        /\ UNCHANGED <<kstate, pids, pending, dropped>>
    BY <1>7 DEF Launch, CreateJob
  <2>2. pids[job_num] = {}
    BY <2>1, BoundsAssumption DEF Ownership, JobNums, TypeInv, TypeOK
  <2> QED BY <2>1, <2>2, QueueSteps
<1>8. CASE MarkApply
  <2>1. /\ pc = "apply" /\ pc' \in {"notify", "list", "find"} /\ kstate' = kstate
        /\ pending' = <<>> /\ dropped' = dropped \cup Late
    BY <1>8 DEF MarkApply
  <2>2. Late \subseteq Queued
    BY DEF Late, Queued, TypeInv, TypeOK
  <2> QED BY <2>1, <2>2, QueueSteps
<1>9. CASE ContStopped \/ ContFails
  <2>1. /\ cmd # "launch" /\ UNCHANGED <<cmd, pending, dropped>>
        /\ \A p \in Pids : kstate'[p] = "unborn" <=> kstate[p] = "unborn"
    BY <1>9 DEF ContStopped, ContFails, Control, Resumed, Halted
  <2> QED BY <2>1, QueueSteps
<1>10. CASE LaunchFails \/ CleanUp
  <2>1. /\ pc' \in {"cleanup", "done"} /\ UNCHANGED <<pending, dropped>>
        /\ \A p \in Pids : kstate'[p] = "unborn" <=> kstate[p] = "unborn"
    BY <1>10 DEF LaunchFails, CleanUp, KillJobs, Resumed, Halted
  <2> QED BY <2>1, QueueSteps
<1> QED
  BY <1>1, <1>2, <1>3, <1>4, <1>5, <1>6, <1>7, <1>8, <1>9, <1>10, WalkKinds

LEMMA LaunchSpec == Spec => [](TypeInv /\ MaskInv /\ AccountInv /\ LaunchInv)
<1>1. Init => MaskInv
  BY DEF Init, MaskInv, MaskedPCs
<1>2. Init => LaunchInv
  BY DEF Init, LaunchInv, LaunchKeepsStatuses, Queued
<1>3. TypeInv /\ MaskInv /\ AccountInv /\ LaunchInv /\ [Next]_vars => LaunchInv'
  BY LaunchInvNext DEF AccountInv
<1>4. TypeInv /\ AccountInv /\ [Next]_vars => AccountInv'
  BY OwnershipNext, AccountNext DEF AccountInv
<1> QED
  BY <1>1, <1>2, <1>3, <1>4, TypeInit, TypeNext, MaskNext, AccountInit, PTL DEF Spec

(* The handler takes no status of a job that is being launched.              *)
THEOREM LaunchTakesStatuses == Spec => []LaunchKeepsStatuses
<1>1. LaunchInv => LaunchKeepsStatuses
  BY DEF LaunchInv
<1> QED BY <1>1, LaunchSpec, PTL

(* The group of a pipeline exists as long as commands have to join it.       *)
THEOREM GroupStaysJoinable == Spec => []GroupIsJoinable
<1>1. TypeInv /\ LaunchInv => GroupIsJoinable
  BY DEF TypeInv, Control, LaunchInv, GroupIsJoinable, Group
<1> QED BY <1>1, LaunchSpec, PTL

-----------------------------------------------------------------------------
(* What $? is after a launch                                                 *)

(* When the wait for a launch begins nobody has completed yet.               *)
LEMMA NoneCompletedYet ==
  ASSUME TypeInv, LaunchInv, CompletedIsReaped, pc = "give", cmd = "launch"
  PROVE  pids[cur] \cap completed = {}
BY DEF LaunchInv, CompletedIsReaped, Unreaped


LastPCs == {"wait", "drain", "reclaim", "finish"}

(* Without stops a wait collects ends only, and goes on until none is left:  *)
(* the end of the last command passes through it, and stores $?.             *)
StatusInv ==
  /\ stops = 0 => Halted = {}
  /\ pc \in {"fork", "give"} \cup LastPCs /\ cmd = "launch" /\ pids[cur] # {}
       => last_pid[cur] \in pids[cur]
  /\ stops = 0 /\ pc \in {"drain", "reclaim", "finish"} /\ cmd = "launch" => Group(cur) = {}
  /\ stops = 0 /\ pc \in LastPCs /\ cmd = "launch" /\ last_pid[cur] \in completed
       => last_exit_status = code[last_pid[cur]]

LEMMA StatusInvNext ==
  ASSUME TypeInv, AccountInv, LaunchInv, StatusInv, [Next]_vars
  PROVE  StatusInv'
<1>0. /\ kstate \in [Pids -> KStates] /\ pc \in PCs /\ Control /\ cur \in JobNums \cup {0}
      /\ pids \in [JobNums -> SUBSET Pids] /\ jobs \subseteq JobNums
      /\ last_pid \in [JobNums -> Pids \cup {NoPid}]
      /\ code \in [Pids -> Codes] /\ stops \in Nat /\ completed \subseteq Pids
      /\ CompletedIsReaped
  BY ListedType, BoundsAssumption DEF TypeInv, TypeOK, AccountInv, Account
<1> USE <1>0 DEF StatusInv, LastPCs, At
<1>1. CASE Walk
  <2>1. Halted' = Halted /\ Unreaped' = Unreaped
    BY <1>1 DEF Walk, Halted, Unreaped
  <2>2. CASE cmd' = "launch" /\ pc' \in LaunchPCs
    <3>1. /\ cmd = "launch" /\ LaunchGoesOn
          /\ UNCHANGED <<code, stops, pids, last_pid, completed>>
      BY <1>1, <2>2 DEF Walk, LaunchGoesOn
    <3>2. pc = "block" => pids[cur] = {}
      BY <3>1 DEF LaunchInv
    <3>3. pc = "give" => pids[cur] # {} /\ pids[cur] \cap completed = {}
      BY <3>1, NoneCompletedYet DEF Control, AccountInv, Ownership
    <3> QED BY <2>1, <3>1, <3>2, <3>3 DEF LaunchGoesOn, Group
  <2>3. CASE ~(cmd' = "launch" /\ pc' \in LaunchPCs)
    BY <1>1, <2>1, <2>3 DEF Walk, LaunchPCs
  <2> QED BY <2>2, <2>3
<1>2. ASSUME NEW p \in Pids, NEW c \in Codes, ProcExit(p, c) PROVE StatusInv'
  <2>1. /\ kstate[p] \in {"running", "stopped_new", "stopped"}
        /\ kstate' = [kstate EXCEPT ![p] = "zombie"] /\ code' = [code EXCEPT ![p] = c]
        /\ UNCHANGED <<stops, pc, cmd, cur, pids, last_pid, completed, last_exit_status>>
    BY <1>2 DEF ProcExit
  <2>2. Unreaped' = Unreaped /\ Halted' \subseteq Halted /\ p \notin completed
    BY <2>1 DEF Unreaped, Halted, CompletedIsReaped
  <2> QED BY <2>1, <2>2 DEF Group
<1>3. ASSUME NEW p \in Pids, ProcStop(p) \/ ProcContinue(p) PROVE StatusInv'
  <2>1. /\ UNCHANGED <<code, pc, cmd, cur, pids, last_pid, completed, last_exit_status>>
        /\ stops' = 0 => stops = 0 /\ Halted' \subseteq Halted
        /\ Unreaped' = Unreaped
    BY <1>3 DEF ProcStop, ProcContinue, Resumed, Halted, Unreaped
  <2> QED BY <2>1 DEF Group
<1>4. ASSUME NEW p \in Pids, HandlerReap(p) PROVE StatusInv'
  <2>1. /\ p \in Waitable /\ kstate' = Collected(p) /\ pc' \in {pc, "corrupt"}
        /\ UNCHANGED <<code, stops, cmd, cur, pids, last_pid, completed, last_exit_status>>
    BY <1>4 DEF HandlerReap, QueuePendingProcs
  <2>2. Unreaped' \subseteq Unreaped /\ (Halted = {} => Halted' = {})
    BY <2>1 DEF Unreaped, Halted, Collected, Waitable
  <2> QED BY <2>1, <2>2 DEF Group
<1>5. ASSUME NEW p \in Pids, WaitOne(p) \/ DrainOne(p) PROVE StatusInv'
  <2>1. /\ p \in pids[cur] /\ p \in Waitable /\ kstate' = Collected(p)
        /\ completed' = IF StatusOf(p) = "exited" THEN completed \cup {p} ELSE completed
        /\ UNCHANGED <<code, stops, cmd, cur, pids, last_pid>>
    BY <1>5 DEF WaitOne, DrainOne, Collect
  <2>2. /\ Unreaped' \subseteq Unreaped /\ (Halted = {} => Halted' = {})
        /\ p \in Unreaped /\ (Halted = {} => StatusOf(p) = "exited")
    BY <2>1 DEF Unreaped, Halted, Collected, Waitable, StatusOf
  <2>3. CASE WaitOne(p)
    BY <2>1, <2>2, <2>3 DEF WaitOne, StoredStatus
  <2>4. CASE DrainOne(p)
    <3>1. stops = 0 => cmd # "launch"
      BY <2>1, <2>2, <2>4 DEF DrainOne, Group
    <3> QED BY <2>1, <2>2, <2>4, <3>1 DEF DrainOne
  <2> QED BY <1>5, <2>3, <2>4
<1>6. ASSUME NEW p \in Pids, Fork(p) PROVE StatusInv'
  <2>1. /\ kstate' = [kstate EXCEPT ![p] = "running"] /\ cur \in JobNums
        /\ pids' = [pids EXCEPT ![cur] = @ \cup {p}]
        /\ last_pid' = [last_pid EXCEPT ![cur] = p]
        /\ pc' \in {"fork", "restore", "give"} /\ UNCHANGED <<stops, cmd, cur>>
    BY <1>6 DEF Fork, ParentSetup, SetupJobControl, Control
  <2>2. Halted' \subseteq Halted
    BY <2>1 DEF Halted
  <2> QED BY <2>1, <2>2
<1>7. ASSUME NEW k \in 1..MaxProcs, NEW bg \in BOOLEAN, Launch(k, bg) PROVE StatusInv'
  BY <1>7 DEF Launch, Halted
<1>8. CASE MarkApply
  BY <1>8 DEF MarkApply, Halted
<1>9. CASE ContStopped \/ ContFails
  <2>1. cmd' # "launch" /\ stops' = stops /\ Halted' \subseteq Halted
    BY <1>9 DEF ContStopped, ContFails, Control, Resumed, Halted
  <2> QED BY <2>1
<1>10. CASE LaunchFails \/ CleanUp
  <2>1. pc' \in {"cleanup", "done"} /\ stops' = stops /\ Halted' \subseteq Halted
    BY <1>10 DEF LaunchFails, CleanUp, KillJobs, Resumed, Halted
  <2> QED BY <2>1
<1> QED
  BY <1>1, <1>2, <1>3, <1>4, <1>5, <1>6, <1>7, <1>8, <1>9, <1>10, WalkKinds

(* Without stops, $? after a launched foreground job is its last command's.  *)
THEOREM StatusIsTheLast == Spec => []StatusIsLastCommand
<1>1. Init => StatusInv
  BY DEF Init, StatusInv, LastPCs, Halted
<1>2. TypeInv /\ AccountInv /\ LaunchInv /\ StatusInv /\ [Next]_vars => StatusInv'
  BY StatusInvNext
<1>3. TypeInv /\ AccountInv /\ StatusInv => StatusIsLastCommand
  <2> SUFFICES ASSUME TypeInv, AccountInv, StatusInv, stops = 0, cmd = "launch",
                      pc = "finish", JobIsCompleted(cur)
               PROVE  last_exit_status = code[last_pid[cur]]
    BY DEF StatusIsLastCommand
  <2>1. pids[cur] # {}
    BY DEF TypeInv, Control, AccountInv, Ownership
  <2> QED BY <2>1 DEF StatusInv, LastPCs, JobIsCompleted
<1> QED BY <1>1, <1>2, <1>3, LaunchSpec, PTL DEF Spec

-----------------------------------------------------------------------------
(* Leaving                                                                   *)

(* The children of a pipeline whose launch failed.                           *)
Abandoned == IF cmd = "launch" THEN pids[cur] ELSE {}

LeaveInv ==
  /\ pc = "cleanup" => Unreaped \subseteq Listed \cup Abandoned
  /\ pc = "done" => /\ Unreaped \subseteq hupped \cup Abandoned
                    /\ jobs = {} /\ handling = FALSE

LEMMA LeaveInvNext ==
  ASSUME TypeInv, AccountInv, LeaveInv, [Next]_vars
  PROVE  LeaveInv'
<1>0. /\ kstate \in [Pids -> KStates] /\ pc \in PCs /\ Control /\ LiveIsListed
      /\ pids \in [JobNums -> SUBSET Pids] /\ jobs \subseteq JobNums /\ Listed \subseteq Pids
  BY ListedType DEF TypeInv, TypeOK, AccountInv, Account
<1> USE <1>0 DEF LeaveInv, At
<1>1. CASE Walk
  <2>1. Unreaped' = Unreaped
    BY <1>1 DEF Walk, Unreaped
  <2>2. CASE pc \in Leaving
    BY <1>1, <2>1, <2>2 DEF Walk, Listed, Abandoned, Leaving, Over
  <2>3. CASE pc \notin Leaving
    BY <1>1, <2>1, <2>3 DEF Walk, Listed, LiveIsListed, Leaving, Over
  <2> QED BY <2>2, <2>3
<1>2. ASSUME NEW p \in Pids, NEW c \in Codes, ProcExit(p, c) PROVE LeaveInv'
  BY <1>2 DEF ProcExit, Unreaped, Listed, Abandoned, Over
<1>3. ASSUME NEW p \in Pids, ProcStop(p) \/ ProcContinue(p) PROVE LeaveInv'
  BY <1>3 DEF ProcStop, ProcContinue, Resumed, Halted, Unreaped, Listed, Abandoned, Over
<1>4. ASSUME NEW p \in Pids, HandlerReap(p) PROVE LeaveInv'
  <2>1. /\ handling = TRUE /\ p \in Waitable /\ kstate' = Collected(p)
        /\ pc' \in {pc, "corrupt"} /\ UNCHANGED <<cmd, cur, pids, jobs>>
    BY <1>4 DEF HandlerReap, QueuePendingProcs
  <2>2. Unreaped' \subseteq Unreaped
    BY <2>1, CollectedEnds DEF Unreaped
  <2> QED BY <2>1, <2>2 DEF Listed, Abandoned
<1>5. ASSUME NEW p \in Pids, Fork(p) \/ WaitOne(p) \/ DrainOne(p) PROVE LeaveInv'
  BY <1>5 DEF Fork, SetupJobControl, WaitOne, DrainOne
<1>6. ASSUME NEW k \in 1..MaxProcs, NEW bg \in BOOLEAN, Launch(k, bg) PROVE LeaveInv'
  BY <1>6 DEF Launch
<1>7. CASE MarkApply \/ ContStopped \/ ContFails
  BY <1>7 DEF MarkApply, ContStopped, ContFails, After
<1>8. CASE LaunchFails
  <2>1. /\ pc \in {"block", "fork"} /\ cmd = "launch" /\ pc' = "cleanup"
        /\ jobs' = jobs \ {cur} /\ UNCHANGED <<kstate, pids, cmd, cur>>
    BY <1>8 DEF LaunchFails, FreeJob
  <2>2. Listed \subseteq Listed' \cup Abandoned'
    BY <2>1 DEF Listed, Abandoned
  <2> QED BY <2>1, <2>2 DEF LiveIsListed, Unreaped, Leaving, Over
<1>9. CASE CleanUp
  <2>1. /\ pc = "cleanup" /\ handling = FALSE /\ pc' = "done" /\ jobs' = {}
        /\ hupped' = hupped \cup (Listed \cap Unreaped) /\ handling' = handling
        /\ UNCHANGED <<pids, cmd, cur>>
    BY <1>9 DEF CleanUp, KillJobs, TypeInv, TypeOK
  <2>2. Unreaped' = Unreaped
    BY <1>9 DEF CleanUp, KillJobs, Resumed, Halted, Unreaped
  <2> QED BY <2>1, <2>2 DEF Abandoned
<1> QED
  BY <1>1, <1>2, <1>3, <1>4, <1>5, <1>6, <1>7, <1>8, <1>9, WalkKinds

LEMMA LeaveSpec == Spec => [](TypeInv /\ AccountInv /\ LeaveInv)
<1>1. Init => LeaveInv
  BY DEF Init, LeaveInv
<1>2. TypeInv /\ AccountInv /\ LeaveInv /\ [Next]_vars => LeaveInv'
  BY LeaveInvNext
<1> QED BY <1>1, <1>2, AccountSpec, PTL DEF Spec

(* Nobody is left behind without a hang-up, but an abandoned launch.         *)
THEOREM HangUpReaches == Spec => []HangUpReachesAll
<1>1. LeaveInv => HangUpReachesAll
  BY DEF LeaveInv, Abandoned, HangUpReachesAll
<1> QED BY <1>1, LeaveSpec, PTL

-----------------------------------------------------------------------------
(* Stopped marks                                                             *)

Awake == {"unborn", "running", "stopped_new"}

(* A stop is marked or queued after the kernel has reported it, not both, and *)
(* the process cannot run on before its mark is cleared or is still to come. *)
StopInv ==
  conts = 0 /\ pc # "done" =>
    /\ \A p \in stopped : kstate[p] \notin Awake
    /\ \A p \in Pids : Entry(p, "stopped") \in Queued =>
                        kstate[p] \notin Awake /\ p \notin stopped

LEMMA StopInvNext ==
  ASSUME TypeInv, AccountInv, LeaveInv, StopInv, [Next]_vars
  PROVE  StopInv'
<1>0. /\ kstate \in [Pids -> KStates] /\ pc \in PCs /\ Control /\ CompletedIsReaped
      /\ pids \in [JobNums -> SUBSET Pids] /\ jobs \subseteq JobNums
      /\ stopped \subseteq Pids /\ conts \in Nat /\ Listed \subseteq Pids
  BY ListedType, BoundsAssumption DEF TypeInv, TypeOK, AccountInv, Account
<1> USE <1>0 DEF StopInv, Awake, At
<1>1. CASE Walk
  BY <1>1, QueueSteps DEF Walk
<1>2. ASSUME NEW p \in Pids, NEW c \in Codes, ProcExit(p, c) PROVE StopInv'
  BY <1>2, QueueSteps DEF ProcExit
<1>3. ASSUME NEW p \in Pids, ProcStop(p) PROVE StopInv'
  BY <1>3, QueueSteps DEF ProcStop
<1>4. ASSUME NEW p \in Pids, ProcContinue(p) PROVE StopInv'
  BY <1>4 DEF ProcContinue
<1>5. ASSUME NEW p \in Pids, HandlerReap(p) PROVE StopInv'
  <2>1. /\ handling = TRUE /\ p \in Waitable /\ kstate' = Collected(p)
        /\ pc' \in {pc, "corrupt"} /\ UNCHANGED <<conts, stopped>>
    BY <1>5 DEF HandlerReap, QueuePendingProcs
  <2>2. pc # "done"
    BY <2>1 DEF LeaveInv
  <2>3. \A q \in Pids : kstate[q] \notin Awake => kstate'[q] \notin Awake
    BY <2>1 DEF Collected, Waitable
  <2>4. Queued' \subseteq Queued \cup {Entry(p, StatusOf(p))}
    BY <1>5, QueueSteps
  <2>5. StatusOf(p) = "stopped" => kstate[p] = "stopped_new" /\ kstate'[p] = "stopped"
    BY <2>1 DEF StatusOf, Waitable, Collected
  <2>6. ASSUME NEW q \in Pids, Entry(q, "stopped") \in Queued'
        PROVE  Entry(q, "stopped") \in Queued \/ (q = p /\ StatusOf(p) = "stopped")
    BY <2>4, <2>6 DEF Entry
  <2> QED BY <2>1, <2>2, <2>3, <2>5, <2>6
<1>6. ASSUME NEW p \in Pids, WaitOne(p) \/ DrainOne(p) PROVE StopInv'
  <2>1. /\ p \in Waitable /\ kstate' = Collected(p) /\ UNCHANGED <<conts, pending>>
        /\ stopped' \subseteq stopped \cup {p} /\ pc # "done"
        /\ StatusOf(p) = "exited" => stopped' = stopped
    BY <1>6 DEF WaitOne, DrainOne, Collect
  <2>2. /\ \A q \in Pids : kstate[q] \notin Awake => kstate'[q] \notin Awake
        /\ p \in stopped' => kstate'[p] \notin Awake
        /\ StatusOf(p) # "exited" => kstate[p] = "stopped_new"
    BY <2>1 DEF Collected, Waitable, StatusOf
  <2>3. Queued' = Queued
    BY <2>1, QueueSteps
  <2> QED BY <2>1, <2>2, <2>3
<1>7. ASSUME NEW p \in Pids, Fork(p) PROVE StopInv'
  <2>1. /\ kstate[p] = "unborn" /\ kstate' = [kstate EXCEPT ![p] = "running"]
        /\ pc # "done" /\ UNCHANGED <<conts, stopped, pending>>
    BY <1>7 DEF Fork, Unborn
  <2> QED BY <2>1, QueueSteps
<1>8. ASSUME NEW k \in 1..MaxProcs, NEW bg \in BOOLEAN, Launch(k, bg) PROVE StopInv'
  BY <1>8, QueueSteps DEF Launch
<1>9. CASE MarkApply
  <2>1. /\ stopped' = stopped \cup (Marked("stopped") \cap Listed) /\ pending' = <<>>
        /\ UNCHANGED <<conts, kstate>> /\ pc # "done"
    BY <1>9 DEF MarkApply
  <2>2. ASSUME NEW q \in Marked("stopped") PROVE q \in Pids /\ Entry(q, "stopped") \in Queued
    <3>1. PICK i \in 1..Len(pending) : q = pending[i].pid /\ pending[i].status = "stopped"
      BY <2>2 DEF Marked, TypeInv, TypeOK
    <3>2. pending[i] \in Entries /\ pending[i] \in Queued
      BY EntryType DEF Queued, TypeInv, TypeOK
    <3> QED BY <3>1, <3>2 DEF Entries, Entry
  <2> QED BY <2>1, <2>2, QueueSteps
<1>10. CASE ContStopped
  <2>1. /\ stopped' = stopped \ pids[cur] /\ kstate' = Resumed(pids[cur])
        /\ pids[cur] \subseteq stopped \cup completed /\ pc # "done"
        /\ UNCHANGED <<conts, pending>>
    BY <1>10 DEF ContStopped, ClearStoppedMark, JobIsStopped
  <2>2. \A q \in Pids : kstate'[q] # kstate[q] => q \in pids[cur] /\ q \notin completed
    BY <2>1 DEF Resumed, Halted, CompletedIsReaped
  <2> QED BY <2>1, <2>2, QueueSteps
<1>11. CASE ContFails \/ LaunchFails
  BY <1>11, QueueSteps DEF ContFails, LaunchFails, ClearStoppedMark
<1>12. CASE CleanUp
  BY <1>12 DEF CleanUp
<1> QED
  BY <1>1, <1>2, <1>3, <1>4, <1>5, <1>6, <1>7, <1>8, <1>9, <1>10, <1>11, <1>12, WalkKinds

(* Unless others continue children, no job is marked Stopped while it runs.  *)
THEOREM StoppedStaysStopped == Spec => []StoppedIsStopped
<1>1. Init => StopInv
  BY DEF Init, StopInv, Queued
<1>2. TypeInv /\ AccountInv /\ LeaveInv /\ StopInv /\ [Next]_vars => StopInv'
  BY StopInvNext
<1>3. LeaveInv /\ StopInv => StoppedIsStopped
  BY DEF LeaveInv, StopInv, StoppedIsStopped, Awake, Listed
<1> QED BY <1>1, <1>2, <1>3, LeaveSpec, PTL DEF Spec

-----------------------------------------------------------------------------
(* The length of the queue                                                   *)

NewStops == {p \in Pids : kstate[p] = "stopped_new"}
Ends     == {p \in Pids : Entry(p, "exited") \in Queued}

(* Each entry is an end nobody has marked yet, or one of the stops, and a    *)
(* stop the kernel has still to report is none of those in the queue.        *)
LengthInv ==
  /\ Cardinality(NewStops) <= stops
  /\ Len(pending) + Cardinality(NewStops) <= Cardinality(Ends) + stops

LEMMA Counted ==
  \A S \in SUBSET Pids : /\ IsFiniteSet(S) /\ Cardinality(S) \in Nat
                        /\ \A T \in SUBSET S : Cardinality(T) <= Cardinality(S)
<1> TAKE S \in SUBSET Pids
<1>1. IsFiniteSet(S)
  BY FS_Subset, PidsAssumption
<1>2. Cardinality(S) \in Nat
  BY <1>1, FS_CardinalityType
<1>3. \A T \in SUBSET S : Cardinality(T) <= Cardinality(S)
  BY <1>1, FS_Subset
<1> QED BY <1>1, <1>2, <1>3

(* A step that reports no new stop and leaves the queue alone.               *)
LEMMA NoNewStop ==
  ASSUME TypeInv, LengthInv, NewStops' \subseteq NewStops, pending' = pending, stops' = stops
  PROVE  LengthInv'
<1>1. NewStops \in SUBSET Pids /\ Ends \in SUBSET Pids /\ Ends' = Ends
  BY QueueSteps DEF NewStops, Ends
<1>2. /\ Cardinality(NewStops) \in Nat /\ Cardinality(Ends) \in Nat
      /\ Cardinality(NewStops') \in Nat /\ Cardinality(NewStops') <= Cardinality(NewStops)
  BY <1>1, Counted
<1>3. stops \in Nat /\ Len(pending) \in Nat
  BY BoundsAssumption DEF TypeInv, TypeOK
<1>4. Len(pending') = Len(pending) /\ Cardinality(Ends') = Cardinality(Ends)
  BY <1>1
<1> HIDE DEF NewStops, Ends
<1> QED BY <1>2, <1>3, <1>4 DEF LengthInv

LEMMA LengthInvNext ==
  ASSUME TypeInv, AccountInv, LengthInv, [Next]_vars
  PROVE  LengthInv'
<1>0. /\ kstate \in [Pids -> KStates] /\ QueuedIsReaped
      /\ stops \in Nat /\ pending \in Seq(Entries) /\ Len(pending) \in Nat
      /\ NewStops \in SUBSET Pids /\ Ends \in SUBSET Pids
      /\ Cardinality(NewStops) \in Nat /\ Cardinality(Ends) \in Nat
  <2>1. NewStops \in SUBSET Pids /\ Ends \in SUBSET Pids
    BY DEF NewStops, Ends
  <2>2. Cardinality(NewStops) \in Nat /\ Cardinality(Ends) \in Nat
    BY <2>1, Counted
  <2> QED BY <2>1, <2>2, BoundsAssumption DEF TypeInv, TypeOK, AccountInv, Account
<1>1. CASE Walk
  <2>1. NewStops' \subseteq NewStops /\ pending' = pending /\ stops' = stops
    BY <1>1 DEF Walk, NewStops
  <2> QED BY <2>1, NoNewStop
<1>2. ASSUME NEW p \in Pids, NEW c \in Codes, ProcExit(p, c) PROVE LengthInv'
  <2>1. NewStops' \subseteq NewStops /\ pending' = pending /\ stops' = stops
    BY <1>0, <1>2 DEF ProcExit, NewStops
  <2> QED BY <2>1, NoNewStop
<1>3. ASSUME NEW p \in Pids, ProcStop(p) PROVE LengthInv'
  <2>1. NewStops' = NewStops \cup {p} /\ pending' = pending /\ stops' = stops + 1
    BY <1>0, <1>3 DEF ProcStop, NewStops
  <2>2. Cardinality(NewStops') <= Cardinality(NewStops) + 1 /\ Cardinality(NewStops') \in Nat
    <3>1. IsFiniteSet(NewStops)
      BY <1>0, Counted
    <3> DEFINE k == Cardinality(NewStops)
    <3> HIDE DEF NewStops
    <3>2. Cardinality(NewStops') = IF p \in NewStops THEN k ELSE k + 1
      BY <2>1, <3>1, FS_AddElement
    <3>3. k \in Nat
      BY <1>0
    <3> QED BY <3>2, <3>3
  <2>3. Ends' = Ends /\ Len(pending') = Len(pending)
    BY <2>1, QueueSteps DEF Ends
  <2>4. Cardinality(Ends') = Cardinality(Ends)
    BY <2>3
  <2> QED BY <1>0, <2>1, <2>2, <2>3, <2>4 DEF LengthInv
<1>4. ASSUME NEW p \in Pids, ProcContinue(p) PROVE LengthInv'
  <2>1. NewStops' \subseteq NewStops /\ pending' = pending /\ stops' = stops
    BY <1>0, <1>4 DEF ProcContinue, Resumed, NewStops
  <2> QED BY <2>1, NoNewStop
<1>5. ASSUME NEW p \in Pids, HandlerReap(p) PROVE LengthInv'
  <2> DEFINE entry == [pid |-> p, status |-> StatusOf(p)]
  <2>1. p \in Waitable /\ kstate' = Collected(p) /\ stops' = stops /\ QueuePendingProcs(entry)
    BY <1>5 DEF HandlerReap
  <2>2. NewStops' = NewStops \ {p}
    BY <1>0, <2>1 DEF Collected, Waitable, NewStops
  <2>3. CASE Len(pending) >= PendingMax
    <3>1. pending' = pending
      BY <1>0, <2>1, <2>3, BoundsAssumption DEF QueuePendingProcs
    <3> QED BY <2>1, <2>2, <3>1, NoNewStop
  <2>4. CASE Len(pending) < PendingMax
    <3>1. pending' = Append(pending, entry)
      BY <2>1, <2>4 DEF QueuePendingProcs
    <3>2. /\ Len(pending') = Len(pending) + 1 /\ Queued' = Queued \cup {entry}
      <4>1. /\ DOMAIN pending = 1..Len(pending) /\ DOMAIN pending' = 1..(Len(pending) + 1)
            /\ pending'[Len(pending) + 1] = entry
            /\ \A i \in 1..Len(pending) : pending'[i] = pending[i]
            /\ Len(pending') = Len(pending) + 1
        BY <1>0, <3>1
      <4> HIDE DEF entry
      <4> QED BY <1>0, <4>1 DEF Queued
    <3>3. IsFiniteSet(NewStops) /\ IsFiniteSet(Ends)
      BY <1>0, Counted
    <3>4. CASE kstate[p] = "stopped_new"
      <4>1. Ends' = Ends /\ p \in NewStops
        BY <2>1, <3>2, <3>4 DEF Ends, Entry, StatusOf, NewStops
      <4>2. /\ Cardinality(NewStops') = Cardinality(NewStops) - 1
            /\ Cardinality(Ends') = Cardinality(Ends)
        <5> HIDE DEF NewStops, Ends
        <5> QED BY <2>2, <3>3, <4>1, FS_RemoveElement
      <4> QED BY <1>0, <2>1, <3>2, <4>2 DEF LengthInv
    <3>5. CASE kstate[p] = "zombie"
      <4>1. NewStops' = NewStops /\ Ends' = Ends \cup {p}
        BY <2>2, <3>2, <3>5 DEF Ends, Entry, StatusOf, NewStops
      <4>2. p \notin Ends
        BY <1>0, <3>5 DEF Ends, Queued, Entry, QueuedIsReaped
      <4>3. /\ Cardinality(NewStops') = Cardinality(NewStops)
            /\ Cardinality(Ends') = Cardinality(Ends) + 1
        <5> HIDE DEF NewStops, Ends
        <5> QED BY <3>3, <4>1, <4>2, FS_AddElement
      <4> QED BY <1>0, <2>1, <3>2, <4>3 DEF LengthInv
    <3> QED BY <2>1, <3>4, <3>5 DEF Waitable
  <2> QED BY <1>0, <2>3, <2>4, BoundsAssumption
<1>6. ASSUME NEW p \in Pids, WaitOne(p) \/ DrainOne(p) PROVE LengthInv'
  <2>1. kstate' = Collected(p) /\ pending' = pending /\ stops' = stops
    BY <1>6 DEF WaitOne, DrainOne, Collect
  <2>2. NewStops' \subseteq NewStops
    BY <1>0, <2>1 DEF Collected, NewStops
  <2> QED BY <2>1, <2>2, NoNewStop
<1>7. ASSUME NEW p \in Pids, Fork(p) PROVE LengthInv'
  <2>1. NewStops' \subseteq NewStops /\ pending' = pending /\ stops' = stops
    BY <1>0, <1>7 DEF Fork, NewStops
  <2> QED BY <2>1, NoNewStop
<1>8. ASSUME NEW k \in 1..MaxProcs, NEW bg \in BOOLEAN, Launch(k, bg) PROVE LengthInv'
  <2>1. NewStops' \subseteq NewStops /\ pending' = pending /\ stops' = stops
    BY <1>8 DEF Launch, NewStops
  <2> QED BY <2>1, NoNewStop
<1>9. CASE MarkApply
  <2>1. pending' = <<>> /\ stops' = stops /\ NewStops' = NewStops
    BY <1>9 DEF MarkApply, NewStops
  <2>2. Ends' = {} /\ Len(pending') = 0
    BY <2>1, QueueSteps DEF Ends
  <2>3. Cardinality(Ends') = 0 /\ Cardinality(NewStops') = Cardinality(NewStops)
    BY <2>1, <2>2, FS_EmptySet
  <2> QED BY <1>0, <2>1, <2>2, <2>3 DEF LengthInv
<1>10. CASE ContStopped
  <2>1. NewStops' \subseteq NewStops /\ pending' = pending /\ stops' = stops
    BY <1>0, <1>10 DEF ContStopped, ClearStoppedMark, Resumed, NewStops
  <2> QED BY <2>1, NoNewStop
<1>11. CASE ContFails \/ LaunchFails
  <2>1. NewStops' \subseteq NewStops /\ pending' = pending /\ stops' = stops
    BY <1>11 DEF ContFails, LaunchFails, ClearStoppedMark, NewStops
  <2> QED BY <2>1, NoNewStop
<1>12. CASE CleanUp
  <2>1. NewStops' \subseteq NewStops /\ pending' = pending /\ stops' = stops
    BY <1>0, <1>12 DEF CleanUp, KillJobs, Resumed, NewStops
  <2> QED BY <2>1, NoNewStop
<1> QED
  BY <1>1, <1>2, <1>3, <1>4, <1>5, <1>6, <1>7, <1>8, <1>9, <1>10, <1>11, <1>12, WalkKinds

(* The queue holds no more than the ends still owed to listed processes and  *)
(* the stops there have been.                                                *)
THEOREM QueueStaysShort == Spec => []QueueIsShort
<1>1. Init => LengthInv
  <2> SUFFICES ASSUME Init PROVE LengthInv
    OBVIOUS
  <2>1. NewStops = {} /\ Ends = {} /\ stops = 0 /\ Len(pending) = 0
    BY DEF Init, NewStops, Ends, Queued
  <2>2. Cardinality(NewStops) = 0 /\ Cardinality(Ends) = 0
    BY <2>1, FS_EmptySet
  <2> QED BY <2>1, <2>2 DEF LengthInv
<1>2. TypeInv /\ AccountInv /\ LengthInv /\ [Next]_vars => LengthInv'
  BY LengthInvNext
<1>3. TypeInv /\ AccountInv /\ LengthInv => QueueIsShort
  <2> SUFFICES ASSUME TypeInv, AccountInv, LengthInv, pc \notin Leaving
               PROVE  Len(pending) <= Cardinality(Listed \ completed) + stops
    BY DEF QueueIsShort
  <2>1. Ends \subseteq Listed \ completed
    BY DEF Ends, Queued, Entry, AccountInv, Account, QueueIsFresh
  <2>2. Listed \ completed \in SUBSET Pids /\ NewStops \in SUBSET Pids /\ Ends \in SUBSET Pids
    BY ListedType DEF NewStops, Ends
  <2>3. /\ Cardinality(Listed \ completed) \in Nat /\ Cardinality(NewStops) \in Nat
        /\ Cardinality(Ends) \in Nat /\ Cardinality(Ends) <= Cardinality(Listed \ completed)
    BY <2>1, <2>2, Counted
  <2>4. stops \in Nat /\ Len(pending) \in Nat
    BY BoundsAssumption DEF TypeInv, TypeOK
  <2> QED BY <2>3, <2>4 DEF LengthInv
<1> QED BY <1>1, <1>2, <1>3, AccountSpec, PTL DEF Spec

-----------------------------------------------------------------------------
(* What has to be done next: the states behind LaunchedWaitEnds              *)

(* A stop is reported to the wait that is under way, which then ends, so     *)
(* that no wait for a launch is begun or resumed with a stop behind it.      *)
NoStopBehind ==
  cmd = "launch" /\ pc \in {"fork", "give", "wait"} => \A p \in pids[cur] : kstate[p] # "stopped"

(* waitpid has something to return to the wait, or a process still runs.     *)
WaitIsFed ==
  cmd = "launch" /\ pc = "wait" =>
    /\ ~handling
    /\ Group(cur) = {} \/ \E p \in pids[cur] : kstate[p] = "running" \/ p \in Waitable

LEMMA NoStopBehindNext ==
  ASSUME TypeInv, MaskInv, LaunchInv, NoStopBehind, [Next]_vars
  PROVE  NoStopBehind'
<1>0. /\ kstate \in [Pids -> KStates] /\ pc \in PCs /\ Control /\ cur \in JobNums \cup {0}
      /\ pids \in [JobNums -> SUBSET Pids] /\ jobs \subseteq JobNums
  BY ListedType DEF TypeInv, TypeOK
<1> USE <1>0 DEF NoStopBehind, At
<1>1. CASE Walk
  BY <1>1 DEF Walk, LaunchGoesOn, LaunchPCs, LaunchInv
<1>2. ASSUME NEW p \in Pids, NEW c \in Codes, ProcExit(p, c) PROVE NoStopBehind'
  BY <1>2 DEF ProcExit, Control
<1>3. ASSUME NEW p \in Pids, ProcStop(p) \/ ProcContinue(p) PROVE NoStopBehind'
  BY <1>3 DEF ProcStop, ProcContinue, Resumed, Halted, Control
<1>4. ASSUME NEW p \in Pids, HandlerReap(p) PROVE NoStopBehind'
  BY <1>4 DEF HandlerReap, QueuePendingProcs, MaskInv, MaskedPCs
<1>5. ASSUME NEW p \in Pids, WaitOne(p) \/ DrainOne(p) PROVE NoStopBehind'
  <2>1. CASE WaitOne(p)
    <3>1. CASE StatusOf(p) = "stopped"
      BY <2>1, <3>1 DEF WaitOne
    <3>2. CASE StatusOf(p) # "stopped"
      <4>1. /\ kstate[p] = "zombie" /\ kstate' = [kstate EXCEPT ![p] = "reaped"]
            /\ UNCHANGED <<cmd, cur, pids>> /\ pc = "wait"
        BY <2>1, <3>2 DEF WaitOne, Collect, StatusOf, Collected, Waitable
      <4> QED BY <4>1 DEF Control
    <3> QED BY <3>1, <3>2
  <2>2. CASE DrainOne(p)
    BY <2>2 DEF DrainOne
  <2> QED BY <1>5, <2>1, <2>2
<1>6. ASSUME NEW p \in Pids, Fork(p) PROVE NoStopBehind'
  <2>1. /\ pc = "fork" /\ cmd = "launch" /\ cur \in JobNums
        /\ kstate' = [kstate EXCEPT ![p] = "running"]
        /\ pids' = [pids EXCEPT ![cur] = @ \cup {p}] /\ UNCHANGED <<cmd, cur>>
    BY <1>6 DEF Fork, ParentSetup, Control
  <2> QED BY <2>1
<1>7. ASSUME NEW k \in 1..MaxProcs, NEW bg \in BOOLEAN, Launch(k, bg) PROVE NoStopBehind'
  BY <1>7 DEF Launch
<1>8. CASE MarkApply
  BY <1>8 DEF MarkApply
<1>9. CASE ContStopped \/ ContFails
  BY <1>9 DEF ContStopped, ContFails, Control
<1>10. CASE LaunchFails \/ CleanUp
  BY <1>10 DEF LaunchFails, CleanUp
<1> QED
  BY <1>1, <1>2, <1>3, <1>4, <1>5, <1>6, <1>7, <1>8, <1>9, <1>10, WalkKinds

(* wait_for_children never blocks for good on a launched job: whenever none  *)
(* of its processes runs, waitpid(-pgid, .., WUNTRACED) returns a status or  *)
(* ECHILD (job_control.c:66). fg has no such promise: see FgResumes.         *)
THEOREM WaitStaysFed == Spec => []WaitIsFed
<1>1. Init => NoStopBehind
  BY DEF Init, NoStopBehind
<1>2. TypeInv /\ MaskInv /\ LaunchInv /\ NoStopBehind /\ [Next]_vars => NoStopBehind'
  BY NoStopBehindNext
<1>3. TypeInv /\ MaskInv /\ NoStopBehind => WaitIsFed
  <2> SUFFICES ASSUME TypeInv, MaskInv, NoStopBehind, cmd = "launch", pc = "wait"
               PROVE  ~handling /\ (Group(cur) = {} \/ \E p \in pids[cur] :
                                      kstate[p] = "running" \/ p \in Waitable)
    BY DEF WaitIsFed
  <2>1. ~handling
    BY DEF MaskInv, MaskedPCs
  <2>2. ASSUME NEW p \in Group(cur) PROVE kstate[p] = "running" \/ p \in Waitable
    BY <2>2 DEF NoStopBehind, Group, Unreaped, Waitable, TypeInv, TypeOK, KStates
  <2> QED BY <2>1, <2>2 DEF Group
<1> QED BY <1>1, <1>2, <1>3, LaunchSpec, PTL DEF Spec

(* As long as a wait goes on no process joins the group it waits for, and    *)
(* each turn of its loop takes one out.                                      *)
WaitShrinks ==
  pc = "wait" /\ pc' = "wait" =>
    Group(cur)' \subseteq Group(cur) /\ (ShellStep => Group(cur)' # Group(cur))

(* Whatever the wait is given brings its end nearer: each status waitpid     *)
(* returns takes one process off the group, and nobody joins it meanwhile    *)
(* (job_control.c:66-85).                                                    *)
THEOREM WaitGetsShorter == Spec => [][WaitShrinks]_vars
<1>1. TypeInv /\ MaskInv /\ [Next]_vars => [WaitShrinks]_vars
  <2> SUFFICES ASSUME TypeInv, MaskInv, Next, pc = "wait", pc' = "wait"
               PROVE  Group(cur)' \subseteq Group(cur) /\ (ShellStep => Group(cur)' # Group(cur))
    BY DEF WaitShrinks
  <2>0. /\ kstate \in [Pids -> KStates] /\ cur \in JobNums
        /\ pids \in [JobNums -> SUBSET Pids] /\ handling \in BOOLEAN
    BY ListedType DEF TypeInv, TypeOK, Control
  <2> USE <2>0 DEF Group, Unreaped
  <2>1. CASE ChildStep /\ ~ShellStep
    <3>1. /\ \A q \in Pids :
               kstate'[q] \in {"unborn", "reaped"} <=> kstate[q] \in {"unborn", "reaped"}
          /\ UNCHANGED <<pids, cur>>
      BY <2>1 DEF ChildStep, ProcExit, ProcStop, ProcContinue, Resumed, Halted
    <3> QED BY <2>1, <3>1
  <2>2. CASE HandlerStep \/ UserLine \/ Terminated
    BY <2>2 DEF HandlerStep, DeliverSigchld, HandlerReap, HandlerReturn, MaskInv, MaskedPCs,
       UserLine, EmptyLine, BadLine, OtherBuiltin, JobBuiltin, Launch, ExitShell, At,
       Terminated, Over
  <2>3. CASE ShellStep
    <3>1. PICK p \in Pids : WaitOne(p)
      BY <2>3 DEF ShellStep, Top, MarkRead, MarkApply, Notify, ListJobs, FindRefuses, FindTakes,
         BlockSignals, ContStopped, ContFails, ContNothing, Fork, LaunchFails, GiveTerminal,
         WaitDone, DrainOne, DrainDone, ReclaimTerminal, Finish, RestoreBackground, CleanUp, At
    <3>2. /\ kstate[p] = "zombie" /\ kstate' = [kstate EXCEPT ![p] = "reaped"]
          /\ p \in pids[cur] /\ UNCHANGED <<cur, pids>>
      BY <3>1 DEF WaitOne, Collect, StatusOf, Collected, Waitable
    <3> QED BY <3>2
  <2> QED BY <2>1, <2>2, <2>3 DEF Next
<1> QED BY <1>1, LaunchSpec, PTL DEF Spec

-----------------------------------------------------------------------------
(* ... and those behind JobIsRetired                                         *)

(* What can be waited for has been signalled, and the handler goes on until  *)
(* nothing is left, so that a SIGCHLD which stands for several is enough.    *)
NewsIsSignalled == pc \notin Over /\ Waitable # {} => sigchld \/ handling

(* The prompt's own marking is ahead: child_changed is set, or it has begun. *)
MarkingIsDue == child_changed \/ (pc \in {"mark", "apply"} /\ cmd = "none")

(* fg, bg and jobs may apply the queue before that, but leave child_changed  *)
(* as the handler set it: what they complete is still retired.               *)
RetirementIsDue(n) ==
  \/ child_changed
  \/ pc \in {"mark", "apply", "notify"} /\ cmd = "none"
  \/ n = cur /\ pc \in {"wait", "drain", "reclaim", "finish"}

DueInv ==
  pc \notin Leaving =>
    /\ Queued # {} => MarkingIsDue
    /\ \A n \in jobs : pids[n] # {} /\ JobIsCompleted(n) => RetirementIsDue(n)

(* The shell never rests while a finished job is listed: if all processes of *)
(* a job have ended and no end was discarded, a SIGCHLD is pending or being  *)
(* handled, or child_changed makes the next prompt retire the job, or that,  *)
(* or the job's own wait, is under way (signal_utils.c:25, shell.c:65).      *)
FinishedIsDue ==
  pc \notin Leaving =>
    \A n \in jobs :
      /\ pids[n] # {}
      /\ \A p \in pids[n] : /\ kstate[p] \in {"zombie", "reaped"}
                            /\ Entry(p, "exited") \notin dropped
      => sigchld \/ handling \/ RetirementIsDue(n)

LEMMA NewsNext ==
  ASSUME TypeInv, NewsIsSignalled, [Next]_vars
  PROVE  NewsIsSignalled'
<1>0. kstate \in [Pids -> KStates] /\ pc \in PCs /\ sigchld \in BOOLEAN /\ handling \in BOOLEAN
  BY DEF TypeInv, TypeOK
<1> USE <1>0 DEF NewsIsSignalled, Waitable, Over, At
<1>1. ASSUME UNCHANGED <<kstate, sigchld, handling>>, pc \in Over => pc' = pc
      PROVE  NewsIsSignalled'
  BY <1>1
<1>2. CASE ChildStep
  BY <1>2 DEF ChildStep, ProcExit, ProcStop, ProcContinue
<1>3. CASE DeliverSigchld \/ HandlerReturn
  BY <1>3 DEF DeliverSigchld, HandlerReturn
<1>4. ASSUME NEW p \in Pids, HandlerReap(p) PROVE NewsIsSignalled'
  <2>1. handling = TRUE /\ (handling' = handling \/ pc' = "corrupt")
    BY <1>4 DEF HandlerReap, QueuePendingProcs
  <2> QED BY <2>1
<1>5. CASE UserLine
  BY <1>1, <1>5 DEF UserLine, EmptyLine, BadLine, OtherBuiltin, JobBuiltin, Launch, ExitShell
<1>6. CASE Top \/ MarkRead \/ MarkApply \/ Notify \/ ListJobs \/ BlockSignals
  BY <1>1, <1>6 DEF Top, MarkRead, MarkApply, Notify, ListJobs, BlockSignals
<1>7. ASSUME NEW a, FindRefuses(a) \/ FindTakes(a) PROVE NewsIsSignalled'
  BY <1>1, <1>7 DEF FindRefuses, FindTakes, Refuse
<1>8. CASE ContStopped
  BY <1>8 DEF ContStopped, Resumed, Halted
<1>9. CASE ContFails \/ ContNothing \/ LaunchFails \/ GiveTerminal \/ WaitDone \/ DrainDone
           \/ ReclaimTerminal \/ Finish \/ RestoreBackground
  BY <1>1, <1>9 DEF ContFails, ContNothing, LaunchFails, GiveTerminal, WaitDone, DrainDone,
     ReclaimTerminal, Finish, RestoreBackground
<1>10. ASSUME NEW p \in Pids, Fork(p) PROVE NewsIsSignalled'
  BY <1>10 DEF Fork
<1>11. ASSUME NEW p \in Pids, WaitOne(p) \/ DrainOne(p) PROVE NewsIsSignalled'
  BY <1>11 DEF WaitOne, DrainOne, Collect, Collected
<1>12. CASE CleanUp
  BY <1>12 DEF CleanUp
<1>13. CASE Terminated \/ UNCHANGED vars
  BY <1>1, <1>13 DEF Terminated, vars
<1> QED
  BY <1>2, <1>3, <1>4, <1>5, <1>6, <1>7, <1>8, <1>9, <1>10, <1>11, <1>12, <1>13
  DEF Next, ShellStep, HandlerStep

(* The steps that leave the queue, the list and the flags alone.             *)
Resting ==
  /\ UNCHANGED <<pending, child_changed, pids, jobs, completed>>
  /\ \/ pc' = pc /\ cur' = cur /\ cmd' = cmd
     \/ pc \in {"prompt", "find", "block", "cont", "fork", "give", "restore"}
     \/ pc = "mark" /\ pc' = "apply" /\ cmd' = cmd
     \/ pc \in {"wait", "drain", "reclaim"} /\ pc' \in {"drain", "reclaim", "finish"} /\ cur' = cur

LEMMA RestingKeepsDue == DueInv /\ Resting => DueInv'
<1> SUFFICES ASSUME DueInv, Resting, pc' \notin Leaving PROVE DueInv'
  BY DEF DueInv
<1>1. pc \notin Leaving
  BY DEF Resting, Leaving, Over
<1>2. Queued' = Queued /\ \A n : JobIsCompleted(n)' <=> JobIsCompleted(n)
  BY DEF Resting, Queued, JobIsCompleted
<1>3. Queued # {} => MarkingIsDue'
  BY <1>1 DEF DueInv, MarkingIsDue, Resting
<1>4. ASSUME NEW n \in jobs, pids[n] # {}, JobIsCompleted(n) PROVE RetirementIsDue(n)'
  <2>1. RetirementIsDue(n)
    BY <1>1, <1>4 DEF DueInv
  <2> QED BY <2>1 DEF RetirementIsDue, Resting
<1> QED BY <1>2, <1>3, <1>4 DEF DueInv, Resting

LEMMA DueInvNext ==
  ASSUME TypeInv, AccountInv, DueInv, [Next]_vars
  PROVE  DueInv'
<1>0. /\ kstate \in [Pids -> KStates] /\ pc \in PCs /\ Control /\ cur \in JobNums \cup {0}
      /\ pids \in [JobNums -> SUBSET Pids] /\ jobs \subseteq JobNums
      /\ handling \in BOOLEAN /\ child_changed \in BOOLEAN
      /\ cmd \in {"none", "jobs", "fg", "bg", "launch"}
      /\ Ownership /\ CompletedIsReaped
  BY ListedType DEF TypeInv, TypeOK, AccountInv, Account
<1> USE <1>0 DEF At, Control
<1>1. child_changed' = TRUE \/ pc' \in Leaving => DueInv'
  BY DEF DueInv, MarkingIsDue, RetirementIsDue
<1>2. Resting => DueInv'
  BY RestingKeepsDue
<1>4. CASE ChildStep
  BY <1>2, <1>4 DEF Resting, ChildStep, ProcExit, ProcStop, ProcContinue
<1>5. CASE DeliverSigchld \/ HandlerReturn
  BY <1>2, <1>5 DEF Resting, DeliverSigchld, HandlerReturn
<1>6. ASSUME NEW p \in Pids, HandlerReap(p) PROVE DueInv'
  BY <1>1, <1>6 DEF HandlerReap
<1>7. CASE EmptyLine \/ BadLine
  BY <1>2, <1>7 DEF Resting, EmptyLine, BadLine
<1>8. ASSUME NEW s, OtherBuiltin(s) \/ JobBuiltin(s) \/ ExitShell(s) PROVE DueInv'
  BY <1>2, <1>8 DEF Resting, OtherBuiltin, JobBuiltin, ExitShell
<1>9. ASSUME NEW k \in 1..MaxProcs, NEW bg \in BOOLEAN, Launch(k, bg) PROVE DueInv'
  <2>1. /\ pc = "prompt" /\ jobs' = jobs \cup {job_num} /\ pids[job_num] = {}
        /\ UNCHANGED <<pending, child_changed, pids, completed>>
    BY <1>9, BoundsAssumption DEF Launch, CreateJob, Ownership, JobNums, TypeInv, TypeOK
  <2> QED BY <2>1, QueueSteps
    DEF DueInv, MarkingIsDue, RetirementIsDue, JobIsCompleted, Leaving, Over
<1>10. CASE Top
  <2>1. /\ pc = "top" /\ pc' = (IF child_changed THEN "mark" ELSE "prompt") /\ cmd' = "none"
        /\ UNCHANGED <<pending, pids, jobs, completed>>
    BY <1>10 DEF Top
  <2> QED BY <2>1, QueueSteps
    DEF DueInv, MarkingIsDue, RetirementIsDue, JobIsCompleted, Leaving, Over
<1>11. CASE MarkRead
  BY <1>2, <1>11 DEF Resting, MarkRead
<1>12. CASE MarkApply
  <2>1. /\ pc = "apply" /\ Queued' = {} /\ UNCHANGED <<child_changed, pids, jobs, cmd>>
        /\ cmd = "none" => pc' = "notify"
    BY <1>12, QueueSteps DEF MarkApply
  <2>2. CASE child_changed = TRUE
    BY <1>1, <2>1, <2>2
  <2>3. CASE cmd = "none"
    BY <2>1, <2>3 DEF DueInv, RetirementIsDue
  <2>4. CASE child_changed = FALSE /\ cmd # "none"
    <3>1. Queued = {}
      BY <2>1, <2>4 DEF DueInv, MarkingIsDue, Leaving, Over
    <3>2. Marked("exited") = {}
      BY <3>1 DEF Marked, Queued, TypeInv, TypeOK
    <3>3. completed' = completed
      BY <1>12, <3>2 DEF MarkApply
    <3> QED BY <2>1, <2>4, <3>3
      DEF DueInv, MarkingIsDue, RetirementIsDue, JobIsCompleted, Leaving, Over
  <2> QED BY <2>2, <2>3, <2>4
<1>13. CASE Notify \/ ListJobs
  <2>1. /\ \A n \in jobs' : ~JobIsCompleted(n)
        /\ UNCHANGED <<pending, child_changed, pids, completed>>
        /\ pc \in {"notify", "list"}
    BY <1>13 DEF Notify, ListJobs, Retire
  <2> QED BY <2>1, QueueSteps
    DEF DueInv, MarkingIsDue, RetirementIsDue, JobIsCompleted, Leaving, Over
<1>14. ASSUME NEW a, FindRefuses(a) \/ FindTakes(a) PROVE DueInv'
  BY <1>2, <1>14 DEF Resting, FindRefuses, FindTakes, Refuse
<1>15. CASE BlockSignals \/ ContNothing \/ GiveTerminal \/ ContStopped \/ ContFails
            \/ RestoreBackground
  BY <1>2, <1>15 DEF Resting, BlockSignals, ContNothing, GiveTerminal, ContStopped, ContFails,
     RestoreBackground
<1>16. CASE WaitDone \/ DrainDone \/ ReclaimTerminal
  BY <1>2, <1>16 DEF Resting, WaitDone, DrainDone, ReclaimTerminal
<1>17. ASSUME NEW p \in Pids, Fork(p) PROVE DueInv'
  <2>1. /\ pc = "fork" /\ cur \in JobNums /\ p \notin completed
        /\ pids' = [pids EXCEPT ![cur] = @ \cup {p}]
        /\ UNCHANGED <<pending, child_changed, jobs, completed>>
    BY <1>17 DEF Fork, ParentSetup, Unborn, CompletedIsReaped
  <2> QED BY <2>1, QueueSteps
    DEF DueInv, MarkingIsDue, RetirementIsDue, JobIsCompleted, Leaving, Over
<1>18. ASSUME NEW p \in Pids, WaitOne(p) \/ DrainOne(p) PROVE DueInv'
  <2>1. /\ pc \in {"wait", "drain"} /\ pc' \in {"wait", "drain"} /\ cur \in jobs
        /\ p \in pids[cur] /\ completed' \subseteq completed \cup {p}
        /\ UNCHANGED <<pending, child_changed, pids, jobs, cur>>
    BY <1>18 DEF WaitOne, DrainOne, Collect
  <2>2. \A n \in jobs : n # cur => p \notin pids[n]
    BY <2>1 DEF Ownership
  <2> QED BY <2>1, <2>2, QueueSteps
    DEF DueInv, MarkingIsDue, RetirementIsDue, JobIsCompleted, Leaving, Over
<1>19. CASE Finish
  <2>1. /\ pc = "finish" /\ jobs' = IF JobIsCompleted(cur) THEN jobs \ {cur} ELSE jobs
        /\ UNCHANGED <<pending, child_changed, pids, completed>>
    BY <1>19 DEF Finish, FreeJob
  <2> QED BY <2>1, QueueSteps
    DEF DueInv, MarkingIsDue, RetirementIsDue, JobIsCompleted, Leaving, Over
<1>20. CASE LaunchFails \/ CleanUp
  BY <1>1, <1>20 DEF LaunchFails, CleanUp, Leaving, Over
<1>21. CASE Terminated \/ UNCHANGED vars
  BY <1>2, <1>21 DEF Resting, Terminated, vars
<1> QED
  BY <1>4, <1>5, <1>6, <1>7, <1>8, <1>9, <1>10, <1>11, <1>12, <1>13, <1>14, <1>15, <1>16,
     <1>17, <1>18, <1>19, <1>20, <1>21
  DEF Next, ShellStep, UserLine, HandlerStep

(* No finished job is forgotten: as long as one is listed, the shell or the  *)
(* handler has a step ahead that leads to its retirement.                    *)
THEOREM FinishedStaysDue == Spec => []FinishedIsDue
<1>1. Init => NewsIsSignalled /\ DueInv
  BY DEF Init, NewsIsSignalled, Waitable, DueInv, Queued
<1>2. TypeInv /\ AccountInv /\ NewsIsSignalled /\ DueInv /\ [Next]_vars
        => NewsIsSignalled' /\ DueInv'
  BY NewsNext, DueInvNext
<1>3. TypeInv /\ AccountInv /\ NewsIsSignalled /\ DueInv => FinishedIsDue
  <2> SUFFICES ASSUME TypeInv, AccountInv, NewsIsSignalled, DueInv, pc \notin Leaving,
                      NEW n \in jobs, pids[n] # {},
                      \A p \in pids[n] : /\ kstate[p] \in {"zombie", "reaped"}
                                         /\ Entry(p, "exited") \notin dropped
               PROVE  sigchld \/ handling \/ RetirementIsDue(n)
    BY DEF FinishedIsDue
  <2>1. n \in JobNums /\ pids[n] \subseteq Pids /\ pids[n] \subseteq Listed
    BY ListedType DEF TypeInv, TypeOK, Listed
  <2>2. CASE \E p \in pids[n] : kstate[p] = "zombie"
    BY <2>1, <2>2 DEF NewsIsSignalled, Waitable, Leaving
  <2>3. CASE \A p \in pids[n] : kstate[p] = "reaped"
    <3>1. CASE pids[n] \subseteq completed
      BY <3>1 DEF DueInv, JobIsCompleted
    <3>2. CASE ~(pids[n] \subseteq completed)
      <4>1. Queued # {}
        BY <2>1, <2>3, <3>2 DEF AccountInv, Account, EndIsAccounted
      <4> QED BY <4>1 DEF DueInv, MarkingIsDue, RetirementIsDue
    <3> QED BY <3>1, <3>2
  <2> QED BY <2>2, <2>3
<1> QED BY <1>1, <1>2, <1>3, AccountSpec, PTL DEF Spec
=============================================================================
