------------------------------ MODULE JobLedger ------------------------------
(***************************************************************************)
(* What the shell's job list promises, with no handler, queue or flag in   *)
(* sight: a job is entered before its processes exist, a process belongs   *)
(* to the job it was started for, and a job is struck off only when every  *)
(* process of it has been reaped.  A shell that is ending may strike off   *)
(* anything, and starts nothing any more.                                  *)
(***************************************************************************)
EXTENDS Naturals

CONSTANTS Pids, JobNums

VARIABLES listed,    \* the jobs on the list
          opened,    \* the jobs ever entered
          members,   \* the processes started for each job
          reaped,    \* processes whose end the shell has collected
          ending     \* the shell is leaving its loop

ledger == <<listed, opened, members, reaped, ending>>

Started == UNION {members[n] : n \in JobNums}

Init ==
  /\ listed = {} /\ opened = {} /\ reaped = {} /\ ending = FALSE
  /\ members = [n \in JobNums |-> {}]

(* Jobs are numbered upwards. *)
Enter(n) ==
  /\ ~ending /\ \A m \in opened : m < n
  /\ listed' = listed \cup {n} /\ opened' = opened \cup {n}
  /\ UNCHANGED <<members, reaped, ending>>

Start(n, p) ==
  /\ ~ending /\ n \in listed /\ p \notin Started
  /\ members' = [members EXCEPT ![n] = @ \cup {p}]
  /\ UNCHANGED <<listed, opened, reaped, ending>>

(* Collecting an end may be the last thing the shell does. *)
Reap(p) ==
  /\ p \in Started \ reaped
  /\ reaped' = reaped \cup {p}
  /\ ending => ending'
  /\ UNCHANGED <<listed, opened, members>>

StrikeOff(S) ==
  /\ S \subseteq listed
  /\ \A n \in S : members[n] # {} /\ members[n] \subseteq reaped
  /\ listed' = listed \ S
  /\ UNCHANGED <<opened, members, reaped, ending>>

(* Leaving may strike off the job whose launch failed, or all of them.      *)
Leave ==
  /\ ending' = TRUE
  /\ listed' \subseteq listed
  /\ UNCHANGED <<opened, members, reaped>>

Next == \/ \E n \in JobNums : Enter(n) \/ \E p \in Pids : Start(n, p)
        \/ \E p \in Pids : Reap(p)
        \/ \E S \in SUBSET listed : StrikeOff(S)
        \/ Leave

Spec == Init /\ [][Next]_ledger
=============================================================================
