------------------------------ MODULE ReadLoop ------------------------------
(***************************************************************************)
(* The prompt: shell() reads a line and decides, from errno and the state  *)
(* of stdin, whether a read that failed was interrupted, is the end of     *)
(* the input or an error.  Meanwhile the user types, presses ^C, and       *)
(* background children change state.                                       *)
(*                                                                         *)
(* SIGINT (SIGQUIT alike) has no SA_RESTART and makes getline fail with    *)
(* EINTR; SIGCHLD has it.  The SIGCHLD handler waits until nothing is left *)
(* to report, so its last waitpid sets errno to ECHILD when it has reaped  *)
(* the only children.  Nothing resets errno.  What the commands do is left *)
(* to the other modules: here they leave children and an errno behind.     *)
(***************************************************************************)
EXTENDS Naturals

CONSTANT MaxKids   \* bound: background children alive at the same time
ASSUME KidsAssumption == MaxKids \in Nat

VARIABLES
  pc,             \* "top" of the loop, in getline ("read"), at the "test" of
                  \* its result, at the "run" of a line, or "over"
  errno,          \* "EINTR", "ECHILD" or any "other" value
  interrupted, child_changed,
  result,         \* what the last getline met
  input,          \* what the terminal holds: a typed line, a ^D, or an end
                  \* that stays ("closed")
  children,       \* background children that have not been reaped
  left            \* why the loop was left

vars == <<pc, errno, interrupted, child_changed, result, input, children, left>>

Errnos == {"EINTR", "ECHILD", "other"}

-----------------------------------------------------------------------------
Init == /\ pc = "top" /\ errno = "other" /\ result = "line" /\ input = "none"
        /\ interrupted = FALSE /\ child_changed = FALSE /\ children = 0 /\ left = "no"

SkipInterrupted == /\ pc = "top" /\ interrupted
                   /\ interrupted' = FALSE
                   /\ UNCHANGED <<pc, errno, child_changed, result, input, children, left>>

Prompt == /\ pc = "top" /\ ~interrupted
          /\ child_changed' = FALSE
          /\ pc' = "read"
          /\ UNCHANGED <<errno, interrupted, result, input, children, left>>

Returns(r) == /\ pc = "read" /\ result' = r /\ pc' = "test"
              /\ UNCHANGED <<child_changed, children, left>>

GetLine == /\ input = "line" /\ Returns("line")
           /\ input' = "none" /\ UNCHANGED <<errno, interrupted>>

GetEof == /\ input \in {"eof", "closed"} /\ Returns("eof")
          /\ input' = IF input = "eof" THEN "none" ELSE input
          /\ UNCHANGED <<errno, interrupted>>

(* ^C while getline blocks.                                                  *)
GetInterrupted == /\ input = "none" /\ Returns("interrupted")
                  /\ errno' = "EINTR" /\ interrupted' = TRUE /\ UNCHANGED input

GetError == /\ Returns("failed")
            /\ errno' = "other" /\ UNCHANGED <<interrupted, input>>

NoEintr == IF result = "line" THEN "run" ELSE "over"   \* mutant: EINTR is an error
NoEof   == IF result = "line" THEN "run"               \* mutant: feof is not asked
           ELSE IF errno = "EINTR" \/ result = "eof" THEN "top" ELSE "over"
Outcome == CASE result = "line" -> "run"
             [] result # "line" /\ errno = "EINTR" -> "top"      \* clearerr, continue
             [] OTHER -> "over"

Test == /\ pc = "test" /\ pc' = Outcome
        /\ left' = IF Outcome # "over" THEN left ELSE IF result = "eof" THEN "eof" ELSE "error"
        /\ UNCHANGED <<errno, interrupted, child_changed, result, input, children>>

(* A foreground job that ran to its end leaves the ECHILD of its last wait.  *)
Run == /\ pc = "run"
       /\ errno' \in {errno, "ECHILD", "other"}
       /\ \/ pc' = "top" /\ UNCHANGED <<children, left>>
          \/ pc' = "top" /\ children < MaxKids /\ children' = children + 1 /\ UNCHANGED left
          \/ pc' = "over" /\ left' \in {"exit", "failed to execute"} /\ UNCHANGED children
       /\ UNCHANGED <<interrupted, child_changed, result, input>>

-----------------------------------------------------------------------------
Type == /\ pc # "over" /\ input = "none" /\ input' \in {"line", "eof", "closed"}
        /\ UNCHANGED <<pc, errno, interrupted, child_changed, result, children, left>>

(* ^C anywhere else; the terminal forgets what was typed.                    *)
SigInt == /\ pc # "over" /\ interrupted' = TRUE
          /\ input' = IF input = "closed" THEN input ELSE "none"
          /\ UNCHANGED <<pc, errno, child_changed, result, children, left>>

ReapedTooMany(n) == children - n - 1       \* mutant: the last waitpid counts too
Reaped(n)        == children - n

(* sigchld_handler: n children have ended, others may have stopped.          *)
SigChld == /\ pc # "over" /\ children > 0
           /\ \E n \in 0 .. children :
                /\ children' = Reaped(n)
                /\ errno' = IF children' = 0 THEN "ECHILD" ELSE errno
           /\ child_changed' = TRUE
           /\ UNCHANGED <<pc, interrupted, result, input, left>>

Shell == SkipInterrupted \/ Prompt \/ GetLine \/ GetEof \/ Test \/ Run
Next  == Shell \/ GetInterrupted \/ GetError \/ Type \/ SigInt \/ SigChld

(* The shell is never descheduled for good; nobody has to type, to press ^C  *)
(* or to end.                                                                *)
Spec == Init /\ [][Next]_vars /\ WF_vars(Shell)

-----------------------------------------------------------------------------
(* The variables range over what their C types and the states allow.         *)
TypeOK == /\ pc \in {"top", "read", "test", "run", "over"}
          /\ errno \in Errnos /\ interrupted \in BOOLEAN /\ child_changed \in BOOLEAN
          /\ result \in {"line", "eof", "interrupted", "failed"}
          /\ input \in {"none", "line", "eof", "closed"}
          /\ children \in 0 .. MaxKids
          /\ left \in {"no", "eof", "error", "exit", "failed to execute"}

(* ^C at the prompt does not end the shell (README.md:155, shell.c:72), but  *)
(* for one race: between the interrupted read and the test of errno the      *)
(* SIGCHLD handler reaps the last child, and errno is ECHILD by then.        *)
OnlyRaceEndsShell ==
  left = "error" => \/ result = "failed"
                    \/ result = "interrupted" /\ errno = "ECHILD" /\ children = 0

(* When the input is over the shell leaves (shell.c:75) however the signals  *)
(* fall, unless ^C never stops coming or the EINTR of an earlier ^C is still *)
(* in errno and stays there: then it reads the end again and again.          *)
EofIsHeard == \/ []<>interrupted
              \/ [](input = "closed" => <>(pc = "over" \/ [](errno = "EINTR")))
=============================================================================
