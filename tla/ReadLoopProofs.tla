--------------------------- MODULE ReadLoopProofs ---------------------------
(* Theorems about ReadLoop, for any number of children.                      *)
EXTENDS ReadLoop, TLAPS

LEMMA Counting ==
  ASSUME NEW c \in 0 .. MaxKids
  PROVE  /\ \A n \in 0 .. c : c - n \in 0 .. MaxKids
         /\ c > 0 => c # 0
         /\ c < MaxKids => c + 1 \in 0 .. MaxKids
BY KidsAssumption DEF KidsAssumption

(* Type correctness of the prompt's variables (shell.c:36-45,                *)
(* signal_utils.c:19-20).                                                    *)
THEOREM Typing == Spec => []TypeOK
<1>1. Init => TypeOK
  <2>1. Init => children \in 0 .. MaxKids
    BY KidsAssumption DEF Init, KidsAssumption
  <2> QED BY <2>1 DEF Init, TypeOK, Errnos
<1>2. TypeOK /\ [Next]_vars => TypeOK'
  <2> SUFFICES ASSUME TypeOK, [Next]_vars PROVE TypeOK'
    OBVIOUS
  <2> USE DEF TypeOK, Errnos
  <2>1. CASE SkipInterrupted
    BY <2>1 DEF SkipInterrupted
  <2>2. CASE Prompt
    BY <2>2 DEF Prompt
  <2>3. CASE GetLine \/ GetEof \/ GetInterrupted \/ GetError
    BY <2>3 DEF GetLine, GetEof, GetInterrupted, GetError, Returns
  <2>4. CASE Test
    BY <2>4 DEF Test, Outcome
  <2>5. CASE Run
    <3>1. errno' \in Errnos /\ UNCHANGED <<interrupted, child_changed, result, input>>
      BY <2>5 DEF Run
    <3>2. /\ pc' \in {"top", "over"}
          /\ left' \in {left, "exit", "failed to execute"}
          /\ children' = children \/ (children < MaxKids /\ children' = children + 1)
      BY <2>5 DEF Run
    <3>3. children' \in 0 .. MaxKids
      BY <3>2, Counting
    <3> QED BY <3>1, <3>2, <3>3
  <2>6. CASE Type \/ SigInt
    BY <2>6 DEF Type, SigInt
  <2>7. CASE SigChld
    <3>1. PICK n \in 0 .. children : /\ children' = children - n
                                     /\ errno' \in {"ECHILD", errno}
      BY <2>7 DEF SigChld, Reaped
    <3>2. children' \in 0 .. MaxKids
      BY <3>1, Counting
    <3> QED BY <2>7, <3>1, <3>2 DEF SigChld
  <2>8. CASE UNCHANGED vars
    BY <2>8 DEF vars
  <2> QED BY <2>1, <2>2, <2>3, <2>4, <2>5, <2>6, <2>7, <2>8 DEF Next, Shell
<1> QED BY <1>1, <1>2, PTL DEF Spec

(* Up to the test, an interrupted read keeps its EINTR unless the last child *)
(* has been reaped since; nothing runs any more once the loop is left.       *)
InterruptKept ==
  pc = "test" /\ result = "interrupted" => \/ errno = "EINTR"
                                           \/ errno = "ECHILD" /\ children = 0
Idle == left # "no" <=> pc = "over"
IInv == InterruptKept /\ Idle /\ OnlyRaceEndsShell

(* A ^C at the prompt ends the shell only through the race of shell.c:72,    *)
(* whatever the children and the terminal do.                                *)
THEOREM RaceOnly == Spec => []OnlyRaceEndsShell
<1>1. Init => IInv
  BY DEF Init, IInv, InterruptKept, Idle, OnlyRaceEndsShell
<1>2. TypeOK /\ IInv /\ [Next]_vars => IInv'
  <2> SUFFICES ASSUME TypeOK, IInv, [Next]_vars PROVE IInv'
    OBVIOUS
  <2> USE DEF TypeOK, Errnos, IInv, InterruptKept, Idle, OnlyRaceEndsShell
  <2>1. CASE SkipInterrupted \/ Prompt
    BY <2>1 DEF SkipInterrupted, Prompt
  <2>2. CASE GetLine \/ GetEof \/ GetInterrupted \/ GetError
    BY <2>2 DEF GetLine, GetEof, GetInterrupted, GetError, Returns
  <2>3. CASE Test
    BY <2>3 DEF Test, Outcome
  <2>4. CASE Run
    <3>1. pc = "run" /\ left = "no" /\ UNCHANGED result
      BY <2>4 DEF Run
    <3>2. \/ pc' = "top" /\ left' = left
          \/ pc' = "over" /\ left' \in {"exit", "failed to execute"}
      BY <2>4 DEF Run
    <3>3. Idle' /\ left' # "error" /\ pc' # "test"
      BY <3>1, <3>2
    <3> QED BY <3>3
  <2>5. CASE Type \/ SigInt
    BY <2>5 DEF Type, SigInt
  <2>6. CASE SigChld
    <3>1. pc # "over" /\ pc' = pc /\ result' = result /\ left' = left
      BY <2>6 DEF SigChld
    <3>2. errno' = errno \/ (errno' = "ECHILD" /\ children' = 0)
      BY <2>6 DEF SigChld
    <3>3. children # 0
      BY <2>6, Counting DEF SigChld
    <3>4. InterruptKept'
      BY <3>1, <3>2, <3>3
    <3>5. left = "no"
      BY <3>1
    <3> QED BY <3>1, <3>4, <3>5
  <2>7. CASE UNCHANGED vars
    BY <2>7 DEF vars
  <2> QED BY <2>1, <2>2, <2>3, <2>4, <2>5, <2>6, <2>7 DEF Next, Shell
<1> QED BY <1>1, <1>2, Typing, PTL DEF Spec, IInv

-----------------------------------------------------------------------------
(* The way out of the loop when the input is over                            *)

(* The steps of the shell's thread to the end of the loop, once the input is *)
(* closed: the line it still deals with, the top with a ^C to be noticed,    *)
(* one read, one test.                                                       *)
Ahead(p, r) == CASE p = "test" /\ r = "line" -> 5
                 [] p = "run"  -> 4
                 [] p = "top"  -> 3
                 [] p = "read" -> 2
                 [] p = "test" /\ r # "line" -> 1
                 [] OTHER -> 0
ToNotice == IF interrupted THEN 1 ELSE 0
ToTheEnd == Ahead(pc, result) + ToNotice

(* Without EINTR in errno nothing brings it back, nothing leads away from    *)
(* the end but a new ^C, and each step of the shell leads towards it.        *)
EofDrawsNear ==
  input = "closed" /\ errno # "EINTR" /\ (interrupted' => interrupted) =>
    /\ input' = "closed" /\ errno' # "EINTR"
    /\ ToTheEnd' <= ToTheEnd
    /\ Shell => ToTheEnd' < ToTheEnd

(* The end of the input is not passed by: whatever signals and children do,  *)
(* the shell is at most six of its own steps from leaving, unless ^C keeps   *)
(* coming or has left EINTR in errno (shell.c:55-80). It is the step behind  *)
(* EofIsHeard, which says the same of whole behaviours.                      *)
THEOREM EofComesNear == Spec => [][EofDrawsNear]_vars
<1>1. TypeOK /\ [Next]_vars => [EofDrawsNear]_vars
  <2> SUFFICES ASSUME TypeOK, Next, input = "closed", errno # "EINTR", interrupted' => interrupted
               PROVE  /\ input' = "closed" /\ errno' # "EINTR"
                      /\ ToTheEnd' <= ToTheEnd
                      /\ Shell => ToTheEnd' < ToTheEnd
    BY DEF EofDrawsNear
  <2>1. \A r : /\ Ahead("run", r) = 4 /\ Ahead("top", r) = 3 /\ Ahead("read", r) = 2
               /\ Ahead("over", r) = 0 /\ Ahead("test", r) = IF r = "line" THEN 5 ELSE 1
    BY DEF Ahead
  <2>2. /\ ToTheEnd = Ahead(pc, result) + ToNotice
        /\ ToTheEnd' = Ahead(pc', result') + ToNotice'
        /\ ToNotice \in {0, 1} /\ ToNotice' \in {0, 1} /\ ToNotice' <= ToNotice
    BY DEF ToTheEnd, ToNotice
  <2>3. CASE SkipInterrupted
    <3>1. ToNotice = 1 /\ ToNotice' = 0 /\ UNCHANGED <<pc, result, errno, input>> /\ pc = "top"
      BY <2>3 DEF SkipInterrupted, ToNotice
    <3> QED BY <2>1, <2>2, <3>1
  <2>4. CASE Prompt \/ GetEof \/ GetError
    <3>1. /\ errno' # "EINTR" /\ input' = "closed"
          /\ \/ pc = "top" /\ pc' = "read"
             \/ pc = "read" /\ pc' = "test" /\ result' # "line"
      BY <2>4 DEF Prompt, GetEof, GetError, Returns
    <3> QED BY <2>1, <2>2, <3>1
  <2>5. CASE Test
    <3>1. /\ errno' # "EINTR" /\ input' = "closed" /\ pc = "test"
          /\ pc' = IF result = "line" THEN "run" ELSE "over"
      BY <2>5 DEF Test, Outcome
    <3> QED BY <2>1, <2>2, <3>1
  <2>6. CASE Run
    <3>1. /\ errno' # "EINTR" /\ input' = "closed" /\ pc = "run" /\ pc' \in {"top", "over"}
      BY <2>6 DEF Run
    <3> QED BY <2>1, <2>2, <3>1
  <2>7. ~GetLine /\ ~GetInterrupted /\ ~Type
    BY DEF GetLine, GetInterrupted, Type
  <2>8. CASE Shell
    BY <2>3, <2>4, <2>5, <2>6, <2>7, <2>8 DEF Shell
  <2>9. CASE ~Shell /\ (SigInt \/ SigChld)
    <3>1. errno' # "EINTR" /\ input' = "closed" /\ UNCHANGED <<pc, result>>
      BY <2>9 DEF SigInt, SigChld
    <3>2. Ahead(pc, result) \in Nat
      BY DEF Ahead
    <3> QED BY <2>2, <2>9, <3>1, <3>2
  <2> QED BY <2>4, <2>7, <2>8, <2>9 DEF Next
<1> QED BY <1>1, Typing, PTL DEF Spec
=============================================================================
