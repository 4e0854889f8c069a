------------------------------ MODULE PipeChain ------------------------------
(***************************************************************************)
(* What a pipeline promises the commands it joins, with no descriptors in  *)
(* sight: command c writes to link c and command c + 1 reads from it.  A   *)
(* reader is told the end of its input only when its writer can write no   *)
(* more and the link is empty; a writer is told that nobody reads only     *)
(* when its reader can read no more.                                       *)
(***************************************************************************)
EXTENDS Integers

CONSTANTS Commands, Links, Capacity

VARIABLES phase,            \* of each command
          held,             \* items in each link
          infile, outfile,  \* commands whose input or output is a file
          eof,              \* commands that were told the end of their input
          broken            \* commands that were told that nobody reads

chain == <<phase, held, infile, outfile, eof, broken>>

Over(c)     == phase[c] \in {"ended", "never"}
Writes(c)   == c \in Links /\ c \notin outfile /\ phase[c] = "running"
Reads(c)    == c - 1 \in Links /\ c \notin infile /\ phase[c] = "running"
WriterGone(l) == Over(l) \/ (l \in outfile /\ phase[l] = "running")
ReaderGone(l) == Over(l + 1) \/ (l + 1 \in infile /\ phase[l + 1] = "running")

Init ==
  /\ phase = [c \in Commands |-> "planned"]
  /\ held = [l \in Links |-> 0]
  /\ infile \in SUBSET Commands /\ outfile \in SUBSET Commands
  /\ eof = {} /\ broken = {}

Become(c, from, to) ==
  /\ phase[c] \in from
  /\ phase' = [phase EXCEPT ![c] = to]

Start(c) == Become(c, {"planned"}, "starting")
            /\ UNCHANGED <<held, infile, outfile, eof, broken>>
Run(c)   == Become(c, {"starting"}, "running")
            /\ UNCHANGED <<held, infile, outfile, eof, broken>>
End(c)   == Become(c, {"starting", "running"}, "ended")
            /\ UNCHANGED <<held, infile, outfile, eof, broken>>

(* The launch is given up: what has not been started never will be.         *)
GiveUp ==
  /\ phase' = [c \in Commands |-> IF phase[c] = "planned" THEN "never" ELSE phase[c]]
  /\ UNCHANGED <<held, infile, outfile, eof, broken>>

Put(c) ==
  /\ Writes(c) /\ held[c] < Capacity
  /\ held' = [held EXCEPT ![c] = @ + 1]
  /\ UNCHANGED <<phase, infile, outfile, eof, broken>>

Take(c) ==
  /\ Reads(c) /\ held[c - 1] > 0
  /\ held' = [held EXCEPT ![c - 1] = @ - 1]
  /\ UNCHANGED <<phase, infile, outfile, eof, broken>>

TellEof(c) ==
  /\ Reads(c) /\ held[c - 1] = 0 /\ WriterGone(c - 1)
  /\ eof' = eof \cup {c}
  /\ UNCHANGED <<phase, held, infile, outfile, broken>>

Break(c) ==
  /\ Writes(c) /\ ReaderGone(c)
  /\ broken' = broken \cup {c}
  /\ phase' = [phase EXCEPT ![c] = "ended"]
  /\ UNCHANGED <<held, infile, outfile, eof>>

Next == \/ \E c \in Commands : \/ Start(c) \/ Run(c) \/ End(c)
                               \/ Put(c) \/ Take(c) \/ TellEof(c) \/ Break(c)
        \/ GiveUp

Spec == Init /\ [][Next]_chain
=============================================================================
