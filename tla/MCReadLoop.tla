----------------------------- MODULE MCReadLoop -----------------------------
(* The prompt with a small number of background children.                   *)
EXTENDS ReadLoop
=============================================================================
