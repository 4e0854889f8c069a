----------------------------- MODULE MCEnvTable -----------------------------
(* Two names that share a chain, one in a chain of its own, and one that is *)
(* no identifier.                                                           *)
EXTENDS EnvTable

CONSTANTS a, b, c, bad

MCNames == {a, b, c, bad}
MCValid == {a, b, c}
MCHash  == [n \in MCNames |-> IF n = c THEN 1 ELSE 0]
=============================================================================
