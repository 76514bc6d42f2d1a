----------------------------- MODULE MCStorage -----------------------------
(* Storage on a small instance: two reads of one key, or a read and a call of *)
(* another operation, on both transports. *)
EXTENDS Storage

CONSTANTS c1, c2

MCCalls == {c1, c2}

MCAsks == {[c \in MCCalls |-> IF c = c1 THEN "get" ELSE op] : op \in Operations}
=============================================================================
