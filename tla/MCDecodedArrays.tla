-------------------------- MODULE MCDecodedArrays --------------------------
(* DecodedArrays on a small instance: three calls for one coordinate of a handle, *)
(* a call for it and one without L2 on another, and metadata in the same cache. *)
EXTENDS DecodedArrays, TLC

CONSTANTS h1, h2, a1, a2, a3, b, c, coordinate, time

MCHandleOf == [call \in Calls |-> IF call \in {b, c} THEN h2 ELSE h1]
MCKeyOf == [call \in Calls |-> IF call = c THEN time ELSE coordinate]
MCCost == [k \in CacheKeys |-> [v \in CacheValues |-> IF v = "absent" THEN 1 ELSE 2]]
MCTtl == [k \in Keys |-> Never]

\* Calls with the same arguments can be exchanged.
MCSymmetry == Permutations({a1, a2, a3})
==============================================================================
