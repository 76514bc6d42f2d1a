-------------------------- MODULE MCDatasetRegistry --------------------------
(* DatasetRegistry on a small instance. *)
EXTENDS DatasetRegistry

CONSTANTS a, b

\* An id that is evicted and built again, and one that is there to evict it.
MCMaxBuilds == [id \in Ids |-> IF id = a THEN 2 ELSE 1]
==============================================================================
