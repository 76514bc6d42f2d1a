---------------------------- MODULE MCDecodePool ----------------------------
(* A pool of two threads with a replacement, and four jobs: two of them can *)
(* wait while a thread dies. *)
EXTENDS DecodePool
==============================================================================
