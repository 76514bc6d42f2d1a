---------------------------- MODULE DirectoryLease ----------------------------
(***************************************************************************)
(* What the registry promises about the directories of the disk tier: each *)
(* is leased to at most one owner at a time, only the owner adds files,    *)
(* and the lease ends with the removal of the directory, which empties it  *)
(* or, when the removal fails part way, leaves some of its files behind.   *)
(***************************************************************************)
CONSTANTS Ids, Owners, Nobody, Dir(_)

VARIABLES
  holder,   \* id -> owner of the id's directory, or Nobody
  files     \* id -> owners that have files in the directory

Init ==
  /\ holder = [id \in Ids |-> Nobody]
  /\ files = [id \in Ids |-> {}]

Take(o) ==
  /\ holder[Dir(o)] = Nobody
  /\ holder' = [holder EXCEPT ![Dir(o)] = o]
  /\ UNCHANGED files

Put(o) ==
  /\ holder[Dir(o)] = o
  /\ files' = [files EXCEPT ![Dir(o)] = @ \cup {o}]
  /\ UNCHANGED holder

Release(o) ==
  /\ holder[Dir(o)] = o
  /\ holder' = [holder EXCEPT ![Dir(o)] = Nobody]
  /\ \E left \in SUBSET files[Dir(o)] : files' = [files EXCEPT ![Dir(o)] = left]

Next == \E o \in Owners : Take(o) \/ Put(o) \/ Release(o)

Spec == Init /\ [][Next]_<<holder, files>>
==============================================================================
