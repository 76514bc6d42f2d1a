---------------------------- MODULE DecodeService ----------------------------
(***************************************************************************)
(* What a decode pool promises its callers: a job is answered once, closing *)
(* the service answers every pending job at once, and a closed service      *)
(* refuses. Nothing of workers or of a queue shows.                         *)
(***************************************************************************)
CONSTANT Jobs

VARIABLES
  answer,  \* job -> "none" before its call, "pending", "resolved", "rejected"
  open     \* the service takes jobs

Init == answer = [j \in Jobs |-> "none"] /\ open = TRUE

Pending == {j \in Jobs : answer[j] = "pending"}

Submit(j) ==
  /\ answer[j] = "none"
  /\ \E a \in {"pending", "rejected"} :
       /\ open \/ a = "rejected"
       /\ answer' = [answer EXCEPT ![j] = a]
  /\ UNCHANGED open

Reply(j) ==
  /\ answer[j] = "pending"
  /\ \E a \in {"resolved", "rejected"} : answer' = [answer EXCEPT ![j] = a]
  /\ UNCHANGED open

Close ==
  /\ open' = FALSE
  /\ answer' = [j \in Jobs |-> IF j \in Pending THEN "rejected" ELSE answer[j]]

Next == Close \/ \E j \in Jobs : Submit(j) \/ Reply(j)

Spec == Init /\ [][Next]_<<answer, open>>
==============================================================================
