------------------------------ MODULE MCReading ------------------------------
(* Reads of arrays and reads of polygons, one or the other: they share no state, *)
(* and either runs from its own initial states while the other one rests.        *)
EXTENDS MCArrayRead, MCPolygonRead

RestingRead    == CHOOSE rd \in Reads : TRUE
RestingRequest == CHOOSE r \in Requests : TRUE

ReadingInit ==
  \/ read = RestingRead /\ Init /\ PolygonInit
  \/ query = RestingRequest[1] /\ call = RestingRequest[2] /\ PolygonInit /\ Init

\* A step of the one while the other is where it started.
ReadingNext ==
  \/ phase = "idle" /\ <<query, call>> = RestingRequest /\ Next /\ UNCHANGED polygonVars
  \/ pending = Tasks(RestingRead) /\ read = RestingRead /\ PolygonNext /\ UNCHANGED vars

ReadingSpec == ReadingInit /\ [][ReadingNext]_<<vars, polygonVars>>
==============================================================================
