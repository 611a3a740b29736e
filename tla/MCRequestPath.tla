--------------------------- MODULE MCRequestPath ---------------------------
(***************************************************************************)
(* Small instances of RequestPath: two writers, and two or three requests  *)
(* that fill the list while the thread works.                              *)
(***************************************************************************)
EXTENDS RequestPath

CONSTANTS r1, r2, r3

MCReqId == [r \in Requests |-> IF r = r2 THEN 2 ELSE 1]
=============================================================================
