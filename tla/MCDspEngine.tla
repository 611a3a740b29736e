---------------------------- MODULE MCDspEngine ----------------------------
(***************************************************************************)
(* A small instance of Recovery: two contexts that may call run, and       *)
(* three requests of which two share an identifier.                        *)
(***************************************************************************)
EXTENDS Recovery

CONSTANTS r1, r2, r3

MCReqId == [r \in Requests |-> IF r = r2 THEN 2 ELSE 1]
=============================================================================
