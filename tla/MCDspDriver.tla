---------------------------- MODULE MCDspDriver ----------------------------
(***************************************************************************)
(* One client that writes requests with two different identifiers.         *)
(***************************************************************************)
EXTENDS DspDriver

CONSTANTS r1, r2

MCReqId == [r \in Requests |-> IF r = r2 THEN 2 ELSE 1]
=============================================================================
