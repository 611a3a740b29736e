--------------------------- MODULE MCEventChannel ---------------------------
(***************************************************************************)
(* One or two consumers, and the engine with one caller of run.  What the  *)
(* response says matters to none of the properties checked here, so one    *)
(* request, with the identifier 0 of an empty response, is enough.         *)
(***************************************************************************)
EXTENDS EventChannel

CONSTANTS r1

MCReqId == [r \in Requests |-> 0]
=============================================================================
