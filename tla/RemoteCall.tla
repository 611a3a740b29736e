----------------------------- MODULE RemoteCall -----------------------------
(***************************************************************************)
(* What the driver promises a process that uses it as a remote procedure   *)
(* call.  The process asks one question at a time.  It is answered once,   *)
(* and the answer is the identifier of the question.  Others may make the  *)
(* device forget the answer, or make the process miss it; neither turns it *)
(* into the answer to another question.  A question asked before the       *)
(* service is closed is told, missed, or overtaken by the end.             *)
(***************************************************************************)
CONSTANTS Requests, ReqId, None

VARIABLES
  question,    \* what the process awaits an answer to, or None
  phase,       \* how far the call is
  answer,      \* what the device holds for the process, or 0
  heard,       \* the answer it got last
  closed       \* TRUE iff the service has been closed

callStateVars == <<question, phase, answer, heard, closed>>

CallInit ==
  /\ question = None
  /\ phase = "idle"
  /\ answer = 0
  /\ heard = 0
  /\ closed = FALSE

Goes(from, to) == phase = from /\ phase' = to

Ask(r) ==
  /\ Goes("idle", "asked")
  /\ question' = r
  /\ UNCHANGED <<answer, heard, closed>>

Reply ==
  /\ Goes("asked", "answered")
  /\ answer' = ReqId[question]
  /\ UNCHANGED <<question, heard, closed>>

\* The process learns that there is an answer, which Hear then takes.
Notice ==
  /\ Goes("answered", "told")
  /\ UNCHANGED <<question, answer, heard, closed>>

Hear ==
  /\ Goes("told", "idle")
  /\ heard' = answer
  /\ question' = None
  /\ answer' = 0
  /\ UNCHANGED closed

\* What other processes can do to the call.
Forget ==
  /\ phase \in {"answered", "told", "missed"}
  /\ answer' = 0
  /\ UNCHANGED <<question, phase, heard, closed>>

Miss ==
  /\ Goes("answered", "missed")
  /\ UNCHANGED <<question, answer, heard, closed>>

Close ==
  /\ ~closed
  /\ closed' = TRUE
  /\ UNCHANGED <<question, phase, answer, heard>>

CallNext ==
  (\E r \in Requests : Ask(r)) \/ Reply \/ Notice \/ Hear \/ Forget \/ Miss \/ Close

(***************************************************************************)
(* While the service is open a question is answered, and an answer is told *)
(* to the process, which takes it, unless the process misses it.           *)
(***************************************************************************)
CallSafety == CallInit /\ [][CallNext]_callStateVars
CallSpec ==
  /\ CallSafety
  /\ WF_callStateVars(~closed /\ Reply)
  /\ WF_callStateVars(Notice \/ Miss)
  /\ WF_callStateVars(Hear)
=============================================================================
