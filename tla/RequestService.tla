--------------------------- MODULE RequestService ---------------------------
(***************************************************************************)
(* What the write path of the driver promises: submitted requests are      *)
(* executed one at a time, in the order of their submission, each exactly  *)
(* once, and the identifier of each is reported before the next begins.    *)
(* Once the service is closed it begins at most one more request, the one  *)
(* its worker had already taken.                                           *)
(***************************************************************************)
EXTENDS Sequences

CONSTANTS Requests, ReqId, None

VARIABLES
  queue,       \* submitted requests that have not begun
  active,      \* the request in execution, or None
  reported,    \* the identifier reported last
  stage        \* "open", "closing" (one request may still begin) or "closed"

serviceVars == <<queue, active, reported, stage>>

ServiceInit ==
  /\ queue = <<>>
  /\ active = None
  /\ reported = 0
  /\ stage = "open"

Submit(r) ==
  /\ queue' = Append(queue, r)
  /\ UNCHANGED <<active, reported, stage>>

Begin ==
  /\ stage # "closed"
  /\ active = None
  /\ queue # <<>>
  /\ active' = Head(queue)
  /\ queue' = Tail(queue)
  /\ stage' = (IF stage = "open" THEN "open" ELSE "closed")
  /\ UNCHANGED reported

Report ==
  /\ active # None
  /\ reported' = ReqId[active]
  /\ active' = None
  /\ UNCHANGED <<queue, stage>>

Close ==
  /\ stage = "open"
  /\ stage' \in {"closing", "closed"}
  /\ UNCHANGED <<queue, active, reported>>

ServiceNext == (\E r \in Requests : Submit(r)) \/ Begin \/ Report \/ Close

(***************************************************************************)
(* While the service is open a submitted request does begin, and one that  *)
(* has begun is reported whether or not the service is closed.             *)
(***************************************************************************)
ServiceSafety == ServiceInit /\ [][ServiceNext]_serviceVars
ServiceSpec ==
  /\ ServiceSafety
  /\ WF_serviceVars(stage # "closed" /\ Begin)
  /\ WF_serviceVars(Report)
=============================================================================
