----------------------------- MODULE DspDriver -----------------------------
(***************************************************************************)
(* The driver seen by a process that uses it as a remote procedure call:   *)
(* open, then again and again write a request, poll until the device is    *)
(* ready, read the response.  RequestPath carries the request to the DSP,  *)
(* EventChannel carries the answer back, and DspEngine is under both.      *)
(*                                                                         *)
(* The device keeps one response and one event, so that the process has at *)
(* most one request outstanding is the condition under which an answer     *)
(* belongs to its question; nothing in the driver enforces it.  Neither    *)
(* does anything keep other processes from opening and identifying the     *)
(* device meanwhile, which discards what the driver keeps for the client.  *)
(***************************************************************************)
EXTENDS RequestPath, EventChannel

CONSTANTS
  Client,      \* the process that makes the requests
  Others       \* processes that open, identify and release the device

ASSUME DriverAssumption ==
  /\ Client \notin Others
  /\ Consumers = {Client} \cup Others
  /\ Writers = {Client}
  /\ Callers = {}

VARIABLES
  want,        \* the request whose response the client awaits, or None
  discarded    \* what others discarded since it was written (history)

clientVars == <<want, discarded>>
driverVars == <<engineVars, queueVars, consumerVars, clientVars>>

DriverInit == PathInit /\ EventInit /\ want = None /\ discarded = {}

-----------------------------------------------------------------------------
(* The client                                                              *)

InUserSpace == call[Client] = "user" /\ Client \notin waking

ClientOpen ==
  /\ OpenResponse(Client)
  /\ UNCHANGED <<queueVars, clientVars>>

ClientRelease ==
  /\ InUserSpace
  /\ want = None
  /\ Release(Client)
  /\ UNCHANGED <<queueVars, clientVars>>

ClientWrite(r) ==
  /\ InUserSpace
  /\ want = None
  /\ Enqueue(Client, r)
  /\ want' = r
  /\ discarded' = {}
  /\ UNCHANGED consumerVars

ClientPoll ==
  /\ InUserSpace
  /\ want # None
  /\ outcome[Client] # "ready"
  /\ PollWait(Client)
  /\ UNCHANGED <<queueVars, clientVars>>

ClientTimeout ==
  /\ PollTimeout(Client)
  /\ UNCHANGED <<queueVars, clientVars>>

ClientRead ==
  /\ InUserSpace
  /\ outcome[Client] = "ready"
  /\ Read(Client)
  /\ want' = None
  /\ UNCHANGED <<queueVars, discarded>>

\* A call in progress, and the wake-up at the end of write.
ClientStep ==
  \/ (OpenEvent(Client) \/ PollStep(Client)) /\ UNCHANGED <<queueVars, clientVars>>
  \/ WakeWorker(Client) /\ UNCHANGED <<consumerVars, clientVars>>

-----------------------------------------------------------------------------
(* Other processes                                                         *)

Discard(what) ==
  /\ discarded' = IF want = None THEN discarded ELSE discarded \cup what
  /\ UNCHANGED <<queueVars, want>>

ResponseGoes == Discard(IF response # 0 THEN {"response"} ELSE {})
EventGoes == Discard(IF irq_event THEN {"event"} ELSE {})

OtherOpen(p) ==
  \/ OpenResponse(p) /\ ResponseGoes
  \/ OpenEvent(p) /\ EventGoes

OtherIdentify(p) == Identify(p) /\ ResponseGoes

OtherRelease(p) == Release(p) /\ UNCHANGED <<queueVars, clientVars>>

-----------------------------------------------------------------------------
(* The kernel thread, its end, run and the device                          *)

Elsewhere == UNCHANGED <<consumerVars, clientVars>>

DriverNext ==
  \/ ClientOpen \/ ClientRelease \/ ClientPoll \/ ClientTimeout \/ ClientRead \/ ClientStep
  \/ \E r \in Requests : ClientWrite(r)
  \/ \E p \in Others : OtherOpen(p) \/ OtherIdentify(p) \/ OtherRelease(p)
  \/ ThreadStep /\ Elsewhere
  \/ Stop /\ Elsewhere
  \/ RunStepInPath(Worker) /\ Elsewhere
  \/ DeviceStepInPath /\ Elsewhere

(***************************************************************************)
(* A client that awaits an answer goes on polling and reads it.  It need   *)
(* not write, its poll need not time out, and the thread need not stop.    *)
(***************************************************************************)
DriverSpec ==
  /\ DriverInit
  /\ [][DriverNext]_driverVars
  /\ WF_driverVars(ClientPoll \/ ClientRead \/ ClientStep)
  /\ WF_driverVars(ThreadStep /\ Elsewhere)
  /\ WF_driverVars(RunStepInPath(Worker) /\ Elsewhere)
  /\ WF_driverVars((\E i \in ReqIds : DspStart(i)) /\ UNCHANGED queueVars /\ Elsewhere)
  /\ WF_driverVars(DspFinish /\ UNCHANGED queueVars /\ Elsewhere)
  /\ WF_driverVars(IrqStep /\ UNCHANGED queueVars /\ Elsewhere)

-----------------------------------------------------------------------------
(***************************************************************************)
(* The response a client reads is that of the request it wrote, although   *)
(* read never waits and returns whatever the one response record holds     *)
(* (cdev.c:53-70), and although the event that poll reported may be left   *)
(* from an earlier request.  An open (cdev.c:43) or IDENTIFY_DEVICE        *)
(* (message.c:64) of another process may leave it nothing, but never a     *)
(* wrong response.                                                         *)
(***************************************************************************)
OwnResponse ==
  [][want # None /\ want' = None =>
       \/ seen'[Client] = ReqId[want]
       \/ "response" \in discarded /\ seen'[Client] = 0]_driverVars

(***************************************************************************)
(* Every request that a client writes is answered, unless the kernel       *)
(* thread is stopped, or another process has opened the device after the   *)
(* handler recorded the event of this very request and before poll took it *)
(* (cdev.c:44).  No other open, and no IDENTIFY_DEVICE, has that effect.   *)
(***************************************************************************)
Answered ==
  (want # None /\ ~stop) ~> (want = None \/ stop \/ "event" \in discarded)

(***************************************************************************)
(* When the client has nothing outstanding the driver is at rest: no       *)
(* entry that has not yet begun, no message in flight and no event, so     *)
(* nothing that is left over can be taken for the answer to its next       *)
(* request.  (The handler may not have returned, nor the thread unlinked.) *)
(***************************************************************************)
NothingLeftOver ==
  want = None => InFlight = {} /\ serviceQueue = <<>> /\ ~irq_event

-----------------------------------------------------------------------------
(***************************************************************************)
(* DspDriver implements RemoteCall.  A question is answered when the       *)
(* handler takes the response (line 62), although the client hears of it   *)
(* only when the event is recorded and poll takes it; it is missed when    *)
(* the event is gone and the client has not been told.                     *)
(***************************************************************************)
callPhase ==
  IF want = None THEN "idle"
  ELSE IF outcome[Client] = "ready" THEN "told"
  ELSE IF handler \in {"ack", "release", "event"} \/ irq_event THEN "answered"
  ELSE IF serviceQueue # <<>> \/ InFlight # {} THEN "asked"
  ELSE "missed"

callAnswer == IF callPhase \in {"answered", "told", "missed"} THEN response ELSE 0

Remote == INSTANCE RemoteCall
  WITH question <- want, phase <- callPhase, answer <- callAnswer,
       heard <- seen[Client], closed <- stop

(***************************************************************************)
(* Each question of the client is answered at most once, by the DSP that   *)
(* executed it and by nobody else; the client is told no earlier than the  *)
(* answer is there, so that its read, which never waits, cannot come too   *)
(* soon; and what it reads is that answer, or nothing.  While the kernel   *)
(* thread is not stopped the question is answered, and what others can do  *)
(* is to make it forgotten, or missed after it was answered.               *)
(***************************************************************************)
ImplementsRemoteCall == Remote!CallSpec

(***************************************************************************)
(* The one way in which the client can wait in vain for an answer that the *)
(* device has given: another process opened the device between the event   *)
(* and the client's poll (cdev.c:44).  The event is not lost in any other  *)
(* way, whether poll sleeps, is woken, times out or is called again.       *)
(***************************************************************************)
MissedByOpenOnly == callPhase = "missed" => "event" \in discarded
=============================================================================
