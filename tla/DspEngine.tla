----------------------------- MODULE DspEngine -----------------------------
(***************************************************************************)
(* The execution engine of the driver: dx_v3_dsp_run, the interrupt        *)
(* handler dsp_irq_handler, and the DSP they share.                        *)
(*                                                                         *)
(* dx_v3_dsp_run waits until the STATUS register does not read busy, sets  *)
(* it to busy, copies the request identifier into dsp->req_id, and writes  *)
(* the message into the SRAM slot that dsp->req_id names: first the data,  *)
(* then the header, whose arrival makes the DSP start.  When the message   *)
(* is done the DSP raises its interrupt, and the handler turns             *)
(* dsp->req_id into the response, acknowledges the interrupt, releases     *)
(* STATUS and wakes those who sleep on irq_wq.  Every access to a shared   *)
(* field, a register or the SRAM is an action of its own.                  *)
(*                                                                         *)
(* The firmware on the DSP is not part of the repository.  It is the       *)
(* environment that the code relies on: it takes a posted header, executes *)
(* one message at a time and raises the interrupt.                         *)
(***************************************************************************)
EXTENDS Naturals, FiniteSets

CONSTANTS
  Threads,      \* contexts that may call dsp->run
  Requests,     \* messages that may be submitted
  ReqIds,       \* request identifiers; each names an SRAM message slot
  ReqId,        \* the identifier each request carries
  None,         \* no request
  Serialized    \* TRUE iff the callers of dsp->run never overlap

ASSUME EngineAssumption ==
  /\ ReqIds \subseteq Nat
  /\ ReqId \in [Requests -> ReqIds]
  /\ None \notin Requests
  /\ Serialized \in BOOLEAN

VARIABLES
  run,          \* run[t]: where thread t stands in dx_v3_dsp_run
  req,          \* req[t]: the argument of its call
  slot,         \* slot[t]: its local msg_buf_offset_4, in slots
  status,       \* the STATUS register, which is also RESET_CTRL
  dsp_req_id,   \* dsp->req_id
  sram,         \* the message area of the SRAM, one record for each slot
  dsp,          \* the message in execution
  irq,          \* the interrupt line of the mailbox
  completed,    \* the message the DSP finished and nobody released (history)
  handler,      \* where the interrupt handler stands
  response,     \* dx->response.req_id
  irq_event,    \* dsp->irq_event
  irq_wq        \* who sleeps on dsp->irq_wq

engineVars == <<run, req, slot, status, dsp_req_id, sram, dsp, irq, completed,
                handler, response, irq_event, irq_wq>>

Maybe == Requests \cup {None}
Message == [data : Maybe, head : Maybe]
NoMessage == [data |-> None, head |-> None]

\* The register that serves as STATUS is also the one the DSP takes its reset
\* vector from: when dx_v3_dsp_start returns it holds the address of the code,
\* which the first message overwrites.
EngineInit ==
  /\ run = [t \in Threads |-> "out"]
  /\ req = [t \in Threads |-> None]
  /\ slot = [t \in Threads |-> None]
  /\ status = "code"
  /\ dsp_req_id \in ReqIds
  /\ sram = [i \in ReqIds |-> NoMessage]
  /\ dsp = NoMessage
  /\ irq = FALSE
  /\ completed = None
  /\ handler = "idle"
  /\ response = 0
  /\ irq_event = FALSE
  /\ irq_wq = {}

-----------------------------------------------------------------------------
(* dx_v3_dsp_run                                                           *)

Goto(t, from, to) == run[t] = from /\ run' = [run EXCEPT ![t] = to]

\* The variables of the hardware and of the handler, which the caller of run
\* leaves alone until it writes the header.
deviceVars == <<dsp, irq, completed, handler, response, irq_event, irq_wq>>

\* The call: no lock is taken, so nothing but its callers keeps two apart.
EnterRun(t, r) ==
  /\ Goto(t, "out", "spin")
  /\ req' = [req EXCEPT ![t] = r]
  /\ UNCHANGED <<slot, status, dsp_req_id, sram, deviceVars>>

Call(t, r) ==
  /\ Serialized => \A u \in Threads : run[u] = "out"
  /\ EnterRun(t, r)

\* Faulty: STATUS is not tested.
SpinIgnoresBusy(t) ==
  /\ Goto(t, "spin", "lock")
  /\ UNCHANGED <<req, slot, status, dsp_req_id, sram, deviceVars>>

\* The loop on STATUS ends when a read does not return busy.
Spin(t) ==
  /\ status # "busy"
  /\ Goto(t, "spin", "lock")
  /\ UNCHANGED <<req, slot, status, dsp_req_id, sram, deviceVars>>

Lock(t) ==
  /\ Goto(t, "lock", "id")
  /\ status' = "busy"
  /\ UNCHANGED <<req, slot, dsp_req_id, sram, deviceVars>>

SetId(t) ==
  /\ Goto(t, "id", "offset")
  /\ dsp_req_id' = ReqId[req[t]]
  /\ UNCHANGED <<req, slot, status, sram, deviceVars>>

\* Faulty: the offset is that of the next slot.
OffsetOfNextSlot(t) ==
  /\ Goto(t, "offset", "data")
  /\ slot' = [slot EXCEPT ![t] = dsp_req_id + 1]
  /\ UNCHANGED <<req, status, dsp_req_id, sram, deviceVars>>

\* The slot is computed from the shared field, not from the request.
Offset(t) ==
  /\ Goto(t, "offset", "data")
  /\ slot' = [slot EXCEPT ![t] = dsp_req_id]
  /\ UNCHANGED <<req, status, dsp_req_id, sram, deviceVars>>

\* Faulty: the header, and with it the start of the DSP, comes first.
HeaderFirst(t) ==
  /\ Goto(t, "data", "head")
  /\ sram' = [sram EXCEPT ![slot[t]].head = req[t]]
  /\ UNCHANGED <<req, slot, status, dsp_req_id, deviceVars>>

WriteData(t) ==
  /\ Goto(t, "data", "head")
  /\ sram' = [sram EXCEPT ![slot[t]].data = req[t]]
  /\ UNCHANGED <<req, slot, status, dsp_req_id, deviceVars>>

\* The last write; run returns and its locals are gone.
WriteHead(t) ==
  /\ Goto(t, "head", "out")
  /\ sram' = [sram EXCEPT ![slot[t]].head = req[t]]
  /\ req' = [req EXCEPT ![t] = None]
  /\ slot' = [slot EXCEPT ![t] = None]
  /\ UNCHANGED <<status, dsp_req_id, deviceVars>>

RunStep(t) ==
  Spin(t) \/ Lock(t) \/ SetId(t) \/ Offset(t) \/ WriteData(t) \/ WriteHead(t)

-----------------------------------------------------------------------------
(* The DSP                                                                 *)

callVars == <<run, req, slot, status, dsp_req_id>>

DspStart(i) ==
  /\ dsp = NoMessage
  /\ sram[i].head # None
  /\ dsp' = sram[i]
  /\ sram' = [sram EXCEPT ![i].head = None]
  /\ UNCHANGED <<callVars, irq, completed, handler, response, irq_event, irq_wq>>

DspFinish ==
  /\ dsp # NoMessage
  /\ dsp' = NoMessage
  /\ completed' = dsp.head
  /\ irq' = TRUE
  /\ UNCHANGED <<callVars, sram, handler, response, irq_event, irq_wq>>

-----------------------------------------------------------------------------
(* dsp_irq_handler                                                         *)

IrqGoto(from, to) == handler = from /\ handler' = to

\* Faulty: STATUS is released before the response is taken from dsp->req_id.
IrqReleaseFirst ==
  /\ irq
  /\ IrqGoto("idle", "respond")
  /\ status' = "idle"
  /\ UNCHANGED <<run, req, slot, dsp_req_id, sram, dsp, irq, completed,
                 response, irq_event, irq_wq>>

\* Faulty: the event is recorded before there is a response.
IrqEventEarly ==
  /\ irq
  /\ IrqGoto("idle", "respond")
  /\ irq_event' = TRUE
  /\ UNCHANGED <<callVars, sram, dsp, irq, completed, response, irq_wq>>

\* Entered when the line is raised.  The status words it reads are not used.
IrqEnter ==
  /\ irq
  /\ IrqGoto("idle", "respond")
  /\ UNCHANGED <<callVars, sram, dsp, irq, completed, response, irq_event, irq_wq>>

IrqRespond ==
  /\ IrqGoto("respond", "ack")
  /\ response' = dsp_req_id
  /\ UNCHANGED <<callVars, sram, dsp, irq, completed, irq_event, irq_wq>>

\* Faulty: the interrupt is not cleared.
IrqAckSkipped ==
  /\ IrqGoto("ack", "release")
  /\ UNCHANGED <<callVars, sram, dsp, irq, completed, response, irq_event, irq_wq>>

IrqAck ==
  /\ IrqGoto("ack", "release")
  /\ irq' = FALSE
  /\ UNCHANGED <<callVars, sram, dsp, completed, response, irq_event, irq_wq>>

\* Faulty: STATUS is never given back.
IrqReleaseSkipped ==
  /\ IrqGoto("release", "event")
  /\ UNCHANGED <<callVars, sram, dsp, irq, completed, response, irq_event, irq_wq>>

IrqRelease ==
  /\ IrqGoto("release", "event")
  /\ status' = "idle"
  /\ completed' = None
  /\ UNCHANGED <<run, req, slot, dsp_req_id, sram, dsp, irq,
                 response, irq_event, irq_wq>>

\* Faulty: the event is not recorded.
IrqEventSkipped ==
  /\ IrqGoto("event", "wake")
  /\ UNCHANGED <<callVars, sram, dsp, irq, completed, response, irq_event, irq_wq>>

IrqEvent ==
  /\ IrqGoto("event", "wake")
  /\ irq_event' = TRUE
  /\ UNCHANGED <<callVars, sram, dsp, irq, completed, response, irq_wq>>

\* Faulty: nobody is woken.
IrqWakeSkipped ==
  /\ IrqGoto("wake", "idle")
  /\ UNCHANGED <<callVars, sram, dsp, irq, completed, response, irq_event, irq_wq>>

\* wake_up_interruptible wakes every sleeper, none of which waits exclusively.
IrqWake ==
  /\ IrqGoto("wake", "idle")
  /\ irq_wq' = {}
  /\ UNCHANGED <<callVars, sram, dsp, irq, completed, response, irq_event>>

IrqStep ==
  IrqEnter \/ IrqRespond \/ IrqAck \/ IrqRelease \/ IrqEvent \/ IrqWake

-----------------------------------------------------------------------------
(* Everything that happens by itself once a request has been handed to run *)
DeviceStep == (\E i \in ReqIds : DspStart(i)) \/ DspFinish \/ IrqStep

EngineNext ==
  \/ \E t \in Threads, r \in Requests : Call(t, r)
  \/ \E t \in Threads : RunStep(t)
  \/ DeviceStep

EngineSafety == EngineInit /\ [][EngineNext]_engineVars

(***************************************************************************)
(* A thread inside run is scheduled, the firmware completes what it was    *)
(* given, and an interrupt is served.  Nothing forces a call.              *)
(***************************************************************************)
EngineSpec ==
  /\ EngineSafety
  /\ \A t \in Threads : WF_engineVars(RunStep(t))
  /\ WF_engineVars(\E i \in ReqIds : DspStart(i))
  /\ WF_engineVars(DspFinish)
  /\ WF_engineVars(IrqStep)

-----------------------------------------------------------------------------
EngineTypeOK ==
  /\ run \in [Threads -> {"out", "spin", "lock", "id", "offset", "data", "head"}]
  /\ req \in [Threads -> Maybe]
  /\ slot \in [Threads -> ReqIds \cup {None}]
  /\ \A t \in Threads :
       /\ run[t] # "out" => req[t] \in Requests
       /\ run[t] \in {"data", "head"} => slot[t] \in ReqIds
  /\ status \in {"code", "idle", "busy"}
  /\ dsp_req_id \in ReqIds
  /\ sram \in [ReqIds -> Message]
  /\ dsp \in Message
  /\ irq \in BOOLEAN
  /\ completed \in Maybe
  /\ handler \in {"idle", "respond", "ack", "release", "event", "wake"}
  /\ response \in ReqIds \cup {0}
  /\ irq_event \in BOOLEAN

\* Where a message that holds the lock can be.
Filling == {t \in Threads : run[t] \in {"id", "offset", "data", "head"}}
Posted == {i \in ReqIds : sram[i].head # None}
Answering == irq \/ handler = "release"
InFlight == {<<"fill", t>> : t \in Filling} \cup {<<"post", i>> : i \in Posted}
            \cup (IF dsp # NoMessage THEN {<<"execute", 0>>} ELSE {})
            \cup (IF Answering THEN {<<"answer", 0>>} ELSE {})

(***************************************************************************)
(* The purpose of the busy value of STATUS (lines 254-256 and 68-69): of   *)
(* all the stages between taking the lock and giving it back, at most one  *)
(* is occupied, and by one message.                                        *)
(***************************************************************************)
OneInFlight == \A a, b \in InFlight : a = b

(***************************************************************************)
(* STATUS reads busy exactly while a message is in flight: it is not given *)
(* back early, so that the next caller would overwrite a message in        *)
(* execution, and not kept when the work is over, so that every later      *)
(* caller would spin for ever.                                             *)
(***************************************************************************)
StatusTracksWork == status = "busy" <=> InFlight # {}

(***************************************************************************)
(* STATUS is not left busy when the work is over: as long as it reads busy *)
(* there is a message somewhere, or a pending interrupt, on whose way the  *)
(* handler releases it (line 69).  This half of the above needs no turns:  *)
(* it holds also when WRITE_INPUT overlaps the kernel thread, two messages *)
(* are merged in one slot, or one interrupt answers for two.               *)
(***************************************************************************)
BusyHasWork == status = "busy" => InFlight # {}

(***************************************************************************)
(* The DSP never executes a header with the data of another request, and   *)
(* always in the slot of that request: the data is written before the      *)
(* header (lines 265-268) and both go where dsp->req_id pointed when the   *)
(* offset was computed from it (line 263).                                 *)
(***************************************************************************)
MessageIntact ==
  /\ dsp.data = dsp.head
  /\ \A i \in Posted : sram[i].data = sram[i].head /\ ReqId[sram[i].head] = i

(***************************************************************************)
(* When the handler has taken the response (line 62), it carries the       *)
(* identifier of the message that the DSP has just completed, although it  *)
(* was read from a field that the next request overwrites (line 258).      *)
(***************************************************************************)
ReportedIsCompleted ==
  handler \in {"ack", "release"} =>
    completed # None /\ response = ReqId[completed]

\* What is left to do of a call of run before the interrupt is served.
RunLeft == [out |-> 0, spin |-> 14, lock |-> 13, id |-> 12, offset |-> 11,
            data |-> 10, head |-> 9]
HandlerLeft == [idle |-> 0, respond |-> 5, ack |-> 4, release |-> 3, event |-> 2,
                wake |-> 1]
Inside == {t \in Threads : run[t] # "out"}
StepsLeft ==
  (IF Inside # {} THEN RunLeft[run[CHOOSE t \in Inside : TRUE]] ELSE 0)
  + (IF Posted # {} THEN 8 ELSE 0)
  + (IF dsp # NoMessage THEN 7 ELSE 0)
  + (IF irq /\ handler \notin {"respond", "ack"} THEN 6 ELSE 0)
  + HandlerLeft[handler]

(***************************************************************************)
(* Between a call of run and the return of the interrupt handler there are *)
(* fourteen steps, whatever they are interleaved with, and each is taken   *)
(* once: no message is started twice and no interrupt served twice, also   *)
(* while the handler of one message is in the last of its steps, after it  *)
(* has released STATUS (lines 72-75), and the next message is under way.   *)
(***************************************************************************)
EachStepOnce ==
  [][\/ StepsLeft' = StepsLeft - 1
     \/ /\ \E t \in Threads : run[t] = "out" /\ run'[t] = "spin"
        /\ StepsLeft' = StepsLeft + 14]_engineVars

(***************************************************************************)
(* At most one caller is past the busy-wait of run: what the comment       *)
(* "Acquire mutex to ensure only one thread can execute this function"     *)
(* (line 248) promises.                                                    *)
(***************************************************************************)
RunExclusive ==
  \A t, u \in Threads : run[t] \notin {"out", "spin"} /\ run[u] \notin {"out", "spin"} => t = u

(***************************************************************************)
(* A busy STATUS is always given back, so a caller in the busy-wait of     *)
(* line 255, which has no timeout, does not spin for ever.                 *)
(***************************************************************************)
BusyIsReleased == status = "busy" ~> status = "idle"
=============================================================================
