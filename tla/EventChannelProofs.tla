------------------------- MODULE EventChannelProofs -------------------------
(***************************************************************************)
(* Theorems about EventChannel for any number of consumers, whether or not *)
(* the callers of run take turns.                                          *)
(***************************************************************************)
EXTENDS EventChannel, DspEngineProofs

-----------------------------------------------------------------------------
(* Type correctness                                                        *)

\* The engine's steps and the consumers' calls share only what the calls
\* write: response, irq_event and irq_wq.
LEMMA ConsumerKeepsEngineTypes ==
  ASSUME EngineTypeOK, UNCHANGED executionVars,
         response' \in {response, 0}, irq_event' \in BOOLEAN
  PROVE  EngineTypeOK'
  BY DEF EngineTypeOK, executionVars

LEMMA ConsumerTypes ==
  ASSUME EventTypeOK, NEW c \in Consumers, ConsumerStep(c) \/ ConsumerRequest(c)
  PROVE  EventTypeOK'
<1> USE DEF EventTypeOK, Sleeping, Move, Tell
<1>1. EngineTypeOK'
  <2>1. UNCHANGED executionVars /\ response' \in {response, 0} /\ irq_event' \in BOOLEAN
    BY DEF EngineTypeOK, executionVars, engineVars, consumerVars,
           ConsumerStep, ConsumerRequest, PollStep, OutputStep,
           OpenEvent, PollReady, PollSleep, PollWoken, PollGiveUp, OutputReady, OutputSleep,
           OutputWoken, OutputClear, OutputPop, TerminateError, OpenResponse, Release,
           PollWait, PollTimeout, Read, OutputWait, OutputNull, OutputSignal, TerminateEvent, Identify
  <2> QED BY <2>1, ConsumerKeepsEngineTypes
<1>2. response \in ReqIds \cup {0}
  BY DEF EngineTypeOK
<1>3. CASE PollStep(c)
  BY <1>1, <1>3 DEF PollStep, PollReady, PollSleep, PollWoken, PollGiveUp, engineVars
<1>4. CASE OutputStep(c)
  BY <1>1, <1>4 DEF OutputStep, OutputReady, OutputSleep, OutputWoken, OutputClear, OutputPop,
                    engineVars
<1>5. CASE OpenEvent(c) \/ TerminateError(c) \/ OpenResponse(c) \/ Release(c)
  BY <1>1, <1>5 DEF OpenEvent, TerminateError, OpenResponse, Release, engineVars
<1>6. CASE PollWait(c) \/ PollTimeout(c) \/ OutputWait(c) \/ OutputNull(c) \/ OutputSignal(c)
  BY <1>1, <1>6 DEF PollWait, PollTimeout, OutputWait, OutputNull, OutputSignal, engineVars
<1>7. CASE Read(c) \/ TerminateEvent(c) \/ Identify(c)
  BY <1>1, <1>2, <1>7 DEF Read, TerminateEvent, Identify, engineVars, consumerVars
<1> QED BY <1>3, <1>4, <1>5, <1>6, <1>7 DEF ConsumerStep, ConsumerRequest

(***************************************************************************)
(* Every variable keeps its type; only consumers are on the wait queue.    *)
(***************************************************************************)
THEOREM EventTypes == EventSafety => []EventTypeOK
<1>1. EventInit => EventTypeOK
  <2> SUFFICES ASSUME EventInit PROVE EventTypeOK
    OBVIOUS
  <2>1. EngineTypeOK
    BY EngineInitTypeOK DEF EventInit
  <2> QED BY <2>1 DEF EventInit, EngineInit, EventTypeOK, Sleeping
<1>2. EventTypeOK /\ [EventNext]_eventVars => EventTypeOK'
  <2> SUFFICES ASSUME EventTypeOK, [EventNext]_eventVars
               PROVE  EventTypeOK'
    OBVIOUS
  <2>1. ASSUME EngineTypeOK', UNCHANGED consumerVars, irq_wq' \in {irq_wq, {}}
        PROVE  EventTypeOK'
    BY <2>1 DEF EventTypeOK, consumerVars
  <2>2. ASSUME EngineNext, UNCHANGED consumerVars PROVE EventTypeOK'
    <3>1. EngineTypeOK'
      BY <2>2, CallTypeOK, RunStepTypeOK, DeviceStepTypeOK DEF EngineNext, Call, EventTypeOK
    <3>2. irq_wq' \in {irq_wq, {}}
      BY <2>2
      DEF EngineNext, Call, EnterRun, RunStep, Spin, Lock, SetId, Offset, WriteData,
          WriteHead, DeviceStep, DspStart, DspFinish, IrqStep, IrqEnter, IrqRespond,
          IrqAck, IrqRelease, IrqEvent, IrqWake, deviceVars
    <3> QED BY <2>1, <2>2, <3>1, <3>2
  <2>3. CASE UNCHANGED eventVars
    BY <2>1, <2>3, StutterTypeOK DEF eventVars, engineVars, EventTypeOK
  <2> QED BY <2>2, <2>3, ConsumerTypes DEF EventNext
<1> QED BY <1>1, <1>2, PTL DEF EventSafety

-----------------------------------------------------------------------------
(* Wake-ups                                                                *)

(***************************************************************************)
(* No wake-up is lost on irq_wq: a process never sleeps through an event   *)
(* that nobody is going to wake it for.                                    *)
(***************************************************************************)
THEOREM SleepersAreWoken == EventSafety => []NoLostEventWakeup
<1>1. EventInit => NoLostEventWakeup
  BY DEF EventInit, EngineInit, NoLostEventWakeup
<1>2. EventTypeOK /\ NoLostEventWakeup /\ [EventNext]_eventVars => NoLostEventWakeup'
  <2> SUFFICES ASSUME EventTypeOK, NoLostEventWakeup, [EventNext]_eventVars
               PROVE  NoLostEventWakeup'
    OBVIOUS
  <2> DEFINE Places == {"closed", "opening", "user", "poll", "polllast", "output",
                        "outputclear", "outputpop", "terminate"} \cup Sleeping
  <2>c. call \in [Consumers -> Places] /\ irq_wq \subseteq Consumers
    BY DEF EventTypeOK
  <2> HIDE DEF Places
  <2> USE <2>c DEF NoLostEventWakeup, Sleeping
  \* Steps after which no more processes sleep, and the event and the handler
  \* are as they were.
  <2>0. ASSUME irq_event' => irq_event, handler' = handler \/ handler # "wake",
               \A c \in Consumers : call'[c] \in Sleeping /\ c \in irq_wq' =>
                                      call[c] \in Sleeping /\ c \in irq_wq
        PROVE  NoLostEventWakeup'
    BY <2>0
  <2>1. ASSUME EngineNext, UNCHANGED consumerVars PROVE NoLostEventWakeup'
    <3>1. CASE IrqEvent
      BY <3>1 DEF IrqEvent, IrqGoto
    <3>2. CASE IrqWake
      BY <3>2 DEF IrqWake
    <3>3. CASE ~IrqEvent /\ ~IrqWake
      <4>1. UNCHANGED <<irq_event, irq_wq>> /\ (handler' = handler \/ handler # "wake")
        BY <2>1, <3>3
        DEF EngineNext, Call, EnterRun, RunStep, Spin, Lock, SetId, Offset, WriteData,
            WriteHead, DeviceStep, DspStart, DspFinish, IrqStep, IrqEnter, IrqRespond,
            IrqAck, IrqRelease, IrqGoto, deviceVars
      <4> QED BY <2>0, <2>1, <4>1 DEF consumerVars
    <3> QED BY <3>1, <3>2, <3>3
  <2>2. ASSUME NEW c \in Consumers, ConsumerStep(c) \/ ConsumerRequest(c)
        PROVE  NoLostEventWakeup'
    <3> USE DEF executionVars
    <3>1. CASE PollSleep(c) \/ OutputSleep(c)
      BY <3>1 DEF PollSleep, OutputSleep, engineVars
    <3>2. CASE TerminateEvent(c)
      BY <3>2 DEF TerminateEvent
    <3>3. CASE PollWoken(c) \/ OutputWoken(c)
      <4>1. PICK p \in {"poll", "output"} : call' = [call EXCEPT ![c] = p]
        BY <3>3 DEF PollWoken, OutputWoken, Move
      <4>2. call'[c] \notin Sleeping /\ \A d \in Consumers : d # c => call'[d] = call[d]
        BY <4>1
      <4>3. irq_wq' = irq_wq \cup {c} /\ UNCHANGED <<irq_event, handler>>
        BY <3>3 DEF PollWoken, OutputWoken
      <4> QED BY <2>0, <4>2, <4>3
    <3>4. CASE PollWait(c) \/ OutputWait(c)
      <4>1. PICK p \in {"poll", "output"} : call' = [call EXCEPT ![c] = p]
        BY <3>4 DEF PollWait, OutputWait, Move
      <4>2. call'[c] \notin Sleeping /\ \A d \in Consumers : d # c => call'[d] = call[d]
        BY <4>1
      <4>3. irq_wq' = irq_wq \cup {c} /\ UNCHANGED <<irq_event, handler>>
        BY <3>4 DEF PollWait, OutputWait
      <4> QED BY <2>0, <4>2, <4>3
    <3>5. CASE OpenEvent(c) \/ PollReady(c) \/ PollGiveUp(c) \/ OutputClear(c)
      <4>1. ~irq_event'
        BY <3>5 DEF OpenEvent, PollReady, PollGiveUp, OutputClear
      <4> QED BY <4>1
    <3>7. CASE OutputReady(c) \/ OutputPop(c) \/ TerminateError(c)
      <4>1. PICK p \in {"outputclear", "user"} : call' = [call EXCEPT ![c] = p]
        BY <3>7 DEF OutputReady, OutputPop, TerminateError, Move
      <4>2. call'[c] \notin Sleeping /\ \A d \in Consumers : d # c => call'[d] = call[d]
        BY <4>1
      <4>3. irq_wq' \subseteq irq_wq /\ UNCHANGED <<irq_event, handler>>
        BY <3>7 DEF OutputReady, OutputPop, TerminateError, engineVars
      <4> QED BY <2>0, <4>2, <4>3
    <3>6. CASE OpenResponse(c) \/ Release(c) \/ PollTimeout(c) \/ Read(c)
               \/ OutputNull(c) \/ OutputSignal(c) \/ Identify(c)
      BY <3>6 DEF OpenResponse, Release, PollTimeout, Read, OutputNull, OutputSignal, Identify, Move,
                  engineVars, consumerVars
    <3> QED
      BY <2>2, <3>1, <3>2, <3>3, <3>4, <3>5, <3>6, <3>7
      DEF ConsumerStep, ConsumerRequest, PollStep, OutputStep
  <2>3. CASE UNCHANGED eventVars
    BY <2>0, <2>3 DEF eventVars, engineVars, consumerVars
  <2> QED BY <2>1, <2>2, <2>3 DEF EventNext
<1> QED BY <1>1, <1>2, EventTypes, PTL DEF EventSafety

-----------------------------------------------------------------------------
(* The engine under its consumers                                          *)

ExecutionInv == StageInv /\ DataInv /\ ~Stranded

LEMMA ConsumerKeepsExecution ==
  ASSUME ExecutionInv, UNCHANGED executionVars
  PROVE  ExecutionInv'
<1>1. /\ Filling' = Filling /\ Posted' = Posted /\ Answering' = Answering /\ Alone' = Alone
      /\ UNCHANGED <<run, req, slot, status, dsp_req_id, sram, dsp, irq, completed, handler>>
  BY DEF executionVars, Filling, Posted, Answering, Alone
<1>2. NoWork' = NoWork /\ Stranded' = Stranded
  BY <1>1 DEF NoWork, Stranded
<1> QED BY <1>1, <1>2 DEF ExecutionInv, StageInv, DataInv

(***************************************************************************)
(* Processes that open, poll, read, wait in READ_OUTPUT, send TERMINATE or *)
(* identify the device share the response, the event and the wait queue    *)
(* with the handler, and never disturb a request in execution: whatever    *)
(* they do, one message is in flight, STATUS tells it, and it is intact.   *)
(***************************************************************************)
THEOREM ConsumersLeaveEngineAlone ==
  ASSUME Serialized
  PROVE  EventSafety => [](OneInFlight /\ StatusTracksWork /\ MessageIntact)
<1>1. EventInit => ExecutionInv
  BY EngineInitStage, EngineInitData
  DEF EventInit, EngineInit, ExecutionInv, Stranded
<1>2. EventTypeOK /\ ExecutionInv /\ [EventNext]_eventVars => ExecutionInv'
  <2> SUFFICES ASSUME EngineTypeOK, ExecutionInv, [EventNext]_eventVars
               PROVE  ExecutionInv'
    BY DEF EventTypeOK
  <2>1. ASSUME NEW t \in Threads, NEW r \in Requests, Call(t, r)
        PROVE  ExecutionInv'
    BY <2>1, CallStage, CallData, RunWork DEF Call, ExecutionInv
  <2>2. ASSUME NEW t \in Threads, RunStep(t)
        PROVE  ExecutionInv'
    BY <2>2, RunStepStage, RunStepData, RunWork DEF ExecutionInv
  <2>3. CASE DeviceStep
    BY <2>3, DeviceStepStage, DeviceStepData, DeviceWork DEF ExecutionInv
  <2>4. ASSUME NEW c \in Consumers, ConsumerStep(c) \/ ConsumerRequest(c)
        PROVE  UNCHANGED executionVars
    BY <2>4
    DEF executionVars, engineVars, ConsumerStep, ConsumerRequest, PollStep, OutputStep,
        OpenEvent, PollReady, PollSleep, PollWoken, PollGiveUp, OutputReady, OutputSleep,
        OutputWoken, OutputClear, OutputPop, TerminateError, OpenResponse, Release,
        PollWait, PollTimeout, Read, OutputWait, OutputNull, OutputSignal, TerminateEvent, Identify
  <2>5. UNCHANGED eventVars => UNCHANGED executionVars
    BY DEF eventVars, engineVars, executionVars
  <2> QED
    BY <2>1, <2>2, <2>3, <2>4, <2>5, ConsumerKeepsExecution DEF EventNext, EngineNext
<1>3. ExecutionInv => OneInFlight /\ StatusTracksWork /\ MessageIntact
  BY StageMeansOneInFlight, StageMeansExactStatus, DataMeansIntact
  DEF ExecutionInv
<1> QED BY <1>1, <1>2, <1>3, EventTypes, PTL DEF EventSafety
=============================================================================
