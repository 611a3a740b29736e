-------------------------- MODULE DspDriverProofs --------------------------
(***************************************************************************)
(* Theorems about DspDriver for any requests, any identifiers and any      *)
(* number of other processes: the answer a client reads belongs to its     *)
(* question, nothing is left over when it has read it, and the whole is a  *)
(* remote procedure call.                                                  *)
(*                                                                         *)
(* The argument follows the one request of the client through its places:  *)
(* in the list (which it leaves when its header is written), at the DSP,   *)
(* in the handler before the event, in the event.  It is in one of them at *)
(* a time, and in none when the client may write again.                    *)
(***************************************************************************)
EXTENDS DspDriver, RequestPathProofs, EventChannelProofs

\* The request is with the DSP, or the handler has not released STATUS.
AtDsp == Posted # {} \/ dsp # NoMessage \/ Answering

\* The request is in none of its places.
Over == serviceQueue = <<>> /\ ~AtDsp /\ handler # "event" /\ ~irq_event

PlaceInv ==
  /\ Len(serviceQueue) \in {0, 1}
  /\ serviceQueue # <<>> => ~AtDsp /\ handler # "event" /\ ~irq_event
  /\ AtDsp => handler # "event" /\ ~irq_event
  /\ handler = "event" => ~irq_event
  /\ want = None \/ outcome[Client] = "ready" => Over

\* The response the client would read now, once it is told that it may.
Answer == response = ReqId[want] \/ ("response" \in discarded /\ response = 0)

OwnInv ==
  /\ serviceQueue # <<>> => serviceQueue[1] = want
  /\ \A i \in Posted : sram[i].head = want
  /\ dsp # NoMessage => dsp.head = want
  /\ Answering => completed = want
  /\ want # None /\ (handler \in {"ack", "release", "event"} \/ irq_event \/ Over) => Answer

ClientInv ==
  /\ want \in Maybe
  /\ call[Client] \in {"closed", "opening"} => want = None
  /\ want = None => outcome[Client] # "ready"

DriverInv ==
  /\ EventTypeOK
  /\ StageInv /\ DataInv
  /\ PathInv
  /\ ClientInv
  /\ PlaceInv
  /\ OwnInv

-----------------------------------------------------------------------------
(* The steps of the client and of other processes                          *)

\* None of them moves the request.
LEMMA ConsumerKeepsPlaces ==
  ASSUME DriverInv, UNCHANGED <<queueVars, executionVars>>
  PROVE  /\ StageInv' /\ DataInv' /\ PathInv'
         /\ serviceQueue' = serviceQueue /\ AtDsp' = AtDsp /\ Posted' = Posted
         /\ Answering' = Answering
<1>1. /\ Filling' = Filling /\ Posted' = Posted /\ Answering' = Answering /\ Alone' = Alone
      /\ UNCHANGED <<run, req, slot, status, dsp_req_id, sram, dsp, irq, completed, handler>>
  BY DEF executionVars, Filling, Posted, Answering, Alone
<1>2. NoWork' = NoWork /\ AtDsp' = AtDsp
  BY <1>1 DEF NoWork, AtDsp
<1>3. StageInv' /\ DataInv'
  BY <1>1, <1>2 DEF DriverInv, StageInv, DataInv
<1>4. PathInv' /\ serviceQueue' = serviceQueue
  BY <1>1 DEF queueVars, serviceQueue, DriverInv, PathInv, QueueInv, QueueTypeOK,
     CheckedHasWork, EntryStaysFirst, WorkerInv, RunsEntry, EntriesDiffer
<1> QED BY <1>1, <1>2, <1>3, <1>4

LEMMA ClientCallInv ==
  ASSUME DriverInv,
         ClientOpen \/ ClientRelease \/ ClientPoll \/ ClientTimeout \/ ClientRead
         \/ ((OpenEvent(Client) \/ PollStep(Client)) /\ UNCHANGED <<queueVars, clientVars>>)
  PROVE  DriverInv'
<1> USE DEF ClientOpen, ClientRelease, ClientPoll, ClientTimeout, ClientRead, InUserSpace,
        Move, Tell, clientVars
<1>0. Client \in Consumers
  BY DriverAssumption DEF DriverAssumption
<1>1. UNCHANGED <<queueVars, executionVars>>
  BY DEF OpenResponse, OpenEvent, Release, PollWait, PollStep, PollReady, PollSleep,
         PollWoken, PollGiveUp, PollTimeout, Read, engineVars, executionVars
<1>2. EventTypeOK'
  BY <1>0, ConsumerTypes DEF DriverInv, ConsumerStep, ConsumerRequest
<1>3. /\ StageInv' /\ DataInv' /\ PathInv'
      /\ serviceQueue' = serviceQueue /\ AtDsp' = AtDsp /\ Posted' = Posted
      /\ Answering' = Answering
      /\ UNCHANGED <<run, req, sram, dsp, completed, handler, entry>>
  BY <1>1, ConsumerKeepsPlaces DEF executionVars, queueVars
<1>4. ClientInv'
  BY <1>0 DEF DriverInv, ClientInv, PlaceInv, Over, EventTypeOK, Maybe, OpenResponse,
     OpenEvent, Release, PollWait, PollStep, PollReady, PollSleep, PollWoken, PollGiveUp,
     PollTimeout, Read
<1>5. PlaceInv'
  BY <1>0, <1>3 DEF DriverInv, PlaceInv, Over, EventTypeOK, OpenResponse, OpenEvent, Release,
     PollWait, PollStep, PollReady, PollSleep, PollWoken, PollGiveUp, PollTimeout, Read,
     engineVars
<1>6. OwnInv'
  <2>1. \/ want' = None /\ Over
        \/ want' = want /\ UNCHANGED <<response, discarded>>
           /\ (want # None /\ (irq_event' \/ Over') => irq_event \/ Over)
    BY <1>0, <1>3 DEF DriverInv, ClientInv, PlaceInv, Over, EventTypeOK, OpenResponse,
       OpenEvent, Release, PollWait, PollStep, PollReady, PollSleep, PollWoken, PollGiveUp,
       PollTimeout, Read, engineVars
  <2>2. CASE want' = None /\ Over
    BY <1>3, <2>2 DEF DriverInv, OwnInv, Over, AtDsp
  <2>3. CASE want' = want /\ UNCHANGED <<response, discarded>>
             /\ (want # None /\ (irq_event' \/ Over') => irq_event \/ Over)
    BY <1>3, <2>3 DEF DriverInv, OwnInv, Answer
  <2> QED BY <2>1, <2>2, <2>3
<1> QED BY <1>2, <1>3, <1>4, <1>5, <1>6 DEF DriverInv

LEMMA OtherCallInv ==
  ASSUME DriverInv, NEW p \in Others, OtherOpen(p) \/ OtherIdentify(p) \/ OtherRelease(p)
  PROVE  DriverInv'
<1> USE DEF OtherOpen, OtherIdentify, OtherRelease, ResponseGoes, EventGoes, Discard,
        Move, Tell, clientVars
<1>0. p \in Consumers /\ Client \in Consumers /\ p # Client
  BY DriverAssumption DEF DriverAssumption
<1>1. UNCHANGED <<queueVars, executionVars>>
  BY DEF OpenResponse, OpenEvent, Release, Identify, engineVars, executionVars
<1>2. EventTypeOK'
  BY <1>0, ConsumerTypes DEF DriverInv, ConsumerStep, ConsumerRequest
<1>3. /\ StageInv' /\ DataInv' /\ PathInv'
      /\ serviceQueue' = serviceQueue /\ AtDsp' = AtDsp /\ Posted' = Posted
      /\ Answering' = Answering
      /\ UNCHANGED <<run, req, sram, dsp, completed, handler, entry>>
  BY <1>1, ConsumerKeepsPlaces DEF executionVars, queueVars
<1>4. want' = want /\ outcome'[Client] = outcome[Client] /\ call'[Client] = call[Client]
  BY <1>0 DEF DriverInv, EventTypeOK, OpenResponse, OpenEvent, Release, Identify, consumerVars
<1>5. irq_event' => irq_event
  BY DEF OpenResponse, OpenEvent, Release, Identify, engineVars
<1>6. ClientInv'
  BY <1>4 DEF DriverInv, ClientInv, Maybe
<1>7. PlaceInv'
  <2>1. Over => Over'
    BY <1>3, <1>5 DEF Over
  <2> QED BY <1>3, <1>4, <1>5, <2>1 DEF DriverInv, PlaceInv
<1>8. want # None /\ Answer => Answer'
  BY <1>4 DEF Answer, OpenResponse, OpenEvent, Release, Identify, engineVars
<1>9. OwnInv'
  <2>1. want # None /\ (irq_event' \/ Over') => irq_event \/ Over
    BY <1>3, <1>5 DEF Over
  <2> QED BY <1>3, <1>4, <1>8, <2>1 DEF DriverInv, OwnInv
<1> QED BY <1>2, <1>3, <1>6, <1>7, <1>9 DEF DriverInv

-----------------------------------------------------------------------------
(* The steps on the list                                                   *)

\* What depends on the engine alone, when only the list changes.
LEMMA ListKeepsEngine ==
  ASSUME DriverInv, UNCHANGED <<engineVars, consumerVars>>
  PROVE  /\ EventTypeOK' /\ StageInv' /\ DataInv'
         /\ AtDsp' = AtDsp /\ Posted' = Posted /\ Answering' = Answering
         /\ UNCHANGED <<run, req, sram, dsp, completed, handler, response, irq_event>>
<1>1. /\ Filling' = Filling /\ Posted' = Posted /\ Answering' = Answering /\ Alone' = Alone
      /\ UNCHANGED <<run, req, slot, status, dsp_req_id, sram, dsp, irq, completed, handler,
                     response, irq_event, irq_wq>>
  BY DEF engineVars, Filling, Posted, Answering, Alone
<1>2. NoWork' = NoWork /\ AtDsp' = AtDsp
  BY <1>1 DEF NoWork, AtDsp
<1>3. StageInv' /\ DataInv'
  BY <1>1, <1>2 DEF DriverInv, StageInv, DataInv
<1>4. EventTypeOK'
  BY <1>1, StutterTypeOK DEF DriverInv, EventTypeOK, consumerVars, engineVars
<1> QED BY <1>1, <1>2, <1>3, <1>4

LEMMA ClientWriteInv ==
  ASSUME DriverInv, NEW r \in Requests, ClientWrite(r)
  PROVE  DriverInv'
<1> USE DEF ClientWrite, InUserSpace
<1>1. UNCHANGED <<engineVars, consumerVars>> /\ want = None /\ want' = r /\ thread' = thread
      /\ entry' = entry /\ call[Client] = "user" /\ UNCHANGED <<call, outcome>>
  BY DEF Enqueue, consumerVars
<1>2. /\ EventTypeOK' /\ StageInv' /\ DataInv'
      /\ AtDsp' = AtDsp /\ Posted' = Posted /\ Answering' = Answering
      /\ UNCHANGED <<run, req, sram, dsp, completed, handler, response, irq_event>>
  BY <1>1, ListKeepsEngine
<1>3. Over
  BY <1>1 DEF DriverInv, PlaceInv
<1>4. Len(serviceQueue') = 1 /\ serviceQueue'[1] = r
  <2>1. serviceQueue' = Append(serviceQueue, r) /\ serviceQueue = <<>>
    BY <1>3, QueueOfWrite, DriverAssumption DEF DriverInv, Over, DriverAssumption
  <2>2. <<>> \in Seq(Requests) /\ Len(<<>>) = 0
    BY EmptySeq
  <2> QED BY <2>1, <2>2, AppendProperties
<1>5. PathInv'
  BY PathStep, DriverAssumption DEF DriverInv, EventTypeOK, PathNext, DriverAssumption
<1>6. ClientInv'
  BY <1>1, EngineAssumption DEF ClientInv, Maybe, EngineAssumption
<1>7. outcome[Client] # "ready"
  BY <1>1 DEF DriverInv, ClientInv
<1>8. serviceQueue' # <<>>
  BY <1>4, EmptySeq
<1>9. PlaceInv'
  BY <1>1, <1>2, <1>3, <1>4, <1>7, EngineAssumption
  DEF PlaceInv, Over, EngineAssumption
<1>10. OwnInv'
  <2>1. handler \notin {"ack", "release", "event"} /\ ~irq_event /\ ~Over'
    BY <1>3, <1>8 DEF Over, AtDsp, Answering, DriverInv, StageInv
  <2> QED BY <1>1, <1>2, <1>3, <1>4, <2>1 DEF DriverInv, OwnInv, Over, AtDsp
<1> QED BY <1>2, <1>5, <1>6, <1>9, <1>10 DEF DriverInv

\* Steps on the list that the service does not notice.
LEMMA ListStepInv ==
  ASSUME DriverInv, PathNext, UNCHANGED <<engineVars, consumerVars, clientVars>>,
         serviceQueue' = serviceQueue
  PROVE  DriverInv'
<1>1. want' = want /\ discarded' = discarded /\ outcome' = outcome /\ call' = call
  BY DEF clientVars, consumerVars
<1>2. /\ EventTypeOK' /\ StageInv' /\ DataInv'
      /\ AtDsp' = AtDsp /\ Posted' = Posted /\ Answering' = Answering
      /\ UNCHANGED <<run, req, sram, dsp, completed, handler, response, irq_event>>
  BY ListKeepsEngine
<1>3. PathInv'
  BY PathStep DEF DriverInv, EventTypeOK
<1>4. ClientInv'
  BY <1>1 DEF DriverInv, ClientInv, Maybe
<1>5. Over' = Over
  BY <1>2 DEF Over
<1>6. PlaceInv'
  BY <1>1, <1>2, <1>5 DEF DriverInv, PlaceInv
<1>7. OwnInv'
  BY <1>1, <1>2, <1>5 DEF DriverInv, OwnInv, Answer
<1> QED BY <1>2, <1>3, <1>4, <1>6, <1>7 DEF DriverInv

LEMMA ThreadPickInv ==
  ASSUME Serialized, DriverInv, ThreadPick, Elsewhere
  PROVE  DriverInv'
<1> USE DEF ThreadPick, ThreadGoto, EnterRun, Goto, deviceVars, Elsewhere
<1>1. Head(requests) \in Requests /\ Worker \in Threads
  BY HeadTailProperties, PathAssumption
  DEF DriverInv, PathInv, QueueInv, QueueTypeOK, EntryStaysFirst, PathAssumption
<1>2. \A u \in Threads : u = Worker
  BY PathAssumption, DriverAssumption DEF PathAssumption, DriverAssumption
<1>3. Call(Worker, Head(requests))
  BY <1>2 DEF Call
<1>4. EngineTypeOK
  BY DEF DriverInv, EventTypeOK
<1>5. StageInv' /\ DataInv' /\ EngineTypeOK'
  BY <1>1, <1>3, <1>4, CallStage, CallData, CallTypeOK DEF DriverInv
<1>6. /\ run[Worker] = "out" /\ run'[Worker] = "spin" /\ req'[Worker] = entry'
      /\ Posted' = Posted /\ Answering' = Answering
      /\ UNCHANGED <<sram, dsp, completed, handler, response, irq_event, irq_wq>>
  BY <1>1, <1>4 DEF EngineTypeOK, Posted, Answering
<1>7. want' = want /\ UNCHANGED <<discarded, call, outcome, seen, error>>
  BY DEF clientVars, consumerVars
<1>8. EventTypeOK'
  BY <1>5, <1>6, <1>7 DEF DriverInv, EventTypeOK
<1>9. serviceQueue' = serviceQueue
  BY <1>4, QueueKept DEF DriverInv, ThreadStep
<1>10. PathInv'
  BY <1>4, PathStep DEF DriverInv, PathNext, ThreadStep
<1>11. ClientInv'
  BY <1>7 DEF DriverInv, ClientInv, Maybe
<1>12. AtDsp' = AtDsp /\ Over' = Over
  BY <1>6, <1>9 DEF AtDsp, Over
<1>13. PlaceInv' /\ OwnInv'
  BY <1>6, <1>7, <1>9, <1>12 DEF DriverInv, PlaceInv, OwnInv, Answer
<1> QED BY <1>5, <1>8, <1>10, <1>11, <1>13 DEF DriverInv

LEMMA ThreadInv ==
  ASSUME Serialized, DriverInv, ThreadStep \/ Stop \/ WakeWorker(Client),
         UNCHANGED <<consumerVars, clientVars>>
  PROVE  DriverInv'
<1>1. PathNext
  BY DriverAssumption DEF PathNext, DriverAssumption
<1>2. CASE ThreadPick
  BY <1>2, ThreadPickInv DEF Elsewhere
<1>3. CASE ~ThreadPick
  <2>1. UNCHANGED engineVars
    BY <1>3 DEF ThreadStep, ThreadPrepare, ThreadSleep, ThreadReady, ThreadCheck, ThreadBreak,
                ThreadUnlink, Stop, WakeWorker
  <2>2. serviceQueue' = serviceQueue
    BY QueueKept, DriverAssumption DEF DriverInv, EventTypeOK, DriverAssumption
  <2> QED BY <1>1, <2>1, <2>2, ListStepInv
<1> QED BY <1>2, <1>3

-----------------------------------------------------------------------------
(* The steps of run                                                        *)

LEMMA RunStepInv ==
  ASSUME DriverInv, RunStepInPath(Worker), Elsewhere
  PROVE  DriverInv'
<1> USE DEF RunStepInPath, Elsewhere, Goto, deviceVars
<1>0. EngineTypeOK /\ Worker \in Threads
  BY PathAssumption DEF DriverInv, EventTypeOK, PathAssumption
<1>1. want' = want /\ UNCHANGED <<discarded, call, outcome, seen, error>>
      /\ UNCHANGED <<requests, entry, thread>>
  BY DEF clientVars, consumerVars, queueVars
<1>2. /\ UNCHANGED <<dsp, irq, completed, handler, response, irq_event, irq_wq>>
      /\ Answering' = Answering
  BY DEF RunStep, Spin, Lock, SetId, Offset, WriteData, WriteHead, Answering
<1>3. StageInv' /\ DataInv' /\ EngineTypeOK'
  BY <1>0, RunStepStage, RunStepData, RunStepTypeOK DEF DriverInv
<1>4. EventTypeOK'
  BY <1>1, <1>2, <1>3 DEF DriverInv, EventTypeOK
<1>5. run[Worker] # "out" /\ thread = "run" /\ req[Worker] = entry
  BY <1>0 DEF RunStep, Spin, Lock, SetId, Offset, WriteData, WriteHead,
              DriverInv, PathInv, WorkerInv, RunsEntry
<1>6. PathInv'
  BY <1>0, PathStep DEF DriverInv, PathNext
<1>7. ClientInv'
  BY <1>1 DEF DriverInv, ClientInv, Maybe
<1>8. CASE Spin(Worker) \/ Lock(Worker) \/ SetId(Worker) \/ Offset(Worker) \/ WriteData(Worker)
  <2>1. run'[Worker] # "out" /\ req' = req
    BY <1>0, <1>8 DEF Spin, Lock, SetId, Offset, WriteData, EngineTypeOK
  <2>2. \A i \in ReqIds : sram'[i].head = sram[i].head
    BY <1>0, <1>8 DEF Spin, Lock, SetId, Offset, WriteData, EngineTypeOK, Message
  <2>3. Posted' = Posted
    BY <2>2 DEF Posted
  <2>4. serviceQueue' = serviceQueue
    BY <1>0, <1>8, <2>1, QueueKept DEF DriverInv, WriteHead, EngineTypeOK
  <2>5. AtDsp' = AtDsp /\ Over' = Over
    BY <1>2, <2>3, <2>4 DEF AtDsp, Over
  <2>6. PlaceInv'
    BY <1>1, <1>2, <2>4, <2>5 DEF DriverInv, PlaceInv
  <2>7. \A i \in Posted' : sram'[i].head = want
    BY <2>2, <2>3 DEF DriverInv, OwnInv, Posted
  <2>8. OwnInv'
    <3>1. want # None /\ (handler' \in {"ack", "release", "event"} \/ irq_event' \/ Over')
            => Answer'
      BY <1>1, <1>2, <2>5 DEF DriverInv, OwnInv, Answer
    <3>2. serviceQueue' # <<>> => serviceQueue'[1] = want'
      BY <1>1, <2>4 DEF DriverInv, OwnInv
    <3>3. /\ dsp' # NoMessage => dsp'.head = want'
          /\ Answering' => completed' = want'
      BY <1>1, <1>2 DEF DriverInv, OwnInv
    <3> QED BY <1>1, <2>7, <3>1, <3>2, <3>3 DEF OwnInv
  <2> QED BY <1>3, <1>4, <1>6, <1>7, <2>6, <2>8 DEF DriverInv
<1>9. CASE WriteHead(Worker)
  <2>1. run[Worker] = "head" /\ run'[Worker] = "out" /\ slot[Worker] \in ReqIds
    BY <1>0, <1>9 DEF WriteHead, EngineTypeOK
  <2>2. serviceQueue # <<>> /\ serviceQueue[1] = entry /\ serviceQueue' = <<>>
    <3>1. /\ serviceQueue # <<>> /\ Head(serviceQueue) = entry
          /\ serviceQueue' = Tail(serviceQueue)
      BY <1>0, <1>5, <1>9, QueueOfHeader DEF DriverInv
    <3>2. serviceQueue \in Seq(Requests) /\ Len(serviceQueue) \in {0, 1}
      BY <1>1, <2>1, <1>5 DEF DriverInv, PlaceInv, PathInv, QueueInv, QueueTypeOK, serviceQueue
    <3>3. Len(serviceQueue) = 1
      BY <3>1, <3>2, EmptySeq
    <3>4. Tail(serviceQueue) \in Seq(Requests) /\ Len(Tail(serviceQueue)) = 0
      BY <3>1, <3>2, <3>3, HeadTailProperties
    <3> QED BY <3>1, <3>2, <3>3, <3>4, EmptySeq
  <2>3. ~AtDsp /\ handler # "event" /\ ~irq_event /\ want = entry
    BY <2>2 DEF DriverInv, PlaceInv, OwnInv
  <2>4. handler \notin {"ack", "release"} /\ ~Answering /\ Posted = {} /\ dsp = NoMessage
    BY <2>3 DEF AtDsp, Answering, DriverInv, StageInv
  <2>5. /\ sram'[slot[Worker]].head = entry
        /\ \A i \in ReqIds : i # slot[Worker] => sram'[i] = sram[i]
    BY <1>0, <1>5, <1>9, <2>1 DEF WriteHead, EngineTypeOK, Message
  <2>6. slot[Worker] \in Posted' /\ \A i \in Posted' : sram'[i].head = want
    <3>1. entry # None
      BY <1>0, <1>5, EngineAssumption DEF EngineTypeOK, EngineAssumption
    <3> QED BY <2>1, <2>3, <2>4, <2>5, <3>1 DEF Posted
  <2>7. AtDsp' /\ ~Over'
    BY <2>6 DEF AtDsp, Over
  <2>8. PlaceInv'
    <3>1. ~(want = None \/ outcome[Client] = "ready") /\ Len(<<>>) = 0
      BY <2>2, EmptySeq DEF DriverInv, PlaceInv, Over
    <3> QED BY <1>1, <1>2, <2>2, <2>3, <2>7, <3>1 DEF PlaceInv
  <2>9. OwnInv'
    BY <1>1, <1>2, <2>1, <2>2, <2>3, <2>4, <2>6, <2>7 DEF OwnInv
  <2> QED BY <1>3, <1>4, <1>6, <1>7, <2>8, <2>9 DEF DriverInv
<1> QED BY <1>8, <1>9 DEF RunStep

-----------------------------------------------------------------------------
(* The steps of the device                                                 *)

LEMMA DeviceInv ==
  ASSUME DriverInv, DeviceStep, UNCHANGED queueVars, Elsewhere
  PROVE  DriverInv'
<1> USE DEF Elsewhere, IrqGoto, callVars
<1>0. EngineTypeOK
  BY DEF DriverInv, EventTypeOK
<1>1. want' = want /\ UNCHANGED <<discarded, call, outcome, seen, error, entry>>
  BY DEF clientVars, consumerVars, queueVars
<1>2. UNCHANGED <<run, req>> /\ irq_wq' \in {irq_wq, {}}
  BY DEF DeviceStep, DspStart, DspFinish, IrqStep, IrqEnter, IrqRespond, IrqAck, IrqRelease,
         IrqEvent, IrqWake
<1>3. StageInv' /\ DataInv' /\ EngineTypeOK'
  BY <1>0, DeviceStepStage, DeviceStepData, DeviceStepTypeOK DEF DriverInv
<1>4. EventTypeOK'
  BY <1>1, <1>2, <1>3 DEF DriverInv, EventTypeOK
<1>5. PathInv' /\ serviceQueue' = serviceQueue
  BY <1>0, PathStep, QueueKept DEF DriverInv, PathNext, DeviceStepInPath
<1>6. ClientInv'
  BY <1>1 DEF DriverInv, ClientInv, Maybe
\* It is enough to follow the request; the rest is above.
<1>7. ASSUME PlaceInv', \A i \in Posted' : sram'[i].head = want,
             dsp' # NoMessage => dsp'.head = want,
             Answering' => completed' = want,
             want # None /\ (handler' \in {"ack", "release", "event"} \/ irq_event' \/ Over')
               => Answer'
      PROVE  DriverInv'
  <2>1. OwnInv'
    BY <1>1, <1>2, <1>5, <1>7 DEF DriverInv, OwnInv
  <2> QED BY <1>3, <1>4, <1>5, <1>6, <1>7, <2>1 DEF DriverInv
<1>8. ASSUME NEW i \in ReqIds, DspStart(i) PROVE DriverInv'
  <2>1. i \in Posted /\ Posted = {i} /\ ~Answering /\ sram[i].head = want
    BY <1>8 DEF DspStart, Posted, DriverInv, StageInv, OwnInv
  <2>2. \A j \in ReqIds : sram'[j].head = (IF j = i THEN None ELSE sram[j].head)
    BY <1>0, <1>8 DEF DspStart, EngineTypeOK, Message
  <2>3. Posted' = {} /\ dsp'.head = want /\ dsp' # NoMessage
    BY <1>8, <2>1, <2>2 DEF Posted, DspStart, NoMessage
  <2>4. Answering' = Answering /\ UNCHANGED <<handler, irq_event, response>>
    BY <1>8 DEF DspStart, Answering
  <2>5. AtDsp /\ AtDsp' /\ ~Over /\ ~Over'
    BY <2>1, <2>3 DEF AtDsp, Over
  <2>6. PlaceInv'
    BY <1>1, <1>5, <2>4, <2>5 DEF DriverInv, PlaceInv
  <2>7. want # None /\ (handler' \in {"ack", "release", "event"} \/ irq_event' \/ Over')
          => Answer'
    BY <1>1, <2>4, <2>5 DEF DriverInv, OwnInv, Answer
  <2> QED BY <1>7, <2>1, <2>3, <2>4, <2>6, <2>7
<1>9. CASE DspFinish
  <2>1. /\ dsp # NoMessage /\ dsp.head = want /\ Posted = {} /\ ~Answering
        /\ handler \notin {"ack", "release"}
    BY <1>9 DEF DspFinish, DriverInv, StageInv, OwnInv, Answering
  <2>2. Posted' = Posted /\ dsp' = NoMessage /\ completed' = want /\ Answering'
        /\ UNCHANGED <<handler, irq_event, response>>
    BY <1>9, <2>1 DEF DspFinish, Posted, Answering
  <2>3. AtDsp /\ AtDsp' /\ ~Over /\ ~Over'
    BY <2>1, <2>2 DEF AtDsp, Over
  <2>4. PlaceInv'
    BY <1>1, <1>5, <2>2, <2>3 DEF DriverInv, PlaceInv
  <2>5. handler # "event" /\ ~irq_event
    BY <2>3 DEF DriverInv, PlaceInv
  <2> QED BY <1>7, <2>1, <2>2, <2>3, <2>4, <2>5
<1>10. CASE IrqEnter \/ IrqRespond \/ IrqAck
  <2>1. Answering /\ completed = want /\ AtDsp /\ Posted = {} /\ dsp = NoMessage
        /\ (IrqRespond \/ IrqAck => irq)
    BY <1>10 DEF IrqEnter, IrqRespond, IrqAck, DriverInv, StageInv, OwnInv, Answering, AtDsp
  <2>2. Posted' = Posted /\ dsp' = dsp /\ completed' = want /\ Answering'
        /\ irq_event' = irq_event /\ handler' \in {"respond", "ack", "release"}
    BY <1>10, <2>1 DEF IrqEnter, IrqRespond, IrqAck, Posted, Answering
  <2>3. AtDsp' /\ ~Over /\ ~Over'
    BY <2>1, <2>2 DEF AtDsp, Over
  <2>4. PlaceInv'
    BY <1>1, <1>5, <2>1, <2>2, <2>3 DEF DriverInv, PlaceInv
  <2>5. ~irq_event /\ dsp_req_id = ReqId[want]
    BY <2>1 DEF DriverInv, PlaceInv, DataInv
  <2>6. want # None /\ (handler' \in {"ack", "release", "event"} \/ irq_event' \/ Over')
          => Answer'
    BY <1>1, <1>10, <2>2, <2>3, <2>5
    DEF IrqEnter, IrqRespond, IrqAck, DriverInv, OwnInv, Answer
  <2> QED BY <1>7, <2>1, <2>2, <2>4, <2>6
<1>11. CASE IrqRelease
  <2>1. Answering /\ ~irq /\ AtDsp /\ Posted = {} /\ dsp = NoMessage
    BY <1>11 DEF IrqRelease, DriverInv, StageInv, Answering, AtDsp
  <2>2. Posted' = Posted /\ dsp' = dsp /\ ~Answering' /\ handler' = "event"
        /\ irq_event' = irq_event /\ response' = response
    BY <1>11, <2>1 DEF IrqRelease, Posted, Answering
  <2>3. ~AtDsp' /\ ~Over /\ ~Over'
    BY <2>1, <2>2 DEF AtDsp, Over
  <2>4. PlaceInv'
    BY <1>1, <1>5, <2>1, <2>2, <2>3 DEF DriverInv, PlaceInv
  <2>5. want # None => Answer'
    BY <1>1, <1>11, <2>2 DEF IrqRelease, DriverInv, OwnInv, Answer
  <2> QED BY <1>7, <2>1, <2>2, <2>4, <2>5
<1>12. CASE IrqEvent
  <2>1. handler = "event" /\ ~AtDsp /\ ~irq_event /\ serviceQueue = <<>> /\ ~Over
    BY <1>12 DEF IrqEvent, DriverInv, PlaceInv, Over
  <2>2. /\ Posted' = Posted /\ dsp' = dsp /\ Answering' = Answering /\ handler' = "wake"
        /\ irq_event' /\ response' = response
    BY <1>12, <2>1 DEF IrqEvent, Posted, Answering
  <2>3. ~AtDsp' /\ ~Over'
    BY <2>1, <2>2 DEF AtDsp, Over
  <2>4. PlaceInv'
    BY <1>1, <1>5, <2>1, <2>2, <2>3 DEF DriverInv, PlaceInv
  <2>5. Posted = {} /\ dsp = NoMessage /\ ~Answering
    BY <2>1 DEF AtDsp
  <2>6. want # None => Answer'
    BY <1>1, <2>1, <2>2 DEF DriverInv, OwnInv, Answer
  <2> QED BY <1>7, <2>2, <2>4, <2>5, <2>6
<1>13. CASE IrqWake
  <2>1. /\ Posted' = Posted /\ dsp' = dsp /\ Answering' = Answering /\ handler = "wake"
        /\ handler' = "idle" /\ UNCHANGED <<sram, completed, irq_event, response>>
    BY <1>13 DEF IrqWake, Posted, Answering
  <2>2. AtDsp' = AtDsp /\ Over' = Over
    BY <1>5, <2>1 DEF AtDsp, Over
  <2>3. PlaceInv'
    BY <1>1, <1>5, <2>1, <2>2 DEF DriverInv, PlaceInv
  <2>4. want # None /\ (handler' \in {"ack", "release", "event"} \/ irq_event' \/ Over')
          => Answer'
    BY <1>1, <2>1, <2>2 DEF DriverInv, OwnInv, Answer
  <2> QED BY <1>7, <2>1, <2>3, <2>4 DEF DriverInv, OwnInv
<1> QED BY <1>8, <1>9, <1>10, <1>11, <1>12, <1>13 DEF DeviceStep, IrqStep

-----------------------------------------------------------------------------
(* The invariant and what follows from it                                  *)

LEMMA DriverInitInv == DriverInit => DriverInv
<1> SUFFICES ASSUME DriverInit PROVE DriverInv
  OBVIOUS
<1> USE DEF DriverInit, PathInit
<1>0. Client \in Consumers /\ Worker \in Threads
  BY DriverAssumption, PathAssumption DEF DriverAssumption, PathAssumption
<1>1. EngineTypeOK /\ StageInv /\ DataInv
  BY EngineInitTypeOK, EngineInitStage, EngineInitData
<1>2. EventTypeOK
  BY <1>1 DEF EventInit, EngineInit, EventTypeOK, Sleeping
<1>3. requests = <<>> /\ requests \in Seq(Requests) /\ Len(requests) = 0
  BY EmptySeq
<1>4. PathInv
  BY PathInitInv
<1>5. ClientInv
  BY <1>0 DEF ClientInv, Maybe, EventInit
<1>6. serviceQueue = <<>> /\ Posted = {} /\ dsp = NoMessage /\ ~Answering
  BY <1>3 DEF serviceQueue, Posted, Answering, EngineInit, NoMessage
<1>7. PlaceInv
  BY <1>3, <1>6 DEF PlaceInv, Over, AtDsp, EngineInit
<1>8. OwnInv
  BY <1>0, <1>6 DEF OwnInv, EngineInit
<1> QED BY <1>1, <1>2, <1>4, <1>5, <1>7, <1>8 DEF DriverInv

LEMMA DriverInvHolds ==
  ASSUME Serialized
  PROVE  DriverSpec => []DriverInv
<1>1. DriverInv /\ [DriverNext]_driverVars => DriverInv'
  <2> SUFFICES ASSUME DriverInv, [DriverNext]_driverVars
               PROVE  DriverInv'
    OBVIOUS
  <2>1. CASE UNCHANGED driverVars
    <3>1. UNCHANGED <<queueVars, executionVars, engineVars, consumerVars, clientVars>>
      BY <2>1 DEF driverVars, engineVars, executionVars
    <3>2. StageInv' /\ DataInv' /\ PathInv' /\ EventTypeOK'
      BY <3>1, ConsumerKeepsPlaces, ListKeepsEngine
    <3>3. UNCHANGED <<want, discarded, call, outcome, run, req, entry, sram, dsp, completed,
                      handler, response, irq_event>>
      BY <3>1 DEF clientVars, consumerVars, queueVars, engineVars
    <3>4. /\ serviceQueue' = serviceQueue /\ AtDsp' = AtDsp /\ Posted' = Posted
          /\ Answering' = Answering
      BY <3>1, ConsumerKeepsPlaces
    <3>5. Over' = Over
      BY <3>3, <3>4 DEF Over
    <3>6. ClientInv' /\ PlaceInv' /\ OwnInv'
      BY <3>3, <3>4, <3>5 DEF DriverInv, ClientInv, PlaceInv, OwnInv, Answer, Maybe
    <3> QED BY <3>2, <3>6 DEF DriverInv
  <2>2. CASE WakeWorker(Client) /\ UNCHANGED <<consumerVars, clientVars>>
    BY <2>2, ThreadInv
  <2>3. CASE (ThreadStep \/ Stop) /\ Elsewhere
    BY <2>3, ThreadInv DEF Elsewhere
  <2>4. CASE DeviceStepInPath /\ Elsewhere
    BY <2>4, DeviceInv DEF DeviceStepInPath
  <2> QED
    BY <2>1, <2>2, <2>3, <2>4, ClientCallInv, ClientWriteInv, OtherCallInv, RunStepInv
    DEF DriverNext, ClientStep
<1> QED BY <1>1, DriverInitInv, PTL DEF DriverSpec

(***************************************************************************)
(* When the client has read its answer, or has not yet asked, no request   *)
(* that could still be answered is anywhere in the driver or at the DSP.   *)
(***************************************************************************)
THEOREM DriverAtRest ==
  ASSUME Serialized
  PROVE  DriverSpec => []NothingLeftOver
<1>1. DriverInv => NothingLeftOver
  <2> SUFFICES ASSUME DriverInv, want = None
               PROVE  InFlight = {} /\ serviceQueue = <<>> /\ ~irq_event
    BY DEF NothingLeftOver
  <2>1. Over
    BY DEF DriverInv, PlaceInv
  <2>2. Filling = {}
    <3>1. \A t \in Threads : t = Worker
      BY PathAssumption, DriverAssumption DEF PathAssumption, DriverAssumption
    <3>2. run[Worker] # "out" => serviceQueue # <<>>
      BY DEF DriverInv, PathInv, WorkerInv, QueueInv, EntryStaysFirst, serviceQueue
    <3> QED BY <2>1, <3>1, <3>2 DEF Filling, Over
  <2> QED BY <2>1, <2>2 DEF Over, AtDsp, InFlight
<1> QED BY <1>1, DriverInvHolds, PTL

(***************************************************************************)
(* What the client reads is the response to the request it wrote, or, when *)
(* another process has discarded it, nothing: never the response to an     *)
(* earlier request, for any number of requests and of other processes.     *)
(***************************************************************************)
THEOREM ResponsesAreOwn ==
  ASSUME Serialized
  PROVE  DriverSpec => OwnResponse
<1>1. DriverInv /\ [DriverNext]_driverVars =>
        [want # None /\ want' = None =>
           \/ seen'[Client] = ReqId[want]
           \/ "response" \in discarded /\ seen'[Client] = 0]_driverVars
  <2> SUFFICES ASSUME DriverInv, DriverNext, want # None, want' = None
               PROVE  \/ seen'[Client] = ReqId[want]
                      \/ "response" \in discarded /\ seen'[Client] = 0
    OBVIOUS
  <2>1. ClientRead
    BY EngineAssumption
    DEF DriverNext, ClientOpen, ClientRelease, ClientPoll, ClientTimeout, ClientStep,
        ClientWrite, OtherOpen, OtherIdentify, OtherRelease, ResponseGoes, EventGoes,
        Discard, Elsewhere, clientVars, EngineAssumption
  <2>2. Over /\ Answer
    BY <2>1 DEF ClientRead, DriverInv, PlaceInv, OwnInv
  <2>3. seen'[Client] = response
    BY <2>1, DriverAssumption
    DEF ClientRead, Read, DriverAssumption, DriverInv, EventTypeOK
  <2> QED BY <2>2, <2>3 DEF Answer
<1> QED BY <1>1, DriverInvHolds, PTL DEF DriverSpec, OwnResponse

-----------------------------------------------------------------------------
(***************************************************************************)
(* DspDriver implements RemoteCall.  Under the invariant the phase of the  *)
(* abstract call is the place of the request, so that it is enough to      *)
(* follow the places of the proof above.                                   *)
(***************************************************************************)

\* The request waits in the list, is at the DSP, or in the handler.
Pending == serviceQueue # <<>> \/ AtDsp

Replied == handler \in {"ack", "release", "event"} \/ irq_event

PhaseByPlace ==
  IF want = None THEN "idle"
  ELSE IF outcome[Client] = "ready" THEN "told"
  ELSE IF Replied THEN "answered"
  ELSE IF Pending THEN "asked"
  ELSE "missed"

\* A message that is being filled belongs to an entry in the list.
LEMMA Phase ==
  ASSUME DriverInv
  PROVE  callPhase = PhaseByPlace
<1>1. \A t \in Threads : t = Worker
  BY PathAssumption, DriverAssumption DEF PathAssumption, DriverAssumption
<1>2. run[Worker] # "out" => serviceQueue # <<>>
  BY DEF DriverInv, PathInv, WorkerInv, QueueInv, EntryStaysFirst, serviceQueue
<1>3. Filling # {} => serviceQueue # <<>>
  BY <1>1, <1>2 DEF Filling
<1>4. InFlight # {} <=> Filling # {} \/ AtDsp
  BY DEF InFlight, AtDsp
<1> QED BY <1>3, <1>4 DEF callPhase, PhaseByPlace, Replied, Pending

LEMMA PhaseAfter ==
  ASSUME DriverInv'
  PROVE  callPhase' = PhaseByPlace'
<1>1. \A t \in Threads : t = Worker
  BY PathAssumption, DriverAssumption DEF PathAssumption, DriverAssumption
<1>2. run'[Worker] # "out" => serviceQueue' # <<>>
  BY DEF DriverInv, PathInv, WorkerInv, QueueInv, EntryStaysFirst, serviceQueue
<1>3. Filling' # {} => serviceQueue' # <<>>
  BY <1>1, <1>2 DEF Filling
<1>4. InFlight' # {} <=> Filling' # {} \/ AtDsp'
  BY DEF InFlight, AtDsp
<1> QED BY <1>3, <1>4 DEF callPhase, PhaseByPlace, Replied, Pending

\* Where the request may be when the client has been told, and when it has
\* not; in the handler before the response it is still at the DSP.
LEMMA Places ==
  ASSUME DriverInv
  PROVE  /\ want = None \/ outcome[Client] = "ready" => ~Pending /\ ~Replied
         /\ irq_event => ~Pending /\ handler \notin {"ack", "release", "event"}
         /\ handler \in {"respond", "ack"} => irq /\ Pending
BY DEF DriverInv, PlaceInv, Over, Pending, Replied, AtDsp, Answering, StageInv

\* A step that leaves the call where it is.
LEMMA CallKept ==
  ASSUME DriverInv, DriverInv', PhaseByPlace' = PhaseByPlace,
         want = None \/ response' = response,
         UNCHANGED <<want, seen, stop>>
  PROVE  UNCHANGED Remote!callStateVars
<1>1. callPhase' = callPhase
  BY Phase, PhaseAfter
<1>2. want = None => callPhase = "idle"
  BY DEF callPhase
<1>3. callAnswer' = callAnswer
  BY <1>1, <1>2 DEF callAnswer
<1> QED BY <1>1, <1>3 DEF Remote!callStateVars

\* For a step that changes neither the client's outcome nor the handler's work.
LEMMA PhaseKept ==
  ASSUME UNCHANGED <<want, outcome>>, Replied' = Replied, Pending' = Pending
  PROVE  PhaseByPlace' = PhaseByPlace
BY DEF PhaseByPlace

LEMMA ClientServes ==
  ASSUME DriverInv, DriverInv',
         ClientOpen \/ ClientRelease \/ ClientPoll \/ ClientTimeout \/ ClientRead
         \/ ((OpenEvent(Client) \/ PollStep(Client)) /\ UNCHANGED <<queueVars, clientVars>>)
  PROVE  [Remote!CallNext]_(Remote!callStateVars)
<1> USE DEF ClientOpen, ClientRelease, ClientPoll, ClientTimeout, ClientRead, InUserSpace,
        Move, Tell, clientVars
<1>0. Client \in Consumers /\ EventTypeOK /\ stop' = stop
  BY DriverAssumption
  DEF DriverAssumption, DriverInv, queueVars
<1>1. UNCHANGED <<queueVars, executionVars>>
  BY DEF OpenResponse, OpenEvent, Release, PollWait, PollStep, PollReady, PollSleep,
         PollWoken, PollGiveUp, PollTimeout, Read, engineVars, executionVars
<1>2. Pending' = Pending /\ handler' = handler
  BY <1>1, ConsumerKeepsPlaces DEF Pending, executionVars
<1>3. CASE ClientOpen \/ ClientRelease \/ OpenEvent(Client)
  <2>1. want = None /\ want' = None /\ seen' = seen
    BY <1>3 DEF DriverInv, ClientInv, OpenResponse, OpenEvent, Release, PollStep, PollReady,
       PollSleep, PollWoken, PollGiveUp
  <2>2. PhaseByPlace = "idle" /\ PhaseByPlace' = "idle"
    BY <2>1 DEF PhaseByPlace
  <2> QED BY <1>0, <2>1, <2>2, CallKept
<1>4. CASE ClientPoll \/ ClientTimeout \/ PollSleep(Client) \/ PollWoken(Client)
           \/ PollGiveUp(Client)
  <2>1. UNCHANGED <<want, seen, response, irq_event>>
    BY <1>4 DEF OpenEvent, PollWait, PollStep, PollReady, PollSleep, PollWoken, PollGiveUp,
       PollTimeout, engineVars
  <2>2. outcome'[Client] = "ready" <=> outcome[Client] = "ready"
    BY <1>0, <1>4 DEF EventTypeOK, PollWait, PollSleep, PollWoken, PollGiveUp, PollTimeout
  <2>3. PhaseByPlace' = PhaseByPlace
    BY <1>2, <2>1, <2>2 DEF PhaseByPlace, Replied
  <2> QED BY <1>0, <2>1, <2>3, CallKept
<1>5. CASE PollReady(Client) /\ UNCHANGED <<queueVars, clientVars>>
  <2>1. irq_event /\ UNCHANGED <<want, seen, response>> /\ outcome'[Client] = "ready"
    BY <1>0, <1>5 DEF PollReady, EventTypeOK
  <2>2. want # None /\ outcome[Client] # "ready" /\ Replied
    BY <2>1, Places DEF Replied
  <2>3. callPhase = "answered" /\ callPhase' = "told"
    BY <2>1, <2>2, Phase, PhaseAfter DEF PhaseByPlace
  <2>4. callAnswer' = callAnswer
    BY <2>1, <2>3 DEF callAnswer
  <2> QED BY <1>0, <2>1, <2>3, <2>4 DEF Remote!CallNext, Remote!Notice, Remote!Goes
<1>6. CASE ClientRead
  <2>1. outcome[Client] = "ready" /\ want' = None /\ seen'[Client] = response
    BY <1>0, <1>6 DEF Read, EventTypeOK
  <2>2. want # None
    BY <2>1 DEF DriverInv, ClientInv
  <2>3. callPhase = "told" /\ callPhase' = "idle"
    BY <2>1, <2>2 DEF callPhase
  <2>4. callAnswer = response /\ callAnswer' = 0
    BY <2>3 DEF callAnswer
  <2> QED BY <1>0, <2>1, <2>3, <2>4 DEF Remote!CallNext, Remote!Hear, Remote!Goes
<1> QED BY <1>3, <1>4, <1>5, <1>6 DEF PollStep

LEMMA ClientWriteServes ==
  ASSUME DriverInv, DriverInv', NEW r \in Requests, ClientWrite(r)
  PROVE  [Remote!CallNext]_(Remote!callStateVars)
<1>1. want = None /\ want' = r /\ r # None
      /\ UNCHANGED <<engineVars, seen, outcome, stop>>
  BY EngineAssumption DEF ClientWrite, Enqueue, consumerVars, EngineAssumption
<1>2. outcome'[Client] # "ready" /\ ~Replied /\ Replied' = Replied
  BY <1>1, Places DEF DriverInv, ClientInv, Replied, engineVars
<1>3. Len(serviceQueue) = 0 /\ serviceQueue' = Append(serviceQueue, r)
      /\ serviceQueue \in Seq(Requests)
  <2>1. serviceQueue = <<>>
    BY <1>1, Places DEF Pending
  <2>2. serviceQueue' = Append(serviceQueue, r)
    BY QueueOfWrite, DriverAssumption DEF DriverInv, DriverAssumption, ClientWrite
  <2> QED BY <2>1, <2>2, EmptySeq
<1>4. Pending'
  BY <1>3, AppendProperties, EmptySeq DEF Pending
<1>5. callPhase = "idle" /\ callPhase' = "asked"
  BY <1>1, <1>2, <1>4, Phase, PhaseAfter DEF PhaseByPlace
<1>6. callAnswer = 0 /\ callAnswer' = 0
  BY <1>5 DEF callAnswer
<1> QED BY <1>1, <1>5, <1>6 DEF Remote!CallNext, Remote!Ask, Remote!Goes

LEMMA OtherServes ==
  ASSUME DriverInv, DriverInv', NEW p \in Others,
         OtherOpen(p) \/ OtherIdentify(p) \/ OtherRelease(p)
  PROVE  [Remote!CallNext]_(Remote!callStateVars)
<1> USE DEF OtherOpen, OtherIdentify, OtherRelease, ResponseGoes, EventGoes, Discard,
        Move, Tell, clientVars
<1>0. p \in Consumers /\ Client \in Consumers /\ p # Client /\ EventTypeOK
  BY DriverAssumption DEF DriverAssumption, DriverInv
<1>1. UNCHANGED <<queueVars, executionVars>>
  BY DEF OpenResponse, OpenEvent, Release, Identify, engineVars, executionVars
<1>2. Pending' = Pending /\ handler' = handler
  BY <1>1, ConsumerKeepsPlaces DEF Pending, executionVars
<1>3. UNCHANGED <<want, seen, stop>> /\ outcome'[Client] = outcome[Client]
  <2>1. UNCHANGED <<want, seen, stop>>
    BY DEF OpenResponse, OpenEvent, Release, Identify, consumerVars, queueVars
  <2>2. outcome' = outcome \/ outcome' = [outcome EXCEPT ![p] = "none"]
    BY DEF OpenResponse, OpenEvent, Release, Identify, consumerVars
  <2>3. outcome'[Client] = outcome[Client]
    BY <1>0, <2>2 DEF EventTypeOK
  <2> QED BY <2>1, <2>3
<1>4. CASE irq_event' = irq_event /\ response' = response
  <2>1. PhaseByPlace' = PhaseByPlace
    BY <1>2, <1>3, <1>4 DEF PhaseByPlace, Replied
  <2> QED BY <1>3, <1>4, <2>1, CallKept
<1>5. CASE irq_event' = irq_event /\ response' = 0
  <2>1. PhaseByPlace' = PhaseByPlace
    BY <1>2, <1>3, <1>5 DEF PhaseByPlace, Replied
  <2>2. callPhase' = callPhase
    BY <2>1, Phase, PhaseAfter
  <2>3. callAnswer' = 0
    BY <1>5 DEF callAnswer
  <2>4. callPhase \in {"answered", "told", "missed"} \/ callAnswer = 0
    BY DEF callAnswer
  <2> QED BY <1>3, <2>2, <2>3, <2>4 DEF Remote!CallNext, Remote!Forget, Remote!callStateVars
<1>6. CASE irq_event /\ irq_event' = FALSE /\ response' = response
  <2>1. ~Pending /\ ~Replied' /\ Replied
    BY <1>2, <1>6, Places DEF Replied
  <2>2. want # None /\ outcome[Client] # "ready"
    BY <2>1, Places
  <2>3. callPhase = "answered" /\ callPhase' = "missed"
    BY <1>2, <1>3, <2>1, <2>2, Phase, PhaseAfter DEF PhaseByPlace
  <2>4. callAnswer' = callAnswer
    BY <1>6, <2>3 DEF callAnswer
  <2> QED BY <1>3, <2>3, <2>4 DEF Remote!CallNext, Remote!Miss, Remote!Goes
<1>7. \/ irq_event' = irq_event /\ response' = response
      \/ irq_event' = irq_event /\ response' = 0
      \/ irq_event' = FALSE /\ response' = response
  BY DEF OpenResponse, OpenEvent, Release, Identify, engineVars
<1>8. irq_event \in BOOLEAN
  BY <1>0 DEF EventTypeOK, EngineTypeOK
<1> QED BY <1>4, <1>5, <1>6, <1>7, <1>8

LEMMA ThreadServes ==
  ASSUME DriverInv, DriverInv', ThreadStep \/ Stop \/ WakeWorker(Client),
         UNCHANGED <<consumerVars, clientVars>>
  PROVE  [Remote!CallNext]_(Remote!callStateVars)
<1>1. UNCHANGED <<want, seen, outcome>>
  BY DEF clientVars, consumerVars
<1>2. UNCHANGED <<sram, dsp, irq, handler, response, irq_event>>
  BY DEF ThreadStep, ThreadPrepare, ThreadSleep, ThreadReady, ThreadCheck, ThreadBreak,
         ThreadPick, ThreadUnlink, EnterRun, deviceVars, Stop, WakeWorker, engineVars
<1>3. serviceQueue' = serviceQueue
  BY QueueKept, DriverAssumption DEF DriverInv, EventTypeOK, DriverAssumption
<1>4. Replied' = Replied /\ Pending' = Pending
  BY <1>2, <1>3 DEF Replied, Pending, AtDsp, Posted, Answering
<1>5. PhaseByPlace' = PhaseByPlace
  BY <1>1, <1>4, PhaseKept
<1>6. CASE Stop
  <2>1. callPhase' = callPhase /\ callAnswer' = callAnswer
    BY <1>2, <1>5, Phase, PhaseAfter DEF callAnswer
  <2>2. ~stop /\ stop' = TRUE
    BY <1>6 DEF Stop
  <2> QED BY <1>1, <2>1, <2>2 DEF Remote!CallNext, Remote!Close
<1>7. CASE ThreadStep \/ WakeWorker(Client)
  <2>1. stop' = stop
    BY <1>7 DEF ThreadStep, ThreadPrepare, ThreadSleep, ThreadReady, ThreadCheck, ThreadBreak,
                ThreadPick, ThreadUnlink, WakeWorker
  <2> QED BY <1>1, <1>2, <1>5, <2>1, CallKept
<1> QED BY <1>6, <1>7

\* The client's request is with run before and at the DSP after.
LEMMA RunStepServesCall ==
  ASSUME DriverInv, DriverInv', RunStepInPath(Worker), Elsewhere
  PROVE  [Remote!CallNext]_(Remote!callStateVars)
<1> USE DEF RunStepInPath, Elsewhere, Goto, deviceVars
<1>0. EngineTypeOK /\ Worker \in Threads
  BY PathAssumption DEF DriverInv, EventTypeOK, PathAssumption
<1>1. UNCHANGED <<want, seen, outcome, stop, thread, entry>>
  BY DEF clientVars, consumerVars, queueVars
<1>2. UNCHANGED <<handler, response, irq_event>>
  BY DEF RunStep, Spin, Lock, SetId, Offset, WriteData, WriteHead
<1>3. run[Worker] # "out"
  BY DEF RunStep, Spin, Lock, SetId, Offset, WriteData, WriteHead
<1>4. Pending
  BY <1>3 DEF DriverInv, PathInv, WorkerInv, QueueInv, EntryStaysFirst, serviceQueue, Pending
<1>5. CASE WriteHead(Worker)
  <2>1. slot[Worker] \in ReqIds /\ req[Worker] # None
    BY <1>0, <1>5, EngineAssumption DEF WriteHead, EngineTypeOK, EngineAssumption
  <2>2. slot[Worker] \in Posted'
    BY <1>0, <1>5, <2>1 DEF WriteHead, EngineTypeOK, Message, Posted
  <2> QED BY <1>1, <1>2, <1>4, <2>2, CallKept, PhaseKept DEF Pending, AtDsp, Replied
<1>6. CASE Spin(Worker) \/ Lock(Worker) \/ SetId(Worker) \/ Offset(Worker) \/ WriteData(Worker)
  <2>1. run'[Worker] # "out"
    BY <1>0, <1>6 DEF Spin, Lock, SetId, Offset, WriteData, EngineTypeOK
  <2>2. Pending'
    BY <2>1 DEF DriverInv, PathInv, WorkerInv, QueueInv, EntryStaysFirst, serviceQueue, Pending
  <2> QED BY <1>1, <1>2, <1>4, <2>2, CallKept, PhaseKept DEF Replied
<1> QED BY <1>5, <1>6 DEF RunStep

LEMMA DeviceServes ==
  ASSUME DriverInv, DriverInv', DeviceStepInPath, Elsewhere
  PROVE  [Remote!CallNext]_(Remote!callStateVars)
<1> USE DEF DeviceStepInPath, Elsewhere, IrqGoto, callVars
<1>0. EngineTypeOK
  BY DEF DriverInv, EventTypeOK
<1>1. UNCHANGED <<want, seen, outcome, stop>> /\ serviceQueue' = serviceQueue
  <2>1. serviceQueue' = serviceQueue
    BY <1>0, QueueKept DEF DriverInv
  <2> QED BY <2>1 DEF clientVars, consumerVars, queueVars
<1>2. CASE (\E i \in ReqIds : DspStart(i)) \/ DspFinish \/ IrqEnter
  <2>1. UNCHANGED <<irq_event, response>> /\ Replied' = Replied
    BY <1>2 DEF DspStart, DspFinish, IrqEnter, Replied
  <2>2. AtDsp
    BY <1>2 DEF DspStart, DspFinish, IrqEnter, AtDsp, Posted, Answering
  <2>3. AtDsp'
    BY <1>2 DEF DspStart, DspFinish, IrqEnter, AtDsp, Answering, NoMessage
  <2> QED BY <1>1, <2>1, <2>2, <2>3, CallKept, PhaseKept DEF Pending
<1>3. CASE IrqRespond
  <2>1. irq /\ Pending /\ ~Replied /\ want # None /\ outcome[Client] # "ready"
    BY <1>3, Places DEF IrqRespond, Replied
  <2>2. Replied' /\ response' = ReqId[want]
    <3>1. dsp_req_id = ReqId[want]
      BY <2>1 DEF Answering, DriverInv, DataInv, OwnInv
    <3> QED BY <1>3, <3>1 DEF IrqRespond, Replied
  <2>3. callPhase = "asked" /\ callPhase' = "answered"
    BY <1>1, <2>1, <2>2, Phase, PhaseAfter DEF PhaseByPlace
  <2>4. callAnswer' = ReqId[want]
    BY <2>2, <2>3 DEF callAnswer
  <2> QED BY <1>1, <2>3, <2>4 DEF Remote!CallNext, Remote!Reply, Remote!Goes
<1>4. CASE IrqAck \/ IrqRelease \/ IrqEvent
  <2>1. Replied /\ Replied' /\ response' = response
    BY <1>4 DEF IrqAck, IrqRelease, IrqEvent, Replied
  <2>2. PhaseByPlace' = PhaseByPlace
    BY <1>1, <2>1 DEF PhaseByPlace
  <2> QED BY <1>1, <2>1, <2>2, CallKept
<1>5. CASE IrqWake
  <2>1. Replied' = Replied /\ Pending' = Pending /\ response' = response
    BY <1>1, <1>5 DEF IrqWake, Replied, Pending, AtDsp, Posted, Answering
  <2> QED BY <1>1, <2>1, CallKept, PhaseKept
<1> QED BY <1>2, <1>3, <1>4, <1>5 DEF DeviceStep, IrqStep

(***************************************************************************)
(* For any requests, identifiers and number of other processes, what the   *)
(* client sees of the driver is a remote procedure call: every step of     *)
(* open, write, poll, read, the kernel thread, run, the DSP and the        *)
(* handler is a step of RemoteCall or does not show.  (The safety part of  *)
(* ImplementsRemoteCall.)                                                  *)
(***************************************************************************)
THEOREM DriverIsRemoteCall ==
  ASSUME Serialized
  PROVE  DriverSpec => Remote!CallSafety
<1>1. DriverInit => Remote!CallInit
  <2> SUFFICES ASSUME DriverInit PROVE Remote!CallInit
    OBVIOUS
  <2>1. callPhase = "idle" /\ callAnswer = 0
    BY DEF DriverInit, callPhase, callAnswer
  <2> QED BY <2>1, DriverAssumption
          DEF DriverInit, PathInit, EventInit, DriverAssumption, Remote!CallInit
<1>2. DriverInv /\ DriverInv' /\ [DriverNext]_driverVars
        => [Remote!CallNext]_(Remote!callStateVars)
  <2> SUFFICES ASSUME DriverInv, DriverInv', [DriverNext]_driverVars
               PROVE  [Remote!CallNext]_(Remote!callStateVars)
    OBVIOUS
  <2>1. CASE UNCHANGED driverVars
    <3>1. UNCHANGED <<want, outcome, seen, stop, handler, irq_event, response, sram, dsp, irq,
                      thread, requests, run>>
      BY <2>1 DEF driverVars, clientVars, consumerVars, queueVars, engineVars
    <3>2. Replied' = Replied /\ Pending' = Pending
      BY <3>1 DEF Replied, Pending, serviceQueue, AtDsp, Posted, Answering
    <3> QED BY <3>1, <3>2, CallKept, PhaseKept
  <2>2. CASE WakeWorker(Client) /\ UNCHANGED <<consumerVars, clientVars>>
    BY <2>2, ThreadServes
  <2>3. CASE (ThreadStep \/ Stop) /\ Elsewhere
    BY <2>3, ThreadServes DEF Elsewhere
  <2> QED
    BY <2>1, <2>2, <2>3, ClientServes, ClientWriteServes, OtherServes, RunStepServesCall,
       DeviceServes
    DEF DriverNext, ClientStep
<1> QED BY <1>1, <1>2, DriverInvHolds, PTL DEF DriverSpec, Remote!CallSafety

-----------------------------------------------------------------------------
(***************************************************************************)
(* The client, the thread and the others are consumers and callers as      *)
(* EventChannel has them: a behaviour of the driver is one of the channel, *)
(* and what is proved of the channel holds of the driver.  The thread is   *)
(* the only caller of run, so its calls take turns.                        *)
(***************************************************************************)
THEOREM DriverImplementsChannel ==
  ASSUME Serialized
  PROVE  DriverSpec => EventSafety
<1>1. DriverInit => EventInit
  BY DEF DriverInit
<1>2. DriverInv /\ [DriverNext]_driverVars => [EventNext]_eventVars
  <2> SUFFICES ASSUME DriverInv, [DriverNext]_driverVars
               PROVE  [EventNext]_eventVars
    OBVIOUS
  <2>0. EngineTypeOK /\ Client \in Consumers /\ Worker \in Threads
        /\ \A p \in Others : p \in Consumers
    BY DriverAssumption, PathAssumption
    DEF DriverAssumption, PathAssumption, DriverInv, EventTypeOK
  <2>1. CASE UNCHANGED driverVars
    BY <2>1 DEF driverVars, eventVars, consumerVars
  <2>2. CASE ClientOpen \/ ClientRelease \/ ClientPoll \/ ClientTimeout \/ ClientRead
             \/ OpenEvent(Client) \/ PollStep(Client)
    BY <2>0, <2>2
    DEF ClientOpen, ClientRelease, ClientPoll, ClientTimeout, ClientRead, EventNext,
        ConsumerStep, ConsumerRequest
  <2>3. ASSUME NEW p \in Others, OtherOpen(p) \/ OtherIdentify(p) \/ OtherRelease(p)
        PROVE  EventNext
    BY <2>0, <2>3
    DEF OtherOpen, OtherIdentify, OtherRelease, EventNext, ConsumerStep, ConsumerRequest
  <2>4. ASSUME NEW r \in Requests, ClientWrite(r)
        PROVE  UNCHANGED eventVars
    BY <2>4 DEF ClientWrite, Enqueue, eventVars
  <2>5. CASE ThreadPick /\ Elsewhere
    <3>1. \A u \in Threads : u = Worker
      BY PathAssumption, DriverAssumption DEF PathAssumption, DriverAssumption
    <3>2. Head(requests) \in Requests
      BY <2>5, HeadTailProperties
      DEF DriverInv, PathInv, QueueInv, QueueTypeOK, EntryStaysFirst, ThreadPick, ThreadGoto
    <3>3. Call(Worker, Head(requests))
      BY <2>5, <3>1 DEF ThreadPick, Call, EnterRun, Goto
    <3> QED BY <2>0, <2>5, <3>2, <3>3 DEF EventNext, EngineNext, Elsewhere
  <2>6. CASE (ThreadStep \/ Stop) /\ ~ThreadPick /\ Elsewhere
    BY <2>6
    DEF ThreadStep, ThreadPrepare, ThreadSleep, ThreadReady, ThreadCheck, ThreadBreak,
        ThreadUnlink, Stop, Elsewhere, eventVars, consumerVars
  <2>7. CASE (RunStepInPath(Worker) \/ DeviceStepInPath) /\ Elsewhere
    BY <2>0, <2>7
    DEF RunStepInPath, DeviceStepInPath, Elsewhere, EventNext, EngineNext
  <2>8. CASE WakeWorker(Client) /\ UNCHANGED <<consumerVars, clientVars>>
    BY <2>8 DEF WakeWorker, eventVars, consumerVars
  <2> QED
    BY <2>1, <2>2, <2>3, <2>4, <2>5, <2>6, <2>7, <2>8 DEF DriverNext, ClientStep
<1> QED BY <1>1, <1>2, DriverInvHolds, PTL DEF DriverSpec, EventSafety

(***************************************************************************)
(* In the whole driver, with the client, the thread, its end and any other *)
(* processes at once: neither the thread nor a process in poll sleeps on a *)
(* lost wake-up, the entry in use stays first in the list, and the engine  *)
(* has one message in flight, intact, that STATUS tells.                   *)
(***************************************************************************)
THEOREM DriverComposes ==
  ASSUME Serialized
  PROVE  DriverSpec => [](/\ NoLostWakeup /\ NoLostEventWakeup /\ EntryStaysFirst
                          /\ OneInFlight /\ StatusTracksWork /\ MessageIntact)
<1>1. DriverInit => NoLostWakeup
  BY DEF DriverInit, PathInit, NoLostWakeup
<1>2. NoLostWakeup /\ [DriverNext]_driverVars => NoLostWakeup'
  <2>1. [DriverNext]_driverVars => PathNext \/ UNCHANGED queueVars
    BY DriverAssumption, PathAssumption
    DEF DriverAssumption, PathAssumption, DriverNext, driverVars, ClientOpen, ClientRelease,
        ClientPoll, ClientTimeout, ClientRead, ClientStep, ClientWrite, OtherOpen,
        OtherIdentify, OtherRelease, ResponseGoes, EventGoes, Discard, PathNext
  <2> QED BY <2>1, WokenStep
<1>3. DriverInv => EntryStaysFirst
  BY DEF DriverInv, PathInv, QueueInv
<1>4. DriverSpec => []NoLostWakeup
  BY <1>1, <1>2, PTL DEF DriverSpec
<1>5. DriverSpec => []EntryStaysFirst
  BY <1>3, DriverInvHolds, PTL
<1> QED
  BY <1>4, <1>5, DriverImplementsChannel, SleepersAreWoken, ConsumersLeaveEngineAlone, PTL

-----------------------------------------------------------------------------
(* What makes the client miss its answer                                   *)

\* The only steps that take away the reply are the client's own poll, which
\* tells it, and an open; an open of another process is remembered.
LEMMA ReplyGoes ==
  ASSUME DriverInv, DriverNext, want # None, Replied, ~Replied', outcome'[Client] # "ready"
  PROVE  "event" \in discarded'
<1> USE DEF Replied, Move, Tell, IrqGoto, InUserSpace
<1>0. Client \in Consumers /\ EventTypeOK /\ call[Client] \notin {"closed", "opening"}
  BY DriverAssumption DEF DriverAssumption, DriverInv, ClientInv
<1>1. ASSUME NEW p \in Others, OtherOpen(p)
      PROVE  "event" \in discarded'
  <2>1. CASE OpenEvent(p) /\ EventGoes
    <3>1. irq_event
      BY <2>1 DEF OpenEvent, executionVars
    <3> QED BY <2>1, <3>1 DEF EventGoes, Discard
  <2>2. CASE OpenResponse(p)
    BY <2>2 DEF OpenResponse, executionVars
  <2> QED BY <1>1, <2>1, <2>2 DEF OtherOpen
<1>2. ASSUME NEW p \in Others, OtherIdentify(p) \/ OtherRelease(p)
      PROVE  FALSE
  BY <1>2 DEF OtherIdentify, OtherRelease, Identify, Release, executionVars, engineVars
<1>3. ASSUME \/ ClientOpen \/ ClientRelease \/ ClientPoll \/ ClientTimeout \/ ClientRead
             \/ OpenEvent(Client) \/ PollSleep(Client) \/ PollWoken(Client)
             \/ PollGiveUp(Client)
      PROVE  FALSE
  BY <1>0, <1>3
  DEF ClientOpen, ClientRelease, ClientPoll, ClientTimeout, ClientRead, OpenResponse, Release,
      OpenEvent, PollWait, PollSleep, PollWoken, PollGiveUp, PollTimeout, Read, executionVars,
      engineVars
<1>4. ASSUME PollReady(Client) PROVE FALSE
  BY <1>0, <1>4 DEF PollReady, EventTypeOK
<1>5. ASSUME \/ ThreadStep \/ Stop \/ WakeWorker(Client) \/ RunStepInPath(Worker)
             \/ \E r \in Requests : ClientWrite(r)
      PROVE  FALSE
  BY <1>5
  DEF ThreadStep, ThreadPrepare, ThreadSleep, ThreadReady, ThreadCheck, ThreadBreak,
      ThreadPick, ThreadUnlink, EnterRun, deviceVars, Stop, WakeWorker, RunStepInPath, RunStep,
      Spin, Lock, SetId, Offset, WriteData, WriteHead, ClientWrite, Enqueue, engineVars
<1>6. ASSUME DeviceStepInPath PROVE FALSE
  BY <1>6
  DEF DeviceStepInPath, DeviceStep, DspStart, DspFinish, IrqStep, IrqEnter, IrqRespond, IrqAck,
      IrqRelease, IrqEvent, IrqWake
<1> QED BY <1>1, <1>2, <1>3, <1>4, <1>5, <1>6 DEF DriverNext, ClientStep, PollStep

\* What others discarded is remembered until the client writes again.
LEMMA DiscardedStays ==
  ASSUME DriverNext, "event" \in discarded, want # None
  PROVE  "event" \in discarded'
BY DEF DriverNext, ClientOpen, ClientRelease, ClientPoll, ClientTimeout, ClientRead, ClientStep,
       ClientWrite, OtherOpen, OtherIdentify, OtherRelease, ResponseGoes, EventGoes, Discard,
       Elsewhere, clientVars

(***************************************************************************)
(* For any number of other processes, an answer that the device has given  *)
(* is missed only when one of them opened the device before the client's   *)
(* poll took the event: no order of the handler's steps and those of poll  *)
(* loses it.                                                               *)
(***************************************************************************)
THEOREM OnlyOpenMakesMiss ==
  ASSUME Serialized
  PROVE  DriverSpec => []MissedByOpenOnly
<1>1. DriverInit => MissedByOpenOnly
  BY DEF DriverInit, MissedByOpenOnly, callPhase
<1>2. DriverInv /\ DriverInv' /\ [Remote!CallNext]_(Remote!callStateVars)
        /\ MissedByOpenOnly /\ [DriverNext]_driverVars => MissedByOpenOnly'
  <2> SUFFICES ASSUME DriverInv, DriverInv', [Remote!CallNext]_(Remote!callStateVars),
                      MissedByOpenOnly, [DriverNext]_driverVars, callPhase' = "missed"
               PROVE  "event" \in discarded'
    BY DEF MissedByOpenOnly
  <2>1. callPhase \in {"answered", "missed"}
    BY DEF Remote!CallNext, Remote!callStateVars, Remote!Ask, Remote!Reply, Remote!Notice,
           Remote!Hear, Remote!Forget, Remote!Miss, Remote!Close, Remote!Goes
  <2>2. want # None
    BY <2>1 DEF callPhase
  <2>3. CASE UNCHANGED driverVars
    <3>1. callPhase = "missed"
      <4>1. UNCHANGED <<want, outcome, handler, irq_event, thread, requests, run, sram, dsp, irq>>
        BY <2>3 DEF driverVars, clientVars, consumerVars, queueVars, engineVars
      <4>2. Replied' = Replied /\ Pending' = Pending
        BY <4>1 DEF Replied, Pending, serviceQueue, AtDsp, Posted, Answering
      <4> QED BY <4>1, <4>2, PhaseKept, Phase, PhaseAfter
    <3> QED BY <2>3, <3>1 DEF MissedByOpenOnly, driverVars, clientVars
  <2>4. CASE DriverNext /\ callPhase = "missed"
    BY <2>2, <2>4, DiscardedStays DEF MissedByOpenOnly
  <2>5. CASE DriverNext /\ callPhase = "answered"
    <3>1. Replied /\ ~Replied' /\ outcome'[Client] # "ready"
      BY <2>5, Phase, PhaseAfter DEF PhaseByPlace
    <3> QED BY <2>2, <2>5, <3>1, ReplyGoes
  <2> QED BY <2>1, <2>3, <2>4, <2>5
<1>3. DriverSpec => [][Remote!CallNext]_(Remote!callStateVars)
  BY DriverIsRemoteCall, PTL DEF Remote!CallSafety
<1> QED BY <1>1, <1>2, <1>3, DriverInvHolds, PTL DEF DriverSpec
=============================================================================
