-------------------------- MODULE DspEngineProofs --------------------------
(***************************************************************************)
(* Theorems about DspEngine for any threads, requests and identifiers.     *)
(* Type correctness holds however the callers of run behave; the           *)
(* properties of the message in flight hold when its callers take turns.   *)
(***************************************************************************)
EXTENDS DspEngine, TLAPS

\* The callers of run take turns.
Alone == \A t, u \in Threads : run[t] # "out" /\ run[u] # "out" => t = u

NoWork == Filling = {} /\ Posted = {} /\ dsp = NoMessage /\ ~Answering

\* STATUS is busy and nothing is left that would release it.
Stranded == status = "busy" /\ NoWork

\* What each stage of a message excludes, and what the lock says of them.
StageInv ==
  /\ Alone
  /\ \A t \in Threads : run[t] = "lock" => status # "busy"
  /\ Filling # {} => Posted = {} /\ dsp = NoMessage /\ ~Answering
  /\ Posted # {} => dsp = NoMessage /\ ~Answering
  /\ \A i, j \in Posted : i = j
  /\ dsp # NoMessage => ~Answering
  /\ handler \in {"respond", "ack"} => irq
  /\ handler = "release" => ~irq
  /\ status # "busy" => NoWork

\* dsp->req_id, and the local slot, follow the message through its stages.
DataInv ==
  /\ \A t \in Threads :
       /\ run[t] \in {"offset", "data", "head"} => dsp_req_id = ReqId[req[t]]
       /\ run[t] \in {"data", "head"} => slot[t] = dsp_req_id
       /\ run[t] = "head" => sram[slot[t]].data = req[t]
  /\ \A i \in Posted : /\ sram[i].data = sram[i].head
                       /\ ReqId[sram[i].head] = i
                       /\ dsp_req_id = i
  /\ dsp # NoMessage => /\ dsp.head \in Requests
                        /\ dsp.data = dsp.head
                        /\ dsp_req_id = ReqId[dsp.head]
  /\ Answering => /\ completed \in Requests
                  /\ dsp_req_id = ReqId[completed]

\* The response stays that of the completed message until STATUS is released.
ReportInv == handler \in {"ack", "release"} => response = ReqId[completed]

EngineInv == EngineTypeOK /\ StageInv /\ DataInv /\ ReportInv /\ ~Stranded
-----------------------------------------------------------------------------
(* Type correctness                                                        *)

LEMMA EngineInitTypeOK == EngineInit => EngineTypeOK
<1> SUFFICES ASSUME EngineInit PROVE EngineTypeOK
  OBVIOUS
<1>1. NoMessage \in Message /\ sram \in [ReqIds -> Message]
  BY DEF EngineInit, NoMessage, Message, Maybe
<1>2. req \in [Threads -> Maybe] /\ slot \in [Threads -> ReqIds \cup {None}]
  BY DEF EngineInit, Maybe
<1>3. run \in [Threads -> {"out", "spin", "lock", "id", "offset", "data", "head"}]
  BY DEF EngineInit
<1>4. \A t \in Threads : run[t] = "out"
  BY DEF EngineInit
<1> QED BY <1>1, <1>2, <1>3, <1>4 DEF EngineInit, EngineTypeOK, Maybe

\* The three parts of a step each preserve the types.
LEMMA CallTypeOK ==
  ASSUME EngineTypeOK, NEW t \in Threads, NEW r \in Requests, EnterRun(t, r)
  PROVE  EngineTypeOK'
  BY DEF EngineTypeOK, EnterRun, Goto, deviceVars, Message, Maybe

LEMMA RunStepTypeOK ==
  ASSUME EngineTypeOK, NEW t \in Threads, RunStep(t)
  PROVE  EngineTypeOK'
<1> USE EngineAssumption DEF EngineTypeOK, Goto, deviceVars, Message, Maybe
<1>1. CASE Spin(t)
  BY <1>1 DEF Spin
<1>2. CASE Lock(t)
  BY <1>2 DEF Lock
<1>3. CASE SetId(t)
  <2>1. ReqId[req[t]] \in ReqIds
    BY <1>3 DEF SetId
  <2> QED BY <1>3, <2>1 DEF SetId
<1>4. CASE Offset(t)
  BY <1>4 DEF Offset
<1>5. CASE WriteData(t)
  <2>1. slot[t] \in ReqIds /\ req[t] \in Requests
    BY <1>5 DEF WriteData
  <2>2. sram' \in [ReqIds -> Message]
    BY <1>5, <2>1 DEF WriteData
  <2> QED BY <1>5, <2>2 DEF WriteData
<1>6. CASE WriteHead(t)
  <2>1. slot[t] \in ReqIds /\ req[t] \in Requests
    BY <1>6 DEF WriteHead
  <2>2. sram' \in [ReqIds -> Message]
    BY <1>6, <2>1 DEF WriteHead
  <2> QED BY <1>6, <2>2 DEF WriteHead
<1> QED BY <1>1, <1>2, <1>3, <1>4, <1>5, <1>6 DEF RunStep

LEMMA DeviceStepTypeOK ==
  ASSUME EngineTypeOK, DeviceStep
  PROVE  EngineTypeOK'
<1> USE EngineAssumption DEF EngineTypeOK, IrqGoto, callVars, Message, NoMessage, Maybe
<1>1. ASSUME NEW i \in ReqIds, DspStart(i) PROVE EngineTypeOK'
  <2>1. sram' \in [ReqIds -> Message]
    BY <1>1 DEF DspStart
  <2> QED BY <1>1, <2>1 DEF DspStart
<1>2. CASE DspFinish
  BY <1>2 DEF DspFinish
<1>3. CASE IrqEnter
  BY <1>3 DEF IrqEnter
<1>4. CASE IrqRespond
  BY <1>4 DEF IrqRespond
<1>5. CASE IrqAck
  BY <1>5 DEF IrqAck
<1>6. CASE IrqRelease
  BY <1>6 DEF IrqRelease
<1>7. CASE IrqEvent
  BY <1>7 DEF IrqEvent
<1>8. CASE IrqWake
  BY <1>8 DEF IrqWake
<1> QED BY <1>1, <1>2, <1>3, <1>4, <1>5, <1>6, <1>7, <1>8 DEF DeviceStep, IrqStep

LEMMA StutterTypeOK ==
  ASSUME EngineTypeOK, UNCHANGED engineVars
  PROVE  EngineTypeOK'
  BY DEF EngineTypeOK, engineVars

(***************************************************************************)
(* Every variable keeps its type, in particular a thread that writes a     *)
(* message has a request and a slot that exists (lines 263-268), whether   *)
(* or not the callers of run overlap.                                      *)
(***************************************************************************)
THEOREM EngineTypes == EngineSafety => []EngineTypeOK
<1>1. EngineInit => EngineTypeOK
  BY EngineInitTypeOK
<1>2. EngineTypeOK /\ [EngineNext]_engineVars => EngineTypeOK'
  <2> SUFFICES ASSUME EngineTypeOK, [EngineNext]_engineVars
               PROVE  EngineTypeOK'
    OBVIOUS
  <2>1. ASSUME NEW t \in Threads, NEW r \in Requests, Call(t, r)
        PROVE  EngineTypeOK'
    BY <2>1, CallTypeOK DEF Call
  <2>2. ASSUME NEW t \in Threads, RunStep(t)
        PROVE  EngineTypeOK'
    BY <2>2, RunStepTypeOK
  <2>3. CASE DeviceStep
    BY <2>3, DeviceStepTypeOK
  <2>4. CASE UNCHANGED engineVars
    BY <2>4, StutterTypeOK
  <2> QED BY <2>1, <2>2, <2>3, <2>4 DEF EngineNext
<1> QED BY <1>1, <1>2, PTL DEF EngineSafety
-----------------------------------------------------------------------------
(* One message in flight                                                   *)

LEMMA EngineInitStage == EngineInit => StageInv
<1> SUFFICES ASSUME EngineInit PROVE StageInv
  OBVIOUS
<1>1. NoWork
  BY DEF EngineInit, Filling, Posted, Answering, NoMessage, NoWork
<1>2. Alone /\ \A t \in Threads : run[t] # "lock"
  BY DEF EngineInit, Alone
<1> QED BY <1>1, <1>2 DEF EngineInit, StageInv, NoWork

LEMMA CallStage ==
  ASSUME EngineTypeOK, StageInv, Serialized,
         NEW t \in Threads, NEW r \in Requests, Call(t, r)
  PROVE  StageInv'
<1> USE DEF Call, EnterRun, Goto, deviceVars, NoWork
<1>1. \A u \in Threads : run[u] = "out" /\ run'[u] = (IF u = t THEN "spin" ELSE "out")
  BY DEF EngineTypeOK
<1>2. Alone' /\ \A u \in Threads : run'[u] # "lock"
  BY <1>1 DEF Alone
<1>3. Filling' = {} /\ Filling = {}
  BY <1>1 DEF Filling
<1>4. Posted' = Posted /\ Answering' = Answering /\ dsp' = dsp /\ status' = status
      /\ handler' = handler /\ irq' = irq
  BY DEF Posted, Answering
<1> QED BY <1>2, <1>3, <1>4 DEF StageInv

\* A step of the one thread that is in run, seen from the others.
LEMMA OnlyThis ==
  ASSUME EngineTypeOK, Alone, NEW t \in Threads, run[t] # "out",
         NEW s \in {"spin", "lock", "id", "offset", "data", "head", "out"},
         run' = [run EXCEPT ![t] = s]
  PROVE  /\ \A u \in Threads : u # t => run[u] = "out" /\ run'[u] = "out"
         /\ run'[t] = s
         /\ Alone'
         /\ Filling = (IF run[t] \in {"id", "offset", "data", "head"} THEN {t} ELSE {})
         /\ Filling' = (IF s \in {"id", "offset", "data", "head"} THEN {t} ELSE {})
<1>1. \A u \in Threads : u # t => run[u] = "out" /\ run'[u] = "out"
  BY DEF EngineTypeOK, Alone
<1>2. run'[t] = s
  BY DEF EngineTypeOK
<1> QED BY <1>1, <1>2 DEF Alone, Filling

LEMMA RunStepStage ==
  ASSUME EngineTypeOK, StageInv, NEW t \in Threads, RunStep(t)
  PROVE  StageInv'
<1> USE DEF Goto, deviceVars, StageInv, NoWork
<1>1. ASSUME Spin(t) PROVE StageInv'
  <2>1. run' = [run EXCEPT ![t] = "lock"] /\ run[t] = "spin" /\ status # "busy"
    BY <1>1 DEF Spin, EngineTypeOK
  <2>2. Posted' = Posted /\ Answering' = Answering
    BY <1>1 DEF Spin, Posted, Answering
  <2> QED BY <1>1, <2>1, <2>2, OnlyThis DEF Spin
<1>2. ASSUME Lock(t) PROVE StageInv'
  <2>1. run' = [run EXCEPT ![t] = "id"] /\ run[t] = "lock" /\ status # "busy"
    BY <1>2 DEF Lock
  <2>2. Posted' = Posted /\ Answering' = Answering
    BY <1>2 DEF Lock, Posted, Answering
  <2> QED BY <1>2, <2>1, <2>2, OnlyThis DEF Lock
<1>3. ASSUME SetId(t) PROVE StageInv'
  <2>1. run' = [run EXCEPT ![t] = "offset"] /\ run[t] = "id"
    BY <1>3 DEF SetId
  <2>2. Posted' = Posted /\ Answering' = Answering
    BY <1>3 DEF SetId, Posted, Answering
  <2> QED BY <1>3, <2>1, <2>2, OnlyThis DEF SetId
<1>4. ASSUME Offset(t) PROVE StageInv'
  <2>1. run' = [run EXCEPT ![t] = "data"] /\ run[t] = "offset"
    BY <1>4 DEF Offset
  <2>2. Posted' = Posted /\ Answering' = Answering
    BY <1>4 DEF Offset, Posted, Answering
  <2> QED BY <1>4, <2>1, <2>2, OnlyThis DEF Offset
<1>5. ASSUME WriteData(t) PROVE StageInv'
  <2>1. run' = [run EXCEPT ![t] = "head"] /\ run[t] = "data"
    BY <1>5 DEF WriteData
  <2>2. Posted' = Posted /\ Answering' = Answering
    <3>1. \A i \in ReqIds : sram'[i].head = sram[i].head
      BY <1>5 DEF WriteData, EngineTypeOK, Message
    <3> QED BY <1>5, <3>1 DEF WriteData, Posted, Answering
  <2> QED BY <1>5, <2>1, <2>2, OnlyThis DEF WriteData
<1>6. ASSUME WriteHead(t) PROVE StageInv'
  <2>1. run' = [run EXCEPT ![t] = "out"] /\ run[t] = "head"
    BY <1>6 DEF WriteHead
  <2>2. Filling = {t} /\ Filling' = {} /\ Alone' /\ \A u \in Threads : run'[u] = "out"
    BY <2>1, OnlyThis
  <2>3. Posted = {} /\ Answering' = Answering /\ ~Answering /\ dsp = NoMessage
    BY <1>6, <2>2 DEF WriteHead, Answering
  <2>4. slot[t] \in ReqIds /\ req[t] # None
    BY <2>1, EngineAssumption DEF EngineTypeOK, EngineAssumption
  <2>5. \A i \in ReqIds : sram'[i].head = (IF i = slot[t] THEN req[t] ELSE sram[i].head)
    BY <1>6, <2>4 DEF WriteHead, EngineTypeOK, Message
  <2>6. Posted' = {slot[t]}
    BY <2>3, <2>4, <2>5 DEF Posted
  <2>7. status = "busy" /\ status' = status /\ dsp' = dsp /\ handler' = handler /\ irq' = irq
    BY <1>6, <2>2 DEF WriteHead, EngineTypeOK
  <2> QED BY <2>2, <2>3, <2>6, <2>7
<1> QED BY <1>1, <1>2, <1>3, <1>4, <1>5, <1>6 DEF RunStep

LEMMA DeviceStepStage ==
  ASSUME EngineTypeOK, StageInv, DeviceStep
  PROVE  StageInv'
<1> USE DEF IrqGoto, callVars, StageInv, NoWork
<1>0. ASSUME run' = run PROVE Alone' /\ Filling' = Filling
  BY <1>0 DEF Alone, Filling
<1>1. ASSUME NEW i \in ReqIds, DspStart(i) PROVE StageInv'
  <2>1. i \in Posted /\ Posted = {i} /\ Filling = {} /\ ~Answering
    BY <1>1 DEF DspStart, Posted
  <2>2. \A j \in ReqIds : sram'[j].head = (IF j = i THEN None ELSE sram[j].head)
    BY <1>1 DEF DspStart, EngineTypeOK, Message
  <2>3. Posted' = {}
    BY <2>1, <2>2 DEF Posted
  <2>4. dsp' # NoMessage
    BY <1>1 DEF DspStart, NoMessage
  <2>5. run' = run /\ status' = status /\ handler' = handler /\ irq' = irq
        /\ Answering' = Answering /\ status = "busy"
    BY <1>1, <2>1 DEF DspStart, Answering, EngineTypeOK
  <2> QED BY <1>0, <2>1, <2>3, <2>4, <2>5
<1>2. ASSUME DspFinish PROVE StageInv'
  <2>1. dsp # NoMessage /\ Posted = {} /\ Filling = {} /\ status = "busy"
        /\ ~Answering /\ handler # "release"
    BY <1>2 DEF DspFinish, EngineTypeOK, Answering
  <2>2. run' = run /\ status' = status /\ handler' = handler /\ irq' = TRUE
        /\ Answering' /\ Posted' = Posted /\ dsp' = NoMessage
    BY <1>2 DEF DspFinish, Answering, Posted
  <2> QED BY <1>0, <2>1, <2>2
<1>3. ASSUME IrqStep, UNCHANGED <<run, sram, dsp>>, Answering' = Answering, status' = status,
             handler' \in {"respond", "ack"} => irq', handler' = "release" => ~irq'
      PROVE  StageInv'
  <2>1. Posted' = Posted
    BY <1>3 DEF Posted
  <2> QED BY <1>0, <1>3, <2>1
<1>4. CASE IrqEnter
  <2>1. handler' = "respond" /\ irq' /\ handler = "idle"
    BY <1>4 DEF IrqEnter
  <2> QED BY <1>3, <1>4, <2>1 DEF IrqStep, IrqEnter, Answering
<1>5. CASE IrqRespond
  BY <1>3, <1>5 DEF IrqStep, IrqRespond, Answering
<1>6. CASE IrqAck
  BY <1>3, <1>6 DEF IrqStep, IrqAck, Answering
<1>7. ASSUME IrqRelease PROVE StageInv'
  <2>1. Answering /\ Filling = {} /\ Posted = {} /\ dsp = NoMessage
    BY <1>7 DEF IrqRelease, Answering
  <2>2. ~Answering'
    BY <1>7 DEF IrqRelease, Answering
  <2>3. Posted' = Posted /\ run' = run /\ dsp' = dsp /\ status' = "idle" /\ handler' = "event"
    BY <1>7 DEF IrqRelease, Posted
  <2> QED BY <1>0, <2>1, <2>2, <2>3
<1>8. CASE IrqEvent
  BY <1>3, <1>8 DEF IrqStep, IrqEvent, Answering
<1>9. CASE IrqWake
  BY <1>3, <1>9 DEF IrqStep, IrqWake, Answering
<1> QED BY <1>1, <1>2, <1>4, <1>5, <1>6, <1>7, <1>8, <1>9 DEF DeviceStep, IrqStep

\* A step neither strands the lock nor finds a way out when it is stranded.
LEMMA CallStranded ==
  ASSUME EngineTypeOK, NEW t \in Threads, NEW r \in Requests, EnterRun(t, r)
  PROVE  Stranded' = Stranded
<1>1. \A u \in Threads : run'[u] = (IF u = t THEN "spin" ELSE run[u]) /\ run[t] = "out"
  BY DEF EnterRun, Goto, EngineTypeOK
<1>2. Filling' = Filling
  BY <1>1 DEF Filling
<1>3. Posted' = Posted /\ Answering' = Answering /\ dsp' = dsp /\ status' = status
  BY DEF EnterRun, deviceVars, Posted, Answering
<1> QED BY <1>2, <1>3 DEF Stranded, NoWork

LEMMA RunStepStranded ==
  ASSUME EngineTypeOK, StageInv, NEW t \in Threads, RunStep(t)
  PROVE  Stranded' = Stranded
<1> SUFFICES ~Stranded /\ ~Stranded'
  BY DEF Stranded
<1> USE DEF Goto, deviceVars
<1>1. CASE Spin(t)
  BY <1>1 DEF Spin, Stranded
<1>2. CASE Lock(t)
  <2>1. run'[t] = "id" /\ status # "busy"
    BY <1>2 DEF Lock, EngineTypeOK, StageInv
  <2> QED BY <2>1 DEF Stranded, NoWork, Filling
<1>3. CASE SetId(t) \/ Offset(t) \/ WriteData(t)
  <2>1. run[t] \in {"id", "offset", "data"} /\ run'[t] \in {"offset", "data", "head"}
    BY <1>3 DEF SetId, Offset, WriteData, EngineTypeOK
  <2> QED BY <2>1 DEF Stranded, NoWork, Filling
<1>4. CASE WriteHead(t)
  <2>1. run[t] = "head" /\ slot[t] \in ReqIds /\ req[t] # None
    BY <1>4, EngineAssumption DEF WriteHead, EngineTypeOK, EngineAssumption
  <2>2. sram'[slot[t]].head # None
    BY <1>4, <2>1 DEF WriteHead, EngineTypeOK, Message
  <2> QED BY <2>1, <2>2 DEF Stranded, NoWork, Filling, Posted
<1> QED BY <1>1, <1>2, <1>3, <1>4 DEF RunStep

LEMMA DeviceStepStranded ==
  ASSUME EngineTypeOK, StageInv, DeviceStep
  PROVE  Stranded' = Stranded
<1> USE DEF IrqGoto, callVars, Answering
<1>1. ASSUME NEW i \in ReqIds, DspStart(i) PROVE ~Stranded /\ ~Stranded'
  <2>1. i \in Posted /\ dsp'.head # None
    BY <1>1 DEF DspStart, Posted
  <2> QED BY <2>1 DEF Stranded, NoWork, NoMessage
<1>2. ASSUME DspFinish PROVE ~Stranded /\ ~Stranded'
  BY <1>2 DEF DspFinish, Stranded, NoWork
<1>3. ASSUME IrqEnter \/ IrqRespond \/ IrqAck PROVE ~Stranded /\ ~Stranded'
  BY <1>3 DEF IrqEnter, IrqRespond, IrqAck, Stranded, NoWork, StageInv
<1>4. ASSUME IrqRelease PROVE ~Stranded /\ ~Stranded'
  BY <1>4 DEF IrqRelease, Stranded, NoWork
<1>5. ASSUME IrqEvent \/ IrqWake PROVE Stranded' = Stranded
  BY <1>5 DEF IrqEvent, IrqWake, Stranded, NoWork, Filling, Posted
<1> QED BY <1>1, <1>2, <1>3, <1>4, <1>5 DEF DeviceStep, IrqStep, Stranded

-----------------------------------------------------------------------------
(* The lock is never stranded, whether or not the callers take turns       *)

\* ~Stranded is inductive: a caller that takes the lock is the work behind it,
\* each stage hands its message to the next, and the handler, which clears the
\* interrupt a step before the release, stands at the release in between.

LEMMA RunWork ==
  ASSUME EngineTypeOK, ~Stranded, NEW t \in Threads,
         (\E r \in Requests : EnterRun(t, r)) \/ RunStep(t)
  PROVE  ~Stranded'
<1> USE DEF Goto, deviceVars
<1>1. handler' = handler /\ irq' = irq /\ dsp' = dsp /\ Answering' = Answering
  BY DEF EnterRun, RunStep, Spin, Lock, SetId, Offset, WriteData, WriteHead, Answering
<1>2. CASE \E r \in Requests : EnterRun(t, r)
  BY <1>1, <1>2, CallStranded
<1>3. CASE Spin(t)
  <2>1. status # "busy" /\ status' = status
    BY <1>3 DEF Spin
  <2> QED BY <1>1, <2>1 DEF Stranded
<1>4. CASE Lock(t) \/ SetId(t) \/ Offset(t) \/ WriteData(t)
  <2>1. run'[t] \in {"id", "offset", "data", "head"}
    BY <1>4 DEF Lock, SetId, Offset, WriteData, EngineTypeOK
  <2> QED BY <1>1, <2>1 DEF Stranded, NoWork, Filling
<1>5. CASE WriteHead(t)
  <2>1. slot[t] \in ReqIds /\ req[t] # None
    BY <1>5, EngineAssumption DEF WriteHead, EngineTypeOK, EngineAssumption
  <2>2. sram'[slot[t]].head # None
    BY <1>5, <2>1 DEF WriteHead, EngineTypeOK, Message
  <2> QED BY <1>1, <2>1, <2>2 DEF Stranded, NoWork, Posted
<1> QED BY <1>2, <1>3, <1>4, <1>5 DEF RunStep

LEMMA DeviceWork ==
  ASSUME ~Stranded, DeviceStep
  PROVE  ~Stranded'
<1> USE DEF IrqGoto, callVars, Answering, Stranded, NoWork
<1>1. ASSUME NEW i \in ReqIds, DspStart(i) PROVE ~Stranded'
  <2>1. dsp' # NoMessage /\ handler' = handler /\ irq' = irq
    BY <1>1 DEF DspStart, NoMessage
  <2> QED BY <2>1
<1>2. CASE DspFinish
  BY <1>2 DEF DspFinish
<1>3. CASE IrqEnter \/ IrqRespond \/ IrqAck
  BY <1>3 DEF IrqEnter, IrqRespond, IrqAck, Filling, Posted
<1>4. CASE IrqRelease
  BY <1>4 DEF IrqRelease
<1>5. CASE IrqEvent \/ IrqWake
  BY <1>5 DEF IrqEvent, IrqWake, Filling, Posted
<1> QED BY <1>1, <1>2, <1>3, <1>4, <1>5 DEF DeviceStep, IrqStep

LEMMA WorkMeansBusyHasWork ==
  ASSUME ~Stranded
  PROVE  BusyHasWork
<1>1. InFlight = {} => NoWork
  BY DEF InFlight, NoWork
<1> QED BY <1>1 DEF Stranded, BusyHasWork

LEMMA StutterWork ==
  ASSUME ~Stranded, UNCHANGED engineVars
  PROVE  ~Stranded'
BY DEF Stranded, NoWork, Filling, Posted, Answering, engineVars

(***************************************************************************)
(* A busy STATUS always has a message or an interrupt behind it that leads *)
(* to its release, for any threads in run at the same time.                *)
(***************************************************************************)
THEOREM LockIsNeverStranded == EngineSafety => []BusyHasWork
<1>1. EngineInit => ~Stranded
  BY DEF EngineInit, Stranded
<1>2. EngineTypeOK /\ ~Stranded /\ [EngineNext]_engineVars => ~Stranded'
  BY RunWork, DeviceWork, StutterWork DEF EngineNext, Call
<1>3. ~Stranded => BusyHasWork
  BY WorkMeansBusyHasWork
<1> QED BY <1>1, <1>2, <1>3, EngineTypes, PTL DEF EngineSafety

-----------------------------------------------------------------------------
(* The data follows the message                                            *)

LEMMA EngineInitData == EngineInit => DataInv
<1> SUFFICES ASSUME EngineInit PROVE DataInv
  OBVIOUS
<1>1. Posted = {} /\ dsp = NoMessage /\ ~Answering /\ \A t \in Threads : run[t] = "out"
  BY DEF EngineInit, Posted, Answering, NoMessage
<1> QED BY <1>1 DEF EngineInit, DataInv

LEMMA CallData ==
  ASSUME EngineTypeOK, StageInv, DataInv, Serialized,
         NEW t \in Threads, NEW r \in Requests, Call(t, r)
  PROVE  DataInv'
<1> USE DEF Call, EnterRun, Goto, deviceVars
<1>1. \A u \in Threads : run'[u] \in {"spin", "out"}
  BY DEF EngineTypeOK
<1>2. Posted' = Posted /\ Answering' = Answering /\ sram' = sram /\ dsp' = dsp
      /\ dsp_req_id' = dsp_req_id /\ completed' = completed /\ handler' = handler
      /\ response' = response
  BY DEF Posted, Answering
<1> QED BY <1>1, <1>2 DEF DataInv

LEMMA RunStepData ==
  ASSUME EngineTypeOK, StageInv, DataInv, NEW t \in Threads, RunStep(t)
  PROVE  DataInv'
<1> USE DEF Goto, deviceVars
<1>0. Alone
  BY DEF StageInv
\* Steps that leave the identifier and the messages alone.
<1>1. ASSUME Spin(t) \/ Lock(t) PROVE DataInv'
  <2>1. PICK s \in {"lock", "id"} : run' = [run EXCEPT ![t] = s]
    BY <1>1 DEF Spin, Lock
  <2>2. run[t] # "out"
    BY <1>1 DEF Spin, Lock
  <2>3. \A u \in Threads : run'[u] \in {"lock", "id", "out"}
    BY <1>0, <2>1, <2>2, OnlyThis
  <2>4. UNCHANGED <<sram, dsp, dsp_req_id, completed, handler, response, irq>>
    BY <1>1 DEF Spin, Lock
  <2>5. Posted' = Posted /\ Answering' = Answering
    BY <2>4 DEF Posted, Answering
  <2> QED BY <2>3, <2>4, <2>5 DEF DataInv
<1>2. ASSUME SetId(t) PROVE DataInv'
  <2>1. run[t] = "id" /\ run' = [run EXCEPT ![t] = "offset"]
    BY <1>2 DEF SetId
  <2>2. \A u \in Threads : run'[u] = (IF u = t THEN "offset" ELSE "out")
    BY <1>0, <2>1, OnlyThis
  <2>3. Filling # {} /\ Posted = {} /\ dsp = NoMessage /\ ~Answering
    BY <2>1 DEF Filling, StageInv
  <2>4. Posted' = {} /\ dsp' = NoMessage /\ ~Answering' /\ handler' = handler
        /\ handler \notin {"ack", "release"}
    BY <1>2, <2>3 DEF SetId, Posted, Answering, StageInv
  <2>5. dsp_req_id' = ReqId[req[t]] /\ req' = req
    BY <1>2 DEF SetId
  <2> QED BY <2>2, <2>4, <2>5 DEF DataInv
\* While a thread fills the message, nothing else is in flight.
<1>3. ASSUME Offset(t) \/ WriteData(t) PROVE DataInv'
  <2>1. run[t] \in {"offset", "data"} /\ run' = [run EXCEPT ![t] = IF run[t] = "offset" THEN "data"
                                                                      ELSE "head"]
    BY <1>3 DEF Offset, WriteData
  <2>2. \A u \in Threads : u # t => run'[u] = "out"
    BY <1>0, <2>1, OnlyThis
  <2>3. Posted = {} /\ dsp = NoMessage /\ ~Answering
    BY <2>1 DEF Filling, StageInv
  <2>4. dsp' = NoMessage /\ ~Answering' /\ handler' = handler
        /\ handler \notin {"ack", "release"} /\ req' = req /\ dsp_req_id' = dsp_req_id
    BY <1>3, <2>3 DEF Offset, WriteData, Answering, StageInv
  <2>5. \A i \in ReqIds : sram'[i].head = sram[i].head
    BY <1>3 DEF Offset, WriteData, EngineTypeOK, Message
  <2>6. Posted' = {}
    BY <2>3, <2>5 DEF Posted
  <2>7. CASE Offset(t)
    <3>1. run'[t] = "data" /\ slot'[t] = dsp_req_id
      BY <2>7 DEF Offset, EngineTypeOK
    <3>2. dsp_req_id = ReqId[req[t]]
      BY <2>7 DEF Offset, DataInv
    <3> QED BY <2>2, <2>4, <2>6, <3>1, <3>2 DEF DataInv
  <2>8. CASE WriteData(t)
    <3>1. run[t] = "data" /\ run'[t] = "head" /\ slot' = slot
      BY <2>8 DEF WriteData, EngineTypeOK
    <3>2. slot[t] \in ReqIds /\ slot[t] = dsp_req_id /\ dsp_req_id = ReqId[req[t]]
      BY <3>1 DEF DataInv, EngineTypeOK
    <3>3. sram'[slot[t]].data = req[t]
      BY <2>8, <3>2 DEF WriteData, EngineTypeOK, Message
    <3> QED BY <2>2, <2>4, <2>6, <3>1, <3>2, <3>3 DEF DataInv
  <2> QED BY <1>3, <2>7, <2>8
<1>4. ASSUME WriteHead(t) PROVE DataInv'
  <2>1. run[t] = "head" /\ run' = [run EXCEPT ![t] = "out"]
    BY <1>4 DEF WriteHead
  <2>2. \A u \in Threads : run'[u] = "out"
    BY <1>0, <2>1, OnlyThis
  <2>3. Posted = {} /\ dsp = NoMessage /\ ~Answering
    BY <2>1 DEF Filling, StageInv
  <2>4. dsp' = NoMessage /\ ~Answering' /\ handler' = handler
        /\ handler \notin {"ack", "release"} /\ dsp_req_id' = dsp_req_id
    BY <1>4, <2>3 DEF WriteHead, Answering, StageInv
  <2>5. slot[t] \in ReqIds /\ slot[t] = dsp_req_id /\ dsp_req_id = ReqId[req[t]]
        /\ sram[slot[t]].data = req[t]
    BY <2>1 DEF DataInv, EngineTypeOK
  <2>6. /\ \A i \in ReqIds : sram'[i].head = IF i = slot[t] THEN req[t] ELSE sram[i].head
        /\ sram'[slot[t]].data = sram[slot[t]].data
    BY <1>4, <2>5 DEF WriteHead, EngineTypeOK, Message
  <2>7. Posted' \subseteq {slot[t]}
    BY <2>3, <2>6 DEF Posted
  <2> QED BY <2>2, <2>4, <2>5, <2>6, <2>7 DEF DataInv
<1> QED BY <1>1, <1>2, <1>3, <1>4 DEF RunStep

LEMMA DeviceStepData ==
  ASSUME EngineTypeOK, StageInv, DataInv, DeviceStep
  PROVE  DataInv'
<1> USE DEF IrqGoto, callVars
<1>1. ASSUME NEW i \in ReqIds, DspStart(i) PROVE DataInv'
  <2>1. i \in Posted /\ Posted = {i} /\ Filling = {} /\ ~Answering
    BY <1>1 DEF DspStart, Posted, StageInv
  <2>2. \A u \in Threads : run[u] \notin {"offset", "data", "head"}
    BY <2>1 DEF Filling
  <2>3. \A j \in ReqIds : sram'[j].head = (IF j = i THEN None ELSE sram[j].head)
    BY <1>1 DEF DspStart, EngineTypeOK, Message
  <2>4. Posted' = {}
    BY <2>1, <2>3 DEF Posted
  <2>5. dsp' = sram[i] /\ sram[i].data = sram[i].head /\ dsp_req_id = ReqId[sram[i].head]
    BY <1>1, <2>1 DEF DspStart, DataInv
  <2>6. sram[i].head \in Requests
    BY <1>1 DEF DspStart, EngineTypeOK, Message, Maybe
  <2>7. run' = run /\ ~Answering' /\ dsp_req_id' = dsp_req_id /\ handler' = handler
        /\ response' = response /\ handler \notin {"ack", "release"}
    BY <1>1, <2>1 DEF DspStart, Answering, StageInv
  <2> QED BY <2>2, <2>4, <2>5, <2>6, <2>7 DEF DataInv
<1>2. ASSUME DspFinish PROVE DataInv'
  <2>1. dsp # NoMessage /\ Posted = {} /\ Filling = {} /\ ~Answering
    BY <1>2 DEF DspFinish, StageInv
  <2>2. \A u \in Threads : run[u] \notin {"offset", "data", "head"}
    BY <2>1 DEF Filling
  <2>3. dsp.head \in Requests /\ dsp_req_id = ReqId[dsp.head]
    BY <2>1 DEF DataInv
  <2>4. run' = run /\ Posted' = {} /\ dsp' = NoMessage /\ dsp_req_id' = dsp_req_id
        /\ completed' = dsp.head /\ handler' = handler /\ handler \notin {"ack", "release"}
    BY <1>2, <2>1 DEF DspFinish, Posted, Answering, StageInv
  <2> QED BY <2>2, <2>3, <2>4 DEF DataInv
<1>3. ASSUME UNCHANGED <<run, req, slot, dsp_req_id, sram, dsp, completed, response>>,
             Answering' => Answering, handler' \in {"ack", "release"} => handler = "ack"
      PROVE  DataInv'
  <2>1. Posted' = Posted
    BY <1>3 DEF Posted
  <2> QED BY <1>3, <2>1 DEF DataInv
<1>4. CASE IrqEnter
  BY <1>3, <1>4 DEF IrqEnter, Answering
<1>5. ASSUME IrqRespond PROVE DataInv'
  <2>1. Answering /\ Posted = {} /\ Filling = {} /\ dsp = NoMessage
    BY <1>5 DEF IrqRespond, StageInv, Answering
  <2>2. \A u \in Threads : run[u] \notin {"offset", "data", "head"}
    BY <2>1 DEF Filling
  <2>3. run' = run /\ Posted' = {} /\ dsp' = NoMessage /\ dsp_req_id' = dsp_req_id
        /\ completed' = completed /\ response' = dsp_req_id
    BY <1>5, <2>1 DEF IrqRespond, Posted
  <2>4. completed \in Requests /\ dsp_req_id = ReqId[completed]
    BY <2>1 DEF DataInv
  <2> QED BY <2>2, <2>3, <2>4 DEF DataInv
<1>6. CASE IrqAck
  BY <1>3, <1>6 DEF IrqAck, Answering, StageInv
<1>7. ASSUME IrqRelease PROVE DataInv'
  <2>1. Posted = {} /\ Filling = {} /\ dsp = NoMessage /\ ~irq
    BY <1>7 DEF IrqRelease, StageInv, Answering
  <2>2. \A u \in Threads : run[u] \notin {"offset", "data", "head"}
    BY <2>1 DEF Filling
  <2>3. run' = run /\ Posted' = {} /\ dsp' = NoMessage /\ ~Answering' /\ handler' = "event"
    BY <1>7, <2>1 DEF IrqRelease, Posted, Answering
  <2> QED BY <2>2, <2>3 DEF DataInv
<1>8. CASE IrqEvent
  BY <1>3, <1>8 DEF IrqEvent, Answering
<1>9. CASE IrqWake
  BY <1>3, <1>9 DEF IrqWake, Answering
<1> QED BY <1>1, <1>2, <1>4, <1>5, <1>6, <1>7, <1>8, <1>9 DEF DeviceStep, IrqStep

-----------------------------------------------------------------------------
(* The response                                                            *)

LEMMA RunReport ==
  ASSUME ReportInv,
         \/ \E t \in Threads, r \in Requests : Call(t, r)
         \/ \E t \in Threads : RunStep(t)
  PROVE  ReportInv'
  BY DEF ReportInv, Call, EnterRun, RunStep, Spin, Lock, SetId, Offset, WriteData,
         WriteHead, deviceVars

LEMMA DeviceStepReport ==
  ASSUME StageInv, DataInv, ReportInv, DeviceStep
  PROVE  ReportInv'
<1> USE DEF ReportInv, IrqGoto, callVars
<1>1. ASSUME NEW i \in ReqIds, DspStart(i) PROVE ReportInv'
  BY <1>1 DEF DspStart
<1>2. CASE DspFinish
  BY <1>2 DEF DspFinish, StageInv, Answering
<1>3. CASE IrqEnter \/ IrqAck \/ IrqRelease \/ IrqEvent \/ IrqWake
  BY <1>3 DEF IrqEnter, IrqAck, IrqRelease, IrqEvent, IrqWake
<1>4. CASE IrqRespond
  BY <1>4 DEF IrqRespond, StageInv, DataInv, Answering
<1> QED BY <1>1, <1>2, <1>3, <1>4 DEF DeviceStep, IrqStep

-----------------------------------------------------------------------------
(* The theorems                                                            *)

LEMMA StutterInv ==
  ASSUME EngineInv, UNCHANGED engineVars
  PROVE  EngineInv'
<1>1. /\ Filling' = Filling /\ Posted' = Posted /\ Answering' = Answering /\ Alone' = Alone
      /\ NoWork' = NoWork /\ Stranded' = Stranded
  BY DEF engineVars, Filling, Posted, Answering, Alone, NoWork, Stranded
<1>2. EngineTypeOK'
  BY StutterTypeOK DEF EngineInv
<1>3. StageInv'
  BY <1>1 DEF engineVars, EngineInv, StageInv
<1>4. DataInv' /\ ReportInv'
  BY <1>1 DEF engineVars, EngineInv, DataInv, ReportInv
<1> QED BY <1>1, <1>2, <1>3, <1>4 DEF EngineInv

LEMMA EngineInvHolds ==
  ASSUME Serialized
  PROVE  EngineSafety => []EngineInv
<1>1. EngineInit => EngineInv
  BY EngineInitTypeOK, EngineInitStage, EngineInitData
  DEF EngineInv, EngineInit, Stranded, ReportInv
<1>2. EngineInv /\ [EngineNext]_engineVars => EngineInv'
  <2> SUFFICES ASSUME EngineInv, [EngineNext]_engineVars
               PROVE  EngineInv'
    OBVIOUS
  <2> USE DEF EngineInv
  <2>1. ASSUME NEW t \in Threads, NEW r \in Requests, Call(t, r)
        PROVE  EngineInv'
    <3>1. EngineTypeOK'
      BY <2>1, CallTypeOK DEF Call
    <3> QED BY <2>1, <3>1, CallStage, CallData, RunReport, CallStranded DEF Call
  <2>2. ASSUME NEW t \in Threads, RunStep(t)
        PROVE  EngineInv'
    BY <2>2, RunStepTypeOK, RunStepStage, RunStepData, RunReport, RunStepStranded
  <2>3. CASE DeviceStep
    BY <2>3, DeviceStepTypeOK, DeviceStepStage, DeviceStepData,
            DeviceStepReport, DeviceStepStranded
  <2>4. CASE UNCHANGED engineVars
    BY <2>4, StutterInv
  <2> QED BY <2>1, <2>2, <2>3, <2>4 DEF EngineNext
<1> QED BY <1>1, <1>2, PTL DEF EngineSafety

\* What the parts of the invariant say by themselves.
LEMMA StageMeansOneInFlight ==
  ASSUME StageInv
  PROVE  OneInFlight
<1>1. \A t, u \in Filling : t = u
  BY DEF StageInv, Alone, Filling
<1> QED BY <1>1 DEF StageInv, OneInFlight, InFlight

LEMMA StageMeansExactStatus ==
  ASSUME StageInv, ~Stranded
  PROVE  StatusTracksWork
<1>1. InFlight = {} <=> Filling = {} /\ Posted = {} /\ dsp = NoMessage /\ ~Answering
  BY DEF InFlight
<1> QED BY <1>1 DEF StageInv, Stranded, NoWork, StatusTracksWork

LEMMA DataMeansIntact ==
  ASSUME DataInv
  PROVE  MessageIntact
BY DEF DataInv, MessageIntact, NoMessage

(***************************************************************************)
(* One message at a time: if the callers of run take turns, the busy value *)
(* of STATUS keeps messages apart from the moment the first takes the lock *)
(* to the moment the interrupt handler gives it back.                      *)
(***************************************************************************)
THEOREM OneMessage ==
  ASSUME Serialized
  PROVE  EngineSafety => []OneInFlight
<1>1. EngineInv => OneInFlight
  BY StageMeansOneInFlight DEF EngineInv
<1> QED BY <1>1, EngineInvHolds, PTL

(***************************************************************************)
(* STATUS is busy exactly while a message is in flight: the lock is never  *)
(* given back early and never kept.                                        *)
(***************************************************************************)
THEOREM StatusExact ==
  ASSUME Serialized
  PROVE  EngineSafety => []StatusTracksWork
<1>1. EngineInv => StatusTracksWork
  BY StageMeansExactStatus DEF EngineInv
<1> QED BY <1>1, EngineInvHolds, PTL

(***************************************************************************)
(* The DSP executes a header only with the data of the same request, in    *)
(* the slot of that request.                                               *)
(***************************************************************************)
THEOREM IntactMessages ==
  ASSUME Serialized
  PROVE  EngineSafety => []MessageIntact
<1>1. EngineInv => MessageIntact
  BY DataMeansIntact DEF EngineInv
<1> QED BY <1>1, EngineInvHolds, PTL

(***************************************************************************)
(* The response carries the identifier of the completed message.           *)
(***************************************************************************)
THEOREM RightResponse ==
  ASSUME Serialized
  PROVE  EngineSafety => []ReportedIsCompleted
<1>1. EngineInv => ReportedIsCompleted
  BY EngineAssumption
  DEF EngineAssumption, EngineInv, StageInv, DataInv, ReportInv, Answering,
      ReportedIsCompleted
<1> QED BY <1>1, EngineInvHolds, PTL
-----------------------------------------------------------------------------
(* Every step once                                                         *)

LEMMA LeftValues ==
  /\ RunLeft["out"] = 0 /\ RunLeft["spin"] = 14 /\ RunLeft["lock"] = 13 /\ RunLeft["id"] = 12
  /\ RunLeft["offset"] = 11 /\ RunLeft["data"] = 10 /\ RunLeft["head"] = 9
  /\ HandlerLeft["idle"] = 0 /\ HandlerLeft["respond"] = 5 /\ HandlerLeft["ack"] = 4
  /\ HandlerLeft["release"] = 3 /\ HandlerLeft["event"] = 2 /\ HandlerLeft["wake"] = 1
BY DEF RunLeft, HandlerLeft

LEMMA LeftTypes ==
  ASSUME EngineTypeOK
  PROVE  /\ \A t \in Threads : RunLeft[run[t]] \in Nat
         /\ HandlerLeft[handler] \in Nat
BY LeftValues DEF EngineTypeOK

\* The parts of StepsLeft: what the callers of run have left, and the rest.
RunPart == IF Inside # {} THEN RunLeft[run[CHOOSE t \in Inside : TRUE]] ELSE 0
IrqPart == IF irq /\ handler \notin {"respond", "ack"} THEN 6 ELSE 0
DevicePart ==
  (IF Posted # {} THEN 8 ELSE 0)
  + (IF dsp # NoMessage THEN 7 ELSE 0)
  + IrqPart
  + HandlerLeft[handler]

LEMMA TwoParts ==
  ASSUME EngineTypeOK
  PROVE  StepsLeft = RunPart + DevicePart /\ RunPart \in Nat /\ DevicePart \in Nat
<1>1. RunPart \in Nat
  <2>1. CASE Inside # {}
    <3>1. (CHOOSE t \in Inside : TRUE) \in Threads
      BY <2>1 DEF Inside
    <3> QED BY <2>1, <3>1, LeftTypes DEF RunPart
  <2> QED BY <2>1 DEF RunPart
<1>2. HandlerLeft[handler] \in Nat
  BY LeftTypes
<1> QED BY <1>1, <1>2 DEF StepsLeft, RunPart, DevicePart, IrqPart

\* The same after a step.
LEMMA TwoPartsAfter ==
  ASSUME EngineTypeOK'
  PROVE  StepsLeft' = RunPart' + DevicePart' /\ RunPart' \in Nat /\ DevicePart' \in Nat
<1>1. RunPart' \in Nat
  <2>1. \A t \in Threads : RunLeft[run'[t]] \in Nat
    BY LeftValues DEF EngineTypeOK
  <2>2. CASE Inside' # {}
    <3>1. (CHOOSE t \in Inside' : TRUE) \in Threads
      BY <2>2 DEF Inside
    <3> QED BY <2>1, <2>2, <3>1 DEF RunPart
  <2> QED BY <2>2 DEF RunPart
<1>2. HandlerLeft[handler'] \in Nat
  BY LeftValues DEF EngineTypeOK
<1> QED BY <1>1, <1>2 DEF StepsLeft, RunPart, DevicePart, IrqPart

LEMMA RunPartOf ==
  ASSUME Alone
  PROVE  /\ \A t \in Threads : run[t] # "out" => RunPart = RunLeft[run[t]]
         /\ (\A t \in Threads : run[t] = "out") => RunPart = 0
<1>1. ASSUME NEW t \in Threads, run[t] # "out" PROVE RunPart = RunLeft[run[t]]
  <2>1. Inside = {t}
    BY <1>1 DEF Alone, Inside
  <2> QED BY <2>1 DEF RunPart
<1>2. ASSUME \A t \in Threads : run[t] = "out" PROVE RunPart = 0
  BY <1>2 DEF RunPart, Inside
<1> QED BY <1>1, <1>2

LEMMA RunPartAfter ==
  ASSUME Alone', NEW t \in Threads
  PROVE  run'[t] # "out" => RunPart' = RunLeft[run'[t]]
<1> SUFFICES ASSUME run'[t] # "out" PROVE RunPart' = RunLeft[run'[t]]
  OBVIOUS
<1>1. Inside' = {t}
  BY DEF Alone, Inside
<1> QED BY <1>1 DEF RunPart

LEMMA RunPartKept ==
  ASSUME run' = run
  PROVE  RunPart' = RunPart
BY DEF RunPart, Inside

LEMMA CallSteps ==
  ASSUME EngineTypeOK, StageInv, Serialized,
         NEW t \in Threads, NEW r \in Requests, Call(t, r)
  PROVE  RunPart = 0 /\ RunPart' = 14 /\ DevicePart' = DevicePart
<1> USE DEF Call, EnterRun, Goto, deviceVars
<1>1. (\A u \in Threads : run[u] = "out") /\ run'[t] = "spin"
  BY DEF EngineTypeOK
<1>2. Alone /\ Alone'
  BY CallStage DEF StageInv
<1>3. RunPart = 0
  BY <1>1, <1>2, RunPartOf
<1>4. RunPart' = RunLeft[run'[t]]
  BY <1>1, <1>2, RunPartAfter
<1>5. DevicePart' = DevicePart
  BY DEF DevicePart, IrqPart, Posted
<1> QED BY <1>1, <1>3, <1>4, <1>5, LeftValues

LEMMA RunStepSteps ==
  ASSUME EngineTypeOK, StageInv, NEW t \in Threads, RunStep(t)
  PROVE  \/ RunPart' = RunPart - 1 /\ DevicePart' = DevicePart
         \/ RunPart' = RunPart - 9 /\ DevicePart' = DevicePart + 8
<1> USE DEF Goto, deviceVars
<1>0. /\ Alone /\ HandlerLeft'[handler'] = HandlerLeft[handler]
      /\ HandlerLeft[handler] \in Nat
      /\ UNCHANGED <<dsp, irq, handler>>
  BY LeftTypes DEF StageInv, HandlerLeft, RunStep, Spin, Lock, SetId, Offset, WriteData, WriteHead
<1>1. CASE Spin(t) \/ Lock(t) \/ SetId(t) \/ Offset(t) \/ WriteData(t)
  <2>1. /\ run[t] \in {"spin", "lock", "id", "offset", "data"}
        /\ RunLeft[run'[t]] = RunLeft[run[t]] - 1
        /\ run'[t] \in {"lock", "id", "offset", "data", "head"}
    BY <1>1, LeftValues DEF Spin, Lock, SetId, Offset, WriteData, EngineTypeOK
  <2>2. run' = [run EXCEPT ![t] = run'[t]]
    BY <1>1, <2>1 DEF Spin, Lock, SetId, Offset, WriteData, EngineTypeOK
  <2>3. Alone'
    BY <1>0, <2>1, <2>2, OnlyThis
  <2>4. RunPart = RunLeft[run[t]] /\ RunPart' = RunLeft[run'[t]]
    BY <1>0, <2>1, <2>3, RunPartOf, RunPartAfter
  <2>5. \A i \in ReqIds : sram'[i].head = sram[i].head
    BY <1>1 DEF Spin, Lock, SetId, Offset, WriteData, EngineTypeOK, Message
  <2>6. Posted' = Posted
    BY <2>5 DEF Posted
  <2>7. DevicePart' = DevicePart
    BY <1>0, <2>6 DEF DevicePart, IrqPart
  <2> QED BY <2>1, <2>4, <2>7, TwoParts, LeftTypes
<1>2. CASE WriteHead(t)
  <2>1. run[t] = "head" /\ run' = [run EXCEPT ![t] = "out"] /\ run'[t] = "out"
    BY <1>2 DEF WriteHead, EngineTypeOK
  <2>2. \A u \in Threads : run'[u] = "out"
    BY <1>0, <2>1, OnlyThis
  <2>3. RunPart = 9 /\ RunPart' = 0
    <3>1. RunPart = 9
      BY <1>0, <2>1, RunPartOf, LeftValues
    <3>2. Inside' = {}
      BY <2>2 DEF Inside
    <3> QED BY <3>1, <3>2 DEF RunPart
  <2>4. Posted = {} /\ dsp = NoMessage
    BY <2>1 DEF Filling, StageInv
  <2>5. slot[t] \in ReqIds /\ req[t] # None
    BY <2>1, EngineAssumption DEF EngineTypeOK, EngineAssumption
  <2>6. sram'[slot[t]].head # None
    BY <1>2, <2>5 DEF WriteHead, EngineTypeOK, Message
  <2>7. Posted' # {}
    BY <2>5, <2>6 DEF Posted
  <2>8. DevicePart' = DevicePart + 8
    BY <1>0, <2>4, <2>7 DEF DevicePart, IrqPart, NoMessage
  <2> QED BY <2>3, <2>8, TwoParts
<1> QED BY <1>1, <1>2 DEF RunStep

LEMMA DeviceStepSteps ==
  ASSUME EngineTypeOK, StageInv, DeviceStep
  PROVE  RunPart' = RunPart /\ DevicePart' = DevicePart - 1
<1> USE DEF IrqGoto, callVars
<1>1. RunPart' = RunPart
  <2>1. run' = run
    BY DEF DeviceStep, DspStart, DspFinish, IrqStep, IrqEnter, IrqRespond, IrqAck, IrqRelease,
           IrqEvent, IrqWake
  <2> QED BY <2>1, RunPartKept
<1>2. HandlerLeft[handler] \in Nat /\ HandlerLeft' = HandlerLeft /\ NoMessage' = NoMessage
  BY LeftTypes DEF HandlerLeft, NoMessage
<1>3. ASSUME NEW i \in ReqIds, DspStart(i) PROVE DevicePart' = DevicePart - 1
  <2>1. i \in Posted /\ Posted = {i} /\ dsp = NoMessage
    BY <1>3 DEF DspStart, Posted, StageInv
  <2>2. \A j \in ReqIds : sram'[j].head = (IF j = i THEN None ELSE sram[j].head)
    BY <1>3 DEF DspStart, EngineTypeOK, Message
  <2>3. Posted' = {} /\ dsp' # NoMessage /\ UNCHANGED <<irq, handler>>
    BY <1>3, <2>1, <2>2 DEF Posted, DspStart, NoMessage
  <2> QED BY <1>2, <2>1, <2>3 DEF DevicePart, IrqPart
<1>4. CASE DspFinish
  <2>1. dsp # NoMessage /\ ~irq /\ handler \notin {"respond", "ack"}
    BY <1>4 DEF DspFinish, StageInv, Answering
  <2>2. dsp' = NoMessage /\ irq' = TRUE /\ Posted' = Posted /\ handler' = handler
    BY <1>4 DEF DspFinish, Posted
  <2>3. IrqPart = 0 /\ IrqPart' = 6
    BY <2>1, <2>2, Zenon DEF IrqPart
  <2> QED BY <1>1, <1>2, <2>1, <2>2, <2>3 DEF DevicePart
<1>5. CASE IrqStep
  <2>1. /\ Posted' = Posted /\ dsp' = dsp
        /\ \/ irq /\ irq' /\ handler = "idle" /\ handler' = "respond"
           \/ irq /\ irq' /\ handler = "respond" /\ handler' = "ack"
           \/ irq /\ ~irq' /\ handler = "ack" /\ handler' = "release"
           \/ irq' = irq /\ handler = "release" /\ handler' = "event"
           \/ irq' = irq /\ handler = "event" /\ handler' = "wake"
           \/ irq' = irq /\ handler = "wake" /\ handler' = "idle"
    BY <1>5 DEF IrqStep, IrqEnter, IrqRespond, IrqAck, IrqRelease, IrqEvent, IrqWake, Posted,
                StageInv
  <2>2. IrqPart' + HandlerLeft[handler'] = IrqPart + HandlerLeft[handler] - 1
    <3>1. CASE handler = "idle"
      <4>1. IrqPart = 6 /\ IrqPart' = 0 /\ handler' = "respond"
        BY <2>1, <3>1, Zenon DEF IrqPart
      <4> QED BY <3>1, <4>1, LeftValues
    <3>2. CASE handler \in {"respond", "ack"}
      <4>1. IrqPart = 0 /\ IrqPart' = 0
        BY <2>1, <3>2 DEF IrqPart
      <4> QED BY <2>1, <3>2, <4>1, LeftValues
    <3>3. CASE handler \in {"release", "event", "wake"}
      <4>1. IrqPart' = IrqPart /\ IrqPart \in Nat
        BY <2>1, <3>3 DEF IrqPart
      <4> QED BY <2>1, <3>3, <4>1, LeftValues
    <3> QED BY <2>1, <3>1, <3>2, <3>3
  <2>3. HandlerLeft[handler'] \in Nat /\ IrqPart \in Nat /\ IrqPart' \in Nat
    BY <2>1, LeftValues DEF IrqPart
  <2> QED BY <1>1, <1>2, <2>1, <2>2, <2>3 DEF DevicePart
<1> QED BY <1>1, <1>3, <1>4, <1>5 DEF DeviceStep

(***************************************************************************)
(* A call of run costs fourteen steps of the caller, the DSP and the       *)
(* handler, and no step is taken twice, in whatever order the steps of one *)
(* message and the last steps of the handler of another come.              *)
(***************************************************************************)
THEOREM StepsAreBounded ==
  ASSUME Serialized
  PROVE  EngineSafety => EachStepOnce
<1>1. EngineInv /\ EngineInv' /\ [EngineNext]_engineVars =>
        [\/ StepsLeft' = StepsLeft - 1
         \/ /\ \E t \in Threads : run[t] = "out" /\ run'[t] = "spin"
            /\ StepsLeft' = StepsLeft + 14]_engineVars
  <2> SUFFICES ASSUME EngineInv, EngineInv', EngineNext
               PROVE  \/ StepsLeft' = StepsLeft - 1
                      \/ /\ \E t \in Threads : run[t] = "out" /\ run'[t] = "spin"
                         /\ StepsLeft' = StepsLeft + 14
    OBVIOUS
  <2>0. EngineTypeOK /\ StageInv
    BY DEF EngineInv
  <2>1. StepsLeft = RunPart + DevicePart /\ RunPart \in Nat /\ DevicePart \in Nat
    BY <2>0, TwoParts
  <2>2. StepsLeft' = RunPart' + DevicePart' /\ RunPart' \in Nat /\ DevicePart' \in Nat
    BY TwoPartsAfter DEF EngineInv
  <2>3. ASSUME NEW t \in Threads, NEW r \in Requests, Call(t, r)
        PROVE  /\ run[t] = "out" /\ run'[t] = "spin"
               /\ StepsLeft' = StepsLeft + 14
    <3>1. run[t] = "out" /\ run'[t] = "spin"
      BY <2>3 DEF Call, EnterRun, Goto, EngineInv, EngineTypeOK
    <3>2. RunPart = 0 /\ RunPart' = 14 /\ DevicePart' = DevicePart
      BY <2>0, <2>3, CallSteps
    <3> QED BY <2>1, <2>2, <3>1, <3>2
  <2>4. ASSUME NEW t \in Threads, RunStep(t)
        PROVE  StepsLeft' = StepsLeft - 1
    <3>1. \/ RunPart' = RunPart - 1 /\ DevicePart' = DevicePart
          \/ RunPart' = RunPart - 9 /\ DevicePart' = DevicePart + 8
      BY <2>0, <2>4, RunStepSteps
    <3>2. CASE RunPart' = RunPart - 1 /\ DevicePart' = DevicePart
      BY <2>1, <2>2, <3>2
    <3>3. CASE RunPart' = RunPart - 9 /\ DevicePart' = DevicePart + 8
      BY <2>1, <2>2, <3>3
    <3> QED BY <3>1, <3>2, <3>3
  <2>5. ASSUME DeviceStep PROVE StepsLeft' = StepsLeft - 1
    <3>1. RunPart' = RunPart /\ DevicePart' = DevicePart - 1
      BY <2>0, <2>5, DeviceStepSteps
    <3> QED BY <2>1, <2>2, <3>1
  <2> QED BY <2>3, <2>4, <2>5 DEF EngineNext
<1> QED BY <1>1, EngineInvHolds, PTL DEF EngineSafety, EachStepOnce
=============================================================================
