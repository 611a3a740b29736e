--------------------------- MODULE RecoveryProofs ---------------------------
(***************************************************************************)
(* Theorems about Recovery for any threads, requests, identifiers and any  *)
(* number of processes that reset the DSP, whatever the firmware does.     *)
(***************************************************************************)
EXTENDS Recovery, DspEngineProofs

\* The invariant of the engine, where a stranded lock means a lost message.
RecoveryInv ==
  /\ RecoveryTypeOK
  /\ StageInv
  /\ DataInv
  /\ ReportInv
  /\ Stranded <=> lost # None
-----------------------------------------------------------------------------
(* The steps of the engine                                                 *)

LEMMA EngineStepRecovery ==
  ASSUME Serialized, RecoveryInv, UNCHANGED resetVars,
         \/ \E t \in Threads, r \in Requests : Call(t, r)
         \/ \E t \in Threads : RunStep(t)
         \/ DeviceStep
  PROVE  RecoveryInv'
<1> USE DEF RecoveryInv, RecoveryTypeOK, resetVars
<1>1. ASSUME NEW t \in Threads, NEW r \in Requests, Call(t, r)
      PROVE  RecoveryInv'
  <2>1. EngineTypeOK' /\ Stranded' = Stranded
    BY <1>1, CallTypeOK, CallStranded DEF Call
  <2> QED BY <1>1, <2>1, CallStage, CallData, RunReport
<1>2. ASSUME NEW t \in Threads, RunStep(t)
      PROVE  RecoveryInv'
  BY <1>2, RunStepTypeOK, RunStepStage, RunStepData, RunReport,
     RunStepStranded
<1>3. CASE DeviceStep
  BY <1>3, DeviceStepTypeOK, DeviceStepStage, DeviceStepData,
     DeviceStepReport, DeviceStepStranded
<1> QED BY <1>1, <1>2, <1>3

-----------------------------------------------------------------------------
(* The steps of a restart                                                  *)

LEMMA RaiseLineRecovery ==
  ASSUME RecoveryInv, NEW p \in Resetters, RaiseLine(p)
  PROVE  RecoveryInv'
<1> USE DEF RaiseLine, callVars
<1>1. Filling' = Filling /\ Posted' = Posted /\ Answering' = Answering /\ Alone' = Alone
  BY DEF Filling, Posted, Answering, Alone
<1>2. dsp \in Message /\ NoMessage \in Message /\ (dsp # NoMessage => dsp.head \in Requests)
  BY DEF RecoveryInv, RecoveryTypeOK, EngineTypeOK, DataInv, NoMessage, Message, Maybe
<1>3. RecoveryTypeOK'
  BY <1>2 DEF RecoveryInv, RecoveryTypeOK, EngineTypeOK, Maybe
<1>4. StageInv'
  BY <1>1 DEF RecoveryInv, StageInv, NoWork
<1>5. DataInv' /\ ReportInv'
  BY <1>1 DEF RecoveryInv, DataInv, ReportInv
<1>6. Stranded' <=> lost' # None
  <2>1. CASE dsp = NoMessage
    BY <1>1, <2>1 DEF RecoveryInv, Stranded, NoWork
  <2>2. CASE dsp # NoMessage
    <3>1. status = "busy" /\ Filling = {} /\ Posted = {} /\ ~Answering
      BY <2>2 DEF RecoveryInv, StageInv, NoWork
    <3>2. lost' # None
      BY <1>2, <2>2, EngineAssumption DEF EngineAssumption
    <3> QED BY <1>1, <3>1, <3>2 DEF Stranded, NoWork
  <2> QED BY <2>1, <2>2
<1> QED BY <1>3, <1>4, <1>5, <1>6 DEF RecoveryInv

LEMMA DropLineRecovery ==
  ASSUME RecoveryInv, NEW p \in Resetters, DropLine(p)
  PROVE  RecoveryInv'
<1> USE DEF DropLine, callVars
<1>1. Filling' = Filling /\ Answering' = Answering /\ Alone' = Alone
  BY DEF Filling, Answering, Alone
<1>2. resetting' \subseteq Resetters /\ line' \in BOOLEAN /\ hung' \in BOOLEAN
  BY DEF RecoveryInv, RecoveryTypeOK, FirmwareStarts
<1>3. CASE UNCHANGED <<sram, lost>>
  <2>1. Posted' = Posted
    BY <1>3 DEF Posted
  <2>2. RecoveryTypeOK'
    BY <1>2, <1>3 DEF RecoveryInv, RecoveryTypeOK, EngineTypeOK
  <2>3. StageInv' /\ DataInv' /\ ReportInv'
    BY <1>1, <1>3, <2>1 DEF RecoveryInv, StageInv, DataInv, ReportInv, NoWork
  <2>4. Stranded' = Stranded
    BY <1>1, <2>1 DEF Stranded, NoWork
  <2> QED BY <1>3, <2>2, <2>3, <2>4 DEF RecoveryInv
<1>4. ASSUME Posted # {},
             sram' = [i \in ReqIds |-> [sram[i] EXCEPT !.head = None]],
             lost' = sram[CHOOSE i \in Posted : TRUE].head
      PROVE  RecoveryInv'
  <2>1. PICK j \in Posted : lost' = sram[j].head
    BY <1>4
  <2>2. lost' \in Requests
    BY <2>1 DEF Posted, RecoveryInv, RecoveryTypeOK, EngineTypeOK, Message, Maybe
  <2>3. sram' \in [ReqIds -> Message] /\ \A i \in ReqIds : sram'[i].head = None
    BY <1>4 DEF RecoveryInv, RecoveryTypeOK, EngineTypeOK, Message, Maybe
  <2>4. Posted' = {}
    BY <2>3 DEF Posted
  <2>5. status = "busy" /\ Filling = {} /\ dsp = NoMessage /\ ~Answering
    BY <1>4 DEF RecoveryInv, StageInv, NoWork
  <2>6. RecoveryTypeOK'
    BY <1>2, <2>2, <2>3 DEF RecoveryInv, RecoveryTypeOK, EngineTypeOK, Maybe
  <2>7. StageInv'
    BY <1>1, <2>4, <2>5 DEF RecoveryInv, StageInv
  <2>8. \A t \in Threads : run[t] \notin {"offset", "data", "head"}
    BY <2>5 DEF Filling
  <2>9. DataInv' /\ ReportInv'
    BY <1>1, <2>4, <2>5, <2>8 DEF RecoveryInv, DataInv, ReportInv
  <2>10. Stranded' /\ lost' # None
    BY <1>1, <2>2, <2>4, <2>5, EngineAssumption DEF Stranded, NoWork, EngineAssumption
  <2> QED BY <2>6, <2>7, <2>9, <2>10 DEF RecoveryInv
<1> QED BY <1>3, <1>4 DEF FirmwareStarts

LEMMA QuietRecovery ==
  ASSUME RecoveryInv, UNCHANGED engineVars, UNCHANGED <<line, resetting, lost>>,
         hung' \in BOOLEAN
  PROVE  RecoveryInv'
<1>1. Filling' = Filling /\ Posted' = Posted /\ Answering' = Answering /\ Alone' = Alone
  BY DEF engineVars, Filling, Posted, Answering, Alone
<1>2. NoWork' = NoWork /\ Stranded' = Stranded
  BY <1>1 DEF engineVars, NoWork, Stranded
<1>3. RecoveryTypeOK'
  BY StutterTypeOK DEF RecoveryInv, RecoveryTypeOK
<1>4. StageInv' /\ DataInv' /\ ReportInv'
  BY <1>1, <1>2 DEF engineVars, RecoveryInv, StageInv, DataInv, ReportInv
<1> QED BY <1>2, <1>3, <1>4 DEF RecoveryInv

-----------------------------------------------------------------------------
(* The theorems                                                            *)

LEMMA RecoveryInvHolds ==
  ASSUME Serialized
  PROVE  RecoverySafety => []RecoveryInv
<1>1. RecoveryInit => RecoveryInv
  <2> SUFFICES ASSUME RecoveryInit PROVE RecoveryInv
    OBVIOUS
  <2>1. EngineTypeOK /\ StageInv /\ DataInv
    BY EngineInitTypeOK, EngineInitStage, EngineInitData DEF RecoveryInit
  <2>2. ~Stranded /\ lost = None /\ ReportInv
    BY DEF RecoveryInit, EngineInit, Stranded, ReportInv
  <2> QED BY <2>1, <2>2 DEF RecoveryInv, RecoveryTypeOK, RecoveryInit, Maybe
<1>2. RecoveryInv /\ [RecoveryNext]_recoveryVars => RecoveryInv'
  <2> SUFFICES ASSUME RecoveryInv, [RecoveryNext]_recoveryVars
               PROVE  RecoveryInv'
    OBVIOUS
  <2>1. CASE \/ \E t \in Threads, r \in Requests : Call(t, r) /\ UNCHANGED resetVars
             \/ \E t \in Threads : RunStep(t) /\ UNCHANGED resetVars
             \/ StartInService \/ FinishInService \/ (IrqStep /\ UNCHANGED resetVars)
    BY <2>1, EngineStepRecovery DEF StartInService, FinishInService, DeviceStep
  <2>2. ASSUME NEW p \in Resetters, ResetDevice(p) \/ RecoveryDevice(p)
        PROVE  RecoveryInv'
    BY <2>2, RaiseLineRecovery DEF ResetDevice, RecoveryDevice
  <2>3. ASSUME NEW p \in Resetters, DropLine(p)
        PROVE  RecoveryInv'
    BY <2>3, DropLineRecovery
  <2>4. CASE Hang
    BY <2>4, QuietRecovery DEF Hang
  <2>5. CASE UNCHANGED recoveryVars
    BY <2>5, QuietRecovery DEF recoveryVars, resetVars, RecoveryInv, RecoveryTypeOK
  <2> QED BY <2>1, <2>2, <2>3, <2>4, <2>5 DEF RecoveryNext
<1> QED BY <1>1, <1>2, PTL DEF RecoverySafety

(***************************************************************************)
(* A restart leaves STATUS busy exactly if it discarded a message: in that *)
(* case nothing is in flight that could give it back, and in no other case *)
(* is the lock held without a message.                                     *)
(***************************************************************************)
THEOREM OnlyLossStrands ==
  ASSUME Serialized
  PROVE  RecoverySafety => []StrandedByLossOnly
<1>1. RecoveryInv => StrandedByLossOnly
  <2> SUFFICES ASSUME RecoveryInv PROVE StrandedByLossOnly
    OBVIOUS
  <2>1. InFlight = {} <=> NoWork
    BY DEF InFlight, NoWork
  <2> QED BY <2>1 DEF RecoveryInv, StageInv, Stranded, StrandedByLossOnly
<1> QED BY <1>1, RecoveryInvHolds, PTL

(***************************************************************************)
(* Restarts at any moment do not let a second message in while one is in   *)
(* flight, tear a message, or make the handler answer for another.         *)
(***************************************************************************)
THEOREM RestartsKeepMessages ==
  ASSUME Serialized
  PROVE  RecoverySafety => [](OneInFlight /\ MessageIntact /\ ReportedIsCompleted)
<1>1. RecoveryInv => OneInFlight
  <2> SUFFICES ASSUME RecoveryInv PROVE OneInFlight
    OBVIOUS
  <2>1. \A t, u \in Filling : t = u
    BY DEF RecoveryInv, StageInv, Alone, Filling
  <2> QED BY <2>1 DEF RecoveryInv, StageInv, OneInFlight, InFlight
<1>2. RecoveryInv => MessageIntact
  BY DEF RecoveryInv, DataInv, MessageIntact, NoMessage
<1>3. RecoveryInv => ReportedIsCompleted
  BY EngineAssumption
  DEF EngineAssumption, RecoveryInv, StageInv, DataInv, ReportInv, Answering,
      ReportedIsCompleted
<1> QED BY <1>1, <1>2, <1>3, RecoveryInvHolds, PTL

LEMMA LossStays ==
  ASSUME RecoveryInv, lost # None, [RecoveryNext]_recoveryVars
  PROVE  lost' # None
<1>1. CASE UNCHANGED lost
  BY <1>1
<1>2. ASSUME NEW p \in Resetters, RaiseLine(p) PROVE lost' # None
  BY <1>2 DEF RaiseLine, RecoveryInv, Stranded, NoWork
<1>3. ASSUME NEW p \in Resetters, DropLine(p) PROVE lost' # None
  BY <1>3 DEF DropLine, FirmwareStarts, RecoveryInv, Stranded, NoWork
<1>4. \/ UNCHANGED lost
      \/ \E p \in Resetters : RaiseLine(p) \/ DropLine(p)
  BY DEF RecoveryNext, StartInService, FinishInService, resetVars, recoveryVars, Hang,
         ResetDevice, RecoveryDevice
<1> QED BY <1>1, <1>2, <1>3, <1>4

(***************************************************************************)
(* Nothing that the driver, the firmware or further restarts do gives      *)
(* STATUS back once a message was lost: no caller of run ever gets past    *)
(* the busy-wait of line 255 again.                                        *)
(***************************************************************************)
THEOREM LossIsFinal ==
  ASSUME Serialized
  PROVE  RecoverySafety => [][lost # None => status' = "busy"]_recoveryVars
<1>1. RecoveryInv /\ RecoveryInv' /\ [RecoveryNext]_recoveryVars
        => [lost # None => status' = "busy"]_recoveryVars
  <2> SUFFICES ASSUME RecoveryInv, RecoveryInv', RecoveryNext, lost # None
               PROVE  status' = "busy"
    BY DEF recoveryVars
  <2>1. lost' # None
    BY LossStays
  <2> QED BY <2>1 DEF RecoveryInv, Stranded
<1> QED BY <1>1, RecoveryInvHolds, PTL DEF RecoverySafety

(***************************************************************************)
(* The loss of one message is the end of the service: from then on STATUS  *)
(* is busy and no message is anywhere, and a caller of run in the          *)
(* busy-wait stays there, be it the kernel thread, which kthread_stop then *)
(* waits for without end.                                                  *)
(***************************************************************************)
THEOREM LossEndsService ==
  ASSUME Serialized
  PROVE  RecoverySafety =>
           /\ [](lost # None => [](status = "busy" /\ InFlight = {}))
           /\ [][lost # None => \A t \in Threads : run[t] = "spin" => run'[t] = "spin"]_recoveryVars
<1>1. RecoveryInv /\ RecoveryInv' /\ lost # None /\ [RecoveryNext]_recoveryVars => (lost # None)'
  BY LossStays
<1>2. RecoveryInv /\ lost # None => status = "busy" /\ InFlight = {}
  <2>1. NoWork => InFlight = {}
    BY DEF InFlight, NoWork
  <2> QED BY <2>1 DEF RecoveryInv, Stranded
<1>3. RecoveryInv /\ [RecoveryNext]_recoveryVars
        => [lost # None => \A t \in Threads : run[t] = "spin" => run'[t] = "spin"]_recoveryVars
  <2> SUFFICES ASSUME RecoveryInv, RecoveryNext, lost # None,
                      NEW t \in Threads, run[t] = "spin"
               PROVE  run'[t] = "spin"
    OBVIOUS
  <2>1. status = "busy" /\ EngineTypeOK
    BY DEF RecoveryInv, Stranded, RecoveryTypeOK
  <2>2. ASSUME NEW u \in Threads, RunStep(u) PROVE u # t /\ run' = [run EXCEPT ![u] = run'[u]]
    BY <2>1, <2>2
    DEF RunStep, Spin, Lock, SetId, Offset, WriteData, WriteHead, Goto, EngineTypeOK
  <2>3. ASSUME NEW u \in Threads, NEW r \in Requests, Call(u, r) PROVE run'[t] = "spin"
    BY <2>1, <2>3 DEF Call, EnterRun, Goto, EngineTypeOK
  <2>4. \/ \E u \in Threads : RunStep(u)
        \/ \E u \in Threads, r \in Requests : Call(u, r)
        \/ run' = run
    BY DEF RecoveryNext, StartInService, FinishInService, DspStart, DspFinish, IrqStep,
           IrqEnter, IrqRespond, IrqAck, IrqRelease, IrqEvent, IrqWake, ResetDevice,
           RecoveryDevice, RaiseLine, DropLine, Hang, callVars, engineVars
  <2> QED BY <2>1, <2>2, <2>3, <2>4 DEF EngineTypeOK
<1> QED BY <1>1, <1>2, <1>3, RecoveryInvHolds, PTL DEF RecoverySafety

-----------------------------------------------------------------------------
(* Callers of run that overlap                                             *)

\* What is left of the invariant when nothing keeps the callers of run apart.
OverlapInv ==
  /\ RecoveryTypeOK
  /\ dsp # NoMessage => dsp.head # None
  /\ Stranded => lost # None

LEMMA EngineStepOverlap ==
  ASSUME OverlapInv, UNCHANGED resetVars,
         \/ \E t \in Threads, r \in Requests : EnterRun(t, r)
         \/ \E t \in Threads : RunStep(t)
         \/ DeviceStep
         \/ UNCHANGED engineVars
  PROVE  OverlapInv'
<1> USE DEF OverlapInv, RecoveryTypeOK, resetVars
<1>1. EngineTypeOK'
  BY CallTypeOK, RunStepTypeOK, DeviceStepTypeOK, StutterTypeOK
<1>2. dsp' # NoMessage => dsp'.head # None
  <2>1. ASSUME NEW i \in ReqIds, DspStart(i) PROVE dsp'.head # None
    BY <2>1 DEF DspStart
  <2>2. dsp' = dsp \/ dsp' = NoMessage \/ \E i \in ReqIds : DspStart(i)
    BY DEF EnterRun, RunStep, Spin, Lock, SetId, Offset, WriteData, WriteHead, deviceVars,
           DeviceStep, DspFinish, IrqStep, IrqEnter, IrqRespond, IrqAck, IrqRelease, IrqEvent,
           IrqWake, engineVars
  <2> QED BY <2>1, <2>2 DEF NoMessage
<1>3. CASE ~Stranded
  <2>1. ~Stranded'
    BY <1>3, RunWork, DeviceWork, StutterWork
  <2> QED BY <1>1, <1>2, <2>1
<1> QED BY <1>1, <1>2, <1>3

LEMMA RaiseLineOverlap ==
  ASSUME OverlapInv, NEW p \in Resetters, RaiseLine(p)
  PROVE  OverlapInv'
<1> USE DEF RaiseLine, callVars
<1>1. dsp \in Message /\ NoMessage \in Message
  BY DEF OverlapInv, RecoveryTypeOK, EngineTypeOK, NoMessage, Message, Maybe
<1>2. RecoveryTypeOK'
  BY <1>1 DEF OverlapInv, RecoveryTypeOK, EngineTypeOK, Message
<1>3. Stranded' => lost' # None
  <2>1. CASE dsp = NoMessage
    BY <2>1 DEF OverlapInv, Stranded, NoWork, Filling, Posted, Answering
  <2>2. CASE dsp # NoMessage
    BY <2>2 DEF OverlapInv
  <2> QED BY <2>1, <2>2
<1> QED BY <1>2, <1>3 DEF OverlapInv

LEMMA DropLineOverlap ==
  ASSUME OverlapInv, NEW p \in Resetters, DropLine(p)
  PROVE  OverlapInv'
<1> USE DEF DropLine, callVars
<1>1. resetting' \subseteq Resetters /\ line' \in BOOLEAN /\ hung' \in BOOLEAN
  BY DEF OverlapInv, RecoveryTypeOK, FirmwareStarts
<1>2. CASE UNCHANGED <<sram, lost>>
  <2>1. Stranded' = Stranded
    BY <1>2 DEF Stranded, NoWork, Filling, Posted, Answering
  <2>2. RecoveryTypeOK'
    BY <1>1, <1>2 DEF OverlapInv, RecoveryTypeOK, EngineTypeOK
  <2> QED BY <1>2, <2>1, <2>2 DEF OverlapInv
<1>3. ASSUME Posted # {},
             sram' = [i \in ReqIds |-> [sram[i] EXCEPT !.head = None]],
             lost' = sram[CHOOSE i \in Posted : TRUE].head
      PROVE  OverlapInv'
  <2>1. PICK j \in Posted : lost' = sram[j].head
    BY <1>3
  <2>2. lost' \in Maybe /\ lost' # None
    BY <2>1 DEF Posted, OverlapInv, RecoveryTypeOK, EngineTypeOK, Message
  <2>3. sram' \in [ReqIds -> Message]
    BY <1>3 DEF OverlapInv, RecoveryTypeOK, EngineTypeOK, Message, Maybe
  <2>4. RecoveryTypeOK'
    BY <1>1, <2>2, <2>3 DEF OverlapInv, RecoveryTypeOK, EngineTypeOK
  <2> QED BY <2>2, <2>4 DEF OverlapInv
<1> QED BY <1>2, <1>3 DEF FirmwareStarts

LEMMA OverlapInvHolds == RecoverySafety => []OverlapInv
<1>1. RecoveryInit => OverlapInv
  BY EngineInitTypeOK
  DEF RecoveryInit, EngineInit, OverlapInv, RecoveryTypeOK, Stranded, NoMessage, Maybe
<1>2. OverlapInv /\ [RecoveryNext]_recoveryVars => OverlapInv'
  <2> SUFFICES ASSUME OverlapInv, [RecoveryNext]_recoveryVars
               PROVE  OverlapInv'
    OBVIOUS
  <2>1. CASE \/ \E t \in Threads, r \in Requests : Call(t, r) /\ UNCHANGED resetVars
             \/ \E t \in Threads : RunStep(t) /\ UNCHANGED resetVars
             \/ StartInService \/ FinishInService \/ (IrqStep /\ UNCHANGED resetVars)
             \/ UNCHANGED recoveryVars
    BY <2>1, EngineStepOverlap DEF StartInService, FinishInService, DeviceStep, Call, recoveryVars
  <2>2. ASSUME NEW p \in Resetters, ResetDevice(p) \/ RecoveryDevice(p)
        PROVE  OverlapInv'
    BY <2>2, RaiseLineOverlap DEF ResetDevice, RecoveryDevice
  <2>3. ASSUME NEW p \in Resetters, DropLine(p)
        PROVE  OverlapInv'
    BY <2>3, DropLineOverlap
  <2>4. CASE Hang
    <3>1. Stranded' = Stranded /\ EngineTypeOK'
      BY <2>4, StutterTypeOK DEF Hang, Stranded, NoWork, Filling, Posted, Answering, engineVars,
         OverlapInv, RecoveryTypeOK
    <3> QED BY <2>4, <3>1 DEF Hang, OverlapInv, RecoveryTypeOK, engineVars
  <2> QED BY <2>1, <2>2, <2>3, <2>4 DEF RecoveryNext
<1> QED BY <1>1, <1>2, PTL DEF RecoverySafety

(***************************************************************************)
(* A restart between any two steps of any number of overlapping callers    *)
(* (WRITE_INPUT beside the kernel thread) strands the lock only if it      *)
(* discards a message: as long as nothing was lost, a busy STATUS has a    *)
(* message or an interrupt behind it.                                      *)
(***************************************************************************)
THEOREM OverlapStrandsByLoss == RecoverySafety => [](lost = None => BusyHasWork)
<1>1. OverlapInv => (lost = None => BusyHasWork)
  <2>1. InFlight = {} => NoWork
    BY DEF InFlight, NoWork
  <2> QED BY <2>1 DEF OverlapInv, Stranded, BusyHasWork
<1> QED BY <1>1, OverlapInvHolds, PTL

(***************************************************************************)
(* Every variable keeps its type, whatever resets come in between and      *)
(* however the callers of run overlap.                                     *)
(***************************************************************************)
THEOREM RecoveryTypes == RecoverySafety => []RecoveryTypeOK
<1>1. OverlapInv => RecoveryTypeOK
  BY DEF OverlapInv
<1> QED BY <1>1, OverlapInvHolds, PTL
=============================================================================
