------------------------- MODULE RequestPathProofs -------------------------
(***************************************************************************)
(* Theorems about RequestPath for any writers, callers of WRITE_INPUT and  *)
(* requests: the list and the thread that empties it.  Without WRITE_INPUT *)
(* the path is a well-behaved user of the engine, and what is proved of    *)
(* the engine holds of the path.                                           *)
(***************************************************************************)
EXTENDS RequestPath, DspEngineProofs, SequenceTheorems

-----------------------------------------------------------------------------
(* The wake-up of the thread                                               *)

LEMMA WokenStep ==
  ASSUME NoLostWakeup, PathNext \/ UNCHANGED queueVars
  PROVE  NoLostWakeup'
<1> USE DEF NoLostWakeup, ThreadGoto
<1>1. ASSUME NEW w \in Writers, NEW r \in Requests, Enqueue(w, r)
      PROVE  NoLostWakeup'
  BY <1>1 DEF Enqueue
<1>2. ASSUME NEW w \in Writers, WakeWorker(w)
      PROVE  NoLostWakeup'
  BY <1>2 DEF WakeWorker
<1>3. CASE ThreadPrepare
  BY <1>3 DEF ThreadPrepare
<1>4. CASE ThreadSleep
  BY <1>4 DEF ThreadSleep
<1>5. CASE ThreadReady \/ ThreadCheck \/ ThreadBreak \/ ThreadPick \/ ThreadUnlink
  BY <1>5 DEF ThreadReady, ThreadCheck, ThreadBreak, ThreadPick, ThreadUnlink
<1>6. CASE Stop
  BY <1>6 DEF Stop
<1>7. CASE UNCHANGED queueVars
  BY <1>7 DEF queueVars
<1> QED
  BY <1>1, <1>2, <1>3, <1>4, <1>5, <1>6, <1>7
  DEF PathNext, ThreadStep, WriteInput, RunStepInPath, DeviceStepInPath

(***************************************************************************)
(* The kernel thread never sleeps on a request or on the order to stop     *)
(* without somebody about to wake it, for any number of writers.           *)
(***************************************************************************)
THEOREM ThreadIsWoken == PathSafety => []NoLostWakeup
<1>1. PathInit => NoLostWakeup
  BY DEF PathInit, NoLostWakeup
<1>2. NoLostWakeup /\ [PathNext]_pathVars => NoLostWakeup'
  BY WokenStep DEF pathVars
<1> QED BY <1>1, <1>2, PTL DEF PathSafety

-----------------------------------------------------------------------------
(* The list and the entry                                                  *)

QueueTypeOK ==
  /\ requests \in Seq(Requests)
  /\ request_wq \in BOOLEAN
  /\ thread \in {"loop", "test", "asleep", "check", "pick", "run", "stopped"}
  /\ entry \in Maybe
  /\ waking \subseteq Writers
  /\ stop \in BOOLEAN

\* Between the test of the condition and the pick only the order to stop can
\* have come, since nobody but the thread takes entries off the list.
CheckedHasWork == thread = "check" => requests # <<>> \/ stop

QueueInv == QueueTypeOK /\ CheckedHasWork /\ EntryStaysFirst

\* Taking an entry off the list leaves a list.
LEMMA WithoutType ==
  ASSUME NEW S, NEW s \in Seq(S), NEW e, \E i \in DOMAIN s : s[i] = e
  PROVE  Without(s, e) \in Seq(S)
<1> DEFINE i == CHOOSE j \in DOMAIN s : s[j] = e
<1>1. i \in 1 .. Len(s) /\ Len(s) \in Nat
  BY LenProperties
<1>2. SubSeq(s, 1, i - 1) \in Seq(S)
  BY <1>1, SubSeqProperties, ElementOfSeq
<1>3. SubSeq(s, i + 1, Len(s)) \in Seq(S)
  BY <1>1, SubSeqProperties, ElementOfSeq
<1> QED BY <1>2, <1>3, ConcatProperties DEF Without, RemoveAt

LEMMA QueueStep ==
  ASSUME QueueInv, PathNext
  PROVE  QueueInv'
<1> USE DEF QueueInv, QueueTypeOK, CheckedHasWork, EntryStaysFirst, ThreadGoto, Maybe
<1>1. ASSUME NEW w \in Writers, NEW r \in Requests, Enqueue(w, r)
      PROVE  QueueInv'
  <2>1. /\ Append(requests, r) \in Seq(Requests)
        /\ Append(requests, r) # <<>>
        /\ requests # <<>> => Head(Append(requests, r)) = Head(requests)
    BY AppendProperties, EmptySeq, LenProperties
  <2> QED BY <1>1, <2>1 DEF Enqueue
<1>2. ASSUME NEW w \in Writers, WakeWorker(w)
      PROVE  QueueInv'
  BY <1>2 DEF WakeWorker
<1>3. CASE ThreadPrepare
  BY <1>3 DEF ThreadPrepare
<1>4. CASE ThreadSleep
  BY <1>4 DEF ThreadSleep
<1>5. CASE ThreadReady
  BY <1>5 DEF ThreadReady
<1>6. CASE ThreadCheck
  BY <1>6 DEF ThreadCheck
<1>7. CASE ThreadBreak
  BY <1>7 DEF ThreadBreak
<1>8. CASE ThreadPick
  <2>1. Head(requests) \in Requests
    BY <1>8, HeadTailProperties DEF ThreadPick
  <2> QED BY <1>8, <2>1 DEF ThreadPick
<1>9. CASE ThreadUnlink
  <2>1. requests # <<>> /\ Head(requests) = entry
    BY <1>9 DEF ThreadUnlink
  <2>2. 1 \in DOMAIN requests /\ requests[1] = entry
    BY <2>1, EmptySeq, LenProperties
  <2>3. Without(requests, entry) \in Seq(Requests)
    BY <2>2, WithoutType
  <2> QED BY <1>9, <2>3 DEF ThreadUnlink
<1>10. CASE Stop
  BY <1>10 DEF Stop
<1>11. CASE UNCHANGED queueVars
  BY <1>11 DEF queueVars
<1> QED
  BY <1>1, <1>2, <1>3, <1>4, <1>5, <1>6, <1>7, <1>8, <1>9, <1>10, <1>11
  DEF PathNext, ThreadStep, WriteInput, RunStepInPath, DeviceStepInPath

LEMMA QueueInvHolds == PathSafety => []QueueInv
<1>1. PathInit => QueueInv
  <2>1. <<>> \in Seq(Requests)
    BY EmptySeq
  <2> QED BY <2>1 DEF PathInit, QueueInv, QueueTypeOK, CheckedHasWork, EntryStaysFirst, Maybe
<1>2. QueueInv /\ [PathNext]_pathVars => QueueInv'
  <2>1. ASSUME QueueInv, UNCHANGED pathVars PROVE QueueInv'
    BY <2>1 DEF pathVars, queueVars, QueueInv, QueueTypeOK, CheckedHasWork, EntryStaysFirst
  <2> QED BY <2>1, QueueStep
<1> QED BY <1>1, <1>2, PTL DEF PathSafety

(***************************************************************************)
(* The entry the thread works on without requests_lock stays in the list,  *)
(* and first, until the thread takes it off; and when the thread picks one *)
(* the list is not empty.                                                  *)
(***************************************************************************)
THEOREM EntryIsKept == PathSafety => []EntryStaysFirst
<1>1. QueueInv => EntryStaysFirst
  BY DEF QueueInv
<1> QED BY <1>1, QueueInvHolds, PTL

-----------------------------------------------------------------------------
(* Type correctness                                                        *)

\* What a step of the path does to the engine under it.
LEMMA EngineOfStep ==
  ASSUME QueueInv, PathNext
  PROVE  \/ \E t \in Threads, r \in Requests : EnterRun(t, r)
         \/ \E t \in Threads : RunStep(t)
         \/ DeviceStep
         \/ UNCHANGED engineVars
<1>1. CASE ThreadPick
  <2>1. Head(requests) \in Requests
    BY <1>1, HeadTailProperties
    DEF ThreadPick, ThreadGoto, QueueInv, QueueTypeOK, EntryStaysFirst
  <2> QED BY <1>1, <2>1, PathAssumption DEF ThreadPick, PathAssumption
<1>2. ASSUME NEW c \in Callers, NEW r \in Requests, WriteInput(c, r)
      PROVE  EnterRun(c, r) /\ c \in Threads
  BY <1>2, PathAssumption DEF WriteInput, PathAssumption
<1> QED
  BY <1>1, <1>2
  DEF PathNext, Enqueue, WakeWorker, ThreadStep, ThreadPrepare, ThreadSleep, ThreadReady,
      ThreadCheck, ThreadBreak, ThreadUnlink, Stop, RunStepInPath, DeviceStepInPath

(***************************************************************************)
(* Every variable of the path and of the engine keeps its type: a picked   *)
(* entry is a request, and what is left of the list a list of requests.    *)
(***************************************************************************)
THEOREM PathTypes == PathSafety => []PathTypeOK
<1>1. PathInit => EngineTypeOK
  BY EngineInitTypeOK DEF PathInit
<1>2. EngineTypeOK /\ QueueInv /\ [PathNext]_pathVars => EngineTypeOK'
  <2> SUFFICES ASSUME EngineTypeOK, QueueInv, [PathNext]_pathVars
               PROVE  EngineTypeOK'
    OBVIOUS
  <2>1. CASE UNCHANGED engineVars
    BY <2>1, StutterTypeOK
  <2> QED BY <2>1, EngineOfStep, CallTypeOK, RunStepTypeOK, DeviceStepTypeOK DEF pathVars
<1>3. EngineTypeOK /\ QueueInv => PathTypeOK
  BY DEF PathTypeOK, QueueInv, QueueTypeOK
<1> QED BY <1>1, <1>2, <1>3, QueueInvHolds, PTL DEF PathSafety

-----------------------------------------------------------------------------
(* The engine under the path                                               *)

(***************************************************************************)
(* Without WRITE_INPUT, a behaviour of the path is a behaviour of the      *)
(* engine: the kernel thread is its only caller, and waits for run to      *)
(* return before it calls again.                                           *)
(***************************************************************************)
THEOREM PathImplementsEngine ==
  ASSUME Callers = {}
  PROVE  PathSafety => EngineSafety
<1>1. PathInit => EngineInit
  BY DEF PathInit
<1>2. QueueInv /\ [PathNext]_pathVars => [EngineNext]_engineVars
  <2> SUFFICES ASSUME QueueInv, [PathNext]_pathVars
               PROVE  [EngineNext]_engineVars
    OBVIOUS
  <2>1. ASSUME NEW t \in Threads, NEW r \in Requests, EnterRun(t, r)
        PROVE  Call(t, r)
    <3>1. \A u \in Threads : u = t
      BY PathAssumption DEF PathAssumption
    <3> QED BY <2>1, <3>1 DEF Call, EnterRun, Goto
  <2> QED BY <2>1, EngineOfStep DEF EngineNext, pathVars
<1> QED BY <1>1, <1>2, QueueInvHolds, PTL DEF PathSafety, EngineSafety

(***************************************************************************)
(* The engine's properties for the worker alone, on the whole path from    *)
(* write to the interrupt: one message in flight, STATUS exact, messages   *)
(* intact, responses right.                                                *)
(***************************************************************************)
THEOREM WorkerUsesEngineSafely ==
  ASSUME Callers = {}, Serialized
  PROVE  PathSafety => [](OneInFlight /\ StatusTracksWork /\ MessageIntact
                           /\ ReportedIsCompleted)
BY PathImplementsEngine, OneMessage, StatusExact, IntactMessages, RightResponse, PTL

(***************************************************************************)
(* Each request that the worker hands to run takes its fourteen steps once *)
(* and in any interleaving with writers and with the end of the thread.    *)
(***************************************************************************)
THEOREM WorkerStepsOnce ==
  ASSUME Callers = {}, Serialized
  PROVE  PathSafety => EachStepOnce
BY PathImplementsEngine, StepsAreBounded

(***************************************************************************)
(* Whatever processes in WRITE_INPUT overlap the worker and one another, a *)
(* busy STATUS has a message or an interrupt behind it that releases it.   *)
(***************************************************************************)
THEOREM OverlapStrandsNobody == PathSafety => []BusyHasWork
<1>1. PathInit => ~Stranded
  BY DEF PathInit, EngineInit, Stranded
<1>2. EngineTypeOK /\ QueueInv /\ ~Stranded /\ [PathNext]_pathVars => ~Stranded'
  BY EngineOfStep, RunWork, DeviceWork, StutterWork DEF pathVars
<1>3. PathTypeOK => EngineTypeOK
  BY DEF PathTypeOK
<1>4. ~Stranded => BusyHasWork
  BY WorkMeansBusyHasWork
<1> QED BY <1>1, <1>2, <1>3, <1>4, PathTypes, QueueInvHolds, PTL DEF PathSafety

-----------------------------------------------------------------------------
(* The list as the service sees it                                         *)

WorkerInv == thread # "run" => run[Worker] = "out"
RunsEntry == run[Worker] # "out" => req[Worker] = entry
EntriesDiffer == \A i, j \in 1 .. Len(requests) : requests[i] = requests[j] => i = j

PathInv == QueueInv /\ WorkerInv /\ RunsEntry /\ EntriesDiffer

\* An entry that is written is the last of the list, and new in it.
LEMMA QueueOfWrite ==
  ASSUME PathInv, NEW w \in Writers, NEW r \in Requests, Enqueue(w, r)
  PROVE  serviceQueue' = Append(serviceQueue, r) /\ EntriesDiffer'
<1> USE DEF PathInv, QueueInv, QueueTypeOK
<1>1. /\ requests \in Seq(Requests) /\ requests' = Append(requests, r)
      /\ thread' = thread /\ run' = run /\ r \notin Range(requests)
  BY DEF Enqueue, engineVars
<1>2. /\ Len(requests) \in Nat /\ DOMAIN requests = 1 .. Len(requests)
      /\ Append(requests, r) \in Seq(Requests)
      /\ Len(Append(requests, r)) = Len(requests) + 1
      /\ \A i \in 1 .. Len(requests) : Append(requests, r)[i] = requests[i]
      /\ Append(requests, r)[Len(requests) + 1] = r
  BY <1>1, LenProperties, AppendProperties
<1>3. EntriesDiffer'
  <2>1. \A i \in 1 .. Len(requests) : requests[i] # r
    BY <1>1, <1>2 DEF Range
  <2> QED BY <1>1, <1>2, <2>1 DEF EntriesDiffer
<1>4. requests # <<>> => Tail(Append(requests, r)) = Append(Tail(requests), r)
  BY <1>1
<1>5. CASE thread = "run" /\ run[Worker] = "out"
  BY <1>1, <1>3, <1>4, <1>5 DEF EntryStaysFirst, serviceQueue
<1>6. CASE ~(thread = "run" /\ run[Worker] = "out")
  BY <1>1, <1>3, <1>6 DEF serviceQueue
<1> QED BY <1>5, <1>6

\* The entry that is unlinked has left the service already.
LEMMA QueueOfUnlink ==
  ASSUME PathInv, ThreadUnlink
  PROVE  serviceQueue' = serviceQueue /\ EntriesDiffer'
<1> USE DEF PathInv, QueueInv, QueueTypeOK, ThreadUnlink, ThreadGoto
<1>1. /\ requests \in Seq(Requests) /\ requests # <<>> /\ entry = Head(requests)
      /\ requests' = Without(requests, entry) /\ thread' = "loop"
  BY DEF EntryStaysFirst
<1>2. /\ Len(requests) \in Nat \ {0} /\ DOMAIN requests = 1 .. Len(requests)
      /\ requests[1] = entry
  BY <1>1, EmptySeq, LenProperties
<1>3. (CHOOSE i \in DOMAIN requests : requests[i] = entry) = 1
  BY <1>2 DEF EntriesDiffer
<1>4. requests' = SubSeq(requests, 1, 0) \o SubSeq(requests, 2, Len(requests))
  <2>1. requests' = RemoveAt(requests, 1)
    BY <1>1, <1>3, Zenon DEF Without
  <2> QED BY <2>1 DEF RemoveAt
<1>5. SubSeq(requests, 1, 0) = <<>> /\ SubSeq(requests, 2, Len(requests)) = Tail(requests)
  BY <1>1, <1>2, SubSeqEmpty, TailIsSubSeq
<1>6. requests' = Tail(requests)
  BY <1>1, <1>4, <1>5, HeadTailProperties, ConcatEmptySeq
<1>7. serviceQueue' = serviceQueue
  BY <1>1, <1>6 DEF serviceQueue
<1>8. EntriesDiffer'
  <2>1. /\ Len(requests') = Len(requests) - 1
        /\ \A i \in 1 .. Len(requests') : requests'[i] = requests[i + 1]
    BY <1>1, <1>6, HeadTailProperties
  <2>2. ASSUME NEW i \in 1 .. Len(requests'), NEW j \in 1 .. Len(requests'),
               requests'[i] = requests'[j]
        PROVE  i = j
    <3>1. i + 1 \in 1 .. Len(requests) /\ j + 1 \in 1 .. Len(requests)
      BY <1>2, <2>1
    <3> QED BY <2>1, <2>2, <3>1 DEF EntriesDiffer
  <2> QED BY <2>2 DEF EntriesDiffer
<1> QED BY <1>7, <1>8

\* The header of the first entry is written: the entry leaves the service.
LEMMA QueueOfHeader ==
  ASSUME EngineTypeOK, PathInv, WriteHead(Worker), UNCHANGED queueVars
  PROVE  /\ serviceQueue # <<>> /\ Head(serviceQueue) = req[Worker]
         /\ serviceQueue' = Tail(serviceQueue)
<1>1. run[Worker] # "out" /\ run'[Worker] = "out"
  BY PathAssumption DEF WriteHead, Goto, EngineTypeOK, PathAssumption
<1> QED
  BY <1>1 DEF queueVars, serviceQueue, PathInv, QueueInv, WorkerInv, RunsEntry, EntryStaysFirst

\* No other step takes an entry off the list of the service or adds one.
LEMMA QueueKept ==
  ASSUME EngineTypeOK, PathInv,
         \/ ThreadStep \/ Stop \/ UNCHANGED pathVars
         \/ \E w \in Writers : WakeWorker(w)
         \/ RunStepInPath(Worker) /\ ~WriteHead(Worker)
         \/ DeviceStepInPath
  PROVE  serviceQueue' = serviceQueue
<1> USE DEF PathInv, WorkerInv, serviceQueue
<1>1. CASE \/ ThreadPrepare \/ ThreadSleep \/ ThreadReady \/ ThreadCheck \/ ThreadBreak
           \/ Stop \/ \E w \in Writers : WakeWorker(w)
  <2>1. UNCHANGED <<engineVars, requests>> /\ (thread = "run" <=> thread' = "run")
    BY <1>1 DEF ThreadPrepare, ThreadSleep, ThreadReady, ThreadCheck, ThreadBreak, Stop,
                WakeWorker, ThreadGoto
  <2> QED BY <2>1 DEF engineVars
<1>2. CASE ThreadPick
  BY <1>2, PathAssumption
  DEF ThreadPick, ThreadGoto, EnterRun, Goto, EngineTypeOK, PathAssumption
<1>3. CASE ThreadUnlink
  BY <1>3, QueueOfUnlink
<1>4. CASE RunStepInPath(Worker) /\ ~WriteHead(Worker)
  <2>1. run[Worker] # "out" /\ run'[Worker] # "out"
    BY <1>4, PathAssumption
    DEF RunStepInPath, RunStep, Spin, Lock, SetId, Offset, WriteData, Goto, EngineTypeOK,
        PathAssumption
  <2> QED BY <1>4, <2>1 DEF RunStepInPath, queueVars
<1>5. CASE DeviceStepInPath
  <2>1. run' = run
    BY <1>5 DEF DeviceStepInPath, DeviceStep, DspStart, DspFinish, IrqStep, IrqEnter,
                IrqRespond, IrqAck, IrqRelease, IrqEvent, IrqWake, callVars
  <2> QED BY <1>5, <2>1 DEF DeviceStepInPath, queueVars
<1>6. CASE UNCHANGED pathVars
  BY <1>6 DEF pathVars, queueVars, engineVars
<1> QED BY <1>1, <1>2, <1>3, <1>4, <1>5, <1>6 DEF ThreadStep

LEMMA PathStep ==
  ASSUME EngineTypeOK, PathInv, [PathNext]_pathVars
  PROVE  PathInv'
<1> USE DEF PathInv, WorkerInv, RunsEntry, EntriesDiffer
<1>0. Worker \in Threads /\ Worker \notin Callers
  BY PathAssumption DEF PathAssumption
<1>1. QueueInv'
  <2>1. CASE UNCHANGED pathVars
    BY <2>1 DEF pathVars, queueVars, QueueInv, QueueTypeOK, CheckedHasWork, EntryStaysFirst
  <2> QED BY <2>1, QueueStep
<1>2. ASSUME NEW w \in Writers, NEW r \in Requests, Enqueue(w, r) PROVE PathInv'
  BY <1>1, <1>2, QueueOfWrite DEF Enqueue, engineVars
<1>3. CASE \/ ThreadPrepare \/ ThreadSleep \/ ThreadReady \/ ThreadCheck \/ ThreadBreak
           \/ Stop \/ \E w \in Writers : WakeWorker(w)
  <2>1. UNCHANGED <<engineVars, requests, entry>> /\ (thread = "run" => thread' = "run")
    BY <1>3 DEF ThreadPrepare, ThreadSleep, ThreadReady, ThreadCheck, ThreadBreak, Stop,
                WakeWorker, ThreadGoto
  <2> QED BY <1>1, <2>1 DEF engineVars
<1>4. CASE ThreadPick
  BY <1>0, <1>1, <1>4 DEF ThreadPick, ThreadGoto, EnterRun, EngineTypeOK
<1>5. CASE ThreadUnlink
  BY <1>1, <1>5, QueueOfUnlink DEF ThreadUnlink, engineVars
<1>6. ASSUME NEW c \in Callers, NEW r \in Requests, WriteInput(c, r) PROVE PathInv'
  BY <1>0, <1>1, <1>6 DEF WriteInput, queueVars, EnterRun, Goto, EngineTypeOK
<1>7. ASSUME NEW t \in Threads, RunStepInPath(t) PROVE PathInv'
  <2>1. run[Worker] = "out" => run'[Worker] = "out"
    BY <1>0, <1>7 DEF RunStepInPath, RunStep, Spin, Lock, SetId, Offset, WriteData, WriteHead,
                      Goto, EngineTypeOK
  <2>2. run'[Worker] # "out" => req'[Worker] = req[Worker]
    BY <1>0, <1>7 DEF RunStepInPath, RunStep, Spin, Lock, SetId, Offset, WriteData, WriteHead,
                      Goto, EngineTypeOK
  <2> QED BY <1>1, <1>7, <2>1, <2>2 DEF RunStepInPath, queueVars
<1>8. CASE DeviceStepInPath
  <2>1. UNCHANGED <<run, req>>
    BY <1>8 DEF DeviceStepInPath, DeviceStep, DspStart, DspFinish, IrqStep, IrqEnter,
                IrqRespond, IrqAck, IrqRelease, IrqEvent, IrqWake, callVars
  <2> QED BY <1>1, <1>8, <2>1 DEF DeviceStepInPath, queueVars
<1>9. CASE UNCHANGED pathVars
  BY <1>1, <1>9 DEF pathVars, queueVars, engineVars
<1> QED
  BY <1>2, <1>3, <1>4, <1>5, <1>6, <1>7, <1>8, <1>9 DEF PathNext, ThreadStep

LEMMA PathInitInv == PathInit => PathInv
<1> SUFFICES ASSUME PathInit PROVE PathInv
  OBVIOUS
<1>1. requests = <<>> /\ requests \in Seq(Requests) /\ Len(requests) = 0
  BY EmptySeq DEF PathInit
<1>2. run[Worker] = "out"
  BY PathAssumption DEF PathInit, EngineInit, PathAssumption
<1>3. QueueInv
  BY <1>1 DEF PathInit, QueueInv, QueueTypeOK, CheckedHasWork, EntryStaysFirst, Maybe
<1>4. EntriesDiffer
  BY <1>1 DEF EntriesDiffer
<1> QED BY <1>2, <1>3, <1>4 DEF PathInv, WorkerInv, RunsEntry

LEMMA PathInvHolds == PathSafety => []PathInv
<1>1. PathTypeOK /\ PathInv /\ [PathNext]_pathVars => PathInv'
  BY PathStep DEF PathTypeOK
<1> QED BY <1>1, PathInitInv, PathTypes, PTL DEF PathSafety

-----------------------------------------------------------------------------
(* The path implements the service                                         *)

\* Without WRITE_INPUT the worker is the only caller of run.
LEMMA OnlyWorker ==
  ASSUME Callers = {}
  PROVE  Worker \in Threads /\ \A t \in Threads : t = Worker
BY PathAssumption DEF PathAssumption

\* Steps that do not touch the message in execution.
LEMMA ActiveKept ==
  ASSUME UNCHANGED <<dsp, irq, completed, handler>>,
         Posted' = Posted, \A i \in Posted : sram'[i].head = sram[i].head
  PROVE  serviceActive' = serviceActive
<1>1. CASE Posted = {}
  BY <1>1 DEF serviceActive
<1>2. CASE Posted # {}
  <2>1. (CHOOSE i \in Posted : TRUE) \in Posted
    BY <1>2
  <2> QED BY <1>2, <2>1 DEF serviceActive
<1> QED BY <1>1, <1>2

LEMMA QueueStepServes ==
  ASSUME Callers = {}, EngineInv, PathInv,
         \/ \E w \in Writers, r \in Requests : Enqueue(w, r)
         \/ \E w \in Writers : WakeWorker(w)
         \/ ThreadStep \/ Stop
  PROVE  [Service!ServiceNext]_(Service!serviceVars)
<1> USE DEF Service!ServiceNext, Service!serviceVars
<1>0. Worker \in Threads /\ EngineTypeOK
  BY OnlyWorker DEF EngineInv
<1>1. serviceActive' = serviceActive /\ response' = response
  <2>1. UNCHANGED <<dsp, irq, completed, handler, response, sram>>
    BY DEF Enqueue, WakeWorker, ThreadStep, ThreadPrepare, ThreadSleep, ThreadReady,
           ThreadCheck, ThreadBreak, ThreadPick, ThreadUnlink, Stop, engineVars, EnterRun,
           deviceVars
  <2>2. Posted' = Posted
    BY <2>1 DEF Posted
  <2> QED BY <2>1, <2>2, ActiveKept
<1>2. ASSUME NEW w \in Writers, NEW r \in Requests, Enqueue(w, r)
      PROVE  Service!ServiceNext
  <2>1. serviceQueue' = Append(serviceQueue, r)
    BY <1>2, QueueOfWrite
  <2>2. serviceStage' = serviceStage
    BY <1>2 DEF Enqueue, engineVars, serviceStage
  <2> QED BY <1>1, <2>1, <2>2 DEF Service!Submit
<1>3. CASE Stop
  <2>1. serviceQueue' = serviceQueue
    BY <1>0, <1>3, QueueKept
  <2>2. serviceStage = "open" /\ serviceStage' \in {"closing", "closed"}
    BY <1>3 DEF Stop, serviceStage
  <2> QED BY <1>1, <2>1, <2>2 DEF Service!Close
<1>4. CASE ThreadStep \/ \E w \in Writers : WakeWorker(w)
  <2>1. serviceQueue' = serviceQueue
    BY <1>0, <1>4, QueueKept
  <2>2. serviceStage' = serviceStage
    BY <1>0, <1>4
    DEF WakeWorker, ThreadStep, ThreadPrepare, ThreadSleep, ThreadReady, ThreadCheck,
        ThreadBreak, ThreadPick, ThreadUnlink, ThreadGoto, EnterRun, Goto, EngineInv,
        EngineTypeOK, engineVars, serviceStage
  <2> QED BY <1>1, <2>1, <2>2
<1> QED BY <1>2, <1>3, <1>4

LEMMA RunStepServes ==
  ASSUME Callers = {}, EngineInv, PathInv, RunStepInPath(Worker)
  PROVE  [Service!ServiceNext]_(Service!serviceVars)
<1> USE DEF Service!ServiceNext, Service!serviceVars, RunStepInPath, Goto, deviceVars
<1>0. Worker \in Threads /\ EngineTypeOK
  BY OnlyWorker DEF EngineInv
<1>1. UNCHANGED <<dsp, irq, completed, handler, response, stop, thread>>
  BY DEF RunStep, Spin, Lock, SetId, Offset, WriteData, WriteHead, queueVars
<1>2. CASE WriteHead(Worker)
  <2>1. run[Worker] = "head" /\ run'[Worker] = "out" /\ slot[Worker] \in ReqIds
        /\ thread = "run" /\ req[Worker] \in Requests
    BY <1>0, <1>2 DEF WriteHead, EngineTypeOK, PathInv, WorkerInv
  <2>2. Filling # {}
    BY <1>0, <2>1 DEF Filling
  <2>3. Posted = {} /\ dsp = NoMessage /\ ~irq
    BY <2>2 DEF EngineInv, StageInv, Answering
  <2>4. /\ sram'[slot[Worker]].head = req[Worker]
        /\ \A i \in ReqIds : i # slot[Worker] => sram'[i] = sram[i]
    BY <1>0, <1>2, <2>1 DEF WriteHead, EngineTypeOK, Message
  <2>5. Posted' = {slot[Worker]}
    BY <2>1, <2>3, <2>4, EngineAssumption DEF Posted, EngineAssumption
  <2>6. serviceActive = None /\ serviceActive' = req[Worker]
    <3>1. (CHOOSE i \in Posted' : TRUE) = slot[Worker]
      BY <2>5
    <3> QED BY <2>3, <2>4, <2>5, <3>1 DEF serviceActive
  <2>7. /\ serviceQueue # <<>> /\ Head(serviceQueue) = req[Worker]
        /\ serviceQueue' = Tail(serviceQueue)
    BY <1>0, <1>2, QueueOfHeader
  <2>8. /\ serviceStage # "closed"
        /\ serviceStage' = IF serviceStage = "open" THEN "open" ELSE "closed"
    BY <1>1, <2>1 DEF serviceStage
  <2> QED BY <1>1, <2>6, <2>7, <2>8 DEF Service!Begin
<1>3. CASE ~WriteHead(Worker)
  <2>1. serviceQueue' = serviceQueue
    BY <1>0, <1>3, QueueKept
  <2>2. \A i \in ReqIds : sram'[i].head = sram[i].head
    BY <1>0, <1>3 DEF RunStep, Spin, Lock, SetId, Offset, WriteData, EngineTypeOK, Message
  <2>3. serviceActive' = serviceActive
    BY <1>1, <2>2, ActiveKept DEF Posted
  <2>4. serviceStage' = serviceStage
    <3>1. run[Worker] # "out" /\ run'[Worker] # "out"
      BY <1>0, <1>3 DEF RunStep, Spin, Lock, SetId, Offset, WriteData, EngineTypeOK
    <3> QED BY <1>1, <3>1 DEF serviceStage
  <2> QED BY <1>1, <2>1, <2>3, <2>4
<1> QED BY <1>2, <1>3

LEMMA DeviceStepServes ==
  ASSUME EngineInv, PathInv, DeviceStepInPath
  PROVE  [Service!ServiceNext]_(Service!serviceVars)
<1> USE DEF Service!ServiceNext, Service!serviceVars, DeviceStepInPath, IrqGoto, callVars
<1>0. EngineTypeOK /\ StageInv /\ DataInv
  BY DEF EngineInv
<1>1. serviceQueue' = serviceQueue
  BY <1>0, QueueKept
<1>2. serviceStage' = serviceStage
  <2>1. UNCHANGED <<run, thread, stop>>
    BY DEF DeviceStep, DspStart, DspFinish, IrqStep, IrqEnter, IrqRespond, IrqAck,
           IrqRelease, IrqEvent, IrqWake, queueVars
  <2> QED BY <2>1 DEF serviceStage
<1>3. ASSUME NEW i \in ReqIds, DspStart(i)
      PROVE  serviceActive' = serviceActive /\ response' = response
  <2>1. i \in Posted /\ Posted = {i}
    BY <1>0, <1>3 DEF DspStart, Posted, StageInv
  <2>2. \A j \in ReqIds : sram'[j].head = (IF j = i THEN None ELSE sram[j].head)
    BY <1>0, <1>3 DEF DspStart, EngineTypeOK, Message
  <2>3. Posted' = {} /\ dsp' # NoMessage /\ dsp'.head = sram[i].head
    BY <1>3, <2>1, <2>2 DEF Posted, DspStart, NoMessage
  <2>4. (CHOOSE j \in Posted : TRUE) = i
    BY <2>1
  <2> QED BY <1>3, <2>1, <2>3, <2>4 DEF DspStart, serviceActive
<1>4. ASSUME DspFinish
      PROVE  serviceActive' = serviceActive /\ response' = response
  <2>1. Posted = {} /\ Posted' = {} /\ dsp # NoMessage /\ handler # "ack"
    BY <1>0, <1>4 DEF DspFinish, Posted, StageInv, Answering
  <2> QED BY <1>4, <2>1 DEF DspFinish, serviceActive
<1>5. CASE IrqRespond
  <2>1. irq /\ Posted = {} /\ Posted' = {} /\ dsp = NoMessage /\ completed \in Requests
        /\ dsp_req_id = ReqId[completed]
    BY <1>0, <1>5 DEF IrqRespond, Posted, StageInv, DataInv, Answering
  <2>2. serviceActive = completed /\ serviceActive' = None /\ response' = ReqId[completed]
    BY <1>5, <2>1 DEF IrqRespond, serviceActive
  <2> QED BY <1>1, <1>2, <2>1, <2>2, EngineAssumption
          DEF Service!Report, EngineAssumption
<1>6. ASSUME IrqEnter \/ IrqAck \/ IrqRelease \/ IrqEvent \/ IrqWake
      PROVE  serviceActive' = serviceActive /\ response' = response
  <2>1. Posted' = Posted /\ sram' = sram
    BY <1>6 DEF IrqEnter, IrqAck, IrqRelease, IrqEvent, IrqWake, Posted
  <2> QED BY <1>0, <1>6, <2>1
          DEF IrqEnter, IrqAck, IrqRelease, IrqEvent, IrqWake, StageInv, serviceActive
<1> QED BY <1>1, <1>2, <1>3, <1>4, <1>5, <1>6 DEF DeviceStep, IrqStep

(***************************************************************************)
(* The write path implements the safety of RequestService: requests begin  *)
(* in the order in which they were written, each once, and each is         *)
(* reported by its own identifier before the next begins; after            *)
(* kthread_stop at most one more begins.                                   *)
(***************************************************************************)
THEOREM PathServes ==
  ASSUME Callers = {}, Serialized
  PROVE  PathSafety => Service!ServiceSafety
<1>1. PathInit => Service!ServiceInit
  <2> SUFFICES ASSUME PathInit PROVE Service!ServiceInit
    OBVIOUS
  <2>1. Posted = {} /\ dsp = NoMessage /\ ~irq
    BY DEF PathInit, EngineInit, Posted, NoMessage
  <2> QED BY <2>1
          DEF PathInit, EngineInit, Service!ServiceInit, serviceQueue, serviceActive,
              serviceStage
<1>2. EngineInv /\ PathInv /\ [PathNext]_pathVars
        => [Service!ServiceNext]_(Service!serviceVars)
  <2> SUFFICES ASSUME EngineInv, PathInv, [PathNext]_pathVars
               PROVE  [Service!ServiceNext]_(Service!serviceVars)
    OBVIOUS
  <2>1. CASE UNCHANGED pathVars
    <3>1. serviceQueue' = serviceQueue
      BY <2>1, QueueKept DEF EngineInv
    <3>2. UNCHANGED <<dsp, irq, completed, handler, response, sram, stop, thread, run>>
      BY <2>1 DEF pathVars, engineVars, queueVars
    <3>3. serviceActive' = serviceActive /\ serviceStage' = serviceStage
      <4>1. Posted' = Posted
        BY <3>2 DEF Posted
      <4> QED BY <3>2, <4>1 DEF serviceActive, serviceStage
    <3> QED BY <3>1, <3>2, <3>3 DEF Service!serviceVars
  <2>2. CASE PathNext
    <3>1. \A t \in Threads : t = Worker
      BY OnlyWorker
    <3>2. CASE DeviceStepInPath
      BY <3>2, DeviceStepServes
    <3>3. ASSUME NEW t \in Threads, RunStepInPath(t)
          PROVE  [Service!ServiceNext]_(Service!serviceVars)
      BY <3>1, <3>3, RunStepServes
    <3> QED BY <2>2, <3>2, <3>3, QueueStepServes DEF PathNext
  <2> QED BY <2>1, <2>2
<1>3. EngineSafety => []EngineInv
  BY EngineInvHolds
<1> QED
  BY <1>1, <1>2, <1>3, PathInvHolds, PathImplementsEngine, PTL
  DEF PathSafety, Service!ServiceSafety
=============================================================================
