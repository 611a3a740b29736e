---------------------------- MODULE RequestPath ----------------------------
(***************************************************************************)
(* The two ways a request reaches the engine of DspEngine.                 *)
(*                                                                         *)
(* write on the character device puts a request at the tail of             *)
(* dx->requests and wakes the kernel thread dxrt_request_handler, which    *)
(* hands the first request to dsp->run and takes it off the list when run  *)
(* has returned.  The ioctl command WRITE_INPUT calls dsp->run in the      *)
(* process that issued it.  dxrt_dsp_driver_cdev_deinit stops the thread.  *)
(***************************************************************************)
EXTENDS DspEngine, SequencesExt

CONSTANTS
  Worker,      \* the kernel thread
  Callers,     \* processes that issue WRITE_INPUT
  Writers      \* processes that call write

ASSUME PathAssumption ==
  /\ Worker \notin Callers
  /\ Threads = {Worker} \cup Callers

VARIABLES
  requests,    \* dx->requests, the entries in list order
  request_wq,  \* TRUE iff the thread is registered on dx->request_wq
  thread,      \* where the thread stands in dxrt_request_handler
  entry,       \* its local: the entry it works on
  waking,      \* the writers between list_add_tail and wake_up
  stop         \* kthread_stop has been called

queueVars == <<requests, request_wq, thread, entry, waking, stop>>
pathVars == <<engineVars, queueVars>>

PathInit ==
  /\ EngineInit
  /\ requests = <<>>
  /\ request_wq = FALSE
  /\ thread = "loop"
  /\ entry = None
  /\ waking = {}
  /\ stop = FALSE

-----------------------------------------------------------------------------
(* write                                                                   *)

\* Faulty: the thread is not woken.
EnqueueSilently(w, r) ==
  /\ w \notin waking
  /\ r \notin Range(requests)
  /\ requests' = Append(requests, r)
  /\ UNCHANGED <<engineVars, request_wq, thread, entry, waking, stop>>

\* Faulty: list_add for list_add_tail.
EnqueueAtHead(w, r) ==
  /\ w \notin waking
  /\ r \notin Range(requests)
  /\ requests' = <<r>> \o requests
  /\ waking' = waking \cup {w}
  /\ UNCHANGED <<engineVars, request_wq, thread, entry, stop>>

\* A request stands for the entry allocated for it: it may be written again
\* when that entry has been freed.
Enqueue(w, r) ==
  /\ w \notin waking
  /\ r \notin Range(requests)
  /\ requests' = Append(requests, r)
  /\ waking' = waking \cup {w}
  /\ UNCHANGED <<engineVars, request_wq, thread, entry, stop>>

WakeWorker(w) ==
  /\ w \in waking
  /\ waking' = waking \ {w}
  /\ request_wq' = FALSE
  /\ UNCHANGED <<engineVars, requests, thread, entry, stop>>

-----------------------------------------------------------------------------
(* dxrt_request_handler                                                    *)

ThreadGoto(from, to) == thread = from /\ thread' = to

\* wait_event registers the thread; it does so again after every wake-up.
ThreadPrepare ==
  /\ \/ thread = "loop" /\ ~stop
     \/ thread = "asleep" /\ ~request_wq
  /\ thread' = "test"
  /\ request_wq' = TRUE
  /\ UNCHANGED <<engineVars, requests, entry, waking, stop>>

\* Faulty: the condition leaves kthread_should_stop out.
ThreadSleepDeaf ==
  /\ requests = <<>>
  /\ ThreadGoto("test", "asleep")
  /\ UNCHANGED <<engineVars, requests, request_wq, entry, waking, stop>>

ThreadSleep ==
  /\ requests = <<>> /\ ~stop
  /\ ThreadGoto("test", "asleep")
  /\ UNCHANGED <<engineVars, requests, request_wq, entry, waking, stop>>

ThreadReady ==
  /\ requests # <<>> \/ stop
  /\ ThreadGoto("test", "check")
  /\ request_wq' = FALSE
  /\ UNCHANGED <<engineVars, requests, entry, waking, stop>>

ThreadCheck ==
  /\ ~stop
  /\ ThreadGoto("check", "pick")
  /\ UNCHANGED <<engineVars, requests, request_wq, entry, waking, stop>>

ThreadBreak ==
  /\ stop
  /\ thread \in {"loop", "check"}
  /\ thread' = "stopped"
  /\ UNCHANGED <<engineVars, requests, request_wq, entry, waking, stop>>

\* The first entry stays in the list while it is used without the lock.
ThreadPick ==
  /\ ThreadGoto("pick", "run")
  /\ EnterRun(Worker, Head(requests))
  /\ entry' = Head(requests)
  /\ UNCHANGED <<requests, request_wq, waking, stop>>

Without(s, e) == RemoveAt(s, CHOOSE i \in DOMAIN s : s[i] = e)

\* Faulty: the entry is not taken off the list.
ThreadUnlinkSkipped ==
  /\ run[Worker] = "out"
  /\ ThreadGoto("run", "loop")
  /\ UNCHANGED <<engineVars, requests, request_wq, entry, waking, stop>>

ThreadUnlink ==
  /\ run[Worker] = "out"
  /\ ThreadGoto("run", "loop")
  /\ requests' = Without(requests, entry)
  /\ entry' = None
  /\ UNCHANGED <<engineVars, request_wq, waking, stop>>

ThreadStep ==
  \/ ThreadPrepare \/ ThreadSleep \/ ThreadReady \/ ThreadCheck
  \/ ThreadBreak \/ ThreadPick \/ ThreadUnlink

-----------------------------------------------------------------------------
(* WRITE_INPUT and kthread_stop                                            *)

WriteInput(c, r) ==
  /\ EnterRun(c, r)
  /\ UNCHANGED queueVars

\* kthread_stop sets its flag and wakes the thread wherever it sleeps.
Stop ==
  /\ ~stop
  /\ stop' = TRUE
  /\ request_wq' = FALSE
  /\ UNCHANGED <<engineVars, requests, thread, entry, waking>>

-----------------------------------------------------------------------------
RunStepInPath(t) == RunStep(t) /\ UNCHANGED queueVars
DeviceStepInPath == DeviceStep /\ UNCHANGED queueVars

PathNext ==
  \/ \E w \in Writers, r \in Requests : Enqueue(w, r)
  \/ \E w \in Writers : WakeWorker(w)
  \/ ThreadStep
  \/ \E c \in Callers, r \in Requests : WriteInput(c, r)
  \/ Stop
  \/ \E t \in Threads : RunStepInPath(t)
  \/ DeviceStepInPath

(***************************************************************************)
(* A writer that has enqueued wakes, the thread and the callers are        *)
(* scheduled, the DSP and its interrupt are served.  No process need write *)
(* or stop the thread.                                                     *)
(***************************************************************************)
PathSafety == PathInit /\ [][PathNext]_pathVars
PathSpec ==
  /\ PathSafety
  /\ \A w \in Writers : WF_pathVars(WakeWorker(w))
  /\ WF_pathVars(ThreadStep)
  /\ \A t \in Threads : WF_pathVars(RunStepInPath(t))
  /\ WF_pathVars((\E i \in ReqIds : DspStart(i)) /\ UNCHANGED queueVars)
  /\ WF_pathVars(DspFinish /\ UNCHANGED queueVars)
  /\ WF_pathVars(IrqStep /\ UNCHANGED queueVars)

-----------------------------------------------------------------------------
PathTypeOK ==
  /\ EngineTypeOK
  /\ requests \in Seq(Requests)
  /\ request_wq \in BOOLEAN
  /\ thread \in {"loop", "test", "asleep", "check", "pick", "run", "stopped"}
  /\ entry \in Maybe
  /\ waking \subseteq Writers
  /\ stop \in BOOLEAN

(***************************************************************************)
(* The thread never sleeps on work: when it is asleep, no wake-up has      *)
(* reached it, and there is a request or the order to stop, then a writer  *)
(* is about to wake it (thread.c:31-34 against cdev.c:95-103).             *)
(***************************************************************************)
NoLostWakeup ==
  thread = "asleep" /\ request_wq => (requests = <<>> /\ ~stop) \/ waking # {}

(***************************************************************************)
(* The entry that the thread uses outside requests_lock (thread.c:40-46)   *)
(* is there when it takes it, and is the first of the list until it is     *)
(* taken off, whatever writers append meanwhile.                           *)
(***************************************************************************)
EntryStaysFirst ==
  /\ thread = "pick" => requests # <<>>
  /\ thread = "run" => requests # <<>> /\ Head(requests) = entry

(***************************************************************************)
(* kthread_stop waits for the thread, which looks at its flag only between *)
(* two requests: it does end, even when it was in the busy-wait of run.    *)
(***************************************************************************)
StopCompletes == stop ~> thread = "stopped"

-----------------------------------------------------------------------------
(***************************************************************************)
(* RequestPath without WRITE_INPUT implements RequestService.  A request   *)
(* begins when its header is written; it leaves the list of the abstract   *)
(* service then, although its entry is unlinked later.  It is active until *)
(* the handler has taken the response.                                     *)
(***************************************************************************)
serviceQueue ==
  IF thread = "run" /\ run[Worker] = "out" THEN Tail(requests) ELSE requests

serviceActive ==
  IF Posted # {} THEN sram[CHOOSE i \in Posted : TRUE].head
  ELSE IF dsp # NoMessage THEN dsp.head
  ELSE IF irq /\ handler # "ack" THEN completed
  ELSE None

serviceStage ==
  IF ~stop THEN "open"
  ELSE IF thread = "pick" \/ (thread = "run" /\ run[Worker] # "out") THEN "closing"
  ELSE "closed"

Service == INSTANCE RequestService
  WITH queue <- serviceQueue, active <- serviceActive,
       reported <- response, stage <- serviceStage

(***************************************************************************)
(* Requests are executed in the order in which they were written, each     *)
(* exactly once, one at a time, and each is reported, by its own           *)
(* identifier, before the next begins; after kthread_stop at most one more *)
(* begins.  While the thread is not stopped none waits for ever.           *)
(***************************************************************************)
ImplementsService == Service!ServiceSpec
=============================================================================
