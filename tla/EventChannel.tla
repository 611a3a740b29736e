---------------------------- MODULE EventChannel ----------------------------
(***************************************************************************)
(* How user processes learn that the DSP is done: open, release, poll and  *)
(* read on the character device, and the ioctl commands READ_OUTPUT,       *)
(* TERMINATE and IDENTIFY_DEVICE.  They share with the interrupt handler   *)
(* of DspEngine one flag (irq_event), one response record and one wait     *)
(* queue (irq_wq).                                                         *)
(*                                                                         *)
(* A wait is made of the steps of the kernel: register on the wait queue,  *)
(* test the condition, sleep if it is false, and start again when a waker  *)
(* has taken the sleeper off the queue.  irq_wq holds the registered       *)
(* processes that no wake-up has reached since they registered.            *)
(***************************************************************************)
EXTENDS DspEngine

CONSTANT Consumers        \* user processes

VARIABLES
  call,        \* call[c]: where consumer c stands in a system call
  outcome,     \* outcome[c]: what its last call told it
  seen,        \* seen[c]: the identifier its last read returned
  error        \* dx->error

consumerVars == <<call, outcome, seen, error>>
eventVars == <<engineVars, consumerVars>>

\* What the operations of a consumer never write.
executionVars == <<run, req, slot, status, dsp_req_id, sram, dsp, irq, completed, handler>>

EventInit ==
  /\ EngineInit
  /\ call = [c \in Consumers |-> "closed"]
  /\ outcome = [c \in Consumers |-> "none"]
  /\ seen = [c \in Consumers |-> 0]
  /\ error = 0

Move(c, from, to) == call[c] = from /\ call' = [call EXCEPT ![c] = to]
Tell(c, what) == outcome' = [outcome EXCEPT ![c] = what]

-----------------------------------------------------------------------------
(* open: forgets the last response, then the last event                    *)

OpenResponse(c) ==
  /\ Move(c, "closed", "opening")
  /\ response' = 0
  /\ UNCHANGED <<executionVars, irq_event, irq_wq, outcome, seen, error>>

OpenEvent(c) ==
  /\ Move(c, "opening", "user")
  /\ irq_event' = FALSE
  /\ UNCHANGED <<executionVars, response, irq_wq, outcome, seen, error>>

\* release does nothing: the response and the event stay for the next open.
Release(c) ==
  /\ Move(c, "user", "closed")
  /\ Tell(c, "none")
  /\ UNCHANGED <<engineVars, seen, error>>

-----------------------------------------------------------------------------
(* poll: registers, then takes the event under irq_event_lock              *)

PollWait(c) ==
  /\ Move(c, "user", "poll")
  /\ Tell(c, "none")
  /\ irq_wq' = irq_wq \cup {c}
  /\ UNCHANGED <<executionVars, response, irq_event, seen, error>>

\* Faulty: the event is reported and kept.
PollKeepsEvent(c) ==
  /\ call[c] \in {"poll", "polllast"}
  /\ irq_event
  /\ call' = [call EXCEPT ![c] = "user"]
  /\ Tell(c, "ready")
  /\ irq_wq' = irq_wq \ {c}
  /\ UNCHANGED <<executionVars, response, irq_event, seen, error>>

PollReady(c) ==
  /\ call[c] \in {"poll", "polllast"}
  /\ irq_event
  /\ call' = [call EXCEPT ![c] = "user"]
  /\ Tell(c, "ready")
  /\ irq_event' = FALSE
  /\ irq_wq' = irq_wq \ {c}
  /\ UNCHANGED <<executionVars, response, seen, error>>

PollSleep(c) ==
  /\ ~irq_event
  /\ Move(c, "poll", "pollsleep")
  /\ UNCHANGED <<engineVars, outcome, seen, error>>

PollWoken(c) ==
  /\ c \notin irq_wq
  /\ Move(c, "pollsleep", "poll")
  /\ irq_wq' = irq_wq \cup {c}
  /\ UNCHANGED <<executionVars, response, irq_event, outcome, seen, error>>

\* The timeout of the caller; the driver's poll is asked once more.
PollTimeout(c) ==
  /\ Move(c, "pollsleep", "polllast")
  /\ UNCHANGED <<engineVars, outcome, seen, error>>

PollGiveUp(c) ==
  /\ ~irq_event
  /\ Move(c, "polllast", "user")
  /\ irq_wq' = irq_wq \ {c}
  /\ UNCHANGED <<executionVars, response, irq_event, outcome, seen, error>>

PollStep(c) == PollReady(c) \/ PollSleep(c) \/ PollWoken(c) \/ PollGiveUp(c)

-----------------------------------------------------------------------------
(* read: never waits, and returns the response whether it is new or not    *)

Read(c) ==
  /\ call[c] = "user"
  /\ seen' = [seen EXCEPT ![c] = response]
  /\ Tell(c, "none")
  /\ UNCHANGED <<engineVars, call, error>>

-----------------------------------------------------------------------------
(* READ_OUTPUT: dx->responses has no producer, so it is always empty and   *)
(* the command always waits; it has nothing to return when it has waited.  *)

OutputWait(c) ==
  /\ Move(c, "user", "output")
  /\ Tell(c, "none")
  /\ irq_wq' = irq_wq \cup {c}
  /\ UNCHANGED <<executionVars, response, irq_event, seen, error>>

\* The client has given no place for the response: -1, without a wait.
OutputNull(c) ==
  /\ call[c] = "user"
  /\ Tell(c, "noplace")
  /\ UNCHANGED <<engineVars, call, seen, error>>

\* The condition is read without irq_event_lock.
OutputReady(c) ==
  /\ irq_event
  /\ Move(c, "output", "outputclear")
  /\ irq_wq' = irq_wq \ {c}
  /\ UNCHANGED <<executionVars, response, irq_event, outcome, seen, error>>

OutputSleep(c) ==
  /\ ~irq_event
  /\ Move(c, "output", "outputsleep")
  /\ UNCHANGED <<engineVars, outcome, seen, error>>

OutputWoken(c) ==
  /\ c \notin irq_wq
  /\ Move(c, "outputsleep", "output")
  /\ irq_wq' = irq_wq \cup {c}
  /\ UNCHANGED <<executionVars, response, irq_event, outcome, seen, error>>

\* A signal ends the wait; the result of wait_event_interruptible is lost.
OutputSignal(c) ==
  /\ Move(c, "outputsleep", "outputclear")
  /\ Tell(c, "signal")
  /\ irq_wq' = irq_wq \ {c}
  /\ UNCHANGED <<executionVars, response, irq_event, seen, error>>

OutputClear(c) ==
  /\ Move(c, "outputclear", "outputpop")
  /\ irq_event' = FALSE
  /\ UNCHANGED <<executionVars, response, irq_wq, outcome, seen, error>>

\* -1 in either case; outcome remembers whether a signal cut the wait short.
OutputPop(c) ==
  /\ Move(c, "outputpop", "user")
  /\ Tell(c, IF outcome[c] = "signal" THEN "signal" ELSE "nodata")
  /\ UNCHANGED <<engineVars, seen, error>>

OutputStep(c) ==
  OutputReady(c) \/ OutputSleep(c) \/ OutputWoken(c) \/ OutputClear(c) \/ OutputPop(c)

-----------------------------------------------------------------------------
(* TERMINATE and IDENTIFY_DEVICE                                           *)

\* Faulty: the sleepers are not woken.
TerminateSilently(c) ==
  /\ Move(c, "user", "terminate")
  /\ irq_event' = TRUE
  /\ UNCHANGED <<executionVars, response, irq_wq, outcome, seen, error>>

\* One critical section of irq_event_lock: an event that no DSP caused.
TerminateEvent(c) ==
  /\ Move(c, "user", "terminate")
  /\ irq_event' = TRUE
  /\ irq_wq' = {}
  /\ UNCHANGED <<executionVars, response, outcome, seen, error>>

\* Faulty: a second TERMINATE adds to the code of the first.
TerminateErrorAddsUp(c) ==
  /\ Move(c, "terminate", "user")
  /\ error' = error + 99
  /\ UNCHANGED <<engineVars, outcome, seen>>

\* error_wq, which is woken too, has no sleeper: EVENT has no handler.
TerminateError(c) ==
  /\ Move(c, "terminate", "user")
  /\ error' = 99
  /\ UNCHANGED <<engineVars, outcome, seen>>

Identify(c) ==
  /\ call[c] = "user"
  /\ response' = 0
  /\ UNCHANGED <<executionVars, irq_event, irq_wq, consumerVars>>

-----------------------------------------------------------------------------
\* What a consumer in a system call does without further input.
ConsumerStep(c) ==
  OpenEvent(c) \/ PollStep(c) \/ OutputStep(c) \/ TerminateError(c)

ConsumerRequest(c) ==
  \/ OpenResponse(c) \/ Release(c) \/ PollWait(c) \/ PollTimeout(c) \/ Read(c)
  \/ OutputWait(c) \/ OutputNull(c) \/ OutputSignal(c)
  \/ TerminateEvent(c) \/ Identify(c)

EventNext ==
  \/ EngineNext /\ UNCHANGED consumerVars
  \/ \E c \in Consumers : ConsumerStep(c) \/ ConsumerRequest(c)

(***************************************************************************)
(* The fairness of the engine, and of a process inside a system call.  No  *)
(* process need ever make a call, time out or be signalled.                *)
(***************************************************************************)
EventSafety == EventInit /\ [][EventNext]_eventVars
EventSpec ==
  /\ EventSafety
  /\ \A t \in Threads : WF_eventVars(RunStep(t) /\ UNCHANGED consumerVars)
  /\ WF_eventVars((\E i \in ReqIds : DspStart(i)) /\ UNCHANGED consumerVars)
  /\ WF_eventVars(DspFinish /\ UNCHANGED consumerVars)
  /\ WF_eventVars(IrqStep /\ UNCHANGED consumerVars)
  /\ \A c \in Consumers : WF_eventVars(ConsumerStep(c))

-----------------------------------------------------------------------------
Sleeping == {"pollsleep", "outputsleep"}

EventTypeOK ==
  /\ EngineTypeOK
  /\ call \in [Consumers -> {"closed", "opening", "user", "poll", "polllast", "output",
                             "outputclear", "outputpop", "terminate"} \cup Sleeping]
  /\ outcome \in [Consumers -> {"none", "ready", "signal", "nodata", "noplace"}]
  /\ seen \in [Consumers -> ReqIds \cup {0}]
  /\ error \in {0, 99}
  /\ irq_wq \subseteq Consumers

(***************************************************************************)
(* No lost wake-up: while an event is recorded, a process that sleeps and  *)
(* that no wake-up has reached has one coming, because the handler sets    *)
(* irq_event before it wakes (lines 72-75), TERMINATE does both under the  *)
(* lock, and poll and READ_OUTPUT register before they test.  A process    *)
(* may be in the middle of the loss (two processes, the handler).          *)
(***************************************************************************)
NoLostEventWakeup ==
  irq_event =>
    \A c \in Consumers :
      call[c] \in Sleeping /\ c \in irq_wq => handler = "wake"

(***************************************************************************)
(* An event that is recorded while somebody waits for it is taken: the     *)
(* processes in poll and READ_OUTPUT do not all sleep on it, whatever      *)
(* order they and the handler run in.                                      *)
(***************************************************************************)
Waiting(c) == call[c] \in Sleeping \cup {"poll", "polllast", "output"}
EventTaken == (irq_event /\ \E c \in Consumers : Waiting(c)) ~> ~irq_event

(***************************************************************************)
(* READ_OUTPUT as its comment describes it (dxrt_drv_message.c:277-282):   *)
(* it waits until the queue is not empty, and returns 0 with the data.  As *)
(* long as nobody has sent TERMINATE, a command whose wait was not ended   *)
(* by a signal does not come back without data.                            *)
(***************************************************************************)
ReadOutputDelivers == error = 0 => \A c \in Consumers : outcome[c] # "nodata"
=============================================================================
