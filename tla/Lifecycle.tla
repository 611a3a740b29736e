----------------------------- MODULE Lifecycle ------------------------------
(***************************************************************************)
(* The life of the device: dxrt_dsp_driver_probe acquires one thing after  *)
(* another, dxrt_dsp_driver_remove gives them back.  Processes, the kernel *)
(* thread, the DSP and the interrupt handler are at work meanwhile, as far *)
(* as it matters what they touch.                                          *)
(*                                                                         *)
(* Each acquisition may fail.  What the code does then differs: some       *)
(* failures end the probe, all but one of them after a cleanup; others are *)
(* ignored, and the device then exists although it was not set up.  An     *)
(* access to what is not there is the end: oops names it.                  *)
(***************************************************************************)
EXTENDS Naturals, Sequences

CONSTANTS
  Clients,      \* processes that use the device
  MaxQueued     \* bound on the entries in dx->requests

ASSUME LifecycleAssumption == MaxQueued \in Nat

VARIABLES
  at,           \* the step of probe or remove that comes next
  held,         \* what has been acquired and not given back
  ignored,      \* the failures after which the code went on
  initialised,  \* which of dsp->irq_wq, dx->dsp and dx->requests are set
  stop,         \* kthread_stop has been called
  thread,       \* the kernel thread, with "none" for a null request_handler
  queue,        \* how many entries dx->requests has
  files,        \* the processes that have the device open
  status,       \* the register that is both STATUS and RESET_CTRL
  vector,       \* what that register held when the DSP was started
  executing,    \* the DSP executes a message
  irq,          \* the interrupt line of the mailbox
  handler,      \* where the interrupt handler stands
  abandoned,    \* the interrupt was freed with a message on its way (history)
  oops          \* the access that ended everything, or "none"

setupVars == <<at, held, ignored, initialised>>
threadVars == <<stop, thread, queue>>
dspVars == <<status, vector, executing, irq, handler>>
lifecycleVars == <<setupVars, threadVars, files, dspVars, abandoned, oops>>

Maps == {"sys", "power", "debug", "mailbox", "sram", "dram"}
Resources == {"region", "class", "dxdev", "cdev", "node", "dsp", "irq", "dma", "thread"}
             \cup Maps

Chain(s) == {<<s[i], s[i + 1]>> : i \in 1 .. Len(s) - 1}

\* Faulty: STATUS is cleared after the vector was written to the same register.
ProbeOrderVectorEarly == Chain(
  <<"region", "class", "dxdev", "cdev", "node", "dsp", "tree",
    "sys", "power", "debug", "mailbox", "sram", "dram", "irq", "wq", "dma",
    "vector", "status", "pulse", "pointer", "lists", "thread", "ready">>)

\* The order of dxrt_dsp_driver_cdev_init, create_dxrt_device, dxrt_dsp_init
\* (the device tree) and dx_v3_dsp_init (from the maps to the pulse).
ProbeOrder == Chain(
  <<"region", "class", "dxdev", "cdev", "node", "dsp", "tree",
    "sys", "power", "debug", "mailbox", "sram", "dram", "irq", "wq", "dma",
    "status", "vector", "pulse", "pointer", "lists", "thread", "ready">>)

\* Faulty: the registers are unmapped before the interrupt is freed.
RemoveOrderUnmapEarly == Chain(
  <<"stop", "dma", "sys", "power", "debug", "mailbox", "sram", "dram", "irq",
    "dsp", "node", "cdev", "dxdev", "class", "region", "absent">>)

\* The order of dxrt_dsp_driver_cdev_deinit, with dx_v3_dsp_deinit inside.
RemoveOrder == Chain(
  <<"stop", "dma", "irq", "sys", "power", "debug", "mailbox", "sram", "dram",
    "dsp", "node", "cdev", "dxdev", "class", "region", "absent">>)

LifecycleInit ==
  /\ at = "absent"
  /\ held = {} /\ ignored = {} /\ initialised = {}
  /\ stop = FALSE /\ thread = "none" /\ queue = 0
  /\ files = {}
  /\ status \in {"idle", "busy"}
  /\ vector = "none"
  /\ executing = FALSE /\ irq = FALSE /\ handler = "idle"
  /\ abandoned = FALSE
  /\ oops = "none"

Oops(what) == oops' = what

-----------------------------------------------------------------------------
(* probe                                                                   *)

\* After "nomemory" there is no other probe: the class that is left behind
\* keeps its name taken.
Probe ==
  /\ at \in {"absent", "failed"}
  /\ at' = "region"
  /\ held' = {} /\ ignored' = {} /\ initialised' = {}
  /\ stop' = FALSE /\ thread' = "none" /\ queue' = 0
  /\ UNCHANGED <<files, dspVars, abandoned, oops>>

Proceed == ~stop /\ \E step \in ProbeOrder : at = step[1] /\ at' = step[2]

Acquire ==
  /\ Proceed
  /\ at \in Resources
  /\ held' = held \cup {at}
  /\ thread' = IF at = "thread" THEN "wait" ELSE thread
  /\ UNCHANGED <<ignored, initialised, stop, queue, files, dspVars, abandoned, oops>>

Initialise(step, what) ==
  /\ Proceed
  /\ at = step
  /\ initialised' = initialised \cup what
  /\ UNCHANGED <<held, ignored, threadVars, files, dspVars, abandoned, oops>>

ReadDeviceTree == Initialise("tree", {})
InitWaitQueue == Initialise("wq", {"wq"})
SetDsp == Initialise("pointer", {"pointer"})
InitLists == Initialise("lists", {"lists"})

ClearStatus ==
  /\ Proceed
  /\ at = "status"
  /\ status' = "idle"
  /\ UNCHANGED <<held, ignored, initialised, threadVars, files, vector, executing,
                 irq, handler, abandoned, oops>>

WriteVector ==
  /\ Proceed
  /\ at = "vector"
  /\ status' = "code"
  /\ UNCHANGED <<held, ignored, initialised, threadVars, files, vector, executing,
                 irq, handler, abandoned, oops>>

\* The reset takes the DSP out of what it may have been doing since the last
\* load, and starts it from the address in the register.
Pulse ==
  /\ Proceed
  /\ at = "pulse"
  /\ vector' = status
  /\ executing' = FALSE
  /\ UNCHANGED <<held, ignored, initialised, threadVars, files, status, irq,
                 handler, abandoned, oops>>

-----------------------------------------------------------------------------
(* Failures                                                                *)

\* Faulty: a failing device_create leaves the class.
CleanupKeepsClass(step) ==
  CASE step = "class" -> {"region"}
    [] step = "cdev" -> {"dxdev", "class", "region"}
    [] step = "node" -> {"cdev", "dxdev", "region"}
    [] OTHER -> {}

\* What the code gives back when the step fails.
Cleanup(step) ==
  CASE step = "class" -> {"region"}
    [] step = "cdev" -> {"dxdev", "class", "region"}
    [] step = "node" -> {"cdev", "dxdev", "class", "region"}
    [] OTHER -> {}

\* The probe fails, after the cleanup that belongs to the step.
ProbeFails ==
  /\ ~stop
  /\ at \in {"region", "class", "cdev", "node"}
  /\ at' = "failed"
  /\ held' = held \ Cleanup(at)
  /\ UNCHANGED <<ignored, initialised, threadVars, files, dspVars, abandoned, oops>>

\* The kmalloc of dxdev fails: NULL, and the caller returns -1; neither gives
\* anything back.
NoMemory ==
  /\ ~stop
  /\ at = "dxdev"
  /\ at' = "nomemory"
  /\ UNCHANGED <<held, ignored, initialised, threadVars, files, dspVars, abandoned, oops>>

\* dxrt_dsp_init returns a null pointer, or the error of dsp->init is not
\* looked at: the probe goes on.
SetupFails ==
  /\ ~stop
  /\ at \in {"dsp", "tree", "irq", "dma"} \cup Maps
  /\ at' = IF at \in {"dsp", "tree"} THEN "lists" ELSE "pointer"
  /\ ignored' = ignored \cup {at}
  /\ UNCHANGED <<held, initialised, threadVars, files, dspVars, abandoned, oops>>

\* request_handler is an error code, and not null.
ThreadFails ==
  /\ ~stop
  /\ at = "thread"
  /\ at' = "ready"
  /\ ignored' = ignored \cup {at}
  /\ thread' = "error"
  /\ UNCHANGED <<held, initialised, stop, queue, files, dspVars, abandoned, oops>>

-----------------------------------------------------------------------------
(* remove                                                                  *)

\* The module is not unloaded while a process has the device open.
Remove ==
  /\ at = "ready" /\ files = {}
  /\ IF thread = "error"
     THEN Oops("stop") /\ UNCHANGED <<at, stop>>
     ELSE at' = "stop" /\ stop' = TRUE /\ UNCHANGED oops
  /\ UNCHANGED <<held, ignored, initialised, thread, queue, files, dspVars, abandoned>>

Retreat == stop /\ \E step \in RemoveOrder : at = step[1] /\ at' = step[2]

\* Faulty: kthread_stop does not wait.
JoinNobody ==
  /\ at = "stop"
  /\ IF "pointer" \in initialised THEN Retreat ELSE at' = "node"
  /\ held' = held \ {"thread"}
  /\ UNCHANGED <<ignored, initialised, threadVars, files, dspVars, abandoned, oops>>

\* kthread_stop returns; without dx->dsp there is no dsp->deinit.
JoinThread ==
  /\ at = "stop" /\ thread = "end"
  /\ IF "pointer" \in initialised THEN Retreat ELSE at' = "node"
  /\ held' = held \ {"thread"}
  /\ UNCHANGED <<ignored, initialised, threadVars, files, dspVars, abandoned, oops>>

\* disable_irq and synchronize_irq wait for the handler; then no other enters.
Release ==
  /\ stop /\ at \in Resources
  /\ at = "irq" => handler = "idle"
  /\ IF at \in held
     THEN Retreat /\ held' = held \ {at} /\ UNCHANGED oops
     ELSE Oops("release") /\ UNCHANGED <<at, held>>
  /\ abandoned' = (abandoned \/ (at = "irq" /\ (executing \/ irq)))
  /\ UNCHANGED <<ignored, initialised, threadVars, files, dspVars>>

-----------------------------------------------------------------------------
(* Processes and the kernel thread                                         *)

\* The node exists before dx->dsp does, which open follows.
Open(c) ==
  /\ "node" \in held /\ ~stop
  /\ c \notin files
  /\ IF "pointer" \in initialised
     THEN files' = files \cup {c} /\ UNCHANGED oops
     ELSE Oops("open") /\ UNCHANGED files
  /\ UNCHANGED <<setupVars, threadVars, dspVars, abandoned>>

Close(c) ==
  /\ c \in files
  /\ files' = files \ {c}
  /\ UNCHANGED <<setupVars, threadVars, dspVars, abandoned, oops>>

\* write does nothing while request_handler is null.
Write(c) ==
  /\ c \in files
  /\ thread # "none" /\ queue < MaxQueued
  /\ IF "lists" \in initialised
     THEN queue' = queue + 1 /\ UNCHANGED oops
     ELSE Oops("write") /\ UNCHANGED queue
  /\ UNCHANGED <<setupVars, stop, thread, files, dspVars, abandoned>>

\* poll registers on dsp->irq_wq, whether or not dx_v3_dsp_init came so far.
PollUninitialised(c) ==
  /\ c \in files
  /\ "wq" \notin initialised
  /\ Oops("poll")
  /\ UNCHANGED <<setupVars, threadVars, files, dspVars, abandoned>>

\* Faulty: the list is not tested.
TakeUntested ==
  /\ thread = "wait" /\ ~stop
  /\ thread' = "run"
  /\ UNCHANGED <<setupVars, stop, queue, files, dspVars, abandoned, oops>>

ThreadTake ==
  /\ thread = "wait" /\ ~stop /\ queue > 0
  /\ thread' = "run"
  /\ UNCHANGED <<setupVars, stop, queue, files, dspVars, abandoned, oops>>

\* dsp->run as far as the lock and the start of the message; DspEngine has the
\* rest.  A DSP that was not started does nothing with it, and one started from
\* anywhere but the code may do nothing.
ThreadRun ==
  /\ thread = "run"
  /\ IF {"sys", "sram"} \subseteq held
     THEN /\ status # "busy"
          /\ status' = "busy"
          /\ executing' \in BOOLEAN
          /\ vector = "none" => ~executing'
          /\ vector = "code" => executing'
          /\ thread' = "wait"
          /\ queue' = queue - 1
          /\ UNCHANGED oops
     ELSE Oops("run") /\ UNCHANGED <<status, executing, thread, queue>>
  /\ UNCHANGED <<setupVars, stop, files, vector, irq, handler, abandoned>>

ThreadEnd ==
  /\ thread = "wait" /\ stop
  /\ thread' = "end"
  /\ UNCHANGED <<setupVars, stop, queue, files, dspVars, abandoned, oops>>

-----------------------------------------------------------------------------
(* The DSP and the interrupt handler                                       *)

DspFinish ==
  /\ executing
  /\ executing' = FALSE
  /\ irq' = TRUE
  /\ UNCHANGED <<setupVars, threadVars, files, status, vector, handler, abandoned, oops>>

HandlerEnter ==
  /\ irq /\ "irq" \in held
  /\ handler = "idle"
  /\ handler' = "registers"
  /\ UNCHANGED <<setupVars, threadVars, files, status, vector, executing, irq,
                 abandoned, oops>>

\* Faulty: STATUS is not given back.
HandlerKeepsStatus ==
  /\ handler = "registers"
  /\ IF {"sys", "mailbox"} \subseteq held
     THEN irq' = FALSE /\ handler' = "wake" /\ UNCHANGED oops
     ELSE Oops("handler") /\ UNCHANGED <<irq, handler>>
  /\ UNCHANGED <<setupVars, threadVars, files, status, vector, executing, abandoned>>

HandlerRegisters ==
  /\ handler = "registers"
  /\ IF {"sys", "mailbox"} \subseteq held
     THEN irq' = FALSE /\ status' = "idle" /\ handler' = "wake" /\ UNCHANGED oops
     ELSE Oops("handler") /\ UNCHANGED <<irq, status, handler>>
  /\ UNCHANGED <<setupVars, threadVars, files, vector, executing, abandoned>>

HandlerWake ==
  /\ handler = "wake"
  /\ IF "wq" \in initialised
     THEN handler' = "idle" /\ UNCHANGED oops
     ELSE Oops("wake") /\ UNCHANGED handler
  /\ UNCHANGED <<setupVars, threadVars, files, status, vector, executing, irq, abandoned>>

-----------------------------------------------------------------------------
ProbeStep ==
  \/ Acquire \/ ReadDeviceTree \/ InitWaitQueue \/ SetDsp \/ InitLists
  \/ ClearStatus \/ WriteVector \/ Pulse
  \/ ProbeFails \/ NoMemory \/ SetupFails \/ ThreadFails

RemoveStep == JoinThread \/ Release
ThreadStep == ThreadTake \/ ThreadRun \/ ThreadEnd
HandlerStep == HandlerEnter \/ HandlerRegisters \/ HandlerWake

LifecycleNext ==
  /\ oops = "none"
  /\ \/ Probe \/ ProbeStep \/ Remove \/ RemoveStep
     \/ \E c \in Clients : Open(c) \/ Close(c) \/ Write(c) \/ PollUninitialised(c)
     \/ ThreadStep \/ DspFinish \/ HandlerStep

LifecycleSafety == LifecycleInit /\ [][LifecycleNext]_lifecycleVars

(***************************************************************************)
(* What has begun goes on: probe, remove, the thread, the handler and the  *)
(* message in execution.  Nobody need load or unload the module.           *)
(***************************************************************************)
LifecycleSpec ==
  /\ LifecycleSafety
  /\ WF_lifecycleVars(oops = "none" /\ ProbeStep)
  /\ WF_lifecycleVars(oops = "none" /\ RemoveStep)
  /\ WF_lifecycleVars(oops = "none" /\ ThreadStep)
  /\ WF_lifecycleVars(oops = "none" /\ DspFinish)
  /\ WF_lifecycleVars(oops = "none" /\ HandlerStep)

-----------------------------------------------------------------------------
Steps == Resources \cup {"absent", "failed", "nomemory", "tree", "wq", "status", "vector",
                         "pulse", "pointer", "lists", "ready", "stop"}

LifecycleTypeOK ==
  /\ at \in Steps
  /\ held \subseteq Resources
  /\ ignored \subseteq Resources \cup {"tree"}
  /\ initialised \subseteq {"wq", "pointer", "lists"}
  /\ stop \in BOOLEAN
  /\ thread \in {"none", "error", "wait", "run", "end"}
  /\ queue \in 0 .. MaxQueued
  /\ files \subseteq Clients
  /\ status \in {"code", "idle", "busy"}
  /\ vector \in {"none", "code", "idle", "busy"}
  /\ executing \in BOOLEAN /\ irq \in BOOLEAN
  /\ handler \in {"idle", "registers", "wake"}
  /\ abandoned \in BOOLEAN
  /\ oops \in {"none", "stop", "release", "open", "write", "poll", "run", "handler", "wake"}

(***************************************************************************)
(* However a life of the device ends, by any failure that ends probe or by *)
(* remove, and whatever failures were ignored on the way, everything is    *)
(* given back, with two exceptions: when the kmalloc of dxdev fails        *)
(* (dxrt_drv_cdev.c:242-246) the class and the region stay, which are      *)
(* given back at each later failure (255-273); and when the device tree    *)
(* lacks something, dxrt_dsp_init returns NULL and keeps its dsp, which    *)
(* remove then does not know of (dxrt_drv_dsp.c:71-150, 170-173).          *)
(***************************************************************************)
LeftBehind ==
  IF at = "nomemory" THEN {"region", "class"}
  ELSE IF "tree" \in ignored THEN {"dsp"}
  ELSE {}

NothingElseStays ==
  at \in {"absent", "failed", "nomemory"} => held = LeftBehind

(***************************************************************************)
(* The interrupt handler works on mapped registers and a dsp that exists,  *)
(* whatever failed before and whenever the interrupt comes: it is          *)
(* registered after the maps (line 199 after 146-189), and remove waits    *)
(* for it and frees it before it unmaps anything (298-307).                *)
(***************************************************************************)
HandlerHasRegisters == handler # "idle" => {"dsp", "sys", "mailbox", "irq"} \subseteq held

(***************************************************************************)
(* Every access to something that is not there goes back to one of three   *)
(* causes: a failure that was ignored, and one that explains the access;   *)
(* an open that overtook probe (dxrt_drv_cdev.c:265 before 276); or an     *)
(* interrupt left over from an earlier load, whose message remove had      *)
(* abandoned, that comes before irq_wq is initialised (line 199 before     *)
(* 206).  The handler's registers and the list of write are never among    *)
(* what is missing.                                                        *)
(***************************************************************************)
Unmapped == {"dsp", "tree"} \cup Maps

OopsHasCause ==
  /\ oops \notin {"write", "handler"}
  /\ oops = "stop" => "thread" \in ignored
  /\ oops = "release" => ignored \cap (Maps \cup {"irq", "dma"}) # {}
  /\ oops = "open" => (~stop /\ at \notin {"thread", "ready"}) \/ ignored \cap {"dsp", "tree"} # {}
  /\ oops = "run" => ignored \cap Unmapped # {}
  /\ oops = "poll" => ignored \cap ({"irq"} \cup Maps) # {}
  /\ oops = "wake" => abandoned

(***************************************************************************)
(* The DSP is started from the address of its code, although the register  *)
(* that holds the address is also STATUS, which the handler clears (line   *)
(* 69): no interrupt comes between the two writes (112, 126) unless remove *)
(* abandoned a message in an earlier life of the module.                   *)
(***************************************************************************)
StartsFromCode == vector \in {"none", "code"} \/ abandoned

(***************************************************************************)
(* remove comes to an end although kthread_stop waits for a thread that    *)
(* may be in the busy-wait of run: the interrupt is freed after the thread *)
(* has ended (dxrt_drv_cdev.c:349, 352), so STATUS is given back in time.  *)
(* Two provisos: no failure was ignored (without its registers or its      *)
(* irq the thread may end in an oops or never leave run), and no message   *)
(* of an earlier load was abandoned (its interrupt may make the DSP start  *)
(* from what is not its code, and STATUS stays busy).                      *)
(***************************************************************************)
RemoveEnds ==
  stop /\ ignored = {} /\ ~abandoned ~> at = "absent"
=============================================================================
