# A verification project for the DEEPX V3 DSP driver

The repository is a Linux character-device driver for the DSP of the DX-V3.
User processes hand requests to the driver, the driver puts each into the SRAM
of the DSP, the DSP raises an interrupt when it is done, and the processes
learn of it with `poll` and `read`. This directory holds TLA+ modules of the
driver's logic, configurations that check them with TLC, and proofs that TLAPS
checks. Every definition is translated from the C source; `PROJECT.json` maps
each one to its lines.

Paths below are relative to `src/modules/`.

## 1. Inventory

| Component | Source | State it keeps | Operations |
|---|---|---|---|
| Execution engine | `rt/dxrt_drv_dsp_v3.c` 40-78, 242-276 | `STATUS` register, `dsp->req_id`, message slots in SRAM, interrupt line, `dx->response`, `dsp->irq_event`, `dsp->irq_wq` | `dx_v3_dsp_run`, `dsp_irq_handler` |
| Request queue and kernel thread | `rt/dxrt_drv_cdev.c` 71-107, 338-350; `rt/dxrt_drv_thread.c` | `dx->requests` with `requests_lock`, `request_wq`, the thread's entry, the stop flag | `write`, `dxrt_request_handler`, `kthread_stop` |
| Direct execution | `rt/dxrt_drv_message.c` 199-217 | none of its own | `WRITE_INPUT` |
| Event channel | `rt/dxrt_drv_cdev.c` 35-70, 151-169; `rt/dxrt_drv_message.c` 57-99, 288-360 | `irq_event` with `irq_event_lock`, `irq_wq`, `dx->response`, `dx->responses`, `dx->error` | `open`, `release`, `poll`, `read`, `READ_OUTPUT`, `TERMINATE`, `IDENTIFY_DEVICE` |
| Buffer manager | `rt/dxrt_drv_message.c` 563-669; `rt/dxrt_drv_dsp_v3.c` 132-138 | `g_dsp_memory_manager.buffers` | `ALLOC_BUF`, `FREE_BUF` |
| Reset and recovery | `rt/dxrt_drv_message.c` 487-494, 549-556; `rt/dxrt_drv_dsp_v3.c` 105-131 | reset line, reset vector (the same register as `STATUS`) | `RESET`, `RECOVERY` |
| Lifecycle | `rt/dxrt_drv.c`; `rt/dxrt_drv_cdev.c` 238-357; `rt/dxrt_drv_dsp.c`; `rt/dxrt_drv_dsp_v3.c` 139-235, 293-314 | what has been acquired: character device, node, register mappings, interrupt, DMA buffer, thread | `probe`, `remove` |
| Command dispatch | `rt/dxrt_drv_cdev.c` 187-224; `rt/dxrt_drv_message.c` 671-705 | the table `message_handler` | `ioctl` |
| Memory window | `rt/dxrt_drv_message.c` 75-76, 138-179, 374-456; `rt/dxrt_drv_cdev.c` 108-150 | `dev->mem_addr`, `dev->mem_size` | `WRITE_MEM`, `READ_MEM`, `CPU_CACHE_FLUSH`, `mmap` |

The remaining commands (`GET_STATUS`, `SCHEDULE`, `DRV_INFO`, `DSP_RUN_REQ`, …)
return without changing anything. Clock and register-dump functions, the build
and installation scripts and the firmware images are not modelled.

How the components interact:

- `write` (a process) and `dxrt_request_handler` (a kernel thread) share the
  list `requests`, under a lock, and `request_wq`, outside it.
- The thread and `WRITE_INPUT` (any process) both call `dsp->run`. The mutex
  that kept them apart is commented out (`dxrt_drv_dsp_v3.c` 249, 273).
- `run` and the interrupt handler share `STATUS`, which is a lock whose holder
  is a message, and `dsp->req_id`. `run` and the firmware share the SRAM.
- The handler, `poll`, `READ_OUTPUT`, `TERMINATE`, `open` and `IDENTIFY_DEVICE`
  share one event flag, one wait queue and one response record.
- `ALLOC_BUF` and `FREE_BUF` share the slot table, under `irq_event_lock`.
- `IDENTIFY_DEVICE` writes the window that `WRITE_MEM`, `READ_MEM` and
  `CPU_CACHE_FLUSH` check against, without a lock.

What is hard: the two-step busy-wait of `run`, the shared `req_id` that both the
slot and the response are taken from, wake-ups sent outside the lock under
which the condition changes, an entry used outside the lock of its list, one
event and one response for all requests and processes, copies to user space
that fail after state has changed, a window checked in pieces while it is
written, a thread that must end while it waits for hardware, a reset that
discards the message whose interrupt would release `STATUS`, and a probe of more than
twenty steps each of which may fail or be overtaken. `PROJECT.json` lists each
hazard at its line.

What makes each component correct:

- *Engine*: one message at a time between taking and giving back `STATUS`; the
  data and header of a message belong together and are in the slot of its
  identifier; the response is that of the message completed; a busy `STATUS` is
  always given back.
- *Queue and thread*: no lost wake-up; the entry in use stays in the list;
  requests are executed in order, each exactly once; the thread can be stopped.
- *Event channel*: no lost wake-up; an event that somebody waits for is taken.
- *Whole driver*: a client gets the response to its own request, and gets one,
  whoever opens or identifies the device meanwhile.
- *Reset and recovery*: a reset tears no message, lets no second one in, and
  leaves `STATUS` behind only with a message it discarded. `RECOVERY` restores
  service (it does not).
- *Lifecycle*: what `probe` acquires is given back once (with two exceptions it
  is); the handler, the thread
  and the processes find what they use; the DSP starts from its code; `remove`
  ends.
- *Buffer manager*: a slot has at most one owner; the table agrees with the
  clients; nothing but the exit of an owner loses a slot; a slot is freed once
  per allocation, and a wrong free harms no other slot.
- *Commands and window*: what passes the checks is inside the window; what was
  advertised passes them; an invalid command is refused (two kinds are not).

## 2. Modules

    DspEngine ──────┬── RequestPath ──┬── DspDriver
                    ├── EventChannel ─┘
                    └── Recovery
    RequestService  (implemented by RequestPath)
    RemoteCall      (implemented by DspDriver)
    BufferManager ──── SlotPool  (implemented by BufferManager)
    DeviceCommands
    Lifecycle

Modules named `MC…` give the constants values for TLC; modules named `…Proofs`
hold the theorems of the module they extend. An operator whose comment begins
with *Faulty:* is a variant of the next definition with a plausible bug. No
specification uses it; it serves to show that a property notices the bug.

### DspEngine

One action for each access of `run` and of the interrupt handler to something
shared. A thread in `run` moves through

    out → spin → lock → id → offset → data → head → out

(`EnterRun`, `Spin`, `Lock`, `SetId`, `Offset`, `WriteData`, `WriteHead`;
lines 242, 255, 256, 258, 263, 266, 268), and the handler through

    idle → respond → ack → release → event → wake → idle

(`IrqEnter` … `IrqWake`; lines 40, 62, 65-66, 69, 72-74, 75). `status` is what
`STATUS` reads, `sram[i]` the message in slot `i` as a pair of the request its
data and the request its header came from. The loop on `STATUS` is the guard of
`Spin`: reads that return busy change nothing. `STATUS` is the same register as
`RESET_CTRL`, the address the DSP starts from. When `dx_v3_dsp_start` has
returned it holds that address (`"code"`); the first message replaces it.

The firmware is not in the repository. `DspStart` and `DspFinish` are what the
driver relies on: it takes a posted header, runs one message at a time and
raises the interrupt. They are marked external.

The constant `Serialized` says whether the callers of `run` take turns. `Call`,
the action that begins a call when the engine is checked by itself, has it as a
guard; `RequestPath` replaces `Call` by the real callers.

`completed` is a history variable: the message whose completion has not been
released yet.

`BusyHasWork` and `EachStepOnce` are what the liveness of the engine rests on and
what can be said of it without fairness. The first says that a busy `STATUS` has
something behind it on whose way it is released, and needs no turns. The second
says that the measure `StepsLeft` goes down by one with every step but a call,
which adds fourteen: no step is taken twice and none is skipped, also while the
handler of one message, which still records the event and wakes after it has
released `STATUS`, overlaps the next message. It measures no time: the interrupt
of the next message waits until the handler has returned.

### Recovery

`DspEngine` with firmware that may hang (`Hang`), and `RESET` and `RECOVERY`.
Both are the same pulse of the reset line, two writes with a delay between
(`RaiseLine`, `DropLine`; `rt/dxrt_drv_dsp_v3.c` 126, 127-131), by any number of
processes at once, since no lock is taken: a second process may drop the line
under the first. Raising the line discards what the DSP executes; `lost`
remembers it. What the firmware does when it starts is the environment's
choice: it works if the register still holds the address of the code and may
hang if a message has replaced it, and it takes a message posted meanwhile or,
if `Forgetful`, discards it. The run `engine` has callers that take turns; what is
left of the lock when they overlap is proved (`OverlapStrandsByLoss`).

### RequestPath and RequestService

`Enqueue` and `WakeWorker` are `write`, with a step between `list_add_tail` and
the wake-up; the actions `Thread…` are the kernel thread, with `wait_event` cut
into registering, testing and sleeping, as in the kernel; `Stop` is
`kthread_stop`, and `WriteInput` the direct call of `run`. `request_wq` is TRUE
while the thread is registered and no wake-up has reached it.

`RequestService` is the promise: a FIFO whose head becomes active, is reported,
and makes room for the next. The refinement mapping takes a request off the
abstract list when its header is written, though its entry is unlinked later,
and lets it be active until the handler has taken the response. After `Stop`
the abstract service begins at most the one request the thread had already
chosen.

### EventChannel

`open`, `release`, `poll`, `read`, `READ_OUTPUT`, `TERMINATE` and
`IDENTIFY_DEVICE` as a process executes them, each access to the shared flag,
record or queue a step, with the timeouts of `poll`, signals to `READ_OUTPUT`,
and a `READ_OUTPUT` without a place for the response, which returns at once
(`OutputNull`). `dx->responses` has no producer in the repository, so it is empty
in every state and is not a variable.

### DspDriver and RemoteCall

The composition under a client that opens the device, and then writes a
request, polls (and polls again after a timeout) until the device is ready, and
reads. The client has at most one request outstanding. The driver does not
enforce that; with two outstanding requests one event and one response stand
for both, and no property of this module is claimed for that use.

Other processes (`Others`) open, identify and close the device at any moment.
That clears the one response (`OtherOpen`, `OtherIdentify`) and the one event
(`OtherOpen`). The history variable `discarded` says which of the two the client
has lost since it wrote. The properties say exactly what that costs: an `open`
or `IDENTIFY_DEVICE` may empty the response, never replace it by that of another
request; and only an `open` that comes after the handler has recorded the event
of this request, and before `poll` has taken it, leaves the client waiting.
Processes that write, poll or terminate besides the client are not in the
composition.

`RemoteCall` is the promise: a question is asked, replied to, noticed and heard,
in this order and once each, and the answer is that of the question; others can
make the device forget the answer (`Forget`) or make the client miss it (`Miss`).
The mapping takes the handler's step that stores the response for the reply
(`rt/dxrt_drv_dsp_v3.c` 62), the poll that takes the event for the notice, and
`read` for the hearing. A question is `"asked"` while the entry is in the list,
the message in flight or its interrupt pending, `"answered"` from the stored
response to the end of the event, and `"missed"` when it is in none of these
places. The conditions of the abstract steps carry the content: `read` never
waits, but it is called only after the notice, and the notice cannot come before
the reply, although the event that stands for it is one flag for all requests.

### BufferManager and SlotPool

`ALLOC_BUF` is `Alloc` (search and mark, one critical section of
`irq_event_lock`) followed by `AllocReturn` or, when the copy to the user fails,
`AllocRollback`. `FREE_BUF` is `Free` or `FreeBogus` (the call) followed by `FreeFault`,
`FreeSearch` or `FreeNotFound`. The table does not record owners. `Free` is the
call of a client that names a slot it holds; `FreeBogus` names any other offset:
of a slot that is free or never was used, of one that another client has, or of
none. `Exit` is the end of a process; `release` gives nothing back.

Three history variables say what the table does not: `orphaned` collects the slots
that are lost, `freed` says that the last command of a client was a `FREE_BUF` that
returned 0, and `contested` collects the slots that were given back by a client
that did not have them. About a contested slot no claim of ownership can be made,
since the code cannot tell; `ExclusiveOwnership` and `SlotAccounting` hold of all
others, so the harm of a wrong `FREE_BUF` stays with the slot it names.
`FreedOncePerAllocation` holds of all slots and clients.

`SlotPool` is the promise: a slot goes from free to one owner and back from
that owner, or is lost with it; the promise for a slot ends when somebody else
gives it back (`Dispute`).

### DeviceCommands

The ioctl, from its range check to the return, for `IDENTIFY_DEVICE` and the
commands that address memory; the other handlers with state are in the modules
above. A process moves through

    user → addr → size → info → user      IDENTIFY_DEVICE
    user → low → limit → copy → user      WRITE_MEM, READ_MEM, CPU_CACHE_FLUSH

one step for each access to the shared `mem_addr` and `mem_size`
(`dxrt_drv_message.c` 75, 76, 83-98 and 163, 164, 171). An ioctl that is not
handled ends at once: another magic (`IssueForeign`, refused), another number
(`IssueUnknown`, which returns 0), a message out of range (`IssueInvalid`,
refused), one without a handler (`IssueMissing`), a failing copy of the message or
its argument (`IssueFault`) or no argument (`IssueNull`). The second comparison
uses `mem_addr` as the first read it or reads it again, as the compiler likes.
Sums are taken modulo `Space`, the width of the fields. `oops` is where a
command without a handler ends. `identified` and `settled` are history
variables: whether the window has been set, and whether it had been when the
process began its call. The contents of the memory and `mmap` are left out.

### Lifecycle

`probe` goes through 22 steps, from `alloc_chrdev_region` to `kthread_run`, and
`remove` through 15. The orders are data (`ProbeOrder`, `RemoveOrder`), `at` is
the step that comes next, and `held` is what has been acquired. Each acquisition may fail
in the way the code treats that failure:

- `ProbeFails`: the probe ends, after the cleanup written at that place
  (`Cleanup`; `rt/dxrt_drv_cdev.c` 255-273, 313-333).
- `NoMemory`: the probe ends without any cleanup, when the `kmalloc` of `dxdev`
  fails (`rt/dxrt_drv_cdev.c` 242-246, 327-333). The class that stays keeps its name
  taken, so there is no other probe.
- `SetupFails`: `dxrt_dsp_init` returns NULL, or the result of `dsp->init` is
  dropped (`rt/dxrt_drv_dsp.c` 156), and the probe goes on with a device that is
  not set up.
- `ThreadFails`: `request_handler` is an error code, and later taken for a thread.

`ignored` collects the failures after which the probe goes on.
`NothingElseStays` says what is still held at the end of a life, by failure or by
`remove` and with ignored failures or without: nothing but class and region after
`NoMemory`, and the `dsp` that `dxrt_dsp_init` allocated and forgot when the device
tree lacked something. `initialised`
says which of `irq_wq`, `dx->dsp` and the lists are set; `Open` uses the second
as soon as the node exists, `Write` the third, and `HandlerWake` and `poll` the
first. The engine appears only as far as it matters here: the thread sets
`STATUS` busy, the DSP raises its interrupt, the handler clears `STATUS`. An
access to something that is not there sets `oops`, and nothing happens after it.
`vector` is what the register held when the DSP was started; `abandoned` says
that `remove` has freed the interrupt while the DSP had a message. The
module may be loaded again after `remove` or a failed `probe`, with the interrupt
line as it was left.

## 3. Runs

| Run | Configuration | Instance | Distinct states | Shows |
|---|---|---|---|---|
| `engine` | `MCDspEngine.cfg` | 2 threads that take turns, 3 requests, 2 of them with one identifier, 2 processes that reset, firmware that hangs and forgets | 26 058 | the engine's safety properties under resets at any moment; `STATUS` is left behind only with a discarded message |
| `recovery` | `MCRecovery.cfg` | 1 thread, 2 requests, 1 process that resets | violation | after a reset during a message `STATUS` is busy for ever |
| `path_worker` | `MCRequestPath.cfg` | 2 writers, 2 requests | 34 936 | the path implements the FIFO service; each step of a request is taken once; `STATUS` exact; wake-ups, entry, stop |
| `path_direct` | `MCDirectRun.cfg` | the thread and one `WRITE_INPUT` caller, 1 request | 74 768 | `STATUS` has work behind it, and is given back, even when callers of `run` overlap |
| `run_exclusive` | `MCRunExclusive.cfg` | as above, 2 requests | violation | two callers are past the busy-wait at once |
| `events` | `MCEventChannel.cfg` | 2 processes, 1 thread in `run` | 115 012 | no lost wake-up on `irq_wq`; an awaited event is taken |
| `read_output` | `MCReadOutput.cfg` | 1 process | violation | `READ_OUTPUT` comes back without data |
| `driver` | `MCDspDriver.cfg` | 1 client, 2 requests, 1 other process | 128 844 | the driver implements the remote call; own response, a response unless its event was discarded by an open, nothing left over |
| `buffers` | `MCBufferManager.cfg` | 3 clients, 2 slots, and an offset of none | 371 827 | exclusive ownership, accounting, the pool, and one successful free per allocation, with clients that give back what they do not hold |
| `commands` | `MCDeviceCommands.cfg` | 2 processes, 9 accesses, a window of 8 cells in a space of 32 | 278 831 | what passes ends inside, and is inside but for two exceptions; what is advertised passes |
| `invalid_command` | `MCInvalidCommand.cfg` | as above | violation | a message without a handler and an unknown ioctl number are not refused |
| `lifecycle` | `MCLifecycle.cfg` | 2 processes, 2 entries, any number of loads | 19 260 | everything is given back but what two failures leave behind; the handler has its registers; what can go wrong has one of three causes; `remove` ends |

Every property of a passing run has a mutant in `PROJECT.json`: a definition, and
its faulty variant under which TLC finds the property violated.

### What the four violations mean

`run_exclusive`: the comment at `dxrt_drv_dsp_v3.c` 248 says that only one thread
can execute `run`, and the lock it describes is commented out. Reading `STATUS`
(255) and setting it (256) are two accesses, so the thread and a `WRITE_INPUT`
caller pass together. The engine's other safety properties are therefore stated
for callers that take turns, which is what a system gets that uses only `write`
or only one `WRITE_INPUT` process at a time. `path_direct` shows what remains
when they do not: `STATUS` is still always given back.

`recovery`: the comment at `dxrt_drv_message.c` 537 promises "recovery in unusual
situations". The command pulses the reset line and touches nothing else. If the
DSP was executing a message, its interrupt never comes, nobody gives `STATUS`
back, and the busy-wait of `run` (255), which has no timeout, never ends, though
the DSP is in service again. `StrandedByLossOnly` and `ReleasedUnlessLost` of the
run `engine` say what does hold: this is the only way to lose `STATUS`, and
without it a reset, also of firmware that hangs, brings the service back.

`read_output`: the comment at `dxrt_drv_message.c` 277-282 describes a queue of
responses. Nothing in the repository fills it. The command waits for an event,
consumes it, finds the queue empty and returns -1.

`invalid_command`: the comment at `dxrt_drv_cdev.c` 183-184 promises -EINVAL for an
invalid command. The range check lets through three numbers whose entries in the
table are commented out (`dxrt_drv_message.c` 693, 696, 699), and the call at 673
goes through an empty entry. The check of the ioctl number (`dxrt_drv_cdev.c` 194)
never refuses: it compares eight bits with `DXRT_IOCTL_MAX`, which follows the
encoding of an `_IOW` in its enumeration (`include/dxrt_drv.h` 231-233). A number
that is not `DXRT_IOCTL_MESSAGE` is logged as unknown and returns 0 (219-223). TLC
prints the shorter of the two counterexamples.

### Bounds

All state is finite once the constants are, so no bound appears in a guard except
`MaxQueued` in `Lifecycle`. A
request stands for its list entry: it may be written again once the entry is
freed, so two requests give lists of length two and runs of any length.

- Two requests with different identifiers are what it takes to mix up slots or
  responses; the third in `engine` shares an identifier, so that a slot is used
  again by another request.
- Two writers are what it takes for one to append while the other wakes. Three
  requests were tried (232 000 states) and show nothing more.
- `path_direct` has one request because liveness with more does not finish in
  reasonable time. `BusyIsReleased` does not look at identities: each setting of
  `STATUS` is followed by the header of the same caller, and each header by an
  interrupt, whatever the requests are.
- In `events` no property looks at the response, so one request is enough; two
  processes are what it takes for one to take the event of the other.
- The nine accesses of `commands` lie at, one before and one past each edge of
  the window, on good and bad channels, and one wraps around; the arithmetic sees
  no other difference. Two processes are what it takes for one to identify
  between the comparisons of the other.
- Two processes that reset are what it takes for one to drop the line under the
  other. `recovery` needs one of everything.
- One other process opens, identifies and closes any number of times, so it does
  to the client whatever several could: what they write is 0 and FALSE.
- Two processes in `lifecycle` are what it takes for one to have the device open
  when another opens it. `MaxQueued`, the bound in the guard of `Write`, is 2, so
  that entries are left when the thread stops. Loads are not bounded.
- Three clients on two slots exhaust the pool while one is in a rollback; the
  third is what it takes to give back a slot that two others hand over between
  them. The offset behind the last slot stands for every offset of no slot.

`CHECK_DEADLOCK FALSE` appears in the runs with `Stop`, as a system whose thread
has been stopped and whose client has closed the device does stop, in
`commands`, where every process may end in a command without a handler, and in
`lifecycle`, where nothing happens after an access to something missing or
after a failed `probe` that keeps the name of its class taken.

### Fairness

Weak fairness of each thread inside `run` (the scheduler runs it; its
busy-wait is not disabled for ever, since `STATUS` is given back), of the kernel
thread, of a writer between append and wake-up, of a process inside a system
call, of the firmware and of the interrupt. None for the beginning of a call:
no process need write, poll, terminate or close, and `Stop` need not come. In
`DspDriver` a client that awaits an answer goes on polling and reads it; its
timeouts are unconstrained. In `Recovery` the firmware is fair only while it is in
service, a process that raised the reset line drops it, and nobody need reset;
the two liveness properties speak of behaviours in which the DSP is in service
for good from some point on. In `Lifecycle` what has begun goes on (`probe`,
`remove`, the thread, the handler, the message), and nobody need load, unload,
open or write.

Weak fairness of `Spin` is enough in every run, `path_direct` included, because
what is claimed there is that `STATUS` is given back, not that a particular
caller ever gets it. A caller that competes with another may starve.

## 4. Proofs

All theorems hold for every value of the constants that satisfies the modules'
assumptions.

`DspEngineProofs`. `EngineTypes` needs nothing else. The four safety properties
assume `Serialized`, and so do all theorems below that rest on them. (In
`RequestPath` without `WRITE_INPUT` and in `DspDriver` the assumption restricts
nothing: the thread is the only caller, and `PathImplementsEngine` and
`DriverImplementsChannel` show that its calls take turns.) None is inductive: they say where messages may be, and not
why. The invariant `EngineInv` adds, in `StageInv`, that at most one thread is
past `out`, that `STATUS` is busy if one of the stages fill, post, execute,
answer is occupied and that two never are; that it is not busy without one
(`~Stranded`); in `DataInv` and `ReportInv`, what each
stage knows of the message: `dsp->req_id` is its identifier from `id` on, the
local slot is that of the identifier, the data in the slot is the request's
from `head` on, and `completed` is set while the interrupt is pending or not
released. It is preserved step by step, one lemma each for calls, steps of `run`
and steps of the device.

`LockIsNeverStranded` is about callers that overlap. Of `EngineInv` only the types
and `~Stranded` survive that, and together they are inductive: each stage hands
its message to the next, also when two messages meet in one stage, and the
handler, which clears the interrupt before it releases `STATUS`, counts as a
stage in between. `StepsAreBounded` is about callers that take turns. It says
that the measure `StepsLeft` goes down with each step. `EngineInv` gives that at
most one stage is occupied, and for each step one lemma adds the parts before and
after. Together with weak fairness of each stage it is the argument that a busy
`STATUS` is given back; that last step, and callers that overlap, are left to TLC
(`BusyIsReleased`).

`RecoveryProofs`. Resets preserve everything but `~Stranded`. `RecoveryInv` is
`EngineInv` with that conjunct replaced by `Stranded <=> lost # None`; it gives
`StrandedByLossOnly` and the safety of the engine under resets at any moment
(`RestartsKeepMessages`). `LossIsFinal`: once a message was lost `STATUS` stays
busy in every later step, which is the finding of the run `recovery` for every
value of the constants. `LossEndsService` adds that no message is anywhere from
then on and that a caller in the busy-wait stays in it.

`OverlapInv` is the part that needs no turns: the types, that what the DSP
executes has a header (so that discarding it is a loss), and `Stranded` only
after a loss. It gives `RecoveryTypes`, and `OverlapStrandsByLoss`: under
overlapping callers and resets together, as long as no message was lost, a busy
`STATUS` has work behind it.

`RequestPathProofs`. `ThreadIsWoken` is inductive by itself. `EntryIsKept` needs
that the list is not empty between the test and the pick. That holds because
only the thread removes entries. `PathImplementsEngine` shows that
without `WRITE_INPUT` every step of the path is a step of the serialized engine
or leaves it alone, so that the engine's theorems hold on the whole path
(`WorkerUsesEngineSafely`, `WorkerStepsOnce`). With `WRITE_INPUT`, and any number
of processes that issue it, `OverlapStrandsNobody` holds. `PathServes` is the refinement: the path implements
the safety part of `RequestService` under the mapping that the run `path_worker`
checks. It uses `EngineInv` for what is in execution, and `PathInv` for the list:
the thread calls `run` with its entry, only in the state `run`, and the entries of
the list differ, so that unlinking the entry is taking the head.

`EventChannelProofs`. `EventTypes`, and `SleepersAreWoken`, which is inductive
given the types: an event is set either by the handler, which then stands at the
wake-up, or by `TERMINATE`, which wakes in the same critical section, and a
process sleeps only after a test that found no event. `ConsumersLeaveEngineAlone`
carries the engine's properties over to a system with consumers. That the
response is right is not among them: `open` and `IDENTIFY_DEVICE` clear it, and
what is left of that property is `OwnResponse`.

`DspDriverProofs`. The one request of the client is in one place at a time: the
list of the service, the DSP (from the header to the release of `STATUS`), the
handler before the event, the event (`PlaceInv`); it is in none when the client
has nothing outstanding or has been told that it may read. `OwnInv` adds that the
request in each place is `want`, and that the response is its own, or has been
discarded, from the moment the handler has taken it until the client reads.
`NothingLeftOver` and `OwnResponse` follow, for any number of other processes.

`DriverIsRemoteCall` is the refinement of the safety part of `RemoteCall`. The lemma
`Phase` reduces the mapping to the places of the invariant (a message that is
being filled belongs to an entry that is still in the list). Then each step
either leaves the place class of the request alone, or is the one abstract step
its lemma names: `write` asks, `IrqRespond` replies, `PollReady` notices, `read`
hears, `open` and `IDENTIFY_DEVICE` of others forget or make miss, `kthread_stop`
closes. `OnlyOpenMakesMiss` uses the refinement: a call becomes missed only by a
`Miss` step, hence by a step that takes away the reply, and of those only an
`open` of another process does not tell the client.

`DriverImplementsChannel` and `DriverComposes` are about the composition: the
driver's behaviours are behaviours of `EventChannel`, so that what was proved of
the components holds of them together.

`LifecycleProofs`. The invariant says what is held at each step (`PhaseInv`), the
forgotten `dsp` and what `NoMemory` leaves included,
with the steps ranked by the two orders and divided into four phases: outside
of a life, the steps that no ignored failure leads over, those one may lead to,
and `remove` after the thread has ended. `ThreadInv` and `HandlerInv` tie the
actors to the phases, and `CalmInv` says when nothing can come from the DSP,
unless a message was abandoned. The five safety properties of the run `lifecycle`
follow.

`BufferManagerProofs`. Each step has one of five effects on the slots that are not
contested: nothing changes hands, one client takes a free slot, one gives one
back, one leaves, or one gives back what is not its own, and the slot becomes
contested (`StepEffect`). Exclusive ownership, accounting and the refinement of
`SlotPool` follow from the effects. What a search by offset finds is a slot of that
offset, because different slots have different offsets once they are marked
(the lemmas `OffsetsDistinct` and `SameOffset`). `FreesOncePerAllocation` follows from
what the search finds, for contested slots as well.

`DeviceCommandsProofs`. The invariant `CommandInv` says that the window, once
set, is never changed to anything else (`WindowInv`), that a process that was
told the window begins its accesses after it was set (`ToldInv`), and what the
process knows after the first and the second comparison (`CheckedInv`). A step
of one process leaves this of the others alone (`OthersKeep`), because all that
it may write to the window is what is there. `AcceptedIsInside` is said of all
accesses: the end that the code computes is never past the memory, and the access
lies inside unless its sum wraps around, or it begins below the window in a call
that is older than the first `IDENTIFY_DEVICE`. Both exceptions are real, and the
instance of `commands` has them.

Each invariant was checked with TLC on the instance of its run before it was
proved. `OverlapStrandsByLoss` and `LossEndsService` have no run of their own: the
first is `BusyHasWork` of `path_direct` with resets added, the second is the
behaviour that `recovery` ends in. All safety properties of the passing runs are proved.

Only model-checked: the liveness properties (`BusyIsReleased`,
`ReleasedUnlessLost`, `StopCompletes`, `EventTaken`, `Answered`, `RemoveEnds`, and
the fairness of `RequestService` and `RemoteCall`), which are out of reach of the
prover. What is proved of them are the facts they rest on: no wake-up is lost,
`STATUS` has work behind it, and each step of a request is taken once. What the
engine may do to the messages of callers that overlap is not stated: two of them
can be merged in a slot or answered by one interrupt.

## 5. Not modelled, and why

- The layout and length of messages: a message is one value. That
  `WRITE_INPUT` passes a `dxrt_request_t` where `run` reads a `dxrt_dsp_request_t`
  (`dxrt_drv_message.c` 204-213) is therefore not visible.
- Failing allocations and copies of `write` and `read`, which return before any
  state is changed.
- Memory barriers and compiler reordering: accesses to registers are ordered,
  and the flag is accessed under a lock except in `open` and in the test of
  `READ_OUTPUT`, each of which is a single access.
- `mmap` keeps no state and checks nothing against the window: it passes the size
  it is asked for to the kernel.
- The sizes of messages: `run` copies as many words as the request says
  (`dxrt_drv_dsp_v3.c` 266) and takes its identifier as it is (263). No code
  limits either, so identifiers are assumed to be those of existing slots
  (`EngineAssumption`).
- `unbind` through sysfs while files are open, which the module count does not
  prevent as it prevents unloading; and the entries that are still queued when
  the thread stops, which are never freed.
- A process that sends `TERMINATE` beside the client of `DspDriver`: it records an
  event without a request, after which events and requests no longer
  correspond. `EventChannel` has it for its wake-ups.
- The commands that change nothing (`GET_STATUS`, `UPDATE_CONFIG`, `SOC_CUSTOM`,
  `GET_LOG`, `DUMP`, `SCHEDULE`, `SET_DDR_FREQ`, `DRV_INFO`, `DSP_RUN_REQ`,
  `DSP_RUN_RESP`), clock and debug registers, the register dump, build and
  installation scripts, and the firmware images, which have no source.

## 6. Plan

Done: all components of section 1 with state of their own, their composition
under one client, and the proofs above. What could follow:

1. Two clients of the whole driver that both write, to state what a user-space
   lock around write, poll and read would have to guarantee, and a process that
   sends `TERMINATE` beside them.
2. `Recovery` under the whole path: what the kernel thread and `remove` do when
   `STATUS` has been lost (by `LossEndsService` the thread never leaves `run`, so
   that `remove` does not end).
