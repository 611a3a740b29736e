-------------------------- MODULE LifecycleProofs ---------------------------
(***************************************************************************)
(* Theorems about Lifecycle for any processes and any length of the queue: *)
(* the safety properties of probe, remove and the interrupt handler, with  *)
(* every failure that the code meets or ignores.                           *)
(*                                                                         *)
(* The invariant says what is held at each step.  It is written with the   *)
(* rank of a step in the order of probe, and in that of remove.            *)
(***************************************************************************)
EXTENDS Lifecycle, TLAPS

ProbeRank(s) ==
  CASE s = "region" -> 1 [] s = "class" -> 2 [] s = "dxdev" -> 3 [] s = "cdev" -> 4
    [] s = "node" -> 5 [] s = "dsp" -> 6 [] s = "tree" -> 7 [] s = "sys" -> 8
    [] s = "power" -> 9 [] s = "debug" -> 10 [] s = "mailbox" -> 11 [] s = "sram" -> 12
    [] s = "dram" -> 13 [] s = "irq" -> 14 [] s = "wq" -> 15 [] s = "dma" -> 16
    [] s = "status" -> 17 [] s = "vector" -> 18 [] s = "pulse" -> 19 [] s = "pointer" -> 20
    [] s = "lists" -> 21 [] s = "thread" -> 22 [] s = "ready" -> 23 [] s = "stop" -> 24
    [] OTHER -> 0

RemoveRank(s) ==
  CASE s = "dma" -> 2 [] s = "irq" -> 3 [] s = "sys" -> 4 [] s = "power" -> 5
    [] s = "debug" -> 6 [] s = "mailbox" -> 7 [] s = "sram" -> 8 [] s = "dram" -> 9
    [] s = "dsp" -> 10 [] s = "node" -> 11 [] s = "cdev" -> 12 [] s = "dxdev" -> 13
    [] s = "class" -> 14 [] s = "region" -> 15 [] s = "absent" -> 16
    [] OTHER -> 0

\* What probe acquires before a step, and what remove has yet to give back.
Before(s) == {r \in Resources : ProbeRank(r) < ProbeRank(s)}
Remaining(s) == {r \in Resources : RemoveRank(s) <= RemoveRank(r)}

-----------------------------------------------------------------------------
(* The invariant                                                           *)

\* The phases: before and after a life, the steps that no ignored failure
\* leads over, those that one may lead to, and remove after the thread ended.
Outside == at \in {"absent", "failed", "nomemory"} /\ ~stop
Setup == ProbeRank(at) \in 1 .. 19 /\ ~stop
Late == at \in {"pointer", "lists", "thread", "ready", "stop"} /\ (stop <=> at = "stop")
Removing == RemoveRank(at) \in 2 .. 16 /\ stop

Device == Maps \cup {"irq", "dma"}

OutsideInv ==
  Outside =>
    /\ held = IF at = "nomemory" THEN {"region", "class"} ELSE {}
    /\ ignored = {}

SetupInv ==
  Setup =>
    /\ held = Before(at) /\ ignored = {}
    /\ initialised = IF ProbeRank(at) > 15 THEN {"wq"} ELSE {}

\* The dsp that nobody knows of once the device tree lacked something.
StrayDsp == IF "tree" \in ignored THEN {"dsp"} ELSE {}

\* After a failure between the maps and dma the buffer dma is not held, and
\* that is where remove ends (Release).
LateInv ==
  Late =>
    /\ Before("dsp") \subseteq held
    /\ ignored \cap Unmapped = {} => {"sys", "sram"} \subseteq held
    /\ ignored \cap Device = {} =>
         held \ {"thread"} = IF ignored \cap {"dsp", "tree"} = {} THEN Before("pointer")
                             ELSE Before("dsp") \cup StrayDsp
    /\ ignored \cap Device # {} => "dma" \notin held
    /\ at \in {"thread", "ready", "stop"} => "lists" \in initialised
    /\ "pointer" \in initialised => at # "pointer"
    /\ at = "pointer" \/ "pointer" \in initialised => ignored \cap {"dsp", "tree"} = {}
    /\ at # "pointer" /\ "pointer" \notin initialised
         => /\ ignored \cap {"dsp", "tree"} # {} /\ ignored \cap Device = {}
            /\ held \cap Device = {}

RemovingInv ==
  Removing =>
    /\ ignored \cap Device = {} => held = Remaining(at) \cup StrayDsp
    /\ ignored \cap Device # {} => at = "dma" /\ "dma" \notin held
    /\ "tree" \in ignored => RemoveRank(at) > 10

PhaseInv ==
  /\ Outside \/ Setup \/ Late \/ Removing
  /\ OutsideInv /\ SetupInv /\ LateInv /\ RemovingInv

ThreadInv ==
  /\ Setup \/ at \in {"pointer", "lists", "thread"} => thread = "none"
  /\ Removing => thread = "end"
  /\ thread \in {"wait", "run"} => at \in {"ready", "stop"}
  /\ thread = "run" => queue > 0
  /\ thread = "error" <=> "thread" \in ignored
  /\ thread # "none" => "lists" \in initialised
  /\ files # {} => at \in {"lists", "thread", "ready"} /\ "pointer" \in initialised

HandlerInv ==
  /\ handler # "idle" => "irq" \in held
  /\ "irq" \in held => {"dsp", "sys", "mailbox"} \subseteq held
  /\ "wq" \notin initialised =>
       /\ "irq" \in held => at = "wq"
       /\ Late /\ (at = "pointer" \/ "pointer" \in initialised)
            => ignored \cap ({"irq"} \cup Maps) # {}

\* Nothing is under way from the DSP, unless a message was abandoned.
Calm == ~executing /\ ~irq /\ handler = "idle"

CalmInv ==
  \/ abandoned
  \/ /\ vector \in {"none", "code"}
     /\ Outside \/ Setup \/ (Removing /\ RemoveRank(at) > 3) => Calm
     /\ "pointer" \notin initialised => Calm
     /\ at = "pulse" => status = "code"

ActorsInv == ThreadInv /\ HandlerInv /\ CalmInv /\ OopsHasCause

LifecycleInv == LifecycleTypeOK /\ PhaseInv /\ ActorsInv

USE DEF Resources, Maps, Unmapped, Device

-----------------------------------------------------------------------------
(* The orders of probe and remove                                          *)

LEMMA ProbeRanks ==
  /\ ProbeRank("region") = 1 /\ ProbeRank("class") = 2 /\ ProbeRank("dxdev") = 3
  /\ ProbeRank("cdev") = 4 /\ ProbeRank("node") = 5 /\ ProbeRank("dsp") = 6
  /\ ProbeRank("tree") = 7 /\ ProbeRank("sys") = 8 /\ ProbeRank("power") = 9
  /\ ProbeRank("debug") = 10 /\ ProbeRank("mailbox") = 11 /\ ProbeRank("sram") = 12
  /\ ProbeRank("dram") = 13 /\ ProbeRank("irq") = 14 /\ ProbeRank("wq") = 15
  /\ ProbeRank("dma") = 16 /\ ProbeRank("status") = 17 /\ ProbeRank("vector") = 18
  /\ ProbeRank("pulse") = 19 /\ ProbeRank("pointer") = 20 /\ ProbeRank("lists") = 21
  /\ ProbeRank("thread") = 22 /\ ProbeRank("ready") = 23 /\ ProbeRank("stop") = 24
  /\ ProbeRank("absent") = 0 /\ ProbeRank("failed") = 0 /\ ProbeRank("nomemory") = 0
BY SMTT(60) DEF ProbeRank

LEMMA RemoveRanks ==
  /\ RemoveRank("dma") = 2 /\ RemoveRank("irq") = 3 /\ RemoveRank("sys") = 4
  /\ RemoveRank("power") = 5 /\ RemoveRank("debug") = 6 /\ RemoveRank("mailbox") = 7
  /\ RemoveRank("sram") = 8 /\ RemoveRank("dram") = 9 /\ RemoveRank("dsp") = 10
  /\ RemoveRank("node") = 11 /\ RemoveRank("cdev") = 12 /\ RemoveRank("dxdev") = 13
  /\ RemoveRank("class") = 14 /\ RemoveRank("region") = 15 /\ RemoveRank("absent") = 16
  /\ RemoveRank("tree") = 0 /\ RemoveRank("wq") = 0 /\ RemoveRank("status") = 0
  /\ RemoveRank("vector") = 0 /\ RemoveRank("pulse") = 0 /\ RemoveRank("pointer") = 0
  /\ RemoveRank("lists") = 0 /\ RemoveRank("thread") = 0 /\ RemoveRank("ready") = 0
  /\ RemoveRank("stop") = 0 /\ RemoveRank("failed") = 0 /\ RemoveRank("nomemory") = 0
BY SMTT(60) DEF RemoveRank

LEMMA ProbeMoves ==
  ASSUME Proceed
  PROVE  /\ ~stop /\ at \in Steps /\ at' \in Steps
         /\ ProbeRank(at) \in 1 .. 22 /\ ProbeRank(at') = ProbeRank(at) + 1
         /\ (at = "region" => at' = "class") /\ (at = "class" => at' = "dxdev")
         /\ (at = "dxdev" => at' = "cdev") /\ (at = "cdev" => at' = "node")
         /\ (at = "node" => at' = "dsp") /\ (at = "dsp" => at' = "tree")
         /\ (at = "tree" => at' = "sys") /\ (at = "sys" => at' = "power")
         /\ (at = "power" => at' = "debug") /\ (at = "debug" => at' = "mailbox")
         /\ (at = "mailbox" => at' = "sram") /\ (at = "sram" => at' = "dram")
         /\ (at = "dram" => at' = "irq") /\ (at = "irq" => at' = "wq")
         /\ (at = "wq" => at' = "dma") /\ (at = "dma" => at' = "status")
         /\ (at = "status" => at' = "vector") /\ (at = "vector" => at' = "pulse")
         /\ (at = "pulse" => at' = "pointer") /\ (at = "pointer" => at' = "lists")
         /\ (at = "lists" => at' = "thread") /\ (at = "thread" => at' = "ready")
<1>1. PICK step \in ProbeOrder : at = step[1] /\ at' = step[2]
  BY DEF Proceed
<1>2. /\ step[1] \in Steps /\ step[2] \in Steps
      /\ ProbeRank(step[1]) \in 1 .. 22 /\ ProbeRank(step[2]) = ProbeRank(step[1]) + 1
  BY SMTT(60) DEF ProbeOrder, Chain, ProbeRank, Steps
<1> QED BY <1>1, <1>2, SMTT(60) DEF Proceed, ProbeOrder, Chain

LEMMA RemoveMoves ==
  ASSUME Retreat
  PROVE  /\ stop /\ at \in Steps /\ at' \in Steps
         /\ RemoveRank(at') = RemoveRank(at) + 1 \/ at = "stop"
         /\ (at = "stop" => at' = "dma") /\ (at = "dma" => at' = "irq")
         /\ (at = "irq" => at' = "sys") /\ (at = "sys" => at' = "power")
         /\ (at = "power" => at' = "debug") /\ (at = "debug" => at' = "mailbox")
         /\ (at = "mailbox" => at' = "sram") /\ (at = "sram" => at' = "dram")
         /\ (at = "dram" => at' = "dsp") /\ (at = "dsp" => at' = "node")
         /\ (at = "node" => at' = "cdev") /\ (at = "cdev" => at' = "dxdev")
         /\ (at = "dxdev" => at' = "class") /\ (at = "class" => at' = "region")
         /\ (at = "region" => at' = "absent")
<1>1. PICK step \in RemoveOrder : at = step[1] /\ at' = step[2]
  BY DEF Retreat
<1>2. /\ step[1] \in Steps /\ step[2] \in Steps
      /\ RemoveRank(step[2]) = RemoveRank(step[1]) + 1 \/ step[1] = "stop"
  BY SMTT(60) DEF RemoveOrder, Chain, RemoveRank, Steps
<1> QED BY <1>1, <1>2, SMTT(60) DEF Retreat, RemoveOrder, Chain

-----------------------------------------------------------------------------
(* Initially                                                               *)

LEMMA LifecycleInitInv ==
  ASSUME LifecycleInit
  PROVE  LifecycleInv
<1> USE DEF LifecycleInit
<1>1. stop \in BOOLEAN /\ executing \in BOOLEAN /\ irq \in BOOLEAN /\ abandoned \in BOOLEAN
  BY Zenon
<1>2. LifecycleTypeOK
  BY <1>1, LifecycleAssumption DEF LifecycleAssumption, LifecycleTypeOK, Steps
<1>3. PhaseInv
  BY ProbeRanks, RemoveRanks
     DEF PhaseInv, OutsideInv, SetupInv, LateInv, RemovingInv, Outside, Setup, Late,
         Removing, Before, Remaining, StrayDsp
<1>4. ActorsInv
  BY ProbeRanks, RemoveRanks
     DEF ActorsInv, ThreadInv, HandlerInv, CalmInv, OopsHasCause, Calm, Outside, Setup,
         Late, Removing, Before, Remaining, StrayDsp
<1> QED BY <1>2, <1>3, <1>4 DEF LifecycleInv

-----------------------------------------------------------------------------
(* The steps of probe                                                      *)

USE DEF LifecycleInv, LifecycleTypeOK, Steps, PhaseInv, OutsideInv, SetupInv, LateInv,
       RemovingInv, Outside, Setup, Late, Removing, Before, Remaining, StrayDsp,
       ActorsInv, ThreadInv, HandlerInv, CalmInv, OopsHasCause, Calm,
       setupVars, threadVars, dspVars, Oops

LEMMA ProbeInv ==
  ASSUME LifecycleInv, oops = "none", Probe
  PROVE  LifecycleInv'
<1> USE DEF Probe
<1>1. /\ stop' \in BOOLEAN /\ executing' \in BOOLEAN
      /\ irq' \in BOOLEAN /\ abandoned' \in BOOLEAN
  BY Zenon
<1>2. LifecycleTypeOK'
  BY <1>1, LifecycleAssumption DEF LifecycleAssumption
<1>3. PhaseInv'
  BY ProbeRanks, RemoveRanks
<1>4. ActorsInv'
  BY <1>2, <1>3, ProbeRanks, RemoveRanks
<1> QED BY <1>2, <1>3, <1>4

LEMMA AcquireInv ==
  ASSUME LifecycleInv, oops = "none", Acquire
  PROVE  LifecycleInv'
<1> USE DEF Acquire
<1>1. Proceed
  OBVIOUS
<1>2. LifecycleTypeOK'
  BY <1>1, ProbeMoves, LifecycleAssumption DEF LifecycleAssumption
<1>3. PhaseInv'
  BY <1>1, ProbeMoves, ProbeRanks, RemoveRanks
<1>4. ActorsInv'
  BY <1>2, <1>3, <1>1, ProbeMoves, ProbeRanks, RemoveRanks
<1> QED BY <1>2, <1>3, <1>4

LEMMA ReadDeviceTreeInv ==
  ASSUME LifecycleInv, oops = "none", ReadDeviceTree
  PROVE  LifecycleInv'
<1> USE DEF ReadDeviceTree, Initialise
<1>1. Proceed
  OBVIOUS
<1>2. LifecycleTypeOK'
  BY <1>1, ProbeMoves, LifecycleAssumption DEF LifecycleAssumption
<1>3. PhaseInv'
  BY <1>1, ProbeMoves, ProbeRanks, RemoveRanks
<1>4. ActorsInv'
  BY <1>2, <1>3, <1>1, ProbeMoves, ProbeRanks, RemoveRanks
<1> QED BY <1>2, <1>3, <1>4

LEMMA InitWaitQueueInv ==
  ASSUME LifecycleInv, oops = "none", InitWaitQueue
  PROVE  LifecycleInv'
<1> USE DEF InitWaitQueue, Initialise
<1>1. Proceed
  OBVIOUS
<1>2. LifecycleTypeOK'
  BY <1>1, ProbeMoves, LifecycleAssumption DEF LifecycleAssumption
<1>3. PhaseInv'
  <2>1. /\ Setup /\ held = Before(at) /\ ignored = {}
        /\ at = "wq" /\ at' = "dma" /\ stop' = FALSE
    BY <1>1, ProbeMoves, ProbeRanks, RemoveRanks
  <2>2. initialised' = {"wq"}
    <3>1. initialised = {}
      BY <2>1, ProbeRanks
    <3> QED BY <3>1
  <2>3. Setup' /\ held' = Before(at)' /\ ignored' = {}
    BY <2>1, ProbeRanks
  <2> QED BY <2>1, <2>2, <2>3, ProbeRanks, RemoveRanks
<1>4. ActorsInv'
  BY <1>2, <1>3, <1>1, ProbeMoves, ProbeRanks, RemoveRanks
<1> QED BY <1>2, <1>3, <1>4

LEMMA SetDspInv ==
  ASSUME LifecycleInv, oops = "none", SetDsp
  PROVE  LifecycleInv'
<1> USE DEF SetDsp, Initialise
<1>1. Proceed
  OBVIOUS
<1>2. LifecycleTypeOK'
  BY <1>1, ProbeMoves, LifecycleAssumption DEF LifecycleAssumption
<1>3. PhaseInv'
  BY <1>1, ProbeMoves, ProbeRanks, RemoveRanks
<1>4. ActorsInv'
  BY <1>2, <1>3, <1>1, ProbeMoves, ProbeRanks, RemoveRanks
<1> QED BY <1>2, <1>3, <1>4

LEMMA InitListsInv ==
  ASSUME LifecycleInv, oops = "none", InitLists
  PROVE  LifecycleInv'
<1> USE DEF InitLists, Initialise
<1>1. Proceed
  OBVIOUS
<1>2. LifecycleTypeOK'
  BY <1>1, ProbeMoves, LifecycleAssumption DEF LifecycleAssumption
<1>3. PhaseInv'
  BY <1>1, ProbeMoves, ProbeRanks, RemoveRanks
<1>4. ActorsInv'
  BY <1>2, <1>3, <1>1, ProbeMoves, ProbeRanks, RemoveRanks
<1> QED BY <1>2, <1>3, <1>4

LEMMA ClearStatusInv ==
  ASSUME LifecycleInv, oops = "none", ClearStatus
  PROVE  LifecycleInv'
<1> USE DEF ClearStatus
<1>1. Proceed
  OBVIOUS
<1>2. LifecycleTypeOK'
  BY <1>1, ProbeMoves, LifecycleAssumption DEF LifecycleAssumption
<1>3. PhaseInv'
  BY <1>1, ProbeMoves, ProbeRanks, RemoveRanks
<1>4. ActorsInv'
  BY <1>2, <1>3, <1>1, ProbeMoves, ProbeRanks, RemoveRanks
<1> QED BY <1>2, <1>3, <1>4

LEMMA WriteVectorInv ==
  ASSUME LifecycleInv, oops = "none", WriteVector
  PROVE  LifecycleInv'
<1> USE DEF WriteVector
<1>1. Proceed
  OBVIOUS
<1>2. LifecycleTypeOK'
  BY <1>1, ProbeMoves, LifecycleAssumption DEF LifecycleAssumption
<1>3. PhaseInv'
  BY <1>1, ProbeMoves, ProbeRanks, RemoveRanks
<1>4. ActorsInv'
  BY <1>2, <1>3, <1>1, ProbeMoves, ProbeRanks, RemoveRanks
<1> QED BY <1>2, <1>3, <1>4

LEMMA PulseInv ==
  ASSUME LifecycleInv, oops = "none", Pulse
  PROVE  LifecycleInv'
<1> USE DEF Pulse
<1>1. Proceed
  OBVIOUS
<1>2. /\ stop' \in BOOLEAN /\ executing' \in BOOLEAN
      /\ irq' \in BOOLEAN /\ abandoned' \in BOOLEAN
  BY Zenon
<1>3. LifecycleTypeOK'
  BY <1>2, <1>1, ProbeMoves, LifecycleAssumption DEF LifecycleAssumption
<1>4. PhaseInv'
  BY <1>1, ProbeMoves, ProbeRanks, RemoveRanks
<1>5. ActorsInv'
  BY <1>3, <1>4, <1>1, ProbeMoves, ProbeRanks, RemoveRanks
<1> QED BY <1>3, <1>4, <1>5

LEMMA ProbeFailsInv ==
  ASSUME LifecycleInv, oops = "none", ProbeFails
  PROVE  LifecycleInv'
<1> USE DEF ProbeFails, Cleanup
<1>1. LifecycleTypeOK'
  BY LifecycleAssumption DEF LifecycleAssumption
<1>2. PhaseInv'
  BY ProbeRanks, RemoveRanks
<1>3. ActorsInv'
  BY <1>1, <1>2, ProbeRanks, RemoveRanks
<1> QED BY <1>1, <1>2, <1>3

LEMMA NoMemoryInv ==
  ASSUME LifecycleInv, oops = "none", NoMemory
  PROVE  LifecycleInv'
<1> USE DEF NoMemory
<1>1. LifecycleTypeOK'
  BY LifecycleAssumption DEF LifecycleAssumption
<1>2. PhaseInv'
  BY ProbeRanks, RemoveRanks
<1>3. ActorsInv'
  BY <1>1, <1>2, ProbeRanks, RemoveRanks
<1> QED BY <1>1, <1>2, <1>3

LEMMA SetupFailsInv ==
  ASSUME LifecycleInv, oops = "none", SetupFails
  PROVE  LifecycleInv'
<1> USE DEF SetupFails
<1>1. LifecycleTypeOK'
  BY LifecycleAssumption DEF LifecycleAssumption
<1>2. PhaseInv'
  BY ProbeRanks, RemoveRanks
<1>3. ActorsInv'
  BY <1>1, <1>2, ProbeRanks, RemoveRanks
<1> QED BY <1>1, <1>2, <1>3

LEMMA ThreadFailsInv ==
  ASSUME LifecycleInv, oops = "none", ThreadFails
  PROVE  LifecycleInv'
<1> USE DEF ThreadFails
<1>1. LifecycleTypeOK'
  BY LifecycleAssumption DEF LifecycleAssumption
<1>2. PhaseInv'
  BY ProbeRanks, RemoveRanks
<1>3. ActorsInv'
  BY <1>1, <1>2, ProbeRanks, RemoveRanks
<1> QED BY <1>1, <1>2, <1>3

-----------------------------------------------------------------------------
(* The steps of remove                                                     *)

LEMMA RemoveInv ==
  ASSUME LifecycleInv, oops = "none", Remove
  PROVE  LifecycleInv'
<1> USE DEF Remove
<1>1. /\ stop' \in BOOLEAN /\ executing' \in BOOLEAN
      /\ irq' \in BOOLEAN /\ abandoned' \in BOOLEAN
  BY Zenon
<1>2. LifecycleTypeOK'
  BY <1>1, LifecycleAssumption DEF LifecycleAssumption
<1>3. PhaseInv'
  BY ProbeRanks, RemoveRanks
<1>4. ActorsInv'
  BY <1>2, <1>3, ProbeRanks, RemoveRanks
<1> QED BY <1>2, <1>3, <1>4

LEMMA JoinThreadInv ==
  ASSUME LifecycleInv, oops = "none", JoinThread
  PROVE  LifecycleInv'
<1> USE DEF JoinThread
<1>1. LifecycleTypeOK'
  BY RemoveMoves, LifecycleAssumption DEF LifecycleAssumption
<1>2. PhaseInv'
  BY RemoveMoves, ProbeRanks, RemoveRanks
<1>3. ActorsInv'
  BY <1>1, <1>2, RemoveMoves, ProbeRanks, RemoveRanks
<1> QED BY <1>1, <1>2, <1>3

LEMMA ReleaseInv ==
  ASSUME LifecycleInv, oops = "none", Release
  PROVE  LifecycleInv'
<1> USE DEF Release
<1>1. /\ stop' \in BOOLEAN /\ executing' \in BOOLEAN
      /\ irq' \in BOOLEAN /\ abandoned' \in BOOLEAN
  BY Zenon
<1>2. LifecycleTypeOK'
  <2> HIDE DEF Steps, PhaseInv, ActorsInv
  <2>1. CASE at \in held
    BY <1>1, <2>1, RemoveMoves
  <2>2. CASE at \notin held
    BY <1>1, <2>2
  <2> QED BY <2>1, <2>2
<1>3. PhaseInv'
  BY RemoveMoves, ProbeRanks, RemoveRanks
<1>4. ActorsInv'
  BY <1>2, <1>3, RemoveMoves, ProbeRanks, RemoveRanks
<1> QED BY <1>2, <1>3, <1>4

-----------------------------------------------------------------------------
(* The steps of the others, which change no phase                          *)

LEMMA PhaseKept ==
  ASSUME PhaseInv, UNCHANGED <<setupVars, stop>>
  PROVE  PhaseInv'
OBVIOUS

HIDE DEF PhaseInv, OutsideInv, SetupInv, LateInv, RemovingInv, Outside, Setup, Late,
       Removing, Before, Remaining, StrayDsp

LEMMA OpenInv ==
  ASSUME LifecycleInv, oops = "none", NEW c \in Clients, Open(c)
  PROVE  LifecycleInv'
<1> USE DEF Open
<1>1. LifecycleTypeOK'
  BY LifecycleAssumption DEF LifecycleAssumption
<1>2. PhaseInv'
  BY PhaseKept
<1>3. ActorsInv'
  BY <1>1, <1>2
     DEF PhaseInv, OutsideInv, SetupInv, LateInv, RemovingInv, Outside, Setup, Late,
         Removing, Before, Remaining, StrayDsp
<1> QED BY <1>1, <1>2, <1>3

LEMMA CloseInv ==
  ASSUME LifecycleInv, oops = "none", NEW c \in Clients, Close(c)
  PROVE  LifecycleInv'
<1> USE DEF Close
<1>1. LifecycleTypeOK'
  BY LifecycleAssumption DEF LifecycleAssumption
<1>2. PhaseInv'
  BY PhaseKept
<1>3. ActorsInv'
  BY <1>1, <1>2
     DEF PhaseInv, OutsideInv, SetupInv, LateInv, RemovingInv, Outside, Setup, Late,
         Removing, Before, Remaining, StrayDsp
<1> QED BY <1>1, <1>2, <1>3

LEMMA WriteInv ==
  ASSUME LifecycleInv, oops = "none", NEW c \in Clients, Write(c)
  PROVE  LifecycleInv'
<1> USE DEF Write
<1>1. LifecycleTypeOK'
  BY LifecycleAssumption DEF LifecycleAssumption
<1>2. PhaseInv'
  BY PhaseKept
<1>3. ActorsInv'
  BY <1>1, <1>2
     DEF PhaseInv, OutsideInv, SetupInv, LateInv, RemovingInv, Outside, Setup, Late,
         Removing, Before, Remaining, StrayDsp
<1> QED BY <1>1, <1>2, <1>3

LEMMA PollUninitialisedInv ==
  ASSUME LifecycleInv, oops = "none", NEW c \in Clients, PollUninitialised(c)
  PROVE  LifecycleInv'
<1> USE DEF PollUninitialised
<1>1. LifecycleTypeOK'
  BY LifecycleAssumption DEF LifecycleAssumption
<1>2. PhaseInv'
  BY PhaseKept
<1>3. ActorsInv'
  BY <1>1, <1>2, ProbeRanks, RemoveRanks
     DEF PhaseInv, OutsideInv, SetupInv, LateInv, RemovingInv, Outside, Setup, Late,
         Removing, Before, Remaining, StrayDsp
<1> QED BY <1>1, <1>2, <1>3

LEMMA ThreadTakeInv ==
  ASSUME LifecycleInv, oops = "none", ThreadTake
  PROVE  LifecycleInv'
<1> USE DEF ThreadTake
<1>1. LifecycleTypeOK'
  BY LifecycleAssumption DEF LifecycleAssumption
<1>2. PhaseInv'
  BY PhaseKept
<1>3. ActorsInv'
  BY <1>1, <1>2
     DEF PhaseInv, OutsideInv, SetupInv, LateInv, RemovingInv, Outside, Setup, Late,
         Removing, Before, Remaining, StrayDsp
<1> QED BY <1>1, <1>2, <1>3

LEMMA ThreadRunInv ==
  ASSUME LifecycleInv, oops = "none", ThreadRun
  PROVE  LifecycleInv'
<1> USE DEF ThreadRun
<1>1. LifecycleTypeOK'
  BY LifecycleAssumption DEF LifecycleAssumption
<1>2. PhaseInv'
  BY PhaseKept
<1>3. ActorsInv'
  BY <1>1, <1>2
     DEF PhaseInv, OutsideInv, SetupInv, LateInv, RemovingInv, Outside, Setup, Late,
         Removing, Before, Remaining, StrayDsp
<1> QED BY <1>1, <1>2, <1>3

LEMMA ThreadEndInv ==
  ASSUME LifecycleInv, oops = "none", ThreadEnd
  PROVE  LifecycleInv'
<1> USE DEF ThreadEnd
<1>1. LifecycleTypeOK'
  BY LifecycleAssumption DEF LifecycleAssumption
<1>2. PhaseInv'
  BY PhaseKept
<1>3. ActorsInv'
  BY <1>1, <1>2
     DEF PhaseInv, OutsideInv, SetupInv, LateInv, RemovingInv, Outside, Setup, Late,
         Removing, Before, Remaining, StrayDsp
<1> QED BY <1>1, <1>2, <1>3

LEMMA DspFinishInv ==
  ASSUME LifecycleInv, oops = "none", DspFinish
  PROVE  LifecycleInv'
<1> USE DEF DspFinish
<1>1. /\ stop' \in BOOLEAN /\ executing' \in BOOLEAN
      /\ irq' \in BOOLEAN /\ abandoned' \in BOOLEAN
  BY Zenon
<1>2. LifecycleTypeOK'
  BY <1>1, LifecycleAssumption DEF LifecycleAssumption
<1>3. PhaseInv'
  BY PhaseKept
<1>4. ActorsInv'
  BY <1>2, <1>3
     DEF PhaseInv, OutsideInv, SetupInv, LateInv, RemovingInv, Outside, Setup, Late,
         Removing, Before, Remaining, StrayDsp
<1> QED BY <1>2, <1>3, <1>4

LEMMA HandlerEnterInv ==
  ASSUME LifecycleInv, oops = "none", HandlerEnter
  PROVE  LifecycleInv'
<1> USE DEF HandlerEnter
<1>1. LifecycleTypeOK'
  BY LifecycleAssumption DEF LifecycleAssumption
<1>2. PhaseInv'
  BY PhaseKept
<1>3. ActorsInv'
  BY <1>1, <1>2
     DEF PhaseInv, OutsideInv, SetupInv, LateInv, RemovingInv, Outside, Setup, Late,
         Removing, Before, Remaining, StrayDsp
<1> QED BY <1>1, <1>2, <1>3

LEMMA HandlerRegistersInv ==
  ASSUME LifecycleInv, oops = "none", HandlerRegisters
  PROVE  LifecycleInv'
<1> USE DEF HandlerRegisters
<1>1. /\ stop' \in BOOLEAN /\ executing' \in BOOLEAN
      /\ irq' \in BOOLEAN /\ abandoned' \in BOOLEAN
  BY Zenon
<1>2. LifecycleTypeOK'
  BY <1>1, LifecycleAssumption DEF LifecycleAssumption
<1>3. PhaseInv'
  BY PhaseKept
<1>4. ActorsInv'
  BY <1>2, <1>3, ProbeRanks, RemoveRanks
     DEF PhaseInv, OutsideInv, SetupInv, LateInv, RemovingInv, Outside, Setup, Late,
         Removing, Before, Remaining, StrayDsp
<1> QED BY <1>2, <1>3, <1>4

LEMMA HandlerWakeInv ==
  ASSUME LifecycleInv, oops = "none", HandlerWake
  PROVE  LifecycleInv'
<1> USE DEF HandlerWake
<1>1. LifecycleTypeOK'
  BY LifecycleAssumption DEF LifecycleAssumption
<1>2. PhaseInv'
  BY PhaseKept
<1>3. ActorsInv'
  BY <1>1, <1>2, ProbeRanks, RemoveRanks
     DEF PhaseInv, OutsideInv, SetupInv, LateInv, RemovingInv, Outside, Setup, Late,
         Removing, Before, Remaining, StrayDsp
<1> QED BY <1>1, <1>2, <1>3

-----------------------------------------------------------------------------
(* The theorems                                                            *)

HIDE DEF LifecycleInv, LifecycleTypeOK, Steps, ActorsInv, ThreadInv, HandlerInv, CalmInv,
       OopsHasCause, Calm, setupVars, threadVars, dspVars, Oops

LEMMA LifecycleInvHolds == LifecycleSpec => []LifecycleInv
<1>1. LifecycleInit => LifecycleInv
  BY LifecycleInitInv
<1>2. LifecycleInv /\ [LifecycleNext]_lifecycleVars => LifecycleInv'
  <2> SUFFICES ASSUME LifecycleInv, [LifecycleNext]_lifecycleVars
               PROVE  LifecycleInv'
    OBVIOUS
  <2>1. CASE UNCHANGED lifecycleVars
    <3>1. LifecycleTypeOK'
      BY <2>1
         DEF LifecycleInv, LifecycleTypeOK, lifecycleVars, setupVars, threadVars, dspVars
    <3>2. PhaseInv'
      BY <2>1, PhaseKept DEF LifecycleInv, lifecycleVars, setupVars, threadVars, dspVars
    <3>3. ActorsInv'
      BY <2>1
         DEF LifecycleInv, lifecycleVars, setupVars, threadVars, dspVars, ActorsInv,
             ThreadInv, HandlerInv, CalmInv, OopsHasCause, Calm,
             Outside, Setup, Late, Removing
    <3> QED BY <3>1, <3>2, <3>3 DEF LifecycleInv
  <2>2. CASE LifecycleNext
    <3>1. oops = "none"
      BY <2>2 DEF LifecycleNext
    <3>2. CASE Probe \/ ProbeStep
      BY <3>1, <3>2, ProbeInv, AcquireInv, ReadDeviceTreeInv, InitWaitQueueInv,
         SetDspInv, InitListsInv, ClearStatusInv, WriteVectorInv, PulseInv,
         ProbeFailsInv, NoMemoryInv, SetupFailsInv, ThreadFailsInv DEF ProbeStep
    <3>3. CASE Remove \/ RemoveStep
      BY <3>1, <3>3, RemoveInv, JoinThreadInv, ReleaseInv DEF RemoveStep
    <3>4. CASE \E c \in Clients : Open(c) \/ Close(c) \/ Write(c) \/ PollUninitialised(c)
      BY <3>1, <3>4, OpenInv, CloseInv, WriteInv, PollUninitialisedInv
    <3>5. CASE ThreadStep
      BY <3>1, <3>5, ThreadTakeInv, ThreadRunInv, ThreadEndInv DEF ThreadStep
    <3>6. CASE DspFinish \/ HandlerStep
      BY <3>1, <3>6, DspFinishInv, HandlerEnterInv, HandlerRegistersInv, HandlerWakeInv
         DEF HandlerStep
    <3> QED BY <2>2, <3>2, <3>3, <3>4, <3>5, <3>6 DEF LifecycleNext
  <2> QED BY <2>1, <2>2
<1> QED BY <1>1, <1>2, PTL DEF LifecycleSpec, LifecycleSafety

(***************************************************************************)
(* Every variable keeps its type, whatever fails in probe.                 *)
(***************************************************************************)
THEOREM LifecycleTypes == LifecycleSpec => []LifecycleTypeOK
<1>1. LifecycleInv => LifecycleTypeOK
  BY DEF LifecycleInv
<1> QED BY <1>1, LifecycleInvHolds, PTL

(***************************************************************************)
(* However a life of the device ends, what probe acquired is given back,   *)
(* but for class and region when the kmalloc of dxdev fails, and the dsp   *)
(* when the device tree lacks something (dxrt_drv_cdev.c:242-273, 347-359, *)
(* dxrt_drv_dsp.c:71-150).                                                 *)
(***************************************************************************)
THEOREM OnlyLeftBehind == LifecycleSpec => []NothingElseStays
<1>1. LifecycleInv => NothingElseStays
  <2> SUFFICES ASSUME LifecycleInv, at \in {"absent", "failed", "nomemory"}
               PROVE  held = LeftBehind
    BY DEF NothingElseStays
  <2>1. Outside \/ (Removing /\ at = "absent")
    BY ProbeRanks, RemoveRanks DEF LifecycleInv, PhaseInv, Outside, Setup, Late, Removing
  <2>2. CASE Outside
    BY <2>2 DEF LifecycleInv, PhaseInv, OutsideInv, LeftBehind
  <2>3. CASE Removing /\ at = "absent"
    BY <2>3, RemoveRanks
       DEF LifecycleInv, PhaseInv, RemovingInv, Remaining, StrayDsp, LeftBehind
  <2> QED BY <2>1, <2>2, <2>3
<1> QED BY <1>1, LifecycleInvHolds, PTL

(***************************************************************************)
(* The interrupt handler never runs without its registers or its dsp       *)
(* (dxrt_drv_dsp_v3.c:199, 298-307).                                       *)
(***************************************************************************)
THEOREM HandlerIsSafe == LifecycleSpec => []HandlerHasRegisters
<1>1. LifecycleInv => HandlerHasRegisters
  BY DEF LifecycleInv, ActorsInv, HandlerInv, HandlerHasRegisters
<1> QED BY <1>1, LifecycleInvHolds, PTL

(***************************************************************************)
(* An access to what is not there has one of the causes that OopsHasCause  *)
(* names: a failure that was ignored (dxrt_drv_dsp.c:156), an early open   *)
(* (dxrt_drv_cdev.c:265), or an abandoned message (dxrt_drv_dsp_v3.c:297). *)
(***************************************************************************)
THEOREM OopsIsExplained == LifecycleSpec => []OopsHasCause
<1>1. LifecycleInv => OopsHasCause
  BY DEF LifecycleInv, ActorsInv
<1> QED BY <1>1, LifecycleInvHolds, PTL

(***************************************************************************)
(* The DSP is started from its code, unless a message of an earlier life   *)
(* was abandoned (dxrt_drv_dsp_v3.c:69, 112, 126).                         *)
(***************************************************************************)
THEOREM DspIsStartedFromCode == LifecycleSpec => []StartsFromCode
<1>1. LifecycleInv => StartsFromCode
  BY DEF LifecycleInv, ActorsInv, CalmInv, StartsFromCode
<1> QED BY <1>1, LifecycleInvHolds, PTL
=============================================================================
