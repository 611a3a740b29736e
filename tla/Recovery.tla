------------------------------ MODULE Recovery ------------------------------
(***************************************************************************)
(* The engine of DspEngine with firmware that may hang, and the two        *)
(* commands that restart it: RESET and RECOVERY, which both end in         *)
(* dx_v3_dsp_reset_and_start.                                              *)
(*                                                                         *)
(* The restart raises the reset line of the DSP, waits a microsecond and   *)
(* drops the line.  It takes no lock, so several processes may be in it,   *)
(* and it touches nothing else: STATUS, dsp->req_id, the SRAM and the      *)
(* mailbox are as they were.  A message that the DSP was executing is      *)
(* gone, and with it the interrupt that would have released STATUS.        *)
(***************************************************************************)
EXTENDS DspEngine

CONSTANTS
  Resetters,   \* processes that issue RESET or RECOVERY
  Forgetful    \* TRUE iff firmware that starts may discard what was posted

ASSUME RecoveryAssumption == Forgetful \in BOOLEAN

VARIABLES
  line,        \* the reset line of the DSP
  resetting,   \* the processes between raising the line and dropping it
  hung,        \* the firmware does nothing any more
  lost         \* the message that a restart discarded (history)

resetVars == <<line, resetting, hung, lost>>
recoveryVars == <<engineVars, resetVars>>

RecoveryInit ==
  /\ EngineInit
  /\ line = FALSE
  /\ resetting = {}
  /\ hung = FALSE
  /\ lost = None

InService == ~line /\ ~hung

-----------------------------------------------------------------------------
(* dx_v3_dsp_reset_and_start                                               *)

\* Faulty: the restart gives STATUS back, whoever holds it.
RaiseLineAndRelease(p) ==
  /\ p \notin resetting
  /\ resetting' = resetting \cup {p}
  /\ line' = TRUE
  /\ dsp' = NoMessage
  /\ lost' = IF dsp # NoMessage THEN dsp.head ELSE lost
  /\ status' = "idle"
  /\ UNCHANGED <<run, req, slot, dsp_req_id, sram, irq, completed, handler,
                 response, irq_event, irq_wq, hung>>

\* Faulty: the restart clears the interrupt of the mailbox as well.
RaiseLineAndClear(p) ==
  /\ p \notin resetting
  /\ resetting' = resetting \cup {p}
  /\ line' = TRUE
  /\ dsp' = NoMessage
  /\ lost' = IF dsp # NoMessage THEN dsp.head ELSE lost
  /\ irq' = FALSE
  /\ UNCHANGED <<callVars, sram, completed, handler, response, irq_event,
                 irq_wq, hung>>

\* Whatever the DSP executes, it executes no longer.
RaiseLine(p) ==
  /\ p \notin resetting
  /\ resetting' = resetting \cup {p}
  /\ line' = TRUE
  /\ dsp' = NoMessage
  /\ lost' = IF dsp # NoMessage THEN dsp.head ELSE lost
  /\ UNCHANGED <<callVars, sram, irq, completed, handler, response, irq_event,
                 irq_wq, hung>>

\* The firmware starts from the address in the register: what becomes of it
\* when a message has replaced that address is up to the hardware.  A message
\* that was posted before it started it takes, or discards if Forgetful.
FirmwareStarts ==
  /\ hung' \in (IF status = "code" THEN {FALSE} ELSE BOOLEAN)
  /\ \/ UNCHANGED <<sram, lost>>
     \/ /\ Forgetful /\ Posted # {}
        /\ sram' = [i \in ReqIds |-> [sram[i] EXCEPT !.head = None]]
        /\ lost' = sram[CHOOSE i \in Posted : TRUE].head

\* The write drops the line also when it cuts the pulse of another process
\* short, and does nothing when another has dropped it already.
DropLine(p) ==
  /\ p \in resetting
  /\ resetting' = resetting \ {p}
  /\ line' = FALSE
  /\ IF line THEN FirmwareStarts ELSE UNCHANGED <<sram, hung, lost>>
  /\ UNCHANGED <<callVars, dsp, irq, completed, handler, response, irq_event, irq_wq>>

ResetDevice(p) == RaiseLine(p)
RecoveryDevice(p) == RaiseLine(p)

-----------------------------------------------------------------------------
(* The firmware                                                            *)

Hang ==
  /\ InService
  /\ hung' = TRUE
  /\ UNCHANGED <<engineVars, line, resetting, lost>>

StartInService == InService /\ (\E i \in ReqIds : DspStart(i)) /\ UNCHANGED resetVars
FinishInService == InService /\ DspFinish /\ UNCHANGED resetVars

-----------------------------------------------------------------------------
RecoveryNext ==
  \/ \E t \in Threads, r \in Requests : Call(t, r) /\ UNCHANGED resetVars
  \/ \E t \in Threads : RunStep(t) /\ UNCHANGED resetVars
  \/ StartInService
  \/ FinishInService
  \/ IrqStep /\ UNCHANGED resetVars
  \/ \E p \in Resetters : ResetDevice(p) \/ RecoveryDevice(p) \/ DropLine(p)
  \/ Hang

RecoverySafety == RecoveryInit /\ [][RecoveryNext]_recoveryVars

(***************************************************************************)
(* As for the engine, with firmware that works while it is in service and  *)
(* a process that comes back from the delay.  Nobody need issue a reset.   *)
(***************************************************************************)
RecoverySpec ==
  /\ RecoverySafety
  /\ \A t \in Threads : WF_recoveryVars(RunStep(t) /\ UNCHANGED resetVars)
  /\ WF_recoveryVars(StartInService)
  /\ WF_recoveryVars(FinishInService)
  /\ WF_recoveryVars(IrqStep /\ UNCHANGED resetVars)
  /\ \A p \in Resetters : WF_recoveryVars(DropLine(p))

-----------------------------------------------------------------------------
RecoveryTypeOK ==
  /\ EngineTypeOK
  /\ line \in BOOLEAN
  /\ resetting \subseteq Resetters
  /\ hung \in BOOLEAN
  /\ lost \in Maybe

(***************************************************************************)
(* With restarts in between (lines 118-131) STATUS reads busy exactly      *)
(* while a message is in flight, or for ever after a restart has discarded *)
(* one: that is the only way in which the lock is left behind, and then    *)
(* nothing is in flight that could still give it back.                     *)
(***************************************************************************)
StrandedByLossOnly ==
  /\ status = "busy" <=> InFlight # {} \/ lost # None
  /\ lost # None => InFlight = {}

(***************************************************************************)
(* When the DSP is back in service for good, however many processes have   *)
(* pulsed the line and whenever, a busy STATUS is given back unless a      *)
(* restart discarded its message.                                          *)
(***************************************************************************)
ReleasedUnlessLost ==
  <>[]InService => (status = "busy" ~> status # "busy" \/ lost # None)

(***************************************************************************)
(* What the comment of RECOVERY promises, "Driver and firmware recovery in *)
(* unusual situations" (dxrt_drv_message.c:537): once the DSP is back in   *)
(* service for good, no caller of run waits for a busy STATUS for ever.    *)
(***************************************************************************)
RecoveryRestoresService ==
  <>[]InService => (status = "busy" ~> status # "busy")
=============================================================================
