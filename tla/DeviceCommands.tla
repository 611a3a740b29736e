--------------------------- MODULE DeviceCommands ---------------------------
(***************************************************************************)
(* The ioctl of the character device and the commands that address memory: *)
(* WRITE_MEM, READ_MEM and CPU_CACHE_FLUSH, and IDENTIFY_DEVICE, which     *)
(* sets the window that the three check against.                           *)
(*                                                                         *)
(* No lock protects the window: IDENTIFY_DEVICE writes mem_addr, then      *)
(* mem_size, and a check reads mem_addr for its first comparison, and      *)
(* mem_addr again, or what it read before, with mem_size for its second.   *)
(* Sums wrap around at the width of the fields.                            *)
(***************************************************************************)
EXTENDS Integers

CONSTANTS
  Clients,      \* processes
  Space,        \* 2^64: sums are taken modulo Space
  Base,         \* reg_dsp_base_phy_addr_dram
  DramSize,     \* DSP_DRAM_SIZE
  PoolSize,     \* DSP_BUFFER_UNIT_SIZE * DSP_BUFFER_MAX_NUM
  Accesses      \* the arguments (dxrt_req_meminfo_t) that clients pass

Word == 0 .. Space - 1

\* The fields of dxrt_req_meminfo_t that the commands look at.
Meminfo == [base : Word, offset : Word, size : Word, ch : Nat]

ASSUME CommandAssumption ==
  /\ Space \in Nat \ {0}
  /\ Base \in Nat /\ DramSize \in Nat /\ PoolSize \in Nat \ {0}
  /\ Base + DramSize < Space
  /\ PoolSize <= DramSize
  /\ Accesses \subseteq Meminfo

VARIABLES
  mem_addr,     \* dev->mem_addr
  mem_size,     \* dev->mem_size
  call,         \* call[c]: where client c stands in the ioctl
  cmd,          \* cmd[c]: the command of its last ioctl
  arg,          \* arg[c]: its local copy of the argument
  low,          \* low[c]: the mem_addr of its first comparison
  verdict,      \* verdict[c]: what its last ioctl returned, "none" until it does
  info,         \* info[c]: the window IDENTIFY_DEVICE has told it, or NoInfo
  identified,   \* some IDENTIFY_DEVICE has written both fields (history)
  settled       \* settled[c]: identified when its ioctl began (history)

commandVars == <<mem_addr, mem_size, call, cmd, arg, low, verdict, info, identified, settled>>
windowVars == <<mem_addr, mem_size, identified>>

Windowed == {"WRITE_MEM", "READ_MEM", "CPU_CACHE_FLUSH"}
Handled == Windowed \cup {"IDENTIFY_DEVICE"}
\* EVENT stands for the three commands below DXRT_CMD_MAX without a handler,
\* FOREIGN for an ioctl of another magic, and UNKNOWN for one of the driver's
\* magic that is not DXRT_IOCTL_MESSAGE.
Commands == Handled \cup {"EVENT", "MAX", "FOREIGN", "UNKNOWN"}

Advertised == [addr |-> Base, size |-> PoolSize]
NoInfo == [addr |-> 0, size |-> 0]
NoAccess == [base |-> 0, offset |-> 0, size |-> 0, ch |-> 0]

CommandInit ==
  /\ mem_addr = 0
  /\ mem_size = 0
  /\ call = [c \in Clients |-> "user"]
  /\ cmd = [c \in Clients |-> "none"]
  /\ arg = [c \in Clients |-> NoAccess]
  /\ low = [c \in Clients |-> 0]
  /\ verdict = [c \in Clients |-> "none"]
  /\ info = [c \in Clients |-> NoInfo]
  /\ identified = FALSE
  /\ settled = [c \in Clients |-> FALSE]

Goto(c, from, to) == call[c] = from /\ call' = [call EXCEPT ![c] = to]
Return(c, from, code) == Goto(c, from, "user") /\ verdict' = [verdict EXCEPT ![c] = code]

-----------------------------------------------------------------------------
(* dxrt_dev_ioctl and message_handler_general                              *)

\* What every ioctl begins with.
Issue(c, m, a) ==
  /\ cmd' = [cmd EXCEPT ![c] = m]
  /\ arg' = [arg EXCEPT ![c] = a]
  /\ settled' = [settled EXCEPT ![c] = identified]
  /\ UNCHANGED <<mem_addr, mem_size, low, info, identified>>

\* The check of the magic.
IssueForeign(c) ==
  /\ Return(c, "user", "EINVAL")
  /\ Issue(c, "FOREIGN", NoAccess)

\* The number of the ioctl, eight bits, is compared with DXRT_IOCTL_MAX, which
\* has the encoding of _IOW and is larger than any: so every other number comes
\* to the default branch.
IssueUnknown(c) ==
  /\ Return(c, "user", "ok")
  /\ Issue(c, "UNKNOWN", NoAccess)

\* The range check of the message.
IssueInvalid(c) ==
  /\ Return(c, "user", "EINVAL")
  /\ Issue(c, "MAX", NoAccess)

\* The table has no handler, and is called all the same: no return from there.
IssueMissing(c) ==
  /\ Goto(c, "user", "oops")
  /\ Issue(c, "EVENT", NoAccess)
  /\ verdict' = [verdict EXCEPT ![c] = "none"]

IssueIdentify(c) ==
  /\ Goto(c, "user", "addr")
  /\ Issue(c, "IDENTIFY_DEVICE", NoAccess)
  /\ verdict' = [verdict EXCEPT ![c] = "none"]

BadChannel(m, a) == m # "CPU_CACHE_FLUSH" /\ a.ch > 2

IssueAccess(c, m, a) ==
  /\ ~BadChannel(m, a)
  /\ Goto(c, "user", "low")
  /\ Issue(c, m, a)
  /\ verdict' = [verdict EXCEPT ![c] = "none"]

IssueBadChannel(c, m, a) ==
  /\ BadChannel(m, a)
  /\ Return(c, "user", "EINVAL")
  /\ Issue(c, m, a)

\* The message or its argument cannot be copied from user space.
IssueFault(c, m) ==
  /\ Return(c, "user", "EFAULT")
  /\ Issue(c, m, NoAccess)

\* The message has no argument: nothing to do.
IssueNull(c, m) ==
  /\ Return(c, "user", "ok")
  /\ Issue(c, m, NoAccess)

-----------------------------------------------------------------------------
(* IDENTIFY_DEVICE                                                         *)

\* Faulty: the window is closed while it is set.
IdentifyAddrCloses(c) ==
  /\ Goto(c, "addr", "size")
  /\ mem_addr' = Base
  /\ mem_size' = 0
  /\ UNCHANGED <<cmd, arg, low, verdict, info, identified, settled>>

IdentifyAddr(c) ==
  /\ Goto(c, "addr", "size")
  /\ mem_addr' = Base
  /\ UNCHANGED <<mem_size, cmd, arg, low, verdict, info, identified, settled>>

\* Faulty: the end of the window in place of its size.
IdentifySizeIsEnd(c) ==
  /\ Goto(c, "size", "info")
  /\ mem_size' = Base + DramSize
  /\ identified' = TRUE
  /\ UNCHANGED <<mem_addr, cmd, arg, low, verdict, info, settled>>

IdentifySize(c) ==
  /\ Goto(c, "size", "info")
  /\ mem_size' = DramSize
  /\ identified' = TRUE
  /\ UNCHANGED <<mem_addr, cmd, arg, low, verdict, info, settled>>

\* The size that is told is that of the buffer slots, not that of the window.
IdentifyTell(c) ==
  /\ Return(c, "info", "ok")
  /\ info' = [info EXCEPT ![c] = Advertised]
  /\ UNCHANGED <<windowVars, cmd, arg, low, settled>>

\* The client has given no place for the answer, or the copy there fails.
IdentifyUntold(c) ==
  /\ \E code \in {"ok", "EFAULT"} : Return(c, "info", code)
  /\ UNCHANGED <<windowVars, cmd, arg, low, info, settled>>

-----------------------------------------------------------------------------
(* WRITE_MEM, READ_MEM and CPU_CACHE_FLUSH                                 *)

Start(a) == (a.base + a.offset) % Space
End(a) == (a.base + a.offset + a.size) % Space

CheckLow(c) ==
  /\ call[c] = "low"
  /\ low' = [low EXCEPT ![c] = mem_addr]
  /\ \/ Start(arg[c]) < mem_addr /\ Return(c, "low", "EINVAL")
     \/ Start(arg[c]) >= mem_addr /\ Goto(c, "low", "limit") /\ UNCHANGED verdict
  /\ UNCHANGED <<windowVars, cmd, arg, info, settled>>

\* Faulty: the size of the access is left out.
CheckLimitOfStart(c) ==
  \E addr \in {low[c], mem_addr} :
    LET limit == (addr + mem_size) % Space IN
      /\ \/ Start(arg[c]) > limit /\ Return(c, "limit", "EINVAL")
         \/ Start(arg[c]) <= limit /\ Goto(c, "limit", "copy") /\ UNCHANGED verdict
      /\ UNCHANGED <<windowVars, cmd, arg, low, info, settled>>

\* The build may read mem_addr again or keep what it has.
CheckLimit(c) ==
  \E addr \in {low[c], mem_addr} :
    LET limit == (addr + mem_size) % Space IN
      /\ \/ End(arg[c]) > limit /\ Return(c, "limit", "EINVAL")
         \/ End(arg[c]) <= limit /\ Goto(c, "limit", "copy") /\ UNCHANGED verdict
      /\ UNCHANGED <<windowVars, cmd, arg, low, info, settled>>

\* The copy between user space and dma_buf, or the cache operation.
Transfer(c) ==
  /\ \/ Return(c, "copy", "ok")
     \/ cmd[c] # "CPU_CACHE_FLUSH" /\ Return(c, "copy", "EFAULT")
  /\ UNCHANGED <<windowVars, cmd, arg, low, info, settled>>

-----------------------------------------------------------------------------
CommandNext ==
  \E c \in Clients :
    \/ IssueForeign(c) \/ IssueUnknown(c)
    \/ IssueInvalid(c) \/ IssueMissing(c) \/ IssueIdentify(c)
    \/ \E m \in Handled : IssueFault(c, m)
    \/ \E m \in Windowed : IssueNull(c, m)
    \/ \E m \in Windowed, a \in Accesses : IssueAccess(c, m, a) \/ IssueBadChannel(c, m, a)
    \/ IdentifyAddr(c) \/ IdentifySize(c) \/ IdentifyTell(c) \/ IdentifyUntold(c)
    \/ CheckLow(c) \/ CheckLimit(c) \/ Transfer(c)

CommandSpec == CommandInit /\ [][CommandNext]_commandVars

-----------------------------------------------------------------------------
CommandTypeOK ==
  /\ mem_addr \in {0, Base} /\ mem_size \in {0, DramSize}
  /\ call \in [Clients -> {"user", "addr", "size", "info", "low", "limit", "copy", "oops"}]
  /\ cmd \in [Clients -> Commands \cup {"none"}]
  /\ arg \in [Clients -> Meminfo]
  /\ low \in [Clients -> {0, Base}]
  /\ verdict \in [Clients -> {"none", "ok", "EINVAL", "EFAULT"}]
  /\ info \in [Clients -> {NoInfo, Advertised}]
  /\ identified \in BOOLEAN
  /\ settled \in [Clients -> BOOLEAN]

\* The last ioctl of the client has passed the checks, and maybe returned.
Accepted(c) ==
  /\ cmd[c] \in Windowed /\ arg[c] # NoAccess
  /\ call[c] = "copy" \/ verdict[c] = "ok"

NoWrap(a) == a.base + a.offset + a.size < Space

Inside(a) ==
  /\ Base <= a.base + a.offset
  /\ a.base + a.offset + a.size <= Base + DramSize

(***************************************************************************)
(* What the two comparisons (lines 163-164) let pass, of all accesses,     *)
(* although they read the window in pieces while other clients rewrite it. *)
(* The end, as the code computes it, is never past the memory of the DSP,  *)
(* and the access lies inside, with two exceptions: its sum wraps around,  *)
(* or it begins below the memory, in a call that began before the first    *)
(* IDENTIFY_DEVICE had set the window.                                     *)
(***************************************************************************)
AcceptedInside ==
  \A c \in Clients :
    LET a == arg[c] IN
      Accepted(c) =>
        /\ End(a) <= Base + DramSize
        /\ \/ Inside(a)
           \/ ~NoWrap(a)
           \/ ~settled[c] /\ Start(a) < Base

(***************************************************************************)
(* A client that stays in the window IDENTIFY_DEVICE has told it (lines    *)
(* 83-84) and on a channel that exists is never refused: the window that   *)
(* is advertised is inside the one that is checked, also while another     *)
(* client identifies.                                                      *)
(***************************************************************************)
AdvertisedAccepted ==
  \A c \in Clients :
    LET a == arg[c] IN
      /\ cmd[c] \in Windowed /\ info[c] = Advertised
      /\ a.base = Base /\ a.offset + a.size <= PoolSize /\ a.ch <= 2
      => verdict[c] # "EINVAL"

(***************************************************************************)
(* The comment of dxrt_dev_ioctl (dxrt_drv_cdev.c:183-185): -EINVAL if the *)
(* command is invalid, be it the message or the number of the ioctl.       *)
(***************************************************************************)
InvalidIsRefused ==
  \A c \in Clients : cmd[c] \in Commands \ Handled => verdict[c] = "EINVAL"
=============================================================================
