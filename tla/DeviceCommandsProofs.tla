------------------------ MODULE DeviceCommandsProofs ------------------------
(***************************************************************************)
(* Theorems about DeviceCommands for any number of clients, any window and *)
(* any accesses.                                                           *)
(***************************************************************************)
EXTENDS DeviceCommands, TLAPS

-----------------------------------------------------------------------------
(* Arithmetic                                                              *)

\* Below the width of the fields, a sum does not wrap.
LEMMA NoWrapNoMod ==
  ASSUME NEW x \in Nat, x < Space
  PROVE  x % Space = x
  BY CommandAssumption

LEMMA SumsAreWords ==
  ASSUME NEW a \in Meminfo
  PROVE  /\ Start(a) \in Nat /\ End(a) \in Nat
         /\ NoWrap(a) => /\ Start(a) = a.base + a.offset
                         /\ End(a) = a.base + a.offset + a.size
<1>1. a.base \in Nat /\ a.offset \in Nat /\ a.size \in Nat
  BY CommandAssumption DEF Meminfo, Word
<1> DEFINE start == a.base + a.offset
           end == a.base + a.offset + a.size
<1>2. start \in Nat /\ end \in Nat /\ start <= end
  BY <1>1
<1>3. start % Space \in Nat /\ end % Space \in Nat
  BY <1>2, CommandAssumption
<1>4. end < Space => start % Space = start /\ end % Space = end
  BY <1>2, NoWrapNoMod, CommandAssumption
<1> QED BY <1>3, <1>4 DEF Start, End, NoWrap

-----------------------------------------------------------------------------
(* Type correctness                                                        *)

LEMMA NoAccessType == NoAccess \in Meminfo
  BY CommandAssumption DEF NoAccess, Meminfo, Word

(***************************************************************************)
(* Every variable keeps its type; the fields of the window are zero or     *)
(* what IDENTIFY_DEVICE writes (lines 75-76).                              *)
(***************************************************************************)
THEOREM CommandTypes == CommandSpec => []CommandTypeOK
<1>1. CommandInit => CommandTypeOK
  BY NoAccessType DEF CommandInit, CommandTypeOK
<1>2. CommandTypeOK /\ [CommandNext]_commandVars => CommandTypeOK'
  <2> SUFFICES ASSUME CommandTypeOK, [CommandNext]_commandVars
               PROVE  CommandTypeOK'
    OBVIOUS
  <2> USE NoAccessType DEF CommandTypeOK, Goto, Return, windowVars
  <2>1. CASE UNCHANGED commandVars
    BY <2>1 DEF commandVars
  <2>2. ASSUME NEW c \in Clients,
               \/ IssueForeign(c) \/ IssueUnknown(c)
               \/ IssueInvalid(c) \/ IssueMissing(c) \/ IssueIdentify(c)
               \/ \E m \in Handled : IssueFault(c, m)
               \/ \E m \in Windowed : IssueNull(c, m)
        PROVE  CommandTypeOK'
    BY <2>2 DEF IssueForeign, IssueUnknown, IssueInvalid, IssueMissing, IssueIdentify,
                IssueFault, IssueNull, Issue, Commands, Handled
  <2>3. ASSUME NEW c \in Clients, NEW m \in Windowed, NEW a \in Accesses,
               IssueAccess(c, m, a) \/ IssueBadChannel(c, m, a)
        PROVE  CommandTypeOK'
    BY <2>3, CommandAssumption DEF IssueAccess, IssueBadChannel, Issue, Commands, Handled
  <2>4. ASSUME NEW c \in Clients, IdentifyAddr(c) \/ IdentifySize(c) PROVE CommandTypeOK'
    BY <2>4 DEF IdentifyAddr, IdentifySize
  <2>5. ASSUME NEW c \in Clients, IdentifyTell(c) PROVE CommandTypeOK'
    BY <2>5 DEF IdentifyTell
  <2>6. ASSUME NEW c \in Clients, IdentifyUntold(c) PROVE CommandTypeOK'
    BY <2>6 DEF IdentifyUntold
  <2>7. ASSUME NEW c \in Clients, CheckLow(c) PROVE CommandTypeOK'
    BY <2>7 DEF CheckLow
  <2>8. ASSUME NEW c \in Clients, CheckLimit(c) PROVE CommandTypeOK'
    BY <2>8 DEF CheckLimit
  <2>9. ASSUME NEW c \in Clients, Transfer(c) PROVE CommandTypeOK'
    BY <2>9 DEF Transfer
  <2> QED BY <2>1, <2>2, <2>3, <2>4, <2>5, <2>6, <2>7, <2>8, <2>9 DEF CommandNext
<1> QED BY <1>1, <1>2, PTL DEF CommandSpec
-----------------------------------------------------------------------------
(* The invariant                                                           *)

\* Once written the window does not change: later calls write the same.
WindowInv == identified => mem_addr = Base /\ mem_size = DramSize

\* Where client c stands, and what it has seen of the window on the way.
CallInv(c) ==
  /\ call[c] \in {"addr", "size", "info"} => cmd[c] = "IDENTIFY_DEVICE"
  /\ call[c] \in {"size", "info"} => mem_addr = Base
  /\ call[c] = "info" => identified
  /\ call[c] \in {"low", "limit", "copy"} => cmd[c] \in Windowed /\ verdict[c] = "none"

\* A client that was told the window began its access after it was set.
ToldInv(c) ==
  /\ settled[c] \/ info[c] = Advertised => identified
  /\ cmd[c] \in Windowed /\ info[c] = Advertised => settled[c]

CheckedInv(c) ==
  /\ settled[c] /\ call[c] = "limit" => low[c] = Base /\ Start(arg[c]) >= Base
  /\ Accepted(c) =>
       /\ End(arg[c]) <= Base + DramSize
       /\ settled[c] => Start(arg[c]) >= Base

\* AdvertisedAccepted, for client c.
ServedInv(c) ==
  LET a == arg[c] IN
    /\ cmd[c] \in Windowed /\ info[c] = Advertised
    /\ a.base = Base /\ a.offset + a.size <= PoolSize /\ a.ch <= 2
    => verdict[c] # "EINVAL"

ClientInv(c) == CallInv(c) /\ ToldInv(c) /\ CheckedInv(c) /\ ServedInv(c)
CommandInv == WindowInv /\ \A c \in Clients : ClientInv(c)

clientState(c) == <<call[c], cmd[c], arg[c], low[c], verdict[c], info[c], settled[c]>>

\* What one client does cannot disturb another: the window it may see change
\* is one that was not set, or is set to what it was.
LEMMA OthersKeep ==
  ASSUME NEW d \in Clients, ClientInv(d), UNCHANGED clientState(d),
         mem_addr' \in {mem_addr, Base}, identified => identified'
  PROVE  ClientInv(d)'
<1> USE DEF clientState
<1>1. CallInv(d)'
  BY DEF ClientInv, CallInv
<1>2. ToldInv(d)'
  BY DEF ClientInv, ToldInv
<1>3. CheckedInv(d)'
  BY DEF ClientInv, CheckedInv, Accepted, Start, End
<1>4. ServedInv(d)'
  BY DEF ClientInv, ServedInv
<1> QED BY <1>1, <1>2, <1>3, <1>4 DEF ClientInv

\* So a step of client c is about the window and c.
LEMMA OneClient ==
  ASSUME CommandInv, NEW c \in Clients,
         \A d \in Clients \ {c} : UNCHANGED clientState(d),
         mem_addr' \in {mem_addr, Base}, identified => identified',
         WindowInv', ClientInv(c)'
  PROVE  CommandInv'
  BY OthersKeep DEF CommandInv

-----------------------------------------------------------------------------
(* Each step preserves it                                                  *)

LEMMA IssueInv ==
  ASSUME CommandTypeOK, CommandInv, NEW c \in Clients,
         \/ IssueForeign(c) \/ IssueUnknown(c)
         \/ IssueInvalid(c) \/ IssueMissing(c) \/ IssueIdentify(c)
         \/ \E m \in Handled : IssueFault(c, m)
         \/ \E m \in Windowed : IssueNull(c, m)
         \/ \E m \in Windowed, a \in Accesses : IssueAccess(c, m, a) \/ IssueBadChannel(c, m, a)
  PROVE  CommandInv'
<1> USE DEF CommandTypeOK, Goto, Return
<1>1. PICK m \in Commands, a \in Meminfo :
        /\ Issue(c, m, a)
        /\ \/ Return(c, "user", "EINVAL") /\ (m \notin Windowed \/ a.ch > 2)
           \/ Return(c, "user", "EFAULT")
           \/ Return(c, "user", "ok") /\ a = NoAccess
           \/ /\ \/ m = "IDENTIFY_DEVICE" /\ Goto(c, "user", "addr")
                 \/ m \in Windowed /\ Goto(c, "user", "low")
                 \/ m = "EVENT" /\ Goto(c, "user", "oops")
              /\ verdict' = [verdict EXCEPT ![c] = "none"]
  <2>1. CASE IssueInvalid(c)
    <3>1. "MAX" \in Commands /\ "MAX" \notin Windowed
      BY DEF Commands, Windowed
    <3> QED BY <2>1, <3>1, NoAccessType DEF IssueInvalid
  <2>0. CASE IssueForeign(c)
    <3>1. "FOREIGN" \in Commands /\ "FOREIGN" \notin Windowed
      BY DEF Commands, Windowed
    <3> QED BY <2>0, <3>1, NoAccessType DEF IssueForeign
  <2>8. CASE IssueUnknown(c)
    BY <2>8, NoAccessType DEF IssueUnknown, Commands
  <2>2. CASE IssueMissing(c)
    BY <2>2, NoAccessType DEF IssueMissing, Commands
  <2>3. CASE IssueIdentify(c)
    <3>1. "IDENTIFY_DEVICE" \in Commands
      BY DEF Commands, Handled
    <3> QED BY <2>3, <3>1, NoAccessType DEF IssueIdentify
  <2>4. CASE \E m \in Handled : IssueFault(c, m)
    BY <2>4, NoAccessType DEF IssueFault, Commands
  <2>5. CASE \E m \in Windowed : IssueNull(c, m)
    BY <2>5, NoAccessType DEF IssueNull, Commands, Handled
  <2>6. ASSUME NEW m \in Windowed, NEW a \in Accesses, IssueAccess(c, m, a)
        PROVE  m \in Commands /\ a \in Meminfo /\ Issue(c, m, a) /\ Goto(c, "user", "low")
               /\ verdict' = [verdict EXCEPT ![c] = "none"]
    BY <2>6, CommandAssumption DEF IssueAccess, Commands, Handled
  <2>7. ASSUME NEW m \in Windowed, NEW a \in Accesses, IssueBadChannel(c, m, a)
        PROVE  m \in Commands /\ a \in Meminfo /\ Issue(c, m, a)
               /\ Return(c, "user", "EINVAL") /\ a.ch > 2
    BY <2>7, CommandAssumption DEF IssueBadChannel, BadChannel, Commands, Handled
  <2> QED BY <2>0, <2>1, <2>2, <2>3, <2>4, <2>5, <2>6, <2>7, <2>8
<1>2. /\ cmd'[c] = m /\ arg'[c] = a /\ settled'[c] = identified /\ info'[c] = info[c]
      /\ UNCHANGED <<mem_addr, mem_size, identified>>
  BY <1>1 DEF Issue
<1>3. \A d \in Clients \ {c} : UNCHANGED clientState(d)
  BY <1>1 DEF Issue, clientState
<1>4. WindowInv'
  BY <1>2 DEF CommandInv, WindowInv
<1>5. ClientInv(c)'
  <2>0. ClientInv(c)
    BY DEF CommandInv
  <2>1. CallInv(c)'
    BY <1>1, <1>2 DEF CallInv
  <2>2. ToldInv(c)'
    BY <1>2, <2>0 DEF ClientInv, ToldInv
  <2>3. CheckedInv(c)'
    BY <1>1, <1>2 DEF CheckedInv, Accepted
  <2>4. ServedInv(c)'
    <3>1. verdict'[c] = "EINVAL" => m \notin Windowed \/ a.ch > 2
      BY <1>1
    <3>2. a.ch \in Nat
      BY DEF Meminfo
    <3> QED BY <1>2, <3>1, <3>2 DEF ServedInv
  <2> QED BY <2>1, <2>2, <2>3, <2>4 DEF ClientInv
<1> QED BY <1>2, <1>3, <1>4, <1>5, OneClient

LEMMA IdentifyInv ==
  ASSUME CommandTypeOK, CommandInv, NEW c \in Clients,
         IdentifyAddr(c) \/ IdentifySize(c) \/ IdentifyTell(c) \/ IdentifyUntold(c)
  PROVE  CommandInv'
<1> USE DEF CommandTypeOK, Goto, Return, windowVars
<1>0. WindowInv /\ ClientInv(c)
  BY DEF CommandInv
<1>1. /\ call[c] \in {"addr", "size", "info"}
      /\ \A d \in Clients \ {c} : UNCHANGED clientState(d)
      /\ mem_addr' \in {mem_addr, Base}
      /\ identified => identified'
      /\ UNCHANGED <<cmd, arg, settled>>
  BY DEF IdentifyAddr, IdentifySize, IdentifyTell, IdentifyUntold, clientState
<1>2. cmd[c] = "IDENTIFY_DEVICE" /\ cmd[c] \notin Windowed
  BY <1>0, <1>1 DEF ClientInv, CallInv, Windowed
<1>3. WindowInv' /\ CallInv(c)' /\ (info'[c] = Advertised => identified')
  <2>1. CASE IdentifyAddr(c)
    BY <1>0, <1>2, <2>1 DEF IdentifyAddr, WindowInv, CallInv, ClientInv, ToldInv
  <2>2. CASE IdentifySize(c)
    BY <1>0, <1>2, <2>2 DEF IdentifySize, WindowInv, CallInv, ClientInv
  <2>3. CASE IdentifyTell(c)
    BY <1>0, <1>2, <2>3 DEF IdentifyTell, WindowInv, CallInv, ClientInv
  <2>4. CASE IdentifyUntold(c)
    BY <1>0, <1>2, <2>4 DEF IdentifyUntold, WindowInv, CallInv, ClientInv, ToldInv
  <2> QED BY <2>1, <2>2, <2>3, <2>4
<1>4. ToldInv(c)' /\ ServedInv(c)'
  BY <1>0, <1>1, <1>2, <1>3 DEF ClientInv, ToldInv, ServedInv
<1>5. CheckedInv(c)'
  <2>1. call'[c] # "limit"
    BY <1>1 DEF IdentifyAddr, IdentifySize, IdentifyTell, IdentifyUntold
  <2> QED BY <1>1, <1>2, <2>1 DEF CheckedInv, Accepted
<1> QED BY <1>1, <1>3, <1>4, <1>5, OneClient DEF ClientInv

\* An access inside what is advertised passes both comparisons.
LEMMA AdvertisedFits ==
  ASSUME NEW a \in Meminfo, a.base = Base, a.offset + a.size <= PoolSize
  PROVE  Start(a) >= Base /\ End(a) <= Base + DramSize
<1>1. a.offset \in Nat /\ a.size \in Nat
  BY CommandAssumption DEF Meminfo, Word
<1>2. NoWrap(a)
  BY <1>1, CommandAssumption DEF NoWrap
<1> QED BY <1>1, <1>2, SumsAreWords, CommandAssumption

LEMMA CheckInv ==
  ASSUME CommandTypeOK, CommandInv, NEW c \in Clients,
         CheckLow(c) \/ CheckLimit(c) \/ Transfer(c)
  PROVE  CommandInv'
<1> USE DEF CommandTypeOK, Goto, Return, windowVars
<1> DEFINE a == arg[c]
<1>0. WindowInv /\ ClientInv(c) /\ a \in Meminfo
  BY DEF CommandInv
<1>1. /\ call[c] \in {"low", "limit", "copy"}
      /\ \A d \in Clients \ {c} : UNCHANGED clientState(d)
      /\ UNCHANGED <<mem_addr, mem_size, identified, cmd, arg, info, settled>>
  BY DEF CheckLow, CheckLimit, Transfer, clientState
<1>2. cmd[c] \in Windowed /\ verdict[c] = "none"
  BY <1>0, <1>1 DEF ClientInv, CallInv
<1>3. settled[c] => mem_addr = Base /\ (mem_addr + mem_size) % Space = Base + DramSize
  <2>1. settled[c] => mem_addr = Base /\ mem_size = DramSize
    BY <1>0 DEF ClientInv, ToldInv, WindowInv
  <2>2. (Base + DramSize) % Space = Base + DramSize
    BY NoWrapNoMod, CommandAssumption
  <2> QED BY <2>1, <2>2
<1>4. Start(a) \in Nat /\ End(a) \in Nat
  BY <1>0, SumsAreWords
<1>5. WindowInv'
  BY <1>0, <1>1 DEF WindowInv
<1>6. ToldInv(c)'
  BY <1>0, <1>1 DEF ClientInv, ToldInv
<1>7. CallInv(c)'
  BY <1>1, <1>2 DEF CheckLow, CheckLimit, Transfer, CallInv
<1>8. CheckedInv(c)'
  <2>1. CASE CheckLow(c)
    <3>1. call'[c] # "copy" /\ verdict'[c] # "ok"
      BY <1>2, <2>1 DEF CheckLow
    <3>2. settled[c] /\ call'[c] = "limit" => low'[c] = Base /\ Start(a) >= Base
      BY <1>3, <2>1 DEF CheckLow
    <3> QED BY <1>1, <3>1, <3>2 DEF CheckedInv, Accepted, Start
  <2>2. CASE CheckLimit(c)
    <3>1. settled[c] => Start(a) >= Base
      BY <1>0, <2>2 DEF CheckLimit, ClientInv, CheckedInv
    <3>2. \A addr \in {low[c], mem_addr} : (addr + mem_size) % Space <= Base + DramSize
      <4>1. ASSUME NEW addr \in {low[c], mem_addr} PROVE (addr + mem_size) % Space <= Base + DramSize
        <5>1. /\ addr + mem_size \in Nat /\ addr + mem_size <= Base + DramSize
              /\ addr + mem_size < Space
          BY CommandAssumption
        <5> QED BY <5>1, NoWrapNoMod
      <4> QED BY <4>1
    <3>3. call'[c] = "copy" => End(a) <= Base + DramSize
      <4> SUFFICES ASSUME call'[c] = "copy" PROVE End(a) <= Base + DramSize
        OBVIOUS
      <4>1. PICK addr \in {low[c], mem_addr} : End(a) <= (addr + mem_size) % Space
        BY <2>2 DEF CheckLimit
      <4>2. (addr + mem_size) % Space \in Nat
        BY CommandAssumption
      <4> QED BY <1>4, <3>2, <4>1, <4>2, CommandAssumption
    <3>4. call'[c] # "limit" /\ verdict'[c] # "ok"
      BY <1>2, <2>2 DEF CheckLimit
    <3> QED BY <1>1, <3>1, <3>3, <3>4 DEF CheckedInv, Accepted, Start, End
  <2>3. CASE Transfer(c)
    <3>1. Accepted(c)' => Accepted(c)
      BY <1>1, <2>3 DEF Transfer, Accepted
    <3>2. call'[c] # "limit"
      BY <2>3 DEF Transfer
    <3> QED BY <1>0, <1>1, <3>1, <3>2 DEF ClientInv, CheckedInv, Start, End
  <2> QED BY <2>1, <2>2, <2>3
<1>9. ServedInv(c)'
  <2> SUFFICES ASSUME info[c] = Advertised, a.base = Base, a.offset + a.size <= PoolSize
               PROVE  verdict'[c] # "EINVAL"
    BY <1>1 DEF ServedInv
  <2>1. settled[c]
    BY <1>0, <1>2 DEF ClientInv, ToldInv
  <2>2. Start(a) >= Base /\ End(a) <= Base + DramSize
    BY <1>0, AdvertisedFits
  <2>3. CASE CheckLow(c)
    BY <1>2, <1>3, <1>4, <2>1, <2>2, <2>3, CommandAssumption DEF CheckLow
  <2>4. CASE CheckLimit(c)
    <3>1. low[c] = Base
      BY <1>0, <2>1, <2>4 DEF CheckLimit, ClientInv, CheckedInv
    <3> QED BY <1>2, <1>3, <1>4, <2>1, <2>2, <2>4, <3>1, CommandAssumption DEF CheckLimit
  <2>5. CASE Transfer(c)
    BY <1>2, <2>5 DEF Transfer
  <2> QED BY <2>3, <2>4, <2>5
<1> QED BY <1>1, <1>5, <1>6, <1>7, <1>8, <1>9, OneClient DEF ClientInv

LEMMA CommandInvHolds == CommandSpec => []CommandInv
<1>1. CommandInit => CommandInv
  <2>0. CommandInit => WindowInv
    BY DEF CommandInit, WindowInv
  <2> SUFFICES ASSUME CommandInit, NEW c \in Clients PROVE ClientInv(c)
    BY <2>0 DEF CommandInv
  <2>1. NoInfo # Advertised
    BY CommandAssumption DEF NoInfo, Advertised
  <2>2. call[c] = "user" /\ cmd[c] = "none" /\ info[c] = NoInfo /\ ~identified /\ ~settled[c]
    BY DEF CommandInit
  <2> QED BY <2>1, <2>2 DEF ClientInv, CallInv, ToldInv, CheckedInv, ServedInv, Windowed,
                            Accepted
<1>2. CommandTypeOK /\ CommandInv /\ [CommandNext]_commandVars => CommandInv'
  <2> SUFFICES ASSUME CommandTypeOK, CommandInv, [CommandNext]_commandVars
               PROVE  CommandInv'
    OBVIOUS
  <2>1. CASE UNCHANGED commandVars
    <3>1. WindowInv' /\ \A d \in Clients : ClientInv(d)'
      BY <2>1, OthersKeep DEF commandVars, CommandInv, WindowInv, clientState
    <3> QED BY <3>1 DEF CommandInv
  <2> QED BY <2>1, IssueInv, IdentifyInv, CheckInv DEF CommandNext
<1> QED BY <1>1, <1>2, CommandTypes, PTL DEF CommandSpec

-----------------------------------------------------------------------------
(***************************************************************************)
(* No access passes the two comparisons with an end past the memory of the *)
(* DSP, and each that passes lies inside but for the two exceptions that   *)
(* AcceptedInside names (dxrt_drv_message.c:75-76, 163-164): whatever the  *)
(* accesses, and while other clients rewrite the window.                   *)
(***************************************************************************)
THEOREM AcceptedIsInside == CommandSpec => []AcceptedInside
<1>1. CommandTypeOK /\ CommandInv => AcceptedInside
  <2> SUFFICES ASSUME CommandTypeOK, CommandInv, NEW c \in Clients, Accepted(c)
               PROVE  /\ End(arg[c]) <= Base + DramSize
                      /\ \/ Inside(arg[c])
                         \/ ~NoWrap(arg[c])
                         \/ ~settled[c] /\ Start(arg[c]) < Base
    BY DEF AcceptedInside
  <2>1. End(arg[c]) <= Base + DramSize /\ (settled[c] => Start(arg[c]) >= Base)
    BY DEF CommandInv, ClientInv, CheckedInv
  <2>2. arg[c] \in Meminfo
    BY DEF CommandTypeOK
  <2>3. Start(arg[c]) >= Base \/ Start(arg[c]) < Base
    BY <2>2, SumsAreWords, CommandAssumption
  <2>4. NoWrap(arg[c]) /\ Start(arg[c]) >= Base => Inside(arg[c])
    BY <2>1, <2>2, SumsAreWords DEF Inside
  <2> QED BY <2>1, <2>3, <2>4, CommandAssumption
<1> QED BY <1>1, CommandTypes, CommandInvHolds, PTL

(***************************************************************************)
(* A client that stays in the window it was told, on a channel that        *)
(* exists, is never refused.                                               *)
(***************************************************************************)
THEOREM AdvertisedIsAccepted == CommandSpec => []AdvertisedAccepted
<1>1. CommandInv => AdvertisedAccepted
  BY DEF CommandInv, ClientInv, ServedInv, AdvertisedAccepted
<1> QED BY <1>1, CommandInvHolds, PTL
=============================================================================
