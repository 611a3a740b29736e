--------------------------- MODULE BufferManager ---------------------------
(***************************************************************************)
(* The buffer manager: the ioctl commands ALLOC_BUF and FREE_BUF on the    *)
(* table g_dsp_memory_manager.buffers, which divides the DSP buffer into   *)
(* slots of one unit each.                                                 *)
(*                                                                         *)
(* Each command searches and marks the table in one critical section of    *)
(* irq_event_lock; it copies to or from user space outside it, and the     *)
(* copy may fail.  The code does not know who allocated a slot: a client   *)
(* may give back what it holds, or name any other offset (FreeBogus): of a *)
(* slot that is free, of one that another has, or of none.  It may exit at *)
(* any time between two calls, and release of the character device does    *)
(* not give its slots back.                                                *)
(***************************************************************************)
EXTENDS Integers, FiniteSets

CONSTANTS
  Clients,      \* processes that use the buffer commands
  MaxNum,       \* DSP_BUFFER_MAX_NUM
  Unit          \* DSP_BUFFER_UNIT_SIZE

ASSUME BufferAssumption ==
  /\ MaxNum \in Nat \ {0}
  /\ Unit \in Nat \ {0}
  /\ Clients \cap {"free", "lost", "contested"} = {}

VARIABLES
  buffers,      \* the table: offset and allocated size of each slot
  call,         \* call[c]: where client c stands in a command
  found,        \* found[c]: the local index of the slot it works on
  offset,       \* offset[c]: the local dsp_buf_offset it returns or was given
  held,         \* held[c]: the offsets that c has been given and not returned
  freed,        \* freed[c]: the last command of c was a FREE_BUF that returned 0
  orphaned,     \* the offsets held by processes that have exited (history)
  contested     \* slots given back by a client that did not have them (history)

bufferVars == <<buffers, call, found, offset, held, freed, orphaned, contested>>

Slots == 0 .. MaxNum - 1
NoSlot == -1

\* The offset of slot i from the base of the DSP buffer.
Off(i) == i * Unit

\* dx_v3_dsp_buf_init clears the whole table, offsets included.
BufferInit ==
  /\ buffers = [i \in Slots |-> [dsp_buf_offset |-> 0, alloc_size |-> 0]]
  /\ call = [c \in Clients |-> "user"]
  /\ found = [c \in Clients |-> NoSlot]
  /\ offset = [c \in Clients |-> 0]
  /\ held = [c \in Clients |-> {}]
  /\ freed = [c \in Clients |-> FALSE]
  /\ orphaned = {} /\ contested = {}

Move(c, from, to, success) ==
  /\ call[c] \in from
  /\ call' = [call EXCEPT ![c] = to]
  /\ freed' = [freed EXCEPT ![c] = success]

-----------------------------------------------------------------------------
(* ALLOC_BUF                                                               *)

IsFree(i) == buffers[i].alloc_size = 0
FirstFree(i) == IsFree(i) /\ \A j \in Slots : j < i => ~IsFree(j)

\* Faulty: slots are counted from one.
MarkFromOne(i) ==
  buffers' = [buffers EXCEPT ![i] = [dsp_buf_offset |-> Off(i + 1), alloc_size |-> Unit]]

Mark(i) == buffers' = [buffers EXCEPT ![i] = [dsp_buf_offset |-> Off(i), alloc_size |-> Unit]]
Unmark(i) == buffers' = [buffers EXCEPT ![i].alloc_size = 0]

\* Faulty: the slot is found under the lock and marked after the copy.
AllocUnmarked(c) ==
  \E i \in Slots :
    /\ FirstFree(i)
    /\ Move(c, {"user"}, "copy", FALSE)
    /\ found' = [found EXCEPT ![c] = i]
    /\ offset' = [offset EXCEPT ![c] = Off(i)]
    /\ UNCHANGED <<buffers, held, orphaned, contested>>

\* When no slot is free the command returns -ENOMEM and changes nothing.
Alloc(c) ==
  \E i \in Slots :
    /\ FirstFree(i)
    /\ Move(c, {"user"}, "copy", FALSE)
    /\ found' = [found EXCEPT ![c] = i]
    /\ offset' = [offset EXCEPT ![c] = Off(i)]
    /\ Mark(i)
    /\ UNCHANGED <<held, orphaned, contested>>

\* copy_to_user succeeds, and the client knows what it has.
AllocReturn(c) ==
  /\ Move(c, {"copy"}, "user", FALSE)
  /\ held' = [held EXCEPT ![c] = @ \cup {offset[c]}]
  /\ found' = [found EXCEPT ![c] = NoSlot]
  /\ offset' = [offset EXCEPT ![c] = 0]
  /\ UNCHANGED <<buffers, orphaned, contested>>

\* Faulty: -EFAULT without giving the slot back.
AllocNoRollback(c) ==
  /\ Move(c, {"copy"}, "user", FALSE)
  /\ found' = [found EXCEPT ![c] = NoSlot]
  /\ offset' = [offset EXCEPT ![c] = 0]
  /\ UNCHANGED <<buffers, held, orphaned, contested>>

\* -EFAULT: the slot marked before the copy is given back in a critical
\* section of its own.
AllocRollback(c) ==
  /\ Move(c, {"copy"}, "user", FALSE)
  /\ Unmark(found[c])
  /\ found' = [found EXCEPT ![c] = NoSlot]
  /\ offset' = [offset EXCEPT ![c] = 0]
  /\ UNCHANGED <<held, orphaned, contested>>

-----------------------------------------------------------------------------
(* FREE_BUF                                                                *)

\* The client calls: from here on it does not use the slot.
Free(c, o) ==
  /\ o \in held[c]
  /\ Move(c, {"user"}, "free", FALSE)
  /\ offset' = [offset EXCEPT ![c] = o]
  /\ held' = [held EXCEPT ![c] = @ \ {o}]
  /\ UNCHANGED <<buffers, found, orphaned, contested>>

Offsets == {Off(i) : i \in Slots}
NoSuchOffset == Off(MaxNum)

\* The client names an offset that it does not hold, perhaps no longer.
FreeBogus(c, o) ==
  /\ o \notin held[c]
  /\ Move(c, {"user"}, "bogus", FALSE)
  /\ offset' = [offset EXCEPT ![c] = o]
  /\ UNCHANGED <<buffers, found, held, orphaned, contested>>

\* Faulty: the test of alloc_size is missing.
MatchesUnused(i, o) == buffers[i].dsp_buf_offset = o

Matches(i, o) == ~IsFree(i) /\ buffers[i].dsp_buf_offset = o
FirstMatch(i, o) == Matches(i, o) /\ \A j \in Slots : j < i => ~Matches(j, o)

\* -EFAULT: copy_from_user fails, or -EINVAL: the message has no argument.  The
\* table is not touched, so that the client still has what it tried to give back.
FreeFault(c) ==
  /\ Move(c, {"free", "bogus"}, "user", FALSE)
  /\ held' = [held EXCEPT ![c] = @ \cup (IF call[c] = "free" THEN {offset[c]} ELSE {})]
  /\ offset' = [offset EXCEPT ![c] = 0]
  /\ UNCHANGED <<buffers, found, orphaned, contested>>

\* The history of the search: slot i was not the client's to give back.
Contest(c, i) ==
  contested' = contested \cup (IF call[c] = "bogus" THEN {i} ELSE {})

\* Faulty: gives back the slot after the one that matches.
FreeSearchNext(c) ==
  \E i \in Slots :
    /\ FirstMatch(i, offset[c])
    /\ Move(c, {"free", "bogus"}, "user", TRUE)
    /\ Unmark((i + 1) % MaxNum)
    /\ offset' = [offset EXCEPT ![c] = 0]
    /\ Contest(c, i)
    /\ UNCHANGED <<found, held, orphaned>>

FreeSearch(c) ==
  \E i \in Slots :
    /\ FirstMatch(i, offset[c])
    /\ Move(c, {"free", "bogus"}, "user", TRUE)
    /\ Unmark(i)
    /\ offset' = [offset EXCEPT ![c] = 0]
    /\ Contest(c, i)
    /\ UNCHANGED <<found, held, orphaned>>

\* -EINVAL: "not found or already freed".
FreeNotFound(c) ==
  /\ \A i \in Slots : ~Matches(i, offset[c])
  /\ Move(c, {"free", "bogus"}, "user", FALSE)
  /\ offset' = [offset EXCEPT ![c] = 0]
  /\ UNCHANGED <<buffers, found, held, orphaned, contested>>

-----------------------------------------------------------------------------
(* The exit of a client: dxrt_dev_release frees nothing                    *)

Exit(c) ==
  /\ call[c] = "user"
  /\ held[c] # {}
  /\ orphaned' = orphaned \cup held[c]
  /\ held' = [held EXCEPT ![c] = {}]
  /\ UNCHANGED <<buffers, call, found, offset, freed, contested>>

BufferNext ==
  \E c \in Clients :
    \/ Alloc(c) \/ AllocReturn(c) \/ AllocRollback(c)
    \/ \E o \in held[c] : Free(c, o)
    \/ \E o \in Offsets \cup {NoSuchOffset} : FreeBogus(c, o)
    \/ FreeFault(c) \/ FreeSearch(c) \/ FreeNotFound(c)
    \/ Exit(c)

BufferSpec == BufferInit /\ [][BufferNext]_bufferVars

-----------------------------------------------------------------------------
BufferTypeOK ==
  /\ buffers \in [Slots -> [dsp_buf_offset : Offsets, alloc_size : {0, Unit}]]
  /\ call \in [Clients -> {"user", "copy", "free", "bogus"}]
  /\ found \in [Clients -> Slots \cup {NoSlot}]
  /\ offset \in [Clients -> Offsets \cup {NoSuchOffset}]
  /\ held \in [Clients -> SUBSET Offsets]
  /\ freed \in [Clients -> BOOLEAN]
  /\ orphaned \in SUBSET Offsets
  /\ contested \in SUBSET Slots

\* c has slot i: in its hands, or in a command that is under way.
Has(c, i) ==
  \/ Off(i) \in held[c]
  \/ call[c] \in {"copy", "free"} /\ offset[c] = Off(i)

Lost(i) == Off(i) \in orphaned

(***************************************************************************)
(* No slot is in the hands of two clients, nor in those of a client and of *)
(* a process that has exited, whatever commands, failed copies and         *)
(* rollbacks overlap: two DSP buffers never share memory.  The exception   *)
(* is a slot that was given back by a client that did not have it: the     *)
(* code does not notice (line 661), and the wrong FREE_BUF harms that slot *)
(* and no other, however often it changes hands afterwards.                *)
(***************************************************************************)
ExclusiveOwnership ==
  \A i \in Slots \ contested, c \in Clients :
    Has(c, i) => ~Lost(i) /\ \A d \in Clients : Has(d, i) => d = c

(***************************************************************************)
(* The table and the clients agree: a slot is marked exactly if somebody   *)
(* has it, so neither a failed copy nor a search that finds the wrong      *)
(* entry leaks a slot or gives away one in use, and the only slots that    *)
(* are never free again are those of processes that exited; contested      *)
(* slots again apart.                                                      *)
(***************************************************************************)
SlotAccounting ==
  \A i \in Slots \ contested : ~IsFree(i) <=> Lost(i) \/ \E c \in Clients : Has(c, i)

(***************************************************************************)
(* FREE_BUF returns 0 once per allocation: only when it turns the slot of  *)
(* the offset it was given, and no other, from marked to free.  A client   *)
(* that frees twice, two that free the same slot at once, and one that     *)
(* names a slot never used, whose offset is 0 in the table like that of    *)
(* the first slot, are told "not found or already freed" (lines 646, 655). *)
(***************************************************************************)
FreedOncePerAllocation ==
  [][\A c \in Clients :
       ~freed[c] /\ freed'[c] =>
         \E i \in Slots :
           /\ Off(i) = offset[c]
           /\ ~IsFree(i) /\ IsFree(i)'
           /\ \A j \in Slots \ {i} : IsFree(j)' <=> IsFree(j)]_bufferVars

-----------------------------------------------------------------------------
(***************************************************************************)
(* The abstract pool: the owner of a slot is the client that has it.       *)
(***************************************************************************)
slotOwner ==
  [i \in Slots |->
     IF i \in contested THEN "contested"
     ELSE IF \E c \in Clients : Has(c, i) THEN CHOOSE c \in Clients : Has(c, i)
     ELSE IF Lost(i) THEN "lost" ELSE "free"]

Pool == INSTANCE SlotPool
  WITH Owners <- Clients, Nobody <- "free", Gone <- "lost", Disputed <- "contested",
       owner <- slotOwner

(***************************************************************************)
(* Every step of the table and its clients is a step of the pool: a slot   *)
(* goes from free to one owner, and back from that owner only, until       *)
(* another gives it back.                                                  *)
(***************************************************************************)
ImplementsPool == Pool!PoolSpec
=============================================================================
