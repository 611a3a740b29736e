------------------------ MODULE BufferManagerProofs ------------------------
(***************************************************************************)
(* Theorems about BufferManager for any clients and any number and size of *)
(* slots.                                                                  *)
(*                                                                         *)
(* Every step of the commands has one of five effects on who has which     *)
(* slot that is not contested (StepEffect): none, one client takes a free  *)
(* slot, one gives back its own, one gives back that of another, which is  *)
(* contested from then on, or a client leaves.  That ownership stays       *)
(* exclusive and agrees with the table, and that the commands implement    *)
(* the abstract pool, follows from the effects alone.                      *)
(***************************************************************************)
EXTENDS BufferManager, TLAPS

\* The offset past the last slot is that of no slot either.
LEMMA OffsetsDistinct ==
  ASSUME NEW i \in 0 .. MaxNum, NEW j \in 0 .. MaxNum, Off(i) = Off(j)
  PROVE  i = j
<1>1. i \in Int /\ j \in Int /\ Unit \in Int /\ Unit > 0
  BY BufferAssumption DEF BufferAssumption
<1>2. (i - j) * Unit = 0
  BY <1>1 DEF Off
<1> QED BY <1>1, <1>2

LEMMA SlotRange ==
  /\ Slots \subseteq 0 .. MaxNum
  /\ MaxNum \in 0 .. MaxNum /\ MaxNum \notin Slots
  /\ NoSlot \notin Slots
  /\ Unit # 0
  BY BufferAssumption DEF BufferAssumption, Slots, NoSlot

\* In the form in which the steps use it.
LEMMA SameOffset ==
  /\ \A i, j \in Slots : Off(i) = Off(j) => i = j
  /\ \A i \in Slots : Off(i) # NoSuchOffset
  BY OffsetsDistinct, SlotRange DEF NoSuchOffset

-----------------------------------------------------------------------------
(* Types and locals                                                        *)

Uncontested == Slots \ contested

\* A command works on one slot, and its client does not hold that slot at
\* the same time, unless the slot is contested; the table names each allocated
\* slot by its own offset.
LocalInv ==
  /\ \A c \in Clients :
       /\ call[c] = "copy" => found[c] \in Slots /\ offset[c] = Off(found[c])
       /\ call[c] = "free" => offset[c] \in Offsets
       /\ call[c] = "bogus" => offset[c] \notin held[c]
       /\ call[c] \in {"copy", "free"} =>
            \A i \in Uncontested : offset[c] = Off(i) => Off(i) \notin held[c]
  /\ \A i \in Slots : ~IsFree(i) => buffers[i].dsp_buf_offset = Off(i)

BufferInv == BufferTypeOK /\ LocalInv /\ ExclusiveOwnership /\ SlotAccounting

\* A command starts on slot i only when nobody has it.
LEMMA FreeSlotHasNoOwner ==
  ASSUME BufferInv, NEW i \in Uncontested, IsFree(i), NEW c \in Clients
  PROVE  ~Has(c, i)
  BY DEF BufferInv, SlotAccounting, Uncontested

LEMMA StepTypeOK ==
  ASSUME BufferTypeOK, LocalInv, BufferNext
  PROVE  BufferTypeOK'
<1> USE DEF BufferTypeOK, Move, Unmark, Mark
<1> PICK c \in Clients :
      \/ Alloc(c) \/ AllocReturn(c) \/ AllocRollback(c)
      \/ \E o \in held[c] : Free(c, o)
      \/ \E o \in Offsets \cup {NoSuchOffset} : FreeBogus(c, o)
      \/ FreeFault(c) \/ FreeSearch(c) \/ FreeNotFound(c)
      \/ Exit(c)
  BY DEF BufferNext
<1>0. 0 \in Offsets
  <2>1. 0 \in Slots /\ Off(0) = 0
    BY BufferAssumption DEF BufferAssumption, Slots, Off
  <2> QED BY <2>1 DEF Offsets
<1>1. ASSUME Alloc(c) PROVE BufferTypeOK'
  <2> PICK i \in Slots : /\ Mark(i)
                         /\ found' = [found EXCEPT ![c] = i]
                         /\ offset' = [offset EXCEPT ![c] = Off(i)]
    BY <1>1 DEF Alloc
  <2>1. Off(i) \in Offsets
    BY DEF Offsets
  <2>2. buffers' \in [Slots -> [dsp_buf_offset : Offsets, alloc_size : {0, Unit}]]
    BY <2>1
  <2> QED BY <1>1, <2>1, <2>2 DEF Alloc
<1>2. ASSUME AllocReturn(c) PROVE BufferTypeOK'
  <2>1. offset[c] \in Offsets
    BY <1>2 DEF AllocReturn, LocalInv, Offsets
  <2>2. held' \in [Clients -> SUBSET Offsets]
    BY <1>2, <2>1 DEF AllocReturn
  <2> QED BY <1>0, <1>2, <2>2 DEF AllocReturn
<1>3. ASSUME AllocRollback(c) PROVE BufferTypeOK'
  <2>1. found[c] \in Slots
    BY <1>3 DEF AllocRollback, LocalInv
  <2>2. buffers' \in [Slots -> [dsp_buf_offset : Offsets, alloc_size : {0, Unit}]]
    BY <1>3, <2>1 DEF AllocRollback
  <2> QED BY <1>0, <1>3, <2>2 DEF AllocRollback
<1>4. ASSUME NEW o \in held[c], Free(c, o) PROVE BufferTypeOK'
  <2>1. o \in Offsets
    OBVIOUS
  <2>2. held' \in [Clients -> SUBSET Offsets]
    BY <1>4 DEF Free
  <2> QED BY <1>4, <2>1, <2>2 DEF Free
<1>5. ASSUME NEW o \in Offsets \cup {NoSuchOffset}, FreeBogus(c, o) PROVE BufferTypeOK'
  BY <1>5 DEF FreeBogus
<1>6. ASSUME FreeSearch(c) PROVE BufferTypeOK'
  <2> PICK i \in Slots : Unmark(i)
    BY <1>6 DEF FreeSearch
  <2>1. buffers' \in [Slots -> [dsp_buf_offset : Offsets, alloc_size : {0, Unit}]]
    OBVIOUS
  <2>2. contested' \in SUBSET Slots
    BY <1>6 DEF FreeSearch, FirstMatch, Contest
  <2> QED BY <1>0, <1>6, <2>1, <2>2 DEF FreeSearch
<1>7. CASE FreeNotFound(c)
  BY <1>0, <1>7 DEF FreeNotFound
<1>8. ASSUME Exit(c) PROVE BufferTypeOK'
  <2>1. held' \in [Clients -> SUBSET Offsets]
    BY <1>8 DEF Exit
  <2>2. orphaned' \in SUBSET Offsets
    BY <1>8 DEF Exit
  <2> QED BY <1>8, <2>1, <2>2 DEF Exit
<1>9. ASSUME FreeFault(c) PROVE BufferTypeOK'
  <2>1. call[c] = "free" => offset[c] \in Offsets
    BY DEF LocalInv
  <2>2. held' \in [Clients -> SUBSET Offsets]
    BY <1>9, <2>1 DEF FreeFault
  <2> QED BY <1>0, <1>9, <2>2 DEF FreeFault
<1> QED BY <1>1, <1>2, <1>3, <1>4, <1>5, <1>6, <1>7, <1>8, <1>9

-----------------------------------------------------------------------------
(* The effects of a step                                                   *)

\* Nothing changes hands.
Same ==
  /\ contested' = contested
  /\ \A j \in Uncontested :
       /\ IsFree(j)' <=> IsFree(j)
       /\ Lost(j)' <=> Lost(j)
       /\ \A d \in Clients : Has(d, j)' <=> Has(d, j)

\* Client c takes the free slot i.
Take(c, i) ==
  /\ IsFree(i)
  /\ contested' = contested
  /\ \A j \in Uncontested :
       /\ IsFree(j)' <=> IsFree(j) /\ j # i
       /\ Lost(j)' <=> Lost(j)
       /\ \A d \in Clients : Has(d, j)' <=> Has(d, j) \/ (d = c /\ j = i)

\* Client c gives back slot i, which it had.
Drop(c, i) ==
  /\ Has(c, i)
  /\ contested' = contested
  /\ \A j \in Uncontested :
       /\ IsFree(j)' <=> IsFree(j) \/ j = i
       /\ Lost(j)' <=> Lost(j)
       /\ \A d \in Clients : Has(d, j)' <=> Has(d, j) /\ ~(d = c /\ j = i)

\* Client c gives back slot i, which is marked and not its own.
Wrong(c, i) ==
  /\ ~IsFree(i) /\ ~Has(c, i)
  /\ contested' = contested \cup {i}
  /\ \A j \in Uncontested \ {i} :
       /\ IsFree(j)' <=> IsFree(j)
       /\ Lost(j)' <=> Lost(j)
       /\ \A d \in Clients : Has(d, j)' <=> Has(d, j)

\* Client c is gone, and what it had is lost.
Leave(c) ==
  /\ contested' = contested
  /\ \A j \in Uncontested :
       /\ IsFree(j)' <=> IsFree(j)
       /\ Lost(j)' <=> Lost(j) \/ Has(c, j)
       /\ \A d \in Clients : Has(d, j)' <=> Has(d, j) /\ d # c

Effect ==
  \/ Same
  \/ \E c \in Clients :
       \/ Leave(c)
       \/ \E i \in Uncontested : Take(c, i) \/ Drop(c, i) \/ Wrong(c, i)

\* The search of FREE_BUF for a slot of the client, and for another.
LEMMA OwnSearchEffect ==
  ASSUME BufferInv, NEW c \in Clients, FreeSearch(c), call[c] = "free"
  PROVE  Effect /\ LocalInv'
<1> USE DEF BufferTypeOK, LocalInv, Move
<1> BufferTypeOK /\ LocalInv
  BY DEF BufferInv
<1> PICK i \in Slots : FirstMatch(i, offset[c]) /\ Unmark(i) /\ Contest(c, i)
  BY DEF FreeSearch
<1>1. offset[c] = Off(i)
  BY DEF FirstMatch, Matches
<1>2. call' = [call EXCEPT ![c] = "user"] /\ UNCHANGED <<held, orphaned, contested>>
  BY DEF FreeSearch, Contest
<1>3. \A j \in Slots : /\ IsFree(j)' <=> IsFree(j) \/ j = i
                       /\ buffers'[j].dsp_buf_offset = buffers[j].dsp_buf_offset
  BY DEF Unmark, IsFree
<1>4. \A j \in Uncontested, d \in Clients :
        Has(d, j)' <=> Has(d, j) /\ ~(d = c /\ j = i)
  BY <1>1, <1>2, SameOffset DEF Has, FreeSearch, Uncontested
<1>5. \A j \in Slots : Lost(j)' <=> Lost(j)
  BY <1>2 DEF Lost
<1>6. Has(c, i)
  BY <1>1 DEF Has
<1>7. LocalInv'
  BY <1>2, <1>3 DEF FreeSearch, Uncontested
<1>8. CASE i \in Uncontested
  <2>1. Drop(c, i)
    BY <1>2, <1>3, <1>4, <1>5, <1>6, Zenon DEF Drop, Uncontested
  <2> QED BY <1>7, <1>8, <2>1 DEF Effect
<1>9. CASE i \notin Uncontested
  <2>1. Same
    BY <1>2, <1>3, <1>4, <1>5, <1>9 DEF Same, Uncontested
  <2> QED BY <1>7, <2>1 DEF Effect
<1> QED BY <1>8, <1>9

LEMMA WrongSearchEffect ==
  ASSUME BufferInv, NEW c \in Clients, FreeSearch(c), call[c] = "bogus"
  PROVE  Effect /\ LocalInv'
<1> USE DEF BufferTypeOK, LocalInv, Move
<1> BufferTypeOK /\ LocalInv
  BY DEF BufferInv
<1> PICK i \in Slots : FirstMatch(i, offset[c]) /\ Unmark(i) /\ Contest(c, i)
  BY DEF FreeSearch
<1>1. offset[c] = Off(i) /\ ~IsFree(i)
  BY DEF FirstMatch, Matches
<1>2. /\ call' = [call EXCEPT ![c] = "user"] /\ UNCHANGED <<held, orphaned>>
      /\ contested' = contested \cup {i}
  BY DEF FreeSearch, Contest
<1>3. \A j \in Slots : /\ IsFree(j)' <=> IsFree(j) \/ j = i
                       /\ buffers'[j].dsp_buf_offset = buffers[j].dsp_buf_offset
  BY DEF Unmark, IsFree
<1>4. \A j \in Slots, d \in Clients : Has(d, j)' <=> Has(d, j)
  BY <1>2 DEF Has, FreeSearch
<1>5. \A j \in Slots : Lost(j)' <=> Lost(j)
  BY <1>2 DEF Lost
<1>6. ~Has(c, i)
  BY <1>1 DEF Has
<1>7. LocalInv'
  BY <1>2, <1>3 DEF FreeSearch, Uncontested
<1>8. CASE i \in Uncontested
  <2>1. Wrong(c, i)
    BY <1>1, <1>2, <1>3, <1>4, <1>5, <1>6 DEF Wrong, Uncontested
  <2> QED BY <1>7, <1>8, <2>1 DEF Effect
<1>9. CASE i \notin Uncontested
  <2>1. contested' = contested
    BY <1>2, <1>9 DEF Uncontested
  <2>2. Same
    BY <2>1, <1>3, <1>4, <1>5, <1>9 DEF Same, Uncontested
  <2> QED BY <1>7, <2>2 DEF Effect
<1> QED BY <1>8, <1>9

LEMMA StepEffect ==
  ASSUME BufferInv, BufferNext
  PROVE  Effect /\ LocalInv'
<1> USE DEF BufferTypeOK, LocalInv, Move
<1> BufferTypeOK /\ LocalInv
  BY DEF BufferInv
<1> PICK c \in Clients :
      \/ Alloc(c) \/ AllocReturn(c) \/ AllocRollback(c)
      \/ \E o \in held[c] : Free(c, o)
      \/ \E o \in Offsets \cup {NoSuchOffset} : FreeBogus(c, o)
      \/ FreeFault(c) \/ FreeSearch(c) \/ FreeNotFound(c)
      \/ Exit(c)
  BY DEF BufferNext
<1>1. ASSUME Alloc(c) PROVE Effect /\ LocalInv'
  <2> PICK i \in Slots : /\ FirstFree(i) /\ Mark(i)
                         /\ found' = [found EXCEPT ![c] = i]
                         /\ offset' = [offset EXCEPT ![c] = Off(i)]
    BY <1>1 DEF Alloc
  <2>1. /\ call[c] = "user" /\ call' = [call EXCEPT ![c] = "copy"]
        /\ UNCHANGED <<held, orphaned, contested>>
    BY <1>1 DEF Alloc
  <2>2. \A j \in Slots : /\ IsFree(j)' <=> IsFree(j) /\ j # i
                         /\ j # i => buffers'[j] = buffers[j]
    BY SlotRange DEF Mark, IsFree
  <2>3. buffers'[i].dsp_buf_offset = Off(i)
    BY DEF Mark
  <2>4. \A j \in Slots, d \in Clients : Has(d, j)' <=> Has(d, j) \/ (d = c /\ j = i)
    BY <2>1, SameOffset DEF Has
  <2>5. \A j \in Slots : Lost(j)' <=> Lost(j)
    BY <2>1 DEF Lost
  <2>6. i \in Uncontested => Off(i) \notin held[c]
    BY FreeSlotHasNoOwner DEF FirstFree, Has
  <2>7. IsFree(i)
    BY DEF FirstFree
  <2>8. LocalInv'
    BY <2>1, <2>2, <2>3, <2>6, SameOffset DEF Uncontested
  <2>9. CASE i \in Uncontested
    <3>1. Take(c, i)
      BY <2>1, <2>2, <2>4, <2>5, <2>7, Zenon DEF Take, Uncontested
    <3> QED BY <2>8, <2>9, <3>1 DEF Effect
  <2>10. CASE i \notin Uncontested
    <3>1. Same
      BY <2>1, <2>2, <2>4, <2>5, <2>10 DEF Same, Uncontested
    <3> QED BY <2>8, <3>1 DEF Effect
  <2> QED BY <2>9, <2>10
<1>2. ASSUME AllocReturn(c) PROVE Same /\ LocalInv'
  <2>1. \A j \in Slots, d \in Clients : Has(d, j)' <=> Has(d, j)
    BY <1>2 DEF AllocReturn, Has
  <2>2. /\ \A j \in Slots : (IsFree(j)' <=> IsFree(j)) /\ (Lost(j)' <=> Lost(j))
        /\ contested' = contested
    BY <1>2 DEF AllocReturn, IsFree, Lost
  <2>3. LocalInv'
    BY <1>2, <2>2 DEF AllocReturn, Uncontested
  <2> QED BY <2>1, <2>2, <2>3 DEF Same, Uncontested
<1>3. ASSUME AllocRollback(c) PROVE Effect /\ LocalInv'
  <2>1. found[c] \in Slots /\ offset[c] = Off(found[c]) /\ call[c] = "copy"
    BY <1>3 DEF AllocRollback
  <2>2. call' = [call EXCEPT ![c] = "user"] /\ UNCHANGED <<held, orphaned, contested>>
    BY <1>3 DEF AllocRollback
  <2>3. \A j \in Slots : /\ IsFree(j)' <=> IsFree(j) \/ j = found[c]
                         /\ buffers'[j].dsp_buf_offset = buffers[j].dsp_buf_offset
    BY <1>3, <2>1 DEF AllocRollback, Unmark, IsFree
  <2>4. \A j \in Uncontested, d \in Clients :
          Has(d, j)' <=> Has(d, j) /\ ~(d = c /\ j = found[c])
    BY <1>3, <2>1, <2>2, SameOffset DEF Has, AllocRollback, Uncontested
  <2>5. Has(c, found[c]) /\ \A j \in Slots : Lost(j)' <=> Lost(j)
    BY <2>1, <2>2 DEF Has, Lost
  <2>6. LocalInv'
    BY <1>3, <2>2, <2>3 DEF AllocRollback, Uncontested
  <2>7. CASE found[c] \in Uncontested
    <3>1. Drop(c, found[c])
      BY <2>2, <2>3, <2>4, <2>5, Zenon DEF Drop, Uncontested
    <3> QED BY <2>6, <2>7, <3>1 DEF Effect
  <2>8. CASE found[c] \notin Uncontested
    <3>1. Same
      BY <2>2, <2>3, <2>4, <2>5, <2>8 DEF Same, Uncontested
    <3> QED BY <2>6, <3>1 DEF Effect
  <2> QED BY <2>7, <2>8
<1>4. ASSUME NEW o \in held[c], Free(c, o) PROVE Same /\ LocalInv'
  <2>1. \A j \in Slots, d \in Clients : Has(d, j)' <=> Has(d, j)
    BY <1>4 DEF Free, Has
  <2>2. /\ \A j \in Slots : (IsFree(j)' <=> IsFree(j)) /\ (Lost(j)' <=> Lost(j))
        /\ contested' = contested
    BY <1>4 DEF Free, IsFree, Lost
  <2>3. LocalInv'
    BY <1>4, <2>2 DEF Free, Uncontested
  <2> QED BY <2>1, <2>2, <2>3 DEF Same, Uncontested
<1>5. ASSUME NEW o \in Offsets \cup {NoSuchOffset}, FreeBogus(c, o) PROVE Same /\ LocalInv'
  <2>1. \A j \in Slots, d \in Clients : Has(d, j)' <=> Has(d, j)
    BY <1>5 DEF FreeBogus, Has
  <2>2. /\ \A j \in Slots : (IsFree(j)' <=> IsFree(j)) /\ (Lost(j)' <=> Lost(j))
        /\ contested' = contested
    BY <1>5 DEF FreeBogus, IsFree, Lost
  <2>3. LocalInv'
    BY <1>5, <2>2 DEF FreeBogus, Uncontested
  <2> QED BY <2>1, <2>2, <2>3 DEF Same, Uncontested
<1>6. ASSUME FreeSearch(c) PROVE Effect /\ LocalInv'
  BY <1>6, OwnSearchEffect, WrongSearchEffect DEF FreeSearch
<1>7. ASSUME FreeNotFound(c) PROVE Same /\ LocalInv'
  <2>1. call[c] = "free" => \A j \in Uncontested : offset[c] # Off(j)
    <3> SUFFICES ASSUME call[c] = "free", NEW j \in Uncontested, offset[c] = Off(j)
                 PROVE  FALSE
      OBVIOUS
    <3>1. Has(c, j)
      BY DEF Has
    <3>2. ~IsFree(j) /\ j \in Slots
      BY <3>1, FreeSlotHasNoOwner DEF Uncontested
    <3> QED BY <1>7, <3>2 DEF FreeNotFound, Matches
  <2>2. \A j \in Uncontested, d \in Clients : Has(d, j)' <=> Has(d, j)
    BY <1>7, <2>1 DEF FreeNotFound, Has
  <2>3. /\ \A j \in Slots : (IsFree(j)' <=> IsFree(j)) /\ (Lost(j)' <=> Lost(j))
        /\ contested' = contested
    BY <1>7 DEF FreeNotFound, IsFree, Lost
  <2>4. LocalInv'
    BY <1>7, <2>3 DEF FreeNotFound, Uncontested
  <2> QED BY <2>2, <2>3, <2>4 DEF Same, Uncontested
<1>8. ASSUME Exit(c) PROVE Leave(c) /\ LocalInv'
  <2>1. \A j \in Slots : Has(c, j) <=> Off(j) \in held[c]
    BY <1>8 DEF Exit, Has
  <2>2. \A j \in Slots, d \in Clients : Has(d, j)' <=> Has(d, j) /\ d # c
    BY <1>8, <2>1 DEF Exit, Has
  <2>3. /\ \A j \in Slots : (IsFree(j)' <=> IsFree(j)) /\ (Lost(j)' <=> Lost(j) \/ Has(c, j))
        /\ contested' = contested
    BY <1>8, <2>1 DEF Exit, IsFree, Lost
  <2>4. LocalInv'
    BY <1>8, <2>3 DEF Exit, Uncontested
  <2> QED BY <2>2, <2>3, <2>4 DEF Leave, Uncontested
<1>9. ASSUME FreeFault(c) PROVE Same /\ LocalInv'
  <2>1. \A j \in Slots, d \in Clients : Has(d, j)' <=> Has(d, j)
    BY <1>9 DEF FreeFault, Has
  <2>2. /\ \A j \in Slots : (IsFree(j)' <=> IsFree(j)) /\ (Lost(j)' <=> Lost(j))
        /\ contested' = contested
    BY <1>9 DEF FreeFault, IsFree, Lost
  <2>3. LocalInv'
    BY <1>9, <2>2 DEF FreeFault, Uncontested
  <2> QED BY <2>1, <2>2, <2>3 DEF Same, Uncontested
<1> QED BY <1>1, <1>2, <1>3, <1>4, <1>5, <1>6, <1>7, <1>8, <1>9 DEF Effect

-----------------------------------------------------------------------------
(* The invariants                                                          *)

LEMMA StepOwnership ==
  ASSUME BufferInv, BufferNext
  PROVE  ExclusiveOwnership' /\ SlotAccounting'
<1> USE DEF BufferInv, ExclusiveOwnership, SlotAccounting, Uncontested
<1>1. CASE Same
  BY <1>1 DEF Same
<1>2. ASSUME NEW c \in Clients, Leave(c) PROVE ExclusiveOwnership' /\ SlotAccounting'
  BY <1>2 DEF Leave
<1>3. ASSUME NEW c \in Clients, NEW i \in Uncontested, Take(c, i)
      PROVE  ExclusiveOwnership' /\ SlotAccounting'
  <2>1. \A d \in Clients : ~Has(d, i)
    BY <1>3 DEF Take
  <2>2. ~Lost(i)
    BY <1>3 DEF Take
  <2>3. ExclusiveOwnership'
    <3>1. contested' = contested
      BY <1>3 DEF Take
    <3>2. \A j \in Uncontested, d \in Clients :
            Has(d, j)' => ~Lost(j)' /\ \A e \in Clients : Has(e, j)' => e = d
      BY <1>3, <2>1, <2>2 DEF Take
    <3> QED BY <3>1, <3>2
  <2>4. SlotAccounting'
    BY <1>3, Zenon DEF Take
  <2> QED BY <2>3, <2>4
<1>4. ASSUME NEW c \in Clients, NEW i \in Uncontested, Drop(c, i)
      PROVE  ExclusiveOwnership' /\ SlotAccounting'
  <2>1. Has(c, i)
    BY <1>4 DEF Drop
  <2>2. ~Lost(i) /\ \A d \in Clients : Has(d, i) => d = c
    BY <2>1
  <2>3. ExclusiveOwnership'
    <3>1. contested' = contested
      BY <1>4 DEF Drop
    <3>2. \A j \in Uncontested, d \in Clients :
            Has(d, j)' => ~Lost(j)' /\ \A e \in Clients : Has(e, j)' => e = d
      BY <1>4 DEF Drop
    <3> QED BY <3>1, <3>2
  <2>4. SlotAccounting'
    <3>1. \A j \in Uncontested : j # i => (~IsFree(j)' <=> Lost(j)' \/ \E d \in Clients : Has(d, j)')
      BY <1>4, Zenon DEF Drop
    <3>2. IsFree(i)' /\ ~Lost(i)' /\ \A d \in Clients : ~Has(d, i)'
      BY <1>4, <2>2, Zenon DEF Drop
    <3>3. contested' = contested
      BY <1>4 DEF Drop
    <3> QED BY <3>1, <3>2, <3>3
  <2> QED BY <2>3, <2>4
<1>5. ASSUME NEW c \in Clients, NEW i \in Uncontested, Wrong(c, i)
      PROVE  ExclusiveOwnership' /\ SlotAccounting'
  BY <1>5 DEF Wrong
<1> QED BY <1>1, <1>2, <1>3, <1>4, <1>5, StepEffect DEF Effect

LEMMA BufferInvHolds == BufferSpec => []BufferInv
<1>1. BufferInit => BufferInv
  <2> SUFFICES ASSUME BufferInit PROVE BufferInv
    OBVIOUS
  <2>1. 0 \in Offsets
    <3>1. 0 \in Slots /\ Off(0) = 0
      BY BufferAssumption DEF BufferAssumption, Slots, Off
    <3> QED BY <3>1 DEF Offsets
  <2>2. BufferTypeOK
    BY <2>1 DEF BufferInit, BufferTypeOK
  <2>3. \A i \in Slots : IsFree(i) /\ ~Lost(i) /\ \A c \in Clients : ~Has(c, i)
    BY DEF BufferInit, IsFree, Lost, Has
  <2>4. LocalInv
    BY <2>3 DEF BufferInit, LocalInv, Uncontested
  <2> QED BY <2>2, <2>3, <2>4 DEF BufferInv, ExclusiveOwnership, SlotAccounting
<1>2. BufferInv /\ [BufferNext]_bufferVars => BufferInv'
  <2>1. ASSUME BufferInv, UNCHANGED bufferVars PROVE BufferInv'
    BY <2>1 DEF bufferVars, BufferInv, BufferTypeOK, LocalInv, ExclusiveOwnership,
                Uncontested, SlotAccounting, Has, Lost, IsFree
  <2>2. ASSUME BufferInv, BufferNext PROVE BufferInv'
    BY <2>2, StepTypeOK, StepEffect, StepOwnership DEF BufferInv
  <2> QED BY <2>1, <2>2
<1> QED BY <1>1, <1>2, PTL DEF BufferSpec

(***************************************************************************)
(* The table and the commands keep their types: a search never gives back  *)
(* a slot outside the table, and every offset handed out is a slot's.      *)
(***************************************************************************)
THEOREM BufferTypes == BufferSpec => []BufferTypeOK
<1>1. BufferInv => BufferTypeOK
  BY DEF BufferInv
<1> QED BY <1>1, BufferInvHolds, PTL

(***************************************************************************)
(* No slot ever has two owners, unless a client gave back what was not its *)
(* own: and then no other slot than that one (dxrt_drv_message.c:579-597,  *)
(* 641-663).                                                               *)
(***************************************************************************)
THEOREM OneOwner == BufferSpec => []ExclusiveOwnership
<1>1. BufferInv => ExclusiveOwnership
  BY DEF BufferInv
<1> QED BY <1>1, BufferInvHolds, PTL

(***************************************************************************)
(* A slot is marked in the table exactly if somebody has it or had it when *)
(* it exited, contested slots apart: failed copies leak nothing.           *)
(***************************************************************************)
THEOREM NothingLeaks == BufferSpec => []SlotAccounting
<1>1. BufferInv => SlotAccounting
  BY DEF BufferInv
<1> QED BY <1>1, BufferInvHolds, PTL

\* Only the search that found a slot tells the client that it succeeded.
LEMMA StepFreesOnce ==
  ASSUME BufferInv, BufferNext, NEW d \in Clients, ~freed[d], freed'[d]
  PROVE  \E i \in Slots :
           /\ Off(i) = offset[d]
           /\ ~IsFree(i) /\ IsFree(i)'
           /\ \A j \in Slots \ {i} : IsFree(j)' <=> IsFree(j)
<1> BufferTypeOK
  BY DEF BufferInv
<1> PICK c \in Clients :
      \/ Alloc(c) \/ AllocReturn(c) \/ AllocRollback(c)
      \/ \E o \in held[c] : Free(c, o)
      \/ \E o \in Offsets \cup {NoSuchOffset} : FreeBogus(c, o)
      \/ FreeFault(c) \/ FreeSearch(c) \/ FreeNotFound(c)
      \/ Exit(c)
  BY DEF BufferNext
<1>1. freed' = freed \/ freed' = [freed EXCEPT ![c] = FALSE] \/ FreeSearch(c)
  BY DEF Alloc, AllocReturn, AllocRollback, Free, FreeBogus, FreeFault, FreeNotFound,
         Exit, Move
<1>2. FreeSearch(c)
  BY <1>1 DEF BufferTypeOK
<1>3. d = c
  <2>1. freed' = [freed EXCEPT ![c] = TRUE]
    BY <1>2 DEF FreeSearch, Move
  <2> QED BY <2>1 DEF BufferTypeOK
<1>4. PICK i \in Slots : FirstMatch(i, offset[c]) /\ Unmark(i)
  BY <1>2 DEF FreeSearch
<1>5. Off(i) = offset[c] /\ ~IsFree(i)
  BY <1>4 DEF FirstMatch, Matches, BufferInv, LocalInv
<1>6. IsFree(i)' /\ \A j \in Slots \ {i} : IsFree(j)' <=> IsFree(j)
  BY <1>4 DEF Unmark, IsFree, BufferTypeOK
<1> QED BY <1>3, <1>5, <1>6

(***************************************************************************)
(* FREE_BUF succeeds once per allocation, whoever calls it with whatever   *)
(* offset (dxrt_drv_message.c:644-661).                                    *)
(***************************************************************************)
THEOREM FreesOncePerAllocation == BufferSpec => FreedOncePerAllocation
<1>1. ASSUME BufferInv, [BufferNext]_bufferVars
      PROVE  [\A c \in Clients :
                ~freed[c] /\ freed'[c] =>
                  \E i \in Slots :
                    /\ Off(i) = offset[c]
                    /\ ~IsFree(i) /\ IsFree(i)'
                    /\ \A j \in Slots \ {i} : IsFree(j)' <=> IsFree(j)]_bufferVars
  BY <1>1, StepFreesOnce
<1> QED BY <1>1, BufferInvHolds, PTL DEF BufferSpec, FreedOncePerAllocation

-----------------------------------------------------------------------------
(* The abstract pool                                                       *)

\* What the abstract owner of a slot says of the clients and the table.
OwnerFacts ==
  \A j \in Slots :
    \/ j \in contested /\ slotOwner[j] = "contested"
    \/ /\ j \in Uncontested /\ slotOwner[j] = "free"
       /\ IsFree(j) /\ ~Lost(j) /\ \A d \in Clients : ~Has(d, j)
    \/ /\ j \in Uncontested /\ slotOwner[j] = "lost"
       /\ ~IsFree(j) /\ Lost(j) /\ \A d \in Clients : ~Has(d, j)
    \/ /\ j \in Uncontested /\ slotOwner[j] \in Clients
       /\ ~IsFree(j) /\ ~Lost(j) /\ \A d \in Clients : Has(d, j) <=> d = slotOwner[j]

LEMMA OwnerOf == BufferInv => OwnerFacts
<1> USE DEF Uncontested
<1> SUFFICES ASSUME BufferInv, NEW i \in Slots
             PROVE  \/ i \in contested /\ slotOwner[i] = "contested"
                    \/ /\ i \in Uncontested /\ slotOwner[i] = "free"
                       /\ IsFree(i) /\ ~Lost(i) /\ \A d \in Clients : ~Has(d, i)
                    \/ /\ i \in Uncontested /\ slotOwner[i] = "lost"
                       /\ ~IsFree(i) /\ Lost(i) /\ \A d \in Clients : ~Has(d, i)
                    \/ /\ i \in Uncontested /\ slotOwner[i] \in Clients
                       /\ ~IsFree(i) /\ ~Lost(i)
                       /\ \A d \in Clients : Has(d, i) <=> d = slotOwner[i]
  BY DEF OwnerFacts
<1>0. CASE i \in contested
  BY <1>0 DEF slotOwner
<1>1. CASE i \notin contested /\ \E c \in Clients : Has(c, i)
  <2>1. PICK c \in Clients : Has(c, i)
    BY <1>1
  <2>2. \A d \in Clients : Has(d, i) => d = c
    BY <1>1, <2>1 DEF BufferInv, ExclusiveOwnership
  <2>3. slotOwner[i] = c
    BY <1>1, <2>1, <2>2 DEF slotOwner
  <2>4. ~IsFree(i) /\ ~Lost(i)
    BY <1>1, <2>1 DEF BufferInv, ExclusiveOwnership, SlotAccounting
  <2> QED BY <1>1, <2>1, <2>2, <2>3, <2>4
<1>2. CASE i \notin contested /\ ~\E c \in Clients : Has(c, i)
  <2>1. slotOwner[i] = IF Lost(i) THEN "lost" ELSE "free"
    BY <1>2 DEF slotOwner
  <2> QED BY <1>2, <2>1 DEF BufferInv, SlotAccounting
<1> QED BY <1>0, <1>1, <1>2

\* The effects on ownership are steps of the pool.
LEMMA EffectIsPoolStep ==
  ASSUME BufferInv, BufferInv', BufferNext
  PROVE  Pool!PoolNext \/ UNCHANGED slotOwner
<1> USE DEF Uncontested
<1>0. /\ "free" \notin Clients /\ "lost" \notin Clients /\ "contested" \notin Clients
      /\ "free" # "lost" /\ "free" # "contested" /\ "lost" # "contested"
  BY BufferAssumption DEF BufferAssumption
<1>1. OwnerFacts
  BY OwnerOf
<1>2. OwnerFacts'
  BY OwnerOf, PTL
<1>3. /\ DOMAIN slotOwner = Slots /\ slotOwner = [j \in Slots |-> slotOwner[j]]
      /\ DOMAIN slotOwner' = Slots /\ slotOwner' = [j \in Slots |-> slotOwner'[j]]
  BY DEF slotOwner
<1>4. CASE Same
  <2>1. \A j \in Slots : slotOwner'[j] = slotOwner[j]
    BY <1>0, <1>1, <1>2, <1>4 DEF Same, OwnerFacts
  <2> QED BY <1>3, <2>1
<1>5. ASSUME NEW c \in Clients, Leave(c) PROVE Pool!PoolNext
  <2>1. \A j \in Slots : slotOwner'[j] = IF slotOwner[j] = c THEN "lost" ELSE slotOwner[j]
    BY <1>0, <1>1, <1>2, <1>5 DEF Leave, OwnerFacts
  <2>2. Pool!End(c)
    BY <1>3, <2>1 DEF Pool!End
  <2> QED BY <2>2 DEF Pool!PoolNext
<1>6. ASSUME NEW c \in Clients, NEW i \in Uncontested, Take(c, i) PROVE Pool!PoolNext
  <2>1. slotOwner[i] = "free"
    BY <1>0, <1>1, <1>6 DEF Take, OwnerFacts
  <2>2. \A j \in Slots : slotOwner'[j] = IF j = i THEN c ELSE slotOwner[j]
    BY <1>0, <1>1, <1>2, <1>6 DEF Take, OwnerFacts
  <2>3. slotOwner' = [slotOwner EXCEPT ![i] = c]
    BY <1>3, <2>2
  <2> QED BY <2>1, <2>3 DEF Pool!PoolNext, Pool!Acquire
<1>7. ASSUME NEW c \in Clients, NEW i \in Uncontested, Drop(c, i) PROVE Pool!PoolNext
  <2>1. slotOwner[i] = c
    BY <1>0, <1>1, <1>7 DEF Drop, OwnerFacts
  <2>2. \A j \in Slots : slotOwner'[j] = IF j = i THEN "free" ELSE slotOwner[j]
    BY <1>0, <1>1, <1>2, <1>7, <2>1 DEF Drop, OwnerFacts
  <2>3. slotOwner' = [slotOwner EXCEPT ![i] = "free"]
    BY <1>3, <2>2
  <2> QED BY <2>1, <2>3 DEF Pool!PoolNext, Pool!GiveBack
<1>8. ASSUME NEW c \in Clients, NEW i \in Uncontested, Wrong(c, i) PROVE Pool!PoolNext
  <2>1. slotOwner[i] \notin {"free", c}
    BY <1>0, <1>1, <1>8 DEF Wrong, OwnerFacts
  <2>2. \A j \in Slots : slotOwner'[j] = IF j = i THEN "contested" ELSE slotOwner[j]
    BY <1>0, <1>1, <1>2, <1>8 DEF Wrong, OwnerFacts
  <2>3. slotOwner' = [slotOwner EXCEPT ![i] = "contested"]
    BY <1>3, <2>2
  <2> QED BY <2>1, <2>3 DEF Pool!PoolNext, Pool!Dispute
<1> QED BY <1>4, <1>5, <1>6, <1>7, <1>8, StepEffect DEF Effect

(***************************************************************************)
(* ALLOC_BUF and FREE_BUF implement the abstract pool: each slot goes from *)
(* free to one owner, and back from that owner only, or is lost with it,   *)
(* until another than its owner gives it back.                             *)
(***************************************************************************)
THEOREM BuffersImplementPool == BufferSpec => ImplementsPool
<1>1. BufferInit => Pool!PoolInit
  <2> SUFFICES ASSUME BufferInit PROVE slotOwner = [i \in Slots |-> "free"]
    BY DEF Pool!PoolInit
  <2>1. \A i \in Slots : i \notin contested /\ ~Lost(i) /\ \A c \in Clients : ~Has(c, i)
    BY DEF BufferInit, Lost, Has
  <2> QED BY <2>1 DEF slotOwner
<1>2. BufferInv /\ BufferInv' /\ [BufferNext]_bufferVars => [Pool!PoolNext]_slotOwner
  <2>1. ASSUME UNCHANGED bufferVars PROVE slotOwner' = slotOwner
    BY <2>1 DEF bufferVars, slotOwner, Has, Lost
  <2> QED BY <2>1, EffectIsPoolStep
<1> QED BY <1>1, <1>2, BufferInvHolds, PTL DEF BufferSpec, ImplementsPool, Pool!PoolSpec
=============================================================================
