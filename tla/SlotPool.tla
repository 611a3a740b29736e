------------------------------ MODULE SlotPool ------------------------------
(***************************************************************************)
(* What ALLOC_BUF and FREE_BUF promise: a pool of slots, each of which is  *)
(* free, in the hands of one owner, or lost with an owner that ended       *)
(* without giving it back.  The promise for a slot ends when another than  *)
(* its owner gives it back.                                                *)
(***************************************************************************)
CONSTANTS Slots, Owners, Nobody, Gone, Disputed

VARIABLE owner        \* owner[s]: who has slot s, or Nobody, Gone or Disputed

PoolInit == owner = [s \in Slots |-> Nobody]

Acquire(s, o) == owner[s] = Nobody /\ owner' = [owner EXCEPT ![s] = o]

GiveBack(s, o) == owner[s] = o /\ owner' = [owner EXCEPT ![s] = Nobody]

\* o gives back a slot that is not free, and not its own.
Dispute(s, o) ==
  /\ owner[s] \notin {Nobody, o}
  /\ owner' = [owner EXCEPT ![s] = Disputed]

End(o) == owner' = [s \in Slots |-> IF owner[s] = o THEN Gone ELSE owner[s]]

PoolNext ==
  \E o \in Owners :
    End(o) \/ \E s \in Slots : Acquire(s, o) \/ GiveBack(s, o) \/ Dispute(s, o)

PoolSpec == PoolInit /\ [][PoolNext]_owner
=============================================================================
