----------------------------- MODULE ConnSlots ------------------------------
(***************************************************************************)
(* What the session manager promises its callers, with no map, counter or  *)
(* closer: every user holds a set of slots; a slot is granted once, only   *)
(* while its user holds fewer slots than the limit the caller states, and  *)
(* on that term; it is given back once.                                    *)
(***************************************************************************)
EXTENDS Integers, FiniteSets

CONSTANTS Users,   \* account names
          Slots,   \* every slot there will ever be
          Terms    \* the limits callers may state, positive numbers

VARIABLES held,    \* per user, the slots it holds
          term     \* per slot, the limit it was granted on, 0 before

slotVars == <<held, term>>

SlotsInit ==
  /\ held = [u \in Users |-> {}]
  /\ term = [s \in Slots |-> 0]

Grant(u, s, limit) ==
  /\ term[s] = 0
  /\ Cardinality(held[u]) < limit
  /\ held' = [held EXCEPT ![u] = @ \cup {s}]
  /\ term' = [term EXCEPT ![s] = limit]

GiveBack(u, s) ==
  /\ s \in held[u]
  /\ held' = [held EXCEPT ![u] = @ \ {s}]
  /\ UNCHANGED term

SlotsNext ==
  \/ \E u \in Users, s \in Slots, limit \in Terms : Grant(u, s, limit)
  \/ \E u \in Users, s \in Slots : GiveBack(u, s)

SlotsSpec == SlotsInit /\ [][SlotsNext]_slotVars
=============================================================================
