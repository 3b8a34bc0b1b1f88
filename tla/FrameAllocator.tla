---------------------------- MODULE FrameAllocator ----------------------------
(***************************************************************************)
(* What the physical memory manager promises its callers: a pool of        *)
(* frames, filled once at boot, from which a client takes frames that are  *)
(* then its own until it gives them back itself.                           *)
(***************************************************************************)
EXTENDS Integers

CONSTANT Clients

VARIABLES
  pool,    \* the frames nobody owns and anybody may be given
  owned    \* owned[c]: the frames client c was given and has not returned

vars == <<pool, owned>>

Init == pool = {} /\ owned = [c \in Clients |-> {}]

\* Boot finds out which frames there are.
Populate ==
  /\ pool = {} /\ \A c \in Clients : owned[c] = {}
  /\ pool' \in SUBSET Nat
  /\ UNCHANGED owned

Acquire(c) ==
  \E S \in SUBSET pool :
    /\ pool' = pool \ S
    /\ owned' = [owned EXCEPT ![c] = @ \cup S]

Release(c) ==
  \E S \in SUBSET owned[c] :
    /\ pool' = pool \cup S
    /\ owned' = [owned EXCEPT ![c] = @ \ S]

Next == Populate \/ \E c \in Clients : Acquire(c) \/ Release(c)

Spec == Init /\ [][Next]_vars
===============================================================================
