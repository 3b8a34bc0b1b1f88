------------------------------ MODULE HeapObjects ------------------------------
(***************************************************************************)
(* What the kernel heap promises: objects, each at an address that stays   *)
(* its own from the call that made it to the call that frees it, inside    *)
(* one region that only grows.                                             *)
(***************************************************************************)
EXTENDS Integers

CONSTANTS
  START,   \* where the region begins
  LIMIT    \* where it must end at the latest

VARIABLES
  end,      \* where the region ends
  objects   \* objects[p]: the size asked for the object at address p

Bytes(p) == p .. p + objects[p] - 1

Init == end = START /\ objects = [p \in {} |-> 0]

Extend ==
  /\ end' > end /\ end' <= LIMIT
  /\ UNCHANGED objects

\* A new object takes bytes of the region that no other object has.
Make ==
  \E p \in START .. end - 1 \ DOMAIN objects, n \in 1 .. end - START :
    /\ p + n <= end
    /\ \A q \in DOMAIN objects : Bytes(q) \cap (p .. p + n - 1) = {}
    /\ objects' = [q \in DOMAIN objects \cup {p} |-> IF q = p THEN n ELSE objects[q]]
    /\ UNCHANGED end

Drop ==
  \E p \in DOMAIN objects :
    /\ objects' = [q \in DOMAIN objects \ {p} |-> objects[q]]
    /\ UNCHANGED end

Next == Extend \/ Make \/ Drop

Spec == Init /\ [][Next]_<<end, objects>>
===============================================================================
