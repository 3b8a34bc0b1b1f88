----------------------------- MODULE AddressSpace -----------------------------
(***************************************************************************)
(* What the virtual memory manager promises: a partial function from pages *)
(* to frames, to which a requested range is added wholly or not at all,    *)
(* and only where nothing is mapped, and from which pages are taken one by *)
(* one.                                                                    *)
(***************************************************************************)
EXTENDS Integers, Functions

CONSTANT Requests   \* the ranges, [virt, phys, count], anybody may want mapped

VARIABLE space      \* space[v]: the frame behind page v, for the mapped pages

Init == space = [v \in {} |-> 0]

MapRange(r) ==
  LET new == [v \in r.virt .. r.virt + r.count - 1 |-> r.phys + (v - r.virt)]
  IN  /\ DOMAIN new \cap DOMAIN space = {}
      /\ space' = [v \in DOMAIN space \cup DOMAIN new |->
                     IF v \in DOMAIN new THEN new[v] ELSE space[v]]

Unmap(v) == space' = Restrict(space, DOMAIN space \ {v})

Next == (\E r \in Requests : MapRange(r)) \/ (\E v \in DOMAIN space : Unmap(v))

Spec == Init /\ [][Next]_space
===============================================================================
