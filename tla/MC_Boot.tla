------------------------------ MODULE MC_Boot ------------------------------
(* Memory of up to 33 frames, whole and in pieces, for heaps that begin with  *)
(* up to eight, and framebuffers whose copy needs up to three tables more.    *)
EXTENDS Boot

Memory(start, pages) == [type |-> "EfiConventionalMemory", start |-> start, pages |-> pages]
Loader(start, pages) == [type |-> "EfiLoaderData", start |-> start, pages |-> pages]

MC_Clients == {vmm, heap}

\* one run of every length; two runs; three, the last of which is small
MC_Maps ==
    {<<Memory(1, n)>> : n \in 1..33}
    \cup {<<Loader(0, 1), Memory(1, n), Memory(n + 2, m)>> : n \in 1..11, m \in {1, 2, 4, 7, 8, 9, 11, 14, 18, 21}}
    \cup {<<Memory(1, n), Memory(n + 2, m), Memory(n + m + 3, 3)>> : n \in 1..4, m \in 1..5}
    \cup {<<Loader(0, 2)>>}
=============================================================================
