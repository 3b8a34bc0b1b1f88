------------------------------ MODULE FrameRuns ------------------------------
(***************************************************************************)
(* Runs of physical frames.  A frame is named by its index, the physical   *)
(* address divided by PMM::FRAME_SIZE, and a bitmap is the set of the      *)
(* frames whose bit is 1 (used).                                           *)
(***************************************************************************)
EXTENDS Integers

\* The `count` consecutive frames that begin at `first`.
Run(first, count) == first .. first + count - 1

\* The bounds check at the head of reserve and of free_frames.
InRange(total, first, count) == first < total /\ count <= total - first

\* Where a run of `count` free frames could begin, among `total` frames.
\* The second form lets a run end anywhere but on the last frame.
RunsButLast(total, used, count) ==
  {first \in 0 .. total - 1 : /\ first + count < total
                              /\ Run(first, count) \cap used = {}}
Runs(total, used, count) ==
  {first \in 0 .. total - 1 : /\ first + count <= total
                              /\ Run(first, count) \cap used = {}}
==============================================================================
