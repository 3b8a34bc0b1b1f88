-------------------------------- MODULE Mem --------------------------------
(***************************************************************************)
(* The loops over bytes: Mem of lib/common/memory.cpp, for the kernel, and *)
(* the functions the compiler calls in the boot loader, boot/src/rt/mem.c. *)
(* One call after the other, a byte at a time, in one small memory in      *)
(* which source and destination may overlap in every way.                  *)
(***************************************************************************)
EXTENDS Integers

CONSTANTS Cells,    \* bound: bytes of memory
          BYTE,     \* a byte holds 0 .. BYTE - 1; 256 in the code
          Fills     \* the ints that memset is called with

\* what the constants must be
ConstantsFit == Cells \in Nat \ {0} /\ BYTE \in Nat \ {0, 1} /\ Fills \subseteq Nat

VARIABLES
  memory,
  pc,       \* "forward", "backward", "fill" and "compare": in a loop
  routine, src, dest, length, val,    \* the arguments of the call
  done,     \* how many bytes the loop has been over
  result,   \* what memcmp returns
  before    \* history: the memory when the routine was called

vars == <<memory, pc, routine, src, dest, length, val, done, result, before>>
args == <<routine, src, dest, length, val, before>>

Addresses == 0 .. Cells - 1

\* bcopy is Mem::memcpy and Mem::memmove too; the names in lower case are the
\* boot loader's.
Movers    == {"bcopy", "memmove", "memcpy"}
Setters   == {"Mem::memset", "memset"}
Comparers == {"Mem::memcmp", "memcmp"}
-----------------------------------------------------------------------------
Init ==
  /\ memory \in [Addresses -> 0 .. BYTE - 1]
  /\ pc = "idle" /\ routine = "none"
  /\ src = 0 /\ dest = 0 /\ length = 0 /\ val = 0
  /\ done = 0 /\ result = 0 /\ before = memory

\* Which end a copy starts at.  The loader's memcpy always begins at the first byte.
StartsAnyhow(from, to) == TRUE
Starts(from, to) == to < from

Loop(r, from, to) ==
  CASE r \in Setters               -> "fill"
    [] r \in Comparers             -> "compare"
    [] r = "memcpy"                -> "forward"
    [] r \in Movers \ {"memcpy"}   -> IF Starts(from, to) THEN "forward" ELSE "backward"

Call ==
  /\ pc = "idle"
  /\ \E r \in Movers \cup Setters \cup Comparers, n \in 0 .. Cells :
       /\ routine' = r /\ length' = n
       /\ dest' \in 0 .. Cells - n
       /\ src' \in IF r \in Setters THEN {dest'} ELSE 0 .. Cells - n
       /\ val' \in IF r \in Setters THEN Fills ELSE {0}
       /\ pc' = Loop(r, src', dest')
  /\ done' = 0 /\ result' = 0 /\ before' = memory
  /\ UNCHANGED memory

More == done < length

Store(offset, byte) ==
  /\ memory' = [memory EXCEPT ![dest + offset] = byte]
  /\ done' = done + 1
  /\ UNCHANGED <<pc, args, result>>

Forward  == pc = "forward" /\ More /\ Store(done, memory[src + done])
Backward ==
  /\ pc = "backward" /\ More
  /\ LET last == length - 1 - done IN Store(last, memory[src + last])

\* An int is cut to a byte as it is stored.
AsByte(n) == n % BYTE
Fill == pc = "fill" /\ More /\ Store(done, AsByte(val))

\* Bytes compare as unsigned.  Mem::memcmp tells the order by -1 and 1, the
\* loader's by the difference.
Unsigned(byte) == byte
Difference(a, b) ==
  LET x == Unsigned(a) y == Unsigned(b)
  IN  CASE routine = "Mem::memcmp" -> IF x < y THEN -1 ELSE IF x = y THEN 0 ELSE 1
        [] OTHER                   -> x - y

Compare ==
  /\ pc = "compare" /\ More
  /\ result' = Difference(memory[dest + done], memory[src + done])
  /\ done' = done + 1
  /\ pc' = IF result' = 0 THEN pc ELSE "returned"
  /\ UNCHANGED <<memory, args>>

Return ==
  /\ pc \notin {"idle", "returned"} /\ ~More
  /\ pc' = "returned"
  /\ UNCHANGED <<memory, args, done, result>>

\* The caller goes on; what it passed and got is forgotten.
GoOn ==
  /\ pc = "returned"
  /\ pc' = "idle" /\ routine' = "none"
  /\ src' = 0 /\ dest' = 0 /\ length' = 0 /\ val' = 0
  /\ done' = 0 /\ result' = 0 /\ before' = memory
  /\ UNCHANGED memory

Next == Call \/ Forward \/ Backward \/ Fill \/ Compare \/ Return \/ GoOn

Spec == Init /\ [][Next]_vars
-----------------------------------------------------------------------------
TypeOK ==
  /\ {memory, before} \subseteq [Addresses -> 0 .. BYTE - 1]
  /\ pc \in {"idle", "returned", "forward", "backward", "fill", "compare"}
  /\ routine \in Movers \cup Setters \cup Comparers \cup {"none"}
  /\ length \in 0 .. Cells /\ src \in 0 .. Cells - length /\ dest \in 0 .. Cells - length
  /\ val \in Fills \cup {0}
  /\ done \in 0 .. length
  /\ result \in 1 - BYTE .. BYTE - 1

\* When a copy returns, the destination holds what the source held when it was
\* called, however the two overlap, and nothing else has changed.  (The loader's
\* memcpy promises it only if the destination does not begin inside the source.)
Moves ==
  /\ routine \in Movers /\ pc = "returned"
  /\ routine = "memcpy" => ~(src < dest /\ dest < src + length)
  => \A a \in Addresses :
       memory[a] = before[IF a \in dest .. dest + length - 1 THEN src + (a - dest) ELSE a]

\* When memset returns, its range holds the value's low byte, and nothing else has
\* changed.
Sets ==
  routine \in Setters /\ pc = "returned" =>
    \A a \in Addresses :
      memory[a] = IF a \in dest .. dest + length - 1 THEN val % BYTE ELSE before[a]

\* memcmp is 0 exactly when all bytes agree, and otherwise has the sign of the
\* first pair of unsigned bytes that do not.
Orders ==
  routine \in Comparers /\ pc = "returned" =>
    LET differ == {i \in 0 .. length - 1 : memory[dest + i] # memory[src + i]}
    IN  /\ result = 0 <=> differ = {}
        /\ \A i \in differ :
             (\A j \in differ : i <= j) =>
               (result < 0 <=> memory[dest + i] < memory[src + i])
=============================================================================
