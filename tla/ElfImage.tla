------------------------------ MODULE ElfImage ------------------------------
(***************************************************************************)
(* How efi_main puts the kernel where its ELF file says: a first pass over *)
(* the program headers measures the address range, the firmware is asked   *)
(* for the pages of exactly that range, and a second pass checks each      *)
(* segment and copies its bytes.  Module Loader has these as its stages    *)
(* "place" and "segments".                                                 *)
(*                                                                         *)
(* Sums wrap at 2^64, and nothing checks that the table of headers lies in *)
(* the file: a header read from beside the pool that holds the file is     *)
(* whatever memory has there, which may be another each time.  The byte at *)
(* an offset of the file is known by its place in it.                      *)
(***************************************************************************)
EXTENDS Integers, Sequences

CONSTANTS
  PAGE_SIZE,
  Top,          \* 2^64: addresses, sizes and offsets are below it
  Headers,      \* program headers: [load, vaddr, memsz, offset, filesz]
  MaxHeaders,   \* bound on e_phnum
  PHDR_SIZE,
  Tables,       \* where the table of headers is: [phoff, phentsize]
  FileSizes     \* sizes of the file

Addresses == 0 .. Top - 1

\* what the constants must be
ConstantsFit ==
  /\ PAGE_SIZE \in Nat \ {0} /\ Top \in Nat \ {0, 1} /\ Top % PAGE_SIZE = 0
  /\ FileSizes \subseteq Addresses /\ {MaxHeaders, PHDR_SIZE} \subseteq Nat
  /\ \A p \in Headers :
       {p.vaddr, p.memsz, p.offset, p.filesz} \subseteq Addresses /\ p.load \in BOOLEAN
  /\ \A t \in Tables : t.phoff \in Addresses \ {0} /\ t.phentsize \in Addresses

VARIABLES
  pc,           \* "measure", "place", "copy"; then "loaded", "out" with an error, or
                \* "astray" when it has written over memory that is not its own
  phdr,         \* the program headers of the file
  table,        \* where they are in it
  fileSize,
  i,            \* of both loops
  vmin, vmax,
  placed,       \* the firmware gave the pages
  image         \* memory

vars == <<pc, phdr, table, fileSize, i, vmin, vmax, placed, image>>
file == <<phdr, table, fileSize>>

GARBAGE == -1           \* a byte the loader has not written
BESIDE  == -2           \* a byte of memory that is not the file's
ZERO    == 0
FileByte(offset) == IF offset < fileSize THEN offset + 1 ELSE BESIDE
-----------------------------------------------------------------------------
AlignDown(n) == (n \div PAGE_SIZE) * PAGE_SIZE
AlignUp(n)   == AlignDown((n + PAGE_SIZE - 1) % Top)

Skipped(p)   == ~p.load \/ p.memsz = 0
End(p)       == (p.vaddr + p.memsz) % Top

\* the place of a header, and what the loader may find when it reads it
At(n)     == (table.phoff + (n - 1) * table.phentsize) % Top
InFile(n) == At(n) + PHDR_SIZE <= fileSize
Read(n)   == IF InFile(n) THEN {phdr[n]} ELSE Headers

\* the pages that it asks for
Asked == {a \in Addresses : (a - vmin) % Top < (vmax - vmin) % Top}

Init ==
  /\ pc = "measure" /\ i = 1
  /\ phdr \in UNION {[1 .. n -> Headers] : n \in 1 .. MaxHeaders}
  /\ table \in Tables /\ fileSize \in FileSizes
  /\ vmin = Top - 1 /\ vmax = 0
  /\ placed = FALSE /\ image = [a \in Addresses |-> GARBAGE]

Measure ==
  /\ pc = "measure" /\ i <= Len(phdr)
  /\ \E p \in Read(i) :
       /\ vmin' = IF ~Skipped(p) /\ p.vaddr < vmin THEN p.vaddr ELSE vmin
       /\ vmax' = IF ~Skipped(p) /\ End(p) > vmax  THEN End(p)  ELSE vmax
  /\ i' = i + 1
  /\ UNCHANGED <<pc, file, placed, image>>

Measured ==
  /\ pc = "measure" /\ i > Len(phdr)
  /\ IF vmin > vmax
     THEN pc' = "out" /\ UNCHANGED <<vmin, vmax>>
     ELSE pc' = "place" /\ vmin' = AlignDown(vmin) /\ vmax' = AlignUp(vmax)
  /\ i' = 1
  /\ UNCHANGED <<file, placed, image>>

PagesUsed(a)    == image[a]
PagesCleared(a) == ZERO

Place ==
  /\ pc = "place"
  /\ \/ /\ placed' = TRUE /\ pc' = "copy"
        /\ image' = [a \in Addresses |->
                       IF a \in Asked THEN PagesCleared(a) ELSE image[a]]
     \/ pc' = "out" /\ UNCHANGED <<placed, image>>
  /\ UNCHANGED <<file, i, vmin, vmax>>

\* what the second pass finds wrong with a segment
PastFile(p) == (p.offset + p.filesz) % Top > fileSize
TooLong(p)  == p.filesz > p.memsz
Wrong(p)    == PastFile(p) \/ TooLong(p)

\* where a segment's bytes go, and which byte goes to an address
Target(p)    == {a \in Addresses : (a - p.vaddr) % Top < p.filesz}
Source(p, a) == FileByte((p.offset + (a - p.vaddr)) % Top)

Copy ==
  /\ pc = "copy" /\ i <= Len(phdr)
  /\ \E p \in Read(i) :
       \/ /\ Skipped(p)
          /\ UNCHANGED <<pc, image>>
       \/ /\ ~Skipped(p) /\ Wrong(p)
          /\ pc' = "out" /\ UNCHANGED image
       \/ /\ ~Skipped(p) /\ ~Wrong(p)
          /\ image' = [a \in Addresses |->
                         IF a \in Target(p) THEN Source(p, a) ELSE image[a]]
          /\ pc' = IF Target(p) \subseteq Asked THEN pc ELSE "astray"
  /\ i' = i + 1
  /\ UNCHANGED <<file, vmin, vmax, placed>>

Copied ==
  /\ pc = "copy" /\ i > Len(phdr)
  /\ pc' = "loaded"
  /\ UNCHANGED <<file, i, vmin, vmax, placed, image>>

Next == Measure \/ Measured \/ Place \/ Copy \/ Copied

Spec == Init /\ [][Next]_vars
-----------------------------------------------------------------------------
TypeOK ==
  /\ pc \in {"measure", "place", "copy", "loaded", "out", "astray"}
  /\ phdr \in Seq(Headers) /\ table \in Tables /\ fileSize \in FileSizes
  /\ i \in 1 .. Len(phdr) + 1
  /\ vmin \in Addresses /\ vmax \in Addresses
  /\ placed \in BOOLEAN
  /\ image \in [Addresses -> Int]

Segments == {phdr[n] : n \in {m \in DOMAIN phdr : ~Skipped(phdr[m])}}

(***************************************************************************)
(* What the loader takes for granted of a file: that the whole table of    *)
(* headers is in it, and that no sum it computes of a segment wraps, that  *)
(* of ALIGN_UP included.  What follows is about such files.                *)
(***************************************************************************)
TableInFile  == \A n \in DOMAIN phdr : InFile(n)
NothingWraps == \A p \in Segments : /\ p.vaddr + p.memsz + PAGE_SIZE - 1 < Top
                                    /\ p.offset + p.filesz < Top
Granted == TableInFile /\ NothingWraps

\* The segments whose bytes in the file include the one for address a, and of
\* them the last in the file's order, which is copied last.
Over(a) == {n \in DOMAIN phdr : /\ phdr[n] \in Segments
                                /\ a \in phdr[n].vaddr .. phdr[n].vaddr + phdr[n].filesz - 1}
Meant(a) ==
  IF Over(a) = {} THEN ZERO
  ELSE LET n == CHOOSE m \in Over(a) : \A o \in Over(a) : o <= m
       IN  FileByte(phdr[n].offset + (a - phdr[n].vaddr))

\* The kernel that is started is the one in the file: at each address of its
\* pages the byte of the last segment with one for it, and zero in all of .bss
\* and between segments, also in pages that two segments share.
Image == pc = "loaded" => \A a \in vmin .. vmax - 1 : image[a] = Meant(a)

\* The pages asked for contain every segment, are whole pages, and no byte outside
\* of them is ever written; no byte from beside the file ever gets into them.
Inside ==
  /\ pc # "astray"
  /\ placed =>
       /\ vmin % PAGE_SIZE = 0 /\ vmax % PAGE_SIZE = 0
       /\ \A p \in Segments : vmin <= p.vaddr /\ p.vaddr + p.memsz <= vmax
       /\ \A a \in Addresses \ (vmin .. vmax - 1) : image[a] = GARBAGE
       /\ \A a \in Addresses : image[a] # BESIDE

\* A file is refused exactly if it has no segment, the firmware refuses the pages,
\* or some segment is more than the file or its memory holds.
Verdict ==
  LET fits == \A p \in Segments : p.offset + p.filesz <= fileSize /\ p.filesz <= p.memsz
  IN  /\ pc = "loaded" => Segments # {} /\ fits
      /\ pc = "out" => Segments = {} \/ ~placed \/ ~fits
=============================================================================
