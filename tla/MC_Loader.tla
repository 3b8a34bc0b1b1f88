------------------------------- MODULE MC_Loader -------------------------------
(***************************************************************************)
(* The boot loader's four modules for TLC, side by side: they share no     *)
(* state, so the first state chooses one that moves, the variable `part`,  *)
(* and the others stay at their beginning.  Loader is extended, with its   *)
(* own names; the variables of the others have a letter in front.          *)
(***************************************************************************)
EXTENDS Loader, Sequences

CONSTANTS
  PAGE_SIZE, Top, Headers, MaxHeaders, PHDR_SIZE, Tables, FileSizes,  \* ElfImage
  NIB, WORD, BufSize, HARDDRIVE, Paths,                         \* LoaderText
  Cells, BYTE, Fills                                            \* Mem

VARIABLES
  part,
  ePc, ePhdr, eTable, eFileSize, eI, eVmin, eVmax, ePlaced, eImage,
  tPc, tCall, tN, tRest, tI, tBuf, tStatus, tText,
  mMemory, mPc, mRoutine, mSrc, mDest, mLength, mVal, mDone, mResult, mBefore

elf  == <<ePc, ePhdr, eTable, eFileSize, eI, eVmin, eVmax, ePlaced, eImage>>
text == <<tPc, tCall, tN, tRest, tI, tBuf, tStatus, tText>>
mem  == <<mMemory, mPc, mRoutine, mSrc, mDest, mLength, mVal, mDone, mResult, mBefore>>
all  == <<part, vars, elf, text, mem>>
--------------------------------------------------------------------------------
\* Headers of a kernel with text, data and .bss, in any order and number: segments
\* that share a page, that leave a gap, that overlap, empty ones, ones that are
\* not loaded, ones longer than file or memory, and ones with a sum that wraps.
Header(load, vaddr, memsz, offset, filesz) ==
  [load |-> load, vaddr |-> vaddr, memsz |-> memsz, offset |-> offset, filesz |-> filesz]

MC_Headers ==
  {Header(TRUE, 4, 3, 0, 3),      \* text: starts a page
   Header(TRUE, 7, 4, 2, 2),      \* data and .bss, from the same page into the next
   Header(TRUE, 13, 2, 5, 0),     \* .bss only, behind a gap
   Header(TRUE, 6, 1, 4, 1),      \* within text
   Header(TRUE, 10, 2, 1, 3),     \* longer in the file than in memory
   Header(TRUE, 14, 1, 5, 1),     \* its byte is the last of the longer file
   Header(TRUE, 0, 0, 0, 0),      \* empty
   Header(TRUE, 19, 9, 0, 1),     \* its end wraps into text's data
   Header(TRUE, 8, 6, 18, 4),     \* begins beside the file, and its end wraps into it
   Header(FALSE, 1, 2, 0, 2)}     \* not loaded

\* Tables that are in the file for up to three headers and for up to two, and one
\* that begins in front of the pool.
Table(phoff, phentsize) == [phoff |-> phoff, phentsize |-> phentsize]

MC_Tables == {Table(1, 1), Table(1, 2), Table(19, 1)}

\* Device paths of up to three nodes before the end node: an ACPI node and a CD in
\* front, partitions with a GUID, with an MBR signature, cut short, and a node of
\* length 0.
Entry(type, subtype, len, signatureType, signature) ==
  [type |-> type, subtype |-> subtype, len |-> len,
   signatureType |-> signatureType, signature |-> signature]

Zeros      == [b \in 1 .. 16 |-> 0]
Signatures == {[b \in 1 .. 16 |-> b - 1], [b \in 1 .. 16 |-> (5 * b) % 16]}

Nodes ==
  {Entry("acpi", "none", 12, "none", Zeros), Entry("media", "cdrom", 42, "guid", Zeros),
   Entry("media", "harddrive", 42, "mbr", Zeros), Entry("media", "harddrive", 30, "guid", Zeros),
   Entry("media", "harddrive", 0, "guid", Zeros)}
    \cup {Entry("media", "harddrive", 42, "guid", s) : s \in Signatures}

MC_Paths ==
  {Append(path, Entry("end", "entire", 4, "none", Zeros)) :
     path \in UNION {[1 .. k -> Nodes] : k \in 0 .. 3}}
--------------------------------------------------------------------------------
E == INSTANCE ElfImage WITH
       pc <- ePc, phdr <- ePhdr, table <- eTable, fileSize <- eFileSize, i <- eI,
       vmin <- eVmin, vmax <- eVmax, placed <- ePlaced, image <- eImage

T == INSTANCE LoaderText WITH
       pc <- tPc, call <- tCall, n <- tN, rest <- tRest, i <- tI,
       buf <- tBuf, status <- tStatus, text <- tText

M == INSTANCE Mem WITH
       memory <- mMemory, pc <- mPc, routine <- mRoutine, src <- mSrc, dest <- mDest,
       length <- mLength, val <- mVal, done <- mDone, result <- mResult, before <- mBefore

ASSUME ImageFits  == E!ConstantsFit
ASSUME TextFits   == T!ConstantsFit
ASSUME MemoryFits == M!ConstantsFit

\* Of the others one first state is enough.
PartsInit ==
  /\ part \in {"loader", "elf", "text", "mem"}
  /\ Init
  /\ T!Init
  /\ E!Init
  /\ part # "elf" => ePhdr = <<Header(FALSE, 1, 2, 0, 2)>> /\ eTable = Table(1, 1) /\ eFileSize = 5
  /\ M!Init /\ (part # "mem" => mMemory = [a \in 0 .. Cells - 1 |-> 0])

LoaderMoves == part = "loader" /\ Next /\ UNCHANGED <<part, elf, text, mem>>
ElfMoves    == part = "elf" /\ E!Next /\ UNCHANGED <<part, vars, text, mem>>
TextMoves   == part = "text" /\ T!Next /\ UNCHANGED <<part, vars, elf, mem>>
MemMoves    == part = "mem" /\ M!Next /\ UNCHANGED <<part, vars, elf, text>>

\* The loading of the image, and a call of LoaderText, come to an end.
Over ==
  /\ (part = "elf" /\ ePc \in {"loaded", "out", "astray"}) \/ (part = "text" /\ tPc = "done")
  /\ UNCHANGED all

PartsNext == LoaderMoves \/ ElfMoves \/ TextMoves \/ MemMoves \/ Over

PartsSpec ==
  /\ PartsInit /\ [][PartsNext]_all
  /\ WF_vars(part = "loader" /\ Work)
  /\ WF_text(part = "text" /\ T!Walk)
--------------------------------------------------------------------------------
\* The loader comes to an end: Ends of Loader.
LoaderEnds == part = "loader" => Ends

\* Of a file that has its table of headers in it and no sum that wraps: the kernel
\* in memory is the one in the file, .bss and gaps zero; its pages hold all
\* segments, nothing is written outside of them and no byte from beside the file
\* gets in; and exactly the files that do not fit are refused.
Loads == E!TypeOK /\ (E!Granted => E!Image /\ E!Inside /\ E!Verdict)

\* The UUID is that of the first GUID partition; printed numbers read back, and fit
\* their buffer.
Shows == T!TypeOK /\ T!Uuid /\ T!ReadsBack

\* The walk along a device path ends, whatever lies on it: WalkEnds of LoaderText.
WalkEnds == T!WalkEnds

\* Overlapping bytes are moved intact, memset sets its range and no other byte, and
\* memcmp orders unsigned bytes.
Bytes == M!TypeOK /\ M!Moves /\ M!Sets /\ M!Orders
================================================================================
