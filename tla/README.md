# noKernel in TLA+

noKernel is a small x86-64 kernel with its own UEFI boot loader. This directory
holds TLA+ models of it, the TLC runs that check them and the proofs about them.
File and line references are to the repository.

## 1. Inventory

The kernel has one CPU and one thread: `_start` runs to its end and halts.
Interrupt handlers run between any two instructions once `ArchInit` has executed
`sti`, but none of them allocates memory. So the calls of the memory managers do not
overlap, and what makes them hard is not interleaving but long sequences of calls,
failures half way through, limits, and bookkeeping that is kept twice.

| Component | State | Operations | What makes it correct |
|---|---|---|---|
| Physical memory manager, `kernel/mm/pmm.cpp` | a bitmap that lives in the memory it describes, the number of frames, a counter of free ones | `init`, `reserve`, `alloc_frame(s)`, `free_frame(s)` | no frame has two owners, none is lost, the bitmap and frame 0 are never given away, the counter is exact, a refusal is justified |
| Kernel heap, `kernel/mm/heap.cpp` | a linked list of blocks whose headers lie in the region, the region's end | `init`, `alloc`, `calloc`, `realloc`, `free`, `new`, `delete`, internally `grow`, `split_block` | the blocks tile the region, live objects are disjoint and large enough, free neighbours get merged, a failed `grow` leaves no trace, every call ends |
| Virtual memory manager, `kernel/mm/vmm.cpp` | four levels of tables in frames taken from the frame manager; the CPU's TLB | `init`, `map(_range)`, `unmap(_range)`, `translate` | a tree of tables, a range mapped wholly or not at all, no stale translation, tables zeroed before they are linked |
| Boot of the kernel, `kernel/entry.cpp` | none of its own | `_start`, `HeapAlloc` | nothing is used before it is initialised; the chosen heap size can be met |
| Boot handover, `boot/src/include/boot/boot.c` | the map buffer, its key, the stack | `handover`: up to three rounds of GetMemoryMap and ExitBootServices | the kernel gets the map that was current when boot services ended, and its own data lies outside conventional memory |
| Boot loader, `boot/src/main.c`, `disk.c` | firmware handles, pools and pages | `efi_main`, `LoadBMPFile`, `LibOpenRoot`, `GetDiskPartUUID` | every failure is reported, and pools and the font's pages are given back |
| IRQ dispatch, `kernel/arch/x86_64/irq.cpp` | handler table, the two PICs | `remap`, `install`, `InstallIRQHandler`, `UninstallIRQHandler`, `irq_handler` | each interrupt is acknowledged at each PIC that raised it; handlers do not nest into themselves |
| Exceptions and panic, `isr.cpp`, `panic.cpp` | two once-only flags, the output route | `panic`, `exception_panic`, `halt` | a fault inside the fault path halts; the serial line gets the message before the screen |
| Console, `console.cpp`, `framebuffer.cpp`, `font.cpp` | cursor, colours, a framebuffer and its shadow | `print_char`, `newline`, `scroll`, `clear` | the shadow and the screen agree, scrolling keeps the last lines |
| Formatting, `lib/common/vsnprintf.cpp` | an index into the output, two scratch buffers | `_format`, its conversions, `_out_buffer`, `_out_fct` | the text is the number's, width and precision are kept, neither the caller's buffer nor the scratch buffer is overrun, the text is terminated |
| Descriptor tables and stubs, `gdt.cpp`, `idt.cpp`, `arch.cpp`, `isr.S`, `irq.S` | GDT, IDT, the CPU's registers and stack | `ArchInit`, the stubs of 48 vectors | the CPU finds the descriptors that were meant, handlers find the fields of `Registers` where they look, the interrupted program goes on as it was |
| Loader's text and byte loops, `console.c`, `disk.c`, `rt/mem.c`; `lib/common/memory.cpp` | none | `PrintInt`, `PrintHex`, `GuidToString`, `GetDiskPartUUID`, `memcpy` and its like | what is printed reads back, the walk over a device path ends, overlapping bytes are moved intact |
| Ports, EFI declarations, number helpers, scripts | constants | | |

How they interact: the loader hands a `bootinfo_t` to `_start`, with the memory map in
it. `PMM::init` reads the map and writes its bitmap into it. The VMM takes frames for
its tables one at a time from the PMM and never returns them. The heap takes runs of
frames from the PMM and has the VMM map them. The console takes its shadow framebuffer
from the heap. All of these are plain calls. `ASSERT` and `PANIC` end the kernel.

## 2. Plan

In the order of importance; what is done is marked.

1. `PMM`, the frame manager call by call; `FrameAllocator`, what it promises;
   `PMMLoops`, its loops; `PMMProofs`. Done.
2. `Heap`, step by step; `HeapObjects`, what it promises. Done.
3. `VMM`: tables in frames, the walk, map_range's rollback, unmap and the TLB as an
   actor of its own; `AddressSpace`, what it promises. Done.
4. `Loader`: the stages of efi_main, the font, the handover's retry loop against a
   firmware whose map changes at any time. Done.
5. `Irq`: controllers, end of interrupt, liveness of delivery. `Panic`: nested faults
   and the order of output. Done.
6. `Boot`: `_start` and `HeapAlloc` over the real `PMM`. Done.
7. `Console`, pixel by pixel; `Terminal`, what it promises. `NumberText` and `Format`:
   every conversion against what C says. Done.
8. `Traps`: descriptors, stubs, and the CPU that decodes them. `ElfImage`,
   `LoaderText`, `Mem`: the loader's work on bytes. Done.
9. `HeapProofs`, `VMMProofs`, `BootProofs`, `ConsoleProofs`: each component's invariants,
   and that it implements what it promises. The loops of `PMMLoops` in `PMMProofs`. Done.
10. `LoaderProofs`: the handover for any number of attempts, the image, the byte loops.
    `InterruptProofs`: `Irq`, `Traps` and `Panic`. Done.
11. `FormatProofs`: what the formatter stores in the caller's buffer and in its scratch
    buffers. Done.
12. `AccessToAll` in `VMMProofs`: that the tables of boot suffice. Done.
13. `Prints` in `FormatProofs` and `Shows` in `LoaderProofs`: that texts are those of
    the numbers, GUIDs and items they stand for. Done.

Abstract specifications worth stating: `FrameAllocator`, `HeapObjects`, the mapping of
the VMM, a terminal; all four are there, and all four refinements are proved. Theorems
worth proving: those of section 5.

## 3. What is modelled

**`PMM`** has one action per call. A frame is its index; the bitmap is the set `used` of
the frames whose bit is 1; the caller's side is `held`, a record for the properties of
what each client was given. `PmmInit` covers the whole of `PMM::init`: the highest end of
conventional memory, the place of the bitmap (the first large enough conventional
descriptor in map order that does not begin at 0, or a panic), the clearing of the
conventional frames with one increment of the counter each, and the two `reserve` calls.
`FreeFrames` assumes what every caller must respect: it names no frame that another
client holds or that was never given. It may name frames that are free already, frame 0
and frames beyond the end, which the code guards against. The memory maps are those the
UEFI specification allows: descriptors do not overlap, in any order, of any type.

**`PMMLoops`** splits the same calls into loop iterations and is checked to implement
`PMM`: `alloc_frames` takes effect when the scan finds its run, `reserve` and
`free_frames` when they begin.

**`Heap`** is split at loop iterations throughout. `meta` holds the headers of the
list, `live` the pointers callers have and the bytes they asked for. PMM and VMM are
represented by what `grow` and `init` can observe of them, success or failure at any
call, and `frames` counts what the heap owes or owns. The states `panic` (operator new's
ASSERT, a failed `init`) and `corrupt` are final. `corrupt` is entered when `realloc`
copies more bytes than the new block has: it copies `block->size` bytes of the *old*
block (heap.cpp:107). That happens when fewer bytes are asked for, and also when the same
number is asked for and the old block carries slack which `split_block` did not cut off.
The model keeps the code's behaviour; no property promises anything after it. `denied`
records whether the running call has been refused frames or page tables: `GivesUpLate`
uses it to tell what had to be refused from what need not have been.

**`VMM`** has one step per call of `next_table`, per access to a leaf entry and per
`invlpg`. Pages and frames are numbers; of an entry's flags only Present is kept. The
state is the set of tables by frame, the free frames, and where the current call is. The
TLB is an actor of its own: it may cache any translation it finds in the tables, and
drop it, between any two steps. Table accesses go through `phys_to_virt`: before
`VMM::init` has loaded its own tables every frame is reachable (the firmware maps memory
at its own address), afterwards a frame is reachable if the direct map has it, and an
access to one that is not is the state `fault`. `map_both` ignores that `map_range`
failed, as in the code. Between calls the rest of the kernel takes frames one by one and
gives them all back. `VirtualPages` are the pages that `LEVELS` digits can tell apart,
and `Canonical` says that only such pages are asked for: the CPU refuses an address that
is not canonical, and the code does not look at the bits above.

**`Loader`** is efi_main, LoadBMPFile and handover. `Stages` is a table with one row for
each stretch of code between two points of failure: what it acquires and releases, what
becomes of `err`, and where it goes when it fails. The loop of handover is written out
call by call. The firmware's map changes by itself at any time (`Event`), and when the
loader allocates or frees; a key is accepted only if nothing changed since it was read.
`info` is what bootInfo points to: which buffer, and what the map in it lists.

**`Irq`** pairs `irq_handler`, step by step, with a model of the two 8259A controllers in
the mode `remap` selects: fixed priority, the second chained at line 2, nothing masked,
non-specific EOI. A spurious interrupt may arrive whenever interrupts are enabled.
Installed handlers are assumed not to enable interrupts; the repository installs none.

**`Panic`** is panic and exception_panic, one piece of output at a time. `reports` is the
stack of reports: a fault in the midst of one begins another or, when an exception is
already being reported, stops the CPU. Without a console the console pass faults, for
certain once `VMM::init` has left page 0 unmapped. Non-maskable interrupts that arrive
after the halt are left out.

**`Boot`** extends `PMM`: the calls that `_start`, `VMM::init`, `HeapAlloc`, `Heap::init`
and `Framebuffer::clone` make to the frame manager are its actions, on its bitmap. What
a stage needs in frames is the code's: a run for the heap and the tables of its range;
for the console, whose constructor clones the framebuffer, nothing if the heap's first
block has room, else a growth by the copy's pages and a table for each `PagesPerTable`
pages at which that growth enters one (two more on a screen of 1280x800). A framebuffer
need not be whole pages: `room` says which of the block header and the small objects
around the copy its last page still holds, and with that whether growth takes a page
more, or a single page for the last object. How many tables a memory
map needs is left open up to `BootTables`. A stage that is refused frames does what the
code does: `map_both` goes on, `Heap::init` gives its run back and panics, `HeapAlloc`
halves its target only by the count of free frames, never because no run is long enough.
The first target is a power of two, as in the code (`PowerOfTwo`).

**`Console`** has the pixels of the screen and of its shadow. `Glyphs` is read from the
font as `buildFontStruct` and `print_char` do it, from an image whose rows go upwards.
`Drawn`, `Filled` and `Copied` are the framebuffer's primitives, in the units the code
counts in. `Terminal` is a grid of characters with a cursor; `Console` implements it by
what can be recognised on the screen (`Seen`). An empty cell and a printed space look
the same: `Blank` is the font's space, if it has one.

**`NumberText`** holds the conversions of vsnprintf.cpp as pure operators, with the
scratch buffer's limit at every append. **`Format`** is one call of `_format`: each step
reads one item of the format, either a literal character or a directive with its
argument, and sends its text to a buffer or to a function. `Directives` is all that the
scanner can read, and a configuration's items are among them. Integer types keep their
width and wrap (`Bits`). Doubles are multiples of `1 / Unit` with `Significand` bits; the
product with a power of ten is rounded to one (`Double`, `Scaled`), as the CPU does it,
while the subtractions and comparisons around it are exact in doubles, too. `CText` is the
reference: the text C prescribes. `Follows` names the directives for which the code
departs from C; `Prints` is about all others. Among these departures are digits as many as the
width where a prefix is asked for, zeros that leave the scratch buffer no room for a
sign, strings shorter than their precision, flags of `%p`, precisions past the table of powers, floats
that are too large (`_ftoa` returns 0, and what follows overwrites the text before), and
floats whose last digit the rounding of that product decides (`SameDigits`). Of the last
kind is `%.1f` of 0.95: the product is rounded to 9.5, line 139 makes it 10 without a
carry, the count of missing zeros wraps, and a buffer of zeros and `10` is printed. The
model prints that, too.

**`Traps`** writes GDT and IDT descriptor by descriptor, as ArchInit does, with the
bit fields of `set_gate` and `SetIDTGate`. At any step the CPU may raise an exception,
or an interrupt when they are enabled; `Usable`, `CodeSegment`, `DataSegment`, `Offset`
and `Frame` are how it decodes a gate and what it pushes. The stubs then push, save and
restore word by word. What `irq_handler` does with the controllers is `Irq`, what
`exception_panic` does is `Panic`.

**`ElfImage`** details two stages of `Loader` ("place" and "segments"): the pass that
measures, the firmware's answer, and the pass that checks and copies. A byte is known by
its offset in the file. The headers that a file may have are the constant `Headers` of
`MC_Loader`. Sums wrap at `Top`, as they do in main.c:105 and main.c:127, and a header
that does not lie in the file is read as whatever memory has there, since nothing checks
`e_phoff` (main.c:96-102); a copy that leaves the pages asked for ends in the state
`astray`. Of a file with such a header table or such a sum nothing is promised: `Loads` is
about the others (`Granted`), for which the checks that the code does make are enough. **`LoaderText`** is the walk along the device path, one node per
step, and the loops that print numbers. A character is the value of the digit it stands
for or one of four others; a GUID is sixteen bytes, of which the first numbers begin with
their last. `ConstantsFit` asks of the widths what the code's 16 digits and 21 places
fulfil: half of the values have their digits, a sign and the terminator in `buf`.
**`Mem`** copies, fills and compares byte by
byte in a memory so small that every overlap occurs.

**`Heap`, realloc.** `OverrunsWhenClose` bounds the defect described above: a call
overruns only if the new block is less than a header and an alignment larger than what
the caller first asked for.

## 4. The runs

| Run | Instance | Shows |
|---|---|---|
| `frames` | eight maps of up to 7 frames: unsorted, with holes, with memory at 0, too scattered for the bitmap, without any memory; bitmap of 4 bits per frame, so that it spans two frames; two clients; counts 0 to 3 | `TypeOK`, `CounterExact`, `Accounted`, `AllocAnswer`, and that each call is a step of `FrameAllocator` |
| `frame_loops` | three maps with one or two runs of free frames, bitmap of one frame | `ScanInv`, and that the loops implement `PMM` |
| `heap` | header 3, alignment 2, frames of 17 units (24 : 16 : 4096 bytes in the code), HEAP_MAX of 53, which is not a whole number of frames, so that the clamp of `init` and the bound of `grow` differ; requests of 0, 7, 14 and more than HEAP_MAX, which leave blocks slack that cannot be split off; size_t modulo 93, so that 8 * 14 wraps | `HeapInv`: the list tiles the region, live blocks are right, frames are backed. `Coalesced`, `GivesUpLate`, `OverrunsWhenClose`; objects are disjoint and stable (`ImplementsObjects`); every call returns |
| `vmm` | three levels of tables with four entries, 16 frames, two memory maps (one with a framebuffer inside described memory, which `map_range` must refuse), plenty of frames, too few for the tables of boot, and none; two overlapping ranges that callers map and unmap, one of which needs two tables; one watched page | `TablesInv`, `Coherent`, `AmpleGivesAccess` (of the three pools the first is `Ample`); each step is one of `AddressSpace` or none: ranges are mapped wholly or not at all |
| `vmm_scarce` | the same with too few frames only | `GivesAccess` is violated, see below |
| `boot` | one run of 1 to 33 frames, two runs, three; a first target of 8 frames, halved down to 1; tables of 8 pages; HEAP_MAX of 25 frames; framebuffers of 3, 8, 10 and 17 pages with more or less room in the last: they fit the first block, do but for the object after them, do not, and need up to three tables more | the kernel gets its heap exactly when it can (`HeapIffEnough`); a mapping that fails, at its first table or after some, gives its frames back (`BootInv`); boot ends |
| `loader` | three attempts, room for four more descriptors, up to six changes of the map by itself, so that the room can be used up; ELF files of one to three of ten program headers in any order, two with a sum that wraps, their table in the file, partly behind its end or in front of it, in a memory of five pages of four bytes; device paths of up to three of seven nodes; integers of four digits in base 4 and a buffer with not one place to spare; memories of four bytes with four values | `HandsOver`, `Leaves` (an error is reported; pools, the font's file and the pages of a font that could not be read are given back), `LoaderEnds`; `Loads`; `Shows`, `WalkEnds`; `Bytes` |
| `interrupts` | devices at lines 7, 8 and 15, each raised up to twice; half words of 3 bits and stubs placed below, across and above what one of them holds; three pieces per report, two lines of log | `Acknowledged`, `Served`; `Descriptors`, `Transparent`; `Reports`, `Halts` |
| `console_padded` | two columns and three rows of 2 x 2 pixels, a height that is not whole rows, pixel rows with room for one more character, two characters in two rows of the font, two background colours | `ScreenInv`, and that the screen shows what `Terminal` has. With room at the end of each row the late wrap does no harm here; `console_exact` is about it |
| `console_exact` | two columns and two rows, pixel rows that end with the last column; a font with a space | `OwnLine`: the character that is drawn past the last column before the line breaks touches its own line and one pixel row below it. That spill is the code's; the property catches a wider one |
| `format` | scratch buffers of 8 characters, types of 3, 4, 6 and 10 bits; every set of flags on every integer conversion at widths around the number's length and the buffer's; doubles of 11 bits in units of 1/2048: the multiples of 1/16 up to 2.5, and those about each half of a last digit, where the product with a power of ten is rounded to a half or off one; formats of two directives; buffers of 0, 1, 5 and 12 cells and a function | `Prints`, `FormatInv` (no cell past the caller's length), `Terminated`, `HoldsScratch` |
| `format_prefix` | the integers of `format` | `AddsPrefix` is violated, see below |

In `loader` and `interrupts` modules that share no state run side by side: the first
state chooses the one that moves (`part`), so their state spaces add up and do not
multiply. `MC_Loader` and `MC_Interrupts` conjoin the properties of each module under
one name.

What `format_prefix` shows: `_ntoa_format` takes digits that are exactly as many as the
width for zero padding, and removes two of them to make room for the prefix
(vsnprintf.cpp:47): `%#2x` of 24 prints `0x`. vsnprintf.h:24 says "Adds the hex prefix".
In the same way zeros that fill the scratch buffer leave no room for a sign that `+`
asks for (vsnprintf.cpp:57), which `Follows` excludes.

What `format` shows of floats: of the 6098 float directives of the run `Follows` excepts
653, which the rounding of the product decides; all others print as C says. With the 53
bits of a double they are rarer.

What `vmm_scarce` shows: `map_both` (vmm.cpp:83-86) ignores the result of `map_range`. If
the frame manager cannot supply all tables, `VMM::init` loads a root table that lacks
part of memory and goes on; `phys_to_virt`, of which vmm.h:38 says that it "gives access
to a frame", then answers an address that is not mapped, and the next walk through such a
frame faults.

The bounds are chosen so that each edge is inside: a run that ends at the last frame, a
request that only fits after growth, one that needs two frames, a heap at its maximum,
four blocks in the region so that three neighbours can become free in any order, a
scratch buffer that overflows, a screen that scrolls with its cursor past the last line.

Fairness: `CallReturns` assumes weak fairness of `Work`, the steps of a call that has
begun. The kernel has one thread and nothing preempts it for good. Nothing is assumed of
the callers or of the outcome of allocations. `LoaderEnds` and
`WalkEnds` assume the same of the loader, and nothing of the firmware but that its calls
return; `ComesUpOrPanics` assumes it of `_start`, the only thread. `Halts` assumes that a report goes on,
by printing or by faulting. In `Irq` the handler goes on (weak fairness of its steps),
and the CPU takes interrupts: strong fairness of `Interrupt`, because every handler
disables it for a while. `Served` holds because devices raise their lines
boundedly often (`MaxRaised`); one that never stopped could starve the lines below it.

## 5. What is proved

Every theorem is about the module's own specification, for every value of its constants
that the module's `ASSUME`s admit. A module that is instantiated with `INSTANCE` names
its assumptions `ConstantsFit`; there `MC_Loader` and `MC_Interrupts` assume it.

| Module | Theorems | For all |
|---|---|---|
| `PMMProofs` | `TypeCorrect`, `CounterCorrect`, `Accounting`, `AllocAnswers`, `Implementation`; `ScanCorrect`, `LoopsImplement` | memory maps whose descriptors do not overlap, bitmap sizes, clients, counts |
| `HeapProofs` | `HeapInOrder`, `OverrunsOnlyWhenClose`, `CleanupCoalesces`, `AllocGivesUpLate`, `HeapKeepsObjects` | headers, alignments, frames that are larger than a header, limits, widths of `size_t`, requests |
| `VMMProofs` | `TablesInOrder`, `CacheCoherent`, `ImplementsSpace`, `AccessToAll` | levels, entries per table, sets of free frames, memory maps, ranges of canonical pages |
| `BootProofs` | `BootInOrder`, `HeapExactlyWhenEnough`, `BootCallsManager`, `BootAccounts` | the maps of `PMM`, first targets that are powers of two, tables needed, framebuffers |
| `LoaderProofs` | `KernelGetsAll`, `ReturnsClean`; `ImageLoads`; `BytesInOrder`; `TellsUser` | attempts, room to spare; program headers and page sizes, for files as `Granted` says; memories and bytes; device paths, GUIDs, integers and their widths |
| `InterruptProofs` | `Acknowledgement`; `DescriptorsHold`, `TrapsTransparent`; `ReportsArrive` | lines and requests; places of the stubs, widths of a gate's pieces, tables of at least 48 gates; lengths of a report and of the log |
| `FormatProofs` | `FormatInOrder`, `TextTerminated`, `ScratchHolds`, `PrintsText` | formats of any directives (`PrintsText`: that `Follows` admits), arguments, widths and precisions up to those of `Directives`, buffers, sizes of the scratch buffers |
| `ConsoleProofs` | `ScreenInOrder`, `OneBackground`, `CharactersStay`, `ScreenShowsTerminal` | screens, cells, fonts and colours; for `ScreenInOrder` screens with room at their end, for `ScreenShowsTerminal` lines within the screen or rows with room at their end |

**The frame manager.** The inductive invariant `IInv` is the conjunction of `TypeOK`,
`Unbooted` (nothing is set before init), `CounterExact` and `Accounted`. None is
inductive alone: the counter stays exact only because frees clear bits that are set and
belong to the client, which needs `Accounted`; `Accounted` needs the typing of `held`.
The proof reduces each call to one of two moves, `Gives` and `Returns` (lemmas
`AllocGives`, `ReserveGives`, `FreeReturns`), and shows once for each move that it keeps
`IInv`. The same two moves are the steps of `FrameAllocator`, which gives
`Implementation`. For init, `RoundUp` and `BitmapIsRun` show that the frames set aside
are exactly those that hold a bit, and `BootCounts` that counting frames descriptor by
descriptor counts each once. With the loops, `Accounted` is not true in the midst of a
call. `LInv` keeps the counter exact after every iteration and adds where the loop is
(`InLoop`); what `PMM` sees is the bitmap with the rest of the loop done (`Bits`,
`Count`). That frames are accounted for when no loop runs follows from `LoopsImplement`
and `Accounting`; this last step is an argument, not a theorem.

**The heap.** `HeapInv` says that the list tiles the region. `IInv` says it with the
position of each block (`Tiled`: each ends where the next begins, none reaches past the
end, of two the lower ends before the higher begins), because a split or a merge changes
the list in its middle. It adds `Owned`, the bounds of each object at its block, and
`InCall`, what the search has passed and what the cleanup has merged. The last gives
`AllocGivesUpLate` and `CleanupCoalesces`; that growth in fewer pages would not have held
the block either is `PagesLeast`. For `HeapKeepsObjects` each step is shown to
be a step of `HeapObjects` or to leave pointers and sizes alone.

**The page tables.** Everything rests on `Shape`: each table has a level and a place,
its number among all tables its level could have, and no two have the same. It is an
existential over two functions, since the code keeps neither. With it a walk for a page
is at each level at the one table in the page's place, writing an entry for one page
changes no other page, and two tables never share a frame. `Canonical` is needed here:
without it two pages asked for could have the same digits. `Progress` says how far a
call has come, which is what makes the rollback of `map_range` whole, and `Cached` says
what the TLB may hold.

`AccessToAll` is about what those tables are for. `Ample` says when boot had memory
enough: every free frame is in a range of the memory map that meets no earlier one
(`Alone`), callers do not unmap the direct map, and there are at least as many frames as
`Needed` has places, one for each table that some page asked for by `VMM::init` lies
under. `AInv` adds to `VInv`, for such memory, that what finished calls have put in the
direct map is there and in no call's hands (`Holds`), that nothing else is mapped yet
(`Only`), so that a call of init is refused only if its range meets an earlier one, that
tables are only in places that are needed (`Placing`), and that every frame is a table
or free (`Supply`). The last two give the step that matters (`PoolLasts`): if frames ran
out while init maps, all of them would be tables in different places, one place would
still be missing, and there would be fewer frames than places. That `HHDM` is not 0 is
assumed because `physOffset` says by not being 0 that init is done.

**Boot.** `BootCallsManager` shows that the stages of `_start` are calls of `PMM`, so
that `IInv` of the frame manager may be used. `Chosen` says that twice the size being
tried was too large or never tried, `Mapped` to whom the frames belong while the heap is
mapped. Halving finds the largest power of two that will do (`Halving` and the lemmas
after it; a descent on numbers, by `WellFoundedInduction`).

**The loader.** `LInv` says for every place in the code what has been acquired there and
what `err` is (`Held` with its table `Holdings`, `Known`), whose buffer holds the map
(`Buffered`), and how much the map may have grown by then (`Growth`). For the image,
`EInv` says up to the header that a pass has come to which range has been measured and
which segment each byte is from. Where segments overlap the later one counts, and
`Layered` names it as a witness at each address. `EInv` is an invariant of files that are
as the loader takes them for granted (`Granted`: the header table is in the file, no sum
of a header's fields wraps); of others only the types are proved. For the byte loops,
`MInv` says which bytes have arrived; that those still to come are as they were depends on
the direction, forward only towards lower addresses or without overlap. `ReturnsClean`
speaks of the pools, the font's file and the font's pages after a failed read. The other
pages, the stack and the other file handles stay taken when `efi_main` returns with an
error, as the code has it.

`TellsUser` is about the texts the loader shows. `TellsInv` says of the walk that no node
behind it is a partition or broken (`OnPath`), and of `PrintInt` that the digits in `buf`
and what is left of the number make up the number (`Printing`). It also has that zero is
left only once there is a digit and that the first of several is not 0. The room in
`buf` follows from the sum: a number of which something is left has more digits than are
stored (`PowersGrow`). A text of hexadecimal digits reads back because the digits from
the first to the k-th are the number without the rest (`HexReads`); for a GUID, bytes
are followed two digits at a time through the numbers they are part of (`NumberBytes`)
to their place in the text (`GuidShows`).

**Interrupts and traps.** `Acknowledgement` needs `TypeOK` beside `Acknowledged`: that an
interrupt of the first controller leaves nothing at the second follows only from which
lines each controller has. `TInv` says what the tables hold by how far ArchInit has come
(`Tables`) and, word for word, what is on the stack in each mode of a trap (`Trapped`).
`TrapsFit` assumes that the addresses of the stubs fit the gate's four half words.

**Panic.** `Reports` speaks of what has been printed. `PInv` ties it to how far each
report has come (`Progress`), the two flags to the reports that were begun (`Flags`), and
has interrupts off from then on (`Alone`).

**The console.** `CInv` is `TypeOK` with one background colour, also in the part of the
shadow that `scroll` does not write. It holds on every screen, as does `CharactersStay`.
The line breaks only after a character has been drawn in the column past the last one
(console.cpp:55). On a screen whose pixel rows and height are whole cells this draws into
the next row of pixels, and on the last line behind the framebuffer. So that nothing is
stored there (`ScreenInOrder`) is proved if the screen is `Roomy`: room at the end of
each row, or a row of pixels below the last line. That the screen shows a terminal
(`ScreenShowsTerminal`) is proved of every screen as long as no character is printed in
the column past the last (`WithinScreen`: lines no longer than the screen, with a newline
behind them); on a screen that is `Padded`, with room for that column at the end of each
row of pixels, characters may be printed anywhere. Most screens are not padded: their
pitch is their width and whole cells, and there a line that is too long does break the
refinement. Both are hypotheses of the theorems, not assumptions of the module. `QInv`,
for the terminal, adds that there is ink only before the cursor.

**The formatter.** `FInv` adds to the three properties that until the call returns no
cell below the index is unwritten (`Filled`), which is why the string that `Terminate`
closes has no gaps. The rest is that every conversion makes a text (`IntIsText` to
`FloatIsText`), and a number's no longer than the larger of width and scratch buffer:
`OutRev` pads to the width only, and each append before it is cut at the scratch buffer
(`PutIsText`, `ZeroFillIsText`, `PutPrefixIsText`). Digits and powers are recursive
functions, of which something can be said only if they exist. `DigitsExist` and
`PowerExists` show that, by induction over a set of numbers (`Induction`, from
`WellFoundedInduction`). What digits they are is not needed.

`PrintsText` needs it. `PInv` adds that until the call returns what has been stored and
sent is the text that C gives the items read so far (`Printing`); it holds item by item
because the text of a format is that of its beginning with the last item's behind it
(`WholeAppend`). That an item's text is C's is shown for each kind (`IntPrints`,
`CharPrints`, `StringPrints`, `PointerPrints`, `FloatPrints`). The code writes backwards
into the scratch buffer, C's text is put together forwards: `Zeroed`, `Prefixed` and
`NtoaLaid` bring a number into the form sign, prefix, zeros, digits, padding, for all
combinations of flags that `Follows` admits. For floats `RoundedIs` shows that the
code's two roundings, with the carry into the integer part and the tie that goes to the
even digit, round to the nearest, and `FractionJoined` that the digits before and behind
the point are those of one number; where the product is rounded, `SameDigits` says that
both are next to the same number of digits and neither is half way. That `Unit` is no multiple of 5 is assumed (it is a
power of 2): with digits behind the point a tie then never lies at the fraction's ends,
where the even neighbour would be the integer's (`NoTie`).

Only model-checked:

- Liveness (`CallReturns`, `Served`, `Halts`, `LoaderEnds`, `WalkEnds`,
  `ComesUpOrPanics`): fairness and ENABLED are out of the prover's reach.

`GivesAccess` and `AddsPrefix` are refuted (section 4). Every other invariant and action
property of the runs is stated by a theorem. The theorems about the parts of `MC_Loader`
and `MC_Interrupts` are about each part's own specification; that the parts share no
state is seen from their variables.

## 6. Not modelled

- Flags of page table entries other than Present, the NX bit of EFER, and caching: the
  status of the virtual memory manager is `partly` for this.
- Doubles as such: `Format` has multiples of a unit in a fixed number of bits, without an
  exponent. Precisions beyond the table of
  powers and the scratch buffer together, and formats that end in an unfinished
  directive, of which the repository has none.
- `math::pow`, `exp`, `ln`: the integer power has no caller, the others are floating
  point and compiled out of the kernel. The character classes have no caller either;
  `uint32_memset` is `Filled` of `Console`. The C++ runtime's stubs are empty.
- 64-bit widths are scaled down wherever a width matters (`size_t` in `Heap`, the pieces
  of a gate in `Traps`, addresses in `ElfImage`, integers in `Format` and `LoaderText`).
  The checks of an ELF file's identification only pass or fail.
- Time: how fast the serial line takes characters (console.cpp:90 writes without asking).
- Ports, one machine instruction each; the declarations of the firmware's interface;
  GUIDs and the font's pixels; linker script, build and emulation scripts.
- Memory contents where no property is about them.
