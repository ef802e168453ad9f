# A TLA+ model of the lOSt kernel

lOSt is a 32-bit hobby operating system for the PC: a boot loader, a kernel with a
page allocator, a round-robin scheduler, interrupt and system-call entry, drivers
for the timer, keyboard, serial ports and ATA drives, the beginnings of FAT32, and
an "emergency shell" that runs as a kernel process. There is one processor, no
paging and no lock anywhere: what keeps the parts apart is that interrupt handlers
run with interrupts disabled, and the order in which the rest of the code does
things. This directory models that code in TLA+, checks the models with TLC on
small instances and proves the most important results with TLAPS for all sizes.

Paths below are relative to `src/kernel/` unless they begin with `src/`.

## 1. The system

| Component | State it keeps | Operations | Who it meets |
|---|---|---|---|
| memory manager (`memory/mmanager.c`) | `page_table`, one 2-byte entry per page: used, links to the neighbours, permissions, an 8-bit pid | `init_memory`, `kmalloc`, `kumalloc`, `kfree`, `kfree_pid` | everything; called by processes, by kmain and by the keyboard interrupt |
| scheduler (`proc/scheduler.c`) | `proc_list` (65536 slots), `cpid`, `lapid`, `active_procs`, saved registers | `kfork`, `fork`, `exit_proc`, `exit_v`, `schedule` | timer interrupt, system calls, memory manager |
| interrupts (`cpu/idt.c`, `cpu/idt.s`) | handler table, PIC masks | `init_idt`, `irq_install_handler`, `pic_remask`, `_irq_handler`, `native_irq`, the stubs | scheduler, drivers |
| timer (`drivers/timer.c`) | `ticks`, `seconds`, the start of the last wait | `irq0_timer_handler`, `wait_secs` | ATA driver, shell |
| boot (`main.c`, `src/bootloader/boot/main.s`) | the BIOS memory map | `get_mmap`, `kmain` | starts all the others |
| emergency shell (`eshell/eshell.c`) | the cursor, the command line, `eshell_settings` | `eshell`, `getch`, `exec_command`, `write_screen_char` | keyboard, serial listeners, memory manager |
| keyboard (`drivers/ps2.c`, `drivers/kb.c`) | the controller's output byte, shift and caps lock, the listener | `init_8042`, `ps2_handler`, `get_ascii`, `register_kb_listener` | shell |
| serial console (`drivers/serial.c`) | four listeners per port, `auto_send_return` | `serial_write`, `kputc`, `kprintf`, registration | everybody that prints; the shell listens |
| string library (`memory/string.c`) | static buffers of `ltostr` and `kstrtok` | lengths, comparison, copies, numbers, tokens | shell, FAT, system calls |
| ATA driver (`drivers/ata.c`) | the drive's registers | identification, polling, `ata_read`, `ata_write` | timer, storage |
| storage (`drivers/storage.c`) | `drives[26]`, `filesystems[26]` | `register_drive`, `detect_fs`, reads and writes, `fopen`... | ATA, FAT, memory manager |
| FAT32 (`filesystems/fat.c`) | the links of the clusters, a hint where to look for a free one, the root directory's position | registration, `fat32_open_file`, `fat32_read`, `fat32_write` | storage, strings |
| floppy and DMA drivers, cpuid | | | not part of the running system |

What is hard about it:

* **Interrupts anywhere.** `kmain`, `kfork`, `exit_v`, `eshell` and every `kmalloc`
  they make run with interrupts enabled. A tick may switch processes, and a key runs
  `getch` - which allocates, frees, writes the screen and executes commands - on the
  stack of whatever was running.
* **Memory that is handed out by a search that looks at one page.** `kmalloc` tests
  only the first page of a block, so everything depends on the order of requests.
* **Static state shared by callers**: `wait_secs`, `kstrtok`, `ltostr`, the cursor.
* **Hardware that answers when it likes**, and waits with and without a timeout; a
  keyboard controller whose answers and keys arrive in the same byte.
* **Start-up order.** The interrupt controllers come from the BIOS with requests
  pending; interrupts are enabled before the table of vectors is loaded.
* **Processes that free what they are standing on**: `exit_v` frees its own stack.
* **A dispatch that is not neutral.** `schedule` puts the frame it resumes 28 bytes below
  where the process was interrupted and prints a line through the shell's listener, at
  every dispatch.
* **Memory nobody clears.** `clearmem` does nothing, so fields that are read before they
  are set (a drive's lba48 bit, the filesystem's cache, the bytes behind a path) hold what
  the page held before.

What makes each component correct is stated as properties in the modules; section 4
lists them with the runs, and `hazards` in `PROJECT.json` connects them with the
lines where they could go wrong.

## 2. The modules

| Module | Models | Extends |
|---|---|---|
| `PageTable` | the entries of the page table and the pure parts of `kmalloc` and `kfree`: the first-fit search, what an allocation writes, what a free clears | |
| `PageOwnership` | the abstract specification of an allocator: pages move between a pool and exactly one owner | |
| `MemoryManager` | `kmalloc`, `kumalloc`, `kfree` and the turns of `kfree_pid` as calls in any order, and the pointers their callers hold | `PageTable`, instance of `PageOwnership` |
| `MemoryMap` | `get_mmap` of the boot loader, `init_memory`'s check and walk of the map, and allocation from the result | instance of `PageTable` |
| `Scheduler` | the process table, the round robin, the frames a dispatch puts on a stack, kmain's kforks, ticks with their acknowledgement, system calls, `fork`, `exit_v` | |
| `Kernel` | the running system: kmain, idle, the shell, the timer and the keyboard over one page table, with what every page holds | `PageTable` |
| `Boot` | the memory taken while drives are identified, partitions read, filesystems mounted and the scheduler initialised | `PageTable` |
| `Kmain` | kmain from `init_idt` to its first kfork: the interrupt controllers, `init_8042`, then `Boot`, while devices ask for interrupts and the user types | `Boot` |
| `Ata` | `ata_read` and `ata_write` with the commands they send, identification and polling, against a drive that changes its status and offers data at will and a clock that stands still in system calls | |
| `Strings` | the string library as operators on byte buffers | |
| `StringCalls` | the calls the kernel makes of it, one after another, with `kstrtok`'s static pointer and paths copied into pages that were used before | `Strings` |
| `Files` | `fopen`, `fread`, `fwrite` and close on a FAT32 volume: the chains of clusters, in whatever memory their links are, and the search for a free one | |
| `Console` | scan codes, shift, `getch`, the command line, the echo and the lines of `schedule` through the serial listeners, and the cursor the shell and the interrupts share | `Strings` |
| `MC...` | definitions of constants for TLC; `MCFiles` puts `StringCalls` and `Files`, which share no state, side by side in one run | |
| `PageTableProofs` | no code: lemmas about `PageTable` that the proofs about the memory manager, the kernel and the boot share | `PageTable` |
| `DiskProofs` | no code: theorems about the ATA driver and about the files above it, which share no state | `Ata`, `Files` |
| `...Proofs` | no code: theorems | the module they are about |

### How state and actions correspond to the code

Variables and actions carry the names of the variables and functions they model, and
`map` in `PROJECT.json` gives the lines of each definition. A few conventions:

* **What is one step.** A handler that runs with interrupts disabled is one step
  (`irq0_timer_handler`, the system calls, `ps2_handler` with all of `getch`). Code
  that runs with interrupts enabled is cut wherever an interrupt could see the
  difference: `kfork` into registration, filling in and counting; `exit_v` into its
  frees, the removal and the count; in `Kernel` a `kmalloc` into the search and the
  write; in `Console` the shell's `write_screen_char` into single reads and writes of
  `x` and `y`, including the load and the store of `x++`.
* **Composition.** `Kernel` puts memory manager, scheduler, timer, keyboard and shell
  together, at the price of abstracting what the modules of the parts keep: two
  processes, one-page requests, command lines as words. The modules of the parts have
  many processes, many sizes and real lines.
* **Data.** A page's contents are the structure that was written there last; a
  process's work is a step counter carried by its registers; a status register is its
  five bits; texts printed are cut down to a few characters.
* **Undefined outcomes are choices.** Dispatching an entry nobody filled in is
  `Garbage`, from which nothing is assumed; a fresh page holds any interrupt number;
  a byte read behind the keyboard's table may or may not count as a shift key; a field
  of a page that nobody cleared holds anything (`Ata!Call`'s lba48 bit, `Files!FilesInit`,
  the bytes behind a path in `StringCalls`).
* **The stacks.** `schedule` resumes a ring-0 process from a frame at its saved esp - 76,
  while the interrupt had pushed 48 bytes: each dispatch leaves it 28 bytes lower
  (`proc/scheduler.c:219-221`). A function that returns recovers its stack through ebp;
  `idle` and the shell's loop do not return, and leave their page after about 145
  dispatches. `Scheduler` counts the dispatches of a context up to `StackRoom` and then
  takes it for `Garbage`; in `Kernel` every dispatch writes its frame and any one may be
  the one that leaves the page (`spill`), after which nothing is modelled. A child of
  `fork` is on its parent's stack.
* **External**: the drive (`Ata!Drive`), the code of a process (`Scheduler!Execute`),
  the BIOS (`MemoryMap!Answers`) and the devices of `Kmain` (`request`, `key`, `answer`)
  are not in the repository.
* **kmain in four pieces**, in the order of the code: `MemoryMap` is its `init_memory`,
  `Kmain` its `init_idt`, `init_8042` and - through `Boot` - `ata_identify_all` and
  `init_scheduler`, `Scheduler` and `Kernel` the two kforks. Each piece begins where the
  one before it ends; what crosses is the page table.
* **Faults.** An operator whose comment begins with "Fault:" is a plausible mistake
  in the definition after it - a dropped guard, an exchanged pair of statements, a
  missing reset. No action uses it. Put in place of that definition it makes one of
  the properties fail, which shows that the property depends on the code;
  `mutants` in `PROJECT.json` pairs them.

## 3. Assumptions

* `SteadyPids` (`MemoryManager`): pids fit the 8 bits of a page entry, and process 1,
  which is `idle`, does not exit. Nothing is assumed of sizes: `kfork` and the shell ask
  for single pages, but `fork` for `memory_limit - memory_base/4096` (`proc/scheduler.c:57`)
  and `sys_malloc` for `ebx/4096 + 1` (`cpu/idt.c:356`). `kmalloc` looks at the first page
  of a block only, so a request of several pages may be granted over pages that are held
  or behind the end of the table; the variable `clashed` records the first such grant, and
  the results about the memory manager hold up to it. `boot_fs` shows the kernel reaching
  one.
* `IdleStays` (`SchedulerProofs`): process 1 does not exit. It is `idle`, an endless loop
  without a call (`main.c`). Only `SearchEndsAlways` needs it: with no process left to
  run, the search of `schedule` would go round for ever.
* `MemoryMap!Complete`: the firmware reports regions in order as far as `check_sorted`
  does not look (the last entry), the 1MB line lies in usable memory that reaches past
  the page table, and there are not more regions below 1MB than the table has pages.
  `MemoryMap!Answers`: above 1MB a region is a page long at least. Regions may begin and
  end anywhere, with holes between them. Section 6 says what happens in a hole.
* `Kmain`: the keyboard controller answers each command it is asked to answer, ignores
  the configuration byte that `init_8042` sends to the command port (`drivers/ps2.c:47`),
  and sends no key while its port is off.
* `Files` assumes sizes only. `fat_cache`, `cached_clusters_start` and
  `cached_clusters_size` are never assigned and their page is not cleared, so the links
  are whatever words `fat_cache` points at, with any content, and the other two any
  numbers; the hint of the FSInfo sector and the (wrapped) number of clusters are any
  numbers too. The 16-bit count of sectors per FAT is 0 on a FAT32 volume, so
  `fat_cache_size` is 0 and no sector is transferred. `astray` records that a link was
  looked up in another word than its cluster's own, and the results about chains hold as
  long as that has not happened.
* The assumptions on constants (`...Assumption`) say that sizes are numbers and, in
  `Kernel` and `Boot`, that there is memory enough to boot; in `MemoryMap`, that memory
  ends below 2GB and that boot asks for no block of more pages than lie below the table
  and one (64 against 256).
* Bounds that the code does not have: `StepMod` (the ghost step counter wraps),
  `MaxActive` (forks stop there), `MaxSectors`, `MaxRead`, `MaxWrites`, `MaxEntries`,
  `MaxLine`, `MaxPath`, `MaxRest`, `MaxPadding`, `StackRoom` (the page of a stack holds
  about 145 frames); and the run `mm_single` goes no further than the first clash
  (`BeforeClash`).
* Fairness. *Scheduler*: kmain goes on executing while it is on the processor, and the
  PIT ticks whenever the last tick was acknowledged. *Kernel*: the PIT ticks, and a
  process that is dispatched again and again gets on (strong fairness): a time slice is
  55 ms, far longer than any step. *Ata*: the processor executes the call, and the clock
  advances where interrupts are enabled - a system call runs through an interrupt gate
  (`cpu/idt.c:411`, `:427`), with `seconds` frozen; nothing is assumed of the drive.
  *Kmain*: the processor runs kmain, and the controller answers; nothing is assumed of
  the user. *Files*: a system call, once begun, is executed - it runs with interrupts
  off. There is none in the others.

## 4. What is checked

| Run | Instance | What it shows |
|---|---|---|
| `mm_single` | 8 pages of which one in the middle is reserved, 3 pointers, 3 processes of which 2 exit, tags modulo 4, requests of 1 to 3 pages | Up to the first request that is granted over pages not free: `NoOverlap`, `UsedIffHeld`: blocks are separate, and used exactly when held. `ExitFreesAll`: a complete `kfree_pid` leaves its process nothing although others allocate between its turns. `ImplementsOwnership`: the whole is a `PageOwnership` |
| `mm_boot` | every map of up to 4 entries over 5 pages of 2 units with the page table at page 1, holes, ROM at the end of the address space, empty, absent and disordered entries; requests of 1 and 2 pages | `FreeIsNotReserved`, `UsableIsFree`: `init_memory` frees no page that begins in a region reported as taken, and every whole page of a usable one above the table. `WalkStaysInMap`: it reads no entry the BIOS did not return. `FreeIsTop`: whatever sizes are asked for, memory is handed out from the bottom up |
| `sched` | 3 slots, 2 kforks, 2 processes that may exit, all system calls, fork failing or not, stacks that one dispatch may lower and a second leaves | `ContextIntegrity`: nobody loses, repeats or borrows registers, and what kfork started keeps to its own stack until that leaves its page. `CountCoversReady`, `SearchEnds`: the count that switches scheduling off is right. `NoEviction`: slots are reused but never taken. `EveryoneRuns`: round robin is fair while ticks are acknowledged and the stacks last |
| `kernel` | 9 usable pages (exactly enough), two lines that can be typed, 2 ticks a second | `Exclusive`: no page has two owners although a `kmalloc` can be cut in two. `AlwaysACommandBuffer`: typing never uses up memory. `BootMemoryIntact`, `NothingOverwritten`: up to `exit`, and up to the dispatch that drives a stack out of its page, nothing is written over. `ExitEnds`: `exit` ends the shell |
| `ata` | requests of up to 7 sectors, commands of up to 3, a disk of 8 and requests that begin at sector 6, waits of 2 seconds, 2 tries, 7 statuses, interrupts on or off, the lba48 bit set or not | `AskedSectors`: no request goes beyond its buffer; one of less than a chunk moves sectors that were asked for, each to its place as long as the drive had data when it was taken, whatever polls are repeated, and goes over all of them unless it reports an error. `NotBusyWhenPolled`: a timeout that races an answer is never taken for one. `CallsEnd`: once the drive stays ready every request ends; in a system call, where no wait runs out, once it is not busy either |
| `boot` | 3 interrupt lines, any masks and port state left by the BIOS, a user who types at any moment; 2 drives, 3 partitions each, blocks of 2 and 3 pages | `NoStrayInterrupt`: every interrupt the processor takes finds the kernel's vectors, the IDT and a handler. `AnswersInStep`: `init_8042` never takes a key or an old answer for the one it waits for. `KmainStarts`: it comes to an end although the user goes on typing. `RegistrationIsSafe`, `RegisteredLive`: for every content of the partition tables, what is registered is separate and stays allocated |
| `console` | 4 columns, 3 rows, lines of up to 2 characters, 7 keys | `OnScreen`, `LineAsTyped`, `NoStuckShift`, `NoEchoAfterEnd` under every interleaving of keys and of the lines `schedule` prints with the shell's greeting and blinking cursor |
| `strings` | all paths of up to 3 characters over two letters and the slash, each with up to one old byte behind it, all 8-bit numbers; volumes of 6 clusters with every hint, 1 or 2 sectors per cluster, one open file, links in 3 words of memory that hold anything | `TokensAreParts` against a reference definition of the names in the page; `NumbersComeBack`; `NoNewCycle`: no write makes a cycle of a chain that ends, on a full volume too; `LoopsEnd`: a loop over a chain that ends comes to an end, although the counter of `fat32_read` does not on a volume with one sector per cluster. Both as long as links are looked up in their own words |

`MemoryManager`, `Scheduler`, `Kernel` and `Ata` also have a type invariant, `TypeOK`,
which carries the widths and limits
of counters (`active_procs` never below 0, no more sectors than asked for, the cursor
within the screen).

Why the bounds are enough. The page table is searched from a fixed first page and treats
pages alike, so a handful of pages with one reserved in the middle gives every
arrangement of neighbours, and three pages are the least for which a block has a middle;
more tags than processes would hide a clash of tags. In `MemoryMap` two units to a page
are the least for which two regions end inside one page, and four entries give a map
with something below 1MB, the usable memory, a region above it and one that is out of
order. In the scheduler three slots are the least for which the search wraps, finds the
caller and finds somebody else. The console's screen is just large enough for a prompt,
a character, a wrap and a scroll; positions only matter relative to the edges. The
drive's statuses are all combinations the driver's conditions tell apart, seven sectors
are two whole chunks and a rest, and from sector 6 on a disk of 8 a request may wrap. In
`Kmain` the three lines are one with a handler from the start, the one the keyboard
shares, and one of the second controller that never gets a handler. In `Files` three
words and a shift every three clusters (`ClustersPerShift` 3) make clusters share words
(2 and 3, 5 and 6) and links be looked up astray; chains grow, meet the hint and fill
the volume. In `Scheduler` one dispatch is the least that a stack pointer can be lowered
by without leaving its page.

Four runs show the code not doing what is said of it; each prints a shortest trace.

| Run | Property | What happens |
|---|---|---|
| `sched_boot` | `ShellIsStarted` | kmain is pid 0, whose registers `schedule` does not save (`proc/scheduler.c:208`). A tick between the two kforks never comes back to kmain, and the shell is not started |
| `sched_syscall` | `TicksGoOn` | `_irq_handler` acknowledges the timer if the interrupt number of the frame it *resumes* is small (`cpu/idt.c:399`). The frame of a system call has a large one: resumed by a tick, it leaves the tick unacknowledged, and there is no other |
| `kernel_crash` | `ExitIsSafe` | `exit_v` frees the stack it runs on first (`proc/scheduler.c:104`). Enter, typed in the window, is given that page and clears it |
| `boot_fs` | `FilesystemsSurvive` | registering drives leaves a hole of one page below a mounted filesystem; the 64 pages of `proc_list` start in it and cover the filesystem (`memory/mmanager.c:84`, `proc/scheduler.c:146`) |

## 5. What is proved

TLAPS checks these for every value of the constants that satisfies the assumptions.

**`MemoryManagerProofs`.** `TypeCorrect` needs no more than the named assumptions. The
others assume `SteadyPids`, and hold for blocks of any sizes up to the first clash:
`NoOverlapAlways`, `UsedIffHeldAlways`, `ReservedStaysAlways`, `ExitFreesAllAlways`,
`OwnershipImplemented`. None of these properties is inductive: that a page is used
says nothing of what a later `kfree` does with its links, or `kfree_pid` with its tag.
`BlockInv` adds that the entries of every live block carry its owner's tag and the links
of exactly that block (`HeldBlock`), that different blocks are apart, and that a page
nobody holds is unused and untagged or reserved and exactly as `init_memory` wrote it.
`kfree` follows the links from page to page; that it clears the block it was given and
nothing else is the lemma `ChainBlock` of `PageTableProofs`. `ExitFreesAllAlways` needs
`LoopInv` as well: every block of the process begins at or after the page the loop has
reached, which survives because an exiting process does not allocate and others do not
allocate for it. The refinement follows step by step: a successful allocation is a grant
of all pages of a block, a free a release, anything else a stutter.

**`SchedulerProofs`.** `TypeCorrect` and `ContextIntegrityAlways`, for any number of
slots and kforks, with system calls, forks and exits. `ContextIntegrity` is
`RegistersKept` and, for what kfork started, `OwnStacks`; it says nothing
about which context is on the processor while kmain boots or a process exits, and
nothing about entries `fork` copies; `RunningInv` and `SavedInv` say it. The lemma
`ScheduleKeeps` isolates the argument for `schedule`: given a frame and a table in
which every ready process's context is its own, it saves and dispatches only such;
`ScheduleStacks` does so for the stacks. A child of `fork` copies its parent's stack
pointer, and is left out of `OwnStacks` for that.
`CountCoversReadyAlways` and `NoEvictionAlways` rest on `KmainInv` - the number of ready
entries is the count, plus one while kmain has filled in an entry it has not counted -
and on `CountInv`, which does the same for an exit that has removed its entry and not
yet lowered the count. `SearchEndsAlways` assumes `IdleStays` and adds `IdleInv`: slot 1
is the first that is registered, and is ready from the first count on.

**`DiskProofs`.** Of the driver, `TypeCorrect` and `NotBusyWhenPolledAlways`, whatever
the drive and the clock do. The strengthening `TimeoutHolds` says that a poll that left
its loop with the drive busy left it because the wait was over, which stays so until the
next wait begins; `SectorPending` that a poll belongs to a sector still to be read.
`AskedSectorsAlways` needs two more. `InBuffer` places every command, of a request of
any length, inside the buffer. `OneCommand`: a request of less than a chunk is a single
command, and at each place in the loop over its sectors the first `j` places have been
gone over - moved or, where the drive asked for no data, missed - and what moved is at
its own place unless something before it was missed (`InPlace`), however often a poll
was repeated. With the lba48 bit set the driver refuses the request, which then moves
nothing and reports an error. Of the files, `NoNewCycleAlways`. What has to be assumed
of the state is only its types (`FilesInv`); the argument is in the two links an
extension writes. A chain does not end if it is caught in a set of words from which no
link leads out (`Ends`). Suppose that after the writes there is such a set. The second
write ends the word of the new cluster, so that word is not in it; the first led some
word to the new cluster, so that one is not in it either. Then nothing in the set was
written, and the set was there before (`NoCatch`). This needs neither that the new
cluster was free nor that clusters have words of their own, so it holds on a full
volume, for a hint that is part of a chain and for clusters 2048k-1 and 2048k, which
share a word.

**`MemoryMapProofs`.** `FreeIsNotReservedAlways`, `UsableIsFreeAlways`,
`WalkStaysInMapAlways` and `FreeIsTopAlways`, for every size of a page, of the memory and
of the map, and every map of `Answers` that is `Complete`. They rest on `MemoryInv`.
`MapInv` is what `get_mmap` has stored: memory first, in regions that are a page long at
least where they end above 1MB, then entries whose limit is 0; only with `check_sorted`
and `Complete` is it `Sorted`. The difficulty is the walk, which leaves at
most one entry with each page and so falls behind the map where several regions end
inside one page. `WalkInv` has two halves: while the page is below 1MB or the table's own,
the walk is at or before the region 1MB is in (`Anchor`) and has left an entry for every
page from `FirstPage` on (`Behind`); from the first page after the table on it is at the
first region that ends behind the page (`InStep`). The step from the one to the other,
`WalkCaughtUp`, is where the last clause of `Complete` is needed. `TableInv` says that what
is reserved so far `BootReserved` asks for and that what is free is `Clear` of the table and
of the regions reported as taken, and `HeapInv` what is left of it while
`kmalloc` hands pages out: since blocks are never larger than the page number of the first
free page (`MemoryMapAssumption`: the largest of boot is 64 pages, the table is at page
256), the loop of `check_free` looks at no further page and the lowest free page is taken
(`LowestFree`).

**`PageTableProofs`.** Lemmas only: types, what a request of any number of pages writes
and its free clears (`ChainBlock`: the chain of links `kfree` follows is the block), and
`SearchFinds`, that the search of `kmalloc` stops at a page if there is one. The last is
an induction over the table, which is not within reach as such; it is done with the
library's well-ordering of the numbers (`Least`).

**`KernelProofs`.** `ExclusiveAlways`, `CommandBufferAlways`, `BootMemoryAlways`,
`NothingOverwrittenAlways` and `KernelTypes`, for every page table in which there is
memory to boot and every interleaving of kmain, idle, the shell, the timer and the
keyboard, up to `exit` or the first frame that leaves its stack's page where the property
says so. All follow from one invariant, `KernelInv`, or after such a frame `Stopped`, which
keeps types, owners and the command buffer. Its parts:
`TableInv` - a page that is not of the boot is used exactly when one pointer holds it, and
has no links, so that a free clears that page only. `CpuInv` - what the code on the
processor may rely on at its place (`KmainAt`, `IdleAt`, `ShellAt`): above all, that a
page a `kmalloc` has chosen and not yet written is still free, which holds because a key
that could take it is only listened to when neither kmain nor the shell allocates any
more. `RegsInv`, `Parked` - the same for registers that were saved: the shell is not
resumed in the middle of a `kmalloc` that has been finished since. `Tidy` - up to `exit`
every structure is in the page its pointer names; after it most of that is false, and
what survives is `Parked`, with a clause for page 0, where `schedule` saves registers
through the empty slot. `CountInv` and `PhaseInv` relate the count of processes and the
listener to how far the shell has come. That `getch` is never without memory is a
counting argument: nine usable pages, and at most eight other owners.

**`KmainProofs`.** `NoStrayInterruptHolds` and `AnswersInStepHolds`, by `SetupInv`. It
says at each step of kmain where the masks are - all set before interrupts are enabled,
and cleared by `pic_remask` only where there is a handler - and what the keyboard
controller holds: while `init_8042` talks to it the keyboard is off, between two
commands its byte is empty, and during one it holds nothing or that command's answer.
`RegistrationIsSafeAlways` and `RegisteredLiveAlways`, for any number of partitions, any
sizes of blocks up to the first megabyte and any content of the partition tables. The
properties alone do not say why a block of several pages, of which `kmalloc` looks at the
first only, fits: `BootInv` counts the *gaps*, the free pages below a block. Between two
partitions there is at most one; the page for the next partition's first sectors
fills it, so there is none when the block of FSInfo sectors is asked for. When the
master's buffer is freed there may be two, and the slave's structure and buffer fill
those. `Demand` says how many pages the rest of the registration may still ask for,
and that as many are free; `Fresh` which pointers are still null. For `proc_list` no such
argument exists: it is asked for when there may be a gap, and `boot_fs` shows what
follows. `RegisteredLiveAlways` covers that step too: entries stay used.

**`ConsoleProofs`.** `NoStuckShiftAlways`, `LineAsTypedAlways`, `OnScreenAlways` and the
action property `NoEchoAfterEndAlways`, for any size of screen and any length of line.
`ShiftInv` adds that the keys counted as held are all keys that set shift, so the last
of them to go up clears `shift_down`. The others follow from `ConsoleInv`. `LineInv` is
about the bytes of the buffer: the characters of the line and NULs behind them, so that
what `getch` finds with `kstrlen` is the end of the line. `ScreenInv` says how far the
cursor may be out of the screen, and at which of the shell's steps: one column while its
`write_screen_char` is between moving `x` and wrapping, one row while it is about to
scroll; a key, or a tick with the line of `schedule`, that interrupts it there finds a
screen on which the handler's own writes are still inside. `ShellInv` says the same of
the position the shell has read and not yet used. `ListenerInv` is the table of serial
listeners, where the shell is in the first slot or in none. What `kprintf` does with a
text is a fold over it; texts are of one to three characters, and the fold is unfolded
with an explicit solution of its recursion (`Write3`, `Print2`).

Only model-checked, and why:

* liveness - `EveryoneRuns`, `ExitEnds`, `CallsEnd`, `KmainStarts`, `LoopsEnd` - is out of
  the prover's reach;
* `TokensAreParts` and `NumbersComeBack` say what loops over strings and digits compute
  for every input. The first compares with a sequence sorted by `SetToSortSeq`, the second
  needs the laws of powers of 10 and of 2, of which none of the provers knows any, and
  both need induction over data.

Every other safety property of a passing run is a theorem.

## 6. Other disagreements met on the way

These have no run of their own.

* `kmalloc` of several pages after a `kfree` overlaps live blocks, and at the top of
  memory writes entries past the table (`memory/mmanager.c:84`, `:116`). `boot_fs` is the
  case the kernel itself runs into.
* `register_process` publishes an entry before its registers are written; a tick in
  between dispatches what was in the page (`proc/scheduler.c:43`). It is one of the ways
  `ShellIsStarted` fails.
* `schedule` lowers the stack pointer of the process it resumes by 28 bytes at every
  dispatch (`proc/scheduler.c:219`); `idle` and the shell never recover it, and after
  about 145 dispatches the frames are written over whatever is in the page below.
* `schedule` prints a line at every dispatch (`proc/scheduler.c:222`) through the shell's
  listener. It moves the cursor behind the prompt and the characters typed so far, so
  echo and backspace no longer line up with the command line on the screen; the command
  itself is not affected (`LineAsTyped`).
* After `exit_v`, `schedule` saves the dead process's registers through an empty slot:
  a write to wherever the word at address 0 points (`proc/scheduler.c:209`).
* `fork` copies the registers of the last preemption, not of the call
  (`proc/scheduler.c:76`; the comment at `:46` describes a copy of the caller). In the
  model the child consistently goes on from there.
* `poll_drive` looks at its timeout only together with the busy bit
  (`drivers/ata.c:174`); a drive that requests data without being ready is polled for
  ever, which is why `CallsEnd` speaks of a drive that stays ready. In a system call
  interrupts are off and `seconds` stands still, so no timeout comes and a drive that
  stays busy is polled for ever.
* A drive's structure is in a page that is not cleared: the slave's is where the master's
  IDENTIFY data was. If its lba48 bit is left set, every request is refused
  (`drivers/ata.c:228`, `:329`). A sector is taken as soon as a poll succeeds, whether or
  not the drive asks for data (`drivers/ata.c:217`), and `ata28_write` does not look.
* With shift or caps lock, Enter and backspace are blanks (`drivers/ps2.c:139`): with
  caps lock on no command can be executed. The control key acts as shift, since its
  entry in the table is the value of `LSHFT` (`drivers/ps2.c:93`, `drivers/kb.h:16`).
* Backspace on an empty line clears the byte before its page (`eshell/eshell.c:223`).
* The cursor the shell blinks may be written over a character that was typed between
  reading the position and writing to it (`eshell/eshell.c:55`).
* `kstrcat(str, path, str)` never ends (`cpu/idt.c:294`), and neither does the count of
  directory entries in `fat32_open_file` when there is one (`filesystems/fat.c:212`),
  which also copies a path without its terminator (`:200`): what the page held before is
  part of the name that is looked for, which is why `TokensAreParts` speaks of the page.
* *The memory map.* A hole under a usable region above 1MB is marked free: the pages
  before the region's base are compared with the end of the region itself
  (`memory/mmanager.c:64`, `:69`). Limits of 2GB and more are negative as ints, and the
  walk then leaves an entry with every page and runs past the map (`:65`). A page that a
  usable region covers in part is free. The last entry is not checked for order (`:21`).
  That there is memory at 1MB for the table is taken for granted (`:62`).
* *The kernel's size.* `main.c:20` compares it with 0x400 sectors; the loader reads 0x100
  (`src/bootloader/boot/main.s:233-243`, next to "MAKE SURE TO UPDATE THE MAX_KERNEL_SIZE
  MACRO").
* *ATA requests.* `ata_read` and `ata_write` ignore the results of their commands, so
  their callers' error paths cannot be taken (`filesystems/fat.c:250`). Of 256 sectors
  and more the whole chunks transfer nothing, and the rest comes from a sector half as
  far on as it should (`drivers/ata.c:235`, `:238`). The upper bits of the sector number
  are replaced by those of the count (`:193`).
* *FAT32.* `fat_cache` and `cached_clusters_size` are never set: links are read from and
  written to memory at address 0, and every link looked up allocates a page that is not
  freed and sends a command for 0 sectors (`filesystems/fat.c:17`, `:22`). On FAT32
  `sectors_in_vol` is 0 and `total_clusters` wraps (`:259`); none of the filesystem's
  fields is cleared before (`drivers/storage.c:103`). `first_data_sector` and
  `fat_offset_primary` lack the start of the partition, and `fs_base.drive` is not set.
  The links of clusters 2048k-1 and 2048k share a word, and the word also depends on
  where the last cluster that was not in the cache moved its start (`:59`): links are
  looked up in words of other clusters, which `astray` records. With a hint of -1 on a
  full volume the "cluster" -1 is linked and its own link written, far behind the table;
  with a hint of 0 the chain is led to cluster 0 (`:98`). `fopen` of a name that is not
  found leaves the root directory at its end and its buffers allocated (`:217`).
* `init_8042` tests the second port when bit 5 of the configuration is clear, and sends
  the configuration byte to the command port (`drivers/ps2.c:47`, `:60`).

## 7. What is not modelled, and why

* `ramdisk_init`, `register_fs`, `init_fs`, `fat32_create_file`, `fat32_create_fs`,
  `reserve`, `exec`, `p_push`, `ksprintf`, the floppy and the DMA driver: nothing calls
  them.
* `search_dir`: in this build it is only reached with no entries to look at, since the
  loop before it does not end otherwise. `StringCalls` goes on to the further names of a
  path as the caller of the library that `fat32_open_file` is written to be.
* Exceptions: every handler prints and loops.
* Standard input and output, and processes without the ring-0 bit: there is no loader for
  programs, and `proc_running` is never set.
* What sectors, files and the screen hold; what is printed, and `kprintf`'s formats.
* `cpuid`, `gen_driver_key` and the port instructions, which keep no state; the part of the
  real-mode boot loader that reads the kernel, which has no choices of its own.
* The check of the kernel's size (`main.c:71`), a constant of the build.

## 8. Plan

1. done - `PageTable`, `MemoryManager`, `Scheduler` with proofs; `Kernel` and `Boot`,
   which compose them; `Ata` with proofs; `Strings`, `StringCalls`, `Console`.
2. done - `MemoryMap`, the chunks of `Ata`, `Kmain`, `Files`.
3. done - proofs of every safety property of `Ata`, `Scheduler`, `Kernel`, `Kmain`,
   `Boot`, `MemoryMap`, `Console` and `Files`.
4. Left: a refinement that joins the pieces of kmain, from the table `MemoryMap` ends with
   to the one `Boot` starts from; the composition of `MemoryManager` and `Scheduler` for
   any number of processes, which `Kernel` has for two.
