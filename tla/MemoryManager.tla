-------------------------- MODULE MemoryManager --------------------------
(***************************************************************************)
(* The physical memory manager of kernel/memory/mmanager.c with the        *)
(* callers that hold its blocks: kmalloc, kumalloc, kfree and kfree_pid.   *)
(*                                                                         *)
(* kmalloc, kumalloc and kfree are single steps here: this module is about *)
(* what a long sequence of calls does to the table (Kernel.tla splits the  *)
(* calls that interrupts can cut in two).  kfree_pid is one step per turn  *)
(* of its loop: exit_v runs it with interrupts enabled, so other calls, and *)
(* the kfree_pid of another process, fall between its turns.               *)
(***************************************************************************)
EXTENDS PageTable

CONSTANTS
    Handles,     \* the callers' pointer variables
    Pids,        \* the processes that own pages
    ExitPids,    \* the processes that exit
    Sizes,       \* the sizes asked for, in pages
    NumMod,      \* 2^32: kfree_pid counts in a uint32_t
    Counts       \* the values of process32_t.allocated_pages

ASSUME MemoryManagerAssumption ==
    /\ Pids \subseteq Nat \ {0}
    /\ ExitPids \subseteq Pids
    /\ Sizes \subseteq Nat \ {0}
    /\ NumMod \in Nat /\ NumMod > page_table_size + 1
    /\ Counts \subseteq 0..(NumMod - 1)

VARIABLES
    page_table,
    held,        \* the block each pointer refers to
    kfree_loop,  \* the locals i and num_allocated of each process's kfree_pid
    clashed      \* a block was granted over pages that were not all free

vars == <<page_table, held, kfree_loop, clashed>>

\* kmalloc tags its pages with pid 0.
KernelPid == 0

\* A pointer that is 0.
Null == [start |-> 0, size |-> 0, pid |-> KernelPid]

Block == [start : Pages, size : Sizes, pid : Pids \cup {KernelPid}]

\* No loop is running once i has reached page_table_size.
NoLoop == [i |-> page_table_size, num |-> 0]

Looping(pid) == kfree_loop[pid].i < page_table_size

PagesOf(block) == block.start..(block.start + block.size - 1)

Init ==
    /\ page_table = BootTable
    /\ held = [h \in Handles |-> Null]
    /\ kfree_loop = [p \in Pids |-> NoLoop]
    /\ clashed = FALSE

(***************************************************************************)
(* The search and the writes that kmalloc and kumalloc share.  The result  *)
(* is 0 when no page suits.  The search stops at the first free page, and  *)
(* check_free looks at none of the others, so a request of several pages   *)
(* that meets a gap too short for it, or the end of the table, is granted  *)
(* over what lies behind: clashed records that this has happened.          *)
(***************************************************************************)
AllFree(i, size) ==
    \A p \in i..(i + size - 1) : p \in Pages /\ page_table[p].used = 0

Allocate(h, size, pid) ==
    /\ held[h] = Null
    /\ \/ \E i \in Pages :
            /\ FirstFit(page_table, i, size)
            /\ page_table' = Allocated(page_table, i, size, Tag(pid))
            /\ held' = [held EXCEPT ![h] = [start |-> i, size |-> size, pid |-> pid]]
            /\ clashed' = (clashed \/ ~AllFree(i, size))
       \/ /\ \A i \in Pages : ~Suits(page_table, i, size)
          /\ UNCHANGED <<page_table, held, clashed>>
    /\ UNCHANGED kfree_loop

kmalloc(h, size) == Allocate(h, size, KernelPid)

\* A process in the middle of its exit no longer asks for pages.
kumalloc(h, size, pid) ==
    /\ ~Looping(pid)
    /\ Allocate(h, size, pid)

\* The holder of a block gives it back; an exiting process leaves that to
\* kfree_pid.
kfree(h) ==
    /\ held[h] # Null
    /\ held[h].pid # KernelPid => ~Looping(held[h].pid)
    /\ page_table' = Freed(page_table, held[h].start)
    /\ held' = [held EXCEPT ![h] = Null]
    /\ UNCHANGED <<kfree_loop, clashed>>

\* Fault: the loop starts after the first usable page.
kfree_pid_late(pid, num_allocated) ==
    /\ ~Looping(pid)
    /\ kfree_loop' = [kfree_loop EXCEPT ![pid] = [i |-> FirstPage + 2, num |-> num_allocated]]
    /\ UNCHANGED <<page_table, held, clashed>>

kfree_pid(pid, num_allocated) ==
    /\ ~Looping(pid)
    /\ kfree_loop' = [kfree_loop EXCEPT ![pid] = [i |-> FirstPage, num |-> num_allocated]]
    /\ UNCHANGED <<page_table, held, clashed>>

\* Fault: the loop runs to i <= page_table_size.
NextTurn_past(loop, num) ==
    IF num = 0 THEN [i |-> page_table_size + 1, num |-> 0] ELSE [i |-> loop.i + 1, num |-> num]

\* The loop's next i: past the end when the count has reached 0.
NextTurn(loop, num) ==
    IF num = 0 THEN NoLoop ELSE [i |-> loop.i + 1, num |-> num]

(***************************************************************************)
(* One turn.  The comparison is between a uint8_t and the uint32_t pid: a  *)
(* pid above 255 matches nothing.  The pointers of the exiting process die *)
(* with it as their pages are freed.                                       *)
(***************************************************************************)
kfree_pid_turn(pid) ==
    LET loop == kfree_loop[pid] IN
    /\ Looping(pid)
    /\ \/ /\ page_table[loop.i].pid = pid
          /\ page_table' = Freed(page_table, loop.i)
          /\ held' = [h \in Handles |->
                        IF held[h].pid = pid /\ held[h].start \in Chain(page_table, loop.i)
                        THEN Null ELSE held[h]]
          /\ kfree_loop' = [kfree_loop EXCEPT
                              ![pid] = NextTurn(loop, (loop.num - 1) % NumMod)]
       \/ /\ page_table[loop.i].pid # pid
          /\ kfree_loop' = [kfree_loop EXCEPT ![pid] = NextTurn(loop, loop.num)]
          /\ UNCHANGED <<page_table, held>>
    /\ UNCHANGED clashed

Next ==
    \/ \E h \in Handles, size \in Sizes : kmalloc(h, size)
    \/ \E h \in Handles, size \in Sizes, pid \in Pids : kumalloc(h, size, pid)
    \/ \E h \in Handles : kfree(h)
    \/ \E pid \in ExitPids, n \in Counts : kfree_pid(pid, n)
    \/ \E pid \in ExitPids : kfree_pid_turn(pid)

Spec == Init /\ [][Next]_vars

----------------------------------------------------------------------------
\* Every variable has its type; loop counters stay in their width.
TypeOK ==
    /\ page_table \in [Pages -> Entry]
    /\ held \in [Handles -> Block \cup {Null}]
    /\ kfree_loop \in [Pids -> [i : FirstPage..page_table_size, num : 0..(NumMod - 1)]]
    /\ clashed \in BOOLEAN

(***************************************************************************)
(* The properties hold up to the first grant over pages that were not      *)
(* free: from there on two pointers share pages and nothing can be said    *)
(* (Kmain's run boot_fs shows the kernel itself getting there).            *)
(***************************************************************************)

\* Two live pointers returned by kmalloc or kumalloc never share a page,
\* whatever calls of kfree and kfree_pid, of blocks of any size, came between.
NoOverlap ==
    ~clashed =>
        \A g, h \in Handles : g # h => PagesOf(held[g]) \cap PagesOf(held[h]) = {}

\* The table agrees with the callers: a page is marked used exactly when it was
\* reserved at boot or belongs to a live pointer.  So kfree and kfree_pid, which
\* know a block only by the links in its entries, free every page of it, leak
\* nothing and never free a page that is still held.
UsedIffHeld ==
    ~clashed =>
        \A p \in Pages :
            page_table[p].used = 1 <=>
                p \in BootReserved \/ \E h \in Handles : p \in PagesOf(held[h])

\* The pages init_memory reserved (low memory, the table itself) stay reserved.
ReservedStays == ~clashed => \A p \in BootReserved : page_table[p].used = 1

\* An exit leaves nothing behind: when the loop of kfree_pid runs off the end of
\* the table with the count kfork sets (-1), the process holds no page.
ExitFreesAll ==
    [][~clashed => \A pid \in Pids :
        Looping(pid) /\ ~Looping(pid)' /\ kfree_loop[pid].num > page_table_size
            => \A h \in Handles : held'[h].pid # pid]_vars

\* The free pages and the callers' blocks implement exclusive ownership.
Ownership == INSTANCE PageOwnership WITH
    Usable <- Pages \ BootReserved,
    avail  <- {p \in Pages \ BootReserved : page_table[p].used = 0},
    owned  <- [h \in Handles |-> PagesOf(held[h])]

\* Every call of the memory manager is a grant, a release or neither: pages only
\* move between the pool and one pointer, a block of several pages as one.
ImplementsOwnership ==
    Ownership!Init /\ [][Ownership!Next \/ clashed']_(Ownership!vars)

----------------------------------------------------------------------------
(***************************************************************************)
(* What the proofs ask of the processes: pids that fit page_entry_t.pid,   *)
(* and a process 1 (idle, whose pid init_memory's entries carry) that      *)
(* never exits.                                                            *)
(***************************************************************************)
SteadyPids ==
    /\ Pids \subseteq 1..(TagMod - 1)
    /\ 1 \notin ExitPids

\* A live pointer refers to usable pages whose entries carry its owner's tag and
\* the links of one block.
HeldBlock(h) ==
    LET block == held[h] IN
    \A p \in PagesOf(block) :
        /\ p \in Pages \ BootReserved
        /\ page_table[p] = BlockEntry(p - block.start, block.size, Tag(block.pid))

\* The inductive invariant behind ownership: the entries of the live pointers,
\* their disjointness, and that what nobody holds is untouched or untagged.
BlockInv ==
    ~clashed =>
        /\ \A h \in Handles : HeldBlock(h)
        /\ NoOverlap
        /\ \A p \in Pages \ BootReserved :
            \/ page_table[p].used = 0 /\ page_table[p].pid = 0
            \/ \E h \in Handles : p \in PagesOf(held[h])
        /\ \A p \in BootReserved : page_table[p] = ReservedEntry

\* The loop of kfree_pid has left nothing of the exiting process behind it: it
\* meets each of its blocks at the first page.
LoopInv ==
    ~clashed => \A pid \in Pids : Looping(pid) =>
        \A h \in Handles :
            held[h] # Null /\ held[h].pid = pid => held[h].start >= kfree_loop[pid].i
==========================================================================
