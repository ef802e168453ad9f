---------------------------- MODULE PageTable ----------------------------
(***************************************************************************)
(* The physical page table of kernel/memory/mmanager.c: the entries        *)
(* init_memory, kmalloc, kumalloc and kfree write, and the searches and    *)
(* walks they make.  A table is a function from page numbers to entries.   *)
(* The permission bits (read, write, execute) are written and never read,  *)
(* and are left out.                                                       *)
(***************************************************************************)
EXTENDS Integers

CONSTANTS
    page_table_size,    \* max_address / 4096
    FirstPage,          \* 0x100000 / 4096, where every search starts
    BootReserved,       \* the pages init_memory marks as taken
    TagMod              \* 2^8: page_entry_t.pid is a uint8_t

\* Memory under 1MB and the table's own pages are never usable, so every page
\* below FirstPage is taken at boot and the table is longer than that.
ASSUME PageTableAssumption ==
    /\ page_table_size \in Nat
    /\ FirstPage \in 1..page_table_size
    /\ BootReserved \subseteq 0..(page_table_size - 1)
    /\ 0..(FirstPage - 1) \subseteq BootReserved
    /\ TagMod \in Nat /\ TagMod > 1

Pages == 0..(page_table_size - 1)

Bit == {0, 1}

Entry == [pid : 0..(TagMod - 1), used : Bit, unusable : Bit,
          linked_to_next : Bit, linked_to_last : Bit, reserved : Bit]

\* The conversion to the uint8_t field when kumalloc stores a process id.
Tag(pid) == pid % TagMod

(***************************************************************************)
(* init_memory's initialisers are positional and page_entry_t starts with  *)
(* the pid: {1,1,0,0,0,0,0,1} is pid 1, used, executable, with reserved    *)
(* left 0, and {0,0,0,0,1,1,1,0} is unused with linked_to_last set.        *)
(***************************************************************************)
ReservedEntry == [pid |-> 1, used |-> 1, unusable |-> 0,
                  linked_to_next |-> 0, linked_to_last |-> 0, reserved |-> 0]

FreeEntry == [pid |-> 0, used |-> 0, unusable |-> 0,
              linked_to_next |-> 0, linked_to_last |-> 1, reserved |-> 0]

\* (page_entry_t){0}, what kfree leaves behind.
ZeroEntry == [pid |-> 0, used |-> 0, unusable |-> 0,
              linked_to_next |-> 0, linked_to_last |-> 0, reserved |-> 0]

BootTable == [p \in Pages |-> IF p \in BootReserved THEN ReservedEntry ELSE FreeEntry]

(***************************************************************************)
(* check_free's loop condition `i + start < start + size' is `i < size',   *)
(* so it looks at the pages from start up to size - 1 and at none at all   *)
(* when start >= size.                                                     *)
(***************************************************************************)
check_free(table, start, size) ==
    \A i \in start..(size - 1) :
        table[i].used = 0 /\ table[i].unusable = 0 /\ table[i].reserved = 0

\* The pages at which kmalloc's search may stop for a request of this size.
Suits(table, i, size) ==
    /\ i \in FirstPage..(page_table_size - 1)
    /\ table[i].used = 0
    /\ table[i].unusable = 0
    /\ check_free(table, i, size)

\* Fault: the search goes on to the last page that suits.
FirstFit_last(table, i, size) ==
    Suits(table, i, size) /\ \A j \in (i + 1)..(page_table_size - 1) : ~Suits(table, j, size)

FirstFit(table, i, size) ==
    /\ Suits(table, i, size)
    /\ \A j \in FirstPage..(i - 1) : ~Suits(table, j, size)

\* Fault: the page before the last is not linked to it.
BlockEntry_short(offset, size, tag) ==
    [pid |-> tag, used |-> 1, unusable |-> 0,
     linked_to_next |-> IF offset < size - 2 THEN 1 ELSE 0,
     linked_to_last |-> IF offset > 0 THEN 1 ELSE 0,
     reserved |-> 0]

\* The entry kmalloc writes for page number `offset' of a block.
BlockEntry(offset, size, tag) ==
    [pid |-> tag, used |-> 1, unusable |-> 0,
     linked_to_next |-> IF offset < size - 1 THEN 1 ELSE 0,
     linked_to_last |-> IF offset > 0 THEN 1 ELSE 0,
     reserved |-> 0]

\* The table after a block at page i is written; entries past the end of the
\* table are stores to other memory and do not show here.
Allocated(table, i, size, tag) ==
    [p \in Pages |-> IF p \in i..(i + size - 1) THEN BlockEntry(p - i, size, tag)
                                                ELSE table[p]]

\* kfree walks back while linked_to_last to the head of the block...
BlockHead(table, page) ==
    CHOOSE h \in 0..page :
        /\ table[h].linked_to_last = 0
        /\ \A j \in (h + 1)..page : table[j].linked_to_last = 1

\* Fault: the do loop clears one entry too many.
Chain_long(table, page) ==
    BlockHead(table, page)..(BlockHead(table, page) + 1) \cap Pages

\* ... and clears entries from there up to the first without linked_to_next.
Chain(table, page) ==
    LET head == BlockHead(table, page) IN
    {j \in head..(page_table_size - 1) : \A k \in head..(j - 1) : table[k].linked_to_next = 1}

\* Fault: only the owner's tag is cleared.
Freed_untagged(table, page) ==
    [p \in Pages |-> IF p \in Chain(table, page) THEN [table[p] EXCEPT !.pid = 0] ELSE table[p]]

Freed(table, page) ==
    LET chain == Chain(table, page) IN
    [p \in Pages |-> IF p \in chain THEN ZeroEntry ELSE table[p]]
==========================================================================
