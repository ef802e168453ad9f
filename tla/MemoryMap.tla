---------------------------- MODULE MemoryMap ----------------------------
(***************************************************************************)
(* How the page table comes to be: get_mmap of the boot loader collects    *)
(* the BIOS memory map, init_memory of kernel/memory/mmanager.c checks its *)
(* order and walks it page by page, and boot allocates from the result     *)
(* without freeing anything.                                               *)
(*                                                                         *)
(* An address is a number of units, PageUnits to a page, so that a region  *)
(* can end inside a page.  Addresses are 32 bits wide (AddressMod), and    *)
(* init_memory compares them as ints.                                      *)
(***************************************************************************)
EXTENDS Integers, Sequences

CONSTANTS
    PageUnits,        \* 4096
    AddressMod,       \* 2^32
    FirstPage,        \* 0x100000 / 4096, where the table is put
    EntriesPerUnit,   \* the entries of the table (2 bytes each) in a unit of memory
    TagMod,           \* 2^8: page_entry_t.pid is a uint8_t
    RamPages,         \* the highest page the BIOS reports memory in
    MaxEntries,       \* how long a map the BIOS returns
    Handles,          \* the pointers boot keeps
    Sizes             \* the sizes it asks for, in pages

\* No block boot asks for is larger than the number of the first page that can be free:
\* page FirstPage is the table's.
ASSUME MemoryMapAssumption ==
    /\ PageUnits \in Nat \ {0} /\ EntriesPerUnit \in Nat \ {0}
    /\ RamPages \in Nat /\ FirstPage \in 1..RamPages
    /\ AddressMod \in Nat /\ AddressMod % 2 = 0 /\ AddressMod > 2 * PageUnits * RamPages
    /\ MaxEntries \in Nat
    /\ Sizes \subseteq 1..(FirstPage + 1)

VARIABLES
    stage,         \* "e820", "init_memory", "ready" or "halted"
    mmap,          \* the entries the loader has stored
    asked,         \* whether the BIOS has answered
    i,             \* init_memory's locals: the page it is at ...
    current_ent,   \* ... and the entry it takes that page to be in
    page_table,
    held           \* the block each pointer of boot refers to

vars == <<stage, mmap, asked, i, current_ent, page_table, held>>

Usable == 1

\* What the fields of mmap_entry_t hold of a region, and the bytes after the list.
NoEntry == [base |-> 0, length |-> 0, type |-> 0]

\* A 32-bit sum, and its value as an int.
Limit(e) == (e.base + e.length) % AddressMod

Signed(address) == IF address < AddressMod \div 2 THEN address ELSE address - AddressMod

LowLimit == FirstPage * PageUnits

Null == [start |-> 0, size |-> 0]

Init ==
    /\ stage = "e820"
    /\ mmap = <<>>
    /\ asked = FALSE
    /\ i = 0
    /\ current_ent = 0
    /\ page_table = <<>>
    /\ held = [h \in Handles |-> Null]

----------------------------------------------------------------------------
(***************************************************************************)
(* The BIOS.  Regions that begin and end anywhere, with holes between      *)
(* them, and the ROM at the end of the address space, whose limit wraps to *)
(* 0.  Below 1MB they are of any extent, above it a page long at least.    *)
(* `present' is the attribute bit, `high' whether the upper half of the    *)
(* length is not 0.                                                        *)
(***************************************************************************)
Boundary == 0..(RamPages * PageUnits)

Rom == [base |-> AddressMod - PageUnits, length |-> PageUnits, type |-> 2,
        present |-> TRUE, high |-> FALSE]

\* A region above 4GB: init_memory sees the lower halves only.
Above4G == [base |-> 0, length |-> 0, type |-> 2, present |-> TRUE, high |-> TRUE]

Region(a, b, type) ==
    [base |-> a, length |-> b - a, type |-> type, present |-> TRUE, high |-> FALSE]

\* What the next answer may be.
End(list) == IF list = <<>> THEN 0 ELSE Limit(list[Len(list)])

InOrder ==
    {r \in {Region(a, b, t) : a \in Boundary, b \in Boundary, t \in {Usable, 2}} :
        /\ r.base >= End(mmap) /\ r.length > 0
        /\ r.base + r.length > LowLimit => r.length >= PageUnits}

\* Answers the loader or init_memory is to refuse: absent, empty and out of order.
Odd ==
    {[Region(0, RamPages * PageUnits, Usable) EXCEPT !.present = FALSE],
     Region(0, 0, Usable)}
    \cup {Region(0, b, Usable) : b \in {c \in {PageUnits, RamPages * PageUnits} : End(mmap) > 0}}

\* The ROM is the end of the map but for a region above 4GB.
Answers ==
    IF mmap # <<>> /\ End(mmap) = 0 THEN {Above4G}
    ELSE InOrder \cup Odd \cup (IF mmap # <<>> THEN {Rom} ELSE {})

max_address(list) ==
    LET limits == {0} \cup {Limit(list[j]) : j \in 1..Len(list)} IN
    CHOOSE a \in limits : \A b \in limits : b <= a

TableSize(list) == max_address(list) \div PageUnits

\* Page p is below 1MB or in the table itself.
UnderTable(list, p) == (p * PageUnits - LowLimit) * EntriesPerUnit < TableSize(list)

\* What a complete list looks like: its last entry is in order, and 1MB is in a usable
\* region that reaches past the table, with no more regions in front of it than the
\* table has pages, and one.
Complete(list) ==
    LET n == Len(list) IN
    /\ n > 1 => list[n].base >= Limit(list[n - 1]) \/ list[n].length = 0
    /\ \E j \in 1..n :
        /\ list[j].type = Usable
        /\ LowLimit \in list[j].base..Limit(list[j])
        /\ \E p \in FirstPage..RamPages :
            ~UnderTable(list, p) /\ p * PageUnits < Limit(list[j])
        /\ \A p \in FirstPage..RamPages :
            ~UnderTable(list, p) => j - 2 <= p - FirstPage

----------------------------------------------------------------------------
\* The loader stores an entry unless its attribute bit is clear or its length is 0.
Stored(e) ==
    IF e.present /\ (e.length # 0 \/ e.high)
    THEN Append(mmap, [base |-> e.base, length |-> e.length, type |-> e.type])
    ELSE mmap

\* An answer with a continuation value, and the last one; a list of one is refused.
get_mmap(e) ==
    /\ stage = "e820"
    /\ Len(mmap) < MaxEntries
    /\ asked' = TRUE
    /\ \/ mmap' = Stored(e) /\ UNCHANGED stage
       \/ IF ~asked
          THEN stage' = "halted" /\ UNCHANGED mmap
          ELSE mmap' = Stored(e) /\ Complete(mmap') /\ stage' = "init_memory"
    /\ UNCHANGED <<i, current_ent, page_table, held>>

\* The carry flag: there is no such service, or the list has ended.
get_mmap_carry ==
    /\ stage = "e820"
    /\ asked => Complete(mmap)
    /\ stage' = IF ~asked THEN "halted" ELSE "init_memory"
    /\ UNCHANGED <<mmap, asked, i, current_ent, page_table, held>>

----------------------------------------------------------------------------
page_table_size == TableSize(mmap)

InUsableRegion(p) ==
    \E j \in 1..Len(mmap) :
        /\ mmap[j].type = Usable
        /\ mmap[j].base <= p * PageUnits
        /\ (p + 1) * PageUnits <= mmap[j].base + mmap[j].length

\* Page p begins inside a region that is not usable.
BeginsReserved(p) ==
    \E j \in 1..Len(mmap) :
        /\ mmap[j].type # Usable
        /\ mmap[j].base <= p * PageUnits
        /\ p * PageUnits < mmap[j].base + mmap[j].length

\* What init_memory may reserve: all but the whole pages of usable regions that lie
\* above the table.
BootReserved == {p \in 0..(page_table_size - 1) : UnderTable(mmap, p) \/ ~InUsableRegion(p)}

PT == INSTANCE PageTable

\* Fault: the order of the entries is not looked at.
check_sorted_never == 0

\* The first entry that begins inside the one before it; the last is not looked at.
check_sorted ==
    LET bad == {j \in 1..(Len(mmap) - 2) : mmap[j + 1].base < Limit(mmap[j])} IN
    IF bad = {} THEN 0 ELSE CHOOSE j \in bad : \A k \in bad : j <= k

sort_mmap ==
    /\ stage = "init_memory" /\ i = 0
    /\ check_sorted # 0
    /\ stage' = "halted"
    /\ UNCHANGED <<mmap, asked, i, current_ent, page_table, held>>

EntryAt(n) == IF n < Len(mmap) THEN mmap[n + 1] ELSE NoEntry

\* Fault: the entry is left one page late.
NextEnt_late ==
    current_ent + (IF i * PageUnits > Signed(Limit(EntryAt(current_ent))) THEN 1 ELSE 0)

\* Fault: the entry is left one page early.
NextEnt_early ==
    current_ent + (IF (i + 1) * PageUnits >= Signed(Limit(EntryAt(current_ent))) THEN 1 ELSE 0)

\* The loop leaves an entry when the page begins at or after its end, one entry for
\* each page at most.
NextEnt ==
    current_ent + (IF i * PageUnits >= Signed(Limit(EntryAt(current_ent))) THEN 1 ELSE 0)

\* The end of the entry the turn began with, which the code calls the last one's.
last_entry_max_address ==
    Signed((EntryAt(current_ent).base
              + (IF current_ent # 0 THEN EntryAt(current_ent).length ELSE 0)) % AddressMod)

Reserve ==
    \/ i * PageUnits < EntryAt(NextEnt).base /\ i * PageUnits > last_entry_max_address
    \/ UnderTable(mmap, i)
    \/ EntryAt(NextEnt).type # Usable

\* One turn of init_memory's loop over the pages, and its end.
init_memory ==
    /\ stage = "init_memory"
    /\ i = 0 => check_sorted = 0
    /\ \/ /\ i < page_table_size
          /\ current_ent' = NextEnt
          /\ page_table' = [p \in 0..i |->
                                IF p < i THEN page_table[p]
                                ELSE IF Reserve THEN PT!ReservedEntry ELSE PT!FreeEntry]
          /\ i' = i + 1
          /\ UNCHANGED stage
       \/ /\ i = page_table_size
          /\ stage' = "ready"
          /\ UNCHANGED <<current_ent, page_table, i>>
    /\ UNCHANGED <<mmap, asked, held>>

\* kmalloc for one of boot's pointers; 0 when no page suits.
kmalloc(h, size) ==
    /\ stage = "ready"
    /\ held[h] = Null
    /\ \E p \in PT!Pages :
        /\ PT!FirstFit(page_table, p, size)
        /\ page_table' = PT!Allocated(page_table, p, size, 0)
        /\ held' = [held EXCEPT ![h] = [start |-> p, size |-> size]]
    /\ UNCHANGED <<stage, mmap, asked, i, current_ent>>

Next ==
    \/ \E e \in Answers : get_mmap(e)
    \/ get_mmap_carry
    \/ sort_mmap
    \/ init_memory
    \/ \E h \in Handles, size \in Sizes : kmalloc(h, size)

Spec == Init /\ [][Next]_vars

----------------------------------------------------------------------------
\* A page that init_memory leaves free, and so hands out, is not one the BIOS has
\* reported as taken: it is clear of the table and does not begin inside a region that
\* is not usable.  The walk is behind the map when several regions end inside one page,
\* and has caught up before the first free page.  (It may lie in a hole of the map, and
\* its end in the next region: the loop looks at neither.)
FreeIsNotReserved ==
    \A p \in 0..(i - 1) :
        page_table[p].used = 0 => ~UnderTable(mmap, p) /\ ~BeginsReserved(p)

\* No memory is lost: every whole page of a usable region above the table is free
\* until kmalloc takes it.
UsableIsFree ==
    \A p \in 0..(i - 1) :
        page_table[p].used = 1 => \/ p \in BootReserved
                       \/ \E h \in Handles : p \in held[h].start..(held[h].start + held[h].size - 1)

\* init_memory's entry number never runs past the map, so it reads no entry the BIOS
\* did not return.
WalkStaysInMap == stage = "init_memory" /\ i > 0 => current_ent < Len(mmap)

\* Before the first kfree the free pages are the top of the usable memory: kmalloc
\* hands it out from the bottom up, whatever sizes are asked for, and leaves no free
\* page under a taken one.
FreeIsTop ==
    stage = "ready" =>
        \A p, q \in PT!Pages \ BootReserved :
            p < q /\ page_table[p].used = 0 => page_table[q].used = 0
==========================================================================
