----------------------- MODULE MemoryManagerProofs -----------------------
(***************************************************************************)
(* Theorems about MemoryManager for every table, set of callers and        *)
(* process ids.                                                            *)
(***************************************************************************)
EXTENDS MemoryManager, PageTableProofs

USE DEF Pages, Bit

----------------------------------------------------------------------------
LEMMA InitType == Init => TypeOK
  <1> SUFFICES ASSUME Init PROVE TypeOK
    OBVIOUS
  <1>1. BootTable \in [Pages -> Entry]
    BY PageTableAssumption DEF BootTable, ReservedEntry, FreeEntry, Entry
  <1>2. NoLoop \in [i : FirstPage..page_table_size, num : 0..(NumMod - 1)]
    BY PageTableAssumption, MemoryManagerAssumption DEF NoLoop
  <1> QED BY <1>1, <1>2 DEF Init, TypeOK

LEMMA AllocateType ==
    ASSUME TypeOK, NEW h \in Handles, NEW size \in Sizes,
           NEW pid \in Pids \cup {KernelPid}, Allocate(h, size, pid)
    PROVE  TypeOK'
  <1>1. pid \in Nat /\ size \in Nat
    BY MemoryManagerAssumption DEF KernelPid
  <1>2. CASE \E i \in Pages :
            /\ FirstFit(page_table, i, size)
            /\ page_table' = Allocated(page_table, i, size, Tag(pid))
            /\ held' = [held EXCEPT ![h] = [start |-> i, size |-> size, pid |-> pid]]
            /\ clashed' = (clashed \/ ~AllFree(i, size))
    <2> PICK i \in Pages :
            /\ page_table' = Allocated(page_table, i, size, Tag(pid))
            /\ held' = [held EXCEPT ![h] = [start |-> i, size |-> size, pid |-> pid]]
            /\ clashed' = (clashed \/ ~AllFree(i, size))
      BY <1>2
    <2>1. page_table' \in [Pages -> Entry]
      BY <1>1, TagType, AllocatedType DEF TypeOK
    <2>2. held' \in [Handles -> Block \cup {Null}]
      BY DEF TypeOK, Block
    <2>3. clashed' \in BOOLEAN
      BY DEF TypeOK
    <2> QED BY <2>1, <2>2, <2>3 DEF TypeOK, Allocate
  <1>3. CASE UNCHANGED <<page_table, held, clashed>>
    BY <1>3 DEF TypeOK, Allocate
  <1> QED BY <1>2, <1>3 DEF Allocate

LEMMA NextTurnType ==
    ASSUME NEW loop \in [i : FirstPage..page_table_size, num : 0..(NumMod - 1)],
           loop.i < page_table_size, NEW num \in 0..(NumMod - 1)
    PROVE  NextTurn(loop, num) \in [i : FirstPage..page_table_size, num : 0..(NumMod - 1)]
  BY PageTableAssumption, MemoryManagerAssumption DEF NextTurn, NoLoop

LEMMA NextType == TypeOK /\ [Next]_vars => TypeOK'
  <1> SUFFICES ASSUME TypeOK, [Next]_vars PROVE TypeOK'
    OBVIOUS
  <1>1. ASSUME NEW h \in Handles, NEW size \in Sizes, kmalloc(h, size) PROVE TypeOK'
    BY <1>1, AllocateType DEF kmalloc
  <1>2. ASSUME NEW h \in Handles, NEW size \in Sizes, NEW pid \in Pids,
               kumalloc(h, size, pid)
        PROVE  TypeOK'
    BY <1>2, AllocateType DEF kumalloc
  <1>3. ASSUME NEW h \in Handles, kfree(h) PROVE TypeOK'
    <2>1. held[h].start \in Pages
      BY <1>3 DEF kfree, TypeOK, Block
    <2>2. page_table' \in [Pages -> Entry]
      BY <1>3, <2>1, FreedType DEF kfree, TypeOK
    <2> QED BY <1>3, <2>2 DEF kfree, TypeOK
  <1>4. ASSUME NEW pid \in ExitPids, NEW n \in Counts, kfree_pid(pid, n) PROVE TypeOK'
    BY <1>4, PageTableAssumption, MemoryManagerAssumption DEF kfree_pid, TypeOK
  <1>5. ASSUME NEW pid \in ExitPids, kfree_pid_turn(pid) PROVE TypeOK'
    <2> DEFINE loop == kfree_loop[pid]
    <2>1. pid \in Pids /\ loop \in [i : FirstPage..page_table_size, num : 0..(NumMod - 1)]
      BY MemoryManagerAssumption DEF TypeOK
    <2>2. loop.i \in Pages /\ loop.i < page_table_size
      BY <1>5, <2>1, PageTableAssumption DEF kfree_pid_turn, Looping
    <2>3. CASE page_table[loop.i].pid = pid
      <3>1. (loop.num - 1) % NumMod \in 0..(NumMod - 1)
        BY <2>1, MemoryManagerAssumption, PageTableAssumption
      <3>2. page_table' \in [Pages -> Entry]
        BY <1>5, <2>2, <2>3, FreedType DEF kfree_pid_turn, TypeOK
      <3>3. held' \in [Handles -> Block \cup {Null}]
        BY <1>5, <2>3 DEF kfree_pid_turn, TypeOK
      <3>4. kfree_loop' = [kfree_loop EXCEPT
                              ![pid] = NextTurn(loop, (loop.num - 1) % NumMod)]
        BY <1>5, <2>3 DEF kfree_pid_turn
      <3>5. clashed' \in BOOLEAN
        BY <1>5 DEF kfree_pid_turn, TypeOK
      <3> QED BY <2>1, <2>2, <3>1, <3>2, <3>3, <3>4, <3>5, NextTurnType DEF TypeOK
    <2>4. CASE page_table[loop.i].pid # pid
      <3>1. kfree_loop' = [kfree_loop EXCEPT ![pid] = NextTurn(loop, loop.num)]
        BY <1>5, <2>4 DEF kfree_pid_turn
      <3> QED BY <1>5, <2>1, <2>2, <2>4, <3>1, NextTurnType DEF kfree_pid_turn, TypeOK
    <2> QED BY <2>3, <2>4
  <1>6. CASE UNCHANGED vars
    BY <1>6 DEF vars, TypeOK
  <1> QED BY <1>1, <1>2, <1>3, <1>4, <1>5, <1>6 DEF Next

\* The table, the callers' pointers and the loop counters of kfree_pid keep
\* their types in every run of the memory manager.
THEOREM TypeCorrect == Spec => []TypeOK
  BY InitType, NextType, PTL DEF Spec

----------------------------------------------------------------------------
\* What BlockInv says of one live pointer before a clash.
LEMMA HeldRange ==
    ASSUME TypeOK, BlockInv, ~clashed, NEW h \in Handles, held[h] # Null
    PROVE  /\ held[h].start \in FirstPage..(page_table_size - 1)
           /\ held[h].size \in Nat \ {0}
           /\ held[h].start + held[h].size - 1 \in Pages
           /\ held[h].start \in PagesOf(held[h])
           /\ held[h].pid \in Pids \cup {0}
  <1>1. held[h] \in Block
    BY DEF TypeOK
  <1>2. /\ held[h].start \in Pages /\ held[h].size \in Nat \ {0}
        /\ held[h].pid \in Pids \cup {0}
    BY <1>1, MemoryManagerAssumption DEF Block, KernelPid
  <1>3. /\ held[h].start \in PagesOf(held[h])
        /\ held[h].start + held[h].size - 1 \in PagesOf(held[h])
    BY <1>2, PageTableAssumption DEF PagesOf
  <1>4. \A p \in PagesOf(held[h]) : p \in Pages \ BootReserved
    BY DEF BlockInv, HeldBlock
  <1> QED BY <1>2, <1>3, <1>4, PageTableAssumption

LEMMA NullPages == PagesOf(Null) = {}
  BY DEF PagesOf, Null

\* A page has one owner.
LEMMA OneOwner ==
    ASSUME BlockInv, ~clashed, NEW g \in Handles, NEW h \in Handles, NEW p,
           p \in PagesOf(held[g]), p \in PagesOf(held[h])
    PROVE  g = h
  BY DEF BlockInv, NoOverlap

LEMMA InitBlock == Init => BlockInv
  <1> SUFFICES ASSUME Init PROVE BlockInv
    OBVIOUS
  <1>1. \A p \in BootReserved : page_table[p] = ReservedEntry
    BY PageTableAssumption DEF Init, BootTable
  <1>2. \A p \in Pages \ BootReserved : page_table[p].used = 0 /\ page_table[p].pid = 0
    BY DEF Init, BootTable, FreeEntry
  <1>3. \A h \in Handles : PagesOf(held[h]) = {}
    BY NullPages DEF Init
  <1> QED BY <1>1, <1>2, <1>3 DEF BlockInv, HeldBlock, NoOverlap

\* A grant out of free pages: what it takes was nobody's and is the pointer's now.
LEMMA GrantPages ==
    ASSUME TypeOK, BlockInv, ~clashed, NEW h \in Handles, NEW size \in Sizes, NEW pid,
           held[h] = Null, NEW i \in Pages, AllFree(i, size),
           held' = [held EXCEPT ![h] = [start |-> i, size |-> size, pid |-> pid]]
    PROVE  /\ held'[h] = [start |-> i, size |-> size, pid |-> pid]
           /\ PagesOf(held'[h]) = i..(i + size - 1)
           /\ PagesOf(held'[h]) \subseteq Pages \ BootReserved
           /\ \A g \in Handles \ {h} : held'[g] = held[g]
           /\ \A g \in Handles : PagesOf(held[g]) \cap PagesOf(held'[h]) = {}
  <1>1. /\ held'[h] = [start |-> i, size |-> size, pid |-> pid]
        /\ \A g \in Handles \ {h} : held'[g] = held[g]
    BY DEF TypeOK
  <1>2. PagesOf(held'[h]) = i..(i + size - 1)
    BY <1>1 DEF PagesOf
  <1>3. \A p \in PagesOf(held'[h]) : p \in Pages /\ page_table[p].used = 0
    BY <1>2 DEF AllFree
  <1>4. \A p \in PagesOf(held'[h]) : p \notin BootReserved
    BY <1>3 DEF BlockInv, ReservedEntry
  <1>5. ASSUME NEW g \in Handles, NEW p \in PagesOf(held[g]) PROVE page_table[p].used = 1
    <2>1. page_table[p] = BlockEntry(p - held[g].start, held[g].size, Tag(held[g].pid))
      BY <1>5 DEF BlockInv, HeldBlock
    <2> QED BY <2>1 DEF BlockEntry
  <1> QED BY <1>1, <1>2, <1>3, <1>4, <1>5

LEMMA AllocateBlock ==
    ASSUME TypeOK, BlockInv, NEW h \in Handles, NEW size \in Sizes,
           NEW pid \in Pids \cup {KernelPid}, Allocate(h, size, pid)
    PROVE  BlockInv'
  <1> SUFFICES ASSUME ~clashed' PROVE BlockInv'
    BY DEF BlockInv
  <1>0. ~clashed
    BY DEF Allocate, TypeOK
  <1>1. CASE UNCHANGED <<page_table, held, clashed>>
    BY <1>1 DEF BlockInv, HeldBlock, NoOverlap, PagesOf
  <1>2. CASE \E i \in Pages :
            /\ FirstFit(page_table, i, size)
            /\ page_table' = Allocated(page_table, i, size, Tag(pid))
            /\ held' = [held EXCEPT ![h] = [start |-> i, size |-> size, pid |-> pid]]
            /\ clashed' = (clashed \/ ~AllFree(i, size))
    <2> PICK i \in Pages :
            /\ page_table' = Allocated(page_table, i, size, Tag(pid))
            /\ held' = [held EXCEPT ![h] = [start |-> i, size |-> size, pid |-> pid]]
            /\ clashed' = (clashed \/ ~AllFree(i, size))
      BY <1>2
    <2>1. AllFree(i, size) /\ held[h] = Null
      BY <1>0 DEF Allocate, TypeOK
    <2> DEFINE S == PagesOf(held'[h])
    <2>2. /\ held'[h] = [start |-> i, size |-> size, pid |-> pid]
          /\ S = i..(i + size - 1)
          /\ S \subseteq Pages \ BootReserved
          /\ \A g \in Handles \ {h} : held'[g] = held[g]
          /\ \A g \in Handles : PagesOf(held[g]) \cap S = {}
      BY <1>0, <2>1, GrantPages
    <2>3. \A p \in Pages : page_table'[p] = IF p \in S THEN BlockEntry(p - i, size, Tag(pid))
                                                       ELSE page_table[p]
      BY <2>2 DEF Allocated
    <2>4. ASSUME NEW g \in Handles PROVE HeldBlock(g)'
      <3>1. CASE g = h
        <4>1. \A p \in S : page_table'[p] = BlockEntry(p - held'[g].start, held'[g].size,
                                                       Tag(held'[g].pid))
          BY <2>2, <2>3, <3>1
        <4> QED BY <2>2, <3>1, <4>1 DEF HeldBlock
      <3>2. CASE g # h
        <4>1. HeldBlock(g) /\ held'[g] = held[g] /\ PagesOf(held[g]) \cap S = {}
          BY <1>0, <2>2, <3>2 DEF BlockInv
        <4>2. \A p \in PagesOf(held[g]) : p \in Pages \ BootReserved /\ page_table'[p] = page_table[p]
          BY <2>3, <4>1 DEF HeldBlock
        <4> QED BY <4>1, <4>2 DEF HeldBlock
      <3> QED BY <3>1, <3>2
    <2>5. NoOverlap'
      <3>1. \A g, k \in Handles : g # k => PagesOf(held[g]) \cap PagesOf(held[k]) = {}
        BY <1>0 DEF BlockInv, NoOverlap
      <3>2. \A g \in Handles : PagesOf(held'[g]) = IF g = h THEN S ELSE PagesOf(held[g])
        BY <2>2
      <3>3. \A g, k \in Handles : g # k => PagesOf(held'[g]) \cap PagesOf(held'[k]) = {}
        BY <2>2, <3>1, <3>2
      <3> QED BY <3>3 DEF NoOverlap, PagesOf
    <2>6. ASSUME NEW p \in Pages \ BootReserved
          PROVE  \/ page_table'[p].used = 0 /\ page_table'[p].pid = 0
                 \/ \E g \in Handles : p \in PagesOf(held'[g])
      <3>1. CASE p \in S
        BY <3>1
      <3>2. CASE p \notin S /\ page_table[p].used = 0 /\ page_table[p].pid = 0
        BY <2>3, <3>2
      <3>3. CASE \E g \in Handles : p \in PagesOf(held[g])
        <4>1. PICK g \in Handles : p \in PagesOf(held[g])
          BY <3>3
        <4>2. g # h
          BY <2>1, <4>1, NullPages
        <4> QED BY <2>2, <4>1, <4>2
      <3> QED BY <1>0, <3>1, <3>2, <3>3 DEF BlockInv
    <2>7. \A p \in BootReserved : page_table'[p] = ReservedEntry
      BY <1>0, <2>2, <2>3, PageTableAssumption DEF BlockInv
    <2> QED BY <2>4, <2>5, <2>6, <2>7 DEF BlockInv, PagesOf
  <1> QED BY <1>1, <1>2 DEF Allocate

\* The step kfree and kfree_pid have in common: the pages of one live pointer are
\* cleared together with the pointer.
Released(h) ==
    /\ page_table' = [p \in Pages |-> IF p \in PagesOf(held[h]) THEN ZeroEntry ELSE page_table[p]]
    /\ held' = [held EXCEPT ![h] = Null]

LEMMA ReleasedPages ==
    ASSUME TypeOK, NEW h \in Handles, Released(h)
    PROVE  /\ \A g \in Handles \ {h} : held'[g] = held[g]
           /\ held'[h] = Null
           /\ PagesOf(held'[h]) = {}
           /\ \A p \in Pages : page_table'[p] = IF p \in PagesOf(held[h]) THEN ZeroEntry
                                                                         ELSE page_table[p]
  <1>1. held'[h] = Null /\ \A g \in Handles \ {h} : held'[g] = held[g]
    BY DEF Released, TypeOK
  <1> QED BY <1>1, NullPages DEF Released

LEMMA ReleaseBlock ==
    ASSUME TypeOK, BlockInv, ~clashed, NEW h \in Handles, Released(h)
    PROVE  BlockInv'
  <1> DEFINE S == PagesOf(held[h])
  <1>1. /\ \A g \in Handles \ {h} : held'[g] = held[g]
        /\ PagesOf(held'[h]) = {}
        /\ \A p \in Pages : page_table'[p] = IF p \in S THEN ZeroEntry ELSE page_table[p]
    BY ReleasedPages
  <1>2. \A g \in Handles \ {h} : PagesOf(held[g]) \cap S = {}
    BY OneOwner
  <1>3. \A p \in S : p \notin BootReserved
    BY DEF BlockInv, HeldBlock
  <1>4. ASSUME NEW g \in Handles PROVE HeldBlock(g)'
    <2>1. CASE g = h
      BY <1>1, <2>1 DEF HeldBlock
    <2>2. CASE g # h
      <3>1. HeldBlock(g) /\ held'[g] = held[g] /\ PagesOf(held[g]) \cap S = {}
        BY <1>1, <1>2, <2>2 DEF BlockInv
      <3>2. \A p \in PagesOf(held[g]) : p \in Pages \ BootReserved /\ page_table'[p] = page_table[p]
        BY <1>1, <3>1 DEF HeldBlock
      <3> QED BY <3>1, <3>2 DEF HeldBlock
    <2> QED BY <2>1, <2>2
  <1>5. NoOverlap'
    <2>1. \A g, k \in Handles : g # k => PagesOf(held[g]) \cap PagesOf(held[k]) = {}
      BY DEF BlockInv, NoOverlap
    <2>2. \A g \in Handles : PagesOf(held'[g]) = IF g = h THEN {} ELSE PagesOf(held[g])
      BY <1>1
    <2>3. \A g, k \in Handles : g # k => PagesOf(held'[g]) \cap PagesOf(held'[k]) = {}
      BY <2>1, <2>2
    <2> QED BY <2>3 DEF NoOverlap, PagesOf
  <1>6. ASSUME NEW p \in Pages \ BootReserved
        PROVE  \/ page_table'[p].used = 0 /\ page_table'[p].pid = 0
               \/ \E g \in Handles : p \in PagesOf(held'[g])
    <2>1. CASE p \in S
      BY <1>1, <2>1 DEF ZeroEntry
    <2>2. CASE p \notin S /\ page_table[p].used = 0 /\ page_table[p].pid = 0
      BY <1>1, <2>2
    <2>3. CASE p \notin S /\ \E g \in Handles : p \in PagesOf(held[g])
      <3>1. PICK g \in Handles : p \in PagesOf(held[g])
        BY <2>3
      <3>2. g # h
        BY <2>3, <3>1
      <3> QED BY <1>1, <3>1, <3>2
    <2> QED BY <2>1, <2>2, <2>3 DEF BlockInv
  <1>7. \A p \in BootReserved : page_table'[p] = ReservedEntry
    BY <1>1, <1>3, PageTableAssumption DEF BlockInv
  <1> QED BY <1>4, <1>5, <1>6, <1>7 DEF BlockInv, PagesOf

\* kfree clears exactly the block of the pointer it is given.
LEMMA HeldChain ==
    ASSUME TypeOK, BlockInv, ~clashed, NEW h \in Handles, held[h] # Null
    PROVE  Chain(page_table, held[h].start) = PagesOf(held[h])
  <1>1. /\ held[h].start \in Pages /\ held[h].size \in Nat \ {0}
        /\ held[h].start + held[h].size - 1 \in Pages
    BY HeldRange, PageTableAssumption
  <1>2. \A p \in held[h].start..(held[h].start + held[h].size - 1) :
            page_table[p] = BlockEntry(p - held[h].start, held[h].size, Tag(held[h].pid))
    BY DEF BlockInv, HeldBlock, PagesOf
  <1>3. page_table \in [Pages -> Entry]
    BY DEF TypeOK
  <1> DEFINE s == held[h].start
             n == held[h].size
             t == Tag(held[h].pid)
  <1>4. /\ s \in Pages /\ n \in Nat \ {0} /\ s + n - 1 \in Pages
        /\ \A p \in s..(s + n - 1) : page_table[p] = BlockEntry(p - s, n, t)
    BY <1>1, <1>2
  <1> HIDE DEF s, n, t
  <1>5. Chain(page_table, s) = s..(s + n - 1)
    BY <1>3, <1>4, ChainBlock
  <1> QED BY <1>5 DEF PagesOf, s, n

LEMMA KfreeReleases ==
    ASSUME TypeOK, BlockInv, ~clashed, NEW h \in Handles, kfree(h)
    PROVE  Released(h)
  <1>1. Chain(page_table, held[h].start) = PagesOf(held[h])
    BY HeldChain DEF kfree
  <1> QED BY <1>1 DEF kfree, Released, Freed

\* A turn of kfree_pid that meets its pid has met the first page of a block of the
\* exiting process: boot pages carry tag 1, free pages tag 0, pids that fit the
\* field have distinct tags, and the loop has left no such block behind it.
LEMMA TurnFindsOwner ==
    ASSUME SteadyPids, TypeOK, BlockInv, LoopInv, ~clashed, NEW pid \in ExitPids,
           Looping(pid), NEW page \in Pages, page = kfree_loop[pid].i,
           page_table[page].pid = pid
    PROVE  \E h \in Handles : held[h] # Null /\ held[h].start = page /\ held[h].pid = pid
  <1>1. pid \in 1..(TagMod - 1) /\ pid # 1 /\ pid \in Pids
    BY MemoryManagerAssumption DEF SteadyPids
  <1>2. page \notin BootReserved
    BY <1>1 DEF BlockInv, ReservedEntry
  <1>3. PICK h \in Handles : page \in PagesOf(held[h])
    BY <1>1, <1>2 DEF BlockInv
  <1>4. held[h] # Null
    BY <1>3, NullPages
  <1>5. /\ held[h].start \in FirstPage..(page_table_size - 1)
        /\ held[h].pid \in Pids \cup {0}
    BY <1>4, HeldRange
  <1>6. held[h].pid \in 0..(TagMod - 1)
    <2>1. \A q \in Pids \cup {0} : q \in 0..(TagMod - 1)
      BY PageTableAssumption DEF SteadyPids
    <2> QED BY <1>5, <2>1
  <1>7. page_table[page] = BlockEntry(page - held[h].start, held[h].size, Tag(held[h].pid))
    BY <1>3 DEF BlockInv, HeldBlock
  <1>8. Tag(held[h].pid) = pid
    BY <1>7 DEF BlockEntry
  <1>9. held[h].pid = pid
    BY <1>6, <1>8, TagOfSmall
  <1>10. held[h].start >= page
    BY <1>1, <1>4, <1>9, Zenon DEF LoopInv
  <1>11. held[h].start <= page
    BY <1>3, <1>5, PageTableAssumption DEF PagesOf
  <1>12. held[h].start = page
    BY <1>5, <1>10, <1>11, PageTableAssumption
  <1> QED BY <1>4, <1>9, <1>12

LEMMA TurnPage ==
    ASSUME TypeOK, NEW pid \in ExitPids, kfree_pid_turn(pid)
    PROVE  /\ pid \in Pids /\ pid # 0 /\ Looping(pid)
           /\ kfree_loop[pid].i \in Pages /\ kfree_loop[pid].i \in Int
  BY PageTableAssumption, MemoryManagerAssumption DEF kfree_pid_turn, Looping, TypeOK

\* What a turn of kfree_pid does to the table and the pointers.
LEMMA TurnStep ==
    ASSUME SteadyPids, TypeOK, BlockInv, LoopInv, ~clashed, NEW pid \in ExitPids,
           kfree_pid_turn(pid), page_table[kfree_loop[pid].i].pid = pid
    PROVE  \E h \in Handles :
               held[h] # Null /\ held[h].start = kfree_loop[pid].i /\ Released(h)
  <1> DEFINE page == kfree_loop[pid].i
  <1>1. /\ pid \in Pids /\ pid # 0 /\ Looping(pid)
        /\ page \in Pages /\ page \in Int
    BY TurnPage
  <1>2. PICK h \in Handles : held[h] # Null /\ held[h].start = page /\ held[h].pid = pid
    BY <1>1, TurnFindsOwner
  <1>3. Chain(page_table, page) = PagesOf(held[h])
    BY <1>2, HeldChain
  <1>4. page_table' = [p \in Pages |-> IF p \in PagesOf(held[h]) THEN ZeroEntry
                                                                ELSE page_table[p]]
    BY <1>3 DEF Freed, kfree_pid_turn
  <1>5. held' = [g \in Handles |-> IF held[g].pid = pid /\ held[g].start \in PagesOf(held[h])
                                    THEN Null ELSE held[g]]
    BY <1>3 DEF kfree_pid_turn
  <1>6. ASSUME NEW g \in Handles, held[g].pid = pid, held[g].start \in PagesOf(held[h])
        PROVE  g = h
    <2>1. held[g] # Null
      BY <1>1, <1>6 DEF Null, KernelPid
    <2>2. held[g].start \in PagesOf(held[g])
      BY <2>1, HeldRange
    <2> QED BY <1>6, <2>2, OneOwner
  <1>7. held[h].start \in PagesOf(held[h])
    BY <1>2, HeldRange
  <1>8. held' = [held EXCEPT ![h] = Null]
    <2>1. [held EXCEPT ![h] = Null] = [g \in Handles |-> IF g = h THEN Null ELSE held[g]]
      BY DEF TypeOK
    <2>2. \A g \in Handles :
            (IF held[g].pid = pid /\ held[g].start \in PagesOf(held[h]) THEN Null ELSE held[g])
              = (IF g = h THEN Null ELSE held[g])
      BY <1>2, <1>6, <1>7
    <2> QED BY <1>5, <2>1, <2>2
  <1> QED BY <1>2, <1>4, <1>8 DEF Released

\* A clash is never undone.
LEMMA ClashStays ==
    ASSUME TypeOK, [Next]_vars, ~clashed' PROVE ~clashed
  BY DEF TypeOK, Next, vars, kmalloc, kumalloc, Allocate, kfree, kfree_pid, kfree_pid_turn

LEMMA NextBlock ==
    ASSUME SteadyPids PROVE TypeOK /\ BlockInv /\ LoopInv /\ [Next]_vars => BlockInv'
  <1> SUFFICES ASSUME TypeOK, BlockInv, LoopInv, [Next]_vars, ~clashed' PROVE BlockInv'
    BY DEF BlockInv
  <1>0. ~clashed
    BY ClashStays
  <1>1. ASSUME NEW h \in Handles, NEW size \in Sizes, kmalloc(h, size) PROVE BlockInv'
    BY <1>1, AllocateBlock DEF kmalloc
  <1>2. ASSUME NEW h \in Handles, NEW size \in Sizes, NEW pid \in Pids,
               kumalloc(h, size, pid)
        PROVE  BlockInv'
    BY <1>2, AllocateBlock DEF kumalloc
  <1>3. ASSUME NEW h \in Handles, kfree(h) PROVE BlockInv'
    BY <1>0, <1>3, KfreeReleases, ReleaseBlock
  <1>4. ASSUME UNCHANGED <<page_table, held, clashed>> PROVE BlockInv'
    BY <1>4 DEF BlockInv, HeldBlock, NoOverlap, PagesOf
  <1>5. ASSUME NEW pid \in ExitPids, NEW n \in Counts, kfree_pid(pid, n) PROVE BlockInv'
    BY <1>4, <1>5 DEF kfree_pid
  <1>6. ASSUME NEW pid \in ExitPids, kfree_pid_turn(pid) PROVE BlockInv'
    <2>1. CASE page_table[kfree_loop[pid].i].pid = pid
      BY <1>0, <1>6, <2>1, TurnStep, ReleaseBlock
    <2>2. CASE page_table[kfree_loop[pid].i].pid # pid
      BY <1>4, <1>6, <2>2 DEF kfree_pid_turn
    <2> QED BY <2>1, <2>2
  <1>7. CASE UNCHANGED vars
    BY <1>4, <1>7 DEF vars
  <1> QED BY <1>1, <1>2, <1>3, <1>5, <1>6, <1>7 DEF Next

----------------------------------------------------------------------------
LEMMA AllocateLoop ==
    ASSUME TypeOK, LoopInv, NEW h \in Handles, NEW size \in Sizes,
           NEW pid \in Pids \cup {KernelPid}, Allocate(h, size, pid), ~clashed, ~clashed',
           pid \in Pids => ~Looping(pid)
    PROVE  LoopInv'
  <1>1. UNCHANGED kfree_loop
    BY DEF Allocate
  <1>2. CASE UNCHANGED held
    BY <1>1, <1>2 DEF LoopInv, Looping
  <1>3. CASE \E i \in Pages : held' = [held EXCEPT ![h] = [start |-> i, size |-> size, pid |-> pid]]
    <2> PICK i \in Pages : held' = [held EXCEPT ![h] = [start |-> i, size |-> size, pid |-> pid]]
      BY <1>3
    <2>1. \A g \in Handles : g # h => held'[g] = held[g]
      BY DEF TypeOK
    <2>2. held'[h].pid = pid
      BY DEF TypeOK
    <2> QED BY <1>1, <2>1, <2>2 DEF LoopInv, Looping
  <1> QED BY <1>2, <1>3 DEF Allocate

\* A turn that goes on has dealt with the page it looked at.
LEMMA TurnLoop ==
    ASSUME SteadyPids, TypeOK, BlockInv, LoopInv, ~clashed, NEW pid \in ExitPids,
           kfree_pid_turn(pid), NEW h \in Handles, held'[h] # Null, held'[h].pid = pid
    PROVE  held'[h] = held[h] /\ held[h].start > kfree_loop[pid].i
  <1> DEFINE loop == kfree_loop[pid]
  <1>1. pid \in Pids /\ Looping(pid) /\ loop.i \in Pages /\ loop.i \in Int
    BY TurnPage
  <1>2. CASE page_table[loop.i].pid = pid
    <2>1. PICK g \in Handles : held[g] # Null /\ held[g].start = loop.i /\ Released(g)
      BY <1>2, TurnStep
    <2>2. h # g /\ held'[h] = held[h]
      BY <2>1, ReleasedPages
    <2>3. held[h].start \in PagesOf(held[h]) /\ held[g].start \in PagesOf(held[g])
      BY <2>1, <2>2, HeldRange
    <2>4. held[h].start # loop.i
      BY <2>1, <2>2, <2>3, OneOwner
    <2>5. held[h].start \in Int /\ held[h].start >= loop.i
      BY <1>1, <2>2, HeldRange, PageTableAssumption DEF LoopInv
    <2> QED BY <1>1, <2>2, <2>4, <2>5
  <1>3. CASE page_table[loop.i].pid # pid
    <2>1. held'[h] = held[h]
      BY <1>3 DEF kfree_pid_turn
    <2>2. pid \in 0..(TagMod - 1)
      BY <1>1, PageTableAssumption DEF SteadyPids
    <2>3. held[h].start \in PagesOf(held[h])
      BY <2>1, HeldRange
    <2>4. page_table[held[h].start] =
            BlockEntry(held[h].start - held[h].start, held[h].size, Tag(held[h].pid))
      BY <2>3 DEF BlockInv, HeldBlock
    <2>5. page_table[held[h].start].pid = pid
      BY <2>1, <2>2, <2>4, TagOfSmall DEF BlockEntry
    <2>6. held[h].start \in Int /\ held[h].start >= loop.i
      BY <1>1, <2>1, HeldRange, PageTableAssumption DEF LoopInv
    <2> QED BY <1>1, <1>3, <2>1, <2>5, <2>6
  <1> QED BY <1>2, <1>3

LEMMA TurnCounter ==
    ASSUME TypeOK, NEW pid \in ExitPids, kfree_pid_turn(pid)
    PROVE  /\ \A q \in Pids \ {pid} : kfree_loop'[q] = kfree_loop[q]
           /\ kfree_loop'[pid] = NoLoop \/ kfree_loop'[pid].i = kfree_loop[pid].i + 1
  BY MemoryManagerAssumption DEF TypeOK, kfree_pid_turn, NextTurn

LEMMA NextLoop ==
    ASSUME SteadyPids
    PROVE  TypeOK /\ BlockInv /\ LoopInv /\ [Next]_vars => LoopInv'
  <1> SUFFICES ASSUME TypeOK, BlockInv, LoopInv, [Next]_vars, ~clashed' PROVE LoopInv'
    BY DEF LoopInv
  <1>0. ~clashed
    BY ClashStays
  <1>1. ASSUME NEW h \in Handles, NEW size \in Sizes, kmalloc(h, size) PROVE LoopInv'
    <2>1. KernelPid \notin Pids
      BY MemoryManagerAssumption DEF KernelPid
    <2> QED BY <1>0, <1>1, <2>1, AllocateLoop DEF kmalloc
  <1>2. ASSUME NEW h \in Handles, NEW size \in Sizes, NEW pid \in Pids,
               kumalloc(h, size, pid)
        PROVE  LoopInv'
    BY <1>0, <1>2, AllocateLoop DEF kumalloc
  <1>3. ASSUME NEW h \in Handles, kfree(h) PROVE LoopInv'
    <2>1. \A g \in Handles : held'[g] = held[g] \/ held'[g] = Null
      BY <1>3 DEF kfree, TypeOK
    <2> QED BY <1>0, <1>3, <2>1 DEF kfree, LoopInv, Looping
  <1>4. ASSUME NEW pid \in ExitPids, NEW n \in Counts, kfree_pid(pid, n) PROVE LoopInv'
    <2>1. \A h \in Handles : held[h] # Null => held[h].start >= FirstPage
      BY <1>0, HeldRange, PageTableAssumption
    <2>2. /\ kfree_loop'[pid].i = FirstPage /\ held' = held
          /\ \A q \in Pids \ {pid} : kfree_loop'[q] = kfree_loop[q]
      BY <1>4, MemoryManagerAssumption DEF kfree_pid, TypeOK
    <2> QED BY <1>0, <2>1, <2>2 DEF LoopInv, Looping
  <1>5. ASSUME NEW pid \in ExitPids, kfree_pid_turn(pid) PROVE LoopInv'
    <2> SUFFICES ASSUME NEW q \in Pids, Looping(q)', NEW h \in Handles,
                        held'[h] # Null, held'[h].pid = q
                 PROVE  held'[h].start >= kfree_loop'[q].i
      BY DEF LoopInv
    <2>1. CASE q = pid
      <3>1. held'[h] = held[h] /\ held[h].start > kfree_loop[pid].i
        BY <1>0, <1>5, <2>1, TurnLoop
      <3>2. kfree_loop'[pid].i = kfree_loop[pid].i + 1
        BY <1>5, <2>1, TurnCounter, PageTableAssumption DEF Looping, NoLoop
      <3>3. held[h].start \in Int /\ kfree_loop[pid].i \in Int
        BY <1>0, <2>1, <3>1, HeldRange, PageTableAssumption DEF TypeOK
      <3> QED BY <2>1, <3>1, <3>2, <3>3
    <2>2. CASE q # pid
      <3>1. held'[h] = held[h]
        <4>1. CASE page_table[kfree_loop[pid].i].pid = pid
          <5>1. PICK g \in Handles : Released(g)
            BY <1>0, <1>5, <4>1, TurnStep
          <5> QED BY <5>1, ReleasedPages
        <4>2. CASE page_table[kfree_loop[pid].i].pid # pid
          BY <1>5, <4>2 DEF kfree_pid_turn
        <4> QED BY <4>1, <4>2
      <3>2. kfree_loop'[q] = kfree_loop[q]
        BY <1>5, <2>2, TurnCounter
      <3> QED BY <1>0, <3>1, <3>2 DEF LoopInv, Looping
    <2> QED BY <2>1, <2>2
  <1>6. CASE UNCHANGED vars
    BY <1>6 DEF vars, LoopInv, Looping
  <1> QED BY <1>1, <1>2, <1>3, <1>4, <1>5, <1>6 DEF Next

LEMMA InitLoop == Init => LoopInv
  BY PageTableAssumption DEF Init, LoopInv, Looping, NoLoop

LEMMA BlockCorrect == ASSUME SteadyPids PROVE Spec => [](TypeOK /\ BlockInv /\ LoopInv)
  BY InitType, InitBlock, InitLoop, NextType, NextBlock, NextLoop, PTL DEF Spec

----------------------------------------------------------------------------
\* Requests of any size, from any number of callers, in any order with kfree and
\* the turns of several kfree_pid loops: until a request of several pages has been
\* granted over a gap too short for it, no two live pointers share a page ...
THEOREM NoOverlapAlways == ASSUME SteadyPids PROVE Spec => []NoOverlap
  <1>1. BlockInv => NoOverlap
    BY DEF BlockInv, NoOverlap
  <1> QED BY <1>1, BlockCorrect, PTL

\* ... the used bits are exactly the boot pages and the live blocks: kfree and
\* kfree_pid neither leak a page nor free one that is held ...
THEOREM UsedIffHeldAlways == ASSUME SteadyPids PROVE Spec => []UsedIffHeld
  <1>1. BlockInv => UsedIffHeld
    <2> SUFFICES ASSUME BlockInv, ~clashed, NEW p \in Pages
                 PROVE  page_table[p].used = 1 <=>
                          p \in BootReserved \/ \E h \in Handles : p \in PagesOf(held[h])
      BY DEF UsedIffHeld
    <2>1. CASE p \in BootReserved
      BY <2>1 DEF BlockInv, ReservedEntry
    <2>2. CASE p \notin BootReserved
      <3>1. ASSUME NEW h \in Handles, p \in PagesOf(held[h]) PROVE page_table[p].used = 1
        <4>1. page_table[p] = BlockEntry(p - held[h].start, held[h].size, Tag(held[h].pid))
          BY <3>1 DEF BlockInv, HeldBlock
        <4> QED BY <4>1 DEF BlockEntry
      <3>2. ASSUME page_table[p].used = 1 PROVE \E h \in Handles : p \in PagesOf(held[h])
        BY <2>2, <3>2 DEF BlockInv
      <3> QED BY <2>2, <3>1, <3>2
    <2> QED BY <2>1, <2>2
  <1> QED BY <1>1, BlockCorrect, PTL

\* ... and what init_memory reserved stays reserved.
THEOREM ReservedStaysAlways == ASSUME SteadyPids PROVE Spec => []ReservedStays
  <1>1. BlockInv => ReservedStays
    BY DEF BlockInv, ReservedStays, ReservedEntry
  <1> QED BY <1>1, BlockCorrect, PTL

\* A kfree_pid that runs off the end of the table with the count kfork sets leaves
\* the process without a block, whatever other calls fell between the turns of its
\* loop.
THEOREM ExitFreesAllAlways == ASSUME SteadyPids PROVE Spec => ExitFreesAll
  <1> DEFINE A == ~clashed => \A pid \in Pids :
                    Looping(pid) /\ ~Looping(pid)' /\ kfree_loop[pid].num > page_table_size
                        => \A h \in Handles : held'[h].pid # pid
  <1>1. TypeOK /\ BlockInv /\ LoopInv /\ TypeOK' /\ BlockInv' /\ [Next]_vars => [A]_vars
    <2> SUFFICES ASSUME TypeOK, BlockInv, LoopInv, TypeOK', BlockInv', Next, ~clashed,
                        NEW pid \in Pids, Looping(pid), ~Looping(pid)',
                        kfree_loop[pid].num > page_table_size, NEW h \in Handles,
                        held'[h].pid = pid
                 PROVE  FALSE
      OBVIOUS
    <2>1. kfree_loop[pid] \in [i : FirstPage..page_table_size, num : 0..(NumMod - 1)]
      BY DEF TypeOK
    <2>2. held'[h] # Null
      BY MemoryManagerAssumption DEF Null, KernelPid
    <2>3. kfree_loop' # kfree_loop
      BY DEF Looping
    <2>4. ASSUME NEW q \in ExitPids, NEW n \in Counts, kfree_pid(q, n) PROVE FALSE
      BY <2>4, PageTableAssumption DEF kfree_pid, Looping, TypeOK
    <2>5. ASSUME NEW q \in ExitPids, kfree_pid_turn(q) PROVE FALSE
      <3>1. q = pid
        BY <2>5, TurnCounter DEF Looping
      <3>2. held[h].start > kfree_loop[pid].i /\ held'[h] = held[h]
        BY <2>2, <2>5, <3>1, TurnLoop
      <3>3. held[h].start \in FirstPage..(page_table_size - 1)
        BY <2>2, <3>2, HeldRange
      <3>4. kfree_loop'[pid].i = kfree_loop[pid].i + 1
        <4>1. (kfree_loop[pid].num - 1) % NumMod # 0
          BY <2>1, PageTableAssumption, MemoryManagerAssumption
        <4>2. kfree_loop[pid].num # 0
          BY <2>1, PageTableAssumption
        <4> QED BY <2>5, <3>1, <4>1, <4>2 DEF kfree_pid_turn, NextTurn, TypeOK
      <3> QED BY <2>1, <3>2, <3>3, <3>4, PageTableAssumption DEF Looping
    <2> QED BY <2>3, <2>4, <2>5 DEF Next, kmalloc, kumalloc, kfree, Allocate
  <1> QED BY <1>1, BlockCorrect, PTL DEF Spec, ExitFreesAll

----------------------------------------------------------------------------
\* The refinement mapping's functions.
Avail == {p \in Pages \ BootReserved : page_table[p].used = 0}
Owned == [h \in Handles |-> PagesOf(held[h])]

LEMMA OwnedNext == Owned' = [g \in Handles |-> PagesOf(held'[g])]
  BY DEF Owned, PagesOf

LEMMA ReleaseRefines ==
    ASSUME TypeOK, BlockInv, ~clashed, NEW h \in Handles, Released(h)
    PROVE  Avail' = Avail \cup Owned[h] /\ Owned' = [Owned EXCEPT ![h] = {}]
  <1> DEFINE S == PagesOf(held[h])
  <1>1. Owned[h] = S /\ S \subseteq Pages \ BootReserved
    BY DEF Owned, BlockInv, HeldBlock
  <1>2. /\ \A g \in Handles \ {h} : held'[g] = held[g]
        /\ PagesOf(held'[h]) = {}
        /\ \A p \in Pages : page_table'[p] = IF p \in S THEN ZeroEntry ELSE page_table[p]
    BY ReleasedPages
  <1>3. \A p \in Pages : page_table'[p].used = IF p \in S THEN 0 ELSE page_table[p].used
    BY <1>2 DEF ZeroEntry
  <1> HIDE DEF S
  <1>4. Avail' = Avail \cup S
    BY <1>1, <1>3 DEF Avail
  <1>5. \A g \in Handles : PagesOf(held'[g]) = IF g = h THEN {} ELSE PagesOf(held[g])
    BY <1>2
  <1>6. Owned' = [g \in Handles |-> IF g = h THEN {} ELSE PagesOf(held[g])]
    BY <1>5, OwnedNext
  <1>7. [Owned EXCEPT ![h] = {}] = [g \in Handles |-> IF g = h THEN {} ELSE PagesOf(held[g])]
    BY DEF Owned
  <1> QED BY <1>1, <1>4, <1>6, <1>7

LEMMA AllocateRefines ==
    ASSUME TypeOK, BlockInv, ~clashed, ~clashed', NEW h \in Handles, NEW size \in Sizes,
           NEW pid \in Pids \cup {KernelPid}, Allocate(h, size, pid)
    PROVE  \/ UNCHANGED <<Avail, Owned>>
           \/ /\ Owned[h] = {}
              /\ \E S \in (SUBSET Avail) \ {{}} :
                    Owned' = [Owned EXCEPT ![h] = S] /\ Avail' = Avail \ S
  <1>1. CASE UNCHANGED <<page_table, held>>
    BY <1>1 DEF Avail, Owned, PagesOf
  <1>2. CASE \E i \in Pages :
            /\ FirstFit(page_table, i, size)
            /\ page_table' = Allocated(page_table, i, size, Tag(pid))
            /\ held' = [held EXCEPT ![h] = [start |-> i, size |-> size, pid |-> pid]]
            /\ clashed' = (clashed \/ ~AllFree(i, size))
    <2> PICK i \in Pages :
            /\ page_table' = Allocated(page_table, i, size, Tag(pid))
            /\ held' = [held EXCEPT ![h] = [start |-> i, size |-> size, pid |-> pid]]
            /\ clashed' = (clashed \/ ~AllFree(i, size))
      BY <1>2
    <2>1. AllFree(i, size) /\ held[h] = Null
      BY DEF Allocate, TypeOK
    <2> DEFINE S == PagesOf(held'[h])
    <2>2. /\ S = i..(i + size - 1)
          /\ S \subseteq Pages \ BootReserved
          /\ \A g \in Handles \ {h} : held'[g] = held[g]
      BY <2>1, GrantPages
    <2>3. i \in S
      BY <2>2, MemoryManagerAssumption, PageTableAssumption
    <2>4. \A p \in S : page_table[p].used = 0
      BY <2>1, <2>2 DEF AllFree
    <2>5. ASSUME NEW p \in Pages
          PROVE  page_table'[p].used = IF p \in S THEN 1 ELSE page_table[p].used
      <3>1. page_table'[p] = IF p \in S THEN BlockEntry(p - i, size, Tag(pid)) ELSE page_table[p]
        BY <2>2 DEF Allocated
      <3> QED BY <3>1 DEF BlockEntry
    <2>6. \A g \in Handles : PagesOf(held'[g]) = IF g = h THEN S ELSE PagesOf(held[g])
      BY <2>2
    <2> HIDE DEF S
    <2>7. Avail' = Avail \ S
      BY <2>5 DEF Avail
    <2>8. S \in (SUBSET Avail) \ {{}}
      BY <2>2, <2>3, <2>4 DEF Avail
    <2>9. Owned' = [g \in Handles |-> IF g = h THEN S ELSE PagesOf(held[g])]
      BY <2>6, OwnedNext
    <2>10. [Owned EXCEPT ![h] = S] = [g \in Handles |-> IF g = h THEN S ELSE PagesOf(held[g])]
      BY DEF Owned
    <2>11. Owned[h] = {}
      BY <2>1, NullPages DEF Owned
    <2> QED BY <2>7, <2>8, <2>9, <2>10, <2>11
  <1> QED BY <1>1, <1>2 DEF Allocate

LEMMA InitRefines == Init => Ownership!Init
  <1> SUFFICES ASSUME Init PROVE Ownership!Init
    OBVIOUS
  <1>1. \A p \in Pages \ BootReserved : page_table[p].used = 0
    BY DEF Init, BootTable, FreeEntry
  <1>2. \A h \in Handles : PagesOf(held[h]) = {}
    BY NullPages DEF Init
  <1> QED BY <1>1, <1>2 DEF Ownership!Init

LEMMA NextRefines ==
    ASSUME SteadyPids
    PROVE  TypeOK /\ BlockInv /\ LoopInv /\ [Next]_vars
               => [Ownership!Next \/ clashed']_(Ownership!vars)
  <1> SUFFICES ASSUME TypeOK, BlockInv, LoopInv, [Next]_vars, ~clashed'
               PROVE  [Ownership!Next]_(Ownership!vars)
    OBVIOUS
  <1>0. ~clashed
    BY ClashStays
  <1>1. UNCHANGED <<Avail, Owned>> => UNCHANGED Ownership!vars
    BY DEF Avail, Owned, Ownership!vars
  <1>2. ASSUME NEW h \in Handles, NEW size \in Sizes, NEW pid \in Pids \cup {KernelPid},
               Allocate(h, size, pid)
        PROVE  [Ownership!Next]_(Ownership!vars)
    <2>1. CASE UNCHANGED <<Avail, Owned>>
      BY <1>1, <2>1
    <2>2. CASE /\ Owned[h] = {}
               /\ \E S \in (SUBSET Avail) \ {{}} :
                     Owned' = [Owned EXCEPT ![h] = S] /\ Avail' = Avail \ S
      <3>1. Ownership!Grant(h)
        BY <2>2 DEF Ownership!Grant, Avail, Owned
      <3> QED BY <3>1 DEF Ownership!Next
    <2> QED BY <1>0, <1>2, <2>1, <2>2, AllocateRefines
  <1>3. ASSUME NEW h \in Handles, Released(h) PROVE [Ownership!Next]_(Ownership!vars)
    <2>1. Avail' = Avail \cup Owned[h] /\ Owned' = [Owned EXCEPT ![h] = {}]
      BY <1>0, <1>3, ReleaseRefines
    <2>2. Ownership!Release(h)
      BY <2>1 DEF Ownership!Release, Avail, Owned
    <2> QED BY <2>2 DEF Ownership!Next
  <1>4. ASSUME UNCHANGED <<page_table, held>> PROVE [Ownership!Next]_(Ownership!vars)
    BY <1>1, <1>4 DEF Avail, Owned, PagesOf
  <1>5. ASSUME NEW h \in Handles, kfree(h) PROVE [Ownership!Next]_(Ownership!vars)
    BY <1>0, <1>3, <1>5, KfreeReleases
  <1>6. ASSUME NEW pid \in ExitPids, kfree_pid_turn(pid)
        PROVE  [Ownership!Next]_(Ownership!vars)
    <2>1. CASE page_table[kfree_loop[pid].i].pid = pid
      BY <1>0, <1>3, <1>6, <2>1, TurnStep
    <2>2. CASE page_table[kfree_loop[pid].i].pid # pid
      BY <1>4, <1>6, <2>2 DEF kfree_pid_turn
    <2> QED BY <2>1, <2>2
  <1>7. ASSUME NEW pid \in ExitPids, NEW n \in Counts, kfree_pid(pid, n)
        PROVE  [Ownership!Next]_(Ownership!vars)
    BY <1>4, <1>7 DEF kfree_pid
  <1>8. CASE UNCHANGED vars
    BY <1>4, <1>8 DEF vars
  <1> QED BY <1>2, <1>5, <1>6, <1>7, <1>8 DEF Next, kmalloc, kumalloc

\* The memory manager implements exclusive ownership of pages: until the first
\* clash, each call is a grant of free pages, a release of a whole block, or
\* invisible.
THEOREM OwnershipImplemented == ASSUME SteadyPids PROVE Spec => ImplementsOwnership
  BY InitRefines, NextRefines, BlockCorrect, PTL DEF Spec, ImplementsOwnership
==========================================================================
