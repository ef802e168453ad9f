---------------------------- MODULE KmainProofs ----------------------------
(***************************************************************************)
(* Theorems about Kmain: the order in which init_idt, init_timer, init_8042 *)
(* and pic_remask set interrupts up, whatever the devices ask for and      *)
(* whenever the user types; and the memory that registering the drives and *)
(* the filesystems takes.                                                  *)
(***************************************************************************)
EXTENDS Kmain, PageTableProofs, FiniteSetTheorems

Steps ==
    {"init_idt", "mask", "sti", "load_idt", "timer", "disable", "flush", "config", "0x20",
     "self test", "0xaa", "port 1", "0xab", "port 2", "0xa9", "enable", "install", "remask",
     "drives"}

\* The types of the variables of the interrupt setup.
SetupOK ==
    /\ step \in Steps
    /\ cpu \in [flag : BOOLEAN, idt : BOOLEAN]
    /\ pic \in [remapped : BOOLEAN, masked : SUBSET Lines, requests : SUBSET Lines]
    /\ pic_mask \in SUBSET Lines
    /\ handlers \in SUBSET Lines
    /\ kbc \in [on : BOOLEAN, out : {"empty", "scancode"} \cup Commands,
                command : {"none"} \cup Commands]

\* Where the PICs' masks are, at every step: they are all set before interrupts are
\* enabled, and pic_remask clears only those of the lines that got a handler.
MaskInv ==
    /\ cpu.flag => step \notin {"init_idt", "mask", "sti"}
    /\ step \notin {"init_idt", "mask", "drives"} => pic.masked = Lines
    /\ step = "drives" => pic.masked = pic_mask
    /\ step \notin {"init_idt", "mask"} => Lines \ pic_mask \subseteq handlers
    /\ step # "init_idt" => pic.remapped
    /\ step \notin {"init_idt", "mask", "sti", "load_idt"} => cpu.idt

\* The steps of init_8042 at which no command is in progress.
Between == {"config", "self test", "port 1", "port 2", "enable"}

\* What the keyboard controller holds: no command is in progress before the flush, the
\* keyboard is off from there to the end, and between two commands the byte is empty.
AnswerInv ==
    /\ step \in {"init_idt", "mask", "sti", "load_idt", "timer", "disable", "flush"}
         => kbc.command = "none"
    /\ step \in {"flush"} \cup Between \cup Commands => ~kbc.on
    /\ step \in Between => kbc.out = "empty" /\ kbc.command = "none"
    /\ step \in Commands =>
         \/ kbc.out = "empty" /\ kbc.command = step
         \/ kbc.out = step /\ kbc.command = "none"

SetupInv == SetupOK /\ MaskInv /\ AnswerInv

----------------------------------------------------------------------------
LEMMA KmainInitInv == KmainInit => SetupInv
<1> SUFFICES ASSUME KmainInit
             PROVE  SetupInv
  OBVIOUS
<1>1. SetupOK
  BY DEF KmainInit, SetupOK, Steps
<1>2. MaskInv
  BY DEF KmainInit, MaskInv
<1>3. AnswerInv
  BY DEF KmainInit, AnswerInv, Between, Commands
<1> QED
  BY <1>1, <1>2, <1>3 DEF SetupInv

\* The devices: while a command is in progress nothing but its answer can come.
LEMMA DeviceInv == SetupInv /\ (request \/ key \/ answer) => SetupInv'
<1> SUFFICES ASSUME SetupInv, request \/ key \/ answer
             PROVE  SetupInv'
  OBVIOUS
<1> USE DEF SetupInv
<1>1. CASE request
  <2> PICK l \in Lines : pic' = [pic EXCEPT !.requests = @ \cup {l}]
    BY <1>1 DEF request
  <2> UNCHANGED <<step, cpu, pic_mask, handlers, kbc>>
    BY <1>1 DEF request
  <2>1. SetupOK'
    BY DEF SetupOK
  <2>2. MaskInv'
    BY DEF SetupOK, MaskInv
  <2>3. AnswerInv'
    BY DEF AnswerInv
  <2> QED
    BY <2>1, <2>2, <2>3
<1>2. CASE key \/ answer
  <2> UNCHANGED <<step, cpu, pic_mask, handlers>> /\ pic' = [pic EXCEPT !.requests = @ \cup {"ps2kb"}]
    BY <1>2 DEF key, answer, Output
  <2>1. SetupOK'
    BY <1>2 DEF SetupOK, key, answer, Output, Lines, Commands
  <2>2. MaskInv'
    BY DEF SetupOK, MaskInv
  <2>3. AnswerInv'
    BY <1>2 DEF SetupOK, AnswerInv, key, answer, Output, Between, Commands
  <2> QED
    BY <2>1, <2>2, <2>3
<1> QED
  BY <1>1, <1>2

\* An interrupt is only taken once pic_remask has run: before, every line that could
\* interrupt is masked.
LEMMA IrqInv == SetupInv /\ irq_handler => SetupInv'
<1> SUFFICES ASSUME SetupInv, irq_handler
             PROVE  SetupInv'
  OBVIOUS
<1> USE DEF SetupInv
<1> PICK l \in Deliverable :
        /\ pic' = [pic EXCEPT !.requests = @ \ {l}]
        /\ kbc' = IF l = "ps2kb" /\ l \in handlers THEN [kbc EXCEPT !.out = "empty"]
                  ELSE kbc
  BY DEF irq_handler
<1> UNCHANGED <<step, cpu, pic_mask, handlers>>
  BY DEF irq_handler
<1>1. step = "drives"
  BY DEF Deliverable, SetupOK, MaskInv
<1>2. SetupOK'
  BY DEF SetupOK
<1>3. MaskInv'
  BY DEF SetupOK, MaskInv
<1>4. AnswerInv'
  BY <1>1 DEF AnswerInv, Between, Commands
<1> QED
  BY <1>2, <1>3, <1>4

LEMMA StartInterruptsInv == SetupInv /\ start_interrupts => SetupInv'
<1> SUFFICES ASSUME SetupInv, start_interrupts
             PROVE  SetupInv'
  OBVIOUS
<1> USE DEF SetupInv, At
<1> kbc' = kbc
  BY DEF start_interrupts
<1>1. CASE irq_remap
  BY <1>1 DEF irq_remap, SetupOK, MaskInv, AnswerInv, Steps, Between, Commands
<1>2. CASE mask_all
  BY <1>2 DEF mask_all, SetupOK, MaskInv, AnswerInv, Steps, Between, Commands
<1>3. CASE sti
  BY <1>3 DEF sti, SetupOK, MaskInv, AnswerInv, Steps, Between, Commands
<1>4. CASE load_idt
  BY <1>4 DEF load_idt, SetupOK, MaskInv, AnswerInv, Steps, Between, Commands
<1>5. CASE install_timer
  BY <1>5 DEF install_timer, irq_install_handler, SetupOK, MaskInv, AnswerInv, Steps, Lines,
              Between, Commands
<1>6. CASE install_ps2
  BY <1>6 DEF install_ps2, irq_install_handler, SetupOK, MaskInv, AnswerInv, Steps, Lines,
              Between, Commands
<1>7. CASE pic_remask
  BY <1>7 DEF pic_remask, SetupOK, MaskInv, AnswerInv, Steps, Between, Commands
<1> QED
  BY <1>1, <1>2, <1>3, <1>4, <1>5, <1>6, <1>7 DEF start_interrupts

LEMMA Init8042Inv == SetupInv /\ init_8042 => SetupInv'
<1> SUFFICES ASSUME SetupInv, init_8042
             PROVE  SetupInv'
  OBVIOUS
<1> USE DEF SetupInv, At
<1> UNCHANGED <<cpu, pic, pic_mask, handlers>>
  BY DEF init_8042
<1>1. CASE disable_ports
  BY <1>1 DEF disable_ports, SetupOK, MaskInv, AnswerInv, Steps, Between, Commands
<1>2. CASE flush
  BY <1>2 DEF flush, Take, SetupOK, MaskInv, AnswerInv, Steps, Between, Commands
<1>3. CASE read_config
  BY <1>3 DEF read_config, Send, Take, SetupOK, MaskInv, AnswerInv, Steps, Between, Commands
<1>4. CASE self_test
  BY <1>4 DEF self_test, Send, Take, SetupOK, MaskInv, AnswerInv, Steps, Between, Commands
<1>5. CASE test_ports
  BY <1>5 DEF test_ports, Send, Take, SetupOK, MaskInv, AnswerInv, Steps, Between, Commands
<1>6. CASE register_keyboard
  BY <1>6 DEF register_keyboard, SetupOK, MaskInv, AnswerInv, Steps, Between, Commands
<1> QED
  BY <1>1, <1>2, <1>3, <1>4, <1>5, <1>6 DEF init_8042

LEMMA SetupStep == SetupInv /\ [KmainNext]_kvars => SetupInv'
<1> SUFFICES ASSUME SetupInv, [KmainNext]_kvars
             PROVE  SetupInv'
  OBVIOUS
<1>1. CASE register_all \/ UNCHANGED kvars
  <2> UNCHANGED <<step, cpu, pic, pic_mask, handlers, kbc>>
    BY <1>1 DEF register_all, kvars, setup
  <2> QED
    BY DEF SetupInv, SetupOK, MaskInv, AnswerInv
<1> QED
  BY <1>1, DeviceInv, IrqInv, StartInterruptsInv, Init8042Inv DEF KmainNext, kmain

LEMMA SetupAlways == KmainSpec => []SetupInv
<1>1. KmainInit => SetupInv
  BY KmainInitInv
<1>2. SetupInv /\ [KmainNext]_kvars => SetupInv'
  BY SetupStep
<1> QED
  BY <1>1, <1>2, PTL DEF KmainSpec

----------------------------------------------------------------------------
\* Every interrupt that the processor takes while kmain sets the machine up finds the
\* kernel's vectors, the loaded IDT and an installed handler, although init_idt enables
\* interrupts before it loads the IDT and pic_remask opens lines one by one.
THEOREM NoStrayInterruptHolds == KmainSpec => []NoStrayInterrupt
<1>1. SetupInv => NoStrayInterrupt
  BY DEF SetupInv, SetupOK, MaskInv, NoStrayInterrupt, Deliverable
<1> QED
  BY <1>1, SetupAlways, PTL

\* The byte that init_8042 takes after a command is the answer to that command, however
\* long the controller takes and whatever was typed before the ports were disabled.
THEOREM AnswersInStepHolds == KmainSpec => []AnswersInStep
<1>1. SetupInv => AnswersInStep
  BY DEF SetupInv, AnswerInv, AnswersInStep
<1> QED
  BY <1>1, SetupAlways, PTL

USE DEF Pages, Bit

----------------------------------------------------------------------------
(***************************************************************************)
(* The memory that registering drives takes.                               *)
(***************************************************************************)
Blocks == [start : Pages, size : Nat]

Heap == [table : [Pages -> Entry], block : [Names -> Blocks]]

PagesIn(h, n) == h.block[n].start..(h.block[n].start + h.block[n].size - 1)

FreePages(h) == {p \in Pages : h.table[p].used = 0}

\* The free pages below a block: what a block of several pages would run over.
Gaps(h) == {q \in FreePages(h) : \E n \in Names : \E p \in PagesIn(h, n) : q < p}

Separate(h) ==
    /\ h \in Heap
    /\ \A p \in Pages : h.table[p].unusable = 0
    /\ \A p \in BootReserved : h.table[p].used = 1
    /\ \A m, n \in Names : m # n => \A p \in PagesIn(h, m) : p \notin PagesIn(h, n)
    /\ \A n \in Names : \A p \in PagesIn(h, n) : p \in Pages => h.table[p].used = 1
    /\ \A n \in Names : h.block[n] # Null =>
        /\ h.block[n].size >= 1 /\ h.block[n].start \notin BootReserved
        /\ h.block[n].size = 1 =>
            /\ h.table[h.block[n].start].linked_to_next = 0
            /\ h.table[h.block[n].start].linked_to_last = 0

\* There are k pages left.
Room(h, k) == Cardinality(FreePages(h)) >= k

----------------------------------------------------------------------------
LEMMA PagesFinite == IsFiniteSet(Pages)
  BY FS_Interval, PageTableAssumption

LEMMA FreeFinite ==
    ASSUME NEW h
    PROVE  IsFiniteSet(FreePages(h)) /\ Cardinality(FreePages(h)) \in Nat
<1>1. FreePages(h) \subseteq Pages
  BY DEF FreePages
<1>2. IsFiniteSet(FreePages(h))
  BY <1>1, PagesFinite, FS_Subset
<1> QED
  BY <1>2, FS_CardinalityType

\* While there is room, kmalloc stops at the lowest free page.
LEMMA KmallocFinds ==
    ASSUME NEW h, Separate(h), NEW size \in 1..FirstPage, Room(h, 1)
    PROVE  \E i \in FreePages(h) :
             /\ i = (CHOOSE j \in Pages : FirstFit(h.table, j, size))
             /\ \A q \in FreePages(h) : i <= q
             /\ i \in Pages \ BootReserved
<1>1. FreePages(h) # {}
  BY FS_EmptySet DEF Room
<1>2. PICK p \in FreePages(h) : TRUE
  BY <1>1
<1>3. \A q \in FreePages(h) : q \in Pages \ BootReserved /\ q \in FirstPage..(page_table_size - 1)
  BY PageTableAssumption DEF FreePages, Separate
<1>4. ASSUME NEW q \in FreePages(h)
      PROVE  Suits(h.table, q, size)
  <2>1. q \in FirstPage..(page_table_size - 1) /\ h.table[q].used = 0 /\ h.table[q].unusable = 0
    BY <1>3 DEF FreePages, Separate
  <2>2. q..(size - 1) = {}
    BY <2>1, PageTableAssumption
  <2> QED
    BY <2>1, <2>2 DEF Suits, check_free
<1>5. \E j \in Pages : FirstFit(h.table, j, size)
  <2>1. p \in Pages
    BY <1>3
  <2> QED
    BY <1>4, <2>1, SearchFinds
<1>6. PICK i : i = (CHOOSE j \in Pages : FirstFit(h.table, j, size))
  OBVIOUS
<1>7. i \in Pages /\ FirstFit(h.table, i, size)
  BY <1>5, <1>6
<1>8. i \in FreePages(h)
  BY <1>7 DEF FirstFit, Suits, FreePages
<1>9. \A q \in FreePages(h) : i <= q
  <2> SUFFICES ASSUME NEW q \in FreePages(h), ~(i <= q)
               PROVE  FALSE
    OBVIOUS
  <2>1. q \in FirstPage..(i - 1)
    BY <1>3, <1>7, PageTableAssumption
  <2> QED
    BY <1>4, <1>7, <2>1 DEF FirstFit
<1> QED
  BY <1>3, <1>6, <1>8, <1>9

\* What kmalloc leaves alone, and how much it takes.
LEMMA KmallocFrame ==
    ASSUME NEW h, Separate(h), NEW size \in 1..FirstPage, Room(h, 1), NEW n \in Names,
           NEW g, g = kmalloc(h, n, size)
    PROVE  \E i \in FreePages(h) :
             /\ \A q \in FreePages(h) : i <= q
             /\ i \in Pages \ BootReserved
             /\ g \in Heap
             /\ \A m \in Names : m # n => g.block[m] = h.block[m]
             /\ g.block[n].start = i /\ g.block[n].size = size /\ g.block[n] # Null
             /\ \A p \in Pages : p \notin i..(i + size - 1) => g.table[p] = h.table[p]
             /\ \A p \in Pages : p \in i..(i + size - 1) =>
                    g.table[p].used = 1 /\ g.table[p].unusable = 0
             /\ size = 1 => g.table[i].linked_to_next = 0 /\ g.table[i].linked_to_last = 0
<1>1. PICK i \in FreePages(h) :
             /\ i = (CHOOSE j \in Pages : FirstFit(h.table, j, size))
             /\ \A q \in FreePages(h) : i <= q
             /\ i \in Pages \ BootReserved
  BY KmallocFinds
<1>2. /\ g.table = Allocated(h.table, i, size, 0)
      /\ g.block = [h.block EXCEPT ![n] = [start |-> i, size |-> size]]
      /\ g = [table |-> g.table, block |-> g.block]
  BY <1>1 DEF kmalloc
<1>3. h.table \in [Pages -> Entry] /\ h.block \in [Names -> Blocks]
  BY DEF Separate, Heap
<1>4. i \in Pages /\ i # 0 /\ size \in Nat /\ size >= 1
  <2>1. FirstPage \in Nat /\ FirstPage >= 1 /\ 0 \in BootReserved
    BY PageTableAssumption
  <2>2. i # 0
    BY <1>1, <2>1
  <2>3. size \in Nat /\ size >= 1
    BY <2>1
  <2>4. i \in Pages
    BY <1>1
  <2> QED
    BY <2>2, <2>3, <2>4
<1>5. g.table \in [Pages -> Entry]
  <2>1. 0 \in 0..(TagMod - 1)
    BY PageTableAssumption
  <2> QED
    BY <1>2, <1>3, <1>4, <2>1, AllocatedType
<1>6. [start |-> i, size |-> size] \in Blocks
  BY <1>4 DEF Blocks
<1>7. g \in Heap
  <2>1. g.block \in [Names -> Blocks]
    BY <1>2, <1>3, <1>6
  <2> QED
    BY <1>2, <1>5, <2>1 DEF Heap
<1>8. /\ \A m \in Names : m # n => g.block[m] = h.block[m]
      /\ g.block[n] = [start |-> i, size |-> size]
  BY <1>2, <1>3
<1>9. g.block[n].start = i /\ g.block[n].size = size /\ g.block[n] # Null
  BY <1>4, <1>8 DEF Null
<1>10. \A p \in Pages : g.table[p] = IF p \in i..(i + size - 1) THEN BlockEntry(p - i, size, 0)
                                                                ELSE h.table[p]
  BY <1>2 DEF Allocated
<1>11. \A o, s : BlockEntry(o, s, 0).used = 1 /\ BlockEntry(o, s, 0).unusable = 0
  BY DEF BlockEntry
<1>12. size = 1 => g.table[i].linked_to_next = 0 /\ g.table[i].linked_to_last = 0
  <2>1. i \in i..(i + size - 1) /\ i - i = 0
    BY <1>4, PageTableAssumption
  <2>2. g.table[i] = BlockEntry(0, size, 0)
    BY <1>4, <1>10, <2>1
  <2> QED
    BY <2>2 DEF BlockEntry
<1>13. /\ \A p \in Pages : p \notin i..(i + size - 1) => g.table[p] = h.table[p]
       /\ \A p \in Pages : p \in i..(i + size - 1) =>
            g.table[p].used = 1 /\ g.table[p].unusable = 0
  BY <1>10, <1>11
<1> HIDE DEF Pages
<1> QED
  BY <1>1, <1>7, <1>8, <1>9, <1>12, <1>13

\* A block of any size, with no gap, or a page: the blocks stay separate.
LEMMA KmallocSeparate ==
    ASSUME NEW h, Separate(h), NEW size \in 1..FirstPage, NEW k \in Nat, Room(h, k + size),
           NEW n \in Names, h.block[n] = Null, NEW g, g = kmalloc(h, n, size),
           size = 1 \/ Gaps(h) = {}
    PROVE  /\ Separate(g) /\ Room(g, k)
           /\ g.block[n].size = size /\ g.block[n] # Null
           /\ \A m \in Names : m # n => g.block[m] = h.block[m]
           /\ \A p \in Pages : h.table[p].used = 1 => g.table[p].used = 1
           /\ g.table[g.block[n].start].used = 1
           /\ \E i \in FreePages(h) :
                Gaps(g) \subseteq Gaps(h) \ {i} /\ (Gaps(h) # {} => i \in Gaps(h))
<1>0. size \in Nat /\ size >= 1 /\ FirstPage \in Nat
  BY PageTableAssumption
<1>1. Room(h, 1)
  BY <1>0, FreeFinite DEF Room
<1>2. PICK i \in FreePages(h) :
             /\ \A q \in FreePages(h) : i <= q
             /\ i \in Pages \ BootReserved
             /\ g \in Heap
             /\ \A m \in Names : m # n => g.block[m] = h.block[m]
             /\ g.block[n].start = i /\ g.block[n].size = size /\ g.block[n] # Null
             /\ \A p \in Pages : p \notin i..(i + size - 1) => g.table[p] = h.table[p]
             /\ \A p \in Pages : p \in i..(i + size - 1) =>
                    g.table[p].used = 1 /\ g.table[p].unusable = 0
             /\ size = 1 => g.table[i].linked_to_next = 0 /\ g.table[i].linked_to_last = 0
  BY <1>1, KmallocFrame
<1> DEFINE new == i..(i + size - 1)
<1>3. i \in new /\ \A p \in new : p >= i /\ p \in Int
  BY <1>0, <1>2, PageTableAssumption
<1>4. PagesIn(g, n) = new
  BY <1>2 DEF PagesIn
<1>5. \A m \in Names : m # n => PagesIn(g, m) = PagesIn(h, m)
  BY <1>2 DEF PagesIn
<1>6. \A p \in Pages : h.table[p].used = 1 => g.table[p].used = 1
  BY <1>2
<1>7. size = 1 => new = {i}
  BY <1>2, PageTableAssumption
<1> HIDE DEF new
<1>8. \A p \in FreePages(h) : p \in Pages /\ h.table[p].used = 0
  BY DEF FreePages
<1>9. ASSUME NEW m \in Names, m # n, NEW p \in PagesIn(h, m)
      PROVE  p \notin new
  <2>1. CASE size = 1
    <3>1. p # i
      BY <1>8, <1>9 DEF Separate
    <3> QED
      BY <1>7, <2>1, <3>1
  <2>2. CASE Gaps(h) = {}
    <3>1. i \notin Gaps(h)
      BY <2>2
    <3>2. ~(i < p)
      BY <1>9, <3>1 DEF Gaps
    <3>3. p # i
      BY <1>8, <1>9 DEF Separate
    <3>4. p \in Int /\ i \in Int
      BY <1>9, <1>2 DEF PagesIn
    <3> QED
      BY <1>3, <3>2, <3>3, <3>4
  <2> QED
    BY <2>1, <2>2
<1>10. Separate(g)
  <2>1. \A p \in Pages : g.table[p].unusable = 0
    BY <1>2 DEF Separate
  <2>2. \A p \in BootReserved : g.table[p].used = 1
    BY <1>6, PageTableAssumption DEF Separate
  <2>3. ASSUME NEW m \in Names, NEW o \in Names, m # o, NEW p \in PagesIn(g, m)
        PROVE  p \notin PagesIn(g, o)
    <3>1. CASE m = n
      BY <1>4, <1>5, <1>9, <2>3, <3>1
    <3>2. CASE o = n
      BY <1>4, <1>5, <1>9, <2>3, <3>2
    <3>3. CASE m # n /\ o # n
      BY <1>5, <2>3, <3>3 DEF Separate
    <3> QED
      BY <3>1, <3>2, <3>3
  <2>4. ASSUME NEW m \in Names, NEW p \in PagesIn(g, m), p \in Pages
        PROVE  g.table[p].used = 1
    <3>1. CASE m = n
      BY <1>2, <1>4, <2>4, <3>1 DEF new
    <3>2. CASE m # n
      BY <1>5, <1>6, <2>4, <3>2 DEF Separate
    <3> QED
      BY <3>1, <3>2
  <2>5. ASSUME NEW m \in Names, g.block[m] # Null
        PROVE  /\ g.block[m].size >= 1 /\ g.block[m].start \notin BootReserved
               /\ g.block[m].size = 1 =>
                    /\ g.table[g.block[m].start].linked_to_next = 0
                    /\ g.table[g.block[m].start].linked_to_last = 0
    <3>1. CASE m = n
      BY <1>0, <1>2, <3>1
    <3>2. CASE m # n
      <4>1. /\ g.block[m] = h.block[m] /\ h.block[m].size >= 1
            /\ h.block[m].start \notin BootReserved
            /\ h.block[m].size = 1 =>
                /\ h.table[h.block[m].start].linked_to_next = 0
                /\ h.table[h.block[m].start].linked_to_last = 0
        BY <1>2, <2>5, <3>2 DEF Separate
      <4>2. h.block[m].start \in Pages /\ h.block[m].start \in PagesIn(h, m)
        <5>1. h.block[m] \in Blocks
          BY DEF Separate, Heap
        <5> QED
          BY <4>1, <5>1, PageTableAssumption DEF Blocks, PagesIn
      <4>3. g.table[h.block[m].start] = h.table[h.block[m].start]
        BY <1>2, <1>9, <3>2, <4>2 DEF new
      <4> QED
        BY <4>1, <4>3
    <3> QED
      BY <3>1, <3>2
  <2> QED
    BY <1>2, <2>1, <2>2, <2>3, <2>4, <2>5 DEF Separate
<1>11. Room(g, k)
  <2>1. FreePages(h) \subseteq FreePages(g) \cup new
    BY <1>2, <1>8 DEF FreePages, new
  <2>2. IsFiniteSet(new) /\ Cardinality(new) = size
    <3>1. i \in Int /\ i + size - 1 \in Int /\ ~(i > i + size - 1) /\ (i + size - 1) - i + 1 = size
      BY <1>0, <1>2, PageTableAssumption
    <3> QED
      BY <3>1, FS_Interval DEF new
  <2>3. /\ IsFiniteSet(FreePages(g) \cup new)
        /\ Cardinality(FreePages(g) \cup new) =
             Cardinality(FreePages(g)) + Cardinality(new) - Cardinality(FreePages(g) \cap new)
    BY <2>2, FreeFinite, FS_Union
  <2>4. Cardinality(FreePages(g) \cap new) \in Nat
    <3>1. IsFiniteSet(FreePages(g) \cap new)
      BY <2>2, FS_Subset
    <3> QED
      BY <3>1, FS_CardinalityType
  <2>5. Cardinality(FreePages(h)) <= Cardinality(FreePages(g) \cup new)
    BY <2>1, <2>3, FS_Subset
  <2>6. Cardinality(FreePages(h)) \in Nat /\ Cardinality(FreePages(g)) \in Nat
    BY FreeFinite
  <2>7. Cardinality(FreePages(h)) >= k + size
    BY DEF Room
  <2> QED
    BY <1>0, <2>2, <2>3, <2>4, <2>5, <2>6, <2>7 DEF Room
<1>12. Gaps(g) \subseteq Gaps(h) \ {i} /\ (Gaps(h) # {} => i \in Gaps(h))
  <2>1. ASSUME NEW q \in Gaps(g)
        PROVE  q \in Gaps(h) /\ q # i
    <3>1. q \in FreePages(h) /\ q \notin new
      BY <1>2, <1>6 DEF Gaps, FreePages, new
    <3>2. PICK m \in Names : \E p \in PagesIn(g, m) : q < p
      BY DEF Gaps
    <3>3. m # n
      <4> SUFFICES ASSUME m = n
                   PROVE  FALSE
        OBVIOUS
      <4>1. PICK p \in new : q < p
        BY <1>4, <3>2
      <4>2. i <= q /\ q \in Int /\ i \in Int /\ p \in Int /\ p <= i + size - 1
        BY <1>2, <1>8, <3>1, <4>1 DEF new
      <4> QED
        BY <1>0, <3>1, <4>1, <4>2 DEF new
    <3> QED
      BY <1>3, <1>5, <3>1, <3>2, <3>3 DEF Gaps
  <2>2. ASSUME NEW q \in Gaps(h)
        PROVE  i \in Gaps(h)
    <3>1. PICK m \in Names : \E p \in PagesIn(h, m) : q < p
      BY DEF Gaps
    <3>2. PICK p \in PagesIn(h, m) : q < p
      BY <3>1
    <3>3. q \in FreePages(h)
      BY DEF Gaps
    <3>4. i <= q /\ q \in Int /\ i \in Int
      BY <1>2, <1>8, <3>3
    <3>6. p \in Int
      BY DEF PagesIn
    <3>5. i < p
      BY <3>2, <3>4, <3>6
    <3> QED
      BY <3>5 DEF Gaps
  <2> QED
    BY <2>1, <2>2
<1>13. g.table[g.block[n].start].used = 1
  BY <1>2, <1>3 DEF new
<1> QED
  BY <1>2, <1>6, <1>10, <1>11, <1>12, <1>13

\* kfree of a page.
LEMMA KfreeSeparate ==
    ASSUME NEW h, Separate(h), NEW n \in Names, h.block[n].size = 1, NEW g, g = kfree(h, n),
           NEW k \in Nat, Room(h, k)
    PROVE  /\ Separate(g) /\ Room(g, k + 1) /\ g.block[n] = Null
           /\ \A m \in Names : m # n => g.block[m] = h.block[m]
           /\ \A m \in Names : m # n /\ h.block[m] # Null =>
                g.table[h.block[m].start] = h.table[h.block[m].start]
           /\ \E i : Gaps(g) \subseteq Gaps(h) \cup {i}
<1> DEFINE i == h.block[n].start
<1>1. h.table \in [Pages -> Entry] /\ h.block \in [Names -> Blocks] /\ h.block[n] # Null
  BY DEF Separate, Heap, Null
<1>2. /\ i \in Pages /\ i \notin BootReserved
      /\ h.table[i].linked_to_next = 0 /\ h.table[i].linked_to_last = 0
  BY <1>1 DEF Separate, Blocks
<1>3. PagesIn(h, n) = {i}
  BY <1>2, PageTableAssumption DEF PagesIn
<1>4. h.table[i].used = 1
  BY <1>2, <1>3 DEF Separate
<1> HIDE DEF i
<1>5. /\ g.table = Freed(h.table, i) /\ g.block = [h.block EXCEPT ![n] = Null]
      /\ g = [table |-> g.table, block |-> g.block]
  BY DEF kfree, i
<1>6. g.table = [h.table EXCEPT ![i] = ZeroEntry]
  BY <1>1, <1>2, <1>5, FreedSingle
<1>7. ZeroEntry \in Entry /\ ZeroEntry.used = 0 /\ ZeroEntry.unusable = 0
  BY PageTableAssumption DEF ZeroEntry, Entry
<1>8. \A p \in Pages : g.table[p] = IF p = i THEN ZeroEntry ELSE h.table[p]
  BY <1>1, <1>6
<1>9. \A m \in Names : g.block[m] = IF m = n THEN Null ELSE h.block[m]
  BY <1>1, <1>5
<1>10. g \in Heap
  <2>1. Null \in Blocks
    BY PageTableAssumption DEF Null, Blocks
  <2>2. g.block \in [Names -> Blocks]
    BY <1>1, <1>5, <2>1
  <2>3. g.table \in [Pages -> Entry]
    BY <1>1, <1>2, <1>6, <1>7
  <2> QED
    BY <1>5, <2>2, <2>3 DEF Heap
<1>11. PagesIn(g, n) = {} /\ \A m \in Names : m # n => PagesIn(g, m) = PagesIn(h, m)
  BY <1>9 DEF PagesIn, Null
<1>12. \A m \in Names : \A p \in PagesIn(h, m) : m # n => p # i
  BY <1>3 DEF Separate
<1>13. ASSUME NEW m \in Names, m # n, h.block[m] # Null
       PROVE  h.block[m].start \in Pages /\ h.block[m].start # i
  <2>1. h.block[m] \in Blocks /\ h.block[m].size >= 1
    BY <1>1, <1>13 DEF Separate
  <2>2. h.block[m].start \in PagesIn(h, m)
    BY <2>1 DEF PagesIn, Blocks
  <2> QED
    BY <1>12, <1>13, <2>1, <2>2 DEF Blocks
<1>14. Separate(g)
  <2>1. \A p \in Pages : g.table[p].unusable = 0
    BY <1>7, <1>8 DEF Separate
  <2>2. \A p \in BootReserved : g.table[p].used = 1
    BY <1>2, <1>8, PageTableAssumption DEF Separate
  <2>3. ASSUME NEW m \in Names, NEW o \in Names, m # o, NEW p \in PagesIn(g, m)
        PROVE  p \notin PagesIn(g, o)
    BY <1>11, <2>3 DEF Separate
  <2>4. ASSUME NEW m \in Names, NEW p \in PagesIn(g, m), p \in Pages
        PROVE  g.table[p].used = 1
    BY <1>8, <1>11, <1>12, <2>4 DEF Separate
  <2>5. ASSUME NEW m \in Names, g.block[m] # Null
        PROVE  /\ g.block[m].size >= 1 /\ g.block[m].start \notin BootReserved
               /\ g.block[m].size = 1 =>
                    /\ g.table[g.block[m].start].linked_to_next = 0
                    /\ g.table[g.block[m].start].linked_to_last = 0
    <3>1. m # n /\ g.block[m] = h.block[m] /\ h.block[m] # Null
      BY <1>9, <2>5
    <3>2. g.table[h.block[m].start] = h.table[h.block[m].start]
      BY <1>8, <1>13, <3>1
    <3> QED
      BY <3>1, <3>2 DEF Separate
  <2> QED
    BY <1>10, <2>1, <2>2, <2>3, <2>4, <2>5 DEF Separate
<1>15. FreePages(g) = FreePages(h) \cup {i} /\ i \notin FreePages(h)
  BY <1>2, <1>4, <1>7, <1>8 DEF FreePages
<1>16. Room(g, k + 1)
  <2>1. Cardinality(FreePages(g)) = Cardinality(FreePages(h)) + 1
    BY <1>15, FreeFinite, FS_AddElement
  <2> QED
    BY <2>1, FreeFinite DEF Room
<1>17. Gaps(g) \subseteq Gaps(h) \cup {i}
  <2> SUFFICES ASSUME NEW q \in Gaps(g), q # i
               PROVE  q \in Gaps(h)
    OBVIOUS
  <2>1. q \in FreePages(h)
    BY <1>15 DEF Gaps
  <2>2. PICK m \in Names : \E p \in PagesIn(g, m) : q < p
    BY DEF Gaps
  <2> QED
    BY <1>11, <2>1, <2>2 DEF Gaps
<1>18. \A m \in Names : m # n /\ h.block[m] # Null =>
         g.table[h.block[m].start] = h.table[h.block[m].start]
  BY <1>8, <1>13
<1> QED
  BY <1>9, <1>14, <1>16, <1>17, <1>18
----------------------------------------------------------------------------
(***************************************************************************)
(* The invariant of the registration.                                      *)
(***************************************************************************)
\* The pointers that are still null when register_drive comes to partition p of
\* drive d, every other drive with a smaller number being done.
Fresh(d, p) ==
    {n \in Names : \/ n[1] \in {"proc_list", "part_start"}
                   \/ n[2] > d
                   \/ n[1] \in {"fs", "fsinfo"} /\ n[2] = d /\ n[3] >= p}

AllNull(h, S) == \A n \in S : h.block[n] = Null

\* What a mounted filesystem keeps, and what the rest of the registration may ask for.
PerPartition == 1 + FsInfoPages

Demand(d, p) ==
    (IF d = 0 THEN 4 + PartitionCount * PerPartition ELSE 2)
    + (PartitionCount - p) * PerPartition + ProcListPages

Registered == {drives[i] : i \in DOMAIN drives} \cup {filesystems[i] : i \in DOMAIN filesystems}

Keeps(h, R) ==
    \A r \in R : /\ r \in Names /\ r[1] \in {"drive", "fs"}
                 /\ h.block[r] # Null /\ h.table[h.block[r].start].used = 1

\* ata_identify_all finds every page free that is not reserved.
IdentifyInv(h) ==
    /\ Separate(h) /\ Gaps(h) = {} /\ AllNull(h, Names)
    /\ Room(h, 7 + 2 * PartitionCount * PerPartition + ProcListPages)

\* Between two partitions at most one free page is below a block: the one that the
\* next page asked for fills.
PartitionInv(h, d, p) ==
    /\ Separate(h) /\ (\E c : Gaps(h) \subseteq {c}) /\ AllNull(h, Fresh(d, p))
    /\ Room(h, Demand(d, p))
    /\ d = 0 => h.block[Name("buffer", 0, 0)].size = 1

SchedulerInv(h) ==
    /\ Separate(h) /\ h.block[Name("proc_list", 0, 0)] = Null
    /\ Room(h, 1)

BootInv ==
    /\ pc \in {"identify", "partitions", "scheduler", "kfork"}
    /\ partition \in 0..PartitionCount
    /\ drives \in Seq(Names)
    /\ filesystems \in Seq(Names)
    /\ Keeps(heap, Registered)
    /\ pc = "identify" => drives = <<>> /\ filesystems = <<>> /\ IdentifyInv(heap)
    /\ pc = "partitions" => CurrentDrive \in DriveNos /\ PartitionInv(heap, CurrentDrive, partition)
    /\ pc = "scheduler" => SchedulerInv(heap)

----------------------------------------------------------------------------
\* The names, and which of them are still null.
LEMMA NamesOf ==
    /\ Name("proc_list", 0, 0) \in Names /\ part_start \in Names
    /\ \A d \in DriveNos : /\ Name("drive", d, 0) \in Names
                           /\ Name("buffer", d, 0) \in Names
                           /\ Name("mbr", d, 0) \in Names
    /\ \A d \in DriveNos : \A p \in 0..(PartitionCount - 1) :
           Name("fs", d, p) \in Names /\ Name("fsinfo", d, p) \in Names
<1>1. Name("proc_list", 0, 0) \in Names /\ part_start \in Names
  BY DEF Names, part_start
<1>2. \A d \in DriveNos : Name("drive", d, 0) \in Names
  BY DEF Names
<1>3. \A d \in DriveNos : Name("buffer", d, 0) \in Names
  BY DEF Names
<1>4. \A d \in DriveNos : Name("mbr", d, 0) \in Names
  BY DEF Names
<1>5. \A d \in DriveNos : \A p \in 0..(PartitionCount - 1) : Name("fs", d, p) \in Names
  BY DEF Names
<1>6. \A d \in DriveNos : \A p \in 0..(PartitionCount - 1) : Name("fsinfo", d, p) \in Names
  BY DEF Names
<1> QED
  BY <1>1, <1>2, <1>3, <1>4, <1>5, <1>6

LEMMA NameParts ==
    \A k, d, p : Name(k, d, p)[1] = k /\ Name(k, d, p)[2] = d /\ Name(k, d, p)[3] = p
  BY DEF Name

LEMMA NameDrives == \A n \in Names : n[2] \in DriveNos /\ n[3] \in Int
<1>1. 0 \in DriveNos
  BY DEF DriveNos
<1> QED
  BY <1>1, BootAssumption DEF Names, Name

\* The registration of drive d takes three names from the fresh ones...
LEMMA FreshDrive ==
    ASSUME NEW d \in DriveNos
    PROVE  /\ Fresh(d, 0) \subseteq
                Names \ {Name("drive", d, 0), Name("buffer", d, 0), Name("mbr", d, 0)}
           /\ d = 1 => Fresh(1, 0) \subseteq Fresh(0, PartitionCount)
           /\ d = 1 => {Name("drive", 1, 0), Name("buffer", 1, 0), Name("mbr", 1, 0)}
                         \subseteq Fresh(0, PartitionCount)
<1>1. Fresh(d, 0) \subseteq
        Names \ {Name("drive", d, 0), Name("buffer", d, 0), Name("mbr", d, 0)}
  BY NameParts DEF Fresh, DriveNos
<1>2. Fresh(1, 0) \subseteq Fresh(0, PartitionCount)
  BY NameDrives DEF Fresh, DriveNos
<1>3. \A k \in {"drive", "buffer", "mbr"} : Name(k, 1, 0) \in Fresh(0, PartitionCount)
  BY NamesOf, NameParts DEF Fresh, DriveNos
<1> QED
  BY <1>1, <1>2, <1>3

\* ... and that of a filesystem two.
LEMMA FreshPartition ==
    ASSUME NEW d \in DriveNos, NEW p \in 0..(PartitionCount - 1)
    PROVE  /\ Fresh(d, p + 1) \subseteq
                Fresh(d, p) \ {Name("fs", d, p), Name("fsinfo", d, p)}
           /\ Name("fs", d, p) \in Fresh(d, p) /\ Name("fsinfo", d, p) \in Fresh(d, p)
<1>0. p \in Int /\ p + 1 > p
  BY BootAssumption
<1>1. Fresh(d, p + 1) \subseteq Fresh(d, p)
  BY <1>0, NameDrives DEF Fresh
<1>2. \A k \in {"fs", "fsinfo"} : Name(k, d, p) \notin Fresh(d, p + 1)
  BY <1>0, NameParts DEF Fresh, DriveNos
<1>3. \A k \in {"fs", "fsinfo"} : Name(k, d, p) \in Fresh(d, p)
  BY <1>0, NamesOf, NameParts DEF Fresh
<1> QED
  BY <1>1, <1>2, <1>3

LEMMA FreshAlways ==
    \A d, p : part_start \in Fresh(d, p) /\ Name("proc_list", 0, 0) \in Fresh(d, p)
  BY NamesOf, NameParts DEF Fresh, part_start

\* The names of the parts are different names.
LEMMA NamesDiffer ==
    \A d, p : /\ part_start # Name("fs", d, p) /\ part_start # Name("fsinfo", d, p)
              /\ Name("fs", d, p) # Name("fsinfo", d, p)
              /\ Name("drive", d, p) # Name("buffer", d, p)
              /\ Name("drive", d, p) # Name("mbr", d, p)
              /\ Name("buffer", d, p) # Name("mbr", d, p)
  BY NameParts DEF part_start

----------------------------------------------------------------------------
\* What a call of kmalloc does when it is asked for a page, or when no gap is left.
Takes(h, g, n, size, k) ==
    /\ Separate(g) /\ Room(g, k)
    /\ g.block[n].size = size /\ g.block[n] # Null
    /\ \A m \in Names : m # n => g.block[m] = h.block[m]
    /\ \A p \in Pages : h.table[p].used = 1 => g.table[p].used = 1
    /\ g.table[g.block[n].start].used = 1

\* One page fills the lowest gap: of two gaps one is left, of one none.
LEMMA TakePage ==
    ASSUME NEW h, Separate(h), NEW k \in Nat, Room(h, k + 1), NEW n \in Names,
           h.block[n] = Null, NEW a, NEW b, Gaps(h) \subseteq {a, b}
    PROVE  /\ Takes(h, kmalloc(h, n, 1), n, 1, k)
           /\ \E c : Gaps(kmalloc(h, n, 1)) \subseteq {c}
           /\ a = b => Gaps(kmalloc(h, n, 1)) = {}
<1> DEFINE g == kmalloc(h, n, 1)
<1>1. \A size \in 1..FirstPage : size = 1 =>
        /\ Takes(h, kmalloc(h, n, size), n, size, k)
        /\ \E i \in FreePages(h) :
             /\ Gaps(kmalloc(h, n, size)) \subseteq Gaps(h) \ {i}
             /\ Gaps(h) # {} => i \in Gaps(h)
  <2> SUFFICES ASSUME NEW size \in 1..FirstPage, size = 1
               PROVE  /\ Takes(h, kmalloc(h, n, size), n, size, k)
                      /\ \E i \in FreePages(h) :
                           /\ Gaps(kmalloc(h, n, size)) \subseteq Gaps(h) \ {i}
                           /\ Gaps(h) # {} => i \in Gaps(h)
    OBVIOUS
  <2>1. Room(h, k + size)
    OBVIOUS
  <2> DEFINE f == kmalloc(h, n, size)
  <2>2. /\ Separate(f) /\ Room(f, k)
        /\ f.block[n].size = size /\ f.block[n] # Null
        /\ \A m \in Names : m # n => f.block[m] = h.block[m]
        /\ \A p \in Pages : h.table[p].used = 1 => f.table[p].used = 1
        /\ f.table[f.block[n].start].used = 1
        /\ \E i \in FreePages(h) :
             Gaps(f) \subseteq Gaps(h) \ {i} /\ (Gaps(h) # {} => i \in Gaps(h))
    BY <2>1, KmallocSeparate
  <2> HIDE DEF f
  <2>3. Takes(h, f, n, size, k)
    BY <2>2 DEF Takes
  <2> QED
    BY <2>2, <2>3 DEF f
<1>2. 1 \in 1..FirstPage
  BY PageTableAssumption
<1>3. Takes(h, g, n, 1, k)
  BY <1>1, <1>2
<1>6. PICK i \in FreePages(h) : Gaps(g) \subseteq Gaps(h) \ {i} /\ (Gaps(h) # {} => i \in Gaps(h))
  BY <1>1, <1>2
<1> HIDE DEF g
<1>4. \E c : Gaps(g) \subseteq {c}
  <2>1. CASE i = a
    BY <1>6, <2>1
  <2>2. CASE i # a
    BY <1>6, <2>2
  <2> QED
    BY <2>1, <2>2
<1>5. a = b => Gaps(g) = {}
  BY <1>6
<1> QED
  BY <1>3, <1>4, <1>5 DEF g

\* A block where no gap is left leaves none.
LEMMA TakeBlock ==
    ASSUME NEW h, Separate(h), NEW size \in 1..FirstPage, NEW k \in Nat, Room(h, k + size),
           NEW n \in Names, h.block[n] = Null, Gaps(h) = {}
    PROVE  /\ Takes(h, kmalloc(h, n, size), n, size, k)
           /\ Gaps(kmalloc(h, n, size)) = {}
<1> DEFINE g == kmalloc(h, n, size)
<1>1. /\ Separate(g) /\ Room(g, k)
      /\ g.block[n].size = size /\ g.block[n] # Null
      /\ \A m \in Names : m # n => g.block[m] = h.block[m]
      /\ \A p \in Pages : h.table[p].used = 1 => g.table[p].used = 1
      /\ g.table[g.block[n].start].used = 1
      /\ \E i \in FreePages(h) :
           Gaps(g) \subseteq Gaps(h) \ {i} /\ (Gaps(h) # {} => i \in Gaps(h))
  BY KmallocSeparate, Zenon
<1> HIDE DEF g
<1>2. Takes(h, g, n, size, k)
  BY <1>1 DEF Takes
<1>3. Gaps(g) = {}
  BY <1>1
<1> QED
  BY <1>2, <1>3 DEF g

\* What kmalloc and kfree keep of the registered drives and filesystems.
LEMMA KeepsTaken ==
    ASSUME NEW h, NEW g, NEW n \in Names, NEW size, NEW k, Takes(h, g, n, size, k), h \in Heap,
           NEW R, Keeps(h, R), NEW N, N \subseteq {n}, n[1] \in {"drive", "fs"} \/ N = {}
    PROVE  Keeps(g, R \cup N)
<1> SUFFICES ASSUME NEW r \in R \cup N
             PROVE  /\ r \in Names /\ r[1] \in {"drive", "fs"}
                    /\ g.block[r] # Null /\ g.table[g.block[r].start].used = 1
  BY DEF Keeps
<1>1. CASE r = n
  <2>1. r[1] \in {"drive", "fs"}
    BY <1>1 DEF Keeps
  <2> QED
    BY <1>1, <2>1 DEF Takes
<1>2. CASE r # n
  <2>1. r \in R
    BY <1>2
  <2>2. /\ r \in Names /\ r[1] \in {"drive", "fs"}
        /\ h.block[r] # Null /\ h.table[h.block[r].start].used = 1
    BY <2>1 DEF Keeps
  <2>3. g.block[r] = h.block[r]
    BY <1>2, <2>2 DEF Takes
  <2>4. h.block[r].start \in Pages
    BY <2>2 DEF Heap, Blocks
  <2> HIDE DEF Pages
  <2>5. g.table[h.block[r].start].used = 1
    BY <2>2, <2>4 DEF Takes
  <2> QED
    BY <2>2, <2>3, <2>5
<1> QED
  BY <1>1, <1>2

LEMMA KeepsOther ==
    ASSUME NEW h, NEW g, NEW n \in Names, NEW size, NEW k, Takes(h, g, n, size, k), h \in Heap,
           NEW R, Keeps(h, R)
    PROVE  Keeps(g, R)
<1>1. Keeps(g, R \cup {})
  BY KeepsTaken
<1> QED
  BY <1>1 DEF Keeps

LEMMA KeepsFreed ==
    ASSUME NEW h, Separate(h), NEW n \in Names, h.block[n].size = 1,
           n[1] \in {"part_start", "buffer"}, NEW R, Keeps(h, R)
    PROVE  Keeps(kfree(h, n), R)
<1> DEFINE g == kfree(h, n)
<1>1. /\ \A m \in Names : m # n => g.block[m] = h.block[m]
      /\ \A m \in Names : m # n /\ h.block[m] # Null =>
            g.table[h.block[m].start] = h.table[h.block[m].start]
  <2>1. PICK k \in Nat : Room(h, k)
    BY FreeFinite DEF Room
  <2> QED
    BY <2>1, KfreeSeparate
<1> HIDE DEF g
<1>2. Keeps(g, R)
  <2> SUFFICES ASSUME NEW r \in R
               PROVE  /\ r \in Names /\ r[1] \in {"drive", "fs"}
                      /\ g.block[r] # Null /\ g.table[g.block[r].start].used = 1
    BY DEF Keeps
  <2>1. /\ r \in Names /\ r[1] \in {"drive", "fs"}
        /\ h.block[r] # Null /\ h.table[h.block[r].start].used = 1
    BY DEF Keeps
  <2>2. r # n
    BY <2>1
  <2> QED
    BY <1>1, <2>1, <2>2
<1> QED
  BY <1>2 DEF g

\* A kfree of a page leaves at most one gap more.
Frees(h, g, n, k) ==
    /\ Separate(g) /\ Room(g, k + 1) /\ g.block[n] = Null
    /\ \A m \in Names : m # n => g.block[m] = h.block[m]
    /\ \E i : Gaps(g) \subseteq Gaps(h) \cup {i}

LEMMA FreePage ==
    ASSUME NEW h, Separate(h), NEW n \in Names, h.block[n].size = 1, NEW k \in Nat, Room(h, k)
    PROVE  Frees(h, kfree(h, n), n, k)
<1> DEFINE g == kfree(h, n)
<1>1. /\ Separate(g) /\ Room(g, k + 1) /\ g.block[n] = Null
      /\ \A m \in Names : m # n => g.block[m] = h.block[m]
      /\ \E i : Gaps(g) \subseteq Gaps(h) \cup {i}
  BY KfreeSeparate
<1> HIDE DEF g
<1>2. Frees(h, g, n, k)
  BY <1>1 DEF Frees
<1> QED
  BY <1>2 DEF g

LEMMA RoomLess ==
    ASSUME NEW h, NEW j \in Nat, NEW k \in Nat, j <= k, Room(h, k)
    PROVE  Room(h, j)
  BY FreeFinite DEF Room

----------------------------------------------------------------------------
\* What is asked for, partition by partition.
LEMMA PagesAsked ==
    /\ PartitionCount \in Nat /\ FsInfoPages \in Nat /\ FsInfoPages >= 1
    /\ ProcListPages \in Nat /\ ProcListPages >= 1
    /\ PerPartition \in Nat /\ PerPartition = 1 + FsInfoPages
  BY PageTableAssumption, BootAssumption DEF PerPartition

LEMMA Product == \A a \in Nat : \A b \in Nat : a * b \in Nat
  OBVIOUS

LEMMA DemandType ==
    ASSUME NEW d \in DriveNos, NEW p \in 0..PartitionCount
    PROVE  Demand(d, p) \in Nat /\ Demand(d, p) >= 3
<1>1. PartitionCount - p \in Nat
  BY PagesAsked
<1>2. (PartitionCount - p) * PerPartition \in Nat /\ PartitionCount * PerPartition \in Nat
  BY <1>1, PagesAsked, Product
<1> QED
  BY <1>2, PagesAsked DEF Demand

LEMMA DemandStep ==
    ASSUME NEW d \in DriveNos, NEW p \in 0..(PartitionCount - 1)
    PROVE  Demand(d, p) = Demand(d, p + 1) + 1 + FsInfoPages
<1> DEFINE a == PartitionCount - (p + 1)
<1>1. a \in Nat /\ PartitionCount - p = a + 1
  BY PagesAsked
<1>2. \A x \in Nat : \A y \in Nat : (x + 1) * y = x * y + y
  OBVIOUS
<1> HIDE DEF a
<1>3. (PartitionCount - p) * PerPartition = a * PerPartition + PerPartition
  BY <1>1, <1>2, PagesAsked
<1>4. a * PerPartition \in Nat /\ PartitionCount * PerPartition \in Nat
  BY <1>1, PagesAsked, Product
<1>5. a = PartitionCount - (p + 1)
  BY DEF a
<1> QED
  BY <1>3, <1>4, <1>5, PagesAsked DEF Demand

LEMMA DemandDrive ==
    /\ 7 + 2 * PartitionCount * PerPartition + ProcListPages = Demand(0, 0) + 3
    /\ Demand(0, PartitionCount) + 1 = Demand(1, 0) + 3
<1>1. /\ PartitionCount - 0 = PartitionCount
      /\ PartitionCount - PartitionCount = 0
  BY PagesAsked
<1>2. 0 * PerPartition = 0 /\ PartitionCount * PerPartition \in Nat
  BY PagesAsked, Product
<1>3. 2 * PartitionCount * PerPartition = PartitionCount * PerPartition + PartitionCount * PerPartition
  BY PagesAsked
<1> QED
  BY <1>1, <1>2, <1>3, PagesAsked DEF Demand

----------------------------------------------------------------------------
\* ata_identify takes two pages for a drive and register_drive one.
TakesDrive(h, g, d, k) ==
    /\ Separate(g) /\ (\E c : Gaps(g) \subseteq {c}) /\ Room(g, k)
    /\ g.block[Name("buffer", d, 0)].size = 1
    /\ \A n \in Names \ {Name("drive", d, 0), Name("buffer", d, 0), Name("mbr", d, 0)} :
         g.block[n] = h.block[n]

LEMMA RegisterHeap ==
    ASSUME NEW h, Separate(h), NEW a, NEW b, Gaps(h) \subseteq {a, b},
           NEW k \in Nat, Room(h, k + 3), NEW d \in DriveNos,
           AllNull(h, {Name("drive", d, 0), Name("buffer", d, 0), Name("mbr", d, 0)}),
           NEW R, Keeps(h, R),
           NEW g, g = kmalloc(Identified(h, d), Name("mbr", d, 0), 1)
    PROVE  TakesDrive(h, g, d, k) /\ Keeps(g, R \cup {Name("drive", d, 0)})
<1> DEFINE D == Name("drive", d, 0)
           B == Name("buffer", d, 0)
           M == Name("mbr", d, 0)
           h1 == kmalloc(h, D, 1)
           h2 == kmalloc(h1, B, 1)
<1>1. D \in Names /\ B \in Names /\ M \in Names /\ D # B /\ D # M /\ B # M
  BY NamesOf, NamesDiffer
<1>2. D[1] = "drive"
  BY NameParts
<1>3. h.block[D] = Null /\ h.block[B] = Null /\ h.block[M] = Null
  BY DEF AllNull
<1>4. g = kmalloc(h2, M, 1)
  BY DEF Identified
<1> HIDE DEF D, B, M
<1>5. k + 1 \in Nat /\ k + 2 \in Nat /\ (k + 1) + 1 = k + 2 /\ (k + 2) + 1 = k + 3
  OBVIOUS
<1>6. Takes(h, h1, D, 1, k + 2) /\ \E c : Gaps(h1) \subseteq {c}
  BY <1>1, <1>3, <1>5, TakePage
<1> HIDE DEF h1
<1>7. PICK c : Gaps(h1) \subseteq {c, c}
  BY <1>6
<1>8. h1.block[B] = Null /\ h1.block[M] = Null /\ Separate(h1) /\ Room(h1, (k + 1) + 1)
  BY <1>1, <1>3, <1>5, <1>6 DEF Takes
<1>9. Takes(h1, h2, B, 1, k + 1) /\ Gaps(h2) = {}
  BY <1>1, <1>5, <1>7, <1>8, TakePage
<1> HIDE DEF h2
<1>10. h2.block[M] = Null /\ Separate(h2) /\ Room(h2, k + 1) /\ Gaps(h2) \subseteq {c, c}
  BY <1>1, <1>8, <1>9 DEF Takes
<1>11. Takes(h2, g, M, 1, k) /\ Gaps(g) = {}
  BY <1>1, <1>4, <1>10, TakePage
<1>12. Keeps(h1, R \cup {D})
  BY <1>1, <1>2, <1>6, KeepsTaken DEF Separate
<1>13. Keeps(h2, R \cup {D})
  BY <1>1, <1>8, <1>9, <1>12, KeepsOther DEF Separate
<1>14. Keeps(g, R \cup {D})
  BY <1>1, <1>10, <1>11, <1>13, KeepsOther DEF Separate
<1>16. \A n \in Names \ {D, B, M} : g.block[n] = h.block[n]
  BY <1>6, <1>9, <1>11 DEF Takes
<1>17. g.block[B].size = 1
  BY <1>1, <1>9, <1>11 DEF Takes
<1>18. Separate(g) /\ Room(g, k) /\ \E e : Gaps(g) \subseteq {e}
  BY <1>11 DEF Takes
<1> QED
  BY <1>14, <1>16, <1>17, <1>18 DEF D, B, M, TakesDrive

\* A partition that is skipped.
LEMMA SkipHeap ==
    ASSUME NEW h, NEW d \in DriveNos, NEW p \in 0..(PartitionCount - 1), PartitionInv(h, d, p)
    PROVE  PartitionInv(h, d, p + 1)
<1>1. p \in 0..PartitionCount /\ p + 1 \in 0..PartitionCount
  BY PagesAsked
<1>2. Demand(d, p) \in Nat /\ Demand(d, p + 1) \in Nat
  BY <1>1, DemandType
<1>3. Room(h, Demand(d, p + 1))
  BY <1>2, DemandStep, PagesAsked, RoomLess DEF PartitionInv
<1>4. AllNull(h, Fresh(d, p + 1))
  BY FreshPartition DEF PartitionInv, AllNull
<1> QED
  BY <1>3, <1>4 DEF PartitionInv

\* The page for the first sectors of a partition fills the gap.
LEMMA StartHeap ==
    ASSUME NEW h, NEW d \in DriveNos, NEW p \in 0..(PartitionCount - 1), PartitionInv(h, d, p),
           NEW R, Keeps(h, R), NEW k \in Nat, k + 1 = Demand(d, p + 1),
           NEW h1, h1 = kmalloc(h, part_start, 1)
    PROVE  /\ Takes(h, h1, part_start, 1, k + 1 + FsInfoPages) /\ Gaps(h1) = {}
           /\ Keeps(h1, R)
<1>1. part_start \in Names /\ h.block[part_start] = Null
  BY NamesOf, FreshAlways DEF PartitionInv, AllNull
<1>2. PICK c : Gaps(h) \subseteq {c, c}
  BY DEF PartitionInv
<1>3. k + 1 + FsInfoPages \in Nat /\ Demand(d, p) = (k + 1 + FsInfoPages) + 1
  BY DemandStep, PagesAsked
<1>4. Separate(h) /\ Room(h, (k + 1 + FsInfoPages) + 1)
  BY <1>3 DEF PartitionInv
<1>5. Takes(h, h1, part_start, 1, k + 1 + FsInfoPages) /\ Gaps(h1) = {}
  BY <1>1, <1>2, <1>3, <1>4, TakePage
<1>6. Keeps(h1, R)
  BY <1>1, <1>4, <1>5, KeepsOther DEF Separate
<1> QED
  BY <1>5, <1>6

\* The page is freed again, whatever was taken after it.
LEMMA EndHeap ==
    ASSUME NEW h, NEW d \in DriveNos, NEW p \in 0..(PartitionCount - 1), PartitionInv(h, d, p),
           NEW g, Separate(g), Gaps(g) = {}, NEW k \in Nat, k + 1 = Demand(d, p + 1), Room(g, k),
           g.block[part_start].size = 1,
           \A n \in Names \ {part_start, Name("fs", d, p), Name("fsinfo", d, p)} :
                g.block[n] = h.block[n],
           NEW R, Keeps(g, R)
    PROVE  /\ PartitionInv(kfree(g, part_start), d, p + 1)
           /\ Keeps(kfree(g, part_start), R)
<1> DEFINE f == kfree(g, part_start)
<1>1. part_start \in Names /\ part_start[1] = "part_start"
  BY NamesOf, NameParts DEF part_start
<1>2. Frees(g, f, part_start, k)
  BY <1>1, FreePage
<1>3. Keeps(f, R)
  BY <1>1, KeepsFreed
<1> HIDE DEF f
<1>4. ASSUME NEW n \in Fresh(d, p + 1)
      PROVE  f.block[n] = Null
  <2>1. n \in Names /\ n \in Fresh(d, p) /\ n # Name("fs", d, p) /\ n # Name("fsinfo", d, p)
    BY FreshPartition DEF Fresh
  <2>2. CASE n = part_start
    BY <1>2, <2>2 DEF Frees
  <2>3. CASE n # part_start
    <3>1. f.block[n] = g.block[n] /\ g.block[n] = h.block[n]
      BY <1>2, <2>1, <2>3 DEF Frees
    <3> QED
      BY <2>1, <3>1 DEF PartitionInv, AllNull
  <2> QED
    BY <2>2, <2>3
<1>5. d = 0 => f.block[Name("buffer", 0, 0)].size = 1
  <2> DEFINE B == Name("buffer", 0, 0)
  <2>1. B \in Names
    BY NamesOf DEF DriveNos
  <2>2. B # part_start /\ B # Name("fs", d, p) /\ B # Name("fsinfo", d, p)
    BY NameParts DEF part_start
  <2> HIDE DEF B
  <2>3. f.block[B] = h.block[B]
    BY <1>2, <2>1, <2>2 DEF Frees
  <2> QED
    BY <2>3 DEF PartitionInv, B
<1>6. Separate(f) /\ Room(f, Demand(d, p + 1)) /\ \E c : Gaps(f) \subseteq {c}
  BY <1>2 DEF Frees
<1>7. PartitionInv(f, d, p + 1)
  BY <1>4, <1>5, <1>6 DEF PartitionInv, AllNull
<1> QED
  BY <1>3, <1>7 DEF f

LEMMA NotFatHeap ==
    ASSUME NEW h, NEW d \in DriveNos, NEW p \in 0..(PartitionCount - 1), PartitionInv(h, d, p),
           NEW R, Keeps(h, R)
    PROVE  /\ PartitionInv(kfree(kmalloc(h, part_start, 1), part_start), d, p + 1)
           /\ Keeps(kfree(kmalloc(h, part_start, 1), part_start), R)
<1> DEFINE g == kmalloc(h, part_start, 1)
           k == Demand(d, p + 1) - 1
<1>1. k \in Nat /\ k + 1 = Demand(d, p + 1)
  <2>1. p + 1 \in 0..PartitionCount
    BY PagesAsked
  <2> QED
    BY <2>1, DemandType
<1> HIDE DEF k
<1>2. Takes(h, g, part_start, 1, k + 1 + FsInfoPages) /\ Gaps(g) = {} /\ Keeps(g, R)
  BY <1>1, StartHeap
<1> HIDE DEF g
<1>3. Room(g, k)
  BY <1>1, <1>2, PagesAsked, RoomLess DEF Takes
<1>4. /\ Separate(g) /\ g.block[part_start].size = 1
      /\ \A n \in Names \ {part_start, Name("fs", d, p), Name("fsinfo", d, p)} :
           g.block[n] = h.block[n]
  BY <1>2 DEF Takes
<1>5. PartitionInv(kfree(g, part_start), d, p + 1) /\ Keeps(kfree(g, part_start), R)
  BY <1>1, <1>2, <1>3, <1>4, EndHeap
<1> QED
  BY <1>5 DEF g

\* The structure of a filesystem, and the block of the FSInfo sectors, which is asked for
\* when no gap is left.
LEMMA MountHeap ==
    ASSUME NEW h, NEW d \in DriveNos, NEW p \in 0..(PartitionCount - 1), PartitionInv(h, d, p),
           NEW R, Keeps(h, R),
           NEW found, found = kmalloc(kmalloc(h, part_start, 1), Name("fs", d, p), 1),
           NEW g, g = found \/ g = kmalloc(found, Name("fsinfo", d, p), FsInfoPages)
    PROVE  /\ PartitionInv(kfree(g, part_start), d, p + 1)
           /\ Keeps(kfree(g, part_start), R \cup {Name("fs", d, p)})
<1> DEFINE h1 == kmalloc(h, part_start, 1)
           fs == Name("fs", d, p)
           fsinfo == Name("fsinfo", d, p)
           k == Demand(d, p + 1) - 1
<1>1. k \in Nat /\ k + 1 = Demand(d, p + 1)
  <2>1. p + 1 \in 0..PartitionCount
    BY PagesAsked
  <2> QED
    BY <2>1, DemandType
<1> HIDE DEF k
<1>2. Takes(h, h1, part_start, 1, k + 1 + FsInfoPages) /\ Gaps(h1) = {} /\ Keeps(h1, R)
  BY <1>1, StartHeap
<1>3. /\ fs \in Names /\ fsinfo \in Names /\ part_start \in Names
      /\ fs # fsinfo /\ fs # part_start /\ fsinfo # part_start /\ fs[1] = "fs"
  BY NamesOf, NamesDiffer, NameParts
<1>4. h.block[fs] = Null /\ h.block[fsinfo] = Null
  BY FreshPartition DEF PartitionInv, AllNull
<1>5. found = kmalloc(h1, fs, 1) /\ (g = found \/ g = kmalloc(found, fsinfo, FsInfoPages))
  OBVIOUS
<1> HIDE DEF h1
<1>6. h1.block[fs] = Null /\ h1.block[fsinfo] = Null /\ Separate(h1) /\ Room(h1, k + 1 + FsInfoPages)
  BY <1>2, <1>3, <1>4 DEF Takes
<1>7. Takes(h1, found, fs, 1, k + FsInfoPages) /\ Gaps(found) = {}
  <2>1. k + FsInfoPages \in Nat /\ k + 1 + FsInfoPages = (k + FsInfoPages) + 1
    BY <1>1, PagesAsked
  <2>2. Gaps(h1) \subseteq {0, 0}
    BY <1>2
  <2> QED
    BY <1>3, <1>5, <1>6, <2>1, <2>2, TakePage
<1>8. Keeps(found, R \cup {fs})
  BY <1>2, <1>3, <1>6, <1>7, KeepsTaken DEF Separate
<1>9. /\ found.block[fsinfo] = Null /\ Separate(found) /\ Room(found, k + FsInfoPages)
      /\ found.block[part_start].size = 1
  BY <1>2, <1>3, <1>6, <1>7 DEF Takes
<1>10. \A n \in Names \ {part_start, fs, fsinfo} : found.block[n] = h.block[n]
  BY <1>2, <1>7 DEF Takes
<1> HIDE DEF fs, fsinfo
<1>11. /\ Separate(g) /\ Gaps(g) = {} /\ Room(g, k) /\ g.block[part_start].size = 1
       /\ \A n \in Names \ {part_start, fs, fsinfo} : g.block[n] = h.block[n]
       /\ Keeps(g, R \cup {fs})
  <2>1. CASE g = found
    <3>1. Room(found, k)
      BY <1>1, <1>9, PagesAsked, RoomLess
    <3> QED
      BY <1>7, <1>8, <1>9, <1>10, <2>1, <3>1
  <2>2. CASE g = kmalloc(found, fsinfo, FsInfoPages)
    <3>1. FsInfoPages \in 1..FirstPage
      BY BootAssumption
    <3>2. Takes(found, g, fsinfo, FsInfoPages, k) /\ Gaps(g) = {}
      BY <1>1, <1>3, <1>7, <1>9, <2>2, <3>1, TakeBlock
    <3>3. Keeps(g, R \cup {fs})
      BY <1>3, <1>8, <1>9, <3>2, KeepsOther DEF Separate
    <3>4. \A n \in Names : n # fsinfo => g.block[n] = found.block[n]
      BY <3>2 DEF Takes
    <3>5. Separate(g) /\ Room(g, k)
      BY <3>2 DEF Takes
    <3>6. \A n \in Names \ {part_start, fs, fsinfo} : g.block[n] = h.block[n]
      BY <1>10, <3>4
    <3>7. g.block[part_start].size = 1
      BY <1>3, <1>9, <3>4
    <3> QED
      BY <3>2, <3>3, <3>5, <3>6, <3>7
  <2> QED
    BY <1>5, <2>1, <2>2
<1>12. /\ PartitionInv(kfree(g, part_start), d, p + 1)
       /\ Keeps(kfree(g, part_start), R \cup {fs})
  BY <1>1, <1>11, EndHeap DEF fs, fsinfo
<1> QED
  BY <1>12 DEF fs

----------------------------------------------------------------------------
\* At boot every page that is not reserved is free and no pointer is set.
LEMMA BootHeap ==
    ASSUME NEW h, h = [table |-> BootTable, block |-> [n \in Names |-> Null]]
    PROVE  IdentifyInv(h)
<1>1. h.table = BootTable /\ h.block = [n \in Names |-> Null]
  OBVIOUS
<1>2. /\ ReservedEntry \in Entry /\ ReservedEntry.used = 1 /\ ReservedEntry.unusable = 0
      /\ FreeEntry \in Entry /\ FreeEntry.used = 0 /\ FreeEntry.unusable = 0
  BY PageTableAssumption DEF ReservedEntry, FreeEntry, Entry
<1>3. \A p \in Pages : h.table[p] = IF p \in BootReserved THEN ReservedEntry ELSE FreeEntry
  BY <1>1 DEF BootTable
<1>4. \A n \in Names : h.block[n] = Null
  BY <1>1
<1>5. h \in Heap
  <2>1. Null \in Blocks
    BY PageTableAssumption DEF Null, Blocks
  <2>2. h.block \in [Names -> Blocks]
    BY <1>1, <2>1
  <2>3. h.table \in [Pages -> Entry]
    BY <1>1, <1>2 DEF BootTable
  <2> QED
    BY <1>1, <2>2, <2>3 DEF Heap
<1>6. \A n \in Names : PagesIn(h, n) = {}
  BY <1>4 DEF PagesIn, Null
<1>7. Separate(h)
  <2>1. \A p \in Pages : h.table[p].unusable = 0
    BY <1>2, <1>3
  <2>2. \A p \in BootReserved : h.table[p].used = 1
    BY <1>2, <1>3, PageTableAssumption
  <2> QED
    BY <1>4, <1>5, <1>6, <2>1, <2>2 DEF Separate
<1>8. Gaps(h) = {}
  BY <1>6 DEF Gaps
<1>9. Room(h, 7 + 2 * PartitionCount * PerPartition + ProcListPages)
  <2>1. FreePages(h) = Pages \ BootReserved
    BY <1>2, <1>3 DEF FreePages
  <2>2. Cardinality(Pages \ BootReserved)
          >= 7 + 2 * PartitionCount * PerPartition + ProcListPages
    BY BootAssumption DEF PerPartition
  <2> QED
    BY <2>1, <2>2 DEF Room
<1> QED
  BY <1>4, <1>7, <1>8, <1>9 DEF IdentifyInv, AllNull

\* The elements of a sequence after Append.
LEMMA AppendElements ==
    ASSUME NEW S, NEW s \in Seq(S), NEW e \in S, NEW t, t = Append(s, e)
    PROVE  /\ t \in Seq(S)
           /\ {t[i] : i \in DOMAIN t} \subseteq {s[i] : i \in DOMAIN s} \cup {e}
<1>1. t \in Seq(S) /\ Len(t) = Len(s) + 1 /\ Len(s) \in Nat
  OBVIOUS
<1>2. \A i \in 1..Len(s) : t[i] = s[i]
  OBVIOUS
<1>3. t[Len(s) + 1] = e
  OBVIOUS
<1>4. DOMAIN t = 1..(Len(s) + 1) /\ DOMAIN s = 1..Len(s)
  BY <1>1
<1>5. \A i \in 1..(Len(s) + 1) : i \in 1..Len(s) \/ i = Len(s) + 1
  BY <1>1
<1> QED
  BY <1>1, <1>2, <1>3, <1>4, <1>5

LEMMA KeepsFewer == ASSUME NEW h, NEW R, Keeps(h, R), NEW Q, Q \subseteq R PROVE Keeps(h, Q)
  BY DEF Keeps

----------------------------------------------------------------------------
LEMMA BootInit == Init => BootInv
<1> SUFFICES ASSUME Init
             PROVE  BootInv
  OBVIOUS
<1>1. IdentifyInv(heap)
  BY BootHeap DEF Init
<1>2. Keeps(heap, Registered)
  <2>1. Registered = {}
    BY DEF Init, Registered
  <2> QED
    BY <2>1 DEF Keeps
<1>3. drives \in Seq(Names) /\ filesystems \in Seq(Names) /\ partition \in 0..PartitionCount
  BY PagesAsked DEF Init
<1> QED
  BY <1>1, <1>2, <1>3 DEF Init, BootInv

\* The step of register_drive: what is left to show is that the heap is as it should be.
LEMMA RegisterStep ==
    ASSUME BootInv, NEW h, NEW d \in DriveNos, register_drive(Identified(h, d), d),
           UNCHANGED filesystems, Len(drives) = d,
           Separate(h), NEW a, NEW b, Gaps(h) \subseteq {a, b}, Room(h, Demand(d, 0) + 3),
           AllNull(h, Fresh(d, 0)),
           AllNull(h, {Name("drive", d, 0), Name("buffer", d, 0), Name("mbr", d, 0)}),
           Keeps(h, Registered)
    PROVE  BootInv'
<1> DEFINE D == Name("drive", d, 0)
           B == Name("buffer", d, 0)
           M == Name("mbr", d, 0)
<1>1. /\ drives' = Append(drives, D) /\ heap' = kmalloc(Identified(h, d), M, 1)
      /\ pc' = "partitions" /\ partition' = 0
  BY DEF register_drive
<1>2. 0 \in 0..PartitionCount
  BY PagesAsked
<1>3. Demand(d, 0) \in Nat
  BY <1>2, DemandType
<1>4. /\ Separate(heap') /\ (\E c : Gaps(heap') \subseteq {c}) /\ Room(heap', Demand(d, 0))
      /\ heap'.block[B].size = 1
      /\ \A n \in Names \ {D, B, M} : heap'.block[n] = h.block[n]
      /\ Keeps(heap', Registered \cup {D})
  <2>1. PICK g : g = kmalloc(Identified(h, d), M, 1)
    OBVIOUS
  <2>2. TakesDrive(h, g, d, Demand(d, 0)) /\ Keeps(g, Registered \cup {D})
    BY <1>3, <2>1, RegisterHeap
  <2> QED
    BY <1>1, <2>1, <2>2 DEF TakesDrive
<1>5. AllNull(heap', Fresh(d, 0))
  <2>1. Fresh(d, 0) \subseteq Names \ {D, B, M}
    BY FreshDrive
  <2> HIDE DEF D, B, M
  <2> QED
    BY <1>4, <2>1 DEF AllNull
<1>6. d = 0 => heap'.block[Name("buffer", 0, 0)].size = 1
  BY <1>4
<1>7. PartitionInv(heap', d, 0)
  BY <1>4, <1>5, <1>6 DEF PartitionInv
<1>9. D \in Names
  BY NamesOf
<1>8. drives \in Seq(Names)
  BY DEF BootInv
<1>10. /\ drives' \in Seq(Names)
       /\ {drives'[i] : i \in DOMAIN drives'} \subseteq {drives[i] : i \in DOMAIN drives} \cup {D}
  BY <1>1, <1>8, <1>9, AppendElements
<1>11. Keeps(heap', Registered')
  <2>1. Registered' \subseteq Registered \cup {D}
    BY <1>10 DEF Registered
  <2> QED
    BY <1>4, <2>1, KeepsFewer
<1>12. CurrentDrive' = d
  BY <1>1, <1>8, <1>9 DEF CurrentDrive, DriveNos
<1> QED
  BY <1>1, <1>2, <1>7, <1>10, <1>11, <1>12 DEF BootInv

LEMMA IdentifyStep == BootInv /\ ata_identify_all => BootInv'
<1> SUFFICES ASSUME BootInv, ata_identify_all
             PROVE  BootInv'
  OBVIOUS
<1>1. /\ drives = <<>> /\ filesystems = <<>> /\ pc = "identify" /\ filesystems' = filesystems
      /\ Separate(heap) /\ Gaps(heap) = {} /\ AllNull(heap, Names) /\ Keeps(heap, Registered)
      /\ Room(heap, Demand(0, 0) + 3)
  BY DemandDrive DEF BootInv, IdentifyInv, ata_identify_all
<1>2. 0 \in DriveNos /\ 0 \in 0..PartitionCount
  BY PagesAsked DEF DriveNos
<1>3. Demand(0, 0) \in Nat /\ Demand(0, 0) >= 3
  BY <1>2, DemandType
<1>4. CASE register_drive(Identified(heap, 0), 0)
  <2>1. Len(drives) = 0
    BY <1>1
  <2>2. AllNull(heap, Fresh(0, 0))
    BY <1>1 DEF AllNull, Fresh
  <2>3. AllNull(heap, {Name("drive", 0, 0), Name("buffer", 0, 0), Name("mbr", 0, 0)})
    BY <1>1, <1>2, NamesOf DEF AllNull
  <2>4. Gaps(heap) \subseteq {0, 0}
    BY <1>1
  <2> QED
    BY <1>1, <1>2, <1>4, <2>1, <2>2, <2>3, <2>4, RegisterStep
<1>5. CASE /\ heap' = kmalloc(heap, Name("drive", 0, 0), 1)
           /\ pc' = "scheduler" /\ UNCHANGED <<drives, partition>>
  <2> DEFINE D == Name("drive", 0, 0)
             L == Name("proc_list", 0, 0)
  <2>1. D \in Names /\ L \in Names /\ D # L
    BY <1>2, NamesOf, NameParts
  <2>2. heap.block[D] = Null /\ heap.block[L] = Null
    BY <1>1, <2>1 DEF AllNull
  <2>3. Gaps(heap) \subseteq {0, 0}
    BY <1>1
  <2>4. Demand(0, 0) + 2 \in Nat /\ (Demand(0, 0) + 2) + 1 = Demand(0, 0) + 3
    BY <1>3
  <2>5. Takes(heap, heap', D, 1, Demand(0, 0) + 2)
    BY <1>1, <1>5, <2>1, <2>2, <2>3, <2>4, TakePage
  <2> HIDE DEF D, L
  <2>6. Separate(heap') /\ heap'.block[L] = Null
    BY <2>1, <2>2, <2>5 DEF Takes
  <2>7. Room(heap', 1)
    BY <1>3, <2>4, <2>5, RoomLess DEF Takes
  <2>8. SchedulerInv(heap')
    BY <2>6, <2>7 DEF SchedulerInv, L
  <2>9. Keeps(heap', Registered')
    <3>1. Registered' = Registered
      BY <1>1, <1>5 DEF Registered
    <3>2. Keeps(heap', Registered)
      BY <1>1, <2>1, <2>5, KeepsOther DEF Separate
    <3> QED
      BY <3>1, <3>2
  <2> QED
    BY <1>1, <1>5, <2>8, <2>9 DEF BootInv
<1> QED
  BY <1>4, <1>5 DEF ata_identify_all

\* The steps that go on to the next partition change the heap and the filesystems only.
LEMMA PartitionStep ==
    ASSUME BootInv, NextPartition, UNCHANGED <<drives, pc>>, filesystems' \in Seq(Names),
           PartitionInv(heap, CurrentDrive, partition)
             /\ CurrentDrive \in DriveNos /\ partition \in 0..(PartitionCount - 1)
             => /\ PartitionInv(heap', CurrentDrive, partition + 1)
                /\ Keeps(heap', Registered')
    PROVE  BootInv'
<1>1. /\ pc = "partitions" /\ pc' = pc /\ drives' = drives /\ partition' = partition + 1
      /\ partition < PartitionCount
  BY DEF NextPartition
<1>2. PartitionInv(heap, CurrentDrive, partition) /\ CurrentDrive \in DriveNos
  BY <1>1 DEF BootInv
<1>3. partition \in 0..(PartitionCount - 1) /\ partition' \in 0..PartitionCount
  BY <1>1, PagesAsked DEF BootInv
<1>4. PartitionInv(heap', CurrentDrive, partition + 1) /\ Keeps(heap', Registered')
  BY <1>2, <1>3
<1>5. CurrentDrive' = CurrentDrive
  BY <1>1 DEF CurrentDrive
<1> QED
  BY <1>1, <1>2, <1>3, <1>4, <1>5 DEF BootInv

LEMMA SkippedStep == BootInv /\ partition_skipped => BootInv'
<1> SUFFICES ASSUME BootInv, partition_skipped
             PROVE  BootInv'
  OBVIOUS
<1>1. /\ NextPartition /\ heap' = heap /\ drives' = drives /\ filesystems' = filesystems
      /\ pc' = pc /\ filesystems \in Seq(Names)
  BY DEF partition_skipped, BootInv
<1>2. Registered' = Registered /\ Keeps(heap, Registered)
  BY <1>1 DEF Registered, BootInv
<1>3. ASSUME PartitionInv(heap, CurrentDrive, partition), CurrentDrive \in DriveNos,
             partition \in 0..(PartitionCount - 1)
      PROVE  PartitionInv(heap, CurrentDrive, partition + 1)
  BY <1>3, SkipHeap
<1> QED
  BY <1>1, <1>2, <1>3, PartitionStep

LEMMA NotFatStep == BootInv /\ partition_not_fat => BootInv'
<1> SUFFICES ASSUME BootInv, partition_not_fat
             PROVE  BootInv'
  OBVIOUS
<1>1. /\ NextPartition /\ heap' = kfree(kmalloc(heap, part_start, 1), part_start)
      /\ drives' = drives /\ filesystems' = filesystems
      /\ pc' = pc /\ filesystems \in Seq(Names)
  BY DEF partition_not_fat, BootInv
<1>2. Registered' = Registered /\ Keeps(heap, Registered)
  BY <1>1 DEF Registered, BootInv
<1>3. ASSUME PartitionInv(heap, CurrentDrive, partition), CurrentDrive \in DriveNos,
             partition \in 0..(PartitionCount - 1)
      PROVE  PartitionInv(heap', CurrentDrive, partition + 1) /\ Keeps(heap', Registered)
  <2>1. /\ PartitionInv(kfree(kmalloc(heap, part_start, 1), part_start), CurrentDrive, partition + 1)
        /\ Keeps(kfree(kmalloc(heap, part_start, 1), part_start), Registered)
    BY <1>2, <1>3, NotFatHeap
  <2> QED
    BY <1>1, <2>1
<1> QED
  BY <1>1, <1>2, <1>3, PartitionStep

LEMMA MountStep ==
    ASSUME BootInv, NEW type, Mount(type)
    PROVE  BootInv'
<1> DEFINE fs     == Name("fs", CurrentDrive, partition)
           fsinfo == Name("fsinfo", CurrentDrive, partition)
           found  == kmalloc(kmalloc(heap, part_start, 1), fs, 1)
           g      == IF type = "FAT32" THEN kmalloc(found, fsinfo, FsInfoPages) ELSE found
<1>1. /\ NextPartition /\ heap' = kfree(g, part_start) /\ filesystems' = Append(filesystems, fs)
      /\ drives' = drives /\ pc' = pc /\ filesystems \in Seq(Names) /\ Keeps(heap, Registered)
  BY DEF Mount, BootInv
<1>2. /\ pc = "partitions" /\ partition < PartitionCount
  BY <1>1 DEF NextPartition
<1>3. CurrentDrive \in DriveNos /\ partition \in 0..(PartitionCount - 1)
  BY <1>2, PagesAsked DEF BootInv
<1>4. fs \in Names
  BY <1>3, NamesOf
<1>5. g = found \/ g = kmalloc(found, fsinfo, FsInfoPages)
  OBVIOUS
<1>6. ASSUME PartitionInv(heap, CurrentDrive, partition)
      PROVE  /\ PartitionInv(kfree(g, part_start), CurrentDrive, partition + 1)
             /\ Keeps(kfree(g, part_start), Registered \cup {fs})
  <2> HIDE DEF g
  <2> QED
    BY <1>1, <1>3, <1>5, <1>6, MountHeap
<1> HIDE DEF fs, g
<1>7. /\ filesystems' \in Seq(Names)
      /\ {filesystems'[i] : i \in DOMAIN filesystems'}
           \subseteq {filesystems[i] : i \in DOMAIN filesystems} \cup {fs}
  BY <1>1, <1>4, AppendElements
<1>8. Registered' \subseteq Registered \cup {fs}
  BY <1>1, <1>7 DEF Registered
<1>9. ASSUME PartitionInv(heap, CurrentDrive, partition)
      PROVE  PartitionInv(heap', CurrentDrive, partition + 1) /\ Keeps(heap', Registered')
  BY <1>1, <1>6, <1>8, <1>9, KeepsFewer
<1> QED
  BY <1>1, <1>7, <1>9, PartitionStep

LEMMA SlaveStep == BootInv /\ identify_slave => BootInv'
<1> SUFFICES ASSUME BootInv, identify_slave
             PROVE  BootInv'
  OBVIOUS
<1> DEFINE B == Name("buffer", 0, 0)
           h == kfree(heap, B)
           L == Name("proc_list", 0, 0)
<1>1. /\ pc = "partitions" /\ partition = PartitionCount /\ CurrentDrive = 0
      /\ \/ register_drive(Identified(h, 1), 1)
         \/ heap' = h /\ pc' = "scheduler" /\ UNCHANGED <<drives, partition>>
      /\ filesystems' = filesystems
  BY DEF identify_slave
<1>2. PartitionInv(heap, 0, PartitionCount) /\ Keeps(heap, Registered)
  BY <1>1 DEF BootInv
<1>3. /\ Separate(heap) /\ (\E c : Gaps(heap) \subseteq {c})
      /\ AllNull(heap, Fresh(0, PartitionCount))
      /\ Room(heap, Demand(0, PartitionCount)) /\ heap.block[B].size = 1
  BY <1>2 DEF PartitionInv
<1>4. 0 \in DriveNos /\ 1 \in DriveNos /\ PartitionCount \in 0..PartitionCount
  BY PagesAsked DEF DriveNos
<1>5. B \in Names /\ L \in Names /\ B[1] = "buffer" /\ B # L
  BY <1>4, NamesOf, NameParts
<1>6. Demand(0, PartitionCount) \in Nat /\ Demand(0, PartitionCount) >= 3
  BY <1>4, DemandType
<1> HIDE DEF L, B
<1>7. Frees(heap, h, B, Demand(0, PartitionCount))
  BY <1>3, <1>5, <1>6, FreePage
<1>8. Keeps(h, Registered)
  BY <1>2, <1>3, <1>5, KeepsFreed
<1> HIDE DEF h
<1>9. AllNull(h, Fresh(0, PartitionCount))
  <2>1. Fresh(0, PartitionCount) \subseteq Names
    BY DEF Fresh
  <2>2. \A n \in Names : h.block[n] = Null \/ h.block[n] = heap.block[n]
    BY <1>7 DEF Frees
  <2> QED
    BY <1>3, <2>1, <2>2 DEF AllNull
<1>10. CASE register_drive(Identified(h, 1), 1)
  <2>1. PICK a : Gaps(heap) \subseteq {a}
    BY <1>3
  <2>2. PICK b : Gaps(h) \subseteq Gaps(heap) \cup {b}
    BY <1>7 DEF Frees
  <2>3. Gaps(h) \subseteq {a, b}
    BY <2>1, <2>2
  <2>4. Separate(h) /\ Room(h, Demand(1, 0) + 3)
    BY <1>7, DemandDrive DEF Frees
  <2>5. /\ AllNull(h, Fresh(1, 0))
        /\ AllNull(h, {Name("drive", 1, 0), Name("buffer", 1, 0), Name("mbr", 1, 0)})
    BY <1>4, <1>9, FreshDrive DEF AllNull
  <2>6. Len(drives) = 1
    <3>1. Len(drives) \in Nat
      BY DEF BootInv
    <3> QED
      BY <1>1, <3>1 DEF CurrentDrive
  <2> QED
    BY <1>1, <1>4, <1>8, <1>10, <2>3, <2>4, <2>5, <2>6, RegisterStep
<1>11. CASE heap' = h /\ pc' = "scheduler" /\ UNCHANGED <<drives, partition>>
  <2>1. Separate(h) /\ Room(h, Demand(0, PartitionCount) + 1)
    BY <1>7 DEF Frees
  <2>2. Room(h, 1)
    BY <1>6, <2>1, RoomLess
  <2>3. h.block[L] = Null
    BY <1>9, FreshAlways DEF AllNull, L
  <2>4. SchedulerInv(h)
    BY <2>1, <2>2, <2>3 DEF SchedulerInv, L
  <2>5. Registered' = Registered
    BY <1>1, <1>11 DEF Registered
  <2> QED
    BY <1>1, <1>8, <1>11, <2>4, <2>5 DEF BootInv
<1> QED
  BY <1>1, <1>10, <1>11

LEMMA RegisteredStep == BootInv /\ slave_registered => BootInv'
<1> SUFFICES ASSUME BootInv, slave_registered
             PROVE  BootInv'
  OBVIOUS
<1>1. /\ pc = "partitions" /\ partition = PartitionCount /\ CurrentDrive = 1 /\ pc' = "scheduler"
      /\ UNCHANGED <<heap, drives, filesystems, partition>>
  BY DEF slave_registered
<1>2. PartitionInv(heap, 1, PartitionCount)
  BY <1>1 DEF BootInv
<1>3. Separate(heap) /\ heap.block[Name("proc_list", 0, 0)] = Null
  BY <1>2, FreshAlways DEF PartitionInv, AllNull
<1>4. Room(heap, 1)
  <2>1. 1 \in DriveNos /\ PartitionCount \in 0..PartitionCount
    BY PagesAsked DEF DriveNos
  <2>2. Demand(1, PartitionCount) \in Nat /\ Demand(1, PartitionCount) >= 3
    BY <2>1, DemandType
  <2> QED
    BY <1>2, <2>2, RoomLess DEF PartitionInv
<1>5. SchedulerInv(heap)
  BY <1>3, <1>4 DEF SchedulerInv
<1>6. Registered' = Registered
  BY <1>1 DEF Registered
<1> QED
  BY <1>1, <1>5, <1>6 DEF BootInv

\* init_scheduler's block may run over other blocks; the registered ones stay allocated.
LEMMA SchedulerStep == BootInv /\ init_scheduler => BootInv'
<1> SUFFICES ASSUME BootInv, init_scheduler
             PROVE  BootInv'
  OBVIOUS
<1> DEFINE L == Name("proc_list", 0, 0)
           g == kmalloc(heap, L, ProcListPages)
<1>1. /\ pc = "scheduler" /\ pc' = "kfork" /\ heap' = g
      /\ UNCHANGED <<drives, filesystems, partition>>
  BY DEF init_scheduler
<1>2. Separate(heap) /\ Room(heap, 1) /\ Keeps(heap, Registered)
  BY <1>1 DEF BootInv, SchedulerInv
<1>3. L \in Names /\ L[1] = "proc_list" /\ ProcListPages \in 1..FirstPage
  BY NamesOf, NameParts, BootAssumption
<1> HIDE DEF L
<1>4. PICK i \in FreePages(heap) :
        /\ \A m \in Names : m # L => g.block[m] = heap.block[m]
        /\ \A p \in Pages : p \notin i..(i + ProcListPages - 1) => g.table[p] = heap.table[p]
        /\ \A p \in Pages : p \in i..(i + ProcListPages - 1) => g.table[p].used = 1
  BY <1>2, <1>3, KmallocFrame
<1> HIDE DEF g
<1>5. \A p \in Pages : heap.table[p].used = 1 => g.table[p].used = 1
  BY <1>4
<1>6. heap.block \in [Names -> Blocks]
  BY <1>2 DEF Separate, Heap
<1>7. Keeps(g, Registered)
  <2> SUFFICES ASSUME NEW r \in Registered
               PROVE  /\ r \in Names /\ r[1] \in {"drive", "fs"}
                      /\ g.block[r] # Null /\ g.table[g.block[r].start].used = 1
    BY DEF Keeps
  <2>1. /\ r \in Names /\ r[1] \in {"drive", "fs"}
        /\ heap.block[r] # Null /\ heap.table[heap.block[r].start].used = 1
    BY <1>2 DEF Keeps
  <2>2. r # L
    BY <1>3, <2>1
  <2>3. g.block[r] = heap.block[r] /\ heap.block[r].start \in Pages
    BY <1>4, <1>6, <2>1, <2>2 DEF Blocks
  <2> HIDE DEF Pages
  <2> QED
    BY <1>5, <2>1, <2>3
<1>8. Registered' = Registered
  BY <1>1 DEF Registered
<1> QED
  BY <1>1, <1>7, <1>8 DEF BootInv

LEMMA BootStep == BootInv /\ [Next]_vars => BootInv'
<1> SUFFICES ASSUME BootInv, [Next]_vars
             PROVE  BootInv'
  OBVIOUS
<1>1. CASE UNCHANGED vars
  BY <1>1 DEF vars, BootInv, Registered, CurrentDrive
<1>2. CASE detect_fs
  BY <1>2, MountStep DEF detect_fs
<1> QED
  BY <1>1, <1>2, IdentifyStep, SkippedStep, NotFatStep, SlaveStep, RegisteredStep, SchedulerStep
     DEF Next

----------------------------------------------------------------------------
\* Everything else in kmain leaves the memory alone.
LEMMA BootAlways == KmainSpec => []BootInv
<1>1. KmainInit => BootInv
  BY BootInit DEF KmainInit
<1>2. ASSUME [KmainNext]_kvars
      PROVE  [Next]_vars
  <2>1. CASE register_all
    BY <2>1 DEF register_all
  <2>2. CASE start_interrupts
    BY <2>2 DEF start_interrupts
  <2>3. CASE init_8042
    BY <2>3 DEF init_8042
  <2>4. CASE request \/ key \/ answer \/ irq_handler
    BY <2>4 DEF request, key, answer, Output, irq_handler
  <2>5. CASE UNCHANGED kvars
    BY <2>5 DEF kvars
  <2> QED
    BY <1>2, <2>1, <2>2, <2>3, <2>4, <2>5 DEF KmainNext, kmain
<1>3. BootInv /\ [KmainNext]_kvars => BootInv'
  BY <1>2, BootStep
<1> QED
  BY <1>1, <1>3, PTL DEF KmainSpec

LEMMA BootSafe == BootInv => RegistrationIsSafe
<1> SUFFICES ASSUME BootInv, pc # "kfork", NEW m \in Names, NEW n \in Names, m # n
             PROVE  PagesOf(m) \cap PagesOf(n) = {}
  BY DEF RegistrationIsSafe
<1>1. Separate(heap)
  BY DEF BootInv, IdentifyInv, PartitionInv, SchedulerInv
<1>2. \A p \in PagesIn(heap, m) : p \notin PagesIn(heap, n)
  BY <1>1 DEF Separate
<1> QED
  BY <1>2 DEF PagesOf, PagesIn

LEMMA BootLive == BootInv => RegisteredLive
  BY DEF BootInv, Keeps, Registered, RegisteredLive
\* Whatever drives and partitions there are, and whatever interrupts and keys come in
\* between, the blocks that kmain's registration takes with kmalloc never overlap, although
\* check_free looks at no page past the first: a block of several pages is only asked for
\* when every page freed below it has been taken again.
THEOREM RegistrationIsSafeAlways == KmainSpec => []RegistrationIsSafe
  BY BootSafe, BootAlways, PTL

\* No kfree of a buffer or of a partition's first sectors, and not the allocation of
\* proc_list either, takes a registered drive or a mounted filesystem out of the table.
THEOREM RegisteredLiveAlways == KmainSpec => []RegisteredLive
  BY BootLive, BootAlways, PTL
==========================================================================
