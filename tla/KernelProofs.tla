--------------------------- MODULE KernelProofs ---------------------------
(***************************************************************************)
(* Theorems about Kernel, for every table, every page a search may stop at *)
(* and every order of the timer, the keyboard and the code they interrupt. *)
(*                                                                         *)
(* Up to the exit command everything is where it belongs (Tidy).  After it *)
(* the shell frees its stack, its process and its entry while it still     *)
(* runs and is still dispatched: what survives is that a context that is   *)
(* resumed is never one that is in the middle of a kmalloc (Parked).       *)
(* When a stack has left its page the model stops, with the tables and     *)
(* the pointers as they were (Stopped).                                    *)
(***************************************************************************)
EXTENDS Kernel, PageTableProofs, FiniteSetTheorems

USE DEF Pages, Bit

----------------------------------------------------------------------------
\* Where the shell is before getch is registered, in its loop, and after it.
Early == {"dir", "cur", "clear", "listen"}
Loop == {"loop", "wait_on", "wait_off"}
Leaving == {"free_pages", "free_process", "free_entry", "unlist", "uncount", "spin"}

Places == {"process", "entry", "publish", "stack", "regs", "count", "halt", "idle", "garbage"}
              \cup Early \cup Loop \cup Leaving

\* Where the shell is once its slot is cleared.
Gone == {"uncount", "spin"}

Context == [owner : Pids \cup {0}, pc : Places, stack : Pages, scan : Pages]

Kinds == Structs \cup {"dir", "command", "boot", "none"}

PageContent == [of : Kinds \X (Pids \cup {0}), text : {"", "exit", "other"},
                process : Pages, regs : Context]

\* Boot pages stay taken, but for page 0, which kfree(0) clears after exit.
BootPages(table) ==
    /\ \A p \in BootReserved \ {0} : table[p] = ReservedEntry
    /\ table[0] \in {ReservedEntry, ZeroEntry}

\* The other pages are used exactly when they have one owner, and are not linked.
Owners(table, own) ==
    /\ \A m, n \in Names : m # n /\ own[m] # 0 => own[m] # own[n]
    /\ \A n \in Names : own[n] # 0 =>
        /\ own[n] \notin BootReserved
        /\ table[own[n]].used = 1
        /\ table[own[n]].linked_to_next = 0 /\ table[own[n]].linked_to_last = 0
        /\ n \in {cur, last} => table[own[n]].pid = 0
    /\ \A p \in Pages \ BootReserved :
        /\ table[p].unusable = 0
        /\ table[p].used # 0 => \E n \in Names : own[n] = p

TableInv ==
    /\ BootPages(page_table)
    /\ Owners(page_table, ptr)
    /\ ~exit => page_table[0] = ReservedEntry

\* The tables, the holdings and the holding with one page more or less.
Tables == [Pages -> Entry]
Holdings == [Names -> Pages]
Give(own, n, i) == [own EXCEPT ![n] = i]

\* A page a search has stopped at.
Spare(table, p) == p \in FirstPage..(page_table_size - 1) /\ table[p].used = 0

\* What the shell may rely on at its place in the code.
ShellAt(c) ==
    /\ c.owner = shell
    /\ c.pc \in Early => ~g_listener
    /\ c.pc = "dir" => ptr[dir] = 0
    /\ c.pc \in {"dir", "cur"} => ptr[cur] = 0
    /\ c.pc \in {"cur", "clear"} => ptr[dir] # 0
    /\ c.pc \in {"clear", "listen"} => ptr[cur] # 0
    /\ c.pc = "listen" => mem[ptr[cur]].of = Command.of /\ mem[ptr[cur]].process = 0
    /\ c.pc \in Leaving => exit
    /\ c.pc \in Gone => proc_list[shell] = 0
    /\ c.scan # 0 => c.pc \in {"dir", "cur"} /\ Spare(page_table, c.scan)

IdleAt(c) == c.owner = idle /\ c.pc = "idle" /\ c.scan = 0

\* kmain is in kfork for the process `forking'.
Has(kind) == ptr[Of(kind)] # 0

KmainAt ==
    /\ cpu.owner = 0
    /\ cpu.pc \in {"process", "entry", "publish", "stack", "regs", "count", "halt"}
    /\ cpu.scan # 0 => cpu.pc \in {"process", "entry", "stack"} /\ Spare(page_table, cpu.scan)
    /\ ~g_listener
    /\ ptr[dir] = 0 /\ ptr[cur] = 0
    /\ active_procs = IF cpu.pc = "halt" THEN 2 ELSE forking - 1
    /\ cpu.pc = "halt" => forking = shell
    /\ cpu.pc # "process" <=> Has("process")
    /\ cpu.pc \notin {"process", "entry"} <=> Has("entry")
    /\ cpu.pc \notin {"process", "entry", "publish", "stack"} <=> Has("stack")
    /\ cpu.pc \notin {"process", "entry", "publish"} => proc_list[forking] # 0
    /\ cpu.pc = "count" =>
        /\ mem[ptr[Of("process")]].of = Of("process")
        /\ mem[ptr[Of("stack")]].of = Of("stack")
    /\ forking = idle => \A kind \in Structs : ptr[<<kind, shell>>] = 0
    /\ \A p \in Pages : mem[p].of = <<"process", shell>> =>
        mem[p].regs.pc = "dir" /\ mem[p].regs.scan = 0

\* Who is running.
CpuInv ==
    /\ cpid = 0 => KmainAt
    /\ cpid = idle => Crashed \/ IdleAt(cpu)
    /\ cpid = shell => Crashed \/ ShellAt(cpu)

\* What is in the pages: registers are those of the process they were saved for.
RegsInv ==
    \A p \in Pages : \A t \in Pids : mem[p].of = <<"process", t>> =>
        mem[p].regs.owner = t /\ (t = idle => IdleAt(mem[p].regs))

TextInv ==
    /\ \A p \in Pages : mem[p].process # 0 => mem[p].text = ""
    /\ g_listener => mem[ptr[cur]].process = 0

\* The registers the shell is resumed from are never those of a kmalloc that has
\* been finished since.
Parked ==
    /\ mem[0].of = <<"process", shell>> =>
        exit /\ mem[0].regs.pc \notin Early \cup Gone /\ mem[0].regs.scan = 0
    /\ LET q == mem[proc_list[shell]].process IN
       cpid # shell /\ proc_list[shell] # 0 /\ q # 0 /\ mem[q].of = <<"process", shell>>
           => ShellAt(mem[q].regs)

\* Until exit is typed, everything is where it belongs.
Tidy == ~exit =>
    /\ \A t \in Pids : proc_list[t] # 0 =>
        /\ proc_list[t] = ptr[<<"entry", t>>]
        /\ mem[proc_list[t]].of = <<"entry", t>>
        /\ mem[proc_list[t]].process = ptr[<<"process", t>>]
        /\ ptr[<<"process", t>>] # 0
    /\ \A t \in Pids : active_procs >= t =>
        /\ proc_list[t] # 0 /\ ptr[<<"stack", t>>] # 0
        /\ mem[ptr[<<"process", t>>]].of = <<"process", t>>
        /\ mem[ptr[<<"stack", t>>]].of = <<"stack", t>>
    /\ \A p \in BootReserved : mem[p].of = <<"boot", 0>>
    /\ g_listener => mem[ptr[cur]].of = Command.of
    /\ ptr[last] # 0 => mem[ptr[last]].of = Command.of

\* The shell is counted until its last step.
CountInv ==
    cpid # 0 /\ (proc_list[shell] # 0 \/ (cpu.owner = shell /\ cpu.pc # "spin")) =>
        active_procs >= 1

PhaseInv ==
    /\ exit => g_listener
    /\ g_listener => ptr[cur] # 0
    /\ ~g_listener => ptr[last] = 0

TypeInv == TypeOK /\ mem \in [Pages -> PageContent] /\ cpu \in Context

KernelInv ==
    /\ TypeInv /\ TableInv /\ CpuInv /\ RegsInv /\ TextInv
    /\ Parked /\ Tidy /\ CountInv /\ PhaseInv

\* What is left when a stack has been written over the page below it.
Stopped == Spilled /\ TypeOK /\ Exclusive /\ AlwaysACommandBuffer

----------------------------------------------------------------------------
(***************************************************************************)
(* The page table and who owns which page.                                 *)
(***************************************************************************)
LEMMA PageZero == 0 \in Pages /\ 0 \in BootReserved /\ 0 < FirstPage
  BY PageTableAssumption

\* A page a search stopped at is nobody's, and not a boot page.
LEMMA SpareIsFree ==
    ASSUME NEW table, NEW own, BootPages(table), Owners(table, own), NEW i, Spare(table, i)
    PROVE  /\ i \in Pages \ BootReserved /\ i # 0
           /\ \A n \in Names : own[n] # i
<1>1. i \in Pages /\ i # 0
  BY PageTableAssumption DEF Spare
<1>2. i \notin BootReserved
  BY <1>1 DEF Spare, BootPages, ReservedEntry
<1>3. \A n \in Names : own[n] # i
  BY <1>1 DEF Spare, Owners
<1> QED
  BY <1>1, <1>2, <1>3

\* What the search finds.
LEMMA FoundIsSpare ==
    ASSUME NEW table, NEW i, FirstFit(table, i, 1)
    PROVE  Spare(table, i)
  BY DEF FirstFit, Suits, Spare

\* kmalloc of a page nobody has.
LEMMA Grant ==
    ASSUME NEW table \in Tables, NEW own \in Holdings,
           BootPages(table), Owners(table, own), NEW i, Spare(table, i),
           NEW n \in Names, own[n] = 0, NEW tag, n \in {cur, last} => tag = 0
    PROVE  /\ BootPages(Allocated(table, i, 1, tag))
           /\ Owners(Allocated(table, i, 1, tag), Give(own, n, i))
           /\ \A p \in BootReserved : Allocated(table, i, 1, tag)[p] = table[p]
<1> DEFINE e == BlockEntry(0, 1, tag)
           new == Allocated(table, i, 1, tag)
           new_own == Give(own, n, i)
<1>1. i \in Pages \ BootReserved /\ i # 0 /\ \A m \in Names : own[m] # i
  BY SpareIsFree
<1>2. i - i = 0 /\ i..(i + 1 - 1) = {i}
  BY <1>1, PageTableAssumption
<1>3. /\ e.used = 1 /\ e.unusable = 0 /\ e.linked_to_next = 0 /\ e.linked_to_last = 0
      /\ e.pid = tag
  BY DEF BlockEntry
<1> HIDE DEF e, new, new_own
<1>4. \A p \in Pages : new[p] = IF p = i THEN e ELSE table[p]
  BY <1>2 DEF Allocated, e, new
<1>5. \A m \in Names : new_own[m] = IF m = n THEN i ELSE own[m]
  BY DEF Give, new_own, Holdings
<1>6. \A p \in BootReserved : new[p] = table[p]
  BY <1>1, <1>4, PageTableAssumption
<1>7. BootPages(new)
  BY <1>6, PageZero DEF BootPages
<1>8. \A m, k \in Names : m # k /\ new_own[m] # 0 => new_own[m] # new_own[k]
  BY <1>1, <1>5 DEF Owners
<1>9. \A m \in Names : new_own[m] # 0 =>
        /\ new_own[m] \notin BootReserved
        /\ new[new_own[m]].used = 1
        /\ new[new_own[m]].linked_to_next = 0 /\ new[new_own[m]].linked_to_last = 0
        /\ m \in {cur, last} => new[new_own[m]].pid = 0
  BY <1>1, <1>3, <1>4, <1>5 DEF Owners, Holdings
<1>10. \A p \in Pages \ BootReserved :
        /\ new[p].unusable = 0
        /\ new[p].used # 0 => \E m \in Names : new_own[m] = p
  <2> SUFFICES ASSUME NEW p \in Pages \ BootReserved
               PROVE  /\ new[p].unusable = 0
                      /\ new[p].used # 0 => \E m \in Names : new_own[m] = p
    OBVIOUS
  <2>1. CASE p = i
    BY <1>3, <1>4, <1>5, <2>1
  <2>2. CASE p # i
    <3>1. new[p] = table[p]
      BY <1>4, <2>2
    <3>2. \A m \in Names : own[m] = p => new_own[m] = p
      BY <1>5, PageZero
    <3> QED
      BY <3>1, <3>2 DEF Owners
  <2> QED
    BY <2>1, <2>2
<1>11. Owners(new, new_own)
  BY <1>8, <1>9, <1>10 DEF Owners
<1> QED
  BY <1>6, <1>7, <1>11 DEF new, new_own

\* kfree of an owner's page.
LEMMA Release ==
    ASSUME NEW table \in Tables, NEW own \in Holdings,
           BootPages(table), Owners(table, own), NEW n \in Names, own[n] # 0
    PROVE  /\ BootPages(Freed(table, own[n]))
           /\ Owners(Freed(table, own[n]), Give(own, n, 0))
           /\ \A p \in BootReserved : Freed(table, own[n])[p] = table[p]
<1> DEFINE i == own[n]
           new == Freed(table, i)
           new_own == Give(own, n, 0)
<1>1. i \in Pages \ BootReserved
  BY DEF Owners, Holdings
<1>2. new = [table EXCEPT ![i] = ZeroEntry]
  BY <1>1, FreedSingle DEF Owners, Tables
<1>3. ZeroEntry.used = 0 /\ ZeroEntry.unusable = 0
  BY DEF ZeroEntry
<1>4. \A m \in Names : m # n => own[m] # i
  BY DEF Owners
<1> HIDE DEF new, new_own, i
<1>5. \A p \in Pages : new[p] = IF p = i THEN ZeroEntry ELSE table[p]
  BY <1>2 DEF Tables
<1>6. \A m \in Names : new_own[m] = IF m = n THEN 0 ELSE own[m]
  BY DEF Give, new_own, Holdings
<1>7. \A p \in BootReserved : new[p] = table[p]
  BY <1>1, <1>5, PageTableAssumption
<1>8. BootPages(new)
  BY <1>7, PageZero DEF BootPages
<1>9. \A m, k \in Names : m # k /\ new_own[m] # 0 => new_own[m] # new_own[k]
  BY <1>6 DEF Owners
<1>10. \A m \in Names : new_own[m] # 0 =>
        /\ new_own[m] \notin BootReserved
        /\ new[new_own[m]].used = 1
        /\ new[new_own[m]].linked_to_next = 0 /\ new[new_own[m]].linked_to_last = 0
        /\ m \in {cur, last} => new[new_own[m]].pid = 0
  BY <1>4, <1>5, <1>6 DEF Owners, Holdings
<1>11. \A p \in Pages \ BootReserved :
        /\ new[p].unusable = 0
        /\ new[p].used # 0 => \E m \in Names : new_own[m] = p
  <2> SUFFICES ASSUME NEW p \in Pages \ BootReserved
               PROVE  /\ new[p].unusable = 0
                      /\ new[p].used # 0 => \E m \in Names : new_own[m] = p
    OBVIOUS
  <2>1. CASE p = i
    BY <1>3, <1>5, <2>1
  <2>2. CASE p # i
    <3>1. new[p] = table[p]
      BY <1>5, <2>2
    <3>2. \A m \in Names : own[m] = p => new_own[m] = p
      BY <1>6, <2>2 DEF i
    <3> QED
      BY <3>1, <3>2 DEF Owners
  <2> QED
    BY <2>1, <2>2
<1>12. Owners(new, new_own)
  BY <1>9, <1>10, <1>11 DEF Owners
<1> QED
  BY <1>7, <1>8, <1>12 DEF new, new_own, i

\* kfree(0) clears the entry of page 0.
LEMMA ReleaseNothing ==
    ASSUME NEW table \in Tables, NEW own \in Holdings,
           BootPages(table), Owners(table, own)
    PROVE  BootPages(Freed(table, 0)) /\ Owners(Freed(table, 0), own)
<1>1. table[0].linked_to_last = 0 /\ table[0].linked_to_next = 0
  BY DEF BootPages, ReservedEntry, ZeroEntry
<1>2. Freed(table, 0) = [table EXCEPT ![0] = ZeroEntry]
  BY <1>1, PageZero, FreedSingle DEF Tables
<1> DEFINE new == Freed(table, 0)
<1> HIDE DEF new
<1>3. \A p \in Pages : new[p] = IF p = 0 THEN ZeroEntry ELSE table[p]
  BY <1>2 DEF new, Tables
<1>4. BootPages(new)
  BY <1>3, PageTableAssumption DEF BootPages
<1>5. Owners(new, own)
  BY <1>3, PageZero DEF Owners, Holdings
<1> QED
  BY <1>4, <1>5 DEF new

----------------------------------------------------------------------------
(***************************************************************************)
(* Names and types.                                                        *)
(***************************************************************************)
LEMMA NameFacts ==
    /\ \A kind \in Structs : \A t \in Pids : <<kind, t>> \in Names
    /\ \A kind \in Structs : \A t \in Pids :
        <<kind, t>> # dir /\ <<kind, t>> # cur /\ <<kind, t>> # last
    /\ \A k, l \in Structs : \A s, t \in Pids : <<k, s>> = <<l, t>> => k = l /\ s = t
    /\ dir \in Names /\ cur \in Names /\ last \in Names
    /\ dir # cur /\ dir # last /\ cur # last
    /\ "process" \in Structs /\ "entry" \in Structs /\ "stack" \in Structs
    /\ idle \in Pids /\ shell \in Pids /\ idle # shell /\ 0 \notin Pids
    /\ idle = 1 /\ shell = 2 /\ Pids = {1, 2}
  BY DEF Names, Structs, Pids, idle, shell, dir, cur, last

LEMMA ContextFacts ==
    ASSUME NEW c \in Context
    PROVE  /\ c.owner \in Pids \cup {0} /\ c.pc \in Places /\ c.stack \in Pages /\ c.scan \in Pages
           /\ \A place \in Places :
                /\ [c EXCEPT !.pc = place, !.scan = 0] \in Context
                /\ [c EXCEPT !.pc = place, !.scan = 0].owner = c.owner
                /\ [c EXCEPT !.pc = place, !.scan = 0].pc = place
                /\ [c EXCEPT !.pc = place, !.scan = 0].scan = 0
           /\ \A i \in Pages :
                /\ [c EXCEPT !.scan = i] \in Context
                /\ [c EXCEPT !.scan = i].owner = c.owner
                /\ [c EXCEPT !.scan = i].pc = c.pc
                /\ [c EXCEPT !.scan = i].scan = i
  BY PageZero DEF Context

LEMMA GarbageFacts ==
    Garbage \in Context /\ Garbage.owner = 0 /\ Garbage.pc = "garbage" /\ Garbage.scan = 0
<1>1. Garbage \in Context
  BY PageZero DEF Garbage, Context, Places
<1> QED
  BY <1>1 DEF Garbage

\* Whose code runs.
LEMMA KmainRuns ==
    ASSUME KernelInv, NEW place, place # "garbage", InKfork(place)
    PROVE  cpid = 0 /\ KmainAt /\ ~g_listener /\ ~exit /\ forking \in Pids /\ cpu.pc = place
<1>1. ~Crashed /\ cpu.owner = 0 /\ cpu.pc = place
  BY GarbageFacts DEF InKfork, Crashed
<1>2. cpid = 0 /\ KmainAt
  BY <1>1, NameFacts DEF KernelInv, CpuInv, IdleAt, ShellAt, TypeInv, TypeOK
<1> QED
  BY <1>1, <1>2 DEF KernelInv, KmainAt, PhaseInv, TypeInv, TypeOK

LEMMA ShellRuns ==
    ASSUME KernelInv, NEW place, InShell(place)
    PROVE  cpid = shell /\ ShellAt(cpu) /\ cpu.pc = place
<1>1. ~Crashed /\ cpu.owner = shell
  BY GarbageFacts, NameFacts DEF InShell, Crashed
<1>2. cpid = shell
  BY <1>1, NameFacts DEF KernelInv, CpuInv, IdleAt, KmainAt, TypeInv, TypeOK
<1> QED
  BY <1>1, <1>2 DEF KernelInv, CpuInv, InShell

\* Nothing but the processor's context changes.
LEMMA MemoryFrame ==
    ASSUME KernelInv, UNCHANGED <<page_table, mem, proc_list, ptr>>,
           UNCHANGED <<cpid, active_procs>>, UNCHANGED g_listener, UNCHANGED exit
    PROVE  TableInv' /\ RegsInv' /\ TextInv' /\ Parked' /\ Tidy' /\ PhaseInv'
<1>1. TableInv' /\ PhaseInv'
  BY DEF KernelInv, TableInv, BootPages, Owners, PhaseInv
<1>2. RegsInv' /\ TextInv'
  BY DEF KernelInv, RegsInv, IdleAt, TextInv
<1>3. Parked'
  BY DEF KernelInv, Parked, ShellAt, Spare
<1>4. Tidy'
  BY DEF KernelInv, Tidy
<1> QED
  BY <1>1, <1>2, <1>3, <1>4

\* The search of a kmalloc stops at a page.
LEMMA SearchStep ==
    ASSUME KernelInv, Search, UNCHANGED <<mem, procs, ui>>,
           \/ \E place \in {"process", "entry", "stack"} : InKfork(place)
           \/ \E place \in {"dir", "cur"} : InShell(place)
    PROVE  KernelInv'
<1>1. PICK i \in Pages : FirstFit(page_table, i, 1) /\ cpu' = [cpu EXCEPT !.scan = i]
  BY DEF Search
<1>2. cpu' \in Context /\ cpu'.owner = cpu.owner /\ cpu'.pc = cpu.pc /\ cpu'.scan = i
  BY <1>1, ContextFacts DEF KernelInv, TypeInv
<1>3. Spare(page_table, i) /\ page_table' = page_table
  BY <1>1, FoundIsSpare DEF Search
<1>4. /\ UNCHANGED <<page_table, mem, proc_list, ptr>> /\ UNCHANGED <<cpid, active_procs>>
      /\ UNCHANGED forking /\ UNCHANGED g_listener /\ UNCHANGED exit /\ UNCHANGED clock
  BY DEF Search, procs, ui
<1>5. TypeInv'
  BY <1>2, <1>4 DEF KernelInv, TypeInv, TypeOK, Context
<1>6. CpuInv' /\ CountInv'
  <2>1. CASE \E place \in {"process", "entry", "stack"} : InKfork(place)
    <3>1. cpid = 0 /\ KmainAt /\ cpu.pc \in {"process", "entry", "stack"}
      BY <2>1, KmainRuns
    <3>2. KmainAt'
      BY <1>2, <1>3, <1>4, <3>1 DEF KmainAt, Has, Of, Spare
    <3> QED
      BY <1>4, <3>1, <3>2, NameFacts DEF CpuInv, CountInv
  <2>2. CASE \E place \in {"dir", "cur"} : InShell(place)
    <3>1. cpid = shell /\ ShellAt(cpu) /\ cpu.pc \in {"dir", "cur"}
      BY <2>2, ShellRuns
    <3>2. ShellAt(cpu)'
      BY <1>2, <1>3, <1>4, <3>1 DEF ShellAt, Spare
    <3> QED
      BY <1>2, <1>4, <3>1, <3>2, NameFacts DEF CpuInv, KernelInv, CountInv
  <2> QED
    BY <2>1, <2>2
<1>7. TableInv' /\ RegsInv' /\ TextInv' /\ Parked' /\ Tidy' /\ PhaseInv'
  BY <1>4, MemoryFrame
<1> QED
  BY <1>5, <1>6, <1>7 DEF KernelInv

\* kmalloc's write, the table's part: for n, who had no page before.
LEMMA TakeTable ==
    ASSUME KernelInv, NEW n \in Names, ptr[n] = 0, NEW tag \in 0..(TagMod - 1), NEW next \in Places,
           Take(n, tag, next), Spare(page_table, cpu.scan), UNCHANGED <<mem, procs, ui>>,
           n \in {cur, last} => tag = 0
    PROVE  /\ TypeInv' /\ TableInv'
           /\ ptr' = [ptr EXCEPT ![n] = cpu.scan] /\ cpu.scan \in Pages /\ cpu.scan # 0
           /\ cpu'.owner = cpu.owner /\ cpu'.pc = next /\ cpu'.scan = 0
           /\ UNCHANGED <<mem, proc_list>> /\ UNCHANGED <<cpid, active_procs>>
           /\ UNCHANGED forking /\ UNCHANGED g_listener /\ UNCHANGED exit
<1>1. /\ ptr' = [ptr EXCEPT ![n] = cpu.scan] /\ cpu.scan # 0
      /\ page_table' = Allocated(page_table, cpu.scan, 1, tag)
      /\ cpu' = [cpu EXCEPT !.pc = next, !.scan = 0]
  BY DEF Take, Goto
<1>2. /\ cpu' \in Context /\ cpu'.owner = cpu.owner /\ cpu'.pc = next /\ cpu'.scan = 0
      /\ cpu.scan \in Pages
  <2>1. cpu \in Context
    BY DEF KernelInv, TypeInv
  <2> QED
    BY <1>1, <2>1, PageZero DEF Context
<1>3. /\ UNCHANGED <<mem, proc_list>> /\ UNCHANGED <<cpid, active_procs>>
      /\ UNCHANGED forking /\ UNCHANGED g_listener /\ UNCHANGED exit /\ UNCHANGED clock
  BY DEF procs, ui
<1>4. page_table \in [Pages -> Entry] /\ ptr \in [Names -> Pages]
  BY DEF KernelInv, TypeInv, TypeOK
<1>5. page_table' \in [Pages -> Entry]
  BY <1>1, <1>2, <1>4, AllocatedType
<1>6. ptr' \in [Names -> Pages]
  BY <1>1, <1>2, <1>4
<1>7. TypeInv'
  BY <1>2, <1>3, <1>5, <1>6 DEF KernelInv, TypeInv, TypeOK, Context
<1>8. /\ BootPages(page_table') /\ Owners(page_table', ptr')
      /\ \A p \in BootReserved : page_table'[p] = page_table[p]
  <2>1. BootPages(page_table) /\ Owners(page_table, ptr)
    BY DEF KernelInv, TableInv
  <2>2. page_table \in Tables /\ ptr \in Holdings /\ ptr' = Give(ptr, n, cpu.scan)
    BY <1>1, <1>4 DEF Tables, Holdings, Give
  <2> QED
    <3> DEFINE new == Allocated(page_table, cpu.scan, 1, tag)
    <3>1. BootPages(new)
      BY <2>1, <2>2, Grant
    <3>2. Owners(new, Give(ptr, n, cpu.scan))
      BY <2>1, <2>2, Grant
    <3>3. \A p \in BootReserved : new[p] = page_table[p]
      BY <2>1, <2>2, Grant
    <3> QED
      BY <1>1, <2>2, <3>1, <3>2, <3>3
<1>9. TableInv'
  <2>1. ~exit' => page_table'[0] = ReservedEntry
    BY <1>3, <1>8, PageZero DEF KernelInv, TableInv
  <2> QED
    BY <1>8, <2>1 DEF TableInv, BootPages, Owners
<1> QED
  BY <1>1, <1>2, <1>3, <1>7, <1>9

\* What the shell will be resumed from while kmain has not been interrupted.
LEMMA KmainParked ==
    ASSUME KmainAt', RegsInv', cpid' = 0, ~exit', mem'[0].of # <<"process", shell>>,
           TypeInv'
    PROVE  Parked'
<1> DEFINE q == mem'[proc_list'[shell]].process
<1> SUFFICES ASSUME proc_list'[shell] # 0, mem'[q].of = <<"process", shell>>
             PROVE  ShellAt(mem[mem[proc_list[shell]].process].regs)'
  BY DEF Parked
<1>1. q \in Pages
  BY NameFacts DEF TypeInv, TypeOK, PageContent
<1>2. mem'[q].regs.pc = "dir" /\ mem'[q].regs.scan = 0
  BY <1>1 DEF KmainAt
<1>3. mem'[q].regs.owner = shell
  BY <1>1, NameFacts DEF RegsInv
<1> QED
  BY <1>2, <1>3 DEF ShellAt, KmainAt, Leaving, Gone

\* Neither the pages of processes that are listed or counted nor their contents change.
LEMMA TidyFrame ==
    ASSUME Tidy, UNCHANGED <<mem, proc_list>>, UNCHANGED active_procs, UNCHANGED exit,
           UNCHANGED g_listener, ~g_listener \/ ptr'[cur] = ptr[cur], ptr'[last] = ptr[last],
           \A t \in Pids : proc_list[t] # 0 =>
               ptr'[<<"entry", t>>] = ptr[<<"entry", t>>] /\ ptr'[<<"process", t>>] = ptr[<<"process", t>>],
           \A t \in Pids : active_procs >= t => ptr'[<<"stack", t>>] = ptr[<<"stack", t>>]
    PROVE  Tidy'
<1> SUFFICES ASSUME ~exit
             PROVE  Tidy'
  BY DEF Tidy
<1>1. /\ mem' = mem /\ proc_list' = proc_list /\ active_procs' = active_procs
  OBVIOUS
<1>2. \A t \in Pids : proc_list'[t] # 0 =>
        /\ proc_list'[t] = ptr'[<<"entry", t>>]
        /\ mem'[proc_list'[t]].of = <<"entry", t>>
        /\ mem'[proc_list'[t]].process = ptr'[<<"process", t>>]
        /\ ptr'[<<"process", t>>] # 0
  BY <1>1 DEF Tidy
<1>3. \A t \in Pids : active_procs' >= t =>
        /\ proc_list'[t] # 0 /\ ptr'[<<"stack", t>>] # 0
        /\ mem'[ptr'[<<"process", t>>]].of = <<"process", t>>
        /\ mem'[ptr'[<<"stack", t>>]].of = <<"stack", t>>
  BY <1>1 DEF Tidy
<1>4. /\ \A p \in BootReserved : mem'[p].of = <<"boot", 0>>
      /\ g_listener' => mem'[ptr'[cur]].of = Command.of
      /\ ptr'[last] # 0 => mem'[ptr'[last]].of = Command.of
  BY <1>1 DEF Tidy
<1> QED
  BY <1>2, <1>3, <1>4 DEF Tidy

\* kfork's kmallocs.
LEMMA KforkTake ==
    ASSUME KernelInv, NEW kind \in Structs, NEW tag \in 0..(TagMod - 1), NEW next,
           InKfork(kind), Take(Of(kind), tag, next), UNCHANGED <<mem, procs, ui>>,
           \/ kind = "process" /\ next = "entry"
           \/ kind = "entry" /\ next = "publish"
           \/ kind = "stack" /\ next = "regs"
    PROVE  KernelInv'
<1> DEFINE n == Of(kind)
<1>1. /\ cpid = 0 /\ KmainAt /\ ~g_listener /\ ~exit /\ forking \in Pids /\ cpu.pc = kind
      /\ next \in Places /\ kind \in {"process", "entry", "stack"}
  BY KmainRuns DEF Structs, Places
<1>2. n \in Names /\ ptr[n] = 0 /\ Spare(page_table, cpu.scan) /\ n \notin {cur, last}
  BY <1>1, NameFacts DEF Of, KmainAt, Has, Take
<1>3. /\ TypeInv' /\ TableInv'
      /\ ptr' = [ptr EXCEPT ![n] = cpu.scan] /\ cpu.scan \in Pages /\ cpu.scan # 0
      /\ cpu'.owner = cpu.owner /\ cpu'.pc = next /\ cpu'.scan = 0
      /\ UNCHANGED <<mem, proc_list>> /\ UNCHANGED <<cpid, active_procs>>
      /\ UNCHANGED forking /\ UNCHANGED g_listener /\ UNCHANGED exit
  BY <1>1, <1>2, TakeTable
<1>4. \A m \in Names : ptr'[m] = IF m = n THEN cpu.scan ELSE ptr[m]
  BY <1>2, <1>3 DEF KernelInv, TypeInv, TypeOK
<1>5. \A k \in Structs : \A t \in Pids :
        ptr'[<<k, t>>] = IF k = kind /\ t = forking THEN cpu.scan ELSE ptr[<<k, t>>]
  BY <1>1, <1>4, NameFacts DEF Of
<1>6. ptr'[dir] = ptr[dir] /\ ptr'[cur] = ptr[cur] /\ ptr'[last] = ptr[last]
  BY <1>1, <1>4, NameFacts DEF Of
<1>7. \A k \in Structs : ptr'[Of(k)'] = IF k = kind THEN cpu.scan ELSE ptr[Of(k)]
  BY <1>1, <1>3, <1>5 DEF Of
<1>8. KmainAt'
  <2>1. /\ cpu'.pc # "process" <=> Has("process")'
        /\ cpu'.pc \notin {"process", "entry"} <=> Has("entry")'
        /\ cpu'.pc \notin {"process", "entry", "publish", "stack"} <=> Has("stack")'
    BY <1>1, <1>3, <1>7, NameFacts DEF KmainAt, Has
  <2>2. forking' = idle => \A k \in Structs : ptr'[<<k, shell>>] = 0
    <3> SUFFICES ASSUME forking' = idle, NEW k \in Structs
                 PROVE  ptr'[<<k, shell>>] = 0
      OBVIOUS
    <3>1. ptr[<<k, shell>>] = 0 /\ forking = idle
      BY <1>1, <1>3 DEF KmainAt
    <3> QED
      BY <1>5, <3>1, NameFacts
  <2>3. \A p \in Pages : mem'[p].of = <<"process", shell>> =>
            mem'[p].regs.pc = "dir" /\ mem'[p].regs.scan = 0
    BY <1>1, <1>3 DEF KmainAt
  <2>4. /\ cpu'.owner = 0 /\ ~g_listener' /\ ptr'[dir] = 0 /\ ptr'[cur] = 0
        /\ active_procs' = forking' - 1
        /\ cpu'.pc \in {"entry", "publish", "regs"}
        /\ cpu'.pc = "regs" => proc_list'[forking'] # 0
    BY <1>1, <1>3, <1>6 DEF KmainAt
  <2> QED
    BY <1>3, <2>1, <2>2, <2>3, <2>4 DEF KmainAt
<1>9. CpuInv' /\ CountInv'
  BY <1>1, <1>3, <1>8, NameFacts DEF CpuInv, CountInv
<1>10. RegsInv' /\ TextInv' /\ PhaseInv'
  <2>1. RegsInv'
    BY <1>3 DEF KernelInv, RegsInv, IdleAt
  <2>2. TextInv'
    BY <1>1, <1>3 DEF KernelInv, TextInv
  <2>3. PhaseInv'
    BY <1>1, <1>3, <1>6 DEF KernelInv, PhaseInv
  <2> QED
    BY <2>1, <2>2, <2>3
<1>11. Parked'
  BY <1>1, <1>3, <1>8, <1>10, KmainParked DEF KernelInv, Parked
<1>12. Tidy'
  <2>1. \A t \in Pids : proc_list[t] # 0 =>
            ptr'[<<"entry", t>>] = ptr[<<"entry", t>>] /\ ptr'[<<"process", t>>] = ptr[<<"process", t>>]
    BY <1>1, <1>2, <1>5, NameFacts DEF KernelInv, Tidy, Of
  <2>2. \A t \in Pids : active_procs >= t => ptr'[<<"stack", t>>] = ptr[<<"stack", t>>]
    BY <1>1, <1>2, <1>5, NameFacts DEF KernelInv, Tidy, Of
  <2> QED
    BY <1>1, <1>3, <1>6, <2>1, <2>2, TidyFrame DEF KernelInv
<1> QED
  BY <1>3, <1>9, <1>10, <1>11, <1>12 DEF KernelInv

----------------------------------------------------------------------------
(***************************************************************************)
(* kmain writes to the pages it has taken.                                 *)
(***************************************************************************)
LEMMA ContentFacts ==
    ASSUME NEW kind \in Kinds, NEW t \in Pids \cup {0}
    PROVE  /\ Content(kind, t) \in PageContent
           /\ Content(kind, t).of = <<kind, t>> /\ Content(kind, t).text = ""
           /\ Content(kind, t).process = 0 /\ Content(kind, t).regs = Garbage
<1>1. Content(kind, t) \in PageContent
  BY PageZero, GarbageFacts DEF Content, PageContent
<1> QED
  BY <1>1 DEF Content

\* The contents that carry more than their kind.
EntryContent(t, i) == [Content("entry", t) EXCEPT !.process = i]
FirstContent(t, r) == [Content("process", t) EXCEPT !.regs = r]
SavedContent(t, r) == [Content("process", t) EXCEPT !.regs = r, !.text = "other"]

LEMMA EntryFacts ==
    ASSUME NEW t \in Pids, NEW i \in Pages
    PROVE  /\ EntryContent(t, i) \in PageContent /\ EntryContent(t, i).of = <<"entry", t>>
           /\ EntryContent(t, i).text = "" /\ EntryContent(t, i).process = i
<1> DEFINE b == Content("entry", t)
<1>1. b \in PageContent /\ b.of = <<"entry", t>> /\ b.text = "" /\ b.regs = Garbage
  BY ContentFacts DEF Kinds, Structs
<1> HIDE DEF b
<1>2. EntryContent(t, i) = [b EXCEPT !.process = i]
  BY DEF b, EntryContent
<1> QED
  BY <1>1, <1>2 DEF PageContent

LEMMA ProcessFacts ==
    ASSUME NEW t \in Pids, NEW r \in Context
    PROVE  /\ FirstContent(t, r) \in PageContent /\ SavedContent(t, r) \in PageContent
           /\ FirstContent(t, r).of = <<"process", t>> /\ SavedContent(t, r).of = <<"process", t>>
           /\ FirstContent(t, r).process = 0 /\ SavedContent(t, r).process = 0
           /\ FirstContent(t, r).regs = r /\ SavedContent(t, r).regs = r
           /\ SavedContent(t, r).text = "other"
<1> DEFINE b == Content("process", t)
<1>1. b \in PageContent /\ b.of = <<"process", t>> /\ b.process = 0
  BY ContentFacts DEF Kinds, Structs
<1> HIDE DEF b
<1>2. FirstContent(t, r) = [b EXCEPT !.regs = r]
  BY DEF b, FirstContent
<1>3. SavedContent(t, r) = [b EXCEPT !.regs = r, !.text = "other"]
  BY DEF b, SavedContent
<1> QED
  BY <1>1, <1>2, <1>3 DEF PageContent

\* A pid does not change with the kind of a structure.
LEMMA KindFacts ==
    /\ \A s, t : <<"process", s>> = <<"process", t>> => s = t
    /\ \A s, t : <<"process", s>> # <<"entry", t>> /\ <<"process", s>> # <<"stack", t>>
                 /\ <<"process", s>> # <<"command", t>> /\ <<"process", s>> # <<"dir", t>>
                 /\ <<"process", s>> # <<"boot", t>> /\ <<"process", s>> # <<"none", t>>
  OBVIOUS

\* An owner's page is not a boot page, nor that of another owner.
LEMMA OwnedPage ==
    ASSUME KernelInv, NEW n \in Names, ptr[n] # 0
    PROVE  /\ ptr[n] \in Pages /\ ptr[n] \notin BootReserved
           /\ \A m \in Names : m # n => ptr[m] # ptr[n]
  BY DEF KernelInv, TypeInv, TypeOK, TableInv, Owners

LEMMA PublishStep ==
    ASSUME KernelInv, kfork_publish
    PROVE  KernelInv'
<1> DEFINE e == ptr[Of("entry")]
           i == ptr[Of("process")]
           c == EntryContent(forking, i)
<1>1. /\ cpid = 0 /\ KmainAt /\ ~g_listener /\ ~exit /\ forking \in Pids
      /\ cpu.pc = "publish" /\ cpu.owner = 0
  BY KmainRuns DEF kfork_publish, KmainAt
<1>2. Of("entry") \in Names /\ Of("process") \in Names /\ Of("entry") # Of("process")
  BY <1>1, NameFacts DEF Of
<1>3. e # 0 /\ i # 0 /\ ptr[Of("stack")] = 0
  BY <1>1 DEF KmainAt, Has
<1>4. e \in Pages /\ e \notin BootReserved /\ i \in Pages
  BY <1>2, <1>3, OwnedPage
<1>5. /\ c \in PageContent /\ c.of = <<"entry", forking>> /\ c.text = "" /\ c.process = i
      /\ \A t : c.of # <<"process", t>>
  <2>1. c \in PageContent /\ c.of = <<"entry", forking>> /\ c.text = "" /\ c.process = i
    BY <1>1, <1>4, EntryFacts
  <2> QED
    BY <2>1, KindFacts
<1>6. /\ mem' = [mem EXCEPT ![e] = c] /\ proc_list' = [proc_list EXCEPT ![forking] = e]
      /\ cpu' = [cpu EXCEPT !.pc = "stack", !.scan = 0]
      /\ page_table' = page_table /\ cpid' = cpid /\ active_procs' = active_procs
      /\ forking' = forking /\ ptr' = ptr
      /\ UNCHANGED g_listener /\ UNCHANGED exit /\ UNCHANGED clock
  BY DEF kfork_publish, Goto, ui, EntryContent
<1> HIDE DEF c, e, i
<1>7. mem \in [Pages -> PageContent] /\ proc_list \in [Pids -> Pages] /\ cpu \in Context
  BY DEF KernelInv, TypeInv, TypeOK
<1>8. \A p \in Pages : mem'[p] = IF p = e THEN c ELSE mem[p]
  BY <1>6, <1>7
<1>9. \A t \in Pids : proc_list'[t] = IF t = forking THEN e ELSE proc_list[t]
  BY <1>6, <1>7
<1>10. /\ cpu' \in Context /\ cpu'.owner = 0 /\ cpu'.pc = "stack" /\ cpu'.scan = 0
  BY <1>1, <1>6, <1>7, PageZero DEF Context, Places
<1>11. TypeInv'
  <2>1. mem' \in [Pages -> PageContent] /\ proc_list' \in [Pids -> Pages] /\ DOMAIN mem' = Pages
    BY <1>4, <1>5, <1>6, <1>7
  <2> QED
    BY <1>6, <1>10, <2>1 DEF KernelInv, TypeInv, TypeOK, Context
<1>12. TableInv' /\ PhaseInv'
  BY <1>6 DEF KernelInv, TableInv, BootPages, Owners, PhaseInv
<1>13. RegsInv' /\ TextInv'
  <2>1. RegsInv'
    <3> SUFFICES ASSUME NEW p \in Pages, NEW t \in Pids, mem'[p].of = <<"process", t>>
                 PROVE  mem'[p].regs.owner = t /\ (t = idle => IdleAt(mem'[p].regs))
      BY DEF RegsInv, IdleAt
    <3>1. mem'[p] = mem[p]
      BY <1>5, <1>8
    <3> QED
      BY <3>1 DEF KernelInv, RegsInv
  <2>2. TextInv'
    BY <1>1, <1>5, <1>6, <1>8 DEF KernelInv, TextInv
  <2> QED
    BY <2>1, <2>2
<1>14. KmainAt'
  <2>1. \A p \in Pages : mem'[p].of = <<"process", shell>> =>
            mem'[p].regs.pc = "dir" /\ mem'[p].regs.scan = 0
    BY <1>1, <1>5, <1>8 DEF KmainAt
  <2>2. proc_list'[forking'] # 0
    BY <1>1, <1>3, <1>6, <1>9 DEF e
  <2>3. \A kind : Of(kind)' = Of(kind)
    BY <1>6 DEF Of
  <2> QED
    BY <1>1, <1>6, <1>10, <2>1, <2>2, <2>3 DEF KmainAt, Has
<1>15. CpuInv' /\ CountInv'
  BY <1>1, <1>6, <1>14, NameFacts DEF CpuInv, CountInv
<1>16. Parked'
  <2>1. mem'[0].of # <<"process", shell>>
    BY <1>1, <1>4, <1>8, PageZero DEF KernelInv, Parked
  <2> QED
    BY <1>1, <1>6, <1>11, <1>13, <1>14, <2>1, KmainParked
<1>17. Tidy'
  <2>1. ASSUME NEW t \in Pids, proc_list'[t] # 0
        PROVE  /\ proc_list'[t] = ptr'[<<"entry", t>>]
               /\ mem'[proc_list'[t]].of = <<"entry", t>>
               /\ mem'[proc_list'[t]].process = ptr'[<<"process", t>>]
               /\ ptr'[<<"process", t>>] # 0
    <3>1. CASE t = forking
      BY <1>3, <1>4, <1>5, <1>6, <1>8, <1>9, <3>1 DEF e, i, Of
    <3>2. CASE t # forking
      <4>1. proc_list'[t] = proc_list[t] /\ <<"entry", t>> # Of("entry") /\ <<"entry", t>> \in Names
        BY <1>1, <1>9, <3>2, NameFacts DEF Of
      <4>2. proc_list[t] = ptr[<<"entry", t>>] /\ proc_list[t] # e /\ proc_list[t] \in Pages
        BY <1>1, <1>2, <1>3, <1>7, <2>1, <4>1, OwnedPage DEF KernelInv, Tidy, e
      <4>3. mem'[proc_list[t]] = mem[proc_list[t]]
        BY <1>8, <4>2
      <4> QED
        BY <1>1, <1>6, <2>1, <4>1, <4>3 DEF KernelInv, Tidy
    <3> QED
      BY <3>1, <3>2
  <2>2. ASSUME NEW t \in Pids, active_procs' >= t
        PROVE  /\ proc_list'[t] # 0 /\ ptr'[<<"stack", t>>] # 0
               /\ mem'[ptr'[<<"process", t>>]].of = <<"process", t>>
               /\ mem'[ptr'[<<"stack", t>>]].of = <<"stack", t>>
    <3>1. /\ proc_list[t] # 0 /\ ptr[<<"stack", t>>] # 0 /\ ptr[<<"process", t>>] # 0
          /\ mem[ptr[<<"process", t>>]].of = <<"process", t>>
          /\ mem[ptr[<<"stack", t>>]].of = <<"stack", t>>
      BY <1>1, <1>6, <2>2 DEF KernelInv, Tidy
    <3>2. t # forking
      BY <1>3, <3>1 DEF Of
    <3>3. /\ ptr[<<"process", t>>] # e /\ ptr[<<"stack", t>>] # e
          /\ ptr[<<"process", t>>] \in Pages /\ ptr[<<"stack", t>>] \in Pages
      <4>1. <<"process", t>> \in Names /\ <<"stack", t>> \in Names
            /\ <<"process", t>> # Of("entry") /\ <<"stack", t>> # Of("entry")
        BY <1>1, NameFacts DEF Of
      <4> QED
        BY <1>2, <1>3, <3>1, <4>1, OwnedPage DEF e
    <3> QED
      BY <1>6, <1>8, <1>9, <3>1, <3>2, <3>3
  <2>3. \A p \in BootReserved : mem'[p].of = <<"boot", 0>>
    BY <1>1, <1>4, <1>8, PageTableAssumption DEF KernelInv, Tidy
  <2>4. ~g_listener' /\ ptr'[last] = 0
    BY <1>1, <1>6 DEF KernelInv, PhaseInv
  <2> QED
    BY <2>1, <2>2, <2>3, <2>4 DEF Tidy
<1> QED
  BY <1>11, <1>12, <1>13, <1>15, <1>16, <1>17 DEF KernelInv

\* The registers kfork writes.
FirstRegs(t, i) == [owner |-> t, pc |-> Function(t), stack |-> i, scan |-> 0]

LEMMA FirstRegsFacts ==
    ASSUME NEW t \in Pids, NEW i \in Pages
    PROVE  /\ FirstRegs(t, i) \in Context /\ FirstRegs(t, i).owner = t /\ FirstRegs(t, i).scan = 0
           /\ t = idle => IdleAt(FirstRegs(t, i))
           /\ t = shell => FirstRegs(t, i).pc = "dir"
<1>1. Function(t) \in Places
  BY DEF Function, Places, Early
<1>2. FirstRegs(t, i) \in Context
  BY <1>1, PageZero DEF FirstRegs, Context
<1> QED
  BY <1>2, NameFacts DEF FirstRegs, Function, IdleAt

LEMMA RegsStep ==
    ASSUME KernelInv, kfork_regs
    PROVE  KernelInv'
<1> DEFINE a == ptr[Of("process")]
           b == ptr[Of("stack")]
           r == FirstRegs(forking, b)
           c == FirstContent(forking, r)
           d == Content("stack", forking)
<1>1. /\ cpid = 0 /\ KmainAt /\ ~g_listener /\ ~exit /\ forking \in Pids
      /\ cpu.pc = "regs" /\ cpu.owner = 0
  BY KmainRuns DEF kfork_regs, KmainAt
<1>2. /\ Of("process") \in Names /\ Of("stack") \in Names /\ Of("process") # Of("stack")
  BY <1>1, NameFacts DEF Of
<1>3. a # 0 /\ b # 0
  BY <1>1 DEF KmainAt, Has
<1>4. /\ a \in Pages /\ a \notin BootReserved /\ b \in Pages /\ b \notin BootReserved /\ a # b
  BY <1>2, <1>3, OwnedPage
<1>5. /\ r \in Context /\ r.owner = forking /\ r.scan = 0
      /\ forking = idle => IdleAt(r)
      /\ forking = shell => r.pc = "dir"
  BY <1>1, <1>4, FirstRegsFacts
<1>6. c \in PageContent /\ c.of = <<"process", forking>> /\ c.process = 0 /\ c.regs = r
  BY <1>1, <1>5, ProcessFacts
<1>7. /\ d \in PageContent /\ d.of = <<"stack", forking>> /\ d.process = 0
      /\ \A t : d.of # <<"process", t>>
  <2>1. d \in PageContent /\ d.of = <<"stack", forking>> /\ d.process = 0
    BY <1>1, ContentFacts DEF Kinds, Structs
  <2> QED
    BY <2>1, KindFacts
<1>8. /\ mem' = [mem EXCEPT ![a] = c, ![b] = d]
      /\ cpu' = [cpu EXCEPT !.pc = "count", !.scan = 0]
      /\ page_table' = page_table /\ cpid' = cpid /\ active_procs' = active_procs
      /\ forking' = forking /\ ptr' = ptr /\ proc_list' = proc_list
      /\ UNCHANGED g_listener /\ UNCHANGED exit /\ UNCHANGED clock
  BY DEF kfork_regs, Goto, ui, procs, FirstContent, FirstRegs
<1> HIDE DEF a, b, c, d, r
<1>9. mem \in [Pages -> PageContent] /\ cpu \in Context /\ proc_list \in [Pids -> Pages]
  BY DEF KernelInv, TypeInv, TypeOK
<1>10. \A p \in Pages : mem'[p] = IF p = b THEN d ELSE IF p = a THEN c ELSE mem[p]
  BY <1>4, <1>8, <1>9
<1>11. cpu' \in Context /\ cpu'.owner = 0 /\ cpu'.pc = "count" /\ cpu'.scan = 0
  BY <1>1, <1>8, <1>9, PageZero DEF Context, Places
<1>12. TypeInv'
  <2>1. mem' \in [Pages -> PageContent] /\ DOMAIN mem' = Pages
    BY <1>4, <1>6, <1>7, <1>8, <1>9
  <2> QED
    BY <1>8, <1>11, <2>1 DEF KernelInv, TypeInv, TypeOK, Context
<1>13. TableInv' /\ PhaseInv'
  BY <1>8 DEF KernelInv, TableInv, BootPages, Owners, PhaseInv
<1>14. RegsInv' /\ TextInv'
  <2>1. RegsInv'
    <3> SUFFICES ASSUME NEW p \in Pages, NEW t \in Pids, mem'[p].of = <<"process", t>>
                 PROVE  mem'[p].regs.owner = t /\ (t = idle => IdleAt(mem'[p].regs))
      BY DEF RegsInv, IdleAt
    <3>1. CASE p = a
      <4>1. mem'[p] = c
        BY <1>4, <1>10, <3>1
      <4>2. t = forking
        BY <1>6, <4>1, KindFacts
      <4> QED
        BY <1>5, <1>6, <4>1, <4>2
    <3>2. CASE p # a
      <4>1. mem'[p] = mem[p]
        BY <1>7, <1>10, <3>2
      <4> QED
        BY <4>1 DEF KernelInv, RegsInv
    <3> QED
      BY <3>1, <3>2
  <2>2. TextInv'
    BY <1>1, <1>6, <1>7, <1>8, <1>10 DEF KernelInv, TextInv
  <2> QED
    BY <2>1, <2>2
<1>15. KmainAt'
  <2>1. ASSUME NEW p \in Pages, mem'[p].of = <<"process", shell>>
        PROVE  mem'[p].regs.pc = "dir" /\ mem'[p].regs.scan = 0
    <3>1. CASE p = a
      <4>1. mem'[p] = c
        BY <1>4, <1>10, <3>1
      <4>2. shell = forking
        BY <1>6, <2>1, <4>1, KindFacts
      <4> QED
        BY <1>5, <1>6, <4>1, <4>2
    <3>2. CASE p # a
      <4>1. mem'[p] = mem[p]
        BY <1>7, <1>10, <2>1, <3>2
      <4> QED
        BY <1>1, <2>1, <4>1 DEF KmainAt
    <3> QED
      BY <3>1, <3>2
  <2>2. mem'[a].of = Of("process") /\ mem'[b].of = Of("stack")
    BY <1>4, <1>6, <1>7, <1>10 DEF Of
  <2>3. \A kind : Of(kind)' = Of(kind)
    BY <1>8 DEF Of
  <2>4. ptr'[Of("process")'] = a /\ ptr'[Of("stack")'] = b
    BY <1>8, <2>3 DEF a, b
  <2> QED
    BY <1>1, <1>8, <1>11, <2>1, <2>2, <2>3, <2>4 DEF KmainAt, Has
<1>16. CpuInv' /\ CountInv'
  BY <1>1, <1>8, <1>15, NameFacts DEF CpuInv, CountInv
<1>17. Parked'
  <2>1. mem'[0].of # <<"process", shell>>
    BY <1>1, <1>4, <1>10, PageZero DEF KernelInv, Parked
  <2> QED
    BY <1>1, <1>8, <1>12, <1>14, <1>15, <2>1, KmainParked
<1>18. Tidy'
  <2>1. ASSUME NEW t \in Pids, proc_list'[t] # 0
        PROVE  /\ proc_list'[t] = ptr'[<<"entry", t>>]
               /\ mem'[proc_list'[t]].of = <<"entry", t>>
               /\ mem'[proc_list'[t]].process = ptr'[<<"process", t>>]
               /\ ptr'[<<"process", t>>] # 0
    <3>1. /\ proc_list[t] = ptr[<<"entry", t>>] /\ proc_list[t] # 0
          /\ mem[proc_list[t]].of = <<"entry", t>>
          /\ mem[proc_list[t]].process = ptr[<<"process", t>>]
          /\ ptr[<<"process", t>>] # 0
      BY <1>1, <1>8, <2>1 DEF KernelInv, Tidy
    <3>2. <<"entry", t>> \in Names /\ <<"entry", t>> # Of("process") /\ <<"entry", t>> # Of("stack")
      BY <1>1, NameFacts DEF Of
    <3>3. proc_list[t] # a /\ proc_list[t] # b /\ proc_list[t] \in Pages
      BY <1>2, <3>1, <3>2, OwnedPage DEF a, b
    <3>4. mem'[proc_list[t]] = mem[proc_list[t]]
      BY <1>10, <3>3
    <3> QED
      BY <1>8, <3>1, <3>4
  <2>2. ASSUME NEW t \in Pids, active_procs' >= t
        PROVE  /\ proc_list'[t] # 0 /\ ptr'[<<"stack", t>>] # 0
               /\ mem'[ptr'[<<"process", t>>]].of = <<"process", t>>
               /\ mem'[ptr'[<<"stack", t>>]].of = <<"stack", t>>
    <3>1. /\ proc_list[t] # 0 /\ ptr[<<"stack", t>>] # 0 /\ ptr[<<"process", t>>] # 0
          /\ mem[ptr[<<"process", t>>]].of = <<"process", t>>
          /\ mem[ptr[<<"stack", t>>]].of = <<"stack", t>>
      BY <1>1, <1>8, <2>2 DEF KernelInv, Tidy
    <3>2. t # forking
      BY <1>1, <1>8, <2>2, NameFacts DEF KmainAt
    <3>3. /\ <<"process", t>> \in Names /\ <<"stack", t>> \in Names
          /\ <<"process", t>> # Of("process") /\ <<"process", t>> # Of("stack")
          /\ <<"stack", t>> # Of("process") /\ <<"stack", t>> # Of("stack")
      BY <1>1, <3>2, NameFacts DEF Of
    <3>4. /\ ptr[<<"process", t>>] # a /\ ptr[<<"process", t>>] # b
          /\ ptr[<<"stack", t>>] # a /\ ptr[<<"stack", t>>] # b
          /\ ptr[<<"process", t>>] \in Pages /\ ptr[<<"stack", t>>] \in Pages
      BY <1>2, <3>1, <3>3, OwnedPage DEF a, b
    <3> QED
      BY <1>8, <1>10, <3>1, <3>4
  <2>3. \A p \in BootReserved : mem'[p].of = <<"boot", 0>>
    BY <1>1, <1>4, <1>10, PageTableAssumption DEF KernelInv, Tidy
  <2>4. ~g_listener' /\ ptr'[last] = 0
    BY <1>1, <1>8 DEF KernelInv, PhaseInv
  <2> QED
    BY <2>1, <2>2, <2>3, <2>4 DEF Tidy
<1> QED
  BY <1>12, <1>13, <1>14, <1>16, <1>17, <1>18 DEF KernelInv

LEMMA CountStep ==
    ASSUME KernelInv, kfork_count
    PROVE  KernelInv'
<1>1. /\ cpid = 0 /\ KmainAt /\ ~g_listener /\ ~exit /\ forking \in Pids
      /\ cpu.pc = "count" /\ cpu.owner = 0
  BY KmainRuns DEF kfork_count, KmainAt
<1>2. PICK next \in {"process", "halt"} :
        /\ cpu' = [cpu EXCEPT !.pc = next, !.scan = 0]
        /\ forking' = shell
        /\ next = "process" <=> forking = idle
        /\ next = "halt" <=> forking = shell
  BY NameFacts DEF kfork_count, Goto
<1>3. /\ page_table' = page_table /\ mem' = mem /\ proc_list' = proc_list /\ cpid' = cpid
      /\ ptr' = ptr /\ active_procs' = active_procs + 1
      /\ UNCHANGED g_listener /\ UNCHANGED exit /\ UNCHANGED clock
  BY DEF kfork_count, ui
<1>4. cpu \in Context
  BY DEF KernelInv, TypeInv
<1>5. cpu' \in Context /\ cpu'.owner = 0 /\ cpu'.pc = next /\ cpu'.scan = 0
  BY <1>1, <1>2, <1>4, PageZero DEF Context, Places
<1>6. active_procs = forking - 1 /\ active_procs' = forking
  BY <1>1, <1>3, NameFacts DEF KmainAt
<1>7. TypeInv'
  <2>1. active_procs' \in 0..2 /\ forking' \in Pids
    BY <1>1, <1>2, <1>6, NameFacts
  <2> QED
    BY <1>3, <1>5, <2>1 DEF KernelInv, TypeInv, TypeOK, Context
<1>8. TableInv' /\ PhaseInv' /\ RegsInv' /\ TextInv'
  <2>1. TableInv' /\ PhaseInv'
    BY <1>3 DEF KernelInv, TableInv, BootPages, Owners, PhaseInv
  <2>2. RegsInv' /\ TextInv'
    BY <1>3 DEF KernelInv, RegsInv, IdleAt, TextInv
  <2> QED
    BY <2>1, <2>2
<1>9. KmainAt'
  <2>1. CASE next = "process"
    <3>1. forking = idle /\ \A kind \in Structs : ptr[<<kind, shell>>] = 0
      BY <1>1, <1>2, <2>1 DEF KmainAt
    <3>2. ~Has("process")' /\ ~Has("entry")' /\ ~Has("stack")'
      BY <1>2, <1>3, <3>1, NameFacts DEF Has, Of
    <3> QED
      BY <1>1, <1>2, <1>3, <1>5, <1>6, <2>1, <3>1, <3>2, NameFacts DEF KmainAt
  <2>2. CASE next = "halt"
    <3>1. forking = shell /\ \A kind : Of(kind)' = Of(kind)
      BY <1>2, <2>2 DEF Of
    <3> QED
      BY <1>1, <1>2, <1>3, <1>5, <1>6, <2>2, <3>1, NameFacts DEF KmainAt, Has
  <2> QED
    BY <1>2, <2>1, <2>2
<1>10. CpuInv' /\ CountInv'
  BY <1>1, <1>3, <1>9, NameFacts DEF CpuInv, CountInv
<1>11. Parked'
  <2>1. mem'[0].of # <<"process", shell>>
    BY <1>1, <1>3 DEF KernelInv, Parked
  <2> QED
    BY <1>1, <1>3, <1>7, <1>8, <1>9, <2>1, KmainParked
<1>12. Tidy'
  <2>1. ASSUME NEW t \in Pids, active_procs' >= t
        PROVE  /\ proc_list'[t] # 0 /\ ptr'[<<"stack", t>>] # 0
               /\ mem'[ptr'[<<"process", t>>]].of = <<"process", t>>
               /\ mem'[ptr'[<<"stack", t>>]].of = <<"stack", t>>
    <3>1. CASE t = forking
      BY <1>1, <1>3, <3>1 DEF KmainAt, Has, Of
    <3>2. CASE t # forking
      <4>1. active_procs >= t
        BY <1>1, <1>6, <2>1, <3>2, NameFacts
      <4> QED
        BY <1>1, <1>3, <4>1 DEF KernelInv, Tidy
    <3> QED
      BY <3>1, <3>2
  <2> QED
    BY <1>1, <1>3, <2>1 DEF KernelInv, Tidy
<1> QED
  BY <1>7, <1>8, <1>10, <1>11, <1>12 DEF KernelInv

LEMMA KmainStep ==
    ASSUME KernelInv, kmain
    PROVE  KernelInv'
<1>1. 0 \in 0..(TagMod - 1) /\ Tag(forking) \in 0..(TagMod - 1)
  <2>1. forking \in Nat
    BY NameFacts DEF KernelInv, TypeInv, TypeOK
  <2> QED
    BY <2>1, TagType, PageTableAssumption
<1>2. CASE kfork_process
  <2>1. InKfork("process") /\ UNCHANGED <<mem, procs, ui>>
        /\ (Search \/ Take(Of("process"), 0, "entry"))
    BY <1>2 DEF kfork_process, AllocateIn
  <2>2. CASE Search
    BY <2>1, <2>2, SearchStep
  <2>3. CASE Take(Of("process"), 0, "entry")
    BY <1>1, <2>1, <2>3, KforkTake, NameFacts
  <2> QED
    BY <2>1, <2>2, <2>3
<1>3. CASE kfork_entry
  <2>1. InKfork("entry") /\ UNCHANGED <<mem, procs, ui>>
        /\ (Search \/ Take(Of("entry"), 0, "publish"))
    BY <1>3 DEF kfork_entry, AllocateIn
  <2>2. CASE Search
    BY <2>1, <2>2, SearchStep
  <2>3. CASE Take(Of("entry"), 0, "publish")
    BY <1>1, <2>1, <2>3, KforkTake, NameFacts
  <2> QED
    BY <2>1, <2>2, <2>3
<1>4. CASE kfork_stack
  <2>1. InKfork("stack") /\ UNCHANGED <<mem, procs, ui>>
        /\ (Search \/ Take(Of("stack"), Tag(forking), "regs"))
    BY <1>4 DEF kfork_stack, AllocateIn
  <2>2. CASE Search
    BY <2>1, <2>2, SearchStep
  <2>3. CASE Take(Of("stack"), Tag(forking), "regs")
    BY <1>1, <2>1, <2>3, KforkTake, NameFacts
  <2> QED
    BY <2>1, <2>2, <2>3
<1> QED
  BY <1>2, <1>3, <1>4, PublishStep, RegsStep, CountStep DEF kmain

----------------------------------------------------------------------------
(***************************************************************************)
(* The shell.                                                              *)
(***************************************************************************)
\* Nothing is parked while the shell runs but what the page 0 may hold.
LEMMA ShellParked ==
    ASSUME KernelInv, cpid' = shell, mem'[0] = mem[0], exit => exit'
    PROVE  Parked'
  BY DEF KernelInv, Parked

\* eshell's kmallocs.
LEMMA ShellTake ==
    ASSUME KernelInv, NEW n, NEW place, NEW next,
           InShell(place), Take(n, 0, next), UNCHANGED <<mem, procs, ui>>,
           \/ n = dir /\ place = "dir" /\ next = "cur"
           \/ n = cur /\ place = "cur" /\ next = "clear"
    PROVE  KernelInv'
<1>1. /\ cpid = shell /\ ShellAt(cpu) /\ cpu.pc = place /\ cpu.owner = shell
      /\ next \in Places /\ n \in {dir, cur} /\ n \in Names
  BY ShellRuns, NameFacts DEF Places, Early, ShellAt
<1>2. ptr[n] = 0 /\ Spare(page_table, cpu.scan) /\ ~g_listener
  BY <1>1 DEF ShellAt, Take, Early
<1>3. /\ TypeInv' /\ TableInv'
      /\ ptr' = [ptr EXCEPT ![n] = cpu.scan] /\ cpu.scan \in Pages /\ cpu.scan # 0
      /\ cpu'.owner = cpu.owner /\ cpu'.pc = next /\ cpu'.scan = 0
      /\ UNCHANGED <<mem, proc_list>> /\ UNCHANGED <<cpid, active_procs>>
      /\ UNCHANGED forking /\ UNCHANGED g_listener /\ UNCHANGED exit
  <2>1. 0 \in 0..(TagMod - 1)
    BY PageTableAssumption
  <2> QED
    BY <1>1, <1>2, <2>1, TakeTable
<1>4. \A m \in Names : ptr'[m] = IF m = n THEN cpu.scan ELSE ptr[m]
  BY <1>1, <1>3 DEF KernelInv, TypeInv, TypeOK
<1>5. /\ \A k \in Structs : \A t \in Pids : ptr'[<<k, t>>] = ptr[<<k, t>>]
      /\ ptr'[last] = ptr[last]
  BY <1>1, <1>4, NameFacts
<1>6. ShellAt(cpu)'
  <2>1. CASE n = dir
    <3>1. /\ place = "dir" /\ cpu'.pc = "cur" /\ ptr'[dir] # 0 /\ ptr'[cur] = ptr[cur]
      BY <1>1, <1>3, <1>4, <2>1, NameFacts
    <3> QED
      BY <1>1, <1>2, <1>3, <3>1 DEF ShellAt, Leaving, Gone
  <2>2. CASE n = cur
    <3>1. /\ place = "cur" /\ cpu'.pc = "clear" /\ ptr'[cur] # 0 /\ ptr'[dir] = ptr[dir]
      BY <1>1, <1>3, <1>4, <2>2, NameFacts
    <3> QED
      BY <1>1, <1>2, <1>3, <3>1 DEF ShellAt, Leaving, Gone
  <2> QED
    BY <1>1, <2>1, <2>2
<1>7. CpuInv' /\ CountInv'
  <2>1. CountInv'
    BY <1>1, <1>3 DEF KernelInv, CountInv
  <2> QED
    BY <1>1, <1>3, <1>6, <2>1, NameFacts DEF CpuInv
<1>8. RegsInv' /\ TextInv' /\ PhaseInv'
  <2>1. RegsInv'
    BY <1>3 DEF KernelInv, RegsInv, IdleAt
  <2>2. TextInv'
    BY <1>2, <1>3 DEF KernelInv, TextInv
  <2>3. PhaseInv'
    BY <1>2, <1>3, <1>5 DEF KernelInv, PhaseInv
  <2> QED
    BY <2>1, <2>2, <2>3
<1>9. Parked'
  BY <1>1, <1>3, ShellParked
<1>10. Tidy'
  BY <1>2, <1>3, <1>5, NameFacts, TidyFrame DEF KernelInv
<1> QED
  BY <1>3, <1>7, <1>8, <1>9, <1>10 DEF KernelInv

\* The shell goes on without touching memory.
LEMMA ShellMoves ==
    ASSUME KernelInv, NEW place, InShell(place), place # "spin",
           NEW next \in Loop \cup {"free_pages"}, next \in Leaving => exit, Goto(next),
           UNCHANGED <<page_table, mem, procs, ptr>>,
           UNCHANGED g_listener, UNCHANGED exit,
           clock' \in [ticks : 0..(TicksPerSec - 1), due : BOOLEAN]
    PROVE  KernelInv'
<1>1. cpid = shell /\ ShellAt(cpu) /\ cpu.owner = shell
  BY ShellRuns DEF ShellAt
<1>2. /\ UNCHANGED <<page_table, mem, proc_list, ptr>> /\ UNCHANGED <<cpid, active_procs>>
      /\ UNCHANGED forking
  BY DEF procs
<1>3. cpu \in Context /\ next \in Places
  BY DEF KernelInv, TypeInv, Places, Leaving
<1>4. cpu' \in Context /\ cpu'.owner = shell /\ cpu'.pc = next /\ cpu'.scan = 0
  BY <1>1, <1>3, PageZero DEF Goto, Context
<1>5. TypeInv'
  BY <1>2, <1>4 DEF KernelInv, TypeInv, TypeOK, Context
<1>6. ShellAt(cpu)'
  BY <1>4 DEF ShellAt, Loop, Leaving, Early, Gone
<1>7. CpuInv' /\ CountInv'
  <2>1. CountInv'
    BY <1>1, <1>2, <1>4 DEF KernelInv, CountInv, InShell
  <2> QED
    BY <1>1, <1>2, <1>6, <2>1, NameFacts DEF CpuInv
<1> QED
  BY <1>2, <1>5, <1>7, MemoryFrame DEF KernelInv

LEMMA LoopStep ==
    ASSUME KernelInv, eshell_loop
    PROVE  KernelInv'
<1>1. clock' \in [ticks : 0..(TicksPerSec - 1), due : BOOLEAN]
  BY DEF eshell_loop, KernelInv, TypeInv, TypeOK
<1>2. \E place \in Loop : \E next \in Loop \cup {"free_pages"} :
        InShell(place) /\ Goto(next) /\ (next \in Leaving => exit)
  BY DEF eshell_loop, Loop, Leaving
<1>3. /\ UNCHANGED <<page_table, mem, procs, ptr>> /\ UNCHANGED g_listener /\ UNCHANGED exit
  BY DEF eshell_loop
<1> QED
  BY <1>1, <1>2, <1>3, ShellMoves DEF Loop

\* A write that leaves the pages of the processes' structures alone.
LEMMA TidyWrite ==
    ASSUME Tidy, ~exit, proc_list' = proc_list, active_procs' = active_procs,
           \A k \in Structs : \A t \in Pids :
               /\ ptr'[<<k, t>>] = ptr[<<k, t>>]
               /\ ptr[<<k, t>>] # 0 => mem'[ptr[<<k, t>>]] = mem[ptr[<<k, t>>]],
           \A p \in BootReserved : mem'[p] = mem[p],
           g_listener' => mem'[ptr'[cur]].of = Command.of,
           ptr'[last] # 0 => mem'[ptr'[last]].of = Command.of
    PROVE  Tidy'
<1>1. \A k \in {"process", "entry", "stack"} : \A t \in Pids :
        /\ ptr'[<<k, t>>] = ptr[<<k, t>>]
        /\ ptr[<<k, t>>] # 0 => mem'[ptr[<<k, t>>]] = mem[ptr[<<k, t>>]]
  BY DEF Structs
<1>2. ASSUME NEW t \in Pids, proc_list'[t] # 0
      PROVE  /\ proc_list'[t] = ptr'[<<"entry", t>>]
             /\ mem'[proc_list'[t]].of = <<"entry", t>>
             /\ mem'[proc_list'[t]].process = ptr'[<<"process", t>>]
             /\ ptr'[<<"process", t>>] # 0
  <2>1. /\ proc_list[t] # 0 /\ proc_list[t] = ptr[<<"entry", t>>]
        /\ mem[proc_list[t]].of = <<"entry", t>>
        /\ mem[proc_list[t]].process = ptr[<<"process", t>>]
        /\ ptr[<<"process", t>>] # 0
    BY <1>2 DEF Tidy
  <2>2. mem'[proc_list[t]] = mem[proc_list[t]]
    BY <1>1, <2>1
  <2> QED
    BY <1>1, <2>1, <2>2
<1>3. ASSUME NEW t \in Pids, active_procs' >= t
      PROVE  /\ proc_list'[t] # 0 /\ ptr'[<<"stack", t>>] # 0
             /\ mem'[ptr'[<<"process", t>>]].of = <<"process", t>>
             /\ mem'[ptr'[<<"stack", t>>]].of = <<"stack", t>>
  <2>1. /\ proc_list[t] # 0 /\ ptr[<<"stack", t>>] # 0
        /\ mem[ptr[<<"process", t>>]].of = <<"process", t>>
        /\ mem[ptr[<<"stack", t>>]].of = <<"stack", t>>
    BY <1>3 DEF Tidy
  <2>2. ptr[<<"process", t>>] # 0
    BY <2>1 DEF Tidy
  <2> QED
    BY <1>1, <2>1, <2>2
<1>4. \A p \in BootReserved : mem'[p].of = <<"boot", 0>>
  BY DEF Tidy
<1> QED
  BY <1>2, <1>3, <1>4 DEF Tidy

LEMMA CommandFacts ==
    /\ Command \in PageContent /\ Command.of = <<"command", shell>> /\ Command.text = ""
    /\ Command.process = 0 /\ \A t : Command.of # <<"process", t>>
<1>1. /\ Command \in PageContent /\ Command.of = <<"command", shell>> /\ Command.text = ""
      /\ Command.process = 0
  <2>1. "command" \in Kinds /\ shell \in Pids \cup {0}
    BY NameFacts DEF Kinds
  <2> QED
    BY <2>1, ContentFacts DEF Command
<1> QED
  BY <1>1, KindFacts

LEMMA ClearStep ==
    ASSUME KernelInv, eshell_clear
    PROVE  KernelInv'
<1> DEFINE a == ptr[dir]
           b == ptr[cur]
           c == Content("dir", shell)
<1>1. /\ cpid = shell /\ ShellAt(cpu) /\ cpu.pc = "clear" /\ cpu.owner = shell
  BY ShellRuns DEF eshell_clear, ShellAt
<1>2. a # 0 /\ b # 0 /\ ~g_listener /\ ~exit
  BY <1>1 DEF ShellAt, Early, KernelInv, PhaseInv
<1>3. a \in Pages \ BootReserved /\ b \in Pages \ BootReserved /\ a # b
  BY <1>2, OwnedPage, NameFacts
<1>4. /\ c \in PageContent /\ c.process = 0 /\ \A t : c.of # <<"process", t>>
  <2>1. c \in PageContent /\ c.of = <<"dir", shell>> /\ c.process = 0
    <3>1. "dir" \in Kinds /\ shell \in Pids \cup {0}
      BY NameFacts DEF Kinds
    <3> QED
      BY <3>1, ContentFacts
  <2> QED
    BY <2>1, KindFacts
<1>5. /\ mem' = [mem EXCEPT ![a] = c, ![b] = Command]
      /\ cpu' = [cpu EXCEPT !.pc = "listen", !.scan = 0]
      /\ page_table' = page_table /\ cpid' = cpid /\ active_procs' = active_procs
      /\ forking' = forking /\ ptr' = ptr /\ proc_list' = proc_list
      /\ UNCHANGED g_listener /\ UNCHANGED exit /\ UNCHANGED clock
  BY DEF eshell_clear, Goto, ui, procs
<1> HIDE DEF a, b, c
<1>6. mem \in [Pages -> PageContent] /\ cpu \in Context
  BY DEF KernelInv, TypeInv
<1>7. \A p \in Pages : mem'[p] = IF p = b THEN Command ELSE IF p = a THEN c ELSE mem[p]
  BY <1>3, <1>5, <1>6
<1>8. cpu' \in Context /\ cpu'.owner = shell /\ cpu'.pc = "listen" /\ cpu'.scan = 0
  BY <1>1, <1>5, <1>6, PageZero DEF Context, Places, Early
<1>9. TypeInv'
  <2>1. mem' \in [Pages -> PageContent] /\ DOMAIN mem' = Pages
    BY <1>3, <1>4, <1>5, <1>6, CommandFacts
  <2> QED
    BY <1>5, <1>8, <2>1 DEF KernelInv, TypeInv, TypeOK, Context
<1>10. TableInv' /\ PhaseInv'
  BY <1>5 DEF KernelInv, TableInv, BootPages, Owners, PhaseInv
<1>11. RegsInv' /\ TextInv'
  <2>1. RegsInv'
    <3> SUFFICES ASSUME NEW p \in Pages, NEW t \in Pids, mem'[p].of = <<"process", t>>
                 PROVE  mem'[p].regs.owner = t /\ (t = idle => IdleAt(mem'[p].regs))
      BY DEF RegsInv, IdleAt
    <3>1. mem'[p] = mem[p]
      BY <1>4, <1>7, CommandFacts
    <3> QED
      BY <3>1 DEF KernelInv, RegsInv
  <2>2. TextInv'
    BY <1>2, <1>4, <1>5, <1>7, CommandFacts DEF KernelInv, TextInv
  <2> QED
    BY <2>1, <2>2
<1>12. ShellAt(cpu)'
  <2>1. mem'[ptr'[cur]] = Command /\ ptr'[cur] # 0
    BY <1>2, <1>3, <1>5, <1>7 DEF b
  <2> QED
    BY <1>2, <1>5, <1>8, <2>1, CommandFacts DEF ShellAt, Leaving, Gone
<1>13. CpuInv' /\ CountInv'
  <2>1. CountInv'
    BY <1>1, <1>5, <1>8 DEF KernelInv, CountInv
  <2> QED
    BY <1>1, <1>5, <1>12, <2>1, NameFacts DEF CpuInv
<1>14. Parked'
  <2>1. mem'[0] = mem[0]
    BY <1>3, <1>7, PageZero
  <2> QED
    BY <1>1, <1>5, <2>1, ShellParked
<1>15. Tidy'
  <2>1. ASSUME NEW k \in Structs, NEW t \in Pids, ptr[<<k, t>>] # 0
        PROVE  mem'[ptr[<<k, t>>]] = mem[ptr[<<k, t>>]]
    <3>1. <<k, t>> \in Names /\ <<k, t>> # dir /\ <<k, t>> # cur
      BY NameFacts
    <3>2. ptr[<<k, t>>] # a /\ ptr[<<k, t>>] # b /\ ptr[<<k, t>>] \in Pages
      BY <2>1, <3>1, OwnedPage, NameFacts DEF a, b
    <3> QED
      BY <1>7, <3>2
  <2>2. \A p \in BootReserved : mem'[p] = mem[p]
    BY <1>3, <1>7, PageTableAssumption
  <2>3. ~g_listener' /\ ptr'[last] = 0
    BY <1>2, <1>5 DEF KernelInv, PhaseInv
  <2> QED
    BY <1>2, <1>5, <2>1, <2>2, <2>3, TidyWrite DEF KernelInv
<1> QED
  BY <1>9, <1>10, <1>11, <1>13, <1>14, <1>15 DEF KernelInv

LEMMA ListenStep ==
    ASSUME KernelInv, register_kb_listener
    PROVE  KernelInv'
<1>1. /\ cpid = shell /\ ShellAt(cpu) /\ cpu.pc = "listen" /\ cpu.owner = shell
  BY ShellRuns DEF register_kb_listener, ShellAt
<1>2. /\ ~g_listener /\ ~exit /\ ptr[cur] # 0 /\ ptr[last] = 0
      /\ mem[ptr[cur]].of = Command.of /\ mem[ptr[cur]].process = 0
  BY <1>1 DEF ShellAt, Early, KernelInv, PhaseInv
<1>3. /\ cpu' = [cpu EXCEPT !.pc = "loop", !.scan = 0] /\ g_listener' = TRUE
      /\ page_table' = page_table /\ mem' = mem /\ cpid' = cpid /\ active_procs' = active_procs
      /\ forking' = forking /\ ptr' = ptr /\ proc_list' = proc_list
      /\ UNCHANGED exit /\ UNCHANGED clock
  BY DEF register_kb_listener, Goto, procs
<1>4. cpu \in Context
  BY DEF KernelInv, TypeInv
<1>5. cpu' \in Context /\ cpu'.owner = shell /\ cpu'.pc = "loop" /\ cpu'.scan = 0
  BY <1>1, <1>3, <1>4, PageZero DEF Context, Places, Loop
<1>6. TypeInv'
  BY <1>3, <1>5 DEF KernelInv, TypeInv, TypeOK, Context
<1>7. TableInv' /\ PhaseInv' /\ RegsInv' /\ TextInv'
  <2>1. TableInv' /\ PhaseInv'
    BY <1>2, <1>3 DEF KernelInv, TableInv, BootPages, Owners, PhaseInv
  <2>2. RegsInv' /\ TextInv'
    BY <1>2, <1>3 DEF KernelInv, RegsInv, IdleAt, TextInv
  <2> QED
    BY <2>1, <2>2
<1>8. CpuInv' /\ CountInv'
  <2>1. CountInv'
    BY <1>1, <1>3, <1>5 DEF KernelInv, CountInv
  <2>2. ShellAt(cpu)'
    BY <1>5 DEF ShellAt, Early, Leaving, Gone
  <2> QED
    BY <1>1, <1>3, <2>1, <2>2, NameFacts DEF CpuInv
<1>9. Parked'
  BY <1>1, <1>3, ShellParked
<1>10. Tidy'
  BY <1>2, <1>3 DEF KernelInv, Tidy
<1> QED
  BY <1>6, <1>7, <1>8, <1>9, <1>10 DEF KernelInv

----------------------------------------------------------------------------
(***************************************************************************)
(* The end of the shell: it is only ever reached once exit has been typed, *)
(* and leaves the current command alone.                                   *)
(***************************************************************************)
LEMMA LeavingFrame ==
    ASSUME KernelInv, NEW place \in Leaving, InShell(place), NEW next \in Leaving, Goto(next),
           mem' = mem, cpid' = cpid, UNCHANGED g_listener, UNCHANGED exit, ptr'[cur] = ptr[cur],
           next \in Gone => proc_list'[shell] = 0
    PROVE  /\ cpu' \in Context /\ cpu'.owner = shell /\ cpu'.pc = next
           /\ exit /\ cpid = shell
           /\ CpuInv' /\ RegsInv' /\ TextInv' /\ Parked' /\ Tidy' /\ PhaseInv'
<1>1. cpid = shell /\ ShellAt(cpu) /\ cpu.pc = place /\ cpu.owner = shell
  BY ShellRuns DEF ShellAt
<1>2. exit /\ g_listener /\ ptr[cur] # 0
  BY <1>1 DEF ShellAt, KernelInv, PhaseInv
<1>3. cpu \in Context /\ next \in Places
  BY DEF KernelInv, TypeInv, Places
<1>4. cpu' \in Context /\ cpu'.owner = shell /\ cpu'.pc = next /\ cpu'.scan = 0
  BY <1>1, <1>3, PageZero DEF Goto, Context
<1>5. ShellAt(cpu)'
  BY <1>2, <1>4 DEF ShellAt, Leaving, Early
<1>6. CpuInv'
  BY <1>1, <1>5, NameFacts DEF CpuInv
<1>7. RegsInv' /\ TextInv'
  BY DEF KernelInv, RegsInv, IdleAt, TextInv
<1>8. Parked'
  BY <1>1, ShellParked
<1>9. Tidy' /\ PhaseInv'
  BY <1>2 DEF Tidy, PhaseInv
<1> QED
  BY <1>1, <1>2, <1>4, <1>6, <1>7, <1>8, <1>9

LEMMA FreePidStep ==
    ASSUME KernelInv, kfree_pid
    PROVE  KernelInv'
<1>1. /\ page_table \in Tables /\ ptr \in Holdings
      /\ BootPages(page_table) /\ Owners(page_table, ptr)
  BY DEF KernelInv, TypeInv, TypeOK, TableInv, Tables, Holdings
<1>2. /\ page_table' = [p \in Pages |-> IF Tagged(p) THEN ZeroEntry ELSE page_table[p]]
      /\ ptr' = [n \in Names |-> IF Tagged(ptr[n]) THEN 0 ELSE ptr[n]]
      /\ mem' = mem /\ proc_list' = proc_list /\ cpid' = cpid /\ active_procs' = active_procs
      /\ forking' = forking /\ UNCHANGED g_listener /\ UNCHANGED exit /\ UNCHANGED clock
      /\ InShell("free_pages") /\ Goto("free_process")
  BY DEF kfree_pid, procs, ui
<1>3. ZeroEntry \in Entry /\ ZeroEntry.used = 0 /\ ZeroEntry.unusable = 0
  BY PageTableAssumption DEF ZeroEntry, Entry
<1>4. page_table' \in [Pages -> Entry] /\ ptr' \in [Names -> Pages]
  BY <1>1, <1>2, <1>3, PageZero DEF Tables, Holdings
<1>5. \A p \in BootReserved : ~Tagged(p) /\ page_table'[p] = page_table[p]
  BY <1>1, <1>2, PageTableAssumption, NameFacts DEF Tagged, BootPages, ReservedEntry
<1>6. ~Tagged(ptr[cur]) /\ ptr'[cur] = ptr[cur]
  BY <1>1, <1>2, <1>5, PageZero, NameFacts DEF Tagged, Owners
<1>7. \A p \in Pages : page_table'[p] = IF Tagged(p) THEN ZeroEntry ELSE page_table[p]
  BY <1>2
<1>8. \A n \in Names : ptr'[n] = IF Tagged(ptr[n]) THEN 0 ELSE ptr[n]
  BY <1>2
<1>9. TableInv'
  <2>1. BootPages(page_table')
    BY <1>1, <1>5, PageZero DEF BootPages
  <2>2. Owners(page_table', ptr')
    <3>1. \A m, n \in Names : m # n /\ ptr'[m] # 0 => ptr'[m] # ptr'[n]
      BY <1>1, <1>8 DEF Owners
    <3>2. \A n \in Names : ptr'[n] # 0 => ptr'[n] = ptr[n] /\ page_table'[ptr'[n]] = page_table[ptr[n]]
      BY <1>1, <1>7, <1>8 DEF Holdings
    <3>3. ASSUME NEW p \in Pages \ BootReserved
          PROVE  /\ page_table'[p].unusable = 0
                 /\ page_table'[p].used # 0 => \E n \in Names : ptr'[n] = p
      <4>1. CASE Tagged(p)
        BY <1>3, <1>7, <4>1
      <4>2. CASE ~Tagged(p)
        <5>1. page_table'[p] = page_table[p] /\ \A n \in Names : ptr[n] = p => ptr'[n] = p
          BY <1>7, <1>8, <4>2
        <5> QED
          BY <1>1, <5>1 DEF Owners
      <4> QED
        BY <4>1, <4>2
    <3> QED
      BY <1>1, <3>1, <3>2, <3>3 DEF Owners
  <2>3. ~exit' => page_table'[0] = ReservedEntry
    BY <1>2, <1>5, PageZero DEF KernelInv, TableInv
  <2> QED
    BY <2>1, <2>2, <2>3 DEF TableInv, BootPages, Owners
<1>10. /\ cpu' \in Context /\ cpu'.owner = shell /\ cpu'.pc = "free_process"
       /\ CpuInv' /\ RegsInv' /\ TextInv' /\ Parked' /\ Tidy' /\ PhaseInv'
  BY <1>2, <1>6, LeavingFrame DEF Leaving, Gone
<1>11. TypeInv'
  BY <1>2, <1>4, <1>10 DEF KernelInv, TypeInv, TypeOK, Context
<1>12. CountInv'
  BY <1>2, <1>10, ShellRuns DEF KernelInv, CountInv, ShellAt
<1> QED
  BY <1>9, <1>10, <1>11, <1>12 DEF KernelInv

\* kfree of the process or the entry, which may be gone already.
LEMMA FreeStep ==
    ASSUME KernelInv, NEW kind \in Structs, NEW place \in Leaving, NEW next \in Leaving,
           place # "spin", next \notin Gone, InShell(place), exit_v_kfree(kind, next)
    PROVE  KernelInv'
<1> DEFINE n == <<kind, shell>>
<1>1. /\ page_table \in Tables /\ ptr \in Holdings
      /\ BootPages(page_table) /\ Owners(page_table, ptr)
  BY DEF KernelInv, TypeInv, TypeOK, TableInv, Tables, Holdings
<1>2. /\ page_table' = Freed(page_table, ptr[n]) /\ ptr' = Give(ptr, n, 0)
      /\ mem' = mem /\ proc_list' = proc_list /\ cpid' = cpid /\ active_procs' = active_procs
      /\ forking' = forking /\ UNCHANGED g_listener /\ UNCHANGED exit /\ UNCHANGED clock
      /\ Goto(next)
  BY DEF exit_v_kfree, procs, ui, Give
<1>3. n \in Names /\ n # cur
  BY NameFacts
<1> HIDE DEF n
<1>4. ptr' \in [Names -> Pages] /\ ptr'[cur] = ptr[cur] /\ ptr[n] \in Pages
  BY <1>1, <1>2, <1>3, PageZero, NameFacts DEF Give, Holdings
<1>5. page_table' \in [Pages -> Entry]
  BY <1>1, <1>2, <1>4, FreedType DEF Tables
<1>6. /\ cpu' \in Context /\ cpu'.owner = shell /\ cpu'.pc = next /\ exit
      /\ CpuInv' /\ RegsInv' /\ TextInv' /\ Parked' /\ Tidy' /\ PhaseInv'
  BY <1>2, <1>4, LeavingFrame
<1>7. BootPages(page_table') /\ Owners(page_table', ptr')
  <2>1. CASE ptr[n] # 0
    <3>1. BootPages(Freed(page_table, ptr[n]))
      BY <1>1, <1>3, <2>1, Release
    <3>2. Owners(Freed(page_table, ptr[n]), Give(ptr, n, 0))
      BY <1>1, <1>3, <2>1, Release
    <3> QED
      BY <1>2, <3>1, <3>2
  <2>2. CASE ptr[n] = 0
    <3>1. Give(ptr, n, 0) = ptr
      BY <1>1, <1>3, <2>2 DEF Give, Holdings
    <3> QED
      BY <1>1, <1>2, <2>2, <3>1, ReleaseNothing
  <2> QED
    BY <2>1, <2>2
<1>8. TableInv'
  BY <1>2, <1>6, <1>7 DEF TableInv, BootPages, Owners
<1>9. TypeInv'
  BY <1>2, <1>4, <1>5, <1>6 DEF KernelInv, TypeInv, TypeOK, Context
<1>10. CountInv'
  BY <1>2, <1>6, ShellRuns DEF KernelInv, CountInv, ShellAt
<1> QED
  BY <1>6, <1>8, <1>9, <1>10 DEF KernelInv

\* The slot is cleared, and then the count lowered.
LEMMA UnlistStep ==
    ASSUME KernelInv, exit_v_unlist \/ exit_v_uncount
    PROVE  KernelInv'
<1>1. /\ page_table' = page_table /\ mem' = mem /\ ptr' = ptr /\ cpid' = cpid /\ forking' = forking
      /\ UNCHANGED g_listener /\ UNCHANGED exit /\ UNCHANGED clock
  BY DEF exit_v_unlist, exit_v_uncount, ui
<1>2. TableInv'
  BY <1>1 DEF KernelInv, TableInv, BootPages, Owners
<1>3. active_procs \in 0..2 /\ proc_list \in [Pids -> Pages]
  BY DEF KernelInv, TypeInv, TypeOK
<1>4. CASE exit_v_unlist
  <2>1. /\ InShell("unlist") /\ Goto("uncount") /\ active_procs' = active_procs
        /\ proc_list' = [proc_list EXCEPT ![shell] = 0]
    BY <1>4 DEF exit_v_unlist
  <2>2. proc_list' \in [Pids -> Pages] /\ proc_list'[shell] = 0
    BY <1>3, <2>1, PageZero, NameFacts
  <2>3. /\ cpu' \in Context /\ cpu'.owner = shell /\ cpu'.pc = "uncount" /\ cpid = shell
        /\ CpuInv' /\ RegsInv' /\ TextInv' /\ Parked' /\ Tidy' /\ PhaseInv'
    BY <1>1, <2>1, <2>2, LeavingFrame DEF Leaving
  <2>4. TypeInv'
    BY <1>1, <1>3, <2>1, <2>2, <2>3 DEF KernelInv, TypeInv, TypeOK, Context
  <2>5. CountInv'
    BY <1>1, <2>1, <2>3, NameFacts DEF KernelInv, CountInv, InShell
  <2> QED
    BY <1>2, <2>3, <2>4, <2>5 DEF KernelInv
<1>5. CASE exit_v_uncount
  <2>1. /\ InShell("uncount") /\ Goto("spin") /\ active_procs' = active_procs - 1
        /\ proc_list' = proc_list
    BY <1>5 DEF exit_v_uncount
  <2>2. /\ cpid = shell /\ cpu.owner = shell /\ cpu.pc = "uncount" /\ proc_list[shell] = 0
    BY <2>1, ShellRuns DEF ShellAt, Gone
  <2>3. active_procs >= 1
    BY <2>2, NameFacts DEF KernelInv, CountInv
  <2>4. /\ cpu' \in Context /\ cpu'.owner = shell /\ cpu'.pc = "spin"
        /\ CpuInv' /\ RegsInv' /\ TextInv' /\ Parked' /\ Tidy' /\ PhaseInv'
    BY <1>1, <2>1, <2>2, LeavingFrame DEF Leaving
  <2>5. active_procs' \in 0..2
    BY <1>3, <2>1, <2>3
  <2>6. TypeInv'
    BY <1>1, <1>3, <2>1, <2>4, <2>5 DEF KernelInv, TypeInv, TypeOK, Context
  <2>7. CountInv'
    BY <2>1, <2>2, <2>4 DEF CountInv
  <2> QED
    BY <1>2, <2>4, <2>6, <2>7 DEF KernelInv
<1> QED
  BY <1>4, <1>5

LEMMA EshellStep ==
    ASSUME KernelInv, eshell
    PROVE  KernelInv'
<1>1. CASE eshell_dir
  <2>1. InShell("dir") /\ UNCHANGED <<mem, procs, ui>> /\ (Search \/ Take(dir, 0, "cur"))
    BY <1>1 DEF eshell_dir, AllocateIn
  <2>2. CASE Search
    BY <2>1, <2>2, SearchStep
  <2>3. CASE Take(dir, 0, "cur")
    BY <2>1, <2>3, ShellTake
  <2> QED
    BY <2>1, <2>2, <2>3
<1>2. CASE eshell_cur
  <2>1. InShell("cur") /\ UNCHANGED <<mem, procs, ui>> /\ (Search \/ Take(cur, 0, "clear"))
    BY <1>2 DEF eshell_cur, AllocateIn
  <2>2. CASE Search
    BY <2>1, <2>2, SearchStep
  <2>3. CASE Take(cur, 0, "clear")
    BY <2>1, <2>3, ShellTake
  <2> QED
    BY <2>1, <2>2, <2>3
<1>3. CASE exit_v
  <2>1. CASE InShell("free_process") /\ exit_v_kfree("process", "free_entry")
    BY <2>1, FreeStep, NameFacts DEF Leaving, Gone
  <2>2. CASE InShell("free_entry") /\ exit_v_kfree("entry", "unlist")
    BY <2>2, FreeStep, NameFacts DEF Leaving, Gone
  <2> QED
    BY <1>3, <2>1, <2>2, FreePidStep, UnlistStep DEF exit_v
<1> QED
  BY <1>1, <1>2, <1>3, ClearStep, ListenStep, LoopStep DEF eshell

----------------------------------------------------------------------------
(***************************************************************************)
(* The timer.                                                              *)
(***************************************************************************)
\* Where a process's registers are, if anywhere.
LEMMA ProcessPage ==
    ASSUME KernelInv, NEW t \in Pids
    PROVE  /\ process(t) # Wild =>
                /\ process(t) \in Pages /\ proc_list[t] # 0
                /\ process(t) = mem[proc_list[t]].process
           /\ proc_list[t] # 0 /\ mem[proc_list[t]].process # 0 => process(t) # Wild
           /\ Wild \notin Pages
           /\ ~exit /\ process(t) # Wild =>
                process(t) = ptr[<<"process", t>>] /\ process(t) # 0
<1>1. /\ mem[proc_list[t]].process \in Pages /\ proc_list[t] \in Pages
      /\ mem[proc_list[t]].process # 0 => mem[proc_list[t]].text = ""
  <2>1. proc_list[t] \in Pages /\ mem[proc_list[t]] \in PageContent
    BY DEF KernelInv, TypeInv, TypeOK
  <2> QED
    BY <2>1 DEF PageContent, KernelInv, TextInv
<1>2. Wild \notin Pages
  BY PageTableAssumption DEF Wild
<1> HIDE DEF Pages
<1>3. process(t) # Wild =>
        process(t) \in Pages /\ proc_list[t] # 0 /\ process(t) = mem[proc_list[t]].process
  BY <1>1 DEF process
<1>4. proc_list[t] # 0 /\ mem[proc_list[t]].process # 0 => process(t) # Wild
  BY <1>1, <1>2 DEF process
<1>5. ~exit /\ process(t) # Wild =>
        process(t) = ptr[<<"process", t>>] /\ process(t) # 0
  BY <1>3 DEF KernelInv, Tidy
<1> QED
  BY <1>2, <1>3, <1>4, <1>5

\* The registers are saved, if cpid has a place for them.
Saves == mem' = IF cpid # 0 /\ process(cpid) # Wild
                THEN [mem EXCEPT ![process(cpid)] = SavedContent(cpid, cpu)]
                ELSE mem

\* The page p is the one they are saved to.
SavedTo(p) == cpid \in Pids /\ process(cpid) # Wild /\ p = process(cpid)

LEMMA SavesFacts ==
    ASSUME KernelInv, ~Crashed, Saves
    PROVE  /\ mem' \in [Pages -> PageContent]
           /\ \A p \in Pages : ~SavedTo(p) => mem'[p] = mem[p]
           /\ \A p : SavedTo(p) =>
                /\ p \in Pages /\ proc_list[cpid] # 0
                /\ mem'[p].of = <<"process", cpid>> /\ mem'[p].process = 0 /\ mem'[p].regs = cpu
           /\ \A p : SavedTo(p) /\ ~exit => p = ptr[<<"process", cpid>>] /\ p # 0
<1>1. /\ mem \in [Pages -> PageContent] /\ cpu \in Context /\ cpid \in Pids \cup {0}
  BY DEF KernelInv, TypeInv, TypeOK
<1>2. CASE cpid # 0 /\ process(cpid) # Wild
  <2>1. cpid \in Pids /\ process(cpid) \in Pages /\ proc_list[cpid] # 0
    BY <1>1, <1>2, ProcessPage
  <2> DEFINE c == SavedContent(cpid, cpu)
  <2>2. c \in PageContent /\ c.of = <<"process", cpid>> /\ c.process = 0 /\ c.regs = cpu
    BY <1>1, <2>1, ProcessFacts
  <2> HIDE DEF c
  <2>3. mem' = [mem EXCEPT ![process(cpid)] = c]
    BY <1>2 DEF Saves, c
  <2>4. mem' \in [Pages -> PageContent]
    BY <1>1, <2>1, <2>2, <2>3
  <2>5. \A p \in Pages : mem'[p] = IF p = process(cpid) THEN c ELSE mem[p]
    BY <1>1, <2>3
  <2> QED
    BY <1>2, <2>1, <2>2, <2>4, <2>5, ProcessPage DEF SavedTo
<1>3. CASE ~(cpid # 0 /\ process(cpid) # Wild)
  <2>1. mem' = mem
    BY <1>3 DEF Saves
  <2>2. \A p : ~SavedTo(p)
    BY <1>3, NameFacts DEF SavedTo
  <2> QED
    BY <1>1, <2>1, <2>2
<1> QED
  BY <1>2, <1>3

\* Before exit, saving leaves every owner's page alone but one.
LEMMA SavesKeep ==
    ASSUME KernelInv, ~Crashed, Saves, ~exit, NEW n \in Names, n # <<"process", cpid>>
    PROVE  mem'[ptr[n]] = mem[ptr[n]]
<1>1. ptr[n] \in Pages
  BY DEF KernelInv, TypeInv, TypeOK
<1>2. ~SavedTo(ptr[n])
  <2> SUFFICES ASSUME SavedTo(ptr[n])
               PROVE  FALSE
    OBVIOUS
  <2>1. ptr[n] = ptr[<<"process", cpid>>] /\ ptr[n] # 0 /\ cpid \in Pids
    BY SavesFacts DEF SavedTo
  <2>2. <<"process", cpid>> \in Names
    BY <2>1, NameFacts
  <2> QED
    BY <2>1, <2>2, OwnedPage
<1> QED
  BY <1>1, <1>2, SavesFacts

\* What the invariant says of the pages, after the registers are saved.
LEMMA SavesMemory ==
    ASSUME KernelInv, ~Crashed, Saves, UNCHANGED <<page_table, proc_list, ptr>>,
           UNCHANGED active_procs, UNCHANGED g_listener, UNCHANGED exit
    PROVE  /\ RegsInv' /\ TextInv' /\ Tidy'
           /\ mem'[0].of = <<"process", shell>> =>
                exit /\ mem'[0].regs.pc \notin Early \cup Gone /\ mem'[0].regs.scan = 0
           /\ ~g_listener => mem'[ptr[cur]] = mem[ptr[cur]]
<1>1. /\ \A p \in Pages : ~SavedTo(p) => mem'[p] = mem[p]
      /\ \A p : SavedTo(p) =>
            /\ p \in Pages /\ proc_list[cpid] # 0
            /\ mem'[p].of = <<"process", cpid>> /\ mem'[p].process = 0 /\ mem'[p].regs = cpu
      /\ \A p : SavedTo(p) /\ ~exit => p = ptr[<<"process", cpid>>] /\ p # 0
  BY SavesFacts
<1>2. cpid = idle => IdleAt(cpu)
  BY DEF KernelInv, CpuInv
<1>3. cpid = shell => ShellAt(cpu)
  BY DEF KernelInv, CpuInv
<1>4. ptr[cur] \in Pages
  BY NameFacts DEF KernelInv, TypeInv, TypeOK
<1>5. RegsInv'
  <2> SUFFICES ASSUME NEW p \in Pages, NEW t \in Pids, mem'[p].of = <<"process", t>>
               PROVE  mem'[p].regs.owner = t /\ (t = idle => IdleAt(mem'[p].regs))
    BY DEF RegsInv, IdleAt
  <2>1. CASE SavedTo(p)
    <3>1. t = cpid /\ mem'[p].regs = cpu
      BY <1>1, <2>1, KindFacts
    <3>2. cpu.owner = cpid
      BY <1>2, <1>3, <3>1, NameFacts DEF IdleAt, ShellAt
    <3> QED
      BY <1>2, <3>1, <3>2
  <2>2. CASE ~SavedTo(p)
    BY <1>1, <2>2 DEF KernelInv, RegsInv
  <2> QED
    BY <2>1, <2>2
<1>6. TextInv'
  <2>1. \A p \in Pages : mem'[p].process # 0 => mem'[p].text = ""
    BY <1>1 DEF KernelInv, TextInv
  <2>2. g_listener' => mem'[ptr'[cur]].process = 0
    BY <1>1, <1>4 DEF KernelInv, TextInv
  <2> QED
    BY <2>1, <2>2 DEF TextInv
<1>7. ASSUME mem'[0].of = <<"process", shell>>
      PROVE  exit /\ mem'[0].regs.pc \notin Early \cup Gone /\ mem'[0].regs.scan = 0
  <2>1. CASE SavedTo(0)
    <3>1. shell = cpid /\ mem'[0].regs = cpu /\ exit /\ proc_list[shell] # 0
      BY <1>1, <1>7, <2>1, KindFacts
    <3>2. ShellAt(cpu) /\ g_listener
      BY <1>3, <3>1 DEF KernelInv, PhaseInv
    <3> QED
      BY <3>1, <3>2 DEF ShellAt, Early
  <2>2. CASE ~SavedTo(0)
    <3>1. mem'[0] = mem[0]
      BY <1>1, <2>2, PageZero
    <3> QED
      BY <1>7, <3>1 DEF KernelInv, Parked
  <2> QED
    BY <2>1, <2>2
<1>8. ASSUME ~g_listener
      PROVE  mem'[ptr[cur]] = mem[ptr[cur]]
  <2>1. ~exit
    BY <1>8 DEF KernelInv, PhaseInv
  <2>2. cur # <<"process", cpid>>
    BY DEF cur
  <2> QED
    BY <2>1, <2>2, NameFacts, SavesKeep
<1>9. Tidy'
  <2> SUFFICES ASSUME ~exit
               PROVE  Tidy'
    BY DEF Tidy
  <2>1. ASSUME NEW t \in Pids, proc_list'[t] # 0
        PROVE  /\ proc_list'[t] = ptr'[<<"entry", t>>]
               /\ mem'[proc_list'[t]].of = <<"entry", t>>
               /\ mem'[proc_list'[t]].process = ptr'[<<"process", t>>]
               /\ ptr'[<<"process", t>>] # 0
    <3>1. <<"entry", t>> \in Names /\ <<"entry", t>> # <<"process", cpid>>
      BY NameFacts, KindFacts
    <3>2. mem'[ptr[<<"entry", t>>]] = mem[ptr[<<"entry", t>>]]
      BY <3>1, SavesKeep
    <3> QED
      BY <2>1, <3>2 DEF KernelInv, Tidy
  <2>2. ASSUME NEW t \in Pids, active_procs' >= t
        PROVE  /\ proc_list'[t] # 0 /\ ptr'[<<"stack", t>>] # 0
               /\ mem'[ptr'[<<"process", t>>]].of = <<"process", t>>
               /\ mem'[ptr'[<<"stack", t>>]].of = <<"stack", t>>
    <3>1. <<"stack", t>> \in Names /\ <<"stack", t>> # <<"process", cpid>>
      BY NameFacts, KindFacts
    <3>2. mem'[ptr[<<"stack", t>>]] = mem[ptr[<<"stack", t>>]]
      BY <3>1, SavesKeep
    <3>3. mem'[ptr[<<"process", t>>]].of = <<"process", t>>
      <4>1. mem[ptr[<<"process", t>>]].of = <<"process", t>>
        BY <2>2 DEF KernelInv, Tidy
      <4>2. <<"process", t>> \in Names
        BY NameFacts
      <4>3. ptr[<<"process", t>>] \in Pages
        BY <4>2 DEF KernelInv, TypeInv, TypeOK
      <4>4. CASE t = cpid
        BY <1>1, <4>1, <4>3, <4>4
      <4>5. CASE t # cpid
        BY <4>1, <4>2, <4>5, SavesKeep, KindFacts
      <4> QED
        BY <4>4, <4>5
    <3> QED
      BY <2>2, <3>2, <3>3 DEF KernelInv, Tidy
  <2>3. \A p \in BootReserved : mem'[p].of = <<"boot", 0>>
    <3> SUFFICES ASSUME NEW p \in BootReserved
                 PROVE  mem'[p].of = <<"boot", 0>>
      OBVIOUS
    <3>1. p \in Pages
      BY PageTableAssumption
    <3>2. ~SavedTo(p)
      <4> SUFFICES ASSUME SavedTo(p)
                   PROVE  FALSE
        OBVIOUS
      <4>1. p = ptr[<<"process", cpid>>] /\ p # 0 /\ <<"process", cpid>> \in Names
        BY <1>1, NameFacts DEF SavedTo
      <4> QED
        BY <4>1, OwnedPage
    <3> QED
      BY <1>1, <3>1, <3>2 DEF KernelInv, Tidy
  <2>4. /\ g_listener' => mem'[ptr'[cur]].of = Command.of
        /\ ptr'[last] # 0 => mem'[ptr'[last]].of = Command.of
    <3>1. cur # <<"process", cpid>> /\ last # <<"process", cpid>>
      BY DEF cur, last
    <3>2. mem'[ptr[cur]] = mem[ptr[cur]] /\ mem'[ptr[last]] = mem[ptr[last]]
      BY <3>1, NameFacts, SavesKeep
    <3> QED
      BY <3>2 DEF KernelInv, Tidy
  <2> QED
    BY <2>1, <2>2, <2>3, <2>4 DEF Tidy
<1> QED
  BY <1>5, <1>6, <1>7, <1>8, <1>9

\* The registers of the shell, if it is the one that is resumed or waits.
LEMMA ShellRegs ==
    ASSUME KernelInv, ~Crashed, Saves, UNCHANGED <<page_table, proc_list, ptr>>,
           UNCHANGED active_procs, UNCHANGED g_listener, UNCHANGED exit,
           NEW q \in Pages, mem'[q].of = <<"process", shell>>, proc_list[shell] # 0,
           q = process(shell) \/ (q # 0 /\ q = mem'[proc_list[shell]].process)
    PROVE  ShellAt(mem[q].regs)'
<1>1. /\ \A p \in Pages : ~SavedTo(p) => mem'[p] = mem[p]
      /\ \A p : SavedTo(p) =>
            mem'[p].of = <<"process", cpid>> /\ mem'[p].process = 0 /\ mem'[p].regs = cpu
  BY SavesFacts
<1>2. ~g_listener => mem'[ptr[cur]] = mem[ptr[cur]]
  BY SavesMemory
<1>3. CASE SavedTo(q)
  <2>1. shell = cpid /\ mem'[q].regs = cpu
    BY <1>1, <1>3, KindFacts
  <2>2. ShellAt(cpu)
    BY <2>1 DEF KernelInv, CpuInv
  <2> QED
    BY <1>2, <2>1, <2>2 DEF ShellAt, Spare, Early
<1>4. CASE ~SavedTo(q)
  <2>1. mem'[q] = mem[q]
    BY <1>1, <1>4
  <2>2. proc_list[shell] \in Pages
    BY NameFacts DEF KernelInv, TypeInv, TypeOK
  <2>3. q = mem[proc_list[shell]].process
    <3>1. CASE q = process(shell)
      <4>1. process(shell) # Wild
        BY <3>1, ProcessPage, NameFacts
      <4> QED
        BY <3>1, <4>1, ProcessPage, NameFacts
    <3>2. CASE q # 0 /\ q = mem'[proc_list[shell]].process
      BY <1>1, <2>2, <3>2
    <3> QED
      BY <3>1, <3>2
  <2>4. CASE q # 0
    <3>1. process(shell) # Wild /\ process(shell) = q
      BY <2>3, <2>4, ProcessPage, NameFacts
    <3>2. cpid # shell
      BY <1>4, <3>1, NameFacts DEF SavedTo
    <3>3. ShellAt(mem[q].regs)
      BY <2>1, <2>3, <2>4, <3>2 DEF KernelInv, Parked
    <3> QED
      BY <1>2, <2>1, <3>3 DEF ShellAt, Spare, Early
  <2>5. CASE q = 0
    <3>1. exit /\ mem[0].regs.pc \notin Early \cup Gone /\ mem[0].regs.scan = 0
      BY <2>1, <2>5 DEF KernelInv, Parked
    <3>2. mem[0].regs.owner = shell
      BY <2>1, <2>5, NameFacts DEF KernelInv, RegsInv
    <3> QED
      BY <2>1, <2>5, <3>1, <3>2 DEF ShellAt, Early
  <2> QED
    BY <2>4, <2>5
<1> QED
  BY <1>3, <1>4

LEMMA TimerStep ==
    ASSUME KernelInv, irq0_timer_handler
    PROVE  KernelInv' \/ Stopped'
<1>1. /\ page_table' = page_table /\ proc_list' = proc_list /\ active_procs' = active_procs
      /\ forking' = forking /\ ptr' = ptr /\ UNCHANGED g_listener /\ UNCHANGED exit
      /\ ~Crashed /\ schedule
  BY DEF irq0_timer_handler
<1>2. clock' \in [ticks : 0..(TicksPerSec - 1), due : BOOLEAN]
  <2>1. TicksPerSec \in Nat \ {0} /\ clock \in [ticks : 0..(TicksPerSec - 1), due : BOOLEAN]
    BY KernelAssumption DEF KernelInv, TypeInv, TypeOK
  <2>2. (clock.ticks + 1) % TicksPerSec \in 0..(TicksPerSec - 1)
    BY <2>1
  <2>3. (clock.due \/ clock.ticks + 1 = TicksPerSec) \in BOOLEAN
    BY <2>1
  <2>4. clock' = [ticks |-> (clock.ticks + 1) % TicksPerSec,
                  due |-> clock.due \/ clock.ticks + 1 = TicksPerSec]
    BY DEF irq0_timer_handler
  <2> QED
    BY <2>2, <2>3, <2>4
<1>3. CASE active_procs = 0
  <2>1. mem' = mem /\ cpid' = cpid /\ cpu' = cpu
    BY <1>1, <1>3 DEF schedule
  <2>2. TypeInv'
    BY <1>1, <1>2, <2>1 DEF KernelInv, TypeInv, TypeOK
  <2>3. TableInv' /\ RegsInv' /\ TextInv' /\ Parked' /\ Tidy' /\ PhaseInv'
    BY <1>1, <2>1, MemoryFrame
  <2>4. CountInv'
    BY <1>1, <2>1 DEF KernelInv, CountInv
  <2>5. CpuInv'
    BY <1>1, <2>1
       DEF KernelInv, CpuInv, KmainAt, Has, Of, Spare, IdleAt, ShellAt, Crashed
  <2> QED
    BY <2>2, <2>3, <2>4, <2>5 DEF KernelInv
<1>5. CASE active_procs # 0 /\ \E t \in Pids : cpid' = t /\ spill(t)
  <2>1. cpid' \in Pids /\ cpu' = Overrun /\ DOMAIN mem' = Pages
    <3>1. DOMAIN Saved = Pages
      BY DEF Saved, KernelInv, TypeInv, TypeOK
    <3> QED
      BY <1>5, <3>1 DEF spill
  <2>2. cpu'.owner = 0 /\ cpu'.stack = 0 /\ cpu'.scan = 0
    BY <2>1 DEF Overrun
  <2>3. TypeOK'
    BY <1>1, <1>2, <2>1, <2>2, PageZero DEF KernelInv, TypeInv, TypeOK
  <2>4. Exclusive' /\ AlwaysACommandBuffer'
    BY <1>1 DEF KernelInv, TableInv, Owners, PhaseInv, Exclusive, AlwaysACommandBuffer
  <2> QED
    BY <2>1, <2>3, <2>4 DEF Stopped, Spilled
<1>4. CASE active_procs # 0 /\ \E t \in Pids : Successor(t) /\ cpid' = t /\ dispatch(t)
  <2>1. PICK t \in Pids : Successor(t) /\ cpid' = t /\ cpu' = Resumed(t, mem')
    BY <1>4 DEF dispatch
  <2>2. Saves
    BY <1>4 DEF dispatch, Saved, Saves, SavedContent
  <2>3. RegsInv' /\ TextInv' /\ Tidy'
    BY <1>1, <2>2, SavesMemory
  <2>4. mem' \in [Pages -> PageContent]
    BY <1>1, <2>2, SavesFacts
  <2>5. \/ cpu' = Garbage
        \/ process(t) \in Pages /\ mem'[process(t)].of = <<"process", t>>
           /\ cpu' = mem'[process(t)].regs
    BY <2>1, ProcessPage DEF Resumed
  <2>6. cpu' \in Context
    <3>1. CASE cpu' = Garbage
      BY <3>1, GarbageFacts
    <3>2. CASE process(t) \in Pages /\ cpu' = mem'[process(t)].regs
      <4>1. mem'[process(t)] \in PageContent
        BY <2>4, <3>2
      <4> QED
        BY <3>2, <4>1 DEF PageContent
    <3> QED
      BY <2>5, <3>1, <3>2
  <2>7. TypeInv'
    BY <1>1, <1>2, <2>1, <2>4, <2>6 DEF KernelInv, TypeInv, TypeOK, Context
  <2>8. TableInv' /\ PhaseInv'
    BY <1>1 DEF KernelInv, TableInv, BootPages, Owners, PhaseInv
  <2>9. CountInv'
    BY <1>1, <1>4 DEF KernelInv, TypeInv, TypeOK, CountInv
  <2>10. CpuInv'
    <3>1. CASE cpu' = Garbage
      BY <2>1, <3>1, NameFacts DEF CpuInv, Crashed
    <3>2. CASE cpu' # Garbage
      <4>1. process(t) \in Pages /\ mem'[process(t)].of = <<"process", t>>
            /\ cpu' = mem'[process(t)].regs
        BY <2>5, <3>2
      <4>2. CASE t = idle
        <5>1. IdleAt(cpu)'
          BY <2>3, <4>1, <4>2, NameFacts DEF RegsInv, IdleAt
        <5> QED
          BY <2>1, <4>2, <5>1, NameFacts DEF CpuInv
      <4>3. CASE t = shell
        <5>1. PICK q \in Pages : q = process(shell)
          BY <4>1, <4>3
        <5>2. ShellAt(mem[q].regs)'
          BY <1>1, <2>1, <2>2, <4>1, <4>3, <5>1, ShellRegs DEF Successor
        <5>3. ShellAt(cpu)'
          BY <4>1, <4>3, <5>1, <5>2 DEF ShellAt, Spare
        <5> QED
          BY <2>1, <4>3, <5>3, NameFacts DEF CpuInv
      <4> QED
        BY <4>2, <4>3, NameFacts
    <3> QED
      BY <3>1, <3>2
  <2>11. Parked'
    <3>1. mem'[0].of = <<"process", shell>> =>
            exit' /\ mem'[0].regs.pc \notin Early \cup Gone /\ mem'[0].regs.scan = 0
      BY <1>1, <2>2, SavesMemory
    <3> DEFINE q == mem'[proc_list'[shell]].process
    <3>2. ASSUME proc_list'[shell] # 0, q # 0, mem'[q].of = <<"process", shell>>
          PROVE  ShellAt(mem[mem[proc_list[shell]].process].regs)'
      <4>1. q \in Pages
        BY <2>7, NameFacts DEF TypeInv, TypeOK, PageContent
      <4>2. PICK p \in Pages : p = q
        BY <4>1
      <4>3. ShellAt(mem[p].regs)'
        BY <1>1, <2>2, <3>2, <4>2, ShellRegs
      <4> QED
        BY <4>2, <4>3 DEF ShellAt, Spare
    <3> QED
      BY <3>1, <3>2 DEF Parked
  <2> QED
    BY <2>3, <2>7, <2>8, <2>9, <2>10, <2>11 DEF KernelInv
<1> QED
  BY <1>1, <1>3, <1>4, <1>5 DEF schedule

----------------------------------------------------------------------------
(***************************************************************************)
(* The keyboard: getch writes to the current command only, whose page is   *)
(* nobody else's.                                                          *)
(***************************************************************************)
\* Once getch is registered nothing the shell is resumed with depends on memory.
LEMMA LateShell ==
    ASSUME KernelInv, g_listener
    PROVE  /\ cpid # 0
           /\ cpid = shell => Crashed \/ (cpu.pc \notin Early /\ cpu.scan = 0)
<1>1. cpid # 0
  BY DEF KernelInv, CpuInv, KmainAt
<1> QED
  BY <1>1 DEF KernelInv, CpuInv, ShellAt, Early

\* Writing anything but registers or a pointer to the current command.
LEMMA EditStep ==
    ASSUME KernelInv, NEW lines, lines \subseteq {"", "exit", "other"}, Edit(lines)
    PROVE  KernelInv'
<1> DEFINE i == ptr[cur]
<1>1. PICK line \in lines : mem' = [mem EXCEPT ![i].text = line]
  BY DEF Edit
<1>2. /\ page_table' = page_table /\ proc_list' = proc_list /\ active_procs' = active_procs
      /\ forking' = forking /\ ptr' = ptr /\ cpu' = cpu /\ cpid' = cpid
      /\ UNCHANGED g_listener /\ UNCHANGED exit /\ UNCHANGED clock
      /\ ~Crashed /\ g_listener /\ i # 0
  BY DEF Edit, Listening, procs, ui
<1>3. i \in Pages /\ i \notin BootReserved
  BY <1>2, OwnedPage, NameFacts
<1>4. mem \in [Pages -> PageContent] /\ mem[i].process = 0
  BY <1>2 DEF KernelInv, TypeInv, TextInv
<1> HIDE DEF i
<1>5. /\ \A p \in Pages : p # i => mem'[p] = mem[p]
      /\ \A p \in Pages : mem'[p] \in PageContent /\ mem'[p].of = mem[p].of
                          /\ mem'[p].process = mem[p].process /\ mem'[p].regs = mem[p].regs
      /\ mem' \in [Pages -> PageContent]
  <2> DEFINE c == [mem[i] EXCEPT !.text = line]
  <2>1. /\ c \in PageContent /\ c.of = mem[i].of
        /\ c.process = mem[i].process /\ c.regs = mem[i].regs
    <3>1. mem[i] \in PageContent /\ line \in {"", "exit", "other"}
      BY <1>3, <1>4
    <3> QED
      BY <3>1 DEF PageContent
  <2>2. mem' = [mem EXCEPT ![i] = c]
    BY <1>1
  <2> HIDE DEF c
  <2>3. \A p \in Pages : mem'[p] = IF p = i THEN c ELSE mem[p]
    BY <1>4, <2>2
  <2>4. mem' \in [Pages -> PageContent]
    BY <1>3, <1>4, <2>1, <2>2
  <2> QED
    BY <1>4, <2>1, <2>3, <2>4
<1>6. TypeInv'
  BY <1>2, <1>5 DEF KernelInv, TypeInv, TypeOK
<1>7. TableInv' /\ PhaseInv' /\ CountInv'
  BY <1>2 DEF KernelInv, TableInv, BootPages, Owners, PhaseInv, CountInv
<1>8. CpuInv'
  <2>1. cpid # 0
    BY <1>2, LateShell
  <2>2. cpid = shell => ShellAt(cpu)'
    BY <1>2 DEF KernelInv, CpuInv, ShellAt, Spare, Early
  <2>3. cpid = idle => IdleAt(cpu)'
    BY <1>2 DEF KernelInv, CpuInv, IdleAt
  <2> QED
    BY <1>2, <2>1, <2>2, <2>3 DEF CpuInv
<1>9. RegsInv' /\ TextInv'
  <2>1. RegsInv'
    <3> SUFFICES ASSUME NEW p \in Pages, NEW t \in Pids, mem'[p].of = <<"process", t>>
                 PROVE  mem'[p].regs.owner = t /\ (t = idle => IdleAt(mem'[p].regs))
      BY DEF RegsInv, IdleAt
    <3>1. mem'[p].of = mem[p].of /\ mem'[p].regs = mem[p].regs
      BY <1>5
    <3> QED
      BY <3>1 DEF KernelInv, RegsInv
  <2>2. ASSUME NEW p \in Pages, mem'[p].process # 0
        PROVE  mem'[p].text = ""
    <3>1. p # i
      BY <1>4, <1>5, <2>2
    <3>2. mem'[p] = mem[p]
      BY <1>5, <3>1
    <3> QED
      BY <2>2, <3>2 DEF KernelInv, TextInv
  <2>3. mem'[ptr'[cur]].process = 0
    BY <1>2, <1>3, <1>4, <1>5 DEF i
  <2> QED
    BY <2>1, <2>2, <2>3 DEF TextInv
<1>10. Parked'
  <2>1. mem'[0].of = mem[0].of /\ mem'[0].regs = mem[0].regs
    BY <1>5, PageZero
  <2> DEFINE q == mem[proc_list[shell]].process
  <2>2. q \in Pages /\ mem'[proc_list[shell]].process = q
    BY <1>5, NameFacts DEF KernelInv, TypeInv, TypeOK, PageContent
  <2>3. mem'[q].of = mem[q].of /\ mem'[q].regs = mem[q].regs
    BY <1>5, <2>2
  <2>4. ASSUME cpid' # shell, proc_list'[shell] # 0, mem'[proc_list'[shell]].process # 0,
               mem'[mem'[proc_list'[shell]].process].of = <<"process", shell>>
        PROVE  ShellAt(mem[mem[proc_list[shell]].process].regs)'
    <3>1. ShellAt(mem[q].regs)
      BY <1>2, <2>2, <2>3, <2>4 DEF KernelInv, Parked
    <3> QED
      BY <1>2, <2>2, <2>3, <3>1 DEF ShellAt, Spare, Early
  <2> QED
    BY <1>2, <2>1, <2>4 DEF KernelInv, Parked
<1>11. Tidy'
  <2> SUFFICES ASSUME ~exit
               PROVE  Tidy'
    BY <1>2 DEF Tidy
  <2>1. ptr \in [Names -> Pages] /\ proc_list \in [Pids -> Pages] /\ BootReserved \subseteq Pages
    BY PageTableAssumption DEF KernelInv, TypeInv, TypeOK
  <2>2. \A n \in Names : mem'[ptr[n]].of = mem[ptr[n]].of
    BY <1>5, <2>1
  <2>3. ASSUME NEW t \in Pids
        PROVE  mem'[proc_list[t]].of = mem[proc_list[t]].of
               /\ mem'[proc_list[t]].process = mem[proc_list[t]].process
    BY <1>5, <2>1
  <2>4. ASSUME NEW t \in Pids, active_procs' >= t
        PROVE  /\ proc_list'[t] # 0 /\ ptr'[<<"stack", t>>] # 0
               /\ mem'[ptr'[<<"process", t>>]].of = <<"process", t>>
               /\ mem'[ptr'[<<"stack", t>>]].of = <<"stack", t>>
    <3>1. <<"process", t>> \in Names /\ <<"stack", t>> \in Names
      BY NameFacts
    <3> QED
      BY <1>2, <2>2, <2>4, <3>1 DEF KernelInv, Tidy
  <2>5. ASSUME NEW t \in Pids, proc_list'[t] # 0
        PROVE  /\ proc_list'[t] = ptr'[<<"entry", t>>]
               /\ mem'[proc_list'[t]].of = <<"entry", t>>
               /\ mem'[proc_list'[t]].process = ptr'[<<"process", t>>]
               /\ ptr'[<<"process", t>>] # 0
    BY <1>2, <2>3, <2>5 DEF KernelInv, Tidy
  <2>6. \A p \in BootReserved : mem'[p].of = <<"boot", 0>>
    BY <1>5, <2>1 DEF KernelInv, Tidy
  <2>7. /\ g_listener' => mem'[ptr'[cur]].of = Command.of
        /\ ptr'[last] # 0 => mem'[ptr'[last]].of = Command.of
    BY <1>2, <2>2, NameFacts DEF KernelInv, Tidy
  <2> QED
    BY <2>4, <2>5, <2>6, <2>7 DEF Tidy
<1> QED
  BY <1>6, <1>7, <1>8, <1>9, <1>10, <1>11 DEF KernelInv

LEMMA TypingStep ==
    ASSUME KernelInv, getch_text \/ getch_backspace
    PROVE  KernelInv'
<1>1. Words \subseteq {"exit", "other"}
  BY KernelAssumption
<1>2. CASE getch_text
  <2> DEFINE lines == IF mem[ptr[cur]].text = "other" THEN Words ELSE {"other"}
  <2>1. lines \subseteq {"", "exit", "other"} /\ Edit(lines)
    BY <1>1, <1>2 DEF getch_text
  <2> QED
    BY <2>1, EditStep
<1>3. CASE getch_backspace
  <2> DEFINE lines == CASE mem[ptr[cur]].text = "" -> {""}
                        [] mem[ptr[cur]].text = "exit" -> {"other"}
                        [] OTHER -> {""} \cup Words
  <2>1. Edit(lines)
    BY <1>3 DEF getch_backspace
  <2>2. lines \subseteq {"", "exit", "other"}
    BY <1>1
  <2> QED
    BY <2>1, <2>2, EditStep
<1> QED
  BY <1>2, <1>3

----------------------------------------------------------------------------
(***************************************************************************)
(* Enter: the last command is freed, the current one becomes the last, and *)
(* there is always a page for the next.                                    *)
(***************************************************************************)
LEMMA Adding ==
    ASSUME NEW S, IsFiniteSet(S), NEW k \in Nat, Cardinality(S) <= k, NEW x, NEW j, j = k + 1
    PROVE  IsFiniteSet(S \cup {x}) /\ Cardinality(S \cup {x}) <= j
<1>1. Cardinality(S) \in Nat
  BY FS_CardinalityType
<1>2. /\ IsFiniteSet(S \cup {x})
      /\ Cardinality(S \cup {x}) = IF x \in S THEN Cardinality(S) ELSE Cardinality(S) + 1
  BY FS_AddElement
<1> DEFINE before == Cardinality(S)
           after == Cardinality(S \cup {x})
<1> HIDE DEF before, after
<1>3. before \in Nat /\ before <= k /\ (after = before \/ after = before + 1)
  BY <1>1, <1>2 DEF before, after
<1>4. after <= j
  BY <1>3
<1> QED
  BY <1>2, <1>4 DEF after

LEMMA EightAtMost ==
    ASSUME NEW a, NEW b, NEW c, NEW d, NEW e, NEW f, NEW g, NEW h
    PROVE  IsFiniteSet({a, b, c, d, e, f, g, h}) /\ Cardinality({a, b, c, d, e, f, g, h}) <= 8
<1>1. PICK S1 : S1 = {} \cup {a}
  OBVIOUS
<1>2. PICK S2 : S2 = S1 \cup {b}
  OBVIOUS
<1>3. PICK S3 : S3 = S2 \cup {c}
  OBVIOUS
<1>4. PICK S4 : S4 = S3 \cup {d}
  OBVIOUS
<1>5. PICK S5 : S5 = S4 \cup {e}
  OBVIOUS
<1>6. PICK S6 : S6 = S5 \cup {f}
  OBVIOUS
<1>7. PICK S7 : S7 = S6 \cup {g}
  OBVIOUS
<1>8. PICK S8 : S8 = S7 \cup {h}
  OBVIOUS
<1>9. {a, b, c, d, e, f, g, h} = S8
  BY <1>1, <1>2, <1>3, <1>4, <1>5, <1>6, <1>7, <1>8
<1>10. 1 = 0 + 1 /\ 2 = 1 + 1 /\ 3 = 2 + 1 /\ 4 = 3 + 1 /\ 5 = 4 + 1 /\ 6 = 5 + 1
       /\ 7 = 6 + 1 /\ 8 = 7 + 1 /\ 0 \in Nat /\ 1 \in Nat /\ 2 \in Nat /\ 3 \in Nat
       /\ 4 \in Nat /\ 5 \in Nat /\ 6 \in Nat /\ 7 \in Nat /\ 0 <= 0
  OBVIOUS
<1>11. IsFiniteSet(S1) /\ Cardinality(S1) <= 1
  <2>1. IsFiniteSet({}) /\ Cardinality({}) <= 0
    BY FS_EmptySet, <1>10
  <2> QED
    BY <1>1, <1>10, <2>1, Adding, Zenon
<1>12. IsFiniteSet(S2) /\ Cardinality(S2) <= 2
  BY <1>2, <1>10, <1>11, Adding, Zenon
<1>13. IsFiniteSet(S3) /\ Cardinality(S3) <= 3
  BY <1>3, <1>10, <1>12, Adding, Zenon
<1>14. IsFiniteSet(S4) /\ Cardinality(S4) <= 4
  BY <1>4, <1>10, <1>13, Adding, Zenon
<1>15. IsFiniteSet(S5) /\ Cardinality(S5) <= 5
  BY <1>5, <1>10, <1>14, Adding, Zenon
<1>16. IsFiniteSet(S6) /\ Cardinality(S6) <= 6
  BY <1>6, <1>10, <1>15, Adding, Zenon
<1>17. IsFiniteSet(S7) /\ Cardinality(S7) <= 7
  BY <1>7, <1>10, <1>16, Adding, Zenon
<1>18. IsFiniteSet(S8) /\ Cardinality(S8) <= 8
  BY <1>8, <1>10, <1>17, Adding, Zenon
<1> QED
  BY <1>9, <1>18

\* Everybody but last_command holds eight pages at most, and there are nine.
LEMMA RoomForCommand ==
    ASSUME NEW table, NEW own \in Holdings, Owners(table, own), own[last] = 0
    PROVE  \E i \in Pages : Suits(table, i, 1)
<1> DEFINE Free == Pages \ BootReserved
           Held == {own[<<"process", idle>>], own[<<"entry", idle>>], own[<<"stack", idle>>],
                    own[<<"process", shell>>], own[<<"entry", shell>>], own[<<"stack", shell>>],
                    own[dir], own[cur]}
<1>1. IsFiniteSet(Held) /\ Cardinality(Held) <= 8
  BY EightAtMost
<1>2. \E i \in Free : table[i].used = 0
  <2> SUFFICES ASSUME \A i \in Free : table[i].used # 0
               PROVE  FALSE
    OBVIOUS
  <2>1. Free \subseteq Held
    <3> SUFFICES ASSUME NEW p \in Free
                 PROVE  p \in Held
      OBVIOUS
    <3>1. PICK n \in Names : own[n] = p
      BY DEF Owners
    <3>2. n # last
      BY <3>1, PageZero
    <3>3. \/ n \in {dir, cur}
          \/ \E kind \in Structs, t \in Pids : n = <<kind, t>>
      BY <3>2 DEF Names
    <3>4. CASE \E kind \in Structs, t \in Pids : n = <<kind, t>>
      BY <3>1, <3>4 DEF Structs, Pids
    <3> QED
      BY <3>1, <3>3, <3>4
  <2> HIDE DEF Free, Held
  <2>2. Cardinality(Free) <= 8 /\ Cardinality(Free) \in Nat
    <3>1. IsFiniteSet(Free) /\ Cardinality(Free) <= Cardinality(Held)
      BY <1>1, <2>1, FS_Subset
    <3> QED
      BY <1>1, <3>1, FS_CardinalityType
  <2> QED
    BY <2>2, KernelAssumption DEF Free
<1>3. PICK i \in Free : table[i].used = 0
  BY <1>2
<1>4. i \in FirstPage..(page_table_size - 1) /\ table[i].unusable = 0
  BY PageTableAssumption DEF Owners
<1> QED
  BY <1>3, <1>4, SuitsSingle

\* The current command becomes the last one.
LEMMA Rename ==
    ASSUME NEW table, NEW own \in Holdings, Owners(table, own), own[last] = 0
    PROVE  /\ Give(Give(own, last, own[cur]), cur, 0) \in Holdings
           /\ Owners(table, Give(Give(own, last, own[cur]), cur, 0))
<1> DEFINE new == Give(Give(own, last, own[cur]), cur, 0)
<1>1. \A n \in Names : new[n] = IF n = cur THEN 0 ELSE IF n = last THEN own[cur] ELSE own[n]
  BY NameFacts DEF Give, Holdings
<1>2. new \in Holdings
  BY NameFacts, PageZero DEF Give, Holdings
<1> HIDE DEF new
<1>3. \A m, n \in Names : m # n /\ new[m] # 0 => new[m] # new[n]
  BY <1>1, NameFacts DEF Owners
<1>4. \A n \in Names : new[n] # 0 =>
        /\ new[n] \notin BootReserved
        /\ table[new[n]].used = 1
        /\ table[new[n]].linked_to_next = 0 /\ table[new[n]].linked_to_last = 0
        /\ n \in {cur, last} => table[new[n]].pid = 0
  BY <1>1, NameFacts DEF Owners
<1>5. ASSUME NEW p \in Pages \ BootReserved
      PROVE  /\ table[p].unusable = 0
             /\ table[p].used # 0 => \E n \in Names : new[n] = p
  <2>1. ASSUME NEW m \in Names, own[m] = p
        PROVE  \E n \in Names : new[n] = p
    <3>1. m # last
      BY <2>1, PageZero
    <3>2. CASE m = cur
      BY <1>1, <2>1, <3>2, NameFacts
    <3>3. CASE m # cur
      BY <1>1, <2>1, <3>1, <3>3
    <3> QED
      BY <3>2, <3>3
  <2> QED
    BY <2>1 DEF Owners
<1> QED
  BY <1>2, <1>3, <1>4, <1>5 DEF Owners, new

\* kfree(last_command).
LEMMA LastFreed ==
    ASSUME KernelInv
    PROVE  /\ AfterKfreeLast \in Tables /\ Give(ptr, last, 0) \in Holdings
           /\ Give(ptr, last, 0)[last] = 0 /\ Give(ptr, last, 0)[cur] = ptr[cur]
           /\ \A n \in Names : n # last => Give(ptr, last, 0)[n] = ptr[n]
           /\ BootPages(AfterKfreeLast) /\ Owners(AfterKfreeLast, Give(ptr, last, 0))
           /\ \A p \in BootReserved : AfterKfreeLast[p] = page_table[p]
<1>1. /\ page_table \in Tables /\ ptr \in Holdings
      /\ BootPages(page_table) /\ Owners(page_table, ptr)
  BY DEF KernelInv, TypeInv, TypeOK, TableInv, Tables, Holdings
<1>2. /\ Give(ptr, last, 0) \in Holdings
      /\ Give(ptr, last, 0)[last] = 0 /\ Give(ptr, last, 0)[cur] = ptr[cur]
      /\ \A n \in Names : n # last => Give(ptr, last, 0)[n] = ptr[n]
  BY <1>1, PageZero, NameFacts DEF Give, Holdings
<1>3. CASE ptr[last] # 0
  <2>1. AfterKfreeLast = Freed(page_table, ptr[last]) /\ ptr[last] \in Pages
    BY <1>1, <1>3, NameFacts DEF AfterKfreeLast, Holdings
  <2>2. AfterKfreeLast \in Tables
    BY <1>1, <2>1, FreedType DEF Tables
  <2>3. BootPages(Freed(page_table, ptr[last]))
    BY <1>1, <1>3, NameFacts, Release
  <2>4. Owners(Freed(page_table, ptr[last]), Give(ptr, last, 0))
    BY <1>1, <1>3, NameFacts, Release
  <2>5. \A p \in BootReserved : Freed(page_table, ptr[last])[p] = page_table[p]
    BY <1>1, <1>3, NameFacts, Release
  <2> QED
    BY <1>2, <2>1, <2>2, <2>3, <2>4, <2>5
<1>4. CASE ptr[last] = 0
  <2>1. AfterKfreeLast = page_table
    BY <1>4 DEF AfterKfreeLast
  <2>2. Give(ptr, last, 0) = ptr
    BY <1>1, <1>4, NameFacts DEF Give, Holdings
  <2> QED
    BY <1>1, <1>2, <2>1, <2>2
<1> QED
  BY <1>3, <1>4

\* The table and the owners after enter, and the page that is taken.
LEMMA EnterTable ==
    ASSUME KernelInv, getch_enter
    PROVE  \E i \in Pages :
             /\ NewCommand(i) /\ i # 0 /\ i \notin BootReserved
             /\ \A n \in Names : n # last => ptr[n] # i
             /\ page_table' \in [Pages -> Entry] /\ ptr' \in [Names -> Pages]
             /\ BootPages(page_table') /\ Owners(page_table', ptr')
             /\ page_table'[0] = page_table[0]
<1> DEFINE table == AfterKfreeLast
           own1 == Give(ptr, last, 0)
           own2 == Give(Give(own1, last, own1[cur]), cur, 0)
<1>1. /\ table \in Tables /\ own1 \in Holdings
      /\ own1[last] = 0 /\ own1[cur] = ptr[cur]
      /\ \A n \in Names : n # last => own1[n] = ptr[n]
      /\ BootPages(table) /\ Owners(table, own1)
      /\ \A p \in BootReserved : table[p] = page_table[p]
  BY LastFreed
<1> HIDE DEF table, own1
<1>2. own2 \in Holdings /\ Owners(table, own2)
  BY <1>1, Rename
<1>3. own2[cur] = 0
  BY <1>1, NameFacts DEF Give, Holdings
<1>4. PICK i \in Pages : /\ FirstFit(table, i, 1)
                         /\ page_table' = Allocated(table, i, 1, 0)
                         /\ NewCommand(i)
  <2>1. \E i \in Pages : Suits(table, i, 1)
    BY <1>1, RoomForCommand
  <2> QED
    BY <2>1 DEF getch_enter, table
<1>5. Spare(table, i)
  BY <1>4, FoundIsSpare
<1>6. i \in Pages \ BootReserved /\ i # 0 /\ \A n \in Names : own1[n] # i
  BY <1>1, <1>5, SpareIsFree
<1>7. ptr' = Give(own2, cur, i)
  <2>1. \A n \in Names : Give(own2, cur, i)[n] =
            IF n = cur THEN i ELSE IF n = last THEN ptr[cur] ELSE ptr[n]
    BY <1>1, <1>2, NameFacts DEF Give, Holdings
  <2>2. Give(own2, cur, i) \in [Names -> Pages]
    BY <1>2 DEF Give, Holdings
  <2>3. ptr \in [Names -> Pages] /\ ptr' = [ptr EXCEPT ![last] = ptr[cur], ![cur] = i]
    BY <1>4 DEF NewCommand, KernelInv, TypeInv, TypeOK
  <2>4. \A n \in Names : ptr'[n] =
            IF n = cur THEN i ELSE IF n = last THEN ptr[cur] ELSE ptr[n]
    BY <2>3, NameFacts
  <2>5. ptr' \in [Names -> Pages]
    BY <2>3, NameFacts
  <2> HIDE DEF own2
  <2> QED
    BY <2>1, <2>2, <2>4, <2>5
<1> HIDE DEF own2
<1>8. page_table' \in [Pages -> Entry] /\ ptr' \in [Names -> Pages]
  <2>1. 0 \in 0..(TagMod - 1) /\ 1 \in Nat
    BY PageTableAssumption
  <2>2. page_table' \in [Pages -> Entry]
    BY <1>1, <1>4, <2>1, AllocatedType DEF Tables
  <2> QED
    BY <1>2, <1>7, <2>2 DEF Give, Holdings
<1>9. /\ BootPages(Allocated(table, i, 1, 0))
      /\ Owners(Allocated(table, i, 1, 0), Give(own2, cur, i))
      /\ \A p \in BootReserved : Allocated(table, i, 1, 0)[p] = table[p]
  <2>1. BootPages(Allocated(table, i, 1, 0))
    BY <1>1, <1>2, <1>3, <1>5, NameFacts, Grant
  <2>2. Owners(Allocated(table, i, 1, 0), Give(own2, cur, i))
    BY <1>1, <1>2, <1>3, <1>5, NameFacts, Grant
  <2>3. \A p \in BootReserved : Allocated(table, i, 1, 0)[p] = table[p]
    BY <1>1, <1>2, <1>3, <1>5, NameFacts, Grant
  <2> QED
    BY <2>1, <2>2, <2>3
<1>10. page_table'[0] = page_table[0]
  BY <1>1, <1>4, <1>9, PageZero
<1>11. \A n \in Names : n # last => ptr[n] # i
  BY <1>1, <1>6
<1> QED
  BY <1>4, <1>6, <1>7, <1>8, <1>9, <1>10, <1>11

LEMMA EnterStep ==
    ASSUME KernelInv, getch_enter
    PROVE  KernelInv'
<1>1. PICK i \in Pages :
        /\ NewCommand(i) /\ i # 0 /\ i \notin BootReserved
        /\ \A n \in Names : n # last => ptr[n] # i
        /\ page_table' \in [Pages -> Entry] /\ ptr' \in [Names -> Pages]
        /\ BootPages(page_table') /\ Owners(page_table', ptr')
        /\ page_table'[0] = page_table[0]
  BY EnterTable
<1>2. /\ proc_list' = proc_list /\ active_procs' = active_procs /\ forking' = forking
      /\ cpid' = cpid /\ UNCHANGED g_listener /\ UNCHANGED clock
      /\ ~Crashed /\ g_listener /\ ptr[cur] # 0
      /\ exit' \in BOOLEAN /\ (exit => exit')
  BY DEF getch_enter, Listening, procs, KernelInv, TypeInv, TypeOK
<1>3. /\ mem' = [mem EXCEPT ![i] = Command] /\ (cpu' = cpu \/ cpu' = Garbage)
      /\ ptr' = [ptr EXCEPT ![last] = ptr[cur], ![cur] = i]
  BY <1>1 DEF NewCommand
<1>4. mem \in [Pages -> PageContent] /\ cpu \in Context /\ ptr \in [Names -> Pages]
  BY DEF KernelInv, TypeInv, TypeOK
<1>5. /\ \A p \in Pages : mem'[p] = IF p = i THEN Command ELSE mem[p]
      /\ mem' \in [Pages -> PageContent]
  BY <1>3, <1>4, CommandFacts
<1>6. \A n \in Names : ptr'[n] = IF n = cur THEN i ELSE IF n = last THEN ptr[cur] ELSE ptr[n]
  BY <1>3, <1>4, NameFacts
<1>7. cpu' \in Context
  BY <1>3, <1>4, GarbageFacts
<1>8. TypeInv'
  BY <1>1, <1>2, <1>5, <1>7 DEF KernelInv, TypeInv, TypeOK, Context
<1>9. TableInv'
  <2>1. ~exit' => page_table'[0] = ReservedEntry
    BY <1>1, <1>2 DEF KernelInv, TableInv
  <2> QED
    BY <1>1, <2>1 DEF TableInv, BootPages, Owners
<1>10. PhaseInv'
  <2>1. g_listener' /\ ptr'[cur] # 0
    BY <1>1, <1>2, <1>6, NameFacts
  <2> QED
    BY <2>1 DEF PhaseInv
<1>11. CpuInv'
  <2>1. CASE cpu' = Garbage
    BY <1>2, <2>1, LateShell DEF CpuInv, Crashed
  <2>2. CASE cpu' = cpu
    <3>1. cpid = shell => ShellAt(cpu)'
      BY <1>2, <2>2 DEF KernelInv, CpuInv, ShellAt, Early
    <3>2. cpid = idle => IdleAt(cpu)'
      BY <1>2, <2>2 DEF KernelInv, CpuInv, IdleAt
    <3> QED
      BY <1>2, <3>1, <3>2, LateShell DEF CpuInv
  <2> QED
    BY <1>3, <2>1, <2>2
<1>12. CountInv'
  BY <1>2, <1>3, GarbageFacts, NameFacts DEF KernelInv, CountInv
<1>13. RegsInv'
  <2> SUFFICES ASSUME NEW p \in Pages, NEW t \in Pids, mem'[p].of = <<"process", t>>
               PROVE  mem'[p].regs.owner = t /\ (t = idle => IdleAt(mem'[p].regs))
    BY DEF RegsInv, IdleAt
  <2>1. mem'[p] = mem[p]
    BY <1>5, CommandFacts
  <2> QED
    BY <2>1 DEF KernelInv, RegsInv
<1>14. TextInv'
  <2>1. \A p \in Pages : mem'[p].process # 0 => mem'[p].text = ""
    BY <1>5, CommandFacts DEF KernelInv, TextInv
  <2>2. mem'[ptr'[cur]].process = 0
    BY <1>5, <1>6, CommandFacts, NameFacts
  <2> QED
    BY <2>1, <2>2 DEF TextInv
<1>15. Parked'
  <2>1. mem'[0] = mem[0]
    BY <1>1, <1>5, PageZero
  <2>2. ASSUME cpid' # shell, proc_list'[shell] # 0, mem'[proc_list'[shell]].process # 0,
               mem'[mem'[proc_list'[shell]].process].of = <<"process", shell>>
        PROVE  ShellAt(mem[mem[proc_list[shell]].process].regs)'
    <3> DEFINE q == mem[proc_list[shell]].process
    <3>1. proc_list[shell] \in Pages /\ q \in Pages
      <4>1. proc_list[shell] \in Pages
        BY NameFacts DEF KernelInv, TypeInv, TypeOK
      <4>2. mem[proc_list[shell]] \in PageContent
        BY <1>4, <4>1
      <4> QED
        BY <4>1, <4>2 DEF PageContent
    <3>2. mem'[proc_list'[shell]].process = q
      BY <1>2, <1>5, <2>2, <3>1, CommandFacts
    <3>3. mem'[q] = mem[q]
      BY <1>5, <2>2, <3>1, <3>2, CommandFacts
    <3>4. ShellAt(mem[q].regs)
      BY <1>2, <2>2, <3>2, <3>3 DEF KernelInv, Parked
    <3> QED
      BY <1>2, <3>2, <3>3, <3>4 DEF ShellAt, Early
  <2> QED
    BY <1>2, <2>1, <2>2 DEF KernelInv, Parked
<1>16. Tidy'
  <2> SUFFICES ASSUME ~exit'
               PROVE  Tidy'
    BY DEF Tidy
  <2>1. ASSUME NEW k \in Structs, NEW t \in Pids
        PROVE  ptr'[<<k, t>>] = ptr[<<k, t>>] /\ mem'[ptr[<<k, t>>]] = mem[ptr[<<k, t>>]]
    <3>1. <<k, t>> \in Names /\ <<k, t>> # cur /\ <<k, t>> # last
      BY NameFacts
    <3> QED
      BY <1>1, <1>4, <1>5, <1>6, <3>1
  <2>2. \A p \in BootReserved : mem'[p] = mem[p]
    BY <1>1, <1>5, PageTableAssumption
  <2>3. mem'[ptr'[cur]].of = Command.of
    BY <1>5, <1>6, NameFacts
  <2>4. mem'[ptr'[last]].of = Command.of
    <3>1. ptr'[last] = ptr[cur] /\ ptr[cur] \in Pages /\ ptr[cur] # i
      BY <1>1, <1>4, <1>6, NameFacts
    <3> QED
      BY <1>2, <1>5, <3>1 DEF KernelInv, Tidy
  <2> QED
    BY <1>2, <2>1, <2>2, <2>3, <2>4, TidyWrite DEF KernelInv
<1> QED
  BY <1>8, <1>9, <1>10, <1>11, <1>12, <1>13, <1>14, <1>15, <1>16 DEF KernelInv

----------------------------------------------------------------------------
(***************************************************************************)
(* The invariant holds initially and every step keeps it.                  *)
(***************************************************************************)
LEMMA KernelInit ==
    ASSUME Init
    PROVE  KernelInv
<1>1. /\ page_table = BootTable /\ proc_list = [p \in Pids |-> 0] /\ cpid = 0
      /\ active_procs = 0 /\ forking = idle /\ ptr = [n \in Names |-> 0]
      /\ cpu = [owner |-> 0, pc |-> "process", stack |-> 0, scan |-> 0]
      /\ ~g_listener /\ g_listener \in BOOLEAN /\ ~exit /\ exit \in BOOLEAN
      /\ clock = [ticks |-> 0, due |-> FALSE]
  BY DEF Init
<1>2. \A p \in Pages : \E kind \in {"boot", "none"} :
        mem[p] = Content(kind, 0) /\ (p \in BootReserved => kind = "boot")
  BY DEF Init
<1>3. \A kind \in {"boot", "none"} :
        /\ Content(kind, 0) \in PageContent /\ Content(kind, 0).of = <<kind, 0>>
        /\ Content(kind, 0).process = 0
  <2>1. {"boot", "none"} \subseteq Kinds /\ 0 \in Pids \cup {0}
    BY DEF Kinds
  <2> QED
    BY <2>1, ContentFacts
<1>4. \A p \in Pages :
        /\ mem[p] \in PageContent /\ mem[p].process = 0
        /\ p \in BootReserved => mem[p].of = <<"boot", 0>>
        /\ \A t : mem[p].of # <<"process", t>>
  BY <1>2, <1>3, KindFacts
<1>5. mem \in [Pages -> PageContent] /\ DOMAIN mem = Pages
  BY <1>4 DEF Init
<1>6. TypeInv
  <2>1. page_table \in [Pages -> Entry]
    BY <1>1, PageTableAssumption DEF BootTable, Entry, ReservedEntry, FreeEntry
  <2>2. cpu \in Context
    BY <1>1, PageZero DEF Context, Places
  <2>3. clock \in [ticks : 0..(TicksPerSec - 1), due : BOOLEAN]
    BY <1>1, KernelAssumption
  <2>4. proc_list \in [Pids -> Pages] /\ ptr \in [Names -> Pages]
    BY <1>1, PageZero
  <2>5. active_procs \in 0..2 /\ cpid \in Pids \cup {0} /\ forking \in Pids
    BY <1>1, NameFacts
  <2> QED
    BY <1>1, <1>5, <2>1, <2>2, <2>3, <2>4, <2>5 DEF TypeInv, TypeOK, Context
<1>7. TableInv
  <2>1. \A p \in BootReserved : page_table[p] = ReservedEntry
    BY <1>1, PageTableAssumption DEF BootTable
  <2>2. \A p \in Pages \ BootReserved : page_table[p].unusable = 0 /\ page_table[p].used = 0
    BY <1>1 DEF BootTable, FreeEntry
  <2>3. Owners(page_table, ptr)
    BY <1>1, <2>2 DEF Owners
  <2> QED
    BY <2>1, <2>3, PageZero DEF TableInv, BootPages
<1>8. KmainAt
  <2>1. \A kind \in Structs : \A t \in Pids : ptr[<<kind, t>>] = 0
    BY <1>1, NameFacts
  <2>2. ~Has("process") /\ ~Has("entry") /\ ~Has("stack")
    BY <1>1, <2>1, NameFacts DEF Has, Of
  <2>3. ptr[dir] = 0 /\ ptr[cur] = 0
    BY <1>1, NameFacts
  <2> QED
    <3>1. cpu.owner = 0 /\ cpu.pc = "process" /\ cpu.scan = 0
      BY <1>1
    <3>2. active_procs = forking - 1 /\ \A kind \in Structs : ptr[<<kind, shell>>] = 0
      <4>1. active_procs = 0 /\ forking = 1 /\ shell \in Pids
        BY <1>1, NameFacts
      <4> QED
        BY <2>1, <4>1
    <3>3. ~g_listener
      BY <1>1
    <3>4. \A p \in Pages : mem[p].of # <<"process", shell>>
      BY <1>4
    <3> QED
      BY <2>2, <2>3, <3>1, <3>2, <3>3, <3>4 DEF KmainAt
<1>9. CpuInv /\ RegsInv /\ TextInv /\ CountInv /\ PhaseInv
  <2>1. CpuInv
    BY <1>1, <1>8, NameFacts DEF CpuInv
  <2>2. RegsInv /\ TextInv
    BY <1>1, <1>4 DEF RegsInv, TextInv
  <2>3. ptr[last] = 0
    BY <1>1, NameFacts
  <2> QED
    BY <1>1, <2>1, <2>2, <2>3 DEF CountInv, PhaseInv
<1>10. Parked /\ Tidy
  <2>1. proc_list[shell] = 0 /\ \A t \in Pids : proc_list[t] = 0 /\ ~(active_procs >= t)
    BY <1>1, NameFacts
  <2>2. ptr[last] = 0
    BY <1>1, NameFacts
  <2>3. Parked
    BY <1>4, <2>1, PageZero DEF Parked
  <2>4. Tidy
    BY <1>1, <1>4, <2>1, <2>2, PageTableAssumption DEF Tidy
  <2> QED
    BY <2>3, <2>4
<1> QED
  BY <1>6, <1>7, <1>9, <1>10 DEF KernelInv

LEMMA KernelNext ==
    ASSUME KernelInv, [Next]_vars
    PROVE  KernelInv' \/ Stopped'
<1>1. CASE Next
  BY <1>1, KmainStep, EshellStep, TimerStep, TypingStep, EnterStep DEF Next
<1>2. CASE UNCHANGED vars
  <2>1. /\ UNCHANGED <<page_table, mem, proc_list, ptr>> /\ UNCHANGED <<cpid, active_procs>>
        /\ UNCHANGED forking /\ UNCHANGED cpu
        /\ UNCHANGED g_listener /\ UNCHANGED exit /\ UNCHANGED clock
    BY <1>2 DEF vars, procs, ui
  <2>2. TableInv' /\ RegsInv' /\ TextInv' /\ Parked' /\ Tidy' /\ PhaseInv'
    BY <2>1, MemoryFrame
  <2>3. TypeInv'
    BY <2>1 DEF KernelInv, TypeInv, TypeOK
  <2>4. CountInv'
    BY <2>1 DEF KernelInv, CountInv
  <2>5. CpuInv'
    BY <2>1 DEF KernelInv, CpuInv, KmainAt, Has, Of, Spare, IdleAt, ShellAt, Crashed
  <2> QED
    BY <2>2, <2>3, <2>4, <2>5 DEF KernelInv
<1> QED
  BY <1>1, <1>2

\* Nothing happens after a stack has left its page.
LEMMA StoppedNext ==
    ASSUME Stopped, [Next]_vars
    PROVE  Stopped'
<1>1. cpu.owner = 0 /\ cpu.pc = "spilled" /\ Spilled
  BY DEF Stopped, Spilled, Overrun
<1>2. ~kmain
  BY <1>1 DEF kmain, kfork_process, kfork_entry, kfork_publish, kfork_stack, kfork_regs,
              kfork_count, InKfork
<1>3. ~eshell
  BY <1>1 DEF eshell, eshell_dir, eshell_cur, eshell_clear, register_kb_listener, eshell_loop,
              exit_v, kfree_pid, exit_v_unlist, exit_v_uncount, InShell, shell
<1>4. ~irq0_timer_handler /\ ~getch_text /\ ~getch_backspace /\ ~getch_enter
  BY <1>1 DEF irq0_timer_handler, getch_text, getch_backspace, getch_enter, Edit, Listening
<1>5. UNCHANGED vars
  BY <1>2, <1>3, <1>4 DEF Next
<1> QED
  BY <1>5 DEF vars, procs, ui, Stopped, Spilled, TypeOK, Exclusive, AlwaysACommandBuffer

\* KernelInv holds in every state of the running system, until a stack leaves its page:
\* whatever the timer and the keyboard cut in two, contexts, saved registers and page
\* owners agree.
THEOREM KernelInvariant == Spec => [](KernelInv \/ Stopped)
<1>1. Init => KernelInv
  BY KernelInit
<1>2. (KernelInv \/ Stopped) /\ [Next]_vars => (KernelInv \/ Stopped)'
  BY KernelNext, StoppedNext
<1> QED
  BY <1>1, <1>2, PTL DEF Spec

\* Every variable keeps its type: the count of active processes stays between 0
\* and 2 through exit_v and the timer, and the stack and kmalloc's page are pages.
THEOREM KernelTypes == Spec => []TypeOK
<1>1. KernelInv \/ Stopped => TypeOK
  BY DEF KernelInv, TypeInv, Stopped
<1> QED
  BY <1>1, KernelInvariant, PTL

\* No page has two owners, however kmalloc's search and its write are interleaved
\* with the timer, getch's own kmalloc and kfree, and exit_v's frees.
THEOREM ExclusiveAlways == Spec => []Exclusive
<1>1. KernelInv \/ Stopped => Exclusive
  BY DEF KernelInv, TableInv, Owners, Exclusive, Stopped
<1> QED
  BY <1>1, KernelInvariant, PTL

\* getch always has a command buffer: eight other pages are held at most, and the
\* machine has nine, so kmalloc on enter never returns 0.
THEOREM CommandBufferAlways == Spec => []AlwaysACommandBuffer
<1>1. KernelInv \/ Stopped => AlwaysACommandBuffer
  BY DEF KernelInv, PhaseInv, AlwaysACommandBuffer, Stopped
<1> QED
  BY <1>1, KernelInvariant, PTL

\* Until exit is typed or a stack leaves its page, kmalloc, kfree, getch and schedule
\* leave the memory below 1MB and the page table's own pages alone.
THEOREM BootMemoryAlways == Spec => []BootMemoryIntact
<1>1. KernelInv \/ Stopped => BootMemoryIntact
  <2> SUFFICES ASSUME KernelInv, ~exit, NEW p \in BootReserved
               PROVE  page_table[p] = ReservedEntry /\ mem[p].of = <<"boot", 0>>
    BY DEF BootMemoryIntact, Stopped
  <2>1. page_table[p] = ReservedEntry
    BY DEF KernelInv, TableInv, BootPages
  <2> QED
    BY <2>1 DEF KernelInv, Tidy
<1> QED
  BY <1>1, KernelInvariant, PTL

\* Until exit is typed or a stack leaves its page, nothing is written over a structure
\* of a process or a command, and the registers schedule saved for a process are its own.
THEOREM NothingOverwrittenAlways == Spec => []NothingOverwritten
<1>1. KernelInv \/ Stopped => NothingOverwritten
  <2> SUFFICES ASSUME KernelInv, ~exit
               PROVE  NothingOverwritten
    BY DEF NothingOverwritten, Stopped
  <2>1. /\ g_listener => mem[ptr[cur]].of = Command.of
        /\ ptr[last] # 0 => mem[ptr[last]].of = Command.of
    BY DEF KernelInv, Tidy
  <2>2. ASSUME NEW t \in Pids, active_procs >= t
        PROVE  /\ \A kind \in Structs : mem[ptr[<<kind, t>>]].of = <<kind, t>>
               /\ mem[ptr[<<"process", t>>]].regs.owner = t
    <3>1. /\ mem[ptr[<<"process", t>>]].of = <<"process", t>>
          /\ mem[ptr[<<"stack", t>>]].of = <<"stack", t>>
          /\ mem[ptr[<<"entry", t>>]].of = <<"entry", t>>
      BY <2>2 DEF KernelInv, Tidy
    <3>2. ptr[<<"process", t>>] \in Pages
      BY NameFacts DEF KernelInv, TypeInv, TypeOK
    <3> QED
      BY <3>1, <3>2 DEF KernelInv, RegsInv, Structs
  <2> QED
    BY <2>1, <2>2 DEF NothingOverwritten
<1> QED
  BY <1>1, KernelInvariant, PTL
==========================================================================
