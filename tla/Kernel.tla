----------------------------- MODULE Kernel -----------------------------
(***************************************************************************)
(* The running system: kmain starts idle and the emergency shell, the      *)
(* timer switches between them, and the keyboard interrupt runs the        *)
(* shell's getch on whatever stack is current.  All of them allocate from  *)
(* one page table.                                                         *)
(*                                                                         *)
(* A step of kmain, eshell or exit_v is as much of it as an interrupt sees *)
(* as one; kmalloc in those is two steps, the search and the write.  The   *)
(* timer and keyboard handlers run with interrupts disabled and are one    *)
(* step each.  A page's contents are abstracted to what wrote it last.     *)
(* Every dispatch leaves a process's stack pointer lower than it was; how  *)
(* many it takes until a frame falls below the stack's page is not         *)
(* counted, so any dispatch may be the one.                                *)
(* Acknowledging interrupts is the subject of Scheduler.tla; here the      *)
(* timer always ticks again.                                               *)
(***************************************************************************)
EXTENDS PageTable, FiniteSets

CONSTANTS
    Words,        \* the lines that may be typed, among them "exit"
    TicksPerSec   \* 18, the ticks after which `seconds' advances

ASSUME KernelAssumption ==
    /\ Words \subseteq {"exit", "other"}
    /\ TicksPerSec \in Nat \ {0}
    \* Enough memory to boot: three pages for each process and the shell's three.
    /\ Cardinality(Pages \ BootReserved) >= 9

VARIABLES
    page_table,
    mem,            \* the contents of every page
    proc_list,      \* the page of each process's entry, or 0
    cpid,
    active_procs,
    cpu,            \* the context the processor is executing
    forking,        \* the process kmain's kfork is starting
    ptr,            \* the page each owner holds, or 0
    g_listener,     \* getch is registered as the keyboard listener
    exit,           \* eshell_settings.exit
    clock           \* ticks since the last second, and whether `seconds' has
                    \* passed wait_secs's start

procs == <<proc_list, cpid, active_procs, forking>>
ui == <<g_listener, exit, clock>>
vars == <<page_table, mem, procs, cpu, ptr, ui>>

idle == 1
shell == 2
Pids == {idle, shell}

\* The owners of pages: the structures of each process and the shell's pointers.
Structs == {"process", "entry", "stack"}
dir == <<"dir", shell>>
cur == <<"current_command", shell>>
last == <<"last_command", shell>>
Names == (Structs \X Pids) \cup {dir, cur, last}

(***************************************************************************)
(* A context is a process (0: kmain), a place in its code, the page its    *)
(* stack pointer is in (0: the boot stack) and the page a kmalloc in       *)
(* progress has found.                                                     *)
(***************************************************************************)
Garbage == [owner |-> 0, pc |-> "garbage", stack |-> 0, scan |-> 0]

Crashed == cpu = Garbage

\* A stack has been written over the page below it.  Nothing is modelled after that.
Overrun == [owner |-> 0, pc |-> "spilled", stack |-> 0, scan |-> 0]

Spilled == cpu = Overrun

\* The running code reaches the next place.
Goto(place) == cpu' = [cpu EXCEPT !.pc = place, !.scan = 0]

(***************************************************************************)
(* What a page holds: which structure was written there last, and the part *)
(* of it that matters (a line of text, a process pointer, registers).      *)
(***************************************************************************)
Content(kind, pid) == [of |-> <<kind, pid>>, text |-> "", process |-> 0, regs |-> Garbage]

Command == Content("command", shell)

Init ==
    /\ page_table = BootTable
    /\ mem = [p \in Pages |-> Content(IF p \in BootReserved THEN "boot" ELSE "none", 0)]
    /\ proc_list = [p \in Pids |-> 0]
    /\ cpid = 0
    /\ active_procs = 0
    /\ cpu = [owner |-> 0, pc |-> "process", stack |-> 0, scan |-> 0]
    /\ forking = idle
    /\ ptr = [n \in Names |-> 0]
    /\ g_listener = FALSE
    /\ exit = FALSE
    /\ clock = [ticks |-> 0, due |-> FALSE]

----------------------------------------------------------------------------
(***************************************************************************)
(* kmalloc(1, ...) or kumalloc(1, ...) called with interrupts enabled, its *)
(* result going to owner n: the search stops at a page, and the entry is   *)
(* written later.                                                          *)
(***************************************************************************)
Search ==
    /\ cpu.scan = 0
    /\ \E i \in Pages : FirstFit(page_table, i, 1) /\ cpu' = [cpu EXCEPT !.scan = i]
    /\ UNCHANGED <<page_table, ptr>>

Take(n, tag, next) ==
    /\ cpu.scan # 0
    /\ page_table' = Allocated(page_table, cpu.scan, 1, tag)
    /\ ptr' = [ptr EXCEPT ![n] = cpu.scan]
    /\ Goto(next)

AllocateIn(n, tag, next) ==
    /\ Search \/ Take(n, tag, next)
    /\ UNCHANGED <<mem, procs, ui>>

----------------------------------------------------------------------------
(***************************************************************************)
(* kmain's two kforks.  cpid stays 0 until the first dispatch, and nothing *)
(* brings kmain back after it.                                             *)
(***************************************************************************)
InKfork(place) == cpu.owner = 0 /\ cpu.pc = place

Of(kind) == <<kind, forking>>

\* The place in the code where a new process starts: idle's loop or eshell.
Function(p) == IF p = idle THEN "idle" ELSE "dir"

kfork_process == InKfork("process") /\ AllocateIn(Of("process"), 0, "entry")

kfork_entry == InKfork("entry") /\ AllocateIn(Of("entry"), 0, "publish")

\* register_process fills in the entry and stores it in proc_list.
kfork_publish ==
    /\ InKfork("publish")
    /\ mem' = [mem EXCEPT ![ptr[Of("entry")]] =
                   [Content("entry", forking) EXCEPT !.process = ptr[Of("process")]]]
    /\ proc_list' = [proc_list EXCEPT ![forking] = ptr[Of("entry")]]
    /\ Goto("stack")
    /\ UNCHANGED <<page_table, cpid, active_procs, forking, ptr, ui>>

kfork_stack == InKfork("stack") /\ AllocateIn(Of("stack"), Tag(forking), "regs")

\* Fault: the stack grows down from its base, into the page below.
kfork_regs_base ==
    /\ InKfork("regs")
    /\ mem' = [mem EXCEPT
                 ![ptr[Of("process")]] = [Content("process", forking) EXCEPT
                    !.regs = [owner |-> forking, pc |-> Function(forking),
                              stack |-> ptr[Of("stack")] - 1, scan |-> 0]],
                 ![ptr[Of("stack")] - 1] = Content("stack", forking)]
    /\ Goto("count")
    /\ UNCHANGED <<page_table, procs, ptr, ui>>

\* The registers are written, and push_args writes to the new stack.
kfork_regs ==
    /\ InKfork("regs")
    /\ mem' = [mem EXCEPT
                 ![ptr[Of("process")]] = [Content("process", forking) EXCEPT
                    !.regs = [owner |-> forking, pc |-> Function(forking),
                              stack |-> ptr[Of("stack")], scan |-> 0]],
                 ![ptr[Of("stack")]] = Content("stack", forking)]
    /\ Goto("count")
    /\ UNCHANGED <<page_table, procs, ptr, ui>>

\* Fault: register_process counts the process as well.
kfork_count_twice ==
    /\ InKfork("count")
    /\ active_procs' = active_procs + 2
    /\ \/ forking = idle /\ forking' = shell /\ Goto("process")
       \/ forking = shell /\ Goto("halt") /\ UNCHANGED forking
    /\ UNCHANGED <<page_table, mem, proc_list, cpid, ptr, ui>>

\* After idle kmain forks eshell; after that it returns to kentry's jmp $.
kfork_count ==
    /\ InKfork("count")
    /\ active_procs' = active_procs + 1
    /\ \/ forking = idle /\ forking' = shell /\ Goto("process")
       \/ forking = shell /\ Goto("halt") /\ UNCHANGED forking
    /\ UNCHANGED <<page_table, mem, proc_list, cpid, ptr, ui>>

kmain ==
    \/ kfork_process
    \/ kfork_entry
    \/ kfork_publish
    \/ kfork_stack
    \/ kfork_regs
    \/ kfork_count

----------------------------------------------------------------------------
\* The shell is running, at `place' of eshell or exit_v.
InShell(place) == cpu.owner = shell /\ cpu.pc = place

eshell_dir == InShell("dir") /\ AllocateIn(dir, 0, "cur")

eshell_cur == InShell("cur") /\ AllocateIn(cur, 0, "clear")

\* The directory has been written and the first command buffer is cleared.
eshell_clear ==
    /\ InShell("clear")
    /\ mem' = [mem EXCEPT ![ptr[dir]] = Content("dir", shell), ![ptr[cur]] = Command]
    /\ Goto("listen")
    /\ UNCHANGED <<page_table, procs, ptr, ui>>

register_kb_listener ==
    /\ InShell("listen")
    /\ g_listener' = TRUE
    /\ Goto("loop")
    /\ UNCHANGED <<page_table, mem, procs, ptr, exit, clock>>

\* while(!exit) with two waits of a second; wait_secs(1) notes the second it is
\* and wait_secs(0) asks whether it has passed.
eshell_loop ==
    /\ \/ InShell("loop") /\ ~exit /\ Goto("wait_on") /\ clock' = [clock EXCEPT !.due = FALSE]
       \/ InShell("wait_on") /\ clock.due /\ Goto("wait_off") /\ clock' = [clock EXCEPT !.due = FALSE]
       \/ InShell("wait_off") /\ clock.due /\ Goto("loop") /\ UNCHANGED clock
       \/ InShell("loop") /\ exit /\ Goto("free_pages") /\ UNCHANGED clock
    /\ UNCHANGED <<page_table, mem, procs, ptr, g_listener, exit>>

(***************************************************************************)
(* exit_v: kfree_pid frees every page tagged with the shell's pid, that is *)
(* the stack it is running on; then the process and its entry are freed,   *)
(* the slot is cleared and the count lowered.                              *)
(***************************************************************************)
Tagged(p) == p >= FirstPage /\ page_table[p].pid = shell

kfree_pid ==
    /\ InShell("free_pages")
    /\ page_table' = [p \in Pages |-> IF Tagged(p) THEN ZeroEntry ELSE page_table[p]]
    /\ ptr' = [n \in Names |-> IF Tagged(ptr[n]) THEN 0 ELSE ptr[n]]
    /\ Goto("free_process")
    /\ UNCHANGED <<mem, procs, ui>>

exit_v_kfree(kind, next) ==
    /\ page_table' = Freed(page_table, ptr[<<kind, shell>>])
    /\ ptr' = [ptr EXCEPT ![<<kind, shell>>] = 0]
    /\ Goto(next)
    /\ UNCHANGED <<mem, procs, ui>>

exit_v_unlist ==
    /\ InShell("unlist")
    /\ proc_list' = [proc_list EXCEPT ![shell] = 0]
    /\ Goto("uncount")
    /\ UNCHANGED <<page_table, mem, cpid, active_procs, forking, ptr, ui>>

exit_v_uncount ==
    /\ InShell("uncount")
    /\ active_procs' = active_procs - 1
    /\ Goto("spin")
    /\ UNCHANGED <<page_table, mem, proc_list, cpid, forking, ptr, ui>>

exit_v ==
    \/ kfree_pid
    \/ InShell("free_process") /\ exit_v_kfree("process", "free_entry")
    \/ InShell("free_entry") /\ exit_v_kfree("entry", "unlist")
    \/ exit_v_unlist
    \/ exit_v_uncount

eshell ==
    \/ eshell_dir
    \/ eshell_cur
    \/ eshell_clear
    \/ register_kb_listener
    \/ eshell_loop
    \/ exit_v

----------------------------------------------------------------------------
\* A pointer read from a page of text, or through an empty slot: it is outside
\* the memory the machine has.
Wild == -1

\* proc_list[p]->process, read from the entry's page whatever is there by now; a
\* page kmemset has cleared reads as a null pointer.
process(p) ==
    IF proc_list[p] = 0 \/ mem[proc_list[p]].text # "" THEN Wild
                                                       ELSE mem[proc_list[p]].process

\* The slot schedule comes to first after cpid.
Successor(t) ==
    /\ proc_list[t] # 0
    /\ \A s \in Pids : proc_list[s] # 0 /\ s # t => s = cpid \/ (cpid = 0 /\ t < s)

\* The processor resumes t from the registers at its process pointer, by way of a
\* frame below the stack pointer they hold: 28 bytes lower than t was, in a page that
\* holds t's stack.  Nothing good comes of it when registers or stack are not t's.
Resumed(t, memory) ==
    LET saved == memory[process(t)] IN
    IF /\ process(t) # Wild
       /\ saved.of = <<"process", t>>
       /\ memory[saved.regs.stack].of = <<"stack", t>>
    THEN saved.regs ELSE Garbage

\* Memory after the registers have been saved: to the page the entry of cpid points
\* to, whatever that page is used for by now, and not at all for kmain.
Saved ==
    IF cpid # 0 /\ process(cpid) # Wild
    THEN [mem EXCEPT ![process(cpid)] =
            [Content("process", cpid) EXCEPT !.regs = cpu, !.text = "other"]]
    ELSE mem

\* The frame still fits the stack's page.
dispatch(t) == mem' = Saved /\ cpu' = Resumed(t, mem')

\* It does not, after some hundred dispatches: it is written over the page below.
spill(t) ==
    /\ Resumed(t, Saved) # Garbage
    /\ mem' = [Saved EXCEPT ![Resumed(t, Saved).stack - 1] = Content("stack", t)]
    /\ cpu' = Overrun

schedule ==
    \/ /\ active_procs = 0
       /\ UNCHANGED <<mem, cpid, cpu>>
    \/ /\ active_procs # 0
       /\ \E t \in Pids : Successor(t) /\ cpid' = t /\ (dispatch(t) \/ spill(t))

\* Fault: the ticks of a second are counted one too far.
irq0_timer_handler_never ==
    /\ ~Crashed /\ ~Spilled
    /\ schedule
    /\ clock' = [ticks |-> (clock.ticks + 1) % TicksPerSec,
                 due |-> clock.due \/ clock.ticks + 1 > TicksPerSec]
    /\ UNCHANGED <<page_table, proc_list, active_procs, forking, ptr, g_listener, exit>>

\* The timer interrupt: the time, then schedule.
irq0_timer_handler ==
    /\ ~Crashed /\ ~Spilled
    /\ schedule
    /\ clock' = [ticks |-> (clock.ticks + 1) % TicksPerSec,
                 due |-> clock.due \/ clock.ticks + 1 = TicksPerSec]
    /\ UNCHANGED <<page_table, proc_list, active_procs, forking, ptr, g_listener, exit>>

(***************************************************************************)
(* The keyboard interrupt: ps2_handler, kb_listener and, once it is        *)
(* registered, getch with the command it is in the middle of.  A line is   *)
(* empty, exit, or anything else (the beginning of exit included).         *)
(***************************************************************************)
Listening == ~Crashed /\ ~Spilled /\ g_listener /\ ptr[cur] # 0

Edit(lines) ==
    /\ Listening
    /\ \E line \in lines : mem' = [mem EXCEPT ![ptr[cur]].text = line]
    /\ UNCHANGED <<page_table, procs, cpu, ptr, ui>>

\* A printable character is appended; it takes more than one to spell exit.
getch_text == Edit(IF mem[ptr[cur]].text = "other" THEN Words ELSE {"other"})

\* A backspace takes one away; on an empty line it clears the last byte of the
\* page below, which no structure uses.
getch_backspace ==
    Edit(CASE mem[ptr[cur]].text = "" -> {""}
           [] mem[ptr[cur]].text = "exit" -> {"other"}
           [] OTHER -> {""} \cup Words)

\* Fault: the last command is not freed.
AfterKfreeNothing == page_table

\* Fault: the current command, which becomes the last one, is freed instead.
AfterKfreeCurrent == Freed(page_table, ptr[cur])

\* The table after kfree(last_command), which is called if it is not 0.
AfterKfreeLast == IF ptr[last] # 0 THEN Freed(page_table, ptr[last]) ELSE page_table

\* current_command = kmalloc(1, 6), not checked, and kmemset on the result: the
\* processor does not get back from a stack it has cleared.
NewCommand(i) ==
    /\ ptr' = [ptr EXCEPT ![last] = ptr[cur], ![cur] = i]
    /\ mem' = [mem EXCEPT ![i] = Command]
    /\ cpu' = IF cpu.owner # 0 /\ cpu.stack = i THEN Garbage ELSE cpu

\* Enter: exec_command, then the next command buffer.
getch_enter ==
    /\ Listening
    /\ exit' = (exit \/ mem[ptr[cur]].text = "exit")
    /\ \/ \E i \in Pages :
            /\ FirstFit(AfterKfreeLast, i, 1)
            /\ page_table' = Allocated(AfterKfreeLast, i, 1, 0)
            /\ NewCommand(i)
       \/ /\ \A i \in Pages : ~Suits(AfterKfreeLast, i, 1)
          /\ page_table' = AfterKfreeLast
          /\ NewCommand(0)
    /\ UNCHANGED <<procs, g_listener, clock>>

Next ==
    \/ kmain
    \/ eshell
    \/ irq0_timer_handler
    \/ getch_text
    \/ getch_backspace
    \/ getch_enter

Spec == Init /\ [][Next]_vars

(***************************************************************************)
(* A dispatched process executes for 55ms before the next tick, so code    *)
(* that is dispatched again and again gets on; the PIT goes on ticking.    *)
(***************************************************************************)
FairSpec == Spec /\ SF_vars(kmain) /\ SF_vars(eshell) /\ WF_vars(irq0_timer_handler)

----------------------------------------------------------------------------
\* Every variable has its type; a process and its count come and go together.
TypeOK ==
    /\ page_table \in [Pages -> Entry]
    /\ DOMAIN mem = Pages
    /\ proc_list \in [Pids -> Pages]
    /\ cpid \in Pids \cup {0} /\ forking \in Pids
    /\ active_procs \in 0..2
    /\ cpu.owner \in Pids \cup {0} /\ cpu.stack \in Pages /\ cpu.scan \in Pages
    /\ ptr \in [Names -> Pages]
    /\ g_listener \in BOOLEAN /\ exit \in BOOLEAN
    /\ clock \in [ticks : 0..(TicksPerSec - 1), due : BOOLEAN]

\* No page has two owners, and every owned page is a usable one marked used: a
\* kmalloc cut in two by the timer or the keyboard never hands out a page that
\* another one got.
Exclusive ==
    /\ \A m, n \in Names : m # n /\ ptr[m] # 0 => ptr[m] # ptr[n]
    /\ \A n \in Names : ptr[n] # 0 =>
        ptr[n] \notin BootReserved /\ page_table[ptr[n]].used = 1

\* Typing never exhausts memory: getch frees a command buffer for each one it
\* takes, so once the shell listens there is always a current one.
AlwaysACommandBuffer == g_listener => ptr[cur] # 0

\* As long as the shell is not told to exit and the stacks stay in their pages, the
\* memory below 1MB and the page table are never given away or written to, by getch
\* and schedule included.
BootMemoryIntact ==
    ~exit /\ ~Spilled => \A p \in BootReserved : page_table[p] = ReservedEntry /\ mem[p].of = <<"boot", 0>>

\* As long as the shell is not told to exit and the stacks stay in their pages - the
\* frames that schedule writes go lower with every dispatch - what a process or the
\* shell keeps in a page is what is there: nothing that runs in between wrote over it,
\* and the registers saved for a process are its own.
NothingOverwritten == ~exit /\ ~Spilled =>
    /\ g_listener => mem[ptr[cur]].of = Command.of
    /\ ptr[last] # 0 => mem[ptr[last]].of = Command.of
    /\ \A p \in Pids : active_procs >= p =>
        /\ \A kind \in Structs : mem[ptr[<<kind, p>>]].of = <<kind, p>>
        /\ mem[ptr[<<"process", p>>]].regs.owner = p

\* Typing exit ends the shell: its slot is cleared, unless the machine crashes or a
\* stack leaves its page before.
ExitEnds == exit ~> (proc_list[shell] = 0 \/ Crashed \/ Spilled)

\* A shell that is told to exit ends without taking the machine with it.
ExitIsSafe == exit => ~Crashed
==========================================================================
